-------------------------- MODULE WorkItemsCounts ---------------------------
(***************************************************************************)
(* The Work Items counts of one user and role, as the backend processes    *)
(* cache them: backend/internal/workitems/cache.go and revision.go over    *)
(* readcache/flight.go and readcache/store.go.                             *)
(*                                                                         *)
(* Every mutation of the counted tables changes the revision in its own    *)
(* transaction (RevisionTracksWorkItems of QuotaReset), so a query result  *)
(* is named by the revision at which it was taken.  Revisions are UUIDs,   *)
(* here numbers that are never used twice.  Redis may lose, expire or fail *)
(* to answer anything; a process may die and leave its lease behind.       *)
(***************************************************************************)
EXTENDS ReadFlight

CONSTANTS Callers,      \* HTTP requests for the counts
          Home,         \* the process a caller runs in
          MaxRevision,  \* bound: how often the counted tables change
          Faults        \* which kinds of fault happen

ASSUME WorkItemsCountsAssumption ==
    /\ Nodes # {}
    /\ MaxRevision \in Nat
    /\ Keys = 0..MaxRevision
    /\ Home \in [Callers -> Nodes]
    /\ Faults \subseteq {"redis", "database", "context", "timeout", "crash"}

VARIABLES rev,     \* work_items_counts_revision_v1
          value,   \* Redis: the stored counts of each key
          lease,   \* Redis: the token under each key's lease
          load,    \* what each load goroutine holds
          caller   \* what each caller holds

cacheVars == <<value, lease>>
vars == <<flight, waiters, state, rev, value, lease, load, caller>>

-----------------------------------------------------------------------------

(* loadCounts: the approvals are queried first, then the Relay is asked for  *)
(* the AI access (complete: it answered), then the other queues are queried. *)
Counts == [approvals : Keys, others : Keys, complete : BOOLEAN]

Unknown == MaxRevision + 1

NoCounts == [approvals |-> Unknown, others |-> Unknown, complete |-> FALSE]
Results == [approvals : 0..Unknown, others : 0..Unknown, complete : BOOLEAN]

LoadPcs == {"none", "read", "acquire", "poll", "ttl", "reread", "query", "rest",
            "check", "set", "release", "finish", "done"}

(* holder: the load has the lease (its token is the load itself); direct:    *)
(* loadAuthoritative, nothing will be stored; err: the load is an error.     *)
Load == [pc : LoadPcs, node : Nodes, key : Keys, counts : Results,
         holder : BOOLEAN, direct : BOOLEAN, err : BOOLEAN]

NoneLoad == [pc |-> "none", node |-> CHOOSE n \in Nodes : TRUE, key |-> 0,
             counts |-> NoCounts, holder |-> FALSE, direct |-> FALSE, err |-> FALSE]

CallerPcs == {"idle", "revision", "do", "wait", "recheck", "returned"}

(* since: the revision when the call was made (nothing in the code; the      *)
(* properties refer to it).                                                  *)
Caller == [pc : CallerPcs, key : Keys, on : Loads \cup {NoLoad}, counts : Results,
           err : BOOLEAN, since : Keys]

IdleCaller == [pc |-> "idle", key |-> 0, on |-> NoLoad, counts |-> NoCounts,
               err |-> FALSE, since |-> 0]

Waiting(l) == {c \in Callers : caller[c].pc = "wait" /\ caller[c].on = l}

(* Bound: a call is reused once nobody can see it any more.                  *)
Unused(l) ==
    /\ load[l].pc \in {"none", "done"}
    /\ Waiting(l) = {}
    /\ \A k \in Keys : lease[k] # l

-----------------------------------------------------------------------------
(* GetOrLoad                                                                 *)

Moves(l, r) == load' = [load EXCEPT ![l] = r]

Becomes(c, r) == caller' = [caller EXCEPT ![c] = r]

Call(c) ==
    /\ caller[c].pc = "idle"
    /\ Becomes(c, [IdleCaller EXCEPT !.pc = "revision", !.since = rev])
    /\ UNCHANGED <<flightVars, rev, cacheVars, load>>

ReadRevision(c) ==
    /\ caller[c].pc = "revision"
    /\ Becomes(c, [caller[c] EXCEPT !.pc = "do", !.key = rev])
    /\ UNCHANGED <<flightVars, rev, cacheVars, load>>

(* flights.Do                                                                *)
JoinFlight(c, l) ==
    /\ caller[c].pc = "do"
    /\ Join(Home[c], caller[c].key, l)
    /\ Becomes(c, [caller[c] EXCEPT !.pc = "wait", !.on = l])
    /\ UNCHANGED <<rev, cacheVars, load>>

StartFlight(c, l) ==
    /\ caller[c].pc = "do"
    /\ Unused(l)
    /\ Start(Home[c], caller[c].key, l)
    /\ Moves(l, [NoneLoad EXCEPT !.pc = "read", !.node = Home[c], !.key = caller[c].key])
    /\ Becomes(c, [caller[c] EXCEPT !.pc = "wait", !.on = l])
    /\ UNCHANGED <<rev, cacheVars>>

(* The shared result: an error is returned, counts are checked once more.    *)
TakeResult(c) ==
    LET l == caller[c].on
    IN /\ caller[c].pc = "wait"
       /\ state[l] = "completed"
       /\ Becomes(c, [caller[c] EXCEPT !.pc = IF load[l].err THEN "returned" ELSE "recheck",
                                       !.on = NoLoad,
                                       !.err = load[l].err,
                                       !.counts = load[l].counts])
       /\ UNCHANGED <<flightVars, rev, cacheVars, load>>

(* Mutant: the revision is not read again.                                   *)
RecheckNothing(c) ==
    /\ caller[c].pc = "recheck"
    /\ Becomes(c, [caller[c] EXCEPT !.pc = "returned"])
    /\ UNCHANGED <<flightVars, rev, cacheVars, load>>

(* The counts are returned only if the revision is still the one of the key; *)
(* otherwise the whole read starts again.                                    *)
Recheck(c) ==
    /\ caller[c].pc = "recheck"
    /\ IF rev = caller[c].key
       THEN Becomes(c, [caller[c] EXCEPT !.pc = "returned"])
       ELSE Becomes(c, [IdleCaller EXCEPT !.pc = "revision", !.since = caller[c].since])
    /\ UNCHANGED <<flightVars, rev, cacheVars, load>>

Return(c) ==
    /\ caller[c].pc = "returned"
    /\ Becomes(c, IdleCaller)
    /\ UNCHANGED <<flightVars, rev, cacheVars, load>>

(* The request's own context ends, or a revision read fails: the caller      *)
(* leaves the flight it waits on and returns an error.                       *)
GiveUp(c) ==
    /\ \/ "context" \in Faults
       \/ "database" \in Faults /\ caller[c].pc \in {"revision", "recheck"}
    /\ caller[c].pc \in {"revision", "do", "wait", "recheck"}
    /\ IF caller[c].pc = "wait"
       THEN Leave(Home[c], caller[c].key, caller[c].on)
       ELSE UNCHANGED flightVars
    /\ Becomes(c, [IdleCaller EXCEPT !.pc = "returned", !.err = TRUE])
    /\ UNCHANGED <<rev, cacheVars, load>>

-----------------------------------------------------------------------------
(* loadWithLease and loadAsLeaseHolder, one Redis command or query a step    *)

(* The deferred release of a lease holder, or the return of the others.      *)
Ending(l) == IF load[l].holder THEN "release" ELSE "finish"

(* A command fails with Redis, or because the shared context has ended.      *)
CommandFails(l) == "redis" \in Faults \/ "timeout" \in Faults \/ state[l] = "cancelled"

(* read: a hit, a miss, or an error, after which the database answers.       *)
Read(l, onHit, onMiss) ==
    LET stored == value[load[l].key]
    IN /\ \/ /\ stored # NoCounts
             /\ Moves(l, [load[l] EXCEPT !.pc = onHit, !.counts = stored])
          \/ /\ stored = NoCounts
             /\ Moves(l, [load[l] EXCEPT !.pc = onMiss])
          \/ /\ CommandFails(l)
             /\ Moves(l, [load[l] EXCEPT !.pc = "query", !.direct = TRUE])
       /\ UNCHANGED <<flightVars, rev, cacheVars, caller>>

LoadRead(l) == load[l].pc = "read" /\ Read(l, "finish", "acquire")

LoadPoll(l) == load[l].pc = "poll" /\ Read(l, "finish", "ttl")

LoadReread(l) == load[l].pc = "reread" /\ Read(l, "release", "query")

(* TryAcquireLease is SETNX; a lost answer leaves a lease nobody knows of.   *)
LoadAcquire(l) ==
    LET k == load[l].key
    IN /\ load[l].pc = "acquire"
       /\ \/ /\ lease[k] = NoLoad
             /\ lease' = [lease EXCEPT ![k] = l]
             /\ Moves(l, [load[l] EXCEPT !.pc = "reread", !.holder = TRUE])
          \/ /\ lease[k] # NoLoad
             /\ Moves(l, [load[l] EXCEPT !.pc = "poll"])
             /\ UNCHANGED lease
          \/ /\ CommandFails(l)
             /\ lease' \in {lease, [lease EXCEPT ![k] = IF @ = NoLoad THEN l ELSE @]}
             /\ Moves(l, [load[l] EXCEPT !.pc = "query", !.direct = TRUE])
       /\ UNCHANGED <<flightVars, rev, value, caller>>

(* LeaseTTL: the lease is gone and may be had, or the load sleeps and polls. *)
LoadTTL(l) ==
    /\ load[l].pc = "ttl"
    /\ \/ Moves(l, [load[l] EXCEPT !.pc = IF lease[load[l].key] = NoLoad THEN "acquire" ELSE "poll"])
       \/ CommandFails(l) /\ Moves(l, [load[l] EXCEPT !.pc = "query", !.direct = TRUE])
    /\ UNCHANGED <<flightVars, rev, cacheVars, caller>>

(* loadCounts: each query sees the tables as they are when it runs.          *)
LoadQuery(l) ==
    /\ load[l].pc = "query"
    /\ Moves(l, [load[l] EXCEPT !.pc = "rest", !.counts = [NoCounts EXCEPT !.approvals = rev]])
    /\ UNCHANGED <<flightVars, rev, cacheVars, caller>>

(* Mutant: counts without the AI access are stored too.                      *)
Always(complete) == TRUE

Cacheable(complete) == complete

LoadRest(l) ==
    /\ load[l].pc = "rest"
    /\ \E complete \in BOOLEAN :
         Moves(l, [load[l] EXCEPT !.pc = IF ~load[l].direct /\ Cacheable(complete) THEN "check" ELSE Ending(l),
                                  !.counts = [@ EXCEPT !.others = rev, !.complete = complete]])
    /\ UNCHANGED <<flightVars, rev, cacheVars, caller>>

(* Mutant: the counts are stored under a key whose revision has passed.      *)
CheckNothing(l) ==
    /\ load[l].pc = "check"
    /\ Moves(l, [load[l] EXCEPT !.pc = "set"])
    /\ UNCHANGED <<flightVars, rev, cacheVars, caller>>

(* Only counts taken entirely at the revision of the key are stored.         *)
LoadCheck(l) ==
    /\ load[l].pc = "check"
    /\ Moves(l, [load[l] EXCEPT !.pc = IF rev = load[l].key THEN "set" ELSE "release"])
    /\ UNCHANGED <<flightVars, rev, cacheVars, caller>>

LoadSet(l) ==
    /\ load[l].pc = "set"
    /\ \/ value' = [value EXCEPT ![load[l].key] = load[l].counts]
       \/ CommandFails(l) /\ UNCHANGED value
    /\ Moves(l, [load[l] EXCEPT !.pc = "release"])
    /\ UNCHANGED <<flightVars, rev, lease, caller>>

(* Mutant: a plain DEL.                                                      *)
DeletedLease(l) == [lease EXCEPT ![load[l].key] = NoLoad]

(* releaseLeaseScript: the lease under the key goes if it has this token.    *)
Released(l) == IF lease[load[l].key] = l THEN [lease EXCEPT ![load[l].key] = NoLoad] ELSE lease

LoadRelease(l) ==
    /\ load[l].pc = "release"
    /\ \/ lease' = Released(l)
       \/ "redis" \in Faults /\ UNCHANGED lease
    /\ Moves(l, [load[l] EXCEPT !.pc = "finish", !.holder = FALSE])
    /\ UNCHANGED <<flightVars, rev, value, caller>>

LoadError(l) ==
    /\ Moves(l, [load[l] EXCEPT !.pc = Ending(l), !.err = TRUE, !.counts = NoCounts])
    /\ UNCHANGED <<flightVars, rev, cacheVars, caller>>

(* A query or a revision read fails.                                         *)
LoadFails(l) ==
    /\ "database" \in Faults
    /\ load[l].pc \in {"query", "rest", "check"}
    /\ LoadError(l)

(* The shared context has ended: RefreshTimeout has passed, or the last      *)
(* caller has left.                                                          *)
LoadStops(l) ==
    /\ "timeout" \in Faults \/ state[l] = "cancelled"
    /\ load[l].pc \in {"acquire", "poll", "ttl", "query", "rest", "check"}
    /\ LoadError(l)

(* Mutant: a failed load never completes its call.                           *)
FinishUnlessFailed(l) ==
    /\ load[l].pc = "finish"
    /\ ~load[l].err
    /\ Complete(load[l].node, load[l].key, l)
    /\ Moves(l, [load[l] EXCEPT !.pc = "done"])
    /\ UNCHANGED <<rev, cacheVars, caller>>

(* The call completes, with the counts or the error.                         *)
LoadFinish(l) ==
    /\ load[l].pc = "finish"
    /\ Complete(load[l].node, load[l].key, l)
    /\ Moves(l, [load[l] EXCEPT !.pc = "done"])
    /\ UNCHANGED <<rev, cacheVars, caller>>

-----------------------------------------------------------------------------
(* The rest of the world                                                     *)

(* A transaction that changes the counted tables.                            *)
Mutate ==
    /\ rev < MaxRevision
    /\ rev' = rev + 1
    /\ UNCHANGED <<flightVars, cacheVars, load, caller>>

(* Redis forgets: a TTL passes, or memory is reclaimed.                      *)
ExpireLease(k) ==
    /\ lease[k] # NoLoad
    /\ lease' = [lease EXCEPT ![k] = NoLoad]
    /\ UNCHANGED <<flightVars, rev, value, load, caller>>

ExpireValue(k) ==
    /\ value[k] # NoCounts
    /\ value' = [value EXCEPT ![k] = NoCounts]
    /\ UNCHANGED <<flightVars, rev, lease, load, caller>>

(* A process dies: what it held is gone, its leases stay in Redis.           *)
Crash(n) ==
    /\ "crash" \in Faults
    /\ flight' = [flight EXCEPT ![n] = [k \in Keys |-> NoLoad]]
    /\ state' = [l \in Loads |-> IF load[l].node = n THEN "free" ELSE state[l]]
    /\ waiters' = [l \in Loads |-> IF load[l].node = n THEN 0 ELSE waiters[l]]
    /\ load' = [l \in Loads |-> IF load[l].node = n THEN NoneLoad ELSE load[l]]
    /\ caller' = [c \in Callers |-> IF Home[c] = n THEN IdleCaller ELSE caller[c]]
    /\ UNCHANGED <<rev, cacheVars>>

-----------------------------------------------------------------------------

Init ==
    /\ FlightInit
    /\ rev = 0
    /\ value = [k \in Keys |-> NoCounts]
    /\ lease = [k \in Keys |-> NoLoad]
    /\ load = [l \in Loads |-> NoneLoad]
    /\ caller = [c \in Callers |-> IdleCaller]

CallerStep(c) ==
    \/ ReadRevision(c) \/ TakeResult(c) \/ Recheck(c) \/ Return(c)
    \/ \E l \in Loads : JoinFlight(c, l) \/ StartFlight(c, l)

LoadStep(l) ==
    \/ LoadRead(l) \/ LoadAcquire(l) \/ LoadPoll(l) \/ LoadTTL(l) \/ LoadReread(l)
    \/ LoadQuery(l) \/ LoadRest(l) \/ LoadCheck(l) \/ LoadSet(l) \/ LoadRelease(l)
    \/ LoadFinish(l)

Next ==
    \/ \E c \in Callers : Call(c) \/ CallerStep(c) \/ GiveUp(c)
    \/ \E l \in Loads : LoadStep(l) \/ LoadStops(l) \/ LoadFails(l)
    \/ Mutate
    \/ \E k \in Keys : ExpireLease(k) \/ ExpireValue(k)
    \/ \E n \in Nodes : Crash(n)

(* A runnable goroutine runs on, a context ends at its timeout and a lease   *)
(* at its TTL.                                                               *)
(* StartFlight is strongly fair because only the bound on loads can disable  *)
(* it again.  No fairness on calls, faults, mutations or values' expiry.     *)
Fairness ==
    /\ \A c \in Callers : WF_vars(CallerStep(c)) /\ SF_vars(\E l \in Loads : StartFlight(c, l))
    /\ \A l \in Loads : WF_vars(LoadStep(l)) /\ WF_vars(LoadStops(l))
    /\ \A k \in Keys : WF_vars(ExpireLease(k))

Spec == Init /\ [][Next]_vars

FairSpec == Spec /\ Fairness

-----------------------------------------------------------------------------
(* Properties                                                                *)

(* Every variable has the type of what it models in the cache and the group. *)
DataTypes ==
    /\ rev \in Keys
    /\ value \in [Keys -> Counts \cup {NoCounts}]
    /\ lease \in [Keys -> Loads \cup {NoLoad}]
    /\ load \in [Loads -> Load]
    /\ caller \in [Callers -> Caller]
    /\ flight \in [Nodes -> [Keys -> Loads \cup {NoLoad}]]
    /\ state \in [Loads -> States]

(* GetOrLoad's promise, of one caller.                                       *)
CallerServed(r) ==
    r.pc = "returned" /\ ~r.err =>
      /\ r.counts.approvals = r.counts.others
      /\ r.counts.approvals >= r.since

(* GetOrLoad returns counts that were all taken at one revision, and at one  *)
(* no older than the call: whoever asks after a mutation has committed sees  *)
(* it, though the counts may come from a value, from another caller's load   *)
(* or from several queries with mutations between them.                      *)
CountsAreOneRevision ==
    \A c \in Callers : CallerServed(caller[c])

(* A value in Redis has every count, taken at the revision in its key: set   *)
(* may run long after the queries and after the lease has gone.              *)
StoredIsWhole ==
    \A k \in Keys : value[k] # NoCounts =>
        value[k] = [approvals |-> k, others |-> k, complete |-> TRUE]

(* Counts taken by one run of loadCounts for key k, one query after another. *)
TakenSince(counts, k) ==
    /\ k <= counts.approvals
    /\ counts.approvals <= counts.others
    /\ counts.others <= rev

(* What a load knows: its queries ran after its key was the revision.        *)
LoadSound(r) ==
    /\ r.key <= rev
    /\ r.pc = "rest" => r.key <= r.counts.approvals /\ r.counts.approvals <= rev
    /\ r.pc \in {"check", "set"} => TakenSince(r.counts, r.key) /\ r.counts.complete
    /\ r.pc = "set" => r.counts.others = r.key
    /\ r.pc \in {"release", "finish", "done"} /\ ~r.err => TakenSince(r.counts, r.key)
    /\ r.pc \notin {"release", "finish", "done"} => ~r.err

(* What a caller knows: it shares only loads of the key it read.             *)
CallerSound(c, r) ==
    /\ r.since <= rev
    /\ r.pc \in {"do", "wait", "recheck"} => r.since <= r.key /\ r.key <= rev
    /\ r.pc = "wait" =>
          /\ r.on \in Loads
          /\ load[r.on].key = r.key
          /\ load[r.on].pc # "none"
          /\ load[r.on].node = Home[c]
    /\ r.pc = "recheck" => ~r.err /\ TakenSince(r.counts, r.key)

(* A call in the map is the load of that process and key, and unfinished.    *)
MapKnows(n, k) ==
    flight[n][k] # NoLoad =>
      /\ load[flight[n][k]].node = n
      /\ load[flight[n][k]].key = k
      /\ load[flight[n][k]].pc \notin {"none", "done"}

(* The inductive invariant of the two properties above.                      *)
IInv ==
    /\ DataTypes
    /\ StoredIsWhole
    /\ CountsAreOneRevision
    /\ \A l \in Loads : LoadSound(load[l])
    /\ \A l \in Loads : state[l] = "completed" => load[l].pc = "done"
    /\ \A c \in Callers : CallerSound(c, caller[c])
    /\ \A n \in Nodes, k \in Keys : MapKnows(n, k)

(* The flight group: the number of waiters is right, a call in the map runs  *)
(* and is waited for, a cancelled load has nobody waiting, and one process   *)
(* has one uncancelled load per key.                                         *)
FlightsAreShared ==
    /\ waiters \in [Loads -> Nat]
    /\ \A l \in Loads : state[l] \in {"running", "cancelled"} => waiters[l] = Cardinality(Waiting(l))
    /\ \A l \in Loads : state[l] = "cancelled" => Waiting(l) = {}
    /\ \A l \in Loads : state[l] = "running" =>
          Waiting(l) # {} /\ flight[load[l].node][load[l].key] = l
    /\ \A n \in Nodes, k \in Keys : flight[n][k] # NoLoad =>
          /\ state[flight[n][k]] = "running"
          /\ load[flight[n][k]].node = n
          /\ load[flight[n][k]].key = k

(* A lease leaves Redis by expiry or by its owner's own release: a holder    *)
(* whose lease has expired does not release that of its successor.           *)
LeaseEndsByOwner ==
    [][\A k \in Keys : lease[k] # NoLoad /\ lease'[k] # lease[k] =>
          \/ load' = load
          \/ load[lease[k]].pc = "release" /\ load'[lease[k]].pc = "finish"]_vars

(* Every call for the counts returns, also behind the lease of a load that   *)
(* was cancelled or whose process died.                                      *)
CallsReturn ==
    \A c \in Callers : caller[c].pc # "idle" ~> caller[c].pc = "idle"
=============================================================================
