----------------------- MODULE WorkItemsCountsProofs ------------------------
(***************************************************************************)
(* Proofs about WorkItemsCounts, for any processes, callers, loads, number *)
(* of mutations and kinds of fault.  IInv says what a load and a caller    *)
(* know of the revision; it is shown for a step of one load, a step of one *)
(* caller, and the few steps that change both.  FlightInv says which calls *)
(* wait for a load and what the group of a process holds; the two together *)
(* give the sharing of loads and the rule about ends of the lease.         *)
(***************************************************************************)
EXTENDS WorkItemsCounts, TLAPS, FiniteSetTheorems

(* The initial records are records.                                          *)
LEMMA Records ==
    NoCounts \in Results /\ NoneLoad \in Load /\ IdleCaller \in Caller
<1>1. NoCounts \in Results
  BY WorkItemsCountsAssumption DEF NoCounts, Results, Unknown
<1>2. (CHOOSE n \in Nodes : TRUE) \in Nodes
  BY WorkItemsCountsAssumption
<1>3. 0 \in Keys
  BY WorkItemsCountsAssumption
<1> QED
  BY <1>1, <1>2, <1>3 DEF NoneLoad, Load, LoadPcs, IdleCaller, Caller, CallerPcs

(* A later revision weakens nothing: what was taken before is still whole.   *)
LEMMA LoadSoundLater ==
    ASSUME NEW r \in Load, LoadSound(r), rev \in Nat, rev' \in Nat, rev <= rev'
    PROVE  LoadSound(r)'
<1>1. r.key \in Nat /\ r.counts.approvals \in Nat /\ r.counts.others \in Nat
  BY WorkItemsCountsAssumption DEF Load, Results, Unknown
<1>2. ASSUME TakenSince(r.counts, r.key) PROVE TakenSince(r.counts, r.key)'
  BY <1>1, <1>2 DEF TakenSince
<1> QED
  BY <1>1, <1>2 DEF LoadSound

(* A step of one load that has not finished: it keeps its process and key,   *)
(* and the group does not change.                                            *)
LEMMA LoadMove ==
    ASSUME IInv, NEW l \in Loads, NEW r \in Load,
           Moves(l, r),
           load[l].pc \notin {"none", "done"}, r.pc \notin {"none", "done"},
           r.node = load[l].node, r.key = load[l].key,
           LoadSound(r),
           value' \in [Keys -> Counts \cup {NoCounts}], StoredIsWhole',
           lease' \in [Keys -> Loads \cup {NoLoad}],
           UNCHANGED <<flight, state, rev, caller>>
    PROVE  IInv'
<1> USE DEF IInv, DataTypes
<1>1. load' \in [Loads -> Load] /\ load'[l] = r /\ \A m \in Loads \ {l} : load'[m] = load[m]
  BY DEF Moves
<1>2. DataTypes'
  BY <1>1
<1>3. CountsAreOneRevision'
  BY DEF CountsAreOneRevision, CallerServed
<1>4. ASSUME NEW m \in Loads PROVE LoadSound(load[m])'
  <2>1. LoadSound(load'[m])
    BY <1>1
  <2> QED
    BY <2>1, rev' = rev DEF LoadSound, TakenSince
<1>5. ASSUME NEW m \in Loads, state'[m] = "completed" PROVE load'[m].pc = "done"
  BY <1>1, <1>5
<1>6. \A m \in Loads : /\ load'[m].node = load[m].node
                       /\ load'[m].key = load[m].key
                       /\ load[m].pc # "none" => load'[m].pc # "none"
                       /\ load[m].pc \notin {"none", "done"} => load'[m].pc \notin {"none", "done"}
  BY <1>1
<1>7. ASSUME NEW c \in Callers PROVE CallerSound(c, caller[c])'
  BY <1>6 DEF CallerSound, TakenSince
<1>8. ASSUME NEW n \in Nodes, NEW k \in Keys PROVE MapKnows(n, k)'
  <2>1. flight[n][k] # NoLoad => flight[n][k] \in Loads
    OBVIOUS
  <2> QED
    BY <1>6, <2>1 DEF MapKnows
<1> QED
  BY <1>2, <1>3, <1>4, <1>5, <1>7, <1>8

(* A step of one caller that leaves the loads alone.                         *)
LEMMA CallerMove ==
    ASSUME IInv, NEW c \in Callers, NEW r \in Caller,
           Becomes(c, r), CallerSound(c, r), CallerServed(r),
           UNCHANGED <<flight, state, rev, value, lease, load>>
    PROVE  IInv'
<1> USE DEF IInv, DataTypes
<1>1. caller' \in [Callers -> Caller] /\ caller'[c] = r /\ \A d \in Callers \ {c} : caller'[d] = caller[d]
  BY DEF Becomes
<1>2. DataTypes'
  BY <1>1
<1>3. StoredIsWhole'
  BY DEF StoredIsWhole
<1>4. CountsAreOneRevision'
  BY <1>1 DEF CountsAreOneRevision
<1>5. ASSUME NEW m \in Loads PROVE LoadSound(load[m])'
  BY DEF LoadSound, TakenSince
<1>6. ASSUME NEW d \in Callers PROVE CallerSound(d, caller[d])'
  <2>1. CallerSound(d, caller'[d])
    BY <1>1
  <2> QED
    BY <2>1 DEF CallerSound, TakenSince
<1>7. ASSUME NEW n \in Nodes, NEW k \in Keys PROVE MapKnows(n, k)'
  BY DEF MapKnows
<1> QED
  BY <1>2, <1>3, <1>4, <1>5, <1>6, <1>7

(* The actions of one caller that only read.                                 *)
LEMMA CallerReads ==
    ASSUME IInv, NEW c \in Callers,
           Call(c) \/ ReadRevision(c) \/ TakeResult(c) \/ Recheck(c) \/ Return(c)
    PROVE  IInv'
<1> USE DEF CallerServed
<1>0. /\ caller[c] \in Caller /\ CallerSound(c, caller[c]) /\ CallerServed(caller[c])
      /\ rev \in Keys /\ rev \in Nat
      /\ caller[c].since \in Nat /\ caller[c].key \in Nat
      /\ IdleCaller \in Caller
  BY Records, WorkItemsCountsAssumption DEF IInv, DataTypes, CountsAreOneRevision, Caller
<1>1. CASE Call(c)
  <2> DEFINE r == [IdleCaller EXCEPT !.pc = "revision", !.since = rev]
  <2>1. r \in Caller /\ r.pc = "revision" /\ r.since = rev
    BY <1>0 DEF IdleCaller, Caller, CallerPcs
  <2>2. Becomes(c, r) /\ UNCHANGED <<flight, state, rev, value, lease, load>>
    BY <1>1 DEF Call, flightVars, cacheVars
  <2> HIDE DEF r
  <2>3. CallerSound(c, r) /\ CallerServed(r)
    BY <2>1, <1>0 DEF CallerSound
  <2> QED
    BY <2>1, <2>2, <2>3, CallerMove
<1>2. CASE ReadRevision(c)
  <2> DEFINE r == [caller[c] EXCEPT !.pc = "do", !.key = rev]
  <2>1. r \in Caller /\ r.pc = "do" /\ r.key = rev /\ r.since = caller[c].since
    BY <1>0 DEF Caller, CallerPcs
  <2>2. Becomes(c, r) /\ UNCHANGED <<flight, state, rev, value, lease, load>>
    BY <1>2 DEF ReadRevision, flightVars, cacheVars
  <2> HIDE DEF r
  <2>3. CallerSound(c, r) /\ CallerServed(r)
    BY <2>1, <1>0 DEF CallerSound
  <2> QED
    BY <2>1, <2>2, <2>3, CallerMove
<1>3. CASE TakeResult(c)
  <2> DEFINE l == caller[c].on
             r == [caller[c] EXCEPT !.pc = IF load[l].err THEN "returned" ELSE "recheck",
                                    !.on = NoLoad,
                                    !.err = load[l].err,
                                    !.counts = load[l].counts]
  <2>1. l \in Loads /\ load[l] \in Load /\ load[l].key = caller[c].key /\ load[l].pc = "done" /\ LoadSound(load[l])
    BY <1>0, <1>3 DEF TakeResult, CallerSound, IInv, DataTypes
  <2>2. /\ r \in Caller /\ r.pc = (IF load[l].err THEN "returned" ELSE "recheck") /\ r.err = load[l].err
        /\ r.counts = load[l].counts /\ r.key = caller[c].key /\ r.since = caller[c].since
    BY <1>0, <2>1 DEF Caller, CallerPcs, Load
  <2>3. Becomes(c, r) /\ UNCHANGED <<flight, state, rev, value, lease, load>>
    BY <1>3 DEF TakeResult, flightVars, cacheVars
  <2>4. caller[c].pc = "wait"
    BY <1>3 DEF TakeResult
  <2>5. load[l].err \in BOOLEAN
    BY <2>1 DEF Load
  <2> HIDE DEF r, l
  <2>6. CallerSound(c, r) /\ CallerServed(r)
    BY <2>1, <2>2, <2>4, <2>5, <1>0 DEF CallerSound, LoadSound
  <2> QED
    BY <2>2, <2>3, <2>6, CallerMove
<1>4. CASE Recheck(c) /\ rev = caller[c].key
  <2> DEFINE r == [caller[c] EXCEPT !.pc = "returned"]
  <2>1. /\ r \in Caller /\ r.pc = "returned" /\ r.since = caller[c].since
        /\ r.counts = caller[c].counts /\ r.err = caller[c].err
    BY <1>0 DEF Caller, CallerPcs
  <2>2. Becomes(c, r) /\ UNCHANGED <<flight, state, rev, value, lease, load>>
    BY <1>4 DEF Recheck, flightVars, cacheVars
  <2>3. caller[c].pc = "recheck"
    BY <1>4 DEF Recheck
  <2>4. r.counts.approvals \in Nat /\ r.counts.others \in Nat
    BY <2>1, WorkItemsCountsAssumption DEF Caller, Results, Unknown
  <2> HIDE DEF r
  <2>5. CallerSound(c, r) /\ CallerServed(r)
    BY <2>1, <2>3, <2>4, <1>0, <1>4 DEF CallerSound, TakenSince
  <2> QED
    BY <2>1, <2>2, <2>5, CallerMove
<1>5. CASE Recheck(c) /\ rev # caller[c].key
  <2> DEFINE r == [IdleCaller EXCEPT !.pc = "revision", !.since = caller[c].since]
  <2>1. r \in Caller /\ r.pc = "revision" /\ r.since = caller[c].since
    BY <1>0 DEF IdleCaller, Caller, CallerPcs
  <2>2. Becomes(c, r) /\ UNCHANGED <<flight, state, rev, value, lease, load>>
    BY <1>5 DEF Recheck, flightVars, cacheVars
  <2> HIDE DEF r
  <2>3. CallerSound(c, r) /\ CallerServed(r)
    BY <2>1, <1>0 DEF CallerSound
  <2> QED
    BY <2>1, <2>2, <2>3, CallerMove
<1>6. CASE Return(c)
  <2>1. IdleCaller.pc = "idle" /\ IdleCaller.since = 0
    BY DEF IdleCaller
  <2>2. Becomes(c, IdleCaller) /\ UNCHANGED <<flight, state, rev, value, lease, load>>
    BY <1>6 DEF Return, flightVars, cacheVars
  <2>3. CallerSound(c, IdleCaller) /\ CallerServed(IdleCaller)
    BY <2>1, <1>0 DEF CallerSound
  <2> QED
    BY <1>0, <2>2, <2>3, CallerMove
<1> QED
  BY <1>1, <1>2, <1>3, <1>4, <1>5, <1>6

(* A caller joins the flight of its key: the load there has that key.        *)
LEMMA CallerJoins ==
    ASSUME IInv, NEW c \in Callers, NEW l \in Loads, JoinFlight(c, l)
    PROVE  IInv'
<1> DEFINE r == [caller[c] EXCEPT !.pc = "wait", !.on = l]
<1>1. /\ caller[c] \in Caller /\ CallerSound(c, caller[c]) /\ caller[c].pc = "do"
      /\ Home[c] \in Nodes /\ caller[c].key \in Keys
  BY WorkItemsCountsAssumption DEF IInv, DataTypes, JoinFlight, Caller
<1>2. /\ r \in Caller /\ r.pc = "wait" /\ r.on = l
      /\ r.key = caller[c].key /\ r.since = caller[c].since
  BY <1>1 DEF Caller, CallerPcs
<1>3. Becomes(c, r) /\ UNCHANGED <<flight, state, rev, value, lease, load>>
  BY DEF JoinFlight, Join, cacheVars
<1>4. load[l].node = Home[c] /\ load[l].key = caller[c].key /\ load[l].pc # "none"
  <2>1. flight[Home[c]][caller[c].key] = l /\ l # NoLoad
    BY ReadFlightAssumption DEF JoinFlight, Join
  <2>2. MapKnows(Home[c], caller[c].key)
    BY <1>1 DEF IInv
  <2> QED
    BY <2>1, <2>2 DEF MapKnows
<1> HIDE DEF r
<1>5. CallerSound(c, r) /\ CallerServed(r)
  BY <1>1, <1>2, <1>4 DEF CallerSound, CallerServed
<1> QED
  BY <1>2, <1>3, <1>5, CallerMove

(* What an unfinished load is.                                               *)
LEMMA LoadFacts ==
    ASSUME IInv, NEW l \in Loads, load[l].pc \notin {"none", "done"}
    PROVE  /\ load[l] \in Load /\ LoadSound(load[l])
           /\ load[l].key \in Keys /\ load[l].key \in Nat
           /\ load[l].counts.approvals \in Nat /\ load[l].counts.others \in Nat
           /\ load[l].holder \in BOOLEAN /\ load[l].err \in BOOLEAN
           /\ rev \in Keys /\ rev \in Nat /\ Keys \subseteq Nat
           /\ value \in [Keys -> Counts \cup {NoCounts}]
           /\ lease \in [Keys -> Loads \cup {NoLoad}]
           /\ StoredIsWhole
BY WorkItemsCountsAssumption DEF IInv, DataTypes, Load, Results, Unknown

(* A step of a load that leaves Redis alone.                                 *)
LEMMA LoadOnly ==
    ASSUME IInv, NEW l \in Loads, NEW r \in Load,
           Moves(l, r),
           load[l].pc \notin {"none", "done"}, r.pc \notin {"none", "done"},
           r.node = load[l].node, r.key = load[l].key,
           LoadSound(r),
           UNCHANGED <<flightVars, rev, cacheVars, caller>>
    PROVE  IInv'
<1>1. value' = value /\ lease' = lease /\ UNCHANGED <<flight, state, rev, caller>>
  BY DEF flightVars, cacheVars
<1>2. StoredIsWhole'
  BY <1>1 DEF StoredIsWhole, IInv
<1>3. value' \in [Keys -> Counts \cup {NoCounts}] /\ lease' \in [Keys -> Loads \cup {NoLoad}]
  BY <1>1 DEF IInv, DataTypes
<1> QED
  BY <1>1, <1>2, <1>3, LoadMove

(* The three reads: a stored value was taken at the revision of the key.     *)
LEMMA LoadReads ==
    ASSUME IInv, NEW l \in Loads, LoadRead(l) \/ LoadPoll(l) \/ LoadReread(l)
    PROVE  IInv'
<1> DEFINE hit(to) == [load[l] EXCEPT !.pc = to, !.counts = value[load[l].key]]
           miss(to) == [load[l] EXCEPT !.pc = to]
           fail == [load[l] EXCEPT !.pc = "query", !.direct = TRUE]
<1>1. load[l].pc \in {"read", "poll", "reread"} /\ load[l].pc \notin {"none", "done"}
  BY DEF LoadRead, LoadPoll, LoadReread
<1>2. PICK onHit \in {"finish", "release"}, onMiss \in {"acquire", "ttl", "query"} :
         /\ \/ value[load[l].key] # NoCounts /\ Moves(l, hit(onHit))
            \/ Moves(l, miss(onMiss))
            \/ Moves(l, fail)
         /\ UNCHANGED <<flightVars, rev, cacheVars, caller>>
  BY DEF LoadRead, LoadPoll, LoadReread, Read
<1> USE LoadFacts, <1>1
<1>3. ~load[l].err /\ load[l].key <= rev
  BY DEF LoadSound
<1>4. ASSUME value[load[l].key] # NoCounts, Moves(l, hit(onHit)) PROVE IInv'
  <2>1. value[load[l].key] = [approvals |-> load[l].key, others |-> load[l].key, complete |-> TRUE]
    BY <1>4 DEF StoredIsWhole
  <2>2. value[load[l].key] \in Results
    BY <2>1, WorkItemsCountsAssumption DEF Results, Unknown
  <2>3. /\ hit(onHit) \in Load /\ hit(onHit).pc = onHit /\ hit(onHit).key = load[l].key
        /\ hit(onHit).node = load[l].node /\ hit(onHit).counts = value[load[l].key]
    BY <2>2, <1>2 DEF Load, LoadPcs
  <2> DEFINE r == hit(onHit)
  <2> HIDE DEF hit
  <2>4. LoadSound(r)
    BY <2>1, <2>3, <1>2, <1>3 DEF LoadSound, TakenSince
  <2> QED
    BY <2>3, <2>4, <1>2, <1>4, LoadOnly
<1>5. ASSUME Moves(l, miss(onMiss)) PROVE IInv'
  <2>1. /\ miss(onMiss) \in Load /\ miss(onMiss).pc = onMiss /\ miss(onMiss).key = load[l].key
        /\ miss(onMiss).node = load[l].node /\ miss(onMiss).err = load[l].err
    BY <1>2 DEF Load, LoadPcs
  <2> HIDE DEF miss
  <2>2. LoadSound(miss(onMiss))
    BY <2>1, <1>2, <1>3 DEF LoadSound
  <2> QED
    BY <2>1, <2>2, <1>2, <1>5, LoadOnly
<1>6. ASSUME Moves(l, fail) PROVE IInv'
  <2>1. /\ fail \in Load /\ fail.pc = "query" /\ fail.key = load[l].key
        /\ fail.node = load[l].node /\ fail.err = load[l].err
    BY DEF Load, LoadPcs
  <2> HIDE DEF fail
  <2>2. LoadSound(fail)
    BY <2>1, <1>3 DEF LoadSound
  <2> QED
    BY <2>1, <2>2, <1>2, <1>6, LoadOnly
<1> QED
  BY <1>2, <1>4, <1>5, <1>6

(* The queries: each sees a revision between the key's and the present one.  *)
LEMMA LoadQueries ==
    ASSUME IInv, NEW l \in Loads, LoadQuery(l) \/ LoadRest(l) \/ LoadCheck(l)
    PROVE  IInv'
<1>1. CASE LoadQuery(l)
  <2> DEFINE r == [load[l] EXCEPT !.pc = "rest", !.counts = [NoCounts EXCEPT !.approvals = rev]]
  <2>1. load[l].pc = "query"
    BY <1>1 DEF LoadQuery
  <2> USE LoadFacts, <2>1
  <2>2. [NoCounts EXCEPT !.approvals = rev] \in Results /\ [NoCounts EXCEPT !.approvals = rev].approvals = rev
    <3>1. rev \in 0..Unknown /\ NoCounts \in Results
      BY Records, WorkItemsCountsAssumption DEF Unknown
    <3> QED
      BY <3>1 DEF Results
  <2>3. /\ r \in Load /\ r.pc = "rest" /\ r.key = load[l].key /\ r.node = load[l].node
        /\ r.err = load[l].err /\ r.counts.approvals = rev
    BY <2>2 DEF Load, LoadPcs
  <2>4. Moves(l, r) /\ UNCHANGED <<flightVars, rev, cacheVars, caller>>
    BY <1>1 DEF LoadQuery
  <2> HIDE DEF r
  <2>5. LoadSound(r)
    BY <2>3 DEF LoadSound
  <2> QED
    BY <2>3, <2>4, <2>5, LoadOnly
<1>2. CASE LoadRest(l)
  <2>1. load[l].pc = "rest"
    BY <1>2 DEF LoadRest
  <2> USE LoadFacts, <2>1
  <2>2. PICK complete \in BOOLEAN :
           /\ Moves(l, [load[l] EXCEPT !.pc = IF ~load[l].direct /\ Cacheable(complete) THEN "check" ELSE Ending(l),
                                        !.counts = [@ EXCEPT !.others = rev, !.complete = complete]])
           /\ UNCHANGED <<flightVars, rev, cacheVars, caller>>
    BY <1>2 DEF LoadRest
  <2> DEFINE to == IF ~load[l].direct /\ Cacheable(complete) THEN "check" ELSE Ending(l)
             taken == [load[l].counts EXCEPT !.others = rev, !.complete = complete]
             r == [load[l] EXCEPT !.pc = to, !.counts = taken]
  <2>7. rev \in 0..Unknown /\ load[l].counts \in Results
    BY WorkItemsCountsAssumption DEF Load, Unknown
  <2>3. /\ taken \in Results /\ taken.approvals = load[l].counts.approvals
        /\ taken.others = rev /\ taken.complete = complete
    BY <2>7 DEF Results
  <2>8. to \in {"check", "release", "finish"} /\ (to = "check" => complete)
    BY <2>2 DEF Ending, Cacheable
  <2>5. Moves(l, r)
    BY <2>2
  <2> HIDE DEF taken, to
  <2>4. /\ r \in Load /\ r.pc \in {"check", "release", "finish"} /\ r.key = load[l].key /\ r.node = load[l].node
        /\ r.err = load[l].err /\ r.counts.approvals = load[l].counts.approvals /\ r.counts.others = rev
        /\ r.counts.complete = complete
        /\ r.pc = "check" => complete
    BY <2>3, <2>8 DEF Load, LoadPcs
  <2> HIDE DEF r
  <2>6. LoadSound(r)
    BY <2>4 DEF LoadSound, TakenSince
  <2> QED
    BY <2>2, <2>4, <2>5, <2>6, LoadOnly
<1>3. CASE LoadCheck(l)
  <2> DEFINE r == [load[l] EXCEPT !.pc = IF rev = load[l].key THEN "set" ELSE "release"]
  <2>1. load[l].pc = "check"
    BY <1>3 DEF LoadCheck
  <2> USE LoadFacts, <2>1
  <2>2. /\ r \in Load /\ r.key = load[l].key /\ r.node = load[l].node
        /\ r.err = load[l].err /\ r.counts = load[l].counts
        /\ r.pc = IF rev = load[l].key THEN "set" ELSE "release"
    BY DEF Load, LoadPcs
  <2>3. Moves(l, r) /\ UNCHANGED <<flightVars, rev, cacheVars, caller>>
    BY <1>3 DEF LoadCheck
  <2> HIDE DEF r
  <2>4. LoadSound(r)
    BY <2>2 DEF LoadSound, TakenSince
  <2> QED
    BY <2>2, <2>3, <2>4, LoadOnly
<1> QED
  BY <1>1, <1>2, <1>3

(* The commands that write to Redis: a set stores what check let through, a  *)
(* lease says nothing about counts.                                          *)
LEMMA LoadWrites ==
    ASSUME IInv, NEW l \in Loads, LoadAcquire(l) \/ LoadSet(l) \/ LoadRelease(l)
    PROVE  IInv'
<1>0. ASSUME UNCHANGED <<value, rev>> PROVE StoredIsWhole' /\ value' \in [Keys -> Counts \cup {NoCounts}]
  BY <1>0 DEF IInv, DataTypes, StoredIsWhole
<1>1. CASE LoadAcquire(l)
  <2> DEFINE held == [load[l] EXCEPT !.pc = "reread", !.holder = TRUE]
             taken == [load[l] EXCEPT !.pc = "poll"]
             fail == [load[l] EXCEPT !.pc = "query", !.direct = TRUE]
  <2>1. load[l].pc = "acquire"
    BY <1>1 DEF LoadAcquire
  <2>2. UNCHANGED <<flight, state, rev, value, caller>>
    BY <1>1 DEF LoadAcquire, flightVars
  <2>3. Moves(l, held) \/ Moves(l, taken) \/ Moves(l, fail)
    BY <1>1 DEF LoadAcquire
  <2>4. load[l] \in Load /\ LoadSound(load[l]) /\ lease \in [Keys -> Loads \cup {NoLoad}]
    BY <2>1, LoadFacts
  <2>5. lease' \in [Keys -> Loads \cup {NoLoad}]
    BY <1>1, <2>4 DEF LoadAcquire
  <2>6. ASSUME NEW r \in {held, taken, fail}
        PROVE  r \in Load /\ r.pc \in {"reread", "poll", "query"} /\ r.key = load[l].key /\ r.node = load[l].node /\ r.err = load[l].err
    BY <2>4 DEF Load, LoadPcs
  <2>7. PICK r \in {held, taken, fail} : Moves(l, r)
    BY <2>3
  <2> HIDE DEF held, taken, fail
  <2>8. LoadSound(r)
    BY <2>1, <2>4, <2>6 DEF LoadSound
  <2> QED
    BY <1>0, <2>1, <2>2, <2>5, <2>6, <2>7, <2>8, LoadMove
<1>2. CASE LoadSet(l)
  <2> DEFINE r == [load[l] EXCEPT !.pc = "release"]
  <2>1. load[l].pc = "set"
    BY <1>2 DEF LoadSet
  <2>2. UNCHANGED <<flight, state, rev, lease, caller>> /\ Moves(l, r)
    BY <1>2 DEF LoadSet, flightVars
  <2> USE LoadFacts, <2>1
  <2>3. /\ r \in Load /\ r.key = load[l].key /\ r.node = load[l].node
        /\ r.err = load[l].err /\ r.counts = load[l].counts /\ r.pc = "release"
    BY DEF Load, LoadPcs
  <2> HIDE DEF r
  <2>4. LoadSound(r)
    BY <2>3 DEF LoadSound
  <2>5. load[l].counts = [approvals |-> load[l].key, others |-> load[l].key, complete |-> TRUE]
    <3>1. load[l].counts \in [approvals : 0..Unknown, others : 0..Unknown, complete : BOOLEAN]
      BY DEF Load, Results
    <3>2. load[l].counts.approvals = load[l].key /\ load[l].counts.others = load[l].key /\ load[l].counts.complete = TRUE
      BY <3>1 DEF LoadSound, TakenSince
    <3> QED
      BY <3>1, <3>2
  <2>6. load[l].counts \in Counts
    BY <2>5 DEF Counts
  <2>7. value' \in [Keys -> Counts \cup {NoCounts}] /\ StoredIsWhole'
    BY <1>2, <2>5, <2>6 DEF LoadSet, StoredIsWhole
  <2> QED
    BY <2>2, <2>3, <2>4, <2>7, LoadMove
<1>3. CASE LoadRelease(l)
  <2> DEFINE r == [load[l] EXCEPT !.pc = "finish", !.holder = FALSE]
  <2>1. load[l].pc = "release"
    BY <1>3 DEF LoadRelease
  <2>2. UNCHANGED <<flight, state, rev, value, caller>> /\ Moves(l, r)
    BY <1>3 DEF LoadRelease, flightVars
  <2>3. load[l] \in Load /\ LoadSound(load[l]) /\ lease \in [Keys -> Loads \cup {NoLoad}]
    BY <2>1, LoadFacts
  <2>4. lease' \in [Keys -> Loads \cup {NoLoad}]
    BY <1>3, <2>3 DEF LoadRelease, Released
  <2>5. /\ r \in Load /\ r.key = load[l].key /\ r.node = load[l].node
        /\ r.err = load[l].err /\ r.counts = load[l].counts /\ r.pc = "finish"
    BY <2>3 DEF Load, LoadPcs
  <2> HIDE DEF r
  <2>6. LoadSound(r)
    BY <2>1, <2>3, <2>5 DEF LoadSound
  <2> QED
    BY <1>0, <2>1, <2>2, <2>4, <2>5, <2>6, LoadMove
<1> QED
  BY <1>1, <1>2, <1>3

(* A load that polls again, or fails.                                        *)
LEMMA LoadWaitsOrFails ==
    ASSUME IInv, NEW l \in Loads, LoadTTL(l) \/ LoadFails(l) \/ LoadStops(l)
    PROVE  IInv'
<1>0. load[l].pc \in {"acquire", "poll", "ttl", "query", "rest", "check"} /\ UNCHANGED <<flightVars, rev, cacheVars, caller>>
  BY DEF LoadTTL, LoadFails, LoadStops, LoadError
<1>1. load[l] \in Load /\ LoadSound(load[l]) /\ load[l].holder \in BOOLEAN
  BY <1>0, LoadFacts
<1> DEFINE again == [load[l] EXCEPT !.pc = "acquire"]
           poll == [load[l] EXCEPT !.pc = "poll"]
           fail == [load[l] EXCEPT !.pc = "query", !.direct = TRUE]
           error == [load[l] EXCEPT !.pc = Ending(l), !.err = TRUE, !.counts = NoCounts]
<1>2. PICK r \in {again, poll, fail, error} : Moves(l, r)
  BY DEF LoadTTL, LoadFails, LoadStops, LoadError
<1>3. Ending(l) \in {"release", "finish"}
  BY <1>1 DEF Ending
<1>4. CASE r \in {again, poll, fail}
  <2>1. r \in Load /\ r.pc \in {"acquire", "poll", "query"} /\ r.key = load[l].key /\ r.node = load[l].node /\ r.err = load[l].err
    BY <1>1, <1>4 DEF Load, LoadPcs
  <2> HIDE DEF again, poll, fail, error
  <2>2. LoadSound(r)
    BY <1>0, <1>1, <2>1 DEF LoadSound
  <2> QED
    BY <1>0, <1>2, <2>1, <2>2, LoadOnly
<1>5. CASE r = error
  <2>1. r \in Load /\ r.pc \in {"release", "finish"} /\ r.key = load[l].key /\ r.node = load[l].node /\ r.err = TRUE
    BY <1>1, <1>3, <1>5, Records DEF Load, LoadPcs
  <2> HIDE DEF again, poll, fail, error
  <2>2. LoadSound(r)
    BY <1>0, <1>1, <2>1 DEF LoadSound
  <2> QED
    BY <1>0, <1>2, <2>1, <2>2, LoadOnly
<1> QED
  BY <1>2, <1>4, <1>5

(* A new flight: nobody waits for the call it uses, no key has it.           *)
LEMMA FlightStarts ==
    ASSUME IInv, NEW c \in Callers, NEW l \in Loads, StartFlight(c, l)
    PROVE  IInv'
<1> DEFINE r == [NoneLoad EXCEPT !.pc = "read", !.node = Home[c], !.key = caller[c].key]
           w == [caller[c] EXCEPT !.pc = "wait", !.on = l]
           n0 == Home[c]
           k0 == caller[c].key
<1>1. /\ caller[c] \in Caller /\ CallerSound(c, caller[c]) /\ caller[c].pc = "do"
      /\ n0 \in Nodes /\ k0 \in Keys /\ k0 <= rev
  BY WorkItemsCountsAssumption DEF IInv, DataTypes, StartFlight, Caller, CallerSound
<1>2. /\ r \in Load /\ r.pc = "read" /\ r.node = n0 /\ r.key = k0 /\ r.err = FALSE
  BY <1>1, Records DEF Load, LoadPcs, NoneLoad
<1>3. /\ w \in Caller /\ w.pc = "wait" /\ w.on = l /\ w.key = k0 /\ w.since = caller[c].since
  BY <1>1 DEF Caller, CallerPcs
<1>4. /\ Moves(l, r) /\ Becomes(c, w) /\ UNCHANGED <<rev, value, lease>>
      /\ flight' = [flight EXCEPT ![n0][k0] = l] /\ state' = [state EXCEPT ![l] = "running"]
  BY DEF StartFlight, Start, cacheVars
<1>5. load[l].pc \in {"none", "done"} /\ \A d \in Callers : ~(caller[d].pc = "wait" /\ caller[d].on = l)
  BY DEF StartFlight, Unused, Waiting
<1> HIDE DEF r, w, n0, k0
<1>6. /\ load' \in [Loads -> Load] /\ load'[l] = r /\ \A m \in Loads \ {l} : load'[m] = load[m]
      /\ caller' \in [Callers -> Caller] /\ caller'[c] = w /\ \A d \in Callers \ {c} : caller'[d] = caller[d]
      /\ state' \in [Loads -> States] /\ state'[l] = "running" /\ \A m \in Loads \ {l} : state'[m] = state[m]
  BY <1>2, <1>3, <1>4 DEF IInv, DataTypes, Moves, Becomes, States
<1>7. /\ flight' \in [Nodes -> [Keys -> Loads \cup {NoLoad}]]
      /\ \A n \in Nodes, k \in Keys : flight'[n][k] = IF n = n0 /\ k = k0 THEN l ELSE flight[n][k]
  BY <1>1, <1>4 DEF IInv, DataTypes
<1>8. DataTypes'
  BY <1>4, <1>6, <1>7 DEF IInv, DataTypes
<1>9. StoredIsWhole' /\ CountsAreOneRevision'
  BY <1>3, <1>4, <1>6 DEF IInv, StoredIsWhole, CountsAreOneRevision, CallerServed
<1>10. ASSUME NEW m \in Loads PROVE LoadSound(load[m])'
  <2>1. LoadSound(load'[m])
    BY <1>1, <1>2, <1>6 DEF IInv, LoadSound
  <2> QED
    BY <2>1, <1>4 DEF LoadSound, TakenSince
<1>11. ASSUME NEW m \in Loads, state'[m] = "completed" PROVE load'[m].pc = "done"
  BY <1>6, <1>11 DEF IInv
<1>12. ASSUME NEW d \in Callers PROVE CallerSound(d, caller[d])'
  <2>1. CASE d = c
    BY <2>1, <1>1, <1>2, <1>3, <1>4, <1>6 DEF CallerSound, n0, k0
  <2>2. CASE d # c
    <3>1. caller'[d] = caller[d] /\ CallerSound(d, caller[d])
      BY <2>2, <1>6 DEF IInv
    <3>2. caller[d].pc = "wait" => load'[caller[d].on] = load[caller[d].on]
      BY <3>1, <1>5, <1>6 DEF CallerSound
    <3> QED
      BY <3>1, <3>2, <1>4 DEF CallerSound, TakenSince
  <2> QED
    BY <2>1, <2>2
<1>13. ASSUME NEW n \in Nodes, NEW k \in Keys PROVE MapKnows(n, k)'
  <2>1. MapKnows(n, k) /\ flight[n][k] \in Loads \cup {NoLoad}
    BY DEF IInv, DataTypes
  <2>2. CASE n = n0 /\ k = k0
    BY <2>2, <1>2, <1>6, <1>7 DEF MapKnows
  <2>3. CASE ~(n = n0 /\ k = k0)
    <3>1. flight'[n][k] = flight[n][k]
      BY <2>3, <1>7
    <3>2. flight[n][k] # NoLoad => flight[n][k] # l
      BY <2>1, <1>5 DEF MapKnows
    <3> QED
      BY <2>1, <3>1, <3>2, <1>6 DEF MapKnows
  <2> QED
    BY <2>2, <2>3
<1> QED
  BY <1>8, <1>9, <1>10, <1>11, <1>12, <1>13 DEF IInv

(* The end of a flight: the call leaves the map under its own key.           *)
LEMMA FlightEnds ==
    ASSUME IInv, NEW l \in Loads, LoadFinish(l)
    PROVE  IInv'
<1> DEFINE r == [load[l] EXCEPT !.pc = "done"]
           n0 == load[l].node
           k0 == load[l].key
<1>1. load[l].pc = "finish"
  BY DEF LoadFinish
<1>2. load[l] \in Load /\ LoadSound(load[l]) /\ n0 \in Nodes /\ k0 \in Keys
  BY <1>1, LoadFacts DEF Load
<1>3. /\ r \in Load /\ r.pc = "done" /\ r.node = n0 /\ r.key = k0 /\ r.err = load[l].err /\ r.counts = load[l].counts
  BY <1>2 DEF Load, LoadPcs
<1>4. /\ Moves(l, r) /\ UNCHANGED <<rev, value, lease, caller>>
      /\ flight' = Removed(n0, k0, l) /\ state' = [state EXCEPT ![l] = "completed"]
  BY DEF LoadFinish, Complete, cacheVars
<1> HIDE DEF r, n0, k0
<1>5. /\ load' \in [Loads -> Load] /\ load'[l] = r /\ \A m \in Loads \ {l} : load'[m] = load[m]
      /\ state' \in [Loads -> States] /\ \A m \in Loads \ {l} : state'[m] = state[m]
  BY <1>3, <1>4 DEF IInv, DataTypes, Moves, States
<1>6. /\ flight' \in [Nodes -> [Keys -> Loads \cup {NoLoad}]]
      /\ \A n \in Nodes, k \in Keys :
           flight'[n][k] = IF n = n0 /\ k = k0 /\ flight[n][k] = l THEN NoLoad ELSE flight[n][k]
  BY <1>2, <1>4 DEF IInv, DataTypes, Removed
<1>7. DataTypes'
  BY <1>4, <1>5, <1>6 DEF IInv, DataTypes
<1>8. StoredIsWhole' /\ CountsAreOneRevision'
  BY <1>4 DEF IInv, StoredIsWhole, CountsAreOneRevision, CallerServed
<1>9. ASSUME NEW m \in Loads PROVE LoadSound(load[m])'
  <2>1. LoadSound(load'[m])
    BY <1>1, <1>2, <1>3, <1>5 DEF IInv, LoadSound, k0
  <2> QED
    BY <2>1, <1>4 DEF LoadSound, TakenSince
<1>10. ASSUME NEW m \in Loads, state'[m] = "completed" PROVE load'[m].pc = "done"
  BY <1>3, <1>5, <1>10 DEF IInv
<1>11. \A m \in Loads : /\ load'[m].node = load[m].node
                        /\ load'[m].key = load[m].key
                        /\ load[m].pc # "none" => load'[m].pc # "none"
  BY <1>3, <1>5 DEF n0, k0
<1>12. ASSUME NEW d \in Callers PROVE CallerSound(d, caller[d])'
  BY <1>4, <1>11 DEF IInv, CallerSound, TakenSince
<1>13. ASSUME NEW n \in Nodes, NEW k \in Keys PROVE MapKnows(n, k)'
  <2>1. MapKnows(n, k) /\ flight[n][k] \in Loads \cup {NoLoad}
    BY DEF IInv, DataTypes
  <2>2. flight'[n][k] # NoLoad => flight'[n][k] = flight[n][k] /\ flight[n][k] # l
    BY <2>1, <1>6 DEF MapKnows, n0, k0
  <2> QED
    BY <2>1, <2>2, <1>5 DEF MapKnows
<1> QED
  BY <1>7, <1>8, <1>9, <1>10, <1>12, <1>13 DEF IInv

(* A caller that leaves takes a call out of the map, and puts none in.       *)
LEMMA CallerLeaves ==
    ASSUME IInv, NEW c \in Callers, GiveUp(c)
    PROVE  IInv'
<1> DEFINE r == [IdleCaller EXCEPT !.pc = "returned", !.err = TRUE]
<1>1. r \in Caller /\ r.pc = "returned" /\ r.err = TRUE /\ r.since = 0
  BY Records DEF Caller, CallerPcs, IdleCaller
<1>2. Becomes(c, r) /\ UNCHANGED <<rev, value, lease, load>>
  BY DEF GiveUp, cacheVars
<1> HIDE DEF r
<1>3. caller' \in [Callers -> Caller] /\ caller'[c] = r /\ \A d \in Callers \ {c} : caller'[d] = caller[d]
  BY <1>1, <1>2 DEF IInv, DataTypes, Becomes
<1>4. /\ flight' \in [Nodes -> [Keys -> Loads \cup {NoLoad}]]
      /\ \A n \in Nodes, k \in Keys : flight'[n][k] \in {flight[n][k], NoLoad}
      /\ state' \in [Loads -> States]
      /\ \A m \in Loads : state'[m] = "completed" => state[m] = "completed"
  <2>1. CASE UNCHANGED flightVars
    BY <2>1 DEF flightVars, IInv, DataTypes
  <2>2. CASE caller[c].pc = "wait" /\ Leave(Home[c], caller[c].key, caller[c].on)
    <3>1. caller[c].on \in Loads /\ caller[c].key \in Keys /\ Home[c] \in Nodes
      BY <2>2, WorkItemsCountsAssumption DEF IInv, DataTypes, CallerSound, Caller
    <3>2. CASE UNCHANGED <<flight, state>>
      BY <3>2 DEF IInv, DataTypes
    <3>3. CASE /\ flight' = Removed(Home[c], caller[c].key, caller[c].on)
               /\ state' = [state EXCEPT ![caller[c].on] = "cancelled"]
      BY <3>1, <3>3 DEF IInv, DataTypes, Removed, States
    <3> QED
      BY <2>2, <3>2, <3>3 DEF Leave, flightVars
  <2> QED
    BY <2>1, <2>2 DEF GiveUp
<1>5. DataTypes'
  BY <1>2, <1>3, <1>4 DEF IInv, DataTypes
<1>6. StoredIsWhole' /\ CountsAreOneRevision'
  BY <1>1, <1>2, <1>3 DEF IInv, StoredIsWhole, CountsAreOneRevision, CallerServed
<1>7. ASSUME NEW m \in Loads PROVE LoadSound(load[m])'
  BY <1>2 DEF IInv, LoadSound, TakenSince
<1>8. ASSUME NEW m \in Loads, state'[m] = "completed" PROVE load'[m].pc = "done"
  BY <1>2, <1>4, <1>8 DEF IInv
<1>9. ASSUME NEW d \in Callers PROVE CallerSound(d, caller[d])'
  <2>1. 0 <= rev
    BY WorkItemsCountsAssumption DEF IInv, DataTypes
  <2>2. CallerSound(d, caller'[d])
    BY <1>1, <1>3, <2>1 DEF IInv, CallerSound
  <2> QED
    BY <2>2, <1>2 DEF CallerSound, TakenSince
<1>10. ASSUME NEW n \in Nodes, NEW k \in Keys PROVE MapKnows(n, k)'
  <2>1. MapKnows(n, k) /\ flight'[n][k] \in {flight[n][k], NoLoad}
    BY <1>4 DEF IInv
  <2> QED
    BY <2>1, <1>2 DEF MapKnows
<1> QED
  BY <1>5, <1>6, <1>7, <1>8, <1>9, <1>10 DEF IInv

(* The world outside: mutations, forgetful Redis, dying processes.           *)
LEMMA Environment ==
    ASSUME IInv, Mutate \/ (\E k \in Keys : ExpireLease(k) \/ ExpireValue(k)) \/ (\E n \in Nodes : Crash(n))
    PROVE  IInv'
<1> USE DEF IInv, DataTypes
<1>0. rev \in Nat /\ NoCounts \in Results
  BY WorkItemsCountsAssumption, Records
<1>1. CASE Mutate
  <2>1. rev' = rev + 1 /\ rev' \in Keys /\ rev' \in Nat /\ UNCHANGED <<flight, state, value, lease, load, caller>>
    BY <1>0, <1>1, WorkItemsCountsAssumption DEF Mutate, flightVars, cacheVars
  <2>2. DataTypes' /\ StoredIsWhole' /\ CountsAreOneRevision'
    BY <2>1 DEF StoredIsWhole, CountsAreOneRevision, CallerServed
  <2>3. ASSUME NEW m \in Loads PROVE LoadSound(load[m])'
    <3>1. LoadSound(load[m]) /\ load[m].key \in Nat /\ load[m].counts.approvals \in Nat /\ load[m].counts.others \in Nat
      BY WorkItemsCountsAssumption DEF Load, Results, Unknown
    <3> QED
      BY <3>1, <2>1, <1>0 DEF LoadSound, TakenSince
  <2>4. ASSUME NEW d \in Callers PROVE CallerSound(d, caller[d])'
    <3>1. /\ CallerSound(d, caller[d]) /\ caller[d].key \in Nat /\ caller[d].since \in Nat
          /\ caller[d].counts.approvals \in Nat /\ caller[d].counts.others \in Nat
      BY WorkItemsCountsAssumption DEF Caller, Results, Unknown
    <3> QED
      BY <3>1, <2>1, <1>0 DEF CallerSound, TakenSince
  <2>5. ASSUME NEW n \in Nodes, NEW k \in Keys PROVE MapKnows(n, k)'
    BY <2>1 DEF MapKnows
  <2> QED
    BY <2>1, <2>2, <2>3, <2>4, <2>5
<1>2. ASSUME NEW k0 \in Keys, ExpireLease(k0) \/ ExpireValue(k0) PROVE IInv'
  <2>1. UNCHANGED <<flight, state, rev, load, caller>>
    BY <1>2 DEF ExpireLease, ExpireValue, flightVars
  <2>2. /\ value' \in [Keys -> Counts \cup {NoCounts}] /\ lease' \in [Keys -> Loads \cup {NoLoad}]
        /\ \A k \in Keys : value'[k] \in {value[k], NoCounts}
    BY <1>2 DEF ExpireLease, ExpireValue
  <2>3. DataTypes' /\ StoredIsWhole' /\ CountsAreOneRevision'
    BY <2>1, <2>2 DEF StoredIsWhole, CountsAreOneRevision, CallerServed
  <2>4. ASSUME NEW m \in Loads PROVE LoadSound(load[m])'
    BY <2>1 DEF LoadSound, TakenSince
  <2>5. ASSUME NEW d \in Callers PROVE CallerSound(d, caller[d])'
    BY <2>1 DEF CallerSound, TakenSince
  <2>6. ASSUME NEW n \in Nodes, NEW k \in Keys PROVE MapKnows(n, k)'
    BY <2>1 DEF MapKnows
  <2> QED
    BY <2>1, <2>3, <2>4, <2>5, <2>6
<1>3. ASSUME NEW n0 \in Nodes, Crash(n0) PROVE IInv'
  <2>1. /\ load' = [l \in Loads |-> IF load[l].node = n0 THEN NoneLoad ELSE load[l]]
        /\ caller' = [c \in Callers |-> IF Home[c] = n0 THEN IdleCaller ELSE caller[c]]
        /\ state' = [l \in Loads |-> IF load[l].node = n0 THEN "free" ELSE state[l]]
        /\ flight' = [flight EXCEPT ![n0] = [k \in Keys |-> NoLoad]]
        /\ UNCHANGED <<rev, value, lease>>
    BY <1>3 DEF Crash, cacheVars
  <2>2. DataTypes' /\ StoredIsWhole'
    BY <2>1, Records DEF StoredIsWhole, States
  <2>3. CountsAreOneRevision'
    BY <2>1 DEF CountsAreOneRevision, CallerServed, IdleCaller
  <2>4. ASSUME NEW m \in Loads PROVE LoadSound(load[m])'
    <3>1. load'[m] \in {NoneLoad, load[m]}
      BY <2>1
    <3>2. NoneLoad.pc = "none" /\ NoneLoad.key = 0 /\ NoneLoad.err = FALSE
      BY DEF NoneLoad
    <3>3. LoadSound(load'[m])
      BY <3>1, <3>2, <1>0 DEF LoadSound
    <3> QED
      BY <3>3, <2>1 DEF LoadSound, TakenSince
  <2>5. ASSUME NEW m \in Loads, state'[m] = "completed" PROVE load'[m].pc = "done"
    BY <2>1, <2>5
  <2>6. ASSUME NEW d \in Callers PROVE CallerSound(d, caller[d])'
    <3>1. CASE Home[d] = n0
      <4>1. caller'[d].pc = "idle" /\ caller'[d].since = 0
        BY <3>1, <2>1 DEF IdleCaller
      <4> QED
        BY <4>1, <2>1, <1>0 DEF CallerSound
    <3>2. CASE Home[d] # n0
      <4>1. caller'[d] = caller[d] /\ CallerSound(d, caller[d])
        BY <3>2, <2>1
      <4>2. caller[d].pc = "wait" => load'[caller[d].on] = load[caller[d].on]
        BY <4>1, <3>2, <2>1 DEF CallerSound
      <4> QED
        BY <4>1, <4>2, <2>1 DEF CallerSound, TakenSince
    <3> QED
      BY <3>1, <3>2
  <2>7. ASSUME NEW n \in Nodes, NEW k \in Keys PROVE MapKnows(n, k)'
    <3>1. MapKnows(n, k) /\ flight[n][k] \in Loads \cup {NoLoad}
      OBVIOUS
    <3>2. flight'[n][k] = IF n = n0 THEN NoLoad ELSE flight[n][k]
      BY <2>1
    <3> QED
      BY <3>1, <3>2, <2>1 DEF MapKnows
  <2> QED
    BY <2>2, <2>3, <2>4, <2>5, <2>6, <2>7
<1> QED
  BY <1>1, <1>2, <1>3

(* The initial states satisfy the invariant.                                 *)
LEMMA InitIInv == Init => IInv
<1> SUFFICES ASSUME Init PROVE IInv
  OBVIOUS
<1> USE WorkItemsCountsAssumption, Records DEF Init, FlightInit
<1>1. DataTypes
  BY DEF DataTypes, States
<1>2. StoredIsWhole /\ CountsAreOneRevision
  BY DEF StoredIsWhole, CountsAreOneRevision, CallerServed, IdleCaller
<1>3. ASSUME NEW l \in Loads PROVE LoadSound(load[l]) /\ (state[l] = "completed" => load[l].pc = "done")
  BY DEF LoadSound, NoneLoad
<1>4. ASSUME NEW c \in Callers PROVE CallerSound(c, caller[c])
  BY DEF CallerSound, IdleCaller
<1>5. ASSUME NEW n \in Nodes, NEW k \in Keys PROVE MapKnows(n, k)
  BY DEF MapKnows
<1> QED
  BY <1>1, <1>2, <1>3, <1>4, <1>5 DEF IInv

(* Every step keeps the invariant.                                           *)
LEMMA StepIInv == IInv /\ [Next]_vars => IInv'
<1> SUFFICES ASSUME IInv, [Next]_vars PROVE IInv'
  OBVIOUS
<1>1. CASE UNCHANGED vars
  BY <1>1 DEF vars, IInv, DataTypes, StoredIsWhole, CountsAreOneRevision, CallerServed, LoadSound,
              CallerSound, MapKnows, TakenSince
<1>2. ASSUME NEW c \in Callers, Call(c) \/ CallerStep(c) \/ GiveUp(c) PROVE IInv'
  BY <1>2, CallerReads, CallerJoins, FlightStarts, CallerLeaves DEF CallerStep
<1>3. ASSUME NEW l \in Loads, LoadStep(l) \/ LoadStops(l) \/ LoadFails(l) PROVE IInv'
  BY <1>3, LoadReads, LoadQueries, LoadWrites, LoadWaitsOrFails, FlightEnds DEF LoadStep
<1> QED
  BY <1>1, <1>2, <1>3, Environment DEF Next

(* IInv is an invariant, with the types of all that the code stores.         *)
THEOREM Inductive == Spec => []IInv
BY InitIInv, StepIInv, PTL DEF Spec

(* Whoever asks after a mutation has committed gets counts taken after it,   *)
(* and all at one revision, for any number of callers, processes and loads.  *)
THEOREM CountsFresh == Spec => []CountsAreOneRevision
<1>1. IInv => CountsAreOneRevision
  BY DEF IInv
<1> QED
  BY <1>1, Inductive, PTL

(* Redis never has counts of another revision than the one in their key.     *)
THEOREM StoredWhole == Spec => []StoredIsWhole
<1>1. IInv => StoredIsWhole
  BY DEF IInv
<1> QED
  BY <1>1, Inductive, PTL

-----------------------------------------------------------------------------
(* The flight group                                                          *)

(* Of one call: who waits for it is finite (nobody counts Callers), is       *)
(* counted while the call can still be joined or left, and is nobody before  *)
(* it starts and once it is cancelled; a running call is in the map.         *)
CallCounted(l) ==
    /\ waiters[l] \in Nat
    /\ IsFiniteSet(Waiting(l))
    /\ state[l] \in {"running", "cancelled"} => waiters[l] = Cardinality(Waiting(l))
    /\ state[l] \in {"free", "cancelled"} => Waiting(l) = {}
    /\ state[l] = "running" => Waiting(l) # {} /\ flight[load[l].node][load[l].key] = l

(* Of one entry of the map: it is the running call of that process and key.  *)
EntryRuns(n, k) ==
    flight[n][k] # NoLoad =>
        /\ state[flight[n][k]] = "running"
        /\ load[flight[n][k]].node = n
        /\ load[flight[n][k]].key = k

FlightInv ==
    /\ waiters = [l \in Loads |-> waiters[l]]
    /\ \A l \in Loads : CallCounted(l)
    /\ \A n \in Nodes, k \in Keys : EntryRuns(n, k)

(* What the steps of callers need of the other invariant.                    *)
LEMMA FlightTypes ==
    ASSUME IInv
    PROVE  /\ flight \in [Nodes -> [Keys -> Loads \cup {NoLoad}]]
           /\ state \in [Loads -> States]
           /\ load \in [Loads -> Load]
           /\ \A l \in Loads : load[l].node \in Nodes /\ load[l].key \in Keys
           /\ caller = [c \in Callers |-> caller[c]]
           /\ \A c \in Callers : Home[c] \in Nodes /\ caller[c].key \in Keys
           /\ \A c \in Callers : caller[c].pc = "wait" =>
                 /\ caller[c].on \in Loads
                 /\ load[caller[c].on].key = caller[c].key
                 /\ load[caller[c].on].node = Home[c]
BY WorkItemsCountsAssumption DEF IInv, DataTypes, CallerSound, Load, Caller

(* A step that moves no waiting caller and keeps the group and the place of  *)
(* every load.                                                               *)
LEMMA FlightUntouched ==
    ASSUME IInv, FlightInv,
           UNCHANGED flightVars,
           \A l \in Loads : Waiting(l)' = Waiting(l),
           \A l \in Loads : load'[l].node = load[l].node /\ load'[l].key = load[l].key
    PROVE  FlightInv'
<1>1. \A n \in Nodes, k \in Keys : flight[n][k] \in Loads \cup {NoLoad}
  BY FlightTypes
<1>2. UNCHANGED <<flight, waiters, state>>
  BY DEF flightVars
<1>3. ASSUME NEW l \in Loads PROVE CallCounted(l)'
  BY <1>2 DEF FlightInv, CallCounted
<1>4. ASSUME NEW n \in Nodes, NEW k \in Keys PROVE EntryRuns(n, k)'
  <2>1. EntryRuns(n, k)
    BY DEF FlightInv
  <2>2. QED
    BY <1>1, <1>2, <2>1 DEF EntryRuns
<1>5. QED
  BY <1>2, <1>3, <1>4 DEF FlightInv

(* One caller goes from one record to another.                               *)
LEMMA WaitingAfter ==
    ASSUME IInv, NEW c \in Callers, NEW r, Becomes(c, r), NEW l \in Loads
    PROVE  /\ r.pc = "wait" /\ r.on = l => Waiting(l)' = Waiting(l) \cup {c}
           /\ ~ (r.pc = "wait" /\ r.on = l) => Waiting(l)' = Waiting(l) \ {c}
<1>1. caller' = [d \in Callers |-> IF d = c THEN r ELSE caller[d]]
  BY FlightTypes DEF Becomes
<1>2. \A d \in Callers : caller'[d] = IF d = c THEN r ELSE caller[d]
  BY <1>1
<1>3. Waiting(l)' = {d \in Callers : caller'[d].pc = "wait" /\ caller'[d].on = l}
  BY DEF Waiting
<1>4. QED
  BY <1>2, <1>3 DEF Waiting

(* The steps of a load before its end leave it where it is.                  *)
LEMMA LoadStays ==
    ASSUME IInv, NEW l \in Loads,
           \/ LoadRead(l) \/ LoadAcquire(l) \/ LoadPoll(l) \/ LoadTTL(l) \/ LoadReread(l)
           \/ LoadQuery(l) \/ LoadRest(l) \/ LoadCheck(l) \/ LoadSet(l) \/ LoadRelease(l)
           \/ LoadStops(l) \/ LoadFails(l)
    PROVE  /\ UNCHANGED <<flightVars, caller>>
           /\ \A m \in Loads : load'[m].node = load[m].node /\ load'[m].key = load[m].key
<1>1. load \in [Loads -> Load] /\ load[l] \in Load
  BY FlightTypes
<1>2. UNCHANGED <<flightVars, caller>>
  BY Zenon
     DEF LoadRead, LoadAcquire, LoadPoll, LoadTTL, LoadReread, Read, LoadQuery, LoadRest, LoadCheck,
         LoadSet, LoadRelease, LoadStops, LoadFails, LoadError
<1> DEFINE Stays(r) == r.node = load[l].node /\ r.key = load[l].key
<1>3. ASSUME NEW pc, NEW v
      PROVE  /\ Stays([load[l] EXCEPT !.pc = pc])
             /\ Stays([load[l] EXCEPT !.pc = pc, !.counts = v])
             /\ Stays([load[l] EXCEPT !.pc = pc, !.holder = v])
             /\ Stays([load[l] EXCEPT !.pc = pc, !.direct = v])
             /\ Stays([load[l] EXCEPT !.pc = pc, !.err = TRUE, !.counts = v])
  BY <1>1 DEF Load
<1> HIDE DEF Stays
<1>4. PICK r : Stays(r) /\ Moves(l, r)
  <2>1. CASE LoadRead(l) \/ LoadPoll(l) \/ LoadReread(l)
    <3>1. PICK pc, v : \/ Moves(l, [load[l] EXCEPT !.pc = pc, !.counts = v])
                       \/ Moves(l, [load[l] EXCEPT !.pc = pc])
                       \/ Moves(l, [load[l] EXCEPT !.pc = pc, !.direct = v])
      BY <2>1, Zenon DEF LoadRead, LoadPoll, LoadReread, Read
    <3>2. QED
      BY <1>3, <3>1, Zenon
  <2>2. CASE LoadAcquire(l) \/ LoadTTL(l) \/ LoadCheck(l) \/ LoadSet(l) \/ LoadRelease(l)
    <3>1. PICK pc, v : \/ Moves(l, [load[l] EXCEPT !.pc = pc, !.holder = v])
                       \/ Moves(l, [load[l] EXCEPT !.pc = pc])
                       \/ Moves(l, [load[l] EXCEPT !.pc = pc, !.direct = v])
      BY <2>2, Zenon DEF LoadAcquire, LoadTTL, LoadCheck, LoadSet, LoadRelease
    <3>2. QED
      BY <1>3, <3>1, Zenon
  <2>3. CASE LoadQuery(l) \/ LoadStops(l) \/ LoadFails(l)
    <3>1. PICK pc, v : \/ Moves(l, [load[l] EXCEPT !.pc = pc, !.counts = v])
                       \/ Moves(l, [load[l] EXCEPT !.pc = pc, !.err = TRUE, !.counts = v])
      BY <2>3, Zenon DEF LoadQuery, LoadStops, LoadFails, LoadError
    <3>2. QED
      BY <1>3, <3>1, Zenon
  <2>4. CASE LoadRest(l)
    <3>1. PICK pc, v : Moves(l, [load[l] EXCEPT !.pc = pc, !.counts = v])
      BY <2>4, Zenon DEF LoadRest
    <3>2. QED
      BY <1>3, <3>1, Zenon
  <2>5. QED
    BY <2>1, <2>2, <2>3, <2>4
<1>5. QED
  BY <1>1, <1>2, <1>4 DEF Moves, Stays

(* A caller joins the call it found in the map.                              *)
LEMMA JoinCounted ==
    ASSUME IInv, FlightInv, NEW c \in Callers, NEW l \in Loads, JoinFlight(c, l)
    PROVE  FlightInv'
<1> DEFINE r == [caller[c] EXCEPT !.pc = "wait", !.on = l]
           n0 == Home[c]
           k0 == caller[c].key
<1>1. /\ caller[c].pc = "do" /\ flight[n0][k0] = l /\ UNCHANGED <<flight, state, load>>
      /\ waiters' = [waiters EXCEPT ![l] = @ + 1]
      /\ Becomes(c, r)
  BY DEF JoinFlight, Join
<1>2. r.pc = "wait" /\ r.on = l
  BY DEF IInv, DataTypes, Caller
<1>3. n0 \in Nodes /\ k0 \in Keys /\ l # NoLoad
  BY FlightTypes, ReadFlightAssumption
<1>4. state[l] = "running" /\ CallCounted(l)
  BY <1>1, <1>3 DEF FlightInv, EntryRuns
<1> HIDE DEF r, n0, k0
<1>5. c \notin Waiting(l) /\ \A m \in Loads : c \notin Waiting(m)
  BY <1>1 DEF Waiting
<1>6. Waiting(l)' = Waiting(l) \cup {c} /\ \A m \in Loads \ {l} : Waiting(m)' = Waiting(m)
  BY <1>1, <1>2, <1>5, WaitingAfter
<1>7. waiters' = [m \in Loads |-> IF m = l THEN waiters[l] + 1 ELSE waiters[m]]
  BY <1>1 DEF FlightInv
<1>8. CallCounted(l)'
  <2>1. IsFiniteSet(Waiting(l) \cup {c}) /\ Cardinality(Waiting(l) \cup {c}) = Cardinality(Waiting(l)) + 1
    BY <1>4, <1>5, FS_AddElement DEF CallCounted
  <2>2. waiters'[l] = waiters[l] + 1
    BY <1>7
  <2>3. QED
    BY <1>1, <1>4, <1>6, <2>1, <2>2 DEF CallCounted
<1>9. ASSUME NEW m \in Loads \ {l} PROVE CallCounted(m)'
  <2>1. CallCounted(m) /\ waiters'[m] = waiters[m]
    BY <1>7 DEF FlightInv
  <2>2. QED
    BY <1>1, <1>6, <2>1 DEF CallCounted
<1>10. ASSUME NEW n \in Nodes, NEW k \in Keys PROVE EntryRuns(n, k)'
  BY <1>1 DEF FlightInv, EntryRuns
<1>11. QED
  BY <1>7, <1>8, <1>9, <1>10 DEF FlightInv

(* A new call has one waiter, and takes a free place of the map.             *)
LEMMA StartCounted ==
    ASSUME IInv, FlightInv, NEW c \in Callers, NEW l \in Loads, StartFlight(c, l)
    PROVE  FlightInv'
<1> DEFINE r == [NoneLoad EXCEPT !.pc = "read", !.node = Home[c], !.key = caller[c].key]
           w == [caller[c] EXCEPT !.pc = "wait", !.on = l]
           n0 == Home[c]
           k0 == caller[c].key
<1>1. /\ caller[c].pc = "do" /\ flight[n0][k0] = NoLoad
      /\ load[l].pc \in {"none", "done"} /\ Waiting(l) = {}
      /\ flight' = [flight EXCEPT ![n0][k0] = l]
      /\ waiters' = [waiters EXCEPT ![l] = 1]
      /\ state' = [state EXCEPT ![l] = "running"]
      /\ Becomes(c, w) /\ Moves(l, r)
  BY DEF StartFlight, Start, Unused
<1>2. w.pc = "wait" /\ w.on = l
  BY DEF IInv, DataTypes, Caller
<1>3. r.node = n0 /\ r.key = k0
  BY DEF NoneLoad
<1>4. n0 \in Nodes /\ k0 \in Keys /\ l # NoLoad
  BY FlightTypes, ReadFlightAssumption
<1> HIDE DEF r, w, n0, k0
<1>5. \A m \in Loads : c \notin Waiting(m)
  BY <1>1 DEF Waiting
<1>6. Waiting(l)' = {c} /\ \A m \in Loads \ {l} : Waiting(m)' = Waiting(m)
  <2>1. Waiting(l)' = Waiting(l) \cup {c}
    BY <1>1, <1>2, WaitingAfter
  <2>2. ASSUME NEW m \in Loads \ {l} PROVE Waiting(m)' = Waiting(m) \ {c}
    BY <1>1, <1>2, WaitingAfter
  <2>3. QED
    BY <1>1, <1>5, <2>1, <2>2
<1>7. /\ waiters' = [m \in Loads |-> IF m = l THEN 1 ELSE waiters[m]]
      /\ \A m \in Loads : state'[m] = IF m = l THEN "running" ELSE state[m]
      /\ \A m \in Loads : load'[m] = IF m = l THEN r ELSE load[m]
      /\ \A n \in Nodes, k \in Keys : flight'[n][k] = IF n = n0 /\ k = k0 THEN l ELSE flight[n][k]
  BY <1>1, <1>4, FlightTypes DEF FlightInv, Moves
<1>8. CallCounted(l)'
  <2>1. IsFiniteSet({c}) /\ Cardinality({c}) = 1
    BY FS_Singleton
  <2>2. waiters'[l] = 1 /\ state'[l] = "running" /\ load'[l] = r /\ flight'[n0][k0] = l
    BY <1>4, <1>7
  <2>3. QED
    BY <1>3, <1>6, <2>1, <2>2 DEF CallCounted
<1>9. ASSUME NEW m \in Loads \ {l} PROVE CallCounted(m)'
  <2>1. CallCounted(m) /\ waiters'[m] = waiters[m] /\ state'[m] = state[m] /\ load'[m] = load[m]
    BY <1>7 DEF FlightInv
  <2>2. load[m].node \in Nodes /\ load[m].key \in Keys /\ m # NoLoad
    BY FlightTypes, ReadFlightAssumption
  <2>3. state[m] = "running" => flight'[load[m].node][load[m].key] = m
    BY <1>1, <1>7, <2>1, <2>2 DEF CallCounted
  <2>4. QED
    BY <1>6, <2>1, <2>3 DEF CallCounted
<1>10. ASSUME NEW n \in Nodes, NEW k \in Keys PROVE EntryRuns(n, k)'
  <2>1. EntryRuns(n, k) /\ MapKnows(n, k) /\ flight[n][k] \in Loads \cup {NoLoad}
    BY FlightTypes DEF FlightInv, IInv
  <2>2. CASE n = n0 /\ k = k0
    BY <1>3, <1>7, <2>2 DEF EntryRuns
  <2>3. CASE ~ (n = n0 /\ k = k0)
    <3>1. flight'[n][k] = flight[n][k]
      BY <1>7, <2>3
    <3>2. flight[n][k] # NoLoad => flight[n][k] # l
      BY <1>1, <2>1 DEF MapKnows
    <3>3. QED
      BY <1>7, <2>1, <3>1, <3>2 DEF EntryRuns
  <2>4. QED
    BY <2>2, <2>3
<1>11. QED
  BY <1>7, <1>8, <1>9, <1>10 DEF FlightInv

(* A call leaves the map: no entry is left that names it.                    *)
LEMMA RemovedEntries ==
    ASSUME IInv, FlightInv, NEW l \in Loads,
           flight' = Removed(load[l].node, load[l].key, l)
    PROVE  \A n \in Nodes, k \in Keys :
              flight'[n][k] = IF flight[n][k] = l THEN NoLoad ELSE flight[n][k]
<1> DEFINE n0 == load[l].node
           k0 == load[l].key
<1>1. n0 \in Nodes /\ k0 \in Keys /\ l # NoLoad /\ flight \in [Nodes -> [Keys -> Loads \cup {NoLoad}]]
  BY FlightTypes, ReadFlightAssumption
<1>2. \A n \in Nodes, k \in Keys : flight[n][k] = l => n = n0 /\ k = k0
  BY <1>1 DEF FlightInv, EntryRuns
<1> HIDE DEF n0, k0
<1>3. flight' = Removed(n0, k0, l)
  BY DEF n0, k0
<1>4. QED
  BY <1>1, <1>2, <1>3 DEF Removed

(* A call that is taken out of the map and gets a last state.                *)
LEMMA RemovedCounted ==
    ASSUME IInv, FlightInv, NEW l \in Loads,
           flight' = Removed(load[l].node, load[l].key, l),
           state' = [state EXCEPT ![l] = state'[l]],
           waiters' = [waiters EXCEPT ![l] = waiters'[l]],
           CallCounted(l)',
           \A m \in Loads \ {l} : Waiting(m)' = Waiting(m),
           \A m \in Loads : load'[m].node = load[m].node /\ load'[m].key = load[m].key
    PROVE  FlightInv'
<1>1. \A n \in Nodes, k \in Keys :
         flight'[n][k] = IF flight[n][k] = l THEN NoLoad ELSE flight[n][k]
  BY RemovedEntries
<1>2. /\ waiters' = [m \in Loads |-> waiters'[m]]
      /\ \A m \in Loads \ {l} : waiters'[m] = waiters[m] /\ state'[m] = state[m]
  BY FlightTypes DEF FlightInv
<1>3. ASSUME NEW m \in Loads \ {l} PROVE CallCounted(m)'
  <2>1. CallCounted(m) /\ load[m].node \in Nodes /\ load[m].key \in Keys
    BY FlightTypes DEF FlightInv
  <2>2. QED
    BY <1>1, <1>2, <2>1 DEF CallCounted
<1>4. ASSUME NEW n \in Nodes, NEW k \in Keys PROVE EntryRuns(n, k)'
  <2>1. EntryRuns(n, k) /\ flight[n][k] \in Loads \cup {NoLoad}
    BY FlightTypes DEF FlightInv
  <2>2. QED
    <3>1. CASE flight[n][k] = l
      BY <1>1, <3>1 DEF EntryRuns
    <3>2. CASE flight[n][k] # l
      BY <1>1, <1>2, <2>1, <3>2 DEF EntryRuns
    <3>3. QED
      BY <3>1, <3>2
<1>5. QED
  BY <1>2, <1>3, <1>4 DEF FlightInv

(* The goroutine completes the call; who waits takes the result later.       *)
LEMMA FinishCounted ==
    ASSUME IInv, FlightInv, NEW l \in Loads, LoadFinish(l)
    PROVE  FlightInv'
<1>1. /\ flight' = Removed(load[l].node, load[l].key, l)
      /\ state' = [state EXCEPT ![l] = "completed"]
      /\ UNCHANGED <<waiters, caller>>
      /\ Moves(l, [load[l] EXCEPT !.pc = "done"])
  BY DEF LoadFinish, Complete
<1>2. /\ state'[l] = "completed" /\ state' = [state EXCEPT ![l] = state'[l]]
  BY <1>1, FlightTypes
<1>3. waiters' = [waiters EXCEPT ![l] = waiters'[l]]
  BY <1>1 DEF FlightInv
<1>4. \A m \in Loads : Waiting(m)' = Waiting(m)
  BY <1>1 DEF Waiting
<1>5. CallCounted(l)'
  <2>1. CallCounted(l)
    BY DEF FlightInv
  <2>2. QED
    BY <1>1, <1>2, <1>4, <2>1 DEF CallCounted
<1>6. \A m \in Loads : load'[m].node = load[m].node /\ load'[m].key = load[m].key
  BY <1>1, FlightTypes DEF Moves, Load
<1>7. QED
  BY <1>1, <1>2, <1>3, <1>4, <1>5, <1>6, RemovedCounted

(* The result is taken: the call has completed, and nobody counts any more.  *)
LEMMA TakeCounted ==
    ASSUME IInv, FlightInv, NEW c \in Callers, TakeResult(c)
    PROVE  FlightInv'
<1> DEFINE l == caller[c].on
           r == [caller[c] EXCEPT !.pc = IF load[l].err THEN "returned" ELSE "recheck",
                                  !.on = NoLoad,
                                  !.err = load[l].err,
                                  !.counts = load[l].counts]
<1>1. /\ caller[c].pc = "wait" /\ state[l] = "completed" /\ Becomes(c, r)
      /\ UNCHANGED <<flight, waiters, state, load>>
  BY DEF TakeResult, flightVars
<1>2. r.pc # "wait"
  BY DEF IInv, DataTypes, Caller
<1>3. l \in Loads
  BY <1>1, FlightTypes
<1> HIDE DEF l, r
<1>4. \A m \in Loads \ {l} : c \notin Waiting(m)
  BY DEF Waiting, l
<1>5. \A m \in Loads : Waiting(m)' = Waiting(m) \ {c}
  BY <1>1, <1>2, WaitingAfter
<1>6. ASSUME NEW m \in Loads PROVE CallCounted(m)'
  <2>1. CallCounted(m)
    BY DEF FlightInv
  <2>2. CASE m = l
    <3>1. IsFiniteSet(Waiting(m) \ {c})
      BY <2>1, FS_RemoveElement DEF CallCounted
    <3>2. QED
      BY <1>1, <1>5, <2>1, <2>2, <3>1 DEF CallCounted
  <2>3. CASE m # l
    <3>1. Waiting(m)' = Waiting(m)
      BY <1>4, <1>5, <2>3
    <3>2. QED
      BY <1>1, <2>1, <3>1 DEF CallCounted
  <2>4. QED
    BY <2>2, <2>3
<1>7. ASSUME NEW n \in Nodes, NEW k \in Keys PROVE EntryRuns(n, k)'
  BY <1>1 DEF FlightInv, EntryRuns
<1>8. QED
  BY <1>1, <1>6, <1>7 DEF FlightInv

(* A caller leaves a call that has not completed; the last cancels it.       *)
LEMMA LeaveCounted ==
    ASSUME IInv, FlightInv, NEW c \in Callers, GiveUp(c)
    PROVE  FlightInv'
<1> DEFINE r == [IdleCaller EXCEPT !.pc = "returned", !.err = TRUE]
<1>1. Becomes(c, r) /\ UNCHANGED load
  BY DEF GiveUp
<1>2. r.pc # "wait"
  BY DEF IdleCaller
<1> HIDE DEF r
<1>3. \A m \in Loads : Waiting(m)' = Waiting(m) \ {c}
  BY <1>1, <1>2, WaitingAfter
<1>4. CASE caller[c].pc # "wait"
  <2>1. \A m \in Loads : c \notin Waiting(m)
    BY <1>4 DEF Waiting
  <2>2. UNCHANGED flightVars
    BY <1>4 DEF GiveUp
  <2>3. QED
    BY <1>1, <1>3, <2>1, <2>2, FlightUntouched
<1>5. CASE caller[c].pc = "wait"
  <2>1. PICK l \in Loads : /\ caller[c].on = l
                            /\ load[l].key = caller[c].key /\ load[l].node = Home[c]
    BY <1>5, FlightTypes
  <2>2. Leave(load[l].node, load[l].key, l)
    BY <1>5, <2>1 DEF GiveUp
  <2>3. CallCounted(l) /\ c \in Waiting(l)
    BY <1>5, <2>1 DEF FlightInv, Waiting
  <2>4. \A m \in Loads \ {l} : c \notin Waiting(m)
    BY <2>1 DEF Waiting
  <2>5. \A m \in Loads \ {l} : Waiting(m)' = Waiting(m)
    BY <1>3, <2>4
  <2>6. IsFiniteSet(Waiting(l) \ {c}) /\ Cardinality(Waiting(l) \ {c}) = Cardinality(Waiting(l)) - 1
    BY <2>3, FS_RemoveElement DEF CallCounted
  <2>7. CASE state[l] = "completed"
    <3>1. UNCHANGED <<flight, waiters, state>>
      BY <2>2, <2>7 DEF Leave, flightVars
    <3>2. CallCounted(l)'
      BY <1>1, <1>3, <2>1, <2>3, <2>6, <2>7, <3>1 DEF CallCounted
    <3>3. ASSUME NEW m \in Loads \ {l} PROVE CallCounted(m)'
      BY <1>1, <2>5, <3>1 DEF FlightInv, CallCounted
    <3>4. ASSUME NEW n \in Nodes, NEW k \in Keys PROVE EntryRuns(n, k)'
      BY <1>1, <3>1 DEF FlightInv, EntryRuns
    <3>5. QED
      BY <3>1, <3>2, <3>3, <3>4 DEF FlightInv
  <2>8. CASE state[l] # "completed"
    <3>1. state[l] = "running" /\ waiters[l] = Cardinality(Waiting(l)) /\ waiters[l] \in Nat
          /\ flight[load[l].node][load[l].key] = l
      BY <2>1, <2>3, <2>8, FlightTypes DEF CallCounted, States
    <3>2. waiters' = [waiters EXCEPT ![l] = @ - 1] /\ waiters'[l] = waiters[l] - 1
      BY <2>1, <2>2, <2>8 DEF Leave, FlightInv
    <3>3. Waiting(l)' = Waiting(l) \ {c}
      BY <1>3, <2>1
    <3>4. Cardinality(Waiting(l)') = waiters'[l] /\ IsFiniteSet(Waiting(l)')
      BY <2>6, <3>1, <3>2, <3>3
    <3>5. waiters[l] >= 1
      <4>1. waiters[l] # 0
        BY <2>3, <3>1, FS_EmptySet DEF CallCounted
      <4>2. QED
        BY <3>1, <4>1
    <3>6. CASE waiters[l] > 1
      <4>1. UNCHANGED <<flight, state>>
        BY <2>2, <2>8, <3>6 DEF Leave
      <4>2. Waiting(l)' # {}
        <5>1. waiters'[l] # 0
          BY <3>1, <3>2, <3>6
        <5>2. QED
          BY <3>4, <5>1, FS_EmptySet
      <4>3. CallCounted(l)'
        BY <1>1, <3>1, <3>2, <3>4, <3>6, <4>1, <4>2 DEF CallCounted
      <4>4. ASSUME NEW m \in Loads \ {l} PROVE CallCounted(m)'
        <5>1. waiters'[m] = waiters[m] /\ CallCounted(m)
          BY <3>2 DEF FlightInv
        <5>2. QED
          BY <1>1, <2>5, <4>1, <5>1 DEF CallCounted
      <4>5. ASSUME NEW n \in Nodes, NEW k \in Keys PROVE EntryRuns(n, k)'
        BY <1>1, <4>1 DEF FlightInv, EntryRuns
      <4>6. waiters' = [m \in Loads |-> waiters'[m]]
        BY <3>2 DEF FlightInv
      <4>7. QED
        BY <4>3, <4>4, <4>5, <4>6 DEF FlightInv
    <3>7. CASE waiters[l] = 1
      <4>1. flight' = Removed(load[l].node, load[l].key, l) /\ state' = [state EXCEPT ![l] = "cancelled"]
        BY <2>2, <2>8, <3>7 DEF Leave
      <4>2. state'[l] = "cancelled" /\ state' = [state EXCEPT ![l] = state'[l]]
        BY <2>1, <4>1, FlightTypes
      <4>3. waiters' = [waiters EXCEPT ![l] = waiters'[l]]
        BY <2>1, <3>2 DEF FlightInv
      <4>4. Waiting(l)' = {}
        <5>1. waiters'[l] = 0
          BY <3>2, <3>7
        <5>2. QED
          BY <3>4, <5>1, FS_EmptySet
      <4>5. CallCounted(l)'
        BY <3>1, <3>2, <3>4, <3>7, <4>2, <4>4 DEF CallCounted
      <4>6. QED
        BY <1>1, <2>1, <2>5, <4>1, <4>2, <4>3, <4>5, RemovedCounted
    <3>8. QED
      BY <3>1, <3>5, <3>6, <3>7
  <2>9. QED
    BY <2>7, <2>8
<1>6. QED
  BY <1>4, <1>5

(* A process dies with its callers, its loads and its part of the map.       *)
LEMMA CrashCounted ==
    ASSUME IInv, FlightInv, NEW n0 \in Nodes, Crash(n0)
    PROVE  FlightInv'
<1>1. /\ flight' = [flight EXCEPT ![n0] = [k \in Keys |-> NoLoad]]
      /\ \A l \in Loads : /\ state'[l] = IF load[l].node = n0 THEN "free" ELSE state[l]
                          /\ waiters'[l] = IF load[l].node = n0 THEN 0 ELSE waiters[l]
                          /\ load'[l] = IF load[l].node = n0 THEN NoneLoad ELSE load[l]
      /\ waiters' = [l \in Loads |-> waiters'[l]]
      /\ \A c \in Callers : caller'[c] = IF Home[c] = n0 THEN IdleCaller ELSE caller[c]
  BY DEF Crash
<1>2. \A n \in Nodes, k \in Keys : flight'[n][k] = IF n = n0 THEN NoLoad ELSE flight[n][k]
  BY <1>1, FlightTypes
<1>3. IdleCaller.pc = "idle"
  BY DEF IdleCaller
<1>4. \A l \in Loads : Waiting(l)' = {c \in Callers : caller'[c].pc = "wait" /\ caller'[c].on = l}
  BY DEF Waiting
<1>5. ASSUME NEW l \in Loads, load[l].node = n0 PROVE CallCounted(l)'
  <2>1. Waiting(l)' = {}
    <3>1. \A c \in Callers : caller'[c].pc = "wait" => Home[c] # n0 /\ caller'[c] = caller[c]
      BY <1>1, <1>3
    <3>2. QED
      BY <1>4, <1>5, <3>1, FlightTypes
  <2>2. QED
    BY <1>1, <1>5, <2>1, FS_EmptySet DEF CallCounted
<1>6. ASSUME NEW l \in Loads, load[l].node # n0 PROVE CallCounted(l)'
  <2>1. Waiting(l)' = Waiting(l)
    <3>1. \A c \in Callers : caller[c].pc = "wait" /\ caller[c].on = l => caller'[c] = caller[c]
      BY <1>1, <1>6, FlightTypes
    <3>2. \A c \in Callers : caller'[c].pc = "wait" => caller'[c] = caller[c]
      BY <1>1, <1>3
    <3>3. QED
      BY <1>4, <3>1, <3>2 DEF Waiting
  <2>2. CallCounted(l) /\ load[l].node \in Nodes /\ load[l].key \in Keys
    BY FlightTypes DEF FlightInv
  <2>3. state'[l] = state[l] /\ waiters'[l] = waiters[l] /\ load'[l] = load[l]
    BY <1>1, <1>6
  <2>4. QED
    BY <1>2, <1>6, <2>1, <2>2, <2>3 DEF CallCounted
<1>7. ASSUME NEW n \in Nodes, NEW k \in Keys PROVE EntryRuns(n, k)'
  <2>1. EntryRuns(n, k) /\ flight[n][k] \in Loads \cup {NoLoad}
    BY FlightTypes DEF FlightInv
  <2>2. QED
    BY <1>1, <1>2, <2>1 DEF EntryRuns
<1>8. QED
  BY <1>1, <1>5, <1>6, <1>7 DEF FlightInv

LEMMA FlightStep == IInv /\ FlightInv /\ [Next]_vars => FlightInv'
<1> SUFFICES ASSUME IInv, FlightInv, [Next]_vars PROVE FlightInv'
  OBVIOUS
<1>1. CASE UNCHANGED vars
  BY <1>1, FlightUntouched DEF vars, flightVars, Waiting
<1>2. ASSUME NEW c \in Callers, Call(c) \/ ReadRevision(c) \/ Recheck(c) \/ Return(c)
      PROVE  FlightInv'
  <2>1. PICK r : Becomes(c, r) /\ r.pc # "wait"
    <3>1. IdleCaller \in Caller /\ IdleCaller.pc = "idle" /\ caller[c] \in Caller
      BY Records DEF IdleCaller, IInv, DataTypes
    <3>2. \A d \in Caller : /\ \A v : [d EXCEPT !.pc = "revision", !.since = v].pc = "revision"
                            /\ \A v : [d EXCEPT !.pc = "do", !.key = v].pc = "do"
                            /\ [d EXCEPT !.pc = "returned"].pc = "returned"
      BY DEF Caller
    <3>3. QED
      BY <1>2, <3>1, <3>2 DEF Call, ReadRevision, Recheck, Return
  <2>2. caller[c].pc # "wait" /\ UNCHANGED <<flightVars, load>>
    BY <1>2 DEF Call, ReadRevision, Recheck, Return
  <2>3. ASSUME NEW l \in Loads PROVE Waiting(l)' = Waiting(l)
    BY <2>1, <2>2, WaitingAfter DEF Waiting
  <2>4. QED
    BY <2>2, <2>3, FlightUntouched
<1>3. ASSUME NEW l \in Loads, LoadStep(l) \/ LoadStops(l) \/ LoadFails(l)
      PROVE  FlightInv'
  <2>1. CASE LoadFinish(l)
    BY <2>1, FinishCounted
  <2>2. CASE ~ LoadFinish(l)
    <3>1. /\ UNCHANGED <<flightVars, caller>>
          /\ \A m \in Loads : load'[m].node = load[m].node /\ load'[m].key = load[m].key
      BY <1>3, <2>2, LoadStays DEF LoadStep
    <3>2. QED
      BY <3>1, FlightUntouched DEF Waiting
  <2>3. QED
    BY <2>1, <2>2
<1>4. CASE Mutate \/ \E k \in Keys : ExpireLease(k) \/ ExpireValue(k)
  <2>1. UNCHANGED <<flightVars, caller, load>>
    BY <1>4 DEF Mutate, ExpireLease, ExpireValue
  <2>2. QED
    BY <2>1, FlightUntouched DEF Waiting
<1>5. QED
  BY <1>1, <1>2, <1>3, <1>4, JoinCounted, StartCounted, TakeCounted, LeaveCounted, CrashCounted
     DEF Next, CallerStep

LEMMA InitFlight == Init => FlightInv
<1> SUFFICES ASSUME Init PROVE FlightInv
  OBVIOUS
<1>1. \A l \in Loads : Waiting(l) = {}
  BY DEF Init, IdleCaller, Waiting
<1>2. /\ waiters = [l \in Loads |-> waiters[l]]
      /\ \A l \in Loads : waiters[l] = 0 /\ state[l] = "free"
      /\ \A n \in Nodes, k \in Keys : flight[n][k] = NoLoad
  BY DEF Init, FlightInit
<1>3. QED
  BY <1>1, <1>2, FS_EmptySet DEF FlightInv, CallCounted, EntryRuns

(* However callers join, leave and are cut off while loads complete and      *)
(* processes die (FlightGroup.Do, leave): the count of a call is right, no   *)
(* caller waits for a cancelled load, and a process has one load of a key    *)
(* that can still be joined.                                                 *)
THEOREM FlightsStayShared == Spec => []FlightsAreShared
<1>1. Init => IInv /\ FlightInv
  BY InitIInv, InitFlight
<1>2. IInv /\ FlightInv /\ [Next]_vars => IInv' /\ FlightInv'
  BY StepIInv, FlightStep
<1>3. FlightInv => FlightsAreShared
  <2> SUFFICES ASSUME FlightInv PROVE FlightsAreShared
    OBVIOUS
  <2>1. waiters \in [Loads -> Nat]
    BY DEF FlightInv, CallCounted
  <2>2. QED
    BY <2>1 DEF FlightInv, CallCounted, EntryRuns, FlightsAreShared
<1>4. QED
  BY <1>1, <1>2, <1>3, PTL DEF Spec

-----------------------------------------------------------------------------
(* Leases                                                                    *)

LEMMA LeaseStep ==
    ASSUME IInv, [Next]_vars, NEW k \in Keys, lease[k] # NoLoad, lease'[k] # lease[k]
    PROVE  \/ load' = load
           \/ load[lease[k]].pc = "release" /\ load'[lease[k]].pc = "finish"
<1>1. lease \in [Keys -> Loads \cup {NoLoad}] /\ load \in [Loads -> Load]
  BY DEF IInv, DataTypes
<1>2. CASE UNCHANGED vars
  BY <1>2 DEF vars
<1>3. ASSUME NEW c \in Callers, Call(c) \/ CallerStep(c) \/ GiveUp(c)
      PROVE  FALSE
  BY <1>3 DEF Call, CallerStep, ReadRevision, TakeResult, Recheck, Return, JoinFlight, StartFlight,
              GiveUp, cacheVars
<1>4. ASSUME NEW l \in Loads, LoadStops(l) \/ LoadFails(l)
      PROVE  FALSE
  BY <1>4 DEF LoadStops, LoadFails, LoadError, cacheVars
<1>5. ASSUME NEW l \in Loads, LoadStep(l)
      PROVE  load[lease[k]].pc = "release" /\ load'[lease[k]].pc = "finish"
  <2>1. CASE LoadAcquire(l)
    BY <1>1, <2>1 DEF LoadAcquire
  <2>2. CASE LoadRelease(l)
    <3> DEFINE r == [load[l] EXCEPT !.pc = "finish", !.holder = FALSE]
    <3>1. load[l].pc = "release" /\ lease' = Released(l) /\ Moves(l, r)
      BY <2>2 DEF LoadRelease
    <3>2. lease[k] = l
      BY <1>1, <3>1 DEF Released
    <3>3. r.pc = "finish"
      BY <1>1 DEF Load
    <3>4. QED
      BY <1>1, <3>1, <3>2, <3>3 DEF Moves
  <2>3. CASE ~ LoadAcquire(l) /\ ~ LoadRelease(l)
    BY <1>5, <2>3 DEF LoadStep, LoadRead, LoadPoll, LoadReread, Read, LoadTTL, LoadQuery, LoadRest,
                      LoadCheck, LoadSet, LoadFinish, cacheVars
  <2>4. QED
    BY <2>1, <2>2, <2>3
<1>6. CASE Mutate \/ \E j \in Keys : ExpireLease(j) \/ ExpireValue(j)
  BY <1>6 DEF Mutate, ExpireLease, ExpireValue
<1>7. ASSUME NEW n \in Nodes, Crash(n) PROVE FALSE
  BY <1>7 DEF Crash, cacheVars
<1>8. QED
  BY <1>2, <1>3, <1>4, <1>5, <1>6, <1>7 DEF Next

(* A holder whose lease has expired does not end that of its successor       *)
(* (releaseLeaseScript compares the token), whatever Redis forgets or fails  *)
(* to answer and whichever process dies.                                     *)
THEOREM LeaseIsItsOwners == Spec => LeaseEndsByOwner
<1>1. IInv /\ [Next]_vars =>
        [\A k \in Keys : lease[k] # NoLoad /\ lease'[k] # lease[k] =>
            \/ load' = load
            \/ load[lease[k]].pc = "release" /\ load'[lease[k]].pc = "finish"]_vars
  BY LeaseStep
<1>2. QED
  BY <1>1, Inductive, PTL DEF Spec, LeaseEndsByOwner
=============================================================================
