------------------------- MODULE AttributionLedger -------------------------
(***************************************************************************)
(* The hot attribution claims of one user and the usage pools they are     *)
(* counted in: backend/internal/attributionclaim, attributionpool,         *)
(* attributionreconcile and the rewrites of backend/internal/checkpoint.   *)
(*                                                                         *)
(* A client ingests claim groups, one per turn: the commits the turn went  *)
(* into and either Relay request ids or usage it counted itself.  Workers  *)
(* look the requests up at the Relay under leases, and each contribution   *)
(* is stored in the pool of its group's commits.  Rewrites of a commit     *)
(* move hot groups and pools.  Groups are finalized before they expire.    *)
(*                                                                         *)
(* Every transaction but a rewrite's locks its group's row first and is    *)
(* one step.  A rewrite reads hot groups and pools before it locks them    *)
(* (READ COMMITTED), so it takes several; the others see nothing of one    *)
(* that rolls back, which is modelled as one that fails before it writes.  *)
(* One repository, provider, model and 15-minute bucket: a pool is named   *)
(* by its commits.                                                         *)
(***************************************************************************)
EXTENDS Integers, Sequences, FiniteSets, SequencesExt

CONSTANTS Commits,
          RelayGroups,   \* turns whose usage the Relay reports
          LocalGroups,   \* turns whose usage the client counts
          Plan,          \* Plan[g]: the commits of turn g, in order
          Requests,
          GroupOf,       \* GroupOf[q]: the turn of Relay request q
          Tokens,        \* Tokens[q]: what the Relay charged for q
          Usages,        \* what a client may have counted for a turn
          Rewrites,      \* pairs <<old, new>> a client may report
          Workers

Groups == RelayGroups \cup LocalGroups

(* The tables are finite, and a pool is of some commits.                     *)
ASSUME AttributionLedgerAssumption ==
    /\ IsFiniteSet(Commits) /\ IsFiniteSet(Groups) /\ IsFiniteSet(Requests)
    /\ Commits # {}
    /\ RelayGroups \cap LocalGroups = {}
    /\ Plan \in [Groups -> Seq(Commits) \ {<<>>}]
    /\ GroupOf \in [Requests -> RelayGroups]
    /\ Tokens \in [Requests -> Nat]
    /\ Usages \subseteq Nat \ {0}
    /\ Rewrites \subseteq {r \in Commits \X Commits : r[1] # r[2]}

VARIABLES group,     \* attribution_claim_groups
          claim,     \* attribution_request_claims
          pool,      \* attribution_usage_pools, with their commits
          lineage,   \* commit_rewrites: the pairs saved
          rw,        \* the rewrite transaction under the lineage lock
          worker,    \* the claim each worker is looking up
          lost,      \* history: how far what a rewrite deleted was above what it had read
          overlapped \* history: a commit was ingested while a rewrite of it was applied

vars == <<group, claim, pool, lineage, rw, worker, lost, overlapped>>

-----------------------------------------------------------------------------
(* Amounts and pools                                                         *)

Amount(total, count, gaps) == [total |-> total, count |-> count, gaps |-> gaps]

Amounts == [total : Nat, count : Nat, gaps : Nat]

Zero == Amount(0, 0, 0)

Plus(x, y) == Amount(x.total + y.total, x.count + y.count, x.gaps + y.gaps)

Minus(x, y) == Amount(x.total - y.total, x.count - y.count, x.gaps - y.gaps)

(* The reserved model of coverage gaps has pools of its own.                 *)
Keys == [gap : BOOLEAN, commits : (SUBSET Commits) \ {{}}]

Key(commits) == [gap |-> FALSE, commits |-> commits]

GapKey(commits) == [gap |-> TRUE, commits |-> commits]

(* Pointers that name no pool: never materialized, and a deleted row's id.   *)
NoPool == Key({})

GonePool == GapKey({})

(* A pool row exists while something is counted in it.                       *)
Exists(k) == pool[k].count + pool[k].gaps > 0

(* What claims point to once these pools are all there are.                  *)
Unpointed(claims, pools) ==
    [q \in Requests |-> IF claims[q].ptr.commits # {} /\ pools[claims[q].ptr].count = 0
                        THEN [claims[q] EXCEPT !.ptr = GonePool] ELSE claims[q]]

(* Mutant: a pool gives whatever is taken.                                   *)
TakesAlways(k, x) == TRUE

(* subtractContribution and deleteEmptyPool succeed.                         *)
CanTake(k, x) ==
    /\ pool[k].total >= x.total
    /\ pool[k].count >= x.count
    /\ pool[k].count = x.count /\ pool[k].gaps = 0 => pool[k].total = x.total

-----------------------------------------------------------------------------
(* Rows                                                                      *)

(* What finalization strips stays here as history; nothing reads it again.   *)
Group == [state : {"none", "hot", "final", "dropped"}, alloc : Seq(Commits),
          usage : Usages \cup {0}, age : {"young", "due", "expired"}]

(* pending: also provider_unavailable; failed: any other terminal status.    *)
Claim == [status : {"none", "pending", "reconciled", "failed"},
          lease : SUBSET Workers, live : BOOLEAN, ptr : Keys \cup {NoPool, GonePool}]

Hot(g) == group[g].state = "hot"

CommitsOf(g) == ToSet(group[g].alloc)

(* A request row exists until its group is finalized or dropped.             *)
Stored(q) == claim[q].status # "none" /\ Hot(GroupOf[q])

Members(g) == {q \in Requests : GroupOf[q] = g}

WithStatus(g, s) == {q \in Members(g) : claim[q].status = s}

Official(qs) == Amount(SumFunctionOnSet(Tokens, qs), Cardinality(qs), 0)

(* One request per token counted.                                            *)
Local(u) == Amount(u, u, 0)

-----------------------------------------------------------------------------
(* The rewrite transaction                                                   *)

Rewrite == [pc : {"idle", "groups", "pools", "move", "delete"},
            old : Commits, new : Commits,
            targets : SUBSET Groups,   \* hot groups seen with the old commit
            raced : BOOLEAN,           \* one of them was updated since
            held : SUBSET Keys,        \* pool rows it has written
            todo : SUBSET Keys,        \* pools still to migrate
            key : Keys, sum : Amounts]

(* Rows a rewrite has written wait for its commit.                           *)
Locked(g) == g \in rw.targets /\ rw.pc \notin {"idle", "groups"}

Free(keys) == keys \cap rw.held = {}

(* An update of these groups, which stamps updated_at.  A rewrite fails at   *)
(* once if the pool it has read is gone when it deletes it: such a rewrite   *)
(* is one that failed before it wrote.                                       *)
Touch(gs) ==
    /\ rw.pc \in {"move", "delete"} => pool'[rw.key].count + pool'[rw.key].gaps > 0
    /\ rw' = [rw EXCEPT !.raced = @ \/ (rw.pc = "groups" /\ gs \cap rw.targets # {})]

Overlap(alloc) ==
    overlapped' = (overlapped \/ (rw.pc # "idle" /\ rw.old \in ToSet(alloc)))

(* Where a commit is now, along a set of saved pairs.                        *)
Successor(pairs, c) ==
    IF \E r \in pairs : r[1] = c THEN (CHOOSE r \in pairs : r[1] = c)[2] ELSE c

Terminal(pairs, c) ==
    LET walk[n \in 0..Cardinality(Commits)] ==
            IF n = 0 THEN c ELSE Successor(pairs, walk[n - 1])
    IN  walk[Cardinality(Commits)]

Renamed(commits, old, new) == {IF c = old THEN new ELSE c : c \in commits}

-----------------------------------------------------------------------------
Init ==
    /\ group = [g \in Groups |-> [state |-> "none", alloc |-> <<>>, usage |-> 0, age |-> "young"]]
    /\ claim = [q \in Requests |->
                   [status |-> "none", lease |-> {}, live |-> FALSE, ptr |-> NoPool]]
    /\ pool = [k \in Keys |-> Zero]
    /\ lineage = {}
    /\ rw = [pc |-> "idle", old |-> CHOOSE c \in Commits : TRUE, new |-> CHOOSE c \in Commits : TRUE,
             targets |-> {}, raced |-> FALSE, held |-> {}, todo |-> {},
             key |-> CHOOSE k \in Keys : TRUE, sum |-> Zero]
    /\ worker = [w \in Workers |-> {}]
    /\ lost = [k \in Keys |-> Zero]
    /\ overlapped = FALSE

-----------------------------------------------------------------------------
(* MaterializeRequestClaim for a set of reconciled requests of one group     *)

Movers(qs, key) == {q \in qs : claim[q].ptr # key}

From(k, qs) == {q \in qs : claim[q].ptr = k}

(* Mutant: a request counted already is counted again where it moves.        *)
MaterializedTwice(qs, key) ==
    [pool EXCEPT ![key] = Plus(@, Official(Movers(qs, key)))]

Materialized(qs, key) ==
    LET movers == Movers(qs, key)
    IN  [k \in Keys |-> IF k = key THEN Plus(pool[k], Official(movers))
                                   ELSE Minus(pool[k], Official(From(k, movers)))]

MayMaterialize(qs, key) ==
    /\ From(GonePool, qs) = {}
    /\ \A k \in {claim[q].ptr : q \in Movers(qs, key)} \ {NoPool} :
          CanTake(k, Official(From(k, qs))) /\ k \notin rw.held
    /\ Movers(qs, key) # {} => key \notin rw.held

Pointed(qs, key) ==
    [q \in Requests |-> IF q \in qs THEN [claim[q] EXCEPT !.ptr = key] ELSE claim[q]]

-----------------------------------------------------------------------------
(* Ingest                                                                    *)

(* What a client may send: the commits of the turn so far, and evidence.     *)
Snapshots(g) == {SubSeq(Plan[g], 1, n) : n \in 1..Len(Plan[g])}

Added(qs) == [q \in Requests |-> IF q \in qs THEN [claim[q] EXCEPT !.status = "pending"]
                                             ELSE claim[q]]

IngestRelayNew(g, alloc, qs) ==
    /\ group[g].state = "none"
    /\ qs # {}
    /\ group' = [group EXCEPT ![g].state = "hot", ![g].alloc = alloc]
    /\ claim' = Added(qs)
    /\ Overlap(alloc)
    /\ UNCHANGED <<pool, lineage, rw, worker, lost>>

(* compatibleAllocations: append-only.  Requests sent before are duplicates. *)
IngestRelayMore(g, alloc, qs) ==
    LET done == WithStatus(g, "reconciled")
        key == Key(ToSet(alloc))
        changed == alloc # group[g].alloc
    IN  /\ Hot(g)
        /\ ~ Locked(g)
        /\ IsPrefix(group[g].alloc, alloc)
        /\ changed => MayMaterialize(done, key)
        /\ pool' = IF changed THEN Materialized(done, key) ELSE pool
        /\ group' = [group EXCEPT ![g].alloc = alloc]
        /\ LET new == {q \in qs : claim[q].status = "none"}
               pointed == IF changed THEN Pointed(done, key) ELSE claim
           IN  claim' = Unpointed([q \in Requests |-> IF q \in new THEN Added(new)[q]
                                                                 ELSE pointed[q]], pool')
        /\ Touch({g})
        /\ Overlap(alloc)
        /\ UNCHANGED <<lineage, worker, lost>>

IngestLocalNew(g, alloc, u) ==
    LET key == Key(ToSet(alloc))
    IN  /\ group[g].state = "none"
        /\ Free({key})
        /\ group' = [group EXCEPT ![g].state = "hot", ![g].alloc = alloc, ![g].usage = u]
        /\ pool' = [pool EXCEPT ![key] = Plus(@, Local(u))]
        /\ Overlap(alloc)
        /\ UNCHANGED <<claim, lineage, rw, worker, lost>>

(* ApplyLocalGroupChange finds the prior pool by the key of the allocations. *)
IngestLocalMore(g, alloc, u) ==
    LET old == Key(CommitsOf(g))
        new == Key(ToSet(alloc))
        before == Local(group[g].usage)
    IN  /\ Hot(g)
        /\ ~ Locked(g)
        /\ IsPrefix(group[g].alloc, alloc)
        /\ u >= group[g].usage
        /\ IF alloc = group[g].alloc /\ u = group[g].usage
           THEN pool' = pool
           ELSE /\ Exists(old)
                /\ Free({old, new})
                /\ IF old = new
                   THEN pool' = [pool EXCEPT ![old] = Plus(@, Minus(Local(u), before))]
                   ELSE /\ CanTake(old, before)
                        /\ pool' = [pool EXCEPT ![old] = Minus(@, before),
                                                ![new] = Plus(@, Local(u))]
        /\ group' = [group EXCEPT ![g].alloc = alloc, ![g].usage = u]
        /\ claim' = Unpointed(claim, pool')
        /\ Touch({g})
        /\ Overlap(alloc)
        /\ UNCHANGED <<lineage, worker, lost>>

-----------------------------------------------------------------------------
(* Reconciliation                                                            *)

Lease(w, q) ==
    /\ worker[w] = {}
    /\ Stored(q)
    /\ claim[q].status = "pending"
    /\ ~ claim[q].live
    /\ claim' = [claim EXCEPT ![q].lease = {w}, ![q].live = TRUE]
    /\ worker' = [worker EXCEPT ![w] = {q}]
    /\ UNCHANGED <<group, pool, lineage, rw, lost, overlapped>>

LeaseExpires(q) ==
    /\ claim[q].live
    /\ claim' = [claim EXCEPT ![q].live = FALSE]
    /\ UNCHANGED <<group, pool, lineage, rw, worker, lost, overlapped>>

(* Mutant: the outcome is stored by claim id alone.                          *)
HoldsById(w, q) == Stored(q)

(* LeaseTokenEQ: the worker's own lease, live or not.                        *)
Holds(w, q) == Stored(q) /\ claim[q].lease = {w}

Settled(q, status) == [claim[q] EXCEPT !.status = status, !.lease = {}, !.live = FALSE]

(* The Relay has one row, of the owner and valid.                            *)
Reconcile(w, q) ==
    LET key == Key(CommitsOf(GroupOf[q]))
    IN  /\ worker[w] = {q}
        /\ Holds(w, q)
        /\ ~ Locked(GroupOf[q])
        /\ MayMaterialize({q}, key)
        /\ claim' = [claim EXCEPT ![q] = [Settled(q, "reconciled") EXCEPT !.ptr = key]]
        /\ pool' = Materialized({q}, key)
        /\ Touch({GroupOf[q]})
        /\ worker' = [worker EXCEPT ![w] = {}]
        /\ UNCHANGED <<group, lineage, lost, overlapped>>

(* No row, or the provider does not answer: source_expired at the boundary.  *)
Retry(w, q) ==
    /\ worker[w] = {q}
    /\ Holds(w, q)
    /\ claim' = [claim EXCEPT ![q] =
          Settled(q, IF group[GroupOf[q]].age = "young" THEN "pending" ELSE "failed")]
    /\ worker' = [worker EXCEPT ![w] = {}]
    /\ UNCHANGED <<group, pool, lineage, rw, lost, overlapped>>

(* Several rows, another owner's or an invalid one.                          *)
Finish(w, q) ==
    /\ worker[w] = {q}
    /\ Holds(w, q)
    /\ claim' = [claim EXCEPT ![q] = Settled(q, "failed")]
    /\ worker' = [worker EXCEPT ![w] = {}]
    /\ UNCHANGED <<group, pool, lineage, rw, lost, overlapped>>

(* The lease was lost, a statement failed or the worker died.                *)
GiveUp(w) ==
    /\ worker[w] # {}
    /\ worker' = [worker EXCEPT ![w] = {}]
    /\ UNCHANGED <<group, claim, pool, lineage, rw, lost, overlapped>>

-----------------------------------------------------------------------------
(* Expiry                                                                    *)

(* Due from a day before expires_at.                                         *)
GrowsOld(g) ==
    /\ Hot(g)
    /\ group[g].age # "expired"
    /\ group' = [group EXCEPT ![g].age = IF @ = "young" THEN "due" ELSE "expired"]
    /\ UNCHANGED <<claim, pool, lineage, rw, worker, lost, overlapped>>

(* Mutant: a group is finalized once its leases have run out.                *)
LeasesOver(g) == \A q \in Members(g) : ~ claim[q].live

AttemptsOver(g) ==
    \A q \in Members(g) : claim[q].status # "pending" /\ ~ claim[q].live

FinalizeGroup(g) ==
    LET done == WithStatus(g, "reconciled")
        unresolved == WithStatus(g, "failed")
        key == Key(CommitsOf(g))
        gap == GapKey(CommitsOf(g))
    IN  /\ Hot(g)
        /\ group[g].age # "young"
        /\ ~ Locked(g)
        /\ AttemptsOver(g)
        /\ MayMaterialize(done, key)
        /\ unresolved # {} => Free({gap})
        /\ pool' = [Materialized(done, key) EXCEPT
                       ![gap] = Plus(@, Amount(0, 0, Cardinality(unresolved)))]
        /\ claim' = Unpointed(Pointed(done, key), pool')
        /\ group' = [group EXCEPT ![g].state = "final"]
        /\ Touch({g})
        /\ UNCHANGED <<lineage, worker, lost, overlapped>>

(* cleanupExpiredGroups                                                      *)
Cleanup ==
    LET due == {g \in Groups : Hot(g) /\ group[g].age = "expired"}
    IN  /\ due # {}
        /\ \A g \in due : ~ Locked(g)
        /\ group' = [g \in Groups |-> IF g \in due THEN [group[g] EXCEPT !.state = "dropped"]
                                                   ELSE group[g]]
        /\ pool' = pool
        /\ Touch(due)
        /\ UNCHANGED <<claim, lineage, worker, lost, overlapped>>

-----------------------------------------------------------------------------
(* Rewrites                                                                  *)

(* canonicalRewriteTarget: one successor per commit, no cycle.               *)
Valid(r) ==
    /\ \A saved \in lineage : saved[1] = r[1] => saved = r
    /\ Terminal(lineage \ {r}, r[2]) # r[1]

(* Mutant: a rewrite leaves the groups alone that have nothing counted yet.  *)
UsingCounted(old) == {g \in Groups : /\ Hot(g) /\ old \in CommitsOf(g)
                                     /\ g \in LocalGroups \/ WithStatus(g, "reconciled") # {}}

Using(old) == {g \in Groups : Hot(g) /\ old \in CommitsOf(g)}

(* The pair is saved, or was; then the transaction reads the hot groups.     *)
RewriteBegin(r) ==
    /\ rw.pc = "idle"
    /\ Valid(r)
    /\ lineage' = lineage \cup {r}
    /\ rw' = [rw EXCEPT !.pc = "groups", !.old = r[1], !.new = Terminal(lineage', r[2]),
                        !.targets = Using(r[1])]
    /\ UNCHANGED <<group, claim, pool, worker, lost, overlapped>>

RewriteEnd ==
    rw' = [rw EXCEPT !.pc = "idle", !.targets = {}, !.raced = FALSE, !.held = {}, !.todo = {},
                     !.sum = Zero, !.key = CHOOSE k \in Keys : TRUE,
                     !.old = CHOOSE c \in Commits : TRUE, !.new = CHOOSE c \in Commits : TRUE]

(* Mutant: the pools of coverage gaps stay with the old commit.              *)
AffectedUsage(pools, old) == {k \in Keys : old \in k.commits /\ pools[k].count > 0}

Affected(pools, old) == {k \in Keys : old \in k.commits /\ pools[k].count + pools[k].gaps > 0}

(* Each group read is updated if its updated_at still is what was read, and  *)
(* its reconciled requests are rematerialized; the pools are looked up.      *)
RewriteGroups ==
    LET alloc(g) == [i \in DOMAIN group[g].alloc |->
                        IF group[g].alloc[i] = rw.old THEN rw.new ELSE group[g].alloc[i]]
        key(g) == Key(ToSet(alloc(g)))
        moved == {q \in Requests : /\ GroupOf[q] \in rw.targets
                                   /\ claim[q].status = "reconciled"
                                   /\ claim[q].ptr # key(GroupOf[q])}
        into(k) == {q \in moved : key(GroupOf[q]) = k}
    IN  /\ rw.pc = "groups"
        /\ ~ rw.raced
        /\ \A k \in {claim[q].ptr : q \in moved} : k # GonePool /\ CanTake(k, Official(From(k, moved)))
        /\ group' = [g \in Groups |-> IF g \in rw.targets THEN [group[g] EXCEPT !.alloc = alloc(g)]
                                                          ELSE group[g]]
        /\ pool' = [k \in Keys |-> Plus(Minus(pool[k], Official(From(k, moved))), Official(into(k)))]
        /\ claim' = Unpointed([q \in Requests |-> IF q \in moved
                                  THEN [claim[q] EXCEPT !.ptr = key(GroupOf[q])]
                                  ELSE claim[q]], pool')
        /\ rw' = [rw EXCEPT
              !.pc = "pools",
              !.held = {claim[q].ptr : q \in moved} \cup {key(GroupOf[q]) : q \in moved},
              !.todo = Affected(pool', rw.old)]
        /\ UNCHANGED <<lineage, worker, lost, overlapped>>

(* A group was updated in between, or a statement fails: rolled back.        *)
RewriteFails ==
    /\ rw.pc = "groups"
    /\ RewriteEnd
    /\ UNCHANGED <<group, claim, pool, lineage, worker, lost, overlapped>>

(* migrateDurablePools reads a pool, without locking it ...                  *)
ReadPool(k) ==
    /\ rw.pc = "pools"
    /\ k \in rw.todo
    /\ rw' = IF Exists(k) THEN [rw EXCEPT !.pc = "move", !.key = k, !.sum = pool[k]]
                          ELSE [rw EXCEPT !.todo = @ \ {k}]
    /\ UNCHANGED <<group, claim, pool, lineage, worker, lost, overlapped>>

(* Mutant: the requests counted in the pool keep pointing to it.             *)
PointersStay(k, target) == claim

PointersMoved(k, target) ==
    [q \in Requests |-> IF claim[q].ptr = k /\ Stored(q) THEN [claim[q] EXCEPT !.ptr = target]
                                                         ELSE claim[q]]

(* ... adds what it read to the pool of the renamed commits ...              *)
MovePool ==
    LET target == [rw.key EXCEPT !.commits = Renamed(@, rw.old, rw.new)]
    IN  /\ rw.pc = "move"
        /\ pool' = [pool EXCEPT ![target] = Plus(@, rw.sum)]
        /\ claim' = PointersMoved(rw.key, target)
        /\ rw' = [rw EXCEPT !.pc = "delete", !.held = @ \cup {target}]
        /\ UNCHANGED <<group, lineage, worker, lost, overlapped>>

(* ... and deletes the one it read.                                          *)
DeletePool ==
    /\ rw.pc = "delete"
    /\ pool' = [pool EXCEPT ![rw.key] = Zero]
    /\ lost' = [lost EXCEPT ![rw.key] = Plus(@, Minus(pool[rw.key], rw.sum))]
    /\ claim' = PointersMoved(rw.key, GonePool)
    /\ rw' = [rw EXCEPT !.pc = "pools", !.held = @ \cup {rw.key}, !.todo = @ \ {rw.key}]
    /\ UNCHANGED <<group, lineage, worker, overlapped>>

RewriteCommit ==
    /\ rw.pc = "pools"
    /\ rw.todo = {}
    /\ RewriteEnd
    /\ UNCHANGED <<group, claim, pool, lineage, worker, lost, overlapped>>

-----------------------------------------------------------------------------
Ingest ==
    \/ \E g \in RelayGroups : \E alloc \in Snapshots(g), qs \in SUBSET Members(g) :
           IngestRelayNew(g, alloc, qs) \/ IngestRelayMore(g, alloc, qs)
    \/ \E g \in LocalGroups : \E alloc \in Snapshots(g), u \in Usages :
           IngestLocalNew(g, alloc, u) \/ IngestLocalMore(g, alloc, u)

Work ==
    \/ \E w \in Workers, q \in Requests :
           Lease(w, q) \/ Reconcile(w, q) \/ Retry(w, q) \/ Finish(w, q)
    \/ \E w \in Workers : GiveUp(w)
    \/ \E q \in Requests : LeaseExpires(q)

Expiry ==
    \/ \E g \in Groups : GrowsOld(g) \/ FinalizeGroup(g)
    \/ Cleanup

Rewriting ==
    \/ \E r \in Rewrites : RewriteBegin(r)
    \/ \E k \in Keys : ReadPool(k)
    \/ RewriteGroups \/ RewriteFails \/ MovePool \/ DeletePool \/ RewriteCommit

Next == Ingest \/ Work \/ Expiry \/ Rewriting

Spec == Init /\ [][Next]_vars

-----------------------------------------------------------------------------
(* Properties                                                                *)

(* Every variable has its type: totals, counts and gaps never go below zero. *)
TypeOK ==
    /\ group \in [Groups -> Group]
    /\ claim \in [Requests -> Claim]
    /\ pool \in [Keys -> Amounts]
    /\ lineage \subseteq Rewrites
    /\ rw \in Rewrite
    /\ worker \in [Workers -> SUBSET Requests]
    /\ lost \in [Keys -> [total : Int, count : Int, gaps : Int]]
    /\ overlapped \in BOOLEAN

(* Sums of amounts, for a set of pools and for all that must be counted.     *)
Sum(f, keys) == Amount(SumFunction([k \in keys |-> f[k].total]),
                       SumFunction([k \in keys |-> f[k].count]),
                       SumFunction([k \in keys |-> f[k].gaps]))

Resolved(k) == [k EXCEPT !.commits = {Terminal(lineage, c) : c \in @}]

(* The requests and turns that must be counted for k's lineage, k resolved.  *)
Owed(k) ==
    LET under(key(_)) == {g \in Groups : group[g].state # "none" /\ Resolved(key(CommitsOf(g))) = k}
        turns == under(Key)
        stored == {q \in Requests : GroupOf[q] \in turns /\ claim[q].status = "reconciled"}
        gaps == {q \in Requests : /\ GroupOf[q] \in under(GapKey) /\ claim[q].status = "failed"
                                  /\ group[GroupOf[q]].state = "final"}
        locals == turns \cap LocalGroups
        counted == SumFunction([g \in locals |-> group[g].usage])
    IN  Plus(Plus(Official(stored), Amount(counted, counted, 0)), Amount(0, 0, Cardinality(gaps)))

Idle == rw.pc = "idle"

(* Whatever is appended, reconciled, rewritten and finalized in whatever     *)
(* order, the pools of each lineage of commits hold every reconciled request *)
(* and every local count once, and every unresolved request of a finalized   *)
(* group as one gap -- but for what a rewrite deleted beyond what it read.   *)
AttributedExactly ==
    Idle => \A k \in {Resolved(j) : j \in Keys} :
        LET lineOf == {j \in Keys : Resolved(j) = k}
        IN  Plus(Sum(pool, lineOf), Sum(lost, lineOf)) = Owed(k)

(* Appending or rewriting commits moves a contribution rather than copying   *)
(* it, and totals are conserved: docs/contracts/attribution-v2.md:254 and    *)
(* docs/architecture.md:910.                                                 *)
Conserved ==
    Idle => LET owed == SumFunction([k \in {Resolved(j) : j \in Keys} |-> Owed(k).total])
            IN  Sum(pool, Keys).total = owed

(* A stored request points to the pool it is counted in: one that exists and *)
(* is of its turn's commits, up to rewrites.  A later append, rewrite or     *)
(* finalization takes it out of that pool.  Only a commit sent while its     *)
(* rewrite is applied can leave a request without its pool.                  *)
PointersHold ==
    Idle => \A q \in Requests : Stored(q) /\ claim[q].status = "reconciled" =>
        \/ claim[q].ptr = GonePool /\ overlapped
        \/ Exists(claim[q].ptr) /\ Resolved(claim[q].ptr) = Resolved(Key(CommitsOf(GroupOf[q])))

(* A rewrite deletes what it did not read only if a client sends the commit  *)
(* while its rewrite is being applied: reconciliation, growth of other       *)
(* turns, finalization and cleanup never get in between.                     *)
OnlyOverlapLoses == (\E k \in Keys : lost[k] # Zero) => overlapped

(* No request is left without an outcome by the finalization that deletes    *)
(* its row, however leases, late answers, late ingests and expiry race.      *)
NothingLeftBehind ==
    \A q \in Requests : group[GroupOf[q]].state = "final" => claim[q].status # "pending"

(* When a rewrite commits, nothing is left under the old commit, unless a    *)
(* client sent it meanwhile.                                                 *)
RewriteCompletes ==
    [][RewriteCommit /\ ~ overlapped => \A k \in Keys : Exists(k) => rw.old \notin k.commits]_vars

(* A worker whose lease was taken over never replaces the outcome another    *)
(* one stored.                                                               *)
OutcomeIsFinal ==
    [][\A q \in Requests : claim[q].status \in {"reconciled", "failed"} =>
          claim'[q].status = claim[q].status]_vars
=============================================================================
