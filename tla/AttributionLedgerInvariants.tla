-------------------- MODULE AttributionLedgerInvariants --------------------
(***************************************************************************)
(* What the tables of AttributionLedger say of each other at every step,   *)
(* and not only between rewrites: the invariant its properties follow from.*)
(***************************************************************************)
EXTENDS AttributionLedger

-----------------------------------------------------------------------------
(* Amounts, one field at a time                                              *)

Columns == {"total", "count", "gaps"}

FieldOf(x, f) == IF f = "total" THEN x.total ELSE IF f = "count" THEN x.count ELSE x.gaps

Held(pools, f, keys) == SumFunctionOnSet([k \in Keys |-> FieldOf(pools[k], f)], keys)

KeyOf(g) == Key(CommitsOf(g))

(* A reconciled request, and one whose pointer still matters.                *)
Reconciled(q) == claim[q].status = "reconciled"

Counted(q) == Stored(q) /\ Reconciled(q)

(* A step of a rewrite between its writes.                                   *)
Writing == rw.pc \in {"pools", "move", "delete"}

Taking == rw.pc \in {"move", "delete"}

-----------------------------------------------------------------------------
(* Rows                                                                      *)

(* Only a pending request carries a lease token, live or not.                *)
LeasedIsPending == \A q \in Requests : claim[q].lease # {} => claim[q].status = "pending"

(* A request comes with a group ...                                          *)
NoneBeforeGroup ==
    \A q \in Requests : group[GroupOf[q]].state = "none" => claim[q].status = "none"

(* ... and a group with commits.                                             *)
Started == \A g \in Groups : group[g].state # "none" => group[g].alloc # <<>>

(* Requests that are counted point somewhere, and never to gaps.             *)
Pointing ==
    \A q \in Requests : /\ claim[q].ptr = NoPool <=> ~ Reconciled(q)
                        /\ claim[q].ptr.gap => claim[q].ptr = GonePool

Apart(k, x) == IF k.gap THEN x.total = 0 /\ x.count = 0 ELSE x.gaps = 0

(* Gaps are counted in pools of their own, and pools point back.             *)
PoolRows ==
    /\ \A k \in Keys : Apart(k, pool[k])
    /\ \A q \in Requests : Counted(q) /\ claim[q].ptr # GonePool => pool[claim[q].ptr].count > 0

Rows == TypeOK /\ LeasedIsPending /\ NoneBeforeGroup /\ Started /\ Pointing /\ PoolRows

-----------------------------------------------------------------------------
(* Lines of commits                                                          *)

IsWalk(w, pairs, c, n) ==
    /\ w \in [0..n -> Commits]
    /\ w[0] = c
    /\ \A i \in 1..n : w[i] = Successor(pairs, w[i - 1])

LineOf(pairs, c) == {d \in Commits : Terminal(pairs, d) = Terminal(pairs, c)}

(* From each commit the pairs lead to one that has no successor, in fewer    *)
(* steps than its line has commits.                                          *)
Settles(pairs) ==
    \A c \in Commits : \E n \in 0..Cardinality(LineOf(pairs, c)) - 1 :
        \E w \in [0..n -> Commits] :
            IsWalk(w, pairs, c, n) /\ Successor(pairs, w[n]) = w[n]

Lines ==
    /\ \A r, s \in lineage : r[1] = s[1] => r = s
    /\ Settles(lineage)
    /\ ~ Idle => rw.new = Terminal(lineage, rw.old) /\ rw.new # rw.old
    /\ \A q \in Requests : Counted(q) =>
          \/ claim[q].ptr = GonePool
          \/ Resolved(claim[q].ptr) = Resolved(KeyOf(GroupOf[q]))

-----------------------------------------------------------------------------
(* The rewrite                                                               *)

(* What a rewrite takes is of its pool's kind, and something.                *)
Takes == Taking => Apart(rw.key, rw.sum) /\ rw.sum.count + rw.sum.gaps > 0

(* The hot groups it has seen stay hot, or it fails; what it takes from a    *)
(* pool is what some pool of the old commit held.                            *)
RewriteRows ==
    /\ Takes
    /\ Idle => rw.todo = {}
    /\ Writing \/ (rw.pc = "groups" /\ ~ rw.raced) => \A g \in rw.targets : Hot(g)
    /\ rw.pc = "groups" /\ ~ rw.raced => \A g \in rw.targets : rw.old \in CommitsOf(g)
    /\ Writing => \A g \in rw.targets : rw.old \notin CommitsOf(g)
    /\ \A k \in rw.todo : rw.old \in k.commits
    /\ Taking => rw.old \in rw.key.commits

-----------------------------------------------------------------------------
(* The balance                                                               *)

(* Pools with all that is of their lines.                                    *)
Closed(keys) == \A j, k \in Keys : Resolved(j) = Resolved(k) /\ j \in keys => k \in keys

(* What a request or a turn adds to a field of these pools.                  *)
Due(f, keys, q) ==
    IF Reconciled(q) /\ KeyOf(GroupOf[q]) \in keys
    THEN FieldOf(Amount(Tokens[q], 1, 0), f)
    ELSE IF /\ claim[q].status = "failed" /\ group[GroupOf[q]].state = "final"
            /\ GapKey(CommitsOf(GroupOf[q])) \in keys
         THEN FieldOf(Amount(0, 0, 1), f)
         ELSE 0

LocalDue(f, keys, g) ==
    IF group[g].state # "none" /\ KeyOf(g) \in keys
    THEN FieldOf(Local(group[g].usage), f) ELSE 0

RequestsDue(f, keys) == SumFunctionOnSet([q \in Requests |-> Due(f, keys, q)], Requests)

LocalsDue(f, keys) == SumFunctionOnSet([g \in LocalGroups |-> LocalDue(f, keys, g)], LocalGroups)

(* What a rewrite has added already and not yet deleted.                     *)
Double(f, keys) == IF rw.pc = "delete" /\ rw.key \in keys THEN FieldOf(rw.sum, f) ELSE 0

BalancedOn(f, keys) ==
    Held(pool, f, keys) + Held(lost, f, keys)
        = RequestsDue(f, keys) + LocalsDue(f, keys) + Double(f, keys)

Balanced == \A keys \in SUBSET Keys : Closed(keys) => \A f \in Columns : BalancedOn(f, keys)

-----------------------------------------------------------------------------
(* While no commit is sent during its rewrite                                *)

(* The rewrite is alone with the old commit.                                 *)
Solo ==
    /\ \A k \in Keys : lost[k] = Zero
    /\ Taking => pool[rw.key] = rw.sum
    /\ Writing => \A k \in Keys : Exists(k) /\ rw.old \in k.commits => k \in rw.todo
    /\ ~ Idle => \A g \in Groups : Hot(g) /\ rw.old \in CommitsOf(g) =>
                    rw.pc = "groups" /\ g \in rw.targets

(* What is counted is counted under its turn's own commits.                  *)
AtHome == \A q \in Requests : Counted(q) => claim[q].ptr = KeyOf(GroupOf[q])

Alone == Solo /\ AtHome

(* The pools that hold what a turn counted: until a rewrite is through, that *)
(* may still be in a pool of the old commit.                                 *)
Under(g) ==
    IF Locked(g) THEN {k \in Keys : ~ k.gap /\ Renamed(k.commits, rw.old, rw.new) = CommitsOf(g)}
                 ELSE {KeyOf(g)}

Pointed1(keys, q) == IF Counted(q) /\ KeyOf(GroupOf[q]) \in keys THEN 1 ELSE 0

LocalIn(keys, g) == IF Hot(g) /\ Under(g) \subseteq keys THEN group[g].usage ELSE 0

PointersIn(keys) == SumFunctionOnSet([q \in Requests |-> Pointed1(keys, q)], Requests)

UsageIn(keys) == SumFunctionOnSet([g \in LocalGroups |-> LocalIn(keys, g)], LocalGroups)

CoveredOn(keys) ==
    PointersIn(keys) + UsageIn(keys) <= Held(pool, "count", keys) - Double("count", keys)

(* Pools hold what points to them.                                           *)
Covered == \A keys \in SUBSET Keys : CoveredOn(keys)

LedgerInv ==
    /\ Rows /\ NothingLeftBehind /\ Lines /\ RewriteRows /\ Balanced
    /\ ~ overlapped => Alone /\ Covered
=============================================================================
