---------------------- MODULE AttributionLedgerProofs -----------------------
(***************************************************************************)
(* Proofs about AttributionLedger, second part: the accounts.  What is in  *)
(* the pools balances with what claims and turns add to them (AccountsHold),*)
(* and while no commit is sent during its rewrite, the rewrite is alone with*)
(* the old commit and pools hold what points to them (LedgerHolds).        *)
(***************************************************************************)
EXTENDS AttributionLedgerTableProofs

-----------------------------------------------------------------------------
(* Lines are kept                                                            *)

(* What a pointer may be.                                                    *)
PtrFits(q) ==
    \/ claim[q].ptr = GonePool
    \/ Resolved(claim[q].ptr) = Resolved(KeyOf(GroupOf[q]))

LEMMA LinesFacts ==
    ASSUME Tables, Lines
    PROVE  /\ Rows /\ lineage \in SUBSET Pairs /\ Functional(lineage) /\ Settles(lineage)
           /\ rw.pc # "idle" => rw.new = Terminal(lineage, rw.old) /\ rw.new # rw.old
           /\ \A q \in Requests : Counted(q) => PtrFits(q)
BY PairsFacts DEF Tables, Lines, Rows, Functional, Idle, PtrFits

KeyWith(k, S) == [k EXCEPT !.commits = S]

LEMMA KeyWithIs ==
    ASSUME NEW k \in Ptrs, NEW S
    PROVE  KeyWith(k, S) = [gap |-> k.gap, commits |-> S]
<1>1. k \in [gap : BOOLEAN, commits : SUBSET Commits]
  <2>1. \A j \in Keys : j \in [gap : BOOLEAN, commits : SUBSET Commits]
    BY DEF Keys
  <2>2. NoPool \in [gap : BOOLEAN, commits : SUBSET Commits]
    BY DEF NoPool, Key
  <2>3. GonePool \in [gap : BOOLEAN, commits : SUBSET Commits]
    BY DEF GonePool, GapKey
  <2>4. QED
    BY <2>1, <2>2, <2>3 DEF Ptrs
<1>2. QED
  BY <1>1 DEF KeyWith

LEMMA ResolvedFacts ==
    ASSUME NEW k \in Ptrs
    PROVE  /\ Resolved(k).gap = k.gap
           /\ Resolved(k).commits = {Terminal(lineage, c) : c \in k.commits}
           /\ \A j \in Ptrs : j.gap = k.gap
                              /\ {Terminal(lineage, c) : c \in k.commits} = {Terminal(lineage, c) : c \in j.commits}
                              => Resolved(j) = Resolved(k)
<1>1. \A j \in Ptrs : Resolved(j) = KeyWith(j, {Terminal(lineage, c) : c \in j.commits})
  BY DEF Resolved, KeyWith
<1>2. \A j \in Ptrs : Resolved(j) = [gap |-> j.gap, commits |-> {Terminal(lineage, c) : c \in j.commits}]
  BY <1>1, KeyWithIs
<1>3. Resolved(k) = [gap |-> k.gap, commits |-> {Terminal(lineage, c) : c \in k.commits}]
  BY <1>2
<1>4. ASSUME NEW j \in Ptrs, j.gap = k.gap,
             {Terminal(lineage, c) : c \in k.commits} = {Terminal(lineage, c) : c \in j.commits}
      PROVE  Resolved(j) = Resolved(k)
  BY <1>2, <1>3, <1>4
<1>5. QED
  BY <1>3, <1>4

(* A commit and what it was rewritten to are of one line.                    *)
LEMMA RenamedResolves ==
    ASSUME Tables, Lines, rw.pc # "idle", NEW S \in SUBSET Commits
    PROVE  {Terminal(lineage, c) : c \in Renamed(S, rw.old, rw.new)} = {Terminal(lineage, c) : c \in S}
<1>1. rw.old \in Commits /\ rw.new = Terminal(lineage, rw.old)
  BY LinesFacts, TargetFacts
<1>2. Terminal(lineage, rw.new) = Terminal(lineage, rw.old)
  BY <1>1, LinesFacts, TerminalEnds
<1>3. \A c \in S : Terminal(lineage, IF c = rw.old THEN rw.new ELSE c) = Terminal(lineage, c)
  BY <1>2
<1>4. QED
  BY <1>3 DEF Renamed

LEMMA TargetResolves ==
    ASSUME Tables, Lines, rw.pc # "idle"
    PROVE  Resolved(Target) = Resolved(rw.key)
<1>1. /\ Target \in Keys /\ Target.gap = rw.key.gap /\ rw.key \in Keys
      /\ Target.commits = Renamed(rw.key.commits, rw.old, rw.new)
  BY LinesFacts, TargetFacts
<1>2. rw.key.commits \in SUBSET Commits
  BY <1>1, KeyFacts
<1>3. QED
  BY <1>1, <1>2, RenamedResolves, ResolvedFacts DEF Ptrs

(* A rewrite begins: lines of commits become lines again.                    *)
LEMMA BeginLines ==
    ASSUME Tables, Lines, NEW r \in Rewrites, RewriteBegin(r)
    PROVE  /\ Functional(lineage') /\ Settles(lineage') /\ lineage' \in SUBSET Pairs
           /\ rw'.new = Terminal(lineage', rw'.old) /\ rw'.new # rw'.old
           /\ \/ lineage' = lineage
              \/ \A c \in Commits : Terminal(lineage', c) = Merged(lineage, r, c)
<1>1. r \in Pairs /\ r[1] \in Commits /\ r[2] \in Commits /\ r[1] # r[2]
      /\ lineage' = lineage \cup {r} /\ lineage' \in SUBSET Pairs
      /\ rw'.old = r[1] /\ rw'.new = Terminal(lineage', r[2])
  BY LinesFacts, RowsFacts, PairsFacts, BeginFacts
<1>2. (\A s \in lineage : s[1] = r[1] => s = r) /\ Terminal(lineage \ {r}, r[2]) # r[1]
  BY DEF RewriteBegin, Valid
<1>3. /\ Functional(lineage') /\ Settles(lineage')
      /\ \/ lineage' = lineage
         \/ \A c \in Commits : Terminal(lineage', c) = Merged(lineage, r, c)
  <2>1. CASE r \in lineage
    <3>1. lineage' = lineage
      BY <1>1, <2>1
    <3>2. QED
      BY <3>1, LinesFacts
  <2>2. CASE r \notin lineage
    <3>1. lineage \ {r} = lineage /\ \A s \in lineage : s[1] # r[1]
      BY <1>2, <2>2
    <3>2. Terminal(lineage, r[2]) # r[1]
      BY <1>2, <3>1
    <3>3. QED
      BY <1>1, <3>1, <3>2, LinesFacts, PairMerges
  <2>3. QED
    BY <2>1, <2>2
<1>4. Successor(lineage', r[1]) = r[2]
  BY <1>1, <1>3, SuccessorIs
<1>5. Terminal(lineage', r[2]) = Terminal(lineage', r[1])
  BY <1>1, <1>3, <1>4, TerminalStep
<1>6. Successor(lineage', Terminal(lineage', r[1])) = Terminal(lineage', r[1])
  BY <1>1, <1>3, TerminalEnds
<1>7. QED
  BY <1>1, <1>3, <1>4, <1>5, <1>6

(* What is of one line stays of one line.                                    *)
LEMMA Coarser ==
    ASSUME Tables, Lines, NEW r \in Rewrites, RewriteBegin(r), NEW j \in Ptrs, NEW k \in Ptrs,
           Resolved(j) = Resolved(k)
    PROVE  Resolved(j)' = Resolved(k)'
<1>1. CASE lineage' = lineage
  BY <1>1 DEF Resolved
<1>2. CASE \A c \in Commits : Terminal(lineage', c) = Merged(lineage, r, c)
  <2>1. DEFINE M(t) == IF t = r[1] THEN Terminal(lineage, r[2]) ELSE t
  <2>2. \A c \in Commits : Terminal(lineage', c) = M(Terminal(lineage, c))
    BY <1>2 DEF Merged
  <2> HIDE DEF M
  <2>3. j.commits \in SUBSET Commits /\ k.commits \in SUBSET Commits
    BY KeyFacts DEF Ptrs
  <2>4. {Terminal(lineage, c) : c \in j.commits} = {Terminal(lineage, c) : c \in k.commits} /\ j.gap = k.gap
    BY ResolvedFacts
  <2>5. {Terminal(lineage', c) : c \in j.commits} = {M(t) : t \in {Terminal(lineage, c) : c \in j.commits}}
    BY <2>2, <2>3
  <2>6. {Terminal(lineage', c) : c \in k.commits} = {M(t) : t \in {Terminal(lineage, c) : c \in k.commits}}
    BY <2>2, <2>3
  <2>7. {Terminal(lineage', c) : c \in j.commits} = {Terminal(lineage', c) : c \in k.commits}
    BY <2>4, <2>5, <2>6
  <2>8. \A i \in Ptrs : Resolved(i)' = KeyWith(i, {Terminal(lineage', c) : c \in i.commits})
    BY DEF Resolved, KeyWith
  <2>9. \A i \in Ptrs : Resolved(i)' = [gap |-> i.gap, commits |-> {Terminal(lineage', c) : c \in i.commits}]
    BY <2>8, KeyWithIs
  <2>10. QED
    BY <2>4, <2>7, <2>9
<1>3. QED
  BY <1>1, <1>2, BeginLines

-----------------------------------------------------------------------------
(* Where pointers go                                                         *)

KeyNext(g) == Key(ToSet(group'[g].alloc))

(* A counted request points to the pool of its turn's commits, or where it   *)
(* did, unless nothing is counted there.                                     *)
PtrStep(q) ==
    \/ claim'[q].ptr \in {KeyNext(GroupOf[q]), Drop(KeyNext(GroupOf[q]), pool')}
    \/ /\ Counted(q) /\ group'[GroupOf[q]].alloc = group[GroupOf[q]].alloc
       /\ claim'[q].ptr \in {claim[q].ptr, Drop(claim[q].ptr, pool')}

CountedNext(q) == claim'[q].status = "reconciled" /\ group'[GroupOf[q]].state = "hot"

PtrsStep == \A q \in Requests : CountedNext(q) => PtrStep(q)

LEMMA CountedIs ==
    \A q \in Requests : /\ Counted(q) <=> claim[q].status = "reconciled" /\ group[GroupOf[q]].state = "hot"
                        /\ Counted(q)' <=> CountedNext(q)
                        /\ GroupOf[q] \in RelayGroups /\ GroupOf[q] \in Groups /\ GroupOf[q] \notin LocalGroups
<1>1. \A q \in Requests : GroupOf[q] \in RelayGroups
  BY AttributionLedgerAssumption
<1>2. RelayGroups \cap LocalGroups = {}
  BY AttributionLedgerAssumption
<1>3. QED
  BY <1>1, <1>2 DEF Counted, Stored, Reconciled, Hot, CountedNext, Groups

LEMMA StillPtrs ==
    ASSUME UNCHANGED claim, \A g \in Groups : group'[g].state = "hot" => group[g].state = "hot"
                                              /\ group'[g].alloc = group[g].alloc
    PROVE  PtrsStep
BY CountedIs DEF PtrsStep, PtrStep, CountedNext

LEMMA RelayPtrs ==
    ASSUME Rows, NEW g \in RelayGroups, NEW a \in Snapshots(g), NEW qs \in SUBSET Members(g),
           IngestRelayNew(g, a, qs) \/ IngestRelayMore(g, a, qs)
    PROVE  PtrsStep
<1>1. g \in Groups /\ TypeOK /\ NoneBeforeGroup
  BY RowsFacts DEF Groups
<1>2. GroupGoes(g, "hot", a, group[g].usage)
  BY <1>1, RelayGroupGoes
<1>3. SUFFICES ASSUME NEW q \in Requests, CountedNext(q)
               PROVE  PtrStep(q)
  BY DEF PtrsStep
<1>4. CASE IngestRelayNew(g, a, qs)
  <2>1. ClaimsGo(WithNew(qs), Ptr)
    BY <1>1, <1>4, RelayNewClaims
  <2>2. claim[q].status = "reconciled" /\ claim'[q].ptr = claim[q].ptr
    BY <1>3, <2>1 DEF ClaimsGo, WithNew, Ptr, CountedNext
  <2>3. GroupOf[q] # g
    BY <1>1, <1>4, <2>2 DEF IngestRelayNew, NoneBeforeGroup
  <2>4. group'[GroupOf[q]] = group[GroupOf[q]]
    BY <1>2, <2>3, CountedIs DEF GroupGoes
  <2>5. QED
    BY <1>3, <2>2, <2>4, CountedIs DEF PtrStep, CountedNext
<1>5. CASE IngestRelayMore(g, a, qs)
  <2>1. ClaimsGo(WithNew(qs), Dropped(PtrTo(Repoints(g, a), Key(ToSet(a))), pool'))
    BY <1>1, <1>5, RelayMoreClaims
  <2>2. /\ claim[q].status = "reconciled"
        /\ claim'[q].ptr = Drop(PtrTo(Repoints(g, a), Key(ToSet(a)))[q], pool')
    BY <1>3, <2>1 DEF ClaimsGo, WithNew, Dropped, CountedNext
  <2>3. CASE q \in Repoints(g, a)
    <3>1. GroupOf[q] = g
      BY <2>3, WithStatusFacts DEF Repoints
    <3>2. KeyNext(GroupOf[q]) = Key(ToSet(a))
      BY <1>2, <3>1 DEF GroupGoes, KeyNext
    <3>3. PtrTo(Repoints(g, a), Key(ToSet(a)))[q] = Key(ToSet(a))
      BY <2>3 DEF PtrTo
    <3>4. QED
      BY <2>2, <3>2, <3>3 DEF PtrStep
  <2>4. CASE q \notin Repoints(g, a)
    <3>1. claim'[q].ptr = Drop(claim[q].ptr, pool')
      BY <2>2, <2>4 DEF PtrTo
    <3>2. group'[GroupOf[q]].alloc = group[GroupOf[q]].alloc /\ group[GroupOf[q]].state = "hot"
      <4>1. CASE GroupOf[q] = g
        <5>1. a = group[g].alloc
          BY <2>2, <2>4, <4>1 DEF Repoints, WithStatus, Members
        <5>2. QED
          BY <1>2, <1>5, <4>1, <5>1 DEF GroupGoes, IngestRelayMore, Hot
      <4>2. CASE GroupOf[q] # g
        BY <1>2, <1>3, <4>2, CountedIs DEF GroupGoes, CountedNext
      <4>3. QED
        BY <4>1, <4>2
    <3>3. QED
      BY <2>2, <3>1, <3>2, CountedIs DEF PtrStep
  <2>5. QED
    BY <2>3, <2>4
<1>6. QED
  BY <1>4, <1>5

LEMMA LocalPtrs ==
    ASSUME Rows, NEW g \in LocalGroups, NEW a \in Snapshots(g), NEW u \in Usages,
           IngestLocalNew(g, a, u) \/ IngestLocalMore(g, a, u)
    PROVE  PtrsStep
<1>1. g \in Groups /\ TypeOK
  BY RowsFacts DEF Groups
<1>2. GroupGoes(g, "hot", a, u)
  BY <1>1, LocalGroupGoes
<1>3. SUFFICES ASSUME NEW q \in Requests, CountedNext(q)
               PROVE  PtrStep(q)
  BY DEF PtrsStep
<1>4. group'[GroupOf[q]] = group[GroupOf[q]]
  BY <1>2, CountedIs DEF GroupGoes
<1>5. CASE IngestLocalNew(g, a, u)
  <2>1. claim' = claim
    BY <1>5 DEF IngestLocalNew
  <2>2. QED
    BY <1>3, <1>4, <2>1, CountedIs DEF PtrStep, CountedNext
<1>6. CASE IngestLocalMore(g, a, u)
  <2>1. ClaimsGo(Status, Dropped(Ptr, pool'))
    BY <1>1, <1>6, LocalMoreClaims
  <2>2. claim'[q].status = claim[q].status /\ claim'[q].ptr = Drop(claim[q].ptr, pool')
    BY <2>1 DEF ClaimsGo, Dropped, Status, Ptr
  <2>3. QED
    BY <1>3, <1>4, <2>2, CountedIs DEF PtrStep, CountedNext
<1>7. QED
  BY <1>5, <1>6

LEMMA WorkPtrs ==
    ASSUME Rows, Work
    PROVE  PtrsStep
<1>1. ASSUME NEW p \in Requests, NEW s, ClaimGoes(p, s, claim[p].ptr), UNCHANGED group,
             s = claim[p].status \/ s \in {"pending", "failed"}
      PROVE  PtrsStep
  BY <1>1, CountedIs DEF PtrsStep, PtrStep, CountedNext, ClaimGoes
<1>2. ASSUME NEW w \in Workers, NEW p \in Requests, Lease(w, p)
      PROVE  PtrsStep
  BY <1>1, <1>2, RowsFacts, LeaseGoes DEF Lease
<1>3. ASSUME NEW p \in Requests, LeaseExpires(p)
      PROVE  PtrsStep
  BY <1>1, <1>3, RowsFacts, LeaseExpiresGoes DEF LeaseExpires
<1>4. ASSUME NEW w \in Workers, NEW p \in Requests, Retry(w, p) \/ Finish(w, p)
      PROVE  PtrsStep
  <2>1. PICK s \in {"pending", "failed"} : ClaimGoes(p, s, claim[p].ptr)
    BY <1>4, RowsFacts, SettleGoes
  <2>2. UNCHANGED group
    BY <1>4 DEF Retry, Finish
  <2>3. QED
    BY <1>1, <2>1, <2>2
<1>5. ASSUME NEW w \in Workers, NEW p \in Requests, Reconcile(w, p)
      PROVE  PtrsStep
  <2>1. ClaimGoes(p, "reconciled", KeyOf(GroupOf[p])) /\ UNCHANGED group
    BY <1>5, ReconcileFacts DEF Reconcile
  <2>2. KeyNext(GroupOf[p]) = KeyOf(GroupOf[p])
    BY <2>1 DEF KeyNext, KeyOf, CommitsOf
  <2>3. QED
    BY <2>1, <2>2, CountedIs DEF PtrsStep, PtrStep, CountedNext, ClaimGoes
<1>6. ASSUME NEW w \in Workers, GiveUp(w)
      PROVE  PtrsStep
  BY <1>6, StillPtrs DEF GiveUp
<1>7. QED
  BY <1>2, <1>3, <1>4, <1>5, <1>6 DEF Work

LEMMA ExpiryPtrs ==
    ASSUME Rows, Expiry
    PROVE  PtrsStep
<1>1. ASSUME NEW g \in Groups, GrowsOld(g)
      PROVE  PtrsStep
  <2>1. GroupGoes(g, "hot", group[g].alloc, group[g].usage) /\ UNCHANGED claim /\ group[g].state = "hot"
    BY <1>1, RowsFacts, ExpiryGroupGoes DEF GrowsOld, Hot
  <2>2. QED
    BY <2>1, StillPtrs DEF GroupGoes
<1>2. ASSUME NEW g \in Groups, FinalizeGroup(g)
      PROVE  PtrsStep
  <2>1. GroupGoes(g, "final", group[g].alloc, group[g].usage)
    BY <1>2, RowsFacts, ExpiryGroupGoes
  <2>2. ClaimsGo(Status, Dropped(PtrTo(WithStatus(g, "reconciled"), KeyOf(g)), pool'))
    BY <1>2, FinalizeFacts
  <2>3. SUFFICES ASSUME NEW q \in Requests, CountedNext(q)
                 PROVE  PtrStep(q)
    BY DEF PtrsStep
  <2>4. GroupOf[q] # g /\ group'[GroupOf[q]] = group[GroupOf[q]]
    BY <2>1, <2>3, CountedIs DEF GroupGoes, CountedNext
  <2>5. q \notin WithStatus(g, "reconciled")
    BY <2>4, WithStatusFacts
  <2>6. claim'[q].status = claim[q].status /\ claim'[q].ptr = Drop(claim[q].ptr, pool')
    BY <2>2, <2>5 DEF ClaimsGo, Dropped, PtrTo, Status
  <2>7. QED
    BY <2>3, <2>4, <2>6, CountedIs DEF PtrStep, CountedNext
<1>3. ASSUME Cleanup
      PROVE  PtrsStep
  <2>1. UNCHANGED claim
    BY <1>3 DEF Cleanup
  <2>2. QED
    BY <1>3, <2>1, RowsFacts, CleanupGoes, StillPtrs
<1>4. QED
  BY <1>1, <1>2, <1>3 DEF Expiry

LEMMA RewriteGroupsPtrs ==
    ASSUME Rows, RewriteGroups
    PROVE  PtrsStep
<1>1. ClaimsGo(Status, Dropped(PtrNew, pool'))
  BY RewriteGroupsFacts
<1>2. \A g \in Groups : /\ group'[g].state = group[g].state
                        /\ group'[g].alloc = IF g \in rw.targets THEN Replaced(g) ELSE group[g].alloc
  BY RowsFacts, RewriteGroupsGoes
<1>3. SUFFICES ASSUME NEW q \in Requests, CountedNext(q)
               PROVE  PtrStep(q)
  BY DEF PtrsStep
<1>4. claim[q].status = "reconciled" /\ claim'[q].ptr = Drop(PtrNew[q], pool') /\ Counted(q)
  BY <1>1, <1>2, <1>3, CountedIs DEF ClaimsGo, Status, Dropped, CountedNext
<1>5. CASE GroupOf[q] \in rw.targets
  <2>1. PtrNew[q] = ToNew[q] /\ ToNew[q] = NewKey(GroupOf[q])
    BY <1>4, <1>5 DEF PtrNew, Moved, ToNew
  <2>2. NewKey(GroupOf[q]) = KeyNext(GroupOf[q])
    BY <1>2, <1>5, CountedIs DEF NewKey, KeyNext
  <2>3. QED
    BY <1>4, <2>1, <2>2 DEF PtrStep
<1>6. CASE GroupOf[q] \notin rw.targets
  <2>1. PtrNew[q] = claim[q].ptr
    BY <1>6 DEF PtrNew, Moved
  <2>2. QED
    BY <1>2, <1>4, <1>6, <2>1, CountedIs DEF PtrStep
<1>7. QED
  BY <1>5, <1>6

(* Every step but those of the pools of a rewrite.                           *)
LEMMA NextPtrs ==
    ASSUME Rows, [Next]_vars
    PROVE  PtrsStep \/ MovePool \/ DeletePool
<1>1. ASSUME Ingest
      PROVE  PtrsStep
  BY <1>1, RelayPtrs, LocalPtrs DEF Ingest
<1>2. ASSUME UNCHANGED <<claim, group>>
      PROVE  PtrsStep
  BY <1>2, StillPtrs
<1>3. ASSUME NEW r \in Rewrites, RewriteBegin(r)
      PROVE  PtrsStep
  BY <1>2, <1>3 DEF RewriteBegin
<1>4. ASSUME NEW k \in Keys, ReadPool(k)
      PROVE  PtrsStep
  BY <1>2, <1>4 DEF ReadPool
<1>5. ASSUME RewriteFails \/ RewriteCommit
      PROVE  PtrsStep
  BY <1>2, <1>5 DEF RewriteFails, RewriteCommit
<1>6. CASE UNCHANGED vars
  BY <1>2, <1>6 DEF vars
<1>7. QED
  BY <1>1, <1>3, <1>4, <1>5, <1>6, WorkPtrs, ExpiryPtrs, RewriteGroupsPtrs DEF Next, Rewriting

LEMMA SameLineage ==
    ASSUME lineage' = lineage
    PROVE  \A q \in Requests :
              /\ Resolved(claim[q].ptr)' = Resolved(claim'[q].ptr)
              /\ Resolved(KeyOf(GroupOf[q]))' = Resolved(KeyNext(GroupOf[q]))
BY DEF Resolved, KeyOf, KeyNext, CommitsOf

LEMMA PtrsFit ==
    ASSUME Tables, Lines, PtrsStep, lineage' = lineage, NEW q \in Requests, Counted(q)'
    PROVE  PtrFits(q)'
<1>1. PtrStep(q)
  BY CountedIs DEF PtrsStep
<1>2. \A k, pools : Drop(k, pools) \in {k, GonePool}
  BY DEF Drop
<1>3. claim'[q].ptr = GonePool \/ Resolved(claim'[q].ptr) = Resolved(KeyNext(GroupOf[q]))
  <2>1. CASE claim'[q].ptr \in {KeyNext(GroupOf[q]), Drop(KeyNext(GroupOf[q]), pool')}
    <3>1. claim'[q].ptr \in {KeyNext(GroupOf[q]), GonePool}
      BY <1>2, <2>1
    <3>2. QED
      BY <3>1
  <2>2. CASE /\ Counted(q) /\ group'[GroupOf[q]].alloc = group[GroupOf[q]].alloc
             /\ claim'[q].ptr \in {claim[q].ptr, Drop(claim[q].ptr, pool')}
    <3>1. claim'[q].ptr \in {claim[q].ptr, GonePool}
      BY <1>2, <2>2
    <3>2. KeyNext(GroupOf[q]) = KeyOf(GroupOf[q])
      BY <2>2 DEF KeyNext, KeyOf, CommitsOf
    <3>3. claim[q].ptr = GonePool \/ Resolved(claim[q].ptr) = Resolved(KeyOf(GroupOf[q]))
      BY <2>2, LinesFacts DEF PtrFits
    <3>4. QED
      BY <3>1, <3>2, <3>3
  <2>3. QED
    BY <1>1, <2>1, <2>2 DEF PtrStep
<1>4. QED
  BY <1>3, SameLineage DEF PtrFits

LEMMA PoolsFit ==
    ASSUME Tables, Lines, MovePool \/ DeletePool, NEW q \in Requests, Counted(q)'
    PROVE  PtrFits(q)'
<1>1. PICK target \in {Target, GonePool} :
         /\ ClaimsGo(Status, PtrMoved(rw.key, target)) /\ lineage' = lineage /\ group' = group
         /\ rw.pc # "idle"
  <2>1. CASE MovePool
    BY <2>1, LinesFacts, MoveFacts
  <2>2. CASE DeletePool
    BY <2>2, LinesFacts, DeleteFacts
  <2>3. QED
    BY <2>1, <2>2
<1>2. Counted(q)
  BY <1>1, CountedIs DEF CountedNext, ClaimsGo, Status
<1>3. claim'[q].ptr = PtrMoved(rw.key, target)[q] /\ PtrFits(q)
  BY <1>1, <1>2, LinesFacts DEF ClaimsGo
<1>4. KeyNext(GroupOf[q]) = KeyOf(GroupOf[q])
  BY <1>1 DEF KeyNext, KeyOf, CommitsOf
<1>5. claim'[q].ptr = claim[q].ptr \/ (claim[q].ptr = rw.key /\ claim'[q].ptr = target)
  BY <1>3 DEF PtrMoved
<1>6. Resolved(Target) = Resolved(rw.key)
  BY <1>1, TargetResolves
<1>7. rw.key # GonePool
  BY LinesFacts, TargetFacts, KeyFacts
<1>8. claim'[q].ptr = GonePool \/ Resolved(claim'[q].ptr) = Resolved(KeyOf(GroupOf[q]))
  BY <1>1, <1>3, <1>5, <1>6, <1>7 DEF PtrFits
<1>9. QED
  BY <1>1, <1>4, <1>8, SameLineage DEF PtrFits

LEMMA BeginFits ==
    ASSUME Tables, Lines, NEW r \in Rewrites, RewriteBegin(r), NEW q \in Requests, Counted(q)'
    PROVE  PtrFits(q)'
<1>1. UNCHANGED <<group, claim>>
  BY DEF RewriteBegin
<1>2. Counted(q) /\ claim[q].status = "reconciled"
  BY <1>1, CountedIs DEF CountedNext
<1>3. PtrFits(q) /\ claim[q].ptr \in Ptrs /\ KeyOf(GroupOf[q]) \in Ptrs
  BY <1>2, LinesFacts, RowsFacts, KeyOfRequest DEF Points, Ptr, Ptrs
<1>4. PICK j \in Ptrs, k \in Ptrs : j = claim[q].ptr /\ k = KeyOf(GroupOf[q])
  BY <1>3
<1>5. Resolved(claim[q].ptr)' = Resolved(j)' /\ Resolved(KeyOf(GroupOf[q]))' = Resolved(k)'
  BY <1>1, <1>4 DEF Resolved, KeyOf, CommitsOf
<1>6. j = GonePool \/ Resolved(j)' = Resolved(k)'
  BY <1>3, <1>4, Coarser DEF PtrFits
<1>7. QED
  BY <1>1, <1>4, <1>5, <1>6 DEF PtrFits

(* Where a rewrite stands, once it has begun.                                *)
RewriteGoesOn ==
    /\ lineage' = lineage
    /\ rw'.pc # "idle" => rw.pc # "idle" /\ rw'.old = rw.old /\ rw'.new = rw.new

LEMMA NextGoesOn ==
    ASSUME Rows, [Next]_vars
    PROVE  RewriteGoesOn \/ \E r \in Rewrites : RewriteBegin(r)
<1>1. CASE Ingest \/ Work \/ Expiry \/ UNCHANGED vars
  BY <1>1, RowsFacts, OthersWait DEF RewriteWaits, RewriteGoesOn
<1>2. ASSUME NEW k \in Keys, ReadPool(k)
      PROVE  RewriteGoesOn
  BY <1>2, ReadPoolFacts DEF RewriteGoesOn
<1>3. ASSUME RewriteGroups
      PROVE  RewriteGoesOn
  BY <1>3, RewriteGroupsFacts DEF RewriteGoesOn
<1>4. ASSUME RewriteFails \/ RewriteCommit
      PROVE  RewriteGoesOn
  BY <1>4, RowsFacts, EndFacts DEF RewriteFails, RewriteCommit, RewriteGoesOn
<1>5. ASSUME MovePool
      PROVE  RewriteGoesOn
  BY <1>5, MoveFacts DEF RewriteGoesOn
<1>6. ASSUME DeletePool
      PROVE  RewriteGoesOn
  BY <1>6, DeleteFacts DEF RewriteGoesOn
<1>7. QED
  BY <1>1, <1>2, <1>3, <1>4, <1>5, <1>6 DEF Next, Rewriting

LEMMA LinesStep ==
    ASSUME Tables, Lines, [Next]_vars
    PROVE  Lines'
<1>1. CASE RewriteGoesOn
  <2>1. \A q \in Requests : Counted(q)' => PtrFits(q)'
    BY <1>1, LinesFacts, NextPtrs, PtrsFit, PoolsFit DEF RewriteGoesOn
  <2>2. (~ Idle)' => rw'.new = Terminal(lineage', rw'.old) /\ rw'.new # rw'.old
    BY <1>1, LinesFacts DEF RewriteGoesOn, Idle
  <2>3. Functional(lineage') /\ Settles(lineage')
    BY <1>1, LinesFacts DEF RewriteGoesOn
  <2>4. QED
    BY <2>1, <2>2, <2>3 DEF Lines, Functional, PtrFits
<1>2. ASSUME NEW r \in Rewrites, RewriteBegin(r)
      PROVE  Lines'
  <2>1. \A q \in Requests : Counted(q)' => PtrFits(q)'
    BY <1>2, BeginFits
  <2>2. /\ Functional(lineage') /\ Settles(lineage')
        /\ rw'.new = Terminal(lineage', rw'.old) /\ rw'.new # rw'.old
    BY <1>2, BeginLines
  <2>3. QED
    BY <2>1, <2>2 DEF Lines, Functional, PtrFits
<1>3. QED
  BY <1>1, <1>2, LinesFacts, NextGoesOn

LEMMA LinesBegin ==
    ASSUME Init
    PROVE  Lines
<1>1. lineage = {} /\ Idle /\ \A q \in Requests : ~ Counted(q)
  BY CountedIs DEF Init, Idle
<1>2. Settles(lineage)
  <2>1. \A c \in Commits : Successor({}, c) = c
    BY DEF Successor
  <2>2. ASSUME NEW c \in Commits
        PROVE  \E n \in 0..Cardinality(LineOf({}, c)) - 1 : \E w \in [0..n -> Commits] :
                   IsWalk(w, {}, c, n) /\ Successor({}, w[n]) = w[n]
    <3>1. c \in LineOf({}, c)
      BY DEF LineOf
    <3>2. IsFiniteSet(LineOf({}, c)) /\ Cardinality(LineOf({}, c)) \in Nat
      BY LineSize
    <3>3. Cardinality(LineOf({}, c)) # 0
      BY <3>1, <3>2, FS_EmptySet
    <3>4. 0 \in 0..Cardinality(LineOf({}, c)) - 1
      BY <3>2, <3>3
    <3>5. PICK w : w = [i \in 0..0 |-> c]
      OBVIOUS
    <3>6. w \in [0..0 -> Commits] /\ w[0] = c
      BY <3>5
    <3>7. IsWalk(w, {}, c, 0)
      BY <3>6 DEF IsWalk
    <3>8. QED
      BY <2>1, <3>4, <3>6, <3>7
  <2>3. QED
    BY <1>1, <2>2 DEF Settles
<1>3. QED
  BY <1>1, <1>2 DEF Lines

-----------------------------------------------------------------------------
(* The groups a rewrite has seen                                             *)

Watching == Writing \/ (rw.pc = "groups" /\ ~ rw'.raced)

TargetsKept ==
    Watching => /\ rw.pc = "groups" => ~ rw.raced
                /\ \A g \in rw.targets : Hot(g) => group'[g].state = "hot" /\ group'[g].alloc = group[g].alloc

LEMMA TouchedApart ==
    ASSUME TypeOK, NEW gs, Touch(gs), \A g \in gs : ~ Locked(g), Watching
    PROVE  gs \cap rw.targets = {} /\ (rw.pc = "groups" => ~ rw.raced)
<1>1. rw'.raced = (rw.raced \/ (rw.pc = "groups" /\ gs \cap rw.targets # {}))
  BY TouchKeeps
<1>2. CASE Writing
  <2>1. rw.pc \notin {"idle", "groups"}
    BY <1>2 DEF Writing
  <2>2. QED
    BY <2>1 DEF Locked
<1>3. CASE rw.pc = "groups" /\ ~ rw'.raced
  BY <1>1, <1>3
<1>4. QED
  BY <1>2, <1>3 DEF Watching

LEMMA IngestKeepsTargets ==
    ASSUME Rows, Ingest
    PROVE  TargetsKept
<1>1. TypeOK
  BY RowsFacts
<1>2. ASSUME NEW g \in Groups, NEW s, NEW a, NEW u, GroupGoes(g, s, a, u),
             \/ group[g].state = "none" /\ rw' = rw
             \/ Touch({g}) /\ ~ Locked(g)
      PROVE  TargetsKept
  <2>1. rw.targets \in SUBSET Groups
    BY TargetFacts
  <2>2. CASE group[g].state = "none" /\ rw' = rw
    BY <1>2, <2>1, <2>2 DEF TargetsKept, Watching, Writing, GroupGoes, Hot
  <2>3. CASE Touch({g}) /\ ~ Locked(g)
    <3>1. Watching => g \notin rw.targets /\ (rw.pc = "groups" => ~ rw.raced)
      BY <1>1, <2>3, TouchedApart
    <3>2. QED
      BY <1>2, <2>1, <3>1 DEF TargetsKept, GroupGoes, Hot
  <2>4. QED
    BY <1>2, <2>2, <2>3
<1>3. ASSUME NEW g \in RelayGroups, NEW a \in Snapshots(g), NEW qs \in SUBSET Members(g),
             IngestRelayNew(g, a, qs) \/ IngestRelayMore(g, a, qs)
      PROVE  TargetsKept
  <2>1. g \in Groups
    BY DEF Groups
  <2>2. GroupGoes(g, "hot", a, group[g].usage)
    BY <1>1, <1>3, <2>1, RelayGroupGoes
  <2>3. \/ group[g].state = "none" /\ rw' = rw
        \/ Touch({g}) /\ ~ Locked(g)
    BY <1>3 DEF IngestRelayNew, IngestRelayMore
  <2>4. QED
    BY <1>2, <2>1, <2>2, <2>3
<1>4. ASSUME NEW g \in LocalGroups, NEW a \in Snapshots(g), NEW u \in Usages,
             IngestLocalNew(g, a, u) \/ IngestLocalMore(g, a, u)
      PROVE  TargetsKept
  <2>1. g \in Groups
    BY DEF Groups
  <2>2. GroupGoes(g, "hot", a, u)
    BY <1>1, <1>4, <2>1, LocalGroupGoes
  <2>3. \/ group[g].state = "none" /\ rw' = rw
        \/ Touch({g}) /\ ~ Locked(g)
    BY <1>4 DEF IngestLocalNew, IngestLocalMore
  <2>4. QED
    BY <1>2, <2>1, <2>2, <2>3
<1>5. QED
  BY <1>3, <1>4 DEF Ingest

LEMMA WorkKeepsTargets ==
    ASSUME Rows, Work
    PROVE  TargetsKept
<1>1. ASSUME UNCHANGED <<group, rw>>
      PROVE  TargetsKept
  BY <1>1 DEF TargetsKept, Watching, Hot, Writing
<1>2. ASSUME NEW w \in Workers, NEW p \in Requests, Lease(w, p) \/ Retry(w, p) \/ Finish(w, p)
      PROVE  TargetsKept
  BY <1>1, <1>2 DEF Lease, Retry, Finish
<1>3. ASSUME NEW p \in Requests, LeaseExpires(p)
      PROVE  TargetsKept
  BY <1>1, <1>3 DEF LeaseExpires
<1>4. ASSUME NEW w \in Workers, GiveUp(w)
      PROVE  TargetsKept
  BY <1>1, <1>4 DEF GiveUp
<1>5. ASSUME NEW w \in Workers, NEW p \in Requests, Reconcile(w, p)
      PROVE  TargetsKept
  <2>1. Touch({GroupOf[p]}) /\ ~ Locked(GroupOf[p]) /\ UNCHANGED group
    BY <1>5 DEF Reconcile
  <2>2. Watching => (rw.pc = "groups" => ~ rw.raced)
    BY <2>1, RowsFacts, TouchedApart
  <2>3. QED
    BY <2>1, <2>2 DEF TargetsKept, Hot
<1>6. QED
  BY <1>2, <1>3, <1>4, <1>5 DEF Work

LEMMA ExpiryKeepsTargets ==
    ASSUME Rows, Expiry
    PROVE  TargetsKept
<1>1. TypeOK /\ rw.targets \in SUBSET Groups
  BY RowsFacts, TargetFacts
<1>2. ASSUME NEW g \in Groups, GrowsOld(g)
      PROVE  TargetsKept
  <2>1. GroupGoes(g, "hot", group[g].alloc, group[g].usage) /\ rw' = rw
    BY <1>1, <1>2, ExpiryGroupGoes DEF GrowsOld
  <2>2. QED
    BY <1>1, <2>1 DEF TargetsKept, Watching, Writing, GroupGoes, Hot
<1>3. ASSUME NEW g \in Groups, FinalizeGroup(g)
      PROVE  TargetsKept
  <2>1. GroupGoes(g, "final", group[g].alloc, group[g].usage) /\ Touch({g}) /\ ~ Locked(g)
    BY <1>1, <1>3, ExpiryGroupGoes DEF FinalizeGroup
  <2>2. Watching => g \notin rw.targets /\ (rw.pc = "groups" => ~ rw.raced)
    BY <1>1, <2>1, TouchedApart
  <2>3. QED
    BY <1>1, <2>1, <2>2 DEF TargetsKept, GroupGoes, Hot
<1>4. ASSUME Cleanup
      PROVE  TargetsKept
  <2> DEFINE due == {g \in Groups : Hot(g) /\ group[g].age = "expired"}
  <2>1. Touch(due) /\ \A g \in due : ~ Locked(g)
    BY <1>4 DEF Cleanup
  <2>2. Watching => due \cap rw.targets = {} /\ (rw.pc = "groups" => ~ rw.raced)
    BY <1>1, <2>1, TouchedApart
  <2>3. \A g \in Groups : g \notin due => group'[g].state = group[g].state
    BY <1>1, <1>4, CleanupGoes DEF Hot
  <2>4. \A g \in Groups : group'[g].alloc = group[g].alloc
    BY <1>1, <1>4, CleanupGoes
  <2> HIDE DEF due
  <2>5. QED
    BY <1>1, <2>2, <2>3, <2>4 DEF TargetsKept, Hot
<1>5. QED
  BY <1>2, <1>3, <1>4 DEF Expiry

(* The invariant of a rewrite, as facts.                                     *)
LEMMA RewriteFacts ==
    ASSUME RewriteRows
    PROVE  /\ Takes /\ (rw.pc = "idle" => rw.todo = {})
           /\ rw.pc \in {"pools", "move", "delete"} \/ (rw.pc = "groups" /\ ~ rw.raced) =>
                 \A g \in rw.targets : group[g].state = "hot"
           /\ rw.pc = "groups" /\ ~ rw.raced => \A g \in rw.targets : rw.old \in CommitsOf(g)
           /\ rw.pc \in {"pools", "move", "delete"} => \A g \in rw.targets : rw.old \notin CommitsOf(g)
           /\ \A k \in rw.todo : rw.old \in k.commits
           /\ rw.pc \in {"move", "delete"} => rw.old \in rw.key.commits
BY DEF RewriteRows, Hot, Writing, Taking, Idle

LEMMA OthersRewriteRows ==
    ASSUME Rows, RewriteRows, Ingest \/ Work \/ Expiry \/ UNCHANGED vars
    PROVE  RewriteRows'
<1>1. RewriteWaits
  BY RowsFacts, OthersWait
<1>2. TargetsKept
  <2>1. CASE UNCHANGED vars
    BY <2>1 DEF vars, TargetsKept, Watching, Writing, Hot
  <2>2. QED
    BY <2>1, IngestKeepsTargets, WorkKeepsTargets, ExpiryKeepsTargets
<1>3. Takes'
  BY <1>1, RewriteFacts DEF Takes, Taking, RewriteWaits
<1>4. Watching => \A g \in rw.targets : group[g].state = "hot" /\ group'[g].state = "hot"
                                        /\ group'[g].alloc = group[g].alloc
  BY <1>2, RewriteFacts DEF TargetsKept, Watching, Writing, Hot
<1>5. Watching <=> Writing' \/ (rw'.pc = "groups" /\ ~ rw'.raced)
  BY <1>1 DEF Watching, Writing, RewriteWaits
<1>6. rw.pc = "groups" /\ ~ rw'.raced => ~ rw.raced
  BY <1>2 DEF TargetsKept, Watching
<1>7. rw'.pc = "groups" /\ ~ rw'.raced => \A g \in rw'.targets : rw.old \in CommitsOf(g)'
  BY <1>1, <1>4, <1>6, RewriteFacts DEF RewriteWaits, Watching, CommitsOf
<1>8. Writing' => \A g \in rw'.targets : rw.old \notin CommitsOf(g)'
  BY <1>1, <1>4, RewriteFacts DEF RewriteWaits, Watching, Writing, CommitsOf
<1>9. QED
  BY <1>1, <1>3, <1>4, <1>5, <1>7, <1>8, RewriteFacts
     DEF RewriteRows, RewriteWaits, Writing, Taking, Hot, Idle

LEMMA RewriteRowsStep ==
    ASSUME Tables, Lines, RewriteRows, [Next]_vars
    PROVE  RewriteRows'
<1>0. Rows /\ TypeOK /\ Takes'
  BY TakesStep, RowsFacts DEF Tables
<1>1. ASSUME NEW r \in Rewrites, RewriteBegin(r)
      PROVE  RewriteRows'
  <2>1. /\ rw'.pc = "groups" /\ rw'.old = r[1] /\ rw'.targets = Using(r[1]) /\ rw'.todo = rw.todo
        /\ UNCHANGED group /\ rw.pc = "idle"
    BY <1>0, <1>1, BeginFacts DEF RewriteBegin
  <2>2. rw'.todo = {} /\ \A g \in rw'.targets : group[g].state = "hot" /\ rw'.old \in CommitsOf(g)
    BY <2>1, RewriteFacts DEF Using, Hot
  <2>3. QED
    BY <1>0, <2>1, <2>2 DEF RewriteRows, Hot, Idle, Writing, Taking, CommitsOf
<1>2. ASSUME NEW k \in Keys, ReadPool(k)
      PROVE  RewriteRows'
  <2>1. /\ rw'.old = rw.old /\ rw'.targets = rw.targets /\ UNCHANGED group /\ rw.pc = "pools"
        /\ rw.old \in k.commits /\ rw'.todo \in SUBSET rw.todo
        /\ \/ rw'.pc = "move" /\ rw'.key = k
           \/ rw'.pc = "pools"
    BY <1>0, <1>2, ReadPoolFacts, RewriteFacts
  <2>2. QED
    BY <1>0, <2>1, RewriteFacts DEF RewriteRows, Hot, Idle, Writing, Taking, CommitsOf
<1>3. ASSUME RewriteGroups
      PROVE  RewriteRows'
  <2>1. /\ rw.pc = "groups" /\ rw'.pc = "pools" /\ ~ rw.raced /\ rw'.old = rw.old
        /\ rw'.targets = rw.targets /\ rw'.todo = Affected(pool', rw.old)
    BY <1>0, <1>3, RewriteGroupsFacts
  <2>2. \A g \in Groups : /\ group'[g].state = group[g].state
                          /\ g \in rw.targets => group'[g].alloc = Replaced(g)
    BY <1>0, <1>3, RewriteGroupsGoes
  <2>3. rw.targets \in SUBSET Groups
    BY <1>0, TargetFacts
  <2>4. rw.new # rw.old
    BY <2>1, LinesFacts
  <2>5. \A g \in rw.targets : rw.old \notin CommitsOf(g)'
    <3>1. SUFFICES ASSUME NEW g \in rw.targets
                   PROVE  rw.old \notin ToSet(group'[g].alloc)
      BY DEF CommitsOf
    <3>2. ToSet(group'[g].alloc) = Renamed(CommitsOf(g), rw.old, rw.new)
      BY <1>0, <2>2, <2>3, ReplacedFacts
    <3>3. QED
      BY <2>4, <3>2 DEF Renamed
  <2>6. \A g \in rw.targets : group'[g].state = "hot"
    BY <2>1, <2>2, <2>3, RewriteFacts
  <2>7. \A k \in rw'.todo : rw'.old \in k.commits
    BY <2>1 DEF Affected
  <2>8. QED
    BY <1>0, <2>1, <2>5, <2>6, <2>7 DEF RewriteRows, Hot, Idle, Writing, Taking
<1>4. ASSUME RewriteFails \/ RewriteCommit
      PROVE  RewriteRows'
  <2>1. rw'.pc = "idle" /\ rw'.todo = {}
    BY <1>0, <1>4, EndFacts DEF RewriteFails, RewriteCommit
  <2>2. QED
    BY <1>0, <2>1 DEF RewriteRows, Idle, Writing, Taking
<1>5. ASSUME MovePool
      PROVE  RewriteRows'
  <2>1. /\ rw.pc = "move" /\ rw'.pc = "delete" /\ rw'.old = rw.old /\ rw'.targets = rw.targets
        /\ rw'.todo = rw.todo /\ rw'.key = rw.key /\ UNCHANGED group
    BY <1>0, <1>5, MoveFacts
  <2>2. QED
    BY <1>0, <2>1, RewriteFacts DEF RewriteRows, Hot, Idle, Writing, Taking, CommitsOf
<1>6. ASSUME DeletePool
      PROVE  RewriteRows'
  <2>1. /\ rw.pc = "delete" /\ rw'.pc = "pools" /\ rw'.old = rw.old /\ rw'.targets = rw.targets
        /\ rw'.todo \in SUBSET rw.todo /\ UNCHANGED group
    BY <1>0, <1>6, DeleteFacts
  <2>2. QED
    BY <1>0, <2>1, RewriteFacts DEF RewriteRows, Hot, Idle, Writing, Taking, CommitsOf
<1>7. QED
  BY <1>0, <1>1, <1>2, <1>3, <1>4, <1>5, <1>6, OthersRewriteRows DEF Next, Rewriting

LEMMA RewriteRowsBegin ==
    ASSUME Init
    PROVE  RewriteRows
<1>1. rw.pc = "idle" /\ rw.todo = {}
  BY DEF Init
<1>2. QED
  BY <1>1 DEF RewriteRows, Takes, Taking, Writing, Idle

-----------------------------------------------------------------------------
(* The balance of a set of pools                                             *)

(* A counted request is due where it points.                                 *)
LEMMA FitsIn ==
    ASSUME Tables, Lines, NEW keys \in SUBSET Keys, Closed(keys), NEW q \in Requests, Counted(q),
           claim[q].ptr # GonePool
    PROVE  /\ claim[q].ptr \in Keys /\ KeyOf(GroupOf[q]) \in Keys
           /\ claim[q].ptr \in keys <=> KeyOf(GroupOf[q]) \in keys
           /\ Resolved(claim[q].ptr) = Resolved(KeyOf(GroupOf[q]))
<1>1. Resolved(claim[q].ptr) = Resolved(KeyOf(GroupOf[q]))
  BY LinesFacts DEF PtrFits
<1>2. claim[q].status = "reconciled"
  BY CountedIs
<1>3. claim[q].ptr \in Keys
  BY <1>2, LinesFacts, RowsFacts DEF Points, Ptr, Status, Ptrs
<1>4. KeyOf(GroupOf[q]) \in Keys
  BY <1>2, LinesFacts, RowsFacts, KeyOfRequest
<1>5. QED
  BY <1>1, <1>3, <1>4 DEF Closed

-----------------------------------------------------------------------------
(* What is due                                                               *)

OneGap(f) == FieldOf(Amount(0, 0, 1), f)

DueAs(f, keys, q, status, state, alloc) ==
    IF status = "reconciled" /\ Key(ToSet(alloc)) \in keys THEN Weight(f)[q]
    ELSE IF status = "failed" /\ state = "final" /\ GapKey(ToSet(alloc)) \in keys THEN OneGap(f) ELSE 0

LocalAs(f, keys, state, alloc, usage) ==
    IF state # "none" /\ Key(ToSet(alloc)) \in keys THEN FieldOf(Local(usage), f) ELSE 0

LEMMA DueIs ==
    ASSUME NEW f \in Columns, NEW keys, NEW q \in Requests
    PROVE  /\ Due(f, keys, q) = DueAs(f, keys, q, claim[q].status, group[GroupOf[q]].state, group[GroupOf[q]].alloc)
           /\ Due(f, keys, q)' = DueAs(f, keys, q, claim'[q].status, group'[GroupOf[q]].state, group'[GroupOf[q]].alloc)
           /\ \A status, state, alloc : DueAs(f, keys, q, status, state, alloc) \in Nat
           /\ Weight(f)[q] \in Nat
<1>1. Weight(f)[q] \in Nat /\ Weight(f)[q] = FieldOf(Amount(Tokens[q], 1, 0), f)
  BY WeightType
<1>2. OneGap(f) \in Nat
  BY FieldOfType, AmountsClosed DEF OneGap
<1>3. QED
  BY <1>1, <1>2 DEF Due, DueAs, OneGap, Reconciled, KeyOf, CommitsOf

LEMMA LocalIs ==
    ASSUME NEW f \in Columns, NEW keys, NEW g \in LocalGroups
    PROVE  /\ LocalDue(f, keys, g) = LocalAs(f, keys, group[g].state, group[g].alloc, group[g].usage)
           /\ LocalDue(f, keys, g)' = LocalAs(f, keys, group'[g].state, group'[g].alloc, group'[g].usage)
           /\ \A state, alloc : \A usage \in Nat : LocalAs(f, keys, state, alloc, usage) \in Nat
<1>1. \A usage \in Nat : FieldOf(Local(usage), f) \in Nat
  BY FieldOfType, AmountsClosed
<1>2. QED
  BY <1>1 DEF LocalDue, LocalAs, KeyOf, CommitsOf

DueTab(f, keys) == [q \in Requests |-> Due(f, keys, q)]

LocalTab(f, keys) == [g \in LocalGroups |-> LocalDue(f, keys, g)]

Column(pools, f) == [k \in Keys |-> FieldOf(pools[k], f)]

(* Every sum is a number.                                                    *)
LEMMA SumsAreInt ==
    ASSUME Rows, NEW f \in Columns, NEW keys \in SUBSET Keys
    PROVE  /\ Held(pool, f, keys) \in Int /\ Held(lost, f, keys) \in Int
           /\ RequestsDue(f, keys) \in Int /\ LocalsDue(f, keys) \in Int /\ Double(f, keys) \in Int
           /\ Held(pool, f, keys) = SumFunctionOnSet(Column(pool, f), keys)
           /\ Held(lost, f, keys) = SumFunctionOnSet(Column(lost, f), keys)
           /\ RequestsDue(f, keys) = SumFunctionOnSet(DueTab(f, keys), Requests)
           /\ LocalsDue(f, keys) = SumFunctionOnSet(LocalTab(f, keys), LocalGroups)
           /\ \A k \in Keys : Column(pool, f)[k] = FieldOf(pool[k], f) /\ Column(pool, f)[k] \in Nat
           /\ \A k \in Keys : Column(lost, f)[k] = FieldOf(lost[k], f) /\ Column(lost, f)[k] \in Int
           /\ \A q \in Requests : DueTab(f, keys)[q] = Due(f, keys, q) /\ DueTab(f, keys)[q] \in Nat
           /\ \A g \in LocalGroups : LocalTab(f, keys)[g] = LocalDue(f, keys, g) /\ LocalTab(f, keys)[g] \in Nat
<1>1. \A k \in Keys : Column(pool, f)[k] = FieldOf(pool[k], f) /\ Column(pool, f)[k] \in Nat
  BY RowsFacts, FieldOfType DEF Column
<1>2. \A k \in Keys : Column(lost, f)[k] = FieldOf(lost[k], f) /\ Column(lost, f)[k] \in Int
  BY RowsFacts, FieldOfType DEF Column
<1>3. \A q \in Requests : DueTab(f, keys)[q] = Due(f, keys, q) /\ DueTab(f, keys)[q] \in Nat
  BY DueIs DEF DueTab
<1>4. \A g \in LocalGroups : LocalTab(f, keys)[g] = LocalDue(f, keys, g) /\ LocalTab(f, keys)[g] \in Nat
  <2>1. \A g \in LocalGroups : group[g].usage \in Nat
    BY RowsFacts, UsageType DEF Groups
  <2>2. QED
    BY <2>1, LocalIs DEF LocalTab
<1>5. IsFiniteSet(keys) /\ IsFiniteSet(Requests) /\ IsFiniteSet(LocalGroups)
  BY PartsAreFinite
<1>6. /\ Held(pool, f, keys) = SumFunctionOnSet(Column(pool, f), keys)
      /\ Held(lost, f, keys) = SumFunctionOnSet(Column(lost, f), keys)
  BY DEF Held, Column
<1>7. /\ RequestsDue(f, keys) = SumFunctionOnSet(DueTab(f, keys), Requests)
      /\ LocalsDue(f, keys) = SumFunctionOnSet(LocalTab(f, keys), LocalGroups)
  BY DEF RequestsDue, LocalsDue, DueTab, LocalTab
<1>8. Double(f, keys) \in Int
  BY TargetFacts, FieldOfType DEF Double
<1>9. SumFunctionOnSet(Column(pool, f), keys) \in Int /\ SumFunctionOnSet(Column(lost, f), keys) \in Int
  <2>1. \A k \in keys : Column(pool, f)[k] \in Int
    BY <1>1
  <2>2. \A k \in keys : Column(lost, f)[k] \in Int
    BY <1>2
  <2>3. QED
    BY <1>5, <2>1, <2>2, SumInt
<1>10. SumFunctionOnSet(DueTab(f, keys), Requests) \in Int
       /\ SumFunctionOnSet(LocalTab(f, keys), LocalGroups) \in Int
  <2>1. \A q \in Requests : DueTab(f, keys)[q] \in Int
    BY <1>3
  <2>2. \A g \in LocalGroups : LocalTab(f, keys)[g] \in Int
    BY <1>4
  <2>3. QED
    BY <1>5, <2>1, <2>2, SumInt
<1>11. QED
  BY <1>1, <1>2, <1>3, <1>4, <1>6, <1>7, <1>8, <1>9, <1>10

(* A step that adds to the pools what it adds to what is due.                *)
Matches(f, keys) ==
    (Held(pool, f, keys)' - Held(pool, f, keys)) + (Held(lost, f, keys)' - Held(lost, f, keys))
        = (RequestsDue(f, keys)' - RequestsDue(f, keys)) + (LocalsDue(f, keys)' - LocalsDue(f, keys))
          + (Double(f, keys)' - Double(f, keys))

(* ... now and after a step.                                                 *)
Numbers(f, keys) ==
    /\ Held(pool, f, keys) \in Int /\ Held(lost, f, keys) \in Int
    /\ RequestsDue(f, keys) \in Int /\ LocalsDue(f, keys) \in Int /\ Double(f, keys) \in Int

LEMMA NumbersNext ==
    ASSUME NEW f \in Columns, NEW keys \in SUBSET Keys
    PROVE  Rows' => Numbers(f, keys)'
<1>1. Rows => Numbers(f, keys)
  BY SumsAreInt DEF Numbers
<1>2. QED
  BY <1>1, PTL

LEMMA MatchBalances ==
    ASSUME Rows, Rows', NEW f \in Columns, NEW keys \in SUBSET Keys, BalancedOn(f, keys), Matches(f, keys)
    PROVE  BalancedOn(f, keys)'
<1>1. /\ Held(pool, f, keys) \in Int /\ Held(lost, f, keys) \in Int
      /\ RequestsDue(f, keys) \in Int /\ LocalsDue(f, keys) \in Int /\ Double(f, keys) \in Int
  BY SumsAreInt
<1>2. /\ Held(pool, f, keys)' \in Int /\ Held(lost, f, keys)' \in Int
      /\ RequestsDue(f, keys)' \in Int /\ LocalsDue(f, keys)' \in Int /\ Double(f, keys)' \in Int
  BY NumbersNext DEF Numbers
<1>3. PICK p \in Int, l \in Int, r \in Int, s \in Int, d \in Int :
         /\ p = Held(pool, f, keys) /\ l = Held(lost, f, keys)
         /\ r = RequestsDue(f, keys) /\ s = LocalsDue(f, keys) /\ d = Double(f, keys)
  BY <1>1
<1>4. PICK p2 \in Int, l2 \in Int, r2 \in Int, s2 \in Int, d2 \in Int :
         /\ p2 = Held(pool, f, keys)' /\ l2 = Held(lost, f, keys)'
         /\ r2 = RequestsDue(f, keys)' /\ s2 = LocalsDue(f, keys)' /\ d2 = Double(f, keys)'
  BY <1>2
<1>5. (p2 - p) + (l2 - l) = (r2 - r) + (s2 - s) + (d2 - d)
  BY <1>3, <1>4 DEF Matches
<1>6. p + l = r + s + d
  BY <1>3 DEF BalancedOn
<1>7. p2 + l2 = r2 + s2 + d2
  BY <1>5, <1>6
<1>8. QED
  BY <1>4, <1>7 DEF BalancedOn

DueNext(f, keys, q) ==
    DueAs(f, keys, q, claim'[q].status, group'[GroupOf[q]].state, group'[GroupOf[q]].alloc)

LocalNext(f, keys, g) == LocalAs(f, keys, group'[g].state, group'[g].alloc, group'[g].usage)

DueTabNext(f, keys) == [q \in Requests |-> DueNext(f, keys, q)]

LocalTabNext(f, keys) == [g \in LocalGroups |-> LocalNext(f, keys, g)]

LEMMA SumsNext ==
    ASSUME NEW f \in Columns, NEW keys \in SUBSET Keys
    PROVE  /\ RequestsDue(f, keys)' = SumFunctionOnSet(DueTabNext(f, keys), Requests)
           /\ LocalsDue(f, keys)' = SumFunctionOnSet(LocalTabNext(f, keys), LocalGroups)
           /\ Held(pool, f, keys)' = SumFunctionOnSet(Column(pool', f), keys)
           /\ Held(lost, f, keys)' = SumFunctionOnSet(Column(lost', f), keys)
           /\ \A q \in Requests : DueTabNext(f, keys)[q] = DueNext(f, keys, q) /\ DueTabNext(f, keys)[q] \in Nat
<1>1. \A q \in Requests : Due(f, keys, q)' = DueNext(f, keys, q)
  BY DueIs DEF DueNext
<1>2. \A g \in LocalGroups : LocalDue(f, keys, g)' = LocalNext(f, keys, g)
  BY LocalIs DEF LocalNext
<1>3. DueTabNext(f, keys) = [q \in Requests |-> Due(f, keys, q)']
  BY <1>1 DEF DueTabNext
<1>4. LocalTabNext(f, keys) = [g \in LocalGroups |-> LocalDue(f, keys, g)']
  BY <1>2 DEF LocalTabNext
<1>5. RequestsDue(f, keys)' = SumFunctionOnSet(DueTabNext(f, keys), Requests)
  BY <1>3 DEF RequestsDue
<1>6. LocalsDue(f, keys)' = SumFunctionOnSet(LocalTabNext(f, keys), LocalGroups)
  BY <1>4 DEF LocalsDue
<1>7. /\ Held(pool, f, keys)' = SumFunctionOnSet(Column(pool', f), keys)
      /\ Held(lost, f, keys)' = SumFunctionOnSet(Column(lost', f), keys)
  BY DEF Held, Column
<1>8. \A q \in Requests : DueTabNext(f, keys)[q] = DueNext(f, keys, q) /\ DueTabNext(f, keys)[q] \in Nat
  BY DueIs DEF DueTabNext, DueNext
<1>9. QED
  BY <1>5, <1>6, <1>7, <1>8

(* What is due stays ...                                                     *)
LEMMA SameDues ==
    ASSUME NEW f \in Columns, NEW keys \in SUBSET Keys,
           \A q \in Requests : DueNext(f, keys, q) = Due(f, keys, q)
    PROVE  RequestsDue(f, keys)' = RequestsDue(f, keys)
<1>1. DueTabNext(f, keys) = DueTab(f, keys)
  BY DEF DueTabNext, DueTab
<1>2. QED
  BY <1>1, SumsNext DEF RequestsDue, DueTab

LEMMA SameLocals ==
    ASSUME NEW f \in Columns, NEW keys \in SUBSET Keys,
           \A g \in LocalGroups : LocalNext(f, keys, g) = LocalDue(f, keys, g)
    PROVE  LocalsDue(f, keys)' = LocalsDue(f, keys)
<1>1. LocalTabNext(f, keys) = LocalTab(f, keys)
  BY DEF LocalTabNext, LocalTab
<1>2. QED
  BY <1>1, SumsNext DEF LocalsDue, LocalTab

(* ... or changes for one turn ...                                           *)
LEMMA OneLocal ==
    ASSUME Rows, NEW f \in Columns, NEW keys \in SUBSET Keys, NEW g \in LocalGroups,
           \A h \in Groups : h # g => group'[h] = group[h], group'[g].usage \in Nat
    PROVE  LocalsDue(f, keys)' = LocalsDue(f, keys) + (LocalNext(f, keys, g) - LocalDue(f, keys, g))
<1>1. \A h \in LocalGroups : h # g => LocalNext(f, keys, h) = LocalDue(f, keys, h)
  BY LocalIs DEF LocalNext, Groups
<1>2. \A h \in LocalGroups : LocalTab(f, keys)[h] = LocalDue(f, keys, h) /\ LocalTab(f, keys)[h] \in Int
  <2>1. \A h \in LocalGroups : LocalTab(f, keys)[h] = LocalDue(f, keys, h) /\ LocalTab(f, keys)[h] \in Nat
    BY SumsAreInt
  <2>2. QED
    BY <2>1
<1>3. LocalNext(f, keys, g) \in Int
  <2>1. \A state, alloc : \A usage \in Nat : LocalAs(f, keys, state, alloc, usage) \in Nat
    BY LocalIs
  <2>2. LocalNext(f, keys, g) \in Nat
    BY <2>1 DEF LocalNext
  <2>3. QED
    BY <2>2
<1>4. \A h \in LocalGroups : LocalTabNext(f, keys)[h] = LocalNext(f, keys, h) /\ LocalTabNext(f, keys)[h] \in Int
  <2>1. \A h \in LocalGroups : LocalTabNext(f, keys)[h] = LocalNext(f, keys, h)
    BY DEF LocalTabNext
  <2>2. QED
    BY <1>1, <1>2, <1>3, <2>1
<1>5. \A h \in LocalGroups \ {g} : LocalTabNext(f, keys)[h] = LocalTab(f, keys)[h]
  BY <1>1, <1>2, <1>4
<1>6. \A h \in LocalGroups : LocalTab(f, keys)[h] \in Int /\ LocalTabNext(f, keys)[h] \in Int
  BY <1>2, <1>4
<1>7. SumFunctionOnSet(LocalTabNext(f, keys), LocalGroups)
          = SumFunctionOnSet(LocalTab(f, keys), LocalGroups)
            + (IF g \in LocalGroups THEN LocalTabNext(f, keys)[g] - LocalTab(f, keys)[g] ELSE 0)
  BY <1>5, <1>6, PartsAreFinite, SumChange
<1>8. QED
  BY <1>2, <1>4, <1>7, SumsNext, SumsAreInt

(* ... or moves with requests.                                               *)
LEMMA ShiftDue ==
    ASSUME Rows, NEW f \in Columns, NEW keys \in SUBSET Keys, NEW M \in SUBSET Requests, NEW to,
           \A q \in Requests :
              DueNext(f, keys, q) = (Due(f, keys, q) - (IF q \in M /\ Ptr[q] \in keys THEN Weight(f)[q] ELSE 0))
                                    + (IF q \in M /\ to[q] \in keys THEN Weight(f)[q] ELSE 0)
    PROVE  RequestsDue(f, keys)' =
               (RequestsDue(f, keys) - SumFunctionOnSet(Weight(f), Fibers(M, Ptr, keys)))
               + SumFunctionOnSet(Weight(f), Fibers(M, to, keys))
<1>1. \A q \in M : Weight(f)[q] \in Int
  BY DueIs
<1>2. \A q \in Requests : DueTab(f, keys)[q] = Due(f, keys, q) /\ DueTab(f, keys)[q] \in Nat
  BY SumsAreInt
<1>3. \A q \in Requests :
         /\ DueTab(f, keys)[q] \in Int
         /\ DueTabNext(f, keys)[q] =
               (DueTab(f, keys)[q] - (IF q \in M /\ Ptr[q] \in keys THEN Weight(f)[q] ELSE 0))
               + (IF q \in M /\ to[q] \in keys THEN Weight(f)[q] ELSE 0)
  BY <1>2, SumsNext
<1>4. SumFunctionOnSet(DueTabNext(f, keys), Requests) =
         (SumFunctionOnSet(DueTab(f, keys), Requests) - SumFunctionOnSet(Weight(f), Fibers(M, Ptr, keys)))
         + SumFunctionOnSet(Weight(f), Fibers(M, to, keys))
  BY <1>1, <1>3, PartsAreFinite, MovesDue
<1>5. QED
  BY <1>4, SumsNext, SumsAreInt

(* What pools hold when requests move ...                                    *)
LEMMA ShiftHeld ==
    ASSUME Rows, NEW f \in Columns, NEW keys \in SUBSET Keys, NEW M \in SUBSET Requests, NEW to
    PROVE  Held(Shift(M, to), f, keys) =
               (Held(pool, f, keys) - SumFunctionOnSet(Weight(f), Fibers(M, Ptr, keys)))
               + SumFunctionOnSet(Weight(f), Fibers(M, to, keys))
<1>1. \A q \in M : Weight(f)[q] \in Int
  BY DueIs
<1>2. IsFiniteSet(M) /\ IsFiniteSet(keys)
  BY PartsAreFinite
<1>3. ASSUME NEW k \in Keys
      PROVE  Column(Shift(M, to), f)[k] =
                 (Column(pool, f)[k] - SumFunctionOnSet(Weight(f), Fiber(M, Ptr, k)))
                 + SumFunctionOnSet(Weight(f), Fiber(M, to, k))
  <2>1. From(k, M) = Fiber(M, Ptr, k)
    BY DEF From, Fiber, Ptr
  <2>2. Shift(M, to)[k] = Plus(Minus(pool[k], Official(From(k, M))), Official(Fiber(M, to, k)))
    BY DEF Shift
  <2>3. FieldOf(Shift(M, to)[k], f) =
            (FieldOf(pool[k], f) - FieldOf(Official(From(k, M)), f)) + FieldOf(Official(Fiber(M, to, k)), f)
    BY <2>2, FieldOfPlus, FieldOfMinus
  <2>4. /\ FieldOf(Official(From(k, M)), f) = SumFunctionOnSet(Weight(f), From(k, M))
        /\ FieldOf(Official(Fiber(M, to, k)), f) = SumFunctionOnSet(Weight(f), Fiber(M, to, k))
    BY ShiftParts, FieldOfOfficial
  <2>5. Column(Shift(M, to), f)[k] = FieldOf(Shift(M, to)[k], f) /\ Column(pool, f)[k] = FieldOf(pool[k], f)
    BY DEF Column
  <2>6. QED
    BY <2>1, <2>3, <2>4, <2>5
<1>4. \A k \in keys : /\ Column(pool, f)[k] \in Int
                      /\ Column(Shift(M, to), f)[k] =
                            (Column(pool, f)[k] - SumFunctionOnSet(Weight(f), Fiber(M, Ptr, k)))
                            + SumFunctionOnSet(Weight(f), Fiber(M, to, k))
  <2>1. \A k \in Keys : Column(pool, f)[k] \in Nat
    BY SumsAreInt
  <2>2. QED
    BY <1>3, <2>1
<1>5. SumFunctionOnSet(Column(Shift(M, to), f), keys) =
         (SumFunctionOnSet(Column(pool, f), keys) - SumFunctionOnSet(Weight(f), Fibers(M, Ptr, keys)))
         + SumFunctionOnSet(Weight(f), Fibers(M, to, keys))
  <2>1. PICK w, from, a, b : w = Weight(f) /\ from = Ptr /\ a = Column(pool, f) /\ b = Column(Shift(M, to), f)
    OBVIOUS
  <2>2. \A q \in M : w[q] \in Int
    BY <1>1, <2>1
  <2>3. \A k \in keys : /\ a[k] \in Int
                        /\ b[k] = (a[k] - SumFunctionOnSet(w, Fiber(M, from, k)))
                                  + SumFunctionOnSet(w, Fiber(M, to, k))
    BY <1>4, <2>1
  <2>4. SumFunctionOnSet(b, keys) = (SumFunctionOnSet(a, keys) - SumFunctionOnSet(w, Fibers(M, from, keys)))
                                    + SumFunctionOnSet(w, Fibers(M, to, keys))
    BY <1>2, <2>2, <2>3, MovesSum
  <2>5. QED
    BY <2>1, <2>4
<1>6. QED
  BY <1>5 DEF Held, Column

(* ... and when one of them changes.                                         *)
DifferAt(k, f, before, after) ==
    /\ \A j \in Keys : FieldOf(before[j], f) \in Int /\ FieldOf(after[j], f) \in Int
    /\ \A j \in Keys : j # k => after[j] = before[j]

LEMMA OneHeld ==
    ASSUME NEW f \in Columns, NEW keys \in SUBSET Keys, NEW before, NEW after, NEW k \in Keys,
           DifferAt(k, f, before, after)
    PROVE  Held(after, f, keys) = Held(before, f, keys)
               + (IF k \in keys THEN FieldOf(after[k], f) - FieldOf(before[k], f) ELSE 0)
<1>1. \A j \in Keys : /\ Column(before, f)[j] = FieldOf(before[j], f)
                      /\ Column(after, f)[j] = FieldOf(after[j], f)
  BY DEF Column
<1>2. IsFiniteSet(keys)
  BY PartsAreFinite
<1>3. \A j \in keys : Column(before, f)[j] \in Int /\ Column(after, f)[j] \in Int
  BY <1>1 DEF DifferAt
<1>4. \A j \in keys \ {k} : Column(after, f)[j] = Column(before, f)[j]
  BY <1>1 DEF DifferAt
<1>5. SumFunctionOnSet(Column(after, f), keys) = SumFunctionOnSet(Column(before, f), keys)
          + (IF k \in keys THEN Column(after, f)[k] - Column(before, f)[k] ELSE 0)
  BY <1>2, <1>3, <1>4, SumChange
<1>6. QED
  BY <1>1, <1>5 DEF Held, Column

-----------------------------------------------------------------------------
(* Steps beside a rewrite                                                    *)

(* What they change in the pools, they change in what is due.                *)
LEMMA WaitingMatch ==
    ASSUME Rows, NEW f \in Columns, NEW keys \in SUBSET Keys, RewriteWaits,
           Held(pool, f, keys)' - Held(pool, f, keys)
               = (RequestsDue(f, keys)' - RequestsDue(f, keys)) + (LocalsDue(f, keys)' - LocalsDue(f, keys)),
           RequestsDue(f, keys)' \in Int, LocalsDue(f, keys)' \in Int
    PROVE  Matches(f, keys)
<1>1. Held(lost, f, keys)' = Held(lost, f, keys)
  BY SumsNext, SumsAreInt DEF RewriteWaits
<1>2. Double(f, keys)' = Double(f, keys)
  BY DEF RewriteWaits, Double
<1>3. PICK p \in Int, l \in Int, r \in Int, s \in Int, d \in Int :
         /\ p = Held(pool, f, keys) /\ l = Held(lost, f, keys)
         /\ r = RequestsDue(f, keys) /\ s = LocalsDue(f, keys) /\ d = Double(f, keys)
  BY SumsAreInt
<1>4. PICK r2 \in Int, s2 \in Int : r2 = RequestsDue(f, keys)' /\ s2 = LocalsDue(f, keys)'
  OBVIOUS
<1>5. Held(pool, f, keys)' - p = (r2 - r) + (s2 - s)
  BY <1>3, <1>4
<1>6. (Held(pool, f, keys)' - p) + (l - l) = (r2 - r) + (s2 - s) + (d - d)
  BY <1>5
<1>7. QED
  BY <1>1, <1>2, <1>3, <1>4, <1>6 DEF Matches

(* A request with the same outcome in the same commits is due where it was.  *)
LEMMA SameDue ==
    ASSUME NEW f \in Columns, NEW keys, NEW q \in Requests,
           claim'[q].status = claim[q].status,
           group'[GroupOf[q]].alloc = group[GroupOf[q]].alloc,
           group'[GroupOf[q]].state = "final" <=> group[GroupOf[q]].state = "final"
    PROVE  DueNext(f, keys, q) = Due(f, keys, q)
BY DueIs DEF DueNext, DueAs

(* ... and one of which nothing is counted is due nowhere.                   *)
LEMMA NotDue ==
    ASSUME NEW f \in Columns, NEW keys, NEW q \in Requests
    PROVE  /\ claim[q].status # "reconciled" /\ (claim[q].status = "failed" => group[GroupOf[q]].state # "final")
              => Due(f, keys, q) = 0
           /\ claim'[q].status # "reconciled" /\ (claim'[q].status = "failed" => group'[GroupOf[q]].state # "final")
              => DueNext(f, keys, q) = 0
BY DueIs DEF DueNext, DueAs

LEMMA CountedDue ==
    ASSUME NEW f \in Columns, NEW keys, NEW q \in Requests
    PROVE  /\ claim[q].status = "reconciled" =>
                 Due(f, keys, q) = IF KeyOf(GroupOf[q]) \in keys THEN Weight(f)[q] ELSE 0
           /\ claim'[q].status = "reconciled" =>
                 DueNext(f, keys, q) = IF KeyNext(GroupOf[q]) \in keys THEN Weight(f)[q] ELSE 0
BY DueIs DEF DueNext, DueAs, KeyOf, KeyNext, CommitsOf

(* Nothing is moved and nothing is due elsewhere.                            *)
LEMMA StillMatch ==
    ASSUME Rows, Rows', NEW f \in Columns, NEW keys \in SUBSET Keys, RewriteWaits, pool' = pool,
           \A q \in Requests : DueNext(f, keys, q) = Due(f, keys, q),
           \A g \in LocalGroups : LocalNext(f, keys, g) = LocalDue(f, keys, g)
    PROVE  Matches(f, keys)
<1>1. /\ RequestsDue(f, keys)' = RequestsDue(f, keys) /\ LocalsDue(f, keys)' = LocalsDue(f, keys)
      /\ Held(pool, f, keys)' = Held(pool, f, keys)
  BY SameDues, SameLocals, SumsNext, SumsAreInt
<1>2. PICK p \in Int, r \in Int, s \in Int :
         p = Held(pool, f, keys) /\ r = RequestsDue(f, keys) /\ s = LocalsDue(f, keys)
  BY SumsAreInt
<1>3. p - p = (r - r) + (s - s)
  OBVIOUS
<1>4. QED
  BY <1>1, <1>2, <1>3, WaitingMatch

(* Requests are moved, and nothing else.                                     *)
LEMMA ShiftMatch ==
    ASSUME Rows, NEW f \in Columns, NEW keys \in SUBSET Keys, RewriteWaits,
           NEW M \in SUBSET Requests, NEW to, pool' = Shift(M, to),
           \A q \in Requests :
              DueNext(f, keys, q) = (Due(f, keys, q) - (IF q \in M /\ Ptr[q] \in keys THEN Weight(f)[q] ELSE 0))
                                    + (IF q \in M /\ to[q] \in keys THEN Weight(f)[q] ELSE 0),
           \A g \in LocalGroups : LocalNext(f, keys, g) = LocalDue(f, keys, g)
    PROVE  Matches(f, keys)
<1>1. RequestsDue(f, keys)' =
          (RequestsDue(f, keys) - SumFunctionOnSet(Weight(f), Fibers(M, Ptr, keys)))
          + SumFunctionOnSet(Weight(f), Fibers(M, to, keys))
  BY ShiftDue
<1>2. Held(pool, f, keys)' =
          (Held(pool, f, keys) - SumFunctionOnSet(Weight(f), Fibers(M, Ptr, keys)))
          + SumFunctionOnSet(Weight(f), Fibers(M, to, keys))
  <2>1. Held(pool, f, keys)' = Held(Shift(M, to), f, keys)
    BY DEF Held
  <2>2. QED
    BY <2>1, ShiftHeld
<1>3. LocalsDue(f, keys)' = LocalsDue(f, keys)
  BY SameLocals
<1>4. PICK x \in Int, y \in Int : /\ x = SumFunctionOnSet(Weight(f), Fibers(M, Ptr, keys))
                                  /\ y = SumFunctionOnSet(Weight(f), Fibers(M, to, keys))
  <2>1. \A q \in Requests : Weight(f)[q] \in Int
    BY DueIs
  <2>2. Fibers(M, Ptr, keys) \in SUBSET Requests /\ Fibers(M, to, keys) \in SUBSET Requests
    BY DEF Fibers
  <2>3. IsFiniteSet(Fibers(M, Ptr, keys)) /\ IsFiniteSet(Fibers(M, to, keys))
    BY <2>2, PartsAreFinite
  <2>4. SumFunctionOnSet(Weight(f), Fibers(M, Ptr, keys)) \in Int
    BY <2>1, <2>2, <2>3, SumInt
  <2>5. SumFunctionOnSet(Weight(f), Fibers(M, to, keys)) \in Int
    BY <2>1, <2>2, <2>3, SumInt
  <2>6. QED
    BY <2>4, <2>5
<1>5. PICK p \in Int, r \in Int, s \in Int :
         p = Held(pool, f, keys) /\ r = RequestsDue(f, keys) /\ s = LocalsDue(f, keys)
  BY SumsAreInt
<1>6. ((p - x) + y) - p = (((r - x) + y) - r) + (s - s)
  OBVIOUS
<1>7. (r - x) + y \in Int
  OBVIOUS
<1>8. QED
  BY <1>1, <1>2, <1>3, <1>4, <1>5, <1>6, <1>7, WaitingMatch

-----------------------------------------------------------------------------
(* Ingest                                                                    *)

(* A turn of the Relay changes nothing that is counted locally.              *)
LEMMA RelayLocals ==
    ASSUME NEW g \in RelayGroups, \A h \in Groups : h # g => group'[h] = group[h],
           NEW f \in Columns, NEW keys
    PROVE  \A h \in LocalGroups : LocalNext(f, keys, h) = LocalDue(f, keys, h)
<1>1. \A h \in LocalGroups : h # g /\ h \in Groups
  BY AttributionLedgerAssumption DEF Groups
<1>2. QED
  BY <1>1, LocalIs DEF LocalNext

LEMMA RelayNewMatch ==
    ASSUME Rows, Rows', NEW g \in RelayGroups, NEW a \in Snapshots(g), NEW qs \in SUBSET Members(g),
           IngestRelayNew(g, a, qs), NEW f \in Columns, NEW keys \in SUBSET Keys
    PROVE  Matches(f, keys)
<1>1. g \in Groups /\ TypeOK /\ NoneBeforeGroup
  BY RowsFacts DEF Groups
<1>2. GroupGoes(g, "hot", a, group[g].usage) /\ ClaimsGo(WithNew(qs), Ptr)
  BY <1>1, RelayGroupGoes, RelayNewClaims
<1>3. RewriteWaits /\ pool' = pool /\ group[g].state = "none"
  BY <1>1, OthersWait DEF Ingest, IngestRelayNew
<1>4. ASSUME NEW q \in Requests
      PROVE  DueNext(f, keys, q) = Due(f, keys, q)
  <2>1. CASE GroupOf[q] = g
    <3>1. claim[q].status = "none" /\ claim'[q].status \in {"none", "pending"}
      BY <1>1, <1>2, <1>3, <2>1 DEF NoneBeforeGroup, ClaimsGo, WithNew
    <3>2. QED
      BY <3>1, NotDue
  <2>2. CASE GroupOf[q] # g
    <3>1. q \notin qs
      BY <2>2 DEF Members
    <3>2. claim'[q].status = claim[q].status /\ group'[GroupOf[q]] = group[GroupOf[q]]
      BY <1>2, <2>2, <3>1, CountedIs DEF ClaimsGo, WithNew, GroupGoes
    <3>3. QED
      BY <3>2, SameDue
  <2>3. QED
    BY <2>1, <2>2
<1>5. \A h \in LocalGroups : LocalNext(f, keys, h) = LocalDue(f, keys, h)
  BY <1>2, RelayLocals DEF GroupGoes
<1>6. QED
  BY <1>3, <1>4, <1>5, StillMatch

LEMMA RelayMoreMatch ==
    ASSUME Tables, Lines, Rows', NEW g \in RelayGroups, NEW a \in Snapshots(g), NEW qs \in SUBSET Members(g),
           IngestRelayMore(g, a, qs), NEW f \in Columns, NEW keys \in SUBSET Keys, Closed(keys)
    PROVE  Matches(f, keys)
<1>1. g \in Groups /\ Rows /\ TypeOK
  BY LinesFacts, RowsFacts DEF Groups
<1>2. /\ GroupGoes(g, "hot", a, group[g].usage)
      /\ ClaimsGo(WithNew(qs), Dropped(PtrTo(Repoints(g, a), Key(ToSet(a))), pool'))
  BY <1>1, RelayGroupGoes, RelayMoreClaims
<1>3. RewriteWaits /\ group[g].state = "hot"
  BY <1>1, OthersWait DEF Ingest, IngestRelayMore, Hot
<1>4. \A h \in LocalGroups : LocalNext(f, keys, h) = LocalDue(f, keys, h)
  BY <1>2, RelayLocals DEF GroupGoes
<1>5. \A q \in Requests : /\ claim'[q].status = "reconciled" <=> claim[q].status = "reconciled"
                          /\ claim'[q].status = "failed" <=> claim[q].status = "failed"
                          /\ GroupOf[q] # g => claim'[q].status = claim[q].status
  BY <1>2 DEF ClaimsGo, WithNew, Members
<1>6. ASSUME NEW q \in Requests, GroupOf[q] # g \/ claim[q].status # "reconciled" \/ a = group[g].alloc
      PROVE  DueNext(f, keys, q) = Due(f, keys, q)
  <2>1. CASE GroupOf[q] # g
    <3>1. group'[GroupOf[q]] = group[GroupOf[q]]
      BY <1>2, <2>1, CountedIs DEF GroupGoes
    <3>2. QED
      BY <1>5, <2>1, <3>1, SameDue
  <2>2. CASE GroupOf[q] = g /\ claim[q].status # "reconciled"
    <3>1. group'[g].state = "hot"
      BY <1>2 DEF GroupGoes
    <3>2. QED
      BY <1>3, <1>5, <2>2, <3>1, NotDue
  <2>3. CASE GroupOf[q] = g /\ claim[q].status = "reconciled" /\ a = group[g].alloc
    <3>1. group'[g].state = group[g].state /\ group'[g].alloc = group[g].alloc
      BY <1>2, <1>3, <2>3 DEF GroupGoes
    <3>2. QED
      BY <1>5, <2>3, <3>1, SameDue
  <2>4. QED
    BY <1>6, <2>1, <2>2, <2>3
<1>7. CASE a = group[g].alloc
  <2>1. pool' = pool
    BY <1>7 DEF IngestRelayMore
  <2>2. QED
    BY <1>1, <1>3, <1>4, <1>6, <1>7, <2>1, StillMatch
<1>8. CASE a # group[g].alloc
  <2> DEFINE done == WithStatus(g, "reconciled")
             key == Key(ToSet(a))
             M == Movers(done, key)
  <2>1. MayMaterialize(done, key) /\ pool' = Materialized(done, key)
    BY <1>8 DEF IngestRelayMore
  <2>2. key \in Keys /\ key.gap = FALSE
    BY <1>1, SnapshotFacts, SetOfCommits, KeyFacts
  <2>3. done \in SUBSET Requests /\ \A q \in done : claim[q].status = "reconciled" /\ GroupOf[q] = g
    BY WithStatusFacts
  <2>4. /\ pool' = Shift(M, To(key)) /\ M \in SUBSET Requests
        /\ \A q \in M : q \in done /\ To(key)[q] = key /\ claim[q].ptr # GonePool
    BY <1>1, <2>1, <2>2, <2>3, MaterializedShifts
  <2>5. KeyNext(g) = key
    BY <1>2 DEF KeyNext, GroupGoes
  <2>6. \A q \in Requests : q \notin M /\ q \in done => claim[q].ptr = key
    BY DEF Movers
  <2>7. \A q \in Requests : GroupOf[q] = g /\ claim[q].status = "reconciled" => q \in done
    BY DEF WithStatus, Members
  <2> HIDE DEF done, key, M
  <2>8. ASSUME NEW q \in Requests
        PROVE  DueNext(f, keys, q) = (Due(f, keys, q) - (IF q \in M /\ Ptr[q] \in keys THEN Weight(f)[q] ELSE 0))
                                     + (IF q \in M /\ To(key)[q] \in keys THEN Weight(f)[q] ELSE 0)
    <3>1. Weight(f)[q] \in Nat
      BY DueIs
    <3>2. Due(f, keys, q) \in Nat
      BY <1>1, SumsAreInt
    <3>3. CASE q \in done
      <4>1. Counted(q) /\ claim[q].ptr # GonePool
        <5>1. Counted(q)
          BY <1>3, <2>3, <3>3, CountedIs
        <5>2. key # GonePool
          BY <2>2, KeyFacts
        <5>3. QED
          BY <2>4, <2>6, <3>3, <5>1, <5>2
      <4>2. claim[q].ptr \in keys <=> KeyOf(GroupOf[q]) \in keys
        BY <4>1, FitsIn
      <4>3. Due(f, keys, q) = IF claim[q].ptr \in keys THEN Weight(f)[q] ELSE 0
        BY <2>3, <3>3, <4>2, CountedDue
      <4>4. DueNext(f, keys, q) = IF key \in keys THEN Weight(f)[q] ELSE 0
        BY <1>5, <2>3, <2>5, <3>3, CountedDue
      <4>5. Ptr[q] = claim[q].ptr
        BY DEF Ptr
      <4>6. CASE q \in M
        BY <2>4, <3>1, <4>3, <4>4, <4>5, <4>6
      <4>7. CASE q \notin M
        BY <2>6, <3>1, <3>3, <4>3, <4>4, <4>7
      <4>8. QED
        BY <4>6, <4>7
    <3>4. CASE q \notin done
      <4>1. q \notin M
        BY <2>4, <3>4
      <4>2. DueNext(f, keys, q) = Due(f, keys, q)
        BY <1>6, <2>7, <3>4
      <4>3. QED
        BY <3>2, <4>1, <4>2
    <3>5. QED
      BY <3>3, <3>4
  <2>9. QED
    BY <1>1, <1>3, <1>4, <2>4, <2>8, ShiftMatch
<1>9. QED
  BY <1>7, <1>8

(* A local turn changes no request.                                          *)
LEMMA LocalDues ==
    ASSUME NEW g \in LocalGroups, \A h \in Groups : h # g => group'[h] = group[h],
           \A q \in Requests : claim'[q].status = claim[q].status,
           NEW f \in Columns, NEW keys
    PROVE  \A q \in Requests : DueNext(f, keys, q) = Due(f, keys, q)
<1>1. SUFFICES ASSUME NEW q \in Requests
               PROVE  DueNext(f, keys, q) = Due(f, keys, q)
  OBVIOUS
<1>2. group'[GroupOf[q]] = group[GroupOf[q]]
  BY CountedIs
<1>3. QED
  BY <1>2, SameDue

LEMMA LocalFields ==
    ASSUME NEW f \in Columns, NEW u \in Nat
    PROVE  /\ FieldOf(Local(u), f) \in Nat
           /\ \A v \in Nat : FieldOf(Minus(Local(u), Local(v)), f) = FieldOf(Local(u), f) - FieldOf(Local(v), f)
BY FieldOfMinus, FieldOfType, AmountsClosed

(* The pools change by what is due for a local turn.                         *)
LEMMA LocalMatch ==
    ASSUME Rows, NEW f \in Columns, NEW keys \in SUBSET Keys, RewriteWaits,
           NEW g \in LocalGroups, \A h \in Groups : h # g => group'[h] = group[h], group'[g].usage \in Nat,
           \A q \in Requests : claim'[q].status = claim[q].status,
           Held(pool, f, keys)' = Held(pool, f, keys) + (LocalNext(f, keys, g) - LocalDue(f, keys, g))
    PROVE  Matches(f, keys)
<1>1. RequestsDue(f, keys)' = RequestsDue(f, keys)
  BY LocalDues, SameDues
<1>2. LocalsDue(f, keys)' = LocalsDue(f, keys) + (LocalNext(f, keys, g) - LocalDue(f, keys, g))
  BY OneLocal
<1>3. LocalDue(f, keys, g) \in Nat
  BY SumsAreInt
<1>4. LocalNext(f, keys, g) \in Nat
  <2>1. \A state, alloc : \A usage \in Nat : LocalAs(f, keys, state, alloc, usage) \in Nat
    BY LocalIs
  <2>2. QED
    BY <2>1 DEF LocalNext
<1>5. PICK p \in Int, r \in Int, s \in Int, x \in Int, y \in Int :
         /\ p = Held(pool, f, keys) /\ r = RequestsDue(f, keys) /\ s = LocalsDue(f, keys)
         /\ x = LocalDue(f, keys, g) /\ y = LocalNext(f, keys, g)
  BY <1>3, <1>4, SumsAreInt
<1>6. (p + (y - x)) - p = (r - r) + ((s + (y - x)) - s) /\ s + (y - x) \in Int
  OBVIOUS
<1>7. QED
  BY <1>1, <1>2, <1>5, <1>6, WaitingMatch

LEMMA LocalNewHeld ==
    ASSUME Rows, Rows', NEW g \in LocalGroups, NEW a \in Snapshots(g), NEW u \in Usages,
           IngestLocalNew(g, a, u), NEW f \in Columns, NEW keys \in SUBSET Keys
    PROVE  Held(pool, f, keys)' = Held(pool, f, keys) + (LocalNext(f, keys, g) - LocalDue(f, keys, g))
<1> DEFINE key == Key(ToSet(a))
<1>1. g \in Groups /\ TypeOK /\ u \in Nat
  BY RowsFacts, UsageType DEF Groups
<1>2. GroupGoes(g, "hot", a, u)
  BY <1>1, LocalGroupGoes
<1>4. key \in Keys
  BY <1>1, SnapshotFacts, SetOfCommits, KeyFacts
<1>5. claim' = claim /\ pool' = [pool EXCEPT ![key] = Plus(@, Local(u))] /\ group[g].state = "none"
  BY DEF IngestLocalNew
<1>6. LocalNext(f, keys, g) = IF key \in keys THEN FieldOf(Local(u), f) ELSE 0
  BY <1>2 DEF LocalNext, LocalAs, GroupGoes
<1>7. LocalDue(f, keys, g) = 0
  BY <1>5, LocalIs DEF LocalAs
<1> HIDE DEF key
<1>8. pool'[key] = Plus(pool[key], Local(u)) /\ \A j \in Keys : j # key => pool'[j] = pool[j]
  BY <1>4, <1>5, RowsFacts
<1>9. \A j \in Keys : FieldOf(pool[j], f) \in Int /\ FieldOf(pool'[j], f) \in Int
  <2>1. \A j \in Keys : pool[j] \in Amounts /\ pool'[j] \in Amounts
    <3>1. pool' \in [Keys -> Amounts]
      BY DEF Rows, TypeOK
    <3>2. QED
      BY <3>1, RowsFacts
  <2>2. \A x \in Amounts : FieldOf(x, f) \in Nat
    BY FieldOfType
  <2>3. QED
    BY <2>1, <2>2
<1>10. Held(pool', f, keys) = Held(pool, f, keys)
           + (IF key \in keys THEN FieldOf(pool'[key], f) - FieldOf(pool[key], f) ELSE 0)
  <2>1. DifferAt(key, f, pool, pool')
    BY <1>8, <1>9 DEF DifferAt
  <2>2. QED
    BY <1>4, <2>1, OneHeld
<1>11. FieldOf(pool'[key], f) = FieldOf(pool[key], f) + FieldOf(Local(u), f)
  BY <1>8, FieldOfPlus
<1>12. PICK p \in Int, x \in Int, y \in Int :
          p = Held(pool, f, keys) /\ x = FieldOf(pool[key], f) /\ y = FieldOf(Local(u), f)
  <2>1. Held(pool, f, keys) \in Int
    BY SumsAreInt
  <2>2. FieldOf(Local(u), f) \in Nat
    BY <1>1, LocalFields
  <2>3. FieldOf(pool[key], f) \in Int
    BY <1>4, <1>9
  <2>4. QED
    BY <2>1, <2>2, <2>3
<1>13. Held(pool', f, keys) = Held(pool, f, keys) + (LocalNext(f, keys, g) - LocalDue(f, keys, g))
  BY <1>6, <1>7, <1>10, <1>11, <1>12
<1>14. Held(pool, f, keys)' = Held(pool', f, keys)
  BY DEF Held
<1>15. QED
  BY <1>13, <1>14

LEMMA LocalNewMatch ==
    ASSUME Rows, Rows', NEW g \in LocalGroups, NEW a \in Snapshots(g), NEW u \in Usages,
           IngestLocalNew(g, a, u), NEW f \in Columns, NEW keys \in SUBSET Keys
    PROVE  Matches(f, keys)
<1>1. g \in Groups /\ TypeOK /\ u \in Nat
  BY RowsFacts, UsageType DEF Groups
<1>2. GroupGoes(g, "hot", a, u)
  BY <1>1, LocalGroupGoes
<1>3. RewriteWaits
  BY <1>1, OthersWait DEF Ingest
<1>4. claim' = claim
  BY DEF IngestLocalNew
<1>5. QED
  BY <1>1, <1>2, <1>3, <1>4, LocalNewHeld, LocalMatch DEF GroupGoes

(* The pools of a local turn that has grown.                                 *)
LEMMA LocalPoolsHeld ==
    ASSUME Rows, NEW f \in Columns, NEW keys \in SUBSET Keys, NEW old \in Keys, NEW new \in Keys,
           NEW before \in Nat, NEW u \in Nat
    PROVE  Held(LocalPools(old, new, before, u), f, keys) = Held(pool, f, keys)
               + ((IF new \in keys THEN FieldOf(Local(u), f) ELSE 0)
                  - (IF old \in keys THEN FieldOf(Local(before), f) ELSE 0))
<1>1. PICK after : after = LocalPools(old, new, before, u)
  OBVIOUS
<1>2. PICK x \in Int, y \in Int : x = FieldOf(Local(before), f) /\ y = FieldOf(Local(u), f)
  <2>1. FieldOf(Local(before), f) \in Nat /\ FieldOf(Local(u), f) \in Nat
    BY LocalFields
  <2>2. QED
    BY <2>1
<1>3. \A j \in Keys : FieldOf(pool[j], f) \in Int
  <2>1. \A j \in Keys : pool[j] \in Amounts
    BY RowsFacts
  <2>2. \A z \in Amounts : FieldOf(z, f) \in Nat
    BY FieldOfType
  <2>3. QED
    BY <2>1, <2>2
<1>4. PICK p \in Int : p = Held(pool, f, keys)
  BY SumsAreInt
<1>5. CASE old = new
  <2>1. after[old] = Plus(pool[old], Minus(Local(u), Local(before))) /\ \A j \in Keys : j # old => after[j] = pool[j]
    BY <1>1, <1>5 DEF LocalPools
  <2>2. FieldOf(after[old], f) = FieldOf(pool[old], f) + (y - x)
    BY <1>2, <2>1, FieldOfPlus, FieldOfMinus
  <2>3. \A j \in Keys : FieldOf(pool[j], f) \in Int /\ FieldOf(after[j], f) \in Int
    BY <1>3, <2>1, <2>2
  <2>4. Held(after, f, keys) = p + (IF old \in keys THEN FieldOf(after[old], f) - FieldOf(pool[old], f) ELSE 0)
    <3>1. DifferAt(old, f, pool, after)
      BY <2>1, <2>3 DEF DifferAt
    <3>2. QED
      BY <1>4, <3>1, OneHeld
  <2>5. FieldOf(pool[old], f) \in Int
    BY <1>3
  <2>6. QED
    BY <1>1, <1>2, <1>4, <1>5, <2>2, <2>4, <2>5
<1>6. CASE old # new
  <2>1. PICK mid : mid = [j \in Keys |-> IF j = old THEN Minus(pool[old], Local(before)) ELSE pool[j]]
    OBVIOUS
  <2>2. mid[old] = Minus(pool[old], Local(before)) /\ \A j \in Keys : j # old => mid[j] = pool[j]
    BY <2>1
  <2>3. after[new] = Plus(pool[new], Local(u)) /\ \A j \in Keys : j # new => after[j] = mid[j]
    BY <1>1, <1>6, <2>1 DEF LocalPools
  <2>4. /\ FieldOf(mid[old], f) = FieldOf(pool[old], f) - x
        /\ FieldOf(after[new], f) = FieldOf(pool[new], f) + y
        /\ mid[new] = pool[new]
    BY <1>2, <1>6, <2>2, <2>3, FieldOfPlus, FieldOfMinus
  <2>5. \A j \in Keys : FieldOf(pool[j], f) \in Int /\ FieldOf(mid[j], f) \in Int
    BY <1>3, <2>2, <2>4
  <2>6. \A j \in Keys : FieldOf(mid[j], f) \in Int /\ FieldOf(after[j], f) \in Int
    BY <1>3, <2>3, <2>4, <2>5
  <2>7. Held(mid, f, keys) = p + (IF old \in keys THEN FieldOf(mid[old], f) - FieldOf(pool[old], f) ELSE 0)
    <3>1. DifferAt(old, f, pool, mid)
      BY <2>2, <2>5 DEF DifferAt
    <3>2. QED
      BY <1>4, <3>1, OneHeld
  <2>8. Held(after, f, keys) = Held(mid, f, keys)
            + (IF new \in keys THEN FieldOf(after[new], f) - FieldOf(mid[new], f) ELSE 0)
    <3>1. DifferAt(new, f, mid, after)
      BY <2>3, <2>6 DEF DifferAt
    <3>2. QED
      BY <3>1, OneHeld
  <2>9. FieldOf(pool[old], f) \in Int /\ FieldOf(pool[new], f) \in Int
    BY <1>3
  <2>10. Held(mid, f, keys) = p + (IF old \in keys THEN 0 - x ELSE 0)
    BY <2>4, <2>7, <2>9
  <2>11. Held(after, f, keys) = Held(mid, f, keys) + (IF new \in keys THEN y ELSE 0)
    BY <2>4, <2>8, <2>9
  <2>12. QED
    BY <1>1, <1>2, <1>4, <2>10, <2>11
<1>7. QED
  BY <1>5, <1>6

LEMMA LocalMoreHeld ==
    ASSUME Rows, Rows', NEW g \in LocalGroups, NEW a \in Snapshots(g), NEW u \in Usages,
           IngestLocalMore(g, a, u), NEW f \in Columns, NEW keys \in SUBSET Keys
    PROVE  Held(pool, f, keys)' = Held(pool, f, keys) + (LocalNext(f, keys, g) - LocalDue(f, keys, g))
<1>1. g \in Groups /\ TypeOK /\ u \in Nat
  BY RowsFacts, UsageType DEF Groups
<1>2. GroupGoes(g, "hot", a, u) /\ ClaimsGo(Status, Dropped(Ptr, pool')) /\ group[g].state = "hot"
  BY <1>1, LocalGroupGoes, LocalMoreClaims DEF IngestLocalMore, Hot
<1>4. /\ KeyOf(g) \in Keys /\ Key(ToSet(a)) \in Keys
      /\ group[g].usage \in Nat /\ u \in Nat
      /\ \/ pool' = pool /\ a = group[g].alloc /\ u = group[g].usage
         \/ pool' = LocalPools(KeyOf(g), Key(ToSet(a)), group[g].usage, u)
  BY LocalMorePools
<1>5. LocalNext(f, keys, g) = IF Key(ToSet(a)) \in keys THEN FieldOf(Local(u), f) ELSE 0
  BY <1>2 DEF LocalNext, LocalAs, GroupGoes
<1>6. LocalDue(f, keys, g) = IF KeyOf(g) \in keys THEN FieldOf(Local(group[g].usage), f) ELSE 0
  BY <1>2, LocalIs DEF LocalAs, KeyOf, CommitsOf
<1>7. Held(pool', f, keys) = Held(pool, f, keys) + (LocalNext(f, keys, g) - LocalDue(f, keys, g))
  <2>1. CASE pool' = pool /\ a = group[g].alloc /\ u = group[g].usage
    <3>1. LocalNext(f, keys, g) = LocalDue(f, keys, g)
      BY <1>5, <1>6, <2>1 DEF KeyOf, CommitsOf
    <3>2. LocalDue(f, keys, g) \in Nat /\ Held(pool, f, keys) \in Int
      BY SumsAreInt
    <3>3. QED
      BY <2>1, <3>1, <3>2
  <2>2. CASE pool' = LocalPools(KeyOf(g), Key(ToSet(a)), group[g].usage, u)
    BY <1>4, <1>5, <1>6, <2>2, LocalPoolsHeld
  <2>3. QED
    BY <1>4, <2>1, <2>2
<1>8. Held(pool, f, keys)' = Held(pool', f, keys)
  BY DEF Held
<1>9. QED
  BY <1>7, <1>8

LEMMA LocalMoreMatch ==
    ASSUME Rows, Rows', NEW g \in LocalGroups, NEW a \in Snapshots(g), NEW u \in Usages,
           IngestLocalMore(g, a, u), NEW f \in Columns, NEW keys \in SUBSET Keys
    PROVE  Matches(f, keys)
<1>1. g \in Groups /\ TypeOK /\ u \in Nat
  BY RowsFacts, UsageType DEF Groups
<1>2. GroupGoes(g, "hot", a, u) /\ ClaimsGo(Status, Dropped(Ptr, pool'))
  BY <1>1, LocalGroupGoes, LocalMoreClaims
<1>3. RewriteWaits
  BY <1>1, OthersWait DEF Ingest
<1>4. \A q \in Requests : claim'[q].status = claim[q].status
  BY <1>2 DEF ClaimsGo, Status
<1>5. QED
  BY <1>1, <1>2, <1>3, <1>4, LocalMoreHeld, LocalMatch DEF GroupGoes

-----------------------------------------------------------------------------
(* Reconciliation                                                            *)

LEMMA SameGroupLocals ==
    ASSUME NEW f \in Columns, NEW keys,
           \A g \in Groups : /\ group'[g].alloc = group[g].alloc /\ group'[g].usage = group[g].usage
                             /\ group'[g].state = "none" <=> group[g].state = "none"
    PROVE  \A g \in LocalGroups : LocalNext(f, keys, g) = LocalDue(f, keys, g)
BY LocalIs DEF LocalNext, LocalAs, Groups

LEMMA ReconcileMatch ==
    ASSUME Rows, NEW w \in Workers, NEW q \in Requests, Reconcile(w, q),
           NEW f \in Columns, NEW keys \in SUBSET Keys
    PROVE  Matches(f, keys)
<1> DEFINE key == KeyOf(GroupOf[q])
<1>1. /\ claim[q].status = "pending" /\ claim[q].ptr = NoPool /\ key \in Keys
      /\ ClaimGoes(q, "reconciled", key) /\ pool' = Shift({q}, To(key)) /\ group' = group
  BY ReconcileFacts DEF Reconcile
<1>2. RewriteWaits
  BY RowsFacts, OthersWait DEF Work
<1>3. \A g \in LocalGroups : LocalNext(f, keys, g) = LocalDue(f, keys, g)
  BY <1>1, SameGroupLocals
<1>4. KeyNext(GroupOf[q]) = key
  BY <1>1 DEF KeyNext, KeyOf, CommitsOf
<1> HIDE DEF key
<1>5. ASSUME NEW r \in Requests
      PROVE  DueNext(f, keys, r) = (Due(f, keys, r) - (IF r \in {q} /\ Ptr[r] \in keys THEN Weight(f)[r] ELSE 0))
                                   + (IF r \in {q} /\ To(key)[r] \in keys THEN Weight(f)[r] ELSE 0)
  <2>1. Weight(f)[r] \in Nat
    BY DueIs
  <2>2. Due(f, keys, r) \in Nat
    BY SumsAreInt
  <2>3. CASE r = q
    <3>1. Due(f, keys, q) = 0
      BY <1>1, NotDue
    <3>2. DueNext(f, keys, q) = IF key \in keys THEN Weight(f)[q] ELSE 0
      BY <1>1, <1>4, CountedDue DEF ClaimGoes
    <3>3. Ptr[q] \notin keys /\ To(key)[q] = key
      BY <1>1, KeyFacts DEF Ptr, To
    <3>4. QED
      BY <2>1, <2>3, <3>1, <3>2, <3>3
  <2>4. CASE r # q
    <3>1. DueNext(f, keys, r) = Due(f, keys, r)
      BY <1>1, <2>4, SameDue DEF ClaimGoes
    <3>2. QED
      BY <2>2, <2>4, <3>1
  <2>5. QED
    BY <2>3, <2>4
<1>6. {q} \in SUBSET Requests
  OBVIOUS
<1>7. QED
  BY <1>1, <1>2, <1>3, <1>5, <1>6, ShiftMatch

LEMMA WorkMatch ==
    ASSUME Tables, Tables', Work, NEW f \in Columns, NEW keys \in SUBSET Keys
    PROVE  Matches(f, keys)
<1>1. Rows /\ Rows' /\ TypeOK
  BY RowsFacts DEF Tables
<1>2. RewriteWaits
  BY <1>1, OthersWait
<1>3. ASSUME NEW p \in Requests, NEW s, ClaimGoes(p, s, claim[p].ptr), UNCHANGED <<group, pool>>,
             s = claim[p].status
             \/ (s \in {"pending", "failed"} /\ claim[p].status = "pending" /\ group[GroupOf[p]].state = "hot")
      PROVE  Matches(f, keys)
  <2>1. \A q \in Requests : q # p => DueNext(f, keys, q) = Due(f, keys, q)
    BY <1>3, SameDue DEF ClaimGoes
  <2>2. DueNext(f, keys, p) = Due(f, keys, p)
    <3>1. CASE s = claim[p].status
      BY <1>3, <3>1, SameDue DEF ClaimGoes
    <3>2. CASE s \in {"pending", "failed"} /\ claim[p].status = "pending" /\ group[GroupOf[p]].state = "hot"
      BY <1>3, <3>2, NotDue DEF ClaimGoes
    <3>3. QED
      BY <1>3, <3>1, <3>2
  <2>3. \A g \in LocalGroups : LocalNext(f, keys, g) = LocalDue(f, keys, g)
    BY <1>3, SameGroupLocals
  <2>4. QED
    BY <1>1, <1>2, <1>3, <2>1, <2>2, <2>3, StillMatch
<1>4. ASSUME NEW w \in Workers, NEW p \in Requests, Lease(w, p)
      PROVE  Matches(f, keys)
  BY <1>1, <1>3, <1>4, LeaseGoes DEF Lease
<1>5. ASSUME NEW p \in Requests, LeaseExpires(p)
      PROVE  Matches(f, keys)
  BY <1>1, <1>3, <1>5, LeaseExpiresGoes DEF LeaseExpires
<1>6. ASSUME NEW w \in Workers, NEW p \in Requests, Retry(w, p) \/ Finish(w, p)
      PROVE  Matches(f, keys)
  <2>1. PICK s \in {"pending", "failed"} : ClaimGoes(p, s, claim[p].ptr)
    BY <1>1, <1>6, SettleGoes
  <2>2. UNCHANGED <<group, pool>> /\ Holds(w, p)
    BY <1>6 DEF Retry, Finish
  <2>3. claim[p].status = "pending" /\ group[GroupOf[p]].state = "hot"
    <3>1. claim[p].lease # {} /\ Hot(GroupOf[p])
      BY <2>2 DEF Holds, Stored
    <3>2. LeasedIsPending
      BY <1>1, RowsFacts
    <3>3. QED
      BY <3>1, <3>2 DEF LeasedIsPending, Hot
  <2>4. QED
    BY <1>3, <2>1, <2>2, <2>3
<1>7. ASSUME NEW w \in Workers, GiveUp(w)
      PROVE  Matches(f, keys)
  <2>1. UNCHANGED <<group, claim, pool>>
    BY <1>7 DEF GiveUp
  <2>2. \A q \in Requests : DueNext(f, keys, q) = Due(f, keys, q)
    BY <2>1, SameDue
  <2>3. \A g \in LocalGroups : LocalNext(f, keys, g) = LocalDue(f, keys, g)
    BY <2>1, SameGroupLocals
  <2>4. QED
    BY <1>1, <1>2, <2>1, <2>2, <2>3, StillMatch
<1>8. QED
  BY <1>1, <1>4, <1>5, <1>6, <1>7, ReconcileMatch DEF Work

-----------------------------------------------------------------------------
(* Expiry                                                                    *)

(* Requests that move between pools of one line leave what is held there.    *)
LEMMA SameHeld ==
    ASSUME Rows, NEW f \in Columns, NEW keys \in SUBSET Keys, NEW M \in SUBSET Requests, NEW to,
           \A q \in M : claim[q].ptr \in keys <=> to[q] \in keys
    PROVE  Held(Shift(M, to), f, keys) = Held(pool, f, keys)
<1>1. Fibers(M, Ptr, keys) = Fibers(M, to, keys)
  BY DEF Fibers, Ptr
<1>2. SumFunctionOnSet(Weight(f), Fibers(M, Ptr, keys)) \in Int
  <2>1. \A q \in Requests : Weight(f)[q] \in Int
    BY DueIs
  <2>2. Fibers(M, Ptr, keys) \in SUBSET Requests
    BY DEF Fibers
  <2>3. IsFiniteSet(Fibers(M, Ptr, keys))
    BY <2>2, PartsAreFinite
  <2>4. QED
    BY <2>1, <2>2, <2>3, SumInt
<1>3. Held(pool, f, keys) \in Int
  BY SumsAreInt
<1>4. PICK p \in Int, x \in Int :
         p = Held(pool, f, keys) /\ x = SumFunctionOnSet(Weight(f), Fibers(M, Ptr, keys))
  BY <1>2, <1>3
<1>5. (p - x) + x = p
  OBVIOUS
<1>6. QED
  BY <1>1, <1>4, <1>5, ShiftHeld

(* One gap for each of some requests.                                        *)
LEMMA GapSum ==
    ASSUME NEW f \in Columns, NEW T \in SUBSET Requests, NEW tab,
           \A q \in Requests : tab[q] = IF q \in T THEN OneGap(f) ELSE 0
    PROVE  SumFunctionOnSet(tab, Requests) = FieldOf(Amount(0, 0, Cardinality(T)), f)
<1>1. IsFiniteSet(Requests) /\ IsFiniteSet(T) /\ Cardinality(T) \in Nat
  BY PartsAreFinite, FS_CardinalityType
<1>2. CASE f = "gaps"
  <2>1. OneGap(f) = 1 /\ FieldOf(Amount(0, 0, Cardinality(T)), f) = Cardinality(T)
    BY <1>2, FieldOfAmount DEF OneGap
  <2> DEFINE ones == [q \in T |-> 1]
  <2>2. \A q \in T : ones[q] = 1
    OBVIOUS
  <2> HIDE DEF ones
  <2>3. \A q \in T : ones[q] \in Int
    BY <2>2
  <2>4. \A q \in Requests : tab[q] = IF q \in T THEN ones[q] ELSE 0
    BY <2>1, <2>2
  <2>5. SumFunctionOnSet(ones, T) = SumFunctionOnSet(tab, Requests)
    BY <1>1, <2>3, <2>4, SumPart
  <2>6. SumFunctionOnSet(ones, T) = Cardinality(T)
    BY <1>1, <2>2, SumOnes
  <2>7. QED
    BY <2>1, <2>5, <2>6
<1>3. CASE f # "gaps"
  <2>1. OneGap(f) = 0 /\ FieldOf(Amount(0, 0, Cardinality(T)), f) = 0
    BY <1>3, FieldOfAmount DEF OneGap, Columns
  <2>2. \A q \in Requests : tab[q] = 0
    BY <2>1
  <2>3. QED
    BY <1>1, <2>1, <2>2, SumZero
<1>4. QED
  BY <1>2, <1>3

(* Requests that become gaps.                                                *)
LEMMA GapDues ==
    ASSUME Rows, NEW f \in Columns, NEW keys \in SUBSET Keys, NEW T \in SUBSET Requests, NEW in \in BOOLEAN,
           \A q \in Requests :
              DueNext(f, keys, q) = Due(f, keys, q) + (IF in /\ q \in T THEN OneGap(f) ELSE 0)
    PROVE  RequestsDue(f, keys)' =
               RequestsDue(f, keys) + (IF in THEN FieldOf(Amount(0, 0, Cardinality(T)), f) ELSE 0)
<1> DEFINE tab == [q \in Requests |-> IF in /\ q \in T THEN OneGap(f) ELSE 0]
<1>1. \A q \in Requests : tab[q] = IF in /\ q \in T THEN OneGap(f) ELSE 0
  OBVIOUS
<1> HIDE DEF tab
<1>2. OneGap(f) \in Int
  BY FieldOfAmount DEF OneGap, Columns
<1>3. \A q \in Requests : /\ DueTab(f, keys)[q] \in Nat /\ DueTab(f, keys)[q] = Due(f, keys, q)
                          /\ DueTabNext(f, keys)[q] = DueNext(f, keys, q) /\ DueTabNext(f, keys)[q] \in Nat
  BY SumsAreInt, SumsNext
<1>4. \A q \in Requests : /\ DueTab(f, keys)[q] \in Int /\ tab[q] \in Int
                          /\ DueTabNext(f, keys)[q] = DueTab(f, keys)[q] + tab[q]
  BY <1>1, <1>2, <1>3
<1>5. SumFunctionOnSet(DueTabNext(f, keys), Requests)
          = SumFunctionOnSet(DueTab(f, keys), Requests) + SumFunctionOnSet(tab, Requests)
  <2>1. \A q \in Requests : /\ DueTab(f, keys)[q] \in Int /\ tab[q] \in Int
                            /\ DueTabNext(f, keys)[q] = DueTab(f, keys)[q] + tab[q]
    BY <1>4
  <2>2. QED
    BY <2>1, PartsAreFinite, SumPlus
<1>6. SumFunctionOnSet(tab, Requests) = IF in THEN FieldOf(Amount(0, 0, Cardinality(T)), f) ELSE 0
  <2>1. CASE in
    BY <1>1, <2>1, GapSum
  <2>2. CASE ~ in
    <3>1. \A q \in Requests : tab[q] = 0
      BY <1>1, <2>2
    <3>2. QED
      BY <2>2, <3>1, PartsAreFinite, SumZero
  <2>3. QED
    BY <2>1, <2>2
<1>7. QED
  BY <1>5, <1>6, SumsNext, SumsAreInt

(* What the requests of a finalized group are due.                           *)
LEMMA FinalizeDues ==
    ASSUME Rows, NEW g \in Groups, FinalizeGroup(g), NEW f \in Columns, NEW keys \in SUBSET Keys, NEW q \in Requests
    PROVE  DueNext(f, keys, q) = Due(f, keys, q)
               + (IF GapKey(CommitsOf(g)) \in keys /\ q \in WithStatus(g, "failed") THEN OneGap(f) ELSE 0)
<1>1. TypeOK /\ group[g].state = "hot"
  BY RowsFacts, FinalizeFacts
<1>2. GroupGoes(g, "final", group[g].alloc, group[g].usage)
  BY <1>1, ExpiryGroupGoes
<1>3. claim'[q].status = claim[q].status
  BY FinalizeFacts DEF ClaimsGo, Status
<1>4. Due(f, keys, q) \in Nat /\ OneGap(f) \in Nat
  <2>1. Due(f, keys, q) \in Nat
    BY SumsAreInt
  <2>2. OneGap(f) \in Nat
    BY FieldOfAmount DEF OneGap, Columns
  <2>3. QED
    BY <2>1, <2>2
<1>5. CASE q \in WithStatus(g, "failed")
  <2>1. claim[q].status = "failed" /\ GroupOf[q] = g
    BY <1>5, WithStatusFacts
  <2>2. Due(f, keys, q) = 0
    BY <1>1, <2>1, NotDue
  <2>3. group'[g].state = "final" /\ group'[g].alloc = group[g].alloc
    BY <1>2 DEF GroupGoes
  <2>4. DueNext(f, keys, q) = IF GapKey(CommitsOf(g)) \in keys THEN OneGap(f) ELSE 0
    BY <1>3, <2>1, <2>3 DEF DueNext, DueAs, CommitsOf
  <2>5. QED
    BY <1>4, <1>5, <2>2, <2>4
<1>6. CASE q \notin WithStatus(g, "failed")
  <2>1. DueNext(f, keys, q) = Due(f, keys, q)
    <3>1. CASE GroupOf[q] # g
      <4>1. group'[GroupOf[q]] = group[GroupOf[q]]
        BY <1>2, <3>1, CountedIs DEF GroupGoes
      <4>2. QED
        BY <1>3, <4>1, SameDue
    <3>2. CASE GroupOf[q] = g
      <4>1. claim[q].status # "failed"
        BY <1>6, <3>2 DEF WithStatus, Members
      <4>2. group'[g].alloc = group[g].alloc
        BY <1>2 DEF GroupGoes
      <4>3. QED
        BY <1>3, <3>2, <4>1, <4>2, DueIs DEF DueNext, DueAs
    <3>3. QED
      BY <3>1, <3>2
  <2>2. QED
    BY <1>4, <1>6, <2>1
<1>7. QED
  BY <1>5, <1>6

LEMMA FinalizeHeld ==
    ASSUME Tables, Lines, NEW g \in Groups, FinalizeGroup(g), NEW f \in Columns, NEW keys \in SUBSET Keys,
           Closed(keys)
    PROVE  Held(pool', f, keys) = Held(pool, f, keys)
               + (IF GapKey(CommitsOf(g)) \in keys THEN FieldOf(GapsOf(g), f) ELSE 0)
<1> DEFINE done == WithStatus(g, "reconciled")
           key == KeyOf(g)
           gap == GapKey(CommitsOf(g))
           M == Movers(done, key)
           mid == Shift(M, To(key))
<1>1. Rows /\ TypeOK /\ group[g].state = "hot"
  BY LinesFacts, RowsFacts, FinalizeFacts
<1>2. /\ key \in Keys /\ gap \in Keys /\ MayMaterialize(done, key)
      /\ mid \in [Keys -> Amounts] /\ pool' \in [Keys -> Amounts]
      /\ \A k \in Keys : pool'[k] = IF k = gap THEN Plus(mid[k], GapsOf(g)) ELSE mid[k]
  BY <1>1, FinalizeFacts
<1>3. done \in SUBSET Requests /\ \A q \in done : claim[q].status = "reconciled" /\ GroupOf[q] = g
  BY WithStatusFacts
<1>4. M \in SUBSET Requests /\ \A q \in M : q \in done /\ To(key)[q] = key /\ claim[q].ptr # GonePool
  BY <1>1, <1>2, <1>3, MaterializedShifts
<1> HIDE DEF done, key, M
<1>5. \A q \in M : claim[q].ptr \in keys <=> To(key)[q] \in keys
  <2> SUFFICES ASSUME NEW q \in M
               PROVE  claim[q].ptr \in keys <=> To(key)[q] \in keys
    OBVIOUS
  <2>1. q \in Requests /\ Counted(q) /\ claim[q].ptr # GonePool
    BY <1>1, <1>3, <1>4, CountedIs
  <2>2. claim[q].ptr \in keys <=> KeyOf(GroupOf[q]) \in keys
    BY <2>1, FitsIn
  <2>3. QED
    BY <1>3, <1>4, <2>2 DEF key
<1>6. Held(mid, f, keys) = Held(pool, f, keys)
  BY <1>1, <1>4, <1>5, SameHeld
<1> HIDE DEF mid, gap
<1>7. GapsOf(g) \in Amounts
  BY GapsFacts
<1>8. \A x \in Amounts : FieldOf(x, f) \in Nat
  BY FieldOfType
<1>9. DifferAt(gap, f, mid, pool')
  BY <1>2, <1>8 DEF DifferAt
<1>10. Held(pool', f, keys) = Held(mid, f, keys)
          + (IF gap \in keys THEN FieldOf(pool'[gap], f) - FieldOf(mid[gap], f) ELSE 0)
  BY <1>2, <1>9, OneHeld
<1>11. FieldOf(pool'[gap], f) - FieldOf(mid[gap], f) = FieldOf(GapsOf(g), f)
  <2>1. pool'[gap] = Plus(mid[gap], GapsOf(g)) /\ mid[gap] \in Amounts
    BY <1>2
  <2>2. FieldOf(pool'[gap], f) = FieldOf(mid[gap], f) + FieldOf(GapsOf(g), f)
    BY <2>1, FieldOfPlus
  <2>3. FieldOf(mid[gap], f) \in Nat /\ FieldOf(GapsOf(g), f) \in Nat
    BY <1>7, <1>8, <2>1
  <2>4. QED
    BY <2>2, <2>3
<1>12. QED
  BY <1>6, <1>10, <1>11 DEF gap

LEMMA FinalizeMatch ==
    ASSUME Tables, Lines, Rows', NEW g \in Groups, FinalizeGroup(g), NEW f \in Columns,
           NEW keys \in SUBSET Keys, Closed(keys)
    PROVE  Matches(f, keys)
<1>1. Rows /\ TypeOK /\ group[g].state = "hot"
  BY LinesFacts, RowsFacts, FinalizeFacts
<1>2. RewriteWaits
  BY <1>1, OthersWait DEF Expiry
<1> DEFINE in == GapKey(CommitsOf(g)) \in keys
           T == WithStatus(g, "failed")
           n == FieldOf(GapsOf(g), f)
<1>3. T \in SUBSET Requests
  BY WithStatusFacts
<1>4. RequestsDue(f, keys)' = RequestsDue(f, keys) + (IF in THEN n ELSE 0)
  <2>1. in \in BOOLEAN
    OBVIOUS
  <2>2. \A q \in Requests : DueNext(f, keys, q) = Due(f, keys, q) + (IF in /\ q \in T THEN OneGap(f) ELSE 0)
    BY <1>1, FinalizeDues
  <2> HIDE DEF in, T
  <2>3. RequestsDue(f, keys)' =
            RequestsDue(f, keys) + (IF in THEN FieldOf(Amount(0, 0, Cardinality(T)), f) ELSE 0)
    BY <1>1, <1>3, <2>1, <2>2, GapDues
  <2>4. QED
    BY <2>3 DEF GapsOf, T
<1>5. Held(pool, f, keys)' = Held(pool, f, keys) + (IF in THEN n ELSE 0)
  <2>1. Held(pool, f, keys)' = Held(pool', f, keys)
    BY DEF Held
  <2>2. QED
    BY <1>1, <2>1, FinalizeHeld
<1>6. LocalsDue(f, keys)' = LocalsDue(f, keys)
  <2>1. GroupGoes(g, "final", group[g].alloc, group[g].usage)
    BY <1>1, ExpiryGroupGoes
  <2>2. \A h \in Groups : /\ group'[h].alloc = group[h].alloc /\ group'[h].usage = group[h].usage
                          /\ group'[h].state = "none" <=> group[h].state = "none"
    BY <1>1, <2>1 DEF GroupGoes
  <2>3. QED
    BY <2>2, SameGroupLocals, SameLocals
<1>7. n \in Nat
  BY GapsFacts, FieldOfType
<1> HIDE DEF in, n
<1>8. PICK p \in Int, r \in Int, s \in Int :
         p = Held(pool, f, keys) /\ r = RequestsDue(f, keys) /\ s = LocalsDue(f, keys)
  BY <1>1, SumsAreInt
<1>9. (p + (IF in THEN n ELSE 0)) - p = ((r + (IF in THEN n ELSE 0)) - r) + (s - s)
      /\ r + (IF in THEN n ELSE 0) \in Int
  BY <1>7
<1>10. QED
  BY <1>1, <1>2, <1>4, <1>5, <1>6, <1>8, <1>9, WaitingMatch

LEMMA ExpiryMatch ==
    ASSUME Tables, Tables', Lines, Expiry, NEW f \in Columns, NEW keys \in SUBSET Keys, Closed(keys)
    PROVE  Matches(f, keys)
<1>1. Rows /\ Rows' /\ TypeOK
  BY RowsFacts DEF Tables
<1>2. RewriteWaits
  BY <1>1, OthersWait
<1>3. ASSUME UNCHANGED <<claim, pool>>,
             \A g \in Groups : /\ group'[g].alloc = group[g].alloc /\ group'[g].usage = group[g].usage
                               /\ group'[g].state = "none" <=> group[g].state = "none"
                               /\ group'[g].state = "final" <=> group[g].state = "final"
      PROVE  Matches(f, keys)
  <2>1. \A q \in Requests : DueNext(f, keys, q) = Due(f, keys, q)
    BY <1>3, CountedIs, SameDue
  <2>2. \A g \in LocalGroups : LocalNext(f, keys, g) = LocalDue(f, keys, g)
    BY <1>3, SameGroupLocals
  <2>3. QED
    BY <1>1, <1>2, <1>3, <2>1, <2>2, StillMatch
<1>4. ASSUME NEW g \in Groups, GrowsOld(g)
      PROVE  Matches(f, keys)
  <2>1. GroupGoes(g, "hot", group[g].alloc, group[g].usage) /\ group[g].state = "hot"
    BY <1>1, <1>4, ExpiryGroupGoes DEF GrowsOld, Hot
  <2>2. UNCHANGED <<claim, pool>>
    BY <1>4 DEF GrowsOld
  <2>3. QED
    BY <1>3, <2>1, <2>2 DEF GroupGoes
<1>5. CASE Cleanup
  <2>1. \A g \in Groups : /\ group'[g].alloc = group[g].alloc
                          /\ group'[g].usage = group[g].usage
                          /\ group'[g].state # group[g].state =>
                                group[g].state = "hot" /\ group'[g].state = "dropped"
    BY <1>1, <1>5, CleanupGoes
  <2>2. UNCHANGED <<claim, pool>>
    BY <1>5 DEF Cleanup
  <2>3. QED
    BY <1>3, <2>1, <2>2
<1>6. ASSUME NEW g \in Groups, FinalizeGroup(g)
      PROVE  Matches(f, keys)
  BY <1>1, <1>6, FinalizeMatch
<1>7. QED
  BY <1>4, <1>5, <1>6 DEF Expiry

-----------------------------------------------------------------------------
(* Rewrites                                                                  *)

(* Pools change while what is due stays.                                     *)
LEMMA PoolsMatch ==
    ASSUME Rows, NEW f \in Columns, NEW keys \in SUBSET Keys,
           \A q \in Requests : DueNext(f, keys, q) = Due(f, keys, q),
           \A g \in LocalGroups : LocalNext(f, keys, g) = LocalDue(f, keys, g),
           NEW x \in Int, NEW y \in Int, NEW z \in Int, x + y = z,
           Held(pool, f, keys)' = Held(pool, f, keys) + x,
           Held(lost, f, keys)' = Held(lost, f, keys) + y,
           Double(f, keys)' = Double(f, keys) + z
    PROVE  Matches(f, keys)
<1>1. RequestsDue(f, keys)' = RequestsDue(f, keys) /\ LocalsDue(f, keys)' = LocalsDue(f, keys)
  BY SameDues, SameLocals
<1>2. PICK p \in Int, l \in Int, r \in Int, s \in Int, d \in Int :
         /\ p = Held(pool, f, keys) /\ l = Held(lost, f, keys) /\ r = RequestsDue(f, keys)
         /\ s = LocalsDue(f, keys) /\ d = Double(f, keys)
  BY SumsAreInt
<1>3. ((p + x) - p) + ((l + y) - l) = (r - r) + (s - s) + ((d + z) - d)
  OBVIOUS
<1>4. QED
  BY <1>1, <1>2, <1>3 DEF Matches

DoubleNext(f, keys) == IF rw'.pc = "delete" /\ rw'.key \in keys THEN FieldOf(rw'.sum, f) ELSE 0

LEMMA DoubleIs ==
    ASSUME NEW f, NEW keys
    PROVE  Double(f, keys)' = DoubleNext(f, keys)
BY DEF Double, DoubleNext, FieldOf

(* Pools of one line are together in these pools or not.                     *)
LEMMA SameLine ==
    ASSUME NEW keys, Closed(keys), NEW j \in Keys, NEW k \in Keys, Resolved(j) = Resolved(k)
    PROVE  j \in keys <=> k \in keys
BY DEF Closed

LEMMA NewKeyResolves ==
    ASSUME Tables, Lines, rw.pc # "idle", NEW g \in Groups, group[g].state # "none"
    PROVE  /\ NewKey(g) \in Keys /\ KeyOf(g) \in Keys
           /\ Resolved(NewKey(g)) = Resolved(KeyOf(g))
<1>1. Rows /\ TypeOK /\ Started
  BY LinesFacts, RowsFacts
<1>2. /\ KeyOf(g) \in Keys /\ KeyOf(g).commits = CommitsOf(g) /\ KeyOf(g).gap = FALSE
      /\ CommitsOf(g) \in SUBSET Commits
  BY <1>1, KeyOfGroup
<1>3. /\ Replaced(g) \in Seq(Commits) /\ Replaced(g) # <<>>
      /\ ToSet(Replaced(g)) = Renamed(CommitsOf(g), rw.old, rw.new)
  BY <1>1, ReplacedFacts DEF Started
<1>4. NewKey(g) \in Keys /\ NewKey(g).commits = ToSet(Replaced(g)) /\ NewKey(g).gap = FALSE
  BY <1>3, SetOfCommits, KeyFacts DEF NewKey
<1>5. {Terminal(lineage, c) : c \in NewKey(g).commits} = {Terminal(lineage, c) : c \in KeyOf(g).commits}
  BY <1>2, <1>3, <1>4, RenamedResolves
<1>6. NewKey(g) \in Ptrs /\ KeyOf(g) \in Ptrs
  BY <1>2, <1>4 DEF Ptrs
<1>7. QED
  BY <1>2, <1>4, <1>5, <1>6, ResolvedFacts

LEMMA RewriteGroupsMatch ==
    ASSUME Tables, Lines, RewriteRows, RewriteGroups, NEW f \in Columns, NEW keys \in SUBSET Keys, Closed(keys)
    PROVE  Matches(f, keys)
<1>1. Rows /\ TypeOK /\ Started /\ NoneBeforeGroup
  BY LinesFacts, RowsFacts
<1>2. /\ rw.pc = "groups" /\ rw'.pc = "pools" /\ ~ rw.raced /\ UNCHANGED lost
      /\ \A q \in Requests : claim'[q].status = claim[q].status
  BY <1>1, RewriteGroupsFacts DEF ClaimsGo, Status
<1>3. \A g \in Groups : /\ group'[g].state = group[g].state
                        /\ group'[g].usage = group[g].usage
                        /\ group'[g].alloc = IF g \in rw.targets THEN Replaced(g) ELSE group[g].alloc
  BY <1>1, RewriteGroupsGoes
<1>4. \A g \in rw.targets : g \in Groups /\ group[g].state = "hot"
  BY <1>1, <1>2, RewriteFacts, TargetFacts
<1>5. ASSUME NEW g \in rw.targets
      PROVE  /\ NewKey(g) \in Keys /\ KeyOf(g) \in Keys /\ KeyNext(g) = NewKey(g)
             /\ NewKey(g) \in keys <=> KeyOf(g) \in keys
  <2>1. NewKey(g) \in Keys /\ KeyOf(g) \in Keys /\ Resolved(NewKey(g)) = Resolved(KeyOf(g))
    BY <1>2, <1>4, NewKeyResolves
  <2>2. KeyNext(g) = NewKey(g)
    BY <1>3, <1>4 DEF KeyNext, NewKey
  <2>3. QED
    BY <2>1, <2>2, SameLine
<1>6. ASSUME NEW q \in Requests
      PROVE  DueNext(f, keys, q) = Due(f, keys, q)
  <2>1. CASE GroupOf[q] \notin rw.targets
    BY <1>2, <1>3, <2>1, CountedIs, SameDue
  <2>2. CASE GroupOf[q] \in rw.targets /\ claim[q].status = "reconciled"
    BY <1>2, <1>5, <2>2, CountedDue
  <2>3. CASE GroupOf[q] \in rw.targets /\ claim[q].status # "reconciled"
    <3>1. group[GroupOf[q]].state # "final" /\ group'[GroupOf[q]].state # "final"
      BY <1>3, <1>4, <2>3
    <3>2. QED
      BY <1>2, <2>3, <3>1, NotDue
  <2>4. QED
    BY <2>1, <2>2, <2>3
<1>7. ASSUME NEW g \in LocalGroups
      PROVE  LocalNext(f, keys, g) = LocalDue(f, keys, g)
  <2>1. g \in Groups
    BY DEF Groups
  <2>2. CASE g \notin rw.targets
    BY <1>3, <2>1, <2>2, LocalIs DEF LocalNext
  <2>3. CASE g \in rw.targets
    <3>1. /\ group'[g].state = group[g].state /\ group'[g].usage = group[g].usage
          /\ KeyNext(g) \in keys <=> KeyOf(g) \in keys
      BY <1>3, <1>5, <2>1, <2>3
    <3>2. QED
      BY <3>1, LocalIs DEF LocalNext, LocalAs, KeyNext, KeyOf, CommitsOf
  <2>4. QED
    BY <2>2, <2>3
<1>8. Held(pool, f, keys)' = Held(pool, f, keys)
  <2>1. pool' = Shift(Moved, ToNew) /\ Moved \in SUBSET Requests
    BY <1>1, MovedFacts
  <2>2. ASSUME NEW q \in Moved
        PROVE  claim[q].ptr \in keys <=> ToNew[q] \in keys
    <3>1. /\ claim[q].status = "reconciled" /\ GroupOf[q] \in rw.targets /\ q \in Requests
          /\ claim[q].ptr \in Keys /\ ToNew[q] = NewKey(GroupOf[q])
      BY <1>1, MovedFacts
    <3>2. Counted(q)
      BY <1>4, <3>1, CountedIs
    <3>3. claim[q].ptr # GonePool
      BY <3>1, KeyFacts
    <3>4. claim[q].ptr \in keys <=> KeyOf(GroupOf[q]) \in keys
      BY <3>1, <3>2, <3>3, FitsIn
    <3>5. QED
      BY <1>5, <3>1, <3>4
  <2>3. Held(Shift(Moved, ToNew), f, keys) = Held(pool, f, keys)
    BY <1>1, <2>1, <2>2, SameHeld
  <2>4. Held(pool, f, keys)' = Held(pool', f, keys)
    BY DEF Held
  <2>5. QED
    BY <2>1, <2>3, <2>4
<1>9. Held(lost, f, keys)' = Held(lost, f, keys)
  BY <1>2 DEF Held
<1>10. Double(f, keys)' = 0 /\ Double(f, keys) = 0
  BY <1>2, DoubleIs DEF DoubleNext, Double
<1>11. PICK p \in Int, l \in Int : p = Held(pool, f, keys) /\ l = Held(lost, f, keys)
  BY <1>1, SumsAreInt
<1>12. p = p + 0 /\ l = l + 0 /\ 0 = 0 + 0
  OBVIOUS
<1>13. QED
  BY <1>1, <1>6, <1>7, <1>8, <1>9, <1>10, <1>11, <1>12, PoolsMatch

(* Turns and outcomes stay, and with them what is due.                       *)
LEMMA StillDue ==
    ASSUME UNCHANGED group, \A q \in Requests : claim'[q].status = claim[q].status,
           NEW f \in Columns, NEW keys
    PROVE  /\ \A q \in Requests : DueNext(f, keys, q) = Due(f, keys, q)
           /\ \A g \in LocalGroups : LocalNext(f, keys, g) = LocalDue(f, keys, g)
<1>1. \A q \in Requests : DueNext(f, keys, q) = Due(f, keys, q)
  BY SameDue
<1>2. \A g \in LocalGroups : LocalNext(f, keys, g) = LocalDue(f, keys, g)
  BY SameGroupLocals
<1>3. QED
  BY <1>1, <1>2

LEMMA PlainMatch ==
    ASSUME Rows, UNCHANGED <<group, claim, pool, lost>>, rw.pc # "delete", rw'.pc # "delete",
           NEW f \in Columns, NEW keys \in SUBSET Keys
    PROVE  Matches(f, keys)
<1>1. /\ \A q \in Requests : DueNext(f, keys, q) = Due(f, keys, q)
      /\ \A g \in LocalGroups : LocalNext(f, keys, g) = LocalDue(f, keys, g)
  BY StillDue
<1>2. Held(pool, f, keys)' = Held(pool, f, keys) /\ Held(lost, f, keys)' = Held(lost, f, keys)
  BY DEF Held
<1>3. Double(f, keys)' = 0 /\ Double(f, keys) = 0
  BY DoubleIs DEF DoubleNext, Double
<1>4. PICK p \in Int, l \in Int : p = Held(pool, f, keys) /\ l = Held(lost, f, keys)
  BY SumsAreInt
<1>5. p = p + 0 /\ l = l + 0 /\ 0 = 0 + 0
  OBVIOUS
<1>6. QED
  BY <1>1, <1>2, <1>3, <1>4, <1>5, PoolsMatch

LEMMA MoveMatch ==
    ASSUME Tables, Lines, Rows', MovePool, NEW f \in Columns, NEW keys \in SUBSET Keys, Closed(keys)
    PROVE  Matches(f, keys)
<1>1. Rows /\ TypeOK
  BY LinesFacts, RowsFacts
<1>2. /\ rw.pc = "move" /\ rw'.pc = "delete" /\ rw'.key = rw.key /\ rw'.sum = rw.sum
      /\ pool' = Given(pool, Target, Plus(pool[Target], rw.sum)) /\ UNCHANGED <<group, lost>>
      /\ \A q \in Requests : claim'[q].status = claim[q].status
  BY <1>1, MoveFacts DEF ClaimsGo, Status
<1>3. Target \in Keys /\ rw.key \in Keys /\ rw.sum \in Amounts
  BY <1>1, TargetFacts
<1>4. Target \in keys <=> rw.key \in keys
  BY <1>2, <1>3, TargetResolves, SameLine
<1>5. /\ \A q \in Requests : DueNext(f, keys, q) = Due(f, keys, q)
      /\ \A g \in LocalGroups : LocalNext(f, keys, g) = LocalDue(f, keys, g)
  BY <1>2, StillDue
<1> DEFINE x == IF rw.key \in keys THEN FieldOf(rw.sum, f) ELSE 0
<1>6. \A y \in Amounts : FieldOf(y, f) \in Nat
  BY FieldOfType
<1>7. pool \in [Keys -> Amounts] /\ pool' \in [Keys -> Amounts]
  <2>1. pool \in [Keys -> Amounts] /\ pool[Target] \in Amounts
    BY <1>1, <1>3, RowsFacts
  <2>2. Plus(pool[Target], rw.sum) \in Amounts
    BY <1>3, <2>1, AmountFacts
  <2>3. QED
    BY <1>2, <1>3, <2>1, <2>2 DEF Given
<1>8. pool'[Target] = Plus(pool[Target], rw.sum) /\ \A j \in Keys : j # Target => pool'[j] = pool[j]
  BY <1>2, <1>3, <1>7 DEF Given
<1>9. DifferAt(Target, f, pool, pool')
  BY <1>6, <1>7, <1>8 DEF DifferAt
<1>10. FieldOf(pool'[Target], f) - FieldOf(pool[Target], f) = FieldOf(rw.sum, f)
  <2>1. FieldOf(pool'[Target], f) = FieldOf(pool[Target], f) + FieldOf(rw.sum, f)
    BY <1>8, FieldOfPlus
  <2>2. FieldOf(pool[Target], f) \in Nat /\ FieldOf(rw.sum, f) \in Nat
    BY <1>3, <1>6, <1>7
  <2>3. QED
    BY <2>1, <2>2
<1>11. Held(pool, f, keys)' = Held(pool, f, keys) + x
  <2>1. Held(pool', f, keys) = Held(pool, f, keys)
            + (IF Target \in keys THEN FieldOf(pool'[Target], f) - FieldOf(pool[Target], f) ELSE 0)
    BY <1>3, <1>9, OneHeld
  <2>2. Held(pool, f, keys)' = Held(pool', f, keys)
    BY DEF Held
  <2>3. QED
    BY <1>4, <1>10, <2>1, <2>2
<1>12. Held(lost, f, keys)' = Held(lost, f, keys) /\ Held(lost, f, keys) \in Int
  BY <1>1, <1>2, SumsAreInt DEF Held
<1>13. Double(f, keys)' = x /\ Double(f, keys) = 0
  BY <1>2, DoubleIs DEF DoubleNext, Double
<1>14. x \in Int
  BY <1>3, <1>6
<1> HIDE DEF x
<1>15. x + 0 = x /\ 0 + x = x
  BY <1>14
<1>16. PICK l \in Int : l = Held(lost, f, keys)
  BY <1>12
<1>17. l = l + 0
  OBVIOUS
<1>18. Held(lost, f, keys)' = Held(lost, f, keys) + 0 /\ Double(f, keys)' = Double(f, keys) + x
  BY <1>12, <1>13, <1>15, <1>16, <1>17
<1>19. QED
  BY <1>1, <1>5, <1>11, <1>14, <1>15, <1>18, PoolsMatch

LEMMA DeleteMatch ==
    ASSUME Tables, Lines, Rows', DeletePool, NEW f \in Columns, NEW keys \in SUBSET Keys
    PROVE  Matches(f, keys)
<1>1. Rows /\ TypeOK
  BY LinesFacts, RowsFacts
<1>2. /\ rw.pc = "delete" /\ rw'.pc = "pools"
      /\ pool' = Given(pool, rw.key, Zero)
      /\ lost' = Given(lost, rw.key, Plus(lost[rw.key], Minus(pool[rw.key], rw.sum)))
      /\ UNCHANGED group
      /\ \A q \in Requests : claim'[q].status = claim[q].status
  BY <1>1, DeleteFacts DEF ClaimsGo, Status
<1>3. rw.key \in Keys /\ rw.sum \in Amounts
  BY <1>1, TargetFacts
<1>4. /\ \A q \in Requests : DueNext(f, keys, q) = Due(f, keys, q)
      /\ \A g \in LocalGroups : LocalNext(f, keys, g) = LocalDue(f, keys, g)
  BY <1>2, StillDue
<1> DEFINE in == rw.key \in keys
           Ints == [total : Int, count : Int, gaps : Int]
<1>5. /\ \A y \in Amounts : FieldOf(y, f) \in Int
      /\ \A y \in Ints : FieldOf(y, f) \in Int
  BY FieldOfType
<1>6. /\ pool \in [Keys -> Amounts] /\ lost \in [Keys -> Ints]
      /\ pool[rw.key] \in Amounts /\ lost[rw.key] \in Ints
  BY <1>1, <1>3, RowsFacts
<1>7. /\ pool'[rw.key] = Zero /\ lost'[rw.key] = Plus(lost[rw.key], Minus(pool[rw.key], rw.sum))
      /\ \A j \in Keys : j # rw.key => pool'[j] = pool[j]
      /\ \A j \in Keys : j # rw.key => lost'[j] = lost[j]
  BY <1>2, <1>3, <1>6 DEF Given
<1>8. PICK a \in Int, b \in Int, s \in Int :
         a = FieldOf(pool[rw.key], f) /\ b = FieldOf(lost[rw.key], f) /\ s = FieldOf(rw.sum, f)
  BY <1>3, <1>5, <1>6
<1>9. FieldOf(pool'[rw.key], f) = 0 /\ FieldOf(lost'[rw.key], f) = b + (a - s)
  BY <1>7, <1>8, FieldOfZero, FieldOfPlus, FieldOfMinus
<1>10. DifferAt(rw.key, f, pool, pool') /\ DifferAt(rw.key, f, lost, lost')
  <2>1. \A j \in Keys : FieldOf(pool'[j], f) \in Int
    BY <1>5, <1>6, <1>7, <1>9
  <2>2. \A j \in Keys : FieldOf(lost'[j], f) \in Int
    BY <1>5, <1>6, <1>7, <1>9
  <2>3. QED
    BY <1>5, <1>6, <1>7, <2>1, <2>2 DEF DifferAt
<1> HIDE DEF in, Ints
<1>11. Held(pool, f, keys)' = Held(pool, f, keys) + (IF in THEN 0 - a ELSE 0)
  <2>1. Held(pool', f, keys) = Held(pool, f, keys)
            + (IF rw.key \in keys THEN FieldOf(pool'[rw.key], f) - FieldOf(pool[rw.key], f) ELSE 0)
    BY <1>3, <1>10, OneHeld
  <2>2. Held(pool, f, keys)' = Held(pool', f, keys)
    BY DEF Held
  <2>3. QED
    BY <1>8, <1>9, <2>1, <2>2 DEF in
<1>12. Held(lost, f, keys)' = Held(lost, f, keys) + (IF in THEN a - s ELSE 0)
  <2>1. Held(lost', f, keys) = Held(lost, f, keys)
            + (IF rw.key \in keys THEN FieldOf(lost'[rw.key], f) - FieldOf(lost[rw.key], f) ELSE 0)
    BY <1>3, <1>10, OneHeld
  <2>2. Held(lost, f, keys)' = Held(lost', f, keys)
    BY DEF Held
  <2>3. FieldOf(lost'[rw.key], f) - FieldOf(lost[rw.key], f) = a - s
    BY <1>8, <1>9
  <2>4. QED
    BY <2>1, <2>2, <2>3 DEF in
<1>13. Double(f, keys)' = 0 /\ Double(f, keys) = IF in THEN s ELSE 0
  BY <1>2, <1>8, DoubleIs DEF DoubleNext, Double, in
<1>14. Double(f, keys)' = Double(f, keys) + (IF in THEN 0 - s ELSE 0)
  BY <1>13
<1>15. /\ (IF in THEN 0 - a ELSE 0) + (IF in THEN a - s ELSE 0) = (IF in THEN 0 - s ELSE 0)
       /\ (IF in THEN 0 - a ELSE 0) \in Int /\ (IF in THEN a - s ELSE 0) \in Int
       /\ (IF in THEN 0 - s ELSE 0) \in Int
  OBVIOUS
<1>16. QED
  BY <1>1, <1>4, <1>11, <1>12, <1>14, <1>15, PoolsMatch

LEMMA RewritingMatch ==
    ASSUME Tables, Tables', Lines, RewriteRows, Rewriting, NEW f \in Columns, NEW keys \in SUBSET Keys, Closed(keys)
    PROVE  Matches(f, keys)
<1>1. Rows /\ Rows' /\ TypeOK
  BY RowsFacts DEF Tables
<1>2. ASSUME NEW r \in Rewrites, RewriteBegin(r)
      PROVE  Matches(f, keys)
  <2>1. rw.pc = "idle" /\ rw'.pc = "groups" /\ UNCHANGED <<group, claim, pool, lost>>
    BY <1>1, <1>2, BeginFacts DEF RewriteBegin
  <2>2. QED
    BY <1>1, <2>1, PlainMatch
<1>3. ASSUME NEW k \in Keys, ReadPool(k)
      PROVE  Matches(f, keys)
  <2>1. rw.pc = "pools" /\ rw'.pc # "delete" /\ UNCHANGED <<group, claim, pool, lost>>
    BY <1>1, <1>3, ReadPoolFacts
  <2>2. QED
    BY <1>1, <2>1, PlainMatch
<1>4. CASE RewriteFails \/ RewriteCommit
  <2>1. rw'.pc = "idle"
    BY <1>1, <1>4, EndFacts DEF RewriteFails, RewriteCommit
  <2>2. rw.pc # "delete" /\ UNCHANGED <<group, claim, pool, lost>>
    BY <1>4 DEF RewriteFails, RewriteCommit
  <2>3. QED
    BY <1>1, <2>1, <2>2, PlainMatch
<1>5. QED
  BY <1>1, <1>2, <1>3, <1>4, RewriteGroupsMatch, MoveMatch, DeleteMatch DEF Rewriting

LEMMA IngestMatch ==
    ASSUME Tables, Tables', Lines, Ingest, NEW f \in Columns, NEW keys \in SUBSET Keys, Closed(keys)
    PROVE  Matches(f, keys)
<1>1. Rows /\ Rows'
  BY DEF Tables
<1>2. QED
  BY <1>1, RelayNewMatch, RelayMoreMatch, LocalNewMatch, LocalMoreMatch DEF Ingest

LEMMA StutterMatch ==
    ASSUME Tables, UNCHANGED vars, NEW f \in Columns, NEW keys \in SUBSET Keys
    PROVE  Matches(f, keys)
<1>1. Rows
  BY DEF Tables
<1>2. UNCHANGED <<group, claim, pool, lost, rw>>
  BY DEF vars
<1>3. /\ \A q \in Requests : DueNext(f, keys, q) = Due(f, keys, q)
      /\ \A g \in LocalGroups : LocalNext(f, keys, g) = LocalDue(f, keys, g)
  BY <1>2, StillDue
<1>4. Held(pool, f, keys)' = Held(pool, f, keys) /\ Held(lost, f, keys)' = Held(lost, f, keys)
  BY <1>2 DEF Held
<1>5. Double(f, keys)' = Double(f, keys)
  BY <1>2, DoubleIs DEF DoubleNext, Double
<1>6. PICK p \in Int, l \in Int, d \in Int :
         p = Held(pool, f, keys) /\ l = Held(lost, f, keys) /\ d = Double(f, keys)
  BY <1>1, SumsAreInt
<1>7. p = p + 0 /\ l = l + 0 /\ d = d + 0 /\ 0 = 0 + 0
  OBVIOUS
<1>8. QED
  BY <1>1, <1>3, <1>4, <1>5, <1>6, <1>7, PoolsMatch

(* Whatever a step adds to the pools of a line, it adds to what is due.      *)
LEMMA NextMatch ==
    ASSUME Tables, Tables', Lines, RewriteRows, [Next]_vars, NEW f \in Columns, NEW keys \in SUBSET Keys,
           Closed(keys)
    PROVE  Matches(f, keys)
BY IngestMatch, WorkMatch, ExpiryMatch, RewritingMatch, StutterMatch DEF Next

-----------------------------------------------------------------------------
(* The balance is kept                                                       *)

ResolvedNext(k) == [k EXCEPT !.commits = {Terminal(lineage', c) : c \in @}]

ClosedNext(keys) == \A j, k \in Keys : ResolvedNext(j) = ResolvedNext(k) /\ j \in keys => k \in keys

LEMMA NextIs ==
    /\ \A k : Resolved(k)' = ResolvedNext(k)
    /\ \A keys : Closed(keys)' <=> ClosedNext(keys)
BY DEF Resolved, Closed, ResolvedNext, ClosedNext

(* Pools that are closed after a step were closed before it.                 *)
LEMMA ClosedBefore ==
    ASSUME Tables, Lines, [Next]_vars, NEW keys \in SUBSET Keys, ClosedNext(keys)
    PROVE  Closed(keys)
<1>1. CASE lineage' = lineage
  <2>1. ASSUME NEW k \in Keys
        PROVE  ResolvedNext(k) = Resolved(k)
    BY <1>1, Zenon DEF ResolvedNext, Resolved
  <2>2. QED
    BY <2>1 DEF ClosedNext, Closed
<1>2. ASSUME NEW r \in Rewrites, RewriteBegin(r)
      PROVE  Closed(keys)
  <2>1. SUFFICES ASSUME NEW j \in Keys, NEW k \in Keys, Resolved(j) = Resolved(k), j \in keys
                 PROVE  k \in keys
    BY DEF Closed
  <2>2. j \in Ptrs /\ k \in Ptrs
    BY DEF Ptrs
  <2>3. Resolved(j)' = Resolved(k)'
    BY <1>2, <2>1, <2>2, Coarser
  <2>4. ResolvedNext(j) = ResolvedNext(k)
    BY <2>3, NextIs
  <2>5. QED
    BY <2>1, <2>4 DEF ClosedNext
<1>3. Rows
  BY DEF Tables
<1>4. QED
  BY <1>1, <1>2, <1>3, NextGoesOn DEF RewriteGoesOn

BalancedFor(f, keys) == Closed(keys) => BalancedOn(f, keys)

LEMMA BalancedForStep ==
    ASSUME Tables, Tables', Lines, RewriteRows, Balanced, [Next]_vars,
           NEW f \in Columns, NEW keys \in SUBSET Keys
    PROVE  BalancedFor(f, keys)'
<1>1. CASE ClosedNext(keys)
  <2>1. Closed(keys)
    BY <1>1, ClosedBefore
  <2>2. BalancedOn(f, keys)
    BY <2>1 DEF Balanced
  <2>3. Matches(f, keys)
    BY <2>1, NextMatch
  <2>4. Rows /\ Rows'
    BY DEF Tables
  <2>5. BalancedOn(f, keys)'
    BY <2>2, <2>3, <2>4, MatchBalances
  <2>6. QED
    BY <2>5 DEF BalancedFor
<1>2. CASE ~ ClosedNext(keys)
  BY <1>2, NextIs DEF BalancedFor
<1>3. QED
  BY <1>1, <1>2

LEMMA BalancedIs ==
    Balanced <=> \A f \in Columns : \A keys \in SUBSET Keys : BalancedFor(f, keys)
BY DEF Balanced, BalancedFor

LEMMA BalancedStep ==
    ASSUME Tables, Tables', Lines, RewriteRows, Balanced, [Next]_vars
    PROVE  Balanced'
<1>1. \A f \in Columns : \A keys \in SUBSET Keys : BalancedFor(f, keys)'
  BY BalancedForStep
<1>2. (\A f \in Columns : \A keys \in SUBSET Keys : BalancedFor(f, keys))'
  BY <1>1
<1>3. QED
  BY <1>2, BalancedIs, PTL

LEMMA BalancedBegin ==
    ASSUME Init
    PROVE  Balanced
<1> SUFFICES ASSUME NEW f \in Columns, NEW keys \in SUBSET Keys
             PROVE  BalancedOn(f, keys)
  BY DEF Balanced
<1>1. IsFiniteSet(keys) /\ IsFiniteSet(Requests) /\ IsFiniteSet(LocalGroups)
  BY PartsAreFinite
<1>2. \A k \in Keys : FieldOf(pool[k], f) = 0 /\ FieldOf(lost[k], f) = 0
  BY FieldOfZero DEF Init
<1>3. Held(pool, f, keys) = 0 /\ Held(lost, f, keys) = 0
  <2> DEFINE a == [k \in Keys |-> FieldOf(pool[k], f)]
             b == [k \in Keys |-> FieldOf(lost[k], f)]
  <2>1. \A k \in keys : a[k] = 0 /\ b[k] = 0
    BY <1>2
  <2> HIDE DEF a, b
  <2>2. SumFunctionOnSet(a, keys) = 0 /\ SumFunctionOnSet(b, keys) = 0
    BY <1>1, <2>1, SumZero
  <2>3. QED
    BY <2>2 DEF a, b, Held
<1>4. RequestsDue(f, keys) = 0
  <2>1. \A q \in Requests : Due(f, keys, q) = 0
    BY NotDue DEF Init
  <2>2. \A q \in Requests : DueTab(f, keys)[q] = 0
    BY <2>1 DEF DueTab
  <2>3. SumFunctionOnSet(DueTab(f, keys), Requests) = 0
    BY <1>1, <2>2, SumZero
  <2>4. QED
    BY <2>3 DEF DueTab, RequestsDue
<1>5. LocalsDue(f, keys) = 0
  <2>1. \A g \in LocalGroups : group[g].state = "none"
    BY DEF Init, Groups
  <2>2. \A g \in LocalGroups : LocalTab(f, keys)[g] = 0
    BY <2>1, LocalIs DEF LocalTab, LocalAs
  <2>3. SumFunctionOnSet(LocalTab(f, keys), LocalGroups) = 0
    BY <1>1, <2>2, SumZero
  <2>4. QED
    BY <2>3 DEF LocalTab, LocalsDue
<1>6. Double(f, keys) = 0
  BY DEF Double, Init
<1>7. QED
  BY <1>3, <1>4, <1>5, <1>6 DEF BalancedOn

-----------------------------------------------------------------------------
(* What is owed is what is due                                               *)

LEMMA SameAmount ==
    ASSUME NEW a, NEW b, NEW c, NEW d, NEW e, NEW g,
           \A f \in Columns : FieldOf(Amount(a, b, c), f) = FieldOf(Amount(d, e, g), f)
    PROVE  Amount(a, b, c) = Amount(d, e, g)
<1>1. FieldOf(Amount(a, b, c), "total") = FieldOf(Amount(d, e, g), "total")
      /\ FieldOf(Amount(a, b, c), "count") = FieldOf(Amount(d, e, g), "count")
      /\ FieldOf(Amount(a, b, c), "gaps") = FieldOf(Amount(d, e, g), "gaps")
  BY DEF Columns
<1>2. a = d /\ b = e /\ c = g
  BY <1>1, FieldOfAmount
<1>3. QED
  BY <1>2

LEMMA SumOfColumn ==
    ASSUME NEW pools, NEW keys \in SUBSET Keys, NEW f \in Columns,
           NEW col, DOMAIN col = keys, \A k \in keys : col[k] = FieldOf(pools[k], f)
    PROVE  SumFunction(col) = Held(pools, f, keys)
<1> DEFINE all == [k \in Keys |-> FieldOf(pools[k], f)]
<1>1. \A k \in keys : col[k] = all[k]
  OBVIOUS
<1> HIDE DEF all
<1>2. SumFunctionOnSet(col, keys) = SumFunctionOnSet(all, keys)
  BY <1>1, PartsAreFinite, SumSame
<1>3. SumFunction(col) = SumFunctionOnSet(col, keys)
  BY DEF SumFunction, SumFunctionOnSet, FoldFunction
<1>4. QED
  BY <1>2, <1>3 DEF all, Held

LEMMA SumField ==
    ASSUME NEW pools, NEW keys \in SUBSET Keys, NEW f \in Columns
    PROVE  FieldOf(Sum(pools, keys), f) = Held(pools, f, keys)
<1> DEFINE t == [k \in keys |-> pools[k].total]
           c == [k \in keys |-> pools[k].count]
           g == [k \in keys |-> pools[k].gaps]
<1>1. Sum(pools, keys) = Amount(SumFunction(t), SumFunction(c), SumFunction(g))
  BY DEF Sum
<1>2. CASE f = "total"
  <2>1. DOMAIN t = keys /\ \A k \in keys : t[k] = FieldOf(pools[k], f)
    BY <1>2 DEF FieldOf
  <2> HIDE DEF t
  <2>2. SumFunction(t) = Held(pools, f, keys)
    BY <2>1, SumOfColumn
  <2>3. QED
    BY <1>1, <1>2, <2>2, FieldOfAmount
<1>3. CASE f = "count"
  <2>1. DOMAIN c = keys /\ \A k \in keys : c[k] = FieldOf(pools[k], f)
    BY <1>3 DEF FieldOf
  <2> HIDE DEF c
  <2>2. SumFunction(c) = Held(pools, f, keys)
    BY <2>1, SumOfColumn
  <2>3. QED
    BY <1>1, <1>3, <2>2, FieldOfAmount
<1>4. CASE f = "gaps"
  <2>1. DOMAIN g = keys /\ \A k \in keys : g[k] = FieldOf(pools[k], f)
    BY <1>4 DEF FieldOf
  <2> HIDE DEF g
  <2>2. SumFunction(g) = Held(pools, f, keys)
    BY <2>1, SumOfColumn
  <2>3. QED
    BY <1>1, <1>4, <2>2, FieldOfAmount
<1>5. QED
  BY <1>2, <1>3, <1>4 DEF Columns

(* What must be counted in these pools.                                      *)
StoredIn(keys) == {q \in Requests : Reconciled(q) /\ KeyOf(GroupOf[q]) \in keys}

GapsIn(keys) == {q \in Requests : /\ claim[q].status = "failed" /\ group[GroupOf[q]].state = "final"
                                  /\ GapKey(CommitsOf(GroupOf[q])) \in keys}

LocalsIn(keys) == {g \in LocalGroups : group[g].state # "none" /\ KeyOf(g) \in keys}

LEMMA RequestsDueIs ==
    ASSUME Rows, NEW f \in Columns, NEW keys \in SUBSET Keys
    PROVE  RequestsDue(f, keys) = FieldOf(Plus(Official(StoredIn(keys)),
                                               Amount(0, 0, Cardinality(GapsIn(keys)))), f)
<1> DEFINE S == StoredIn(keys)
           T == GapsIn(keys)
           a == [q \in Requests |-> IF q \in S THEN Weight(f)[q] ELSE 0]
           b == [q \in Requests |-> IF q \in T THEN OneGap(f) ELSE 0]
<1>1. S \in SUBSET Requests /\ T \in SUBSET Requests
  BY DEF StoredIn, GapsIn
<1>2. \A q \in Requests : a[q] = (IF q \in S THEN Weight(f)[q] ELSE 0) /\ b[q] = (IF q \in T THEN OneGap(f) ELSE 0)
  OBVIOUS
<1>3. ASSUME NEW q \in Requests
      PROVE  /\ q \in S => claim[q].status = "reconciled" /\ KeyOf(GroupOf[q]) \in keys
             /\ q \in T => claim[q].status = "failed" /\ group[GroupOf[q]].state = "final"
                           /\ GapKey(CommitsOf(GroupOf[q])) \in keys
             /\ q \notin S => ~ (claim[q].status = "reconciled" /\ KeyOf(GroupOf[q]) \in keys)
             /\ q \notin T => ~ (claim[q].status = "failed" /\ group[GroupOf[q]].state = "final"
                                 /\ GapKey(CommitsOf(GroupOf[q])) \in keys)
  BY DEF StoredIn, GapsIn, Reconciled
<1> HIDE DEF S, T, a, b
<1>4. \A q \in Requests : Weight(f)[q] \in Int
  BY DueIs
<1>5. OneGap(f) \in Int
  BY FieldOfAmount DEF OneGap, Columns
<1>6. ASSUME NEW q \in Requests
      PROVE  Due(f, keys, q) = a[q] + b[q]
  <2>1. Due(f, keys, q) = IF q \in S THEN Weight(f)[q] ELSE IF q \in T THEN OneGap(f) ELSE 0
    BY <1>3, DueIs DEF DueAs, KeyOf, CommitsOf
  <2>2. ~ (q \in S /\ q \in T)
    BY <1>3
  <2>3. Weight(f)[q] \in Int
    BY <1>4
  <2>4. QED
    BY <1>2, <1>5, <2>1, <2>2, <2>3
<1>7. \A q \in Requests : DueTab(f, keys)[q] = Due(f, keys, q)
  BY DEF DueTab
<1>8. \A q \in Requests : a[q] \in Int /\ b[q] \in Int /\ DueTab(f, keys)[q] = a[q] + b[q]
  BY <1>2, <1>4, <1>5, <1>6, <1>7
<1>9. SumFunctionOnSet(DueTab(f, keys), Requests) = SumFunctionOnSet(a, Requests) + SumFunctionOnSet(b, Requests)
  BY <1>8, PartsAreFinite, SumPlus
<1>10. SumFunctionOnSet(a, Requests) = FieldOf(Official(S), f)
  <2>1. \A q \in S : Weight(f)[q] \in Int
    BY <1>1, <1>4
  <2>2. \A q \in Requests : a[q] = IF q \in S THEN Weight(f)[q] ELSE 0
    BY <1>2
  <2>3. SumFunctionOnSet(Weight(f), S) = SumFunctionOnSet(a, Requests)
    BY <1>1, <2>1, <2>2, PartsAreFinite, SumPart
  <2>4. QED
    BY <1>1, <2>3, FieldOfOfficial
<1>11. SumFunctionOnSet(b, Requests) = FieldOf(Amount(0, 0, Cardinality(T)), f)
  BY <1>1, <1>2, GapSum
<1>12. FieldOf(Plus(Official(S), Amount(0, 0, Cardinality(T))), f)
          = FieldOf(Official(S), f) + FieldOf(Amount(0, 0, Cardinality(T)), f)
  BY FieldOfPlus
<1>13. RequestsDue(f, keys) = SumFunctionOnSet(DueTab(f, keys), Requests)
  BY DEF RequestsDue, DueTab
<1>14. QED
  BY <1>9, <1>10, <1>11, <1>12, <1>13 DEF S, T

LEMMA LocalPart ==
    ASSUME NEW S \in SUBSET LocalGroups, NEW use, \A g \in S : use[g] \in Int,
           NEW tab, \A g \in LocalGroups : tab[g] = IF g \in S THEN use[g] ELSE 0
    PROVE  SumFunctionOnSet(use, S) = SumFunctionOnSet(tab, LocalGroups)
BY PartsAreFinite, SumPart

LEMMA LocalsDueIs ==
    ASSUME Rows, NEW f \in Columns, NEW keys \in SUBSET Keys,
           NEW use, use = [g \in LocalsIn(keys) |-> group[g].usage], NEW sum, sum = SumFunction(use)
    PROVE  LocalsDue(f, keys) = FieldOf(Amount(sum, sum, 0), f)
<1> DEFINE S == LocalsIn(keys)
<1>1. S \in SUBSET LocalGroups /\ IsFiniteSet(LocalGroups)
  BY PartsAreFinite DEF LocalsIn
<1>2. TypeOK
  BY RowsFacts
<1>3. \A g \in S : use[g] = group[g].usage /\ use[g] \in Int
  BY <1>1, <1>2, UsageType DEF Groups
<1>4. DOMAIN use = S
  OBVIOUS
<1>5. \A g \in LocalGroups : LocalDue(f, keys, g) = IF g \in S THEN FieldOf(Local(group[g].usage), f) ELSE 0
  BY DEF LocalDue, LocalsIn
<1>6. \A g \in LocalGroups : LocalTab(f, keys)[g] = IF g \in S THEN FieldOf(Local(group[g].usage), f) ELSE 0
  BY <1>5 DEF LocalTab
<1> HIDE DEF S
<1>7. sum = SumFunctionOnSet(use, S)
  BY <1>4 DEF SumFunction
<1>8. CASE f \in {"total", "count"}
  <2>1. FieldOf(Amount(sum, sum, 0), f) = sum
    BY <1>8, FieldOfAmount
  <2>2. \A u : FieldOf(Local(u), f) = u
    BY <1>8, FieldOfAmount DEF Local
  <2>3. \A g \in LocalGroups : LocalTab(f, keys)[g] = IF g \in S THEN use[g] ELSE 0
    BY <1>3, <1>6, <2>2
  <2>4. \A g \in S : use[g] \in Int
    BY <1>3
  <2>5. SumFunctionOnSet(use, S) = SumFunctionOnSet(LocalTab(f, keys), LocalGroups)
    BY <1>1, <2>3, <2>4, LocalPart
  <2>6. QED
    BY <1>7, <2>1, <2>5 DEF LocalsDue, LocalTab
<1>9. CASE f = "gaps"
  <2>1. FieldOf(Amount(sum, sum, 0), f) = 0
    BY <1>9, FieldOfAmount
  <2>2. \A u : FieldOf(Local(u), f) = 0
    BY <1>9, FieldOfAmount DEF Local
  <2>3. \A g \in LocalGroups : LocalTab(f, keys)[g] = 0
    BY <1>6, <2>2
  <2>4. SumFunctionOnSet(LocalTab(f, keys), LocalGroups) = 0
    BY <1>1, <2>3, SumZero
  <2>5. QED
    BY <2>1, <2>4 DEF LocalsDue, LocalTab
<1>10. QED
  BY <1>8, <1>9 DEF Columns

(* The pools of one line hold all of theirs, ...                             *)
LEMMA ExactOn ==
    ASSUME Rows, Balanced, Idle, NEW keys \in SUBSET Keys, Closed(keys),
           NEW use, use = [g \in LocalsIn(keys) |-> group[g].usage], NEW sum, sum = SumFunction(use)
    PROVE  Plus(Sum(pool, keys), Sum(lost, keys))
               = Plus(Plus(Official(StoredIn(keys)), Amount(sum, sum, 0)),
                      Amount(0, 0, Cardinality(GapsIn(keys))))
<1>1. ASSUME NEW f \in Columns
      PROVE  FieldOf(Plus(Sum(pool, keys), Sum(lost, keys)), f)
                 = FieldOf(Plus(Plus(Official(StoredIn(keys)), Amount(sum, sum, 0)),
                                Amount(0, 0, Cardinality(GapsIn(keys)))), f)
  <2> DEFINE official == Official(StoredIn(keys))
             local == Amount(sum, sum, 0)
             missing == Amount(0, 0, Cardinality(GapsIn(keys)))
  <2>1. FieldOf(Plus(Sum(pool, keys), Sum(lost, keys)), f) = Held(pool, f, keys) + Held(lost, f, keys)
    BY FieldOfPlus, SumField
  <2>2. /\ RequestsDue(f, keys) = FieldOf(official, f) + FieldOf(missing, f)
        /\ LocalsDue(f, keys) = FieldOf(local, f)
    BY RequestsDueIs, LocalsDueIs, FieldOfPlus
  <2>3. FieldOf(Plus(Plus(official, local), missing), f)
            = (FieldOf(official, f) + FieldOf(local, f)) + FieldOf(missing, f)
    BY FieldOfPlus
  <2>4. Held(pool, f, keys) + Held(lost, f, keys) = RequestsDue(f, keys) + LocalsDue(f, keys) + 0
    BY DEF Balanced, BalancedOn, Double, Idle
  <2>5. FieldOf(official, f) \in Int /\ FieldOf(missing, f) \in Int
    <3>1. StoredIn(keys) \in SUBSET Requests /\ GapsIn(keys) \in SUBSET Requests
      BY DEF StoredIn, GapsIn
    <3>2. Cardinality(GapsIn(keys)) \in Nat
      BY <3>1, PartsAreFinite, FS_CardinalityType
    <3>3. official \in Amounts /\ missing \in Amounts
      BY <3>1, <3>2, OfficialType, AmountsClosed
    <3> HIDE DEF official, missing
    <3>4. QED
      BY <3>3, FieldOfType
  <2>6. FieldOf(local, f) \in Int
    BY <2>2, SumsAreInt
  <2> HIDE DEF official, local, missing
  <2>7. PICK o \in Int, l \in Int, m \in Int :
           o = FieldOf(official, f) /\ l = FieldOf(local, f) /\ m = FieldOf(missing, f)
    BY <2>5, <2>6
  <2>8. (o + m) + l + 0 = (o + l) + m
    OBVIOUS
  <2>9. QED
    BY <2>1, <2>2, <2>3, <2>4, <2>7, <2>8 DEF official, local, missing
<1>2. PICK a, b, c : Plus(Sum(pool, keys), Sum(lost, keys)) = Amount(a, b, c)
  BY DEF Plus
<1>3. PICK d, e, g : Plus(Plus(Official(StoredIn(keys)), Amount(sum, sum, 0)),
                          Amount(0, 0, Cardinality(GapsIn(keys)))) = Amount(d, e, g)
  BY DEF Plus
<1>4. \A f \in Columns : FieldOf(Amount(a, b, c), f) = FieldOf(Amount(d, e, g), f)
  BY <1>1, <1>2, <1>3
<1>5. QED
  BY <1>2, <1>3, <1>4, SameAmount

LEMMA OwedIs ==
    ASSUME Rows, NEW k, NEW keys, keys = {j \in Keys : Resolved(j) = k},
           NEW use, use = [g \in LocalsIn(keys) |-> group[g].usage], NEW sum, sum = SumFunction(use)
    PROVE  Owed(k) = Plus(Plus(Official(StoredIn(keys)), Amount(sum, sum, 0)),
                          Amount(0, 0, Cardinality(GapsIn(keys))))
<1> DEFINE turns == {g \in Groups : group[g].state # "none" /\ Resolved(Key(CommitsOf(g))) = k}
           ends == {g \in Groups : group[g].state # "none" /\ Resolved(GapKey(CommitsOf(g))) = k}
           stored == {q \in Requests : GroupOf[q] \in turns /\ claim[q].status = "reconciled"}
           gaps == {q \in Requests : /\ GroupOf[q] \in ends /\ claim[q].status = "failed"
                                     /\ group[GroupOf[q]].state = "final"}
           locals == turns \cap LocalGroups
           counted == SumFunction([g \in locals |-> group[g].usage])
<1>1. Owed(k) = Plus(Plus(Official(stored), Amount(counted, counted, 0)), Amount(0, 0, Cardinality(gaps)))
  BY DEF Owed
<1>2. TypeOK /\ Started /\ NoneBeforeGroup
  BY RowsFacts
<1>3. ASSUME NEW g \in Groups, group[g].state # "none"
      PROVE  KeyOf(g) \in Keys /\ GapKey(CommitsOf(g)) \in Keys
  BY <1>2, <1>3, KeyOfGroup
<1>4. ASSUME NEW g \in Groups
      PROVE  /\ g \in turns <=> group[g].state # "none" /\ KeyOf(g) \in keys
             /\ g \in ends <=> group[g].state # "none" /\ GapKey(CommitsOf(g)) \in keys
  <2>1. KeyOf(g) = Key(CommitsOf(g))
    BY DEF KeyOf
  <2>2. QED
    BY <1>3, <2>1
<1> HIDE DEF turns, ends
<1>5. \A q \in Requests : GroupOf[q] \in Groups /\ (claim[q].status # "none" => group[GroupOf[q]].state # "none")
  BY <1>2, CountedIs DEF NoneBeforeGroup
<1>6. stored = StoredIn(keys)
  BY <1>4, <1>5 DEF StoredIn, Reconciled
<1>7. gaps = GapsIn(keys)
  BY <1>4, <1>5 DEF GapsIn
<1>8. locals = LocalsIn(keys)
  BY <1>4 DEF LocalsIn, Groups
<1>9. counted = sum
  BY <1>8
<1>10. QED
  BY <1>1, <1>6, <1>7, <1>9

LEMMA LineClosed ==
    ASSUME NEW k
    PROVE  Closed({j \in Keys : Resolved(j) = k}) /\ {j \in Keys : Resolved(j) = k} \in SUBSET Keys
BY DEF Closed

LEMMA Exactly ==
    ASSUME Rows, Balanced
    PROVE  AttributedExactly
<1> SUFFICES ASSUME Idle, NEW k
             PROVE  Plus(Sum(pool, {j \in Keys : Resolved(j) = k}), Sum(lost, {j \in Keys : Resolved(j) = k}))
                        = Owed(k)
  BY DEF AttributedExactly
<1>1. PICK keys : keys = {j \in Keys : Resolved(j) = k}
  OBVIOUS
<1>2. keys \in SUBSET Keys /\ Closed(keys)
  BY <1>1, LineClosed
<1>3. PICK use : use = [g \in LocalsIn(keys) |-> group[g].usage]
  OBVIOUS
<1>4. PICK sum : sum = SumFunction(use)
  OBVIOUS
<1>5. QED
  BY <1>1, <1>2, <1>3, <1>4, OwedIs, ExactOn

-----------------------------------------------------------------------------
(* The theorem                                                               *)

(* What the tables say of each other at every step.                          *)
Accounts == Tables /\ Lines /\ RewriteRows /\ Balanced

LEMMA AccountsStep ==
    ASSUME Accounts, [Next]_vars
    PROVE  Accounts'
BY TablesStep, LinesStep, RewriteRowsStep, BalancedStep DEF Accounts

LEMMA AccountsBegin ==
    ASSUME Init
    PROVE  Accounts
BY TablesBegin, LinesBegin, RewriteRowsBegin, BalancedBegin DEF Accounts

(* At every step the pools, with what a rewrite has deleted unread, hold   *)
(* what claims and turns add to their lines of commits once, and what a    *)
(* rewrite has merged and not yet deleted twice: attributionpool adds,     *)
(* moves and deletes rows one at a time and loses count of nothing.        *)
THEOREM AccountsHold == Spec => []Accounts
<1>1. Init => Accounts
  BY AccountsBegin
<1>2. Accounts /\ [Next]_vars => Accounts'
  BY AccountsStep
<1>3. QED
  BY <1>1, <1>2, PTL DEF Spec

(* Between rewrites every reconciled request, every local turn and every gap*)
(* of a finalized group is counted once, under the commits the rewrites lead*)
(* to, however materialization, appends, rewrites and finalization alternate;*)
(* what a rewrite deleted unread is the only difference.                   *)
THEOREM AttributedExactlyHolds == Spec => []AttributedExactly
<1>1. Accounts => AttributedExactly
  BY Exactly DEF Accounts, Tables
<1>2. QED
  BY <1>1, AccountsHold, PTL

-----------------------------------------------------------------------------
(* What points to pools, after a step                                        *)

UnderNext(g) ==
    IF g \in rw'.targets /\ rw'.pc \notin {"idle", "groups"}
    THEN {k \in Keys : ~ k.gap /\ Renamed(k.commits, rw'.old, rw'.new) = ToSet(group'[g].alloc)}
    ELSE {KeyNext(g)}

PointedNext(keys, q) == IF CountedNext(q) /\ KeyNext(GroupOf[q]) \in keys THEN 1 ELSE 0

InNext(keys, g) ==
    IF group'[g].state = "hot" /\ UnderNext(g) \subseteq keys THEN group'[g].usage ELSE 0

PointedTab(keys) == [q \in Requests |-> Pointed1(keys, q)]

PointedTabNext(keys) == [q \in Requests |-> PointedNext(keys, q)]

InTab(keys) == [g \in LocalGroups |-> LocalIn(keys, g)]

InTabNext(keys) == [g \in LocalGroups |-> InNext(keys, g)]

LEMMA PointedIs ==
    ASSUME NEW keys
    PROVE  /\ \A q \in Requests :
                 /\ Pointed1(keys, q) = IF Counted(q) /\ KeyOf(GroupOf[q]) \in keys THEN 1 ELSE 0
                 /\ Pointed1(keys, q)' = PointedNext(keys, q)
                 /\ Pointed1(keys, q) \in Nat /\ PointedNext(keys, q) \in Nat
           /\ PointersIn(keys) = SumFunctionOnSet(PointedTab(keys), Requests)
           /\ PointersIn(keys)' = SumFunctionOnSet(PointedTabNext(keys), Requests)
           /\ \A q \in Requests : /\ PointedTab(keys)[q] = Pointed1(keys, q)
                                  /\ PointedTabNext(keys)[q] = PointedNext(keys, q)
<1>1. \A q \in Requests : Pointed1(keys, q)' = PointedNext(keys, q)
  BY CountedIs DEF Pointed1, PointedNext, KeyNext, KeyOf, Key, CommitsOf
<1>2. PointedTabNext(keys) = [q \in Requests |-> Pointed1(keys, q)']
  BY <1>1 DEF PointedTabNext
<1>3. PointersIn(keys)' = SumFunctionOnSet(PointedTabNext(keys), Requests)
  BY <1>2 DEF PointersIn
<1>4. PointersIn(keys) = SumFunctionOnSet(PointedTab(keys), Requests)
  BY DEF PointersIn, PointedTab
<1>5. \A q \in Requests : /\ PointedTab(keys)[q] = Pointed1(keys, q)
                          /\ PointedTabNext(keys)[q] = PointedNext(keys, q)
  BY DEF PointedTab, PointedTabNext
<1>6. \A q \in Requests :
         /\ Pointed1(keys, q) = IF Counted(q) /\ KeyOf(GroupOf[q]) \in keys THEN 1 ELSE 0
         /\ Pointed1(keys, q) \in Nat /\ PointedNext(keys, q) \in Nat
  BY DEF Pointed1, PointedNext
<1>7. QED
  BY <1>1, <1>3, <1>4, <1>5, <1>6

LEMMA UnderIs ==
    ASSUME NEW g
    PROVE  /\ Under(g)' = UnderNext(g)
           /\ Under(g) = IF g \in rw.targets /\ rw.pc \notin {"idle", "groups"}
                         THEN {k \in Keys : ~ k.gap /\ Renamed(k.commits, rw.old, rw.new) = ToSet(group[g].alloc)}
                         ELSE {KeyOf(g)}
BY DEF Under, UnderNext, Locked, KeyNext, KeyOf, Key, CommitsOf, Renamed

LEMMA InIs ==
    ASSUME NEW keys
    PROVE  /\ \A g \in LocalGroups :
                 /\ LocalIn(keys, g) = IF group[g].state = "hot" /\ Under(g) \subseteq keys THEN group[g].usage ELSE 0
                 /\ LocalIn(keys, g)' = InNext(keys, g)
           /\ UsageIn(keys) = SumFunctionOnSet(InTab(keys), LocalGroups)
           /\ UsageIn(keys)' = SumFunctionOnSet(InTabNext(keys), LocalGroups)
           /\ \A g \in LocalGroups : /\ InTab(keys)[g] = LocalIn(keys, g)
                                     /\ InTabNext(keys)[g] = InNext(keys, g)
<1>1. \A g : Under(g)' = UnderNext(g)
  BY UnderIs
<1>2. \A g \in LocalGroups : LocalIn(keys, g)' = InNext(keys, g)
  BY <1>1 DEF LocalIn, InNext, Hot
<1>3. InTabNext(keys) = [g \in LocalGroups |-> LocalIn(keys, g)']
  BY <1>2 DEF InTabNext
<1>4. UsageIn(keys)' = SumFunctionOnSet(InTabNext(keys), LocalGroups)
  BY <1>3 DEF UsageIn
<1>5. UsageIn(keys) = SumFunctionOnSet(InTab(keys), LocalGroups)
  BY DEF UsageIn, InTab
<1>6. \A g \in LocalGroups : /\ InTab(keys)[g] = LocalIn(keys, g)
                             /\ InTabNext(keys)[g] = InNext(keys, g)
  BY DEF InTab, InTabNext
<1>7. \A g \in LocalGroups :
         LocalIn(keys, g) = IF group[g].state = "hot" /\ Under(g) \subseteq keys THEN group[g].usage ELSE 0
  BY DEF LocalIn, Hot
<1>8. QED
  BY <1>2, <1>4, <1>5, <1>6, <1>7

(* What adds less sums up to less.                                           *)
LEMMA SumLess ==
    ASSUME NEW S, IsFiniteSet(S), NEW f, NEW g, \A x \in S : f[x] \in Nat /\ g[x] \in Nat /\ f[x] <= g[x]
    PROVE  SumFunctionOnSet(f, S) <= SumFunctionOnSet(g, S)
<1> DEFINE d == [x \in S |-> g[x] - f[x]]
<1>1. \A x \in S : d[x] = g[x] - f[x]
  OBVIOUS
<1> HIDE DEF d
<1>2. \A x \in S : d[x] \in Nat
  BY <1>1
<1>3. \A x \in S : f[x] \in Int /\ d[x] \in Int /\ g[x] = f[x] + d[x]
  BY <1>1
<1>4. SumFunctionOnSet(g, S) = SumFunctionOnSet(f, S) + SumFunctionOnSet(d, S)
  BY <1>3, SumPlus
<1>5. SumFunctionOnSet(d, S) \in Nat
  BY <1>2, SumMonotone
<1>6. \A x \in S : f[x] \in Nat
  OBVIOUS
<1>7. SumFunctionOnSet(f, S) \in Nat
  BY <1>6, SumMonotone
<1>8. QED
  BY <1>4, <1>5, <1>7

LEMMA PointersType ==
    ASSUME NEW keys
    PROVE  PointersIn(keys) \in Nat /\ PointersIn(keys)' \in Nat
<1>1. \A q \in Requests : PointedTab(keys)[q] \in Nat /\ PointedTabNext(keys)[q] \in Nat
  BY PointedIs
<1>2. SumFunctionOnSet(PointedTab(keys), Requests) \in Nat
  BY <1>1, PartsAreFinite, SumMonotone
<1>3. SumFunctionOnSet(PointedTabNext(keys), Requests) \in Nat
  BY <1>1, PartsAreFinite, SumMonotone
<1>4. QED
  BY <1>2, <1>3, PointedIs

LEMMA UsageInType ==
    ASSUME TypeOK, NEW keys
    PROVE  /\ \A g \in LocalGroups : LocalIn(keys, g) \in Nat
           /\ UsageIn(keys) \in Nat
<1>1. \A g \in LocalGroups : group[g].usage \in Nat
  BY UsageType DEF Groups
<1>2. \A g \in LocalGroups : LocalIn(keys, g) \in Nat
  BY <1>1, InIs
<1>3. \A g \in LocalGroups : InTab(keys)[g] \in Nat
  BY <1>2, InIs
<1>4. SumFunctionOnSet(InTab(keys), LocalGroups) \in Nat
  BY <1>3, PartsAreFinite, SumMonotone
<1>5. QED
  BY <1>2, <1>4, InIs

LEMMA PointersLess ==
    ASSUME NEW keys, NEW other, \A q \in Requests : PointedNext(keys, q) <= Pointed1(other, q)
    PROVE  PointersIn(keys)' <= PointersIn(other)
<1>1. \A q \in Requests : /\ PointedTabNext(keys)[q] \in Nat /\ PointedTab(other)[q] \in Nat
                          /\ PointedTabNext(keys)[q] <= PointedTab(other)[q]
  BY PointedIs
<1>2. SumFunctionOnSet(PointedTabNext(keys), Requests) <= SumFunctionOnSet(PointedTab(other), Requests)
  BY <1>1, PartsAreFinite, SumLess
<1>3. QED
  BY <1>2, PointedIs

LEMMA InNextType ==
    ASSUME group' \in [Groups -> Group], NEW keys
    PROVE  \A g \in LocalGroups : InNext(keys, g) \in Nat /\ InTabNext(keys)[g] \in Nat
<1>1. \A u \in Usages \cup {0} : u \in Nat
  BY AttributionLedgerAssumption
<1>2. \A g \in LocalGroups : group'[g].usage \in Nat
  BY <1>1 DEF Group, Groups
<1>3. \A g \in LocalGroups : InNext(keys, g) \in Nat
  BY <1>2 DEF InNext
<1>4. QED
  BY <1>3, InIs

LEMMA UsageLess ==
    ASSUME TypeOK, group' \in [Groups -> Group], NEW keys, NEW other,
           \A g \in LocalGroups : InNext(keys, g) <= LocalIn(other, g)
    PROVE  UsageIn(keys)' <= UsageIn(other)
<1>1. \A g \in LocalGroups : /\ InTabNext(keys)[g] \in Nat /\ InTab(other)[g] \in Nat
                             /\ InTabNext(keys)[g] <= InTab(other)[g]
  BY InIs, InNextType, UsageInType
<1>2. SumFunctionOnSet(InTabNext(keys), LocalGroups) <= SumFunctionOnSet(InTab(other), LocalGroups)
  BY <1>1, PartsAreFinite, SumLess
<1>3. QED
  BY <1>2, InIs

LEMMA UsageNat ==
    ASSUME group' \in [Groups -> Group], NEW keys
    PROVE  UsageIn(keys)' \in Nat
<1>1. SumFunctionOnSet(InTabNext(keys), LocalGroups) \in Nat
  BY InNextType, PartsAreFinite, SumMonotone
<1>2. QED
  BY <1>1, InIs

LEMMA UsageOne ==
    ASSUME TypeOK, group' \in [Groups -> Group], NEW keys, NEW g \in LocalGroups,
           \A h \in LocalGroups : h # g => InNext(keys, h) = LocalIn(keys, h)
    PROVE  UsageIn(keys)' = UsageIn(keys) + (InNext(keys, g) - LocalIn(keys, g))
<1>1. \A h \in LocalGroups : /\ InTabNext(keys)[h] \in Int /\ InTab(keys)[h] \in Int
                             /\ InTabNext(keys)[h] = InNext(keys, h) /\ InTab(keys)[h] = LocalIn(keys, h)
  BY InIs, InNextType, UsageInType
<1>2. \A h \in LocalGroups \ {g} : InTabNext(keys)[h] = InTab(keys)[h]
  BY <1>1
<1>3. \A h \in LocalGroups : InTab(keys)[h] \in Int /\ InTabNext(keys)[h] \in Int
  BY <1>1
<1>4. SumFunctionOnSet(InTabNext(keys), LocalGroups) = SumFunctionOnSet(InTab(keys), LocalGroups)
          + (IF g \in LocalGroups THEN InTabNext(keys)[g] - InTab(keys)[g] ELSE 0)
  BY <1>2, <1>3, PartsAreFinite, SumChange
<1>5. QED
  BY <1>1, <1>4, InIs

(* Each request counts once.                                                 *)
LEMMA CountWeight ==
    \A q \in Requests : Weight("count")[q] = 1
BY WeightType, FieldOfAmount DEF Columns

LEMMA ShiftPointers ==
    ASSUME NEW keys \in SUBSET Keys, NEW M \in SUBSET Requests, NEW to,
           \A q \in Requests :
              PointedNext(keys, q) = (Pointed1(keys, q) - (IF q \in M /\ Ptr[q] \in keys THEN 1 ELSE 0))
                                     + (IF q \in M /\ to[q] \in keys THEN 1 ELSE 0)
    PROVE  PointersIn(keys)' =
               (PointersIn(keys) - SumFunctionOnSet(Weight("count"), Fibers(M, Ptr, keys)))
               + SumFunctionOnSet(Weight("count"), Fibers(M, to, keys))
<1>1. \A q \in M : Weight("count")[q] \in Int
  BY CountWeight
<1>2. \A q \in Requests : PointedTab(keys)[q] = Pointed1(keys, q) /\ Pointed1(keys, q) \in Nat
                          /\ PointedTabNext(keys)[q] = PointedNext(keys, q)
  BY PointedIs
<1>3. \A q \in Requests :
         /\ PointedTab(keys)[q] \in Int
         /\ PointedTabNext(keys)[q] =
               (PointedTab(keys)[q] - (IF q \in M /\ Ptr[q] \in keys THEN Weight("count")[q] ELSE 0))
               + (IF q \in M /\ to[q] \in keys THEN Weight("count")[q] ELSE 0)
  BY <1>2, CountWeight
<1>4. SumFunctionOnSet(PointedTabNext(keys), Requests) =
         (SumFunctionOnSet(PointedTab(keys), Requests)
          - SumFunctionOnSet(Weight("count"), Fibers(M, Ptr, keys)))
         + SumFunctionOnSet(Weight("count"), Fibers(M, to, keys))
  <2>1. PICK w, from, d, e : /\ w = Weight("count") /\ from = Ptr
                             /\ d = PointedTab(keys) /\ e = PointedTabNext(keys)
    OBVIOUS
  <2>2. \A q \in M : w[q] \in Int
    BY <1>1, <2>1
  <2>3. \A q \in Requests :
           /\ d[q] \in Int
           /\ e[q] = (d[q] - (IF q \in M /\ from[q] \in keys THEN w[q] ELSE 0))
                     + (IF q \in M /\ to[q] \in keys THEN w[q] ELSE 0)
    BY <1>3, <2>1
  <2>4. SumFunctionOnSet(e, Requests) =
            (SumFunctionOnSet(d, Requests) - SumFunctionOnSet(w, Fibers(M, from, keys)))
            + SumFunctionOnSet(w, Fibers(M, to, keys))
    BY <2>2, <2>3, PartsAreFinite, MovesDue
  <2>5. QED
    BY <2>1, <2>4
<1>5. QED
  BY <1>4, PointedIs

(* What points to pools grows by no more than what they hold.                *)
LEMMA CoverStep ==
    ASSUME Rows, Rows', NEW keys \in SUBSET Keys, NEW other \in SUBSET Keys, CoveredOn(other),
           NEW x \in Int, NEW y \in Int,
           PointersIn(keys)' <= PointersIn(other) + x,
           UsageIn(keys)' <= UsageIn(other) + y,
           Held(pool, "count", other) - Double("count", other) + x + y
               <= Held(pool, "count", keys)' - Double("count", keys)'
    PROVE  CoveredOn(keys)'
<1>1. "count" \in Columns
  BY DEF Columns
<1>2. TypeOK /\ group' \in [Groups -> Group]
  BY RowsFacts DEF Rows, TypeOK
<1>3. PICK a \in Int, b \in Int, a2 \in Int, b2 \in Int :
         /\ a = PointersIn(other) /\ b = UsageIn(other)
         /\ a2 = PointersIn(keys)' /\ b2 = UsageIn(keys)'
  BY <1>2, PointersType, UsageInType, UsageNat
<1>4. PICK h \in Int, d \in Int, h2 \in Int, d2 \in Int :
         /\ h = Held(pool, "count", other) /\ d = Double("count", other)
         /\ h2 = Held(pool, "count", keys)' /\ d2 = Double("count", keys)'
  BY <1>1, SumsAreInt, NumbersNext DEF Numbers
<1>5. a + b <= h - d
  BY <1>3, <1>4 DEF CoveredOn
<1>6. a2 <= a + x /\ b2 <= b + y /\ h - d + x + y <= h2 - d2
  BY <1>3, <1>4
<1>7. a2 + b2 <= h2 - d2
  BY <1>5, <1>6
<1>8. QED
  BY <1>3, <1>4, <1>7 DEF CoveredOn

-----------------------------------------------------------------------------
(* A rewrite alone with its old commit                                       *)

LEMMA AloneFacts ==
    ASSUME Alone
    PROVE  /\ \A k \in Keys : lost[k] = Zero
           /\ rw.pc \in {"move", "delete"} => pool[rw.key] = rw.sum
           /\ rw.pc \in {"pools", "move", "delete"} =>
                 /\ \A k \in Keys : Exists(k) /\ rw.old \in k.commits => k \in rw.todo
                 /\ \A g \in Groups : group[g].state = "hot" => rw.old \notin CommitsOf(g)
           /\ rw.pc # "idle" => \A g \in Groups : group[g].state = "hot" /\ rw.old \in CommitsOf(g) =>
                                   rw.pc = "groups" /\ g \in rw.targets
           /\ \A q \in Requests : Counted(q) => claim[q].ptr = KeyOf(GroupOf[q])
BY DEF Alone, Solo, AtHome, Taking, Writing, Idle, Hot

LEMMA SentApart ==
    ASSUME ~ overlapped', rw.pc # "idle", NEW g, NEW a, NEW x
    PROVE  /\ IngestRelayNew(g, a, x) \/ IngestRelayMore(g, a, x) => rw.old \notin ToSet(a)
           /\ IngestLocalNew(g, a, x) \/ IngestLocalMore(g, a, x) => rw.old \notin ToSet(a)
BY DEF IngestRelayNew, IngestRelayMore, IngestLocalNew, IngestLocalMore, Overlap

(* A shift leaves the pools alone that it neither takes from nor adds to.    *)
LEMMA ShiftLeaves ==
    ASSUME TypeOK, NEW M \in SUBSET Requests, NEW to, MayShift(M), NEW k \in Keys,
           \A q \in M : claim[q].ptr # k /\ to[q] # k
    PROVE  Shift(M, to)[k] = pool[k]
<1>1. From(k, M) = {} /\ Fiber(M, to, k) = {}
  BY DEF From, Fiber
<1>2. QED
  BY <1>1, ShiftFacts

OldPoolsStay ==
    \A k \in Keys : rw.old \in k.commits => pool'[k] = pool[k]

LEMMA IngestOldPools ==
    ASSUME Rows, Alone, ~ overlapped', Writing, Ingest
    PROVE  OldPoolsStay
<1>1. TypeOK /\ Started /\ NoneBeforeGroup
  BY RowsFacts
<1>2. rw.pc # "idle" /\ rw.pc \in {"pools", "move", "delete"}
  BY DEF Writing
<1>3. \A g \in Groups : group[g].state = "hot" => rw.old \notin KeyOf(g).commits
  BY <1>2, AloneFacts, KeyFacts DEF KeyOf
<1>4. ASSUME NEW k \in Keys, rw.old \in k.commits,
             NEW g \in RelayGroups, NEW a \in Snapshots(g), NEW qs \in SUBSET Members(g),
             IngestRelayNew(g, a, qs)
      PROVE  pool'[k] = pool[k]
  BY <1>4 DEF IngestRelayNew
<1>5. ASSUME NEW k \in Keys, rw.old \in k.commits,
             NEW g \in RelayGroups, NEW a \in Snapshots(g), NEW qs \in SUBSET Members(g),
             IngestRelayMore(g, a, qs)
      PROVE  pool'[k] = pool[k]
  <2> DEFINE done == WithStatus(g, "reconciled")
             key == Key(ToSet(a))
             M == Movers(done, key)
  <2>1. g \in Groups /\ group[g].state = "hot" /\ rw.old \notin ToSet(a)
    BY <1>2, <1>5, SentApart DEF Groups, IngestRelayMore, Hot
  <2>2. CASE pool' = pool
    BY <2>2
  <2>3. CASE MayMaterialize(done, key) /\ pool' = Materialized(done, key)
    <3>1. key \in Keys /\ key.gap = FALSE /\ key.commits = ToSet(a)
      BY <2>1, SnapshotFacts, SetOfCommits, KeyFacts
    <3>2. done \in SUBSET Requests /\ \A q \in done : claim[q].status = "reconciled" /\ GroupOf[q] = g
      BY WithStatusFacts
    <3>3. /\ MayShift(M) /\ pool' = Shift(M, To(key)) /\ M \in SUBSET Requests
          /\ \A q \in M : q \in done /\ To(key)[q] = key
      BY <1>1, <2>3, <3>1, <3>2, MaterializedShifts
    <3> HIDE DEF done, key, M
    <3>4. ASSUME NEW q \in M
          PROVE  claim[q].ptr # k /\ To(key)[q] # k
      <4>1. Counted(q) /\ GroupOf[q] = g
        BY <2>1, <3>2, <3>3, CountedIs
      <4>2. claim[q].ptr = KeyOf(g)
        BY <3>3, <4>1, AloneFacts
      <4>3. QED
        BY <1>3, <1>5, <2>1, <3>1, <3>3, <4>2
    <3>5. QED
      BY <1>1, <3>3, <3>4, ShiftLeaves
  <2>4. QED
    BY <1>5, <2>2, <2>3 DEF IngestRelayMore
<1>6. ASSUME NEW k \in Keys, rw.old \in k.commits,
             NEW g \in LocalGroups, NEW a \in Snapshots(g), NEW u \in Usages, IngestLocalNew(g, a, u)
      PROVE  pool'[k] = pool[k]
  <2>1. rw.old \notin ToSet(a)
    BY <1>2, <1>6, SentApart
  <2>2. k # Key(ToSet(a))
    BY <1>6, <2>1, KeyFacts
  <2>3. pool' = Given(pool, Key(ToSet(a)), Plus(pool[Key(ToSet(a))], Local(u)))
    BY <1>6 DEF IngestLocalNew, Given
  <2>4. QED
    BY <2>2, <2>3 DEF Given
<1>7. ASSUME NEW k \in Keys, rw.old \in k.commits,
             NEW g \in LocalGroups, NEW a \in Snapshots(g), NEW u \in Usages, IngestLocalMore(g, a, u)
      PROVE  pool'[k] = pool[k]
  <2>1. rw.old \notin ToSet(a) /\ g \in Groups /\ group[g].state = "hot"
    BY <1>2, <1>7, SentApart DEF IngestLocalMore, Hot, Groups
  <2>2. k # Key(ToSet(a)) /\ k # KeyOf(g)
    BY <1>3, <1>7, <2>1, KeyFacts
  <2>3. \/ pool' = pool
        \/ pool' = LocalPools(KeyOf(g), Key(ToSet(a)), group[g].usage, u)
    BY <1>7, LocalMorePools
  <2>4. QED
    BY <1>7, <2>2, <2>3 DEF LocalPools
<1>8. QED
  BY <1>4, <1>5, <1>6, <1>7 DEF Ingest, OldPoolsStay

LEMMA WorkOldPools ==
    ASSUME Rows, Alone, Writing, Work
    PROVE  OldPoolsStay
<1>1. ASSUME NEW w \in Workers, NEW q \in Requests, Reconcile(w, q), NEW k \in Keys, rw.old \in k.commits
      PROVE  pool'[k] = pool[k]
  <2> DEFINE key == KeyOf(GroupOf[q])
  <2>1. /\ group[GroupOf[q]].state = "hot" /\ claim[q].ptr = NoPool /\ key \in Keys
        /\ pool' = Shift({q}, To(key)) /\ MayShift({q}) /\ TypeOK
    BY <1>1, ReconcileFacts, RowsFacts
  <2>2. rw.old \notin key.commits
    BY <2>1, AloneFacts, CountedIs, KeyFacts DEF Writing, KeyOf
  <2>3. claim[q].ptr # k /\ To(key)[q] # k
    BY <1>1, <2>1, <2>2, KeyFacts DEF To
  <2>4. \A r \in {q} : claim[r].ptr # k /\ To(key)[r] # k
    BY <2>3
  <2>5. {q} \in SUBSET Requests
    OBVIOUS
  <2> HIDE DEF key
  <2>6. QED
    BY <1>1, <2>1, <2>4, <2>5, ShiftLeaves
<1>2. CASE pool' = pool
  BY <1>2 DEF OldPoolsStay
<1>3. \/ pool' = pool
      \/ \E w \in Workers, q \in Requests : Reconcile(w, q)
  BY DEF Work, Lease, Retry, Finish, GiveUp, LeaseExpires
<1>4. QED
  BY <1>1, <1>2, <1>3 DEF OldPoolsStay

LEMMA ExpiryOldPools ==
    ASSUME Rows, Alone, Writing, Expiry
    PROVE  OldPoolsStay
<1>1. ASSUME NEW g \in Groups, FinalizeGroup(g), NEW k \in Keys, rw.old \in k.commits
      PROVE  pool'[k] = pool[k]
  <2> DEFINE done == WithStatus(g, "reconciled")
             key == KeyOf(g)
             gap == GapKey(CommitsOf(g))
             M == Movers(done, key)
             mid == Shift(M, To(key))
  <2>1. /\ group[g].state = "hot" /\ key \in Keys /\ MayShift(M) /\ MayMaterialize(done, key)
        /\ \A j \in Keys : pool'[j] = IF j = gap THEN Plus(mid[j], GapsOf(g)) ELSE mid[j]
        /\ TypeOK
    BY <1>1, FinalizeFacts, RowsFacts
  <2>2. rw.old \notin key.commits /\ rw.old \notin gap.commits
    BY <2>1, AloneFacts, KeyFacts DEF Writing, KeyOf
  <2>3. done \in SUBSET Requests /\ \A q \in done : claim[q].status = "reconciled" /\ GroupOf[q] = g
    BY WithStatusFacts
  <2>4. M \in SUBSET Requests /\ \A q \in M : q \in done /\ To(key)[q] = key
    BY <2>1, <2>3, MaterializedShifts
  <2>5. ASSUME NEW q \in M
        PROVE  claim[q].ptr # k /\ To(key)[q] # k
    <3>1. Counted(q) /\ GroupOf[q] = g
      BY <2>1, <2>3, <2>4, CountedIs
    <3>2. claim[q].ptr = key
      BY <2>4, <3>1, AloneFacts
    <3>3. QED
      BY <1>1, <2>2, <2>4, <3>2
  <2> HIDE DEF M, key, done
  <2>6. mid[k] = pool[k]
    BY <1>1, <2>1, <2>4, <2>5, ShiftLeaves
  <2>7. QED
    BY <1>1, <2>1, <2>2, <2>6
<1>2. CASE pool' = pool
  BY <1>2 DEF OldPoolsStay
<1>3. pool' = pool \/ \E g \in Groups : FinalizeGroup(g)
  BY DEF Expiry, GrowsOld, Cleanup
<1>4. QED
  BY <1>1, <1>2, <1>3 DEF OldPoolsStay

LEMMA SoloNext ==
    ASSUME \A k \in Keys : lost'[k] = Zero,
           rw'.pc \in {"move", "delete"} => pool'[rw'.key] = rw'.sum,
           rw'.pc \in {"pools", "move", "delete"} =>
               \A k \in Keys : pool'[k].count + pool'[k].gaps > 0 /\ rw'.old \in k.commits => k \in rw'.todo,
           rw'.pc # "idle" =>
               \A g \in Groups : group'[g].state = "hot" /\ rw'.old \in ToSet(group'[g].alloc) =>
                  rw'.pc = "groups" /\ g \in rw'.targets
    PROVE  Solo'
BY DEF Solo, Taking, Writing, Idle, Hot, Exists, CommitsOf

(* Nobody else brings the old commit back.                                   *)
LEMMA OthersGroups ==
    ASSUME Rows, Ingest \/ Work \/ Expiry \/ UNCHANGED vars, ~ overlapped', rw.pc # "idle",
           NEW g \in Groups, group'[g].state = "hot", rw.old \in ToSet(group'[g].alloc)
    PROVE  group[g].state = "hot" /\ group'[g].alloc = group[g].alloc
<1>1. TypeOK
  BY RowsFacts
<1>2. ASSUME NEW h \in Groups, NEW a, NEW u, rw.old \notin ToSet(a), GroupGoes(h, "hot", a, u)
      PROVE  group[g].state = "hot" /\ group'[g].alloc = group[g].alloc
  BY <1>2 DEF GroupGoes
<1>3. CASE Ingest
  <2>1. ASSUME NEW h \in RelayGroups, NEW a \in Snapshots(h), NEW qs \in SUBSET Members(h),
               IngestRelayNew(h, a, qs) \/ IngestRelayMore(h, a, qs)
        PROVE  group[g].state = "hot" /\ group'[g].alloc = group[g].alloc
    <3>1. h \in Groups /\ rw.old \notin ToSet(a)
      BY <2>1, SentApart DEF Groups
    <3>2. GroupGoes(h, "hot", a, group[h].usage)
      BY <1>1, <2>1, <3>1, RelayGroupGoes
    <3>3. QED
      BY <1>2, <3>1, <3>2
  <2>2. ASSUME NEW h \in LocalGroups, NEW a \in Snapshots(h), NEW u \in Usages,
               IngestLocalNew(h, a, u) \/ IngestLocalMore(h, a, u)
        PROVE  group[g].state = "hot" /\ group'[g].alloc = group[g].alloc
    <3>1. h \in Groups /\ rw.old \notin ToSet(a)
      BY <2>2, SentApart DEF Groups
    <3>2. GroupGoes(h, "hot", a, u)
      BY <1>1, <2>2, <3>1, LocalGroupGoes
    <3>3. QED
      BY <1>2, <3>1, <3>2
  <2>3. QED
    BY <1>3, <2>1, <2>2 DEF Ingest
<1>4. CASE Work \/ UNCHANGED vars
  <2>1. group' = group
    BY <1>4 DEF Work, Lease, Reconcile, Retry, Finish, GiveUp, LeaseExpires, vars
  <2>2. QED
    BY <2>1
<1>5. CASE Expiry
  <2>1. ASSUME NEW h \in Groups, GrowsOld(h)
        PROVE  group[g].state = "hot" /\ group'[g].alloc = group[g].alloc
    <3>1. GroupGoes(h, "hot", group[h].alloc, group[h].usage) /\ group[h].state = "hot"
      BY <1>1, <2>1, ExpiryGroupGoes DEF GrowsOld, Hot
    <3>2. QED
      BY <3>1 DEF GroupGoes
  <2>2. ASSUME NEW h \in Groups, FinalizeGroup(h)
        PROVE  group[g].state = "hot" /\ group'[g].alloc = group[g].alloc
    <3>1. GroupGoes(h, "final", group[h].alloc, group[h].usage)
      BY <1>1, <2>2, ExpiryGroupGoes
    <3>2. QED
      BY <3>1 DEF GroupGoes
  <2>3. CASE Cleanup
    <3>1. /\ group'[g].alloc = group[g].alloc
          /\ group'[g].state # group[g].state => group'[g].state = "dropped"
      BY <1>1, <2>3, CleanupGoes
    <3>2. QED
      BY <3>1
  <2>4. QED
    BY <1>5, <2>1, <2>2, <2>3 DEF Expiry
<1>6. QED
  BY <1>3, <1>4, <1>5

LEMMA OthersSolo ==
    ASSUME Tables, RewriteRows, Alone, Ingest \/ Work \/ Expiry \/ UNCHANGED vars, ~ overlapped'
    PROVE  Solo'
<1>1. Rows /\ TypeOK
  BY RowsFacts DEF Tables
<1>2. /\ rw'.pc = rw.pc /\ rw'.old = rw.old /\ rw'.new = rw.new /\ rw'.targets = rw.targets
      /\ rw'.todo = rw.todo /\ rw'.key = rw.key /\ rw'.sum = rw.sum /\ UNCHANGED <<lineage, lost>>
  BY <1>1, OthersWait DEF RewriteWaits
<1>3. CASE Writing
  <2>1. OldPoolsStay
    <3>1. UNCHANGED vars => OldPoolsStay
      BY DEF OldPoolsStay, vars
    <3>2. QED
      BY <1>1, <1>3, <3>1, IngestOldPools, WorkOldPools, ExpiryOldPools
  <2>2. rw.pc \in {"pools", "move", "delete"}
    BY <1>3 DEF Writing
  <2>3. \A k \in Keys : rw.old \in k.commits => pool'[k] = pool[k]
    BY <2>1 DEF OldPoolsStay
  <2>4. rw'.pc \in {"move", "delete"} => pool'[rw'.key] = rw'.sum
    <3>1. rw.pc \in {"move", "delete"} => rw.old \in rw.key.commits /\ rw.key \in Keys
      BY <1>1, RewriteFacts, TargetFacts
    <3>2. QED
      BY <1>2, <2>3, <3>1, AloneFacts
  <2>5. \A k \in Keys : pool'[k].count + pool'[k].gaps > 0 /\ rw'.old \in k.commits => k \in rw'.todo
    BY <1>2, <2>2, <2>3, AloneFacts DEF Exists
  <2>6. \A g \in Groups : ~ (group'[g].state = "hot" /\ rw'.old \in ToSet(group'[g].alloc))
    <3>1. \A g \in Groups : group[g].state = "hot" => rw.old \notin ToSet(group[g].alloc)
      BY <2>2, AloneFacts DEF CommitsOf
    <3>2. QED
      BY <1>1, <1>2, <2>2, <3>1, OthersGroups
  <2>7. QED
    BY <1>2, <2>4, <2>5, <2>6, AloneFacts, SoloNext
<1>4. CASE ~ Writing
  <2>1. rw'.pc \notin {"pools", "move", "delete"}
    BY <1>2, <1>4 DEF Writing
  <2>2. rw'.pc # "idle" => \A g \in Groups : group'[g].state = "hot" /\ rw'.old \in ToSet(group'[g].alloc) =>
                                rw'.pc = "groups" /\ g \in rw'.targets
    BY <1>1, <1>2, OthersGroups, AloneFacts DEF CommitsOf
  <2>3. QED
    BY <1>2, <2>1, <2>2, AloneFacts, SoloNext
<1>5. QED
  BY <1>3, <1>4

(* The new commit takes the place of the old one.                            *)
LEMMA RenamedApart ==
    ASSUME NEW S, NEW old, NEW new, new # old
    PROVE  old \notin Renamed(S, old, new)
BY DEF Renamed

LEMMA RewritingSolo ==
    ASSUME Tables, Lines, RewriteRows, Alone, Rewriting
    PROVE  Solo'
<1>1. Rows /\ TypeOK
  BY RowsFacts DEF Tables
<1>2. ASSUME NEW r \in Rewrites, RewriteBegin(r)
      PROVE  Solo'
  <2>1. rw'.pc = "groups" /\ rw'.old = r[1] /\ rw'.targets = Using(r[1]) /\ UNCHANGED <<group, lost>>
    BY <1>1, <1>2, BeginFacts
  <2>2. \A g \in Groups : group'[g].state = "hot" /\ rw'.old \in ToSet(group'[g].alloc) => g \in rw'.targets
    BY <2>1 DEF Using, Hot, CommitsOf
  <2>3. QED
    BY <2>1, <2>2, AloneFacts, SoloNext
<1>3. ASSUME NEW k \in Keys, ReadPool(k)
      PROVE  Solo'
  <2>1. /\ rw.pc = "pools" /\ rw'.old = rw.old /\ UNCHANGED <<group, claim, pool, lost>>
        /\ \/ /\ Exists(k) /\ rw'.pc = "move" /\ rw'.key = k /\ rw'.sum = pool[k] /\ rw'.todo = rw.todo
           \/ /\ ~ Exists(k) /\ rw'.pc = "pools" /\ rw'.todo = rw.todo \ {k}
    BY <1>1, <1>3, ReadPoolFacts
  <2>2. \A j \in Keys : pool'[j].count + pool'[j].gaps > 0 /\ rw'.old \in j.commits => j \in rw'.todo
    BY <2>1, AloneFacts DEF Exists
  <2>3. \A g \in Groups : ~ (group'[g].state = "hot" /\ rw'.old \in ToSet(group'[g].alloc))
    BY <2>1, AloneFacts DEF CommitsOf
  <2>4. QED
    BY <2>1, <2>2, <2>3, AloneFacts, SoloNext
<1>4. CASE RewriteFails \/ RewriteCommit
  <2>1. rw'.pc = "idle" /\ UNCHANGED lost
    BY <1>1, <1>4, EndFacts DEF RewriteFails, RewriteCommit
  <2>2. QED
    BY <2>1, AloneFacts, SoloNext
<1>5. CASE RewriteGroups
  <2>1. /\ rw.pc = "groups" /\ rw'.pc = "pools" /\ rw'.old = rw.old /\ UNCHANGED lost
        /\ rw'.todo = Affected(pool', rw.old) /\ rw.new # rw.old
    BY <1>1, <1>5, RewriteGroupsFacts, LinesFacts
  <2>2. \A k \in Keys : pool'[k].count + pool'[k].gaps > 0 /\ rw'.old \in k.commits => k \in rw'.todo
    BY <2>1 DEF Affected
  <2>3. ASSUME NEW g \in Groups
        PROVE  ~ (group'[g].state = "hot" /\ rw'.old \in ToSet(group'[g].alloc))
    <3>1. /\ group'[g].state = group[g].state
          /\ group'[g].alloc = IF g \in rw.targets THEN Replaced(g) ELSE group[g].alloc
      BY <1>1, <1>5, RewriteGroupsGoes
    <3>2. CASE g \in rw.targets
      <4>1. ToSet(Replaced(g)) = Renamed(CommitsOf(g), rw.old, rw.new)
        BY <1>1, ReplacedFacts
      <4>2. QED
        BY <2>1, <3>1, <3>2, <4>1, RenamedApart
    <3>3. CASE g \notin rw.targets
      BY <2>1, <3>1, <3>3, AloneFacts DEF CommitsOf
    <3>4. QED
      BY <3>2, <3>3
  <2>4. QED
    BY <2>1, <2>2, <2>3, AloneFacts, SoloNext
<1>6. CASE MovePool
  <2>1. /\ rw.pc = "move" /\ rw'.pc = "delete" /\ rw'.old = rw.old /\ rw'.key = rw.key /\ rw'.sum = rw.sum
        /\ rw'.todo = rw.todo /\ UNCHANGED <<group, lost>>
        /\ pool' = Given(pool, Target, Plus(pool[Target], rw.sum)) /\ rw.new # rw.old
    BY <1>1, <1>6, MoveFacts, LinesFacts
  <2>2. Target \in Keys /\ rw.key \in Keys /\ rw.old \notin Target.commits
    BY <1>1, <2>1, TargetFacts, RenamedApart
  <2>3. \A k \in Keys : rw.old \in k.commits => pool'[k] = pool[k]
    BY <2>1, <2>2 DEF Given
  <2>4. pool'[rw.key] = rw.sum
    BY <2>1, <2>2, <2>3, RewriteFacts, AloneFacts
  <2>5. \A k \in Keys : pool'[k].count + pool'[k].gaps > 0 /\ rw'.old \in k.commits => k \in rw'.todo
    BY <2>1, <2>3, AloneFacts DEF Exists
  <2>6. \A g \in Groups : ~ (group'[g].state = "hot" /\ rw'.old \in ToSet(group'[g].alloc))
    BY <2>1, AloneFacts DEF CommitsOf
  <2>7. QED
    BY <2>1, <2>4, <2>5, <2>6, AloneFacts, SoloNext
<1>7. CASE DeletePool
  <2>1. /\ rw.pc = "delete" /\ rw'.pc = "pools" /\ rw'.old = rw.old
        /\ rw'.todo = rw.todo \ {rw.key} /\ UNCHANGED group
        /\ pool' = Given(pool, rw.key, Zero)
        /\ lost' = Given(lost, rw.key, Plus(lost[rw.key], Minus(pool[rw.key], rw.sum)))
    BY <1>1, <1>7, DeleteFacts
  <2>2. rw.key \in Keys /\ rw.sum \in Amounts /\ pool[rw.key] = rw.sum /\ lost[rw.key] = Zero
    BY <1>1, <2>1, TargetFacts, AloneFacts
  <2>3. Plus(lost[rw.key], Minus(pool[rw.key], rw.sum)) = Zero
    <3>1. rw.sum.total \in Nat /\ rw.sum.count \in Nat /\ rw.sum.gaps \in Nat
      BY <2>2 DEF Amounts
    <3>2. QED
      BY <2>2, <3>1 DEF Plus, Minus, Zero, Amount
  <2>4. \A k \in Keys : lost'[k] = Zero
    BY <2>1, <2>2, <2>3, AloneFacts DEF Given
  <2>5. pool \in [Keys -> Amounts]
    BY <1>1, RowsFacts
  <2>6. pool'[rw.key] = Zero /\ \A k \in Keys : k # rw.key => pool'[k] = pool[k]
    BY <2>1, <2>2, <2>5 DEF Given
  <2>7. \A k \in Keys : pool'[k].count + pool'[k].gaps > 0 /\ rw'.old \in k.commits => k \in rw'.todo
    BY <2>1, <2>6, ZeroFacts, AloneFacts DEF Exists
  <2>8. \A g \in Groups : ~ (group'[g].state = "hot" /\ rw'.old \in ToSet(group'[g].alloc))
    BY <2>1, AloneFacts DEF CommitsOf
  <2>9. QED
    BY <2>1, <2>4, <2>7, <2>8, SoloNext
<1>8. QED
  BY <1>2, <1>3, <1>4, <1>5, <1>6, <1>7 DEF Rewriting

LEMMA SoloStep ==
    ASSUME Tables, Lines, RewriteRows, Alone, [Next]_vars, ~ overlapped'
    PROVE  Solo'
BY OthersSolo, RewritingSolo DEF Next

LEMMA SoloBegin ==
    ASSUME Init
    PROVE  Solo /\ AtHome
BY DEF Init, Solo, AtHome, Taking, Writing, Idle, Counted, Stored, Hot, Exists, Reconciled

-----------------------------------------------------------------------------
(* Pools hold what points to them: steps beside a rewrite                    *)

LEMMA SameUnder ==
    ASSUME RewriteWaits, NEW g
    PROVE  /\ group'[g].alloc = group[g].alloc => UnderNext(g) = Under(g)
           /\ ~ Locked(g) => Under(g) = {KeyOf(g)} /\ UnderNext(g) = {KeyNext(g)}
BY UnderIs DEF RewriteWaits, UnderNext, Locked, KeyNext, KeyOf, CommitsOf

LEMMA SameDouble ==
    ASSUME RewriteWaits, NEW f, NEW keys
    PROVE  Double(f, keys)' = Double(f, keys)
BY DoubleIs DEF RewriteWaits, DoubleNext, Double

(* Turns that are counted locally keep what they count, or lose all of it.   *)
StillLocal ==
    \A g \in LocalGroups : group'[g].state = "hot" =>
        group[g].state = "hot" /\ group'[g].alloc = group[g].alloc /\ group'[g].usage = group[g].usage

LEMMA StillUsage ==
    ASSUME TypeOK, group' \in [Groups -> Group], RewriteWaits, StillLocal, NEW keys
    PROVE  UsageIn(keys)' <= UsageIn(keys)
<1>1. \A g \in LocalGroups : LocalIn(keys, g) \in Nat
  BY UsageInType
<1>2. \A g \in LocalGroups : InNext(keys, g) <= LocalIn(keys, g)
  <2> SUFFICES ASSUME NEW g \in LocalGroups
               PROVE  InNext(keys, g) <= LocalIn(keys, g)
    OBVIOUS
  <2>1. CASE group'[g].state = "hot"
    <3>1. InNext(keys, g) = LocalIn(keys, g)
      <4>1. group[g].state = "hot" /\ group'[g].alloc = group[g].alloc /\ group'[g].usage = group[g].usage
        BY <2>1 DEF StillLocal
      <4>2. UnderNext(g) = Under(g)
        BY <4>1, SameUnder
      <4>3. LocalIn(keys, g) = IF group[g].state = "hot" /\ Under(g) \subseteq keys THEN group[g].usage ELSE 0
        BY InIs
      <4>4. QED
        BY <2>1, <4>1, <4>2, <4>3 DEF InNext
    <3>2. QED
      BY <1>1, <3>1
  <2>2. CASE group'[g].state # "hot"
    BY <1>1, <2>2 DEF InNext
  <2>3. QED
    BY <2>1, <2>2
<1>3. QED
  BY <1>2, UsageLess

LEMMA LessCover ==
    ASSUME Rows, Rows', RewriteWaits, StillLocal, NEW keys \in SUBSET Keys, CoveredOn(keys),
           \A q \in Requests : CountedNext(q) => Counted(q) /\ group'[GroupOf[q]].alloc = group[GroupOf[q]].alloc,
           Held(pool, "count", keys)' = Held(pool, "count", keys)
    PROVE  CoveredOn(keys)'
<1>1. "count" \in Columns
  BY DEF Columns
<1>2. TypeOK /\ group' \in [Groups -> Group]
  BY RowsFacts DEF Rows, TypeOK
<1>3. \A q \in Requests : PointedNext(keys, q) <= Pointed1(keys, q)
  <2> SUFFICES ASSUME NEW q \in Requests
               PROVE  PointedNext(keys, q) <= Pointed1(keys, q)
    OBVIOUS
  <2>1. /\ Pointed1(keys, q) = IF Counted(q) /\ KeyOf(GroupOf[q]) \in keys THEN 1 ELSE 0
        /\ Pointed1(keys, q) \in Nat
    BY PointedIs
  <2>2. CASE CountedNext(q)
    <3>1. Counted(q) /\ KeyNext(GroupOf[q]) = KeyOf(GroupOf[q])
      BY <2>2 DEF KeyNext, KeyOf, CommitsOf
    <3>2. QED
      BY <2>1, <2>2, <3>1 DEF PointedNext
  <2>3. CASE ~ CountedNext(q)
    BY <2>1, <2>3 DEF PointedNext
  <2>4. QED
    BY <2>2, <2>3
<1>4. PointersIn(keys)' <= PointersIn(keys) + 0
  <2>1. PointersIn(keys)' <= PointersIn(keys)
    BY <1>3, PointersLess
  <2>2. QED
    BY <2>1, PointersType
<1>5. UsageIn(keys)' <= UsageIn(keys) + 0
  <2>1. UsageIn(keys)' <= UsageIn(keys)
    BY <1>2, StillUsage
  <2>2. QED
    BY <1>2, <2>1, UsageInType
<1>6. PICK h \in Int, d \in Int : h = Held(pool, "count", keys) /\ d = Double("count", keys)
  BY <1>1, SumsAreInt
<1>7. h - d + 0 + 0 <= h - d
  OBVIOUS
<1>8. Held(pool, "count", keys) - Double("count", keys) + 0 + 0
          <= Held(pool, "count", keys)' - Double("count", keys)'
  BY <1>6, <1>7, SameDouble
<1>9. QED
  BY <1>4, <1>5, <1>8, CoverStep

LEMMA ShiftCovers ==
    ASSUME Rows, Rows', NEW keys \in SUBSET Keys, CoveredOn(keys),
           UsageIn(keys)' <= UsageIn(keys), Double("count", keys)' = Double("count", keys),
           NEW M \in SUBSET Requests, NEW to, pool' = Shift(M, to),
           \A q \in Requests :
              PointedNext(keys, q) = (Pointed1(keys, q) - (IF q \in M /\ Ptr[q] \in keys THEN 1 ELSE 0))
                                     + (IF q \in M /\ to[q] \in keys THEN 1 ELSE 0)
    PROVE  CoveredOn(keys)'
<1>1. "count" \in Columns
  BY DEF Columns
<1>2. TypeOK /\ group' \in [Groups -> Group]
  BY RowsFacts DEF Rows, TypeOK
<1>3. PICK x \in Int, y \in Int : /\ x = SumFunctionOnSet(Weight("count"), Fibers(M, Ptr, keys))
                                  /\ y = SumFunctionOnSet(Weight("count"), Fibers(M, to, keys))
  <2>1. \A q \in Requests : Weight("count")[q] \in Int
    BY CountWeight
  <2>2. Fibers(M, Ptr, keys) \in SUBSET Requests /\ Fibers(M, to, keys) \in SUBSET Requests
    BY DEF Fibers
  <2>3. IsFiniteSet(Fibers(M, Ptr, keys)) /\ IsFiniteSet(Fibers(M, to, keys))
    BY <2>2, PartsAreFinite
  <2>4. SumFunctionOnSet(Weight("count"), Fibers(M, Ptr, keys)) \in Int
    BY <2>1, <2>2, <2>3, SumInt
  <2>5. SumFunctionOnSet(Weight("count"), Fibers(M, to, keys)) \in Int
    BY <2>1, <2>2, <2>3, SumInt
  <2>6. QED
    BY <2>4, <2>5
<1>4. PointersIn(keys)' = (PointersIn(keys) - x) + y
  BY <1>3, ShiftPointers
<1>5. Held(pool, "count", keys)' = (Held(pool, "count", keys) - x) + y
  <2>1. Held(pool, "count", keys)' = Held(Shift(M, to), "count", keys)
    BY DEF Held
  <2>2. QED
    BY <1>1, <1>3, <2>1, ShiftHeld
<1>6. PointersIn(keys)' <= PointersIn(keys) + (y - x)
  <2>1. PICK p \in Int : p = PointersIn(keys)
    BY PointersType
  <2>2. (p - x) + y <= p + (y - x)
    OBVIOUS
  <2>3. QED
    BY <1>4, <2>1, <2>2
<1>7. UsageIn(keys)' <= UsageIn(keys) + 0
  BY <1>2, UsageInType
<1>8. PICK h \in Int, d \in Int : h = Held(pool, "count", keys) /\ d = Double("count", keys)
  BY <1>1, SumsAreInt
<1>9. h - d + (y - x) + 0 <= ((h - x) + y) - d
  OBVIOUS
<1>10. Held(pool, "count", keys) - Double("count", keys) + (y - x) + 0
          <= Held(pool, "count", keys)' - Double("count", keys)'
  BY <1>5, <1>8, <1>9
<1>11. y - x \in Int
  OBVIOUS
<1>12. QED
  BY <1>6, <1>7, <1>10, <1>11, CoverStep

LEMMA ShiftCover ==
    ASSUME Rows, Rows', RewriteWaits, StillLocal, NEW keys \in SUBSET Keys, CoveredOn(keys),
           NEW M \in SUBSET Requests, NEW to, pool' = Shift(M, to),
           \A q \in Requests :
              PointedNext(keys, q) = (Pointed1(keys, q) - (IF q \in M /\ Ptr[q] \in keys THEN 1 ELSE 0))
                                     + (IF q \in M /\ to[q] \in keys THEN 1 ELSE 0)
    PROVE  CoveredOn(keys)'
<1>1. TypeOK /\ group' \in [Groups -> Group]
  BY RowsFacts DEF Rows, TypeOK
<1>2. UsageIn(keys)' <= UsageIn(keys)
  BY <1>1, StillUsage
<1>3. Double("count", keys)' = Double("count", keys)
  BY SameDouble
<1>4. QED
  BY <1>2, <1>3, ShiftCovers

(* A turn of the Relay leaves what is counted locally.                       *)
LEMMA RelayStill ==
    ASSUME NEW g \in RelayGroups, \A h \in Groups : h # g => group'[h] = group[h]
    PROVE  StillLocal
<1>1. \A h \in LocalGroups : h # g /\ h \in Groups
  BY AttributionLedgerAssumption DEF Groups
<1>2. QED
  BY <1>1 DEF StillLocal

LEMMA SamePoolHeld ==
    ASSUME pool' = pool, NEW f, NEW keys
    PROVE  Held(pool, f, keys)' = Held(pool, f, keys)
BY DEF Held

LEMMA RelayNewCover ==
    ASSUME Rows, Rows', NEW g \in RelayGroups, NEW a \in Snapshots(g), NEW qs \in SUBSET Members(g),
           IngestRelayNew(g, a, qs), NEW keys \in SUBSET Keys, CoveredOn(keys)
    PROVE  CoveredOn(keys)'
<1>1. g \in Groups /\ TypeOK /\ NoneBeforeGroup
  BY RowsFacts DEF Groups
<1>2. GroupGoes(g, "hot", a, group[g].usage) /\ ClaimsGo(WithNew(qs), Ptr)
  BY <1>1, RelayGroupGoes, RelayNewClaims
<1>3. RewriteWaits /\ pool' = pool /\ group[g].state = "none"
  BY <1>1, OthersWait DEF Ingest, IngestRelayNew
<1>4. StillLocal
  BY <1>2, RelayStill DEF GroupGoes
<1>5. ASSUME NEW q \in Requests, CountedNext(q)
      PROVE  Counted(q) /\ group'[GroupOf[q]].alloc = group[GroupOf[q]].alloc
  <2>1. claim[q].status = "reconciled"
    BY <1>2, <1>5 DEF ClaimsGo, WithNew, CountedNext
  <2>2. GroupOf[q] # g
    BY <1>1, <1>3, <2>1 DEF NoneBeforeGroup
  <2>3. group'[GroupOf[q]] = group[GroupOf[q]]
    BY <1>2, <2>2, CountedIs DEF GroupGoes
  <2>4. QED
    BY <1>5, <2>1, <2>3, CountedIs DEF CountedNext
<1>6. QED
  BY <1>3, <1>4, <1>5, SamePoolHeld, LessCover

LEMMA RelayMoreCover ==
    ASSUME Rows, Rows', Alone, NEW g \in RelayGroups, NEW a \in Snapshots(g), NEW qs \in SUBSET Members(g),
           IngestRelayMore(g, a, qs), NEW keys \in SUBSET Keys, CoveredOn(keys)
    PROVE  CoveredOn(keys)'
<1>1. g \in Groups /\ TypeOK
  BY RowsFacts DEF Groups
<1>2. /\ GroupGoes(g, "hot", a, group[g].usage)
      /\ ClaimsGo(WithNew(qs), Dropped(PtrTo(Repoints(g, a), Key(ToSet(a))), pool'))
  BY <1>1, RelayGroupGoes, RelayMoreClaims
<1>3. RewriteWaits /\ group[g].state = "hot"
  BY <1>1, OthersWait DEF Ingest, IngestRelayMore, Hot
<1>4. StillLocal
  BY <1>2, RelayStill DEF GroupGoes
<1>5. \A q \in Requests : claim'[q].status = "reconciled" <=> claim[q].status = "reconciled"
  BY <1>2 DEF ClaimsGo, WithNew
<1>6. \A q \in Requests : CountedNext(q) <=> Counted(q)
  <2> SUFFICES ASSUME NEW q \in Requests
               PROVE  CountedNext(q) <=> Counted(q)
    OBVIOUS
  <2>1. group'[GroupOf[q]].state = "hot" <=> group[GroupOf[q]].state = "hot"
    BY <1>2, <1>3, CountedIs DEF GroupGoes
  <2>2. QED
    BY <1>5, <2>1, CountedIs DEF CountedNext
<1>7. CASE a = group[g].alloc
  <2>1. pool' = pool
    BY <1>7 DEF IngestRelayMore
  <2>2. \A q \in Requests : group'[GroupOf[q]].alloc = group[GroupOf[q]].alloc
    BY <1>2, <1>7, CountedIs DEF GroupGoes
  <2>3. QED
    BY <1>3, <1>4, <1>6, <2>1, <2>2, SamePoolHeld, LessCover
<1>8. CASE a # group[g].alloc
  <2> DEFINE done == WithStatus(g, "reconciled")
             key == Key(ToSet(a))
             M == Movers(done, key)
  <2>1. MayMaterialize(done, key) /\ pool' = Materialized(done, key)
    BY <1>8 DEF IngestRelayMore
  <2>2. key \in Keys
    BY <1>1, SnapshotFacts, SetOfCommits, KeyFacts
  <2>3. done \in SUBSET Requests /\ \A q \in done : claim[q].status = "reconciled" /\ GroupOf[q] = g
    BY WithStatusFacts
  <2>4. /\ pool' = Shift(M, To(key)) /\ M \in SUBSET Requests
        /\ \A q \in M : q \in done /\ To(key)[q] = key
    BY <1>1, <2>1, <2>2, <2>3, MaterializedShifts
  <2>5. KeyNext(g) = key
    BY <1>2 DEF KeyNext, GroupGoes
  <2>6. \A q \in Requests : q \notin M /\ q \in done => claim[q].ptr = key
    BY DEF Movers
  <2>7. \A q \in Requests : GroupOf[q] = g /\ claim[q].status = "reconciled" => q \in done
    BY DEF WithStatus, Members
  <2> HIDE DEF done, key, M
  <2>8. ASSUME NEW q \in Requests
        PROVE  PointedNext(keys, q) = (Pointed1(keys, q) - (IF q \in M /\ Ptr[q] \in keys THEN 1 ELSE 0))
                                      + (IF q \in M /\ To(key)[q] \in keys THEN 1 ELSE 0)
    <3>1. /\ Pointed1(keys, q) = IF Counted(q) /\ KeyOf(GroupOf[q]) \in keys THEN 1 ELSE 0
          /\ PointedNext(keys, q) = IF Counted(q) /\ KeyNext(GroupOf[q]) \in keys THEN 1 ELSE 0
      BY <1>6, PointedIs DEF PointedNext
    <3>2. CASE q \in done
      <4>1. Counted(q) /\ GroupOf[q] = g
        BY <1>3, <2>3, <3>2, CountedIs
      <4>2. claim[q].ptr = KeyOf(g) /\ Ptr[q] = claim[q].ptr
        BY <4>1, AloneFacts DEF Ptr
      <4>3. CASE q \in M
        BY <2>4, <2>5, <3>1, <4>1, <4>2, <4>3
      <4>4. CASE q \notin M
        BY <2>5, <2>6, <3>1, <3>2, <4>1, <4>2, <4>4
      <4>5. QED
        BY <4>3, <4>4
    <3>3. CASE q \notin done
      <4>1. q \notin M
        BY <2>4, <3>3
      <4>2. PointedNext(keys, q) = Pointed1(keys, q)
        <5>1. CASE GroupOf[q] = g
          <6>1. ~ Counted(q)
            BY <2>7, <3>3, <5>1, CountedIs
          <6>2. QED
            BY <3>1, <6>1
        <5>2. CASE GroupOf[q] # g
          <6>1. group'[GroupOf[q]] = group[GroupOf[q]]
            BY <1>2, <5>2, CountedIs DEF GroupGoes
          <6>2. KeyNext(GroupOf[q]) = KeyOf(GroupOf[q])
            BY <6>1 DEF KeyNext, KeyOf, CommitsOf
          <6>3. QED
            BY <3>1, <6>2
        <5>3. QED
          BY <5>1, <5>2
      <4>3. QED
        BY <3>1, <4>1, <4>2
    <3>4. QED
      BY <3>2, <3>3
  <2>9. QED
    BY <1>3, <1>4, <2>4, <2>8, ShiftCover
<1>9. QED
  BY <1>7, <1>8

LEMMA ReconcileCover ==
    ASSUME Rows, Rows', NEW w \in Workers, NEW q \in Requests, Reconcile(w, q),
           NEW keys \in SUBSET Keys, CoveredOn(keys)
    PROVE  CoveredOn(keys)'
<1> DEFINE key == KeyOf(GroupOf[q])
<1>1. /\ claim[q].status = "pending" /\ claim[q].ptr = NoPool /\ key \in Keys
      /\ ClaimGoes(q, "reconciled", key) /\ pool' = Shift({q}, To(key)) /\ group' = group
      /\ group[GroupOf[q]].state = "hot"
  BY ReconcileFacts DEF Reconcile
<1>2. RewriteWaits
  BY RowsFacts, OthersWait DEF Work
<1>3. StillLocal
  BY <1>1 DEF StillLocal
<1>4. \A r \in Requests : KeyNext(GroupOf[r]) = KeyOf(GroupOf[r])
  BY <1>1 DEF KeyNext, KeyOf, CommitsOf
<1>5. ASSUME NEW r \in Requests
      PROVE  PointedNext(keys, r) = (Pointed1(keys, r) - (IF r \in {q} /\ Ptr[r] \in keys THEN 1 ELSE 0))
                                    + (IF r \in {q} /\ To(key)[r] \in keys THEN 1 ELSE 0)
  <2>1. Pointed1(keys, r) = IF Counted(r) /\ KeyOf(GroupOf[r]) \in keys THEN 1 ELSE 0
    BY PointedIs
  <2>2. PointedNext(keys, r) = IF CountedNext(r) /\ KeyOf(GroupOf[r]) \in keys THEN 1 ELSE 0
    BY <1>4 DEF PointedNext
  <2>3. CASE r = q
    <3>1. ~ Counted(q) /\ CountedNext(q)
      BY <1>1, CountedIs DEF CountedNext, ClaimGoes
    <3>2. Ptr[q] \notin keys /\ To(key)[q] = key
      BY <1>1, KeyFacts DEF Ptr, To
    <3>3. QED
      BY <2>1, <2>2, <2>3, <3>1, <3>2
  <2>4. CASE r # q
    <3>1. CountedNext(r) <=> Counted(r)
      BY <1>1, <2>4, CountedIs DEF CountedNext, ClaimGoes
    <3>2. QED
      BY <2>1, <2>2, <2>4, <3>1
  <2>5. QED
    BY <2>3, <2>4
<1>6. {q} \in SUBSET Requests
  OBVIOUS
<1> HIDE DEF key
<1>7. QED
  BY <1>1, <1>2, <1>3, <1>5, <1>6, ShiftCover

LEMMA WorkCover ==
    ASSUME Rows, Rows', Work, NEW keys \in SUBSET Keys, CoveredOn(keys)
    PROVE  CoveredOn(keys)'
<1>1. TypeOK /\ LeasedIsPending
  BY RowsFacts
<1>2. RewriteWaits
  BY <1>1, OthersWait
<1>3. ASSUME UNCHANGED <<group, pool>>, \A q \in Requests : claim'[q].status = "reconciled" => claim[q].status = "reconciled"
      PROVE  CoveredOn(keys)'
  <2>1. StillLocal
    BY <1>3 DEF StillLocal
  <2>2. \A q \in Requests : CountedNext(q) => Counted(q) /\ group'[GroupOf[q]].alloc = group[GroupOf[q]].alloc
    BY <1>3, CountedIs DEF CountedNext
  <2>3. QED
    BY <1>2, <1>3, <2>1, <2>2, SamePoolHeld, LessCover
<1>4. ASSUME NEW w \in Workers, NEW p \in Requests, Lease(w, p)
      PROVE  CoveredOn(keys)'
  <2>1. ClaimGoes(p, claim[p].status, claim[p].ptr)
    BY <1>1, <1>4, LeaseGoes
  <2>2. QED
    BY <1>3, <1>4, <2>1 DEF Lease, ClaimGoes
<1>5. ASSUME NEW p \in Requests, LeaseExpires(p)
      PROVE  CoveredOn(keys)'
  <2>1. ClaimGoes(p, claim[p].status, claim[p].ptr)
    BY <1>1, <1>5, LeaseExpiresGoes
  <2>2. QED
    BY <1>3, <1>5, <2>1 DEF LeaseExpires, ClaimGoes
<1>6. ASSUME NEW w \in Workers, NEW p \in Requests, Retry(w, p) \/ Finish(w, p)
      PROVE  CoveredOn(keys)'
  <2>1. PICK s \in {"pending", "failed"} : ClaimGoes(p, s, claim[p].ptr)
    BY <1>1, <1>6, SettleGoes
  <2>2. UNCHANGED <<group, pool>>
    BY <1>6 DEF Retry, Finish
  <2>3. QED
    BY <1>3, <2>1, <2>2 DEF ClaimGoes
<1>7. ASSUME NEW w \in Workers, GiveUp(w)
      PROVE  CoveredOn(keys)'
  BY <1>3, <1>7 DEF GiveUp
<1>8. QED
  BY <1>4, <1>5, <1>6, <1>7, ReconcileCover DEF Work

(* A local turn adds to a pool what points to it.                            *)
LEMMA LocalCover ==
    ASSUME Rows, Rows', RewriteWaits, NEW g \in LocalGroups, ~ Locked(g),
           \A h \in Groups : h # g => group'[h] = group[h], group'[g].state = "hot",
           \A q \in Requests : claim'[q].status = claim[q].status,
           NEW keys \in SUBSET Keys, CoveredOn(keys),
           group[g].state \in {"none", "hot"},
           Held(pool, "count", keys)' = Held(pool, "count", keys)
               + (LocalNext("count", keys, g) - LocalDue("count", keys, g))
    PROVE  CoveredOn(keys)'
<1>1. "count" \in Columns
  BY DEF Columns
<1>2. TypeOK /\ group' \in [Groups -> Group]
  BY RowsFacts DEF Rows, TypeOK
<1>3. \A q \in Requests : PointedNext(keys, q) <= Pointed1(keys, q)
  <2> SUFFICES ASSUME NEW q \in Requests
               PROVE  PointedNext(keys, q) <= Pointed1(keys, q)
    OBVIOUS
  <2>1. GroupOf[q] \in Groups /\ GroupOf[q] # g
    BY CountedIs
  <2>2. group'[GroupOf[q]] = group[GroupOf[q]]
    BY <2>1
  <2>3. KeyNext(GroupOf[q]) = KeyOf(GroupOf[q]) /\ (CountedNext(q) <=> Counted(q))
    BY <2>2, CountedIs DEF KeyNext, KeyOf, CommitsOf, CountedNext
  <2>4. /\ Pointed1(keys, q) = IF Counted(q) /\ KeyOf(GroupOf[q]) \in keys THEN 1 ELSE 0
        /\ Pointed1(keys, q) \in Nat
    BY PointedIs
  <2>5. QED
    BY <2>3, <2>4 DEF PointedNext
<1>4. PointersIn(keys)' <= PointersIn(keys) + 0
  <2>1. PointersIn(keys)' <= PointersIn(keys)
    BY <1>3, PointersLess
  <2>2. QED
    BY <2>1, PointersType
<1>5. \A h \in LocalGroups : h # g => InNext(keys, h) = LocalIn(keys, h)
  <2> SUFFICES ASSUME NEW h \in LocalGroups, h # g
               PROVE  InNext(keys, h) = LocalIn(keys, h)
    OBVIOUS
  <2>1. group'[h] = group[h]
    BY DEF Groups
  <2>2. UnderNext(h) = Under(h)
    BY <2>1, SameUnder
  <2>3. LocalIn(keys, h) = IF group[h].state = "hot" /\ Under(h) \subseteq keys THEN group[h].usage ELSE 0
    BY InIs
  <2>4. QED
    BY <2>1, <2>2, <2>3 DEF InNext
<1> DEFINE x == LocalIn(keys, g)
           y == InNext(keys, g)
<1>6. x = LocalDue("count", keys, g) /\ y = LocalNext("count", keys, g)
  <2>1. Under(g) = {KeyOf(g)} /\ UnderNext(g) = {KeyNext(g)}
    BY SameUnder
  <2>2. LocalIn(keys, g) = IF group[g].state = "hot" /\ Under(g) \subseteq keys THEN group[g].usage ELSE 0
    BY InIs
  <2>3. {KeyOf(g)} \subseteq keys <=> KeyOf(g) \in keys
    OBVIOUS
  <2>4. {KeyNext(g)} \subseteq keys <=> KeyNext(g) \in keys
    OBVIOUS
  <2>5. FieldOf(Local(group[g].usage), "count") = group[g].usage
        /\ FieldOf(Local(group'[g].usage), "count") = group'[g].usage
    BY FieldOfAmount DEF Local
  <2>6. LocalDue("count", keys, g) = IF group[g].state # "none" /\ KeyOf(g) \in keys THEN group[g].usage ELSE 0
    BY <2>5 DEF LocalDue
  <2>7. LocalNext("count", keys, g) = IF KeyNext(g) \in keys THEN group'[g].usage ELSE 0
    BY <2>5 DEF LocalNext, LocalAs, KeyNext
  <2>8. QED
    BY <2>1, <2>2, <2>3, <2>4, <2>6, <2>7 DEF InNext
<1> x \in Int /\ y \in Int
  <2>1. LocalIn(keys, g) \in Nat
    BY <1>2, UsageInType
  <2>2. InNext(keys, g) \in Nat
    BY <1>2, InNextType
  <2>3. QED
    BY <2>1, <2>2
<1>7. UsageIn(keys)' <= UsageIn(keys) + (y - x)
  <2>1. UsageIn(keys)' = UsageIn(keys) + (InNext(keys, g) - LocalIn(keys, g))
    BY <1>2, <1>5, UsageOne
  <2>2. PICK n \in Int, m \in Int : n = UsageIn(keys)' /\ m = UsageIn(keys)
    BY <1>2, UsageNat, UsageInType
  <2>3. QED
    BY <2>1, <2>2
<1> HIDE DEF x, y
<1>8. PICK h \in Int, d \in Int : h = Held(pool, "count", keys) /\ d = Double("count", keys)
  BY <1>1, SumsAreInt
<1>9. h - d + 0 + (y - x) <= (h + (y - x)) - d
  OBVIOUS
<1>10. Held(pool, "count", keys) - Double("count", keys) + 0 + (y - x)
          <= Held(pool, "count", keys)' - Double("count", keys)'
  BY <1>6, <1>8, <1>9, SameDouble
<1>11. PICK z \in Int, o \in Int : z = y - x /\ o = 0
  OBVIOUS
<1>12. QED
  BY <1>4, <1>7, <1>10, <1>11, CoverStep

LEMMA IngestLocalCover ==
    ASSUME Rows, Rows', RewriteRows, NEW g \in LocalGroups, NEW a \in Snapshots(g), NEW u \in Usages,
           IngestLocalNew(g, a, u) \/ IngestLocalMore(g, a, u),
           NEW keys \in SUBSET Keys, CoveredOn(keys)
    PROVE  CoveredOn(keys)'
<1>1. g \in Groups /\ TypeOK /\ "count" \in Columns
  BY RowsFacts DEF Groups, Columns
<1>2. GroupGoes(g, "hot", a, u)
  BY <1>1, LocalGroupGoes
<1>3. RewriteWaits
  BY <1>1, OthersWait DEF Ingest
<1>4. group[g].state \in {"none", "hot"} /\ ~ Locked(g)
  <2>1. CASE IngestLocalNew(g, a, u)
    <3>1. group[g].state = "none"
      BY <2>1 DEF IngestLocalNew
    <3>2. rw.pc \in {"idle", "groups", "pools", "move", "delete"}
      BY <1>1 DEF TypeOK, Rewrite
    <3>3. QED
      BY <3>1, <3>2, RewriteFacts DEF Locked
  <2>2. CASE IngestLocalMore(g, a, u)
    BY <2>2 DEF IngestLocalMore, Hot
  <2>3. QED
    BY <2>1, <2>2
<1>5. \A q \in Requests : claim'[q].status = claim[q].status
  <2>1. CASE IngestLocalNew(g, a, u)
    BY <2>1 DEF IngestLocalNew
  <2>2. CASE IngestLocalMore(g, a, u)
    <3>1. ClaimsGo(Status, Dropped(Ptr, pool'))
      BY <1>1, <2>2, LocalMoreClaims
    <3>2. QED
      BY <3>1 DEF ClaimsGo, Status
  <2>3. QED
    BY <2>1, <2>2
<1>6. Held(pool, "count", keys)' = Held(pool, "count", keys)
          + (LocalNext("count", keys, g) - LocalDue("count", keys, g))
  BY <1>1, LocalNewHeld, LocalMoreHeld
<1>7. group'[g].state = "hot" /\ \A h \in Groups : h # g => group'[h] = group[h]
  BY <1>2 DEF GroupGoes
<1>8. QED
  BY <1>3, <1>4, <1>5, <1>6, <1>7, LocalCover

LEMMA IngestCover ==
    ASSUME Rows, Rows', RewriteRows, Alone, Ingest, NEW keys \in SUBSET Keys, CoveredOn(keys)
    PROVE  CoveredOn(keys)'
BY RelayNewCover, RelayMoreCover, IngestLocalCover DEF Ingest

(* Pools with the same column hold the same.                                 *)
LEMMA SameColumn ==
    ASSUME NEW pools, NEW after, NEW f, NEW keys,
           \A k \in Keys : FieldOf(after[k], f) = FieldOf(pools[k], f)
    PROVE  Held(after, f, keys) = Held(pools, f, keys)
<1>1. [k \in Keys |-> FieldOf(after[k], f)] = [k \in Keys |-> FieldOf(pools[k], f)]
  OBVIOUS
<1>2. QED
  BY <1>1 DEF Held

LEMMA FinalizeCover ==
    ASSUME Rows, Rows', Alone, NEW g \in Groups, FinalizeGroup(g), NEW keys \in SUBSET Keys, CoveredOn(keys)
    PROVE  CoveredOn(keys)'
<1> DEFINE done == WithStatus(g, "reconciled")
           key == KeyOf(g)
           gap == GapKey(CommitsOf(g))
           mid == Shift(Movers(done, key), To(key))
<1>1. TypeOK /\ "count" \in Columns
  BY RowsFacts DEF Columns
<1>2. /\ group[g].state = "hot"
      /\ \A k \in Keys : pool'[k] = IF k = gap THEN Plus(mid[k], GapsOf(g)) ELSE mid[k]
      /\ mid \in [Keys -> Amounts]
  BY FinalizeFacts
<1>3. GroupGoes(g, "final", group[g].alloc, group[g].usage) /\ RewriteWaits
  BY <1>1, ExpiryGroupGoes, OthersWait DEF Expiry
<1>4. ClaimsGo(Status, Dropped(PtrTo(done, key), pool'))
  BY FinalizeFacts
<1>5. Held(mid, "count", keys) = Held(pool, "count", keys)
  <2>1. Movers(done, key) = {}
    <3>1. \A q \in done : q \in Requests /\ claim[q].status = "reconciled" /\ GroupOf[q] = g
      BY WithStatusFacts
    <3>2. \A q \in done : claim[q].ptr = key
      BY <1>2, <3>1, CountedIs, AloneFacts
    <3>3. QED
      BY <3>2 DEF Movers
  <2> HIDE DEF done, key
  <2>2. Movers(done, key) \in SUBSET Requests /\ \A q \in Movers(done, key) : claim[q].ptr \in keys <=> To(key)[q] \in keys
    BY <2>1
  <2>3. QED
    BY <1>1, <2>2, SameHeld
<1>6. \A k \in Keys : FieldOf(pool'[k], "count") = FieldOf(mid[k], "count")
  <2> HIDE DEF mid, gap
  <2> SUFFICES ASSUME NEW k \in Keys
               PROVE  FieldOf(pool'[k], "count") = FieldOf(mid[k], "count")
    OBVIOUS
  <2>1. mid[k].count \in Nat
    BY <1>2 DEF Amounts
  <2>2. Plus(mid[k], GapsOf(g)).count = mid[k].count + 0
    BY GapsFacts, FieldOfAmount DEF Plus
  <2>3. QED
    BY <1>2, <2>1, <2>2 DEF FieldOf
<1>7. Held(pool, "count", keys)' = Held(pool, "count", keys)
  <2> HIDE DEF mid
  <2>1. Held(pool', "count", keys) = Held(mid, "count", keys)
    BY <1>6, SameColumn
  <2>2. QED
    BY <1>5, <2>1 DEF Held
<1>8. StillLocal
  BY <1>3 DEF StillLocal, GroupGoes, Groups
<1>9. \A q \in Requests : CountedNext(q) => Counted(q) /\ group'[GroupOf[q]].alloc = group[GroupOf[q]].alloc
  <2>1. \A q \in Requests : claim'[q].status = claim[q].status
    BY <1>4 DEF ClaimsGo, Status
  <2>2. QED
    BY <1>3, <2>1, CountedIs DEF CountedNext, GroupGoes
<1>10. QED
  BY <1>3, <1>7, <1>8, <1>9, LessCover

LEMMA ExpiryCover ==
    ASSUME Rows, Rows', Alone, Expiry, NEW keys \in SUBSET Keys, CoveredOn(keys)
    PROVE  CoveredOn(keys)'
<1>1. TypeOK /\ RewriteWaits
  BY RowsFacts, OthersWait
<1>2. ASSUME UNCHANGED <<claim, pool>>,
             \A g \in Groups : group'[g].state = "hot" => group[g].state = "hot" /\ group'[g].alloc = group[g].alloc
                                                          /\ group'[g].usage = group[g].usage
      PROVE  CoveredOn(keys)'
  <2>1. StillLocal
    BY <1>2 DEF StillLocal, Groups
  <2>2. \A q \in Requests : CountedNext(q) => Counted(q) /\ group'[GroupOf[q]].alloc = group[GroupOf[q]].alloc
    BY <1>2, CountedIs DEF CountedNext
  <2>3. QED
    BY <1>1, <1>2, <2>1, <2>2, SamePoolHeld, LessCover
<1>3. ASSUME NEW g \in Groups, GrowsOld(g)
      PROVE  CoveredOn(keys)'
  <2>1. GroupGoes(g, "hot", group[g].alloc, group[g].usage) /\ group[g].state = "hot" /\ UNCHANGED <<claim, pool>>
    BY <1>1, <1>3, ExpiryGroupGoes DEF GrowsOld, Hot
  <2>2. QED
    BY <1>2, <2>1 DEF GroupGoes
<1>4. CASE Cleanup
  <2>1. UNCHANGED <<claim, pool>>
    BY <1>4 DEF Cleanup
  <2>2. \A g \in Groups : group'[g].state = "hot" => group[g].state = "hot" /\ group'[g].alloc = group[g].alloc
                                                     /\ group'[g].usage = group[g].usage
    BY <1>1, <1>4, CleanupGoes
  <2>3. QED
    BY <1>2, <2>1, <2>2
<1>5. QED
  BY <1>3, <1>4, FinalizeCover DEF Expiry

LEMMA StutterCover ==
    ASSUME Rows, Rows', UNCHANGED vars, NEW keys \in SUBSET Keys, CoveredOn(keys)
    PROVE  CoveredOn(keys)'
<1>1. RewriteWaits /\ UNCHANGED <<group, claim, pool>>
  BY RowsFacts, OthersWait DEF vars
<1>2. StillLocal
  BY <1>1 DEF StillLocal
<1>3. \A q \in Requests : CountedNext(q) => Counted(q) /\ group'[GroupOf[q]].alloc = group[GroupOf[q]].alloc
  BY <1>1, CountedIs DEF CountedNext
<1>4. QED
  BY <1>1, <1>2, <1>3, SamePoolHeld, LessCover

-----------------------------------------------------------------------------
(* Pools hold what points to them: steps of a rewrite                        *)

(* The pools from before, or others, hold enough.                            *)
LEMMA CoverLess ==
    ASSUME Rows, Rows', NEW keys \in SUBSET Keys, NEW other \in SUBSET Keys, CoveredOn(other),
           \A q \in Requests : PointedNext(keys, q) <= Pointed1(other, q),
           \A g \in LocalGroups : InNext(keys, g) <= LocalIn(other, g),
           Held(pool, "count", other) - Double("count", other)
               <= Held(pool, "count", keys)' - Double("count", keys)'
    PROVE  CoveredOn(keys)'
<1>1. TypeOK /\ group' \in [Groups -> Group] /\ "count" \in Columns
  BY RowsFacts DEF Rows, TypeOK, Columns
<1>2. PICK o \in Int : o = 0
  OBVIOUS
<1>3. PointersIn(keys)' <= PointersIn(other) + o
  <2>1. PointersIn(keys)' <= PointersIn(other)
    BY PointersLess
  <2>2. QED
    BY <1>2, <2>1, PointersType
<1>4. UsageIn(keys)' <= UsageIn(other) + o
  <2>1. UsageIn(keys)' <= UsageIn(other)
    BY <1>1, UsageLess
  <2>2. QED
    BY <1>1, <1>2, <2>1, UsageInType
<1>5. Held(pool, "count", other) - Double("count", other) + o + o
          <= Held(pool, "count", keys)' - Double("count", keys)'
  <2>1. PICK h \in Int, d \in Int : h = Held(pool, "count", other) /\ d = Double("count", other)
    BY <1>1, SumsAreInt
  <2>2. h - d + o + o = h - d
    BY <1>2
  <2>3. QED
    BY <2>1, <2>2
<1>6. QED
  BY <1>3, <1>4, <1>5, CoverStep

(* Turns and outcomes stay, and with them what is counted.                   *)
LEMMA StillPointed ==
    ASSUME UNCHANGED group, \A q \in Requests : claim'[q].status = claim[q].status,
           NEW keys, NEW other, NEW q \in Requests,
           Counted(q) /\ KeyOf(GroupOf[q]) \in keys => KeyOf(GroupOf[q]) \in other
    PROVE  PointedNext(keys, q) <= Pointed1(other, q)
<1>1. CountedNext(q) <=> Counted(q)
  BY CountedIs DEF CountedNext
<1>2. KeyNext(GroupOf[q]) = KeyOf(GroupOf[q])
  BY DEF KeyNext, KeyOf, CommitsOf
<1>3. Pointed1(other, q) = IF Counted(q) /\ KeyOf(GroupOf[q]) \in other THEN 1 ELSE 0
  BY PointedIs
<1>4. QED
  BY <1>1, <1>2, <1>3 DEF PointedNext

LEMMA StillIn ==
    ASSUME TypeOK, UNCHANGED group, NEW keys, NEW other, NEW g \in LocalGroups,
           group[g].state = "hot" /\ UnderNext(g) \subseteq keys => Under(g) \subseteq other
    PROVE  InNext(keys, g) <= LocalIn(other, g)
<1>1. LocalIn(other, g) = IF group[g].state = "hot" /\ Under(g) \subseteq other THEN group[g].usage ELSE 0
  BY InIs
<1>2. LocalIn(other, g) \in Nat
  BY UsageInType
<1>3. group[g].usage \in Nat
  BY UsageType DEF Groups
<1>4. QED
  BY <1>1, <1>2, <1>3 DEF InNext

LEMMA QuietCover ==
    ASSUME Rows, Rows', UNCHANGED <<group, claim, pool>>, rw.pc # "delete", rw'.pc # "delete",
           \A g \in LocalGroups : UnderNext(g) = Under(g),
           NEW keys \in SUBSET Keys, CoveredOn(keys)
    PROVE  CoveredOn(keys)'
<1>1. TypeOK /\ "count" \in Columns
  BY RowsFacts DEF Columns
<1>2. \A q \in Requests : PointedNext(keys, q) <= Pointed1(keys, q)
  BY StillPointed
<1>3. \A g \in LocalGroups : InNext(keys, g) <= LocalIn(keys, g)
  BY <1>1, StillIn
<1>4. Double("count", keys)' = 0 /\ Double("count", keys) = 0
  BY DoubleIs DEF DoubleNext, Double
<1>5. PICK h \in Int : h = Held(pool, "count", keys)
  BY <1>1, SumsAreInt
<1>6. Held(pool, "count", keys)' = h
  BY <1>5, SamePoolHeld
<1>7. h - 0 <= h - 0
  OBVIOUS
<1>8. Held(pool, "count", keys) - Double("count", keys)
          <= Held(pool, "count", keys)' - Double("count", keys)'
  BY <1>4, <1>5, <1>6, <1>7
<1>9. QED
  BY <1>2, <1>3, <1>8, CoverLess

(* The transaction stays in its commits.                                     *)
LEMMA SameRewriteUnder ==
    ASSUME UNCHANGED group, rw'.old = rw.old, rw'.new = rw.new, rw'.targets = rw.targets,
           rw'.pc \in {"idle", "groups"} <=> rw.pc \in {"idle", "groups"}, NEW g
    PROVE  UnderNext(g) = Under(g)
BY UnderIs DEF UnderNext, KeyNext, KeyOf, CommitsOf

LEMMA BeginCover ==
    ASSUME Rows, Rows', NEW r \in Rewrites, RewriteBegin(r), NEW keys \in SUBSET Keys, CoveredOn(keys)
    PROVE  CoveredOn(keys)'
<1>1. rw.pc = "idle" /\ rw'.pc = "groups" /\ UNCHANGED <<group, claim, pool>>
  BY BeginFacts DEF RewriteBegin
<1>2. \A g : UnderNext(g) = Under(g)
  BY <1>1, UnderIs DEF UnderNext, KeyNext, KeyOf, CommitsOf
<1>3. QED
  BY <1>1, <1>2, QuietCover

LEMMA FailsCover ==
    ASSUME Rows, Rows', RewriteFails, NEW keys \in SUBSET Keys, CoveredOn(keys)
    PROVE  CoveredOn(keys)'
<1>1. rw.pc = "groups" /\ rw'.pc = "idle" /\ UNCHANGED <<group, claim, pool>>
  BY RowsFacts, EndFacts DEF RewriteFails
<1>2. \A g : UnderNext(g) = Under(g)
  BY <1>1, UnderIs DEF UnderNext, KeyNext, KeyOf, CommitsOf
<1>3. QED
  BY <1>1, <1>2, QuietCover

LEMMA ReadPoolCover ==
    ASSUME Rows, Rows', NEW k \in Keys, ReadPool(k), NEW keys \in SUBSET Keys, CoveredOn(keys)
    PROVE  CoveredOn(keys)'
<1>1. /\ rw.pc = "pools" /\ rw'.pc \in {"pools", "move"} /\ UNCHANGED <<group, claim, pool>>
      /\ rw'.old = rw.old /\ rw'.new = rw.new /\ rw'.targets = rw.targets
  BY ReadPoolFacts
<1>2. \A g : UnderNext(g) = Under(g)
  BY <1>1, SameRewriteUnder
<1>3. QED
  BY <1>1, <1>2, QuietCover

LEMMA RenamedSame ==
    ASSUME NEW S, NEW old, NEW new, old \notin S
    PROVE  Renamed(S, old, new) = S
BY DEF Renamed

(* A pool of the old commit that some turn may be counted in: the pool of    *)
(* the renamed commits is another one.                                       *)
LEMMA UnderTarget ==
    ASSUME Rows, RewriteRows, Alone, rw.pc \in {"move", "delete"}, NEW g \in Groups,
           group[g].state = "hot", rw.key \in Under(g)
    PROVE  Target \in Under(g)
<1>1. rw.old \notin CommitsOf(g) /\ rw.old \in rw.key.commits
  BY AloneFacts, RewriteFacts
<1>2. Target \in Keys /\ Target.gap = rw.key.gap /\ Target.commits = Renamed(rw.key.commits, rw.old, rw.new)
  BY TargetFacts
<1>3. CASE Locked(g)
  <2>1. Under(g) = {k \in Keys : ~ k.gap /\ Renamed(k.commits, rw.old, rw.new) = CommitsOf(g)}
    BY <1>3 DEF Under
  <2>2. ~ rw.key.gap /\ Renamed(rw.key.commits, rw.old, rw.new) = CommitsOf(g)
    BY <2>1
  <2>3. Target.commits = CommitsOf(g) /\ Renamed(CommitsOf(g), rw.old, rw.new) = CommitsOf(g)
    BY <1>1, <1>2, <2>2, RenamedSame
  <2>4. QED
    BY <1>2, <2>1, <2>2, <2>3
<1>4. CASE ~ Locked(g)
  <2>1. rw.key = KeyOf(g)
    BY <1>4 DEF Under
  <2>2. QED
    BY <1>1, <2>1, KeyFacts DEF KeyOf
<1>5. QED
  BY <1>3, <1>4

LEMMA MoveCover ==
    ASSUME Tables, Rows', Lines, RewriteRows, Alone, MovePool, Covered, NEW keys \in SUBSET Keys
    PROVE  CoveredOn(keys)'
<1>1. Rows /\ TypeOK /\ "count" \in Columns
  BY RowsFacts DEF Tables, Columns
<1>2. /\ rw.pc = "move" /\ rw'.pc = "delete" /\ rw'.key = rw.key /\ rw'.sum = rw.sum
      /\ rw'.old = rw.old /\ rw'.new = rw.new /\ rw'.targets = rw.targets /\ UNCHANGED group
      /\ ClaimsGo(Status, PtrMoved(rw.key, Target))
      /\ pool' = Given(pool, Target, Plus(pool[Target], rw.sum))
  BY <1>1, MoveFacts
<1>3. \A q \in Requests : claim'[q].status = claim[q].status
  BY <1>2 DEF ClaimsGo, Status
<1>4. \A g : UnderNext(g) = Under(g)
  BY <1>2, SameRewriteUnder
<1>5. Target \in Keys /\ rw.key \in Keys /\ rw.sum \in Amounts /\ rw.sum.count \in Nat /\ pool[rw.key] = rw.sum
      /\ rw.old \in rw.key.commits
  BY <1>1, <1>2, TargetFacts, AloneFacts, RewriteFacts DEF Amounts
<1>6. \A k \in Keys : pool[k].count \in Nat
  BY <1>1, RowsFacts DEF Amounts
<1>7. /\ pool'[Target] = Plus(pool[Target], rw.sum)
      /\ \A j \in Keys : j # Target => pool'[j] = pool[j]
  BY <1>1, <1>2, <1>5, RowsFacts DEF Given
<1>8. \A x, y : FieldOf(Plus(x, y), "count") = x.count + y.count /\ FieldOf(x, "count") = x.count
  BY <1>1, FieldOfPlus DEF FieldOf
<1>9. Held(pool, "count", keys)' = Held(pool, "count", keys) + (IF Target \in keys THEN rw.sum.count ELSE 0)
  <2>1. FieldOf(pool'[Target], "count") = pool[Target].count + rw.sum.count
    BY <1>7, <1>8
  <2>2. \A j \in Keys : FieldOf(pool[j], "count") \in Int /\ FieldOf(pool'[j], "count") \in Int
    BY <1>5, <1>6, <1>7, <1>8, <2>1
  <2>3. DifferAt(Target, "count", pool, pool')
    BY <1>7, <2>2 DEF DifferAt
  <2>4. Held(pool', "count", keys) = Held(pool, "count", keys)
            + (IF Target \in keys THEN FieldOf(pool'[Target], "count") - FieldOf(pool[Target], "count") ELSE 0)
    BY <1>1, <1>5, <2>3, OneHeld
  <2>5. FieldOf(pool'[Target], "count") - FieldOf(pool[Target], "count") = rw.sum.count
    BY <1>5, <1>6, <1>8, <2>1
  <2>6. QED
    BY <2>4, <2>5 DEF Held
<1>10. Double("count", keys)' = IF rw.key \in keys THEN rw.sum.count ELSE 0
  BY <1>2, <1>8, DoubleIs DEF DoubleNext
<1>11. \A other : Double("count", other) = 0
  BY <1>2 DEF Double
<1>12. CASE rw.key \notin keys \/ Target \in keys
  <2>1. \A q \in Requests : PointedNext(keys, q) <= Pointed1(keys, q)
    BY <1>2, <1>3, StillPointed
  <2>2. \A g \in LocalGroups : InNext(keys, g) <= LocalIn(keys, g)
    BY <1>1, <1>2, <1>4, StillIn
  <2>3. PICK h \in Int, s \in Nat : h = Held(pool, "count", keys) /\ s = rw.sum.count
    BY <1>1, <1>5, SumsAreInt
  <2>4. Held(pool, "count", keys) - Double("count", keys)
            <= Held(pool, "count", keys)' - Double("count", keys)'
    BY <1>9, <1>10, <1>11, <1>12, <2>3
  <2>5. CoveredOn(keys)
    BY DEF Covered
  <2>6. QED
    BY <1>1, <2>1, <2>2, <2>4, <2>5, CoverLess
<1>13. CASE rw.key \in keys /\ Target \notin keys
  <2> DEFINE other == keys \ {rw.key}
  <2>1. other \in SUBSET Keys
    OBVIOUS
  <2>2. \A q \in Requests : PointedNext(keys, q) <= Pointed1(other, q)
    <3> SUFFICES ASSUME NEW q \in Requests
                 PROVE  PointedNext(keys, q) <= Pointed1(other, q)
      OBVIOUS
    <3>1. ASSUME Counted(q), KeyOf(GroupOf[q]) \in keys
          PROVE  KeyOf(GroupOf[q]) \in other
      <4>1. group[GroupOf[q]].state = "hot" /\ GroupOf[q] \in Groups
        BY <3>1, CountedIs
      <4>2. rw.old \notin KeyOf(GroupOf[q]).commits
        BY <1>2, <4>1, AloneFacts, KeyFacts DEF KeyOf
      <4>3. QED
        BY <1>5, <3>1, <4>2
    <3>2. QED
      BY <1>2, <1>3, <3>1, StillPointed
  <2>3. \A g \in LocalGroups : InNext(keys, g) <= LocalIn(other, g)
    <3> SUFFICES ASSUME NEW g \in LocalGroups
                 PROVE  InNext(keys, g) <= LocalIn(other, g)
      OBVIOUS
    <3>1. ASSUME group[g].state = "hot", UnderNext(g) \subseteq keys
          PROVE  Under(g) \subseteq other
      <4>1. Under(g) \subseteq keys /\ Target \notin Under(g)
        BY <1>4, <1>13, <3>1
      <4>2. rw.key \notin Under(g)
        BY <1>1, <1>2, <3>1, <4>1, UnderTarget DEF Groups
      <4>3. QED
        BY <4>1, <4>2
    <3>2. QED
      BY <1>1, <1>2, <3>1, StillIn
  <2> HIDE DEF other
  <2>4. Held(pool, "count", keys) = pool[rw.key].count + Held(pool, "count", other)
    <3>1. Held(pool, "count", keys) = SumFunctionOnSet(Column(pool, "count"), keys)
      BY <1>1, SumsAreInt
    <3>2. Held(pool, "count", other) = SumFunctionOnSet(Column(pool, "count"), other)
      BY <1>1, <2>1, SumsAreInt
    <3>3. \A k \in Keys : Column(pool, "count")[k] = pool[k].count
      BY <1>8 DEF Column
    <3>4. \A k \in keys : Column(pool, "count")[k] \in Int
      BY <1>6, <3>3
    <3>5. IsFiniteSet(keys)
      BY PartsAreFinite
    <3>6. SumFunctionOnSet(Column(pool, "count"), keys)
              = Column(pool, "count")[rw.key] + SumFunctionOnSet(Column(pool, "count"), keys \ {rw.key})
      BY <1>13, <3>4, <3>5, SumRemove
    <3>7. QED
      BY <1>5, <3>1, <3>2, <3>3, <3>6 DEF other
  <2>5. PICK h \in Int, s \in Nat : h = Held(pool, "count", other) /\ s = rw.sum.count
    BY <1>1, <1>5, <2>1, SumsAreInt
  <2>6. Held(pool, "count", other) - Double("count", other)
            <= Held(pool, "count", keys)' - Double("count", keys)'
    <3>1. Held(pool, "count", keys)' = (s + h) + 0
      BY <1>5, <1>9, <1>13, <2>4, <2>5
    <3>2. Double("count", keys)' = s
      BY <1>10, <1>13, <2>5
    <3>3. h - 0 <= ((s + h) + 0) - s
      OBVIOUS
    <3>4. QED
      BY <1>11, <2>5, <3>1, <3>2, <3>3
  <2>7. CoveredOn(other)
    BY <2>1 DEF Covered
  <2>8. QED
    BY <1>1, <2>1, <2>2, <2>3, <2>6, <2>7, CoverLess
<1>14. QED
  BY <1>12, <1>13

LEMMA DeleteCover ==
    ASSUME Tables, Rows', RewriteRows, Alone, DeletePool, NEW keys \in SUBSET Keys, CoveredOn(keys)
    PROVE  CoveredOn(keys)'
<1>1. Rows /\ TypeOK /\ "count" \in Columns
  BY RowsFacts DEF Tables, Columns
<1>2. /\ rw.pc = "delete" /\ rw'.pc = "pools"
      /\ rw'.old = rw.old /\ rw'.new = rw.new /\ rw'.targets = rw.targets /\ UNCHANGED group
      /\ ClaimsGo(Status, PtrMoved(rw.key, GonePool))
      /\ pool' = Given(pool, rw.key, Zero)
  BY <1>1, DeleteFacts
<1>3. \A q \in Requests : claim'[q].status = claim[q].status
  BY <1>2 DEF ClaimsGo, Status
<1>4. \A g : UnderNext(g) = Under(g)
  BY <1>2, SameRewriteUnder
<1>5. rw.key \in Keys /\ rw.sum.count \in Nat /\ pool[rw.key] = rw.sum
  BY <1>1, <1>2, TargetFacts, AloneFacts DEF Amounts
<1>6. \A k \in Keys : pool[k].count \in Nat
  BY <1>1, RowsFacts DEF Amounts
<1>7. pool'[rw.key] = Zero /\ \A j \in Keys : j # rw.key => pool'[j] = pool[j]
  BY <1>1, <1>2, <1>5, RowsFacts DEF Given
<1>8. \A x : FieldOf(x, "count") = x.count
  BY DEF FieldOf
<1>9. Held(pool, "count", keys)' = Held(pool, "count", keys) + (IF rw.key \in keys THEN 0 - rw.sum.count ELSE 0)
  <2>1. FieldOf(pool'[rw.key], "count") = 0
    BY <1>1, <1>7, FieldOfZero
  <2>2. \A j \in Keys : FieldOf(pool[j], "count") \in Int /\ FieldOf(pool'[j], "count") \in Int
    BY <1>6, <1>7, <1>8, <2>1
  <2>3. DifferAt(rw.key, "count", pool, pool')
    BY <1>7, <2>2 DEF DifferAt
  <2>4. Held(pool', "count", keys) = Held(pool, "count", keys)
            + (IF rw.key \in keys THEN FieldOf(pool'[rw.key], "count") - FieldOf(pool[rw.key], "count") ELSE 0)
    BY <1>1, <1>5, <2>3, OneHeld
  <2>5. FieldOf(pool[rw.key], "count") = rw.sum.count
    BY <1>5, <1>8
  <2>6. QED
    BY <2>1, <2>4, <2>5 DEF Held
<1>10. Double("count", keys) = IF rw.key \in keys THEN rw.sum.count ELSE 0
  BY <1>2, <1>8 DEF Double
<1>11. Double("count", keys)' = 0
  BY <1>2, DoubleIs DEF DoubleNext
<1>12. \A q \in Requests : PointedNext(keys, q) <= Pointed1(keys, q)
  BY <1>2, <1>3, StillPointed
<1>13. \A g \in LocalGroups : InNext(keys, g) <= LocalIn(keys, g)
  BY <1>1, <1>2, <1>4, StillIn
<1>14. PICK h \in Int, s \in Nat : h = Held(pool, "count", keys) /\ s = rw.sum.count
  BY <1>1, <1>5, SumsAreInt
<1>15. Held(pool, "count", keys) - Double("count", keys)
           <= Held(pool, "count", keys)' - Double("count", keys)'
  BY <1>9, <1>10, <1>11, <1>14
<1>16. QED
  BY <1>1, <1>12, <1>13, <1>15, CoverLess

(* The old commit's pools are gone, and with them the turns in them.         *)
LEMMA CommitCover ==
    ASSUME Rows, Rows', RewriteRows, Alone, RewriteCommit, Covered, NEW keys \in SUBSET Keys
    PROVE  CoveredOn(keys)'
<1> DEFINE olds == {k \in Keys : rw.old \in k.commits}
           other == keys \cup olds
<1>1. TypeOK /\ "count" \in Columns
  BY RowsFacts DEF Columns
<1>2. rw.pc = "pools" /\ rw.todo = {} /\ UNCHANGED <<group, claim, pool>> /\ rw'.pc = "idle"
  BY <1>1, EndFacts DEF RewriteCommit
<1>3. other \in SUBSET Keys /\ olds \in SUBSET Keys
  OBVIOUS
<1>4. \A k \in olds : pool[k].count = 0
  <2>1. \A k \in Keys : pool[k].count \in Nat /\ pool[k].gaps \in Nat
    BY RowsFacts DEF Amounts
  <2>2. \A k \in olds : ~ Exists(k)
    BY <1>2, AloneFacts
  <2>3. QED
    BY <1>3, <2>1, <2>2 DEF Exists
<1>5. \A q \in Requests : PointedNext(keys, q) <= Pointed1(other, q)
  BY <1>2, StillPointed
<1>6. \A g \in LocalGroups : InNext(keys, g) <= LocalIn(other, g)
  <2> SUFFICES ASSUME NEW g \in LocalGroups
               PROVE  InNext(keys, g) <= LocalIn(other, g)
    OBVIOUS
  <2>1. ASSUME group[g].state = "hot", UnderNext(g) \subseteq keys
        PROVE  Under(g) \subseteq other
    <3>1. UnderNext(g) = {KeyNext(g)} /\ KeyNext(g) = KeyOf(g)
      BY <1>2 DEF UnderNext, KeyNext, KeyOf, CommitsOf
    <3>2. KeyOf(g) \in keys
      BY <2>1, <3>1
    <3>3. CASE Locked(g)
      <4> SUFFICES ASSUME NEW k \in Under(g), k \notin olds
                   PROVE  k \in keys
        OBVIOUS
      <4>1. k \in Keys /\ ~ k.gap /\ Renamed(k.commits, rw.old, rw.new) = CommitsOf(g)
        BY <3>3 DEF Under
      <4>2. rw.old \notin k.commits
        BY <4>1
      <4>3. k.commits = CommitsOf(g)
        BY <4>1, <4>2, RenamedSame
      <4>4. k = KeyOf(g)
        BY <4>1, <4>3, KeyFacts DEF KeyOf
      <4>5. QED
        BY <3>2, <4>4
    <3>4. CASE ~ Locked(g)
      BY <3>2, <3>4 DEF Under
    <3>5. QED
      BY <3>3, <3>4
  <2>2. QED
    BY <1>1, <1>2, <2>1, StillIn
<1>7. Held(pool, "count", other) = Held(pool, "count", keys)
  <2> HIDE DEF olds
  <2>1. Held(pool, "count", keys) = SumFunctionOnSet(Column(pool, "count"), keys)
    BY <1>1, SumsAreInt
  <2>2. Held(pool, "count", other) = SumFunctionOnSet(Column(pool, "count"), other)
    BY <1>1, <1>3, SumsAreInt
  <2>3. \A k \in Keys : Column(pool, "count")[k] = pool[k].count /\ pool[k].count \in Int
    BY RowsFacts DEF Column, FieldOf, Amounts
  <2>4. \A k \in other : Column(pool, "count")[k] \in Int
    BY <1>3, <2>3
  <2>5. \A k \in other \ keys : Column(pool, "count")[k] = 0
    BY <1>3, <1>4, <2>3
  <2>6. IsFiniteSet(other) /\ keys \in SUBSET other
    BY <1>3, PartsAreFinite
  <2>7. QED
    BY <2>1, <2>2, <2>4, <2>5, <2>6, SumSupport
<1>8. Held(pool, "count", keys)' = Held(pool, "count", keys)
  BY <1>2, SamePoolHeld
<1>9. Double("count", other) = 0 /\ Double("count", keys)' = 0
  BY <1>2, DoubleIs DEF DoubleNext, Double
<1> HIDE DEF other
<1>10. PICK h \in Int : h = Held(pool, "count", keys)
  BY <1>1, SumsAreInt
<1>11. h - 0 <= h - 0
  OBVIOUS
<1>12. Held(pool, "count", other) - Double("count", other)
           <= Held(pool, "count", keys)' - Double("count", keys)'
  BY <1>7, <1>8, <1>9, <1>10, <1>11
<1>13. CoveredOn(other)
  BY <1>3 DEF Covered
<1>14. QED
  BY <1>3, <1>5, <1>6, <1>12, <1>13, CoverLess

(* The turns a rewrite has seen leave the pools of the old commit.           *)
LEMMA RewriteGroupsCover ==
    ASSUME Rows, Rows', RewriteRows, Alone, RewriteGroups, NEW keys \in SUBSET Keys, CoveredOn(keys)
    PROVE  CoveredOn(keys)'
<1>1. TypeOK /\ group' \in [Groups -> Group]
  BY RowsFacts, RewriteGroupsGoes DEF Rows
<1>2. /\ rw.pc = "groups" /\ rw'.pc = "pools" /\ ~ rw.raced
      /\ rw'.old = rw.old /\ rw'.new = rw.new /\ rw'.targets = rw.targets
      /\ ClaimsGo(Status, Dropped(PtrNew, pool'))
  BY RewriteGroupsFacts
<1>3. \A g \in Groups : /\ group'[g].state = group[g].state /\ group'[g].usage = group[g].usage
                        /\ group'[g].alloc = IF g \in rw.targets THEN Replaced(g) ELSE group[g].alloc
  BY <1>1, RewriteGroupsGoes
<1>4. \A g \in rw.targets : group[g].state = "hot"
  BY <1>2, RewriteFacts
<1>5. Moved \in SUBSET Requests /\ pool' = Shift(Moved, ToNew)
      /\ \A q \in Moved : claim[q].status = "reconciled" /\ GroupOf[q] \in rw.targets
  BY MovedFacts
<1>6. \A g \in Groups : KeyNext(g) = IF g \in rw.targets THEN NewKey(g) ELSE KeyOf(g)
  BY <1>3 DEF KeyNext, KeyOf, CommitsOf, NewKey
<1>7. UsageIn(keys)' <= UsageIn(keys)
  <2>1. ASSUME NEW g \in LocalGroups
        PROVE  InNext(keys, g) <= LocalIn(keys, g)
    <3>1. g \in Groups /\ ~ Locked(g)
      BY <1>2 DEF Groups, Locked
    <3>2. LocalIn(keys, g) = IF group[g].state = "hot" /\ {KeyOf(g)} \subseteq keys THEN group[g].usage ELSE 0
      BY <3>1, InIs DEF Under
    <3>3. group[g].state = "hot" => KeyOf(g) \in UnderNext(g)
      <4>1. CASE g \in rw.targets
        <5>1. KeyOf(g) \in Keys /\ ~ KeyOf(g).gap /\ KeyOf(g).commits = CommitsOf(g)
          BY <1>1, <1>4, <3>1, <4>1, RowsFacts, KeyOfGroup
        <5>2. ToSet(group'[g].alloc) = Renamed(CommitsOf(g), rw.old, rw.new)
          BY <1>1, <1>3, <3>1, <4>1, ReplacedFacts
        <5>3. QED
          BY <1>2, <4>1, <5>1, <5>2 DEF UnderNext
      <4>2. CASE g \notin rw.targets
        BY <1>2, <1>6, <3>1, <4>2 DEF UnderNext
      <4>3. QED
        BY <4>1, <4>2
    <3>4. LocalIn(keys, g) \in Nat /\ group[g].usage \in Nat
      BY <1>1, <3>1, UsageInType, UsageType
    <3>5. group'[g].state = group[g].state /\ group'[g].usage = group[g].usage
      BY <1>3, <3>1
    <3>6. QED
      BY <3>2, <3>3, <3>4, <3>5 DEF InNext
  <2>2. QED
    BY <1>1, <2>1, UsageLess
<1>8. Double("count", keys)' = Double("count", keys)
  BY <1>2, DoubleIs DEF DoubleNext, Double
<1>9. ASSUME NEW q \in Requests
      PROVE  PointedNext(keys, q) = (Pointed1(keys, q) - (IF q \in Moved /\ Ptr[q] \in keys THEN 1 ELSE 0))
                                    + (IF q \in Moved /\ ToNew[q] \in keys THEN 1 ELSE 0)
  <2>1. GroupOf[q] \in Groups /\ Ptr[q] = claim[q].ptr /\ ToNew[q] = NewKey(GroupOf[q])
    BY CountedIs DEF Ptr, ToNew
  <2>2. CountedNext(q) <=> Counted(q)
    BY <1>2, <1>3, CountedIs DEF CountedNext, ClaimsGo, Status
  <2>3. /\ Pointed1(keys, q) = IF Counted(q) /\ KeyOf(GroupOf[q]) \in keys THEN 1 ELSE 0
        /\ PointedNext(keys, q) = IF Counted(q) /\ KeyNext(GroupOf[q]) \in keys THEN 1 ELSE 0
    BY <2>2, PointedIs DEF PointedNext
  <2>4. Counted(q) => claim[q].ptr = KeyOf(GroupOf[q])
    BY AloneFacts
  <2>5. CASE q \in Moved
    <3>1. Counted(q) /\ KeyNext(GroupOf[q]) = NewKey(GroupOf[q])
      BY <1>4, <1>5, <1>6, <2>1, <2>5, CountedIs
    <3>2. QED
      BY <2>1, <2>3, <2>4, <2>5, <3>1
  <2>6. CASE q \notin Moved
    <3>1. Counted(q) => KeyNext(GroupOf[q]) = KeyOf(GroupOf[q])
      <4>1. CASE GroupOf[q] \in rw.targets
        <5>1. Counted(q) => claim[q].ptr = ToNew[q]
          BY <2>6, <4>1, CountedIs DEF Moved
        <5>2. QED
          BY <1>6, <2>1, <2>4, <4>1, <5>1
      <4>2. CASE GroupOf[q] \notin rw.targets
        BY <1>6, <2>1, <4>2
      <4>3. QED
        BY <4>1, <4>2
    <3>2. QED
      BY <2>3, <2>6, <3>1
  <2>7. QED
    BY <2>5, <2>6
<1>10. QED
  BY <1>5, <1>7, <1>8, <1>9, ShiftCovers

LEMMA CoveredStep ==
    ASSUME Tables, Tables', Lines, RewriteRows, Alone, Covered, [Next]_vars
    PROVE  Covered'
<1>1. Rows /\ Rows'
  BY DEF Tables
<1>2. ASSUME NEW keys \in SUBSET Keys
      PROVE  CoveredOn(keys)'
  <2>1. CoveredOn(keys)
    BY DEF Covered
  <2>2. CASE Ingest \/ Work \/ Expiry \/ UNCHANGED vars
    BY <1>1, <2>1, <2>2, IngestCover, WorkCover, ExpiryCover, StutterCover
  <2>3. CASE Rewriting
    <3>1. ASSUME NEW r \in Rewrites, RewriteBegin(r)
          PROVE  CoveredOn(keys)'
      BY <1>1, <2>1, <3>1, BeginCover
    <3>2. ASSUME NEW k \in Keys, ReadPool(k)
          PROVE  CoveredOn(keys)'
      BY <1>1, <2>1, <3>2, ReadPoolCover
    <3>3. CASE RewriteGroups
      BY <1>1, <2>1, <3>3, RewriteGroupsCover
    <3>4. CASE RewriteFails
      BY <1>1, <2>1, <3>4, FailsCover
    <3>5. CASE MovePool
      BY <1>1, <3>5, MoveCover
    <3>6. CASE DeletePool
      BY <1>1, <2>1, <3>6, DeleteCover
    <3>7. CASE RewriteCommit
      BY <1>1, <3>7, CommitCover
    <3>8. QED
      BY <2>3, <3>1, <3>2, <3>3, <3>4, <3>5, <3>6, <3>7 DEF Rewriting
  <2>4. QED
    BY <2>2, <2>3 DEF Next
<1>3. QED
  BY <1>2 DEF Covered

LEMMA CoveredBegin ==
    ASSUME Init
    PROVE  Covered
<1>1. SUFFICES ASSUME NEW keys \in SUBSET Keys
               PROVE  CoveredOn(keys)
  BY DEF Covered
<1>2. \A q \in Requests : PointedTab(keys)[q] = 0
  BY DEF Init, PointedTab, Pointed1, Counted, Stored, Hot, Reconciled
<1>3. \A g \in LocalGroups : InTab(keys)[g] = 0
  BY DEF Init, InTab, LocalIn, Hot, Groups
<1>4. \A k \in keys : Column(pool, "count")[k] = 0
  <2>1. \A k \in keys : pool[k] = Zero
    BY DEF Init
  <2>2. QED
    BY <2>1, FieldOfAmount DEF Column, Zero
<1>5. Double("count", keys) = 0
  BY DEF Init, Double
<1>6. PointersIn(keys) = 0
  BY <1>2, PointedIs, PartsAreFinite, SumZero
<1>7. UsageIn(keys) = 0
  BY <1>3, InIs, PartsAreFinite, SumZero
<1>8. Held(pool, "count", keys) = 0
  <2>1. IsFiniteSet(keys)
    BY PartsAreFinite
  <2>2. Held(pool, "count", keys) = SumFunctionOnSet(Column(pool, "count"), keys)
    BY DEF Held, Column
  <2>3. QED
    BY <1>4, <2>1, <2>2, SumZero
<1>9. QED
  BY <1>5, <1>6, <1>7, <1>8 DEF CoveredOn

-----------------------------------------------------------------------------
(* Requests stay counted at home                                             *)

HeldAt(q) == Counted(q) => pool[KeyOf(GroupOf[q])].count > 0

LEMMA HomeHeld ==
    ASSUME NEW q \in Requests
    PROVE  Rows /\ Covered => HeldAt(q)
<1> SUFFICES ASSUME Rows, Covered, Counted(q)
             PROVE  pool[KeyOf(GroupOf[q])].count > 0
  BY DEF HeldAt
<1> DEFINE key == KeyOf(GroupOf[q])
           keys == {key}
<1>1. TypeOK /\ "count" \in Columns /\ key \in Keys /\ keys \in SUBSET Keys
  <2>1. claim[q].status = "reconciled"
    BY CountedIs
  <2>2. QED
    BY <2>1, RowsFacts, KeyOfRequest DEF Columns
<1>2. Pointed1(keys, q) = 1
  BY DEF Pointed1
<1> HIDE DEF key
<1>3. 1 <= PointersIn(keys)
  <2>1. \A p \in Requests : PointedTab(keys)[p] \in Nat
    BY PointedIs
  <2>2. \A p \in Requests : PointedTab(keys)[p] <= SumFunctionOnSet(PointedTab(keys), Requests)
    BY <2>1, PartsAreFinite, SumMonotone
  <2>3. PointedTab(keys)[q] = 1
    BY <1>2, PointedIs
  <2>4. 1 <= SumFunctionOnSet(PointedTab(keys), Requests)
    BY <2>2, <2>3
  <2>5. PointersIn(keys) = SumFunctionOnSet(PointedTab(keys), Requests)
    BY PointedIs
  <2>6. QED
    BY <2>4, <2>5
<1>4. PICK p \in Nat, u \in Nat : p = PointersIn(keys) /\ u = UsageIn(keys)
  BY <1>1, PointersType, UsageInType
<1>5. Double("count", keys) \in Nat
  <2>1. rw.sum.count \in Nat
    BY TargetFacts DEF Amounts
  <2>2. QED
    BY <2>1 DEF Double, FieldOf
<1>6. Held(pool, "count", keys) = pool[key].count /\ pool[key].count \in Nat
  <2>1. \A k \in Keys : Column(pool, "count")[k] = pool[k].count /\ pool[k].count \in Nat
    BY RowsFacts DEF Column, FieldOf, Amounts
  <2>2. Held(pool, "count", keys) = SumFunctionOnSet(Column(pool, "count"), keys)
    BY <1>1, SumsAreInt
  <2>3. SumFunctionOnSet(Column(pool, "count"), {}) = 0
    BY SumEmpty
  <2>4. SumFunctionOnSet(Column(pool, "count"), keys)
            = Column(pool, "count")[key] + SumFunctionOnSet(Column(pool, "count"), keys \ {key})
    <3>1. \A k \in keys : Column(pool, "count")[k] \in Int
      BY <1>1, <2>1
    <3>2. IsFiniteSet(keys) /\ key \in keys
      BY <1>1, PartsAreFinite
    <3>3. QED
      BY <3>1, <3>2, SumRemove
  <2>5. keys \ {key} = {}
    OBVIOUS
  <2>6. QED
    BY <1>1, <2>1, <2>2, <2>3, <2>4, <2>5
<1>7. p + u <= pool[key].count - Double("count", keys)
  BY <1>1, <1>4, <1>6 DEF Covered, CoveredOn
<1>8. PICK c \in Nat, d \in Nat : c = pool[key].count /\ d = Double("count", keys)
  BY <1>5, <1>6
<1>9. QED
  BY <1>3, <1>4, <1>7, <1>8 DEF key

LEMMA HomeHeldNext ==
    ASSUME NEW q \in Requests
    PROVE  Rows' /\ Covered' => HeldAt(q)'
<1>1. Rows /\ Covered => HeldAt(q)
  BY HomeHeld
<1>2. QED
  BY <1>1, PTL

LEMMA AtHomeStep ==
    ASSUME Tables, Tables', RewriteRows, Alone, Covered', [Next]_vars
    PROVE  AtHome'
<1>1. Rows /\ Rows' /\ TypeOK
  BY RowsFacts DEF Tables
<1>2. SUFFICES ASSUME NEW q \in Requests, CountedNext(q)
               PROVE  claim'[q].ptr = KeyNext(GroupOf[q])
  BY CountedIs DEF AtHome, KeyNext, KeyOf, CommitsOf
<1>3. \A p \in Requests : Counted(p) => claim[p].ptr = KeyOf(GroupOf[p])
  BY AloneFacts
<1>4. pool'[KeyNext(GroupOf[q])].count > 0
  <2>1. HeldAt(q)'
    BY <1>1, HomeHeldNext
  <2>2. QED
    BY <1>2, <2>1, CountedIs DEF HeldAt, KeyNext, KeyOf, CommitsOf
<1>5. CASE PtrsStep
  <2>1. PtrStep(q)
    BY <1>2, <1>5 DEF PtrsStep
  <2>2. Drop(KeyNext(GroupOf[q]), pool') = KeyNext(GroupOf[q])
    BY <1>4 DEF Drop
  <2>3. CASE claim'[q].ptr \in {KeyNext(GroupOf[q]), Drop(KeyNext(GroupOf[q]), pool')}
    BY <2>2, <2>3
  <2>4. CASE /\ Counted(q) /\ group'[GroupOf[q]].alloc = group[GroupOf[q]].alloc
             /\ claim'[q].ptr \in {claim[q].ptr, Drop(claim[q].ptr, pool')}
    <3>1. claim[q].ptr = KeyNext(GroupOf[q])
      BY <1>3, <2>4 DEF KeyNext, KeyOf, CommitsOf
    <3>2. QED
      BY <2>2, <2>4, <3>1
  <2>5. QED
    BY <2>1, <2>3, <2>4 DEF PtrStep
<1>6. CASE MovePool \/ DeletePool
  <2>1. PICK target : ClaimsGo(Status, PtrMoved(rw.key, target))
    BY <1>1, <1>6, MoveFacts, DeleteFacts
  <2>2. group' = group /\ rw.pc \in {"move", "delete"}
    BY <1>1, <1>6, MoveFacts, DeleteFacts
  <2>3. Counted(q) /\ KeyNext(GroupOf[q]) = KeyOf(GroupOf[q])
    BY <1>2, <2>1, <2>2, CountedIs DEF CountedNext, ClaimsGo, Status, KeyNext, KeyOf, CommitsOf
  <2>4. claim[q].ptr # rw.key
    <3>1. rw.old \in rw.key.commits
      BY <2>2, RewriteFacts
    <3>2. rw.old \notin KeyOf(GroupOf[q]).commits
      BY <2>2, <2>3, CountedIs, AloneFacts, KeyFacts DEF KeyOf
    <3>3. QED
      BY <1>3, <2>3, <3>1, <3>2
  <2>5. claim'[q].ptr = claim[q].ptr
    BY <2>1, <2>4 DEF ClaimsGo, PtrMoved
  <2>6. QED
    BY <1>3, <2>3, <2>5
<1>7. QED
  BY <1>1, <1>5, <1>6, NextPtrs

-----------------------------------------------------------------------------
(* The theorems                                                              *)

(* A commit sent during its rewrite is remembered.                           *)
LEMMA OverlapStays ==
    ASSUME Rows, [Next]_vars, ~ overlapped'
    PROVE  ~ overlapped
<1>1. CASE Ingest
  <2>1. ASSUME NEW g \in RelayGroups, NEW a \in Snapshots(g), NEW qs \in SUBSET Members(g),
               IngestRelayNew(g, a, qs) \/ IngestRelayMore(g, a, qs)
        PROVE  Overlap(a)
    BY <2>1 DEF IngestRelayNew, IngestRelayMore
  <2>2. ASSUME NEW g \in LocalGroups, NEW a \in Snapshots(g), NEW u \in Usages,
               IngestLocalNew(g, a, u) \/ IngestLocalMore(g, a, u)
        PROVE  Overlap(a)
    BY <2>2 DEF IngestLocalNew, IngestLocalMore
  <2>3. PICK a : Overlap(a)
    BY <1>1, <2>1, <2>2 DEF Ingest
  <2>4. QED
    BY <2>3 DEF Overlap
<1>2. CASE Work
  BY <1>2 DEF Work, Lease, Reconcile, Retry, Finish, GiveUp, LeaseExpires
<1>3. CASE Expiry
  BY <1>3 DEF Expiry, GrowsOld, FinalizeGroup, Cleanup
<1>4. CASE Rewriting
  <2>1. ASSUME NEW r \in Rewrites, RewriteBegin(r)
        PROVE  overlapped' = overlapped
    BY <2>1 DEF RewriteBegin
  <2>2. ASSUME NEW k \in Keys, ReadPool(k)
        PROVE  overlapped' = overlapped
    BY <2>2 DEF ReadPool
  <2>3. CASE RewriteGroups
    BY <2>3, Zenon DEF RewriteGroups
  <2>4. CASE RewriteFails \/ MovePool \/ DeletePool \/ RewriteCommit
    BY <2>4 DEF RewriteFails, MovePool, DeletePool, RewriteCommit
  <2>5. QED
    BY <1>4, <2>1, <2>2, <2>3, <2>4 DEF Rewriting
<1>5. CASE UNCHANGED vars
  BY <1>5 DEF vars
<1>6. QED
  BY <1>1, <1>2, <1>3, <1>4, <1>5 DEF Next

Ledger == Accounts /\ (~ overlapped => Alone /\ Covered)

LEMMA LedgerStep ==
    ASSUME Ledger, [Next]_vars
    PROVE  Ledger'
<1>1. Tables /\ Lines /\ RewriteRows /\ Accounts' /\ Tables' /\ Rows
  BY AccountsStep DEF Ledger, Accounts, Tables
<1>2. ASSUME ~ overlapped'
      PROVE  (Alone /\ Covered)'
  <2>1. Alone /\ Covered
    BY <1>1, <1>2, OverlapStays DEF Ledger
  <2>2. Solo' /\ Covered'
    BY <1>1, <1>2, <2>1, SoloStep, CoveredStep
  <2>3. AtHome'
    BY <1>1, <2>1, <2>2, AtHomeStep
  <2>4. QED
    BY <2>2, <2>3 DEF Alone
<1>3. QED
  BY <1>1, <1>2 DEF Ledger

LEMMA LedgerBegin ==
    ASSUME Init
    PROVE  Ledger
BY AccountsBegin, SoloBegin, CoveredBegin DEF Ledger, Alone

LEMMA LedgerKept == Spec => []Ledger
<1>1. Init => Ledger
  BY LedgerBegin
<1>2. Ledger /\ [Next]_vars => Ledger'
  BY LedgerStep
<1>3. QED
  BY <1>1, <1>2, PTL DEF Spec

LEMMA PointersStand ==
    ASSUME Ledger
    PROVE  PointersHold
<1>1. SUFFICES ASSUME NEW q \in Requests, Counted(q), ~ (claim[q].ptr = GonePool /\ overlapped)
               PROVE  /\ Exists(claim[q].ptr)
                      /\ Resolved(claim[q].ptr) = Resolved(Key(CommitsOf(GroupOf[q])))
  BY DEF PointersHold, Counted, Reconciled
<1>2. Rows /\ Lines /\ Tables
  BY DEF Ledger, Accounts, Tables
<1>3. claim[q].status = "reconciled"
  BY <1>1, CountedIs
<1>4. KeyOf(GroupOf[q]) \in Keys
  BY <1>2, <1>3, RowsFacts, KeyOfRequest
<1>5. claim[q].ptr # GonePool
  <2>1. CASE overlapped
    BY <1>1, <2>1
  <2>2. CASE ~ overlapped
    <3>1. claim[q].ptr = KeyOf(GroupOf[q])
      BY <1>1, <2>2, AloneFacts DEF Ledger
    <3>2. QED
      BY <1>4, <3>1, KeyFacts
  <2>3. QED
    BY <2>1, <2>2
<1>6. Resolved(claim[q].ptr) = Resolved(KeyOf(GroupOf[q]))
  BY <1>1, <1>2, <1>5 DEF Lines
<1>7. pool[claim[q].ptr].count > 0
  BY <1>1, <1>2, <1>5 DEF Rows, PoolRows
<1>8. claim[q].ptr \in Keys
  <2>1. claim[q].ptr \in Ptrs /\ claim[q].ptr # NoPool
    BY <1>2, <1>3, RowsFacts DEF Points, Status, Ptr
  <2>2. QED
    BY <1>5, <2>1 DEF Ptrs
<1>9. pool[claim[q].ptr].count \in Nat /\ pool[claim[q].ptr].gaps \in Nat
  BY <1>2, <1>8, RowsFacts DEF Amounts
<1>10. Exists(claim[q].ptr)
  BY <1>7, <1>9 DEF Exists
<1>11. QED
  BY <1>6, <1>10 DEF KeyOf

(* The tables of the ledger agree at every step and not only between rewrites:*)
(* rows, lines of commits, the rewrite under way and the balance of the pools;*)
(* while no commit was sent during its rewrite, migrateDurablePools is alone*)
(* with the pools of the old commit, and pools hold what points to them.   *)
THEOREM LedgerHolds == Spec => []LedgerInv
<1>1. Ledger => LedgerInv
  BY DEF Ledger, Accounts, Tables, LedgerInv
<1>2. QED
  BY <1>1, LedgerKept, PTL

(* As long as no commit was sent during its rewrite, the pool_id of a      *)
(* reconciled request of a hot group is that of a pool that exists, so that no*)
(* append, rewrite or finalization fails to subtract from it.              *)
THEOREM PointersAreHeld == Spec => []PointersHold
<1>1. Ledger => PointersHold
  BY PointersStand
<1>2. QED
  BY <1>1, LedgerKept, PTL

(* migrateDurablePools deletes pools it has read without a lock; nothing   *)
(* is deleted unread unless a group sent a commit during its rewrite.      *)
THEOREM OnlyOverlapsLose == Spec => []OnlyOverlapLoses
<1>1. Ledger => OnlyOverlapLoses
  BY AloneFacts DEF Ledger, OnlyOverlapLoses
<1>2. QED
  BY <1>1, LedgerKept, PTL

(* A rewrite that commits (ApplyRewrite, then the lineage row) leaves no   *)
(* pool under the old commit, unless a client sent that commit meanwhile.  *)
THEOREM RewritesComplete == Spec => RewriteCompletes
<1>1. Ledger /\ [Next]_vars =>
          [RewriteCommit /\ ~ overlapped => \A k \in Keys : Exists(k) => rw.old \notin k.commits]_vars
  <2>1. SUFFICES ASSUME Ledger, RewriteCommit, ~ overlapped, NEW k \in Keys, Exists(k)
                 PROVE  rw.old \notin k.commits
    OBVIOUS
  <2>2. rw.pc = "pools" /\ rw.todo = {}
    BY <2>1 DEF RewriteCommit
  <2>3. QED
    BY <2>1, <2>2, AloneFacts DEF Ledger
<1>2. QED
  BY <1>1, LedgerKept, PTL DEF Spec, RewriteCompletes
=============================================================================
