--------------------- MODULE RelationshipOperationProofs --------------------
(***************************************************************************)
(* Proofs about RelationshipOperation, for any Mappings, keys, plans,      *)
(* executors and bounds, and with every fault.                             *)
(***************************************************************************)
EXTENDS RelationshipOperation, TLAPS

-----------------------------------------------------------------------------
(* The inductive invariant                                                   *)

Unstarted == {"idle", "preview", "capture", "begin", "start"}

(* An executor that may change an Operation works on one.                    *)
Working(e) == exec[e].pc \notin Unstarted

NamedBy(x) ==
    x.pc # "idle" => /\ x.key \in Keys
                     /\ x.todo \subseteq Maps(x.key)
                     /\ x.at \subseteq Maps(x.key)
                     /\ x.pc = "start" => x.dir # "initial"

Named == \A e \in Executors : NamedBy(exec[e])

(* What is worked on is busy, until the reply of a commit is lost; before     *)
(* that a Confirm has promoted nothing.                                      *)
OpenFor(o, x) ==
    /\ o.lifecycle # "none"
    /\ ~o.lost => o.lifecycle \in Busy /\ ~o.old
    /\ x.dir = "initial" /\ x.pc \notin {"leave", "fail"} => ~o.lost /\ o.promotions = 0

WorkIsOpen == \A e \in Executors : Working(e) => OpenFor(op[exec[e].key], exec[e])

(* Who has not heard that an Operation was interrupted works beside those     *)
(* that recover it.                                                          *)
OneWorker ==
    \A e, f \in Executors :
        e # f /\ Working(e) /\ Working(f) /\ exec[e].key = exec[f].key => op[exec[e].key].lost

Unbegun ==
    \A k \in Keys : op[k].lifecycle = "none" =>
        /\ ~op[k].owns /\ ~op[k].old /\ op[k].fresh /\ ~op[k].lost /\ op[k].promotions = 0
        /\ \A m \in Mappings : op[k].step[m].state = "planned"

CapturedEarlier ==
    \A m \in Mappings :
        /\ \A e \in Executors : exec[e].captured[m] <= mapping[m].revision
        /\ \A k \in Keys : op[k].captured[m] <= mapping[m].revision

(* Once promoted, the captured revisions are past, so that neither a review  *)
(* nor a compare-and-swap finds them again.                                  *)
PromotedBeyond ==
    \A k \in Keys : op[k].promotions # 0 =>
        /\ op[k].promotions = 1
        /\ \A m \in Maps(k) : op[k].captured[m] < mapping[m].revision

OwnedWhileOpen ==
    \A k \in Keys : ~op[k].lost => (op[k].owns <=> op[k].lifecycle \notin Closed \cup {"none"})

OneOwner ==
    Heard => \A k, l \in Keys : k # l /\ op[k].owns /\ op[l].owns => Maps(k) \cap Maps(l) = {}

Recoverable ==
    Heard => \A k \in Keys : op[k].owns /\ op[k].fresh =>
        \A m \in Maps(k) : mapping[m].revision = op[k].captured[m]

Undisturbed == Heard /\ \A k \in Keys : op[k].fresh

FreeAligned == \A m \in Mappings : ~Owned(m) => relay[m] = mapping[m].content

BaseKept ==
    \A k \in Keys, m \in Mappings : Owns(k, m) => op[k].base[m] = mapping[m].content

EvidenceHolds ==
    \A k \in Keys, m \in Mappings :
        Owns(k, m) /\ op[k].step[m].state = "verified" => op[k].step[m].effect = relay[m]

Converging ==
    \A e \in Executors, m \in Mappings :
        /\ exec[e].pc = "record" /\ m \in exec[e].at => relay[m] = Want(exec[e].key, exec[e].dir, m)
        /\ exec[e].pc = "write" /\ m \in exec[e].todo => op[exec[e].key].step[m].state # "verified"

Evidence == Undisturbed => FreeAligned /\ BaseKept /\ EvidenceHolds /\ Converging

Ownership == OwnedWhileOpen /\ OneOwner /\ Recoverable

Control == Named /\ WorkIsOpen /\ OneWorker /\ Unbegun /\ CapturedEarlier /\ PromotedBeyond

IInv == TypeOK /\ Control /\ Ownership /\ Evidence

-----------------------------------------------------------------------------
(* Records                                                                   *)

LEMMA IdleType ==
    /\ Idle \in Executor /\ Idle.pc = "idle" /\ Idle.at = {} /\ Idle.todo = {}
    /\ Idle.dir = "initial" /\ \A m \in Mappings : Idle.captured[m] = 0
BY DEF Idle, Executor, Pcs, Directions, Values, Revisions

LEMMA MapsType ==
    ASSUME TypeOK, NEW k \in Keys
    PROVE  /\ op[k] \in Operation /\ op[k].plan \in Plans
           /\ Maps(k) \subseteq Mappings /\ op[k].plan.primary \in Maps(k)
<1>1. op[k] \in Operation
  BY DEF TypeOK
<1>2. op[k].plan \in Plans
  BY <1>1 DEF Operation
<1>3. op[k].plan.maps \subseteq Mappings /\ op[k].plan.primary \in op[k].plan.maps
  BY <1>2, RelationshipOperationAssumption
<1>4. QED
  BY <1>1, <1>2, <1>3 DEF Maps

LEMMA ExecType ==
    ASSUME TypeOK, NEW e \in Executors, NEW rec \in Executor, exec' = [exec EXCEPT ![e] = rec]
    PROVE  /\ exec' \in [Executors -> Executor] /\ exec'[e] = rec
           /\ \A f \in Executors : f # e => exec'[f] = exec[f]
BY DEF TypeOK

LEMMA OpType ==
    ASSUME TypeOK, NEW k \in Keys, NEW new \in Operation, op' = [op EXCEPT ![k] = new]
    PROVE  /\ op' \in [Keys -> Operation] /\ op'[k] = new
           /\ \A l \in Keys : l # k => op'[l] = op[l]
BY DEF TypeOK

-----------------------------------------------------------------------------
(* A step of an executor that changes nothing else.                          *)

(* It keeps what it works on, and starts to work by no such step.            *)
Continues(e, rec) ==
    /\ rec \in Executor
    /\ exec' = [exec EXCEPT ![e] = rec]
    /\ NamedBy(rec)
    /\ \A m \in Mappings : rec.captured[m] <= mapping[m].revision
    /\ rec.pc \notin {"record", "write"}
    /\ rec.pc \notin Unstarted =>
         /\ Working(e) /\ exec[e].pc \notin {"leave", "fail"}
         /\ rec.key = exec[e].key /\ rec.dir = exec[e].dir

LEMMA ExecStep ==
    ASSUME IInv, NEW e \in Executors, NEW rec, Continues(e, rec),
           UNCHANGED <<mapping, relay, op>>, down' \in BOOLEAN, faulted' \in 0..MaxFaults
    PROVE  IInv'
<1>0. TypeOK /\ Control /\ Ownership /\ Evidence
  BY DEF IInv
<1>1. /\ exec' \in [Executors -> Executor] /\ exec'[e] = rec
      /\ \A f \in Executors : f # e => exec'[f] = exec[f]
  BY <1>0, ExecType DEF Continues
<1>2. TypeOK'
  BY <1>0, <1>1 DEF TypeOK
<1>3. Control'
  <2>1. Named'
    BY <1>0, <1>1 DEF Control, Named, NamedBy, Continues, Maps
  <2>2. WorkIsOpen'
    BY <1>0, <1>1 DEF Control, WorkIsOpen, Working, OpenFor, Continues
  <2>3. OneWorker'
    BY <1>0, <1>1 DEF Control, OneWorker, Working, Continues
  <2>4. Unbegun' /\ PromotedBeyond'
    BY <1>0 DEF Control, Unbegun, PromotedBeyond, Maps
  <2>5. CapturedEarlier'
    BY <1>0, <1>1 DEF Control, CapturedEarlier, Continues
  <2>6. QED
    BY <2>1, <2>2, <2>3, <2>4, <2>5 DEF Control
<1>4. Ownership'
  BY <1>0 DEF Ownership, OwnedWhileOpen, OneOwner, Recoverable, Heard, Maps
<1>5. Evidence'
  <2> SUFFICES ASSUME Undisturbed' PROVE (FreeAligned /\ BaseKept /\ EvidenceHolds /\ Converging)'
    BY DEF Evidence
  <2>1. FreeAligned /\ BaseKept /\ EvidenceHolds /\ Converging
    BY <1>0 DEF Evidence, Undisturbed, Heard
  <2>2. FreeAligned' /\ BaseKept' /\ EvidenceHolds'
    BY <2>1 DEF FreeAligned, BaseKept, EvidenceHolds, Owned, Owns, Maps
  <2>3. Converging'
    BY <2>1, <1>1 DEF Converging, Want, Continues
  <2>4. QED
    BY <2>2, <2>3
<1>6. QED
  BY <1>2, <1>3, <1>4, <1>5 DEF IInv

-----------------------------------------------------------------------------
(* A step that changes one Operation, which no other executor works on as    *)
(* long as every reply was heard.                                            *)

(* What was reviewed stays, and so do the losses; ownership is not gained.   *)
KeepsReview(k, new) ==
    /\ new.plan = op[k].plan /\ new.captured = op[k].captured
    /\ new.base = op[k].base /\ new.fresh = op[k].fresh
    /\ op[k].lost => new.lost
    /\ new.owns => op[k].owns
    /\ new.lifecycle # "none"
    /\ ~new.lost => (new.owns <=> new.lifecycle \notin Closed)

(* Only its Mappings are written, and only under ownership.                  *)
WritesOwn(k, new) ==
    /\ relay' \in [Mappings -> Values]
    /\ mapping' \in [Mappings -> [revision : Revisions, content : Values]]
    /\ \A m \in Mappings \ Maps(k) : relay'[m] = relay[m] /\ mapping'[m] = mapping[m]
    /\ \A m \in Mappings : mapping[m].revision <= mapping'[m].revision
    /\ Heard => op[k].owns \/ UNCHANGED <<relay, mapping>>
    /\ new.owns => mapping' = mapping
    /\ new.promotions # 0 =>
         new.promotions = 1 /\ \A m \in Maps(k) : new.captured[m] < mapping'[m].revision

(* The executor names it and works on it, if it works.                       *)
ActsOn(k, rec, new) ==
    /\ rec.pc # "idle" => rec.key = k /\ rec.todo \subseteq Maps(k) /\ rec.at \subseteq Maps(k)
    /\ rec.pc # "start"
    /\ \A m \in Mappings : rec.captured[m] <= mapping[m].revision
    /\ rec.pc \notin Unstarted => OpenFor(new, rec)

(* What is read back and what is promoted is what the Relay holds.           *)
KeepsEvidence(k, rec, new) ==
    Undisturbed /\ ~new.lost => \A m \in Maps(k) :
        /\ ~new.owns => relay'[m] = mapping'[m].content
        /\ new.step[m].state = "verified" => new.step[m].effect = relay'[m] \/ ~new.owns
        /\ rec.pc = "record" /\ m \in rec.at => relay'[m] = Want(k, rec.dir, m)
        /\ rec.pc = "write" /\ m \in rec.todo => new.step[m].state # "verified"

OthersStray(e, k) ==
    \A f \in Executors : f # e /\ Working(f) /\ exec[f].key = k => op[k].lost

OpStep(e, k, rec, new) ==
    /\ rec \in Executor /\ new \in Operation
    /\ exec' = [exec EXCEPT ![e] = rec]
    /\ op' = [op EXCEPT ![k] = new]
    /\ down' = down /\ faulted' \in 0..MaxFaults
    /\ OthersStray(e, k)
    /\ KeepsReview(k, new) /\ WritesOwn(k, new)
    /\ ActsOn(k, rec, new) /\ KeepsEvidence(k, rec, new)

LEMMA OpStepControl ==
    ASSUME IInv, NEW e \in Executors, NEW k \in Keys, NEW rec, NEW new, OpStep(e, k, rec, new)
    PROVE  TypeOK' /\ Control'
<1>0. TypeOK /\ Control
  BY DEF IInv
<1>1. /\ exec' \in [Executors -> Executor] /\ exec'[e] = rec
      /\ \A f \in Executors : f # e => exec'[f] = exec[f]
  BY <1>0, ExecType DEF OpStep
<1>2. /\ op' \in [Keys -> Operation] /\ op'[k] = new
      /\ \A l \in Keys : l # k => op'[l] = op[l]
  BY <1>0, OpType DEF OpStep
<1>3. TypeOK'
  BY <1>0, <1>1, <1>2 DEF TypeOK, OpStep, WritesOwn
<1>4. \A l \in Keys : Maps(l)' = Maps(l)
  BY <1>2 DEF OpStep, KeepsReview, Maps
<1>5. Named'
  BY <1>0, <1>1, <1>4 DEF Control, Named, NamedBy, OpStep, ActsOn
<1>6. WorkIsOpen'
  <2> SUFFICES ASSUME NEW f \in Executors, Working(f)'
               PROVE  OpenFor(op'[exec'[f].key], exec'[f])
    BY DEF WorkIsOpen, OpenFor
  <2>1. CASE f = e
    BY <2>1, <1>1, <1>2 DEF OpStep, ActsOn, Working, Unstarted
  <2>2. CASE f # e
    <3>1. exec'[f] = exec[f] /\ Working(f)
      BY <2>2, <1>1 DEF Working
    <3>2. exec[f].key \in Keys /\ OpenFor(op[exec[f].key], exec[f])
      BY <3>1, <1>0 DEF Control, Named, NamedBy, WorkIsOpen, Working, Unstarted
    <3>3. CASE exec[f].key = k
      <4>1. op[k].lost /\ new.lost /\ new.lifecycle # "none"
        BY <2>2, <3>1, <3>3 DEF OpStep, OthersStray, KeepsReview
      <4>2. QED
        BY <3>1, <3>2, <3>3, <4>1, <1>2 DEF OpenFor
    <3>4. CASE exec[f].key # k
      BY <3>1, <3>2, <3>4, <1>2
    <3>5. QED
      BY <3>3, <3>4
  <2>3. QED
    BY <2>1, <2>2
<1>7. OneWorker'
  <2>1. rec.pc \notin Unstarted => rec.key = k
    BY DEF OpStep, ActsOn, Unstarted
  <2>2. QED
    <3> SUFFICES ASSUME NEW f \in Executors, NEW g \in Executors, f # g,
                        Working(f)', Working(g)', exec'[f].key = exec'[g].key
                 PROVE  op'[exec'[f].key].lost
      BY DEF OneWorker
    <3>1. CASE f # e /\ g # e
      <4>1. exec'[f] = exec[f] /\ Working(f) /\ exec'[g] = exec[g] /\ Working(g)
        BY <3>1, <1>1 DEF Working
      <4>2. op[exec[f].key].lost /\ exec[f].key \in Keys
        BY <4>1, <1>0 DEF Control, OneWorker, Named, NamedBy, Working, Unstarted
      <4>3. QED
        BY <4>1, <4>2, <1>2 DEF OpStep, KeepsReview
    <3>2. CASE f = e \/ g = e
      BY <2>1, <3>2, <1>1, <1>2 DEF Working, OpStep, OthersStray, KeepsReview
    <3>3. QED
      BY <3>1, <3>2
<1>8. Unbegun'
  BY <1>0, <1>2 DEF Control, Unbegun, OpStep, KeepsReview
<1>9. \A m \in Mappings : /\ mapping[m].revision \in Nat /\ mapping'[m].revision \in Nat
                          /\ mapping[m].revision <= mapping'[m].revision
  BY <1>0, <1>3 DEF TypeOK, OpStep, WritesOwn, Revisions
<1>10. CapturedEarlier'
  <2> SUFFICES ASSUME NEW m \in Mappings
               PROVE  /\ \A f \in Executors : exec'[f].captured[m] <= mapping'[m].revision
                      /\ \A l \in Keys : op'[l].captured[m] <= mapping'[m].revision
    BY DEF CapturedEarlier
  <2>1. ASSUME NEW f \in Executors PROVE exec'[f].captured[m] <= mapping'[m].revision
    <3>1. exec'[f].captured[m] <= mapping[m].revision
      BY <1>0, <1>1 DEF Control, CapturedEarlier, OpStep, ActsOn
    <3>2. exec'[f].captured[m] \in Nat
      BY <1>1 DEF Executor, Revisions
    <3>3. QED
      BY <3>1, <3>2, <1>9
  <2>2. ASSUME NEW l \in Keys PROVE op'[l].captured[m] <= mapping'[m].revision
    <3>1. op'[l].captured = op[l].captured
      BY <1>2 DEF OpStep, KeepsReview
    <3>2. op[l].captured[m] <= mapping[m].revision
      BY <1>0 DEF Control, CapturedEarlier
    <3>3. op[l].captured[m] \in Nat
      BY <1>0 DEF TypeOK, Operation, Revisions
    <3>4. QED
      BY <3>1, <3>2, <3>3, <1>9
  <2>3. QED
    BY <2>1, <2>2
<1>11. PromotedBeyond'
  <2> SUFFICES ASSUME NEW l \in Keys, op'[l].promotions # 0
               PROVE  /\ op'[l].promotions = 1
                      /\ \A m \in Maps(l) : op'[l].captured[m] < mapping'[m].revision
    BY <1>4 DEF PromotedBeyond
  <2>1. CASE l = k
    BY <2>1, <1>2 DEF OpStep, WritesOwn
  <2>2. CASE l # k
    <3>1. op'[l] = op[l]
      BY <2>2, <1>2
    <3>2. op[l].promotions = 1 /\ \A m \in Maps(l) : op[l].captured[m] < mapping[m].revision
      BY <3>1, <1>0 DEF Control, PromotedBeyond
    <3>3. \A m \in Maps(l) : m \in Mappings /\ op[l].captured[m] \in Nat
      BY <1>0, MapsType DEF Operation, Revisions
    <3>4. QED
      BY <3>1, <3>2, <3>3, <1>9
  <2>3. QED
    BY <2>1, <2>2
<1>12. QED
  BY <1>3, <1>5, <1>6, <1>7, <1>8, <1>10, <1>11 DEF Control

LEMMA OpStepOwnership ==
    ASSUME IInv, NEW e \in Executors, NEW k \in Keys, NEW rec, NEW new, OpStep(e, k, rec, new)
    PROVE  Ownership'
<1>0. TypeOK /\ Ownership
  BY DEF IInv
<1>1. /\ op' \in [Keys -> Operation] /\ op'[k] = new
      /\ \A l \in Keys : l # k => op'[l] = op[l]
  BY <1>0, OpType DEF OpStep
<1>2. \A l \in Keys : Maps(l)' = Maps(l) /\ (op'[l].owns => op[l].owns)
  BY <1>1 DEF OpStep, KeepsReview, Maps
<1>3. Heard' => Heard
  BY <1>1 DEF Heard, OpStep, KeepsReview
<1>4. OwnedWhileOpen'
  BY <1>0, <1>1 DEF Ownership, OwnedWhileOpen, OpStep, KeepsReview
<1>5. OneOwner'
  BY <1>0, <1>2, <1>3 DEF Ownership, OneOwner
<1>6. Recoverable'
  <2> SUFFICES ASSUME Heard', NEW l \in Keys, op'[l].owns, op'[l].fresh, NEW m \in Maps(l)
               PROVE  mapping'[m].revision = op'[l].captured[m]
    BY <1>2 DEF Recoverable
  <2>1. op[l].owns /\ op[l].fresh /\ op'[l].captured = op[l].captured
    BY <1>1, <1>2 DEF OpStep, KeepsReview
  <2>2. mapping[m].revision = op[l].captured[m]
    BY <2>1, <1>0, <1>3 DEF Ownership, Recoverable
  <2>3. CASE l = k
    BY <2>1, <2>2, <2>3, <1>1 DEF OpStep, WritesOwn
  <2>4. CASE l # k
    <3>1. ~op[k].owns => UNCHANGED mapping
      BY <1>3 DEF OpStep, WritesOwn
    <3>2. op[k].owns => m \notin Maps(k)
      BY <2>1, <2>4, <1>0, <1>3 DEF Ownership, OneOwner
    <3>3. m \in Mappings
      BY <1>0, MapsType
    <3>4. mapping'[m] = mapping[m]
      BY <3>1, <3>2, <3>3 DEF OpStep, WritesOwn
    <3>5. QED
      BY <3>4, <2>1, <2>2
  <2>5. QED
    BY <2>3, <2>4
<1>7. QED
  BY <1>4, <1>5, <1>6 DEF Ownership

LEMMA OpStepEvidence ==
    ASSUME IInv, NEW e \in Executors, NEW k \in Keys, NEW rec, NEW new, OpStep(e, k, rec, new)
    PROVE  Evidence'
<1> SUFFICES ASSUME Undisturbed'
             PROVE  (FreeAligned /\ BaseKept /\ EvidenceHolds /\ Converging)'
  BY DEF Evidence
<1>0. TypeOK /\ Control /\ Ownership
  BY DEF IInv
<1>1. /\ op' \in [Keys -> Operation] /\ op'[k] = new
      /\ \A l \in Keys : l # k => op'[l] = op[l]
  BY <1>0, OpType DEF OpStep
<1>2. \A l \in Keys : Maps(l)' = Maps(l) /\ (op'[l].owns => op[l].owns) /\ op'[l].base = op[l].base
  BY <1>1 DEF OpStep, KeepsReview, Maps
<1>3. Heard /\ Undisturbed /\ ~new.lost
  BY <1>1 DEF Undisturbed, Heard, OpStep, KeepsReview
<1>4. FreeAligned /\ BaseKept /\ EvidenceHolds /\ Converging
  BY <1>3 DEF IInv, Evidence
<1>5. /\ exec' \in [Executors -> Executor] /\ exec'[e] = rec
      /\ \A f \in Executors : f # e => exec'[f] = exec[f]
  BY <1>0, ExecType DEF OpStep
<1>6. Maps(k) \subseteq Mappings
  BY <1>0, MapsType
(* What another Operation owns, and what nobody has to do with, is not       *)
(* written.                                                                  *)
<1>7. ASSUME NEW l \in Keys, l # k, NEW m \in Mappings, Owns(l, m)
      PROVE  relay'[m] = relay[m] /\ mapping'[m] = mapping[m]
  <2>1. CASE op[k].owns
    <3>1. m \notin Maps(k)
      BY <1>7, <2>1, <1>0, <1>3 DEF Ownership, OneOwner, Owns
    <3>2. QED
      BY <3>1 DEF OpStep, WritesOwn
  <2>2. CASE ~op[k].owns
    BY <2>2, <1>3 DEF OpStep, WritesOwn
  <2>3. QED
    BY <2>1, <2>2
<1>8. FreeAligned'
  <2> SUFFICES ASSUME NEW m \in Mappings, ~Owned(m)' PROVE relay'[m] = mapping'[m].content
    BY DEF FreeAligned
  <2>1. CASE m \in Maps(k)
    <3>1. ~new.owns
      BY <2>1, <1>1, <1>2 DEF Owned, Owns
    <3>2. QED
      BY <3>1, <2>1, <1>3 DEF OpStep, KeepsEvidence
  <2>2. CASE m \notin Maps(k)
    <3>1. ~Owned(m)
      BY <2>2, <1>1, <1>2 DEF Owned, Owns
    <3>2. QED
      BY <3>1, <2>2, <1>4 DEF FreeAligned, OpStep, WritesOwn
  <2>3. QED
    BY <2>1, <2>2
<1>9. BaseKept'
  <2> SUFFICES ASSUME NEW l \in Keys, NEW m \in Mappings, Owns(l, m)'
               PROVE  op'[l].base[m] = mapping'[m].content
    BY DEF BaseKept
  <2>1. Owns(l, m)
    BY <1>2 DEF Owns
  <2>2. mapping'[m] = mapping[m]
    <3>1. CASE l = k
      BY <3>1, <1>1 DEF Owns, OpStep, WritesOwn
    <3>2. QED
      BY <3>1, <2>1, <1>7
  <2>3. QED
    BY <2>1, <2>2, <1>2, <1>4 DEF BaseKept
<1>10. EvidenceHolds'
  <2> SUFFICES ASSUME NEW l \in Keys, NEW m \in Mappings, Owns(l, m)',
                      op'[l].step[m].state = "verified"
               PROVE  op'[l].step[m].effect = relay'[m]
    BY DEF EvidenceHolds
  <2>1. CASE l = k
    BY <2>1, <1>1, <1>2, <1>3 DEF Owns, OpStep, KeepsEvidence
  <2>2. CASE l # k
    <3>1. Owns(l, m) /\ op'[l] = op[l]
      BY <2>2, <1>1, <1>2 DEF Owns
    <3>2. relay'[m] = relay[m]
      BY <3>1, <2>2, <1>7
    <3>3. QED
      BY <3>1, <3>2, <1>4 DEF EvidenceHolds
  <2>3. QED
    BY <2>1, <2>2
<1>11. Converging'
  <2> DEFINE Wanted(x, m) == IF x.dir = "restore" THEN op[x.key].base[m] ELSE x.key
  <2> SUFFICES ASSUME NEW f \in Executors, NEW m \in Mappings
               PROVE  /\ exec'[f].pc = "record" /\ m \in exec'[f].at =>
                           relay'[m] = IF exec'[f].dir = "restore" THEN op'[exec'[f].key].base[m]
                                       ELSE exec'[f].key
                      /\ exec'[f].pc = "write" /\ m \in exec'[f].todo =>
                           op'[exec'[f].key].step[m].state # "verified"
    BY DEF Converging, Want
  <2>1. CASE f = e /\ rec.pc \in {"record", "write"}
    <3>1. rec.key = k /\ rec.todo \subseteq Maps(k) /\ rec.at \subseteq Maps(k)
      BY <2>1 DEF OpStep, ActsOn
    <3>2. exec'[f] = rec /\ op'[k] = new /\ new.base = op[k].base
      BY <2>1, <1>5, <1>1 DEF OpStep, KeepsReview
    <3>3. rec.pc = "record" /\ m \in rec.at => relay'[m] = Wanted(rec, m)
      BY <3>1, <1>3 DEF OpStep, KeepsEvidence, Want
    <3>4. rec.pc = "write" /\ m \in rec.todo => new.step[m].state # "verified"
      BY <3>1, <1>3 DEF OpStep, KeepsEvidence
    <3>5. QED
      BY <3>1, <3>2, <3>3, <3>4
  <2>2. CASE f # e /\ exec[f].pc \in {"record", "write"}
    <3>1. exec'[f] = exec[f] /\ Working(f) /\ exec[f].key # k
      BY <2>2, <1>3, <1>5 DEF OpStep, OthersStray, Heard, Working, Unstarted
    <3>2. /\ exec[f].key \in Keys
          /\ exec[f].todo \subseteq Maps(exec[f].key) /\ exec[f].at \subseteq Maps(exec[f].key)
      BY <2>2, <1>0 DEF Control, Named, NamedBy
    <3>3. op[exec[f].key].lifecycle \in Busy /\ ~op[exec[f].key].lost
      BY <3>1, <3>2, <1>0, <1>3, <2>2 DEF Control, WorkIsOpen, OpenFor, Heard
    <3>4. op[exec[f].key].owns
      BY <3>2, <3>3, <1>0 DEF Ownership, OwnedWhileOpen, Busy, Closed
    <3>5. op'[exec[f].key] = op[exec[f].key]
      BY <3>1, <3>2, <1>1
    <3>6. ASSUME m \in exec[f].at PROVE relay'[m] = relay[m]
      BY <3>1, <3>2, <3>4, <3>6, <1>7 DEF Owns
    <3>7. /\ exec[f].pc = "record" /\ m \in exec[f].at => relay[m] = Wanted(exec[f], m)
          /\ exec[f].pc = "write" /\ m \in exec[f].todo => op[exec[f].key].step[m].state # "verified"
      BY <1>4 DEF Converging, Want
    <3>8. QED
      BY <3>1, <3>5, <3>6, <3>7
  <2>3. CASE exec'[f].pc \notin {"record", "write"}
    BY <2>3
  <2>4. QED
    BY <2>1, <2>2, <2>3, <1>5
<1>12. QED
  BY <1>8, <1>9, <1>10, <1>11

LEMMA OpStepKeeps ==
    ASSUME IInv, NEW e \in Executors, NEW k \in Keys, NEW rec, NEW new, OpStep(e, k, rec, new)
    PROVE  IInv'
BY OpStepControl, OpStepOwnership, OpStepEvidence DEF IInv

-----------------------------------------------------------------------------
(* What an executor at work can rely on                                      *)

LEMMA AtWork ==
    ASSUME IInv, NEW e \in Executors, Working(e)
    PROVE  /\ exec[e] \in Executor /\ exec[e].key \in Keys
           /\ op[exec[e].key] \in Operation /\ Maps(exec[e].key) \subseteq Mappings
           /\ exec[e].todo \subseteq Maps(exec[e].key) /\ exec[e].at \subseteq Maps(exec[e].key)
           /\ OpenFor(op[exec[e].key], exec[e])
           /\ OthersStray(e, exec[e].key)
           /\ \A m \in Mappings : exec[e].captured[m] <= mapping[m].revision
           /\ ~op[exec[e].key].lost => op[exec[e].key].lifecycle \in Busy /\ op[exec[e].key].owns
<1>1. TypeOK /\ Control /\ Ownership
  BY DEF IInv
<1>2. /\ exec[e] \in Executor /\ exec[e].key \in Keys
      /\ exec[e].todo \subseteq Maps(exec[e].key) /\ exec[e].at \subseteq Maps(exec[e].key)
  BY <1>1 DEF TypeOK, Control, Named, NamedBy, Working, Unstarted
<1>3. OpenFor(op[exec[e].key], exec[e])
  BY <1>1 DEF Control, WorkIsOpen
<1>4. ~op[exec[e].key].lost => op[exec[e].key].lifecycle \in Busy /\ op[exec[e].key].owns
  BY <1>1, <1>2, <1>3 DEF OpenFor, Ownership, OwnedWhileOpen, Busy, Closed
<1>5. op[exec[e].key] \in Operation /\ Maps(exec[e].key) \subseteq Mappings
  BY <1>1, <1>2, MapsType
<1>6. OthersStray(e, exec[e].key)
  BY <1>1 DEF Control, OneWorker, OthersStray
<1>7. \A m \in Mappings : exec[e].captured[m] <= mapping[m].revision
  BY <1>1 DEF Control, CapturedEarlier
<1>8. QED
  BY <1>2, <1>3, <1>4, <1>5, <1>6, <1>7 DEF OpenFor

LEMMA EvidenceOf ==
    ASSUME IInv, NEW k \in Keys, Undisturbed, op[k].owns, NEW m \in Maps(k)
    PROVE  /\ op[k].step[m].state = "verified" => op[k].step[m].effect = relay[m]
           /\ op[k].base[m] = mapping[m].content
<1>1. m \in Mappings /\ Owns(k, m)
  BY MapsType DEF IInv, Owns
<1>2. QED
  BY <1>1 DEF IInv, Evidence, BaseKept, EvidenceHolds

LEMMA RevisionsStay ==
    ASSUME IInv
    PROVE  /\ \A m \in Mappings : mapping[m].revision \in Nat /\ mapping[m].revision <= mapping[m].revision
           /\ mapping \in [Mappings -> [revision : Revisions, content : Values]]
           /\ relay \in [Mappings -> Values]
BY DEF IInv, TypeOK, Revisions

(* Where the return of an error leads.                                       *)
ErrsTo(e, rec) ==
    /\ rec \in Executor
    /\ exec' = [exec EXCEPT ![e] = rec]
    /\ rec.pc \in {"idle", "note", "leave", "fail"}
    /\ rec.pc = "note" => exec[e].pc \in {"converge", "record"}
    /\ rec.todo = {} /\ rec.at = {}
    /\ rec.pc # "idle" => /\ Working(e) /\ exec[e].pc \notin {"leave", "fail"}
                          /\ rec.key = exec[e].key /\ rec.dir = exec[e].dir
    /\ \A m \in Mappings : rec.captured[m] <= mapping[m].revision

LEMMA StopsTo ==
    ASSUME IInv, NEW e \in Executors, Stops(e)
    PROVE  ErrsTo(e, Idle)
<1>1. \A m \in Mappings : 0 <= mapping[m].revision
  BY RevisionsStay
<1>2. QED
  BY <1>1, IdleType DEF Stops, ErrsTo

LEMMA ErrsSomewhere ==
    ASSUME IInv, NEW e \in Executors, exec[e].pc # "idle", Errs(e)
    PROVE  \E rec : ErrsTo(e, rec)
<1>1. CASE OnError(exec[e]) = "idle"
  <2>1. Stops(e)
    BY <1>1 DEF Errs
  <2>2. QED
    BY <2>1, StopsTo
<1>2. CASE OnError(exec[e]) # "idle"
  <2> DEFINE rec == [exec[e] EXCEPT !.pc = OnError(exec[e]), !.at = {}, !.todo = {}]
  <2>1. exec[e] \in Executor /\ \A m \in Mappings : exec[e].captured[m] <= mapping[m].revision
    BY DEF IInv, TypeOK, Control, CapturedEarlier
  <2>2. /\ OnError(exec[e]) \in {"note", "leave", "fail"}
        /\ OnError(exec[e]) = "note" => exec[e].pc \in {"converge", "record"}
        /\ Working(e) /\ exec[e].pc \notin {"leave", "fail"}
    BY <1>2 DEF OnError, Working, Unstarted
  <2>3. /\ rec \in Executor /\ rec.pc = OnError(exec[e]) /\ rec.at = {} /\ rec.todo = {}
        /\ rec.key = exec[e].key /\ rec.dir = exec[e].dir /\ rec.captured = exec[e].captured
    BY <2>1, <2>2 DEF Executor, Pcs
  <2>4. exec' = [exec EXCEPT ![e] = rec]
    BY <1>2, <2>1 DEF Errs, IInv, TypeOK
  <2> HIDE DEF rec
  <2>5. ErrsTo(e, rec)
    BY <2>1, <2>2, <2>3, <2>4 DEF ErrsTo
  <2>6. QED
    BY <2>5
<1>3. QED
  BY <1>1, <1>2

LEMMA ErrsContinue ==
    ASSUME IInv, NEW e \in Executors, NEW rec, ErrsTo(e, rec)
    PROVE  Continues(e, rec)
<1>1. rec.pc # "idle" => exec[e].key \in Keys
  BY AtWork DEF ErrsTo
<1>2. QED
  BY <1>1 DEF ErrsTo, Continues, NamedBy, Unstarted

-----------------------------------------------------------------------------
(* Steps that change the steps of the Operation worked on, and the Relay.    *)

WithSteps(k, st) == [op[k] EXCEPT !.step = st]

StepsStep(e, rec, st) ==
    LET k == exec[e].key IN
    /\ rec \in Executor /\ st \in [Mappings -> Step]
    /\ exec' = [exec EXCEPT ![e] = rec]
    /\ op' = [op EXCEPT ![k] = WithSteps(k, st)]
    /\ mapping' = mapping /\ down' = down /\ faulted' \in 0..MaxFaults
    /\ relay' \in [Mappings -> Values]
    /\ \A m \in Mappings \ Maps(k) : relay'[m] = relay[m]
    /\ rec.pc # "idle" => rec.key = k /\ rec.todo \subseteq Maps(k) /\ rec.at \subseteq Maps(k)
    /\ rec.pc \notin Unstarted => rec.dir = exec[e].dir
    /\ rec.pc # "start"
    /\ \A m \in Mappings : rec.captured[m] <= mapping[m].revision
    /\ Undisturbed => \A m \in Maps(k) :
         /\ st[m].state = "verified" => st[m].effect = relay'[m]
         /\ rec.pc = "record" /\ m \in rec.at => relay'[m] = Want(k, rec.dir, m)
         /\ rec.pc = "write" /\ m \in rec.todo => st[m].state # "verified"

LEMMA StepsStepKeeps ==
    ASSUME IInv, NEW e \in Executors, Working(e), exec[e].pc \notin {"leave", "fail"},
           NEW rec, NEW st, StepsStep(e, rec, st)
    PROVE  IInv'
<1> DEFINE k == exec[e].key
           new == WithSteps(k, st)
<1>1. k \in Keys /\ op[k] \in Operation
  BY AtWork
<1>2. /\ new \in Operation /\ new.step = st /\ new.plan = op[k].plan
      /\ new.captured = op[k].captured /\ new.base = op[k].base /\ new.fresh = op[k].fresh
      /\ new.lost = op[k].lost /\ new.owns = op[k].owns /\ new.lifecycle = op[k].lifecycle
      /\ new.old = op[k].old /\ new.promotions = op[k].promotions
  BY <1>1 DEF WithSteps, StepsStep, Operation
<1> HIDE DEF new
<1>3. /\ op[k].lifecycle # "none" /\ OthersStray(e, k)
      /\ ~op[k].lost => op[k].lifecycle \in Busy /\ op[k].owns
  BY AtWork DEF OpenFor
<1>4. KeepsReview(k, new)
  BY <1>2, <1>3 DEF KeepsReview, Busy, Closed
<1>5. WritesOwn(k, new)
  <2>1. Heard => op[k].owns
    BY <1>1, <1>3 DEF Heard
  <2>2. new.promotions # 0 =>
          new.promotions = 1 /\ \A m \in Maps(k) : new.captured[m] < mapping'[m].revision
    BY <1>1, <1>2 DEF StepsStep, IInv, Control, PromotedBeyond
  <2>3. \A m \in Mappings : mapping[m].revision <= mapping'[m].revision
    BY RevisionsStay DEF StepsStep
  <2>4. mapping' = mapping /\ mapping' \in [Mappings -> [revision : Revisions, content : Values]]
    BY RevisionsStay DEF StepsStep
  <2>5. QED
    BY <2>1, <2>2, <2>3, <2>4 DEF WritesOwn, StepsStep
<1>6. ActsOn(k, rec, new)
  <2>1. OpenFor(op[k], exec[e])
    BY AtWork
  <2>2. rec.pc \notin Unstarted => OpenFor(new, rec)
    BY <2>1, <1>2, <1>3 DEF OpenFor, StepsStep, Busy, Closed
  <2>3. QED
    BY <2>2 DEF ActsOn, StepsStep
<1>7. KeepsEvidence(k, rec, new)
  BY <1>1, <1>2, <1>3 DEF KeepsEvidence, StepsStep
<1>8. OpStep(e, k, rec, new)
  BY <1>2, <1>3, <1>4, <1>5, <1>6, <1>7 DEF OpStep, StepsStep, new
<1>9. QED
  BY <1>1, <1>8, OpStepKeeps

(* The writes and the convergence of a step.                                 *)

Counted == faulted' \in 0..MaxFaults

LEMMA DispatchKeeps ==
    ASSUME IInv, Counted, NEW e \in Executors, Dispatch(e)
    PROVE  IInv'
<1> DEFINE k == exec[e].key
           st == [m \in Mappings |-> IF m \in Maps(k) THEN [op[k].step[m] EXCEPT !.state = "dispatched"]
                                     ELSE op[k].step[m]]
           rec == [exec[e] EXCEPT !.pc = "write", !.todo = Maps(k)]
<1>1. Working(e) /\ exec[e].pc = "dispatch"
  BY DEF Dispatch, Working, Unstarted
<1>2. /\ exec[e] \in Executor /\ k \in Keys /\ op[k] \in Operation /\ Maps(k) \subseteq Mappings
      /\ exec[e].at \subseteq Maps(k) /\ \A m \in Mappings : exec[e].captured[m] <= mapping[m].revision
  BY <1>1, AtWork
<1>3. /\ st \in [Mappings -> Step]
      /\ \A m \in Maps(k) : st[m].state = "dispatched"
  BY <1>2 DEF Operation, Step
<1>4. /\ rec \in Executor /\ rec.pc = "write" /\ rec.todo = Maps(k) /\ rec.at = exec[e].at
      /\ rec.key = k /\ rec.dir = exec[e].dir /\ rec.captured = exec[e].captured
  BY <1>2 DEF Executor, Pcs
<1>5. exec' = [exec EXCEPT ![e] = rec] /\ op' = [op EXCEPT ![k] = WithSteps(k, st)]
  BY DEF Dispatch, WithSteps
<1>6. mapping' = mapping /\ relay' = relay /\ down' = down /\ relay \in [Mappings -> Values]
  BY RevisionsStay DEF Dispatch
<1> HIDE DEF st, rec
<1>7. StepsStep(e, rec, st)
  BY <1>2, <1>3, <1>4, <1>5, <1>6 DEF StepsStep, Counted
<1>8. QED
  BY <1>1, <1>7, StepsStepKeeps

Reached(e, m, trouble) ==
    [exec[e] EXCEPT !.todo = exec[e].todo \ {m}, !.trouble = trouble,
                    !.seen = [exec[e].seen EXCEPT ![m] = IF m = op[exec[e].key].plan.primary
                                                         THEN exec[e].seen[m]
                                                         ELSE mapping[m].revision]]

LEMMA ReachType ==
    ASSUME IInv, NEW e \in Executors, NEW m \in exec[e].todo, exec[e].pc = "write",
           NEW trouble \in BOOLEAN
    PROVE  LET rec == Reached(e, m, trouble) IN
           /\ rec \in Executor /\ rec.pc = "write" /\ rec.todo = exec[e].todo \ {m}
           /\ rec.at = exec[e].at /\ rec.key = exec[e].key /\ rec.dir = exec[e].dir
           /\ rec.captured = exec[e].captured
<1>1. exec[e] \in Executor /\ m \in Mappings
  BY AtWork DEF Working, Unstarted
<1>2. mapping[m].revision \in Revisions
  BY <1>1, RevisionsStay
<1> DEFINE seen == [exec[e].seen EXCEPT ![m] = IF m = op[exec[e].key].plan.primary
                                               THEN exec[e].seen[m] ELSE mapping[m].revision]
<1>3. seen \in [Mappings -> Revisions]
  BY <1>1, <1>2 DEF Executor
<1>4. Reached(e, m, trouble) = [exec[e] EXCEPT !.todo = @ \ {m}, !.trouble = trouble, !.seen = seen]
  BY <1>1 DEF Executor, Reached
<1> HIDE DEF seen
<1>5. QED
  BY <1>1, <1>3, <1>4 DEF Executor

(* A write, whether it is answered or not.                                   *)
WriteLike(e, m, st) ==
    LET k == exec[e].key IN
    /\ exec[e].pc = "write" /\ m \in exec[e].todo
    /\ \E trouble \in BOOLEAN : exec' = [exec EXCEPT ![e] = Reached(e, m, trouble)]
    /\ relay' \in {relay, [relay EXCEPT ![m] = k]}
    /\ st = op[k].step \/ (/\ st = [op[k].step EXCEPT ![m] = [state |-> "verified", effect |-> k]]
                           /\ relay' = [relay EXCEPT ![m] = k])
    /\ op' = [op EXCEPT ![k] = WithSteps(k, st)]
    /\ UNCHANGED <<mapping, down>>

LEMMA WriteLikeKeeps ==
    ASSUME IInv, Counted, NEW e \in Executors, NEW m, NEW st, WriteLike(e, m, st)
    PROVE  IInv'
<1> DEFINE k == exec[e].key
<1>1. Working(e) /\ exec[e].pc = "write" /\ m \in exec[e].todo
  BY DEF WriteLike, Working, Unstarted
<1>2. /\ exec[e] \in Executor /\ k \in Keys /\ op[k] \in Operation /\ Maps(k) \subseteq Mappings
      /\ exec[e].at \subseteq Maps(k) /\ exec[e].todo \subseteq Maps(k)
      /\ \A i \in Mappings : exec[e].captured[i] <= mapping[i].revision
      /\ ~op[k].lost => op[k].owns
  BY <1>1, AtWork
<1>3. PICK rec : /\ exec' = [exec EXCEPT ![e] = rec]
                 /\ rec \in Executor /\ rec.pc = "write" /\ rec.todo = exec[e].todo \ {m}
                 /\ rec.at = exec[e].at /\ rec.key = k /\ rec.dir = exec[e].dir
                 /\ rec.captured = exec[e].captured
  <2>1. PICK trouble \in BOOLEAN : exec' = [exec EXCEPT ![e] = Reached(e, m, trouble)]
    BY DEF WriteLike
  <2> DEFINE r == Reached(e, m, trouble)
  <2>2. /\ r \in Executor /\ r.pc = "write" /\ r.todo = exec[e].todo \ {m}
        /\ r.at = exec[e].at /\ r.key = k /\ r.dir = exec[e].dir
        /\ r.captured = exec[e].captured
    BY <1>1, ReachType
  <2> HIDE DEF r
  <2>3. QED
    BY <2>1, <2>2 DEF r
<1>4. /\ m \in Mappings /\ k \in Values
      /\ op[k].step \in [Mappings -> Step]
  BY <1>1, <1>2 DEF Operation, Values
<1>5. st \in [Mappings -> Step]
  <2>1. [state |-> "verified", effect |-> k] \in Step
    BY <1>4 DEF Step
  <2>2. QED
    BY <2>1, <1>4 DEF WriteLike
<1>6. /\ relay \in [Mappings -> Values] /\ relay' \in [Mappings -> Values]
      /\ \A i \in Mappings : i # m => relay'[i] = relay[i]
  BY <1>4, RevisionsStay DEF WriteLike
<1>7. ASSUME Undisturbed, NEW i \in Maps(k)
      PROVE  /\ st[i].state = "verified" => st[i].effect = relay'[i]
             /\ i \in rec.todo => st[i].state # "verified"
  <2>1. op[k].owns /\ i \in Mappings
    BY <1>2, <1>7 DEF Undisturbed, Heard
  <2>2. op[k].step[i].state = "verified" => op[k].step[i].effect = relay[i]
    BY <1>2, <1>7, <2>1, EvidenceOf
  <2>3. i \in exec[e].todo => op[k].step[i].state # "verified"
    BY <1>1, <1>7, <2>1 DEF IInv, Evidence, Converging
  <2>4. CASE i = m
    <3>1. st = op[k].step => st[i].state # "verified"
      BY <2>3, <2>4, <1>1
    <3>2. st # op[k].step => st[i].effect = k /\ relay'[i] = k
      BY <2>4, <1>4, <1>6, RevisionsStay DEF WriteLike
    <3>3. i \notin rec.todo
      BY <2>4, <1>3
    <3>4. QED
      BY <3>1, <3>2, <3>3
  <2>5. CASE i # m
    <3>1. st[i] = op[k].step[i] /\ relay'[i] = relay[i]
      BY <2>1, <2>5, <1>4, <1>6 DEF WriteLike
    <3>2. QED
      BY <3>1, <2>2, <2>3, <1>3
  <2>6. QED
    BY <2>4, <2>5
<1>8. StepsStep(e, rec, st)
  <2>1. /\ op' = [op EXCEPT ![k] = WithSteps(k, st)]
        /\ mapping' = mapping /\ down' = down /\ faulted' \in 0..MaxFaults
    BY DEF WriteLike, Counted
  <2>2. \A i \in Mappings \ Maps(k) : relay'[i] = relay[i]
    BY <1>1, <1>2, <1>6
  <2>3. rec.todo \subseteq Maps(k) /\ rec.at \subseteq Maps(k)
    BY <1>2, <1>3
  <2>4. Undisturbed => \A i \in Maps(k) :
           /\ st[i].state = "verified" => st[i].effect = relay'[i]
           /\ i \in rec.todo => st[i].state # "verified"
    BY <1>7
  <2>5. \A i \in Mappings : rec.captured[i] <= mapping[i].revision
    BY <1>2, <1>3
  <2>6. QED
    BY <1>3, <1>5, <1>6, <2>1, <2>2, <2>3, <2>4, <2>5 DEF StepsStep
<1>9. QED
  BY <1>1, <1>8, StepsStepKeeps

LEMMA SameSteps ==
    ASSUME IInv, NEW k \in Keys
    PROVE  op = [op EXCEPT ![k] = WithSteps(k, op[k].step)]
<1>1. op[k] \in Operation /\ op \in [Keys -> Operation]
  BY DEF IInv, TypeOK
<1>2. WithSteps(k, op[k].step) = op[k]
  BY <1>1 DEF WithSteps, Operation
<1>3. QED
  BY <1>1, <1>2

LEMMA WriteKeeps ==
    ASSUME IInv, Counted, NEW e \in Executors, NEW m \in Mappings, Write(e, m) \/ WriteFails(e, m)
    PROVE  IInv'
<1> DEFINE k == exec[e].key
<1>1. exec[e].pc = "write" /\ m \in exec[e].todo /\ Working(e)
  BY DEF Write, WriteFails, Working, Unstarted
<1>2. k \in Keys /\ exec[e] \in Executor
  BY <1>1, AtWork
<1>3. \E trouble \in BOOLEAN : exec' = [exec EXCEPT ![e] = Reached(e, m, trouble)]
  <2>1. exec[e].trouble \in BOOLEAN /\ exec \in [Executors -> Executor]
    BY <1>2 DEF Executor, IInv, TypeOK
  <2>2. Reach(e, m) = [exec EXCEPT ![e] = Reached(e, m, exec[e].trouble)]
    BY <1>2 DEF Reach, Reached, Executor
  <2>3. CASE Write(e, m)
    BY <2>1, <2>2, <2>3 DEF Write
  <2>4. CASE WriteFails(e, m)
    <3>1. exec' = [Reach(e, m) EXCEPT ![e].trouble = TRUE]
      BY <2>4 DEF WriteFails
    <3>2. exec' = [exec EXCEPT ![e] = [Reached(e, m, exec[e].trouble) EXCEPT !.trouble = TRUE]]
      BY <3>1, <2>1, <2>2
    <3>3. [Reached(e, m, exec[e].trouble) EXCEPT !.trouble = TRUE] = Reached(e, m, TRUE)
      BY <1>2 DEF Executor, Reached
    <3>4. QED
      BY <3>2, <3>3
  <2>5. QED
    BY <2>3, <2>4
<1>4. \E st : WriteLike(e, m, st)
  <2>1. CASE op' = op
    <3>1. op' = [op EXCEPT ![k] = WithSteps(k, op[k].step)]
      BY <1>2, <2>1, SameSteps
    <3>2. WriteLike(e, m, op[k].step)
      BY <1>1, <1>3, <3>1 DEF WriteLike, Write, WriteFails
    <3>3. QED
      BY <3>2
  <2>2. CASE Write(e, m) /\ op' = [op EXCEPT ![k].step[m] = [state |-> "verified", effect |-> k]]
    <3> DEFINE st == [op[k].step EXCEPT ![m] = [state |-> "verified", effect |-> k]]
    <3>1. op' = [op EXCEPT ![k] = WithSteps(k, st)]
      BY <2>2 DEF WithSteps
    <3>2. WriteLike(e, m, st)
      BY <1>1, <1>3, <3>1, <2>2 DEF WriteLike, Write
    <3>3. QED
      BY <3>2
  <2>3. QED
    BY <2>1, <2>2 DEF Write, WriteFails
<1>5. QED
  BY <1>4, WriteLikeKeeps

LEMMA ConvergeKeeps ==
    ASSUME IInv, Counted, NEW e \in Executors, NEW m \in Mappings, Converge(e, m)
    PROVE  IInv'
<1> DEFINE k == exec[e].key
           st == [op[k].step EXCEPT ![m] = [op[k].step[m] EXCEPT !.state = "dispatched"]]
           rec == [exec[e] EXCEPT !.pc = "record", !.todo = @ \ {m}, !.at = {m}]
<1>1. Working(e) /\ exec[e].pc = "converge" /\ m \in exec[e].todo
  BY DEF Converge, Working, Unstarted
<1>2. /\ exec[e] \in Executor /\ k \in Keys /\ op[k] \in Operation /\ Maps(k) \subseteq Mappings
      /\ exec[e].todo \subseteq Maps(k) /\ \A i \in Mappings : exec[e].captured[i] <= mapping[i].revision
      /\ ~op[k].lost => op[k].owns
  BY <1>1, AtWork
<1>3. /\ st \in [Mappings -> Step] /\ st[m].state = "dispatched"
      /\ \A i \in Mappings : i # m => st[i] = op[k].step[i]
  BY <1>2 DEF Operation, Step
<1>4. /\ rec \in Executor /\ rec.pc = "record" /\ rec.todo = exec[e].todo \ {m} /\ rec.at = {m}
      /\ rec.key = k /\ rec.dir = exec[e].dir /\ rec.captured = exec[e].captured
  BY <1>2 DEF Executor, Pcs
<1>5. exec' = [exec EXCEPT ![e] = rec] /\ op' = [op EXCEPT ![k] = WithSteps(k, st)]
  BY <1>2 DEF Converge, WithSteps, IInv, TypeOK
<1>6. Want(k, exec[e].dir, m) \in Values
  BY <1>2 DEF Want, Operation, Values
<1>7. /\ relay \in [Mappings -> Values] /\ relay' \in [Mappings -> Values]
      /\ relay'[m] = Want(k, exec[e].dir, m)
      /\ \A i \in Mappings : i # m => relay'[i] = relay[i]
      /\ mapping' = mapping /\ down' = down
  BY <1>6, RevisionsStay DEF Converge
<1> HIDE DEF st, rec
<1>8. ASSUME Undisturbed, NEW i \in Maps(k)
      PROVE  st[i].state = "verified" => st[i].effect = relay'[i]
  <2>1. op[k].owns /\ i \in Mappings
    BY <1>2, <1>8 DEF Undisturbed, Heard
  <2>2. op[k].step[i].state = "verified" => op[k].step[i].effect = relay[i]
    BY <1>2, <1>8, <2>1, EvidenceOf
  <2>3. QED
    BY <2>1, <2>2, <1>3, <1>7
<1>9. StepsStep(e, rec, st)
  <2>1. \A i \in Mappings \ Maps(k) : relay'[i] = relay[i]
    BY <1>1, <1>2, <1>7
  <2>2. rec.todo \subseteq Maps(k) /\ rec.at \subseteq Maps(k)
    BY <1>1, <1>2, <1>4
  <2>3. \A i \in Mappings : rec.captured[i] <= mapping[i].revision
    BY <1>2, <1>4
  <2>4. Undisturbed => \A i \in Maps(k) : st[i].state = "verified" => st[i].effect = relay'[i]
    BY <1>8
  <2>5. \A i \in rec.at : relay'[i] = Want(k, rec.dir, i)
    BY <1>4, <1>7
  <2>6. faulted' \in 0..MaxFaults
    BY DEF Counted
  <2>7. QED
    BY <1>3, <1>4, <1>5, <1>7, <2>1, <2>2, <2>3, <2>4, <2>5, <2>6 DEF StepsStep
<1>10. QED
  BY <1>1, <1>9, StepsStepKeeps

(* A convergence that ends in an error, marked or not, written or not.       *)
ConvergeError(e, m, s, rec) ==
    /\ exec[e].pc = "converge" /\ m \in exec[e].todo
    /\ op' = [op EXCEPT ![exec[e].key].step[m].state = s]
    /\ relay' \in {relay, [relay EXCEPT ![m] = Want(exec[e].key, exec[e].dir, m)]}
    /\ UNCHANGED <<mapping, down>>
    /\ rec \in Executor /\ exec' = [exec EXCEPT ![e] = rec]
    /\ rec.pc \in {"idle", "note", "leave", "fail", "block"}
    /\ rec.todo = {} /\ rec.at \subseteq {m}
    /\ rec.pc # "idle" => rec.key = exec[e].key /\ rec.dir = exec[e].dir
    /\ \A i \in Mappings : rec.captured[i] <= mapping[i].revision

LEMMA ConvergeErrorKeeps ==
    ASSUME IInv, Counted, NEW e \in Executors, NEW m \in Mappings, NEW s \in {"dispatched", "failed"},
           NEW rec, ConvergeError(e, m, s, rec)
    PROVE  IInv'
<1> DEFINE k == exec[e].key
           st == [op[k].step EXCEPT ![m] = [op[k].step[m] EXCEPT !.state = s]]
<1>1. Working(e) /\ exec[e].pc \notin {"leave", "fail"} /\ m \in exec[e].todo
  BY DEF ConvergeError, Working, Unstarted
<1>2. /\ exec[e] \in Executor /\ k \in Keys /\ op[k] \in Operation /\ Maps(k) \subseteq Mappings
      /\ exec[e].todo \subseteq Maps(k)
      /\ ~op[k].lost => op[k].owns
  BY <1>1, AtWork
<1>3. /\ st \in [Mappings -> Step] /\ st[m].state # "verified"
      /\ \A i \in Mappings : i # m => st[i] = op[k].step[i]
  BY <1>2 DEF Operation, Step
<1>4. op' = [op EXCEPT ![k] = WithSteps(k, st)]
  BY <1>2 DEF WithSteps, IInv, TypeOK, ConvergeError
<1>5. Want(k, exec[e].dir, m) \in Values
  BY <1>2 DEF Want, Operation, Values
<1>6. /\ relay \in [Mappings -> Values] /\ relay' \in [Mappings -> Values]
      /\ \A i \in Mappings : i # m => relay'[i] = relay[i]
  BY <1>5, RevisionsStay DEF ConvergeError
<1> HIDE DEF st
<1>7. ASSUME Undisturbed, NEW i \in Maps(k)
      PROVE  st[i].state = "verified" => st[i].effect = relay'[i]
  <2>1. op[k].owns /\ i \in Mappings
    BY <1>2, <1>7 DEF Undisturbed, Heard
  <2>2. op[k].step[i].state = "verified" => op[k].step[i].effect = relay[i]
    BY <1>2, <1>7, <2>1, EvidenceOf
  <2>3. QED
    BY <2>1, <2>2, <1>3, <1>6
<1>8. StepsStep(e, rec, st)
  <2>1. \A i \in Mappings \ Maps(k) : relay'[i] = relay[i]
    BY <1>1, <1>2, <1>6
  <2>2. rec.todo \subseteq Maps(k) /\ rec.at \subseteq Maps(k)
    BY <1>1, <1>2 DEF ConvergeError
  <2>3. Undisturbed => \A i \in Maps(k) : st[i].state = "verified" => st[i].effect = relay'[i]
    BY <1>7
  <2>4. faulted' \in 0..MaxFaults
    BY DEF Counted
  <2>5. rec.pc \notin Unstarted => rec.dir = exec[e].dir
    BY DEF Unstarted, ConvergeError
  <2>6. QED
    BY <1>3, <1>4, <1>6, <2>1, <2>2, <2>3, <2>4, <2>5 DEF StepsStep, ConvergeError
<1>9. QED
  BY <1>1, <1>8, StepsStepKeeps

LEMMA ConvergeFaultsKeep ==
    ASSUME IInv, Counted, NEW e \in Executors, NEW m \in Mappings,
           ConvergeFails(e, m) \/ ConvergeBlocked(e, m)
    PROVE  IInv'
<1>1. exec[e].pc = "converge" /\ Working(e)
  BY DEF ConvergeFails, ConvergeBlocked, Working, Unstarted
<1>2. exec[e] \in Executor /\ \A i \in Mappings : exec[e].captured[i] <= mapping[i].revision
  BY <1>1, AtWork
<1>3. CASE Errs(e)
  <2>1. PICK rec : ErrsTo(e, rec)
    BY <1>1, <1>3, ErrsSomewhere
  <2>2. QED
    BY <1>1, <2>1, ConvergeErrorKeeps DEF ErrsTo, ConvergeFails, ConvergeBlocked, ConvergeError
<1>4. CASE ~Errs(e)
  <2> DEFINE rec == [exec[e] EXCEPT !.pc = "block", !.todo = {}, !.at = {m}]
  <2>1. ConvergeBlocked(e, m) /\ exec' = [exec EXCEPT ![e] = rec]
    BY <1>2, <1>4 DEF ConvergeFails, ConvergeBlocked, IInv, TypeOK
  <2>2. /\ rec \in Executor /\ rec.pc = "block" /\ rec.todo = {} /\ rec.at = {m}
        /\ rec.key = exec[e].key /\ rec.dir = exec[e].dir /\ rec.captured = exec[e].captured
    BY <1>2 DEF Executor, Pcs
  <2> HIDE DEF rec
  <2>3. QED
    BY <1>1, <1>2, <2>1, <2>2, ConvergeErrorKeeps DEF ConvergeBlocked, ConvergeError
<1>5. QED
  BY <1>3, <1>4

LEMMA RecordKeeps ==
    ASSUME IInv, Counted, NEW e \in Executors, Record(e)
    PROVE  IInv'
<1> DEFINE k == exec[e].key
           st == [m \in Mappings |-> IF m \in exec[e].at
                                     THEN [state |-> "verified", effect |-> Want(k, exec[e].dir, m)]
                                     ELSE op[k].step[m]]
           pc == IF exec[e].todo = {} THEN "close" ELSE "converge"
           rec == [exec[e] EXCEPT !.pc = pc, !.at = {}]
<1>1. Working(e) /\ exec[e].pc = "record"
  BY DEF Record, Working, Unstarted
<1>2. /\ exec[e] \in Executor /\ k \in Keys /\ op[k] \in Operation /\ Maps(k) \subseteq Mappings
      /\ exec[e].todo \subseteq Maps(k) /\ \A i \in Mappings : exec[e].captured[i] <= mapping[i].revision
      /\ ~op[k].lost => op[k].owns
  BY <1>1, AtWork
<1>3. \A m \in Mappings : [state |-> "verified", effect |-> Want(k, exec[e].dir, m)] \in Step
  BY <1>2 DEF Want, Operation, Values, Step
<1>4. st \in [Mappings -> Step]
  BY <1>2, <1>3 DEF Operation
<1>5. /\ rec \in Executor /\ rec.pc \in {"close", "converge"} /\ rec.todo = exec[e].todo /\ rec.at = {}
      /\ rec.key = k /\ rec.dir = exec[e].dir /\ rec.captured = exec[e].captured
  BY <1>2 DEF Executor, Pcs
<1>6. exec' = [exec EXCEPT ![e] = rec] /\ op' = [op EXCEPT ![k] = WithSteps(k, st)]
  BY <1>2 DEF Record, WithSteps, IInv, TypeOK
<1>7. ASSUME Undisturbed, NEW m \in Maps(k)
      PROVE  st[m].state = "verified" => st[m].effect = relay[m]
  <2>1. op[k].owns /\ m \in Mappings
    BY <1>2, <1>7 DEF Undisturbed, Heard
  <2>2. op[k].step[m].state = "verified" => op[k].step[m].effect = relay[m]
    BY <1>2, <1>7, <2>1, EvidenceOf
  <2>3. m \in exec[e].at => relay[m] = Want(k, exec[e].dir, m)
    BY <1>1, <1>7, <2>1 DEF IInv, Evidence, Converging
  <2>4. QED
    BY <2>1, <2>2, <2>3
<1> HIDE DEF st, rec
<1>8. mapping' = mapping /\ relay' = relay /\ down' = down /\ relay \in [Mappings -> Values]
  BY RevisionsStay DEF Record
<1>9. StepsStep(e, rec, st)
  BY <1>2, <1>4, <1>5, <1>6, <1>7, <1>8 DEF StepsStep, Counted
<1>10. QED
  BY <1>1, <1>9, StepsStepKeeps

-----------------------------------------------------------------------------
(* Steps that change only the executor                                       *)

Alone == UNCHANGED <<mapping, relay, op>> /\ down' \in BOOLEAN /\ Counted

LEMMA ContinuesKeeps ==
    ASSUME IInv, Alone, NEW e \in Executors, NEW rec, Continues(e, rec)
    PROVE  IInv'
BY ExecStep DEF Alone, Counted

LEMMA ErrsKeeps ==
    ASSUME IInv, Alone, NEW e \in Executors, exec[e].pc # "idle", Errs(e)
    PROVE  IInv'
BY ErrsSomewhere, ErrsContinue, ContinuesKeeps

LEMMA StopsKeeps ==
    ASSUME IInv, Alone, NEW e \in Executors, Stops(e)
    PROVE  IInv'
BY StopsTo, ErrsContinue, ContinuesKeeps

(* An executor that has begun nothing moves on with other reads.             *)
LEMMA ReadsContinue ==
    ASSUME IInv, NEW e \in Executors, NEW rec \in Executor, exec' = [exec EXCEPT ![e] = rec],
           rec.pc \in Unstarted, rec.key \in Keys, rec.todo = {}, rec.at = {},
           rec.pc = "start" => rec.dir # "initial",
           \A m \in Mappings : rec.captured[m] <= mapping[m].revision
    PROVE  Continues(e, rec)
BY DEF Continues, NamedBy, Unstarted

LEMMA ConfirmKeeps ==
    ASSUME IInv, Alone, NEW e \in Executors, NEW k \in Keys, Confirm(e, k)
    PROVE  IInv'
<1> DEFINE seen == [Idle.seen EXCEPT ![op[k].plan.primary] = mapping[op[k].plan.primary].revision]
           rec == [Idle EXCEPT !.pc = "preview", !.key = k, !.seen = seen]
<1>1. op[k].plan.primary \in Mappings
  BY MapsType DEF IInv
<1>2. seen \in [Mappings -> Revisions]
  BY <1>1, RevisionsStay, IdleType DEF Executor
<1>3. exec' = [exec EXCEPT ![e] = rec]
  BY IdleType DEF Confirm, Executor
<1> HIDE DEF seen
<1>4. /\ rec \in Executor /\ rec.pc = "preview" /\ rec.key = k /\ rec.todo = {} /\ rec.at = {}
      /\ rec.captured = Idle.captured
  BY <1>2, IdleType DEF Executor, Pcs, Values
<1> HIDE DEF rec
<1>5. \A m \in Mappings : rec.captured[m] <= mapping[m].revision
  BY <1>4, IdleType, RevisionsStay
<1>6. Continues(e, rec)
  BY <1>3, <1>4, <1>5, ReadsContinue DEF Unstarted
<1>7. QED
  BY <1>6, ContinuesKeeps

LEMMA ReviewKeeps ==
    ASSUME IInv, Alone, NEW e \in Executors, NEW k \in Keys, NEW dir \in Directions, Review(e, k, dir)
    PROVE  IInv'
<1> DEFINE rec == [Idle EXCEPT !.pc = "start", !.key = k, !.dir = dir]
<1>1. exec' = [exec EXCEPT ![e] = rec]
  BY DEF Review
<1>2. /\ rec \in Executor /\ rec.pc = "start" /\ rec.key = k /\ rec.todo = {} /\ rec.at = {}
      /\ rec.captured = Idle.captured /\ rec.dir # "initial"
  BY IdleType DEF Executor, Pcs, Values, Review
<1> HIDE DEF rec
<1>3. \A m \in Mappings : rec.captured[m] <= mapping[m].revision
  BY <1>2, IdleType, RevisionsStay
<1>4. Continues(e, rec)
  BY <1>1, <1>2, <1>3, ReadsContinue DEF Unstarted
<1>5. QED
  BY <1>4, ContinuesKeeps

LEMMA Reader ==
    ASSUME IInv, NEW e \in Executors, exec[e].pc # "idle"
    PROVE  /\ exec[e] \in Executor /\ exec[e].key \in Keys
           /\ Maps(exec[e].key) \subseteq Mappings
           /\ exec[e].todo \subseteq Maps(exec[e].key) /\ exec[e].at \subseteq Maps(exec[e].key)
           /\ exec \in [Executors -> Executor]
           /\ \A m \in Mappings : exec[e].captured[m] <= mapping[m].revision
<1>1. NamedBy(exec[e])
  BY DEF IInv, Control, Named
<1>2. QED
  BY <1>1, MapsType DEF IInv, TypeOK, NamedBy, Control, CapturedEarlier

LEMMA PreviewKeeps ==
    ASSUME IInv, Alone, NEW e \in Executors, Preview(e)
    PROVE  IInv'
<1> DEFINE k == exec[e].key
           base == [m \in Mappings |-> IF m \in Maps(k) THEN relay[m] ELSE None]
           rec == [exec[e] EXCEPT !.pc = "capture", !.base = base]
<1>1. exec[e].pc = "preview"
  BY DEF Preview
<1>2. base \in [Mappings -> Values]
  BY RevisionsStay DEF Values
<1>3. exec' = [exec EXCEPT ![e] = rec]
  BY <1>1, Reader DEF Preview
<1> HIDE DEF base
<1>4. /\ rec \in Executor /\ rec.pc = "capture" /\ rec.key = k /\ rec.todo = exec[e].todo
      /\ rec.at = exec[e].at /\ rec.captured = exec[e].captured
  BY <1>1, <1>2, Reader DEF Executor, Pcs
<1> HIDE DEF rec
<1>5. Continues(e, rec)
  BY <1>1, <1>3, <1>4, Reader DEF Continues, NamedBy, Unstarted
<1>6. QED
  BY <1>5, ContinuesKeeps

LEMMA CaptureKeeps ==
    ASSUME IInv, Alone, NEW e \in Executors, Capture(e)
    PROVE  IInv'
<1> DEFINE k == exec[e].key
           captured == [m \in Mappings |-> IF m \in Maps(k) THEN mapping[m].revision ELSE 0]
           rec == [exec[e] EXCEPT !.pc = "begin", !.captured = captured]
<1>1. exec[e].pc = "capture"
  BY DEF Capture
<1>2. captured \in [Mappings -> Revisions] /\ \A m \in Mappings : captured[m] <= mapping[m].revision
  BY RevisionsStay DEF Revisions
<1>3. exec' = [exec EXCEPT ![e] = rec]
  BY <1>1, Reader DEF Capture
<1> HIDE DEF captured
<1>4. /\ rec \in Executor /\ rec.pc = "begin" /\ rec.key = k /\ rec.todo = exec[e].todo
      /\ rec.at = exec[e].at /\ rec.captured = captured
  BY <1>1, <1>2, Reader DEF Executor, Pcs
<1> HIDE DEF rec
<1>5. Continues(e, rec)
  BY <1>1, <1>2, <1>3, <1>4, Reader DEF Continues, NamedBy, Unstarted
<1>6. QED
  BY <1>5, ContinuesKeeps

LEMMA WrittenKeeps ==
    ASSUME IInv, Alone, NEW e \in Executors, Written(e)
    PROVE  IInv'
<1> DEFINE k == exec[e].key
           pc == IF exec[e].trouble THEN "note" ELSE "converge"
           rec == [exec[e] EXCEPT !.pc = pc, !.todo = Maps(k), !.trouble = FALSE]
<1>1. exec[e].pc = "write"
  BY DEF Written
<1>2. exec' = [exec EXCEPT ![e] = rec]
  BY <1>1, Reader DEF Written
<1>3. /\ rec \in Executor /\ rec.pc \in {"note", "converge"} /\ rec.key = k /\ rec.todo = Maps(k)
      /\ rec.at = exec[e].at /\ rec.captured = exec[e].captured /\ rec.dir = exec[e].dir
  <2>1. exec[e] \in Executor /\ Maps(k) \subseteq Mappings
    BY <1>1, Reader
  <2>2. pc \in {"note", "converge"} /\ pc \in Pcs
    BY DEF Pcs
  <2> HIDE DEF pc
  <2>3. rec \in Executor
    BY <2>1, <2>2 DEF Executor
  <2>4. rec.pc = pc /\ rec.key = k /\ rec.todo = Maps(k)
    BY <2>1 DEF Executor
  <2>5. rec.at = exec[e].at /\ rec.captured = exec[e].captured /\ rec.dir = exec[e].dir
    BY <2>1 DEF Executor
  <2>6. QED
    BY <2>2, <2>3, <2>4, <2>5
<1> HIDE DEF rec
<1>4. Continues(e, rec)
  BY <1>1, <1>2, <1>3, Reader DEF Continues, NamedBy, Unstarted, Working
<1>5. QED
  BY <1>4, ContinuesKeeps

LEMMA PreflightKeeps ==
    ASSUME IInv, Alone, NEW e \in Executors,
           Preflight(e) \/ \E m \in Mappings : PreflightBlocked(e, m)
    PROVE  IInv'
<1> DEFINE k == exec[e].key
<1>1. exec[e].pc = "preflight"
  BY DEF Preflight, PreflightBlocked
<1>2. CASE Preflight(e)
  <2> DEFINE rec == [exec[e] EXCEPT !.pc = "converge", !.todo = Maps(k)]
  <2>1. exec' = [exec EXCEPT ![e] = rec]
    BY <1>1, <1>2, Reader DEF Preflight
  <2>2. /\ rec \in Executor /\ rec.pc = "converge" /\ rec.key = k /\ rec.todo = Maps(k)
        /\ rec.at = exec[e].at /\ rec.captured = exec[e].captured /\ rec.dir = exec[e].dir
    BY <1>1, Reader DEF Executor, Pcs
  <2> HIDE DEF rec
  <2>3. Continues(e, rec)
    BY <1>1, <2>1, <2>2, Reader DEF Continues, NamedBy, Unstarted, Working
  <2>4. QED
    BY <2>3, ContinuesKeeps
<1>3. ASSUME NEW m \in Mappings, PreflightBlocked(e, m)
      PROVE  IInv'
  <2> DEFINE rec == [exec[e] EXCEPT !.pc = "block", !.at = {m}]
  <2>1. exec' = [exec EXCEPT ![e] = rec] /\ m \in Maps(k)
    BY <1>1, <1>3, Reader DEF PreflightBlocked
  <2>2. /\ rec \in Executor /\ rec.pc = "block" /\ rec.key = k /\ rec.todo = exec[e].todo
        /\ rec.at = {m} /\ rec.captured = exec[e].captured /\ rec.dir = exec[e].dir
    <3>1. exec[e] \in Executor /\ {m} \in SUBSET Mappings /\ "block" \in Pcs
      BY <1>1, Reader DEF Pcs
    <3>2. QED
      BY <3>1 DEF Executor
  <2> HIDE DEF rec
  <2>3. Continues(e, rec)
    BY <1>1, <2>1, <2>2, Reader DEF Continues, NamedBy, Unstarted, Working
  <2>4. QED
    BY <2>3, ContinuesKeeps
<1>4. QED
  BY <1>2, <1>3

-----------------------------------------------------------------------------
(* Steps that leave an Operation open or open it again                       *)

OpenStep(e, k, rec, new) ==
    /\ rec \in Executor /\ new \in Operation
    /\ exec' = [exec EXCEPT ![e] = rec] /\ op' = [op EXCEPT ![k] = new]
    /\ UNCHANGED <<mapping, relay, down>> /\ Counted
    /\ OthersStray(e, k)
    /\ new.plan = op[k].plan /\ new.captured = op[k].captured /\ new.base = op[k].base
    /\ new.fresh = op[k].fresh /\ new.lost = op[k].lost /\ new.owns = op[k].owns
    /\ new.promotions = op[k].promotions
    /\ ~op[k].lost => op[k].owns
    /\ new.lifecycle \notin Closed \cup {"none"}
    /\ \A m \in Maps(k) : new.step[m].state = "verified" => new.step[m] = op[k].step[m]
    /\ ActsOn(k, rec, new) /\ rec.pc \notin {"record", "write"}

LEMMA OpenStepKeeps ==
    ASSUME IInv, NEW e \in Executors, NEW k \in Keys, NEW rec, NEW new, OpenStep(e, k, rec, new)
    PROVE  IInv'
<1>1. KeepsReview(k, new)
  BY DEF OpenStep, KeepsReview
<1>2. WritesOwn(k, new)
  <2>1. Heard => op[k].owns
    BY DEF Heard, OpenStep
  <2>2. new.promotions # 0 =>
          new.promotions = 1 /\ \A m \in Maps(k) : new.captured[m] < mapping'[m].revision
    BY DEF OpenStep, IInv, Control, PromotedBeyond
  <2>3. /\ mapping' = mapping /\ relay' = relay
        /\ \A m \in Mappings : mapping[m].revision <= mapping'[m].revision
    BY RevisionsStay DEF OpenStep
  <2>4. QED
    BY <2>1, <2>2, <2>3, RevisionsStay DEF WritesOwn
<1>3. KeepsEvidence(k, rec, new)
  <2> SUFFICES ASSUME Undisturbed, ~new.lost, NEW m \in Maps(k)
               PROVE  /\ new.owns
                      /\ new.step[m].state = "verified" => new.step[m].effect = relay[m]
    BY DEF KeepsEvidence, OpenStep
  <2>1. op[k].owns /\ new.owns
    BY DEF OpenStep
  <2>2. op[k].step[m].state = "verified" => op[k].step[m].effect = relay[m]
    BY <2>1, EvidenceOf
  <2>3. QED
    BY <2>1, <2>2 DEF OpenStep
<1>4. OpStep(e, k, rec, new)
  BY <1>1, <1>2, <1>3 DEF OpStep, OpenStep, Counted
<1>5. QED
  BY <1>4, OpStepKeeps

LEMMA IdleActs ==
    ASSUME IInv, NEW k \in Keys, NEW new
    PROVE  ActsOn(k, Idle, new) /\ Idle.pc \notin {"record", "write"}
BY IdleType, RevisionsStay DEF ActsOn, Unstarted

LEMMA InterruptKeeps ==
    ASSUME IInv, Counted, NEW e \in Executors, Interrupt(e) \/ FailRecovery(e)
    PROVE  IInv'
<1> DEFINE k == exec[e].key
           new == [op[k] EXCEPT !.lifecycle = "interrupted"]
<1>1. Working(e)
  BY DEF Interrupt, FailRecovery, Working, Unstarted
<1>2. /\ k \in Keys /\ op[k] \in Operation
      /\ ~op[k].lost => op[k].owns
      /\ OthersStray(e, k)
  BY <1>1, AtWork
<1>3. /\ new \in Operation /\ new.lifecycle = "interrupted"
      /\ new.plan = op[k].plan /\ new.captured = op[k].captured /\ new.base = op[k].base
      /\ new.fresh = op[k].fresh /\ new.lost = op[k].lost /\ new.owns = op[k].owns
      /\ new.promotions = op[k].promotions /\ new.step = op[k].step
  BY <1>2 DEF Operation, Lifecycles
<1>4. /\ op' = [op EXCEPT ![k] = new] /\ exec' = [exec EXCEPT ![e] = Idle]
      /\ UNCHANGED <<mapping, relay, down>>
  BY DEF Interrupt, FailRecovery, Lifecycle, Stops
<1> HIDE DEF new
<1>5. OpenStep(e, k, Idle, new)
  BY <1>2, <1>3, <1>4, IdleType, IdleActs DEF OpenStep, Closed
<1>6. QED
  BY <1>2, <1>5, OpenStepKeeps

(* From then on the reply is lost, and the executor only leaves.             *)
LEMMA InterruptUnheardKeeps ==
    ASSUME IInv, Counted, NEW e \in Executors, InterruptUnheard(e)
    PROVE  IInv'
<1> DEFINE k == exec[e].key
           new == [op[k] EXCEPT !.lifecycle = "interrupted", !.lost = TRUE]
           rec == [exec[e] EXCEPT !.pc = "leave"]
<1>1. Working(e)
  BY DEF InterruptUnheard, Working, Unstarted
<1>2. /\ exec[e] \in Executor /\ k \in Keys /\ op[k] \in Operation
      /\ exec[e].todo \subseteq Maps(k) /\ exec[e].at \subseteq Maps(k)
      /\ ~op[k].lost => op[k].owns
      /\ OthersStray(e, k)
      /\ \A m \in Mappings : exec[e].captured[m] <= mapping[m].revision
  BY <1>1, AtWork
<1>3. /\ new \in Operation /\ new.lifecycle = "interrupted" /\ new.lost
      /\ new.plan = op[k].plan /\ new.captured = op[k].captured /\ new.base = op[k].base
      /\ new.fresh = op[k].fresh /\ new.owns = op[k].owns
      /\ new.promotions = op[k].promotions
  BY <1>2 DEF Operation, Lifecycles
<1>4. /\ rec \in Executor /\ rec.pc = "leave" /\ rec.key = k
      /\ rec.todo = exec[e].todo /\ rec.at = exec[e].at /\ rec.captured = exec[e].captured
  BY <1>2 DEF Executor, Pcs
<1>5. /\ op' = [op EXCEPT ![k] = new] /\ exec' = [exec EXCEPT ![e] = rec]
      /\ UNCHANGED <<mapping, relay, down>>
  BY <1>2 DEF InterruptUnheard, Lifecycle, Goes, IInv, TypeOK
<1> HIDE DEF new, rec
<1>6. KeepsReview(k, new)
  BY <1>3 DEF KeepsReview
<1>7. WritesOwn(k, new)
  <2>1. Heard => op[k].owns
    BY <1>2 DEF Heard
  <2>2. new.promotions # 0 =>
          new.promotions = 1 /\ \A m \in Maps(k) : new.captured[m] < mapping'[m].revision
    BY <1>2, <1>3, <1>5 DEF IInv, Control, PromotedBeyond
  <2>3. \A m \in Mappings : mapping[m].revision <= mapping'[m].revision
    BY <1>5, RevisionsStay
  <2>4. QED
    BY <1>5, <2>1, <2>2, <2>3, RevisionsStay DEF WritesOwn
<1>8. ActsOn(k, rec, new)
  BY <1>2, <1>3, <1>4 DEF ActsOn, OpenFor
<1>9. OpStep(e, k, rec, new)
  BY <1>2, <1>3, <1>4, <1>5, <1>6, <1>7, <1>8 DEF OpStep, KeepsEvidence, Counted
<1>10. QED
  BY <1>2, <1>9, OpStepKeeps

LEMMA BlockKeeps ==
    ASSUME IInv, Counted, NEW e \in Executors, Block(e)
    PROVE  IInv'
<1> DEFINE k == exec[e].key
           st == [m \in Mappings |-> IF m \in exec[e].at THEN [op[k].step[m] EXCEPT !.state = "blocked"]
                                     ELSE op[k].step[m]]
           new == [op[k] EXCEPT !.lifecycle = "blocked_external", !.step = st]
<1>1. Working(e)
  BY DEF Block, Working, Unstarted
<1>2. /\ k \in Keys /\ op[k] \in Operation /\ Maps(k) \subseteq Mappings
      /\ ~op[k].lost => op[k].owns
      /\ OthersStray(e, k)
  BY <1>1, AtWork
<1>3. /\ st \in [Mappings -> Step]
      /\ \A m \in Maps(k) : st[m].state = "verified" => st[m] = op[k].step[m]
  BY <1>2 DEF Operation, Step
<1>4. op' = [op EXCEPT ![k] = new]
  BY <1>2 DEF Block, Lifecycle, IInv, TypeOK, Operation
<1> HIDE DEF st
<1>5. /\ new \in Operation /\ new.lifecycle = "blocked_external" /\ new.step = st
      /\ new.plan = op[k].plan /\ new.captured = op[k].captured /\ new.base = op[k].base
      /\ new.fresh = op[k].fresh /\ new.lost = op[k].lost /\ new.owns = op[k].owns
      /\ new.promotions = op[k].promotions
  BY <1>2, <1>3 DEF Operation, Lifecycles
<1>6. exec' = [exec EXCEPT ![e] = Idle] /\ UNCHANGED <<mapping, relay, down>>
  BY DEF Block, Stops
<1> HIDE DEF new
<1>7. OpenStep(e, k, Idle, new)
  BY <1>2, <1>3, <1>4, <1>5, <1>6, IdleType, IdleActs DEF OpenStep, Closed
<1>8. QED
  BY <1>2, <1>7, OpenStepKeeps

LEMMA StartRecoveryKeeps ==
    ASSUME IInv, Counted, NEW e \in Executors, StartRecovery(e)
    PROVE  IInv'
<1> DEFINE k == exec[e].key
           l == IF exec[e].dir = "resume" THEN "resuming" ELSE "restoring"
           new == [op[k] EXCEPT !.lifecycle = l, !.attempts = @ + 1, !.old = FALSE]
           rec == [exec[e] EXCEPT !.pc = "preflight"]
<1>1. exec[e].pc = "start" /\ MayStart(k)
  BY DEF StartRecovery
<1>2. /\ exec[e] \in Executor /\ k \in Keys /\ exec[e].dir # "initial"
      /\ exec[e].todo \subseteq Maps(k) /\ exec[e].at \subseteq Maps(k)
      /\ \A m \in Mappings : exec[e].captured[m] <= mapping[m].revision
  BY <1>1, Reader DEF IInv, Control, Named, NamedBy
<1>3. op[k] \in Operation /\ op[k].lifecycle = "interrupted" /\ op[k].attempts + 1 \in 0..MaxAttempts
  BY <1>1, <1>2, RelationshipOperationAssumption DEF IInv, TypeOK, MayStart, Operation
<1>4. OthersStray(e, k)
  BY <1>3 DEF IInv, Control, WorkIsOpen, OpenFor, OthersStray, Busy
<1>5. ~op[k].lost => op[k].owns
  BY <1>2, <1>3 DEF IInv, Ownership, OwnedWhileOpen, Closed
<1>6. l \in {"resuming", "restoring"}
  OBVIOUS
<1>7. op' = [op EXCEPT ![k] = new] /\ exec' = [exec EXCEPT ![e] = rec] /\ UNCHANGED <<mapping, relay, down>>
  BY <1>2 DEF StartRecovery, Goes, IInv, TypeOK
<1> HIDE DEF l
<1>8. /\ new \in Operation /\ new.lifecycle = l /\ ~new.old
      /\ new.plan = op[k].plan /\ new.captured = op[k].captured /\ new.base = op[k].base
      /\ new.fresh = op[k].fresh /\ new.lost = op[k].lost /\ new.owns = op[k].owns
      /\ new.promotions = op[k].promotions /\ new.step = op[k].step
  BY <1>3, <1>6 DEF Operation, Lifecycles, Busy
<1>9. /\ rec \in Executor /\ rec.pc = "preflight" /\ rec.key = k /\ rec.dir = exec[e].dir
      /\ rec.todo = exec[e].todo /\ rec.at = exec[e].at /\ rec.captured = exec[e].captured
  BY <1>2 DEF Executor, Pcs
<1> HIDE DEF new, rec
<1>10. ActsOn(k, rec, new)
  BY <1>2, <1>6, <1>8, <1>9 DEF ActsOn, OpenFor, Busy, Closed
<1>11. OpenStep(e, k, rec, new)
  BY <1>4, <1>5, <1>6, <1>7, <1>8, <1>9, <1>10 DEF OpenStep, Closed
<1>12. QED
  BY <1>2, <1>11, OpenStepKeeps

-----------------------------------------------------------------------------
(* The terminal transactions, with their reply heard or lost                 *)

LEMMA Primary ==
    ASSUME IInv, NEW k \in Keys, AtRevisions(k, op[k].captured)
    PROVE  op[k].promotions = 0
<1>1. op[k].plan.primary \in Maps(k) /\ Maps(k) \subseteq Mappings
  BY MapsType DEF IInv
<1>2. mapping[op[k].plan.primary].revision = op[k].captured[op[k].plan.primary]
  BY <1>1 DEF AtRevisions
<1>3. mapping[op[k].plan.primary].revision \in Nat
  BY <1>1, RevisionsStay
<1>4. op[k].promotions # 0 => op[k].captured[op[k].plan.primary] < mapping[op[k].plan.primary].revision
  BY <1>1 DEF IInv, Control, PromotedBeyond
<1>5. QED
  BY <1>2, <1>3, <1>4

Closing(k, l, n, heard) ==
    [op[k] EXCEPT !.lifecycle = l, !.owns = FALSE, !.promotions = n, !.lost = @ \/ ~heard]

(* What the three of them have in common.                                    *)
ClosingStep(e, l, n, heard) ==
    LET k == exec[e].key IN
    /\ exec[e].pc = "close"
    /\ l \in Closed
    /\ op' = [op EXCEPT ![k] = Closing(k, l, n, heard)]
    /\ heard => Stops(e)
    /\ ~heard => Errs(e)
    /\ relay' = relay /\ down' = down
    /\ \/ /\ n = op[k].promotions /\ mapping' = mapping
       \/ /\ n = 1 /\ op[k].promotions = 0 /\ mapping' = Promoted(k)
    /\ Undisturbed => \A m \in Maps(k) : relay[m] = mapping'[m].content

LEMMA ClosingStepKeeps ==
    ASSUME IInv, Counted, NEW e \in Executors, NEW l, NEW n, NEW heard \in BOOLEAN,
           ClosingStep(e, l, n, heard)
    PROVE  IInv'
<1> DEFINE k == exec[e].key
           new == Closing(k, l, n, heard)
<1>1. Working(e) /\ exec[e].pc = "close"
  BY DEF ClosingStep, Working, Unstarted
<1>2. /\ exec[e] \in Executor /\ k \in Keys /\ op[k] \in Operation /\ Maps(k) \subseteq Mappings
      /\ OthersStray(e, k)
      /\ ~op[k].lost => op[k].owns
  BY <1>1, AtWork
<1>3. n \in 0..2
  BY <1>2 DEF ClosingStep, Operation
<1>4. /\ new \in Operation /\ new.lifecycle = l /\ ~new.owns /\ new.promotions = n
      /\ new.lost = (op[k].lost \/ ~heard)
      /\ ~heard => new.lost
      /\ new.plan = op[k].plan /\ new.captured = op[k].captured /\ new.base = op[k].base
      /\ new.fresh = op[k].fresh /\ new.step = op[k].step
  BY <1>2, <1>3 DEF Closing, ClosingStep, Operation, Lifecycles, Closed
<1>5. PICK rec : /\ ErrsTo(e, rec)
                 /\ rec.pc # "idle" => ~heard
  BY <1>1, StopsTo, ErrsSomewhere, IdleType DEF ClosingStep
<1> HIDE DEF new
<1>6. l \in Closed /\ op' = [op EXCEPT ![k] = new] /\ relay' = relay /\ down' = down
  BY DEF ClosingStep, new
(* The mappings and their revisions                                          *)
<1>7. /\ mapping' \in [Mappings -> [revision : Revisions, content : Values]]
      /\ \A m \in Mappings \ Maps(k) : mapping'[m] = mapping[m]
      /\ \A m \in Mappings : mapping[m].revision <= mapping'[m].revision
      /\ mapping' # mapping => \A m \in Maps(k) : mapping'[m].revision = mapping[m].revision + 1
  <2>1. k \in Values /\ \A m \in Mappings : mapping[m].revision \in Nat
    BY <1>2, RevisionsStay DEF Values
  <2>2. CASE mapping' = mapping
    BY <2>2, RevisionsStay
  <2>3. CASE mapping' = Promoted(k)
    <3>1. \A m \in Mappings : mapping[m].revision + 1 \in Revisions
      BY <2>1 DEF Revisions
    <3>2. \A m \in Mappings : mapping'[m] = IF m \in Maps(k)
                                            THEN [revision |-> mapping[m].revision + 1, content |-> k]
                                            ELSE mapping[m]
      BY <2>3 DEF Promoted
    <3>3. mapping' \in [Mappings -> [revision : Revisions, content : Values]]
      BY <2>1, <2>3, <3>1, RevisionsStay DEF Promoted
    <3>4. QED
      BY <1>2, <2>1, <3>2, <3>3
  <2>4. QED
    BY <2>2, <2>3 DEF ClosingStep
<1>8. KeepsReview(k, new)
  BY <1>2, <1>4, <1>6 DEF KeepsReview, Closed
<1>9. WritesOwn(k, new)
  <2>1. Heard => op[k].owns
    BY <1>2 DEF Heard
  <2>2. ASSUME new.promotions # 0
        PROVE  new.promotions = 1 /\ \A m \in Maps(k) : new.captured[m] < mapping'[m].revision
    <3>1. CASE n = op[k].promotions /\ mapping' = mapping
      BY <2>2, <3>1, <1>2, <1>4 DEF IInv, Control, PromotedBeyond
    <3>2. CASE n = 1 /\ mapping' = Promoted(k)
      <4>1. ASSUME NEW m \in Maps(k)
            PROVE  new.captured[m] < mapping'[m].revision
        <5>1. m \in Mappings /\ op[k].captured[m] <= mapping[m].revision
          BY <1>2 DEF IInv, Control, CapturedEarlier
        <5>2. op[k].captured[m] \in Nat /\ mapping[m].revision \in Nat
          BY <1>2, <5>1, RevisionsStay DEF Operation, Revisions
        <5>3. mapping'[m].revision = mapping[m].revision + 1
          BY <3>2, <5>1 DEF Promoted
        <5>4. QED
          BY <1>4, <5>1, <5>2, <5>3
      <4>2. QED
        BY <4>1, <3>2, <1>4
    <3>3. QED
      BY <3>1, <3>2 DEF ClosingStep
  <2>3. QED
    BY <1>4, <1>6, <1>7, <2>1, <2>2, RevisionsStay DEF WritesOwn
<1>10. ActsOn(k, rec, new)
  <2>1. rec.pc # "idle" => /\ rec.key = k /\ rec.todo = {} /\ rec.at = {} /\ rec.pc \in {"leave", "fail"}
                          /\ new.lost
    <3>1. rec.pc # "note"
      BY <1>1, <1>5 DEF ErrsTo
    <3>2. QED
      BY <3>1, <1>4, <1>5 DEF ErrsTo
  <2>2. ASSUME rec.pc \notin Unstarted
        PROVE  OpenFor(new, rec)
    <3>1. rec.pc \in {"leave", "fail"} /\ new.lost
      BY <2>1, <2>2 DEF Unstarted
    <3>2. new.lifecycle # "none"
      BY <1>4, <1>6 DEF Closed
    <3>3. QED
      BY <3>1, <3>2 DEF OpenFor
  <2>3. QED
    BY <2>1, <2>2, <1>5 DEF ActsOn, ErrsTo
<1>11. KeepsEvidence(k, rec, new)
  <2>1. rec.pc \notin {"record", "write"}
    BY <1>5 DEF ErrsTo
  <2>2. QED
    BY <2>1, <1>4, <1>6 DEF KeepsEvidence, ClosingStep
<1>12. OpStep(e, k, rec, new)
  BY <1>2, <1>4, <1>5, <1>6, <1>8, <1>9, <1>10, <1>11 DEF OpStep, ErrsTo, Counted
<1>13. QED
  BY <1>2, <1>12, OpStepKeeps

LEMMA VerifiedHolds ==
    ASSUME IInv, NEW e \in Executors, exec[e].pc = "close", Undisturbed,
           NEW dir, AllVerified(exec[e].key, dir), NEW m \in Maps(exec[e].key)
    PROVE  /\ relay[m] = IF dir = "restore" THEN mapping[m].content ELSE exec[e].key
<1> DEFINE k == exec[e].key
<1>1. Working(e)
  BY DEF Working, Unstarted
<1>2. k \in Keys /\ op[k].owns
  BY <1>1, AtWork DEF Undisturbed, Heard
<1>3. op[k].step[m] = [state |-> "verified", effect |-> Want(k, dir, m)]
  BY DEF AllVerified
<1>4. relay[m] = Want(k, dir, m) /\ op[k].base[m] = mapping[m].content
  BY <1>2, <1>3, EvidenceOf
<1>5. QED
  BY <1>4 DEF Want

LEMMA ClosesKeeps ==
    ASSUME IInv, Counted, NEW e \in Executors, NEW heard \in BOOLEAN, Closes(e, heard)
    PROVE  IInv'
<1> DEFINE k == exec[e].key
<1>1. exec[e].pc = "close" /\ Working(e)
  BY DEF Closes, ApplyInitial, ApplyResumed, CloseResumed, CloseRestored, Working, Unstarted
<1>2. /\ k \in Keys /\ op[k] \in Operation /\ Maps(k) \subseteq Mappings
      /\ OpenFor(op[k], exec[e])
      /\ op \in [Keys -> Operation]
  BY <1>1, AtWork DEF IInv, TypeOK
<1>3. ASSUME NEW l, Commits(e, k, Terminal(k, l), heard)
      PROVE  /\ op' = [op EXCEPT ![k] = Closing(k, l, op[k].promotions, heard)]
             /\ heard => Stops(e)
             /\ ~heard => Errs(e)
  BY <1>2, <1>3 DEF Commits, Terminal, Closing, Operation
<1>4. ASSUME Commits(e, k, PromotedBy(k), heard), op[k].promotions = 0
      PROVE  /\ op' = [op EXCEPT ![k] = Closing(k, "applied", 1, heard)]
             /\ heard => Stops(e)
             /\ ~heard => Errs(e)
  <2> DEFINE applied == [op[k] EXCEPT !.lifecycle = "applied", !.owns = FALSE, !.promotions = 1]
  <2>1. PromotedBy(k) = [op EXCEPT ![k] = [op[k] EXCEPT !.lifecycle = "applied", !.owns = FALSE,
                                                        !.promotions = op[k].promotions + 1]]
    BY <1>2 DEF PromotedBy, Terminal, Operation
  <2>2. PromotedBy(k) = [op EXCEPT ![k] = applied]
    BY <1>4, <2>1
  <2>3. op' = [[op EXCEPT ![k] = applied] EXCEPT ![k].lost = @ \/ ~heard]
    BY <1>4, <2>2 DEF Commits
  <2>4. op' = [op EXCEPT ![k] = [applied EXCEPT !.lost = @ \/ ~heard]]
    BY <1>2, <2>3
  <2>5. [applied EXCEPT !.lost = @ \/ ~heard] = Closing(k, "applied", 1, heard)
    BY <1>2 DEF Closing, Operation
  <2>6. QED
    BY <1>4, <2>4, <2>5 DEF Commits
<1>5. CASE ApplyInitial(e, heard) \/ ApplyResumed(e, heard)
  <2>1. op[k].promotions = 0
    BY <1>1, <1>2, <1>5, Primary DEF OpenFor, ApplyInitial, ApplyResumed
  <2>2. Commits(e, k, PromotedBy(k), heard) /\ mapping' = Promoted(k) /\ relay' = relay /\ down' = down
    BY <1>5 DEF ApplyInitial, ApplyResumed, Promotes
  <2>3. Undisturbed => \A m \in Maps(k) : relay[m] = mapping'[m].content
    <3>1. ASSUME Undisturbed, NEW m \in Maps(k) PROVE relay[m] = k
      BY <1>1, <1>5, <3>1, VerifiedHolds DEF ApplyInitial, ApplyResumed
    <3>2. \A m \in Maps(k) : mapping'[m].content = k
      BY <1>2, <2>2 DEF Promoted
    <3>3. QED
      BY <3>1, <3>2
  <2>4. ClosingStep(e, "applied", 1, heard)
    BY <1>1, <1>4, <2>1, <2>2, <2>3 DEF ClosingStep, Closed
  <2>5. QED
    BY <2>4, ClosingStepKeeps
<1>6. CASE CloseResumed(e, heard)
  <2>1. /\ Commits(e, k, Terminal(k, "applied"), heard)
        /\ mapping' = mapping /\ relay' = relay /\ down' = down
    BY <1>6 DEF CloseResumed
  <2>2. ASSUME Undisturbed, NEW m \in Maps(k) PROVE relay[m] = mapping[m].content
    <3>1. relay[m] = k
      BY <1>1, <1>6, <2>2, VerifiedHolds DEF CloseResumed
    <3>2. mapping[m].content = k
      <4>1. AlreadyPromoted(k)
        BY <1>6 DEF CloseResumed
      <4>2. mapping[m] = [revision |-> op[k].captured[m] + 1, content |-> k]
        BY <4>1 DEF AlreadyPromoted
      <4>3. QED
        BY <4>2
    <3>3. QED
      BY <3>1, <3>2
  <2>3. ClosingStep(e, "applied", op[k].promotions, heard)
    BY <1>1, <1>3, <2>1, <2>2 DEF ClosingStep, Closed
  <2>4. QED
    BY <2>3, ClosingStepKeeps
<1>7. CASE CloseRestored(e, heard)
  <2>1. /\ Commits(e, k, Terminal(k, "restored"), heard)
        /\ mapping' = mapping /\ relay' = relay /\ down' = down
    BY <1>7 DEF CloseRestored
  <2>2. ASSUME Undisturbed, NEW m \in Maps(k) PROVE relay[m] = mapping[m].content
    BY <1>1, <1>7, <2>2, VerifiedHolds DEF CloseRestored
  <2>3. ClosingStep(e, "restored", op[k].promotions, heard)
    BY <1>1, <1>3, <2>1, <2>2 DEF ClosingStep, Closed
  <2>4. QED
    BY <2>3, ClosingStepKeeps
<1>8. QED
  BY <1>5, <1>6, <1>7 DEF Closes

-----------------------------------------------------------------------------
(* The beginning of an Operation                                             *)

LEMMA BeginKeeps ==
    ASSUME IInv, Counted, NEW e \in Executors, Begin(e)
    PROVE  IInv'
<1> DEFINE k == exec[e].key
           x == exec[e]
           fresh == /\ AtRevisions(k, x.captured) /\ AtPrimary(k, x.seen)
                    /\ \A m \in Maps(k) : relay[m] = x.base[m]
           new == [op[k] EXCEPT !.lifecycle = "applying", !.owns = TRUE, !.attempts = 1,
                                !.captured = x.captured, !.base = x.base, !.fresh = fresh]
           rec == [Idle EXCEPT !.pc = "dispatch", !.key = k, !.seen = x.seen]
<1>0. TypeOK /\ Control /\ Ownership
  BY DEF IInv
<1>1. exec[e].pc = "begin" /\ MayBegin(k)
  BY DEF Begin
<1>2. /\ x \in Executor /\ k \in Keys /\ Maps(k) \subseteq Mappings
      /\ \A m \in Mappings : x.captured[m] <= mapping[m].revision
  BY <1>1, Reader
<1>3. /\ op[k] \in Operation /\ op[k].lifecycle = "none" /\ \A m \in Maps(k) : ~Owned(m)
      /\ op \in [Keys -> Operation]
  BY <1>0, <1>1, <1>2 DEF MayBegin, TypeOK
<1>4. /\ ~op[k].owns /\ ~op[k].old /\ op[k].fresh /\ ~op[k].lost /\ op[k].promotions = 0
      /\ \A m \in Mappings : op[k].step[m].state = "planned"
  BY <1>0, <1>2, <1>3 DEF Control, Unbegun
<1>5. \A f \in Executors : Working(f) => exec[f].key # k
  BY <1>0, <1>3 DEF Control, WorkIsOpen, OpenFor
<1>6. op' = [op EXCEPT ![k] = new] /\ exec' = [exec EXCEPT ![e] = rec] /\ UNCHANGED <<mapping, relay, down>>
  BY <1>2, <1>3 DEF Begin
<1>7. fresh \in BOOLEAN
  BY DEF AtRevisions, AtPrimary
<1> HIDE DEF fresh
<1>8. 1 \in 0..MaxAttempts
  BY RelationshipOperationAssumption
<1>9. /\ new \in Operation /\ new.lifecycle = "applying" /\ new.owns /\ new.captured = x.captured
      /\ new.base = x.base /\ new.fresh = fresh /\ new.plan = op[k].plan /\ new.step = op[k].step
      /\ new.old = op[k].old /\ new.lost = op[k].lost /\ new.promotions = op[k].promotions
  BY <1>2, <1>3, <1>7, <1>8 DEF Operation, Executor, Lifecycles, Busy
<1>10. /\ rec \in Executor /\ rec.pc = "dispatch" /\ rec.key = k /\ rec.todo = {} /\ rec.at = {}
       /\ rec.captured = Idle.captured
  BY <1>2, IdleType DEF Executor, Pcs, Values
<1> HIDE DEF new, rec
<1>11. /\ exec' \in [Executors -> Executor] /\ exec'[e] = rec
       /\ \A f \in Executors : f # e => exec'[f] = exec[f]
  BY <1>0, <1>6, <1>10, ExecType
<1>12. /\ op' \in [Keys -> Operation] /\ op'[k] = new
       /\ \A l \in Keys : l # k => op'[l] = op[l]
  BY <1>0, <1>2, <1>6, <1>9, OpType
<1>13. \A l \in Keys : Maps(l)' = Maps(l)
  BY <1>9, <1>12 DEF Maps
<1>14. TypeOK'
  BY <1>0, <1>6, <1>11, <1>12 DEF TypeOK, Counted
<1>15. Control'
  <2>1. Named'
    BY <1>0, <1>2, <1>10, <1>11, <1>13 DEF Control, Named, NamedBy
  <2>2. WorkIsOpen'
    <3> SUFFICES ASSUME NEW f \in Executors, Working(f)'
                 PROVE  OpenFor(op'[exec'[f].key], exec'[f])
      BY DEF WorkIsOpen, OpenFor
    <3>1. CASE f = e
      BY <3>1, <1>4, <1>9, <1>10, <1>11, <1>12 DEF OpenFor, Busy, Closed
    <3>2. CASE f # e
      <4>1. exec'[f] = exec[f] /\ Working(f) /\ exec[f].key # k
        BY <3>2, <1>5, <1>11 DEF Working
      <4>2. exec[f].key \in Keys /\ OpenFor(op[exec[f].key], exec[f])
        BY <4>1, AtWork
      <4>3. QED
        BY <4>1, <4>2, <1>12
    <3>3. QED
      BY <3>1, <3>2
  <2>3. OneWorker'
    <3>1. \A f \in Executors : f # e /\ Working(f)' =>
            /\ Working(f) /\ exec'[f] = exec[f] /\ exec[f].key # k
            /\ exec[f].key \in Keys /\ op'[exec[f].key] = op[exec[f].key]
      BY <1>5, <1>11, <1>12, AtWork DEF Working
    <3>2. QED
      BY <3>1, <1>0, <1>10, <1>11 DEF Control, OneWorker
  <2>4. Unbegun'
    BY <1>0, <1>9, <1>12 DEF Control, Unbegun
  <2>5. CapturedEarlier'
    <3>1. \A m \in Mappings : rec.captured[m] <= mapping[m].revision
      BY <1>10, IdleType, RevisionsStay
    <3>2. QED
      BY <3>1, <1>0, <1>2, <1>6, <1>9, <1>11, <1>12 DEF Control, CapturedEarlier
  <2>6. PromotedBeyond'
    BY <1>0, <1>4, <1>6, <1>9, <1>12, <1>13 DEF Control, PromotedBeyond
  <2>7. QED
    BY <2>1, <2>2, <2>3, <2>4, <2>5, <2>6 DEF Control
<1>16. Ownership'
  <2>1. OwnedWhileOpen'
    BY <1>0, <1>9, <1>12 DEF Ownership, OwnedWhileOpen, Closed
  <2>2. Heard' => Heard
    BY <1>9, <1>12 DEF Heard
  <2>3. \A l \in Keys : l # k /\ op[l].owns => Maps(k) \cap Maps(l) = {}
    BY <1>3 DEF Owned, Owns
  <2>4. OneOwner'
    BY <2>2, <2>3, <1>0, <1>12, <1>13 DEF Ownership, OneOwner
  <2>5. Recoverable'
    <3>1. fresh => \A m \in Maps(k) : mapping[m].revision = new.captured[m]
      BY <1>9 DEF fresh, AtRevisions
    <3>2. QED
      BY <2>2, <3>1, <1>0, <1>6, <1>9, <1>12, <1>13 DEF Ownership, Recoverable
  <2>6. QED
    BY <2>1, <2>4, <2>5 DEF Ownership
<1>17. Evidence'
  <2> SUFFICES ASSUME Undisturbed'
               PROVE  (FreeAligned /\ BaseKept /\ EvidenceHolds /\ Converging)'
    BY DEF Evidence
  <2>1. Undisturbed
    BY <1>4, <1>9, <1>12 DEF Undisturbed, Heard
  <2>2. FreeAligned /\ BaseKept /\ EvidenceHolds /\ Converging
    BY <2>1 DEF IInv, Evidence
  <2>3. fresh
    BY <1>2, <1>9, <1>12 DEF Undisturbed
  <2>4. FreeAligned'
    <3>1. \A m \in Mappings : Owned(m) => Owned(m)'
      BY <1>4, <1>12, <1>13 DEF Owned, Owns
    <3>2. QED
      BY <3>1, <2>2, <1>6 DEF FreeAligned
  <2>5. BaseKept'
    <3>1. \A m \in Maps(k) : new.base[m] = mapping[m].content
      BY <2>2, <2>3, <1>2, <1>3, <1>9 DEF fresh, FreeAligned
    <3>2. QED
      BY <3>1, <2>2, <1>6, <1>12, <1>13 DEF BaseKept, Owns
  <2>6. EvidenceHolds'
    BY <2>2, <1>4, <1>6, <1>9, <1>12, <1>13 DEF EvidenceHolds, Owns
  <2>7. Converging'
    <3> SUFFICES ASSUME NEW f \in Executors, NEW m \in Mappings
                 PROVE  /\ exec'[f].pc = "record" /\ m \in exec'[f].at =>
                             relay'[m] = IF exec'[f].dir = "restore" THEN op'[exec'[f].key].base[m]
                                         ELSE exec'[f].key
                        /\ exec'[f].pc = "write" /\ m \in exec'[f].todo =>
                             op'[exec'[f].key].step[m].state # "verified"
      BY DEF Converging, Want
    <3>1. CASE f = e
      BY <3>1, <1>10, <1>11
    <3>2. CASE f # e /\ exec[f].pc \in {"record", "write"}
      <4>1. exec'[f] = exec[f] /\ Working(f) /\ exec[f].key # k
        BY <3>2, <1>5, <1>11 DEF Working, Unstarted
      <4>2. exec[f].key \in Keys
        BY <4>1, AtWork
      <4>3. op'[exec[f].key] = op[exec[f].key]
        BY <4>1, <4>2, <1>12
      <4>4. QED
        BY <4>1, <4>3, <2>2, <1>6 DEF Converging, Want
    <3>3. CASE f # e /\ exec[f].pc \notin {"record", "write"}
      BY <3>3, <1>11
    <3>4. QED
      BY <3>1, <3>2, <3>3
  <2>8. QED
    BY <2>4, <2>5, <2>6, <2>7
<1>18. QED
  BY <1>14, <1>15, <1>16, <1>17 DEF IInv

-----------------------------------------------------------------------------
(* Restarts and time                                                         *)

(* Executors stop; what nobody works on grows old or is interrupted.         *)
Elapses ==
    /\ UNCHANGED <<mapping, relay>> /\ down' \in BOOLEAN /\ Counted
    /\ exec' \in [Executors -> Executor]
    /\ \A e \in Executors : exec'[e] \in {exec[e], Idle}
    /\ op' \in [Keys -> Operation]
    /\ \A k \in Keys : \/ op'[k] = op[k]
                      \/ /\ \A e \in Executors : Working(e) /\ exec[e].key = k => op[k].lost
                         /\ op[k].lifecycle \in Busy
                         /\ op'[k].lifecycle \in Busy \cup {"interrupted"}
    /\ \A k \in Keys :
         /\ op'[k].plan = op[k].plan /\ op'[k].captured = op[k].captured /\ op'[k].base = op[k].base
         /\ op'[k].fresh = op[k].fresh /\ op'[k].lost = op[k].lost /\ op'[k].owns = op[k].owns
         /\ op'[k].promotions = op[k].promotions /\ op'[k].step = op[k].step

LEMMA ElapsesKeeps ==
    ASSUME IInv, Elapses
    PROVE  IInv'
<1>0. TypeOK /\ Control /\ Ownership
  BY DEF IInv
<1>1. TypeOK'
  BY <1>0 DEF TypeOK, Elapses, Counted
<1>2. \A l \in Keys : Maps(l)' = Maps(l)
  BY DEF Elapses, Maps
<1>3. \A e \in Executors : exec'[e].pc # "idle" => exec'[e] = exec[e]
  BY IdleType DEF Elapses
<1>4. \A e \in Executors : Working(e)' => Working(e) /\ exec'[e] = exec[e]
  BY <1>3 DEF Working, Unstarted
<1>5. ASSUME NEW e \in Executors, Working(e)
      PROVE  /\ exec[e].key \in Keys
             /\ \/ op'[exec[e].key] = op[exec[e].key]
                \/ op[exec[e].key].lost /\ op'[exec[e].key].lifecycle # "none"
  BY <1>5, AtWork DEF Elapses, Busy
<1>6. Control'
  <2>1. Named'
    BY <1>0, <1>2, <1>3 DEF Control, Named, NamedBy
  <2>2. WorkIsOpen'
    <3> SUFFICES ASSUME NEW f \in Executors, Working(f)'
                 PROVE  OpenFor(op'[exec'[f].key], exec'[f])
      BY DEF WorkIsOpen, OpenFor
    <3>1. Working(f) /\ exec'[f] = exec[f]
      BY <1>4
    <3>2. OpenFor(op[exec[f].key], exec[f])
      BY <3>1, AtWork
    <3>3. exec[f].key \in Keys /\ op'[exec[f].key].lost = op[exec[f].key].lost
      BY <3>1, <1>5 DEF Elapses
    <3>4. QED
      BY <3>1, <3>2, <3>3, <1>5 DEF OpenFor
  <2>3. OneWorker'
    <3>1. \A e \in Executors : Working(e) => op'[exec[e].key].lost = op[exec[e].key].lost
      BY <1>5 DEF Elapses
    <3>2. QED
      BY <3>1, <1>0, <1>4 DEF Control, OneWorker
  <2>4. Unbegun'
    BY <1>0 DEF Control, Unbegun, Elapses, Busy
  <2>5. CapturedEarlier'
    <3>1. \A m \in Mappings : Idle.captured[m] <= mapping[m].revision
      BY IdleType, RevisionsStay
    <3>2. QED
      BY <3>1, <1>0 DEF Control, CapturedEarlier, Elapses
  <2>6. PromotedBeyond'
    BY <1>0, <1>2 DEF Control, PromotedBeyond, Elapses
  <2>7. QED
    BY <2>1, <2>2, <2>3, <2>4, <2>5, <2>6 DEF Control
<1>7. Ownership'
  <2>1. OwnedWhileOpen'
    BY <1>0 DEF Ownership, OwnedWhileOpen, Elapses, Busy, Closed
  <2>2. Heard' => Heard
    BY DEF Heard, Elapses
  <2>3. OneOwner'
    BY <2>2, <1>0, <1>2 DEF Ownership, OneOwner, Elapses
  <2>4. Recoverable'
    BY <2>2, <1>0, <1>2 DEF Ownership, Recoverable, Elapses
  <2>5. QED
    BY <2>1, <2>3, <2>4 DEF Ownership
<1>8. Evidence'
  <2> SUFFICES ASSUME Undisturbed'
               PROVE  (FreeAligned /\ BaseKept /\ EvidenceHolds /\ Converging)'
    BY DEF Evidence
  <2>1. Undisturbed
    BY DEF Undisturbed, Heard, Elapses
  <2>2. FreeAligned /\ BaseKept /\ EvidenceHolds /\ Converging
    BY <2>1 DEF IInv, Evidence
  <2>3. FreeAligned'
    BY <2>2, <1>2 DEF FreeAligned, Owned, Owns, Elapses
  <2>4. BaseKept'
    BY <2>2, <1>2 DEF BaseKept, Owns, Elapses
  <2>5. EvidenceHolds'
    BY <2>2, <1>2 DEF EvidenceHolds, Owns, Elapses
  <2>6. Converging'
    <3> SUFFICES ASSUME NEW f \in Executors, NEW m \in Mappings, exec'[f].pc \in {"record", "write"}
                 PROVE  /\ exec'[f].pc = "record" /\ m \in exec'[f].at =>
                             relay'[m] = IF exec'[f].dir = "restore" THEN op'[exec'[f].key].base[m]
                                         ELSE exec'[f].key
                        /\ exec'[f].pc = "write" /\ m \in exec'[f].todo =>
                             op'[exec'[f].key].step[m].state # "verified"
      BY DEF Converging, Want
    <3>1. Working(f) /\ exec'[f] = exec[f]
      BY <1>4 DEF Working, Unstarted
    <3>2. op'[exec[f].key] = op[exec[f].key] /\ relay' = relay
      BY <3>1, <2>1, <1>5 DEF Elapses, Undisturbed, Heard
    <3>3. QED
      BY <3>1, <3>2, <2>2 DEF Converging, Want
  <2>7. QED
    BY <2>3, <2>4, <2>5, <2>6
<1>9. QED
  BY <1>1, <1>6, <1>7, <1>8 DEF IInv

LEMMA CrashKeeps ==
    ASSUME IInv, Counted, NEW es \in SUBSET Executors, Crash(es)
    PROVE  IInv'
<1>1. exec \in [Executors -> Executor] /\ op \in [Keys -> Operation]
  BY DEF IInv, TypeOK
<1>2. Elapses
  BY <1>1, IdleType DEF Elapses, Crash
<1>3. QED
  BY <1>2, ElapsesKeeps

LEMMA GrowOldKeeps ==
    ASSUME IInv, Counted, NEW k \in Keys, GrowOld(k)
    PROVE  IInv'
<1> DEFINE new == [op[k] EXCEPT !.old = TRUE]
<1>1. exec \in [Executors -> Executor] /\ op \in [Keys -> Operation] /\ down \in BOOLEAN
  BY DEF IInv, TypeOK
<1>2. /\ new \in Operation /\ new.lifecycle = op[k].lifecycle
      /\ new.plan = op[k].plan /\ new.captured = op[k].captured /\ new.base = op[k].base
      /\ new.fresh = op[k].fresh /\ new.lost = op[k].lost /\ new.owns = op[k].owns
      /\ new.promotions = op[k].promotions /\ new.step = op[k].step
  BY <1>1 DEF Operation
<1>3. op' = [op EXCEPT ![k] = new]
  BY <1>1 DEF GrowOld
<1> HIDE DEF new
<1>4. /\ op' \in [Keys -> Operation] /\ op'[k] = new
      /\ \A l \in Keys : l # k => op'[l] = op[l]
  BY <1>1, <1>2, <1>3
<1>5. op[k].lifecycle \in Busy /\ \A e \in Executors : Working(e) => exec[e].key # k
  BY DEF GrowOld, Works, Working, Unstarted
<1>6. UNCHANGED <<mapping, relay, exec, down>>
  BY DEF GrowOld
<1>7. Elapses
  BY <1>1, <1>2, <1>4, <1>5, <1>6 DEF Elapses
<1>8. QED
  BY <1>7, ElapsesKeeps

LEMMA StartupKeeps ==
    ASSUME IInv, Counted, Startup
    PROVE  IInv'
<1>1. exec \in [Executors -> Executor] /\ op \in [Keys -> Operation]
  BY DEF IInv, TypeOK
<1> DEFINE interrupted(k) == [op[k] EXCEPT !.lifecycle = "interrupted"]
<1>2. ASSUME NEW k \in Keys
      PROVE  /\ interrupted(k) \in Operation /\ interrupted(k).lifecycle = "interrupted"
             /\ interrupted(k).plan = op[k].plan /\ interrupted(k).captured = op[k].captured
             /\ interrupted(k).base = op[k].base /\ interrupted(k).fresh = op[k].fresh
             /\ interrupted(k).lost = op[k].lost /\ interrupted(k).owns = op[k].owns
             /\ interrupted(k).promotions = op[k].promotions /\ interrupted(k).step = op[k].step
  BY <1>1 DEF Operation, Lifecycles
<1>3. /\ op' = [k \in Keys |-> IF op[k].lifecycle \in Busy /\ op[k].old THEN interrupted(k) ELSE op[k]]
      /\ down' = FALSE /\ UNCHANGED <<mapping, relay, exec>>
  BY DEF Startup
<1> HIDE DEF interrupted
<1>4. op' \in [Keys -> Operation]
  BY <1>1, <1>2, <1>3
<1>5. \A k \in Keys : op[k].old => \A e \in Executors : Working(e) /\ exec[e].key = k => op[k].lost
  BY AtWork DEF OpenFor
<1>6. Elapses
  BY <1>1, <1>2, <1>3, <1>4, <1>5 DEF Elapses
<1>7. QED
  BY <1>6, ElapsesKeeps

-----------------------------------------------------------------------------
(* The theorems                                                              *)

LEMMA InitHolds == Init => IInv
<1> SUFFICES ASSUME Init PROVE IInv
  OBVIOUS
<1>1. PICK plan \in [Keys -> Plans] : op = [k \in Keys |-> Unwritten(plan[k])]
  <2> DEFINE plan == [k \in Keys |-> op[k].plan]
  <2>1. op \in [Keys -> {Unwritten(p) : p \in Plans}]
    BY DEF Init
  <2>2. \A k \in Keys : plan[k] \in Plans /\ op[k] = Unwritten(plan[k])
    BY <2>1 DEF Unwritten
  <2>3. plan \in [Keys -> Plans] /\ op = [k \in Keys |-> Unwritten(plan[k])]
    BY <2>1, <2>2
  <2> HIDE DEF plan
  <2>4. QED
    BY <2>3
<1>2. ASSUME NEW k \in Keys
      PROVE  /\ op[k] \in Operation /\ op[k].lifecycle = "none" /\ ~op[k].owns /\ ~op[k].old
             /\ op[k].fresh /\ ~op[k].lost /\ op[k].promotions = 0
             /\ \A m \in Mappings : op[k].step[m].state = "planned" /\ op[k].captured[m] = 0
  <2>1. op[k] = Unwritten(plan[k]) /\ plan[k] \in Plans
    BY <1>1
  <2>2. /\ [m \in Mappings |-> 0] \in [Mappings -> Revisions]
        /\ [m \in Mappings |-> None] \in [Mappings -> Values]
        /\ [m \in Mappings |-> [state |-> "planned", effect |-> None]] \in [Mappings -> Step]
    BY DEF Revisions, Values, Step
  <2>3. Unwritten(plan[k]) \in Operation
    BY <2>1, <2>2, RelationshipOperationAssumption DEF Unwritten, Operation, Lifecycles
  <2>4. QED
    BY <2>1, <2>3 DEF Unwritten
<1>3. /\ mapping = [m \in Mappings |-> [revision |-> 1, content |-> None]]
      /\ relay = [m \in Mappings |-> None]
      /\ \A e \in Executors : exec[e] = Idle
  BY DEF Init
<1>4. TypeOK
  <2>1. mapping \in [Mappings -> [revision : Revisions, content : Values]]
    BY <1>3 DEF Revisions, Values
  <2>2. relay \in [Mappings -> Values] /\ exec \in [Executors -> Executor]
    BY <1>3, IdleType DEF Values, Init
  <2>3. op \in [Keys -> Operation]
    BY <1>1, <1>2
  <2>4. faulted \in 0..MaxFaults /\ down \in BOOLEAN
    <3>1. faulted = 0 /\ down = FALSE
      BY DEF Init
    <3>2. MaxFaults \in Nat
      BY RelationshipOperationAssumption
    <3>3. 0 \in 0..MaxFaults
      BY <3>2
    <3>4. QED
      BY <3>1, <3>3, Zenon
  <2>5. QED
    BY <2>1, <2>2, <2>3, <2>4 DEF TypeOK
<1>5. \A e \in Executors : ~Working(e)
  BY <1>3, IdleType DEF Working, Unstarted
<1>6. Control
  <2>1. Named /\ WorkIsOpen /\ OneWorker
    BY <1>3, <1>5, IdleType DEF Named, NamedBy, WorkIsOpen, OneWorker
  <2>2. Unbegun /\ PromotedBeyond
    BY <1>2 DEF Unbegun, PromotedBeyond
  <2>3. CapturedEarlier
    BY <1>2, <1>3, IdleType DEF CapturedEarlier
  <2>4. QED
    BY <2>1, <2>2, <2>3 DEF Control
<1>7. Ownership
  BY <1>2 DEF Ownership, OwnedWhileOpen, OneOwner, Recoverable
<1>8. Evidence
  BY <1>2, <1>3, IdleType DEF Evidence, FreeAligned, BaseKept, EvidenceHolds, Converging, Owns
<1>9. QED
  BY <1>4, <1>6, <1>7, <1>8 DEF IInv

LEMMA StepsKeep ==
    ASSUME IInv, Counted, NEW e \in Executors, Steps(e)
    PROVE  IInv'
<1>1. down \in BOOLEAN
  BY DEF IInv, TypeOK
<1>2. CASE Preview(e) \/ Capture(e) \/ Written(e) \/ Preflight(e)
  <2>1. Alone
    BY <1>1, <1>2 DEF Alone, Preview, Capture, Written, Preflight
  <2>2. QED
    BY <1>2, <2>1, PreviewKeeps, CaptureKeeps, WrittenKeeps, PreflightKeeps
<1>3. CASE BeginRefused(e) \/ StartRefused(e)
  <2>1. Alone /\ Stops(e)
    BY <1>1, <1>3 DEF Alone, BeginRefused, StartRefused
  <2>2. QED
    BY <2>1, StopsKeeps
<1>4. CASE CloseRefused(e)
  <2>1. Alone /\ exec[e].pc # "idle" /\ Errs(e)
    BY <1>1, <1>4 DEF Alone, CloseRefused
  <2>2. QED
    BY <2>1, ErrsKeeps
<1>5. CASE Begin(e)
  BY <1>5, BeginKeeps
<1>6. CASE Dispatch(e)
  BY <1>6, DispatchKeeps
<1>7. CASE \E m \in Mappings : Write(e, m) \/ Converge(e, m)
  BY <1>7, WriteKeeps, ConvergeKeeps
<1>8. CASE Interrupt(e) \/ FailRecovery(e)
  BY <1>8, InterruptKeeps
<1>9. CASE Record(e)
  BY <1>9, RecordKeeps
<1>10. CASE Closes(e, TRUE)
  BY <1>10, ClosesKeeps
<1>11. CASE StartRecovery(e)
  BY <1>11, StartRecoveryKeeps
<1>12. CASE Block(e)
  BY <1>12, BlockKeeps
<1>13. QED
  BY <1>2, <1>3, <1>4, <1>5, <1>6, <1>7, <1>8, <1>9, <1>10, <1>11, <1>12 DEF Steps

LEMMA CallFailsKeeps ==
    ASSUME IInv, Counted, NEW e \in Executors, CallFails(e) \/ GiveUp(e)
    PROVE  IInv'
<1>1. Alone /\ exec[e].pc # "idle" /\ Errs(e)
  BY DEF Alone, CallFails, GiveUp, IInv, TypeOK
<1>2. QED
  BY <1>1, ErrsKeeps

LEMMA FaultKeeps ==
    ASSUME IInv, Counted, Fault
    PROVE  IInv'
<1>1. CASE \E e \in Executors : CallFails(e)
  BY <1>1, CallFailsKeeps
<1>2. CASE RelayFault
  <2>1. PICK e \in Executors : \/ \E m \in Mappings : WriteFails(e, m) \/ ConvergeFails(e, m)
                             \/ GiveUp(e) \/ CallFails(e)
    BY <1>2 DEF RelayFault
  <2>2. QED
    BY <2>1, WriteKeeps, ConvergeFaultsKeep, CallFailsKeeps
<1>3. CASE MissingFault
  <2>1. PICK e \in Executors, m \in Mappings : ConvergeBlocked(e, m) \/ PreflightBlocked(e, m)
    BY <1>3 DEF MissingFault
  <2>2. CASE ConvergeBlocked(e, m)
    BY <2>2, ConvergeFaultsKeep
  <2>3. CASE PreflightBlocked(e, m)
    <3>1. Alone
      BY <2>3 DEF Alone, PreflightBlocked, IInv, TypeOK
    <3>2. QED
      BY <2>3, <3>1, PreflightKeeps
  <2>4. QED
    BY <2>1, <2>2, <2>3
<1>4. CASE \E es \in SUBSET Executors : Crash(es)
  BY <1>4, CrashKeeps
<1>5. CASE \E e \in Executors : Closes(e, FALSE) \/ InterruptUnheard(e)
  BY <1>5, ClosesKeeps, InterruptUnheardKeeps
<1>6. QED
  BY <1>1, <1>2, <1>3, <1>4, <1>5 DEF Fault

LEMMA NextKeeps == IInv /\ [Next]_vars => IInv'
<1> SUFFICES ASSUME IInv, [Next]_vars PROVE IInv'
  OBVIOUS
<1>1. faulted \in 0..MaxFaults /\ down \in BOOLEAN /\ exec \in [Executors -> Executor]
      /\ op \in [Keys -> Operation]
  BY DEF IInv, TypeOK
<1>2. CASE UNCHANGED vars
  <2>1. Elapses
    BY <1>1, <1>2 DEF Elapses, Counted, vars
  <2>2. QED
    BY <2>1, ElapsesKeeps
<1>3. CASE /\ UNCHANGED faulted
           /\ \/ \E e \in Executors :
                  \/ Steps(e)
                  \/ \E k \in Keys : Confirm(e, k) \/ \E dir \in Directions : Review(e, k, dir)
              \/ \E k \in Keys : GrowOld(k)
              \/ Startup
  <2>1. Counted
    BY <1>1, <1>3 DEF Counted
  <2>2. CASE \E e \in Executors : Steps(e)
    BY <2>1, <2>2, StepsKeep
  <2>3. CASE \E e \in Executors, k \in Keys : Confirm(e, k)
    <3>1. Alone
      BY <1>1, <2>1, <2>3 DEF Alone, Confirm
    <3>2. QED
      BY <2>3, <3>1, ConfirmKeeps
  <2>4. CASE \E e \in Executors, k \in Keys, dir \in Directions : Review(e, k, dir)
    <3>1. Alone
      BY <1>1, <2>1, <2>4 DEF Alone, Review
    <3>2. QED
      BY <2>4, <3>1, ReviewKeeps
  <2>5. CASE \E k \in Keys : GrowOld(k)
    BY <2>1, <2>5, GrowOldKeeps
  <2>6. CASE Startup
    BY <2>1, <2>6, StartupKeeps
  <2>7. QED
    BY <1>3, <2>2, <2>3, <2>4, <2>5, <2>6
<1>4. CASE Fault /\ faulted < MaxFaults /\ faulted' = faulted + 1
  <2>1. Counted
    BY <1>1, <1>4, RelationshipOperationAssumption DEF Counted
  <2>2. QED
    BY <1>4, <2>1, FaultKeeps
<1>5. QED
  BY <1>2, <1>3, <1>4 DEF Next

(* The inductive invariant of the Operations: whoever works on an Operation    *)
(* is the only one and finds it open and owned, captured revisions are passed   *)
(* by a promotion, and verified steps tell what the Relay holds.                *)
THEOREM Invariant == Spec => []IInv
<1>1. Init => IInv
  BY InitHolds
<1>2. IInv /\ [Next]_vars => IInv'
  BY NextKeeps
<1>3. QED
  BY <1>1, <1>2, PTL DEF Spec

(* Every record keeps its type: no attempt beyond the bound, no promotion       *)
(* beyond the second, no lifecycle the code does not know.                      *)
THEOREM TypeCorrect == Spec => []TypeOK
<1>1. IInv => TypeOK
  BY DEF IInv
<1>2. QED
  BY <1>1, Invariant, PTL

LEMMA OneWriterByRight == IInv => OneWriter
<1> SUFFICES ASSUME IInv, Heard, NEW e \in Executors, NEW f \in Executors, e # f,
                    MayWrite(e), MayWrite(f)
             PROVE  Maps(exec[e].key) \cap Maps(exec[f].key) = {}
  BY DEF OneWriter
<1>1. Working(e) /\ Working(f)
  BY DEF MayWrite, Working, Unstarted
<1>2. /\ exec[e].key \in Keys /\ exec[f].key \in Keys /\ exec[f].key # exec[e].key
      /\ op[exec[e].key].owns /\ op[exec[f].key].owns
  BY <1>1, AtWork DEF Heard, OthersStray
<1>3. QED
  BY <1>2 DEF IInv, Ownership, OneOwner

(* Of two executors that may write to the Relay, each has Mappings of its own  *)
(* (execution, recovery and the settling of operation_execution.go and         *)
(* operation_recovery.go, until the reply of a commit is lost).                *)
THEOREM SingleWriter == Spec => []OneWriter
<1>1. IInv => OneWriter
  BY OneWriterByRight
<1>2. QED
  BY <1>1, Invariant, PTL

(* An Operation owns its Mappings exactly while it is open: the partial unique *)
(* index and the lifecycle column agree after every transaction.               *)
THEOREM OwnershipFollows == Spec => []OpenIsOwned
<1>1. IInv => OpenIsOwned
  BY DEF IInv, Ownership, OwnedWhileOpen, OpenIsOwned, Heard
<1>2. QED
  BY <1>1, Invariant, PTL

(* What is open stays recoverable: its Mappings are at the captured revisions, *)
(* which the review of a recovery requires.                                    *)
THEOREM StaysRecoverable == Spec => []OpenIsRecoverable
<1>1. IInv => OpenIsRecoverable
  BY DEF IInv, Ownership, Recoverable, OpenIsRecoverable, AtRevisions
<1>2. QED
  BY <1>1, Invariant, PTL

(* A Mapping without owner records what the Relay holds, after any sequence of *)
(* promotions, restores, interruptions and failed attempts.                    *)
THEOREM FreeIsAligned == Spec => []AlignedWhenFree
<1>1. IInv => AlignedWhenFree
  BY DEF IInv, Evidence, Undisturbed, FreeAligned, AlignedWhenFree
<1>2. QED
  BY <1>1, Invariant, PTL

(* An Operation promotes its Mappings at most once, also when replies are lost *)
(* and it is resumed after it was applied.                                     *)
THEOREM PromotesOnce == Spec => []PromotedOnce
<1>1. IInv => PromotedOnce
  BY DEF IInv, Control, PromotedBeyond, PromotedOnce
<1>2. QED
  BY <1>1, Invariant, PTL

-----------------------------------------------------------------------------
(* The promise.  What every step does to the Operations, the Mappings and    *)
(* the Relay, whoever makes it:                                              *)

(* But for its lifecycle.                                                    *)
KeptBut(l) ==
    /\ op'[l].plan = op[l].plan /\ op'[l].owns = op[l].owns /\ op'[l].fresh = op[l].fresh
    /\ op'[l].lost = op[l].lost /\ op'[l].promotions = op[l].promotions

Kept(l) == KeptBut(l) /\ op'[l].lifecycle = op[l].lifecycle

OthersKept(k) == \A l \in Keys : l # k => Kept(l)

(* Nothing that the promise is about.                                        *)
Quiet == UNCHANGED <<mapping, relay>> /\ \A l \in Keys : Kept(l)

(* An Operation worked on, as long as every reply was heard.                 *)
WorkedOn(k) == ~op[k].lost => op[k].lifecycle \in Busy

(* A write towards the target, or the baseline, of an Operation worked on.   *)
Writes(k, m, v) ==
    /\ WorkedOn(k) /\ m \in Maps(k)
    /\ v \in {k, op[k].base[m]}
    /\ relay' = [relay EXCEPT ![m] = v]
    /\ UNCHANGED mapping /\ \A l \in Keys : Kept(l)

(* Another lifecycle: of an Operation worked on, or of an interrupted one.   *)
Turns(k, l) ==
    /\ OthersKept(k) /\ KeptBut(k)
    /\ UNCHANGED <<mapping, relay>>
    /\ op'[k].lifecycle = l
    /\ \/ l \in {"interrupted", "blocked_external"} /\ WorkedOn(k)
       \/ l \in Busy /\ op[k].lifecycle = "interrupted"

(* It is interrupted, and the reply lost.                                    *)
Unhears(k) ==
    /\ OthersKept(k)
    /\ UNCHANGED <<mapping, relay>>
    /\ op'[k].fresh = op[k].fresh /\ op'[k].promotions = op[k].promotions
    /\ op'[k].lost

Begins(k) ==
    /\ OthersKept(k)
    /\ op[k].lifecycle = "none" /\ \A m \in Maps(k) : ~Owned(m)
    /\ op'[k].plan = op[k].plan /\ op'[k].lost = op[k].lost /\ op[k].fresh
    /\ op[k].promotions = 0 /\ op'[k].promotions = 0
    /\ op'[k].lifecycle = "applying" /\ op'[k].owns
    /\ UNCHANGED <<mapping, relay>>

(* The three ends of an Operation.                                           *)
EndsAs(k) ==
    \/ /\ op'[k].lifecycle = "applied" /\ op'[k].promotions = 1
       /\ mapping' = Promoted(k)
       /\ Undisturbed => \A m \in Maps(k) : relay[m] = k
    \/ /\ op'[k].lifecycle = "applied" /\ op'[k].promotions = op[k].promotions
       /\ AlreadyPromoted(k) /\ mapping' = mapping
    \/ /\ op'[k].lifecycle = "restored" /\ op'[k].promotions = op[k].promotions
       /\ mapping' = mapping
       /\ Undisturbed => \A m \in Maps(k) : relay[m] = mapping[m].content

Ends(k) ==
    /\ OthersKept(k)
    /\ WorkedOn(k)
    /\ op'[k].plan = op[k].plan /\ op'[k].fresh = op[k].fresh
    /\ op[k].lost => op'[k].lost
    /\ ~op'[k].owns
    /\ EndsAs(k)
    /\ relay' = relay

(* What a start finds abandoned.                                             *)
Settles ==
    /\ \A k \in Keys : \/ Kept(k)
                       \/ KeptBut(k) /\ op[k].lifecycle \in Busy /\ op'[k].lifecycle = "interrupted"
    /\ UNCHANGED <<mapping, relay>>

Shape ==
    \/ Quiet
    \/ \E k \in Keys : \/ \E m \in Mappings, v \in Values : Writes(k, m, v)
                       \/ \E l \in Lifecycles : Turns(k, l)
                       \/ Unhears(k) \/ Begins(k) \/ Ends(k)
    \/ Settles

LEMMA ExecutorOnly ==
    ASSUME UNCHANGED <<mapping, relay, op>>
    PROVE  Shape
BY DEF Shape, Quiet, Kept, KeptBut

(* A step changes what is recorded of steps.                                 *)
LEMMA RecordsKept ==
    ASSUME IInv, NEW k \in Keys, NEW new,
           new = op[k] \/ \E st : new = WithSteps(k, st), op' = [op EXCEPT ![k] = new]
    PROVE  \A l \in Keys : Kept(l)
<1>1. op \in [Keys -> Operation] /\ op[k] \in Operation
  BY DEF IInv, TypeOK
<1>2. /\ new.plan = op[k].plan /\ new.owns = op[k].owns /\ new.fresh = op[k].fresh
      /\ new.lost = op[k].lost /\ new.promotions = op[k].promotions
      /\ new.lifecycle = op[k].lifecycle
  BY <1>1 DEF WithSteps, Operation
<1>3. op'[k] = new /\ \A l \in Keys : l # k => op'[l] = op[l]
  BY <1>1
<1>4. QED
  BY <1>2, <1>3 DEF Kept, KeptBut

LEMMA WantIs ==
    ASSUME NEW k, NEW dir, NEW m
    PROVE  Want(k, dir, m) \in {k, op[k].base[m]}
BY DEF Want

(* A write to the Relay is of a Mapping of the Operation.                    *)
LEMMA WritesShape ==
    ASSUME IInv, NEW e \in Executors, Working(e), exec[e].pc \notin {"leave", "fail"},
           NEW m \in exec[e].todo, NEW v, v \in {exec[e].key, op[exec[e].key].base[m]},
           relay' \in {relay, [relay EXCEPT ![m] = v]}, mapping' = mapping,
           \A l \in Keys : Kept(l)
    PROVE  Shape
<1> DEFINE k == exec[e].key
<1>1. /\ k \in Keys /\ m \in Maps(k) /\ m \in Mappings /\ WorkedOn(k)
      /\ op[k] \in Operation
  BY AtWork DEF WorkedOn
<1>2. v \in Values
  BY <1>1 DEF Operation, Values
<1>3. CASE relay' = relay
  BY <1>3 DEF Shape, Quiet
<1>4. CASE relay' = [relay EXCEPT ![m] = v]
  <2>1. Writes(k, m, v)
    BY <1>1, <1>4 DEF Writes
  <2>2. QED
    BY <1>1, <1>2, <2>1 DEF Shape
<1>5. QED
  BY <1>3, <1>4

LEMMA WriteShape ==
    ASSUME IInv, NEW e \in Executors, NEW m \in Mappings,
           Write(e, m) \/ WriteFails(e, m) \/ Converge(e, m) \/ ConvergeFails(e, m)
             \/ ConvergeBlocked(e, m)
    PROVE  Shape
<1> DEFINE k == exec[e].key
<1>1. /\ Working(e) /\ exec[e].pc \notin {"leave", "fail"} /\ m \in exec[e].todo
      /\ mapping' = mapping
  BY DEF Write, WriteFails, Converge, ConvergeFails, ConvergeBlocked, Working, Unstarted
<1>2. /\ k \in Keys /\ op \in [Keys -> Operation] /\ op[k] \in Operation
  BY <1>1, AtWork DEF IInv, TypeOK
<1> DEFINE Recorded == \E new : /\ new = op[k] \/ \E st : new = WithSteps(k, st)
                               /\ op' = [op EXCEPT ![k] = new]
<1>3. Recorded
  <2>1. ASSUME NEW st, op' = [op EXCEPT ![k] = WithSteps(k, st)]
        PROVE  Recorded
    BY <2>1
  <2>2. CASE op' = op
    <3>1. op' = [op EXCEPT ![k] = op[k]]
      BY <1>2, <2>2
    <3>2. QED
      BY <3>1
  <2>3. ASSUME NEW s, op' = [op EXCEPT ![k].step[m] = s]
        PROVE  Recorded
    <3>1. op' = [op EXCEPT ![k] = WithSteps(k, [op[k].step EXCEPT ![m] = s])]
      BY <2>3 DEF WithSteps
    <3>2. QED
      BY <2>1, <3>1
  <2>4. ASSUME NEW s, op' = [op EXCEPT ![k].step[m].state = s]
        PROVE  Recorded
    <3>1. op' = [op EXCEPT ![k] = WithSteps(k, [op[k].step EXCEPT ![m] =
                                                   [op[k].step[m] EXCEPT !.state = s]])]
      BY <2>4 DEF WithSteps
    <3>2. QED
      BY <2>1, <3>1
  <2> HIDE DEF Recorded
  <2>5. CASE Write(e, m) \/ WriteFails(e, m)
    BY <2>2, <2>3, <2>5 DEF Write, WriteFails
  <2>6. CASE Converge(e, m)
    BY <2>4, <2>6 DEF Converge
  <2>7. CASE ConvergeFails(e, m) \/ ConvergeBlocked(e, m)
    BY <2>4, <2>7 DEF ConvergeFails, ConvergeBlocked
  <2>8. QED
    BY <2>5, <2>6, <2>7
<1>4. \A l \in Keys : Kept(l)
  BY <1>2, <1>3, RecordsKept
<1>5. \E v : v \in {k, op[k].base[m]} /\ relay' \in {relay, [relay EXCEPT ![m] = v]}
  <2>1. CASE Write(e, m) \/ WriteFails(e, m)
    BY <2>1 DEF Write, WriteFails
  <2>2. CASE Converge(e, m) \/ ConvergeFails(e, m)
    <3> DEFINE v == Want(k, exec[e].dir, m)
    <3>1. v \in {k, op[k].base[m]}
      BY WantIs
    <3>2. relay' \in {relay, [relay EXCEPT ![m] = v]}
      BY <2>2 DEF Converge, ConvergeFails
    <3> HIDE DEF v
    <3>3. QED
      BY <3>1, <3>2
  <2>3. CASE ConvergeBlocked(e, m)
    BY <2>3 DEF ConvergeBlocked
  <2>4. QED
    BY <2>1, <2>2, <2>3
<1>6. QED
  BY <1>1, <1>4, <1>5, WritesShape

LEMMA RecordShape ==
    ASSUME IInv, NEW e \in Executors, Dispatch(e) \/ Record(e)
    PROVE  Shape
<1> DEFINE k == exec[e].key
<1>1. Working(e) /\ UNCHANGED <<mapping, relay>>
  BY DEF Dispatch, Record, Working, Unstarted
<1>2. k \in Keys
  BY <1>1, AtWork
<1>3. \E st : op' = [op EXCEPT ![k] = WithSteps(k, st)]
  <2>1. CASE Dispatch(e)
    BY <2>1 DEF Dispatch, WithSteps
  <2>2. CASE Record(e)
    BY <1>2, <2>2 DEF Record, WithSteps, IInv, TypeOK
  <2>3. QED
    BY <2>1, <2>2
<1>4. \A l \in Keys : Kept(l)
  BY <1>2, <1>3, RecordsKept
<1>5. QED
  BY <1>1, <1>4 DEF Shape, Quiet

LEMMA TurnShape ==
    ASSUME IInv, NEW e \in Executors,
           Interrupt(e) \/ FailRecovery(e) \/ Block(e) \/ StartRecovery(e)
    PROVE  Shape
<1> DEFINE k == exec[e].key
<1>1. CASE Interrupt(e) \/ FailRecovery(e) \/ Block(e)
  <2>1. Working(e)
    BY <1>1 DEF Interrupt, FailRecovery, Block, Working, Unstarted
  <2>2. k \in Keys /\ op[k] \in Operation /\ op \in [Keys -> Operation]
        /\ WorkedOn(k)
    BY <2>1, AtWork DEF IInv, TypeOK, WorkedOn
  <2> DEFINE Turned(l, st) ==
               /\ l \in {"interrupted", "blocked_external"}
               /\ op' = [op EXCEPT ![k] = [op[k] EXCEPT !.lifecycle = l, !.step = st]]
  <2>3. \E l, st : Turned(l, st)
    <3>1. CASE Interrupt(e) \/ FailRecovery(e)
      <4>1. op' = [op EXCEPT ![k] = [op[k] EXCEPT !.lifecycle = "interrupted"]]
        BY <3>1 DEF Interrupt, FailRecovery, Lifecycle
      <4>2. [op[k] EXCEPT !.lifecycle = "interrupted"]
              = [op[k] EXCEPT !.lifecycle = "interrupted", !.step = op[k].step]
        BY <2>2 DEF Operation
      <4>3. Turned("interrupted", op[k].step)
        BY <4>1, <4>2
      <4> HIDE DEF Turned
      <4>4. QED
        BY <4>3
    <3>2. CASE Block(e)
      <4> DEFINE st == [m \in Mappings |-> IF m \in exec[e].at
                                           THEN [op[k].step[m] EXCEPT !.state = "blocked"]
                                           ELSE op[k].step[m]]
      <4>1. op' = [op EXCEPT ![k] = [op[k] EXCEPT !.lifecycle = "blocked_external", !.step = st]]
        BY <2>2, <3>2 DEF Block, Lifecycle, Operation
      <4> HIDE DEF st
      <4>2. Turned("blocked_external", st)
        BY <4>1
      <4> HIDE DEF Turned
      <4>3. QED
        BY <4>2
    <3>3. QED
      BY <1>1, <3>1, <3>2
  <2> HIDE DEF Turned
  <2>4. /\ OthersKept(k) /\ KeptBut(k)
        /\ op'[k].lifecycle \in {"interrupted", "blocked_external"}
    <3>1. PICK l, st : Turned(l, st)
      BY <2>3
    <3> DEFINE new == [op[k] EXCEPT !.lifecycle = l, !.step = st]
    <3>2. op' = [op EXCEPT ![k] = new] /\ l \in {"interrupted", "blocked_external"}
      BY <3>1 DEF Turned
    <3>3. /\ new.lifecycle = l /\ new.plan = op[k].plan /\ new.owns = op[k].owns
          /\ new.fresh = op[k].fresh /\ new.lost = op[k].lost
          /\ new.promotions = op[k].promotions
      BY <2>2 DEF Operation
    <3> HIDE DEF new
    <3>4. op'[k] = new /\ \A j \in Keys : j # k => op'[j] = op[j]
      BY <2>2, <3>2
    <3>5. KeptBut(k) /\ op'[k].lifecycle \in {"interrupted", "blocked_external"}
      BY <3>2, <3>3, <3>4 DEF KeptBut
    <3>6. OthersKept(k)
      BY <3>4 DEF OthersKept, Kept, KeptBut
    <3>7. QED
      BY <3>5, <3>6
  <2>5. UNCHANGED <<mapping, relay>>
    BY <1>1 DEF Interrupt, FailRecovery, Block
  <2>6. Turns(k, op'[k].lifecycle) /\ op'[k].lifecycle \in Lifecycles
    BY <2>2, <2>4, <2>5 DEF Turns, Lifecycles
  <2>7. QED
    BY <2>2, <2>6 DEF Shape
<1>2. CASE StartRecovery(e)
  <2>1. exec[e].pc = "start" /\ k \in Keys /\ op[k].lifecycle = "interrupted"
        /\ op[k] \in Operation /\ op \in [Keys -> Operation]
    BY <1>2 DEF StartRecovery, MayStart, IInv, TypeOK, Control, Named, NamedBy
  <2>2. OthersKept(k) /\ KeptBut(k)
    BY <1>2, <2>1 DEF StartRecovery, OthersKept, Kept, KeptBut, Operation
  <2>3. op'[k].lifecycle \in {"resuming", "restoring"}
    BY <1>2, <2>1 DEF StartRecovery, Operation
  <2>4. Turns(k, op'[k].lifecycle) /\ op'[k].lifecycle \in Lifecycles
    BY <1>2, <2>1, <2>2, <2>3 DEF Turns, Lifecycles, Busy, StartRecovery
  <2>5. QED
    BY <2>1, <2>4 DEF Shape
<1>3. QED
  BY <1>1, <1>2

LEMMA UnheardShape ==
    ASSUME IInv, NEW e \in Executors, InterruptUnheard(e)
    PROVE  Shape
<1> DEFINE k == exec[e].key
           new == [op[k] EXCEPT !.lifecycle = "interrupted", !.lost = TRUE]
<1>1. Working(e)
  BY DEF InterruptUnheard, Working, Unstarted
<1>2. k \in Keys /\ op[k] \in Operation /\ op \in [Keys -> Operation]
  BY <1>1, AtWork DEF IInv, TypeOK
<1>3. new.fresh = op[k].fresh /\ new.promotions = op[k].promotions /\ new.lost
  BY <1>2 DEF Operation
<1>4. op' = [op EXCEPT ![k] = new] /\ UNCHANGED <<mapping, relay>>
  BY <1>2 DEF InterruptUnheard, Lifecycle
<1> HIDE DEF new
<1>5. op'[k] = new /\ OthersKept(k)
  BY <1>2, <1>4 DEF OthersKept, Kept, KeptBut
<1>6. Unhears(k)
  BY <1>3, <1>4, <1>5 DEF Unhears
<1>7. QED
  BY <1>2, <1>6 DEF Shape

(* The transactions that begin and end an Operation, and the start.          *)

LEMMA BeginShape ==
    ASSUME IInv, NEW e \in Executors, Begin(e)
    PROVE  Shape
<1> DEFINE k == exec[e].key
<1>1. exec[e].pc = "begin" /\ MayBegin(k)
  BY DEF Begin
<1>2. /\ k \in Keys /\ op[k] \in Operation /\ op \in [Keys -> Operation]
      /\ op[k].lifecycle = "none" /\ \A m \in Maps(k) : ~Owned(m)
  BY <1>1, Reader DEF MayBegin, IInv, TypeOK
<1>3. op[k].fresh /\ op[k].promotions = 0
  BY <1>2 DEF IInv, Control, Unbegun
<1>4. PICK captured, base, fresh :
         op' = [op EXCEPT ![k] = [op[k] EXCEPT !.lifecycle = "applying", !.owns = TRUE, !.attempts = 1,
                                               !.captured = captured, !.base = base, !.fresh = fresh]]
  BY <1>2 DEF Begin
<1>5. /\ op'[k].lifecycle = "applying" /\ op'[k].owns /\ op'[k].plan = op[k].plan
      /\ op'[k].lost = op[k].lost /\ op'[k].promotions = op[k].promotions
      /\ \A l \in Keys : l # k => op'[l] = op[l]
  BY <1>2, <1>4 DEF Operation
<1>6. OthersKept(k)
  BY <1>5 DEF OthersKept, Kept, KeptBut
<1>7. Begins(k)
  BY <1>2, <1>3, <1>5, <1>6 DEF Begins, Begin
<1>8. QED
  BY <1>2, <1>7 DEF Shape

LEMMA CloseShape ==
    ASSUME IInv, NEW e \in Executors, NEW heard \in BOOLEAN, Closes(e, heard)
    PROVE  \E k \in Keys : Ends(k) /\ (heard => op'[k].lost = op[k].lost)
<1> DEFINE k == exec[e].key
<1>1. exec[e].pc = "close" /\ Working(e) /\ relay' = relay
  BY DEF Closes, ApplyInitial, ApplyResumed, CloseResumed, CloseRestored, Working, Unstarted
<1>2. /\ k \in Keys /\ op[k] \in Operation /\ WorkedOn(k)
      /\ OpenFor(op[k], exec[e]) /\ op \in [Keys -> Operation]
  BY <1>1, AtWork DEF IInv, TypeOK, WorkedOn
<1>3. ASSUME NEW l, Commits(e, k, Terminal(k, l), heard)
      PROVE  /\ op'[k].lifecycle = l /\ ~op'[k].owns /\ op'[k].plan = op[k].plan
             /\ op'[k].fresh = op[k].fresh /\ op'[k].promotions = op[k].promotions
             /\ op'[k].lost = (op[k].lost \/ ~heard)
             /\ \A j \in Keys : j # k => op'[j] = op[j]
  BY <1>2, <1>3 DEF Commits, Terminal, Operation
<1>4. ASSUME Commits(e, k, PromotedBy(k), heard)
      PROVE  /\ op'[k].lifecycle = "applied" /\ ~op'[k].owns /\ op'[k].plan = op[k].plan
             /\ op'[k].fresh = op[k].fresh /\ op'[k].promotions = op[k].promotions + 1
             /\ op'[k].lost = (op[k].lost \/ ~heard)
             /\ \A j \in Keys : j # k => op'[j] = op[j]
  BY <1>2, <1>4 DEF Commits, PromotedBy, Terminal, Operation
<1>5. ASSUME \A j \in Keys : j # k => op'[j] = op[j]
      PROVE  OthersKept(k)
  BY <1>5 DEF OthersKept, Kept, KeptBut
<1>6. op[k].lost \in BOOLEAN
  BY <1>2 DEF Operation
<1>7. CASE ApplyInitial(e, heard) \/ ApplyResumed(e, heard)
  <2>1. op[k].promotions = 0
    BY <1>1, <1>2, <1>7, Primary DEF OpenFor, ApplyInitial, ApplyResumed
  <2>2. Commits(e, k, PromotedBy(k), heard) /\ mapping' = Promoted(k)
    BY <1>7 DEF ApplyInitial, ApplyResumed, Promotes
  <2>3. ASSUME Undisturbed, NEW m \in Maps(k) PROVE relay[m] = k
    BY <1>1, <1>7, <2>3, VerifiedHolds DEF ApplyInitial, ApplyResumed
  <2>4. EndsAs(k)
    BY <1>4, <2>1, <2>2, <2>3 DEF EndsAs
  <2>5. Ends(k) /\ (heard => op'[k].lost = op[k].lost)
    BY <1>1, <1>2, <1>4, <1>5, <1>6, <2>2, <2>4 DEF Ends
  <2>6. QED
    BY <1>2, <2>5
<1>8. CASE CloseResumed(e, heard)
  <2>1. /\ Commits(e, k, Terminal(k, "applied"), heard) /\ mapping' = mapping
        /\ AlreadyPromoted(k)
    BY <1>8 DEF CloseResumed
  <2>2. EndsAs(k)
    BY <1>3, <2>1 DEF EndsAs
  <2>3. Ends(k) /\ (heard => op'[k].lost = op[k].lost)
    BY <1>1, <1>2, <1>3, <1>5, <1>6, <2>1, <2>2 DEF Ends
  <2>4. QED
    BY <1>2, <2>3
<1>9. CASE CloseRestored(e, heard)
  <2>1. Commits(e, k, Terminal(k, "restored"), heard) /\ mapping' = mapping
    BY <1>9 DEF CloseRestored
  <2>2. ASSUME Undisturbed, NEW m \in Maps(k) PROVE relay[m] = mapping[m].content
    BY <1>1, <1>9, <2>2, VerifiedHolds DEF CloseRestored
  <2>3. EndsAs(k)
    BY <1>3, <2>1, <2>2 DEF EndsAs
  <2>4. Ends(k) /\ (heard => op'[k].lost = op[k].lost)
    BY <1>1, <1>2, <1>3, <1>5, <1>6, <2>1, <2>3 DEF Ends
  <2>5. QED
    BY <1>2, <2>4
<1>10. QED
  BY <1>7, <1>8, <1>9 DEF Closes

LEMMA TimeShape ==
    ASSUME IInv, Startup \/ \E k \in Keys : GrowOld(k)
    PROVE  Shape
<1>1. op \in [Keys -> Operation] /\ \A k \in Keys : op[k] \in Operation
  BY DEF IInv, TypeOK
<1>2. CASE Startup
  <2>1. \A k \in Keys : \/ op'[k] = op[k]
                        \/ op[k].lifecycle \in Busy /\ op'[k] = [op[k] EXCEPT !.lifecycle = "interrupted"]
    BY <1>2 DEF Startup
  <2>2. Settles
    BY <1>1, <1>2, <2>1 DEF Settles, Startup, Kept, KeptBut, Operation
  <2>3. QED
    BY <2>2 DEF Shape
<1>3. CASE \E k \in Keys : GrowOld(k)
  <2>1. PICK k \in Keys : GrowOld(k)
    BY <1>3
  <2>2. \A l \in Keys : Kept(l)
    BY <1>1, <2>1 DEF GrowOld, Kept, KeptBut, Operation
  <2>3. QED
    BY <2>1, <2>2 DEF Shape, Quiet, GrowOld
<1>4. QED
  BY <1>2, <1>3

LEMMA StepsShape ==
    ASSUME IInv, NEW e \in Executors, Steps(e)
    PROVE  Shape
<1>1. CASE \/ Preview(e) \/ Capture(e) \/ BeginRefused(e) \/ Written(e) \/ CloseRefused(e)
           \/ StartRefused(e) \/ Preflight(e)
  <2>1. UNCHANGED <<mapping, relay, op>>
    BY <1>1 DEF Preview, Capture, BeginRefused, Written, CloseRefused, StartRefused, Preflight
  <2>2. QED
    BY <2>1, ExecutorOnly
<1>2. CASE Begin(e)
  BY <1>2, BeginShape
<1>3. CASE Dispatch(e) \/ Record(e)
  BY <1>3, RecordShape
<1>4. CASE \E m \in Mappings : Write(e, m) \/ Converge(e, m)
  BY <1>4, WriteShape
<1>5. CASE Interrupt(e) \/ StartRecovery(e) \/ FailRecovery(e) \/ Block(e)
  BY <1>5, TurnShape
<1>6. CASE Closes(e, TRUE)
  BY <1>6, CloseShape DEF Shape
<1>7. QED
  BY <1>1, <1>2, <1>3, <1>4, <1>5, <1>6 DEF Steps

LEMMA FaultShape ==
    ASSUME IInv, Fault
    PROVE  Shape
<1>1. CASE \/ \E e \in Executors : CallFails(e) \/ GiveUp(e)
           \/ \E e \in Executors, m \in Mappings : PreflightBlocked(e, m)
           \/ \E es \in SUBSET Executors : Crash(es)
  <2>1. UNCHANGED <<mapping, relay, op>>
    BY <1>1 DEF CallFails, GiveUp, PreflightBlocked, Crash
  <2>2. QED
    BY <2>1, ExecutorOnly
<1>2. CASE \E e \in Executors, m \in Mappings : WriteFails(e, m) \/ ConvergeFails(e, m)
                                                \/ ConvergeBlocked(e, m)
  BY <1>2, WriteShape
<1>3. CASE \E e \in Executors : Closes(e, FALSE) \/ InterruptUnheard(e)
  BY <1>3, CloseShape, UnheardShape DEF Shape
<1>4. QED
  BY <1>1, <1>2, <1>3 DEF Fault, RelayFault, MissingFault

LEMMA NextShape ==
    ASSUME IInv, [Next]_vars
    PROVE  Shape
<1>1. CASE UNCHANGED vars
  BY <1>1, ExecutorOnly DEF vars
<1>2. CASE \E e \in Executors : Steps(e)
  BY <1>2, StepsShape
<1>3. CASE \E e \in Executors, k \in Keys : Confirm(e, k) \/ \E dir \in Directions : Review(e, k, dir)
  <2>1. UNCHANGED <<mapping, relay, op>>
    BY <1>3 DEF Confirm, Review
  <2>2. QED
    BY <2>1, ExecutorOnly
<1>4. CASE Startup \/ \E k \in Keys : GrowOld(k)
  BY <1>4, TimeShape
<1>5. CASE Fault
  BY <1>5, FaultShape
<1>6. QED
  BY <1>1, <1>2, <1>3, <1>4, <1>5 DEF Next

-----------------------------------------------------------------------------
(* What is recorded of a Mapping was promoted, and who has promoted is       *)
(* applied until a reply is lost: no resumption finds its promotion made.    *)
Credited ==
    \A k \in Keys :
        /\ \A m \in Mappings : mapping[m].content = k => op[k].promotions # 0
        /\ op[k].promotions # 0 /\ ~op[k].lost => op[k].lifecycle = "applied"

LEMMA CreditedFirst == Init => Credited
<1> SUFFICES ASSUME Init, NEW k \in Keys
             PROVE  /\ \A m \in Mappings : mapping[m].content # k
                    /\ op[k].promotions = 0
  BY DEF Credited
<1>1. PICK p \in Plans : op[k] = Unwritten(p)
  BY DEF Init
<1>2. \A m \in Mappings : mapping[m].content = None
  BY DEF Init
<1>3. QED
  BY <1>1, <1>2, RelationshipOperationAssumption DEF Unwritten

LEMMA CreditedStays ==
    ASSUME IInv, Credited, Shape
    PROVE  Credited'
<1>1. CASE mapping' = mapping /\ \A k \in Keys : Kept(k)
  BY <1>1 DEF Credited, Kept, KeptBut
<1>2. ASSUME NEW k \in Keys, NEW l \in Lifecycles, Turns(k, l)
      PROVE  Credited'
  <2>1. op[k].promotions # 0 => op[k].lost
    BY <1>2 DEF Credited, Turns, WorkedOn, Busy
  <2>2. QED
    BY <1>2, <2>1 DEF Credited, Turns, OthersKept, Kept, KeptBut
<1>3. ASSUME NEW k \in Keys, Begins(k)
      PROVE  Credited'
  BY <1>3 DEF Credited, Begins, OthersKept, Kept, KeptBut
<1>4. ASSUME NEW k \in Keys, Ends(k)
      PROVE  Credited'
  <2>1. op[k].promotions # 0 => op[k].lost
    BY <1>4 DEF Credited, Ends, WorkedOn, Busy
  <2>2. \A l \in Keys : l # k => op'[l].promotions = op[l].promotions /\ op'[l].lost = op[l].lost
                                 /\ op'[l].lifecycle = op[l].lifecycle
    BY <1>4 DEF Ends, OthersKept, Kept, KeptBut
  <2>3. \A m \in Mappings : \/ mapping'[m] = mapping[m] /\ op'[k].promotions = op[k].promotions
                            \/ /\ mapping'[m].content \in {k, mapping[m].content}
                               /\ op'[k].promotions = 1
    BY <1>4 DEF Ends, EndsAs, Promoted
  <2>4. op'[k].promotions # 0 /\ ~op'[k].lost => op'[k].lifecycle = "applied"
    BY <1>4, <2>1 DEF Ends, EndsAs
  <2>5. QED
    BY <2>2, <2>3, <2>4 DEF Credited
<1>5. CASE Settles
  <2>1. mapping' = mapping
    BY <1>5 DEF Settles
  <2>2. \A k \in Keys : Kept(k) \/ (KeptBut(k) /\ (op[k].promotions # 0 => op[k].lost))
    BY <1>5 DEF Settles, Credited, Busy
  <2>3. QED
    BY <2>1, <2>2 DEF Credited, Kept, KeptBut
<1>6. ASSUME NEW k \in Keys, Unhears(k)
      PROVE  Credited'
  BY <1>6 DEF Credited, Unhears, OthersKept, Kept, KeptBut
<1>7. QED
  BY <1>1, <1>2, <1>3, <1>4, <1>5, <1>6 DEF Shape, Quiet, Writes

(* The variables of the promise.                                             *)

PhaseMap == [k \in Keys |-> PhaseOf(op[k])]

HeldMap == [k \in Keys |-> Held(k)]

Current == \A k \in Keys : op[k].fresh

LEMMA PhaseFacts ==
    ASSUME NEW o
    PROVE  /\ o.lifecycle \in Busy => PhaseOf(o) = "working"
           /\ o.lifecycle = "blocked_external" => PhaseOf(o) = "blocked"
           /\ o.lifecycle \in {"none", "interrupted", "applied", "restored"} => PhaseOf(o) = o.lifecycle
BY DEF PhaseOf, Busy

LEMMA KeptMaps ==
    ASSUME NEW l
    PROVE  /\ Kept(l) => PhaseOf(op'[l]) = PhaseOf(op[l])
           /\ KeptBut(l) => Held(l)' = Held(l)
BY DEF Kept, KeptBut, PhaseOf, Held, Owns, Maps

LEMMA OthersMaps ==
    ASSUME NEW k \in Keys, OthersKept(k)
    PROVE  /\ PhaseMap' = [PhaseMap EXCEPT ![k] = PhaseOf(op'[k])]
           /\ HeldMap' = [HeldMap EXCEPT ![k] = Held(k)']
<1>1. \A l \in Keys : l # k => PhaseOf(op'[l]) = PhaseOf(op[l]) /\ Held(l)' = Held(l)
  BY KeptMaps DEF OthersKept, Kept
<1>2. QED
  BY <1>1 DEF PhaseMap, HeldMap

LEMMA AllMaps ==
    ASSUME \A l \in Keys : Kept(l)
    PROVE  PhaseMap' = PhaseMap /\ HeldMap' = HeldMap /\ Heard' = Heard /\ Current' = Current
<1>1. \A l \in Keys : PhaseOf(op'[l]) = PhaseOf(op[l]) /\ Held(l)' = Held(l)
  BY KeptMaps DEF Kept
<1>2. QED
  BY <1>1 DEF PhaseMap, HeldMap, Heard, Current, Kept, KeptBut

(* While replies are heard, who is worked on holds its Mappings.             *)
LEMMA HeldBy ==
    ASSUME IInv, Heard, NEW k \in Keys, op[k].lifecycle \in Busy
    PROVE  op[k].owns /\ Held(k) = Maps(k) /\ PhaseMap[k] = "working" /\ HeldMap[k] = Maps(k)
<1>1. op[k].owns
  BY DEF IInv, Ownership, OwnedWhileOpen, Heard, Busy, Closed
<1>2. Held(k) = Maps(k)
  BY <1>1, MapsType DEF Held, Owns, IInv
<1>3. QED
  BY <1>1, <1>2, PhaseFacts DEF PhaseMap, HeldMap

LEMMA WhileCurrent ==
    ASSUME Heard, Current
    PROVE  Undisturbed
BY DEF Undisturbed, Current

LEMMA OnceLost ==
    ASSUME IInv, Shape
    PROVE  (Heard' => Heard) /\ (Current' => Current)
<1>1. CASE \E k \in Keys : Begins(k)
  BY <1>1 DEF Begins, OthersKept, Kept, KeptBut, Heard, Current
<1>2. CASE \E k \in Keys : Ends(k)
  BY <1>2 DEF Ends, OthersKept, Kept, KeptBut, Heard, Current
<1>3. CASE \A l \in Keys : KeptBut(l)
  BY <1>3 DEF KeptBut, Heard, Current
<1>4. CASE \E k \in Keys : Unhears(k)
  BY <1>4 DEF Unhears, OthersKept, Kept, KeptBut, Heard, Current
<1>5. QED
  BY <1>1, <1>2, <1>3, <1>4 DEF Shape, Quiet, Writes, Turns, Settles, OthersKept, Kept

LEMMA PromiseWrites ==
    ASSUME IInv, Heard, NEW k \in Keys, NEW m \in Mappings, NEW v \in Values, Writes(k, m, v)
    PROVE  Promise!Write(k, m)
<1>1. PhaseMap[k] = "working" /\ m \in HeldMap[k] /\ op[k].owns
  BY HeldBy DEF Writes, WorkedOn, Heard
<1>2. Current => v \in {k, mapping[m].content}
  BY <1>1, WhileCurrent, EvidenceOf DEF Writes
<1>3. PhaseMap' = PhaseMap /\ HeldMap' = HeldMap
  BY AllMaps DEF Writes
<1>4. QED
  BY <1>1, <1>2, <1>3 DEF Promise!Write, PhaseMap, HeldMap, Current, Writes, Values

LEMMA PromiseTurns ==
    ASSUME IInv, Heard, NEW k \in Keys, NEW l \in Lifecycles, Turns(k, l)
    PROVE  Promise!Interrupt({k}) \/ Promise!Block(k) \/ Promise!Recover(k)
<1>1. /\ PhaseMap' = [PhaseMap EXCEPT ![k] = PhaseOf(op'[k])]
      /\ HeldMap' = [HeldMap EXCEPT ![k] = Held(k)']
  BY OthersMaps DEF Turns
<1>2. HeldMap' = HeldMap
  BY <1>1, KeptMaps DEF HeldMap, Turns
<1>3. UNCHANGED <<mapping, relay>>
  BY DEF Turns
<1>4. CASE l = "interrupted"
  <2>1. PhaseMap[k] = "working" /\ PhaseOf(op'[k]) = "interrupted"
    BY <1>4, HeldBy, PhaseFacts DEF Turns, WorkedOn, Heard, Busy
  <2>2. PhaseMap' = [j \in Keys |-> IF j \in {k} THEN "interrupted" ELSE PhaseMap[j]]
    BY <1>1, <2>1 DEF PhaseMap
  <2>3. QED
    BY <1>2, <1>3, <2>1, <2>2 DEF Promise!Interrupt, PhaseMap, HeldMap
<1>5. CASE l = "blocked_external"
  <2>1. PhaseMap[k] = "working" /\ PhaseOf(op'[k]) = "blocked"
    BY <1>5, HeldBy, PhaseFacts DEF Turns, WorkedOn, Heard, Busy
  <2>2. QED
    BY <1>1, <1>2, <1>3, <2>1 DEF Promise!Block, Promise!Move, PhaseMap, HeldMap
<1>6. CASE l \in Busy
  <2>1. PhaseMap[k] = "interrupted" /\ PhaseOf(op'[k]) = "working"
    BY <1>6, PhaseFacts DEF Turns, Busy, PhaseMap
  <2>2. QED
    BY <1>1, <1>2, <1>3, <2>1 DEF Promise!Recover, Promise!Move, PhaseMap, HeldMap
<1>7. QED
  BY <1>4, <1>5, <1>6 DEF Turns

LEMMA PromiseBegins ==
    ASSUME IInv, NEW k \in Keys, Begins(k)
    PROVE  Promise!Begin(k, Maps(k)) /\ Maps(k) \in SUBSET Mappings
<1>1. /\ PhaseMap' = [PhaseMap EXCEPT ![k] = PhaseOf(op'[k])]
      /\ HeldMap' = [HeldMap EXCEPT ![k] = Held(k)']
  BY OthersMaps DEF Begins
<1>2. PhaseMap[k] = "none" /\ PhaseOf(op'[k]) = "working"
  BY PhaseFacts DEF Begins, Busy, PhaseMap
<1>3. Maps(k) \subseteq Mappings /\ Maps(k) # {}
  BY MapsType DEF IInv
<1>4. Held(k)' = Maps(k)
  BY <1>3 DEF Begins, Held, Owns, Maps
<1>5. \A l \in Keys : HeldMap[l] \cap Maps(k) = {}
  BY <1>3 DEF Begins, Owned, HeldMap, Held
<1>6. UNCHANGED <<mapping, relay>>
  BY DEF Begins
<1>7. QED
  BY <1>1, <1>2, <1>3, <1>4, <1>5, <1>6 DEF Promise!Begin, Promise!Move, PhaseMap, HeldMap

LEMMA PromiseEnds ==
    ASSUME IInv, Credited, Heard, NEW k \in Keys, Ends(k)
    PROVE  Promise!Apply(k) \/ Promise!Restore(k)
<1>1. /\ PhaseMap' = [PhaseMap EXCEPT ![k] = PhaseOf(op'[k])]
      /\ HeldMap' = [HeldMap EXCEPT ![k] = Held(k)']
  BY OthersMaps DEF Ends
<1>2. PhaseMap[k] = "working" /\ HeldMap[k] = Maps(k)
  BY HeldBy DEF Ends, WorkedOn, Heard
<1>3. Held(k)' = {}
  BY DEF Ends, Held, Owns
<1>4. relay' = relay
  BY DEF Ends
<1>5. CASE /\ op'[k].lifecycle = "applied" /\ mapping' = Promoted(k)
           /\ Undisturbed => \A m \in Maps(k) : relay[m] = k
  <2>1. PhaseOf(op'[k]) = "applied"
    BY <1>5, PhaseFacts
  <2>2. Current => \A m \in HeldMap[k] : relay[m] = k
    BY <1>2, <1>5, WhileCurrent
  <2>3. mapping' = [m \in Mappings |-> IF m \in HeldMap[k]
                                       THEN [revision |-> mapping[m].revision + 1, content |-> k]
                                       ELSE mapping[m]]
    BY <1>2, <1>5 DEF Promoted
  <2>4. Promise!Close(k, "applied")
    BY <1>1, <1>2, <1>3, <1>4, <2>1 DEF Promise!Close, Promise!Move, PhaseMap, HeldMap
  <2>5. Promise!Apply(k)
    BY <2>2, <2>3, <2>4 DEF Promise!Apply, HeldMap, Current
  <2>6. QED
    BY <2>5
<1>6. CASE /\ op'[k].lifecycle = "restored" /\ mapping' = mapping
           /\ Undisturbed => \A m \in Maps(k) : relay[m] = mapping[m].content
  <2>1. PhaseOf(op'[k]) = "restored"
    BY <1>6, PhaseFacts
  <2>2. Current => \A m \in HeldMap[k] : relay[m] = mapping[m].content
    BY <1>2, <1>6, WhileCurrent
  <2>3. Promise!Close(k, "restored")
    BY <1>1, <1>2, <1>3, <1>4, <2>1 DEF Promise!Close, Promise!Move, PhaseMap, HeldMap
  <2>4. Promise!Restore(k)
    BY <1>6, <2>2, <2>3 DEF Promise!Restore, HeldMap, Current
  <2>5. QED
    BY <2>4
<1>7. CASE AlreadyPromoted(k)
  <2>1. PICK m \in Maps(k) : m \in Mappings
    BY MapsType DEF IInv
  <2>2. mapping[m] = [revision |-> op[k].captured[m] + 1, content |-> k]
    BY <1>7 DEF AlreadyPromoted
  <2>3. mapping[m].content = k
    BY <2>2
  <2>4. op[k].lifecycle = "applied"
    BY <2>1, <2>3 DEF Credited, Heard
  <2>5. QED
    BY <2>4 DEF Ends, WorkedOn, Heard, Busy
<1>8. QED
  BY <1>5, <1>6, <1>7 DEF Ends, EndsAs

LEMMA PromiseSettles ==
    ASSUME IInv, Heard, Settles
    PROVE  \E K \in SUBSET Keys : Promise!Interrupt(K)
<1> DEFINE K == {k \in Keys : op[k].lifecycle \in Busy /\ op'[k].lifecycle = "interrupted"}
<1>1. \A k \in K : PhaseMap[k] = "working"
  BY HeldBy
<1>2. \A k \in K : PhaseOf(op'[k]) = "interrupted"
  BY PhaseFacts
<1>3. \A k \in Keys : k \notin K => PhaseOf(op'[k]) = PhaseOf(op[k])
  BY KeptMaps DEF Settles
<1>4. \A k \in Keys : Held(k)' = Held(k)
  BY KeptMaps DEF Settles, Kept
<1>5. K \in SUBSET Keys /\ UNCHANGED <<mapping, relay>>
  BY DEF Settles
<1> HIDE DEF K
<1>6. PhaseMap' = [k \in Keys |-> IF k \in K THEN "interrupted" ELSE PhaseMap[k]]
  BY <1>2, <1>3, <1>5 DEF PhaseMap
<1>7. HeldMap' = HeldMap
  BY <1>4 DEF HeldMap
<1>8. Promise!Interrupt(K)
  BY <1>1, <1>5, <1>6, <1>7 DEF Promise!Interrupt, PhaseMap, HeldMap
<1>9. QED
  BY <1>5, <1>8

LEMMA PromiseStep ==
    ASSUME IInv, Credited, Shape
    PROVE  [Promise!Next]_(Promise!vars)
<1>1. CASE Quiet
  <2>1. UNCHANGED <<PhaseMap, HeldMap, mapping, relay, Heard, Current>>
    BY <1>1, AllMaps DEF Quiet
  <2>2. QED
    BY <2>1 DEF Promise!vars, PhaseMap, HeldMap, Current
<1>2. CASE ~Quiet
  <2>1. (Heard' => Heard) /\ (Current' => Current)
    BY OnceLost
  <2>2. ASSUME Heard' PROVE Promise!Step
    <3>1. CASE \E k \in Keys, m \in Mappings, v \in Values : Writes(k, m, v)
      BY <2>1, <2>2, <3>1, PromiseWrites DEF Promise!Step
    <3>2. CASE \E k \in Keys, l \in Lifecycles : Turns(k, l)
      BY <2>1, <2>2, <3>2, PromiseTurns DEF Promise!Step
    <3>3. CASE \E k \in Keys : Begins(k)
      BY <3>3, PromiseBegins DEF Promise!Step
    <3>4. CASE \E k \in Keys : Ends(k)
      BY <2>1, <2>2, <3>4, PromiseEnds DEF Promise!Step
    <3>5. CASE Settles
      BY <2>1, <2>2, <3>5, PromiseSettles DEF Promise!Step
    <3>6. CASE \E k \in Keys : Unhears(k)
      BY <2>2, <3>6 DEF Unhears, Heard
    <3>7. QED
      BY <1>2, <3>1, <3>2, <3>3, <3>4, <3>5, <3>6 DEF Shape
  <2>3. QED
    BY <2>1, <2>2 DEF Promise!Next, Current
<1>3. QED
  BY <1>1, <1>2

LEMMA PromiseFirst == Init => Promise!Init
<1> SUFFICES ASSUME Init PROVE Promise!Init
  OBVIOUS
<1>1. \A k \in Keys : /\ op[k].lifecycle = "none" /\ ~op[k].owns /\ ~op[k].lost /\ op[k].fresh
  BY DEF Init, Unwritten
<1>2. PhaseMap = [k \in Keys |-> "none"] /\ HeldMap = [k \in Keys |-> {}]
  BY <1>1, PhaseFacts DEF PhaseMap, HeldMap, Held, Owns
<1>3. Heard /\ Current
  BY <1>1 DEF Heard, Current
<1>4. QED
  BY <1>2, <1>3 DEF Init, Promise!Init, PhaseMap, HeldMap, Current

(* Executions, interruptions, recoveries and starts together do what         *)
(* Relationship Operations promise: Mappings are taken together and held to  *)
(* the end, only their holder writes to the Relay, all baselines of an       *)
(* Operation are promoted by the step that lets them go, and what is let go  *)
(* is as its baseline says.                                                  *)
THEOREM KeepsThePromise == Spec => ImplementsPromise
<1>1. Init => Credited /\ Promise!Init
  BY CreditedFirst, PromiseFirst
<1>2. IInv /\ Credited /\ [Next]_vars => Credited' /\ [Promise!Next]_(Promise!vars)
  BY NextShape, CreditedStays, PromiseStep
<1>3. QED
  BY <1>1, <1>2, Invariant, PTL DEF Spec, ImplementsPromise, Promise!Spec

=============================================================================
