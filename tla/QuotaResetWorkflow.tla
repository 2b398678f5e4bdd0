------------------------- MODULE QuotaResetWorkflow -------------------------
(***************************************************************************)
(* The multi-stage approval document of a quota reset request:             *)
(* backend/internal/quotareset/workflow.go and the routing step of         *)
(* resolver.go that builds its first version.                              *)
(*                                                                         *)
(* A workflow is [steps, cur]; steps are numbered from 1, cur is the active *)
(* step, and cur = Len(steps) + 1 is the code's CurrentStep = len(Steps).  *)
(* Names, labels and comments are left out.                                *)
(***************************************************************************)
EXTENDS Naturals, Sequences, FiniteSets

CONSTANTS Users,     \* local user ids
          NoUser     \* the value of an optional user id that is not set

ASSUME NoUserAssumption == NoUser \notin Users

StepStates == {"queued", "active", "approved", "satisfied_by_prior_approval", "rejected"}

(* decidedBy is the actor of Decision (NoUser: no decision); satisfiedBy is  *)
(* SatisfiedByStep, 0 when it is not set.                                    *)
Step == [approvers : SUBSET Users, state : StepStates,
         decidedBy : Users \cup {NoUser}, byAdmin : BOOLEAN, satisfiedBy : Nat]

Workflow == [steps : Seq(Step), cur : Nat \ {0}]

(* AdminFallback: the resolver sets it exactly on the steps with no usable   *)
(* approver, which only an administrator can then decide.                    *)
AdminFallback(step) == step.approvers = {}

(* ResolveWorkflow: a route is the sequence of the merged approver sets of   *)
(* the departments; the requester is excluded from each, an empty route      *)
(* becomes one admin-fallback step, and the first step is active.            *)
NewStep(approvers, state) ==
    [approvers |-> approvers, state |-> state, decidedBy |-> NoUser,
     byAdmin |-> FALSE, satisfiedBy |-> 0]

ResolveWorkflow(route, requester) ==
    LET merged == IF route = <<>> THEN << {} >> ELSE route
    IN [steps |-> [i \in 1..Len(merged) |->
                      NewStep(merged[i] \ {requester},
                              IF i = 1 THEN "active" ELSE "queued")],
        cur |-> 1]

Terminal(w) == w.cur > Len(w.steps)

(* ActiveApproverUserIDs                                                     *)
ActiveApprovers(w) == IF Terminal(w) THEN {} ELSE w.steps[w.cur].approvers

(* Mutant: candidates are not looked up.                                     *)
AnyoneMayDecide(w, requester, actor, admin) == ~ Terminal(w) /\ (admin \/ actor # requester)

(* priorApprovingStepFor: the steps before j that were approved by hand by a *)
(* candidate of step j; the code takes the first.                            *)
PriorApprovingSteps(steps, j) ==
    {i \in 1..(j - 1) : /\ steps[i].state = "approved"
                        /\ steps[i].decidedBy \in steps[j].approvers}

Least(S) == CHOOSE x \in S : \A y \in S : x <= y

(* The early returns of Decide: the active step has not been passed, a       *)
(* non-administrator is not the requester and is a candidate of the step.    *)
MayDecide(w, requester, actor, admin) ==
    /\ ~ Terminal(w)
    /\ admin \/ (actor # requester /\ actor \in w.steps[w.cur].approvers)

RecordDecision(w, actor, admin, state) ==
    [w.steps EXCEPT ![w.cur].state = state,
                    ![w.cur].decidedBy = actor,
                    ![w.cur].byAdmin = admin]

RejectStep(w, actor, admin) ==
    [steps |-> RecordDecision(w, actor, admin, "rejected"),
     cur |-> Len(w.steps) + 1]

(* The loop over the later steps: skip the steps a prior approval satisfies, *)
(* stop at the first one it does not and activate it.                        *)
ApproveStep(w, actor, admin) ==
    LET decided == RecordDecision(w, actor, admin, "approved")
        later   == (w.cur + 1)..Len(decided)
        open    == {j \in later : PriorApprovingSteps(decided, j) = {}}
        next    == IF open = {} THEN Len(decided) + 1 ELSE Least(open)
        Settle(j) ==
            IF j \in later /\ j < next
            THEN [decided[j] EXCEPT !.state = "satisfied_by_prior_approval",
                                    !.satisfiedBy = Least(PriorApprovingSteps(decided, j))]
            ELSE IF j = next THEN [decided[j] EXCEPT !.state = "active"]
            ELSE decided[j]
    IN [steps |-> [j \in 1..Len(decided) |-> Settle(j)], cur |-> next]

Decide(w, actor, admin, approve) ==
    IF approve THEN ApproveStep(w, actor, admin) ELSE RejectStep(w, actor, admin)

(* validate: what EncodeWorkflow and DecodeWorkflow demand of a document.    *)
ValidWorkflow(w) ==
    /\ Len(w.steps) > 0
    /\ w.cur \in 1..(Len(w.steps) + 1)
    /\ \A i \in 1..Len(w.steps) : w.steps[i].satisfiedBy < i
    /\ {i \in 1..Len(w.steps) : w.steps[i].state = "active"}
         = IF Terminal(w) THEN {} ELSE {w.cur}

(***************************************************************************)
(* What the document promises.                                             *)
(***************************************************************************)

(* A step settled by hand was settled by an administrator or by one of its   *)
(* own candidates, and that candidate is not the requester.                  *)
LawfulDecision(step, requester) ==
    step.decidedBy # NoUser =>
        step.byAdmin \/ (step.decidedBy \in step.approvers /\ step.decidedBy # requester)

(* A step that was skipped names an earlier step that one of its candidates  *)
(* approved by hand.                                                         *)
LawfulSkip(steps, j) ==
    steps[j].state = "satisfied_by_prior_approval" =>
        LET i == steps[j].satisfiedBy
        IN i \in 1..(j - 1) /\ steps[i].state = "approved" /\ steps[i].decidedBy \in steps[j].approvers

(* Who approved a step by hand is not a candidate of the active step.        *)
NobodyAskedTwice(steps) ==
    \A j \in 1..Len(steps) : steps[j].state = "active" => PriorApprovingSteps(steps, j) = {}

(* Every step is approved by hand or lawfully skipped: what a final approval *)
(* must have behind it.                                                      *)
FullyApproved(w) ==
    \A j \in 1..Len(w.steps) :
        w.steps[j].state \in {"approved", "satisfied_by_prior_approval"}

(* The steps that were approved by hand.                                     *)
ApprovedSteps(w) == {j \in 1..Len(w.steps) : w.steps[j].state = "approved"}

(* An open document: every step before the active one is settled, and        *)
(* nothing is decided about it or a later one.                               *)
InOrder(w) ==
    ~ Terminal(w) => \A j \in 1..Len(w.steps) :
        /\ j < w.cur => w.steps[j].state \in {"approved", "satisfied_by_prior_approval"}
        /\ j >= w.cur => w.steps[j].decidedBy = NoUser
        /\ j > w.cur => w.steps[j].state = "queued"

(* What every decision keeps: the promises of a document, and its order.     *)
DocOK(w, requester) ==
    /\ ValidWorkflow(w)
    /\ \A j \in 1..Len(w.steps) : LawfulDecision(w.steps[j], requester) /\ LawfulSkip(w.steps, j)
    /\ NobodyAskedTwice(w.steps)
    /\ InOrder(w)
=============================================================================
