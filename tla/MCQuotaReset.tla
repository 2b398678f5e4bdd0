---------------------------- MODULE MCQuotaReset ----------------------------
(***************************************************************************)
(* Small instances of QuotaReset for TLC.                                  *)
(***************************************************************************)
EXTENDS QuotaReset, TLC

CONSTANTS alice, bob, root,   \* root is the administrator
          r1, r2, h1, h2, h3,
          seven, padded, junk  \* group ids: "7", "07" and no number

(* An approval of step 1 by bob settles step 2 as well, one by the           *)
(* administrator does not; the second route needs the administrator.         *)
NestedRoutes == { <<{alice, bob}, {bob}, {root}>>, <<{bob}, {}>> }
OneRoute == { <<{alice, bob}>> }

(* Two of the texts are the same group at the Relay.                         *)
Spelled == [g \in GroupIds |-> IF g = junk THEN 0 ELSE 7]

(* The loop of Decide as it is written: one later step at a time.            *)
RECURSIVE SkipSatisfied(_, _)
SkipSatisfied(steps, j) ==
    LET prior == PriorApprovingSteps(steps, j) IN
    IF j > Len(steps) THEN [steps |-> steps, cur |-> j]
    ELSE IF prior = {} THEN [steps |-> [steps EXCEPT ![j].state = "active"], cur |-> j]
    ELSE SkipSatisfied([steps EXCEPT ![j].state = "satisfied_by_prior_approval",
                                     ![j].satisfiedBy = Least(prior)], j + 1)

(* The documents that n decisions of any kind make of w.                     *)
RECURSIVE After(_, _, _)
After(w, requester, n) ==
    IF n = 0 THEN {w}
    ELSE {w} \cup UNION {After(Decide(w, d.actor, d.admin, d.approve), requester, n - 1) :
                          d \in {e \in [actor : Users, admin : BOOLEAN, approve : BOOLEAN] :
                                   MayDecide(w, requester, e.actor, e.admin)}}

(* ApproveStep settles the later steps as the loop does, on every document   *)
(* of every route of at most three steps over alice and the administrator.   *)
ASSUME ApproveIsLoop ==
    \A route \in UNION {[1..n -> SUBSET {alice, root}] : n \in 0..3} :
    \A w \in After(ResolveWorkflow(route, alice), alice, 2) :
    \A actor \in {alice, root}, admin \in BOOLEAN :
        MayDecide(w, alice, actor, admin) =>
            ApproveStep(w, actor, admin)
              = SkipSatisfied(RecordDecision(w, actor, admin, "approved"), w.cur + 1)

HandlerSymmetry == Permutations(Handlers)
=============================================================================
