-------------------------- MODULE QuotaResetProofs --------------------------
(***************************************************************************)
(* Proofs about QuotaReset, for every set of users, routes, requests and   *)
(* handlers, the last of them that it implements QuotaResetLifecycle.      *)
(***************************************************************************)
EXTENDS QuotaReset, TLAPS, WellFoundedInduction, SequenceTheorems, FiniteSetTheorems

-----------------------------------------------------------------------------
(* The operators of the workflow document.                                   *)

Below == {ss \in Nat \X Nat : ss[1] < ss[2]}

(* A set of numbers that is not empty has a least element, which is the one  *)
(* Least returns.                                                            *)
LEMMA LeastIsLeast ==
    ASSUME NEW S \in SUBSET Nat, S # {}
    PROVE  Least(S) \in S /\ \A y \in S : Least(S) <= y
<1>1. IsWellFoundedOn(Below, Nat)
  BY NatLessThanWellFounded, Zenon DEF OpToRel, Below
<1>2. PICK x \in S : \A y \in S : ~ (<<y, x>> \in Below)
  BY <1>1, WFMin, Zenon
<1>3. \A y \in S : y < x => <<y, x>> \in Below
  BY DEF Below
<1>4. \A y \in S : ~ (y < x)
  BY <1>2, <1>3, Zenon
<1>5. \A y \in S : y \in Nat /\ x \in Nat
  OBVIOUS
<1>6. \A y \in S : x <= y
  BY <1>4, <1>5
<1>7. QED
  BY <1>6, Zenon DEF Least

LEMMA ResolveWorkflowType ==
    ASSUME NEW route \in Seq(SUBSET Users), NEW u \in Users
    PROVE  ResolveWorkflow(route, u) \in Workflow
<1> DEFINE merged == IF route = <<>> THEN << {} >> ELSE route
           NewAt(i) == NewStep(merged[i] \ {u}, IF i = 1 THEN "active" ELSE "queued")
           steps  == [i \in 1..Len(merged) |-> NewAt(i)]
<1>1. merged \in Seq(SUBSET Users) /\ Len(merged) \in Nat
  <2>1. CASE route = <<>>
    <3>1. ASSUME NEW none \in SUBSET Users
          PROVE  << none >> \in Seq(SUBSET Users) /\ Len(<< none >>) \in Nat
      OBVIOUS
    <3>2. merged = << {} >>
      BY <2>1
    <3> HIDE DEF merged
    <3>3. QED
      BY <3>1, <3>2
  <2>2. CASE route # <<>>
    BY <2>2
  <2> QED
    BY <2>1, <2>2
<1> HIDE DEF merged
<1>2. \A i \in 1..Len(merged) : NewAt(i) \in Step
  <2> SUFFICES ASSUME NEW i \in 1..Len(merged)
               PROVE  NewAt(i) \in Step
    OBVIOUS
  <2>1. merged[i] \in SUBSET Users
    BY <1>1
  <2>2. QED
    BY <2>1 DEF Step, NewStep, StepStates
<1>3. ResolveWorkflow(route, u) = [steps |-> steps, cur |-> 1]
  BY Zenon DEF ResolveWorkflow, merged
<1> HIDE DEF NewAt
<1>4. steps \in Seq(Step)
  BY <1>1, <1>2
<1> HIDE DEF steps
<1>5. QED
  BY <1>3, <1>4 DEF Workflow

LEMMA ActiveApproversType ==
    ASSUME NEW w \in Workflow
    PROVE  ActiveApprovers(w) \in SUBSET Users
<1>1. w.steps \in Seq(Step) /\ Len(w.steps) \in Nat /\ w.cur \in Nat \ {0}
  BY DEF Workflow
<1>2. CASE Terminal(w)
  BY <1>2 DEF ActiveApprovers
<1>3. CASE ~ Terminal(w)
  <2>1. w.cur \in 1..Len(w.steps)
    BY <1>1, <1>3 DEF Terminal
  <2>2. w.steps[w.cur] \in Step
    BY <1>1, <2>1
  <2>3. QED
    BY <1>3, <2>2 DEF ActiveApprovers, Step
<1>4. QED
  BY <1>2, <1>3

LEMMA RecordDecisionType ==
    ASSUME NEW w \in Workflow, NEW actor \in Users \cup {NoUser},
           NEW admin \in BOOLEAN, NEW state \in StepStates
    PROVE  /\ RecordDecision(w, actor, admin, state) \in Seq(Step)
           /\ Len(RecordDecision(w, actor, admin, state)) = Len(w.steps)
<1> DEFINE old == w.steps
           new == RecordDecision(w, actor, admin, state)
           Entry(j) == IF j = w.cur
                       THEN [old[j] EXCEPT !.state = state, !.decidedBy = actor, !.byAdmin = admin]
                       ELSE old[j]
<1>1. old \in Seq(Step) /\ w.cur \in Nat /\ Len(old) \in Nat /\ DOMAIN old = 1..Len(old)
  BY DEF Workflow
<1>2. new = [j \in DOMAIN old |-> Entry(j)]
  BY <1>1 DEF RecordDecision
<1>3. \A j \in 1..Len(old) : Entry(j) \in Step
  <2> SUFFICES ASSUME NEW j \in 1..Len(old)
               PROVE  Entry(j) \in Step
    OBVIOUS
  <2>1. old[j] \in Step
    BY <1>1
  <2> HIDE DEF old
  <2>2. QED
    BY <2>1 DEF Step
<1> HIDE DEF new, Entry, old
<1>4. new = [j \in 1..Len(old) |-> Entry(j)]
  BY <1>1, <1>2
<1>5. new \in Seq(Step) /\ Len(new) = Len(old)
  BY <1>1, <1>3, <1>4
<1>6. QED
  BY <1>5 DEF new, old

(* Decide returns a document again, for any actor and any document.          *)
LEMMA DecideType ==
    ASSUME NEW w \in Workflow, NEW actor \in Users \cup {NoUser},
           NEW admin \in BOOLEAN, NEW approve \in BOOLEAN
    PROVE  Decide(w, actor, admin, approve) \in Workflow
<1>1. CASE ~ approve
  <2>1. RecordDecision(w, actor, admin, "rejected") \in Seq(Step)
    BY RecordDecisionType DEF StepStates
  <2>2. Len(w.steps) \in Nat
    BY DEF Workflow
  <2>3. QED
    BY <1>1, <2>1, <2>2 DEF Decide, RejectStep, Workflow
<1>2. CASE approve
  <2> DEFINE decided == RecordDecision(w, actor, admin, "approved")
             later   == (w.cur + 1)..Len(decided)
             open    == {j \in later : PriorApprovingSteps(decided, j) = {}}
             next    == IF open = {} THEN Len(decided) + 1 ELSE Least(open)
             Settle(j) ==
                IF j \in later /\ j < next
                THEN [decided[j] EXCEPT !.state = "satisfied_by_prior_approval",
                                        !.satisfiedBy = Least(PriorApprovingSteps(decided, j))]
                ELSE IF j = next THEN [decided[j] EXCEPT !.state = "active"]
                ELSE decided[j]
  <2>1. ApproveStep(w, actor, admin)
          = [steps |-> [j \in 1..Len(decided) |-> Settle(j)], cur |-> next]
    BY Zenon DEF ApproveStep
  <2>2. decided \in Seq(Step) /\ Len(decided) \in Nat /\ w.cur \in Nat \ {0}
    BY RecordDecisionType DEF StepStates, Workflow
  <2> HIDE DEF decided
  <2>3. open \in SUBSET Nat
    BY <2>2
  <2>4. next \in Nat \ {0}
    <3>1. CASE open = {}
      BY <3>1, <2>2
    <3>2. CASE open # {}
      <4>1. Least(open) \in open
        BY <3>2, <2>3, LeastIsLeast
      <4>2. \A j \in open : j \in Nat \ {0}
        BY <2>2
      <4>3. QED
        BY <3>2, <4>1, <4>2
    <3> QED
      BY <3>1, <3>2
  <2>5. \A j \in later : j < next => Least(PriorApprovingSteps(decided, j)) \in Nat
    <3> SUFFICES ASSUME NEW j \in later, j < next
                 PROVE  Least(PriorApprovingSteps(decided, j)) \in Nat
      OBVIOUS
    <3>1. ASSUME j \in open
          PROVE  FALSE
      <4>1. open # {} /\ next = Least(open)
        BY <3>1
      <4>2. Least(open) <= j
        BY <3>1, <4>1, <2>3, LeastIsLeast
      <4>3. j \in Nat
        BY <2>2
      <4> HIDE DEF next, open
      <4>4. QED
        BY <4>1, <4>2, <4>3, <2>4
    <3>2. PriorApprovingSteps(decided, j) # {}
      BY <3>1
    <3>3. PriorApprovingSteps(decided, j) \in SUBSET Nat
      BY <2>2 DEF PriorApprovingSteps
    <3>4. QED
      BY <3>2, <3>3, LeastIsLeast
  <2>6. \A j \in 1..Len(decided) : Settle(j) \in Step
    <3> SUFFICES ASSUME NEW j \in 1..Len(decided)
                 PROVE  Settle(j) \in Step
      OBVIOUS
    <3> HIDE DEF next, later
    <3>1. decided[j] \in Step
      BY <2>2
    <3>2. CASE j \in later /\ j < next
      BY <3>1, <3>2, <2>5 DEF Step, StepStates
    <3>3. CASE ~ (j \in later /\ j < next)
      BY <3>1, <3>3 DEF Step, StepStates
    <3> QED
      BY <3>2, <3>3
  <2> HIDE DEF Settle, next
  <2>7. [j \in 1..Len(decided) |-> Settle(j)] \in Seq(Step)
    BY <2>2, <2>6, IsASeq
  <2>8. QED
    BY <1>2, <2>1, <2>4, <2>7 DEF Decide, Workflow
<1>3. QED
  BY <1>1, <1>2
-----------------------------------------------------------------------------
(* The type invariant.                                                       *)

LEMMA ConstantTypes ==
    /\ NoWorkflow \in Workflow
    /\ NoRow \in Row
    /\ Idle \in Handler
    /\ \A u \in Users, g \in GroupIds, A \in SUBSET Users : LegacyRow(u, g, A) \in Row
<1>1. NoWorkflow \in Workflow
  <2>1. <<>> \in Seq(Step)
    OBVIOUS
  <2>2. QED
    BY <2>1 DEF NoWorkflow, Workflow
<1>2. (CHOOSE g \in GroupIds : TRUE) \in GroupIds /\ (CHOOSE r \in Requests : TRUE) \in Requests
  BY QuotaResetAssumption
<1>3. NoRow \in Row
  BY <1>1, <1>2 DEF NoRow, Row, Statuses
<1>4. Idle \in Handler
  BY <1>2, <1>3 DEF Idle, Handler, Pcs, Ops
<1>5. \A u \in Users, g \in GroupIds, A \in SUBSET Users : LegacyRow(u, g, A) \in Row
  BY <1>3 DEF LegacyRow, Row, Statuses
<1>6. QED
  BY <1>1, <1>3, <1>4, <1>5

(* The moves of a handler stay in its type.                                  *)
LEMMA HandlerMoves ==
    ASSUME TypeOK, NEW h \in Handlers
    PROVE  /\ Return(h) => hdl' \in [Handlers -> Handler]
           /\ \A pc \in Pcs : Goto(h, pc) => hdl' \in [Handlers -> Handler]
           /\ AfterFailedStart(h) => hdl' \in [Handlers -> Handler]
<1>1. hdl \in [Handlers -> Handler] /\ Idle \in Handler
  BY ConstantTypes DEF TypeOK
<1>2. \A pc \in Pcs : [hdl[h] EXCEPT !.pc = pc] \in Handler
  BY <1>1 DEF Handler
<1>3. Return(h) => hdl' \in [Handlers -> Handler]
  BY <1>1 DEF Return
<1>4. \A pc \in Pcs : Goto(h, pc) => hdl' = [hdl EXCEPT ![h] = [hdl[h] EXCEPT !.pc = pc]]
  BY <1>1 DEF Goto
<1>5. \A pc \in Pcs : Goto(h, pc) => hdl' \in [Handlers -> Handler]
  BY <1>1, <1>2, <1>4
<1>6. AfterFailedStart(h) => hdl' \in [Handlers -> Handler]
  <2>1. "store_failure" \in Pcs
    BY DEF Pcs
  <2>2. QED
    BY <2>1, <1>3, <1>5 DEF AfterFailedStart
<1>7. QED
  BY <1>3, <1>5, <1>6

(* An audit entry stays in the type of the counts.                           *)
LEMMA LogType ==
    ASSUME TypeOK, NEW r \in Requests, NEW types, Log(r, types)
    PROVE  events' \in [Requests -> [EventTypes -> Nat]]
<1>1. events[r] \in [EventTypes -> Nat]
  BY DEF TypeOK
<1>2. [t \in EventTypes |-> IF t \in types THEN events[r][t] + 1 ELSE events[r][t]]
        \in [EventTypes -> Nat]
  BY <1>1
<1>3. QED
  BY <1>2 DEF Log, TypeOK

(* The row a closing decision writes.                                        *)
LEMMA ClosedType ==
    ASSUME NEW rec \in Row, NEW op, NEW actor \in Users \cup {NoUser}
    PROVE  Closed(rec, op, actor) \in Row
BY DEF Closed, Row, Statuses

LEMMA TypeInit == Init => TypeOK
<1> SUFFICES ASSUME Init
             PROVE  TypeOK
  OBVIOUS
<1>1. row \in [Requests -> Row]
  BY ConstantTypes DEF Init
<1>2. events \in [Requests -> [EventTypes -> Nat]]
  BY DEF Init
<1>3. hdl \in [Handlers -> Handler]
  BY ConstantTypes DEF Init
<1>4. QED
  BY <1>1, <1>2, <1>3 DEF Init, TypeOK

LEMMA TypeCall ==
    ASSUME TypeOK, NEW h \in Handlers, Call(h)
    PROVE  TypeOK'
<1> USE DEF TypeOK
<1>1. ASSUME NEW u \in Users, NEW g \in GroupIds, NEW route \in Routes, CreateCheck(h, u, g, route)
      PROVE  TypeOK'
  <2> DEFINE new == [status |-> "workflow_pending", version |-> 2, requester |-> u,
                     group |-> g, workflow |-> ResolveWorkflow(route, u), revision |-> 0,
                     resolved |-> ActiveApprovers(ResolveWorkflow(route, u)), approvedBy |-> NoUser]
  <2>1. ResolveWorkflow(route, u) \in Workflow
    BY ResolveWorkflowType, QuotaResetAssumption
  <2>2. ActiveApprovers(ResolveWorkflow(route, u)) \in SUBSET Users
    BY <2>1, ActiveApproversType
  <2>3. new \in Row
    BY <2>1, <2>2 DEF Row, Statuses
  <2>4. hdl' = [hdl EXCEPT ![h] = Begin("insert", "create", hdl[h].req, u, FALSE, new)]
    BY <1>1 DEF CreateCheck
  <2> HIDE DEF new
  <2>5. Begin("insert", "create", hdl[h].req, u, FALSE, new) \in Handler
    BY <2>3 DEF Begin, Handler, Pcs, Ops
  <2>6. QED
    BY <1>1, <2>4, <2>5 DEF CreateCheck
<1>2. ASSUME NEW u \in Users, NEW r \in Requests, CancelLoad(h, u, r)
      PROVE  TypeOK'
  <2>1. Begin("cancel", "cancel", r, u, FALSE, row[r]) \in Handler
    BY DEF Begin, Handler, Pcs, Ops
  <2>2. QED
    BY <1>2, <2>1 DEF CancelLoad
<1>3. ASSUME NEW u \in Users, NEW r \in Requests, NEW admin \in CallerIsAdmin(u),
             NEW op \in {"approve", "reject"}, DecideLoad(h, op, u, admin, r)
      PROVE  TypeOK'
  <2>1. Begin("decide", op, r, u, admin, row[r]) \in Handler
    BY DEF Begin, Handler, Pcs, Ops, CallerIsAdmin
  <2>2. QED
    BY <1>3, <2>1 DEF DecideLoad
<1>4. ASSUME NEW u \in Users, NEW r \in Requests, NEW admin \in CallerIsAdmin(u),
             RetryLoad(h, u, admin, r)
      PROVE  TypeOK'
  <2>1. Begin("reread", "retry", r, u, admin, row[r]) \in Handler
    BY DEF Begin, Handler, Pcs, Ops, CallerIsAdmin
  <2>2. QED
    BY <1>4, <2>1 DEF RetryLoad
<1>5. QED
  BY <1>1, <1>2, <1>3, <1>4 DEF Call

LEMMA TypeProceed ==
    ASSUME TypeOK, NEW h \in Handlers, Proceed(h)
    PROVE  TypeOK'
<1> DEFINE r0 == hdl[h].req
<1>a. /\ hdl[h] \in Handler /\ hdl[h].snap \in Row /\ r0 \in Requests /\ row[r0] \in Row
      /\ hdl[h].actor \in Users \cup {NoUser} /\ hdl[h].admin \in BOOLEAN
      /\ hdl[h].snap.workflow \in Workflow /\ hdl[h].snap.revision \in Nat
  <2>1. hdl[h] \in Handler
    BY DEF TypeOK
  <2>2. hdl[h].snap \in Row /\ r0 \in Requests /\ hdl[h].actor \in Users \cup {NoUser} /\ hdl[h].admin \in BOOLEAN
    BY <2>1 DEF Handler
  <2>3. QED
    BY <2>1, <2>2 DEF TypeOK, Row
<1>b. \A s \in Statuses : [row[r0] EXCEPT !.status = s] \in Row
  BY <1>a DEF Row
<1>c. \A s \in Statuses : row' = [row EXCEPT ![r0].status = s] => row' \in [Requests -> Row]
  <2> SUFFICES ASSUME NEW s \in Statuses, row' = [row EXCEPT ![r0].status = s]
               PROVE  row' \in [Requests -> Row]
    OBVIOUS
  <2>1. row' = [row EXCEPT ![r0] = [row[r0] EXCEPT !.status = s]]
    BY <1>a DEF TypeOK
  <2>2. QED
    BY <2>1, <1>a, <1>b DEF TypeOK
<1> HIDE DEF r0
<1>1. ASSUME NEW r \in Requests, CreateInsert(h, r)
      PROVE  TypeOK'
  BY <1>1, <1>a, LogType, HandlerMoves DEF CreateInsert, TypeOK, InvalidateWorkItemCounts
<1>2. ASSUME CreateDuplicate(h) \/ LoseRace(h)
      PROVE  TypeOK'
  BY <1>2, HandlerMoves DEF CreateDuplicate, LoseRace, TypeOK
<1>3. ASSUME CancelCommit(h)
      PROVE  TypeOK'
  <2>1. row' \in [Requests -> Row]
    BY <1>3, <1>c DEF CancelCommit, Statuses, r0
  <2>2. events' \in [Requests -> [EventTypes -> Nat]]
    BY <1>3, <1>a, LogType DEF CancelCommit, r0
  <2>3. QED
    BY <1>3, <2>1, <2>2, HandlerMoves DEF CancelCommit, TypeOK, InvalidateWorkItemCounts
<1>4. ASSUME DecideLegacyCommit(h)
      PROVE  TypeOK'
  <2>1. row' \in [Requests -> Row]
    BY <1>4, <1>a, ClosedType DEF DecideLegacyCommit, TypeOK, r0
  <2>2. events' \in [Requests -> [EventTypes -> Nat]]
    BY <1>4, <1>a, LogType DEF DecideLegacyCommit, r0
  <2>3. hdl' \in [Handlers -> Handler]
    BY <1>4, HandlerMoves DEF DecideLegacyCommit, Pcs
  <2>4. QED
    BY <1>4, <2>1, <2>2, <2>3 DEF DecideLegacyCommit, TypeOK, InvalidateWorkItemCounts
<1>5. ASSUME DecideWorkflowCommit(h)
      PROVE  TypeOK'
  <2> DEFINE w     == Decide(hdl[h].snap.workflow, hdl[h].actor, hdl[h].admin, hdl[h].op = "approve")
             moved == [row[r0] EXCEPT !.workflow = w,
                                      !.revision = hdl[h].snap.revision + 1,
                                      !.resolved = ActiveApprovers(w)]
             new   == IF Terminal(w) THEN Closed(moved, hdl[h].op, hdl[h].actor) ELSE moved
  <2>1. w \in Workflow
    BY <1>a, DecideType
  <2>2. ActiveApprovers(w) \in SUBSET Users
    BY <2>1, ActiveApproversType
  <2>3. row' = [row EXCEPT ![r0] = new]
    BY <1>5 DEF DecideWorkflowCommit, r0
  <2> HIDE DEF w
  <2>4. moved \in Row
    <3>1. hdl[h].snap.revision + 1 \in Nat
      BY <1>a
    <3>2. ASSUME NEW rec \in Row, NEW n \in Nat, NEW A \in SUBSET Users
          PROVE  [rec EXCEPT !.workflow = w, !.revision = n, !.resolved = A] \in Row
      BY <2>1 DEF Row
    <3>3. QED
      BY <2>2, <3>1, <3>2, <1>a
  <2> HIDE DEF moved
  <2>5. new \in Row
    BY <2>4, <1>a, ClosedType
  <2> HIDE DEF new
  <2>6. row' \in [Requests -> Row]
    BY <2>3, <2>5, <1>a DEF TypeOK
  <2>7. events' \in [Requests -> [EventTypes -> Nat]]
    BY <1>5, <1>a, LogType DEF DecideWorkflowCommit, r0
  <2>8. hdl' \in [Handlers -> Handler]
    BY <1>5, HandlerMoves DEF DecideWorkflowCommit, Pcs
  <2>9. UNCHANGED <<calls, resets>> /\ wiRev' = wiRev + 1
    BY <1>5, Zenon DEF DecideWorkflowCommit, InvalidateWorkItemCounts
  <2>10. QED
    BY <2>6, <2>7, <2>8, <2>9 DEF TypeOK
<1>6. ASSUME Reread(h) \/ StartLost(h) \/ ResolveProvider(h)
      PROVE  TypeOK'
  <2>1. hdl' \in [Handlers -> Handler]
    BY <1>6, HandlerMoves DEF Reread, StartLost, ResolveProvider, Pcs
  <2>2. QED
    BY <1>6, <2>1 DEF Reread, StartLost, ResolveProvider, TypeOK
<1>7. ASSUME StartReset(h)
      PROVE  TypeOK'
  <2>1. row' \in [Requests -> Row]
    BY <1>7, <1>c DEF StartReset, Statuses, r0
  <2>2. events' \in [Requests -> [EventTypes -> Nat]]
    BY <1>7, <1>a, LogType DEF StartReset, r0
  <2>3. hdl' \in [Handlers -> Handler]
    BY <1>7, HandlerMoves DEF StartReset, Pcs
  <2>4. wiRev' \in Nat
    BY <1>7 DEF StartReset, InvalidateWorkItemCounts, TypeOK
  <2>5. QED
    BY <1>7, <2>1, <2>2, <2>3, <2>4 DEF StartReset, TypeOK
<1>8. ASSUME CallRelay(h)
      PROVE  TypeOK'
  <2>1. hdl' \in [Handlers -> Handler]
    BY <1>8, HandlerMoves DEF CallRelay, Pcs
  <2>2. calls' \in [Requests -> Nat] /\ resets' \in [Requests -> Nat]
    BY <1>8, <1>a DEF CallRelay, TypeOK, r0
  <2>3. QED
    BY <1>8, <2>1, <2>2 DEF CallRelay, TypeOK
<1>9. ASSUME NEW to \in Statuses, NEW type, Finalize(h, to, type)
      PROVE  TypeOK'
  <2>1. row' \in [Requests -> Row]
    BY <1>9, <1>c DEF Finalize, r0, TypeOK
  <2>2. events' \in [Requests -> [EventTypes -> Nat]]
    BY <1>9, <1>a, LogType DEF Finalize, r0, TypeOK
  <2>3. wiRev' \in Nat
    BY <1>9 DEF Finalize, InvalidateWorkItemCounts, TypeOK
  <2>4. QED
    BY <1>9, <2>1, <2>2, <2>3, HandlerMoves DEF Finalize, TypeOK
<1>10. ASSUME StoreSuccess(h) \/ StoreFailure(h)
       PROVE  TypeOK'
  BY <1>9, <1>10 DEF StoreSuccess, StoreFailure, Statuses
<1>11. QED
  BY <1>1, <1>2, <1>3, <1>4, <1>5, <1>6, <1>7, <1>8, <1>10 DEF Proceed

LEMMA TypeStep == TypeOK /\ [Next]_vars => TypeOK'
<1> SUFFICES ASSUME TypeOK, [Next]_vars
             PROVE  TypeOK'
  OBVIOUS
<1>1. ASSUME NEW h \in Handlers, TxFails(h) \/ Crash(h)
      PROVE  TypeOK'
  BY <1>1, HandlerMoves DEF TxFails, Crash, TypeOK
<1>2. CASE UNCHANGED vars
  BY <1>2 DEF vars, TypeOK
<1>3. QED
  BY <1>1, <1>2, TypeCall, TypeProceed DEF Next

(* Every reachable state is well typed.                                      *)
THEOREM TypeCorrect == Spec => []TypeOK
BY TypeInit, TypeStep, PTL DEF Spec
-----------------------------------------------------------------------------
(* The inductive invariant.                                                  *)

(* A rejection closes the document.                                          *)
LEMMA RejectIsTerminal ==
    ASSUME NEW w \in Workflow, NEW actor \in Users \cup {NoUser}, NEW admin \in BOOLEAN
    PROVE  Terminal(Decide(w, actor, admin, FALSE))
<1>1. Len(RecordDecision(w, actor, admin, "rejected")) = Len(w.steps)
  BY RecordDecisionType DEF StepStates
<1>2. Len(w.steps) \in Nat
  BY DEF Workflow
<1>3. QED
  BY <1>1, <1>2 DEF Decide, RejectStep, Terminal

(* One handler moves to x and one request to status s, counts e, c and t:    *)
(* the invariants hold after the step when x and the request are in order,   *)
(* nobody else executes the request if its status or its call count changes, *)
(* and counts of starts and resets only grow.                                *)
LEMMA StepPreserves ==
    ASSUME IInv, NEW h \in Handlers, NEW r \in Requests,
           NEW x \in Handler, NEW s, NEW e \in [EventTypes -> Nat], NEW c \in Nat, NEW t \in Nat,
           hdl' = [hdl EXCEPT ![h] = x],
           row' \in [Requests -> Row],
           row'[r].status = s,
           \A q \in Requests \ {r} : row'[q].status = row[q].status,
           events' = [events EXCEPT ![r] = e],
           calls' = [calls EXCEPT ![r] = c],
           resets' = [resets EXCEPT ![r] = t],
           AuditOK(s, e, c, t),
           e["reset_started"] >= events[r]["reset_started"],
           t >= resets[r],
           x.pc \notin {"idle", "insert", "cancel", "decide"} => x.req = r,
           HandlerOK(x, e["reset_started"], c, t),
           Executes(x) => s = "approved_resetting",
           \/ \A k \in Handlers \ {h} : Executing(k) => hdl[k].req # r
           \/ s = row[r].status /\ c = calls[r] /\ (Executes(x) => Executing(h) /\ hdl[h].req = r)
    PROVE  ResetExclusive' /\ HandlerInv' /\ AuditInv'
<1> USE DEF IInv
<1>1. hdl \in [Handlers -> Handler] /\ events \in [Requests -> [EventTypes -> Nat]]
      /\ calls \in [Requests -> Nat] /\ resets \in [Requests -> Nat]
  BY DEF TypeOK
<1>2. hdl'[h] = x /\ \A k \in Handlers \ {h} : hdl'[k] = hdl[k]
  BY <1>1
<1>3. /\ events'[r] = e /\ calls'[r] = c /\ resets'[r] = t
      /\ \A q \in Requests \ {r} : events'[q] = events[q] /\ calls'[q] = calls[q] /\ resets'[q] = resets[q]
  BY <1>1
<1>4. AuditInv'
  BY <1>3 DEF AuditInv
<1>5. Executes(x) => x.req = r
  BY DEF Executes
<1>6. ResetExclusive'
  <2> SUFFICES ASSUME NEW k \in Handlers, Executing(k)'
               PROVE  /\ row'[hdl'[k].req].status = "approved_resetting"
                      /\ \A j \in Handlers : Executing(j)' /\ hdl'[j].req = hdl'[k].req => j = k
    BY DEF ResetExclusive
  <2>1. \A j \in Handlers \ {h} : Executing(j)' <=> Executing(j)
    BY <1>2 DEF Executing
  <2>2. Executing(h)' <=> Executes(x)
    BY <1>2 DEF Executing
  <2>3. \A j \in Handlers : hdl[j].req \in Requests
    BY <1>1 DEF Handler
  <2>4. CASE k = h
    <3>1. hdl'[k].req = r /\ row'[r].status = "approved_resetting"
      BY <2>2, <2>4, <1>2, <1>5
    <3>2. \A j \in Handlers \ {h} : Executing(j) => hdl[j].req # r
      <4>1. CASE Executing(h) /\ hdl[h].req = r
        BY <4>1 DEF ResetExclusive
      <4>2. CASE ~ (Executing(h) /\ hdl[h].req = r)
        BY <4>2, <2>2, <2>4
      <4>3. QED
        BY <4>1, <4>2
    <3>3. QED
      BY <3>1, <3>2, <2>1, <2>4, <1>2
  <2>5. CASE k # h
    <3>1. Executing(k) /\ hdl'[k] = hdl[k] /\ row[hdl[k].req].status = "approved_resetting"
      BY <2>1, <2>5, <1>2 DEF ResetExclusive
    <3>2. row'[hdl[k].req].status = "approved_resetting"
      <4>1. CASE hdl[k].req = r
        BY <3>1, <4>1, <2>5
      <4>2. CASE hdl[k].req # r
        BY <3>1, <4>2, <2>3
      <4>3. QED
        BY <4>1, <4>2
    <3>3. \A j \in Handlers \ {h} : Executing(j)' /\ hdl'[j].req = hdl'[k].req => j = k
      BY <3>1, <2>1, <1>2 DEF ResetExclusive
    <3>4. ~ (Executes(x) /\ x.req = hdl[k].req)
      BY <3>1, <1>5, <2>5 DEF ResetExclusive
    <3>5. QED
      BY <3>1, <3>2, <3>3, <3>4, <2>2, <1>2
  <2>6. QED
    BY <2>4, <2>5
<1>7. HandlerInv'
  <2> SUFFICES ASSUME NEW k \in Handlers
               PROVE  HandlerOK(hdl'[k], events'[hdl'[k].req]["reset_started"],
                                calls'[hdl'[k].req], resets'[hdl'[k].req])
    BY DEF HandlerInv
  <2>1. CASE k = h
    <3>1. CASE x.req = r
      BY <3>1, <2>1, <1>2, <1>3
    <3>2. CASE x.req # r
      BY <3>2, <2>1, <1>2 DEF HandlerOK
    <3>3. QED
      BY <3>1, <3>2
  <2>2. CASE k # h
    <3>1. hdl'[k] = hdl[k] /\ hdl[k].req \in Requests
      BY <2>2, <1>1, <1>2 DEF Handler
    <3>2. HandlerOK(hdl[k], events[hdl[k].req]["reset_started"], calls[hdl[k].req], resets[hdl[k].req])
      BY DEF HandlerInv
    <3>3. CASE hdl[k].req # r
      BY <3>1, <3>2, <3>3, <1>3
    <3>4. CASE hdl[k].req = r
      <4>1. hdl[k].pc \in {"resolve", "relay"} => c = calls[r]
        BY <3>4, <2>2 DEF Executing, Executes
      <4>2. /\ e["reset_started"] \in Nat /\ events[r]["reset_started"] \in Nat
            /\ calls[r] \in Nat /\ resets[r] \in Nat
        BY <1>1 DEF EventTypes
      <4>3. QED
        BY <3>1, <3>2, <3>4, <4>1, <4>2, <1>3 DEF HandlerOK
    <3>5. QED
      BY <3>3, <3>4
  <2>3. QED
    BY <2>1, <2>2
<1>8. QED
  BY <1>4, <1>6, <1>7
(* A step that moves only a handler.                                         *)
LEMMA MovePreserves ==
    ASSUME IInv, NEW h \in Handlers, NEW x \in Handler,
           hdl' = [hdl EXCEPT ![h] = x],
           UNCHANGED <<row, events, calls, resets>>,
           HandlerOK(x, events[x.req]["reset_started"], calls[x.req], resets[x.req]),
           Executes(x) => Executing(h) /\ x.req = hdl[h].req
    PROVE  ResetExclusive' /\ HandlerInv' /\ AuditInv'
<1> DEFINE r == x.req
           s == row[r].status
           e == events[r]
           c == calls[r]
           t == resets[r]
<1>1. /\ r \in Requests /\ e \in [EventTypes -> Nat] /\ c \in Nat /\ t \in Nat
      /\ e["reset_started"] \in Nat
  BY DEF IInv, TypeOK, Handler, EventTypes
<1>2. /\ row' \in [Requests -> Row] /\ row'[r].status = s
      /\ \A q \in Requests \ {r} : row'[q].status = row[q].status
  BY DEF IInv, TypeOK
<1>3. events' = [events EXCEPT ![r] = e] /\ calls' = [calls EXCEPT ![r] = c]
      /\ resets' = [resets EXCEPT ![r] = t]
  BY DEF IInv, TypeOK
<1>4. AuditOK(s, e, c, t)
  BY <1>1 DEF IInv, AuditInv
<1>5. Executes(x) => s = "approved_resetting"
  BY DEF IInv, ResetExclusive
<1>6. HandlerOK(x, e["reset_started"], c, t)
  OBVIOUS
<1>7. Executes(x) => Executing(h) /\ hdl[h].req = r
  OBVIOUS
<1>8. e["reset_started"] >= events[r]["reset_started"] /\ t >= resets[r]
  BY <1>1
<1>9. s = row[r].status /\ c = calls[r] /\ x.req = r
  OBVIOUS
<1> HIDE DEF r, s, e, c, t
<1>10. QED
  BY <1>1, <1>2, <1>3, <1>4, <1>5, <1>6, <1>7, <1>8, <1>9, StepPreserves

(* What the proofs about one handler's step start from.                      *)
LEMMA HandlerFacts ==
    ASSUME IInv, NEW h \in Handlers
    PROVE  /\ hdl \in [Handlers -> Handler] /\ hdl[h] \in Handler
           /\ hdl[h].req \in Requests /\ Idle \in Handler
           /\ row \in [Requests -> Row] /\ row[hdl[h].req] \in Row
           /\ events \in [Requests -> [EventTypes -> Nat]]
           /\ \A t \in EventTypes : events[hdl[h].req][t] \in Nat
           /\ calls \in [Requests -> Nat] /\ calls[hdl[h].req] \in Nat
           /\ resets \in [Requests -> Nat] /\ resets[hdl[h].req] \in Nat
           /\ HandlerOK(hdl[h], events[hdl[h].req]["reset_started"], calls[hdl[h].req], resets[hdl[h].req])
           /\ AuditOK(row[hdl[h].req].status, events[hdl[h].req], calls[hdl[h].req], resets[hdl[h].req])
           /\ \A pc \in Pcs : [hdl[h] EXCEPT !.pc = pc] \in Handler
BY ConstantTypes DEF IInv, TypeOK, HandlerInv, AuditInv, Handler

(* A handler that returns, or goes on in an execution, with nothing written. *)
LEMMA ReturnPreserves ==
    ASSUME IInv, NEW h \in Handlers, Return(h), UNCHANGED <<row, events, calls, resets>>
    PROVE  ResetExclusive' /\ HandlerInv' /\ AuditInv'
<1>1. HandlerOK(Idle, events[Idle.req]["reset_started"], calls[Idle.req], resets[Idle.req])
  BY DEF HandlerOK, Idle
<1>2. ~ Executes(Idle)
  BY DEF Executes, Idle
<1>3. QED
  BY <1>1, <1>2, HandlerFacts, MovePreserves DEF Return

LEMMA GotoPreserves ==
    ASSUME IInv, NEW h \in Handlers, NEW pc \in Pcs, Goto(h, pc),
           UNCHANGED <<row, events, calls, resets>>,
           HandlerOK([hdl[h] EXCEPT !.pc = pc], events[hdl[h].req]["reset_started"],
                     calls[hdl[h].req], resets[hdl[h].req]),
           Executes([hdl[h] EXCEPT !.pc = pc]) => Executing(h)
    PROVE  ResetExclusive' /\ HandlerInv' /\ AuditInv'
<1> DEFINE x == [hdl[h] EXCEPT !.pc = pc]
<1>1. x \in Handler /\ x.req = hdl[h].req
  BY HandlerFacts DEF Handler
<1>2. hdl' = [hdl EXCEPT ![h] = x]
  BY HandlerFacts DEF Goto
<1> HIDE DEF x
<1>3. HandlerOK(x, events[x.req]["reset_started"], calls[x.req], resets[x.req])
  BY <1>1 DEF x
<1>4. Executes(x) => Executing(h) /\ x.req = hdl[h].req
  BY <1>1 DEF x
<1>5. QED
  BY <1>1, <1>2, <1>3, <1>4, MovePreserves

LEMMA CallPreserves ==
    ASSUME IInv, NEW h \in Handlers, Call(h)
    PROVE  ResetExclusive' /\ HandlerInv' /\ AuditInv'
<1>a. TypeOK /\ hdl \in [Handlers -> Handler] /\ row \in [Requests -> Row]
  BY DEF IInv, TypeOK
<1>b. hdl' \in [Handlers -> Handler] /\ hdl'[h] \in Handler
  BY <1>a, TypeCall DEF TypeOK
<1>1. ASSUME NEW u \in Users, NEW g \in GroupIds, NEW route \in Routes, CreateCheck(h, u, g, route)
      PROVE  ResetExclusive' /\ HandlerInv' /\ AuditInv'
  <2> DEFINE x == hdl'[h]
  <2>1. hdl' = [hdl EXCEPT ![h] = x] /\ x.pc = "insert" /\ x.snap.status = "workflow_pending"
    BY <1>1, <1>a DEF CreateCheck, Begin
  <2>2. UNCHANGED <<row, events, calls, resets>>
    BY <1>1 DEF CreateCheck
  <2> HIDE DEF x
  <2>3. HandlerOK(x, events[x.req]["reset_started"], calls[x.req], resets[x.req]) /\ ~ Executes(x)
    BY <2>1 DEF HandlerOK, Executes
  <2>4. QED
    BY <2>1, <2>2, <2>3, <1>b, MovePreserves DEF x
<1>2. ASSUME NEW u \in Users, NEW r \in Requests, CancelLoad(h, u, r)
      PROVE  ResetExclusive' /\ HandlerInv' /\ AuditInv'
  <2> DEFINE x == hdl'[h]
  <2>1. hdl' = [hdl EXCEPT ![h] = x] /\ x.pc = "cancel" /\ x.snap.status \in {"pending", "workflow_pending"}
    BY <1>2, <1>a DEF CancelLoad, Begin
  <2>2. UNCHANGED <<row, events, calls, resets>>
    BY <1>2 DEF CancelLoad
  <2> HIDE DEF x
  <2>3. HandlerOK(x, events[x.req]["reset_started"], calls[x.req], resets[x.req]) /\ ~ Executes(x)
    BY <2>1 DEF HandlerOK, Executes
  <2>4. QED
    BY <2>1, <2>2, <2>3, <1>b, MovePreserves DEF x
<1>3. ASSUME NEW u \in Users, NEW r \in Requests, NEW admin \in CallerIsAdmin(u),
             NEW op \in {"approve", "reject"}, DecideLoad(h, op, u, admin, r)
      PROVE  ResetExclusive' /\ HandlerInv' /\ AuditInv'
  <2> DEFINE x == hdl'[h]
  <2>1. /\ hdl' = [hdl EXCEPT ![h] = x] /\ x.pc = "decide" /\ x.op \in {"approve", "reject"}
        /\ x.snap.status \in {"pending", "workflow_pending"}
    BY <1>3, <1>a DEF DecideLoad, Begin
  <2>2. UNCHANGED <<row, events, calls, resets>>
    BY <1>3 DEF DecideLoad
  <2> HIDE DEF x
  <2>3. HandlerOK(x, events[x.req]["reset_started"], calls[x.req], resets[x.req]) /\ ~ Executes(x)
    BY <2>1 DEF HandlerOK, Executes
  <2>4. QED
    BY <2>1, <2>2, <2>3, <1>b, MovePreserves DEF x
<1>4. ASSUME NEW u \in Users, NEW r \in Requests, NEW admin \in CallerIsAdmin(u),
             RetryLoad(h, u, admin, r)
      PROVE  ResetExclusive' /\ HandlerInv' /\ AuditInv'
  <2> DEFINE x == hdl'[h]
  <2>1. hdl' = [hdl EXCEPT ![h] = x] /\ x.pc = "reread" /\ x.op = "retry"
    BY <1>4, <1>a DEF RetryLoad, Begin
  <2>2. UNCHANGED <<row, events, calls, resets>>
    BY <1>4 DEF RetryLoad
  <2> HIDE DEF x
  <2>3. HandlerOK(x, events[x.req]["reset_started"], calls[x.req], resets[x.req]) /\ ~ Executes(x)
    BY <2>1 DEF HandlerOK, Executes
  <2>4. QED
    BY <2>1, <2>2, <2>3, <1>b, MovePreserves DEF x
<1>5. QED
  BY <1>1, <1>2, <1>3, <1>4 DEF Call
(* While the row is not in resetting nobody executes it.                     *)
LEMMA NobodyExecutes ==
    ASSUME IInv, NEW r \in Requests, row[r].status # "approved_resetting"
    PROVE  \A k \in Handlers : Executing(k) => hdl[k].req # r
BY DEF IInv, ResetExclusive

(* The counts of a request after an audit entry.                             *)
Plus(r, types) ==
    [t \in EventTypes |-> IF t \in types THEN events[r][t] + 1 ELSE events[r][t]]

(* The entries of single steps are not counted.                              *)
LEMMA AuditSame ==
    ASSUME NEW status, NEW e, NEW f, NEW called, NEW reset, AuditOK(status, e, called, reset),
           \A y \in EventTypes \ {"step_approved", "step_satisfied"} : f[y] = e[y]
    PROVE  AuditOK(status, f, called, reset)
BY DEF AuditOK, EventTypes

LEMMA PlusType ==
    ASSUME IInv, NEW r \in Requests, NEW types
    PROVE  /\ Plus(r, types) \in [EventTypes -> Nat]
           /\ \A t \in EventTypes : Plus(r, types)[t] = IF t \in types THEN events[r][t] + 1 ELSE events[r][t]
           /\ Log(r, types) => events' = [events EXCEPT ![r] = Plus(r, types)]
<1>1. events \in [Requests -> [EventTypes -> Nat]]
  BY DEF IInv, TypeOK
<1>2. QED
  BY <1>1 DEF Plus, Log

(* A handler writes one row out of a status in which nobody executes it, or  *)
(* as its executor, and asks the Relay nothing.                              *)
LEMMA WritePreserves ==
    ASSUME IInv, NEW h \in Handlers, NEW r \in Requests, NEW x \in Handler,
           NEW types, NEW s,
           hdl' = [hdl EXCEPT ![h] = x],
           row' \in [Requests -> Row],
           row'[r].status = s,
           \A q \in Requests \ {r} : row'[q].status = row[q].status,
           Log(r, types),
           UNCHANGED <<calls, resets>>,
           AuditOK(s, Plus(r, types), calls[r], resets[r]),
           x.pc \notin {"idle", "insert", "cancel", "decide"} => x.req = r,
           HandlerOK(x, Plus(r, types)["reset_started"], calls[r], resets[r]),
           Executes(x) => s = "approved_resetting",
           \/ row[r].status # "approved_resetting"
           \/ Executing(h) /\ hdl[h].req = r
    PROVE  ResetExclusive' /\ HandlerInv' /\ AuditInv'
<1> DEFINE e == Plus(r, types)
           c == calls[r]
           t == resets[r]
<1>1. /\ calls' = [calls EXCEPT ![r] = c] /\ resets' = [resets EXCEPT ![r] = t]
      /\ c \in Nat /\ t \in Nat /\ t >= resets[r]
  BY DEF IInv, TypeOK
<1>2. e \in [EventTypes -> Nat] /\ events' = [events EXCEPT ![r] = e]
  BY PlusType
<1>3. e["reset_started"] >= events[r]["reset_started"]
  <2>1. events[r]["reset_started"] \in Nat /\ "reset_started" \in EventTypes
    BY DEF IInv, TypeOK, EventTypes
  <2>2. QED
    BY <2>1, PlusType
<1>4. \A k \in Handlers \ {h} : Executing(k) => hdl[k].req # r
  <2>1. CASE row[r].status # "approved_resetting"
    BY <2>1, NobodyExecutes
  <2>2. CASE Executing(h) /\ hdl[h].req = r
    BY <2>2 DEF IInv, ResetExclusive
  <2>3. QED
    BY <2>1, <2>2
<1>5. HandlerOK(x, e["reset_started"], c, t) /\ AuditOK(s, e, c, t)
  OBVIOUS
<1> HIDE DEF e, c, t
<1>6. QED
  BY <1>1, <1>2, <1>3, <1>4, <1>5, StepPreserves

(* The steps that decide on a request, by a handler that does not execute.   *)
LEMMA DecisionPreserves ==
    ASSUME IInv, NEW h \in Handlers, TypeOK',
           \/ \E r \in Requests : CreateInsert(h, r)
           \/ CancelCommit(h) \/ DecideLegacyCommit(h) \/ DecideWorkflowCommit(h)
    PROVE  ResetExclusive' /\ HandlerInv' /\ AuditInv'
<1> DEFINE r0 == hdl[h].req
           x == hdl'[h]
<1>a. /\ hdl \in [Handlers -> Handler] /\ r0 \in Requests /\ row \in [Requests -> Row]
      /\ row[r0] \in Row /\ row' \in [Requests -> Row] /\ x \in Handler
  BY HandlerFacts DEF TypeOK
<1>b. ~ Executes(Idle) /\ \A n, c, t : HandlerOK(Idle, n, c, t)
  BY DEF Executes, Idle, HandlerOK
<1>c. "reread" \in Pcs
  BY DEF Pcs
<1>d. /\ Return(h) => x = Idle /\ hdl' = [hdl EXCEPT ![h] = x]
      /\ \A pc \in Pcs : Goto(h, pc) =>
            /\ x.pc = pc /\ x.req = r0 /\ x.op = hdl[h].op
            /\ hdl' = [hdl EXCEPT ![h] = x]
  BY <1>a DEF Return, Goto, Handler
<1>e. \A s \in {"pending", "workflow_pending"} : row[r0].status = s =>
        /\ AuditOK("cancelled", Plus(r0, {"cancelled"}), calls[r0], resets[r0])
        /\ AuditOK("rejected", Plus(r0, {"rejected"}), calls[r0], resets[r0])
        /\ AuditOK("approved_resetting", Plus(r0, {"approved"}), calls[r0], resets[r0])
  <2>1. AuditOK(row[r0].status, events[r0], calls[r0], resets[r0])
    BY HandlerFacts
  <2>2. \A t \in EventTypes : events[r0][t] \in Nat
    BY HandlerFacts
  <2>3. QED
    BY <1>a, <2>1, <2>2, PlusType DEF AuditOK, One, EventTypes
<1>1. ASSUME NEW r \in Requests, CreateInsert(h, r)
      PROVE  ResetExclusive' /\ HandlerInv' /\ AuditInv'
  <2>1. row'[r].status = "workflow_pending" /\ \A q \in Requests \ {r} : row'[q].status = row[q].status
    BY <1>1, <1>a, HandlerFacts DEF CreateInsert, HandlerOK
  <2>2. AuditOK("workflow_pending", Plus(r, {"created"}), calls[r], resets[r])
    <3>1. AuditOK("absent", events[r], calls[r], resets[r])
      BY <1>1 DEF IInv, AuditInv, CreateInsert
    <3>2. QED
      BY <3>1, PlusType DEF AuditOK, One, EventTypes
  <2>3. x = Idle /\ hdl' = [hdl EXCEPT ![h] = x] /\ row[r].status # "approved_resetting"
        /\ Log(r, {"created"}) /\ UNCHANGED <<calls, resets>>
    BY <1>1, <1>d DEF CreateInsert
  <2>4. x.pc = "idle"
    BY <2>3 DEF Idle
  <2> HIDE DEF x
  <2>5. QED
    BY <2>1, <2>2, <2>3, <2>4, <1>a, <1>b, WritePreserves
<1>2. ASSUME CancelCommit(h)
      PROVE  ResetExclusive' /\ HandlerInv' /\ AuditInv'
  <2>1. row[r0].status \in {"pending", "workflow_pending"}
    BY <1>2, HandlerFacts DEF CancelCommit, Unchanged, HandlerOK
  <2>2. row'[r0].status = "cancelled" /\ \A q \in Requests \ {r0} : row'[q].status = row[q].status
    BY <1>2, <1>a DEF CancelCommit, Row
  <2>3. x = Idle /\ hdl' = [hdl EXCEPT ![h] = x]
        /\ Log(r0, {"cancelled"}) /\ UNCHANGED <<calls, resets>>
    BY <1>2, <1>d DEF CancelCommit
  <2>4. x.pc = "idle"
    BY <2>3 DEF Idle
  <2> HIDE DEF x, r0
  <2>5. QED
    BY <2>1, <2>2, <2>3, <2>4, <1>a, <1>b, <1>e, WritePreserves
<1>3. ASSUME DecideLegacyCommit(h)
      PROVE  ResetExclusive' /\ HandlerInv' /\ AuditInv'
  <2>1. row[r0].status \in {"pending", "workflow_pending"} /\ hdl[h].op \in {"approve", "reject"}
    BY <1>3, HandlerFacts DEF DecideLegacyCommit, Unchanged, HandlerOK
  <2>2. /\ row'[r0].status = IF hdl[h].op = "approve" THEN "approved_resetting" ELSE "rejected"
        /\ \A q \in Requests \ {r0} : row'[q].status = row[q].status
    BY <1>3, <1>a DEF DecideLegacyCommit, Row, Closed
  <2>3. UNCHANGED <<calls, resets>>
    BY <1>3 DEF DecideLegacyCommit
  <2>4. CASE hdl[h].op = "approve"
    <3>1. /\ x.pc = "reread" /\ x.req = r0 /\ x.op = "approve" /\ hdl' = [hdl EXCEPT ![h] = x]
          /\ Log(r0, {"approved"})
      BY <1>3, <1>c, <1>d, <2>4 DEF DecideLegacyCommit
    <3> HIDE DEF x, r0
    <3>2. \A n, c, t : HandlerOK(x, n, c, t)
      BY <3>1 DEF HandlerOK
    <3>3. QED
      BY <2>1, <2>2, <2>3, <2>4, <3>1, <3>2, <1>a, <1>e, WritePreserves
  <2>5. CASE hdl[h].op = "reject"
    <3>1. x = Idle /\ hdl' = [hdl EXCEPT ![h] = x] /\ Log(r0, {"rejected"})
      BY <1>3, <1>d, <2>5 DEF DecideLegacyCommit
    <3>2. x.pc = "idle"
      BY <3>1 DEF Idle
    <3> HIDE DEF x, r0
    <3>3. QED
      BY <2>1, <2>2, <2>3, <2>5, <3>1, <3>2, <1>a, <1>b, <1>e, WritePreserves
  <2>6. QED
    BY <2>1, <2>4, <2>5
<1>4. ASSUME DecideWorkflowCommit(h)
      PROVE  ResetExclusive' /\ HandlerInv' /\ AuditInv'
  <2> DEFINE w == Decide(hdl[h].snap.workflow, hdl[h].actor, hdl[h].admin, hdl[h].op = "approve")
             steps == {"step_approved"} \cup
                      (IF \E j \in 1..Len(w.steps) :
                            w.steps[j].satisfiedBy # hdl[h].snap.workflow.steps[j].satisfiedBy
                       THEN {"step_satisfied"} ELSE {})
             now == row[r0].status
  <2>1. now \in {"pending", "workflow_pending"} /\ hdl[h].op \in {"approve", "reject"}
    BY <1>4, HandlerFacts DEF DecideWorkflowCommit, Unchanged, HandlerOK
  <2>2. hdl[h].op = "reject" => Terminal(w)
    <3>1. hdl[h].snap.workflow \in Workflow /\ hdl[h].actor \in Users \cup {NoUser} /\ hdl[h].admin \in BOOLEAN
      BY HandlerFacts DEF Handler, Row
    <3>2. QED
      BY <3>1, RejectIsTerminal
  <2>3. /\ row'[r0].status = IF Terminal(w)
                              THEN IF hdl[h].op = "approve" THEN "approved_resetting" ELSE "rejected"
                              ELSE now
        /\ \A q \in Requests \ {r0} : row'[q].status = row[q].status
    BY <1>4, <1>a DEF DecideWorkflowCommit, Row, Closed
  <2>4. /\ Log(r0, IF hdl[h].op = "reject" THEN {"rejected"}
                   ELSE steps \cup (IF Terminal(w) THEN {"approved"} ELSE {}))
        /\ UNCHANGED <<calls, resets>>
        /\ IF hdl[h].op = "approve" /\ Terminal(w) THEN Goto(h, "reread") ELSE Return(h)
    BY <1>4 DEF DecideWorkflowCommit
  <2>5. steps \subseteq {"step_approved", "step_satisfied"}
    OBVIOUS
  <2> HIDE DEF w, steps
  <2>6. CASE hdl[h].op = "reject"
    <3>1. x = Idle /\ hdl' = [hdl EXCEPT ![h] = x] /\ Log(r0, {"rejected"})
      BY <2>4, <1>d, <2>6
    <3>2. x.pc = "idle"
      BY <3>1 DEF Idle
    <3>3. row'[r0].status = "rejected"
      BY <2>2, <2>3, <2>6
    <3> HIDE DEF x, r0
    <3>4. QED
      BY <2>1, <2>3, <2>4, <3>1, <3>2, <3>3, <1>a, <1>b, <1>e, WritePreserves
  <2>7. AuditOK(now, events[r0], calls[r0], resets[r0]) /\ \A t \in EventTypes : events[r0][t] \in Nat
    BY HandlerFacts
  <2>8. CASE hdl[h].op = "approve" /\ Terminal(w)
    <3>1. /\ x.pc = "reread" /\ x.req = r0 /\ x.op = "approve" /\ hdl' = [hdl EXCEPT ![h] = x]
          /\ Log(r0, steps \cup {"approved"})
      BY <2>4, <1>c, <1>d, <2>8
    <3>2. row'[r0].status = "approved_resetting"
      BY <2>3, <2>8
    <3> DEFINE e == Plus(r0, steps \cup {"approved"})
    <3> HIDE DEF x, r0, now, e
    <3>3. AuditOK("approved_resetting", Plus(r0, steps \cup {"approved"}), calls[r0], resets[r0])
      <4>1. /\ e["approved"] = events[r0]["approved"] + 1
            /\ \A y \in EventTypes \ {"approved", "step_approved", "step_satisfied"} : e[y] = events[r0][y]
        BY <1>a, <2>5, PlusType DEF EventTypes, e
      <4>2. events[r0]["approved"] = 0 /\ events[r0]["reset_succeeded"] = 0
        BY <2>1, <2>7 DEF AuditOK, One
      <4>3. AuditOK("approved_resetting", e, calls[r0], resets[r0])
        BY <2>1, <2>7, <4>1, <4>2 DEF AuditOK, One, EventTypes
      <4>4. QED
        BY <4>3 DEF e
    <3>4. \A n, c, t : HandlerOK(x, n, c, t)
      BY <3>1 DEF HandlerOK
    <3>5. QED
      BY <2>1, <2>3, <2>4, <3>1, <3>2, <3>3, <3>4, <1>a, WritePreserves DEF now
  <2>9. CASE hdl[h].op = "approve" /\ ~ Terminal(w)
    <3>1. x = Idle /\ hdl' = [hdl EXCEPT ![h] = x] /\ Log(r0, steps)
      BY <2>4, <1>d, <2>9
    <3>2. x.pc = "idle"
      BY <3>1 DEF Idle
    <3>3. row'[r0].status = now
      BY <2>3, <2>9
    <3>4. AuditOK(now, Plus(r0, steps), calls[r0], resets[r0])
      <4>1. \A y \in EventTypes \ {"step_approved", "step_satisfied"} : Plus(r0, steps)[y] = events[r0][y]
        BY <1>a, <2>5, PlusType DEF EventTypes
      <4>2. QED
        BY <2>7, <4>1, AuditSame
    <3> HIDE DEF x, r0
    <3>5. QED
      BY <2>1, <2>3, <2>4, <3>1, <3>2, <3>3, <3>4, <1>a, <1>b, WritePreserves
  <2>10. QED
    BY <2>1, <2>6, <2>8, <2>9
<1>5. QED
  BY <1>1, <1>2, <1>3, <1>4

(* The steps of an execution: the only ones that start, call or finish a     *)
(* reset.                                                                    *)
LEMMA ExecutionPreserves ==
    ASSUME IInv, NEW h \in Handlers, TypeOK',
           Reread(h) \/ StartReset(h) \/ ResolveProvider(h) \/ CallRelay(h)
             \/ StoreSuccess(h) \/ StoreFailure(h)
    PROVE  ResetExclusive' /\ HandlerInv' /\ AuditInv'
<1> DEFINE r0 == hdl[h].req
           x == hdl'[h]
<1>a. /\ hdl \in [Handlers -> Handler] /\ r0 \in Requests /\ row \in [Requests -> Row]
      /\ row[r0] \in Row /\ row' \in [Requests -> Row] /\ x \in Handler
  BY HandlerFacts DEF TypeOK
<1>b. ~ Executes(Idle) /\ \A n, c, t : HandlerOK(Idle, n, c, t)
  BY DEF Executes, Idle, HandlerOK
<1>d. /\ Return(h) => x = Idle /\ hdl' = [hdl EXCEPT ![h] = x]
      /\ \A pc \in Pcs : Goto(h, pc) =>
            /\ x.pc = pc /\ x.req = r0 /\ x.op = hdl[h].op
            /\ hdl' = [hdl EXCEPT ![h] = x]
  BY <1>a DEF Return, Goto, Handler
<1>f. /\ HandlerOK(hdl[h], events[r0]["reset_started"], calls[r0], resets[r0])
      /\ AuditOK(row[r0].status, events[r0], calls[r0], resets[r0])
      /\ \A t \in EventTypes : events[r0][t] \in Nat
      /\ calls[r0] \in Nat /\ resets[r0] \in Nat
  BY HandlerFacts
<1>1. ASSUME Reread(h)
      PROVE  ResetExclusive' /\ HandlerInv' /\ AuditInv'
  <2>1. UNCHANGED <<row, events, calls, resets>> /\ (Goto(h, "start") \/ Return(h))
    BY <1>1 DEF Reread
  <2>2. CASE Goto(h, "start")
    <3> DEFINE y == [hdl[h] EXCEPT !.pc = "start"]
    <3>1. y.pc = "start" /\ y.op = hdl[h].op /\ hdl[h].pc = "reread" /\ "start" \in Pcs
      BY <1>1, <1>a DEF Reread, Handler, Pcs
    <3>2. HandlerOK(y, events[r0]["reset_started"], calls[r0], resets[r0])
      BY <3>1, <1>f DEF HandlerOK
    <3>3. Executes(y) => Executing(h)
      BY <3>1 DEF Executes, Executing
    <3>4. QED
      BY <2>1, <2>2, <3>1, <3>2, <3>3, GotoPreserves
  <2>3. QED
    BY <2>1, <2>2, ReturnPreserves
<1>2. ASSUME StartReset(h)
      PROVE  ResetExclusive' /\ HandlerInv' /\ AuditInv'
  <2> DEFINE types == {"reset_started"} \cup (IF hdl[h].op = "retry" THEN {"reset_retried"} ELSE {})
  <2>1. /\ row'[r0].status = "approved_resetting"
        /\ \A q \in Requests \ {r0} : row'[q].status = row[q].status
        /\ Log(r0, types) /\ UNCHANGED <<calls, resets>>
        /\ Goto(h, "resolve") /\ hdl[h].pc = "start"
        /\ row[r0].status = RequiredStatus(h)
    BY <1>2, <1>a DEF StartReset, Row, Required
  <2>2. x.pc = "resolve" /\ x.req = r0 /\ hdl' = [hdl EXCEPT ![h] = x]
    BY <2>1, <1>d DEF Pcs
  <2>3. hdl[h].op \in {"approve", "retry"}
    BY <2>1, <1>f DEF HandlerOK
  <2>4. AuditOK("approved_resetting", Plus(r0, types), calls[r0], resets[r0])
    <3> DEFINE e == Plus(r0, types)
    <3>1. AuditOK(row[r0].status, events[r0], calls[r0], resets[r0])
      BY <1>f
    <3>2. /\ e["reset_started"] = events[r0]["reset_started"] + 1
          /\ \A t \in EventTypes \ {"reset_started", "reset_retried"} : e[t] = events[r0][t]
          /\ e["reset_retried"] = IF hdl[h].op = "retry" THEN events[r0]["reset_retried"] + 1
                                                        ELSE events[r0]["reset_retried"]
      BY <1>a, <2>3, PlusType DEF EventTypes
    <3>3. row[r0].status = IF hdl[h].op = "retry" THEN "approved_reset_failed" ELSE RequiredStatus(h)
      BY <2>1 DEF RequiredStatus
    <3>4. calls[r0] \in Nat /\ resets[r0] \in Nat /\ \A t \in EventTypes : events[r0][t] \in Nat
      BY <1>f
    <3> HIDE DEF e
    <3>5. AuditOK("approved_resetting", e, calls[r0], resets[r0])
      BY <2>1, <2>3, <3>1, <3>2, <3>3, <3>4, SMTT(30) DEF AuditOK, One, EventTypes, RequiredStatus
    <3>6. QED
      BY <3>5 DEF e
  <2>5. Plus(r0, types)["reset_started"] = events[r0]["reset_started"] + 1
    BY <1>a, PlusType DEF EventTypes
  <2>6. calls[r0] < Plus(r0, types)["reset_started"]
    BY <1>f, <2>5, SMTT(30) DEF AuditOK, EventTypes
  <2>7. row[r0].status # "approved_resetting" \/ (Executing(h) /\ hdl[h].req = r0)
    BY <2>1, <2>3 DEF RequiredStatus, Executing, Executes
  <2> HIDE DEF x, r0, types
  <2>8. HandlerOK(x, Plus(r0, types)["reset_started"], calls[r0], resets[r0])
    BY <2>2, <2>6 DEF HandlerOK
  <2>9. QED
    BY <2>1, <2>2, <2>4, <2>7, <2>8, <1>a, WritePreserves
<1>3. ASSUME ResolveProvider(h)
      PROVE  ResetExclusive' /\ HandlerInv' /\ AuditInv'
  <2>1. PICK pc \in {"relay", "store_failure"} :
           Goto(h, pc) /\ UNCHANGED <<row, events, calls, resets>> /\ hdl[h].pc = "resolve"
    BY <1>3 DEF ResolveProvider
  <2> DEFINE y == [hdl[h] EXCEPT !.pc = pc]
  <2>2. y.pc = pc /\ pc \in Pcs
    BY <1>a DEF Handler, Pcs
  <2>3. HandlerOK(y, events[r0]["reset_started"], calls[r0], resets[r0])
    BY <2>1, <2>2, <1>f DEF HandlerOK
  <2>4. Executes(y) => Executing(h)
    BY <2>1 DEF Executes, Executing
  <2>5. QED
    BY <2>1, <2>2, <2>3, <2>4, GotoPreserves
<1>4. ASSUME CallRelay(h)
      PROVE  ResetExclusive' /\ HandlerInv' /\ AuditInv'
  <2> DEFINE c == calls[r0] + 1
             s == row[r0].status
             e == events[r0]
  <2>1. PICK t \in Nat :
           /\ t \in {resets[r0], resets[r0] + 1}
           /\ resets' = [resets EXCEPT ![r0] = t]
           /\ Goto(h, "store_failure") \/ (Goto(h, "finalize") /\ t = resets[r0] + 1)
    <3>1. CASE UNCHANGED resets /\ Goto(h, "store_failure")
      <4>1. resets' = [resets EXCEPT ![r0] = resets[r0]]
        BY <3>1, HandlerFacts
      <4>2. QED
        BY <3>1, <4>1, <1>f
    <3>2. CASE resets' = [resets EXCEPT ![r0] = resets[r0] + 1]
               /\ (Goto(h, "finalize") \/ Goto(h, "store_failure"))
      <4>1. resets[r0] + 1 \in Nat
        BY <1>f
      <4>2. QED
        BY <3>2, <4>1
    <3>3. resets' = [resets EXCEPT ![r0] = @ + 1] <=> resets' = [resets EXCEPT ![r0] = resets[r0] + 1]
      OBVIOUS
    <3>4. QED
      BY <3>1, <3>2, <3>3, <1>4 DEF CallRelay
  <2>2. calls' = [calls EXCEPT ![r0] = c] /\ row' = row /\ events' = events /\ hdl[h].pc = "relay"
    BY <1>4 DEF CallRelay
  <2>3. events' = [events EXCEPT ![r0] = e] /\ e \in [EventTypes -> Nat]
        /\ e["reset_started"] \in Nat /\ c \in Nat
    BY <2>2, HandlerFacts DEF EventTypes
  <2>4. x.pc \in {"finalize", "store_failure"} /\ x.req = r0 /\ hdl' = [hdl EXCEPT ![h] = x]
        /\ (x.pc = "finalize" => t = resets[r0] + 1)
    BY <2>1, <1>d DEF Pcs
  <2>5. AuditOK(s, e, c, t)
    BY <1>f, <2>1, <2>2, <2>3, SMTT(30) DEF AuditOK, HandlerOK
  <2>6. Executing(h) /\ s = "approved_resetting"
    BY <2>2 DEF Executing, Executes, IInv, ResetExclusive
  <2>7. \A k \in Handlers \ {h} : Executing(k) => hdl[k].req # r0
    BY <2>6 DEF IInv, ResetExclusive
  <2>8. t >= resets[r0] /\ e["reset_started"] >= events[r0]["reset_started"]
    BY <2>1, <2>3, <1>f
  <2>9. HandlerOK(x, e["reset_started"], c, t)
    BY <2>4, <1>f DEF HandlerOK
  <2>10. row'[r0].status = s /\ (\A q \in Requests \ {r0} : row'[q].status = row[q].status)
    BY <2>2
  <2> HIDE DEF x, r0, c, s, e
  <2>11. QED
    BY <2>1, <2>2, <2>3, <2>4, <2>5, <2>6, <2>7, <2>8, <2>9, <2>10, <1>a, StepPreserves
<1>5. ASSUME StoreSuccess(h) \/ StoreFailure(h)
      PROVE  ResetExclusive' /\ HandlerInv' /\ AuditInv'
  <2>1. PICK s, t :
           /\ \/ s = "approved_reset_succeeded" /\ t = "reset_succeeded" /\ hdl[h].pc = "finalize"
              \/ s = "approved_reset_failed" /\ t = "reset_failed" /\ hdl[h].pc = "store_failure"
           /\ Finalize(h, s, t)
    BY <1>5 DEF StoreSuccess, StoreFailure
  <2>2. Executing(h) /\ row[r0].status = "approved_resetting"
    BY <2>1 DEF Executing, Executes, IInv, ResetExclusive
  <2>3. /\ row'[r0].status = s /\ \A q \in Requests \ {r0} : row'[q].status = row[q].status
        /\ Log(r0, {t}) /\ UNCHANGED <<calls, resets>> /\ Return(h)
    BY <2>1, <2>2, <1>a DEF Finalize, Row
  <2>4. x = Idle /\ hdl' = [hdl EXCEPT ![h] = x]
    BY <2>3, <1>d
  <2>5. x.pc = "idle"
    BY <2>4 DEF Idle
  <2>6. AuditOK(s, Plus(r0, {t}), calls[r0], resets[r0])
    BY <2>1, <2>2, <1>a, <1>f, PlusType DEF AuditOK, HandlerOK, One, EventTypes
  <2> HIDE DEF x, r0
  <2>7. QED
    BY <2>2, <2>3, <2>4, <2>5, <2>6, <1>a, <1>b, WritePreserves DEF r0
<1>6. QED
  BY <1>1, <1>2, <1>3, <1>4, <1>5

(* The steps that write nothing: a lost race, a start that was not           *)
(* committed, a database error, a crash.                                     *)
LEMMA GivingUpPreserves ==
    ASSUME IInv, NEW h \in Handlers,
           \/ CreateDuplicate(h) \/ LoseRace(h) \/ StartLost(h)
           \/ TxFails(h) \/ Crash(h)
    PROVE  ResetExclusive' /\ HandlerInv' /\ AuditInv'
<1>1. CASE Return(h) /\ UNCHANGED <<row, events, calls, resets>>
  BY <1>1, ReturnPreserves
<1>2. CASE hdl[h].pc = "start" /\ AfterFailedStart(h) /\ UNCHANGED <<row, events, calls, resets>>
  <2> DEFINE y == [hdl[h] EXCEPT !.pc = "store_failure"]
  <2>1. CASE hdl[h].op = "retry"
    BY <1>2, <2>1, ReturnPreserves DEF AfterFailedStart
  <2>2. CASE hdl[h].op # "retry"
    <3>1. Goto(h, "store_failure") /\ "store_failure" \in Pcs /\ y.pc = "store_failure"
      BY <1>2, <2>2, HandlerFacts DEF AfterFailedStart, Pcs, Handler
    <3>2. hdl[h].op = "approve"
      BY <1>2, <2>2, HandlerFacts DEF HandlerOK
    <3>3. \A n, c, t : HandlerOK(y, n, c, t)
      BY <3>1 DEF HandlerOK
    <3>4. Executing(h)
      BY <1>2, <3>2 DEF Executing, Executes
    <3>5. QED
      BY <1>2, <3>1, <3>3, <3>4, GotoPreserves
  <2>3. QED
    BY <2>1, <2>2
<1>3. QED
  BY <1>1, <1>2 DEF CreateDuplicate, LoseRace, StartLost, TxFails, Crash

LEMMA IInvInit == Init => IInv
<1> SUFFICES ASSUME Init PROVE IInv
  OBVIOUS
<1>1. TypeOK
  BY TypeInit
<1>2. \A h \in Handlers : hdl[h] = Idle
  BY DEF Init
<1>3. ResetExclusive /\ HandlerInv
  <2>1. Idle.pc = "idle"
    BY DEF Idle
  <2>2. ~ Executes(Idle) /\ \A n, c, t : HandlerOK(Idle, n, c, t)
    BY <2>1 DEF Executes, HandlerOK
  <2>3. QED
    BY <1>2, <2>2 DEF ResetExclusive, HandlerInv, Executing
<1>4. ASSUME NEW r \in Requests
      PROVE  AuditOK(row[r].status, events[r], calls[r], resets[r])
  <2>1. row[r].status \in {"absent", "pending"}
    <3>1. \/ row[r] = NoRow
          \/ \E u \in Users, g \in GroupIds, A \in SUBSET Users : row[r] = LegacyRow(u, g, A)
      BY DEF Init
    <3>2. NoRow.status = "absent"
      BY DEF NoRow
    <3>3. \A u, g, A : LegacyRow(u, g, A).status = "pending"
      BY DEF LegacyRow, NoRow
    <3>4. QED
      BY <3>1, <3>2, <3>3
  <2>2. /\ \A t \in EventTypes \ {"created"} : events[r][t] = 0
        /\ calls[r] = 0 /\ resets[r] = 0
    BY DEF Init
  <2>3. QED
    BY <2>1, <2>2 DEF AuditOK, One, EventTypes
<1>5. QED
  BY <1>1, <1>3, <1>4 DEF IInv, AuditInv

LEMMA IInvStep == IInv /\ [Next]_vars => IInv'
<1> SUFFICES ASSUME IInv, [Next]_vars PROVE IInv'
  OBVIOUS
<1>1. TypeOK'
  BY TypeStep DEF IInv
<1>2. CASE UNCHANGED vars
  BY <1>2 DEF vars, IInv, TypeOK, ResetExclusive, HandlerInv, AuditInv, Executing
<1>3. ASSUME NEW h \in Handlers, Call(h) \/ Proceed(h) \/ TxFails(h) \/ Crash(h)
      PROVE  IInv'
  <2>1. ResetExclusive' /\ HandlerInv' /\ AuditInv'
    <3>1. CASE Call(h)
      BY <3>1, CallPreserves
    <3>2. CASE Proceed(h)
      BY <3>2, <1>1, DecisionPreserves, ExecutionPreserves, GivingUpPreserves DEF Proceed
    <3>3. CASE TxFails(h) \/ Crash(h)
      BY <3>3, GivingUpPreserves
    <3>4. QED
      BY <1>3, <3>1, <3>2, <3>3
  <2>2. QED
    BY <1>1, <2>1 DEF IInv
<1>4. QED
  BY <1>2, <1>3 DEF Next

(* IInv is an invariant of every instance.                                   *)
THEOREM Inductive == Spec => []IInv
BY IInvInit, IInvStep, PTL DEF Spec

(* Two resets of one request never run at once, and the row stays in         *)
(* resetting while one runs (executeReset, transitionReset).                 *)
THEOREM OneResetAtATime == Spec => []ResetExclusive
<1>1. IInv => ResetExclusive
  BY DEF IInv
<1>2. QED
  BY <1>1, Inductive, PTL

(* No execution reaches the Relay without a committed start, and no start    *)
(* exists without a final approval.                                          *)
THEOREM StartedBeforeCalled == Spec => []CallsAreStarted
<1>1. IInv => CallsAreStarted
  <2> SUFFICES ASSUME IInv, NEW r \in Requests
               PROVE  /\ calls[r] <= events[r]["reset_started"]
                      /\ resets[r] <= calls[r]
                      /\ events[r]["reset_started"] > 0 => events[r]["approved"] = 1
    BY DEF CallsAreStarted
  <2>1. AuditOK(row[r].status, events[r], calls[r], resets[r])
    BY DEF IInv, AuditInv
  <2>2. QED
    BY <2>1 DEF AuditOK, One
<1>2. QED
  BY <1>1, Inductive, PTL

(* A request is approved, rejected or cancelled at most once, retried only   *)
(* after a failure, and succeeds at most once.                               *)
THEOREM DecidedOnce == Spec => []OneClosingDecision
<1>1. IInv => OneClosingDecision
  <2> SUFFICES ASSUME IInv, NEW r \in Requests
               PROVE  /\ events[r]["approved"] + events[r]["rejected"] + events[r]["cancelled"] <= 1
                      /\ events[r]["reset_retried"] <= events[r]["reset_failed"]
                      /\ events[r]["reset_succeeded"] <= 1
    BY DEF OneClosingDecision
  <2>1. AuditOK(row[r].status, events[r], calls[r], resets[r])
    BY DEF IInv, AuditInv
  <2>2. events[r] \in [EventTypes -> Nat]
    BY DEF IInv, TypeOK
  <2>3. events[r]["reset_retried"] \in Nat /\ events[r]["reset_failed"] \in Nat
    BY <2>2 DEF EventTypes
  <2>4. QED
    BY <2>1, <2>3 DEF AuditOK, One
<1>2. QED
  BY <1>1, Inductive, PTL

(* A stored success was a success at the Relay.                              *)
THEOREM SuccessWasReset == Spec => []SuccessIsReal
<1>1. IInv => SuccessIsReal
  BY DEF IInv, AuditInv, AuditOK, SuccessIsReal
<1>2. QED
  BY <1>1, Inductive, PTL
-----------------------------------------------------------------------------
(* What one step may do to the table.                                        *)

(* A step inserts one row whose scope is free, or changes one active row     *)
(* within its scope, or writes no row.                                       *)
LEMMA TableStep ==
    ASSUME IInv, [Next]_vars
    PROVE  \/ row' = row
           \/ \E r \in Requests :
                /\ \A q \in Requests \ {r} : row'[q] = row[q]
                /\ \/ row[r].status = "absent" /\ ~ ScopeTaken(ScopeOf(row'[r]))
                   \/ Active(r) /\ ScopeOf(row'[r]) = ScopeOf(row[r])
<1>1. CASE UNCHANGED vars
  BY <1>1 DEF vars
<1>2. ASSUME NEW h \in Handlers, Call(h) \/ TxFails(h) \/ Crash(h)
      PROVE  row' = row
  <2>1. Call(h) => row' = row
    <3>1. ASSUME NEW u, NEW g, NEW route, CreateCheck(h, u, g, route) PROVE row' = row
      BY <3>1, Zenon DEF CreateCheck
    <3>2. ASSUME NEW u, NEW r, CancelLoad(h, u, r) PROVE row' = row
      BY <3>2, Zenon DEF CancelLoad
    <3>3. ASSUME NEW op, NEW u, NEW admin, NEW r, DecideLoad(h, op, u, admin, r) PROVE row' = row
      BY <3>3, Zenon DEF DecideLoad
    <3>4. ASSUME NEW u, NEW admin, NEW r, RetryLoad(h, u, admin, r) PROVE row' = row
      BY <3>4, Zenon DEF RetryLoad
    <3>5. QED
      BY <3>1, <3>2, <3>3, <3>4, Zenon DEF Call
  <2>2. TxFails(h) \/ Crash(h) => row' = row
    BY Zenon DEF TxFails, Crash
  <2>3. QED
    BY <1>2, <2>1, <2>2
<1>3. ASSUME NEW h \in Handlers, NEW r \in Requests, CreateInsert(h, r)
      PROVE  /\ \A q \in Requests \ {r} : row'[q] = row[q]
             /\ row[r].status = "absent" /\ ~ ScopeTaken(ScopeOf(row'[r]))
  <2>1. /\ row[r].status = "absent" /\ ~ ScopeTaken(ScopeOf(hdl[h].snap))
        /\ row' = [row EXCEPT ![r] = hdl[h].snap]
    BY <1>3, Zenon DEF CreateInsert
  <2>2. row'[r] = hdl[h].snap /\ \A q \in Requests \ {r} : row'[q] = row[q]
    BY <2>1, HandlerFacts
  <2>3. QED
    BY <2>1, <2>2
<1>4. ASSUME NEW h \in Handlers,
             \/ CreateDuplicate(h) \/ LoseRace(h) \/ Reread(h) \/ StartLost(h)
             \/ ResolveProvider(h) \/ CallRelay(h)
      PROVE  row' = row
  BY <1>4 DEF CreateDuplicate, LoseRace, Reread, StartLost, ResolveProvider, CallRelay
<1>5. ASSUME NEW h \in Handlers,
             \/ CancelCommit(h) \/ DecideLegacyCommit(h) \/ DecideWorkflowCommit(h)
             \/ StartReset(h) \/ StoreSuccess(h) \/ StoreFailure(h)
      PROVE  \/ row' = row
             \/ LET r == hdl[h].req
                IN  /\ \A q \in Requests \ {r} : row'[q] = row[q]
                    /\ Active(r) /\ ScopeOf(row'[r]) = ScopeOf(row[r])
  <2> DEFINE r == hdl[h].req
  <2>a. /\ row \in [Requests -> Row] /\ r \in Requests /\ row[r] \in Row
        /\ HandlerOK(hdl[h], events[r]["reset_started"], calls[r], resets[r])
    BY HandlerFacts
  <2>1. CASE CancelCommit(h)
    BY <2>1, <2>a DEF CancelCommit, Unchanged, HandlerOK, Active, ActiveStatuses, ScopeOf, Row
  <2>2. CASE DecideLegacyCommit(h)
    BY <2>2, <2>a DEF DecideLegacyCommit, Unchanged, HandlerOK, Active, ActiveStatuses, ScopeOf, Row, Closed
  <2>3. CASE DecideWorkflowCommit(h)
    <3> DEFINE w == Decide(hdl[h].snap.workflow, hdl[h].actor, hdl[h].admin, hdl[h].op = "approve")
               moved == [row[r] EXCEPT !.workflow = w, !.revision = hdl[h].snap.revision + 1,
                                       !.resolved = ActiveApprovers(w)]
               after == IF Terminal(w) THEN Closed(moved, hdl[h].op, hdl[h].actor) ELSE moved
    <3>1. row' = [row EXCEPT ![r] = after] /\ hdl[h].pc = "decide" /\ Unchanged(h)
      BY <2>3 DEF DecideWorkflowCommit
    <3>3. ScopeOf(after) = ScopeOf(row[r])
      BY <2>a DEF ScopeOf, Row, Closed
    <3> HIDE DEF after, r
    <3>4. QED
      BY <3>1, <3>3, <2>a DEF Unchanged, HandlerOK, Active, ActiveStatuses, r
  <2>4. CASE StartReset(h)
    BY <2>4, <2>a DEF StartReset, Required, RequiredStatus, Active, ActiveStatuses, ScopeOf, Row
  <2>5. CASE StoreSuccess(h) \/ StoreFailure(h)
    BY <2>5, <2>a DEF StoreSuccess, StoreFailure, Finalize, Active, ActiveStatuses, ScopeOf, Row
  <2>6. QED
    BY <1>5, <2>1, <2>2, <2>3, <2>4, <2>5
<1>6. ASSUME NEW h \in Handlers PROVE hdl[h].req \in Requests
  BY HandlerFacts
<1>7. QED
  BY <1>1, <1>2, <1>3, <1>4, <1>5, <1>6 DEF Next, Proceed

(* A closed request never changes again, however stale the row a handler     *)
(* decided on.                                                               *)
THEOREM ClosedStays == Spec => ClosedIsFinal
<1>1. IInv /\ [Next]_vars =>
        [\A r \in Requests :
            row[r].status \in {"rejected", "cancelled", "approved_reset_succeeded"}
              => row'[r] = row[r]]_vars
  BY TableStep DEF Active, ActiveStatuses
<1>2. QED
  BY <1>1, Inductive, PTL DEF Spec, ClosedIsFinal

(* One request of a requester and group id text is active: nothing but the   *)
(* insert makes a row active, and the index, which compares the text,        *)
(* refuses that insert when the scope is taken.  What the text is parsed to  *)
(* has no part in it.                                                        *)
THEOREM ScopeIsExclusive == Spec => []OneActivePerScope
<1>1. Init => OneActivePerScope
  BY DEF Init, OneActivePerScope, Active, ActiveStatuses, NoRow
<1>2. IInv /\ OneActivePerScope /\ [Next]_vars => OneActivePerScope'
  <2> SUFFICES ASSUME IInv, OneActivePerScope, [Next]_vars,
                      NEW a \in Requests, NEW b \in Requests,
                      Active(a)', Active(b)', ScopeOf(row'[a]) = ScopeOf(row'[b])
               PROVE  a = b
    BY DEF OneActivePerScope
  <2>1. CASE row' = row
    BY <2>1 DEF OneActivePerScope, Active
  <2>2. ASSUME NEW r \in Requests,
               \A q \in Requests \ {r} : row'[q] = row[q],
               row[r].status = "absent", ~ ScopeTaken(ScopeOf(row'[r]))
        PROVE  a = b
    BY <2>2 DEF OneActivePerScope, Active, ScopeTaken
  <2>3. ASSUME NEW r \in Requests,
               \A q \in Requests \ {r} : row'[q] = row[q],
               Active(r), ScopeOf(row'[r]) = ScopeOf(row[r])
        PROVE  a = b
    BY <2>3 DEF OneActivePerScope, Active
  <2>4. QED
    BY <2>1, <2>2, <2>3, TableStep
<1>3. QED
  BY <1>1, <1>2, Inductive, PTL DEF Spec

-----------------------------------------------------------------------------
(* What a decision makes of a document.                                      *)

(* A decided document: d is w with the decision at the active step.          *)
Decided(w, d, actor, admin, state) ==
    /\ d \in Seq(Step) /\ Len(d) = Len(w.steps)
    /\ \A j \in 1..Len(d) : j # w.cur => d[j] = w.steps[j]
    /\ ~ Terminal(w) => d[w.cur] = [w.steps[w.cur] EXCEPT !.state = state, !.decidedBy = actor, !.byAdmin = admin]

LEMMA RecordDecides ==
    ASSUME NEW w \in Workflow, NEW actor \in Users \cup {NoUser},
           NEW admin \in BOOLEAN, NEW state \in StepStates
    PROVE  Decided(w, RecordDecision(w, actor, admin, state), actor, admin, state)
<1>1. w.steps \in Seq(Step) /\ w.cur \in Nat \ {0} /\ Len(w.steps) \in Nat /\ DOMAIN w.steps = 1..Len(w.steps)
  BY DEF Workflow
<1>2. /\ RecordDecision(w, actor, admin, state) \in Seq(Step)
      /\ Len(RecordDecision(w, actor, admin, state)) = Len(w.steps)
  BY RecordDecisionType
<1>3. \A j \in 1..Len(w.steps) : j # w.cur => RecordDecision(w, actor, admin, state)[j] = w.steps[j]
  BY <1>1 DEF RecordDecision
<1>4. w.cur \in 1..Len(w.steps) =>
        RecordDecision(w, actor, admin, state)[w.cur]
          = [w.steps[w.cur] EXCEPT !.state = state, !.decidedBy = actor, !.byAdmin = admin]
  BY <1>1 DEF RecordDecision
<1>5. ~ Terminal(w) => w.cur \in 1..Len(w.steps)
  BY <1>1 DEF Terminal
<1> QED
  BY <1>2, <1>3, <1>4, <1>5 DEF Decided

(* What an approval makes of the recorded decision d: the next active step   *)
(* is the first later one no approver so far is a candidate of, and those    *)
(* before it are skipped, naming such an approver.                           *)
Advanced(w, d, v) ==
    /\ v.steps \in Seq(Step) /\ Len(v.steps) = Len(d)
    /\ v.cur \in (w.cur + 1)..(Len(d) + 1)
    /\ \A j \in 1..Len(d) :
        /\ j <= w.cur \/ j > v.cur => v.steps[j] = d[j]
        /\ w.cur < j /\ j < v.cur =>
             \E i \in PriorApprovingSteps(d, j) :
                v.steps[j] = [d[j] EXCEPT !.state = "satisfied_by_prior_approval", !.satisfiedBy = i]
        /\ j = v.cur => /\ v.steps[j] = [d[j] EXCEPT !.state = "active"]
                        /\ PriorApprovingSteps(d, j) = {}

LEMMA ApproveAdvances ==
    ASSUME NEW w \in Workflow, NEW actor \in Users \cup {NoUser}, NEW admin \in BOOLEAN, ~ Terminal(w)
    PROVE  Advanced(w, RecordDecision(w, actor, admin, "approved"), ApproveStep(w, actor, admin))
<1> DEFINE decided == RecordDecision(w, actor, admin, "approved")
           later   == (w.cur + 1)..Len(decided)
           open    == {j \in later : PriorApprovingSteps(decided, j) = {}}
           next    == IF open = {} THEN Len(decided) + 1 ELSE Least(open)
           Settle(j) ==
              IF j \in later /\ j < next
              THEN [decided[j] EXCEPT !.state = "satisfied_by_prior_approval",
                                      !.satisfiedBy = Least(PriorApprovingSteps(decided, j))]
              ELSE IF j = next THEN [decided[j] EXCEPT !.state = "active"]
              ELSE decided[j]
           v == ApproveStep(w, actor, admin)
<1>1. v = [steps |-> [j \in 1..Len(decided) |-> Settle(j)], cur |-> next]
  BY Zenon DEF ApproveStep
<1>2. /\ decided \in Seq(Step) /\ Len(decided) = Len(w.steps) /\ Len(decided) \in Nat
      /\ w.cur \in Nat \ {0} /\ w.cur <= Len(decided)
  <2>1. decided \in Seq(Step) /\ Len(decided) = Len(w.steps)
    BY RecordDecisionType DEF StepStates
  <2>2. w.cur \in Nat \ {0} /\ Len(w.steps) \in Nat
    BY DEF Workflow
  <2>3. w.cur <= Len(w.steps)
    BY <2>2 DEF Terminal
  <2> QED
    BY <2>1, <2>2, <2>3
<1> HIDE DEF decided
<1>3. \A j \in later : j \in Nat /\ j > w.cur /\ j <= Len(decided)
  BY <1>2
<1>3a. open \in SUBSET Nat /\ \A j \in open : j > w.cur /\ j <= Len(decided) /\ j \in Nat
  BY <1>3, Zenon
<1>4. next \in (w.cur + 1)..(Len(decided) + 1) /\ (open # {} => next \in open)
      /\ (\A j \in open : next <= j) /\ (open = {} => next = Len(decided) + 1)
  <2>1. CASE open = {}
    BY <2>1, <1>2
  <2>2. CASE open # {}
    <3>1. Least(open) \in open /\ \A j \in open : Least(open) <= j
      BY <2>2, <1>3a, LeastIsLeast
    <3>2. next = Least(open)
      BY <2>2
    <3> HIDE DEF next, open
    <3>3. next \in Nat /\ next > w.cur /\ next <= Len(decided)
      BY <3>1, <3>2, <1>3a, Zenon
    <3>4. next \in (w.cur + 1)..(Len(decided) + 1)
      BY <3>3, <1>2
    <3>5. QED
      BY <2>2, <3>1, <3>2, <3>4, Zenon
  <2> QED
    BY <2>1, <2>2
<1>5. \A j \in later : j < next => Least(PriorApprovingSteps(decided, j)) \in PriorApprovingSteps(decided, j)
  <2> SUFFICES ASSUME NEW j \in later, j < next
               PROVE  Least(PriorApprovingSteps(decided, j)) \in PriorApprovingSteps(decided, j)
    OBVIOUS
  <2>1. j \notin open
    <3> HIDE DEF next, open
    <3>1. j \in Nat /\ next \in Nat /\ (j \in open => next <= j)
      BY <1>3, <1>4, <1>2
    <3> QED
      BY <3>1
  <2>2. PriorApprovingSteps(decided, j) # {}
    BY <2>1
  <2>3. PriorApprovingSteps(decided, j) \in SUBSET Nat
    BY <1>2 DEF PriorApprovingSteps
  <2>4. QED
    BY <2>2, <2>3, LeastIsLeast
<1>6. v.cur = next
  <2> HIDE DEF v, next, Settle
  <2> QED
    BY <1>1
<1>6a. v.steps = [j \in 1..Len(decided) |-> Settle(j)]
  <2> HIDE DEF v, next, Settle
  <2> QED
    BY <1>1
<1>7. v.steps \in Seq(Step)
  <2>1. Decide(w, actor, admin, TRUE) \in Workflow
    BY DecideType
  <2>2. v \in Workflow
    BY <2>1, Zenon DEF Decide
  <2> QED
    BY <2>2 DEF Workflow
<1> HIDE DEF v
<1>8. Len(v.steps) = Len(decided)
  <2>1. DOMAIN v.steps = 1..Len(decided)
    <3> HIDE DEF Settle
    <3> QED
      BY <1>6a
  <2>2. Len(v.steps) \in Nat /\ DOMAIN v.steps = 1..Len(v.steps)
    BY <1>7
  <2> QED
    BY <2>1, <2>2, <1>2
<1>9. ASSUME NEW j \in 1..Len(decided)
      PROVE  /\ j <= w.cur \/ j > v.cur => v.steps[j] = decided[j]
             /\ w.cur < j /\ j < v.cur =>
                  \E i \in PriorApprovingSteps(decided, j) :
                     v.steps[j] = [decided[j] EXCEPT !.state = "satisfied_by_prior_approval", !.satisfiedBy = i]
             /\ j = v.cur => /\ v.steps[j] = [decided[j] EXCEPT !.state = "active"]
                             /\ PriorApprovingSteps(decided, j) = {}
  <2>1. v.steps[j] = Settle(j)
    <3> HIDE DEF Settle
    <3> QED
      BY <1>6a
  <2>2. j \in Nat /\ next \in Nat /\ (j \in later <=> w.cur < j) /\ w.cur < next /\ w.cur \in Nat
    <3> HIDE DEF next
    <3> QED BY <1>2, <1>4
  <2> HIDE DEF next, later, open
  <2>3. CASE j <= w.cur \/ j > next
    <3>1. ~ (j \in later /\ j < next) /\ j # next
      BY <2>2, <2>3
    <3>2. v.steps[j] = decided[j]
      BY <2>1, <3>1, Zenon
    <3>3. ~ (w.cur < j /\ j < v.cur) /\ j # v.cur
      BY <2>2, <2>3, <1>6
    <3> QED
      BY <3>2, <3>3, Zenon
  <2>4. CASE w.cur < j /\ j < next
    <3>1. j \in later /\ j < next
      BY <2>2, <2>4
    <3>2. v.steps[j] = [decided[j] EXCEPT !.state = "satisfied_by_prior_approval",
                                      !.satisfiedBy = Least(PriorApprovingSteps(decided, j))]
      BY <2>1, <3>1, Zenon
    <3>3. Least(PriorApprovingSteps(decided, j)) \in PriorApprovingSteps(decided, j)
      BY <1>5, <3>1, Zenon
    <3>4. ~ (j <= w.cur \/ j > v.cur) /\ j # v.cur
      BY <2>2, <2>4, <1>6
    <3> QED
      BY <3>2, <3>3, <3>4, Zenon
  <2>5. CASE j = next
    <3>1. ~ (j \in later /\ j < next) /\ ~ (j <= w.cur \/ j > v.cur) /\ ~ (w.cur < j /\ j < v.cur)
      BY <2>2, <2>5, <1>6
    <3>2. v.steps[j] = [decided[j] EXCEPT !.state = "active"]
      BY <2>1, <3>1, <2>5, Zenon
    <3>3. j \in open
      <4>1. open # {}
        <5>1. j <= Len(decided) /\ Len(decided) \in Nat
          BY <1>2
        <5>2. open = {} => j = Len(decided) + 1
          BY <1>4, <2>5
        <5> QED
          BY <5>1, <5>2
      <4> QED
        BY <4>1, <1>4, <2>5
    <3>4. PriorApprovingSteps(decided, j) = {}
      BY <3>3, Zenon DEF open
    <3> QED
      BY <3>1, <3>2, <3>4, Zenon
  <2> QED
    <3> HIDE DEF Settle
    <3>1. (j <= w.cur \/ j > next) \/ (w.cur < j /\ j < next) \/ j = next
      BY <2>2
    <3> QED
      BY <3>1, <2>3, <2>4, <2>5, Zenon
<1> HIDE DEF Settle, next
<1> QED
  BY <1>4, <1>6, <1>7, <1>8, <1>9, Zenon DEF Advanced, decided, v

(* What an approval leaves at each step: those before the active one as they *)
(* were, the decision at the active one, and the later ones undecided.       *)
AfterApproval(w, d, v, actor, admin, j) ==
    LET old == w.steps[j]
        new == v.steps[j]
    IN /\ new \in Step /\ old \in Step /\ new.approvers = old.approvers
       /\ j <= w.cur => d[j] = new
       /\ j > w.cur => d[j] = old
       /\ j < w.cur => new = old /\ new.state \in {"approved", "satisfied_by_prior_approval"}
       /\ j = w.cur => /\ new.state = "approved" /\ new.decidedBy = actor /\ new.byAdmin = admin
                       /\ new.satisfiedBy = old.satisfiedBy /\ old.state = "active"
       /\ j > w.cur => /\ new.decidedBy = NoUser /\ old.state = "queued"
                       /\ j >= v.cur => new.satisfiedBy = old.satisfiedBy
                       /\ j < v.cur => /\ new.state = "satisfied_by_prior_approval"
                                       /\ new.satisfiedBy \in PriorApprovingSteps(d, j)
                       /\ j = v.cur => new.state = "active" /\ PriorApprovingSteps(d, j) = {}
                       /\ j > v.cur => new.state = "queued"

LEMMA AdvancedSteps ==
    ASSUME NEW w \in Workflow, NEW actor \in Users, NEW admin \in BOOLEAN,
           NEW d, NEW v, ~ Terminal(w), ValidWorkflow(w), InOrder(w),
           Decided(w, d, actor, admin, "approved"), Advanced(w, d, v),
           NEW j \in 1..Len(w.steps)
    PROVE  AfterApproval(w, d, v, actor, admin, j)
<1>1. /\ Len(w.steps) \in Nat /\ w.cur \in Nat \ {0} /\ w.cur <= Len(w.steps) /\ j \in Nat /\ w.steps \in Seq(Step)
  BY DEF Terminal, Workflow
<1>2. v.steps \in Seq(Step) /\ Len(v.steps) = Len(w.steps) /\ Len(d) = Len(w.steps) /\ d \in Seq(Step)
  BY DEF Decided, Advanced
<1>3. w.steps[j] \in Step /\ v.steps[j] \in Step /\ d[j] \in Step
  BY <1>1, <1>2
<1>4. v.cur \in Nat /\ w.cur < v.cur
  <2>1. v.cur \in (w.cur + 1)..(Len(d) + 1)
    BY Zenon DEF Advanced
  <2> QED
    BY <1>1, <1>2, <2>1
<1>5. w.cur \in 1..Len(w.steps) /\ w.steps[w.cur].state = "active"
  <2>1. {i \in 1..Len(w.steps) : w.steps[i].state = "active"} = {w.cur}
    BY Zenon DEF ValidWorkflow
  <2>2. w.cur \in {i \in 1..Len(w.steps) : w.steps[i].state = "active"}
    BY <2>1, Zenon
  <2> QED
    BY <2>2, Zenon
<1>6. /\ j # w.cur => d[j] = w.steps[j]
      /\ d[w.cur] = [w.steps[w.cur] EXCEPT !.state = "approved", !.decidedBy = actor, !.byAdmin = admin]
  BY <1>2, Zenon DEF Decided
<1>7. /\ j < w.cur => w.steps[j].state \in {"approved", "satisfied_by_prior_approval"}
      /\ j >= w.cur => w.steps[j].decidedBy = NoUser
      /\ j > w.cur => w.steps[j].state = "queued"
  BY Zenon DEF InOrder
<1>8. j <= w.cur \/ j > v.cur => v.steps[j] = d[j]
  BY <1>2, Zenon DEF Advanced
<1>9. CASE j < w.cur
  <2>1. j < w.cur /\ j <= w.cur /\ ~ (j = w.cur) /\ ~ (j > w.cur)
    BY <1>1, <1>9
  <2>2. d[j] = w.steps[j] /\ v.steps[j] = d[j] /\ w.steps[j].state \in {"approved", "satisfied_by_prior_approval"}
    BY <1>6, <1>7, <1>8, <2>1, Zenon
  <2> QED
    BY <1>3, <2>1, <2>2, Zenon DEF AfterApproval
<1>10. CASE j = w.cur
  <2>1. ~ (j < w.cur) /\ j <= w.cur /\ ~ (j > w.cur)
    BY <1>1, <1>10
  <2>2. v.steps[j] = d[j] /\ d[j] = [w.steps[j] EXCEPT !.state = "approved", !.decidedBy = actor, !.byAdmin = admin]
    BY <1>6, <1>8, <1>10, <2>1, Zenon
  <2>3. /\ v.steps[j].state = "approved" /\ v.steps[j].decidedBy = actor /\ v.steps[j].byAdmin = admin
        /\ v.steps[j].satisfiedBy = w.steps[j].satisfiedBy /\ v.steps[j].approvers = w.steps[j].approvers
    BY <1>3, <2>2 DEF Step
  <2> QED
    BY <1>3, <1>5, <1>10, <2>1, <2>2, <2>3, Zenon DEF AfterApproval
<1>11. ASSUME j > w.cur
       PROVE  AfterApproval(w, d, v, actor, admin, j)
  <2>1. /\ ~ (j < w.cur) /\ ~ (j <= w.cur) /\ ~ (j = w.cur) /\ j >= w.cur /\ j # w.cur
    BY <1>1, <1>11
  <2>2. d[j] = w.steps[j] /\ w.steps[j].decidedBy = NoUser /\ w.steps[j].state = "queued"
    BY <1>6, <1>7, <1>11, <2>1, Zenon
  <2>3. CASE j < v.cur
    <3>1. PICK i \in PriorApprovingSteps(d, j) :
              v.steps[j] = [d[j] EXCEPT !.state = "satisfied_by_prior_approval", !.satisfiedBy = i]
      BY <1>2, <1>11, <2>3, Zenon DEF Advanced
    <3>2. /\ v.steps[j].state = "satisfied_by_prior_approval" /\ v.steps[j].satisfiedBy = i
          /\ v.steps[j].approvers = w.steps[j].approvers /\ v.steps[j].decidedBy = w.steps[j].decidedBy
      BY <1>3, <2>2, <3>1 DEF Step
    <3>3. ~ (j >= v.cur) /\ ~ (j = v.cur) /\ ~ (j > v.cur)
      BY <1>1, <1>4, <2>3
    <3> QED
      BY <1>3, <2>1, <2>2, <3>2, <3>3, Zenon DEF AfterApproval
  <2>4. CASE j = v.cur
    <3>1. v.steps[j] = [d[j] EXCEPT !.state = "active"] /\ PriorApprovingSteps(d, j) = {}
      BY <1>2, <2>4, Zenon DEF Advanced
    <3>2. /\ v.steps[j].state = "active" /\ v.steps[j].satisfiedBy = w.steps[j].satisfiedBy
          /\ v.steps[j].approvers = w.steps[j].approvers /\ v.steps[j].decidedBy = w.steps[j].decidedBy
      BY <1>3, <2>2, <3>1 DEF Step
    <3>3. ~ (j < v.cur) /\ ~ (j > v.cur)
      BY <1>1, <1>4, <2>4
    <3> QED
      BY <1>3, <2>1, <2>2, <3>1, <3>2, <3>3, Zenon DEF AfterApproval
  <2>5. CASE j > v.cur
    <3>1. ~ (j < v.cur) /\ ~ (j = v.cur)
      BY <1>1, <1>4, <2>5
    <3>2. v.steps[j] = d[j]
      BY <1>8, <2>5, Zenon
    <3> QED
      BY <1>3, <2>1, <2>2, <3>1, <3>2, Zenon DEF AfterApproval
  <2> QED
    BY <1>1, <1>4, <2>3, <2>4, <2>5
<1> QED
  BY <1>1, <1>9, <1>10, <1>11

LEMMA ApprovedFinite ==
    ASSUME NEW w \in Workflow
    PROVE  IsFiniteSet(ApprovedSteps(w)) /\ Cardinality(ApprovedSteps(w)) \in Nat
<1>1. Len(w.steps) \in Nat
  BY DEF Workflow
<1>2. IsFiniteSet(1..Len(w.steps))
  BY <1>1, FS_Interval
<1>3. ApprovedSteps(w) \subseteq 1..Len(w.steps)
  BY DEF ApprovedSteps
<1>4. IsFiniteSet(ApprovedSteps(w))
  BY <1>2, <1>3, FS_Subset, Zenon
<1> QED
  BY <1>4, FS_CardinalityType

(* An approval keeps a document in order, settles it only when every step is *)
(* approved, and adds one approved step.                                     *)
LEMMA ApproveKeeps ==
    ASSUME NEW w \in Workflow, NEW requester, NEW actor \in Users, NEW admin \in BOOLEAN,
           NEW v \in Workflow, v = ApproveStep(w, actor, admin),
           DocOK(w, requester), MayDecide(w, requester, actor, admin)
    PROVE  /\ DocOK(v, requester)
           /\ Terminal(v) => FullyApproved(v)
           /\ Cardinality(ApprovedSteps(v)) = Cardinality(ApprovedSteps(w)) + 1
<1> DEFINE d == RecordDecision(w, actor, admin, "approved")
           n == Len(w.steps)
<1>1. ~ Terminal(w) /\ ValidWorkflow(w) /\ InOrder(w) /\ (admin \/ (actor # requester /\ actor \in w.steps[w.cur].approvers))
  BY DEF DocOK, MayDecide
<1>2. Decided(w, d, actor, admin, "approved") /\ Advanced(w, d, v)
  BY <1>1, RecordDecides, ApproveAdvances DEF StepStates
<1> HIDE DEF d
<1>3. /\ n \in Nat /\ n > 0 /\ Len(v.steps) = n /\ w.cur \in 1..n /\ v.cur \in (w.cur + 1)..(n + 1) /\ v.cur \in Nat
      /\ Len(d) = n
  <2>1. n \in Nat /\ w.cur \in Nat \ {0}
    BY DEF Workflow
  <2>2. n > 0 /\ ~ (w.cur > n) /\ Len(d) = n
    BY <1>1, <1>2, Zenon DEF ValidWorkflow, Terminal, Decided
  <2>3. v.cur \in (w.cur + 1)..(Len(d) + 1) /\ Len(v.steps) = Len(d)
    BY <1>2, Zenon DEF Advanced
  <2> QED
    BY <2>1, <2>2, <2>3
<1>4. \A j \in 1..n : AfterApproval(w, d, v, actor, admin, j)
  BY <1>1, <1>2, AdvancedSteps
<1>5. \A j \in 1..n : v.steps[j].state = "active" <=> j = v.cur
  <2> HIDE DEF n
  <2> QED
    BY <1>3, <1>4 DEF AfterApproval
<1>6. Terminal(v) <=> v.cur = n + 1
  BY <1>3 DEF Terminal
<1>7. \A j \in 1..n, i \in Nat :
         i \in PriorApprovingSteps(d, j) =>
            i \in 1..(j - 1) /\ v.steps[i].state = "approved" /\ v.steps[i].decidedBy \in v.steps[j].approvers
  <2> SUFFICES ASSUME NEW j \in 1..n, NEW i \in PriorApprovingSteps(d, j)
               PROVE  i \in 1..(j - 1) /\ v.steps[i].state = "approved" /\ v.steps[i].decidedBy \in v.steps[j].approvers
    OBVIOUS
  <2>1. i \in 1..(j - 1) /\ d[i].state = "approved" /\ d[i].decidedBy \in d[j].approvers
    BY Zenon DEF PriorApprovingSteps
  <2>2. i \in 1..n
    BY <2>1, <1>3
  <2>3. d[i] = v.steps[i]
    BY <2>1, <2>2, <1>4, <1>3 DEF AfterApproval
  <2>4. d[j].approvers = v.steps[j].approvers
    <3>1. CASE j = w.cur
      BY <1>3, <1>4, <3>1 DEF AfterApproval
    <3>2. CASE j # w.cur
      <4>1. d[j] = w.steps[j]
        BY <1>2, <1>3, <3>2, Zenon DEF Decided
      <4> QED
        BY <4>1, <1>4 DEF AfterApproval
    <3> QED
      BY <3>1, <3>2
  <2> QED
    BY <2>1, <2>3, <2>4
<1>8. \A j \in 1..n : v.steps[j] \in Step /\ w.steps[j] \in Step /\ j \in Nat
  BY <1>3, <1>4 DEF AfterApproval
<1>9. ValidWorkflow(v)
  <2>1. {j \in 1..n : v.steps[j].state = "active"} = IF Terminal(v) THEN {} ELSE {v.cur}
    <3>1. CASE v.cur = n + 1
      BY <1>3, <1>5, <1>6, <3>1
    <3>2. CASE v.cur # n + 1
      <4>1. v.cur \in 1..n /\ ~ Terminal(v)
        BY <1>3, <1>6, <3>2
      <4> QED
        BY <1>5, <4>1
    <3> QED
      BY <3>1, <3>2
  <2>2. \A j \in 1..n : v.steps[j].satisfiedBy < j
    <3> SUFFICES ASSUME NEW j \in 1..n
                 PROVE  v.steps[j].satisfiedBy < j
      OBVIOUS
    <3>1. w.steps[j].satisfiedBy < j
      BY <1>1, Zenon DEF ValidWorkflow
    <3>2. CASE j <= w.cur \/ j >= v.cur
      <4>1. v.steps[j].satisfiedBy = w.steps[j].satisfiedBy
        <5>1. j < w.cur \/ j = w.cur \/ (j > w.cur /\ j >= v.cur)
          BY <1>3, <1>8, <3>2
        <5> QED
          BY <1>4, <5>1, Zenon DEF AfterApproval
      <4> QED
        BY <3>1, <4>1
    <3>3. CASE w.cur < j /\ j < v.cur
      <4>1. v.steps[j].satisfiedBy \in PriorApprovingSteps(d, j)
        BY <1>4, <3>3, Zenon DEF AfterApproval
      <4>2. v.steps[j].satisfiedBy \in Nat
        BY <1>8 DEF Step
      <4>3. v.steps[j].satisfiedBy \in 1..(j - 1)
        BY <1>7, <4>1, <4>2, Zenon
      <4> QED
        BY <1>8, <4>3
    <3> QED
      BY <1>3, <1>8, <3>2, <3>3
  <2> QED
    BY <1>3, <2>1, <2>2 DEF ValidWorkflow
<1>10. \A j \in 1..n : LawfulDecision(v.steps[j], requester)
  <2> SUFFICES ASSUME NEW j \in 1..n
               PROVE  LawfulDecision(v.steps[j], requester)
    OBVIOUS
  <2>1. LawfulDecision(w.steps[j], requester)
    BY Zenon DEF DocOK
  <2>2. CASE j < w.cur
    <3>1. v.steps[j] = w.steps[j]
      BY <1>4, <2>2, Zenon DEF AfterApproval
    <3> QED
      BY <2>1, <3>1
  <2>3. CASE j = w.cur
    <3>1. v.steps[j].decidedBy = actor /\ v.steps[j].byAdmin = admin /\ v.steps[j].approvers = w.steps[j].approvers
      BY <1>4, <2>3, Zenon DEF AfterApproval
    <3> QED
      BY <1>1, <2>3, <3>1, Zenon DEF LawfulDecision
  <2>4. CASE j > w.cur
    <3>1. v.steps[j].decidedBy = NoUser
      BY <1>4, <2>4, Zenon DEF AfterApproval
    <3> QED
      BY <3>1, Zenon DEF LawfulDecision
  <2> QED
    BY <1>3, <1>8, <2>2, <2>3, <2>4
<1>11. \A j \in 1..n : LawfulSkip(v.steps, j)
  <2> SUFFICES ASSUME NEW j \in 1..n, v.steps[j].state = "satisfied_by_prior_approval"
               PROVE  /\ v.steps[j].satisfiedBy \in 1..(j - 1)
                      /\ v.steps[v.steps[j].satisfiedBy].state = "approved"
                      /\ v.steps[v.steps[j].satisfiedBy].decidedBy \in v.steps[j].approvers
    BY Zenon DEF LawfulSkip
  <2>1. CASE j < w.cur
    <3> DEFINE i == w.steps[j].satisfiedBy
    <3>1. v.steps[j] = w.steps[j]
      BY <1>4, <2>1, Zenon DEF AfterApproval
    <3>2. i \in 1..(j - 1) /\ w.steps[i].state = "approved" /\ w.steps[i].decidedBy \in w.steps[j].approvers
      BY <3>1, Zenon DEF DocOK, LawfulSkip
    <3> HIDE DEF i
    <3>3. i \in 1..n /\ i < w.cur
      BY <1>3, <1>8, <2>1, <3>2
    <3>4. v.steps[i] = w.steps[i]
      BY <1>4, <3>3, Zenon DEF AfterApproval
    <3> QED
      BY <3>1, <3>2, <3>4, Zenon DEF i
  <2>2. CASE w.cur < j /\ j < v.cur
    <3>1. v.steps[j].satisfiedBy \in PriorApprovingSteps(d, j) /\ v.steps[j].satisfiedBy \in Nat
      BY <1>3, <1>4, <1>8, <2>2 DEF AfterApproval, Step
    <3> QED
      BY <1>7, <3>1, Zenon
  <2>3. CASE j = w.cur \/ j >= v.cur
    BY <1>3, <1>4, <1>8, <2>3 DEF AfterApproval
  <2> QED
    BY <1>3, <1>8, <2>1, <2>2, <2>3
<1>12. NobodyAskedTwice(v.steps)
  <2> SUFFICES ASSUME NEW j \in 1..n, v.steps[j].state = "active",
                      NEW i \in PriorApprovingSteps(v.steps, j)
               PROVE  FALSE
    BY <1>3, Zenon DEF NobodyAskedTwice
  <2>1. j = v.cur
    BY <1>5
  <2>2. PriorApprovingSteps(d, j) = {}
    BY <1>3, <1>4, <1>8, <2>1 DEF AfterApproval
  <2>3. i \in 1..(j - 1) /\ v.steps[i].state = "approved" /\ v.steps[i].decidedBy \in v.steps[j].approvers
    BY Zenon DEF PriorApprovingSteps
  <2>4. i \in 1..n /\ i < v.cur
    BY <1>3, <1>8, <2>1, <2>3
  <2>5. i <= w.cur
    BY <1>3, <1>4, <1>8, <2>3, <2>4 DEF AfterApproval
  <2>6. d[i] = v.steps[i] /\ d[j].approvers = v.steps[j].approvers
    BY <1>3, <1>4, <1>8, <2>1, <2>4, <2>5 DEF AfterApproval
  <2>7. i \in PriorApprovingSteps(d, j)
    BY <2>3, <2>6, Zenon DEF PriorApprovingSteps
  <2> QED
    BY <2>2, <2>7
<1>13. ASSUME NEW j \in 1..n, j < v.cur
       PROVE  v.steps[j].state \in {"approved", "satisfied_by_prior_approval"}
  BY <1>3, <1>4, <1>8, <1>13 DEF AfterApproval
<1>14. InOrder(v)
  <2> SUFFICES ASSUME NEW j \in 1..n
               PROVE  /\ j < v.cur => v.steps[j].state \in {"approved", "satisfied_by_prior_approval"}
                      /\ j >= v.cur => v.steps[j].decidedBy = NoUser
                      /\ j > v.cur => v.steps[j].state = "queued"
    BY <1>3, Zenon DEF InOrder
  <2>1. j >= v.cur => v.steps[j].decidedBy = NoUser
    BY <1>3, <1>4, <1>8 DEF AfterApproval
  <2>2. j > v.cur => v.steps[j].state = "queued"
    BY <1>3, <1>4, <1>8 DEF AfterApproval
  <2> QED
    BY <1>13, <2>1, <2>2
<1>15. Terminal(v) => FullyApproved(v)
  <2> SUFFICES ASSUME Terminal(v), NEW j \in 1..n
               PROVE  v.steps[j].state \in {"approved", "satisfied_by_prior_approval"}
    BY <1>3, Zenon DEF FullyApproved
  <2>1. j < v.cur
    BY <1>3, <1>6, <1>8
  <2> QED
    BY <1>13, <2>1
<1>16. Cardinality(ApprovedSteps(v)) = Cardinality(ApprovedSteps(w)) + 1
  <2>1. \A j \in 1..n : v.steps[j].state = "approved" <=> w.steps[j].state = "approved" \/ j = w.cur
    <3> SUFFICES ASSUME NEW j \in 1..n
                 PROVE  v.steps[j].state = "approved" <=> w.steps[j].state = "approved" \/ j = w.cur
      OBVIOUS
    <3> HIDE DEF n
    <3>1. CASE j <= w.cur
      BY <1>3, <1>4, <1>8, <3>1 DEF AfterApproval
    <3>2. CASE j > w.cur
      <4>1. w.steps[j].state = "queued" /\ j # w.cur
        BY <1>3, <1>4, <1>8, <3>2 DEF AfterApproval
      <4>2. v.steps[j].state \in {"satisfied_by_prior_approval", "active", "queued"}
        BY <1>3, <1>4, <1>8, <3>2 DEF AfterApproval
      <4> QED
        BY <4>1, <4>2
    <3> QED
      BY <1>3, <1>8, <3>1, <3>2
  <2>2. ApprovedSteps(v) = ApprovedSteps(w) \cup {w.cur}
    BY <1>3, <2>1 DEF ApprovedSteps
  <2>3. w.cur \notin ApprovedSteps(w)
    BY <1>3, <1>4 DEF AfterApproval, ApprovedSteps
  <2>4. IsFiniteSet(ApprovedSteps(w))
    BY ApprovedFinite
  <2> QED
    BY <2>2, <2>3, <2>4, FS_AddElement
<1> QED
  BY <1>3, <1>9, <1>10, <1>11, <1>12, <1>14, <1>15, <1>16, Zenon DEF DocOK

(* A rejection keeps what a document promises, and its approved steps.       *)
LEMMA RejectKeeps ==
    ASSUME NEW w \in Workflow, NEW requester, NEW actor \in Users, NEW admin \in BOOLEAN,
           NEW v \in Workflow, v = RejectStep(w, actor, admin),
           DocOK(w, requester), MayDecide(w, requester, actor, admin)
    PROVE  DocOK(v, requester) /\ Terminal(v) /\ ApprovedSteps(v) = ApprovedSteps(w)
<1> DEFINE d == RecordDecision(w, actor, admin, "rejected")
           n == Len(w.steps)
<1>1. ~ Terminal(w) /\ ValidWorkflow(w) /\ InOrder(w) /\ (admin \/ (actor # requester /\ actor \in w.steps[w.cur].approvers))
  BY DEF DocOK, MayDecide
<1>2. Decided(w, d, actor, admin, "rejected")
  BY <1>1, RecordDecides DEF StepStates
<1>3. v.steps = d /\ v.cur = n + 1
  BY DEF RejectStep
<1> HIDE DEF d
<1>4. n \in Nat /\ n > 0 /\ w.cur \in 1..n /\ Len(v.steps) = n /\ w.steps \in Seq(Step)
  <2>1. n \in Nat /\ w.cur \in Nat \ {0} /\ w.steps \in Seq(Step)
    BY DEF Workflow
  <2>2. n > 0 /\ ~ (w.cur > n) /\ Len(d) = n
    BY <1>1, <1>2, Zenon DEF ValidWorkflow, Terminal, Decided
  <2> QED
    BY <1>3, <2>1, <2>2
<1>5. Terminal(v)
  BY <1>3, <1>4 DEF Terminal
<1>6. /\ \A j \in 1..n : j # w.cur => v.steps[j] = w.steps[j]
      /\ v.steps[w.cur] = [w.steps[w.cur] EXCEPT !.state = "rejected", !.decidedBy = actor, !.byAdmin = admin]
  BY <1>1, <1>2, <1>3, <1>4, Zenon DEF Decided
<1>7. /\ v.steps[w.cur].state = "rejected" /\ v.steps[w.cur].decidedBy = actor
      /\ v.steps[w.cur].byAdmin = admin /\ v.steps[w.cur].approvers = w.steps[w.cur].approvers
      /\ v.steps[w.cur].satisfiedBy = w.steps[w.cur].satisfiedBy
  <2>1. w.steps[w.cur] \in Step
    BY <1>4
  <2> QED
    BY <1>6, <2>1 DEF Step
<1>8. {j \in 1..n : w.steps[j].state = "active"} = {w.cur}
  BY <1>1, Zenon DEF ValidWorkflow
<1>9. \A j \in 1..n : w.steps[j].state = "active" <=> j = w.cur
  BY <1>8, Zenon
<1>10. \A j \in 1..n : v.steps[j].state # "active"
  BY <1>6, <1>7, <1>9
<1>11. ValidWorkflow(v)
  <2>1. \A j \in 1..n : v.steps[j].satisfiedBy = w.steps[j].satisfiedBy
    BY <1>6, <1>7, Zenon
  <2>2. \A j \in 1..n : v.steps[j].satisfiedBy < j
    BY <1>1, <2>1, Zenon DEF ValidWorkflow
  <2>3. {j \in 1..n : v.steps[j].state = "active"} = {}
    BY <1>10, Zenon
  <2>4. v.cur \in 1..(n + 1)
    BY <1>3, <1>4
  <2> QED
    BY <1>4, <1>5, <2>2, <2>3, <2>4, Zenon DEF ValidWorkflow
<1>12. \A j \in 1..n : LawfulDecision(v.steps[j], requester)
  <2>1. \A j \in 1..n : LawfulDecision(w.steps[j], requester)
    BY Zenon DEF DocOK
  <2>2. LawfulDecision(v.steps[w.cur], requester)
    BY <1>1, <1>7, Zenon DEF LawfulDecision
  <2> QED
    BY <1>6, <2>1, <2>2
<1>13. \A j \in 1..n : LawfulSkip(v.steps, j)
  <2> SUFFICES ASSUME NEW j \in 1..n, v.steps[j].state = "satisfied_by_prior_approval"
               PROVE  /\ v.steps[j].satisfiedBy \in 1..(j - 1)
                      /\ v.steps[v.steps[j].satisfiedBy].state = "approved"
                      /\ v.steps[v.steps[j].satisfiedBy].decidedBy \in v.steps[j].approvers
    BY Zenon DEF LawfulSkip
  <2> DEFINE i == w.steps[j].satisfiedBy
  <2>1. j # w.cur
    BY <1>7
  <2>2. v.steps[j] = w.steps[j]
    BY <1>6, <2>1, Zenon
  <2>3. i \in 1..(j - 1) /\ w.steps[i].state = "approved" /\ w.steps[i].decidedBy \in w.steps[j].approvers
    BY <2>2, Zenon DEF DocOK, LawfulSkip
  <2> HIDE DEF i
  <2>4. i \in 1..n
    BY <1>4, <2>3
  <2>5. i # w.cur
    BY <1>9, <2>3, <2>4
  <2>6. v.steps[i] = w.steps[i]
    BY <1>6, <2>4, <2>5, Zenon
  <2> QED
    BY <2>2, <2>3, <2>6, Zenon DEF i
<1>14. NobodyAskedTwice(v.steps)
  BY <1>4, <1>10, Zenon DEF NobodyAskedTwice
<1>15. InOrder(v)
  BY <1>5, Zenon DEF InOrder
<1>16. ApprovedSteps(v) = ApprovedSteps(w)
  <2>1. \A j \in 1..n : v.steps[j].state = "approved" <=> w.steps[j].state = "approved"
    BY <1>6, <1>7, <1>9
  <2> QED
    BY <1>4, <2>1, Zenon DEF ApprovedSteps
<1> QED
  BY <1>4, <1>5, <1>11, <1>12, <1>13, <1>14, <1>15, <1>16, Zenon DEF DocOK

(* A new document is in order and has no approved step.                      *)
LEMMA NewDocument ==
    ASSUME NEW route \in Seq(SUBSET Users), NEW u \in Users
    PROVE  /\ DocOK(ResolveWorkflow(route, u), u)
           /\ ApprovedSteps(ResolveWorkflow(route, u)) = {}
<1> DEFINE merged == IF route = <<>> THEN << {} >> ELSE route
           NewAt(i) == NewStep(merged[i] \ {u}, IF i = 1 THEN "active" ELSE "queued")
           w == ResolveWorkflow(route, u)
           n == Len(merged)
<1>1. n \in Nat /\ n > 0
  <2>1. CASE route = <<>>
    BY <2>1
  <2>2. CASE route # <<>>
    BY <2>2
  <2> QED
    BY <2>1, <2>2
<1> HIDE DEF merged
<1>2. w = [steps |-> [i \in 1..n |-> NewAt(i)], cur |-> 1]
  BY Zenon DEF ResolveWorkflow, merged
<1>3. \A i \in 1..n : /\ NewAt(i).state = IF i = 1 THEN "active" ELSE "queued"
                      /\ NewAt(i).decidedBy = NoUser /\ NewAt(i).satisfiedBy = 0
  BY DEF NewStep
<1> HIDE DEF NewAt
<1>4. w.cur = 1 /\ w.steps = [i \in 1..n |-> NewAt(i)]
  <2> HIDE DEF w
  <2> QED
    BY <1>2
<1>5. w \in Workflow
  BY ResolveWorkflowType
<1> HIDE DEF w
<1>6. Len(w.steps) = n
  <2>1. DOMAIN w.steps = 1..n
    BY <1>4
  <2>2. Len(w.steps) \in Nat /\ DOMAIN w.steps = 1..Len(w.steps)
    BY <1>5 DEF Workflow
  <2> QED
    BY <1>1, <2>1, <2>2
<1> HIDE DEF n
<1>7. \A i \in 1..n : /\ w.steps[i].state = IF i = 1 THEN "active" ELSE "queued"
                      /\ w.steps[i].decidedBy = NoUser /\ w.steps[i].satisfiedBy = 0
  BY <1>3, <1>4
<1>8. ~ Terminal(w)
  BY <1>1, <1>4, <1>6 DEF Terminal
<1>9. ValidWorkflow(w)
  <2>1. {i \in 1..n : w.steps[i].state = "active"} = {1}
    BY <1>1, <1>7
  <2>2. \A i \in 1..n : w.steps[i].satisfiedBy < i
    BY <1>1, <1>7
  <2>3. w.cur \in 1..(n + 1)
    BY <1>1, <1>4
  <2> QED
    BY <1>1, <1>4, <1>6, <1>8, <2>1, <2>2, <2>3, Zenon DEF ValidWorkflow
<1>10. \A i \in 1..n : LawfulDecision(w.steps[i], u) /\ LawfulSkip(w.steps, i)
  BY <1>7 DEF LawfulDecision, LawfulSkip
<1>11. NobodyAskedTwice(w.steps)
  BY <1>1, <1>6, <1>7 DEF NobodyAskedTwice, PriorApprovingSteps
<1>12. InOrder(w)
  BY <1>1, <1>4, <1>6, <1>7 DEF InOrder
<1>13. ApprovedSteps(w) = {}
  BY <1>6, <1>7 DEF ApprovedSteps
<1> QED
  BY <1>6, <1>9, <1>10, <1>11, <1>12, <1>13, Zenon DEF DocOK, w

-----------------------------------------------------------------------------
(* The invariant of the documents.                                           *)

(* A row after a step: its revision only grows, and with the revision the    *)
(* document stays.                                                           *)
Later(old, new) ==
    /\ new.version = old.version /\ new.requester = old.requester
    /\ old.revision <= new.revision
    /\ new.revision = old.revision => new.workflow = old.workflow

(* One handler moves to x and one row is written: who decided on another     *)
(* document than the stored one sees another revision.                       *)
LEMMA DocumentStep ==
    ASSUME IInv, DocumentInv, NEW h \in Handlers, NEW x \in Handler, NEW r \in Requests,
           hdl' = [hdl EXCEPT ![h] = x], row' \in [Requests -> Row],
           \A q \in Requests \ {r} : row'[q] = row[q] /\ events'[q] = events[q],
           RowOK(row'[r], events'[r]),
           Later(row[r], row'[r]) \/ row[r].version = 1,
           InsertOK(x), DecideOK(x, row'[x.req])
    PROVE  DocumentInv'
<1>1. \A q \in Requests : RowOK(row'[q], events'[q])
  BY DEF DocumentInv
<1>2. ASSUME NEW k \in Handlers
      PROVE  InsertOK(hdl'[k]) /\ DecideOK(hdl'[k], row'[hdl'[k].req])
  <2>1. hdl'[h] = x /\ (k # h => hdl'[k] = hdl[k]) /\ hdl[k] \in Handler
    BY DEF IInv, TypeOK
  <2>2. CASE k = h
    BY <2>1, <2>2
  <2>3. CASE k # h
    <3> DEFINE y == hdl[k]
               q == y.req
    <3>1. hdl'[k] = y /\ q \in Requests /\ y.snap \in Row /\ row[q] \in Row /\ row'[q] \in Row
      BY <2>1, <2>3 DEF Handler, IInv, TypeOK
    <3>2. InsertOK(y) /\ DecideOK(y, row[q])
      BY DEF DocumentInv
    <3>3. y.snap.revision \in Nat /\ row[q].revision \in Nat /\ row'[q].revision \in Nat
      BY <3>1 DEF Row
    <3> HIDE DEF y, q
    <3>4. DecideOK(y, row'[q])
      <4>1. CASE q # r
        BY <3>1, <3>2, <4>1
      <4>2. CASE q = r /\ Later(row[r], row'[r])
        BY <3>2, <3>3, <4>2 DEF DecideOK, Later
      <4>3. CASE q = r /\ row[r].version = 1
        BY <3>2, <4>3 DEF DecideOK
      <4> QED
        BY <4>1, <4>2, <4>3
    <3> QED
      BY <3>1, <3>2, <3>4 DEF y, q
  <2> QED
    BY <2>2, <2>3
<1> QED
  BY <1>1, <1>2 DEF DocumentInv

(* A row that stays as it is passes for one that is written.                 *)
LEMMA LaterSame ==
    ASSUME NEW rec \in Row
    PROVE  Later(rec, rec)
BY DEF Later, Row

(* A step that moves only a handler.                                         *)
LEMMA DocumentMove ==
    ASSUME IInv, DocumentInv, NEW h \in Handlers, NEW x \in Handler,
           hdl' = [hdl EXCEPT ![h] = x], row' = row, events' = events,
           InsertOK(x), DecideOK(x, row[x.req])
    PROVE  DocumentInv'
<1>1. x.req \in Requests /\ row \in [Requests -> Row] /\ row[x.req] \in Row
  BY DEF IInv, TypeOK, Handler
<1>2. RowOK(row[x.req], events[x.req])
  BY <1>1 DEF DocumentInv
<1>3. Later(row[x.req], row[x.req])
  BY <1>1, LaterSame
<1> QED
  BY <1>1, <1>2, <1>3, DocumentStep

(* A handler that is neither inserting nor deciding owes nothing.            *)
LEMMA OtherPc ==
    ASSUME NEW x, x.pc \notin {"insert", "decide"}
    PROVE  InsertOK(x) /\ \A now : DecideOK(x, now)
BY DEF InsertOK, DecideOK

LEMMA DocumentReturn ==
    ASSUME IInv, DocumentInv, NEW h \in Handlers, row' = row, events' = events,
           Return(h) \/ \E pc \in Pcs \ {"insert", "decide"} : Goto(h, pc)
    PROVE  DocumentInv'
<1>1. ASSUME Return(h) PROVE DocumentInv'
  <2>1. Idle \in Handler /\ Idle.pc \notin {"insert", "decide"}
    BY ConstantTypes DEF Idle
  <2>2. InsertOK(Idle) /\ DecideOK(Idle, row[Idle.req])
    BY <2>1, OtherPc
  <2> QED
    BY <1>1, <2>1, <2>2, DocumentMove DEF Return
<1>2. ASSUME NEW pc \in Pcs \ {"insert", "decide"}, Goto(h, pc) PROVE DocumentInv'
  <2> DEFINE x == [hdl[h] EXCEPT !.pc = pc]
  <2>1. x \in Handler /\ x.pc = pc
    BY HandlerFacts DEF Handler
  <2>2. hdl' = [hdl EXCEPT ![h] = x]
    BY <1>2, HandlerFacts DEF Goto
  <2> HIDE DEF x
  <2>3. InsertOK(x) /\ DecideOK(x, row[x.req])
    BY <2>1, OtherPc
  <2> QED
    BY <2>1, <2>2, <2>3, DocumentMove
<1> QED
  BY <1>1, <1>2

LEMMA DocumentCall ==
    ASSUME IInv, DocumentInv, NEW h \in Handlers, Call(h)
    PROVE  DocumentInv'
<1>a. TypeOK /\ hdl \in [Handlers -> Handler] /\ row \in [Requests -> Row]
  BY DEF IInv, TypeOK
<1>b. hdl' \in [Handlers -> Handler] /\ hdl'[h] \in Handler
  BY <1>a, TypeCall DEF TypeOK
<1>1. ASSUME NEW u \in Users, NEW g \in GroupIds, NEW route \in Routes, CreateCheck(h, u, g, route)
      PROVE  DocumentInv'
  <2> DEFINE x == hdl'[h]
             w == ResolveWorkflow(route, u)
  <2>1. /\ hdl' = [hdl EXCEPT ![h] = x] /\ x.pc = "insert" /\ x.snap.version = 2
        /\ x.snap.revision = 0 /\ x.snap.workflow = w /\ x.snap.requester = u
    <3> HIDE DEF w
    <3> QED
      BY <1>1, <1>a DEF CreateCheck, Begin, w
  <2>2. row' = row /\ events' = events
    BY <1>1 DEF CreateCheck
  <2>3. DocOK(w, u) /\ ApprovedSteps(w) = {}
    BY NewDocument, QuotaResetAssumption
  <2> HIDE DEF x, w
  <2>4. InsertOK(x) /\ DecideOK(x, row[x.req])
    BY <2>1, <2>3 DEF InsertOK, DecideOK
  <2> QED
    BY <2>1, <2>2, <2>4, <1>b, DocumentMove DEF x
<1>2. ASSUME NEW u \in Users, NEW r \in Requests, CancelLoad(h, u, r)
      PROVE  DocumentInv'
  <2> DEFINE x == hdl'[h]
  <2>1. hdl' = [hdl EXCEPT ![h] = x] /\ x.pc = "cancel" /\ row' = row /\ events' = events
    BY <1>2, <1>a DEF CancelLoad, Begin
  <2> HIDE DEF x
  <2>2. InsertOK(x) /\ DecideOK(x, row[x.req])
    BY <2>1, OtherPc
  <2> QED
    BY <2>1, <2>2, <1>b, DocumentMove DEF x
<1>3. ASSUME NEW u \in Users, NEW r \in Requests, NEW admin \in CallerIsAdmin(u),
             NEW op \in {"approve", "reject"}, DecideLoad(h, op, u, admin, r)
      PROVE  DocumentInv'
  <2> DEFINE x == hdl'[h]
  <2>1. /\ hdl' = [hdl EXCEPT ![h] = x] /\ x.pc = "decide" /\ x.snap = row[r] /\ x.req = r
        /\ x.actor = u /\ x.admin = admin /\ row' = row /\ events' = events
    BY <1>3, <1>a DEF DecideLoad, Begin
  <2>2. \/ row[r].status = "pending"
        \/ row[r].status = "workflow_pending" /\ MayDecide(row[r].workflow, row[r].requester, u, admin)
    BY <1>3, Zenon DEF DecideLoad
  <2>3. RowOK(row[r], events[r]) /\ row[r].version \in {1, 2} /\ row[r].revision \in Nat
    BY <1>a DEF DocumentInv, Row
  <2> HIDE DEF x
  <2>4. InsertOK(x)
    BY <2>1 DEF InsertOK
  <2>5. DecideOK(x, row[x.req])
    <3>1. CASE row[r].status = "pending"
      BY <2>1, <2>3, <3>1 DEF DecideOK, RowOK
    <3>2. CASE row[r].status = "workflow_pending" /\ MayDecide(row[r].workflow, row[r].requester, u, admin)
      BY <2>1, <2>3, <3>2 DEF DecideOK, RowOK
    <3> QED
      BY <2>2, <3>1, <3>2
  <2> QED
    BY <2>1, <2>4, <2>5, <1>b, DocumentMove DEF x
<1>4. ASSUME NEW u \in Users, NEW r \in Requests, NEW admin \in CallerIsAdmin(u),
             RetryLoad(h, u, admin, r)
      PROVE  DocumentInv'
  <2> DEFINE x == hdl'[h]
  <2>1. hdl' = [hdl EXCEPT ![h] = x] /\ x.pc = "reread" /\ row' = row /\ events' = events
    BY <1>4, <1>a DEF RetryLoad, Begin
  <2> HIDE DEF x
  <2>2. InsertOK(x) /\ DecideOK(x, row[x.req])
    BY <2>1, OtherPc
  <2> QED
    BY <2>1, <2>2, <1>b, DocumentMove DEF x
<1>5. QED
  BY <1>1, <1>2, <1>3, <1>4 DEF Call


Approved == {"approved_resetting", "approved_reset_failed", "approved_reset_succeeded"}

(* A step that changes only the status of a row, and what belongs to it.     *)
LEMMA StatusStep ==
    ASSUME IInv, DocumentInv, NEW h \in Handlers, NEW x \in Handler, NEW r \in Requests, NEW types,
           hdl' = [hdl EXCEPT ![h] = x], x.pc \notin {"insert", "decide"},
           row' \in [Requests -> Row],
           \A q \in Requests \ {r} : row'[q] = row[q],
           row'[r].version = row[r].version, row'[r].requester = row[r].requester,
           row'[r].workflow = row[r].workflow, row'[r].revision = row[r].revision,
           row'[r].status \notin {"absent", "pending", "workflow_pending"},
           row'[r].status \in Approved => row[r].version = 1 \/ row[r].status \in Approved,
           Log(r, types), "step_approved" \notin types,
           "rejected" \in types => row[r].version = 1
    PROVE  DocumentInv'
<1>1. row[r] \in Row /\ row'[r] \in Row
  BY DEF IInv, TypeOK
<1>2. RowOK(row[r], events[r])
  BY DEF DocumentInv
<1>3. events' = [events EXCEPT ![r] = Plus(r, types)]
      /\ \A t \in EventTypes : Plus(r, types)[t] = IF t \in types THEN events[r][t] + 1 ELSE events[r][t]
  BY PlusType
<1>4. /\ \A q \in Requests \ {r} : events'[q] = events[q]
      /\ events'[r]["step_approved"] = events[r]["step_approved"]
      /\ row[r].version # 1 => events'[r]["rejected"] = events[r]["rejected"]
  BY <1>3 DEF IInv, TypeOK, EventTypes
<1>5. RowOK(row'[r], events'[r])
  BY <1>1, <1>2, <1>4 DEF RowOK, Approved, Row
<1>6. Later(row[r], row'[r])
  BY <1>1 DEF Later, Row
<1>7. InsertOK(x) /\ DecideOK(x, row'[x.req])
  BY OtherPc
<1> QED
  BY <1>4, <1>5, <1>6, <1>7, DocumentStep

LEMMA DocumentInsert ==
    ASSUME IInv, DocumentInv, NEW h \in Handlers, NEW r \in Requests, CreateInsert(h, r)
    PROVE  DocumentInv'
<1> DEFINE new == hdl[h].snap
<1>1. /\ hdl[h].pc = "insert" /\ row[r].status = "absent"
      /\ row' = [row EXCEPT ![r] = new] /\ Log(r, {"created"}) /\ hdl' = [hdl EXCEPT ![h] = Idle]
  BY Zenon DEF CreateInsert, Return
<1>2. new \in Row /\ row \in [Requests -> Row] /\ row[r] \in Row /\ Idle \in Handler
  BY HandlerFacts DEF Handler
<1>3. /\ new.version = 2 /\ new.revision = 0 /\ new.status = "workflow_pending"
      /\ DocOK(new.workflow, new.requester) /\ ApprovedSteps(new.workflow) = {}
  BY <1>1, HandlerFacts DEF DocumentInv, InsertOK, HandlerOK
<1>4. RowOK(row[r], events[r]) /\ AuditOK(row[r].status, events[r], calls[r], resets[r])
  BY DEF DocumentInv, IInv, AuditInv
<1>5. row[r].version = 1 /\ events[r]["step_approved"] = 0 /\ events[r]["rejected"] = 0
  BY <1>1, <1>4 DEF RowOK, AuditOK, One
<1>6. events' = [events EXCEPT ![r] = Plus(r, {"created"})]
      /\ \A t \in EventTypes : Plus(r, {"created"})[t] = IF t \in {"created"} THEN events[r][t] + 1 ELSE events[r][t]
  BY <1>1, PlusType
<1>7. /\ \A q \in Requests \ {r} : events'[q] = events[q]
      /\ events'[r]["step_approved"] = 0 /\ events'[r]["rejected"] = 0
  BY <1>5, <1>6 DEF IInv, TypeOK, EventTypes
<1> HIDE DEF new
<1>8. row'[r] = new /\ row' \in [Requests -> Row] /\ \A q \in Requests \ {r} : row'[q] = row[q]
  BY <1>1, <1>2
<1>9. Cardinality(ApprovedSteps(new.workflow)) = 0
  BY <1>3, FS_EmptySet
<1>10. RowOK(new, events'[r])
  BY <1>3, <1>7, <1>9 DEF RowOK
<1>11. InsertOK(Idle) /\ DecideOK(Idle, row'[Idle.req])
  BY OtherPc DEF Idle
<1> QED
  BY <1>1, <1>2, <1>5, <1>7, <1>8, <1>10, <1>11, DocumentStep

(* The steps that write a status and no document.                            *)
LEMMA DocumentStatus ==
    ASSUME IInv, DocumentInv, NEW h \in Handlers,
           \/ CancelCommit(h) \/ DecideLegacyCommit(h)
           \/ StartReset(h) \/ StoreSuccess(h) \/ StoreFailure(h)
    PROVE  DocumentInv'
<1> DEFINE r == hdl[h].req
           x == hdl'[h]
<1>1. /\ row \in [Requests -> Row] /\ r \in Requests /\ row[r] \in Row
      /\ HandlerOK(hdl[h], events[r]["reset_started"], calls[r], resets[r])
      /\ hdl \in [Handlers -> Handler] /\ hdl[h] \in Handler
  BY HandlerFacts
<1>2. RowOK(row[r], events[r]) /\ InsertOK(hdl[h]) /\ DecideOK(hdl[h], row[r])
  BY <1>1 DEF DocumentInv
<1>3. row' \in [Requests -> Row] /\ hdl' \in [Handlers -> Handler]
  BY TypeProceed DEF Proceed, IInv, TypeOK
<1>4. ASSUME Return(h) \/ \E pc \in Pcs \ {"insert", "decide"} : Goto(h, pc)
      PROVE  hdl' = [hdl EXCEPT ![h] = x] /\ x \in Handler /\ x.pc \notin {"insert", "decide"}
  <2>1. CASE Return(h)
    BY <1>1, <1>3, <2>1 DEF Return, Idle
  <2>2. ASSUME NEW pc \in Pcs \ {"insert", "decide"}, Goto(h, pc)
        PROVE  hdl' = [hdl EXCEPT ![h] = x] /\ x \in Handler /\ x.pc \notin {"insert", "decide"}
    BY <1>1, <1>3, <2>2 DEF Goto, Handler
  <2> QED
    BY <1>4, <2>1, <2>2
<1> HIDE DEF x
<1>5. CASE CancelCommit(h)
  <2>1. row' = [row EXCEPT ![r] = [row[r] EXCEPT !.status = "cancelled"]] /\ Log(r, {"cancelled"}) /\ Return(h)
    BY <1>1, <1>5 DEF CancelCommit
  <2>2. /\ \A q \in Requests \ {r} : row'[q] = row[q]
        /\ row'[r] = [row[r] EXCEPT !.status = "cancelled"]
    BY <1>1, <2>1
  <2> HIDE DEF r
  <2>3. /\ row'[r].status = "cancelled" /\ row'[r].version = row[r].version
        /\ row'[r].requester = row[r].requester /\ row'[r].workflow = row[r].workflow
        /\ row'[r].revision = row[r].revision
    BY <1>1, <2>2 DEF Row
  <2> QED
    BY <1>1, <1>3, <1>4, <2>1, <2>2, <2>3, StatusStep DEF Approved
<1>6. CASE DecideLegacyCommit(h)
  <2> DEFINE new == Closed(row[r], hdl[h].op, hdl[h].actor)
             types == {IF hdl[h].op = "approve" THEN "approved" ELSE "rejected"}
  <2>1. /\ row' = [row EXCEPT ![r] = new] /\ Log(r, types)
        /\ Return(h) \/ Goto(h, "reread")
        /\ hdl[h].pc = "decide" /\ hdl[h].snap.version = 1 /\ row[r].status = hdl[h].snap.status
    BY <1>6 DEF DecideLegacyCommit, Unchanged
  <2>2. row[r].version = 1
    BY <1>2, <2>1 DEF DecideOK, RowOK
  <2>3. /\ \A q \in Requests \ {r} : row'[q] = row[q]
        /\ row'[r] = new
    BY <1>1, <2>1
  <2>4. /\ new.status \in {"approved_resetting", "rejected"} /\ new.version = row[r].version
        /\ new.requester = row[r].requester /\ new.workflow = row[r].workflow
        /\ new.revision = row[r].revision
    BY <1>1 DEF Closed, Row
  <2>5. "step_approved" \notin types /\ "reread" \in Pcs \ {"insert", "decide"}
    BY DEF Pcs
  <2> HIDE DEF r, new, types
  <2> QED
    BY <1>1, <1>3, <1>4, <2>1, <2>2, <2>3, <2>4, <2>5, StatusStep
<1>7. CASE StartReset(h)
  <2> DEFINE types == {"reset_started"} \cup (IF hdl[h].op = "retry" THEN {"reset_retried"} ELSE {})
  <2>1. /\ row' = [row EXCEPT ![r].status = "approved_resetting"] /\ Log(r, types) /\ Goto(h, "resolve")
        /\ row[r].status \in Approved
    BY <1>7 DEF StartReset, Required, RequiredStatus, Approved
  <2>2. /\ \A q \in Requests \ {r} : row'[q] = row[q]
        /\ row'[r] = [row[r] EXCEPT !.status = "approved_resetting"]
    BY <1>1, <2>1
  <2>3. "step_approved" \notin types /\ "rejected" \notin types /\ "resolve" \in Pcs \ {"insert", "decide"}
    BY DEF Pcs
  <2> HIDE DEF r, types
  <2>4. /\ row'[r].status = "approved_resetting" /\ row'[r].version = row[r].version
        /\ row'[r].requester = row[r].requester /\ row'[r].workflow = row[r].workflow
        /\ row'[r].revision = row[r].revision
    BY <1>1, <2>2 DEF Row
  <2> QED
    BY <1>1, <1>3, <1>4, <2>1, <2>2, <2>3, <2>4, StatusStep
<1>8. CASE StoreSuccess(h) \/ StoreFailure(h)
  <2>1. PICK s \in {"approved_reset_succeeded", "approved_reset_failed"},
             t \in {"reset_succeeded", "reset_failed"} : Finalize(h, s, t)
    BY <1>8 DEF StoreSuccess, StoreFailure
  <2>2. CASE row[r].status # "approved_resetting"
    BY <2>1, <2>2, DocumentReturn DEF Finalize
  <2>3. CASE row[r].status = "approved_resetting"
    <3>1. row' = [row EXCEPT ![r].status = s] /\ Log(r, {t}) /\ Return(h)
      BY <2>1, <2>3 DEF Finalize
    <3>2. /\ \A q \in Requests \ {r} : row'[q] = row[q]
          /\ row'[r] = [row[r] EXCEPT !.status = s]
      BY <1>1, <3>1
    <3> HIDE DEF r
    <3>4. /\ row'[r].status = s /\ row'[r].version = row[r].version
          /\ row'[r].requester = row[r].requester /\ row'[r].workflow = row[r].workflow
          /\ row'[r].revision = row[r].revision
      BY <1>1, <3>2 DEF Row
    <3> QED
      BY <1>1, <1>3, <1>4, <2>1, <2>3, <3>1, <3>2, <3>4, StatusStep DEF Approved
  <2> QED
    BY <2>2, <2>3
<1> QED
  BY <1>5, <1>6, <1>7, <1>8


(* A decision on the stored document: the predicate of its UPDATE held, so   *)
(* the document it was computed from is the stored one.                      *)
LEMMA DocumentDecide ==
    ASSUME IInv, DocumentInv, NEW h \in Handlers, DecideWorkflowCommit(h)
    PROVE  DocumentInv'
<1> DEFINE r     == hdl[h].req
           x     == hdl'[h]
           read  == hdl[h].snap
           op    == hdl[h].op
           actor == hdl[h].actor
           admin == hdl[h].admin
           w     == Decide(read.workflow, actor, admin, op = "approve")
           moved == [row[r] EXCEPT !.workflow = w, !.revision = read.revision + 1,
                                   !.resolved = ActiveApprovers(w)]
           new   == IF Terminal(w) THEN Closed(moved, op, actor) ELSE moved
           skips == \E j \in 1..Len(w.steps) :
                       w.steps[j].satisfiedBy # read.workflow.steps[j].satisfiedBy
           types == IF op = "reject" THEN {"rejected"}
                    ELSE {"step_approved"} \cup (IF skips THEN {"step_satisfied"} ELSE {})
                                           \cup (IF Terminal(w) THEN {"approved"} ELSE {})
<1>1. /\ row \in [Requests -> Row] /\ r \in Requests /\ row[r] \in Row
      /\ HandlerOK(hdl[h], events[r]["reset_started"], calls[r], resets[r])
      /\ AuditOK(row[r].status, events[r], calls[r], resets[r])
      /\ hdl \in [Handlers -> Handler] /\ hdl[h] \in Handler
  BY HandlerFacts
<1>2. RowOK(row[r], events[r]) /\ DecideOK(hdl[h], row[r])
  BY <1>1 DEF DocumentInv
<1>3. row' \in [Requests -> Row] /\ hdl' \in [Handlers -> Handler]
  BY TypeProceed DEF Proceed, IInv, TypeOK
<1>4. /\ hdl[h].pc = "decide" /\ read.version = 2
      /\ row[r].status = read.status /\ row[r].revision = read.revision
      /\ row' = [row EXCEPT ![r] = new] /\ Log(r, types)
      /\ Return(h) \/ Goto(h, "reread")
  BY Zenon DEF DecideWorkflowCommit, Unchanged
<1>5. hdl' = [hdl EXCEPT ![h] = x] /\ x \in Handler /\ x.pc \notin {"insert", "decide"}
  <2>1. CASE Return(h)
    BY <1>1, <1>3, <2>1 DEF Return, Idle
  <2>2. CASE Goto(h, "reread")
    BY <1>1, <1>3, <2>2 DEF Goto, Handler
  <2> QED
    BY <1>4, <2>1, <2>2
<1> HIDE DEF x
<1>6. /\ read.status = "workflow_pending" /\ row[r].version = 2 /\ row[r].requester = read.requester
      /\ row[r].workflow = read.workflow /\ MayDecide(read.workflow, read.requester, actor, admin)
      /\ actor \in Users /\ op \in {"approve", "reject"}
      /\ admin \in BOOLEAN /\ read.workflow \in Workflow /\ read.revision \in Nat
  <2>1. /\ read.status = "workflow_pending" /\ row[r].version = 2 /\ row[r].requester = read.requester
        /\ row[r].workflow = read.workflow /\ MayDecide(read.workflow, read.requester, actor, admin)
        /\ actor \in Users
    BY <1>2, <1>4, Zenon DEF DecideOK
  <2>2. op \in {"approve", "reject"}
    BY <1>1, <1>4, Zenon DEF HandlerOK
  <2>3. admin \in BOOLEAN /\ read \in Row
    BY <1>1 DEF Handler
  <2>4. read.workflow \in Workflow /\ read.revision \in Nat
    BY <2>3 DEF Row
  <2> QED
    BY <2>1, <2>2, <2>3, <2>4
<1>7. /\ DocOK(read.workflow, read.requester)
      /\ events[r]["step_approved"] = Cardinality(ApprovedSteps(read.workflow))
      /\ read.revision = events[r]["step_approved"] + events[r]["rejected"]
      /\ events[r]["rejected"] = 0
  <2>1. /\ DocOK(read.workflow, read.requester)
        /\ events[r]["step_approved"] = Cardinality(ApprovedSteps(read.workflow))
        /\ read.revision = events[r]["step_approved"] + events[r]["rejected"]
    BY <1>2, <1>4, <1>6, Zenon DEF RowOK
  <2>2. events[r]["rejected"] = 0
    BY <1>1, <1>4, <1>6 DEF AuditOK, One
  <2> QED
    BY <2>1, <2>2
<1>8. w \in Workflow
  BY <1>6, DecideType
<1>9. /\ DocOK(w, read.requester)
      /\ op = "approve" => /\ Cardinality(ApprovedSteps(w)) = events[r]["step_approved"] + 1
                           /\ Terminal(w) => FullyApproved(w)
      /\ op = "reject" => Terminal(w) /\ Cardinality(ApprovedSteps(w)) = events[r]["step_approved"]
  <2>1. CASE op = "approve"
    <3>1. w = ApproveStep(read.workflow, actor, admin)
      BY <2>1, Zenon DEF Decide
    <3> HIDE DEF w, r
    <3>2. /\ DocOK(w, read.requester) /\ (Terminal(w) => FullyApproved(w))
          /\ Cardinality(ApprovedSteps(w)) = Cardinality(ApprovedSteps(read.workflow)) + 1
      BY <1>6, <1>7, <1>8, <3>1, ApproveKeeps
    <3> QED
      BY <1>7, <2>1, <3>2
  <2>2. CASE op = "reject"
    <3>1. op # "approve"
      BY <2>2
    <3>2. w = RejectStep(read.workflow, actor, admin)
      BY <3>1, Zenon DEF Decide
    <3> HIDE DEF w, r
    <3>3. DocOK(w, read.requester) /\ Terminal(w) /\ ApprovedSteps(w) = ApprovedSteps(read.workflow)
      BY <1>6, <1>7, <1>8, <3>2, RejectKeeps
    <3> QED
      BY <1>7, <2>2, <3>3
  <2> QED
    BY <1>6, <2>1, <2>2
<1> HIDE DEF w
<1>10. row'[r] = new /\ \A q \in Requests \ {r} : row'[q] = row[q]
  <2> HIDE DEF new
  <2> QED
    BY <1>1, <1>4
<1>11. /\ new.workflow = w /\ new.revision = read.revision + 1
       /\ new.version = row[r].version /\ new.requester = row[r].requester
       /\ Terminal(w) => new.status = IF op = "approve" THEN "approved_resetting" ELSE "rejected"
       /\ ~ Terminal(w) => new.status = "workflow_pending"
  <2>0. ActiveApprovers(w) \in SUBSET Users
    BY <1>8, ActiveApproversType
  <2>1. /\ moved.workflow = w /\ moved.revision = read.revision + 1
        /\ moved.version = row[r].version /\ moved.requester = row[r].requester
        /\ moved.status = row[r].status
    <3> HIDE DEF r
    <3> QED
      BY <1>1 DEF Row
  <2>2. moved \in Row
    <3>1. row'[r] \in Row /\ row[r] \in Row
      BY <1>1, <1>3
    <3>2. ASSUME NEW rec \in Row, NEW n \in Nat, NEW A \in SUBSET Users
          PROVE  [rec EXCEPT !.workflow = w, !.revision = n, !.resolved = A] \in Row
      BY <1>8 DEF Row
    <3>3. read.revision + 1 \in Nat
      BY <1>6
    <3> QED
      BY <2>0, <3>1, <3>2, <3>3
  <2> HIDE DEF moved
  <2>3. CASE Terminal(w)
    <3>1. new = Closed(moved, op, actor)
      BY <2>3, Zenon
    <3> HIDE DEF new
    <3> QED
      BY <2>1, <2>2, <2>3, <3>1 DEF Closed, Row
  <2>4. CASE ~ Terminal(w)
    <3>1. new = moved
      BY <2>4, Zenon
    <3> HIDE DEF new
    <3> QED
      BY <2>1, <2>4, <3>1, <1>4, <1>6
  <2> QED
    BY <2>3, <2>4
<1> HIDE DEF new
<1>12. /\ "step_approved" \in types <=> op = "approve"
       /\ "rejected" \in types <=> op = "reject"
  <2> HIDE DEF skips
  <2> QED
    BY <1>6
<1> HIDE DEF types
<1>13. events' = [events EXCEPT ![r] = Plus(r, types)]
       /\ \A t \in EventTypes : Plus(r, types)[t] = IF t \in types THEN events[r][t] + 1 ELSE events[r][t]
  BY <1>1, <1>4, PlusType
<1>14. /\ \A q \in Requests \ {r} : events'[q] = events[q]
       /\ events'[r]["step_approved"] = IF op = "approve" THEN events[r]["step_approved"] + 1 ELSE events[r]["step_approved"]
       /\ events'[r]["rejected"] = IF op = "reject" THEN 1 ELSE 0
  <2>1. events'[r] = Plus(r, types) /\ \A q \in Requests \ {r} : events'[q] = events[q]
    BY <1>1, <1>13 DEF IInv, TypeOK
  <2>2. "step_approved" \in EventTypes /\ "rejected" \in EventTypes
    BY DEF EventTypes
  <2> HIDE DEF r
  <2>3. events'[r]["step_approved"] = IF "step_approved" \in types THEN events[r]["step_approved"] + 1 ELSE events[r]["step_approved"]
    BY <1>13, <2>1, <2>2
  <2>4. events'[r]["rejected"] = IF "rejected" \in types THEN events[r]["rejected"] + 1 ELSE events[r]["rejected"]
    BY <1>13, <2>1, <2>2
  <2> QED
    BY <1>6, <1>7, <1>12, <2>1, <2>3, <2>4
<1>15. events[r]["step_approved"] \in Nat
  BY <1>1, HandlerFacts DEF EventTypes
<1>16. RowOK(new, events'[r])
  <2> HIDE DEF r, read, op
  <2>1. /\ new.status \in {"workflow_pending", "approved_resetting", "rejected"} /\ new.version = 2
        /\ new.status = "approved_resetting" => op = "approve" /\ Terminal(w)
    BY <1>6, <1>9, <1>11
  <2>2. DocOK(new.workflow, new.requester) /\ (new.status = "approved_resetting" => FullyApproved(new.workflow))
    BY <1>6, <1>9, <1>11, <2>1
  <2>3. events'[r]["step_approved"] = Cardinality(ApprovedSteps(new.workflow))
    BY <1>6, <1>9, <1>11, <1>14
  <2>4. new.revision = events'[r]["step_approved"] + events'[r]["rejected"]
    BY <1>6, <1>7, <1>11, <1>14, <1>15
  <2> QED
    BY <2>1, <2>2, <2>3, <2>4 DEF RowOK
<1>17. Later(row[r], new)
  BY <1>4, <1>6, <1>11 DEF Later
<1>18. InsertOK(x) /\ DecideOK(x, row'[x.req])
  BY <1>5, OtherPc
<1> QED
  BY <1>1, <1>3, <1>5, <1>10, <1>14, <1>16, <1>17, <1>18, DocumentStep

LEMMA DocumentInit == Init => DocumentInv
<1> SUFFICES ASSUME Init PROVE DocumentInv
  OBVIOUS
<1>1. \A h \in Handlers : InsertOK(hdl[h]) /\ DecideOK(hdl[h], row[hdl[h].req])
  <2>1. \A h \in Handlers : hdl[h] = Idle
    BY DEF Init
  <2>2. Idle.pc \notin {"insert", "decide"}
    BY DEF Idle
  <2> QED
    BY <2>1, <2>2, OtherPc
<1>2. ASSUME NEW r \in Requests PROVE RowOK(row[r], events[r])
  <2>1. \/ row[r] = NoRow
        \/ \E u \in Users, g \in GroupIds, A \in SUBSET Users : row[r] = LegacyRow(u, g, A)
    BY DEF Init
  <2>2. row[r].status \in {"absent", "pending"} /\ row[r].version = 1
    <3>1. NoRow.status = "absent" /\ NoRow.version = 1
      BY DEF NoRow
    <3>2. \A u, g, A : LegacyRow(u, g, A).status = "pending" /\ LegacyRow(u, g, A).version = 1
      BY DEF LegacyRow, NoRow
    <3> QED
      BY <2>1, <3>1, <3>2
  <2>3. events[r]["step_approved"] = 0
    BY DEF Init, EventTypes
  <2> QED
    BY <2>2, <2>3 DEF RowOK
<1> QED
  BY <1>1, <1>2 DEF DocumentInv

LEMMA DocumentNext == IInv /\ DocumentInv /\ [Next]_vars => DocumentInv'
<1> SUFFICES ASSUME IInv, DocumentInv, [Next]_vars PROVE DocumentInv'
  OBVIOUS
<1>1. CASE UNCHANGED vars
  BY <1>1 DEF vars, DocumentInv
<1>2. ASSUME NEW h \in Handlers,
             \/ CreateDuplicate(h) \/ LoseRace(h) \/ Reread(h) \/ StartLost(h)
             \/ ResolveProvider(h) \/ CallRelay(h) \/ TxFails(h) \/ Crash(h)
      PROVE  DocumentInv'
  <2>1. row' = row /\ events' = events
    BY <1>2 DEF CreateDuplicate, LoseRace, Reread, StartLost, ResolveProvider, CallRelay, TxFails, Crash
  <2>2. {"start", "store_failure", "relay", "finalize"} \subseteq Pcs \ {"insert", "decide"}
    BY DEF Pcs
  <2>3. Return(h) \/ \E pc \in {"start", "store_failure", "relay", "finalize"} : Goto(h, pc)
    BY <1>2 DEF CreateDuplicate, LoseRace, Reread, StartLost, ResolveProvider, CallRelay,
                TxFails, Crash, AfterFailedStart
  <2> QED
    BY <2>1, <2>2, <2>3, DocumentReturn
<1>3. ASSUME NEW h \in Handlers, Proceed(h) PROVE DocumentInv'
  BY <1>2, <1>3, DocumentInsert, DocumentStatus, DocumentDecide DEF Proceed
<1> QED
  BY <1>1, <1>2, <1>3, DocumentCall DEF Next

(* The documents stay in order with their counts, and every decision still   *)
(* to be written has its own document to replace or another revision to lose *)
(* against.                                                                  *)
THEOREM DocumentsInductive == Spec => []FullInv
<1>1. Init => FullInv
  BY IInvInit, DocumentInit DEF FullInv
<1>2. FullInv /\ [Next]_vars => FullInv'
  BY IInvStep, DocumentNext DEF FullInv
<1> QED
  BY <1>1, <1>2, PTL DEF Spec

(* Every decision that was audited is in the document, however many handlers *)
(* computed theirs from the same read (decideWorkflowRequest).               *)
THEOREM DecisionsAreKept == Spec => []NoLostDecision
<1>1. FullInv => NoLostDecision
  BY DEF FullInv, DocumentInv, RowOK, ApprovedSteps, NoLostDecision
<1> QED
  BY <1>1, DocumentsInductive, PTL

(* A request the Relay was asked about was approved by those who may approve *)
(* it, step by step (workflow.go Decide, priorApprovingStepFor).             *)
THEOREM ApprovalsAreLawful == Spec => []ApprovalJustified
<1>1. FullInv => ApprovalJustified
  <2> SUFFICES ASSUME FullInv, NEW r \in Requests, row[r].version = 2
               PROVE  LET w == row[r].workflow IN
                      /\ ValidWorkflow(w)
                      /\ \A j \in 1..Len(w.steps) :
                            LawfulDecision(w.steps[j], row[r].requester) /\ LawfulSkip(w.steps, j)
                      /\ NobodyAskedTwice(w.steps)
                      /\ calls[r] > 0 => FullyApproved(w)
    BY DEF ApprovalJustified
  <2> USE DEF FullInv
  <2>1. RowOK(row[r], events[r]) /\ AuditOK(row[r].status, events[r], calls[r], resets[r])
    BY DEF DocumentInv, IInv, AuditInv
  <2>2. DocOK(row[r].workflow, row[r].requester)
    BY <2>1 DEF RowOK
  <2>3. calls[r] > 0 => FullyApproved(row[r].workflow)
    <3>1. calls[r] \in Nat /\ events[r]["reset_started"] \in Nat /\ events[r]["approved"] \in Nat
      BY DEF IInv, TypeOK, EventTypes
    <3>2. calls[r] > 0 => row[r].status \in {"approved_resetting", "approved_reset_failed", "approved_reset_succeeded"}
      BY <2>1, <3>1 DEF AuditOK, One
    <3> QED
      BY <2>1, <3>2 DEF RowOK
  <2> QED
    BY <2>2, <2>3, Zenon DEF DocOK
<1> QED
  BY <1>1, DocumentsInductive, PTL

(* A step that changes what somebody is asked to do writes a new Work Items  *)
(* revision in the same transaction: the two writes that leave the revision  *)
(* alone, the first start of a reset and a stored success, move a row        *)
(* between two statuses nobody is asked about.                               *)
THEOREM CountsFollowRequests == Spec => RevisionTracksWorkItems
<1>1. IInv /\ [Next]_vars => [WorkItems' # WorkItems => wiRev' # wiRev]_vars
  <2> SUFFICES ASSUME IInv, Next, wiRev' = wiRev
               PROVE  WorkItems' = WorkItems
    BY DEF vars
  <2>0. wiRev \in Nat /\ wiRev + 1 # wiRev
    BY DEF IInv, TypeOK
  <2>1. ASSUME row' = row PROVE WorkItems' = WorkItems
    BY <2>1 DEF WorkItems
  <2>2. ASSUME NEW r \in Requests, NEW s, row' = [row EXCEPT ![r].status = s],
               row[r].status = "approved_resetting",
               s \in {"approved_resetting", "approved_reset_succeeded"}
        PROVE  WorkItems' = WorkItems
    <3>1. row \in [Requests -> Row] /\ row[r] \in Row
      BY DEF IInv, TypeOK
    <3>2. row' = [row EXCEPT ![r] = [row[r] EXCEPT !.status = s]]
      BY <2>2, <3>1
    <3>3. /\ \A q \in Requests \ {r} : row'[q] = row[q]
          /\ row'[r].status = s
      BY <3>1, <3>2 DEF Row
    <3>4. ASSUME NEW q \in Requests
          PROVE  /\ (row'[q].status \in ActionableStatuses) = (row[q].status \in ActionableStatuses)
                 /\ Assignees(row'[q]) = Assignees(row[q])
      <4>1. CASE q # r
        BY <3>3, <4>1
      <4>2. CASE q = r
        <5>1. row[r].status \notin {"pending", "workflow_pending", "approved_reset_failed"}
              /\ row'[r].status \notin {"pending", "workflow_pending", "approved_reset_failed"}
          BY <2>2, <3>3
        <5>2. Assignees(row'[r]) = {} /\ Assignees(row[r]) = {}
          BY <5>1 DEF Assignees
        <5>3. row'[r].status \notin ActionableStatuses /\ row[r].status \notin ActionableStatuses
          BY <5>1 DEF ActionableStatuses
        <5> QED
          BY <4>2, <5>2, <5>3
      <4> QED
        BY <4>1, <4>2
    <3> QED
      BY <3>4, Zenon DEF WorkItems
  <2>3. PICK h \in Handlers : Call(h) \/ Proceed(h) \/ TxFails(h) \/ Crash(h)
    BY DEF Next
  <2>4. CASE Call(h) \/ TxFails(h) \/ Crash(h)
    <3>1. Call(h) => row' = row
      <4>1. ASSUME NEW u, NEW g, NEW route, CreateCheck(h, u, g, route) PROVE row' = row
        BY <4>1, Zenon DEF CreateCheck
      <4>2. ASSUME NEW u, NEW r, CancelLoad(h, u, r) PROVE row' = row
        BY <4>2, Zenon DEF CancelLoad
      <4>3. ASSUME NEW op, NEW u, NEW admin, NEW r, DecideLoad(h, op, u, admin, r) PROVE row' = row
        BY <4>3, Zenon DEF DecideLoad
      <4>4. ASSUME NEW u, NEW admin, NEW r, RetryLoad(h, u, admin, r) PROVE row' = row
        BY <4>4, Zenon DEF RetryLoad
      <4>5. QED
        BY <4>1, <4>2, <4>3, <4>4, Zenon DEF Call
    <3>2. TxFails(h) \/ Crash(h) => row' = row
      BY Zenon DEF TxFails, Crash
    <3> QED
      BY <2>1, <2>4, <3>1, <3>2
  <2>5. CASE Proceed(h)
    <3>1. CASE \E r \in Requests : CreateInsert(h, r)
      BY <2>0, <3>1 DEF CreateInsert, InvalidateWorkItemCounts
    <3>2. CASE CancelCommit(h) \/ DecideLegacyCommit(h)
      BY <2>0, <3>2 DEF CancelCommit, DecideLegacyCommit, InvalidateWorkItemCounts
    <3>3. CASE DecideWorkflowCommit(h)
      <4>1. wiRev' = wiRev + 1
        BY <3>3, Zenon DEF DecideWorkflowCommit, InvalidateWorkItemCounts
      <4> QED
        BY <2>0, <4>1
    <3>4. CASE CreateDuplicate(h) \/ LoseRace(h) \/ Reread(h) \/ StartLost(h) \/ ResolveProvider(h) \/ CallRelay(h)
      BY <2>1, <3>4 DEF CreateDuplicate, LoseRace, Reread, StartLost, ResolveProvider, CallRelay
    <3>5. CASE StartReset(h)
      <4>1. hdl[h].op # "retry"
        BY <2>0, <3>5 DEF StartReset, InvalidateWorkItemCounts
      <4>2. row' = [row EXCEPT ![hdl[h].req].status = "approved_resetting"] /\ row[hdl[h].req].status = "approved_resetting"
        BY <3>5, <4>1 DEF StartReset, Required, RequiredStatus
      <4> QED
        BY <2>2, <4>2, HandlerFacts
    <3>6. CASE StoreSuccess(h) \/ StoreFailure(h)
      <4>1. PICK s, t : /\ s = "approved_reset_succeeded" \/ s = "approved_reset_failed"
                        /\ Finalize(h, s, t)
        BY <3>6 DEF StoreSuccess, StoreFailure
      <4>2. CASE row[hdl[h].req].status # "approved_resetting"
        BY <2>1, <4>1, <4>2 DEF Finalize
      <4>3. CASE row[hdl[h].req].status = "approved_resetting"
        <5>1. row' = [row EXCEPT ![hdl[h].req].status = s] /\ s # "approved_reset_failed"
          BY <2>0, <4>1, <4>3 DEF Finalize, InvalidateWorkItemCounts
        <5> QED
          BY <2>2, <4>1, <4>3, <5>1, HandlerFacts
      <4> QED
        BY <4>2, <4>3
    <3> QED
      BY <2>5, <3>1, <3>2, <3>3, <3>4, <3>5, <3>6 DEF Proceed
  <2> QED
    BY <2>3, <2>4, <2>5
<1>2. QED
  BY <1>1, Inductive, PTL DEF Spec, RevisionTracksWorkItems

-----------------------------------------------------------------------------
(* The lifecycle of one request: every step of a handler is a step of it,   *)
(* or none.                                                                  *)

(* The mapping, as one function each.                                        *)
PhaseMap   == [r \in Requests |-> PhaseOf(row[r].status)]
AttemptMap == [r \in Requests |-> Attempt(r)]

(* The attempt a single handler stands for.                                  *)
Stage(x) ==
    IF ~ Executes(x) \/ x.pc = "store_failure" THEN "none"
    ELSE IF x.pc = "finalize" THEN "called"
    ELSE "ready"

(* A handler that executes nothing before or after its step, and changes no  *)
(* status, changes nothing abstract.                                         *)
LEMMA NothingMoves ==
    ASSUME IInv, NEW h \in Handlers, NEW x \in Handler, hdl' = [hdl EXCEPT ![h] = x],
           ~ Executing(h), ~ Executes(x),
           \A q \in Requests : row'[q].status = row[q].status
    PROVE  PhaseMap' = PhaseMap /\ AttemptMap' = AttemptMap
<1>1. hdl'[h] = x /\ \A k \in Handlers \ {h} : hdl'[k] = hdl[k]
  BY HandlerFacts
<1>2. \A k \in Handlers : Executing(k)' <=> Executing(k)
  BY <1>1 DEF Executing
<1>3. \A q, pcs : ExecutorAt(q, pcs)' <=> ExecutorAt(q, pcs)
  <2> SUFFICES ASSUME NEW q, NEW pcs PROVE ExecutorAt(q, pcs)' <=> ExecutorAt(q, pcs)
    OBVIOUS
  <2>1. \A k \in Handlers : Executing(k) => hdl'[k] = hdl[k]
    BY <1>1
  <2>2. QED
    BY <1>2, <2>1 DEF ExecutorAt
<1>4. \A q \in Requests : Attempt(q)' = Attempt(q)
  BY <1>3 DEF Attempt
<1>5. QED
  BY <1>4 DEF PhaseMap, AttemptMap

(* The abstract state of one request changes.                                *)
Moves(r, to, after) ==
    /\ PhaseMap' = [PhaseMap EXCEPT ![r] = to]
    /\ AttemptMap' = [AttemptMap EXCEPT ![r] = after]

(* A handler that is the executor of a request, or works on a request that   *)
(* is not in resetting, moves the abstract state of that request alone.      *)
LEMMA OneMoves ==
    ASSUME IInv, NEW h \in Handlers, NEW r \in Requests, NEW x \in Handler,
           hdl' = [hdl EXCEPT ![h] = x],
           \A q \in Requests \ {r} : row'[q].status = row[q].status,
           Executing(h) => hdl[h].req = r,
           Executes(x) => x.req = r,
           row[r].status # "approved_resetting" \/ Executing(h)
    PROVE  /\ PhaseMap[r] = PhaseOf(row[r].status)
           /\ AttemptMap[r] = Stage(hdl[h])
           /\ Moves(r, PhaseOf(row'[r].status), Stage(x))
<1>1. hdl'[h] = x /\ \A k \in Handlers \ {h} : hdl'[k] = hdl[k]
  BY HandlerFacts
<1>2. /\ \A k \in Handlers \ {h} : Executing(k)' <=> Executing(k)
      /\ Executing(h)' <=> Executes(x)
      /\ Executing(h) <=> Executes(hdl[h])
  BY <1>1 DEF Executing
<1>3. \A k \in Handlers \ {h} : Executing(k) => hdl[k].req # r
  BY NobodyExecutes DEF IInv, ResetExclusive
<1>4. ASSUME NEW q \in Requests \ {r}
      PROVE  Attempt(q)' = Attempt(q)
  <2>1. ASSUME NEW pcs PROVE ExecutorAt(q, pcs)' <=> ExecutorAt(q, pcs)
    BY <1>1, <1>2 DEF ExecutorAt
  <2>2. QED
    BY <2>1 DEF Attempt
<1>5. ASSUME NEW pcs
      PROVE  /\ ExecutorAt(r, pcs) <=> Executes(hdl[h]) /\ hdl[h].pc \in pcs
             /\ ExecutorAt(r, pcs)' <=> Executes(x) /\ x.pc \in pcs
  BY <1>1, <1>2, <1>3 DEF ExecutorAt
<1>6. \A y : Executes(y) => y.pc \in {"reread", "start", "resolve", "relay", "finalize", "store_failure"}
  BY DEF Executes
<1>7. Attempt(r) = Stage(hdl[h])
  BY <1>5, <1>6 DEF Attempt, Stage
<1>8. Attempt(r)' = Stage(x)
  BY <1>5, <1>6 DEF Attempt, Stage
<1>9. AttemptMap' = [AttemptMap EXCEPT ![r] = Stage(x)]
  BY <1>4, <1>8 DEF AttemptMap
<1>10. PhaseMap' = [PhaseMap EXCEPT ![r] = PhaseOf(row'[r].status)]
  BY DEF PhaseMap
<1>11. QED
  BY <1>7, <1>9, <1>10 DEF PhaseMap, AttemptMap, Moves

(* Such a move is a Move of the lifecycle.                                   *)
LEMMA LifecycleMove ==
    ASSUME NEW r \in Requests, NEW to, NEW after, NEW before, AttemptMap[r] \in before,
           Moves(r, to, after)
    PROVE  Lifecycle!Move(r, PhaseMap[r], to, before, after)
BY DEF Lifecycle!Move, PhaseMap, AttemptMap, Moves

(* A move to where the request already is is none.                           *)
LEMMA MoveToSelf ==
    ASSUME NEW r \in Requests, Moves(r, PhaseMap[r], AttemptMap[r]), calls' = calls
    PROVE  [Lifecycle!Next]_(Lifecycle!vars)
<1>1. PhaseMap' = PhaseMap /\ AttemptMap' = AttemptMap
  BY DEF Moves, PhaseMap, AttemptMap
<1>2. QED
  BY <1>1 DEF Lifecycle!vars, PhaseMap, AttemptMap

LEMMA StutterStep ==
    ASSUME PhaseMap' = PhaseMap, AttemptMap' = AttemptMap, calls' = calls
    PROVE  [Lifecycle!Next]_(Lifecycle!vars)
BY DEF Lifecycle!vars, PhaseMap, AttemptMap

LEMMA MoveStep ==
    ASSUME NEW r \in Requests,
           Lifecycle!Submit(r) \/ Lifecycle!Cancel(r) \/ Lifecycle!Reject(r)
             \/ Lifecycle!Approve(r) \/ Lifecycle!Retry(r) \/ Lifecycle!CallRelay(r)
             \/ Lifecycle!Abandon(r) \/ Lifecycle!Succeed(r) \/ Lifecycle!Fail(r)
    PROVE  [Lifecycle!Next]_(Lifecycle!vars)
BY DEF Lifecycle!Next

(* What every handler's step below starts from.                              *)
LEMMA MoveFacts ==
    ASSUME IInv, NEW h \in Handlers
    PROVE  /\ Return(h) => hdl' = [hdl EXCEPT ![h] = Idle]
           /\ Idle \in Handler /\ ~ Executes(Idle) /\ Stage(Idle) = "none"
           /\ \A pc \in Pcs : Goto(h, pc) =>
                \E x \in Handler : /\ hdl' = [hdl EXCEPT ![h] = x]
                      /\ x.pc = pc /\ x.op = hdl[h].op /\ x.req = hdl[h].req
<1>1. ASSUME NEW pc \in Pcs, Goto(h, pc)
      PROVE  LET x == [hdl[h] EXCEPT !.pc = pc]
             IN  /\ hdl' = [hdl EXCEPT ![h] = x]
                 /\ x.pc = pc /\ x.op = hdl[h].op /\ x.req = hdl[h].req
  BY <1>1, HandlerFacts DEF Goto, Handler
<1>2. ~ Executes(Idle) /\ Stage(Idle) = "none"
  <2>1. Idle.pc = "idle"
    BY DEF Idle
  <2>2. QED
    BY <2>1 DEF Executes, Stage
<1>3. Return(h) => hdl' = [hdl EXCEPT ![h] = Idle]
  BY DEF Return
<1>4. ASSUME NEW pc \in Pcs, Goto(h, pc)
      PROVE  \E x \in Handler : /\ hdl' = [hdl EXCEPT ![h] = x]
                   /\ x.pc = pc /\ x.op = hdl[h].op /\ x.req = hdl[h].req
  <2> DEFINE y == [hdl[h] EXCEPT !.pc = pc]
  <2>1. /\ y \in Handler /\ hdl' = [hdl EXCEPT ![h] = y]
        /\ y.pc = pc /\ y.op = hdl[h].op /\ y.req = hdl[h].req
    BY <1>1, <1>4, HandlerFacts
  <2> HIDE DEF y
  <2>2. QED
    BY <2>1
<1>5. QED
  BY <1>2, <1>3, <1>4, HandlerFacts

(* The step that decides, or creates, is one lifecycle move.                 *)
LEMMA DecisionImplements ==
    ASSUME IInv, NEW h \in Handlers,
           \/ \E r \in Requests : CreateInsert(h, r)
           \/ CancelCommit(h) \/ DecideLegacyCommit(h) \/ DecideWorkflowCommit(h)
    PROVE  [Lifecycle!Next]_(Lifecycle!vars)
<1> DEFINE r0 == hdl[h].req
<1>a. /\ r0 \in Requests /\ row \in [Requests -> Row] /\ row[r0] \in Row
      /\ HandlerOK(hdl[h], events[r0]["reset_started"], calls[r0], resets[r0])
  BY HandlerFacts
<1>b. ~ Executing(h) /\ Stage(hdl[h]) = "none" /\ calls' = calls
  BY DEF CreateInsert, CancelCommit, DecideLegacyCommit, DecideWorkflowCommit, Executing, Executes, Stage
<1>c. "reread" \in Pcs
  BY DEF Pcs
<1>1. ASSUME NEW r \in Requests, CreateInsert(h, r)
      PROVE  Lifecycle!Submit(r)
  <2>1. row[r].status = "absent" /\ row'[r].status = "workflow_pending"
        /\ (\A q \in Requests \ {r} : row'[q].status = row[q].status) /\ Return(h)
    BY <1>1, <1>a DEF CreateInsert, HandlerOK
  <2>2. /\ PhaseMap[r] = "absent" /\ AttemptMap[r] = "none"
        /\ Moves(r, "pending", "none")
    BY <2>1, <1>b, MoveFacts, OneMoves DEF PhaseOf
  <2>3. Lifecycle!Move(r, PhaseMap[r], "pending", {"none"}, "none")
    BY <2>2, LifecycleMove
  <2>4. QED
    BY <2>2, <2>3, <1>b DEF Lifecycle!Submit
<1>2. ASSUME row[r0].status \in {"pending", "workflow_pending"},
             row'[r0].status \in {"pending", "workflow_pending", "rejected", "cancelled"},
             \A q \in Requests \ {r0} : row'[q].status = row[q].status,
             Return(h)
      PROVE  [Lifecycle!Next]_(Lifecycle!vars)
  <2>0. /\ hdl' = [hdl EXCEPT ![h] = Idle] /\ Idle \in Handler
        /\ ~ Executes(Idle) /\ Stage(Idle) = "none"
    BY <1>2, MoveFacts
  <2>1. /\ PhaseMap[r0] = "pending" /\ AttemptMap[r0] = "none"
        /\ Moves(r0, PhaseOf(row'[r0].status), "none")
    <3>1. PhaseMap[r0] = PhaseOf(row[r0].status) /\ AttemptMap[r0] = Stage(hdl[h])
          /\ Moves(r0, PhaseOf(row'[r0].status), Stage(Idle))
      BY <1>2, <1>a, <1>b, <2>0, OneMoves
    <3>2. QED
      BY <1>2, <1>b, <2>0, <3>1 DEF PhaseOf
  <2>2. CASE row'[r0].status \in {"pending", "workflow_pending"}
    <3>1. PhaseOf(row'[r0].status) = "pending"
      BY <2>2 DEF PhaseOf
    <3>2. Moves(r0, PhaseMap[r0], AttemptMap[r0])
      BY <2>1, <3>1
    <3>3. QED
      BY <3>2, <1>a, <1>b, MoveToSelf
  <2>3. CASE row'[r0].status = "rejected"
    <3>1. PhaseOf(row'[r0].status) = "rejected"
      BY <2>3 DEF PhaseOf
    <3>2. Lifecycle!Move(r0, "pending", "rejected", {"none"}, "none")
      BY <2>1, <3>1, <1>a, LifecycleMove
    <3>3. QED
      BY <3>2, <1>a, <1>b, MoveStep DEF Lifecycle!Reject
  <2>4. CASE row'[r0].status = "cancelled"
    <3>1. PhaseOf(row'[r0].status) = "cancelled"
      BY <2>4 DEF PhaseOf
    <3>2. Lifecycle!Move(r0, "pending", "cancelled", {"none"}, "none")
      BY <2>1, <3>1, <1>a, LifecycleMove
    <3>3. QED
      BY <3>2, <1>a, <1>b, MoveStep DEF Lifecycle!Cancel
  <2>5. QED
    BY <1>2, <2>2, <2>3, <2>4
<1>3. ASSUME row[r0].status \in {"pending", "workflow_pending"},
             row'[r0].status = "approved_resetting",
             \A q \in Requests \ {r0} : row'[q].status = row[q].status,
             Goto(h, "reread"), hdl[h].op = "approve"
      PROVE  [Lifecycle!Next]_(Lifecycle!vars)
  <2>1. PICK x \in Handler : hdl' = [hdl EXCEPT ![h] = x] /\ x.pc = "reread" /\ x.op = "approve" /\ x.req = r0
    BY <1>3, <1>c, MoveFacts
  <2>2. Stage(x) = "ready"
    BY <2>1 DEF Stage, Executes
  <2>3. /\ PhaseMap[r0] = "pending" /\ AttemptMap[r0] = "none"
        /\ Moves(r0, "resetting", "ready")
    <3>1. row[r0].status # "approved_resetting" /\ PhaseOf(row[r0].status) = "pending"
          /\ PhaseOf("approved_resetting") = "resetting"
      BY <1>3 DEF PhaseOf
    <3>2. /\ hdl' = [hdl EXCEPT ![h] = x]
          /\ ~ Executing(h) /\ x.req = r0 /\ r0 \in Requests
          /\ \A q \in Requests \ {r0} : row'[q].status = row[q].status
          /\ row'[r0].status = "approved_resetting"
          /\ Stage(x) = "ready" /\ Stage(hdl[h]) = "none"
      BY <1>3, <1>a, <1>b, <2>1, <2>2
    <3> HIDE DEF r0
    <3>3. QED
      BY <3>1, <3>2, OneMoves
  <2>4. Lifecycle!Move(r0, PhaseMap[r0], "resetting", {"none"}, "ready")
    BY <2>3, <1>a, LifecycleMove
  <2>5. QED
    BY <2>3, <2>4, <1>a, <1>b, MoveStep DEF Lifecycle!Approve
<1>4. CASE CancelCommit(h)
  BY <1>4, <1>a, <1>2 DEF CancelCommit, Unchanged, HandlerOK, Row
<1>5. CASE DecideLegacyCommit(h)
  <2>1. row[r0].status \in {"pending", "workflow_pending"} /\ hdl[h].op \in {"approve", "reject"}
    BY <1>5, <1>a DEF DecideLegacyCommit, Unchanged, HandlerOK
  <2>2. /\ row'[r0].status = IF hdl[h].op = "approve" THEN "approved_resetting" ELSE "rejected"
        /\ \A q \in Requests \ {r0} : row'[q].status = row[q].status
        /\ IF hdl[h].op = "approve" THEN Goto(h, "reread") ELSE Return(h)
    BY <1>5, <1>a DEF DecideLegacyCommit, Closed, Row
  <2>3. QED
    BY <2>1, <2>2, <1>2, <1>3
<1>6. CASE DecideWorkflowCommit(h)
  <2> DEFINE w == Decide(hdl[h].snap.workflow, hdl[h].actor, hdl[h].admin, hdl[h].op = "approve")
  <2>1. row[r0].status \in {"pending", "workflow_pending"} /\ hdl[h].op \in {"approve", "reject"}
    BY <1>6, <1>a DEF DecideWorkflowCommit, Unchanged, HandlerOK
  <2>2. hdl[h].op = "reject" => Terminal(w)
    <3>1. hdl[h].snap.workflow \in Workflow /\ hdl[h].actor \in Users \cup {NoUser} /\ hdl[h].admin \in BOOLEAN
      BY HandlerFacts DEF Handler, Row
    <3>2. QED
      BY <3>1, RejectIsTerminal
  <2>3. /\ row'[r0].status = IF Terminal(w)
                              THEN IF hdl[h].op = "approve" THEN "approved_resetting" ELSE "rejected"
                              ELSE row[r0].status
        /\ \A q \in Requests \ {r0} : row'[q].status = row[q].status
        /\ IF hdl[h].op = "approve" /\ Terminal(w) THEN Goto(h, "reread") ELSE Return(h)
    BY <1>6, <1>a DEF DecideWorkflowCommit, Row, Closed
  <2> HIDE DEF w
  <2>4. QED
    BY <2>1, <2>2, <2>3, <1>2, <1>3
<1>7. QED
  BY <1>1, <1>4, <1>5, <1>6, MoveStep

(* The steps of an execution.                                                *)
LEMMA ExecutionImplements ==
    ASSUME IInv, NEW h \in Handlers,
           Reread(h) \/ StartReset(h) \/ ResolveProvider(h) \/ CallRelay(h)
             \/ StoreSuccess(h) \/ StoreFailure(h)
    PROVE  [Lifecycle!Next]_(Lifecycle!vars)
<1> DEFINE r0 == hdl[h].req
<1>a. /\ r0 \in Requests /\ row \in [Requests -> Row] /\ row[r0] \in Row
      /\ HandlerOK(hdl[h], events[r0]["reset_started"], calls[r0], resets[r0])
  BY HandlerFacts
<1>b. Executing(h) => row[r0].status = "approved_resetting"
  BY DEF IInv, ResetExclusive
<1>c. {"start", "resolve", "relay", "finalize", "store_failure"} \subseteq Pcs
  BY DEF Pcs
<1>1. ASSUME NEW x \in Handler, hdl' = [hdl EXCEPT ![h] = x], Executes(x) => x.req = r0,
             Executing(h), UNCHANGED row
      PROVE  /\ PhaseMap[r0] = "resetting" /\ AttemptMap[r0] = Stage(hdl[h])
             /\ Moves(r0, "resetting", Stage(x))
  <2>1. PhaseMap[r0] = PhaseOf(row[r0].status) /\ AttemptMap[r0] = Stage(hdl[h])
        /\ Moves(r0, PhaseOf(row'[r0].status), Stage(x))
    BY <1>1, <1>a, <1>b, OneMoves
  <2>2. PhaseOf(row[r0].status) = "resetting" /\ row'[r0].status = row[r0].status
    BY <1>1, <1>b DEF PhaseOf
  <2>3. QED
    BY <2>1, <2>2
<1>2. CASE Reread(h)
  <2>1. UNCHANGED <<row, calls>> /\ hdl[h].pc = "reread" /\ hdl[h].op \in {"approve", "retry"}
    BY <1>2, <1>a DEF Reread, HandlerOK
  <2>2. CASE hdl[h].op = "approve"
    <3>1. Executing(h) /\ Stage(hdl[h]) = "ready"
      BY <2>1, <2>2 DEF Executing, Executes, Stage
    <3>2. CASE Goto(h, "start")
      <4>1. PICK x \in Handler : /\ hdl' = [hdl EXCEPT ![h] = x]
                                 /\ x.pc = "start" /\ x.op = "approve" /\ x.req = r0
        BY <2>2, <3>2, <1>c, MoveFacts
      <4>2. Stage(x) = "ready"
        BY <4>1 DEF Stage, Executes
      <4>3. Moves(r0, PhaseMap[r0], AttemptMap[r0])
        BY <1>1, <2>1, <3>1, <4>1, <4>2
      <4>4. QED
        BY <2>1, <4>3, <1>a, MoveToSelf
    <3>3. CASE Return(h)
      <4>1. /\ hdl' = [hdl EXCEPT ![h] = Idle] /\ Idle \in Handler
            /\ ~ Executes(Idle) /\ Stage(Idle) = "none"
        BY <3>3, MoveFacts
      <4>2. /\ PhaseMap[r0] = "resetting" /\ AttemptMap[r0] = "ready"
            /\ Moves(r0, "resetting", "none")
        BY <1>1, <2>1, <3>1, <4>1
      <4>3. Lifecycle!Move(r0, "resetting", "resetting", {"ready", "called"}, "none")
        <5> HIDE DEF r0
        <5>1. QED
          BY <4>2, <1>a, LifecycleMove
      <4>4. QED
        BY <2>1, <4>3, <1>a, MoveStep DEF Lifecycle!Abandon
    <3>4. QED
      BY <1>2, <3>2, <3>3 DEF Reread
  <2>3. CASE hdl[h].op = "retry"
    <3>1. ~ Executing(h)
      BY <2>1, <2>3 DEF Executing, Executes
    <3>2. PICK x \in Handler : hdl' = [hdl EXCEPT ![h] = x] /\ ~ Executes(x)
      <4>1. CASE Return(h)
        BY <4>1, MoveFacts
      <4>2. CASE Goto(h, "start")
        BY <4>2, <2>3, <1>c, MoveFacts DEF Executes
      <4>3. QED
        BY <1>2, <4>1, <4>2 DEF Reread
    <3>3. PhaseMap' = PhaseMap /\ AttemptMap' = AttemptMap
      BY <2>1, <3>1, <3>2, NothingMoves
    <3>4. QED
      BY <2>1, <3>3, StutterStep
  <2>4. QED
    BY <2>1, <2>2, <2>3
<1>3. CASE StartReset(h)
  <2>1. /\ row'[r0].status = "approved_resetting" /\ calls' = calls /\ hdl[h].pc = "start"
        /\ \A q \in Requests \ {r0} : row'[q].status = row[q].status
        /\ row[r0].status = RequiredStatus(h) /\ Goto(h, "resolve")
    BY <1>3, <1>a DEF StartReset, Required, Row
  <2>2. PICK x \in Handler : hdl' = [hdl EXCEPT ![h] = x] /\ x.pc = "resolve" /\ x.req = r0
    BY <2>1, <1>c, MoveFacts
  <2>3. Stage(x) = "ready" /\ hdl[h].op \in {"approve", "retry"}
    BY <2>1, <2>2, <1>a DEF Stage, Executes, HandlerOK
  <2>4. row[r0].status # "approved_resetting" \/ Executing(h)
    BY <2>1, <2>3 DEF RequiredStatus, Executing, Executes
  <2>5. /\ PhaseMap[r0] = PhaseOf(row[r0].status) /\ AttemptMap[r0] = Stage(hdl[h])
        /\ Moves(r0, PhaseOf("approved_resetting"), "ready")
    <3>1. /\ hdl' = [hdl EXCEPT ![h] = x]
          /\ Executing(h) => hdl[h].req = r0
          /\ Executes(x) => x.req = r0
          /\ row[r0].status # "approved_resetting" \/ Executing(h)
          /\ \A q \in Requests \ {r0} : row'[q].status = row[q].status
          /\ row'[r0].status = "approved_resetting" /\ Stage(x) = "ready" /\ r0 \in Requests
      BY <2>1, <2>2, <2>3, <2>4, <1>a
    <3> HIDE DEF r0
    <3>2. QED
      BY <3>1, OneMoves
  <2>6. CASE hdl[h].op = "approve"
    <3>1. PhaseMap[r0] = "resetting" /\ AttemptMap[r0] = "ready" /\ PhaseOf("approved_resetting") = "resetting"
      BY <2>1, <2>5, <2>6 DEF RequiredStatus, PhaseOf, Stage, Executes
    <3>2. Moves(r0, PhaseMap[r0], AttemptMap[r0])
      BY <2>5, <3>1
    <3>3. QED
      BY <2>1, <3>2, <1>a, MoveToSelf
  <2>7. CASE hdl[h].op = "retry"
    <3>1. PhaseMap[r0] = "failed" /\ AttemptMap[r0] = "none" /\ PhaseOf("approved_resetting") = "resetting"
      BY <2>1, <2>5, <2>7 DEF RequiredStatus, PhaseOf, Stage, Executes
    <3>2. Lifecycle!Move(r0, PhaseMap[r0], "resetting", {"none"}, "ready")
      BY <2>5, <3>1, <1>a, LifecycleMove
    <3>3. QED
      BY <2>1, <3>1, <3>2, <1>a, MoveStep DEF Lifecycle!Retry
  <2>8. QED
    BY <2>3, <2>6, <2>7
<1>4. CASE ResolveProvider(h)
  <2>1. PICK pc \in {"relay", "store_failure"} :
           Goto(h, pc) /\ UNCHANGED <<row, calls>> /\ hdl[h].pc = "resolve"
    BY <1>4 DEF ResolveProvider
  <2>2. Executing(h) /\ Stage(hdl[h]) = "ready"
    BY <2>1 DEF Executing, Executes, Stage
  <2>3. PICK x \in Handler : hdl' = [hdl EXCEPT ![h] = x] /\ x.pc = pc /\ x.req = r0
    BY <2>1, <1>c, MoveFacts
  <2>4. Stage(x) = IF pc = "relay" THEN "ready" ELSE "none"
    BY <2>3 DEF Stage, Executes
  <2>5. CASE pc = "relay"
    <3>1. Moves(r0, PhaseMap[r0], AttemptMap[r0])
      BY <1>1, <2>1, <2>2, <2>3, <2>4, <2>5
    <3>2. QED
      BY <2>1, <3>1, <1>a, MoveToSelf
  <2>6. CASE pc = "store_failure"
    <3>1. Lifecycle!Move(r0, "resetting", "resetting", {"ready", "called"}, "none")
      <4>1. /\ PhaseMap[r0] = "resetting" /\ AttemptMap[r0] = "ready"
            /\ Moves(r0, "resetting", "none")
        BY <1>1, <2>1, <2>2, <2>3, <2>4, <2>6
      <4> HIDE DEF r0
      <4>2. QED
        BY <4>1, <1>a, LifecycleMove
    <3>2. QED
      BY <2>1, <3>1, <1>a, MoveStep DEF Lifecycle!Abandon
  <2>7. QED
    BY <2>5, <2>6
<1>5. CASE CallRelay(h)
  <2>1. PICK pc \in {"finalize", "store_failure"} :
           /\ Goto(h, pc) /\ UNCHANGED row /\ hdl[h].pc = "relay"
           /\ calls' = [calls EXCEPT ![r0] = @ + 1]
    BY <1>5 DEF CallRelay
  <2>2. Executing(h) /\ Stage(hdl[h]) = "ready"
    BY <2>1 DEF Executing, Executes, Stage
  <2>3. PICK x \in Handler : hdl' = [hdl EXCEPT ![h] = x] /\ x.pc = pc /\ x.req = r0
    BY <2>1, <1>c, MoveFacts
  <2>4. Stage(x) \in {"called", "none"}
    BY <2>3 DEF Stage, Executes
  <2>5. Lifecycle!Move(r0, "resetting", "resetting", {"ready"}, Stage(x))
    <3>1. /\ PhaseMap[r0] = "resetting" /\ AttemptMap[r0] = "ready"
          /\ Moves(r0, "resetting", Stage(x))
      BY <1>1, <2>1, <2>2, <2>3
    <3> HIDE DEF r0
    <3>2. QED
      BY <3>1, <1>a, LifecycleMove
  <2>6. QED
    BY <2>1, <2>4, <2>5, <1>a, MoveStep DEF Lifecycle!CallRelay
<1>6. ASSUME NEW s, NEW t, hdl[h].pc \in {"finalize", "store_failure"}, Finalize(h, s, t)
      PROVE  /\ PhaseMap[r0] = "resetting" /\ AttemptMap[r0] = Stage(hdl[h])
             /\ Moves(r0, PhaseOf(s), "none")
             /\ calls' = calls
  <2>1. Executing(h)
    BY <1>6 DEF Executing, Executes
  <2>2. /\ row'[r0].status = s /\ \A q \in Requests \ {r0} : row'[q].status = row[q].status
        /\ calls' = calls /\ Return(h)
    BY <1>6, <2>1, <1>a, <1>b DEF Finalize, Row
  <2>3. QED
    BY <2>1, <2>2, <1>a, <1>b, MoveFacts, OneMoves DEF PhaseOf
<1>7. CASE StoreSuccess(h)
  <2>1. hdl[h].pc = "finalize" /\ Finalize(h, "approved_reset_succeeded", "reset_succeeded")
    BY <1>7 DEF StoreSuccess
  <2>2. Stage(hdl[h]) = "called" /\ PhaseOf("approved_reset_succeeded") = "succeeded"
    BY <2>1 DEF Stage, Executes, PhaseOf
  <2>3. Lifecycle!Move(r0, "resetting", "succeeded", {"called"}, "none") /\ calls' = calls
    BY <1>6, <2>1, <2>2, <1>a, LifecycleMove
  <2>4. QED
    BY <2>3, <1>a, MoveStep DEF Lifecycle!Succeed
<1>8. CASE StoreFailure(h)
  <2>1. hdl[h].pc = "store_failure" /\ Finalize(h, "approved_reset_failed", "reset_failed")
    BY <1>8 DEF StoreFailure
  <2>2. Stage(hdl[h]) = "none" /\ PhaseOf("approved_reset_failed") = "failed"
    BY <2>1 DEF Stage, PhaseOf
  <2>3. Lifecycle!Move(r0, "resetting", "failed", {"none"}, "none") /\ calls' = calls
    BY <1>6, <2>1, <2>2, <1>a, LifecycleMove
  <2>4. QED
    BY <2>3, <1>a, MoveStep DEF Lifecycle!Fail
<1>9. QED
  BY <1>2, <1>3, <1>4, <1>5, <1>7, <1>8

(* The steps that write nothing: an executor that gives up abandons its      *)
(* attempt, everybody else changes nothing.                                  *)
LEMMA GivingUpImplements ==
    ASSUME IInv, NEW h \in Handlers,
           \/ CreateDuplicate(h) \/ LoseRace(h) \/ StartLost(h)
           \/ TxFails(h) \/ Crash(h)
    PROVE  [Lifecycle!Next]_(Lifecycle!vars)
<1> DEFINE r0 == hdl[h].req
<1>a. /\ r0 \in Requests /\ row \in [Requests -> Row]
      /\ HandlerOK(hdl[h], events[r0]["reset_started"], calls[r0], resets[r0])
  BY HandlerFacts
<1>b. UNCHANGED <<row, calls>>
  BY DEF CreateDuplicate, LoseRace, StartLost, TxFails, Crash
<1>c. "store_failure" \in Pcs
  BY DEF Pcs
<1>1. PICK x \in Handler :
         /\ hdl' = [hdl EXCEPT ![h] = x] /\ Stage(x) = "none"
         /\ \/ ~ Executes(x)
            \/ x.req = r0 /\ Executing(h)
  <2>1. CASE Return(h)
    BY <2>1, MoveFacts
  <2>2. CASE hdl[h].pc = "start" /\ hdl[h].op # "retry" /\ Goto(h, "store_failure")
    <3>1. hdl[h].op = "approve"
      BY <2>2, <1>a DEF HandlerOK
    <3>2. Executing(h)
      BY <2>2, <3>1 DEF Executing, Executes
    <3>3. PICK y \in Handler : hdl' = [hdl EXCEPT ![h] = y] /\ y.pc = "store_failure" /\ y.req = r0
      BY <2>2, <1>c, MoveFacts
    <3>4. Stage(y) = "none"
      BY <3>3 DEF Stage
    <3>5. QED
      BY <3>2, <3>3, <3>4
  <2>3. QED
    BY <2>1, <2>2 DEF CreateDuplicate, LoseRace, StartLost, TxFails, Crash, AfterFailedStart
<1>2. CASE ~ Executing(h)
  <2>1. ~ Executes(x)
    BY <1>1, <1>2
  <2>2. PhaseMap' = PhaseMap /\ AttemptMap' = AttemptMap
    BY <1>1, <1>2, <1>b, <2>1, NothingMoves
  <2>3. QED
    BY <2>2, <1>b, StutterStep
<1>3. CASE Executing(h)
  <2>1. /\ PhaseMap[r0] = PhaseOf(row[r0].status) /\ AttemptMap[r0] = Stage(hdl[h])
        /\ Moves(r0, PhaseOf(row'[r0].status), Stage(x))
    BY <1>1, <1>3, <1>a, <1>b, OneMoves
  <2>2. PhaseOf(row[r0].status) = "resetting" /\ row'[r0].status = row[r0].status
    BY <1>3, <1>b DEF PhaseOf, IInv, ResetExclusive
  <2>3. CASE Stage(hdl[h]) = "none"
    <3>1. Moves(r0, PhaseMap[r0], AttemptMap[r0])
      BY <1>1, <2>1, <2>2, <2>3
    <3>2. QED
      BY <3>1, <1>a, <1>b, MoveToSelf
  <2>4. CASE Stage(hdl[h]) \in {"ready", "called"}
    <3>1. Lifecycle!Move(r0, "resetting", "resetting", {"ready", "called"}, "none")
      <4>1. /\ PhaseMap[r0] = "resetting" /\ AttemptMap[r0] \in {"ready", "called"}
            /\ Moves(r0, "resetting", "none")
        BY <1>1, <2>1, <2>2, <2>4
      <4> HIDE DEF r0
      <4>2. QED
        BY <4>1, <1>a, LifecycleMove
    <3>2. QED
      BY <3>1, <1>a, <1>b, MoveStep DEF Lifecycle!Abandon
  <2>5. QED
    BY <2>3, <2>4 DEF Stage
<1>4. QED
  BY <1>2, <1>3

(* A call that starts only reads.                                            *)
LEMMA CallImplements ==
    ASSUME IInv, NEW h \in Handlers, Call(h)
    PROVE  [Lifecycle!Next]_(Lifecycle!vars)
<1> DEFINE x == hdl'[h]
<1>1. hdl \in [Handlers -> Handler] /\ x \in Handler
  BY TypeCall DEF IInv, TypeOK
<1>2. /\ UNCHANGED <<row, calls>> /\ hdl[h].pc = "idle"
      /\ hdl' = [hdl EXCEPT ![h] = x]
      /\ x.pc \in {"insert", "cancel", "decide"} \/ (x.pc = "reread" /\ x.op = "retry")
  <2>1. ASSUME NEW u \in Users, NEW g \in GroupIds, NEW route \in Routes, CreateCheck(h, u, g, route)
        PROVE  UNCHANGED <<row, calls>> /\ hdl[h].pc = "idle" /\ hdl' = [hdl EXCEPT ![h] = x] /\ x.pc = "insert"
    BY <2>1, <1>1 DEF CreateCheck, Begin
  <2>2. ASSUME NEW u \in Users, NEW r \in Requests, CancelLoad(h, u, r)
        PROVE  UNCHANGED <<row, calls>> /\ hdl[h].pc = "idle" /\ hdl' = [hdl EXCEPT ![h] = x] /\ x.pc = "cancel"
    BY <2>2, <1>1 DEF CancelLoad, Begin
  <2>3. ASSUME NEW u \in Users, NEW r \in Requests, NEW admin \in CallerIsAdmin(u),
               NEW op \in {"approve", "reject"}, DecideLoad(h, op, u, admin, r)
        PROVE  UNCHANGED <<row, calls>> /\ hdl[h].pc = "idle" /\ hdl' = [hdl EXCEPT ![h] = x] /\ x.pc = "decide"
    BY <2>3, <1>1 DEF DecideLoad, Begin
  <2>4. ASSUME NEW u \in Users, NEW r \in Requests, NEW admin \in CallerIsAdmin(u), RetryLoad(h, u, admin, r)
        PROVE  /\ UNCHANGED <<row, calls>> /\ hdl[h].pc = "idle" /\ hdl' = [hdl EXCEPT ![h] = x]
               /\ x.pc = "reread" /\ x.op = "retry"
    BY <2>4, <1>1 DEF RetryLoad, Begin
  <2> HIDE DEF x
  <2>5. QED
    BY <2>1, <2>2, <2>3, <2>4 DEF Call
<1>3. ~ Executing(h) /\ ~ Executes(x)
  BY <1>2 DEF Executing, Executes
<1> HIDE DEF x
<1>4. PhaseMap' = PhaseMap /\ AttemptMap' = AttemptMap
  BY <1>1, <1>2, <1>3, NothingMoves
<1>5. QED
  BY <1>2, <1>4, StutterStep

LEMMA InitImplements == Init => Lifecycle!Init
<1> SUFFICES ASSUME Init PROVE Lifecycle!Init
  OBVIOUS
<1>1. \A h \in Handlers : ~ Executing(h)
  <2>1. Idle.pc = "idle"
    BY DEF Idle
  <2>2. QED
    BY <2>1 DEF Init, Executing, Executes
<1>2. \A r \in Requests : Attempt(r) = "none"
  BY <1>1 DEF Attempt, ExecutorAt
<1>3. ASSUME NEW r \in Requests
      PROVE  PhaseOf(row[r].status) \in {"absent", "pending"}
  <2>1. \/ row[r] = NoRow
        \/ \E u \in Users, g \in GroupIds, A \in SUBSET Users : row[r] = LegacyRow(u, g, A)
    BY DEF Init
  <2>2. NoRow.status = "absent"
    BY DEF NoRow
  <2>3. \A u, g, A : LegacyRow(u, g, A).status = "pending"
    BY DEF LegacyRow, NoRow
  <2>4. row[r].status \in {"absent", "pending"}
    BY <2>1, <2>2, <2>3
  <2>5. QED
    BY <2>4 DEF PhaseOf
<1>4. QED
  BY <1>2, <1>3 DEF Init, Lifecycle!Init

(* The table and the handlers implement the lifecycle: one Relay call per    *)
(* approval or retry, a success only after a call, no way back from a closed *)
(* request.                                                                  *)
THEOREM Refinement == Spec => ImplementsLifecycle
<1>1. IInv /\ [Next]_vars => [Lifecycle!Next]_(Lifecycle!vars)
  <2> SUFFICES ASSUME IInv, [Next]_vars PROVE [Lifecycle!Next]_(Lifecycle!vars)
    OBVIOUS
  <2>1. CASE UNCHANGED vars
    <3>1. PhaseMap' = PhaseMap /\ calls' = calls
      BY <2>1 DEF vars, PhaseMap
    <3>2. \A r, pcs : ExecutorAt(r, pcs)' <=> ExecutorAt(r, pcs)
      BY <2>1 DEF vars, ExecutorAt, Executing
    <3>3. AttemptMap' = AttemptMap
      BY <3>2 DEF AttemptMap, Attempt
    <3>4. QED
      BY <3>1, <3>3, StutterStep
  <2>2. ASSUME NEW h \in Handlers, Call(h) \/ Proceed(h) \/ TxFails(h) \/ Crash(h)
        PROVE  [Lifecycle!Next]_(Lifecycle!vars)
    <3>1. CASE Call(h)
      BY <3>1, CallImplements
    <3>2. CASE Proceed(h)
      BY <3>2, DecisionImplements, ExecutionImplements, GivingUpImplements DEF Proceed
    <3>3. CASE TxFails(h) \/ Crash(h)
      BY <3>3, GivingUpImplements
    <3>4. QED
      BY <2>2, <3>1, <3>2, <3>3
  <2>3. QED
    BY <2>1, <2>2 DEF Next
<1>2. QED
  BY <1>1, InitImplements, Inductive, PTL DEF Spec, Lifecycle!Spec, ImplementsLifecycle
=============================================================================
