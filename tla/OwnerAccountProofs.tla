------------------------- MODULE OwnerAccountProofs -------------------------
(***************************************************************************)
(* Proofs about OwnerAccount, for any actions, requests, cap and number of *)
(* rows, with and without faults.                                          *)
(***************************************************************************)
EXTENDS OwnerAccount, TLAPS, WellFoundedInduction, SequenceTheorems, FiniteSetTheorems

-----------------------------------------------------------------------------
(* Rows                                                                      *)

Above == {ss \in Nat \X Nat : ss[1] < ss[2]}

(* A set of times that is not empty has a newest one, which is the one       *)
(* Newest returns.                                                           *)
LEMMA NewestIsNewest ==
    ASSUME NEW n \in Nat, NEW S \in SUBSET (0..n), S # {}
    PROVE  Newest(S) \in S /\ \A y \in S : y <= Newest(S)
<1> DEFINE D == {n - x : x \in S}
<1>1. D \in SUBSET Nat /\ D # {}
  <2>1. \A x \in S : n - x \in Nat
    OBVIOUS
  <2>2. QED
    BY <2>1
<1>2. IsWellFoundedOn(Above, Nat)
  BY NatLessThanWellFounded, Zenon DEF OpToRel, Above
<1>3. PICK d \in D : \A y \in D : ~ (<<y, d>> \in Above)
  BY <1>1, <1>2, WFMin, Zenon
<1>4. \A y \in D : y \in Nat /\ d \in Nat /\ ~ (y < d)
  BY <1>1, <1>3 DEF Above
<1>5. PICK x \in S : d = n - x
  OBVIOUS
<1>6. \A y \in S : n - y \in D
  OBVIOUS
<1> HIDE DEF D
<1>7. \A y \in S : n - y \in Nat /\ ~ (n - y < n - x)
  BY <1>4, <1>5, <1>6
<1>8. \A y \in S : y <= x
  BY <1>7
<1>9. QED
  BY <1>8, Zenon DEF Newest

(* What an insert wrote and nobody changes.                                  *)
SameRequest(x, y) == x.action = y.action /\ x.refresh = y.refresh /\ x.gate = y.gate

(* A sweep gives rows again, as many, and changes running rows only.         *)
LEMMA SweptRows ==
    ASSUME TypeOK
    PROVE  /\ Swept(rows) \in Seq(Row)
           /\ Len(Swept(rows)) = Len(rows) /\ DOMAIN Swept(rows) = Ids
           /\ \A i \in Ids : LET new == Swept(rows)[i] IN
                 /\ new.status = rows[i].status \/ (rows[i].status = "running" /\ new.status = "unknown")
                 /\ rows[i].status # "running" => new = rows[i]
                 /\ SameRequest(rows[i], new) /\ new.written = rows[i].written
                 /\ new.finished \in {rows[i].finished, Now}
<1> DEFINE New(i) == IF rows[i].status = "running" /\ ~rows[i].fresh
                     THEN [rows[i] EXCEPT !.status = "unknown", !.finished = Now]
                     ELSE rows[i]
<1>1. Len(rows) \in Nat /\ Ids = 1..Len(rows) /\ \A i \in Ids : rows[i] \in Row
  BY DEF TypeOK, Ids
<1>2. Now \in Times
  BY <1>1, OwnerAccountAssumption DEF TypeOK, Now, Times
<1>3. ASSUME NEW i \in Ids
      PROVE  /\ New(i) \in Row
             /\ New(i).status = rows[i].status \/ (rows[i].status = "running" /\ New(i).status = "unknown")
             /\ rows[i].status # "running" => New(i) = rows[i]
             /\ SameRequest(rows[i], New(i)) /\ New(i).written = rows[i].written
             /\ New(i).finished \in {rows[i].finished, Now}
  BY <1>1, <1>2 DEF Row, Statuses, SameRequest
<1>4. Swept(rows) = [i \in 1..Len(rows) |-> New(i)]
  BY <1>1 DEF Swept, Ids
<1> HIDE DEF New
<1>5. Swept(rows) \in Seq(Row) /\ Len(Swept(rows)) = Len(rows)
  BY <1>1, <1>3, <1>4
<1>6. QED
  BY <1>1, <1>3, <1>4, <1>5

-----------------------------------------------------------------------------
(* Types                                                                     *)

LEMMA Records ==
    /\ IdleRequest \in Request
    /\ StartedWorker \in Worker /\ NoWorker \in Worker
<1>1. (CHOOSE a \in Actions : TRUE) \in Actions
  BY OwnerAccountAssumption
<1>2. 0 \in Times
  BY OwnerAccountAssumption DEF Times
<1>3. IdleRequest \in Request
  BY <1>1, <1>2 DEF IdleRequest, Request, RequestPcs, Terminal, Statuses
<1>4. StartedWorker \in Worker /\ NoWorker \in Worker
  <2>1. Tries \in 1..Tries
    BY OwnerAccountAssumption
  <2>2. QED
    BY <2>1 DEF StartedWorker, NoWorker, Worker, Terminal, Statuses
<1>5. QED
  BY <1>3, <1>4

LEMMA TypeInit == Init => TypeOK
<1> SUFFICES ASSUME Init PROVE TypeOK
  OBVIOUS
<1>1. rows = <<>> /\ worker = <<>> /\ request = [r \in Requests |-> IdleRequest]
  BY DEF Init
<1>2. request \in [Requests -> Request]
  BY <1>1, Records
<1>3. rows \in Seq(Row) /\ worker \in Seq(Worker) /\ Len(rows) = 0 /\ Len(worker) = 0
  BY <1>1
<1>4. 0 <= MaxRows
  BY OwnerAccountAssumption
<1>5. QED
  BY <1>2, <1>3, <1>4 DEF TypeOK

(* The rows a request inserts.                                               *)
LEMMA InsertedRow ==
    ASSUME TypeOK, NEW q \in Request, Len(rows) < MaxRows
    PROVE  NewRow(q) \in Row /\ Refreshed(q) \in Row
<1>1. Len(rows) \in Nat /\ MaxRows \in Nat
  BY OwnerAccountAssumption DEF TypeOK
<1>2. Now + 1 \in Times /\ 0 \in Times
  BY <1>1 DEF Now, Times
<1>3. NewRow(q) \in Row
  BY <1>2 DEF NewRow, Row, Request, Statuses
<1>4. q.outcome \in Statuses /\ q.usable \in BOOLEAN
  BY DEF Request, Terminal
<1>5. Refreshed(q) \in Row
  BY <1>2, <1>3, <1>4 DEF Refreshed, Row
<1>6. QED
  BY <1>3, <1>5

(* A request goes on, with nothing written, or to its end.                   *)
LEMMA RequestMoves ==
    ASSUME TypeOK, NEW r \in Requests, NEW q \in Request, Becomes(r, q)
    PROVE  request' \in [Requests -> Request]
BY DEF TypeOK, Becomes

LEMMA LastAttemptIsTime ==
    ASSUME TypeOK, NEW a \in Actions
    PROVE  LastAttempt(a) \in Times
<1>1. Len(rows) \in Nat /\ Ids = 1..Len(rows) /\ MaxRows \in Nat /\ Len(rows) <= MaxRows
  BY OwnerAccountAssumption DEF TypeOK, Ids
<1>2. Attempts(a) \in SUBSET (0..MaxRows)
  BY <1>1 DEF Attempts
<1>3. Attempts(a) # {} => Newest(Attempts(a)) \in Attempts(a)
  BY <1>1, <1>2, NewestIsNewest
<1>4. QED
  BY <1>1, <1>2, <1>3 DEF LastAttempt, Times

LEMMA TypeRequest ==
    ASSUME TypeOK, NEW r \in Requests, RequestStep(r)
    PROVE  TypeOK'
<1>1. /\ request[r] \in Request /\ IdleRequest \in Request
      /\ rows \in Seq(Row) /\ worker \in Seq(Worker)
      /\ Len(rows) \in Nat /\ MaxRows \in Nat /\ Len(worker) = Len(rows)
      /\ StartedWorker \in Worker /\ NoWorker \in Worker
  BY Records, OwnerAccountAssumption DEF TypeOK
<1>2. Now \in Times /\ 0 \in Times
  BY <1>1 DEF TypeOK, Now, Times
<1> DEFINE S == Swept(rows)
<1>3. S \in Seq(Row) /\ Len(S) = Len(rows)
  BY SweptRows
<1> HIDE DEF S
<1>4. ASSUME NEW q \in Request, Becomes(r, q),
             \/ UNCHANGED <<rows, worker>>
             \/ rows' = S /\ UNCHANGED worker
      PROVE  TypeOK'
  BY <1>1, <1>3, <1>4, RequestMoves DEF TypeOK
<1>5. ASSUME NEW x \in Row, NEW w \in Worker, NEW rs \in Seq(Row),
             Len(rs) = Len(rows), Len(rows) < MaxRows,
             rows' = Append(rs, x), worker' = Append(worker, w), Ends(r)
      PROVE  TypeOK'
  <2>1. request' \in [Requests -> Request]
    BY <1>1, <1>5, RequestMoves DEF Ends
  <2>2. rows' \in Seq(Row) /\ Len(rows') = Len(rows) + 1
    BY <1>5
  <2>3. worker' \in Seq(Worker) /\ Len(worker') = Len(rows) + 1
    BY <1>1, <1>5
  <2>4. QED
    BY <1>1, <1>5, <2>1, <2>2, <2>3 DEF TypeOK
<1>6. ASSUME NEW a \in Actions, BeginRefresh(r, a) \/ BeginMutation(r, a) PROVE TypeOK'
  <2> DEFINE q(pc) == [IdleRequest EXCEPT !.pc = pc, !.action = a]
  <2>1. q("read") \in Request /\ q("facts") \in Request
    BY <1>1 DEF Request, RequestPcs
  <2>2. Becomes(r, q("read")) \/ Becomes(r, q("facts"))
    BY <1>6 DEF BeginRefresh, BeginMutation
  <2>3. rows' = S /\ UNCHANGED worker
    BY <1>6 DEF BeginRefresh, BeginMutation, S
  <2> HIDE DEF q
  <2>4. QED
    BY <1>4, <2>1, <2>2, <2>3
<1>7. CASE ReadUpstream(r)
  <2>1. PICK usable \in BOOLEAN, outcome \in {"succeeded", "failed"} :
           Becomes(r, [request[r] EXCEPT !.pc = "record", !.outcome = outcome, !.usable = usable])
    BY <1>7 DEF ReadUpstream
  <2> DEFINE q == [request[r] EXCEPT !.pc = "record", !.outcome = outcome, !.usable = usable]
  <2>2. q \in Request
    BY <1>1 DEF Request, RequestPcs, Terminal, Statuses
  <2>3. Becomes(r, q) /\ UNCHANGED <<rows, worker>>
    BY <1>7, <2>1 DEF ReadUpstream
  <2> HIDE DEF q
  <2>4. QED
    BY <1>4, <2>2, <2>3
<1>8. CASE RecordRefresh(r)
  <2>1. Len(rows) < MaxRows
    BY <1>8 DEF RecordRefresh
  <2>2. Refreshed(request[r]) \in Row
    BY <1>1, <2>1, InsertedRow
  <2>3. rows' = Append(rows, Refreshed(request[r])) /\ worker' = Append(worker, NoWorker) /\ Ends(r)
    BY <1>8 DEF RecordRefresh
  <2>4. QED
    BY <1>1, <1>5, <2>1, <2>2, <2>3
<1>9. CASE ReadLast(r)
  <2> DEFINE q == [request[r] EXCEPT !.pc = "observe", !.last = LastAttempt(request[r].action), !.gate = Now]
  <2>1. LastAttempt(request[r].action) \in Times
    BY <1>1, LastAttemptIsTime DEF Request
  <2>2. q \in Request
    BY <1>1, <1>2, <2>1 DEF Request, RequestPcs
  <2>3. Becomes(r, q) /\ UNCHANGED <<rows, worker>>
    BY <1>9 DEF ReadLast
  <2> HIDE DEF q
  <2>4. QED
    BY <1>4, <2>2, <2>3
<1>10. CASE PassGate(r)
  <2> DEFINE q == [request[r] EXCEPT !.pc = "cap", !.last = 0]
  <2>1. q \in Request
    BY <1>1, <1>2 DEF Request, RequestPcs
  <2>2. Becomes(r, q) /\ UNCHANGED <<rows, worker>>
    BY <1>10 DEF PassGate
  <2> HIDE DEF q
  <2>3. QED
    BY <1>4, <2>1, <2>2
<1>11. CASE PassCap(r)
  <2> DEFINE q == [request[r] EXCEPT !.pc = "insert"]
  <2>1. q \in Request
    BY <1>1 DEF Request, RequestPcs
  <2>2. Becomes(r, q) /\ UNCHANGED <<rows, worker>>
    BY <1>11 DEF PassCap
  <2> HIDE DEF q
  <2>3. QED
    BY <1>4, <2>1, <2>2
<1>12. CASE InsertRunning(r)
  <2>1. Len(rows) < MaxRows
    BY <1>12 DEF InsertRunning
  <2>2. NewRow(request[r]) \in Row
    BY <1>1, <2>1, InsertedRow
  <2>3. rows' = Append(S, NewRow(request[r])) /\ worker' = Append(worker, StartedWorker) /\ Ends(r)
    BY <1>12 DEF InsertRunning, S
  <2>4. QED
    BY <1>1, <1>3, <1>5, <2>1, <2>2, <2>3
<1>13. CASE Refuse(r)
  BY <1>1, <1>4, <1>13 DEF Refuse, Ends
<1>14. QED
  BY <1>6, <1>7, <1>8, <1>9, <1>10, <1>11, <1>12, <1>13 DEF RequestStep

(* What a worker, or time, does: row i becomes x and its worker w.           *)
WorkerActs(i) ==
    \/ WorkerStep(i) \/ FinishUnheard(i) \/ WorkerDies(i)
    \/ Dead(i) \/ Stalled(i) \/ TouchHeartbeat(i)

Changes(i, w, x) ==
    /\ worker' = [worker EXCEPT ![i] = w]
    /\ rows' = [rows EXCEPT ![i] = x]
    /\ UNCHANGED request

(* A worker that knows the outcome keeps it until it is gone, and no other   *)
(* writes it.                                                                *)
SameAim(v, w) ==
    w.pc = "gone" \/ (w.pc = v.pc /\ w.outcome = v.outcome /\ w.usable = v.usable)

SameOutcome(x, y) ==
    /\ x.status = y.status /\ x.usable = y.usable
    /\ x.finished = y.finished /\ x.written = y.written

Orderly(i, w, x) ==
    /\ SameRequest(rows[i], x)
    /\ SameAim(worker[i], w) \/ worker[i].pc \in {"call", "answer"}
    /\ \/ SameOutcome(rows[i], x)
       \/ /\ worker[i].pc = "finish"
          /\ x.status = worker[i].outcome /\ x.usable = worker[i].usable
          /\ x.finished = Now /\ x.written = rows[i].written \cup {Now}

LEMMA WorkerMoves ==
    ASSUME TypeOK, NEW i \in Ids, WorkerActs(i)
    PROVE  \E w \in Worker, x \in Row : Changes(i, w, x) /\ Orderly(i, w, x)
<1>1. /\ Ids = 1..Len(rows) /\ Len(rows) \in Nat /\ Len(worker) = Len(rows)
      /\ rows \in Seq(Row) /\ worker \in Seq(Worker)
      /\ rows[i] \in Row /\ worker[i] \in Worker
  BY DEF TypeOK, Ids
<1>2. rows = [rows EXCEPT ![i] = rows[i]] /\ worker = [worker EXCEPT ![i] = worker[i]]
  BY <1>1
<1>3. NoWorker \in Worker /\ NoWorker.pc = "gone"
  BY Records DEF NoWorker, StartedWorker
<1>4. Now \in Times
  BY <1>1, OwnerAccountAssumption DEF TypeOK, Now, Times
(* The worker goes on, or away, and leaves the row.                          *)
<1>5. ASSUME NEW w \in Worker, WorkerBecomes(i, w), UNCHANGED <<rows, request>>,
             SameAim(worker[i], w) \/ worker[i].pc \in {"call", "answer"}
      PROVE  Changes(i, w, rows[i]) /\ Orderly(i, w, rows[i])
  BY <1>2, <1>5 DEF Changes, Orderly, WorkerBecomes, SameRequest, SameOutcome
<1>6. ASSUME NEW outcome \in Terminal, NEW usable \in BOOLEAN, worker[i].pc \in {"call", "answer"},
             Will(i, outcome, usable), UNCHANGED <<rows, request>>
      PROVE  \E w \in Worker : Changes(i, w, rows[i]) /\ Orderly(i, w, rows[i])
  <2> DEFINE w == [StartedWorker EXCEPT !.pc = "finish", !.outcome = outcome, !.usable = usable]
  <2>1. w \in Worker
    BY Records DEF Worker
  <2>2. WorkerBecomes(i, w)
    BY <1>6 DEF Will
  <2> HIDE DEF w
  <2>3. QED
    BY <1>5, <1>6, <2>1, <2>2
(* The heartbeat alone.                                                      *)
<1>7. ASSUME NEW fresh \in BOOLEAN, rows' = [rows EXCEPT ![i].fresh = fresh],
             UNCHANGED <<request, worker>>
      PROVE  \E x \in Row : Changes(i, worker[i], x) /\ Orderly(i, worker[i], x)
  <2> DEFINE x == [rows[i] EXCEPT !.fresh = fresh]
  <2>1. x \in Row /\ SameOutcome(rows[i], x) /\ SameRequest(rows[i], x)
    BY <1>1 DEF Row, SameRequest, SameOutcome
  <2>2. rows' = [rows EXCEPT ![i] = x]
    BY <1>7
  <2> HIDE DEF x
  <2>3. QED
    BY <1>2, <1>7, <2>1, <2>2 DEF Changes, Orderly, SameAim
<1>8. CASE Execute(i)
  <2> DEFINE w == [worker[i] EXCEPT !.pc = "answer"]
  <2>1. w \in Worker /\ worker[i].pc = "call"
    BY <1>1, <1>8 DEF Worker, Execute
  <2>2. WorkerBecomes(i, w) /\ UNCHANGED <<rows, request>>
    BY <1>8 DEF Execute
  <2> HIDE DEF w
  <2>3. QED
    BY <1>1, <1>5, <2>1, <2>2
<1>9. CASE NotExecuted(i)
  <2>1. PICK outcome \in {"failed", "unknown"} : Will(i, outcome, FALSE)
    BY <1>9 DEF NotExecuted
  <2>2. outcome \in Terminal /\ worker[i].pc = "call" /\ UNCHANGED <<rows, request>>
    BY <1>9 DEF NotExecuted, Terminal, Statuses
  <2>3. QED
    BY <1>1, <1>6, <2>1, <2>2
<1>10. CASE Answer(i)
  <2>1. PICK outcome \in Terminal, usable \in BOOLEAN : Will(i, outcome, usable)
    BY <1>10 DEF Answer, LostAnswers, Terminal, Statuses
  <2>2. worker[i].pc = "answer" /\ UNCHANGED <<rows, request>>
    BY <1>10 DEF Answer
  <2>3. QED
    BY <1>1, <1>6, <2>1, <2>2
(* The outcome is written, and the worker goes or tries again.               *)
<1>11. ASSUME NEW w \in Worker, worker[i].pc = "finish", SameAim(worker[i], w),
              rows' = Written(i), WorkerBecomes(i, w), UNCHANGED request
       PROVE  \E x \in Row : Changes(i, w, x) /\ Orderly(i, w, x)
  <2> DEFINE x == [rows[i] EXCEPT !.status = worker[i].outcome, !.finished = Now,
                                  !.usable = worker[i].usable, !.fresh = FALSE,
                                  !.written = @ \cup {Now}]
  <2>1. worker[i].outcome \in Statuses /\ worker[i].usable \in BOOLEAN
    BY <1>1 DEF Worker, Terminal
  <2>2. rows[i].written \cup {Now} \in SUBSET Times
    BY <1>1, <1>4 DEF Row
  <2>3. /\ x \in Row /\ SameRequest(rows[i], x)
        /\ x.status = worker[i].outcome /\ x.usable = worker[i].usable
        /\ x.finished = Now /\ x.written = rows[i].written \cup {Now}
    BY <1>1, <1>4, <2>1, <2>2 DEF Row, SameRequest
  <2>4. rows' = [rows EXCEPT ![i] = x]
    BY <1>11 DEF Written
  <2> HIDE DEF x
  <2>5. QED
    BY <1>11, <2>3, <2>4 DEF Changes, Orderly, WorkerBecomes
<1>12. CASE Finish(i)
  BY <1>3, <1>11, <1>12 DEF Finish, SameAim
<1>13. CASE FinishUnheard(i)
  <2> DEFINE w == IF worker[i].tries = 1 THEN NoWorker ELSE [worker[i] EXCEPT !.tries = @ - 1]
  <2>1. w \in Worker /\ SameAim(worker[i], w)
    <3>1. CASE worker[i].tries = 1
      BY <1>3, <3>1 DEF SameAim
    <3>2. CASE worker[i].tries # 1
      <4>1. worker[i].tries - 1 \in 1..Tries
        BY <1>1, <3>2, OwnerAccountAssumption DEF Worker
      <4>2. QED
        BY <1>1, <3>2, <4>1 DEF Worker, SameAim
    <3>3. QED
      BY <3>1, <3>2
  <2>2. /\ WorkerBecomes(i, w) /\ worker[i].pc = "finish" /\ UNCHANGED request
        /\ rows' = rows \/ rows' = Written(i)
    BY <1>13 DEF FinishUnheard
  <2> HIDE DEF w
  <2>3. QED
    BY <1>1, <1>5, <1>11, <2>1, <2>2
<1>14. CASE WorkerDies(i)
  BY <1>1, <1>3, <1>5, <1>14 DEF WorkerDies, SameAim
<1>15. CASE Dead(i) \/ Stalled(i)
  BY <1>1, <1>7, <1>15 DEF Dead, Stalled, HeartbeatAges
<1>16. CASE TouchHeartbeat(i)
  BY <1>1, <1>7, <1>16 DEF TouchHeartbeat
<1>17. QED
  BY <1>8, <1>9, <1>10, <1>12, <1>13, <1>14, <1>15, <1>16 DEF WorkerActs, WorkerStep

LEMMA TypeChange ==
    ASSUME TypeOK, NEW i \in Ids, NEW w \in Worker, NEW x \in Row, Changes(i, w, x)
    PROVE  TypeOK'
<1>1. rows' \in Seq(Row) /\ Len(rows') = Len(rows)
  BY DEF TypeOK, Ids, Changes
<1>2. worker' \in Seq(Worker) /\ Len(worker') = Len(worker)
  BY DEF TypeOK, Ids, Changes
<1>3. QED
  BY <1>1, <1>2 DEF TypeOK, Changes

LEMMA TypeStep == TypeOK /\ [Next]_vars => TypeOK'
<1> SUFFICES ASSUME TypeOK, [Next]_vars PROVE TypeOK'
  OBVIOUS
<1>1. CASE Sweep
  BY <1>1, SweptRows DEF Sweep, TypeOK
<1>2. ASSUME NEW r \in Requests, RequestStep(r) PROVE TypeOK'
  BY <1>2, TypeRequest
<1>3. ASSUME NEW i \in Ids, WorkerActs(i) PROVE TypeOK'
  BY <1>3, WorkerMoves, TypeChange
<1>4. CASE UNCHANGED vars
  BY <1>4 DEF vars, TypeOK
<1>5. QED
  BY <1>1, <1>2, <1>3, <1>4 DEF Next, WorkerActs

(* Every reachable state is well typed: admitMutation, the refreshes, the    *)
(* sweeps and the workers write rows of the table's type only.               *)
THEOREM TypeCorrect == Spec => []TypeOK
BY TypeInit, TypeStep, PTL DEF Spec

-----------------------------------------------------------------------------
(* The running slot                                                          *)

(* What SlotInv says of one row, and of one that comes after it.             *)
RowSound(i) ==
    /\ Settled(i) \/ TakenForDead(i) \/ (rows[i].status = "running" /\ rows[i].written = {})
    /\ rows[i].status = "succeeded" => rows[i].finished \in rows[i].written
    /\ Settled(i) => \/ worker[i].pc = "gone"
                     \/ /\ worker[i].pc = "finish" /\ worker[i].outcome = rows[i].status
                        /\ worker[i].usable = rows[i].usable

SlotHeld(i, j) == i < j /\ rows[i].status = "running" => Settled(j)

LEMMA SlotParts ==
    SlotInv <=> (\A i \in Ids : RowSound(i)) /\ (\A i, j \in Ids : SlotHeld(i, j))
BY DEF SlotInv, RowSound, SlotHeld

LEMMA SlotInit == Init => SlotInv
BY DEF Init, SlotInv, Ids

(* What a sweep does to a row: nothing, or it takes it for dead.             *)
SweptOr(x, y) == y = x \/ (x.status = "running" /\ y = [x EXCEPT !.status = "unknown", !.finished = Now])

LEMMA SweptEach ==
    ASSUME TypeOK, NEW i \in Ids
    PROVE  SweptOr(rows[i], Swept(rows)[i])
BY DEF Swept, SweptOr, Ids

LEMMA SoundSwept ==
    ASSUME TypeOK, NEW i \in Ids, RowSound(i), i \in Ids', SweptOr(rows[i], rows'[i]),
           worker'[i] = worker[i]
    PROVE  RowSound(i)' /\ (Settled(i) => Settled(i)') /\ (rows'[i].status = "running" => rows[i] = rows'[i])
<1>1. rows[i] \in Row /\ Now \in Nat
  BY DEF TypeOK, Ids, Now
<1>2. CASE rows'[i] = rows[i]
  BY <1>2 DEF RowSound, Settled, TakenForDead
<1>3. CASE rows[i].status = "running" /\ rows'[i] = [rows[i] EXCEPT !.status = "unknown", !.finished = Now]
  <2>1. /\ rows'[i].status = "unknown" /\ rows'[i].written = rows[i].written
        /\ ~ Settled(i) /\ rows[i].written = {}
    BY <1>1, <1>3 DEF Row, RowSound, Settled, TakenForDead, Terminal
  <2>2. QED
    BY <2>1 DEF RowSound, Settled, TakenForDead
<1>4. QED
  BY <1>2, <1>3 DEF SweptOr

(* Rows may have been swept, and their workers are as they were.             *)
LEMMA SlotSwept ==
    ASSUME TypeOK, SlotInv, Len(rows') = Len(rows), rows' \in Seq(Row), UNCHANGED worker,
           \A i \in Ids : SweptOr(rows[i], rows'[i])
    PROVE  SlotInv'
<1>1. Ids' = Ids /\ \A i \in Ids : RowSound(i) /\ worker'[i] = worker[i]
  BY SlotParts DEF TypeOK, Ids
<1>2. \A i \in Ids : /\ RowSound(i)' /\ (Settled(i) => Settled(i)')
                     /\ rows'[i].status = "running" => rows[i] = rows'[i]
  BY <1>1, SoundSwept
<1>3. ASSUME NEW i \in Ids', NEW j \in Ids', i < j, rows'[i].status = "running" PROVE Settled(j)'
  BY <1>1, <1>2, <1>3, SlotParts DEF SlotHeld
<1>4. QED
  BY <1>1, <1>2, <1>3 DEF SlotInv, RowSound

(* A row is appended that is settled and has no worker, or one that runs     *)
(* when no other does.                                                       *)
LEMMA SlotAppended ==
    ASSUME TypeOK, SlotInv, NEW x \in Row, NEW w \in Worker, NEW rs \in Seq(Row),
           Len(rs) = Len(rows), \A i \in Ids : SweptOr(rows[i], rs[i]),
           \/ /\ x.status \in Terminal /\ w.pc = "gone"
              /\ x.finished \in x.written
           \/ /\ x.status = "running" /\ x.written = {} /\ w.pc = "call"
              /\ \A i \in Ids : rs[i].status # "running",
           rows' = Append(rs, x), worker' = Append(worker, w)
    PROVE  SlotInv'
<1>1. /\ Len(rows) \in Nat /\ Ids = 1..Len(rows) /\ Len(worker) = Len(rows)
      /\ worker \in Seq(Worker)
  BY DEF TypeOK, Ids
<1> PICK n \in Nat : n = Len(rows) + 1
  BY <1>1
<1>2. /\ Ids' = 1..n /\ n \in Nat
      /\ rows'[n] = x /\ worker'[n] = w
      /\ \A i \in Ids : rows'[i] = rs[i] /\ worker'[i] = worker[i] /\ i \in Ids'
  BY <1>1 DEF Ids
<1>3. \A i \in Ids' : i \in Ids \/ i = n
  BY <1>1, <1>2
<1>4. \A i \in Ids : i < n /\ ~ (n < i)
  BY <1>1
<1>5. \A i \in Ids : /\ RowSound(i)' /\ (Settled(i) => Settled(i)')
                     /\ rows'[i].status = "running" => rows[i] = rows'[i]
  BY <1>2, SlotParts, SoundSwept
<1>6. RowSound(n)' /\ (x.status # "running" => Settled(n)')
  BY <1>2 DEF RowSound, Settled, TakenForDead, Terminal
<1>7. ASSUME NEW i \in Ids', NEW j \in Ids', i < j, rows'[i].status = "running" PROVE Settled(j)'
  <2>1. i \in Ids
    <3>1. CASE j = n
      BY <1>2, <1>3, <1>7, <3>1
    <3>2. CASE j \in Ids
      BY <1>3, <1>4, <1>7, <3>2
    <3>3. QED
      BY <1>3, <3>1, <3>2
  <2>2. CASE j = n
    BY <1>2, <1>6, <1>7, <2>1, <2>2 DEF Terminal
  <2>3. CASE j \in Ids
    BY <1>5, <1>7, <2>1, <2>3, SlotParts DEF SlotHeld
  <2>4. QED
    BY <1>3, <2>2, <2>3
<1>8. QED
  BY <1>3, <1>5, <1>6, <1>7 DEF SlotInv, RowSound

LEMMA SlotRequest ==
    ASSUME TypeOK, SlotInv, NEW r \in Requests, RequestStep(r)
    PROVE  SlotInv'
<1> DEFINE S == Swept(rows)
<1>1. S \in Seq(Row) /\ Len(S) = Len(rows) /\ \A i \in Ids : SweptOr(rows[i], S[i])
  BY SweptRows, SweptEach
<1>2. /\ request[r] \in Request /\ rows \in Seq(Row)
      /\ NoWorker \in Worker /\ StartedWorker \in Worker
      /\ NoWorker.pc = "gone" /\ StartedWorker.pc = "call"
      /\ Now \in Nat
  BY Records DEF TypeOK, NoWorker, StartedWorker, Now
<1>3. \A i \in Ids : SweptOr(rows[i], rows[i])
  BY DEF SweptOr
<1>4. CASE UNCHANGED <<rows, worker>>
  BY <1>2, <1>3, <1>4, SlotSwept
<1>5. CASE rows' = Swept(rows) /\ UNCHANGED worker
  BY <1>1, <1>5, SlotSwept
<1>6. CASE RecordRefresh(r)
  <2> DEFINE x == Refreshed(request[r])
  <2>1. Len(rows) < MaxRows /\ rows' = Append(rows, x) /\ worker' = Append(worker, NoWorker)
    BY <1>6 DEF RecordRefresh
  <2>2. x \in Row
    BY <1>2, <2>1, InsertedRow
  <2>3. x.status \in Terminal /\ x.finished \in x.written
    BY <1>2 DEF Refreshed, NewRow, Request
  <2> HIDE DEF x
  <2>4. QED
    BY <1>2, <1>3, <2>1, <2>2, <2>3, SlotAppended
<1>7. CASE InsertRunning(r)
  <2> DEFINE x == NewRow(request[r])
  <2>1. Len(rows) < MaxRows /\ rows' = Append(S, x) /\ worker' = Append(worker, StartedWorker)
    BY <1>7 DEF InsertRunning
  <2>2. \A i \in Ids : S[i].status # "running"
    BY <1>7 DEF InsertRunning
  <2>3. x \in Row /\ x.status = "running" /\ x.written = {}
    BY <1>2, <2>1, InsertedRow DEF NewRow
  <2> HIDE DEF x, S
  <2>4. QED
    BY <1>1, <1>2, <2>1, <2>2, <2>3, SlotAppended
<1>8. QED
  BY <1>4, <1>5, <1>6, <1>7
     DEF RequestStep, BeginRefresh, BeginMutation, ReadUpstream, ReadLast, PassGate, PassCap, Refuse

LEMMA SlotChange ==
    ASSUME TypeOK, SlotInv, NEW i \in Ids, NEW w \in Worker, NEW x \in Row,
           Changes(i, w, x), Orderly(i, w, x)
    PROVE  SlotInv'
<1>1. /\ Ids = 1..Len(rows) /\ Len(worker) = Len(rows) /\ Len(rows) \in Nat
      /\ rows \in Seq(Row) /\ worker \in Seq(Worker) /\ worker[i] \in Worker
  BY DEF TypeOK, Ids
<1>2. /\ Ids' = Ids
      /\ rows'[i] = x /\ worker'[i] = w
      /\ \A j \in Ids \ {i} : rows'[j] = rows[j] /\ worker'[j] = worker[j]
  BY <1>1 DEF Changes, Ids
<1>3. RowSound(i)
  BY SlotParts
<1>4. RowSound(i)' /\ (Settled(i) => Settled(i)') /\ (x.status = "running" => rows[i].status = "running")
  <2>1. CASE SameOutcome(rows[i], x)
    BY <1>2, <1>3, <2>1 DEF Orderly, SameOutcome, SameAim, RowSound, Settled, TakenForDead
  <2>2. CASE /\ worker[i].pc = "finish"
             /\ x.status = worker[i].outcome /\ x.usable = worker[i].usable
             /\ x.finished = Now /\ x.written = rows[i].written \cup {Now}
    <3>1. x.status \in Terminal /\ x.written # {} /\ x.finished \in x.written
      BY <1>1, <2>2 DEF Worker
    <3>2. w.pc = "gone" \/ (w.pc = "finish" /\ w.outcome = x.status /\ w.usable = x.usable)
      BY <2>2 DEF Orderly, SameAim
    <3>3. QED
      BY <1>2, <3>1, <3>2 DEF RowSound, Settled, Terminal
  <2>3. QED
    BY <2>1, <2>2 DEF Orderly
<1>5. ASSUME NEW j \in Ids \ {i} PROVE RowSound(j)' /\ (Settled(j) => Settled(j)')
  <2>1. RowSound(j) /\ rows'[j] = rows[j] /\ worker'[j] = worker[j]
    BY <1>2, SlotParts
  <2>2. QED
    BY <2>1 DEF RowSound, Settled, TakenForDead
<1>6. ASSUME NEW j \in Ids', NEW k \in Ids', j < k, rows'[j].status = "running" PROVE Settled(k)'
  <2>1. rows[j].status = "running"
    BY <1>2, <1>4, <1>6
  <2>2. Settled(k)
    BY <1>2, <1>6, <2>1, SlotParts DEF SlotHeld
  <2>3. QED
    BY <1>2, <1>4, <1>5, <2>2
<1>7. QED
  BY <1>2, <1>4, <1>5, <1>6 DEF SlotInv, RowSound

LEMMA SlotStep == TypeOK /\ SlotInv /\ [Next]_vars => SlotInv'
<1> SUFFICES ASSUME TypeOK, SlotInv, [Next]_vars PROVE SlotInv'
  OBVIOUS
<1>1. CASE Sweep
  BY <1>1, SlotSwept, SweptRows, SweptEach DEF Sweep
<1>2. ASSUME NEW r \in Requests, RequestStep(r) PROVE SlotInv'
  BY <1>2, SlotRequest
<1>3. ASSUME NEW i \in Ids, WorkerActs(i) PROVE SlotInv'
  BY <1>3, WorkerMoves, SlotChange
<1>4. CASE UNCHANGED vars
  <2>1. \A i \in Ids : SweptOr(rows[i], rows[i])
    BY DEF SweptOr
  <2>2. QED
    BY <1>4, <2>1, SlotSwept DEF vars, TypeOK
<1>5. QED
  BY <1>1, <1>2, <1>3, <1>4 DEF Next, WorkerActs

-----------------------------------------------------------------------------
(* Admissions                                                                *)

(* What a row keeps: what a request wrote, that it succeeded, and when it    *)
(* was written.                                                              *)
Kept(x, y) ==
    /\ SameRequest(x, y) /\ x.written \subseteq y.written
    /\ x.status = "succeeded" => y.status = "succeeded"

(* The table keeps its rows and may get one more.                            *)
Grows ==
    /\ Now <= Now'
    /\ \A i \in Ids : i \in Ids' /\ Kept(rows[i], rows'[i]) /\ rows'[i].finished <= Now'
    /\ \A i \in Ids' : i \in Ids \/ (i = Now + 1 /\ Now' = Now + 1)

LEMMA GrowsFrom ==
    ASSUME TypeOK, NEW rs \in Seq(Row), Len(rs) = Len(rows),
           \A i \in Ids : Kept(rows[i], rs[i]) /\ rs[i].finished <= Now,
           rows' = rs \/ \E x \in Row : rows' = Append(rs, x)
    PROVE  Grows
<1>1. /\ Len(rows) \in Nat /\ Ids = 1..Len(rows)
      /\ \A i \in Ids : rs[i] \in Row
  BY DEF TypeOK, Ids
<1>2. CASE rows' = rs
  BY <1>1, <1>2 DEF Grows, Ids, Now
<1>3. \A i \in Ids : rs[i].finished \in Nat
  BY <1>1, OwnerAccountAssumption DEF Row, Times
<1>4. ASSUME NEW x \in Row, rows' = Append(rs, x) PROVE Grows
  <2>1. /\ Len(rows') = Len(rows) + 1 /\ Ids' = 1..(Len(rows) + 1)
        /\ \A i \in Ids : rows'[i] = rs[i]
    BY <1>1, <1>4 DEF Ids
  <2>2. QED
    BY <1>1, <1>3, <2>1 DEF Grows, Now
<1>5. QED
  BY <1>2, <1>4

LEMMA TableGrows ==
    ASSUME IInv, [Next]_vars
    PROVE  Grows
<1>1. /\ Len(rows) \in Nat /\ Ids = 1..Len(rows) /\ rows \in Seq(Row) /\ TypeOK
      /\ \A i \in Ids : rows[i].finished <= Now /\ Now \in Nat
  BY DEF IInv, TypeOK, AdmissionInv, Ids, Now
<1>2. \A i \in Ids : Kept(rows[i], rows[i]) /\ rows[i].finished <= Now
  BY <1>1 DEF Kept, SameRequest
<1>3. /\ Swept(rows) \in Seq(Row) /\ Len(Swept(rows)) = Len(rows)
      /\ \A i \in Ids : Kept(rows[i], Swept(rows)[i]) /\ Swept(rows)[i].finished <= Now
  BY <1>1, SweptRows DEF Kept
<1>4. CASE rows' = rows \/ rows' = Swept(rows)
  BY <1>1, <1>2, <1>3, <1>4, GrowsFrom
<1>5. ASSUME NEW r \in Requests, RequestStep(r) PROVE Grows
  <2>1. request[r] \in Request
    BY <1>1 DEF TypeOK
  <2>2. CASE RecordRefresh(r)
    <3>1. Len(rows) < MaxRows /\ rows' = Append(rows, Refreshed(request[r]))
      BY <2>2 DEF RecordRefresh
    <3>2. QED
      BY <1>1, <1>2, <2>1, <3>1, InsertedRow, GrowsFrom
  <2>3. CASE InsertRunning(r)
    <3>1. Len(rows) < MaxRows /\ rows' = Append(Swept(rows), NewRow(request[r]))
      BY <2>3 DEF InsertRunning
    <3>2. QED
      BY <1>1, <1>3, <2>1, <3>1, InsertedRow, GrowsFrom
  <2>4. QED
    BY <1>4, <1>5, <2>2, <2>3
       DEF RequestStep, BeginRefresh, BeginMutation, ReadUpstream, ReadLast, PassGate, PassCap, Refuse
<1>6. ASSUME NEW i \in Ids, WorkerActs(i) PROVE Grows
  <2>1. PICK w \in Worker, x \in Row : Changes(i, w, x) /\ Orderly(i, w, x)
    BY <1>1, <1>6, WorkerMoves
  <2>2. worker[i].pc = "finish" /\ rows[i].status = "succeeded" => worker[i].outcome = "succeeded"
    BY DEF IInv, SlotInv, Settled, Terminal, Statuses
  <2>3. Kept(rows[i], x) /\ x.finished <= Now
    BY <1>1, <2>1, <2>2 DEF Orderly, SameOutcome, Kept
  <2> DEFINE rs == [rows EXCEPT ![i] = x]
  <2>4. /\ rs \in Seq(Row) /\ Len(rs) = Len(rows) /\ rows' = rs
        /\ \A j \in Ids : rs[j] = IF j = i THEN x ELSE rows[j]
    BY <1>1, <2>1 DEF Changes
  <2> HIDE DEF rs
  <2>5. QED
    BY <1>1, <1>2, <2>3, <2>4, GrowsFrom
<1>7. QED
  BY <1>4, <1>5, <1>6 DEF Next, Sweep, WorkerActs, vars

(* What was known at a time, and observed since, stays so.                   *)
LEMMA KnownLater ==
    ASSUME TypeOK, Grows, NEW a \in Actions, NEW gate \in Nat, gate <= Now
    PROVE  Known(a, gate)' = Known(a, gate)
<1>1. Now \in Nat /\ Ids = 1..Now /\ \A i \in Ids' : i \in Nat
  BY DEF TypeOK, Ids, Now, Grows
<1>2. ASSUME NEW i, i \in Ids' \/ i \in Ids, i <= gate
      PROVE  i \in Attempts(a)' <=> i \in Attempts(a)
  <2>1. i \in Ids /\ i \in Ids'
    BY <1>1, <1>2 DEF Grows
  <2>2. SameRequest(rows[i], rows'[i])
    BY <2>1 DEF Grows, Kept
  <2>3. QED
    BY <2>1, <2>2 DEF Attempts, SameRequest
<1>3. \A i : i \in Attempts(a) => i \in Ids
  BY DEF Attempts
<1>4. \A i : i \in Attempts(a)' => i \in Ids'
  BY DEF Attempts
<1>5. QED
  BY <1>2, <1>3, <1>4 DEF Known

LEMMA ObservedLater ==
    ASSUME TypeOK, Grows, NEW a \in Actions, NEW gate \in Nat, gate <= Now,
           NEW n \in Nat, NEW m \in Nat, n <= m, Observed(a, gate, n)
    PROVE  Observed(a, gate, m)'
<1>1. Known(a, gate)' = Known(a, gate)
  BY KnownLater
<1>2. Known(a, gate) \subseteq Ids /\ Ids = 1..Len(rows) /\ Len(rows) \in Nat
  BY DEF Known, Attempts, TypeOK, Ids
<1>3. ASSUME NEW k \in Observations(a)
      PROVE  /\ k \in Observations(a)' /\ rows[k].written \subseteq rows'[k].written
             /\ rows[k].written \subseteq Nat
  <2>1. k \in Ids /\ rows[k].action = a /\ rows[k].status = "succeeded"
    BY DEF Observations
  <2>2. k \in Ids' /\ Kept(rows[k], rows'[k])
    BY <2>1 DEF Grows
  <2>3. rows[k] \in Row
    BY <2>1 DEF TypeOK, Ids
  <2>4. rows[k].written \subseteq Times
    BY <2>3 DEF Row
  <2>5. rows[k].written \subseteq Nat
    BY <2>4, OwnerAccountAssumption DEF Times
  <2>6. QED
    BY <2>1, <2>2, <2>5 DEF Observations, Kept, SameRequest
<1>4. ASSUME NEW i \in Known(a, gate)
      PROVE  \E k \in Observations(a)' : \E t \in rows'[k].written : t \in i..m
  <2>1. PICK k \in Observations(a) : \E t \in rows[k].written : t \in i..n
    BY DEF Observed
  <2>2. PICK t \in rows[k].written : t \in i..n
    BY <2>1
  <2>3. t \in i..m /\ t \in rows'[k].written
    BY <1>2, <1>3, <2>2
  <2>4. QED
    BY <1>3, <2>3
<1>5. QED
  BY <1>1, <1>4 DEF Observed

LEMMA RequestLater ==
    ASSUME IInv, Grows, TypeOK', NEW q \in Request, RequestSound(q)
    PROVE  RequestSound(q)'
<1>1. /\ Now \in Nat /\ Now' \in Nat /\ Now <= Now' /\ TypeOK
      /\ q.action \in Actions /\ q.gate \in Nat /\ q.gate <= Now
  BY OwnerAccountAssumption DEF IInv, TypeOK, Now, Grows, Request, Times, RequestSound
<1>2. Known(q.action, q.gate)' = Known(q.action, q.gate)
  BY <1>1, KnownLater
<1>3. ASSUME NEW n \in Nat, NEW m \in Nat, n <= m, Observed(q.action, q.gate, n)
      PROVE  Observed(q.action, q.gate, m)'
  BY <1>1, <1>3, ObservedLater
<1>4. Observed(q.action, q.gate, Now) => Observed(q.action, q.gate, Now)'
  <2>1. PICK n \in Nat, m \in Nat : n = Now /\ m = Now'
    BY <1>1
  <2>2. Observed(q.action, q.gate, n) => Observed(q.action, q.gate, m)'
    BY <1>1, <1>3, <2>1
  <2>3. QED
    BY <2>1, <2>2 DEF Observed
<1>5. QED
  BY <1>1, <1>2, <1>4 DEF RequestSound

(* Of some attempts the last one is the last.                                *)
LEMMA NewestOf ==
    ASSUME TypeOK, NEW S \in SUBSET Ids, S # {}
    PROVE  Newest(S) \in S /\ \A i \in S : i <= Newest(S)
<1>1. Len(rows) \in Nat /\ S \in SUBSET (0..Len(rows))
  BY DEF TypeOK, Ids
<1>2. QED
  BY <1>1, NewestIsNewest

(* A request goes on knowing what its gates have read.                       *)
LEMMA RequestGoesOn ==
    ASSUME IInv, NEW r \in Requests, RequestStep(r)
    PROVE  \E q \in Request : Becomes(r, q) /\ RequestSound(q)
<1>1. /\ TypeOK /\ request[r] \in Request /\ RequestSound(request[r])
      /\ IdleRequest \in Request
      /\ Now \in Nat /\ Now \in Times /\ 0 \in Times /\ Ids = 1..Now
  BY Records, OwnerAccountAssumption DEF IInv, AdmissionInv, TypeOK, Now, Times, Ids
<1> DEFINE a == request[r].action
           gate == request[r].gate
<1>2. a \in Actions /\ gate \in Nat /\ gate <= Now /\ request[r].last \in Nat
  BY <1>1, OwnerAccountAssumption DEF Request, Times, RequestSound
(* Before the gates nothing is known.                                        *)
<1>3. ASSUME NEW q \in Request, Becomes(r, q), q.gate <= Now,
             q.pc \notin {"observe", "cap", "insert"}
      PROVE  \E x \in Request : Becomes(r, x) /\ RequestSound(x)
  BY <1>3 DEF RequestSound
<1>4. CASE Ends(r)
  <2>1. IdleRequest.gate = 0 /\ IdleRequest.pc = "idle"
    BY DEF IdleRequest
  <2>2. QED
    BY <1>1, <1>3, <1>4, <2>1 DEF Ends
<1>5. ASSUME NEW b \in Actions, BeginRefresh(r, b) \/ BeginMutation(r, b)
      PROVE  \E q \in Request : Becomes(r, q) /\ RequestSound(q)
  <2> DEFINE q(pc) == [IdleRequest EXCEPT !.pc = pc, !.action = b]
  <2>1. ASSUME NEW pc \in {"read", "facts"}
        PROVE  q(pc) \in Request /\ q(pc).gate = 0 /\ q(pc).pc = pc
    BY <1>1 DEF Request, RequestPcs, IdleRequest
  <2>2. Becomes(r, q("read")) \/ Becomes(r, q("facts"))
    BY <1>5 DEF BeginRefresh, BeginMutation
  <2> HIDE DEF q
  <2>3. QED
    BY <1>1, <1>3, <2>1, <2>2
<1>6. CASE ReadUpstream(r)
  <2>1. PICK usable \in BOOLEAN, outcome \in {"succeeded", "failed"} :
           Becomes(r, [request[r] EXCEPT !.pc = "record", !.outcome = outcome, !.usable = usable])
    BY <1>6 DEF ReadUpstream
  <2> DEFINE q == [request[r] EXCEPT !.pc = "record", !.outcome = outcome, !.usable = usable]
  <2>2. q \in Request /\ q.pc = "record" /\ q.gate = gate
    BY <1>1 DEF Request, RequestPcs, Terminal, Statuses
  <2>3. Becomes(r, q)
    BY <2>1
  <2> HIDE DEF q
  <2>4. QED
    BY <1>2, <1>3, <2>2, <2>3
(* The last attempt is after all the request knows.                          *)
<1>7. CASE ReadLast(r)
  <2> DEFINE q == [request[r] EXCEPT !.pc = "observe", !.last = LastAttempt(a), !.gate = Now]
  <2>1. LastAttempt(a) \in Times
    BY <1>1, <1>2, LastAttemptIsTime
  <2>2. /\ q \in Request /\ q.pc = "observe" /\ q.gate = Now
        /\ q.last = LastAttempt(a) /\ q.action = a
    BY <1>1, <2>1 DEF Request, RequestPcs
  <2>3. Becomes(r, q)
    BY <1>7 DEF ReadLast
  <2>4. ASSUME NEW i \in Attempts(a) PROVE i <= LastAttempt(a)
    <3>1. Attempts(a) \in SUBSET Ids
      BY DEF Attempts
    <3>2. i <= Newest(Attempts(a))
      BY <1>1, <3>1, NewestOf
    <3>3. QED
      BY <3>2 DEF LastAttempt
  <2> HIDE DEF q, a
  <2>5. RequestSound(q)
    BY <1>1, <2>2, <2>4 DEF RequestSound, Known
  <2>6. QED
    BY <2>2, <2>3, <2>5
(* The observation is not older than the last attempt.                       *)
<1>8. CASE PassGate(r)
  <2> DEFINE q == [request[r] EXCEPT !.pc = "cap", !.last = 0]
             k == Newest(Observations(a))
  <2>1. q \in Request /\ q.pc = "cap" /\ q.gate = gate /\ q.action = a
    BY <1>1 DEF Request, RequestPcs
  <2>2. Becomes(r, q) /\ request[r].pc = "observe"
    BY <1>8 DEF PassGate
  <2>3. Observations(a) # {} /\ rows[k].finished >= request[r].last
    BY <1>8 DEF PassGate, FreshObservation
  <2>4. k \in Observations(a)
    <3>1. Observations(a) \in SUBSET Ids
      BY DEF Observations
    <3>2. QED
      BY <1>1, <2>3, <3>1, NewestOf
  <2>5. k \in Ids /\ rows[k] \in Row
    BY <1>1, <2>4 DEF Observations, TypeOK, Ids
  <2>6. rows[k].finished \in Nat /\ rows[k].finished <= Now
    BY <2>5, OwnerAccountAssumption DEF IInv, AdmissionInv, Row, Times
  <2>7. ASSUME NEW i \in Known(a, gate) PROVE rows[k].finished \in i..Now
    <3>1. i <= request[r].last
      BY <1>1, <2>2 DEF RequestSound
    <3>2. i \in Nat
      BY <1>1 DEF Known, Attempts
    <3>3. QED
      BY <1>1, <1>2, <2>3, <2>6, <3>1, <3>2
  <2>8. rows[k].finished \in rows[k].written
    BY <2>4 DEF IInv, SlotInv, Observations
  <2> HIDE DEF q, k, a, gate
  <2>9. Observed(a, gate, Now)
    BY <2>4, <2>7, <2>8 DEF Observed
  <2>10. RequestSound(q)
    BY <1>2, <2>1, <2>9 DEF RequestSound
  <2>11. QED
    BY <2>1, <2>2, <2>10
(* Those it knows are not more than those there are.                         *)
<1>9. CASE PassCap(r)
  <2> DEFINE q == [request[r] EXCEPT !.pc = "insert"]
  <2>1. q \in Request /\ q.pc = "insert" /\ q.gate = gate /\ q.action = a
    BY <1>1 DEF Request, RequestPcs
  <2>2. Becomes(r, q) /\ request[r].pc = "cap" /\ Cardinality(Attempts(a)) < Cap
    BY <1>9 DEF PassCap
  <2>3. Observed(a, gate, Now)
    BY <1>1, <2>2 DEF RequestSound
  <2>4. Cardinality(Known(a, gate)) < Cap
    <3>1. IsFiniteSet(1..Now)
      BY <1>1, FS_Interval
    <3>2. Attempts(a) \subseteq 1..Now /\ Known(a, gate) \subseteq Attempts(a)
      BY <1>1 DEF Attempts, Known
    <3>3. IsFiniteSet(Attempts(a))
      BY <3>1, <3>2, FS_Subset
    <3>4. /\ Cardinality(Known(a, gate)) <= Cardinality(Attempts(a))
          /\ IsFiniteSet(Known(a, gate))
      BY <3>2, <3>3, FS_Subset
    <3>5. Cardinality(Known(a, gate)) \in Nat /\ Cardinality(Attempts(a)) \in Nat
      BY <3>3, <3>4, FS_CardinalityType
    <3>6. QED
      BY <2>2, <3>4, <3>5, OwnerAccountAssumption
  <2> HIDE DEF q, a, gate
  <2>5. RequestSound(q)
    BY <1>2, <2>1, <2>3, <2>4 DEF RequestSound
  <2>6. QED
    BY <2>1, <2>2, <2>5
<1>10. QED
  BY <1>4, <1>5, <1>6, <1>7, <1>8, <1>9 DEF RequestStep, RecordRefresh, InsertRunning, Refuse

(* What AdmissionsJustified says of one attempt.                             *)
Justified(a, j) ==
    /\ Observed(a, rows[j].gate, j - 1)
    /\ Cardinality(Known(a, rows[j].gate)) < Cap

(* An attempt stays justified.                                               *)
LEMMA JustifiedLater ==
    ASSUME IInv, Grows, NEW a \in Actions, NEW j \in Ids, j \in Attempts(a)'
    PROVE  Justified(a, j)'
<1>1. TypeOK /\ Now \in Nat /\ Ids = 1..Now /\ rows[j] \in Row /\ SameRequest(rows[j], rows'[j])
  BY DEF IInv, TypeOK, Ids, Now, Grows, Kept
<1>2. j \in Attempts(a)
  BY <1>1 DEF Attempts, SameRequest
<1>3. PICK gate \in Nat : gate = rows[j].gate
  BY <1>1, OwnerAccountAssumption DEF Row, Times
<1>4. PICK n \in Nat : n = j - 1
  BY <1>1
<1>5. gate < j /\ gate <= Now
  BY <1>1, <1>3 DEF IInv, AdmissionInv
<1>6. Observed(a, gate, n) /\ Cardinality(Known(a, gate)) < Cap
  BY <1>2, <1>3, <1>4 DEF IInv, AdmissionInv, AdmissionsJustified
<1>7. Observed(a, gate, n)'
  BY <1>1, <1>5, <1>6, ObservedLater
<1>8. Cardinality(Known(a, gate))' < Cap
  BY <1>1, <1>5, <1>6, KnownLater
<1>9. rows'[j].gate = gate
  BY <1>1, <1>3 DEF SameRequest
<1>10. QED
  BY <1>4, <1>7, <1>8, <1>9 DEF Justified, Observed, Known

(* The invariant is kept where the new row and the request that moves are    *)
(* sound.                                                                    *)
LEMMA AdmissionFrom ==
    ASSUME IInv, Grows, TypeOK', NEW r, NEW q \in Request,
           (r \in Requests /\ Becomes(r, q) /\ RequestSound(q)) \/ UNCHANGED request,
           \A i \in Ids' \ Ids :
              /\ rows'[i].finished <= Now' /\ rows'[i].gate < i
              /\ \A a \in Actions : i \in Attempts(a)' => Justified(a, i)'
    PROVE  AdmissionInv'
<1>1. ASSUME NEW i \in Ids' PROVE rows'[i].finished <= Now' /\ rows'[i].gate < i
  <2>1. CASE i \in Ids
    BY <2>1 DEF IInv, AdmissionInv, Grows, Kept, SameRequest
  <2>2. QED
    BY <2>1
<1>2. ASSUME NEW s \in Requests PROVE RequestSound(request[s])'
  <2>1. PICK p \in Request : p = request'[s] /\ RequestSound(p)
    BY DEF IInv, AdmissionInv, TypeOK, Becomes
  <2>2. RequestSound(p)'
    BY <2>1, RequestLater
  <2>3. QED
    BY <2>1, <2>2 DEF RequestSound, Known, Observed, Attempts, Observations, Ids, Now
<1>3. ASSUME NEW a \in Actions, NEW j, j \in Attempts(a)' PROVE Justified(a, j)'
  <2>1. j \in Ids'
    BY <1>3 DEF Attempts
  <2>2. CASE j \in Ids
    BY <1>3, <2>2, JustifiedLater
  <2>3. QED
    BY <1>3, <2>1, <2>2
<1>4. AdmissionsJustified'
  BY <1>3 DEF AdmissionsJustified, Justified
<1>5. QED
  BY <1>1, <1>2, <1>4 DEF AdmissionInv

(* The row a request inserts.                                                *)
LEMMA AdmissionAppended ==
    ASSUME IInv, Grows, NEW q \in Request, RequestSound(q), NEW x \in Row, NEW rs \in Seq(Row),
           Len(rs) = Len(rows), rows' = Append(rs, x), x.gate = q.gate, x.finished <= Now + 1,
           x.refresh \/ (x.action = q.action /\ q.pc = "insert"),
           NEW i \in Ids' \ Ids
    PROVE  /\ rows'[i].finished <= Now' /\ rows'[i].gate < i
           /\ \A a \in Actions : i \in Attempts(a)' => Justified(a, i)'
<1>1. TypeOK /\ Now \in Nat /\ Ids = 1..Now /\ Len(rs) = Now /\ q.gate \in Nat /\ q.gate <= Now
  BY OwnerAccountAssumption DEF IInv, TypeOK, Now, Ids, Request, Times, RequestSound
<1>2. i = Now + 1 /\ Now' = Now + 1 /\ rows'[i] = x
  <2>1. i = Now + 1 /\ Now' = Now + 1
    BY DEF Grows
  <2>2. QED
    BY <1>1, <2>1
<1>3. ASSUME NEW a \in Actions, i \in Attempts(a)' PROVE Justified(a, i)'
  <2>1. x.action = a /\ ~x.refresh
    BY <1>2, <1>3 DEF Attempts
  <2>2. q.action = a /\ q.pc = "insert"
    BY <2>1
  <2>3. PICK gate \in Nat : gate = q.gate
    BY <1>1
  <2>4. PICK n \in Nat : n = Now
    BY <1>1
  <2>5. Observed(a, gate, n) /\ Cardinality(Known(a, gate)) < Cap
    BY <2>2, <2>3, <2>4 DEF RequestSound
  <2>6. Observed(a, gate, n)'
    BY <1>1, <2>3, <2>5, ObservedLater
  <2>7. Cardinality(Known(a, gate))' < Cap
    BY <1>1, <2>3, <2>5, KnownLater
  <2>8. rows'[i].gate = gate /\ n = i - 1
    BY <1>1, <1>2, <2>3, <2>4
  <2>9. QED
    BY <2>6, <2>7, <2>8 DEF Justified, Observed, Known
<1>4. QED
  BY <1>1, <1>2, <1>3

LEMMA AdmissionStep ==
    ASSUME IInv, TypeOK', [Next]_vars
    PROVE  AdmissionInv'
<1>1. Grows /\ TypeOK /\ IdleRequest \in Request
  BY TableGrows, Records DEF IInv
(* No row is new.                                                            *)
<1>2. ASSUME Ids' = Ids, NEW r, NEW q \in Request,
             (r \in Requests /\ Becomes(r, q) /\ RequestSound(q)) \/ UNCHANGED request
      PROVE  AdmissionInv'
  BY <1>1, <1>2, AdmissionFrom
<1>3. DOMAIN Swept(rows) = Ids
  BY <1>1, SweptRows
<1>4. ASSUME NEW r \in Requests, RequestStep(r) PROVE AdmissionInv'
  <2>1. PICK q \in Request : Becomes(r, q) /\ RequestSound(q)
    BY <1>4, RequestGoesOn
  <2>2. /\ request[r] \in Request /\ RequestSound(request[r])
        /\ rows \in Seq(Row) /\ Now \in Nat
        /\ Swept(rows) \in Seq(Row) /\ Len(Swept(rows)) = Len(rows)
    BY <1>1, SweptRows DEF IInv, AdmissionInv, TypeOK, Now
  <2>3. CASE rows' = rows \/ rows' = Swept(rows)
    BY <1>2, <1>3, <2>1, <2>3 DEF Ids
  <2>4. CASE RecordRefresh(r)
    <3> DEFINE x == Refreshed(request[r])
    <3>1. Len(rows) < MaxRows /\ rows' = Append(rows, x)
      BY <2>4 DEF RecordRefresh
    <3>2. x \in Row
      BY <1>1, <2>2, <3>1, InsertedRow
    <3>3. x.gate = request[r].gate /\ x.finished = Now + 1 /\ x.refresh
      BY DEF Refreshed, NewRow
    <3>4. x.finished <= Now + 1
      BY <2>2, <3>3
    <3> HIDE DEF x
    <3>5. ASSUME NEW i \in Ids' \ Ids
          PROVE  /\ rows'[i].finished <= Now' /\ rows'[i].gate < i
                 /\ \A a \in Actions : i \in Attempts(a)' => Justified(a, i)'
      BY <1>1, <2>2, <3>1, <3>2, <3>3, <3>4, AdmissionAppended
    <3>6. QED
      BY <1>1, <2>1, <3>5, AdmissionFrom
  <2>5. CASE InsertRunning(r)
    <3> DEFINE x == NewRow(request[r])
    <3>1. Len(rows) < MaxRows /\ rows' = Append(Swept(rows), x) /\ request[r].pc = "insert"
      BY <2>5 DEF InsertRunning
    <3>2. x \in Row
      BY <1>1, <2>2, <3>1, InsertedRow
    <3>3. x.gate = request[r].gate /\ x.finished = 0 /\ x.action = request[r].action
      BY DEF NewRow
    <3> HIDE DEF x
    <3>4. x.finished <= Now + 1
      BY <2>2, <3>3
    <3>5. ASSUME NEW i \in Ids' \ Ids
          PROVE  /\ rows'[i].finished <= Now' /\ rows'[i].gate < i
                 /\ \A a \in Actions : i \in Attempts(a)' => Justified(a, i)'
      BY <1>1, <2>2, <3>1, <3>2, <3>3, <3>4, AdmissionAppended
    <3>6. QED
      BY <1>1, <2>1, <3>5, AdmissionFrom
  <2>6. QED
    BY <1>4, <2>3, <2>4, <2>5
       DEF RequestStep, BeginRefresh, BeginMutation, ReadUpstream, ReadLast, PassGate, PassCap, Refuse
<1>5. ASSUME NEW i \in Ids, WorkerActs(i) PROVE AdmissionInv'
  <2>1. PICK w \in Worker, x \in Row : Changes(i, w, x)
    BY <1>1, <1>5, WorkerMoves
  <2>2. Ids' = Ids /\ UNCHANGED request
    BY <2>1 DEF Changes, Ids
  <2>3. QED
    BY <1>1, <1>2, <2>2
<1>6. CASE Sweep
  BY <1>1, <1>2, <1>3, <1>6 DEF Sweep, Ids
<1>7. CASE UNCHANGED vars
  BY <1>1, <1>2, <1>7 DEF vars, Ids
<1>8. QED
  BY <1>4, <1>5, <1>6, <1>7 DEF Next, WorkerActs

LEMMA AdmissionInit == Init => AdmissionInv
<1> SUFFICES ASSUME Init PROVE AdmissionInv
  OBVIOUS
<1>1. rows = <<>> /\ Ids = {} /\ Now = 0 /\ request = [r \in Requests |-> IdleRequest]
  BY DEF Init, Ids, Now
<1>2. IdleRequest.gate = 0 /\ IdleRequest.pc = "idle"
  BY DEF IdleRequest
<1>3. \A r \in Requests : RequestSound(request[r])
  BY <1>1, <1>2 DEF RequestSound
<1>4. \A a \in Actions : Attempts(a) = {}
  BY <1>1 DEF Attempts
<1>5. QED
  BY <1>1, <1>3, <1>4 DEF AdmissionInv, AdmissionsJustified

-----------------------------------------------------------------------------
(* The theorems                                                              *)

(* The invariant of the running slot and of the gates' knowledge is          *)
(* inductive.                                                                *)
THEOREM Inductive == Spec => []IInv
<1>1. Init => IInv
  BY TypeInit, SlotInit, AdmissionInit DEF IInv
<1>2. IInv /\ [Next]_vars => IInv'
  BY TypeStep, SlotStep, AdmissionStep DEF IInv
<1>3. QED
  BY <1>1, <1>2, PTL DEF Spec

(* Whatever the interleaving, of the attempts a request had read when it     *)
(* passed the gates each was observed since, and they were fewer than the    *)
(* cap (admitMutation).                                                      *)
THEOREM AdmissionsAreJustified == Spec => []AdmissionsJustified
<1>1. IInv => AdmissionsJustified
  BY DEF IInv, AdmissionInv
<1>2. QED
  BY <1>1, Inductive, PTL

(* Two upstream mutations of one account are in flight together only after   *)
(* the older one was taken for dead (insertRunningOperation,                 *)
(* sweepStaleRunning).                                                       *)
THEOREM OverlapIsSwept == Spec => []OverlapNeedsSweep
<1>1. IInv => OverlapNeedsSweep
  <2> SUFFICES ASSUME IInv, NEW i \in Ids, NEW j \in Ids, i < j, InFlight(i), InFlight(j)
               PROVE  TakenForDead(i)
    BY DEF OverlapNeedsSweep
  <2>1. ~ Settled(i) /\ ~ Settled(j)
    BY DEF IInv, SlotInv, InFlight
  <2>2. QED
    BY <2>1 DEF IInv, SlotInv
<1>2. QED
  BY <1>1, Inductive, PTL

(* A settled row stays settled: its outcome is overwritten only after a      *)
(* sweep, by its own worker, and its finished_at only by that worker, which  *)
(* may try its write again (finishOperation).                                *)
THEOREM SettledOnce == Spec => SettledStays
<1> DEFINE Stays(i) ==
      rows[i].status \in Terminal =>
          /\ rows'[i].status \in Terminal
          /\ rows'[i].finished >= rows[i].finished
          /\ rows'[i].finished # rows[i].finished => worker[i].pc = "finish"
          /\ \/ rows'[i].status = rows[i].status /\ rows'[i].usable = rows[i].usable
             \/ TakenForDead(i) /\ worker[i].pc = "finish"
<1>1. ASSUME IInv, [Next]_vars PROVE \A i \in Ids : Stays(i)
  <2>1. /\ Ids = 1..Len(rows) /\ Len(worker) = Len(rows) /\ Len(rows) \in Nat /\ TypeOK
        /\ rows \in Seq(Row) /\ \A i \in Ids : worker[i] \in Worker
        /\ \A i \in Ids : rows[i].finished \in Nat /\ rows[i].finished <= Now
    <3>1. /\ TypeOK /\ Ids = 1..Len(rows) /\ Len(worker) = Len(rows) /\ Len(rows) \in Nat
          /\ rows \in Seq(Row) /\ worker \in Seq(Worker)
      BY <1>1 DEF IInv, TypeOK, Ids
    <3>2. \A i \in Ids : rows[i] \in Row /\ worker[i] \in Worker
      BY <3>1
    <3>3. \A i \in Ids : rows[i].finished \in Nat
      BY <3>2, OwnerAccountAssumption DEF Row, Times
    <3>4. \A i \in Ids : rows[i].finished <= Now
      BY <1>1 DEF IInv, AdmissionInv
    <3>5. QED
      BY <3>1, <3>2, <3>3, <3>4
  <2>2. ASSUME NEW i \in Ids, rows'[i] = rows[i] PROVE Stays(i)
    BY <2>1, <2>2
  <2>3. ASSUME NEW i \in Ids, SweptOr(rows[i], rows'[i]) PROVE Stays(i)
    BY <2>2, <2>3 DEF SweptOr, Terminal
  <2>4. ASSUME NEW rs \in Seq(Row), NEW x \in Row, rows' = Append(rs, x), Len(rs) = Len(rows),
               \A i \in Ids : SweptOr(rows[i], rs[i])
        PROVE  \A i \in Ids : Stays(i)
    <3>1. \A i \in Ids : rows'[i] = rs[i]
      BY <2>1, <2>4
    <3> HIDE DEF Stays
    <3>2. QED
      BY <2>3, <2>4, <3>1
  <2>5. ASSUME NEW r \in Requests, RequestStep(r) PROVE \A i \in Ids : Stays(i)
    <3>1. request[r] \in Request
      BY <2>1 DEF TypeOK
    <3> HIDE DEF Stays
    <3>2. CASE RecordRefresh(r)
      <4>1. Len(rows) < MaxRows /\ rows' = Append(rows, Refreshed(request[r]))
        BY <3>2 DEF RecordRefresh
      <4>2. \A i \in Ids : SweptOr(rows[i], rows[i])
        BY DEF SweptOr
      <4>3. QED
        BY <2>1, <2>4, <3>1, <4>1, <4>2, InsertedRow
    <3>3. CASE InsertRunning(r)
      <4>1. Len(rows) < MaxRows /\ rows' = Append(Swept(rows), NewRow(request[r]))
        BY <3>3 DEF InsertRunning
      <4>2. QED
        BY <2>1, <2>4, <3>1, <4>1, InsertedRow, SweptRows, SweptEach
    <3>4. CASE rows' = rows \/ rows' = Swept(rows)
      BY <2>1, <2>2, <2>3, <3>4, SweptEach
    <3>5. QED
      BY <2>5, <3>2, <3>3, <3>4
         DEF RequestStep, BeginRefresh, BeginMutation, ReadUpstream, ReadLast, PassGate, PassCap, Refuse
  <2>6. ASSUME NEW i \in Ids, WorkerActs(i) PROVE \A j \in Ids : Stays(j)
    <3>1. PICK w \in Worker, x \in Row : Changes(i, w, x) /\ Orderly(i, w, x)
      BY <2>1, <2>6, WorkerMoves
    <3>2. /\ rows'[i] = x
          /\ \A j \in Ids \ {i} : rows'[j] = rows[j]
      BY <2>1, <3>1 DEF Changes
    <3>3. Stays(i)
      <4>1. CASE SameOutcome(rows[i], x)
        BY <2>1, <3>2, <4>1 DEF SameOutcome
      <4>2. CASE /\ worker[i].pc = "finish"
                 /\ x.status = worker[i].outcome /\ x.usable = worker[i].usable
                 /\ x.finished = Now
        <5>1. x.status \in Terminal
          BY <2>1, <4>2 DEF Worker
        <5>2. rows[i].status \in Terminal =>
                 \/ TakenForDead(i)
                 \/ worker[i].outcome = rows[i].status /\ worker[i].usable = rows[i].usable
          BY <1>1, <4>2 DEF IInv, SlotInv, Terminal
        <5>3. QED
          BY <2>1, <3>2, <4>2, <5>1, <5>2 DEF Now
      <4>3. QED
        BY <3>1, <4>1, <4>2 DEF Orderly
    <3> HIDE DEF Stays
    <3>4. QED
      BY <2>2, <3>2, <3>3
  <2> HIDE DEF Stays
  <2>7. CASE Sweep
    BY <2>3, <2>7, <2>1, SweptEach DEF Sweep
  <2>8. CASE UNCHANGED vars
    BY <2>2, <2>8 DEF vars
  <2>9. QED
    BY <1>1, <2>5, <2>6, <2>7, <2>8 DEF Next, WorkerActs
<1>2. IInv /\ [Next]_vars => [\A i \in Ids : Stays(i)]_vars
  BY <1>1
<1>3. QED
  BY <1>2, Inductive, PTL DEF Spec, SettledStays
=============================================================================
