---------------------------- MODULE OwnerAccount ----------------------------
(***************************************************************************)
(* The operations of one pooled Relay account: backend/internal/           *)
(* owneraccount.  Its owner refreshes an observation, or requests one of   *)
(* two irreversible mutations; the request passes gates that read earlier  *)
(* operation rows, claims the account's running slot with a row, and       *)
(* leaves the upstream call to a detached worker.                          *)
(*                                                                         *)
(* Every database statement is a step.  Times are the database's and are   *)
(* only ever compared with the creation of a row, so that a time is the    *)
(* number of rows there are.  Ages are not modelled: a gate may find any   *)
(* observation too old, and a heartbeat goes stale when its worker is dead *)
(* or cannot write (Faults).                                               *)
(***************************************************************************)
EXTENDS Naturals, Sequences, FiniteSets

CONSTANTS Actions,      \* the mutations, each with its refresh
          Requests,     \* HTTP requests of the owner
          Cap,          \* daily cap of each action; no row is older than a day
          Tries,        \* how often a terminal write is tried; 3 in the code
          MaxRows,      \* bound: operations of the account
          Faults        \* whether processes die and writes fail

ASSUME OwnerAccountAssumption ==
    /\ Actions # {}
    /\ Cap \in Nat
    /\ Tries \in Nat \ {0}
    /\ MaxRows \in Nat
    /\ Faults \in BOOLEAN

VARIABLES rows,      \* owner_account_operations of the account, by created_at
          request,   \* what each request handler holds
          worker     \* what the worker of each row holds

vars == <<rows, request, worker>>

-----------------------------------------------------------------------------

Statuses == {"running", "succeeded", "failed", "unknown"}

Terminal == Statuses \ {"running"}

Times == 0..MaxRows

Now == Len(rows)

(* finished: finished_at; usable: the result has an observation with         *)
(* something left to spend; fresh: heartbeat_at is young enough, which       *)
(* matters while the row runs.  Not stored: gate, when the request had read  *)
(* the earlier attempts, and written, the times at which the outcome was     *)
(* written (not by a sweep).                                                 *)
Row == [action : Actions, refresh : BOOLEAN, status : Statuses, finished : Times,
        usable : BOOLEAN, fresh : BOOLEAN, gate : Times, written : SUBSET Times]

NewRow(q) == [action |-> q.action, refresh |-> FALSE, status |-> "running", finished |-> 0,
              usable |-> FALSE, fresh |-> TRUE, gate |-> q.gate, written |-> {}]

Refreshed(q) == [NewRow(q) EXCEPT !.refresh = TRUE, !.status = q.outcome, !.finished = Now + 1,
                                  !.usable = q.usable, !.fresh = FALSE,
                                  !.written = {Now + 1}]

RequestPcs == {"idle", "facts", "observe", "cap", "insert", "read", "record"}

(* last: the row of the last attempt, 0 for none.                            *)
Request == [pc : RequestPcs, action : Actions, last : Times, gate : Times,
            outcome : Terminal, usable : BOOLEAN]

IdleRequest == [pc |-> "idle", action |-> CHOOSE a \in Actions : TRUE, last |-> 0, gate |-> 0,
                outcome |-> "failed", usable |-> FALSE]

(* outcome and usable are what the worker will write, tries how many times   *)
(* it may still try to.                                                      *)
Worker == [pc : {"call", "answer", "finish", "gone"}, outcome : Terminal, usable : BOOLEAN,
           tries : 1..Tries]

StartedWorker == [pc |-> "call", outcome |-> "unknown", usable |-> FALSE, tries |-> Tries]

NoWorker == [StartedWorker EXCEPT !.pc = "gone"]

Ids == DOMAIN rows

Attempts(a) == {i \in Ids : rows[i].action = a /\ ~rows[i].refresh}

Running == {i \in Ids : rows[i].status = "running"}

(* Swept, and not written by its worker since.                               *)
TakenForDead(i) == rows[i].status = "unknown" /\ rows[i].written = {}

Newest(S) == CHOOSE i \in S : \A j \in S : j <= i

-----------------------------------------------------------------------------
(* Rows                                                                      *)

(* Mutants: the sweep looks at another account, writes the code of a stale   *)
(* worker for the status, takes settled rows too.                            *)
SweepNothing(rs) == rs
SweepToCode(rs) ==
    [i \in DOMAIN rs |-> IF rs[i].status = "running" /\ ~rs[i].fresh
                         THEN [rs[i] EXCEPT !.status = "worker-stale", !.finished = Now]
                         ELSE rs[i]]
SweepAll(rs) ==
    [i \in DOMAIN rs |-> IF ~rs[i].fresh
                         THEN [rs[i] EXCEPT !.status = "unknown", !.finished = Now]
                         ELSE rs[i]]

(* sweepStaleRunning                                                         *)
Swept(rs) ==
    [i \in DOMAIN rs |-> IF rs[i].status = "running" /\ ~rs[i].fresh
                         THEN [rs[i] EXCEPT !.status = "unknown", !.finished = Now]
                         ELSE rs[i]]

Sweep ==
    /\ Swept(rows) # rows
    /\ rows' = Swept(rows)
    /\ UNCHANGED <<request, worker>>

Becomes(r, q) == request' = [request EXCEPT ![r] = q]

Ends(r) == Becomes(r, IdleRequest)

-----------------------------------------------------------------------------
(* RefreshQuota and RefreshReferral                                          *)

BeginRefresh(r, a) ==
    /\ request[r].pc = "idle"
    /\ Becomes(r, [IdleRequest EXCEPT !.pc = "read", !.action = a])
    /\ rows' = Swept(rows)
    /\ UNCHANGED worker

(* The upstream is read, or fails.                                           *)
ReadUpstream(r) ==
    /\ request[r].pc = "read"
    /\ \E usable \in BOOLEAN, outcome \in {"succeeded", "failed"} :
         /\ usable => outcome = "succeeded"
         /\ Becomes(r, [request[r] EXCEPT !.pc = "record", !.outcome = outcome,
                                          !.usable = usable])
    /\ UNCHANGED <<rows, worker>>

(* insertTerminalOperation, under the time of the insert.                    *)
RecordRefresh(r) ==
    LET q == request[r]
    IN /\ q.pc = "record"
       /\ Len(rows) < MaxRows
       /\ rows' = Append(rows, Refreshed(q))
       /\ worker' = Append(worker, NoWorker)
       /\ Ends(r)

-----------------------------------------------------------------------------
(* admitMutation                                                             *)

BeginMutation(r, a) ==
    /\ request[r].pc = "idle"
    /\ Becomes(r, [IdleRequest EXCEPT !.pc = "facts", !.action = a])
    /\ rows' = Swept(rows)
    /\ UNCHANGED worker

(* Mutant: only attempts that have ended count.                              *)
LastEndedAttempt(a) ==
    LET ended == {i \in Attempts(a) : rows[i].status = "succeeded"}
    IN IF ended = {} THEN 0 ELSE Newest(ended)

LastAttempt(a) == IF Attempts(a) = {} THEN 0 ELSE Newest(Attempts(a))

(* operationFacts: the time of the last attempt, ...                         *)
ReadLast(r) ==
    /\ request[r].pc = "facts"
    /\ Becomes(r, [request[r] EXCEPT !.pc = "observe", !.last = LastAttempt(request[r].action), !.gate = Now])
    /\ UNCHANGED <<rows, worker>>

(* ... then the latest successful row of the family, which has an            *)
(* observation or blocks the gate.                                           *)
Observations(a) == {i \in Ids : rows[i].action = a /\ rows[i].status = "succeeded"}

(* requireFreshQuotaObservation, requireFreshReferralObservation             *)
FreshObservation(a, last) ==
    /\ Observations(a) # {}
    /\ LET observed == rows[Newest(Observations(a))]
       IN observed.usable /\ observed.finished >= last

PassGate(r) ==
    /\ request[r].pc = "observe"
    /\ FreshObservation(request[r].action, request[r].last)
    /\ Becomes(r, [request[r] EXCEPT !.pc = "cap", !.last = 0])
    /\ UNCHANGED <<rows, worker>>

(* requireDailyMutationCapacity                                              *)
PassCap(r) ==
    /\ request[r].pc = "cap"
    /\ Cardinality(Attempts(request[r].action)) < Cap
    /\ Becomes(r, [request[r] EXCEPT !.pc = "insert"])
    /\ UNCHANGED <<rows, worker>>

(* A gate refuses, also an observation that is too old; another mutation     *)
(* runs; a statement fails or the client goes away.  Nothing is written.     *)
Refuse(r) ==
    /\ request[r].pc # "idle"
    /\ Ends(r)
    /\ UNCHANGED <<rows, worker>>

(* Mutant: the slot is not looked at, and no index protects it.              *)
InsertAnyway(r) ==
    LET q == request[r]
    IN /\ q.pc = "insert"
       /\ Len(rows) < MaxRows
       /\ rows' = Append(Swept(rows), NewRow(q))
       /\ worker' = Append(worker, StartedWorker)
       /\ Ends(r)

(* insertRunningOperation: one transaction sweeps, looks for a running row   *)
(* and inserts; the unique index decides between two of them.  The worker    *)
(* starts.                                                                   *)
InsertRunning(r) ==
    LET q == request[r]
    IN /\ q.pc = "insert"
       /\ Len(rows) < MaxRows
       /\ \A i \in Ids : Swept(rows)[i].status # "running"
       /\ rows' = Append(Swept(rows), NewRow(q))
       /\ worker' = Append(worker, StartedWorker)
       /\ Ends(r)

-----------------------------------------------------------------------------
(* runOperationWorker                                                        *)

WorkerBecomes(i, w) == worker' = [worker EXCEPT ![i] = w]

Will(i, outcome, usable) ==
    WorkerBecomes(i, [StartedWorker EXCEPT !.pc = "finish", !.outcome = outcome, !.usable = usable])

(* The upstream executes the mutation ...                                    *)
Execute(i) ==
    /\ worker[i].pc = "call"
    /\ WorkerBecomes(i, [worker[i] EXCEPT !.pc = "answer"])
    /\ UNCHANGED <<rows, request>>

(* ... or does not: it refuses, or the call does not get there and ends in   *)
(* an error or in the timeout.                                               *)
NotExecuted(i) ==
    /\ worker[i].pc = "call"
    /\ \E outcome \in {"failed", "unknown"} : Will(i, outcome, FALSE)
    /\ UNCHANGED <<rows, request>>

(* mutationFailureStatus of a call that was executed: a timeout and a 502    *)
(* are unknown, any other error of the transport or the decoder is failed.   *)
LostAnswers == IF Faults THEN {"unknown", "failed"} ELSE {}

(* performOperation: the answer, with or without an observation.             *)
Answer(i) ==
    /\ worker[i].pc = "answer"
    /\ \/ \E usable \in BOOLEAN : Will(i, "succeeded", usable)
       \/ \E outcome \in LostAnswers : Will(i, outcome, FALSE)
    /\ UNCHANGED <<rows, request>>

(* finishOperation writes by id, whatever the status has become meanwhile.   *)
(* The heartbeat matters no longer, and is taken for old.                    *)
Written(i) ==
    [rows EXCEPT ![i].status = worker[i].outcome, ![i].finished = Now,
                 ![i].usable = worker[i].usable, ![i].fresh = FALSE,
                 ![i].written = @ \cup {Now}]

Finish(i) ==
    /\ worker[i].pc = "finish"
    /\ rows' = Written(i)
    /\ WorkerBecomes(i, NoWorker)
    /\ UNCHANGED request

(* The write ends in an error, before or after its commit: it is tried       *)
(* again, Tries times in all.                                                *)
FinishUnheard(i) ==
    /\ Faults
    /\ worker[i].pc = "finish"
    /\ rows' \in {rows, Written(i)}
    /\ WorkerBecomes(i, IF worker[i].tries = 1 THEN NoWorker
                        ELSE [worker[i] EXCEPT !.tries = @ - 1])
    /\ UNCHANGED request

(* The process dies.                                                         *)
WorkerDies(i) ==
    /\ Faults
    /\ worker[i].pc # "gone"
    /\ WorkerBecomes(i, NoWorker)
    /\ UNCHANGED <<rows, request>>

(* startHeartbeat: the heartbeat grows old when nobody renews it, ...        *)
HeartbeatAges(i) ==
    /\ rows[i].status = "running" /\ rows[i].fresh
    /\ rows' = [rows EXCEPT ![i].fresh = FALSE]
    /\ UNCHANGED <<request, worker>>

(* ... which a live worker whose writes succeed does.                        *)
Dead(i) == worker[i].pc = "gone" /\ HeartbeatAges(i)

Stalled(i) == Faults /\ worker[i].pc # "gone" /\ HeartbeatAges(i)

TouchHeartbeat(i) ==
    /\ worker[i].pc \in {"call", "answer"}
    /\ rows[i].status = "running" /\ ~rows[i].fresh
    /\ rows' = [rows EXCEPT ![i].fresh = TRUE]
    /\ UNCHANGED <<request, worker>>

-----------------------------------------------------------------------------

Init ==
    /\ rows = <<>>
    /\ worker = <<>>
    /\ request = [r \in Requests |-> IdleRequest]

RequestStep(r) ==
    \/ \E a \in Actions : BeginRefresh(r, a) \/ BeginMutation(r, a)
    \/ ReadUpstream(r) \/ RecordRefresh(r)
    \/ ReadLast(r) \/ PassGate(r) \/ PassCap(r) \/ InsertRunning(r) \/ Refuse(r)

WorkerStep(i) == Execute(i) \/ NotExecuted(i) \/ Answer(i) \/ Finish(i)

Next ==
    \/ Sweep
    \/ \E r \in Requests : RequestStep(r)
    \/ \E i \in Ids : \/ WorkerStep(i) \/ FinishUnheard(i) \/ WorkerDies(i)
                    \/ Dead(i) \/ Stalled(i) \/ TouchHeartbeat(i)

Spec == Init /\ [][Next]_vars

(* Workers run; time passes for a heartbeat nobody renews; and somebody asks *)
(* for the operation, which sweeps (ListOperations, Operation, or a start).  *)
Fairness ==
    /\ WF_vars(Sweep)
    /\ \A i \in 1..MaxRows :
         /\ WF_vars(i \in Ids /\ WorkerStep(i))
         /\ WF_vars(i \in Ids /\ Dead(i))

FairSpec == Spec /\ Fairness

-----------------------------------------------------------------------------
(* Properties                                                                *)

(* Every variable has the type of what it models in the table and handlers.  *)
TypeOK ==
    /\ rows \in Seq(Row) /\ Len(rows) <= MaxRows
    /\ request \in [Requests -> Request]
    /\ worker \in Seq(Worker) /\ Len(worker) = Len(rows)

(* The attempts a request that read the table at this time knows of, and     *)
(* that each of them has been observed since: an observation counts at every *)
(* time it was written, so that a terminal write that is tried again renews  *)
(* an old one.                                                               *)
Known(a, gate) == {i \in Attempts(a) : i <= gate}

Observed(a, gate, until) ==
    \A i \in Known(a, gate) : \E k \in Observations(a) : \E t \in rows[k].written : t \in i..until

(* What the gates are worth although they read before the slot is claimed:   *)
(* of the attempts that existed when a request read them, each was followed  *)
(* by the write of a successful observation of its family before the next    *)
(* attempt, and they were fewer than the cap.                                *)
AdmissionsJustified ==
    \A a \in Actions : \A j \in Attempts(a) :
        /\ Observed(a, rows[j].gate, j - 1)
        /\ Cardinality(Known(a, rows[j].gate)) < Cap

(* Two upstream mutations of one account, of either action, are in flight    *)
(* together only after the older one was taken for dead.                     *)
InFlight(i) == worker[i].pc \in {"call", "answer"}

OverlapNeedsSweep ==
    \A i, j \in Ids : i < j /\ InFlight(i) /\ InFlight(j) => TakenForDead(i)

(* What the proofs carry from step to step.  A row is settled when its       *)
(* outcome has been written, by a worker that is gone or would write the     *)
(* same again; only a row that runs, or was swept, or is settled so has a    *)
(* worker, and no row after one that runs is without an outcome.             *)
Settled(i) == rows[i].written # {} /\ rows[i].status \in Terminal

SlotInv ==
    /\ \A i \in Ids :
          /\ Settled(i) \/ TakenForDead(i) \/ (rows[i].status = "running" /\ rows[i].written = {})
          /\ rows[i].status = "succeeded" => rows[i].finished \in rows[i].written
          /\ Settled(i) => \/ worker[i].pc = "gone"
                           \/ /\ worker[i].pc = "finish" /\ worker[i].outcome = rows[i].status
                              /\ worker[i].usable = rows[i].usable
    /\ \A i, j \in Ids : i < j /\ rows[i].status = "running" => Settled(j)

(* And what a request that has passed a gate still knows.                    *)
RequestSound(q) ==
    /\ q.gate <= Now
    /\ q.pc = "observe" => \A i \in Known(q.action, q.gate) : i <= q.last
    /\ q.pc \in {"cap", "insert"} => Observed(q.action, q.gate, Now)
    /\ q.pc = "insert" => Cardinality(Known(q.action, q.gate)) < Cap

AdmissionInv ==
    /\ \A i \in Ids : rows[i].finished <= Now /\ rows[i].gate < i
    /\ \A r \in Requests : RequestSound(request[r])
    /\ AdmissionsJustified

IInv == TypeOK /\ SlotInv /\ AdmissionInv

(* A row is settled once: its outcome is overwritten only when a sweep had   *)
(* taken its worker for dead, by that worker.  Its finished_at moves also    *)
(* when that worker tries the write again, and never back.  None runs again. *)
SettledStays ==
    [][\A i \in Ids : rows[i].status \in Terminal =>
          /\ rows'[i].status \in Terminal
          /\ rows'[i].finished >= rows[i].finished
          /\ rows'[i].finished # rows[i].finished => worker[i].pc = "finish"
          /\ \/ rows'[i].status = rows[i].status /\ rows'[i].usable = rows[i].usable
             \/ TakenForDead(i) /\ worker[i].pc = "finish"]_vars

(* Every operation ends in a terminal state, also when its worker is dead or *)
(* cannot write: no account stays blocked.                                   *)
OperationsEnd ==
    \A i \in 1..MaxRows : (i \in Running) ~> (i \notin Running)

-----------------------------------------------------------------------------
(* What the contract says, and the code does not keep                        *)

(* docs/contracts/owner-account-console.md:66: a mutation requires an        *)
(* observation newer than the last attempt, when it starts: one written      *)
(* before, and not older than the attempts there are.                        *)
FreshAtStart ==
    \A a \in Actions : \A i, j \in Attempts(a) : i < j =>
        \E k \in Observations(a) : /\ rows[k].written \subseteq i..MaxRows
                                  /\ \E t \in rows[k].written : t < j
=============================================================================
