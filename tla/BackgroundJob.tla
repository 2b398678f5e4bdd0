---------------------------- MODULE BackgroundJob ----------------------------
(***************************************************************************)
(* The jobs of the backend: a row that a request inserts, a detached       *)
(* worker that advances it, and a rule by which a row nobody advances is    *)
(* abandoned.  Four services keep such rows, each with rules of its own:    *)
(*                                                                         *)
(*   "sweep"         backend/internal/accountquota                          *)
(*   "prsync"        backend/internal/prsync                                *)
(*   "subscription"  backend/internal/adminsubscription                     *)
(*   "apply"         the apply runs of backend/internal/directorysync       *)
(*                                                                         *)
(* A behaviour is about one kind and one scope (provider, repository or     *)
(* source).  Every database statement and every call of an external         *)
(* service is a step.  The targets of a job are counted, not named.  A row   *)
(* becomes old by time alone: a worker may overstay the cutoff.             *)
(***************************************************************************)
EXTENDS Naturals, Sequences

CONSTANTS Kinds,      \* which kinds of jobs the instance looks at
          Requesters, \* HTTP requests and scheduler ticks that start a job
          Replicas,   \* processes of the backend
          Host,       \* the process each requester comes to
          Targets,    \* how many targets a job has
          MaxJobs,    \* bound: rows
          Faults      \* whether processes die and statements fail

ASSUME BackgroundJobAssumption ==
    /\ Kinds \subseteq {"sweep", "prsync", "subscription", "apply"}
    /\ Host \in [Requesters -> Replicas]
    /\ Targets \in Nat \ {0}
    /\ MaxJobs \in Nat
    /\ Faults \in BOOLEAN

VARIABLES kind,     \* whose jobs these are
          jobs,     \* the table, by id
          worker,   \* the worker of each row
          request,  \* where each request is
          marked    \* per process, runningSources of directorysync

vars == <<kind, jobs, worker, request, marked>>

-----------------------------------------------------------------------------
(* What the kinds do differently                                             *)

(* Mutant: the migration left the index out.                                 *)
NoIndex == {}

(* A partial unique index over the rows in flight.                           *)
Indexed == {"sweep"}

(* The worker's writes ask for a row that is still queued or running.        *)
WritesInFlight == {"prsync"}

(* Stale by updated_at, which every write of the worker moves; a sweep is    *)
(* stale by created_at.                                                      *)
StaleByUpdate == {"prsync", "subscription"}

(* Mutant: the reads of subscription jobs do not settle.                     *)
OnlySweepsSettle == {"sweep"}

(* Rows that a read of the jobs settles.                                     *)
SettledByReads == {"sweep", "subscription"}

(* A progress that cannot be saved is only logged.                           *)
ProgressOptional == {"sweep", "prsync"}

Work == IF kind = "apply" THEN 1 ELSE Targets

-----------------------------------------------------------------------------

InFlight == {"queued", "running"}

Statuses == InFlight \cup {"completed", "failed", "abandoned"}

Ids == 1..Len(jobs)

(* done: targets the worker has been through; listed: those of them in the   *)
(* stored results (for "apply", the applied facts); taken, which is not       *)
(* stored: whether the row was ever abandoned.                               *)
Job == [status : Statuses, old : BOOLEAN, done : 0..Targets, listed : 0..Targets,
        taken : BOOLEAN]

NewJob == [status |-> "queued", old |-> FALSE, done |-> 0, listed |-> 0, taken |-> FALSE]

(* at: its process; since: the number of rows when the request that started  *)
(* it looked for a job in flight.                                            *)
Worker == [pc : {"start", "call", "save", "finish", "fail", "gone"}, at : Replicas,
           since : 0..MaxJobs]

(* since as for a worker; job: the row the request has read as stale.        *)
Request == [pc : {"idle", "settle", "check", "abandon", "insert"},
            since : 0..MaxJobs, job : 0..MaxJobs]

Idle == [pc |-> "idle", since |-> 0, job |-> 0]

(* Where it ran no longer matters.                                           *)
Gone(w) == [w EXCEPT !.pc = "gone", !.at = CHOOSE p \in Replicas : TRUE]

Active(j) == jobs[j].status \in InFlight

Working(j) == worker[j].pc # "gone"

Latest(S) == CHOOSE j \in S : \A i \in S : i <= j

(* Mutant: the UPDATE forgets the predicate on the status.                   *)
SettledAnyStatus == [j \in Ids |-> IF jobs[j].old
                                     THEN [jobs[j] EXCEPT !.status = "abandoned", !.taken = TRUE]
                                     ELSE jobs[j]]

(* AbandonStaleSweeps, abandonStaleJobs: one UPDATE over the rows in flight. *)
Settled == [j \in Ids |-> IF Active(j) /\ jobs[j].old
                            THEN [jobs[j] EXCEPT !.status = "abandoned", !.taken = TRUE]
                            ELSE jobs[j]]

(* Every update moves updated_at.                                            *)
Touched(job) == [job EXCEPT !.old = @ /\ kind \notin StaleByUpdate]

(* A write of the worker: by id, or only to a row in flight.                 *)
Write(j, job) ==
    jobs' = IF kind \in WritesInFlight /\ ~Active(j) THEN jobs
            ELSE [jobs EXCEPT ![j] = Touched(job)]

(* A write that ends in an error, before its commit or after it.             *)
WriteUnheard(j, job) == UNCHANGED jobs \/ Write(j, job)

-----------------------------------------------------------------------------
(* Starting a job                                                            *)

At(r, pc) == request[r].pc = pc

Go(r, pc) == request' = [request EXCEPT ![r].pc = pc]

Return(r) == request' = [request EXCEPT ![r] = Idle]

(* StartSweep settles first, StartSyncJob and RunSource look for a job in    *)
(* flight, StartJob of adminsubscription looks for nothing.                  *)
FirstStep == CASE kind = "sweep" -> "settle"
               [] kind = "subscription" -> "insert"
               [] OTHER -> "check"

(* A request arrives at a process.  An apply marks its source there first    *)
(* (markSourceRunning), and is refused when another has.                     *)
Begin(r) ==
    /\ At(r, "idle")
    /\ kind = "apply" => ~marked[Host[r]]
    /\ marked' = [marked EXCEPT ![Host[r]] = @ \/ kind = "apply"]
    /\ Go(r, FirstStep)
    /\ UNCHANGED <<kind, jobs, worker>>

(* settleStale of StartSweep.                                                *)
SettleFirst(r) ==
    /\ At(r, "settle")
    /\ jobs' = Settled
    /\ Go(r, "check")
    /\ UNCHANGED <<kind, worker, marked>>

(* What is in the way of another job: for a sweep the newest row, if it is    *)
(* in flight (checkSweepAllowed), otherwise every row in flight.             *)
InTheWay == {j \in Ids : Active(j) /\ (kind = "sweep" => j = Len(jobs))}

CheckPasses(r) ==
    /\ InTheWay = {}
    /\ request' = [request EXCEPT ![r].pc = "insert", ![r].since = Len(jobs)]
    /\ UNCHANGED marked

(* isStaleSyncJob, on the newest of them.                                    *)
CheckFindsStale(r) ==
    /\ kind = "prsync" /\ InTheWay # {} /\ jobs[Latest(InTheWay)].old
    /\ request' = [request EXCEPT ![r].pc = "abandon", ![r].since = Len(jobs),
                                  ![r].job = Latest(InTheWay)]
    /\ UNCHANGED marked

(* A conflict, or the job in flight given back instead of a new one.         *)
CheckRefuses(r) ==
    /\ InTheWay # {}
    /\ kind = "prsync" => ~jobs[Latest(InTheWay)].old
    /\ Return(r)
    /\ marked' = [marked EXCEPT ![Host[r]] = FALSE]

Check(r) ==
    /\ At(r, "check")
    /\ CheckPasses(r) \/ CheckFindsStale(r) \/ CheckRefuses(r)
    /\ UNCHANGED <<kind, jobs, worker>>

(* abandonStaleSyncJob: by id, whatever has become of the row meanwhile.     *)
AbandonStale(r) ==
    /\ At(r, "abandon")
    /\ jobs' = [jobs EXCEPT ![request[r].job].status = "abandoned",
                            ![request[r].job].taken = TRUE]
    /\ request' = [request EXCEPT ![r].pc = "insert", ![r].job = 0]
    /\ UNCHANGED <<kind, worker, marked>>

(* The row and its worker.  A sweep beside another in flight fails at the    *)
(* index; the mark of an apply stays with its worker.                        *)
Insert(r) ==
    /\ At(r, "insert")
    /\ Len(jobs) < MaxJobs
    /\ kind \in Indexed => \A j \in Ids : ~Active(j)
    /\ jobs' = Append(jobs, NewJob)
    /\ worker' = Append(worker, [pc |-> "start", at |-> Host[r],
                                since |-> request[r].since])
    /\ Return(r)
    /\ UNCHANGED <<kind, marked>>

(* The request ends before its insert: a refusal (targets, interval, index), *)
(* an error, or the bound on rows.                                           *)
Refuse(r) ==
    /\ request[r].pc \in {"settle", "check", "abandon", "insert"}
    /\ Faults \/ kind = "sweep" \/ (At(r, "insert") /\ Len(jobs) = MaxJobs)
    /\ Return(r)
    /\ marked' = [marked EXCEPT ![Host[r]] = FALSE]
    /\ UNCHANGED <<kind, jobs, worker>>

-----------------------------------------------------------------------------
(* The worker                                                                *)

WorkerAt(j, pc) == worker[j].pc = pc

WorkerGoes(j, pc) == worker' = [worker EXCEPT ![j].pc = pc]

(* The worker returns; that of an apply gives back the mark.                 *)
WorkerEnds(j) ==
    /\ worker' = [worker EXCEPT ![j] = Gone(@)]
    /\ marked' = [marked EXCEPT ![worker[j].at] = FALSE]

(* prsync has no write of its own at the start: its first progress says      *)
(* running.                                                                  *)
StartsSilently(j) ==
    /\ kind = "prsync"
    /\ WorkerGoes(j, "call")
    /\ UNCHANGED <<jobs, marked>>

(* The running status, by id and beside the index.                           *)
Marked(j) == [jobs[j] EXCEPT !.status = "running"]

IndexAllows(j) == kind \in Indexed => \A i \in Ids \ {j} : ~Active(i)

MarksRunning(j) ==
    /\ kind # "prsync"
    /\ IndexAllows(j)
    /\ Write(j, Marked(j))
    /\ WorkerGoes(j, "call")
    /\ UNCHANGED marked

(* The index refuses it, or the write fails: the worker leaves the row.      *)
CannotMark(j) ==
    /\ kind # "prsync"
    /\ IF IndexAllows(j) THEN Faults /\ WriteUnheard(j, Marked(j)) ELSE UNCHANGED jobs
    /\ WorkerEnds(j)

(* The source of an apply or its DSL cannot be used.                         *)
ApplyIsInvalid(j) ==
    /\ kind = "apply"
    /\ WorkerGoes(j, "fail")
    /\ UNCHANGED <<jobs, marked>>

(* The run cannot be read, before the mark is deferred: the mark stays.      *)
ApplyIsUnread(j) ==
    /\ kind = "apply" /\ Faults
    /\ worker' = [worker EXCEPT ![j] = Gone(@)]
    /\ UNCHANGED <<jobs, marked>>

WorkerStart(j) ==
    /\ WorkerAt(j, "start")
    /\ \/ StartsSilently(j)
       \/ MarksRunning(j)
       \/ CannotMark(j)
       \/ ApplyIsInvalid(j)
       \/ ApplyIsUnread(j)
    /\ UNCHANGED <<kind, request>>

(* One target: a call of the Relay, the SCM or the directory.  What fails    *)
(* the job as a whole (a page that cannot be fetched, a directory that does  *)
(* not answer, the deadline of the job, a panic) ends the loop.              *)
WorkerCall(j) ==
    /\ WorkerAt(j, "call")
    /\ \/ /\ jobs' = [jobs EXCEPT ![j].done = @ + 1]
          /\ WorkerGoes(j, "save")
       \/ /\ WorkerGoes(j, "fail")
          /\ UNCHANGED jobs
    /\ UNCHANGED <<kind, request, marked>>

(* Mutant: one target past the last.                                         *)
OneMore(j) == IF jobs[j].done <= Work THEN "call" ELSE "finish"

Onward(j) == IF jobs[j].done < Work THEN "call" ELSE "finish"

(* The results of a subscription job so far, the running status of a sync.   *)
Saved(j) == CASE kind = "subscription" -> [jobs[j] EXCEPT !.listed = jobs[j].done]
              [] kind = "prsync" -> [jobs[j] EXCEPT !.status = "running"]
              [] OTHER -> jobs[j]

Saves(j) ==
    /\ Write(j, Saved(j))
    /\ WorkerGoes(j, Onward(j))
    /\ UNCHANGED marked

(* Mutant: what is not saved is logged, whatever the kind.                   *)
OnlyLogs(j) == jobs' = jobs /\ marked' = marked /\ WorkerGoes(j, Onward(j))

(* A progress that is not saved is logged, or fails the job, or ends the     *)
(* worker of an apply with the row as it is.                                 *)
CannotSave(j) ==
    /\ WriteUnheard(j, Saved(j))
    /\ \/ kind \in ProgressOptional /\ WorkerGoes(j, Onward(j)) /\ UNCHANGED marked
       \/ kind = "subscription" /\ WorkerGoes(j, "fail") /\ UNCHANGED marked
       \/ kind = "apply" /\ WorkerEnds(j)

WorkerSave(j) ==
    /\ WorkerAt(j, "save")
    /\ Saves(j) \/ (Faults /\ CannotSave(j))
    /\ UNCHANGED <<kind, request>>

(* The outcome.  A sweep stores all its results here, an apply its facts in  *)
(* the same transaction; these two and subscriptions write by id.            *)
Completed(j) ==
    [jobs[j] EXCEPT !.status = "completed",
                    !.listed = IF kind \in {"sweep", "apply"} THEN jobs[j].done ELSE @]

Completes(j) ==
    /\ Write(j, Completed(j))
    /\ WorkerEnds(j)

(* The write fails.  A sweep and a sync log it, the others record the        *)
(* failure, also over a completion that was committed.                       *)
CannotComplete(j) ==
    /\ WriteUnheard(j, Completed(j))
    /\ IF kind \in ProgressOptional THEN WorkerEnds(j)
       ELSE WorkerGoes(j, "fail") /\ UNCHANGED marked

WorkerFinish(j) ==
    /\ WorkerAt(j, "finish")
    /\ Completes(j) \/ (Faults /\ CannotComplete(j))
    /\ UNCHANGED <<kind, request>>

(* failSweep, FailJob, failJobWithFreshContext, failRun.                     *)
WorkerFail(j) ==
    /\ WorkerAt(j, "fail")
    /\ \/ Write(j, [jobs[j] EXCEPT !.status = "failed"])
       \/ Faults /\ UNCHANGED jobs
    /\ WorkerEnds(j)
    /\ UNCHANGED <<kind, request>>

-----------------------------------------------------------------------------
(* Time, reads and crashes                                                   *)

Age(j) ==
    /\ Active(j) /\ ~jobs[j].old
    /\ jobs' = [jobs EXCEPT ![j].old = TRUE]
    /\ UNCHANGED <<kind, worker, request, marked>>

(* GetSweep, LatestSweep and List of accountquota, GetLatestJob of           *)
(* adminsubscription.                                                        *)
SettleOnRead ==
    /\ kind \in SettledByReads
    /\ jobs' = Settled
    /\ UNCHANGED <<kind, worker, request, marked>>

Crash(p) ==
    /\ Faults
    /\ worker' = [j \in Ids |-> IF worker[j].at = p THEN Gone(worker[j]) ELSE worker[j]]
    /\ request' = [r \in Requesters |-> IF Host[r] = p THEN Idle ELSE request[r]]
    /\ marked' = [marked EXCEPT ![p] = FALSE]
    /\ UNCHANGED <<kind, jobs>>

-----------------------------------------------------------------------------

Init ==
    /\ kind \in Kinds
    /\ jobs = <<>>
    /\ worker = <<>>
    /\ request = [r \in Requesters |-> Idle]
    /\ marked = [p \in Replicas |-> FALSE]

RequestStep(r) == SettleFirst(r) \/ Check(r) \/ AbandonStale(r) \/ Insert(r) \/ Refuse(r)

WorkerStep(j) ==
    WorkerStart(j) \/ WorkerCall(j) \/ WorkerSave(j) \/ WorkerFinish(j) \/ WorkerFail(j)

Next ==
    \/ \E r \in Requesters : Begin(r) \/ RequestStep(r)
    \/ \E j \in Ids : WorkerStep(j) \/ Age(j)
    \/ SettleOnRead
    \/ \E p \in Replicas : Crash(p)

Spec == Init /\ [][Next]_vars

(* Requests and workers run on, time passes, an administrator looks at the   *)
(* jobs, and not every request that comes to look for a job in flight fails  *)
(* before it has done so.                                                    *)
Fairness ==
    /\ \A r \in Requesters : WF_vars(RequestStep(r)) /\ WF_vars(Begin(r))
    /\ SF_vars(\E r \in Requesters : Check(r))
    /\ SF_vars(\E r \in Requesters : AbandonStale(r))
    /\ \A j \in 1..MaxJobs : WF_vars(j \in Ids /\ WorkerStep(j)) /\ WF_vars(j \in Ids /\ Age(j))
    /\ WF_vars(SettleOnRead)

FairSpec == Spec /\ Fairness

-----------------------------------------------------------------------------
(* Properties                                                                *)

TypeOK ==
    /\ kind \in Kinds
    /\ jobs \in Seq(Job) /\ Len(jobs) <= MaxJobs
    /\ worker \in Seq(Worker) /\ Len(worker) = Len(jobs)
    /\ request \in [Requesters -> Request]
    /\ marked \in [Replicas -> BOOLEAN]
    /\ \A r \in Requesters : At(r, "abandon") => request[r].job \in Ids

(* Two workers of one scope are there only if the older's row was given up   *)
(* as stale, or was completed and its worker only has not heard of it; if    *)
(* the service has no check (subscriptions); or if it has only a check       *)
(* before the insert and two requests passed it together: those of the two   *)
(* workers, if they are applies of different processes, and for prsync,      *)
(* whose check looks at the newest row in flight and, when that is stale, at *)
(* no other, those of the older worker and of any later row.                 *)
OverlapIsExcused ==
    \A i, j \in Ids :
        i < j /\ Working(i) /\ Working(j) /\ ~jobs[i].taken /\ jobs[i].status # "completed" =>
            \/ kind = "subscription"
            \/ kind = "prsync" /\ \E k \in (i + 1)..j : worker[k].since < i
            \/ kind = "apply" /\ worker[j].since < i /\ worker[i].at # worker[j].at

(* What a job reports is what it did: it lists nothing it has not been       *)
(* through; a completed job lists everything; and a subscription job is at   *)
(* most one target ahead of its list, wherever it stopped, although its      *)
(* mutations of the Relay and the list are in two systems.                   *)
ReportIsTrue ==
    \A j \in Ids :
        /\ jobs[j].listed <= jobs[j].done
        /\ jobs[j].status = "completed" =>
              /\ jobs[j].done = Work
              /\ kind # "prsync" => jobs[j].listed = Work
        /\ kind = "subscription" => jobs[j].done <= jobs[j].listed + 1

(* An outcome the worker has stored stays.  Only prsync abandons by id a row *)
(* it had read as stale; and a subscription job or an apply is failed after  *)
(* it was completed when its worker has not heard that it was.               *)
OutcomeStays ==
    [][\A j \in Ids :
         jobs[j].status \in {"completed", "failed"} /\ kind # "prsync" =>
           \/ jobs'[j].status = jobs[j].status
           \/ /\ kind \notin ProgressOptional
              /\ jobs[j].status = "completed" /\ WorkerAt(j, "fail")
              /\ jobs'[j].status = "failed" /\ worker'[j].pc = "gone"]_vars

(* A job in flight ends, although processes die, statements fail and a       *)
(* worker overstays.  For an apply that lost its worker nothing is claimed:  *)
(* no code settles it, and it refuses every later apply of its source.       *)
JobEnds ==
    \A j \in 1..MaxJobs :
        (j \in Ids /\ Active(j)) ~>
            (j \in Ids /\ (~Active(j) \/ (kind = "apply" /\ ~Working(j))))
=============================================================================
