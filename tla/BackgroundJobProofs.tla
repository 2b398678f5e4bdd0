------------------------ MODULE BackgroundJobProofs -------------------------
(***************************************************************************)
(* Proofs about BackgroundJob, for any requesters, replicas and bounds.     *)
(***************************************************************************)
EXTENDS BackgroundJob, SequenceTheorems, WellFoundedInduction, TLAPS

-----------------------------------------------------------------------------
(* The inductive invariant                                                   *)

(* A completion was committed of which the worker has not heard.             *)
Unheard(job, w) == w.pc = "fail" /\ kind \notin ProgressOptional /\ job.status = "completed"

(* A row under a worker is in flight, unless it was given up or completed    *)
(* unheard.                                                                  *)
Unfinished(job, w) ==
    w.pc # "gone" =>
        \/ job.status \in InFlight
        \/ job.status = "abandoned" /\ job.taken
        \/ Unheard(job, w)

(* How far a worker is, by the step it is about to make.                     *)
Reached(job, w) ==
    /\ job.done <= Work
    /\ w.pc = "start" => job.done = 0
    /\ w.pc = "call" => job.done < Work
    /\ w.pc = "finish" => job.done = Work

(* ReportIsTrue of one row, and when the list of a subscription job is full. *)
Reported(job, w) ==
    /\ job.listed <= job.done
    /\ job.status = "completed" =>
          /\ job.done = Work
          /\ kind # "prsync" => job.listed = Work
    /\ kind = "subscription" =>
          /\ job.done <= job.listed + 1
          /\ w.pc \in {"start", "call", "finish"} => job.done = job.listed

RowOK(job, w) ==
    /\ job \in Job /\ w \in Worker
    /\ Unfinished(job, w) /\ Reached(job, w) /\ Reported(job, w)

Rows == \A j \in Ids : RowOK(jobs[j], worker[j])

(* Neither given up nor completed.                                           *)
Pending(job) == ~job.taken /\ job.status # "completed"

(* A worker whose row is pending.                                            *)
Holds(i) == Working(i) /\ Pending(jobs[i])

(* Somebody after row i, up to row j, passed the check before row i was      *)
(* there.                                                                    *)
PassedTogether(i, j) == \E k \in (i + 1)..j : worker[k].since < i

(* What may stand beside a row that is held.                                 *)
Later ==
    \A i, j \in Ids :
        i < j /\ Holds(i) =>
            \/ kind = "subscription"
            \/ kind = "prsync" /\ PassedTogether(i, j)
            \/ kind = "apply" /\ worker[j].since < i

(* What a request has seen of the rows there were at its check.              *)
Checked(r) ==
    /\ request[r].since <= Len(jobs)
    /\ At(r, "abandon") => kind = "prsync" /\ request[r].job \in Ids
    /\ At(r, "insert") \/ At(r, "abandon") =>
          \A i \in Ids :
              i <= request[r].since /\ Holds(i) =>
                  \/ kind = "subscription"
                  \/ kind = "prsync" /\ PassedTogether(i, request[r].since)
                  \/ At(r, "abandon") /\ i = request[r].job

Requested == \A r \in Requesters : Checked(r)

(* The mark of directorysync: one request or worker in a process at a time.  *)
Marks ==
    kind = "apply" =>
        /\ \A r \in Requesters :
              request[r].pc # "idle" =>
                  /\ marked[Host[r]]
                  /\ \A q \in Requesters \ {r} : request[q].pc # "idle" => Host[q] # Host[r]
                  /\ \A j \in Ids : Working(j) => worker[j].at # Host[r]
        /\ \A j \in Ids :
              Working(j) =>
                  /\ marked[worker[j].at]
                  /\ \A i \in Ids \ {j} : Working(i) => worker[i].at # worker[j].at

IInv == TypeOK /\ Rows /\ Later /\ Requested /\ Marks

-----------------------------------------------------------------------------
(* Rows and workers as records                                               *)

LEMMA WorkBounds == Work \in Nat \ {0} /\ Work <= Targets
BY BackgroundJobAssumption DEF Work

LEMMA JobValues ==
    ASSUME NEW job \in Job
    PROVE  /\ job.status \in Statuses /\ job.taken \in BOOLEAN
           /\ job.done \in Nat /\ job.done <= Targets
           /\ job.listed \in Nat /\ job.listed <= Targets
BY BackgroundJobAssumption DEF Job

LEMMA GoneValues ==
    ASSUME NEW w \in Worker
    PROVE  Gone(w) \in Worker /\ Gone(w).pc = "gone" /\ Gone(w).since = w.since
<1>1. (CHOOSE p \in Replicas : TRUE) \in Replicas
  BY DEF Worker
<1>2. QED
  BY <1>1 DEF Gone, Worker

LEMMA Moved ==
    ASSUME NEW w \in Worker, NEW pc \in {"start", "call", "save", "finish", "fail", "gone"}
    PROVE  /\ [w EXCEPT !.pc = pc] \in Worker
           /\ [w EXCEPT !.pc = pc].pc = pc
           /\ [w EXCEPT !.pc = pc].since = w.since
           /\ [w EXCEPT !.pc = pc].at = w.at
BY DEF Worker

LEMMA TouchedValues ==
    ASSUME NEW job \in Job
    PROVE  /\ Touched(job) \in Job
           /\ Touched(job).status = job.status /\ Touched(job).taken = job.taken
           /\ Touched(job).done = job.done /\ Touched(job).listed = job.listed
BY DEF Touched, Job

LEMMA Tables ==
    ASSUME TypeOK
    PROVE  /\ Len(jobs) \in Nat /\ jobs \in [Ids -> Job]
           /\ Len(worker) = Len(jobs) /\ worker \in [Ids -> Worker]
<1>1. jobs \in Seq(Job) /\ worker \in Seq(Worker) /\ Len(worker) = Len(jobs)
  BY DEF TypeOK
<1>2. QED
  BY <1>1, LenProperties DEF Ids

LEMMA MarkedType ==
    ASSUME TypeOK, NEW p, NEW b \in BOOLEAN
    PROVE  [marked EXCEPT ![p] = b] \in [Replicas -> BOOLEAN]
BY DEF TypeOK

-----------------------------------------------------------------------------
(* A step of a worker changes its row and itself                             *)

Becomes(j, job, w) ==
    /\ jobs' = [jobs EXCEPT ![j] = job]
    /\ worker' = [worker EXCEPT ![j] = w]

(* What every step of a worker does to its row, to itself and to the mark.   *)
Advances(j, job, w) ==
    /\ Becomes(j, job, w)
    /\ Working(j)
    /\ worker[j].pc = "fail" => w.pc = "gone"
    /\ job.taken = jobs[j].taken
    /\ w.since = worker[j].since
    /\ \/ w.at = worker[j].at /\ marked' = marked
       \/ w.pc = "gone" /\ marked' = marked
       \/ w.pc = "gone" /\ marked' = [marked EXCEPT ![worker[j].at] = FALSE]

LEMMA JobsStay ==
    ASSUME TypeOK, NEW j \in Ids, UNCHANGED jobs
    PROVE  jobs' = [jobs EXCEPT ![j] = jobs[j]]
BY Tables

LEMMA WriteBecomes ==
    ASSUME TypeOK, NEW j \in Ids, NEW job \in Job, Write(j, job)
    PROVE  \/ jobs' = [jobs EXCEPT ![j] = Touched(job)]
           \/ jobs' = [jobs EXCEPT ![j] = jobs[j]] /\ ~Active(j)
<1>1. CASE kind \in WritesInFlight /\ ~Active(j)
  BY <1>1, JobsStay DEF Write
<1>2. CASE ~(kind \in WritesInFlight /\ ~Active(j))
  BY <1>2 DEF Write
<1>3. QED
  BY <1>1, <1>2

LEMMA EndsBecomes ==
    ASSUME TypeOK, NEW j \in Ids, NEW job, WorkerEnds(j), Working(j),
           jobs' = [jobs EXCEPT ![j] = job], job.taken = jobs[j].taken
    PROVE  Advances(j, job, Gone(worker[j]))
<1>1. worker[j] \in Worker
  BY Tables
<1>2. worker' = [worker EXCEPT ![j] = Gone(worker[j])]
  BY Tables DEF WorkerEnds
<1>3. Gone(worker[j]).pc = "gone" /\ Gone(worker[j]).since = worker[j].since
  BY <1>1, GoneValues
<1>4. marked' = [marked EXCEPT ![worker[j].at] = FALSE]
  BY DEF WorkerEnds
<1>5. QED
  BY <1>2, <1>3, <1>4 DEF Advances, Becomes

LEMMA GoesBecomes ==
    ASSUME TypeOK, NEW j \in Ids, NEW job, Working(j), ~WorkerAt(j, "fail"), UNCHANGED marked,
           NEW pc \in {"start", "call", "save", "finish", "fail", "gone"}, WorkerGoes(j, pc),
           jobs' = [jobs EXCEPT ![j] = job], job.taken = jobs[j].taken
    PROVE  Advances(j, job, [worker[j] EXCEPT !.pc = pc])
<1>1. worker[j] \in Worker
  BY Tables
<1>2. worker' = [worker EXCEPT ![j] = [worker[j] EXCEPT !.pc = pc]]
  BY Tables DEF WorkerGoes
<1>3. /\ [worker[j] EXCEPT !.pc = pc].since = worker[j].since
      /\ [worker[j] EXCEPT !.pc = pc].at = worker[j].at
  BY <1>1, Moved
<1>4. QED
  BY <1>2, <1>3 DEF Advances, Becomes, WorkerAt

(* Once a worker has gone, or is about to fail, little is left to say.       *)
LEMMA GoneRow ==
    ASSUME NEW job \in Job, NEW w \in Worker, w.pc = "gone",
           job.done <= Work, Reported(job, w)
    PROVE  RowOK(job, w)
BY DEF RowOK, Unfinished, Reached

LEMMA FailingRow ==
    ASSUME NEW job \in Job, NEW w \in Worker, NEW v \in Worker, RowOK(job, w),
           w.pc # "gone", v.pc = "fail"
    PROVE  RowOK(job, v)
<1>1. Unfinished(job, v)
  BY DEF RowOK, Unfinished, Unheard
<1>2. Reached(job, v)
  BY DEF RowOK, Reached
<1>3. Reported(job, v)
  BY DEF RowOK, Reported
<1>4. QED
  BY <1>1, <1>2, <1>3 DEF RowOK

(* A worker may go away at any moment.                                       *)
LEMMA LeftRow ==
    ASSUME NEW job \in Job, NEW w \in Worker, RowOK(job, w)
    PROVE  RowOK(job, Gone(w))
<1>1. Gone(w) \in Worker /\ Gone(w).pc = "gone"
  BY GoneValues
<1>2. Reported(job, Gone(w))
  BY <1>1 DEF RowOK, Reported
<1>3. job.done <= Work
  BY DEF RowOK, Reached
<1>4. QED
  BY <1>1, <1>2, <1>3, GoneRow

(* The row and the worker may be read together.                              *)
LEMMA RowFacts ==
    ASSUME TypeOK, Rows, NEW j \in Ids
    PROVE  /\ jobs[j] \in Job /\ worker[j] \in Worker /\ RowOK(jobs[j], worker[j])
           /\ jobs[j].done \in Nat /\ jobs[j].listed \in Nat
           /\ jobs[j].done <= Targets /\ jobs[j].listed <= Targets
<1>1. RowOK(jobs[j], worker[j])
  BY DEF Rows
<1>2. jobs[j] \in Job /\ worker[j] \in Worker
  BY <1>1 DEF RowOK
<1>3. QED
  BY <1>1, <1>2, JobValues

Good(j) == \E job \in Job, w \in Worker : Advances(j, job, w) /\ RowOK(job, w)

(* The worker ends, whatever it has written.                                 *)
LEMMA GoodEnd ==
    ASSUME TypeOK, NEW j \in Ids, NEW job \in Job, WorkerEnds(j), Working(j),
           worker[j] \in Worker,
           jobs' = [jobs EXCEPT ![j] = job], job.taken = jobs[j].taken,
           job.done <= Work, Reported(job, Gone(worker[j]))
    PROVE  Good(j)
<1>1. Gone(worker[j]) \in Worker /\ Gone(worker[j]).pc = "gone"
  BY GoneValues
<1>2. RowOK(job, Gone(worker[j]))
  BY <1>1, GoneRow
<1>3. QED
  BY <1>1, <1>2, EndsBecomes DEF Good

(* The worker ends and leaves its row.                                       *)
LEMMA GoodLeave ==
    ASSUME TypeOK, Rows, NEW j \in Ids, WorkerEnds(j), Working(j), UNCHANGED jobs
    PROVE  Good(j)
<1>1. jobs[j] \in Job /\ worker[j] \in Worker /\ RowOK(jobs[j], worker[j])
  BY RowFacts
<1>2. RowOK(jobs[j], Gone(worker[j])) /\ Gone(worker[j]) \in Worker
  BY <1>1, LeftRow, GoneValues
<1>3. QED
  BY <1>1, <1>2, EndsBecomes, JobsStay DEF Good

(* The worker is about to record a failure.                                  *)
LEMMA GoodFailing ==
    ASSUME TypeOK, Rows, NEW j \in Ids, WorkerGoes(j, "fail"), Working(j),
           ~WorkerAt(j, "fail"), UNCHANGED <<jobs, marked>>
    PROVE  Good(j)
<1> DEFINE v == [worker[j] EXCEPT !.pc = "fail"]
<1>1. jobs[j] \in Job /\ worker[j] \in Worker /\ RowOK(jobs[j], worker[j])
  BY RowFacts
<1>2. v \in Worker /\ v.pc = "fail"
  BY <1>1, Moved
<1>3. RowOK(jobs[j], v)
  BY <1>1, <1>2, FailingRow DEF Working
<1>4. Advances(j, jobs[j], v)
  BY GoesBecomes, JobsStay
<1>5. QED
  BY <1>1, <1>2, <1>3, <1>4 DEF Good

(* So it is after a write that was committed with its reply lost.            *)
LEMMA GoodUnheard ==
    ASSUME TypeOK, NEW j \in Ids, worker[j] \in Worker, WorkerGoes(j, "fail"),
           Working(j), ~WorkerAt(j, "fail"), UNCHANGED marked, NEW new \in Job,
           jobs' = [jobs EXCEPT ![j] = new], new.taken = jobs[j].taken,
           new.done <= Work,
           \/ new.status \in InFlight
           \/ new.status = "abandoned" /\ new.taken
           \/ new.status = "completed" /\ kind \notin ProgressOptional,
           \A v \in Worker : v.pc = "fail" => Reported(new, v)
    PROVE  Good(j)
<1> DEFINE v == [worker[j] EXCEPT !.pc = "fail"]
<1>1. v \in Worker /\ v.pc = "fail"
  BY Moved
<1>2. Advances(j, new, v)
  BY GoesBecomes
<1> HIDE DEF v
<1>3. Unfinished(new, v) /\ Reached(new, v) /\ Reported(new, v)
  BY <1>1 DEF Unfinished, Unheard, Reached
<1>4. QED
  BY <1>1, <1>2, <1>3 DEF Good, RowOK

LEMMA StartAdvances ==
    ASSUME TypeOK, Rows, NEW j \in Ids, WorkerStart(j)
    PROVE  Good(j)
<1> DEFINE job == jobs[j]
           w == worker[j]
           v == [w EXCEPT !.pc = "call"]
<1>1. /\ job \in Job /\ w \in Worker /\ RowOK(job, w)
      /\ job.done \in Nat /\ job.listed \in Nat
  BY RowFacts
<1>2. Working(j) /\ w.pc = "start" /\ ~WorkerAt(j, "fail")
  BY DEF WorkerStart, WorkerAt, Working
<1>3. v \in Worker /\ v.pc = "call"
  BY <1>1, Moved
<1>4. job.done = 0 /\ job.listed = 0
  BY <1>1, <1>2 DEF RowOK, Reached, Reported
<1>5. CASE StartsSilently(j)
  <2>1. RowOK(job, v)
    <3>1. Unfinished(job, v)
      BY <1>1, <1>2 DEF RowOK, Unfinished, Unheard
    <3>2. Reached(job, v)
      BY <1>3, <1>4, WorkBounds DEF Reached
    <3>3. Reported(job, v)
      BY <1>1, <1>2, <1>4 DEF RowOK, Reported
    <3>4. QED
      BY <1>1, <1>3, <3>1, <3>2, <3>3 DEF RowOK
  <2>2. Advances(j, job, v)
    BY <1>2, <1>5, GoesBecomes, JobsStay DEF StartsSilently
  <2>3. QED
    BY <1>1, <1>3, <2>1, <2>2 DEF Good
<1> DEFINE new == Touched(Marked(j))
<1>6. /\ new \in Job /\ new.status = "running" /\ new.taken = job.taken
      /\ new.done = 0 /\ new.listed = 0
  <2>1. /\ Marked(j) \in Job /\ Marked(j).status = "running" /\ Marked(j).taken = job.taken
        /\ Marked(j).done = job.done /\ Marked(j).listed = job.listed
    BY <1>1 DEF Marked, Job, Statuses, InFlight
  <2>2. QED
    BY <1>4, <2>1, TouchedValues
<1>7. ASSUME kind # "prsync", Write(j, Marked(j))
      PROVE  jobs' = [jobs EXCEPT ![j] = new]
  BY <1>7 DEF Write, WritesInFlight
<1> HIDE DEF new
<1>8. CASE MarksRunning(j)
  <2>1. jobs' = [jobs EXCEPT ![j] = new]
    BY <1>7, <1>8 DEF MarksRunning
  <2>2. RowOK(new, v)
    <3>1. Unfinished(new, v)
      BY <1>6 DEF Unfinished, InFlight
    <3>2. Reached(new, v)
      BY <1>3, <1>6, WorkBounds DEF Reached
    <3>3. Reported(new, v)
      BY <1>6 DEF Reported
    <3>4. QED
      BY <1>3, <1>6, <3>1, <3>2, <3>3 DEF RowOK
  <2>3. Advances(j, new, v)
    BY <1>2, <1>6, <1>8, <2>1, GoesBecomes DEF MarksRunning
  <2>4. QED
    BY <1>3, <1>6, <2>2, <2>3 DEF Good
<1>9. CASE CannotMark(j)
  <2>1. CASE UNCHANGED jobs
    BY <1>2, <1>9, <2>1, GoodLeave DEF CannotMark
  <2>2. CASE ~UNCHANGED jobs
    <3>1. jobs' = [jobs EXCEPT ![j] = new]
      BY <1>7, <1>9, <2>2 DEF CannotMark, WriteUnheard
    <3>2. new.done <= Work /\ Reported(new, Gone(w))
      BY <1>6, WorkBounds DEF Reported
    <3>3. QED
      BY <1>1, <1>2, <1>6, <1>9, <3>1, <3>2, GoodEnd DEF CannotMark
  <2>3. QED
    BY <2>1, <2>2
<1>10. CASE ApplyIsInvalid(j)
  BY <1>2, <1>10, GoodFailing DEF ApplyIsInvalid
<1>11. CASE ApplyIsUnread(j)
  <2>1. worker' = [worker EXCEPT ![j] = Gone(w)]
    BY <1>11, Tables DEF ApplyIsUnread
  <2>2. Gone(w) \in Worker /\ Gone(w).pc = "gone" /\ Gone(w).since = w.since
    BY <1>1, GoneValues
  <2>3. Advances(j, job, Gone(w))
    BY <1>2, <1>11, <2>1, <2>2, JobsStay DEF Advances, Becomes, ApplyIsUnread
  <2>4. RowOK(job, Gone(w))
    BY <1>1, LeftRow
  <2>5. QED
    BY <1>1, <2>2, <2>3, <2>4 DEF Good
<1>12. QED
  BY <1>5, <1>8, <1>9, <1>10, <1>11 DEF WorkerStart

LEMMA CallAdvances ==
    ASSUME TypeOK, Rows, NEW j \in Ids, WorkerCall(j)
    PROVE  Good(j)
<1> DEFINE job == jobs[j]
           w == worker[j]
           v == [w EXCEPT !.pc = "save"]
           new == [job EXCEPT !.done = job.done + 1]
<1>1. /\ job \in Job /\ w \in Worker /\ RowOK(job, w)
      /\ job.done \in Nat /\ job.listed \in Nat
  BY RowFacts
<1>2. Working(j) /\ w.pc = "call" /\ ~WorkerAt(j, "fail")
  BY DEF WorkerCall, WorkerAt, Working
<1>3. v \in Worker /\ v.pc = "save"
  BY <1>1, Moved
<1>4. job.done < Work /\ job.listed <= job.done
  BY <1>1, <1>2 DEF RowOK, Reached, Reported
<1>5. ASSUME jobs' = [jobs EXCEPT ![j].done = @ + 1], WorkerGoes(j, "save")
      PROVE  Good(j)
  <2>1. jobs' = [jobs EXCEPT ![j] = new]
    BY <1>5, Tables
  <2>2. job.done + 1 \in 0..Targets
    BY <1>1, <1>4, WorkBounds, BackgroundJobAssumption
  <2>3. /\ new \in Job /\ new.status = job.status /\ new.taken = job.taken
        /\ new.done = job.done + 1 /\ new.listed = job.listed
    BY <1>1, <2>2 DEF Job
  <2> HIDE DEF new
  <2>4. RowOK(new, v)
    <3>1. Unfinished(new, v)
      BY <1>1, <1>2, <2>3 DEF RowOK, Unfinished, Unheard
    <3>2. Reached(new, v)
      BY <1>1, <1>3, <1>4, <2>3, WorkBounds DEF Reached
    <3>3. job.status # "completed"
      BY <1>1, <1>2 DEF RowOK, Unfinished, Unheard, InFlight
    <3>4. kind = "subscription" => job.done = job.listed
      BY <1>1, <1>2 DEF RowOK, Reported
    <3>5. Reported(new, v)
      BY <1>1, <1>3, <1>4, <2>3, <3>3, <3>4 DEF Reported
    <3>6. QED
      BY <1>3, <2>3, <3>1, <3>2, <3>5 DEF RowOK
  <2>5. Advances(j, new, v)
    BY <1>2, <1>5, <2>1, <2>3, GoesBecomes DEF WorkerCall
  <2>6. QED
    BY <1>3, <2>3, <2>4, <2>5 DEF Good
<1>6. ASSUME WorkerGoes(j, "fail"), UNCHANGED jobs
      PROVE  Good(j)
  BY <1>2, <1>6, GoodFailing DEF WorkerCall
<1>7. QED
  BY <1>5, <1>6 DEF WorkerCall

(* After a target is saved, or the save is logged, the worker goes on.       *)
LEMMA GoodOnward ==
    ASSUME TypeOK, Rows, NEW j \in Ids, WorkerAt(j, "save"),
           WorkerGoes(j, Onward(j)), UNCHANGED marked, NEW new \in Job,
           jobs' = [jobs EXCEPT ![j] = new], new.taken = jobs[j].taken,
           new.done = jobs[j].done,
           \/ new.status = jobs[j].status
           \/ new.status = "running",
           new.listed <= new.done,
           kind = "subscription" => new.listed = new.done
    PROVE  Good(j)
<1> DEFINE job == jobs[j]
           w == worker[j]
           v == [w EXCEPT !.pc = Onward(j)]
<1>1. /\ job \in Job /\ w \in Worker /\ RowOK(job, w)
      /\ job.done \in Nat /\ new.listed \in Nat
  BY RowFacts, JobValues
<1>2. Working(j) /\ w.pc = "save" /\ ~WorkerAt(j, "fail")
  BY DEF WorkerAt, Working
<1>3. Onward(j) \in {"start", "call", "save", "finish", "fail", "gone"}
  BY DEF Onward
<1>4. v \in Worker /\ v.pc = Onward(j)
  <2> HIDE DEF w
  <2>1. w \in Worker
    BY <1>1
  <2>2. QED
    BY <1>3, <2>1, Moved, Zenon
<1>5. job.done <= Work
  BY <1>1 DEF RowOK, Reached
<1>6. new.status \in InFlight \/ (new.status = "abandoned" /\ new.taken)
  BY <1>1, <1>2 DEF RowOK, Unfinished, Unheard, InFlight
<1>7. RowOK(new, v)
  <2>1. Unfinished(new, v)
    BY <1>6 DEF Unfinished
  <2>2. Reached(new, v)
    BY <1>1, <1>4, <1>5, WorkBounds DEF Reached, Onward
  <2>3. new.status # "completed"
    BY <1>6 DEF InFlight
  <2>4. Reported(new, v)
    BY <1>1, <2>3 DEF Reported
  <2>5. QED
    BY <1>4, <2>1, <2>2, <2>4 DEF RowOK
<1>8. Advances(j, new, v)
  BY <1>2, <1>3, GoesBecomes
<1>9. QED
  BY <1>4, <1>7, <1>8 DEF Good

LEMMA SaveAdvances ==
    ASSUME TypeOK, Rows, NEW j \in Ids, WorkerSave(j)
    PROVE  Good(j)
<1> DEFINE job == jobs[j]
           w == worker[j]
           new == Touched(Saved(j))
<1>1. /\ job \in Job /\ w \in Worker /\ RowOK(job, w)
      /\ job.done \in Nat /\ job.listed \in Nat
  BY RowFacts
<1>2. Working(j) /\ WorkerAt(j, "save") /\ ~WorkerAt(j, "fail")
  BY DEF WorkerSave, WorkerAt, Working
<1>3. /\ job.listed <= job.done /\ job.done <= Work
      /\ job.status \in InFlight \/ (job.status = "abandoned" /\ job.taken)
  BY <1>1, <1>2 DEF RowOK, Reached, Reported, Unfinished, Unheard, WorkerAt
<1>4. /\ Saved(j) \in Job /\ Saved(j).taken = job.taken /\ Saved(j).done = job.done
      /\ Saved(j).status = job.status \/ Saved(j).status = "running"
      /\ Saved(j).listed <= Saved(j).done
      /\ kind = "subscription" => Saved(j).listed = Saved(j).done
  <2>1. CASE kind = "subscription"
    <3>1. Saved(j) = [job EXCEPT !.listed = job.done]
      BY <2>1 DEF Saved
    <3>2. job.done \in 0..Targets
      BY <1>1 DEF Job
    <3>3. QED
      BY <1>1, <3>1, <3>2 DEF Job
  <2>2. CASE kind = "prsync"
    <3>1. Saved(j) = [job EXCEPT !.status = "running"]
      BY <2>2 DEF Saved
    <3>2. QED
      BY <1>1, <1>3, <2>2, <3>1 DEF Job, Statuses, InFlight
  <2>3. CASE kind # "subscription" /\ kind # "prsync"
    BY <1>1, <1>3, <2>3 DEF Saved
  <2>4. QED
    BY <2>1, <2>2, <2>3
<1>5. /\ new \in Job /\ new.taken = job.taken /\ new.done = job.done
      /\ new.status = job.status \/ new.status = "running"
      /\ new.listed <= new.done
      /\ kind = "subscription" => new.listed = new.done
  BY <1>4, TouchedValues
<1>6. jobs' = [jobs EXCEPT ![j] = new] \/ (UNCHANGED jobs /\ kind = "prsync")
      \/ (UNCHANGED jobs /\ CannotSave(j))
  BY DEF WorkerSave, Saves, CannotSave, WriteUnheard, Write, WritesInFlight
<1> HIDE DEF new
<1>7. ASSUME jobs' = [jobs EXCEPT ![j] = new]
      PROVE  Good(j)
  <2>1. new.status \in InFlight \/ (new.status = "abandoned" /\ new.taken)
    BY <1>3, <1>5 DEF InFlight
  <2>2. \A v \in Worker : v.pc \in {"fail", "gone"} => Reported(new, v)
    BY <1>1, <1>5, <2>1 DEF Reported, InFlight
  <2>3. CASE WorkerGoes(j, Onward(j)) /\ UNCHANGED marked
    BY <1>2, <1>5, <1>7, <2>3, GoodOnward
  <2>4. CASE WorkerGoes(j, "fail") /\ UNCHANGED marked
    BY <1>1, <1>2, <1>3, <1>5, <1>7, <2>1, <2>2, <2>4, GoodUnheard
  <2>5. CASE WorkerEnds(j)
    <3>1. Gone(w) \in Worker /\ Gone(w).pc = "gone"
      BY <1>1, GoneValues
    <3>2. Reported(new, Gone(w))
      BY <2>2, <3>1
    <3>3. QED
      BY <1>1, <1>2, <1>3, <1>5, <1>7, <2>5, <3>2, GoodEnd
  <2>6. QED
    BY <2>3, <2>4, <2>5 DEF WorkerSave, Saves, CannotSave
<1>8. ASSUME UNCHANGED jobs
      PROVE  Good(j)
  <2>1. CASE WorkerGoes(j, Onward(j)) /\ UNCHANGED marked /\ kind # "subscription"
    BY <1>1, <1>2, <1>3, <1>8, <2>1, JobsStay, GoodOnward
  <2>2. CASE WorkerGoes(j, "fail") /\ UNCHANGED marked
    BY <1>2, <1>8, <2>2, GoodFailing
  <2>3. CASE WorkerEnds(j)
    BY <1>2, <1>8, <2>3, GoodLeave
  <2>4. QED
    BY <1>6, <1>7, <1>8, <2>1, <2>2, <2>3
      DEF WorkerSave, Saves, CannotSave, ProgressOptional
<1>9. QED
  BY <1>6, <1>7, <1>8

LEMMA FinishAdvances ==
    ASSUME TypeOK, Rows, NEW j \in Ids, WorkerFinish(j)
    PROVE  Good(j)
<1> DEFINE job == jobs[j]
           w == worker[j]
           list == IF kind \in {"sweep", "apply"} THEN job.done ELSE job.listed
           new == Touched(Completed(j))
<1>1. /\ job \in Job /\ w \in Worker /\ RowOK(job, w)
      /\ job.done \in Nat /\ job.listed \in Nat
  BY RowFacts
<1>2. Working(j) /\ w.pc = "finish" /\ ~WorkerAt(j, "fail")
  BY DEF WorkerFinish, WorkerAt, Working
<1>3. job.done = Work /\ job.listed <= job.done
  BY <1>1, <1>2 DEF RowOK, Reached, Reported
<1>4. list \in 0..Targets /\ list \in Nat /\ list <= job.done
  BY <1>1, <1>3 DEF Job
<1>5. kind # "prsync" => list = job.done
  <2>1. kind = "subscription" => job.done = job.listed
    BY <1>1, <1>2 DEF RowOK, Reported
  <2>2. kind \in {"sweep", "prsync", "subscription", "apply"}
    BY BackgroundJobAssumption DEF TypeOK
  <2>3. QED
    BY <2>1, <2>2
<1>6. /\ Completed(j) \in Job /\ Completed(j).status = "completed"
      /\ Completed(j).taken = job.taken
      /\ Completed(j).done = job.done /\ Completed(j).listed = list
  <2>1. Completed(j) = [job EXCEPT !.status = "completed", !.listed = list]
    BY DEF Completed
  <2> HIDE DEF list
  <2>2. QED
    BY <1>1, <1>4, <2>1 DEF Job, Statuses
<1>7. /\ new \in Job /\ new.status = "completed" /\ new.taken = job.taken
      /\ new.done = job.done /\ new.listed = list
  BY <1>6, TouchedValues
<1>8. jobs' = [jobs EXCEPT ![j] = new] \/ UNCHANGED jobs
  BY DEF WorkerFinish, Completes, CannotComplete, WriteUnheard, Write
<1> HIDE DEF new, list
<1>9. CASE jobs' = [jobs EXCEPT ![j] = new]
  <2>1. \A v \in Worker : v.pc \in {"fail", "gone"} => Reported(new, v)
    BY <1>1, <1>3, <1>4, <1>5, <1>7 DEF Reported
  <2>2. new.done <= Work
    BY <1>1, <1>3, <1>7, WorkBounds
  <2>3. CASE WorkerEnds(j)
    <3>1. Gone(w) \in Worker /\ Gone(w).pc = "gone"
      BY <1>1, GoneValues
    <3>2. Reported(new, Gone(w))
      BY <2>1, <3>1
    <3>3. QED
      BY <1>1, <1>2, <1>7, <1>9, <2>2, <2>3, <3>2, GoodEnd
  <2>4. CASE WorkerGoes(j, "fail") /\ UNCHANGED marked /\ kind \notin ProgressOptional
    BY <1>1, <1>2, <1>7, <1>9, <2>1, <2>2, <2>4, GoodUnheard
  <2>5. QED
    BY <2>3, <2>4 DEF WorkerFinish, Completes, CannotComplete
<1>10. CASE UNCHANGED jobs
  <2>1. CASE WorkerEnds(j)
    BY <1>2, <1>10, <2>1, GoodLeave
  <2>2. CASE WorkerGoes(j, "fail") /\ UNCHANGED marked
    BY <1>2, <1>10, <2>2, GoodFailing
  <2>3. QED
    BY <2>1, <2>2 DEF WorkerFinish, Completes, CannotComplete
<1>11. QED
  BY <1>8, <1>9, <1>10

LEMMA FailAdvances ==
    ASSUME TypeOK, Rows, NEW j \in Ids, WorkerFail(j)
    PROVE  Good(j)
<1> DEFINE job == jobs[j]
           w == worker[j]
           failed == [job EXCEPT !.status = "failed"]
           new == Touched(failed)
<1>1. job \in Job /\ w \in Worker /\ RowOK(job, w)
  BY RowFacts
<1>2. Working(j) /\ WorkerEnds(j)
  BY DEF WorkerFail, WorkerAt, Working
<1>3. CASE UNCHANGED jobs
  BY <1>2, <1>3, GoodLeave
<1>4. CASE ~UNCHANGED jobs
  <2>1. jobs' = [jobs EXCEPT ![j] = new]
    BY <1>4 DEF WorkerFail, Write
  <2>2. /\ failed \in Job /\ failed.status = "failed" /\ failed.taken = job.taken
        /\ failed.done = job.done /\ failed.listed = job.listed
    BY <1>1 DEF Job, Statuses
  <2> HIDE DEF failed
  <2>3. /\ new \in Job /\ new.status = "failed" /\ new.taken = job.taken
        /\ new.done = job.done /\ new.listed = job.listed
    BY <2>2, TouchedValues
  <2> HIDE DEF new
  <2>4. job.done <= Work
    BY <1>1 DEF RowOK, Reached
  <2>5. Gone(w).pc = "gone"
    BY <1>1, GoneValues
  <2>6. Reported(new, Gone(w))
    BY <1>1, <2>3, <2>5 DEF RowOK, Reported
  <2>7. QED
    BY <1>1, <1>2, <2>1, <2>3, <2>4, <2>6, GoodEnd
<1>5. QED
  BY <1>3, <1>4

LEMMA WorkerAdvances ==
    ASSUME TypeOK, Rows, NEW j \in Ids, WorkerStep(j)
    PROVE  Good(j) /\ UNCHANGED <<kind, request>>
<1>1. Good(j)
  BY StartAdvances, CallAdvances, SaveAdvances, FinishAdvances, FailAdvances DEF WorkerStep
<1>2. UNCHANGED <<kind, request>>
  BY DEF WorkerStep, WorkerStart, WorkerCall, WorkerSave, WorkerFinish, WorkerFail
<1>3. QED
  BY <1>1, <1>2

-----------------------------------------------------------------------------
(* Steps that add no row                                                     *)

(* The tables keep their form.                                               *)
Tabled ==
    /\ jobs' \in Seq(Job) /\ worker' \in Seq(Worker)
    /\ Len(jobs') = Len(jobs) /\ Len(worker') = Len(jobs)

(* No worker comes back to life or to a row that was not pending any more,   *)
(* or changes place.                                                         *)
Fades ==
    \A i \in Ids :
        /\ worker'[i].since = worker[i].since
        /\ worker'[i].pc # "gone" => Working(i) /\ worker'[i].at = worker[i].at
        /\ Holds(i)' => Holds(i)

RowsKept == \A i \in Ids : RowOK(jobs'[i], worker'[i])

(* What such a step owes to the invariant.                                   *)
Quiet == UNCHANGED kind /\ Tabled /\ Fades /\ RowsKept

LEMMA FunctionIsSeq ==
    ASSUME NEW S, NEW n \in Nat, NEW f \in [1..n -> S]
    PROVE  f \in Seq(S) /\ Len(f) = n
OBVIOUS

LEMMA IdsStay ==
    ASSUME Tabled
    PROVE  Ids' = Ids
BY DEF Tabled, Ids

LEMMA HoldsFades ==
    ASSUME Fades, NEW i \in Ids, Holds(i)'
    PROVE  Holds(i)
BY DEF Fades

LEMMA RowsStay ==
    ASSUME Quiet
    PROVE  Rows'
<1>1. ASSUME NEW i \in Ids
      PROVE  RowOK(jobs[i], worker[i])'
  <2>1. RowOK(jobs'[i], worker'[i]) /\ kind' = kind
    BY DEF Quiet, RowsKept
  <2>2. QED
    BY <2>1 DEF RowOK, Unfinished, Unheard, Reached, Reported, Work
<1>2. QED
  BY <1>1, IdsStay DEF Rows, Quiet

LEMMA TogetherStays ==
    ASSUME Quiet, TypeOK, NEW i \in Ids, NEW j \in 0..Len(jobs), PassedTogether(i, j)
    PROVE  PassedTogether(i, j)'
<1>1. PICK k \in (i + 1)..j : worker[k].since < i
  BY DEF PassedTogether
<1>2. k \in Ids
  BY Tables DEF Ids
<1>3. worker'[k].since < i
  BY <1>1, <1>2 DEF Quiet, Fades
<1>4. QED
  BY <1>3 DEF PassedTogether

LEMMA LaterStays ==
    ASSUME Quiet, TypeOK, Later
    PROVE  Later'
<1> SUFFICES ASSUME NEW i \in Ids, NEW j \in Ids, i < j, Holds(i)'
             PROVE  \/ kind = "subscription"
                    \/ kind = "prsync" /\ PassedTogether(i, j)'
                    \/ kind = "apply" /\ worker'[j].since < i
  BY IdsStay DEF Later, Quiet
<1>1. Holds(i)
  BY HoldsFades DEF Quiet
<1>2. \/ kind = "subscription"
      \/ kind = "prsync" /\ PassedTogether(i, j)
      \/ kind = "apply" /\ worker[j].since < i
  BY <1>1 DEF Later
<1>3. worker'[j].since = worker[j].since
  BY DEF Quiet, Fades
<1>4. PassedTogether(i, j) => PassedTogether(i, j)'
  BY TogetherStays, Tables DEF Ids
<1>5. QED
  BY <1>2, <1>3, <1>4

LEMMA CheckedStays ==
    ASSUME Quiet, TypeOK, NEW r \in Requesters, Checked(r), request'[r] = request[r]
    PROVE  Checked(r)'
<1>1. Len(jobs') = Len(jobs) /\ Ids' = Ids /\ kind' = kind
  BY IdsStay DEF Quiet, Tabled
<1>2. request[r].since \in 0..Len(jobs)
  BY Tables DEF TypeOK, Request, Checked
<1>3. ASSUME NEW i \in Ids, At(r, "insert") \/ At(r, "abandon"),
             i <= request[r].since, Holds(i)'
      PROVE  \/ kind = "subscription"
             \/ kind = "prsync" /\ PassedTogether(i, request[r].since)'
             \/ At(r, "abandon") /\ i = request[r].job
  <2>1. Holds(i)
    BY <1>3, HoldsFades DEF Quiet
  <2>2. \/ kind = "subscription"
        \/ kind = "prsync" /\ PassedTogether(i, request[r].since)
        \/ At(r, "abandon") /\ i = request[r].job
    BY <1>3, <2>1 DEF Checked
  <2> DEFINE n == request[r].since
  <2>3. PassedTogether(i, n) => PassedTogether(i, n)'
    <3>1. request'[r].since = n
      OBVIOUS
    <3>2. SUFFICES ASSUME PassedTogether(i, n) PROVE PassedTogether(i, n)'
      OBVIOUS
    <3>3. PICK k \in (i + 1)..n : worker[k].since < i
      BY <3>2 DEF PassedTogether
    <3>4. k \in Ids
      BY <1>2, Tables DEF Ids
    <3>5. worker'[k].since < i
      BY <3>3, <3>4 DEF Quiet, Fades
    <3>6. QED
      BY <3>1, <3>5 DEF PassedTogether
  <2>4. QED
    BY <2>2, <2>3
<1>4. QED
  BY <1>1, <1>3 DEF Checked, At

(* A request that is neither inserting nor abandoning promises little.       *)
LEMMA CheckedElsewhere ==
    ASSUME NEW r \in Requesters, request'[r].pc \notin {"insert", "abandon"},
           request'[r].since <= Len(jobs')
    PROVE  Checked(r)'
BY DEF Checked, At

LEMMA SameRow ==
    ASSUME NEW job \in Job, NEW w \in Worker, RowOK(job, w), NEW new \in Job,
           new.status = job.status, new.taken = job.taken,
           new.done = job.done, new.listed = job.listed
    PROVE  RowOK(new, w)
BY DEF RowOK, Unfinished, Unheard, Reached, Reported

LEMMA GivenUpRow ==
    ASSUME NEW job \in Job, NEW w \in Worker, RowOK(job, w), NEW new \in Job,
           new.status = "abandoned", new.taken, new.done = job.done, new.listed = job.listed
    PROVE  RowOK(new, w)
BY DEF RowOK, Unfinished, Reached, Reported

-----------------------------------------------------------------------------
(* Which steps are quiet                                                     *)

LEMMA StillQuiet ==
    ASSUME TypeOK, Rows, UNCHANGED <<kind, jobs, worker>>
    PROVE  Quiet
<1>1. Tabled
  BY DEF TypeOK, Tabled
<1>2. Fades
  BY DEF Fades, Holds, Working
<1>3. RowsKept
  BY DEF RowsKept, Rows
<1>4. QED
  BY <1>1, <1>2, <1>3 DEF Quiet

(* Only the table of jobs changes, row by row.                               *)
LEMMA JobsQuiet ==
    ASSUME TypeOK, Rows, UNCHANGED <<kind, worker>>, NEW f \in [Ids -> Job], jobs' = f,
           \A i \in Ids : (Pending(f[i]) => Pending(jobs[i])) /\ RowOK(f[i], worker[i])
    PROVE  Quiet
<1>1. jobs' \in Seq(Job) /\ Len(jobs') = Len(jobs)
  BY Tables, FunctionIsSeq DEF Ids
<1>2. Tabled
  BY <1>1 DEF Tabled, TypeOK
<1>3. Fades
  BY DEF Fades, Holds, Working
<1>4. RowsKept
  BY DEF RowsKept
<1>5. QED
  BY <1>2, <1>3, <1>4 DEF Quiet

LEMMA SettledQuiet ==
    ASSUME TypeOK, Rows, UNCHANGED <<kind, worker>>, jobs' = Settled
    PROVE  Quiet
<1>1. ASSUME NEW i \in Ids
      PROVE  /\ Settled[i] \in Job
             /\ Pending(Settled[i]) => Pending(jobs[i])
             /\ RowOK(Settled[i], worker[i])
  <2>1. jobs[i] \in Job /\ worker[i] \in Worker /\ RowOK(jobs[i], worker[i])
    BY RowFacts
  <2>2. CASE Active(i) /\ jobs[i].old
    <3> DEFINE new == [jobs[i] EXCEPT !.status = "abandoned", !.taken = TRUE]
    <3>1. Settled[i] = new
      BY <2>2 DEF Settled
    <3>2. /\ new \in Job /\ new.status = "abandoned" /\ new.taken
          /\ new.done = jobs[i].done /\ new.listed = jobs[i].listed
      BY <2>1 DEF Job, Statuses
    <3> HIDE DEF new
    <3>3. QED
      BY <2>1, <3>1, <3>2, GivenUpRow DEF Pending
  <2>3. CASE ~(Active(i) /\ jobs[i].old)
    <3>1. Settled[i] = jobs[i]
      BY <2>3 DEF Settled
    <3>2. QED
      BY <2>1, <3>1
  <2>4. QED
    BY <2>2, <2>3
<1>2. Settled \in [Ids -> Job]
  <2>1. Settled = [i \in Ids |-> Settled[i]]
    BY DEF Settled
  <2>2. QED
    BY <1>1, <2>1
<1>3. QED
  BY <1>1, <1>2, JobsQuiet

LEMMA RowQuiet ==
    ASSUME TypeOK, Rows, UNCHANGED <<kind, worker>>, NEW j \in Ids, NEW new \in Job,
           jobs' = [jobs EXCEPT ![j] = new], Pending(new) => Pending(jobs[j]),
           RowOK(new, worker[j])
    PROVE  Quiet
<1> DEFINE f == [jobs EXCEPT ![j] = new]
<1>1. f \in [Ids -> Job] /\ f[j] = new /\ \A i \in Ids : i # j => f[i] = jobs[i]
  BY Tables
<1>2. \A i \in Ids : (Pending(f[i]) => Pending(jobs[i])) /\ RowOK(f[i], worker[i])
  BY <1>1 DEF Rows
<1> HIDE DEF f
<1>3. jobs' = f
  BY DEF f
<1>4. QED
  BY <1>1, <1>2, <1>3, JobsQuiet

LEMMA AgeQuiet ==
    ASSUME TypeOK, Rows, NEW j \in Ids, Age(j)
    PROVE  Quiet
<1> DEFINE new == [jobs[j] EXCEPT !.old = TRUE]
<1>1. jobs[j] \in Job /\ worker[j] \in Worker /\ RowOK(jobs[j], worker[j])
  BY RowFacts
<1>2. jobs' = [jobs EXCEPT ![j] = new]
  BY Tables DEF Age
<1>3. /\ new \in Job /\ new.status = jobs[j].status /\ new.taken = jobs[j].taken
      /\ new.done = jobs[j].done /\ new.listed = jobs[j].listed
  BY <1>1 DEF Job
<1> HIDE DEF new
<1>4. RowOK(new, worker[j])
  BY <1>1, <1>3, SameRow
<1>5. QED
  BY <1>2, <1>3, <1>4, RowQuiet DEF Age, Pending

LEMMA AbandonQuiet ==
    ASSUME TypeOK, Rows, NEW r \in Requesters, AbandonStale(r)
    PROVE  /\ Quiet
           /\ request[r].job \in Ids /\ jobs'[request[r].job].taken
<1> DEFINE j == request[r].job
           new == [jobs[j] EXCEPT !.status = "abandoned", !.taken = TRUE]
<1>1. j \in Ids
  BY DEF TypeOK, AbandonStale
<1>2. jobs[j] \in Job /\ worker[j] \in Worker /\ RowOK(jobs[j], worker[j])
  BY <1>1, RowFacts
<1>3. jobs' = [jobs EXCEPT ![j] = new]
  BY <1>1, Tables DEF AbandonStale
<1>4. /\ new \in Job /\ new.status = "abandoned" /\ new.taken
      /\ new.done = jobs[j].done /\ new.listed = jobs[j].listed
  BY <1>2 DEF Job, Statuses
<1> HIDE DEF new
<1>5. RowOK(new, worker[j])
  BY <1>2, <1>4, GivenUpRow
<1>6. Quiet
  BY <1>1, <1>3, <1>4, <1>5, RowQuiet DEF AbandonStale, Pending
<1>7. jobs'[j] = new
  BY <1>1, <1>3, Tables
<1>8. QED
  BY <1>1, <1>4, <1>6, <1>7

LEMMA CrashQuiet ==
    ASSUME TypeOK, Rows, NEW p \in Replicas, Crash(p)
    PROVE  Quiet
<1> DEFINE after(i) == IF worker[i].at = p THEN Gone(worker[i]) ELSE worker[i]
           f == [i \in Ids |-> after(i)]
<1>1. worker' = f
  BY DEF Crash
<1>2. ASSUME NEW i \in Ids
      PROVE  /\ after(i) \in Worker /\ after(i).since = worker[i].since
             /\ after(i).pc # "gone" => Working(i) /\ after(i).at = worker[i].at
             /\ RowOK(jobs[i], after(i))
  <2>1. jobs[i] \in Job /\ worker[i] \in Worker /\ RowOK(jobs[i], worker[i])
    BY RowFacts
  <2>2. CASE worker[i].at = p
    <3>1. after(i) = Gone(worker[i])
      BY <2>2
    <3>2. QED
      BY <2>1, <3>1, LeftRow, GoneValues
  <2>3. CASE worker[i].at # p
    BY <2>1, <2>3 DEF Working
  <2>4. QED
    BY <2>2, <2>3
<1>3. \A i \in Ids : f[i] = after(i)
  OBVIOUS
<1>4. f \in [1..Len(jobs) -> Worker]
  BY <1>2 DEF Ids
<1>5. worker' \in Seq(Worker) /\ Len(worker') = Len(jobs)
  <2>1. Len(jobs) \in Nat
    BY Tables
  <2> HIDE DEF f
  <2>2. QED
    BY <1>1, <1>4, <2>1, FunctionIsSeq
<1> HIDE DEF f, after
<1>6. jobs' = jobs /\ kind' = kind
  BY DEF Crash
<1>7. Tabled
  BY <1>5, <1>6 DEF Tabled, TypeOK
<1>8. Fades
  BY <1>1, <1>2, <1>3, <1>6 DEF Fades, Holds, Working
<1>9. RowsKept
  BY <1>1, <1>2, <1>3, <1>6 DEF RowsKept
<1>10. QED
  BY <1>6, <1>7, <1>8, <1>9 DEF Quiet

LEMMA WorkerQuiet ==
    ASSUME TypeOK, Rows, NEW j \in Ids, NEW job \in Job, NEW w \in Worker,
           Advances(j, job, w), RowOK(job, w), UNCHANGED kind
    PROVE  Quiet
<1>1. /\ jobs' = [jobs EXCEPT ![j] = job] /\ worker' = [worker EXCEPT ![j] = w]
      /\ Working(j) /\ job.taken = jobs[j].taken /\ w.since = worker[j].since
      /\ w.pc # "gone" => w.at = worker[j].at
  BY DEF Advances, Becomes
<1>2. /\ jobs' \in [1..Len(jobs) -> Job] /\ worker' \in [1..Len(jobs) -> Worker]
      /\ jobs'[j] = job /\ worker'[j] = w
      /\ \A i \in Ids : i # j => jobs'[i] = jobs[i] /\ worker'[i] = worker[i]
  BY <1>1, Tables DEF Ids
<1>3. Tabled
  BY <1>2, Tables, FunctionIsSeq DEF Tabled
<1>4. Fades
  <2>1. w.pc # "gone" => jobs[j].status # "completed"
    BY <1>1, RowFacts DEF Advances, RowOK, Unfinished, Unheard, InFlight, Working
  <2>2. Holds(j)' => Holds(j)
    BY <1>1, <1>2, <2>1 DEF Holds, Working, Pending
  <2>3. QED
    BY <1>1, <1>2, <2>2 DEF Fades, Holds, Working
<1>5. RowsKept
  BY <1>2 DEF RowsKept, Rows
<1>6. QED
  BY <1>3, <1>4, <1>5 DEF Quiet

-----------------------------------------------------------------------------
(* The mark of a process                                                     *)

(* A mark is taken away only where nothing of its process is left.           *)
LEMMA MarksStay ==
    ASSUME Quiet, TypeOK, Marks,
           \A r \in Requesters : request'[r].pc # "idle" => request[r].pc # "idle",
           \A p \in Replicas :
              marked[p] =>
                  \/ marked'[p]
                  \/ kind = "apply" =>
                        /\ \A r \in Requesters : request'[r].pc # "idle" => Host[r] # p
                        /\ \A i \in Ids : worker'[i].pc # "gone" => worker[i].at # p
    PROVE  Marks'
<1> SUFFICES ASSUME kind = "apply"
             PROVE  Marks'
  BY DEF Marks, Quiet
<1>1. Ids' = Ids
  BY IdsStay DEF Quiet
<1>2. \A i \in Ids : worker'[i].pc # "gone" => Working(i) /\ worker'[i].at = worker[i].at
  BY DEF Quiet, Fades
<1>3. ASSUME NEW r \in Requesters, request'[r].pc # "idle"
      PROVE  /\ marked'[Host[r]]
             /\ \A q \in Requesters \ {r} : request'[q].pc # "idle" => Host[q] # Host[r]
             /\ \A j \in Ids : worker'[j].pc # "gone" => worker'[j].at # Host[r]
  <2>1. request[r].pc # "idle" /\ Host[r] \in Replicas
    BY <1>3, BackgroundJobAssumption
  <2>2. /\ marked[Host[r]]
        /\ \A q \in Requesters \ {r} : request[q].pc # "idle" => Host[q] # Host[r]
        /\ \A j \in Ids : Working(j) => worker[j].at # Host[r]
    BY <2>1 DEF Marks
  <2>3. marked'[Host[r]]
    BY <1>3, <2>1, <2>2
  <2>4. QED
    BY <1>2, <2>2, <2>3
<1>4. ASSUME NEW j \in Ids, worker'[j].pc # "gone"
      PROVE  /\ marked'[worker'[j].at]
             /\ \A i \in Ids \ {j} : worker'[i].pc # "gone" => worker'[i].at # worker'[j].at
  <2>1. Working(j) /\ worker'[j].at = worker[j].at /\ worker[j].at \in Replicas
    BY <1>2, <1>4, Tables DEF Worker
  <2>2. /\ marked[worker[j].at]
        /\ \A i \in Ids \ {j} : Working(i) => worker[i].at # worker[j].at
    BY <2>1 DEF Marks
  <2>3. marked'[worker[j].at]
    BY <1>4, <2>1, <2>2
  <2>4. QED
    BY <1>2, <2>1, <2>2, <2>3
<1>5. QED
  BY <1>1, <1>3, <1>4 DEF Marks, Working

(* The request that gives back the mark leaves nobody in its process.        *)
LEMMA MarksReturn ==
    ASSUME Quiet, TypeOK, Marks, NEW r \in Requesters, request[r].pc # "idle", Return(r),
           marked' = [marked EXCEPT ![Host[r]] = FALSE]
    PROVE  Marks'
<1>1. /\ request'[r].pc = "idle"
      /\ \A q \in Requesters \ {r} : request'[q] = request[q]
  BY DEF Return, Idle, TypeOK
<1>2. \A p \in Replicas : p # Host[r] => marked'[p] = marked[p]
  BY DEF TypeOK
<1>3. kind = "apply" =>
        /\ \A q \in Requesters \ {r} : request[q].pc # "idle" => Host[q] # Host[r]
        /\ \A j \in Ids : Working(j) => worker[j].at # Host[r]
  BY DEF Marks
<1>4. \A i \in Ids : worker'[i].pc # "gone" => Working(i)
  BY DEF Quiet, Fades
<1>5. ASSUME NEW p \in Replicas, marked[p]
      PROVE  \/ marked'[p]
             \/ kind = "apply" =>
                   /\ \A q \in Requesters : request'[q].pc # "idle" => Host[q] # p
                   /\ \A i \in Ids : worker'[i].pc # "gone" => worker[i].at # p
  BY <1>1, <1>2, <1>3, <1>4, <1>5
<1>6. \A q \in Requesters : request'[q].pc # "idle" => request[q].pc # "idle"
  BY <1>1
<1>7. QED
  BY <1>5, <1>6, MarksStay

(* A request of which only the step changes is not new in its process.       *)
LEMMA MarksSame ==
    ASSUME Quiet, TypeOK, Marks, UNCHANGED marked,
           \A r \in Requesters : request'[r].pc # "idle" => request[r].pc # "idle"
    PROVE  Marks'
BY MarksStay

-----------------------------------------------------------------------------
(* The invariant is preserved                                                *)

LEMMA QuietKeeps ==
    ASSUME IInv, Quiet, request' \in [Requesters -> Request],
           marked' \in [Replicas -> BOOLEAN], Requested', Marks'
    PROVE  IInv'
<1>1. TypeOK'
  <2>1. kind' \in Kinds
    BY DEF IInv, TypeOK, Quiet
  <2>2. jobs' \in Seq(Job) /\ Len(jobs') <= MaxJobs
    BY DEF IInv, TypeOK, Quiet, Tabled
  <2>3. worker' \in Seq(Worker) /\ Len(worker') = Len(jobs')
    BY DEF Quiet, Tabled
  <2>4. \A r \in Requesters : At(r, "abandon")' => request'[r].job \in Ids'
    BY DEF Requested, Checked
  <2>5. QED
    BY <2>1, <2>2, <2>3, <2>4 DEF TypeOK
<1>2. Rows'
  BY RowsStay
<1>3. Later'
  BY LaterStays DEF IInv
<1>4. QED
  BY <1>1, <1>2, <1>3 DEF IInv

(* Steps of which the requests see nothing.                                  *)
LEMMA BesideRequests ==
    ASSUME IInv, Quiet, UNCHANGED request
    PROVE  request' \in [Requesters -> Request] /\ Requested'
<1>1. TypeOK /\ Requested
  BY DEF IInv
<1>2. ASSUME NEW r \in Requesters
      PROVE  Checked(r)'
  BY <1>1, CheckedStays DEF Requested
<1>3. QED
  BY <1>1, <1>2 DEF TypeOK, Requested

LEMMA WorkerKeeps ==
    ASSUME IInv, NEW j \in Ids, WorkerStep(j)
    PROVE  IInv'
<1>1. TypeOK /\ Rows /\ Marks
  BY DEF IInv
<1>2. Good(j) /\ UNCHANGED <<kind, request>>
  BY <1>1, WorkerAdvances
<1>3. PICK job \in Job, w \in Worker : Advances(j, job, w) /\ RowOK(job, w)
  BY <1>2 DEF Good
<1>4. Quiet
  BY <1>1, <1>2, <1>3, WorkerQuiet
<1>5. request' \in [Requesters -> Request] /\ Requested'
  BY <1>2, <1>4, BesideRequests
<1>6. /\ worker'[j] = w /\ Working(j)
      /\ \/ marked' = marked
         \/ w.pc = "gone" /\ marked' = [marked EXCEPT ![worker[j].at] = FALSE]
  BY <1>1, <1>3, Tables DEF Advances, Becomes
<1>7. marked' \in [Replicas -> BOOLEAN]
  BY <1>1, <1>6 DEF TypeOK
<1>8. Marks'
  <2>1. CASE marked' = marked
    BY <1>1, <1>2, <1>4, <2>1, MarksSame
  <2>2. CASE w.pc = "gone" /\ marked' = [marked EXCEPT ![worker[j].at] = FALSE]
    <3>1. ASSUME NEW p \in Replicas, marked[p], ~marked'[p], kind = "apply"
          PROVE  /\ \A r \in Requesters : request'[r].pc # "idle" => Host[r] # p
                 /\ \A i \in Ids : worker'[i].pc # "gone" => worker[i].at # p
      <4>1. p = worker[j].at
        BY <1>1, <2>2, <3>1 DEF TypeOK
      <4>2. \A r \in Requesters : request[r].pc # "idle" => worker[j].at # Host[r]
        BY <1>1, <1>6, <3>1 DEF Marks
      <4>3. \A i \in Ids \ {j} : Working(i) => worker[i].at # worker[j].at
        BY <1>1, <1>6, <3>1 DEF Marks
      <4>4. \A i \in Ids : worker'[i].pc # "gone" => Working(i) /\ i # j
        BY <1>4, <1>6, <2>2 DEF Quiet, Fades
      <4>5. QED
        BY <1>2, <4>1, <4>2, <4>3, <4>4
    <3>2. QED
      BY <1>1, <1>2, <1>4, <3>1, MarksStay
  <2>3. QED
    BY <1>6, <2>1, <2>2
<1>9. QED
  BY <1>4, <1>5, <1>7, <1>8, QuietKeeps

LEMMA TimeKeeps ==
    ASSUME IInv, SettleOnRead \/ \E j \in Ids : Age(j)
    PROVE  IInv'
<1>1. TypeOK /\ Rows /\ Marks
  BY DEF IInv
<1>2. Quiet
  BY <1>1, SettledQuiet, AgeQuiet DEF SettleOnRead
<1>3. UNCHANGED <<request, marked>>
  BY DEF SettleOnRead, Age
<1>4. request' \in [Requesters -> Request] /\ Requested'
  BY <1>2, <1>3, BesideRequests
<1>5. Marks'
  BY <1>1, <1>2, <1>3, MarksSame
<1>6. QED
  BY <1>1, <1>2, <1>3, <1>4, <1>5, QuietKeeps DEF TypeOK

LEMMA CrashKeeps ==
    ASSUME IInv, NEW p \in Replicas, Crash(p)
    PROVE  IInv'
<1>1. TypeOK /\ Rows /\ Marks /\ Requested
  BY DEF IInv
<1>2. Quiet
  BY <1>1, CrashQuiet
<1>3. /\ request' = [r \in Requesters |-> IF Host[r] = p THEN Idle ELSE request[r]]
      /\ marked' = [marked EXCEPT ![p] = FALSE]
  BY DEF Crash
<1>4. Idle \in Request /\ Idle.pc = "idle" /\ Idle.since = 0
  BY BackgroundJobAssumption DEF Idle, Request
<1>5. request' \in [Requesters -> Request] /\ marked' \in [Replicas -> BOOLEAN]
  BY <1>1, <1>3, <1>4 DEF TypeOK
<1>6. Requested'
  <2>1. ASSUME NEW r \in Requesters
        PROVE  Checked(r)'
    <3>1. CASE Host[r] = p
      <4>1. request'[r] = Idle
        BY <1>3, <3>1
      <4>2. request'[r].since <= Len(jobs')
        BY <1>1, <1>2, <1>4, <4>1, Tables DEF Quiet, Tabled
      <4>3. QED
        BY <1>4, <4>1, <4>2, CheckedElsewhere
    <3>2. CASE Host[r] # p
      BY <1>1, <1>2, <1>3, <3>2, CheckedStays DEF Requested
    <3>3. QED
      BY <3>1, <3>2
  <2>2. QED
    BY <2>1 DEF Requested
<1>7. Marks'
  <2>1. \A r \in Requesters : request'[r].pc # "idle" => request[r].pc # "idle" /\ Host[r] # p
    BY <1>3, <1>4
  <2>2. \A i \in Ids : worker'[i].pc # "gone" => worker[i].at # p
    <3>1. SUFFICES ASSUME NEW i \in Ids, worker[i].at = p
                   PROVE  worker'[i].pc = "gone"
      OBVIOUS
    <3>2. worker'[i] = Gone(worker[i]) /\ worker[i] \in Worker
      BY <1>1, <3>1, Tables DEF Crash
    <3>3. QED
      BY <3>2, GoneValues
  <2>3. \A q \in Replicas : q # p => marked'[q] = marked[q]
    BY <1>1, <1>3 DEF TypeOK
  <2>4. QED
    BY <1>1, <1>2, <2>1, <2>2, <2>3, MarksStay
<1>8. QED
  BY <1>2, <1>5, <1>6, <1>7, QuietKeeps

(* A set of rows that is not empty has a newest one.                         *)
Above == {ss \in Nat \X Nat : ss[1] < ss[2]}

LEMMA LatestIsLatest ==
    ASSUME NEW n \in Nat, NEW S \in SUBSET (1..n), S # {}
    PROVE  Latest(S) \in S /\ \A y \in S : y <= Latest(S)
<1> DEFINE D == {n - x : x \in S}
<1>1. D \in SUBSET Nat /\ D # {}
  <2>1. \A x \in S : n - x \in Nat
    OBVIOUS
  <2>2. QED
    BY <2>1
<1>2. IsWellFoundedOn(Above, Nat)
  BY NatLessThanWellFounded, Zenon DEF OpToRel, Above
<1>3. PICK d \in D : \A y \in D : ~ (<<y, d>> \in Above)
  BY <1>1, <1>2, WFMin, Zenon
<1>4. \A y \in D : y \in Nat /\ d \in Nat /\ ~ (y < d)
  BY <1>1, <1>3 DEF Above
<1>5. PICK x \in S : d = n - x
  OBVIOUS
<1>6. \A y \in S : n - y \in D
  OBVIOUS
<1> HIDE DEF D
<1>7. \A y \in S : ~ (n - y < n - x)
  BY <1>4, <1>5, <1>6
<1>8. \A y \in S : y <= x
  BY <1>7
<1>9. QED
  BY <1>8, Zenon DEF Latest

(* A row that is held is in flight.                                          *)
LEMMA HeldIsActive ==
    ASSUME TypeOK, Rows, NEW i \in Ids, Holds(i)
    PROVE  Active(i)
BY RowFacts DEF Holds, Pending, Working, RowOK, Unfinished, Unheard, Active

(* The request takes a new record and the others stay.                       *)
LEMMA OneRequest ==
    ASSUME IInv, Quiet, NEW r \in Requesters, NEW rec \in Request,
           request' = [request EXCEPT ![r] = rec], Checked(r)'
    PROVE  request' \in [Requesters -> Request] /\ Requested'
<1>1. TypeOK /\ Requested
  BY DEF IInv
<1>2. ASSUME NEW q \in Requesters, q # r
      PROVE  Checked(q)'
  <2>1. request'[q] = request[q]
    BY <1>1, <1>2 DEF TypeOK
  <2>2. QED
    BY <1>1, <1>2, <2>1, CheckedStays DEF Requested
<1>3. QED
  BY <1>1, <1>2 DEF TypeOK, Requested

(* It goes on, to a step that promises nothing.                              *)
LEMMA GoesOn ==
    ASSUME IInv, Quiet, NEW r \in Requesters, NEW pc \in {"idle", "settle", "check"}, Go(r, pc)
    PROVE  /\ request' \in [Requesters -> Request] /\ Requested'
           /\ request'[r].pc = pc
           /\ \A q \in Requesters : q # r => request'[q] = request[q]
<1> DEFINE rec == [request[r] EXCEPT !.pc = pc]
<1>1. TypeOK /\ Checked(r)
  BY DEF IInv, Requested
<1>2. rec \in Request /\ rec.pc = pc /\ rec.since = request[r].since
  BY <1>1 DEF TypeOK, Request
<1>3. request' = [request EXCEPT ![r] = rec]
  BY <1>1 DEF TypeOK, Go
<1>4. request'[r] = rec /\ \A q \in Requesters : q # r => request'[q] = request[q]
  BY <1>1, <1>3 DEF TypeOK
<1> HIDE DEF rec
<1>5. request'[r].since <= Len(jobs')
  BY <1>1, <1>2, <1>4 DEF Checked, Quiet, Tabled
<1>6. Checked(r)'
  BY <1>2, <1>4, <1>5, CheckedElsewhere
<1>7. QED
  BY <1>2, <1>3, <1>4, <1>6, OneRequest

LEMMA Returns ==
    ASSUME IInv, Quiet, NEW r \in Requesters, Return(r)
    PROVE  request' \in [Requesters -> Request] /\ Requested'
<1>1. TypeOK
  BY DEF IInv
<1>2. Idle \in Request /\ Idle.pc = "idle" /\ Idle.since = 0
  BY BackgroundJobAssumption DEF Idle, Request
<1>3. request' = [request EXCEPT ![r] = Idle] /\ request'[r] = Idle
  BY <1>1 DEF TypeOK, Return
<1>4. Checked(r)'
  <2>1. request'[r].since <= Len(jobs')
    BY <1>1, <1>2, <1>3, Tables DEF Quiet, Tabled
  <2>2. QED
    BY <1>2, <1>3, <2>1, CheckedElsewhere
<1>5. QED
  BY <1>2, <1>3, <1>4, OneRequest

-----------------------------------------------------------------------------
(* The steps of a request that add no row                                    *)

LEMMA BeginKeeps ==
    ASSUME IInv, NEW r \in Requesters, Begin(r)
    PROVE  IInv'
<1>1. TypeOK /\ Rows /\ Marks /\ Checked(r) /\ request[r].pc = "idle"
  BY DEF IInv, Requested, Begin, At
<1>2. Quiet
  BY <1>1, StillQuiet DEF Begin
<1>3. marked' \in [Replicas -> BOOLEAN]
  <2>1. (marked[Host[r]] \/ kind = "apply") \in BOOLEAN
    OBVIOUS
  <2>2. marked' = [marked EXCEPT ![Host[r]] = (marked[Host[r]] \/ kind = "apply")]
    BY DEF Begin
  <2>3. QED
    BY <1>1, <2>1, <2>2, MarkedType, Zenon
<1> DEFINE rec == [request[r] EXCEPT !.pc = FirstStep]
<1>4. /\ FirstStep \in {"settle", "check", "insert"}
      /\ FirstStep = "insert" => kind = "subscription"
  BY DEF FirstStep
<1>5. rec \in Request /\ rec.pc = FirstStep /\ rec.since = request[r].since
  BY <1>1, <1>4 DEF TypeOK, Request
<1>6. request' = [request EXCEPT ![r] = rec]
  BY <1>1 DEF TypeOK, Begin, Go
<1> HIDE DEF rec
<1>7. request'[r] = rec /\ \A q \in Requesters : q # r => request'[q] = request[q]
  BY <1>1, <1>6 DEF TypeOK
<1>8. Checked(r)'
  <2>1. request'[r].since <= Len(jobs')
    BY <1>1, <1>5, <1>7 DEF Checked, Begin
  <2>2. request'[r].pc # "abandon"
    BY <1>4, <1>5, <1>7
  <2>3. request'[r].pc = "insert" => kind' = "subscription"
    BY <1>4, <1>5, <1>7 DEF Begin
  <2>4. QED
    BY <2>1, <2>2, <2>3 DEF Checked, At
<1>9. request' \in [Requesters -> Request] /\ Requested'
  BY <1>2, <1>5, <1>6, <1>8, OneRequest
<1>10. Marks'
  <2> SUFFICES ASSUME kind = "apply"
               PROVE  Marks'
    BY DEF Marks, Begin
  <2>1. ~marked[Host[r]] /\ Host[r] \in Replicas /\ jobs' = jobs /\ worker' = worker
    BY BackgroundJobAssumption DEF Begin
  <2>2. \A q \in Requesters \ {r} : request[q].pc # "idle" => Host[q] # Host[r]
    BY <1>1, <2>1 DEF Marks
  <2>3. \A j \in Ids : Working(j) => worker[j].at # Host[r]
    BY <1>1, <2>1 DEF Marks
  <2>4. marked' = [marked EXCEPT ![Host[r]] = TRUE]
    BY DEF Begin
  <2>5. marked'[Host[r]] /\ \A p \in Replicas : marked[p] => marked'[p]
    BY <1>1, <2>1, <2>4 DEF TypeOK
  <2>6. ASSUME NEW q \in Requesters, request'[q].pc # "idle"
        PROVE  /\ marked'[Host[q]]
               /\ \A s \in Requesters \ {q} : request'[s].pc # "idle" => Host[s] # Host[q]
               /\ \A j \in Ids : Working(j) => worker[j].at # Host[q]
    <3>1. CASE q = r
      BY <1>7, <2>2, <2>3, <2>5, <3>1
    <3>2. CASE q # r
      <4>1. request[q].pc # "idle" /\ Host[q] \in Replicas
        BY <1>7, <2>6, <3>2, BackgroundJobAssumption
      <4>2. /\ marked[Host[q]]
            /\ \A s \in Requesters \ {q} : request[s].pc # "idle" => Host[s] # Host[q]
            /\ \A j \in Ids : Working(j) => worker[j].at # Host[q]
        BY <1>1, <4>1 DEF Marks
      <4>3. Host[q] # Host[r]
        BY <2>2, <3>2, <4>1
      <4>4. QED
        BY <1>7, <2>5, <4>1, <4>2, <4>3
    <3>3. QED
      BY <3>1, <3>2
  <2>7. ASSUME NEW j \in Ids, Working(j)
        PROVE  /\ marked'[worker[j].at]
               /\ \A i \in Ids \ {j} : Working(i) => worker[i].at # worker[j].at
    <3>1. worker[j].at \in Replicas
      BY <1>1, Tables DEF Worker
    <3>2. QED
      BY <1>1, <2>5, <2>7, <3>1 DEF Marks
  <2>8. QED
    BY <2>1, <2>6, <2>7 DEF Marks, Working, Ids
<1>11. QED
  BY <1>2, <1>3, <1>9, <1>10, QuietKeeps

LEMMA SettleKeeps ==
    ASSUME IInv, NEW r \in Requesters, SettleFirst(r)
    PROVE  IInv'
<1>1. TypeOK /\ Rows /\ Marks
  BY DEF IInv
<1>2. Quiet
  BY <1>1, SettledQuiet DEF SettleFirst
<1>3. /\ request' \in [Requesters -> Request] /\ Requested'
      /\ \A q \in Requesters : q # r => request'[q] = request[q]
  BY <1>2, GoesOn DEF SettleFirst
<1>4. Marks'
  BY <1>1, <1>2, <1>3, MarksSame DEF SettleFirst, At
<1>5. QED
  BY <1>1, <1>2, <1>3, <1>4, QuietKeeps DEF TypeOK, SettleFirst

LEMMA RefuseKeeps ==
    ASSUME IInv, NEW r \in Requesters,
           UNCHANGED <<kind, jobs, worker>>, request[r].pc # "idle", Return(r),
           marked' = [marked EXCEPT ![Host[r]] = FALSE]
    PROVE  IInv'
<1>1. TypeOK /\ Rows /\ Marks
  BY DEF IInv
<1>2. Quiet
  BY <1>1, StillQuiet
<1>3. request' \in [Requesters -> Request] /\ Requested'
  BY <1>2, Returns
<1>4. Marks'
  BY <1>1, <1>2, MarksReturn
<1>5. marked' \in [Replicas -> BOOLEAN]
  BY <1>1 DEF TypeOK
<1>6. QED
  BY <1>2, <1>3, <1>4, <1>5, QuietKeeps

LEMMA CheckKeeps ==
    ASSUME IInv, NEW r \in Requesters, Check(r)
    PROVE  IInv'
<1> DEFINE n == Len(jobs)
<1>1. /\ TypeOK /\ Rows /\ Marks /\ Later
      /\ request[r] \in Request /\ request[r].pc = "check" /\ Host[r] \in Replicas
  BY BackgroundJobAssumption DEF IInv, TypeOK, Check, At
<1>2. Quiet
  BY <1>1, StillQuiet DEF Check
<1>3. n \in 0..MaxJobs /\ n \in Nat
  BY <1>1, Tables DEF TypeOK
<1>4. ASSUME NEW i \in Ids, Holds(i)
      PROVE  Active(i) /\ (i < n => i \notin InTheWay \/ kind # "sweep")
  BY <1>1, <1>3, <1>4, HeldIsActive DEF InTheWay
<1>5. jobs' = jobs /\ worker' = worker /\ kind' = kind /\ Ids' = Ids
  BY DEF Check, Ids
<1>6. CASE CheckPasses(r)
  <2> DEFINE rec == [request[r] EXCEPT !.pc = "insert", !.since = n]
  <2>1. rec \in Request /\ rec.pc = "insert" /\ rec.since = n
    BY <1>1, <1>3 DEF Request
  <2>2. request' = [request EXCEPT ![r] = rec]
    BY <1>1, <1>6 DEF TypeOK, CheckPasses
  <2> HIDE DEF rec
  <2>3. request'[r] = rec /\ \A q \in Requesters : q # r => request'[q] = request[q]
    BY <1>1, <2>2 DEF TypeOK
  <2>4. ASSUME NEW i \in Ids
        PROVE  ~Holds(i)
    <3>1. SUFFICES ASSUME Holds(i) PROVE FALSE
      OBVIOUS
    <3>2. Active(i) /\ i \notin InTheWay
      BY <1>4, <1>6, <3>1 DEF CheckPasses
    <3>3. kind = "sweep" /\ i # n
      BY <3>2 DEF InTheWay
    <3>4. i < n /\ n \in Ids
      BY <1>3, <3>3 DEF Ids
    <3>5. QED
      BY <1>1, <3>1, <3>3, <3>4 DEF Later
  <2>5. Checked(r)'
    <3>1. \A i \in Ids : ~Holds(i)'
      BY <1>5, <2>4 DEF Holds, Working
    <3>2. request'[r].since <= Len(jobs') /\ request'[r].pc # "abandon"
      BY <1>3, <1>5, <2>1, <2>3
    <3>3. QED
      BY <1>5, <3>1, <3>2 DEF Checked, At
  <2>6. request' \in [Requesters -> Request] /\ Requested'
    BY <1>2, <2>1, <2>2, <2>5, OneRequest
  <2>7. Marks'
    BY <1>1, <1>2, <1>6, <2>3, MarksSame DEF CheckPasses
  <2>8. QED
    BY <1>1, <1>2, <1>6, <2>6, <2>7, QuietKeeps DEF CheckPasses, TypeOK
<1>7. CASE CheckFindsStale(r)
  <2> DEFINE l == Latest(InTheWay)
             rec == [request[r] EXCEPT !.pc = "abandon", !.since = n, !.job = l]
  <2>1. l \in InTheWay /\ \A i \in InTheWay : i <= l
    <3>1. InTheWay \in SUBSET (1..n) /\ InTheWay # {}
      BY <1>7 DEF CheckFindsStale, InTheWay, Ids
    <3> HIDE DEF n
    <3>2. QED
      BY <1>3, <3>1, LatestIsLatest
  <2>2. kind = "prsync" /\ l \in Ids
    BY <1>7, <2>1 DEF CheckFindsStale, InTheWay
  <2>3. request' = [request EXCEPT ![r] = rec]
    BY <1>1, <1>7 DEF TypeOK, CheckFindsStale
  <2> HIDE DEF l
  <2>4. rec \in Request /\ rec.pc = "abandon" /\ rec.since = n /\ rec.job = l
    <3>1. l \in 0..MaxJobs
      BY <1>3, <2>2, BackgroundJobAssumption DEF Ids
    <3>2. QED
      BY <1>1, <1>3, <3>1 DEF Request
  <2> HIDE DEF rec
  <2>5. request'[r] = rec /\ \A q \in Requesters : q # r => request'[q] = request[q]
    BY <1>1, <2>3 DEF TypeOK
  <2>6. ASSUME NEW i \in Ids, Holds(i), i # l
        PROVE  PassedTogether(i, n)
    <3>1. i \in InTheWay
      BY <1>4, <2>2, <2>6 DEF InTheWay
    <3>2. i < l
      BY <2>1, <2>2, <2>6, <3>1 DEF Ids
    <3>3. PassedTogether(i, l)
      BY <1>1, <2>2, <2>6, <3>2 DEF Later
    <3>4. QED
      BY <1>3, <2>2, <3>3 DEF PassedTogether, Ids
  <2>7. Checked(r)'
    <3>1. request'[r].since = n /\ request'[r].job = l /\ request'[r].pc = "abandon"
      BY <2>4, <2>5
    <3>2. \A i \in Ids : Holds(i)' => Holds(i)
      BY <1>5 DEF Holds, Working
    <3>3. ASSUME NEW i \in Ids, PassedTogether(i, n)
          PROVE  PassedTogether(i, request[r].since)'
      BY <1>5, <3>1, <3>3 DEF PassedTogether
    <3>4. n <= Len(jobs')
      BY <1>3, <1>5
    <3> HIDE DEF n
    <3>5. QED
      BY <1>5, <2>2, <2>6, <3>1, <3>2, <3>3, <3>4 DEF Checked, At
  <2>8. request' \in [Requesters -> Request] /\ Requested'
    BY <1>2, <2>3, <2>4, <2>7, OneRequest
  <2>9. Marks'
    BY <1>1, <1>2, <1>7, <2>5, MarksSame DEF CheckFindsStale
  <2>10. QED
    BY <1>1, <1>2, <1>7, <2>8, <2>9, QuietKeeps DEF CheckFindsStale, TypeOK
<1>8. CASE CheckRefuses(r)
  BY <1>1, <1>5, <1>8, RefuseKeeps DEF CheckRefuses
<1>9. QED
  BY <1>6, <1>7, <1>8 DEF Check

LEMMA AbandonKeeps ==
    ASSUME IInv, NEW r \in Requesters, AbandonStale(r)
    PROVE  IInv'
<1>1. /\ TypeOK /\ Rows /\ Marks /\ Checked(r)
      /\ request[r] \in Request /\ At(r, "abandon")
  BY DEF IInv, TypeOK, Requested, AbandonStale
<1>2. Quiet /\ request[r].job \in Ids /\ jobs'[request[r].job].taken
  BY <1>1, AbandonQuiet
<1> DEFINE rec == [request[r] EXCEPT !.pc = "insert", !.job = 0]
           n == request[r].since
<1>3. rec \in Request /\ rec.pc = "insert" /\ rec.since = n
  <2>1. 0 \in 0..MaxJobs
    BY BackgroundJobAssumption
  <2>2. QED
    BY <1>1, <2>1 DEF Request
<1>4. request' = [request EXCEPT ![r] = rec]
  BY <1>1 DEF TypeOK, AbandonStale
<1> HIDE DEF rec
<1>5. request'[r] = rec /\ \A q \in Requesters : q # r => request'[q] = request[q]
  BY <1>1, <1>4 DEF TypeOK
<1>6. kind = "prsync" /\ n <= Len(jobs) /\ n \in Nat
  BY <1>1, BackgroundJobAssumption DEF Checked, Request
<1>7. ASSUME NEW i \in Ids, i <= n, Holds(i)'
      PROVE  PassedTogether(i, request[r].since)'
  <2>1. Holds(i) /\ i # request[r].job
    BY <1>2, <1>7, HoldsFades DEF Quiet, Holds, Pending
  <2>2. PassedTogether(i, n)
    BY <1>1, <1>6, <1>7, <2>1 DEF Checked
  <2>3. PICK k \in (i + 1)..n : worker[k].since < i
    BY <2>2 DEF PassedTogether
  <2>4. k \in Ids
    BY <1>1, <1>6, Tables DEF Ids
  <2>5. worker'[k].since < i
    BY <1>2, <2>3, <2>4 DEF Quiet, Fades
  <2>6. request'[r].since = n
    BY <1>3, <1>5
  <2> HIDE DEF n
  <2>7. QED
    BY <2>3, <2>5, <2>6 DEF PassedTogether
<1>8. Checked(r)'
  <2>1. Ids' = Ids /\ kind' = kind /\ Len(jobs') = Len(jobs)
    BY <1>2, IdsStay DEF Quiet, Tabled
  <2>2. request'[r].since = n /\ request'[r].pc = "insert"
    BY <1>3, <1>5
  <2> HIDE DEF n
  <2>3. QED
    BY <1>6, <1>7, <2>1, <2>2 DEF Checked, At
<1>9. request' \in [Requesters -> Request] /\ Requested'
  BY <1>2, <1>3, <1>4, <1>8, OneRequest
<1>10. Marks'
  BY <1>1, <1>2, <1>5, MarksSame DEF AbandonStale, At
<1>11. QED
  BY <1>1, <1>2, <1>9, <1>10, QuietKeeps DEF AbandonStale, TypeOK

-----------------------------------------------------------------------------
(* A new row                                                                 *)

LEMMA InsertKeeps ==
    ASSUME IInv, NEW r \in Requesters, Insert(r)
    PROVE  IInv'
<1> DEFINE n == Len(jobs)
           new == [pc |-> "start", at |-> Host[r], since |-> request[r].since]
<1>1. /\ TypeOK /\ Rows /\ Later /\ Requested /\ Marks /\ Checked(r)
      /\ request[r] \in Request /\ At(r, "insert") /\ Host[r] \in Replicas
      /\ kind \in {"sweep", "prsync", "subscription", "apply"}
  BY BackgroundJobAssumption DEF IInv, TypeOK, Requested, Insert
<1>2. n \in Nat /\ n < MaxJobs /\ MaxJobs \in Nat /\ request[r].since \in 0..n
  BY <1>1, Tables, BackgroundJobAssumption DEF Insert, Checked, Request
<1>3. NewJob \in Job /\ new \in Worker
  <2>1. 0 \in 0..Targets
    BY BackgroundJobAssumption
  <2>2. QED
    BY <1>1, <1>2, <2>1 DEF NewJob, Job, Statuses, InFlight, Worker, Request
<1>4. /\ jobs' \in Seq(Job) /\ Len(jobs') = n + 1
      /\ \A i \in Ids : jobs'[i] = jobs[i]
      /\ jobs'[n + 1] = NewJob
  BY <1>1, <1>3, AppendProperties DEF Insert, TypeOK, Ids
<1>5. /\ worker' \in Seq(Worker) /\ Len(worker') = n + 1
      /\ \A i \in Ids : worker'[i] = worker[i]
      /\ worker'[n + 1] = new
  BY <1>1, <1>3, AppendProperties DEF Insert, TypeOK, Ids
<1>6. Ids' = Ids \cup {n + 1} /\ \A i \in Ids : i < n + 1 /\ i \in Nat
  BY <1>2, <1>4 DEF Ids
<1>7. new.pc = "start" /\ new.at = Host[r] /\ new.since = request[r].since
  OBVIOUS
<1> HIDE DEF new
<1>8. /\ Idle \in Request /\ Idle.pc = "idle" /\ Idle.since = 0
      /\ request'[r] = Idle /\ request' \in [Requesters -> Request]
      /\ \A q \in Requesters : q # r => request'[q] = request[q]
  <2>1. Idle \in Request /\ Idle.pc = "idle" /\ Idle.since = 0
    BY BackgroundJobAssumption DEF Idle, Request
  <2>2. request' = [request EXCEPT ![r] = Idle]
    BY DEF Insert, Return
  <2>3. QED
    BY <1>1, <2>1, <2>2 DEF TypeOK
<1>9. kind' = kind /\ marked' = marked
  BY DEF Insert
<1>10. \A i \in Ids : Holds(i)' <=> Holds(i)
  BY <1>4, <1>5 DEF Holds, Working
<1>11. ASSUME NEW i \in Ids, NEW j \in 0..n, PassedTogether(i, j)
       PROVE  \E k \in (i + 1)..j : worker'[k].since < i
  <2>1. PICK k \in (i + 1)..j : worker[k].since < i
    BY <1>11 DEF PassedTogether
  <2>2. k \in Ids
    BY <1>2, <1>6 DEF Ids
  <2>3. QED
    BY <1>5, <2>1, <2>2
<1>12. Rows'
  <2>1. ASSUME NEW i \in Ids
        PROVE  RowOK(jobs[i], worker[i])'
    <3>1. RowOK(jobs[i], worker[i]) /\ jobs'[i] = jobs[i] /\ worker'[i] = worker[i]
      BY <1>1, <1>4, <1>5 DEF Rows
    <3>2. QED
      BY <1>9, <3>1 DEF RowOK, Unfinished, Unheard, Reached, Reported, Work
  <2>2. RowOK(NewJob, new)
    <3>1. NewJob.status = "queued" /\ NewJob.done = 0 /\ NewJob.listed = 0
      BY DEF NewJob
    <3>2. Unfinished(NewJob, new)
      BY <3>1 DEF Unfinished, InFlight
    <3>3. Reached(NewJob, new)
      BY <1>7, <3>1, WorkBounds DEF Reached
    <3>4. Reported(NewJob, new)
      BY <3>1 DEF Reported
    <3>5. QED
      BY <1>3, <3>2, <3>3, <3>4 DEF RowOK
  <2>3. ASSUME NEW i \in Ids', i = n + 1
        PROVE  RowOK(jobs[i], worker[i])'
    <3>1. RowOK(jobs'[i], worker'[i])
      BY <1>4, <1>5, <2>2, <2>3
    <3>2. QED
      BY <1>9, <3>1 DEF RowOK, Unfinished, Unheard, Reached, Reported, Work
  <2>4. QED
    BY <1>6, <2>1, <2>3 DEF Rows
<1>13. Later'
  <2> SUFFICES ASSUME NEW i \in Ids', NEW j \in Ids', i < j, Holds(i)'
               PROVE  \/ kind = "subscription"
                      \/ kind = "prsync" /\ PassedTogether(i, j)'
                      \/ kind = "apply" /\ worker'[j].since < i
    BY <1>9 DEF Later
  <2>1. i \in Ids /\ Holds(i)
    BY <1>2, <1>6, <1>10
  <2>2. CASE j \in Ids
    <3>1. \/ kind = "subscription"
          \/ kind = "prsync" /\ PassedTogether(i, j)
          \/ kind = "apply" /\ worker[j].since < i
      BY <1>1, <2>1, <2>2 DEF Later
    <3>2. j \in 0..n /\ worker'[j] = worker[j]
      BY <1>2, <1>5, <2>2 DEF Ids
    <3>3. PassedTogether(i, j) => PassedTogether(i, j)'
      BY <1>11, <2>1, <3>2 DEF PassedTogether
    <3>4. QED
      BY <3>1, <3>2, <3>3
  <2>3. CASE j = n + 1
    <3>1. worker'[j].since = request[r].since /\ j \in (i + 1)..j
      BY <1>2, <1>5, <1>6, <1>7, <2>1, <2>3
    <3>2. CASE kind = "sweep"
      BY <1>1, <2>1, <3>2, HeldIsActive DEF Insert, Indexed
    <3>3. CASE kind \in {"prsync", "apply"} /\ request[r].since < i
      BY <3>1, <3>3 DEF PassedTogether
    <3>4. CASE kind \in {"prsync", "apply"} /\ i <= request[r].since
      <4>1. kind = "prsync" /\ PassedTogether(i, request[r].since)
        BY <1>1, <2>1, <3>4 DEF Checked, At
      <4>2. PICK k \in (i + 1)..request[r].since : worker'[k].since < i
        BY <1>2, <1>11, <2>1, <4>1
      <4>3. k \in (i + 1)..j
        BY <1>2, <2>3
      <4>4. QED
        BY <4>1, <4>2, <4>3 DEF PassedTogether
    <3>5. QED
      BY <1>1, <1>2, <1>6, <2>1, <3>2, <3>3, <3>4
  <2>4. QED
    BY <1>6, <2>2, <2>3
<1>14. Requested'
  <2>1. Checked(r)'
    BY <1>2, <1>4, <1>8, CheckedElsewhere
  <2>2. ASSUME NEW q \in Requesters, q # r
        PROVE  Checked(q)'
    <3> DEFINE m == request[q].since
    <3>1. Checked(q) /\ request'[q] = request[q] /\ m \in 0..n
      BY <1>1, <1>2, <1>8, <2>2 DEF Requested, Checked, TypeOK, Request
    <3>2. ASSUME NEW i \in Ids', i <= m, Holds(i)', At(q, "insert") \/ At(q, "abandon")
          PROVE  \/ kind = "subscription"
                 \/ kind = "prsync" /\ PassedTogether(i, request[q].since)'
                 \/ At(q, "abandon") /\ i = request[q].job
      <4>1. i \in Ids /\ Holds(i)
        BY <1>2, <1>6, <1>10, <3>1, <3>2
      <4>2. \/ kind = "subscription"
            \/ kind = "prsync" /\ PassedTogether(i, m)
            \/ At(q, "abandon") /\ i = request[q].job
        BY <3>1, <3>2, <4>1 DEF Checked
      <4>3. request'[q].since = m
        BY <3>1
      <4> HIDE DEF m
      <4>4. PassedTogether(i, m) => PassedTogether(i, request[q].since)'
        BY <1>11, <3>1, <4>1, <4>3 DEF PassedTogether
      <4>5. QED
        BY <4>2, <4>4
    <3>3. m <= Len(jobs') /\ Ids \subseteq Ids'
      BY <1>2, <1>4, <1>6, <3>1
    <3>4. request'[q].since = m
      BY <3>1
    <3> HIDE DEF m
    <3>5. QED
      BY <1>9, <3>1, <3>2, <3>3, <3>4 DEF Checked, At
  <2>3. QED
    BY <2>1, <2>2 DEF Requested
<1>15. Marks'
  <2> SUFFICES ASSUME kind = "apply"
               PROVE  Marks'
    BY <1>9 DEF Marks
  <2>1. /\ marked[Host[r]]
        /\ \A q \in Requesters \ {r} : request[q].pc # "idle" => Host[q] # Host[r]
        /\ \A j \in Ids : Working(j) => worker[j].at # Host[r]
    BY <1>1 DEF Marks, At
  <2>2. ASSUME NEW q \in Requesters, request'[q].pc # "idle"
        PROVE  /\ marked[Host[q]]
               /\ \A s \in Requesters \ {q} : request'[s].pc # "idle" => Host[s] # Host[q]
               /\ \A j \in Ids' : Working(j)' => worker'[j].at # Host[q]
    <3>1. q # r /\ request[q].pc # "idle"
      BY <1>8, <2>2
    <3>2. /\ marked[Host[q]]
          /\ \A s \in Requesters \ {q} : request[s].pc # "idle" => Host[s] # Host[q]
          /\ \A j \in Ids : Working(j) => worker[j].at # Host[q]
      BY <1>1, <3>1 DEF Marks
    <3>3. Host[q] # Host[r]
      BY <2>1, <3>1
    <3>4. \A s \in Requesters \ {q} : request'[s].pc # "idle" => Host[s] # Host[q]
      BY <1>8, <3>2
    <3>5. ASSUME NEW j \in Ids', Working(j)'
          PROVE  worker'[j].at # Host[q]
      <4>1. CASE j \in Ids
        BY <1>5, <3>2, <3>5, <4>1 DEF Working
      <4>2. CASE j = n + 1
        BY <1>5, <1>7, <3>3, <4>2
      <4>3. QED
        BY <1>6, <4>1, <4>2
    <3>6. QED
      BY <3>2, <3>4, <3>5
  <2>3. ASSUME NEW j \in Ids', Working(j)'
        PROVE  /\ marked[worker'[j].at]
               /\ \A i \in Ids' \ {j} : Working(i)' => worker'[i].at # worker'[j].at
    <3>1. CASE j \in Ids
      <4>1. Working(j) /\ worker'[j] = worker[j]
        BY <1>5, <2>3, <3>1 DEF Working
      <4>2. /\ marked[worker[j].at]
            /\ \A i \in Ids \ {j} : Working(i) => worker[i].at # worker[j].at
        BY <1>1, <3>1, <4>1 DEF Marks
      <4>3. worker'[n + 1].at # worker[j].at
        BY <1>5, <1>7, <2>1, <3>1, <4>1
      <4>4. ASSUME NEW i \in Ids' \ {j}, Working(i)'
            PROVE  worker'[i].at # worker'[j].at
        <5>1. CASE i \in Ids
          BY <1>5, <4>1, <4>2, <4>4, <5>1 DEF Working
        <5>2. CASE i = n + 1
          BY <4>1, <4>3, <5>2
        <5>3. QED
          BY <1>6, <5>1, <5>2
      <4>5. QED
        BY <4>1, <4>2, <4>4
    <3>2. CASE j = n + 1
      <4>1. worker'[j].at = Host[r]
        BY <1>5, <1>7, <3>2
      <4>2. ASSUME NEW i \in Ids' \ {j}, Working(i)'
            PROVE  worker'[i].at # worker'[j].at
        <5>1. i \in Ids
          BY <1>6, <3>2
        <5>2. Working(i) /\ worker'[i] = worker[i]
          BY <1>5, <4>2, <5>1 DEF Working
        <5>3. QED
          BY <2>1, <4>1, <5>1, <5>2
      <4>3. QED
        BY <2>1, <4>1, <4>2
    <3>3. QED
      BY <1>6, <3>1, <3>2
  <2>4. QED
    BY <1>9, <2>2, <2>3 DEF Marks
<1>16. TypeOK'
  <2>1. \A q \in Requesters : At(q, "abandon")' => request'[q].job \in Ids'
    BY <1>14 DEF Requested, Checked
  <2>2. kind' \in Kinds /\ marked' \in [Replicas -> BOOLEAN]
    BY <1>1, <1>9 DEF TypeOK
  <2>3. Len(jobs') <= MaxJobs
    BY <1>2, <1>4
  <2>4. QED
    BY <1>4, <1>5, <1>8, <2>1, <2>2, <2>3 DEF TypeOK
<1>17. QED
  BY <1>12, <1>13, <1>14, <1>15, <1>16 DEF IInv

-----------------------------------------------------------------------------
(* The theorems                                                              *)

LEMMA InitHolds ==
    ASSUME Init
    PROVE  IInv
<1>1. jobs = <<>> /\ worker = <<>> /\ Len(jobs) = 0 /\ Ids = {}
  BY DEF Init, Ids
<1>2. Idle \in Request /\ Idle.pc = "idle" /\ Idle.since = 0
  BY BackgroundJobAssumption DEF Idle, Request
<1>3. \A r \in Requesters : request[r] = Idle
  BY DEF Init
<1>4. TypeOK
  <2>1. <<>> \in Seq(Job) /\ <<>> \in Seq(Worker) /\ 0 <= MaxJobs
    BY EmptySeq, BackgroundJobAssumption
  <2>2. request \in [Requesters -> Request] /\ marked \in [Replicas -> BOOLEAN]
    BY <1>2 DEF Init
  <2>3. \A r \in Requesters : ~At(r, "abandon")
    BY <1>2, <1>3 DEF At
  <2>4. QED
    BY <1>1, <2>1, <2>2, <2>3 DEF Init, TypeOK
<1>5. Rows /\ Later
  BY <1>1 DEF Rows, Later
<1>6. Requested
  BY <1>1, <1>2, <1>3 DEF Requested, Checked, At
<1>7. Marks
  BY <1>1, <1>2, <1>3 DEF Marks
<1>8. QED
  BY <1>4, <1>5, <1>6, <1>7 DEF IInv

LEMMA NextKeeps ==
    ASSUME IInv, [Next]_vars
    PROVE  IInv'
<1>1. ASSUME NEW r \in Requesters, Begin(r) \/ RequestStep(r)
      PROVE  IInv'
  <2>1. CASE Begin(r)
    BY <2>1, BeginKeeps
  <2>2. CASE SettleFirst(r)
    BY <2>2, SettleKeeps
  <2>3. CASE Check(r)
    BY <2>3, CheckKeeps
  <2>4. CASE AbandonStale(r)
    BY <2>4, AbandonKeeps
  <2>5. CASE Insert(r)
    BY <2>5, InsertKeeps
  <2>6. CASE Refuse(r)
    BY <2>6, RefuseKeeps DEF Refuse
  <2>7. QED
    BY <1>1, <2>1, <2>2, <2>3, <2>4, <2>5, <2>6 DEF RequestStep
<1>2. ASSUME NEW j \in Ids, WorkerStep(j) \/ Age(j)
      PROVE  IInv'
  BY <1>2, WorkerKeeps, TimeKeeps
<1>3. CASE SettleOnRead
  BY <1>3, TimeKeeps
<1>4. ASSUME NEW p \in Replicas, Crash(p)
      PROVE  IInv'
  BY <1>4, CrashKeeps
<1>5. CASE UNCHANGED vars
  <2>1. UNCHANGED <<kind, jobs, worker, request, marked>>
    BY <1>5 DEF vars
  <2>2. /\ kind' = kind /\ jobs' = jobs /\ worker' = worker
        /\ request' = request /\ marked' = marked
    BY <2>1
  <2>3. TypeOK' /\ Rows'
    BY <2>2 DEF IInv, TypeOK, Ids, At, Rows, RowOK, Unfinished, Unheard, Reached, Reported, Work
  <2>4. Later' /\ Requested'
    BY <2>2
      DEF IInv, Later, Requested, Checked, At, Ids, Holds, Working, PassedTogether
  <2>5. Marks'
    BY <2>2 DEF IInv, Marks, Ids, Working
  <2>6. QED
    BY <2>3, <2>4, <2>5 DEF IInv
<1>6. QED
  BY <1>1, <1>2, <1>3, <1>4, <1>5 DEF Next

(* Whatever requests, workers, time and crashes do, every row agrees with    *)
(* its worker, every request with what it has read, and every mark with the  *)
(* process it stands for.                                                    *)
THEOREM Invariant == Spec => []IInv
<1>1. Init => IInv
  BY InitHolds
<1>2. IInv /\ [Next]_vars => IInv'
  BY NextKeeps
<1>3. QED
  BY <1>1, <1>2, PTL DEF Spec

(* The rows, workers and requests of backend/internal/{accountquota, prsync,  *)
(* adminsubscription, directorysync} keep their form; no job goes past its   *)
(* last target.                                                              *)
THEOREM TypeCorrect == Spec => []TypeOK
<1>1. IInv => TypeOK
  BY DEF IInv
<1>2. QED
  BY <1>1, Invariant, PTL

(* However many requests come in however many processes: two workers of one  *)
(* scope are at work only if the older's row was given up as stale or is     *)
(* completed and its worker has not heard of it, or two requests passed the  *)
(* check together, or the service has no check.                              *)
THEOREM OverlapsAreExcused == Spec => []OverlapIsExcused
<1>1. ASSUME IInv
      PROVE  OverlapIsExcused
  <2>1. TypeOK /\ Later /\ Marks
    BY <1>1 DEF IInv
  <2>2. ASSUME NEW i \in Ids, NEW j \in Ids, i < j, Working(i), Working(j),
               ~jobs[i].taken, jobs[i].status # "completed"
        PROVE  \/ kind = "subscription"
               \/ kind = "prsync" /\ \E k \in (i + 1)..j : worker[k].since < i
               \/ kind = "apply" /\ worker[j].since < i /\ worker[i].at # worker[j].at
    <3>1. \/ kind = "subscription"
          \/ kind = "prsync" /\ PassedTogether(i, j)
          \/ kind = "apply" /\ worker[j].since < i
      BY <2>1, <2>2 DEF Later, Holds, Pending
    <3>2. kind = "apply" => worker[i].at # worker[j].at
      <4>1. i # j
        BY <2>2 DEF Ids
      <4>2. QED
        BY <2>1, <2>2, <4>1 DEF Marks
    <3>3. QED
      BY <3>1, <3>2 DEF PassedTogether
  <2>3. QED
    BY <2>2 DEF OverlapIsExcused
<1>2. QED
  BY <1>1, Invariant, PTL

(* What a job reports is what it did, whatever fails and whenever its worker *)
(* dies: a completed job has been through every target and lists it, and a   *)
(* subscription job is never more than one target ahead of its list.         *)
THEOREM ReportsAreTrue == Spec => []ReportIsTrue
<1>1. IInv => ReportIsTrue
  BY DEF IInv, Rows, RowOK, Reported, ReportIsTrue
<1>2. QED
  BY <1>1, Invariant, PTL

(* An outcome that a worker has stored is not replaced, neither by a settling *)
(* read nor by a worker that outlived the cutoff, except by prsync's         *)
(* abandonment by id, and by the failure that the worker of a subscription   *)
(* job or an apply records over a completion it has not heard of.            *)
THEOREM OutcomesStay == Spec => OutcomeStays
<1> DEFINE Kept ==
             \A j \in Ids :
               jobs[j].status \in {"completed", "failed"} /\ kind # "prsync" =>
                 \/ jobs'[j].status = jobs[j].status
                 \/ /\ kind \notin ProgressOptional
                    /\ jobs[j].status = "completed" /\ WorkerAt(j, "fail")
                    /\ jobs'[j].status = "failed" /\ worker'[j].pc = "gone"
<1>1. ASSUME IInv, [Next]_vars
      PROVE  Kept
  <2> SUFFICES ASSUME NEW j \in Ids, jobs[j].status \in {"completed", "failed"},
                      kind # "prsync"
               PROVE  \/ jobs'[j].status = jobs[j].status
                      \/ /\ kind \notin ProgressOptional
                         /\ jobs[j].status = "completed" /\ WorkerAt(j, "fail")
                         /\ jobs'[j].status = "failed" /\ worker'[j].pc = "gone"
    OBVIOUS
  <2>1. TypeOK /\ Rows /\ Requested
    BY <1>1 DEF IInv
  <2>2. /\ ~Active(j)
        /\ \/ worker[j].pc = "gone"
           \/ /\ worker[j].pc = "fail" /\ jobs[j].status = "completed"
              /\ kind \notin ProgressOptional
    BY <2>1, RowFacts DEF Active, InFlight, RowOK, Unfinished, Unheard
  <2>3. CASE jobs' = jobs
    BY <2>3
  <2>4. CASE jobs' = Settled
    BY <2>2, <2>4 DEF Settled
  <2>5. ASSUME NEW i \in Ids, WorkerStep(i), i # j
        PROVE  jobs'[j].status = jobs[j].status
    <3>1. PICK job \in Job, w \in Worker : Advances(i, job, w)
      BY <2>1, <2>5, WorkerAdvances DEF Good
    <3>2. jobs' = [jobs EXCEPT ![i] = job]
      BY <3>1 DEF Advances, Becomes
    <3>3. QED
      BY <2>1, <2>5, <3>2, Tables
  <2>6. ASSUME WorkerStep(j)
        PROVE  \/ jobs'[j].status = jobs[j].status
               \/ /\ kind \notin ProgressOptional
                  /\ jobs[j].status = "completed" /\ WorkerAt(j, "fail")
                  /\ jobs'[j].status = "failed" /\ worker'[j].pc = "gone"
    <3>1. WorkerFail(j) /\ worker[j].pc = "fail"
      BY <2>2, <2>6
        DEF WorkerStep, WorkerAt, WorkerStart, WorkerCall, WorkerSave, WorkerFinish, WorkerFail
    <3>2. CASE UNCHANGED jobs
      BY <3>2
    <3>3. CASE ~UNCHANGED jobs
      <4> DEFINE failed == [jobs[j] EXCEPT !.status = "failed"]
      <4>1. jobs[j] \in Job /\ worker[j] \in Worker
        BY <2>1, RowFacts
      <4>2. failed \in Job /\ failed.status = "failed"
        BY <4>1 DEF Job, Statuses
      <4>3. jobs' = [jobs EXCEPT ![j] = Touched(failed)]
        BY <3>1, <3>3 DEF WorkerFail, Write
      <4> HIDE DEF failed
      <4>4. jobs'[j].status = "failed"
        BY <2>1, <4>2, <4>3, TouchedValues, Tables
      <4>5. worker'[j] = Gone(worker[j])
        BY <2>1, <3>1, Tables DEF WorkerFail, WorkerEnds
      <4>6. worker'[j].pc = "gone"
        BY <4>1, <4>5, GoneValues
      <4>7. QED
        BY <2>2, <3>1, <4>4, <4>6 DEF WorkerAt
    <3>4. QED
      BY <3>2, <3>3
  <2>7. ASSUME NEW i \in Ids, Age(i)
        PROVE  jobs'[j].status = jobs[j].status
    <3>1. i # j /\ jobs' = [jobs EXCEPT ![i].old = TRUE]
      BY <2>2, <2>7 DEF Age
    <3>2. QED
      BY <2>1, <3>1, Tables
  <2>8. ASSUME NEW r \in Requesters, Insert(r)
        PROVE  jobs'[j].status = jobs[j].status
    <3>1. NewJob \in Job
      BY BackgroundJobAssumption DEF NewJob, Job, Statuses, InFlight
    <3>2. jobs'[j] = jobs[j]
      BY <2>1, <2>8, <3>1, AppendProperties DEF Insert, TypeOK, Ids
    <3>3. QED
      BY <3>2
  <2>9. ASSUME NEW r \in Requesters, Begin(r) \/ RequestStep(r)
        PROVE  jobs'[j].status = jobs[j].status
    <3>1. ~AbandonStale(r)
      BY <2>1 DEF Requested, Checked, AbandonStale
    <3>2. CASE Insert(r)
      BY <2>8, <3>2
    <3>3. CASE Begin(r) \/ SettleFirst(r) \/ Check(r) \/ Refuse(r)
      <4>1. jobs' = jobs \/ jobs' = Settled
        BY <3>3 DEF Begin, SettleFirst, Check, Refuse
      <4>2. QED
        BY <2>2, <4>1 DEF Settled
    <3>4. QED
      BY <2>9, <3>1, <3>2, <3>3 DEF RequestStep
  <2>10. CASE SettleOnRead
    BY <2>4, <2>10 DEF SettleOnRead
  <2>11. ASSUME NEW p \in Replicas, Crash(p)
         PROVE  jobs'[j].status = jobs[j].status
    BY <2>11 DEF Crash
  <2>12. CASE UNCHANGED vars
    BY <2>3, <2>12 DEF vars
  <2>13. QED
    BY <1>1, <2>5, <2>6, <2>7, <2>9, <2>10, <2>11, <2>12 DEF Next
<1>2. IInv /\ [Next]_vars => [Kept]_vars
  BY <1>1
<1>3. QED
  BY <1>2, Invariant, PTL DEF Spec, OutcomeStays

=============================================================================
