------------------------- MODULE MachineSyncProofs --------------------------
(***************************************************************************)
(* Proofs about MachineSync, for any workspaces, hooks, runners and bounds. *)
(***************************************************************************)
EXTENDS MachineSync, TLAPS

-----------------------------------------------------------------------------
(* Records                                                                   *)

Remembers(rec) ==
    rec.pc \in {"recover", "lease", "pass", "fail"} =>
        rec.mine # NoTask /\ rec.queue[rec.ws] # NoTask

LEMMA Records ==
    /\ AnyWorkspace \in Workspaces
    /\ Unborn \in Runner /\ Gone \in Runner /\ Gone.pc = "gone" /\ Unborn.pc = "unborn"
    /\ Done \in Hook /\ Done.pc = "done"
<1>1. AnyWorkspace \in Workspaces
  BY MachineSyncAssumption DEF AnyWorkspace
<1>2. Unborn \in Runner /\ Unborn.pc = "unborn"
  BY <1>1 DEF Unborn, Runner
<1>3. Gone \in Runner /\ Gone.pc = "gone"
  BY <1>2 DEF Gone, Runner
<1>4. Done \in Hook /\ Done.pc = "done"
  BY DEF Done, Hook
<1>5. QED
  BY <1>1, <1>2, <1>3, <1>4

PCs == Owning \cup Waiting \cup {"unborn", "leave", "gone"}

LEMMA Moved ==
    ASSUME NEW old \in Runner, NEW pc \in PCs
    PROVE  [old EXCEPT !.pc = pc] \in Runner /\ [old EXCEPT !.pc = pc].pc = pc
BY DEF Runner, PCs

LEMMA MovedFound ==
    ASSUME NEW old \in Runner, NEW pc \in PCs, NEW seen \in Runners \cup {None}
    PROVE  /\ [old EXCEPT !.pc = pc, !.seen = seen] \in Runner
           /\ [old EXCEPT !.pc = pc, !.seen = seen].pc = pc
BY DEF Runner, PCs

LEMMA MovedWaits ==
    ASSUME NEW old \in Runner, NEW pc \in PCs, NEW waiting \in BOOLEAN
    PROVE  /\ [old EXCEPT !.pc = pc, !.waiting = waiting] \in Runner
           /\ [old EXCEPT !.pc = pc, !.waiting = waiting].pc = pc
BY DEF Runner, PCs

LEMMA MovedByHand ==
    ASSUME NEW old \in Runner, NEW pc \in PCs, NEW manual \in BOOLEAN
    PROVE  /\ [old EXCEPT !.pc = pc, !.manual = manual] \in Runner
           /\ [old EXCEPT !.pc = pc, !.manual = manual].pc = pc
BY DEF Runner, PCs

(* A step that gives a runner a new record.                                  *)
Becomes(r, rec) == rec \in Runner /\ run' = [run EXCEPT ![r] = rec]

LEMMA BecomesValues ==
    ASSUME TypeOK, NEW r \in Runners, NEW rec, Becomes(r, rec)
    PROVE  /\ run' \in [Runners -> Runner] /\ run'[r] = rec
           /\ \A s \in Runners : s # r => run'[s] = run[s]
BY DEF TypeOK, Becomes

(* A runner that is through with its workspace goes on with its round.        *)
Rests(r) == \E rec : Becomes(r, rec) /\ rec.pc \in {"each", "list", "release"}

LEMMA ThroughRests ==
    ASSUME TypeOK, NEW r \in Runners, NEW fields \in Runner, Through(r, fields)
    PROVE  Rests(r)
<1>1. PICK pc \in {"each", "list", "release"}, queue \in [Workspaces -> Task \cup {NoTask}] :
        run' = [run EXCEPT ![r] = [fields EXCEPT !.pc = pc, !.queue = queue, !.ws = AnyWorkspace,
                                     !.mine = NoTask, !.runnable = {}, !.kept = FALSE]]
  <2> DEFINE rest == [fields.queue EXCEPT ![fields.ws] = NoTask]
  <2>1. rest \in [Workspaces -> Task \cup {NoTask}]
    BY DEF Runner
  <2>2. QED
    BY <2>1 DEF Through
<1>2. pc \in PCs /\ AnyWorkspace \in Workspaces
  BY Records DEF PCs, Owning
<1> DEFINE rec == [fields EXCEPT !.pc = pc, !.queue = queue, !.ws = AnyWorkspace,
                                 !.mine = NoTask, !.runnable = {}, !.kept = FALSE]
<1>3. rec \in Runner /\ rec.pc = pc
  BY <1>2 DEF Runner, PCs
<1> HIDE DEF rec
<1>4. run' = [run EXCEPT ![r] = rec]
  BY <1>1 DEF rec
<1>5. QED
  BY <1>3, <1>4, Zenon DEF Rests, Becomes

LEMMA BlockedRests ==
    ASSUME TypeOK, NEW r \in Runners, NEW w \in Workspaces, run[r].queue[w] # NoTask,
           NEW e \in {"deadline", "other"}, Blocked(r, w, e)
    PROVE  Rests(r)
<1> DEFINE fields == [run[r] EXCEPT !.ws = w, !.blocked[w] = run[r].queue[w].gen,
                                    !.err = IF @ = "none" THEN e ELSE @]
<1>1. run[r] \in Runner /\ run[r].queue[w] \in Task
  BY DEF TypeOK, Runner
<1>2. run[r].queue[w].gen \in Nat
  BY <1>1 DEF Task
<1>3. fields \in Runner
  BY <1>1, <1>2 DEF Runner
<1>4. Through(r, fields)
  BY DEF Blocked
<1> HIDE DEF fields
<1>5. QED
  BY <1>3, <1>4, ThroughRests

-----------------------------------------------------------------------------
(* What a step does to tasks and leases                                      *)

BoundType == [hooks : SUBSET Hooks, faults : Nat, timeouts : Nat]

LEMMA BoundStays ==
    ASSUME TypeOK, Expires \/ UNCHANGED bound \/ \E kind \in FaultKinds : Fault(kind)
    PROVE  bound' \in BoundType
BY DEF TypeOK, Expires, Fault, BoundType

(* No task goes away and none loses a trigger.                               *)
Lossless ==
    /\ task' \in [Workspaces -> Task \cup {NoTask}]
    /\ \A v \in Workspaces :
         task[v] # NoTask => task'[v] # NoTask /\ task[v].triggers \subseteq task'[v].triggers

LEMMA TriggersStay ==
    ASSUME IInv, Lossless, accepted' = accepted, processed \subseteq processed'
    PROVE  NoTriggerLost'
<1>1. ASSUME NEW h \in accepted
      PROVE  h \in processed' \/ (task'[Home[h]] # NoTask /\ h \in task'[Home[h]].triggers)
  <2>1. Home[h] \in Workspaces
    BY MachineSyncAssumption DEF IInv, TypeOK
  <2>2. h \in processed \/ (task[Home[h]] # NoTask /\ h \in task[Home[h]].triggers)
    BY DEF IInv, NoTriggerLost
  <2>3. QED
    BY <2>1, <2>2 DEF Lossless
<1>2. QED
  BY <1>1 DEF NoTriggerLost

Holds(v, s) == task[v] # NoTask /\ task[v].runner = s

(* Whoever but x holds a lease holds it on, or the loss is noted.             *)
LeasesStay(x) ==
    /\ cleared \subseteq cleared' /\ cleared' \subseteq Workspaces
    /\ \A v \in Workspaces, s \in Runners :
         s # x /\ Alive(s) /\ Holds(v, s) =>
             (task'[v] # NoTask /\ task'[v].runner = s) \/ v \in cleared'

LEMMA OthersPass ==
    ASSUME IInv, NEW r \in Runners, NEW rec, Becomes(r, rec), LeasesStay(r),
           rec.pc = "pass" =>
               (task'[rec.ws] # NoTask /\ task'[rec.ws].runner = r) \/ rec.ws \in cleared'
    PROVE  PassHoldsLease'
<1>1. ASSUME NEW s \in Runners, run'[s].pc = "pass", s # r
      PROVE  (task'[run'[s].ws] # NoTask /\ task'[run'[s].ws].runner = s)
                \/ run'[s].ws \in cleared'
  <2>1. run'[s] = run[s] /\ run[s].ws \in Workspaces
    BY <1>1, BecomesValues DEF IInv, TypeOK, Runner
  <2>2. Holds(run[s].ws, s) \/ run[s].ws \in cleared
    BY <1>1, <2>1 DEF IInv, PassHoldsLease, Holds
  <2>3. Alive(s)
    BY <1>1, <2>1, MachineSyncAssumption DEF Alive
  <2>4. QED
    BY <1>1, <2>1, <2>2, <2>3 DEF LeasesStay
<1>2. run'[r] = rec
  BY BecomesValues DEF IInv
<1>3. QED
  BY <1>1, <1>2 DEF PassHoldsLease

LEMMA OthersPassOn ==
    ASSUME IInv, LeasesStay(None),
           \A s \in Runners : run'[s].pc = "pass" => run'[s] = run[s]
    PROVE  PassHoldsLease'
<1>1. ASSUME NEW s \in Runners, run'[s].pc = "pass"
      PROVE  (task'[run'[s].ws] # NoTask /\ task'[run'[s].ws].runner = s)
                \/ run'[s].ws \in cleared'
  <2>1. run'[s] = run[s] /\ run[s].ws \in Workspaces
    BY <1>1 DEF IInv, TypeOK, Runner
  <2>2. Holds(run[s].ws, s) \/ run[s].ws \in cleared
    BY <1>1, <2>1 DEF IInv, PassHoldsLease, Holds
  <2>3. Alive(s) /\ s # None
    BY <1>1, <2>1, MachineSyncAssumption DEF Alive
  <2>4. QED
    BY <2>1, <2>2, <2>3 DEF LeasesStay
<1>2. QED
  BY <1>1 DEF PassHoldsLease

(* A write of one task.                                                      *)
LEMMA OneTask ==
    ASSUME TypeOK, NEW w \in Workspaces, NEW t \in Task, task' = [task EXCEPT ![w] = t],
           task[w] # NoTask => task[w].triggers \subseteq t.triggers
    PROVE  Lossless /\ task'[w] = t /\ \A v \in Workspaces \ {w} : task'[v] = task[v]
<1>1. task \in [Workspaces -> Task \cup {NoTask}] /\ t # NoTask
  BY NoTaskAssumption DEF TypeOK
<1>2. QED
  BY <1>1 DEF Lossless

LEMMA EndLeaseKeeps ==
    ASSUME TypeOK, NEW w \in Workspaces, NEW mem \in Task, NEW x, EndLease(w, mem, x)
    PROVE  Lossless /\ LeasesStay(x)
<1> DEFINE latest == IF task[w] # NoTask THEN task[w] ELSE mem
           new == [latest EXCEPT !.runner = None]
<1>1. latest \in Task /\ task \in [Workspaces -> Task \cup {NoTask}]
  BY DEF TypeOK
<1>2. new \in Task /\ new.triggers = latest.triggers
  BY <1>1 DEF Task
<1>3. CASE UNCHANGED <<task, cleared>>
  BY <1>1, <1>3 DEF Lossless, LeasesStay, Holds, TypeOK
<1>4. CASE /\ task' = [task EXCEPT ![w] = new]
           /\ cleared' = IF Leased(latest) /\ latest.runner # x THEN cleared \cup {w} ELSE cleared
  <2>1. Lossless /\ task'[w] = new /\ \A v \in Workspaces \ {w} : task'[v] = task[v]
    <3> HIDE DEF new
    <3>1. task[w] # NoTask => task[w].triggers \subseteq new.triggers
      BY <1>2
    <3>2. QED
      BY <1>2, <1>4, <3>1, OneTask
  <2>2. ASSUME NEW v \in Workspaces, NEW s \in Runners, s # x, Alive(s), Holds(v, s)
        PROVE  (task'[v] # NoTask /\ task'[v].runner = s) \/ v \in cleared'
    <3>1. CASE v = w
      BY <1>4, <2>2, <3>1 DEF Holds, Leased
    <3>2. CASE v # w
      BY <2>1, <2>2, <3>2 DEF Holds
    <3>3. QED
      BY <3>1, <3>2
  <2>3. cleared \subseteq cleared' /\ cleared' \subseteq Workspaces
    BY <1>4 DEF TypeOK
  <2>4. QED
    BY <2>1, <2>2, <2>3 DEF LeasesStay
<1>5. QED
  BY <1>3, <1>4 DEF EndLease

LEMMA NothingWritten ==
    ASSUME TypeOK, UNCHANGED <<task, cleared>>, NEW x
    PROVE  Lossless /\ LeasesStay(x)
BY DEF TypeOK, Lossless, LeasesStay, Holds

-----------------------------------------------------------------------------
(* Owners                                                                    *)

(* A step of an owner that stays one.                                        *)
LEMMA Drains ==
    ASSUME IInv, NEW r \in Runners, run[r].pc \in Owning,
           NEW rec, Becomes(r, rec), rec.pc \in Owning, Remembers(rec),
           task' \in [Workspaces -> Task \cup {NoTask}], LeasesStay(r), NoTriggerLost',
           rec.pc = "pass" =>
               (task'[rec.ws] # NoTask /\ task'[rec.ws].runner = r) \/ rec.ws \in cleared',
           bound' \in BoundType, processed' \subseteq Hooks, excused' \subseteq Workspaces,
           UNCHANGED <<Locks, hook, accepted>>
    PROVE  IInv'
<1>1. run' \in [Runners -> Runner] /\ run'[r] = rec /\ \A s \in Runners : s # r => run'[s] = run[s]
  BY BecomesValues DEF IInv
<1>2. run[r].pc \notin {"unborn", "gone", "break"} /\ rec.pc \notin {"unborn", "gone", "break"}
  BY DEF Owning
<1>3. TypeOK'
  BY <1>1 DEF IInv, TypeOK, Locks, LeasesStay, BoundType
<1>4. InMemory'
  BY <1>1 DEF IInv, InMemory, Remembers
<1>5. FoundDead'
  <2>1. runLock' # None => run'[runLock'].pc # "unborn"
    BY <1>1, <1>2 DEF IInv, FoundDead, TypeOK, Locks
  <2>2. ASSUME NEW s \in Runners, run'[s].pc = "break"
        PROVE  run'[s].seen # None /\ run'[run'[s].seen].pc = "gone"
    <3>1. run'[s] = run[s] /\ run[s].seen # None /\ run[run[s].seen].pc = "gone"
      BY <1>1, <1>2, <2>2 DEF IInv, FoundDead
    <3>2. run[s].seen \in Runners /\ run[s].seen # r
      BY <1>2, <3>1 DEF IInv, TypeOK, Runner
    <3>3. QED
      BY <1>1, <3>1, <3>2
  <2>3. QED
    BY <2>1, <2>2 DEF FoundDead
<1>6. OwnerHoldsLock'
  BY <1>1 DEF IInv, OwnerHoldsLock, Locks
<1>7. PassHoldsLease'
  BY OthersPass
<1>8. QED
  BY <1>3, <1>4, <1>5, <1>6, <1>7 DEF IInv

(* An owner that is through with a workspace, and no task has lost anything.   *)
LEMMA DrainsOn ==
    ASSUME IInv, NEW r \in Runners, run[r].pc \in Owning, Rests(r), Lossless, LeasesStay(r),
           bound' \in BoundType, processed \subseteq processed', processed' \subseteq Hooks,
           excused' \subseteq Workspaces, UNCHANGED <<Locks, hook, accepted>>
    PROVE  IInv'
<1>1. PICK rec : Becomes(r, rec) /\ rec.pc \in {"each", "list", "release"}
  BY DEF Rests
<1>2. rec.pc \in Owning /\ rec.pc # "pass" /\ Remembers(rec)
  BY <1>1 DEF Owning, Remembers
<1>3. NoTriggerLost'
  BY TriggersStay
<1>4. QED
  BY <1>1, <1>2, <1>3, Drains DEF Lossless

(* What an owner knows when it is at a workspace.                             *)
LEMMA AtWork ==
    ASSUME IInv, NEW r \in Runners, run[r].pc \in {"recover", "lease", "pass", "fail"}
    PROVE  /\ run[r].pc \in Owning /\ run[r] \in Runner /\ run[r].ws \in Workspaces
           /\ run[r].mine \in Task /\ run[r].queue[run[r].ws] # NoTask
BY DEF IInv, TypeOK, InMemory, Runner, Owning

LEMMA RecoverFailsKeeps ==
    ASSUME IInv, NEW r \in Runners, RecoverFails(r)
    PROVE  IInv'
<1> DEFINE w == run[r].ws
<1>1. /\ run[r].pc = "recover" /\ Fault("checkout")
      /\ EndLease(w, run[r].mine, r) /\ Blocked(r, w, "other")
      /\ excused' = excused \cup {w}
      /\ UNCHANGED <<Locks, hook, accepted, processed>>
  BY DEF RecoverFails
<1>2. /\ run[r].pc \in Owning /\ w \in Workspaces
      /\ run[r].mine \in Task /\ run[r].queue[w] # NoTask
  BY <1>1, AtWork
<1>3. Rests(r)
  BY <1>1, <1>2, BlockedRests DEF IInv
<1>4. Lossless /\ LeasesStay(r)
  BY <1>1, <1>2, EndLeaseKeeps DEF IInv
<1>5. bound' \in BoundType
  BY <1>1, BoundStays DEF IInv, Fault
<1>6. processed' \subseteq Hooks /\ excused' \subseteq Workspaces
  BY <1>1, <1>2 DEF IInv, TypeOK
<1>7. QED
  BY <1>1, <1>2, <1>3, <1>4, <1>5, <1>6, DrainsOn

LEMMA PruneRefusedKeeps ==
    ASSUME IInv, NEW r \in Runners, PruneRefused(r)
    PROVE  IInv'
<1>1. PICK w \in Workspaces :
        /\ run[r].queue[w] # NoTask
        /\ EndLease(w, run[r].queue[w], r) \/ UNCHANGED <<task, cleared>>
        /\ Blocked(r, w, "other")
        /\ excused' = excused \cup {w}
  BY DEF PruneRefused
<1>2. /\ run[r].pc = "each" /\ Fault("contention")
      /\ UNCHANGED <<Locks, hook, accepted, processed>>
  BY DEF PruneRefused
<1>3. run[r].pc \in Owning /\ run[r].queue[w] \in Task
  BY <1>1, <1>2 DEF IInv, TypeOK, Runner, Owning
<1>4. Rests(r)
  BY <1>1, BlockedRests DEF IInv
<1>5. Lossless /\ LeasesStay(r)
  BY <1>1, <1>3, EndLeaseKeeps, NothingWritten DEF IInv
<1>6. bound' \in BoundType
  BY <1>2, BoundStays DEF IInv, Fault
<1>7. processed' \subseteq Hooks /\ excused' \subseteq Workspaces
  BY <1>1, <1>2 DEF IInv, TypeOK
<1>8. QED
  BY <1>2, <1>3, <1>4, <1>5, <1>6, <1>7, DrainsOn

LEMMA LeaseRefusedKeeps ==
    ASSUME IInv, NEW r \in Runners, LeaseRefused(r)
    PROVE  IInv'
<1>1. /\ run[r].pc = "lease" /\ Blocked(r, run[r].ws, "other")
      /\ UNCHANGED bound \/ Fault("contention")
      /\ excused' = excused \cup {run[r].ws}
      /\ UNCHANGED <<Locks, task, hook, accepted, processed, cleared>>
  BY DEF LeaseRefused
<1>2. run[r].pc \in Owning /\ run[r].ws \in Workspaces /\ run[r].queue[run[r].ws] # NoTask
  BY <1>1, AtWork
<1>3. Rests(r)
  BY <1>1, <1>2, BlockedRests DEF IInv
<1>4. Lossless /\ LeasesStay(r)
  BY <1>1, NothingWritten DEF IInv
<1>5. bound' \in BoundType
  BY <1>1, BoundStays DEF IInv, Fault
<1>6. processed' \subseteq Hooks /\ excused' \subseteq Workspaces
  BY <1>1, <1>2 DEF IInv, TypeOK
<1>7. QED
  BY <1>1, <1>2, <1>3, <1>4, <1>5, <1>6, DrainsOn

LEMMA QuantumEndsKeeps ==
    ASSUME IInv, NEW r \in Runners, QuantumEnds(r)
    PROVE  IInv'
<1>1. /\ run[r].pc = "pass" /\ Expires /\ EndLease(run[r].ws, run[r].mine, r) /\ Succeeds(r)
      /\ UNCHANGED <<Locks, hook, accepted, processed, excused>>
  BY DEF QuantumEnds
<1>2. /\ run[r].pc \in Owning /\ run[r] \in Runner /\ run[r].ws \in Workspaces
      /\ run[r].mine \in Task
  BY <1>1, AtWork
<1>3. Rests(r)
  <2>1. [run[r] EXCEPT !.progressed = TRUE] \in Runner
    BY <1>2 DEF Runner
  <2>2. QED
    BY <1>1, <2>1, ThroughRests DEF IInv, Succeeds
<1>4. Lossless /\ LeasesStay(r)
  BY <1>1, <1>2, EndLeaseKeeps DEF IInv
<1>5. bound' \in BoundType
  BY <1>1, BoundStays DEF IInv
<1>6. processed' \subseteq Hooks /\ excused' \subseteq Workspaces
  BY <1>1 DEF IInv, TypeOK
<1>7. QED
  BY <1>1, <1>2, <1>3, <1>4, <1>5, <1>6, DrainsOn

LEMMA OwnerYieldsKeeps ==
    ASSUME IInv, NEW r \in Runners, OwnerYields(r)
    PROVE  IInv'
<1> DEFINE w == run[r].ws
           fields == [run[r] EXCEPT !.late = TRUE, !.blocked[w] = run[r].queue[w].gen,
                                    !.err = IF @ = "none" THEN "deadline" ELSE @]
<1>1. /\ run[r].pc = "pass" /\ (UNCHANGED bound \/ Expires) /\ EndLease(w, run[r].mine, r)
      /\ Through(r, fields)
      /\ excused' \in {excused \cup {w}, excused}
      /\ UNCHANGED <<Locks, hook, accepted, processed>>
  BY DEF OwnerYields
<1>2. /\ run[r].pc \in Owning /\ run[r] \in Runner /\ w \in Workspaces
      /\ run[r].mine \in Task /\ run[r].queue[w] # NoTask
  BY <1>1, AtWork
<1>3. fields \in Runner
  <2>1. run[r].queue[w] \in Task
    BY <1>2 DEF Runner
  <2>2. run[r].queue[w].gen \in Nat
    BY <2>1 DEF Task
  <2>3. QED
    BY <1>2, <2>2 DEF Runner
<1> HIDE DEF w, fields
<1>4. Rests(r)
  BY <1>1, <1>3, ThroughRests DEF IInv
<1>5. Lossless /\ LeasesStay(r)
  BY <1>1, <1>2, EndLeaseKeeps DEF IInv
<1>6. bound' \in BoundType
  BY <1>1, BoundStays DEF IInv
<1>7. processed' \subseteq Hooks /\ excused' \subseteq Workspaces
  BY <1>1, <1>2 DEF IInv, TypeOK
<1>8. QED
  BY <1>1, <1>2, <1>4, <1>5, <1>6, <1>7, DrainsOn

LEMMA PassFailsKeeps ==
    ASSUME IInv, NEW r \in Runners, PassFails(r)
    PROVE  IInv'
<1>1. /\ run[r].pc \in {"pass", "fail"}
      /\ UNCHANGED bound \/ Fault("pass") \/ Fault("contention")
      /\ EndLease(run[r].ws, run[r].mine, r) \/ UNCHANGED <<task, cleared>>
      /\ Blocked(r, run[r].ws, "other")
      /\ excused' = excused \cup {run[r].ws}
      /\ UNCHANGED <<Locks, hook, accepted, processed>>
  BY DEF PassFails
<1>2. /\ run[r].pc \in Owning /\ run[r].ws \in Workspaces
      /\ run[r].mine \in Task /\ run[r].queue[run[r].ws] # NoTask
  BY <1>1, AtWork
<1>3. Rests(r)
  BY <1>1, <1>2, BlockedRests DEF IInv
<1>4. Lossless /\ LeasesStay(r)
  BY <1>1, <1>2, EndLeaseKeeps, NothingWritten DEF IInv
<1>5. bound' \in BoundType
  BY <1>1, BoundStays DEF IInv, Fault
<1>6. processed' \subseteq Hooks /\ excused' \subseteq Workspaces
  BY <1>1, <1>2 DEF IInv, TypeOK
<1>7. QED
  BY <1>1, <1>2, <1>3, <1>4, <1>5, <1>6, DrainsOn

LEMMA ListKeeps ==
    ASSUME IInv, NEW r \in Runners, List(r)
    PROVE  IInv'
<1>1. PICK queue \in [Workspaces -> Task \cup {NoTask}], pc \in {"release", "each"} :
        run' = [run EXCEPT ![r].queue = queue, ![r].progressed = FALSE, ![r].pc = pc]
  <2> DEFINE listed == [w \in Workspaces |->
                          IF task[w] # NoTask /\ run[r].blocked[w] < task[w].gen THEN task[w]
                                                                                ELSE NoTask]
             empty == \A w \in Workspaces : listed[w] = NoTask
  <2>1. listed \in [Workspaces -> Task \cup {NoTask}]
    BY DEF IInv, TypeOK
  <2>2. run' = [run EXCEPT ![r].queue = listed, ![r].progressed = FALSE,
                           ![r].pc = IF empty THEN "release" ELSE "each"]
    BY Zenon DEF List
  <2> HIDE DEF listed, empty
  <2>3. QED
    BY <2>1, <2>2
<1>2. run[r].pc = "list" /\ UNCHANGED <<Locks, Files, bound, excused>>
  BY DEF List
<1> DEFINE rec == [run[r] EXCEPT !.queue = queue, !.progressed = FALSE, !.pc = pc]
<1>3. run[r] \in Runner /\ rec \in Runner /\ rec.pc = pc
  <2>1. run[r] \in Runner /\ pc \in PCs
    BY DEF IInv, TypeOK, PCs, Owning
  <2>2. QED
    BY <2>1 DEF Runner, PCs
<1>4. run' = [run EXCEPT ![r] = rec]
  BY <1>1, <1>3 DEF IInv, TypeOK
<1> HIDE DEF rec
<1>5. Rests(r)
  BY <1>3, <1>4, Zenon DEF Rests, Becomes
<1>6. Lossless /\ LeasesStay(r)
  BY <1>2, NothingWritten DEF IInv, Files
<1>7. bound' \in BoundType /\ processed' \subseteq Hooks /\ excused' \subseteq Workspaces
  BY <1>2 DEF IInv, TypeOK, Files, BoundType
<1>8. run[r].pc \in Owning /\ UNCHANGED <<Locks, hook, accepted, processed>>
  BY <1>2 DEF Owning, Files
<1>9. QED
  BY <1>5, <1>6, <1>7, <1>8, DrainsOn

LEMMA PruneKeeps ==
    ASSUME IInv, NEW r \in Runners, Prune(r)
    PROVE  IInv'
<1>1. /\ run[r].pc = "each"
      /\ UNCHANGED <<Locks, hook, task, accepted, processed, cleared, bound, excused>>
  BY DEF Prune, Files
<1>2. PICK w \in Workspaces :
        /\ run[r].queue[w] # NoTask
        /\ \/ Through(r, [run[r] EXCEPT !.ws = w, !.progressed = TRUE])
           \/ /\ task[w] # NoTask
              /\ run' = [run EXCEPT ![r].pc = "recover", ![r].ws = w, ![r].mine = task[w],
                                    ![r].queue = [@ EXCEPT ![w] = task[w]]]
  BY Zenon DEF Prune
<1>3. run[r].pc \in Owning /\ run[r] \in Runner
  BY <1>1 DEF IInv, TypeOK, Owning
<1>4. Lossless /\ LeasesStay(r)
  BY <1>1, NothingWritten DEF IInv
<1>5. bound' \in BoundType /\ processed' \subseteq Hooks /\ excused' \subseteq Workspaces
  BY <1>1 DEF IInv, TypeOK, BoundType
<1>6. CASE Through(r, [run[r] EXCEPT !.ws = w, !.progressed = TRUE])
  <2>1. [run[r] EXCEPT !.ws = w, !.progressed = TRUE] \in Runner
    BY <1>3 DEF Runner
  <2>2. Rests(r)
    BY <1>6, <2>1, ThroughRests DEF IInv
  <2>3. QED
    BY <1>1, <1>3, <1>4, <1>5, <2>2, DrainsOn
<1>7. ASSUME task[w] # NoTask,
             run' = [run EXCEPT ![r].pc = "recover", ![r].ws = w, ![r].mine = task[w],
                                ![r].queue = [@ EXCEPT ![w] = task[w]]]
      PROVE  IInv'
  <2> DEFINE queue == [run[r].queue EXCEPT ![w] = task[w]]
             rec == [run[r] EXCEPT !.pc = "recover", !.ws = w, !.mine = task[w],
                                   !.queue = queue]
  <2>1. /\ task[w] \in Task
        /\ queue \in [Workspaces -> Task \cup {NoTask}] /\ queue[w] = task[w]
    BY <1>3, <1>7 DEF IInv, TypeOK, Runner
  <2>2. run' = [run EXCEPT ![r] = rec]
    BY <1>7 DEF IInv, TypeOK
  <2> HIDE DEF queue
  <2>3. rec \in Runner /\ rec.pc = "recover" /\ rec.mine = task[w] /\ rec.ws = w
           /\ rec.queue = queue
    BY <1>3, <2>1 DEF Runner, Owning
  <2> HIDE DEF rec
  <2>4. Becomes(r, rec) /\ rec.pc \in Owning /\ rec.pc # "pass"
    BY <2>2, <2>3 DEF Becomes, Owning
  <2>5. Remembers(rec)
    BY <1>7, <2>1, <2>3 DEF Remembers
  <2>6. NoTriggerLost'
    BY <1>1, <1>4, TriggersStay
  <2>7. QED
    BY <1>1, <1>3, <1>4, <1>5, <2>4, <2>5, <2>6, Drains DEF Lossless
<1>8. QED
  BY <1>2, <1>6, <1>7

LEMMA RecoverKeeps ==
    ASSUME IInv, NEW r \in Runners, Recover(r)
    PROVE  IInv'
<1> DEFINE w == run[r].ws
           triggers == run[r].mine.triggers
<1>1. /\ run[r].pc = "recover"
      /\ UNCHANGED <<Locks, task, hook, accepted, processed, cleared>>
  BY DEF Recover
<1>2. PICK served \in SUBSET triggers :
        /\ \/ UNCHANGED <<bound, excused>>
           \/ Fault("checkout") /\ excused' = excused \cup {w}
        /\ \/ Succeeds(r)
           \/ /\ task[w] # NoTask
              /\ run' = [run EXCEPT ![r].pc = "lease", ![r].mine = task[w],
                                    ![r].runnable = served, ![r].kept = served # triggers]
  BY Zenon DEF Recover
<1>3. /\ run[r].pc \in Owning /\ run[r] \in Runner /\ w \in Workspaces
      /\ run[r].mine \in Task /\ run[r].queue[w] # NoTask
  BY <1>1, AtWork
<1>4. Lossless /\ LeasesStay(r)
  BY <1>1, NothingWritten DEF IInv
<1>5. bound' \in BoundType
  BY <1>2, BoundStays DEF IInv, Fault
<1>6. processed' \subseteq Hooks /\ excused' \subseteq Workspaces
  BY <1>1, <1>2, <1>3 DEF IInv, TypeOK
<1>7. CASE Succeeds(r)
  <2>1. [run[r] EXCEPT !.progressed = TRUE] \in Runner
    BY <1>3 DEF Runner
  <2>2. Rests(r)
    BY <1>7, <2>1, ThroughRests DEF IInv, Succeeds
  <2>3. QED
    BY <1>1, <1>3, <1>4, <1>5, <1>6, <2>2, DrainsOn
<1>8. ASSUME task[w] # NoTask,
             run' = [run EXCEPT ![r].pc = "lease", ![r].mine = task[w],
                                ![r].runnable = served, ![r].kept = served # triggers]
      PROVE  IInv'
  <2> DEFINE kept == served # triggers
             rec == [run[r] EXCEPT !.pc = "lease", !.mine = task[w],
                                   !.runnable = served, !.kept = kept]
  <2>1. kept \in BOOLEAN /\ served \in SUBSET Hooks /\ task[w] \in Task
    BY <1>3, <1>8 DEF IInv, TypeOK, Task
  <2>2. run' = [run EXCEPT ![r] = rec]
    BY <1>8 DEF IInv, TypeOK
  <2> HIDE DEF kept
  <2>3. rec \in Runner /\ rec.pc = "lease" /\ rec.mine = task[w] /\ rec.ws = w
           /\ rec.queue = run[r].queue
    BY <1>3, <2>1 DEF Runner, Owning
  <2> HIDE DEF rec
  <2>4. Becomes(r, rec) /\ rec.pc \in Owning /\ rec.pc # "pass"
    BY <2>2, <2>3 DEF Becomes, Owning
  <2>5. Remembers(rec)
    BY <1>3, <1>8, <2>3 DEF Remembers
  <2>6. NoTriggerLost'
    BY <1>1, <1>4, TriggersStay
  <2>7. QED
    BY <1>1, <1>3, <1>4, <1>5, <1>6, <2>4, <2>5, <2>6, Drains DEF Lossless
<1>9. QED
  BY <1>2, <1>7, <1>8

LEMMA LeaseKeeps ==
    ASSUME IInv, NEW r \in Runners, Lease(r)
    PROVE  IInv'
<1> DEFINE w == run[r].ws
           latest == IF task[w] # NoTask THEN task[w] ELSE run[r].mine
           mine == [latest EXCEPT !.runner = r]
           runnable == run[r].runnable
           memory == IF runnable = {} THEN mine
                     ELSE [mine EXCEPT !.triggers = @ \cap runnable]
<1>1. /\ run[r].pc = "lease" /\ ~Leased(latest)
      /\ task' = [task EXCEPT ![w] = mine]
      /\ run' = [run EXCEPT ![r].pc = "pass", ![r].mine = memory]
      /\ UNCHANGED <<Locks, hook, bound, accepted, processed, cleared, excused>>
  BY DEF Lease
<1>2. /\ run[r].pc \in Owning /\ run[r] \in Runner /\ w \in Workspaces
      /\ run[r].mine \in Task /\ run[r].queue[w] # NoTask
  BY <1>1, AtWork
<1>3. latest \in Task
  BY <1>2 DEF IInv, TypeOK
<1>4. mine \in Task /\ mine.triggers = latest.triggers /\ mine.runner = r
  BY <1>3 DEF Task
<1>5. memory \in Task
  BY <1>3, <1>4 DEF Task
<1>6. task[w] # NoTask => task[w].triggers \subseteq mine.triggers
  BY <1>4
<1> HIDE DEF memory
<1> DEFINE rec == [run[r] EXCEPT !.pc = "pass", !.mine = memory]
<1>7. run' = [run EXCEPT ![r] = rec]
  BY <1>1 DEF IInv, TypeOK
<1>8. rec \in Runner /\ rec.pc = "pass" /\ rec.mine = memory /\ rec.ws = w
         /\ rec.queue = run[r].queue
  BY <1>2, <1>5 DEF Runner, Owning
<1> HIDE DEF rec, mine
<1>9. Lossless /\ task'[w] = mine /\ \A v \in Workspaces \ {w} : task'[v] = task[v]
  BY <1>1, <1>2, <1>4, <1>6, OneTask DEF IInv
<1>10. LeasesStay(r)
  <2>1. ASSUME NEW v \in Workspaces, NEW s \in Runners, s # r, Alive(s), Holds(v, s)
        PROVE  (task'[v] # NoTask /\ task'[v].runner = s) \/ v \in cleared'
    <3>1. v # w
      BY <1>1, <2>1 DEF Holds, Leased
    <3>2. QED
      BY <1>9, <2>1, <3>1 DEF Holds
  <2>2. QED
    BY <1>1, <2>1 DEF LeasesStay, IInv, TypeOK
<1>11. Becomes(r, rec) /\ rec.pc \in Owning /\ Remembers(rec)
  BY <1>2, <1>5, <1>7, <1>8, NoTaskAssumption DEF Becomes, Owning, Remembers
<1>12. task'[rec.ws] # NoTask /\ task'[rec.ws].runner = r
  BY <1>4, <1>8, <1>9, NoTaskAssumption
<1>13. NoTriggerLost'
  BY <1>1, <1>9, TriggersStay
<1>14. bound' \in BoundType /\ processed' \subseteq Hooks /\ excused' \subseteq Workspaces
  BY <1>1 DEF IInv, TypeOK, BoundType
<1>15. QED
  BY <1>1, <1>2, <1>9, <1>10, <1>11, <1>12, <1>13, <1>14, Drains DEF Lossless

(* CompleteSyncTaskPass: a trigger leaves the file only when it is delivered.  *)
LEMMA CompleteKeeps ==
    ASSUME IInv, NEW r \in Runners, Complete(r)
    PROVE  IInv'
<1> DEFINE w == run[r].ws
           mine == run[r].mine
           rest == [task[w] EXCEPT !.triggers = @ \ mine.triggers, !.runner = None]
           more == task[w] # NoTask /\ (rest.triggers # {} \/ task[w].gen > mine.gen)
           idle == task[w] # NoTask /\ ~more /\ ~run[r].kept
<1>1. /\ run[r].pc = "pass" /\ processed' = processed \cup mine.triggers
      /\ UNCHANGED <<Locks, hook, bound, accepted, cleared>>
  BY DEF Complete
<1>2. \/ /\ Blocked(r, w, "other") /\ excused' = excused \cup {w} /\ UNCHANGED task
      \/ /\ task[w] # NoTask => task[w].runner = r
         /\ task' = [task EXCEPT ![w] = IF more THEN rest ELSE NoTask]
         /\ \/ idle /\ Succeeds(r)
            \/ /\ ~idle
               /\ run' = [run EXCEPT ![r].pc = IF run[r].kept THEN "fail" ELSE "recover",
                                     ![r].mine = IF more THEN rest ELSE mine]
         /\ UNCHANGED excused
  BY Zenon DEF Complete
<1>3. /\ run[r].pc \in Owning /\ run[r] \in Runner /\ w \in Workspaces
      /\ mine \in Task /\ run[r].queue[w] # NoTask
  BY <1>1, AtWork
<1>4. /\ bound' \in BoundType /\ processed \subseteq processed' /\ processed' \subseteq Hooks
  BY <1>1, <1>3 DEF IInv, TypeOK, BoundType, Task
<1>5. CASE Blocked(r, w, "other") /\ excused' = excused \cup {w} /\ UNCHANGED task
  <2>1. Rests(r)
    BY <1>3, <1>5, BlockedRests DEF IInv
  <2>2. Lossless /\ LeasesStay(r)
    BY <1>1, <1>5, NothingWritten DEF IInv
  <2>3. excused' \subseteq Workspaces
    BY <1>3, <1>5 DEF IInv, TypeOK
  <2>4. QED
    BY <1>1, <1>3, <1>4, <2>1, <2>2, <2>3, DrainsOn
<1>6. ASSUME task[w] # NoTask => task[w].runner = r,
             task' = [task EXCEPT ![w] = IF more THEN rest ELSE NoTask],
             \/ idle /\ Succeeds(r)
             \/ /\ ~idle
                /\ run' = [run EXCEPT ![r].pc = IF run[r].kept THEN "fail" ELSE "recover",
                                      ![r].mine = IF more THEN rest ELSE mine],
             UNCHANGED excused
      PROVE  IInv'
  <2>1. task[w] # NoTask => rest \in Task /\ rest.triggers = task[w].triggers \ mine.triggers
    BY <1>3 DEF IInv, TypeOK, Task
  <2>2. /\ more => task[w] # NoTask
        /\ task[w] # NoTask /\ ~more => rest.triggers = {}
    OBVIOUS
  <2> HIDE DEF rest, more
  <2>3. PICK new \in Task \cup {NoTask} :
          /\ task' = [task EXCEPT ![w] = new]
          /\ \A h \in Hooks : /\ task[w] # NoTask /\ h \in task[w].triggers
                              => h \in mine.triggers \/ (new # NoTask /\ h \in new.triggers)
    <3>1. CASE more
      <4>1. rest \in Task \cup {NoTask} /\ rest # NoTask /\ task' = [task EXCEPT ![w] = rest]
        BY <1>6, <2>1, <2>2, <3>1, NoTaskAssumption
      <4>2. \A h \in Hooks : h \in task[w].triggers => h \in mine.triggers \/ h \in rest.triggers
        BY <2>1, <2>2, <3>1
      <4>3. QED
        BY <4>1, <4>2
    <3>2. CASE ~more
      BY <1>6, <2>1, <2>2, <3>2
    <3>3. QED
      BY <3>1, <3>2
  <2>4. /\ task' \in [Workspaces -> Task \cup {NoTask}] /\ task'[w] = new
        /\ \A v \in Workspaces \ {w} : task'[v] = task[v]
    BY <1>3, <2>3 DEF IInv, TypeOK
  <2>5. NoTriggerLost'
    <3>1. ASSUME NEW h \in accepted
          PROVE  h \in processed' \/ (task'[Home[h]] # NoTask /\ h \in task'[Home[h]].triggers)
      <4>1. Home[h] \in Workspaces /\ h \in Hooks
        BY MachineSyncAssumption DEF IInv, TypeOK
      <4>2. h \in processed \/ (task[Home[h]] # NoTask /\ h \in task[Home[h]].triggers)
        BY DEF IInv, NoTriggerLost
      <4>3. QED
        BY <1>1, <2>3, <2>4, <4>1, <4>2
    <3>2. QED
      BY <1>1, <3>1 DEF NoTriggerLost
  <2>6. LeasesStay(r)
    <3>1. ASSUME NEW v \in Workspaces, NEW s \in Runners, s # r, Holds(v, s)
          PROVE  task'[v] # NoTask /\ task'[v].runner = s
      BY <1>6, <2>4, <3>1 DEF Holds
    <3>2. QED
      BY <1>1, <3>1 DEF LeasesStay, IInv, TypeOK
  <2>7. excused' \subseteq Workspaces
    BY <1>6 DEF IInv, TypeOK
  <2>8. CASE Succeeds(r)
    <3>1. [run[r] EXCEPT !.progressed = TRUE] \in Runner
      BY <1>3 DEF Runner
    <3>2. PICK rec : Becomes(r, rec) /\ rec.pc \in {"each", "list", "release"}
      BY <2>8, <3>1, ThroughRests DEF IInv, Succeeds, Rests
    <3>3. rec.pc \in Owning /\ rec.pc # "pass" /\ Remembers(rec)
      BY <3>2 DEF Owning, Remembers
    <3>4. QED
      BY <1>1, <1>3, <1>4, <2>4, <2>5, <2>6, <2>7, <3>2, <3>3, Drains
  <2>9. CASE run' = [run EXCEPT ![r].pc = IF run[r].kept THEN "fail" ELSE "recover",
                                ![r].mine = IF more THEN rest ELSE mine]
    <3>1. PICK pc \in {"fail", "recover"}, m \in Task :
            run' = [run EXCEPT ![r].pc = pc, ![r].mine = m]
      BY <1>3, <2>1, <2>2, <2>9
    <3> DEFINE rec == [run[r] EXCEPT !.pc = pc, !.mine = m]
    <3>2. run' = [run EXCEPT ![r] = rec]
      BY <3>1 DEF IInv, TypeOK
    <3>3. rec \in Runner /\ rec.pc = pc /\ rec.mine = m /\ rec.ws = w
             /\ rec.queue = run[r].queue
      BY <1>3 DEF Runner, Owning
    <3> HIDE DEF rec
    <3>4. Becomes(r, rec) /\ rec.pc \in Owning /\ rec.pc # "pass" /\ Remembers(rec)
      BY <1>3, <3>2, <3>3, NoTaskAssumption DEF Becomes, Owning, Remembers
    <3>5. QED
      BY <1>1, <1>3, <1>4, <2>4, <2>5, <2>6, <2>7, <3>4, Drains
  <2>10. QED
    BY <1>6, <2>8, <2>9
<1>7. QED
  BY <1>2, <1>5, <1>6

-----------------------------------------------------------------------------
(* Runners and locks                                                         *)

HooksRemember ==
    /\ hook' \in [Hooks -> Hook]
    /\ \A h \in Hooks \ Manual : hook'[h].pc = "spawn" => hook'[h].mem # NoTask

(* No runner comes back, none begins a pass and owners own.                    *)
Lawful ==
    /\ run' \in [Runners -> Runner]
    /\ \A s \in Runners :
         /\ run[s].pc = "gone" => run'[s].pc = "gone"
         /\ run[s].pc # "unborn" => run'[s].pc # "unborn"
         /\ Remembers(run'[s])
         /\ run'[s].pc = "pass" => run'[s] = run[s]
         /\ run'[s].pc = "break" => run'[s].seen # None /\ run[run'[s].seen].pc = "gone"
         /\ run'[s].pc \in Owning => runLock' = s \/ raced'

LEMMA LawfulKeeps ==
    ASSUME IInv, HooksRemember, Lawful, LeasesStay(None), NoTriggerLost',
           task' \in [Workspaces -> Task \cup {NoTask}],
           runLock' \in Runners \cup {None}, wake' \in Runners \cup {None}, raced' \in BOOLEAN,
           runLock' # None => run'[runLock'].pc # "unborn",
           bound' \in BoundType, accepted' \subseteq Hooks, processed' \subseteq Hooks,
           excused' \subseteq Workspaces
    PROVE  IInv'
<1>1. TypeOK'
  BY DEF HooksRemember, Lawful, LeasesStay, TypeOK, BoundType
<1>2. InMemory'
  BY DEF HooksRemember, Lawful, InMemory, Remembers
<1>3. FoundDead'
  <2>1. ASSUME NEW s \in Runners, run'[s].pc = "break"
        PROVE  run'[s].seen # None /\ run'[run'[s].seen].pc = "gone"
    BY <2>1 DEF Lawful, Runner
  <2>2. QED
    BY <2>1 DEF FoundDead
<1>4. OwnerHoldsLock'
  BY DEF Lawful, OwnerHoldsLock
<1>5. PassHoldsLease'
  BY OthersPassOn DEF Lawful
<1>6. QED
  BY <1>1, <1>2, <1>3, <1>4, <1>5 DEF IInv

(* A step of a runner that writes no task and starts no pass.                 *)
LEMMA RunnerMoves ==
    ASSUME IInv, NEW r \in Runners, NEW rec, Becomes(r, rec), run[r].pc # "gone",
           rec.pc \notin {"unborn", "recover", "lease", "pass", "fail"},
           rec.pc = "break" => rec.seen # None /\ run[rec.seen].pc = "gone",
           rec.pc \in Owning => runLock' = r \/ raced',
           \A s \in Runners \ {r} :
               run[s].pc \in Owning /\ (runLock = s \/ raced) => runLock' = s \/ raced',
           runLock' \in {runLock, r, None}, wake' \in Runners \cup {None}, raced' \in BOOLEAN,
           HooksRemember, bound' \in BoundType, excused' \subseteq Workspaces,
           UNCHANGED <<task, accepted, processed, cleared>>
    PROVE  IInv'
<1>1. run' \in [Runners -> Runner] /\ run'[r] = rec /\ \A s \in Runners : s # r => run'[s] = run[s]
  BY BecomesValues DEF IInv
<1>2. ASSUME NEW s \in Runners
      PROVE  /\ run[s].pc = "gone" => run'[s].pc = "gone"
             /\ run[s].pc # "unborn" => run'[s].pc # "unborn"
             /\ Remembers(run'[s])
             /\ run'[s].pc = "pass" => run'[s] = run[s]
             /\ run'[s].pc = "break" => run'[s].seen # None /\ run[run'[s].seen].pc = "gone"
             /\ run'[s].pc \in Owning => runLock' = s \/ raced'
  <2>1. CASE s = r
    BY <1>1, <2>1 DEF Remembers
  <2>2. CASE s # r
    <3>1. run'[s] = run[s]
      BY <1>1, <2>2
    <3>2. Remembers(run[s])
      BY DEF IInv, InMemory, Remembers
    <3>3. run[s].pc = "break" => run[s].seen # None /\ run[run[s].seen].pc = "gone"
      BY DEF IInv, FoundDead
    <3>4. run[s].pc \in Owning => runLock' = s \/ raced'
      BY <2>2 DEF IInv, OwnerHoldsLock
    <3>5. QED
      BY <3>1, <3>2, <3>3, <3>4
  <2>3. QED
    BY <2>1, <2>2
<1>3. Lawful
  BY <1>1, <1>2 DEF Lawful
<1>4. Lossless /\ LeasesStay(None)
  BY NothingWritten DEF IInv
<1>5. NoTriggerLost'
  BY <1>4, TriggersStay
<1>6. runLock' # None => run'[runLock'].pc # "unborn"
  BY <1>1 DEF IInv, FoundDead, TypeOK
<1>7. runLock' \in Runners \cup {None} /\ accepted' \subseteq Hooks /\ processed' \subseteq Hooks
  BY DEF IInv, TypeOK
<1>8. QED
  BY <1>3, <1>4, <1>5, <1>6, <1>7, LawfulKeeps DEF Lossless

LEMMA HooksStay ==
    ASSUME IInv, UNCHANGED hook
    PROVE  HooksRemember
BY DEF IInv, TypeOK, InMemory, HooksRemember

(* A runner that goes away, and leaves its lock or takes one with it that is    *)
(* its own if none was raced for.                                            *)
LEMMA Ends ==
    ASSUME IInv, NEW r \in Runners, NEW pc \in {"gone", "leave"},
           run' = [run EXCEPT ![r] = [Unborn EXCEPT !.pc = pc]], run[r].pc # "gone",
           \/ runLock' = runLock
           \/ runLock' = None /\ run[r].pc \in Owning,
           wake' \in Runners \cup {None}, bound' \in BoundType, excused' \subseteq Workspaces,
           UNCHANGED <<task, hook, accepted, processed, cleared, raced>>
    PROVE  IInv'
<1> DEFINE rec == [Unborn EXCEPT !.pc = pc]
<1>1. rec \in Runner /\ rec.pc = pc
  <2>1. pc \in PCs /\ Unborn \in Runner
    BY Records DEF PCs
  <2>2. QED
    BY <2>1, Moved
<1> HIDE DEF rec
<1>2. Becomes(r, rec) /\ rec.pc \notin Owning
  BY <1>1, Zenon DEF Becomes, rec, Owning
<1>3. ASSUME NEW s \in Runners \ {r}, run[s].pc \in Owning, runLock = s \/ raced
      PROVE  runLock' = s \/ raced'
  <2>1. run[r].pc \in Owning => runLock = r \/ raced
    BY DEF IInv, OwnerHoldsLock
  <2>2. QED
    BY <1>3, <2>1
<1>4. HooksRemember
  BY HooksStay
<1>5. raced' \in BOOLEAN /\ runLock' \in {runLock, r, None}
  BY DEF IInv, TypeOK
<1>6. QED
  BY <1>1, <1>2, <1>3, <1>4, <1>5, RunnerMoves

LEMMA TryLockKeeps ==
    ASSUME IInv, NEW r \in Runners, TryLock(r)
    PROVE  IInv'
<1>1. PICK pc \in {"own", "break", "claim"}, waiting \in BOOLEAN, seen \in Runners \cup {None} :
        /\ run' = [run EXCEPT ![r].pc = pc, ![r].waiting = waiting, ![r].seen = seen]
        /\ pc = "break" => Stale(seen) /\ seen = runLock
        /\ \/ runLock = None /\ runLock' = r
           \/ pc # "own" /\ runLock' = runLock
  <2>1. CASE runLock = None /\ runLock' = r
             /\ run' = [run EXCEPT ![r].pc = "own", ![r].waiting = FALSE]
    <3>1. run' = [run EXCEPT ![r].pc = "own", ![r].waiting = FALSE, ![r].seen = run[r].seen]
      BY <2>1 DEF IInv, TypeOK, Runner
    <3>2. run[r].seen \in Runners \cup {None}
      BY DEF IInv, TypeOK, Runner
    <3>3. QED
      BY <2>1, <3>1, <3>2
  <2>2. CASE Stale(runLock) /\ run' = [run EXCEPT ![r].pc = "break", ![r].seen = runLock]
             /\ UNCHANGED runLock
    <3>1. run' = [run EXCEPT ![r].pc = "break", ![r].waiting = run[r].waiting, ![r].seen = runLock]
      BY <2>2 DEF IInv, TypeOK, Runner
    <3>2. run[r].waiting \in BOOLEAN /\ runLock \in Runners \cup {None}
      BY DEF IInv, TypeOK, Runner
    <3>3. QED
      BY <2>2, <3>1, <3>2
  <2>3. CASE Goto(r, "claim") /\ UNCHANGED runLock
    <3>1. run' = [run EXCEPT ![r].pc = "claim", ![r].waiting = run[r].waiting, ![r].seen = run[r].seen]
      BY <2>3 DEF IInv, TypeOK, Runner, Goto
    <3>2. run[r].waiting \in BOOLEAN /\ run[r].seen \in Runners \cup {None}
      BY DEF IInv, TypeOK, Runner
    <3>3. QED
      BY <2>3, <3>1, <3>2
  <2>4. QED
    BY <2>1, <2>2, <2>3 DEF TryLock
<1>2. run[r].pc = "try" /\ UNCHANGED <<Files, wake, bound, raced, excused>>
  BY DEF TryLock
<1> DEFINE rec == [run[r] EXCEPT !.pc = pc, !.waiting = waiting, !.seen = seen]
<1>3. run[r] \in Runner /\ pc \in PCs
  BY DEF IInv, TypeOK, PCs, Owning, Waiting
<1>4. rec \in Runner /\ rec.pc = pc /\ rec.seen = seen
  BY <1>3 DEF Runner, PCs
<1>5. run' = [run EXCEPT ![r] = rec]
  BY <1>1 DEF IInv, TypeOK
<1> HIDE DEF rec
<1>6. Becomes(r, rec)
  BY <1>4, <1>5 DEF Becomes
<1>7. pc = "break" => seen # None /\ run[seen].pc = "gone"
  <2>1. ASSUME pc = "break"
        PROVE  seen # None /\ run[seen].pc # "unborn" /\ run[seen].pc \in {"unborn", "gone"}
    BY <1>1, <2>1 DEF Stale, Alive, IInv, FoundDead
  <2>2. QED
    BY <2>1
<1>8. pc \in Owning => runLock' = r
  BY <1>1 DEF Owning
<1>9. \A s \in Runners \ {r} :
        run[s].pc \in Owning /\ (runLock = s \/ raced) => runLock' = s \/ raced'
  BY <1>1, <1>2, MachineSyncAssumption
<1>10. HooksRemember
  BY <1>2, HooksStay DEF Files
<1>11. /\ wake' \in Runners \cup {None} /\ raced' \in BOOLEAN /\ bound' \in BoundType
       /\ excused' \subseteq Workspaces /\ UNCHANGED <<task, accepted, processed, cleared>>
  BY <1>2 DEF IInv, TypeOK, BoundType, Files
<1>12. QED
  BY <1>1, <1>2, <1>4, <1>6, <1>7, <1>8, <1>9, <1>10, <1>11, RunnerMoves

(* What a runner that lives leaves alone.                                     *)
LEMMA Typed ==
    ASSUME IInv
    PROVE  /\ runLock \in Runners \cup {None} /\ wake \in Runners \cup {None}
           /\ raced \in BOOLEAN /\ bound \in BoundType /\ excused \subseteq Workspaces
           /\ \A r \in Runners : run[r] \in Runner
BY DEF IInv, TypeOK, BoundType

LEMMA BreakLockKeeps ==
    ASSUME IInv, NEW r \in Runners, BreakLock(r)
    PROVE  IInv'
<1>1. /\ run[r].pc = "break" /\ runLock' = None
      /\ raced' = (raced \/ (runLock # run[r].seen /\ Alive(runLock)))
      /\ run' = [run EXCEPT ![r].pc = "try", ![r].seen = None]
      /\ UNCHANGED <<Files, wake, bound, excused>>
  BY DEF BreakLock
<1> DEFINE rec == [run[r] EXCEPT !.pc = "try", !.seen = None]
<1>2. rec \in Runner /\ rec.pc = "try"
  <2>1. "try" \in PCs /\ run[r] \in Runner /\ None \in Runners \cup {None}
    BY Typed DEF PCs, Waiting
  <2>2. QED
    BY <2>1, MovedFound
<1>3. run' = [run EXCEPT ![r] = rec]
  BY <1>1 DEF IInv, TypeOK
<1> HIDE DEF rec
<1>4. Becomes(r, rec) /\ rec.pc \notin Owning
  BY <1>2, <1>3 DEF Becomes, Owning
<1>5. ASSUME NEW s \in Runners \ {r}, run[s].pc \in Owning, runLock = s \/ raced
      PROVE  raced'
  <2>1. CASE raced
    BY <1>1, <2>1
  <2>2. CASE runLock = s
    <3>1. run[run[r].seen].pc = "gone"
      BY <1>1 DEF IInv, FoundDead
    <3>2. run[s].pc \notin {"unborn", "gone"} /\ s # None
      BY <1>5, MachineSyncAssumption DEF Owning
    <3>3. Alive(runLock) /\ runLock # run[r].seen
      BY <2>2, <3>1, <3>2 DEF Alive
    <3>4. QED
      BY <1>1, <3>3
  <2>3. QED
    BY <1>5, <2>1, <2>2
<1>6. raced' \in BOOLEAN
  BY <1>1
<1>7. HooksRemember
  BY <1>1, HooksStay DEF Files
<1>8. /\ wake' \in Runners \cup {None} /\ bound' \in BoundType /\ excused' \subseteq Workspaces
      /\ UNCHANGED <<task, accepted, processed, cleared>>
  BY <1>1, Typed DEF Files
<1>9. QED
  BY <1>1, <1>2, <1>4, <1>5, <1>6, <1>7, <1>8, RunnerMoves

LEMMA GoneIs == Gone = [Unborn EXCEPT !.pc = "gone"]
BY DEF Gone

LEMMA ClaimWakeKeeps ==
    ASSUME IInv, NEW r \in Runners, ClaimWake(r)
    PROVE  IInv'
<1>1. run[r].pc = "claim" /\ UNCHANGED <<Files, runLock, bound, raced, excused>>
  BY DEF ClaimWake
<1>2. CASE Leaves(r) /\ UNCHANGED wake
  BY <1>1, <1>2, Typed, GoneIs, Ends DEF Leaves, Files
<1>3. CASE wake' = r /\ run' = [run EXCEPT ![r].pc = "try", ![r].waiting = TRUE]
  <2> DEFINE rec == [run[r] EXCEPT !.pc = "try", !.waiting = TRUE]
  <2>1. rec \in Runner /\ rec.pc = "try"
    <3>1. "try" \in PCs /\ run[r] \in Runner
      BY Typed DEF PCs, Waiting
    <3>2. QED
      BY <3>1, MovedWaits
  <2>2. run' = [run EXCEPT ![r] = rec]
    BY <1>3 DEF IInv, TypeOK
  <2> HIDE DEF rec
  <2>3. Becomes(r, rec) /\ rec.pc \notin Owning
    BY <2>1, <2>2 DEF Becomes, Owning
  <2>4. HooksRemember
    BY <1>1, HooksStay DEF Files
  <2>5. /\ bound' \in BoundType /\ excused' \subseteq Workspaces /\ raced' \in BOOLEAN
        /\ UNCHANGED <<task, accepted, processed, cleared, runLock, raced>>
    BY <1>1, Typed DEF Files
  <2>6. QED
    BY <1>1, <1>3, <2>1, <2>3, <2>4, <2>5, RunnerMoves
<1>4. QED
  BY <1>2, <1>3 DEF ClaimWake

LEMMA WaitEndsKeeps ==
    ASSUME IInv, NEW r \in Runners, WaitEnds(r)
    PROVE  IInv'
<1>1. /\ run[r].pc = "try" /\ wake' \in {None, wake} /\ Expires
      /\ run' = [run EXCEPT ![r] = [Unborn EXCEPT !.pc = "leave"]]
      /\ UNCHANGED <<Files, runLock, raced, excused>>
  BY DEF WaitEnds
<1>2. bound' \in BoundType
  BY <1>1, BoundStays DEF IInv
<1>3. QED
  BY <1>1, <1>2, Typed, Ends DEF Files

LEMMA OwnKeeps ==
    ASSUME IInv, NEW r \in Runners, Own(r)
    PROVE  IInv'
<1>1. /\ run[r].pc = "own" /\ wake' = None /\ run' = [run EXCEPT ![r].pc = "list"]
      /\ UNCHANGED <<Files, runLock, bound, raced, excused>>
  BY DEF Own, Goto
<1> DEFINE rec == [run[r] EXCEPT !.pc = "list"]
<1>2. rec \in Runner /\ rec.pc = "list"
  <2>1. "list" \in PCs /\ run[r] \in Runner
    BY Typed DEF PCs, Owning
  <2>2. QED
    BY <2>1, Moved
<1>3. run' = [run EXCEPT ![r] = rec]
  BY <1>1 DEF IInv, TypeOK
<1> HIDE DEF rec
<1>4. Becomes(r, rec)
  BY <1>2, <1>3 DEF Becomes
<1>5. runLock' = r \/ raced'
  BY <1>1 DEF IInv, OwnerHoldsLock, Owning
<1>6. HooksRemember
  BY <1>1, HooksStay DEF Files
<1>7. /\ bound' \in BoundType /\ excused' \subseteq Workspaces /\ raced' \in BOOLEAN
      /\ UNCHANGED <<task, accepted, processed, cleared, runLock, raced>>
  BY <1>1, Typed DEF Files
<1>8. QED
  BY <1>1, <1>2, <1>4, <1>5, <1>6, <1>7, RunnerMoves

LEMMA ReleaseKeeps ==
    ASSUME IInv, NEW r \in Runners, Release(r)
    PROVE  IInv'
<1>1. run[r].pc = "release" /\ runLock' = None /\ UNCHANGED <<Files, wake, raced, bound, excused>>
  BY DEF Release
<1>2. PICK pc \in {"gone", "leave"} : run' = [run EXCEPT ![r] = [Unborn EXCEPT !.pc = pc]]
  BY GoneIs DEF Release
<1>3. run[r].pc \in Owning
  BY <1>1 DEF Owning
<1>4. QED
  BY <1>1, <1>2, <1>3, Typed, Ends DEF Files

LEMMA DiesKeeps ==
    ASSUME IInv, NEW r \in Runners, SuccessorFails(r) \/ Crash(r)
    PROVE  IInv'
<1>1. /\ run[r].pc # "gone"
      /\ Fault("spawn") \/ Fault("crash")
      /\ run' = [run EXCEPT ![r] = [Unborn EXCEPT !.pc = "gone"]] /\ excused' = Workspaces
      /\ UNCHANGED <<Locks, task, hook, accepted, processed, cleared>>
  BY GoneIs DEF SuccessorFails, Crash, Alive, Leaves
<1>2. bound' \in BoundType
  BY <1>1, BoundStays DEF IInv, Fault
<1>3. QED
  BY <1>1, <1>2, Typed, Ends DEF Locks

(* A process that has not run is the one that is started.                      *)
LEMMA Started ==
    ASSUME IInv, NEW others, NEW byHand \in BOOLEAN, StartRunner(others, byHand)
    PROVE  \E x \in Runners, rec \in Runner :
              /\ run[x].pc = "unborn" /\ rec.pc = "try"
              /\ run' = [others EXCEPT ![x] = rec] /\ excused' = {}
<1> DEFINE x == CHOOSE x \in Unstarted : TRUE
           rec == [Unborn EXCEPT !.pc = "try", !.manual = byHand]
<1>1. x \in Unstarted
  BY DEF StartRunner
<1>2. x \in Runners /\ run[x].pc = "unborn"
  BY <1>1 DEF Unstarted
<1>3. rec \in Runner /\ rec.pc = "try"
  <2>1. "try" \in PCs /\ Unborn \in Runner
    BY Records DEF PCs, Waiting
  <2>2. QED
    BY <2>1, MovedByHand
<1>4. run' = [others EXCEPT ![x] = rec] /\ excused' = {}
  BY DEF StartRunner
<1> HIDE DEF x, rec
<1>5. QED
  BY <1>2, <1>3, <1>4

LEMMA StartSuccessorKeeps ==
    ASSUME IInv, NEW r \in Runners, StartSuccessor(r)
    PROVE  IInv'
<1>1. /\ run[r].pc = "leave" /\ StartRunner([run EXCEPT ![r] = Gone], FALSE)
      /\ UNCHANGED <<Locks, Files, bound>>
  BY DEF StartSuccessor
<1>2. PICK x \in Runners, rec \in Runner :
        /\ run[x].pc = "unborn" /\ rec.pc = "try"
        /\ run' = [[run EXCEPT ![r] = Gone] EXCEPT ![x] = rec] /\ excused' = {}
  BY <1>1, Started
<1>3. /\ run' \in [Runners -> Runner] /\ run'[x] = rec /\ run'[r].pc = "gone" /\ x # r
      /\ \A s \in Runners \ {r, x} : run'[s] = run[s]
  BY <1>1, <1>2, Records DEF IInv, TypeOK
<1>4. ASSUME NEW s \in Runners
      PROVE  /\ run[s].pc = "gone" => run'[s].pc = "gone"
             /\ run[s].pc # "unborn" => run'[s].pc # "unborn"
             /\ Remembers(run'[s])
             /\ run'[s].pc = "pass" => run'[s] = run[s]
             /\ run'[s].pc = "break" => run'[s].seen # None /\ run[run'[s].seen].pc = "gone"
             /\ run'[s].pc \in Owning => runLock' = s \/ raced'
  <2>1. CASE s \in {r, x}
    BY <1>2, <1>3, <2>1 DEF Remembers, Owning
  <2>2. CASE s \notin {r, x}
    <3>1. run'[s] = run[s]
      BY <1>3, <2>2
    <3>2. Remembers(run[s])
      BY DEF IInv, InMemory, Remembers
    <3>3. run[s].pc = "break" => run[s].seen # None /\ run[run[s].seen].pc = "gone"
      BY DEF IInv, FoundDead
    <3>4. run[s].pc \in Owning => runLock' = s \/ raced'
      BY <1>1 DEF IInv, OwnerHoldsLock, Locks
    <3>5. QED
      BY <3>1, <3>2, <3>3, <3>4
  <2>3. QED
    BY <2>1, <2>2
<1>5. Lawful
  BY <1>3, <1>4 DEF Lawful
<1>6. Lossless /\ LeasesStay(None)
  BY <1>1, NothingWritten DEF IInv, Files
<1>7. NoTriggerLost' /\ HooksRemember
  BY <1>1, <1>6, TriggersStay, HooksStay DEF Files
<1>8. runLock' # None => run'[runLock'].pc # "unborn"
  BY <1>1, <1>3, <1>4 DEF IInv, FoundDead, TypeOK, Locks
<1>9. /\ runLock' \in Runners \cup {None} /\ wake' \in Runners \cup {None} /\ raced' \in BOOLEAN
      /\ bound' \in BoundType /\ accepted' \subseteq Hooks /\ processed' \subseteq Hooks
      /\ excused' \subseteq Workspaces
  BY <1>1, <1>2 DEF IInv, TypeOK, BoundType, Locks, Files
<1>10. QED
  BY <1>5, <1>6, <1>7, <1>8, <1>9, LawfulKeeps DEF Lossless

-----------------------------------------------------------------------------
(* Hooks                                                                     *)

(* Only the hook changes, or the tasks with it.                               *)
LEMMA HookMoves ==
    ASSUME IInv, NEW h \in Hooks, NEW rec \in Hook, hook' = [hook EXCEPT ![h] = rec],
           rec.pc = "spawn" /\ h \notin Manual => rec.mem # NoTask,
           task' \in [Workspaces -> Task \cup {NoTask}], LeasesStay(None), NoTriggerLost',
           bound' \in BoundType, accepted' \subseteq Hooks, excused' \subseteq Workspaces,
           UNCHANGED <<runLock, wake, run, raced, processed>>
    PROVE  IInv'
<1>1. HooksRemember
  BY DEF IInv, TypeOK, InMemory, HooksRemember
<1>2. ASSUME NEW s \in Runners
      PROVE  /\ Remembers(run[s])
             /\ run[s].pc = "break" => run[s].seen # None /\ run[run[s].seen].pc = "gone"
             /\ run[s].pc \in Owning => runLock = s \/ raced
  BY DEF IInv, InMemory, Remembers, FoundDead, OwnerHoldsLock
<1>3. Lawful
  BY <1>2 DEF Lawful, IInv, TypeOK
<1>4. runLock' # None => run'[runLock'].pc # "unborn"
  BY DEF IInv, FoundDead
<1>5. /\ runLock' \in Runners \cup {None} /\ wake' \in Runners \cup {None} /\ raced' \in BOOLEAN
      /\ processed' \subseteq Hooks
  BY DEF IInv, TypeOK
<1>6. QED
  BY <1>1, <1>3, <1>4, <1>5, LawfulKeeps

(* A trigger that comes leaves the others and the lease as they are.            *)
LEMMA UpsertKeeps ==
    ASSUME IInv, NEW h \in Hooks, Upsert(h)
    PROVE  IInv'
<1> DEFINE w == Home[h]
           new == IF task[w] = NoTask THEN FirstTask(h) ELSE Upserted(h, task[w])
<1>1. /\ task' = [task EXCEPT ![w] = new]
      /\ accepted' = accepted \cup Brought(h)
      /\ hook' = [hook EXCEPT ![h].pc = IF h \in Manual THEN "spawn" ELSE "claim"]
      /\ UNCHANGED <<runLock, wake, run, bound, processed, raced, cleared, excused>>
  BY DEF Upsert, IInv, TypeOK
<1>2. w \in Workspaces /\ Brought(h) \subseteq Hooks
  BY MachineSyncAssumption DEF Brought
<1>3. new \in Task /\ Brought(h) \subseteq new.triggers
         /\ (task[w] # NoTask => task[w].triggers \subseteq new.triggers)
  <2>1. CASE task[w] = NoTask
    <3>1. FirstTask(h) \in Task /\ FirstTask(h).triggers = Brought(h)
      BY <1>2 DEF FirstTask, Task
    <3>2. QED
      BY <2>1, <3>1
  <2>2. CASE task[w] # NoTask
    <3>1. task[w] \in Task
      BY <1>2, <2>2 DEF IInv, TypeOK
    <3>2. PICK s \in Runners \cup {None} : s = IF Leased(task[w]) THEN task[w].runner ELSE None
      BY <3>1 DEF Task
    <3>3. Upserted(h, task[w]) = [triggers |-> task[w].triggers \cup Brought(h),
              gen |-> task[w].gen + 1, runner |-> s, tried |-> task[w].tried]
      BY <3>2 DEF Upserted
    <3>4. QED
      BY <1>2, <2>2, <3>1, <3>3 DEF Task
  <2>3. QED
    BY <2>1, <2>2
<1>4. Leased(task[w]) => new.runner = task[w].runner
  BY DEF Leased, Upserted
<1> HIDE DEF new
<1>5. Lossless /\ task'[w] = new /\ \A v \in Workspaces \ {w} : task'[v] = task[v]
  BY <1>1, <1>2, <1>3, OneTask DEF IInv
<1>6. LeasesStay(None)
  <2>1. ASSUME NEW v \in Workspaces, NEW s \in Runners, Alive(s), Holds(v, s)
        PROVE  task'[v] # NoTask /\ task'[v].runner = s
    <3>1. CASE v = w
      BY <1>3, <1>4, <1>5, <2>1, <3>1, NoTaskAssumption DEF Holds, Leased
    <3>2. CASE v # w
      BY <1>5, <2>1, <3>2 DEF Holds
    <3>3. QED
      BY <3>1, <3>2
  <2>2. QED
    BY <1>1, <2>1 DEF LeasesStay, IInv, TypeOK
<1>7. NoTriggerLost'
  <2>1. ASSUME NEW g \in accepted'
        PROVE  g \in processed' \/ (task'[Home[g]] # NoTask /\ g \in task'[Home[g]].triggers)
    <3>1. CASE g \in accepted
      <4>1. Home[g] \in Workspaces
        BY <3>1, MachineSyncAssumption DEF IInv, TypeOK
      <4>2. g \in processed \/ (task[Home[g]] # NoTask /\ g \in task[Home[g]].triggers)
        BY <3>1 DEF IInv, NoTriggerLost
      <4>3. QED
        BY <1>1, <1>5, <4>1, <4>2 DEF Lossless
    <3>2. CASE g = h /\ h \in Brought(h)
      BY <1>3, <1>5, <3>2, NoTaskAssumption
    <3>3. QED
      BY <1>1, <2>1, <3>1, <3>2 DEF Brought
  <2>2. QED
    BY <2>1 DEF NoTriggerLost
<1>8. PICK pc \in {"spawn", "claim"} :
        /\ hook' = [hook EXCEPT ![h].pc = pc]
        /\ pc = "spawn" => h \in Manual
  BY <1>1
<1> DEFINE rec == [hook[h] EXCEPT !.pc = pc]
<1>9. hook' = [hook EXCEPT ![h] = rec] /\ rec \in Hook /\ rec.pc = pc
  BY <1>8 DEF IInv, TypeOK, Hook
<1> HIDE DEF rec
<1>10. bound' \in BoundType /\ accepted' \subseteq Hooks /\ excused' \subseteq Workspaces
  BY <1>1, <1>2 DEF IInv, TypeOK, BoundType
<1>11. QED
  BY <1>1, <1>5, <1>6, <1>7, <1>8, <1>9, <1>10, HookMoves DEF Lossless

(* A hook that ends, and at most ends a lease it should not.                    *)
LEMMA HookEnds ==
    ASSUME IInv, NEW h \in Hooks, hook' = [hook EXCEPT ![h] = Done],
           Lossless, LeasesStay(None), bound' \in BoundType, excused' \subseteq Workspaces,
           UNCHANGED <<runLock, wake, run, raced, accepted, processed>>
    PROVE  IInv'
<1>1. Done \in Hook /\ Done.pc # "spawn"
  BY Records
<1>2. NoTriggerLost' /\ accepted' \subseteq Hooks
  BY TriggersStay DEF IInv, TypeOK
<1>3. QED
  BY <1>1, <1>2, HookMoves DEF Lossless

LEMMA HookGivesUpKeeps ==
    ASSUME IInv, NEW h \in Hooks, UpsertRefused(h) \/ HookStops(h)
    PROVE  IInv'
<1>1. /\ hook' = [hook EXCEPT ![h] = Done]
      /\ Fault("contention") \/ Fault("crash")
      /\ excused' \in {excused, excused \cup {Home[h]}}
      /\ UNCHANGED <<task, runLock, wake, run, accepted, processed, raced, cleared>>
  BY DEF UpsertRefused, HookStops
<1>2. bound' \in BoundType
  BY <1>1, BoundStays DEF IInv, Fault
<1>3. Lossless /\ LeasesStay(None)
  BY <1>1, NothingWritten DEF IInv
<1>4. excused' \subseteq Workspaces
  BY <1>1, Typed, MachineSyncAssumption
<1>5. QED
  BY <1>1, <1>2, <1>3, <1>4, HookEnds

LEMMA SpawnFailsKeeps ==
    ASSUME IInv, NEW h \in Hooks, SpawnFails(h)
    PROVE  IInv'
<1>1. /\ hook[h].pc = "spawn" /\ h \notin Manual /\ Fault("spawn")
      /\ EndLease(Home[h], hook[h].mem, None)
      /\ hook' = [hook EXCEPT ![h] = Done] /\ excused' = excused \cup {Home[h]}
      /\ UNCHANGED <<runLock, wake, run, accepted, processed, raced>>
  BY DEF SpawnFails
<1>2. hook[h].mem \in Task
  BY <1>1 DEF IInv, TypeOK, InMemory, Hook
<1>3. Home[h] \in Workspaces
  BY MachineSyncAssumption
<1>4. Lossless /\ LeasesStay(None)
  BY <1>1, <1>2, <1>3, EndLeaseKeeps DEF IInv
<1>5. bound' \in BoundType
  BY <1>1, BoundStays DEF IInv, Fault
<1>6. excused' \subseteq Workspaces
  BY <1>1, <1>3, Typed
<1>7. QED
  BY <1>1, <1>4, <1>5, <1>6, HookEnds

LEMMA ClaimSpawnKeeps ==
    ASSUME IInv, NEW h \in Hooks, ClaimSpawn(h)
    PROVE  IInv'
<1> DEFINE w == Home[h]
<1>1. UNCHANGED <<runLock, wake, run, bound, accepted, processed, raced, cleared, excused>>
  BY DEF ClaimSpawn
<1>2. bound' \in BoundType /\ excused' \subseteq Workspaces /\ accepted' \subseteq Hooks
  BY <1>1, Typed DEF IInv, TypeOK
<1>3. CASE hook' = [hook EXCEPT ![h] = Done] /\ UNCHANGED task
  <2>1. Lossless /\ LeasesStay(None)
    BY <1>1, <1>3, NothingWritten DEF IInv
  <2>2. QED
    BY <1>1, <1>2, <1>3, <2>1, HookEnds
<1>4. ASSUME task[w] # NoTask, ~Leased(task[w]), task' = [task EXCEPT ![w].tried = TRUE],
             hook' = [hook EXCEPT ![h] = [pc |-> "spawn", mem |-> task'[w]]]
      PROVE  IInv'
  <2> DEFINE t == [task[w] EXCEPT !.tried = TRUE]
  <2>1. w \in Workspaces /\ task[w] \in Task
    BY <1>4, MachineSyncAssumption DEF IInv, TypeOK
  <2>2. t \in Task /\ t.triggers = task[w].triggers /\ t.runner = task[w].runner
    BY <2>1 DEF Task
  <2>3. task' = [task EXCEPT ![w] = t]
    BY <1>4, <2>1 DEF IInv, TypeOK
  <2> HIDE DEF t
  <2>4. Lossless /\ task'[w] = t /\ \A v \in Workspaces \ {w} : task'[v] = task[v]
    BY <2>1, <2>2, <2>3, OneTask DEF IInv
  <2>5. LeasesStay(None)
    BY <1>1, <2>2, <2>4, NoTaskAssumption DEF LeasesStay, Holds, IInv, TypeOK
  <2>6. [pc |-> "spawn", mem |-> t] \in Hook /\ t # NoTask
    BY <2>2, NoTaskAssumption DEF Hook
  <2>7. NoTriggerLost'
    BY <1>1, <2>4, TriggersStay
  <2>8. hook' = [hook EXCEPT ![h] = [pc |-> "spawn", mem |-> t]]
    BY <1>4, <2>4
  <2>9. QED
    BY <1>1, <1>2, <2>4, <2>5, <2>6, <2>7, <2>8, HookMoves DEF Lossless
<1>5. QED
  BY <1>3, <1>4, Zenon DEF ClaimSpawn

LEMMA SpawnKeeps ==
    ASSUME IInv, NEW h \in Hooks, Spawn(h)
    PROVE  IInv'
<1>1. /\ StartRunner(run, h \in Manual) /\ hook' = [hook EXCEPT ![h] = Done]
      /\ UNCHANGED <<task, runLock, wake, bound, accepted, processed, raced, cleared>>
  BY DEF Spawn
<1>2. PICK x \in Runners, rec \in Runner :
        /\ run[x].pc = "unborn" /\ rec.pc = "try"
        /\ run' = [run EXCEPT ![x] = rec] /\ excused' = {}
  <2>1. (h \in Manual) \in BOOLEAN
    OBVIOUS
  <2> DEFINE byHand == h \in Manual
  <2> HIDE DEF byHand
  <2>2. byHand \in BOOLEAN /\ StartRunner(run, byHand)
    BY <1>1, <2>1, Zenon DEF byHand
  <2>3. QED
    BY <2>2, Started
<1>3. HooksRemember
  BY <1>1, Records DEF HooksRemember, IInv, TypeOK, InMemory
<1>4. Becomes(x, rec) /\ rec.pc \notin Owning
  BY <1>2 DEF Becomes, Owning
<1>5. bound' \in BoundType /\ wake' \in Runners \cup {None} /\ raced' \in BOOLEAN
  BY <1>1, Typed
<1>6. QED
  BY <1>1, <1>2, <1>3, <1>4, <1>5, RunnerMoves

-----------------------------------------------------------------------------

LEMMA InitHolds == Init => IInv
<1> SUFFICES ASSUME Init PROVE IInv
  OBVIOUS
<1>1. TypeOK
  BY Records, MachineSyncAssumption DEF Init, TypeOK, Hook
<1>2. InMemory /\ FoundDead /\ OwnerHoldsLock /\ PassHoldsLease
  BY Records DEF Init, InMemory, FoundDead, OwnerHoldsLock, PassHoldsLease, Owning
<1>3. NoTriggerLost
  BY DEF Init, NoTriggerLost
<1>4. QED
  BY <1>1, <1>2, <1>3 DEF IInv

LEMMA StepKeeps == IInv /\ [Next]_vars => IInv'
<1> SUFFICES ASSUME IInv, [Next]_vars PROVE IInv'
  OBVIOUS
<1>1. CASE UNCHANGED vars
  BY <1>1 DEF vars, IInv, TypeOK, InMemory, FoundDead, NoTriggerLost, OwnerHoldsLock,
              PassHoldsLease, Alive
<1>2. ASSUME NEW h \in Hooks,
             Upsert(h) \/ UpsertRefused(h) \/ HookStops(h) \/ SpawnFails(h) \/ HookStep(h)
      PROVE  IInv'
  BY <1>2, UpsertKeeps, HookGivesUpKeeps, SpawnFailsKeeps, ClaimSpawnKeeps, SpawnKeeps
     DEF HookStep
<1>3. ASSUME NEW r \in Runners, RunnerStep(r)
      PROVE  IInv'
  BY <1>3, TryLockKeeps, BreakLockKeeps, ClaimWakeKeeps, OwnKeeps, ListKeeps, PruneKeeps,
     RecoverKeeps, LeaseKeeps, LeaseRefusedKeeps, CompleteKeeps, OwnerYieldsKeeps,
     PassFailsKeeps, ReleaseKeeps, StartSuccessorKeeps DEF RunnerStep
<1>4. ASSUME NEW r \in Runners, \/ WaitEnds(r) \/ PruneRefused(r) \/ RecoverFails(r)
                                \/ QuantumEnds(r) \/ SuccessorFails(r) \/ Crash(r)
      PROVE  IInv'
  BY <1>4, WaitEndsKeeps, PruneRefusedKeeps, RecoverFailsKeeps, QuantumEndsKeeps, DiesKeeps
<1>5. QED
  BY <1>1, <1>2, <1>3, <1>4, Zenon DEF Next

(* The inductive invariant of MachineSync: no stored trigger leaves the task   *)
(* file before it is delivered, an owner holds the lock of the machine unless   *)
(* locks were raced for, and a pass goes on under its lease unless that was      *)
(* ended by another.                                                         *)
THEOREM Invariant == Spec => []IInv
<1>1. Init => IInv
  BY InitHolds
<1>2. IInv /\ [Next]_vars => IInv'
  BY StepKeeps
<1>3. QED
  BY <1>1, <1>2, PTL DEF Spec

LEMMA SerialByRight == IInv => PassesAreSerial
<1> SUFFICES ASSUME IInv, NEW r \in Runners, NEW s \in Runners, r # s,
                    run[r].pc = "pass", run[s].pc = "pass"
             PROVE  raced /\ (run[r].ws = run[s].ws => run[r].ws \in cleared)
  BY DEF PassesAreSerial
<1>1. raced
  BY DEF IInv, OwnerHoldsLock, Owning
<1>2. ASSUME run[r].ws = run[s].ws
      PROVE  run[r].ws \in cleared
  BY <1>2 DEF IInv, PassHoldsLease
<1>3. QED
  BY <1>1, <1>2

(* Two passes of sync_task.go go on at once only after a stale lock has been   *)
(* removed over a new one, and of one workspace only after a lease was ended    *)
(* under a running pass.                                                     *)
THEOREM Serial == Spec => []PassesAreSerial
<1>1. IInv => PassesAreSerial
  BY SerialByRight
<1>2. QED
  BY <1>1, Invariant, PTL

=============================================================================
