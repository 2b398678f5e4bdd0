----------------------------- MODULE MachineSync -----------------------------
(***************************************************************************)
(* The background synchronization of the CLI (ae-cli/internal/hooks): a Git *)
(* hook leaves a trigger in the task file of its workspace and may start a   *)
(* detached runner.  A runner becomes the owner of the machine by creating   *)
(* one lock file, drains the tasks of every workspace, and goes away.  One   *)
(* more runner may wait for the lock, behind a wake file; the rest exit.     *)
(*                                                                         *)
(* A step is one system call on the run lock or the wake file, or one        *)
(* critical section of the lock of a task, which a process may also be       *)
(* refused.  A section is taken to be shorter than the 30 seconds after      *)
(* which that lock is broken, a pass shorter than the hour of its lease, and *)
(* process identifiers are not used again.                                   *)
(***************************************************************************)
EXTENDS Naturals, FiniteSets

CONSTANTS Workspaces,
          Hooks,       \* runs of a hook or of `ae-cli sync`
          Manual,      \* those of `ae-cli sync`
          Home,        \* the workspace of each
          Runners,     \* processes that synchronize
          None,        \* no process
          NoTask,      \* no task file
          FaultKinds,  \* what may go wrong
          Bounds       \* which hooks run, how much goes wrong and how many
                       \* contexts expire in a behaviour

ASSUME MachineSyncAssumption ==
    /\ Workspaces # {}
    /\ Manual \subseteq Hooks
    /\ Home \in [Hooks -> Workspaces]
    /\ None \notin Runners
    /\ FaultKinds \subseteq {"crash", "contention", "checkout", "pass", "spawn"}
    /\ Bounds \subseteq [hooks : SUBSET Hooks, faults : Nat, timeouts : Nat]

(* A task file without the texts of its failures.  runner: RunnerPID, set    *)
(* exactly while the status is running; tried: LastSpawnAttemptAt is set.       *)
Task == [triggers : SUBSET Hooks, gen : Nat, runner : Runners \cup {None}, tried : BOOLEAN]

ASSUME NoTaskAssumption == NoTask \notin Task

VARIABLES task,     \* the task file of each workspace
          runLock,  \* the process in machine-sync.run.lock
          wake,     \* the process in the wake file of the scope
          hook,     \* where each hook is
          run,      \* where each runner is
          bound,    \* what is left of the bounds
          accepted, processed, \* history: triggers that were stored, delivered
          raced,    \* history: a lock was removed that another had just created
          cleared,  \* history: workspaces that lost a lease while it was held
          excused   \* history: workspaces something went wrong with since the
                    \* last runner was started

vars == <<task, runLock, wake, hook, run, bound, accepted, processed, raced, cleared,
          excused>>

-----------------------------------------------------------------------------

Owning == {"own", "list", "each", "recover", "lease", "pass", "fail", "release"}

Waiting == {"try", "break", "claim"}

(* seen: the owner it found dead; queue: the tasks it has listed and not yet  *)
(* been through; ws, mine: the workspace it is at and its task in memory;     *)
(* runnable: the triggers the checkout can serve, all of them if empty;       *)
(* kept: whether some cannot be served; blocked: the generation each          *)
(* workspace failed at; err: the first error.                                *)
Runner == [pc : Owning \cup Waiting \cup {"unborn", "leave", "gone"},
           manual : BOOLEAN, waiting : BOOLEAN, seen : Runners \cup {None},
           queue : [Workspaces -> Task \cup {NoTask}], ws : Workspaces,
           mine : Task \cup {NoTask}, runnable : SUBSET Hooks, kept : BOOLEAN,
           blocked : [Workspaces -> Nat], progressed : BOOLEAN, late : BOOLEAN,
           err : {"none", "deadline", "other"}]

AnyWorkspace == CHOOSE w \in Workspaces : TRUE

Unborn == [pc |-> "unborn", manual |-> FALSE, waiting |-> FALSE, seen |-> None,
           queue |-> [w \in Workspaces |-> NoTask], ws |-> AnyWorkspace,
           mine |-> NoTask, runnable |-> {}, kept |-> FALSE,
           blocked |-> [w \in Workspaces |-> 0], progressed |-> FALSE, late |-> FALSE,
           err |-> "none"]

Gone == [Unborn EXCEPT !.pc = "gone"]

(* mem: the task a hook that is about to spawn holds in memory.              *)
Hook == [pc : {"start", "claim", "spawn", "done"}, mem : Task \cup {NoTask}]

Done == [pc |-> "done", mem |-> NoTask]

(* syncTaskRunnerAlive                                                       *)
Alive(p) == p # None /\ run[p].pc \notin {"unborn", "gone"}

(* HasActiveLease                                                            *)
Leased(t) == t # NoTask /\ Alive(t.runner)

(* Mutant: a lock is stale whoever holds it.                                 *)
AnyLockIsStale(p) == p # None

(* machineSyncRunLockIsStale                                                 *)
Stale(p) == p # None /\ ~Alive(p)

Fault(kind) ==
    /\ kind \in FaultKinds
    /\ bound.faults > 0 /\ bound' = [bound EXCEPT !.faults = @ - 1]

Expires == bound.timeouts > 0 /\ bound' = [bound EXCEPT !.timeouts = @ - 1]

Goto(r, pc) == run' = [run EXCEPT ![r].pc = pc]

-----------------------------------------------------------------------------
(* Hooks                                                                     *)

Brought(h) == IF h \in Manual THEN {} ELSE {h}

FirstTask(h) == [triggers |-> Brought(h), gen |-> 1, runner |-> None, tried |-> FALSE]

(* Mutant: the task of the hook replaces the one in the file.                *)
Replaced(h, t) == [FirstTask(h) EXCEPT !.gen = t.gen + 1]

(* UpsertPendingSyncTask on a file that is there: triggers are merged by      *)
(* event, the request has a generation of its own, a lease stays if active.  *)
Upserted(h, t) ==
    [triggers |-> t.triggers \cup Brought(h), gen |-> t.gen + 1,
     runner |-> IF Leased(t) THEN t.runner ELSE None, tried |-> t.tried]

Upsert(h) ==
    LET w == Home[h] IN
    /\ hook[h].pc = "start" /\ h \in bound.hooks
    /\ task' = [task EXCEPT ![w] = IF @ = NoTask THEN FirstTask(h) ELSE Upserted(h, @)]
    /\ accepted' = accepted \cup Brought(h)
    /\ hook' = [hook EXCEPT ![h].pc = IF h \in Manual THEN "spawn" ELSE "claim"]
    /\ UNCHANGED <<runLock, wake, run, bound, processed, raced, cleared, excused>>

(* The lock of the task was not free in a tenth of a second: the trigger is   *)
(* not stored.                                                               *)
UpsertRefused(h) ==
    /\ hook[h].pc = "start" /\ h \in bound.hooks
    /\ Fault("contention")
    /\ hook' = [hook EXCEPT ![h] = Done]
    /\ UNCHANGED <<task, runLock, wake, run, accepted, processed, raced, cleared,
                   excused>>

(* TryClaimSyncTaskSpawn: nobody is started for a workspace that has a        *)
(* runner, or had an attempt that may be younger than the cooldown.           *)
ClaimSpawn(h) ==
    LET w == Home[h]
        t == task[w]
    IN  /\ hook[h].pc = "claim"
        /\ \/ /\ t # NoTask /\ ~Leased(t)
              /\ task' = [task EXCEPT ![w].tried = TRUE]
              /\ hook' = [hook EXCEPT ![h] = [pc |-> "spawn", mem |-> task'[w]]]
           \/ /\ t # NoTask => Leased(t) \/ t.tried
              /\ hook' = [hook EXCEPT ![h] = Done]
              /\ UNCHANGED task
        /\ UNCHANGED <<runLock, wake, run, bound, accepted, processed, raced, cleared,
                       excused>>

(* The hook is killed, or the claim is refused, after the trigger is stored. *)
HookStops(h) ==
    /\ \/ hook[h].pc = "claim" /\ Fault("contention")
       \/ hook[h].pc \in {"claim", "spawn"} /\ Fault("crash")
    /\ hook' = [hook EXCEPT ![h] = Done]
    /\ excused' = excused \cup {Home[h]}
    /\ UNCHANGED <<task, runLock, wake, run, accepted, processed, raced, cleared>>

Unstarted == {r \in Runners : run[r].pc = "unborn"}

(* A process is started; what it finds in the files from now on is its duty.  *)
StartRunner(others, byHand) ==
    LET r == CHOOSE x \in Unstarted : TRUE IN
    /\ Unstarted # {}
    /\ run' = [others EXCEPT ![r] = [Unborn EXCEPT !.pc = "try", !.manual = byHand]]
    /\ excused' = {}

(* spawnBackgroundSyncRunner; `ae-cli sync` is its own runner.               *)
Spawn(h) ==
    /\ hook[h].pc = "spawn"
    /\ StartRunner(run, h \in Manual)
    /\ hook' = [hook EXCEPT ![h] = Done]
    /\ UNCHANGED <<task, runLock, wake, bound, accepted, processed, raced, cleared>>

(* MarkSyncTaskFailure and MarkSyncTaskYielded of a process that holds mem    *)
(* in memory: the lease ends, unless it is another's and alive.  A writer     *)
(* that holds no lease in memory ends whatever lease it finds, and one that   *)
(* finds no file writes its own.                                             *)
EndLease(w, mem, writer) ==
    LET latest == IF task[w] # NoTask THEN task[w] ELSE mem
        others == /\ latest.runner # None /\ mem.runner # None
                  /\ latest.runner # mem.runner /\ Leased(latest)
    IN  IF others THEN UNCHANGED <<task, cleared>>
        ELSE /\ task' = [task EXCEPT ![w] = [latest EXCEPT !.runner = None]]
             /\ cleared' = IF Leased(latest) /\ latest.runner # writer THEN cleared \cup {w}
                                                                     ELSE cleared

SpawnFails(h) ==
    /\ hook[h].pc = "spawn" /\ h \notin Manual
    /\ Fault("spawn")
    /\ EndLease(Home[h], hook[h].mem, None)
    /\ hook' = [hook EXCEPT ![h] = Done]
    /\ excused' = excused \cup {Home[h]}
    /\ UNCHANGED <<runLock, wake, run, accepted, processed, raced>>

-----------------------------------------------------------------------------
(* Becoming the owner of the machine: withMachineSyncRunLock                 *)

Files == <<task, hook, accepted, processed, cleared>>

(* The lock is created if it is not there; otherwise its owner is looked at.  *)
TryLock(r) ==
    /\ run[r].pc = "try"
    /\ \/ /\ runLock = None
          /\ runLock' = r
          /\ run' = [run EXCEPT ![r].pc = "own", ![r].waiting = FALSE]
       \/ /\ Stale(runLock)
          /\ run' = [run EXCEPT ![r].pc = "break", ![r].seen = runLock]
          /\ UNCHANGED runLock
       \/ /\ runLock # None /\ ~Stale(runLock) /\ ~run[r].waiting
          /\ Goto(r, "claim")
          /\ UNCHANGED runLock
    /\ UNCHANGED <<Files, wake, bound, raced, excused>>

(* The removal does not look again: the lock may be another's by now.         *)
BreakLock(r) ==
    /\ run[r].pc = "break"
    /\ raced' = (raced \/ (runLock # run[r].seen /\ Alive(runLock)))
    /\ runLock' = None
    /\ run' = [run EXCEPT ![r].pc = "try", ![r].seen = None]
    /\ UNCHANGED <<Files, wake, bound, excused>>

Leaves(r) == run' = [run EXCEPT ![r] = Gone]

(* claimMachineSyncWakeRequest: one runner waits.  The file of a dead one is     *)
(* removed and the claim tried once more; both are taken as one step.          *)
ClaimWake(r) ==
    /\ run[r].pc = "claim"
    /\ \/ ~Alive(wake) /\ wake' = r
          /\ run' = [run EXCEPT ![r].pc = "try", ![r].waiting = TRUE]
       \/ Alive(wake) /\ Leaves(r) /\ UNCHANGED wake
    /\ UNCHANGED <<Files, runLock, bound, raced, excused>>

(* The ten minutes of a detached runner are over while it waits; `ae-cli      *)
(* sync` waits without limit.  releaseMachineSyncWakeRequest.                *)
WaitEnds(r) ==
    /\ run[r].pc = "try" /\ run[r].waiting /\ ~run[r].manual
    /\ Expires
    /\ wake' = IF wake = r THEN None ELSE wake
    /\ run' = [run EXCEPT ![r] = [Unborn EXCEPT !.pc = "leave"]]
    /\ UNCHANGED <<Files, runLock, raced, excused>>

(* Mutant: the owner leaves the wake file alone.                             *)
OwnKeepsWake(r) ==
    /\ run[r].pc = "own"
    /\ Goto(r, "list")
    /\ UNCHANGED <<Files, runLock, wake, bound, raced, excused>>

(* Before it looks at the tasks the owner removes the wake file: whoever      *)
(* comes later waits.                                                        *)
Own(r) ==
    /\ run[r].pc = "own"
    /\ wake' = None
    /\ Goto(r, "list")
    /\ UNCHANGED <<Files, runLock, bound, raced, excused>>

-----------------------------------------------------------------------------
(* Draining: drainPendingSyncTasks and runPendingSyncWorkspace               *)

Locks == <<runLock, wake, raced>>

(* ListSyncTasks, without the workspaces that failed and were not requested    *)
(* again.  Each file is read for itself; only its own generation matters.     *)
List(r) ==
    LET listed == [w \in Workspaces |->
                     IF task[w] # NoTask /\ run[r].blocked[w] < task[w].gen THEN task[w]
                                                                           ELSE NoTask]
        empty == \A w \in Workspaces : listed[w] = NoTask
    IN  /\ run[r].pc = "list"
        /\ run' = [run EXCEPT ![r].queue = listed, ![r].progressed = FALSE,
                              ![r].pc = IF empty THEN "release" ELSE "each"]
        /\ UNCHANGED <<Locks, Files, bound, excused>>

(* The runner is through with its workspace; a round that got nowhere is the   *)
(* last.                                                                     *)
Through(r, fields) ==
    LET rest == [fields.queue EXCEPT ![fields.ws] = NoTask] IN
    run' = [run EXCEPT ![r] =
             [fields EXCEPT !.pc = IF \E w \in Workspaces : rest[w] # NoTask THEN "each"
                                   ELSE IF fields.progressed THEN "list" ELSE "release",
                            !.queue = rest, !.ws = AnyWorkspace, !.mine = NoTask,
                            !.runnable = {}, !.kept = FALSE]]

Succeeds(r) == Through(r, [run[r] EXCEPT !.progressed = TRUE])

(* It is not tried again at the generation it was known with.                *)
Blocked(r, w, e) ==
    Through(r, [run[r] EXCEPT !.ws = w, !.blocked[w] = run[r].queue[w].gen,
                              !.err = IF @ = "none" THEN e ELSE @])

(* pruneExpiredV2SyncTriggers, of the next workspace of the queue: the file is *)
(* read again, and replaces the task that was listed.  A trigger is taken to  *)
(* be younger than its retention.                                            *)
Prune(r) ==
    /\ run[r].pc = "each"
    /\ \E w \in Workspaces :
         /\ run[r].queue[w] # NoTask
         /\ IF task[w] = NoTask
              THEN Through(r, [run[r] EXCEPT !.ws = w, !.progressed = TRUE])
              ELSE run' = [run EXCEPT ![r].pc = "recover", ![r].ws = w, ![r].mine = task[w],
                                      ![r].queue = [@ EXCEPT ![w] = task[w]]]
    /\ UNCHANGED <<Locks, Files, bound, excused>>

(* The lock of the task is not free; for the mark of the failure it may be.   *)
PruneRefused(r) ==
    /\ run[r].pc = "each"
    /\ Fault("contention")
    /\ \E w \in Workspaces :
         /\ run[r].queue[w] # NoTask
         /\ EndLease(w, run[r].queue[w], r) \/ UNCHANGED <<task, cleared>>
         /\ Blocked(r, w, "other")
         /\ excused' = excused \cup {w}
    /\ UNCHANGED <<Locks, hook, accepted, processed>>

(* executionContextForSyncTask, of the task in memory, then LoadSyncTask: the  *)
(* checkout serves every trigger of the task or some; the file is read again. *)
Recover(r) ==
    LET w == run[r].ws
        triggers == run[r].mine.triggers
    IN  /\ run[r].pc = "recover"
        /\ \E served \in SUBSET triggers :
             /\ \/ served = triggers /\ UNCHANGED <<bound, excused>>
                \/ /\ served \notin {triggers, {}}
                   /\ Fault("checkout")
                   /\ excused' = excused \cup {w}
             /\ IF task[w] = NoTask THEN Succeeds(r)
                ELSE run' = [run EXCEPT ![r].pc = "lease", ![r].mine = task[w],
                                        ![r].runnable = served, ![r].kept = served # triggers]
        /\ UNCHANGED <<Locks, task, hook, accepted, processed, cleared>>

(* No trigger can be served, or the checkout is not there.                   *)
RecoverFails(r) ==
    LET w == run[r].ws IN
    /\ run[r].pc = "recover"
    /\ Fault("checkout")
    /\ EndLease(w, run[r].mine, r)
    /\ Blocked(r, w, "other")
    /\ excused' = excused \cup {w}
    /\ UNCHANGED <<Locks, hook, accepted, processed>>

(* TryAcquireSyncTaskLease, and what of the task the pass is given.          *)
Lease(r) ==
    LET w == run[r].ws
        latest == IF task[w] # NoTask THEN task[w] ELSE run[r].mine
        mine == [latest EXCEPT !.runner = r]
        runnable == run[r].runnable
    IN  /\ run[r].pc = "lease" /\ ~Leased(latest)
        /\ task' = [task EXCEPT ![w] = mine]
        /\ run' = [run EXCEPT ![r].pc = "pass",
                     ![r].mine = IF runnable = {} THEN mine
                                 ELSE [mine EXCEPT !.triggers = @ \cap runnable]]
        /\ UNCHANGED <<Locks, hook, accepted, processed, cleared, bound, excused>>

(* ErrSyncTaskAlreadyRunning, from a lease or from the lock of the task.      *)
LeaseRefused(r) ==
    LET w == run[r].ws
        latest == IF task[w] # NoTask THEN task[w] ELSE run[r].mine
    IN  /\ run[r].pc = "lease"
        /\ \/ Leased(latest) /\ UNCHANGED bound
           \/ Fault("contention")
        /\ Blocked(r, run[r].ws, "other")
        /\ excused' = excused \cup {w}
        /\ UNCHANGED <<Locks, task, hook, accepted, processed, cleared>>

(* CompleteSyncTaskPass after a pass that delivered its triggers: what came     *)
(* meanwhile stays for another pass of the same runner, an idle task is        *)
(* removed.  A file that is no longer there is not idle.                      *)
Complete(r) ==
    LET w == run[r].ws
        t == task[w]
        mine == run[r].mine
        rest == [t EXCEPT !.triggers = @ \ mine.triggers, !.runner = None]
        more == t # NoTask /\ (rest.triggers # {} \/ t.gen > mine.gen)
        idle == t # NoTask /\ ~more /\ ~run[r].kept
    IN  /\ run[r].pc = "pass"
        /\ processed' = processed \cup mine.triggers
        /\ IF t # NoTask /\ t.runner # r
             THEN /\ Blocked(r, w, "other")
                  /\ excused' = excused \cup {w}
                  /\ UNCHANGED task
             ELSE /\ task' = [task EXCEPT ![w] = IF more THEN rest ELSE NoTask]
                  /\ IF idle THEN Succeeds(r)
                     ELSE run' = [run EXCEPT ![r].pc = IF run[r].kept THEN "fail" ELSE "recover",
                                             ![r].mine = IF more THEN rest ELSE mine]
                  /\ UNCHANGED excused
        /\ UNCHANGED <<Locks, hook, bound, accepted, cleared>>

(* The five minutes of the workspace are over, not those of the runner.       *)
QuantumEnds(r) ==
    /\ run[r].pc = "pass" /\ ~run[r].late
    /\ Expires
    /\ EndLease(run[r].ws, run[r].mine, r)
    /\ Succeeds(r)
    /\ UNCHANGED <<Locks, hook, accepted, processed, excused>>

(* The ten minutes of the runner are over: every pass from now on yields.      *)
(* The error of an earlier workspace hides the deadline.                      *)
OwnerYields(r) ==
    LET w == run[r].ws IN
    /\ run[r].pc = "pass" /\ ~run[r].manual
    /\ IF run[r].late THEN UNCHANGED bound
       ELSE Expires
    /\ EndLease(w, run[r].mine, r)
    /\ Through(r, [run[r] EXCEPT !.late = TRUE, !.blocked[w] = run[r].queue[w].gen,
                                 !.err = IF @ = "none" THEN "deadline" ELSE @])
    /\ excused' = IF run[r].err = "other" THEN excused \cup {w} ELSE excused
    /\ UNCHANGED <<Locks, hook, accepted, processed>>

(* The pass fails; or a mark is refused and the lease stays; or some of the    *)
(* triggers could not be served.                                             *)
PassFails(r) ==
    LET w == run[r].ws IN
    /\ \/ run[r].pc = "pass" /\ Fault("pass") /\ EndLease(w, run[r].mine, r)
       \/ run[r].pc \in {"pass", "fail"} /\ Fault("contention") /\ UNCHANGED <<task, cleared>>
       \/ run[r].pc = "fail" /\ UNCHANGED bound /\ EndLease(w, run[r].mine, r)
    /\ Blocked(r, run[r].ws, "other")
    /\ excused' = excused \cup {w}
    /\ UNCHANGED <<Locks, hook, accepted, processed>>

-----------------------------------------------------------------------------
(* The end of a runner                                                       *)

(* The deferred removal takes whatever lock is there.  A detached runner whose *)
(* first error is the deadline goes on to start a successor.                  *)
Release(r) ==
    /\ run[r].pc = "release"
    /\ runLock' = None
    /\ run' = [run EXCEPT ![r] =
                 IF run[r].err = "deadline" THEN [Unborn EXCEPT !.pc = "leave"] ELSE Gone]
    /\ UNCHANGED <<Files, wake, raced, bound, excused>>

(* RunDetachedPendingSyncTask                                                *)
StartSuccessor(r) ==
    /\ run[r].pc = "leave"
    /\ StartRunner([run EXCEPT ![r] = Gone], FALSE)
    /\ UNCHANGED <<Locks, Files, bound>>

SuccessorFails(r) ==
    /\ run[r].pc = "leave"
    /\ Fault("spawn")
    /\ Leaves(r)
    /\ excused' = Workspaces
    /\ UNCHANGED <<Locks, task, hook, accepted, processed, cleared>>

(* The process is killed: its files stay as they are.                        *)
Crash(r) ==
    /\ Alive(r)
    /\ Fault("crash")
    /\ Leaves(r)
    /\ excused' = Workspaces
    /\ UNCHANGED <<Locks, task, hook, accepted, processed, cleared>>

-----------------------------------------------------------------------------

Init ==
    /\ task = [w \in Workspaces |-> NoTask]
    /\ runLock = None /\ wake = None
    /\ hook = [h \in Hooks |-> [pc |-> "start", mem |-> NoTask]]
    /\ run = [r \in Runners |-> Unborn]
    /\ bound \in Bounds
    /\ accepted = {} /\ processed = {}
    /\ raced = FALSE /\ cleared = {} /\ excused = {}

HookStep(h) == ClaimSpawn(h) \/ Spawn(h)

RunnerStep(r) ==
    \/ TryLock(r) \/ BreakLock(r) \/ ClaimWake(r) \/ Own(r)
    \/ List(r) \/ Prune(r) \/ Recover(r) \/ Lease(r) \/ LeaseRefused(r)
    \/ Complete(r) \/ OwnerYields(r) \/ PassFails(r)
    \/ Release(r) \/ StartSuccessor(r)

Next ==
    \/ \E h \in Hooks : \/ Upsert(h) \/ UpsertRefused(h) \/ HookStops(h) \/ SpawnFails(h)
                        \/ HookStep(h)
    \/ \E r \in Runners : \/ WaitEnds(r) \/ PruneRefused(r) \/ RecoverFails(r) \/ QuantumEnds(r)
                          \/ SuccessorFails(r) \/ Crash(r) \/ RunnerStep(r)

Spec == Init /\ [][Next]_vars

(* The system schedules a process that can run; nothing else is promised.     *)
FairSpec ==
    /\ Spec
    /\ \A h \in Hooks : WF_vars(HookStep(h))
    /\ \A r \in Runners : WF_vars(RunnerStep(r))

-----------------------------------------------------------------------------

TypeOK ==
    /\ task \in [Workspaces -> Task \cup {NoTask}]
    /\ runLock \in Runners \cup {None} /\ wake \in Runners \cup {None}
    /\ hook \in [Hooks -> Hook]
    /\ run \in [Runners -> Runner]
    /\ bound \in [hooks : SUBSET Hooks, faults : Nat, timeouts : Nat]
    /\ accepted \subseteq Hooks /\ processed \subseteq Hooks
    /\ raced \in BOOLEAN /\ cleared \subseteq Workspaces /\ excused \subseteq Workspaces

(* A trigger that a hook has stored is delivered or still in the task of its   *)
(* workspace, whoever rewrites the file: hooks and runners do, each from a     *)
(* copy in memory.                                                           *)
NoTriggerLost ==
    \A h \in accepted :
        h \in processed \/ (task[Home[h]] # NoTask /\ h \in task[Home[h]].triggers)

(* An owner holds the lock, unless locks have been raced for.                 *)
OwnerHoldsLock == \A r \in Runners : run[r].pc \in Owning => runLock = r \/ raced

(* A pass goes on under the lease of its workspace, unless it was cleared.     *)
PassHoldsLease ==
    \A r \in Runners : run[r].pc = "pass" =>
        LET w == run[r].ws IN (task[w] # NoTask /\ task[w].runner = r) \/ w \in cleared

(* A process that was found dead stays dead, and a lock names one that lives   *)
(* or has lived.                                                             *)
FoundDead ==
    /\ runLock # None => run[runLock].pc # "unborn"
    /\ \A r \in Runners :
         run[r].pc = "break" => run[r].seen # None /\ run[run[r].seen].pc = "gone"

(* What a process is about to write from memory is a task.                    *)
InMemory ==
    /\ \A h \in Hooks \ Manual : hook[h].pc = "spawn" => hook[h].mem # NoTask
    /\ \A r \in Runners :
         run[r].pc \in {"recover", "lease", "pass", "fail"} =>
             run[r].mine # NoTask /\ run[r].queue[run[r].ws] # NoTask

(* The inductive invariant.  Of its parts NoTriggerLost is what hooks rely on; *)
(* the others say by what right an owner drains and a pass delivers.           *)
IInv ==
    /\ TypeOK /\ InMemory /\ FoundDead
    /\ NoTriggerLost /\ OwnerHoldsLock /\ PassHoldsLease

(* Two passes go on at once only if a process that had found a dead owner's    *)
(* lock removed the lock of a live one instead, and they are of one workspace  *)
(* only if, besides, somebody ended the lease of a running pass.              *)
PassesAreSerial ==
    \A r, s \in Runners :
        r # s /\ run[r].pc = "pass" /\ run[s].pc = "pass" =>
            raced /\ (run[r].ws = run[s].ws => run[r].ws \in cleared)

(* Without another hook every stored trigger is delivered in the end, unless   *)
(* something went wrong with its workspace after the last runner was started:  *)
(* then it waits in the task.  No wakeup is lost between the hooks, the owner,  *)
(* the waiter and their deadlines.                                            *)
WorkIsDone ==
    <>[](\A h \in accepted :
            h \in processed \/ (/\ Home[h] \in excused /\ task[Home[h]] # NoTask
                                /\ h \in task[Home[h]].triggers))
=============================================================================
