----------------------- MODULE RelationshipOperation -----------------------
(***************************************************************************)
(* The durable Relationship Operations of backend/internal/relayplanning:  *)
(* a reviewed plan that rewrites the Relay's relationships of one or more  *)
(* group Mappings, step by step, and promotes the Mappings' baselines once *)
(* every step is read back; an interrupted Operation is resumed towards    *)
(* its target or restored to its baseline.  Executors (the goroutines of a *)
(* Confirm or of a Recovery Confirm) run it on any instance, beside each   *)
(* other and across restarts.                                              *)
(*                                                                         *)
(* One relationship per Mapping stands for the steps of that Mapping: its  *)
(* value in the Relay is the key of the Operation whose target it holds,   *)
(* or None for what there was at first.  A Mapping's content is the key of *)
(* the Operation whose target its baseline records.  A Mapping exists      *)
(* before it is planned (ExecuteReplan).  The reviews a user makes before  *)
(* a Confirm only refuse it; a Confirm that is refused is not taken.       *)
(***************************************************************************)
EXTENDS Naturals, FiniteSets

CONSTANTS Mappings,     \* relay_group_mappings
          Keys,         \* operation keys, one for each reviewed plan
          Plans,        \* what may have been reviewed: primary, maps, restorable
          Executors,    \* goroutines
          MaxAttempts,  \* bound: attempts of an Operation
          Faults,       \* which of AllFaults happen
          MaxFaults,    \* bound: how many happen
          None          \* no key

AllFaults == {"database", "relay", "missing", "crash", "reply"}

ASSUME RelationshipOperationAssumption ==
    /\ Plans \subseteq [primary : Mappings, maps : SUBSET Mappings, restorable : BOOLEAN]
    /\ \A p \in Plans : p.primary \in p.maps
    /\ MaxAttempts \in Nat \ {0}
    /\ MaxFaults \in Nat
    /\ Faults \subseteq AllFaults
    /\ None \notin Keys

VARIABLES mapping,   \* baseline_revision and content of each Mapping
          relay,     \* the external relationship of each Mapping
          op,        \* relationship_operations, with owners, steps and attempts
          exec,      \* what each executor holds
          down,      \* an instance is starting
          faulted    \* how many faults there were

vars == <<mapping, relay, op, exec, down, faulted>>

-----------------------------------------------------------------------------

Values == Keys \cup {None}

Revisions == Nat

Busy == {"applying", "resuming", "restoring"}

Closed == {"applied", "restored"}

Lifecycles == Busy \cup Closed \cup {"none", "interrupted", "blocked_external"}

(* latest_verified_effect is the value that was read back.                   *)
Step == [state : {"planned", "dispatched", "verified", "failed", "blocked"}, effect : Values]

(* old: the attempt started longer ago than budget and margin.  Not stored:  *)
(* fresh, the plan and the captured revisions were those of the moment the   *)
(* Operation began; lost, the reply of a terminal commit or of an            *)
(* interruption was lost; promotions.                                        *)
Operation == [plan : Plans, lifecycle : Lifecycles, owns : BOOLEAN,
              captured : [Mappings -> Revisions], base : [Mappings -> Values],
              step : [Mappings -> Step], attempts : 0..MaxAttempts, old : BOOLEAN,
              fresh : BOOLEAN, lost : BOOLEAN, promotions : 0..2]

Unwritten(p) == [plan |-> p, lifecycle |-> "none", owns |-> FALSE,
                 captured |-> [m \in Mappings |-> 0], base |-> [m \in Mappings |-> None],
                 step |-> [m \in Mappings |-> [state |-> "planned", effect |-> None]],
                 attempts |-> 0, old |-> FALSE, fresh |-> TRUE, lost |-> FALSE, promotions |-> 0]

(* Where an executor stands: at a database or Relay call it is about to make. *)
Pcs == {"idle", "preview", "capture", "begin", "dispatch", "write", "converge", "record",
        "close", "note", "leave", "start", "preflight", "fail", "block"}

Directions == {"initial", "resume", "restore"}

(* seen: the revisions its last compare-and-swap expects.                    *)
Executor == [pc : Pcs, key : Values, dir : Directions, todo : SUBSET Mappings,
             at : SUBSET Mappings, trouble : BOOLEAN, seen : [Mappings -> Revisions],
             base : [Mappings -> Values], captured : [Mappings -> Revisions]]

Idle == [pc |-> "idle", key |-> None, dir |-> "initial", todo |-> {}, at |-> {},
         trouble |-> FALSE, seen |-> [m \in Mappings |-> 0],
         base |-> [m \in Mappings |-> None], captured |-> [m \in Mappings |-> 0]]

TypeOK ==
    /\ mapping \in [Mappings -> [revision : Revisions, content : Values]]
    /\ relay \in [Mappings -> Values]
    /\ op \in [Keys -> Operation]
    /\ exec \in [Executors -> Executor]
    /\ down \in BOOLEAN
    /\ faulted \in 0..MaxFaults

Init ==
    /\ mapping = [m \in Mappings |-> [revision |-> 1, content |-> None]]
    /\ relay = [m \in Mappings |-> None]
    /\ op \in [Keys -> {Unwritten(p) : p \in Plans}]
    /\ exec = [e \in Executors |-> Idle]
    /\ down = FALSE
    /\ faulted = 0

-----------------------------------------------------------------------------

Maps(k) == op[k].plan.maps

(* Mutant: only the primary Mapping gets an owner.                           *)
OwnsPrimary(k, m) == op[k].owns /\ m = op[k].plan.primary

(* The partial unique index on active owners.                                *)
Owns(k, m) == op[k].owns /\ m \in Maps(k)

Owned(m) == \E k \in Keys : Owns(k, m)

(* Mutant: baselines are promoted without compare-and-swap.                  *)
AtAnyRevisions(k, revisions) == TRUE

AtRevisions(k, revisions) == \A m \in Maps(k) : mapping[m].revision = revisions[m]

AtPrimary(k, revisions) ==
    mapping[op[k].plan.primary].revision = revisions[op[k].plan.primary]

(* Mutant: a restore converges to the target.                                *)
WantTarget(k, dir, m) == k

(* The value a step is expected to have: of its target or of its baseline.   *)
Want(k, dir, m) == IF dir = "restore" THEN op[k].base[m] ELSE k

AllVerified(k, dir) ==
    \A m \in Maps(k) : op[k].step[m] = [state |-> "verified", effect |-> Want(k, dir, m)]

Supports(k, dir) == dir = "resume" \/ op[k].plan.restorable

(* Mutant: the Operation gets the status of its attempt.                     *)
LifecycleOfAttempt(k, l) == [op EXCEPT ![k].lifecycle = IF l = "interrupted" THEN "failed" ELSE l]

Lifecycle(k, l) == [op EXCEPT ![k].lifecycle = l]

(* Mutant: ownership is not released.                                        *)
Unreleased(k, l) == [op EXCEPT ![k].lifecycle = l]

Terminal(k, l) == [op EXCEPT ![k].lifecycle = l, ![k].owns = FALSE]

Promoted(k) == [m \in Mappings |-> IF m \in Maps(k)
                                   THEN [revision |-> mapping[m].revision + 1, content |-> k]
                                   ELSE mapping[m]]

Goes(e, pc) == exec' = [exec EXCEPT ![e].pc = pc]

Stops(e) == exec' = [exec EXCEPT ![e] = Idle]

(* Where the return of an error leads: the deferred interrupt of an initial  *)
(* execution, the failure of a recovery attempt, or out.                     *)
OnError(x) ==
    CASE x.pc \in {"dispatch", "write", "note"}        -> "leave"
      [] x.dir = "initial" /\ x.pc = "close"           -> "leave"
      [] x.dir = "initial" /\ x.pc \in {"converge", "record"} -> "note"
      [] x.dir # "initial" /\ x.pc \in {"preflight", "converge", "record", "close"} -> "fail"
      [] OTHER -> "idle"

Errs(e) ==
    IF OnError(exec[e]) = "idle" THEN Stops(e)
    ELSE exec' = [exec EXCEPT ![e].pc = OnError(exec[e]), ![e].at = {}, ![e].todo = {}]

-----------------------------------------------------------------------------
(* Confirm of a Replan.                                                      *)

(* The primary Mapping is read, and with it the revision to be promoted.     *)
Confirm(e, k) ==
    /\ exec[e].pc = "idle"
    /\ exec' = [exec EXCEPT ![e] =
                   [Idle EXCEPT !.pc = "preview", !.key = k,
                                !.seen[op[k].plan.primary] = mapping[op[k].plan.primary].revision]]
    /\ UNCHANGED <<mapping, relay, op, down>>

(* The plan is made from what the Relay holds.                               *)
Preview(e) ==
    LET k == exec[e].key IN
    /\ exec[e].pc = "preview"
    /\ exec' = [exec EXCEPT ![e].pc = "capture",
                            ![e].base = [m \in Mappings |-> IF m \in Maps(k) THEN relay[m] ELSE None]]
    /\ UNCHANGED <<mapping, relay, op, down>>

(* The affected Mappings are read again, before the transaction.             *)
Capture(e) ==
    LET k == exec[e].key IN
    /\ exec[e].pc = "capture"
    /\ exec' = [exec EXCEPT ![e].pc = "begin",
                            ![e].captured = [m \in Mappings |-> IF m \in Maps(k)
                                                                THEN mapping[m].revision ELSE 0]]
    /\ UNCHANGED <<mapping, relay, op, down>>

(* Mutant: active owners do not refuse.                                      *)
BeginAnyway(k) == op[k].lifecycle = "none"

(* One transaction: the Operation (its key is unique), its owners (one       *)
(* active owner of a Mapping), its steps and its first attempt.              *)
MayBegin(k) == op[k].lifecycle = "none" /\ \A m \in Maps(k) : ~Owned(m)

Begin(e) ==
    LET k == exec[e].key
        x == exec[e] IN
    /\ x.pc = "begin"
    /\ MayBegin(k)
    /\ op' = [op EXCEPT ![k] = [@ EXCEPT !.lifecycle = "applying", !.owns = TRUE, !.attempts = 1,
                                         !.captured = x.captured, !.base = x.base,
                                         !.fresh = /\ AtRevisions(k, x.captured)
                                                   /\ AtPrimary(k, x.seen)
                                                   /\ \A m \in Maps(k) : relay[m] = x.base[m]]]
    /\ exec' = [exec EXCEPT ![e] = [Idle EXCEPT !.pc = "dispatch", !.key = k, !.seen = x.seen]]
    /\ UNCHANGED <<mapping, relay, down>>

BeginRefused(e) ==
    /\ exec[e].pc = "begin"
    /\ ~MayBegin(exec[e].key)
    /\ Stops(e)
    /\ UNCHANGED <<mapping, relay, op, down>>

Dispatch(e) ==
    LET k == exec[e].key IN
    /\ exec[e].pc = "dispatch"
    /\ op' = [op EXCEPT ![k].step = [m \in Mappings |-> IF m \in Maps(k)
                                                        THEN [@[m] EXCEPT !.state = "dispatched"]
                                                        ELSE @[m]]]
    /\ exec' = [exec EXCEPT ![e].pc = "write", ![e].todo = Maps(k)]
    /\ UNCHANGED <<mapping, relay, down>>

(* The writes of the plan go on after one that fails.  A write may take      *)
(* effect and its answer be lost.  What is moved out of another Mapping is   *)
(* read, with its revision, as the write is reached.                         *)
Reach(e, m) ==
    [exec EXCEPT ![e].todo = @ \ {m},
                 ![e].seen[m] = IF m = op[exec[e].key].plan.primary THEN @ ELSE mapping[m].revision]

Write(e, m) ==
    LET k == exec[e].key IN
    /\ exec[e].pc = "write"
    /\ m \in exec[e].todo
    /\ relay' = [relay EXCEPT ![m] = k]
    /\ exec' = Reach(e, m)
    /\ op' \in {op, [op EXCEPT ![k].step[m] = [state |-> "verified", effect |-> k]]}
    /\ UNCHANGED <<mapping, down>>

WriteFails(e, m) ==
    LET k == exec[e].key IN
    /\ exec[e].pc = "write"
    /\ m \in exec[e].todo
    /\ relay' \in {relay, [relay EXCEPT ![m] = k]}
    /\ exec' = [Reach(e, m) EXCEPT ![e].trouble = TRUE]
    /\ UNCHANGED <<mapping, op, down>>

(* All planned writes are made: converge every step, or note the trouble.    *)
Written(e) ==
    /\ exec[e].pc = "write"
    /\ exec[e].todo = {}
    /\ exec' = [exec EXCEPT ![e].pc = IF exec[e].trouble THEN "note" ELSE "converge",
                            ![e].todo = Maps(exec[e].key), ![e].trouble = FALSE]
    /\ UNCHANGED <<mapping, relay, op, down>>

(* finishInterrupted, and the deferred interrupt: neither looks at the       *)
(* lifecycle it replaces.                                                    *)
Interrupt(e) ==
    /\ exec[e].pc \in {"note", "leave"}
    /\ op' = Lifecycle(exec[e].key, "interrupted")
    /\ Stops(e)
    /\ UNCHANGED <<mapping, relay, down>>

(* The reply of finishInterrupted is lost: the deferred interrupt writes      *)
(* again, what may have been recovered meanwhile.                            *)
InterruptUnheard(e) ==
    LET k == exec[e].key IN
    /\ exec[e].pc = "note"
    /\ op' = [Lifecycle(k, "interrupted") EXCEPT ![k].lost = TRUE]
    /\ Goes(e, "leave")
    /\ UNCHANGED <<mapping, relay, down>>

-----------------------------------------------------------------------------
(* The convergence of one step, of a Confirm and of a recovery: mark it      *)
(* dispatched, read the Relay back, write what differs, read again.          *)

Converge(e, m) ==
    LET k == exec[e].key IN
    /\ exec[e].pc = "converge"
    /\ m \in exec[e].todo
    /\ op' = [op EXCEPT ![k].step[m].state = "dispatched"]
    /\ relay' = [relay EXCEPT ![m] = Want(k, exec[e].dir, m)]
    /\ exec' = [exec EXCEPT ![e].pc = "record", ![e].todo = @ \ {m}, ![e].at = {m}]
    /\ UNCHANGED <<mapping, down>>

(* A call fails, before or after the write took effect; the mark may too.    *)
ConvergeFails(e, m) ==
    LET k == exec[e].key IN
    /\ exec[e].pc = "converge"
    /\ m \in exec[e].todo
    /\ \E s \in {"dispatched", "failed"} : op' = [op EXCEPT ![k].step[m].state = s]
    /\ relay' \in {relay, [relay EXCEPT ![m] = Want(k, exec[e].dir, m)]}
    /\ Errs(e)
    /\ UNCHANGED <<mapping, down>>

(* The resource is gone: a recovery is blocked, a Confirm has an error.      *)
ConvergeBlocked(e, m) ==
    LET k == exec[e].key IN
    /\ exec[e].pc = "converge"
    /\ m \in exec[e].todo
    /\ op' = [op EXCEPT ![k].step[m].state = "failed"]
    /\ IF exec[e].dir = "initial" THEN Errs(e)
       ELSE exec' = [exec EXCEPT ![e].pc = "block", ![e].todo = {}, ![e].at = {m}]
    /\ UNCHANGED <<mapping, relay, down>>

Record(e) ==
    LET k == exec[e].key
        Effect(m) == [state |-> "verified", effect |-> Want(k, exec[e].dir, m)] IN
    /\ exec[e].pc = "record"
    /\ op' = [op EXCEPT ![k].step = [m \in Mappings |-> IF m \in exec[e].at THEN Effect(m) ELSE @[m]]]
    /\ exec' = [exec EXCEPT ![e].pc = IF exec[e].todo = {} THEN "close" ELSE "converge", ![e].at = {}]
    /\ UNCHANGED <<mapping, relay, down>>

-----------------------------------------------------------------------------
(* The terminal transactions.  A commit may be made and its reply be lost.   *)

Commits(e, k, new, heard) ==
    /\ op' = [new EXCEPT ![k].lost = @ \/ ~heard]
    /\ IF heard THEN Stops(e) ELSE Errs(e)

Promotes(k) ==
    /\ mapping' = Promoted(k)
    /\ op[k].promotions < 2

PromotedBy(k) == [Terminal(k, "applied") EXCEPT ![k].promotions = @ + 1]

(* The Mappings' revisions must be those the execution read.                 *)
ApplyInitial(e, heard) ==
    LET k == exec[e].key IN
    /\ exec[e].pc = "close" /\ exec[e].dir = "initial"
    /\ AtRevisions(k, exec[e].seen)
    /\ AllVerified(k, "resume")
    /\ Promotes(k)
    /\ Commits(e, k, PromotedBy(k), heard)
    /\ UNCHANGED <<relay, down>>

(* The captured revisions must still be there.                               *)
ApplyResumed(e, heard) ==
    LET k == exec[e].key IN
    /\ exec[e].pc = "close" /\ exec[e].dir = "resume"
    /\ AtRevisions(k, op[k].captured)
    /\ AllVerified(k, "resume")
    /\ Promotes(k)
    /\ Commits(e, k, PromotedBy(k), heard)
    /\ UNCHANGED <<relay, down>>

(* Each is one revision further and holds the target: only close.            *)
AlreadyPromoted(k) ==
    /\ \A m \in Maps(k) : mapping[m] = [revision |-> op[k].captured[m] + 1, content |-> k]

CloseResumed(e, heard) ==
    LET k == exec[e].key IN
    /\ exec[e].pc = "close" /\ exec[e].dir = "resume"
    /\ AlreadyPromoted(k)
    /\ AllVerified(k, "resume")
    /\ Commits(e, k, Terminal(k, "applied"), heard)
    /\ UNCHANGED <<mapping, relay, down>>

CloseRestored(e, heard) ==
    LET k == exec[e].key IN
    /\ exec[e].pc = "close" /\ exec[e].dir = "restore"
    /\ AllVerified(k, "restore")
    /\ Commits(e, k, Terminal(k, "restored"), heard)
    /\ UNCHANGED <<mapping, relay, down>>

Closes(e, heard) ==
    \/ ApplyInitial(e, heard) \/ ApplyResumed(e, heard)
    \/ CloseResumed(e, heard) \/ CloseRestored(e, heard)

MayClose(k, x) ==
    /\ AllVerified(k, x.dir)
    /\ CASE x.dir = "initial" -> AtRevisions(k, x.seen)
         [] x.dir = "resume"  -> AtRevisions(k, op[k].captured) \/ AlreadyPromoted(k)
         [] OTHER             -> TRUE

CloseRefused(e) ==
    /\ exec[e].pc = "close"
    /\ ~MayClose(exec[e].key, exec[e])
    /\ Errs(e)
    /\ UNCHANGED <<mapping, relay, op, down>>

-----------------------------------------------------------------------------
(* Recovery Confirm.                                                         *)

(* The checks before the attempt; the user reviewed the captured revisions.  *)
Review(e, k, dir) ==
    /\ exec[e].pc = "idle"
    /\ dir # "initial"
    /\ op[k].lifecycle = "interrupted"
    /\ op[k].attempts < MaxAttempts
    /\ Supports(k, dir)
    /\ AtRevisions(k, op[k].captured)
    /\ exec' = [exec EXCEPT ![e] = [Idle EXCEPT !.pc = "start", !.key = k, !.dir = dir]]
    /\ UNCHANGED <<mapping, relay, op, down>>

(* The attempt and the lifecycle, if that is still interrupted.              *)
MayStart(k) == op[k].lifecycle = "interrupted" /\ op[k].attempts < MaxAttempts

StartRecovery(e) ==
    LET k == exec[e].key IN
    /\ exec[e].pc = "start"
    /\ MayStart(k)
    /\ op' = [op EXCEPT ![k].lifecycle = IF exec[e].dir = "resume" THEN "resuming" ELSE "restoring",
                        ![k].attempts = @ + 1, ![k].old = FALSE]
    /\ Goes(e, "preflight")
    /\ UNCHANGED <<mapping, relay, down>>

StartRefused(e) ==
    /\ exec[e].pc = "start"
    /\ ~MayStart(exec[e].key)
    /\ Stops(e)
    /\ UNCHANGED <<mapping, relay, op, down>>

(* Every resource is looked up before any is written.                        *)
Preflight(e) ==
    LET k == exec[e].key IN
    /\ exec[e].pc = "preflight"
    /\ exec' = [exec EXCEPT ![e].pc = "converge", ![e].todo = Maps(k)]
    /\ UNCHANGED <<mapping, relay, op, down>>

PreflightBlocked(e, m) ==
    /\ exec[e].pc = "preflight"
    /\ m \in Maps(exec[e].key)
    /\ exec' = [exec EXCEPT ![e].pc = "block", ![e].at = {m}]
    /\ UNCHANGED <<mapping, relay, op, down>>

FailRecovery(e) ==
    /\ exec[e].pc = "fail"
    /\ op' = Lifecycle(exec[e].key, "interrupted")
    /\ Stops(e)
    /\ UNCHANGED <<mapping, relay, down>>

Block(e) ==
    LET k == exec[e].key IN
    /\ exec[e].pc = "block"
    /\ op' = [Lifecycle(k, "blocked_external") EXCEPT
                 ![k].step = [m \in Mappings |-> IF m \in exec[e].at
                                                 THEN [@[m] EXCEPT !.state = "blocked"] ELSE @[m]]]
    /\ Stops(e)
    /\ UNCHANGED <<mapping, relay, down>>

-----------------------------------------------------------------------------
(* Faults, restarts and time.                                                *)

(* A statement, a transaction or a lookup fails and has no effect.           *)
CallFails(e) ==
    /\ exec[e].pc \notin {"idle", "write"}
    /\ Errs(e)
    /\ UNCHANGED <<mapping, relay, op, down>>

(* A Confirm gives up between its writes: no provider, no checkpoint.        *)
GiveUp(e) ==
    /\ exec[e].pc = "write"
    /\ Errs(e)
    /\ UNCHANGED <<mapping, relay, op, down>>

(* Executors in the database's view: an Operation is being worked on.        *)
Works(e, k) ==
    exec[e].key = k /\ exec[e].pc \notin {"idle", "preview", "capture", "begin", "start"}

(* An instance stops, with the executors it runs, and another starts.        *)
Crash(es) ==
    /\ ~down
    /\ exec' = [e \in Executors |-> IF e \in es THEN Idle ELSE exec[e]]
    /\ down' = TRUE
    /\ UNCHANGED <<mapping, relay, op>>

(* An executor ends within its budget, so that nobody works on what outlives *)
(* budget and margin.                                                        *)
GrowOld(k) ==
    /\ op[k].lifecycle \in Busy
    /\ ~op[k].old
    /\ \A e \in Executors : ~Works(e, k)
    /\ op' = [op EXCEPT ![k].old = TRUE]
    /\ UNCHANGED <<mapping, relay, exec, down>>

(* The start of an instance settles what is old enough.                      *)
Startup ==
    /\ down
    /\ op' = [k \in Keys |-> IF op[k].lifecycle \in Busy /\ op[k].old
                             THEN [op[k] EXCEPT !.lifecycle = "interrupted"] ELSE op[k]]
    /\ down' = FALSE
    /\ UNCHANGED <<mapping, relay, exec>>

-----------------------------------------------------------------------------

Steps(e) ==
    \/ Preview(e) \/ Capture(e) \/ Begin(e) \/ BeginRefused(e) \/ Dispatch(e)
    \/ \E m \in Mappings : Write(e, m) \/ Converge(e, m)
    \/ Written(e) \/ Interrupt(e) \/ Record(e)
    \/ Closes(e, TRUE) \/ CloseRefused(e)
    \/ StartRecovery(e) \/ StartRefused(e) \/ Preflight(e) \/ FailRecovery(e) \/ Block(e)

(* What goes wrong, with the faults it takes.                                *)
RelayFault ==
    \E e \in Executors :
        \/ \E m \in Mappings : WriteFails(e, m) \/ ConvergeFails(e, m)
        \/ GiveUp(e)
        \/ exec[e].pc = "preflight" /\ CallFails(e)

MissingFault == \E e \in Executors, m \in Mappings : ConvergeBlocked(e, m) \/ PreflightBlocked(e, m)

Fault ==
    \/ "database" \in Faults /\ \E e \in Executors : CallFails(e)
    \/ "relay" \in Faults /\ RelayFault
    \/ "missing" \in Faults /\ MissingFault
    \/ "crash" \in Faults /\ \E es \in SUBSET Executors : Crash(es)
    \/ "reply" \in Faults /\ \E e \in Executors : Closes(e, FALSE) \/ InterruptUnheard(e)

Next ==
    \/ /\ \/ \E e \in Executors :
                \/ Steps(e)
                \/ \E k \in Keys : Confirm(e, k) \/ \E dir \in Directions : Review(e, k, dir)
          \/ \E k \in Keys : GrowOld(k)
          \/ Startup
       /\ UNCHANGED faulted
    \/ /\ Fault
       /\ faulted < MaxFaults
       /\ faulted' = faulted + 1

Spec == Init /\ [][Next]_vars

(* An executor that has begun makes its next step, an instance that stopped  *)
(* is replaced and time passes.  Nothing makes a user confirm, an instance   *)
(* stop or a fault happen.                                                   *)
FairSpec ==
    /\ Spec
    /\ \A e \in Executors : WF_vars(Steps(e) /\ UNCHANGED faulted)
    /\ WF_vars(Startup /\ UNCHANGED faulted)
    /\ \A k \in Keys : WF_vars(GrowOld(k) /\ UNCHANGED faulted)

-----------------------------------------------------------------------------
(* Properties.  A commit or an interruption whose reply is lost is followed  *)
(* by the error path, which reopens what is closed or being recovered: Heard *)
(* limits the first four, and the promise, to what happens before that.      *)

Heard == \A k \in Keys : ~op[k].lost

MayWrite(e) == exec[e].pc \in {"dispatch", "write", "preflight", "converge", "record"}

(* Of two executors that may still write the Relay, each has Mappings of its *)
(* own, whatever was interrupted, settled and recovered meanwhile.           *)
OneWriter ==
    Heard => \A e, f \in Executors :
        e # f /\ MayWrite(e) /\ MayWrite(f) => Maps(exec[e].key) \cap Maps(exec[f].key) = {}

(* An Operation owns its Mappings from its beginning until it is applied or  *)
(* restored, and not longer: relationship_operation_mappings.active and the  *)
(* lifecycle are columns of two tables, which seven transactions write.      *)
OpenIsOwned ==
    Heard => \A k \in Keys : op[k].owns <=> op[k].lifecycle \notin Closed \cup {"none"}

(* The Mappings of an open Operation that began on what it had read stay at  *)
(* their captured revisions, at which alone a recovery is accepted.          *)
OpenIsRecoverable ==
    Heard => \A k \in Keys : op[k].owns /\ op[k].fresh => AtRevisions(k, op[k].captured)

(* A Mapping that no Operation owns records what the Relay holds, if every   *)
(* Operation began on what it had read: after a promotion, after a restore,  *)
(* and after any sequence of failed attempts before them.                    *)
AlignedWhenFree ==
    Heard /\ (\A k \in Keys : op[k].fresh) =>
        \A m \in Mappings : ~Owned(m) => relay[m] = mapping[m].content

(* An Operation promotes its Mappings once, also when the reply of the       *)
(* commit is lost, the Operation is interrupted and resumed again.           *)
PromotedOnce ==
    \A k \in Keys : op[k].promotions <= 1

-----------------------------------------------------------------------------
(* The promise, of which the lifecycles are phases.                          *)

PhaseOf(o) ==
    CASE o.lifecycle \in Busy            -> "working"
      [] o.lifecycle = "blocked_external" -> "blocked"
      [] OTHER                            -> o.lifecycle

Held(k) == {m \in Mappings : Owns(k, m)}

Promise == INSTANCE RelationshipPromise
           WITH phase    <- [k \in Keys |-> PhaseOf(op[k])],
                holds    <- [k \in Keys |-> Held(k)],
                baseline <- mapping,
                external <- relay,
                heard    <- Heard,
                current  <- \A k \in Keys : op[k].fresh

(* The tables and the executors together keep the promise: Mappings are      *)
(* taken together and held until the end, the Relay is written only by who   *)
(* holds, baselines are promoted whole and by the step that lets go, and     *)
(* what is let go agrees with the Relay.                                     *)
ImplementsPromise == Promise!Spec

-----------------------------------------------------------------------------
(* What the documentation says, and the code does not keep                   *)

(* docs/architecture.md:531: a restart during a detached execution cannot    *)
(* leave a Mapping permanently operating.                                    *)
AbandonedSettles ==
    \A k \in Keys : (op[k].lifecycle \in Busy) ~> (op[k].lifecycle \notin Busy)
=============================================================================
