----------------------------- MODULE QuotaReset -----------------------------
(***************************************************************************)
(* Quota reset requests: backend/internal/quotareset/service.go and        *)
(* workflow_service.go.  Concurrent HTTP handlers create, cancel, decide   *)
(* and retry requests.  A handler reads a row, leaves the database, and    *)
(* later writes under a status (and, for version 2, revision) predicate;   *)
(* the handler that wins the last approval, or a retry, then resets the    *)
(* quota at the Relay and writes the outcome.                              *)
(*                                                                         *)
(* One provider (the enabled primary one).  A row keeps the group id as    *)
(* the client wrote it; ParseInt finds the group at the Relay, and a scope *)
(* is a requester and the text.  A handler stops at any step (Crash: the   *)
(* process dies, or a commit happens and its reply is lost) and any        *)
(* transaction may fail (TxFails).                                         *)
(***************************************************************************)
EXTENDS QuotaResetWorkflow

CONSTANTS Admins,     \* the users the admin routes accept
          Groups,     \* the Relay's groups with an active, limited subscription
          GroupIds,   \* what clients write for a group, trimmed
          ParseInt,   \* of such a text; 0 for an error and for what is not positive
          Routes,     \* the approval routes the directory can resolve to
          Requests,   \* row ids
          Legacy,     \* the rows an older binary left as version-1 pending
          Handlers,   \* concurrent HTTP handlers
          MaxStarts,  \* bound: no retry is loaded after this many reset starts,
                      \* of its request or of it and another together
          Faults      \* whether crashes and database errors happen

ASSUME QuotaResetAssumption ==
    /\ Admins \subseteq Users
    /\ Requests # {} /\ GroupIds # {}
    /\ Groups \subseteq Nat \ {0}
    /\ ParseInt \in [GroupIds -> Nat]
    /\ Routes \subseteq Seq(SUBSET Users)
    /\ Legacy \subseteq Requests
    /\ MaxStarts \in Nat
    /\ Faults \in BOOLEAN

VARIABLES row,      \* the quota_reset_requests table
          events,   \* per request, how many audit events of each type
          wiRev,    \* the Work Items counts revision, a fresh value per change
          calls,    \* per request, how often the Relay was asked to reset
          resets,   \* per request, how often the Relay did reset
          hdl       \* what each handler holds

vars == <<row, events, wiRev, calls, resets, hdl>>

-----------------------------------------------------------------------------

Statuses == {"absent", "pending", "workflow_pending", "approved_resetting",
             "approved_reset_succeeded", "approved_reset_failed", "rejected", "cancelled"}

(* Mutant: the index forgets the failed requests, which a retry reactivates. *)
ActiveUnlessFailed == {"pending", "workflow_pending", "approved_resetting"}

(* Statuses of the partial unique index over (requester, provider, group).   *)
ActiveStatuses == {"pending", "workflow_pending", "approved_resetting", "approved_reset_failed"}

(* actionableQuotaResetStatuses of the Work Items counts.                    *)
ActionableStatuses == {"pending", "workflow_pending", "approved_reset_failed"}

EventTypes == {"created", "step_approved", "step_satisfied", "approved", "rejected",
               "cancelled", "reset_started", "reset_retried", "reset_succeeded", "reset_failed"}

Row == [status : Statuses, version : {1, 2}, requester : Users \cup {NoUser}, group : GroupIds,
        workflow : Workflow, revision : Nat, resolved : SUBSET Users,
        approvedBy : Users \cup {NoUser}]

NoWorkflow == [steps |-> <<>>, cur |-> 1]

NoRow == [status |-> "absent", version |-> 1, requester |-> NoUser,
          group |-> CHOOSE g \in GroupIds : TRUE, workflow |-> NoWorkflow, revision |-> 0,
          resolved |-> {}, approvedBy |-> NoUser]

LegacyRow(u, g, approvers) ==
    [NoRow EXCEPT !.status = "pending", !.requester = u, !.group = g, !.resolved = approvers]

(* ops: the call; pc: the next step of it; snap: the row as it was read (for *)
(* create, the row to insert).                                               *)
Ops == {"none", "create", "cancel", "approve", "reject", "retry"}
Pcs == {"idle", "insert", "cancel", "decide", "reread", "start", "resolve",
        "relay", "finalize", "store_failure"}

Handler == [pc : Pcs, op : Ops, req : Requests, actor : Users \cup {NoUser},
            admin : BOOLEAN, snap : Row]

Idle == [pc |-> "idle", op |-> "none", req |-> CHOOSE r \in Requests : TRUE,
         actor |-> NoUser, admin |-> FALSE, snap |-> NoRow]

Begin(pc, op, r, actor, admin, snap) ==
    [pc |-> pc, op |-> op, req |-> r, actor |-> actor, admin |-> admin, snap |-> snap]

-----------------------------------------------------------------------------
(* Helpers                                                                   *)

Active(r) == row[r].status \in ActiveStatuses

(* The index entry of a row: what may occur once.  It holds the text.        *)
ScopeOf(rec) == <<rec.requester, rec.group>>

ScopeTaken(scope) == \E r \in Requests : Active(r) /\ ScopeOf(row[r]) = scope

(* countAssignedQuotaApprovals: who is asked to act on a row.                *)
Assignees(rec) ==
    {u \in Users \ {rec.requester} :
        \/ rec.status \in {"pending", "workflow_pending"} /\ u \in rec.resolved
        \/ /\ rec.status = "approved_reset_failed"
           /\ IF rec.version = 1 THEN u \in rec.resolved ELSE u = rec.approvedBy}

(* What the counts of all users and of the administrators are taken from.    *)
WorkItems == [r \in Requests |-> [actionable |-> row[r].status \in ActionableStatuses,
                                  assigned   |-> Assignees(row[r])]]

Log(r, types) ==
    events' = [events EXCEPT ![r] = [t \in EventTypes |-> IF t \in types THEN @[t] + 1 ELSE @[t]]]

InvalidateWorkItemCounts == wiRev' = wiRev + 1

Goto(h, pc) == hdl' = [hdl EXCEPT ![h].pc = pc]
Return(h)   == hdl' = [hdl EXCEPT ![h] = Idle]

(* Bound: a row id is left.  An insert that finds the last one used, and its *)
(* scope free again, does not happen.                                        *)
IdLeft == \E r \in Requests : row[r].status = "absent"

CallerIsAdmin(u) == {FALSE} \cup {u \in Admins}

-----------------------------------------------------------------------------
(* Create                                                                    *)

(* findSubscription: the text is compared as a number.                       *)
Subscribed(g) == ParseInt[g] \in Groups

(* CreateRequest up to the snapshot of the workflow: the group is subscribed, *)
(* and no active request is visible for the scope.                           *)
CreateCheck(h, u, g, route) ==
    LET w == ResolveWorkflow(route, u)
    IN /\ hdl[h].pc = "idle"
       /\ IdLeft
       /\ Subscribed(g)
       /\ ~ ScopeTaken(<<u, g>>)
       /\ hdl' = [hdl EXCEPT ![h] =
                    Begin("insert", "create", @.req, u, FALSE,
                          [status |-> "workflow_pending", version |-> 2, requester |-> u,
                           group |-> g, workflow |-> w, revision |-> 0,
                           resolved |-> ActiveApprovers(w), approvedBy |-> NoUser])]
       /\ UNCHANGED <<row, events, wiRev, calls, resets>>

(* createWorkflowRequest: the unique index refuses a second active row.      *)
CreateInsert(h, r) ==
    /\ hdl[h].pc = "insert"
    /\ row[r].status = "absent"
    /\ ~ ScopeTaken(ScopeOf(hdl[h].snap))
    /\ row' = [row EXCEPT ![r] = hdl[h].snap]
    /\ Log(r, {"created"})
    /\ InvalidateWorkItemCounts
    /\ Return(h)
    /\ UNCHANGED <<calls, resets>>

CreateDuplicate(h) ==
    /\ hdl[h].pc = "insert"
    /\ ScopeTaken(ScopeOf(hdl[h].snap))
    /\ Return(h)
    /\ UNCHANGED <<row, events, wiRev, calls, resets>>

-----------------------------------------------------------------------------
(* Cancel                                                                    *)

CancelLoad(h, u, r) ==
    /\ hdl[h].pc = "idle"
    /\ row[r].status \in {"pending", "workflow_pending"}
    /\ row[r].requester = u
    /\ hdl' = [hdl EXCEPT ![h] = Begin("cancel", "cancel", r, u, FALSE, row[r])]
    /\ UNCHANGED <<row, events, wiRev, calls, resets>>

(* Mutants: the predicate compares the revision or the status alone.         *)
RevisionUnchanged(h) ==
    hdl[h].snap.version = 2 => row[hdl[h].req].revision = hdl[h].snap.revision
StatusUnchanged(h) == row[hdl[h].req].status = hdl[h].snap.status

(* The UPDATE predicate of Cancel and of a decision: the row is still in the *)
(* status that was read and, for version 2, at the revision that was read.   *)
Unchanged(h) ==
    LET read == hdl[h].snap
        now  == row[hdl[h].req]
    IN /\ now.status = read.status
       /\ read.version = 2 => now.revision = read.revision

CancelCommit(h) ==
    LET r == hdl[h].req
    IN /\ hdl[h].pc = "cancel"
       /\ Unchanged(h)
       /\ row' = [row EXCEPT ![r].status = "cancelled"]
       /\ Log(r, {"cancelled"})
       /\ InvalidateWorkItemCounts
       /\ Return(h)
       /\ UNCHANGED <<calls, resets>>

-----------------------------------------------------------------------------
(* Approve and Reject                                                        *)

(* requireDecisionAllowed for a version-1 row.                               *)
MayDecideLegacy(rec, u, admin) == admin \/ (rec.requester # u /\ u \in rec.resolved)

(* Approve/Reject up to the transaction: the row is read, and authorised on  *)
(* what was read.                                                            *)
DecideLoad(h, op, u, admin, r) ==
    /\ hdl[h].pc = "idle"
    /\ \/ /\ row[r].status = "pending"
          /\ MayDecideLegacy(row[r], u, admin)
       \/ /\ row[r].status = "workflow_pending"
          /\ MayDecide(row[r].workflow, row[r].requester, u, admin)
    /\ hdl' = [hdl EXCEPT ![h] = Begin("decide", op, r, u, admin, row[r])]
    /\ UNCHANGED <<row, events, wiRev, calls, resets>>

(* The status a closing decision writes.                                     *)
Closed(rec, op, actor) ==
    IF op = "approve"
    THEN [rec EXCEPT !.status = "approved_resetting", !.approvedBy = actor]
    ELSE [rec EXCEPT !.status = "rejected"]

(* The rest of Approve/Reject on a version-1 row.                            *)
DecideLegacyCommit(h) ==
    LET r == hdl[h].req
        op == hdl[h].op
    IN /\ hdl[h].pc = "decide"
       /\ hdl[h].snap.version = 1
       /\ Unchanged(h)
       /\ row' = [row EXCEPT ![r] = Closed(@, op, hdl[h].actor)]
       /\ Log(r, {IF op = "approve" THEN "approved" ELSE "rejected"})
       /\ InvalidateWorkItemCounts
       /\ IF op = "approve" THEN Goto(h, "reread") ELSE Return(h)
       /\ UNCHANGED <<calls, resets>>

(* decideWorkflowRequest: the decision computed from the document that was   *)
(* read replaces the stored one, with the next revision.                     *)
DecideWorkflowCommit(h) ==
    LET r     == hdl[h].req
        op    == hdl[h].op
        w     == Decide(hdl[h].snap.workflow, hdl[h].actor, hdl[h].admin, op = "approve")
        moved == [row[r] EXCEPT !.workflow = w,
                                !.revision = hdl[h].snap.revision + 1,
                                !.resolved = ActiveApprovers(w)]
        skips == \E j \in 1..Len(w.steps) :
                    w.steps[j].satisfiedBy # hdl[h].snap.workflow.steps[j].satisfiedBy
    IN /\ hdl[h].pc = "decide"
       /\ hdl[h].snap.version = 2
       /\ Unchanged(h)
       /\ row' = [row EXCEPT ![r] = IF Terminal(w) THEN Closed(moved, op, hdl[h].actor) ELSE moved]
       /\ Log(r, IF op = "reject" THEN {"rejected"}
                 ELSE {"step_approved"} \cup (IF skips THEN {"step_satisfied"} ELSE {})
                                        \cup (IF Terminal(w) THEN {"approved"} ELSE {}))
       /\ InvalidateWorkItemCounts
       /\ IF op = "approve" /\ Terminal(w) THEN Goto(h, "reread") ELSE Return(h)
       /\ UNCHANGED <<calls, resets>>

(* The loser of a race: its predicate matches no row, it gets ErrInvalidStatus. *)
LoseRace(h) ==
    /\ hdl[h].pc \in {"cancel", "decide"}
    /\ ~ Unchanged(h)
    /\ Return(h)
    /\ UNCHANGED <<row, events, wiRev, calls, resets>>

-----------------------------------------------------------------------------
(* RetryReset and executeReset                                               *)

MayRetry(rec, u, admin) ==
    \/ admin
    \/ /\ rec.requester # u
       /\ IF rec.version = 2 THEN rec.approvedBy = u ELSE u \in rec.resolved

Started(r) == events[r]["reset_started"]

RetryLoad(h, u, admin, r) ==
    /\ hdl[h].pc = "idle"
    /\ row[r].status = "approved_reset_failed"
    /\ MayRetry(row[r], u, admin)
    /\ Started(r) < MaxStarts
    /\ \A q \in Requests \ {r} : Started(q) + Started(r) < MaxStarts
    /\ hdl' = [hdl EXCEPT ![h] = Begin("reread", "retry", r, u, admin, row[r])]
    /\ UNCHANGED <<row, events, wiRev, calls, resets>>

(* The status an execution starts from.                                      *)
RequiredStatus(h) ==
    IF hdl[h].op = "retry" THEN "approved_reset_failed" ELSE "approved_resetting"

(* Mutant: a reset starts without a status predicate.                        *)
NoRequirement(h) == hdl[h].pc \in {"reread", "start"}

Required(h) == row[hdl[h].req].status = RequiredStatus(h)

(* executeReset reads the row again, and its group id ...                    *)
Reread(h) ==
    /\ hdl[h].pc = "reread"
    /\ IF Required(h) /\ ParseInt[row[hdl[h].req].group] > 0
         THEN Goto(h, "start")
         ELSE Return(h)
    /\ UNCHANGED <<row, events, wiRev, calls, resets>>

(* ... and enters (or stays in) resetting under a status predicate.          *)
StartReset(h) ==
    LET r == hdl[h].req
        retry == hdl[h].op = "retry"
    IN /\ hdl[h].pc = "start"
       /\ Required(h)
       /\ row' = [row EXCEPT ![r].status = "approved_resetting"]
       /\ Log(r, {"reset_started"} \cup (IF retry THEN {"reset_retried"} ELSE {}))
       /\ IF retry THEN InvalidateWorkItemCounts ELSE UNCHANGED wiRev
       /\ Goto(h, "resolve")
       /\ UNCHANGED <<calls, resets>>

(* The predicate does not hold: a retry gives up, the approver's own         *)
(* execution goes on to store a failure.                                     *)
AfterFailedStart(h) == IF hdl[h].op = "retry" THEN Return(h) ELSE Goto(h, "store_failure")

StartLost(h) ==
    /\ hdl[h].pc = "start"
    /\ ~ Required(h)
    /\ AfterFailedStart(h)
    /\ UNCHANGED <<row, events, wiRev, calls, resets>>

(* Mutant: a provider that cannot be resolved is returned as an error only.  *)
ResolveOrReturn(h) ==
    /\ hdl[h].pc = "resolve"
    /\ Goto(h, "relay") \/ Return(h)
    /\ UNCHANGED <<row, events, wiRev, calls, resets>>

(* The provider is resolved, or is gone or cannot reset quotas.              *)
ResolveProvider(h) ==
    /\ hdl[h].pc = "resolve"
    /\ \E pc \in {"relay", "store_failure"} : Goto(h, pc)
    /\ UNCHANGED <<row, events, wiRev, calls, resets>>

(* Mutant: an error reply is tried again by the same execution.              *)
CallRelayTwice(h) ==
    /\ hdl[h].pc = "relay"
    /\ calls' = [calls EXCEPT ![hdl[h].req] = @ + 1]
    /\ calls[hdl[h].req] < 2
    /\ resets' = [resets EXCEPT ![hdl[h].req] = @ + 1]
    /\ \E pc \in {"relay", "finalize", "store_failure"} : Goto(h, pc)
    /\ UNCHANGED <<row, events, wiRev>>

(* ResetSubscriptionQuotaForUser: it succeeds, or it fails before or after   *)
(* the Relay applied it (an error reply, the 30 second context).             *)
CallRelay(h) ==
    LET r == hdl[h].req
    IN /\ hdl[h].pc = "relay"
       /\ calls' = [calls EXCEPT ![r] = @ + 1]
       /\ \/ /\ resets' = [resets EXCEPT ![r] = @ + 1]
             /\ \E pc \in {"finalize", "store_failure"} : Goto(h, pc)
          \/ /\ UNCHANGED resets
             /\ Goto(h, "store_failure")
       /\ UNCHANGED <<row, events, wiRev>>

(* Mutant: the failure is stored without changing the revision.              *)
FinalizeQuietly(h, to, type) ==
    /\ Return(h)
    /\ row[hdl[h].req].status = "approved_resetting"
    /\ row' = [row EXCEPT ![hdl[h].req].status = to]
    /\ Log(hdl[h].req, {type})
    /\ UNCHANGED <<wiRev, calls, resets>>

(* transitionReset out of resetting, and the return of the call; nothing is  *)
(* written when the row has left resetting.                                  *)
Finalize(h, to, type) ==
    LET r == hdl[h].req
    IN /\ Return(h)
       /\ IF row[r].status = "approved_resetting"
          THEN /\ row' = [row EXCEPT ![r].status = to]
               /\ Log(r, {type})
               /\ IF to = "approved_reset_failed" THEN InvalidateWorkItemCounts ELSE UNCHANGED wiRev
          ELSE UNCHANGED <<row, events, wiRev>>
       /\ UNCHANGED <<calls, resets>>

StoreSuccess(h) ==
    hdl[h].pc = "finalize" /\ Finalize(h, "approved_reset_succeeded", "reset_succeeded")

(* storeResetFailure                                                         *)
StoreFailure(h) ==
    hdl[h].pc = "store_failure" /\ Finalize(h, "approved_reset_failed", "reset_failed")

-----------------------------------------------------------------------------
(* Faults                                                                    *)

(* A database error: the transaction is rolled back and the call returns,    *)
(* except that the approver's own execution stores a failure when its start  *)
(* transaction failed.                                                       *)
TxFails(h) ==
    /\ Faults
    /\ hdl[h].pc \notin {"idle", "resolve", "relay"}
    /\ IF hdl[h].pc = "start" THEN AfterFailedStart(h) ELSE Return(h)
    /\ UNCHANGED <<row, events, wiRev, calls, resets>>

(* The process dies, or a commit's reply is lost: nothing more of the call   *)
(* runs, and nothing of it is resumed at the next start.                     *)
Crash(h) ==
    /\ Faults
    /\ hdl[h].pc # "idle"
    /\ Return(h)
    /\ UNCHANGED <<row, events, wiRev, calls, resets>>

-----------------------------------------------------------------------------

Init ==
    /\ row \in [Requests -> {NoRow} \cup {LegacyRow(u, g, A) : u \in Users, g \in GroupIds, A \in SUBSET Users}]
    /\ \A r \in Requests : row[r] # NoRow <=> r \in Legacy
    /\ \A r \in Legacy : Subscribed(row[r].group)
    /\ \A r1, r2 \in Legacy : r1 # r2 => ScopeOf(row[r1]) # ScopeOf(row[r2])
    /\ events = [r \in Requests |-> [t \in EventTypes |-> IF t = "created" /\ r \in Legacy THEN 1 ELSE 0]]
    /\ wiRev = 0
    /\ calls = [r \in Requests |-> 0]
    /\ resets = [r \in Requests |-> 0]
    /\ hdl = [h \in Handlers |-> Idle]

(* The steps of a call once it is under way.                                 *)
Proceed(h) ==
    \/ \E r \in Requests : CreateInsert(h, r)
    \/ CreateDuplicate(h)
    \/ CancelCommit(h)
    \/ DecideLegacyCommit(h)
    \/ DecideWorkflowCommit(h)
    \/ LoseRace(h)
    \/ Reread(h)
    \/ StartReset(h)
    \/ StartLost(h)
    \/ ResolveProvider(h)
    \/ CallRelay(h)
    \/ StoreSuccess(h)
    \/ StoreFailure(h)

Call(h) ==
    \E u \in Users :
        \/ \E g \in GroupIds, route \in Routes : CreateCheck(h, u, g, route)
        \/ \E r \in Requests : CancelLoad(h, u, r)
        \/ \E r \in Requests, admin \in CallerIsAdmin(u) :
             \/ \E op \in {"approve", "reject"} : DecideLoad(h, op, u, admin, r)
             \/ RetryLoad(h, u, admin, r)

Next == \E h \in Handlers : Call(h) \/ Proceed(h) \/ TxFails(h) \/ Crash(h)

Spec == Init /\ [][Next]_vars

(* The Go scheduler runs every handler that can go on; callers owe nothing.  *)
FairSpec == Spec /\ \A h \in Handlers : WF_vars(Proceed(h))

-----------------------------------------------------------------------------
(* Properties                                                                *)

(* Every variable stays in its type: the table, the event counts, the       *)
(* revision and what a handler holds (schema/quota_reset_request.go).        *)
TypeOK ==
    /\ row \in [Requests -> Row]
    /\ events \in [Requests -> [EventTypes -> Nat]]
    /\ wiRev \in Nat
    /\ calls \in [Requests -> Nat]
    /\ resets \in [Requests -> Nat]
    /\ hdl \in [Handlers -> Handler]

(* A handler is executing a reset from the commit that let it (the final     *)
(* approval, or a retry's start) until it stores the outcome or dies.        *)
Executes(x) ==
    \/ x.pc \in {"resolve", "relay", "finalize", "store_failure"}
    \/ x.pc \in {"reread", "start"} /\ x.op = "approve"

Executing(h) == Executes(hdl[h])

(* Concurrent decisions and retries cannot run two resets of one request,    *)
(* and the row stays in resetting for as long as one runs: executeReset      *)
(* holds no lock, only status predicates.                                    *)
ResetExclusive ==
    \A h \in Handlers : Executing(h) =>
        /\ row[hdl[h].req].status = "approved_resetting"
        /\ \A k \in Handlers : Executing(k) /\ hdl[k].req = hdl[h].req => k = h

(* The Relay is never asked more often than a start was committed and        *)
(* audited, and never before the one closing approval of the request.        *)
CallsAreStarted ==
    \A r \in Requests :
        /\ calls[r] <= events[r]["reset_started"]
        /\ resets[r] <= calls[r]
        /\ events[r]["reset_started"] > 0 => events[r]["approved"] = 1

(* No decision is lost: the document shows as many manual approvals as were  *)
(* audited, and its revision counts the decisions, although every decision   *)
(* writes back a whole document computed from an earlier read.               *)
NoLostDecision ==
    \A r \in Requests : row[r].version = 2 =>
        /\ events[r]["step_approved"] =
             Cardinality({j \in 1..Len(row[r].workflow.steps) : row[r].workflow.steps[j].state = "approved"})
        /\ row[r].revision = events[r]["step_approved"] + events[r]["rejected"]

(* Of any number of racing approvals, rejections and cancellations of a      *)
(* request, one closes it; a retry follows a stored failure of its own.      *)
OneClosingDecision ==
    \A r \in Requests :
        /\ events[r]["approved"] + events[r]["rejected"] + events[r]["cancelled"] <= 1
        /\ events[r]["reset_retried"] <= events[r]["reset_failed"]
        /\ events[r]["reset_succeeded"] <= 1

(* A request that reached the Relay was approved step by step: each step by  *)
(* an administrator or one of its own candidates other than the requester,   *)
(* or skipped because an earlier approver is a candidate of it; nobody who   *)
(* has approved is asked again; and a stored document always passes the      *)
(* code's own validate.                                                      *)
ApprovalJustified ==
    \A r \in Requests : row[r].version = 2 =>
        LET w == row[r].workflow IN
        /\ ValidWorkflow(w)
        /\ \A j \in 1..Len(w.steps) :
              LawfulDecision(w.steps[j], row[r].requester) /\ LawfulSkip(w.steps, j)
        /\ NobodyAskedTwice(w.steps)
        /\ calls[r] > 0 => FullyApproved(w)

(* One request of a requester and group id is active, whatever handlers race *)
(* between the check of CreateRequest and its insert, or move a failed       *)
(* request back to resetting.  The code compares the text of the id: for two *)
(* texts of one group at the Relay, which ParseInt takes for the same        *)
(* number, nothing is claimed.                                               *)
OneActivePerScope ==
    \A r1, r2 \in Requests :
        Active(r1) /\ Active(r2) /\ ScopeOf(row[r1]) = ScopeOf(row[r2]) => r1 = r2

(* A request is reported as reset only when the Relay did reset it.          *)
SuccessIsReal ==
    \A r \in Requests : row[r].status = "approved_reset_succeeded" => resets[r] > 0

(* A rejected, cancelled or reset request never changes again, however stale *)
(* the row a handler decided on.                                             *)
ClosedIsFinal ==
    [][\A r \in Requests :
         row[r].status \in {"rejected", "cancelled", "approved_reset_succeeded"}
           => row'[r] = row[r]]_vars

(* Every step that changes what a user or an administrator is asked to do    *)
(* changes the Work Items revision in the same transaction.                  *)
RevisionTracksWorkItems == [][WorkItems' # WorkItems => wiRev' # wiRev]_vars

(* Without faults every started reset ends in a stored outcome: no path of   *)
(* executeReset returns with the row in resetting.                           *)
ResetEnds ==
    \A r \in Requests :
        row[r].status = "approved_resetting" ~>
            row[r].status \in {"approved_reset_succeeded", "approved_reset_failed"}

(* The inductive form of the safety invariants: what a handler still knows   *)
(* of the row it read, and how the audit counts of a request, its Relay      *)
(* calls and its status hang together.                                       *)
HandlerOK(x, started, called, reset) ==
    /\ x.pc = "insert" => x.snap.status = "workflow_pending"
    /\ x.pc \in {"cancel", "decide"} => x.snap.status \in {"pending", "workflow_pending"}
    /\ x.pc = "decide" => x.op \in {"approve", "reject"}
    /\ x.pc \in {"reread", "start"} => x.op \in {"approve", "retry"}
    /\ x.pc \in {"resolve", "relay"} => called < started
    /\ x.pc = "finalize" => reset > 0

One(b) == IF b THEN 1 ELSE 0

AuditOK(status, e, called, reset) ==
    /\ called <= e["reset_started"]
    /\ reset <= called
    /\ e["approved"] = One(status \in {"approved_resetting", "approved_reset_failed",
                                       "approved_reset_succeeded"})
    /\ e["rejected"] = One(status = "rejected")
    /\ e["cancelled"] = One(status = "cancelled")
    /\ e["reset_succeeded"] = One(status = "approved_reset_succeeded")
    /\ e["approved"] = 0 => e["reset_started"] = 0
    /\ e["reset_retried"] + One(status = "approved_reset_failed") <= e["reset_failed"]
    /\ status = "approved_reset_succeeded" => reset > 0

HandlerInv ==
    \A h \in Handlers :
        HandlerOK(hdl[h], events[hdl[h].req]["reset_started"], calls[hdl[h].req], resets[hdl[h].req])

AuditInv == \A r \in Requests : AuditOK(row[r].status, events[r], calls[r], resets[r])

(* What the proofs carry from step to step; it implies ResetExclusive,       *)
(* CallsAreStarted, OneClosingDecision and SuccessIsReal.                    *)
IInv == TypeOK /\ ResetExclusive /\ HandlerInv /\ AuditInv

(* What a row says of its document: the counts of NoLostDecision, and that   *)
(* the versions keep to their statuses.                                      *)
RowOK(rec, e) ==
    /\ rec.status = "absent" => rec.version = 1 /\ e["step_approved"] = 0
    /\ rec.status = "pending" => rec.version = 1
    /\ rec.status = "workflow_pending" => rec.version = 2
    /\ rec.version = 2 =>
        /\ DocOK(rec.workflow, rec.requester)
        /\ e["step_approved"] = Cardinality(ApprovedSteps(rec.workflow))
        /\ rec.revision = e["step_approved"] + e["rejected"]
        /\ rec.status \in {"approved_resetting", "approved_reset_failed", "approved_reset_succeeded"}
             => FullyApproved(rec.workflow)

(* A row to insert is new.                                                   *)
InsertOK(x) ==
    x.pc = "insert" =>
        /\ x.snap.version = 2 /\ x.snap.revision = 0
        /\ DocOK(x.snap.workflow, x.snap.requester) /\ ApprovedSteps(x.snap.workflow) = {}

(* A version-2 row is still the one that was read while its revision is.     *)
DecideOK(x, now) ==
    x.pc = "decide" =>
        /\ x.actor \in Users
        /\ x.snap.version = 1 => x.snap.status = "pending"
        /\ x.snap.version = 2 =>
            /\ x.snap.status = "workflow_pending"
            /\ now.version = 2 /\ now.requester = x.snap.requester
            /\ x.snap.revision <= now.revision
            /\ x.snap.revision = now.revision => now.workflow = x.snap.workflow
            /\ MayDecide(x.snap.workflow, x.snap.requester, x.actor, x.admin)

(* The documents of the rows, and what the handlers are about to make of them. *)
DocumentInv ==
    /\ \A r \in Requests : RowOK(row[r], events[r])
    /\ \A h \in Handlers : InsertOK(hdl[h]) /\ DecideOK(hdl[h], row[hdl[h].req])

(* What the runs check of both: with DocumentInv, NoLostDecision and         *)
(* ApprovalJustified follow as well.                                         *)
FullInv == IInv /\ DocumentInv

(***************************************************************************)
(* The request implements the lifecycle the contract draws.                *)
(***************************************************************************)
PhaseOf(status) ==
    CASE status \in {"pending", "workflow_pending"} -> "pending"
      [] status = "approved_resetting"             -> "resetting"
      [] status = "approved_reset_succeeded"       -> "succeeded"
      [] status = "approved_reset_failed"          -> "failed"
      [] OTHER                                     -> status

ExecutorAt(r, pcs) == \E h \in Handlers : Executing(h) /\ hdl[h].req = r /\ hdl[h].pc \in pcs

Attempt(r) ==
    IF ExecutorAt(r, {"reread", "start", "resolve", "relay"}) THEN "ready"
    ELSE IF ExecutorAt(r, {"finalize"}) THEN "called"
    ELSE "none"

Lifecycle == INSTANCE QuotaResetLifecycle
             WITH phase   <- [r \in Requests |-> PhaseOf(row[r].status)],
                  attempt <- [r \in Requests |-> Attempt(r)],
                  calls   <- calls

(* The table and the handlers together step as the lifecycle allows: one     *)
(* Relay call per approval or retry, success only after a call that          *)
(* succeeded.                                                                *)
ImplementsLifecycle == Lifecycle!Spec

=============================================================================
