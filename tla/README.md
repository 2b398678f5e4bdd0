# Verification of ai-efficiency

TLA+ models of the parts of ai-efficiency in which several requests, workers,
processes or client machines work on the same state, the configurations that
check them with TLC on small instances, and theorems proved with TLAPS for every
instance. Source paths below are relative to the repository; `Module!Name` is a
definition of a module in this directory.

Contents: [the system](#1-the-system) · [modules](#2-the-modules) ·
[runs](#3-the-runs) · [proofs](#4-what-is-proved) ·
[disagreements](#5-disagreements-between-the-code-and-its-documents) ·
[not modelled](#6-what-is-not-modelled) · [plan](#7-plan).

## 1. The system

ai-efficiency attributes the AI usage of a company's developers to their commits
and pull requests, and manages their access to an external *Relay* (sub2api). It
is a Go backend (a modular monolith on Gin, Ent, Postgres and Redis, any number
of replicas, and a separate prewarmer process), a Vue frontend, and `ae-cli`, a
Go program that Git hooks start on the developers' machines. External systems:
the Relay, SCM providers (GitHub, Bitbucket), a company directory.

### Components

| component | state | operations | interacts with |
|---|---|---|---|
| Quota reset requests (`quotareset`) | `quota_reset_requests` rows with a versioned workflow document and a revision; audit events | create, cancel, approve, reject, retry, the reset execution | the Relay (one call per execution); directory routing; the Work Items revision |
| Work Items counts (`workitems`, `readcache`) | one revision row; Redis values and leases per user, role and revision; process-local flights | `GetOrLoad`, invalidation in the transactions of others | quota reset, directory sync (they invalidate); the Relay (AI access) |
| Owner account operations (`owneraccount`) | `owner_account_operations` rows with a heartbeat; a partial unique index on the running row of an account | refresh of quota and referral, reset credit, send invitation, sweep, worker | the Relay (irreversible calls); the owner-account directory of `relayruntime` |
| Relationship Operations (`relayplanning/operation_*`) | `relay_group_mappings` with a baseline and its revision; Operations, their owners, steps and attempts | Confirm of a plan, execution, Recovery Preview and Confirm, the settling at a start | the Relay (group, account and user relationships) |
| Attribution (`attributionclaim`, `attributionpool`, `attributionreconcile`, `attributionledger`) | claim groups and request claims (hot, they expire), usage pools (durable) | ingest, reconciliation, finalization, cleanup | the CLI (groups), the Relay (request usage), rewrites |
| Checkpoints and rewrites (`checkpoint`) | commit checkpoints, saved rewrites with lineage | record a checkpoint, record a rewrite and apply it to claims and pools | attribution |
| Background jobs (`accountquota`, `prsync`, `adminsubscription`) | a job row with status and progress | start, progress, finish, abandon when stale | the Relay, the SCM |
| Relay runtime (`relayruntime`) | the provider client, metadata and directory caches with generations, flights | read through, invalidate, rebind | everything that calls the Relay |
| Team usage prewarm (`teamusage`, `cmd/prewarmer`) | a Redis lease, values and a manifest | refresh cycle, publish under the token | the Relay, usage views |
| Directory sync (`directorysync`, `directoryfacts`) | runs, facts, disabled users | preview, apply, disable Relay users | the directory, the Relay |
| OAuth and login (`oauth`, `auth`, `authstate`) | short-lived entries in Redis or memory | device flow, authorization code, token exchange | the CLI, LDAP, the Relay |
| CLI sync task (`ae-cli/internal/hooks`) | task state file, queue, lock files, wake requests | hook runs, sync passes, delivery | attribution and checkpoints over HTTP |
| CLI attribution store (`ae-cli/internal/attributionlocal`) | local claims and delivery states | collect, deliver, settle | the same |
| Team accounts (`teamaccount`, `orgaccount`) | previews, Relay subscriptions | preview, grant, renew | the Relay |
| Repositories, SCM, webhooks, PR usage | repo configurations, PR records | bind, receive events, compute totals | SCM, pools |
| Usage views, admin users, handlers, platform services | none of their own | queries and request parsing | all |
| Frontend (`frontend/src`) | Pinia stores | views; a generation-checked Work Items store | the API |

### What is hard, and what makes each part correct

* **Quota reset.** A handler reads a row, leaves the database and writes later;
  a retry can run beside the approver's own execution; the Relay call cannot be
  undone. Correct: one decision closes a request, none is lost, nobody decides
  what he may not, at most one reset at a time and one call per approval or
  retry, success only after a call that succeeded, one active request of a
  requester and group id, and the counts others see invalidated with every change.
* **Work Items counts.** Four layers (revision, flight, Redis value, lease), each
  of which may answer late, fail or forget. Correct: an answer is one revision
  of all queues, not older than the call; a stored value is whole; nobody
  releases the lease of another; every call returns.
* **Owner account.** Irreversible upstream mutations behind gates that were read
  earlier; a worker that lives or dies on its own and a sweep that guesses.
  Correct: an attempt is preceded by an observation made after the attempts the
  gates saw; two mutations overlap only after the older was taken for dead; a
  settled row keeps its outcome, although terminal writes are repeated; no account
  stays blocked.
* **Relationship Operations.** A plan of many external writes that may be
  interrupted anywhere and is resumed or restored by someone else. Correct: one
  writer of a Mapping; owned while open; recoverable; promoted once; a Mapping
  nobody owns records what the Relay holds.
* **Attribution.** Appends, asynchronous reconciliation, rewrites and
  finalization move the same contribution. Correct: each request and local count
  is in exactly one pool of its line of commits; a stored request points to the
  pool it is in; an outcome is final; nothing is dropped without an outcome.
* **Background jobs** (quota sweeps, PR syncs, subscription jobs, directory
  applies). A worker outlives the cutoff after which its row is abandoned; rows
  are updated by id, with or without a look at the status; the work and its
  record are in two systems. Correct: workers of one scope overlap only where
  the service has no check or the older was given up; a row reports what was
  done; a stored outcome stays, but for a failure over a completion its worker has
  not heard of; a job in flight ends.
* **CLI sync**. Processes of Git hooks meet in files only: a lock that is taken
  over when its owner is dead, a wake file for the one that may wait, a task per
  workspace that hooks merge into while a runner works from a copy. Correct: no
  stored trigger is lost; passes are serial; work that is stored is done without
  another hook.
* **Relay runtime, prewarm, delivery of the CLI, OAuth** (not modelled yet):
  generations of caches, tokens that fence a publication, deliveries that are
  repeated, codes that are used once.

The hazards, each with its line and the properties that cover it, are in
`PROJECT.json`.

## 2. The modules

| module | models | stands for |
|---|---|---|
| `QuotaResetWorkflow` | the approval document: `workflow.go`, the end of `resolver.go` | pure operators |
| `QuotaReset` | requests and handlers: `service.go`, `workflow_service.go` | extends the document |
| `QuotaResetLifecycle` | what a request promises (abstract) | `docs/contracts/quota-reset.md` |
| `ReadFlight` | `readcache/flight.go` | shared loads of a process |
| `WorkItemsCounts` | `workitems/cache.go`, `revision.go`, `readcache/store.go` | extends the flights |
| `OwnerAccount` | `owneraccount/` store, mutations, worker | one account |
| `RelationshipOperation` | `relayplanning/operation_*.go` and the paths of `service.go` that execute a plan | several Mappings and Operations |
| `RelationshipPromise` | what Relationship Operations promise | abstract; `RelationshipOperation` implements it |
| `AttributionLedger` | `attributionclaim`, `attributionpool`, `attributionreconcile`, rewrites of `checkpoint` | one user's groups |
| `BackgroundJob` | the jobs of `accountquota`, `prsync`, `adminsubscription` and the applies of `directorysync` | one kind and one scope |
| `MachineSync` | `ae-cli/internal/hooks`: `sync_task.go`, `background_runner.go`, `schedulePendingSync` | one machine |
| `AttributionLedgerInvariants` | what the tables of the ledger say of each other between the steps of a rewrite | extends `AttributionLedger` |
| `QuotaResetProofs`, `WorkItemsCountsProofs`, `OwnerAccountProofs`, `MachineSyncProofs`, `RelationshipOperationProofs`, `BackgroundJobProofs`, `AttributionLedgerTableProofs`, `AttributionLedgerProofs` | theorems | |
| `MC*` | instances for TLC | |

The components meet in two places. A quota reset decision changes the Work Items
revision in its own transaction: `QuotaReset!RevisionTracksWorkItems` is what
`WorkItemsCounts` assumes of a mutation (`Mutate` changes the revision and the
tables together). And `AttributionLedger` composes four packages around the same
three tables. The comment at the head of a module says what it leaves out; the
comment at a definition says which function it is.

Conventions: a step is one database transaction, statement or external call;
between steps anything else may happen. A program counter (`pc`) names the step a
handler, worker or executor is about to make. Definitions that begin with the
comment *Mutant* are wrong on purpose: substituted for the definition that
follows them they make a named property fail, which shows that the property
depends on that line of the code. They are used nowhere else.

### QuotaReset

`row` is the table, `events` counts audit events, `wiRev` stands for the Work
Items revision, `calls` and `resets` count what the Relay was asked and what it
did, `hdl[h]` is an HTTP handler with the row it read. Actions in pairs: `...Load`
is everything up to the write, `...Commit` the transaction with its predicate
(`Unchanged` is `StatusEQ` and, for version 2, `WorkflowRevisionEQ`), `LoseRace`
the answer when no row matched. `Reread`, `StartReset`, `ResolveProvider`,
`CallRelay`, `StoreSuccess`, `StoreFailure` are `executeReset` in its order. With
`Faults` a handler may vanish at any step and any transaction may fail; a commit
whose reply is lost is a commit followed by a crash. Routes are a constant: the
department graph decides which of them a request gets. A group id is a text a
client writes (`GroupIds`); `ParseInt` gives the number by which `findSubscription`
and `executeReset` find the Relay's group, and 0 for what is no positive number. The
row, the check and the index keep and compare the text, so a scope (`ScopeOf`) is a
requester and a text.
`QuotaResetWorkflow!ApproveStep` states the result of the loop of `Decide` at
once; `ApproveIsLoop`, an assumption of `MCQuotaReset` that TLC evaluates before
its runs, compares it with the loop as it is written.

### ReadFlight and WorkItemsCounts

A flight is shared by the callers of one process; the last that leaves cancels
it. A load follows `loadWithLease` and `loadAsLeaseHolder`, one Redis command or
query a step. Query results are named by the revision at which they were taken,
so that "counts of one revision" is `approvals = others`. `since` records the
revision at the call and exists for the properties only. `Faults` selects what
fails: Redis (any command, also after taking effect), the database, the contexts
of callers, the timeout of loads, processes.

### OwnerAccount

`rows` is the operations table of one account in order of creation. Times are
only compared with the creation of rows, so a time is the number of rows there
are. A mutation passes `ReadLast`, `PassGate`, `PassCap` (each a query of its
own), then `InsertRunning`, one transaction that sweeps, checks and inserts. The
worker executes, answers, and `Finish` writes by id. A terminal write may end in an
error before or after its commit and is then made again, up to `Tries` times in all
(`FinishUnheard`): a row that is settled may have a worker that writes it once more,
at a later time. `written` holds the times at which the outcome of a row was written.
Ages, the cooldown and the 24-hour window are not modelled, so that a gate may always
refuse. A commit of the insert whose reply is lost is `InsertRunning` followed by
`WorkerDies`. Not modelled: a terminal write that ran into its timeout and takes effect
only after the worker has gone on.

### RelationshipOperation

One relationship per Mapping stands for all its steps: its value in the Relay is
the key of the Operation whose target it holds. An executor is the goroutine of
a Confirm or of a Recovery Confirm. `Confirm`, `Preview`, `Capture` and `Begin`
are the reads and the transaction of `ExecuteReplan`, which span four moments;
`fresh` records (for the properties) whether they saw the same. Every error path
leads where the code's `return` leads (`OnError`). A commit whose reply is lost
is made and then followed by the error path; so is an interruption
(`InterruptUnheard`), which the deferred interrupt then repeats, maybe over a recovery
begun in between. An Operation grows `old` only when
nobody works on it: that is the margin between the 5-minute budget and the
7-minute cutoff, and an assumption.

`RelationshipPromise` states what all this is for, without executors, steps,
attempts and captured revisions: an Operation takes all its Mappings or none,
writes only what it holds, and lets go in the step that promotes every baseline
at once or with the Relay back at the baselines. `Promise` maps the tables to it
(`PhaseOf`, `Held`). Its variable `heard` ends the promise when the reply of a commit
or of an interruption is lost, `current` what it says of the Relay when an Operation began on a stale
read; both cases are hazards of the code, not of the model.

### AttributionLedger

A pool is named by its set of commits (one repository, provider, model and
15-minute bucket). Ingest, reconciliation, finalization and cleanup lock the
group row first and are one step each. A rewrite reads groups and pools before it
locks them, under READ COMMITTED, and takes several: `RewriteBegin` (lineage lock
and the read of hot groups), `RewriteGroups`, then per pool `ReadPool`, `MovePool`,
`DeletePool`, and `RewriteCommit`. Rows a rewrite has written are held until its
commit and block others. Rewrites that fail are those that fail before they
write, because others see nothing of what is rolled back. `lost` and `overlapped`
are history variables for the properties: what a rewrite deleted beyond what it
had read, and whether a client sent the old commit while its rewrite was being
applied.

Left out here: cherry-picks and orphan flags (they count nothing), calibration, owner
checks, retry delays. `pending` also stands for `provider_unavailable`, `failed`
for every other terminal status. A turn goes into at most the two commits of the
instance.

### BackgroundJob

Four services keep a job as a row: a request inserts it, a detached worker moves
it, and it is given up when nobody seems to. They differ in small ways that
decide what goes wrong, and those ways are named sets: `Indexed` (a partial
unique index), `WritesInFlight` (the worker's UPDATE asks for a row in flight),
`StaleByUpdate`, `SettledByReads`, `ProgressOptional` (a progress that cannot be
saved is only logged). `kind` is chosen at the start of a behaviour. A request
is `Begin`, `SettleFirst`, `Check`, `AbandonStale`, `Insert`; a worker is
`WorkerStart`, then `WorkerCall` and `WorkerSave` for every target, then
`WorkerFinish` or `WorkerFail`. `done` is what the worker did in the other
system, `listed` what the row says. A row becomes old at any time: a worker may
always overstay. `marked` is the set of running sources each process of the
directory sync holds in memory. The check of `prsync` looks at the newest row in
flight and, when that is stale, at no other: after two requests have passed the
check together a third may start beside the older of the two, and
`OverlapIsExcused` says so with the rows between. A write that fails may have been
committed (`WriteUnheard`): a sweep or a sync then logs the error, but a subscription
job or an apply goes on to write `failed` by id over its own completion. The status an apply or a preview run goes
through beside its facts (drift, DSL errors) and the contents of results are left
out.

### MachineSync

`task` holds the task file of each workspace, `runLock` and `wake` the two files
of the machine, `hook` and `run` the processes. A hook stores its trigger
(`Upsert`), claims the right to start a runner (`ClaimSpawn`) and starts it
(`Spawn`). A runner tries the lock, removes a stale one (`BreakLock` does not look
again: that is the code), waits behind the wake file or leaves, removes the wake
file as owner (`Own`), and drains: `List`, then per workspace `Prune` (the task is read
again, and its generation is the one a failure blocks), `Recover` (checkout and reload), `Lease`, the pass, and its end: `Complete`, `QuantumEnds` (five minutes
of a workspace), `OwnerYields` (ten minutes of the runner) or `PassFails`.
`Release` removes the lock, `StartSuccessor` starts another process when the
deadline was the first error. `ae-cli sync` is a hook that brings no trigger and
runs by itself (`Manual`).

`accepted`, `processed`, `raced`, `cleared`, `excused` are history for the
properties: triggers stored and delivered, whether the lock of a live process was
removed, whose lease was ended under it, and which workspaces something went
wrong with since the last runner was started. The set of workspaces in `excused`
is what an unconditional promise has to except: a crash, a refused lock, a
failing pass or checkout leaves the work to the next hook, and the code says so.

Simplified: a critical section of a task's lock is one step and shorter than the
30 seconds after which that lock is broken; a lease does not end by age, a
process identifier is not used again; creating the lock file and writing the pid
is one step (a crash between the two leaves a lock that is stale only after an
hour); removing the wake file of a dead waiter and claiming it anew is one step;
the list of tasks is one snapshot. One
scope (server and owner). Triggers are younger than the 90 days after which `Prune`
would drop them; quarantine, migration of older files and the status command are left
out.

## 3. The runs

All runs set `CHECK_DEADLOCK FALSE`: an idle service may do nothing. Symmetry is
used in runs without liveness only. The mutants that break each property are in
`PROJECT.json`.

| run | configuration | what it shows |
|---|---|---|
| `quota_reset_race` | 3 handlers on one request, a route of three nested steps and one of two, faults, 2 starts | the inductive invariant with the documents; decisions, retries and executions that race: exclusive reset, one closing decision, no lost decision, justified approval, refinement of the lifecycle |
| `quota_reset_scope` | 2 requests, one of version 1, of 2 users who are no administrators, 3 group ids (two spellings of one group, one that is no number), 2 handlers, no faults, fair | one active request of a requester and group id; every started reset ends |
| `work_items` | 2 callers and 2 loads in one process, contexts and the process fail, 1 mutation | the inductive invariant; flights are shared safely; counts of one revision |
| `work_items_return` | 2 processes, timeouts, crashes, failures of Redis and of queries, no mutation, fair | leases end by their owner; every call returns |
| `owner_account` | 2 requests, 3 rows, cap 2, 2 tries of a terminal write, faults, fair | the inductive invariant; justified admissions, overlap only after a sweep, settled rows keep their outcome, operations end |
| `owner_fresh_at_start` | 2 requests, 3 rows, no faults | *violation*: see section 5 |
| `relationship_operation` | 2 Mappings, 2 Operations (one over both), 2 executors, 3 attempts, 2 faults of any kind | one writer, recoverability, alignment, promotion once, refinement of the promise |
| `relationship_restart` | 1 Operation, 2 executors, 1 crash, fair | *violation*: see section 5 |
| `attribution_ledger` | a Relay turn with one request and a local turn, each into `a` then `b`; rewrites of `a` to `b` or `b` to `a`; 2 workers | exact attribution, pointers, finality, completeness of rewrites |
| `attribution_rewrite_race` | the local turn and one rewrite | *violation*: see section 5 |
| `background_jobs` | each of the 4 kinds, 2 requests in 2 processes, 2 rows of 2 targets, faults, fair | whose workers overlap, what a row reports, which outcomes stay, that jobs end |
| `machine_sync` | 2 workspaces, 5 processes, up to 3 of 3 hooks and `ae-cli sync`, faults and deadlines, fair | the inductive invariant; serial passes; stored work is done |

### Bounds

* `MaxStarts` bounds the resets of a request (2: the first and a retry), in the
  scope run of both requests together. With 2 starts a failure, a retry and a
  late store of the first can meet. Three handlers let two race while a third
  executes. One spelling of one group is enough for the races on one request; the
  scope run has two spellings of it, both of which may be active.
* `MaxRevision` bounds mutations: 1 gives a key that is current, one that was,
  and a load begun under each. The liveness run has none, since every mutation
  makes a caller start again and the code bounds that with its context only.
* `Loads` is a pool: a finished load is reused when nobody can see it.
* `MaxRows = 3` of an account: an attempt, an observation, another attempt; or
  two attempts racing for one observation and one more row. Terminal writes are
  tried twice (three times in the code). That a repeated write of an observation
  serves a later attempt at the gate takes a fourth row, which is not in these bounds:
  the theorems are about any number of rows and tries.
* `MaxAttempts = 3` and `MaxFaults = 2`: an execution, a recovery in each
  direction, each failing once in any of the ways. Two Operations, over one and
  over both Mappings, overlap in one Mapping.
* Two rows of a job and two targets: a worker that was given up meets its
  successor, and stops before, between and after its targets. No fault is
  counted: any statement may fail and any process die, any number of times. That
  a third `prsync` job meets the older of two needs three rows, which are not in
  these bounds: the theorem `OverlapsAreExcused` is about any number.
* The hooks of `machine_sync`: `h1` and `h2` commit in one workspace, `h3` in another,
  `m` is `ae-cli sync` in the first. A behaviour is one of five kinds
  (`SomeBounds`): three of them with one fault, three with one deadline, two with
  two faults and two deadlines. Two stale locks need one crash and two more
  runners; a deadline while another waits needs one of each. Five processes are
  enough for every hook and every successor in these bounds; a generation grows
  with the hooks.
* Two commits, one request and one local turn: a pool can be shared by both
  turns, and every operation meets a pool it must create, share, empty or
  delete. Usage grows from 1 to 2. Longer chains of rewrites are not in these
  bounds.

### Fairness

* `quota_reset_scope`: a handler that has begun makes its next step (weak). There
  are no faults: the code has nothing that settles a reset whose process died,
  and `docs/contracts/quota-reset.md:111` leaves it to explicit reconciliation.
* `work_items_return`: runnable goroutines run (weak), a load's shared context
  ends (`RefreshTimeout`), a lease ends (its TTL). `StartFlight` is strongly fair
  because only the bound on loads can disable it again. Nothing makes Redis
  answer or a value expire.
* `owner_account`: workers run, a heartbeat nobody renews ages, and somebody asks
  for the operations, which sweeps. A worker may die or stall at any step.
* `relationship_restart`: executors run, an instance that stopped is replaced,
  time passes. Nothing makes an instance stop again.

* `background_jobs`: requests and workers run on (weak), rows age, an administrator
  reads the jobs (which settles stale ones), requests come again, and not each
  of them fails before its check (strong). For an apply that lost its worker
  `JobEnds` claims nothing: no code settles it.
* `machine_sync`: processes that can run do (weak). Nothing is promised about
  crashes, refusals and deadlines, and no hook has to come.

## 4. What is proved

`tlapm` proves the following for all values of the constants, under the named
assumptions of the modules.

**`QuotaResetProofs`** (any users, groups, routes, requests, handlers; faults or
not). The inductive invariant is `IInv == TypeOK /\ ResetExclusive /\ HandlerInv /\
AuditInv`. `ResetExclusive` alone is not inductive: that a second execution cannot
enter needs to know what every handler between its steps still relies on
(`HandlerInv`: which status it read, that its start is committed, that its call
was made), and the audit counts that tie status, starts, calls and resets
together (`AuditInv`). Both are written over a handler and over a request as
values, so that one lemma, `StepPreserves`, carries every step of one handler on
one request, and each action only has to show where its handler and its request
end up.

| theorem | statement |
|---|---|
| `TypeCorrect` | `Spec => []TypeOK` |
| `Inductive` | `Spec => []IInv` |
| `OneResetAtATime` | `Spec => []ResetExclusive` |
| `StartedBeforeCalled` | `Spec => []CallsAreStarted` |
| `DecidedOnce` | `Spec => []OneClosingDecision` |
| `SuccessWasReset` | `Spec => []SuccessIsReal` |
| `ClosedStays` | `Spec => ClosedIsFinal` |
| `ScopeIsExclusive` | `Spec => []OneActivePerScope` |
| `DocumentsInductive` | `Spec => []FullInv` |
| `DecisionsAreKept` | `Spec => []NoLostDecision` |
| `ApprovalsAreLawful` | `Spec => []ApprovalJustified` |
| `CountsFollowRequests` | `Spec => RevisionTracksWorkItems` |

The last four rest on `FullInv == IInv /\ DocumentInv`. `DocumentInv` follows the approval
document from its insert to the reset: `RowOK` says of a row that its version fits
its status, its document keeps the promises of `QuotaResetWorkflow` with its steps
in order (`DocOK`, `InOrder`), and the revision and the audited approvals count the
approved steps. `InsertOK` and `DecideOK` say the same of what a handler carries
between its read and its write: a decision computed from an older read either
still has its own document in the row, or another revision to lose its
compare-and-swap against. `InOrder` makes it inductive: without it an approval
could close a document whose earlier step is still open. The lemmas
`ApproveKeeps`, `RejectKeeps`, `AdvancedSteps` and `NewDocument` are about the document
operators alone; that `Approve` computes what the loop of the code does
(`ApproveIsLoop`) stays with TLC.

The last section of the module proves `Refinement`, `Spec => ImplementsLifecycle`. Each action of
`QuotaReset` is a step of `QuotaResetLifecycle` or a stutter, with the invariant
above and that an execution belongs to one handler.

**`WorkItemsCountsProofs`** (any processes, callers, loads, revisions, faults):
`Inductive` (`Spec => []IInv`), `CountsFresh` (`Spec => []CountsAreOneRevision`) and
`StoredWhole` (`Spec => []StoredIsWhole`). The invariant says of every load, at
each of its steps, what its counts are worth relative to the revision of its key,
and of every waiting caller that the load it waits on has its key: nothing about
leases is needed, which shows that a lost or doubled lease costs work and never
a wrong count.
`FlightsStayShared` (`Spec => []FlightsAreShared`) is about the flights
alone, from an invariant that counts the callers of each call (`FlightInv`:
`CallCounted`, `EntryRuns`). `LeaseIsItsOwners` (`Spec => LeaseEndsByOwner`) is about the
leases: only `ReleaseLease` of the holder and the passing of time end one.

**`OwnerAccountProofs`** (any actions, requests, cap, tries and number of rows; faults or
not): `TypeCorrect`, `Inductive` (`Spec => []IInv`), `AdmissionsAreJustified`
(`Spec => []AdmissionsJustified`), `OverlapIsSwept` (`Spec => []OverlapNeedsSweep`) and
`SettledOnce` (`Spec => SettledStays`). The invariant is `TypeOK /\ SlotInv /\
AdmissionInv`. `SlotInv`: a row runs, or was swept, or is `Settled`, and whoever still
works on a settled row is only about to write the same again; no row after one that
runs is without an outcome. So a claim of the slot that finds nothing running
overlaps only with calls for swept rows. `AdmissionInv`: what each gate has established
is still true when the next gate, and at last the insert, uses it. That holds because
the table only grows (`TableGrows`): no step changes what a request wrote into a row
or takes an observation or one of the times it was written away; a repeated write adds
a time. `AdmissionsJustified` is about the
attempts that existed when the request read them, which is all the gates can give;
the contract asks for more (section 5).

**`MachineSyncProofs`** (any workspaces, hooks, homes, runners and bounds, with every
kind of fault): `Invariant` (`Spec => []IInv`) and `Serial` (`Spec => []PassesAreSerial`).
`IInv` joins what hooks rely on, `NoTriggerLost`, with the two rights by which a
runner acts, `OwnerHoldsLock` and `PassHoldsLease`, and what makes them inductive:
`FoundDead` (who was found dead is dead for good, so the lock a runner removes is
either that one's or was created since, which `raced` records) and `InMemory` (a
write from memory writes a task). Every write of a task is shown to be `Lossless`
except that of `Complete`, which removes delivered triggers only, and `LeasesStay`:
nobody but its holder ends a lease unless `cleared` says so. `Drains`, `RunnerMoves`
and `HookMoves` carry the steps of owners, of other runners and of hooks.
`PassesAreSerial` follows: two owners cannot both hold the lock, two passes not
both the lease.

**`RelationshipOperationProofs`** (any Mappings, keys, plans, executors and bounds,
with every kind of fault): all invariants of the component, and the refinement of
its promise, from one `IInv == TypeOK /\ Control /\ Ownership /\ Evidence`.

| theorem | statement |
|---|---|
| `TypeCorrect` | `Spec => []TypeOK` |
| `SingleWriter` | `Spec => []OneWriter` |
| `OwnershipFollows` | `Spec => []OpenIsOwned` |
| `StaysRecoverable` | `Spec => []OpenIsRecoverable` |
| `FreeIsAligned` | `Spec => []AlignedWhenFree` |
| `PromotesOnce` | `Spec => []PromotedOnce` |
| `KeepsThePromise` | `Spec => ImplementsPromise` |

`Control` needs no reply to be heard: an Operation has one executor at work, which finds
it busy and not old, unless the reply of a commit or of an interruption was lost; an
initial execution promotes at most once although it may then write beside a recovery;
and a promotion goes past the captured revisions, so that no later compare-and-swap finds
them again; `PromotedOnce` follows even with lost replies. `Ownership` (owned exactly
while open, one owner of a Mapping, captured revisions untouched while owned) and
`Evidence` (a verified step tells what the Relay holds, a recorded baseline what the
Mapping holds) hold until a reply is lost, which is what `Heard` in the properties
says. `OpStepKeeps` carries every step on one Operation that no other executor works
on, `ExecStep` every step that changes only the executor, `ElapsesKeeps` crashes,
time and starts. The proof needs at least one attempt to be allowed
(`RelationshipOperationAssumption`).

`KeepsThePromise` goes in two halves. `NextShape` says what any step does to
Operations, Mappings and Relay, whoever makes it: nothing (`Quiet`), a write
(`Writes`), another lifecycle (`Turns`), a beginning, one of the three ends
(`EndsAs`), or what a start settles. `PromiseStep` then maps each shape to an action of
`RelationshipPromise`. One thing more than `IInv` is needed, `Credited`: what a
baseline records was promoted by the Operation it names, which is then applied,
so that no resumption closes an Operation on a promotion found made unless a
reply was lost. `OpenIsOwned` is proved (`OwnershipFollows`) and not
among the properties of the run, which checks it as a part of the refinement.

**`BackgroundJobProofs`** (any requesters, processes, rows and targets, each kind of
job, with every fault):

| theorem | statement |
|---|---|
| `Invariant` | `Spec => []IInv` |
| `TypeCorrect` | `Spec => []TypeOK` |
| `OverlapsAreExcused` | `Spec => []OverlapIsExcused` |
| `ReportsAreTrue` | `Spec => []ReportIsTrue` |
| `OutcomesStay` | `Spec => OutcomeStays` |

`IInv == TypeOK /\ Rows /\ Later /\ Requested /\ Marks`. `Rows` is about one row and its
worker: a worker at work has no outcome in its row, or one whose write it takes for
failed (`Unfinished`), has come as far
as its step says (`Reached`), and lists what it did (`Reported`). `Later` is the
overlap without the processes: what may stand beside a row whose worker still holds
it. It is inductive only with `Requested`, the same statement about a request that
has passed its check and not yet inserted, relative to the rows there were at the
check; an insert turns the one into the other. `Marks` adds the processes of an
apply. A first attempt at this proof failed at the third row of `prsync`: the
property had excused only the two workers' own requests.

**`AttributionLedgerTableProofs`** and **`AttributionLedgerProofs`** (any finite sets of
commits, turns and requests, any rewrites and workers): all seven properties of
the component.

| theorem | statement |
|---|---|
| `Invariant` | `Spec => []IInv` |
| `NothingIsLeftBehind` | `Spec => []NothingLeftBehind` |
| `OutcomesAreFinal` | `Spec => OutcomeIsFinal` |
| `TypesHold` | `Spec => [](TypeOK /\ PoolRows)` |
| `AccountsHold` | `Spec => []Accounts` |
| `AttributedExactlyHolds` | `Spec => []AttributedExactly` |
| `LedgerHolds` | `Spec => []LedgerInv` |
| `PointersAreHeld` | `Spec => []PointersHold` |
| `OnlyOverlapsLose` | `Spec => []OnlyOverlapLoses` |
| `RewritesComplete` | `Spec => RewriteCompletes` |

*Outcomes.* `IInv` adds to `NothingLeftBehind` that only a pending request carries a
lease token (`LeasedIsPending`, why a late answer meets no outcome) and that a
request comes with its group (`NoneBeforeGroup`). Each action is shown to be
`Lawful`: an outcome appears where there was none, in a hot group, and a group
becomes final only without pending requests.

*Accounts.* The properties speak of the pools when no rewrite is under way
(`Idle`); the invariant that implies them, `LedgerInv` in
`AttributionLedgerInvariants`, has to speak of every step in between, and of every
set of pools at once. Its parts, each inductive with those before it:

* `Rows`: types, and what makes them hold. That no total becomes negative
  (`TypeOK`) needs no balance: each caller of `subtractContribution` tests what the
  pool holds (`CanTake`), and gaps are in pools of their own (`Apart`).
* `Lines`: the rewrites form a forest in which every commit leads to one end, in
  fewer steps than its line has commits (`Settles`). `Terminal` is a recursive
  function over numbered steps; the lemmas `SettledTerminal` and `TerminalIs` show
  it to be the end of any walk along the rewrites, with no induction over data.
  A new rewrite joins two lines (`Merged`). A counted request points into its own line.
* `RewriteRows`: what a rewrite has read is still so when it writes: the hot groups
  it took stay hot, and what it takes from a pool is of the old commit.
* `Balanced`: for every set of pools closed under lines, what they hold and what
  was deleted beyond what was read add up to what claims, turns and gaps owe
  them, plus what the rewrite has merged and not deleted yet (`Double`). It is
  stated a field at a time (`Columns`), because the sums of integers are what the
  lemmas about sums are about. `AttributedExactly` is the case of one line with no
  rewrite under way. Balance alone cannot be kept
  without `Lines`, since an append moves a request between pools whose lines must agree.
* `Alone` and `Covered`, while no commit was sent during its rewrite: nothing was
  lost, the pool a rewrite is about to delete still is what it read (`Solo`), every
  counted request points to the pool of its turn's commits (`AtHome`), and every set
  of pools counts at least the pointers into it and the usage of hot local turns
  under it (`Covered`). The last is an inequality over sets of pools, because one
  pool is shared by requests and turns: what one of them takes out must leave
  enough for the others. `PointersHold`, `OnlyOverlapLoses` and `RewriteCompletes`
  follow; the violation of section 5 is what becomes of them without the condition.

The sums are `SumFunctionOnSet` of the community module `Functions`. What the
proofs need of it (that it splits, that equal functions have equal sums, that it is
monotonic) is proved in the first section of `AttributionLedgerTableProofs` from a
smallest counterexample among finite sets, instead of an induction theorem.
The assumptions are those of the module: the three sets are finite, as tables
are, and there is a commit.

Only model-checked: all liveness (`ResetEnds`, `CallsReturn`, `OperationsEnd`, `JobEnds`,
`WorkIsDone`). Only proved, and in no run of its own: `ClosedIsFinal` (the refinement
contains it), `StoredIsWhole` (a part of `IInv`), `OpenIsOwned` (the refinement contains it) and
`LedgerInv`, of which the runs check the consequences.
That failures of Redis or of a query spoil no count is proved too: the runs let Redis and
the queries fail only where they ask for leases and returns. Liveness and `ENABLED` are out of the
prover's reach, and so is the loop that `ApproveIsLoop` compares with, which is a recursive operator.

## 5. Disagreements between the code and its documents

All of them are in `PROJECT.json` as findings, but those at the end. Three runs are
expected to end in a violation.

* `owner_fresh_at_start` — `docs/contracts/owner-account-console.md:66` requires an
  observation newer than the last attempt when a mutation starts. The gates are
  read before the running slot is claimed and not read again: two requests pass
  them on the same observation, the first runs and ends, the second starts.
* `relationship_restart` — `docs/architecture.md:531` says that a restart during a
  detached execution cannot leave a Mapping permanently operating. Only a start
  settles Operations, and it takes those older than the cutoff: one that was
  younger at the restart stays until another restart.
* `attribution_rewrite_race` — `docs/contracts/attribution-v2.md:254` and
  `docs/architecture.md:910` say that totals are conserved. A rewrite reads a pool,
  adds what it read to another and deletes the first by id: an ingest in between
  is deleted with it. `OnlyOverlapLoses` of `attribution_ledger` shows that nothing
  else can be lost this way.

Four properties hold only because they say less than a document does. The run of each
reaches what is left out, but where noted.

* `OneActivePerScope` (`quota_reset_scope`) — `docs/contracts/quota-reset.md:19` has one
  active request for a requester, provider and group. The group id is trimmed
  (`quotareset/service.go:92`) and matched to the Relay's group by `ParseInt` (`:575`), but
  the check (`:604`) and the partial unique index compare the text: "7" and "07" are
  one group and two active requests.
* `AdmissionsJustified` (`owner_account`) — the contract line above again. A terminal
  write whose reply was lost is repeated (`owneraccount/store.go:402`) and sets
  `finished_at` of a settled observation to a time after a later attempt, whose result
  the next gate then takes for observed. The run repeats writes; that one of
  them serves a third attempt needs a row more than it has.
* `OutcomeStays` (`background_jobs`) — `docs/contracts/directory-sync.md:66` says that a
  failed apply changes neither facts nor the Work Items revision. When the commit of
  `completeApplyRun` is made and its reply is lost, `failRun` writes `failed` over the
  completed run (`directorysync/service.go:423`): the facts are replaced, the revision
  has advanced, and the source's last successful run is a failed one, which no
  reader of the company view accepts. A subscription job is failed over its completion
  in the same way (`adminsubscription/job.go:249`).
* `PassesAreSerial` (`machine_sync`) — `docs/architecture.md:874` and
  `docs/contracts/attribution-v2.md:146` say that one transient owner serializes the work
  of a machine. Two processes that find the same lock stale remove it one after the
  other (`hooks/sync_task.go:950`), the second removes the lock the first has just
  created, and both run. The property excepts machines on which that happened (`raced`).

Others were met while modelling.

* `docs/architecture.md:874` and `docs/contracts/attribution-v2.md:147` say that a
  detached owner exits after ten minutes and starts one successor for retained
  work. `drainPendingSyncTasks` returns its first error: if a workspace failed
  before, the deadline is hidden and no successor is started (`OwnerYields` puts
  such a workspace into `excused`).
* `docs/contracts/account-quota-sweep.md:399` calls `abandoned` terminal. A worker that
  overstayed writes by id and turns the row into `completed`; `OutcomeStays` is about
  outcomes of workers for that reason. The same contract (line 187) has success,
  failed and skipped add up to the total, but a last `UpdateProgress` that fails is
  only logged and leaves the counts behind.
* `prsync` reads a stale job and abandons it by id afterwards: a job that completed
  in between becomes abandoned (`OutcomeStays` excepts the kind).
* The comment at `relayruntime/owner_account.go:77` says that the next read after an
  invalidation reloads, whatever load was in flight. `loadOwnerAccounts` shares the
  flight by its key: the read joins a load that began before the invalidation and
  returns it. Only the cache is protected (`storeOwnerAccounts` compares generations).
* `Rebind`, `SaveDesiredAccounts`, `AdoptCurrentAccounts` and Mapping Renewal
  (`relayplanning/service.go:3511`, `:3446`, `:3340`, `:3115`) do not look for an open
  Operation and do not change `baseline_revision`: the promotion of an Operation that
  was open meanwhile overwrites them.
* An apply run whose process died stays queued or running, and refuses every
  later apply of its source; an `ExecuteRun` that cannot read its run returns
  before it defers the end of its mark, and the source stays marked in that
  process.

## 6. What is not modelled

Of the modelled components: directory routing and approver configuration,
notifications and lists (quota reset); value encoding (Work Items); directory
views, ages and cooldowns (owner account); planning itself, the initial Execute,
Mapping Renewal, department migration and the direct writers of a Mapping
(relationships); the delivery queue of the client, cherry-picks and calibration
(attribution); the contents of results and the preview runs (jobs); expiry,
migration, quarantine and status of tasks (CLI sync). Known gaps that belong to them: a group sent again after its
server-side rewrite is refused; a commit first ingested after its rewrite was
applied is never migrated; a finalized group that was deleted and is sent again
is counted again; a hook whose `Upsert` is refused leaves no trigger at all; an
offboarding action that succeeded can be overwritten by a concurrent failed
request (`directorysync/service.go:1241`).

Of the rest of the repository: `PROJECT.json` lists every part with the reason.
HTTP parsing, presentation, external clients, generated code and pure queries
keep no protocol state; the caches of the Relay runtime, prewarm, offboarding,
OAuth state and the client's delivery do, and are in the plan.

## 7. Plan

Done, in order of importance: quota reset with its document and lifecycle, the
Work Items counts over flights and leases, owner account operations, Relationship
Operations, the attribution ledger with rewrites, background jobs, the CLI's
synchronization; the proofs about all of them.

Next, modules:

1. `OwnerDirectory`: the generations of `relayruntime` over `ReadFlight`.
2. `ClaimDelivery`: the delivery states of the client beside `AttributionLedger`.
3. `PrewarmManifest`: the lease and the token-fenced publication.
4. `DeviceGrant`: single-use codes over the optimistic store.
