# Verification of DataSage

DataSage (`src/datasage-canary-next/`) is a read-only data assistant for an ERP
database, with a set of scheduled workflows that compose business reminders and
deliver them to people through the WeCom application. This directory holds TLA+
models of its workflows and of its query tools, the TLC configurations that
check them on small instances, and TLAPS proofs about the components in which
several processes, threads, deaths or stages meet.

Paths below are relative to
`src/datasage-canary-next/plugins/datasage-query/` unless they start with `src/`.

## 1. Inventory

### 1.1 What kind of program it is

Two halves with little in common:

* **Scheduled workflows.** Short-lived processes started by a timer or by an
  operator. They share *files*: progress files, lock files, fences of targets,
  batch directories and heads, an activation file edited by hand; the live ones
  share a journal in a database instead. A process may die anywhere, the provider
  may accept a message and lose the answer, and two jobs may want one recipient at
  once. Nearly all that can go wrong needs several steps of several runs. These
  are transition systems, checked and proved.
* **Query tools.** From a request to one read-only SQL statement, and from its
  rows to an answer with claims and seals (`tools.py`, `query_*.py`,
  `analytical_queries.py`, `evidence.py`, `result_projection.py`). A call has
  threads, deadlines and slots, which are transition systems again; the rest is
  arithmetic on tables with gaps, where what goes wrong is a NULL, a join or a
  period. That part is operators, checked against reference definitions over every
  small table and every question of a family.

### 1.2 Components, state, operations, what makes them correct

| Component | State it keeps | Operations | Correct when | Here |
|---|---|---|---|---|
| Notification delivery (`workflow_io.run_bound`, `deliver_components`, `preflight_components`; `wecom_app_transport.py`; `slow_task_retry.py`; `workflow_slow_tasks.py`) | progress file of a job (component entries, manifests, history of generations, `upload-<key>` entries), job lock file, lock file and fence of a target | start a run, preflight, lock targets, archive a generation, upload, send a component, save the receipt, close a notification, retry, give up | nobody is told twice in a generation; text and file belong together; receipts are true; one notification at a time per target; an outcome in doubt stops everything it touches; a definite failure can be taken up again | `Delivery` |
| Price references (`price_workflow.py`, `price_reference.py`, `sales_price_runner.py`, `purchase_price_runner.py`) | head of a side, proof files, bindings in the progress file | observe, seal, bind, deliver, prove, commit, resume | the reference moves only after every party was told of the change; batches in order; a dead run can always be resumed | `Price` |
| Slow reports (`slow_report_runner.py`, `slow_report_batch.py`) | head of a week, one directory per phase and content generation, bindings | prepare, publish, record, bind, deliver, resend, regenerate, resume | each report fixed once, sent once per generation, weekly before monthly; no generation left half sent | `SlowReport` |
| Weekly baseline (`workflow_io.freeze_current_week`, customer plan cache) | a table of the database, `freeze` entry of the progress file, plan cache | freeze, refreeze, reuse | the week's rows change at most once per accepted freeze; a plan is never of another baseline | `Freeze` |
| IDK list (`idk_runner.py`, `idk_batch.py`) | a sealed list per week, its seal in the progress file | prepare, seal, deliver, forced resend | the recipients of a week read one list; no part more often than asked; a report of delivery is true; no death wedges the week | `Idk` |
| Live cycles (`workflow_cycle.py`, `workflow_live_prices.py`, `workflow_live_slow.py`, `workflow_live_store.py`) and acceptance delivery (`acceptance_delivery.py`) | a journal and a baseline in a database under a database lock, progress and lock files of acceptance cases | look, plan, send a batch or a phase, recover, commit, preview | exactly the changed prices told before the reference moves; phases in order, fixed once, no part told twice, also when the lock passes on under a sending run | `LivePrice`, `LiveSlow` |
| Read-only executor (`db_executor.py`, `db_runtime.py`) | one connection, one timer thread at a time, the deadline in force | connect, statement, tighter deadline, roll back, close | no rows after the deadline; no timer outlives its watchdog; nothing succeeds after a failure of its group | `Executor` |
| Query calls (`tools.py`, `query_batch.py`) | the slots of the process, the branches and caches of a call | admit, prepare, run in threads, link, expire, answer | slots suffice; an answer says what happened before the deadline; what is published together is of one state | `QueryCall` |
| Entities (`entities.py`, `entity_query.py`) | master data (external), reference cache, cache of a call | resolve, bind, prefetch | what is bound or resolved is what was named | `Entities` |
| Statements (`query_builders.py`, `query_periods.py`, `analytical_queries.py`) | none | question to statement | a number is the one its rows make, and unknown when one of them is; groups make up the whole | `Metrics`, `Analytics`, `Pools` |
| Evidence and projection (`evidence.py`, `result_projection.py`, `tools.py`) | none kept between calls | bind periods and states, claim, reconcile, seal, validate, project | what is claimed is true of the source rows; author, validator and projector agree | `Decomposition`, `Claims`, `Calculations`, `TargetGaps`, `Attestations` |
| Operations snapshots (`operations.py`) | accepted baseline and latest observation of a scope, a lock | observe, accept, compare | an accepted baseline is the one the operator saw | not modelled |
| Roles, recipients, packages (`workflow_roles.py`, `workflow_recipients.py`, `workflow_task_package.py`, ...) | none | rows to recipients and materials | pure | their result is the constant set of notifications |
| Contracts, access control, renderers | none | load, decide, format | pure | not modelled, see 9 |
| Health, review, evaluation and export scripts; `vendor/pymysql` | none of their own | inspect what the others wrote | – | not modelled |

### 1.3 How they interact

* A workflow runner calls `run_bound` with a callback. `run_bound` takes the job
  lock, reads the activation and the progress file, and hands the callback a
  `deliver` function; every outside effect goes through it.
* `deliver` is `deliver_components`: it saves the progress file *before* and
  *after* each call to the transport. The transport keeps files of its own (lock
  and fence of a target), which all jobs share. They are the only channel
  between two running jobs.
* Price and slow-report runners put a store of their own around the same
  delivery: they seal content first, bind it in the progress file, and then
  deliver. So each has three independent files (store, head, progress) whose
  writes are not atomic together; every recovery rule of theirs is about the
  combinations a death can leave.
* The live cycles put the same deliveries behind a journal in a database. Their
  lock belongs to a connection, so the server may free it while the process still
  sends; what a batch did is in files, which outlive both.
* A query call runs its branches in a pool of threads, each with an executor of
  its own or, when branches are linked, with one they share. The executor's timer
  is a further thread. The entities a request names are looked up before, with a
  cache of references that outlives the call.
* The activation file is edited by hand at any time, and read twice in a run:
  by `run_bound` and by the transport.

### 1.4 What is hard

1. A death between "in flight" on disk, the HTTP call, and the receipt on disk.
2. An answer that is lost after the provider accepted.
3. Two jobs with one recipient: locks are files, taken one after the other, and
   an operator removes them by hand after a death.
4. A forced resend archives generations one by one, and may die in between.
5. Fresh data differ from what an interrupted notification was made of.
6. Heads and directories written apart, with renames between.
7. Guards that look at *every* entry of a progress file, including entries other
   parts put there for their bookkeeping.
8. A lock of the database that passes on while its former holder still sends.
9. A deadline that passes while a thread is blocked in a socket, and a timer that
   fires late.
10. Branches of one answer that read different moments or, after a failover,
    different servers.
11. Amounts that are unknown, rows only one side of a join has, periods of unequal
    length, and rules that are written four times by four stages.

`PROJECT.json` lists each of these at the line where it bites ("hazards") with
the properties that would catch it.

## 2. Plan

Done, in the order of importance:

1. `Delivery` – every outside effect passes here; abstract `Outbox`. Checked, proved.
2. `Price` – the hourly reminders; abstract `PriceLedger`. Checked, proved.
3. `SlowReport` – the two reports of a week; abstract `ReportLedger`. Checked, proved.
4. `Freeze` – the transaction guarded by a file, what is built on it. Checked, proved.
5. `Idk` – the sealed list and its forced resend. Checked, proved.
6. `Executor` – timers against the query thread; abstract `Statements`. Checked, proved.
7. `QueryCall` – calls sharing slots, deadlines and failovers. Checked, proved.
8. `LivePrice` – the live price cycle; abstract `PriceLedger` again. Checked, proved.
9. `LiveSlow` – the live report cycle; abstract `StageLedger`. Checked, proved.
10. `Entities`. Checked, proved.
11. `Decomposition` – one relation under four stages. Checked, proved.
12. `Answers` and its families. Checked; `Metrics`, `Claims` and `Calculations` proved.

Left: proofs of the derived metrics, with the lemmas on sums, cells and periods that
`Answers_proofs` has; then the accepted baselines of `operations.py`, the
pages of `report_evidence.py` and the completeness gate of a report.

A module that is proved about declares no RECURSIVE operator, has its parameters
as constants with a named assumption, and one action per durable write.

`Price`, `SlowReport`, `Idk` and the live modules do not INSTANCE `Delivery`: a
batch is sent by *one* call with *one* material fixed beforehand, so most of what
makes `Delivery` difficult cannot happen to it, and the product of the state
spaces would exceed TLC. They restate the writes of a delivery at the grain they
need and take target locks and fences as a refusal that may come at any time. That
a component behaves so is what `Delivery` establishes.

## 3. Modules

| Module | Content |
|---|---|
| `Outbox` | what delivery promises: per notification and generation each part once, text first, one notification in the lane of a target |
| `Delivery`, `DeliveryInv`, `MCDelivery` | the implementation, all jobs and targets; its inductive invariant in named parts; instances |
| `PriceLedger`, `Price`, `MCPrice` | what a price reminder promises; the engine; instances |
| `ReportLedger`, `SlowReport`, `MCSlowReport` | the same for the reports of a week |
| `Freeze` | the weekly baseline, the customer plan and the notifications built on them |
| `Idk` | the sealed list of a week |
| `MCWeekly` | an instance of both, each moving while the other rests |
| `LiveRuns`, `LivePrice`, `LiveSlow`, `StageLedger`, `MCLivePrice` | the runners of a department; the live cycles; the promise of the second; an instance of both side by side |
| `Statements`, `Executor` | what an executor promises; query thread and timers |
| `QueryCall`, `MCQueryCall` | calls in a process, their threads, snapshots and deadlines |
| `Entities`, `MCEntities` | names to identities |
| `Sums`, `Answers` | sums; the one step of a question: tables, SQL aggregates with NULL; extended by the families below |
| `Metrics`, `Analytics`, `Pools` | what compiled, derived and slow-pool statements return |
| `Claims`, `Calculations`, `TargetGaps`, `Attestations` | what is said of the rows, of two results, of a partitioned target, of turnover days |
| `Decomposition` | "these groups moved this total", written four times by four stages |
| `MCAnswers` | the tables and questions of all families, and the properties over them |
| `*_proofs` | theorems and lemmas: `Delivery`, `Price`, `SlowReport`, `Weekly` (`Freeze` and `Idk`), `Live` (`LivePrice` and `LiveSlow`), `Query` (`Executor` and `QueryCall`), `Entities`, `Answers` (`Decomposition`, `Metrics`, `Claims`, `Calculations`) |

In the workflows **an action ends at a durable write or at a call to the
provider**, because that is where a death makes a difference and where another
process can see something. Reads and checks between two writes belong to the
action of the following write. Variables marked "history" in their declaration are
not in any file; they record what the provider did, for the properties to speak
about.

### 3.1 `Delivery`

| State | Code |
|---|---|
| `proc[j]` | the process of a job and its locals; it holds the job's lock file from `Start` to its end, and as `"dead"` until the file is reviewed and removed |
| `entry[n][k]`, `manifest[n]`, `uploads` | the progress file: `status`, `run_id`, `fingerprint` of a component; `notification_manifests`; `upload-<key>` entries |
| `fence[t]`, `tlock[t]` | `notification-target-<key>.json` and its lock file |
| `got`, `ver`, `gen` | history: acceptances, accepted version, archived generations |

| Action | Code |
|---|---|
| `Start` | `run_bound` takes the job lock, draws the run id, refuses unresolved outcomes |
| `PreflightPass`, `PreflightRefuse` | `preflight_components` |
| `AcquireLock`, `LocksHeld` | the target locks, in order; a lock that exists is a refusal |
| `StageResend`, `StageDone` | a forced run archives one complete generation per write, in component order |
| `PrepareDone`, `PrepareRaise` | fence checks and uploads of a call |
| `Begin`, `BeginRefused` | the gate and the fence before a notification |
| `MarkInFlight`, `Send`, `Record` | one component: in flight on disk, the call, the receipt on disk |
| `Finish` | the notification's end: fence lifted or left, definite failures put aside |
| `CallDone`, `Retry`, `GiveUp` | the end of `deliver_components` and the retry budget around it |
| `Crash`, `ReviewJobLock`, `ReviewTargetLock` | death, and removal of a lock file after review |

Abstractions: the three outcomes `unknown`, `unverified_success` and
`not_delivered` are one, since every reader treats them alike; the
`notification-<n>` entry is written with `Finish`; an upload entry only exists
or does not, for every status it takes blocks the same guard; audits are taken as
known at `Start`, though the code runs preflight on tasks, packages and coverage
first and looks at audits only for their form. Left out: how a text is cut into
pieces, `OfficialTransport` (robots: no locks, fences or fingerprints), intent
files and `run.json`, which nothing here reads back. Fences, receipts and
progress files are never edited by hand; lock files are, after a death.

### 3.2 `Price`

One side of the hourly reminders. `Start`, `Connect` (the transport reads the
activation again), then either `Resume` and `Compare` of the pending batch or
`Observe`, `Seal` (proof file, then head), `Bind`; then `Stage`, per account
`MarkInFlight`, `Send`, `Record`, `Note`, then `Delivered`, `CommitProof`,
`CommitHead`. `Compare` is the comparison of a resumed batch by fingerprints of the
transport. Those of the WeCom application (`AppRoutes`) are made of what its
preflight learns, which comes later in the run, so `Compare` has no step for a
route of the application and only `Stop` is left (see 8). `Stop`
is a death or an exception at any point; they are the same on disk, because the
job lock is one of the operating system. `Reroute` is an edit of the activation.

Abstractions: one text per account; the number of a batch is that of the run that
sealed it, and runs that find a batch pending are neither numbered nor bounded; the transport's check before each HTTP call appears as a refusal or as
an unknown outcome. Left out: the rules which price change concerns whom (any
list may follow any other and concern any set of accounts), the reviewed
initialization, previews that send nothing, tamper checks of attachments.

### 3.3 `SlowReport`

One week. `head` names a content generation and a delivery generation and
repeats what is recorded of each phase; `batch` is the directories; `bound` and
`entry` are the progress file. `Prepare` renames a fresh report into place and
`RecordPrepared` writes the head; `Publish`, `RecordPublished` likewise;
`TakeUp` goes on with a report an earlier run left prepared. `Bind`, `Deliver`,
and per account `Stage`, `MarkInFlight`, `Send`, `Record`. `ForceResend` and
`Regenerate` move the head to the next generation. A run without sending
(`proc.send` false) prepares and binds only.

Abstractions: one message per account stands for its text and file (their order
is the business of `Delivery`); sealed bytes cannot change; the review of a dead
process's lock is part of `Stop`; the activation is a target map and
`send_enabled`. `Uploads` says whether the transport leaves upload entries:
FALSE is the transport of the repository's tests, TRUE the application transport,
with which every later run of a week is refused (see 8); the promise is therefore
checked with FALSE, where reruns really happen.

### 3.4 `Freeze`

The slow task of one week, run by profiles that share a database.

| State | Code |
|---|---|
| `base`, `dblock` | the week's rows of `slow_moving_baseline`; the connection that holds `GET_LOCK` |
| `entry[p]`, `plan[p]`, `sent[p]` | the `freeze` entry of the progress file; `customers-<week>.json`; the notifications' entries, by key |
| `proc[p]`, `runs` | the running process and its arguments; the number of runs |
| `landed[p]` | history: whether the last attempt was committed |

`Start` has the guards of `run_bound` and of the beginning of the slow task.
`Lock`, `Reuse` or `Attempt`, then `Rollback`, `Commit` or `LostCommit`, and
`RecordCommit` are `freeze_current_week`. `UsePlan` and `MakePlan` are the
customer plan; `Check` is the preflight of everything before the first send;
`Stage`, `Skip` and `Send` are the deliveries. `Stop` is a death or a refusal
after which the lock file is removed on review.

Abstractions: a send is one step, for its writes and the deaths among them, its
target locks and its retries are those of `Delivery`; a send in flight and one in
doubt are both `"unknown"`, since every guard here treats them alike. A task
notification has the week as its key, a package the customers of its plan, so a
new plan makes a new key while a new baseline reuses the task's. `stock` is what
`baseline_digest` tells apart. Left out: the contents of rows, the recipient
plan, the coverage and audit notifications (the former have keys of their content
like packages, the latter are sent after them). The guard of a refreeze also sees
`notification-<n>` entries; those that are not of a component are left out.

### 3.5 `Idk`

One week. `batch` is the sealed directory, `seal` its binding in the progress
file, `entry` and `manifest` the progress file of the deliveries, `target` the
configured map, `run` the process, `outcome` what the last run reported.
`StartRun`, `Prepare` (one rename), `Bind`, `CheckList` (the guards before anything
is sent), `Archive` (a forced run puts an account's generation aside, one write
each, in any order), `Manifest`, `Post` and `SendPart` and `Record` per part,
`Finish`; `Crash` and `Reconfigure` at any point. `receipt` and `asked` are history.

Abstractions: one run at a time, the lock a dead one leaves is removed on review;
the wording and cutting of the list is a number of parts; sealed bytes are not
tampered with; the rollover of the week is not modelled. A forced run that dies
between two archives puts only the archived accounts on offer again, and no other
forced run is let through until they are served.

### 3.6 `LivePrice`

The live price cycle of one side and the delivery of its batches.

| State | Code |
|---|---|
| `base`, `cycles` | the reference list and the journal in the database |
| `holder` | the connection that holds the cycle's database lock |
| `batch[c][b]` | files of an acceptance case: progress and lock file; what the provider accepted is history |
| `run[r]` | a process, its connection and what it read |

`Enter`, `Look`, `CopyOrigin` (the first reference), `Planned` or `Blocked`,
`Gate`, `Sending`, `NextBatch`, `Deferred`, `Sent` and `Recover` are the steps of
`workflow_cycle` on the journal; `TakeCase`, `Bind`, `Attempt`, `Answered`,
`ReleaseCase`, `Receipt`, `Failed` are `deliver_batch` and the check of its
receipt; `Delivered` and `Commit` end a cycle. `Die` is a death,
`Disconnect` a lost connection: the lock is free at once, the process goes on
until it touches the database again.

Abstractions: a batch is sent as one (`Delivery` has its components); aliases,
units and tax bases that cannot be compared are one value `Bad`; the hour of an
observation is left open where entries exist; results as JSON and scoped test
cycles are left out.

### 3.7 `LiveSlow`

One department and week: `journal` (a manifest per generation with its phases),
`case` (the files of a phase's delivery), `owner` (the database lock), `slow[r]` (a
process and what it keeps in memory). `OpenWeek`, `Refresh`, `Continue`,
`BuildReport` build the generation; `Deliver`, `Review`, `Reuse` decide whether a
phase is new or equals a prior delivery; `Send`, `BindCase`, `AttemptPart`,
`Answer`, `UnlockCase`, `Raised`, `TakeReceipt` deliver it; `PreviewBuild`,
`PreviewReview` are the run that sends nothing; `SlowDies`, `LosesDatabase` as
`Die` and `Disconnect` above, `Hour` the passing of an hour.

Abstractions: taking the locks and the first read are one step; refusals that
change nothing are left out; input tables, the digest of frozen rows and the
tables of the customer and audit phases are not modelled; a search for a prior
delivery may come upon any file of `Found`. The price and the slow cycle share
nothing, so `MCLivePrice` checks them side by side in one run.

### 3.8 `Executor`

`at` and `own` are the query thread and its phase, `limit` the deadline in
force, `dogs` every `SocketDeadline` ever made, `sock`, `raised`, `poisoned` the
connection and what went wrong, `out` the answers. `Open`, `Opened`, `Execute`,
`Own` (a deadline of the statement), `Read`, `RolledBack` are the query thread,
`Timed` the end of the dial, `Secured` that of the handshake and the reading of
grants, `Fire` and `Abort` the timer thread, `Tick` the clock. The driver bounds the
dial (`connect_timeout`, `vendor/pymysql/connections.py:682`); every other read has a
timeout per `recv` only (`:806-829`), so a server may drip bytes for ever in the
handshake, the grants, statements, set-up and rollback. A timer that fires while the
driver dials finds no socket and is lost (`db_executor.py:190`): in the handshake
that follows the executor is `Unwatched`.

### 3.9 `QueryCall`

`active` and `held` are the semaphore and who holds its slots, `pc`, `plan`,
`late` a call and its deadline, `br` its branches, `cache` and `snap` what was
read and by which snapshot, `recon` the reconciliations, `reply` the answer,
`server` the database behind the connection string. `Arrive`, `Step` (admission,
preparation, the threads, linking, reconciliation and rendering, one at a time),
`Expire`, `Failover`. A failure that escapes a branch ends the call with `Escape`: an
error without results, or, past the deadline, the deadline's answer with the results
of the branches before it where they ran one after the other. `OneState` is claimed of the results of calls without a
decomposition, for the code compares identities of databases only there; the
payload of a late call makes no such comparison.

### 3.10 `Entities`

`master` is the master data, `refs` the cache of issued references, `call` a query
call with its requests and cache, `reply` a resolution, `issued`, `seen`, `asks`
history. `Resolve`, `ResolveRef` are the resolver; `Ask`, `Prefetch`, `BindRole`,
`BindText`, `BindIdentity`, `Finish` the binder; `Change` and `Restart` happen at
any time. The collation of the database is looser than the code's folding
(`Alike` against `Fold`). Master data have an identity in every row, and a filter
at least one value, for the code refuses an empty list before it binds anything.
Two things the model makes visible and no property
claims: a resolution cut at the row limit may still be called resolved where the
binder refuses a truncated lookup, and the binder searches ids where the resolver
does not.

### 3.11 `Answers` and its families

A statement runs in one snapshot, so an answer is one step: pick a small table
and a question, evaluate. What a statement returns is written the way the builder
composes it (filters, joins, grouping, unions, period columns, NULL); the
properties compare that with a definition that looks at the source rows directly.

* `Metrics`: core, composite, ratio, comparison; populations, snapshots, joins,
  scopes, completeness; prior, year-earlier and named periods on the real calendar.
  Ratios are kept as pairs. The overdue metric answers NULL without overdue rows.
  The parts of a composite or ratio must read the same period, or the question is
  refused (`PeriodsAgree`). What the contracts let through as a question is said by
  `Admissible` and `Posed`: the aggregations, 2 to 5 parts of a composite, 2 of a
  ratio, no offset of one's own, flows compared by window and the latest snapshot by
  months before it (`contracts.py:34-54`).
* `Analytics`: turnover, settlement, receivable days, paired and allocated
  amounts, target completion. Time in half months; constant factors of a formula
  are left out. Groups of receivable days with deliveries and no debt are dropped
  by the statement, so `PartsMakeWhole` is not claimed there nor of settlement.
* `Pools`: the registered pool, its movement and the recorded flow; a property
  quantifies over every value a missing column could have.
* `Claims`, `Calculations`, `TargetGaps`, `Attestations`: periods and data states (a
  period says whether it was asked for or is the default of the metric, and two that
  differ in that are not equal), claims with their relations, differences, ratios and shares of two results,
  partitions of a target, attestations. Seals and fingerprints are taken as intact
  and not modelled.
* `Decomposition` is a transition system of its own, for the two statements of a
  linked pair may read the table at two moments: `Drift` is a write of the source
  between them. `AskOverall`, `AskPartition`, `Authorize`, `Seal`, `Project` are the
  stages, `Unsupported` and `Marker` the refusals before them. `MCAnswers` extends it
  and runs it next to the families.

Everywhere in this part: order and limits of rows, ranks, permissions of a
dimension and the wording of errors are left out.

## 4. Properties

**Delivery.** `AtMostOnce`: no component is accepted twice in a generation.
`ReceiptsTrue`: the file says accepted exactly when the provider did, except while
a process or a doubt stands between. `WholeNotification`: a file that arrived
follows its own text and is of the same material. `UnknownFreezesTarget` (an
action property): nothing is accepted for a target one of whose notifications is
in doubt. `FailedFenceRecoverable`: a fence left by a definite failure can always
be taken up by its job. `KeepsPromise`: refinement of `Outbox`. `RunsEnd`: a run
that is not killed ends.

**Price.** `BatchesKept`: `load()` never finds a head it must reject; a batch of
which anything was attempted is bound, has its manifest on file and, unless every
account accepted it, is still the pending one; all its messages go over one route,
however often the activation is edited. That is about the files. That a later run
gets on with them is `TakenUp`, which a run finds violated (see 8). `HourlyOnce`: one batch per source hour,
and hours do not go back. `KeepsLedger`: refinement of `PriceLedger`.

**SlowReport.** `PhasesKept`: no combination of directories, head and bindings
that a death leaves is taken for tampering, nothing is attempted before its
binding, one route per phase and generation. `KeepsReports`: refinement of
`ReportLedger`.

**Freeze.** `FilesTrue`: the entry never claims a commit that did not happen or a
rollback that did not, and a sending run that succeeds leaves task and package
accepted and of the very rows it used. `ReplacedOnPurpose`: of any number of
profiles freezing at once, only one asked to refreeze replaces rows.
`DoubtBlocks`: nothing is tried again, and nothing forgotten, while an outcome is
in doubt.

**Idk.** `OneList`, `AskedFor`, `ReportTrue`, `NoWedge`: one list for all
recipients of a week; a part once, and once more per forced resend let through;
a run that says delivered or reused is right; no death leaves files that a later
run refuses, unless a send is in doubt or the targets were changed.

**Live cycles.** `ChangesTold`: the keys whose known price moves at a commit are
exactly the keys of the notices, each batch accepted once. `KeepsLedger`:
refinement of `PriceLedger`, by a run that may lose the database lock while
sending. `KeepsStages`: refinement of `StageLedger`, phases in order, one content
each, no part told twice.

**Executor.** `NoStrayTimer`: one live timer at most, none survives.
`KeepsStatements`: refinement of `Statements` (rows only before the deadline in
force, deadlines only tighten, no success after a failure of the group).
`Unwinds`: an executor that was opened ends, whatever the server does, unless the
connection's timer was lost during the dial and the handshake drips. As a handshake
happens once, the exception is that one wait and nothing after it.

**QueryCall.** `WithinCapacity`, `HonestReply`, `OneState`, `CallsEnd`: as in 1.2.

**Entities.** `BoundAsNamed`: each text of a bound filter is that of the one entity
of its type with this name or code in the master data its lookup read, no filter is
dropped or widened, and the role is one the metric allows. `OneMeaning`: a text is
looked up once in a call, and a failed lookup is not tried again. `MeantAsAsked`:
what the resolver calls resolved is the only candidate, and a reference means the
same whether the process still remembers it or not, and never an entity without
that identity or in a role it was not issued for.

**Answers.** `AnswerTrue`: there is a row for exactly the groups that own a source
row, of either period, and a number is the one its rows make, NULL when one is
unknown. `PartsMakeWhole`: groups make up the whole. `PeriodsTrue`: compared
periods are as long as each other or whole months, and the evidence accepts the
windows the compiler matched. `PoolCertain`: what is said of a pool holds
however the gaps are filled. `RelationTrue`: a sealed change and its parts are of
one state of the database, and the four stages agree. `ClaimsTrue`,
`CalculationTrue`: what is claimed and calculated is true of the source rows.
`AnalysesTrue`: so are derived metrics, however their gaps are filled, target
partitions and attestations.

## 5. Runs

| Run | Instance | Shows |
|---|---|---|
| `Delivery` | two jobs sharing a target, three notifications, a file, 3 runs, 1 retry; under fairness | at-most-once and true receipts with runs that interleave, die and are restarted; every run ends |
| `DeliveryContent` | one job, four notifications in three calls to one target, two of them in one call, two versions of the material, 4 runs | material changes between runs, forced resends, a failure that holds its target without wedging it; the promise |
| `Price` | two accounts, two routes of which one is the application's, two lists, 2 hours, 2 batches, any number of runs, edits anywhere; 770,550 states | batches and routes kept, once per hour; the ledger |
| `PriceStuck` | the same with one hour and one batch; under fairness | a disagreement, see 8 |
| `SlowReport` | two accounts, two routes, two versions, one more generation of each kind, 3 runs, edits anywhere; 926,306 states | everything left on disk is recoverable, one route per phase; the ledger of reports |
| `Weekly` | baseline: two profiles, two contents of the source, two mappings, 3 runs with any arguments; list: two accounts, lists of no, one and two parts, two target maps, two forced resends, unbounded runs; deaths anywhere; 1,297,322 states | rows, entry, plan and notifications stay consistent through deaths, lost commits and refreezes; one list, as often as asked, true reports, no wedge; deadlock is checked |
| `LivePrice` | both live cycles with two processes each; prices: two products, two cycles; reports: two generations of five phases of two parts, two manifests built of a phase and six in all; 755,920 states | exactly the changes told; both ledgers, with deaths and lost connections anywhere |
| `Executor` | up to 4 statements, 5 instants; under fairness | no stray timer, the promise of a statement, every executor ends but for the one exception |
| `QueryCall` | two calls, two slots, a budget of three, two servers; under fairness | slots, honest and consistent answers, every call is answered |
| `Entities` | four texts that fold or collate together, three entity types, five roles, up to three rows, one change, one reference in the cache | what is bound, resolved and remembered is what was meant |
| `Answers` | every table of two or three rows and every question of twenty-one families | the eight properties of answers |
| `DecompositionLinked` | two groups, amounts 1 and 2 | a disagreement, see 8 |

Why the bounds are enough to be interesting: the worst histories known here are
"run 1 fails or dies half way, run 2 recovers and dies or is forced, run 3 finds
the result", hence three runs (in `Price`, where only a run that observes is
counted, two); a refresh of material or a resend on top needs a
fourth. Two jobs and one shared target show every exchange between jobs, since jobs
meet only at a target; a third notification gives a job something beside the
shared one. Two accounts are needed for "one was told and the other not", two
routes for an edit, two live runs for a lock that passes on, two cycles for a
reference that moves twice. Five instants order a deadline, a tighter one, a
timer that is late, the work it interrupts and what comes after. Two or three
source rows hold a group only one side of a join has, an unknown next to a known
amount, and a row of another month. `MaxRuns`, `MaxHour`, `MaxContent`, `MaxAgain`,
`MaxAsked`, `MaxCycles`, `MaxGenerations`, `MaxBuilds`, `MaxChanges`, `MaxAsks`
and their like are guards of the actions that would pass them; `Bounded` in
`MCLivePrice` narrows the report cycle further for TLC (manifests in all, one
reviewed phase and one reused delivery a generation, one run without its
connection), which the theorems about it do without; where a behaviour
stops at a bound, deadlock is not checked. Symmetry is used on values no guard
orders, never under fairness.

Each passing property was also tried against a mutated definition (`mutants` in
`PROJECT.json`; the mutated forms stand beside the originals in the modules).

## 6. Fairness

* `Delivery`: `FairSpec` assumes weak fairness of `Step(j)` for each job: a
  process that is alive is scheduled and makes its next step. Nothing is assumed
  of `Start`, `Crash` or the reviews: nobody has to start a run or remove a lock.
  A call to the provider ends because the HTTP client has a timeout, whose outcome
  is the receipt `unknown`. No process waits for a lock; it is refused and leaves.
* `Executor`: `FairExecutor` says that the query thread goes on when it is not
  blocked (`Own`), the dial ends (`Timed`, the driver's `connect_timeout`), an
  operation on a socket that was shut raises (`Broken`), time passes and timer
  threads run. Nothing is assumed of the server once the socket is open: the
  handshake, the grants, a statement, the set-up and the rollback may drip for ever,
  and it is the timer that ends them.
* `Price`: `FairSpec`, used to refute `TakenUp` only, is generous: the job is started
  for ever, no run stands still (`RunStep`), and of the runs that reach a step of a
  recovery infinitely many take it, so deaths are no excuse.
* `QueryCall`: the deadline of a call passes, and a call whose deadline has passed
  goes on. A statement may last until then, and no longer: that is `Unwinds` of
  `Executor`, and its exception is one here too: a call whose connection drips in an
  unwatched handshake is not answered while it does. Nothing is assumed of `Arrive` and `Failover`.

## 7. Proofs

Each theorem holds for all values of the constants that meet the module's named
assumption: any number of jobs, accounts, products, runs, generations, statements,
calls, servers, and any bounds.

| Module | Assumption | Theorems (`Spec => ...`) |
|---|---|---|
| `Delivery_proofs` | notifications and targets are numbers, for the code handles them in an order; each has a job, a target and a call | `Invariance`, `TypeCorrect`, `NothingTwice` (`AtMostOnce`), `TextBeforeFile` (`WholeNotification`), `ReceiptsRight` (`ReceiptsTrue`), `OneLane` (`OneAtATime`), `FailureRecoverable` (`FailedFenceRecoverable`), `DoubtFreezes` (`UnknownFreezesTarget`), `PromiseKept` (`KeepsPromise`) |
| `Price_proofs` | accounts are numbers, the first list is a list | `Invariance`, `TypeCorrect`, `BatchesAreKept` (`BatchesKept`), `HoursGoOn` (`HourlyOnce`), `PromiseKept` (`KeepsLedger`) |
| `SlowReport_proofs` | accounts are numbers, and there is one | `Invariance`, `TypeCorrect`, `PhasesAreKept` (`PhasesKept`), `PromiseKept` (`KeepsReports`) |
| `Weekly_proofs`, of `Freeze` | `None` is neither a profile nor a stock | `Invariance`, `TypeCorrect`, `FilesAreTrue` (`FilesTrue`), `RowsReplacedOnPurpose` (`ReplacedOnPurpose`), `DoubtRemains` (`DoubtBlocks`) |
| `Weekly_proofs`, of `Idk` | a list has at most `MaxParts` parts | `IdkInvariance`, `WeekHasOneList` (`OneList`), `WeekCanGoOn` (`NoWedge`), `NothingUnasked` (`AskedFor`), `ReportsAreTrue` (`ReportTrue`) |
| `Query_proofs`, of `Executor` | at least one statement and one instant | `ExecutorInvariance`, `ExecutorTypeCorrect`, `NoTimerStrays` (`NoStrayTimer`), `AlwaysWatched`, `StatementsKept` (`KeepsStatements`) |
| `Query_proofs`, of `QueryCall` | plans are sequences of requests, the capacity is positive, servers are finite | `Invariance`, `TypeCorrect`, `SlotsSuffice` (`WithinCapacity`), `RepliesAreHonest` (`HonestReply`), `AnswersAreOfOneState` (`OneState`) |
| `Live_proofs`, of `LivePrice` | products are finite; observations have their shape; a price is not one of the marks for no price | `PriceInvariance`, `PriceTypeCorrect`, `OneWaits` (`OnePending`), `ChangesAreTold` (`ChangesTold`), `PricePromiseKept` (`KeepsLedger`) |
| `Live_proofs`, of `LiveSlow` | what a search finds is of the shape of a search's findings | `SlowInvariance`, `SlowTypeCorrect`, `OneTellsAtATime` (`OneUnderway`), `SlowPromiseKept` (`KeepsStages`) |
| `Entities_proofs` | the registry: roles have a type, no role is of two types, texts that fold alike collate alike; rows have an identity, filters a value | `Invariance`, `FiltersBoundAsNamed` (`BoundAsNamed`), `OneMeaningInACall` (`OneMeaning`), `TokensMeantAsAsked` (`MeantAsAsked`) |
| `Answers_proofs`, of `Decomposition` | members are finite, amounts whole numbers, a limit is at least one | `Invariance`, `RelationsAreTrue` (`RelationTrue`) |
| `Answers_proofs`, of `Metrics`, `Claims` and `Calculations` (`AnswersSpec`) | tables are finite, months and amounts whole numbers or NULL, dates are year, month and day; questions are `Posed` | `AnswersInvariance`, `AnswersTrue` (`AnswerTrue`), `PeriodsMatched` (`PeriodsTrue`), `CalculationsTrue` (`CalculationTrue`), `ClaimsAreTrue` (`ClaimsTrue`), `PartsMakeTheWhole` (`PartsAgree`) |

The exact assumptions are the `ASSUME`s named after the modules (`Entities` has
`InputsAssumption` besides); all of them also say that a bound is a natural number
and that `None` is none of the values it stands beside. They are facts of the code
or of the notation, and TLC evaluates each on the instance of its run.

None of the safety properties is inductive, for each is about what the outside saw
while the code decides by what is on disk or in a local variable. So every inductive
invariant (`IInv`; `IdkIInv`, `ExecutorIInv`, `PriceInv`, `SlowInv` where a proof
module has two) has a part that ties disk to history and a part that says what each
process may rely on at each program counter, beside the types of the variables. Then
`Init => IInv`; every action preserves it; `IInv` implies the property. Actions are
proved one lemma each; where most of them leave a part of the invariant alone, a
frame lemma says so once.

**`Delivery`.** At-most-once holds because a component is sent only when its entry
on disk said so a moment ago, so one has to know what each process remembers of
the disk and that nobody else wrote it. On disk: `Fenced` (a component past its
first mark has the fence of its target, or is complete or untouched), `Receipted`
(entries and acceptances agree but for an entry in flight or unknown),
`FileFollows` (a file is never ahead of its text and of the same fingerprint),
`FailedFenceRecoverable`. What a process knows, `Local(j)`: `LocksOwned`,
`Preflighted`, `Current`, `Behind`. `Identities` ties the two: run ids are unique,
so a lock names one process. A step of `j` disturbs only `j`'s `Local` and its own
notifications (`Others`, `Stays`). For the refinement only `Send`, `StageResend`,
`Begin` and `Finish` change what `Outbox` sees; all other steps stutter.

**`Price`.** `BatchesAreKept` is about what the files say, for all routes, those of
the application included; it does not say that a run gets past `Compare`.
`Unused` (nothing exists of a batch not yet sealed), `Batched` (proof,
head, binding and manifest of a batch are written in that order and agree),
`Delivering` (what the run in progress is sending is the pending batch, over the
route it read), `Told` (entries against messages), `Later` (the pending hour is
after the committed one), `HeadLoads`, `EvidenceComplete`. In the refinement the
announcement is the seal, a message is a `Send`, the reference moves with the
head. That a least untold account exists comes from the well-foundedness of the
numbers (lemma `Least`).

**`SlowReport`.** The same with phases and generations: `Unused`, `Phased`,
`Delivering`, `Reported(p)` (a fresh report is in place only if its phase is due),
`Agreed(c, d, p)` (bindings, entries and messages of one phase of one generation).

**`Freeze`.** `Exclusive`: whoever looks at the week's rows or writes them holds
`GET_LOCK`, hence nobody comes between. `EntryTrue`; per profile `Attempting`,
`Planned` and `Notified`: what a run noted of its attempt, the plan it uses and
the notifications it counts as sent are those of the rows it found.

**`Idk`.** `Bound`, `Filed`: what the progress file says of the sealed batch;
`UnderWay`: the run's copy of it; `Counted`, `Received`: entries, archives and
resends asked for against what arrived; `NoWedge` is a part of it.

**`Executor`.** `Manned`: which watchdog belongs to which phase of the query
thread; `Guarded`: from the set-up to the rollback an open socket has a live timer
behind it, and in the handshake it has one unless that fired; `Answers`: rows, deadlines and the poison of a group. `AlwaysWatched`
states `Guarded` by itself: it is the safety half of `Unwinds`, exception included. The refinement of
`Statements` maps a statement to the step that publishes its outcome.

**`QueryCall`.** `Slotted` (the counter is the sum of what calls hold) and, per
call, `Planned`, `Threads`, `Carried` (what a branch cached is of its snapshot),
`Told`, `Honest`.

**`LivePrice`.** `Alone` (at most one pending cycle), `PriceCounted` (a batch was
accepted at most once and its file knows, unless it is in doubt), `Truthful(c)`
(a pending entry starts from the reference, its notices are the keys whose known
price moves, its receipts are acceptances, delivered means all served),
`PricePlaced(r)` (what a run knows, with the database and without),
`PriceApart(r, s)` (the lock file of a case has one owner). The difficult run is one
that lost its connection: another may take the cycle over and recover it while the
first still has a batch on the wire. What saves the promise is that the first holds
the lock file of that batch, that a batch in doubt is never in a committed entry,
and that it cannot write the journal any more. Five lemmas say what kinds of step
there are (`PriceRunStep`, `PriceCaseStep`, `JournalStep`, `AppendStep`,
`CopyOriginStep`); each action is then one of a kind. In the refinement `Planned`
announces, `Answered` tells, `Commit` moves the reference. Lemma `Notices` has the
one fact about data: a sequence made of a set holds each element once.

**`LiveSlow`.** The invariant of `LivePrice` with a phase in the place of a cycle.
`Filed` and `SlowCounted`: everything sent of a case is of the content it is bound
to, and its file counts it, but perhaps one part in doubt; `Consistent`: an entry is
committed exactly when all phases are behind, a phase behind has no manifest, a phase
being sent has one; `SlowPlaced(r)`: what a run may rely on, with the database and
without; `Guarded(r)`: a run that may still tell parts (`Underway`) is in the phase
whose turn it is, and the entry says `sending` or, once the lock passed on,
`unknown`; `SlowApart`: one such run at a time, and the lock file of a case has one
owner. `OneUnderway` is stated by itself. The refinement of `StageLedger` needs of
all this that a part goes out only in the current phase of the last generation, also
from a run that lost the department's lock long ago: the next holder finds
`sending`, makes it `unknown`, and that phase is not left while the first is under
way.

**`Entities`.** `Grounded`: what the cache of a call holds is what one lookup in
some state of the master data returned, and failures stay failures; `BoundTo`: a
bound filter is made of such entries text by text; `InHand`, `Settled`, `Done`: the
call between two lookups, before its end and after it; `ReplySound`: the last
resolution. Lemma `NamedIsFound`: a lookup that was not cut at the row limit recalls
every row the normalization can name, for the collation is looser than the folding;
hence the one entity found is the one entity named. Lemma `WarmIsCold`: resolving a
reference from memory and by its fingerprint give the same.

**`Decomposition`.** The invariant says what every stage knows of those before it:
`HasRead` (each answer is what the statement returns on the table of its snapshot),
`OverallKnown`, `PartitionKnown`, `Declined`, `Judged` (what the authorization
decided, and the reason of a refusal), `SealedOne`, `Projected`. What is left are
facts about tables with gaps, for every finite set of members and all integers:
the totals of a table without unknown cells are those its window proof carries
(`ProofOfClean`, `PartitionFigures`), the change of a total is the sum of the
changes (`ChangeIsSum`), the counts of a part are at most those of the whole
(`CountsOfPart`), a covered pair passes each of the four rule sets (`CoveredIsGood`,
`RelatedIsValid`, `GoodIsSealed`) and the reason of a refused one is true
(`ReasonIsTrue`). The sums run over sets in whatever order CHOOSE takes them; that
this order does not matter is an induction over finite sets, made here as a least
counterexample: the sizes of the subsets for which the fact fails are a set of
naturals, and its least element leads to a contradiction (`LeastOf`, `Counting`,
`Growing`, then `SumIsFold`, `FoldAdds`, `SumOfPart`, `SumOfDifferences`). This works
where the fact can be written as membership in a set, without an operator that
the provers would have to instantiate.

**`Metrics`, `Claims`, `Calculations`.** The invariant is short: the question is one
the contracts let through (`WellPut`), and an answer is what its question is answered
with (`AnswerOf`). The work is in what that answer says of the source rows.

* `AnswersTrue`. The rows a statement reads are the rows that count
  (`ScopeIsCounted`: the newest month of the population is a maximum, and the month
  filter, a policy of the metric or a window, picks the same rows). A cell tells the
  truth of its rows (`Right`, and `Tells` for a key that may have no row on a side):
  a SQL aggregate that skips NULL is a sum when nothing is NULL, and withheld
  otherwise. From there one lemma per form of statement: `CoreTrue`, `OverdueTrue`,
  `CompositeTrue` (a union of signed parts, regrouped), `RatioTrue` (two sides that
  meet on the union of their keys), `ComparisonTrue` (two periods side by side).
* `PeriodsMatched`. The calendar in closed form: `DayNumber` grows by the length of
  a month and by the length of a year, so a window moved back by whole months or by
  a year begins and ends where the compiler says, on leap days too.
* `CalculationsTrue`. A calculation that is shown has passed every check
  (`ShownIs`). An operand that passed is ungrouped and its value the true total
  (`OperandIsTotal`); two periods told alike are one window (`SameWindow`), and two
  that may be compared are over (`ComparableIsOver`); a share whose filter narrows
  that of its whole counts only rows the whole counts (`NarrowedSees`).
* `ClaimsAreTrue`. A told answer is the page its statement returned
  (`TellingFound`), and `StatesTrue`, `ComparisonsTrue` and `SeriesTrue` are one lemma
  each. The counts beside a value say whether a group has source rows (`RunCounts`)
  and whether one of them is unknown (`RunMarks`), so a data state says what its cells
  do (`StateCases`, then `StatesHold`). An authorised comparison is of two windows
  that are over or of two months the rows prove (`ComparedPeriods`); a month that is
  told is that of every row in scope (`MonthTold`). A series without a gap has every
  month of its window (`SeriesIs`), and the sum of the months is the total
  (`WholeIsSum`): a sum by groups is the sum (`SumByGroup`), and a double sum is the
  same by rows and by columns (`SumOfSums`), which a composite of signed parts needs.
* `PartsMakeTheWhole`. A count is a sum (`CardinalityIsSum`), so the counts of the
  groups add up as values do (`GroupsAddUp`, by way of `SumByGroup`). A group asked
  for alone reads the rows of that group and no others, also where it has none in one
  of the two periods or in one part of a composite (`RunOnly`, with `Nothing` for a
  cell over no row, whatever its aggregation).

Two things in the model were wrong and showed up in these proofs. The plan has to
refuse parts that read different periods (`query_builders.py:1684-1686, 1826-1827`),
else a composite with one part of a flow and one of a snapshot is told with the period
of the first. And a period told carries its source (`tools.py:4144-4153`): without
it the running month asked for and the running month by default are equal, which to
the code they are not.

**Only model-checked.**

* `RunsEnd`, `Unwinds`, `CallsEnd` are liveness under fairness, which is outside
  what the prover handles.
* The second half of `PartsMakeWhole` (`GroupsMakeWhole`, the derived metrics),
  `PoolCertain` and `AnalysesTrue`: they quantify over the ways gaps may be filled,
  with statements of a dozen families of their own. They are checked for every table
  of two or three rows instead.
* `AnswerTrue` is about aggregations that sum, as its statement says; of maxima,
  minima and distinct counts `PartsMakeTheWhole` proves that a group asked for alone
  gives the group's own number.

## 8. Where code and documents disagree

`DecompositionLinked` is a run that TLC finds violated: `schemas.py:219-224` says
that a partition referring to its overall request by
`decomposition_of_request_id` is authorized when its change adds up. Such a pair is
authorized and sealed but carries no `operation`, which the validation
(`evidence.py:986`) requires, so the projection (`result_projection.py:390-411`)
takes every claim of a pair that adds up, and leaves one that does not its rows.

`PriceStuck` is another: `WORKFLOW_IO.md:409-420` promises that a pending batch is
recovered, and that known partial failures continue. `recover_pending` compares the
batch before it delivers (`price_workflow.py:350, 195`) by fingerprints which the
WeCom application makes of the targets and files of its own preflight
(`wecom_app_transport.py:214, 280-281, 301`); for these jobs `run_bound` leaves the
earlier preflight out (`workflow_io.py:442`). So with that transport every run that
resumes ends with a `KeyError` before anything is sent: the batch stays pending and
no new price is observed. With `AppRoutes` empty `TakenUp` holds, as the robot's
transport falls back to the target map (`wecom_app_transport.py:534`).

Met while modelling; the models follow the code.

* `workflow_io.py:202`: the comment says that an incomplete generation makes a
  forced run a recovery run. Only entries with status `failed` do (line 204); one
  never attempted does not, and the complete notifications are sent again.
* `WORKFLOW_IO.md:219-221` promises up to two retries of known failures. With the
  application transport an upload entry makes `slow_task_retry.py:57` say no, so a
  job with a file is never retried.
* `WORKFLOW_IO.md:409-411, 420-421`: sealed destinations block recovery when
  changed. The activation is read twice (`workflow_io.py:441` and the transport),
  and an edit between sends a batch over a map it was not sealed with. The slow
  report has the same pair of readings. What the models show instead is that all of
  a batch goes over one map.
* `WORKFLOW_IO.md:414-416`: a `notification-<n>` entry that says `failed` outlives
  the repair when the repairing run dies before its last write, and then blocks
  every later observation (`price_workflow.py:476-478`).
* `WORKFLOW_IO.md:276, 284-285`: with the application transport, an ordinary rerun
  of a week is refused as soon as one file was uploaded, although nothing is in
  doubt (`slow_report_runner.py:102`, `wecom_app_transport.py:400-412`). For this
  reason `SlowReport` is checked with `Uploads` FALSE.
* `LIVE_WORKFLOW.md:74`: content partly sent is not rewritten. A weekly delivery
  that failed is planned and rebuilt by the next `prepare`
  (`workflow_live_slow.py:38, 75`); its retry is then refused
  (`DELIVERY_BINDING_CHANGED_REVIEW_REQUIRED`) and the cycle stays `unknown`.
* `contracts/receivable-semantics.yaml:1110-1111`: undefined does not mean that the
  query failed. One undefined member of grouped receivable days fails the whole
  result with `EVIDENCE_INTEGRITY_INVALID` (`result_projection.py:326-331`); the
  reason `FORMAL_DSO_BATCH_INCOMPLETE` is never produced. A latest known snapshot
  without a row meets the same fate (`tools.py:4264-4272`,
  `result_projection.py:466-505`).
* `TARGET_GAP_NOT_RECONCILED` (`evidence.py:733-745`) can never be told: the
  projection drops the receipt (`result_projection.py:424-426`) before the bundle
  is built. A negative target is reconciled by `tools.py` and refused by
  `evidence.py`.

And what no document speaks about: a watchdog that runs out while the driver dials is
lost (`db_executor.py:190`, `db_runtime.py:360-364`), and nothing but a per-`recv`
timeout then bounds the handshake, so a server that drips there holds the executor,
its slot and the call; a refreeze that was rolled back leaves the entry
`failed`, ordinary runs reuse the rows without touching it, and no other refreeze
of that week is accepted; the guard of a refreeze (`workflow_io.py:473`) only sees
entries that exist, so a notification never attempted does not stop it; two
results of a calculation may be of two states of the database, each told with its
own.

## 9. Not modelled, and why

* Operations snapshots (`operations.py`): single files, each replaced atomically
  under a lock; next in the plan.
* `report_evidence.py` and the completeness gate of a report: pages of one read,
  compared by digests; next in the plan.
* Roles, recipients, packages, contracts, access control, renderers: decisions on
  one input without state. Their results enter as constants.
* The group robot client and one-shot trial plans: no locks, fences or receipts.
* Public schemas and the checks of a single request's fields; the wording of
  errors; seals and fingerprints, taken as intact.
* Health, review, evaluation and export scripts read and print. The driver is
  third-party.

## 10. Running

    tlc -workers 2 -config Delivery.cfg MCDelivery
    tlapm Delivery_proofs.tla

and likewise for each row of `runs` in `PROJECT.json`, which names module and
configuration. `tlapm` needs about nine minutes for the longest of the proofs.
