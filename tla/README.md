# A TLA+ model of ap-workflow

ap-workflow takes freight documents from Gmail or an upload, extracts their
fields with a language model, assembles them into shipments, reconciles each
shipment, sends doubtful cases to a reviewer, and mails people when documents are
overdue. This directory models the parts of it in which processes, retries and
failures meet, checks them with TLC and proves their safety properties with TLAPS.

`PROJECT.json` has the machine-readable side: every modelled definition with its
source lines, every run, the mutant that shows each property can fail, the
hazards, the findings and the theorems.

## 1. The system

| Component | State | Operations | Talks to |
|---|---|---|---|
| Invoice queue (`services/invoice_queue.py`) | Redis stream with one consumer group, dedupe keys, dead-letter stream, retry metadata | `enqueue_job`, `read_new`, `claim_stale`, `heartbeat`, `record_failure`, `acknowledge`, `dead_letter` | Redis scripts and MULTI blocks |
| Invoice worker (`services/invoice_worker.py`) | batch tasks, heartbeat tasks, the batch summary | `process_invoice_queue`, `_process_batch`, `_process_delivery`, `_run_workflow_for_job`, `_mark_job_failed`, `_flush_batch_summary` | queue, graph, PostgreSQL, Gmail |
| Queue operations (`services/queue_operations.py`) | a replay hash per dead letter | replay, purge, list, metrics | Redis scripts |
| Workflow graph (`workflow/*.py`) | a LangGraph checkpoint per run | seven nodes, two routes, a circuit breaker, an interrupt | PostgreSQL (rows and checkpoints) |
| Review decisions (`services/business_state.py`) | `WorkflowRun`, `ReviewDecision` | `decide_review` | row lock, checkpoint |
| Workflow API (`api/routes/workflow.py`) | none of its own | `run_workflow`, `resume_workflow`, queries | graph, PostgreSQL |
| Shipment assembly (`services/shipment.py`, `api/routes/rate_confirmations.py`) | shipment row: flags, slots, status | `upsert_shipment`, `create_rate_confirmation` | row lock |
| Reconciliation (`services/reconciliation.py`) | reconciliation results | `reconcile_shipment` | called by assembly and the SLA scanner |
| Missing-document SLA (`services/missing_document_sla.py`) | one exception per shipment, its events | policy, `sync_missing_document_exception`, `scan_missing_document_slas` | row lock with SKIP LOCKED |
| Notifications (`services/notifier.py`) | `notification_status` of every event, notification records | `dispatch_pending_sla_notifications`, summary mails | Gmail, PostgreSQL |
| Schedulers and lifespan (`main.py`) | background tasks | SLA and Gmail cadences, start and stop | all of the above |
| Health (`services/health.py`) | one `BackgroundOutcome` per background job | `started`, `succeeded`, `failed`, readiness | schedulers, worker |
| Gmail poller (`services/gmail_poller.py`) | Gmail labels | one poll | Gmail, queue |
| Migrations (`alembic/versions`) | revision of the database, the rows they rewrite | upgrade, downgrade | PostgreSQL |
| Extraction, triage, Gmail authentication, read-only routes, schemas, web interface | none that the others depend on | | |

What is hard in it:

- **Two stores without a common transaction.** A delivery commits in PostgreSQL and
  then acknowledges in Redis; a review writes the checkpoint and then the decision;
  a notification is claimed, mailed and recorded in three steps. Each gap is a
  place to die in.
- **Leases.** An entry belongs to the worker that renews it. A renewal that fails
  once is never tried again, and then two workers process one entry.
- **Stale sessions.** `_run_workflow_for_job` loads the row, drives the graph for
  as long as it takes and writes the columns that differ from what it loaded.
- **Row locks across awaits.** `decide_review` holds the run's lock while the graph
  inserts rows that reference the run; the scanner takes its lock after the
  snapshot of its query.
- **Boundaries.** Attempt limits, the circuit breaker, the deadline itself.
- **Shared bookkeeping.** Scheduler, worker and requests report to the same
  outcomes, and a readiness request reads them at another moment than it probes.
- **Rewritten history.** A migration derives decisions from statuses and logs that
  may contradict each other, and a downgrade folds three outcomes into two.

The hazards in `PROJECT.json` name the lines where each of these bites and the
properties that would catch it going wrong.

What makes each component correct: the queue loses no job and buries each entry
once; a run reaches a state from which somebody will go on with it; a decision is
recorded as the graph took it and posting follows it; a shipment's status tells
the truth about its documents; the events of an exception are its exact history;
a mail goes out once more often than Gmail left it in doubt, never more; a readiness
answer is true of a moment of its request; a migration keeps what people decided and
what checks found.

## 2. Modules

| Module | What it models |
|---|---|
| `InvoiceDelivery` | queue, worker loop, heartbeats, dead letters, replay and purge |
| `JobLedger` | abstract: what the queue promises its producers and its operator |
| `InvoiceDeliveryProofs` | proofs about both, leases lost or not |
| `InvoiceLeaseProofs` | proofs about leases: what each lost one may cost, what holds while none is lost |
| `WorkflowRuns` | one run: row, checkpoint, graph, deliveries, upload, reviews |
| `WorkflowRunsProofs` | proofs about it |
| `Shipments` | one shipment: assembly, reconciliation, its exception, scanners |
| `ShipmentsProofs` | proofs about it |
| `Notifications` | the table of exception events and the dispatchers that drain it |
| `Outbox` | abstract: what the dispatchers promise |
| `NotificationsProofs` | proofs about both |
| `Health` | one API process: background tasks, outcomes, probes, readiness |
| `HealthProofs` | proofs about it |
| `Migrations` | upgrades and downgrades of business data, the program in between |
| `MigrationsProofs` | proofs about it |
| `GmailPoller` | overlapping polls of one mailbox, the UNREAD labels, the dedupe keys |
| `GmailPollerProofs` | proofs about it |
| `MC*` | symmetry sets, model values and inputs for TLC |

The definitions named `...Mutant...` are wrong versions of the definition that
follows them. No specification uses them; they exist to show that the property
named with them in `PROJECT.json` would notice that mistake.

### InvoiceDelivery

Stream ids are numbers. `entry`, `added`, `live` are the stream, `cursor`,
`times`, `idle` the consumer group (last delivered id, delivery counters, and the
pending entries whose idle time passed the visibility timeout). `dlq*` is the
dead-letter stream and `replay*` the replay hashes. `run[j]` is the
`processing_status` of job j's row. `task[w][i]` is worker w's `_process_delivery`
of entry i; its `pc` names the store call it makes next, so each action is what
happens between two awaits on a store:

| pc | action | code |
|---|---|---|
| claimed | `ReadAttempt` | XPENDING after XAUTOCLAIM |
| start | `StartMalformed`, `Start` | parse, `record_replay_processing`, heartbeat created |
| lookup | `Lookup` | `_get_or_create_job_records` and the early exits |
| load | `Load` | the second session; a replay reopens a failed run |
| run | `RunSucceeds`, `RunFails` | the invocation and the commit after it |
| mark, bury | `MarkJobFailed`, `Bury` | the last attempt |
| record | `RecordFailure` | an earlier attempt |
| ack | `Acknowledge` | after the commit |

`DatabaseFails`, `BoundaryFails` and `Crash` end a delivery at any of these. A commit
whose answer is lost takes effect and raises: `RunSucceeds` goes on with the
acknowledgement or with the failure path.
`HeartbeatDies` and `LeaseLapses` are the two ways of losing a lease while working.
`OrmWrite` is SQLAlchemy's rule that a column is written only if it differs from
the value the session loaded.

Abstractions: XAUTOCLAIM always restarts at 0-0, so it returns the first COUNT idle
entries (`FirstOf`). The retry metadata hash is written and never read, and is left
out. Replay outcomes other than "created" change nothing and are no steps. Stream
trimming does not occur in the code.

`JobLedger` is the queue without consumer groups, leases, attempts or tasks: entries
are published, closed when their job is settled or a dead letter has their fields, and
a dead letter is replayed once for each request and not while a replay of it is open.
The mapping takes `live` for the open entries, `everSettled` for the settled jobs and
the entries some dead letter names for the buried ones; `entry` and `added` are the
same in both. It holds with leases lost as well.

### WorkflowRuns

All state is keyed by `run_id`, so one run is modelled. `proc`, `post`, `decision`,
`rows`, `lock` are its rows in PostgreSQL, `ckpt` is the latest checkpoint of its
thread and `p[x]` is a process that works on it: a delivery, the upload request
or a review request. Each graph node with the checkpoint after it is one step.
`MayInsert` is the foreign-key check: the insert of a row that references the
run waits for the row lock, unless the row is there already and the insert does
nothing. The value of `Command(resume=...)` is a pending write of the checkpoint;
whether it is stored before the request dies is left open.

`_mark_job_failed` is two steps: `LoadJob` reads the row without a lock and
`MarkJobFailed` writes the columns that differ from what was read, so a reviewer may
commit in between. Any commit of a delivery may fail, and the failure path then goes on
(`InvocationFails`).

The queue is reduced to one entry that one delivery has at a time. That is
`ExclusiveDelivery` of `InvoiceDelivery` as long as no lease is lost; what two
invocations of one LangGraph thread would do to each other is not modelled. Extraction
and match results are nondeterministic.

### Shipments

One shipment, identified by its load number. A transaction is two steps: it takes
the row lock and reads; it writes and commits. The scanner's claim is a step of its
own before them, because its query works on a snapshot and locks afterwards:
`ScanLock` re-checks the shipment's own columns, as PostgreSQL does for a row that
changed, and not the exceptions.

Contents are "ok", "bad" or "unreadable", and two documents agree, disagree or
cannot be compared. The comparison of amounts and the comparison of carriers, both
of invoice and rate confirmation, are one check. Reconciliation results are kept as
their keys.
Extractions are chosen in `Init` and stay as they are. `Restart` is a restart of
all processes with a new `MISSING_DOCUMENT_SLA_HOURS`.

### Notifications

`status[e]` is `notification_status` of the event and `disp[p]` the dispatcher in API
process p: its `pc` names the store or Gmail call it makes next. A claim is a locked
SELECT, a commit, a mail, and the commit of its result. Gmail is called synchronously.
A refused mail may have been accepted with its answer lost; `lost` counts those.

`Outbox` forgets processes, locks and crashes: an event is due, in somebody's hand or
sent, and may only be mailed while every earlier mail of it was taken for refused.
The mapping takes "pending" and "failed" for due, "sending" for in hand, and `lost` for
the mails in doubt. That no event is mailed twice without such doubt, and that none is
recorded as sent without a mail, are guards of `Outbox`.

### Health

`task` holds the three background tasks of the lifespan, `outcome` the
`BackgroundOutcome` of each job, `status` the worker's, `request` a `GET /health/ready`
under way. Code between two awaits is one step, so a Gmail call and the report after it
are one. What an operation needs may be down (`up`); then it fails, and otherwise it
fails only by a fault. `TaskExits` is a task that ends with something its `except`
clauses do not catch, `RecordTaskExit` the callback the event loop runs later; for a
task that ended with a `CancelledError` the callback says nothing (`main.py:102`), so it
stays "cancelled" and unreported. A timestamp is kept as its age in ticks, up to the age
at which nothing changes any more. `MaxLate` ticks may fall into a request: the probes
are bounded by their timeout, but a synchronous Gmail call on the event loop is not.
A poll succeeds in the model only while the token is there; in the code one that has
built its service may succeed a moment after the token is gone, which for every property
is the same as losing the token a moment later.
`since`, `owed` and `seen` are history, for the properties only.

### Migrations

The database of `Migrations` is a run with its audit log and decision, a shipment with
its latest result and one check of it, and the load numbers of both tables; each stands
for all rows of its kind, which the statements treat one by one. The older program
is left open: `Init` has every status, those no statement names included, beside every
log. `Unlisted` is a status that no statement names. A command of Alembic is one
transaction and so one step, which goes through or leaves everything as it was. A load
number is what trimming and upper-casing make of it and whether it is that already. At
the head the program goes on, so that a downgrade meets whatever the newer program
leaves: a worker persists what the graph returned (`Persist`), writes "retrying" or
"failed" over any status, a decided one included (`PersistFailure`), an operator's
replay reopens a failed run (`Reopen`), a review commits (`Decide`) or dies after the
graph took the decision (`DecideDies`), and a shipment is reconciled again
(`ReconcileShipment`). `held` is the decision in the run's checkpoint, which `Persist`
completes the run from whether or not a `ReviewDecision` was committed. `ruling` is
history: what the reviewer decided, as far as status and log agreed, or decided since.

### GmailPoller

`unread` is the set of messages with the label, `keys` and `queued` are the dedupe
keys and the entries ever added to the stream, `poll[x]` is one `poll_inbox`: its
`pc` names the call it makes next. Schedulers and `POST /gmail/poll` requests run
the same code. Gmail lists the newest messages first. A message holds a number of
supported attachments, one of which `InvoiceJobEnvelope` may reject, and may have one
that can never be downloaded (`broken`); all attachments are fetched before the first
is queued. An attachment
at the root of a message without parts is none, as in `_iter_attachment_parts`. Not
modelled are people who change labels by hand and the decoding of contents.

## 3. Runs

| Run | Shows |
|---|---|
| `Delivery_leased` | With leases kept, through crashes and failed calls: no stranded run, and the queue is the ledger of `JobLedger` |
| `Delivery_live` | With a lease lost under a working delivery: an exact pending list, one worker, one attempt, one dead letter and one wedged replay too many at most, every entry is acknowledged or buried, every replay ends |
| `Delivery_stranded` | Violation, see section 6 |
| `Delivery_undone` | Violation, see section 6 |
| `Runs_leased` | Decision, checkpoint and posting agree; a review never waits for its own lock; the circuit breaker ends no unresolved run; no unfinished run is without an owner, but for an upload that died; every review gives its lock back |
| `Runs_unrecorded` | Violation, see section 6 |
| `Shipments_safe` | Status, slots and events are consistent under two scanners, runs and a rate-confirmation request |
| `Shipments_sla` | When restarts move the deadline: overdue shipments are flagged, exceptions stay current, scans end |
| `Notify_outbox` | The dispatchers are the outbox of `Outbox`; claims are exclusive, only a fault leaves an event behind, every other event is mailed in the end |
| `Health_ready` | A 200 has a worker and its dependencies; "ready" has recent successes of poll and scan; no new attempt hides a failed one |
| `Migrations` | Upgrades and downgrades in any order keep decisions and failed checks, make coherent runs of whatever they find, and never fail on their own constraints |
| `Poll_inbox` | A label goes only when all attachments are queued, none is queued twice within its key's life, and every message that can be reached is worked off |

A run is `tlc -config <run>.cfg <MC module>`.

### Bounds

Every bound is a constant whose name starts with `Max`.

- *Delivery.* Two workers suffice for every race the code has: the holder of an
  entry and the one who takes it over. With `MaxAttempts = 2` there is an attempt
  that is retried and one that is buried. Three entries are a job, a second entry of
  it (an expired dedupe key or a replay) and a malformed one, and with `BatchSize = 2`
  a batch is sometimes full. One fault is combined with all interleavings in
  `Delivery_leased`, one lost lease in `Delivery_live`, which has two entries and a
  batch of one. Both together, a crash and a lost lease, are beyond TLC in the time a
  run may take; the invariants are proved for any number of each, only liveness is not
  checked there.
- *Runs.* Two deliveries, an upload and two reviewers who may disagree; up to three
  faults and two replays, which is one more than the shortest path to the only
  violation found.
- *Shipments.* Three documents and a manual rate confirmation, in five mixes: a
  full set with one document in doubt, two invoices that disagree, an extracted
  rate confirmation beside the manual one, a document of another type. Time runs to
  one past the first deadline.
- *Notifications.* Three processes, three events, two refusals, two faults. The
  theorems hold without any bound.
- *Health.* One process, one request at a time, PostgreSQL and Redis as the probed
  dependencies (checkpoints are a second database of the same kind), one fault: a
  dependency lost, an operation that fails with all it needs up, or a task that
  exits. A success is stale after a tick, so stale, fresh and one that turns stale
  during the request all occur; one tick falls into a request, any number in the
  theorems.
- *Migrations.* No bound: one row of each kind, with every value it can have. Only the
  load numbers are chosen: fine, to be rewritten, equal once rewritten, blank in
  the table that comes second. The theorems are for every content.
- *Poll.* A scheduler and a request, three messages and a page of two, so that a
  message can fall off the page. A message has two good attachments, none, a
  second one that is rejected, or one that cannot be downloaded. One key expires and one call fails. The three
  theorems hold without any bound.

Symmetry is used for workers, scanners, deliveries and reviewers in the runs
that check safety only; none of them is ever compared or ordered.

`Health` and `Migrations` are checked for safety only and state no fairness.
`CHECK_DEADLOCK FALSE` is in the `Runs_*` configurations only: a run that was
acknowledged or decided is finished and nothing happens to it any more.

### Fairness

- `Delivery_live`: the loop polls for ever, a delivery's next store call returns or
  raises, and idle time passes. Crashes, lost leases, producers and operators are
  owed nothing.
- `Runs_leased`: a review request with the lock gets its answers from PostgreSQL and
  the graph. There is no fairness for other processes: a review must end without
  their help.
- `Shipments_sla`: open transactions end and scanners keep their cadence.
  Documents need never arrive and time need never pass.
- `Notify_outbox`: schedulers keep their cadence and calls return or raise. A fault
  can leave an event in "sending" for good: `StuckOnlyByFault` counts these, and
  `EveryEventMailed` is about all others.
- `Poll_inbox`: the scheduler polls for ever and its calls return or raise. Requests
  are owed nothing.

All of it is weak fairness. It is what the `while` loops in `main.py` and
`invoice_worker.py` give as long as the process lives and its calls return.

## 4. Proofs

`tlapm` on the eight `*Proofs.tla` modules checks them. They use the assumptions on
constants in the modules they are about (`DeliveryAssumption`, `RunsAssumption`,
`ShipmentAssumption`, `HealthAssumption`, `NotificationAssumption`, `PollerAssumption`,
`MigrationAssumption`): bounds are natural numbers, attempt limit, batch and page size
positive, sets of processes are disjoint, and the special values differ from ordinary
ones. Nothing is assumed finite except what a number bounds and the set of workers,
which `ExclusiveDelivery` counts.

Each module states its inductive invariant as a conjunction of named parts and proves
that every action keeps it. Every invariant and action property that a passing run
checks is a theorem.

**InvoiceDelivery**, with any number of workers, jobs, entries, faults and lost
leases:

- `TypeCorrect`, `PendingListIsExact`. The inductive invariant `BaseInv` adds
  `TasksSound`: a task works on an entry that was published, that entry carries a job
  once the task is past its start, and a task that may beat knows its attempt. Without
  the last part a heartbeat could reset a delivery counter to 0 and drop the entry
  from the pending list.
- `NoJobIsLost`. `LossInv` adds `AckJustified` (a task about to acknowledge has seen
  its job settled) and `SettledKnown` (a settled row is in the history).
  This is the theorem that says the commit-then-acknowledge order is right even
  when leases are lost.
- `ReplayIsIdempotent`, `ReplaysAreSerial`. `ReplayInv` ties the replay hash to the
  stream: an entry of a dead letter that still exists is the one its hash names, and
  one still in the stream is the last request's with a nonterminal state. Its hard
  case is a late write by an old delivery, after the entry left the stream.
- `QueueImplementsLedger`. `StepKinds` sorts the actions into those that touch what the
  ledger shows and those that do not; the former are ledger steps by the invariants
  above (a replay needs `ReplayInv`, an acknowledgement `LossInv`) and by
  `LettersNamed`, that a dead letter names an entry.

**Leases**, in `InvoiceLeaseProofs`, with any number of workers, entries, faults and
lost leases. The first four theorems bound what a lost lease can do; with
`leaseFaults = 0` they are the plain statements.

- `DeliveriesAreExclusive`. The number of workers at an entry is not inductive, because
  an entry up for XAUTOCLAIM is about to have one more. `HoldersCounted` counts it as
  held once more; `OrphansCounted` bounds the workers that work on without the lease.
- `EntriesAreBuriedOnce`. `LettersCounted`: an entry in the stream has no dead letter,
  and one that left it has no more letters and workers that could still bury it than
  leases were lost, and one.
- `AttemptsAreBounded`. A superseded heartbeat claims the entry back and writes its own
  attempt, so every attempt a task knows is bounded with the counter. `AttemptInv` also
  has an entry that may be claimed again, because it is stale or nobody is on its final
  delivery, one below the bound.
- `ReplaysNeverWedge`. An entry is harmed when somebody is left with it after its lease
  (`Crowded`), or when it is gone and a replay hash still shows it. A step harms no
  entry, but for a lost lease, which harms one (`Crowds`, `HashStep`), so `HarmInv`
  bounds the harmed entries; wedged replays name different ones of them
  (`HashesSound`).

The last two are about the time before the first lost lease, which the findings of
section 6 show to be necessary. `LeaseInv`: a delivery under way holds the lease of a
pending entry that is not up for XAUTOCLAIM and is alone with it (`Owned`), and the
attempt it knows is the group's counter (`AttemptKnown`). `leaseFaults` never shrinks,
so every state before the first lost lease has it.

- `NoRunIsStranded`. With several entries of one job, "some entry of the job is in the
  stream" is not inductive: one that is about to leave counts for nothing. `RunsCarried`
  asks for an entry that no task is about to acknowledge nor, if the run is
  unfinished, to bury; a failed run may have its dead letter instead.
- `SettledRunsAreNotRerun`. `RerunInv` adds that no task on such a job is at its load
  or its invocation (`SettledStays`), that a session which loaded a settled run is of a
  job in the history (`LoadedKnown`), and that a replay is a second entry of its job
  (`ReplaysCopy`).

**WorkflowRuns**, with any number of deliveries, reviewers, attempts, replays and faults:

- `DecisionsMatchCheckpoints`, `PostingsFollowDecisions`, `PostingsAreEarned`,
  `ReviewsNeverBlockThemselves`, `AwaitingRunsAreReviewable`, `RunsEndResolved`,
  `UnfinishedRunsAreOwned`, `RunsTypeCorrect`. The argument of `RunInv` is that at most
  one process drives the graph (`OneDriver`). A delivery and the upload never meet,
  because an uploaded run has no entry; a review starts when the row shows
  "awaiting_review" and a delivery drives only a row that is running or retrying.
  So the driver's loaded columns are current when it writes the ones that
  differ, and its graph is where the checkpoint is (`GraphsSound`). `Sound` fixes the
  iteration count of each node, which is why the circuit breaker cannot meet an open
  exception. For the crash between checkpoint and commit, `ReviewSound` has a review
  commit only the decision that the checkpoint has: one that wants another finds a
  conflict.

**Shipments**, with any set of documents, extractions and scanners and any SLA:

- `StatusesAreTruthful`, `SlotsAlwaysMatch`, `ExceptionsAreCurrent`, `EventsAlwaysChain`,
  `CanonicalDocumentsStay`, `ShipmentsTypeCorrect`. `ShipInv` adds `LocksSound`: a
  transaction holds the row lock and the documents it read are those of the row. It is
  what a scanner gets from re-checking the row after it locked it. `RateAttached` says
  that a row of a load number with a manual rate confirmation has the slot filled; without
  it a reconciliation could use a confirmation the shipment lists as missing.

**Health**, with any set of dependencies, any stale window and any number of faults:

- `ScheduledFailuresStay`, `CoreIsReallyUp`, `ReadyIsReallyEarned`, `HealthTypeCorrect`;
  the second and third are action properties. `HealthInv` ties what is reported to
  what happened: a schedule that owes a success has a reason, a success is as old
  as the outcome says (`OutcomesSound`), a task whose exit the callback saw is told
  (`TasksSound`), what a probe found up was up during the request (`RequestSound`).
  A task that ended counts as running until its callback, in the code and in the
  theorems.

**Notifications**, with any number of processes and events:

- `NotificationTypes`, `ClaimsAreExclusive`. `ClaimInv` adds `ClaimsMatch`: before
  its commit a claim is on an unsent event, after it on one in "sending". The row
  lock protects the first half and the status the second.
- `DispatchersImplementOutbox`. `MailsMatch` is needed beside it: an event that may be
  mailed again has had no mail but those answered with an error, and one about to
  be recorded as sent has had exactly one more.
- `StuckNeedsFault`. The events in "sending" that nobody holds are no more than the
  faults: each step adds at most one to them, and only a fault does.

**GmailPoller**, with any number of polls, messages, attachments and faults:

- `PollerTypes`, `NoAttachmentIsLost`, `NoAttachmentTwice`. `PollInv` adds
  `PollsSound`, that everything a poll has passed in its message was queued, and
  `KeysSound`, that an existing key stands for an entry and each other entry for an
  expiry. Without the latter a poll that skips an attachment because of its key
  would not know that another one queued it.

**Migrations**, with any legacy row and any content of the load-number columns:

- `DecisionsAreKept`, `ConstraintsAlwaysHold`. `IInv` adds what makes a downgrade
  harmless: while there is no table of decisions the status and the log still yield the
  decision (`Derivable`), and in a database with the table an undecided run has an empty
  log, so that nothing is made up when the table is rebuilt (`LogIsBacked`).
  `ChecksCoverConstraints` says that numbers the script's own checks let through meet the
  constraints and the unique index.
- `MigratedRunsAreCoherent`, an action property of the upgrade through 202607190002
  alone. It cannot be an invariant: the program at the head marks decided runs failed
  and completes runs from a checkpoint without a recorded decision (section 6). What
  the next upgrade finds of such a row after a downgrade it makes coherent again.
- `FailuresAreKept`, an action property. `ValueFits` says that a check's value is one
  of the schema the database is at; a value of the other schema would be translated
  wrongly by the next upgrade.

Only model-checked: liveness (`EveryEntryLeaves`, `EveryReplayEnds`,
`EveryReviewEnds`, `OverdueIsFlagged`, `EveryScanEnds`, `EveryEventMailed`,
`EveryMessageServed`). It rests on fairness and `ENABLED`, which are out of the
prover's reach.

Only proved: `NoJobIsLost`, `ReplayIsIdempotent`, `ReplaysAreSerial`,
`SettledRunsAreNotRerun`, whose invariants no run lists.

## 5. Not modelled

- Extraction and triage: calls to a language model. Their results are
  nondeterministic.
- Gmail authentication, read-only routes, schemas, web interface: no state the others
  depend on.
- Migrations other than 202607190002 and 202607190003: they create tables, columns and
  indexes; 202607190001 removes duplicates that no table of `Migrations` has, and a
  downgrade of 202607190004 drops the exceptions with their events, so that they open
  and are announced anew.
- The arithmetic of amounts, names and dates in reconciliation.
- Concurrent invocations of one LangGraph thread, possible after a lost lease: what
  they leave is up to the library.

## 6. Findings

1. `Delivery_stranded`. A worker loses its lease; another one takes over, completes
   and acknowledges. The first one's invocation then fails and writes "retrying"
   over "complete". Nothing is left to retry it.
2. `Delivery_undone`. A worker dies after its commit on the last attempt but one.
   The first database call of the redelivery raises, and `_mark_job_failed` turns
   the committed run into a failed one.
3. `Runs_unrecorded`. A review dies between checkpoint and commit. A redelivery on
   its last attempt meets a database error and marks the run failed, and an
   operator's replay completes it from the checkpoint: a reviewed run without a
   `ReviewDecision`.

The lines and the sentences of the repository's README these contradict are in
`PROJECT.json`.

What else the models show, without a run of its own:

- *A masked failure.* `src/README.md:78` says that the latest failure remains degraded
  until a later success. That holds for polls and scans (`ScheduledFailureStays`). It
  does not for notifications: a batch summary that starts between the refusal of a mail
  and the end of its dispatch sets `in_progress`, and the scheduler takes that at
  `main.py:87` for a success of its own (`DispatchReturns` of `Health`).
- *A worker that never starts.* When `ensure_consumer_group` fails once at start, the
  worker's task ends and nothing starts it again: the process answers 503 until it is
  restarted.
- *A replay held up.* A "retrying" written by a delivery that lost its lease, after the
  replay ended, keeps the dead letter from being replayed again. It happens at most once
  for each lost lease (`ReplayNotWedged`).
- *Polls that do not get past a message.* An attachment that the envelope rejects raises
  out of the whole poll, so does one that can never be downloaded or decoded
  (`gmail_poller.py:93`), and a message without supported attachments stays unread.
  Each can keep older messages from being reached; the three are the premises of
  `EveryMessageServed`.
- *An upload nobody takes up.* When the process of an upload dies after it committed
  "running", the run stays so: there is no entry to deliver. `UnfinishedIsOwned` shows
  that this is the only such case.
- *A task that is cancelled is not reported.* A `CancelledError` that reaches a
  background task while the process runs (raised again at `invoice_worker.py:456`) ends
  it, and `main.py:102` returns without a report: readiness goes on to answer from the
  last status. The properties of `Health` therefore speak of tasks known to be dead.
- *A failed run that is ready for posting.* A session that read "not_ready" leaves the
  posting column alone when it marks the run failed, so a reviewer's approval that was
  committed meanwhile stays in it.
- *A decision that a downgrade forgets.* A run rejected by its checkpoint without a
  recorded decision has the status "rejected" but no row and no log. A downgrade writes
  the status anew from the row that is missing, and the next upgrade may find the run
  ready for posting.
- *Downgrades forget what was not evaluated.* A check that was not evaluated comes back
  from a downgrade and an upgrade as passed unless its details start as the upgrade
  expects. `FailuresStayFailures` is what does hold. And a shipment that the older
  program called reconciled stays so at the upgrade, though one of its checks becomes
  not evaluated.

## 7. Plan

Done, in this order: `InvoiceDelivery` with its proofs, `WorkflowRuns`, `Shipments`,
`Notifications` and `GmailPoller` with their proofs, the abstract specifications
`JobLedger` and `Outbox` with the refinements, `Health`, `Migrations` with its proofs,
the proofs about leases, `WorkflowRuns`, `Shipments` and `Health`.

Next:

1. Action properties that follow from the invariants above and that no run checks: a
   committed posting of a decided run never changes, an exception's events are only
   appended to.
2. Liveness with a crash and a lost lease in one run of `InvoiceDelivery`, which needs
   a smaller model of the heartbeat.
