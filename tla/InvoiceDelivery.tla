-------------------------- MODULE InvoiceDelivery --------------------------
(***************************************************************************)
(* At-least-once delivery of invoice jobs over a Redis stream with one     *)
(* consumer group: the producer (enqueue_job), the worker loop             *)
(* (process_invoice_queue and everything it calls), the dead-letter        *)
(* stream, and the operator's replay and purge of dead letters.            *)
(*                                                                         *)
(* PostgreSQL appears as the processing_status of each job's run row; the  *)
(* workflow graph is the nondeterministic outcome of one invocation.       *)
(* Redis commands, MULTI blocks and scripts are atomic; so is one database *)
(* transaction.  Everything between two awaits that talk to a store is one *)
(* step, and tasks of all workers interleave at those awaits.              *)
(***************************************************************************)
EXTENDS Integers, FiniteSets

CONSTANTS
    Workers,         \* consumers: one per running worker process
    Jobs,            \* well-formed invoice job envelopes, by idempotency key
    Garbage,         \* a payload parse_delivery rejects
    Requests,        \* idempotency ids of the operator's replay requests
    NoRequest,       \* "this entry is not a replay"
    MaxAttempts,     \* INVOICE_MAX_ATTEMPTS
    BatchSize,       \* MAX_BATCH_SIZE
    MaxEntries,      \* bound: entries ever added to the invoice stream
    MaxDeadLetters,  \* bound: entries ever added to the dead-letter stream
    MaxForeign,      \* bound: unparseable entries among them
    MaxExpiries,     \* bound: expiries of one job's dedupe key
    MaxFaults,       \* bound: crashes and failed store calls
    MaxLeaseFaults   \* bound: dead heartbeats and stalled event loops

ASSUME DeliveryAssumption ==
    /\ IsFiniteSet(Workers)
    /\ Garbage \notin Jobs
    /\ NoRequest \notin Requests
    /\ MaxAttempts \in Nat \ {0}
    /\ BatchSize \in Nat \ {0}
    /\ MaxEntries \in Nat
    /\ MaxDeadLetters \in Nat
    /\ MaxForeign \in Nat
    /\ MaxExpiries \in Nat
    /\ MaxFaults \in Nat
    /\ MaxLeaseFaults \in Nat

Ids == 1..MaxEntries
DlqIds == 1..MaxDeadLetters

RunStatus ==
    {"none", "running", "retrying", "awaiting_review", "complete", "failed"}

\* REDELIVERY_SHORT_CIRCUIT_PROCESSING_STATUSES
Settled == {"complete", "awaiting_review"}

\* What an invocation that returns makes of the run: the graph finished, or it
\* paused for a reviewer.
GraphOutcomes == {"complete", "awaiting_review"}

\* NONTERMINAL_REPLAY_STATES
NonterminalReplay == {"enqueued", "processing", "retrying"}

ReplayStates == NonterminalReplay \cup {"none", "acknowledged", "dead_lettered"}

Entry == [job : Jobs \cup {Garbage},
          dlq : DlqIds \cup {0},
          req : Requests \cup {NoRequest}]

NoEntry == [job |-> Garbage, dlq |-> 0, req |-> NoRequest]

(***************************************************************************)
(* A task is one _process_delivery of one worker.  pc names the next       *)
(* store call; attempt is delivery.attempt; loaded is processing_status    *)
(* as the second session of _run_workflow_for_job read it; beating says    *)
(* the heartbeat task is alive.                                            *)
(***************************************************************************)
PCs == {"idle", "claimed", "start", "lookup", "load", "run",
        "mark", "bury", "record", "ack"}

Task == [pc : PCs, attempt : Nat, loaded : RunStatus, beating : BOOLEAN]

NoTask == [pc |-> "idle", attempt |-> 0, loaded |-> "none", beating |-> FALSE]

VARIABLES
    entry,        \* what was ever added under each stream id
    added,        \* last id the stream generated
    live,         \* ids still in the stream
    cursor,       \* the group's last-delivered id
    times,        \* delivery counter in the group's PEL, 0 if not pending
    idle,         \* pending ids whose idle time passed the visibility timeout
    dedupe,       \* jobs whose dedupe key exists
    dlqOrig,      \* original_stream_id of every dead letter ever added
    dlqAdded,     \* last dead-letter id
    dlqLive,      \* dead letters not purged
    replayLast,   \* last_request_id of each replay hash
    replayEntry,  \* action:<request>:live_stream_id of each replay hash
    replayState,  \* action:<request>:state of each replay hash
    run,          \* processing_status of each job's run row
    everSettled,  \* history: jobs whose run was ever committed as settled
    task,         \* task[w][i]: worker w's delivery of entry i
    phase,        \* which command the worker loop issues next
    faults,
    leaseFaults

streamVars == <<entry, added, live, dedupe>>
groupVars == <<cursor, times, idle>>
dlqVars == <<dlqOrig, dlqAdded, dlqLive>>
replayVars == <<replayLast, replayEntry, replayState>>
dbVars == <<run, everSettled>>
faultVars == <<faults, leaseFaults>>
vars == <<streamVars, groupVars, dlqVars, replayVars, dbVars, task, phase,
          faultVars>>

StreamOK ==
    /\ entry \in [Ids -> Entry]
    /\ added \in 0..MaxEntries
    /\ live \subseteq 1..added
    /\ dedupe \subseteq Jobs

GroupOK ==
    /\ cursor \in 0..added
    /\ times \in [Ids -> Nat]
    /\ idle \subseteq Ids

DlqOK ==
    /\ dlqOrig \in [DlqIds -> 0..MaxEntries]
    /\ dlqAdded \in 0..MaxDeadLetters
    /\ dlqLive \subseteq 1..dlqAdded

ReplayOK ==
    /\ replayLast \in [DlqIds -> Requests \cup {NoRequest}]
    /\ replayEntry \in [DlqIds -> [Requests -> 0..MaxEntries]]
    /\ replayState \in [DlqIds -> [Requests -> ReplayStates]]

RunsOK ==
    /\ run \in [Jobs -> RunStatus]
    /\ everSettled \subseteq Jobs

TasksOK == task \in [Workers -> [Ids -> Task]]

LoopOK ==
    /\ phase \in [Workers -> {"claim", "read"}]
    /\ faults \in 0..MaxFaults
    /\ leaseFaults \in 0..MaxLeaseFaults

\* Every variable has its type, and no entry, cursor or dead letter lies beyond
\* the last id its stream generated.
TypeOK ==
    StreamOK /\ GroupOK /\ DlqOK /\ ReplayOK /\ RunsOK /\ TasksOK /\ LoopOK

Init ==
    /\ entry = [i \in Ids |-> NoEntry]
    /\ added = 0
    /\ live = {}
    /\ cursor = 0
    /\ times = [i \in Ids |-> 0]
    /\ idle = {}
    /\ dedupe = {}
    /\ dlqOrig = [d \in DlqIds |-> 0]
    /\ dlqAdded = 0
    /\ dlqLive = {}
    /\ replayLast = [d \in DlqIds |-> NoRequest]
    /\ replayEntry = [d \in DlqIds |-> [r \in Requests |-> 0]]
    /\ replayState = [d \in DlqIds |-> [r \in Requests |-> "none"]]
    /\ run = [j \in Jobs |-> "none"]
    /\ everSettled = {}
    /\ task = [w \in Workers |-> [i \in Ids |-> NoTask]]
    /\ phase = [w \in Workers |-> "claim"]
    /\ faults = 0
    /\ leaseFaults = 0

-----------------------------------------------------------------------------
(* Helpers *)

\* The n smallest members: what a COUNT n scan from the start returns.
FirstOf(S, n) == {x \in S : Cardinality({y \in S : y < x}) < n}

Active(w, i) == task[w][i].pc # "idle"
Idle(w) == \A i \in Ids : ~Active(w, i)
JobOf(i) == entry[i].job
IsReplay(i) == entry[i].req # NoRequest

\* Mutant: no heartbeat, long work outlives its lease.
HoldsLeaseMutant(w, i) == task[w][i].pc \in {"claimed", "start", "ack"}

\* The lease is being renewed, or the task is within one store call of
\* starting or ending, far below the visibility timeout.
HoldsLease(w, i) ==
    /\ Active(w, i)
    /\ task[w][i].beating \/ task[w][i].pc \in {"claimed", "start", "ack"}

SetTask(w, i, t) == task' = [task EXCEPT ![w][i] = t]
Goto(w, i, label) == SetTask(w, i, [task[w][i] EXCEPT !.pc = label])

\* The ORM writes only a column that differs from the value the session loaded.
OrmWrite(current, loaded, new) == IF new = loaded THEN current ELSE new

\* HSET of action:<request>:state; a no-op for an entry that is no replay.
SetReplayState(i, s) ==
    replayState' = IF IsReplay(i)
                   THEN [replayState EXCEPT ![entry[i].dlq][entry[i].req] = s]
                   ELSE replayState

\* XADD to the invoice stream.
XAdd(e) ==
    /\ added < MaxEntries
    /\ added' = added + 1
    /\ entry' = [entry EXCEPT ![added + 1] = e]
    /\ live' = live \cup {added + 1}

\* Mutant: XDEL without XACK.
XRemoveMutant(i) ==
    /\ live' = live \ {i}
    /\ UNCHANGED <<times, idle>>

\* XACK and XDEL of one entry.
XRemove(i) ==
    /\ live' = live \ {i}
    /\ times' = [times EXCEPT ![i] = 0]
    /\ idle' = idle \ {i}

-----------------------------------------------------------------------------
(* Producers *)

\* ENQUEUE_SCRIPT: nothing happens while the dedupe key exists.
Enqueue(j) ==
    /\ j \notin dedupe
    /\ dedupe' = dedupe \cup {j}
    /\ XAdd([job |-> j, dlq |-> 0, req |-> NoRequest])
    /\ UNCHANGED <<groupVars, dlqVars, replayVars, dbVars, task, phase, faultVars>>

\* The dedupe key's time to live ends.
DedupeExpires(j) ==
    /\ j \in dedupe
    /\ Cardinality({i \in 1..added : JobOf(i) = j /\ ~IsReplay(i)}) <= MaxExpiries
    /\ dedupe' = dedupe \ {j}
    /\ UNCHANGED <<entry, added, live, groupVars, dlqVars, replayVars, dbVars,
                   task, phase, faultVars>>

\* Another producer adds an entry this version cannot parse.
ForeignAdd ==
    /\ Cardinality({i \in 1..added : JobOf(i) = Garbage}) < MaxForeign
    /\ XAdd(NoEntry)
    /\ UNCHANGED <<dedupe, groupVars, dlqVars, replayVars, dbVars, task, phase,
                   faultVars>>

-----------------------------------------------------------------------------
(* The worker loop *)

\* XAUTOCLAIM from 0-0; an empty answer sends the loop on to XREADGROUP.
ClaimStale(w) ==
    /\ phase[w] = "claim"
    /\ Idle(w)
    /\ LET claimed == FirstOf(idle, BatchSize) IN
       /\ times' = [i \in Ids |-> IF i \in claimed THEN times[i] + 1 ELSE times[i]]
       /\ idle' = idle \ claimed
       /\ task' = [task EXCEPT ![w] =
                     [i \in Ids |-> IF i \in claimed
                                    THEN [NoTask EXCEPT !.pc = "claimed"]
                                    ELSE NoTask]]
       /\ phase' = [phase EXCEPT ![w] = IF claimed = {} THEN "read" ELSE "claim"]
    /\ UNCHANGED <<streamVars, cursor, dlqVars, replayVars, dbVars, faultVars>>

\* XPENDING for one claimed entry: the attempt number, or 1 if it has gone.
ReadAttempt(w, i) ==
    /\ task[w][i].pc = "claimed"
    /\ \A k \in Ids : k < i => task[w][k].pc # "claimed"
    /\ SetTask(w, i, [task[w][i] EXCEPT
                        !.pc = "start",
                        !.attempt = IF times[i] > 0 THEN times[i] ELSE 1])
    /\ UNCHANGED <<streamVars, groupVars, dlqVars, replayVars, dbVars, phase,
                   faultVars>>

\* Mutant: XREADGROUP with NOACK, nothing enters the PEL.
ReadNewMutant(w) ==
    /\ phase[w] = "read"
    /\ Idle(w)
    /\ phase' = [phase EXCEPT ![w] = "claim"]
    /\ LET new == FirstOf({i \in live : i > cursor}, BatchSize) IN
       /\ IF new = {} THEN cursor' = cursor
          ELSE \E c \in new : (\A i \in new : i <= c) /\ cursor' = c
       /\ task' = [task EXCEPT ![w] =
                     [i \in Ids |-> IF i \in new
                                    THEN [NoTask EXCEPT !.pc = "start",
                                                        !.attempt = 1]
                                    ELSE NoTask]]
    /\ UNCHANGED <<streamVars, times, idle, dlqVars, replayVars, dbVars, faultVars>>

\* XREADGROUP >: the next undelivered entries enter the PEL with counter 1.
ReadNew(w) ==
    /\ phase[w] = "read"
    /\ Idle(w)
    /\ phase' = [phase EXCEPT ![w] = "claim"]
    /\ LET new == FirstOf({i \in live : i > cursor}, BatchSize) IN
       /\ IF new = {} THEN cursor' = cursor
          ELSE \E c \in new : (\A i \in new : i <= c) /\ cursor' = c
       /\ times' = [i \in Ids |-> IF i \in new THEN 1 ELSE times[i]]
       /\ task' = [task EXCEPT ![w] =
                     [i \in Ids |-> IF i \in new
                                    THEN [NoTask EXCEPT !.pc = "start",
                                                        !.attempt = 1]
                                    ELSE NoTask]]
    /\ UNCHANGED <<streamVars, idle, dlqVars, replayVars, dbVars, faultVars>>

-----------------------------------------------------------------------------
(* One delivery: _process_delivery *)

\* Mutant: the entry is copied but neither acknowledged nor deleted.
DeadLetterMutantKeep(i) ==
    /\ dlqAdded < MaxDeadLetters
    /\ dlqAdded' = dlqAdded + 1
    /\ dlqOrig' = [dlqOrig EXCEPT ![dlqAdded + 1] = i]
    /\ dlqLive' = dlqLive \cup {dlqAdded + 1}
    /\ SetReplayState(i, "dead_lettered")
    /\ UNCHANGED <<live, times, idle>>

\* Mutant: the replay hash is not told.
DeadLetterMutantSilent(i) ==
    /\ dlqAdded < MaxDeadLetters
    /\ dlqAdded' = dlqAdded + 1
    /\ dlqOrig' = [dlqOrig EXCEPT ![dlqAdded + 1] = i]
    /\ dlqLive' = dlqLive \cup {dlqAdded + 1}
    /\ XRemove(i)
    /\ UNCHANGED replayState

\* The MULTI block of dead_letter.
DeadLetter(i) ==
    /\ dlqAdded < MaxDeadLetters
    /\ dlqAdded' = dlqAdded + 1
    /\ dlqOrig' = [dlqOrig EXCEPT ![dlqAdded + 1] = i]
    /\ dlqLive' = dlqLive \cup {dlqAdded + 1}
    /\ XRemove(i)
    /\ SetReplayState(i, "dead_lettered")

\* gather starts every delivery once the whole batch is in hand.
MayStart(w, i) ==
    /\ task[w][i].pc = "start"
    /\ \A k \in Ids : task[w][k].pc # "claimed"

\* A payload that does not parse is buried at once, whatever the attempt.
StartMalformed(w, i) ==
    /\ MayStart(w, i)
    /\ JobOf(i) \notin Jobs
    /\ DeadLetter(i)
    /\ SetTask(w, i, NoTask)
    /\ UNCHANGED <<entry, added, dedupe, cursor, replayLast, replayEntry,
                   dbVars, phase, faultVars>>

\* record_replay_processing, then the heartbeat task is created.
Start(w, i) ==
    /\ MayStart(w, i)
    /\ JobOf(i) \in Jobs
    /\ SetReplayState(i, "processing")
    /\ SetTask(w, i, [task[w][i] EXCEPT !.pc = "lookup", !.beating = TRUE])
    /\ UNCHANGED <<streamVars, groupVars, dlqVars, replayLast, replayEntry,
                   dbVars, phase, faultVars>>

\* Mutant: the last attempt is buried without marking the run.
AfterFailureMutantUnmarked(w, i) ==
    Goto(w, i, IF task[w][i].attempt >= MaxAttempts THEN "bury" ELSE "record")

\* Mutant: one attempt too many.
AfterFailureMutantOneMore(w, i) ==
    Goto(w, i, IF task[w][i].attempt > MaxAttempts THEN "mark" ELSE "record")

\* The except branch: the last attempt is marked and buried, others recorded.
AfterFailure(w, i) ==
    Goto(w, i, IF task[w][i].attempt >= MaxAttempts THEN "mark" ELSE "record")

\* The finally branch on success: awaiting a dead heartbeat raises its error,
\* so the delivery ends without an acknowledgement.
AfterSuccess(w, i) ==
    IF task[w][i].beating
    THEN SetTask(w, i, [task[w][i] EXCEPT !.pc = "ack", !.beating = FALSE])
    ELSE SetTask(w, i, NoTask)

\* _get_or_create_job_records and the two early exits after it.
Lookup(w, i) ==
    LET j == JobOf(i)
        status == IF run[j] = "none" THEN "running" ELSE run[j]
    IN  /\ task[w][i].pc = "lookup"
        /\ run' = [run EXCEPT ![j] = status]
        /\ CASE status = "failed" /\ ~IsReplay(i) -> AfterFailure(w, i)
             [] status \in Settled -> AfterSuccess(w, i)
             [] OTHER -> Goto(w, i, "load")
        /\ UNCHANGED <<streamVars, groupVars, dlqVars, replayVars, everSettled,
                       phase, faultVars>>

\* The second session reads the row again; a replay reopens a failed run.
Load(w, i) ==
    LET j == JobOf(i)
        status == IF IsReplay(i) /\ run[j] = "failed" THEN "retrying" ELSE run[j]
    IN  /\ task[w][i].pc = "load"
        /\ run' = [run EXCEPT ![j] = status]
        /\ SetTask(w, i, [task[w][i] EXCEPT !.pc = "run", !.loaded = status])
        /\ UNCHANGED <<streamVars, groupVars, dlqVars, replayVars, everSettled,
                       phase, faultVars>>

\* The graph returned: completed, or paused for review.  One commit, then ack, unless
\* the answer to the commit is lost: then the call raises all the same.
RunSucceeds(w, i, result) ==
    LET j == JobOf(i) IN
    /\ task[w][i].pc = "run"
    /\ run' = [run EXCEPT ![j] = OrmWrite(run[j], task[w][i].loaded, result)]
    /\ everSettled' = everSettled \cup {j}
    /\ AfterSuccess(w, i) \/ AfterFailure(w, i)
    /\ UNCHANGED <<streamVars, groupVars, dlqVars, replayVars, phase, faultVars>>

\* The graph raised: the row becomes "retrying" and the error propagates.
RunFails(w, i) ==
    LET j == JobOf(i) IN
    /\ task[w][i].pc = "run"
    /\ run' = [run EXCEPT ![j] = OrmWrite(run[j], task[w][i].loaded, "retrying")]
    /\ AfterFailure(w, i)
    /\ UNCHANGED <<streamVars, groupVars, dlqVars, replayVars, everSettled,
                   phase, faultVars>>

\* A database call of _run_workflow_for_job raised before it committed, or after
\* Lookup or Load did.
DatabaseFails(w, i) ==
    /\ task[w][i].pc \in {"lookup", "load", "run"}
    /\ AfterFailure(w, i)
    /\ UNCHANGED <<streamVars, groupVars, dlqVars, replayVars, dbVars, phase,
                   faultVars>>

\* _mark_job_failed: no look at the status it overwrites.
MarkJobFailed(w, i) ==
    LET j == JobOf(i) IN
    /\ task[w][i].pc = "mark"
    /\ run' = [run EXCEPT ![j] = IF run[j] = "none" THEN "none" ELSE "failed"]
    /\ Goto(w, i, "bury")
    /\ UNCHANGED <<streamVars, groupVars, dlqVars, replayVars, everSettled,
                   phase, faultVars>>

Bury(w, i) ==
    /\ task[w][i].pc = "bury"
    /\ DeadLetter(i)
    /\ SetTask(w, i, NoTask)
    /\ UNCHANGED <<entry, added, dedupe, cursor, replayLast, replayEntry,
                   dbVars, phase, faultVars>>

\* record_failure: the entry stays pending until its lease runs out.
RecordFailure(w, i) ==
    /\ task[w][i].pc = "record"
    /\ SetReplayState(i, "retrying")
    /\ SetTask(w, i, NoTask)
    /\ UNCHANGED <<streamVars, groupVars, dlqVars, replayLast, replayEntry,
                   dbVars, phase, faultVars>>

\* Mutant: the replay hash is not told.
AcknowledgeMutant(w, i) ==
    /\ task[w][i].pc = "ack"
    /\ XRemove(i)
    /\ SetTask(w, i, NoTask)
    /\ UNCHANGED <<entry, added, dedupe, cursor, dlqVars, replayVars, dbVars,
                   phase, faultVars>>

\* The MULTI block of acknowledge.
Acknowledge(w, i) ==
    /\ task[w][i].pc = "ack"
    /\ XRemove(i)
    /\ SetReplayState(i, "acknowledged")
    /\ SetTask(w, i, NoTask)
    /\ UNCHANGED <<entry, added, dedupe, cursor, dlqVars, replayLast,
                   replayEntry, dbVars, phase, faultVars>>

-----------------------------------------------------------------------------
(* Leases and failures *)

\* XCLAIM JUSTID with min-idle 0 and RETRYCOUNT attempt: a pending entry is
\* taken back and its counter overwritten, whoever holds it now.
Heartbeat(w, i) ==
    /\ task[w][i].beating
    /\ times[i] > 0
    /\ times' = [times EXCEPT ![i] = task[w][i].attempt]
    /\ idle' = idle \ {i}
    /\ UNCHANGED <<streamVars, cursor, dlqVars, replayVars, dbVars, task, phase,
                   faultVars>>

\* One failed XCLAIM ends the heartbeat task for good.
HeartbeatDies(w, i) ==
    /\ task[w][i].beating
    /\ leaseFaults < MaxLeaseFaults
    /\ leaseFaults' = leaseFaults + 1
    /\ SetTask(w, i, [task[w][i] EXCEPT !.beating = FALSE])
    /\ UNCHANGED <<streamVars, groupVars, dlqVars, replayVars, dbVars, phase,
                   faults>>

\* The visibility timeout passes on an entry nobody renews.
LeaseExpires(i) ==
    /\ times[i] > 0
    /\ i \notin idle
    /\ \A w \in Workers : ~HoldsLease(w, i)
    /\ idle' = idle \cup {i}
    /\ UNCHANGED <<streamVars, cursor, times, dlqVars, replayVars, dbVars, task,
                   phase, faultVars>>

\* It passes on an entry whose worker is alive but too late to renew it: a
\* blocking call held the event loop.
LeaseLapses(w, i) ==
    /\ HoldsLease(w, i)
    /\ times[i] > 0
    /\ i \notin idle
    /\ leaseFaults < MaxLeaseFaults
    /\ leaseFaults' = leaseFaults + 1
    /\ idle' = idle \cup {i}
    /\ UNCHANGED <<streamVars, cursor, times, dlqVars, replayVars, dbVars, task,
                   phase, faults>>

\* A store call outside _run_workflow_for_job raises: the delivery ends at its
\* boundary in _process_batch and the entry stays pending.
BoundaryFails(w, i) ==
    /\ \/ task[w][i].pc \in {"mark", "bury", "record", "ack"}
       \/ MayStart(w, i) /\ (IsReplay(i) \/ JobOf(i) \notin Jobs)
    /\ faults < MaxFaults
    /\ faults' = faults + 1
    /\ SetTask(w, i, NoTask)
    /\ UNCHANGED <<streamVars, groupVars, dlqVars, replayVars, dbVars, phase,
                   leaseFaults>>

\* The process dies, or the batch fails as a whole before its tasks start.
Crash(w) ==
    /\ ~Idle(w)
    /\ faults < MaxFaults
    /\ faults' = faults + 1
    /\ task' = [task EXCEPT ![w] = [i \in Ids |-> NoTask]]
    /\ phase' = [phase EXCEPT ![w] = "claim"]
    /\ UNCHANGED <<streamVars, groupVars, dlqVars, replayVars, dbVars,
                   leaseFaults>>

-----------------------------------------------------------------------------
(* Operator actions on dead letters *)

\* Mutant: only a replay nobody picked up yet counts as in progress.
ReplayInProgressMutant(d, r) ==
    /\ replayLast[d] \notin {NoRequest, r}
    /\ replayState[d][replayLast[d]] = "enqueued"

\* REPLAY_SCRIPT refuses a second action while the last one is in progress.
ReplayInProgress(d, r) ==
    /\ replayLast[d] \notin {NoRequest, r}
    /\ replayState[d][replayLast[d]] \in NonterminalReplay

\* A request that already created its entry is answered from the hash.
ReplayExists(d, r) == replayEntry[d][r] # 0

\* replay_dlq_entry, outcome "created"; every other outcome changes nothing.
Replay(d, r) ==
    /\ d \in dlqLive
    /\ JobOf(dlqOrig[d]) \in Jobs
    /\ ~ReplayExists(d, r)
    /\ ~ReplayInProgress(d, r)
    /\ XAdd([job |-> JobOf(dlqOrig[d]), dlq |-> d, req |-> r])
    /\ replayLast' = [replayLast EXCEPT ![d] = r]
    /\ replayEntry' = [replayEntry EXCEPT ![d][r] = added + 1]
    /\ replayState' = [replayState EXCEPT ![d][r] = "enqueued"]
    /\ UNCHANGED <<dedupe, groupVars, dlqVars, dbVars, task, phase, faultVars>>

\* PURGE_BATCH_SCRIPT: the oldest dead letters go, with their replay hashes.
Purge(cutoff) ==
    LET purged == {d \in dlqLive : d < cutoff} IN
    /\ purged # {}
    /\ dlqLive' = dlqLive \ purged
    /\ replayLast' = [d \in DlqIds |->
                        IF d \in purged THEN NoRequest ELSE replayLast[d]]
    /\ replayEntry' = [d \in DlqIds |->
                        IF d \in purged THEN [r \in Requests |-> 0]
                        ELSE replayEntry[d]]
    /\ replayState' = [d \in DlqIds |->
                        IF d \in purged THEN [r \in Requests |-> "none"]
                        ELSE replayState[d]]
    /\ UNCHANGED <<streamVars, groupVars, dlqOrig, dlqAdded, dbVars, task, phase,
                   faultVars>>

-----------------------------------------------------------------------------

Producer ==
    \/ \E j \in Jobs : Enqueue(j) \/ DedupeExpires(j)
    \/ ForeignAdd

Loop(w) == ClaimStale(w) \/ ReadNew(w)

\* The steps a delivery takes by itself.
Process(w, i) ==
    \/ ReadAttempt(w, i)
    \/ StartMalformed(w, i)
    \/ Start(w, i)
    \/ Lookup(w, i)
    \/ Load(w, i)
    \/ \E result \in GraphOutcomes : RunSucceeds(w, i, result)
    \/ RunFails(w, i)
    \/ DatabaseFails(w, i)
    \/ MarkJobFailed(w, i)
    \/ Bury(w, i)
    \/ RecordFailure(w, i)
    \/ Acknowledge(w, i)

Failure(w, i) ==
    \/ HeartbeatDies(w, i)
    \/ LeaseLapses(w, i)
    \/ BoundaryFails(w, i)

OperatorReplays == \E d \in DlqIds, r \in Requests : Replay(d, r)

\* Every batch of purge_dlq_entries is a step with a cutoff of its own.
OperatorPurges == \E cutoff \in 2..(MaxDeadLetters + 1) : Purge(cutoff)

Operator == OperatorReplays \/ OperatorPurges

Next ==
    \/ Producer
    \/ \E w \in Workers : Loop(w) \/ Crash(w)
    \/ \E w \in Workers, i \in Ids :
          Process(w, i) \/ Heartbeat(w, i) \/ Failure(w, i)
    \/ \E i \in Ids : LeaseExpires(i)
    \/ Operator

Spec == Init /\ [][Next]_vars

\* The loop, every delivery and time itself go on; faults and the outside
\* world owe nothing.
FairSpec ==
    /\ Spec
    /\ \A w \in Workers : WF_vars(Loop(w))
    /\ \A w \in Workers, i \in Ids : WF_vars(Process(w, i))
    /\ \A i \in Ids : WF_vars(LeaseExpires(i))

-----------------------------------------------------------------------------
(* What holds whatever the leases do *)

HasEvidence(i) == \E d \in 1..dlqAdded : dlqOrig[d] = i

\* The group's pending list is exact: an entry is pending iff it was delivered
\* and is still in the stream, so neither acknowledge nor dead_letter leaves
\* a ghost in the list and no delivered entry drops out of reach of XAUTOCLAIM.
PendingListExact ==
    /\ \A i \in Ids : times[i] > 0 <=> i \in live /\ i <= cursor
    /\ \A i \in idle : times[i] > 0

\* An entry leaves the stream only with a dead letter carrying its fields, or
\* once a run of its job was committed as complete or awaiting_review: crashes,
\* failed calls and lost leases never lose a job.
NoSilentLoss ==
    \A i \in (1..added) \ live : HasEvidence(i) \/ JobOf(i) \in everSettled

\* A replay request is idempotent: however often it is sent, and whatever became
\* of the first entry, REPLAY_SCRIPT adds one entry for it.
ReplayIdempotent ==
    \A i, k \in 1..added :
        IsReplay(i) /\ entry[i].dlq = entry[k].dlq /\ entry[i].req = entry[k].req
            => i = k

\* Two replays of one dead letter are never in the stream together.
OneReplayInFlight ==
    \A i, k \in live : IsReplay(i) /\ entry[i].dlq = entry[k].dlq => i = k

\* The ledger of entries the stream implements.
Ledger ==
    INSTANCE JobLedger WITH
        Letters <- DlqIds,
        open <- live,
        settled <- everSettled,
        buried <- {i \in Ids : HasEvidence(i)}

\* The queue implements the ledger, whatever the leases do: an entry leaves the
\* stream only with its run committed or a dead letter written, a replay request
\* adds one entry however often it is sent and whatever became of the first, a
\* dead letter never has two replays in the stream, and only buried jobs are
\* replayed.
ImplementsLedger == Ledger!Spec

-----------------------------------------------------------------------------
(* What every lost lease may cost *)

Holders(i) == {w \in Workers : Active(w, i)}

\* A renewed lease is exclusive: an entry in the stream has one worker more than
\* leases were lost, so one while they are kept, and an entry that was acknowledged or
\* buried has none but those a lost lease left behind.
ExclusiveDelivery ==
    \A i \in Ids : Cardinality(Holders(i)) <= leaseFaults + IF i \in live THEN 1 ELSE 0

LettersOf(i) == {d \in 1..dlqAdded : dlqOrig[d] = i}

\* An entry is buried once, and again only by workers that a lost lease left with it.
BuriedOnce == \A i \in Ids : Cardinality(LettersOf(i)) <= 1 + leaseFaults

\* The delivery counter passes INVOICE_MAX_ATTEMPTS only by the number of deliveries
\* that a crash, a failed store call or a lost lease cut short, whatever superseded
\* heartbeats write to it.
AttemptsBounded == \A i \in Ids : times[i] <= MaxAttempts + faults + leaseFaults

Wedged(d, r) == replayState[d][r] \in NonterminalReplay /\ replayEntry[d][r] \notin live

\* While the dead letter exists, a replay shown as in progress really is in the
\* stream, so that the in-progress guard cannot refuse replays for good; a worker
\* whose lease was lost wedges the one replay it had, and no other.
ReplayNotWedged ==
    Cardinality({x \in dlqLive \X Requests : Wedged(x[1], x[2])}) <= leaseFaults

-----------------------------------------------------------------------------
(* What holds while leases are kept *)

HasLiveEntry(j) == \E i \in live : JobOf(i) = j
HasDeadLetter(j) == \E d \in 1..dlqAdded : JobOf(dlqOrig[d]) = j

\* While leases are kept, a run that is running or retrying still has an entry that
\* will be delivered, and a failed run has one or has a dead letter the operator can
\* replay.
NoStrandedRun ==
    leaseFaults = 0 =>
        \A j \in Jobs :
            /\ run[j] \in {"running", "retrying"} => HasLiveEntry(j)
            /\ run[j] = "failed" => HasLiveEntry(j) \/ HasDeadLetter(j)

AddedOnce(j) == \A i, k \in 1..added : JobOf(i) = j /\ JobOf(k) = j => i = k

\* Redelivery of a job's only entry, after a crash between the commit and the
\* acknowledgement, never runs a settled workflow again.
SettledRunNotRerun ==
    \A j \in everSettled :
        AddedOnce(j) => run[j] \notin {"none", "running", "retrying"}

\* Every entry eventually leaves the stream, acknowledged or buried.
EveryEntryLeaves == \A i \in Ids : i \in live ~> i \notin live

\* Every replay eventually shows a final state, unless its dead letter is purged.
EveryReplayEnds ==
    \A d \in DlqIds, r \in Requests :
        replayState[d][r] = "enqueued"
            ~> d \notin dlqLive \/ replayState[d][r] \notin NonterminalReplay

-----------------------------------------------------------------------------
(* What the documentation says and the code does not keep *)

\* "redelivery after a database commit but before `XACK` reuses the existing
\* document and workflow": a job's only entry never takes back what a commit
\* settled, whatever fails on the way.
RedeliveryReusesRun ==
    \A j \in everSettled : AddedOnce(j) => run[j] \in GraphOutcomes

\* "transient failures remain pending and are reclaimed up to
\* `INVOICE_MAX_ATTEMPTS`", and the last one is copied to the dead letters: a
\* run left retrying, with nobody at work on it, has an entry that will be
\* reclaimed or a dead letter.
TransientFailureStaysPending ==
    \A j \in Jobs :
        /\ run[j] = "retrying"
        /\ \A w \in Workers, i \in Ids : JobOf(i) = j => ~Active(w, i)
        => HasLiveEntry(j) \/ HasDeadLetter(j)
=============================================================================
