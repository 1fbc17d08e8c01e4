------------------------------- MODULE Health -------------------------------
(***************************************************************************)
(* The life of one API process as GET /health/ready reports it: the        *)
(* lifespan with its three background tasks, their callbacks, the          *)
(* RuntimeHealth they and the requests of the process report to, and the   *)
(* readiness request, which notes the time, awaits its probes and then     *)
(* reads the runtime.                                                      *)
(*                                                                         *)
(* Code between two awaits is one step.  A timestamp is kept as its age in *)
(* ticks, up to the age at which nothing changes any more.  Several ticks  *)
(* may fall into a readiness request: a probe gives up after               *)
(* HEALTH_PROBE_TIMEOUT_SECONDS, but a Gmail call of the notifier on the   *)
(* event loop delays the timeout too.                                      *)
(***************************************************************************)
EXTENDS Integers

CONSTANTS
    Deps,              \* dependencies probed: PostgreSQL, checkpoints, Redis
    Postgresql,        \* the one the SLA scanner needs
    Redis,             \* the one the worker needs
    ClaudeConfigured,  \* inspect_anthropic_configuration finds a key
    StaleAfter,        \* ticks until a success is stale
    MaxLate,           \* bound: ticks that fall into one readiness request
    MaxFaults          \* bound: losses of a dependency or of the Gmail token,
                       \* failures of an operation or a probe with all it needs
                       \* up, tasks ended by anything but an Exception

ASSUME HealthAssumption ==
    /\ Postgresql \in Deps
    /\ Redis \in Deps
    /\ ClaudeConfigured \in BOOLEAN
    /\ StaleAfter \in Nat
    /\ MaxLate \in Nat
    /\ MaxFaults \in Nat

\* BackgroundOutcomes with a schedule, and all of them.
Scheduled == {"gmail", "sla"}
Capabilities == Scheduled \cup {"notifications"}

MaxAge == StaleAfter + MaxLate + 1
Ages == 0..MaxAge

(* BackgroundOutcome: tried, an attempt was made; ok, one succeeded; age,
   that of last_success_at, or of last_attempt_at before the first success;
   reason_code; in_progress. *)
Outcome == [tried : BOOLEAN, ok : BOOLEAN, age : Ages,
            reason : {"none", "failed", "exited"}, busy : BOOLEAN]

NoOutcome == [tried |-> FALSE, ok |-> FALSE, age |-> 0, reason |-> "none",
              busy |-> FALSE]

\* A readiness request: what each probe answered, and the ticks since it noted the
\* time.
Probes == Deps \cup {"token"}
NoProbes == [p \in Probes |-> "pending"]
Request == [active : BOOLEAN, probes : [Probes -> {"pending", "up", "down"}],
            late : 0..MaxLate]

NoRequest == [active |-> FALSE, probes |-> NoProbes, late |-> 0]

VARIABLES
    phase,     \* ProcessPhase; the lifespan runs to its yield without an await
    task,      \* the three background tasks
    status,    \* invoice_worker_status
    manual,    \* a POST /gmail/poll is polling
    outcome,   \* the BackgroundOutcomes
    up,        \* what would answer a probe now, "token" included
    request,   \* a GET /health/ready
    answer,    \* the status it was answered with
    since,     \* history: ticks since the last success of each schedule
    owed,      \* history: the last scheduled operation to end has failed
    seen,      \* history: what was up at some moment of the request
    faults

runtimeVars == <<task, status, manual, outcome, since, owed>>
requestVars == <<request, answer>>
vars == <<phase, runtimeVars, up, requestVars, seen, faults>>

TaskStates ==
    [gmail : {"asleep", "polling", "raised", "cancelled", "dead"},
     sla : {"asleep", "scanning", "dispatching", "refused", "raised",
            "cancelled", "dead"},
     worker : {"setup", "loop", "recording", "raised", "cancelled", "dead"}]

\* Types of all variables.
TypeOK ==
    /\ phase \in {"running", "stopping"}
    /\ task \in TaskStates
    /\ status \in {"starting", "available", "unavailable"}
    /\ manual \in BOOLEAN
    /\ outcome \in [Capabilities -> Outcome]
    /\ up \subseteq Probes
    /\ request \in Request
    /\ answer \in {"none", "ready", "degraded", "unavailable"}
    /\ since \in [Scheduled -> Ages]
    /\ owed \in [Scheduled -> BOOLEAN]
    /\ seen \subseteq Probes
    /\ faults \in 0..MaxFaults

Init ==
    /\ phase = "running"
    /\ task = [gmail |-> "asleep", sla |-> "asleep", worker |-> "setup"]
    /\ status = "starting"
    /\ manual = FALSE
    /\ outcome = [c \in Capabilities |-> NoOutcome]
    /\ up = Probes
    /\ request = NoRequest
    /\ answer = "none"
    /\ since = [c \in Scheduled |-> MaxAge]
    /\ owed = [c \in Scheduled |-> FALSE]
    /\ seen = {}
    /\ faults = 0

-----------------------------------------------------------------------------
(* BackgroundOutcome *)

\* Mutant: staleness is counted from the last attempt.
StartedMutantAttempt(o) == [o EXCEPT !.tried = TRUE, !.busy = TRUE, !.age = 0]

\* Mutant: a new attempt forgets the old failure.
StartedMutantForgets(o) ==
    [o EXCEPT !.tried = TRUE, !.busy = TRUE, !.reason = "none",
              !.age = IF o.ok THEN @ ELSE 0]

Started(o) == [o EXCEPT !.tried = TRUE, !.busy = TRUE, !.age = IF o.ok THEN @ ELSE 0]

Succeeded(o) == [o EXCEPT !.ok = TRUE, !.age = 0, !.reason = "none", !.busy = FALSE]

Failed(o, reason) == [o EXCEPT !.reason = reason, !.busy = FALSE]

\* An operation starts, ends well, or fails.
Begin(c) ==
    /\ outcome' = [outcome EXCEPT ![c] = Started(@)]
    /\ UNCHANGED <<since, owed>>

Succeed(c) ==
    /\ outcome' = [outcome EXCEPT ![c] = Succeeded(@)]
    /\ since' = [since EXCEPT ![c] = 0]
    /\ owed' = [owed EXCEPT ![c] = FALSE]

Fail(c) ==
    /\ outcome' = [outcome EXCEPT ![c] = Failed(@, "failed")]
    /\ owed' = IF c \in Scheduled THEN [owed EXCEPT ![c] = TRUE] ELSE owed
    /\ UNCHANGED since

Fault == faults < MaxFaults /\ faults' = faults + 1

\* What an operation needs is missing, or it fails all the same.
Fails(need) ==
    \/ need \notin up /\ UNCHANGED faults
    \/ Fault

Goto(t, label) == task' = [task EXCEPT ![t] = label]

\* What the steps of tasks and requests leave alone.
Outside == UNCHANGED <<phase, up, requestVars, seen>>

-----------------------------------------------------------------------------
(* gmail_poll_scheduler and POST /gmail/poll *)

\* A scheduled poll, or one a request asked for.
PollStarts(by) ==
    /\ \/ by = "schedule" /\ task.gmail = "asleep"
          /\ Goto("gmail", "polling") /\ UNCHANGED manual
       \/ by = "request" /\ ~manual /\ phase = "running"
          /\ manual' = TRUE /\ UNCHANGED task
    /\ Begin("gmail")
    /\ Outside /\ UNCHANGED <<status, faults>>

\* The poll returns or raises; scheduler and request both survive it.
PollLeaves(by) ==
    \/ by = "schedule" /\ task.gmail = "polling"
       /\ Goto("gmail", "asleep") /\ UNCHANGED manual
    \/ by = "request" /\ manual
       /\ manual' = FALSE /\ UNCHANGED task

PollSucceeds(by) ==
    /\ PollLeaves(by)
    /\ "token" \in up
    /\ Succeed("gmail")
    /\ Outside /\ UNCHANGED <<status, faults>>

PollFails(by) ==
    /\ PollLeaves(by)
    /\ Fails("token")
    /\ Fail("gmail")
    /\ Outside /\ UNCHANGED status

-----------------------------------------------------------------------------
(* missing_document_sla_scheduler *)

ScanStarts ==
    /\ task.sla = "asleep"
    /\ Goto("sla", "scanning")
    /\ Begin("sla")
    /\ Outside /\ UNCHANGED <<status, manual, faults>>

\* The scan succeeded, and the dispatch of notifications starts.
ScanSucceeds ==
    /\ task.sla = "scanning"
    /\ Postgresql \in up
    /\ Goto("sla", "dispatching")
    /\ outcome' = [outcome EXCEPT !["sla"] = Succeeded(@),
                                  !["notifications"] = Started(@)]
    /\ since' = [since EXCEPT !["sla"] = 0]
    /\ owed' = [owed EXCEPT !["sla"] = FALSE]
    /\ Outside /\ UNCHANGED <<status, manual, faults>>

ScanFails ==
    /\ task.sla = "scanning"
    /\ Fails(Postgresql)
    /\ Goto("sla", "asleep")
    /\ Fail("sla")
    /\ Outside /\ UNCHANGED <<status, manual>>

\* Gmail refuses a mail; the dispatch has yet to put its event back.
DispatchRefused ==
    /\ task.sla = "dispatching"
    /\ Fails("token")
    /\ Goto("sla", "refused")
    /\ Fail("notifications")
    /\ Outside /\ UNCHANGED <<status, manual>>

\* The dispatch returned: in_progress is taken for "no failure of this dispatch".
DispatchReturns ==
    /\ task.sla \in {"dispatching", "refused"}
    /\ Goto("sla", "asleep")
    /\ outcome' = IF outcome["notifications"].busy
                  THEN [outcome EXCEPT !["notifications"] = Succeeded(@)]
                  ELSE outcome
    /\ Outside /\ UNCHANGED <<status, manual, since, owed, faults>>

\* A database call of the dispatch raised.
DispatchRaises ==
    /\ task.sla \in {"dispatching", "refused"}
    /\ Fails(Postgresql)
    /\ Goto("sla", "asleep")
    /\ Fail("notifications")
    /\ Outside /\ UNCHANGED <<status, manual>>

-----------------------------------------------------------------------------
(* process_invoice_queue *)

SetupSucceeds ==
    /\ task.worker = "setup"
    /\ Redis \in up
    /\ Goto("worker", "loop")
    /\ status' = "available"
    /\ Outside /\ UNCHANGED <<manual, outcome, since, owed, faults>>

\* Mutant: the reason code is stored as the status.
SetupFailsMutant ==
    /\ task.worker = "setup"
    /\ Fails(Redis)
    /\ Goto("worker", "raised")
    /\ status' = "operation_failed"
    /\ Outside /\ UNCHANGED <<manual, outcome, since, owed>>

\* The only error that leaves the worker: nothing starts it again.
SetupFails ==
    /\ task.worker = "setup"
    /\ Fails(Redis)
    /\ Goto("worker", "raised")
    /\ status' = "unavailable"
    /\ Outside /\ UNCHANGED <<manual, outcome, since, owed>>

\* _flush_batch_summary mails without an await; the record of it comes later.
SummaryMailed ==
    /\ task.worker = "loop"
    /\ "token" \in up
    /\ Goto("worker", "recording")
    /\ Begin("notifications")
    /\ Outside /\ UNCHANGED <<status, manual, faults>>

\* Without a Gmail token the summary is skipped, and reported as a success.
SummarySkipped ==
    /\ task.worker = "loop"
    /\ "token" \notin up
    /\ outcome' = [outcome EXCEPT !["notifications"] = Succeeded(Started(@))]
    /\ Outside /\ UNCHANGED <<task, status, manual, since, owed, faults>>

SummaryRefused ==
    /\ task.worker = "loop"
    /\ "token" \in up
    /\ Fault
    /\ outcome' = [outcome EXCEPT !["notifications"] = Failed(Started(@), "failed")]
    /\ Outside /\ UNCHANGED <<task, status, manual, since, owed>>

SummaryRecorded ==
    /\ task.worker = "recording"
    /\ Postgresql \in up
    /\ Goto("worker", "loop")
    /\ outcome' = [outcome EXCEPT !["notifications"] = Succeeded(@)]
    /\ Outside /\ UNCHANGED <<status, manual, since, owed, faults>>

SummaryNotRecorded ==
    /\ task.worker = "recording"
    /\ Fails(Postgresql)
    /\ Goto("worker", "loop")
    /\ Fail("notifications")
    /\ Outside /\ UNCHANGED <<status, manual>>

-----------------------------------------------------------------------------
(* The lifespan *)

\* A task ends with something its except clauses do not catch: an exception its
\* callback will report, or a CancelledError, on which the callback returns at once.
TaskExits(t) ==
    /\ task[t] \notin {"raised", "cancelled", "dead"}
    /\ phase = "running"
    /\ Fault
    /\ Goto(t, "raised") \/ Goto(t, "cancelled")
    /\ Outside /\ UNCHANGED <<status, manual, outcome, since, owed>>

\* Mutant: only the outcomes of the schedulers are told.
RecordTaskExitMutant(t) ==
    /\ task[t] = "raised"
    /\ Goto(t, "dead")
    /\ outcome' = IF phase = "running" /\ t # "worker"
                  THEN [outcome EXCEPT ![t] = Failed(@, "exited")]
                  ELSE outcome
    /\ Outside /\ UNCHANGED <<status, manual, since, owed, faults>>

\* _record_unexpected_task_exit, which the loop calls after the task is done.
RecordTaskExit(t) ==
    /\ task[t] = "raised"
    /\ Goto(t, "dead")
    /\ outcome' = IF phase = "running" /\ t # "worker"
                  THEN [outcome EXCEPT ![t] = Failed(@, "exited")]
                  ELSE outcome
    /\ status' = IF phase = "running" /\ t = "worker" THEN "unavailable" ELSE status
    /\ Outside /\ UNCHANGED <<manual, since, owed, faults>>

\* After the yield: the tasks are cancelled, and their callbacks say nothing.
Stop ==
    /\ phase = "running"
    /\ phase' = "stopping"
    /\ task' = [t \in DOMAIN task |-> "dead"]
    /\ UNCHANGED <<status, manual, outcome, since, owed, up, requestVars, seen,
                   faults>>

-----------------------------------------------------------------------------
(* readiness *)

ReadinessStarts ==
    /\ ~request.active
    /\ request' = [NoRequest EXCEPT !.active = TRUE]
    /\ answer' = "none"
    /\ seen' = up
    /\ UNCHANGED <<phase, runtimeVars, up, faults>>

\* _bounded_probe: an error and a timeout are the same answer.
ProbeReturns(p) ==
    /\ request.active
    /\ request.probes[p] = "pending"
    /\ \/ /\ p \in up
          /\ request' = [request EXCEPT !.probes[p] = "up"]
          /\ UNCHANGED faults
       \/ /\ Fails(p)
          /\ request' = [request EXCEPT !.probes[p] = "down"]
    /\ UNCHANGED <<phase, runtimeVars, up, answer, seen>>

Down(p) == request.probes[p] = "down"

\* now was read when the request came in.
Stale(c) ==
    /\ c \in Scheduled
    /\ outcome[c].tried
    /\ outcome[c].age - request.late > StaleAfter

\* _runtime_capability, and what readiness makes of it.
Capability(c) ==
    LET o == outcome[c] IN
    IF c # "sla" /\ Down("token") THEN "unavailable"
    ELSE IF c = "notifications" /\ ~o.tried THEN "available"
    ELSE IF c = "sla" /\ Down(Postgresql) THEN (IF o.ok THEN "degraded" ELSE "unavailable")
    ELSE IF o.reason # "none" THEN (IF o.ok THEN "degraded" ELSE "unavailable")
    ELSE IF Stale(c) THEN "degraded"
    ELSE IF ~o.ok THEN "starting"
    ELSE "available"

CoreReady ==
    /\ phase = "running"
    /\ status = "available"
    /\ \A d \in Deps : ~Down(d)

Overall ==
    CASE ~CoreReady -> "unavailable"
      [] CoreReady /\ ClaudeConfigured
                   /\ \A c \in Capabilities : Capability(c) = "available" -> "ready"
      [] OTHER -> "degraded"

\* The answer is put together without an await once the last probe is back.
ReadinessAnswers ==
    /\ request.active
    /\ \A p \in Probes : request.probes[p] # "pending"
    /\ answer' = Overall
    /\ request' = NoRequest
    /\ seen' = {}
    /\ UNCHANGED <<phase, runtimeVars, up, faults>>

-----------------------------------------------------------------------------
(* The world *)

Lose(p) ==
    /\ p \in up
    /\ Fault
    /\ up' = up \ {p}
    /\ UNCHANGED <<phase, runtimeVars, requestVars, seen>>

Regain(p) ==
    /\ p \notin up
    /\ up' = up \cup {p}
    /\ seen' = IF request.active THEN seen \cup {p} ELSE seen
    /\ UNCHANGED <<phase, runtimeVars, requestVars, faults>>

Older(a) == IF a < MaxAge THEN a + 1 ELSE a

Tick ==
    /\ request.late < MaxLate
    /\ \E c \in Scheduled : since[c] < MaxAge \/ outcome[c].age < MaxAge
    /\ outcome' = [c \in Capabilities |->
                     IF c \in Scheduled /\ outcome[c].tried
                     THEN [outcome[c] EXCEPT !.age = Older(@)] ELSE outcome[c]]
    /\ since' = [c \in Scheduled |-> Older(since[c])]
    /\ request' = [request EXCEPT !.late = IF request.active THEN @ + 1 ELSE @]
    /\ UNCHANGED <<phase, task, status, manual, owed, up, answer, seen, faults>>

-----------------------------------------------------------------------------

Gmail(by) == PollStarts(by) \/ PollSucceeds(by) \/ PollFails(by)

Sla ==
    \/ ScanStarts \/ ScanSucceeds \/ ScanFails
    \/ DispatchRefused \/ DispatchReturns \/ DispatchRaises

Worker ==
    \/ SetupSucceeds \/ SetupFails
    \/ SummaryMailed \/ SummarySkipped \/ SummaryRefused
    \/ SummaryRecorded \/ SummaryNotRecorded

Readiness ==
    \/ ReadinessStarts
    \/ \E p \in Probes : ProbeReturns(p)
    \/ ReadinessAnswers

Lifespan ==
    \/ \E t \in DOMAIN task : TaskExits(t) \/ RecordTaskExit(t)
    \/ Stop

World == Tick \/ \E p \in Probes : Lose(p) \/ Regain(p)

Next ==
    \/ \E by \in {"schedule", "request"} : Gmail(by)
    \/ Sla \/ Worker \/ Readiness \/ Lifespan \/ World

Spec == Init /\ [][Next]_vars

-----------------------------------------------------------------------------
(* Properties *)

Answered == request.active /\ ~request'.active

\* A 200 answer is true of the moment it is given, though time, probes and runtime
\* were read at different moments: the process is not stopping, the worker has its
\* consumer group and is not known to be dead, and every dependency was up at some
\* moment of the request.
CoreIsUp ==
    [][Answered /\ answer' # "unavailable" =>
         /\ phase = "running"
         /\ task.worker \notin {"setup", "dead"}
         /\ Deps \subseteq seen]_vars

\* "ready" means that the last poll and the last scan to end both succeeded, not
\* longer ago than the stale window and the ticks the probes took, whatever
\* polls overlap, hang or fail meanwhile, and that the scanner is not known to be
\* dead.
ReadyIsEarned ==
    [][Answered /\ answer' = "ready" =>
         /\ \A c \in Scheduled :
               ~owed[c] /\ since[c] <= StaleAfter + request.late
         /\ task.sla # "dead"
         /\ "token" \in seen]_vars

\* A failed poll or scan is reported until a later one succeeds, also while the
\* next one is in progress and when polls of the scheduler and of requests
\* overlap.
ScheduledFailureStays ==
    \A c \in Scheduled : owed[c] => Capability(c) \in {"degraded", "unavailable"}
=============================================================================
