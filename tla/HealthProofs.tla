---------------------------- MODULE HealthProofs ----------------------------
(***************************************************************************)
(* Proofs about Health, for every set of dependencies, every stale window  *)
(* and any number of faults.                                               *)
(***************************************************************************)
EXTENDS Health, TLAPS

\* A schedule whose last operation failed has the reason for it; a success is as old
\* as the outcome says, and is that of an operation that had begun.
OutcomesSound ==
    \A c \in Scheduled :
        /\ owed[c] => outcome[c].reason # "none"
        /\ outcome[c].ok => outcome[c].tried /\ outcome[c].age = since[c]

\* An operation under way has begun; while the process runs, the exit of a task that
\* its callback has seen is told.
TasksSound ==
    /\ task.gmail = "polling" \/ manual => outcome["gmail"].tried
    /\ task.sla = "scanning" => outcome["sla"].tried
    /\ task.worker = "setup" => status # "available"
    /\ phase = "running" /\ task.worker = "dead" => status = "unavailable"
    /\ phase = "running" /\ task.sla = "dead" => outcome["sla"].reason # "none"

\* What is up, and what a probe found up, was up during the request.
RequestSound ==
    request.active =>
        /\ up \subseteq seen
        /\ \A p \in Probes : request.probes[p] = "up" => p \in seen

HealthInv == TypeOK /\ OutcomesSound /\ TasksSound /\ RequestSound

-----------------------------------------------------------------------------
(* Tasks and outcomes *)

\* The tasks are the fields of one record.
LEMMA TaskNames ==
    ASSUME task \in TaskStates
    PROVE  DOMAIN task = {"gmail", "sla", "worker"}
  BY DEF TaskStates

\* A task moves and the other two stay.
LEMMA GotoTask ==
    ASSUME task \in TaskStates, NEW t \in {"gmail", "sla", "worker"}, NEW label,
           Goto(t, label),
           t = "gmail" => label \in {"asleep", "polling", "raised", "cancelled", "dead"},
           t = "sla" => label \in {"asleep", "scanning", "dispatching", "refused",
                                   "raised", "cancelled", "dead"},
           t = "worker" => label \in {"setup", "loop", "recording", "raised", "cancelled",
                                      "dead"}
    PROVE  /\ task' \in TaskStates
           /\ task'.gmail = IF t = "gmail" THEN label ELSE task.gmail
           /\ task'.sla = IF t = "sla" THEN label ELSE task.sla
           /\ task'.worker = IF t = "worker" THEN label ELSE task.worker
<1>1. CASE t = "gmail"
  BY <1>1 DEF TaskStates, Goto
<1>2. CASE t = "sla"
  BY <1>2 DEF TaskStates, Goto
<1>3. CASE t = "worker"
  BY <1>3 DEF TaskStates, Goto
<1> QED
  BY <1>1, <1>2, <1>3

\* The lifespan ends and takes all tasks with it.
LEMMA StopTasks ==
    ASSUME task \in TaskStates, task' = [t \in DOMAIN task |-> "dead"]
    PROVE  /\ task' \in TaskStates
           /\ task'.gmail = "dead" /\ task'.sla = "dead" /\ task'.worker = "dead"
  BY TaskNames DEF TaskStates

\* What an outcome says after a report.
LEMMA OutcomeReports ==
    ASSUME NEW o \in Outcome, NEW reason \in {"failed", "exited"}
    PROVE  /\ Started(o) \in Outcome
           /\ Started(o).tried /\ Started(o).ok = o.ok /\ Started(o).reason = o.reason
           /\ o.ok => Started(o).age = o.age
           /\ Succeeded(o) \in Outcome
           /\ Succeeded(o).tried = o.tried /\ Succeeded(o).ok /\ Succeeded(o).age = 0
           /\ Succeeded(o).reason = "none"
           /\ Failed(o, reason) \in Outcome
           /\ Failed(o, reason).tried = o.tried /\ Failed(o, reason).ok = o.ok
           /\ Failed(o, reason).age = o.age /\ Failed(o, reason).reason = reason
<1>1. 0 \in Ages
  BY HealthAssumption DEF Ages, MaxAge
<1>2. /\ Started(o) \in Outcome
      /\ Started(o).tried /\ Started(o).ok = o.ok /\ Started(o).reason = o.reason
      /\ o.ok => Started(o).age = o.age
  BY <1>1 DEF Started, Outcome
<1>3. /\ Succeeded(o) \in Outcome
      /\ Succeeded(o).tried = o.tried /\ Succeeded(o).ok /\ Succeeded(o).age = 0
      /\ Succeeded(o).reason = "none"
  BY <1>1 DEF Succeeded, Outcome
<1>4. /\ Failed(o, reason) \in Outcome
      /\ Failed(o, reason).tried = o.tried /\ Failed(o, reason).ok = o.ok
      /\ Failed(o, reason).age = o.age /\ Failed(o, reason).reason = reason
  BY DEF Failed, Outcome
<1> QED
  BY <1>2, <1>3, <1>4

\* A request that nobody has made.
LEMMA NoRequestType == NoRequest \in Request /\ ~NoRequest.active
  BY HealthAssumption DEF NoRequest, NoProbes, Request

OutcomeTypes ==
    /\ outcome \in [Capabilities -> Outcome]
    /\ since \in [Scheduled -> Ages]
    /\ owed \in [Scheduled -> BOOLEAN]

\* The capabilities, and the schedules among them.
LEMMA Names ==
    /\ Scheduled = {"gmail", "sla"}
    /\ Capabilities = {"gmail", "sla", "notifications"}
    /\ 0 \in Ages
  BY HealthAssumption DEF Scheduled, Capabilities, Ages, MaxAge

\* An operation begins: what is known of earlier ones stays.
LEMMA BeginOutcome ==
    ASSUME TypeOK, OutcomesSound, NEW c \in Capabilities, Begin(c)
    PROVE  /\ OutcomeTypes' /\ OutcomesSound'
           /\ outcome'[c].tried
           /\ \A k \in Capabilities : /\ outcome[k].tried => outcome'[k].tried
                                      /\ outcome'[k].reason = outcome[k].reason
<1>1. /\ outcome' = [outcome EXCEPT ![c] = Started(outcome[c])]
      /\ since' = since /\ owed' = owed
  BY DEF Begin
<1>2. outcome \in [Capabilities -> Outcome] /\ outcome[c] \in Outcome
  BY DEF TypeOK
<1>3. /\ Started(outcome[c]) \in Outcome /\ Started(outcome[c]).tried
      /\ Started(outcome[c]).ok = outcome[c].ok
      /\ Started(outcome[c]).reason = outcome[c].reason
      /\ outcome[c].ok => Started(outcome[c]).age = outcome[c].age
  BY <1>2, OutcomeReports
<1>4. /\ outcome'[c] = Started(outcome[c])
      /\ \A k \in Capabilities : k # c => outcome'[k] = outcome[k]
  BY <1>1, <1>2
<1>5. OutcomeTypes'
  BY <1>1, <1>2, <1>3 DEF OutcomeTypes, TypeOK
<1>6. OutcomesSound'
  BY <1>1, <1>3, <1>4, Names DEF OutcomesSound
<1> QED
  BY <1>3, <1>4, <1>5, <1>6

\* A scheduled operation that had begun succeeds.
LEMMA SucceedOutcome ==
    ASSUME TypeOK, OutcomesSound, NEW c \in Scheduled, outcome[c].tried, Succeed(c)
    PROVE  /\ OutcomeTypes' /\ OutcomesSound'
           /\ \A k \in Capabilities : /\ outcome[k].tried => outcome'[k].tried
                                      /\ k # c => outcome'[k].reason = outcome[k].reason
<1>1. /\ outcome' = [outcome EXCEPT ![c] = Succeeded(outcome[c])]
      /\ since' = [since EXCEPT ![c] = 0] /\ owed' = [owed EXCEPT ![c] = FALSE]
  BY DEF Succeed
<1>2. /\ c \in Capabilities /\ outcome \in [Capabilities -> Outcome] /\ outcome[c] \in Outcome
      /\ since \in [Scheduled -> Ages] /\ owed \in [Scheduled -> BOOLEAN]
  BY Names DEF TypeOK
<1>3. /\ Succeeded(outcome[c]) \in Outcome
      /\ Succeeded(outcome[c]).tried = outcome[c].tried
      /\ Succeeded(outcome[c]).age = 0
  BY <1>2, OutcomeReports
<1>4. /\ outcome'[c] = Succeeded(outcome[c]) /\ since'[c] = 0 /\ ~owed'[c]
      /\ \A k \in Capabilities : k # c => outcome'[k] = outcome[k]
      /\ \A k \in Scheduled : k # c => since'[k] = since[k] /\ (owed'[k] <=> owed[k])
  BY <1>1, <1>2
<1>5. OutcomeTypes'
  BY <1>1, <1>2, <1>3, Names DEF OutcomeTypes
<1>6. OutcomesSound'
  <2>1. Succeeded(outcome[c]).tried
    BY <1>3, Zenon
  <2> QED
    BY <2>1, <1>3, <1>4, Names DEF OutcomesSound
<1> QED
  BY <1>3, <1>4, <1>5, <1>6

\* A failure is noted, and debts of the schedules are not forgiven.
LEMMA FailOutcome ==
    ASSUME TypeOK, OutcomesSound, NEW c \in Capabilities, Fail(c)
    PROVE  /\ OutcomeTypes' /\ OutcomesSound'
           /\ \A k \in Capabilities : /\ outcome[k].tried => outcome'[k].tried
                                      /\ outcome[k].reason # "none" => outcome'[k].reason # "none"
<1>1. /\ outcome' = [outcome EXCEPT ![c] = Failed(outcome[c], "failed")] /\ since' = since
      /\ owed' = IF c \in Scheduled THEN [owed EXCEPT ![c] = TRUE] ELSE owed
  BY DEF Fail
<1>2. /\ outcome \in [Capabilities -> Outcome] /\ outcome[c] \in Outcome
      /\ owed \in [Scheduled -> BOOLEAN]
  BY DEF TypeOK
<1>3. /\ Failed(outcome[c], "failed") \in Outcome
      /\ Failed(outcome[c], "failed").tried = outcome[c].tried
      /\ Failed(outcome[c], "failed").ok = outcome[c].ok
      /\ Failed(outcome[c], "failed").age = outcome[c].age
      /\ Failed(outcome[c], "failed").reason = "failed"
  BY <1>2, OutcomeReports
<1>4. /\ outcome'[c] = Failed(outcome[c], "failed")
      /\ \A k \in Capabilities : k # c => outcome'[k] = outcome[k]
      /\ \A k \in Scheduled : k # c => (owed'[k] <=> owed[k])
  BY <1>1, <1>2
<1>5. OutcomeTypes'
  <2>1. owed' \in [Scheduled -> BOOLEAN]
    BY <1>1, <1>2
  <2> QED
    BY <2>1, <1>1, <1>2, <1>3 DEF OutcomeTypes, TypeOK
<1>6. OutcomesSound'
  BY <1>1, <1>3, <1>4, Names DEF OutcomesSound
<1> QED
  BY <1>3, <1>4, <1>5, <1>6

\* A report about notifications alone leaves the schedules as they are.
LEMMA NotifyOutcome ==
    ASSUME TypeOK, OutcomesSound, NEW o \in Outcome,
           outcome' = [outcome EXCEPT !["notifications"] = o], UNCHANGED <<since, owed>>
    PROVE  /\ OutcomeTypes' /\ OutcomesSound'
           /\ outcome'["gmail"] = outcome["gmail"] /\ outcome'["sla"] = outcome["sla"]
<1>1. outcome'["gmail"] = outcome["gmail"] /\ outcome'["sla"] = outcome["sla"]
  BY Names DEF TypeOK
<1>2. OutcomeTypes'
  BY Names DEF OutcomeTypes, TypeOK
<1>3. OutcomesSound'
  BY <1>1, Names DEF OutcomesSound
<1> QED
  BY <1>1, <1>2, <1>3

\* A step of a task or a request: the readiness request does not notice.
LEMMA RuntimeStep ==
    ASSUME HealthInv, Outside, OutcomeTypes', OutcomesSound', TasksSound',
           task' \in TaskStates, status' \in {"starting", "available", "unavailable"},
           manual' \in BOOLEAN, faults' \in 0..MaxFaults
    PROVE  HealthInv'
<1>1. UNCHANGED <<phase, up, request, answer, seen>>
  BY DEF Outside, requestVars
<1>2. TypeOK'
  BY <1>1 DEF HealthInv, TypeOK, OutcomeTypes
<1>3. RequestSound'
  BY <1>1 DEF HealthInv, RequestSound
<1> QED
  BY <1>2, <1>3 DEF HealthInv

\* Faults stay within their bound.
LEMMA FaultsBounded ==
    ASSUME TypeOK
    PROVE  /\ Fault => faults' \in 0..MaxFaults
           /\ \A need : Fails(need) => faults' \in 0..MaxFaults
           /\ UNCHANGED faults => faults' \in 0..MaxFaults
  BY HealthAssumption DEF TypeOK, Fault, Fails

-----------------------------------------------------------------------------
(* Steps of the tasks *)

\* Nothing has happened.
LEMMA InitInv == Init => HealthInv
<1> SUFFICES ASSUME Init PROVE HealthInv
  OBVIOUS
<1>1. NoOutcome \in Outcome /\ ~NoOutcome.ok
  BY Names DEF NoOutcome, Outcome
<1>2. \A c \in Scheduled : ~owed[c] /\ ~outcome[c].ok
  BY <1>1, Names DEF Init
<1>3. /\ task \in TaskStates /\ task.gmail = "asleep" /\ task.sla = "asleep"
      /\ task.worker = "setup"
  BY DEF Init, TaskStates
<1>4. TypeOK
  <2>1. MaxAge \in Ages /\ faults \in 0..MaxFaults
    BY HealthAssumption DEF Init, Ages, MaxAge
  <2>2. outcome \in [Capabilities -> Outcome] /\ since \in [Scheduled -> Ages]
    BY <2>1, <1>1 DEF Init
  <2>3. owed \in [Scheduled -> BOOLEAN] /\ manual \in BOOLEAN
    BY DEF Init
  <2> QED
    BY <2>1, <2>2, <2>3, <1>3, NoRequestType DEF Init, TypeOK
<1>5. OutcomesSound
  BY <1>2 DEF OutcomesSound
<1>6. TasksSound /\ RequestSound
  BY <1>3, NoRequestType DEF Init, TasksSound, RequestSound
<1> QED
  BY <1>4, <1>5, <1>6 DEF HealthInv

LEMMA PollStartsStep ==
    ASSUME HealthInv, NEW by \in {"schedule", "request"}, PollStarts(by) PROVE HealthInv'
<1>1. /\ Begin("gmail") /\ Outside /\ UNCHANGED <<status, faults>> /\ phase' = phase
  BY DEF PollStarts, Outside
<1>2. TypeOK /\ OutcomesSound /\ TasksSound /\ task \in TaskStates
  BY DEF HealthInv, TypeOK
<1>3. /\ OutcomeTypes' /\ OutcomesSound' /\ outcome'["gmail"].tried
      /\ outcome["sla"].tried => outcome'["sla"].tried
      /\ outcome'["sla"].reason = outcome["sla"].reason
  BY <1>1, <1>2, BeginOutcome, Names
<1>4. /\ task' \in TaskStates /\ task'.sla = task.sla /\ task'.worker = task.worker
      /\ manual' \in BOOLEAN
  BY <1>2, GotoTask DEF PollStarts, TypeOK
<1>5. TasksSound'
  BY <1>1, <1>2, <1>3, <1>4 DEF TasksSound
<1> QED
  BY <1>1, <1>2, <1>3, <1>4, <1>5, RuntimeStep DEF TypeOK

\* A poll that ends was under way, and leaves the other tasks alone.
LEMMA PollEnds ==
    ASSUME HealthInv, NEW by \in {"schedule", "request"}, PollLeaves(by)
    PROVE  /\ outcome["gmail"].tried
           /\ task' \in TaskStates /\ task'.sla = task.sla /\ task'.worker = task.worker
           /\ manual' \in BOOLEAN
  BY GotoTask DEF PollLeaves, HealthInv, TypeOK, TasksSound

LEMMA PollSucceedsStep ==
    ASSUME HealthInv, NEW by \in {"schedule", "request"}, PollSucceeds(by) PROVE HealthInv'
<1>1. /\ PollLeaves(by) /\ Succeed("gmail") /\ Outside /\ UNCHANGED <<status, faults>>
      /\ phase' = phase
  BY DEF PollSucceeds, Outside
<1>2. TypeOK /\ OutcomesSound /\ TasksSound
  BY DEF HealthInv
<1>3. /\ outcome["gmail"].tried
      /\ task' \in TaskStates /\ task'.sla = task.sla /\ task'.worker = task.worker
      /\ manual' \in BOOLEAN
  BY <1>1, PollEnds
<1>4. /\ OutcomeTypes' /\ OutcomesSound' /\ outcome'["gmail"].tried
      /\ outcome["sla"].tried => outcome'["sla"].tried
      /\ outcome'["sla"].reason = outcome["sla"].reason
  BY <1>1, <1>2, <1>3, SucceedOutcome, Names
<1>5. TasksSound'
  BY <1>1, <1>2, <1>3, <1>4 DEF TasksSound
<1> QED
  BY <1>1, <1>2, <1>3, <1>4, <1>5, RuntimeStep DEF TypeOK

LEMMA PollFailsStep ==
    ASSUME HealthInv, NEW by \in {"schedule", "request"}, PollFails(by) PROVE HealthInv'
<1>1. /\ PollLeaves(by) /\ Fails("token") /\ Fail("gmail") /\ Outside /\ UNCHANGED status
      /\ phase' = phase
  BY DEF PollFails, Outside
<1>2. TypeOK /\ OutcomesSound /\ TasksSound
  BY DEF HealthInv
<1>3. /\ outcome["gmail"].tried
      /\ task' \in TaskStates /\ task'.sla = task.sla /\ task'.worker = task.worker
      /\ manual' \in BOOLEAN
  BY <1>1, PollEnds
<1>4. /\ OutcomeTypes' /\ OutcomesSound' /\ outcome'["gmail"].tried
      /\ outcome["sla"].tried => outcome'["sla"].tried
      /\ outcome["sla"].reason # "none" => outcome'["sla"].reason # "none"
  BY <1>1, <1>2, <1>3, FailOutcome, Names
<1>5. TasksSound'
  BY <1>1, <1>2, <1>3, <1>4 DEF TasksSound
<1>6. faults' \in 0..MaxFaults
  BY <1>1, <1>2, FaultsBounded
<1> QED
  BY <1>1, <1>2, <1>3, <1>4, <1>5, <1>6, RuntimeStep DEF TypeOK

LEMMA ScanStartsStep == ASSUME HealthInv, ScanStarts PROVE HealthInv'
<1>1. /\ task.sla = "asleep" /\ Goto("sla", "scanning") /\ Begin("sla") /\ Outside
      /\ UNCHANGED <<status, manual, faults, phase>>
  BY DEF ScanStarts, Outside
<1>2. TypeOK /\ OutcomesSound /\ TasksSound /\ task \in TaskStates
  BY DEF HealthInv, TypeOK
<1>3. /\ OutcomeTypes' /\ OutcomesSound' /\ outcome'["sla"].tried
      /\ outcome["gmail"].tried => outcome'["gmail"].tried
  BY <1>1, <1>2, BeginOutcome, Names
<1>4. /\ task' \in TaskStates /\ task'.gmail = task.gmail /\ task'.sla = "scanning"
      /\ task'.worker = task.worker
  BY <1>1, <1>2, GotoTask
<1>5. TasksSound'
  BY <1>1, <1>2, <1>3, <1>4 DEF TasksSound
<1> QED
  BY <1>1, <1>2, <1>3, <1>4, <1>5, RuntimeStep DEF TypeOK

LEMMA ScanSucceedsStep == ASSUME HealthInv, ScanSucceeds PROVE HealthInv'
<1> DEFINE ok == Succeeded(outcome["sla"])
           begun == Started(outcome["notifications"])
<1>1. /\ task.sla = "scanning" /\ Goto("sla", "dispatching") /\ Outside
      /\ outcome' = [outcome EXCEPT !["sla"] = ok, !["notifications"] = begun]
      /\ since' = [since EXCEPT !["sla"] = 0] /\ owed' = [owed EXCEPT !["sla"] = FALSE]
      /\ UNCHANGED <<status, manual, faults, phase>>
  BY DEF ScanSucceeds, Outside
<1>2. /\ TypeOK /\ OutcomesSound /\ TasksSound /\ task \in TaskStates
      /\ outcome \in [Capabilities -> Outcome]
      /\ outcome["sla"] \in Outcome /\ outcome["notifications"] \in Outcome
      /\ since \in [Scheduled -> Ages] /\ owed \in [Scheduled -> BOOLEAN]
  BY Names DEF HealthInv, TypeOK
<1>3. outcome["sla"].tried
  BY <1>1, <1>2 DEF TasksSound
<1>4. ok \in Outcome /\ ok.tried = outcome["sla"].tried /\ ok.age = 0 /\ begun \in Outcome
  BY <1>2, OutcomeReports
<1>5. ok.tried
  BY <1>3, <1>4, Zenon
<1> HIDE DEF ok, begun
<1>6. /\ outcome'["sla"] = ok /\ outcome'["gmail"] = outcome["gmail"]
      /\ since'["sla"] = 0 /\ since'["gmail"] = since["gmail"]
      /\ ~owed'["sla"] /\ (owed'["gmail"] <=> owed["gmail"])
  BY <1>1, <1>2, Names
<1>7. OutcomeTypes'
  BY <1>1, <1>2, <1>4, Names DEF OutcomeTypes
<1>8. OutcomesSound'
  BY <1>2, <1>4, <1>5, <1>6, Names DEF OutcomesSound
<1>9. /\ task' \in TaskStates /\ task'.gmail = task.gmail /\ task'.sla = "dispatching"
      /\ task'.worker = task.worker
  BY <1>1, <1>2, GotoTask
<1>10. TasksSound'
  BY <1>1, <1>2, <1>6, <1>9 DEF TasksSound
<1> QED
  BY <1>1, <1>2, <1>7, <1>8, <1>9, <1>10, RuntimeStep DEF TypeOK

\* A step of the SLA scheduler to a place outside the scan that notes a failure.
LEMMA SlaFails ==
    ASSUME HealthInv, NEW c \in {"sla", "notifications"}, NEW need,
           NEW label \in {"asleep", "refused"},
           task.sla # "dead", Goto("sla", label), Fails(need), Fail(c), Outside,
           UNCHANGED <<status, manual>>
    PROVE  HealthInv'
<1>1. TypeOK /\ OutcomesSound /\ TasksSound /\ task \in TaskStates /\ phase' = phase
  BY DEF HealthInv, TypeOK, Outside
<1>2. /\ OutcomeTypes' /\ OutcomesSound'
      /\ outcome["gmail"].tried => outcome'["gmail"].tried
  BY <1>1, FailOutcome, Names
<1>3. /\ task' \in TaskStates /\ task'.gmail = task.gmail /\ task'.sla = label
      /\ task'.worker = task.worker
  BY <1>1, GotoTask
<1>4. TasksSound'
  BY <1>1, <1>2, <1>3 DEF TasksSound
<1>5. faults' \in 0..MaxFaults
  BY <1>1, FaultsBounded
<1> QED
  BY <1>1, <1>2, <1>3, <1>4, <1>5, RuntimeStep DEF TypeOK

LEMMA SlaFailsSteps ==
    ASSUME HealthInv, ScanFails \/ DispatchRefused \/ DispatchRaises PROVE HealthInv'
<1>1. CASE ScanFails
  BY <1>1, SlaFails DEF ScanFails
<1>2. CASE DispatchRefused
  BY <1>2, SlaFails DEF DispatchRefused
<1>3. CASE DispatchRaises
  BY <1>3, SlaFails DEF DispatchRaises
<1> QED
  BY <1>1, <1>2, <1>3

\* The steps that report on notifications and leave the Gmail poll and the scan alone.
LEMMA NotificationStep ==
    ASSUME HealthInv, Outside, UNCHANGED <<manual, since, owed>>,
           NEW o \in Outcome, outcome' = [outcome EXCEPT !["notifications"] = o],
           task' \in TaskStates, task'.gmail = task.gmail,
           task'.sla = task.sla \/ task'.sla = "asleep",
           task'.worker = task.worker \/ task'.worker \in {"loop", "recording"},
           status' = status, faults' \in 0..MaxFaults
    PROVE  HealthInv'
<1>1. TypeOK /\ OutcomesSound /\ TasksSound /\ phase' = phase
  BY DEF HealthInv, Outside
<1>2. /\ OutcomeTypes' /\ OutcomesSound'
      /\ outcome'["gmail"] = outcome["gmail"] /\ outcome'["sla"] = outcome["sla"]
  BY <1>1, NotifyOutcome
<1>3. TasksSound'
  BY <1>1, <1>2 DEF TasksSound
<1> QED
  BY <1>1, <1>2, <1>3, RuntimeStep DEF TypeOK

LEMMA DispatchReturnsStep == ASSUME HealthInv, DispatchReturns PROVE HealthInv'
<1> DEFINE n == outcome["notifications"]
           o == IF n.busy THEN Succeeded(n) ELSE n
<1>1. /\ Goto("sla", "asleep") /\ Outside /\ UNCHANGED <<status, manual, since, owed, faults>>
      /\ outcome' = IF n.busy THEN [outcome EXCEPT !["notifications"] = Succeeded(n)]
                    ELSE outcome
  BY DEF DispatchReturns
<1>2. /\ TypeOK /\ task \in TaskStates /\ outcome \in [Capabilities -> Outcome]
      /\ n \in Outcome
  BY Names DEF HealthInv, TypeOK
<1>3. o \in Outcome
  BY <1>2, OutcomeReports
<1>4. outcome' = [outcome EXCEPT !["notifications"] = o]
  BY <1>1, <1>2
<1>5. /\ task' \in TaskStates /\ task'.gmail = task.gmail /\ task'.sla = "asleep"
      /\ task'.worker = task.worker
  BY <1>1, <1>2, GotoTask
<1>6. faults' \in 0..MaxFaults
  BY <1>1, <1>2, FaultsBounded
<1> HIDE DEF o
<1> QED
  BY <1>1, <1>3, <1>4, <1>5, <1>6, NotificationStep

LEMMA SetupStep == ASSUME HealthInv, SetupSucceeds \/ SetupFails PROVE HealthInv'
<1>1. /\ Outside /\ UNCHANGED <<manual, outcome, since, owed, phase>>
  BY DEF SetupSucceeds, SetupFails, Outside
<1>2. TypeOK /\ OutcomesSound /\ TasksSound /\ task \in TaskStates
  BY DEF HealthInv, TypeOK
<1>3. faults' \in 0..MaxFaults
  BY <1>2, FaultsBounded DEF SetupSucceeds, SetupFails
<1>4. \/ Goto("worker", "loop") /\ status' = "available"
      \/ Goto("worker", "raised") /\ status' = "unavailable"
  BY DEF SetupSucceeds, SetupFails
<1>5. /\ task' \in TaskStates /\ task'.gmail = task.gmail /\ task'.sla = task.sla
      /\ task'.worker \in {"loop", "raised"}
  BY <1>2, <1>4, GotoTask
<1>6. OutcomeTypes' /\ OutcomesSound'
  BY <1>1, <1>2 DEF OutcomeTypes, OutcomesSound, TypeOK
<1>7. TasksSound'
  BY <1>1, <1>2, <1>5 DEF TasksSound
<1> QED
  BY <1>1, <1>2, <1>3, <1>4, <1>5, <1>6, <1>7, RuntimeStep DEF TypeOK

LEMMA SummarySteps ==
    ASSUME HealthInv,
           \/ SummaryMailed \/ SummarySkipped \/ SummaryRefused
           \/ SummaryRecorded \/ SummaryNotRecorded
    PROVE  HealthInv'
<1> DEFINE n == outcome["notifications"]
<1>1. TypeOK /\ task \in TaskStates /\ n \in Outcome
  BY Names DEF HealthInv, TypeOK
<1>2. /\ Started(n) \in Outcome /\ Succeeded(n) \in Outcome /\ Failed(n, "failed") \in Outcome
      /\ Succeeded(Started(n)) \in Outcome /\ Failed(Started(n), "failed") \in Outcome
  BY <1>1, OutcomeReports
<1>3. faults' \in 0..MaxFaults
  BY <1>1, FaultsBounded
     DEF SummaryMailed, SummarySkipped, SummaryRefused, SummaryRecorded, SummaryNotRecorded
<1>4. Outside /\ UNCHANGED <<manual, since, owed, status>>
  <2>1. Fail("notifications") => UNCHANGED <<since, owed>>
    BY Names DEF Fail
  <2> QED
    BY <2>1
       DEF SummaryMailed, SummarySkipped, SummaryRefused, SummaryRecorded,
           SummaryNotRecorded, Begin
<1>5. PICK o \in Outcome : outcome' = [outcome EXCEPT !["notifications"] = o]
  BY <1>2
     DEF SummaryMailed, SummarySkipped, SummaryRefused, SummaryRecorded,
         SummaryNotRecorded, Begin, Fail
<1>6. Goto("worker", "loop") \/ Goto("worker", "recording") \/ task' = task
  BY DEF SummaryMailed, SummarySkipped, SummaryRefused, SummaryRecorded, SummaryNotRecorded
<1>7. /\ task' \in TaskStates /\ task'.gmail = task.gmail /\ task'.sla = task.sla
      /\ task'.worker = task.worker \/ task'.worker \in {"loop", "recording"}
  BY <1>1, <1>6, GotoTask
<1> QED
  BY <1>3, <1>4, <1>5, <1>7, NotificationStep

-----------------------------------------------------------------------------
(* Steps of the lifespan *)

LEMMA TaskExitsStep ==
    ASSUME HealthInv, NEW t \in {"gmail", "sla", "worker"}, TaskExits(t) PROVE HealthInv'
<1>1. /\ Goto(t, "raised") \/ Goto(t, "cancelled")
      /\ Fault /\ Outside
      /\ UNCHANGED <<status, manual, outcome, since, owed, phase>>
  BY DEF TaskExits, Outside
<1>2. TypeOK /\ OutcomesSound /\ TasksSound /\ task \in TaskStates
  BY DEF HealthInv, TypeOK
<1>3. /\ task' \in TaskStates
      /\ task'.gmail \in {task.gmail, "raised", "cancelled"}
      /\ task'.sla \in {task.sla, "raised", "cancelled"}
      /\ task'.worker \in {task.worker, "raised", "cancelled"}
  BY <1>1, <1>2, GotoTask
<1>4. OutcomeTypes' /\ OutcomesSound'
  BY <1>1, <1>2 DEF OutcomeTypes, OutcomesSound, TypeOK
<1>5. TasksSound'
  BY <1>1, <1>2, <1>3 DEF TasksSound
<1>6. faults' \in 0..MaxFaults
  BY <1>1, <1>2, FaultsBounded
<1> QED
  BY <1>1, <1>2, <1>3, <1>4, <1>5, <1>6, RuntimeStep DEF TypeOK

\* The callback tells the exit of a task, unless the process is stopping.
LEMMA RecordTaskExitStep ==
    ASSUME HealthInv, NEW t \in {"gmail", "sla", "worker"}, RecordTaskExit(t) PROVE HealthInv'
<1>1. /\ Goto(t, "dead") /\ Outside /\ UNCHANGED <<manual, since, owed, faults, phase>>
      /\ outcome' = IF phase = "running" /\ t # "worker"
                    THEN [outcome EXCEPT ![t] = Failed(outcome[t], "exited")]
                    ELSE outcome
      /\ status' = IF phase = "running" /\ t = "worker" THEN "unavailable" ELSE status
  BY DEF RecordTaskExit, Outside
<1>2. /\ TypeOK /\ OutcomesSound /\ TasksSound /\ task \in TaskStates
      /\ outcome \in [Capabilities -> Outcome]
  BY DEF HealthInv, TypeOK
<1>3. /\ task' \in TaskStates
      /\ task'.gmail = IF t = "gmail" THEN "dead" ELSE task.gmail
      /\ task'.sla = IF t = "sla" THEN "dead" ELSE task.sla
      /\ task'.worker = IF t = "worker" THEN "dead" ELSE task.worker
  BY <1>1, <1>2, GotoTask
<1>4. CASE phase = "running" /\ t # "worker"
  <2> DEFINE o == Failed(outcome[t], "exited")
  <2>1. t \in Capabilities /\ outcome[t] \in Outcome
    BY <1>2, <1>4, Names
  <2>2. /\ o \in Outcome /\ o.tried = outcome[t].tried /\ o.ok = outcome[t].ok
        /\ o.age = outcome[t].age /\ o.reason = "exited"
    BY <2>1, OutcomeReports
  <2> HIDE DEF o
  <2>3. outcome' = [outcome EXCEPT ![t] = o] /\ status' = status
    BY <1>1, <1>4 DEF o
  <2>4. outcome'[t] = o /\ \A k \in Capabilities : k # t => outcome'[k] = outcome[k]
    BY <2>1, <2>3, <1>2
  <2>5. OutcomeTypes'
    BY <2>1, <2>2, <2>3, <1>1, <1>2 DEF OutcomeTypes, TypeOK
  <2>6. OutcomesSound'
    BY <2>2, <2>4, <1>1, <1>2, Names DEF OutcomesSound
  <2>7. TasksSound'
    BY <2>2, <2>3, <2>4, <1>1, <1>2, <1>3, <1>4, Names DEF TasksSound
  <2> QED
    BY <2>3, <2>5, <2>6, <2>7, <1>1, <1>2, <1>3, RuntimeStep DEF TypeOK
<1>5. CASE ~(phase = "running" /\ t # "worker")
  <2>1. outcome' = outcome
    BY <1>1, <1>5
  <2>2. OutcomeTypes' /\ OutcomesSound'
    BY <2>1, <1>1, <1>2 DEF OutcomeTypes, OutcomesSound, TypeOK
  <2>3. TasksSound'
    BY <2>1, <1>1, <1>2, <1>3, <1>5 DEF TasksSound
  <2> QED
    BY <2>2, <2>3, <1>1, <1>2, <1>3, RuntimeStep DEF TypeOK
<1> QED
  BY <1>4, <1>5

LEMMA StopStep == ASSUME HealthInv, Stop PROVE HealthInv'
<1>1. /\ phase' = "stopping" /\ task' = [t \in DOMAIN task |-> "dead"]
      /\ UNCHANGED <<status, manual, outcome, since, owed, up, request, answer, seen, faults>>
  BY DEF Stop, requestVars
<1>2. task' \in TaskStates /\ task'.gmail = "dead" /\ task'.sla = "dead"
      /\ task'.worker = "dead"
  BY <1>1, StopTasks DEF HealthInv, TypeOK
<1>3. TypeOK'
  BY <1>1, <1>2 DEF HealthInv, TypeOK
<1>4. OutcomesSound' /\ TasksSound' /\ RequestSound'
  BY <1>1, <1>2 DEF HealthInv, OutcomesSound, TasksSound, RequestSound
<1> QED
  BY <1>3, <1>4 DEF HealthInv

-----------------------------------------------------------------------------
(* Steps of the readiness request and of the world *)

\* A step that leaves the runtime alone.
LEMMA RuntimeKept ==
    ASSUME HealthInv, UNCHANGED <<phase, runtimeVars>>, RequestSound',
           up' \subseteq Probes, request' \in Request, seen' \subseteq Probes,
           answer' \in {"none", "ready", "degraded", "unavailable"}, faults' \in 0..MaxFaults
    PROVE  HealthInv'
<1>1. UNCHANGED <<phase, task, status, manual, outcome, since, owed>>
  BY DEF runtimeVars
<1>2. TypeOK'
  BY <1>1 DEF HealthInv, TypeOK
<1>3. OutcomesSound' /\ TasksSound'
  BY <1>1 DEF HealthInv, OutcomesSound, TasksSound
<1> QED
  BY <1>2, <1>3 DEF HealthInv

LEMMA ReadinessStartsStep == ASSUME HealthInv, ReadinessStarts PROVE HealthInv'
<1>1. /\ request' = [NoRequest EXCEPT !.active = TRUE] /\ answer' = "none" /\ seen' = up
      /\ UNCHANGED <<phase, runtimeVars>> /\ up' = up /\ faults' = faults
  BY DEF ReadinessStarts
<1>2. /\ request' \in Request /\ \A p \in Probes : request'.probes[p] = "pending"
  BY <1>1, NoRequestType DEF NoRequest, NoProbes, Request
<1>3. RequestSound'
  BY <1>1, <1>2 DEF RequestSound
<1> QED
  BY <1>1, <1>2, <1>3, RuntimeKept DEF HealthInv, TypeOK

LEMMA ProbeReturnsStep ==
    ASSUME HealthInv, NEW p \in Probes, ProbeReturns(p)
    PROVE  HealthInv' /\ request'.active
<1>1. /\ request.active /\ UNCHANGED <<phase, runtimeVars>>
      /\ UNCHANGED <<up, answer, seen>>
  BY DEF ProbeReturns
<1>2. PICK a \in {"up", "down"} :
        /\ request' = [request EXCEPT !.probes[p] = a]
        /\ a = "up" => p \in up
  BY DEF ProbeReturns
<1>3. TypeOK /\ request \in Request /\ request.probes \in [Probes -> {"pending", "up", "down"}]
  BY DEF HealthInv, TypeOK, Request
<1>4. /\ request' \in Request /\ request'.active = request.active
      /\ request'.probes = [request.probes EXCEPT ![p] = a]
  BY <1>2, <1>3 DEF Request
<1>5. \A q \in Probes : request'.probes[q] = IF q = p THEN a ELSE request.probes[q]
  BY <1>3, <1>4
<1>6. RequestSound'
  BY <1>1, <1>2, <1>5 DEF HealthInv, RequestSound
<1>7. faults' \in 0..MaxFaults
  BY <1>3, FaultsBounded DEF ProbeReturns
<1>8. request'.active
  BY <1>1, <1>4, Zenon
<1> QED
  BY <1>1, <1>3, <1>4, <1>6, <1>7, <1>8, RuntimeKept DEF TypeOK

\* What readiness may answer.
LEMMA OverallValues ==
    /\ Overall \in {"ready", "degraded", "unavailable"}
    /\ Overall # "unavailable" => CoreReady
    /\ Overall = "ready" => \A c \in Capabilities : Capability(c) = "available"
<1>1. CASE ~CoreReady
  BY <1>1 DEF Overall
<1>2. CASE CoreReady /\ ClaudeConfigured /\ \A c \in Capabilities : Capability(c) = "available"
  BY <1>2 DEF Overall
<1>3. CASE /\ CoreReady
           /\ ~(ClaudeConfigured /\ \A c \in Capabilities : Capability(c) = "available")
  BY <1>3 DEF Overall
<1> QED
  BY <1>1, <1>2, <1>3

\* A 200 answer and a "ready" are true when they are given.
LEMMA ReadinessAnswersStep ==
    ASSUME HealthInv, ReadinessAnswers
    PROVE  /\ HealthInv'
           /\ answer' # "unavailable" =>
                 /\ phase = "running"
                 /\ task.worker \notin {"setup", "dead"}
                 /\ Deps \subseteq seen
           /\ answer' = "ready" =>
                 /\ \A c \in Scheduled :
                       ~owed[c] /\ since[c] <= StaleAfter + request.late
                 /\ task.sla # "dead"
                 /\ "token" \in seen
<1>1. /\ request.active /\ answer' = Overall /\ request' = NoRequest /\ seen' = {}
      /\ \A p \in Probes : request.probes[p] # "pending"
      /\ UNCHANGED <<phase, runtimeVars>> /\ up' = up /\ faults' = faults
  BY DEF ReadinessAnswers
<1>2. HealthInv'
  <2>1. RequestSound' /\ request' \in Request /\ seen' \subseteq Probes
    BY <1>1, NoRequestType DEF RequestSound
  <2>2. answer' \in {"none", "ready", "degraded", "unavailable"}
    BY <1>1, OverallValues
  <2> QED
    BY <2>1, <2>2, <1>1, RuntimeKept DEF HealthInv, TypeOK
<1>3. TypeOK /\ OutcomesSound /\ TasksSound /\ RequestSound
  BY DEF HealthInv
<1>4. \A p \in Probes : ~Down(p) => p \in seen
  BY <1>1, <1>3 DEF TypeOK, Request, Down, RequestSound
<1>5. CoreReady =>
         /\ phase = "running"
         /\ task.worker \notin {"setup", "dead"}
         /\ Deps \subseteq seen
  BY <1>3, <1>4 DEF CoreReady, TasksSound, Probes
<1>6. ASSUME \A c \in Capabilities : Capability(c) = "available", CoreReady
      PROVE  /\ \A c \in Scheduled :
                   ~owed[c] /\ since[c] <= StaleAfter + request.late
             /\ task.sla # "dead"
             /\ "token" \in seen
  <2>1. ASSUME NEW c \in Scheduled
        PROVE  outcome[c].reason = "none" /\ outcome[c].ok /\ ~Stale(c)
    BY <1>6, Names DEF Capability
  <2>2. ASSUME NEW c \in Scheduled
        PROVE  ~owed[c] /\ since[c] <= StaleAfter + request.late
    <3>1. /\ ~owed[c] /\ outcome[c].tried /\ outcome[c].age = since[c]
      BY <2>1, <1>3 DEF OutcomesSound
    <3>2. since[c] \in Nat /\ StaleAfter \in Nat /\ request.late \in Nat
      BY <1>3, HealthAssumption DEF TypeOK, Request, Ages, MaxAge
    <3>3. ~(outcome[c].age - request.late > StaleAfter)
      BY <2>1, <3>1 DEF Stale
    <3> QED
      BY <3>1, <3>2, <3>3
  <2>3. task.sla # "dead"
    BY <2>1, <1>3, <1>5, <1>6, Names DEF TasksSound
  <2>4. ~Down("token")
    BY <1>6, Names DEF Capability
  <2> QED
    BY <2>2, <2>3, <2>4, <1>4 DEF Probes
<1> QED
  BY <1>1, <1>2, <1>5, <1>6, OverallValues

LEMMA LoseStep == ASSUME HealthInv, NEW p \in Probes, Lose(p) PROVE HealthInv'
<1>1. /\ up' = up \ {p} /\ Fault /\ UNCHANGED <<phase, runtimeVars>>
      /\ UNCHANGED <<request, answer, seen>>
  BY DEF Lose, requestVars
<1>2. RequestSound'
  BY <1>1 DEF HealthInv, RequestSound
<1>3. TypeOK /\ faults' \in 0..MaxFaults
  BY <1>1, FaultsBounded DEF HealthInv
<1> QED
  BY <1>1, <1>2, <1>3, RuntimeKept DEF TypeOK

LEMMA RegainStep == ASSUME HealthInv, NEW p \in Probes, Regain(p) PROVE HealthInv'
<1>1. /\ up' = up \cup {p} /\ UNCHANGED <<phase, runtimeVars>>
      /\ seen' = IF request.active THEN seen \cup {p} ELSE seen
      /\ UNCHANGED <<request, answer, faults>>
  BY DEF Regain, requestVars
<1>2. RequestSound'
  BY <1>1 DEF HealthInv, RequestSound
<1> QED
  BY <1>1, <1>2, RuntimeKept DEF HealthInv, TypeOK

\* Time passes for a success and for the history of it alike.
LEMMA TickStep == ASSUME HealthInv, Tick PROVE HealthInv' /\ (request'.active <=> request.active)
<1> DEFINE o(c) == IF c \in Scheduled /\ outcome[c].tried
                   THEN [outcome[c] EXCEPT !.age = Older(outcome[c].age)] ELSE outcome[c]
           late == IF request.active THEN request.late + 1 ELSE request.late
<1>1. /\ outcome' = [c \in Capabilities |-> o(c)]
      /\ since' = [c \in Scheduled |-> Older(since[c])]
      /\ request' = [request EXCEPT !.late = late]
      /\ UNCHANGED <<phase, task, status, manual, owed, up, answer, seen, faults>>
  BY DEF Tick
<1>2. TypeOK /\ OutcomesSound /\ TasksSound /\ RequestSound
  BY DEF HealthInv
<1>3. \A a \in Ages : Older(a) \in Ages
  BY HealthAssumption DEF Older, Ages, MaxAge
<1>4. ASSUME NEW c \in Capabilities
      PROVE  /\ o(c) \in Outcome /\ o(c).tried = outcome[c].tried
             /\ o(c).ok = outcome[c].ok /\ o(c).reason = outcome[c].reason
             /\ o(c).age = IF c \in Scheduled /\ outcome[c].tried
                           THEN Older(outcome[c].age) ELSE outcome[c].age
  <2>1. outcome[c] \in Outcome /\ Older(outcome[c].age) \in Ages
    BY <1>2, <1>3 DEF TypeOK, Outcome
  <2>2. CASE c \in Scheduled /\ outcome[c].tried
    BY <2>1, <2>2 DEF Outcome
  <2>3. CASE ~(c \in Scheduled /\ outcome[c].tried)
    BY <2>1, <2>3
  <2> QED
    BY <2>2, <2>3
<1>5. \A c \in Capabilities : outcome'[c] = o(c)
  BY <1>1
<1> HIDE DEF o
<1>6. /\ request' \in Request /\ request'.active = request.active
      /\ request'.probes = request.probes
  <2>1. request \in Request /\ late \in 0..MaxLate
    BY <1>2, HealthAssumption DEF Tick, TypeOK, Request
  <2> QED
    BY <2>1, <1>1 DEF Request
<1>7. TypeOK'
  <2>1. outcome' \in [Capabilities -> Outcome]
    BY <1>1, <1>4
  <2>2. since' \in [Scheduled -> Ages]
    BY <1>1, <1>2, <1>3 DEF TypeOK
  <2> QED
    BY <2>1, <2>2, <1>1, <1>2, <1>6 DEF TypeOK
<1>8. OutcomesSound'
  <2> SUFFICES ASSUME NEW c \in Scheduled
               PROVE  /\ owed[c] => outcome'[c].reason # "none"
                      /\ outcome'[c].ok => /\ outcome'[c].tried
                                           /\ outcome'[c].age = since'[c]
    BY <1>1 DEF OutcomesSound
  <2>1. /\ c \in Capabilities /\ outcome'[c] = o(c)
        /\ since'[c] = Older(since[c])
    BY <1>1, <1>5, Names
  <2>2. owed[c] => outcome'[c].reason # "none"
    BY <2>1, <1>2, <1>4 DEF OutcomesSound
  <2>3. ASSUME outcome'[c].ok
        PROVE  outcome'[c].tried /\ outcome'[c].age = since'[c]
    <3>1. outcome[c].ok
      BY <2>1, <2>3, <1>4, Zenon
    <3>2. outcome[c].tried /\ outcome[c].age = since[c]
      BY <3>1, <1>2 DEF OutcomesSound
    <3>3. outcome'[c].tried
      BY <2>1, <3>2, <1>4, Zenon
    <3> QED
      BY <2>1, <3>2, <3>3, <1>4
  <2> QED
    BY <2>2, <2>3
<1>9. TasksSound'
  <2>1. /\ outcome["gmail"].tried => outcome'["gmail"].tried
        /\ outcome["sla"].tried => outcome'["sla"].tried
        /\ outcome'["sla"].reason = outcome["sla"].reason
    BY <1>4, <1>5, Names, Zenon
  <2> QED
    BY <2>1, <1>1, <1>2 DEF TasksSound
<1>10. RequestSound'
  BY <1>1, <1>2, <1>6 DEF RequestSound
<1> QED
  BY <1>6, <1>7, <1>8, <1>9, <1>10 DEF HealthInv

-----------------------------------------------------------------------------
(* The theorems *)

\* Every step keeps the invariant, and answers are given by ReadinessAnswers alone.
LEMMA NextInv ==
    ASSUME HealthInv, [Next]_vars
    PROVE  HealthInv' /\ (Answered => ReadinessAnswers)
<1>1. ASSUME NEW by \in {"schedule", "request"}, Gmail(by) PROVE HealthInv' /\ request' = request
  <2>1. HealthInv'
    BY <1>1, PollStartsStep, PollSucceedsStep, PollFailsStep DEF Gmail
  <2> QED
    BY <2>1, <1>1 DEF Gmail, PollStarts, PollSucceeds, PollFails, Outside, requestVars
<1>2. CASE Sla
  <2>1. HealthInv'
    BY <1>2, ScanStartsStep, ScanSucceedsStep, SlaFailsSteps, DispatchReturnsStep DEF Sla
  <2>2. request' = request
    BY <1>2
       DEF Sla, ScanStarts, ScanSucceeds, ScanFails, DispatchRefused, DispatchReturns,
           DispatchRaises, Outside, requestVars
  <2> QED
    BY <2>1, <2>2 DEF Answered
<1>3. CASE Worker
  <2>1. HealthInv'
    BY <1>3, SetupStep, SummarySteps DEF Worker
  <2>2. request' = request
    BY <1>3
       DEF Worker, SetupSucceeds, SetupFails, SummaryMailed, SummarySkipped, SummaryRefused,
           SummaryRecorded, SummaryNotRecorded, Outside, requestVars
  <2> QED
    BY <2>1, <2>2 DEF Answered
<1>4. CASE Readiness
  <2>1. CASE ReadinessStarts
    BY <2>1, ReadinessStartsStep DEF ReadinessStarts, Answered
  <2>2. ASSUME NEW p \in Probes, ProbeReturns(p) PROVE HealthInv' /\ request'.active
    BY <2>2, ProbeReturnsStep
  <2>3. CASE ReadinessAnswers
    BY <2>3, ReadinessAnswersStep
  <2> QED
    BY <1>4, <2>1, <2>2, <2>3 DEF Readiness, Answered
<1>5. CASE Lifespan
  <2>1. task \in TaskStates
    BY DEF HealthInv, TypeOK
  <2>2. ASSUME NEW t \in {"gmail", "sla", "worker"}, TaskExits(t) \/ RecordTaskExit(t)
        PROVE  HealthInv' /\ request' = request
    <3>1. HealthInv'
      BY <2>2, TaskExitsStep, RecordTaskExitStep
    <3> QED
      BY <3>1, <2>2 DEF TaskExits, RecordTaskExit, Outside, requestVars
  <2>3. CASE Stop
    BY <2>3, StopStep DEF Stop, requestVars, Answered
  <2> QED
    BY <1>5, <2>1, <2>2, <2>3, TaskNames DEF Lifespan, Answered
<1>6. CASE World
  <2>1. CASE Tick
    BY <2>1, TickStep DEF Answered
  <2>2. ASSUME NEW p \in Probes, Lose(p) \/ Regain(p) PROVE HealthInv' /\ request' = request
    <3>1. HealthInv'
      BY <2>2, LoseStep, RegainStep
    <3> QED
      BY <3>1, <2>2 DEF Lose, Regain, requestVars
  <2> QED
    BY <1>6, <2>1, <2>2 DEF World, Answered
<1>7. CASE UNCHANGED vars
  <2>1. UNCHANGED <<phase, task, status, manual, outcome, since, owed, up, request, answer,
                    seen, faults>>
    BY <1>7 DEF vars, runtimeVars, requestVars
  <2> QED
    BY <2>1
       DEF HealthInv, TypeOK, OutcomesSound, TasksSound, RequestSound, Answered
<1> QED
  BY <1>1, <1>2, <1>3, <1>4, <1>5, <1>6, <1>7 DEF Next, Answered

\* The inductive invariant of the runtime holds for ever.
THEOREM HealthInvariant == Spec => []HealthInv
<1>1. HealthInv /\ [Next]_vars => HealthInv'
  BY NextInv
<1> QED
  BY <1>1, InitInv, PTL DEF Spec

\* Every variable keeps its type: in particular invoice_worker_status only ever has
\* one of its three values, and an outcome one of its reason codes.
THEOREM HealthTypeCorrect == Spec => []TypeOK
<1>1. HealthInv => TypeOK
  BY DEF HealthInv
<1> QED
  BY <1>1, HealthInvariant, PTL

\* A failed scheduled poll or scan is reported until a later one succeeds.
THEOREM ScheduledFailuresStay == Spec => []ScheduledFailureStays
<1>1. HealthInv => ScheduledFailureStays
  <2> SUFFICES ASSUME HealthInv, NEW c \in Scheduled, owed[c]
               PROVE  Capability(c) \in {"degraded", "unavailable"}
    BY DEF ScheduledFailureStays
  <2>1. outcome[c].reason # "none" /\ c \in {"gmail", "sla"}
    BY Names DEF HealthInv, OutcomesSound
  <2> QED
    BY <2>1 DEF Capability
<1> QED
  BY <1>1, HealthInvariant, PTL

\* A 200 answer of GET /health/ready is true when it is given: the process runs, the
\* worker is set up and not known to be dead, and each dependency was up during the
\* request.
THEOREM CoreIsReallyUp == Spec => CoreIsUp
<1>1. HealthInv /\ [Next]_vars =>
        [Answered /\ answer' # "unavailable" =>
            /\ phase = "running"
            /\ task.worker \notin {"setup", "dead"}
            /\ Deps \subseteq seen]_vars
  BY NextInv, ReadinessAnswersStep
<1> QED
  BY <1>1, HealthInvariant, PTL DEF Spec, CoreIsUp

\* A "ready" answer means that the last poll and the last scan to end succeeded, within
\* the stale window, and that the scanner is not known to be dead.
THEOREM ReadyIsReallyEarned == Spec => ReadyIsEarned
<1>1. HealthInv /\ [Next]_vars =>
        [Answered /\ answer' = "ready" =>
            /\ \A c \in Scheduled :
                  ~owed[c] /\ since[c] <= StaleAfter + request.late
            /\ task.sla # "dead"
            /\ "token" \in seen]_vars
  BY NextInv, ReadinessAnswersStep
<1> QED
  BY <1>1, HealthInvariant, PTL DEF Spec, ReadyIsEarned
=============================================================================
