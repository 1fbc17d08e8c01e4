----------------------------- MODULE Migrations -----------------------------
(***************************************************************************)
(* The migrations that carry business data: 202607190002 (processing,      *)
(* posting and review state of the runs, outcomes of the checks, status of *)
(* the shipments) and 202607190003 (normalized load numbers), upwards and  *)
(* downwards, with the program running at the head in between.  Alembic    *)
(* runs all revisions of one command in one transaction (env.py), so a     *)
(* command is one step: it goes through or it leaves everything as it was. *)
(*                                                                         *)
(* The database is one workflow run with its audit log, the shipment its   *)
(* document belongs to, that shipment's latest reconciliation result with  *)
(* one check, and the load numbers of the two tables that have them.       *)
(***************************************************************************)
EXTENDS Integers

CONSTANTS
    Unlisted,         \* a status that no statement of the migration names
    LegacyShipments,  \* statuses a shipment may have at first
    LoadTables        \* contents the load_number columns may have at first

Keys == {"", "a", "b"}

\* A load number: what trimming and upper-casing make of it, and whether it is
\* that already.
LoadNumber == [key : Keys, normal : BOOLEAN]

Tables == {"shipments", "rate_confirmations"}

Dispositions == {"approved", "rejected"}
Processing == {"pending", "running", "retrying", "awaiting_review", "complete", "failed"}
Posting == {"not_ready", "ready_for_posting", "blocked"}
ShipmentStatus == {"pending", "partial", "reconciled", "exception"}
Statuses == Processing \cup Dispositions \cup ShipmentStatus \cup {Unlisted}

ASSUME MigrationAssumption ==
    /\ LoadTables \subseteq [Tables -> SUBSET LoadNumber]
    /\ LegacyShipments \subseteq Statuses
    /\ Unlisted \notin Processing \cup Dispositions \cup ShipmentStatus

Verdicts == {"true", "false", "null"}                 \* "passed", before 202607190002
Outcomes == {"passed", "failed", "not_evaluated"}     \* "outcome", since then

Run == [status : Statuses, processing : Processing \cup {"none"},
        posting : Posting \cup {"none"}, paused : BOOLEAN]

\* The latest result: its one check (the summary of missing documents or another
\* one), the wording of its details, and whether the lists beside it are empty.
Result == [exists : BOOLEAN, name : {"missing_docs", "comparison"},
           value : Verdicts \cup Outcomes, details : {"skipped", "grace", "other"},
           missing : BOOLEAN, reasons : BOOLEAN]

NoResult == [exists |-> FALSE, name |-> "comparison", value |-> "true", details |-> "other",
             missing |-> FALSE, reasons |-> FALSE]

VARIABLES
    rev,       \* the last digit of the database's revision; 3 is also that of the
               \* head, which only adds tables
    run,       \* the row of workflow_runs
    audit,     \* which decisions its audit log shows
    decision,  \* its row of review_decisions, or "none"
    held,      \* the decision its graph's checkpoint holds, or "none"
    shipment,  \* reconciliation_status of the shipment
    linked,    \* the run's document belongs to the shipment
    result,
    loads,     \* loads[t]: the load numbers in table t
    refused,   \* why the last command did not go through, or "no"
    ruling     \* history: what the reviewer decided, as far as records told

rows == <<run, audit, decision, shipment, linked, result, loads>>
vars == <<rev, rows, held, refused, ruling>>

TypeOK ==
    /\ rev \in 1..3
    /\ run \in Run
    /\ audit \subseteq Dispositions
    /\ decision \in Dispositions \cup {"none"}
    /\ held \in Dispositions \cup {"none"}
    /\ shipment \in Statuses
    /\ linked \in BOOLEAN
    /\ result \in Result
    /\ loads \in [Tables -> SUBSET LoadNumber]
    /\ refused \in {"no", "conflict", "load_numbers", "constraint"}
    /\ ruling \in Dispositions \cup {"none"}

\* The status of the run, or else the audit log where it is unanimous.
Ruling(r, log) ==
    IF r.status \in Dispositions THEN r.status
    ELSE IF log = {"approved"} THEN "approved"
    ELSE IF log = {"rejected"} THEN "rejected"
    ELSE "none"

\* Rows of the program before 202607190002.
Init ==
    /\ rev = 1
    /\ run \in [status : Statuses, processing : {"none"}, posting : {"none"}, paused : BOOLEAN]
    /\ audit \in SUBSET Dispositions
    /\ decision = "none"
    /\ shipment \in LegacyShipments
    /\ linked \in BOOLEAN
    /\ result \in {NoResult} \cup [exists : {TRUE}, name : {"missing_docs", "comparison"},
                                   value : Verdicts, details : {"skipped", "grace", "other"},
                                   missing : BOOLEAN, reasons : BOOLEAN]
    /\ loads \in LoadTables
    /\ refused = "no"
    /\ ruling = Ruling(run, audit)
    /\ held \in IF ruling = "none" THEN Dispositions \cup {"none"} ELSE {ruling, "none"}

-----------------------------------------------------------------------------
(* 202607190002 upwards *)

\* Mutant: a log that contradicts itself is not noticed.
ConflictMutant(r, log) == FALSE

Conflict(r, log) == log = Dispositions /\ r.status \notin Dispositions

Disposition(r, log) ==
    IF r.status \in Dispositions THEN r.status
    ELSE IF "approved" \in log THEN "approved"
    ELSE IF "rejected" \in log THEN "rejected"
    ELSE "none"

ProcessingOf(r, d) ==
    IF d # "none" THEN "complete"
    ELSE IF r.status \in {"complete", "partial", "reconciled"} THEN "complete"
    ELSE IF r.status = "awaiting_review" THEN "awaiting_review"
    ELSE IF r.status = "exception" /\ r.paused THEN "awaiting_review"
    ELSE IF r.status \in {"pending", "running", "retrying"} THEN r.status
    ELSE "failed"

\* Mutant: the run of a reconciled shipment is ready whatever became of the run.
PostingOfMutant(r, d, s) ==
    IF d = "approved" THEN "ready_for_posting"
    ELSE IF d = "rejected" THEN "blocked"
    ELSE IF r.status = "reconciled" \/ (linked /\ s = "reconciled") THEN "ready_for_posting"
    ELSE "not_ready"

PostingOf(r, d, s) ==
    IF d = "approved" THEN "ready_for_posting"
    ELSE IF d = "rejected" THEN "blocked"
    ELSE IF r.status = "reconciled" \/ (linked /\ s = "reconciled" /\ r.status = "complete")
           THEN "ready_for_posting"
    ELSE "not_ready"

\* legacy_status
Projection(p, d) == IF d = "none" THEN p ELSE d

RunUp(r, d, s) ==
    [r EXCEPT !.status = Projection(ProcessingOf(r, d), d),
              !.processing = ProcessingOf(r, d),
              !.posting = PostingOf(r, d, s)]

OutcomeOf(res) ==
    IF res.value = "false" THEN "failed"
    ELSE IF res.value = "null" THEN "not_evaluated"
    ELSE IF res.name = "missing_docs" /\ res.missing THEN "not_evaluated"
    ELSE IF res.details \in {"skipped", "grace"} THEN "not_evaluated"
    ELSE "passed"

\* A status that is still one stays; the others follow the latest result, where
\* there is one.
ShipmentUp(s, res) ==
    IF s \in ShipmentStatus THEN s
    ELSE IF res.exists /\ res.reasons THEN "exception"
    ELSE IF res.exists /\ (res.missing \/ OutcomeOf(res) = "not_evaluated") THEN "partial"
    ELSE IF res.exists THEN "reconciled"
    ELSE IF s \in {"awaiting_review", "approved", "rejected", "failed"} THEN "exception"
    ELSE "pending"

-----------------------------------------------------------------------------
(* 202607190003 upwards *)

Normalize(table) == {[key |-> n.key, normal |-> TRUE] : n \in table}

\* Mutant: numbers that become equal are not looked for.
LoadsInvalidMutant(table) == \E n \in table : n.key = ""

\* _reject_invalid_load_numbers
LoadsInvalid(table) ==
    \/ \E n \in table : n.key = ""
    \/ \E n, o \in table : n # o /\ n.key = o.key

\* The two tables are checked and rewritten one after the other; an error in the
\* second takes back the first.
LoadsRejected == \E t \in Tables : LoadsInvalid(loads[t])

-----------------------------------------------------------------------------
(* Commands *)

\* The CHECK constraints 202607190002 adds at its end.
StateConstraints(r, s) ==
    r.processing \in Processing /\ r.posting \in Posting /\ s \in ShipmentStatus

\* The CHECK constraints 202607190003 adds, and the unique index the rewritten
\* numbers meet: equal ones would have to become one row.
LoadConstraints ==
    \A t \in Tables :
        /\ \A n \in Normalize(loads[t]) : n.key # ""
        /\ \A n, o \in loads[t] : n.key = o.key => n = o

Refuse(why) ==
    /\ refused' = why
    /\ UNCHANGED <<rev, rows, held, ruling>>

\* alembic upgrade to a revision.
Upgrade(to) ==
    LET d == Disposition(run, audit)
        runUp == IF rev = 1 THEN RunUp(run, d, shipment) ELSE run
        shipUp == IF rev = 1 THEN ShipmentUp(shipment, result) ELSE shipment
    IN
    /\ rev < to
    /\ IF rev = 1 /\ Conflict(run, audit) THEN Refuse("conflict")
       ELSE IF to = 3 /\ LoadsRejected THEN Refuse("load_numbers")
       ELSE IF ~StateConstraints(runUp, shipUp) \/ (to = 3 /\ ~LoadConstraints) THEN
              Refuse("constraint")
       ELSE
              /\ rev' = to
              /\ run' = runUp
              /\ decision' = IF rev = 1 THEN d ELSE decision
              /\ shipment' = shipUp
              /\ result' = IF rev = 1 THEN [result EXCEPT !.value = OutcomeOf(result)] ELSE result
              /\ loads' = IF to = 3 THEN [t \in Tables |-> Normalize(loads[t])] ELSE loads
              /\ refused' = "no"
              /\ UNCHANGED <<audit, held, linked, ruling>>

\* What 202607190002 leaves of a run and of a check downwards.
RunDown(r, d) ==
    [r EXCEPT !.status = Projection(r.processing, d),
              !.processing = "none", !.posting = "none"]

\* Mutant: what did not pass counts as failed.
VerdictOfMutant(outcome) == IF outcome = "passed" THEN "true" ELSE "false"

VerdictOf(outcome) == IF outcome = "failed" THEN "false" ELSE "true"

\* alembic downgrade to a revision.
Downgrade(to) ==
    /\ to < rev
    /\ rev' = to
    /\ run' = IF to = 1 THEN RunDown(run, decision) ELSE run
    /\ decision' = IF to = 1 THEN "none" ELSE decision
    /\ result' = IF to = 1 THEN [result EXCEPT !.value = VerdictOf(result.value)] ELSE result
    /\ refused' = "no"
    /\ UNCHANGED <<audit, held, shipment, linked, loads, ruling>>

-----------------------------------------------------------------------------
(* The program at the head *)

Save(status, processing, posting, paused) ==
    /\ rev = 3
    /\ run' = [status |-> status, processing |-> processing, posting |-> posting,
               paused |-> paused]
    /\ refused' = "no"
    /\ UNCHANGED <<rev, audit, decision, held, shipment, linked, result, loads, ruling>>

PostingFor(d) == IF d = "approved" THEN "ready_for_posting" ELSE "blocked"

\* What an invocation of the graph returned: paused for review, complete, or complete
\* with the decision its checkpoint holds, whether or not a request recorded it.
Persist ==
    /\ run.processing \in {"pending", "running", "retrying"}
    /\ \/ held = "none" /\ Save("awaiting_review", "awaiting_review", "not_ready", TRUE)
       \/ /\ held = "none"
          /\ \E post \in {"not_ready", "ready_for_posting"} :
                Save("complete", "complete", post, run.paused)
       \/ held # "none" /\ Save(held, "complete", PostingFor(held), run.paused)

\* A failed invocation, or _mark_job_failed: neither looks at the status it writes
\* over, which another worker or a reviewer may have committed.  A session that
\* loaded "not_ready" leaves the posting column as it is.
PersistFailure(p) ==
    \E post \in {"not_ready", run.posting} : Save(p, p, post, TRUE)

\* An operator's replay reopens a failed run.
Reopen ==
    /\ run.processing = "failed"
    /\ Save("retrying", "retrying", "not_ready", run.paused)

MayDecide(d) ==
    /\ rev = 3
    /\ run.processing = "awaiting_review"
    /\ decision = "none"
    /\ held \in {"none", d}

\* decide_review dies after the graph took the decision and before the commit.
DecideDies(d) ==
    /\ MayDecide(d)
    /\ held' = d
    /\ refused' = "no"
    /\ UNCHANGED <<rev, rows, ruling>>

\* decide_review, with its one transaction.
Decide(d) ==
    /\ MayDecide(d)
    /\ held' = d
    /\ decision' = d
    /\ run' = [run EXCEPT !.status = d, !.processing = "complete", !.posting = PostingFor(d)]
    /\ audit' = audit \cup {d}
    /\ ruling' = d
    /\ refused' = "no"
    /\ UNCHANGED <<rev, shipment, linked, result, loads>>

\* reconcile_shipment adds a result and sets the status.  What it could not
\* evaluate it words as skipped or in other ways, never as grace.
ReconcileShipment(value, details, missing) ==
    /\ rev = 3
    /\ result' = [exists |-> TRUE, name |-> "comparison", value |-> value, details |-> details,
                  missing |-> missing, reasons |-> value = "failed"]
    /\ shipment' = IF value = "failed" THEN "exception"
                   ELSE IF missing \/ value = "not_evaluated" THEN "partial"
                   ELSE "reconciled"
    /\ refused' = "no"
    /\ UNCHANGED <<rev, run, audit, decision, held, linked, loads, ruling>>

Next ==
    \/ \E to \in 2..3 : Upgrade(to)
    \/ \E to \in 1..2 : Downgrade(to)
    \/ Persist \/ Reopen
    \/ \E p \in {"retrying", "failed"} : PersistFailure(p)
    \/ \E d \in Dispositions : Decide(d) \/ DecideDies(d)
    \/ \E value \in Outcomes, details \in {"skipped", "other"}, missing \in BOOLEAN :
          ReconcileShipment(value, details, missing)

Spec == Init /\ [][Next]_vars

-----------------------------------------------------------------------------
(* Properties *)

\* What a reviewer decided is never lost, altered or made up, by any sequence of
\* upgrades, downgrades and reviews: wherever the table of decisions exists it
\* says what the run's status or its unanimous log said, or what was decided since.
RulingsSurvive == rev >= 2 => decision = ruling

\* A run as decide_review and the graph write it when nothing fails: its decision
\* has completed it and settled its posting, only a completed run is ready or blocked,
\* and the stored status is the projection the API shows.
Coherent(r, d) ==
    /\ d # "none" => r.processing = "complete" /\ r.posting = PostingFor(d)
    /\ r.posting # "not_ready" => r.processing = "complete"
    /\ r.posting = "blocked" => d = "rejected"
    /\ r.status = Projection(r.processing, d)

\* Whatever the older program left, and whatever a failed attempt or a review that
\* died made of a run before a downgrade, 202607190002 leaves a coherent one.
UpgradesAreCoherent == [][rev = 1 /\ rev' # 1 => Coherent(run', decision')]_vars

\* An upgrade is only ever refused for what it looks for itself, with its message:
\* what its statements leave always meets the constraints it adds at its end.
RefusalsAreExplained == refused # "constraint"

\* A check that failed still counts as failed after any upgrade or downgrade, and
\* no other check turns into a failed one.
FailuresStayFailures ==
    [][rev' # rev => (result.value \in {"failed", "false"} <=>
                      result'.value \in {"failed", "false"})]_vars
=============================================================================
