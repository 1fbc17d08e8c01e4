-------------------------- MODULE MigrationsProofs --------------------------
(***************************************************************************)
(* Proofs about Migrations, for every legacy row and every content of the  *)
(* load_number columns.  RulingsSurvive is not inductive: a downgrade      *)
(* drops the table of decisions, so the invariant must also say what the   *)
(* status and the audit log tell while there is no table (Derivable), and  *)
(* that an undecided run has an empty log, so that nothing is made up when *)
(* the table is rebuilt (LogIsBacked).                                     *)
(***************************************************************************)
EXTENDS Migrations, TLAPS

\* Before the table of decisions exists it can be derived, unless the records
\* contradict each other, which the upgrade refuses.
Derivable == rev = 1 /\ ~Conflict(run, audit) => Disposition(run, audit) = ruling

\* With the table, only a decided run has decisions in its log.
LogIsBacked == rev >= 2 /\ decision = "none" => audit = {}

\* The columns of the revision are filled.
ColumnsFilled ==
    /\ rev >= 2 => /\ run.processing \in Processing
                   /\ run.posting \in Posting
                   /\ shipment \in ShipmentStatus
                   /\ result.value \in Outcomes \/ ~result.exists
    /\ rev = 1 => decision = "none"

IInv ==
    /\ TypeOK
    /\ Derivable
    /\ LogIsBacked
    /\ ColumnsFilled
    /\ RulingsSurvive
    /\ RefusalsAreExplained

-----------------------------------------------------------------------------
(* Lemmas about the statements of the upgrade *)

LEMMA DispositionType ==
    ASSUME NEW r \in Run, NEW log \in SUBSET Dispositions
    PROVE  Disposition(r, log) \in Dispositions \cup {"none"}
BY DEF Disposition, Dispositions

LEMMA RunUpType ==
    ASSUME NEW r \in Run, NEW d \in Dispositions \cup {"none"}, NEW s
    PROVE  /\ RunUp(r, d, s) \in Run
           /\ RunUp(r, d, s).processing \in Processing
           /\ RunUp(r, d, s).posting \in Posting
<1>1. ProcessingOf(r, d) \in Processing
  BY DEF ProcessingOf, Processing
<1>2. PostingOf(r, d, s) \in Posting
  BY DEF PostingOf, Posting
<1>3. Projection(ProcessingOf(r, d), d) \in Statuses
  BY <1>1 DEF Projection, Statuses
<1> QED
  BY <1>1, <1>2, <1>3 DEF RunUp, Run

LEMMA ShipmentUpType ==
    ASSUME NEW s, NEW res
    PROVE  ShipmentUp(s, res) \in ShipmentStatus
BY DEF ShipmentUp, ShipmentStatus

LEMMA OutcomeOfType ==
    ASSUME NEW res PROVE OutcomeOf(res) \in Outcomes
BY DEF OutcomeOf, Outcomes

\* What the upgrade makes of a run is coherent with the decision it inserts.
LEMMA RunUpCoherent ==
    ASSUME NEW r \in Run, NEW d \in Dispositions \cup {"none"}, NEW s
    PROVE  Coherent(RunUp(r, d, s), d)
<1>1. /\ RunUp(r, d, s).status = Projection(ProcessingOf(r, d), d)
      /\ RunUp(r, d, s).processing = ProcessingOf(r, d)
      /\ RunUp(r, d, s).posting = PostingOf(r, d, s)
  BY DEF RunUp, Run
<1>2. d # "none" => ProcessingOf(r, d) = "complete"
  BY DEF ProcessingOf
<1>3. d # "none" => PostingOf(r, d, s) = PostingFor(d)
  BY DEF PostingOf, PostingFor, Dispositions
<1>4. d = "none" /\ PostingOf(r, d, s) # "not_ready" => r.status \in {"reconciled", "complete"}
  BY DEF PostingOf
<1>5. r.status \in {"reconciled", "complete"} => ProcessingOf(r, d) = "complete"
  BY DEF ProcessingOf
<1>6. PostingOf(r, d, s) = "blocked" => d = "rejected"
  BY DEF PostingOf, Dispositions
<1> QED
  BY <1>1, <1>2, <1>3, <1>4, <1>5, <1>6 DEF Coherent

\* Numbers that pass the script's own checks meet its constraints.
LEMMA ChecksCoverConstraints ==
    ASSUME loads \in [Tables -> SUBSET LoadNumber], ~LoadsRejected
    PROVE  LoadConstraints
<1> SUFFICES ASSUME NEW t \in Tables
             PROVE  /\ \A n \in Normalize(loads[t]) : n.key # ""
                    /\ \A n, o \in loads[t] : n.key = o.key => n = o
  BY DEF LoadConstraints
<1>1. ~LoadsInvalid(loads[t])
  BY DEF LoadsRejected
<1>2. ASSUME NEW n \in Normalize(loads[t])
      PROVE  n.key # ""
  <2>1. PICK m \in loads[t] : n = [key |-> m.key, normal |-> TRUE]
    BY <1>2 DEF Normalize
  <2>2. n.key = m.key
    BY <2>1
  <2> QED BY <1>1, <2>2 DEF LoadsInvalid
<1>3. \A n, o \in loads[t] : n.key = o.key => n = o
  BY <1>1 DEF LoadsInvalid
<1> QED BY <1>2, <1>3

LEMMA NormalizeType ==
    ASSUME NEW table \in SUBSET LoadNumber
    PROVE  Normalize(table) \in SUBSET LoadNumber
<1>1. ASSUME NEW n \in table
      PROVE  [key |-> n.key, normal |-> TRUE] \in LoadNumber
  <2>1. n \in LoadNumber
    OBVIOUS
  <2> QED BY <2>1 DEF LoadNumber
<1> QED BY <1>1 DEF Normalize

-----------------------------------------------------------------------------
(* The invariant *)

LEMMA InitIInv == Init => IInv
<1> SUFFICES ASSUME Init PROVE IInv
  OBVIOUS
<1> USE DEF Init
<1>1. run \in Run
  BY DEF Run
<1>2. result \in Result
  <2>1. NoResult \in Result
    BY DEF Result, NoResult, Verdicts
  <2> QED
    BY <2>1 DEF Result
<1>3. ruling \in Dispositions \cup {"none"} /\ held \in Dispositions \cup {"none"}
  BY DEF Ruling, Dispositions
<1>4. TypeOK
  BY <1>1, <1>2, <1>3, MigrationAssumption DEF TypeOK
<1>5. Derivable
  <2>1. CASE run.status \in Dispositions
    BY <2>1 DEF Derivable, Disposition, Ruling
  <2>2. CASE run.status \notin Dispositions
    <3>1. CASE "approved" \in audit
      <4>1. audit = Dispositions \/ audit = {"approved"}
        BY <3>1 DEF Dispositions
      <4>2. CASE audit = Dispositions
        BY <2>2, <4>2 DEF Derivable, Conflict
      <4>3. CASE audit = {"approved"}
        BY <2>2, <4>3 DEF Derivable, Disposition, Ruling
      <4> QED BY <4>1, <4>2, <4>3
    <3>2. CASE "approved" \notin audit /\ "rejected" \in audit
      <4>1. audit = {"rejected"}
        BY <3>2 DEF Dispositions
      <4> QED BY <2>2, <4>1 DEF Derivable, Disposition, Ruling
    <3>3. CASE audit = {}
      BY <2>2, <3>3 DEF Derivable, Disposition, Ruling
    <3> QED BY <3>1, <3>2, <3>3 DEF Dispositions
  <2> QED BY <2>1, <2>2
<1> QED
  BY <1>4, <1>5 DEF IInv, LogIsBacked, ColumnsFilled, RulingsSurvive, RefusalsAreExplained

LEMMA UpgradeIInv ==
    ASSUME IInv, NEW to \in 2..3, Upgrade(to)
    PROVE  IInv'
<1> DEFINE d == Disposition(run, audit)
           runUp == IF rev = 1 THEN RunUp(run, d, shipment) ELSE run
           shipUp == IF rev = 1 THEN ShipmentUp(shipment, result) ELSE shipment
<1> USE DEF IInv
<1>0. TypeOK
  OBVIOUS
<1>1. d \in Dispositions \cup {"none"}
  BY DispositionType DEF TypeOK
<1>2. /\ runUp \in Run
      /\ runUp.processing \in Processing
      /\ runUp.posting \in Posting
  BY <1>1, RunUpType DEF TypeOK, ColumnsFilled
<1>3. shipUp \in ShipmentStatus
  BY ShipmentUpType DEF TypeOK, ColumnsFilled
<1>4. StateConstraints(runUp, shipUp)
  BY <1>2, <1>3 DEF StateConstraints
<1>5. CASE Refuse("conflict") \/ Refuse("load_numbers")
  BY <1>5 DEF Refuse, rows, TypeOK, Derivable, LogIsBacked, ColumnsFilled, RulingsSurvive,
              RefusalsAreExplained
<1>6. CASE /\ ~(rev = 1 /\ Conflict(run, audit))
           /\ rev' = to
           /\ run' = runUp
           /\ decision' = IF rev = 1 THEN d ELSE decision
           /\ shipment' = shipUp
           /\ result' = IF rev = 1 THEN [result EXCEPT !.value = OutcomeOf(result)] ELSE result
           /\ loads' = IF to = 3 THEN [t \in Tables |-> Normalize(loads[t])] ELSE loads
           /\ refused' = "no"
           /\ UNCHANGED <<audit, held, linked, ruling>>
  <2>1. result' \in Result /\ (result'.value \in Outcomes \/ ~result'.exists)
    BY <1>6, OutcomeOfType DEF TypeOK, Result, ColumnsFilled
  <2>2. loads' \in [Tables -> SUBSET LoadNumber]
    BY <1>6, NormalizeType DEF TypeOK
  <2>3. TypeOK'
    BY <1>1, <1>2, <1>3, <1>6, <2>1, <2>2 DEF TypeOK, Statuses
  <2>4. ColumnsFilled' /\ Derivable' /\ RefusalsAreExplained'
    BY <1>2, <1>3, <1>6, <2>1 DEF ColumnsFilled, Derivable, RefusalsAreExplained
  <2>5. RulingsSurvive'
    BY <1>6 DEF TypeOK, RulingsSurvive, Derivable
  <2>6. LogIsBacked'
    BY <1>6 DEF TypeOK, LogIsBacked, Disposition, Dispositions
  <2> QED BY <2>3, <2>4, <2>5, <2>6
<1> QED
  BY <1>0, <1>4, <1>5, <1>6, ChecksCoverConstraints DEF Upgrade, TypeOK

LEMMA DowngradeIInv ==
    ASSUME IInv, NEW to \in 1..2, Downgrade(to)
    PROVE  IInv'
<1> USE DEF IInv, Downgrade
<1>1. CASE to = 2
  BY <1>1 DEF TypeOK, Derivable, LogIsBacked, ColumnsFilled, RulingsSurvive,
              RefusalsAreExplained
<1>2. CASE to = 1
  <2>1. run.processing \in Processing /\ rev >= 2
    BY <1>2 DEF TypeOK, ColumnsFilled
  <2>2. run' \in Run /\ run'.status = Projection(run.processing, decision)
    BY <1>2, <2>1 DEF TypeOK, RunDown, Run, Projection, Statuses
  <2>3. result' \in Result
    BY <1>2 DEF TypeOK, Result, VerdictOf, Verdicts
  <2>4. TypeOK'
    BY <1>2, <2>2, <2>3 DEF TypeOK
  <2>5. Derivable'
    <3>1. CASE decision # "none"
      <4>1. run'.status = decision /\ decision \in Dispositions /\ decision = ruling
        BY <2>1, <2>2, <3>1 DEF Projection, TypeOK, RulingsSurvive
      <4> QED
        BY <4>1 DEF Derivable, Disposition
    <3>2. CASE decision = "none"
      <4>1. run'.status \notin Dispositions /\ audit' = {} /\ ruling' = "none"
        BY <2>1, <2>2, <3>2 DEF Projection, Processing, Dispositions, LogIsBacked, RulingsSurvive
      <4> QED
        BY <4>1 DEF Derivable, Disposition
    <3> QED BY <3>1, <3>2
  <2> QED
    BY <1>2, <2>4, <2>5 DEF LogIsBacked, ColumnsFilled, RulingsSurvive, RefusalsAreExplained
<1> QED BY <1>1, <1>2

\* Whatever a step of the worker saves, the decision and its log stay.
LEMMA SaveIInv ==
    ASSUME IInv, NEW status \in Processing \cup Dispositions, NEW processing \in Processing,
           NEW posting \in Posting, NEW paused \in BOOLEAN,
           Save(status, processing, posting, paused)
    PROVE  IInv'
<1> USE DEF IInv
<1>1. /\ run' \in Run
      /\ run'.processing \in Processing
      /\ run'.posting \in Posting
  BY DEF Save, Run, Statuses
<1> QED
  BY <1>1 DEF Save, TypeOK, Derivable, LogIsBacked, ColumnsFilled, RulingsSurvive,
              RefusalsAreExplained

LEMMA WorkerIInv ==
    ASSUME IInv, Persist \/ Reopen \/ \E p \in {"retrying", "failed"} : PersistFailure(p)
    PROVE  IInv'
<1>0. run \in Run /\ run.paused \in BOOLEAN /\ held \in Dispositions \cup {"none"}
  BY DEF IInv, TypeOK, Run
<1>1. CASE Persist
  <2>1. PostingFor(held) \in Posting
    BY DEF PostingFor, Posting
  <2> QED
    BY <1>0, <1>1, <2>1, SaveIInv DEF Persist, Processing, Posting
<1>2. CASE Reopen
  BY <1>0, <1>2, SaveIInv DEF Reopen, Processing, Posting
<1>3. ASSUME NEW p \in {"retrying", "failed"}, PersistFailure(p)
      PROVE  IInv'
  <2>1. PICK post \in {"not_ready", run.posting} : Save(p, p, post, TRUE)
    BY <1>3 DEF PersistFailure
  <2>2. run.posting \in Posting
    BY <2>1 DEF Save, IInv, ColumnsFilled
  <2> QED
    BY <2>1, <2>2, SaveIInv DEF Processing, Posting
<1> QED
  BY <1>1, <1>2, <1>3

LEMMA ReviewIInv ==
    ASSUME IInv, NEW d \in Dispositions, Decide(d) \/ DecideDies(d)
    PROVE  IInv'
<1> USE DEF IInv
<1>0. d # "none"
  BY DEF Dispositions
<1>1. CASE DecideDies(d)
  BY <1>1 DEF DecideDies, rows, TypeOK, Derivable, LogIsBacked, ColumnsFilled, RulingsSurvive,
              RefusalsAreExplained
<1>2. CASE Decide(d)
  <2>1. /\ run' \in Run
        /\ run'.processing \in Processing
        /\ run'.posting \in Posting
    BY <1>2 DEF Decide, PostingFor, TypeOK, Run, Statuses, Processing, Posting
  <2>2. /\ rev = 3 /\ decision' = d /\ held' = d /\ audit' = audit \cup {d} /\ ruling' = d
        /\ refused' = "no" /\ UNCHANGED <<rev, shipment, linked, result, loads>>
    BY <1>2 DEF Decide, MayDecide
  <2>3. TypeOK'
    BY <2>1, <2>2 DEF TypeOK
  <2>4. ColumnsFilled'
    BY <2>1, <2>2 DEF ColumnsFilled
  <2> QED
    BY <1>0, <2>2, <2>3, <2>4 DEF Derivable, LogIsBacked, RulingsSurvive, RefusalsAreExplained
<1> QED
  BY <1>1, <1>2

LEMMA ReconcileIInv ==
    ASSUME IInv, NEW value \in Outcomes, NEW details \in {"skipped", "other"},
           NEW missing \in BOOLEAN, ReconcileShipment(value, details, missing)
    PROVE  IInv'
<1> USE DEF IInv
<1>1. result' \in Result /\ result'.value \in Outcomes
  BY DEF ReconcileShipment, Result
<1>2. shipment' \in ShipmentStatus
  BY DEF ReconcileShipment, ShipmentStatus
<1> QED
  BY <1>1, <1>2 DEF ReconcileShipment, TypeOK, Derivable, LogIsBacked, ColumnsFilled,
       RulingsSurvive, RefusalsAreExplained, Statuses

LEMMA StepIInv == IInv /\ [Next]_vars => IInv'
<1> SUFFICES ASSUME IInv, [Next]_vars PROVE IInv'
  OBVIOUS
<1>1. CASE \E to \in 2..3 : Upgrade(to)
  BY <1>1, UpgradeIInv
<1>2. CASE \E to \in 1..2 : Downgrade(to)
  BY <1>2, DowngradeIInv
<1>3. CASE Persist \/ Reopen \/ \E p \in {"retrying", "failed"} : PersistFailure(p)
  BY <1>3, WorkerIInv
<1>4. CASE \E d \in Dispositions : Decide(d) \/ DecideDies(d)
  BY <1>4, ReviewIInv
<1>5. CASE \E value \in Outcomes, details \in {"skipped", "other"}, missing \in BOOLEAN :
              ReconcileShipment(value, details, missing)
  BY <1>5, ReconcileIInv
<1>6. CASE UNCHANGED vars
  BY <1>6 DEF vars, rows, IInv, TypeOK, Derivable, LogIsBacked, ColumnsFilled, RulingsSurvive,
              RefusalsAreExplained
<1> QED
  BY <1>1, <1>2, <1>3, <1>4, <1>5, <1>6 DEF Next

LEMMA Invariance == Spec => []IInv
BY InitIInv, StepIInv, PTL DEF Spec

-----------------------------------------------------------------------------
(* Theorems *)

\* No sequence of upgrades, downgrades and reviews loses, alters or makes up a
\* reviewer's decision.
THEOREM DecisionsAreKept == Spec => []RulingsSurvive
<1>1. IInv => RulingsSurvive
  BY DEF IInv
<1> QED
  BY <1>1, Invariance, PTL

\* Whatever rows the older program left, and whatever failed attempts, replays and
\* reviews that died made of a run before a downgrade, 202607190002 leaves a run whose
\* decision, processing, posting and status agree.
THEOREM MigratedRunsAreCoherent == Spec => UpgradesAreCoherent
<1>1. IInv /\ [Next]_vars
        => [rev = 1 /\ rev' # 1 => Coherent(run', decision')]_vars
  <2> SUFFICES ASSUME IInv, [Next]_vars, rev = 1, rev' # 1
               PROVE  Coherent(run', decision')
    OBVIOUS
  <2>1. PICK to \in 2..3 : Upgrade(to)
    BY DEF Next, Downgrade, Persist, Reopen, PersistFailure, Save, Decide, DecideDies,
           MayDecide, ReconcileShipment, vars
  <2>2. /\ run' = RunUp(run, Disposition(run, audit), shipment)
        /\ decision' = Disposition(run, audit)
    BY <2>1 DEF Upgrade, Refuse
  <2> QED
    BY <2>2, DispositionType, RunUpCoherent DEF IInv, TypeOK
<1> QED
  BY <1>1, Invariance, PTL DEF Spec, UpgradesAreCoherent

\* The statements of an upgrade never leave a row that its own constraints or the
\* unique index on load numbers refuse.
THEOREM ConstraintsAlwaysHold == Spec => []RefusalsAreExplained
<1>1. IInv => RefusalsAreExplained
  BY DEF IInv
<1> QED
  BY <1>1, Invariance, PTL

-----------------------------------------------------------------------------
(* Results of checks *)

\* The latest result speaks the language of its revision: "passed" before
\* 202607190002, "outcome" since.
ValueFits == result.value \in IF rev = 1 THEN Verdicts ELSE Outcomes

\* What the statements of 202607190002 make of one check, upwards and downwards.
LEMMA ValueTranslated ==
    /\ \A res \in Result : /\ OutcomeOf(res) \in Outcomes
                           /\ OutcomeOf(res) = "failed" <=> res.value = "false"
    /\ \A v : /\ VerdictOf(v) \in Verdicts
              /\ VerdictOf(v) = "false" <=> v = "failed"
  BY DEF OutcomeOf, VerdictOf, Outcomes, Verdicts

\* What a step does to the latest result.
LEMMA ResultSteps ==
    ASSUME TypeOK, [Next]_vars
    PROVE  \/ UNCHANGED result /\ (rev = 1 <=> rev' = 1)
           \/ rev = 1 /\ rev' # 1 /\ result'.value = OutcomeOf(result)
           \/ rev # 1 /\ rev' = 1 /\ result'.value = VerdictOf(result.value)
           \/ rev = 3 /\ rev' = 3 /\ result'.value \in Outcomes
<1>0. result \in Result /\ rev \in 1..3
  BY DEF TypeOK
<1>1. ASSUME NEW to \in 2..3, Upgrade(to)
      PROVE  \/ UNCHANGED result /\ (rev = 1 <=> rev' = 1)
             \/ rev = 1 /\ rev' # 1 /\ result'.value = OutcomeOf(result)
  <2>1. \/ UNCHANGED <<rev, result>>
        \/ /\ rev' = to
           /\ result' = IF rev = 1 THEN [result EXCEPT !.value = OutcomeOf(result)] ELSE result
    BY <1>1, Zenon DEF Upgrade, Refuse, rows
  <2>2. ASSUME NEW o PROVE [result EXCEPT !.value = o].value = o
    BY <1>0 DEF Result
  <2>3. to # 1
    OBVIOUS
  <2> QED
    BY <2>1, <2>2, <2>3, Zenon
<1>2. ASSUME NEW to \in 1..2, Downgrade(to)
      PROVE  \/ UNCHANGED result /\ (rev = 1 <=> rev' = 1)
             \/ rev # 1 /\ rev' = 1 /\ result'.value = VerdictOf(result.value)
  <2>1. /\ rev' = to
        /\ result' = IF to = 1 THEN [result EXCEPT !.value = VerdictOf(result.value)] ELSE result
    BY <1>2, Zenon DEF Downgrade
  <2>2. ASSUME NEW o PROVE [result EXCEPT !.value = o].value = o
    BY <1>0 DEF Result
  <2>3. to < rev
    BY <1>2, Zenon DEF Downgrade
  <2>4. rev # 1
    BY <1>0, <2>3
  <2> QED
    BY <2>1, <2>2, <2>4, Zenon
<1>3. ASSUME NEW value \in Outcomes, NEW details, NEW missing,
             ReconcileShipment(value, details, missing)
      PROVE  rev = 3 /\ rev' = 3 /\ result'.value \in Outcomes
  BY <1>3 DEF ReconcileShipment
<1>4. ASSUME NEW x, Persist \/ Reopen \/ PersistFailure(x) \/ Decide(x) \/ DecideDies(x)
      PROVE  UNCHANGED <<rev, result>>
  BY <1>4, Zenon DEF Persist, Reopen, PersistFailure, Save, Decide, DecideDies, rows
<1>5. CASE UNCHANGED vars
  BY <1>5 DEF vars, rows
<1> QED
  BY <1>1, <1>2, <1>3, <1>4, <1>5 DEF Next

\* The language of the results follows the revision.
LEMMA ValueInvariant == Spec => [](TypeOK /\ ValueFits)
<1>1. Init => ValueFits
  <2> SUFFICES ASSUME Init PROVE ValueFits
    OBVIOUS
  <2>1. rev = 1
    BY DEF Init
  <2>2. CASE result = NoResult
    BY <2>1, <2>2 DEF NoResult, ValueFits, Verdicts
  <2>3. CASE result \in [exists : {TRUE}, name : {"missing_docs", "comparison"},
                         value : Verdicts, details : {"skipped", "grace", "other"},
                         missing : BOOLEAN, reasons : BOOLEAN]
    BY <2>1, <2>3 DEF ValueFits
  <2> QED
    BY <2>2, <2>3, Zenon DEF Init
<1>2. TypeOK /\ ValueFits /\ [Next]_vars => ValueFits'
  <2> SUFFICES ASSUME TypeOK, ValueFits, [Next]_vars PROVE ValueFits'
    OBVIOUS
  <2>1. result \in Result
    BY DEF TypeOK
  <2> QED
    BY <2>1, ResultSteps, ValueTranslated DEF ValueFits
<1>3. IInv => TypeOK
  BY DEF IInv
<1> QED
  BY <1>1, <1>2, <1>3, Invariance, PTL DEF Spec

\* Through every sequence of upgrades and downgrades, with the program adding
\* results in between, a failed check stays failed and no other becomes one: the
\* downgrade writes FALSE for exactly the outcome the upgrade made of FALSE.
THEOREM FailuresAreKept == Spec => FailuresStayFailures
<1>1. TypeOK /\ ValueFits /\ [Next]_vars
        => [rev' # rev => (result.value \in {"failed", "false"} <=>
                           result'.value \in {"failed", "false"})]_vars
  <2> SUFFICES ASSUME TypeOK, ValueFits, [Next]_vars, rev' # rev
               PROVE  result.value \in {"failed", "false"} <=>
                      result'.value \in {"failed", "false"}
    OBVIOUS
  <2>1. result \in Result
    BY DEF TypeOK
  <2> QED
    BY <2>1, ResultSteps, ValueTranslated DEF ValueFits, Verdicts, Outcomes
<1> QED
  BY <1>1, ValueInvariant, PTL DEF Spec, FailuresStayFailures
=============================================================================
