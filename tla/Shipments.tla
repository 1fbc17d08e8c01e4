------------------------------ MODULE Shipments ------------------------------
(***************************************************************************)
(* One shipment, identified by its normalized load number: documents are   *)
(* assembled into it (upsert_shipment), it is reconciled after every       *)
(* change (reconcile_shipment), and its missing-document exception is      *)
(* opened, changed and resolved (sync_missing_document_exception) by the   *)
(* runs of its documents, the rate-confirmation request and the SLA        *)
(* scanners of all API processes.                                          *)
(*                                                                         *)
(* A transaction is two steps: it takes the row lock and reads, and later  *)
(* it writes and commits.  The scanner's claim is a third step before      *)
(* them: its query sees a snapshot, the lock comes after.                  *)
(***************************************************************************)
EXTENDS Integers, Sequences, FiniteSets

CONSTANTS
    Documents,    \* documents whose runs reach match_node with this load number
    Manual,       \* the companion document of the manual rate confirmation
    NoDoc,        \* an empty document slot
    Extractions,  \* what extraction may make of all these documents
    Scanners,     \* SLA scanners, one per API process
    NoOne,        \* nobody holds the row lock
    Slas,         \* values MISSING_DOCUMENT_SLA_HOURS may have
    MaxClock,     \* bound: time
    MaxRestarts,  \* bound: restarts, with a new configuration
    MaxFaults     \* bound: rollbacks and retried nodes

ASSUME ShipmentAssumption ==
    /\ Manual \notin Documents
    /\ NoDoc \notin Documents \cup {Manual}
    /\ NoOne \notin Documents \cup {Manual} \cup Scanners
    /\ Scanners \cap (Documents \cup {Manual}) = {}
    /\ Extractions \subseteq [Documents \cup {Manual} ->
                                [type : {"invoice", "rate_con", "bol", "pod", "other"},
                                 content : {"ok", "bad", "unreadable"}]]
    /\ \A e \in Extractions : e[Manual].type = "rate_con"
    /\ Slas \subseteq Nat
    /\ MaxClock \in Nat
    /\ MaxRestarts \in Nat
    /\ MaxFaults \in Nat

\* DOC_FIELDS and REQUIRED_DOCUMENTS
Types == {"invoice", "rate_con", "bol", "pod"}

Writers == Documents \cup {Manual}
Procs == Writers \cup Scanners
Content == {"ok", "bad", "unreadable", "absent"}
Status == {"pending", "partial", "reconciled", "exception"}

(* The shipment's row: presence flags, first document of each type, status. *)
Row == [exists : BOOLEAN, created : 0..MaxClock, has : [Types -> BOOLEAN],
        slot : [Types -> Writers \cup {NoDoc}], status : Status]

NoRow == [exists |-> FALSE, created |-> 0, has |-> [t \in Types |-> FALSE],
          slot |-> [t \in Types |-> NoDoc], status |-> "pending"]

(* The missing-document exception; version 0 is "no such row". *)
Exception == [status : {"none", "active", "resolved"}, missing : SUBSET Types,
              deadline : Nat, version : Nat]

NoException == [status |-> "none", missing |-> {}, deadline |-> 0, version |-> 0]

Event == [transition : {"opened", "changed", "resolved"},
          before : Exception, after : Exception]

VARIABLES
    row,        \* the shipment
    doc,        \* type and content of every document
    attached,   \* documents whose shipment_id is set
    rateTable,  \* content of the rate_confirmations row, or "absent"
    results,    \* keys of the reconciliation results
    exc,        \* the missing-document exception
    events,     \* its events, by version
    lock,       \* who holds SELECT ... FOR UPDATE on the shipment
    pc,
    seen,       \* seen[x]: the row as x read it under the lock
    scanNow,    \* the time at which a scan began
    clock,
    sla,
    restarts,
    faults

procVars == <<lock, pc, seen, scanNow>>
envVars == <<clock, sla, restarts>>
vars == <<row, doc, attached, rateTable, results, exc, events, procVars,
          envVars, faults>>

\* Types of all variables.
TypeOK ==
    /\ row \in Row
    /\ doc \in Extractions
    /\ attached \subseteq Writers
    /\ rateTable \in Content
    /\ exc \in Exception
    /\ events \in Seq(Event)
    /\ lock \in Procs \cup {NoOne}
    /\ pc \in [Procs -> {"new", "locked", "done", "scan", "picked"}]
    /\ seen \in [Procs -> Row]
    /\ scanNow \in [Scanners -> 0..MaxClock]
    /\ clock \in 0..MaxClock
    /\ sla \in Slas
    /\ restarts \in 0..MaxRestarts
    /\ faults \in 0..MaxFaults

\* Rate confirmations are older than shipments: one may be there already.
Init ==
    /\ row = NoRow
    /\ doc \in Extractions
    /\ attached = {}
    /\ rateTable \in {"absent", doc[Manual].content}
    /\ results = {}
    /\ exc = NoException
    /\ events = <<>>
    /\ lock = NoOne
    /\ pc = [x \in Procs |-> "new"]
    /\ seen = [x \in Procs |-> NoRow]
    /\ scanNow = [s \in Scanners |-> 0]
    /\ clock = 0
    /\ sla \in Slas
    /\ restarts = 0
    /\ faults = 0

-----------------------------------------------------------------------------
(* reconcile_shipment *)

Missing(r) == {t \in Types : ~r.has[t]}

\* What a document slot says; a rate_confirmations row outranks its slot.
ContentOf(r, rate, t) ==
    IF t = "rate_con" /\ rate # "absent" THEN rate
    ELSE IF r.slot[t] = NoDoc THEN "absent"
    ELSE doc[r.slot[t]].content

\* A comparison of two documents: amounts and carriers of invoice and rate
\* confirmation, dates of bill of lading and rate confirmation.
Compare(a, b) ==
    IF {a, b} \cap {"absent", "unreadable"} # {} THEN "not_evaluated"
    ELSE IF "bad" \in {a, b} THEN "failed"
    ELSE "passed"

\* A proof of delivery must be complete once it is there.
PodCheck(r, c) ==
    IF ~r.has["pod"] THEN "not_evaluated"
    ELSE IF c = "ok" THEN "passed"
    ELSE "failed"

Checks(r, rate) ==
    LET c == [t \in Types |-> ContentOf(r, rate, t)] IN
    {Compare(c["invoice"], c["rate_con"]), Compare(c["bol"], c["rate_con"]),
     PodCheck(r, c["pod"])}

Deadline(r) == r.created + sla

\* Mutant: the deadline itself still counts as grace.
OverdueMutant(r, now) == Missing(r) # {} /\ now > Deadline(r)

\* evaluate_missing_document_policy
Overdue(r, now) == Missing(r) # {} /\ now >= Deadline(r)

\* Mutant: checks that were skipped count as passed.
StatusOfMutant(r, rate, now) ==
    IF "failed" \in Checks(r, rate) \/ Overdue(r, now) THEN "exception"
    ELSE IF Missing(r) # {} THEN "partial"
    ELSE "reconciled"

StatusOf(r, rate, now) ==
    IF "failed" \in Checks(r, rate) \/ Overdue(r, now) THEN "exception"
    ELSE IF Missing(r) # {} \/ "not_evaluated" \in Checks(r, rate) THEN "partial"
    ELSE "reconciled"

\* sync_missing_document_exception: what the exception should be.
Desired(r, now) ==
    [status |-> IF Overdue(r, now) THEN "active" ELSE "resolved",
     missing |-> IF Overdue(r, now) THEN Missing(r) ELSE {},
     deadline |-> Deadline(r)]

\* Mutant: no look at what the exception already says.
UnchangedMutant(r, now) == exc.version = 0 /\ ~Overdue(r, now)

\* Mutant: only the status is compared.
UnchangedMutantStatus(r, now) ==
    IF exc.version = 0 THEN ~Overdue(r, now)
    ELSE exc.status = Desired(r, now).status

\* No exception is needed and none was ever opened, or it is as desired.
Unchanged(r, now) ==
    IF exc.version = 0 THEN ~Overdue(r, now)
    ELSE /\ exc.status = Desired(r, now).status
         /\ exc.missing = Desired(r, now).missing
         /\ exc.deadline = Desired(r, now).deadline

Transition(r, now) ==
    IF ~Overdue(r, now) THEN "resolved"
    ELSE IF exc.status = "active" THEN "changed"
    ELSE "opened"

SyncException(r, now) ==
    LET d == Desired(r, now)
        new == [status |-> d.status, missing |-> d.missing,
                deadline |-> d.deadline, version |-> exc.version + 1]
    IN  IF Unchanged(r, now)
        THEN UNCHANGED <<exc, events>>
        ELSE /\ exc' = new
             /\ events' = Append(events, [transition |-> Transition(r, now),
                                          before |-> exc, after |-> new])

\* The whole of reconcile_shipment up to its commit.
Reconcile(r, rate, now, key) ==
    LET present == [r EXCEPT !.has["rate_con"] = @ \/ rate # "absent"] IN
    /\ row' = [present EXCEPT !.status = StatusOf(present, rate, now)]
    /\ results' = results \cup {key}
    /\ SyncException(present, now)

-----------------------------------------------------------------------------
(* upsert_shipment *)

\* The first document of a type keeps its slot.
Attach(r, x) ==
    IF doc[x].type \notin Types THEN r
    ELSE [r EXCEPT !.slot[doc[x].type] = IF @ = NoDoc THEN x ELSE @,
                   !.has[doc[x].type] = TRUE]

\* Mutant: an existing rate confirmation is not looked for.
AttachRateMutant(r, rate) == r

\* _attach_existing_rate_confirmation, with its companion document.
AttachRate(r, rate) ==
    IF r.slot["rate_con"] # NoDoc THEN [r EXCEPT !.has["rate_con"] = TRUE]
    ELSE IF rate # "absent"
           THEN [r EXCEPT !.slot["rate_con"] = Manual, !.has["rate_con"] = TRUE]
    ELSE r

Assembled(r, x, rate) == AttachRate(Attach(r, x), rate)

\* Mutant: the row is read without FOR UPDATE.
LockFreeMutant == TRUE

LockFree == lock = NoOne

\* INSERT ... ON CONFLICT DO NOTHING, then SELECT ... FOR UPDATE.
LockShipment(x) ==
    /\ pc[x] = "new"
    /\ x = Manual => rateTable = "absent"
    /\ LockFree
    /\ lock' = x
    /\ pc' = [pc EXCEPT ![x] = "locked"]
    /\ seen' = [seen EXCEPT ![x] = IF row.exists THEN row
                                   ELSE [NoRow EXCEPT !.exists = TRUE,
                                                      !.created = clock]]
    /\ UNCHANGED <<row, doc, attached, rateTable, results, exc, events, scanNow,
                   envVars, faults>>

\* match_node and create_rate_confirmation: assemble, reconcile, commit.
Assemble(x) ==
    LET rate == IF x = Manual THEN doc[Manual].content ELSE rateTable
        r == Assembled(seen[x], x, rate)
    IN
    /\ x \in Writers
    /\ pc[x] = "locked"
    /\ Reconcile(r, rate, clock, <<"run", x>>)
    /\ attached' = attached \cup {x} \cup ({r.slot["rate_con"]} \ {NoDoc})
    /\ rateTable' = rate
    /\ lock' = NoOne
    /\ pc' = [pc EXCEPT ![x] = "done"]
    /\ seen' = [seen EXCEPT ![x] = NoRow]
    /\ UNCHANGED <<doc, scanNow, envVars, faults>>

\* The checkpoint after match_node is lost, the node runs again.
Retry(x) ==
    /\ x \in Documents
    /\ pc[x] = "done"
    /\ faults < MaxFaults
    /\ faults' = faults + 1
    /\ pc' = [pc EXCEPT ![x] = "new"]
    /\ UNCHANGED <<row, doc, attached, rateTable, results, exc, events, lock,
                   seen, scanNow, envVars>>

-----------------------------------------------------------------------------
(* The scanner *)

ScanStart(s) ==
    /\ pc[s] = "new"
    /\ pc' = [pc EXCEPT ![s] = "scan"]
    /\ scanNow' = [scanNow EXCEPT ![s] = clock]
    /\ UNCHANGED <<row, doc, attached, rateTable, results, exc, events, lock,
                   seen, envVars, faults>>

ScanEnds(s) ==
    /\ pc' = [pc EXCEPT ![s] = "new"]
    /\ scanNow' = [scanNow EXCEPT ![s] = 0]

\* The part of claim_and_evaluate_one's WHERE clause that is about the shipment.
PastSla(s) == row.exists /\ row.created <= scanNow[s] - sla /\ Missing(row) # {}

\* Mutant: an exception is only ever opened once.
ClaimableMutant(s) == PastSla(s) /\ exc.status = "none"

Claimable(s) == PastSla(s) /\ exc.status # "active"

\* The snapshot of the claim; without a row the scan ends.
ScanSelect(s) ==
    /\ pc[s] = "scan"
    /\ IF Claimable(s)
       THEN pc' = [pc EXCEPT ![s] = "picked"] /\ UNCHANGED scanNow
       ELSE ScanEnds(s)
    /\ UNCHANGED <<row, doc, attached, rateTable, results, exc, events, lock,
                   seen, envVars, faults>>

\* The row lock comes after the snapshot.  A locked row is skipped; one that
\* changed is checked again, but the exceptions were read in the snapshot.
ScanLock(s) ==
    /\ pc[s] = "picked"
    /\ IF LockFree /\ PastSla(s)
       THEN /\ lock' = s
            /\ pc' = [pc EXCEPT ![s] = "locked"]
            /\ seen' = [seen EXCEPT ![s] = row]
            /\ UNCHANGED scanNow
       ELSE ScanEnds(s) /\ UNCHANGED <<lock, seen>>
    /\ UNCHANGED <<row, doc, attached, rateTable, results, exc, events, envVars,
                   faults>>

\* One evaluation; the scan goes on until nothing is claimable.
ScanEvaluate(s) ==
    /\ s \in Scanners
    /\ pc[s] = "locked"
    /\ Reconcile(seen[s], rateTable, scanNow[s],
                 <<"sla", Deadline(seen[s]), Missing(seen[s])>>)
    /\ lock' = NoOne
    /\ pc' = [pc EXCEPT ![s] = "scan"]
    /\ seen' = [seen EXCEPT ![s] = NoRow]
    /\ UNCHANGED <<doc, attached, rateTable, scanNow, envVars, faults>>

-----------------------------------------------------------------------------

\* A transaction rolls back: the run or the request is tried again, the scan
\* fails until its next cadence.
Rollback(x) ==
    /\ pc[x] \in {"locked", "scan", "picked"}
    /\ faults < MaxFaults
    /\ faults' = faults + 1
    /\ lock' = IF lock = x THEN NoOne ELSE lock
    /\ seen' = [seen EXCEPT ![x] = NoRow]
    /\ IF x \in Scanners THEN ScanEnds(x)
       ELSE pc' = [pc EXCEPT ![x] = "new"] /\ UNCHANGED scanNow
    /\ UNCHANGED <<row, doc, attached, rateTable, results, exc, events, envVars>>

\* All processes restart, with another configuration.
Restart ==
    /\ restarts < MaxRestarts
    /\ restarts' = restarts + 1
    /\ sla' \in Slas
    /\ lock' = NoOne
    /\ pc' = [x \in Procs |-> IF pc[x] = "done" THEN "done" ELSE "new"]
    /\ seen' = [x \in Procs |-> NoRow]
    /\ scanNow' = [s \in Scanners |-> 0]
    /\ UNCHANGED <<row, doc, attached, rateTable, results, exc, events, clock,
                   faults>>

Tick ==
    /\ clock < MaxClock
    /\ clock' = clock + 1
    /\ UNCHANGED <<row, doc, attached, rateTable, results, exc, events, procVars,
                   sla, restarts, faults>>

Scan(s) == ScanStart(s) \/ ScanSelect(s) \/ ScanLock(s) \/ ScanEvaluate(s)

Next ==
    \/ \E x \in Writers : LockShipment(x) \/ Assemble(x) \/ Retry(x)
    \/ \E s \in Scanners : Scan(s)
    \/ \E x \in Procs : Rollback(x)
    \/ Restart
    \/ Tick

Spec == Init /\ [][Next]_vars

\* The open transaction of a writer ends (the row lock admits one at a time), and
\* every scanner keeps its cadence.
FairSpec ==
    /\ Spec
    /\ WF_vars(\E x \in Writers : Assemble(x))
    /\ \A s \in Scanners : WF_vars(Scan(s))

-----------------------------------------------------------------------------
(* Properties *)

\* The committed status tells the truth about the committed documents, however
\* runs, requests and scanners interleave: reconciled means that all four are
\* there and no check failed or was skipped, and a failed check is never hidden.
StatusIsTruthful ==
    row.exists =>
        /\ row.status = "reconciled" <=>
              Missing(row) = {} /\ Checks(row, rateTable) = {"passed"}
        /\ "failed" \in Checks(row, rateTable) => row.status = "exception"

\* A presence flag is set exactly when the slot is filled, and with a document
\* that really belongs to the shipment.
SlotsMatchFlags ==
    \A t \in Types :
        /\ row.has[t] <=> row.slot[t] # NoDoc
        /\ row.slot[t] # NoDoc =>
              row.slot[t] \in attached /\ doc[row.slot[t]].type = t

\* An active exception lists exactly the documents that are missing now, and the
\* shipment shows it.
ExceptionIsCurrent ==
    exc.status = "active" =>
        /\ exc.missing = Missing(row)
        /\ exc.missing # {}
        /\ row.status = "exception"

\* The events are the exception's complete history: consecutive, each starting
\* where the last one ended and changing something, so that one crossing of the
\* deadline is announced once even when two scanners claimed the shipment.
EventsChain ==
    /\ exc.version = Len(events)
    /\ \A v \in 1..Len(events) :
          LET e == events[v] IN
          /\ e.before = IF v = 1 THEN NoException ELSE events[v - 1].after
          /\ [e.before EXCEPT !.version = v] # e.after
          /\ (e.transition = "changed") <=>
                e.before.status = "active" /\ e.after.status = "active"
          /\ (e.transition = "resolved") <=> e.after.status = "resolved"
    /\ events # <<>> => exc = events[Len(events)].after

\* The first document of a type stays the canonical one.
CanonicalStays ==
    [][\A t \in Types : row.slot[t] # NoDoc => row'.slot[t] = row.slot[t]]_row

\* A shipment that misses documents at its deadline is flagged as overdue, or the
\* documents arrive, or the deadline is moved.
OverdueIsFlagged ==
    row.exists /\ Overdue(row, clock)
        ~> exc.status = "active" \/ ~Overdue(row, clock)

\* scan_missing_document_slas ends: what its query claims, the policy finds overdue
\* at the same instant, so no shipment is claimed again and again.
EveryScanEnds == \A s \in Scanners : pc[s] # "new" ~> pc[s] = "new"
==============================================================================
