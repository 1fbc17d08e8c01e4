--------------------------- MODULE Notifications ---------------------------
(***************************************************************************)
(* The outbox of e-mails about missing-document exceptions.  Every event   *)
(* of a shipment's exception is a row; after each successful SLA scan the  *)
(* scheduler of every API process runs dispatch_pending_sla_notifications, *)
(* which claims a row, mails it and records the result in three separate   *)
(* steps.                                                                  *)
(***************************************************************************)
EXTENDS Integers, FiniteSets

CONSTANTS
    Processes,   \* API processes, each with a scheduler
    MaxEvents,   \* bound: exception events
    MaxRefusals, \* bound: mails Gmail refuses or answers with an error
    MaxFaults    \* bound: crashes and failed database calls

ASSUME NotificationAssumption ==
    /\ MaxEvents \in Nat
    /\ MaxRefusals \in Nat
    /\ MaxFaults \in Nat

Events == 1..MaxEvents

\* ShipmentExceptionEvent.notification_status, "none" before the event occurs.
Status == {"none", "pending", "sending", "sent", "failed"}

(***************************************************************************)
(* A dispatcher: pc names the next store or Gmail call, event is the row   *)
(* it works on.                                                            *)
(***************************************************************************)
Dispatcher == [pc : {"asleep", "claim", "locked", "send", "sent", "failed"},
               event : Events \cup {0}]

Asleep == [pc |-> "asleep", event |-> 0]

VARIABLES
    status,    \* notification_status of every event
    disp,      \* disp[p]: the dispatcher of process p
    mails,     \* history: mails Gmail accepted for each event
    lost,      \* history: accepted mails whose answer was an error
    refusals,
    faults

outboxVars == <<status, mails, lost>>
boundVars == <<refusals, faults>>
vars == <<outboxVars, disp, boundVars>>

\* Types of all variables.
TypeOK ==
    /\ status \in [Events -> Status]
    /\ disp \in [Processes -> Dispatcher]
    /\ mails \in [Events -> Nat]
    /\ lost \in [Events -> Nat]
    /\ refusals \in 0..MaxRefusals
    /\ faults \in 0..MaxFaults

Init ==
    /\ status = [e \in Events |-> "none"]
    /\ disp = [p \in Processes |-> Asleep]
    /\ mails = [e \in Events |-> 0]
    /\ lost = [e \in Events |-> 0]
    /\ refusals = 0
    /\ faults = 0

-----------------------------------------------------------------------------
(* The outbox *)

Goto(p, label) == disp' = [disp EXCEPT ![p] = [@ EXCEPT !.pc = label]]

\* sync_missing_document_exception adds an event.
EventOccurs(e) ==
    /\ status[e] = "none"
    /\ \A f \in Events : f < e => status[f] # "none"
    /\ status' = [status EXCEPT ![e] = "pending"]
    /\ UNCHANGED <<mails, lost, disp, boundVars>>

\* The scan succeeded, the scheduler goes on to the notifications.
DispatchStart(p) ==
    /\ disp[p].pc = "asleep"
    /\ Goto(p, "claim")
    /\ UNCHANGED <<outboxVars, boundVars>>

\* Mutant: an event some dispatcher is sending is taken for an unsent one.
UnsentMutant == {e \in Events : status[e] \in {"pending", "sending", "failed"}}

\* Mutant: a refused event is not taken up again.
UnsentMutantPending == {e \in Events : status[e] = "pending"}

Unsent == {e \in Events : status[e] \in {"pending", "failed"}}

\* FOR UPDATE SKIP LOCKED passes over the rows of open claims.
Free(e) == \A p \in Processes : ~(disp[p].pc = "locked" /\ disp[p].event = e)

Lock(p) ==
    /\ disp[p].pc = "claim"
    /\ \E e \in Unsent :
          /\ Free(e)
          /\ \A f \in Unsent : Free(f) => e <= f
          /\ disp' = [disp EXCEPT ![p] = [pc |-> "locked", event |-> e]]
    /\ UNCHANGED <<outboxVars, boundVars>>

CommitClaim(p) ==
    /\ disp[p].pc = "locked"
    /\ status' = [status EXCEPT ![disp[p].event] = "sending"]
    /\ Goto(p, "send")
    /\ UNCHANGED <<mails, lost, boundVars>>

\* Gmail accepts the mail.
SendAccepted(p) ==
    /\ disp[p].pc = "send"
    /\ mails' = [mails EXCEPT ![disp[p].event] = @ + 1]
    /\ Goto(p, "sent")
    /\ UNCHANGED <<status, lost, boundVars>>

\* Mutant: an error is logged and the event goes on as sent.
SendRefusedMutant(p) ==
    /\ disp[p].pc = "send"
    /\ refusals < MaxRefusals
    /\ refusals' = refusals + 1
    /\ Goto(p, "sent")
    /\ UNCHANGED <<status, lost, mails, faults>>

\* Gmail is not authenticated, refuses, or accepts and the answer is lost.
SendRefused(p) ==
    /\ disp[p].pc = "send"
    /\ refusals < MaxRefusals
    /\ refusals' = refusals + 1
    /\ \/ UNCHANGED <<mails, lost>>
       \/ /\ mails' = [mails EXCEPT ![disp[p].event] = @ + 1]
          /\ lost' = [lost EXCEPT ![disp[p].event] = @ + 1]
    /\ Goto(p, "failed")
    /\ UNCHANGED <<status, faults>>

MarkSent(p) ==
    /\ disp[p].pc = "sent"
    /\ status' = [status EXCEPT ![disp[p].event] = "sent"]
    /\ disp' = [disp EXCEPT ![p] = [Asleep EXCEPT !.pc = "claim"]]
    /\ UNCHANGED <<mails, lost, boundVars>>

\* Mutant: the failed event is not put back.
MarkFailedMutant(p) ==
    /\ disp[p].pc = "failed"
    /\ disp' = [disp EXCEPT ![p] = Asleep]
    /\ UNCHANGED <<status, mails, lost, boundVars>>

\* A failed event is put back, and the dispatch ends.
MarkFailed(p) ==
    /\ disp[p].pc = "failed"
    /\ status' = [status EXCEPT ![disp[p].event] = "failed"]
    /\ disp' = [disp EXCEPT ![p] = Asleep]
    /\ UNCHANGED <<mails, lost, boundVars>>

\* Nothing is left to claim: the dispatch ends.
DispatchEnds(p) ==
    /\ disp[p].pc = "claim"
    /\ \A e \in Unsent : ~Free(e)
    /\ disp' = [disp EXCEPT ![p] = Asleep]
    /\ UNCHANGED <<outboxVars, boundVars>>

\* A database call of the dispatcher raises; the scheduler catches it.
StoreFails(p) ==
    /\ disp[p].pc \in {"claim", "locked", "sent", "failed"}
    /\ faults < MaxFaults
    /\ faults' = faults + 1
    /\ disp' = [disp EXCEPT ![p] = Asleep]
    /\ UNCHANGED <<outboxVars, refusals>>

-----------------------------------------------------------------------------

\* A process dies and starts again.
Crash(p) ==
    /\ disp[p] # Asleep
    /\ faults < MaxFaults
    /\ faults' = faults + 1
    /\ disp' = [disp EXCEPT ![p] = Asleep]
    /\ UNCHANGED <<outboxVars, refusals>>

\* dispatch_pending_sla_notifications and its scheduler.
Dispatch(p) ==
    \/ DispatchStart(p) \/ Lock(p) \/ CommitClaim(p)
    \/ SendAccepted(p) \/ SendRefused(p)
    \/ MarkSent(p) \/ MarkFailed(p) \/ DispatchEnds(p)

Next ==
    \/ \E e \in Events : EventOccurs(e)
    \/ \E p \in Processes :
          Dispatch(p) \/ StoreFails(p) \/ Crash(p)

Spec == Init /\ [][Next]_vars

\* The schedulers keep their cadence, and database and Gmail answer.
FairSpec ==
    Spec /\ \A p \in Processes : WF_vars(Dispatch(p))

-----------------------------------------------------------------------------
(* Properties *)

Holds(p, e) == disp[p].pc \notin {"asleep", "claim"} /\ disp[p].event = e

\* Row lock and "sending" together make a claim exclusive from its SELECT to the
\* commit of its result, though three transactions and a mail lie between: no two
\* processes ever work on one event.
OneSender ==
    \A p, q \in Processes, e \in Events : Holds(p, e) /\ Holds(q, e) => p = q

Place(s) ==
    CASE s = "none"                  -> "none"
      [] s \in {"pending", "failed"} -> "due"
      [] s = "sending"               -> "hand"
      [] s = "sent"                  -> "sent"

Promise ==
    INSTANCE Outbox WITH place <- [e \in Events |-> Place(status[e])], doubtful <- lost

\* The dispatchers implement the outbox: an event is mailed again only if Gmail
\* accepted it and answered with an error, what is shown as sent was mailed, and
\* what is put back was not, however many processes crash, fail to commit or run
\* side by side.
ImplementsOutbox == Promise!Spec

Stuck(e) == status[e] = "sending" /\ \A p \in Processes : ~Holds(p, e)

\* An event stays in "sending" with nobody at it only after a crash or a failed
\* commit, one event for each: no other interleaving leaves one behind.
StuckOnlyByFault == Cardinality({e \in Events : Stuck(e)}) <= faults

\* Every event is mailed in the end, whatever Gmail refuses on the way and however
\* often the processes die, unless a fault left it in "sending".
EveryEventMailed ==
    \A e \in Events : status[e] # "none" ~> status[e] = "sent" \/ Stuck(e)
=============================================================================
