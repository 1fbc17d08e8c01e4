------------------------ MODULE NotificationsProofs ------------------------
(***************************************************************************)
(* Proofs about Notifications, for every number of processes and events.   *)
(***************************************************************************)
EXTENDS Notifications, FiniteSetTheorems, TLAPS

\* A claim before its commit is on an unsent event, one after it on an event in
\* "sending".
ClaimsMatch ==
    \A p \in Processes :
        /\ disp[p].pc \notin {"asleep", "claim"} => disp[p].event \in Events
        /\ disp[p].pc = "locked" => status[disp[p].event] \in {"pending", "failed"}
        /\ disp[p].pc \in {"send", "sent", "failed"} => status[disp[p].event] = "sending"

\* Mails without an error are sent last: an event that may be mailed again has
\* had none, and one about to be recorded as sent has had one.
MailsMatch ==
    /\ \A e \in Events :
          status[e] \in {"none", "pending", "failed"} => mails[e] = lost[e]
    /\ \A p \in Processes :
          /\ disp[p].pc \in {"send", "failed"} => mails[disp[p].event] = lost[disp[p].event]
          /\ disp[p].pc = "sent" => mails[disp[p].event] = lost[disp[p].event] + 1

ClaimInv == TypeOK /\ ClaimsMatch /\ OneSender

-----------------------------------------------------------------------------

\* An empty outbox satisfies both invariants.
LEMMA InitInv == Init => ClaimInv /\ MailsMatch
  BY NotificationAssumption
     DEF Init, ClaimInv, TypeOK, ClaimsMatch, OneSender, MailsMatch, Holds, Asleep,
         Dispatcher, Status

\* Every step keeps the types.
LEMMA NextType == ClaimInv /\ [Next]_vars => TypeOK'
<1> SUFFICES ASSUME ClaimInv, [Next]_vars PROVE TypeOK'
  OBVIOUS
<1> USE NotificationAssumption DEF ClaimInv
<1>1. CASE UNCHANGED vars
  BY <1>1 DEF TypeOK, vars, outboxVars, boundVars
<1>2. ASSUME NEW e \in Events, EventOccurs(e) PROVE TypeOK'
  BY <1>2 DEF EventOccurs, TypeOK, boundVars, Status
<1>3. ASSUME NEW p \in Processes, DispatchStart(p) PROVE TypeOK'
  BY <1>3 DEF DispatchStart, Goto, TypeOK, Dispatcher, outboxVars, boundVars
<1>4. ASSUME NEW p \in Processes, Lock(p) PROVE TypeOK'
  BY <1>4 DEF Lock, Unsent, TypeOK, Dispatcher, outboxVars, boundVars
<1>5. ASSUME NEW p \in Processes, CommitClaim(p) PROVE TypeOK'
  BY <1>5 DEF CommitClaim, Goto, TypeOK, Dispatcher, Status, boundVars
<1>6. ASSUME NEW p \in Processes, SendAccepted(p) PROVE TypeOK'
  BY <1>6 DEF SendAccepted, Goto, ClaimsMatch, TypeOK, Dispatcher, boundVars
<1>7. ASSUME NEW p \in Processes, SendRefused(p) PROVE TypeOK'
  <2>1. disp[p].event \in Events
    BY <1>7 DEF SendRefused, ClaimsMatch
  <2>2. mails' \in [Events -> Nat] /\ lost' \in [Events -> Nat]
    BY <1>7, <2>1 DEF SendRefused, TypeOK
  <2>3. disp' \in [Processes -> Dispatcher]
    BY <1>7 DEF SendRefused, Goto, TypeOK, Dispatcher
  <2> QED
    BY <1>7, <2>2, <2>3 DEF SendRefused, TypeOK
<1>8. ASSUME NEW p \in Processes, MarkSent(p) PROVE TypeOK'
  BY <1>8 DEF MarkSent, Asleep, TypeOK, Dispatcher, Status, boundVars
<1>9. ASSUME NEW p \in Processes, MarkFailed(p) PROVE TypeOK'
  BY <1>9 DEF MarkFailed, Asleep, TypeOK, Dispatcher, Status, boundVars
<1>10. ASSUME NEW p \in Processes, DispatchEnds(p) PROVE TypeOK'
  BY <1>10 DEF DispatchEnds, Asleep, TypeOK, Dispatcher, outboxVars, boundVars
<1>11. ASSUME NEW p \in Processes, StoreFails(p) \/ Crash(p) PROVE TypeOK'
  BY <1>11 DEF StoreFails, Crash, Asleep, TypeOK, Dispatcher, outboxVars
<1> QED
  BY <1>1, <1>2, <1>3, <1>4, <1>5, <1>6, <1>7, <1>8, <1>9, <1>10, <1>11 DEF Next, Dispatch

-----------------------------------------------------------------------------

\* A dispatcher that gives up leaves its event as it is, possibly stuck.
LEMMA OutboxQuits ==
    ASSUME ClaimInv, MailsMatch, UNCHANGED outboxVars, NEW p \in Processes,
           disp' = [disp EXCEPT ![p] = Asleep]
    PROVE  ClaimsMatch' /\ OneSender' /\ MailsMatch'
  BY DEF ClaimInv, TypeOK, ClaimsMatch, OneSender, Holds, MailsMatch, outboxVars, Asleep

\* Every step keeps claims exclusive and mails counted.
LEMMA NextOutbox ==
    ClaimInv /\ MailsMatch /\ [Next]_vars => ClaimsMatch' /\ OneSender' /\ MailsMatch'
<1> SUFFICES ASSUME ClaimInv, MailsMatch, [Next]_vars
             PROVE  ClaimsMatch' /\ OneSender' /\ MailsMatch'
  OBVIOUS
<1> USE DEF ClaimInv
<1>1. CASE UNCHANGED vars
  BY <1>1 DEF vars, outboxVars, ClaimsMatch, OneSender, MailsMatch, Holds
<1>2. ASSUME NEW e \in Events, EventOccurs(e) PROVE ClaimsMatch' /\ OneSender' /\ MailsMatch'
  BY <1>2 DEF EventOccurs, TypeOK, ClaimsMatch, OneSender, Holds, MailsMatch
<1>3. ASSUME NEW p \in Processes, DispatchStart(p)
      PROVE  ClaimsMatch' /\ OneSender' /\ MailsMatch'
  BY <1>3 DEF DispatchStart, Goto, TypeOK, Dispatcher, ClaimsMatch, OneSender, Holds,
              MailsMatch, outboxVars
<1>4. ASSUME NEW p \in Processes, Lock(p) PROVE ClaimsMatch' /\ OneSender' /\ MailsMatch'
  <2>1. PICK e \in Unsent :
           Free(e) /\ disp' = [disp EXCEPT ![p] = [pc |-> "locked", event |-> e]]
    BY <1>4 DEF Lock
  <2>2. \A q \in Processes : ~Holds(q, e)
    BY <2>1 DEF Free, Unsent, Holds, ClaimsMatch, TypeOK, Dispatcher
  <2>3. UNCHANGED outboxVars
    BY <1>4 DEF Lock
  <2>4. ClaimsMatch'
    BY <2>1, <2>3 DEF ClaimsMatch, Unsent, TypeOK, outboxVars
  <2>5. OneSender'
    BY <2>1, <2>2 DEF OneSender, Holds, TypeOK
  <2>6. MailsMatch'
    BY <2>1, <2>3 DEF MailsMatch, TypeOK, outboxVars
  <2> QED
    BY <2>4, <2>5, <2>6
<1>5. ASSUME NEW p \in Processes, CommitClaim(p)
      PROVE  ClaimsMatch' /\ OneSender' /\ MailsMatch'
  <2> DEFINE e == disp[p].event
  <2>1. e \in Events /\ Holds(p, e) /\ mails[e] = lost[e]
    BY <1>5 DEF CommitClaim, ClaimsMatch, MailsMatch, Holds
  <2>2. \A q \in Processes : q # p => ~Holds(q, e)
    BY <2>1 DEF OneSender
  <2>3. OneSender'
    BY <1>5 DEF CommitClaim, Goto, OneSender, Holds, TypeOK, Dispatcher
  <2>4. ClaimsMatch'
    BY <1>5, <2>1, <2>2 DEF CommitClaim, Goto, ClaimsMatch, Holds, TypeOK, Dispatcher
  <2>5. MailsMatch'
    BY <1>5, <2>1 DEF CommitClaim, Goto, MailsMatch, TypeOK, Dispatcher
  <2> QED
    BY <2>3, <2>4, <2>5
<1>6. ASSUME NEW p \in Processes, SendAccepted(p)
      PROVE  ClaimsMatch' /\ OneSender' /\ MailsMatch'
  <2> DEFINE e == disp[p].event
  <2>1. e \in Events /\ Holds(p, e) /\ status[e] = "sending" /\ mails[e] = lost[e]
    BY <1>6 DEF SendAccepted, ClaimsMatch, MailsMatch, Holds
  <2>2. \A q \in Processes : q # p => ~Holds(q, e)
    BY <2>1 DEF OneSender
  <2>3. OneSender' /\ ClaimsMatch'
    BY <1>6 DEF SendAccepted, Goto, OneSender, ClaimsMatch, Holds, TypeOK, Dispatcher
  <2>4. /\ mails'[e] = mails[e] + 1 /\ lost' = lost /\ status' = status
        /\ \A f \in Events : f # e => mails'[f] = mails[f]
    BY <1>6, <2>1 DEF SendAccepted, TypeOK
  <2>6. disp'[p].pc = "sent" /\ disp'[p].event = e
    BY <1>6 DEF SendAccepted, Goto, ClaimsMatch, TypeOK, Dispatcher
  <2>7. \A q \in Processes : q # p => disp'[q] = disp[q]
    BY <1>6 DEF SendAccepted, Goto, TypeOK
  <2>8. MailsMatch'
    BY <2>1, <2>2, <2>4, <2>6, <2>7 DEF MailsMatch, Holds, ClaimsMatch, TypeOK
  <2> QED
    BY <2>3, <2>8
<1>7. ASSUME NEW p \in Processes, SendRefused(p)
      PROVE  ClaimsMatch' /\ OneSender' /\ MailsMatch'
  <2> DEFINE e == disp[p].event
  <2>1. e \in Events /\ Holds(p, e) /\ status[e] = "sending" /\ mails[e] = lost[e]
    BY <1>7 DEF SendRefused, ClaimsMatch, MailsMatch, Holds
  <2>2. \A q \in Processes : q # p => ~Holds(q, e)
    BY <2>1 DEF OneSender
  <2>3. OneSender' /\ ClaimsMatch'
    BY <1>7 DEF SendRefused, Goto, OneSender, ClaimsMatch, Holds, TypeOK, Dispatcher
  <2>4. /\ mails'[e] = lost'[e] /\ status' = status /\ mails'[e] \in Nat /\ lost'[e] \in Nat
        /\ \A f \in Events : f # e => mails'[f] = mails[f] /\ lost'[f] = lost[f]
    BY <1>7, <2>1 DEF SendRefused, TypeOK
  <2>6. disp'[p].pc = "failed" /\ disp'[p].event = e
    BY <1>7 DEF SendRefused, Goto, TypeOK, Dispatcher
  <2>7. \A q \in Processes : q # p => disp'[q] = disp[q]
    BY <1>7 DEF SendRefused, Goto, TypeOK
  <2>8. MailsMatch'
    BY <2>1, <2>2, <2>4, <2>6, <2>7 DEF MailsMatch, Holds, ClaimsMatch, TypeOK
  <2> QED
    BY <2>3, <2>8
<1>8. ASSUME NEW p \in Processes, MarkSent(p) PROVE ClaimsMatch' /\ OneSender' /\ MailsMatch'
  <2> DEFINE e == disp[p].event
  <2>1. e \in Events /\ Holds(p, e)
    BY <1>8 DEF MarkSent, ClaimsMatch, MailsMatch, Holds
  <2>2. \A q \in Processes : q # p => ~Holds(q, e)
    BY <2>1 DEF OneSender
  <2>3. OneSender' /\ ClaimsMatch'
    BY <1>8, <2>1, <2>2
       DEF MarkSent, Asleep, OneSender, ClaimsMatch, Holds, TypeOK, Dispatcher
  <2>4. MailsMatch'
    BY <1>8, <2>1 DEF MarkSent, Asleep, MailsMatch, TypeOK
  <2> QED
    BY <2>3, <2>4
<1>9. ASSUME NEW p \in Processes, MarkFailed(p)
      PROVE  ClaimsMatch' /\ OneSender' /\ MailsMatch'
  <2> DEFINE e == disp[p].event
  <2>1. e \in Events /\ Holds(p, e) /\ mails[e] = lost[e]
    BY <1>9 DEF MarkFailed, ClaimsMatch, MailsMatch, Holds
  <2>2. \A q \in Processes : q # p => ~Holds(q, e)
    BY <2>1 DEF OneSender
  <2>3. OneSender' /\ ClaimsMatch'
    BY <1>9, <2>1, <2>2
       DEF MarkFailed, Asleep, OneSender, ClaimsMatch, Holds, TypeOK, Dispatcher
  <2>4. MailsMatch'
    BY <1>9, <2>1 DEF MarkFailed, Asleep, MailsMatch, TypeOK
  <2> QED
    BY <2>3, <2>4
<1>10. ASSUME NEW p \in Processes, DispatchEnds(p) \/ StoreFails(p) \/ Crash(p)
       PROVE  ClaimsMatch' /\ OneSender' /\ MailsMatch'
  BY <1>10, OutboxQuits DEF DispatchEnds, StoreFails, Crash
<1> QED
  BY <1>1, <1>2, <1>3, <1>4, <1>5, <1>6, <1>7, <1>8, <1>9, <1>10 DEF Next, Dispatch

\* Both invariants hold in every reachable state.
LEMMA OutboxInvariant == Spec => [](ClaimInv /\ MailsMatch)
<1>1. ClaimInv /\ MailsMatch /\ [Next]_vars => (ClaimInv /\ MailsMatch)'
  BY NextType, NextOutbox DEF ClaimInv
<1> QED
  BY <1>1, InitInv, PTL DEF Spec

\* Every variable of the outbox model keeps its type.
THEOREM NotificationTypes == Spec => []TypeOK
  BY OutboxInvariant, PTL DEF ClaimInv

\* A claim is exclusive from its SELECT ... SKIP LOCKED to the commit of its result,
\* for any number of API processes and any crashes.
THEOREM ClaimsAreExclusive == Spec => []OneSender
  BY OutboxInvariant, PTL DEF ClaimInv

-----------------------------------------------------------------------------
(* The dispatchers implement the outbox *)

\* Rewriting one status moves one event, and no other.
LEMMA MoveOne ==
    ASSUME TypeOK, NEW e \in Events, NEW s \in Status,
           status' = [status EXCEPT ![e] = s]
    PROVE  [f \in Events |-> Place(status[f])]' =
              [[f \in Events |-> Place(status[f])] EXCEPT ![e] = Place(s)]
  BY DEF TypeOK

\* An empty table is an empty outbox.
LEMMA PromiseInit == Init => Promise!Init
  BY DEF Init, Promise!Init, Place

\* Every step of a dispatcher is a step of the outbox, or none.
LEMMA PromiseNext ==
    ClaimInv /\ MailsMatch /\ [Next]_vars => [Promise!Next]_(Promise!vars)
<1> SUFFICES ASSUME ClaimInv, MailsMatch, [Next]_vars
             PROVE  Promise!Next \/ UNCHANGED Promise!vars
  OBVIOUS
<1>t. TypeOK /\ ClaimsMatch
  BY DEF ClaimInv
<1>1. CASE UNCHANGED outboxVars
  BY <1>1 DEF outboxVars, Promise!vars
<1>2. ASSUME NEW e \in Events, EventOccurs(e) PROVE Promise!Next
  <2>1. Promise!Occur(e)
    BY <1>t, <1>2, MoveOne DEF EventOccurs, Promise!Occur, Promise!Move, Place, Status
  <2> QED
    BY <2>1 DEF Promise!Next
<1>3. ASSUME NEW p \in Processes, CommitClaim(p) PROVE Promise!Next
  <2> DEFINE e == disp[p].event
  <2>1. e \in Events /\ status[e] \in {"pending", "failed"}
    BY <1>t, <1>3 DEF CommitClaim, ClaimsMatch
  <2>2. Promise!Take(e)
    BY <1>t, <1>3, <2>1, MoveOne DEF CommitClaim, Promise!Take, Promise!Move, Place, Status
  <2> QED
    BY <2>1, <2>2 DEF Promise!Next
<1>4. ASSUME NEW p \in Processes, SendAccepted(p) \/ SendRefused(p)
      PROVE  Promise!Next \/ UNCHANGED Promise!vars
  <2> DEFINE e == disp[p].event
  <2>1. e \in Events /\ status[e] = "sending" /\ mails[e] = lost[e]
    BY <1>t, <1>4 DEF SendAccepted, SendRefused, ClaimsMatch, MailsMatch
  <2>2. CASE UNCHANGED <<mails, lost, status>>
    BY <2>2 DEF Promise!vars
  <2>3. ASSUME mails' = [mails EXCEPT ![e] = @ + 1], UNCHANGED status,
               lost' = lost \/ lost' = [lost EXCEPT ![e] = @ + 1]
        PROVE  Promise!Next
    <3>1. Promise!Mail(e)
      BY <2>1, <2>3 DEF Promise!Mail, Promise!Unconfirmed, Place
    <3> QED
      BY <2>1, <3>1 DEF Promise!Next
  <2> QED
    BY <1>4, <2>2, <2>3 DEF SendAccepted, SendRefused
<1>5. ASSUME NEW p \in Processes, MarkSent(p) PROVE Promise!Next
  <2> DEFINE e == disp[p].event
  <2>1. e \in Events /\ status[e] = "sending" /\ mails[e] = lost[e] + 1 /\ lost[e] \in Nat
    BY <1>t, <1>5 DEF MarkSent, ClaimsMatch, MailsMatch, TypeOK
  <2>2. ~Promise!Unconfirmed(e)
    BY <2>1 DEF Promise!Unconfirmed
  <2>3. Promise!Move(e, "hand", "sent")
    BY <1>t, <1>5, <2>1, MoveOne DEF MarkSent, Promise!Move, Place, Status
  <2>4. Promise!Finish(e)
    BY <2>2, <2>3 DEF Promise!Finish
  <2> QED
    BY <2>1, <2>4 DEF Promise!Next
<1>6. ASSUME NEW p \in Processes, MarkFailed(p) PROVE Promise!Next
  <2> DEFINE e == disp[p].event
  <2>1. e \in Events /\ status[e] = "sending" /\ mails[e] = lost[e]
    BY <1>t, <1>6 DEF MarkFailed, ClaimsMatch, MailsMatch
  <2>2. Promise!GiveBack(e)
    BY <1>t, <1>6, <2>1, MoveOne
       DEF MarkFailed, Promise!GiveBack, Promise!Move, Promise!Unconfirmed, Place, Status
  <2> QED
    BY <2>1, <2>2 DEF Promise!Next
<1> QED
  BY <1>1, <1>2, <1>3, <1>4, <1>5, <1>6
     DEF Next, Dispatch, DispatchStart, Lock, DispatchEnds, StoreFails, Crash, vars

\* The dispatchers of any number of processes implement the outbox, whatever crashes
\* and failed commits come between a claim, its mail and its record.
THEOREM DispatchersImplementOutbox == Spec => ImplementsOutbox
<1>1. ClaimInv /\ MailsMatch /\ [Next]_vars => [Promise!Next]_(Promise!vars)
  BY PromiseNext
<1> QED
  BY <1>1, PromiseInit, OutboxInvariant, PTL DEF Spec, ImplementsOutbox, Promise!Spec

-----------------------------------------------------------------------------
(* Only a fault leaves an event behind *)

StuckEvents == {e \in Events : Stuck(e)}

\* A fault leaves at most the event its process worked on.
LEMMA StuckByFault ==
    ASSUME TypeOK, NEW p \in Processes, StoreFails(p) \/ Crash(p)
    PROVE  StuckEvents' \subseteq StuckEvents \cup {disp[p].event}
  BY DEF TypeOK, StoreFails, Crash, StuckEvents, Stuck, Holds, outboxVars

\* No other step leaves one.
LEMMA StuckOtherwise ==
    ASSUME ClaimInv, [Next]_vars, \A p \in Processes : ~StoreFails(p) /\ ~Crash(p)
    PROVE  StuckEvents' \subseteq StuckEvents
<1> USE DEF ClaimInv, StuckEvents, Stuck, Holds
<1>1. CASE UNCHANGED vars
  BY <1>1 DEF vars, outboxVars
<1>2. ASSUME NEW e \in Events, EventOccurs(e) PROVE StuckEvents' \subseteq StuckEvents
  BY <1>2 DEF EventOccurs, TypeOK
<1>3. ASSUME NEW p \in Processes, DispatchStart(p) \/ DispatchEnds(p)
      PROVE  StuckEvents' \subseteq StuckEvents
  BY <1>3 DEF DispatchStart, DispatchEnds, Goto, Asleep, TypeOK, Dispatcher, outboxVars
<1>4. ASSUME NEW p \in Processes, Lock(p) PROVE StuckEvents' \subseteq StuckEvents
  BY <1>4 DEF Lock, TypeOK, Dispatcher, outboxVars
<1>5. ASSUME NEW p \in Processes, CommitClaim(p) PROVE StuckEvents' \subseteq StuckEvents
  BY <1>5 DEF CommitClaim, Goto, ClaimsMatch, TypeOK, Dispatcher
<1>6. ASSUME NEW p \in Processes, SendAccepted(p) \/ SendRefused(p)
      PROVE  StuckEvents' \subseteq StuckEvents
  BY <1>6 DEF SendAccepted, SendRefused, Goto, TypeOK, Dispatcher
<1>7. ASSUME NEW p \in Processes, MarkSent(p) \/ MarkFailed(p)
      PROVE  StuckEvents' \subseteq StuckEvents
  BY <1>7 DEF MarkSent, MarkFailed, Asleep, ClaimsMatch, TypeOK, Dispatcher
<1> QED
  BY <1>1, <1>2, <1>3, <1>4, <1>5, <1>6, <1>7 DEF Next, Dispatch

\* Each fault adds at most one stuck event.
LEMMA StuckNext == ClaimInv /\ StuckOnlyByFault /\ [Next]_vars => StuckOnlyByFault'
<1> SUFFICES ASSUME ClaimInv, StuckOnlyByFault, [Next]_vars PROVE StuckOnlyByFault'
  OBVIOUS
<1>1. IsFiniteSet(Events)
  BY NotificationAssumption, FS_Interval DEF Events
<1>2. IsFiniteSet(StuckEvents) /\ Cardinality(StuckEvents) \in Nat
  BY <1>1, FS_Subset, FS_CardinalityType DEF StuckEvents
<1>3. Cardinality(StuckEvents) <= faults /\ faults \in Nat
  BY DEF StuckOnlyByFault, StuckEvents, ClaimInv, TypeOK
<1>4. CASE \A p \in Processes : ~StoreFails(p) /\ ~Crash(p)
  <2>1. Cardinality(StuckEvents') <= Cardinality(StuckEvents)
    BY <1>2, <1>4, StuckOtherwise, FS_Subset
  <2>2. Cardinality(StuckEvents') \in Nat
    BY <1>2, <1>4, StuckOtherwise, FS_Subset, FS_CardinalityType
  <2>3. faults' = faults
    BY <1>4 DEF Next, Dispatch, EventOccurs, DispatchStart, Lock, CommitClaim, SendAccepted,
                SendRefused, MarkSent, MarkFailed, DispatchEnds, vars, boundVars
  <2> QED
    BY <1>3, <2>1, <2>2, <2>3, <1>2 DEF StuckOnlyByFault, StuckEvents
<1>5. ASSUME NEW p \in Processes, StoreFails(p) \/ Crash(p) PROVE StuckOnlyByFault'
  <2> DEFINE Bound == StuckEvents \cup {disp[p].event}
  <2>1. IsFiniteSet(Bound) /\ Cardinality(Bound) \in Nat
        /\ Cardinality(Bound) <= Cardinality(StuckEvents) + 1
    <3>1. IsFiniteSet(Bound)
      BY <1>2, FS_AddElement
    <3>2. \/ Cardinality(Bound) = Cardinality(StuckEvents)
          \/ Cardinality(Bound) = Cardinality(StuckEvents) + 1
      BY <1>2, FS_AddElement
    <3> QED
      BY <1>2, <3>1, <3>2
  <2>2. StuckEvents' \subseteq Bound
    BY <1>5, StuckByFault DEF ClaimInv
  <2>3. Cardinality(StuckEvents') <= Cardinality(Bound) /\ Cardinality(StuckEvents') \in Nat
    BY <2>1, <2>2, FS_Subset, FS_CardinalityType
  <2>4. faults' = faults + 1
    BY <1>5 DEF StoreFails, Crash
  <2> QED
    BY <1>2, <1>3, <2>1, <2>3, <2>4 DEF StuckOnlyByFault, StuckEvents
<1> QED
  BY <1>4, <1>5

\* An event stays in "sending" with nobody at it only by a crash or a failed commit,
\* and each leaves at most one behind.
THEOREM StuckNeedsFault == Spec => []StuckOnlyByFault
<1>1. Init => StuckOnlyByFault
  <2> SUFFICES ASSUME Init PROVE StuckOnlyByFault
    OBVIOUS
  <2>1. {e \in Events : Stuck(e)} = {}
    BY DEF Init, Stuck
  <2> QED
    BY <2>1, FS_EmptySet DEF Init, StuckOnlyByFault
<1>2. ClaimInv /\ StuckOnlyByFault /\ [Next]_vars => StuckOnlyByFault'
  BY StuckNext
<1> QED
  BY <1>1, <1>2, OutboxInvariant, PTL DEF Spec
============================================================================
