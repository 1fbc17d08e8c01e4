-------------------------- MODULE GmailPollerProofs --------------------------
(***************************************************************************)
(* Proofs about GmailPoller, for every number of polls, messages and       *)
(* attachments.                                                            *)
(***************************************************************************)
EXTENDS GmailPoller, TLAPS

\* A poll inside a message has queued the attachments before the one it is at, and
\* all of them once it is about to mark the message.
PollsSound ==
    \A x \in Polls :
        /\ poll[x].pc \in {"enqueue", "mark"} =>
              /\ poll[x].msg \in Messages
              /\ poll[x].part \in 1..mail[poll[x].msg].parts
              /\ \A i \in Parts : i < poll[x].part => queued[poll[x].msg][i] > 0
        /\ poll[x].pc = "mark" =>
              \A i \in 1..mail[poll[x].msg].parts : queued[poll[x].msg][i] > 0

\* A key that exists stands for an entry that was added, one more than the lives it
\* has had.
KeysSound ==
    \A m \in Messages, i \in Parts :
        /\ i \in keys[m] => queued[m][i] > 0 /\ queued[m][i] <= 1 + expired[m][i]
        /\ i \notin keys[m] => queued[m][i] <= expired[m][i]

PollInv == TypeOK /\ PollsSound /\ KeysSound /\ ReadMeansQueued

\* Nothing has happened.
LEMMA InitInv == Init => PollInv
  BY PollerAssumption
     DEF Init, PollInv, TypeOK, PollsSound, KeysSound, ReadMeansQueued, Messages, Parts, Poll,
         NoPoll, Mail

\* What a message holds lies within the bound.
LEMMA MailParts ==
    ASSUME TypeOK, NEW m \in Messages
    PROVE  /\ mail[m].parts \in 0..MaxParts
           /\ mail[m].bad \in 0..MaxParts
           /\ 1..mail[m].parts \subseteq Parts
  BY PollerAssumption DEF TypeOK, Mail, Parts

\* One enqueue_job keeps the types and the meaning of keys, never takes an entry
\* back, and leaves the attachment with one.
LEMMA EnqueueOne ==
    ASSUME TypeOK, KeysSound, NEW m \in Messages, NEW i \in Parts, Enqueue(m, i),
           expired' = expired
    PROVE  /\ keys' \in [Messages -> SUBSET Parts]
           /\ queued' \in [Messages -> [Parts -> Nat]]
           /\ KeysSound'
           /\ queued'[m][i] > 0
           /\ \A n \in Messages, k \in Parts : queued[n][k] > 0 => queued'[n][k] > 0
<1>1. CASE i \in keys[m]
  BY <1>1 DEF Enqueue, queueVars, TypeOK, KeysSound
<1>2. CASE i \notin keys[m]
  <2>1. /\ keys' = [keys EXCEPT ![m] = @ \cup {i}]
        /\ queued' = [queued EXCEPT ![m][i] = @ + 1]
    BY <1>2 DEF Enqueue
  <2>2. /\ queued[m] \in [Parts -> Nat] /\ queued[m][i] \in Nat
        /\ expired[m] \in [Parts -> Nat] /\ expired[m][i] \in Nat
    BY DEF TypeOK
  <2>3. keys' \in [Messages -> SUBSET Parts] /\ queued' \in [Messages -> [Parts -> Nat]]
    BY <2>1, <2>2 DEF TypeOK
  <2>4. queued'[m][i] = queued[m][i] + 1 /\ keys'[m] = keys[m] \cup {i}
    BY <2>1, <2>2 DEF TypeOK
  <2>5. \A n \in Messages, k \in Parts :
           n # m \/ k # i => queued'[n][k] = queued[n][k] /\ (k \in keys'[n] <=> k \in keys[n])
    BY <2>1, <2>2 DEF TypeOK
  <2>6. KeysSound'
    <3> SUFFICES ASSUME NEW n \in Messages, NEW k \in Parts
                 PROVE  /\ k \in keys'[n] => /\ queued'[n][k] > 0
                                             /\ queued'[n][k] <= 1 + expired[n][k]
                        /\ k \notin keys'[n] => queued'[n][k] <= expired[n][k]
      BY DEF KeysSound
    <3>1. CASE n = m /\ k = i
      BY <3>1, <1>2, <2>2, <2>4 DEF KeysSound
    <3>2. CASE n # m \/ k # i
      BY <3>2, <2>5 DEF KeysSound
    <3> QED
      BY <3>1, <3>2
  <2>7. \A n \in Messages, k \in Parts : queued[n][k] > 0 => queued'[n][k] > 0
    BY <2>2, <2>4, <2>5
  <2> QED
    BY <2>2, <2>3, <2>4, <2>6, <2>7
<1> QED
  BY <1>1, <1>2

\* Entries that stay keep what is read queued.
LEMMA QueuedStays ==
    ASSUME PollInv, UNCHANGED <<mail, arrived, unread>>,
           \A n \in Messages, i \in Parts : queued[n][i] > 0 => queued'[n][i] > 0
    PROVE  ReadMeansQueued'
<1> SUFFICES ASSUME NEW m \in (1..arrived) \ unread, NEW i \in 1..mail[m].parts
             PROVE  queued'[m][i] > 0
  BY DEF ReadMeansQueued
<1>1. m \in Messages
  BY PollerAssumption DEF PollInv, TypeOK, Messages
<1>2. i \in Parts
  BY <1>1, MailParts DEF PollInv
<1> QED
  BY <1>1, <1>2 DEF PollInv, ReadMeansQueued

\* A step of poll x that leaves mailbox and queue alone and is not inside a message
\* afterwards keeps the invariant.
LEMMA QuietStep ==
    ASSUME PollInv, NEW x \in Polls, NEW p \in Poll, p.pc \notin {"enqueue", "mark"},
           poll' = [poll EXCEPT ![x] = p],
           UNCHANGED <<mail, arrived, unread, queueVars, expired, expiries>>,
           faults' \in 0..MaxFaults
    PROVE  PollInv'
  BY DEF PollInv, TypeOK, PollsSound, KeysSound, ReadMeansQueued, queueVars

\* The empty poll is a poll.
LEMMA NoPollType == NoPoll \in Poll
  BY PollerAssumption DEF NoPoll, Poll

\* Every step keeps the invariant.
LEMMA NextInv == PollInv /\ [Next]_vars => PollInv'
<1> SUFFICES ASSUME PollInv, [Next]_vars PROVE PollInv'
  OBVIOUS
<1> USE PollerAssumption DEF PollInv
<1>1. CASE UNCHANGED vars
  BY <1>1 DEF TypeOK, PollsSound, KeysSound, ReadMeansQueued, vars, queueVars
<1>2. CASE Arrive
  BY <1>2 DEF Arrive, TypeOK, PollsSound, KeysSound, ReadMeansQueued, queueVars, Messages
<1>3. ASSUME NEW x \in Polls, PollStarts(x) PROVE PollInv'
  <2>1. [NoPoll EXCEPT !.pc = "list"] \in Poll
    BY DEF NoPoll, Poll
  <2> QED
    BY <1>3, <2>1, QuietStep DEF PollStarts, NoPoll, TypeOK
<1>4. ASSUME NEW x \in Polls, ListUnread(x) PROVE PollInv'
  <2> DEFINE p == [poll[x] EXCEPT !.pc = "message", !.todo = Page]
  <2>1. p \in Poll /\ p.pc = "message"
    <3>1. poll[x] \in Poll
      BY DEF TypeOK
    <3>2. unread \subseteq Messages
      BY DEF TypeOK, Messages
    <3>3. Page \in SUBSET Messages
      BY <3>2 DEF Page
    <3> HIDE DEF Page
    <3> QED
      BY <3>1, <3>3 DEF Poll
  <2>2. poll' = [poll EXCEPT ![x] = p]
    BY <1>4 DEF ListUnread
  <2> QED
    BY <1>4, <2>1, <2>2, QuietStep DEF ListUnread, TypeOK
<1>5. ASSUME NEW x \in Polls, Download(x) PROVE PollInv'
  <2>1. PICK m \in Messages :
           /\ IsNext(x, m)
           /\ poll' = [poll EXCEPT ![x] =
                         IF mail[m].parts = 0 THEN Skip(x, m)
                         ELSE [poll[x] EXCEPT !.pc = "enqueue", !.msg = m, !.part = 1]]
    BY <1>5 DEF Download
  <2>2. poll[x] \in Poll
    BY DEF TypeOK
  <2>3. CASE mail[m].parts = 0
    <3>1. Skip(x, m) \in Poll /\ Skip(x, m).pc = "message"
      BY <2>1, <2>2 DEF Skip, Poll, IsNext
    <3> QED
      BY <1>5, <2>1, <2>3, <3>1, QuietStep DEF Download, TypeOK
  <2>4. CASE mail[m].parts # 0
    <3> DEFINE p == [poll[x] EXCEPT !.pc = "enqueue", !.msg = m, !.part = 1]
    <3>1. mail[m].parts \in 1..MaxParts
      BY <2>2, <2>4, MailParts
    <3>2. p \in Poll /\ p.pc = "enqueue" /\ p.msg = m /\ p.part = 1
      <4>1. 1 \in 0..MaxParts
        BY <3>1
      <4> QED
        BY <2>2, <4>1 DEF Poll
    <3>3. poll' = [poll EXCEPT ![x] = p]
      BY <2>1, <2>4
    <3>4. UNCHANGED <<mail, arrived, unread, queueVars, expired, expiries, faults>>
      BY <1>5 DEF Download
    <3>5. TypeOK' /\ KeysSound' /\ ReadMeansQueued'
      BY <3>2, <3>3, <3>4 DEF TypeOK, KeysSound, ReadMeansQueued, queueVars
    <3>6. PollsSound'
      BY <2>2, <3>1, <3>2, <3>3, <3>4 DEF PollsSound, TypeOK, queueVars, Parts
    <3> QED
      BY <3>5, <3>6
  <2> QED
    BY <2>3, <2>4
<1>6. ASSUME NEW x \in Polls, EnqueuePart(x) PROVE PollInv'
  <2> DEFINE m == poll[x].msg
             k == poll[x].part
  <2>1. m \in Messages /\ k \in 1..mail[m].parts /\ k \in Parts /\ poll[x] \in Poll
    <3>1. m \in Messages /\ k \in 1..mail[m].parts
      BY <1>6 DEF EnqueuePart, Accepted, PollsSound
    <3> QED
      BY <3>1, MailParts DEF TypeOK
  <2>2. /\ UNCHANGED <<mail, arrived, unread, expired, expiries, faults>>
        /\ Enqueue(m, k)
    BY <1>6 DEF EnqueuePart
  <2>3. /\ keys' \in [Messages -> SUBSET Parts]
        /\ queued' \in [Messages -> [Parts -> Nat]]
        /\ KeysSound'
        /\ queued'[m][k] > 0
        /\ \A n \in Messages, i \in Parts : queued[n][i] > 0 => queued'[n][i] > 0
    BY <2>1, <2>2, EnqueueOne
  <2>4. AfterPart(x) \in Poll /\ poll' = [poll EXCEPT ![x] = AfterPart(x)]
    <3>1. mail[m].parts \in 0..MaxParts
      BY <2>1, MailParts
    <3> QED
      BY <1>6, <2>1, <3>1 DEF EnqueuePart, AfterPart, Poll
  <2>5. TypeOK'
    BY <2>2, <2>3, <2>4 DEF TypeOK
  <2>6. ReadMeansQueued'
    BY <2>2, <2>3, QueuedStays
  <2>7. /\ AfterPart(x).msg = m
        /\ AfterPart(x).pc \in {"enqueue", "mark"}
        /\ AfterPart(x).pc = "mark" => AfterPart(x).part = k /\ k = mail[m].parts
        /\ AfterPart(x).pc = "enqueue" => AfterPart(x).part = k + 1 /\ k # mail[m].parts
    BY <1>6, <2>1 DEF AfterPart, EnqueuePart, Accepted, Poll
  <2>8. \A i \in Parts : i <= k => queued'[m][i] > 0
    <3>1. \A i \in Parts : i < k => queued[m][i] > 0
      BY <1>6 DEF EnqueuePart, Accepted, PollsSound
    <3>2. queued'[m][k] > 0
      BY <2>3
    <3>3. \A i \in Parts : i < k => queued'[m][i] > 0
      BY <2>1, <2>3, <3>1
    <3>4. k \in Int /\ \A i \in Parts : i \in Int
      BY <2>1 DEF Parts
    <3>5. \A i \in Parts : i <= k => i < k \/ i = k
      <4> HIDE DEF k
      <4> QED
        BY <3>4
    <3> QED
      BY <3>2, <3>3, <3>5
  <2>9. PollsSound'
    <3> SUFFICES ASSUME NEW y \in Polls
                 PROVE  /\ poll'[y].pc \in {"enqueue", "mark"} =>
                             /\ poll'[y].msg \in Messages
                             /\ poll'[y].part \in 1..mail[poll'[y].msg].parts
                             /\ \A i \in Parts :
                                   i < poll'[y].part => queued'[poll'[y].msg][i] > 0
                        /\ poll'[y].pc = "mark" =>
                             \A i \in 1..mail[poll'[y].msg].parts :
                                 queued'[poll'[y].msg][i] > 0
      BY <2>2 DEF PollsSound
    <3>1. CASE y = x
      <4>1. poll'[y] = AfterPart(x)
        BY <2>4, <3>1 DEF TypeOK
      <4>2. mail[m].parts \in 0..MaxParts /\ 1..mail[m].parts \subseteq Parts
        BY <2>1, MailParts
      <4>3. CASE AfterPart(x).pc = "mark"
        BY <2>1, <2>7, <2>8, <4>1, <4>2, <4>3 DEF Parts
      <4>4. CASE AfterPart(x).pc = "enqueue"
        BY <2>1, <2>7, <2>8, <4>1, <4>2, <4>4 DEF Parts
      <4> QED
        BY <2>7, <4>3, <4>4
    <3>2. CASE y # x
      <4>1. poll'[y] = poll[y]
        BY <2>4, <3>2 DEF TypeOK
      <4>2. poll[y].pc \in {"enqueue", "mark"} => 1..mail[poll[y].msg].parts \subseteq Parts
        BY MailParts DEF PollsSound
      <4> QED
        BY <2>3, <4>1, <4>2 DEF PollsSound
    <3> QED
      BY <3>1, <3>2
  <2> QED
    BY <2>3, <2>5, <2>6, <2>9
<1>7. ASSUME NEW x \in Polls, RejectPart(x) \/ DownloadRaises(x) PROVE PollInv'
  BY <1>7, NoPollType, QuietStep DEF RejectPart, DownloadRaises, NoPoll, TypeOK
<1>8. ASSUME NEW x \in Polls, NEW p \in Poll, p.pc \notin {"enqueue", "mark"},
             poll[x].pc = "mark", unread' = unread \ {poll[x].msg},
             poll' = [poll EXCEPT ![x] = p], faults' \in 0..MaxFaults,
             UNCHANGED <<mail, arrived, queueVars, expired, expiries>>
      PROVE  PollInv'
  <2>1. TypeOK' /\ PollsSound' /\ KeysSound'
    BY <1>8 DEF TypeOK, PollsSound, KeysSound, queueVars
  <2>2. ReadMeansQueued'
    BY <1>8 DEF ReadMeansQueued, PollsSound, queueVars
  <2> QED
    BY <2>1, <2>2
<1>9. ASSUME NEW x \in Polls, MarkRead(x) PROVE PollInv'
  <2> DEFINE p == [NoPoll EXCEPT !.pc = "message", !.todo = poll[x].todo \ {poll[x].msg}]
  <2>1. p \in Poll /\ p.pc = "message"
    <3>1. poll[x] \in Poll
      BY DEF TypeOK
    <3>2. poll[x].todo \ {poll[x].msg} \in SUBSET Messages
      <4>1. \A n \in poll[x].todo : n \in Messages
        BY <3>1 DEF Poll
      <4> QED
        BY <4>1
    <3> QED
      BY <3>2, NoPollType DEF Poll
  <2> QED
    BY <1>8, <1>9, <2>1 DEF MarkRead, TypeOK
<1>10. ASSUME NEW x \in Polls, PollEnds(x) PROVE PollInv'
  BY <1>10, NoPollType, QuietStep DEF PollEnds, NoPoll, TypeOK
<1>11. ASSUME NEW x \in Polls, CallFails(x) PROVE PollInv'
  <2>1. /\ faults' \in 0..MaxFaults
        /\ poll' = [poll EXCEPT ![x] = NoPoll]
        /\ UNCHANGED <<mail, arrived, expired, expiries>>
    BY <1>11 DEF CallFails, TypeOK
  <2>2. NoPoll \in Poll /\ NoPoll.pc = "off"
    BY NoPollType DEF NoPoll
  <2>3. CASE UNCHANGED <<unread, queueVars>>
    BY <2>1, <2>2, <2>3, QuietStep
  <2>4. CASE Accepted(x) /\ Enqueue(poll[x].msg, poll[x].part) /\ UNCHANGED unread
    <3>1. poll[x].msg \in Messages /\ poll[x].part \in Parts
      BY <2>4, MailParts DEF Accepted, PollsSound
    <3>2. /\ keys' \in [Messages -> SUBSET Parts]
          /\ queued' \in [Messages -> [Parts -> Nat]]
          /\ KeysSound'
          /\ \A n \in Messages, i \in Parts : queued[n][i] > 0 => queued'[n][i] > 0
      BY <2>1, <2>4, <3>1, EnqueueOne
    <3>3. TypeOK'
      BY <2>1, <2>2, <2>4, <3>2 DEF TypeOK
    <3>4. ReadMeansQueued'
      BY <2>1, <2>4, <3>2, QueuedStays
    <3>5. \A y \in Polls : poll[y].pc \in {"enqueue", "mark"} =>
             1..mail[poll[y].msg].parts \subseteq Parts
      BY MailParts DEF PollsSound
    <3>6. PollsSound'
      BY <2>1, <2>2, <3>2, <3>5 DEF PollsSound, TypeOK
    <3> QED
      BY <3>2, <3>3, <3>4, <3>6
  <2>5. CASE poll[x].pc = "mark" /\ unread' = unread \ {poll[x].msg} /\ UNCHANGED queueVars
    BY <1>8, <2>1, <2>2, <2>5
  <2> QED
    BY <1>11, <2>3, <2>4, <2>5 DEF CallFails
<1>12. ASSUME NEW m \in Messages, NEW i \in Parts, KeyExpires(m, i) PROVE PollInv'
  <2>1. /\ keys[m] \in SUBSET Parts
        /\ expired[m] \in [Parts -> Nat] /\ expired[m][i] \in Nat
    BY DEF TypeOK
  <2>2. TypeOK'
    BY <1>12, <2>1 DEF KeyExpires, TypeOK
  <2>3. /\ expired'[m][i] = expired[m][i] + 1 /\ i \notin keys'[m] /\ i \in keys[m]
        /\ \A n \in Messages, k \in Parts :
             n # m \/ k # i => /\ expired'[n][k] = expired[n][k]
                               /\ k \in keys'[n] <=> k \in keys[n]
        /\ queued' = queued
    BY <1>12, <2>1 DEF KeyExpires, TypeOK
  <2>4. KeysSound'
    BY <2>1, <2>3 DEF KeysSound, TypeOK
  <2>5. PollsSound' /\ ReadMeansQueued'
    BY <1>12 DEF KeyExpires, PollsSound, ReadMeansQueued
  <2> QED
    BY <2>2, <2>4, <2>5
<1> QED
  BY <1>1, <1>2, <1>3, <1>4, <1>5, <1>6, <1>7, <1>9, <1>10, <1>11, <1>12 DEF Next, PollStep

\* The invariant holds in every reachable state.
LEMMA PollInvariant == Spec => []PollInv
  BY InitInv, NextInv, PTL DEF Spec

\* Every variable of the poller keeps its type.
THEOREM PollerTypes == Spec => []TypeOK
  BY PollInvariant, PTL DEF PollInv

\* No message loses its UNREAD label before all its attachments are in the stream,
\* for any number of overlapping and failing polls.
THEOREM NoAttachmentIsLost == Spec => []ReadMeansQueued
  BY PollInvariant, PTL DEF PollInv

\* An attachment is added once for each life of its dedupe key, for any number of
\* overlapping and repeated polls.
THEOREM NoAttachmentTwice == Spec => []QueuedOnce
<1>1. PollInv => QueuedOnce
  BY DEF PollInv, KeysSound, QueuedOnce, TypeOK
<1> QED
  BY <1>1, PollInvariant, PTL
==============================================================================
