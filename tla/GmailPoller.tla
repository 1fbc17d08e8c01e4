----------------------------- MODULE GmailPoller -----------------------------
(***************************************************************************)
(* From the mailbox to the stream: poll_inbox lists the unread messages,   *)
(* enqueues every supported attachment of each and then marks the message  *)
(* read.  The scheduler of every API process polls, and so does every      *)
(* POST /gmail/poll, all against one mailbox and one stream.               *)
(*                                                                         *)
(* Nothing but the UNREAD label and the dedupe keys says what was done: a  *)
(* poll that ends early leaves no other trace.                             *)
(***************************************************************************)
EXTENDS Integers, FiniteSets

CONSTANTS
    Schedulers,   \* gmail_poll_scheduler tasks
    Requests,     \* POST /gmail/poll requests
    Mails,        \* what messages may hold
    PageSize,     \* maxResults of the list call
    MaxMessages,  \* bound: messages that arrive
    MaxParts,     \* bound: supported attachments of one message
    MaxExpiries,  \* bound: expiries of dedupe keys
    MaxFaults     \* bound: Gmail and Redis calls that raise, and crashes

(* A message: how many supported attachments it has, which of them (0 for none)
   InvoiceJobEnvelope rejects, an empty or an oversized file, and whether one of
   them cannot be downloaded at all: a response without data, or data that does
   not decode. *)
Mail == {k \in [parts : 0..MaxParts, bad : 0..MaxParts, broken : BOOLEAN] :
            k.bad <= k.parts /\ (k.broken => k.parts > 0)}

ASSUME PollerAssumption ==
    /\ Mails \subseteq Mail
    /\ PageSize \in Nat \ {0}
    /\ MaxMessages \in Nat
    /\ MaxParts \in Nat
    /\ MaxExpiries \in Nat
    /\ MaxFaults \in Nat

Polls == Schedulers \cup Requests

\* Messages are numbered as they arrive; Gmail lists the newest first.
Messages == 1..MaxMessages
Parts == 1..MaxParts

Poll == [pc : {"off", "list", "message", "enqueue", "mark"},
         todo : SUBSET Messages, msg : Messages \cup {0}, part : 0..MaxParts]

NoPoll == [pc |-> "off", todo |-> {}, msg |-> 0, part |-> 0]

VARIABLES
    mail,     \* what every message holds
    arrived,  \* messages so far
    unread,   \* messages with the UNREAD label
    keys,     \* keys[m]: attachments of m whose dedupe key exists
    queued,   \* queued[m][i]: stream entries ever added for attachment i of m
    poll,     \* poll[x]: one poll_inbox
    expired,  \* expired[m][i]: expiries of that attachment's key
    expiries,
    faults

queueVars == <<keys, queued>>
vars == <<mail, arrived, unread, queueVars, poll, expired, expiries, faults>>

\* Types of all variables.
TypeOK ==
    /\ mail \in [Messages -> Mails]
    /\ arrived \in 0..MaxMessages
    /\ unread \subseteq 1..arrived
    /\ keys \in [Messages -> SUBSET Parts]
    /\ queued \in [Messages -> [Parts -> Nat]]
    /\ poll \in [Polls -> Poll]
    /\ expired \in [Messages -> [Parts -> Nat]]
    /\ expiries \in 0..MaxExpiries
    /\ faults \in 0..MaxFaults

Init ==
    /\ mail \in [Messages -> Mails]
    /\ arrived = 0
    /\ unread = {}
    /\ keys = [m \in Messages |-> {}]
    /\ queued = [m \in Messages |-> [i \in Parts |-> 0]]
    /\ poll = [x \in Polls |-> NoPoll]
    /\ expired = [m \in Messages |-> [i \in Parts |-> 0]]
    /\ expiries = 0
    /\ faults = 0

-----------------------------------------------------------------------------

\* A message with attachments reaches the inbox.
Arrive ==
    /\ arrived < MaxMessages
    /\ arrived' = arrived + 1
    /\ unread' = unread \cup {arrived + 1}
    /\ UNCHANGED <<mail, queueVars, poll, expired, expiries, faults>>

\* The scheduler's next cadence, or a request.
PollStarts(x) ==
    /\ poll[x].pc = "off"
    /\ poll' = [poll EXCEPT ![x] = [NoPoll EXCEPT !.pc = "list"]]
    /\ UNCHANGED <<mail, arrived, unread, queueVars, expired, expiries, faults>>

\* The newest unread messages, at most a page of them.
Page == {m \in unread : Cardinality({n \in unread : n > m}) < PageSize}

\* _list_unread_messages
ListUnread(x) ==
    /\ poll[x].pc = "list"
    /\ poll' = [poll EXCEPT ![x].pc = "message", ![x].todo = Page]
    /\ UNCHANGED <<mail, arrived, unread, queueVars, expired, expiries, faults>>

\* Mutant: a message without supported attachments ends the poll.
SkipMutant(x, m) == NoPoll

\* A message without supported attachments stays unread.
Skip(x, m) == [poll[x] EXCEPT !.todo = @ \ {m}]

\* The message the loop comes to next.
IsNext(x, m) ==
    /\ poll[x].pc = "message"
    /\ m \in poll[x].todo
    /\ \A n \in poll[x].todo : n <= m

\* _download_supported_attachments fetches them all before the first is enqueued.
Download(x) ==
    /\ \E m \in Messages :
          /\ IsNext(x, m) /\ ~mail[m].broken
          /\ poll' = [poll EXCEPT ![x] =
                        IF mail[m].parts = 0 THEN Skip(x, m)
                        ELSE [@ EXCEPT !.pc = "enqueue", !.msg = m, !.part = 1]]
    /\ UNCHANGED <<mail, arrived, unread, queueVars, expired, expiries, faults>>

\* Fetching or decoding an attachment raises, each time, and with it the whole poll.
DownloadRaises(x) ==
    /\ \E m \in Messages : IsNext(x, m) /\ mail[m].broken
    /\ poll' = [poll EXCEPT ![x] = NoPoll]
    /\ UNCHANGED <<mail, arrived, unread, queueVars, expired, expiries, faults>>

\* Mutant: the key is set and not looked at.
EnqueueMutant(m, i) ==
    /\ keys' = [keys EXCEPT ![m] = @ \cup {i}]
    /\ queued' = [queued EXCEPT ![m][i] = @ + 1]

\* enqueue_job: key and entry together, or neither.
Enqueue(m, i) ==
    IF i \in keys[m] THEN UNCHANGED queueVars
    ELSE /\ keys' = [keys EXCEPT ![m] = @ \cup {i}]
         /\ queued' = [queued EXCEPT ![m][i] = @ + 1]

Accepted(x) ==
    /\ poll[x].pc = "enqueue"
    /\ poll[x].part # mail[poll[x].msg].bad

\* Mutant: the message is marked one attachment too early.
AfterPartMutant(x) ==
    IF poll[x].part + 1 >= mail[poll[x].msg].parts
    THEN [poll[x] EXCEPT !.pc = "mark"]
    ELSE [poll[x] EXCEPT !.part = @ + 1]

AfterPart(x) ==
    IF poll[x].part = mail[poll[x].msg].parts
    THEN [poll[x] EXCEPT !.pc = "mark"]
    ELSE [poll[x] EXCEPT !.part = @ + 1]

EnqueuePart(x) ==
    /\ Accepted(x)
    /\ Enqueue(poll[x].msg, poll[x].part)
    /\ poll' = [poll EXCEPT ![x] = AfterPart(x)]
    /\ UNCHANGED <<mail, arrived, unread, expired, expiries, faults>>

\* The envelope's validation raises, and with it the whole poll.
RejectPart(x) ==
    /\ poll[x].pc = "enqueue"
    /\ poll[x].part = mail[poll[x].msg].bad
    /\ poll' = [poll EXCEPT ![x] = NoPoll]
    /\ UNCHANGED <<mail, arrived, unread, queueVars, expired, expiries, faults>>

\* _mark_message_read
MarkRead(x) ==
    /\ poll[x].pc = "mark"
    /\ unread' = unread \ {poll[x].msg}
    /\ poll' = [poll EXCEPT ![x] = [NoPoll EXCEPT !.pc = "message",
                                                  !.todo = poll[x].todo \ {poll[x].msg}]]
    /\ UNCHANGED <<mail, arrived, queueVars, expired, expiries, faults>>

PollEnds(x) ==
    /\ poll[x].pc = "message"
    /\ poll[x].todo = {}
    /\ poll' = [poll EXCEPT ![x] = NoPoll]
    /\ UNCHANGED <<mail, arrived, unread, queueVars, expired, expiries, faults>>

\* A call raises or the process dies, with the effect of the call or without it.
CallFails(x) ==
    /\ poll[x].pc # "off"
    /\ faults < MaxFaults
    /\ faults' = faults + 1
    /\ poll' = [poll EXCEPT ![x] = NoPoll]
    /\ \/ UNCHANGED <<unread, queueVars>>
       \/ /\ Accepted(x)
          /\ Enqueue(poll[x].msg, poll[x].part)
          /\ UNCHANGED unread
       \/ /\ poll[x].pc = "mark"
          /\ unread' = unread \ {poll[x].msg}
          /\ UNCHANGED queueVars
    /\ UNCHANGED <<mail, arrived, expired, expiries>>

\* A dedupe key's time to live ends.
KeyExpires(m, i) ==
    /\ i \in keys[m]
    /\ expiries < MaxExpiries
    /\ expiries' = expiries + 1
    /\ expired' = [expired EXCEPT ![m][i] = @ + 1]
    /\ keys' = [keys EXCEPT ![m] = @ \ {i}]
    /\ UNCHANGED <<mail, arrived, unread, queued, poll, faults>>

PollStep(x) ==
    \/ PollStarts(x) \/ ListUnread(x) \/ Download(x) \/ DownloadRaises(x)
    \/ EnqueuePart(x) \/ RejectPart(x) \/ MarkRead(x) \/ PollEnds(x)

Next ==
    \/ Arrive
    \/ \E x \in Polls : PollStep(x) \/ CallFails(x)
    \/ \E m \in Messages, i \in Parts : KeyExpires(m, i)

Spec == Init /\ [][Next]_vars

\* The schedulers poll for ever; requests owe nothing.
FairSpec == Spec /\ \A x \in Schedulers : WF_vars(PollStep(x))

-----------------------------------------------------------------------------
(* Properties *)

\* A message loses its UNREAD label only when every supported attachment of it
\* was added to the stream, by this poll or by another one, before or after a
\* failed one: no attachment is lost between the mailbox and the queue.
ReadMeansQueued ==
    \A m \in (1..arrived) \ unread : \A i \in 1..mail[m].parts : queued[m][i] > 0

\* Polls that overlap or that repeat what a failed one did add an attachment once
\* for each life of its dedupe key.
QueuedOnce == \A m \in Messages, i \in Parts : queued[m][i] <= 1 + expired[m][i]

Newer(m) == {n \in Messages : n > m}

\* Nothing newer fills the page for good, or ends every poll before it reaches m.
Served(m) ==
    /\ mail[m].parts > 0
    /\ \A n \in Newer(m) \cup {m} : mail[n].bad = 0 /\ ~mail[n].broken
    /\ Cardinality({n \in Newer(m) : mail[n].parts = 0}) < PageSize

\* Every message with supported attachments is worked off in the end, whatever
\* fails on the way.  Only three things keep one waiting for ever: an attachment
\* that can never be downloaded and one the envelope rejects, in it or in a newer
\* message, and a page full of newer messages without supported attachments.
EveryMessageServed == \A m \in Messages : m \in unread /\ Served(m) ~> m \notin unread
==============================================================================
