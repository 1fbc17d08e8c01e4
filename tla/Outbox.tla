------------------------------- MODULE Outbox -------------------------------
(***************************************************************************)
(* What the notifications promise, without processes, locks or crashes:    *)
(* each event falls due once, is in hand while somebody deals with it, and *)
(* is mailed at most once more often than Gmail left the sender in doubt.  *)
(* It comes out of somebody's hands as sent only if a mail was confirmed,  *)
(* and back to the due ones only if none was; or it never does.            *)
(***************************************************************************)
EXTENDS Integers

CONSTANT Events

VARIABLES
    place,     \* where each event is: "none", "due", "hand" or "sent"
    mails,     \* mails that left
    doubtful   \* those among them the sender took for refused

vars == <<place, mails, doubtful>>

Init ==
    /\ place = [e \in Events |-> "none"]
    /\ mails = [e \in Events |-> 0]
    /\ doubtful = [e \in Events |-> 0]

\* No mail of the event was confirmed.
Unconfirmed(e) == mails[e] = doubtful[e]

Move(e, from, to) ==
    /\ place[e] = from
    /\ place' = [place EXCEPT ![e] = to]
    /\ UNCHANGED <<mails, doubtful>>

Occur(e) == Move(e, "none", "due")

Take(e) == Move(e, "due", "hand")

\* The mail leaves, and the sender knows or does not.
Mail(e) ==
    /\ place[e] = "hand"
    /\ Unconfirmed(e)
    /\ mails' = [mails EXCEPT ![e] = @ + 1]
    /\ \/ UNCHANGED doubtful
       \/ doubtful' = [doubtful EXCEPT ![e] = @ + 1]
    /\ UNCHANGED place

Finish(e) == ~Unconfirmed(e) /\ Move(e, "hand", "sent")

GiveBack(e) == Unconfirmed(e) /\ Move(e, "hand", "due")

Next ==
    \E e \in Events : Occur(e) \/ Take(e) \/ Mail(e) \/ Finish(e) \/ GiveBack(e)

Spec == Init /\ [][Next]_vars
=============================================================================
