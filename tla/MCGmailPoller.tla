---------------------------- MODULE MCGmailPoller ----------------------------
(* Instances of GmailPoller for TLC. *)
EXTENDS GmailPoller

Holding(parts, bad, broken) == [parts |-> parts, bad |-> bad, broken |-> broken]

\* Two attachments that are accepted, none, a second one that is rejected, and one
\* that cannot be downloaded.
MCMails == {Holding(2, 0, FALSE), Holding(0, 0, FALSE), Holding(2, 2, FALSE),
            Holding(1, 0, TRUE)}
==============================================================================
