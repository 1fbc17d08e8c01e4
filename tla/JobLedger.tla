----------------------------- MODULE JobLedger -----------------------------
(***************************************************************************)
(* What the invoice queue promises its producers and its operator, without *)
(* consumer groups, leases, attempts or tasks: a ledger of entries.  An    *)
(* entry is published once, and taken off the list of open entries only if *)
(* its job was settled or a dead letter keeps its fields.  A dead letter   *)
(* is replayed once for each request, and not while an earlier replay of   *)
(* it is open.                                                             *)
(***************************************************************************)
EXTENDS Integers

CONSTANTS
    Jobs,        \* jobs that can be settled
    Garbage,     \* what an entry carries that is no job
    Requests,    \* replay requests of the operator
    NoRequest,   \* "published by a producer"
    Ids,         \* numbers of entries
    Letters      \* numbers of dead letters

VARIABLES
    entry,    \* what was published under each number
    added,    \* the last number given out
    open,     \* entries somebody still has to deal with
    settled,  \* jobs whose run was committed
    buried    \* entries a dead letter was written for

vars == <<entry, added, open, settled, buried>>

Init ==
    /\ \A i \in Ids : entry[i] = [job |-> Garbage, dlq |-> 0, req |-> NoRequest]
    /\ added = 0
    /\ open = {}
    /\ settled = {}
    /\ buried = {}

Add(e) ==
    /\ added + 1 \in Ids
    /\ added' = added + 1
    /\ entry' = [entry EXCEPT ![added + 1] = e]
    /\ open' = open \cup {added + 1}
    /\ UNCHANGED <<settled, buried>>

\* A producer's entry.
Publish(j) == Add([job |-> j, dlq |-> 0, req |-> NoRequest])

\* Nobody replayed the dead letter under this request, and no replay of it is
\* open.
MayReplay(d, r) ==
    /\ ~\E i \in 1..added : entry[i].dlq = d /\ entry[i].req = r
    /\ ~\E i \in open : entry[i].dlq = d

\* The operator's entry: a job that was buried is given another chance.
Replay(d, r) ==
    /\ MayReplay(d, r)
    /\ \E i \in buried : Add([job |-> entry[i].job, dlq |-> d, req |-> r])

\* A run of the job is committed, for the first time or again.
Settle(j) ==
    /\ settled' = settled \cup {j}
    /\ UNCHANGED <<entry, added, open, buried>>

\* A dead letter is written, possibly for an entry another worker dealt with.
Bury(i) ==
    /\ i \in 1..added
    /\ buried' = buried \cup {i}
    /\ open' = open \ {i}
    /\ UNCHANGED <<entry, added, settled>>

\* An entry is done with; its fate is on record.
Close(i) ==
    /\ i \in open
    /\ entry[i].job \in settled \/ i \in buried
    /\ open' = open \ {i}
    /\ UNCHANGED <<entry, added, settled, buried>>

Next ==
    \/ \E j \in Jobs \cup {Garbage} : Publish(j)
    \/ \E d \in Letters, r \in Requests : Replay(d, r)
    \/ \E j \in Jobs : Settle(j)
    \/ \E i \in Ids : Bury(i) \/ Close(i)

Spec == Init /\ [][Next]_vars
=============================================================================
