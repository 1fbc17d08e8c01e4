--------------------------- MODULE WorkflowRuns ---------------------------
(***************************************************************************)
(* One workflow run: its row in PostgreSQL, its LangGraph checkpoint, the  *)
(* rows that reference it, and every process that drives it: deliveries of *)
(* its queue entry (_run_workflow_for_job), the request that uploaded it   *)
(* (run_workflow) and the reviewers' requests (decide_review).             *)
(*                                                                         *)
(* All state is keyed by run_id, so runs are independent.  A graph node    *)
(* and the checkpoint written after it are one step; an invocation that    *)
(* dies loses its in-memory graph state and keeps the last checkpoint.     *)
(* The queue is reduced to what a run sees of it while leases hold: one    *)
(* delivery at a time (ExclusiveDelivery of InvoiceDelivery).              *)
(***************************************************************************)
EXTENDS Integers, FiniteSets

CONSTANTS
    Deliveries,     \* worker tasks that may work on the run
    Uploader,       \* the request that created an uploaded run
    Reviewers,      \* review requests
    NoOne,          \* nobody holds the row lock
    MaxAttempts,    \* INVOICE_MAX_ATTEMPTS
    MaxDeliveries,  \* bound: deliveries of one queue entry
    MaxReplays,     \* bound: operator replays
    MaxFaults       \* bound: crashes and failed store calls

ASSUME RunsAssumption ==
    /\ Deliveries \cap Reviewers = {}
    /\ Uploader \notin Deliveries \cup Reviewers
    /\ NoOne \notin Reviewers
    /\ MaxAttempts \in Nat \ {0}
    /\ MaxDeliveries \in Nat
    /\ MaxReplays \in Nat
    /\ MaxFaults \in Nat

Decisions == {"approved", "rejected"}
Maybe == Decisions \cup {"none"}
RunStatus == {"none", "running", "retrying", "awaiting_review", "complete", "failed"}
PostingStatus == {"not_ready", "ready_for_posting", "blocked"}
Events == {"extracted", "reconciled", "triaged", "exception_raised",
           "completed", "failed", "approved", "rejected"}
Nodes == {"extract", "match", "supervisor", "exception", "approve", "reject", "complete"}

\* The circuit breaker of the routes, and the longest path through the graph.
IterationLimit == 5
MaxIterations == 7

(***************************************************************************)
(* A graph state: the next node ("end" after the last, "none" for a thread *)
(* without a checkpoint), iteration_count, whether exception_reason is     *)
(* set, whether the shipment reconciled, human_decision, and the value a   *)
(* Command(resume=...) carries to the interrupt.                           *)
(***************************************************************************)
GraphState ==
    [next : Nodes \cup {"none", "end"}, iter : 0..MaxIterations, exc : BOOLEAN,
     recon : BOOLEAN, decision : Maybe, resume : Maybe]

NoState == [next |-> "none", iter |-> 0, exc |-> FALSE, recon |-> FALSE,
            decision |-> "none", resume |-> "none"]

InitialState == [NoState EXCEPT !.next = "extract"]

Procs == Deliveries \cup {Uploader} \cup Reviewers

(* pc names the next store call; loadedProc and loadedPost are the columns
   as the process's own session read them. *)
Proc ==
    [pc : {"off", "lookup", "load", "snapshot", "graph", "persist", "fail",
           "mark", "marked", "bury", "ack", "commit"},
     g : GraphState, loadedProc : RunStatus, loadedPost : PostingStatus,
     replay : BOOLEAN, last : BOOLEAN, want : Maybe]

Off == [pc |-> "off", g |-> NoState, loadedProc |-> "none",
        loadedPost |-> "not_ready", replay |-> FALSE, last |-> FALSE,
        want |-> "none"]

VARIABLES
    proc,      \* WorkflowRun.processing_status, "none" without a row
    post,      \* WorkflowRun.posting_status
    decision,  \* ReviewDecision.disposition, "none" without a row
    rows,      \* rows that reference the run: audit events, reconciliation
    lock,      \* who holds SELECT ... FOR UPDATE on the run's row
    ckpt,      \* the thread's latest checkpoint
    queue,     \* the run's queue entry: "job", "replay" or "gone"
    attempt,   \* deliveries of that entry so far
    buried,    \* a dead letter exists
    replays,
    p,         \* p[x]: the state of process x
    faults

rowVars == <<proc, post>>
reviewVars == <<decision, lock>>
queueVars == <<queue, attempt, buried, replays>>
vars == <<rowVars, reviewVars, rows, ckpt, queueVars, p, faults>>

\* Types of all variables.
TypeOK ==
    /\ proc \in RunStatus
    /\ post \in PostingStatus
    /\ decision \in Maybe
    /\ rows \subseteq Events
    /\ lock \in Reviewers \cup {NoOne}
    /\ ckpt \in GraphState
    /\ queue \in {"job", "replay", "gone"}
    /\ attempt \in 0..MaxDeliveries
    /\ buried \in BOOLEAN
    /\ replays \in 0..MaxReplays
    /\ p \in [Procs -> Proc]
    /\ faults \in 0..MaxFaults

\* A run comes from the queue, or from an upload with no queue entry.
Init ==
    /\ proc = "none"
    /\ post = "not_ready"
    /\ decision = "none"
    /\ rows = {}
    /\ lock = NoOne
    /\ ckpt = NoState
    /\ queue \in {"job", "gone"}
    /\ attempt = 0
    /\ buried = FALSE
    /\ replays = 0
    /\ p = [x \in Procs |-> Off]
    /\ faults = 0

-----------------------------------------------------------------------------
(* Helpers *)

Goto(x, label) == p' = [p EXCEPT ![x].pc = label]
Stop(x) == p' = [p EXCEPT ![x] = Off]

\* The ORM writes only a column that differs from the value the session loaded.
OrmWrite(current, loaded, new) == IF new = loaded THEN current ELSE new

\* An update of the row waits for the row lock; so does the insert of a row that
\* references it, for its foreign-key check.  An insert that conflicts with an
\* existing row does nothing and does not wait.
RowFree == lock = NoOne
MayInsert(event) == event \in rows \/ RowFree

\* complete_node: what a finished graph says of the run.
Unresolved(g) == g.exc /\ g.decision \notin Decisions

\* Mutant: a run that cannot be posted yet waits for a reviewer.
FinalProcMutant(g) == IF g.recon THEN "complete" ELSE "awaiting_review"

FinalProc(g) == IF Unresolved(g) THEN "failed" ELSE "complete"

\* Mutant: the decision itself is written as the posting status.
PostingOfMutant(d) == d

PostingOf(d) == IF d = "approved" THEN "ready_for_posting" ELSE "blocked"

\* Mutant: the posting status comes from the reconciliation alone.
FinalPostMutant(g) == IF g.recon THEN "ready_for_posting" ELSE "not_ready"

\* Mutant: whatever was not rejected may be posted.
FinalPostMutantPartial(g) ==
    IF Unresolved(g) THEN "not_ready"
    ELSE IF g.decision = "rejected" THEN "blocked" ELSE "ready_for_posting"

FinalPost(g) ==
    IF Unresolved(g) THEN "not_ready"
    ELSE IF g.decision \in Decisions THEN PostingOf(g.decision)
    ELSE IF g.recon THEN "ready_for_posting" ELSE "not_ready"

-----------------------------------------------------------------------------
(* The graph *)

\* Mutant: the circuit breaker trips one node too early.
RouteAfterMatchMutant(g) ==
    IF g.iter > 1 \/ ~g.exc THEN "complete" ELSE "supervisor"

RouteAfterMatch(g) ==
    IF g.iter > IterationLimit \/ ~g.exc THEN "complete" ELSE "supervisor"

RouteAfterException(g) ==
    IF g.iter > IterationLimit THEN "complete"
    ELSE IF g.decision = "approved" THEN "approve"
    ELSE IF g.decision = "rejected" THEN "reject"
    ELSE "exception"

\* Node n of x's invocation inserts its rows, returns, and is checkpointed.
NodeDone(x, n, events, g) ==
    /\ p[x].pc = "graph"
    /\ p[x].g.next = n
    /\ \A e \in events : MayInsert(e)
    /\ rows' = rows \cup events
    /\ p' = [p EXCEPT ![x].g = g]
    /\ ckpt' = [g EXCEPT !.resume = "none"]
    /\ UNCHANGED <<rowVars, reviewVars, queueVars, faults>>

Count(g) == g.iter + 1

ExtractNode(x) ==
    LET g == p[x].g IN
    NodeDone(x, "extract", {"extracted"}, [g EXCEPT !.next = "match", !.iter = Count(g)])

\* The shipment reconciles, is partial or only overdue, or needs a reviewer;
\* without a load number there is no reconciliation result.
MatchNode(x) ==
    \E exc, recon, linked \in BOOLEAN :
        LET g == [p[x].g EXCEPT !.exc = exc, !.recon = recon, !.iter = Count(p[x].g)] IN
        /\ ~(exc /\ recon)
        /\ ~linked => exc
        /\ NodeDone(x, "match", IF linked THEN {"reconciled"} ELSE {},
                    [g EXCEPT !.next = RouteAfterMatch(g)])

SupervisorNode(x) ==
    LET g == p[x].g IN
    NodeDone(x, "supervisor", {"triaged"},
             [g EXCEPT !.next = "exception", !.iter = Count(g)])

\* exception_node with a resume value: interrupt() returns it.
ExceptionNode(x) ==
    LET g == [p[x].g EXCEPT !.decision = p[x].g.resume, !.resume = "none",
                            !.iter = Count(p[x].g)] IN
    /\ p[x].g.resume # "none"
    /\ NodeDone(x, "exception", {"exception_raised"},
                [g EXCEPT !.next = RouteAfterException(g)])

\* exception_node without one: the exception is logged once and the invocation
\* returns to its caller; the checkpoint stays before the node.
InterruptNode(x) ==
    /\ p[x].pc = "graph"
    /\ p[x].g.next = "exception"
    /\ p[x].g.resume = "none"
    /\ MayInsert("exception_raised")
    /\ rows' = rows \cup {"exception_raised"}
    /\ IF x \in Reviewers
       THEN lock' = NoOne /\ Stop(x)
       ELSE lock' = lock /\ Goto(x, "persist")
    /\ UNCHANGED <<rowVars, decision, ckpt, queueVars, faults>>

DecisionNode(x) ==
    LET g == p[x].g IN
    \/ NodeDone(x, "approve", {}, [g EXCEPT !.next = "complete", !.iter = Count(g)])
    \/ NodeDone(x, "reject", {}, [g EXCEPT !.next = "complete", !.iter = Count(g)])

\* Mutant: the completion event is logged for reviewed runs as well.
CompletionEventsMutant(g) == IF Unresolved(g) THEN {"failed"} ELSE {"completed"}

\* A reviewed run's completion is logged by decide_review, not here.
CompletionEvents(g) ==
    IF Unresolved(g) THEN {"failed"}
    ELSE IF g.decision \in Decisions THEN {}
    ELSE {"completed"}

CompleteNode(x) ==
    LET g == p[x].g IN
    NodeDone(x, "complete", CompletionEvents(g), [g EXCEPT !.next = "end", !.iter = Count(g)])

\* The graph has ended: its caller takes the result.
GraphReturns(x) ==
    /\ p[x].pc = "graph"
    /\ p[x].g.next = "end"
    /\ IF x \in Reviewers
       THEN IF p[x].g.decision = p[x].want
            THEN Goto(x, "commit") /\ lock' = lock
            ELSE Stop(x) /\ lock' = NoOne
       ELSE Goto(x, "persist") /\ lock' = lock
    /\ UNCHANGED <<rowVars, decision, rows, ckpt, queueVars, faults>>

Graph(x) ==
    \/ ExtractNode(x) \/ MatchNode(x) \/ SupervisorNode(x)
    \/ ExceptionNode(x) \/ InterruptNode(x) \/ DecisionNode(x)
    \/ CompleteNode(x) \/ GraphReturns(x)

-----------------------------------------------------------------------------
(* Deliveries: _run_workflow_for_job under _process_delivery *)

Delivering(x) == p[x].pc # "off"

\* A worker receives the entry and is alone with it.
Deliver(x) ==
    /\ queue # "gone"
    /\ attempt < MaxDeliveries
    /\ \A y \in Deliveries : ~Delivering(y)
    /\ attempt' = attempt + 1
    /\ p' = [p EXCEPT ![x] = [Off EXCEPT !.pc = "lookup",
                                         !.replay = (queue = "replay"),
                                         !.last = (attempt + 1 >= MaxAttempts)]]
    /\ UNCHANGED <<rowVars, reviewVars, rows, ckpt, queue, buried, replays, faults>>

\* Mutant: the entry is buried, the run is left as it is.
AfterFailureMutant(x) == IF p[x].last THEN Goto(x, "bury") ELSE Stop(x)

\* What follows an exception of _run_workflow_for_job.
AfterFailure(x) == IF p[x].last THEN Goto(x, "mark") ELSE Stop(x)

\* REDELIVERY_SHORT_CIRCUIT_PROCESSING_STATUSES
ShortCircuit == {"complete", "awaiting_review"}

Lookup(x) ==
    LET status == IF proc = "none" THEN "running" ELSE proc IN
    /\ p[x].pc = "lookup"
    /\ proc' = status
    /\ CASE status = "failed" /\ ~p[x].replay -> AfterFailure(x)
         [] status \in ShortCircuit -> Goto(x, "ack")
         [] OTHER -> Goto(x, "load")
    /\ UNCHANGED <<post, reviewVars, rows, ckpt, queueVars, faults>>

\* The second session; a replay reopens a failed run.
Load(x) ==
    LET reopen == p[x].replay /\ proc = "failed"
        status == IF reopen THEN "retrying" ELSE proc
        posting == IF reopen THEN "not_ready" ELSE post
    IN  /\ p[x].pc = "load"
        /\ reopen => RowFree
        /\ proc' = status
        /\ post' = posting
        /\ p' = [p EXCEPT ![x].pc = "snapshot", ![x].loadedProc = status,
                          ![x].loadedPost = posting]
        /\ UNCHANGED <<reviewVars, rows, ckpt, queueVars, faults>>

\* Mutant: the graph is always started over.
SnapshotMutant(x) ==
    /\ p[x].pc = "snapshot"
    /\ x \in Deliveries
    /\ p' = [p EXCEPT ![x].pc = "graph", ![x].g = InitialState]
    /\ ckpt' = InitialState
    /\ UNCHANGED <<rowVars, reviewVars, rows, queueVars, faults>>

\* A finished checkpoint is reused, an unfinished one resumed, and only an
\* empty thread started.
Snapshot(x) ==
    /\ p[x].pc = "snapshot"
    /\ x \in Deliveries
    /\ \/ /\ ckpt.next = "end"
          /\ p' = [p EXCEPT ![x].pc = "persist", ![x].g = ckpt]
          /\ ckpt' = ckpt
       \/ /\ ckpt.next \in Nodes
          /\ p' = [p EXCEPT ![x].pc = "graph", ![x].g = ckpt]
          /\ ckpt' = ckpt
       \/ /\ ckpt.next = "none"
          /\ p' = [p EXCEPT ![x].pc = "graph", ![x].g = InitialState]
          /\ ckpt' = InitialState
    /\ UNCHANGED <<rowVars, reviewVars, rows, queueVars, faults>>

\* The commit of what the invocation returned: paused, or finished.
Persist(x) ==
    LET g == p[x].g
        paused == g.next = "exception"
    IN  /\ p[x].pc = "persist"
        /\ RowFree
        /\ proc' = OrmWrite(proc, p[x].loadedProc,
                            IF paused THEN "awaiting_review" ELSE FinalProc(g))
        /\ post' = OrmWrite(post, p[x].loadedPost,
                            IF paused THEN "not_ready" ELSE FinalPost(g))
        /\ IF x = Uploader THEN Stop(x) ELSE Goto(x, "ack")
        /\ UNCHANGED <<reviewVars, rows, ckpt, queueVars, faults>>

\* A node, the checkpointer or the database raises while x works on the run, or while
\* it commits the failure of its invocation.  The commits of an upload are in no try
\* block: one that fails is a fault as a crash is.
InvocationFails(x) ==
    /\ p[x].pc \in {"lookup", "load", "snapshot", "graph", "persist", "fail"}
    /\ IF x = Uploader /\ p[x].pc \in {"persist", "fail"}
       THEN faults < MaxFaults /\ faults' = faults + 1
       ELSE faults' = faults
    /\ IF x \in Reviewers THEN Stop(x) /\ lock' = NoOne
       ELSE IF p[x].pc \in {"snapshot", "graph"} THEN Goto(x, "fail") /\ lock' = lock
       ELSE (IF x = Uploader THEN Stop(x) ELSE AfterFailure(x)) /\ lock' = lock
    /\ UNCHANGED <<rowVars, decision, rows, ckpt, queueVars>>

\* The commit of the error: a delivery will be retried, an upload has failed.
PersistFailure(x) ==
    /\ p[x].pc = "fail"
    /\ RowFree
    /\ proc' = OrmWrite(proc, p[x].loadedProc,
                        IF x = Uploader THEN "failed" ELSE "retrying")
    /\ post' = IF x = Uploader THEN post
               ELSE OrmWrite(post, p[x].loadedPost, "not_ready")
    /\ IF x = Uploader THEN Stop(x) ELSE AfterFailure(x)
    /\ UNCHANGED <<reviewVars, rows, ckpt, queueVars, faults>>

\* _mark_job_failed after the last attempt reads the row without a lock.
LoadJob(x) ==
    /\ p[x].pc = "mark"
    /\ p' = [p EXCEPT ![x].pc = IF proc = "none" THEN "bury" ELSE "marked",
                      ![x].loadedProc = proc, ![x].loadedPost = post]
    /\ UNCHANGED <<rowVars, reviewVars, rows, ckpt, queueVars, faults>>

\* It does not look at the status it read, and the posting status a reviewer commits
\* in between stays: the session read "not_ready" and has nothing to change.
MarkJobFailed(x) ==
    /\ p[x].pc = "marked"
    /\ RowFree
    /\ proc' = OrmWrite(proc, p[x].loadedProc, "failed")
    /\ post' = OrmWrite(post, p[x].loadedPost, "not_ready")
    /\ Goto(x, "bury")
    /\ UNCHANGED <<reviewVars, rows, ckpt, queueVars, faults>>

\* dead_letter and acknowledge end the entry.
Bury(x) ==
    /\ p[x].pc = "bury"
    /\ buried' = TRUE
    /\ queue' = "gone"
    /\ Stop(x)
    /\ UNCHANGED <<rowVars, reviewVars, rows, ckpt, attempt, replays, faults>>

Acknowledge(x) ==
    /\ p[x].pc = "ack"
    /\ queue' = "gone"
    /\ Stop(x)
    /\ UNCHANGED <<rowVars, reviewVars, rows, ckpt, attempt, buried, replays, faults>>

\* The operator replays the dead letter.
Replay ==
    /\ buried
    /\ queue = "gone"
    /\ replays < MaxReplays
    /\ replays' = replays + 1
    /\ queue' = "replay"
    /\ attempt' = 0
    /\ UNCHANGED <<rowVars, reviewVars, rows, ckpt, buried, p, faults>>

-----------------------------------------------------------------------------
(* Uploads: run_workflow creates the row and runs the graph at once *)

Upload ==
    /\ queue = "gone"
    /\ proc = "none"
    /\ ~buried
    /\ p[Uploader].pc = "off"
    /\ proc' = "running"
    /\ ckpt' = InitialState
    /\ p' = [p EXCEPT ![Uploader] = [Off EXCEPT !.pc = "graph", !.g = InitialState,
                                                !.loadedProc = "running"]]
    /\ UNCHANGED <<post, reviewVars, rows, queueVars, faults>>

-----------------------------------------------------------------------------
(* Reviews: decide_review *)

\* A first decision needs a run that waits for one; a repeated or a conflicting
\* one changes nothing.
MayDecide == decision = "none" /\ proc = "awaiting_review"

LockRun(x, d) ==
    /\ p[x].pc = "off"
    /\ RowFree
    /\ MayDecide
    /\ lock' = x
    /\ p' = [p EXCEPT ![x] = [Off EXCEPT !.pc = "snapshot", !.want = d,
                                         !.loadedProc = proc, !.loadedPost = post]]
    /\ UNCHANGED <<rowVars, decision, rows, ckpt, queueVars, faults>>

\* A request that died after the checkpoint took its decision.
CheckpointDecided == ckpt.decision \in Decisions

\* Command(resume=...) is a pending write of the checkpoint until exception_node
\* returns; whether it is stored before the request dies is up to the saver.
ReviewSnapshot(x) ==
    /\ p[x].pc = "snapshot"
    /\ x \in Reviewers
    /\ CASE CheckpointDecided /\ ckpt.decision = p[x].want ->
              p' = [p EXCEPT ![x].pc = "commit", ![x].g = ckpt] /\ lock' = lock
         [] ~CheckpointDecided /\ ckpt.next \in Nodes ->
              /\ p' = [p EXCEPT ![x].pc = "graph",
                                ![x].g = [ckpt EXCEPT !.resume = p[x].want]]
              /\ lock' = lock
         [] OTHER -> Stop(x) /\ lock' = NoOne
    /\ \/ ckpt' = ckpt
       \/ /\ p'[x].pc = "graph"
          /\ ckpt' = [ckpt EXCEPT !.resume = p[x].want]
    /\ UNCHANGED <<rowVars, decision, rows, queueVars, faults>>

CommitDecision(x) ==
    /\ p[x].pc = "commit"
    /\ decision' = p[x].want
    /\ proc' = OrmWrite(proc, p[x].loadedProc, "complete")
    /\ post' = OrmWrite(post, p[x].loadedPost, PostingOf(p[x].want))
    /\ rows' = rows \cup {p[x].want}
    /\ lock' = NoOne
    /\ Stop(x)
    /\ UNCHANGED <<ckpt, queueVars, faults>>

-----------------------------------------------------------------------------

\* A process dies, or a store call fails where nothing catches it: its locks and
\* its uncommitted work are gone.
Crash(x) ==
    /\ p[x].pc # "off"
    /\ faults < MaxFaults
    /\ faults' = faults + 1
    /\ Stop(x)
    /\ lock' = IF lock = x THEN NoOne ELSE lock
    /\ UNCHANGED <<rowVars, decision, rows, ckpt, queueVars>>

Delivery(x) ==
    \/ Deliver(x) \/ Lookup(x) \/ Load(x) \/ Snapshot(x)
    \/ LoadJob(x) \/ MarkJobFailed(x) \/ Bury(x) \/ Acknowledge(x)

Review(x) ==
    \/ \E d \in Decisions : LockRun(x, d)
    \/ ReviewSnapshot(x)
    \/ CommitDecision(x)

Next ==
    \/ \E x \in Deliveries : Delivery(x)
    \/ \E x \in Deliveries \cup {Uploader} : Persist(x) \/ PersistFailure(x)
    \/ \E x \in Reviewers : Review(x)
    \/ \E x \in Procs : Graph(x) \/ InvocationFails(x) \/ Crash(x)
    \/ Upload
    \/ Replay

Spec == Init /\ [][Next]_vars

\* A request that has the lock is served to its end: PostgreSQL and the event loop
\* answer, or the call raises.
ReviewStep(x) == Graph(x) \/ ReviewSnapshot(x) \/ CommitDecision(x)

FairSpec == Spec /\ \A x \in Reviewers : WF_vars(ReviewStep(x))

-----------------------------------------------------------------------------
(* Properties *)

\* decide_review inserts its own audit event and leaves the graph's completion
\* event out, because the row lock it holds would make the foreign-key check of
\* that insert wait for it: the graph a review drives inserts no row that
\* references the locked run.
ReviewNeverBlocksItself ==
    \A x \in Reviewers : lock = x /\ p[x].pc = "graph" =>
        /\ p[x].g.next = "exception" => "exception_raised" \in rows
        /\ p[x].g.next = "complete" => CompletionEvents(p[x].g) \subseteq rows
        /\ p[x].g.next \in {"exception", "approve", "reject", "complete", "end"}

\* A run shown as waiting for review can be reviewed: decide_review finds its
\* checkpoint paused, or holding the decision a crashed request left behind.
AwaitingIsReviewable ==
    proc = "awaiting_review" /\ decision = "none" =>
        ckpt.decision \in Decisions \/ ckpt.next \in Nodes

\* The decision decide_review recorded is the one the graph acted on, whatever
\* crashes, repeated requests and replays the run went through.
DecisionMatchesCheckpoint == decision # "none" => ckpt.decision = decision

\* A reviewed run that is complete is postable or blocked as its decision says,
\* also when an operator replay completed it from the checkpoint.
PostingFollowsDecision ==
    decision # "none" /\ proc = "complete" => post = PostingOf(decision)

\* Nothing is ready for posting unless the graph took an approval or every check
\* of the match passed.
PostingIsEarned ==
    post = "ready_for_posting" =>
        ckpt.decision = "approved" \/ (ckpt.recon /\ ~ckpt.exc)

\* The circuit breaker of the routes never ends a run whose exception nobody
\* resolved: the path to the first interrupt is shorter than its limit.
ExceptionsAreResolved == ckpt.next \in {"complete", "end"} => ~Unresolved(ckpt)

\* A run shown as running or retrying is one that somebody works on or that a queue
\* entry will bring back, whatever dies or fails; the one exception is an upload
\* that died or lost its last commit, which has no queue entry.
UnfinishedIsOwned ==
    proc \in {"running", "retrying"} =>
        \/ queue # "gone"
        \/ \E x \in Deliveries \cup {Uploader} : p[x].pc # "off"
        \/ attempt = 0 /\ faults > 0

\* A review request always ends and gives the row lock back: it commits, finds a
\* conflict, fails or dies, but never waits for ever.
EveryReviewEnds == \A x \in Reviewers : lock = x ~> lock # x

\* "Review decisions are ... persisted once, and safely replayed from the
\* LangGraph checkpoint": a run completed with a reviewer's decision has the
\* ReviewDecision row that says so.
CompletedReviewIsRecorded ==
    proc = "complete" /\ ckpt.decision \in Decisions => decision = ckpt.decision
=============================================================================
