------------------------- MODULE WorkflowRunsProofs -------------------------
(***************************************************************************)
(* Proofs about WorkflowRuns, for any number of deliveries, reviewers,     *)
(* attempts, replays and faults.  The argument: at most one process drives *)
(* the run's graph at a time, and while it does the row says so, the       *)
(* session's loaded columns are current and the checkpoint is the          *)
(* invocation's own state.                                                 *)
(***************************************************************************)
EXTENDS WorkflowRuns, TLAPS

\* A graph state on a path of the graph: how far it is fixes the iteration count
\* and what is known of the exception and of the decision.
Sound(g) ==
    /\ g.resume # "none" => g.next = "exception"
    /\ \/ g.next \in {"none", "extract"} /\ g.iter = 0 /\ g.decision = "none"
       \/ g.next = "match" /\ g.iter = 1 /\ g.decision = "none"
       \/ g.next = "supervisor" /\ g.iter = 2 /\ g.exc /\ g.decision = "none"
       \/ g.next = "exception" /\ g.iter = 3 /\ g.exc /\ g.decision = "none"
       \/ g.next = "approve" /\ g.iter = 4 /\ g.decision = "approved"
       \/ g.next = "reject" /\ g.iter = 4 /\ g.decision = "rejected"
       \/ g.next = "complete" /\ g.iter \in {2, 5} /\ (g.decision = "none" => ~g.exc)
       \/ g.next = "end" /\ g.iter \in {3, 6} /\ (g.decision = "none" => ~g.exc)

\* Equal but for the value that resumes an interrupt.
Same(g, h) ==
    /\ g.next = h.next
    /\ g.iter = h.iter
    /\ g.exc = h.exc
    /\ g.recon = h.recon
    /\ g.decision = h.decision

\* The checkpoint is on a path of the graph; an invocation is where it is.
GraphsSound ==
    /\ Sound(ckpt)
    /\ \A x \in Procs : p[x].pc \in {"graph", "persist"} =>
          /\ Sound(p[x].g)
          /\ Same(p[x].g, ckpt)
          /\ p[x].pc = "persist" =>
                \/ p[x].g.next = "end"
                \/ p[x].g.next = "exception" /\ "exception_raised" \in rows

Driving == {"snapshot", "graph", "persist", "fail"}
Unfinished == {"running", "retrying"}

\* A delivery is alone with its entry; while it drives the graph the run is shown as
\* unfinished and its session's columns are current.
DeliverySound(x) ==
    /\ p[x].pc # "off" =>
          /\ queue # "gone"
          /\ \A y \in Deliveries : p[y].pc # "off" => y = x
    /\ p[x].pc # "commit"
    /\ p[x].pc = "load" => proc \in Unfinished \/ (proc = "failed" /\ p[x].replay)
    /\ p[x].pc \in Driving =>
          /\ proc \in Unfinished
          /\ p[x].loadedProc = proc
          /\ p[x].loadedPost = post
    /\ p[x].pc = "ack" => proc \notin {"none", "running", "retrying"}
    /\ p[x].pc = "marked" => proc # "none" /\ (p[x].loadedProc = "failed" => proc = "failed")
    /\ p[x].pc = "bury" => proc \in {"none", "failed"}

DeliveriesSound == \A x \in Deliveries : DeliverySound(x)

\* An upload drives a run that has no queue entry and never had one.
UploadSound ==
    /\ p[Uploader].pc \in {"off", "graph", "persist", "fail"}
    /\ p[Uploader].pc # "off" =>
          /\ queue = "gone"
          /\ ~buried
          /\ attempt = 0
          /\ proc = "running"
          /\ p[Uploader].loadedProc = "running"
          /\ p[Uploader].loadedPost = "not_ready"

\* A review request under way holds the lock of a run that waits for its first
\* decision, and its graph is at the interrupt or past it.
ReviewSound(x) ==
    /\ p[x].pc \in {"off", "snapshot", "graph", "commit"}
    /\ p[x].pc # "off" =>
          /\ lock = x
          /\ p[x].want \in Decisions
          /\ p[x].loadedProc = "awaiting_review"
          /\ p[x].loadedPost = "not_ready"
    /\ p[x].pc = "graph" => p[x].g.next = "exception" \/ p[x].g.decision \in Decisions
    /\ p[x].pc = "commit" => ckpt.decision = p[x].want

ReviewsSound ==
    /\ \A x \in Reviewers : ReviewSound(x)
    /\ lock # NoOne => proc = "awaiting_review" /\ decision = "none"

\* What the row says of the checkpoint, of the rows that reference it and of who
\* will bring the run to its end.
RowSound ==
    /\ proc = "none" =>
          /\ ckpt.next = "none"
          /\ decision = "none"
          /\ queue = "gone" /\ ~buried => attempt = 0
    /\ post # "not_ready" => proc \in {"complete", "failed"}
    /\ proc = "awaiting_review" =>
          /\ "exception_raised" \in rows
          /\ ckpt.next = "exception" \/ ckpt.decision \in Decisions
    /\ proc \in Unfinished =>
          queue # "gone" \/ p[Uploader].pc # "off" \/ (attempt = 0 /\ faults > 0)

\* What was decided and posted.
OutcomeSound == DecisionMatchesCheckpoint /\ PostingFollowsDecision /\ PostingIsEarned

RunInv ==
    /\ TypeOK
    /\ GraphsSound
    /\ DeliveriesSound
    /\ UploadSound
    /\ ReviewsSound
    /\ RowSound
    /\ OutcomeSound

-----------------------------------------------------------------------------
(* One process's step *)

\* The three kinds of process are different.
LEMMA Kinds ==
    /\ Procs = Deliveries \cup {Uploader} \cup Reviewers
    /\ \A x \in Deliveries : x # Uploader /\ x \notin Reviewers
    /\ \A x \in Reviewers : x # Uploader /\ x \notin Deliveries /\ x # NoOne
  BY RunsAssumption DEF Procs

\* The initial graph states.
LEMMA InitialGraphs ==
    /\ NoState \in GraphState /\ InitialState \in GraphState
    /\ Sound(NoState) /\ Sound(InitialState)
    /\ NoState.next = "none" /\ NoState.decision = "none" /\ NoState.resume = "none"
    /\ InitialState.next = "extract" /\ InitialState.decision = "none"
    /\ InitialState.resume = "none"
<1>1. NoState \in GraphState
  BY DEF NoState, GraphState, MaxIterations, Nodes, Maybe
<1>2. InitialState \in GraphState
  BY <1>1 DEF InitialState, GraphState, Nodes
<1>3. /\ InitialState.next = "extract"
      /\ InitialState.iter = 0
      /\ InitialState.decision = "none"
      /\ InitialState.resume = "none"
  BY <1>1 DEF InitialState, NoState, GraphState
<1>4. Sound(NoState)
  BY DEF NoState, Sound
<1>5. Sound(InitialState)
  BY <1>3 DEF Sound
<1> QED
  BY <1>1, <1>2, <1>3, <1>4, <1>5 DEF NoState

\* A process that is off.
LEMMA OffProc ==
    /\ Off \in Proc
    /\ Off.pc = "off"
  BY InitialGraphs DEF Off, Proc, RunStatus, PostingStatus, Maybe

\* Nothing has happened.
LEMMA InitInv == Init => RunInv
<1> SUFFICES ASSUME Init PROVE RunInv
  OBVIOUS
<1>1. \A x \in Procs : p[x] = Off
  BY DEF Init
<1>2. TypeOK
  <2>1. p \in [Procs -> Proc]
    BY OffProc DEF Init
  <2>2. ckpt \in GraphState /\ buried \in BOOLEAN
    BY InitialGraphs DEF Init
  <2>3. attempt \in 0..MaxDeliveries /\ replays \in 0..MaxReplays /\ faults \in 0..MaxFaults
    BY RunsAssumption DEF Init
  <2> QED
    BY <2>1, <2>2, <2>3
       DEF Init, TypeOK, RunStatus, PostingStatus, Maybe, Events
<1>3. GraphsSound
  BY <1>1, InitialGraphs, OffProc DEF Init, GraphsSound
<1>4. DeliveriesSound
  BY <1>1, Kinds, OffProc DEF DeliveriesSound, DeliverySound, Driving
<1>5. UploadSound
  BY <1>1, Kinds, OffProc DEF UploadSound
<1>6. ReviewsSound
  BY <1>1, Kinds, OffProc DEF ReviewsSound, ReviewSound, Init
<1>7. RowSound /\ OutcomeSound
  BY InitialGraphs
     DEF Init, RowSound, Unfinished, OutcomeSound, DecisionMatchesCheckpoint,
         PostingFollowsDecision, PostingIsEarned
<1> QED
  BY <1>2, <1>3, <1>4, <1>5, <1>6, <1>7 DEF RunInv

\* A process goes to another place and keeps what it holds.
LEMMA GotoProc ==
    ASSUME p \in [Procs -> Proc], NEW x \in Procs, NEW label, Goto(x, label),
           label \in {"off", "lookup", "load", "snapshot", "graph", "persist", "fail",
                      "mark", "marked", "bury", "ack", "commit"}
    PROVE  /\ p' \in [Procs -> Proc]
           /\ p'[x].pc = label
           /\ p'[x].g = p[x].g
           /\ p'[x].loadedProc = p[x].loadedProc
           /\ p'[x].loadedPost = p[x].loadedPost
           /\ p'[x].replay = p[x].replay
           /\ p'[x].want = p[x].want
           /\ \A y \in Procs : y # x => p'[y] = p[y]
<1>1. p[x] \in Proc
  OBVIOUS
<1>2. [p[x] EXCEPT !.pc = label] \in Proc
  BY <1>1 DEF Proc
<1>3. /\ p'[x] = [p[x] EXCEPT !.pc = label]
      /\ \A y \in Procs : y # x => p'[y] = p[y]
  BY DEF Goto
<1>4. p' \in [Procs -> Proc]
  BY <1>2 DEF Goto
<1> QED
  BY <1>1, <1>3, <1>4 DEF Proc

\* A process takes a new local state.
LEMMA PutProc ==
    ASSUME p \in [Procs -> Proc], NEW x \in Procs, NEW r \in Proc,
           p' = [p EXCEPT ![x] = r]
    PROVE  /\ p' \in [Procs -> Proc]
           /\ p'[x] = r
           /\ \A y \in Procs : y # x => p'[y] = p[y]
  OBVIOUS

\* A process stops.
LEMMA StopProc ==
    ASSUME p \in [Procs -> Proc], NEW x \in Procs, Stop(x)
    PROVE  /\ p' \in [Procs -> Proc]
           /\ p'[x].pc = "off"
           /\ \A y \in Procs : y # x => p'[y] = p[y]
  BY PutProc, OffProc DEF Stop

\* Who drives the graph, or is about to record its outcome.
Working == Driving \cup {"commit"}

\* At most one process drives the graph; the row tells which kind of process it is,
\* and nothing is posted meanwhile.
LEMMA OneDriver ==
    ASSUME RunInv, NEW x \in Procs, p[x].pc \in Working
    PROVE  /\ \A y \in Procs : p[y].pc \in Working => y = x
           /\ post = "not_ready"
           /\ p[x].loadedPost = post
           /\ p[x].loadedProc = proc
           /\ IF x \in Reviewers
              THEN proc = "awaiting_review" /\ lock = x /\ decision = "none"
              ELSE proc \in Unfinished /\ p[x].pc # "commit" /\ lock = NoOne
<1> USE DEF Working, Driving, Unfinished
<1>1. /\ x \in Reviewers => proc = "awaiting_review" /\ lock = x /\ decision = "none"
      /\ x \notin Reviewers => proc \in Unfinished /\ p[x].pc # "commit"
  BY Kinds DEF RunInv, ReviewsSound, ReviewSound, DeliveriesSound, DeliverySound, UploadSound
<1>2. lock # NoOne => proc = "awaiting_review"
  BY DEF RunInv, ReviewsSound
<1>3. post = "not_ready"
  BY <1>1 DEF RunInv, RowSound
<1>4. p[x].loadedPost = post /\ p[x].loadedProc = proc
  BY <1>1, <1>3, Kinds
     DEF RunInv, ReviewsSound, ReviewSound, DeliveriesSound, DeliverySound, UploadSound
<1>5. ASSUME NEW y \in Procs, p[y].pc \in Working PROVE y = x
  <2>1. /\ y \in Reviewers => proc = "awaiting_review" /\ lock = y
        /\ y \notin Reviewers => proc \in Unfinished
    BY <1>5, Kinds
       DEF RunInv, ReviewsSound, ReviewSound, DeliveriesSound, DeliverySound, UploadSound
  <2>2. CASE x \in Reviewers
    BY <1>1, <2>1, <2>2
  <2>3. CASE x \notin Reviewers /\ y \notin Reviewers
    BY <1>5, <2>3, Kinds DEF RunInv, DeliveriesSound, DeliverySound, UploadSound
  <2>4. CASE x \notin Reviewers /\ y \in Reviewers
    BY <1>1, <2>1, <2>4
  <2> QED
    BY <2>2, <2>3, <2>4
<1> QED
  BY <1>1, <1>2, <1>3, <1>4, <1>5

\* A delivery that has its entry is the only one, and no upload is under way.
LEMMA OneDelivery ==
    ASSUME RunInv, NEW x \in Deliveries, p[x].pc # "off"
    PROVE  /\ queue # "gone"
           /\ \A y \in Deliveries : y # x => p[y].pc = "off"
           /\ p[Uploader].pc = "off"
  BY DEF RunInv, DeliveriesSound, DeliverySound, UploadSound

\* The value an ORM write leaves in a column that the session read as it is.
LEMMA OrmWriteCurrent ==
    ASSUME NEW a, NEW b PROVE OrmWrite(a, a, b) = b
  BY DEF OrmWrite

-----------------------------------------------------------------------------
(* Graph nodes *)

\* A node that moves the invocation along its path keeps the invariant: the driver
\* is alone, so no other process holds a state of the graph.
LEMMA NodeStep ==
    ASSUME RunInv, NEW x \in Procs, NEW n \in Nodes, NEW events \in SUBSET Events,
           NEW g \in GraphState, NodeDone(x, n, events, g), Sound(g), g.resume = "none",
           g.decision = p[x].g.decision \/ p[x].g.decision = "none",
           x \in Reviewers => g.decision \in Decisions
    PROVE  RunInv'
<1>1. p[x].pc = "graph" /\ p[x].pc \in Working
  BY DEF NodeDone, Working, Driving
<1>2. /\ post = "not_ready"
      /\ IF x \in Reviewers
         THEN proc = "awaiting_review" /\ lock = x /\ decision = "none"
         ELSE proc \in Unfinished /\ lock = NoOne
      /\ \A y \in Procs : p[y].pc \in Working => y = x
  BY <1>1, OneDriver
<1>3. UNCHANGED <<proc, post, decision, lock, queue, attempt, buried, replays, faults>>
  BY DEF NodeDone, rowVars, reviewVars, queueVars
<1>4. TypeOK /\ p[x] \in Proc
  BY DEF RunInv, TypeOK
<1>5. ckpt' = [g EXCEPT !.resume = "none"] /\ rows' = rows \cup events
  BY DEF NodeDone
<1>6. Same(g, ckpt') /\ Sound(ckpt') /\ ckpt' \in GraphState
  <2>1. /\ ckpt' \in GraphState
        /\ ckpt'.next = g.next /\ ckpt'.iter = g.iter /\ ckpt'.exc = g.exc
        /\ ckpt'.recon = g.recon /\ ckpt'.decision = g.decision /\ ckpt'.resume = g.resume
    BY <1>5 DEF GraphState, Maybe
  <2> QED
    BY <2>1 DEF Same, Sound
<1>7. /\ p' \in [Procs -> Proc]
      /\ p'[x].pc = "graph" /\ p'[x].g = g
      /\ p'[x].loadedProc = p[x].loadedProc /\ p'[x].loadedPost = p[x].loadedPost
      /\ p'[x].want = p[x].want
      /\ \A y \in Procs : y # x => p'[y] = p[y]
  <2>1. p' = [p EXCEPT ![x].g = g]
    BY DEF NodeDone
  <2>2. [p[x] EXCEPT !.g = g] \in Proc
    BY <1>4 DEF Proc
  <2>3. p'[x] = [p[x] EXCEPT !.g = g] /\ \A y \in Procs : y # x => p'[y] = p[y]
    BY <2>1, <1>4 DEF TypeOK
  <2>4. p' \in [Procs -> Proc]
    BY <2>1, <2>2, <1>4 DEF TypeOK
  <2> QED
    BY <2>3, <2>4, <1>1, <1>4 DEF Proc
<1>8. TypeOK'
  BY <1>3, <1>4, <1>5, <1>6, <1>7 DEF TypeOK
<1>9. GraphsSound'
  BY <1>1, <1>2, <1>6, <1>7 DEF GraphsSound, Working, Driving
<1>10. DeliveriesSound'
  BY <1>1, <1>3, <1>7, Kinds DEF RunInv, DeliveriesSound, DeliverySound, Driving
<1>11. UploadSound'
  BY <1>1, <1>3, <1>7, Kinds DEF RunInv, UploadSound
<1>12. ReviewsSound'
  <2>1. ASSUME NEW y \in Reviewers PROVE ReviewSound(y)'
    <3>1. CASE y = x
      BY <3>1, <1>1, <1>3, <1>7 DEF RunInv, ReviewsSound, ReviewSound
    <3>2. CASE y # x
      <4>1. p'[y] = p[y] /\ p[y].pc = "off"
        BY <3>2, <1>1, <1>2, <1>7, Kinds
           DEF RunInv, ReviewsSound, ReviewSound, Working, Driving
      <4> QED
        BY <4>1 DEF ReviewSound
    <3> QED
      BY <3>1, <3>2
  <2> QED
    BY <2>1, <1>3 DEF RunInv, ReviewsSound
<1>13. RowSound'
  BY <1>1, <1>2, <1>3, <1>5, <1>6, <1>7, Kinds DEF RunInv, RowSound, Unfinished, Same
<1>14. OutcomeSound'
  <2>1. decision # "none" => ckpt'.decision = decision
    BY <1>1, <1>6
       DEF RunInv, OutcomeSound, DecisionMatchesCheckpoint, Same, GraphsSound
  <2> QED
    BY <2>1, <1>2, <1>3
       DEF OutcomeSound, DecisionMatchesCheckpoint, PostingFollowsDecision, PostingIsEarned,
           Unfinished
<1> QED
  BY <1>8, <1>9, <1>10, <1>11, <1>12, <1>13, <1>14 DEF RunInv

\* The state an invocation holds is on a path and is the checkpoint's.
LEMMA Invoked ==
    ASSUME RunInv, NEW x \in Procs, p[x].pc = "graph"
    PROVE  /\ p[x].g \in GraphState
           /\ Sound(p[x].g)
           /\ Same(p[x].g, ckpt)
           /\ x \in Reviewers => p[x].g.next = "exception" \/ p[x].g.decision \in Decisions
  BY DEF RunInv, TypeOK, Proc, GraphsSound, ReviewsSound, ReviewSound

LEMMA ExtractStep == ASSUME RunInv, NEW x \in Procs, ExtractNode(x) PROVE RunInv'
<1> DEFINE g == p[x].g
           h == [g EXCEPT !.next = "match", !.iter = Count(g)]
<1>1. /\ p[x].pc = "graph" /\ g.next = "extract"
      /\ NodeDone(x, "extract", {"extracted"}, h)
  BY DEF ExtractNode, NodeDone
<1>2. /\ g \in GraphState /\ Sound(g)
      /\ x \in Reviewers => g.next = "exception" \/ g.decision \in Decisions
  BY <1>1, Invoked
<1>3. g.iter = 0 /\ g.decision = "none" /\ g.resume = "none"
  BY <1>1, <1>2 DEF Sound
<1>4. /\ h \in GraphState /\ h.next = "match" /\ h.iter = 1
      /\ h.decision = "none" /\ h.resume = "none"
  <2>1. Count(g) \in 0..MaxIterations /\ Count(g) = g.iter + 1
    BY <1>3 DEF Count, MaxIterations
  <2>3. "match" \in Nodes \cup {"end"}
    BY DEF Nodes
  <2>4. /\ h \in GraphState
        /\ h.next = "match" /\ h.iter = Count(g) /\ h.exc = g.exc
        /\ h.decision = g.decision /\ h.resume = g.resume
    <3> HIDE DEF g
    <3> QED
      BY <2>1, <2>3, <1>2 DEF GraphState
  <2> QED
    BY <2>1, <2>4, <1>3
<1>5. Sound(h)
  BY <1>4 DEF Sound
<1>6. x \notin Reviewers
  BY <1>1, <1>2, <1>3 DEF Decisions
<1> HIDE DEF h
<1> QED
  BY <1>1, <1>3, <1>4, <1>5, <1>6, NodeStep DEF Nodes, Events

LEMMA MatchStep == ASSUME RunInv, NEW x \in Procs, MatchNode(x) PROVE RunInv'
<1> DEFINE g == p[x].g
<1>1. PICK exc \in BOOLEAN, recon \in BOOLEAN, linked \in BOOLEAN :
        LET k == [g EXCEPT !.exc = exc, !.recon = recon, !.iter = Count(g)] IN
        /\ ~(exc /\ recon)
        /\ NodeDone(x, "match", IF linked THEN {"reconciled"} ELSE {},
                    [k EXCEPT !.next = RouteAfterMatch(k)])
  BY DEF MatchNode
<1> DEFINE k == [g EXCEPT !.exc = exc, !.recon = recon, !.iter = Count(g)]
           h == [k EXCEPT !.next = RouteAfterMatch(k)]
           events == IF linked THEN {"reconciled"} ELSE {}
<1>2. NodeDone(x, "match", events, h)
  BY <1>1
<1>3. p[x].pc = "graph" /\ g.next = "match"
  BY <1>2 DEF NodeDone
<1>4. /\ g \in GraphState /\ Sound(g)
      /\ x \in Reviewers => g.next = "exception" \/ g.decision \in Decisions
  BY <1>3, Invoked
<1>5. g.iter = 1 /\ g.decision = "none" /\ g.resume = "none"
  BY <1>3, <1>4 DEF Sound
<1>6. /\ k \in GraphState /\ k.iter = 2 /\ k.exc = exc
      /\ k.decision = "none" /\ k.resume = "none"
  <2>1. Count(g) = 2 /\ 2 \in 0..MaxIterations
    BY <1>5 DEF Count, MaxIterations
  <2>2. k = [g EXCEPT !.exc = exc, !.recon = recon, !.iter = 2]
    BY <2>1
  <2> HIDE DEF k
  <2> QED
    BY <2>1, <2>2, <1>4, <1>5 DEF GraphState
<1> HIDE DEF k
<1>7. RouteAfterMatch(k) = IF exc THEN "supervisor" ELSE "complete"
  BY <1>6 DEF RouteAfterMatch, IterationLimit
<1>8. /\ h \in GraphState /\ h.next = IF exc THEN "supervisor" ELSE "complete"
      /\ h.iter = 2 /\ h.exc = exc /\ h.decision = "none" /\ h.resume = "none"
  BY <1>6, <1>7 DEF GraphState, Nodes
<1>9. Sound(h)
  BY <1>8 DEF Sound
<1>10. x \notin Reviewers
  BY <1>3, <1>4, <1>5 DEF Decisions
<1>11. events \in SUBSET Events
  BY DEF Events
<1> HIDE DEF h, events
<1> QED
  BY <1>2, <1>5, <1>8, <1>9, <1>10, <1>11, NodeStep DEF Nodes

LEMMA SupervisorStep == ASSUME RunInv, NEW x \in Procs, SupervisorNode(x) PROVE RunInv'
<1> DEFINE g == p[x].g
           h == [g EXCEPT !.next = "exception", !.iter = Count(g)]
<1>1. /\ p[x].pc = "graph" /\ g.next = "supervisor"
      /\ NodeDone(x, "supervisor", {"triaged"}, h)
  BY DEF SupervisorNode, NodeDone
<1>2. /\ g \in GraphState /\ Sound(g)
      /\ x \in Reviewers => g.next = "exception" \/ g.decision \in Decisions
  BY <1>1, Invoked
<1>3. g.iter = 2 /\ g.exc /\ g.decision = "none" /\ g.resume = "none"
  BY <1>1, <1>2 DEF Sound
<1>4. /\ h \in GraphState /\ h.next = "exception" /\ h.iter = 3 /\ h.exc
      /\ h.decision = "none" /\ h.resume = "none"
  <2>1. Count(g) \in 0..MaxIterations /\ Count(g) = g.iter + 1
    BY <1>3 DEF Count, MaxIterations
  <2>3. "exception" \in Nodes \cup {"end"}
    BY DEF Nodes
  <2>4. /\ h \in GraphState
        /\ h.next = "exception" /\ h.iter = Count(g) /\ h.exc = g.exc
        /\ h.decision = g.decision /\ h.resume = g.resume
    <3> HIDE DEF g
    <3> QED
      BY <2>1, <2>3, <1>2 DEF GraphState
  <2> QED
    BY <2>1, <2>4, <1>3
<1>5. Sound(h)
  BY <1>4 DEF Sound
<1>6. x \notin Reviewers
  BY <1>1, <1>2, <1>3 DEF Decisions
<1> HIDE DEF h
<1> QED
  BY <1>1, <1>3, <1>4, <1>5, <1>6, NodeStep DEF Nodes, Events

\* The interrupt returns the reviewer's decision; the breaker's limit is not reached.
LEMMA ExceptionStep == ASSUME RunInv, NEW x \in Procs, ExceptionNode(x) PROVE RunInv'
<1> DEFINE g == p[x].g
           k == [g EXCEPT !.decision = g.resume, !.resume = "none", !.iter = Count(g)]
           h == [k EXCEPT !.next = RouteAfterException(k)]
<1>1. g.resume # "none" /\ NodeDone(x, "exception", {"exception_raised"}, h)
  BY DEF ExceptionNode
<1>2. p[x].pc = "graph" /\ g.next = "exception"
  BY <1>1 DEF NodeDone
<1>3. g \in GraphState /\ Sound(g)
  BY <1>2, Invoked
<1>4. g.iter = 3 /\ g.decision = "none" /\ g.resume \in Decisions
  BY <1>1, <1>2, <1>3 DEF Sound, GraphState, Maybe
<1>5. k \in GraphState /\ k.iter = 4 /\ k.decision = g.resume /\ k.resume = "none"
  <2>1. Count(g) = 4 /\ 4 \in 0..MaxIterations
    BY <1>4 DEF Count, MaxIterations
  <2>2. k = [g EXCEPT !.decision = g.resume, !.resume = "none", !.iter = 4]
    BY <2>1
  <2> HIDE DEF k
  <2> QED
    BY <2>1, <2>2, <1>3, <1>4 DEF GraphState, Maybe
<1> HIDE DEF k
<1>6. RouteAfterException(k) = IF g.resume = "approved" THEN "approve" ELSE "reject"
  BY <1>4, <1>5 DEF RouteAfterException, IterationLimit, Decisions
<1>7. /\ h \in GraphState /\ h.next = IF g.resume = "approved" THEN "approve" ELSE "reject"
      /\ h.iter = 4 /\ h.decision = g.resume /\ h.resume = "none"
  BY <1>5, <1>6 DEF GraphState, Nodes
<1>8. Sound(h)
  BY <1>4, <1>7 DEF Sound, Decisions
<1> HIDE DEF h
<1> QED
  BY <1>1, <1>4, <1>7, <1>8, NodeStep DEF Nodes, Events

LEMMA DecisionStep == ASSUME RunInv, NEW x \in Procs, DecisionNode(x) PROVE RunInv'
<1> DEFINE g == p[x].g
           h == [g EXCEPT !.next = "complete", !.iter = Count(g)]
<1>1. PICK n \in {"approve", "reject"} : NodeDone(x, n, {}, h)
  BY DEF DecisionNode
<1>2. p[x].pc = "graph" /\ g.next = n
  BY <1>1 DEF NodeDone
<1>3. g \in GraphState /\ Sound(g)
  BY <1>2, Invoked
<1>4. g.iter = 4 /\ g.decision \in Decisions /\ g.resume = "none"
  BY <1>2, <1>3 DEF Sound, Decisions
<1>5. /\ h \in GraphState /\ h.next = "complete" /\ h.iter = 5
      /\ h.decision = g.decision /\ h.resume = "none"
  <2>1. Count(g) \in 0..MaxIterations /\ Count(g) = 5
    BY <1>4 DEF Count, MaxIterations
  <2>2. "complete" \in Nodes \cup {"end"}
    BY DEF Nodes
  <2>3. /\ h \in GraphState
        /\ h.next = "complete" /\ h.iter = Count(g)
        /\ h.decision = g.decision /\ h.resume = g.resume
    <3> HIDE DEF g
    <3> QED
      BY <2>1, <2>2, <1>3 DEF GraphState
  <2> QED
    BY <2>1, <2>3, <1>4
<1>6. Sound(h)
  BY <1>4, <1>5 DEF Sound, Decisions
<1> HIDE DEF h
<1> QED
  BY <1>1, <1>4, <1>5, <1>6, NodeStep DEF Nodes, Events

LEMMA CompleteStep == ASSUME RunInv, NEW x \in Procs, CompleteNode(x) PROVE RunInv'
<1> DEFINE g == p[x].g
           h == [g EXCEPT !.next = "end", !.iter = Count(g)]
<1>1. NodeDone(x, "complete", CompletionEvents(g), h)
  BY DEF CompleteNode
<1>2. p[x].pc = "graph" /\ g.next = "complete"
  BY <1>1 DEF NodeDone
<1>3. /\ g \in GraphState /\ Sound(g)
      /\ x \in Reviewers => g.next = "exception" \/ g.decision \in Decisions
  BY <1>2, Invoked
<1>4. g.iter \in {2, 5} /\ (g.decision = "none" => ~g.exc) /\ g.resume = "none"
  BY <1>2, <1>3 DEF Sound
<1>5. /\ h \in GraphState /\ h.next = "end" /\ h.iter \in {3, 6} /\ h.exc = g.exc
      /\ h.decision = g.decision /\ h.resume = "none"
  <2>1. Count(g) \in 0..MaxIterations /\ Count(g) \in {3, 6}
    BY <1>4 DEF Count, MaxIterations
  <2>2. /\ h \in GraphState
        /\ h.next = "end" /\ h.iter = Count(g) /\ h.exc = g.exc
        /\ h.decision = g.decision /\ h.resume = g.resume
    <3> HIDE DEF g
    <3> QED
      BY <2>1, <1>3 DEF GraphState
  <2> QED
    BY <2>1, <2>2, <1>4
<1>6. Sound(h)
  BY <1>4, <1>5 DEF Sound
<1>7. CompletionEvents(g) \in SUBSET Events
  BY DEF CompletionEvents, Events
<1> HIDE DEF h
<1> QED
  BY <1>1, <1>2, <1>3, <1>5, <1>6, <1>7, NodeStep DEF Nodes

-----------------------------------------------------------------------------
(* Steps that move one process and leave the graph where it is *)

\* The parts of the invariant about a process x that has stopped, in a step that
\* changes neither the row nor the checkpoint nor the queue entry: nobody else sees
\* that x is gone, but an unfinished run must still have an owner.
LEMMA StopStep ==
    ASSUME RunInv, NEW x \in Procs, Stop(x), p[x].pc # "off",
           UNCHANGED <<rowVars, decision, ckpt, queueVars>>,
           rows' \in SUBSET Events, rows \subseteq rows', faults' \in 0..MaxFaults,
           lock' = IF x \in Reviewers THEN NoOne ELSE lock,
           faults' >= faults, x = Uploader => faults' > 0
    PROVE  RunInv'
<1>1. /\ p' \in [Procs -> Proc]
      /\ p'[x].pc = "off"
      /\ \A y \in Procs : y # x => p'[y] = p[y]
  BY StopProc DEF RunInv, TypeOK
<1>2. UNCHANGED <<proc, post, decision, ckpt, queue, attempt, buried, replays>>
  BY DEF rowVars, queueVars
<1>3. TypeOK'
  BY <1>1, <1>2 DEF RunInv, TypeOK
<1>4. GraphsSound'
  BY <1>1, <1>2 DEF RunInv, GraphsSound
<1>5. DeliveriesSound'
  BY <1>1, <1>2, Kinds DEF RunInv, DeliveriesSound, DeliverySound, Driving
<1>6. UploadSound'
  BY <1>1, <1>2, Kinds DEF RunInv, UploadSound
<1>7. ReviewsSound'
  <2>1. ASSUME NEW y \in Reviewers PROVE ReviewSound(y)'
    <3>1. CASE y = x
      BY <3>1, <1>1 DEF ReviewSound
    <3>2. CASE y # x /\ p[y].pc = "off"
      BY <3>2, <1>1, Kinds DEF ReviewSound
    <3>3. CASE y # x /\ p[y].pc # "off"
      <4>1. x \notin Reviewers
        BY <3>3, Kinds DEF RunInv, ReviewsSound, ReviewSound
      <4> QED
        BY <4>1, <3>3, <1>1, <1>2, Kinds DEF RunInv, ReviewsSound, ReviewSound
    <3> QED
      BY <3>1, <3>2, <3>3
  <2> QED
    BY <2>1, <1>2 DEF RunInv, ReviewsSound
<1>8. RowSound'
  <2>1. proc \in Unfinished =>
           queue # "gone" \/ p'[Uploader].pc # "off" \/ (attempt = 0 /\ faults' > 0)
    <3>1. CASE x = Uploader
      BY <3>1 DEF RunInv, UploadSound
    <3>2. CASE x # Uploader
      BY <3>2, <1>1, Kinds DEF RunInv, RowSound, TypeOK
    <3> QED
      BY <3>1, <3>2
  <2> QED
    BY <2>1, <1>2 DEF RunInv, RowSound
<1>9. OutcomeSound'
  BY <1>2
     DEF RunInv, OutcomeSound, DecisionMatchesCheckpoint, PostingFollowsDecision, PostingIsEarned
<1> QED
  BY <1>3, <1>4, <1>5, <1>6, <1>7, <1>8, <1>9 DEF RunInv

\* The same for a process that goes on elsewhere, to a place whose conditions hold.
LEMMA GotoStep ==
    ASSUME RunInv, NEW x \in Procs, NEW label, Goto(x, label), p[x].pc # "off",
           UNCHANGED <<rowVars, reviewVars, ckpt, queueVars>>,
           rows' \in SUBSET Events, rows \subseteq rows', faults' \in 0..MaxFaults,
           faults' >= faults,
           label \in {"persist", "fail", "mark", "ack", "commit"},
           label \in {"persist", "fail"} => p[x].pc \in Driving /\ x \notin Reviewers,
           label = "persist" =>
              /\ p[x].pc = "graph"
              /\ \/ p[x].g.next = "end"
                 \/ p[x].g.next = "exception" /\ "exception_raised" \in rows',
           label = "mark" => x \in Deliveries,
           label = "ack" => x \in Deliveries /\ proc \notin {"none", "running", "retrying"},
           label = "commit" => x \in Reviewers /\ ckpt.decision = p[x].want
    PROVE  RunInv'
<1>1. /\ p' \in [Procs -> Proc]
      /\ p'[x].pc = label
      /\ p'[x].g = p[x].g
      /\ p'[x].loadedProc = p[x].loadedProc
      /\ p'[x].loadedPost = p[x].loadedPost
      /\ p'[x].replay = p[x].replay
      /\ p'[x].want = p[x].want
      /\ \A y \in Procs : y # x => p'[y] = p[y]
  BY GotoProc DEF RunInv, TypeOK
<1>2. UNCHANGED <<proc, post, decision, lock, ckpt, queue, attempt, buried, replays>>
  BY DEF rowVars, reviewVars, queueVars
<1>3. TypeOK'
  BY <1>1, <1>2 DEF RunInv, TypeOK
<1>4. GraphsSound'
  <2>1. \A y \in Procs : p'[y].pc \in {"graph", "persist"} =>
           p[y].pc \in {"graph", "persist"} /\ p'[y].g = p[y].g
    BY <1>1
  <2>2. \A y \in Procs : p'[y].pc = "persist" =>
           \/ p'[y].g.next = "end"
           \/ p'[y].g.next = "exception" /\ "exception_raised" \in rows'
    BY <1>1 DEF RunInv, GraphsSound
  <2> QED
    BY <2>1, <2>2, <1>2 DEF RunInv, GraphsSound
<1>5. DeliveriesSound'
  BY <1>1, <1>2, Kinds DEF RunInv, DeliveriesSound, DeliverySound, Driving
<1>6. UploadSound'
  BY <1>1, <1>2, Kinds DEF RunInv, UploadSound
<1>7. ReviewsSound'
  BY <1>1, <1>2, Kinds DEF RunInv, ReviewsSound, ReviewSound
<1>8. RowSound'
  BY <1>1, <1>2, Kinds DEF RunInv, RowSound, TypeOK
<1>9. OutcomeSound'
  BY <1>2
     DEF RunInv, OutcomeSound, DecisionMatchesCheckpoint, PostingFollowsDecision, PostingIsEarned
<1> QED
  BY <1>3, <1>4, <1>5, <1>6, <1>7, <1>8, <1>9 DEF RunInv

\* A delivery that fails is marked after its last attempt and else left to a retry.
LEMMA AfterFailureStep ==
    ASSUME RunInv, NEW x \in Deliveries, AfterFailure(x), p[x].pc # "off",
           UNCHANGED <<rowVars, reviewVars, rows, ckpt, queueVars>>,
           faults' \in 0..MaxFaults, faults' >= faults
    PROVE  RunInv'
<1>1. x \in Procs /\ x \notin Reviewers /\ x # Uploader /\ UNCHANGED <<decision, lock>>
  BY Kinds DEF reviewVars
<1>2. rows' \in SUBSET Events /\ rows \subseteq rows'
  BY DEF RunInv, TypeOK
<1>3. CASE Goto(x, "mark")
  BY <1>1, <1>2, <1>3, GotoStep
<1>4. CASE Stop(x)
  BY <1>1, <1>2, <1>4, StopStep
<1> QED
  BY <1>3, <1>4 DEF AfterFailure

LEMMA InterruptStep == ASSUME RunInv, NEW x \in Procs, InterruptNode(x) PROVE RunInv'
<1>1. /\ p[x].pc = "graph" /\ p[x].g.next = "exception"
      /\ p[x].pc # "off" /\ p[x].pc \in Driving /\ p[x].pc \in Working
      /\ p[x].g.resume = "none"
      /\ rows' = rows \cup {"exception_raised"}
      /\ UNCHANGED <<rowVars, decision, ckpt, queueVars>> /\ faults' = faults
  BY DEF InterruptNode, Driving, Working
<1>2. /\ rows' \in SUBSET Events /\ rows \subseteq rows' /\ "exception_raised" \in rows'
      /\ faults' \in 0..MaxFaults /\ faults' >= faults
  BY <1>1 DEF RunInv, TypeOK, Events
<1>3. CASE x \in Reviewers
  <2>1. lock' = NoOne /\ Stop(x) /\ x # Uploader
    BY <1>3, Kinds DEF InterruptNode
  <2> QED
    BY <2>1, <1>1, <1>2, <1>3, StopStep
<1>4. CASE x \notin Reviewers
  <2>1. lock' = lock /\ Goto(x, "persist")
    BY <1>4 DEF InterruptNode
  <2>2. UNCHANGED reviewVars
    BY <2>1, <1>1 DEF reviewVars
  <2> QED
    BY <2>1, <2>2, <1>1, <1>2, <1>4, GotoStep
<1> QED
  BY <1>3, <1>4

LEMMA ReturnStep == ASSUME RunInv, NEW x \in Procs, GraphReturns(x) PROVE RunInv'
<1>1. /\ p[x].pc = "graph" /\ p[x].g.next = "end"
      /\ p[x].pc # "off" /\ p[x].pc \in Driving
      /\ UNCHANGED <<rowVars, decision, ckpt, queueVars>> /\ rows' = rows /\ faults' = faults
  BY DEF GraphReturns, Driving
<1>2. /\ rows' \in SUBSET Events /\ rows \subseteq rows'
      /\ faults' \in 0..MaxFaults /\ faults' >= faults
  BY <1>1 DEF RunInv, TypeOK
<1>3. CASE x \in Reviewers /\ p[x].g.decision = p[x].want
  <2>1. Goto(x, "commit") /\ UNCHANGED reviewVars
    BY <1>3, <1>1 DEF GraphReturns, reviewVars
  <2>2. ckpt.decision = p[x].want
    BY <1>1, <1>3, Invoked DEF Same
  <2> QED
    BY <2>1, <2>2, <1>1, <1>2, <1>3, GotoStep
<1>4. CASE x \in Reviewers /\ p[x].g.decision # p[x].want
  <2>1. lock' = NoOne /\ Stop(x) /\ x # Uploader
    BY <1>4, Kinds DEF GraphReturns
  <2> QED
    BY <2>1, <1>1, <1>2, <1>4, StopStep
<1>5. CASE x \notin Reviewers
  <2>1. Goto(x, "persist") /\ UNCHANGED reviewVars
    BY <1>5, <1>1 DEF GraphReturns, reviewVars
  <2> QED
    BY <2>1, <1>1, <1>2, <1>5, GotoStep
<1> QED
  BY <1>3, <1>4, <1>5

\* A node moves one process along, or is its last.
LEMMA GraphStep == ASSUME RunInv, NEW x \in Procs, Graph(x) PROVE RunInv'
  BY ExtractStep, MatchStep, SupervisorStep, ExceptionStep, InterruptStep, DecisionStep,
     CompleteStep, ReturnStep DEF Graph

LEMMA InvocationFailsStep ==
    ASSUME RunInv, NEW x \in Procs, InvocationFails(x) PROVE RunInv'
<1>1. /\ p[x].pc \in {"lookup", "load", "snapshot", "graph", "persist", "fail"}
      /\ p[x].pc # "off"
      /\ UNCHANGED <<rowVars, decision, rows, ckpt, queueVars>>
  BY DEF InvocationFails
<1>2. faults' \in 0..MaxFaults /\ faults' >= faults
  BY RunsAssumption DEF InvocationFails, RunInv, TypeOK
<1>3. rows' \in SUBSET Events /\ rows \subseteq rows'
  BY <1>1 DEF RunInv, TypeOK
<1>4. CASE x \in Reviewers
  <2>1. Stop(x) /\ lock' = NoOne /\ x # Uploader
    BY <1>4, Kinds DEF InvocationFails
  <2> QED
    BY <2>1, <1>1, <1>2, <1>3, <1>4, StopStep
<1>5. CASE x \notin Reviewers /\ p[x].pc \in {"snapshot", "graph"}
  <2>1. Goto(x, "fail") /\ UNCHANGED reviewVars
    BY <1>5, <1>1 DEF InvocationFails, reviewVars
  <2>2. p[x].pc \in Driving
    BY <1>5 DEF Driving
  <2> QED
    BY <2>1, <2>2, <1>1, <1>2, <1>3, <1>5, GotoStep
<1>6. CASE x = Uploader /\ p[x].pc \notin {"snapshot", "graph"}
  <2>1. p[x].pc \in {"persist", "fail"}
    BY <1>1, <1>6 DEF RunInv, UploadSound
  <2>2. x \notin Reviewers
    BY <1>6, Kinds
  <2>3. Stop(x) /\ lock' = lock
    BY <1>6, <2>2 DEF InvocationFails
  <2>4. faults' > 0
    BY <1>6, <2>1, RunsAssumption DEF InvocationFails, RunInv, TypeOK
  <2> QED
    BY <2>2, <2>3, <2>4, <1>1, <1>2, <1>3, StopStep
<1>7. CASE x \in Deliveries /\ p[x].pc \notin {"snapshot", "graph"}
  <2>1. AfterFailure(x) /\ UNCHANGED reviewVars
    BY <1>7, <1>1, Kinds DEF InvocationFails, reviewVars
  <2> QED
    BY <2>1, <1>1, <1>2, <1>7, AfterFailureStep
<1> QED
  BY <1>4, <1>5, <1>6, <1>7, Kinds

LEMMA CrashStep == ASSUME RunInv, NEW x \in Procs, Crash(x) PROVE RunInv'
<1>1. /\ p[x].pc # "off" /\ Stop(x)
      /\ UNCHANGED <<rowVars, decision, rows, ckpt, queueVars>>
      /\ lock' = IF lock = x THEN NoOne ELSE lock
  BY DEF Crash
<1>2. faults' \in 0..MaxFaults /\ faults' >= faults /\ faults' > 0
  BY RunsAssumption DEF Crash, RunInv, TypeOK
<1>3. rows' \in SUBSET Events /\ rows \subseteq rows'
  BY <1>1 DEF RunInv, TypeOK
<1>4. x \in Reviewers => lock = x
  BY <1>1 DEF RunInv, ReviewsSound, ReviewSound
<1>5. x \notin Reviewers => lock' = lock
  BY <1>1 DEF RunInv, TypeOK
<1> QED
  BY <1>1, <1>2, <1>3, <1>4, <1>5, StopStep

-----------------------------------------------------------------------------
(* Deliveries and the queue entry *)

LEMMA DeliverStep == ASSUME RunInv, NEW x \in Deliveries, Deliver(x) PROVE RunInv'
<1> DEFINE r == [Off EXCEPT !.pc = "lookup", !.replay = (queue = "replay"),
                            !.last = (attempt + 1 >= MaxAttempts)]
<1>1. /\ queue # "gone" /\ attempt < MaxDeliveries /\ attempt' = attempt + 1
      /\ \A y \in Deliveries : p[y].pc = "off"
      /\ p' = [p EXCEPT ![x] = r]
      /\ UNCHANGED <<proc, post, decision, lock, rows, ckpt, queue, buried, replays, faults>>
  BY DEF Deliver, Delivering, rowVars, reviewVars
<1>2. r \in Proc /\ r.pc = "lookup"
  <2>1. (queue = "replay") \in BOOLEAN /\ (attempt + 1 >= MaxAttempts) \in BOOLEAN
    OBVIOUS
  <2>2. ASSUME NEW a \in BOOLEAN, NEW b \in BOOLEAN
        PROVE  LET s == [Off EXCEPT !.pc = "lookup", !.replay = a, !.last = b] IN
               s \in Proc /\ s.pc = "lookup"
    BY OffProc DEF Proc
  <2> QED
    BY <2>1, <2>2
<1> HIDE DEF r
<1>3. x \in Procs /\ x # Uploader /\ x \notin Reviewers
  BY Kinds
<1>4. /\ p' \in [Procs -> Proc] /\ p'[x].pc = "lookup"
      /\ \A y \in Procs : y # x => p'[y] = p[y]
  BY <1>1, <1>2, <1>3, PutProc DEF RunInv, TypeOK
<1>5. p[Uploader].pc = "off" /\ p'[Uploader] = p[Uploader]
  BY <1>1, <1>3, <1>4, Kinds DEF RunInv, UploadSound
<1>6. TypeOK'
  <2>1. attempt' \in 0..MaxDeliveries
    BY <1>1, RunsAssumption DEF RunInv, TypeOK
  <2> QED
    BY <2>1, <1>1, <1>4 DEF RunInv, TypeOK
<1>7. GraphsSound'
  BY <1>1, <1>4 DEF RunInv, GraphsSound
<1>8. DeliveriesSound'
  BY <1>1, <1>4, Kinds DEF DeliveriesSound, DeliverySound, Driving
<1>9. UploadSound'
  BY <1>5 DEF UploadSound
<1>10. ReviewsSound'
  BY <1>1, <1>3, <1>4, Kinds DEF RunInv, ReviewsSound, ReviewSound
<1>11. RowSound' /\ OutcomeSound'
  BY <1>1
     DEF RunInv, RowSound, OutcomeSound, DecisionMatchesCheckpoint, PostingFollowsDecision,
         PostingIsEarned
<1> QED
  BY <1>6, <1>7, <1>8, <1>9, <1>10, <1>11 DEF RunInv

\* A new run starts as running; then the lookup stops at what is settled, or goes on.
LEMMA LookupStep == ASSUME RunInv, NEW x \in Deliveries, Lookup(x) PROVE RunInv'
<1> DEFINE status == IF proc = "none" THEN "running" ELSE proc
<1>1. /\ p[x].pc = "lookup" /\ p[x].pc # "off" /\ proc' = status
      /\ UNCHANGED <<post, decision, lock, rows, ckpt, queue, attempt, buried, replays, faults>>
  BY DEF Lookup, reviewVars, queueVars
<1>2. x \in Procs /\ x # Uploader /\ x \notin Reviewers
  BY Kinds
<1>3. /\ queue # "gone" /\ p[Uploader].pc = "off"
      /\ \A y \in Deliveries : y # x => p[y].pc = "off"
  BY <1>1, OneDelivery
<1>4. faults' \in 0..MaxFaults /\ faults' >= faults /\ rows' \in SUBSET Events
  BY <1>1 DEF RunInv, TypeOK
<1>5. CASE status = "failed" /\ ~p[x].replay
  <2>1. AfterFailure(x) /\ UNCHANGED <<rowVars, reviewVars, rows, ckpt, queueVars>>
    BY <1>5, <1>1 DEF Lookup, ShortCircuit, rowVars, reviewVars, queueVars
  <2> QED
    BY <2>1, <1>1, <1>4, AfterFailureStep
<1>6. CASE status \in ShortCircuit
  <2>1. Goto(x, "ack")
    BY <1>6 DEF Lookup, ShortCircuit
  <2>2. /\ UNCHANGED <<rowVars, reviewVars, ckpt, queueVars>>
        /\ proc \notin {"none", "running", "retrying"}
    BY <1>6, <1>1 DEF ShortCircuit, rowVars, reviewVars, queueVars
  <2> QED
    BY <2>1, <2>2, <1>1, <1>2, <1>4, GotoStep
<1>7. CASE ~(status = "failed" /\ ~p[x].replay) /\ status \notin ShortCircuit
  <2>1. Goto(x, "load")
    BY <1>7 DEF Lookup
  <2>2. /\ p' \in [Procs -> Proc] /\ p'[x].pc = "load" /\ p'[x].replay = p[x].replay
        /\ \A y \in Procs : y # x => p'[y] = p[y]
    BY <2>1, <1>2, GotoProc DEF RunInv, TypeOK
  <2>3. proc' \in Unfinished \/ (proc' = "failed" /\ p[x].replay)
    BY <1>1, <1>7 DEF RunInv, TypeOK, RunStatus, ShortCircuit, Unfinished
  <2>4. /\ p'[Uploader] = p[Uploader]
        /\ \A y \in Reviewers : p'[y] = p[y] /\ lock' = lock
        /\ \A y \in Deliveries : y # x => p'[y].pc = "off"
    BY <2>2, <1>1, <1>2, <1>3, Kinds
  <2>5. TypeOK'
    BY <2>2, <1>1 DEF RunInv, TypeOK, RunStatus
  <2>6. GraphsSound'
    BY <2>2, <1>1 DEF RunInv, GraphsSound
  <2>7. DeliveriesSound'
    BY <2>2, <2>3, <2>4, <1>1, <1>3 DEF DeliveriesSound, DeliverySound, Driving
  <2>8. UploadSound'
    BY <2>4, <1>3 DEF UploadSound
  <2>9. ReviewsSound'
    BY <2>4, <1>1 DEF RunInv, ReviewsSound, ReviewSound
  <2>10. RowSound'
    BY <1>1, <1>3 DEF RunInv, RowSound
  <2>11. OutcomeSound'
    BY <1>1
       DEF RunInv, RowSound, OutcomeSound, DecisionMatchesCheckpoint,
           PostingFollowsDecision, PostingIsEarned
  <2> QED
    BY <2>5, <2>6, <2>7, <2>8, <2>9, <2>10, <2>11 DEF RunInv
<1> QED
  BY <1>5, <1>6, <1>7

LEMMA LoadStep == ASSUME RunInv, NEW x \in Deliveries, Load(x) PROVE RunInv'
<1> DEFINE reopen == p[x].replay /\ proc = "failed"
           status == IF reopen THEN "retrying" ELSE proc
           posting == IF reopen THEN "not_ready" ELSE post
<1>1. /\ p[x].pc = "load" /\ p[x].pc # "off"
      /\ reopen => lock = NoOne
      /\ proc' = status /\ post' = posting
      /\ p' = [p EXCEPT ![x].pc = "snapshot", ![x].loadedProc = status,
                        ![x].loadedPost = posting]
      /\ UNCHANGED <<decision, lock, rows, ckpt, queue, attempt, buried, replays, faults>>
  BY DEF Load, RowFree, reviewVars, queueVars
<1>2. x \in Procs /\ x # Uploader /\ x \notin Reviewers
  BY Kinds
<1>3. /\ queue # "gone" /\ p[Uploader].pc = "off"
      /\ \A y \in Deliveries : y # x => p[y].pc = "off"
  BY <1>1, OneDelivery
<1>4. proc \in Unfinished \/ reopen
  BY <1>1 DEF RunInv, DeliveriesSound, DeliverySound
<1>5. /\ proc' \in Unfinished /\ post' = "not_ready" /\ lock = NoOne
      /\ status \in RunStatus /\ posting \in PostingStatus
  BY <1>1, <1>4
     DEF RunInv, RowSound, ReviewsSound, Unfinished, RunStatus, PostingStatus
<1> HIDE DEF status, posting
<1>6. /\ p' \in [Procs -> Proc] /\ p'[x].pc = "snapshot"
      /\ p'[x].loadedProc = status /\ p'[x].loadedPost = posting
      /\ \A y \in Procs : y # x => p'[y] = p[y]
  <2>1. p \in [Procs -> Proc] /\ p[x] \in Proc
    BY <1>2 DEF RunInv, TypeOK
  <2>2. LET r == [p[x] EXCEPT !.pc = "snapshot", !.loadedProc = status,
                              !.loadedPost = posting] IN
        /\ r \in Proc /\ r.pc = "snapshot" /\ r.loadedProc = status /\ r.loadedPost = posting
        /\ p' = [p EXCEPT ![x] = r]
    BY <2>1, <1>1, <1>2, <1>5 DEF Proc
  <2> QED
    BY <2>1, <2>2, <1>2, PutProc
<1>7. /\ p'[Uploader] = p[Uploader]
      /\ \A y \in Reviewers : p'[y] = p[y]
      /\ \A y \in Deliveries : y # x => p'[y].pc = "off"
  BY <1>2, <1>3, <1>6, Kinds
<1>8. TypeOK'
  BY <1>1, <1>5, <1>6 DEF RunInv, TypeOK
<1>9. GraphsSound'
  BY <1>1, <1>6 DEF RunInv, GraphsSound
<1>10. DeliveriesSound'
  BY <1>1, <1>3, <1>5, <1>6, <1>7 DEF DeliveriesSound, DeliverySound, Driving
<1>11. UploadSound'
  BY <1>3, <1>7 DEF UploadSound
<1>12. ReviewsSound'
  <2>1. UNCHANGED <<lock, ckpt, decision>>
    BY <1>1
  <2> QED
    BY <2>1, <1>5, <1>7 DEF RunInv, ReviewsSound, ReviewSound
<1>13. RowSound'
  BY <1>1, <1>3, <1>5 DEF RunInv, RowSound, Unfinished
<1>14. OutcomeSound'
  BY <1>1, <1>5
     DEF RunInv, OutcomeSound, DecisionMatchesCheckpoint, PostingFollowsDecision,
         PostingIsEarned, Unfinished
<1> QED
  BY <1>8, <1>9, <1>10, <1>11, <1>12, <1>13, <1>14 DEF RunInv

\* A delivery takes up the checkpoint, or writes the first one.
LEMMA SnapshotStep == ASSUME RunInv, NEW x \in Deliveries, Snapshot(x) PROVE RunInv'
<1>1. /\ p[x].pc = "snapshot" /\ p[x].pc # "off" /\ p[x].pc \in Working
      /\ UNCHANGED <<proc, post, decision, lock, rows, queue, attempt, buried, replays, faults>>
  BY DEF Snapshot, rowVars, reviewVars, queueVars, Working, Driving
<1>2. x \in Procs /\ x # Uploader /\ x \notin Reviewers
  BY Kinds
<1>3. /\ \A y \in Procs : p[y].pc \in Working => y = x
      /\ post = "not_ready" /\ proc \in Unfinished /\ lock = NoOne
  BY <1>1, <1>2, OneDriver
<1>4. TypeOK /\ p \in [Procs -> Proc] /\ p[x] \in Proc /\ ckpt \in GraphState /\ Sound(ckpt)
  <2>1. TypeOK /\ Sound(ckpt)
    BY DEF RunInv, GraphsSound
  <2> QED
    BY <2>1, <1>2 DEF TypeOK
<1>5. PICK label \in {"persist", "graph"}, g \in GraphState :
        /\ p' = [p EXCEPT ![x].pc = label, ![x].g = g]
        /\ ckpt' = g /\ Sound(g)
        /\ ckpt.decision # "none" => g = ckpt
        /\ label = "persist" => g.next = "end"
  <2>1. CASE ckpt.next = "end"
    BY <2>1, <1>4 DEF Snapshot, Nodes
  <2>2. CASE ckpt.next \in Nodes
    BY <2>2, <1>4 DEF Snapshot, Nodes
  <2>3. CASE ckpt.next = "none"
    BY <2>3, <1>4, InitialGraphs DEF Snapshot, Nodes, Sound
  <2> QED
    BY <2>1, <2>2, <2>3 DEF Snapshot
<1>6. /\ p' \in [Procs -> Proc] /\ p'[x].pc = label /\ p'[x].g = g
      /\ p'[x].loadedProc = p[x].loadedProc /\ p'[x].loadedPost = p[x].loadedPost
      /\ \A y \in Procs : y # x => p'[y] = p[y]
  <2>1. LET r == [p[x] EXCEPT !.pc = label, !.g = g] IN
        /\ r \in Proc /\ r.pc = label /\ r.g = g
        /\ r.loadedProc = p[x].loadedProc /\ r.loadedPost = p[x].loadedPost
        /\ p' = [p EXCEPT ![x] = r]
    BY <1>2, <1>4, <1>5 DEF Proc
  <2> QED
    BY <2>1, <1>2, <1>4, PutProc
<1>7. TypeOK'
  BY <1>1, <1>4, <1>5, <1>6 DEF TypeOK
<1>8. GraphsSound'
  BY <1>3, <1>5, <1>6 DEF GraphsSound, Same, Working, Driving
<1>9. DeliveriesSound'
  BY <1>1, <1>5, <1>6, Kinds DEF RunInv, DeliveriesSound, DeliverySound, Driving
<1>10. UploadSound'
  BY <1>1, <1>2, <1>6, Kinds DEF RunInv, UploadSound
<1>11. ReviewsSound'
  <2>1. ASSUME NEW y \in Reviewers PROVE ReviewSound(y)'
    <3>1. p[y].pc = "off" /\ p'[y] = p[y]
      BY <1>2, <1>3, <1>6, Kinds DEF RunInv, ReviewsSound, ReviewSound
    <3> QED
      BY <3>1 DEF ReviewSound
  <2> QED
    BY <2>1, <1>1, <1>3 DEF ReviewsSound
<1>12. RowSound'
  BY <1>1, <1>2, <1>3, <1>6, Kinds DEF RunInv, RowSound, Unfinished
<1>13. OutcomeSound'
  BY <1>1, <1>3, <1>5
     DEF RunInv, OutcomeSound, DecisionMatchesCheckpoint, PostingFollowsDecision,
         PostingIsEarned, Unfinished
<1> QED
  BY <1>7, <1>8, <1>9, <1>10, <1>11, <1>12, <1>13 DEF RunInv

\* What a step of a driver that writes the row has to keep: the row gets a settled or
\* a retried state, the driver goes to a place that fits it, and everyone else is idle.
LEMMA RowStep ==
    ASSUME RunInv, NEW x \in Deliveries \cup {Uploader}, p[x].pc \in Driving, lock = NoOne,
           UNCHANGED <<reviewVars, rows, ckpt, queueVars, faults>>,
           proc' \in {"retrying", "awaiting_review", "complete", "failed"},
           post' \in PostingStatus,
           post' # "not_ready" => proc' = "complete",
           proc' = "awaiting_review" =>
              /\ "exception_raised" \in rows
              /\ ckpt.next = "exception" \/ ckpt.decision \in Decisions,
           decision # "none" /\ proc' = "complete" => post' = PostingOf(decision),
           post' = "ready_for_posting" =>
              ckpt.decision = "approved" \/ (ckpt.recon /\ ~ckpt.exc),
           \/ Stop(x) /\ (x = Uploader => proc' # "retrying")
           \/ x \in Deliveries /\ Goto(x, "ack") /\ proc' # "retrying"
           \/ x \in Deliveries /\ Goto(x, "mark")
    PROVE  RunInv'
<1>1. x \in Procs /\ x \notin Reviewers /\ p[x].pc \in Working /\ p[x].pc # "off"
  BY Kinds DEF Working, Driving
<1>2. UNCHANGED <<decision, lock, rows, ckpt, queue, attempt, buried, replays, faults>>
  BY DEF reviewVars, queueVars
<1>3. /\ p' \in [Procs -> Proc] /\ p'[x].pc \in {"off", "ack", "mark"}
      /\ p'[x].pc = "ack" => proc' # "retrying"
      /\ p'[x].pc # "off" => x \in Deliveries
      /\ \A y \in Procs : y # x => p'[y] = p[y]
  <2>1. CASE Stop(x)
    BY <2>1, <1>1, StopProc DEF RunInv, TypeOK
  <2>2. CASE x \in Deliveries /\ Goto(x, "ack") /\ proc' # "retrying"
    BY <2>2, <1>1, GotoProc DEF RunInv, TypeOK
  <2>3. CASE x \in Deliveries /\ Goto(x, "mark")
    BY <2>3, <1>1, GotoProc DEF RunInv, TypeOK
  <2> QED
    BY <2>1, <2>2, <2>3
<1>4. \A y \in Procs : y # x =>
         p[y].pc = "off" /\ p'[y].pc = "off"
  <2>1. ASSUME NEW y \in Procs, y # x PROVE p[y].pc = "off"
    <3>1. CASE y \in Reviewers
      BY <3>1, Kinds DEF RunInv, ReviewsSound, ReviewSound
    <3>2. CASE y \notin Reviewers
      BY <3>2, <2>1, <1>1, Kinds DEF RunInv, DeliveriesSound, DeliverySound, UploadSound
    <3> QED
      BY <3>1, <3>2
  <2> QED
    BY <2>1, <1>3
<1>5. x \in Deliveries => queue # "gone"
  BY <1>1 DEF RunInv, DeliveriesSound, DeliverySound
<1>6. TypeOK'
  BY <1>2, <1>3 DEF RunInv, TypeOK, RunStatus
<1>7. GraphsSound'
  BY <1>2, <1>3, <1>4 DEF RunInv, GraphsSound
<1>8. DeliveriesSound'
  BY <1>2, <1>3, <1>4, <1>5, Kinds DEF DeliveriesSound, DeliverySound, Driving
<1>9. UploadSound'
  BY <1>3, <1>4, Kinds DEF UploadSound
<1>10. ReviewsSound'
  BY <1>1, <1>2, <1>4, Kinds DEF ReviewsSound, ReviewSound
<1>11. RowSound'
  <2>1. x = Uploader => proc' # "retrying"
    BY Kinds
  <2> QED
    BY <2>1, <1>2, <1>5 DEF RowSound, Unfinished
<1>12. OutcomeSound'
  BY <1>2
     DEF RunInv, OutcomeSound, DecisionMatchesCheckpoint, PostingFollowsDecision, PostingIsEarned
<1> QED
  BY <1>6, <1>7, <1>8, <1>9, <1>10, <1>11, <1>12 DEF RunInv

\* The columns a driver writes get the new values, because what it loaded is current.
LEMMA PersistStep ==
    ASSUME RunInv, NEW x \in Deliveries \cup {Uploader}, Persist(x) PROVE RunInv'
<1> DEFINE g == p[x].g
<1>1. /\ p[x].pc = "persist" /\ p[x].pc \in Driving /\ p[x].pc \in Working /\ lock = NoOne
      /\ UNCHANGED <<reviewVars, rows, ckpt, queueVars, faults>>
  BY DEF Persist, RowFree, Driving, Working
<1>2. x \in Procs /\ x \notin Reviewers
  BY Kinds
<1>3. /\ p[x].loadedProc = proc /\ p[x].loadedPost = post /\ proc \in Unfinished
      /\ post = "not_ready"
  BY <1>1, <1>2, OneDriver
<1>4. /\ g \in GraphState /\ Sound(g) /\ Same(g, ckpt)
      /\ g.next = "end" \/ (g.next = "exception" /\ "exception_raised" \in rows)
  BY <1>1, <1>2 DEF RunInv, TypeOK, Proc, GraphsSound
<1>5. /\ proc' = IF g.next = "exception" THEN "awaiting_review" ELSE FinalProc(g)
      /\ post' = IF g.next = "exception" THEN "not_ready" ELSE FinalPost(g)
  BY <1>3, OrmWriteCurrent DEF Persist
<1>6. IF x = Uploader THEN Stop(x) ELSE Goto(x, "ack")
  BY DEF Persist
<1>7. CASE g.next = "exception"
  <2>1. proc' = "awaiting_review" /\ post' = "not_ready" /\ "exception_raised" \in rows
        /\ ckpt.next = "exception"
    BY <1>4, <1>5, <1>7 DEF Same
  <2> QED
    BY <2>1, <1>1, <1>6, RowStep DEF PostingStatus
<1>8. CASE g.next = "end"
  <2>1. ~Unresolved(g) /\ g.decision = ckpt.decision /\ g.exc = ckpt.exc /\ g.recon = ckpt.recon
    BY <1>4, <1>8 DEF Unresolved, Sound, Same, GraphState, Maybe
  <2>2. proc' = "complete" /\ post' = FinalPost(g)
    BY <1>5, <1>8, <2>1 DEF FinalProc
  <2>3. decision # "none" => ckpt.decision = decision /\ decision \in Decisions
    BY DEF RunInv, OutcomeSound, DecisionMatchesCheckpoint, TypeOK, Maybe
  <2>4. decision # "none" => post' = PostingOf(decision)
    BY <2>1, <2>2, <2>3 DEF FinalPost
  <2>5. post' \in PostingStatus
    BY <2>2 DEF FinalPost, PostingOf, PostingStatus
  <2>6. post' = "ready_for_posting" =>
           ckpt.decision = "approved" \/ (ckpt.recon /\ ~ckpt.exc)
    BY <2>1, <2>2 DEF FinalPost, PostingOf, Unresolved, Decisions
  <2> QED
    BY <2>2, <2>4, <2>5, <2>6, <1>1, <1>6, RowStep
<1> QED
  BY <1>4, <1>7, <1>8

LEMMA PersistFailureStep ==
    ASSUME RunInv, NEW x \in Deliveries \cup {Uploader}, PersistFailure(x) PROVE RunInv'
<1>1. /\ p[x].pc = "fail" /\ p[x].pc \in Driving /\ p[x].pc \in Working /\ lock = NoOne
      /\ UNCHANGED <<reviewVars, rows, ckpt, queueVars, faults>>
  BY DEF PersistFailure, RowFree, Driving, Working
<1>2. x \in Procs /\ x \notin Reviewers
  BY Kinds
<1>3. p[x].loadedProc = proc /\ p[x].loadedPost = post /\ post = "not_ready"
  BY <1>1, <1>2, OneDriver
<1>4. /\ proc' = IF x = Uploader THEN "failed" ELSE "retrying"
      /\ post' = "not_ready"
  BY <1>3, OrmWriteCurrent DEF PersistFailure
<1>5. IF x = Uploader THEN Stop(x) ELSE Goto(x, "mark") \/ Stop(x)
  BY DEF PersistFailure, AfterFailure
<1> QED
  BY <1>1, <1>4, <1>5, RowStep DEF PostingStatus

\* The last attempt failed: the row is read, under no lock.
LEMMA LoadJobStep == ASSUME RunInv, NEW x \in Deliveries, LoadJob(x) PROVE RunInv'
<1> DEFINE r == [p[x] EXCEPT !.pc = IF proc = "none" THEN "bury" ELSE "marked",
                             !.loadedProc = proc, !.loadedPost = post]
<1>1. /\ p[x].pc = "mark" /\ p[x].pc # "off" /\ p' = [p EXCEPT ![x] = r]
      /\ UNCHANGED <<proc, post, decision, lock, rows, ckpt, queue, attempt, buried, replays,
                     faults>>
  BY DEF LoadJob, rowVars, reviewVars, queueVars
<1>2. x \in Procs /\ x # Uploader /\ x \notin Reviewers
  BY Kinds
<1>3. r \in Proc
  <2>1. p[x] \in Proc /\ proc \in RunStatus /\ post \in PostingStatus
    BY <1>2 DEF RunInv, TypeOK
  <2> QED
    BY <2>1 DEF Proc
<1>4. r.pc = (IF proc = "none" THEN "bury" ELSE "marked") /\ r.loadedProc = proc
  BY <1>2 DEF RunInv, TypeOK, Proc
<1>5. /\ p' \in [Procs -> Proc] /\ p'[x] = r
      /\ \A y \in Procs : y # x => p'[y] = p[y]
  BY <1>1, <1>2, <1>3, PutProc DEF RunInv, TypeOK
<1>6. /\ queue # "gone" /\ p[Uploader].pc = "off"
      /\ \A y \in Deliveries : y # x => p[y].pc = "off"
  BY <1>1, OneDelivery
<1>7. /\ p'[Uploader] = p[Uploader]
      /\ \A y \in Deliveries : y # x => p'[y].pc = "off"
      /\ \A y \in Reviewers : p'[y] = p[y]
  BY <1>2, <1>5, <1>6, Kinds
<1>8. TypeOK'
  BY <1>1, <1>5 DEF RunInv, TypeOK
<1>9. GraphsSound'
  BY <1>1, <1>4, <1>5 DEF RunInv, GraphsSound
<1>10. DeliveriesSound'
  BY <1>1, <1>4, <1>5, <1>6, <1>7 DEF DeliveriesSound, DeliverySound, Driving
<1>11. UploadSound'
  BY <1>6, <1>7 DEF UploadSound
<1>12. ReviewsSound'
  BY <1>1, <1>7 DEF RunInv, ReviewsSound, ReviewSound
<1>13. RowSound'
  BY <1>1, <1>7 DEF RunInv, RowSound, Unfinished
<1>14. OutcomeSound'
  BY <1>1
     DEF RunInv, OutcomeSound, DecisionMatchesCheckpoint, PostingFollowsDecision, PostingIsEarned
<1> QED
  BY <1>8, <1>9, <1>10, <1>11, <1>12, <1>13, <1>14 DEF RunInv

\* Whatever the row says by then, the run has failed.
LEMMA MarkStep == ASSUME RunInv, NEW x \in Deliveries, MarkJobFailed(x) PROVE RunInv'
<1>1. /\ p[x].pc = "marked" /\ p[x].pc # "off" /\ lock = NoOne
      /\ proc' = "failed" /\ post' \in {post, "not_ready"} /\ Goto(x, "bury")
      /\ UNCHANGED <<decision, lock, rows, ckpt, queue, attempt, buried, replays, faults>>
  BY DEF MarkJobFailed, RowFree, OrmWrite, reviewVars, queueVars, RunInv, DeliveriesSound,
         DeliverySound
<1>2. x \in Procs /\ x # Uploader /\ x \notin Reviewers
  BY Kinds
<1>3. /\ queue # "gone" /\ p[Uploader].pc = "off"
      /\ \A y \in Deliveries : y # x => p[y].pc = "off"
  BY <1>1, OneDelivery
<1>4. /\ p' \in [Procs -> Proc] /\ p'[x].pc = "bury"
      /\ \A y \in Procs : y # x => p'[y] = p[y]
  BY <1>1, <1>2, GotoProc DEF RunInv, TypeOK
<1>5. lock = NoOne /\ proc' \in {"none", "failed"}
  BY <1>1
<1>6. /\ p'[Uploader] = p[Uploader]
      /\ \A y \in Deliveries : y # x => p'[y].pc = "off"
      /\ \A y \in Reviewers : p'[y] = p[y]
  BY <1>2, <1>3, <1>4, Kinds
<1>7. TypeOK'
  BY <1>1, <1>4, <1>5 DEF RunInv, TypeOK, RunStatus, PostingStatus
<1>8. GraphsSound'
  BY <1>1, <1>4 DEF RunInv, GraphsSound
<1>9. DeliveriesSound'
  BY <1>1, <1>3, <1>4, <1>5, <1>6 DEF DeliveriesSound, DeliverySound, Driving
<1>10. UploadSound'
  BY <1>3, <1>6 DEF UploadSound
<1>11. ReviewsSound'
  BY <1>1, <1>5, <1>6 DEF RunInv, ReviewsSound, ReviewSound
<1>12. RowSound'
  BY <1>1 DEF RunInv, RowSound, Unfinished
<1>13. OutcomeSound'
  BY <1>1, <1>5
     DEF RunInv, OutcomeSound, DecisionMatchesCheckpoint, PostingFollowsDecision, PostingIsEarned
<1> QED
  BY <1>7, <1>8, <1>9, <1>10, <1>11, <1>12, <1>13 DEF RunInv

\* The entry ends, in the dead-letter list or acknowledged; the run is settled.
LEMMA EntryEnds ==
    ASSUME RunInv, NEW x \in Deliveries, p[x].pc \in {"bury", "ack"}, Stop(x),
           queue' = "gone", buried' = (buried \/ p[x].pc = "bury"),
           UNCHANGED <<rowVars, reviewVars, rows, ckpt, attempt, replays, faults>>
    PROVE  RunInv'
<1>1. UNCHANGED <<proc, post, decision, lock, rows, ckpt, attempt, replays, faults>>
  BY DEF rowVars, reviewVars
<1>2. x \in Procs /\ x # Uploader /\ x \notin Reviewers /\ p[x].pc # "off"
  BY Kinds
<1>3. p[Uploader].pc = "off" /\ \A y \in Deliveries : y # x => p[y].pc = "off"
  BY <1>2, OneDelivery
<1>4. /\ p' \in [Procs -> Proc] /\ p'[x].pc = "off"
      /\ \A y \in Procs : y # x => p'[y] = p[y]
  BY <1>2, StopProc DEF RunInv, TypeOK
<1>5. /\ p'[Uploader].pc = "off"
      /\ \A y \in Deliveries : p'[y].pc = "off"
      /\ \A y \in Reviewers : p'[y] = p[y]
  BY <1>2, <1>3, <1>4, Kinds
<1>6. proc \notin Unfinished /\ (proc = "none" => buried')
  BY DEF RunInv, DeliveriesSound, DeliverySound, Unfinished
<1>7. TypeOK'
  <2>1. buried' \in BOOLEAN
    BY DEF RunInv, TypeOK
  <2> QED
    BY <2>1, <1>1, <1>4 DEF RunInv, TypeOK
<1>8. GraphsSound'
  BY <1>1, <1>4 DEF RunInv, GraphsSound
<1>9. DeliveriesSound' /\ UploadSound'
  BY <1>5 DEF DeliveriesSound, DeliverySound, UploadSound, Driving
<1>10. ReviewsSound'
  BY <1>1, <1>5 DEF RunInv, ReviewsSound, ReviewSound
<1>11. RowSound'
  BY <1>1, <1>6 DEF RunInv, RowSound
<1>12. OutcomeSound'
  BY <1>1
     DEF RunInv, OutcomeSound, DecisionMatchesCheckpoint, PostingFollowsDecision, PostingIsEarned
<1> QED
  BY <1>7, <1>8, <1>9, <1>10, <1>11, <1>12 DEF RunInv

LEMMA BuryStep == ASSUME RunInv, NEW x \in Deliveries, Bury(x) PROVE RunInv'
<1>1. p[x].pc \in {"bury", "ack"} /\ buried' = (buried \/ p[x].pc = "bury")
  BY DEF Bury
<1> QED
  BY <1>1, EntryEnds DEF Bury

LEMMA AcknowledgeStep == ASSUME RunInv, NEW x \in Deliveries, Acknowledge(x) PROVE RunInv'
<1>1. p[x].pc \in {"bury", "ack"} /\ buried' = (buried \/ p[x].pc = "bury")
  BY DEF Acknowledge, RunInv, TypeOK
<1> QED
  BY <1>1, EntryEnds DEF Acknowledge

LEMMA ReplayStep == ASSUME RunInv, Replay PROVE RunInv'
<1>1. /\ buried /\ queue = "gone" /\ replays < MaxReplays /\ replays' = replays + 1
      /\ queue' = "replay" /\ attempt' = 0
      /\ UNCHANGED <<proc, post, decision, lock, rows, ckpt, buried, p, faults>>
  BY DEF Replay, rowVars, reviewVars
<1>2. TypeOK'
  <2>1. replays' \in 0..MaxReplays /\ attempt' \in 0..MaxDeliveries
    BY <1>1, RunsAssumption DEF RunInv, TypeOK
  <2> QED
    BY <2>1, <1>1 DEF RunInv, TypeOK
<1>3. GraphsSound' /\ ReviewsSound'
  BY <1>1 DEF RunInv, GraphsSound, ReviewsSound, ReviewSound
<1>4. DeliveriesSound'
  BY <1>1 DEF RunInv, DeliveriesSound, DeliverySound, Driving
<1>5. UploadSound'
  BY <1>1 DEF RunInv, UploadSound
<1>6. RowSound' /\ OutcomeSound'
  BY <1>1
     DEF RunInv, RowSound, OutcomeSound, DecisionMatchesCheckpoint, PostingFollowsDecision,
         PostingIsEarned
<1> QED
  BY <1>2, <1>3, <1>4, <1>5, <1>6 DEF RunInv

LEMMA UploadStep == ASSUME RunInv, Upload PROVE RunInv'
<1> DEFINE r == [Off EXCEPT !.pc = "graph", !.g = InitialState, !.loadedProc = "running"]
<1>1. /\ queue = "gone" /\ proc = "none" /\ ~buried /\ p[Uploader].pc = "off"
      /\ proc' = "running" /\ ckpt' = InitialState
      /\ p' = [p EXCEPT ![Uploader] = r]
      /\ UNCHANGED <<post, decision, lock, rows, queue, attempt, buried, replays, faults>>
  BY DEF Upload, reviewVars, queueVars
<1>2. /\ r \in Proc /\ r.pc = "graph" /\ r.g = InitialState
      /\ r.loadedProc = "running" /\ r.loadedPost = "not_ready"
  BY InitialGraphs, OffProc DEF Off, Proc, RunStatus
<1> HIDE DEF r
<1>3. /\ p' \in [Procs -> Proc] /\ p'[Uploader] = r
      /\ \A y \in Procs : y # Uploader => p'[y] = p[y]
  BY <1>1, <1>2, Kinds, PutProc DEF RunInv, TypeOK
<1>4. post = "not_ready" /\ decision = "none" /\ attempt = 0 /\ lock = NoOne
  BY <1>1 DEF RunInv, RowSound, ReviewsSound
<1>5. \A y \in Procs : y # Uploader => p'[y].pc = "off"
  BY <1>1, <1>3, <1>4, Kinds
     DEF RunInv, DeliveriesSound, DeliverySound, ReviewsSound, ReviewSound
<1>6. TypeOK'
  BY <1>1, <1>3, InitialGraphs DEF RunInv, TypeOK, RunStatus
<1>7. GraphsSound'
  BY <1>1, <1>2, <1>3, <1>5, InitialGraphs DEF GraphsSound, Same
<1>8. DeliveriesSound' /\ ReviewsSound'
  BY <1>1, <1>4, <1>5, Kinds
     DEF DeliveriesSound, DeliverySound, Driving, ReviewsSound, ReviewSound
<1>9. UploadSound'
  BY <1>1, <1>2, <1>3, <1>4 DEF UploadSound
<1>10. RowSound' /\ OutcomeSound'
  BY <1>1, <1>2, <1>3, <1>4
     DEF RowSound, OutcomeSound, DecisionMatchesCheckpoint, PostingFollowsDecision,
         PostingIsEarned
<1> QED
  BY <1>6, <1>7, <1>8, <1>9, <1>10 DEF RunInv

-----------------------------------------------------------------------------
(* Reviews *)

LEMMA LockStep ==
    ASSUME RunInv, NEW x \in Reviewers, NEW d \in Decisions, LockRun(x, d) PROVE RunInv'
<1> DEFINE r == [Off EXCEPT !.pc = "snapshot", !.want = d, !.loadedProc = proc,
                            !.loadedPost = post]
<1>1. /\ lock = NoOne /\ decision = "none" /\ proc = "awaiting_review" /\ lock' = x
      /\ p' = [p EXCEPT ![x] = r]
      /\ UNCHANGED <<proc, post, decision, rows, ckpt, queue, attempt, buried, replays, faults>>
  BY DEF LockRun, RowFree, MayDecide, rowVars, queueVars
<1>2. post = "not_ready"
  BY <1>1 DEF RunInv, RowSound
<1>3. /\ r \in Proc /\ r.pc = "snapshot" /\ r.want = d
      /\ r.loadedProc = "awaiting_review" /\ r.loadedPost = "not_ready"
  BY <1>1, <1>2, OffProc DEF Proc, RunStatus, PostingStatus, Maybe
<1> HIDE DEF r
<1>4. x \in Procs /\ x # Uploader /\ x \notin Deliveries /\ x # NoOne
  BY Kinds
<1>5. /\ p' \in [Procs -> Proc] /\ p'[x] = r
      /\ \A y \in Procs : y # x => p'[y] = p[y]
  BY <1>1, <1>3, <1>4, PutProc DEF RunInv, TypeOK
<1>6. /\ p'[Uploader] = p[Uploader]
      /\ \A y \in Deliveries : p'[y] = p[y]
      /\ \A y \in Reviewers : y # x => p'[y].pc = "off"
  BY <1>1, <1>4, <1>5, Kinds DEF RunInv, ReviewsSound, ReviewSound
<1>7. TypeOK'
  BY <1>1, <1>5 DEF RunInv, TypeOK
<1>8. GraphsSound'
  BY <1>1, <1>3, <1>5 DEF RunInv, GraphsSound
<1>9. DeliveriesSound' /\ UploadSound'
  BY <1>1, <1>6 DEF RunInv, DeliveriesSound, DeliverySound, Driving, UploadSound
<1>10. ReviewsSound'
  BY <1>1, <1>3, <1>5, <1>6 DEF ReviewsSound, ReviewSound
<1>11. RowSound' /\ OutcomeSound'
  BY <1>1, <1>6
     DEF RunInv, RowSound, OutcomeSound, DecisionMatchesCheckpoint, PostingFollowsDecision,
         PostingIsEarned
<1> QED
  BY <1>7, <1>8, <1>9, <1>10, <1>11 DEF RunInv

\* A review takes up the checkpoint: the decision a crashed request left there, the
\* interrupt it resumes, or neither.
LEMMA ReviewSnapshotStep ==
    ASSUME RunInv, NEW x \in Reviewers, ReviewSnapshot(x) PROVE RunInv'
<1>1. /\ p[x].pc = "snapshot" /\ p[x].pc # "off" /\ p[x].pc \in Working
      /\ UNCHANGED <<proc, post, decision, rows, queue, attempt, buried, replays, faults>>
  BY DEF ReviewSnapshot, rowVars, queueVars, Working, Driving
<1>2. x \in Procs /\ x # Uploader /\ x \notin Deliveries /\ x # NoOne
  BY Kinds
<1>3. /\ \A y \in Procs : p[y].pc \in Working => y = x
      /\ post = "not_ready" /\ proc = "awaiting_review" /\ lock = x /\ decision = "none"
  BY <1>1, <1>2, OneDriver
<1>4. TypeOK /\ p \in [Procs -> Proc] /\ p[x] \in Proc /\ ckpt \in GraphState /\ Sound(ckpt)
  <2>1. TypeOK /\ Sound(ckpt)
    BY DEF RunInv, GraphsSound
  <2> QED
    BY <2>1, <1>2 DEF TypeOK
<1>5. p[x].want \in Decisions
  BY <1>1 DEF RunInv, ReviewsSound, ReviewSound
<1>6. CASE Stop(x) /\ lock' = NoOne
  <2>1. ckpt' = ckpt
    <3>1. p'[x].pc = "off"
      BY <1>6, <1>2, <1>4, StopProc
    <3> QED
      BY <3>1 DEF ReviewSnapshot
  <2>2. UNCHANGED <<rowVars, decision, ckpt, queueVars>>
    BY <2>1, <1>1 DEF rowVars, queueVars
  <2>3. /\ rows' \in SUBSET Events /\ rows \subseteq rows'
        /\ faults' \in 0..MaxFaults /\ faults' >= faults
    BY <1>1, <1>4 DEF TypeOK
  <2> QED
    BY <2>2, <2>3, <1>1, <1>2, <1>6, StopStep
<1>7. ASSUME NEW label \in {"commit", "graph"}, NEW g \in GraphState,
             p' = [p EXCEPT ![x].pc = label, ![x].g = g], lock' = lock,
             Sound(g), Same(g, ckpt), ckpt' = ckpt \/ ckpt' = g,
             label = "graph" => g.next = "exception",
             label = "commit" => ckpt.decision = p[x].want
      PROVE  RunInv'
  <2>1. /\ p' \in [Procs -> Proc] /\ p'[x].pc = label /\ p'[x].g = g
        /\ p'[x].loadedProc = p[x].loadedProc /\ p'[x].loadedPost = p[x].loadedPost
        /\ p'[x].want = p[x].want
        /\ \A y \in Procs : y # x => p'[y] = p[y]
    <3>1. LET r == [p[x] EXCEPT !.pc = label, !.g = g] IN
          /\ r \in Proc /\ r.pc = label /\ r.g = g /\ r.want = p[x].want
          /\ r.loadedProc = p[x].loadedProc /\ r.loadedPost = p[x].loadedPost
          /\ p' = [p EXCEPT ![x] = r]
      BY <1>2, <1>4, <1>7 DEF Proc
    <3> QED
      BY <3>1, <1>2, <1>4, PutProc
  <2>2. ckpt' \in GraphState /\ Sound(ckpt') /\ Same(g, ckpt') /\ Same(ckpt, ckpt')
    BY <1>4, <1>7 DEF Same
  <2>3. /\ p'[Uploader] = p[Uploader]
        /\ \A y \in Deliveries : p'[y] = p[y]
        /\ \A y \in Reviewers : y # x => p'[y].pc = "off"
    BY <2>1, <1>2, <1>3, Kinds DEF RunInv, ReviewsSound, ReviewSound
  <2>4. TypeOK'
    BY <2>1, <2>2, <1>1, <1>4, <1>7 DEF TypeOK
  <2>5. GraphsSound'
    BY <2>1, <2>2, <1>3, <1>7 DEF GraphsSound, Working, Driving
  <2>6. DeliveriesSound' /\ UploadSound'
    BY <2>3, <1>1 DEF RunInv, DeliveriesSound, DeliverySound, Driving, UploadSound
  <2>7. ReviewsSound'
    <3>1. ReviewSound(x)'
      BY <2>1, <2>2, <1>1, <1>7 DEF RunInv, ReviewsSound, ReviewSound, Same
    <3>2. \A y \in Reviewers : y # x => ReviewSound(y)'
      BY <2>3 DEF ReviewSound
    <3> QED
      BY <3>1, <3>2, <1>1, <1>3 DEF ReviewsSound
  <2>8. RowSound' /\ OutcomeSound'
    BY <2>2, <2>3, <1>1, <1>3
       DEF RunInv, RowSound, OutcomeSound, DecisionMatchesCheckpoint, PostingFollowsDecision,
           PostingIsEarned, Same, Unfinished
  <2> QED
    BY <2>4, <2>5, <2>6, <2>7, <2>8 DEF RunInv
<1>8. CASE CheckpointDecided /\ ckpt.decision = p[x].want
  <2>1. p' = [p EXCEPT ![x].pc = "commit", ![x].g = ckpt] /\ lock' = lock
    BY <1>8 DEF ReviewSnapshot
  <2>2. p'[x].pc = "commit"
    BY <2>1, <1>2, <1>4 DEF Proc
  <2>3. ckpt' = ckpt
    BY <2>2 DEF ReviewSnapshot
  <2> QED
    BY <2>1, <2>3, <1>4, <1>7, <1>8 DEF Same
<1>9. CASE ~CheckpointDecided /\ ckpt.next \in Nodes
  <2> DEFINE g == [ckpt EXCEPT !.resume = p[x].want]
  <2>1. /\ p' = [p EXCEPT ![x].pc = "graph", ![x].g = g] /\ lock' = lock
        /\ ckpt' = ckpt \/ ckpt' = g
    BY <1>9 DEF ReviewSnapshot
  <2>2. ckpt.next = "exception"
    BY <1>3, <1>9 DEF RunInv, RowSound, CheckpointDecided
  <2>3. /\ g \in GraphState /\ g.next = ckpt.next /\ g.iter = ckpt.iter /\ g.exc = ckpt.exc
        /\ g.recon = ckpt.recon /\ g.decision = ckpt.decision
    BY <1>4, <1>5 DEF GraphState, Maybe
  <2> HIDE DEF g
  <2>4. Sound(g) /\ Same(g, ckpt)
    BY <2>2, <2>3, <1>4 DEF Sound, Same
  <2> QED
    BY <2>1, <2>2, <2>3, <2>4, <1>7
<1>10. CASE ~(CheckpointDecided /\ ckpt.decision = p[x].want)
            /\ ~(~CheckpointDecided /\ ckpt.next \in Nodes)
  BY <1>6, <1>10 DEF ReviewSnapshot
<1> QED
  BY <1>8, <1>9, <1>10

LEMMA CommitStep == ASSUME RunInv, NEW x \in Reviewers, CommitDecision(x) PROVE RunInv'
<1>1. /\ p[x].pc = "commit" /\ p[x].pc # "off" /\ p[x].pc \in Working
      /\ decision' = p[x].want /\ rows' = rows \cup {p[x].want} /\ lock' = NoOne /\ Stop(x)
      /\ UNCHANGED <<ckpt, queue, attempt, buried, replays, faults>>
  BY DEF CommitDecision, queueVars, Working
<1>2. x \in Procs /\ x # Uploader /\ x \notin Deliveries /\ x # NoOne
  BY Kinds
<1>3. /\ proc = "awaiting_review" /\ lock = x /\ post = "not_ready"
      /\ p[x].loadedProc = proc /\ p[x].loadedPost = post
      /\ \A y \in Procs : p[y].pc \in Working => y = x
  BY <1>1, <1>2, OneDriver
<1>4. p[x].want \in Decisions /\ ckpt.decision = p[x].want
  BY <1>1 DEF RunInv, ReviewsSound, ReviewSound
<1>5. proc' = "complete" /\ post' = PostingOf(p[x].want)
  BY <1>3, OrmWriteCurrent DEF CommitDecision
<1>6. /\ p' \in [Procs -> Proc] /\ p'[x].pc = "off"
      /\ \A y \in Procs : y # x => p'[y] = p[y]
  BY <1>1, <1>2, StopProc DEF RunInv, TypeOK
<1>7. /\ p'[Uploader] = p[Uploader]
      /\ \A y \in Deliveries : p'[y] = p[y]
      /\ \A y \in Reviewers : p'[y].pc = "off"
  BY <1>2, <1>3, <1>6, Kinds DEF RunInv, ReviewsSound, ReviewSound
<1>8. TypeOK'
  <2>1. /\ decision' \in Maybe /\ rows' \subseteq Events /\ proc' \in RunStatus
        /\ post' \in PostingStatus
    BY <1>1, <1>4, <1>5
       DEF RunInv, TypeOK, Maybe, Decisions, Events, RunStatus, PostingStatus, PostingOf
  <2> QED
    BY <2>1, <1>1, <1>6 DEF RunInv, TypeOK
<1>9. GraphsSound'
  BY <1>1, <1>6 DEF RunInv, GraphsSound
<1>10. DeliveriesSound' /\ UploadSound'
  BY <1>1, <1>3, <1>5, <1>7
     DEF RunInv, DeliveriesSound, DeliverySound, Driving, UploadSound, Unfinished
<1>11. ReviewsSound'
  BY <1>1, <1>7 DEF ReviewsSound, ReviewSound
<1>12. RowSound'
  BY <1>5 DEF RowSound, Unfinished
<1>13. OutcomeSound'
  BY <1>1, <1>4, <1>5
     DEF OutcomeSound, DecisionMatchesCheckpoint, PostingFollowsDecision, PostingIsEarned,
         PostingOf
<1> QED
  BY <1>8, <1>9, <1>10, <1>11, <1>12, <1>13 DEF RunInv

-----------------------------------------------------------------------------
(* The theorems *)

\* Every step keeps the invariant.
LEMMA NextInv == RunInv /\ [Next]_vars => RunInv'
<1> SUFFICES ASSUME RunInv, [Next]_vars PROVE RunInv'
  OBVIOUS
<1>1. ASSUME NEW x \in Deliveries, Delivery(x) PROVE RunInv'
  BY <1>1, DeliverStep, LookupStep, LoadStep, SnapshotStep, LoadJobStep, MarkStep, BuryStep,
     AcknowledgeStep DEF Delivery
<1>2. ASSUME NEW x \in Deliveries \cup {Uploader}, Persist(x) \/ PersistFailure(x)
      PROVE  RunInv'
  BY <1>2, PersistStep, PersistFailureStep
<1>3. ASSUME NEW x \in Reviewers, Review(x) PROVE RunInv'
  BY <1>3, LockStep, ReviewSnapshotStep, CommitStep DEF Review
<1>4. ASSUME NEW x \in Procs, Graph(x) \/ InvocationFails(x) \/ Crash(x) PROVE RunInv'
  BY <1>4, GraphStep, InvocationFailsStep, CrashStep
<1>5. CASE UNCHANGED vars
  <2>1. UNCHANGED <<proc, post, decision, rows, lock, ckpt, queue, attempt, buried, replays,
                    p, faults>>
    BY <1>5 DEF vars, rowVars, reviewVars, queueVars
  <2> QED
    BY <2>1
       DEF RunInv, TypeOK, GraphsSound, DeliveriesSound, DeliverySound, UploadSound,
           ReviewsSound, ReviewSound, RowSound, OutcomeSound, DecisionMatchesCheckpoint,
           PostingFollowsDecision, PostingIsEarned
<1> QED
  BY <1>1, <1>2, <1>3, <1>4, <1>5, UploadStep, ReplayStep DEF Next

\* The inductive invariant of a run holds for ever.
THEOREM RunsInvariant == Spec => []RunInv
  BY InitInv, NextInv, PTL DEF Spec

\* Every variable of a run keeps its type: in particular iteration_count never
\* passes the longest path through the graph.
THEOREM RunsTypeCorrect == Spec => []TypeOK
<1>1. RunInv => TypeOK
  BY DEF RunInv
<1> QED
  BY <1>1, RunsInvariant, PTL

\* The decision decide_review recorded is the one the graph's checkpoint holds,
\* whatever crashes, repeated requests and replays the run goes through.
THEOREM DecisionsMatchCheckpoints == Spec => []DecisionMatchesCheckpoint
<1>1. RunInv => DecisionMatchesCheckpoint
  BY DEF RunInv, OutcomeSound
<1> QED
  BY <1>1, RunsInvariant, PTL

\* A complete reviewed run has the posting status of its recorded decision, whoever
\* completed it.
THEOREM PostingsFollowDecisions == Spec => []PostingFollowsDecision
<1>1. RunInv => PostingFollowsDecision
  BY DEF RunInv, OutcomeSound
<1> QED
  BY <1>1, RunsInvariant, PTL

\* Nothing becomes ready for posting without an approval the graph took or a match
\* that passed every check.
THEOREM PostingsAreEarned == Spec => []PostingIsEarned
<1>1. RunInv => PostingIsEarned
  BY DEF RunInv, OutcomeSound
<1> QED
  BY <1>1, RunsInvariant, PTL

\* The graph that decide_review drives under the row lock never inserts a row whose
\* foreign-key check would wait for that lock.
THEOREM ReviewsNeverBlockThemselves == Spec => []ReviewNeverBlocksItself
<1>1. RunInv => ReviewNeverBlocksItself
  <2> SUFFICES ASSUME RunInv, NEW x \in Reviewers, lock = x, p[x].pc = "graph"
               PROVE  /\ p[x].g.next = "exception" => "exception_raised" \in rows
                      /\ p[x].g.next = "complete" => CompletionEvents(p[x].g) \subseteq rows
                      /\ p[x].g.next \in {"exception", "approve", "reject", "complete", "end"}
    BY DEF ReviewNeverBlocksItself
  <2>1. x \in Procs
    BY Kinds
  <2>2. /\ Sound(p[x].g)
        /\ p[x].g.next = "exception" \/ p[x].g.decision \in Decisions
    BY <2>1, Invoked
  <2>3. "exception_raised" \in rows
    BY Kinds DEF RunInv, ReviewsSound, RowSound
  <2>4. p[x].g.next \in {"exception", "approve", "reject", "complete", "end"}
    BY <2>2 DEF Sound, Decisions
  <2>5. p[x].g.next = "complete" => CompletionEvents(p[x].g) = {}
    BY <2>2 DEF CompletionEvents, Unresolved
  <2> QED
    BY <2>3, <2>4, <2>5
<1> QED
  BY <1>1, RunsInvariant, PTL

\* A run shown as awaiting review has a checkpoint that decide_review can resume or
\* finish.
THEOREM AwaitingRunsAreReviewable == Spec => []AwaitingIsReviewable
<1>1. RunInv => AwaitingIsReviewable
  BY DEF RunInv, RowSound, AwaitingIsReviewable, Nodes
<1> QED
  BY <1>1, RunsInvariant, PTL

\* The circuit breaker never ends a run whose exception nobody resolved.
THEOREM RunsEndResolved == Spec => []ExceptionsAreResolved
<1>1. RunInv => ExceptionsAreResolved
  BY DEF RunInv, TypeOK, GraphState, Maybe, GraphsSound, Sound, ExceptionsAreResolved,
         Unresolved
<1> QED
  BY <1>1, RunsInvariant, PTL

\* A run shown as running or retrying has a process or a queue entry, but for an
\* upload that died.
THEOREM UnfinishedRunsAreOwned == Spec => []UnfinishedIsOwned
<1>1. RunInv => UnfinishedIsOwned
  BY DEF RunInv, RowSound, UnfinishedIsOwned, Unfinished
<1> QED
  BY <1>1, RunsInvariant, PTL
=============================================================================
