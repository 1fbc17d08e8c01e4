----------------------- MODULE InvoiceDeliveryProofs -----------------------
(***************************************************************************)
(* Proofs about InvoiceDelivery, for every number of workers, jobs,        *)
(* entries and attempts.                                                   *)
(***************************************************************************)
EXTENDS InvoiceDelivery, FiniteSetTheorems, TLAPS

Working == {"lookup", "load", "run"}

\* A task on an entry is sound: the entry was published, it carries a job once
\* the task is past "start", and a task that may beat knows its attempt.
SoundTask(t, i) ==
    /\ t.pc # "idle" => i <= added
    /\ t.pc \in Working => JobOf(i) \in Jobs
    /\ t.beating \/ t.pc \notin {"idle", "claimed"} => t.attempt > 0

TasksSound == \A w \in Workers, i \in Ids : SoundTask(task[w][i], i)

\* The part of the invariant the other proofs build on.
BaseInv == TypeOK /\ PendingListExact /\ TasksSound

-----------------------------------------------------------------------------
(* The n smallest members of a finite set of integers *)

\* What a COUNT-limited scan returns is part of what it scans.
LEMMA FirstOfSubset ==
    ASSUME NEW S, NEW n
    PROVE  FirstOf(S, n) \subseteq S
  BY DEF FirstOf

\* It is a prefix: what precedes a returned entry is returned too.
LEMMA FirstOfPrefix ==
    ASSUME NEW S \in SUBSET Int, IsFiniteSet(S), NEW n \in Nat,
           NEW x \in FirstOf(S, n), NEW y \in S, y < x
    PROVE  y \in FirstOf(S, n)
<1>0. x \in S
  BY FirstOfSubset
<1> DEFINE A == {z \in S : z < y}
           B == {z \in S : z < x}
<1>1. A \subseteq B
  <2> SUFFICES ASSUME NEW z \in S, z < y PROVE z < x
    OBVIOUS
  <2>1. z \in Int /\ y \in Int /\ x \in Int
    BY <1>0
  <2> QED
    BY <2>1
<1>2. IsFiniteSet(B)
  <2>1. B \subseteq S
    OBVIOUS
  <2> QED
    BY <2>1, FS_Subset
<1>3. Cardinality(A) <= Cardinality(B) /\ Cardinality(A) \in Nat /\ Cardinality(B) \in Nat
  BY <1>1, <1>2, FS_Subset, FS_CardinalityType
<1>4. Cardinality(B) < n
  BY DEF FirstOf
<1> QED
  BY <1>3, <1>4 DEF FirstOf

-----------------------------------------------------------------------------
(* Type correctness and the pending list *)

\* Every way a step changes the program counter of a task keeps its type.
LEMMA TaskTypes ==
    /\ NoTask \in Task
    /\ \A t \in Task, l \in PCs : [t EXCEPT !.pc = l] \in Task
    /\ \A t \in Task : [t EXCEPT !.beating = FALSE] \in Task
    /\ \A t \in Task : [t EXCEPT !.pc = "lookup", !.beating = TRUE] \in Task
    /\ \A t \in Task : [t EXCEPT !.pc = "ack", !.beating = FALSE] \in Task
    /\ \A t \in Task, s \in RunStatus : [t EXCEPT !.pc = "run", !.loaded = s] \in Task
    /\ \A t \in Task, n \in Nat : [t EXCEPT !.pc = "start", !.attempt = n] \in Task
    /\ [NoTask EXCEPT !.pc = "claimed"] \in Task
    /\ [NoTask EXCEPT !.pc = "start", !.attempt = 1] \in Task
  BY DEF Task, NoTask, PCs, RunStatus

\* Replacing one task by another keeps the type of the table.
LEMMA SetTaskType ==
    ASSUME TasksOK, NEW w \in Workers, NEW i \in Ids, NEW t \in Task, SetTask(w, i, t)
    PROVE  TasksOK'
  BY DEF TasksOK, SetTask

\* Moving a task to another store call keeps the type of the table.
LEMMA GotoType ==
    ASSUME TasksOK, NEW w \in Workers, NEW i \in Ids, NEW l \in PCs, Goto(w, i, l)
    PROVE  TasksOK'
  BY SetTaskType, TaskTypes DEF TasksOK, Goto

\* So does the except branch of _process_delivery,
LEMMA AfterFailureType ==
    ASSUME TasksOK, NEW w \in Workers, NEW i \in Ids, AfterFailure(w, i)
    PROVE  TasksOK'
  BY GotoType DEF AfterFailure, PCs

\* and so does its finally branch on success.
LEMMA AfterSuccessType ==
    ASSUME TasksOK, NEW w \in Workers, NEW i \in Ids, AfterSuccess(w, i)
    PROVE  TasksOK'
  BY SetTaskType, TaskTypes DEF TasksOK, AfterSuccess

\* A fresh stream with its consumer group satisfies the base invariant.
LEMMA InitBase == Init => BaseInv
<1> SUFFICES ASSUME Init PROVE BaseInv
  OBVIOUS
<1> USE DeliveryAssumption DEF Init
<1>1. StreamOK /\ GroupOK /\ DlqOK
  BY DEF StreamOK, GroupOK, DlqOK, Ids, DlqIds, Entry, NoEntry
<1>2. ReplayOK /\ RunsOK
  BY DEF ReplayOK, RunsOK, ReplayStates, RunStatus
<1>3. TasksOK
  BY TaskTypes DEF TasksOK
<1>3a. LoopOK
  BY DEF LoopOK
<1>4. PendingListExact /\ TasksSound
  BY DEF PendingListExact, TasksSound, SoundTask, NoTask, Working
<1> QED
  BY <1>1, <1>2, <1>3, <1>3a, <1>4 DEF BaseInv, TypeOK

\* Every step keeps the types.
LEMMA NextType == BaseInv /\ [Next]_vars => TypeOK'
<1> SUFFICES ASSUME BaseInv, [Next]_vars PROVE TypeOK'
  OBVIOUS
<1> USE DeliveryAssumption
        DEF streamVars, groupVars, dlqVars, replayVars, dbVars, faultVars
<1>t. StreamOK /\ GroupOK /\ DlqOK /\ ReplayOK /\ RunsOK /\ TasksOK /\ LoopOK
  BY DEF BaseInv, TypeOK
<1>s. TasksSound
  BY DEF BaseInv
<1>1. ASSUME NEW j \in Jobs, Enqueue(j) PROVE TypeOK'
  <2>1. DlqOK' /\ ReplayOK' /\ RunsOK' /\ TasksOK' /\ LoopOK'
    BY <1>t, <1>1 DEF Enqueue, DlqOK, ReplayOK, RunsOK, TasksOK, LoopOK
  <2>2. StreamOK'
    BY <1>t, <1>1 DEF Enqueue, XAdd, StreamOK, Ids, Entry, NoEntry
  <2>3. GroupOK'
    BY <1>t, <1>1 DEF Enqueue, XAdd, GroupOK, StreamOK, Ids
  <2> QED
    BY <2>1, <2>2, <2>3 DEF TypeOK
<1>2. ASSUME NEW j \in Jobs, DedupeExpires(j) PROVE TypeOK'
  <2>1. GroupOK' /\ DlqOK' /\ ReplayOK' /\ RunsOK' /\ TasksOK' /\ LoopOK'
    BY <1>t, <1>2 DEF DedupeExpires, GroupOK, DlqOK, ReplayOK, RunsOK, TasksOK, LoopOK
  <2>2. StreamOK'
    BY <1>t, <1>2 DEF DedupeExpires, StreamOK, Ids, Entry, NoEntry
  <2> QED
    BY <2>1, <2>2 DEF TypeOK
<1>3. ASSUME ForeignAdd PROVE TypeOK'
  <2>1. DlqOK' /\ ReplayOK' /\ RunsOK' /\ TasksOK' /\ LoopOK'
    BY <1>t, <1>3 DEF ForeignAdd, DlqOK, ReplayOK, RunsOK, TasksOK, LoopOK
  <2>2. StreamOK'
    BY <1>t, <1>3 DEF ForeignAdd, XAdd, StreamOK, Ids, Entry, NoEntry
  <2>3. GroupOK'
    BY <1>t, <1>3 DEF ForeignAdd, XAdd, GroupOK, StreamOK, Ids
  <2> QED
    BY <2>1, <2>2, <2>3 DEF TypeOK
<1>4. ASSUME NEW w \in Workers, ClaimStale(w) PROVE TypeOK'
  <2>1. StreamOK' /\ DlqOK' /\ ReplayOK' /\ RunsOK'
    BY <1>t, <1>4 DEF ClaimStale, StreamOK, DlqOK, ReplayOK, RunsOK
  <2>2. GroupOK'
    BY <1>t, <1>4 DEF ClaimStale, GroupOK, StreamOK, Ids, FirstOf
  <2>3. TasksOK'
    BY <1>t, <1>4, TaskTypes DEF ClaimStale, TasksOK
  <2>4. LoopOK'
    BY <1>t, <1>4 DEF ClaimStale, LoopOK
  <2> QED
    BY <2>1, <2>2, <2>3, <2>4 DEF TypeOK
<1>5. ASSUME NEW w \in Workers, ReadNew(w) PROVE TypeOK'
  <2>1. StreamOK' /\ DlqOK' /\ ReplayOK' /\ RunsOK'
    BY <1>t, <1>5 DEF ReadNew, StreamOK, DlqOK, ReplayOK, RunsOK
  <2>2. GroupOK'
    <3> DEFINE new == FirstOf({i \in live : i > cursor}, BatchSize)
    <3>1. new \subseteq live
      BY DEF FirstOf
    <3>2. cursor' \in 0..added
      BY <1>t, <1>5, <3>1 DEF ReadNew, GroupOK, StreamOK
    <3>3. times' \in [Ids -> Nat]
      BY <1>t, <1>5 DEF ReadNew, GroupOK
    <3> QED
      BY <1>t, <1>5, <3>2, <3>3 DEF ReadNew, GroupOK
  <2>3. TasksOK'
    BY <1>t, <1>5, TaskTypes DEF ReadNew, TasksOK
  <2>4. LoopOK'
    BY <1>t, <1>5 DEF ReadNew, LoopOK
  <2> QED
    BY <2>1, <2>2, <2>3, <2>4 DEF TypeOK
<1>6. ASSUME NEW w \in Workers, Crash(w) PROVE TypeOK'
  <2>1. StreamOK' /\ GroupOK' /\ DlqOK' /\ ReplayOK' /\ RunsOK'
    BY <1>t, <1>6 DEF Crash, StreamOK, GroupOK, DlqOK, ReplayOK, RunsOK
  <2>2. TasksOK'
    BY <1>t, <1>6, TaskTypes DEF Crash, TasksOK
  <2>3. LoopOK'
    BY <1>t, <1>6 DEF Crash, LoopOK
  <2> QED
    BY <2>1, <2>2, <2>3 DEF TypeOK
<1>7. ASSUME NEW w \in Workers, NEW i \in Ids, ReadAttempt(w, i) PROVE TypeOK'
  <2>1. StreamOK' /\ GroupOK' /\ DlqOK' /\ ReplayOK' /\ RunsOK' /\ LoopOK'
    BY <1>t, <1>7 DEF ReadAttempt, StreamOK, GroupOK, DlqOK, ReplayOK, RunsOK, LoopOK
  <2>2. TasksOK'
    <3> DEFINE n == IF times[i] > 0 THEN times[i] ELSE 1
    <3>1. n \in Nat /\ task[w][i] \in Task
      BY <1>t DEF GroupOK, TasksOK
    <3>2. [task[w][i] EXCEPT !.pc = "start", !.attempt = n] \in Task
      BY <3>1, TaskTypes
    <3>3. SetTask(w, i, [task[w][i] EXCEPT !.pc = "start", !.attempt = n])
      BY <1>7 DEF ReadAttempt
    <3> QED
      BY <1>t, <3>2, <3>3, SetTaskType
  <2> QED
    BY <2>1, <2>2 DEF TypeOK
<1>8. ASSUME NEW w \in Workers, NEW i \in Ids, StartMalformed(w, i) PROVE TypeOK'
  <2>1. RunsOK' /\ LoopOK'
    BY <1>t, <1>8 DEF StartMalformed,  DeadLetter, XRemove, RunsOK, LoopOK
  <2>2. StreamOK'
    BY <1>t, <1>8 DEF StartMalformed, MayStart, DeadLetter, XRemove, SetReplayState, IsReplay, StreamOK, Ids, Entry, NoEntry
  <2>3. GroupOK'
    BY <1>t, <1>8 DEF StartMalformed, MayStart, DeadLetter, XRemove, SetReplayState, IsReplay, GroupOK, StreamOK, Ids
  <2>4. DlqOK'
    BY <1>t, <1>8 DEF StartMalformed, MayStart, DeadLetter, XRemove, SetReplayState, IsReplay, DlqOK, DlqIds, Ids
  <2>5. ReplayOK'
    BY <1>t, <1>8 DEF StartMalformed, MayStart, DeadLetter, XRemove, SetReplayState, IsReplay, ReplayOK, DlqIds, Ids, ReplayStates, NonterminalReplay
  <2>6. TasksOK'
    BY <1>t, <1>8, SetTaskType, TaskTypes DEF StartMalformed, TasksOK
  <2> QED
    BY <2>1, <2>2, <2>3, <2>4, <2>5, <2>6 DEF TypeOK
<1>9. ASSUME NEW w \in Workers, NEW i \in Ids, Start(w, i) PROVE TypeOK'
  <2>1. StreamOK' /\ GroupOK' /\ DlqOK' /\ RunsOK' /\ LoopOK'
    BY <1>t, <1>9 DEF Start, StreamOK, GroupOK, DlqOK, RunsOK, LoopOK
  <2>2. ReplayOK'
    BY <1>t, <1>9 DEF Start, MayStart, SetReplayState, IsReplay, ReplayOK, DlqIds, Ids, ReplayStates, NonterminalReplay
  <2>3. TasksOK'
    BY <1>t, <1>9, SetTaskType, TaskTypes DEF Start, TasksOK
  <2> QED
    BY <2>1, <2>2, <2>3 DEF TypeOK
<1>10. ASSUME NEW w \in Workers, NEW i \in Ids, Lookup(w, i) PROVE TypeOK'
  <2>1. StreamOK' /\ GroupOK' /\ DlqOK' /\ ReplayOK' /\ LoopOK'
    BY <1>t, <1>10 DEF Lookup, StreamOK, GroupOK, DlqOK, ReplayOK, LoopOK
  <2>2. RunsOK'
    BY <1>t, <1>10 DEF Lookup, Settled, RunsOK, TasksOK, Task, RunStatus
  <2>3. TasksOK'
    BY <1>t, <1>10, AfterFailureType, AfterSuccessType, GotoType DEF Lookup, TasksOK, PCs
  <2> QED
    BY <2>1, <2>2, <2>3 DEF TypeOK
<1>11. ASSUME NEW w \in Workers, NEW i \in Ids, Load(w, i) PROVE TypeOK'
  <2>1. StreamOK' /\ GroupOK' /\ DlqOK' /\ ReplayOK' /\ LoopOK'
    BY <1>t, <1>11 DEF Load, StreamOK, GroupOK, DlqOK, ReplayOK, LoopOK
  <2>2. RunsOK'
    BY <1>t, <1>11 DEF Load, RunsOK, TasksOK, Task, RunStatus
  <2>3. TasksOK'
    <3> DEFINE s == IF IsReplay(i) /\ run[JobOf(i)] = "failed" THEN "retrying"
                    ELSE run[JobOf(i)]
    <3>1. JobOf(i) \in Jobs
      BY <1>s, <1>11 DEF TasksSound, SoundTask, Working, Load
    <3>2. s \in RunStatus /\ task[w][i] \in Task
      BY <1>t, <3>1 DEF RunsOK, RunStatus, TasksOK
    <3>3. [task[w][i] EXCEPT !.pc = "run", !.loaded = s] \in Task
      BY <3>2, TaskTypes
    <3>4. SetTask(w, i, [task[w][i] EXCEPT !.pc = "run", !.loaded = s])
      BY <1>11 DEF Load
    <3> QED
      BY <1>t, <3>3, <3>4, SetTaskType
  <2> QED
    BY <2>1, <2>2, <2>3 DEF TypeOK
<1>12. ASSUME NEW w \in Workers, NEW i \in Ids,
             NEW result \in GraphOutcomes, RunSucceeds(w, i, result) PROVE TypeOK'
  <2>1. StreamOK' /\ GroupOK' /\ DlqOK' /\ ReplayOK' /\ LoopOK'
    BY <1>t, <1>12 DEF RunSucceeds, StreamOK, GroupOK, DlqOK, ReplayOK, LoopOK
  <2>2. RunsOK'
    <3>1. JobOf(i) \in Jobs
      BY <1>s, <1>12 DEF TasksSound, SoundTask, Working, RunSucceeds
    <3> QED
      BY <1>t, <1>12, <3>1 DEF RunSucceeds, OrmWrite, GraphOutcomes, RunsOK, RunStatus
  <2>3. TasksOK'
    BY <1>t, <1>12, AfterSuccessType, AfterFailureType DEF RunSucceeds, TasksOK
  <2> QED
    BY <2>1, <2>2, <2>3 DEF TypeOK
<1>13. ASSUME NEW w \in Workers, NEW i \in Ids, RunFails(w, i) PROVE TypeOK'
  <2>1. StreamOK' /\ GroupOK' /\ DlqOK' /\ ReplayOK' /\ LoopOK'
    BY <1>t, <1>13 DEF RunFails, StreamOK, GroupOK, DlqOK, ReplayOK, LoopOK
  <2>2. RunsOK'
    BY <1>t, <1>13 DEF RunFails, OrmWrite, RunsOK, TasksOK, Task, RunStatus
  <2>3. TasksOK'
    BY <1>t, <1>13, AfterFailureType DEF RunFails, TasksOK
  <2> QED
    BY <2>1, <2>2, <2>3 DEF TypeOK
<1>14. ASSUME NEW w \in Workers, NEW i \in Ids, DatabaseFails(w, i) PROVE TypeOK'
  <2>1. StreamOK' /\ GroupOK' /\ DlqOK' /\ ReplayOK' /\ RunsOK' /\ LoopOK'
    BY <1>t, <1>14 DEF DatabaseFails, StreamOK, GroupOK, DlqOK, ReplayOK, RunsOK, LoopOK
  <2>2. TasksOK'
    BY <1>t, <1>14, AfterFailureType DEF DatabaseFails, TasksOK
  <2> QED
    BY <2>1, <2>2 DEF TypeOK
<1>15. ASSUME NEW w \in Workers, NEW i \in Ids, MarkJobFailed(w, i) PROVE TypeOK'
  <2>1. StreamOK' /\ GroupOK' /\ DlqOK' /\ ReplayOK' /\ LoopOK'
    BY <1>t, <1>15 DEF MarkJobFailed, StreamOK, GroupOK, DlqOK, ReplayOK, LoopOK
  <2>2. RunsOK'
    BY <1>t, <1>15 DEF MarkJobFailed, RunsOK, TasksOK, Task, RunStatus
  <2>3. TasksOK'
    BY <1>t, <1>15, GotoType DEF MarkJobFailed, TasksOK, PCs
  <2> QED
    BY <2>1, <2>2, <2>3 DEF TypeOK
<1>16. ASSUME NEW w \in Workers, NEW i \in Ids, Bury(w, i) PROVE TypeOK'
  <2>1. RunsOK' /\ LoopOK'
    BY <1>t, <1>16 DEF Bury,  DeadLetter, XRemove, RunsOK, LoopOK
  <2>2. StreamOK'
    BY <1>t, <1>16 DEF Bury, DeadLetter, XRemove, SetReplayState, IsReplay, StreamOK, Ids, Entry, NoEntry
  <2>3. GroupOK'
    BY <1>t, <1>16 DEF Bury, DeadLetter, XRemove, SetReplayState, IsReplay, GroupOK, StreamOK, Ids
  <2>4. DlqOK'
    BY <1>t, <1>16 DEF Bury, DeadLetter, XRemove, SetReplayState, IsReplay, DlqOK, DlqIds, Ids
  <2>5. ReplayOK'
    BY <1>t, <1>16 DEF Bury, DeadLetter, XRemove, SetReplayState, IsReplay, ReplayOK, DlqIds, Ids, ReplayStates, NonterminalReplay
  <2>6. TasksOK'
    BY <1>t, <1>16, SetTaskType, TaskTypes DEF Bury, TasksOK
  <2> QED
    BY <2>1, <2>2, <2>3, <2>4, <2>5, <2>6 DEF TypeOK
<1>17. ASSUME NEW w \in Workers, NEW i \in Ids, RecordFailure(w, i) PROVE TypeOK'
  <2>1. StreamOK' /\ GroupOK' /\ DlqOK' /\ RunsOK' /\ LoopOK'
    BY <1>t, <1>17 DEF RecordFailure, StreamOK, GroupOK, DlqOK, RunsOK, LoopOK
  <2>2. ReplayOK'
    BY <1>t, <1>17 DEF RecordFailure, SetReplayState, IsReplay, ReplayOK, DlqIds, Ids, ReplayStates, NonterminalReplay
  <2>3. TasksOK'
    BY <1>t, <1>17, SetTaskType, TaskTypes DEF RecordFailure, TasksOK
  <2> QED
    BY <2>1, <2>2, <2>3 DEF TypeOK
<1>18. ASSUME NEW w \in Workers, NEW i \in Ids, Acknowledge(w, i) PROVE TypeOK'
  <2>1. DlqOK' /\ RunsOK' /\ LoopOK'
    BY <1>t, <1>18 DEF Acknowledge, DlqOK, RunsOK, LoopOK
  <2>2. StreamOK'
    BY <1>t, <1>18 DEF Acknowledge, XRemove, SetReplayState, IsReplay, StreamOK, Ids, Entry, NoEntry
  <2>3. GroupOK'
    BY <1>t, <1>18 DEF Acknowledge, XRemove, SetReplayState, IsReplay, GroupOK, StreamOK, Ids
  <2>4. ReplayOK'
    BY <1>t, <1>18 DEF Acknowledge, XRemove, SetReplayState, IsReplay, ReplayOK, DlqIds, Ids, ReplayStates, NonterminalReplay
  <2>5. TasksOK'
    BY <1>t, <1>18, SetTaskType, TaskTypes DEF Acknowledge, TasksOK
  <2> QED
    BY <2>1, <2>2, <2>3, <2>4, <2>5 DEF TypeOK
<1>19. ASSUME NEW w \in Workers, NEW i \in Ids, Heartbeat(w, i) PROVE TypeOK'
  <2>1. StreamOK' /\ DlqOK' /\ ReplayOK' /\ RunsOK' /\ TasksOK' /\ LoopOK'
    BY <1>t, <1>19 DEF Heartbeat, StreamOK, DlqOK, ReplayOK, RunsOK, TasksOK, LoopOK
  <2>2. GroupOK'
    <3>1. task[w][i].attempt \in Nat
      BY <1>t DEF TasksOK, Task
    <3> QED
      BY <1>t, <1>19, <3>1 DEF Heartbeat, GroupOK
  <2> QED
    BY <2>1, <2>2 DEF TypeOK
<1>20. ASSUME NEW w \in Workers, NEW i \in Ids, HeartbeatDies(w, i) PROVE TypeOK'
  <2>1. StreamOK' /\ GroupOK' /\ DlqOK' /\ ReplayOK' /\ RunsOK'
    BY <1>t, <1>20 DEF HeartbeatDies, StreamOK, GroupOK, DlqOK, ReplayOK, RunsOK
  <2>2. TasksOK'
    BY <1>t, <1>20, SetTaskType, TaskTypes DEF HeartbeatDies, TasksOK
  <2>3. LoopOK'
    BY <1>t, <1>20 DEF HeartbeatDies, LoopOK
  <2> QED
    BY <2>1, <2>2, <2>3 DEF TypeOK
<1>21. ASSUME NEW w \in Workers, NEW i \in Ids, LeaseLapses(w, i) PROVE TypeOK'
  <2>1. StreamOK' /\ DlqOK' /\ ReplayOK' /\ RunsOK' /\ TasksOK'
    BY <1>t, <1>21 DEF LeaseLapses, StreamOK, DlqOK, ReplayOK, RunsOK, TasksOK
  <2>2. GroupOK'
    BY <1>t, <1>21 DEF LeaseLapses, GroupOK, StreamOK, Ids
  <2>3. LoopOK'
    BY <1>t, <1>21 DEF LeaseLapses, LoopOK
  <2> QED
    BY <2>1, <2>2, <2>3 DEF TypeOK
<1>22. ASSUME NEW w \in Workers, NEW i \in Ids, BoundaryFails(w, i) PROVE TypeOK'
  <2>1. StreamOK' /\ GroupOK' /\ DlqOK' /\ ReplayOK' /\ RunsOK'
    BY <1>t, <1>22 DEF BoundaryFails, StreamOK, GroupOK, DlqOK, ReplayOK, RunsOK
  <2>2. TasksOK'
    BY <1>t, <1>22, SetTaskType, TaskTypes DEF BoundaryFails, TasksOK
  <2>3. LoopOK'
    BY <1>t, <1>22 DEF BoundaryFails, LoopOK
  <2> QED
    BY <2>1, <2>2, <2>3 DEF TypeOK
<1>23. ASSUME NEW i \in Ids, LeaseExpires(i) PROVE TypeOK'
  <2>1. StreamOK' /\ DlqOK' /\ ReplayOK' /\ RunsOK' /\ TasksOK' /\ LoopOK'
    BY <1>t, <1>23 DEF LeaseExpires, StreamOK, DlqOK, ReplayOK, RunsOK, TasksOK, LoopOK
  <2>2. GroupOK'
    BY <1>t, <1>23 DEF LeaseExpires, GroupOK, StreamOK, Ids
  <2> QED
    BY <2>1, <2>2 DEF TypeOK
<1>24. ASSUME NEW d \in DlqIds, NEW r \in Requests, Replay(d, r) PROVE TypeOK'
  <2>1. DlqOK' /\ RunsOK' /\ TasksOK' /\ LoopOK'
    BY <1>t, <1>24 DEF Replay, DlqOK, RunsOK, TasksOK, LoopOK
  <2>2. StreamOK'
    BY <1>t, <1>24 DEF Replay, ReplayExists, XAdd, StreamOK, Ids, Entry, NoEntry
  <2>3. GroupOK'
    BY <1>t, <1>24 DEF Replay, ReplayExists, XAdd, GroupOK, StreamOK, Ids
  <2>4. ReplayOK'
    <3>1. added + 1 \in 0..MaxEntries
      BY <1>t, <1>24 DEF Replay, XAdd, StreamOK
    <3>2. replayLast' \in [DlqIds -> Requests \cup {NoRequest}]
      BY <1>t, <1>24 DEF Replay, ReplayOK
    <3>3. replayEntry' \in [DlqIds -> [Requests -> 0..MaxEntries]]
      BY <1>t, <1>24, <3>1 DEF Replay, ReplayOK
    <3>4. replayState' \in [DlqIds -> [Requests -> ReplayStates]]
      BY <1>t, <1>24 DEF Replay, ReplayOK, ReplayStates, NonterminalReplay
    <3> QED
      BY <3>2, <3>3, <3>4 DEF ReplayOK
  <2> QED
    BY <2>1, <2>2, <2>3, <2>4 DEF TypeOK
<1>25. ASSUME NEW cutoff \in 2..(MaxDeadLetters + 1), Purge(cutoff) PROVE TypeOK'
  <2>1. StreamOK' /\ GroupOK' /\ RunsOK' /\ TasksOK' /\ LoopOK'
    BY <1>t, <1>25 DEF Purge, StreamOK, GroupOK, RunsOK, TasksOK, LoopOK
  <2>2. DlqOK'
    BY <1>t, <1>25 DEF Purge, DlqOK, DlqIds, Ids
  <2>3. ReplayOK'
    BY <1>t, <1>25 DEF Purge, ReplayOK, DlqIds, Ids, ReplayStates, NonterminalReplay
  <2> QED
    BY <2>1, <2>2, <2>3 DEF TypeOK
<1>26. CASE UNCHANGED vars
  BY <1>t, <1>26 DEF vars, TypeOK, StreamOK, GroupOK, DlqOK, ReplayOK, RunsOK, TasksOK, LoopOK
<1> QED
  BY <1>1, <1>2, <1>3, <1>4, <1>5, <1>6, <1>7, <1>8, <1>9, <1>10, <1>11, <1>12, <1>13, <1>14, <1>15, <1>16, <1>17, <1>18, <1>19, <1>20, <1>21, <1>22, <1>23, <1>24, <1>25, <1>26 DEF Next, Producer, Loop, Process, Failure, Operator,
     OperatorReplays, OperatorPurges

\* A step that replaces one task of a published entry by a sound one, and adds
\* nothing to the stream, keeps every task sound.
LEMMA TasksSoundSet ==
    ASSUME TasksOK, TasksSound, UNCHANGED <<entry, added>>,
           NEW w \in Workers, NEW i \in Ids, NEW t, SetTask(w, i, t), SoundTask(t, i)
    PROVE  TasksSound'
  BY DEF TasksOK, TasksSound, SoundTask, SetTask, JobOf

\* Moving a task on keeps every task sound, if the next call needs no job or the
\* entry has one.
LEMMA TasksSoundGoto ==
    ASSUME TasksOK, TasksSound, UNCHANGED <<entry, added>>,
           NEW w \in Workers, NEW i \in Ids, NEW l, Goto(w, i, l),
           task[w][i].pc \notin {"idle", "claimed"},
           l \in Working => JobOf(i) \in Jobs
    PROVE  TasksSound'
<1> DEFINE t == [task[w][i] EXCEPT !.pc = l]
<1>1. task[w][i] \in Task
  BY DEF TasksOK
<1>2. SoundTask(t, i)
  BY <1>1 DEF TasksSound, SoundTask, Task
<1> QED
  BY <1>2, TasksSoundSet DEF Goto

\* A task that has ended is sound.
LEMMA TasksSoundIdle ==
    ASSUME NEW i PROVE SoundTask(NoTask, i)
  BY DEF SoundTask, NoTask, Working

\* The except branch keeps every task sound,
LEMMA TasksSoundFailure ==
    ASSUME TasksOK, TasksSound, UNCHANGED <<entry, added>>,
           NEW w \in Workers, NEW i \in Ids, AfterFailure(w, i), task[w][i].pc \in Working
    PROVE  TasksSound'
  BY TasksSoundGoto DEF AfterFailure, Working

\* and so does the finally branch on success.
LEMMA TasksSoundSuccess ==
    ASSUME TasksOK, TasksSound, UNCHANGED <<entry, added>>,
           NEW w \in Workers, NEW i \in Ids, AfterSuccess(w, i), task[w][i].pc \in Working
    PROVE  TasksSound'
<1> DEFINE t == [task[w][i] EXCEPT !.pc = "ack", !.beating = FALSE]
<1>1. task[w][i] \in Task
  BY DEF TasksOK
<1>2. SoundTask(t, i)
  BY <1>1 DEF TasksSound, SoundTask, Task, Working
<1> QED
  BY <1>2, TasksSoundSet, TasksSoundIdle DEF AfterSuccess

\* Publishing an entry touches no task: no task was on the new id.
LEMMA TasksSoundAdd ==
    ASSUME StreamOK, TasksSound, NEW e, XAdd(e), task' = task
    PROVE  TasksSound'
  BY DeliveryAssumption DEF StreamOK, TasksSound, SoundTask, XAdd, JobOf, Working, Ids

\* Every step keeps the tasks sound: a delivery is of a published entry, and one
\* that passed parse_delivery is of a job.
LEMMA NextTasks == BaseInv /\ [Next]_vars => TasksSound'
<1> SUFFICES ASSUME BaseInv, [Next]_vars PROVE TasksSound'
  OBVIOUS
<1> USE DeliveryAssumption
        DEF streamVars, groupVars, dlqVars, replayVars, dbVars, faultVars
<1>t. StreamOK /\ GroupOK /\ TasksOK /\ TasksSound /\ PendingListExact
  BY DEF BaseInv, TypeOK
<1>1. ASSUME NEW j \in Jobs, Enqueue(j) PROVE TasksSound'
  BY <1>t, <1>1, TasksSoundAdd DEF Enqueue
<1>2. ASSUME NEW j \in Jobs, DedupeExpires(j) PROVE TasksSound'
  BY <1>t, <1>2 DEF DedupeExpires, TasksSound, SoundTask, JobOf
<1>3. ASSUME ForeignAdd PROVE TasksSound'
  BY <1>t, <1>3, TasksSoundAdd DEF ForeignAdd
<1>4. ASSUME NEW w \in Workers, ClaimStale(w) PROVE TasksSound'
  <2> DEFINE claimed == FirstOf(idle, BatchSize)
             t(i) == IF i \in claimed THEN [NoTask EXCEPT !.pc = "claimed"] ELSE NoTask
  <2>1. ASSUME NEW i \in Ids PROVE SoundTask(t(i), i)
    BY <1>t DEF SoundTask, NoTask, Working, FirstOf, PendingListExact, StreamOK
  <2>2. task' = [task EXCEPT ![w] = [i \in Ids |-> t(i)]] /\ UNCHANGED <<entry, added>>
    BY <1>4 DEF ClaimStale
  <2> QED
    BY <1>t, <2>1, <2>2 DEF TasksSound, SoundTask, TasksOK, JobOf
<1>5. ASSUME NEW w \in Workers, ReadNew(w) PROVE TasksSound'
  <2> DEFINE new == FirstOf({i \in live : i > cursor}, BatchSize)
             t(i) == IF i \in new THEN [NoTask EXCEPT !.pc = "start", !.attempt = 1]
                     ELSE NoTask
  <2>1. ASSUME NEW i \in Ids PROVE SoundTask(t(i), i)
    BY <1>t DEF SoundTask, NoTask, Working, FirstOf, StreamOK
  <2>2. task' = [task EXCEPT ![w] = [i \in Ids |-> t(i)]] /\ UNCHANGED <<entry, added>>
    BY <1>5 DEF ReadNew
  <2> QED
    BY <1>t, <2>1, <2>2 DEF TasksSound, SoundTask, TasksOK, JobOf
<1>6. ASSUME NEW w \in Workers, Crash(w) PROVE TasksSound'
  <2>1. task' = [task EXCEPT ![w] = [i \in Ids |-> NoTask]] /\ UNCHANGED <<entry, added>>
    BY <1>6 DEF Crash
  <2> QED
    BY <1>t, <2>1, TasksSoundIdle DEF TasksSound, SoundTask, TasksOK, JobOf
<1>7. ASSUME NEW w \in Workers, NEW i \in Ids, ReadAttempt(w, i) PROVE TasksSound'
  <2> DEFINE t == [task[w][i] EXCEPT !.pc = "start",
                                  !.attempt = IF times[i] > 0 THEN times[i] ELSE 1]
  <2>1. task[w][i] \in Task
    BY <1>t DEF TasksOK
  <2>2. SoundTask(t, i)
    BY <1>t, <1>7, <2>1 DEF ReadAttempt, TasksSound, SoundTask, Task, Working, GroupOK
  <2>3. SetTask(w, i, t) /\ UNCHANGED <<entry, added>>
    BY <1>7 DEF ReadAttempt
  <2> QED
    BY <1>t, <2>2, <2>3, TasksSoundSet
<1>8. ASSUME NEW w \in Workers, NEW i \in Ids, StartMalformed(w, i) PROVE TasksSound'
  BY <1>t, <1>8, TasksSoundSet, TasksSoundIdle DEF StartMalformed
<1>9. ASSUME NEW w \in Workers, NEW i \in Ids, Start(w, i) PROVE TasksSound'
  <2> DEFINE t == [task[w][i] EXCEPT !.pc = "lookup", !.beating = TRUE]
  <2>1. task[w][i] \in Task
    BY <1>t DEF TasksOK
  <2>2. SoundTask(t, i)
    BY <1>t, <1>9, <2>1 DEF Start, TasksSound, SoundTask, Task, Working, MayStart
  <2>3. SetTask(w, i, t) /\ UNCHANGED <<entry, added>>
    BY <1>9 DEF Start
  <2> QED
    BY <1>t, <2>2, <2>3, TasksSoundSet
<1>10. ASSUME NEW w \in Workers, NEW i \in Ids, Lookup(w, i) PROVE TasksSound'
  BY <1>t, <1>10, TasksSoundFailure, TasksSoundSuccess, TasksSoundGoto DEF Lookup, TasksSound, SoundTask, Working
<1>11. ASSUME NEW w \in Workers, NEW i \in Ids, Load(w, i) PROVE TasksSound'
  <2> DEFINE t == [task[w][i] EXCEPT !.pc = "run",
                        !.loaded = IF IsReplay(i) /\ run[JobOf(i)] = "failed"
                                   THEN "retrying" ELSE run[JobOf(i)]]
  <2>1. task[w][i] \in Task
    BY <1>t DEF TasksOK
  <2>2. SoundTask(t, i)
    BY <1>t, <1>11, <2>1 DEF Load, TasksSound, SoundTask, Task, Working
  <2>3. SetTask(w, i, t) /\ UNCHANGED <<entry, added>>
    BY <1>11 DEF Load
  <2> QED
    BY <1>t, <2>2, <2>3, TasksSoundSet
<1>12. ASSUME NEW w \in Workers, NEW i \in Ids,
             NEW result \in GraphOutcomes, RunSucceeds(w, i, result) PROVE TasksSound'
  BY <1>t, <1>12, TasksSoundSuccess, TasksSoundFailure DEF RunSucceeds, Working
<1>13. ASSUME NEW w \in Workers, NEW i \in Ids, RunFails(w, i) PROVE TasksSound'
  BY <1>t, <1>13, TasksSoundFailure DEF RunFails, Working
<1>14. ASSUME NEW w \in Workers, NEW i \in Ids, DatabaseFails(w, i) PROVE TasksSound'
  BY <1>t, <1>14, TasksSoundFailure DEF DatabaseFails, Working
<1>15. ASSUME NEW w \in Workers, NEW i \in Ids, MarkJobFailed(w, i) PROVE TasksSound'
  BY <1>t, <1>15, TasksSoundGoto DEF MarkJobFailed, Working
<1>16. ASSUME NEW w \in Workers, NEW i \in Ids, Bury(w, i) PROVE TasksSound'
  BY <1>t, <1>16, TasksSoundSet, TasksSoundIdle DEF Bury
<1>17. ASSUME NEW w \in Workers, NEW i \in Ids, RecordFailure(w, i) PROVE TasksSound'
  BY <1>t, <1>17, TasksSoundSet, TasksSoundIdle DEF RecordFailure
<1>18. ASSUME NEW w \in Workers, NEW i \in Ids, Acknowledge(w, i) PROVE TasksSound'
  BY <1>t, <1>18, TasksSoundSet, TasksSoundIdle DEF Acknowledge
<1>19. ASSUME NEW w \in Workers, NEW i \in Ids, Heartbeat(w, i) PROVE TasksSound'
  BY <1>t, <1>19 DEF Heartbeat, TasksSound, SoundTask, JobOf
<1>20. ASSUME NEW w \in Workers, NEW i \in Ids, HeartbeatDies(w, i) PROVE TasksSound'
  <2> DEFINE t == [task[w][i] EXCEPT !.beating = FALSE]
  <2>1. task[w][i] \in Task
    BY <1>t DEF TasksOK
  <2>2. SoundTask(t, i)
    BY <1>t, <1>20, <2>1 DEF HeartbeatDies, TasksSound, SoundTask, Task, Working
  <2>3. SetTask(w, i, t) /\ UNCHANGED <<entry, added>>
    BY <1>20 DEF HeartbeatDies
  <2> QED
    BY <1>t, <2>2, <2>3, TasksSoundSet
<1>21. ASSUME NEW w \in Workers, NEW i \in Ids, LeaseLapses(w, i) PROVE TasksSound'
  BY <1>t, <1>21 DEF LeaseLapses, TasksSound, SoundTask, JobOf
<1>22. ASSUME NEW w \in Workers, NEW i \in Ids, BoundaryFails(w, i) PROVE TasksSound'
  BY <1>t, <1>22, TasksSoundSet, TasksSoundIdle DEF BoundaryFails
<1>23. ASSUME NEW i \in Ids, LeaseExpires(i) PROVE TasksSound'
  BY <1>t, <1>23 DEF LeaseExpires, TasksSound, SoundTask, JobOf
<1>24. ASSUME NEW d \in DlqIds, NEW r \in Requests, Replay(d, r) PROVE TasksSound'
  BY <1>t, <1>24, TasksSoundAdd DEF Replay
<1>25. ASSUME NEW cutoff \in 2..(MaxDeadLetters + 1), Purge(cutoff) PROVE TasksSound'
  BY <1>t, <1>25 DEF Purge, TasksSound, SoundTask, JobOf
<1>26. CASE UNCHANGED vars
  BY <1>t, <1>26 DEF vars, TasksSound, SoundTask, JobOf
<1> QED
  BY <1>1, <1>2, <1>3, <1>4, <1>5, <1>6, <1>7, <1>8, <1>9, <1>10, <1>11, <1>12, <1>13, <1>14, <1>15, <1>16, <1>17, <1>18, <1>19, <1>20, <1>21, <1>22, <1>23, <1>24, <1>25, <1>26 DEF Next, Producer, Loop, Process, Failure, Operator,
     OperatorReplays, OperatorPurges

\* A new entry is neither delivered nor pending.
LEMMA PendingAdd ==
    ASSUME StreamOK, GroupOK, PendingListExact, NEW e, XAdd(e), UNCHANGED groupVars
    PROVE  PendingListExact'
  BY DeliveryAssumption DEF StreamOK, GroupOK, PendingListExact, XAdd, groupVars, Ids

\* XACK with XDEL takes an entry off the pending list and out of the stream.
LEMMA PendingRemove ==
    ASSUME GroupOK, PendingListExact, NEW i \in Ids, XRemove(i), UNCHANGED cursor
    PROVE  PendingListExact'
  BY DEF GroupOK, PendingListExact, XRemove

\* A step that leaves the stream and the group alone keeps the pending list exact.
LEMMA PendingSame ==
    ASSUME PendingListExact, UNCHANGED <<live, groupVars>>
    PROVE  PendingListExact'
  BY DEF PendingListExact, groupVars

\* Every step keeps the pending list exact.
LEMMA NextPending == BaseInv /\ [Next]_vars => PendingListExact'
<1> SUFFICES ASSUME BaseInv, [Next]_vars PROVE PendingListExact'
  OBVIOUS
<1> USE DeliveryAssumption DEF streamVars
<1>t. StreamOK /\ GroupOK /\ TasksOK /\ TasksSound /\ PendingListExact
  BY DEF BaseInv, TypeOK
<1>1. ASSUME NEW j \in Jobs, Enqueue(j) PROVE PendingListExact'
  BY <1>t, <1>1, PendingAdd DEF Enqueue
<1>2. ASSUME NEW j \in Jobs, DedupeExpires(j) PROVE PendingListExact'
  BY <1>t, <1>2, PendingSame DEF DedupeExpires
<1>3. ASSUME ForeignAdd PROVE PendingListExact'
  BY <1>t, <1>3, PendingAdd DEF ForeignAdd
<1>4. ASSUME NEW w \in Workers, ClaimStale(w) PROVE PendingListExact'
  <2> DEFINE claimed == FirstOf(idle, BatchSize)
  <2>1. claimed \subseteq idle
    BY FirstOfSubset
  <2>2. /\ times' = [i \in Ids |-> IF i \in claimed THEN times[i] + 1 ELSE times[i]]
        /\ idle' = idle \ claimed
        /\ UNCHANGED <<live, cursor>>
    BY <1>4 DEF ClaimStale
  <2> QED
    BY <1>t, <2>1, <2>2 DEF PendingListExact, GroupOK
<1>5. ASSUME NEW w \in Workers, ReadNew(w) PROVE PendingListExact'
  <2> DEFINE undelivered == {i \in live : i > cursor}
             new == FirstOf(undelivered, BatchSize)
  <2>1. /\ times' = [i \in Ids |-> IF i \in new THEN 1 ELSE times[i]]
        /\ IF new = {} THEN cursor' = cursor
           ELSE \E c \in new : (\A i \in new : i <= c) /\ cursor' = c
        /\ UNCHANGED <<live, idle>>
    BY <1>5 DEF ReadNew
  <2>2. new \subseteq undelivered
    BY FirstOfSubset
  <2>3. undelivered \in SUBSET Int /\ IsFiniteSet(undelivered)
    <3>1. undelivered \subseteq 1..added
      BY <1>t DEF StreamOK
    <3>2. IsFiniteSet(1..added)
      BY <1>t, FS_Interval DEF StreamOK
    <3>3. IsFiniteSet(undelivered)
      BY <3>1, <3>2, FS_Subset
    <3> HIDE DEF undelivered
    <3>4. undelivered \in SUBSET Int
      BY <1>t, <3>1 DEF StreamOK
    <3> QED
      BY <3>3, <3>4
  <2>4. CASE new = {}
    BY <1>t, <2>1, <2>4 DEF PendingListExact, GroupOK
  <2>5. CASE new # {}
    <3>1. PICK c \in new : (\A i \in new : i <= c) /\ cursor' = c
      BY <2>1, <2>5
    <3>2. \A i \in undelivered : i <= c <=> i \in new
      <4>1. ASSUME NEW i \in undelivered, i <= c PROVE i \in new
        <5>1. CASE i = c
          BY <5>1
        <5>2. CASE i < c
          BY <2>3, <5>2, FirstOfPrefix
        <5> QED
          BY <2>2, <2>3, <4>1, <5>1, <5>2
      <4> QED
        BY <3>1, <4>1
    <3>3. c \in live /\ c > cursor /\ c \in Int /\ cursor \in Int
      <4>1. c \in undelivered
        BY <2>2
      <4> QED
        BY <1>t, <4>1 DEF StreamOK, GroupOK
    <3>4. \A i \in Ids : times'[i] > 0 <=> i \in live' /\ i <= cursor'
      <4> TAKE i \in Ids
      <4>1. CASE i \in undelivered
        <5>1. times[i] = 0 /\ i \in live
          <6>1. i \in live /\ i > cursor /\ ~(i <= cursor)
            BY <3>3, <4>1 DEF Ids
          <6>2. times[i] \in Nat
            BY <1>t DEF GroupOK
          <6> QED
            BY <1>t, <6>1, <6>2 DEF PendingListExact
        <5>2. i <= c <=> i \in new
          BY <3>2, <4>1
        <5>3. times'[i] = IF i \in new THEN 1 ELSE times[i]
          BY <2>1
        <5> HIDE DEF new
        <5> QED
          BY <2>1, <3>1, <5>1, <5>2, <5>3
      <4>2. CASE i \notin undelivered
        BY <1>t, <2>1, <2>2, <3>1, <3>3, <4>2 DEF PendingListExact, GroupOK, Ids
      <4> QED
        BY <4>1, <4>2
    <3>5. \A i \in idle' : times'[i] > 0
      BY <1>t, <2>1 DEF PendingListExact, GroupOK
    <3> QED
      BY <3>4, <3>5 DEF PendingListExact
  <2> QED
    BY <2>4, <2>5
<1>6. ASSUME NEW w \in Workers, Crash(w) PROVE PendingListExact'
  BY <1>t, <1>6, PendingSame DEF Crash
<1>7. ASSUME NEW w \in Workers, NEW i \in Ids, ReadAttempt(w, i) PROVE PendingListExact'
  BY <1>t, <1>7, PendingSame DEF ReadAttempt
<1>8. ASSUME NEW w \in Workers, NEW i \in Ids, StartMalformed(w, i) PROVE PendingListExact'
  BY <1>t, <1>8, PendingRemove DEF StartMalformed, DeadLetter
<1>9. ASSUME NEW w \in Workers, NEW i \in Ids, Start(w, i) PROVE PendingListExact'
  BY <1>t, <1>9, PendingSame DEF Start
<1>10. ASSUME NEW w \in Workers, NEW i \in Ids, Lookup(w, i) PROVE PendingListExact'
  BY <1>t, <1>10, PendingSame DEF Lookup
<1>11. ASSUME NEW w \in Workers, NEW i \in Ids, Load(w, i) PROVE PendingListExact'
  BY <1>t, <1>11, PendingSame DEF Load
<1>12. ASSUME NEW w \in Workers, NEW i \in Ids,
             NEW result \in GraphOutcomes, RunSucceeds(w, i, result) PROVE PendingListExact'
  BY <1>t, <1>12, PendingSame DEF RunSucceeds
<1>13. ASSUME NEW w \in Workers, NEW i \in Ids, RunFails(w, i) PROVE PendingListExact'
  BY <1>t, <1>13, PendingSame DEF RunFails
<1>14. ASSUME NEW w \in Workers, NEW i \in Ids, DatabaseFails(w, i) PROVE PendingListExact'
  BY <1>t, <1>14, PendingSame DEF DatabaseFails
<1>15. ASSUME NEW w \in Workers, NEW i \in Ids, MarkJobFailed(w, i) PROVE PendingListExact'
  BY <1>t, <1>15, PendingSame DEF MarkJobFailed
<1>16. ASSUME NEW w \in Workers, NEW i \in Ids, Bury(w, i) PROVE PendingListExact'
  BY <1>t, <1>16, PendingRemove DEF Bury, DeadLetter
<1>17. ASSUME NEW w \in Workers, NEW i \in Ids, RecordFailure(w, i) PROVE PendingListExact'
  BY <1>t, <1>17, PendingSame DEF RecordFailure
<1>18. ASSUME NEW w \in Workers, NEW i \in Ids, Acknowledge(w, i) PROVE PendingListExact'
  BY <1>t, <1>18, PendingRemove DEF Acknowledge
<1>19. ASSUME NEW w \in Workers, NEW i \in Ids, Heartbeat(w, i) PROVE PendingListExact'
  <2>1. task[w][i].attempt \in Nat \ {0}
    BY <1>t, <1>19 DEF Heartbeat, TasksOK, Task, TasksSound, SoundTask
  <2> QED
    BY <1>t, <1>19, <2>1 DEF Heartbeat, PendingListExact, GroupOK
<1>20. ASSUME NEW w \in Workers, NEW i \in Ids, HeartbeatDies(w, i) PROVE PendingListExact'
  BY <1>t, <1>20, PendingSame DEF HeartbeatDies
<1>21. ASSUME NEW w \in Workers, NEW i \in Ids, LeaseLapses(w, i) PROVE PendingListExact'
  BY <1>t, <1>21 DEF LeaseLapses, PendingListExact
<1>22. ASSUME NEW w \in Workers, NEW i \in Ids, BoundaryFails(w, i) PROVE PendingListExact'
  BY <1>t, <1>22, PendingSame DEF BoundaryFails
<1>23. ASSUME NEW i \in Ids, LeaseExpires(i) PROVE PendingListExact'
  BY <1>t, <1>23 DEF LeaseExpires, PendingListExact
<1>24. ASSUME NEW d \in DlqIds, NEW r \in Requests, Replay(d, r) PROVE PendingListExact'
  BY <1>t, <1>24, PendingAdd DEF Replay
<1>25. ASSUME NEW cutoff \in 2..(MaxDeadLetters + 1), Purge(cutoff) PROVE PendingListExact'
  BY <1>t, <1>25, PendingSame DEF Purge
<1>26. CASE UNCHANGED vars
  BY <1>t, <1>26, PendingSame DEF vars
<1> QED
  BY <1>1, <1>2, <1>3, <1>4, <1>5, <1>6, <1>7, <1>8, <1>9, <1>10, <1>11, <1>12, <1>13, <1>14, <1>15, <1>16, <1>17, <1>18, <1>19, <1>20, <1>21, <1>22, <1>23, <1>24, <1>25, <1>26 DEF Next, Producer, Loop, Process, Failure, Operator,
     OperatorReplays, OperatorPurges

\* The base invariant holds in every reachable state.
LEMMA BaseInvariant == Spec => []BaseInv
<1>1. BaseInv /\ [Next]_vars => BaseInv'
  BY NextType, NextTasks, NextPending DEF BaseInv
<1> QED
  BY InitBase, <1>1, PTL DEF Spec

\* Every reachable state is type-correct, and ids, cursor and dead letters stay
\* within what their streams generated.
THEOREM TypeCorrect == Spec => []TypeOK
  BY BaseInvariant, PTL DEF BaseInv

\* The consumer group's pending list is exact in every reachable state, lost
\* leases and crashes included: XREADGROUP, XAUTOCLAIM, XCLAIM, acknowledge and
\* dead_letter keep "pending" equal to "delivered and still in the stream".
THEOREM PendingListIsExact == Spec => []PendingListExact
  BY BaseInvariant, PTL DEF BaseInv

-----------------------------------------------------------------------------
(* No job is lost *)

\* A delivery about to be acknowledged has a run that was settled.
AckJustified ==
    \A w \in Workers, i \in Ids : task[w][i].pc = "ack" => JobOf(i) \in everSettled

SettledKnown == \A j \in Jobs : run[j] \in Settled => j \in everSettled

LossInv == NoSilentLoss /\ AckJustified /\ SettledKnown

\* Publishing an entry loses none.
LEMMA LossAdd ==
    ASSUME StreamOK, NoSilentLoss, NEW e, XAdd(e), UNCHANGED <<dlqVars, everSettled>>
    PROVE  NoSilentLoss'
  BY DeliveryAssumption DEF StreamOK, NoSilentLoss, HasEvidence, XAdd, JobOf, dlqVars, Ids

\* Nor does a step that leaves stream and dead letters alone and unsettles no job.
LEMMA LossSame ==
    ASSUME NoSilentLoss, UNCHANGED <<entry, added, live, dlqOrig, dlqAdded>>,
           everSettled \subseteq everSettled'
    PROVE  NoSilentLoss'
  BY DEF NoSilentLoss, HasEvidence, JobOf

\* Burying an entry leaves evidence of it, and of all that was buried before.
LEMMA LossBury ==
    ASSUME DlqOK, NoSilentLoss, NEW i \in Ids, DeadLetter(i),
           UNCHANGED <<entry, added, everSettled>>
    PROVE  NoSilentLoss'
<1> USE DeliveryAssumption
<1>1. dlqAdded \in Nat /\ dlqAdded + 1 \in DlqIds /\ dlqAdded' = dlqAdded + 1
  BY DEF DlqOK, DeadLetter, DlqIds
<1>2. \A d \in 1..dlqAdded : d \in 1..dlqAdded' /\ dlqOrig'[d] = dlqOrig[d]
  BY <1>1 DEF DlqOK, DeadLetter, DlqIds
<1>3. dlqOrig'[dlqAdded + 1] = i /\ dlqAdded + 1 \in 1..dlqAdded'
  BY <1>1 DEF DlqOK, DeadLetter
<1>4. \A k : HasEvidence(k) => HasEvidence(k)'
  BY <1>2 DEF HasEvidence
<1>5. HasEvidence(i)'
  BY <1>3 DEF HasEvidence
<1>6. live' = live \ {i}
  BY DEF DeadLetter, XRemove
<1> QED
  BY <1>4, <1>5, <1>6 DEF NoSilentLoss, JobOf

\* Replacing one task keeps acknowledgements justified if the new task's is.
LEMMA AckSet ==
    ASSUME TasksOK, AckJustified, UNCHANGED entry, everSettled \subseteq everSettled',
           NEW w \in Workers, NEW i \in Ids, NEW t, SetTask(w, i, t),
           t.pc = "ack" => JobOf(i) \in everSettled'
    PROVE  AckJustified'
  BY DEF TasksOK, AckJustified, SetTask, JobOf

\* A task that ends needs no justification,
LEMMA AckIdle ==
    ASSUME TasksOK, AckJustified, UNCHANGED <<entry, everSettled>>,
           NEW w \in Workers, NEW i \in Ids, SetTask(w, i, NoTask)
    PROVE  AckJustified'
  BY AckSet DEF NoTask

\* nor does one that goes on to anything but an acknowledgement:
LEMMA AckGoto ==
    ASSUME TasksOK, AckJustified, UNCHANGED entry, everSettled \subseteq everSettled',
           NEW w \in Workers, NEW i \in Ids, NEW l, l # "ack", Goto(w, i, l)
    PROVE  AckJustified'
<1>1. [task[w][i] EXCEPT !.pc = l].pc = l
  BY DEF TasksOK, Task
<1> QED
  BY <1>1, AckSet DEF Goto

\* the except branch never leads to one,
LEMMA AckFailure ==
    ASSUME TasksOK, AckJustified, UNCHANGED entry, everSettled \subseteq everSettled',
           NEW w \in Workers, NEW i \in Ids, AfterFailure(w, i)
    PROVE  AckJustified'
  BY AckGoto DEF AfterFailure

\* and the finally branch on success leads to one for a settled job only.
LEMMA AckSuccess ==
    ASSUME TasksOK, AckJustified, UNCHANGED entry, everSettled \subseteq everSettled',
           NEW w \in Workers, NEW i \in Ids, AfterSuccess(w, i), JobOf(i) \in everSettled'
    PROVE  AckJustified'
<1>1. CASE task[w][i].beating
  BY <1>1, AckSet DEF AfterSuccess
<1>2. CASE ~task[w][i].beating
  BY <1>2, AckSet DEF AfterSuccess
<1> QED
  BY <1>1, <1>2

\* No task is on an id that is not published yet.
LEMMA AckAdd ==
    ASSUME StreamOK, TasksSound, AckJustified, NEW e, XAdd(e), UNCHANGED <<task, everSettled>>
    PROVE  AckJustified'
  BY DeliveryAssumption
     DEF StreamOK, TasksSound, SoundTask, AckJustified, XAdd, JobOf, Ids

\* Nothing is lost in a fresh stream.
LEMMA LossInit == Init => LossInv
  BY DeliveryAssumption
     DEF Init, LossInv, NoSilentLoss, AckJustified, SettledKnown, NoTask, Settled

\* Every step keeps the loss invariant.
LEMMA LossNext == BaseInv /\ LossInv /\ [Next]_vars => LossInv'
<1> SUFFICES ASSUME BaseInv, LossInv, [Next]_vars PROVE LossInv'
  OBVIOUS
<1> USE DeliveryAssumption
        DEF streamVars, groupVars, dlqVars, dbVars
<1>t. /\ StreamOK /\ DlqOK /\ RunsOK /\ TasksOK /\ TasksSound
      /\ NoSilentLoss /\ AckJustified /\ SettledKnown
  BY DEF BaseInv, TypeOK, LossInv
<1>1. ASSUME NEW j \in Jobs, Enqueue(j) PROVE LossInv'
  BY <1>t, <1>1, LossAdd, AckAdd DEF Enqueue, LossInv, SettledKnown
<1>2. ASSUME NEW j \in Jobs, DedupeExpires(j) PROVE LossInv'
  BY <1>t, <1>2, LossSame DEF DedupeExpires, LossInv, AckJustified, SettledKnown, JobOf
<1>3. ASSUME ForeignAdd PROVE LossInv'
  BY <1>t, <1>3, LossAdd, AckAdd DEF ForeignAdd, LossInv, SettledKnown
<1>4. ASSUME NEW w \in Workers, ClaimStale(w) PROVE LossInv'
  <2>1. AckJustified'
    BY <1>t, <1>4 DEF ClaimStale, AckJustified, TasksOK, NoTask, JobOf
  <2> QED
    BY <1>t, <1>4, <2>1, LossSame DEF ClaimStale, LossInv, SettledKnown
<1>5. ASSUME NEW w \in Workers, ReadNew(w) PROVE LossInv'
  <2>1. AckJustified'
    BY <1>t, <1>5 DEF ReadNew, AckJustified, TasksOK, NoTask, JobOf
  <2> QED
    BY <1>t, <1>5, <2>1, LossSame DEF ReadNew, LossInv, SettledKnown
<1>6. ASSUME NEW w \in Workers, Crash(w) PROVE LossInv'
  <2>1. AckJustified'
    BY <1>t, <1>6 DEF Crash, AckJustified, TasksOK, NoTask, JobOf
  <2> QED
    BY <1>t, <1>6, <2>1, LossSame DEF Crash, LossInv, SettledKnown
<1>7. ASSUME NEW w \in Workers, NEW i \in Ids, ReadAttempt(w, i) PROVE LossInv'
  <2>1. AckJustified'
    BY <1>t, <1>7 DEF ReadAttempt, SetTask, AckJustified, TasksOK, Task, JobOf
  <2> QED
    BY <1>t, <1>7, <2>1, LossSame DEF ReadAttempt, LossInv, SettledKnown
<1>8. ASSUME NEW w \in Workers, NEW i \in Ids, StartMalformed(w, i) PROVE LossInv'
  BY <1>t, <1>8, LossBury, AckIdle DEF StartMalformed, LossInv, SettledKnown
<1>9. ASSUME NEW w \in Workers, NEW i \in Ids, Start(w, i) PROVE LossInv'
  <2>1. AckJustified'
    BY <1>t, <1>9 DEF Start, MayStart, SetTask, AckJustified, TasksOK, Task, JobOf
  <2> QED
    BY <1>t, <1>9, <2>1, LossSame DEF Start, LossInv, SettledKnown
<1>10. ASSUME NEW w \in Workers, NEW i \in Ids, Lookup(w, i) PROVE LossInv'
  <2> DEFINE j == JobOf(i)
             status == IF run[j] = "none" THEN "running" ELSE run[j]
  <2>1. j \in Jobs
    BY <1>t, <1>10 DEF Lookup, TasksSound, SoundTask, Working
  <2>2. SettledKnown'
    BY <1>t, <1>10 DEF Lookup, SettledKnown, RunsOK, Settled
  <2>3. status \in Settled => j \in everSettled
    BY <1>t, <2>1 DEF SettledKnown, Settled
  <2>4. AckJustified'
    BY <1>t, <1>10, <2>3, AckFailure, AckSuccess, AckGoto DEF Lookup
  <2> QED
    BY <1>t, <1>10, <2>2, <2>4, LossSame DEF Lookup, LossInv
<1>11. ASSUME NEW w \in Workers, NEW i \in Ids, Load(w, i) PROVE LossInv'
  <2>1. AckJustified'
    BY <1>t, <1>11 DEF Load, SetTask, AckJustified, TasksOK, Task, JobOf
  <2>2. SettledKnown'
    BY <1>t, <1>11 DEF Load, SettledKnown, RunsOK, Settled
  <2> QED
    BY <1>t, <1>11, <2>1, <2>2, LossSame DEF Load, LossInv
<1>12. ASSUME NEW w \in Workers, NEW i \in Ids,
             NEW result \in GraphOutcomes, RunSucceeds(w, i, result) PROVE LossInv'
  <2>1. everSettled' = everSettled \cup {JobOf(i)} /\ UNCHANGED <<entry, added, live, dlqVars>>
    BY <1>12 DEF RunSucceeds
  <2>2. SettledKnown'
    BY <1>t, <1>12 DEF RunSucceeds, SettledKnown, RunsOK, OrmWrite, Settled
  <2>3. AckJustified'
    BY <1>t, <1>12, <2>1, AckSuccess, AckFailure DEF RunSucceeds
  <2> QED
    BY <1>t, <2>1, <2>2, <2>3, LossSame DEF LossInv
<1>13. ASSUME NEW w \in Workers, NEW i \in Ids, RunFails(w, i) PROVE LossInv'
  <2>1. SettledKnown'
    BY <1>t, <1>13 DEF RunFails, SettledKnown, RunsOK, OrmWrite, Settled
  <2> QED
    BY <1>t, <1>13, <2>1, LossSame, AckFailure DEF RunFails, LossInv
<1>14. ASSUME NEW w \in Workers, NEW i \in Ids, DatabaseFails(w, i) PROVE LossInv'
  BY <1>t, <1>14, LossSame, AckFailure DEF DatabaseFails, LossInv, SettledKnown
<1>15. ASSUME NEW w \in Workers, NEW i \in Ids, MarkJobFailed(w, i) PROVE LossInv'
  <2>1. SettledKnown'
    BY <1>t, <1>15 DEF MarkJobFailed, SettledKnown, RunsOK, OrmWrite, Settled
  <2> QED
    BY <1>t, <1>15, <2>1, LossSame, AckGoto DEF MarkJobFailed, LossInv
<1>16. ASSUME NEW w \in Workers, NEW i \in Ids, Bury(w, i) PROVE LossInv'
  BY <1>t, <1>16, LossBury, AckIdle DEF Bury, LossInv, SettledKnown
<1>17. ASSUME NEW w \in Workers, NEW i \in Ids, RecordFailure(w, i) PROVE LossInv'
  BY <1>t, <1>17, LossSame, AckIdle DEF RecordFailure, LossInv, SettledKnown
<1>18. ASSUME NEW w \in Workers, NEW i \in Ids, Acknowledge(w, i) PROVE LossInv'
  <2>1. NoSilentLoss'
    BY <1>t, <1>18 DEF Acknowledge, XRemove, AckJustified, NoSilentLoss, HasEvidence, JobOf
  <2> QED
    BY <1>t, <1>18, <2>1, AckIdle DEF Acknowledge, LossInv, SettledKnown
<1>19. ASSUME NEW w \in Workers, NEW i \in Ids, Heartbeat(w, i) PROVE LossInv'
  BY <1>t, <1>19, LossSame DEF Heartbeat, LossInv, AckJustified, SettledKnown, JobOf
<1>20. ASSUME NEW w \in Workers, NEW i \in Ids, HeartbeatDies(w, i) PROVE LossInv'
  <2>1. AckJustified'
    BY <1>t, <1>20 DEF HeartbeatDies, SetTask, AckJustified, TasksOK, Task, JobOf
  <2> QED
    BY <1>t, <1>20, <2>1, LossSame DEF HeartbeatDies, LossInv, SettledKnown
<1>21. ASSUME NEW w \in Workers, NEW i \in Ids, LeaseLapses(w, i) PROVE LossInv'
  BY <1>t, <1>21, LossSame DEF LeaseLapses, LossInv, AckJustified, SettledKnown, JobOf
<1>22. ASSUME NEW w \in Workers, NEW i \in Ids, BoundaryFails(w, i) PROVE LossInv'
  BY <1>t, <1>22, LossSame, AckIdle DEF BoundaryFails, LossInv, SettledKnown
<1>23. ASSUME NEW i \in Ids, LeaseExpires(i) PROVE LossInv'
  BY <1>t, <1>23, LossSame DEF LeaseExpires, LossInv, AckJustified, SettledKnown, JobOf
<1>24. ASSUME NEW d \in DlqIds, NEW r \in Requests, Replay(d, r) PROVE LossInv'
  BY <1>t, <1>24, LossAdd, AckAdd DEF Replay, LossInv, SettledKnown
<1>25. ASSUME NEW cutoff \in 2..(MaxDeadLetters + 1), Purge(cutoff) PROVE LossInv'
  BY <1>t, <1>25, LossSame DEF Purge, LossInv, AckJustified, SettledKnown, JobOf
<1>26. CASE UNCHANGED vars
  BY <1>t, <1>26, LossSame DEF vars, LossInv, AckJustified, SettledKnown, JobOf
<1> QED
  BY <1>1, <1>2, <1>3, <1>4, <1>5, <1>6, <1>7, <1>8, <1>9, <1>10, <1>11, <1>12, <1>13, <1>14, <1>15, <1>16, <1>17, <1>18, <1>19, <1>20, <1>21, <1>22, <1>23, <1>24, <1>25, <1>26 DEF Next, Producer, Loop, Process, Failure, Operator,
     OperatorReplays, OperatorPurges

\* No job is lost: however leases lapse, workers crash and calls fail, an entry
\* leaves the stream only behind a dead letter or a settled run.
THEOREM NoJobIsLost == Spec => []NoSilentLoss
<1>1. Spec => []LossInv
  <2>1. BaseInv /\ LossInv /\ [Next]_vars => LossInv'
    BY LossNext
  <2> QED
    BY LossInit, <2>1, BaseInvariant, PTL DEF Spec
<1> QED
  BY <1>1, PTL DEF LossInv

-----------------------------------------------------------------------------
(* Replays of dead letters *)

\* The hash of a dead letter that still exists knows every entry its replays
\* added.
ReplayLinked ==
    \A i \in 1..added : IsReplay(i) =>
        /\ entry[i].dlq \in 1..dlqAdded
        /\ entry[i].dlq \in dlqLive => replayEntry[entry[i].dlq][entry[i].req] = i

\* A replay in the stream is its dead letter's last one and shown in progress.
ReplayShown ==
    \A i \in live : IsReplay(i) /\ entry[i].dlq \in dlqLive =>
        /\ replayLast[entry[i].dlq] = entry[i].req
        /\ replayState[entry[i].dlq][entry[i].req] \in NonterminalReplay

PlainEntries == \A i \in 1..added : ~IsReplay(i) => entry[i].dlq = 0

ReplayInv ==
    /\ ReplayLinked
    /\ ReplayShown
    /\ PlainEntries
    /\ ReplayIdempotent
    /\ OneReplayInFlight

\* A step that touches neither stream, dead letters nor replay hashes keeps the
\* replay invariant.
LEMMA ReplaySame ==
    ASSUME ReplayInv, UNCHANGED <<entry, added, live, dlqAdded, dlqLive, replayVars>>
    PROVE  ReplayInv'
  BY DEF ReplayInv, ReplayLinked, ReplayShown, PlainEntries, ReplayIdempotent,
         OneReplayInFlight, IsReplay, replayVars

\* An entry added by a producer is no replay.
LEMMA ReplayPlainAdd ==
    ASSUME StreamOK, ReplayInv, NEW e \in Entry, e.req = NoRequest, e.dlq = 0, XAdd(e),
           UNCHANGED <<dlqVars, replayVars>>
    PROVE  ReplayInv'
<1> USE DeliveryAssumption
<1>1. /\ added \in Nat /\ added' = added + 1 /\ added + 1 \in Ids
      /\ live' = live \cup {added + 1} /\ live \subseteq 1..added
      /\ entry'[added + 1] = e /\ \A i \in 1..added : entry'[i] = entry[i]
  BY DEF StreamOK, XAdd, Ids
<1>2. \A i \in 1..added' : IsReplay(i)' => i \in 1..added /\ IsReplay(i)
  BY <1>1 DEF IsReplay
<1>3. \A i \in live' : IsReplay(i)' => i \in live /\ IsReplay(i)
  BY <1>1 DEF IsReplay
<1>4. ReplayLinked' /\ ReplayShown'
  BY <1>1, <1>2, <1>3
     DEF ReplayInv, ReplayLinked, ReplayShown, dlqVars, replayVars
<1>5. ReplayIdempotent'
  BY <1>1, <1>2 DEF ReplayInv, ReplayIdempotent, IsReplay
<1>6. OneReplayInFlight'
  <2> SUFFICES ASSUME NEW i \in live', NEW k \in live', IsReplay(i)', (entry[i].dlq = entry[k].dlq)'
               PROVE  i = k
    BY DEF OneReplayInFlight
  <2>1. i \in live /\ IsReplay(i) /\ entry'[i] = entry[i]
    BY <1>1, <1>3
  <2>2. entry[i].dlq \in 1..dlqAdded
    BY <1>1, <2>1 DEF ReplayInv, ReplayLinked
  <2>3. CASE k \in live
    BY <1>1, <2>1, <2>3 DEF ReplayInv, OneReplayInFlight
  <2>4. CASE k = added + 1
    BY <1>1, <2>1, <2>2, <2>4, 0 \notin 1..dlqAdded
  <2> QED
    BY <1>1, <2>3, <2>4
<1>7. PlainEntries'
  BY <1>1 DEF ReplayInv, PlainEntries, IsReplay
<1> QED
  BY <1>4, <1>5, <1>6, <1>7 DEF ReplayInv

\* Recording progress of a delivery keeps its replay shown in progress.
LEMMA ReplayProgress ==
    ASSUME StreamOK, DlqOK, ReplayOK, ReplayInv, NEW i \in Ids, NEW s \in NonterminalReplay,
           SetReplayState(i, s),
           UNCHANGED <<entry, added, live, dlqAdded, dlqLive, replayLast, replayEntry>>
    PROVE  ReplayInv'
<1>1. \A k \in live : IsReplay(k) => entry[k].req \in Requests /\ entry[k] \in Entry
  BY DeliveryAssumption DEF StreamOK, Entry, Ids, IsReplay
<1>2. ASSUME NEW d \in DlqIds, NEW r \in Requests,
             replayState[d][r] \in NonterminalReplay
      PROVE  replayState'[d][r] \in NonterminalReplay
  BY <1>2 DEF SetReplayState, ReplayOK
<1>3. \A k \in live : IsReplay(k) /\ entry[k].dlq \in dlqLive => entry[k].dlq \in DlqIds
  <2>1. dlqLive \subseteq DlqIds
    BY DeliveryAssumption DEF DlqOK, DlqIds
  <2> QED
    BY <2>1
<1>4. ReplayShown'
  BY <1>1, <1>2, <1>3 DEF ReplayInv, ReplayShown, IsReplay
<1> QED
  BY <1>4 DEF ReplayInv, ReplayLinked, PlainEntries, ReplayIdempotent, OneReplayInFlight,
              IsReplay

\* A final state is recorded in the step that takes the entry out of the stream,
\* and a fresh dead letter has no replays yet.
LEMMA ReplayFinish ==
    ASSUME StreamOK, DlqOK, ReplayOK, ReplayInv, NEW i \in Ids, i <= added, NEW s,
           SetReplayState(i, s), live' = live \ {i},
           UNCHANGED <<entry, added, replayLast, replayEntry>>,
           \/ UNCHANGED <<dlqAdded, dlqLive>>
           \/ dlqAdded' = dlqAdded + 1 /\ dlqLive' = dlqLive \cup {dlqAdded + 1}
    PROVE  ReplayInv'
<1> USE DeliveryAssumption
<1>0. /\ dlqAdded \in Nat /\ added \in Nat /\ live \subseteq 1..added
      /\ dlqLive \subseteq DlqIds /\ 1..dlqAdded \subseteq 1..dlqAdded' /\ i \in 1..added
  BY DEF DlqOK, StreamOK, DlqIds, Ids
<1>1. ASSUME NEW k \in 1..added, IsReplay(k), entry[k].dlq \in dlqLive'
      PROVE  entry[k].dlq \in dlqLive
  BY <1>0, <1>1 DEF ReplayInv, ReplayLinked
<1>2. ReplayLinked'
  BY <1>0, <1>1 DEF ReplayInv, ReplayLinked, IsReplay
<1>3. ReplayShown'
  <2> SUFFICES ASSUME NEW k \in live', IsReplay(k)', entry'[k].dlq \in dlqLive'
               PROVE  /\ replayLast'[entry[k].dlq] = entry[k].req
                      /\ replayState'[entry[k].dlq][entry[k].req] \in NonterminalReplay
    BY DEF ReplayShown
  <2>1. k \in live /\ k # i /\ k \in 1..added /\ IsReplay(k) /\ entry[k].dlq \in dlqLive
    BY <1>0, <1>1 DEF IsReplay
  <2>2. /\ replayLast[entry[k].dlq] = entry[k].req
        /\ replayState[entry[k].dlq][entry[k].req] \in NonterminalReplay
    BY <2>1 DEF ReplayInv, ReplayShown
  <2>3. ~(IsReplay(i) /\ entry[i].dlq = entry[k].dlq /\ entry[i].req = entry[k].req)
    BY <1>0, <2>1 DEF ReplayInv, ReplayIdempotent
  <2>4. entry[k].dlq \in DlqIds /\ entry[k].req \in Requests
    BY <1>0, <2>1 DEF StreamOK, Entry, Ids, IsReplay
  <2>5. replayState'[entry[k].dlq][entry[k].req] = replayState[entry[k].dlq][entry[k].req]
    BY <2>3, <2>4 DEF SetReplayState, ReplayOK
  <2> QED
    BY <2>2, <2>5
<1>4. PlainEntries' /\ ReplayIdempotent' /\ OneReplayInFlight'
  BY DEF ReplayInv, PlainEntries, ReplayIdempotent, OneReplayInFlight, IsReplay
<1> QED
  BY <1>2, <1>3, <1>4 DEF ReplayInv

\* A fresh stream has no replays.
LEMMA ReplayInit == Init => ReplayInv
  BY DEF Init, ReplayInv, ReplayLinked, ReplayShown, PlainEntries, ReplayIdempotent,
         OneReplayInFlight

\* Every step keeps the replay invariant.
LEMMA ReplayNext == BaseInv /\ ReplayInv /\ [Next]_vars => ReplayInv'
<1> SUFFICES ASSUME BaseInv, ReplayInv, [Next]_vars PROVE ReplayInv'
  OBVIOUS
<1> USE DeliveryAssumption DEF streamVars, dlqVars
<1>t. StreamOK /\ DlqOK /\ ReplayOK /\ TasksOK /\ TasksSound
  BY DEF BaseInv, TypeOK
<1>1. ASSUME NEW j \in Jobs, Enqueue(j) PROVE ReplayInv'
  BY <1>t, <1>1, ReplayPlainAdd DEF Enqueue, Entry, NoEntry
<1>2. ASSUME NEW j \in Jobs, DedupeExpires(j) PROVE ReplayInv'
  BY <1>2, ReplaySame DEF DedupeExpires
<1>3. ASSUME ForeignAdd PROVE ReplayInv'
  BY <1>t, <1>3, ReplayPlainAdd DEF ForeignAdd, Entry, NoEntry
<1>4. ASSUME NEW w \in Workers, ClaimStale(w) PROVE ReplayInv'
  BY <1>4, ReplaySame DEF ClaimStale
<1>5. ASSUME NEW w \in Workers, ReadNew(w) PROVE ReplayInv'
  BY <1>5, ReplaySame DEF ReadNew
<1>6. ASSUME NEW w \in Workers, Crash(w) PROVE ReplayInv'
  BY <1>6, ReplaySame DEF Crash
<1>7. ASSUME NEW w \in Workers, NEW i \in Ids, ReadAttempt(w, i) PROVE ReplayInv'
  BY <1>7, ReplaySame DEF ReadAttempt
<1>8. ASSUME NEW w \in Workers, NEW i \in Ids, StartMalformed(w, i) PROVE ReplayInv'
  <2>1. i <= added
    BY <1>t, <1>8 DEF StartMalformed, MayStart, TasksSound, SoundTask
  <2> QED
    BY <1>t, <1>8, <2>1, ReplayFinish DEF StartMalformed, DeadLetter, XRemove
<1>9. ASSUME NEW w \in Workers, NEW i \in Ids, Start(w, i) PROVE ReplayInv'
  BY <1>t, <1>9, ReplayProgress DEF Start, NonterminalReplay
<1>10. ASSUME NEW w \in Workers, NEW i \in Ids, Lookup(w, i) PROVE ReplayInv'
  BY <1>10, ReplaySame DEF Lookup
<1>11. ASSUME NEW w \in Workers, NEW i \in Ids, Load(w, i) PROVE ReplayInv'
  BY <1>11, ReplaySame DEF Load
<1>12. ASSUME NEW w \in Workers, NEW i \in Ids,
             NEW result \in GraphOutcomes, RunSucceeds(w, i, result) PROVE ReplayInv'
  BY <1>12, ReplaySame DEF RunSucceeds
<1>13. ASSUME NEW w \in Workers, NEW i \in Ids, RunFails(w, i) PROVE ReplayInv'
  BY <1>13, ReplaySame DEF RunFails
<1>14. ASSUME NEW w \in Workers, NEW i \in Ids, DatabaseFails(w, i) PROVE ReplayInv'
  BY <1>14, ReplaySame DEF DatabaseFails
<1>15. ASSUME NEW w \in Workers, NEW i \in Ids, MarkJobFailed(w, i) PROVE ReplayInv'
  BY <1>15, ReplaySame DEF MarkJobFailed
<1>16. ASSUME NEW w \in Workers, NEW i \in Ids, Bury(w, i) PROVE ReplayInv'
  <2>1. i <= added
    BY <1>t, <1>16 DEF Bury, MayStart, TasksSound, SoundTask
  <2> QED
    BY <1>t, <1>16, <2>1, ReplayFinish DEF Bury, DeadLetter, XRemove
<1>17. ASSUME NEW w \in Workers, NEW i \in Ids, RecordFailure(w, i) PROVE ReplayInv'
  BY <1>t, <1>17, ReplayProgress DEF RecordFailure, NonterminalReplay
<1>18. ASSUME NEW w \in Workers, NEW i \in Ids, Acknowledge(w, i) PROVE ReplayInv'
  <2>1. i <= added
    BY <1>t, <1>18 DEF Acknowledge, MayStart, TasksSound, SoundTask
  <2> QED
    BY <1>t, <1>18, <2>1, ReplayFinish DEF Acknowledge, DeadLetter, XRemove
<1>19. ASSUME NEW w \in Workers, NEW i \in Ids, Heartbeat(w, i) PROVE ReplayInv'
  BY <1>19, ReplaySame DEF Heartbeat
<1>20. ASSUME NEW w \in Workers, NEW i \in Ids, HeartbeatDies(w, i) PROVE ReplayInv'
  BY <1>20, ReplaySame DEF HeartbeatDies
<1>21. ASSUME NEW w \in Workers, NEW i \in Ids, LeaseLapses(w, i) PROVE ReplayInv'
  BY <1>21, ReplaySame DEF LeaseLapses
<1>22. ASSUME NEW w \in Workers, NEW i \in Ids, BoundaryFails(w, i) PROVE ReplayInv'
  BY <1>22, ReplaySame DEF BoundaryFails
<1>23. ASSUME NEW i \in Ids, LeaseExpires(i) PROVE ReplayInv'
  BY <1>23, ReplaySame DEF LeaseExpires
<1>24. ASSUME NEW d \in DlqIds, NEW r \in Requests, Replay(d, r) PROVE ReplayInv'
  <2> DEFINE e == [job |-> JobOf(dlqOrig[d]), dlq |-> d, req |-> r]
  <2>1. /\ added \in Nat /\ added' = added + 1 /\ added + 1 \in Ids
        /\ live' = live \cup {added + 1} /\ live \subseteq 1..added
        /\ entry'[added + 1] = e /\ \A i \in 1..added : entry'[i] = entry[i]
    BY <1>t, <1>24 DEF Replay, StreamOK, XAdd, Ids
  <2>2. /\ d \in dlqLive /\ d \in 1..dlqAdded
        /\ replayEntry[d][r] = 0
        /\ ~ReplayInProgress(d, r)
        /\ UNCHANGED <<dlqLive, dlqAdded>>
    BY <1>t, <1>24 DEF Replay, ReplayExists, DlqOK
  <2>3. \A i \in 1..added : IsReplay(i) => ~(entry[i].dlq = d /\ entry[i].req = r)
    BY <2>1, <2>2 DEF ReplayInv, ReplayLinked
  <2>4. \A i \in live : IsReplay(i) => entry[i].dlq # d
    <3> SUFFICES ASSUME NEW i \in live, IsReplay(i), entry[i].dlq = d PROVE FALSE
      OBVIOUS
    <3>1. replayLast[d] = entry[i].req /\ replayState[d][entry[i].req] \in NonterminalReplay
      BY <2>2 DEF ReplayInv, ReplayShown
    <3>2. entry[i].req # r /\ entry[i].req # NoRequest
      BY <2>1, <2>3 DEF IsReplay
    <3> QED
      BY <2>2, <3>1, <3>2 DEF ReplayInProgress
  <2>5. /\ replayLast'[d] = r /\ replayState'[d][r] = "enqueued"
        /\ replayEntry'[d][r] = added + 1
        /\ \A c \in DlqIds, q \in Requests :
              /\ <<c, q>> # <<d, r>> => replayEntry'[c][q] = replayEntry[c][q]
              /\ c # d => replayLast'[c] = replayLast[c] /\ replayState'[c] = replayState[c]
    BY <1>t, <1>24 DEF Replay, ReplayOK
  <2>6. \A i \in 1..added : IsReplay(i) => entry[i].dlq \in 1..dlqAdded /\ entry[i].dlq \in DlqIds /\ entry[i].req \in Requests
    BY <1>t, <2>1 DEF StreamOK, Entry, Ids, IsReplay, DlqOK, DlqIds, ReplayInv, ReplayLinked
  <2>7. ReplayLinked'
    BY <2>1, <2>2, <2>3, <2>5, <2>6 DEF ReplayInv, ReplayLinked, IsReplay
  <2>8. ReplayShown'
    BY <2>1, <2>2, <2>4, <2>5, <2>6 DEF ReplayInv, ReplayShown, IsReplay, NonterminalReplay
  <2>9. ReplayIdempotent'
    BY <2>1, <2>2, <2>3 DEF ReplayInv, ReplayIdempotent, IsReplay
  <2>10. OneReplayInFlight'
    <3>1. d # 0
      BY DEF DlqIds
    <3>2. \A k \in live : entry'[k] = entry[k] /\ entry[k].dlq # d
      BY <2>1, <2>4, <3>1 DEF ReplayInv, PlainEntries
    <3> QED
      BY <2>1, <3>2 DEF ReplayInv, OneReplayInFlight, IsReplay
  <2>11. PlainEntries'
    BY <2>1, <2>2 DEF ReplayInv, PlainEntries, IsReplay
  <2> QED
    BY <2>7, <2>8, <2>9, <2>10, <2>11 DEF ReplayInv
<1>25. ASSUME NEW cutoff \in 2..(MaxDeadLetters + 1), Purge(cutoff) PROVE ReplayInv'
  <2> DEFINE purged == {d \in dlqLive : d < cutoff}
  <2>1. /\ dlqLive' = dlqLive \ purged /\ UNCHANGED <<entry, added, live, dlqAdded>>
        /\ \A d \in dlqLive' : /\ replayLast'[d] = replayLast[d]
                                /\ replayEntry'[d] = replayEntry[d]
                                /\ replayState'[d] = replayState[d]
    <3>1. dlqLive \subseteq DlqIds
      BY <1>t DEF DlqOK, DlqIds
    <3> QED
      BY <1>25, <3>1 DEF Purge
  <2>2. ReplayLinked' /\ ReplayShown'
    BY <2>1 DEF ReplayInv, ReplayLinked, ReplayShown, IsReplay
  <2>3. PlainEntries' /\ ReplayIdempotent' /\ OneReplayInFlight'
    BY <2>1 DEF ReplayInv, PlainEntries, ReplayIdempotent, OneReplayInFlight, IsReplay
  <2> QED
    BY <2>2, <2>3 DEF ReplayInv
<1>26. CASE UNCHANGED vars
  BY <1>26, ReplaySame DEF vars
<1> QED
  BY <1>1, <1>2, <1>3, <1>4, <1>5, <1>6, <1>7, <1>8, <1>9, <1>10, <1>11, <1>12, <1>13, <1>14, <1>15, <1>16, <1>17, <1>18, <1>19, <1>20, <1>21, <1>22, <1>23, <1>24, <1>25, <1>26 DEF Next, Producer, Loop, Process, Failure, Operator,
     OperatorReplays, OperatorPurges

\* The replay invariant holds in every reachable state.
LEMMA ReplayInvariant == Spec => []ReplayInv
<1>1. BaseInv /\ ReplayInv /\ [Next]_vars => ReplayInv'
  BY ReplayNext
<1> QED
  BY ReplayInit, <1>1, BaseInvariant, PTL DEF Spec

\* One replay request adds at most one entry, whatever happens in between.
THEOREM ReplayIsIdempotent == Spec => []ReplayIdempotent
  BY ReplayInvariant, PTL DEF ReplayInv

\* Two replays of one dead letter are never in the stream together, also when
\* leases are lost and late deliveries write to the replay hash.
THEOREM ReplaysAreSerial == Spec => []OneReplayInFlight
  BY ReplayInvariant, PTL DEF ReplayInv

-----------------------------------------------------------------------------
(* The queue implements the ledger *)

ledgerVars == <<entry, added, live, everSettled, dlqOrig, dlqAdded>>

\* Every dead letter names an entry of the stream.
LettersNamed == \A d \in 1..dlqAdded : dlqOrig[d] \in 1..added

\* Only publishing, burying, committing a result and acknowledging touch what the
\* ledger keeps; claims, leases, retries, crashes and purges do not.
LEMMA StepKinds ==
    ASSUME [Next]_vars
    PROVE  \/ UNCHANGED ledgerVars
           \/ \E j \in Jobs : Enqueue(j)
           \/ ForeignAdd
           \/ \E d \in DlqIds, r \in Requests : Replay(d, r)
           \/ \E w \in Workers, i \in Ids :
                \/ StartMalformed(w, i)
                \/ Bury(w, i)
                \/ \E result \in GraphOutcomes : RunSucceeds(w, i, result)
                \/ Acknowledge(w, i)
<1> USE DEF ledgerVars
<1>1. CASE UNCHANGED vars
  BY <1>1 DEF vars, streamVars, dlqVars, dbVars
<1>2. CASE Producer
  BY <1>2 DEF Producer, DedupeExpires, dlqVars, dbVars
<1>3. ASSUME NEW w \in Workers, Loop(w) \/ Crash(w) PROVE UNCHANGED ledgerVars
  BY <1>3 DEF Loop, ClaimStale, ReadNew, Crash, streamVars, dlqVars, dbVars
<1>4. ASSUME NEW w \in Workers, NEW i \in Ids, Heartbeat(w, i) \/ Failure(w, i)
      PROVE  UNCHANGED ledgerVars
  BY <1>4 DEF Heartbeat, Failure, HeartbeatDies, LeaseLapses, BoundaryFails, streamVars,
              dlqVars, dbVars
<1>5. ASSUME NEW w \in Workers, NEW i \in Ids,
             \/ ReadAttempt(w, i) \/ Start(w, i) \/ Lookup(w, i) \/ Load(w, i)
             \/ RunFails(w, i) \/ DatabaseFails(w, i) \/ MarkJobFailed(w, i)
             \/ RecordFailure(w, i)
      PROVE  UNCHANGED ledgerVars
  BY <1>5 DEF ReadAttempt, Start, Lookup, Load, RunFails, DatabaseFails, MarkJobFailed,
              RecordFailure, streamVars, dlqVars, dbVars
<1>6. ASSUME NEW i \in Ids, LeaseExpires(i) PROVE UNCHANGED ledgerVars
  BY <1>6 DEF LeaseExpires, streamVars, dlqVars, dbVars
<1>7. CASE Operator
  BY <1>7 DEF Operator, OperatorReplays, OperatorPurges, Purge, streamVars, dlqVars, dbVars
<1> QED
  BY <1>1, <1>2, <1>3, <1>4, <1>5, <1>6, <1>7 DEF Next, Process

\* What a MULTI block of dead_letter adds to the dead letters.
LEMMA BuryLetter ==
    ASSUME DlqOK, NEW i \in Ids, DeadLetter(i)
    PROVE  /\ dlqAdded \in Nat /\ dlqAdded' = dlqAdded + 1
           /\ dlqOrig'[dlqAdded + 1] = i
           /\ \A d \in 1..dlqAdded : dlqOrig'[d] = dlqOrig[d]
           /\ live' = live \ {i}
<1>1. dlqAdded \in Nat /\ dlqAdded + 1 \in DlqIds /\ dlqAdded' = dlqAdded + 1
  BY DeliveryAssumption DEF DlqOK, DeadLetter, DlqIds
<1>2. \A d \in 1..dlqAdded : d \in DlqIds /\ d # dlqAdded + 1
  BY <1>1, DeliveryAssumption DEF DlqIds
<1> QED
  BY <1>1, <1>2 DEF DlqOK, DeadLetter, XRemove

\* A delivery that buries or acknowledges is one of an entry of the stream.
LEMMA ActivePublished ==
    ASSUME BaseInv, NEW w \in Workers, NEW i \in Ids, task[w][i].pc # "idle"
    PROVE  i \in 1..added
  BY DeliveryAssumption DEF BaseInv, TasksSound, SoundTask, TypeOK, StreamOK, Ids

\* Every step keeps dead letters named.
LEMMA LettersNext == BaseInv /\ LettersNamed /\ [Next]_vars => LettersNamed'
<1> SUFFICES ASSUME BaseInv, LettersNamed, [Next]_vars PROVE LettersNamed'
  OBVIOUS
<1>t. StreamOK /\ DlqOK
  BY DEF BaseInv, TypeOK
<1>1. CASE UNCHANGED ledgerVars
  BY <1>1 DEF LettersNamed, ledgerVars
<1>2. ASSUME NEW e, XAdd(e), UNCHANGED <<dlqOrig, dlqAdded>> PROVE LettersNamed'
  BY <1>t, <1>2, DeliveryAssumption DEF LettersNamed, XAdd, StreamOK
<1>3. ASSUME NEW w \in Workers, NEW i \in Ids, task[w][i].pc # "idle", DeadLetter(i),
             added' = added
      PROVE  LettersNamed'
  <2>1. i \in 1..added
    BY <1>3, ActivePublished
  <2>2. \A d \in 1..(dlqAdded + 1) : d \in 1..dlqAdded \/ d = dlqAdded + 1
    BY <1>t, <1>3, BuryLetter
  <2> QED
    BY <1>t, <1>3, <2>1, <2>2, BuryLetter DEF LettersNamed
<1>4. ASSUME NEW w \in Workers, NEW i \in Ids, StartMalformed(w, i) \/ Bury(w, i)
      PROVE  LettersNamed'
  BY <1>3, <1>4 DEF StartMalformed, Bury, MayStart
<1>5. ASSUME NEW w \in Workers, NEW i \in Ids,
             Acknowledge(w, i) \/ \E result \in GraphOutcomes : RunSucceeds(w, i, result)
      PROVE  LettersNamed'
  BY <1>5 DEF Acknowledge, RunSucceeds, LettersNamed, streamVars, dlqVars
<1> QED
  BY <1>1, <1>2, <1>4, <1>5, StepKinds DEF Enqueue, ForeignAdd, Replay, dlqVars

\* The invariants the refinement rests on.
LEMMA LedgerInvariant == Spec => [](BaseInv /\ LossInv /\ ReplayInv /\ LettersNamed)
<1>1. Init => LettersNamed
  BY DEF Init, LettersNamed
<1>2. BaseInv /\ LossInv /\ [Next]_vars => LossInv'
  BY LossNext
<1>3. BaseInv /\ LettersNamed /\ [Next]_vars => LettersNamed'
  BY LettersNext
<1> QED
  BY <1>1, <1>2, <1>3, LossInit, BaseInvariant, ReplayInvariant, PTL DEF Spec

\* An empty stream is an empty ledger.
LEMMA LedgerInit == Init => Ledger!Init
  BY DEF Init, Ledger!Init, NoEntry, HasEvidence

\* XADD of an entry is an addition to the ledger.
LEMMA LedgerAdd ==
    ASSUME StreamOK, NEW e, XAdd(e), UNCHANGED <<everSettled, dlqOrig, dlqAdded>>
    PROVE  Ledger!Add(e)
  BY DeliveryAssumption DEF XAdd, StreamOK, Ledger!Add, HasEvidence, Ids

\* dead_letter buries the entry in the ledger.
LEMMA LedgerBury ==
    ASSUME DlqOK, NEW i \in Ids, i \in 1..added, DeadLetter(i),
           UNCHANGED <<entry, added, everSettled>>
    PROVE  Ledger!Bury(i)
<1>1. \A d \in 1..dlqAdded' : d \in 1..dlqAdded \/ d = dlqAdded + 1
  BY BuryLetter
<1>2. \A d \in 1..dlqAdded : d \in 1..dlqAdded'
  BY BuryLetter
<1>3. dlqAdded + 1 \in 1..dlqAdded'
  BY BuryLetter
<1>4. \A k \in Ids : HasEvidence(k)' <=> HasEvidence(k) \/ k = i
  BY <1>1, <1>2, <1>3, BuryLetter DEF HasEvidence
<1>5. {k \in Ids : HasEvidence(k)}' = {k \in Ids : HasEvidence(k)} \cup {i}
  BY <1>4
<1> QED
  BY <1>5, BuryLetter DEF Ledger!Bury

\* Every step of the queue is a step of the ledger, or none.
LEMMA LedgerNext ==
    BaseInv /\ LossInv /\ ReplayInv /\ LettersNamed /\ [Next]_vars
        => [Ledger!Next]_(Ledger!vars)
<1> SUFFICES ASSUME BaseInv, LossInv, ReplayInv, LettersNamed, [Next]_vars
             PROVE  Ledger!Next \/ UNCHANGED Ledger!vars
  OBVIOUS
<1>t. StreamOK /\ DlqOK /\ ReplayOK
  BY DEF BaseInv, TypeOK
<1>1. CASE UNCHANGED ledgerVars
  BY <1>1 DEF ledgerVars, Ledger!vars, HasEvidence
<1>2. ASSUME NEW j \in Jobs, Enqueue(j) PROVE Ledger!Next
  <2>1. Ledger!Publish(j)
    BY <1>t, <1>2, LedgerAdd DEF Enqueue, Ledger!Publish, dlqVars, dbVars
  <2> QED
    BY <2>1 DEF Ledger!Next
<1>3. CASE ForeignAdd
  <2>1. Ledger!Publish(Garbage)
    BY <1>t, <1>3, LedgerAdd DEF ForeignAdd, Ledger!Publish, NoEntry, dlqVars, dbVars
  <2> QED
    BY <2>1 DEF Ledger!Next
<1>4. ASSUME NEW d \in DlqIds, NEW r \in Requests, Replay(d, r) PROVE Ledger!Next
  <2>1. d \in dlqLive /\ d \in 1..dlqAdded /\ r # NoRequest /\ d # 0
    BY <1>t, <1>4, DeliveryAssumption DEF Replay, DlqOK, DlqIds
  <2>2. \A i \in live : i \in 1..added
    BY <1>t DEF StreamOK
  <2>3. ~\E i \in 1..added : entry[i].dlq = d /\ entry[i].req = r
    BY <1>4, <2>1 DEF Replay, ReplayExists, ReplayInv, ReplayLinked, IsReplay
  <2>4. ~\E i \in live : entry[i].dlq = d
    <3> SUFFICES ASSUME NEW i \in live, entry[i].dlq = d PROVE FALSE
      OBVIOUS
    <3>1. IsReplay(i)
      BY <2>1, <2>2 DEF ReplayInv, PlainEntries
    <3>2. replayLast[d] = entry[i].req /\ replayState[d][entry[i].req] \in NonterminalReplay
      BY <2>1, <3>1 DEF ReplayInv, ReplayShown
    <3>3. entry[i].req # r /\ entry[i].req # NoRequest
      BY <2>2, <2>3, <3>1 DEF IsReplay
    <3> QED
      BY <1>4, <3>2, <3>3 DEF Replay, ReplayInProgress
  <2>5. dlqOrig[d] \in {i \in Ids : HasEvidence(i)}
    <3>1. dlqOrig[d] \in 1..added
      BY <2>1 DEF LettersNamed
    <3>2. dlqOrig[d] \in Ids
      BY <1>t, <3>1, DeliveryAssumption DEF StreamOK, Ids
    <3> QED
      BY <2>1, <3>2 DEF HasEvidence
  <2>6. Ledger!Add([job |-> entry[dlqOrig[d]].job, dlq |-> d, req |-> r])
    BY <1>t, <1>4, LedgerAdd DEF Replay, JobOf, dlqVars, dbVars
  <2>7. Ledger!Replay(d, r)
    BY <2>3, <2>4, <2>5, <2>6 DEF Ledger!Replay, Ledger!MayReplay
  <2> QED
    BY <2>7 DEF Ledger!Next
<1>5. ASSUME NEW w \in Workers, NEW i \in Ids, StartMalformed(w, i) \/ Bury(w, i)
      PROVE  Ledger!Next
  <2>1. i \in 1..added
    BY <1>5, ActivePublished DEF StartMalformed, Bury, MayStart
  <2>2. DeadLetter(i) /\ UNCHANGED <<entry, added, everSettled>>
    BY <1>5 DEF StartMalformed, Bury, dbVars
  <2>3. Ledger!Bury(i)
    BY <1>t, <2>1, <2>2, LedgerBury
  <2> QED
    BY <2>3 DEF Ledger!Next
<1>6. ASSUME NEW w \in Workers, NEW i \in Ids, NEW result \in GraphOutcomes,
             RunSucceeds(w, i, result)
      PROVE  Ledger!Next
  <2>1. JobOf(i) \in Jobs
    BY <1>6 DEF RunSucceeds, BaseInv, TasksSound, SoundTask, Working
  <2>2. Ledger!Settle(JobOf(i))
    BY <1>6 DEF RunSucceeds, Ledger!Settle, streamVars, dlqVars, HasEvidence
  <2> QED
    BY <2>1, <2>2 DEF Ledger!Next
<1>7. ASSUME NEW w \in Workers, NEW i \in Ids, Acknowledge(w, i)
      PROVE  Ledger!Next \/ UNCHANGED Ledger!vars
  <2>1. /\ live' = live \ {i}
        /\ UNCHANGED <<entry, added, everSettled, dlqOrig, dlqAdded>>
        /\ entry[i].job \in everSettled
    BY <1>7 DEF Acknowledge, XRemove, dlqVars, dbVars, LossInv, AckJustified, JobOf
  <2>2. CASE i \in live
    <3>1. Ledger!Close(i)
      BY <2>1, <2>2 DEF Ledger!Close, HasEvidence
    <3> QED
      BY <3>1 DEF Ledger!Next
  <2>3. CASE i \notin live
    BY <2>1, <2>3 DEF Ledger!vars, HasEvidence
  <2> QED
    BY <2>2, <2>3
<1> QED
  BY <1>1, <1>2, <1>3, <1>4, <1>5, <1>6, <1>7, StepKinds

\* The stream with its consumer group, leases and replay hashes implements the
\* ledger of entries, for any number of workers, crashes and lost leases.
THEOREM QueueImplementsLedger == Spec => ImplementsLedger
<1>1. BaseInv /\ LossInv /\ ReplayInv /\ LettersNamed /\ [Next]_vars
        => [Ledger!Next]_(Ledger!vars)
  BY LedgerNext
<1> QED
  BY <1>1, LedgerInit, LedgerInvariant, PTL DEF Spec, ImplementsLedger, Ledger!Spec
=============================================================================
