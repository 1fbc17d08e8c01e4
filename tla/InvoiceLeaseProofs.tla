------------------------- MODULE InvoiceLeaseProofs -------------------------
(***************************************************************************)
(* What leases are for, for every number of workers, jobs, entries and     *)
(* faults.  Every lost lease costs at most one worker that shares an       *)
(* entry, one more dead letter, one more attempt and one wedged replay;    *)
(* and as long as none was lost, every delivery is alone with its entry,   *)
(* no run is stranded and no settled run is processed again.               *)
(***************************************************************************)
EXTENDS InvoiceDeliveryProofs

\* A delivery under way holds the lease of an entry that is pending and not up
\* for XAUTOCLAIM, and no other worker has that entry.
Owned ==
    \A w \in Workers, i \in Ids : Active(w, i) =>
        /\ i \in live /\ i <= cursor /\ i \notin idle
        /\ HoldsLease(w, i)
        /\ \A v \in Workers : Active(v, i) => v = w

\* delivery.attempt is the group's counter once it is read, the heartbeat starts
\* later and so rewrites what is there, and only a delivery with attempts left is
\* recorded for a retry.
AttemptKnown ==
    \A w \in Workers, i \in Ids :
        /\ task[w][i].beating => task[w][i].pc \notin {"idle", "claimed"}
        /\ task[w][i].pc \notin {"idle", "claimed"} => task[w][i].attempt = times[i]
        /\ task[w][i].pc = "record" => task[w][i].attempt < MaxAttempts

LeaseInv == Owned /\ AttemptKnown

-----------------------------------------------------------------------------
(* How a step changes the table of tasks *)

\* A step of one delivery leaves all others alone.
LEMMA OneTask ==
    ASSUME TasksOK, NEW w \in Workers, NEW i \in Ids, NEW t, SetTask(w, i, t)
    PROVE  /\ task'[w][i] = t
           /\ \A v \in Workers, k \in Ids : v # w \/ k # i => task'[v][k] = task[v][k]
  BY DEF TasksOK, SetTask

\* The record of a delivery XREADGROUP just handed out.
LEMMA FreshTask ==
    ASSUME NEW t, t = [NoTask EXCEPT !.pc = "start", !.attempt = 1]
    PROVE  t.pc = "start" /\ t.attempt = 1 /\ ~t.beating
  BY DEF NoTask

\* What a delivery that goes on looks like to its lease.
Kept(t, i) ==
    /\ t \in Task
    /\ t.pc \notin {"idle", "claimed"}
    /\ t.beating \/ t.pc \in {"start", "ack"}
    /\ t.attempt = times[i]
    /\ t.pc = "record" => t.attempt < MaxAttempts

\* A delivery past its start beats.
LEMMA OwnedTask ==
    ASSUME TypeOK, LeaseInv, NEW w \in Workers, NEW i \in Ids,
           task[w][i].pc \notin {"idle", "claimed", "start", "ack"}
    PROVE  /\ task[w][i] \in Task
           /\ task[w][i].beating
           /\ task[w][i].attempt = times[i]
  BY DEF TypeOK, TasksOK, LeaseInv, Owned, HoldsLease, AttemptKnown, Active

\* The except branch keeps the lease,
LEMMA KeptFailure ==
    ASSUME TypeOK, LeaseInv, NEW w \in Workers, NEW i \in Ids,
           task[w][i].pc \notin {"idle", "claimed", "start", "ack"}, AfterFailure(w, i)
    PROVE  \E t : /\ SetTask(w, i, t) /\ Kept(t, i) /\ t.pc \in {"mark", "record"}
                  /\ t.loaded = task[w][i].loaded
<1> DEFINE l == IF task[w][i].attempt >= MaxAttempts THEN "mark" ELSE "record"
           t == [task[w][i] EXCEPT !.pc = l]
<1>1. l \in PCs /\ l \in {"mark", "record"}
  BY DEF PCs
<1>2. /\ task[w][i] \in Task /\ task[w][i].beating /\ task[w][i].attempt = times[i]
  BY OwnedTask
<1>2a. task[w][i].attempt \in Nat
  BY <1>2 DEF Task
<1>3. /\ t \in Task /\ t.pc = l /\ t.attempt = task[w][i].attempt
      /\ t.loaded = task[w][i].loaded /\ t.beating = task[w][i].beating
  BY <1>1, <1>2 DEF Task
<1>4. SetTask(w, i, t)
  BY DEF AfterFailure, Goto
<1>5. l = "record" => task[w][i].attempt < MaxAttempts
  BY <1>2a, DeliveryAssumption
<1> HIDE DEF t
<1>6. t.beating
  BY <1>2, <1>3, Zenon
<1>7. Kept(t, i)
  <2> HIDE DEF l
  <2> QED
    BY <1>1, <1>2, <1>3, <1>5, <1>6 DEF Kept
<1> QED
  BY <1>1, <1>3, <1>4, <1>7

\* and so does the finally branch, which ends in the acknowledgement.
LEMMA KeptSuccess ==
    ASSUME TypeOK, LeaseInv, NEW w \in Workers, NEW i \in Ids,
           task[w][i].pc \notin {"idle", "claimed", "start", "ack"}, AfterSuccess(w, i)
    PROVE  \E t : SetTask(w, i, t) /\ Kept(t, i) /\ t.pc = "ack"
<1> DEFINE t == [task[w][i] EXCEPT !.pc = "ack", !.beating = FALSE]
<1>1. /\ task[w][i] \in Task /\ task[w][i].beating /\ task[w][i].attempt = times[i]
  BY OwnedTask
<1>2. SetTask(w, i, t)
  BY <1>1 DEF AfterSuccess
<1>3. t \in Task /\ t.pc = "ack" /\ t.attempt = task[w][i].attempt
  BY <1>1 DEF Task, PCs
<1> HIDE DEF t
<1> QED
  BY <1>1, <1>2, <1>3 DEF Kept

\* So does moving on in any other way.
LEMMA KeptGoto ==
    ASSUME TypeOK, LeaseInv, NEW w \in Workers, NEW i \in Ids, NEW l \in PCs,
           l \notin {"idle", "claimed", "record"},
           task[w][i].pc \notin {"idle", "claimed", "start", "ack"}, Goto(w, i, l)
    PROVE  \E t : SetTask(w, i, t) /\ Kept(t, i) /\ t.pc = l /\ t.loaded = task[w][i].loaded
<1> DEFINE t == [task[w][i] EXCEPT !.pc = l]
<1>1. /\ task[w][i] \in Task /\ task[w][i].beating /\ task[w][i].attempt = times[i]
  BY OwnedTask
<1>2. SetTask(w, i, t)
  BY DEF Goto
<1>3. /\ t \in Task /\ t.pc = l /\ t.attempt = task[w][i].attempt
      /\ t.loaded = task[w][i].loaded /\ t.beating = task[w][i].beating
  BY <1>1 DEF Task
<1> HIDE DEF t
<1>4. t.beating
  BY <1>1, <1>3, Zenon
<1> QED
  BY <1>1, <1>2, <1>3, <1>4 DEF Kept

\* The loop and a crash only start deliveries and end them.
LEMMA LoopTasks ==
    ASSUME TypeOK, NEW w \in Workers, Loop(w) \/ Crash(w), NEW v \in Workers, NEW i \in Ids
    PROVE  task'[v][i] = task[v][i] \/ task'[v][i].pc \in {"idle", "claimed", "start"}
<1>0. NoTask.pc = "idle"
  BY DEF NoTask
<1>1. CASE v # w
  BY <1>1 DEF Loop, ClaimStale, ReadNew, Crash, TypeOK, TasksOK
<1>2. CASE v = w /\ ClaimStale(w)
  <2> DEFINE claimed == FirstOf(idle, BatchSize)
             t == [NoTask EXCEPT !.pc = "claimed"]
  <2>1. task'[w][i] = IF i \in claimed THEN t ELSE NoTask
    BY <1>2 DEF ClaimStale, TypeOK, TasksOK
  <2>2. t.pc = "claimed"
    BY DEF NoTask
  <2> HIDE DEF claimed, t
  <2> QED
    BY <1>0, <1>2, <2>1, <2>2
<1>3. CASE v = w /\ ReadNew(w)
  <2> DEFINE new == FirstOf({k \in live : k > cursor}, BatchSize)
             t == [NoTask EXCEPT !.pc = "start", !.attempt = 1]
  <2>1. task'[w][i] = IF i \in new THEN t ELSE NoTask
    BY <1>3 DEF ReadNew, TypeOK, TasksOK
  <2>2. t.pc = "start"
    BY FreshTask
  <2> HIDE DEF new, t
  <2> QED
    BY <1>0, <1>3, <2>1, <2>2
<1>4. CASE v = w /\ Crash(w)
  BY <1>0, <1>4 DEF Crash, TypeOK, TasksOK
<1> QED
  BY <1>1, <1>2, <1>3, <1>4 DEF Loop

-----------------------------------------------------------------------------
(* Deliveries are exclusive while leases are kept *)

\* A step that changes neither tasks nor the group keeps leases, and so does
\* one that also publishes an entry.
LEMMA LeaseSame ==
    ASSUME LeaseInv, live \subseteq live', UNCHANGED <<task, cursor, times, idle>>
    PROVE  LeaseInv'
<1>1. \A w \in Workers, i \in Ids : /\ Active(w, i)' <=> Active(w, i)
                                    /\ HoldsLease(w, i)' <=> HoldsLease(w, i)
  BY DEF Active, HoldsLease
<1>2. Owned'
  BY <1>1 DEF LeaseInv, Owned
<1>3. AttemptKnown'
  BY DEF LeaseInv, AttemptKnown
<1> QED
  BY <1>2, <1>3 DEF LeaseInv

\* A delivery that goes on keeps its lease.
LEMMA LeaseMove ==
    ASSUME TypeOK, LeaseInv, NEW w \in Workers, NEW i \in Ids, Active(w, i),
           NEW t, Kept(t, i), SetTask(w, i, t),
           UNCHANGED <<live, cursor, times, idle>>
    PROVE  LeaseInv'
<1>1. /\ task'[w][i] = t
      /\ \A v \in Workers, k \in Ids : v # w \/ k # i => task'[v][k] = task[v][k]
  BY OneTask DEF TypeOK
<1>2. \A v \in Workers, k \in Ids : Active(v, k)' <=> Active(v, k)
  BY <1>1 DEF Active, Kept
<1>3. HoldsLease(w, i)'
  BY <1>1, <1>2 DEF HoldsLease, Kept
<1>4. \A v \in Workers, k \in Ids : v # w \/ k # i => (HoldsLease(v, k)' <=> HoldsLease(v, k))
  BY <1>1, <1>2 DEF HoldsLease
<1>5. Owned'
  BY <1>2, <1>3, <1>4 DEF LeaseInv, Owned
<1>6. AttemptKnown'
  BY <1>1 DEF LeaseInv, AttemptKnown, Kept
<1> QED
  BY <1>5, <1>6 DEF LeaseInv

\* A delivery that ends keeps the leases of all others.
LEMMA LeaseEnd ==
    ASSUME TypeOK, LeaseInv, NEW w \in Workers, NEW i \in Ids, SetTask(w, i, NoTask), UNCHANGED cursor,
           Active(w, i),
           \/ XRemove(i)
           \/ UNCHANGED <<live, times, idle>>
    PROVE  LeaseInv'
<1> USE DeliveryAssumption
<1>1. /\ task'[w][i] = NoTask
      /\ \A v \in Workers, k \in Ids : v # w \/ k # i => task'[v][k] = task[v][k]
  BY OneTask DEF TypeOK
<1>2. /\ ~Active(w, i)'
      /\ \A v \in Workers : ~Active(v, i)'
  BY <1>1 DEF Active, NoTask, LeaseInv, Owned
<1>3. \A v \in Workers, k \in Ids : k # i => /\ Active(v, k)' <=> Active(v, k)
                                             /\ HoldsLease(v, k)' <=> HoldsLease(v, k)
  BY <1>1 DEF Active, HoldsLease
<1>4. \A k \in Ids : k # i => /\ k \in live' <=> k \in live
                              /\ k \in idle' <=> k \in idle
                              /\ times'[k] = times[k]
  BY DEF XRemove, TypeOK, GroupOK
<1>6. Owned'
  BY <1>2, <1>3, <1>4 DEF LeaseInv, Owned
<1>7. AttemptKnown'
  <2>1. ASSUME NEW v \in Workers, NEW k \in Ids, v # w \/ k # i, task'[v][k].pc # "idle"
        PROVE  times'[k] = times[k]
    BY <1>2, <1>4, <2>1 DEF Active
  <2>2. NoTask.pc = "idle" /\ ~NoTask.beating
    BY DEF NoTask
  <2> QED
    BY <1>1, <2>1, <2>2 DEF LeaseInv, AttemptKnown
<1> QED
  BY <1>6, <1>7 DEF LeaseInv

\* Every step of a delivery that is not its last one keeps its lease.
LEMMA Moves ==
    ASSUME BaseInv, LeaseInv, NEW w \in Workers, NEW i \in Ids,
           \/ ReadAttempt(w, i) \/ Start(w, i) \/ Lookup(w, i) \/ Load(w, i)
           \/ \E result \in GraphOutcomes : RunSucceeds(w, i, result)
           \/ RunFails(w, i) \/ DatabaseFails(w, i) \/ MarkJobFailed(w, i)
    PROVE  /\ Active(w, i)
           /\ \E t : Kept(t, i) /\ SetTask(w, i, t)
           /\ UNCHANGED <<live, cursor, times, idle>>
<1> USE DEF streamVars, groupVars, faultVars
<1>t. TypeOK
  BY DEF BaseInv
<1>0. task[w][i] \in Task
  BY <1>t DEF TypeOK, TasksOK
<1>1. CASE ReadAttempt(w, i)
  <2> DEFINE n == IF times[i] > 0 THEN times[i] ELSE 1
             t == [task[w][i] EXCEPT !.pc = "start", !.attempt = n]
  <2>1. Active(w, i) /\ SetTask(w, i, t) /\ UNCHANGED <<live, cursor, times, idle>>
    BY <1>1 DEF ReadAttempt, Active
  <2>2. n = times[i] /\ n \in Nat
    <3>1. i \in live /\ i <= cursor /\ times[i] \in Nat
      BY <1>t, <2>1 DEF LeaseInv, Owned, TypeOK, GroupOK
    <3> QED
      BY <3>1 DEF BaseInv, PendingListExact
  <2>3. t \in Task /\ t.pc = "start" /\ t.attempt = n
    BY <1>0, <2>2 DEF Task, PCs
  <2> HIDE DEF t, n
  <2> QED
    BY <2>1, <2>2, <2>3 DEF Kept
<1>2. CASE Start(w, i)
  <2> DEFINE t == [task[w][i] EXCEPT !.pc = "lookup", !.beating = TRUE]
  <2>1. /\ Active(w, i) /\ SetTask(w, i, t) /\ UNCHANGED <<live, cursor, times, idle>>
        /\ task[w][i].pc = "start"
    BY <1>2 DEF Start, MayStart, Active
  <2>2. task[w][i].attempt = times[i]
    BY <2>1 DEF LeaseInv, AttemptKnown
  <2>3. /\ t \in Task /\ t.pc = "lookup" /\ t.attempt = task[w][i].attempt /\ t.beating = TRUE
    BY <1>0 DEF Task, PCs
  <2> HIDE DEF t
  <2> QED
    BY <2>1, <2>2, <2>3 DEF Kept
<1>3. CASE Lookup(w, i)
  <2>1. /\ task[w][i].pc = "lookup"
        /\ AfterFailure(w, i) \/ AfterSuccess(w, i) \/ Goto(w, i, "load")
        /\ UNCHANGED <<live, cursor, times, idle>>
    BY <1>3 DEF Lookup
  <2>2. "load" \in PCs
    BY DEF PCs
  <2> QED
    BY <1>t, <2>1, <2>2, KeptFailure, KeptSuccess, KeptGoto DEF Active
<1>4. CASE Load(w, i)
  <2> DEFINE s == IF IsReplay(i) /\ run[JobOf(i)] = "failed" THEN "retrying"
                  ELSE run[JobOf(i)]
             t == [task[w][i] EXCEPT !.pc = "run", !.loaded = s]
  <2>1. /\ Active(w, i) /\ SetTask(w, i, t) /\ UNCHANGED <<live, cursor, times, idle>>
        /\ task[w][i].pc = "load"
    BY <1>4 DEF Load, Active
  <2>2. JobOf(i) \in Jobs
    BY <2>1 DEF BaseInv, TasksSound, SoundTask, Working
  <2>3. s \in RunStatus
    BY <1>t, <2>2 DEF TypeOK, RunsOK, RunStatus
  <2>4. /\ task[w][i].beating /\ task[w][i].attempt = times[i]
    BY <1>t, <2>1, OwnedTask
  <2>5. /\ t \in Task /\ t.pc = "run" /\ t.attempt = task[w][i].attempt
        /\ t.beating = task[w][i].beating
    BY <1>0, <2>3 DEF Task, PCs
  <2> HIDE DEF t
  <2>6. t.beating
    BY <2>4, <2>5, Zenon
  <2> QED
    BY <2>1, <2>4, <2>5, <2>6 DEF Kept
<1>5. ASSUME NEW result \in GraphOutcomes, RunSucceeds(w, i, result)
      PROVE  /\ Active(w, i)
             /\ \E t : Kept(t, i) /\ SetTask(w, i, t)
             /\ UNCHANGED <<live, cursor, times, idle>>
  BY <1>t, <1>5, KeptSuccess, KeptFailure DEF RunSucceeds, Active
<1>6. CASE RunFails(w, i)
  BY <1>t, <1>6, KeptFailure DEF RunFails, Active
<1>7. CASE DatabaseFails(w, i)
  BY <1>t, <1>7, KeptFailure DEF DatabaseFails, Active
<1>8. CASE MarkJobFailed(w, i)
  <2>1. "bury" \in PCs
    BY DEF PCs
  <2> QED
    BY <1>t, <1>8, <2>1, KeptGoto DEF MarkJobFailed, Active
<1> QED
  BY <1>1, <1>2, <1>3, <1>4, <1>5, <1>6, <1>7, <1>8

\* XAUTOCLAIM takes only entries whose lease ran out, and nobody works on those.
LEMMA LeaseClaim ==
    ASSUME BaseInv, LeaseInv, NEW w \in Workers, ClaimStale(w)
    PROVE  LeaseInv'
<1> USE DeliveryAssumption
<1> DEFINE claimed == FirstOf(idle, BatchSize)
<1>t. TypeOK /\ PendingListExact
  BY DEF BaseInv
<1>1. /\ UNCHANGED <<live, cursor, faults>> /\ idle' = idle \ claimed
      /\ \A i \in Ids : times'[i] = IF i \in claimed THEN times[i] + 1 ELSE times[i]
      /\ \A v \in Workers, i \in Ids : v # w => task'[v][i] = task[v][i]
  BY <1>t DEF ClaimStale, streamVars, faultVars, TypeOK, TasksOK
<1>1a. \A i \in Ids : task'[w][i] = IF i \in claimed THEN [NoTask EXCEPT !.pc = "claimed"]
                                    ELSE NoTask
  BY <1>t DEF ClaimStale, TypeOK, TasksOK
<1>2. \A i \in claimed : i \in idle /\ i \in live /\ i <= cursor
  BY <1>t, FirstOfSubset DEF PendingListExact, TypeOK, GroupOK
<1>3. \A i \in Ids : /\ task'[w][i].pc = IF i \in claimed THEN "claimed" ELSE "idle"
                     /\ ~task'[w][i].beating
  BY <1>1a DEF NoTask
<1> HIDE DEF claimed
<1>4. \A v \in Workers, i \in Ids : i \in claimed => ~Active(v, i)
  BY <1>2 DEF LeaseInv, Owned
<1>5. \A i \in Ids : ~Active(w, i)
  BY DEF ClaimStale, Idle
<1>6. \A v \in Workers, i \in Ids :
        Active(v, i)' <=> \/ Active(v, i)
                          \/ v = w /\ i \in claimed
  BY <1>1, <1>3, <1>4, <1>5 DEF Active
<1>7. \A v \in Workers, i \in Ids : Active(v, i)' =>
        \/ HoldsLease(v, i)' /\ v = w /\ i \in claimed
        \/ v # w /\ i \notin claimed /\ Active(v, i) /\ (HoldsLease(v, i)' <=> HoldsLease(v, i))
  BY <1>1, <1>3, <1>4, <1>5, <1>6 DEF HoldsLease, Active
<1>8. Owned'
  BY <1>1, <1>2, <1>4, <1>5, <1>6, <1>7 DEF LeaseInv, Owned
<1>9. AttemptKnown'
  <2> SUFFICES ASSUME NEW v \in Workers, NEW i \in Ids, v # w
               PROVE  /\ task'[v][i].beating => task'[v][i].pc \notin {"idle", "claimed"}
                      /\ task'[v][i].pc \notin {"idle", "claimed"} => task'[v][i].attempt = times'[i]
                      /\ task'[v][i].pc = "record" => task'[v][i].attempt < MaxAttempts
    BY <1>3 DEF AttemptKnown
  <2>1. task'[v][i].pc # "idle" => i \notin claimed
    BY <1>7 DEF Active
  <2> QED
    BY <1>1, <2>1 DEF LeaseInv, AttemptKnown
<1> QED
  BY <1>8, <1>9 DEF LeaseInv

\* XREADGROUP takes only entries that were never delivered.
LEMMA LeaseRead ==
    ASSUME BaseInv, LeaseInv, NEW w \in Workers, ReadNew(w)
    PROVE  LeaseInv'
<1> USE DeliveryAssumption
<1> DEFINE new == FirstOf({i \in live : i > cursor}, BatchSize)
<1>t. TypeOK
  BY DEF BaseInv
<1>1. /\ UNCHANGED <<live, idle, faults>>
      /\ \A i \in Ids : times'[i] = IF i \in new THEN 1 ELSE times[i]
      /\ \A v \in Workers, i \in Ids : v # w => task'[v][i] = task[v][i]
  BY <1>t DEF ReadNew, streamVars, faultVars, TypeOK, TasksOK
<1>1a. \A i \in Ids : task'[w][i] = IF i \in new
                                    THEN [NoTask EXCEPT !.pc = "start", !.attempt = 1]
                                    ELSE NoTask
  BY <1>t DEF ReadNew, TypeOK, TasksOK
<1>2. \A i \in new : i \in live /\ i > cursor /\ i \in Ids
  <2>1. new \subseteq {i \in live : i > cursor}
    BY FirstOfSubset
  <2> HIDE DEF new
  <2> QED
    BY <1>t, <2>1 DEF TypeOK, StreamOK, Ids
<1>3. cursor' \in Int /\ cursor <= cursor' /\ \A i \in new : i <= cursor'
  <2>1. IF new = {} THEN cursor' = cursor
        ELSE \E c \in new : (\A i \in new : i <= c) /\ cursor' = c
    BY DEF ReadNew
  <2>2. cursor \in Int /\ \A i \in Ids : i \in Int
    BY <1>t DEF TypeOK, GroupOK, StreamOK, Ids
  <2> HIDE DEF new
  <2> QED
    BY <1>2, <2>1, <2>2
<1>4. \A i \in Ids : /\ task'[w][i].pc = IF i \in new THEN "start" ELSE "idle"
                     /\ i \in new => task'[w][i].attempt = 1
                     /\ ~task'[w][i].beating
  <2> HIDE DEF new
  <2>1. NoTask.pc = "idle" /\ ~NoTask.beating
    BY DEF NoTask
  <2> QED
    BY <1>1a, <2>1, FreshTask, Zenon
<1> HIDE DEF new
<1>4a. \A i \in new : i \notin idle
  BY <1>2, <1>t DEF BaseInv, PendingListExact, TypeOK, GroupOK, StreamOK, Ids
<1>5. \A v \in Workers, i \in Ids : i \in new => ~Active(v, i)
  <2> SUFFICES ASSUME NEW v \in Workers, NEW i \in Ids, i \in new, Active(v, i) PROVE FALSE
    OBVIOUS
  <2>1. i <= cursor /\ i > cursor /\ i \in Int /\ cursor \in Int
    BY <1>2, <1>t DEF LeaseInv, Owned, TypeOK, GroupOK, StreamOK, Ids
  <2> QED
    BY <2>1
<1>6. \A i \in Ids : ~Active(w, i)
  BY DEF ReadNew, Idle
<1>7. \A v \in Workers, i \in Ids :
        Active(v, i)' <=> \/ Active(v, i)
                          \/ v = w /\ i \in new
  BY <1>1, <1>4, <1>5, <1>6 DEF Active
<1>8. \A v \in Workers, i \in Ids : Active(v, i)' =>
        \/ HoldsLease(v, i)' /\ v = w /\ i \in new
        \/ v # w /\ i \notin new /\ Active(v, i) /\ (HoldsLease(v, i)' <=> HoldsLease(v, i))
  BY <1>1, <1>4, <1>5, <1>6, <1>7 DEF HoldsLease, Active
<1>9. Owned'
  <2> SUFFICES ASSUME NEW v \in Workers, NEW i \in Ids, Active(v, i)'
               PROVE  /\ i \in live /\ i <= cursor' /\ i \notin idle
                      /\ HoldsLease(v, i)'
                      /\ \A u \in Workers : Active(u, i)' => u = v
    BY <1>1 DEF Owned
  <2>1. CASE v = w /\ i \in new
    BY <1>2, <1>3, <1>4a, <1>5, <1>7, <1>8, <2>1
  <2>2. CASE v # w /\ i \notin new /\ Active(v, i)
    <3>1. i \in live /\ i <= cursor /\ i \notin idle /\ HoldsLease(v, i)
      BY <2>2 DEF LeaseInv, Owned
    <3>2. i <= cursor'
      BY <1>3, <1>t, <3>1 DEF TypeOK, GroupOK, StreamOK, Ids
    <3> QED
      BY <1>6, <1>7, <1>8, <2>2, <3>1, <3>2 DEF LeaseInv, Owned
  <2> QED
    BY <1>8, <2>1, <2>2
<1>10. AttemptKnown'
  <2> SUFFICES ASSUME NEW v \in Workers, NEW i \in Ids
               PROVE  /\ task'[v][i].beating => task'[v][i].pc \notin {"idle", "claimed"}
                      /\ task'[v][i].pc \notin {"idle", "claimed"} => task'[v][i].attempt = times'[i]
                      /\ task'[v][i].pc = "record" => task'[v][i].attempt < MaxAttempts
    BY DEF AttemptKnown
  <2>1. CASE v = w
    BY <1>1, <1>4, <2>1
  <2>2. CASE v # w
    <3>1. task'[v][i].pc # "idle" => i \notin new
      BY <1>8, <2>2 DEF Active
    <3> QED
      BY <1>1, <2>2, <3>1 DEF LeaseInv, AttemptKnown
  <2> QED
    BY <2>1, <2>2
<1> QED
  BY <1>9, <1>10 DEF LeaseInv

\* A crash ends all deliveries of a worker.
LEMMA LeaseCrash ==
    ASSUME BaseInv, LeaseInv, NEW w \in Workers, Crash(w)
    PROVE  LeaseInv'
<1> USE DeliveryAssumption
<1>t. TypeOK
  BY DEF BaseInv
<1>1. /\ UNCHANGED <<live, cursor, times, idle>> /\ faults' = faults + 1 /\ faults \in Nat
      /\ \A i \in Ids : task'[w][i] = NoTask /\ times[i] \in Nat
      /\ \A v \in Workers, i \in Ids : v # w => task'[v][i] = task[v][i]
  BY <1>t DEF Crash, streamVars, groupVars, TypeOK, TasksOK, GroupOK, LoopOK
<1>2. NoTask.pc = "idle"
  BY DEF NoTask
<1>3. \A v \in Workers, i \in Ids :
        /\ Active(v, i)' <=> v # w /\ Active(v, i)
        /\ Active(v, i)' => (HoldsLease(v, i)' <=> HoldsLease(v, i))
  BY <1>1, <1>2 DEF Active, HoldsLease
<1>4. Owned'
  BY <1>1, <1>3 DEF LeaseInv, Owned
<1>5. AttemptKnown'
  BY <1>1, <1>2 DEF LeaseInv, AttemptKnown, NoTask
<1> QED
  BY <1>4, <1>5 DEF LeaseInv

\* Before the first lease fault every step keeps leases.
LEMMA LeaseNext ==
    ASSUME BaseInv, LeaseInv, [Next]_vars, leaseFaults = 0, leaseFaults' = 0
    PROVE  LeaseInv'
<1> USE DeliveryAssumption DEF streamVars, groupVars, faultVars
<1>t. TypeOK
  BY DEF BaseInv
<1>1. CASE Producer
  <2>1. live \subseteq live' /\ UNCHANGED <<task, cursor, times, idle>>
    BY <1>1 DEF Producer, Enqueue, DedupeExpires, ForeignAdd, XAdd
  <2> QED
    BY <2>1, LeaseSame
<1>2. ASSUME NEW w \in Workers, NEW i \in Ids, Process(w, i) PROVE LeaseInv'
  <2>1. CASE \/ ReadAttempt(w, i) \/ Start(w, i) \/ Lookup(w, i) \/ Load(w, i)
             \/ \E result \in GraphOutcomes : RunSucceeds(w, i, result)
             \/ RunFails(w, i) \/ DatabaseFails(w, i) \/ MarkJobFailed(w, i)
    BY <1>t, <2>1, Moves, LeaseMove
  <2>2. CASE StartMalformed(w, i) \/ Bury(w, i) \/ Acknowledge(w, i)
    <3>1. /\ Active(w, i) /\ SetTask(w, i, NoTask) /\ XRemove(i) /\ UNCHANGED cursor
      BY <2>2 DEF StartMalformed, MayStart, Bury, Acknowledge, DeadLetter, Active
    <3> QED
      BY <1>t, <3>1, LeaseEnd
  <2>3. CASE RecordFailure(w, i)
    <3>1. /\ Active(w, i) /\ SetTask(w, i, NoTask) /\ UNCHANGED <<live, times, idle, cursor>>
      BY <2>3 DEF RecordFailure, Active
    <3> QED
      BY <1>t, <3>1, LeaseEnd
  <2> QED
    BY <1>2, <2>1, <2>2, <2>3 DEF Process
<1>3. ASSUME NEW w \in Workers, NEW i \in Ids, Heartbeat(w, i) PROVE LeaseInv'
  <2>1. Active(w, i) /\ task[w][i].attempt = times[i]
    BY <1>3 DEF Heartbeat, LeaseInv, AttemptKnown, Active
  <2>2. i \notin idle
    BY <2>1 DEF LeaseInv, Owned
  <2>3. times' = times /\ idle' = idle
    BY <1>3, <1>t, <2>1, <2>2 DEF Heartbeat, TypeOK, GroupOK
  <2> QED
    BY <1>3, <2>3, LeaseSame DEF Heartbeat
<1>4. ASSUME NEW w \in Workers, NEW i \in Ids, Failure(w, i) PROVE LeaseInv'
  <2>1. BoundaryFails(w, i)
    BY <1>4, <1>t DEF Failure, HeartbeatDies, LeaseLapses
  <2>2. Active(w, i) /\ SetTask(w, i, NoTask) /\ UNCHANGED <<live, times, idle, cursor>>
    BY <2>1 DEF BoundaryFails, MayStart, Active
  <2> QED
    BY <1>t, <2>2, LeaseEnd
<1>5. ASSUME NEW i \in Ids, LeaseExpires(i) PROVE LeaseInv'
  <2>1. /\ idle' = idle \cup {i} /\ UNCHANGED <<task, live, cursor, times, faults>>
        /\ \A w \in Workers : ~HoldsLease(w, i)
    BY <1>5 DEF LeaseExpires
  <2>2. \A w \in Workers : ~Active(w, i)
    BY <2>1 DEF LeaseInv, Owned
  <2>3. \A w \in Workers, k \in Ids : /\ Active(w, k)' <=> Active(w, k)
                                      /\ HoldsLease(w, k)' <=> HoldsLease(w, k)
    BY <2>1 DEF Active, HoldsLease
  <2>4. Owned'
    BY <2>1, <2>2, <2>3 DEF LeaseInv, Owned
  <2> QED
    BY <2>1, <2>4 DEF LeaseInv, AttemptKnown
<1>6. CASE Operator
  <2>1. live \subseteq live' /\ UNCHANGED <<task, cursor, times, idle>>
    BY <1>6 DEF Operator, OperatorReplays, OperatorPurges, Replay, Purge, XAdd
  <2> QED
    BY <2>1, LeaseSame
<1>7. CASE UNCHANGED vars
  BY <1>7, LeaseSame DEF vars
<1> QED
  BY <1>1, <1>2, <1>3, <1>4, <1>5, <1>6, <1>7, LeaseClaim, LeaseRead, LeaseCrash DEF Next, Loop

-----------------------------------------------------------------------------
(* No run is stranded *)

\* A delivery that ends in an acknowledgement without another commit of the run:
\* it is there already, or the ORM will find the status it loaded unchanged.
Acking(t) == t.pc = "ack" \/ (t.pc = "run" /\ t.loaded \in Settled)

\* An entry that will not be acknowledged before the run of its job is settled.
Carries(i, j) ==
    /\ i \in live /\ JobOf(i) = j
    /\ \A w \in Workers : ~Acking(task[w][i])

\* A run that is running or retrying has an entry that will be delivered, or is
\* being delivered and not about to be removed; a failed run has one or was
\* buried.
RunsCarried ==
    \A j \in Jobs :
        /\ run[j] \in {"running", "retrying"} =>
             \E i \in Ids : Carries(i, j) /\ \A w \in Workers : task[w][i].pc # "bury"
        /\ run[j] = "failed" => HasDeadLetter(j) \/ \E i \in Ids : Carries(i, j)

\* The carried runs are what NoStrandedRun asks for while leases are kept.
LEMMA CarriedNotStranded ==
    ASSUME RunsCarried
    PROVE  NoStrandedRun
  BY DEF RunsCarried, NoStrandedRun, Carries, HasLiveEntry

\* Dead letters keep naming the job they stem from.
LEMMA LetterOfJob ==
    ASSUME BaseInv, LettersNamed, [Next]_vars, NEW j, HasDeadLetter(j)
    PROVE  HasDeadLetter(j)'
<1> USE DeliveryAssumption
<1>t. StreamOK /\ DlqOK
  BY DEF BaseInv, TypeOK
<1>0. ASSUME dlqAdded' \in Nat, dlqAdded <= dlqAdded',
             \A d \in 1..dlqAdded : dlqOrig'[d] = dlqOrig[d],
             \A i \in 1..added : entry'[i] = entry[i]
      PROVE  HasDeadLetter(j)'
  <2>1. PICK d \in 1..dlqAdded : JobOf(dlqOrig[d]) = j
    BY DEF HasDeadLetter
  <2>2. d \in 1..dlqAdded' /\ dlqOrig'[d] = dlqOrig[d] /\ dlqOrig[d] \in 1..added
    BY <1>0, <1>t, <2>1 DEF DlqOK, LettersNamed
  <2> QED
    BY <1>0, <2>1, <2>2 DEF HasDeadLetter, JobOf
<1>1. CASE UNCHANGED ledgerVars
  BY <1>t, <1>0, <1>1 DEF ledgerVars, DlqOK
<1>2. ASSUME NEW e, XAdd(e), UNCHANGED <<dlqOrig, dlqAdded>> PROVE HasDeadLetter(j)'
  <2>1. \A i \in 1..added : entry'[i] = entry[i]
    BY <1>t, <1>2 DEF XAdd, StreamOK, Ids
  <2> QED
    BY <1>t, <1>0, <1>2, <2>1 DEF DlqOK
<1>3. ASSUME NEW i \in Ids, DeadLetter(i), UNCHANGED entry PROVE HasDeadLetter(j)'
  BY <1>t, <1>0, <1>3, BuryLetter
<1>4. ASSUME NEW w \in Workers, NEW i \in Ids, StartMalformed(w, i) \/ Bury(w, i)
      PROVE  HasDeadLetter(j)'
  BY <1>3, <1>4 DEF StartMalformed, Bury
<1>5. ASSUME NEW w \in Workers, NEW i \in Ids,
             Acknowledge(w, i) \/ \E result \in GraphOutcomes : RunSucceeds(w, i, result)
      PROVE  HasDeadLetter(j)'
  BY <1>t, <1>0, <1>5 DEF Acknowledge, RunSucceeds, streamVars, dlqVars, DlqOK
<1> QED
  BY <1>1, <1>2, <1>4, <1>5, StepKinds DEF Enqueue, ForeignAdd, Replay, dlqVars

\* A step that commits nothing, removes nothing from the stream and brings no
\* delivery nearer to its end leaves every run carried.
LEMMA CarriedQuiet ==
    ASSUME RunsCarried, \A j \in Jobs : HasDeadLetter(j) => HasDeadLetter(j)',
           live \subseteq live', \A i \in live : entry'[i] = entry[i], run' = run,
           \A w \in Workers, i \in Ids :
              /\ Acking(task'[w][i]) => Acking(task[w][i])
              /\ task'[w][i].pc = "bury" => task[w][i].pc = "bury"
    PROVE  RunsCarried'
<1>1. \A i \in Ids, j \in Jobs : Carries(i, j) => Carries(i, j)'
  BY DEF Carries, JobOf
<1> QED
  BY <1>1 DEF RunsCarried

\* A delivery that commits a status and goes on leaves every run carried, if the
\* status needs nobody, or the delivery itself carries it, or the commit changed
\* nothing and the delivery did not carry it before.
LEMMA CarriedCommit ==
    ASSUME TypeOK, LeaseInv, RunsCarried, \A j \in Jobs : HasDeadLetter(j) => HasDeadLetter(j)',
           NEW w \in Workers, NEW i \in Ids, Active(w, i), NEW t, SetTask(w, i, t),
           NEW s, run' = [run EXCEPT ![JobOf(i)] = s],
           UNCHANGED <<live, entry>>,
           \/ s \notin {"running", "retrying", "failed"}
           \/ ~Acking(t) /\ (t.pc = "bury" => s = "failed")
           \/ s = run[JobOf(i)] /\ Acking(task[w][i])
    PROVE  RunsCarried'
<1>1. /\ task'[w][i] = t
      /\ \A v \in Workers, k \in Ids : v # w \/ k # i => task'[v][k] = task[v][k]
  BY OneTask DEF TypeOK
<1>2. \A k \in Ids, j \in Jobs : k # i /\ Carries(k, j) => Carries(k, j)'
  BY <1>1 DEF Carries, JobOf
<1>3. i \in live /\ \A v \in Workers : v # w => task[v][i].pc = "idle"
  BY DEF LeaseInv, Owned, Active
<1>4. \A j \in Jobs : run'[j] = IF j = JobOf(i) THEN s ELSE run[j]
  BY DEF TypeOK, RunsOK
<1>5. ASSUME NEW j \in Jobs, j # JobOf(i)
      PROVE  /\ run'[j] \in {"running", "retrying"} =>
                  \E k \in Ids : Carries(k, j)' /\ \A v \in Workers : task'[v][k].pc # "bury"
             /\ run'[j] = "failed" => HasDeadLetter(j)' \/ \E k \in Ids : Carries(k, j)'
  <2>1. \A k \in Ids : Carries(k, j) => k # i
    BY <1>5 DEF Carries
  <2> QED
    BY <1>1, <1>2, <1>4, <1>5, <2>1 DEF RunsCarried
<1>6. ASSUME NEW j \in Jobs, j = JobOf(i)
      PROVE  /\ s \in {"running", "retrying"} =>
                  \E k \in Ids : Carries(k, j)' /\ \A v \in Workers : task'[v][k].pc # "bury"
             /\ s = "failed" => HasDeadLetter(j)' \/ \E k \in Ids : Carries(k, j)'
  <2>1. CASE s \notin {"running", "retrying", "failed"}
    BY <2>1
  <2>2. CASE ~Acking(t) /\ (t.pc = "bury" => s = "failed")
    <3>1. \A v \in Workers : ~Acking(task'[v][i])
      BY <1>1, <1>3, <2>2 DEF Acking
    <3>2. Carries(i, j)'
      BY <1>3, <1>6, <3>1 DEF Carries, JobOf
    <3>3. s \in {"running", "retrying"} => \A v \in Workers : task'[v][i].pc # "bury"
      BY <1>1, <1>3, <2>2
    <3> QED
      BY <3>2, <3>3
  <2>3. CASE s = run[JobOf(i)] /\ Acking(task[w][i])
    <3>1. \A k \in Ids : Carries(k, j) => k # i
      BY <2>3 DEF Carries
    <3>2. \A k \in Ids, v \in Workers : k # i => task'[v][k] = task[v][k]
      BY <1>1
    <3>3. run[j] = s
      BY <1>6, <2>3
    <3> QED
      BY <1>2, <3>1, <3>2, <3>3 DEF RunsCarried
  <2> QED
    BY <2>1, <2>2, <2>3
<1> QED
  BY <1>4, <1>5, <1>6 DEF RunsCarried

\* A delivery that takes its entry out of the stream did not carry its run, or
\* leaves a dead letter for it.
LEMMA CarriedRemove ==
    ASSUME TypeOK, RunsCarried, \A j \in Jobs : HasDeadLetter(j) => HasDeadLetter(j)',
           NEW w \in Workers, NEW i \in Ids, SetTask(w, i, NoTask),
           live' = live \ {i}, UNCHANGED <<entry, run>>,
           \/ JobOf(i) \notin Jobs
           \/ task[w][i].pc = "bury" /\ \A j \in Jobs : j = JobOf(i) => HasDeadLetter(j)'
           \/ task[w][i].pc = "ack"
    PROVE  RunsCarried'
<1>1. \A v \in Workers, k \in Ids : v # w \/ k # i => task'[v][k] = task[v][k]
  BY OneTask DEF TypeOK
<1>2. \A k \in Ids, j \in Jobs : k # i /\ Carries(k, j) =>
        /\ Carries(k, j)'
        /\ \A v \in Workers : task'[v][k] = task[v][k]
  BY <1>1 DEF Carries, JobOf
<1>3. ASSUME NEW j \in Jobs, run[j] \in {"running", "retrying"}
      PROVE  \E k \in Ids : Carries(k, j)' /\ \A v \in Workers : task'[v][k].pc # "bury"
  <2>1. PICK k \in Ids : Carries(k, j) /\ \A v \in Workers : task[v][k].pc # "bury"
    BY <1>3 DEF RunsCarried
  <2>2. k # i
    BY <2>1 DEF Carries, Acking
  <2> QED
    BY <1>2, <2>1, <2>2
<1>4. ASSUME NEW j \in Jobs, run[j] = "failed"
      PROVE  HasDeadLetter(j)' \/ \E k \in Ids : Carries(k, j)'
  <2>1. CASE HasDeadLetter(j)
    BY <2>1
  <2>2. ASSUME NEW k \in Ids, Carries(k, j) PROVE HasDeadLetter(j)' \/ Carries(k, j)'
    <3>1. k = i => HasDeadLetter(j)'
      BY <2>2 DEF Carries, Acking
    <3> QED
      BY <1>2, <2>2, <3>1
  <2> QED
    BY <1>4, <2>1, <2>2 DEF RunsCarried
<1> QED
  BY <1>3, <1>4 DEF RunsCarried

\* Before the first lease fault every step leaves every run carried.
LEMMA CarriedNext ==
    ASSUME BaseInv, LettersNamed, LeaseInv, RunsCarried, [Next]_vars
    PROVE  RunsCarried'
<1> USE DeliveryAssumption DEF streamVars, dbVars
<1>t. TypeOK /\ StreamOK /\ DlqOK
  BY DEF BaseInv, TypeOK
<1>d. \A j \in Jobs : HasDeadLetter(j) => HasDeadLetter(j)'
  BY LetterOfJob
<1>a. NoTask.pc = "idle" /\ ~Acking(NoTask)
  BY DEF NoTask, Acking
<1>b. ASSUME NEW w \in Workers, NEW i \in Ids, NEW t, SetTask(w, i, t),
             t.pc \notin {"run", "ack", "bury"}, UNCHANGED <<live, entry, run>>
      PROVE  RunsCarried'
  <2>1. ~Acking(t)
    BY <1>b DEF Acking
  <2>2. \A v \in Workers, k \in Ids : task'[v][k] = t \/ task'[v][k] = task[v][k]
    BY <1>t, <1>b, OneTask DEF TypeOK
  <2> QED
    BY <1>b, <1>d, <2>1, <2>2, CarriedQuiet
<1>e. CASE UNCHANGED <<live, entry, run, task>>
  BY <1>d, <1>e, CarriedQuiet
<1>f. ASSUME NEW e, XAdd(e), UNCHANGED <<run, task>> PROVE RunsCarried'
  <2>1. live \subseteq live' /\ \A i \in live : entry'[i] = entry[i]
    BY <1>t, <1>f DEF XAdd, StreamOK, Ids
  <2> QED
    BY <1>d, <1>f, <2>1, CarriedQuiet
<1>1. CASE Producer
  BY <1>1, <1>e, <1>f DEF Producer, Enqueue, DedupeExpires, ForeignAdd
<1>2. ASSUME NEW w \in Workers, Loop(w) \/ Crash(w) PROVE RunsCarried'
  <2>1. UNCHANGED <<live, entry, run>>
    BY <1>2 DEF Loop, ClaimStale, ReadNew, Crash
  <2>2. \A v \in Workers, i \in Ids :
          task'[v][i] = task[v][i] \/ task'[v][i].pc \in {"idle", "claimed", "start"}
    BY <1>t, <1>2, LoopTasks
  <2> QED
    BY <1>d, <2>1, <2>2, CarriedQuiet DEF Acking
<1>3. ASSUME NEW w \in Workers, NEW i \in Ids,
             ReadAttempt(w, i) \/ Start(w, i) \/ DatabaseFails(w, i)
      PROVE  RunsCarried'
  <2>1. CASE ReadAttempt(w, i)
    <3> DEFINE t == [task[w][i] EXCEPT !.pc = "start",
                                       !.attempt = IF times[i] > 0 THEN times[i] ELSE 1]
    <3>1. SetTask(w, i, t) /\ UNCHANGED <<live, entry, run>>
      BY <2>1 DEF ReadAttempt
    <3>2. t.pc = "start"
      BY <1>t DEF TypeOK, TasksOK, Task
    <3> HIDE DEF t
    <3> QED
      BY <1>b, <3>1, <3>2
  <2>2. CASE Start(w, i)
    <3> DEFINE t == [task[w][i] EXCEPT !.pc = "lookup", !.beating = TRUE]
    <3>1. SetTask(w, i, t) /\ UNCHANGED <<live, entry, run>>
      BY <2>2 DEF Start
    <3>2. t.pc = "lookup"
      BY <1>t DEF TypeOK, TasksOK, Task
    <3> HIDE DEF t
    <3> QED
      BY <1>b, <3>1, <3>2
  <2>3. CASE DatabaseFails(w, i)
    BY <1>b, <1>t, <2>3, KeptFailure DEF DatabaseFails
  <2> QED
    BY <1>3, <2>1, <2>2, <2>3
<1>4. ASSUME NEW w \in Workers, NEW i \in Ids, Lookup(w, i) PROVE RunsCarried'
  <2> DEFINE s == IF run[JobOf(i)] = "none" THEN "running" ELSE run[JobOf(i)]
  <2>1. /\ task[w][i].pc = "lookup" /\ Active(w, i) /\ UNCHANGED <<live, entry>>
        /\ run' = [run EXCEPT ![JobOf(i)] = s]
    BY <1>4 DEF Lookup, Active
  <2>3. \E t : /\ SetTask(w, i, t)
               /\ \/ s \notin {"running", "retrying", "failed"}
                  \/ ~Acking(t) /\ t.pc # "bury"
    <3>1. CASE AfterFailure(w, i)
      BY <1>t, <2>1, <3>1, KeptFailure DEF Acking
    <3>2. CASE s \in Settled /\ AfterSuccess(w, i)
      BY <1>t, <2>1, <3>2, KeptSuccess DEF Settled
    <3>3. CASE Goto(w, i, "load")
      <4>1. "load" \in PCs
        BY DEF PCs
      <4> QED
        BY <1>t, <2>1, <3>3, <4>1, KeptGoto DEF Acking
    <3> QED
      BY <1>4, <3>1, <3>2, <3>3 DEF Lookup
  <2> HIDE DEF s
  <2> QED
    BY <1>t, <1>d, <2>1, <2>3, CarriedCommit
<1>5. ASSUME NEW w \in Workers, NEW i \in Ids, Load(w, i) PROVE RunsCarried'
  <2> DEFINE s == IF IsReplay(i) /\ run[JobOf(i)] = "failed" THEN "retrying"
                  ELSE run[JobOf(i)]
             t == [task[w][i] EXCEPT !.pc = "run", !.loaded = s]
  <2>1. /\ task[w][i].pc = "load" /\ Active(w, i) /\ UNCHANGED <<live, entry>>
        /\ run' = [run EXCEPT ![JobOf(i)] = s] /\ SetTask(w, i, t)
    BY <1>5 DEF Load, Active
  <2>3. t.pc = "run" /\ t.loaded = s
    BY <1>t DEF TypeOK, TasksOK, Task
  <2> HIDE DEF s, t
  <2>4. \/ s \notin {"running", "retrying", "failed"}
        \/ ~Acking(t) /\ t.pc # "bury"
    BY <2>3 DEF Acking, Settled
  <2> QED
    BY <1>t, <1>d, <2>1, <2>4, CarriedCommit
<1>6. ASSUME NEW w \in Workers, NEW i \in Ids,
             NEW result \in GraphOutcomes, RunSucceeds(w, i, result)
      PROVE  RunsCarried'
  <2> DEFINE s == OrmWrite(run[JobOf(i)], task[w][i].loaded, result)
  <2>1. /\ task[w][i].pc = "run" /\ Active(w, i) /\ UNCHANGED <<live, entry>>
        /\ run' = [run EXCEPT ![JobOf(i)] = s]
        /\ AfterSuccess(w, i) \/ AfterFailure(w, i)
    BY <1>6 DEF RunSucceeds, Active
  <2>3. \/ s \notin {"running", "retrying", "failed"}
        \/ s = run[JobOf(i)] /\ Acking(task[w][i])
    BY <2>1 DEF OrmWrite, GraphOutcomes, Acking, Settled
  <2>4. PICK t : SetTask(w, i, t)
    BY <1>t, <2>1, KeptSuccess, KeptFailure
  <2> HIDE DEF s
  <2> QED
    BY <1>t, <1>d, <2>1, <2>3, <2>4, CarriedCommit
<1>7. ASSUME NEW w \in Workers, NEW i \in Ids, RunFails(w, i) PROVE RunsCarried'
  <2> DEFINE s == OrmWrite(run[JobOf(i)], task[w][i].loaded, "retrying")
  <2>1. /\ task[w][i].pc = "run" /\ Active(w, i) /\ UNCHANGED <<live, entry>>
        /\ run' = [run EXCEPT ![JobOf(i)] = s] /\ AfterFailure(w, i)
    BY <1>7 DEF RunFails, Active
  <2>3. PICK t : SetTask(w, i, t) /\ t.pc \in {"mark", "record"}
    BY <1>t, <2>1, KeptFailure
  <2>4. ~Acking(t) /\ t.pc # "bury"
    BY <2>3 DEF Acking
  <2> HIDE DEF s
  <2> QED
    BY <1>t, <1>d, <2>1, <2>3, <2>4, CarriedCommit
<1>8. ASSUME NEW w \in Workers, NEW i \in Ids, MarkJobFailed(w, i) PROVE RunsCarried'
  <2> DEFINE s == IF run[JobOf(i)] = "none" THEN "none" ELSE "failed"
  <2>1. /\ task[w][i].pc = "mark" /\ Active(w, i) /\ UNCHANGED <<live, entry>>
        /\ run' = [run EXCEPT ![JobOf(i)] = s] /\ Goto(w, i, "bury")
    BY <1>8 DEF MarkJobFailed, Active
  <2>2. "bury" \in PCs /\ s \in {"none", "failed"}
    BY DEF PCs
  <2>3. PICK t : SetTask(w, i, t) /\ t.pc = "bury"
    BY <1>t, <2>1, <2>2, KeptGoto
  <2>4. s \notin {"running", "retrying", "failed"} \/ (~Acking(t) /\ s = "failed")
    BY <2>2, <2>3 DEF Acking
  <2> HIDE DEF s
  <2> QED
    BY <1>t, <1>d, <2>1, <2>3, <2>4, CarriedCommit
<1>9. ASSUME NEW w \in Workers, NEW i \in Ids,
             StartMalformed(w, i) \/ Bury(w, i) \/ Acknowledge(w, i)
      PROVE  RunsCarried'
  <2>1. /\ SetTask(w, i, NoTask) /\ live' = live \ {i} /\ UNCHANGED <<entry, run>>
    BY <1>9 DEF StartMalformed, Bury, Acknowledge, DeadLetter, XRemove
  <2>2. ASSUME Bury(w, i), NEW j \in Jobs, j = JobOf(i) PROVE HasDeadLetter(j)'
    <3>1. task[w][i].pc = "bury" /\ DeadLetter(i) /\ UNCHANGED entry
      BY <2>2 DEF Bury
    <3>2. dlqAdded + 1 \in 1..dlqAdded' /\ dlqOrig'[dlqAdded + 1] = i
      BY <1>t, <3>1, BuryLetter
    <3> QED
      BY <2>2, <3>1, <3>2 DEF HasDeadLetter, JobOf
  <2>3. \/ JobOf(i) \notin Jobs
        \/ task[w][i].pc = "bury" /\ \A j \in Jobs : j = JobOf(i) => HasDeadLetter(j)'
        \/ task[w][i].pc = "ack"
    BY <1>9, <2>2 DEF StartMalformed, Bury, Acknowledge
  <2> QED
    BY <1>t, <1>d, <2>1, <2>3, CarriedRemove
<1>10. ASSUME NEW w \in Workers, NEW i \in Ids, RecordFailure(w, i) \/ BoundaryFails(w, i)
      PROVE  RunsCarried'
  BY <1>a, <1>b, <1>10 DEF RecordFailure, BoundaryFails
<1>11. ASSUME NEW w \in Workers, NEW i \in Ids, HeartbeatDies(w, i) PROVE RunsCarried'
  <2> DEFINE t == [task[w][i] EXCEPT !.beating = FALSE]
  <2>1. SetTask(w, i, t) /\ UNCHANGED <<live, entry, run>>
    BY <1>11 DEF HeartbeatDies
  <2>2. t.pc = task[w][i].pc /\ t.loaded = task[w][i].loaded
    BY <1>t DEF TypeOK, TasksOK, Task
  <2> HIDE DEF t
  <2>3. \A v \in Workers, k \in Ids : /\ task'[v][k].pc = task[v][k].pc
                                      /\ task'[v][k].loaded = task[v][k].loaded
    BY <1>t, <2>1, <2>2, OneTask DEF TypeOK
  <2> QED
    BY <1>d, <2>1, <2>3, CarriedQuiet DEF Acking
<1>12. ASSUME NEW w \in Workers, NEW i \in Ids, Heartbeat(w, i) \/ LeaseLapses(w, i)
      PROVE  RunsCarried'
  BY <1>e, <1>12 DEF Heartbeat, LeaseLapses
<1>13. ASSUME NEW i \in Ids, LeaseExpires(i) PROVE RunsCarried'
  BY <1>e, <1>13 DEF LeaseExpires
<1>14. CASE Operator
  BY <1>14, <1>e, <1>f DEF Operator, OperatorReplays, OperatorPurges, Replay, Purge
<1>15. CASE UNCHANGED vars
  BY <1>15, <1>e DEF vars
<1> QED
  BY <1>1, <1>2, <1>3, <1>4, <1>5, <1>6, <1>7, <1>8, <1>9, <1>10, <1>11, <1>12, <1>13,
     <1>14, <1>15 DEF Next, Process, Failure

-----------------------------------------------------------------------------
(* A settled run is not run again *)

\* A delivery that loaded a settled status did so after the commit that settled it.
LoadedKnown ==
    \A w \in Workers, i \in Ids :
        task[w][i].pc = "run" /\ task[w][i].loaded \in Settled => JobOf(i) \in everSettled

\* A replay is a second entry of its job.
ReplaysCopy ==
    \A i \in 1..added : IsReplay(i) => \E k \in 1..added : k # i /\ JobOf(k) = JobOf(i)

\* Once settled, the run of a job's only entry is on its way to neither load nor
\* run: a redelivery leaves at the early exits of the lookup.
SettledStays ==
    \A j \in everSettled : AddedOnce(j) =>
        /\ run[j] \notin {"none", "running", "retrying"}
        /\ \A w \in Workers, i \in Ids :
              JobOf(i) = j => task[w][i].pc \notin {"load", "run"}

RerunInv == LoadedKnown /\ ReplaysCopy /\ SettledStays

\* Entries are only added.
LEMMA EntriesStay ==
    ASSUME BaseInv, [Next]_vars
    PROVE  /\ added \in Nat /\ added' \in Nat /\ added <= added'
           /\ \A i \in 1..added : entry'[i] = entry[i] /\ i \in 1..added'
<1>t. StreamOK
  BY DEF BaseInv, TypeOK
<1>0. added \in Nat
  BY <1>t DEF StreamOK
<1>1. CASE UNCHANGED <<entry, added>>
  BY <1>0, <1>1
<1>2. ASSUME NEW e, XAdd(e)
      PROVE  /\ added' = added + 1
             /\ \A i \in 1..added : entry'[i] = entry[i]
  BY <1>t, <1>2, DeliveryAssumption DEF XAdd, StreamOK, Ids
<1>3. ASSUME NEW e, XAdd(e)
      PROVE  /\ added \in Nat /\ added' \in Nat /\ added <= added'
             /\ \A i \in 1..added : entry'[i] = entry[i] /\ i \in 1..added'
  BY <1>0, <1>2, <1>3
<1>4. UNCHANGED <<entry, added>> \/ \E e : XAdd(e)
  BY StepKinds DEF ledgerVars, Enqueue, ForeignAdd, Replay, StartMalformed, Bury, RunSucceeds,
                   Acknowledge, streamVars
<1> QED
  BY <1>1, <1>3, <1>4

\* A job with one entry had no second one before.
LEMMA OnceBefore ==
    ASSUME BaseInv, [Next]_vars, NEW j, AddedOnce(j)'
    PROVE  AddedOnce(j)
  BY EntriesStay DEF AddedOnce, JobOf

\* The entry a delivery works on does not change.
LEMMA JobStays ==
    ASSUME BaseInv, [Next]_vars, NEW w \in Workers, NEW i \in Ids, task[w][i].pc # "idle"
    PROVE  i \in 1..added /\ JobOf(i)' = JobOf(i)
  BY ActivePublished, EntriesStay DEF JobOf

\* A step that commits nothing and enters neither load nor run keeps settled runs
\* out of the graph.
LEMMA RerunQuiet ==
    ASSUME BaseInv, [Next]_vars, RerunInv, ReplaysCopy', UNCHANGED <<run, everSettled>>,
           \A w \in Workers, i \in Ids :
              \/ task'[w][i].pc = task[w][i].pc /\ task'[w][i].loaded = task[w][i].loaded
              \/ task'[w][i].pc \notin {"load", "run"}
    PROVE  RerunInv'
<1>1. LoadedKnown'
  <2> SUFFICES ASSUME NEW w \in Workers, NEW i \in Ids, task'[w][i].pc = "run",
                      task'[w][i].loaded \in Settled
               PROVE  JobOf(i)' \in everSettled
    BY DEF LoadedKnown
  <2>1. task[w][i].pc = "run" /\ task[w][i].loaded \in Settled
    OBVIOUS
  <2> QED
    BY <2>1, JobStays DEF RerunInv, LoadedKnown
<1>2. SettledStays'
  <2> SUFFICES ASSUME NEW j \in everSettled, AddedOnce(j)'
               PROVE  /\ run[j] \notin {"none", "running", "retrying"}
                      /\ \A w \in Workers, i \in Ids :
                            JobOf(i)' = j => task'[w][i].pc \notin {"load", "run"}
    BY DEF SettledStays
  <2>1. AddedOnce(j)
    BY OnceBefore
  <2>2. ASSUME NEW w \in Workers, NEW i \in Ids, JobOf(i)' = j, task'[w][i].pc \in {"load", "run"}
        PROVE  FALSE
    <3>1. task[w][i].pc \in {"load", "run"}
      BY <2>2
    <3>2. JobOf(i) = j
      BY <2>2, <3>1, JobStays
    <3> QED
      BY <2>1, <3>1, <3>2 DEF RerunInv, SettledStays
  <2> QED
    BY <2>1, <2>2 DEF RerunInv, SettledStays
<1> QED
  BY <1>1, <1>2 DEF RerunInv

\* A delivery that commits a status does, if what it leaves of a settled job with
\* one entry is neither unsettled nor on its way into the graph.
LEMMA RerunCommit ==
    ASSUME BaseInv, LeaseInv, [Next]_vars, RerunInv, UNCHANGED <<entry, added>>,
           NEW w \in Workers, NEW i \in Ids, Active(w, i), NEW t, SetTask(w, i, t),
           NEW s, run' = [run EXCEPT ![JobOf(i)] = s],
           everSettled \subseteq everSettled', everSettled' \subseteq everSettled \cup {JobOf(i)},
           everSettled' \subseteq Jobs,
           t.pc = "run" /\ t.loaded \in Settled => JobOf(i) \in everSettled',
           JobOf(i) \in everSettled' /\ AddedOnce(JobOf(i)) =>
              s \notin {"none", "running", "retrying"} /\ t.pc \notin {"load", "run"}
    PROVE  RerunInv'
<1>1. /\ task'[w][i] = t
      /\ \A v \in Workers, k \in Ids : v # w \/ k # i => task'[v][k] = task[v][k]
  BY OneTask DEF BaseInv, TypeOK
<1>2. \A k : JobOf(k)' = JobOf(k)
  BY DEF JobOf
<1>3. LoadedKnown'
  BY <1>1, <1>2 DEF RerunInv, LoadedKnown
<1>4. ReplaysCopy'
  BY <1>2 DEF RerunInv, ReplaysCopy, IsReplay
<1>5. ASSUME NEW j \in everSettled', AddedOnce(j)
      PROVE  /\ run'[j] \notin {"none", "running", "retrying"}
             /\ \A v \in Workers, k \in Ids :
                   JobOf(k) = j => task'[v][k].pc \notin {"load", "run"}
  <2>1. CASE j # JobOf(i)
    <3>1. j \in everSettled /\ run'[j] = run[j]
      BY <2>1 DEF BaseInv, TypeOK, RunsOK
    <3> QED
      BY <1>1, <1>5, <2>1, <3>1 DEF RerunInv, SettledStays
  <2>2. CASE j = JobOf(i)
    <3>1. s \notin {"none", "running", "retrying"} /\ t.pc \notin {"load", "run"}
      BY <1>5, <2>2
    <3>2. run'[j] = s
      BY <2>2 DEF BaseInv, TypeOK, RunsOK
    <3>3. ASSUME NEW v \in Workers, NEW k \in Ids, JobOf(k) = j,
                 task'[v][k].pc \in {"load", "run"}
          PROVE  FALSE
      <4>1. v # w \/ k # i
        BY <1>1, <3>1, <3>3
      <4>2. task[v][k].pc \in {"load", "run"}
        BY <1>1, <3>3, <4>1
      <4>3. k \in 1..added /\ i \in 1..added
        BY <4>2, ActivePublished DEF Active
      <4>4. k = i
        BY <1>5, <2>2, <3>3, <4>3 DEF AddedOnce
      <4> QED
        BY <4>1, <4>2, <4>4 DEF LeaseInv, Owned, Active
    <3> QED
      BY <3>1, <3>2, <3>3
  <2> QED
    BY <2>1, <2>2
<1>6. SettledStays'
  BY <1>2, <1>5, OnceBefore DEF SettledStays
<1> QED
  BY <1>3, <1>4, <1>6 DEF RerunInv

\* Before the first lease fault every step keeps settled runs out of the graph.
LEMMA RerunNext ==
    ASSUME BaseInv, LossInv, LettersNamed, LeaseInv, RerunInv, [Next]_vars
    PROVE  RerunInv'
<1> USE DeliveryAssumption DEF streamVars, dbVars
<1>t. TypeOK /\ StreamOK /\ RunsOK
  BY DEF BaseInv, TypeOK
<1>a. NoTask.pc = "idle"
  BY DEF NoTask
<1>b. ASSUME UNCHANGED <<entry, added>> PROVE ReplaysCopy'
  BY <1>b DEF RerunInv, ReplaysCopy, IsReplay, JobOf
<1>c. ASSUME NEW w \in Workers, NEW i \in Ids, NEW t, SetTask(w, i, t),
             t.pc \notin {"load", "run"}, UNCHANGED <<entry, added, run, everSettled>>
      PROVE  RerunInv'
  <2>1. \A v \in Workers, k \in Ids : task'[v][k] = t \/ task'[v][k] = task[v][k]
    BY <1>t, <1>c, OneTask DEF TypeOK
  <2> QED
    BY <1>b, <1>c, <2>1, RerunQuiet
<1>d. CASE UNCHANGED <<entry, added, run, everSettled, task>>
  BY <1>b, <1>d, RerunQuiet
<1>e. ASSUME NEW e, XAdd(e), UNCHANGED <<run, everSettled, task>>,
             e.req # NoRequest => \E k \in 1..added : JobOf(k) = e.job
      PROVE  RerunInv'
  <2>1. /\ added \in Nat /\ added' = added + 1 /\ entry'[added + 1] = e
        /\ \A i \in 1..added : entry'[i] = entry[i]
    BY <1>t, <1>e DEF XAdd, StreamOK, Ids
  <2>2. ReplaysCopy'
    <3> SUFFICES ASSUME NEW i \in 1..added', IsReplay(i)'
                 PROVE  \E k \in 1..added' : k # i /\ JobOf(k)' = JobOf(i)'
      BY DEF ReplaysCopy
    <3>0. \A k \in 1..added : k \in 1..added' /\ k # added + 1 /\ JobOf(k)' = JobOf(k)
      BY <2>1 DEF JobOf
    <3>1. CASE i \in 1..added
      <4>1. IsReplay(i)
        BY <2>1, <3>1 DEF IsReplay
      <4> QED
        BY <3>0, <3>1, <4>1 DEF RerunInv, ReplaysCopy
    <3>2. CASE i = added + 1
      <4>1. e.req # NoRequest /\ JobOf(i)' = e.job
        BY <2>1, <3>2 DEF IsReplay, JobOf
      <4> QED
        BY <1>e, <3>0, <3>2, <4>1
    <3> QED
      BY <2>1, <3>1, <3>2
  <2> QED
    BY <1>e, <2>2, RerunQuiet
<1>f. ASSUME NEW w \in Workers, NEW i \in Ids, task[w][i].pc \in {"load", "run"}
      PROVE  ~(JobOf(i) \in everSettled /\ AddedOnce(JobOf(i)))
  BY <1>f DEF RerunInv, SettledStays
<1>1. CASE Producer
  <2>1. ASSUME NEW j \in Jobs, Enqueue(j) PROVE RerunInv'
    BY <1>e, <2>1 DEF Enqueue
  <2>2. ASSUME NEW j \in Jobs, DedupeExpires(j) PROVE RerunInv'
    BY <1>d, <2>2 DEF DedupeExpires
  <2>3. CASE ForeignAdd
    BY <1>e, <2>3 DEF ForeignAdd, NoEntry
  <2> QED
    BY <1>1, <2>1, <2>2, <2>3 DEF Producer
<1>2. ASSUME NEW w \in Workers, Loop(w) \/ Crash(w) PROVE RerunInv'
  <2>1. UNCHANGED <<entry, added, run, everSettled>>
    BY <1>2 DEF Loop, ClaimStale, ReadNew, Crash
  <2>2. \A v \in Workers, i \in Ids :
          task'[v][i] = task[v][i] \/ task'[v][i].pc \in {"idle", "claimed", "start"}
    BY <1>t, <1>2, LoopTasks
  <2> QED
    BY <1>b, <2>1, <2>2, RerunQuiet
<1>3. ASSUME NEW w \in Workers, NEW i \in Ids,
             ReadAttempt(w, i) \/ Start(w, i) \/ DatabaseFails(w, i)
      PROVE  RerunInv'
  <2>1. CASE ReadAttempt(w, i)
    <3> DEFINE t == [task[w][i] EXCEPT !.pc = "start",
                                       !.attempt = IF times[i] > 0 THEN times[i] ELSE 1]
    <3>1. SetTask(w, i, t) /\ UNCHANGED <<entry, added, run, everSettled>>
      BY <2>1 DEF ReadAttempt
    <3>2. t.pc = "start"
      BY <1>t DEF TypeOK, TasksOK, Task
    <3> HIDE DEF t
    <3> QED
      BY <1>c, <3>1, <3>2
  <2>2. CASE Start(w, i)
    <3> DEFINE t == [task[w][i] EXCEPT !.pc = "lookup", !.beating = TRUE]
    <3>1. SetTask(w, i, t) /\ UNCHANGED <<entry, added, run, everSettled>>
      BY <2>2 DEF Start
    <3>2. t.pc = "lookup"
      BY <1>t DEF TypeOK, TasksOK, Task
    <3> HIDE DEF t
    <3> QED
      BY <1>c, <3>1, <3>2
  <2>3. CASE DatabaseFails(w, i)
    BY <1>c, <1>t, <2>3, KeptFailure DEF DatabaseFails
  <2> QED
    BY <1>3, <2>1, <2>2, <2>3
<1>4. ASSUME NEW w \in Workers, NEW i \in Ids, Lookup(w, i) PROVE RerunInv'
  <2> DEFINE j == JobOf(i)
             s == IF run[j] = "none" THEN "running" ELSE run[j]
  <2>1. /\ task[w][i].pc = "lookup" /\ Active(w, i) /\ run' = [run EXCEPT ![j] = s]
        /\ UNCHANGED <<entry, added, everSettled>>
    BY <1>4 DEF Lookup, Active
  <2>2. j \in Jobs /\ i \in 1..added
    BY <2>1, ActivePublished DEF BaseInv, TasksSound, SoundTask, Working
  <2>3. AddedOnce(j) => ~IsReplay(i)
    BY <2>2 DEF RerunInv, ReplaysCopy, AddedOnce
  <2>4. j \in everSettled /\ AddedOnce(j) => s \in Settled \/ s = "failed"
    BY <1>t, <2>2 DEF RerunInv, SettledStays, RunsOK, RunStatus, Settled
  <2>5. \E t : /\ SetTask(w, i, t) /\ t.pc # "run"
               /\ j \in everSettled /\ AddedOnce(j) => t.pc \notin {"load", "run"}
    <3>1. CASE AfterFailure(w, i)
      BY <1>t, <2>1, <3>1, KeptFailure
    <3>2. CASE AfterSuccess(w, i)
      BY <1>t, <2>1, <3>2, KeptSuccess
    <3>3. CASE Goto(w, i, "load") /\ s \notin Settled /\ ~(s = "failed" /\ ~IsReplay(i))
      <4>1. "load" \in PCs
        BY DEF PCs
      <4> QED
        BY <1>t, <2>1, <2>3, <2>4, <3>3, <4>1, KeptGoto
    <3> QED
      BY <1>4, <3>1, <3>2, <3>3 DEF Lookup
  <2>6. j \in everSettled /\ AddedOnce(j) => s \notin {"none", "running", "retrying"}
    BY <2>4 DEF Settled
  <2>7. everSettled \subseteq Jobs
    BY <1>t DEF RunsOK
  <2> HIDE DEF s
  <2> QED
    BY <2>1, <2>5, <2>6, <2>7, RerunCommit
<1>5. ASSUME NEW w \in Workers, NEW i \in Ids, Load(w, i) PROVE RerunInv'
  <2> DEFINE s == IF IsReplay(i) /\ run[JobOf(i)] = "failed" THEN "retrying"
                  ELSE run[JobOf(i)]
             t == [task[w][i] EXCEPT !.pc = "run", !.loaded = s]
  <2>1. /\ task[w][i].pc = "load" /\ Active(w, i) /\ run' = [run EXCEPT ![JobOf(i)] = s]
        /\ SetTask(w, i, t) /\ UNCHANGED <<entry, added, everSettled>>
    BY <1>5 DEF Load, Active
  <2>2. JobOf(i) \in Jobs
    BY <2>1 DEF BaseInv, TasksSound, SoundTask, Working
  <2>3. t.loaded = s
    BY <1>t DEF TypeOK, TasksOK, Task
  <2>4. s \in Settled => JobOf(i) \in everSettled
    BY <2>2 DEF LossInv, SettledKnown, Settled
  <2>5. everSettled \subseteq Jobs
    BY <1>t DEF RunsOK
  <2> HIDE DEF s, t
  <2> QED
    BY <1>f, <2>1, <2>3, <2>4, <2>5, RerunCommit
<1>6. ASSUME NEW w \in Workers, NEW i \in Ids,
             NEW result \in GraphOutcomes, RunSucceeds(w, i, result)
      PROVE  RerunInv'
  <2> DEFINE s == OrmWrite(run[JobOf(i)], task[w][i].loaded, result)
  <2>1. /\ task[w][i].pc = "run" /\ Active(w, i) /\ run' = [run EXCEPT ![JobOf(i)] = s]
        /\ AfterSuccess(w, i) \/ AfterFailure(w, i)
        /\ UNCHANGED <<entry, added>>
        /\ everSettled' = everSettled \cup {JobOf(i)}
    BY <1>6 DEF RunSucceeds, Active
  <2>2. JobOf(i) \in Jobs /\ everSettled \subseteq Jobs
    BY <1>t, <2>1 DEF BaseInv, TasksSound, SoundTask, Working, RunsOK
  <2>3. AddedOnce(JobOf(i)) => task[w][i].loaded \notin Settled
    BY <1>f, <2>1 DEF RerunInv, LoadedKnown
  <2>4. AddedOnce(JobOf(i)) => s \in Settled
    BY <2>3 DEF OrmWrite, GraphOutcomes, Settled
  <2>5. PICK t : SetTask(w, i, t) /\ t.pc \in {"ack", "mark", "record"}
    BY <1>t, <2>1, KeptSuccess, KeptFailure
  <2>6. AddedOnce(JobOf(i)) => s \notin {"none", "running", "retrying"}
    BY <2>4 DEF Settled
  <2> HIDE DEF s
  <2> QED
    BY <2>1, <2>2, <2>5, <2>6, RerunCommit
<1>7. ASSUME NEW w \in Workers, NEW i \in Ids, RunFails(w, i) PROVE RerunInv'
  <2> DEFINE s == OrmWrite(run[JobOf(i)], task[w][i].loaded, "retrying")
  <2>1. /\ task[w][i].pc = "run" /\ Active(w, i) /\ run' = [run EXCEPT ![JobOf(i)] = s]
        /\ AfterFailure(w, i) /\ UNCHANGED <<entry, added, everSettled>>
    BY <1>7 DEF RunFails, Active
  <2>2. PICK t : SetTask(w, i, t) /\ t.pc \in {"mark", "record"}
    BY <1>t, <2>1, KeptFailure
  <2>3. everSettled \subseteq Jobs
    BY <1>t DEF RunsOK
  <2> HIDE DEF s
  <2> QED
    BY <1>f, <2>1, <2>2, <2>3, RerunCommit
<1>8. ASSUME NEW w \in Workers, NEW i \in Ids, MarkJobFailed(w, i) PROVE RerunInv'
  <2> DEFINE s == IF run[JobOf(i)] = "none" THEN "none" ELSE "failed"
  <2>1. /\ task[w][i].pc = "mark" /\ Active(w, i) /\ run' = [run EXCEPT ![JobOf(i)] = s]
        /\ Goto(w, i, "bury") /\ UNCHANGED <<entry, added, everSettled>>
    BY <1>8 DEF MarkJobFailed, Active
  <2>2. "bury" \in PCs
    BY DEF PCs
  <2>3. PICK t : SetTask(w, i, t) /\ t.pc = "bury"
    BY <1>t, <2>1, <2>2, KeptGoto
  <2>4. JobOf(i) \in everSettled /\ AddedOnce(JobOf(i)) => s = "failed"
    BY DEF RerunInv, SettledStays
  <2>5. everSettled \subseteq Jobs
    BY <1>t DEF RunsOK
  <2> HIDE DEF s
  <2> QED
    BY <2>1, <2>3, <2>4, <2>5, RerunCommit
<1>9. ASSUME NEW w \in Workers, NEW i \in Ids,
             \/ StartMalformed(w, i) \/ Bury(w, i) \/ Acknowledge(w, i)
             \/ RecordFailure(w, i) \/ BoundaryFails(w, i)
      PROVE  RerunInv'
  BY <1>a, <1>c, <1>9 DEF StartMalformed, Bury, Acknowledge, RecordFailure, BoundaryFails
<1>10. ASSUME NEW w \in Workers, NEW i \in Ids, HeartbeatDies(w, i) PROVE RerunInv'
  <2> DEFINE t == [task[w][i] EXCEPT !.beating = FALSE]
  <2>1. SetTask(w, i, t) /\ UNCHANGED <<entry, added, run, everSettled>>
    BY <1>10 DEF HeartbeatDies
  <2>2. t.pc = task[w][i].pc /\ t.loaded = task[w][i].loaded
    BY <1>t DEF TypeOK, TasksOK, Task
  <2> HIDE DEF t
  <2>3. \A v \in Workers, k \in Ids : /\ task'[v][k].pc = task[v][k].pc
                                      /\ task'[v][k].loaded = task[v][k].loaded
    BY <1>t, <2>1, <2>2, OneTask DEF TypeOK
  <2> QED
    BY <1>b, <2>1, <2>3, RerunQuiet
<1>11. ASSUME NEW w \in Workers, NEW i \in Ids, Heartbeat(w, i) \/ LeaseLapses(w, i)
      PROVE  RerunInv'
  BY <1>d, <1>11 DEF Heartbeat, LeaseLapses
<1>12. ASSUME NEW i \in Ids, LeaseExpires(i) PROVE RerunInv'
  BY <1>d, <1>12 DEF LeaseExpires
<1>13. ASSUME NEW d \in DlqIds, NEW r \in Requests, Replay(d, r) PROVE RerunInv'
  <2> DEFINE e == [job |-> JobOf(dlqOrig[d]), dlq |-> d, req |-> r]
  <2>1. d \in dlqLive /\ XAdd(e) /\ UNCHANGED <<run, everSettled, task>>
    BY <1>13 DEF Replay
  <2>2. dlqOrig[d] \in 1..added
    BY <2>1 DEF LettersNamed, BaseInv, TypeOK, DlqOK
  <2>3. e.job = JobOf(dlqOrig[d])
    OBVIOUS
  <2> HIDE DEF e
  <2> QED
    BY <1>e, <2>1, <2>2, <2>3
<1>14. ASSUME NEW cutoff \in 2..(MaxDeadLetters + 1), Purge(cutoff) PROVE RerunInv'
  BY <1>d, <1>14 DEF Purge
<1>15. CASE UNCHANGED vars
  BY <1>15, <1>d DEF vars
<1> QED
  BY <1>1, <1>2, <1>3, <1>4, <1>5, <1>6, <1>7, <1>8, <1>9, <1>10, <1>11, <1>12, <1>13,
     <1>14, <1>15 DEF Next, Process, Failure, Operator, OperatorReplays, OperatorPurges

-----------------------------------------------------------------------------
(* What every lost lease may cost *)

\* Workers that are at work on an entry and do not renew its lease any more.
Orphans(i) == {w \in Holders(i) : ~HoldsLease(w, i)}

Open(i) == IF i \in live THEN 1 ELSE 0
Stale(i) == IF i \in idle THEN 1 ELSE 0

\* XREADGROUP hands out only entries nobody had before.
Delivered == \A w \in Workers, i \in Ids : Active(w, i) => i <= cursor

\* An entry up for XAUTOCLAIM is as good as held by one worker more.
HoldersCounted ==
    \A i \in Ids : Cardinality(Holders(i)) + Stale(i) <= leaseFaults + Open(i)

OrphansCounted == \A i \in Ids : Cardinality(Orphans(i)) <= leaseFaults

\* Whoever holds a removed entry may bury it once more.
LettersCounted ==
    \A i \in Ids :
        /\ i \in live => LettersOf(i) = {}
        /\ Cardinality(LettersOf(i)) + Cardinality(Holders(i)) <= leaseFaults + 1

\* A worker that lost its lease is left with the entry, or shares it, or shares it soon.
Crowded(i) ==
    \/ Orphans(i) # {}
    \/ \E v, w \in Holders(i) : v # w
    \/ Holders(i) # {} /\ (i \in idle \/ i \notin live)

\* What a step does to that: only a lost lease makes an entry crowded, and only one.
Crowds ==
    \/ leaseFaults' = leaseFaults /\ \A k \in Ids : Crowded(k)' => Crowded(k)
    \/ /\ leaseFaults' = leaseFaults + 1
       /\ \E i \in Ids : \A k \in Ids \ {i} : Crowded(k)' => Crowded(k)

CostInv == Delivered /\ HoldersCounted /\ OrphansCounted /\ LettersCounted

\* The sets that are counted are finite.
LEMMA Countable ==
    ASSUME DlqOK, NEW i
    PROVE  /\ IsFiniteSet(Holders(i)) /\ Cardinality(Holders(i)) \in Nat
           /\ IsFiniteSet(Orphans(i)) /\ Cardinality(Orphans(i)) \in Nat
           /\ IsFiniteSet(LettersOf(i)) /\ Cardinality(LettersOf(i)) \in Nat
<1>1. IsFiniteSet(Workers) /\ Holders(i) \subseteq Workers /\ Orphans(i) \subseteq Workers
  BY DeliveryAssumption DEF Holders, Orphans
<1>2. LettersOf(i) \subseteq 1..dlqAdded /\ dlqAdded \in Int
  BY DeliveryAssumption DEF LettersOf, DlqOK
<1>3. IsFiniteSet(1..dlqAdded)
  BY <1>2, FS_Interval
<1>4. IsFiniteSet(Holders(i)) /\ IsFiniteSet(Orphans(i)) /\ IsFiniteSet(LettersOf(i))
  BY <1>1, <1>2, <1>3, FS_Subset
<1> QED
  BY <1>4, FS_CardinalityType

\* A set that loses members, loses a given one, or gains at most one.
LEMMA Shrinks ==
    ASSUME NEW S, NEW T, IsFiniteSet(S), T \subseteq S
    PROVE  Cardinality(T) <= Cardinality(S)
  BY FS_Subset

LEMMA Loses ==
    ASSUME NEW S, NEW T, NEW x, IsFiniteSet(S), x \in S, T \subseteq S \ {x}
    PROVE  Cardinality(T) <= Cardinality(S) - 1
<1>1. IsFiniteSet(S \ {x}) /\ Cardinality(S \ {x}) = Cardinality(S) - 1
  BY FS_RemoveElement
<1> QED
  BY <1>1, Shrinks

LEMMA Gains ==
    ASSUME NEW S, NEW T, NEW x, IsFiniteSet(S), T \subseteq S \cup {x}
    PROVE  Cardinality(T) <= Cardinality(S) + 1
<1>0. Cardinality(S) \in Nat
  BY FS_CardinalityType
<1>1. IsFiniteSet(S \cup {x}) /\ Cardinality(S \cup {x}) <= Cardinality(S) + 1
  <2>1. /\ IsFiniteSet(S \cup {x})
        /\ Cardinality(S \cup {x}) = IF x \in S THEN Cardinality(S) ELSE Cardinality(S) + 1
    BY FS_AddElement
  <2> QED
    BY <1>0, <2>1
<1>2. IsFiniteSet(T) /\ Cardinality(T) <= Cardinality(S \cup {x})
  BY <1>1, FS_Subset
<1> QED
  BY <1>1, <1>2, FS_CardinalityType

\* A step of one delivery changes who holds that entry, and nobody else.
LEMMA OneHolder ==
    ASSUME TasksOK, NEW w \in Workers, NEW i \in Ids, NEW t, SetTask(w, i, t)
    PROVE  /\ \A k \in Ids : k # i => Holders(k)' = Holders(k) /\ Orphans(k)' = Orphans(k)
           /\ Holders(i)' \ {w} = Holders(i) \ {w}
           /\ Orphans(i)' \ {w} = Orphans(i) \ {w}
           /\ w \in Holders(i)' <=> t.pc # "idle"
           /\ w \in Orphans(i)' <=>
                t.pc # "idle" /\ ~(t.beating \/ t.pc \in {"claimed", "start", "ack"})
<1>1. /\ task'[w][i] = t
      /\ \A v \in Workers, k \in Ids : v # w \/ k # i => task'[v][k] = task[v][k]
  BY OneTask
<1> QED
  BY <1>1 DEF Holders, Orphans, HoldsLease, Active

\* Steps that give nobody an entry and take no lease, whatever they publish.
LEMMA CostQuiet ==
    ASSUME TypeOK, CostInv, live \subseteq live', idle' \subseteq idle,
           UNCHANGED <<cursor, dlqOrig, dlqAdded, leaseFaults>>,
           \A k \in live' \ live : LettersOf(k) = {},
           \A k \in Ids : Holders(k)' \subseteq Holders(k) /\ Orphans(k)' \subseteq Orphans(k)
    PROVE  CostInv' /\ Crowds
<1>1. \A k \in Ids : LettersOf(k)' = LettersOf(k)
  BY DEF LettersOf
<1>2. \A k \in Ids : /\ Cardinality(Holders(k)') <= Cardinality(Holders(k))
                     /\ Cardinality(Orphans(k)') <= Cardinality(Orphans(k))
                     /\ Cardinality(Holders(k)) \in Nat /\ Cardinality(Holders(k)') \in Nat
                     /\ Cardinality(Orphans(k)) \in Nat /\ Cardinality(Orphans(k)') \in Nat
                     /\ Cardinality(LettersOf(k)) \in Nat
  BY Countable, Shrinks, FS_Subset, FS_CardinalityType DEF TypeOK
<1>3. leaseFaults \in Nat
  BY DEF TypeOK, LoopOK
<1>4. Delivered'
  BY DEF CostInv, Delivered, Holders
<1>5. HoldersCounted'
  BY <1>2, <1>3 DEF CostInv, HoldersCounted, Open, Stale
<1>6. OrphansCounted'
  BY <1>2, <1>3 DEF CostInv, OrphansCounted
<1>7. LettersCounted'
  BY <1>1, <1>2, <1>3 DEF CostInv, LettersCounted
<1>8. \A k \in Ids : Crowded(k)' => Crowded(k)
  BY DEF Crowded
<1> QED
  BY <1>4, <1>5, <1>6, <1>7, <1>8 DEF CostInv, Crowds

\* Acknowledging or burying an entry takes its worker along: the entry is free of it
\* before another can be claimed on the same lost lease.
LEMMA CostRemove ==
    ASSUME TypeOK, CostInv, NEW w \in Workers, NEW i \in Ids, Active(w, i),
           SetTask(w, i, NoTask), XRemove(i), UNCHANGED <<cursor, leaseFaults>>, DlqOK',
           \A k \in Ids : k # i => LettersOf(k)' = LettersOf(k),
           \E d : LettersOf(i)' \subseteq LettersOf(i) \cup {d}
    PROVE  CostInv' /\ Crowds
<1>0. NoTask.pc = "idle"
  BY DEF NoTask
<1>1. /\ \A k \in Ids : k # i => Holders(k)' = Holders(k) /\ Orphans(k)' = Orphans(k)
      /\ Holders(i)' \subseteq Holders(i) \ {w} /\ w \in Holders(i)
      /\ Orphans(i)' \subseteq Orphans(i)
  BY <1>0, OneHolder DEF TypeOK, Holders
<1>2. \A k \in Ids : /\ IsFiniteSet(Holders(k)) /\ IsFiniteSet(Orphans(k))
                     /\ IsFiniteSet(LettersOf(k))
                     /\ Cardinality(Holders(k)) \in Nat /\ Cardinality(Orphans(k)) \in Nat
                     /\ Cardinality(LettersOf(k)) \in Nat
  BY Countable DEF TypeOK
<1>3. /\ Cardinality(Holders(i)') <= Cardinality(Holders(i)) - 1
      /\ Cardinality(Orphans(i)') <= Cardinality(Orphans(i))
      /\ Cardinality(LettersOf(i)') <= Cardinality(LettersOf(i)) + 1
  BY <1>1, <1>2, Loses, Shrinks, Gains
<1>4. /\ Cardinality(Holders(i)') \in Nat /\ Cardinality(Orphans(i)') \in Nat
      /\ Cardinality(LettersOf(i)') \in Nat
  <2>1. IsFiniteSet(Holders(i)') /\ IsFiniteSet(Orphans(i)')
    BY <1>1, <1>2, FS_Subset
  <2>2. IsFiniteSet(LettersOf(i)')
    BY <1>2, FS_AddElement, FS_Subset
  <2> QED
    BY <2>1, <2>2, FS_CardinalityType
<1>5. leaseFaults \in Nat
  BY DEF TypeOK, LoopOK
<1>6. Delivered'
  BY <1>1 DEF CostInv, Delivered, Holders
<1>7. HoldersCounted'
  BY <1>1, <1>2, <1>3, <1>4, <1>5 DEF CostInv, HoldersCounted, Open, Stale, XRemove
<1>8. OrphansCounted'
  BY <1>1, <1>2, <1>3, <1>4, <1>5 DEF CostInv, OrphansCounted
<1>9. LettersCounted'
  BY <1>1, <1>2, <1>3, <1>4, <1>5 DEF CostInv, LettersCounted, XRemove
<1>10. \A k \in Ids : Crowded(k)' => Crowded(k)
  BY <1>1 DEF Crowded, XRemove
<1> QED
  BY <1>6, <1>7, <1>8, <1>9, <1>10 DEF CostInv, Crowds

\* A worker is given entries that were up for it: claimed ones, which were counted
\* already, or new ones, which nobody holds.
LEMMA CostGive ==
    ASSUME TypeOK, CostInv, NEW w \in Workers, NEW given \in SUBSET live,
           UNCHANGED <<live, dlqOrig, dlqAdded, leaseFaults>>,
           cursor' \in Nat, cursor <= cursor', \A k \in given : k <= cursor',
           \A k \in Ids : /\ Orphans(k)' \subseteq Orphans(k)
                          /\ k \notin given => Holders(k)' \subseteq Holders(k)
                          /\ Holders(k)' \subseteq Holders(k) \cup {w},
           idle' \subseteq idle,
           \A k \in given : k \notin idle' /\ (k \in idle \/ Holders(k) = {})
    PROVE  CostInv' /\ Crowds
<1>1. \A k \in Ids : LettersOf(k)' = LettersOf(k)
  BY DEF LettersOf
<1>2. \A k \in Ids : /\ IsFiniteSet(Holders(k)) /\ IsFiniteSet(Orphans(k))
                     /\ Cardinality(Holders(k)) \in Nat /\ Cardinality(Orphans(k)) \in Nat
                     /\ Cardinality(LettersOf(k)) \in Nat
  BY Countable DEF TypeOK
<1>3. \A k \in Ids : /\ k \notin given => Cardinality(Holders(k)') <= Cardinality(Holders(k))
                     /\ Cardinality(Holders(k)') <= Cardinality(Holders(k)) + 1
                     /\ Cardinality(Orphans(k)') <= Cardinality(Orphans(k))
  BY <1>2, Shrinks, Gains
<1>4. \A k \in Ids : Cardinality(Holders(k)') \in Nat /\ Cardinality(Orphans(k)') \in Nat
  <2>1. \A k \in Ids : IsFiniteSet(Holders(k)') /\ IsFiniteSet(Orphans(k)')
    BY <1>2, FS_AddElement, FS_Subset
  <2> QED
    BY <2>1, FS_CardinalityType
<1>5. leaseFaults \in Nat /\ cursor \in Nat
  BY DeliveryAssumption DEF TypeOK, LoopOK, GroupOK, StreamOK
<1>6. Delivered'
  <2> SUFFICES ASSUME NEW v \in Workers, NEW k \in Ids, Active(v, k)' PROVE k <= cursor'
    BY DEF Delivered
  <2>1. v \in Holders(k)'
    BY DEF Holders
  <2>2. CASE k \in given
    BY <2>2
  <2>3. CASE k \notin given
    <3>1. k <= cursor
      BY <2>1, <2>3 DEF Holders, CostInv, Delivered
    <3> QED
      BY <1>5, <3>1 DEF Ids
  <2> QED
    BY <2>2, <2>3
<1>7. HoldersCounted'
  <2> SUFFICES ASSUME NEW k \in Ids
               PROVE  Cardinality(Holders(k)') + Stale(k)' <= leaseFaults + Open(k)
    BY DEF HoldersCounted, Open
  <2>1. Cardinality(Holders(k)) + Stale(k) <= leaseFaults + Open(k)
    BY DEF CostInv, HoldersCounted
  <2>2. CASE k \notin given
    BY <1>2, <1>3, <1>4, <1>5, <2>1, <2>2 DEF Stale, Open
  <2>3. CASE k \in given /\ k \in idle
    BY <1>2, <1>3, <1>4, <1>5, <2>1, <2>3 DEF Stale, Open
  <2>4. CASE k \in given /\ Holders(k) = {}
    <3>1. Cardinality(Holders(k)) = 0 /\ k \in live /\ k \notin idle'
      BY <2>4, FS_EmptySet
    <3> QED
      BY <1>3, <1>4, <1>5, <2>4, <3>1 DEF Stale, Open
  <2> QED
    BY <2>2, <2>3, <2>4
<1>8. OrphansCounted'
  BY <1>2, <1>3, <1>4, <1>5 DEF CostInv, OrphansCounted
<1>9. LettersCounted'
  <2> SUFFICES ASSUME NEW k \in Ids
               PROVE  /\ k \in live => LettersOf(k) = {}
                      /\ Cardinality(LettersOf(k)) + Cardinality(Holders(k)') <= leaseFaults + 1
    BY <1>1 DEF LettersCounted
  <2>1. /\ k \in live => LettersOf(k) = {}
        /\ Cardinality(LettersOf(k)) + Cardinality(Holders(k)) <= leaseFaults + 1
    BY DEF CostInv, LettersCounted
  <2>2. CASE k \notin given
    BY <1>2, <1>3, <1>4, <1>5, <2>1, <2>2
  <2>3. CASE k \in given
    <3>1. Cardinality(LettersOf(k)) = 0 /\ k \in live
      BY <2>1, <2>3, FS_EmptySet
    <3>2. Cardinality(Holders(k)') + Stale(k)' <= leaseFaults + Open(k)'
      BY <1>7 DEF HoldersCounted
    <3>3. Stale(k)' \in Nat /\ Open(k)' = 1
      BY <3>1 DEF Stale, Open
    <3> QED
      BY <1>4, <1>5, <2>1, <3>1, <3>2, <3>3
  <2> QED
    BY <2>2, <2>3
<1>10. \A k \in Ids : Crowded(k)' => Crowded(k)
  BY DEF Crowded
<1> QED
  BY <1>6, <1>7, <1>8, <1>9, <1>10 DEF CostInv, Crowds

\* Time runs out on an entry: only orphans hold it, or a lease was lost.
LEMMA CostExpire ==
    ASSUME TypeOK, CostInv, NEW i \in Ids, i \in live, i \notin idle, idle' = idle \cup {i},
           UNCHANGED <<live, task, cursor, dlqOrig, dlqAdded>>,
           \/ leaseFaults' = leaseFaults + 1
           \/ leaseFaults' = leaseFaults /\ \A w \in Workers : ~HoldsLease(w, i)
    PROVE  CostInv' /\ Crowds
<1>1. \A k \in Ids : /\ LettersOf(k)' = LettersOf(k) /\ Holders(k)' = Holders(k)
                     /\ Orphans(k)' = Orphans(k)
  BY DEF LettersOf, Holders, Orphans, HoldsLease, Active
<1>2. \A k \in Ids : /\ Cardinality(Holders(k)) \in Nat /\ Cardinality(Orphans(k)) \in Nat
                     /\ Cardinality(LettersOf(k)) \in Nat
  BY Countable DEF TypeOK
<1>3. leaseFaults \in Nat
  BY DEF TypeOK, LoopOK
<1>4. leaseFaults' = leaseFaults => Cardinality(Holders(i)) <= leaseFaults
  <2> SUFFICES ASSUME leaseFaults' = leaseFaults PROVE Cardinality(Holders(i)) <= leaseFaults
    OBVIOUS
  <2>1. Orphans(i) = Holders(i)
    BY <1>3 DEF Orphans, Holders
  <2> QED
    BY <2>1 DEF CostInv, OrphansCounted
<1>5. Delivered'
  BY DEF CostInv, Delivered, Active
<1>6. HoldersCounted'
  BY <1>1, <1>2, <1>3, <1>4 DEF CostInv, HoldersCounted, Open, Stale
<1>7. OrphansCounted' /\ LettersCounted'
  BY <1>1, <1>2, <1>3 DEF CostInv, OrphansCounted, LettersCounted
<1>8. \A k \in Ids : k # i => (Crowded(k)' => Crowded(k))
  BY <1>1 DEF Crowded
<1>9. leaseFaults' = leaseFaults => (Crowded(i)' => Crowded(i))
  <2> SUFFICES ASSUME leaseFaults' = leaseFaults, Holders(i) # {} PROVE Orphans(i) # {}
    BY <1>1 DEF Crowded
  <2> QED
    BY <1>3 DEF Orphans, Holders
<1> QED
  BY <1>5, <1>6, <1>7, <1>8, <1>9 DEF CostInv, Crowds

\* A heartbeat that dies makes one orphan and is counted.
LEMMA CostOrphan ==
    ASSUME TypeOK, CostInv, NEW w \in Workers, NEW i \in Ids, HeartbeatDies(w, i)
    PROVE  CostInv' /\ Crowds
<1> DEFINE t == [task[w][i] EXCEPT !.beating = FALSE]
<1>0. /\ SetTask(w, i, t) /\ leaseFaults' = leaseFaults + 1
      /\ UNCHANGED <<live, idle, cursor, dlqOrig, dlqAdded>>
  BY DEF HeartbeatDies, streamVars, groupVars, dlqVars
<1>t. t.pc = task[w][i].pc
  BY DEF TypeOK, TasksOK, Task
<1> HIDE DEF t
<1>1. \A k \in Ids : /\ LettersOf(k)' = LettersOf(k) /\ Holders(k)' = Holders(k)
                     /\ Orphans(k)' \subseteq Orphans(k) \cup {w}
  BY <1>0, <1>t, OneHolder DEF TypeOK, LettersOf, Holders, Active
<1>2. \A k \in Ids : /\ Cardinality(Holders(k)) \in Nat /\ Cardinality(Orphans(k)) \in Nat
                     /\ Cardinality(LettersOf(k)) \in Nat
                     /\ Cardinality(Orphans(k)') <= Cardinality(Orphans(k)) + 1
  BY <1>1, Countable, Gains DEF TypeOK
<1>2a. \A k \in Ids : Cardinality(Orphans(k)') \in Nat
  BY <1>1, Countable, FS_AddElement, FS_Subset, FS_CardinalityType DEF TypeOK
<1>3. leaseFaults \in Nat
  BY DEF TypeOK, LoopOK
<1>5. Delivered'
  BY <1>0, <1>1 DEF CostInv, Delivered, Holders
<1>6. HoldersCounted' /\ LettersCounted'
  BY <1>0, <1>1, <1>2, <1>3 DEF CostInv, HoldersCounted, LettersCounted, Open, Stale
<1>7. OrphansCounted'
  BY <1>0, <1>2, <1>2a, <1>3 DEF CostInv, OrphansCounted
<1>8. \A k \in Ids \ {i} : Crowded(k)' => Crowded(k)
  BY <1>0, <1>t, OneHolder DEF Crowded, TypeOK
<1> QED
  BY <1>0, <1>5, <1>6, <1>7, <1>8 DEF CostInv, Crowds

\* XAUTOCLAIM gives a worker entries that were counted as stale.
LEMMA CostClaim ==
    ASSUME BaseInv, CostInv, NEW w \in Workers, ClaimStale(w)
    PROVE  CostInv' /\ Crowds
<1> USE DeliveryAssumption
<1> DEFINE claimed == FirstOf(idle, BatchSize)
<1>t. TypeOK /\ PendingListExact
  BY DEF BaseInv
<1>1. /\ UNCHANGED <<live, cursor, dlqOrig, dlqAdded, leaseFaults>> /\ idle' = idle \ claimed
      /\ \A v \in Workers, i \in Ids : v # w => task'[v][i] = task[v][i]
  BY <1>t DEF ClaimStale, streamVars, dlqVars, faultVars, TypeOK, TasksOK
<1>2. claimed \subseteq idle
  BY FirstOfSubset
<1>3. \A i \in Ids : task'[w][i].pc = IF i \in claimed THEN "claimed" ELSE "idle"
  <2>1. \A i \in Ids : task'[w][i] = IF i \in claimed THEN [NoTask EXCEPT !.pc = "claimed"]
                                     ELSE NoTask
    BY <1>t DEF ClaimStale, TypeOK, TasksOK
  <2> QED
    BY <2>1 DEF NoTask
<1> HIDE DEF claimed
<1>4. \A i \in claimed : i \in Ids /\ i \in idle /\ i \in live /\ i <= cursor
  BY <1>t, <1>2 DEF PendingListExact, TypeOK, GroupOK
<1>5. \A k \in Ids : /\ Orphans(k)' \subseteq Orphans(k)
                     /\ k \notin claimed => Holders(k)' \subseteq Holders(k)
                     /\ Holders(k)' \subseteq Holders(k) \cup {w}
  BY <1>1, <1>3 DEF Orphans, Holders, HoldsLease, Active
<1>6. cursor \in Nat
  BY <1>t DEF TypeOK, GroupOK, StreamOK
<1> QED
  BY <1>t, <1>1, <1>4, <1>5, <1>6, CostGive

\* XREADGROUP gives a worker entries nobody held.
LEMMA CostRead ==
    ASSUME BaseInv, CostInv, NEW w \in Workers, ReadNew(w)
    PROVE  CostInv' /\ Crowds
<1> USE DeliveryAssumption
<1> DEFINE new == FirstOf({i \in live : i > cursor}, BatchSize)
<1>t. TypeOK
  BY DEF BaseInv
<1>1. /\ UNCHANGED <<live, idle, dlqOrig, dlqAdded, leaseFaults>>
      /\ \A v \in Workers, i \in Ids : v # w => task'[v][i] = task[v][i]
  BY <1>t DEF ReadNew, streamVars, dlqVars, faultVars, TypeOK, TasksOK
<1>2. \A i \in new : i \in live /\ i > cursor /\ i \in Ids
  <2>1. new \subseteq {i \in live : i > cursor}
    BY FirstOfSubset
  <2> HIDE DEF new
  <2> QED
    BY <1>t, <2>1 DEF TypeOK, StreamOK, Ids
<1>2a. cursor \in Nat /\ \A i \in Ids : i \in Nat
  BY <1>t DEF TypeOK, GroupOK, StreamOK, Ids
<1>3. cursor' \in Nat /\ cursor <= cursor' /\ \A i \in new : i <= cursor'
  <2>1. IF new = {} THEN cursor' = cursor
        ELSE \E c \in new : (\A i \in new : i <= c) /\ cursor' = c
    BY DEF ReadNew
  <2> HIDE DEF new
  <2> QED
    BY <1>2, <1>2a, <2>1
<1>4. \A i \in Ids : task'[w][i].pc = IF i \in new THEN "start" ELSE "idle"
  <2>1. \A i \in Ids : task'[w][i] = IF i \in new
                                     THEN [NoTask EXCEPT !.pc = "start", !.attempt = 1]
                                     ELSE NoTask
    BY <1>t DEF ReadNew, TypeOK, TasksOK
  <2>2. NoTask.pc = "idle"
    BY DEF NoTask
  <2> HIDE DEF new
  <2> QED
    BY <2>1, <2>2, FreshTask, Zenon
<1> HIDE DEF new
<1>5. \A k \in Ids : /\ Orphans(k)' \subseteq Orphans(k)
                     /\ k \notin new => Holders(k)' \subseteq Holders(k)
                     /\ Holders(k)' \subseteq Holders(k) \cup {w}
  BY <1>1, <1>4 DEF Orphans, Holders, HoldsLease, Active
<1>6. \A k \in new : Holders(k) = {} /\ k \notin idle
  BY <1>2, <1>2a, <1>t DEF CostInv, Delivered, Holders, BaseInv, PendingListExact, TypeOK, GroupOK
<1> QED
  BY <1>t, <1>1, <1>2, <1>3, <1>5, <1>6, CostGive

\* A step of a delivery that is neither its claim nor the loss of its heartbeat.
Renewed(t, old) ==
    t.pc # "idle" /\ (old.beating \/ old.pc \in {"claimed", "start", "ack"}) =>
        t.beating \/ t.pc \in {"claimed", "start", "ack"}

\* Every step of a delivery keeps the lease it has, if it goes on.
LEMMA MovesRenew ==
    ASSUME TypeOK, NEW w \in Workers, NEW i \in Ids,
           \/ ReadAttempt(w, i) \/ Start(w, i) \/ Lookup(w, i) \/ Load(w, i)
           \/ \E result \in GraphOutcomes : RunSucceeds(w, i, result)
           \/ RunFails(w, i) \/ DatabaseFails(w, i) \/ MarkJobFailed(w, i)
    PROVE  /\ Active(w, i)
           /\ \E t : Renewed(t, task[w][i]) /\ SetTask(w, i, t)
<1>0. task[w][i] \in Task
  BY DEF TypeOK, TasksOK
<1>1. ASSUME NEW l, Goto(w, i, l), task[w][i].pc \notin {"idle", "claimed", "start", "ack"}
      PROVE  \E t : Renewed(t, task[w][i]) /\ SetTask(w, i, t)
  <2> DEFINE t == [task[w][i] EXCEPT !.pc = l]
  <2>1. t.beating = task[w][i].beating
    BY <1>0 DEF Task
  <2>2. SetTask(w, i, t)
    BY <1>1 DEF Goto
  <2> HIDE DEF t
  <2>3. Renewed(t, task[w][i])
    BY <1>1, <2>1, Zenon DEF Renewed
  <2> QED
    BY <2>2, <2>3
<1>2. AfterFailure(w, i) /\ task[w][i].pc \notin {"idle", "claimed", "start", "ack"} =>
        \E t : Renewed(t, task[w][i]) /\ SetTask(w, i, t)
  BY <1>1 DEF AfterFailure
<1>3. AfterSuccess(w, i) => \E t : Renewed(t, task[w][i]) /\ SetTask(w, i, t)
  <2> DEFINE t == [task[w][i] EXCEPT !.pc = "ack", !.beating = FALSE]
  <2>1. t.pc = "ack" /\ NoTask.pc = "idle"
    BY <1>0 DEF Task, NoTask
  <2>2. AfterSuccess(w, i) => SetTask(w, i, t) \/ SetTask(w, i, NoTask)
    BY DEF AfterSuccess
  <2> HIDE DEF t
  <2> QED
    BY <2>1, <2>2 DEF Renewed
<1>4. CASE ReadAttempt(w, i)
  <2> DEFINE n == IF times[i] > 0 THEN times[i] ELSE 1
             t == [task[w][i] EXCEPT !.pc = "start", !.attempt = n]
  <2>1. Active(w, i) /\ SetTask(w, i, t)
    BY <1>4 DEF ReadAttempt, Active
  <2>2. t.pc = "start"
    BY <1>0 DEF Task
  <2> HIDE DEF t
  <2> QED
    BY <2>1, <2>2 DEF Renewed
<1>5. CASE Start(w, i)
  <2> DEFINE t == [task[w][i] EXCEPT !.pc = "lookup", !.beating = TRUE]
  <2>1. Active(w, i) /\ SetTask(w, i, t)
    BY <1>5 DEF Start, MayStart, Active
  <2>2. t.beating = TRUE
    BY <1>0 DEF Task
  <2> HIDE DEF t
  <2> QED
    BY <2>1, <2>2 DEF Renewed
<1>6. CASE Lookup(w, i)
  BY <1>1, <1>2, <1>3, <1>6 DEF Lookup, Active
<1>7. CASE Load(w, i)
  <2> DEFINE s == IF IsReplay(i) /\ run[JobOf(i)] = "failed" THEN "retrying"
                  ELSE run[JobOf(i)]
             t == [task[w][i] EXCEPT !.pc = "run", !.loaded = s]
  <2>1. Active(w, i) /\ SetTask(w, i, t) /\ task[w][i].pc = "load"
    BY <1>7 DEF Load, Active
  <2>2. t.beating = task[w][i].beating
    BY <1>0 DEF Task
  <2> HIDE DEF t
  <2>3. Renewed(t, task[w][i])
    BY <2>1, <2>2, Zenon DEF Renewed
  <2> QED
    BY <2>1, <2>3
<1>8. ASSUME NEW result \in GraphOutcomes, RunSucceeds(w, i, result)
      PROVE  Active(w, i) /\ \E t : Renewed(t, task[w][i]) /\ SetTask(w, i, t)
  BY <1>2, <1>3, <1>8 DEF RunSucceeds, Active
<1>9. CASE RunFails(w, i) \/ DatabaseFails(w, i)
  BY <1>2, <1>9 DEF RunFails, DatabaseFails, Active
<1>10. CASE MarkJobFailed(w, i)
  BY <1>1, <1>10 DEF MarkJobFailed, Active
<1> QED
  BY <1>4, <1>5, <1>6, <1>7, <1>8, <1>9, <1>10

\* Every step keeps the count.
LEMMA CostNext ==
    ASSUME BaseInv, BaseInv', LettersNamed, CostInv, [Next]_vars
    PROVE  CostInv' /\ Crowds
<1> USE DeliveryAssumption DEF streamVars, groupVars, dlqVars, faultVars
<1>t. TypeOK /\ StreamOK /\ DlqOK /\ TasksOK /\ PendingListExact
  BY DEF BaseInv, TypeOK
<1>s. ASSUME UNCHANGED <<live, cursor, dlqOrig, dlqAdded, leaseFaults>>, idle' \subseteq idle,
             \A k \in Ids : Holders(k)' \subseteq Holders(k) /\ Orphans(k)' \subseteq Orphans(k)
      PROVE  CostInv' /\ Crowds
  BY <1>t, <1>s, CostQuiet
<1>k. ASSUME UNCHANGED task
      PROVE  \A k \in Ids : Holders(k)' \subseteq Holders(k) /\ Orphans(k)' \subseteq Orphans(k)
  BY <1>k DEF Holders, Orphans, HoldsLease, Active
<1>a. ASSUME NEW e, XAdd(e),
             UNCHANGED <<task, cursor, idle, dlqOrig, dlqAdded, leaseFaults>>
      PROVE  CostInv' /\ Crowds
  <2>1. live' = live \cup {added + 1} /\ LettersOf(added + 1) = {}
    BY <1>a, <1>t DEF XAdd, LettersOf, LettersNamed, StreamOK
  <2> QED
    BY <1>t, <1>k, <1>a, <2>1, CostQuiet
<1>1. CASE Producer
  <2>1. ASSUME NEW j \in Jobs, DedupeExpires(j) PROVE CostInv' /\ Crowds
    BY <1>s, <1>k, <2>1 DEF DedupeExpires
  <2> QED
    BY <1>1, <1>a, <2>1 DEF Producer, Enqueue, ForeignAdd
<1>2. CASE Operator
  <2>1. ASSUME NEW c, Purge(c) PROVE CostInv' /\ Crowds
    BY <1>s, <1>k, <2>1 DEF Purge
  <2> QED
    BY <1>2, <1>a, <2>1 DEF Operator, OperatorReplays, OperatorPurges, Replay
<1>3. ASSUME NEW w \in Workers, Crash(w) PROVE CostInv' /\ Crowds
  <2>1. /\ UNCHANGED <<live, cursor, idle, dlqOrig, dlqAdded, leaseFaults>>
        /\ \A v \in Workers, k \in Ids : task'[v][k] = task[v][k] \/ task'[v][k] = NoTask
    BY <1>3, <1>t DEF Crash, TasksOK
  <2>2. NoTask.pc = "idle"
    BY DEF NoTask
  <2>3. \A k \in Ids : Holders(k)' \subseteq Holders(k) /\ Orphans(k)' \subseteq Orphans(k)
    BY <2>1, <2>2 DEF Holders, Orphans, HoldsLease, Active
  <2> QED
    BY <1>s, <2>1, <2>3
<1>4. ASSUME NEW w \in Workers, NEW i \in Ids, NEW t, Active(w, i), SetTask(w, i, t),
             Renewed(t, task[w][i]), UNCHANGED <<live, cursor, idle, dlqOrig, dlqAdded, leaseFaults>>
      PROVE  CostInv' /\ Crowds
  <2>1. w \in Holders(i) /\ (w \in Orphans(i) <=> ~HoldsLease(w, i))
    BY <1>4 DEF Holders, Orphans
  <2>2. w \in Orphans(i)' => w \in Orphans(i)
    BY <1>4, <1>t, <2>1, OneHolder DEF Renewed, HoldsLease
  <2>3. \A k \in Ids : Holders(k)' \subseteq Holders(k) /\ Orphans(k)' \subseteq Orphans(k)
    BY <1>4, <1>t, <2>1, <2>2, OneHolder
  <2> QED
    BY <1>s, <1>4, <2>3
<1>5. ASSUME NEW w \in Workers, NEW i \in Ids, Process(w, i) PROVE CostInv' /\ Crowds
  <2>1. CASE \/ ReadAttempt(w, i) \/ Start(w, i) \/ Lookup(w, i) \/ Load(w, i)
             \/ \E result \in GraphOutcomes : RunSucceeds(w, i, result)
             \/ RunFails(w, i) \/ DatabaseFails(w, i) \/ MarkJobFailed(w, i)
    <3>1. UNCHANGED <<live, cursor, idle, dlqOrig, dlqAdded, leaseFaults>>
      BY <2>1 DEF ReadAttempt, Start, Lookup, Load, RunSucceeds, RunFails, DatabaseFails,
                  MarkJobFailed
    <3> QED
      BY <1>t, <1>4, <2>1, <3>1, MovesRenew
  <2>2. CASE RecordFailure(w, i)
    <3>1. /\ Active(w, i) /\ SetTask(w, i, NoTask)
          /\ UNCHANGED <<live, cursor, idle, dlqOrig, dlqAdded, leaseFaults>>
      BY <2>2 DEF RecordFailure, Active
    <3> QED
      BY <1>4, <3>1 DEF Renewed, NoTask
  <2>3. CASE Acknowledge(w, i)
    <3>1. /\ Active(w, i) /\ SetTask(w, i, NoTask) /\ XRemove(i)
          /\ UNCHANGED <<cursor, leaseFaults, dlqOrig, dlqAdded>>
      BY <2>3 DEF Acknowledge, Active
    <3>2. \A k \in Ids : LettersOf(k)' = LettersOf(k)
      BY <3>1 DEF LettersOf
    <3>3. \E d : LettersOf(i)' \subseteq LettersOf(i) \cup {d}
      BY <3>2
    <3> QED
      BY <1>t, <3>1, <3>2, <3>3, CostRemove DEF BaseInv, TypeOK
  <2>4. CASE StartMalformed(w, i) \/ Bury(w, i)
    <3>1. /\ Active(w, i) /\ SetTask(w, i, NoTask) /\ XRemove(i) /\ DeadLetter(i)
          /\ UNCHANGED <<cursor, leaseFaults>>
      BY <2>4 DEF StartMalformed, MayStart, Bury, DeadLetter, Active
    <3>2. /\ dlqAdded \in Nat /\ dlqAdded' = dlqAdded + 1 /\ dlqOrig'[dlqAdded + 1] = i
          /\ \A d \in 1..dlqAdded : dlqOrig'[d] = dlqOrig[d]
      BY <1>t, <3>1, BuryLetter
    <3>3. \A k \in Ids : k # i => LettersOf(k)' = LettersOf(k)
      BY <3>2 DEF LettersOf
    <3>4. LettersOf(i)' \subseteq LettersOf(i) \cup {dlqAdded + 1}
      BY <3>2 DEF LettersOf
    <3>5. DlqOK'
      BY DEF BaseInv, TypeOK
    <3> QED
      BY <1>t, <3>1, <3>3, <3>4, <3>5, CostRemove
  <2> QED
    BY <1>5, <2>1, <2>2, <2>3, <2>4 DEF Process
<1>6. ASSUME NEW w \in Workers, NEW i \in Ids, Heartbeat(w, i) PROVE CostInv' /\ Crowds
  BY <1>s, <1>k, <1>6 DEF Heartbeat
<1>7. ASSUME NEW w \in Workers, NEW i \in Ids, Failure(w, i) PROVE CostInv' /\ Crowds
  <2>1. CASE LeaseLapses(w, i)
    <3>1. /\ times[i] > 0 /\ i \notin idle /\ idle' = idle \cup {i}
          /\ leaseFaults' = leaseFaults + 1 /\ UNCHANGED <<live, task, cursor, dlqOrig, dlqAdded>>
      BY <2>1, Zenon DEF LeaseLapses
    <3>2. i \in live
      BY <1>t, <3>1 DEF PendingListExact
    <3> QED
      BY <1>t, <3>1, <3>2, CostExpire
  <2>2. CASE BoundaryFails(w, i)
    <3>1. /\ Active(w, i) /\ SetTask(w, i, NoTask)
          /\ UNCHANGED <<live, cursor, idle, dlqOrig, dlqAdded, leaseFaults>>
      BY <2>2 DEF BoundaryFails, MayStart, Active
    <3> QED
      BY <1>4, <3>1 DEF Renewed, NoTask
  <2> QED
    BY <1>7, <1>t, <2>1, <2>2, CostOrphan DEF Failure
<1>8. ASSUME NEW i \in Ids, LeaseExpires(i) PROVE CostInv' /\ Crowds
  <2>1. /\ times[i] > 0 /\ i \notin idle /\ idle' = idle \cup {i}
        /\ \A w \in Workers : ~HoldsLease(w, i)
        /\ UNCHANGED <<live, task, cursor, dlqOrig, dlqAdded, leaseFaults>>
    BY <1>8 DEF LeaseExpires
  <2>2. i \in live
    BY <1>t, <2>1 DEF PendingListExact
  <2> QED
    BY <1>t, <2>1, <2>2, CostExpire
<1>9. CASE UNCHANGED vars
  BY <1>s, <1>k, <1>9 DEF vars
<1> QED
  BY <1>1, <1>2, <1>3, <1>5, <1>6, <1>7, <1>8, <1>9, CostClaim, CostRead DEF Next, Loop

\* A fresh stream has cost nothing, and so no lost lease costs more than its share.
LEMMA CostInvariant == Spec => [](TypeOK /\ CostInv)
<1> DEFINE Known == BaseInv /\ LossInv /\ ReplayInv /\ LettersNamed
<1>1. Init => CostInv
  <2> SUFFICES ASSUME Init PROVE CostInv
    OBVIOUS
  <2>0. NoTask.pc = "idle"
    BY DEF NoTask
  <2>0a. \A w \in Workers, i \in Ids : task[w][i] = NoTask
    BY DEF Init
  <2>0b. dlqAdded = 0
    BY DEF Init
  <2>1. \A i \in Ids : Holders(i) = {} /\ Orphans(i) = {} /\ LettersOf(i) = {}
    BY <2>0, <2>0a, <2>0b DEF Holders, Orphans, LettersOf, Active
  <2>2. Cardinality({}) = 0
    BY FS_EmptySet
  <2>3. leaseFaults = 0 /\ idle = {} /\ live = {}
    BY DEF Init
  <2>4. Delivered
    BY <2>1 DEF Delivered, Holders
  <2>5. \A i \in Ids : /\ Cardinality(Holders(i)) = 0 /\ Cardinality(Orphans(i)) = 0
                       /\ Cardinality(LettersOf(i)) = 0
    BY <2>1, <2>2
  <2>6. \A i \in Ids : Stale(i) = 0 /\ Open(i) = 0
    BY <2>3 DEF Stale, Open
  <2>7. HoldersCounted /\ OrphansCounted /\ LettersCounted
    BY <2>1, <2>3, <2>5, <2>6 DEF HoldersCounted, OrphansCounted, LettersCounted
  <2> QED
    BY <2>4, <2>7 DEF CostInv
<1>2. Known /\ Known' /\ CostInv /\ [Next]_vars => CostInv'
  BY CostNext
<1>3. Spec => []Known
  BY LedgerInvariant
<1>4. Known => TypeOK
  BY DEF BaseInv
<1> HIDE DEF Known
<1> QED
  BY <1>1, <1>2, <1>3, <1>4, PTL DEF Spec

-----------------------------------------------------------------------------
(* A lost lease wedges one replay at most *)

\* A replay hash is empty until its dead letter exists, names only entries that the
\* request it is filed under has added, and shows no replay without naming its entry.
HashesSound ==
    \A d \in DlqIds, r \in Requests :
        /\ d > dlqAdded => replayState[d][r] = "none"
        /\ replayEntry[d][r] # 0 =>
             /\ replayEntry[d][r] \in 1..added
             /\ entry[replayEntry[d][r]].dlq = d
             /\ entry[replayEntry[d][r]].req = r
        /\ d \in dlqLive /\ replayState[d][r] \in NonterminalReplay => replayEntry[d][r] # 0

\* An entry that some replay shown as in progress waits for.
Shown(i) ==
    \E d \in dlqLive, r \in Requests :
        replayEntry[d][r] = i /\ replayState[d][r] \in NonterminalReplay

\* What a step does to the hashes: an entry that is gone is shown only if it was so
\* before or a worker still had it.
HashStep ==
    /\ HashesSound'
    /\ \A k \in Ids : Shown(k)' /\ k \notin live' =>
         k \notin live /\ (Shown(k) \/ Holders(k) # {})

\* Steps that do not touch replay hashes keep them sound, those that publish an
\* entry included.
LEMMA HashSame ==
    ASSUME HashesSound, StreamOK, live \subseteq live', added' \in Nat, added <= added',
           \A i \in 1..added : entry'[i] = entry[i],
           UNCHANGED <<dlqAdded, dlqLive, replayEntry, replayState>>
    PROVE  HashStep
<1>1. HashesSound'
  <2> SUFFICES ASSUME NEW d \in DlqIds, NEW r \in Requests
               PROVE  /\ d > dlqAdded => replayState[d][r] = "none"
                      /\ replayEntry[d][r] # 0 =>
                           /\ replayEntry[d][r] \in 1..added'
                           /\ entry'[replayEntry[d][r]].dlq = d
                           /\ entry'[replayEntry[d][r]].req = r
                      /\ d \in dlqLive /\ replayState[d][r] \in NonterminalReplay =>
                           replayEntry[d][r] # 0
    BY DEF HashesSound
  <2>1. 1..added \subseteq 1..added'
    BY DeliveryAssumption DEF StreamOK
  <2> QED
    BY <2>1 DEF HashesSound
<1>2. \A k \in Ids : Shown(k)' <=> Shown(k)
  BY DEF Shown
<1> QED
  BY <1>1, <1>2 DEF HashStep

\* XADD is such a step.
LEMMA HashAdd ==
    ASSUME HashesSound, StreamOK, NEW e, XAdd(e),
           UNCHANGED <<dlqAdded, dlqLive, replayEntry, replayState>>
    PROVE  HashStep
<1>1. /\ live \subseteq live' /\ added' \in Nat /\ added <= added'
      /\ \A i \in 1..added : entry'[i] = entry[i]
  BY DeliveryAssumption DEF XAdd, StreamOK, Ids
<1> QED
  BY <1>1, HashSame

\* What a delivery reports to the hash of its replay.
LEMMA ReportedState ==
    ASSUME StreamOK, ReplayOK, ReplayInv, NEW i \in 1..added, NEW s, SetReplayState(i, s),
           NEW d \in DlqIds, NEW r \in Requests,
           replayState'[d][r] # replayState[d][r] \/ (IsReplay(i) /\ entry[i].dlq = d /\ entry[i].req = r)
    PROVE  /\ IsReplay(i) /\ entry[i].dlq = d /\ entry[i].req = r
           /\ replayState'[d][r] = s
           /\ d \in 1..dlqAdded
           /\ d \in dlqLive => replayEntry[d][r] = i
<1>1. i \in Ids
  BY DeliveryAssumption DEF StreamOK, Ids
<1>2. CASE IsReplay(i)
  <2>1. entry[i].dlq \in 1..dlqAdded /\ entry[i].req \in Requests
    BY <1>1, <1>2 DEF ReplayInv, ReplayLinked, IsReplay, StreamOK, Entry
  <2>2. entry[i].dlq \in DlqIds
    BY <1>1, <1>2, <2>1, DeliveryAssumption DEF StreamOK, Entry, DlqIds
  <2>3. entry[i].dlq = d /\ entry[i].req = r
    BY <1>2, <2>1, <2>2 DEF SetReplayState, ReplayOK
  <2>4. replayState'[d][r] = s
    BY <1>2, <2>3 DEF SetReplayState, ReplayOK
  <2> QED
    BY <1>2, <2>1, <2>3, <2>4 DEF ReplayInv, ReplayLinked
<1>3. CASE ~IsReplay(i)
  BY <1>3 DEF SetReplayState
<1> QED
  BY <1>2, <1>3

\* A delivery reports progress of the entry it has.
LEMMA HashProgress ==
    ASSUME HashesSound, StreamOK, ReplayOK, DlqOK, ReplayInv, NEW i \in 1..added, NEW s,
           Holders(i) # {}, SetReplayState(i, s),
           UNCHANGED <<entry, added, live, dlqAdded, dlqLive, replayEntry>>
    PROVE  HashStep
<1>0. dlqLive \subseteq DlqIds /\ i # 0
  BY DeliveryAssumption DEF DlqOK, DlqIds, StreamOK
<1>1. \A d \in DlqIds, r \in Requests : replayState'[d][r] # replayState[d][r] =>
        d \in 1..dlqAdded /\ (d \in dlqLive => replayEntry[d][r] = i)
  BY ReportedState
<1>2. HashesSound'
  <2> SUFFICES ASSUME NEW d \in DlqIds, NEW r \in Requests
               PROVE  /\ d > dlqAdded => replayState'[d][r] = "none"
                      /\ d \in dlqLive /\ replayState'[d][r] \in NonterminalReplay =>
                           replayEntry[d][r] # 0
    BY DEF HashesSound
  <2>1. d > dlqAdded => d \notin 1..dlqAdded
    BY DeliveryAssumption DEF DlqOK, DlqIds
  <2> QED
    BY <1>0, <1>1, <2>1 DEF HashesSound
<1>3. \A k \in Ids : Shown(k)' => Shown(k) \/ k = i
  BY <1>0, <1>1 DEF Shown
<1> QED
  BY <1>2, <1>3 DEF HashStep

\* A delivery that takes its entry out of the stream tells the hash so in the
\* same MULTI block.
LEMMA HashFinish ==
    ASSUME HashesSound, StreamOK, ReplayOK, DlqOK, ReplayInv, NEW i \in 1..added, NEW s,
           s \notin NonterminalReplay, SetReplayState(i, s), live' = live \ {i},
           UNCHANGED <<entry, added, replayEntry>>,
           \/ UNCHANGED <<dlqAdded, dlqLive>>
           \/ /\ dlqAdded < MaxDeadLetters
              /\ dlqAdded' = dlqAdded + 1
              /\ dlqLive' = dlqLive \cup {dlqAdded + 1}
    PROVE  HashStep
<1> USE DeliveryAssumption
<1>0. dlqAdded \in Nat /\ dlqAdded' \in Nat /\ dlqAdded <= dlqAdded'
  BY DEF DlqOK
<1>1. \A d \in DlqIds, r \in Requests : replayState'[d][r] # replayState[d][r] =>
        d \in 1..dlqAdded /\ replayState'[d][r] = s
  BY ReportedState
<1>2. ASSUME NEW d \in dlqLive', NEW r \in Requests, replayState'[d][r] \in NonterminalReplay
      PROVE  /\ d \in DlqIds /\ d \in dlqLive /\ replayState[d][r] \in NonterminalReplay
             /\ replayEntry[d][r] # i
  <2>1. d \in DlqIds
    <3>1. dlqLive \subseteq DlqIds
      BY DEF DlqOK, DlqIds
    <3>2. dlqAdded < MaxDeadLetters => dlqAdded + 1 \in DlqIds
      BY <1>0 DEF DlqIds
    <3> QED
      BY <3>1, <3>2
  <2>2. replayState'[d][r] = replayState[d][r]
    BY <1>1, <1>2, <2>1
  <2>3. d \in dlqLive
    <3>1. CASE d = dlqAdded + 1
      <4>1. replayState[d][r] = "none"
        BY <1>0, <2>1, <3>1 DEF HashesSound
      <4> QED
        BY <1>2, <2>2, <4>1 DEF NonterminalReplay
    <3> QED
      BY <3>1
  <2>4. replayEntry[d][r] # i
    <3> SUFFICES ASSUME replayEntry[d][r] = i PROVE FALSE
      OBVIOUS
    <3>1. i # 0
      BY DEF StreamOK
    <3>2. entry[i].dlq = d /\ entry[i].req = r
      BY <2>1, <3>1 DEF HashesSound
    <3>3. IsReplay(i)
      BY <3>2 DEF IsReplay
    <3> QED
      BY <1>2, <2>1, <3>2, <3>3, ReportedState
  <2> QED
    BY <1>2, <2>1, <2>2, <2>3, <2>4
<1>3. HashesSound'
  <2> SUFFICES ASSUME NEW d \in DlqIds, NEW r \in Requests
               PROVE  /\ d > dlqAdded' => replayState'[d][r] = "none"
                      /\ d \in dlqLive' /\ replayState'[d][r] \in NonterminalReplay =>
                           replayEntry[d][r] # 0
    BY DEF HashesSound
  <2>1. d > dlqAdded' => d > dlqAdded /\ d \notin 1..dlqAdded
    BY <1>0 DEF DlqIds
  <2> QED
    BY <1>1, <1>2, <2>1 DEF HashesSound
<1>4. \A k \in Ids : Shown(k)' => Shown(k) /\ k # i
  BY <1>2 DEF Shown
<1> QED
  BY <1>3, <1>4 DEF HashStep

\* Every step keeps the hashes sound.
LEMMA HashNext ==
    ASSUME BaseInv, ReplayInv, HashesSound, [Next]_vars
    PROVE  HashStep
<1> USE DeliveryAssumption DEF streamVars, dlqVars, replayVars
<1>t. StreamOK /\ DlqOK /\ ReplayOK /\ added \in Nat
  BY DEF BaseInv, TypeOK, StreamOK
<1>a. ASSUME NEW w \in Workers, NEW i \in Ids, task[w][i].pc # "idle"
      PROVE  Holders(i) # {} /\ i \in 1..added
  BY <1>a, ActivePublished DEF Holders, Active
<1>1. CASE UNCHANGED <<entry, added, live, dlqAdded, dlqLive, replayEntry, replayState>>
  BY <1>t, <1>1, HashSame
<1>2. CASE Producer
  BY <1>t, <1>1, <1>2, HashAdd DEF Producer, Enqueue, DedupeExpires, ForeignAdd
<1>3. ASSUME NEW w \in Workers, Loop(w) \/ Crash(w) PROVE HashStep
  BY <1>1, <1>3 DEF Loop, ClaimStale, ReadNew, Crash
<1>4. ASSUME NEW w \in Workers, NEW i \in Ids, Process(w, i) PROVE HashStep
  <2>1. CASE \/ ReadAttempt(w, i) \/ Lookup(w, i) \/ Load(w, i)
             \/ \E result \in GraphOutcomes : RunSucceeds(w, i, result)
             \/ RunFails(w, i) \/ DatabaseFails(w, i) \/ MarkJobFailed(w, i)
    BY <1>1, <2>1 DEF ReadAttempt, Lookup, Load, RunSucceeds, RunFails, DatabaseFails,
                      MarkJobFailed
  <2>2. CASE Start(w, i) \/ RecordFailure(w, i)
    <3>1. Holders(i) # {} /\ i \in 1..added
      BY <1>a, <2>2 DEF Start, MayStart, RecordFailure
    <3>2. /\ SetReplayState(i, "processing") \/ SetReplayState(i, "retrying")
          /\ UNCHANGED <<entry, added, live, dlqAdded, dlqLive, replayEntry>>
      BY <2>2 DEF Start, RecordFailure
    <3> QED
      BY <1>t, <3>1, <3>2, HashProgress
  <2>3. CASE StartMalformed(w, i) \/ Bury(w, i)
    <3>1. i \in 1..added /\ DeadLetter(i) /\ UNCHANGED <<entry, added, replayEntry>>
      BY <1>a, <2>3 DEF StartMalformed, MayStart, Bury
    <3>2. "dead_lettered" \notin NonterminalReplay
      BY DEF NonterminalReplay
    <3> QED
      BY <1>t, <3>1, <3>2, HashFinish DEF DeadLetter, XRemove
  <2>4. CASE Acknowledge(w, i)
    <3>1. /\ i \in 1..added /\ SetReplayState(i, "acknowledged") /\ live' = live \ {i}
          /\ UNCHANGED <<entry, added, replayEntry, dlqAdded, dlqLive>>
      BY <1>a, <2>4 DEF Acknowledge, XRemove
    <3>2. "acknowledged" \notin NonterminalReplay
      BY DEF NonterminalReplay
    <3> QED
      BY <1>t, <3>1, <3>2, HashFinish
  <2> QED
    BY <1>4, <2>1, <2>2, <2>3, <2>4 DEF Process
<1>5. ASSUME NEW w \in Workers, NEW i \in Ids, Heartbeat(w, i) \/ Failure(w, i)
      PROVE  HashStep
  BY <1>1, <1>5 DEF Heartbeat, Failure, HeartbeatDies, LeaseLapses, BoundaryFails
<1>6. ASSUME NEW i \in Ids, LeaseExpires(i) PROVE HashStep
  BY <1>1, <1>6 DEF LeaseExpires
<1>7. ASSUME NEW d \in DlqIds, NEW r \in Requests, Replay(d, r) PROVE HashStep
  <2> DEFINE e == [job |-> JobOf(dlqOrig[d]), dlq |-> d, req |-> r]
  <2>1. /\ added' = added + 1 /\ live' = live \cup {added + 1}
        /\ entry'[added + 1] = e /\ \A i \in 1..added : entry'[i] = entry[i]
        /\ d \in dlqLive /\ UNCHANGED <<dlqAdded, dlqLive>>
    BY <1>t, <1>7 DEF Replay, StreamOK, XAdd, Ids
  <2>2. e.dlq = d /\ e.req = r
    OBVIOUS
  <2> HIDE DEF e
  <2>3. \A c \in DlqIds, q \in Requests :
          /\ c = d /\ q = r => replayEntry'[c][q] = added + 1 /\ replayState'[c][q] = "enqueued"
          /\ c # d \/ q # r => /\ replayEntry'[c][q] = replayEntry[c][q]
                               /\ replayState'[c][q] = replayState[c][q]
    BY <1>t, <1>7 DEF Replay, ReplayOK
  <2>4. ~(d > dlqAdded)
    <3>1. dlqLive \subseteq 1..dlqAdded /\ dlqAdded \in 0..MaxDeadLetters
      BY <1>t DEF DlqOK
    <3>2. d \in 1..dlqAdded
      BY <2>1, <3>1
    <3> QED
      BY <3>1, <3>2
  <2>5. HashesSound'
    <3> SUFFICES ASSUME NEW c \in DlqIds, NEW q \in Requests
                 PROVE  /\ c > dlqAdded => replayState'[c][q] = "none"
                        /\ replayEntry'[c][q] # 0 =>
                             /\ replayEntry'[c][q] \in 1..(added + 1)
                             /\ entry'[replayEntry'[c][q]].dlq = c
                             /\ entry'[replayEntry'[c][q]].req = q
                        /\ c \in dlqLive /\ replayState'[c][q] \in NonterminalReplay =>
                             replayEntry'[c][q] # 0
      BY <2>1 DEF HashesSound
    <3>1. CASE c = d /\ q = r
      BY <1>t, <2>1, <2>2, <2>3, <2>4, <3>1
    <3>2. CASE c # d \/ q # r
      <4>1. \A k \in 1..added : k \in 1..(added + 1)
        BY <1>t
      <4> QED
        BY <2>1, <2>3, <3>2, <4>1 DEF HashesSound
    <3> QED
      BY <3>1, <3>2
  <2>6. \A k \in Ids : Shown(k)' => Shown(k) \/ k = added + 1
    <3>1. dlqLive \subseteq DlqIds
      BY <1>t DEF DlqOK, DlqIds
    <3> QED
      BY <2>1, <2>3, <3>1 DEF Shown
  <2> QED
    BY <2>1, <2>5, <2>6 DEF HashStep
<1>8. ASSUME NEW cutoff \in 2..(MaxDeadLetters + 1), Purge(cutoff) PROVE HashStep
  <2> DEFINE purged == {d \in dlqLive : d < cutoff}
  <2>1. /\ dlqLive' = dlqLive \ purged /\ UNCHANGED <<entry, added, live, dlqAdded>>
        /\ \A d \in DlqIds, r \in Requests :
              /\ replayEntry'[d][r] = IF d \in purged THEN 0 ELSE replayEntry[d][r]
              /\ replayState'[d][r] = IF d \in purged THEN "none" ELSE replayState[d][r]
    BY <1>8 DEF Purge
  <2> HIDE DEF purged
  <2>2. dlqLive \subseteq DlqIds
    BY <1>t DEF DlqOK, DlqIds
  <2>3. HashesSound'
    BY <2>1 DEF HashesSound
  <2>4. \A k \in Ids : Shown(k)' => Shown(k)
    BY <2>1, <2>2 DEF Shown
  <2> QED
    BY <2>1, <2>3, <2>4 DEF HashStep
<1>9. CASE UNCHANGED vars
  BY <1>1, <1>9 DEF vars
<1> QED
  BY <1>2, <1>3, <1>4, <1>5, <1>6, <1>7, <1>8, <1>9
     DEF Next, Operator, OperatorReplays, OperatorPurges

\* The entries a lost lease did harm to: somebody is left with one, or a late report
\* of somebody shows one that is gone.
Harmed == {i \in Ids : Crowded(i) \/ (Shown(i) /\ i \notin live)}

HarmInv == HashesSound /\ Cardinality(Harmed) <= leaseFaults

\* Every lost lease harms one entry.
LEMMA HarmNext ==
    ASSUME BaseInv, BaseInv', LettersNamed, ReplayInv, CostInv, HarmInv, [Next]_vars
    PROVE  HarmInv'
<1>1. HashStep /\ Crowds
  BY HashNext, CostNext DEF HarmInv
<1>2. \A k \in Ids : Shown(k)' /\ k \notin live' => k \in Harmed
  BY <1>1 DEF HashStep, Harmed, Crowded
<1>3. IsFiniteSet(Harmed) /\ IsFiniteSet(Harmed')
  <2>1. IsFiniteSet(Ids)
    BY FS_Interval, DeliveryAssumption DEF Ids
  <2>2. Harmed \subseteq Ids /\ Harmed' \subseteq Ids
    BY DEF Harmed
  <2> QED
    BY <2>1, <2>2, FS_Subset
<1>4. /\ leaseFaults \in Nat /\ Cardinality(Harmed) \in Nat /\ Cardinality(Harmed') \in Nat
      /\ Cardinality(Harmed) <= leaseFaults
  BY <1>3, FS_CardinalityType DEF BaseInv, TypeOK, LoopOK, HarmInv
<1>5. CASE leaseFaults' = leaseFaults /\ \A k \in Ids : Crowded(k)' => Crowded(k)
  <2>1. Harmed' \subseteq Harmed
    BY <1>2, <1>5 DEF Harmed
  <2>2. Cardinality(Harmed') <= Cardinality(Harmed)
    BY <1>3, <2>1, Shrinks
  <2> QED
    BY <1>1, <1>4, <1>5, <2>2 DEF HarmInv, HashStep
<1>6. ASSUME NEW i \in Ids, leaseFaults' = leaseFaults + 1,
             \A k \in Ids \ {i} : Crowded(k)' => Crowded(k)
      PROVE  HarmInv'
  <2>1. Harmed' \subseteq Harmed \cup {i}
    BY <1>2, <1>6 DEF Harmed
  <2>2. Cardinality(Harmed') <= Cardinality(Harmed) + 1
    BY <1>3, <2>1, Gains
  <2> QED
    BY <1>1, <1>4, <1>6, <2>2 DEF HarmInv, HashStep
<1> QED
  BY <1>1, <1>5, <1>6 DEF Crowds

\* The replays that are wedged are those of different harmed entries.
LEMMA HarmWedges ==
    ASSUME TypeOK, HarmInv
    PROVE  ReplayNotWedged
<1> DEFINE W == {x \in dlqLive \X Requests : Wedged(x[1], x[2])}
           f == [x \in W |-> replayEntry[x[1]][x[2]]]
<1>1. \A x \in W : /\ x = <<x[1], x[2]>> /\ x[1] \in DlqIds /\ x[1] \in dlqLive /\ x[2] \in Requests
                   /\ Wedged(x[1], x[2])
  <2>1. dlqLive \subseteq DlqIds
    BY DeliveryAssumption DEF TypeOK, DlqOK, DlqIds
  <2>2. \A x \in dlqLive \X Requests : x = <<x[1], x[2]>> /\ x[1] \in dlqLive /\ x[2] \in Requests
    OBVIOUS
  <2>3. \A x \in W : x \in dlqLive \X Requests /\ Wedged(x[1], x[2])
    OBVIOUS
  <2> HIDE DEF W
  <2> QED
    BY <2>1, <2>2, <2>3
<1> HIDE DEF W
<1>2. \A x \in W : LET i == replayEntry[x[1]][x[2]] IN
        /\ i \in Harmed /\ entry[i].dlq = x[1] /\ entry[i].req = x[2]
  <2> SUFFICES ASSUME NEW x \in W
               PROVE  LET i == replayEntry[x[1]][x[2]] IN
                        /\ i \in Harmed /\ entry[i].dlq = x[1] /\ entry[i].req = x[2]
    OBVIOUS
  <2> DEFINE i == replayEntry[x[1]][x[2]]
  <2>1. /\ replayState[x[1]][x[2]] \in NonterminalReplay /\ i \notin live
    BY <1>1 DEF Wedged
  <2>2. /\ i \in 1..added /\ entry[i].dlq = x[1] /\ entry[i].req = x[2]
    BY <1>1, <2>1 DEF HarmInv, HashesSound
  <2>3. i \in Ids
    BY <2>2, DeliveryAssumption DEF TypeOK, StreamOK, Ids
  <2>4. Shown(i)
    BY <1>1, <2>1 DEF Shown
  <2> QED
    BY <2>1, <2>2, <2>3, <2>4 DEF Harmed
<1>3. f \in [W -> Harmed]
  BY <1>2
<1>4. ASSUME NEW x \in W, NEW y \in W, f[x] = f[y] PROVE x = y
  <2>1. x[1] = y[1] /\ x[2] = y[2]
    BY <1>2, <1>4
  <2> QED
    BY <1>1, <2>1
<1>5. f \in Injection(W, Harmed)
  BY <1>3, <1>4 DEF Injection, IsInjective
<1>6. IsFiniteSet(Harmed)
  <2>1. IsFiniteSet(Ids) /\ Harmed \subseteq Ids
    BY FS_Interval, DeliveryAssumption DEF Ids, Harmed
  <2> QED
    BY <2>1, FS_Subset
<1> HIDE DEF f
<1>7. /\ Cardinality(W) <= Cardinality(Harmed) /\ Cardinality(Harmed) \in Nat
      /\ Cardinality(W) \in Nat
  BY <1>5, <1>6, FS_Injection, FS_CardinalityType
<1>8. Cardinality(W) <= leaseFaults
  BY <1>7 DEF HarmInv, TypeOK, LoopOK
<1> QED
  BY <1>8 DEF ReplayNotWedged, W

\* A fresh stream has no harmed entry.
LEMMA HarmInvariant == Spec => []HarmInv
<1> DEFINE Known == BaseInv /\ LossInv /\ ReplayInv /\ LettersNamed
<1>1. Init => HarmInv
  <2> SUFFICES ASSUME Init PROVE HarmInv
    OBVIOUS
  <2>1. \A i \in Ids : Holders(i) = {} /\ Orphans(i) = {}
    <3>1. NoTask.pc = "idle"
      BY DEF NoTask
    <3>2. \A w \in Workers, i \in Ids : task[w][i] = NoTask
      BY DEF Init
    <3> QED
      BY <3>1, <3>2 DEF Holders, Orphans, Active
  <2>2. Harmed = {}
    BY <2>1 DEF Harmed, Crowded, Shown, Init
  <2>3. HashesSound
    BY DEF Init, HashesSound
  <2>4. Cardinality(Harmed) = 0
    BY <2>2, FS_EmptySet
  <2> QED
    BY <2>3, <2>4 DEF HarmInv, Init
<1>2. Known /\ Known' /\ CostInv /\ HarmInv /\ [Next]_vars => HarmInv'
  BY HarmNext
<1>3. Spec => []Known
  BY LedgerInvariant
<1> HIDE DEF Known
<1> QED
  BY <1>1, <1>2, <1>3, CostInvariant, PTL DEF Spec

-----------------------------------------------------------------------------
(* Attempts are bounded *)

Limit == MaxAttempts + faults + leaseFaults

\* A delivery on its last attempt, or not yet aware of its attempt, that renews its
\* lease: it buries the entry, acknowledges it, or ends by a counted fault.
Final(w, i) ==
    /\ HoldsLease(w, i)
    /\ task[w][i].pc = "claimed" \/ task[w][i].attempt >= MaxAttempts

\* Superseded heartbeats write their own attempt into the group's counter, so every
\* attempt is bounded with it; an entry that may be claimed once more, because it is
\* stale or has no final delivery, is one below the bound.
AttemptInv ==
    \A i \in Ids :
        /\ times[i] <= Limit
        /\ i \in idle \/ (\A w \in Workers : ~Final(w, i)) => times[i] < Limit
        /\ \A w \in Workers :
             /\ task[w][i].beating => task[w][i].pc \notin {"idle", "claimed"}
             /\ task[w][i].pc \notin {"idle", "claimed"} => task[w][i].attempt <= Limit
             /\ task[w][i].pc = "record" => task[w][i].attempt < MaxAttempts

\* What a task of an entry has to satisfy.
Bounded(t, bound) ==
    /\ t.beating => t.pc \notin {"idle", "claimed"}
    /\ t.pc \notin {"idle", "claimed"} => t.attempt <= bound
    /\ t.pc = "record" => t.attempt < MaxAttempts

\* Steps that leave tasks and group alone, or take an entry off the stale ones.
LEMMA AttemptSame ==
    ASSUME AttemptInv, UNCHANGED <<task, times, faults, leaseFaults>>, idle' \subseteq idle
    PROVE  AttemptInv'
  BY DEF AttemptInv, Final, HoldsLease, Active, Limit

\* A step of one delivery that costs nothing.
LEMMA AttemptMove ==
    ASSUME TypeOK, AttemptInv, NEW w \in Workers, NEW i \in Ids, NEW t, SetTask(w, i, t),
           Bounded(t, Limit), UNCHANGED <<faults, leaseFaults>>,
           \/ UNCHANGED <<times, idle>> /\ (Final(w, i) => Final(w, i)')
           \/ XRemove(i)
           \/ UNCHANGED <<times, idle>> /\ times[i] < MaxAttempts
    PROVE  AttemptInv'
<1> USE DeliveryAssumption
<1>1. /\ task'[w][i] = t
      /\ \A v \in Workers, k \in Ids : v # w \/ k # i => task'[v][k] = task[v][k]
  BY OneTask DEF TypeOK
<1>2. \A v \in Workers, k \in Ids : v # w \/ k # i => (Final(v, k)' <=> Final(v, k))
  BY <1>1 DEF Final, HoldsLease, Active
<1>3. Limit \in Nat /\ Limit' = Limit /\ MaxAttempts <= Limit /\ Limit > 0
      /\ \A k \in Ids : times[k] \in Nat
  BY DEF Limit, TypeOK, LoopOK, GroupOK
<1>4. \A k \in Ids : k # i => times'[k] = times[k] /\ (k \in idle' <=> k \in idle)
  BY DEF XRemove, TypeOK, GroupOK
<1>5. /\ times'[i] <= Limit
      /\ i \in idle' \/ (\A v \in Workers : ~Final(v, i)') => times'[i] < Limit
  <2>1. CASE XRemove(i)
    BY <1>3, <2>1 DEF XRemove, TypeOK, GroupOK
  <2>2. CASE UNCHANGED <<times, idle>> /\ (Final(w, i) => Final(w, i)')
    BY <1>2, <2>2 DEF AttemptInv
  <2>3. CASE UNCHANGED <<times, idle>> /\ times[i] < MaxAttempts
    BY <1>3, <2>3
  <2> QED
    BY <2>1, <2>2, <2>3
<1> QED
  BY <1>1, <1>2, <1>3, <1>4, <1>5 DEF AttemptInv, Bounded

\* A fault pays for whatever it does to tasks and leases.
LEMMA AttemptFault ==
    ASSUME TypeOK, AttemptInv, UNCHANGED times, Limit' = Limit + 1,
           \A v \in Workers, k \in Ids :
             \/ task'[v][k].pc = task[v][k].pc /\ task'[v][k].attempt = task[v][k].attempt
                /\ (task'[v][k].beating => task[v][k].beating)
             \/ task'[v][k] = NoTask
    PROVE  AttemptInv'
<1> USE DeliveryAssumption
<1>1. NoTask.pc = "idle" /\ ~NoTask.beating
  BY DEF NoTask
<1>2. Limit \in Nat /\ \A k \in Ids : times[k] \in Nat
  BY DEF Limit, TypeOK, LoopOK, GroupOK
<1>3. \A v \in Workers, k \in Ids : task[v][k].attempt \in Nat
  BY DEF TypeOK, TasksOK, Task
<1>4. \A k \in Ids : times'[k] < Limit'
  BY <1>2 DEF AttemptInv
<1>5. ASSUME NEW v \in Workers, NEW k \in Ids
      PROVE  /\ task'[v][k].beating => task'[v][k].pc \notin {"idle", "claimed"}
             /\ task'[v][k].pc \notin {"idle", "claimed"} => task'[v][k].attempt <= Limit'
             /\ task'[v][k].pc = "record" => task'[v][k].attempt < MaxAttempts
  <2>1. /\ task[v][k].beating => task[v][k].pc \notin {"idle", "claimed"}
        /\ task[v][k].pc \notin {"idle", "claimed"} => task[v][k].attempt <= Limit
        /\ task[v][k].pc = "record" => task[v][k].attempt < MaxAttempts
    BY DEF AttemptInv
  <2>2. CASE task'[v][k] = NoTask
    BY <1>1, <2>2
  <2>3. CASE /\ task'[v][k].pc = task[v][k].pc /\ task'[v][k].attempt = task[v][k].attempt
             /\ task'[v][k].beating => task[v][k].beating
    BY <1>2, <1>3, <2>1, <2>3
  <2> QED
    BY <2>2, <2>3
<1> QED
  BY <1>2, <1>4, <1>5 DEF AttemptInv

\* XAUTOCLAIM: what is claimed was one below the bound, and its delivery is final until
\* it knows better.
LEMMA AttemptClaim ==
    ASSUME BaseInv, AttemptInv, NEW w \in Workers, ClaimStale(w)
    PROVE  AttemptInv'
<1> USE DeliveryAssumption
<1> DEFINE claimed == FirstOf(idle, BatchSize)
<1>t. TypeOK
  BY DEF BaseInv
<1>1. /\ UNCHANGED <<faults, leaseFaults>> /\ idle' = idle \ claimed
      /\ \A i \in Ids : times'[i] = IF i \in claimed THEN times[i] + 1 ELSE times[i]
      /\ \A v \in Workers, i \in Ids : v # w => task'[v][i] = task[v][i]
  BY <1>t DEF ClaimStale, streamVars, faultVars, TypeOK, TasksOK
<1>2. claimed \subseteq idle
  BY FirstOfSubset
<1>3. \A i \in Ids : /\ task'[w][i].pc = IF i \in claimed THEN "claimed" ELSE "idle"
                     /\ ~task'[w][i].beating
  <2>1. \A i \in Ids : task'[w][i] = IF i \in claimed THEN [NoTask EXCEPT !.pc = "claimed"]
                                     ELSE NoTask
    BY <1>t DEF ClaimStale, TypeOK, TasksOK
  <2> QED
    BY <2>1 DEF NoTask
<1> HIDE DEF claimed
<1>4. \A i \in Ids : ~Final(w, i)
  BY DEF ClaimStale, Idle, Final, HoldsLease
<1>5. \A i \in Ids : /\ i \in claimed => Final(w, i)'
                     /\ \A v \in Workers : v # w => (Final(v, i)' <=> Final(v, i))
  BY <1>1, <1>3 DEF Final, HoldsLease, Active
<1>6. Limit \in Nat /\ Limit' = Limit /\ \A k \in Ids : times[k] \in Nat
  BY <1>1, <1>t DEF Limit, TypeOK, LoopOK, GroupOK
<1>7. \A i \in Ids : /\ times'[i] <= Limit
                     /\ i \in idle' \/ (\A v \in Workers : ~Final(v, i)') => times'[i] < Limit
  BY <1>1, <1>2, <1>4, <1>5, <1>6 DEF AttemptInv
<1> QED
  BY <1>1, <1>3, <1>6, <1>7 DEF AttemptInv

\* XREADGROUP: the first attempt.
LEMMA AttemptRead ==
    ASSUME BaseInv, AttemptInv, NEW w \in Workers, ReadNew(w)
    PROVE  AttemptInv'
<1> USE DeliveryAssumption
<1> DEFINE new == FirstOf({i \in live : i > cursor}, BatchSize)
<1>t. TypeOK
  BY DEF BaseInv
<1>1. /\ UNCHANGED <<idle, faults, leaseFaults>>
      /\ \A i \in Ids : times'[i] = IF i \in new THEN 1 ELSE times[i]
      /\ \A v \in Workers, i \in Ids : v # w => task'[v][i] = task[v][i]
  BY <1>t DEF ReadNew, streamVars, faultVars, TypeOK, TasksOK
<1>2. \A i \in new : i \in live /\ i > cursor /\ i \in Ids
  <2>1. new \subseteq {i \in live : i > cursor}
    BY FirstOfSubset
  <2> HIDE DEF new
  <2> QED
    BY <1>t, <2>1 DEF TypeOK, StreamOK, Ids
<1>3. \A i \in Ids : /\ task'[w][i].pc = IF i \in new THEN "start" ELSE "idle"
                     /\ i \in new => task'[w][i].attempt = 1
                     /\ ~task'[w][i].beating
  <2>1. \A i \in Ids : task'[w][i] = IF i \in new
                                     THEN [NoTask EXCEPT !.pc = "start", !.attempt = 1]
                                     ELSE NoTask
    BY <1>t DEF ReadNew, TypeOK, TasksOK
  <2>2. NoTask.pc = "idle" /\ ~NoTask.beating
    BY DEF NoTask
  <2> HIDE DEF new
  <2> QED
    BY <2>1, <2>2, FreshTask, Zenon
<1> HIDE DEF new
<1>4. \A i \in Ids : ~Final(w, i)
  BY DEF ReadNew, Idle, Final, HoldsLease
<1>5. \A i \in Ids : /\ i \in new /\ MaxAttempts = 1 => Final(w, i)'
                     /\ \A v \in Workers : v # w => (Final(v, i)' <=> Final(v, i))
  BY <1>1, <1>3 DEF Final, HoldsLease, Active
<1>6. Limit \in Nat /\ Limit' = Limit /\ MaxAttempts <= Limit /\ \A k \in Ids : times[k] \in Nat
  BY <1>1, <1>t DEF Limit, TypeOK, LoopOK, GroupOK
<1>6a. \A i \in new : i \notin idle
  BY <1>2, <1>t DEF BaseInv, PendingListExact, TypeOK, GroupOK, StreamOK, Ids
<1>7. \A i \in Ids : /\ times'[i] <= Limit
                     /\ i \in idle' \/ (\A v \in Workers : ~Final(v, i)') => times'[i] < Limit
  BY <1>1, <1>4, <1>5, <1>6, <1>6a DEF AttemptInv
<1> QED
  BY <1>1, <1>3, <1>6, <1>7 DEF AttemptInv

\* A heartbeat writes the attempt of a delivery that is at work: either that is a final
\* one, or its attempt is below the limit.
LEMMA AttemptBeat ==
    ASSUME BaseInv, AttemptInv, NEW w \in Workers, NEW i \in Ids, Heartbeat(w, i)
    PROVE  AttemptInv'
<1> USE DeliveryAssumption
<1>t. TypeOK
  BY DEF BaseInv
<1>1. /\ UNCHANGED <<task, faults, leaseFaults>> /\ idle' = idle \ {i}
      /\ times' = [times EXCEPT ![i] = task[w][i].attempt] /\ task[w][i].beating
  BY DEF Heartbeat, faultVars
<1>2. task[w][i].pc \notin {"idle", "claimed"} /\ task[w][i].attempt <= Limit
      /\ task[w][i].attempt \in Nat
  BY <1>1, <1>t DEF AttemptInv, TypeOK, TasksOK, Task
<1>3. Limit \in Nat /\ Limit' = Limit /\ MaxAttempts <= Limit
  BY <1>1, <1>t DEF Limit, TypeOK, LoopOK
<1>4. \A v \in Workers, k \in Ids : Final(v, k)' <=> Final(v, k)
  BY <1>1 DEF Final, HoldsLease, Active
<1>5. task[w][i].attempt >= MaxAttempts => Final(w, i)
  BY <1>1, <1>2 DEF Final, HoldsLease, Active
<1>6. times'[i] = task[w][i].attempt /\ \A k \in Ids : k # i => times'[k] = times[k]
  BY <1>1, <1>t DEF TypeOK, GroupOK
<1>7. \A k \in Ids : /\ times'[k] <= Limit
                     /\ k \in idle' \/ (\A v \in Workers : ~Final(v, k)') => times'[k] < Limit
  BY <1>1, <1>2, <1>3, <1>4, <1>5, <1>6 DEF AttemptInv
<1> QED
  BY <1>1, <1>3, <1>7 DEF AttemptInv

\* A delivery goes on to the graph with what it loaded.
Reloads(w, i) == \E s : SetTask(w, i, [task[w][i] EXCEPT !.pc = "run", !.loaded = s])

\* How a delivery at work goes on: its attempt stays, and a final one stays final.
LEMMA AttemptGoes ==
    ASSUME TypeOK, AttemptInv, NEW w \in Workers, NEW i \in Ids,
           task[w][i].pc \notin {"idle", "claimed", "start", "ack"},
           UNCHANGED <<times, idle, faults, leaseFaults>>,
           \/ AfterFailure(w, i) \/ AfterSuccess(w, i)
           \/ \E l \in {"load", "bury"} : Goto(w, i, l)
           \/ Reloads(w, i)
    PROVE  AttemptInv'
<1> USE DeliveryAssumption
<1>0. task[w][i] \in Task /\ task[w][i].attempt <= Limit
  BY DEF TypeOK, TasksOK, AttemptInv
<1>0a. task[w][i].attempt \in Nat
  BY <1>0 DEF Task
<1>1. ASSUME NEW t, SetTask(w, i, t), t.pc \notin {"idle", "claimed"},
             t.attempt = task[w][i].attempt, task[w][i].beating => t.beating \/ t.pc = "ack",
             t.pc = "record" => t.attempt < MaxAttempts
      PROVE  AttemptInv'
  <2>1. Bounded(t, Limit)
    BY <1>0, <1>1 DEF Bounded
  <2>2. task'[w][i] = t
    BY <1>1, OneTask DEF TypeOK
  <2>3. Final(w, i) => Final(w, i)'
    BY <1>1, <2>2 DEF Final, HoldsLease, Active
  <2> QED
    BY <1>1, <2>1, <2>3, AttemptMove
<1>2. ASSUME NEW l, Goto(w, i, l), l \notin {"idle", "claimed"},
             l = "record" => task[w][i].attempt < MaxAttempts
      PROVE  AttemptInv'
  <2> DEFINE t == [task[w][i] EXCEPT !.pc = l]
  <2>1. SetTask(w, i, t)
    BY <1>2 DEF Goto
  <2>2. t.pc = l /\ t.attempt = task[w][i].attempt /\ t.beating = task[w][i].beating
    BY <1>0 DEF Task
  <2> HIDE DEF t
  <2>3. task[w][i].beating => t.beating
    BY <2>2, Zenon
  <2> QED
    BY <1>1, <1>2, <2>1, <2>2, <2>3
<1>3. CASE AfterFailure(w, i)
  <2>1. CASE task[w][i].attempt >= MaxAttempts
    BY <1>2, <1>3, <2>1 DEF AfterFailure
  <2>2. CASE ~(task[w][i].attempt >= MaxAttempts)
    <3>1. task[w][i].attempt < MaxAttempts
      BY <1>0a, <2>2
    <3> QED
      BY <1>2, <1>3, <2>2, <3>1 DEF AfterFailure
  <2> QED
    BY <2>1, <2>2
<1>4. CASE AfterSuccess(w, i)
  <2>1. CASE task[w][i].beating
    <3> DEFINE t == [task[w][i] EXCEPT !.pc = "ack", !.beating = FALSE]
    <3>1. SetTask(w, i, t)
      BY <1>4, <2>1 DEF AfterSuccess
    <3>2. t.pc = "ack" /\ t.attempt = task[w][i].attempt
      BY <1>0 DEF Task
    <3> HIDE DEF t
    <3> QED
      BY <1>1, <3>1, <3>2
  <2>2. CASE ~task[w][i].beating
    <3>1. SetTask(w, i, NoTask) /\ ~Final(w, i)
      BY <1>4, <2>2 DEF AfterSuccess, Final, HoldsLease
    <3>2. Bounded(NoTask, Limit)
      BY DEF Bounded, NoTask
    <3> QED
      BY <3>1, <3>2, AttemptMove
  <2> QED
    BY <2>1, <2>2
<1>5. ASSUME NEW s, SetTask(w, i, [task[w][i] EXCEPT !.pc = "run", !.loaded = s])
      PROVE  AttemptInv'
  <2> DEFINE t == [task[w][i] EXCEPT !.pc = "run", !.loaded = s]
  <2>1. SetTask(w, i, t)
    BY <1>5
  <2>2. t.pc = "run" /\ t.attempt = task[w][i].attempt /\ t.beating = task[w][i].beating
    BY <1>0 DEF Task
  <2> HIDE DEF t
  <2>3. task[w][i].beating => t.beating
    BY <2>2, Zenon
  <2> QED
    BY <1>1, <2>1, <2>2, <2>3
<1> QED
  BY <1>2, <1>3, <1>4, <1>5 DEF Reloads

\* Every step keeps attempts bounded.
LEMMA AttemptNext ==
    ASSUME BaseInv, AttemptInv, [Next]_vars
    PROVE  AttemptInv'
<1> USE DeliveryAssumption DEF streamVars, groupVars, faultVars
<1>t. TypeOK /\ TasksOK
  BY DEF BaseInv, TypeOK
<1>n. Bounded(NoTask, Limit)
  BY DEF Bounded, NoTask
<1>l. faults \in Nat /\ leaseFaults \in Nat /\ MaxAttempts \in Nat /\ MaxAttempts >= 1
  BY <1>t DEF TypeOK, LoopOK
<1>1. CASE Producer \/ Operator
  <2>1. UNCHANGED <<task, times, idle, faults, leaseFaults>>
    BY <1>1 DEF Producer, Enqueue, DedupeExpires, ForeignAdd, Operator, OperatorReplays,
                OperatorPurges, Replay, Purge
  <2> QED
    BY <2>1, AttemptSame
<1>2. ASSUME NEW w \in Workers, Crash(w) PROVE AttemptInv'
  <2>1. /\ UNCHANGED <<times, leaseFaults>> /\ faults' = faults + 1
        /\ \A v \in Workers, k \in Ids : task'[v][k] = task[v][k] \/ task'[v][k] = NoTask
    BY <1>2, <1>t DEF Crash, TasksOK
  <2>2. Limit' = Limit + 1
    BY <1>l, <2>1 DEF Limit
  <2> QED
    BY <1>t, <2>1, <2>2, AttemptFault
<1>3. ASSUME NEW w \in Workers, NEW i \in Ids, Process(w, i) PROVE AttemptInv'
  <2>1. CASE ReadAttempt(w, i)
    <3> DEFINE n == IF times[i] > 0 THEN times[i] ELSE 1
               t == [task[w][i] EXCEPT !.pc = "start", !.attempt = n]
    <3>1. /\ task[w][i].pc = "claimed" /\ SetTask(w, i, t)
          /\ UNCHANGED <<times, idle, faults, leaseFaults>>
      BY <2>1 DEF ReadAttempt
    <3>2. times[i] \in Nat /\ times[i] <= Limit /\ Limit >= 1
      BY <1>t, <1>l DEF TypeOK, GroupOK, AttemptInv, Limit
    <3>3. n <= Limit /\ (times[i] >= MaxAttempts => n >= MaxAttempts)
      BY <1>l, <3>2
    <3>4. t.pc = "start" /\ t.attempt = n /\ t.beating = task[w][i].beating
      BY <1>t DEF TasksOK, Task
    <3>5. ~task[w][i].beating
      BY <3>1 DEF AttemptInv
    <3> HIDE DEF t, n
    <3>6. ~t.beating
      BY <3>4, <3>5, Zenon
    <3>7. Bounded(t, Limit)
      BY <3>3, <3>4, <3>6 DEF Bounded
    <3>8. task'[w][i] = t
      BY <1>t, <3>1, OneTask
    <3>9. times[i] >= MaxAttempts => Final(w, i)'
      BY <3>3, <3>4, <3>8 DEF Final, HoldsLease, Active
    <3>10. times[i] < MaxAttempts \/ times[i] >= MaxAttempts
      BY <1>l, <3>2
    <3> QED
      BY <1>t, <3>1, <3>7, <3>9, <3>10, AttemptMove
  <2>2. CASE Start(w, i)
    <3> DEFINE t == [task[w][i] EXCEPT !.pc = "lookup", !.beating = TRUE]
    <3>1. /\ task[w][i].pc = "start" /\ SetTask(w, i, t)
          /\ UNCHANGED <<times, idle, faults, leaseFaults>>
      BY <2>2 DEF Start, MayStart
    <3>2. t.pc = "lookup" /\ t.attempt = task[w][i].attempt /\ t.beating = TRUE
      BY <1>t DEF TasksOK, Task
    <3>3. task[w][i].attempt <= Limit
      BY <3>1 DEF AttemptInv
    <3> HIDE DEF t
    <3>4. Bounded(t, Limit)
      BY <3>2, <3>3 DEF Bounded
    <3>5. task'[w][i] = t
      BY <1>t, <3>1, OneTask
    <3>6. Final(w, i) => Final(w, i)'
      BY <3>1, <3>2, <3>5 DEF Final, HoldsLease, Active
    <3> QED
      BY <1>t, <3>1, <3>4, <3>6, AttemptMove
  <2>3. CASE \/ Lookup(w, i) \/ \E result \in GraphOutcomes : RunSucceeds(w, i, result)
             \/ RunFails(w, i) \/ DatabaseFails(w, i) \/ MarkJobFailed(w, i)
    <3>1. /\ task[w][i].pc \notin {"idle", "claimed", "start", "ack"}
          /\ UNCHANGED <<times, idle, faults, leaseFaults>>
          /\ \/ AfterFailure(w, i) \/ AfterSuccess(w, i)
             \/ \E l \in {"load", "bury"} : Goto(w, i, l)
      BY <2>3 DEF Lookup, RunSucceeds, RunFails, DatabaseFails, MarkJobFailed
    <3> QED
      BY <1>t, <3>1, AttemptGoes
  <2>4. CASE Load(w, i)
    <3>1. /\ task[w][i].pc \notin {"idle", "claimed", "start", "ack"}
          /\ UNCHANGED <<times, idle, faults, leaseFaults>>
          /\ Reloads(w, i)
      BY <2>4 DEF Load, Reloads
    <3> QED
      BY <1>t, <3>1, AttemptGoes
  <2>5. CASE RecordFailure(w, i)
    <3>1. /\ task[w][i].pc = "record" /\ SetTask(w, i, NoTask)
          /\ UNCHANGED <<times, idle, faults, leaseFaults>>
      BY <2>5 DEF RecordFailure
    <3>2. task[w][i].attempt < MaxAttempts /\ task[w][i].attempt \in Nat
      BY <1>t, <3>1 DEF AttemptInv, TasksOK, Task
    <3>3. ~Final(w, i)
      BY <1>l, <3>1, <3>2 DEF Final
    <3> QED
      BY <1>t, <1>n, <3>1, <3>3, AttemptMove
  <2>6. CASE StartMalformed(w, i) \/ Bury(w, i) \/ Acknowledge(w, i)
    <3>1. SetTask(w, i, NoTask) /\ XRemove(i) /\ UNCHANGED <<faults, leaseFaults>>
      BY <2>6 DEF StartMalformed, Bury, Acknowledge, DeadLetter
    <3> QED
      BY <1>t, <1>n, <3>1, AttemptMove
  <2> QED
    BY <1>3, <2>1, <2>2, <2>3, <2>4, <2>5, <2>6 DEF Process
<1>4. ASSUME NEW w \in Workers, NEW i \in Ids, Failure(w, i) PROVE AttemptInv'
  <2>1. CASE BoundaryFails(w, i)
    <3>1. SetTask(w, i, NoTask) /\ UNCHANGED <<times, leaseFaults>> /\ faults' = faults + 1
      BY <2>1, Zenon DEF BoundaryFails
    <3>2. Limit' = Limit + 1
      BY <1>l, <3>1 DEF Limit
    <3>3. \A v \in Workers, k \in Ids : task'[v][k] = task[v][k] \/ task'[v][k] = NoTask
      BY <1>t, <3>1, OneTask
    <3> QED
      BY <1>t, <3>1, <3>2, <3>3, AttemptFault
  <2>2. CASE LeaseLapses(w, i)
    <3>1. UNCHANGED <<task, times, faults>> /\ leaseFaults' = leaseFaults + 1
      BY <2>2, Zenon DEF LeaseLapses
    <3>2. Limit' = Limit + 1
      BY <1>l, <3>1 DEF Limit
    <3> QED
      BY <1>t, <3>1, <3>2, AttemptFault
  <2>3. CASE HeartbeatDies(w, i)
    <3> DEFINE t == [task[w][i] EXCEPT !.beating = FALSE]
    <3>1. SetTask(w, i, t) /\ UNCHANGED <<times, faults>> /\ leaseFaults' = leaseFaults + 1
      BY <2>3 DEF HeartbeatDies
    <3>2. Limit' = Limit + 1
      BY <1>l, <3>1 DEF Limit
    <3>3. t.pc = task[w][i].pc /\ t.attempt = task[w][i].attempt /\ t.beating = FALSE
      BY <1>t DEF TasksOK, Task
    <3> HIDE DEF t
    <3>4. /\ task'[w][i] = t
          /\ \A v \in Workers, k \in Ids : v # w \/ k # i => task'[v][k] = task[v][k]
      BY <1>t, <3>1, OneTask
    <3> QED
      BY <1>t, <3>1, <3>2, <3>3, <3>4, AttemptFault
  <2> QED
    BY <1>4, <2>1, <2>2, <2>3 DEF Failure
<1>5. ASSUME NEW i \in Ids, LeaseExpires(i) PROVE AttemptInv'
  <2>1. /\ UNCHANGED <<task, times, faults, leaseFaults>> /\ idle' = idle \cup {i}
        /\ \A w \in Workers : ~HoldsLease(w, i)
    BY <1>5 DEF LeaseExpires
  <2>2. times[i] < Limit /\ Limit' = Limit
    BY <2>1 DEF AttemptInv, Final, Limit
  <2>3. \A v \in Workers, k \in Ids : Final(v, k)' <=> Final(v, k)
    BY <2>1 DEF Final, HoldsLease, Active
  <2> QED
    BY <2>1, <2>2, <2>3 DEF AttemptInv
<1>6. CASE UNCHANGED vars
  BY <1>6, AttemptSame DEF vars
<1> QED
  BY <1>1, <1>2, <1>3, <1>4, <1>5, <1>6, AttemptClaim, AttemptRead, AttemptBeat DEF Next, Loop

\* No entry was ever delivered when the stream is fresh.
LEMMA AttemptInvariant == Spec => []AttemptInv
<1>1. Init => AttemptInv
  <2> SUFFICES ASSUME Init PROVE AttemptInv
    OBVIOUS
  <2>1. NoTask.pc = "idle" /\ ~NoTask.beating
    BY DEF NoTask
  <2>2. \A w \in Workers, i \in Ids : task[w][i] = NoTask /\ times[i] = 0
    BY DEF Init
  <2>3. Limit > 0
    BY DeliveryAssumption DEF Init, Limit
  <2> QED
    BY <2>1, <2>2, <2>3, DeliveryAssumption DEF AttemptInv, Limit, Init
<1>2. BaseInv /\ AttemptInv /\ [Next]_vars => AttemptInv'
  BY AttemptNext
<1> QED
  BY <1>1, <1>2, BaseInvariant, PTL DEF Spec

-----------------------------------------------------------------------------
(* The theorems *)

\* What holds before the first lease fault; leaseFaults never decreases, so a
\* step that ends without one started without one.
KeptInv == LeaseInv /\ RunsCarried /\ RerunInv

\* A fresh stream keeps all of it.
LEMMA KeptInit == Init => KeptInv
<1> SUFFICES ASSUME Init PROVE KeptInv
  OBVIOUS
<1> USE DeliveryAssumption DEF Init
<1>1. \A w \in Workers, i \in Ids : task[w][i].pc = "idle" /\ ~task[w][i].beating
  BY DEF NoTask
<1>2. Owned /\ AttemptKnown
  BY <1>1 DEF Owned, AttemptKnown, Active
<1>4. RunsCarried
  BY DEF RunsCarried
<1>6. RerunInv
  BY <1>1 DEF RerunInv, LoadedKnown, ReplaysCopy, SettledStays
<1> QED
  BY <1>2, <1>4, <1>6 DEF KeptInv, LeaseInv

\* Leases that were lost stay counted.
LEMMA FaultsCounted ==
    ASSUME TypeOK, [Next]_vars, leaseFaults' = 0
    PROVE  leaseFaults = 0
<1> USE DEF faultVars
<1>1. UNCHANGED leaseFaults \/ \E w \in Workers, i \in Ids : HeartbeatDies(w, i) \/ LeaseLapses(w, i)
  <2>1. CASE Producer \/ Operator
    BY <2>1 DEF Producer, Enqueue, DedupeExpires, ForeignAdd, Operator, OperatorReplays,
                OperatorPurges, Replay, Purge
  <2>2. ASSUME NEW w \in Workers, Loop(w) \/ Crash(w) PROVE UNCHANGED leaseFaults
    BY <2>2 DEF Loop, ClaimStale, ReadNew, Crash
  <2>3. ASSUME NEW w \in Workers, NEW i \in Ids, Process(w, i) PROVE UNCHANGED leaseFaults
    BY <2>3 DEF Process, ReadAttempt, StartMalformed, Start, Lookup, Load, RunSucceeds,
                RunFails, DatabaseFails, MarkJobFailed, Bury, RecordFailure, Acknowledge
  <2>4. ASSUME NEW w \in Workers, NEW i \in Ids, Heartbeat(w, i) \/ BoundaryFails(w, i)
        PROVE  UNCHANGED leaseFaults
    BY <2>4 DEF Heartbeat, BoundaryFails
  <2>5. ASSUME NEW i \in Ids, LeaseExpires(i) PROVE UNCHANGED leaseFaults
    BY <2>5 DEF LeaseExpires
  <2> QED
    BY <2>1, <2>2, <2>3, <2>4, <2>5 DEF Next, Failure, vars
<1>2. ASSUME NEW w \in Workers, NEW i \in Ids, HeartbeatDies(w, i) \/ LeaseLapses(w, i)
      PROVE  leaseFaults' = leaseFaults + 1
  BY <1>2, Zenon DEF HeartbeatDies, LeaseLapses
<1>3. leaseFaults \in Nat
  BY DEF TypeOK, LoopOK
<1> QED
  BY <1>1, <1>2, <1>3

\* Every state before the first lease fault satisfies the invariant.
LEMMA KeptInvariant == Spec => [](leaseFaults = 0 => KeptInv)
<1> DEFINE Known == BaseInv /\ LossInv /\ ReplayInv /\ LettersNamed
           Inv == leaseFaults = 0 => KeptInv
<1>1. Init => Inv
  BY KeptInit
<1>2. Known /\ Inv /\ [Next]_vars => Inv'
  <2> SUFFICES ASSUME Known, Inv, [Next]_vars, leaseFaults' = 0 PROVE KeptInv'
    OBVIOUS
  <2>1. leaseFaults = 0
    BY FaultsCounted DEF BaseInv
  <2>2. LeaseInv /\ RunsCarried /\ RerunInv
    BY <2>1 DEF KeptInv
  <2> QED
    BY <2>1, <2>2, LeaseNext, CarriedNext, RerunNext DEF KeptInv
<1>3. Spec => []Known
  BY LedgerInvariant
<1> HIDE DEF Known, Inv
<1>4. Spec => []Inv
  BY <1>1, <1>2, <1>3, PTL DEF Spec
<1> QED
  BY <1>4 DEF Inv

\* Whatever leases are lost, an entry in the stream is processed by at most one worker
\* more than that, and one that was acknowledged or buried only by workers a lost
\* lease left behind: XAUTOCLAIM takes only what nobody renews, and a heartbeat
\* starts before the visibility timeout can pass.
THEOREM DeliveriesAreExclusive == Spec => []ExclusiveDelivery
<1>1. TypeOK /\ CostInv => ExclusiveDelivery
  <2> SUFFICES ASSUME TypeOK, CostInv, NEW i \in Ids
               PROVE  Cardinality(Holders(i)) <= leaseFaults + IF i \in live THEN 1 ELSE 0
    BY DEF ExclusiveDelivery
  <2>1. Cardinality(Holders(i)) + Stale(i) <= leaseFaults + Open(i)
    BY DEF CostInv, HoldersCounted
  <2>2. Cardinality(Holders(i)) \in Nat /\ leaseFaults \in Nat
    BY Countable DEF TypeOK, LoopOK
  <2> QED
    BY <2>1, <2>2 DEF Stale, Open
<1> QED
  BY <1>1, CostInvariant, PTL

\* Whatever leases are lost, an entry has one dead letter, and one more for each of
\* them at most, also when a worker dies around dead_letter.
THEOREM EntriesAreBuriedOnce == Spec => []BuriedOnce
<1>1. TypeOK /\ CostInv => BuriedOnce
  <2> SUFFICES ASSUME TypeOK, CostInv, NEW i \in Ids
               PROVE  Cardinality(LettersOf(i)) <= 1 + leaseFaults
    BY DEF BuriedOnce
  <2>1. Cardinality(LettersOf(i)) + Cardinality(Holders(i)) <= leaseFaults + 1
    BY DEF CostInv, LettersCounted
  <2>2. /\ Cardinality(Holders(i)) \in Nat /\ Cardinality(LettersOf(i)) \in Nat
        /\ leaseFaults \in Nat
    BY Countable DEF TypeOK, LoopOK
  <2> QED
    BY <2>1, <2>2
<1> QED
  BY <1>1, CostInvariant, PTL

\* Whatever leases are lost, the delivery counter passes INVOICE_MAX_ATTEMPTS by no more
\* than the deliveries that a crash, a failed call or a lost lease cut short: a
\* superseded heartbeat sets it to an attempt that is bounded too, and the last
\* attempt buries or acknowledges.
THEOREM AttemptsAreBounded == Spec => []AttemptsBounded
<1>1. AttemptInv => AttemptsBounded
  BY DEF AttemptInv, AttemptsBounded, Limit
<1> QED
  BY <1>1, AttemptInvariant, PTL

\* Whatever leases are lost, no more replays than that are shown as in progress without
\* being in the stream, so REPLAY_SCRIPT refuses further replays for good only where
\* a worker reported late.
THEOREM ReplaysNeverWedge == Spec => []ReplayNotWedged
<1>1. TypeOK /\ HarmInv => ReplayNotWedged
  BY HarmWedges
<1> QED
  BY <1>1, TypeCorrect, HarmInvariant, PTL

\* As long as no lease was lost, a run that is running or retrying has an entry in
\* the stream, and a failed one has an entry or a dead letter, also when several
\* entries of one job are processed at the same time.
THEOREM NoRunIsStranded == Spec => []NoStrandedRun
<1>1. (leaseFaults = 0 => KeptInv) => NoStrandedRun
  BY CarriedNotStranded DEF KeptInv, NoStrandedRun
<1> QED
  BY <1>1, KeptInvariant, PTL

\* As long as no lease was lost, a run that was committed as settled and whose job
\* has one entry is never processed again: a redelivery after a crash between the
\* commit and the acknowledgement finds the status and leaves.
THEOREM SettledRunsAreNotRerun == Spec => [](leaseFaults = 0 => SettledRunNotRerun)
<1>1. KeptInv => SettledRunNotRerun
  BY DEF KeptInv, RerunInv, SettledStays, SettledRunNotRerun
<1> QED
  BY <1>1, KeptInvariant, PTL
=============================================================================
