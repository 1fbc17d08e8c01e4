--------------------------- MODULE ShipmentsProofs ---------------------------
(***************************************************************************)
(* Proofs about Shipments, for every set of documents, of extractions and  *)
(* of scanners, and for every configured SLA.                              *)
(***************************************************************************)
EXTENDS Shipments, TLAPS

\* Whoever is inside a transaction holds the row lock, and the documents it read are
\* those of the row: nobody wrote in between.  A scanner locks rows that exist.
LocksSound ==
    /\ \A x \in Procs : pc[x] = "locked" =>
          /\ lock = x
          /\ seen[x].exists
          /\ seen[x].has = row.has
          /\ seen[x].slot = row.slot
          /\ x \in Scanners => row.exists
    /\ ~row.exists => row.has = NoRow.has /\ row.slot = NoRow.slot

\* A shipment takes in a rate confirmation that its load number has.
RateAttached == row.exists /\ rateTable # "absent" => row.slot["rate_con"] # NoDoc

\* An exception that was never opened is no exception.
ExceptionSound == exc.version = 0 => exc = NoException

ShipInv ==
    /\ TypeOK
    /\ LocksSound
    /\ RateAttached
    /\ SlotsMatchFlags
    /\ StatusIsTruthful
    /\ ExceptionSound
    /\ ExceptionIsCurrent
    /\ EventsChain

-----------------------------------------------------------------------------
(* Documents *)

\* What the assumption says of a document.
LEMMA DocType ==
    ASSUME doc \in Extractions, NEW x \in Writers
    PROVE  /\ doc[x].type \in Types \cup {"other"}
           /\ doc[x].content \in Content \ {"absent"}
           /\ doc[Manual].type = "rate_con"
           /\ x # NoDoc /\ Manual # NoDoc /\ Manual \in Writers
<1>1. doc \in [Writers -> [type : {"invoice", "rate_con", "bol", "pod", "other"},
                           content : {"ok", "bad", "unreadable"}]]
  BY ShipmentAssumption DEF Writers
<1> QED
  BY <1>1, ShipmentAssumption DEF Writers, Types, Content

\* The kinds of process.
LEMMA Kinds ==
    /\ Writers \subseteq Procs /\ Scanners \subseteq Procs
    /\ Writers \cap Scanners = {} /\ NoOne \notin Procs
  BY ShipmentAssumption DEF Writers, Procs

\* A row before anything was assembled.
LEMMA NoRowType ==
    /\ NoRow \in Row
    /\ ~NoRow.exists
    /\ \A t \in Types : ~NoRow.has[t] /\ NoRow.slot[t] = NoDoc
  BY ShipmentAssumption DEF NoRow, Row, Status, Types

\* An exception that was never opened.
LEMMA NoExceptionType == NoException \in Exception
  BY DEF NoException, Exception

\* Whether flags and slots say the same.
Consistent(r) == \A t \in Types : r.has[t] <=> r.slot[t] # NoDoc

\* A document takes the slot of its type when that is free.
LEMMA AttachSlots ==
    ASSUME doc \in Extractions, NEW r \in Row, NEW x \in Writers
    PROVE  LET s == Attach(r, x) IN
           /\ s \in Row /\ s.exists = r.exists
           /\ \A t \in Types : r.slot[t] # NoDoc => s.slot[t] = r.slot[t]
           /\ \A t \in Types : s.slot[t] = r.slot[t] \/ (s.slot[t] = x /\ doc[x].type = t)
           /\ Consistent(r) => Consistent(s)
<1> DEFINE s == Attach(r, x)
<1>1. CASE doc[x].type \notin Types
  BY <1>1 DEF Attach
<1>2. CASE doc[x].type \in Types
  <2> DEFINE k == doc[x].type
             w == IF r.slot[k] = NoDoc THEN x ELSE r.slot[k]
  <2>1. r.slot \in [Types -> Writers \cup {NoDoc}] /\ r.has \in [Types -> BOOLEAN]
    BY DEF Row
  <2>2. w \in Writers \cup {NoDoc} /\ w # NoDoc
    BY <2>1, <1>2, DocType
  <2>3. s = [r EXCEPT !.slot[k] = w, !.has[k] = TRUE]
    BY <1>2 DEF Attach
  <2> HIDE DEF s
  <2>4. /\ s \in Row /\ s.exists = r.exists
        /\ s.slot = [r.slot EXCEPT ![k] = w] /\ s.has = [r.has EXCEPT ![k] = TRUE]
    <3> HIDE DEF w, k
    <3> QED
      BY <2>1, <2>2, <2>3 DEF Row
  <2>5. \A t \in Types : /\ s.slot[t] = IF t = k THEN w ELSE r.slot[t]
                         /\ s.has[t] <=> (t = k \/ r.has[t])
    <3> HIDE DEF w
    <3> QED
      BY <2>1, <2>4, <1>2
  <2> QED
    BY <2>2, <2>4, <2>5 DEF s, Consistent
<1> QED
  BY <1>1, <1>2

\* The rate confirmation of the load number takes its slot when that is free.
LEMMA AttachRateSlots ==
    ASSUME NEW r \in Row, NEW rate \in Content
    PROVE  LET s == AttachRate(r, rate) IN
           /\ s \in Row /\ s.exists = r.exists
           /\ \A t \in Types : r.slot[t] # NoDoc => s.slot[t] = r.slot[t]
           /\ \A t \in Types : s.slot[t] = r.slot[t] \/ (s.slot[t] = Manual /\ t = "rate_con")
           /\ Consistent(r) => Consistent(s)
           /\ rate # "absent" => s.slot["rate_con"] # NoDoc
<1> DEFINE s == AttachRate(r, rate)
<1>1. /\ r.slot \in [Types -> Writers \cup {NoDoc}] /\ r.has \in [Types -> BOOLEAN]
      /\ "rate_con" \in Types /\ Manual \in Writers /\ Manual # NoDoc
  BY ShipmentAssumption DEF Row, Types, Writers
<1>2. CASE r.slot["rate_con"] # NoDoc
  <2>1. s = [r EXCEPT !.has["rate_con"] = TRUE]
    BY <1>2 DEF AttachRate
  <2> HIDE DEF s
  <2>2. /\ s \in Row /\ s.exists = r.exists /\ s.slot = r.slot
        /\ s.has = [r.has EXCEPT !["rate_con"] = TRUE]
    BY <2>1, <1>1 DEF Row
  <2>3. \A t \in Types : s.has[t] <=> (t = "rate_con" \/ r.has[t])
    BY <2>2, <1>1
  <2> QED
    BY <2>2, <2>3, <1>2 DEF s, Consistent
<1>3. CASE r.slot["rate_con"] = NoDoc /\ rate # "absent"
  <2>1. s = [r EXCEPT !.slot["rate_con"] = Manual, !.has["rate_con"] = TRUE]
    BY <1>3 DEF AttachRate
  <2> HIDE DEF s
  <2>2. /\ s \in Row /\ s.exists = r.exists
        /\ s.slot = [r.slot EXCEPT !["rate_con"] = Manual]
        /\ s.has = [r.has EXCEPT !["rate_con"] = TRUE]
    BY <2>1, <1>1 DEF Row
  <2>3. \A t \in Types : /\ s.slot[t] = IF t = "rate_con" THEN Manual ELSE r.slot[t]
                         /\ s.has[t] <=> (t = "rate_con" \/ r.has[t])
    BY <2>2, <1>1
  <2> QED
    BY <2>2, <2>3, <1>1, <1>3 DEF s, Consistent
<1>4. CASE r.slot["rate_con"] = NoDoc /\ rate = "absent"
  BY <1>4 DEF AttachRate
<1> QED
  BY <1>2, <1>3, <1>4

\* upsert_shipment fills free slots with documents of their type, keeps the others,
\* sets the flags of what it filled, and leaves no rate confirmation out.
LEMMA AssembledSlots ==
    ASSUME doc \in Extractions, NEW r \in Row, NEW x \in Writers, NEW rate \in Content
    PROVE  LET s == Assembled(r, x, rate) IN
           /\ s \in Row /\ s.exists = r.exists
           /\ \A t \in Types : r.slot[t] # NoDoc => s.slot[t] = r.slot[t]
           /\ \A t \in Types : \/ s.slot[t] = r.slot[t]
                               \/ s.slot[t] = x /\ doc[x].type = t
                               \/ s.slot[t] = Manual /\ t = "rate_con"
           /\ Consistent(r) => Consistent(s)
           /\ rate # "absent" => s.slot["rate_con"] # NoDoc
<1> DEFINE a == Attach(r, x)
<1>1. /\ a \in Row /\ a.exists = r.exists
      /\ \A t \in Types : r.slot[t] # NoDoc => a.slot[t] = r.slot[t]
      /\ \A t \in Types : a.slot[t] = r.slot[t] \/ (a.slot[t] = x /\ doc[x].type = t)
      /\ Consistent(r) => Consistent(a)
  BY AttachSlots
<1> HIDE DEF a
<1>2. LET s == AttachRate(a, rate) IN
      /\ s \in Row /\ s.exists = a.exists
      /\ \A t \in Types : a.slot[t] # NoDoc => s.slot[t] = a.slot[t]
      /\ \A t \in Types : s.slot[t] = a.slot[t] \/ (s.slot[t] = Manual /\ t = "rate_con")
      /\ Consistent(a) => Consistent(s)
      /\ rate # "absent" => s.slot["rate_con"] # NoDoc
  BY <1>1, AttachRateSlots
<1>3. Assembled(r, x, rate) = AttachRate(a, rate)
  BY DEF Assembled, a
<1> QED
  BY <1>1, <1>2, <1>3

-----------------------------------------------------------------------------
(* Reconciliation *)

\* The checks look at the documents only.
LEMMA ChecksOfDocuments ==
    ASSUME NEW r, NEW s, NEW rate, r.has = s.has, r.slot = s.slot
    PROVE  Missing(r) = Missing(s) /\ Checks(r, rate) = Checks(s, rate)
  BY DEF Missing, Checks, ContentOf, PodCheck

\* There is always a check, and it passes, fails or is skipped.
LEMMA CheckValues ==
    ASSUME NEW r, NEW rate
    PROVE  /\ Checks(r, rate) \subseteq {"passed", "failed", "not_evaluated"}
           /\ Checks(r, rate) # {}
<1>1. \A a, b : Compare(a, b) \in {"passed", "failed", "not_evaluated"}
  BY DEF Compare
<1>2. \A c : PodCheck(r, c) \in {"passed", "failed", "not_evaluated"}
  BY DEF PodCheck
<1> QED
  BY <1>1, <1>2 DEF Checks

\* The status that reconciliation computes is the truth about the documents.
LEMMA StatusOfTruth ==
    ASSUME NEW r, NEW rate, NEW now
    PROVE  /\ StatusOf(r, rate, now) \in Status
           /\ (StatusOf(r, rate, now) = "reconciled") <=>
                 (Missing(r) = {} /\ Checks(r, rate) = {"passed"})
           /\ "failed" \in Checks(r, rate) => StatusOf(r, rate, now) = "exception"
           /\ Overdue(r, now) => StatusOf(r, rate, now) = "exception"
<1>1. StatusOf(r, rate, now) \in Status
  BY DEF StatusOf, Status
<1>2. Overdue(r, now) => Missing(r) # {}
  BY DEF Overdue
<1>3. /\ Checks(r, rate) = {"passed"} <=>
            "failed" \notin Checks(r, rate) /\ "not_evaluated" \notin Checks(r, rate)
  BY CheckValues
<1> QED
  BY <1>1, <1>2, <1>3 DEF StatusOf

\* What sync_missing_document_exception is to bring about.
LEMMA DesiredType ==
    ASSUME TypeOK, NEW r \in Row, NEW now
    PROVE  /\ Desired(r, now).status = IF Overdue(r, now) THEN "active" ELSE "resolved"
           /\ Desired(r, now).missing = IF Overdue(r, now) THEN Missing(r) ELSE {}
           /\ Desired(r, now).deadline = Deadline(r)
           /\ Deadline(r) \in Nat
           /\ Missing(r) \in SUBSET Types
  BY ShipmentAssumption DEF TypeOK, Desired, Deadline, Row, Missing

\* The exception and its history: one event per change, each from the last state.
LEMMA SyncChains ==
    ASSUME TypeOK, EventsChain, ExceptionSound, NEW r \in Row, NEW now, SyncException(r, now)
    PROVE  /\ exc' \in Exception /\ events' \in Seq(Event)
           /\ EventsChain'
           /\ ExceptionSound'
           /\ exc'.status = "active" => Overdue(r, now) /\ exc'.missing = Missing(r)
<1> DEFINE d == Desired(r, now)
           new == [status |-> d.status, missing |-> d.missing, deadline |-> d.deadline,
                   version |-> exc.version + 1]
           e == [transition |-> Transition(r, now), before |-> exc, after |-> new]
<1>0. exc \in Exception /\ events \in Seq(Event) /\ exc.version \in Nat
  BY DEF TypeOK, Exception
<1>1. CASE Unchanged(r, now)
  <2>1. exc' = exc /\ events' = events
    BY <1>1 DEF SyncException
  <2>2. exc.status = "active" => Overdue(r, now) /\ exc.missing = Missing(r)
    BY <1>1, DesiredType DEF Unchanged, ExceptionSound, NoException
  <2> QED
    BY <1>0, <2>1, <2>2 DEF EventsChain, ExceptionSound
<1>2. CASE ~Unchanged(r, now)
  <2>1. exc' = new /\ events' = Append(events, e)
    BY <1>2 DEF SyncException
  <2>2. new \in Exception /\ new.version = exc.version + 1
        /\ new.status = (IF Overdue(r, now) THEN "active" ELSE "resolved")
        /\ new.missing = d.missing /\ new.deadline = d.deadline
    BY <1>0, DesiredType DEF Exception
  <2>3. new.status = "active" => Overdue(r, now) /\ new.missing = Missing(r)
    BY <2>2, DesiredType
  <2>4. Transition(r, now) \in {"opened", "changed", "resolved"}
    BY DEF Transition
  <2> HIDE DEF new, d
  <2>5. e \in Event /\ e.before = exc /\ e.after = new /\ e.transition = Transition(r, now)
    BY <1>0, <2>2, <2>4 DEF Event
  <2>6. /\ (e.transition = "changed") <=> (e.before.status = "active" /\ e.after.status = "active")
        /\ (e.transition = "resolved") <=> e.after.status = "resolved"
    BY <2>2, <2>5 DEF Transition
  <2>7. new.status # exc.status \/ new.missing # exc.missing \/ new.deadline # exc.deadline
    BY <1>2, <2>2, DesiredType DEF Unchanged, ExceptionSound, NoException, d
  <2>8. ASSUME NEW v \in Nat PROVE [e.before EXCEPT !.version = v] # e.after
    BY <1>0, <2>2, <2>5, <2>7 DEF Exception
  <2> HIDE DEF e
  <2>9. events' \in Seq(Event) /\ Len(events') = Len(events) + 1
        /\ events'[Len(events) + 1] = e
        /\ \A v \in 1..Len(events) : events'[v] = events[v]
    BY <1>0, <2>1, <2>5
  <2>10. exc = IF Len(events) = 0 THEN NoException ELSE events[Len(events)].after
    BY <1>0 DEF EventsChain, ExceptionSound
  <2>11. EventsChain'
    <3> DEFINE Link(v) ==
          LET f == events'[v] IN
          /\ f.before = IF v = 1 THEN NoException ELSE events'[v - 1].after
          /\ [f.before EXCEPT !.version = v] # f.after
          /\ (f.transition = "changed") <=>
                f.before.status = "active" /\ f.after.status = "active"
          /\ (f.transition = "resolved") <=> f.after.status = "resolved"
    <3>1. exc'.version = Len(events') /\ exc' = events'[Len(events')].after
      BY <1>0, <2>1, <2>2, <2>5, <2>9 DEF EventsChain
    <3>2. ASSUME NEW v \in 1..Len(events) PROVE Link(v)
      <4>1. /\ Len(events) \in Nat /\ events'[v] = events[v]
            /\ v # 1 => events'[v - 1] = events[v - 1]
        BY <1>0, <2>9
      <4>2. /\ events[v].before = IF v = 1 THEN NoException ELSE events[v - 1].after
            /\ [events[v].before EXCEPT !.version = v] # events[v].after
            /\ (events[v].transition = "changed") <=>
                  events[v].before.status = "active" /\ events[v].after.status = "active"
            /\ (events[v].transition = "resolved") <=> events[v].after.status = "resolved"
        BY Zenon DEF EventsChain
      <4>3. events'[v].before = IF v = 1 THEN NoException ELSE events'[v - 1].after
        <5>1. events[v].before = IF v = 1 THEN NoException ELSE events[v - 1].after
          BY <4>2
        <5> QED
          BY <5>1, <4>1
      <4> QED
        BY <4>1, <4>2, <4>3, Zenon
    <3>3. Link(Len(events) + 1)
      <4>1. Len(events) \in Nat
        BY <1>0
      <4>2. e.before = IF Len(events) + 1 = 1 THEN NoException ELSE events'[Len(events)].after
        BY <4>1, <2>5, <2>9, <2>10
      <4>3. [e.before EXCEPT !.version = Len(events) + 1] # e.after
        <5>1. Len(events) + 1 \in Nat
          BY <4>1
        <5> QED
          BY <5>1, <2>8, Zenon
      <4> QED
        BY <4>1, <4>2, <4>3, <2>6, <2>9
    <3>4. \A v \in 1..Len(events') : Link(v)
      <4> HIDE DEF Link
      <4> QED
        BY <1>0, <2>9, <3>2, <3>3
    <3> QED
      BY <3>1, <3>4 DEF EventsChain
  <2> QED
    BY <2>1, <2>2, <2>3, <2>9, <2>11, <1>0 DEF ExceptionSound
<1> QED
  BY <1>1, <1>2

\* reconcile_shipment of a consistent row keeps the documents, tells the truth about
\* them and brings the exception up to date.
LEMMA ReconcileSound ==
    ASSUME TypeOK, EventsChain, ExceptionSound, doc' = doc,
           NEW r \in Row, r.exists, Consistent(r),
           NEW rate \in Content, rate # "absent" => r.slot["rate_con"] # NoDoc,
           rateTable' = rate, NEW now, NEW key, Reconcile(r, rate, now, key)
    PROVE  /\ row' \in Row /\ row'.exists /\ row'.has = r.has /\ row'.slot = r.slot
           /\ StatusIsTruthful'
           /\ ExceptionIsCurrent'
           /\ exc' \in Exception /\ events' \in Seq(Event)
           /\ EventsChain'
           /\ ExceptionSound'
<1> DEFINE present == [r EXCEPT !.has["rate_con"] = @ \/ rate # "absent"]
<1>1. r.slot \in [Types -> Writers \cup {NoDoc}] /\ r.has \in [Types -> BOOLEAN]
      /\ "rate_con" \in Types
  BY DEF Row, Types
<1>2. (r.has["rate_con"] \/ rate # "absent") = r.has["rate_con"]
  BY <1>1 DEF Consistent
<1>3. present = r
  <2>1. [r.has EXCEPT !["rate_con"] = r.has["rate_con"]] = r.has
    BY <1>1
  <2>2. present = [r EXCEPT !.has = [r.has EXCEPT !["rate_con"] = r.has["rate_con"]]]
    BY <1>2
  <2> QED
    BY <2>1, <2>2 DEF Row
<1>4. /\ row' = [r EXCEPT !.status = StatusOf(r, rate, now)]
      /\ SyncException(r, now)
  BY <1>3, Zenon DEF Reconcile
<1>5. StatusOf(r, rate, now) \in Status
  BY StatusOfTruth
<1>6. /\ row' \in Row /\ row'.exists /\ row'.has = r.has /\ row'.slot = r.slot
      /\ row'.status = StatusOf(r, rate, now)
  BY <1>4, <1>5 DEF Row
<1>7. Missing(row') = Missing(r) /\ Checks(row', rate) = Checks(r, rate)
  BY <1>6, ChecksOfDocuments
<1>8. Missing(row)' = Missing(row') /\ Checks(row, rateTable)' = Checks(row', rate)
  BY DEF Missing, Checks, ContentOf, PodCheck
<1>9. StatusIsTruthful'
  BY <1>6, <1>7, <1>8, StatusOfTruth DEF StatusIsTruthful
<1>10. /\ exc' \in Exception /\ events' \in Seq(Event) /\ EventsChain' /\ ExceptionSound'
       /\ exc'.status = "active" => Overdue(r, now) /\ exc'.missing = Missing(r)
  BY <1>4, SyncChains
<1>11. ExceptionIsCurrent'
  BY <1>6, <1>7, <1>8, <1>10, StatusOfTruth DEF ExceptionIsCurrent, Overdue
<1> QED
  BY <1>6, <1>9, <1>10, <1>11

-----------------------------------------------------------------------------
(* The steps *)

\* Nothing has happened.
LEMMA InitInv == Init => ShipInv
<1> SUFFICES ASSUME Init PROVE ShipInv
  OBVIOUS
<1>1. TypeOK
  <2>1. rateTable \in Content
    BY DocType DEF Init, Content, Writers
  <2>2. /\ pc \in [Procs -> {"new", "locked", "done", "scan", "picked"}]
        /\ seen \in [Procs -> Row] /\ scanNow \in [Scanners -> 0..MaxClock]
        /\ clock \in 0..MaxClock /\ restarts \in 0..MaxRestarts /\ faults \in 0..MaxFaults
    BY NoRowType, ShipmentAssumption DEF Init
  <2> QED
    BY <2>1, <2>2, NoRowType, NoExceptionType DEF Init, TypeOK
<1>2. LocksSound /\ RateAttached /\ SlotsMatchFlags /\ StatusIsTruthful
  BY NoRowType DEF Init, LocksSound, RateAttached, SlotsMatchFlags, StatusIsTruthful
<1>3. ExceptionSound /\ ExceptionIsCurrent /\ EventsChain
  BY DEF Init, NoException, ExceptionSound, ExceptionIsCurrent, EventsChain
<1> QED
  BY <1>1, <1>2, <1>3 DEF ShipInv

\* A step that commits nothing keeps what is said of committed rows.
LEMMA CommitsNothing ==
    ASSUME ShipInv, UNCHANGED <<row, doc, attached, rateTable, exc, events>>,
           TypeOK',
           \A x \in Procs : pc'[x] = "locked" =>
              /\ lock' = x
              /\ seen'[x].exists
              /\ seen'[x].has = row.has
              /\ seen'[x].slot = row.slot
              /\ x \in Scanners => row.exists
    PROVE  ShipInv'
<1>1. LocksSound'
  BY DEF ShipInv, LocksSound
<1>2. RateAttached' /\ SlotsMatchFlags'
  BY DEF ShipInv, RateAttached, SlotsMatchFlags
<1>3. StatusIsTruthful' /\ ExceptionIsCurrent'
  <2>1. Missing(row)' = Missing(row) /\ Checks(row, rateTable)' = Checks(row, rateTable)
    BY DEF Missing, Checks, ContentOf, PodCheck
  <2> QED
    BY <2>1 DEF ShipInv, StatusIsTruthful, ExceptionIsCurrent
<1>4. ExceptionSound' /\ EventsChain'
  BY Zenon DEF ShipInv, ExceptionSound, EventsChain
<1> QED
  BY <1>1, <1>2, <1>3, <1>4 DEF ShipInv

\* A process inside a transaction is alone there.
LEMMA LockExclusive ==
    ASSUME ShipInv, NEW x \in Procs, pc[x] = "locked"
    PROVE  \A y \in Procs : pc[y] = "locked" => y = x
  BY DEF ShipInv, LocksSound

LEMMA LockShipmentStep ==
    ASSUME ShipInv, NEW x \in Writers, LockShipment(x) PROVE ShipInv'
<1> DEFINE fresh == [NoRow EXCEPT !.exists = TRUE, !.created = clock]
           r == IF row.exists THEN row ELSE fresh
<1>1. /\ lock = NoOne /\ lock' = x
      /\ pc' = [pc EXCEPT ![x] = "locked"] /\ seen' = [seen EXCEPT ![x] = r]
      /\ UNCHANGED <<row, doc, attached, rateTable, exc, events, scanNow, clock, sla,
                     restarts, faults>>
  BY DEF LockShipment, LockFree, envVars
<1>2. x \in Procs /\ x \notin Scanners /\ x # NoOne
  BY Kinds
<1>3. fresh \in Row /\ fresh.exists /\ fresh.has = NoRow.has /\ fresh.slot = NoRow.slot
  <2>1. clock \in 0..MaxClock
    BY DEF ShipInv, TypeOK
  <2> QED
    BY <2>1, NoRowType DEF Row
<1> HIDE DEF fresh
<1>4. r \in Row /\ r.exists /\ r.has = row.has /\ r.slot = row.slot
  BY <1>3 DEF ShipInv, TypeOK, LocksSound
<1> HIDE DEF r
<1>5. \A y \in Procs : pc[y] # "locked"
  BY <1>1, Kinds DEF ShipInv, LocksSound
<1>6. TypeOK'
  BY <1>1, <1>2, <1>4 DEF ShipInv, TypeOK
<1>7. \A y \in Procs : pc'[y] = "locked" => y = x
  BY <1>1, <1>5 DEF ShipInv, TypeOK
<1>8. seen'[x] = r
  BY <1>1, <1>2 DEF ShipInv, TypeOK
<1> QED
  BY <1>1, <1>2, <1>4, <1>6, <1>7, <1>8, CommitsNothing

LEMMA AssembleStep ==
    ASSUME ShipInv, NEW x \in Writers, Assemble(x)
    PROVE  ShipInv' /\ \A t \in Types : row.slot[t] # NoDoc => row'.slot[t] = row.slot[t]
<1> DEFINE rate == IF x = Manual THEN doc[Manual].content ELSE rateTable
           r == Assembled(seen[x], x, rate)
<1>1. /\ pc[x] = "locked"
      /\ Reconcile(r, rate, clock, <<"run", x>>)
      /\ attached' = attached \cup {x} \cup ({r.slot["rate_con"]} \ {NoDoc})
      /\ rateTable' = rate /\ lock' = NoOne
      /\ pc' = [pc EXCEPT ![x] = "done"] /\ seen' = [seen EXCEPT ![x] = NoRow]
      /\ UNCHANGED <<doc, scanNow, clock, sla, restarts, faults>>
  BY DEF Assemble, envVars
<1>2. x \in Procs /\ x \notin Scanners /\ TypeOK /\ doc \in Extractions /\ seen[x] \in Row
  BY Kinds DEF ShipInv, TypeOK
<1>3. rate \in Content
  BY <1>2, DocType, ShipmentAssumption DEF ShipInv, TypeOK, Writers
<1>4. seen[x].exists /\ seen[x].has = row.has /\ seen[x].slot = row.slot
  BY <1>1, <1>2 DEF ShipInv, LocksSound
<1>5. Consistent(seen[x])
  BY <1>4 DEF ShipInv, SlotsMatchFlags, Consistent
<1> HIDE DEF rate
<1>6. /\ r \in Row /\ r.exists
      /\ \A t \in Types : row.slot[t] # NoDoc => r.slot[t] = row.slot[t]
      /\ \A t \in Types : \/ r.slot[t] = row.slot[t]
                          \/ r.slot[t] = x /\ doc[x].type = t
                          \/ r.slot[t] = Manual /\ t = "rate_con"
      /\ Consistent(r)
      /\ rate # "absent" => r.slot["rate_con"] # NoDoc
  BY <1>2, <1>3, <1>4, <1>5, AssembledSlots
<1> HIDE DEF r
<1>7. /\ row' \in Row /\ row'.exists /\ row'.has = r.has /\ row'.slot = r.slot
      /\ StatusIsTruthful' /\ ExceptionIsCurrent'
      /\ exc' \in Exception /\ events' \in Seq(Event) /\ EventsChain' /\ ExceptionSound'
  BY <1>1, <1>2, <1>3, <1>6, ReconcileSound DEF ShipInv
<1>8. SlotsMatchFlags'
  <2> SUFFICES ASSUME NEW t \in Types
               PROVE  /\ r.has[t] <=> r.slot[t] # NoDoc
                      /\ r.slot[t] # NoDoc => r.slot[t] \in attached' /\ doc[r.slot[t]].type = t
    BY <1>1, <1>7 DEF SlotsMatchFlags
  <2>1. r.has[t] <=> r.slot[t] # NoDoc
    BY <1>6 DEF Consistent
  <2>2. CASE r.slot[t] = row.slot[t]
    BY <2>1, <2>2, <1>1 DEF ShipInv, SlotsMatchFlags
  <2>3. CASE r.slot[t] = x /\ doc[x].type = t
    BY <2>1, <2>3, <1>1
  <2>4. CASE r.slot[t] = Manual /\ t = "rate_con"
    BY <2>1, <2>4, <1>1, <1>2, DocType
  <2> QED
    BY <2>2, <2>3, <2>4, <1>6
<1>9. RateAttached'
  BY <1>1, <1>6, <1>7 DEF RateAttached
<1>10. TypeOK'
  <2>1. attached' \subseteq Writers
    <3>1. r.slot["rate_con"] \in Writers \cup {NoDoc}
      BY <1>6 DEF Row, Types
    <3> QED
      BY <3>1, <1>1, <1>2 DEF TypeOK
  <2> QED
    BY <2>1, <1>1, <1>2, <1>3, <1>7, NoRowType DEF TypeOK
<1>11. LocksSound'
  <2>1. \A y \in Procs : pc'[y] # "locked"
    BY <1>1, <1>2, LockExclusive DEF TypeOK
  <2> QED
    BY <2>1, <1>7 DEF LocksSound
<1> QED
  BY <1>6, <1>7, <1>8, <1>9, <1>10, <1>11 DEF ShipInv

LEMMA ScanEvaluateStep ==
    ASSUME ShipInv, NEW s \in Scanners, ScanEvaluate(s)
    PROVE  ShipInv' /\ row'.slot = row.slot
<1> DEFINE r == seen[s]
<1>1. /\ pc[s] = "locked"
      /\ Reconcile(r, rateTable, scanNow[s], <<"sla", Deadline(r), Missing(r)>>)
      /\ lock' = NoOne
      /\ pc' = [pc EXCEPT ![s] = "scan"] /\ seen' = [seen EXCEPT ![s] = NoRow]
      /\ UNCHANGED <<doc, attached, rateTable, scanNow, clock, sla, restarts, faults>>
  BY DEF ScanEvaluate, envVars
<1>2. s \in Procs /\ TypeOK /\ r \in Row
  BY Kinds DEF ShipInv, TypeOK
<1>3. r.exists /\ r.has = row.has /\ r.slot = row.slot /\ row.exists
  BY <1>1, <1>2 DEF ShipInv, LocksSound
<1>4. Consistent(r) /\ (rateTable # "absent" => r.slot["rate_con"] # NoDoc)
  BY <1>3 DEF ShipInv, SlotsMatchFlags, Consistent, RateAttached
<1>5. rateTable \in Content /\ rateTable' = rateTable /\ doc' = doc
  BY <1>1, <1>2 DEF TypeOK
<1> HIDE DEF r
<1>6. /\ row' \in Row /\ row'.exists /\ row'.has = r.has /\ row'.slot = r.slot
      /\ StatusIsTruthful' /\ ExceptionIsCurrent'
      /\ exc' \in Exception /\ events' \in Seq(Event) /\ EventsChain' /\ ExceptionSound'
  BY <1>1, <1>2, <1>3, <1>4, <1>5, ReconcileSound DEF ShipInv
<1>7. SlotsMatchFlags' /\ RateAttached'
  BY <1>1, <1>3, <1>6 DEF ShipInv, SlotsMatchFlags, RateAttached
<1>8. TypeOK'
  BY <1>1, <1>2, <1>6, NoRowType DEF TypeOK
<1>9. LocksSound'
  <2>1. \A y \in Procs : pc'[y] # "locked"
    BY <1>1, <1>2, LockExclusive DEF TypeOK
  <2> QED
    BY <2>1, <1>6 DEF LocksSound
<1> QED
  BY <1>3, <1>6, <1>7, <1>8, <1>9 DEF ShipInv

\* A process that leaves a transaction, or is outside one, and commits nothing.
LEMMA IdleStep ==
    ASSUME ShipInv, NEW x \in Procs, NEW label \in {"new", "scan", "picked"},
           pc' = [pc EXCEPT ![x] = label],
           UNCHANGED <<row, doc, attached, rateTable, exc, events, clock, sla, restarts>>,
           lock' = IF lock = x THEN NoOne ELSE lock,
           seen' = seen \/ seen' = [seen EXCEPT ![x] = NoRow],
           scanNow' \in [Scanners -> 0..MaxClock], faults' \in 0..MaxFaults
    PROVE  ShipInv'
<1>1. /\ pc'[x] = label /\ \A y \in Procs : y # x => pc'[y] = pc[y] /\ seen'[y] = seen[y]
  BY DEF ShipInv, TypeOK
<1>2. TypeOK'
  BY NoRowType DEF ShipInv, TypeOK
<1>3. \A y \in Procs : pc'[y] = "locked" =>
         y # x /\ pc[y] = "locked" /\ seen'[y] = seen[y]
  BY <1>1
<1> QED
  BY <1>2, <1>3, CommitsNothing DEF ShipInv, LocksSound

LEMMA RetryStep == ASSUME ShipInv, NEW x \in Writers, Retry(x) PROVE ShipInv'
<1>1. /\ pc[x] = "done" /\ x \in Procs
      /\ pc' = [pc EXCEPT ![x] = "new"] /\ "new" \in {"new", "scan", "picked"}
      /\ UNCHANGED <<row, doc, attached, rateTable, exc, events, clock, sla, restarts>>
      /\ seen' = seen /\ scanNow' = scanNow /\ lock' = lock
  BY Kinds DEF Retry, envVars
<1>2. scanNow' \in [Scanners -> 0..MaxClock] /\ faults' \in 0..MaxFaults
  BY <1>1, ShipmentAssumption DEF Retry, ShipInv, TypeOK
<1>3. \A y \in Procs : pc'[y] = "locked" => pc[y] = "locked"
  BY <1>1 DEF ShipInv, TypeOK
<1>4. TypeOK'
  BY <1>1, <1>2 DEF ShipInv, TypeOK
<1> QED
  BY <1>1, <1>3, <1>4, CommitsNothing DEF ShipInv, LocksSound

\* A scanner outside its transaction does not hold the lock.
LEMMA ScannerIdle ==
    ASSUME ShipInv, NEW s \in Scanners, NEW label \in {"new", "scan", "picked"},
           pc[s] # "locked", pc' = [pc EXCEPT ![s] = label],
           UNCHANGED <<row, doc, attached, rateTable, exc, events, clock, sla, restarts,
                       lock, seen, faults>>,
           scanNow' \in [Scanners -> 0..MaxClock]
    PROVE  ShipInv'
<1>1. s \in Procs
  BY Kinds
<1>2. \A y \in Procs : pc'[y] = "locked" => pc[y] = "locked"
  BY <1>1 DEF ShipInv, TypeOK
<1>3. TypeOK'
  BY <1>1 DEF ShipInv, TypeOK
<1> QED
  BY <1>2, <1>3, CommitsNothing DEF ShipInv, LocksSound

\* The time a scan began at is a time.
LEMMA ScanTimes ==
    ASSUME ShipInv, NEW s \in Scanners
    PROVE  /\ [scanNow EXCEPT ![s] = 0] \in [Scanners -> 0..MaxClock]
           /\ [scanNow EXCEPT ![s] = clock] \in [Scanners -> 0..MaxClock]
           /\ scanNow \in [Scanners -> 0..MaxClock]
  BY ShipmentAssumption DEF ShipInv, TypeOK

LEMMA ScanStartStep == ASSUME ShipInv, NEW s \in Scanners, ScanStart(s) PROVE ShipInv'
<1>1. /\ pc[s] # "locked" /\ pc' = [pc EXCEPT ![s] = "scan"]
      /\ scanNow' \in [Scanners -> 0..MaxClock]
      /\ UNCHANGED <<row, doc, attached, rateTable, exc, events, clock, sla, restarts,
                     lock, seen, faults>>
  BY ScanTimes DEF ScanStart, envVars
<1> QED
  BY <1>1, ScannerIdle

LEMMA ScanSelectStep == ASSUME ShipInv, NEW s \in Scanners, ScanSelect(s) PROVE ShipInv'
<1>1. /\ pc[s] # "locked"
      /\ scanNow' \in [Scanners -> 0..MaxClock]
      /\ UNCHANGED <<row, doc, attached, rateTable, exc, events, clock, sla, restarts,
                     lock, seen, faults>>
  BY ScanTimes DEF ScanSelect, ScanEnds, envVars
<1>2. pc' = [pc EXCEPT ![s] = "picked"] \/ pc' = [pc EXCEPT ![s] = "new"]
  BY DEF ScanSelect, ScanEnds
<1> QED
  BY <1>1, <1>2, ScannerIdle

LEMMA ScanLockStep == ASSUME ShipInv, NEW s \in Scanners, ScanLock(s) PROVE ShipInv'
<1>1. /\ pc[s] # "locked" /\ s \in Procs
      /\ UNCHANGED <<row, doc, attached, rateTable, exc, events, clock, sla, restarts, faults>>
  BY Kinds DEF ScanLock, envVars
<1>2. CASE LockFree /\ PastSla(s)
  <2>1. /\ lock = NoOne /\ row.exists /\ lock' = s
        /\ pc' = [pc EXCEPT ![s] = "locked"] /\ seen' = [seen EXCEPT ![s] = row]
        /\ scanNow' = scanNow
    BY <1>2 DEF ScanLock, LockFree, PastSla
  <2>2. \A y \in Procs : pc[y] # "locked"
    BY <2>1, Kinds DEF ShipInv, LocksSound
  <2>3. \A y \in Procs : pc'[y] = "locked" => y = s
    BY <2>1, <2>2, <1>1 DEF ShipInv, TypeOK
  <2>4. seen'[s] = row
    BY <2>1, <1>1 DEF ShipInv, TypeOK
  <2>5. TypeOK'
    BY <2>1, <1>1 DEF ShipInv, TypeOK
  <2> QED
    BY <2>1, <2>3, <2>4, <2>5, <1>1, CommitsNothing
<1>3. CASE ~(LockFree /\ PastSla(s))
  <2>1. /\ pc' = [pc EXCEPT ![s] = "new"] /\ UNCHANGED <<lock, seen>>
        /\ scanNow' \in [Scanners -> 0..MaxClock]
    BY <1>3, ScanTimes DEF ScanLock, ScanEnds
  <2> QED
    BY <2>1, <1>1, ScannerIdle
<1> QED
  BY <1>2, <1>3

LEMMA RollbackStep == ASSUME ShipInv, NEW x \in Procs, Rollback(x) PROVE ShipInv'
<1>1. /\ pc' = [pc EXCEPT ![x] = "new"]
      /\ UNCHANGED <<row, doc, attached, rateTable, exc, events, clock, sla, restarts>>
      /\ lock' = IF lock = x THEN NoOne ELSE lock
      /\ seen' = [seen EXCEPT ![x] = NoRow]
  BY DEF Rollback, ScanEnds, envVars
<1>2. scanNow' \in [Scanners -> 0..MaxClock]
  <2>1. CASE x \in Scanners
    BY <2>1, ScanTimes DEF Rollback, ScanEnds
  <2>2. CASE x \notin Scanners
    BY <2>2 DEF Rollback, ShipInv, TypeOK
  <2> QED
    BY <2>1, <2>2
<1>3. faults' \in 0..MaxFaults
  BY ShipmentAssumption DEF Rollback, ShipInv, TypeOK
<1> QED
  BY <1>1, <1>2, <1>3, IdleStep

LEMMA RestartStep == ASSUME ShipInv, Restart PROVE ShipInv'
<1>1. /\ UNCHANGED <<row, doc, attached, rateTable, exc, events, clock, faults>>
      /\ \A x \in Procs : pc'[x] # "locked"
  BY DEF Restart
<1>2. TypeOK'
  <2>1. restarts' \in 0..MaxRestarts /\ sla' \in Slas
        /\ scanNow' \in [Scanners -> 0..MaxClock]
    BY ShipmentAssumption DEF Restart, ShipInv, TypeOK
  <2>2. pc' \in [Procs -> {"new", "locked", "done", "scan", "picked"}]
    BY DEF Restart
  <2>3. seen' \in [Procs -> Row] /\ lock' \in Procs \cup {NoOne}
    BY NoRowType DEF Restart
  <2> QED
    BY <2>1, <2>2, <2>3, <1>1 DEF ShipInv, TypeOK
<1> QED
  BY <1>1, <1>2, CommitsNothing

LEMMA TickStep == ASSUME ShipInv, Tick PROVE ShipInv'
<1>1. /\ UNCHANGED <<row, doc, attached, rateTable, exc, events, lock, pc, seen, scanNow,
                     sla, restarts, faults>>
      /\ clock' \in 0..MaxClock
  BY ShipmentAssumption DEF Tick, procVars, ShipInv, TypeOK
<1>2. TypeOK'
  BY <1>1 DEF ShipInv, TypeOK
<1> QED
  BY <1>1, <1>2, CommitsNothing DEF ShipInv, LocksSound

-----------------------------------------------------------------------------
(* The theorems *)

\* A transaction commits, or the row stays as it is; a commit keeps filled slots.
LEMMA NextInv ==
    ASSUME ShipInv, [Next]_vars
    PROVE  /\ ShipInv'
           /\ row' = row \/ \A t \in Types : row.slot[t] # NoDoc => row'.slot[t] = row.slot[t]
<1>1. ASSUME NEW x \in Writers, LockShipment(x) \/ Assemble(x) \/ Retry(x)
      PROVE  /\ ShipInv'
             /\ \/ row' = row
                \/ \A t \in Types : row.slot[t] # NoDoc => row'.slot[t] = row.slot[t]
  <2>1. CASE LockShipment(x)
    BY <2>1, LockShipmentStep DEF LockShipment
  <2>2. CASE Assemble(x)
    BY <2>2, AssembleStep
  <2>3. CASE Retry(x)
    BY <2>3, RetryStep DEF Retry
  <2> QED
    BY <1>1, <2>1, <2>2, <2>3
<1>2. ASSUME NEW s \in Scanners, Scan(s)
      PROVE  ShipInv' /\ (row' = row \/ row'.slot = row.slot)
  <2>1. CASE ScanStart(s)
    BY <2>1, ScanStartStep DEF ScanStart
  <2>2. CASE ScanSelect(s)
    BY <2>2, ScanSelectStep DEF ScanSelect
  <2>3. CASE ScanLock(s)
    BY <2>3, ScanLockStep DEF ScanLock
  <2>4. CASE ScanEvaluate(s)
    BY <2>4, ScanEvaluateStep
  <2> QED
    BY <1>2, <2>1, <2>2, <2>3, <2>4 DEF Scan
<1>3. ASSUME NEW x \in Procs, Rollback(x) PROVE ShipInv' /\ row' = row
  BY <1>3, RollbackStep DEF Rollback
<1>4. CASE Restart
  BY <1>4, RestartStep DEF Restart
<1>5. CASE Tick
  BY <1>5, TickStep DEF Tick
<1>6. CASE UNCHANGED vars
  <2>1. /\ UNCHANGED <<row, doc, attached, rateTable, exc, events, lock, pc, seen, scanNow,
                       clock, sla, restarts, faults>>
    BY <1>6 DEF vars, procVars, envVars
  <2>2. TypeOK'
    BY <2>1 DEF ShipInv, TypeOK
  <2> QED
    BY <2>1, <2>2, CommitsNothing DEF ShipInv, LocksSound
<1> QED
  BY <1>1, <1>2, <1>3, <1>4, <1>5, <1>6 DEF Next

\* The inductive invariant of a shipment holds for ever.
THEOREM ShipmentsInvariant == Spec => []ShipInv
<1>1. ShipInv /\ [Next]_vars => ShipInv'
  BY NextInv
<1> QED
  BY <1>1, InitInv, PTL DEF Spec

\* Every variable keeps its type.
THEOREM ShipmentsTypeCorrect == Spec => []TypeOK
<1>1. ShipInv => TypeOK
  BY DEF ShipInv
<1> QED
  BY <1>1, ShipmentsInvariant, PTL

\* The committed status is the truth about the committed documents: reconciled exactly
\* when all are there and every check passed, never hiding a failed check.
THEOREM StatusesAreTruthful == Spec => []StatusIsTruthful
<1>1. ShipInv => StatusIsTruthful
  BY DEF ShipInv
<1> QED
  BY <1>1, ShipmentsInvariant, PTL

\* Presence flags and document slots say the same, and a slot holds an attached
\* document of its type.
THEOREM SlotsAlwaysMatch == Spec => []SlotsMatchFlags
<1>1. ShipInv => SlotsMatchFlags
  BY DEF ShipInv
<1> QED
  BY <1>1, ShipmentsInvariant, PTL

\* An active missing-document exception lists what is missing now, and the shipment
\* shows it.
THEOREM ExceptionsAreCurrent == Spec => []ExceptionIsCurrent
<1>1. ShipInv => ExceptionIsCurrent
  BY DEF ShipInv
<1> QED
  BY <1>1, ShipmentsInvariant, PTL

\* The exception's events are its gapless history, however many scanners run.
THEOREM EventsAlwaysChain == Spec => []EventsChain
<1>1. ShipInv => EventsChain
  BY DEF ShipInv
<1> QED
  BY <1>1, ShipmentsInvariant, PTL

\* No step of any writer or scanner replaces the first document of a type.
THEOREM CanonicalDocumentsStay == Spec => CanonicalStays
<1>1. ShipInv /\ [Next]_vars =>
        [\A t \in Types : row.slot[t] # NoDoc => row'.slot[t] = row.slot[t]]_row
  BY NextInv
<1> QED
  BY <1>1, ShipmentsInvariant, PTL DEF Spec, CanonicalStays
==============================================================================
