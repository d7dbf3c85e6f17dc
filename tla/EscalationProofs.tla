-------------------------- MODULE EscalationProofs --------------------------
(***************************************************************************)
(* Proofs about Escalation for every number of heads, advices, outages,    *)
(* crashes and rulings.  The inductive invariant relates what the recovery *)
(* thread holds in its local variables (the advice it took and what it is  *)
(* about to do with it) to the rows it will write next.                    *)
(***************************************************************************)
EXTENDS Escalation, TLAPS

\* The recovery thread does what it decided in Look: pc and act agree.
ActMatches ==
    /\ rec.pc # "poll" => rec.act \in {"park", "decide", "repair"}
    /\ rec.pc \in ActPcs => rec.act = (IF rec.pc = "job" THEN "decide" ELSE rec.pc)

\* An advice about to be parked has no decision, and its poll stays hopeless.
ParkJustified ==
    rec.act = "park" /\ rec.pc \in {"take", "park"} =>
        DecisionOf(rec.advice) = {} /\ advisor[rec.advice] = "hopeless"

\* Only a hopeless advice is ever parked by the recovery thread.
ParkedIsHopeless ==
    \A r \in Of("parked") : r.advice # Nobody => advisor[r.advice] = "hopeless"

\* An advice about to be decided was never parked.
DecideJustified ==
    rec.act = "decide" /\ rec.pc \in {"take", "decide"} =>
        \A r \in Of("parked") : r.advice # rec.advice

Inv ==
    /\ TypeOK
    /\ ActMatches
    /\ ParkJustified
    /\ ParkedIsHopeless
    /\ DecideJustified
    /\ OneDecisionPerAdvice
    /\ OneOutcomePerAdvice
    /\ NoMarkerGap

-----------------------------------------------------------------------------
\* One INSERT keeps the table well formed.
LEMMA RecordOK ==
    ASSUME RowsOK, NEW p \in Phases, NEW a \in Advices \cup {Nobody}, NEW h \in Heads,
           p \in {"escalating", "inflight"} => a # Nobody, Record(p, a, h)
    PROVE  RowsOK' /\ recent' \in BOOLEAN
<1> DEFINE new == [id |-> lastId + 1, phase |-> p, advice |-> a, head |-> h, old |-> FALSE]
<1>1. new \in Rows /\ new.id = lastId + 1 /\ new.phase = p /\ new.advice = a
  BY DEF RowsOK, Rows
<1>2. rows' = rows \cup {new} /\ lastId' = lastId + 1
  BY DEF Record
<1>3. \A r \in rows : r.id \in Nat /\ r.id <= lastId /\ r.id # new.id
  BY <1>1 DEF RowsOK, Rows
<1>4. \A r \in rows' : r.id <= lastId'
  BY <1>1, <1>2, <1>3 DEF RowsOK
<1> HIDE DEF new
<1>5. \A r, s \in rows' : r.id = s.id => r = s
  BY <1>1, <1>2, <1>3 DEF RowsOK
<1>6. rows' \subseteq Rows /\ lastId' \in Nat
  BY <1>1, <1>2 DEF RowsOK
<1>7. \A r \in rows' : r.phase \in {"escalating", "inflight"} => r.advice # Nobody
  BY <1>1, <1>2 DEF RowsOK
<1>8. recent' = TRUE
  BY DEF Record
<1> QED BY <1>4, <1>5, <1>6, <1>7, <1>8 DEF RowsOK

\* Deleting rows, and changing only the phase and the age of rows between the
\* two marker phases, keep the table well formed.
LEMMA DeleteOK ==
    ASSUME RowsOK, NEW gone, rows' = rows \ gone, lastId' = lastId
    PROVE  RowsOK'
BY DEF RowsOK

\* See DeleteOK: the rows of `moved` change their phase and age in place.
LEMMA RephaseOK ==
    ASSUME RowsOK, NEW kept, kept \subseteq rows, NEW moved, moved \subseteq rows,
           \A r \in moved : r \notin kept /\ r.phase \in {"escalating", "inflight"},
           NEW p \in {"escalating", "inflight"}, NEW b \in BOOLEAN,
           rows' = kept \cup Rephased(moved, p, b),
           lastId' = lastId
    PROVE  RowsOK'
<1> DEFINE To(r) == [r EXCEPT !.phase = p, !.old = b]
<1>1. \A r \in moved : To(r) \in Rows /\ To(r).id = r.id /\ To(r).advice = r.advice
  BY ZenonT(60) DEF RowsOK, Rows, Phases
<1>2. \A r \in rows' : r \in kept \/ \E s \in moved : r = To(s)
  BY DEF Rephased
<1> HIDE DEF To
<1>3. rows' \subseteq Rows
  BY <1>1, <1>2 DEF RowsOK
<1>a. \A r \in rows' : \E s \in rows : r.id = s.id /\ r.advice = s.advice
  <2> TAKE r \in rows'
  <2>1. CASE r \in kept
    BY <2>1
  <2>2. CASE r \notin kept
    <3> PICK s \in moved : r = To(s)
      BY <2>2, <1>2
    <3>1. r.id = s.id /\ r.advice = s.advice /\ s \in rows
      BY <1>1
    <3> QED BY <3>1
  <2> QED BY <2>1, <2>2
<1>b. \A r \in rows : r.id <= lastId'
  BY DEF RowsOK
<1>4. \A r \in rows' : r.id <= lastId'
  BY <1>a, <1>b
<1>5. \A r, s \in rows' : r.id = s.id => r = s
  <2> TAKE r, s \in rows'
  <2> HAVE r.id = s.id
  <2>1. CASE r \in kept /\ s \in kept
    BY <2>1 DEF RowsOK
  <2>2. CASE r \in kept /\ s \notin kept
    <3> PICK t \in moved : s = To(t)
      BY <2>2, <1>2
    <3> QED BY <2>2, <1>1 DEF RowsOK
  <2>3. CASE r \notin kept /\ s \in kept
    <3> PICK t \in moved : r = To(t)
      BY <2>3, <1>2
    <3> QED BY <2>3, <1>1 DEF RowsOK
  <2>4. CASE r \notin kept /\ s \notin kept
    <3> PICK t \in moved : r = To(t)
      BY <2>4, <1>2
    <3> PICK u \in moved : s = To(u)
      BY <2>4, <1>2
    <3>1. t.id = u.id
      BY <1>1
    <3>2. t \in rows /\ u \in rows
      BY moved \subseteq rows
    <3>3. t = u
      BY <3>1, <3>2 DEF RowsOK
    <3> QED BY <3>3
  <2> QED BY <2>1, <2>2, <2>3, <2>4
<1>6. \A r \in rows' : r.phase \in {"escalating", "inflight"} => r.advice # Nobody
  <2> TAKE r \in rows'
  <2>1. CASE r \in kept
    BY <2>1 DEF RowsOK
  <2>2. CASE r \notin kept
    <3> PICK s \in moved : r = To(s)
      BY <2>2, <1>2
    <3>1. r.advice = s.advice /\ s \in rows /\ s.phase \in {"escalating", "inflight"}
      BY <1>1
    <3> QED BY <3>1 DEF RowsOK
  <2> QED BY <2>1, <2>2
<1> QED BY <1>3, <1>4, <1>5, <1>6 DEF RowsOK

\* Everything but the table has its type.
RestOK ==
    /\ job \in [state : {"none", "queued", "running", "lapsed", "done"},
                plan  : Advices \cup {Nobody}]
    /\ worker \in [Heads -> [pc : {"idle", "run", "submit", "raised", "phase", "triage", "done"},
                             advice : Advices \cup {Nobody}]]
    /\ rec \in [pc     : {"poll", "take", "clear", "rerecord"} \cup ActPcs,
                act    : ActPcs \cup {"none"},
                advice : Advices \cup {Nobody},
                head   : Heads \cup {NoHead}]
    /\ rec.pc # "poll" => rec.head \in Heads /\ rec.advice # Nobody
    /\ advisor \in [Advices -> {"unposted", "waiting", "plan", "hopeless"}]
    /\ outages \in Nat /\ crashes \in Nat /\ rulings \in Nat

\* TypeOK, taken apart.
LEMMA TypeSplit == TypeOK <=> RowsOK /\ recent \in BOOLEAN /\ RestOK
BY DEF TypeOK, RestOK

\* The types hold initially.
LEMMA TypeInit == Init => TypeOK
<1> SUFFICES ASSUME Init PROVE TypeOK
  OBVIOUS
<1>1. RowsOK /\ recent \in BOOLEAN
  BY DEF Init, RowsOK
<1>2. RestOK
  BY DEF Init, RestOK, ActPcs, Polling, IdleWorker
<1> QED BY <1>1, <1>2, TypeSplit

\* A worker of the service keeps the types.
LEMMA TypeWorkerStep ==
    ASSUME TypeOK, NEW h \in Heads, WorkerStep(h)
    PROVE  TypeOK'
<1> DEFINE Goal == RowsOK' /\ recent' \in BOOLEAN /\ RestOK'
<1>0. RowsOK /\ recent \in BOOLEAN /\ RestOK
  BY TypeSplit
<1>z. \A a \in Advices : a # Nobody
  BY DEF Advices, Nobody
<1>p. {"escalating", "inflight", "escalated", "parked"} = Phases
  BY DEF Phases
<1>1. ASSUME Gate(h) PROVE Goal
  <2>1. RowsOK' /\ recent' \in BOOLEAN
    BY <1>0, <1>1 DEF Gate, RowsOK
  <2>2. RestOK'
    BY <1>0, <1>1 DEF Gate, RestOK, bounds
  <2> QED BY <2>1, <2>2
<1>2. ASSUME Bounce(h) PROVE Goal
  <2>1. CASE AlreadyEscalated
    <3>1. RowsOK' /\ recent' \in BOOLEAN
      BY <1>0, <1>2, <1>p, <2>1, RecordOK DEF Bounce
    <3> QED BY <1>0, <1>2, <2>1, <3>1 DEF Bounce, RestOK, bounds
  <2>2. CASE ~AlreadyEscalated
    <3>1. RowsOK' /\ recent' \in BOOLEAN
      BY <1>0, <1>2, <2>2 DEF Bounce, table, RowsOK
    <3> QED BY <1>0, <1>2, <2>2, <3>1 DEF Bounce, RestOK, bounds
  <2> QED BY <2>1, <2>2
<1>3. ASSUME SubmitEscalation(h) PROVE Goal
  <2> PICK a \in Advices : Submitted(h, a, [pc |-> "phase", advice |-> a])
    BY <1>3 DEF SubmitEscalation
  <2>1. RowsOK' /\ recent' \in BOOLEAN
    BY <1>0, <1>z, <1>p, RecordOK DEF Submitted
  <2>2. RestOK'
    BY <1>0, <1>3 DEF SubmitEscalation, Submitted, RestOK, bounds
  <2> QED BY <2>1, <2>2
<1>4. ASSUME SubmitFails(h) PROVE Goal
  <2>1. RowsOK' /\ recent' \in BOOLEAN
    BY <1>0, <1>4, <1>p, RecordOK DEF SubmitFails
  <2>2. RestOK'
    BY <1>0, <1>4 DEF SubmitFails, RestOK, bounds, Outage
  <2> QED BY <2>1, <2>2
<1>5. ASSUME SubmitRaises(h) PROVE Goal
  <2> PICK a \in Advices : Submitted(h, a, [pc |-> "raised", advice |-> Nobody])
    BY <1>5 DEF SubmitRaises
  <2>1. RowsOK' /\ recent' \in BOOLEAN
    BY <1>0, <1>z, <1>p, RecordOK DEF Submitted
  <2>2. RestOK'
    BY <1>0, <1>5 DEF SubmitRaises, Submitted, RestOK, Outage
  <2> QED BY <2>1, <2>2
<1>10. ASSUME ParkRaised(h) PROVE Goal
  <2>1. RowsOK' /\ recent' \in BOOLEAN
    BY <1>0, <1>10, <1>p, RecordOK DEF ParkRaised
  <2>2. RestOK'
    BY <1>0, <1>10 DEF ParkRaised, RestOK, bounds
  <2> QED BY <2>1, <2>2
<1>6. ASSUME PhaseRow(h) PROVE Goal
  <2>1. worker[h].advice \in Advices \cup {Nobody}
    BY <1>0 DEF RestOK
  <2>2. RowsOK' /\ recent' \in BOOLEAN
    <3>1. CASE worker[h].advice = Nobody
      BY <1>0, <1>6, <1>p, <2>1, <3>1, RecordOK DEF PhaseRow
    <3>2. CASE worker[h].advice # Nobody
      BY <1>0, <1>6, <1>p, <2>1, <3>2, RecordOK DEF PhaseRow
    <3> QED BY <3>1, <3>2
  <2>3. RestOK'
    BY <1>0, <1>6 DEF PhaseRow, RestOK, bounds
  <2> QED BY <2>2, <2>3
<1>7. ASSUME Triage(h) PROVE Goal
  <2>1. RowsOK' /\ recent' \in BOOLEAN
    BY <1>0, <1>7 DEF Triage, RowsOK
  <2>2. RestOK'
    BY <1>0, <1>7 DEF Triage, RestOK, bounds
  <2> QED BY <2>1, <2>2
<1>8. ASSUME RunDies(h) PROVE Goal
  <2>1. RowsOK' /\ recent' \in BOOLEAN
    BY <1>0, <1>8 DEF RunDies, RowsOK, table
  <2>2. RestOK'
    BY <1>0, <1>8 DEF RunDies, RestOK, Outage, IdleWorker
  <2> QED BY <2>1, <2>2
<1> HIDE DEF Goal
<1>9. Goal
  BY <1>1, <1>2, <1>3, <1>4, <1>5, <1>6, <1>7, <1>8, <1>10 DEF WorkerStep
<1> QED BY <1>9 DEF Goal, TypeOK, RestOK

\* The recovery thread keeps the types.
LEMMA TypeRecoveryStep ==
    ASSUME TypeOK, ActMatches, RecoveryStep
    PROVE  TypeOK'
<1> DEFINE Goal == RowsOK' /\ recent' \in BOOLEAN /\ RestOK'
<1>0. RowsOK /\ recent \in BOOLEAN /\ RestOK
  BY TypeSplit
<1>p. {"escalating", "inflight", "escalated", "parked"} = Phases
  BY DEF Phases
<1>t. rec.pc # "poll" => rec.head \in Heads /\ rec.advice \in Advices
  BY <1>0 DEF RestOK
<1>l. Polling \in [pc : {"poll", "take", "clear", "rerecord"} \cup ActPcs, act : ActPcs \cup {"none"},
                   advice : Advices \cup {Nobody}, head : Heads \cup {NoHead}]
      /\ Polling.pc = "poll"
  BY DEF Polling
<1>1. ASSUME Reclaim PROVE Goal
  <2> PICK m \in Stale :
         rows' = IF Settled(m) \/ Superseded(m)
                 THEN rows \ {m}
                 ELSE (rows \ {m}) \cup Rephased({m}, "escalating", FALSE)
    BY <1>1 DEF Reclaim
  <2>1. m \in rows /\ m.phase = "inflight"
    BY DEF Stale, Of
  <2>2. lastId' = lastId
    BY <1>1 DEF Reclaim
  <2>3. RowsOK'
    <3>1. CASE Settled(m) \/ Superseded(m)
      BY <1>0, <2>2, <3>1, DeleteOK
    <3>2. CASE ~(Settled(m) \/ Superseded(m))
      BY <1>0, <2>1, <2>2, <3>2, RephaseOK
    <3> QED BY <3>1, <3>2
  <2>4. recent' \in BOOLEAN /\ RestOK'
    BY <1>0, <1>1 DEF Reclaim, RestOK, bounds
  <2> QED BY <2>3, <2>4
<1>2. ASSUME Look PROVE Goal
  <2>1. RowsOK' /\ recent' \in BOOLEAN
    BY <1>0, <1>2 DEF Look, RowsOK, table
  <2> PICK m \in Of("escalating") : \E v \in Verdicts(m) :
         rec' = [pc |-> "take", act |-> v, advice |-> m.advice, head |-> m.head]
    BY <1>2 DEF Look
  <2>2. m.advice \in Advices \cup {Nobody} /\ m.head \in Heads /\ m.advice # Nobody
    BY <1>0 DEF RowsOK, Rows, Of
  <2> PICK v \in Verdicts(m) :
         rec' = [pc |-> "take", act |-> v, advice |-> m.advice, head |-> m.head]
    OBVIOUS
  <2>3. v \in ActPcs
    BY DEF Verdicts, ActPcs
  <2>4. RestOK'
    <3>1. outages' \in Nat /\ crashes' \in Nat /\ rulings' \in Nat
      BY <1>0, <1>2 DEF Look, RestOK, bounds, Outage
    <3> QED BY <1>0, <1>2, <2>2, <2>3, <3>1 DEF Look, RestOK
  <2> QED BY <2>1, <2>4
<1>3. ASSUME Take PROVE Goal
  <2> DEFINE esc == Of("escalating")
             own == {r \in esc : r.advice = rec.advice}
             won == \E r \in own : IsNewest(r, esc)
  <2>1. rec.pc = "take" /\ lastId' = lastId
    BY <1>3 DEF Take
  <2>2. recent' \in BOOLEAN
    BY <1>0, <1>3 DEF Take
  <2>3. CASE won
    <3>1. rows' = (rows \ esc) \cup Rephased(own, "inflight", FALSE)
          /\ rec' = [rec EXCEPT !.pc = rec.act]
      BY <1>3, <2>3 DEF Take
    <3>2. \A r \in own : r \notin rows \ esc /\ r.phase \in {"escalating", "inflight"}
      BY DEF Of
    <3>3. own \subseteq rows
      BY DEF Of
    <3> HIDE DEF esc, own
    <3>4. RowsOK'
      BY <1>0, <2>1, <3>1, <3>2, <3>3, RephaseOK
    <3>5. rec.act \in ActPcs
      BY <2>1 DEF ActMatches, ActPcs
    <3>6. RestOK'
      BY <1>0, <1>3, <1>t, <2>1, <3>1, <3>5 DEF Take, RestOK, bounds
    <3> QED BY <2>2, <3>4, <3>6
  <2>4. CASE ~won
    <3>1. rows' = rows \ own /\ rec' = Polling
      BY <1>3, <2>4 DEF Take
    <3> HIDE DEF own
    <3>2. RowsOK'
      BY <1>0, <2>1, <3>1, DeleteOK
    <3>3. RestOK'
      BY <1>0, <1>3, <1>l, <3>1 DEF Take, RestOK, bounds
    <3> QED BY <2>2, <3>2, <3>3
  <2> QED BY <2>3, <2>4
<1>4. ASSUME TakeFails \/ ReRecordFails \/ ClearFails PROVE Goal
  <2>1. RowsOK' /\ recent' \in BOOLEAN
    BY <1>0, <1>4 DEF TakeFails, ReRecordFails, ClearFails, RowsOK, table
  <2>2. RestOK'
    BY <1>0, <1>4, <1>l DEF TakeFails, ReRecordFails, ClearFails, RestOK, Outage, bounds
  <2> QED BY <2>1, <2>2
<1>5. ASSUME Park PROVE Goal
  <2>1. RowsOK' /\ recent' \in BOOLEAN
    BY <1>0, <1>5, <1>p, <1>t, RecordOK DEF Park
  <2>2. RestOK'
    BY <1>0, <1>5, <1>t DEF Park, RestOK, bounds
  <2> QED BY <2>1, <2>2
<1>6. ASSUME Decide PROVE Goal
  <2>1. RowsOK' /\ recent' \in BOOLEAN
    <3>1. CASE DecisionOf(rec.advice) = {}
      BY <1>0, <1>6, <1>p, <1>t, <3>1, RecordOK DEF Decide
    <3>2. CASE DecisionOf(rec.advice) # {}
      BY <1>0, <1>6, <3>2 DEF Decide, table, RowsOK
    <3> QED BY <3>1, <3>2
  <2>2. RestOK'
    BY <1>0, <1>6, <1>t DEF Decide, RestOK, bounds, ActPcs
  <2> QED BY <2>1, <2>2
<1>j. ASSUME CreateBuilder(rec.advice), rec.pc # "poll"
      PROVE  /\ recent' \in BOOLEAN
             /\ job' \in [state : {"none", "queued", "running", "lapsed", "done"},
                          plan : Advices \cup {Nobody}]
  <2>1. CASE job.state \in {"none", "done", "lapsed"}
    BY <1>j, <1>t, <2>1 DEF CreateBuilder
  <2>2. CASE job.state \notin {"none", "done", "lapsed"}
    <3>1. job' = job /\ recent' = recent
      BY <1>j, <2>2 DEF CreateBuilder
    <3> QED BY <1>0, <3>1 DEF RestOK
  <2> QED BY <2>1, <2>2
<1>7. ASSUME CreateJob PROVE Goal
  <2>1. RowsOK' /\ recent' \in BOOLEAN
    BY <1>0, <1>7, <1>j DEF CreateJob, RowsOK
  <2>2. RestOK'
    BY <1>0, <1>7, <1>j, <1>t DEF CreateJob, RestOK, bounds
  <2> QED BY <2>1, <2>2
<1>8. ASSUME Repair PROVE Goal
  <2>1. RowsOK' /\ recent' \in BOOLEAN
    BY <1>0, <1>8, <1>j DEF Repair, RowsOK
  <2>2. RestOK'
    BY <1>0, <1>8, <1>j, <1>t DEF Repair, RestOK, bounds
  <2> QED BY <2>1, <2>2
<1>9. ASSUME ActRaises PROVE Goal
  <2>0. rec.pc # "poll"
    BY <1>9 DEF ActRaises, ActPcs
  <2>1. CASE UNCHANGED <<table, job>>
    <3>1. RowsOK' /\ recent' \in BOOLEAN
      BY <1>0, <2>1 DEF RowsOK, table
    <3>2. RestOK'
      BY <1>0, <1>9, <1>t, <2>0, <2>1 DEF ActRaises, RestOK, Outage
    <3> QED BY <3>1, <3>2
  <2>2. CASE (\/ Record("parked", rec.advice, rec.head)
              \/ Record("escalated", rec.advice, rec.head)) /\ UNCHANGED job
    <3>1. RowsOK' /\ recent' \in BOOLEAN
      BY <1>0, <1>p, <1>t, <2>0, <2>2, RecordOK
    <3>2. RestOK'
      BY <1>0, <1>9, <1>t, <2>0, <2>2 DEF ActRaises, RestOK, Outage
    <3> QED BY <3>1, <3>2
  <2>3. CASE CreateBuilder(rec.advice) /\ UNCHANGED <<rows, lastId>>
    <3>1. RowsOK' /\ recent' \in BOOLEAN
      BY <1>0, <1>j, <2>0, <2>3 DEF RowsOK
    <3>2. RestOK'
      BY <1>0, <1>9, <1>j, <1>t, <2>0, <2>3 DEF ActRaises, RestOK, Outage
    <3> QED BY <3>1, <3>2
  <2> QED BY <1>9, <2>1, <2>2, <2>3 DEF ActRaises
<1>10. ASSUME ReRecord PROVE Goal
  <2>1. RowsOK' /\ recent' \in BOOLEAN
    BY <1>0, <1>10, <1>p, <1>t, RecordOK DEF ReRecord, Nobody, Advices
  <2>2. RestOK'
    BY <1>0, <1>10, <1>l DEF ReRecord, RestOK, bounds
  <2> QED BY <2>1, <2>2
<1>11. ASSUME Clear PROVE Goal
  <2>1. RowsOK' /\ recent' \in BOOLEAN
    BY <1>0, <1>11, DeleteOK DEF Clear
  <2>2. RestOK'
    BY <1>0, <1>11, <1>l DEF Clear, RestOK, bounds
  <2> QED BY <2>1, <2>2
<1> HIDE DEF Goal
<1>12. Goal
  BY <1>1, <1>2, <1>3, <1>4, <1>5, <1>6, <1>7, <1>8, <1>9, <1>10, <1>11 DEF RecoveryStep, ActStep
<1> QED BY <1>12 DEF Goal, TypeOK, RestOK

\* Kronos, the builder lane, the clock and a crash keep the types.
LEMMA TypeOtherStep ==
    ASSUME TypeOK,
           Environment \/ \E h \in Heads : KronosEscalate(h) \/ KronosStop(h)
    PROVE  TypeOK'
<1> DEFINE Goal == RowsOK' /\ recent' \in BOOLEAN /\ RestOK'
<1>0. RowsOK /\ recent \in BOOLEAN /\ RestOK
  BY TypeSplit
<1>p. {"escalating", "inflight", "escalated", "parked"} = Phases
  BY DEF Phases
<1>1. ASSUME NEW h \in Heads, KronosEscalate(h) \/ KronosStop(h) PROVE Goal
  <2>1. Record("escalated", Nobody, h)
    BY <1>1 DEF KronosEscalate, KronosStop
  <2>2. RowsOK' /\ recent' \in BOOLEAN
    BY <1>0, <1>p, <2>1, RecordOK
  <2>3. RestOK'
    BY <1>0, <1>1 DEF KronosEscalate, KronosStop, RestOK
  <2> QED BY <2>2, <2>3
<1>2. ASSUME NEW a \in Advices, PlanReady(a) \/ GivesUp(a) PROVE Goal
  <2>1. RowsOK' /\ recent' \in BOOLEAN
    BY <1>0, <1>2 DEF PlanReady, GivesUp, table, RowsOK
  <2>2. RestOK'
    BY <1>0, <1>2 DEF PlanReady, GivesUp, bounds, RestOK
  <2> QED BY <2>1, <2>2
<1>3. ASSUME NEW a \in Advices, InflightGrowsStale(a) PROVE Goal
  <2> DEFINE aging == {r \in Of("inflight") : r.advice = a /\ ~r.old}
  <2>1. /\ rows' = (rows \ aging) \cup Rephased(aging, "inflight", TRUE)
        /\ lastId' = lastId
    BY <1>3 DEF InflightGrowsStale
  <2>2. aging \subseteq rows /\ \A r \in aging : r.phase = "inflight" /\ r \in Rows
    BY <1>0 DEF Of, RowsOK
  <2> HIDE DEF aging
  <2>5. RowsOK'
    BY <1>0, <2>1, <2>2, RephaseOK
  <2>6. recent' \in BOOLEAN /\ RestOK'
    BY <1>0, <1>3 DEF InflightGrowsStale, RestOK, bounds
  <2> QED BY <2>5, <2>6
<1>4. ASSUME BuilderLane PROVE Goal
  <2>1. RowsOK' /\ recent' \in BOOLEAN
    BY <1>0, <1>4 DEF BuilderLane, RowsOK
  <2>2. RestOK'
    BY <1>0, <1>4 DEF BuilderLane, BuilderMoves, RestOK, bounds
  <2> QED BY <2>1, <2>2
<1>5. ASSUME QuietWindowPasses PROVE Goal
  <2>1. RowsOK' /\ recent' \in BOOLEAN
    BY <1>0, <1>5 DEF QuietWindowPasses, RowsOK
  <2>2. RestOK'
    BY <1>0, <1>5 DEF QuietWindowPasses, RestOK, bounds
  <2> QED BY <2>1, <2>2
<1>6. ASSUME Crash PROVE Goal
  <2>1. RowsOK' /\ recent' \in BOOLEAN
    BY <1>0, <1>6 DEF Crash, RowsOK, table
  <2>2. RestOK'
    BY <1>0, <1>6 DEF Crash, RestOK, Polling, IdleWorker
  <2> QED BY <2>1, <2>2
<1> HIDE DEF Goal
<1>7. Goal
  BY <1>1, <1>2, <1>3, <1>4, <1>5, <1>6 DEF Environment
<1> QED BY <1>7 DEF Goal, TypeOK, RestOK

-----------------------------------------------------------------------------
\* What the invariant says beyond the types.
Guards ==
    /\ ActMatches
    /\ ParkJustified
    /\ ParkedIsHopeless
    /\ DecideJustified
    /\ OneDecisionPerAdvice
    /\ OneOutcomePerAdvice
    /\ NoMarkerGap

\* Outcome rows are only ever added in the name of nobody, and a hopeless
\* advice stays hopeless: what every step does but Park, Decide and ActRaises.
NoNewOutcome ==
    /\ \A r \in rows' : r.phase \in {"parked", "escalated"} => r \in rows \/ r.advice = Nobody
    /\ \A a \in Advices : advisor[a] = "hopeless" => advisor'[a] = "hopeless"

\* The properties of the table alone survive a step without a new outcome.
LEMMA TableGuards ==
    ASSUME TypeOK, Guards, NoNewOutcome
    PROVE  ParkedIsHopeless' /\ OneDecisionPerAdvice' /\ OneOutcomePerAdvice'
<1>1. \A r \in rows : r.advice \in Advices \cup {Nobody}
  BY DEF TypeOK, RowsOK, Rows
<1>2. ParkedIsHopeless'
  BY <1>1 DEF Guards, NoNewOutcome, ParkedIsHopeless, Of
<1>3. OneDecisionPerAdvice'
  BY DEF Guards, NoNewOutcome, OneDecisionPerAdvice, Of
<1>4. OneOutcomePerAdvice'
  BY DEF Guards, NoNewOutcome, OneOutcomePerAdvice, DecisionOf, Of
<1> QED BY <1>2, <1>3, <1>4

\* A step that leaves the recovery thread between two passes.
LEMMA PollingGuards ==
    ASSUME TypeOK, Guards, NoNewOutcome, rec'.pc = "poll"
    PROVE  Guards'
<1>1. ActMatches' /\ ParkJustified' /\ DecideJustified' /\ NoMarkerGap'
  BY DEF ActMatches, ParkJustified, DecideJustified, NoMarkerGap, ActPcs
<1> QED BY <1>1, TableGuards DEF Guards

\* A step of anybody else that only adds rows.
LEMMA BystanderGuards ==
    ASSUME TypeOK, Guards, NoNewOutcome, rec' = rec, rows \subseteq rows'
    PROVE  Guards'
<1>1. rec.pc # "poll" => rec.advice \in Advices /\ rec.advice # Nobody
  BY DEF TypeOK
<1>2. ActMatches'
  BY DEF Guards, ActMatches
<1>3. ParkJustified'
  BY <1>1 DEF Guards, ParkJustified, NoNewOutcome, DecisionOf, Of
<1>4. DecideJustified'
  BY <1>1 DEF Guards, DecideJustified, NoNewOutcome, Of
<1>5. NoMarkerGap'
  BY DEF Guards, NoMarkerGap, Of
<1> QED BY <1>2, <1>3, <1>4, <1>5, TableGuards DEF Guards

\* The workers, Kronos and the environment only ever do such steps.
LEMMA OtherGuards ==
    ASSUME TypeOK, Guards,
           Environment \/ \E h \in Heads : WorkerStep(h) \/ KronosEscalate(h) \/ KronosStop(h)
    PROVE  Guards'
<1>1. ASSUME NEW h \in Heads, NEW p \in {"escalating", "parked", "escalated"},
             NEW a \in Advices \cup {Nobody}, p \in {"parked", "escalated"} => a = Nobody,
             Record(p, a, h)
      PROVE  /\ rows \subseteq rows'
             /\ \A r \in rows' : r.phase \in {"parked", "escalated"} => r \in rows \/ r.advice = Nobody
  BY <1>1 DEF Record
<1>2. \A h \in Heads : worker[h].advice \in Advices \cup {Nobody}
  BY DEF TypeOK
<1>3. ASSUME NEW h \in Heads, WorkerStep(h) PROVE rec' = rec /\ rows \subseteq rows' /\ NoNewOutcome
  <2> DEFINE Goal == rec' = rec /\ rows \subseteq rows' /\ NoNewOutcome
  <2>1. ASSUME Gate(h) \/ Triage(h) \/ RunDies(h) PROVE Goal
    BY <2>1 DEF Gate, Triage, RunDies, NoNewOutcome, table
  <2>2. ASSUME Bounce(h) PROVE Goal
    <3>1. Record("parked", Nobody, h) \/ UNCHANGED rows
      BY <2>2 DEF Bounce, table
    <3> QED BY <1>1, <2>2, <3>1 DEF Bounce, NoNewOutcome
  <2>3. ASSUME SubmitEscalation(h) \/ SubmitRaises(h) PROVE Goal
    <3> PICK a \in Advices : /\ advisor[a] = "unposted"
                             /\ advisor' = [advisor EXCEPT ![a] = "waiting"]
                             /\ Record("escalating", a, h)
                             /\ rec' = rec
      BY <2>3 DEF SubmitEscalation, SubmitRaises, Submitted, NextAdvice
    <3>1. \A b \in Advices : advisor[b] = "hopeless" => advisor'[b] = "hopeless"
      BY DEF TypeOK
    <3> QED BY <1>1, <3>1 DEF NoNewOutcome
  <2>4. ASSUME SubmitFails(h) \/ ParkRaised(h) PROVE Goal
    <3>1. Record("parked", Nobody, h) /\ rec' = rec /\ advisor' = advisor
      BY <2>4 DEF SubmitFails, ParkRaised
    <3> QED BY <1>1, <3>1 DEF NoNewOutcome
  <2>6. ASSUME PhaseRow(h) PROVE Goal
    <3>1. CASE worker[h].advice = Nobody
      <4>1. Record("parked", Nobody, h) /\ rec' = rec /\ advisor' = advisor
        BY <2>6, <3>1 DEF PhaseRow
      <4> QED BY <1>1, <4>1 DEF NoNewOutcome
    <3>2. CASE worker[h].advice # Nobody
      <4>1. Record("escalating", worker[h].advice, h) /\ rec' = rec /\ advisor' = advisor
        BY <2>6, <3>2 DEF PhaseRow
      <4> QED BY <1>1, <1>2, <4>1 DEF NoNewOutcome
    <3> QED BY <3>1, <3>2
  <2> HIDE DEF Goal
  <2>7. Goal
    BY <1>3, <2>1, <2>2, <2>3, <2>4, <2>6 DEF WorkerStep
  <2> QED BY <2>7 DEF Goal
<1>4. ASSUME NEW h \in Heads, KronosEscalate(h) \/ KronosStop(h)
      PROVE  rec' = rec /\ rows \subseteq rows' /\ NoNewOutcome
  <2>1. Record("escalated", Nobody, h) /\ rec' = rec /\ advisor' = advisor
    BY <1>4 DEF KronosEscalate, KronosStop
  <2> QED BY <1>1, <2>1 DEF NoNewOutcome
<1>5. ASSUME NEW a \in Advices, PlanReady(a) \/ GivesUp(a)
      PROVE  rec' = rec /\ rows \subseteq rows' /\ NoNewOutcome
  <2>1. \A b \in Advices : advisor[b] = "hopeless" => advisor'[b] = "hopeless"
    BY <1>5 DEF PlanReady, GivesUp, TypeOK
  <2> QED BY <1>5, <2>1 DEF PlanReady, GivesUp, table, NoNewOutcome
<1>6. ASSUME NEW a \in Advices, InflightGrowsStale(a) PROVE rec'.pc = "poll" /\ NoNewOutcome
  <2>1. \A r \in rows' : r \in rows \/ r.phase = "inflight"
    <3> DEFINE aging == {r \in Of("inflight") : r.advice = a /\ ~r.old}
    <3>1. rows' = (rows \ aging) \cup Rephased(aging, "inflight", TRUE)
      BY <1>6 DEF InflightGrowsStale
    <3>2. \A r \in aging : [r EXCEPT !.phase = "inflight", !.old = TRUE].phase = "inflight"
      BY DEF TypeOK, RowsOK, Rows, Of
    <3> HIDE DEF aging
    <3> QED BY <3>1, <3>2 DEF Rephased
  <2> QED BY <1>6, <2>1 DEF InflightGrowsStale, AtRest, NoNewOutcome
<1>7. ASSUME BuilderLane \/ QuietWindowPasses PROVE rec' = rec /\ rows \subseteq rows' /\ NoNewOutcome
  BY <1>7 DEF BuilderLane, QuietWindowPasses, NoNewOutcome
<1>8. ASSUME Crash PROVE rec'.pc = "poll" /\ NoNewOutcome
  BY <1>8 DEF Crash, Polling, table, NoNewOutcome
<1> QED BY <1>3, <1>4, <1>5, <1>6, <1>7, <1>8, BystanderGuards, PollingGuards DEF Environment

\* Writing the park, or the decision, of the advice in hand.
LEMMA ParkWritten ==
    ASSUME TypeOK, Guards, rec.pc = "park", Record("parked", rec.advice, rec.head), advisor' = advisor
    PROVE  ParkedIsHopeless' /\ OneDecisionPerAdvice' /\ OneOutcomePerAdvice'
<1>1. rec.act = "park"
  BY DEF Guards, ActMatches, ActPcs
<1>2. DecisionOf(rec.advice) = {} /\ advisor[rec.advice] = "hopeless"
  BY <1>1 DEF Guards, ParkJustified
<1> DEFINE new == [id |-> lastId + 1, phase |-> "parked", advice |-> rec.advice,
                   head |-> rec.head, old |-> FALSE]
<1>3. rows' = rows \cup {new} /\ new.phase = "parked" /\ new.advice = rec.advice
  BY DEF Record
<1> HIDE DEF new
<1>4. ParkedIsHopeless'
  BY <1>2, <1>3 DEF Guards, ParkedIsHopeless, Of
<1>5. OneDecisionPerAdvice'
  BY <1>3 DEF Guards, OneDecisionPerAdvice, Of
<1>6. OneOutcomePerAdvice'
  BY <1>2, <1>3 DEF Guards, OneOutcomePerAdvice, DecisionOf, Of
<1> QED BY <1>4, <1>5, <1>6

\* See ParkWritten: the same for the decision.
LEMMA DecisionWritten ==
    ASSUME TypeOK, Guards, rec.pc = "decide", DecisionOf(rec.advice) = {},
           Record("escalated", rec.advice, rec.head), advisor' = advisor
    PROVE  ParkedIsHopeless' /\ OneDecisionPerAdvice' /\ OneOutcomePerAdvice'
<1>1. rec.act = "decide" /\ rec.advice # Nobody
  BY DEF Guards, ActMatches, ActPcs, TypeOK
<1>2. \A r \in Of("parked") : r.advice # rec.advice
  BY <1>1 DEF Guards, DecideJustified
<1> DEFINE new == [id |-> lastId + 1, phase |-> "escalated", advice |-> rec.advice,
                   head |-> rec.head, old |-> FALSE]
<1>3. rows' = rows \cup {new} /\ new.phase = "escalated" /\ new.advice = rec.advice
  BY DEF Record
<1> HIDE DEF new
<1>4. ParkedIsHopeless'
  BY <1>3 DEF Guards, ParkedIsHopeless, Of
<1>5. OneDecisionPerAdvice'
  BY <1>1, <1>3 DEF Guards, OneDecisionPerAdvice, DecisionOf, Of
<1>6. OneOutcomePerAdvice'
  BY <1>2, <1>3 DEF Guards, OneOutcomePerAdvice, DecisionOf, Of
<1> QED BY <1>4, <1>5, <1>6

\* Once its statement is through, or raised, the thread writes no outcome
\* before its next pass, and the in-flight marker it holds is still there.
LEMMA ActedGuards ==
    ASSUME TypeOK, Guards, rec.pc \in ActPcs, rows \subseteq rows',
           NEW pc \in {"job", "clear", "rerecord"}, rec' = [rec EXCEPT !.pc = pc],
           pc = "job" => rec.pc = "decide",
           ParkedIsHopeless', OneDecisionPerAdvice', OneOutcomePerAdvice'
    PROVE  Guards'
<1>1. rec'.pc = pc /\ rec'.act = rec.act /\ rec'.advice = rec.advice
  BY DEF TypeOK
<1>2. rec.act \in {"park", "decide", "repair"} /\ (rec.pc = "decide" => rec.act = "decide")
  BY DEF Guards, ActMatches, ActPcs
<1>3. ActMatches'
  BY <1>1, <1>2 DEF ActMatches, ActPcs
<1>4. ParkJustified' /\ DecideJustified'
  BY <1>1 DEF ParkJustified, DecideJustified
<1>5. NoMarkerGap'
  BY <1>1 DEF Guards, NoMarkerGap, Of
<1> QED BY <1>3, <1>4, <1>5 DEF Guards

\* Every step of the recovery thread keeps what the invariant says beyond
\* the types.
LEMMA RecoveryGuards ==
    ASSUME TypeOK, Guards, RecoveryStep
    PROVE  Guards'
<1>n. ASSUME rows' \subseteq rows, advisor' = advisor PROVE NoNewOutcome
  BY <1>n DEF NoNewOutcome
<1>k. ASSUME rows' = rows, advisor' = advisor
      PROVE  ParkedIsHopeless' /\ OneDecisionPerAdvice' /\ OneOutcomePerAdvice'
  BY <1>n, <1>k, TableGuards
<1>t. rec.pc # "poll" => rec.advice \in Advices /\ rec.advice # Nobody
  BY DEF TypeOK
<1>r. ASSUME NEW S, NEW p \in Phases, NEW b \in BOOLEAN, S \subseteq rows
      PROVE  \A r \in Rephased(S, p, b) : r.phase = p
  <2> TAKE r \in Rephased(S, p, b)
  <2> PICK s \in S : r = [s EXCEPT !.phase = p, !.old = b]
    BY DEF Rephased
  <2>1. s \in Rows
    BY <1>r DEF TypeOK, RowsOK
  <2> QED BY <2>1 DEF Rows
<1>1. ASSUME Reclaim PROVE Guards'
  <2> PICK m \in Stale :
         rows' = IF Settled(m) \/ Superseded(m)
                 THEN rows \ {m}
                 ELSE (rows \ {m}) \cup Rephased({m}, "escalating", FALSE)
    BY <1>1 DEF Reclaim
  <2>1. \A r \in Rephased({m}, "escalating", FALSE) : r.phase = "escalating"
    BY <1>r DEF Stale, Of, Phases
  <2>2. NoNewOutcome
    BY <1>1, <2>1 DEF Reclaim, NoNewOutcome
  <2> QED BY <1>1, <2>2, PollingGuards DEF Reclaim
<1>2. ASSUME Look PROVE Guards'
  <2>1. rows' = rows /\ advisor' = advisor
    BY <1>2 DEF Look, table
  <2> PICK m \in Of("escalating") : \E v \in Verdicts(m) :
         rec' = [pc |-> "take", act |-> v, advice |-> m.advice, head |-> m.head]
    BY <1>2 DEF Look
  <2> PICK v \in Verdicts(m) :
         rec' = [pc |-> "take", act |-> v, advice |-> m.advice, head |-> m.head]
    OBVIOUS
  <2>2. rec'.pc = "take" /\ rec'.act = v /\ rec'.advice = m.advice /\ m.advice # Nobody
    BY DEF TypeOK, RowsOK, Of
  <2>3. /\ v \in {"park", "decide", "repair"}
        /\ v = "park" => DecisionOf(m.advice) = {} /\ advisor[m.advice] = "hopeless"
        /\ v = "decide" => advisor[m.advice] = "plan"
    BY DEF Verdicts
  <2>4. ActMatches' /\ NoMarkerGap'
    BY <2>2, <2>3 DEF ActMatches, NoMarkerGap, ActPcs
  <2>5. ParkJustified'
    BY <2>1, <2>2, <2>3 DEF ParkJustified, DecisionOf, Of
  <2>6. DecideJustified'
    BY <2>1, <2>2, <2>3 DEF DecideJustified, Guards, ParkedIsHopeless, Of
  <2> QED BY <1>k, <2>1, <2>4, <2>5, <2>6 DEF Guards
<1>3. ASSUME Take PROVE Guards'
  <2> DEFINE esc == Of("escalating")
             own == {r \in esc : r.advice = rec.advice}
             won == \E r \in own : IsNewest(r, esc)
  <2>1. rec.pc = "take" /\ advisor' = advisor
    BY <1>3 DEF Take
  <2>2. CASE won
    <3>1. rows' = (rows \ esc) \cup Rephased(own, "inflight", FALSE) /\ rec' = [rec EXCEPT !.pc = rec.act]
      BY <1>3, <2>2 DEF Take
    <3>2. \A r \in Rephased(own, "inflight", FALSE) : r.phase = "inflight"
      BY <1>r DEF Of, Phases
    <3>3. NoNewOutcome
      BY <2>1, <3>1, <3>2 DEF NoNewOutcome
    <3>4. rec'.pc = rec.act /\ rec'.act = rec.act /\ rec'.advice = rec.advice
      BY <3>1 DEF TypeOK
    <3>5. rec.act \in {"park", "decide", "repair"}
      BY <2>1 DEF Guards, ActMatches
    <3>6. ActMatches'
      BY <3>4, <3>5 DEF ActMatches, ActPcs
    <3>7. ParkJustified'
      BY <1>t, <2>1, <3>3, <3>4 DEF Guards, ParkJustified, NoNewOutcome, DecisionOf, Of
    <3>8. DecideJustified'
      BY <1>t, <2>1, <3>3, <3>4 DEF Guards, DecideJustified, NoNewOutcome, Of
    <3>9. \E r \in Rephased(own, "inflight", FALSE) : r.phase = "inflight" /\ r.advice = rec.advice
      <4> PICK r \in own : TRUE
        BY <2>2
      <4>1. [r EXCEPT !.phase = "inflight", !.old = FALSE].advice = rec.advice
        BY DEF TypeOK, RowsOK, Rows, Of
      <4>2. [r EXCEPT !.phase = "inflight", !.old = FALSE] \in Rephased(own, "inflight", FALSE)
        BY DEF Rephased
      <4> QED BY <3>2, <4>1, <4>2
    <3>10. NoMarkerGap'
      BY <3>1, <3>4, <3>9 DEF NoMarkerGap, Of
    <3> QED BY <3>3, <3>6, <3>7, <3>8, <3>10, TableGuards DEF Guards
  <2>3. CASE ~won
    <3>1. rows' \subseteq rows /\ rec'.pc = "poll"
      BY <1>3, <2>3 DEF Take, Polling
    <3> QED BY <1>n, <2>1, <3>1, PollingGuards
  <2> QED BY <2>2, <2>3
<1>4. ASSUME TakeFails \/ ReRecordFails \/ ClearFails \/ Clear PROVE Guards'
  <2>1. rows' \subseteq rows /\ advisor' = advisor /\ rec'.pc = "poll"
    BY <1>4 DEF TakeFails, ReRecordFails, ClearFails, Clear, table, Polling
  <2> QED BY <1>n, <2>1, PollingGuards
<1>5. ASSUME ReRecord PROVE Guards'
  <2>1. NoNewOutcome /\ rec'.pc = "poll"
    BY <1>5 DEF ReRecord, Record, NoNewOutcome, Polling
  <2> QED BY <2>1, PollingGuards
<1>6. ASSUME Park PROVE Guards'
  <2>1. rec.pc = "park" /\ rec' = [rec EXCEPT !.pc = "clear"] /\ advisor' = advisor
        /\ Record("parked", rec.advice, rec.head)
    BY <1>6 DEF Park
  <2>2. rows \subseteq rows'
    BY <2>1 DEF Record
  <2> QED BY <2>1, <2>2, ParkWritten, ActedGuards DEF ActPcs
<1>7. ASSUME Decide PROVE Guards'
  <2>1. rec.pc = "decide" /\ rec' = [rec EXCEPT !.pc = "job"] /\ advisor' = advisor
    BY <1>7 DEF Decide
  <2>2. CASE DecisionOf(rec.advice) = {}
    <3>1. Record("escalated", rec.advice, rec.head)
      BY <1>7, <2>2 DEF Decide
    <3>2. rows \subseteq rows'
      BY <3>1 DEF Record
    <3> QED BY <2>1, <2>2, <3>1, <3>2, DecisionWritten, ActedGuards DEF ActPcs
  <2>3. CASE DecisionOf(rec.advice) # {}
    <3>1. rows' = rows
      BY <1>7, <2>3 DEF Decide, table
    <3> QED BY <1>k, <2>1, <3>1, ActedGuards DEF ActPcs
  <2> QED BY <2>2, <2>3
<1>8. ASSUME CreateJob \/ Repair PROVE Guards'
  <2>1. /\ rec.pc \in ActPcs /\ rec' = [rec EXCEPT !.pc = "clear"]
        /\ rows' = rows /\ advisor' = advisor
    BY <1>8 DEF CreateJob, Repair, ActPcs
  <2> QED BY <1>k, <2>1, ActedGuards
<1>9. ASSUME ActRaises PROVE Guards'
  <2>1. rec.pc \in ActPcs /\ rec' = [rec EXCEPT !.pc = "rerecord"] /\ advisor' = advisor
    BY <1>9 DEF ActRaises
  <2>2. CASE rows' = rows
    BY <1>k, <2>1, <2>2, ActedGuards
  <2>3. CASE rec.pc = "park" /\ Record("parked", rec.advice, rec.head)
    <3>1. rows \subseteq rows'
      BY <2>3 DEF Record
    <3> QED BY <2>1, <2>3, <3>1, ParkWritten, ActedGuards
  <2>4. CASE rec.pc = "decide" /\ DecisionOf(rec.advice) = {} /\ Record("escalated", rec.advice, rec.head)
    <3>1. rows \subseteq rows'
      BY <2>4 DEF Record
    <3> QED BY <2>1, <2>4, <3>1, DecisionWritten, ActedGuards
  <2> QED BY <1>9, <2>2, <2>3, <2>4 DEF ActRaises, table
<1> QED BY <1>1, <1>2, <1>3, <1>4, <1>5, <1>6, <1>7, <1>8, <1>9 DEF RecoveryStep, ActStep

-----------------------------------------------------------------------------
\* The invariant holds initially.
LEMMA InvInit == Init => Inv
<1> SUFFICES ASSUME Init PROVE Inv
  OBVIOUS
<1>1. rows = {} /\ rec.pc = "poll"
  BY DEF Init, Polling
<1>2. ActMatches /\ ParkJustified /\ ParkedIsHopeless /\ DecideJustified
  BY <1>1 DEF ActMatches, ParkJustified, ParkedIsHopeless, DecideJustified, ActPcs, Of
<1>3. OneDecisionPerAdvice /\ OneOutcomePerAdvice /\ NoMarkerGap
  BY <1>1 DEF OneDecisionPerAdvice, OneOutcomePerAdvice, NoMarkerGap, ActPcs, Of
<1> QED BY <1>2, <1>3, TypeInit DEF Inv

\* The invariant is inductive.
LEMMA InvStep == Inv /\ [Next]_vars => Inv'
<1> SUFFICES ASSUME Inv, [Next]_vars PROVE Inv'
  OBVIOUS
<1>1. TypeOK /\ Guards /\ ActMatches
  BY DEF Inv, Guards
<1>2. CASE RecoveryStep
  <2>1. TypeOK'
    BY <1>1, <1>2, TypeRecoveryStep
  <2>2. Guards'
    BY <1>1, <1>2, RecoveryGuards
  <2> QED BY <2>1, <2>2 DEF Inv, Guards
<1>3. CASE Environment \/ \E h \in Heads : WorkerStep(h) \/ KronosEscalate(h) \/ KronosStop(h)
  <2>1. TypeOK'
    BY <1>1, <1>3, TypeWorkerStep, TypeOtherStep
  <2>2. Guards'
    BY <1>1, <1>3, OtherGuards
  <2> QED BY <2>1, <2>2 DEF Inv, Guards
<1>4. CASE UNCHANGED vars
  <2>1. TypeOK'
    BY <1>1, <1>4 DEF vars, TypeOK, RowsOK
  <2>2. NoNewOutcome /\ rec' = rec /\ rows' = rows
    BY <1>4 DEF vars, NoNewOutcome
  <2>3. Guards'
    BY <1>1, <2>2, BystanderGuards
  <2> QED BY <2>1, <2>3 DEF Inv, Guards
<1> QED BY <1>2, <1>3, <1>4 DEF Next

\* The inductive invariant holds of every behaviour.
THEOREM Invariance == Spec => []Inv
<1> QED BY InvInit, InvStep, PTL DEF Spec

\* Type correctness of the escalation, for every instance.
THEOREM EscalationTypes == Spec => []TypeOK
<1>1. Inv => TypeOK
  BY DEF Inv
<1> QED BY <1>1, Invariance, PTL

\* No retry, raised commit, crash, reclaim or rival decision by Kronos makes
\* escalate_pr write two decisions for one advice.
THEOREM OneDecision == Spec => []OneDecisionPerAdvice
<1>1. Inv => OneDecisionPerAdvice
  BY DEF Inv
<1> QED BY <1>1, Invariance, PTL

\* The recovery thread never both parks and decides one advice.
THEOREM OneOutcome == Spec => []OneOutcomePerAdvice
<1>1. Inv => OneOutcomePerAdvice
  BY DEF Inv
<1> QED BY <1>1, Invariance, PTL

\* No gap without a marker between take_escalation and the recorded outcome.
THEOREM MarkerWithoutGap == Spec => []NoMarkerGap
<1>1. Inv => NoMarkerGap
  BY DEF Inv
<1> QED BY <1>1, Invariance, PTL

-----------------------------------------------------------------------------
(* The round of a plan runs once.  On top of Inv: whose plan the job holds *)
(* is decided, and an advice about to be decided has no job yet.           *)

\* The pass decides only an undecided advice and repairs only a decided one.
DecideUndecided ==
    rec.act = "decide" /\ rec.pc \in {"take", "decide"} => DecisionOf(rec.advice) = {}

RepairDecided ==
    rec.act = "repair" /\ rec.pc \in {"take", "repair"} => DecisionOf(rec.advice) # {}

\* Between the decision and its job the advice is decided and has no job.
JobFresh ==
    rec.pc = "job" => DecisionOf(rec.advice) # {} /\ job.plan # rec.advice

\* The builder job never carries the plan of an undecided advice.
PlanDecided == job.plan # Nobody => DecisionOf(job.plan) # {}

PlanInv == DecideUndecided /\ RepairDecided /\ JobFresh /\ PlanDecided

\* Decisions are never deleted, and only the pass, deciding, adds one in the
\* name of an advice: the one it is acting on.
LEMMA DecisionRows ==
    ASSUME TypeOK, [Next]_vars
    PROVE  /\ \A r \in Of("escalated") : r \in rows'
           /\ \A r \in rows' : r.phase = "escalated" =>
                 \/ r \in rows \/ r.advice = Nobody
                 \/ r.advice = rec.advice /\ rec.pc = "decide" /\ rec'.pc \in {"job", "rerecord"}
<1> DEFINE Goal == /\ \A r \in Of("escalated") : r \in rows'
                   /\ \A r \in rows' : r.phase = "escalated" =>
                         \/ r \in rows \/ r.advice = Nobody
                         \/ r.advice = rec.advice /\ rec.pc = "decide" /\ rec'.pc \in {"job", "rerecord"}
<1> SUFFICES Goal
  OBVIOUS
<1>r. /\ \A r \in rows : r \in Rows
      /\ \A h \in Heads : worker[h].advice \in Advices \cup {Nobody}
  BY DEF TypeOK, RowsOK
<1>e. ASSUME NEW T, T \subseteq rows, NEW p, NEW b
      PROVE  \A r \in Rephased(T, p, b) : r.phase = p
  <2> TAKE r \in Rephased(T, p, b)
  <2> PICK s \in T : r = [s EXCEPT !.phase = p, !.old = b]
    BY DEF Rephased
  <2>1. s \in Rows
    BY <1>e, <1>r
  <2> QED BY <2>1 DEF Rows
<1>1. ASSUME rows' = rows PROVE Goal
  BY <1>1 DEF Of
<1>2. ASSUME NEW h \in Heads, NEW p, NEW a, Record(p, a, h), p # "escalated" \/ a = Nobody
      PROVE Goal
  BY <1>2 DEF Record, Of
<1>3. ASSUME rows' \subseteq rows, \A r \in rows \ rows' : r.phase # "escalated" PROVE Goal
  BY <1>3 DEF Of
<1>4. ASSUME NEW h \in Heads, WorkerStep(h) PROVE Goal
  <2>1. CASE Gate(h) \/ Triage(h) \/ RunDies(h)
    BY <1>1, <2>1 DEF Gate, Triage, RunDies, table
  <2>2. CASE Bounce(h) \/ SubmitFails(h) \/ ParkRaised(h)
    BY <1>1, <1>2, <2>2 DEF Bounce, SubmitFails, ParkRaised, table
  <2>3. CASE SubmitEscalation(h) \/ SubmitRaises(h)
    BY <1>2, <2>3 DEF SubmitEscalation, SubmitRaises, Submitted
  <2>4. CASE PhaseRow(h)
    <3>1. CASE worker[h].advice = Nobody
      BY <1>2, <2>4, <3>1 DEF PhaseRow
    <3>2. CASE worker[h].advice # Nobody
      BY <1>2, <2>4, <3>2 DEF PhaseRow
    <3> QED BY <3>1, <3>2
  <2> QED BY <1>4, <2>1, <2>2, <2>3, <2>4 DEF WorkerStep
<1>5. ASSUME NEW h \in Heads, KronosEscalate(h) \/ KronosStop(h) PROVE Goal
  BY <1>2, <1>5 DEF KronosEscalate, KronosStop
<1>6. CASE Environment
  <2>1. CASE \E a \in Advices : InflightGrowsStale(a)
    <3> PICK a \in Advices : InflightGrowsStale(a)
      BY <2>1
    <3> DEFINE aging == {r \in Of("inflight") : r.advice = a /\ ~r.old}
    <3>1. rows' = (rows \ aging) \cup Rephased(aging, "inflight", TRUE)
      BY DEF InflightGrowsStale
    <3>2. \A r \in aging : r \in rows /\ r.phase = "inflight"
      BY DEF Of
    <3> HIDE DEF aging
    <3>3. \A r \in Rephased(aging, "inflight", TRUE) : r.phase = "inflight"
      BY <1>e, <3>2
    <3> QED BY <3>1, <3>2, <3>3 DEF Of
  <2>2. CASE ~ \E a \in Advices : InflightGrowsStale(a)
    <3>1. rows' = rows
      BY <1>6, <2>2 DEF Environment, PlanReady, GivesUp, BuilderLane, QuietWindowPasses, Crash, table
    <3> QED BY <1>1, <3>1
  <2> QED BY <2>1, <2>2
<1>7. CASE Reclaim
  <2> PICK m \in Stale :
         rows' = IF Settled(m) \/ Superseded(m)
                 THEN rows \ {m}
                 ELSE (rows \ {m}) \cup Rephased({m}, "escalating", FALSE)
    BY <1>7 DEF Reclaim
  <2>1. m \in rows /\ m.phase = "inflight"
    BY DEF Stale, Of
  <2>2. \A r \in Rephased({m}, "escalating", FALSE) : r.phase = "escalating"
    BY <1>e, <2>1
  <2> QED BY <2>1, <2>2 DEF Of
<1>8. CASE Take
  <2> DEFINE esc == Of("escalating")
             own == {r \in esc : r.advice = rec.advice}
  <2>1. \/ rows' = (rows \ esc) \cup Rephased(own, "inflight", FALSE)
        \/ rows' = rows \ own
    BY <1>8 DEF Take
  <2>2. \A r \in esc : r \in rows /\ r.phase = "escalating"
    BY DEF Of
  <2>3. own \subseteq esc
    OBVIOUS
  <2> HIDE DEF own, esc
  <2>4. \A r \in Rephased(own, "inflight", FALSE) : r.phase = "inflight"
    BY <1>e, <2>2, <2>3
  <2> QED BY <2>1, <2>2, <2>3, <2>4 DEF Of
<1>9. CASE Look \/ TakeFails \/ CreateJob \/ Repair \/ ReRecordFails \/ ClearFails
  BY <1>1, <1>9 DEF Look, TakeFails, CreateJob, Repair, ReRecordFails, ClearFails, table
<1>10. CASE Clear
  BY <1>3, <1>10 DEF Clear, Of
<1>h. rec.pc # "poll" => rec.head \in Heads
  BY DEF TypeOK
<1>11. CASE Park \/ ReRecord
  BY <1>2, <1>11, <1>h DEF Park, ReRecord
<1>d. ASSUME rec.pc = "decide", rec'.pc \in {"job", "rerecord"},
             Record("escalated", rec.advice, rec.head)
      PROVE Goal
  BY <1>d DEF Record, Of
<1>c. rec.pc # "poll" => [rec EXCEPT !.pc = "job"].pc = "job" /\ [rec EXCEPT !.pc = "rerecord"].pc = "rerecord"
  BY DEF TypeOK
<1>12. CASE Decide
  BY <1>1, <1>12, <1>d, <1>c DEF Decide, table
<1>13. CASE ActRaises
  BY <1>1, <1>2, <1>13, <1>d, <1>c, <1>h DEF ActRaises, table, ActPcs
<1>14. CASE UNCHANGED vars
  BY <1>1, <1>14 DEF vars
<1> HIDE DEF Goal
<1>15. CASE RecoveryStep
  BY <1>7, <1>8, <1>9, <1>10, <1>11, <1>12, <1>13, <1>15 DEF RecoveryStep, ActStep
<1>16. CASE \E h \in Heads : WorkerStep(h) \/ KronosEscalate(h) \/ KronosStop(h)
  <2> PICK h \in Heads : WorkerStep(h) \/ KronosEscalate(h) \/ KronosStop(h)
    BY <1>16
  <2>1. CASE WorkerStep(h)
    BY <1>4, <2>1
  <2>2. CASE KronosEscalate(h) \/ KronosStop(h)
    BY <1>5, <2>2
  <2> QED BY <2>1, <2>2
<1>17. CASE Next
  BY <1>6, <1>15, <1>16, <1>17 DEF Next
<1>18. Goal
  BY <1>14, <1>17
<1> QED BY <1>18 DEF Goal

\* What a step may do to the builder job of the escalated round.
LEMMA JobMoves ==
    ASSUME TypeOK, [Next]_vars
    PROVE  \/ job' = job
           \/ job'.plan = job.plan /\ job.state # "done"
           \/ job'.plan = Nobody /\ job.state = "none"
           \/ job'.plan = rec.advice /\ rec.pc = "job"
           \/ job'.plan = rec.advice /\ rec.pc = "repair" /\ job.state = "none"
<1>1. CASE \E h \in Heads : WorkerStep(h)
  BY <1>1 DEF WorkerStep, Gate, Bounce, SubmitEscalation, SubmitFails, SubmitRaises, Submitted,
              ParkRaised, PhaseRow, Triage, RunDies
<1>2. CASE \E h \in Heads : KronosEscalate(h) \/ KronosStop(h)
  BY <1>2 DEF KronosEscalate, KronosStop
<1>3. CASE Environment
  <2>1. CASE BuilderLane
    <3> PICK m \in BuilderMoves : job.state = m[1] /\ job' = [job EXCEPT !.state = m[2]]
      BY <2>1 DEF BuilderLane
    <3>1. m[1] # "done"
      BY DEF BuilderMoves
    <3> QED BY <3>1 DEF TypeOK
  <2>2. CASE ~BuilderLane
    BY <1>3, <2>2 DEF Environment, PlanReady, GivesUp, InflightGrowsStale, QuietWindowPasses, Crash
  <2> QED BY <2>1, <2>2
<1>4. CASE RecoveryStep
  <2>1. CASE CreateJob \/ Repair
    BY <2>1 DEF CreateJob, Repair, CreateBuilder
  <2>2. CASE ActRaises
    BY <2>2 DEF ActRaises, CreateBuilder
  <2>3. CASE ~(CreateJob \/ Repair \/ ActRaises)
    BY <1>4, <2>3 DEF RecoveryStep, ActStep, Reclaim, Look, Take, TakeFails, Park, Decide,
                      ReRecord, ReRecordFails, Clear, ClearFails
  <2> QED BY <2>1, <2>2, <2>3
<1>5. CASE UNCHANGED vars
  BY <1>5 DEF vars
<1> QED BY <1>1, <1>2, <1>3, <1>4, <1>5 DEF Next

\* How the recovery thread moves towards an act.
LEMMA RecMoves ==
    ASSUME TypeOK, [Next]_vars
    PROVE  \/ rec' = rec
           \/ rec'.pc \in {"poll", "clear", "rerecord"}
           \/ /\ rec'.pc = "take" /\ rows' = rows
              /\ rec'.act = "decide" =>
                    DecisionOf(rec'.advice) = {} /\ advisor'[rec'.advice] = "plan"
              /\ rec'.act = "repair" => DecisionOf(rec'.advice) # {}
           \/ /\ rec.pc = "take" /\ rec'.pc = rec.act
              /\ rec'.act = rec.act /\ rec'.advice = rec.advice
           \/ Decide
<1>1. CASE \E h \in Heads : WorkerStep(h)
  BY <1>1 DEF WorkerStep, Gate, Bounce, SubmitEscalation, SubmitFails, SubmitRaises, Submitted,
              ParkRaised, PhaseRow, Triage, RunDies
<1>2. CASE \E h \in Heads : KronosEscalate(h) \/ KronosStop(h)
  BY <1>2 DEF KronosEscalate, KronosStop
<1>3. CASE Environment
  <2>1. CASE Crash
    BY <2>1 DEF Crash, Polling
  <2>2. CASE ~Crash
    BY <1>3, <2>2 DEF Environment, PlanReady, GivesUp, InflightGrowsStale, BuilderLane,
                      QuietWindowPasses
  <2> QED BY <2>1, <2>2
<1>4. CASE Look
  <2> PICK m \in Of("escalating") : \E v \in Verdicts(m) :
         rec' = [pc |-> "take", act |-> v, advice |-> m.advice, head |-> m.head]
    BY <1>4 DEF Look
  <2> PICK v \in Verdicts(m) :
         rec' = [pc |-> "take", act |-> v, advice |-> m.advice, head |-> m.head]
    OBVIOUS
  <2>1. /\ v = "decide" => DecisionOf(m.advice) = {} /\ advisor[m.advice] = "plan"
        /\ v = "repair" => DecisionOf(m.advice) # {}
    BY DEF Verdicts
  <2>2. rows' = rows /\ advisor' = advisor
    BY <1>4 DEF Look, table
  <2> QED BY <2>1, <2>2
<1>5. CASE Take
  <2>1. rec' = [rec EXCEPT !.pc = rec.act] \/ rec' = Polling
    BY <1>5 DEF Take
  <2> QED BY <1>5, <2>1 DEF Take, Polling, TypeOK
<1>6. CASE Reclaim
  BY <1>6 DEF Reclaim
<1>7. CASE Park \/ CreateJob \/ Repair \/ ActRaises
  BY <1>7 DEF Park, CreateJob, Repair, ActRaises, TypeOK
<1>8. CASE TakeFails \/ ReRecord \/ ReRecordFails \/ Clear \/ ClearFails
  BY <1>8 DEF TakeFails, ReRecord, ReRecordFails, Clear, ClearFails, Polling
<1>9. CASE UNCHANGED vars
  BY <1>9 DEF vars
<1> QED BY <1>1, <1>2, <1>3, <1>4, <1>5, <1>6, <1>7, <1>8, <1>9 DEF Next, RecoveryStep, ActStep

\* A step that is none of the pass's own acts leaves whose plan it is.
LEMMA JobUntouched ==
    ASSUME TypeOK, [Next]_vars, rec.pc = "job", ~(CreateJob \/ ActRaises)
    PROVE  job'.plan = job.plan \/ job'.plan = Nobody
<1>1. CASE \E h \in Heads : WorkerStep(h)
  BY <1>1 DEF WorkerStep, Gate, Bounce, SubmitEscalation, SubmitFails, SubmitRaises, Submitted,
              ParkRaised, PhaseRow, Triage, RunDies
<1>2. CASE \E h \in Heads : KronosEscalate(h) \/ KronosStop(h)
  BY <1>2 DEF KronosEscalate, KronosStop
<1>3. CASE Environment
  BY <1>3 DEF Environment, PlanReady, GivesUp, InflightGrowsStale, QuietWindowPasses, Crash,
              BuilderLane, TypeOK
<1>4. CASE RecoveryStep
  BY <1>4 DEF RecoveryStep, ActStep, Reclaim, Look, Take, TakeFails, Park, Decide, Repair,
              ReRecord, ReRecordFails, Clear, ClearFails
<1>5. CASE UNCHANGED vars
  BY <1>5 DEF vars
<1> QED BY <1>1, <1>2, <1>3, <1>4, <1>5 DEF Next

\* Decide leaves a decision of the advice it acts on.
LEMMA DecisionMade ==
    ASSUME TypeOK, Decide, DecisionOf(rec.advice) = {}
    PROVE  DecisionOf(rec.advice)' # {}
<1>1. rec.advice # Nobody /\ rec' = [rec EXCEPT !.pc = "job"]
      /\ Record("escalated", rec.advice, rec.head)
  BY DEF Decide, TypeOK
<1> DEFINE new == [id |-> lastId + 1, phase |-> "escalated", advice |-> rec.advice,
                   head |-> rec.head, old |-> FALSE]
<1>2. rec'.advice = rec.advice
  BY <1>1 DEF TypeOK
<1>3. new \in rows' /\ new.phase = "escalated" /\ new.advice = rec.advice
  BY <1>1 DEF Record
<1> HIDE DEF new
<1> QED BY <1>1, <1>2, <1>3 DEF DecisionOf, Of

\* The plan's history is preserved by every step.
LEMMA PlanStep ==
    ASSUME Inv, PlanInv, [Next]_vars
    PROVE  PlanInv'
<1>0. TypeOK /\ ActMatches
  BY DEF Inv
<1>t. /\ rec.pc # "poll" => rec.advice \in Advices /\ rec.advice # Nobody
      /\ job.plan \in Advices \cup {Nobody}
  BY <1>0 DEF TypeOK
<1>1. \A a : DecisionOf(a) # {} => DecisionOf(a)' # {}
  <2> TAKE a
  <2> HAVE DecisionOf(a) # {}
  <2> PICK d \in DecisionOf(a) : TRUE
    OBVIOUS
  <2>1. d \in rows' /\ d.phase = "escalated" /\ d.advice = a /\ a # Nobody
    BY <1>0, DecisionRows DEF DecisionOf, Of
  <2> QED BY <2>1 DEF DecisionOf, Of
<1>2. ASSUME NEW a, DecisionOf(a) = {},
             a # rec.advice \/ rec.pc # "decide" \/ rec'.pc \notin {"job", "rerecord"}
      PROVE  DecisionOf(a)' = {}
  BY <1>0, <1>2, DecisionRows DEF DecisionOf, Of
<1>3. PlanDecided'
  <2>1. rec.pc \in {"job", "repair"} => DecisionOf(rec.advice) # {}
    BY <1>0 DEF PlanInv, RepairDecided, JobFresh, ActMatches, ActPcs
  <2>2. job'.plan # Nobody => DecisionOf(job'.plan) # {}
    BY <1>0, <2>1, JobMoves DEF PlanInv, PlanDecided
  <2> QED BY <1>1, <2>2 DEF PlanDecided
<1>4. CASE rec' = rec
  <2>1. DecideUndecided' /\ RepairDecided'
    BY <1>1, <1>2, <1>4 DEF PlanInv, DecideUndecided, RepairDecided
  <2>2. ASSUME rec.pc = "job" PROVE job'.plan # rec.advice
    <3>1. ~(CreateJob \/ ActRaises)
      BY <1>0, <1>4, <2>2 DEF CreateJob, ActRaises, TypeOK
    <3>2. job'.plan = job.plan \/ job'.plan = Nobody
      BY <1>0, <1>4, <2>2, <3>1, JobUntouched
    <3> QED BY <1>t, <2>2, <3>2 DEF PlanInv, JobFresh
  <2>3. JobFresh'
    BY <1>1, <1>4, <2>2 DEF PlanInv, JobFresh
  <2> QED BY <1>3, <2>1, <2>3 DEF PlanInv
<1>5. CASE rec'.pc \in {"poll", "clear", "rerecord"}
  BY <1>3, <1>5 DEF PlanInv, DecideUndecided, RepairDecided, JobFresh
<1>6. CASE /\ rec'.pc = "take" /\ rows' = rows
           /\ rec'.act = "decide" => DecisionOf(rec'.advice) = {}
           /\ rec'.act = "repair" => DecisionOf(rec'.advice) # {}
  BY <1>3, <1>6 DEF PlanInv, DecideUndecided, RepairDecided, JobFresh, DecisionOf, Of
<1>7. CASE /\ rec.pc = "take" /\ rec'.pc = rec.act
           /\ rec'.act = rec.act /\ rec'.advice = rec.advice
  <2>1. rec.act \in {"park", "decide", "repair"}
    BY <1>0, <1>7 DEF ActMatches
  <2>2. DecideUndecided' /\ RepairDecided' /\ JobFresh'
    BY <1>1, <1>2, <1>7, <2>1 DEF PlanInv, DecideUndecided, RepairDecided, JobFresh
  <2> QED BY <1>3, <2>2 DEF PlanInv
<1>8. CASE Decide
  <2>1. rec.pc = "decide" /\ rec' = [rec EXCEPT !.pc = "job"] /\ job' = job
    BY <1>8 DEF Decide
  <2>2. rec'.pc = "job" /\ rec'.advice = rec.advice
    BY <1>0, <2>1 DEF TypeOK
  <2>3. rec.act = "decide"
    BY <1>0, <2>1 DEF ActMatches, ActPcs
  <2>4. DecisionOf(rec.advice) = {}
    BY <2>1, <2>3 DEF PlanInv, DecideUndecided
  <2>5. DecisionOf(rec.advice)' # {}
    BY <1>0, <1>8, <2>4, DecisionMade
  <2>6. job.plan # rec.advice
    BY <1>t, <2>1, <2>4 DEF PlanInv, PlanDecided
  <2> QED BY <1>3, <2>1, <2>2, <2>5, <2>6 DEF PlanInv, DecideUndecided, RepairDecided, JobFresh
<1> QED BY <1>0, <1>4, <1>5, <1>6, <1>7, <1>8, RecMoves

\* No retry, repair or reclaim re-arms the finished round of a plan.
THEOREM PlanRunsOnce == Spec => EscalatedRoundRunsOnce
<1>1. Init => PlanInv
  BY DEF Init, Polling, PlanInv, DecideUndecided, RepairDecided, JobFresh, PlanDecided
<1>2. Inv /\ PlanInv /\ [Next]_vars =>
         [job.state = "done" /\ job'.state # "done" => job'.plan # job.plan]_vars
  <2> SUFFICES ASSUME Inv, PlanInv, [Next]_vars, job.state = "done", job'.state # "done"
               PROVE  job'.plan # job.plan
    OBVIOUS
  <2>1. \/ job'.plan = Nobody /\ job.state = "none"
        \/ job'.plan = rec.advice /\ rec.pc = "job"
    BY JobMoves DEF Inv
  <2> QED BY <2>1 DEF PlanInv, JobFresh
<1> QED BY <1>1, <1>2, InvInit, InvStep, PlanStep, PTL DEF Spec, EscalatedRoundRunsOnce

-----------------------------------------------------------------------------
(* The refinement of AdviceLedger.                                         *)

\* An advice about to be decided has been answered, and a round nobody has
\* ordered carries nobody's plan.
AnswerInv ==
    /\ rec.act = "decide" /\ rec.pc \in {"take", "decide"} =>
          advisor[rec.advice] \in {"plan", "hopeless"}
    /\ job.state = "none" => job.plan = Nobody

\* Rows that record an outcome stay, and a new one is in the name of nobody.
OutcomesKept ==
    /\ \A r \in rows : r.phase \in {"parked", "escalated"} => r \in rows'
    /\ \A r \in rows' : r.phase \in {"parked", "escalated"} => r \in rows \/ r.advice = Nobody

\* Such a step leaves every advice the outcome it has.
LEMMA OutcomeSame ==
    ASSUME OutcomesKept
    PROVE  AdviceOutcome' = AdviceOutcome
<1>1. \A a \in Advices : a # Nobody
  BY DEF Advices, Nobody
<1>2. ASSUME NEW a \in Advices
      PROVE  /\ DecisionOf(a)' # {} <=> DecisionOf(a) # {}
             /\ (\E r \in Of("parked") : r.advice = a)' <=> \E r \in Of("parked") : r.advice = a
  BY <1>1 DEF OutcomesKept, DecisionOf, Of
<1> QED BY <1>2 DEF AdviceOutcome

\* The park of an undecided advice gives it that outcome, if it has none yet.
LEMMA ParkOutcome ==
    ASSUME TypeOK, rec.pc = "park", DecisionOf(rec.advice) = {},
           Record("parked", rec.advice, rec.head)
    PROVE  \/ AdviceOutcome' = AdviceOutcome
           \/ /\ AdviceOutcome[rec.advice] = "none"
              /\ AdviceOutcome' = [AdviceOutcome EXCEPT ![rec.advice] = "parked"]
<1> DEFINE new == [id |-> lastId + 1, phase |-> "parked", advice |-> rec.advice,
                   head |-> rec.head, old |-> FALSE]
<1>1. rec.advice \in Advices
  BY DEF TypeOK
<1>2. rows' = rows \cup {new} /\ new.phase = "parked" /\ new.advice = rec.advice
  BY DEF Record
<1> HIDE DEF new
<1>3. ASSUME NEW a PROVE DecisionOf(a)' = DecisionOf(a)
  BY <1>2 DEF DecisionOf, Of
<1>4. ASSUME NEW a \in Advices, a # rec.advice
      PROVE  (\E r \in Of("parked") : r.advice = a)' <=> \E r \in Of("parked") : r.advice = a
  BY <1>2, <1>4 DEF Of
<1>5. \E r \in Of("parked")' : r.advice = rec.advice
  BY <1>2 DEF Of
<1>6. ASSUME NEW a \in Advices, a # rec.advice PROVE AdviceOutcome'[a] = AdviceOutcome[a]
  BY <1>3, <1>4, <1>6 DEF AdviceOutcome
<1>7. AdviceOutcome'[rec.advice] = "parked"
  BY <1>1, <1>3, <1>5 DEF AdviceOutcome
<1>8. AdviceOutcome[rec.advice] \in {"none", "parked"}
  BY <1>1 DEF AdviceOutcome
<1>9. /\ AdviceOutcome = [a \in Advices |-> AdviceOutcome[a]]
      /\ AdviceOutcome' = [a \in Advices |-> AdviceOutcome'[a]]
  BY DEF AdviceOutcome
<1>10. CASE AdviceOutcome[rec.advice] = "parked"
  <2>1. \A a \in Advices : AdviceOutcome'[a] = AdviceOutcome[a]
    BY <1>6, <1>7, <1>10
  <2> QED BY <1>9, <2>1
<1>11. CASE AdviceOutcome[rec.advice] = "none"
  BY <1>6, <1>7, <1>9, <1>11
<1> QED BY <1>8, <1>10, <1>11

\* The decision of an advice without an outcome is its outcome.
LEMMA DecideOutcome ==
    ASSUME TypeOK, rec.pc = "decide", DecisionOf(rec.advice) = {},
           \A r \in Of("parked") : r.advice # rec.advice,
           Record("escalated", rec.advice, rec.head)
    PROVE  /\ AdviceOutcome[rec.advice] = "none"
           /\ AdviceOutcome' = [AdviceOutcome EXCEPT ![rec.advice] = "decided"]
<1> DEFINE new == [id |-> lastId + 1, phase |-> "escalated", advice |-> rec.advice,
                   head |-> rec.head, old |-> FALSE]
<1>1. rec.advice \in Advices /\ rec.advice # Nobody
  BY DEF TypeOK
<1>2. rows' = rows \cup {new} /\ new.phase = "escalated" /\ new.advice = rec.advice
  BY DEF Record
<1> HIDE DEF new
<1>3. ASSUME NEW a \in Advices, a # rec.advice
      PROVE  /\ DecisionOf(a)' = DecisionOf(a)
             /\ (\E r \in Of("parked") : r.advice = a)' <=> \E r \in Of("parked") : r.advice = a
  BY <1>2, <1>3 DEF DecisionOf, Of
<1>4. \E r \in rows' : r.phase = "escalated" /\ r.advice = rec.advice
  BY <1>2
<1>5. ASSUME NEW a \in Advices, a # rec.advice PROVE AdviceOutcome'[a] = AdviceOutcome[a]
  BY <1>3, <1>5 DEF AdviceOutcome
<1>6. AdviceOutcome'[rec.advice] = "decided"
  BY <1>1, <1>4 DEF AdviceOutcome, DecisionOf, Of
<1>7. AdviceOutcome[rec.advice] = "none"
  BY <1>1 DEF AdviceOutcome
<1>8. /\ AdviceOutcome = [a \in Advices |-> AdviceOutcome[a]]
      /\ AdviceOutcome' = [a \in Advices |-> AdviceOutcome'[a]]
  BY DEF AdviceOutcome
<1> QED BY <1>5, <1>6, <1>7, <1>8

\* A step that only deletes markers, or writes rows of nobody's outcome.
LEMMA QuietRows ==
    ASSUME TypeOK
    PROVE  /\ rows' = rows => OutcomesKept
           /\ \A p, a, h : Record(p, a, h) /\ (p \in {"escalating", "inflight"} \/ a = Nobody) => OutcomesKept
           /\ \A gone, T, p, b :
                 /\ gone \subseteq rows /\ T \subseteq rows
                 /\ p \in {"escalating", "inflight"}
                 /\ \A r \in gone : r.phase \in {"escalating", "inflight"}
                 /\ rows' = rows \ gone \/ rows' = (rows \ gone) \cup Rephased(T, p, b)
                 => OutcomesKept
<1>1. rows' = rows => OutcomesKept
  BY DEF OutcomesKept
<1>2. ASSUME NEW p, NEW a, NEW h, Record(p, a, h), p \in {"escalating", "inflight"} \/ a = Nobody
      PROVE  OutcomesKept
  <2> DEFINE new == [id |-> lastId + 1, phase |-> p, advice |-> a, head |-> h, old |-> FALSE]
  <2>1. rows' = rows \cup {new} /\ new.phase = p /\ new.advice = a
    BY <1>2 DEF Record
  <2> HIDE DEF new
  <2> QED BY <1>2, <2>1 DEF OutcomesKept
<1>3. ASSUME NEW gone, NEW T, NEW p, NEW b, gone \subseteq rows, T \subseteq rows,
             p \in {"escalating", "inflight"},
             \A r \in gone : r.phase \in {"escalating", "inflight"},
             rows' = rows \ gone \/ rows' = (rows \ gone) \cup Rephased(T, p, b)
      PROVE  OutcomesKept
  <2>1. \A r \in Rephased(T, p, b) : r.phase = p
    <3> TAKE r \in Rephased(T, p, b)
    <3> PICK s \in T : r = [s EXCEPT !.phase = p, !.old = b]
      BY DEF Rephased
    <3>1. s \in Rows
      BY <1>3 DEF TypeOK, RowsOK
    <3> QED BY <3>1 DEF Rows
  <2>2. \A r \in rows : r.phase \in {"parked", "escalated"} => r \notin gone
    BY <1>3
  <2>3. \A r \in rows' : r \in rows \/ r.phase = p
    BY <1>3, <2>1
  <2> QED BY <1>3, <2>2, <2>3 DEF OutcomesKept
<1> QED BY <1>1, <1>2, <1>3

\* Only the pass's own acts give an advice an outcome.
LEMMA QuietSteps ==
    ASSUME TypeOK, [Next]_vars, ~(Park \/ Decide \/ ActRaises)
    PROVE  OutcomesKept
<1>1. rows' = rows => OutcomesKept
  BY QuietRows
<1>2. \A p, a, h : Record(p, a, h) /\ (p \in {"escalating", "inflight"} \/ a = Nobody) => OutcomesKept
  BY QuietRows
<1>3. ASSUME NEW gone, gone \subseteq rows, NEW T, T \subseteq rows,
             NEW p \in {"escalating", "inflight"}, NEW b,
             \A r \in gone : r.phase \in {"escalating", "inflight"},
             rows' = rows \ gone \/ rows' = (rows \ gone) \cup Rephased(T, p, b)
      PROVE  OutcomesKept
  BY <1>3, QuietRows
<1>4. ASSUME NEW h \in Heads, WorkerStep(h) PROVE OutcomesKept
  <2>1. CASE Gate(h) \/ Triage(h) \/ RunDies(h)
    BY <1>1, <2>1 DEF Gate, Triage, RunDies, table
  <2>2. CASE Bounce(h) \/ SubmitFails(h) \/ ParkRaised(h)
    BY <1>1, <1>2, <2>2 DEF Bounce, SubmitFails, ParkRaised, table
  <2>3. CASE SubmitEscalation(h) \/ SubmitRaises(h)
    BY <1>2, <2>3 DEF SubmitEscalation, SubmitRaises, Submitted
  <2>4. CASE PhaseRow(h)
    <3>1. CASE worker[h].advice = Nobody
      BY <1>2, <2>4, <3>1 DEF PhaseRow
    <3>2. CASE worker[h].advice # Nobody
      BY <1>2, <2>4, <3>2 DEF PhaseRow
    <3> QED BY <3>1, <3>2
  <2> QED BY <1>4, <2>1, <2>2, <2>3, <2>4 DEF WorkerStep
<1>5. ASSUME NEW h \in Heads, KronosEscalate(h) \/ KronosStop(h) PROVE OutcomesKept
  BY <1>2, <1>5 DEF KronosEscalate, KronosStop
<1>6. CASE Environment
  <2>1. CASE \E a \in Advices : InflightGrowsStale(a)
    <3> PICK a \in Advices : InflightGrowsStale(a)
      BY <2>1
    <3> DEFINE aging == {r \in Of("inflight") : r.advice = a /\ ~r.old}
    <3>1. rows' = (rows \ aging) \cup Rephased(aging, "inflight", TRUE)
      BY DEF InflightGrowsStale
    <3>2. \A r \in aging : r \in rows /\ r.phase = "inflight"
      BY DEF Of
    <3> HIDE DEF aging
    <3> QED BY <1>3, <3>1, <3>2
  <2>2. CASE ~ \E a \in Advices : InflightGrowsStale(a)
    <3>1. rows' = rows
      BY <1>6, <2>2 DEF Environment, PlanReady, GivesUp, BuilderLane, QuietWindowPasses, Crash, table
    <3> QED BY <1>1, <3>1
  <2> QED BY <2>1, <2>2
<1>7. CASE Reclaim
  <2> PICK m \in Stale :
         rows' = IF Settled(m) \/ Superseded(m)
                 THEN rows \ {m}
                 ELSE (rows \ {m}) \cup Rephased({m}, "escalating", FALSE)
    BY <1>7 DEF Reclaim
  <2>1. m \in rows /\ m.phase = "inflight"
    BY DEF Stale, Of
  <2>2. rows' = rows \ {m} \/ rows' = (rows \ {m}) \cup Rephased({m}, "escalating", FALSE)
    OBVIOUS
  <2> QED BY ZenonT(60), <1>3, <2>1, <2>2
<1>8. CASE Take
  <2> DEFINE esc == Of("escalating")
             own == {r \in esc : r.advice = rec.advice}
  <2>1. \/ rows' = (rows \ esc) \cup Rephased(own, "inflight", FALSE)
        \/ rows' = rows \ own
    BY <1>8 DEF Take
  <2>2. \A r \in esc : r \in rows /\ r.phase = "escalating"
    BY DEF Of
  <2>3. own \subseteq esc
    OBVIOUS
  <2> HIDE DEF own, esc
  <2> QED BY <1>3, <2>1, <2>2, <2>3
<1>9. CASE Look \/ TakeFails \/ CreateJob \/ Repair \/ ReRecordFails \/ ClearFails
  BY <1>1, <1>9 DEF Look, TakeFails, CreateJob, Repair, ReRecordFails, ClearFails, table
<1>10. CASE Clear
  <2> DEFINE gone == {r \in Of("inflight") : r.advice = rec.advice}
  <2>1. rows' = rows \ gone
    BY <1>10 DEF Clear
  <2>2. \A r \in gone : r \in rows /\ r.phase = "inflight"
    BY DEF Of
  <2> HIDE DEF gone
  <2> QED BY <1>3, <2>1, <2>2
<1>11. CASE ReRecord
  BY <1>2, <1>11 DEF ReRecord
<1>12. CASE UNCHANGED vars
  BY <1>1, <1>12 DEF vars
<1>13. CASE RecoveryStep
  BY <1>7, <1>8, <1>9, <1>10, <1>11, <1>13 DEF RecoveryStep, ActStep
<1>14. CASE \E h \in Heads : WorkerStep(h) \/ KronosEscalate(h) \/ KronosStop(h)
  <2> PICK h \in Heads : WorkerStep(h) \/ KronosEscalate(h) \/ KronosStop(h)
    BY <1>14
  <2>1. CASE WorkerStep(h)
    BY <1>4, <2>1
  <2>2. CASE KronosEscalate(h) \/ KronosStop(h)
    BY <1>5, <2>2
  <2> QED BY <2>1, <2>2
<1> QED BY <1>6, <1>12, <1>13, <1>14 DEF Next

\* An answered advice stays answered, and no step makes a job vanish.
LEMMA AnswersStay ==
    ASSUME TypeOK, [Next]_vars
    PROVE  /\ \A a \in Advices : advisor[a] \in {"plan", "hopeless"} => advisor'[a] \in {"plan", "hopeless"}
           /\ job'.state = "none" => job' = job
<1> DEFINE Stay == \A a \in Advices :
                      advisor[a] \in {"plan", "hopeless"} => advisor'[a] \in {"plan", "hopeless"}
           Exists == job'.state = "none" => job' = job
<1>1. ASSUME NEW h \in Heads, WorkerStep(h) PROVE job' = job /\ Stay
  <2>1. CASE SubmitEscalation(h) \/ SubmitRaises(h)
    <3> PICK a \in Advices : /\ advisor[a] = "unposted"
                             /\ advisor' = [advisor EXCEPT ![a] = "waiting"]
                             /\ job' = job
      BY <2>1 DEF SubmitEscalation, SubmitRaises, Submitted, NextAdvice
    <3> QED BY DEF TypeOK
  <2>2. CASE ~(SubmitEscalation(h) \/ SubmitRaises(h))
    BY <1>1, <2>2 DEF WorkerStep, Gate, Bounce, SubmitFails, ParkRaised, PhaseRow, Triage, RunDies
  <2> QED BY <2>1, <2>2
<1>2. ASSUME NEW h \in Heads, KronosEscalate(h) \/ KronosStop(h) PROVE Exists /\ Stay
  BY <1>2 DEF KronosEscalate, KronosStop
<1>3. ASSUME Environment PROVE Exists /\ Stay
  <2>1. CASE BuilderLane
    <3> PICK m \in BuilderMoves : job.state = m[1] /\ job' = [job EXCEPT !.state = m[2]]
      BY <2>1 DEF BuilderLane
    <3>1. m[2] # "none"
      BY DEF BuilderMoves
    <3>2. job'.state = m[2]
      BY DEF TypeOK
    <3> QED BY <2>1, <3>1, <3>2 DEF BuilderLane
  <2>2. CASE \E a \in Advices : PlanReady(a) \/ GivesUp(a)
    BY <2>2 DEF PlanReady, GivesUp, TypeOK
  <2>3. CASE QuietWindowPasses \/ Crash \/ \E a \in Advices : InflightGrowsStale(a)
    BY <2>3 DEF QuietWindowPasses, Crash, InflightGrowsStale
  <2> QED BY <1>3, <2>1, <2>2, <2>3 DEF Environment
<1>4. ASSUME RecoveryStep PROVE Exists /\ Stay
  <2>1. advisor' = advisor
    BY <1>4 DEF RecoveryStep, ActStep, Reclaim, Look, Take, TakeFails, Park, Decide, CreateJob, Repair,
                ActRaises, ReRecord, ReRecordFails, Clear, ClearFails
  <2>2. job' = job \/ job' = [state |-> "queued", plan |-> rec.advice]
    BY <1>4 DEF RecoveryStep, ActStep, Reclaim, Look, Take, TakeFails, Park, Decide, CreateJob, Repair,
                ActRaises, ReRecord, ReRecordFails, Clear, ClearFails, CreateBuilder
  <2> QED BY <2>1, <2>2
<1>5. CASE UNCHANGED vars
  BY <1>5 DEF vars
<1> QED BY <1>1, <1>2, <1>3, <1>4, <1>5 DEF Next

\* AnswerInv is preserved by every step.
LEMMA AnswerStep ==
    ASSUME TypeOK, ActMatches, AnswerInv, [Next]_vars
    PROVE  AnswerInv'
<1>1. (job.state = "none" => job.plan = Nobody)'
  BY AnswersStay DEF AnswerInv
<1>2. rec.pc # "poll" => rec.advice \in Advices
  BY DEF TypeOK
<1>3. CASE rec' = rec
  BY <1>1, <1>2, <1>3, AnswersStay DEF AnswerInv
<1>4. CASE rec'.pc \in {"poll", "clear", "rerecord"}
  BY <1>1, <1>4 DEF AnswerInv
<1>5. CASE rec'.pc = "take" /\ (rec'.act = "decide" => advisor'[rec'.advice] = "plan")
  BY <1>1, <1>5 DEF AnswerInv
<1>6. CASE rec.pc = "take" /\ rec'.pc = rec.act /\ rec'.act = rec.act /\ rec'.advice = rec.advice
  BY <1>1, <1>2, <1>6, AnswersStay DEF AnswerInv
<1>7. CASE Decide
  <2>1. rec'.pc = "job"
    BY <1>7 DEF Decide, TypeOK
  <2> QED BY <1>1, <2>1 DEF AnswerInv
<1> QED BY <1>3, <1>4, <1>5, <1>6, <1>7, RecMoves

\* The advisor's and the workers' steps.
LEMMA LedgerPolled ==
    ASSUME TypeOK, OutcomesKept, job' = job, NEW a \in Advices, NEW b, NEW c,
           advisor[a] = b, advisor' = [advisor EXCEPT ![a] = c],
           \/ b = "unposted" /\ c = "waiting"
           \/ b = "waiting" /\ c = "plan"
           \/ b \in {"waiting", "plan"} /\ c = "hopeless"
    PROVE  Ledger!LedgerNext
<1>1. AdviceOutcome' = AdviceOutcome /\ EscalatedRound' = EscalatedRound
  BY OutcomeSame DEF EscalatedRound
<1>2. Ledger!Submit(a) \/ Ledger!Answer(a) \/ Ledger!GiveUp(a)
  BY <1>1 DEF Ledger!Submit, Ledger!Answer, Ledger!GiveUp, Ledger!Polled
<1> QED BY <1>2 DEF Ledger!LedgerNext

\* A step that touches neither the advisor, nor the job, nor an outcome.
LEMMA LedgerStutters ==
    ASSUME OutcomesKept, advisor' = advisor, job' = job
    PROVE  UNCHANGED Ledger!ledgerVars
BY OutcomeSame DEF Ledger!ledgerVars, EscalatedRound

\* The builder lane's moves of the round.
LEMMA LedgerLane ==
    ASSUME TypeOK, OutcomesKept, BuilderLane
    PROVE  Ledger!LedgerNext \/ UNCHANGED Ledger!ledgerVars
<1> PICK m \in BuilderMoves : job.state = m[1] /\ job' = [job EXCEPT !.state = m[2]]
  BY DEF BuilderLane
<1>1. AdviceOutcome' = AdviceOutcome /\ advisor' = advisor
  BY OutcomeSame DEF BuilderLane
<1>2. job'.state = m[2] /\ job'.plan = job.plan
  BY DEF TypeOK
<1>3. EscalatedRound'.plan = EscalatedRound.plan
  BY <1>2 DEF EscalatedRound
<1>4. CASE m = <<"queued", "running">>
  <2>1. EscalatedRound' = EscalatedRound
    BY <1>2, <1>4 DEF EscalatedRound
  <2> QED BY <1>1, <2>1 DEF Ledger!ledgerVars
<1>5. CASE m # <<"queued", "running">>
  <2> DEFINE From(s) == IF s \in {"queued", "running"} THEN "active" ELSE s
  <2>1. EscalatedRound.state = From(m[1]) /\ EscalatedRound'.state = From(m[2])
    BY <1>2 DEF EscalatedRound
  <2>2. \E n \in Ledger!LaneMoves : n[1] = From(m[1]) /\ n[2] = From(m[2])
    BY <1>5 DEF BuilderMoves, Ledger!LaneMoves
  <2>3. EscalatedRound' = [EscalatedRound EXCEPT !.state = From(m[2])]
    BY <2>1, <1>3 DEF EscalatedRound
  <2>4. Ledger!Lane
    BY <1>1, <2>1, <2>2, <2>3 DEF Ledger!Lane
  <2> QED BY <2>4 DEF Ledger!LedgerNext
<1> QED BY <1>4, <1>5

\* The pass orders the round of a decided advice, or leaves it alone.
LEMMA LedgerOrder ==
    ASSUME TypeOK, OutcomesKept, advisor' = advisor, rec.pc # "poll",
           DecisionOf(rec.advice) # {}, job.plan # rec.advice, CreateBuilder(rec.advice)
    PROVE  Ledger!LedgerNext \/ UNCHANGED Ledger!ledgerVars
<1>1. rec.advice \in Advices
  BY DEF TypeOK
<1>2. AdviceOutcome' = AdviceOutcome
  BY OutcomeSame
<1>3. CASE job' = job
  BY <1>2, <1>3 DEF Ledger!ledgerVars, EscalatedRound
<1>4. CASE job' # job
  <2>1. job' = [state |-> "queued", plan |-> rec.advice] /\ job.state \in {"none", "done", "lapsed"}
    BY <1>4 DEF CreateBuilder
  <2>2. EscalatedRound' = [state |-> "active", plan |-> rec.advice]
    BY <2>1 DEF EscalatedRound
  <2>3. EscalatedRound.state # "active" /\ EscalatedRound.plan # rec.advice
    BY <2>1 DEF EscalatedRound
  <2>4. AdviceOutcome[rec.advice] = "decided"
    BY <1>1 DEF AdviceOutcome
  <2>5. Ledger!Order(rec.advice)
    BY <1>2, <2>2, <2>3, <2>4 DEF Ledger!Order
  <2> QED BY <1>1, <2>5 DEF Ledger!LedgerNext
<1> QED BY <1>3, <1>4

\* The pass writes the outcome it has decided on.
LEMMA LedgerSettle ==
    ASSUME Inv, PlanInv, AnswerInv, advisor' = advisor, job' = job,
           \/ rec.pc = "park" /\ Record("parked", rec.advice, rec.head)
           \/ rec.pc = "decide" /\ Record("escalated", rec.advice, rec.head)
    PROVE  Ledger!LedgerNext \/ UNCHANGED Ledger!ledgerVars
<1>1. TypeOK /\ ActMatches /\ ParkJustified /\ DecideJustified
  BY DEF Inv
<1>2. rec.advice \in Advices
  BY <1>1 DEF TypeOK, ActPcs
<1>3. EscalatedRound' = EscalatedRound
  BY DEF EscalatedRound
<1>4. CASE rec.pc = "park" /\ Record("parked", rec.advice, rec.head)
  <2>1. DecisionOf(rec.advice) = {} /\ advisor[rec.advice] = "hopeless"
    BY <1>1, <1>4 DEF ActMatches, ParkJustified, ActPcs
  <2>2. CASE AdviceOutcome' = AdviceOutcome
    BY <1>3, <2>2 DEF Ledger!ledgerVars
  <2>3. CASE /\ AdviceOutcome[rec.advice] = "none"
             /\ AdviceOutcome' = [AdviceOutcome EXCEPT ![rec.advice] = "parked"]
    <3>1. Ledger!ParkAdvice(rec.advice)
      BY <1>3, <2>1, <2>3 DEF Ledger!ParkAdvice, Ledger!Settle
    <3> QED BY <1>2, <3>1 DEF Ledger!LedgerNext
  <2> QED BY <1>1, <1>4, <2>1, <2>2, <2>3, ParkOutcome
<1>5. CASE rec.pc = "decide" /\ Record("escalated", rec.advice, rec.head)
  <2>1. /\ DecisionOf(rec.advice) = {} /\ advisor[rec.advice] \in {"plan", "hopeless"}
        /\ \A r \in Of("parked") : r.advice # rec.advice
    BY <1>1, <1>5 DEF ActMatches, ActPcs, DecideJustified, PlanInv, DecideUndecided, AnswerInv
  <2>2. /\ AdviceOutcome[rec.advice] = "none"
        /\ AdviceOutcome' = [AdviceOutcome EXCEPT ![rec.advice] = "decided"]
    BY <1>1, <1>5, <2>1, DecideOutcome
  <2>3. Ledger!DecideAdvice(rec.advice)
    BY <1>3, <2>1, <2>2 DEF Ledger!DecideAdvice, Ledger!Settle
  <2> QED BY <1>2, <2>3 DEF Ledger!LedgerNext
<1> QED BY <1>4, <1>5

\* The pass's own acts are steps of the ledger, or stutter.
LEMMA LedgerActs ==
    ASSUME Inv, PlanInv, AnswerInv, Park \/ Decide \/ CreateJob \/ Repair \/ ActRaises
    PROVE  Ledger!LedgerNext \/ UNCHANGED Ledger!ledgerVars
<1>0. TypeOK /\ ActMatches
  BY DEF Inv
<1>1. advisor' = advisor /\ rec.pc # "poll"
  BY DEF Park, Decide, CreateJob, Repair, ActRaises, ActPcs
<1>2. ASSUME rows' = rows, job' = job PROVE UNCHANGED Ledger!ledgerVars
  BY <1>0, <1>1, <1>2, QuietRows, LedgerStutters
<1>3. ASSUME rows' = rows, CreateBuilder(rec.advice),
             rec.pc = "job" \/ (rec.pc = "repair" /\ job.state = "none")
      PROVE  Ledger!LedgerNext \/ UNCHANGED Ledger!ledgerVars
  <2>1. OutcomesKept
    BY <1>0, <1>3, QuietRows
  <2>2. CASE rec.pc = "job"
    BY <1>0, <1>1, <1>3, <2>1, <2>2, LedgerOrder DEF PlanInv, JobFresh
  <2>3. CASE rec.pc = "repair" /\ job.state = "none"
    <3>1. DecisionOf(rec.advice) # {}
      BY <1>0, <2>3 DEF PlanInv, RepairDecided, ActMatches, ActPcs
    <3>2. job.plan # rec.advice
      BY <1>0, <2>3 DEF AnswerInv, TypeOK
    <3> QED BY <1>0, <1>1, <1>3, <2>1, <3>1, <3>2, LedgerOrder
  <2> QED BY <1>3, <2>2, <2>3
<1>4. CASE Park
  BY <1>1, <1>4, LedgerSettle DEF Park
<1>5. CASE Decide
  BY <1>1, <1>2, <1>5, LedgerSettle DEF Decide, table
<1>6. CASE CreateJob
  BY <1>3, <1>6 DEF CreateJob
<1>7. CASE Repair
  BY <1>2, <1>3, <1>7 DEF Repair
<1>8. CASE ActRaises
  BY <1>1, <1>2, <1>3, <1>8, LedgerSettle DEF ActRaises, table
<1> QED BY <1>4, <1>5, <1>6, <1>7, <1>8

\* Kronos orders the round only if nobody has and nothing is decided.
LEMMA LedgerRule ==
    ASSUME TypeOK, OutcomesKept, NEW h \in Heads, KronosEscalate(h) \/ KronosStop(h)
    PROVE  Ledger!LedgerNext \/ UNCHANGED Ledger!ledgerVars
<1>1. CASE KronosStop(h)
  BY <1>1, LedgerStutters DEF KronosStop
<1>2. CASE KronosEscalate(h)
  <2>1. AdviceOutcome' = AdviceOutcome /\ advisor' = advisor
    BY <1>2, OutcomeSame DEF KronosEscalate
  <2>2. \A a \in Advices : DecisionOf(a) = {}
    BY <1>2 DEF KronosEscalate, KronosMayWrite, DecisionOf, Of
  <2>3. \A a \in Advices : AdviceOutcome[a] # "decided"
    BY <2>2 DEF AdviceOutcome
  <2>4. EscalatedRound.state = "none" /\ EscalatedRound' = [state |-> "active", plan |-> Nobody]
    BY <1>2 DEF KronosEscalate, EscalatedRound
  <2>5. Ledger!Rule
    BY <2>1, <2>3, <2>4 DEF Ledger!Rule
  <2> QED BY <2>5 DEF Ledger!LedgerNext
<1> QED BY <1>1, <1>2

\* Every step of the escalation is a step of the ledger, or stutters.
LEMMA LedgerStep ==
    ASSUME Inv, PlanInv, AnswerInv, [Next]_vars
    PROVE  Ledger!LedgerNext \/ UNCHANGED Ledger!ledgerVars
<1>0. TypeOK
  BY DEF Inv
<1>1. CASE Park \/ Decide \/ CreateJob \/ Repair \/ ActRaises
  BY <1>1, LedgerActs
<1> SUFFICES ASSUME ~(Park \/ Decide \/ CreateJob \/ Repair \/ ActRaises)
             PROVE  Ledger!LedgerNext \/ UNCHANGED Ledger!ledgerVars
  BY <1>1
<1>2. OutcomesKept
  BY <1>0, QuietSteps
<1>3. ASSUME advisor' = advisor, job' = job PROVE UNCHANGED Ledger!ledgerVars
  BY <1>2, <1>3, LedgerStutters
<1>4. ASSUME NEW h \in Heads, WorkerStep(h)
      PROVE  Ledger!LedgerNext \/ UNCHANGED Ledger!ledgerVars
  <2>1. CASE SubmitEscalation(h) \/ SubmitRaises(h)
    <3> PICK a \in Advices : /\ advisor[a] = "unposted" /\ job' = job
                             /\ advisor' = [advisor EXCEPT ![a] = "waiting"]
      BY <2>1 DEF SubmitEscalation, SubmitRaises, Submitted, NextAdvice
    <3> QED BY <1>0, <1>2, LedgerPolled
  <2>2. CASE ~(SubmitEscalation(h) \/ SubmitRaises(h))
    <3>1. advisor' = advisor /\ job' = job
      BY <1>4, <2>2 DEF WorkerStep, Gate, Bounce, SubmitFails, ParkRaised, PhaseRow, Triage, RunDies
    <3> QED BY <1>3, <3>1
  <2> QED BY <2>1, <2>2
<1>5. ASSUME NEW h \in Heads, KronosEscalate(h) \/ KronosStop(h)
      PROVE  Ledger!LedgerNext \/ UNCHANGED Ledger!ledgerVars
  BY <1>0, <1>2, <1>5, LedgerRule
<1>6. CASE Environment
  <2>1. CASE BuilderLane
    BY <1>0, <1>2, <2>1, LedgerLane
  <2>2. CASE \E a \in Advices : PlanReady(a)
    <3> PICK a \in Advices : PlanReady(a)
      BY <2>2
    <3>1. advisor[a] = "waiting" /\ advisor' = [advisor EXCEPT ![a] = "plan"] /\ job' = job
      BY DEF PlanReady
    <3> QED BY <1>0, <1>2, <3>1, LedgerPolled
  <2>3. CASE \E a \in Advices : GivesUp(a)
    <3> PICK a \in Advices : GivesUp(a)
      BY <2>3
    <3> DEFINE b == advisor[a]
    <3>1. /\ advisor[a] = b /\ b \in {"waiting", "plan"}
          /\ advisor' = [advisor EXCEPT ![a] = "hopeless"] /\ job' = job
      BY DEF GivesUp
    <3> HIDE DEF b
    <3> QED BY <1>0, <1>2, <3>1, LedgerPolled
  <2>4. CASE QuietWindowPasses \/ Crash \/ \E a \in Advices : InflightGrowsStale(a)
    BY <1>3, <2>4 DEF QuietWindowPasses, Crash, InflightGrowsStale
  <2> QED BY <1>6, <2>1, <2>2, <2>3, <2>4 DEF Environment
<1>7. CASE RecoveryStep
  BY <1>3, <1>7 DEF RecoveryStep, ActStep, Reclaim, Look, Take, TakeFails, ReRecord, ReRecordFails,
                    Clear, ClearFails
<1>8. CASE UNCHANGED vars
  BY <1>3, <1>8 DEF vars
<1> QED BY <1>4, <1>5, <1>6, <1>7, <1>8 DEF Next

\* The escalation implements the ledger: whatever is retried, repaired,
\* reclaimed or lost in a crash, an advice has one lasting outcome, on the
\* advisor's word, and a decision orders the round once, never over an active
\* one.
THEOREM EscalationImplementsLedger == Spec => LedgerRefined
<1>1. Init => Ledger!LedgerInit
  <2> SUFFICES ASSUME Init PROVE Ledger!LedgerInit
    OBVIOUS
  <2>1. AdviceOutcome = [a \in Advices |-> "none"]
    BY DEF Init, AdviceOutcome, DecisionOf, Of
  <2>2. EscalatedRound = [state |-> "none", plan |-> Nobody]
    BY DEF Init, EscalatedRound
  <2> QED BY <2>1, <2>2 DEF Init, Ledger!LedgerInit
<1>2. Init => PlanInv /\ AnswerInv
  BY DEF Init, Polling, PlanInv, DecideUndecided, RepairDecided, JobFresh, PlanDecided, AnswerInv
<1>3. Inv /\ PlanInv /\ AnswerInv /\ [Next]_vars => AnswerInv'
  BY AnswerStep DEF Inv
<1>4. Inv /\ PlanInv /\ AnswerInv /\ [Next]_vars => [Ledger!LedgerNext]_(Ledger!ledgerVars)
  BY LedgerStep
<1> QED
  BY <1>1, <1>2, <1>3, <1>4, InvInit, InvStep, PlanStep, PTL
  DEF Spec, LedgerRefined, Ledger!LedgerSpec
=============================================================================
