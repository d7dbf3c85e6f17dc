--------------------------- MODULE WakeLaneProofs ---------------------------
(***************************************************************************)
(* Theorems about WakeLane for every number of wakes, threads, attempts    *)
(* and every bound on the environment.                                     *)
(***************************************************************************)
EXTENDS WakeLane, FiniteSetTheorems, TLAPS

-----------------------------------------------------------------------------
(* The row operators keep a row a row.                                     *)

\* No statement of jobs.py builds a row outside the table's type.
LEMMA RowsClosed ==
    ASSUME NEW r \in J!Rows
    PROVE  /\ J!Absent \in J!Rows
           /\ \A stamp \in BOOLEAN : /\ J!Created(r, stamp) \in J!Rows
                                     /\ J!Stamped(r, stamp) \in J!Rows
           /\ \A w \in Workers : J!Claimed(r, w) \in J!Rows
           /\ \A o \in J!TerminalOutcomes : J!Resolved(r, o) \in J!Rows
           /\ J!Retried(r) \in J!Rows
           /\ J!Parked(r) \in J!Rows
           /\ J!Renewed(r) \in J!Rows
           /\ J!Recovered(r) \in J!Rows
           /\ J!Lapsed(r) \in J!Rows
<1> USE DEF J!Rows, J!States, J!Outcomes, J!TerminalOutcomes, J!Leases
<1>1. J!Absent \in J!Rows
  BY DEF J!Absent
<1>2. \A stamp \in BOOLEAN : J!Created(r, stamp) \in J!Rows
  BY DEF J!Created
<1>3. \A stamp \in BOOLEAN : J!Stamped(r, stamp) \in J!Rows
  BY DEF J!Stamped
<1>4. \A w \in Workers : J!Claimed(r, w) \in J!Rows
  <2> TAKE w \in Workers
  <2>1. r.attempt + 1 \in Nat
    OBVIOUS
  <2>2. [[r EXCEPT !.state = "running"] EXCEPT !.attempt = r.attempt + 1] \in J!Rows
    BY <2>1, Zenon
  <2> QED
    BY <2>1, <2>2, Zenon DEF J!Claimed
<1>5. \A o \in J!TerminalOutcomes : J!Resolved(r, o) \in J!Rows
  BY DEF J!Resolved
<1>6. J!Retried(r) \in J!Rows
  <2>1. CASE J!Exhausted(r)
    BY <2>1 DEF J!Retried
  <2>2. CASE ~J!Exhausted(r)
    BY <2>2 DEF J!Retried
  <2> QED
    BY <2>1, <2>2
<1>7. J!Parked(r) \in J!Rows
  BY DEF J!Parked
<1>8. J!Renewed(r) \in J!Rows
  BY DEF J!Renewed
<1>9. J!Recovered(r) \in J!Rows
  BY DEF J!Recovered
<1>10. J!Lapsed(r) \in J!Rows
  BY DEF J!Lapsed
<1> QED
  BY <1>1, <1>2, <1>3, <1>4, <1>5, <1>6, <1>7, <1>8, <1>9, <1>10

-----------------------------------------------------------------------------
\* The initial state is well typed.
LEMMA TypeInit == Init => TypeOK
<1> SUFFICES ASSUME Init PROVE TypeOK
  OBVIOUS
<1>1. J!Absent \in J!Rows
  BY DEF J!Absent, J!Rows, J!States, J!Outcomes, J!TerminalOutcomes, J!Leases
<1>2. row \in [Wakes -> J!Rows]
  BY <1>1 DEF Init
<1>3. /\ pool \in [Wakes -> Nat]
      /\ deliveries \in Nat /\ outages \in Nat /\ lapses \in Nat /\ restarts \in Nat
  BY DEF Init
<1> QED
  BY <1>2, <1>3 DEF Init, TypeOK, IdleWorker, IdleHand

\* Every step of every thread, of time and of the process keeps the types.
LEMMA TypeStep == TypeOK /\ [Next]_vars => TypeOK'
<1> SUFFICES ASSUME TypeOK, [Next]_vars PROVE TypeOK'
  OBVIOUS
<1> USE DEF TypeOK, Submitters
<1>1. CASE \E h \in Handlers, k \in Wakes : OnVerdict(h, k)
  <2>1. PICK h \in Handlers, k \in Wakes : OnVerdict(h, k)
    BY <1>1
  <2>2. J!Created(row[k], TRUE) \in J!Rows
    BY RowsClosed
  <2>3. deliveries' \in Nat
    BY <2>1 DEF OnVerdict
  <2>4. CASE J!Creatable(row[k])
    <3>1. /\ row' = [row EXCEPT ![k] = J!Created(row[k], TRUE)]
          /\ hand' = [hand EXCEPT ![h] = [pc |-> "submit", wake |-> k]]
      BY <2>1, <2>4 DEF OnVerdict
    <3>2. row' \in [Wakes -> J!Rows]
      BY <2>2, <3>1
    <3> QED
      BY <2>1, <2>3, <3>1, <3>2 DEF OnVerdict
  <2>5. CASE ~J!Creatable(row[k])
    BY <2>1, <2>3, <2>5 DEF OnVerdict
  <2> QED
    BY <2>4, <2>5
<1>1b. CASE \E h \in Handlers, k \in Wakes : OnVerdictRaises(h, k)
  <2>1. PICK h \in Handlers, k \in Wakes : OnVerdictRaises(h, k)
    BY <1>1b
  <2>2. J!Created(row[k], TRUE) \in J!Rows
    BY RowsClosed
  <2>3. row' \in [Wakes -> J!Rows]
    BY <2>1, <2>2 DEF OnVerdictRaises
  <2>4. deliveries' \in Nat /\ outages' \in Nat
    BY <2>1 DEF OnVerdictRaises, Outage
  <2> QED
    BY <2>1, <2>3, <2>4 DEF OnVerdictRaises
<1>2. CASE \E s \in Submitters : Submit(s)
  <2>1. PICK s \in Submitters : Submit(s)
    BY <1>2
  <2> QED
    BY <2>1 DEF Submit
<1>3. CASE \E s \in Submitters : SubmitRejected(s)
  <2>1. PICK s \in Submitters : SubmitRejected(s)
    BY <1>3
  <2>2. J!Stamped(row[hand[s].wake], FALSE) \in J!Rows /\ hand[s].wake \in Wakes
    BY <2>1, RowsClosed DEF SubmitRejected
  <2>3. row' \in [Wakes -> J!Rows]
    BY <2>1, <2>2 DEF SubmitRejected
  <2>4. outages' = outages \/ outages' = outages + 1
    BY <2>1, Zenon DEF SubmitRejected, Outage
  <2>5. outages' \in Nat
    BY <2>4
  <2> QED
    BY <2>1, <2>3, <2>5 DEF SubmitRejected, IdleHand
<1>4. CASE \E s \in Submitters : MarkSubmitted(s)
  <2>1. PICK s \in Submitters : MarkSubmitted(s)
    BY <1>4
  <2>2. row' \in [Wakes -> J!Rows]
    BY <2>1, RowsClosed DEF MarkSubmitted, IdleHand
  <2> QED
    BY <2>1, <2>2 DEF MarkSubmitted, IdleHand
<1>5. CASE \E s \in Submitters : MarkSubmittedFails(s)
  <2>1. PICK s \in Submitters : MarkSubmittedFails(s)
    BY <1>5
  <2> QED
    BY <2>1 DEF MarkSubmittedFails, Outage, IdleHand
<1>6. CASE \E w \in Workers, k \in Wakes : StartTask(w, k)
  <2>1. PICK w \in Workers, k \in Wakes : StartTask(w, k)
    BY <1>6
  <2> QED
    BY <2>1 DEF StartTask
<1>7. CASE \E w \in Workers : Claim(w)
  <2>1. PICK w \in Workers : Claim(w)
    BY <1>7
  <2>2. row' \in [Wakes -> J!Rows]
    BY <2>1, RowsClosed DEF Claim
  <2> QED
    BY <2>1, <2>2 DEF Claim
<1>8. CASE \E w \in Workers : ClaimRefused(w)
  <2>1. PICK w \in Workers : ClaimRefused(w)
    BY <1>8
  <2> QED
    BY <2>1 DEF ClaimRefused, IdleWorker
<1>9. CASE \E w \in Workers : ClaimFails(w)
  <2>1. PICK w \in Workers : ClaimFails(w)
    BY <1>9
  <2> QED
    BY <2>1 DEF ClaimFails, Outage, IdleWorker
<1>10. CASE \E w \in Workers : Finish(w)
  <2>1. PICK w \in Workers : Finish(w)
    BY <1>10
  <2>2. row' \in [Wakes -> J!Rows]
    BY <2>1, RowsClosed DEF Finish, IdleWorker, J!TerminalOutcomes
  <2> QED
    BY <2>1, <2>2 DEF Finish, IdleWorker, J!TerminalOutcomes
<1>11. CASE \E w \in Workers : LeaveRunning(w)
  <2>1. PICK w \in Workers : LeaveRunning(w)
    BY <1>11
  <2> QED
    BY <2>1 DEF LeaveRunning, IdleWorker
<1>12. CASE \E w \in Workers : RenewLease(w)
  <2>1. PICK w \in Workers : RenewLease(w)
    BY <1>12
  <2>2. row' \in [Wakes -> J!Rows]
    BY <2>1, RowsClosed DEF RenewLease
  <2> QED
    BY <2>1, <2>2 DEF RenewLease
<1>13. CASE ResetSubmissions
  <2>1. row' \in [Wakes -> J!Rows]
    BY <1>13, RowsClosed DEF ResetSubmissions, SweepAt
  <2> QED
    BY <1>13, <2>1 DEF ResetSubmissions, SweepAt
<1>14. CASE ResetFails
  BY <1>14 DEF ResetFails, Outage, SweepAt
<1>15. CASE RecoverExpired
  <2>1. row' \in [Wakes -> J!Rows]
    BY <1>15, RowsClosed DEF RecoverExpired, SweepAt
  <2> QED
    BY <1>15, <2>1 DEF RecoverExpired, SweepAt
<1>16. CASE \E k \in Wakes : ParkRecovered(k)
  <2>1. PICK k \in Wakes : ParkRecovered(k)
    BY <1>16
  <2>2. row' \in [Wakes -> J!Rows]
    BY <2>1, RowsClosed DEF ParkRecovered, SweepAt
  <2> QED
    BY <2>1, <2>2 DEF ParkRecovered, SweepAt
<1>17. CASE \E k \in Wakes : Resubmit(k)
  <2>1. PICK k \in Wakes : Resubmit(k)
    BY <1>17
  <2> QED
    BY <2>1 DEF Resubmit, SweepAt
<1>18. CASE StaleQueued
  BY <1>18 DEF StaleQueued, SweepAt
<1>19. CASE PassEnds
  BY <1>19 DEF PassEnds, SweepAt
<1>20. CASE PassAborted
  BY <1>20 DEF PassAborted, Outage, SweepAt
<1>21. CASE \E k \in Wakes : LeaseExpires(k)
  <2>1. PICK k \in Wakes : LeaseExpires(k)
    BY <1>21
  <2>2. row' \in [Wakes -> J!Rows]
    BY <2>1, RowsClosed DEF LeaseExpires
  <2> QED
    BY <2>1, <2>2 DEF LeaseExpires
<1>22. CASE Shutdown
  BY <1>22 DEF Shutdown
<1>23. CASE Restart
  <2>1. restarts' \in Nat
    BY <1>23 DEF Restart
  <2>2. pool' \in [Wakes -> Nat]
    BY <1>23 DEF Restart
  <2> QED
    BY <1>23, <2>1, <2>2 DEF Restart, IdleWorker, IdleHand
<1>24. CASE UNCHANGED vars
  BY <1>24 DEF vars
<1> HIDE DEF TypeOK, Submitters
<1>25. CASE \E s \in Submitters : SubmitterStep(s)
  BY <1>2, <1>3, <1>4, <1>5, <1>25 DEF SubmitterStep
<1>26. CASE \E w \in Workers : WorkerStep(w)
  BY <1>6, <1>7, <1>8, <1>9, <1>10, <1>11, <1>12, <1>26 DEF WorkerStep
<1>27. CASE SweepStep
  BY <1>13, <1>14, <1>15, <1>16, <1>17, <1>18, <1>19, <1>20, <1>27 DEF SweepStep
<1> QED
  BY <1>1, <1>1b, <1>21, <1>22, <1>23, <1>24, <1>25, <1>26, <1>27 DEF Next, HandlerStep

\* TypeOK holds in every reachable state.
THEOREM TypeCorrect == Spec => []TypeOK
  BY TypeInit, TypeStep, PTL DEF Spec

-----------------------------------------------------------------------------
\* What the end of a claimed run can do to its row: the claimant gives it back
\* without a lease, and unstamped if it is queued again; or it parks the
\* re-armed row that still carries its token; or it finds it lost the row.
LEMMA FinishOutcome ==
    ASSUME TypeOK, NEW w \in Workers, Finish(w)
    PROVE  LET k == worker[w].wake IN
           /\ k \in Wakes
           /\ \/ /\ J!HeldBy(row[k], w)
                 /\ \E r \in J!Rows : /\ row' = [row EXCEPT ![k] = r]
                                      /\ r.state \in {"queued", "done"} /\ r.lease = "none"
                                      /\ r.state = "queued" => ~r.submitted
              \/ /\ row[k].state = "queued"
                 /\ row' = [row EXCEPT ![k] = J!Parked(row[k])]
              \/ row' = row
<1> DEFINE k == worker[w].wake
           r == row[k]
<1> USE DEF TypeOK
<1>1. k \in Wakes /\ r \in J!Rows
  BY DEF Finish
<1> HIDE DEF k, r
<1>2. ASSUME NEW o \in J!TerminalOutcomes
      PROVE  J!Resolved(r, o).state = "done" /\ J!Resolved(r, o).lease = "none"
  BY <1>1 DEF J!Resolved, J!Rows
<1>3. J!Parked(r).state = "done" /\ J!Parked(r).lease = "none"
  BY <1>1 DEF J!Parked, J!Rows
<1>4. /\ J!Retried(r).state \in {"queued", "done"} /\ J!Retried(r).lease = "none"
      /\ ~J!Retried(r).submitted
  BY <1>1 DEF J!Retried, J!Rows
<1>5. CASE J!HeldBy(r, w) /\ \E o \in {"done", "no_change", "no_installation"} :
                               row' = [row EXCEPT ![k] = J!Resolved(r, o)]
  BY ZenonT(60), <1>1, <1>2, <1>5, RowsClosed DEF J!TerminalOutcomes, k, r
<1>6. CASE J!HeldBy(r, w) /\ row' = [row EXCEPT ![k] = J!Retried(r)]
  BY <1>1, <1>4, <1>6, RowsClosed DEF k, r
<1>7. CASE J!ParkableBy(r, w) /\ row' = [row EXCEPT ![k] = J!Parked(r)]
  <2>1. CASE r.state = "running"
    BY <1>1, <1>3, <1>7, <2>1, RowsClosed DEF J!ParkableBy, J!HeldBy, k, r
  <2>2. CASE r.state = "queued"
    BY <1>1, <1>7, <2>2 DEF k, r
  <2> QED
    BY <1>7, <2>1, <2>2 DEF J!ParkableBy
<1>8. CASE row' = row
  BY <1>1, <1>8 DEF k
<1> QED
  BY <1>5, <1>6, <1>7, <1>8 DEF Finish, k, r

-----------------------------------------------------------------------------
(* Stranded wakes.                                                         *)

\* Outside its late stamp, its failed claim, its raising create_wake and the
\* failed reset, a wake that is an orphan after a step was one before it.
LEMMA OrphanStep ==
    ASSUME TypeOK, [Next]_vars, NEW j \in Wakes, Orphan(j)',
           ~(\E s \in Submitters : hand[s].wake = j /\ MarkSubmitted(s)),
           ~(\E w \in Workers : worker[w].wake = j /\ ClaimFails(w)),
           ~(\E h \in Handlers : OnVerdictRaises(h, j)),
           ~ResetFails
    PROVE  Orphan(j)
<1> USE DEF TypeOK, Orphan
<1>1. ASSUME NEW h \in Handlers, NEW k \in Wakes, OnVerdict(h, k)
      PROVE  Orphan(j)
  <2>1. CASE J!Creatable(row[k])
    <3>1. hand' = [hand EXCEPT ![h] = [pc |-> "submit", wake |-> k]]
      BY <1>1, <2>1 DEF OnVerdict
    <3>2. k # j
      BY <3>1 DEF Submitters
    <3>3. row'[j] = row[j]
      BY <1>1, <2>1, <3>2 DEF OnVerdict
    <3> QED
      BY <1>1, <3>1, <3>3 DEF OnVerdict
  <2>2. CASE ~J!Creatable(row[k])
    BY <1>1, <2>2 DEF OnVerdict
  <2> QED
    BY <2>1, <2>2
<1>1b. ASSUME NEW h \in Handlers, NEW k \in Wakes, OnVerdictRaises(h, k)
       PROVE  Orphan(j)
  <2>1. k # j
    BY <1>1b
  <2>2. row'[j] = row[j]
    BY <1>1b, <2>1 DEF OnVerdictRaises
  <2> QED
    BY <1>1b, <2>2 DEF OnVerdictRaises
<1>2. ASSUME NEW s \in Submitters, Submit(s)
      PROVE  Orphan(j)
  BY <1>2 DEF Submit
<1>3. ASSUME NEW s \in Submitters, SubmitRejected(s)
      PROVE  Orphan(j)
  BY <1>3 DEF SubmitRejected, Outage, IdleHand
<1>4. ASSUME NEW s \in Submitters, MarkSubmittedFails(s)
      PROVE  Orphan(j)
  BY <1>4 DEF MarkSubmittedFails, Outage, IdleHand
<1>4b. ASSUME NEW s \in Submitters, MarkSubmitted(s)
       PROVE  Orphan(j)
  <2>1. hand[s].wake # j
    BY <1>4b
  <2>2. row'[j] = row[j]
    BY <1>4b, <2>1 DEF MarkSubmitted
  <2>3. hand[s].pc = "stamp" /\ \A r \in Submitters \ {s} : hand'[r] = hand[r]
    BY <1>4b DEF MarkSubmitted
  <2>4. /\ pool' = pool /\ worker' = worker
        /\ sweep' = sweep /\ closing' = closing
    BY <1>4b DEF MarkSubmitted
  <2> QED
    BY <2>2, <2>3, <2>4
<1>5. ASSUME NEW w \in Workers, NEW k \in Wakes, StartTask(w, k)
      PROVE  Orphan(j)
  BY <1>5 DEF StartTask
<1>6. ASSUME NEW w \in Workers, Claim(w)
      PROVE  Orphan(j)
  BY <1>6 DEF Claim, J!Claimable, J!Claimed, J!Rows
<1>7. ASSUME NEW w \in Workers, ClaimRefused(w)
      PROVE  Orphan(j)
  BY <1>7 DEF ClaimRefused, IdleWorker, J!Claimable, J!Claimed, J!Rows
<1>7b. ASSUME NEW w \in Workers, ClaimFails(w)
       PROVE  Orphan(j)
  <2>1. worker[w].wake # j
    BY <1>7b
  <2> QED
    BY <1>7b, <2>1 DEF ClaimFails, IdleWorker, Outage
<1>8. ASSUME NEW w \in Workers, Finish(w)
      PROVE  Orphan(j)
  <2> DEFINE k == worker[w].wake
  <2>1. CASE k # j
    BY <1>8, <2>1, FinishOutcome DEF Finish, IdleWorker
  <2>2. CASE k = j
    <3>1. row'[j].state = "queued" /\ row'[j].submitted
      OBVIOUS
    <3>2. ASSUME row' = [row EXCEPT ![k] = J!Parked(row[k])]
          PROVE  FALSE
      BY <2>2, <3>1, <3>2 DEF J!Parked, J!Rows
    <3>3. row' = row
      BY <1>8, <2>2, <3>1, <3>2, FinishOutcome
    <3> QED
      BY <1>8, <3>3 DEF Finish, IdleWorker
  <2> QED
    BY <2>1, <2>2
<1>9. ASSUME NEW w \in Workers, LeaveRunning(w)
      PROVE  Orphan(j)
  BY <1>9 DEF LeaveRunning, IdleWorker
<1>10. ASSUME NEW w \in Workers, RenewLease(w)
      PROVE  Orphan(j)
  BY <1>10 DEF RenewLease, J!Renewed, J!HeldBy, J!Rows
<1>11. CASE ResetSubmissions
  BY <1>11 DEF ResetSubmissions, SweepAt, J!Stamped, J!Rows
<1>12. CASE RecoverExpired
  <2>1. row'[j] = IF J!Recoverable(row[j]) THEN J!Recovered(row[j]) ELSE row[j]
    BY <1>12 DEF RecoverExpired
  <2>2. ~J!Recovered(row[j]).submitted
    BY DEF J!Recovered, J!Rows
  <2>3. row'[j] = row[j]
    BY <2>1, <2>2
  <2> QED
    BY <1>12, <2>3 DEF RecoverExpired, SweepAt
<1>13. ASSUME NEW k \in Wakes, ParkRecovered(k)
      PROVE  Orphan(j)
  BY <1>13 DEF ParkRecovered, SweepAt, J!Parked, J!Rows
<1>14. ASSUME NEW k \in Wakes, Resubmit(k)
      PROVE  Orphan(j)
  BY <1>14 DEF Resubmit, SweepAt
<1>15. CASE StaleQueued
  BY <1>15 DEF StaleQueued, SweepAt
<1>16. CASE PassEnds
  BY <1>16 DEF PassEnds, SweepAt
<1>17. CASE PassAborted
  BY <1>17 DEF PassAborted, SweepAt, Outage
<1>18. ASSUME NEW k \in Wakes, LeaseExpires(k)
      PROVE  Orphan(j)
  BY <1>18 DEF LeaseExpires, J!Lapsed, J!Rows
<1>19. CASE Shutdown
  BY <1>19 DEF Shutdown
<1>20. CASE Restart
  BY <1>20 DEF Restart, IdleWorker, IdleHand
<1>21. CASE UNCHANGED vars
  BY <1>21 DEF vars
<1> HIDE DEF TypeOK, Orphan
<1>22. CASE \E s \in Submitters : SubmitterStep(s)
  BY <1>2, <1>3, <1>4, <1>4b, <1>22 DEF SubmitterStep
<1>23. CASE \E w \in Workers : WorkerStep(w)
  BY <1>5, <1>6, <1>7, <1>7b, <1>8, <1>9, <1>10, <1>23 DEF WorkerStep
<1>24. CASE SweepStep
  BY <1>11, <1>12, <1>13, <1>14, <1>15, <1>16, <1>17, <1>24 DEF SweepStep
<1> QED
  BY <1>1, <1>1b, <1>18, <1>19, <1>20, <1>21, <1>22, <1>23, <1>24 DEF Next, HandlerStep

\* A wake becomes unreachable for this process only by a stamp that lands after
\* its task ran, by its claim raising, by its create_wake raising after it
\* committed, or by a failed start-up reset.
THEOREM StrandedInFourWays == Spec => StrandedOnlyBy
<1>1. TypeOK /\ [Next]_vars =>
        [\A k \in Wakes : (~Orphan(k) /\ Orphan(k)') =>
            \/ \E s \in Submitters : hand[s].wake = k /\ MarkSubmitted(s)
            \/ \E w \in Workers : worker[w].wake = k /\ ClaimFails(w)
            \/ \E h \in Handlers : OnVerdictRaises(h, k)
            \/ ResetFails]_vars
  BY OrphanStep
<1> QED
  BY <1>1, TypeCorrect, PTL DEF Spec, StrandedOnlyBy

-----------------------------------------------------------------------------
(* Leases and exclusive runs.                                              *)

\* What each statement leaves in the state, lease and token columns.
LEMMA RowEffects ==
    ASSUME NEW r \in J!Rows, NEW w \in Workers
    PROVE  /\ \A b \in BOOLEAN : /\ J!Created(r, b).state = "queued"
                                 /\ J!Created(r, b).lease = "none"
                                 /\ J!Stamped(r, b).state = r.state
                                 /\ J!Stamped(r, b).lease = r.lease
                                 /\ J!Stamped(r, b).token = r.token
           /\ J!Claimed(r, w).state = "running"
           /\ J!Claimed(r, w).lease = "live"
           /\ J!Claimed(r, w).token = w
           /\ J!Parked(r).state = "done" /\ J!Parked(r).lease = "none"
           /\ J!Renewed(r).state = r.state /\ J!Renewed(r).lease = "live"
           /\ J!Renewed(r).token = r.token
           /\ J!Recovered(r).state = "queued" /\ J!Recovered(r).lease = "none"
           /\ J!Lapsed(r).state = r.state /\ J!Lapsed(r).lease = "expired"
           /\ J!Lapsed(r).token = r.token
<1> USE DEF J!Rows
<1>1. \A b \in BOOLEAN : /\ J!Created(r, b).state = "queued"
                         /\ J!Created(r, b).lease = "none"
  BY DEF J!Created
<1>2. \A b \in BOOLEAN : /\ J!Stamped(r, b).state = r.state
                         /\ J!Stamped(r, b).lease = r.lease
                         /\ J!Stamped(r, b).token = r.token
  BY DEF J!Stamped
<1>3. /\ J!Claimed(r, w).state = "running"
      /\ J!Claimed(r, w).lease = "live"
      /\ J!Claimed(r, w).token = w
  BY DEF J!Claimed
<1>4. /\ J!Parked(r).state = "done" /\ J!Parked(r).lease = "none"
      /\ J!Recovered(r).state = "queued" /\ J!Recovered(r).lease = "none"
  BY DEF J!Parked, J!Recovered
<1>5. /\ J!Renewed(r).state = r.state /\ J!Renewed(r).lease = "live"
      /\ J!Renewed(r).token = r.token
      /\ J!Lapsed(r).state = r.state /\ J!Lapsed(r).lease = "expired"
      /\ J!Lapsed(r).token = r.token
  BY DEF J!Renewed, J!Lapsed
<1> QED
  BY <1>1, <1>2, <1>3, <1>4, <1>5

\* The statements that can hit one row, each with the WHERE clause it needs.
RowMove(r, q) ==
    \/ q = r
    \/ \E b \in BOOLEAN : q = J!Stamped(r, b)
    \/ J!Creatable(r) /\ q = J!Created(r, TRUE)
    \/ J!Claimable(r) /\ \E w \in Workers : q = J!Claimed(r, w)
    \/ r.state \in {"queued", "running"} /\ q.state \in {"queued", "done"} /\ q.lease = "none"
    \/ \E w \in Workers : J!HeldBy(r, w) /\ q = J!Renewed(r)
    \/ r.state = "running" /\ q = J!Lapsed(r)

\* Every step moves every row by at most one of those statements.
LEMMA RowStep ==
    ASSUME TypeOK, [Next]_vars, NEW j \in Wakes
    PROVE  RowMove(row[j], row'[j])
<1> USE DEF TypeOK
<1>u. ASSUME row'[j] = row[j] PROVE RowMove(row[j], row'[j])
  BY <1>u DEF RowMove
<1>1. ASSUME NEW h \in Handlers, NEW k \in Wakes, OnVerdict(h, k) PROVE RowMove(row[j], row'[j])
  BY <1>1, <1>u DEF OnVerdict, RowMove
<1>1b. ASSUME NEW h \in Handlers, NEW k \in Wakes, OnVerdictRaises(h, k) PROVE RowMove(row[j], row'[j])
  BY <1>1b, <1>u DEF OnVerdictRaises, RowMove
<1>2. ASSUME NEW s \in Submitters, Submit(s) PROVE RowMove(row[j], row'[j])
  BY <1>2, <1>u DEF Submit
<1>3. ASSUME NEW s \in Submitters, SubmitRejected(s) PROVE RowMove(row[j], row'[j])
  BY <1>3, <1>u DEF SubmitRejected, Outage, IdleHand, RowMove
<1>4. ASSUME NEW s \in Submitters, MarkSubmitted(s) PROVE RowMove(row[j], row'[j])
  BY <1>4, <1>u DEF MarkSubmitted, IdleHand, RowMove
<1>5. ASSUME NEW s \in Submitters, MarkSubmittedFails(s) PROVE RowMove(row[j], row'[j])
  BY <1>5, <1>u DEF MarkSubmittedFails, Outage, IdleHand
<1>6. ASSUME NEW w \in Workers, NEW k \in Wakes, StartTask(w, k) PROVE RowMove(row[j], row'[j])
  BY <1>6, <1>u DEF StartTask
<1>7. ASSUME NEW w \in Workers, Claim(w) PROVE RowMove(row[j], row'[j])
  BY <1>7, <1>u DEF Claim, RowMove
<1>8. ASSUME NEW w \in Workers, ClaimRefused(w) PROVE RowMove(row[j], row'[j])
  BY <1>8, <1>u DEF ClaimRefused, IdleWorker
<1>9. ASSUME NEW w \in Workers, ClaimFails(w) PROVE RowMove(row[j], row'[j])
  BY <1>9, <1>u DEF ClaimFails, Outage, IdleWorker
<1>10. ASSUME NEW w \in Workers, Finish(w) PROVE RowMove(row[j], row'[j])
  <2> DEFINE k == worker[w].wake
  <2>1. J!Parked(row[j]).state = "done" /\ J!Parked(row[j]).lease = "none"
    BY DEF J!Parked, J!Rows
  <2>2. CASE k # j
    BY <1>10, <1>u, <2>2, FinishOutcome
  <2>3. CASE k = j
    <3>1. CASE J!HeldBy(row[j], w) /\ \E r \in J!Rows : /\ row' = [row EXCEPT ![j] = r]
                                                       /\ r.state \in {"queued", "done"}
                                                       /\ r.lease = "none"
      BY <3>1 DEF RowMove, J!HeldBy
    <3>2. CASE row[j].state = "queued" /\ row' = [row EXCEPT ![j] = J!Parked(row[j])]
      BY <2>1, <3>2 DEF RowMove
    <3> QED
      BY <1>10, <1>u, <2>3, <3>1, <3>2, FinishOutcome
  <2> QED
    BY <2>2, <2>3
<1>11. ASSUME NEW w \in Workers, LeaveRunning(w) PROVE RowMove(row[j], row'[j])
  BY <1>11, <1>u DEF LeaveRunning, IdleWorker
<1>12. ASSUME NEW w \in Workers, RenewLease(w) PROVE RowMove(row[j], row'[j])
  BY <1>12, <1>u DEF RenewLease, RowMove
<1>13. CASE ResetSubmissions
  BY <1>13, <1>u DEF ResetSubmissions, SweepAt, RowMove
<1>14. CASE ResetFails
  BY <1>14, <1>u DEF ResetFails, SweepAt, Outage
<1>15. CASE RecoverExpired
  <2>1. row'[j] = IF J!Recoverable(row[j]) THEN J!Recovered(row[j]) ELSE row[j]
    BY <1>15 DEF RecoverExpired
  <2>2. J!Recovered(row[j]).state = "queued" /\ J!Recovered(row[j]).lease = "none"
    BY DEF J!Recovered, J!Rows
  <2> QED
    BY <1>u, <2>1, <2>2 DEF RowMove, J!Recoverable
<1>16. ASSUME NEW k \in Wakes, ParkRecovered(k) PROVE RowMove(row[j], row'[j])
  <2>1. row'[j] = row[j] \/ (J!ParkableBare(row[j]) /\ row'[j] = J!Parked(row[j]))
    BY <1>16 DEF ParkRecovered
  <2>2. J!Parked(row[j]).state = "done" /\ J!Parked(row[j]).lease = "none"
    BY DEF J!Parked, J!Rows
  <2> QED
    BY <1>u, <2>1, <2>2 DEF RowMove, J!ParkableBare
<1>17. ASSUME NEW k \in Wakes, Resubmit(k) PROVE RowMove(row[j], row'[j])
  BY <1>17, <1>u DEF Resubmit, SweepAt
<1>18. CASE StaleQueued
  BY <1>18, <1>u DEF StaleQueued, SweepAt
<1>19. CASE PassEnds
  BY <1>19, <1>u DEF PassEnds, SweepAt
<1>20. CASE PassAborted
  BY <1>20, <1>u DEF PassAborted, SweepAt, Outage
<1>21. ASSUME NEW k \in Wakes, LeaseExpires(k) PROVE RowMove(row[j], row'[j])
  BY <1>21, <1>u DEF LeaseExpires, RowMove
<1>22. CASE Shutdown
  BY <1>22, <1>u DEF Shutdown
<1>23. CASE Restart
  BY <1>23, <1>u DEF Restart, IdleWorker, IdleHand
<1>24. CASE UNCHANGED vars
  BY <1>24, <1>u DEF vars
<1> HIDE DEF TypeOK
<1>25. CASE \E s \in Submitters : SubmitterStep(s)
  BY <1>2, <1>3, <1>4, <1>5, <1>25 DEF SubmitterStep
<1>26. CASE \E w \in Workers : WorkerStep(w)
  BY <1>6, <1>7, <1>8, <1>9, <1>10, <1>11, <1>12, <1>26 DEF WorkerStep
<1>27. CASE SweepStep
  BY <1>13, <1>14, <1>15, <1>16, <1>17, <1>18, <1>19, <1>20, <1>27 DEF SweepStep
<1> QED
  BY <1>1, <1>1b, <1>21, <1>22, <1>23, <1>24, <1>25, <1>26, <1>27 DEF Next, HandlerStep

Leased(r) == /\ r.state = "running" <=> r.lease # "none"
             /\ r.state = "running" => r.token \in Workers

\* Every claim sets lease and token together, every way out clears the lease.
LEMMA LeasedMove ==
    ASSUME NEW r \in J!Rows, NEW q, RowMove(r, q), Leased(r)
    PROVE  Leased(q)
<1> USE DEF Leased
<1>1. CASE \E b \in BOOLEAN : q = J!Stamped(r, b)
  BY <1>1 DEF J!Stamped, J!Rows
<1>2. CASE q = J!Created(r, TRUE)
  BY <1>2 DEF J!Created, J!Rows
<1>3. CASE \E w \in Workers : q = J!Claimed(r, w)
  BY <1>3 DEF J!Claimed, J!Rows
<1>4. CASE \E w \in Workers : J!HeldBy(r, w) /\ q = J!Renewed(r)
  BY <1>4 DEF J!Renewed, J!HeldBy, J!Rows
<1>5. CASE r.state = "running" /\ q = J!Lapsed(r)
  BY <1>5 DEF J!Lapsed, J!Rows
<1>6. CASE q = r \/ (q.state \in {"queued", "done"} /\ q.lease = "none")
  BY <1>6
<1> HIDE DEF Leased
<1> QED
  BY <1>1, <1>2, <1>3, <1>4, <1>5, <1>6 DEF RowMove

LeaseInv == TypeOK /\ LeasedWhileRunning

\* Every step keeps types and the lease columns together.
LEMMA LeaseStep == LeaseInv /\ [Next]_vars => LeaseInv'
<1> SUFFICES ASSUME LeaseInv, [Next]_vars PROVE LeaseInv'
  OBVIOUS
<1>1. ASSUME NEW k \in Wakes PROVE Leased(row'[k])
  <2>1. row[k] \in J!Rows /\ Leased(row[k])
    BY DEF LeaseInv, LeasedWhileRunning, TypeOK, Leased
  <2>2. RowMove(row[k], row'[k])
    BY RowStep DEF LeaseInv
  <2> QED
    BY <2>1, <2>2, LeasedMove
<1> QED
  BY <1>1, TypeStep DEF LeaseInv, LeasedWhileRunning, Leased

\* A row carries a lease and a claimant exactly while it is running.
THEOREM LeaseColumns == Spec => []LeasedWhileRunning
<1>1. Init => LeaseInv
  BY TypeInit DEF Init, LeaseInv, LeasedWhileRunning, J!Absent
<1> QED
  BY <1>1, LeaseStep, PTL DEF Spec, LeaseInv

\* As long as no lease lapsed under a live claimant, every claimed run still
\* holds its row: its token is on it and its lease is live.
Holds(w, k) == J!HeldBy(row[k], w) /\ row[k].lease = "live"

HoldInv == lapses = 0 => \A w \in Workers, k \in Wakes : Working(w, k) => Holds(w, k)

\* A lapse under a live claimant is counted, and is all that its step does.
LEMMA LapseStep ==
    ASSUME [Next]_vars
    PROVE  \/ lapses' = lapses
           \/ /\ lapses' = lapses + 1 /\ worker' = worker
              /\ \E k \in Wakes : row' = [row EXCEPT ![k] = J!Lapsed(@)]
<1>1. ASSUME NEW k \in Wakes, LeaseExpires(k)
      PROVE  \/ lapses' = lapses
             \/ /\ lapses' = lapses + 1 /\ worker' = worker
                /\ row' = [row EXCEPT ![k] = J!Lapsed(@)]
  BY <1>1 DEF LeaseExpires
<1>2. UNCHANGED lapses \/ \E k \in Wakes : LeaseExpires(k)
  BY DEF Next, HandlerStep, SubmitterStep, WorkerStep, SweepStep, vars, OnVerdict, OnVerdictRaises, Submit,
     SubmitRejected, MarkSubmitted, MarkSubmittedFails, StartTask, Claim, ClaimRefused,
     ClaimFails, Finish, LeaveRunning, RenewLease, ResetSubmissions, ResetFails,
     RecoverExpired, ParkRecovered, Resubmit, StaleQueued, PassEnds, PassAborted,
     Shutdown, Restart
<1> QED
  BY <1>1, <1>2

\* A step that lets no live claimant's lease lapse takes a row from no run
\* that holds it, and a run that claims holds its row.
LEMMA HoldStep ==
    ASSUME LeaseInv, [Next]_vars, lapses' = lapses,
           NEW v \in Workers, NEW j \in Wakes, Working(v, j)',
           Working(v, j) => Holds(v, j)
    PROVE  Holds(v, j)'
<1> USE DEF TypeOK, LeaseInv
<1>h. ASSUME Working(v, j)
      PROVE  /\ row[j] \in J!Rows
             /\ row[j].state = "running" /\ row[j].token = v /\ row[j].lease = "live"
  BY <1>h DEF Holds, J!HeldBy
<1>u. ASSUME Working(v, j),
             row'[j] = row[j] \/ \E b \in BOOLEAN : row'[j] = J!Stamped(row[j], b)
      PROVE  Holds(v, j)'
  BY <1>h, <1>u, RowEffects DEF Holds, J!HeldBy
<1>1. ASSUME NEW h \in Handlers, NEW k \in Wakes, OnVerdict(h, k) PROVE Holds(v, j)'
  <2>1. Working(v, j)
    BY <1>1 DEF OnVerdict, Working
  <2>2. ~J!Creatable(row[j])
    BY <1>h, <2>1 DEF J!Creatable
  <2>3. row'[j] = row[j]
    BY <1>1, <2>2 DEF OnVerdict
  <2> QED
    BY <1>u, <2>1, <2>3
<1>1b. ASSUME NEW h \in Handlers, NEW k \in Wakes, OnVerdictRaises(h, k) PROVE Holds(v, j)'
  <2>1. Working(v, j)
    BY <1>1b DEF OnVerdictRaises, Working
  <2>2. ~J!Creatable(row[j])
    BY <1>h, <2>1 DEF J!Creatable
  <2>3. row'[j] = row[j]
    BY <1>1b, <2>2 DEF OnVerdictRaises
  <2> QED
    BY <1>u, <2>1, <2>3
<1>2. ASSUME NEW s \in Submitters, Submit(s) PROVE Holds(v, j)'
  BY <1>2, <1>u DEF Submit, Working
<1>3. ASSUME NEW s \in Submitters, SubmitRejected(s) PROVE Holds(v, j)'
  BY <1>3, <1>u DEF SubmitRejected, Outage, IdleHand, Working
<1>4. ASSUME NEW s \in Submitters, MarkSubmitted(s) PROVE Holds(v, j)'
  BY <1>4, <1>u DEF MarkSubmitted, IdleHand, Working
<1>5. ASSUME NEW s \in Submitters, MarkSubmittedFails(s) PROVE Holds(v, j)'
  BY <1>5, <1>u DEF MarkSubmittedFails, Outage, IdleHand, Working
<1>6. ASSUME NEW w \in Workers, NEW k \in Wakes, StartTask(w, k) PROVE Holds(v, j)'
  BY <1>6, <1>u DEF StartTask, Working
<1>7. ASSUME NEW w \in Workers, Claim(w) PROVE Holds(v, j)'
  <2>1. J!Claimable(row[worker[w].wake])
    BY <1>7 DEF Claim
  <2>2. CASE w = v
    <3>1. worker[v].wake = j /\ row' = [row EXCEPT ![j] = J!Claimed(row[j], v)]
      BY <1>7, <2>2 DEF Claim, Working
    <3> QED
      BY <3>1, RowEffects DEF Holds, J!HeldBy
  <2>3. CASE w # v
    <3>1. Working(v, j)
      BY <1>7, <2>3 DEF Claim, Working
    <3>2. worker[w].wake # j
      BY <1>h, <2>1, <3>1 DEF J!Claimable
    <3> QED
      BY <1>7, <1>u, <2>1, <3>1, <3>2 DEF Claim
  <2> QED
    BY <2>2, <2>3
<1>8. ASSUME NEW w \in Workers, ClaimRefused(w) PROVE Holds(v, j)'
  BY <1>8, <1>u DEF ClaimRefused, IdleWorker, Working
<1>9. ASSUME NEW w \in Workers, ClaimFails(w) PROVE Holds(v, j)'
  BY <1>9, <1>u DEF ClaimFails, Outage, IdleWorker, Working
<1>10. ASSUME NEW w \in Workers, Finish(w) PROVE Holds(v, j)'
  <2>1. w # v /\ Working(v, j)
    BY <1>10 DEF Finish, IdleWorker, Working
  <2>2. row'[j] = row[j]
    BY <1>10, <1>h, <2>1, FinishOutcome DEF J!HeldBy
  <2> QED
    BY <1>u, <2>1, <2>2
<1>11. ASSUME NEW w \in Workers, LeaveRunning(w) PROVE Holds(v, j)'
  BY <1>11, <1>u DEF LeaveRunning, IdleWorker, Working
<1>12. ASSUME NEW w \in Workers, RenewLease(w) PROVE Holds(v, j)'
  <2>1. Working(v, j)
    BY <1>12 DEF RenewLease, Working
  <2>2. row'[j] = row[j]
    BY <1>12, <1>h, <2>1 DEF RenewLease
  <2> QED
    BY <1>u, <2>1, <2>2
<1>13. CASE ResetSubmissions
  BY <1>13, <1>u DEF ResetSubmissions, SweepAt, Working
<1>14. CASE ResetFails
  BY <1>14, <1>u DEF ResetFails, SweepAt, Outage, Working
<1>15. CASE RecoverExpired
  <2>1. Working(v, j)
    BY <1>15 DEF RecoverExpired, Working
  <2>2. ~J!Recoverable(row[j])
    BY <1>h, <2>1 DEF J!Recoverable
  <2>3. row'[j] = row[j]
    BY <1>15, <2>2 DEF RecoverExpired
  <2> QED
    BY <1>u, <2>1, <2>3
<1>16. ASSUME NEW k \in Wakes, ParkRecovered(k) PROVE Holds(v, j)'
  <2>1. Working(v, j)
    BY <1>16 DEF ParkRecovered, Working
  <2>2. ~J!ParkableBare(row[j])
    BY <1>h, <2>1 DEF J!ParkableBare
  <2>3. row'[j] = row[j]
    BY <1>16, <2>2 DEF ParkRecovered
  <2> QED
    BY <1>u, <2>1, <2>3
<1>17. ASSUME NEW k \in Wakes, Resubmit(k) PROVE Holds(v, j)'
  BY <1>17, <1>u DEF Resubmit, SweepAt, Working
<1>18. CASE StaleQueued
  BY <1>18, <1>u DEF StaleQueued, SweepAt, Working
<1>19. CASE PassEnds
  BY <1>19, <1>u DEF PassEnds, SweepAt, Working
<1>20. CASE PassAborted
  BY <1>20, <1>u DEF PassAborted, SweepAt, Outage, Working
<1>21. ASSUME NEW k \in Wakes, LeaseExpires(k) PROVE Holds(v, j)'
  <2>1. Working(v, j)
    BY <1>21 DEF LeaseExpires, Working
  <2>2. ~Renewing(k)
    <3>1. CASE Renewing(k) /\ lapses' = lapses + 1
      BY <3>1
    <3> QED
      BY <1>21, <3>1, Zenon DEF LeaseExpires
  <2>3. k # j
    BY <1>h, <2>1, <2>2 DEF Renewing, Working
  <2> QED
    BY <1>21, <1>u, <2>1, <2>2, <2>3 DEF LeaseExpires
<1>22. CASE Shutdown
  BY <1>22, <1>u DEF Shutdown, Working
<1>23. CASE Restart
  BY <1>23, <1>u DEF Restart, IdleWorker, IdleHand, Working
<1>24. CASE UNCHANGED vars
  BY <1>24, <1>u DEF vars, Working
<1> HIDE DEF TypeOK, LeaseInv
<1>25. CASE \E s \in Submitters : SubmitterStep(s)
  BY <1>2, <1>3, <1>4, <1>5, <1>25 DEF SubmitterStep
<1>26. CASE \E w \in Workers : WorkerStep(w)
  BY <1>6, <1>7, <1>8, <1>9, <1>10, <1>11, <1>12, <1>26 DEF WorkerStep
<1>27. CASE SweepStep
  BY <1>13, <1>14, <1>15, <1>16, <1>17, <1>18, <1>19, <1>20, <1>27 DEF SweepStep
<1> QED
  BY <1>1, <1>1b, <1>21, <1>22, <1>23, <1>24, <1>25, <1>26, <1>27 DEF Next, HandlerStep

\* Two pool threads triage one verdict at the same time only after a lease
\* lapsed under its live claimant.
THEOREM ExclusiveTriage == Spec => []ExclusiveUnlessLapsed
<1>1. Init => HoldInv
  BY DEF Init, HoldInv, Working, IdleWorker
<1>2. LeaseInv /\ HoldInv /\ [Next]_vars => HoldInv'
  <2> SUFFICES ASSUME LeaseInv, HoldInv, [Next]_vars, lapses' = 0 PROVE HoldInv'
    BY DEF HoldInv
  <2>1. lapses' = lapses /\ lapses = 0
    BY LapseStep DEF LeaseInv, TypeOK
  <2> QED
    BY <2>1, HoldStep DEF HoldInv
<1>3. LeaseInv /\ HoldInv => ExclusiveUnlessLapsed
  BY DEF HoldInv, Holds, ExclusiveUnlessLapsed, J!HeldBy
<1>4. Init => LeaseInv
  BY TypeInit DEF Init, LeaseInv, LeasedWhileRunning, J!Absent
<1> QED
  BY <1>1, <1>2, <1>3, <1>4, LeaseStep, PTL DEF Spec

-----------------------------------------------------------------------------
(* Counting the runs that lost their row.                                  *)

\* The claimed runs of k whose row is no longer theirs: a lease lapsed under
\* each of them, so there are never more of them than lapses.
Strays(k) == {w \in Workers : Working(w, k) /\ ~Holds(w, k)}

StrayInv == \A k \in Wakes : Cardinality(Strays(k)) <= lapses

\* A set of pool threads that gains at most one member grows by one at most.
LEMMA OneMore ==
    ASSUME NEW S \in SUBSET Workers, NEW T \in SUBSET Workers, NEW x, T \subseteq S \cup {x}
    PROVE  /\ Cardinality(S) \in Nat /\ Cardinality(T) \in Nat
           /\ Cardinality(T) <= Cardinality(S) + 1
           /\ T \subseteq S => Cardinality(T) <= Cardinality(S)
<1>1. IsFiniteSet(S) /\ IsFiniteSet(T)
  BY WorkersAssumption, FS_Subset
<1>2. Cardinality(S) \in Nat /\ Cardinality(T) \in Nat
  BY <1>1, FS_CardinalityType
<1>3. /\ IsFiniteSet(S \cup {x})
      /\ Cardinality(S \cup {x}) = IF x \in S THEN Cardinality(S) ELSE Cardinality(S) + 1
  BY <1>1, FS_AddElement
<1>4. Cardinality(T) <= Cardinality(S \cup {x})
  BY <1>3, FS_Subset
<1>5. T \subseteq S => Cardinality(T) <= Cardinality(S)
  BY <1>1, FS_Subset
<1> QED
  BY <1>2, <1>3, <1>4, <1>5

\* A lapse makes one stray at most, the run whose token the row carries, and
\* no other step makes any.
LEMMA StrayStep == LeaseInv /\ StrayInv /\ [Next]_vars => StrayInv'
<1> SUFFICES ASSUME LeaseInv, StrayInv, [Next]_vars, NEW k \in Wakes
             PROVE  Cardinality(Strays(k)') <= lapses'
  BY DEF StrayInv, Strays
<1>1. Cardinality(Strays(k)) <= lapses /\ lapses \in Nat
  BY DEF StrayInv, LeaseInv, TypeOK
<1>2. Strays(k) \in SUBSET Workers /\ Strays(k)' \in SUBSET Workers
  BY DEF Strays
<1>3. CASE lapses' = lapses
  <2>1. Strays(k)' \subseteq Strays(k)
    BY <1>3, HoldStep DEF Strays
  <2> QED
    BY <1>1, <1>2, <1>3, <2>1, OneMore
<1>4. CASE lapses' # lapses
  <2>1. /\ lapses' = lapses + 1 /\ worker' = worker
        /\ \E j \in Wakes : row' = [row EXCEPT ![j] = J!Lapsed(@)]
    BY <1>4, LapseStep
  <2>2. PICK j \in Wakes : row' = [row EXCEPT ![j] = J!Lapsed(@)]
    BY <2>1
  <2>3. Strays(k)' \subseteq Strays(k) \cup {row[k].token}
    <3> SUFFICES ASSUME NEW w \in Workers, w \in Strays(k)', w \notin Strays(k)
                 PROVE  w = row[k].token
      BY <1>2
    <3>1. Holds(w, k)
      BY <2>1 DEF Strays, Working
    <3> QED
      BY <3>1 DEF Holds, J!HeldBy
  <2>4. /\ Cardinality(Strays(k)) \in Nat /\ Cardinality(Strays(k)') \in Nat
        /\ Cardinality(Strays(k)') <= Cardinality(Strays(k)) + 1
    BY <1>2, <2>3, OneMore
  <2> QED
    BY <1>1, <2>1, <2>4
<1> QED
  BY <1>3, <1>4

\* Every lapse buys at most one more concurrent run of a verdict: a run that
\* lost its row is not counted against later claims, and one lapse cannot let
\* two more threads in, whatever duplicate tasks wait in the pool.
RunsBoundedByLapses ==
    \A k \in Wakes : Cardinality({w \in Workers : Working(w, k)}) <= 1 + lapses

\* Every lapse buys at most one more concurrent run of a verdict, whatever the
\* number of threads, hand-offs, recoveries and restarts: of the runs of a wake
\* at most one holds the row, and each of the others is a stray.
THEOREM RunsBounded == Spec => []RunsBoundedByLapses
<1>1. Init => LeaseInv
  BY TypeInit DEF Init, LeaseInv, LeasedWhileRunning, J!Absent
<1>2. Init => StrayInv
  <2> SUFFICES ASSUME Init, NEW k \in Wakes PROVE Cardinality(Strays(k)) <= lapses
    BY DEF StrayInv
  <2>1. Strays(k) = {} /\ lapses = 0
    BY DEF Init, Strays, Working, IdleWorker
  <2> QED
    BY <2>1, FS_EmptySet
<1>3. LeaseInv /\ StrayInv => RunsBoundedByLapses
  <2> SUFFICES ASSUME LeaseInv, StrayInv, NEW k \in Wakes
               PROVE  Cardinality({w \in Workers : Working(w, k)}) <= 1 + lapses
    BY DEF RunsBoundedByLapses
  <2> DEFINE T == {w \in Workers : Working(w, k)}
  <2>1. T \subseteq Strays(k) \cup {row[k].token}
    BY DEF Strays, Holds, J!HeldBy
  <2>2. T \in SUBSET Workers /\ Strays(k) \in SUBSET Workers
    BY DEF Strays
  <2>3. Cardinality(Strays(k)) <= lapses /\ lapses \in Nat
    BY DEF StrayInv, LeaseInv, TypeOK
  <2> HIDE DEF T
  <2>4. Cardinality(T) <= 1 + lapses
    BY <2>1, <2>2, <2>3, OneMore
  <2> QED
    BY <2>4 DEF T
<1> QED
  BY <1>1, <1>2, <1>3, LeaseStep, StrayStep, PTL DEF Spec

-----------------------------------------------------------------------------
(* WakeLane implements JobLease.                                           *)

\* Steps that change no state, lease or token column stutter on the leases.
LEMMA SameLeases ==
    ASSUME TypeOK, \A k \in Wakes : row'[k] = row[k]
                       \/ \E b \in BOOLEAN : row'[k] = J!Stamped(row[k], b)
    PROVE  OwnerOf' = OwnerOf /\ LapsedLeases' = LapsedLeases
<1>1. ASSUME NEW k \in Wakes
      PROVE  /\ row'[k].state = row[k].state
             /\ row'[k].lease = row[k].lease
             /\ row'[k].token = row[k].token
  <2>1. row[k] \in J!Rows
    BY DEF TypeOK
  <2>2. ASSUME NEW b \in BOOLEAN, row'[k] = J!Stamped(row[k], b)
        PROVE  /\ row'[k].state = row[k].state
               /\ row'[k].lease = row[k].lease
               /\ row'[k].token = row[k].token
    BY <2>1, <2>2 DEF J!Stamped, J!Rows
  <2> QED
    BY <2>2
<1> QED
  BY <1>1 DEF OwnerOf, LapsedLeases

\* Taking lapsed rows out of running, and nothing else, breaks their leases.
LEMMA BrokenLeases ==
    ASSUME LeaseInv, NEW S \in SUBSET LapsedLeases,
           \A k \in S : row'[k].state # "running",
           \A k \in Wakes \ S : row'[k] = row[k],
           RunOf' = RunOf
    PROVE  Lease!Break(S)
<1>1. S \subseteq Wakes
  BY DEF LapsedLeases
<1>2. OwnerOf' = [k \in Wakes |-> IF k \in S THEN NoToken ELSE OwnerOf[k]]
  BY <1>1 DEF OwnerOf
<1>3. LapsedLeases' = LapsedLeases \ S
  BY <1>1 DEF LapsedLeases
<1> QED
  BY <1>2, <1>3 DEF Lease!Break

\* A step of one pool thread that moves its row out of running gives it back.
LEMMA GivenBack ==
    ASSUME LeaseInv, NEW w \in Workers, NEW k \in Wakes, NEW q \in J!Rows,
           worker[w] = [pc |-> "claimed", wake |-> k],
           worker' = [worker EXCEPT ![w] = IdleWorker],
           J!HeldBy(row[k], w), q.state # "running",
           row' = [row EXCEPT ![k] = q]
    PROVE  Lease!GiveBack(w, k)
<1> USE DEF LeaseInv, TypeOK
<1>1. RunOf[w] = k /\ RunOf' = [RunOf EXCEPT ![w] = NoWake]
  <2>1. RunOf[w] = k
    BY DEF RunOf
  <2>2. worker'[w].pc = "idle" /\ \A v \in Workers \ {w} : worker'[v] = worker[v]
    BY DEF IdleWorker
  <2>3. \A v \in Workers : RunOf'[v] = IF v = w THEN NoWake ELSE RunOf[v]
    BY <2>2 DEF RunOf
  <2> QED
    BY <2>1, <2>3 DEF RunOf
<1>2. OwnerOf[k] = w /\ OwnerOf' = [OwnerOf EXCEPT ![k] = NoToken]
  BY DEF OwnerOf, J!HeldBy
<1>3. LapsedLeases' = LapsedLeases \ {k}
  BY DEF LapsedLeases
<1> QED
  BY <1>1, <1>2, <1>3 DEF Lease!GiveBack

\* Every step of WakeLane is a step of JobLease or leaves the leases alone.
LEMMA LeaseStepRefined ==
    LeaseInv /\ [Next]_vars => [Lease!LeaseNext]_(Lease!leaseVars)
<1> SUFFICES ASSUME LeaseInv, [Next]_vars
             PROVE  Lease!LeaseNext \/ UNCHANGED <<OwnerOf, LapsedLeases, RunOf>>
  BY DEF Lease!leaseVars
<1> DEFINE Goal == Lease!LeaseNext \/ UNCHANGED <<OwnerOf, LapsedLeases, RunOf>>
<1>t. TypeOK
  BY DEF LeaseInv
<1>u. ASSUME RunOf' = RunOf,
             \A k \in Wakes : row'[k] = row[k]
                 \/ \E b \in BOOLEAN : row'[k] = J!Stamped(row[k], b)
      PROVE  Goal
  BY <1>t, <1>u, SameLeases
<1>b. ASSUME NEW S \in SUBSET Wakes, Lease!Break(S) PROVE Goal
  BY <1>b DEF Lease!LeaseNext
<1>w. ASSUME NEW w \in Workers, RunOf' = [RunOf EXCEPT ![w] = NoWake], row' = row
      PROVE  Goal
  <2>1. OwnerOf' = OwnerOf /\ LapsedLeases' = LapsedLeases
    BY <1>t, <1>w, SameLeases
  <2> QED
    BY <1>w, <2>1 DEF Lease!LeaseNext, Lease!WalkAway
<1>n. ASSUME NEW k \in Wakes, J!Creatable(row[k]), RunOf' = RunOf,
             row' = [row EXCEPT ![k] = J!Created(row[k], TRUE)]
      PROVE  Goal
  <2>1. row[k] \in J!Rows /\ row'[k].state = "queued"
    BY <1>t, <1>n DEF TypeOK, J!Created, J!Rows
  <2>2. \A i \in Wakes \ {k} : row'[i] = row[i]
    BY <1>t, <1>n DEF TypeOK
  <2>3. CASE k \in LapsedLeases
    <3>1. Lease!Break({k})
      BY <1>n, <2>1, <2>2, <2>3, BrokenLeases
    <3> QED
      BY <1>b, <3>1
  <2>4. CASE k \notin LapsedLeases
    <3>1. row[k].state # "running"
      BY <1>n, <2>1, <2>4 DEF J!Rows, J!Creatable, LapsedLeases
    <3>2. OwnerOf' = OwnerOf
      BY <2>1, <2>2, <3>1 DEF OwnerOf
    <3>3. LapsedLeases' = LapsedLeases
      BY <2>1, <2>2, <3>1 DEF LapsedLeases
    <3> QED
      BY <1>n, <3>2, <3>3
  <2> QED
    BY <2>3, <2>4
<1>1. ASSUME NEW h \in Handlers, NEW k \in Wakes, OnVerdict(h, k) PROVE Goal
  <2>1. RunOf' = RunOf
    BY <1>1 DEF OnVerdict, RunOf
  <2>2. CASE J!Creatable(row[k])
    <3>1. row' = [row EXCEPT ![k] = J!Created(row[k], TRUE)]
      BY <1>1, <2>2 DEF OnVerdict
    <3> QED
      BY <1>n, <2>1, <2>2, <3>1
  <2>3. CASE ~J!Creatable(row[k])
    BY <1>1, <1>u, <2>1, <2>3 DEF OnVerdict
  <2> QED
    BY <2>2, <2>3
<1>1b. ASSUME NEW h \in Handlers, NEW k \in Wakes, OnVerdictRaises(h, k) PROVE Goal
  <2>1. RunOf' = RunOf
    BY <1>1b DEF OnVerdictRaises, RunOf
  <2>2. CASE J!Creatable(row[k]) /\ row' = [row EXCEPT ![k] = J!Created(row[k], TRUE)]
    BY <1>n, <2>1, <2>2
  <2>3. CASE row' = row
    BY <1>u, <2>1, <2>3
  <2> QED
    BY <1>1b, <2>2, <2>3 DEF OnVerdictRaises
<1>2. ASSUME NEW s \in Submitters, Submit(s) PROVE Goal
  <2>1. RunOf' = RunOf
    BY <1>t, <1>2 DEF Submit, RunOf, TypeOK
  <2> QED
    BY <1>t, <1>2, <1>u, <2>1 DEF Submit, TypeOK
<1>3. ASSUME NEW s \in Submitters, SubmitRejected(s) PROVE Goal
  <2>1. RunOf' = RunOf
    BY <1>t, <1>3 DEF SubmitRejected, Outage, IdleHand, RunOf, TypeOK
  <2> QED
    BY <1>t, <1>3, <1>u, <2>1 DEF SubmitRejected, TypeOK
<1>4. ASSUME NEW s \in Submitters, MarkSubmitted(s) PROVE Goal
  <2>1. RunOf' = RunOf
    BY <1>t, <1>4 DEF MarkSubmitted, IdleHand, RunOf, TypeOK
  <2> QED
    BY <1>t, <1>4, <1>u, <2>1 DEF MarkSubmitted, TypeOK
<1>5. ASSUME NEW s \in Submitters, MarkSubmittedFails(s) PROVE Goal
  <2>1. RunOf' = RunOf
    BY <1>t, <1>5 DEF MarkSubmittedFails, Outage, IdleHand, RunOf, TypeOK
  <2> QED
    BY <1>t, <1>5, <1>u, <2>1 DEF MarkSubmittedFails, TypeOK
<1>6. ASSUME NEW w \in Workers, NEW k \in Wakes, StartTask(w, k) PROVE Goal
  <2>1. RunOf' = RunOf
    BY <1>t, <1>6 DEF StartTask, RunOf, TypeOK
  <2> QED
    BY <1>t, <1>6, <1>u, <2>1 DEF StartTask, TypeOK
<1>7. ASSUME NEW w \in Workers, Claim(w) PROVE Goal
  <2> DEFINE k == worker[w].wake
  <2>1. /\ k \in Wakes /\ row[k] \in J!Rows /\ row[k].state = "queued"
        /\ row' = [row EXCEPT ![k] = J!Claimed(row[k], w)]
    BY <1>t, <1>7 DEF Claim, TypeOK, J!Claimable
  <2>2. /\ row'[k].state = "running" /\ row'[k].token = w /\ row'[k].lease = "live"
        /\ \A i \in Wakes \ {k} : row'[i] = row[i]
    BY <1>t, <2>1, RowEffects DEF TypeOK
  <2>3. RunOf[w] = NoWake /\ RunOf' = [RunOf EXCEPT ![w] = k]
    BY <1>t, <1>7 DEF Claim, RunOf, TypeOK
  <2>4. OwnerOf[k] = NoToken /\ OwnerOf' = [OwnerOf EXCEPT ![k] = w]
    BY <2>1, <2>2 DEF OwnerOf
  <2>5. LapsedLeases' = LapsedLeases
    BY <2>1, <2>2 DEF LapsedLeases
  <2> QED
    BY <2>1, <2>3, <2>4, <2>5 DEF Lease!LeaseNext, Lease!Acquire, Lease!Free
<1>8. ASSUME NEW w \in Workers, ClaimRefused(w) PROVE Goal
  <2>1. RunOf' = RunOf
    BY <1>t, <1>8 DEF ClaimRefused, IdleWorker, RunOf, TypeOK
  <2> QED
    BY <1>t, <1>8, <1>u, <2>1 DEF ClaimRefused, TypeOK
<1>9. ASSUME NEW w \in Workers, ClaimFails(w) PROVE Goal
  <2>1. RunOf' = RunOf
    BY <1>t, <1>9 DEF ClaimFails, Outage, IdleWorker, RunOf, TypeOK
  <2> QED
    BY <1>t, <1>9, <1>u, <2>1 DEF ClaimFails, TypeOK
<1>10. ASSUME NEW w \in Workers, Finish(w) PROVE Goal
  <2> DEFINE k == worker[w].wake
  <2>1. /\ k \in Wakes /\ row[k] \in J!Rows
        /\ worker[w] = [pc |-> "claimed", wake |-> k]
        /\ worker' = [worker EXCEPT ![w] = IdleWorker]
    BY <1>t, <1>10 DEF Finish, TypeOK
  <2>2. RunOf' = [RunOf EXCEPT ![w] = NoWake]
    BY <1>t, <2>1 DEF RunOf, TypeOK, IdleWorker
  <2>3. CASE J!HeldBy(row[k], w) /\ \E q \in J!Rows :
                 row' = [row EXCEPT ![k] = q] /\ q.state \in {"queued", "done"}
    <3>1. Lease!GiveBack(w, k)
      BY <2>1, <2>3, GivenBack
    <3> QED
      BY <2>1, <3>1 DEF Lease!LeaseNext
  <2>4. CASE row[k].state = "queued" /\ row' = [row EXCEPT ![k] = J!Parked(row[k])]
    <3>1. row'[k].state = "done" /\ \A i \in Wakes \ {k} : row'[i] = row[i]
      BY <1>t, <2>1, <2>4, RowEffects DEF TypeOK
    <3>2. OwnerOf' = OwnerOf
      BY <2>4, <3>1 DEF OwnerOf
    <3>3. LapsedLeases' = LapsedLeases
      BY <2>4, <3>1 DEF LapsedLeases
    <3> QED
      BY <2>2, <3>2, <3>3 DEF Lease!LeaseNext, Lease!WalkAway
  <2>5. CASE row' = row
    BY <1>w, <2>2, <2>5
  <2> QED
    BY <1>t, <1>10, <2>3, <2>4, <2>5, FinishOutcome
<1>11. ASSUME NEW w \in Workers, LeaveRunning(w) PROVE Goal
  <2>1. RunOf' = [RunOf EXCEPT ![w] = NoWake] /\ row' = row
    BY <1>t, <1>11 DEF LeaveRunning, IdleWorker, RunOf, TypeOK
  <2> QED
    BY <1>w, <2>1
<1>12. ASSUME NEW w \in Workers, RenewLease(w) PROVE Goal
  <2> DEFINE k == worker[w].wake
  <2>1. /\ k \in Wakes /\ row[k] \in J!Rows /\ J!HeldBy(row[k], w)
        /\ row' = [row EXCEPT ![k] = J!Renewed(row[k])]
        /\ RunOf[w] = k /\ RunOf' = RunOf
    BY <1>t, <1>12 DEF RenewLease, RunOf, TypeOK
  <2>2. /\ row'[k].state = row[k].state /\ row'[k].token = row[k].token
        /\ row'[k].lease = "live"
        /\ \A i \in Wakes \ {k} : row'[i] = row[i]
    BY <1>t, <2>1, RowEffects DEF TypeOK
  <2>3. OwnerOf[k] = w /\ OwnerOf' = OwnerOf
    BY <2>1, <2>2 DEF OwnerOf, J!HeldBy
  <2>4. LapsedLeases' = LapsedLeases \ {k}
    BY <2>1, <2>2 DEF LapsedLeases
  <2> QED
    BY <2>1, <2>3, <2>4 DEF Lease!LeaseNext, Lease!Renew
<1>13. ASSUME ResetSubmissions PROVE Goal
  <2>1. RunOf' = RunOf
    BY <1>t, <1>13 DEF ResetSubmissions, SweepAt, RunOf, TypeOK
  <2> QED
    BY <1>t, <1>13, <1>u, <2>1 DEF ResetSubmissions, TypeOK
<1>14. ASSUME ResetFails PROVE Goal
  <2>1. RunOf' = RunOf
    BY <1>t, <1>14 DEF ResetFails, SweepAt, Outage, RunOf, TypeOK
  <2> QED
    BY <1>t, <1>14, <1>u, <2>1 DEF ResetFails, TypeOK
<1>15. ASSUME RecoverExpired PROVE Goal
  <2>1. RunOf' = RunOf
    BY <1>15 DEF RecoverExpired, RunOf
  <2>2. \A k \in Wakes : row'[k] = IF k \in LapsedLeases THEN J!Recovered(row[k]) ELSE row[k]
    BY <1>15 DEF RecoverExpired, LapsedLeases, J!Recoverable
  <2>3. \A k \in LapsedLeases : row'[k].state # "running"
    <3> TAKE k \in LapsedLeases
    <3>1. k \in Wakes
      BY DEF LapsedLeases
    <3>2. row'[k] = J!Recovered(row[k]) /\ row[k] \in J!Rows
      BY <1>t, <2>2, <3>1 DEF TypeOK
    <3>3. J!Recovered(row[k]).state = "queued"
      BY <3>2 DEF J!Recovered, J!Rows
    <3> QED
      BY <3>2, <3>3
  <2>4. Lease!Break(LapsedLeases)
    BY <2>1, <2>2, <2>3, BrokenLeases
  <2>5. LapsedLeases \in SUBSET Wakes
    BY DEF LapsedLeases
  <2> QED
    BY <1>b, <2>4, <2>5
<1>16. ASSUME NEW k \in Wakes, ParkRecovered(k) PROVE Goal
  <2>1. RunOf' = RunOf /\ row[k] \in J!Rows /\ \A i \in Wakes \ {k} : row'[i] = row[i]
    BY <1>t, <1>16 DEF ParkRecovered, RunOf, TypeOK
  <2>2. CASE k \in LapsedLeases
    <3>1. row' = [row EXCEPT ![k] = J!Parked(row[k])]
      BY <1>16, <2>2 DEF ParkRecovered, LapsedLeases, J!ParkableBare
    <3>2. row'[k].state # "running"
      BY <1>t, <2>1, <3>1 DEF TypeOK, J!Parked, J!Rows
    <3>3. Lease!Break({k})
      BY <2>1, <2>2, <3>2, BrokenLeases
    <3> QED
      BY <1>b, <3>3
  <2>3. CASE k \notin LapsedLeases /\ J!ParkableBare(row[k])
    <3>1. row' = [row EXCEPT ![k] = J!Parked(row[k])]
      BY <1>16, <2>3 DEF ParkRecovered
    <3>2. row[k].state = "queued"
      BY <2>1, <2>3 DEF J!ParkableBare, J!Rows, J!Leases, LeaseInv, LeasedWhileRunning, LapsedLeases
    <3>3. row'[k].state = "done"
      BY <1>t, <2>1, <3>1 DEF TypeOK, J!Parked, J!Rows
    <3>4. OwnerOf' = OwnerOf
      BY <2>1, <3>2, <3>3 DEF OwnerOf
    <3>5. LapsedLeases' = LapsedLeases
      BY <2>1, <3>2, <3>3 DEF LapsedLeases
    <3> QED
      BY <2>1, <3>4, <3>5
  <2>4. CASE ~J!ParkableBare(row[k])
    <3>1. row'[k] = row[k]
      BY <1>t, <1>16, <2>4 DEF ParkRecovered, TypeOK
    <3> QED
      BY <1>u, <2>1, <3>1
  <2> QED
    BY <2>2, <2>3, <2>4
<1>17. ASSUME NEW k \in Wakes, Resubmit(k) PROVE Goal
  <2>1. RunOf' = RunOf
    BY <1>t, <1>17 DEF Resubmit, SweepAt, RunOf, TypeOK
  <2> QED
    BY <1>t, <1>17, <1>u, <2>1 DEF Resubmit, TypeOK
<1>18. ASSUME StaleQueued PROVE Goal
  <2>1. RunOf' = RunOf
    BY <1>t, <1>18 DEF StaleQueued, SweepAt, RunOf, TypeOK
  <2> QED
    BY <1>t, <1>18, <1>u, <2>1 DEF StaleQueued, TypeOK
<1>19. ASSUME PassEnds PROVE Goal
  <2>1. RunOf' = RunOf
    BY <1>t, <1>19 DEF PassEnds, SweepAt, RunOf, TypeOK
  <2> QED
    BY <1>t, <1>19, <1>u, <2>1 DEF PassEnds, TypeOK
<1>20. ASSUME PassAborted PROVE Goal
  <2>1. RunOf' = RunOf
    BY <1>t, <1>20 DEF PassAborted, SweepAt, Outage, RunOf, TypeOK
  <2> QED
    BY <1>t, <1>20, <1>u, <2>1 DEF PassAborted, TypeOK
<1>21. ASSUME NEW k \in Wakes, LeaseExpires(k) PROVE Goal
  <2>1. /\ row[k] \in J!Rows /\ row[k].state = "running"
        /\ row' = [row EXCEPT ![k] = J!Lapsed(row[k])]
        /\ RunOf' = RunOf
    BY <1>t, <1>21 DEF LeaseExpires, RunOf, TypeOK
  <2>2. /\ row'[k].state = row[k].state /\ row'[k].token = row[k].token
        /\ row'[k].lease = "expired"
        /\ \A i \in Wakes \ {k} : row'[i] = row[i]
    BY <1>t, <2>1 DEF TypeOK, J!Lapsed, J!Rows
  <2>3. OwnerOf[k] # NoToken /\ OwnerOf' = OwnerOf
    BY <2>1, <2>2, NullAssumption DEF OwnerOf, LeaseInv, LeasedWhileRunning
  <2>4. LapsedLeases' = LapsedLeases \cup {k}
    BY <2>1, <2>2 DEF LapsedLeases
  <2> QED
    BY <2>1, <2>3, <2>4 DEF Lease!LeaseNext, Lease!Lapse, Lease!Free
<1>22. ASSUME Shutdown PROVE Goal
  <2>1. RunOf' = RunOf
    BY <1>t, <1>22 DEF Shutdown, RunOf, TypeOK
  <2> QED
    BY <1>t, <1>22, <1>u, <2>1 DEF Shutdown, TypeOK
<1>23. ASSUME Restart PROVE Goal
  <2>1. OwnerOf' = OwnerOf /\ LapsedLeases' = LapsedLeases
    BY <1>t, <1>23, SameLeases DEF Restart
  <2>2. RunOf' = [w \in Workers |-> NoWake]
    BY <1>23 DEF Restart, RunOf, IdleWorker
  <2> QED
    BY <2>1, <2>2 DEF Lease!LeaseNext, Lease!Crash
<1>24. ASSUME UNCHANGED vars PROVE Goal
  BY <1>24 DEF vars, OwnerOf, LapsedLeases, RunOf
<1> HIDE DEF Goal
<1>25. ASSUME \E s \in Submitters : SubmitterStep(s) PROVE Goal
  BY <1>2, <1>3, <1>4, <1>5, <1>25 DEF SubmitterStep
<1>26. ASSUME \E w \in Workers : WorkerStep(w) PROVE Goal
  BY <1>6, <1>7, <1>8, <1>9, <1>10, <1>11, <1>12, <1>26 DEF WorkerStep
<1>27. ASSUME SweepStep PROVE Goal
  BY <1>13, <1>14, <1>15, <1>16, <1>17, <1>18, <1>19, <1>20, <1>27 DEF SweepStep
<1>28. Goal
  BY <1>1, <1>1b, <1>21, <1>22, <1>23, <1>24, <1>25, <1>26, <1>27 DEF Next, HandlerStep
<1> QED
  BY <1>28 DEF Goal

\* The wake lane implements the lease protocol of JobLease: nobody but its own
\* claimant ends a live lease, for any number of wakes, threads and restarts.
THEOREM WakeLaneImplementsJobLease == Spec => LeaseRefined
<1>1. Init => Lease!LeaseInit
  BY DEF Init, Lease!LeaseInit, OwnerOf, LapsedLeases, RunOf, J!Absent, IdleWorker
<1>2. Init => LeaseInv
  BY TypeInit DEF Init, LeaseInv, LeasedWhileRunning, J!Absent
<1> QED
  BY <1>1, <1>2, LeaseStep, LeaseStepRefined, PTL DEF Spec, LeaseRefined, Lease!LeaseSpec
=============================================================================
