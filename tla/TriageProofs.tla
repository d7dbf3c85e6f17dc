----------------------------- MODULE TriageProofs -----------------------------
(***************************************************************************)
(* Theorems about Triage for every set of verdicts and pool threads, every *)
(* escalation limit and every bound on deliveries and mishaps.             *)
(***************************************************************************)
EXTENDS Triage, FiniteSetTheorems, WellFoundedInduction, TLAPS

-----------------------------------------------------------------------------
(* The row operators keep a row a row.                                     *)

\* No statement run_neo or its environment uses builds a row outside the type.
LEMMA RowsClosed ==
    ASSUME NEW r \in J!Rows
    PROVE  /\ J!Absent \in J!Rows
           /\ J!Created(r, TRUE) \in J!Rows
           /\ \A t \in Workers : J!Claimed(r, t) \in J!Rows
           /\ \A o \in J!TerminalOutcomes : J!Resolved(r, o) \in J!Rows
           /\ J!Retried(r) \in J!Rows
           /\ J!Parked(r) \in J!Rows
           /\ J!Renewed(r) \in J!Rows
           /\ J!Recovered(r) \in J!Rows
           /\ J!Lapsed(r) \in J!Rows
<1> USE DEF J!Rows, J!States, J!Outcomes, J!TerminalOutcomes, J!Leases
<1>1. J!Absent \in J!Rows /\ J!Created(r, TRUE) \in J!Rows
  BY DEF J!Absent, J!Created
<1>2. \A t \in Workers : J!Claimed(r, t) \in J!Rows
  <2> TAKE t \in Workers
  <2>1. r.attempt + 1 \in Nat
    OBVIOUS
  <2>2. [[r EXCEPT !.state = "running"] EXCEPT !.attempt = r.attempt + 1] \in J!Rows
    BY <2>1, Zenon
  <2> QED
    BY <2>1, <2>2, Zenon DEF J!Claimed
<1>3. \A o \in J!TerminalOutcomes : J!Resolved(r, o) \in J!Rows
  BY DEF J!Resolved
<1>4. J!Retried(r) \in J!Rows
  <2>1. CASE J!Exhausted(r)
    BY <2>1 DEF J!Retried
  <2>2. CASE ~J!Exhausted(r)
    BY <2>2 DEF J!Retried
  <2> QED
    BY <2>1, <2>2
<1>5. J!Parked(r) \in J!Rows /\ J!Renewed(r) \in J!Rows
  BY DEF J!Parked, J!Renewed
<1>6. J!Recovered(r) \in J!Rows /\ J!Lapsed(r) \in J!Rows
  BY DEF J!Recovered, J!Lapsed
<1> QED
  BY <1>1, <1>2, <1>3, <1>4, <1>5, <1>6

-----------------------------------------------------------------------------
(* The next round of a PR.                                                 *)

\* A non-empty set of rounds has a highest one.
LEMMA HighestRound ==
    ASSUME NEW S \in SUBSET (0..Bounces), S # {}
    PROVE  \E r \in S : \A q \in S : q <= r
<1> DEFINE above(r) == r..Bounces
           T == {above(r) : r \in S}
<1>1. Bounces \in Nat
  BY BoundsAssumption
<1>2. IsFiniteSet(0..Bounces)
  BY <1>1, FS_Interval
<1>3. IsWellFoundedOn(StrictSubsetOrdering(0..Bounces), SUBSET (0..Bounces))
  BY <1>2, FS_StrictSubsetOrderingWellFounded, FS_FiniteSubsetsOfFinite
<1>4. T \subseteq SUBSET (0..Bounces) /\ T # {}
  <2>1. \A r \in S : above(r) \in SUBSET (0..Bounces)
    BY <1>1
  <2>2. PICK r \in S : TRUE
    OBVIOUS
  <2>3. above(r) \in T
    OBVIOUS
  <2> QED
    BY <2>1, <2>3
<1>5. PICK a \in T : \A b \in T : <<b, a>> \notin StrictSubsetOrdering(0..Bounces)
  BY <1>3, <1>4, WFMin
<1>6. PICK r \in S : a = above(r)
  OBVIOUS
<1>7. ASSUME NEW q \in S, ~(q <= r) PROVE FALSE
  <2>1. q \in 0..Bounces /\ r \in 0..Bounces /\ r < q
    BY <1>1, <1>7
  <2>2. above(q) \subseteq above(r) /\ r \in above(r) /\ r \notin above(q)
    BY <1>1, <2>1
  <2>3. above(q) \in SUBSET (0..Bounces) /\ above(r) \in SUBSET (0..Bounces)
    BY <1>1, <2>1
  <2>4. <<above(q), above(r)>> \in StrictSubsetOrdering(0..Bounces)
    BY <2>2, <2>3 DEF StrictSubsetOrdering
  <2> QED
    BY <1>5, <1>6, <2>4
<1> QED
  BY <1>7

\* What builder_rounds and its successor can be.
LEMMA NextRoundTyped ==
    ASSUME TypeOK
    PROVE  NextRound \in 1..(Bounces + 1)
<1>1. BuilderRounds \in SUBSET (0..Bounces)
  BY DEF BuilderRounds, TypeOK
<1>2. CASE BuilderRounds = {}
  BY <1>2, BoundsAssumption DEF NextRound
<1>3. CASE BuilderRounds # {}
  <2> DEFINE top == CHOOSE r \in BuilderRounds : \A q \in BuilderRounds : q <= r
  <2>1. top \in BuilderRounds
    BY <1>1, <1>3, HighestRound
  <2>2. top \in 0..Bounces /\ NextRound = 1 + top
    BY <1>1, <1>3, <2>1 DEF NextRound
  <2> QED
    BY <2>2, BoundsAssumption
<1> QED
  BY <1>2, <1>3

-----------------------------------------------------------------------------
(* Type correctness.                                                       *)

Busy == [pc : Pcs, wake : Wakes, auth : BOOLEAN,
         phase : Phases \cup {"none"}, round : 0..Bounces]

LedgerRows == [phase : Phases, head : Heads \cup {0}, green : BOOLEAN, round : 0..Bounces]

\* TypeOK is not inductive on its own: the phase a run is about to record must
\* be a phase, and never the marker's.
PhasesKnown == \A t \in Workers : At(t, "phase") => run[t].phase \in Phases \ {"triage"}

TypeInv == TypeOK /\ PhasesKnown

\* What the types say of a run that is somewhere in run_neo.
LEMMA BusyRun ==
    ASSUME TypeOK, NEW t \in Workers, run[t] # Idle
    PROVE  /\ run[t] \in Busy /\ run[t].wake \in Wakes
           /\ run[t].wake[1] \in Heads /\ run[t].wake[1] \in Nat /\ run[t].wake[2] \in BOOLEAN
           /\ run[t].wake = <<run[t].wake[1], run[t].wake[2]>>
<1>1. run[t] \in Busy
  BY DEF TypeOK, Busy
<1>2. run[t].wake \in Wakes
  BY <1>1 DEF Busy
<1>3. run[t].wake[1] \in Heads
  BY <1>2 DEF Heads
<1> QED
  BY <1>1, <1>2, <1>3, WakesAssumption

\* A run at one of its places is busy.
LEMMA AtBusy ==
    ASSUME NEW t \in Workers, NEW pc, At(t, pc), pc # "idle"
    PROVE  run[t] # Idle
  BY DEF At, Idle

\* The part of the invariant that speaks of the runs.
RunsTyped(r) ==
    /\ r \in [Workers -> {Idle} \cup Busy]
    /\ \A t \in Workers : r[t].pc = "order" => r[t].round \in Rounds
    /\ \A t \in Workers : r[t].pc = "phase" => r[t].phase \in Phases \ {"triage"}

\* A run that moves on to a well-formed record keeps the runs typed.
LEMMA RunWrite ==
    ASSUME RunsTyped(run), NEW t \in Workers, NEW r \in {Idle} \cup Busy,
           r.pc = "order" => r.round \in Rounds,
           r.pc = "phase" => r.phase \in Phases \ {"triage"},
           run' = [run EXCEPT ![t] = r]
    PROVE  RunsTyped(run')
  BY DEF RunsTyped

\* So does one that ends.
LEMMA EndsTyped ==
    ASSUME RunsTyped(run), NEW t \in Workers, Ends(t)
    PROVE  RunsTyped(run')
<1>1. Idle.pc = "idle" /\ Idle \in {Idle} \cup Busy
  BY DEF Idle
<1> QED
  BY <1>1, RunWrite DEF Ends

\* Or one that goes on to a place with no condition of its own.
LEMMA GotoTyped ==
    ASSUME RunsTyped(run), NEW t \in Workers, run[t] # Idle, NEW pc \in Pcs \ {"order", "phase"},
           Goto(t, pc)
    PROVE  RunsTyped(run')
<1> DEFINE r == [run[t] EXCEPT !.pc = pc]
<1>1. run[t] \in Busy
  BY DEF RunsTyped
<1>2. r \in Busy /\ r.pc = pc
  BY <1>1 DEF Busy
<1>3. run' = [run EXCEPT ![t] = r]
  BY DEF Goto
<1> QED
  BY <1>2, <1>3, RunWrite

\* Or one that has a phase to record.
LEMMA ComesTyped ==
    ASSUME RunsTyped(run), NEW t \in Workers, run[t] # Idle, NEW p \in Phases \ {"triage"},
           Comes(t, p)
    PROVE  RunsTyped(run')
<1> DEFINE r == [run[t] EXCEPT !.pc = "phase", !.phase = p]
<1>1. run[t] \in Busy
  BY DEF RunsTyped
<1>2. r \in Busy /\ r.pc = "phase" /\ r.phase = p
  BY <1>1 DEF Busy, Pcs
<1>3. run' = [run EXCEPT ![t] = r]
  BY DEF Comes
<1> QED
  BY <1>2, <1>3, RunWrite

\* The invariant, conjunct by conjunct.
LEMMA TypeParts ==
    TypeInv <=> /\ job \in [Wakes -> J!Rows]
                /\ ledger \subseteq LedgerRows
                /\ builder \in [Rounds -> {"absent", "active", "done"}]
                /\ inst \in [metered : BOOLEAN, balance : Int]
                /\ gh \in [head : Heads, merged : Heads \cup {0}, lane : BOOLEAN]
                /\ RunsTyped(run)
                /\ orders \in [Wakes -> SUBSET Rounds]
                /\ debits \in [Wakes -> Nat]
                /\ spent \in [deliveries : Nat, lapses : Nat, faults : Nat]
  BY DEF TypeInv, TypeOK, PhasesKnown, RunsTyped, Busy, LedgerRows, At

\* The same of the state after a step.
LEMMA TypeNext ==
    ASSUME job' \in [Wakes -> J!Rows],
           ledger' \subseteq LedgerRows,
           builder' \in [Rounds -> {"absent", "active", "done"}],
           inst' \in [metered : BOOLEAN, balance : Int],
           gh' \in [head : Heads, merged : Heads \cup {0}, lane : BOOLEAN],
           RunsTyped(run'),
           orders' \in [Wakes -> SUBSET Rounds],
           debits' \in [Wakes -> Nat],
           spent' \in [deliveries : Nat, lapses : Nat, faults : Nat]
    PROVE  TypeInv'
  BY DEF TypeInv, TypeOK, PhasesKnown, RunsTyped, Busy, LedgerRows, At

\* A statement on the run's own row keeps the table typed.
LEMMA RowEndsTyped ==
    ASSUME job \in [Wakes -> J!Rows], NEW t \in Workers, run[t].wake \in Wakes,
           \/ \E o \in {"done", "no_change", "no_installation"} : RowEnds(t, o)
           \/ RowRetried(t)
    PROVE  job' \in [Wakes -> J!Rows]
<1> DEFINE w == run[t].wake
<1>1. J!Retried(job[w]) \in J!Rows
  BY RowsClosed
<1>2. \A o \in {"done", "no_change", "no_installation"} : J!Resolved(job[w], o) \in J!Rows
  BY RowsClosed DEF J!TerminalOutcomes
<1>3. CASE RowRetried(t)
  BY <1>1, <1>3 DEF RowRetried
<1>4. ASSUME NEW o \in {"done", "no_change", "no_installation"}, RowEnds(t, o)
      PROVE  job' \in [Wakes -> J!Rows]
  BY <1>2, <1>4 DEF RowEnds
<1> QED
  BY <1>3, <1>4

\* The rows run_neo writes are rows.
LEMMA RowTyped ==
    ASSUME NEW p \in Phases, NEW h \in Heads \cup {0}, NEW c \in BOOLEAN, NEW r \in 0..Bounces
    PROVE  Row(p, <<h, c>>, r) \in LedgerRows
  BY DEF Row, LedgerRows

\* A new ledger row starts at round zero, whatever the cap on rounds.
LEMMA ZeroRound == 0 \in 0..Bounces
  BY BoundsAssumption

\* The initial state is well typed.
LEMMA TypeInit == Init => TypeInv
<1> SUFFICES ASSUME Init PROVE TypeInv
  OBVIOUS
<1>1. J!Absent \in J!Rows
  BY DEF J!Absent, J!Rows, J!States, J!Outcomes, J!TerminalOutcomes, J!Leases
<1>2. job \in [Wakes -> J!Rows] /\ orders \in [Wakes -> SUBSET Rounds] /\ debits \in [Wakes -> Nat]
  BY <1>1 DEF Init
<1>3. PICK n \in PriorRounds : /\ ledger = {Row("builder", <<0, FALSE>>, r) : r \in 1..n}
                               /\ builder = [r \in Rounds |-> IF r <= n THEN "done" ELSE "absent"]
  BY DEF Init
<1>4. n \in 0..Bounces /\ 1..n \subseteq 0..Bounces
  BY BoundsAssumption
<1>5. ledger \subseteq LedgerRows
  <2>1. \A r \in 1..n : Row("builder", <<0, FALSE>>, r) \in LedgerRows
    BY <1>4, RowTyped DEF Phases
  <2> QED
    BY <1>3, <2>1
<1>6. builder \in [Rounds -> {"absent", "active", "done"}]
  BY <1>3
<1>7. RunsTyped(run)
  BY DEF Init, RunsTyped, Idle
<1>8. inst \in [metered : BOOLEAN, balance : Int] /\ spent \in [deliveries : Nat, lapses : Nat, faults : Nat]
  BY BoundsAssumption DEF Init
<1>9. gh \in [head : Heads, merged : Heads \cup {0}, lane : BOOLEAN]
  BY WakesAssumption DEF Init, Heads
<1> QED
  BY <1>2, <1>5, <1>6, <1>7, <1>8, <1>9, TypeParts

\* Every step of a run keeps the types.
LEMMA TypeRun ==
    ASSUME TypeInv, NEW t \in Workers, RunStep(t)
    PROVE  TypeInv'
<1> USE ZeroRound
<1>1. /\ job \in [Wakes -> J!Rows] /\ ledger \subseteq LedgerRows
      /\ builder \in [Rounds -> {"absent", "active", "done"}]
      /\ inst \in [metered : BOOLEAN, balance : Int]
      /\ gh \in [head : Heads, merged : Heads \cup {0}, lane : BOOLEAN]
      /\ RunsTyped(run)
      /\ orders \in [Wakes -> SUBSET Rounds] /\ debits \in [Wakes -> Nat]
      /\ spent \in [deliveries : Nat, lapses : Nat, faults : Nat]
  BY TypeParts
<1>2. TypeOK
  BY DEF TypeInv
<1>3. ASSUME run[t] # Idle
      PROVE  /\ run[t] \in Busy /\ run[t].wake \in Wakes
             /\ run[t].wake[1] \in Heads /\ run[t].wake[2] \in BOOLEAN
             /\ run[t].wake = <<run[t].wake[1], run[t].wake[2]>>
  BY <1>2, <1>3, BusyRun
<1>4. ASSUME NEW p \in Phases, run[t] # Idle, NEW r \in 0..Bounces
      PROVE  /\ Row(p, run[t].wake, r) \in LedgerRows
             /\ \A c \in BOOLEAN : Row(p, <<run[t].wake[1], c>>, r) \in LedgerRows
  <2>1. run[t].wake[1] \in Heads \cup {0}
    BY <1>3, <1>4
  <2> QED
    BY <1>3, <1>4, <2>1, RowTyped
<1>5. CASE Drop(t)
  <2>1. run[t] # Idle
    BY <1>5, AtBusy DEF Drop
  <2>2. job' \in [Wakes -> J!Rows]
    BY <1>1, <1>3, <1>5, <2>1, RowEndsTyped DEF Drop
  <2>3. RunsTyped(run')
    BY <1>1, <1>5, EndsTyped DEF Drop
  <2> QED
    BY <1>1, <1>5, <2>2, <2>3, TypeNext DEF Drop
<1>6. CASE DuplicateVerdict(t)
  <2>1. run[t] # Idle
    BY <1>6, AtBusy DEF DuplicateVerdict
  <2>2. job' \in [Wakes -> J!Rows]
    BY <1>1, <1>3, <1>6, <2>1, RowEndsTyped DEF DuplicateVerdict
  <2>3. RunsTyped(run')
    BY <1>1, <1>6, EndsTyped DEF DuplicateVerdict
  <2> QED
    BY <1>1, <1>6, <2>2, <2>3, TypeNext DEF DuplicateVerdict
<1>7. CASE RestoreMarker(t)
  <2>1. run[t] # Idle
    BY <1>7, AtBusy DEF RestoreMarker
  <2>2. ledger' \subseteq LedgerRows
    BY <1>1, <1>4, <1>7, <2>1 DEF RestoreMarker, Phases
  <2>3. RunsTyped(run')
    BY <1>1, <1>7, <2>1, GotoTyped DEF RestoreMarker, Pcs
  <2> QED
    BY <1>1, <1>7, <2>2, <2>3, TypeNext DEF RestoreMarker
<1>8. CASE CreditGate(t)
  <2>1. run[t] # Idle
    BY <1>8, AtBusy DEF CreditGate
  <2>2. job' \in [Wakes -> J!Rows]
    <3>1. J!Parked(job[run[t].wake]) \in J!Rows
      BY <1>1, <1>3, <2>1, RowsClosed
    <3> QED
      BY <1>1, <1>3, <1>8, <2>1, <3>1 DEF CreditGate
  <2>3. RunsTyped(run')
    BY <1>1, <1>8, <2>1, EndsTyped, GotoTyped DEF CreditGate, Pcs
  <2> QED
    BY <1>1, <1>8, <2>2, <2>3, TypeNext DEF CreditGate
<1>9. CASE StaleHead(t)
  <2>1. run[t] # Idle
    BY <1>9, AtBusy DEF StaleHead
  <2>2. job' \in [Wakes -> J!Rows]
    BY <1>1, <1>3, <1>9, <2>1, RowEndsTyped DEF StaleHead
  <2>3. RunsTyped(run')
    BY <1>1, <1>9, EndsTyped DEF StaleHead
  <2> QED
    BY <1>1, <1>9, <2>2, <2>3, TypeNext DEF StaleHead
<1>10. CASE Hold(t)
  <2>1. RunsTyped(run')
    BY <1>1, <1>10, EndsTyped DEF Hold
  <2> QED
    BY <1>1, <1>10, <2>1, TypeNext DEF Hold
<1>11. ASSUME NEW pc \in Pcs \ {"order", "phase"}, NEW a \in BOOLEAN, run[t] # Idle,
              run' = [run EXCEPT ![t].pc = pc, ![t].auth = a]
       PROVE  RunsTyped(run')
  <2> DEFINE r == [run[t] EXCEPT !.pc = pc, !.auth = a]
  <2>1. r \in Busy /\ r.pc = pc
    BY <1>3, <1>11 DEF Busy
  <2>2. run' = [run EXCEPT ![t] = r]
    BY <1>11
  <2> QED
    BY <1>1, <2>1, <2>2, RunWrite
<1>12. CASE LaneGate(t)
  <2>1. RunsTyped(run')
    BY <1>11, <1>12, AtBusy DEF LaneGate, Pcs
  <2> QED
    BY <1>1, <1>12, <2>1, TypeNext DEF LaneGate
<1>13. ASSUME NEW auth \in BOOLEAN, StartAgent(t, auth) PROVE TypeInv'
  <2>1. RunsTyped(run')
    BY <1>11, <1>13, AtBusy DEF StartAgent, Pcs
  <2> QED
    BY <1>1, <1>13, <2>1, TypeNext DEF StartAgent
<1>14. CASE AgentFails(t)
  <2>1. run[t] # Idle
    BY <1>14, AtBusy DEF AgentFails
  <2>2. job' \in [Wakes -> J!Rows]
    BY <1>1, <1>3, <1>14, <2>1, RowEndsTyped DEF AgentFails
  <2>3. RunsTyped(run')
    BY <1>1, <1>14, EndsTyped DEF AgentFails
  <2> QED
    BY <1>1, <1>14, <2>2, <2>3, TypeNext DEF AgentFails
<1>15. CASE AgentAnswers(t)
  <2>1. run[t] # Idle
    BY <1>15, AtBusy DEF AgentAnswers
  <2>2. RunsTyped(run')
    <3>1. \/ \E pc \in {"merge", "bounce"} : Goto(t, pc)
          \/ Comes(t, "ready")
      BY <1>15 DEF AgentAnswers, Comes
    <3>2. {"merge", "bounce"} \subseteq Pcs \ {"order", "phase"} /\ "ready" \in Phases \ {"triage"}
      BY DEF Pcs, Phases
    <3> QED
      BY <1>1, <2>1, <3>1, <3>2, GotoTyped, ComesTyped
  <2> QED
    BY <1>1, <1>15, <2>2, TypeNext DEF AgentAnswers
<1>16. CASE MergeReads(t)
  <2>1. run[t] # Idle
    BY <1>16, AtBusy DEF MergeReads
  <2>2. RunsTyped(run')
    BY <1>1, <1>16, <2>1, GotoTyped, ComesTyped DEF MergeReads, Pcs, Phases
  <2> QED
    BY <1>1, <1>16, <2>2, TypeNext DEF MergeReads
<1>17. CASE MergeCall(t)
  <2>1. run[t] # Idle
    BY <1>17, AtBusy DEF MergeCall
  <2>2. RunsTyped(run')
    BY <1>1, <1>17, <2>1, ComesTyped DEF MergeCall, Phases
  <2>3. gh' \in [head : Heads, merged : Heads \cup {0}, lane : BOOLEAN]
    BY <1>1, <1>17 DEF MergeCall
  <2> QED
    BY <1>1, <1>17, <2>2, <2>3, TypeNext DEF MergeCall
<1>18. CASE BounceParks(t)
  <2>1. run[t] # Idle
    BY <1>18, AtBusy DEF BounceParks
  <2>2. RunsTyped(run') /\ ledger' \subseteq LedgerRows
    BY <1>1, <1>4, <1>18, <2>1, ComesTyped DEF BounceParks, Phases
  <2> QED
    BY <1>1, <1>18, <2>2, TypeNext DEF BounceParks
<1>19. CASE BounceEscalates(t)
  <2>1. run[t] # Idle
    BY <1>19, AtBusy DEF BounceEscalates
  <2>2. PICK p \in {"escalating", "parked"} :
            /\ ledger' = ledger \cup {Row(p, <<run[t].wake[1], FALSE>>, 0)}
            /\ Comes(t, p)
    BY <1>19 DEF BounceEscalates
  <2>3. RunsTyped(run') /\ ledger' \subseteq LedgerRows
    <3>1. p \in Phases \ {"triage"}
      BY DEF Phases
    <3>2. Row(p, <<run[t].wake[1], FALSE>>, 0) \in LedgerRows
      BY <1>4, <2>1, <3>1
    <3> QED
      BY <1>1, <2>1, <2>2, <3>1, <3>2, ComesTyped
  <2> QED
    BY <1>1, <1>19, <2>3, TypeNext DEF BounceEscalates
<1>20. CASE BounceOrders(t)
  <2> DEFINE r == [run[t] EXCEPT !.pc = "order", !.round = NextRound]
  <2>1. run[t] # Idle
    BY <1>20, AtBusy DEF BounceOrders
  <2>2. NextRound \in Rounds /\ NextRound \in 0..Bounces
    BY <1>2, <1>20, NextRoundTyped, BoundsAssumption DEF BounceOrders, Rounds
  <2>3. r \in Busy /\ r.pc = "order" /\ r.round = NextRound
    BY <1>3, <2>1, <2>2 DEF Busy, Pcs
  <2>4. run' = [run EXCEPT ![t] = r]
    BY <1>20 DEF BounceOrders
  <2>5. RunsTyped(run')
    BY <1>1, <2>2, <2>3, <2>4, RunWrite
  <2> QED
    BY <1>1, <1>20, <2>5, TypeNext DEF BounceOrders
<1>21. CASE Order(t)
  <2>1. run[t] # Idle
    BY <1>21, AtBusy DEF Order
  <2>2. run[t].round \in Rounds
    BY <1>1, <1>21 DEF Order, At, RunsTyped
  <2>3. RunsTyped(run')
    BY <1>1, <1>21, <2>1, ComesTyped DEF Order, Phases
  <2>4. builder' \in [Rounds -> {"absent", "active", "done"}] /\ orders' \in [Wakes -> SUBSET Rounds]
    BY <1>1, <1>3, <1>21, <2>1, <2>2 DEF Order
  <2> QED
    BY <1>1, <1>21, <2>3, <2>4, TypeNext DEF Order
<1>22. CASE PhaseRow(t)
  <2>1. run[t] # Idle
    BY <1>22, AtBusy DEF PhaseRow
  <2>2. run[t].phase \in Phases /\ run[t].round \in 0..Bounces
    BY <1>1, <1>3, <1>22, <2>1 DEF PhaseRow, At, RunsTyped, Busy
  <2>3. ledger' \subseteq LedgerRows
    <3>1. /\ Row(run[t].phase, run[t].wake, run[t].round) \in LedgerRows
          /\ Row(run[t].phase, <<run[t].wake[1], FALSE>>, 0) \in LedgerRows
      BY <1>4, <2>1, <2>2
    <3> QED
      BY <1>1, <1>22, <3>1 DEF PhaseRow
  <2>4. RunsTyped(run')
    BY <1>1, <1>22, <2>1, EndsTyped, GotoTyped DEF PhaseRow, Pcs
  <2> QED
    BY <1>1, <1>22, <2>3, <2>4, TypeNext DEF PhaseRow
<1>23. CASE TriageMarker(t)
  <2>1. run[t] # Idle
    BY <1>23, AtBusy DEF TriageMarker
  <2>2. ledger' \subseteq LedgerRows
    BY <1>1, <1>4, <1>23, <2>1 DEF TriageMarker, Phases
  <2>3. RunsTyped(run')
    BY <1>1, <1>23, <2>1, GotoTyped DEF TriageMarker, Pcs
  <2> QED
    BY <1>1, <1>23, <2>2, <2>3, TypeNext DEF TriageMarker
<1>24. CASE Close(t)
  <2>1. run[t] # Idle
    BY <1>24, AtBusy DEF Close
  <2>2. job' \in [Wakes -> J!Rows]
    BY <1>1, <1>3, <1>24, <2>1, RowEndsTyped DEF Close
  <2>3. RunsTyped(run')
    BY <1>1, <1>24, <2>1, EndsTyped, GotoTyped DEF Close, Pcs
  <2> QED
    BY <1>1, <1>24, <2>2, <2>3, TypeNext DEF Close
<1>25. CASE Debit(t)
  <2>1. run[t] # Idle
    BY <1>25, AtBusy DEF Debit
  <2>2. inst' \in [metered : BOOLEAN, balance : Int] /\ debits' \in [Wakes -> Nat]
    BY <1>1, <1>3, <1>25, <2>1 DEF Debit
  <2>3. RunsTyped(run')
    BY <1>1, <1>25, EndsTyped DEF Debit
  <2> QED
    BY <1>1, <1>25, <2>2, <2>3, TypeNext DEF Debit
<1> QED
  BY <1>5, <1>6, <1>7, <1>8, <1>9, <1>10, <1>12, <1>13, <1>14, <1>15, <1>16, <1>17,
     <1>18, <1>19, <1>20, <1>21, <1>22, <1>23, <1>24, <1>25 DEF RunStep

\* A claim and a recovery keep them.
LEMMA TypeRows ==
    ASSUME TypeInv, NEW w \in Wakes,
           (\E t \in Workers : Claim(t, w)) \/ Recover(w) \/ Deliver(w) \/ LeaseExpires(w)
    PROVE  TypeInv'
<1>1. /\ job \in [Wakes -> J!Rows] /\ ledger \subseteq LedgerRows
      /\ builder \in [Rounds -> {"absent", "active", "done"}]
      /\ inst \in [metered : BOOLEAN, balance : Int]
      /\ gh \in [head : Heads, merged : Heads \cup {0}, lane : BOOLEAN]
      /\ RunsTyped(run)
      /\ orders \in [Wakes -> SUBSET Rounds] /\ debits \in [Wakes -> Nat]
      /\ spent \in [deliveries : Nat, lapses : Nat, faults : Nat]
  BY TypeParts
<1>2. job[w] \in J!Rows
  BY <1>1
<1>3. ASSUME NEW t \in Workers, Claim(t, w) PROVE TypeInv'
  <2> DEFINE r == [Idle EXCEPT !.pc = "gate", !.wake = w]
  <2>1. r \in Busy /\ r.pc = "gate"
    BY ZeroRound DEF Idle, Busy, Pcs
  <2>2. run' = [run EXCEPT ![t] = r]
    BY <1>3 DEF Claim
  <2>3. RunsTyped(run')
    <3> HIDE DEF r
    <3> QED
      BY <1>1, <2>1, <2>2, RunWrite
  <2>4. job' \in [Wakes -> J!Rows]
    BY <1>1, <1>2, <1>3, RowsClosed DEF Claim
  <2> QED
    BY <1>1, <1>3, <2>3, <2>4, TypeNext DEF Claim
<1>4. CASE Recover(w)
  <2>1. J!Recovered(job[w]) \in J!Rows
    BY <1>2, RowsClosed
  <2>2. J!Parked(J!Recovered(job[w])) \in J!Rows
    BY <2>1, RowsClosed
  <2>3. job' \in [Wakes -> J!Rows]
    BY <1>1, <1>4, <2>1, <2>2 DEF Recover
  <2> QED
    BY <1>1, <1>4, <2>3, TypeNext DEF Recover
<1>5. CASE Deliver(w)
  <2>1. J!Created(job[w], TRUE) \in J!Rows
    BY <1>2, RowsClosed
  <2> QED
    <3> DEFINE r == J!Created(job[w], TRUE)
    <3>1. job' = [job EXCEPT ![w] = r]
      BY <1>5, Zenon DEF Deliver
    <3>2. spent' \in [deliveries : Nat, lapses : Nat, faults : Nat]
      BY <1>1, <1>5 DEF Deliver
    <3> HIDE DEF r
    <3>3. job' \in [Wakes -> J!Rows]
      BY <1>1, <2>1, <3>1 DEF r
    <3> QED
      BY <1>1, <1>5, <3>2, <3>3, TypeNext DEF Deliver
<1>6. CASE LeaseExpires(w)
  <2>1. J!Lapsed(job[w]) \in J!Rows
    BY <1>2, RowsClosed
  <2>2. spent' \in [deliveries : Nat, lapses : Nat, faults : Nat]
    BY <1>1, <1>6 DEF LeaseExpires
  <2> QED
    BY <1>1, <1>6, <2>1, <2>2, TypeNext DEF LeaseExpires
<1> QED
  BY <1>3, <1>4, <1>5, <1>6

\* So does everything else of the environment.
LEMMA TypeWorld ==
    ASSUME TypeInv,
           \/ \E t \in Workers : RunRaises(t) \/ RenewLease(t)
           \/ \E r \in Rounds : BuilderFinishes(r)
           \/ Crash \/ Push \/ AdvisorDecides
    PROVE  TypeInv'
<1>1. /\ job \in [Wakes -> J!Rows] /\ ledger \subseteq LedgerRows
      /\ builder \in [Rounds -> {"absent", "active", "done"}]
      /\ inst \in [metered : BOOLEAN, balance : Int]
      /\ gh \in [head : Heads, merged : Heads \cup {0}, lane : BOOLEAN]
      /\ RunsTyped(run)
      /\ orders \in [Wakes -> SUBSET Rounds] /\ debits \in [Wakes -> Nat]
      /\ spent \in [deliveries : Nat, lapses : Nat, faults : Nat]
  BY TypeParts
<1>2. Faults => spent' \in [deliveries : Nat, lapses : Nat, faults : Nat]
  BY <1>1 DEF Faults
<1>3. ASSUME NEW t \in Workers, RunRaises(t) PROVE TypeInv'
  <2>1. RunsTyped(run')
    BY <1>1, <1>3, EndsTyped DEF RunRaises
  <2> QED
    BY <1>1, <1>2, <1>3, <2>1, TypeNext DEF RunRaises
<1>4. ASSUME NEW t \in Workers, RenewLease(t) PROVE TypeInv'
  <2>1. run[t] # Idle
    BY <1>4, AtBusy DEF RenewLease
  <2>2. run[t].wake \in Wakes
    BY <2>1, BusyRun DEF TypeInv
  <2>3. J!Renewed(job[run[t].wake]) \in J!Rows
    BY <1>1, <2>2, RowsClosed
  <2>4. job' \in [Wakes -> J!Rows]
    BY <1>1, <1>4, <2>3 DEF RenewLease
  <2> QED
    BY <1>1, <1>4, <2>4, TypeNext DEF RenewLease
<1>5. ASSUME NEW r \in Rounds, BuilderFinishes(r) PROVE TypeInv'
  BY <1>1, <1>5, TypeNext DEF BuilderFinishes
<1>6. CASE Crash
  <2>1. RunsTyped(run')
    <3>1. Idle.pc = "idle" /\ run' = [t \in Workers |-> Idle]
      BY <1>6 DEF Crash, Idle
    <3> QED
      BY <3>1 DEF RunsTyped
  <2> QED
    BY <1>1, <1>2, <1>6, <2>1, TypeNext DEF Crash
<1>7. CASE Push
  <2>1. gh' \in [head : Heads, merged : Heads \cup {0}, lane : BOOLEAN]
    BY <1>1, <1>7 DEF Push
  <2> QED
    BY <1>1, <1>7, <2>1, TypeNext DEF Push
<1>8. CASE AdvisorDecides
  <2>1. PICK row \in ledger, p \in {"escalated", "parked"} :
            /\ ledger' = (ledger \ {m \in ledger : m.phase = "escalating"})
                             \cup {Row(p, <<row.head, FALSE>>, 0)}
            /\ UNCHANGED <<job, builder, inst, gh, run, orders, debits, spent>>
    BY <1>8 DEF AdvisorDecides
  <2>2. row.head \in Heads \cup {0} /\ p \in Phases
    BY <1>1 DEF LedgerRows, Phases
  <2>3. Row(p, <<row.head, FALSE>>, 0) \in LedgerRows
    BY <2>2, ZeroRound, RowTyped
  <2>4. ledger' \subseteq LedgerRows
    BY <1>1, <2>1, <2>3
  <2> QED
    BY <1>1, <2>1, <2>4, TypeNext
<1> QED
  BY <1>3, <1>4, <1>5, <1>6, <1>7, <1>8

\* No step leaves the types.
LEMMA TypeStep == TypeInv /\ [Next]_vars => TypeInv'
<1> SUFFICES ASSUME TypeInv, [Next]_vars PROVE TypeInv'
  OBVIOUS
<1>1. CASE UNCHANGED vars
  BY <1>1 DEF vars, TypeInv, TypeOK, PhasesKnown, At
<1>2. CASE Next
  BY <1>2, TypeRun, TypeRows, TypeWorld DEF Next, Environment
<1> QED
  BY <1>1, <1>2

\* Every state variable of a PR's verdicts keeps its type: rows are rows,
\* rounds stay within bounces_before_escalation and a run that orders one has
\* a round that triage may order (jobs.py, actions.py, neo_worker.py run_neo).
THEOREM TypeCorrect == Spec => []TypeOK
<1>1. TypeInv => TypeOK
  BY DEF TypeInv
<1> QED
  BY <1>1, TypeInit, TypeStep, PTL DEF Spec

-----------------------------------------------------------------------------
(* What a step of a run does to the run.                                   *)

\* The places of a run that has not come to its phase row yet.
Early == {"evidence", "agent", "merge", "call", "bounce", "order"}

\* The run of t goes on to r: it stays with its wake, comes to the merge with
\* authority, to a builder phase from its order, to the marker from its phase
\* row and past the gate from the credit gate; its row is written only when
\* it ends or closes.
Moved(t, r) ==
    /\ r = Idle \/ (r.pc \in Pcs /\ r.wake = run[t].wake)
    /\ r.pc \in {"merge", "call"} => r.auth \/ (At(t, "merge") /\ r.auth = run[t].auth)
    /\ r.pc = "phase" /\ r.phase = "builder" => Order(t) /\ r.round = run[t].round
    /\ r.pc = "marker" => PhaseRow(t) /\ ~gh.lane
    /\ r.pc \in Early => CreditGate(t) \/ run[t].pc \in Early
    /\ r.pc \notin {"idle", "debit"} => UNCHANGED job
    /\ r.pc # "gate"
    /\ r.pc = "close" => RestoreMarker(t) \/ TriageMarker(t)
    /\ r.pc = "debit" => inst.metered /\ At(t, "close") /\ run[t].phase # "none"

\* Every step of a run is such a move.
LEMMA RunMoves ==
    ASSUME TypeInv, NEW t \in Workers, RunStep(t)
    PROVE  /\ run[t] \in Busy
           /\ \E r : run' = [run EXCEPT ![t] = r] /\ Moved(t, r)
<1> DEFINE Goal == \E r : run' = [run EXCEPT ![t] = r] /\ Moved(t, r)
<1>0. run[t] # Idle
  BY AtBusy DEF RunStep, Drop, DuplicateVerdict, RestoreMarker, CreditGate, StaleHead, Hold,
     LaneGate, StartAgent, AgentFails, AgentAnswers, MergeReads, MergeCall, BounceParks,
     BounceEscalates, BounceOrders, Order, PhaseRow, TriageMarker, Close, Debit
<1>1. run[t] \in Busy /\ run[t].pc \in Pcs
  BY <1>0, TypeParts DEF RunsTyped, Busy
<1> SUFFICES Goal
  BY <1>1
<1>2. ASSUME Ends(t) PROVE Goal
  <2>1. Idle.pc = "idle"
    BY DEF Idle
  <2>2. Moved(t, Idle)
    BY <2>1 DEF Moved, Early
  <2> QED
    BY <1>2, <2>2 DEF Ends
<1>3. ASSUME NEW p, Comes(t, p), UNCHANGED job, p = "builder" => Order(t) PROVE Goal
  <2> DEFINE r == [run[t] EXCEPT !.pc = "phase", !.phase = p]
  <2>1. /\ r.pc = "phase" /\ r.phase = p /\ r.wake = run[t].wake
        /\ r.round = run[t].round /\ r.pc \in Pcs
    BY <1>1 DEF Busy, Pcs
  <2>2. run' = [run EXCEPT ![t] = r]
    BY <1>3 DEF Comes
  <2> HIDE DEF r
  <2>3. Moved(t, r)
    BY <1>3, <2>1 DEF Moved, Early
  <2> QED
    BY <2>2, <2>3
<1>4. ASSUME NEW pc \in Pcs \ {"phase", "gate"}, Goto(t, pc),
             pc = "debit" \/ UNCHANGED job,
             pc = "debit" => inst.metered /\ At(t, "close") /\ run[t].phase # "none",
             pc = "close" => RestoreMarker(t) \/ TriageMarker(t),
             pc \in {"merge", "call"} => run[t].auth \/ At(t, "merge"),
             pc = "marker" => PhaseRow(t) /\ ~gh.lane,
             pc \in Early => CreditGate(t) \/ run[t].pc \in Early
      PROVE  Goal
  <2> DEFINE r == [run[t] EXCEPT !.pc = pc]
  <2>1. r.pc = pc /\ r.auth = run[t].auth /\ r.wake = run[t].wake
    BY <1>1 DEF Busy
  <2>2. run' = [run EXCEPT ![t] = r]
    BY <1>4 DEF Goto
  <2> HIDE DEF r
  <2>3. Moved(t, r)
    BY <1>4, <2>1 DEF Moved
  <2> QED
    BY <2>2, <2>3
<1>5. ASSUME NEW pc \in {"merge", "agent"}, NEW auth \in BOOLEAN, pc = "merge" => auth,
             At(t, "evidence"), UNCHANGED job,
             run' = [run EXCEPT ![t].pc = pc, ![t].auth = auth]
      PROVE  Goal
  <2> DEFINE r == [run[t] EXCEPT !.pc = pc, !.auth = auth]
  <2>1. r.pc = pc /\ r.auth = auth /\ r.wake = run[t].wake
    BY <1>1 DEF Busy
  <2>2. run' = [run EXCEPT ![t] = r]
    BY <1>5
  <2> HIDE DEF r
  <2>3. Moved(t, r)
    BY <1>5, <2>1 DEF Moved, At, Early, Pcs
  <2> QED
    BY <2>2, <2>3
<1> HIDE DEF Goal
<1>6. CASE Drop(t) \/ DuplicateVerdict(t) \/ StaleHead(t) \/ Hold(t) \/ AgentFails(t) \/ Debit(t)
  BY <1>2, <1>6 DEF Drop, DuplicateVerdict, StaleHead, Hold, AgentFails, Debit
<1>7. CASE RestoreMarker(t) \/ TriageMarker(t)
  <2>1. Goto(t, "close") /\ UNCHANGED job
    BY <1>7 DEF RestoreMarker, TriageMarker
  <2> QED
    BY <1>4, <1>7, <2>1 DEF Pcs, Early
<1>8. CASE CreditGate(t)
  <2>1. Ends(t) \/ (Goto(t, "evidence") /\ UNCHANGED job)
    BY <1>8 DEF CreditGate
  <2> QED
    BY <1>2, <1>4, <1>8, <2>1 DEF Pcs
<1>9. CASE LaneGate(t) \/ \E auth \in BOOLEAN : StartAgent(t, auth)
  BY <1>5, <1>9 DEF LaneGate, StartAgent
<1>10. CASE AgentAnswers(t)
  <2>1. /\ \/ (run[t].auth /\ Goto(t, "merge"))
           \/ Goto(t, "bounce")
           \/ Comes(t, "ready")
        /\ UNCHANGED job /\ run[t].pc \in Early
    BY <1>10 DEF AgentAnswers, Comes, At, Early
  <2> QED
    BY <1>3, <1>4, <2>1 DEF Pcs
<1>11. CASE MergeReads(t)
  <2>1. /\ Comes(t, "stale_head") \/ Comes(t, "ready") \/ Goto(t, "call")
        /\ UNCHANGED job /\ At(t, "merge") /\ run[t].pc \in Early
    BY <1>11 DEF MergeReads, At, Early
  <2> QED
    BY <1>3, <1>4, <2>1 DEF Pcs
<1>12. CASE MergeCall(t)
  <2>1. /\ \E p \in {"merged", "ready", "stale_head"} : Comes(t, p)
        /\ UNCHANGED job
    BY <1>12 DEF MergeCall
  <2> QED
    BY <1>3, <2>1
<1>13. CASE BounceParks(t) \/ BounceEscalates(t)
  <2>1. /\ \E p \in {"escalating", "parked"} : Comes(t, p)
        /\ UNCHANGED job
    BY <1>13 DEF BounceParks, BounceEscalates
  <2> QED
    BY <1>3, <2>1
<1>14. CASE BounceOrders(t)
  <2> DEFINE r == [run[t] EXCEPT !.pc = "order", !.round = NextRound]
  <2>1. r.pc = "order" /\ r.wake = run[t].wake
    BY <1>1 DEF Busy
  <2>2. run' = [run EXCEPT ![t] = r] /\ UNCHANGED job /\ run[t].pc \in Early
    BY <1>14 DEF BounceOrders, At, Early
  <2> HIDE DEF r
  <2>3. Moved(t, r)
    BY <2>1, <2>2 DEF Moved, Pcs
  <2> QED
    BY <2>2, <2>3 DEF Goal
<1>15. CASE Order(t)
  <2>1. Comes(t, "builder") /\ UNCHANGED job
    BY <1>15 DEF Order
  <2> QED
    BY <1>3, <1>15, <2>1
<1>16. CASE PhaseRow(t)
  <2>1. \/ Ends(t)
        \/ (Goto(t, "marker") /\ ~gh.lane /\ UNCHANGED job)
    BY <1>16 DEF PhaseRow
  <2> QED
    BY <1>2, <1>4, <1>16, <2>1 DEF Pcs, Early
<1>17. CASE Close(t)
  <2>1. \/ Ends(t)
        \/ (Goto(t, "debit") /\ inst.metered /\ At(t, "close") /\ run[t].phase # "none")
    BY <1>17 DEF Close
  <2> QED
    BY <1>2, <1>4, <2>1 DEF Pcs, Early
<1> QED
  BY <1>6, <1>7, <1>8, <1>9, <1>10, <1>11, <1>12, <1>13, <1>14, <1>15, <1>16, <1>17 DEF RunStep

\* A step that is not a run's leaves every run alone, ends it, or starts one
\* at the gate.
LEMMA OtherMoves ==
    ASSUME TypeInv, [Next]_vars, ~\E t \in Workers : RunStep(t)
    PROVE  \A t \in Workers :
              \/ run'[t] = run[t]
              \/ run'[t] = Idle
              \/ (run'[t].pc = "gate" /\ \E w \in Wakes : Claim(t, w) /\ run'[t].wake = w)
<1> SUFFICES ASSUME NEW t \in Workers
             PROVE  \/ run'[t] = run[t]
                    \/ run'[t] = Idle
                    \/ (run'[t].pc = "gate" /\ \E w \in Wakes : Claim(t, w) /\ run'[t].wake = w)
  OBVIOUS
<1>1. run \in [Workers -> {Idle} \cup Busy]
  BY TypeParts DEF RunsTyped
<1>2. CASE UNCHANGED run
  BY <1>2
<1>3. CASE Crash
  BY <1>3 DEF Crash
<1>4. ASSUME NEW u \in Workers, RunRaises(u) PROVE run'[t] = run[t] \/ run'[t] = Idle
  BY <1>1, <1>4 DEF RunRaises, Ends
<1>5. ASSUME NEW u \in Workers, NEW w \in Wakes, Claim(u, w)
      PROVE  \/ run'[t] = run[t]
             \/ (run'[t].pc = "gate" /\ Claim(t, w) /\ run'[t].wake = w)
  <2> DEFINE r == [Idle EXCEPT !.pc = "gate", !.wake = w]
  <2>1. r.pc = "gate" /\ r.wake = w
    BY DEF Idle
  <2>2. run' = [run EXCEPT ![u] = r]
    BY <1>5 DEF Claim
  <2> HIDE DEF r
  <2> QED
    BY <1>1, <1>5, <2>1, <2>2
<1>6. \/ UNCHANGED run \/ Crash \/ \E u \in Workers : RunRaises(u)
      \/ \E u \in Workers, w \in Wakes : Claim(u, w)
  BY DEF Next, Environment, vars, RenewLease, Deliver, LeaseExpires, BuilderFinishes, Push,
     AdvisorDecides, Recover
<1> QED
  BY <1>2, <1>3, <1>4, <1>5, <1>6

-----------------------------------------------------------------------------
(* A merge needs the authority read with its own head's evidence.          *)

\* Only a run with authority is on its way to the merge call.
AuthInv == \A t \in Workers : At(t, "merge") \/ At(t, "call") => run[t].auth

\* No step brings a run there without it.
LEMMA AuthStep == TypeInv /\ AuthInv /\ [Next]_vars => AuthInv'
<1> SUFFICES ASSUME TypeInv, AuthInv, [Next]_vars PROVE AuthInv'
  OBVIOUS
<1>1. run \in [Workers -> {Idle} \cup Busy]
  BY TypeParts DEF RunsTyped
<1>2. ASSUME NEW t \in Workers, RunStep(t) PROVE AuthInv'
  <2>1. PICK r : run' = [run EXCEPT ![t] = r] /\ Moved(t, r)
    BY <1>2, RunMoves
  <2>2. r.pc \in {"merge", "call"} => r.auth
    BY <2>1 DEF Moved, AuthInv
  <2> QED
    BY <1>1, <2>1, <2>2 DEF AuthInv, At
<1>3. CASE ~\E t \in Workers : RunStep(t)
  <2>1. Idle.pc = "idle"
    BY DEF Idle
  <2> QED
    BY <1>3, <2>1, OtherMoves DEF AuthInv, At
<1> QED
  BY <1>2, <1>3

\* The merged head changes in a merge call of a run that read this head.
LEMMA MergeStep ==
    ASSUME TypeInv, AuthInv, [Next]_vars, gh'.merged # gh.merged
    PROVE  \E t \in Workers : At(t, "call") /\ run[t].auth /\ run[t].wake[1] = gh'.merged
<1>1. gh \in [head : Heads, merged : Heads \cup {0}, lane : BOOLEAN]
  BY TypeParts
<1>2. ~Push
  BY SMTT(40), <1>1 DEF Push
<1>3. PICK t \in Workers : MergeCall(t)
  BY ZenonT(60), <1>2 DEF Next, RunStep, Environment, vars, Drop, DuplicateVerdict,
     RestoreMarker, CreditGate,
     StaleHead, Hold, LaneGate, StartAgent, AgentFails, AgentAnswers, MergeReads, BounceParks,
     BounceEscalates, BounceOrders, Order, PhaseRow, TriageMarker, Close, Debit, Claim, Recover,
     RunRaises, RenewLease, Deliver, LeaseExpires, BuilderFinishes, Crash, AdvisorDecides
<1>4. At(t, "call") /\ OnHead(t) /\ gh' = [gh EXCEPT !.merged = gh.head]
  BY <1>3 DEF MergeCall, Mergeable
<1> QED
  BY <1>1, <1>4 DEF OnHead, AuthInv

\* What is merged is the head on which the merging run found its evidence
\* complete, whatever was pushed while its agent ran (merge_executor.py, merge).
THEOREM MergedGreen == Spec => MergedHeadWasGreen
<1>1. Init => AuthInv
  BY DEF Init, AuthInv, At, Idle
<1>2. TypeInv /\ AuthInv /\ [Next]_vars
      => [gh'.merged # gh.merged =>
             \E t \in Workers : /\ At(t, "call") /\ run[t].auth
                                /\ run[t].wake[1] = gh'.merged]_vars
  BY MergeStep
<1> QED
  BY <1>1, <1>2, TypeInit, TypeStep, AuthStep, PTL DEF Spec, MergedHeadWasGreen

-----------------------------------------------------------------------------
(* The triage marker vouches.                                              *)

\* What the marker of head h and colour c vouches for.
Vouched(h, c, rows, rounds) ==
    \E row \in rows :
        /\ row.phase # "triage"
        /\ (row.head = h /\ row.green = c) \/ row.phase \in {"escalated", "parked"}
        /\ row.phase = "builder" => rounds[row.round] # "absent"

\* A builder phase, recorded or about to be, has its job; a marker, written or
\* about to be, has what it vouches for.
MarkInv ==
    /\ \A row \in ledger : row.phase = "builder" =>
          row.round \in Rounds /\ builder[row.round] # "absent"
    /\ \A t \in Workers : At(t, "phase") /\ run[t].phase = "builder" =>
          run[t].round \in Rounds /\ builder[run[t].round] # "absent"
    /\ \A row \in ledger : row.phase = "triage" => Vouched(row.head, row.green, ledger, builder)
    /\ \A t \in Workers : At(t, "marker") =>
          Vouched(run[t].wake[1], run[t].wake[2], ledger, builder)

\* A round is never deleted, and a phase row only when an advice is settled.
LEMMA LedgerGrows ==
    ASSUME TypeInv, [Next]_vars
    PROVE  /\ \A r \in Rounds : builder[r] # "absent" => builder'[r] # "absent"
           /\ \/ ledger \subseteq ledger'
              \/ \E row \in ledger' : row.phase \in {"escalated", "parked"}
<1>1. /\ builder \in [Rounds -> {"absent", "active", "done"}]
  BY TypeParts
<1>2. ASSUME NEW t \in Workers, Order(t)
      PROVE  \A r \in Rounds : builder[r] # "absent" => builder'[r] # "absent"
  BY <1>1, <1>2 DEF Order
<1>3. ASSUME NEW q \in Rounds, BuilderFinishes(q)
      PROVE  \A r \in Rounds : builder[r] # "absent" => builder'[r] # "absent"
  BY <1>1, <1>3 DEF BuilderFinishes
<1>4. ASSUME AdvisorDecides PROVE \E row \in ledger' : row.phase \in {"escalated", "parked"}
  <2>1. PICK row \in ledger, p \in {"escalated", "parked"} :
            ledger' = (ledger \ {m \in ledger : m.phase = "escalating"})
                          \cup {Row(p, <<row.head, FALSE>>, 0)}
    BY <1>4 DEF AdvisorDecides
  <2>2. Row(p, <<row.head, FALSE>>, 0).phase = p
    BY DEF Row
  <2> QED
    BY <2>1, <2>2
<1>5. \/ UNCHANGED builder \/ \E t \in Workers : Order(t)
      \/ \E r \in Rounds : BuilderFinishes(r)
  BY ZenonT(60) DEF Next, RunStep, Environment, vars, Drop, DuplicateVerdict, RestoreMarker,
     CreditGate,
     StaleHead, Hold, LaneGate, StartAgent, AgentFails, AgentAnswers, MergeReads, MergeCall,
     BounceParks, BounceEscalates, BounceOrders, PhaseRow, TriageMarker, Close, Debit, Claim,
     Recover, RunRaises, RenewLease, Deliver, LeaseExpires, Crash, Push, AdvisorDecides
<1>6. AdvisorDecides \/ ledger \subseteq ledger'
  BY ZenonT(60) DEF Next, RunStep, Environment, vars, Drop, DuplicateVerdict, RestoreMarker,
     CreditGate,
     StaleHead, Hold, LaneGate, StartAgent, AgentFails, AgentAnswers, MergeReads, MergeCall,
     BounceParks, BounceEscalates, BounceOrders, Order, PhaseRow, TriageMarker, Close, Debit, Claim,
     Recover, RunRaises, RenewLease, Deliver, LeaseExpires, BuilderFinishes, Crash, Push
<1> QED
  BY <1>2, <1>3, <1>4, <1>5, <1>6

\* What is vouched for once stays vouched for.
LEMMA VouchedStays ==
    ASSUME TypeInv, MarkInv, [Next]_vars, NEW h, NEW c, Vouched(h, c, ledger, builder)
    PROVE  Vouched(h, c, ledger', builder')
<1>1. CASE ledger \subseteq ledger'
  <2>1. PICK row \in ledger :
            /\ row.phase # "triage"
            /\ (row.head = h /\ row.green = c) \/ row.phase \in {"escalated", "parked"}
            /\ row.phase = "builder" => builder[row.round] # "absent"
    BY DEF Vouched
  <2>2. row.phase = "builder" => builder'[row.round] # "absent"
    BY <2>1, LedgerGrows DEF MarkInv
  <2> QED
    BY <1>1, <2>1, <2>2 DEF Vouched
<1>2. CASE \E row \in ledger' : row.phase \in {"escalated", "parked"}
  BY <1>2 DEF Vouched
<1> QED
  BY <1>1, <1>2, LedgerGrows

\* Where a builder row and a triage row come from.
LEMMA NewRows ==
    ASSUME TypeInv, [Next]_vars, NEW row \in ledger', row \notin ledger
    PROVE  /\ row.phase = "builder" => \E t \in Workers :
                 /\ PhaseRow(t) /\ run[t].phase = "builder"
                 /\ row = Row("builder", run[t].wake, run[t].round)
           /\ row.phase = "triage" => \E t \in Workers :
                 /\ RestoreMarker(t) \/ TriageMarker(t)
                 /\ row = Row("triage", run[t].wake, 0)
<1>1. \A p, w, n : Row(p, w, n).phase = p
  BY DEF Row
<1>2. ASSUME NEW t \in Workers, BounceParks(t) \/ BounceEscalates(t)
      PROVE  row.phase \in {"escalating", "parked"}
  <2>1. \E p \in {"escalating", "parked"} : \E w, n : ledger' = ledger \cup {Row(p, w, n)}
    BY <1>2 DEF BounceParks, BounceEscalates
  <2> QED
    BY <1>1, <2>1
<1>3. ASSUME NEW t \in Workers, RestoreMarker(t) \/ TriageMarker(t)
      PROVE  row = Row("triage", run[t].wake, 0)
  BY <1>3 DEF RestoreMarker, TriageMarker
<1>4. ASSUME NEW t \in Workers, PhaseRow(t)
      PROVE  \/ row.phase = "merged"
             \/ row = Row(run[t].phase, run[t].wake, run[t].round)
  <2>1. \/ ledger' = ledger
        \/ ledger' = ledger \cup {Row("merged", <<run[t].wake[1], FALSE>>, 0)}
        \/ ledger' = ledger \cup {Row(run[t].phase, run[t].wake, run[t].round)}
    BY <1>4 DEF PhaseRow
  <2> QED
    BY <1>1, <2>1
<1>5. ASSUME NEW t \in Workers, PhaseRow(t) PROVE run[t].phase # "triage"
  BY <1>5, TypeParts DEF PhaseRow, At, RunsTyped
<1>6. ASSUME AdvisorDecides PROVE row.phase \in {"escalated", "parked"}
  <2>1. PICK m \in ledger, p \in {"escalated", "parked"} :
            ledger' = (ledger \ {x \in ledger : x.phase = "escalating"})
                          \cup {Row(p, <<m.head, FALSE>>, 0)}
    BY <1>6 DEF AdvisorDecides
  <2> QED
    BY <1>1, <2>1
<1>7. \/ AdvisorDecides
      \/ \E t \in Workers : \/ BounceParks(t) \/ BounceEscalates(t)
                            \/ RestoreMarker(t) \/ TriageMarker(t) \/ PhaseRow(t)
  BY DEF Next, RunStep, Environment, vars, Drop, DuplicateVerdict, CreditGate,
     StaleHead, Hold, LaneGate, StartAgent, AgentFails, AgentAnswers, MergeReads, MergeCall,
     BounceOrders, Order, Close, Debit, Claim,
     Recover, RunRaises, RenewLease, Deliver, LeaseExpires, BuilderFinishes, Crash, Push
<1>8. ASSUME row.phase = "builder"
      PROVE  \E t \in Workers : /\ PhaseRow(t) /\ run[t].phase = "builder"
                                /\ row = Row("builder", run[t].wake, run[t].round)
  BY <1>1, <1>2, <1>3, <1>4, <1>6, <1>7, <1>8
<1>9. ASSUME row.phase = "triage"
      PROVE  \E t \in Workers : /\ RestoreMarker(t) \/ TriageMarker(t)
                                /\ row = Row("triage", run[t].wake, 0)
  BY <1>1, <1>2, <1>3, <1>4, <1>5, <1>6, <1>7, <1>9
<1> QED
  BY <1>8, <1>9

\* A phase row is written with what the run has.
LEMMA PhaseVouches ==
    ASSUME TypeInv, MarkInv, NEW t \in Workers, PhaseRow(t), ~gh.lane
    PROVE  Vouched(run[t].wake[1], run[t].wake[2], ledger', builder')
<1> DEFINE row == Row(run[t].phase, run[t].wake, run[t].round)
<1>1. row \in ledger' /\ builder' = builder /\ At(t, "phase")
  BY DEF PhaseRow
<1>2. /\ row.phase = run[t].phase /\ row.head = run[t].wake[1]
      /\ row.green = run[t].wake[2] /\ row.round = run[t].round
  BY DEF Row
<1>3. row.phase # "triage"
  BY <1>1, <1>2, TypeParts DEF RunsTyped, At
<1>4. row.phase = "builder" => builder[row.round] # "absent"
  BY <1>1, <1>2 DEF MarkInv
<1> QED
  BY <1>1, <1>2, <1>3, <1>4 DEF Vouched

\* No step writes a marker that does not vouch.
LEMMA MarkStep == TypeInv /\ MarkInv /\ [Next]_vars => MarkInv'
<1> SUFFICES ASSUME TypeInv, MarkInv, [Next]_vars PROVE MarkInv'
  OBVIOUS
<1>1. run \in [Workers -> {Idle} \cup Busy] /\ Idle.pc = "idle"
  BY TypeParts DEF RunsTyped, Idle
<1>2. ASSUME NEW row \in ledger', row.phase = "builder"
      PROVE  row.round \in Rounds /\ builder'[row.round] # "absent"
  <2>1. CASE row \in ledger
    BY <1>2, <2>1, LedgerGrows DEF MarkInv
  <2>2. CASE row \notin ledger
    <3>1. PICK t \in Workers : /\ PhaseRow(t) /\ run[t].phase = "builder"
                              /\ row = Row("builder", run[t].wake, run[t].round)
      BY <1>2, <2>2, NewRows
    <3>2. At(t, "phase") /\ row.round = run[t].round
      BY <3>1 DEF PhaseRow, Row
    <3> QED
      BY <3>1, <3>2, LedgerGrows DEF MarkInv
  <2> QED
    BY <2>1, <2>2
<1>3. ASSUME NEW row \in ledger', row.phase = "triage"
      PROVE  Vouched(row.head, row.green, ledger', builder')
  <2>1. CASE row \in ledger
    BY <1>3, <2>1, VouchedStays DEF MarkInv
  <2>2. CASE row \notin ledger
    <3>1. PICK t \in Workers : /\ RestoreMarker(t) \/ TriageMarker(t)
                              /\ row = Row("triage", run[t].wake, 0)
      BY <1>3, <2>2, NewRows
    <3>2. row.head = run[t].wake[1] /\ row.green = run[t].wake[2]
      BY <3>1 DEF Row
    <3>3. CASE TriageMarker(t)
      BY <3>2, <3>3, VouchedStays DEF TriageMarker, MarkInv
    <3>4. CASE RestoreMarker(t)
      <4>1. PICK old \in ledger :
                /\ old.phase \in {"builder", "ready", "escalated", "escalating"}
                /\ old.head = run[t].wake[1] /\ old.green = run[t].wake[2]
        BY <3>4 DEF RestoreMarker, HalfDone, ActedOn
      <4>2. Vouched(row.head, row.green, ledger, builder)
        BY <3>2, <4>1 DEF MarkInv, Vouched
      <4> QED
        BY <4>2, VouchedStays
    <3> QED
      BY <3>1, <3>3, <3>4
  <2> QED
    BY <2>1, <2>2
<1>4. ASSUME NEW u \in Workers, run'[u] = run[u]
      PROVE  /\ run'[u].pc = "phase" /\ run'[u].phase = "builder" =>
                    run'[u].round \in Rounds /\ builder'[run'[u].round] # "absent"
             /\ run'[u].pc = "marker" =>
                    Vouched(run'[u].wake[1], run'[u].wake[2], ledger', builder')
  BY <1>4, LedgerGrows, VouchedStays DEF MarkInv, At
<1>5. ASSUME NEW t \in Workers, RunStep(t)
      PROVE  /\ run'[t].pc = "phase" /\ run'[t].phase = "builder" =>
                    run'[t].round \in Rounds /\ builder'[run'[t].round] # "absent"
             /\ run'[t].pc = "marker" =>
                    Vouched(run'[t].wake[1], run'[t].wake[2], ledger', builder')
             /\ \A u \in Workers : u # t => run'[u] = run[u]
  <2>1. PICK r : run' = [run EXCEPT ![t] = r] /\ Moved(t, r)
    BY <1>5, RunMoves
  <2>2. run'[t] = r /\ \A u \in Workers : u # t => run'[u] = run[u]
    BY <1>1, <2>1
  <2>3. ASSUME r.pc = "phase", r.phase = "builder"
        PROVE  r.round \in Rounds /\ builder'[r.round] # "absent"
    <3>1. Order(t) /\ r.round = run[t].round
      BY <2>1, <2>3 DEF Moved
    <3>2. run[t].round \in Rounds /\ builder \in [Rounds -> {"absent", "active", "done"}]
      BY <3>1, TypeParts DEF Order, At, RunsTyped
    <3>3. builder' = [builder EXCEPT ![run[t].round] = "active"]
      BY <3>1 DEF Order
    <3> QED
      BY <3>1, <3>2, <3>3
  <2>4. ASSUME r.pc = "marker" PROVE Vouched(r.wake[1], r.wake[2], ledger', builder')
    <3>1. PhaseRow(t) /\ ~gh.lane /\ r.wake = run[t].wake
      BY <1>1, <2>1, <2>4 DEF Moved
    <3> QED
      BY <3>1, PhaseVouches
  <2> QED
    BY <2>2, <2>3, <2>4
<1>6. \A u \in Workers :
          /\ run'[u].pc = "phase" /\ run'[u].phase = "builder" =>
                    run'[u].round \in Rounds /\ builder'[run'[u].round] # "absent"
          /\ run'[u].pc = "marker" =>
                    Vouched(run'[u].wake[1], run'[u].wake[2], ledger', builder')
  <2>1. CASE \E t \in Workers : RunStep(t)
    BY <1>4, <1>5, <2>1
  <2>2. CASE ~\E t \in Workers : RunStep(t)
    BY <1>1, <1>4, <2>2, OtherMoves
  <2> QED
    BY <2>1, <2>2
<1> QED
  BY <1>2, <1>3, <1>6 DEF MarkInv, At

\* The triage marker of a head and colour vouches for its phase row, and a
\* builder phase row for its job, whatever died or lapsed before
\* (neo_worker.py, run_neo: "The triage marker goes LAST").
THEOREM MarkersVouch == Spec => []MarkerVouches
<1>1. ASSUME Init PROVE MarkInv
  <2>1. PICK n \in PriorRounds : /\ ledger = {Row("builder", <<0, FALSE>>, r) : r \in 1..n}
                                 /\ builder = [r \in Rounds |-> IF r <= n THEN "done" ELSE "absent"]
    BY <1>1 DEF Init
  <2>2. n \in 0..Bounces /\ \A r \in 1..n : r \in Rounds /\ builder[r] = "done"
    BY <2>1, BoundsAssumption DEF Rounds
  <2>3. \A row \in ledger : row.phase = "builder" /\ row.round \in Rounds
                            /\ builder[row.round] # "absent"
    BY <2>1, <2>2 DEF Row
  <2>4. \A t \in Workers : run[t].pc = "idle"
    BY <1>1 DEF Init, Idle
  <2> QED
    BY <2>3, <2>4 DEF MarkInv, At
<1>2. MarkInv => MarkerVouches
  BY DEF MarkInv, MarkerVouches, Vouched
<1> QED
  BY <1>1, <1>2, TypeInit, TypeStep, MarkStep, PTL DEF Spec

-----------------------------------------------------------------------------
(* A verdict whose round is on record orders no other.                     *)

\* The row is held by t under a live lease.
Mine(row, t) == row.state = "running" /\ row.token = t /\ row.lease = "live"

\* The round of a verdict is on record.
Noted(w, rows) == \E row \in rows : row.phase = "builder" /\ row.head = w[1] /\ row.green = w[2]

\* As long as no lease lapsed under a run, every run holds its row until it
\* closes it, so that between its gate and its phase row nobody else can
\* have recorded a round for its verdict.
OnceInv ==
    spent.lapses = 0 =>
        \A t \in Workers :
            /\ run[t].pc \notin {"idle", "debit"} => Mine(job[run[t].wake], t)
            /\ run[t].pc \in Early => ~Noted(run[t].wake, ledger)

\* Lapses are never taken back.
LEMMA LapsesGrow ==
    ASSUME TypeInv, [Next]_vars, spent'.lapses = 0
    PROVE  spent.lapses = 0
<1>1. spent \in [deliveries : Nat, lapses : Nat, faults : Nat]
  BY TypeParts
<1>2. ASSUME Faults PROVE spent'.lapses = spent.lapses
  BY <1>1, <1>2 DEF Faults
<1>3. ASSUME NEW w \in Wakes, Deliver(w) PROVE spent'.lapses = spent.lapses
  <2>1. spent' = [spent EXCEPT !.deliveries = @ + 1]
    BY <1>3 DEF Deliver
  <2> QED
    BY <1>1, <2>1
<1>4. ASSUME NEW w \in Wakes, LeaseExpires(w)
      PROVE  spent'.lapses = spent.lapses \/ spent'.lapses = spent.lapses + 1
  BY SMTT(40), <1>1, <1>4 DEF LeaseExpires
<1>5. \/ Faults \/ UNCHANGED spent
      \/ \E w \in Wakes : Deliver(w) \/ LeaseExpires(w)
  BY DEF Next, RunStep, Environment, vars, Drop, DuplicateVerdict, RestoreMarker, CreditGate,
     StaleHead, Hold, LaneGate, StartAgent, AgentFails, AgentAnswers, MergeReads, MergeCall,
     BounceParks, BounceEscalates, BounceOrders, Order, PhaseRow, TriageMarker, Close, Debit, Claim,
     Recover, RunRaises, RenewLease, BuilderFinishes, Crash, Push, AdvisorDecides
<1>6. spent.lapses \in Nat
  BY <1>1
<1> QED
  BY <1>2, <1>3, <1>4, <1>5, <1>6

\* A run writes no row but its own, and this one only while it is its own.
LEMMA RunWritesOwn ==
    ASSUME TypeInv, NEW t \in Workers, RunStep(t), NEW w \in Wakes
    PROVE  job'[w] = job[w] \/ job[w].token = t
<1>1. job \in [Wakes -> J!Rows]
  BY TypeParts
<1>2. ASSUME NEW o, RowEnds(t, o) PROVE job'[w] = job[w] \/ job[w].token = t
  BY <1>1, <1>2 DEF RowEnds, J!HeldBy
<1>3. ASSUME RowRetried(t) PROVE job'[w] = job[w] \/ job[w].token = t
  BY <1>1, <1>3 DEF RowRetried, J!HeldBy
<1>4. ASSUME CreditGate(t) PROVE job'[w] = job[w] \/ job[w].token = t
  BY <1>1, <1>4 DEF CreditGate, J!ParkableBy
<1>5. \/ UNCHANGED job \/ RowRetried(t) \/ CreditGate(t)
      \/ \E o : RowEnds(t, o)
  BY DEF RunStep, Drop, DuplicateVerdict, RestoreMarker,
     StaleHead, Hold, LaneGate, StartAgent, AgentFails, AgentAnswers, MergeReads, MergeCall,
     BounceParks, BounceEscalates, BounceOrders, Order, PhaseRow, TriageMarker, Close, Debit
<1> QED
  BY <1>2, <1>3, <1>4, <1>5

\* Nobody else takes a row from a run that holds it.
LEMMA RowKept ==
    ASSUME TypeInv, [Next]_vars, spent'.lapses = spent.lapses,
           NEW u \in Workers, run[u].wake \in Wakes, Mine(job[run[u].wake], u), ~RunStep(u)
    PROVE  Mine(job'[run[u].wake], u)
<1> DEFINE w == run[u].wake
<1>1. job \in [Wakes -> J!Rows] /\ spent \in [deliveries : Nat, lapses : Nat, faults : Nat]
  BY TypeParts
<1>2. ASSUME NEW t \in Workers, RunStep(t) PROVE job'[w] = job[w]
  BY <1>2, RunWritesOwn DEF Mine
<1>3. ASSUME NEW t \in Workers, NEW v \in Wakes, Claim(t, v) PROVE job'[w] = job[w]
  BY <1>1, <1>3 DEF Claim, J!Claimable, Mine
<1>4. ASSUME NEW v \in Wakes, Recover(v) PROVE job'[w] = job[w]
  BY <1>1, <1>4 DEF Recover, J!Recoverable, Mine
<1>5. ASSUME NEW v \in Wakes, Deliver(v) PROVE job'[w] = job[w]
  <2>1. v # w
    BY <1>5 DEF Deliver, J!Creatable, Mine
  <2>2. \E r : job' = [job EXCEPT ![v] = r]
    BY <1>5, Zenon DEF Deliver
  <2> QED
    BY <1>1, <2>1, <2>2
<1>6. ASSUME NEW v \in Wakes, LeaseExpires(v) PROVE job'[w] = job[w]
  <2>1. v # w
    <3>1. SUFFICES ASSUME v = w PROVE FALSE
      OBVIOUS
    <3>2. spent' = [spent EXCEPT !.lapses = @ + 1]
      BY <1>6, <3>1 DEF LeaseExpires, Worked
    <3>3. spent.lapses \in Nat /\ spent'.lapses = spent.lapses + 1
      BY <1>1, <3>2
    <3> QED
      BY <3>3
  <2> QED
    BY <1>1, <1>6, <2>1 DEF LeaseExpires
<1>7. ASSUME NEW t \in Workers, RenewLease(t) PROVE Mine(job'[w], u)
  <2>1. job' = [job EXCEPT ![run[t].wake] = J!Renewed(@)]
    BY <1>7 DEF RenewLease
  <2>2. job[w] \in J!Rows /\ (job'[w] = job[w] \/ job'[w] = J!Renewed(job[w]))
    BY <1>1, <2>1
  <2> QED
    BY <2>2 DEF Mine, J!Renewed, J!Rows
<1>8. \/ UNCHANGED job
      \/ \E t \in Workers : \/ RunStep(t) \/ RenewLease(t)
                            \/ \E v \in Wakes : Claim(t, v)
      \/ \E v \in Wakes : Recover(v) \/ Deliver(v) \/ LeaseExpires(v)
  BY DEF Next, Environment, vars, RunRaises, BuilderFinishes, Crash, Push, AdvisorDecides
<1> QED
  BY <1>2, <1>3, <1>4, <1>5, <1>6, <1>7, <1>8

\* Nobody else records a round for a verdict under way.
LEMMA FreshStays ==
    ASSUME TypeInv, OnceInv, [Next]_vars, spent.lapses = 0,
           NEW u \in Workers, run[u].pc \in Early
    PROVE  ~Noted(run[u].wake, ledger')
<1>1. SUFFICES ASSUME Noted(run[u].wake, ledger') PROVE FALSE
  OBVIOUS
<1>2. run[u] # Idle /\ run[u].pc \notin {"idle", "debit", "phase"}
  BY DEF Early, Idle
<1>3. PICK row \in ledger' : /\ row.phase = "builder" /\ row.head = run[u].wake[1]
                             /\ row.green = run[u].wake[2]
  BY <1>1 DEF Noted
<1>4. row \notin ledger
  BY <1>3 DEF OnceInv, Noted
<1>5. PICK t \in Workers : PhaseRow(t) /\ row = Row("builder", run[t].wake, run[t].round)
  BY <1>3, <1>4, NewRows
<1>6. run[t].pc = "phase" /\ run[t] # Idle
  BY <1>5, AtBusy DEF PhaseRow, At
<1>7. run[t].wake = run[u].wake
  <2>1. row.head = run[t].wake[1] /\ row.green = run[t].wake[2]
    BY <1>5 DEF Row
  <2> QED
    BY <1>2, <1>3, <1>6, <2>1, BusyRun DEF TypeInv
<1>8. t = u
  BY <1>2, <1>6, <1>7 DEF OnceInv, Mine
<1> QED
  BY <1>2, <1>6, <1>8

\* Every step keeps the hold, and the record clear.
LEMMA OnceStep == TypeInv /\ OnceInv /\ [Next]_vars => OnceInv'
<1> SUFFICES ASSUME TypeInv, OnceInv, [Next]_vars, spent'.lapses = 0, NEW u \in Workers
             PROVE  /\ run'[u].pc \notin {"idle", "debit"} => Mine(job'[run'[u].wake], u)
                    /\ run'[u].pc \in Early => ~Noted(run'[u].wake, ledger')
  BY DEF OnceInv
<1>1. spent.lapses = 0
  BY LapsesGrow
<1>2. run \in [Workers -> {Idle} \cup Busy] /\ Idle.pc = "idle"
  BY TypeParts DEF RunsTyped, Idle
<1>3. CASE run'[u] = Idle
  BY <1>2, <1>3 DEF Early
<1>4. CASE run'[u] = run[u] /\ ~RunStep(u) /\ run'[u] # Idle
  <2>1. run[u].wake \in Wakes
    BY <1>4, BusyRun DEF TypeInv
  <2>2. run[u].pc \notin {"idle", "debit"} => Mine(job'[run[u].wake], u)
    BY <1>1, <2>1, <1>4, RowKept DEF OnceInv
  <2>3. run[u].pc \in Early => ~Noted(run[u].wake, ledger')
    BY <1>1, FreshStays
  <2> QED
    BY <1>4, <2>2, <2>3
<1>5. CASE RunStep(u)
  <2>1. PICK r : run' = [run EXCEPT ![u] = r] /\ Moved(u, r)
    BY <1>5, RunMoves
  <2>2. run'[u] = r
    BY <1>2, <2>1
  <2>3. CASE r = Idle
    BY <1>3, <2>2, <2>3
  <2>4. CASE r # Idle
    <3>1. r.wake = run[u].wake /\ run[u] # Idle
      BY <1>5, <2>1, <2>4, RunMoves DEF Moved, Idle, Busy, Pcs
    <3>2. ASSUME r.pc \notin {"idle", "debit"} PROVE Mine(job'[r.wake], u)
      <4>1. job' = job
        BY <2>1, <3>2 DEF Moved
      <4>2. run[u].pc \notin {"idle", "debit"}
        <5>1. run[u] \in Busy
          BY <1>2, <3>1
        <5>2. ASSUME At(u, "debit") PROVE r = Idle
          <6>1. Debit(u)
            BY <1>5, <5>2 DEF RunStep, At, Drop, DuplicateVerdict, RestoreMarker, CreditGate,
               StaleHead, Hold, LaneGate, StartAgent, AgentFails, AgentAnswers, MergeReads,
               MergeCall, BounceParks, BounceEscalates, BounceOrders, Order, PhaseRow,
               TriageMarker, Close
          <6> QED
            BY <1>2, <2>2, <6>1 DEF Debit, Ends
        <5> QED
          BY <2>4, <5>1, <5>2 DEF At, Busy, Pcs
      <4> QED
        BY <1>1, <3>1, <4>1, <4>2 DEF OnceInv
    <3>3. ASSUME r.pc \in Early PROVE ~Noted(r.wake, ledger')
      <4>1. CASE CreditGate(u)
        BY <3>1, <4>1 DEF CreditGate, HalfDone, ActedOn, Noted
      <4>2. CASE run[u].pc \in Early
        BY <1>1, <3>1, <4>2, FreshStays
      <4> QED
        BY <2>1, <3>3, <4>1, <4>2 DEF Moved
    <3> QED
      BY <2>2, <3>2, <3>3
  <2> QED
    BY <2>3, <2>4
<1>6. CASE ~RunStep(u) /\ \E t \in Workers : RunStep(t)
  <2>1. PICK t \in Workers : RunStep(t)
    BY <1>6
  <2>2. PICK r : run' = [run EXCEPT ![t] = r] /\ Moved(t, r)
    BY <2>1, RunMoves
  <2>3. run'[u] = run[u]
    BY <1>2, <1>6, <2>1, <2>2
  <2> QED
    BY <1>3, <1>4, <1>6, <2>3
<1>7. ASSUME NEW w \in Wakes, Claim(u, w), run'[u].pc = "gate", run'[u].wake = w
      PROVE  Mine(job'[w], u) /\ run'[u].pc \notin Early
  <2>1. job \in [Wakes -> J!Rows] /\ job' = [job EXCEPT ![w] = J!Claimed(@, u)]
    BY <1>7, TypeParts DEF Claim
  <2>2. job'[w] = J!Claimed(job[w], u) /\ job[w] \in J!Rows
    BY <2>1
  <2> QED
    BY <1>7, <2>2 DEF Mine, J!Claimed, J!Rows, Early
<1>8. CASE ~\E t \in Workers : RunStep(t)
  BY <1>3, <1>4, <1>7, <1>8, OtherMoves
<1> QED
  BY <1>5, <1>6, <1>8

\* Rounds are ordered by the runs of their verdict.
LEMMA OrderedBy ==
    ASSUME TypeInv, OnceInv, [Next]_vars, NEW w \in Wakes, orders'[w] # orders[w], spent.lapses = 0
    PROVE  ~ActedOn(w, "builder")
<1>1. PICK t \in Workers : Order(t)
  BY ZenonT(60) DEF Next, RunStep, Environment, vars, Drop, DuplicateVerdict, RestoreMarker,
     CreditGate,
     StaleHead, Hold, LaneGate, StartAgent, AgentFails, AgentAnswers, MergeReads, MergeCall,
     BounceParks, BounceEscalates, BounceOrders, PhaseRow, TriageMarker, Close, Debit, Claim, Recover,
     RunRaises, RenewLease, Deliver, LeaseExpires, BuilderFinishes, Crash, Push, AdvisorDecides
<1>2. run[t].wake = w
  BY <1>1, TypeParts DEF Order
<1>3. run[t].pc \in Early
  BY <1>1 DEF Order, At, Early
<1> QED
  BY SMTT(40), <1>2, <1>3 DEF OnceInv, Noted, ActedOn

\* A verdict whose round is on record orders no other one, however often it
\* is delivered and wherever a run of it died, unless a lease lapsed under a
\* run (neo_worker.py, run_neo: the half-done gate and the claimed row).
THEOREM OneRound == Spec => OneRoundPerVerdict
<1>1. Init => OnceInv
  BY DEF Init, OnceInv, Idle, Early
<1>2. TypeInv /\ OnceInv /\ [Next]_vars
      => [\A w \in Wakes : orders'[w] # orders[w] /\ orders[w] # {}
                            => ~ActedOn(w, "builder") \/ spent.lapses > 0]_vars
  <2> SUFFICES ASSUME TypeInv, OnceInv, [Next]_vars, NEW w \in Wakes, orders'[w] # orders[w]
               PROVE  ~ActedOn(w, "builder") \/ spent.lapses > 0
    OBVIOUS
  <2>1. spent.lapses \in Nat
    BY TypeParts
  <2> QED
    BY <2>1, OrderedBy
<1> QED
  BY <1>1, <1>2, TypeInit, TypeStep, OnceStep, PTL DEF Spec, OneRoundPerVerdict

-----------------------------------------------------------------------------
(* The overdraft.                                                          *)

\* The run has passed the credit gate and has not paid yet.
Owing(r) ==
    \/ r.pc \in Early \cup {"phase", "marker", "debit"}
    \/ r.pc = "close" /\ r.phase # "none"

Debtors(r) == {t \in Workers : Owing(r[t])}

\* Only a run that passed the credit gate owes anything, and only a metered
\* install is charged.
GateInv ==
    /\ \A t \in Workers : At(t, "gate") => run[t].phase = "none"
    /\ \A t \in Workers : At(t, "debit") => inst.metered

\* What the runs of s may still cost, and what the whole pool may.
Owed(s) == Cardinality(s) * MaxDebit

\* Whoever owes can be paid without overdrawing by more than one run for each
\* thread.
DebtInv ==
    /\ ~inst.metered => inst.balance = Credits
    /\ inst.metered => inst.balance - Owed(Debtors(run)) >= 1 - Owed(Workers)

\* A run starts to owe at the credit gate.
LEMMA OwesFromGate ==
    ASSUME TypeInv, GateInv, NEW t \in Workers, RunStep(t), Owing(run'[t]), ~Owing(run[t])
    PROVE  CreditGate(t) /\ ~OutOfCredits
<1>1. run[t] \in Busy
  BY RunMoves
<1>2. run \in [Workers -> {Idle} \cup Busy] /\ Idle.pc = "idle"
  BY TypeParts DEF RunsTyped, Idle
<1>3. ~Ends(t)
  BY <1>2 DEF Ends, Owing, Early
<1>4. CASE At(t, "gate")
  <2>1. DuplicateVerdict(t) \/ Drop(t) \/ RestoreMarker(t) \/ CreditGate(t)
    BY <1>4 DEF At, RunStep, StaleHead, Hold, LaneGate, StartAgent, AgentFails, AgentAnswers,
       MergeReads, MergeCall, BounceParks, BounceEscalates, BounceOrders, Order, PhaseRow,
       TriageMarker, Close, Debit
  <2>2. ~RestoreMarker(t)
    <3> SUFFICES ASSUME Goto(t, "close") PROVE FALSE
      BY DEF RestoreMarker
    <3>1. run'[t] = [run[t] EXCEPT !.pc = "close"]
      BY <1>2 DEF Goto
    <3>2. run'[t].pc = "close" /\ run'[t].phase = "none"
      BY <1>1, <1>4, <3>1 DEF Busy, GateInv
    <3> QED
      BY <3>2 DEF Owing, Early
  <2> QED
    BY <1>3, <2>1, <2>2 DEF DuplicateVerdict, Drop, CreditGate
<1>5. CASE At(t, "close")
  <2>1. Close(t)
    BY <1>5 DEF At, RunStep, Drop, DuplicateVerdict, RestoreMarker, CreditGate, StaleHead, Hold,
       LaneGate, StartAgent, AgentFails, AgentAnswers, MergeReads, MergeCall, BounceParks,
       BounceEscalates, BounceOrders, Order, PhaseRow, TriageMarker, Debit
  <2> QED
    BY <1>3, <1>5, <2>1 DEF Close, Owing, At
<1> QED
  BY <1>1, <1>4, <1>5 DEF Busy, Pcs, Owing, Early, At

\* The gate and the plan are what a step finds them to be.
LEMMA GateStep == TypeInv /\ GateInv /\ [Next]_vars => GateInv'
<1> SUFFICES ASSUME TypeInv, GateInv, [Next]_vars, NEW u \in Workers
             PROVE  /\ run'[u].pc = "gate" => run'[u].phase = "none"
                    /\ run'[u].pc = "debit" => inst'.metered
  BY DEF GateInv, At
<1>1. /\ run \in [Workers -> {Idle} \cup Busy] /\ Idle.pc = "idle"
      /\ inst \in [metered : BOOLEAN, balance : Int]
  BY TypeParts DEF RunsTyped, Idle
<1>2. inst'.metered = inst.metered
  <2>1. UNCHANGED inst \/ \E t \in Workers : Debit(t)
    BY DEF Next, RunStep, Environment, vars, Drop, DuplicateVerdict, RestoreMarker, CreditGate,
       StaleHead, Hold, LaneGate, StartAgent, AgentFails, AgentAnswers, MergeReads, MergeCall,
       BounceParks, BounceEscalates, BounceOrders, Order, PhaseRow, TriageMarker, Close, Claim, Recover,
       RunRaises, RenewLease, Deliver, LeaseExpires, BuilderFinishes, Crash, Push, AdvisorDecides
  <2> QED
    BY <1>1, <2>1 DEF Debit
<1>3. CASE run'[u] = run[u] \/ run'[u] = Idle
  BY <1>1, <1>2, <1>3 DEF GateInv, At
<1>4. ASSUME NEW w \in Wakes, Claim(u, w) PROVE run'[u].pc = "gate" /\ run'[u].phase = "none"
  BY <1>1, <1>4 DEF Claim, Idle
<1>5. CASE RunStep(u)
  <2>1. PICK r : run' = [run EXCEPT ![u] = r] /\ Moved(u, r)
    BY <1>5, RunMoves
  <2>2. run'[u] = r
    BY <1>1, <2>1
  <2>3. r.pc # "gate" /\ (r.pc = "debit" => inst.metered)
    BY <2>1 DEF Moved
  <2> QED
    BY <1>2, <2>2, <2>3
<1>6. CASE ~RunStep(u) /\ \E t \in Workers : RunStep(t)
  <2>1. PICK t \in Workers : RunStep(t)
    BY <1>6
  <2>2. PICK r : run' = [run EXCEPT ![t] = r] /\ Moved(t, r)
    BY <2>1, RunMoves
  <2> QED
    BY <1>1, <1>3, <1>6, <2>1, <2>2
<1>7. CASE ~\E t \in Workers : RunStep(t)
  BY <1>3, <1>4, <1>7, OtherMoves
<1> QED
  BY <1>5, <1>6, <1>7

\* Subsets of the pool are counted.
LEMMA Counted ==
    ASSUME NEW S \in SUBSET Workers
    PROVE  /\ IsFiniteSet(S) /\ Cardinality(S) \in Nat
           /\ Cardinality(S) <= Cardinality(Workers)
           /\ Cardinality(Workers) \in Nat /\ Cardinality(Workers) >= 1
           /\ \A T \in SUBSET S : Cardinality(T) <= Cardinality(S)
<1>1. IsFiniteSet(S) /\ Cardinality(S) <= Cardinality(Workers)
  BY WorkersAssumption, FS_Subset
<1>2. Cardinality(S) \in Nat /\ Cardinality(Workers) \in Nat
  BY <1>1, WorkersAssumption, FS_CardinalityType
<1>3. Cardinality(Workers) # 0
  BY WorkersAssumption, FS_EmptySet
<1>4. \A T \in SUBSET S : Cardinality(T) <= Cardinality(S)
  BY <1>1, FS_Subset
<1> QED
  BY <1>1, <1>2, <1>3, <1>4

\* Fewer runs cost less.
LEMMA CostMonotone ==
    ASSUME NEW a \in Nat, NEW b \in Nat, NEW m \in Nat, a <= b
    PROVE  a * m \in Nat /\ b * m \in Nat /\ a * m <= b * m
<1>1. a * m \in Nat /\ (b - a) * m \in Nat
  BY SMT
<1>2. b * m = a * m + (b - a) * m
  BY SMT
<1> QED
  BY <1>1, <1>2

\* One run less costs one run less.
LEMMA OneLess == ASSUME NEW a \in Int, NEW m \in Int PROVE (a - 1) * m = a * m - m
  BY SMT

\* What runs cost, compared.
LEMMA OwedParts ==
    ASSUME NEW S \in SUBSET Workers
    PROVE  /\ Owed(S) \in Nat /\ Owed(S) <= Owed(Workers) /\ Owed(Workers) \in Nat
           /\ Owed(Workers) >= 1
           /\ \A T \in SUBSET S : Owed(T) \in Nat /\ Owed(T) <= Owed(S)
           /\ \A t \in S : Owed(S \ {t}) = Owed(S) - MaxDebit
<1>1. MaxDebit \in Nat /\ MaxDebit >= 1
  BY BoundsAssumption
<1>2. Owed(S) \in Nat /\ Owed(S) <= Owed(Workers) /\ Owed(Workers) \in Nat
  BY <1>1, Counted, CostMonotone DEF Owed
<1>3. Owed(Workers) >= 1
  <2>1. 1 * MaxDebit <= Owed(Workers)
    BY <1>1, Counted, CostMonotone DEF Owed
  <2> QED
    BY <1>1, <1>2, <2>1
<1>4. ASSUME NEW T \in SUBSET S PROVE Owed(T) \in Nat /\ Owed(T) <= Owed(S)
  <2>1. T \in SUBSET Workers
    OBVIOUS
  <2>2. Cardinality(T) \in Nat /\ Cardinality(S) \in Nat /\ Cardinality(T) <= Cardinality(S)
    BY <2>1, Counted
  <2> QED
    BY <1>1, <2>2, CostMonotone DEF Owed
<1>5. ASSUME NEW t \in S PROVE Owed(S \ {t}) = Owed(S) - MaxDebit
  <2>1. Cardinality(S \ {t}) = Cardinality(S) - 1 /\ Cardinality(S) \in Nat
    BY Counted, FS_RemoveElement
  <2> QED
    BY <1>1, <2>1, OneLess DEF Owed
<1> QED
  BY <1>2, <1>3, <1>4, <1>5

\* Who owes after a step of t: t, if it has passed the gate, and those before.
LEMMA DebtorsRun ==
    ASSUME TypeInv, GateInv, NEW t \in Workers, RunStep(t)
    PROVE  /\ \A u \in Workers : u # t => run'[u] = run[u]
           /\ Debtors(run') \subseteq Debtors(run) \/ (CreditGate(t) /\ ~OutOfCredits)
<1>1. \A u \in Workers : u # t => run'[u] = run[u]
  BY RunMoves, TypeParts DEF RunsTyped
<1> QED
  BY <1>1, OwesFromGate DEF Debtors

\* A step that is not a run's adds no debtor.
LEMMA DebtorsOther ==
    ASSUME TypeInv, [Next]_vars, ~\E t \in Workers : RunStep(t), NEW u \in Workers, Owing(run'[u])
    PROVE  run'[u] = run[u]
<1>1. Idle.pc = "idle"
  BY DEF Idle
<1> QED
  BY <1>1, OtherMoves DEF Owing, Early

\* No step overdraws by more than what was owed.
LEMMA DebtStep == TypeInv /\ GateInv /\ DebtInv /\ [Next]_vars => DebtInv'
<1> SUFFICES ASSUME TypeInv, GateInv, DebtInv, [Next]_vars PROVE DebtInv'
  OBVIOUS
<1>1. /\ inst \in [metered : BOOLEAN, balance : Int]
      /\ run \in [Workers -> {Idle} \cup Busy] /\ Idle.pc = "idle"
  BY TypeParts DEF RunsTyped, Idle
<1>2. Debtors(run) \in SUBSET Workers /\ Debtors(run') \in SUBSET Workers
  BY DEF Debtors
<1>3. CASE UNCHANGED inst /\ Debtors(run') \subseteq Debtors(run)
  <2>1. /\ Owed(Debtors(run')) <= Owed(Debtors(run)) /\ Owed(Debtors(run')) \in Nat
        /\ Owed(Debtors(run)) \in Nat /\ Owed(Workers) \in Nat
    BY <1>2, <1>3, OwedParts
  <2> QED
    BY <1>1, <1>3, <2>1 DEF DebtInv
<1>4. ASSUME NEW t \in Workers, RunStep(t), ~Debit(t) PROVE DebtInv'
  <2>1. UNCHANGED inst
    BY <1>4 DEF RunStep, Drop, DuplicateVerdict, RestoreMarker, CreditGate, StaleHead, Hold,
       LaneGate, StartAgent, AgentFails, AgentAnswers, MergeReads, MergeCall, BounceParks,
       BounceEscalates, BounceOrders, Order, PhaseRow, TriageMarker, Close
  <2>2. CASE ~OutOfCredits
    <3>1. Owed(Debtors(run')) \in Nat /\ Owed(Debtors(run')) <= Owed(Workers)
      BY <1>2, OwedParts
    <3>2. Owed(Workers) \in Nat
      BY <1>2, OwedParts
    <3>3. inst.metered => inst.balance >= 1
      BY <1>1, <2>2 DEF OutOfCredits
    <3> QED
      BY <1>1, <2>1, <3>1, <3>2, <3>3 DEF DebtInv
  <2> QED
    BY <1>3, <1>4, <2>1, <2>2, DebtorsRun
<1>5. ASSUME NEW t \in Workers, Debit(t) PROVE DebtInv'
  <2>1. RunStep(t) /\ run' = [run EXCEPT ![t] = Idle] /\ At(t, "debit")
    BY <1>5 DEF Debit, RunStep, Ends
  <2>2. PICK credits \in 0..MaxDebit : inst' = [inst EXCEPT !.balance = @ - credits]
    BY <1>5 DEF Debit
  <2>3. t \in Debtors(run) /\ t \notin Debtors(run')
    BY <1>1, <2>1 DEF Debtors, Owing, Early, At
  <2>4. \A u \in Workers : u # t => run'[u] = run[u]
    BY <1>1, <2>1
  <2>5. Debtors(run') = Debtors(run) \ {t}
    BY <2>3, <2>4 DEF Debtors
  <2>6. Owed(Debtors(run')) = Owed(Debtors(run)) - MaxDebit
    BY <1>2, <2>3, <2>5, OwedParts
  <2>7. /\ inst.metered /\ inst'.metered = inst.metered
        /\ inst'.balance = inst.balance - credits
    BY <1>1, <2>1, <2>2 DEF GateInv
  <2>8. /\ Owed(Debtors(run)) \in Nat /\ Owed(Workers) \in Nat
        /\ MaxDebit \in Nat /\ credits \in Int /\ credits <= MaxDebit
    BY <1>2, <2>2, OwedParts, BoundsAssumption
  <2> QED
    BY <1>1, <2>6, <2>7, <2>8 DEF DebtInv
<1>6. CASE ~\E t \in Workers : RunStep(t)
  <2>1. UNCHANGED inst
    BY <1>6 DEF Next, Environment, vars, Claim, Recover, RunRaises, RenewLease, Deliver,
       LeaseExpires, BuilderFinishes, Crash, Push, AdvisorDecides
  <2>2. Debtors(run') \subseteq Debtors(run)
    BY <1>6, DebtorsOther DEF Debtors
  <2> QED
    BY SMTT(40), <1>3, <2>1, <2>2
<1> QED
  BY <1>4, <1>5, <1>6

\* Before the first wake nobody owes anything.
LEMMA DebtInit == Init => GateInv /\ DebtInv /\ Debtors(run) = {}
<1> SUFFICES ASSUME Init PROVE GateInv /\ DebtInv /\ Debtors(run) = {}
  OBVIOUS
<1>1. \A t \in Workers : run[t].pc = "idle"
  BY DEF Init, Idle
<1>2. Debtors(run) = {}
  BY <1>1 DEF Debtors, Owing, Early
<1>3. Owed(Debtors(run)) = 0
  BY <1>2, FS_EmptySet, BoundsAssumption DEF Owed
<1>4. Owed(Workers) \in Nat /\ Owed(Workers) >= 1
  BY OwedParts
<1>5. inst.balance = Credits /\ Credits \in Nat
  BY BoundsAssumption DEF Init
<1> QED
  BY <1>1, <1>2, <1>3, <1>4, <1>5 DEF GateInv, DebtInv, At

\* Every pool thread can overdraw the balance by one run, whatever a run costs,
\* and no more, although the gate is read long before the debit
\* (neo_worker.py, run_neo).
THEOREM Overdraft == Spec => []OverdraftBounded
<1>1. TypeInv /\ DebtInv => OverdraftBounded
  <2> SUFFICES ASSUME TypeInv, DebtInv PROVE OverdraftBounded
    OBVIOUS
  <2>1. Debtors(run) \in SUBSET Workers
    BY DEF Debtors
  <2>2. Owed(Debtors(run)) \in Nat /\ Owed(Workers) \in Nat /\ Owed(Workers) >= 1
    BY <2>1, OwedParts
  <2>3. inst.balance \in Int /\ Credits \in Nat
    BY TypeParts, BoundsAssumption
  <2>4. inst.balance >= 1 - Owed(Workers)
    BY <2>2, <2>3 DEF DebtInv
  <2> QED
    BY <2>4 DEF Owed, OverdraftBounded
<1> QED
  BY <1>1, DebtInit, TypeInit, TypeStep, GateStep, DebtStep, PTL DEF Spec

-----------------------------------------------------------------------------
(* A verdict is paid for once.                                             *)

\* The triage marker of a verdict.
Marked(w, rows) == \E row \in rows : row.phase = "triage" /\ row.head = w[1] /\ row.green = w[2]

\* The runs that work on a verdict without holding its row under a live lease.
Strays(w, r, j) ==
    {t \in Workers : r[t].wake = w /\ r[t].pc \notin {"idle", "debit"} /\ ~Mine(j[w], t)}

Payers(w, r) == {t \in Workers : r[t].wake = w /\ Owing(r[t])}

\* Every stray run has cost a lapse; before the marker nobody has paid and
\* nobody is about to; and the payments, made and owed, are bounded.
PaidInv ==
    \A w \in Wakes :
        /\ Cardinality(Strays(w, run, job)) <= spent.lapses
        /\ ~Marked(w, ledger) =>
              /\ debits[w] = 0
              /\ \A t \in Payers(w, run) : run[t].pc \notin {"close", "debit"}
        /\ debits[w] + Cardinality(Payers(w, run)) <= 1 + spent.lapses

\* One member more is one more at most.
LEMMA OneMore ==
    ASSUME NEW S \in SUBSET Workers, NEW T \in SUBSET Workers, NEW x, T \subseteq S \cup {x}
    PROVE  Cardinality(T) <= Cardinality(S) + 1
<1>1. IsFiniteSet(S) /\ Cardinality(S) \in Nat /\ Cardinality(T) \in Nat
  BY Counted
<1>2. /\ IsFiniteSet(S \cup {x})
      /\ Cardinality(S \cup {x}) = IF x \in S THEN Cardinality(S) ELSE Cardinality(S) + 1
  BY <1>1, FS_AddElement
<1>3. Cardinality(T) <= Cardinality(S \cup {x})
  BY <1>2, FS_Subset
<1> QED
  BY <1>1, <1>2, <1>3

\* A lapse is counted by itself, and it is all that happens.
LEMMA LapseStep ==
    ASSUME TypeInv, [Next]_vars
    PROVE  \/ spent'.lapses = spent.lapses
           \/ /\ spent'.lapses = spent.lapses + 1
              /\ UNCHANGED <<ledger, run, debits>>
              /\ \E v \in Wakes : job' = [job EXCEPT ![v] = J!Lapsed(@)]
<1>1. spent \in [deliveries : Nat, lapses : Nat, faults : Nat]
  BY TypeParts
<1>2. ASSUME Faults PROVE spent'.lapses = spent.lapses
  BY <1>1, <1>2 DEF Faults
<1>3. ASSUME NEW w \in Wakes, Deliver(w) PROVE spent'.lapses = spent.lapses
  <2>1. spent' = [spent EXCEPT !.deliveries = @ + 1]
    BY <1>3 DEF Deliver
  <2> QED
    BY <1>1, <2>1
<1>4. ASSUME NEW w \in Wakes, LeaseExpires(w)
      PROVE  \/ spent'.lapses = spent.lapses
             \/ /\ spent'.lapses = spent.lapses + 1
                /\ UNCHANGED <<ledger, run, debits>>
                /\ job' = [job EXCEPT ![w] = J!Lapsed(@)]
  BY SMTT(40), <1>1, <1>4 DEF LeaseExpires
<1>5. \/ Faults \/ UNCHANGED spent
      \/ \E w \in Wakes : Deliver(w) \/ LeaseExpires(w)
  BY DEF Next, RunStep, Environment, vars, Drop, DuplicateVerdict, RestoreMarker, CreditGate,
     StaleHead, Hold, LaneGate, StartAgent, AgentFails, AgentAnswers, MergeReads, MergeCall,
     BounceParks, BounceEscalates, BounceOrders, Order, PhaseRow, TriageMarker, Close, Debit, Claim,
     Recover, RunRaises, RenewLease, BuilderFinishes, Crash, Push, AdvisorDecides
<1> QED
  BY <1>2, <1>3, <1>4, <1>5

\* A step that is not a lapse strands no run.
LEMMA StraysStay ==
    ASSUME TypeInv, [Next]_vars, spent'.lapses = spent.lapses, NEW w \in Wakes
    PROVE  Strays(w, run', job') \subseteq Strays(w, run, job)
<1> SUFFICES ASSUME NEW u \in Workers, run'[u].wake = w, run'[u].pc \notin {"idle", "debit"},
                    ~Mine(job'[w], u)
             PROVE  run[u].wake = w /\ run[u].pc \notin {"idle", "debit"} /\ ~Mine(job[w], u)
  BY DEF Strays
<1>1. /\ run \in [Workers -> {Idle} \cup Busy] /\ Idle.pc = "idle"
      /\ job \in [Wakes -> J!Rows]
  BY TypeParts DEF RunsTyped, Idle
<1>2. CASE run'[u] = run[u] /\ ~RunStep(u)
  BY <1>2, RowKept
<1>3. CASE RunStep(u)
  <2>1. PICK r : run' = [run EXCEPT ![u] = r] /\ Moved(u, r)
    BY <1>3, RunMoves
  <2>2. run'[u] = r
    BY <1>1, <2>1
  <2>3. r # Idle /\ job' = job /\ run[u].wake = w
    BY <1>1, <2>1, <2>2 DEF Moved
  <2>4. run[u].pc # "idle"
    BY <1>3, RunMoves DEF Busy, Pcs
  <2>5. ASSUME At(u, "debit") PROVE FALSE
    <3>1. Debit(u)
      BY <1>3, <2>5 DEF RunStep, At, Drop, DuplicateVerdict, RestoreMarker, CreditGate,
         StaleHead, Hold, LaneGate, StartAgent, AgentFails, AgentAnswers, MergeReads,
         MergeCall, BounceParks, BounceEscalates, BounceOrders, Order, PhaseRow,
         TriageMarker, Close
    <3> QED
      BY <1>1, <2>2, <2>3, <3>1 DEF Debit, Ends
  <2> QED
    BY <2>3, <2>4, <2>5 DEF At
<1>4. CASE ~RunStep(u) /\ \E t \in Workers : RunStep(t)
  <2>1. PICK t \in Workers : RunStep(t)
    BY <1>4
  <2>2. PICK r : run' = [run EXCEPT ![t] = r] /\ Moved(t, r)
    BY <2>1, RunMoves
  <2> QED
    BY <1>1, <1>2, <1>4, <2>1, <2>2
<1>5. ASSUME NEW v \in Wakes, Claim(u, v), run'[u].wake = v PROVE FALSE
  <2>1. v = w /\ job' = [job EXCEPT ![v] = J!Claimed(@, u)]
    BY <1>5 DEF Claim
  <2>2. job'[w] = J!Claimed(job[w], u) /\ job[w] \in J!Rows
    BY <1>1, <2>1
  <2> QED
    BY <2>2 DEF Mine, J!Claimed, J!Rows
<1>6. CASE ~\E t \in Workers : RunStep(t)
  BY <1>1, <1>2, <1>5, <1>6, OtherMoves
<1> QED
  BY <1>3, <1>4, <1>6

\* A lapse strands one run at most: the one that held the row.
LEMMA StraysLapse ==
    ASSUME TypeInv, NEW w \in Wakes, NEW v \in Wakes,
           UNCHANGED run, job' = [job EXCEPT ![v] = J!Lapsed(@)]
    PROVE  Cardinality(Strays(w, run', job')) <= Cardinality(Strays(w, run, job)) + 1
<1>1. job \in [Wakes -> J!Rows]
  BY TypeParts
<1> DEFINE S == Strays(w, run, job)
           x == job[w].token
<1>2. Strays(w, run', job') \subseteq S \cup {x}
  <2> SUFFICES ASSUME NEW t \in Strays(w, run', job'), t \notin S PROVE t = x
    OBVIOUS
  <2>1. Mine(job[w], t)
    BY DEF Strays
  <2> QED
    BY <2>1 DEF Mine
<1>3. S \in SUBSET Workers /\ Strays(w, run', job') \in SUBSET Workers
  BY DEF Strays
<1> QED
  BY <1>2, <1>3, OneMore

\* A marker stays.
LEMMA MarkedStays ==
    ASSUME [Next]_vars, NEW w, Marked(w, ledger)
    PROVE  Marked(w, ledger')
<1>1. PICK row \in ledger : row.phase = "triage" /\ row.head = w[1] /\ row.green = w[2]
  BY DEF Marked
<1>2. CASE ledger \subseteq ledger'
  BY <1>1, <1>2 DEF Marked
<1>3. CASE AdvisorDecides
  <2>1. \E p, h : ledger' = (ledger \ {x \in ledger : x.phase = "escalating"}) \cup {Row(p, h, 0)}
    BY <1>3 DEF AdvisorDecides
  <2>2. row \in ledger'
    BY SMTT(40), <1>1, <2>1
  <2> QED
    BY <1>1, <2>2 DEF Marked
<1>4. AdvisorDecides \/ ledger \subseteq ledger'
  BY DEF Next, RunStep, Environment, vars, Drop, DuplicateVerdict, RestoreMarker, CreditGate,
     StaleHead, Hold, LaneGate, StartAgent, AgentFails, AgentAnswers, MergeReads, MergeCall,
     BounceParks, BounceEscalates, BounceOrders, Order, PhaseRow, TriageMarker, Close, Debit, Claim,
     Recover, RunRaises, RenewLease, Deliver, LeaseExpires, BuilderFinishes, Crash, Push
<1> QED
  BY <1>2, <1>3, <1>4

\* A step of a run adds a payer only where it passes the credit gate.
LEMMA PayersRun ==
    ASSUME TypeInv, GateInv, NEW t \in Workers, RunStep(t), NEW w \in Wakes
    PROVE  /\ Payers(w, run') \subseteq Payers(w, run) \cup {t}
           /\ \/ Payers(w, run') \subseteq Payers(w, run)
              \/ CreditGate(t) /\ run[t].wake = w
<1>1. /\ run \in [Workers -> {Idle} \cup Busy] /\ Idle.pc = "idle"
  BY TypeParts DEF RunsTyped, Idle
<1>2. PICK r : run' = [run EXCEPT ![t] = r] /\ Moved(t, r)
  BY RunMoves
<1>3. run'[t] = r /\ \A u \in Workers : u # t => run'[u] = run[u]
  BY <1>1, <1>2
<1>4. Owing(r) => r.wake = run[t].wake
  BY <1>1, <1>2 DEF Moved, Owing, Early
<1>5. Payers(w, run') \subseteq Payers(w, run) \cup {t}
  BY <1>3 DEF Payers
<1>6. ASSUME t \in Payers(w, run'), t \notin Payers(w, run)
      PROVE  CreditGate(t) /\ run[t].wake = w
  BY <1>3, <1>4, <1>6, OwesFromGate DEF Payers
<1> QED
  BY <1>5, <1>6

\* A step that is not a run's adds none.
LEMMA PayersOther ==
    ASSUME TypeInv, [Next]_vars, ~\E t \in Workers : RunStep(t), NEW w \in Wakes
    PROVE  \A u \in Payers(w, run') : u \in Payers(w, run) /\ run'[u] = run[u]
  BY DebtorsOther DEF Payers

\* Whoever may pay when a run passes the gate is a stray run, or holds the row.
LEMMA PayersAtGate ==
    ASSUME TypeInv, GateInv, PaidInv, NEW t \in Workers, RunStep(t), CreditGate(t)
    PROVE  debits[run[t].wake] + Cardinality(Payers(run[t].wake, run')) <= 1 + spent.lapses
<1> DEFINE w == run[t].wake
           S == Strays(w, run, job)
           x == job[w].token
           P == Payers(w, run')
<1>1. run[t] \in Busy /\ run[t].pc = "gate" /\ w \in Wakes
  BY RunMoves DEF CreditGate, At, Busy
<1>2. ~Marked(w, ledger)
  BY DEF CreditGate, Acted, ActedOn, Marked
<1>3. debits[w] = 0 /\ \A u \in Payers(w, run) : run[u].pc \notin {"close", "debit"}
  BY <1>1, <1>2 DEF PaidInv
<1>4. \A u \in Payers(w, run) : run[u].pc \notin {"idle", "debit"}
  BY <1>3 DEF Payers, Owing, Early
<1>5. P \subseteq S \cup {x}
  <2> SUFFICES ASSUME NEW u \in P, u \notin S PROVE u = x
    OBVIOUS
  <2>1. u \in Workers /\ u \in Payers(w, run) \cup {t}
    BY <1>1, PayersRun DEF Payers
  <2>2. run[u].wake = w /\ run[u].pc \notin {"idle", "debit"}
    BY <1>1, <1>4, <2>1 DEF Payers
  <2>3. Mine(job[w], u)
    BY <2>1, <2>2 DEF Strays
  <2> QED
    BY <2>3 DEF Mine
<1>6. S \in SUBSET Workers /\ P \in SUBSET Workers
  BY DEF Strays, Payers
<1>7. Cardinality(P) <= Cardinality(S) + 1
  BY <1>5, <1>6, OneMore
<1>8. Cardinality(S) <= spent.lapses
  BY <1>1 DEF PaidInv
<1>9. Cardinality(P) \in Nat /\ Cardinality(S) \in Nat /\ spent.lapses \in Nat
  BY <1>6, Counted, TypeParts
<1> HIDE DEF P, S
<1> QED
  BY <1>3, <1>7, <1>8, <1>9 DEF P

\* The payments of a verdict after any step.
LEMMA PaymentsStep ==
    ASSUME TypeInv, GateInv, PaidInv, [Next]_vars, NEW w \in Wakes
    PROVE  debits'[w] + Cardinality(Payers(w, run')) <= 1 + spent'.lapses
<1>1. /\ debits \in [Wakes -> Nat] /\ spent.lapses \in Nat
      /\ run \in [Workers -> {Idle} \cup Busy] /\ Idle.pc = "idle"
  BY TypeParts DEF RunsTyped, Idle
<1>2. spent'.lapses \in Nat /\ spent.lapses <= spent'.lapses
  BY <1>1, LapseStep
<1>3. /\ Payers(w, run) \in SUBSET Workers /\ Payers(w, run') \in SUBSET Workers
      /\ Cardinality(Payers(w, run)) \in Nat /\ Cardinality(Payers(w, run')) \in Nat
      /\ debits[w] + Cardinality(Payers(w, run)) <= 1 + spent.lapses
  BY Counted DEF Payers, PaidInv
<1>4. CASE debits'[w] = debits[w] /\ Payers(w, run') \subseteq Payers(w, run)
  <2>1. Cardinality(Payers(w, run')) <= Cardinality(Payers(w, run))
    BY <1>3, <1>4, Counted
  <2> QED
    BY <1>1, <1>2, <1>3, <1>4, <2>1
<1>5. ASSUME NEW t \in Workers, Debit(t)
      PROVE  debits'[w] + Cardinality(Payers(w, run')) <= 1 + spent'.lapses
  <2>1. /\ RunStep(t) /\ run' = [run EXCEPT ![t] = Idle] /\ At(t, "debit")
        /\ debits' = [debits EXCEPT ![run[t].wake] = @ + 1] /\ ~CreditGate(t)
    BY <1>5 DEF Debit, RunStep, Ends, CreditGate, At
  <2>2. Payers(w, run') \subseteq Payers(w, run)
    BY <2>1, PayersRun
  <2>3. CASE run[t].wake = w
    <3>1. t \in Payers(w, run) /\ t \notin Payers(w, run')
      BY <1>1, <2>1, <2>3 DEF Payers, Owing, Early, At
    <3>2. \A u \in Workers : u # t => run'[u] = run[u]
      BY <1>1, <2>1
    <3>3. Payers(w, run') = Payers(w, run) \ {t}
      BY <3>1, <3>2 DEF Payers
    <3>4. Cardinality(Payers(w, run')) = Cardinality(Payers(w, run)) - 1
      BY <1>3, <3>1, <3>3, Counted, FS_RemoveElement
    <3>5. debits'[w] = debits[w] + 1
      BY <1>1, <2>1, <2>3
    <3> QED
      BY <1>1, <1>2, <1>3, <3>4, <3>5
  <2>4. CASE run[t].wake # w
    BY <1>1, <1>4, <2>1, <2>2, <2>4
  <2> QED
    BY <2>3, <2>4
<1>6. ASSUME NEW t \in Workers, RunStep(t), ~Debit(t)
      PROVE  debits'[w] + Cardinality(Payers(w, run')) <= 1 + spent'.lapses
  <2>1. debits' = debits
    BY <1>6 DEF RunStep, Drop, DuplicateVerdict, RestoreMarker, CreditGate, StaleHead, Hold,
       LaneGate, StartAgent, AgentFails, AgentAnswers, MergeReads, MergeCall, BounceParks,
       BounceEscalates, BounceOrders, Order, PhaseRow, TriageMarker, Close
  <2>2. CASE CreditGate(t) /\ run[t].wake = w
    <3>1. debits[w] + Cardinality(Payers(w, run')) <= 1 + spent.lapses
      BY <1>6, <2>2, PayersAtGate
    <3> QED
      BY <1>1, <1>2, <1>3, <2>1, <3>1
  <2> QED
    BY <1>4, <1>6, <2>1, <2>2, PayersRun
<1>7. CASE ~\E t \in Workers : RunStep(t)
  <2>1. debits' = debits
    BY <1>7 DEF Next, Environment, vars, Claim, Recover, RunRaises, RenewLease, Deliver,
       LeaseExpires, BuilderFinishes, Crash, Push, AdvisorDecides
  <2> QED
    BY SMTT(40), <1>4, <1>7, <2>1, PayersOther
<1> QED
  BY <1>5, <1>6, <1>7

\* Without the marker nobody has paid, and nobody is about to.
LEMMA UnmarkedStep ==
    ASSUME TypeInv, GateInv, PaidInv, [Next]_vars, NEW w \in Wakes, ~Marked(w, ledger')
    PROVE  /\ debits'[w] = 0
           /\ \A u \in Payers(w, run') : run'[u].pc \notin {"close", "debit"}
<1>1. /\ debits \in [Wakes -> Nat]
      /\ run \in [Workers -> {Idle} \cup Busy] /\ Idle.pc = "idle"
  BY TypeParts DEF RunsTyped, Idle
<1>2. debits[w] = 0 /\ \A u \in Payers(w, run) : run[u].pc \notin {"close", "debit"}
  BY MarkedStays DEF PaidInv
<1>3. debits'[w] = 0
  <2>1. CASE \E t \in Workers : Debit(t)
    <3>1. PICK t \in Workers : Debit(t)
      BY <2>1
    <3>2. At(t, "debit") /\ debits' = [debits EXCEPT ![run[t].wake] = @ + 1]
      BY <3>1 DEF Debit
    <3>3. run[t].wake # w
      BY SMTT(40), <1>2, <3>2 DEF Payers, Owing, At
    <3> QED
      BY <1>1, <1>2, <3>2, <3>3
  <2>2. CASE ~\E t \in Workers : Debit(t)
    BY <1>2, <2>2 DEF Next, RunStep, Environment, vars, Drop, DuplicateVerdict, RestoreMarker,
       CreditGate, StaleHead, Hold, LaneGate, StartAgent, AgentFails, AgentAnswers, MergeReads,
       MergeCall, BounceParks, BounceEscalates, BounceOrders, Order, PhaseRow, TriageMarker, Close,
       Claim, Recover, RunRaises, RenewLease, Deliver, LeaseExpires, BuilderFinishes, Crash, Push,
       AdvisorDecides
  <2> QED
    BY <2>1, <2>2
<1>4. ASSUME NEW u \in Payers(w, run'), run'[u] = run[u]
      PROVE  run'[u].pc \notin {"close", "debit"}
  BY <1>2, <1>4 DEF Payers
<1>5. ASSUME NEW t \in Workers, RunStep(t), t \in Payers(w, run')
      PROVE  run'[t].pc \notin {"close", "debit"}
  <2>1. PICK r : run' = [run EXCEPT ![t] = r] /\ Moved(t, r)
    BY <1>5, RunMoves
  <2>2. run'[t] = r /\ r.wake = w /\ r # Idle
    BY <1>1, <1>5, <2>1 DEF Payers, Owing, Early
  <2>3. run[t].wake = w
    BY <2>1, <2>2 DEF Moved
  <2>4. ASSUME r.pc = "close" PROVE FALSE
    <3>1. ledger' = ledger \cup {Row("triage", w, 0)}
      BY <2>1, <2>3, <2>4 DEF Moved, RestoreMarker, TriageMarker
    <3>2. /\ Row("triage", w, 0).phase = "triage" /\ Row("triage", w, 0).head = w[1]
          /\ Row("triage", w, 0).green = w[2]
      BY DEF Row
    <3> QED
      BY <3>1, <3>2 DEF Marked
  <2>5. ASSUME r.pc = "debit" PROVE FALSE
    BY <1>2, <2>1, <2>3, <2>5 DEF Moved, At, Payers, Owing
  <2> QED
    BY <2>2, <2>4, <2>5
<1>6. \A u \in Payers(w, run') : run'[u].pc \notin {"close", "debit"}
  <2>1. CASE \E t \in Workers : RunStep(t)
    <3>1. PICK t \in Workers : RunStep(t)
      BY <2>1
    <3>2. \A u \in Workers : u # t => run'[u] = run[u]
      BY <3>1, DebtorsRun
    <3> QED
      BY <1>4, <1>5, <3>1, <3>2 DEF Payers
  <2>2. CASE ~\E t \in Workers : RunStep(t)
    BY <1>4, <2>2, PayersOther
  <2> QED
    BY <2>1, <2>2
<1> QED
  BY <1>3, <1>6

\* The three together.
LEMMA PaidStep == TypeInv /\ GateInv /\ PaidInv /\ [Next]_vars => PaidInv'
<1> SUFFICES ASSUME TypeInv, GateInv, PaidInv, [Next]_vars, NEW w \in Wakes
             PROVE  /\ Cardinality(Strays(w, run', job')) <= spent'.lapses
                    /\ ~Marked(w, ledger') =>
                          /\ debits'[w] = 0
                          /\ \A t \in Payers(w, run') : run'[t].pc \notin {"close", "debit"}
                    /\ debits'[w] + Cardinality(Payers(w, run')) <= 1 + spent'.lapses
  BY DEF PaidInv
<1>1. spent.lapses \in Nat /\ Cardinality(Strays(w, run, job)) <= spent.lapses
  BY TypeParts DEF PaidInv
<1>2. /\ Cardinality(Strays(w, run, job)) \in Nat
      /\ Cardinality(Strays(w, run', job')) \in Nat
  BY Counted DEF Strays
<1>3. CASE spent'.lapses = spent.lapses
  <2>1. Cardinality(Strays(w, run', job')) <= Cardinality(Strays(w, run, job))
    BY <1>3, StraysStay, Counted DEF Strays
  <2> QED
    BY <1>1, <1>2, <1>3, <2>1, PaymentsStep, UnmarkedStep
<1>4. CASE spent'.lapses # spent.lapses
  <2>1. /\ spent'.lapses = spent.lapses + 1 /\ UNCHANGED run
        /\ \E v \in Wakes : job' = [job EXCEPT ![v] = J!Lapsed(@)]
    BY <1>4, LapseStep
  <2>2. Cardinality(Strays(w, run', job')) <= Cardinality(Strays(w, run, job)) + 1
    BY <2>1, StraysLapse
  <2> QED
    BY <1>1, <1>2, <2>1, <2>2, PaymentsStep, UnmarkedStep
<1> QED
  BY <1>3, <1>4

\* A verdict is paid for once, and once more for every lease that lapsed under
\* a run of it, however often it is delivered (neo_worker.py, run_neo: the
\* marker gate and the debit).
THEOREM PaidOnce == Spec => []PaidOncePerVerdict
<1>1. ASSUME Init PROVE PaidInv
  <2>1. \A t \in Workers : run[t].pc = "idle"
    BY <1>1 DEF Init, Idle
  <2>2. spent.lapses = 0 /\ \A w \in Wakes : debits[w] = 0
    BY <1>1 DEF Init
  <2>3. \A w \in Wakes : Strays(w, run, job) = {} /\ Payers(w, run) = {}
    BY <2>1 DEF Strays, Payers, Owing, Early
  <2> QED
    BY <2>2, <2>3, FS_EmptySet DEF PaidInv
<1>2. TypeInv /\ PaidInv => PaidOncePerVerdict
  <2> SUFFICES ASSUME TypeInv, PaidInv, NEW w \in Wakes PROVE debits[w] <= 1 + spent.lapses
    BY DEF PaidOncePerVerdict
  <2>1. Cardinality(Payers(w, run)) \in Nat /\ debits[w] \in Nat /\ spent.lapses \in Nat
    BY Counted, TypeParts DEF Payers
  <2> QED
    BY <2>1 DEF PaidInv
<1> QED
  BY <1>1, <1>2, DebtInit, TypeInit, TypeStep, GateStep, PaidStep, PTL DEF Spec

-----------------------------------------------------------------------------
(* Triage implements JobLease.                                             *)

\* Exactly the running rows have a lease, and each of them a claimant.
LeasedRow(r) ==
    /\ r.state = "running" <=> r.lease # "none"
    /\ r.state = "running" => r.token \in Workers

LeasedInv == \A w \in Wakes : LeasedRow(job[w])

\* A row without owner or lease.
Resting(r) == r.state # "running" /\ r.lease = "none"

LeaseMove == Lease!LeaseNext \/ UNCHANGED <<OwnerOf, LapsedLeases, RunOf>>

\* What each statement makes of the owner and the lease of a row.
LEMMA LeaseEffects ==
    ASSUME NEW r \in J!Rows
    PROVE  /\ Resting(J!Created(r, TRUE)) /\ Resting(J!Retried(r))
           /\ Resting(J!Parked(r)) /\ Resting(J!Recovered(r))
           /\ \A o : Resting(J!Resolved(r, o))
           /\ \A t \in Workers : /\ J!Claimed(r, t).state = "running"
                                 /\ J!Claimed(r, t).token = t /\ J!Claimed(r, t).lease = "live"
           /\ J!Lapsed(r).state = r.state /\ J!Lapsed(r).token = r.token
           /\ J!Lapsed(r).lease = "expired"
           /\ J!Renewed(r).state = r.state /\ J!Renewed(r).token = r.token
           /\ J!Renewed(r).lease = "live"
<1> USE DEF J!Rows, Resting
<1>1. Resting(J!Created(r, TRUE)) /\ Resting(J!Parked(r)) /\ Resting(J!Recovered(r))
  BY DEF J!Created, J!Parked, J!Recovered
<1>2. Resting(J!Retried(r))
  <2>1. CASE J!Exhausted(r)
    BY <2>1 DEF J!Retried
  <2>2. CASE ~J!Exhausted(r)
    BY <2>2 DEF J!Retried
  <2> QED
    BY <2>1, <2>2
<1>3. \A o : Resting(J!Resolved(r, o))
  BY DEF J!Resolved
<1>5. \A t \in Workers : /\ J!Claimed(r, t).state = "running"
                         /\ J!Claimed(r, t).token = t /\ J!Claimed(r, t).lease = "live"
  BY DEF J!Claimed
<1>6. /\ J!Lapsed(r).state = r.state /\ J!Lapsed(r).token = r.token
      /\ J!Lapsed(r).lease = "expired"
  BY DEF J!Lapsed
<1>7. /\ J!Renewed(r).state = r.state /\ J!Renewed(r).token = r.token
      /\ J!Renewed(r).lease = "live"
  BY DEF J!Renewed
<1> HIDE DEF Resting
<1> QED
  BY <1>1, <1>2, <1>3, <1>5, <1>6, <1>7

\* Rows that rested before and after the step touch no lease; then a run may
\* stay, end, or end with all the others.
LEMMA UntouchedMove ==
    ASSUME LeasedInv, \A w \in Wakes : job'[w] = job[w] \/ (Resting(job[w]) /\ Resting(job'[w])),
           \/ RunOf' = RunOf
           \/ \E t \in Workers : RunOf' = [RunOf EXCEPT ![t] = NoWake]
           \/ RunOf' = [t \in Workers |-> NoWake]
    PROVE  LeasedInv' /\ LeaseMove
<1>1. \A w \in Wakes : LeasedRow(job'[w])
  BY DEF LeasedInv, LeasedRow, Resting
<1>2. \A w \in Wakes : /\ job'[w].state = "running" <=> job[w].state = "running"
                       /\ job[w].state = "running" => job'[w] = job[w]
  BY DEF Resting
<1>3. LeasedInv' /\ OwnerOf' = OwnerOf /\ LapsedLeases' = LapsedLeases
  BY <1>1, <1>2 DEF LeasedInv, OwnerOf, LapsedLeases
<1> QED
  BY <1>3 DEF LeaseMove, Lease!LeaseNext, Lease!WalkAway, Lease!Crash

\* A row whose lease has lapsed is put to rest: the lease is broken.
LEMMA BrokenMove ==
    ASSUME LeasedInv, NEW k \in LapsedLeases, RunOf' = RunOf, Resting(job'[k]),
           \A w \in Wakes \ {k} : job'[w] = job[w]
    PROVE  LeasedInv' /\ LeaseMove
<1>1. k \in Wakes
  BY DEF LapsedLeases
<1>2. LeasedInv'
  BY <1>1 DEF LeasedInv, LeasedRow, Resting
<1>3. OwnerOf' = [w \in Wakes |-> IF w \in {k} THEN NoToken ELSE OwnerOf[w]]
  BY <1>1 DEF OwnerOf, Resting
<1>4. LapsedLeases' = LapsedLeases \ {k}
  BY <1>1 DEF LapsedLeases, Resting
<1>5. {k} \in SUBSET Wakes /\ {k} \subseteq LapsedLeases
  BY <1>1
<1> QED
  BY <1>2, <1>3, <1>4, <1>5 DEF LeaseMove, Lease!LeaseNext, Lease!Break

\* A run that ends and leaves its own row resting gives it back.
LEMMA GivenBackMove ==
    ASSUME LeasedInv, NEW t \in Workers, NEW k \in Wakes, RunOf[t] = k, J!HeldBy(job[k], t),
           Resting(job'[k]), \A w \in Wakes \ {k} : job'[w] = job[w],
           RunOf' = [RunOf EXCEPT ![t] = NoWake]
    PROVE  LeasedInv' /\ LeaseMove
<1>1. LeasedInv'
  BY DEF LeasedInv, LeasedRow, Resting
<1>2. OwnerOf[k] = t /\ OwnerOf' = [OwnerOf EXCEPT ![k] = NoToken]
  BY DEF OwnerOf, J!HeldBy, Resting
<1>3. LapsedLeases' = LapsedLeases \ {k}
  BY DEF LapsedLeases, Resting
<1> QED
  BY <1>1, <1>2, <1>3 DEF LeaseMove, Lease!LeaseNext, Lease!GiveBack

\* The statement with which the run of t ends: it hits the row it holds, or a
\* row that rests, or nothing.
LEMMA EndMove ==
    ASSUME LeasedInv, TypeInv, NEW t \in Workers, NEW k \in Wakes, NEW q, RunOf[t] = k, Resting(q),
           NEW hit \in BOOLEAN, hit => J!HeldBy(job[k], t) \/ Resting(job[k]),
           job' = [job EXCEPT ![k] = IF hit THEN q ELSE job[k]],
           RunOf' = [RunOf EXCEPT ![t] = NoWake]
    PROVE  LeasedInv' /\ LeaseMove
<1>1. /\ \A w \in Wakes \ {k} : job'[w] = job[w]
      /\ job'[k] = IF hit THEN q ELSE job[k]
  BY TypeParts
<1>2. CASE hit /\ J!HeldBy(job[k], t)
  <2>1. Resting(job'[k])
    BY <1>1, <1>2
  <2> QED
    BY <1>1, <1>2, <2>1, GivenBackMove
<1>3. CASE hit /\ Resting(job[k])
  <2>1. Resting(job'[k])
    BY <1>1, <1>3
  <2>2. \A w \in Wakes : job'[w] = job[w] \/ (Resting(job[w]) /\ Resting(job'[w]))
    BY <1>1, <1>3, <2>1
  <2> QED
    BY <2>2, UntouchedMove
<1>4. CASE ~hit
  <2>1. \A w \in Wakes : job'[w] = job[w]
    BY <1>1, <1>4
  <2> QED
    BY <2>1, UntouchedMove
<1> QED
  BY <1>2, <1>3, <1>4

\* A queued row goes to an idle thread.
LEMMA AcquiredMove ==
    ASSUME LeasedInv, TypeInv, NEW t \in Workers, NEW k \in Wakes, RunOf[t] = NoWake,
           job[k].state = "queued", job' = [job EXCEPT ![k] = J!Claimed(job[k], t)],
           RunOf' = [RunOf EXCEPT ![t] = k]
    PROVE  LeasedInv' /\ LeaseMove
<1>1. /\ job'[k].state = "running" /\ job'[k].token = t /\ job'[k].lease = "live"
      /\ \A w \in Wakes \ {k} : job'[w] = job[w]
  <2>1. /\ job[k] \in J!Rows /\ job'[k] = J!Claimed(job[k], t)
        /\ \A w \in Wakes \ {k} : job'[w] = job[w]
    BY TypeParts
  <2>2. /\ J!Claimed(job[k], t).state = "running" /\ J!Claimed(job[k], t).token = t
        /\ J!Claimed(job[k], t).lease = "live"
    BY <2>1, LeaseEffects, Zenon
  <2> QED
    BY <2>1, <2>2
<1>2. LeasedInv'
  BY <1>1 DEF LeasedInv, LeasedRow
<1>3. OwnerOf[k] = NoToken /\ OwnerOf' = [OwnerOf EXCEPT ![k] = t]
  <2>1. \A w \in Wakes : OwnerOf'[w] = IF w = k THEN t ELSE OwnerOf[w]
    BY <1>1 DEF OwnerOf
  <2> QED
    BY <2>1 DEF OwnerOf
<1>4. LapsedLeases' = LapsedLeases
  BY <1>1 DEF LapsedLeases
<1> QED
  BY <1>2, <1>3, <1>4 DEF LeaseMove, Lease!LeaseNext, Lease!Acquire, Lease!Free

\* Time runs out for a lease.
LEMMA LapsedMove ==
    ASSUME LeasedInv, TypeInv, NEW k \in Wakes, job[k].state = "running",
           job' = [job EXCEPT ![k] = J!Lapsed(job[k])], RunOf' = RunOf
    PROVE  LeasedInv' /\ LeaseMove
<1>1. /\ job'[k].state = "running" /\ job'[k].token = job[k].token /\ job'[k].lease = "expired"
      /\ \A w \in Wakes \ {k} : job'[w] = job[w]
  <2>1. /\ job[k] \in J!Rows /\ job'[k] = J!Lapsed(job[k])
        /\ \A w \in Wakes \ {k} : job'[w] = job[w]
    BY TypeParts
  <2> QED
    BY <2>1, LeaseEffects
<1>2. LeasedInv'
  BY <1>1 DEF LeasedInv, LeasedRow
<1>3. OwnerOf[k] # NoToken /\ OwnerOf' = OwnerOf
  BY <1>1, NullAssumption DEF OwnerOf, LeasedInv, LeasedRow
<1>4. LapsedLeases' = LapsedLeases \cup {k}
  BY <1>1 DEF LapsedLeases
<1> QED
  BY <1>2, <1>3, <1>4 DEF LeaseMove, Lease!LeaseNext, Lease!Lapse, Lease!Free

\* The run that holds its row renews it.
LEMMA RenewedMove ==
    ASSUME LeasedInv, TypeInv, NEW t \in Workers, NEW k \in Wakes, RunOf[t] = k,
           J!HeldBy(job[k], t), job' = [job EXCEPT ![k] = J!Renewed(job[k])], RunOf' = RunOf
    PROVE  LeasedInv' /\ LeaseMove
<1>1. /\ job'[k].state = "running" /\ job'[k].token = t /\ job'[k].lease = "live"
      /\ job[k].state = "running" /\ job[k].token = t
      /\ \A w \in Wakes \ {k} : job'[w] = job[w]
  <2>1. /\ job[k] \in J!Rows /\ job'[k] = J!Renewed(job[k])
        /\ \A w \in Wakes \ {k} : job'[w] = job[w]
    BY TypeParts
  <2>2. /\ J!Renewed(job[k]).state = job[k].state /\ J!Renewed(job[k]).token = job[k].token
        /\ J!Renewed(job[k]).lease = "live"
    BY <2>1, LeaseEffects, Zenon
  <2>3. job[k].state = "running" /\ job[k].token = t
    BY DEF J!HeldBy
  <2> QED
    BY <2>1, <2>2, <2>3
<1>2. LeasedInv'
  BY <1>1 DEF LeasedInv, LeasedRow
<1>3. OwnerOf[k] = t /\ OwnerOf' = OwnerOf
  BY <1>1 DEF OwnerOf
<1>4. LapsedLeases' = LapsedLeases \ {k}
  BY <1>1 DEF LapsedLeases
<1> QED
  BY <1>2, <1>3, <1>4 DEF LeaseMove, Lease!LeaseNext, Lease!Renew

\* A step of a run: it goes on and leaves the rows alone, or it is over for
\* its row and ends with at most one statement on that row.
LEMMA LeaseRunStep ==
    ASSUME TypeInv, LeasedInv, NEW t \in Workers, RunStep(t)
    PROVE  LeasedInv' /\ LeaseMove
<1> DEFINE k == run[t].wake
<1>1. PICK r : run' = [run EXCEPT ![t] = r] /\ Moved(t, r)
  BY RunMoves
<1>2. run \in [Workers -> {Idle} \cup Busy] /\ run[t] \in Busy /\ job \in [Wakes -> J!Rows]
  BY TypeParts, RunMoves DEF RunsTyped
<1>3. k \in Wakes /\ job[k] \in J!Rows
  BY <1>2 DEF Busy
<1>4. \A u \in Workers : run'[u] = IF u = t THEN r ELSE run[u]
  BY <1>1, <1>2
<1>5. At(t, "debit") => r = Idle /\ UNCHANGED job
  <2>1. At(t, "debit") => Debit(t)
    BY DEF RunStep, At, Drop, DuplicateVerdict, RestoreMarker, CreditGate, StaleHead, Hold,
       LaneGate, StartAgent, AgentFails, AgentAnswers, MergeReads, MergeCall, BounceParks,
       BounceEscalates, BounceOrders, Order, PhaseRow, TriageMarker, Close
  <2>2. Debit(t) => run' = [run EXCEPT ![t] = Idle] /\ UNCHANGED job
    BY DEF Debit, Ends
  <2>3. Debit(t) => run'[t] = Idle
    BY <1>2, <2>2
  <2> QED
    BY <1>4, <2>1, <2>2, <2>3
<1>6. CASE r.pc \notin {"idle", "debit"}
  <2>1. r.wake = k /\ UNCHANGED job
    BY <1>1, <1>6 DEF Moved, Idle
  <2>2. ~At(t, "debit")
    BY <1>5, <1>6 DEF Idle
  <2>3. \A u \in Workers : RunOf'[u] = RunOf[u]
    BY <1>4, <1>6, <2>1, <2>2 DEF RunOf, At
  <2>4. RunOf' = RunOf
    BY <2>3 DEF RunOf
  <2> QED
    BY <2>1, <2>4, UntouchedMove
<1>7. CASE r.pc \in {"idle", "debit"}
  <2>1. r.pc = "debit" \/ r.wake = NoWake
    BY <1>1, <1>7 DEF Moved, Idle, Pcs
  <2>2. \A u \in Workers : RunOf'[u] = IF u = t THEN NoWake ELSE RunOf[u]
    BY <1>4, <2>1 DEF RunOf, At
  <2>3. RunOf' = [RunOf EXCEPT ![t] = NoWake]
    BY <2>2 DEF RunOf
  <2>4. CASE UNCHANGED job
    BY <2>3, <2>4, UntouchedMove
  <2>5. ~At(t, "debit") => RunOf[t] = k
    BY DEF RunOf
  <2>6. ASSUME NEW o, RowEnds(t, o), ~At(t, "debit") PROVE LeasedInv' /\ LeaseMove
    <3>1. job' = [job EXCEPT ![k] = IF J!HeldBy(job[k], t) THEN J!Resolved(job[k], o) ELSE job[k]]
      BY <2>6 DEF RowEnds
    <3>2. Resting(J!Resolved(job[k], o)) /\ J!HeldBy(job[k], t) \in BOOLEAN
      BY <1>3, LeaseEffects DEF J!HeldBy
    <3> HIDE DEF k
    <3> QED
      BY <1>3, <2>3, <2>5, <2>6, <3>1, <3>2, EndMove
  <2>7. ASSUME RowRetried(t), ~At(t, "debit") PROVE LeasedInv' /\ LeaseMove
    <3>1. job' = [job EXCEPT ![k] = IF J!HeldBy(job[k], t) THEN J!Retried(job[k]) ELSE job[k]]
      BY <2>7 DEF RowRetried
    <3>2. Resting(J!Retried(job[k])) /\ J!HeldBy(job[k], t) \in BOOLEAN
      BY <1>3, LeaseEffects DEF J!HeldBy
    <3> HIDE DEF k
    <3> QED
      BY <1>3, <2>3, <2>5, <2>7, <3>1, <3>2, EndMove
  <2>8. ASSUME CreditGate(t), ~UNCHANGED job, ~At(t, "debit") PROVE LeasedInv' /\ LeaseMove
    <3>1. job' = [job EXCEPT ![k] = IF J!ParkableBy(job[k], t) THEN J!Parked(job[k]) ELSE job[k]]
      BY <2>8 DEF CreditGate
    <3>2. Resting(J!Parked(job[k])) /\ J!ParkableBy(job[k], t) \in BOOLEAN
      BY <1>3, LeaseEffects DEF J!ParkableBy
    <3>3. J!ParkableBy(job[k], t) => J!HeldBy(job[k], t) \/ Resting(job[k])
      BY <1>3 DEF J!ParkableBy, J!HeldBy, Resting, LeasedInv, LeasedRow
    <3> HIDE DEF k
    <3> QED
      BY <1>3, <2>3, <2>5, <2>8, <3>1, <3>2, <3>3, EndMove
  <2>9. UNCHANGED job \/ RowRetried(t) \/ CreditGate(t) \/ \E o : RowEnds(t, o)
    BY DEF RunStep, Drop, DuplicateVerdict, RestoreMarker, StaleHead, Hold, LaneGate, StartAgent,
       AgentFails, AgentAnswers, MergeReads, MergeCall, BounceParks, BounceEscalates, BounceOrders,
       Order, PhaseRow, TriageMarker, Close, Debit
  <2> QED
    BY <1>5, <2>4, <2>6, <2>7, <2>8, <2>9
<1> QED
  BY <1>6, <1>7

\* A step of the environment, of the recovery loop or of a claim.
LEMMA LeaseOtherStep ==
    ASSUME TypeInv, LeasedInv, [Next]_vars, ~\E t \in Workers : RunStep(t)
    PROVE  LeasedInv' /\ LeaseMove
<1>1. /\ job \in [Wakes -> J!Rows] /\ run \in [Workers -> {Idle} \cup Busy]
      /\ \A w \in Wakes : job[w] \in J!Rows
  BY TypeParts DEF RunsTyped
<1>r. ASSUME UNCHANGED run PROVE RunOf' = RunOf
  BY <1>r DEF RunOf, At
\* A row that rests, or whose lease has lapsed, is put to rest.
<1>p. ASSUME NEW k \in Wakes, NEW q, Resting(q), job' = [job EXCEPT ![k] = q], RunOf' = RunOf,
             k \in LapsedLeases \/ Resting(job[k])
      PROVE  LeasedInv' /\ LeaseMove
  <2>1. job'[k] = q /\ \A w \in Wakes \ {k} : job'[w] = job[w]
    BY <1>1, <1>p
  <2>2. CASE k \in LapsedLeases
    <3>1. Resting(job'[k]) /\ RunOf' = RunOf /\ \A w \in Wakes \ {k} : job'[w] = job[w]
      BY <1>p, <2>1
    <3> QED
      BY <2>2, <3>1, BrokenMove, Zenon
  <2>3. CASE Resting(job[k])
    BY <1>p, <2>1, <2>3, UntouchedMove
  <2> QED
    BY <1>p, <2>2, <2>3
<1>2. ASSUME UNCHANGED <<job, run>> PROVE LeasedInv' /\ LeaseMove
  BY <1>2, <1>r, UntouchedMove
<1>3. ASSUME NEW t \in Workers, NEW w \in Wakes, Claim(t, w) PROVE LeasedInv' /\ LeaseMove
  <2> DEFINE r == [Idle EXCEPT !.pc = "gate", !.wake = w]
  <2>1. r.pc = "gate" /\ r.wake = w /\ Idle.pc = "idle" /\ Idle.wake = NoWake
    BY DEF Idle
  <2>2. run' = [run EXCEPT ![t] = r] /\ run[t] = Idle
    BY <1>3 DEF Claim
  <2>3. job[w].state = "queued" /\ job' = [job EXCEPT ![w] = J!Claimed(job[w], t)]
    BY <1>3 DEF Claim, J!Claimable
  <2> HIDE DEF r
  <2>4. \A u \in Workers : run'[u] = IF u = t THEN r ELSE run[u]
    BY <1>1, <2>2
  <2>5. \A u \in Workers : RunOf'[u] = IF u = t THEN w ELSE RunOf[u]
    BY <2>1, <2>4 DEF RunOf, At
  <2>6. RunOf' = [RunOf EXCEPT ![t] = w] /\ RunOf[t] = NoWake
    BY <2>1, <2>2, <2>5 DEF RunOf
  <2> QED
    BY <2>3, <2>6, AcquiredMove
<1>4. ASSUME NEW w \in Wakes, Recover(w) PROVE LeasedInv' /\ LeaseMove
  <2> DEFINE q == IF J!Exhausted(job[w]) THEN J!Parked(J!Recovered(job[w])) ELSE J!Recovered(job[w])
  <2>1. job' = [job EXCEPT ![w] = q] /\ RunOf' = RunOf /\ w \in LapsedLeases
    BY <1>4, <1>r DEF Recover, J!Recoverable, LapsedLeases
  <2>2. Resting(q)
    BY <1>1, RowsClosed, LeaseEffects
  <2> HIDE DEF q
  <2> QED
    BY <1>p, <2>1, <2>2
<1>5. ASSUME NEW w \in Wakes, Deliver(w) PROVE LeasedInv' /\ LeaseMove
  <2> DEFINE q == J!Created(job[w], TRUE)
  <2>1. job' = [job EXCEPT ![w] = q] /\ RunOf' = RunOf
    BY <1>5, <1>r DEF Deliver
  <2>2. w \in LapsedLeases \/ Resting(job[w])
    BY <1>5 DEF Deliver, J!Creatable, LapsedLeases, Resting, LeasedInv, LeasedRow
  <2>3. Resting(q)
    BY <1>1, LeaseEffects
  <2> HIDE DEF q
  <2> QED
    BY <1>p, <2>1, <2>2, <2>3
<1>6. ASSUME NEW w \in Wakes, LeaseExpires(w) PROVE LeasedInv' /\ LeaseMove
  <2>1. RunOf' = RunOf /\ job[w].state = "running" /\ job' = [job EXCEPT ![w] = J!Lapsed(job[w])]
    BY <1>6, <1>r DEF LeaseExpires
  <2> QED
    BY <2>1, LapsedMove
<1>7. ASSUME NEW t \in Workers, RenewLease(t) PROVE LeasedInv' /\ LeaseMove
  <2> DEFINE k == run[t].wake
  <2>1. /\ RunOf' = RunOf /\ At(t, "agent") /\ J!HeldBy(job[k], t)
        /\ job' = [job EXCEPT ![k] = J!Renewed(job[k])]
    BY <1>7, <1>r DEF RenewLease
  <2>2. k \in Wakes /\ RunOf[t] = k
    BY <1>1, <2>1 DEF RunOf, At, Idle, Busy
  <2> HIDE DEF k
  <2> QED
    BY <2>1, <2>2, RenewedMove
<1>8. ASSUME NEW t \in Workers, RunRaises(t) PROVE LeasedInv' /\ LeaseMove
  <2>1. UNCHANGED job /\ run' = [run EXCEPT ![t] = Idle]
    BY <1>8 DEF RunRaises, Ends
  <2>2. \A u \in Workers : run'[u] = IF u = t THEN Idle ELSE run[u]
    BY <1>1, <2>1
  <2>3. \A u \in Workers : RunOf'[u] = IF u = t THEN NoWake ELSE RunOf[u]
    BY <2>2 DEF RunOf, At, Idle
  <2>4. RunOf' = [RunOf EXCEPT ![t] = NoWake]
    BY <2>3 DEF RunOf
  <2> QED
    BY <2>1, <2>4, UntouchedMove
<1>9. ASSUME Crash PROVE LeasedInv' /\ LeaseMove
  <2>1. UNCHANGED job /\ run' = [t \in Workers |-> Idle]
    BY <1>9 DEF Crash
  <2>2. RunOf' = [t \in Workers |-> NoWake]
    BY <2>1 DEF RunOf, At, Idle
  <2> QED
    BY <2>1, <2>2, UntouchedMove
<1>10. \/ UNCHANGED <<job, run>> \/ Crash
       \/ \E t \in Workers : \/ RunRaises(t) \/ RenewLease(t)
                             \/ \E w \in Wakes : Claim(t, w)
       \/ \E w \in Wakes : Recover(w) \/ Deliver(w) \/ LeaseExpires(w)
  BY DEF Next, Environment, vars, BuilderFinishes, Push, AdvisorDecides
<1> QED
  BY <1>2, <1>3, <1>4, <1>5, <1>6, <1>7, <1>8, <1>9, <1>10

\* Every step is a step of JobLease or leaves the leases alone, and keeps the
\* columns of the rows consistent.
LEMMA LeaseStep ==
    TypeInv /\ LeasedInv /\ [Next]_vars => LeasedInv' /\ LeaseMove
  BY LeaseRunStep, LeaseOtherStep

\* Triage implements the lease protocol of JobLease: nobody but the run that
\* owns a wake ends a live lease on it, and a run that lost its wake changes
\* nothing of the row when it ends, for any number of verdicts and threads.
THEOREM TriageImplementsJobLease == Spec => LeaseRefined
<1>1. Init => Lease!LeaseInit
  BY DEF Init, Lease!LeaseInit, OwnerOf, LapsedLeases, RunOf, At, J!Absent, Idle
<1>2. Init => LeasedInv
  BY DEF Init, LeasedInv, LeasedRow, J!Absent
<1>3. LeaseMove => [Lease!LeaseNext]_(Lease!leaseVars)
  BY DEF LeaseMove, Lease!leaseVars
<1> QED
  BY TypeInit, TypeStep, <1>1, <1>2, <1>3, LeaseStep, PTL DEF Spec, LeaseRefined, Lease!LeaseSpec
=============================================================================
