-------------------------- MODULE BuilderLaneProofs --------------------------
(***************************************************************************)
(* Theorems about BuilderLane for every number of PRs, rounds, slots,      *)
(* routes and attempts, and every bound on the environment.                *)
(***************************************************************************)
EXTENDS BuilderLane, TLAPS

-----------------------------------------------------------------------------
(* The row operators keep a row a row.                                     *)

\* No statement the builder lane uses builds a row outside the table's type.
LEMMA RowsClosed ==
    ASSUME NEW r \in J!Rows
    PROVE  /\ J!Absent \in J!Rows
           /\ J!Created(r, FALSE) \in J!Rows
           /\ \A d \in Slots : J!Claimed(r, d) \in J!Rows
           /\ \A o \in J!TerminalOutcomes : J!Resolved(r, o) \in J!Rows
           /\ J!Retried(r) \in J!Rows
           /\ J!Parked(r) \in J!Rows
           /\ J!Renewed(r) \in J!Rows
           /\ J!Recovered(r) \in J!Rows
           /\ J!Superseded(r) \in J!Rows
           /\ J!Lapsed(r) \in J!Rows
<1> USE DEF J!Rows, J!States, J!Outcomes, J!TerminalOutcomes, J!Leases
<1>1. J!Absent \in J!Rows
  BY DEF J!Absent
<1>2. J!Created(r, FALSE) \in J!Rows
  BY DEF J!Created
<1>3. \A d \in Slots : J!Claimed(r, d) \in J!Rows
  <2> TAKE d \in Slots
  <2>1. r.attempt + 1 \in Nat
    OBVIOUS
  <2>2. [[r EXCEPT !.state = "running"] EXCEPT !.attempt = r.attempt + 1] \in J!Rows
    BY <2>1, Zenon
  <2> QED
    BY <2>1, <2>2, Zenon DEF J!Claimed
<1>4. \A o \in J!TerminalOutcomes : J!Resolved(r, o) \in J!Rows
  BY DEF J!Resolved
<1>5. J!Retried(r) \in J!Rows
  <2>1. CASE J!Exhausted(r)
    BY <2>1 DEF J!Retried
  <2>2. CASE ~J!Exhausted(r)
    BY <2>2 DEF J!Retried
  <2> QED
    BY <2>1, <2>2
<1>6. J!Parked(r) \in J!Rows /\ J!Renewed(r) \in J!Rows
  BY DEF J!Parked, J!Renewed
<1>7. J!Recovered(r) \in J!Rows
  BY DEF J!Recovered
<1>8. J!Superseded(r) \in J!Rows
  BY DEF J!Superseded
<1>9. J!Lapsed(r) \in J!Rows
  BY DEF J!Lapsed
<1> QED
  BY <1>1, <1>2, <1>3, <1>4, <1>5, <1>6, <1>7, <1>8, <1>9

\* What a dispatch writes when it gives its round back keeps the table's type.
LEMMA RowEndsType ==
    ASSUME TypeOK, NEW j \in Jobs, NEW d, NEW o \in J!TerminalOutcomes, RowEnds(j, d, o)
    PROVE  job' \in [Jobs -> J!Rows]
<1>1. job[j] \in J!Rows
  BY DEF TypeOK
<1>2. J!Resolved(job[j], o) \in J!Rows
  BY <1>1, RowsClosed
<1> QED
  BY <1>1, <1>2 DEF TypeOK, RowEnds

-----------------------------------------------------------------------------
(* Type correctness.                                                       *)

Dispatches == [pc : {"idle", "start", "ready", "agent", "ended", "finished"},
               job : Jobs \cup {NoJob}, tree : Nat, before : Nat,
               committed : BOOLEAN, left : Nat, verdict : Verdicts]

SlotsTyped == /\ slot \in [Slots -> Dispatches]
              /\ \A d \in Slots : slot[d].pc # "idle" => slot[d].job \in Jobs

\* A dispatch thread that writes a well-formed entry keeps the slots typed.
LEMMA SlotWrite ==
    ASSUME SlotsTyped, NEW d \in Slots, NEW r \in Dispatches, r.pc # "idle" => r.job \in Jobs,
           slot' = [slot EXCEPT ![d] = r]
    PROVE  SlotsTyped'
  BY DEF SlotsTyped

\* So does one that ends.
LEMMA FinishedTyped ==
    ASSUME SlotsTyped, NEW d \in Slots, slot[d].pc # "idle", Finished(d)
    PROVE  SlotsTyped'
<1> DEFINE r == [IdleSlot EXCEPT !.pc = "finished", !.job = slot[d].job]
<1>1. r \in Dispatches /\ r.job \in Jobs
  BY DEF SlotsTyped, IdleSlot, Dispatches, Verdicts
<1>2. slot' = [slot EXCEPT ![d] = r]
  BY DEF Finished
<1> QED
  BY <1>1, <1>2, SlotWrite

\* A push counts the head up.
LEMMA PushedTyped ==
    ASSUME TypeOK, NEW p \in PRs, NEW h \in Nat, Pushed(p, h)
    PROVE  /\ pr' \in [PRs -> [head : Nat, top : Nat, rounds : 0..TopRound]]
           /\ spent' \in [bounces : Nat, pushes : Nat, lapses : Nat, crashes : Nat]
<1>1. pr[p] \in [head : Nat, top : Nat, rounds : 0..TopRound]
  BY DEF TypeOK
<1> DEFINE r == [pr[p] EXCEPT !.head = h, !.top = IF pr[p].top < h THEN h ELSE pr[p].top]
<1>2. r \in [head : Nat, top : Nat, rounds : 0..TopRound]
  BY <1>1
<1>3. pr' = [pr EXCEPT ![p] = r]
  BY DEF Pushed, TypeOK
<1>4. spent.pushes + 1 \in Nat /\ spent' = [spent EXCEPT !.pushes = spent.pushes + 1]
  BY DEF Pushed, TypeOK
<1> QED
  BY <1>2, <1>3, <1>4 DEF TypeOK

\* The initial state is well typed.
LEMMA TypeInit == Init => TypeOK
<1> SUFFICES ASSUME Init PROVE TypeOK
  OBVIOUS
<1>1. J!Absent \in J!Rows
  BY DEF J!Absent, J!Rows, J!States, J!Outcomes, J!TerminalOutcomes, J!Leases
<1>2. job \in [Jobs -> J!Rows]
  BY <1>1 DEF Init
<1>3. 0 \in 0..TopRound
  BY BoundsAssumption
<1> QED
  BY <1>2, <1>3, NoJobAssumption, NullAssumption DEF Init, TypeOK, AtPoll, IdleSlot, Verdicts

\* Every step of the worker that bounces, of the main thread, of a dispatch
\* thread and of the environment keeps the types.
LEMMA TypeStep == TypeOK /\ [Next]_vars => TypeOK'
<1> SUFFICES ASSUME TypeOK, [Next]_vars PROVE TypeOK'
  OBVIOUS
<1> USE DEF TypeOK
<1>1. ASSUME NEW p \in PRs, NEW h \in 1..MaxPushes + 1, NEW n \in 1..TopRound, NEW e \in BOOLEAN,
             Bounce(p, h, n, e)
      PROVE  TypeOK'
  <2> DEFINE j == <<p, n>>
  <2>1. j \in Jobs /\ n \in 0..TopRound /\ h \in Nat
    BY BoundsAssumption DEF Jobs
  <2>2. job[j] \in J!Rows /\ J!Created(job[j], FALSE) \in J!Rows
    BY <2>1, RowsClosed
  <2>3. job' \in [Jobs -> J!Rows]
    BY <1>1, <2>1, <2>2 DEF Bounce
  <2>4. order' \in [Jobs -> [sha : Nat, escalated : BOOLEAN]]
    <3>1. CASE order' = Ordered(j, h, e)
      BY <1>1, <2>1, <3>1 DEF Ordered
    <3> QED
      BY <1>1, <3>1 DEF Bounce
  <2>5. spent' \in [bounces : Nat, pushes : Nat, lapses : Nat, crashes : Nat]
    BY <1>1 DEF Bounce
  <2>6. pr' \in [PRs -> [head : Nat, top : Nat, rounds : 0..TopRound]]
    <3>1. [pr[p] EXCEPT !.rounds = IF pr[p].rounds < n THEN n ELSE pr[p].rounds]
             \in [head : Nat, top : Nat, rounds : 0..TopRound]
      BY <2>1
    <3>2. \/ pr' = [pr EXCEPT ![p] = [pr[p] EXCEPT !.rounds =
                        IF pr[p].rounds < n THEN n ELSE pr[p].rounds]]
          \/ pr' = pr
      BY <1>1 DEF Bounce
    <3> QED
      BY <3>1, <3>2
  <2> QED
    BY <1>1, <2>3, <2>4, <2>5, <2>6 DEF Bounce
<1>2. CASE Recover
  <2>1. \A j \in Jobs : J!Recovered(job[j]) \in J!Rows
    BY RowsClosed
  <2>2. job' \in [Jobs -> J!Rows]
    BY <1>2, <2>1 DEF Recover
  <2> QED
    BY <1>2, <2>2, NoJobAssumption DEF Recover
<1>3. ASSUME NEW j \in Jobs, ParkRecovered(j) PROVE TypeOK'
  <2>1. job' \in [Jobs -> J!Rows]
    BY <1>3, RowsClosed DEF ParkRecovered
  <2> QED
    BY <1>3, <2>1 DEF ParkRecovered
<1>4. ASSUME NEW d \in Slots, NEW j \in Jobs, Claim(d, j) PROVE TypeOK'
  <2>1. job' \in [Jobs -> J!Rows]
    BY <1>4, RowsClosed DEF Claim
  <2> QED
    BY <1>4, <2>1 DEF Claim
<1>5. CASE SupersedeOlder
  <2>1. job' \in [Jobs -> J!Rows]
    BY <1>5, RowsClosed DEF SupersedeOlder
  <2> QED
    BY <1>5, <2>1 DEF SupersedeOlder
<1>6. CASE ParkOverCap
  <2>1. main.job \in Jobs
    BY <1>6 DEF ParkOverCap
  <2>2. job' \in [Jobs -> J!Rows]
    BY <1>6, <2>1, RowsClosed DEF ParkOverCap
  <2> QED
    BY <1>6, <2>2, NoJobAssumption DEF ParkOverCap, BackToFill
<1>7. CASE TurnAway
  <2>1. main.job \in Jobs
    BY <1>7 DEF TurnAway
  <2>2. "no_installation" \in J!TerminalOutcomes /\ "no_change" \in J!TerminalOutcomes
    BY DEF J!TerminalOutcomes
  <2>3. job' \in [Jobs -> J!Rows]
    BY <1>7, <2>1, <2>2, RowEndsType DEF TurnAway
  <2> QED
    BY <1>7, <2>3, NoJobAssumption DEF TurnAway, BackToFill
<1>8. CASE HandOver
  <2>1. main.job \in Jobs /\ main.job[1] \in PRs /\ main.slot \in Slots
    BY <1>8 DEF HandOver, Jobs
  <2>2. slot' = [slot EXCEPT ![main.slot] = [IdleSlot EXCEPT !.pc = "start", !.job = main.job]]
    BY <1>8 DEF HandOver
  <2>3. [IdleSlot EXCEPT !.pc = "start", !.job = main.job] \in Dispatches
    BY <2>1 DEF IdleSlot, Dispatches, Verdicts
  <2>4. SlotsTyped
    BY DEF SlotsTyped, Dispatches
  <2>5. [IdleSlot EXCEPT !.pc = "start", !.job = main.job].job \in Jobs
    BY <2>1 DEF IdleSlot
  <2>6. SlotsTyped'
    BY <2>1, <2>2, <2>3, <2>4, <2>5, SlotWrite
  <2>7. /\ keys' \subseteq PRs
        /\ main' = [main EXCEPT !.pc = "fill", !.job = NoJob, !.slot = NoToken]
        /\ UNCHANGED <<job, order, pr, newest, spent>>
    BY <1>8, <2>1 DEF HandOver, BackToFill
  <2> QED
    BY <2>6, <2>7, NoJobAssumption DEF SlotsTyped, Dispatches
<1>9. CASE PoolFilled
  BY <1>9 DEF PoolFilled
<1>10. CASE Reap
  <2>1. IdleSlot \in Dispatches
    BY DEF IdleSlot, Dispatches, Verdicts
  <2>2. slot' \in [Slots -> Dispatches]
    BY <1>10, <2>1 DEF Reap, Dispatches
  <2>3. \A d \in Slots : slot'[d].pc # "idle" => slot'[d].job \in Jobs
    BY <1>10 DEF Reap, IdleSlot
  <2>4. main' = [main EXCEPT !.pc = "poll"] /\ main.pc = "wait"
    BY <1>10 DEF Reap
  <2>5. keys' \subseteq PRs
    BY <1>10 DEF Reap
  <2> QED
    BY <1>10, <2>2, <2>3, <2>4, <2>5 DEF Reap, Dispatches
<1>11. ASSUME NEW d \in Slots, SlotStep(d) \/ AgentStep(d) PROVE TypeOK'
  <2> HIDE DEF TypeOK
  <2>1. /\ SlotsTyped
        /\ slot[d].pc # "idle" => /\ slot[d].job \in Jobs
                                  /\ slot[d].job[1] \in PRs
                                  /\ slot[d].job[2] \in 0..TopRound
    BY BoundsAssumption DEF TypeOK, SlotsTyped, Dispatches, Jobs
  <2>2. "no_installation" \in J!TerminalOutcomes /\ "no_change" \in J!TerminalOutcomes
        /\ "done" \in J!TerminalOutcomes
    BY DEF J!TerminalOutcomes
  <2>3. SUFFICES /\ job' \in [Jobs -> J!Rows]
                 /\ SlotsTyped'
                 /\ newest' \in [PRs -> 0..TopRound]
                 /\ pr' \in [PRs -> [head : Nat, top : Nat, rounds : 0..TopRound]]
                 /\ spent' \in [bounces : Nat, pushes : Nat, lapses : Nat, crashes : Nat]
                 /\ UNCHANGED <<order, main, keys>>
    BY DEF TypeOK, SlotsTyped, Dispatches
  <2>4. slot[d] \in Dispatches
    BY <2>1 DEF SlotsTyped
  <2>5. CASE DispatchTurnedAway(d)
    <3>1. job' \in [Jobs -> J!Rows]
      BY <2>1, <2>2, <2>5, RowEndsType DEF DispatchTurnedAway
    <3> QED
      BY <2>1, <2>5, <3>1, FinishedTyped DEF DispatchTurnedAway, TypeOK
  <2>6. CASE LeaveRunning(d)
    <3>1. SlotsTyped'
      BY <2>1, <2>6, FinishedTyped DEF LeaveRunning
    <3> QED
      BY <2>6, <3>1 DEF LeaveRunning, TypeOK
  <2>7. CASE PrepareWorktree(d)
    <3> DEFINE r == [slot[d] EXCEPT !.pc = "ready", !.tree = pr[slot[d].job[1]].head]
    <3>1. pr[slot[d].job[1]].head \in Nat
      BY <2>1, <2>7 DEF PrepareWorktree, TypeOK
    <3>2. r \in Dispatches /\ r.job \in Jobs
      BY <2>1, <2>4, <2>7, <3>1 DEF PrepareWorktree, Dispatches
    <3>3. slot' = [slot EXCEPT ![d] = r]
      BY <2>1, <2>7 DEF PrepareWorktree, SlotsTyped
    <3>4. SlotsTyped'
      BY <2>1, <3>2, <3>3, SlotWrite
    <3> QED
      BY <2>7, <3>4 DEF PrepareWorktree, TypeOK
  <2>8. CASE StaleRound(d) \/ NoAssessment(d)
    <3>1. job' \in [Jobs -> J!Rows]
      BY <2>1, <2>2, <2>8, RowEndsType DEF StaleRound, NoAssessment
    <3>2. SlotsTyped'
      BY <2>1, <2>8, FinishedTyped DEF StaleRound, NoAssessment
    <3> QED
      BY <2>8, <3>1, <3>2 DEF StaleRound, NoAssessment, TypeOK
  <2>9. CASE Launch(d)
    <3> DEFINE p == slot[d].job[1]
               r == [slot[d] EXCEPT !.pc = "agent", !.before = pr[p].head, !.left = Routes]
    <3>1. p \in PRs /\ pr[p].head \in Nat
      BY <2>1, <2>9 DEF Launch, TypeOK
    <3>2. r \in Dispatches /\ r.job \in Jobs
      BY <2>1, <2>4, <2>9, <3>1, BoundsAssumption DEF Launch, Dispatches
    <3>3. slot' = [slot EXCEPT ![d] = r]
      BY <2>1, <2>9 DEF Launch, SlotsTyped
    <3>4. SlotsTyped'
      BY <2>1, <3>2, <3>3, SlotWrite
    <3>5. newest' \in [PRs -> 0..TopRound]
      BY <2>1, <2>9 DEF Launch, TypeOK
    <3> QED
      BY <2>9, <3>4, <3>5 DEF Launch, TypeOK
  <2>10. CASE AgentFails(d)
    <3>1. job' \in [Jobs -> J!Rows]
      BY <2>1, <2>10, RowsClosed DEF AgentFails, TypeOK
    <3>2. SlotsTyped'
      BY <2>1, <2>10, FinishedTyped DEF AgentFails
    <3> QED
      BY <2>10, <3>1, <3>2 DEF AgentFails, TypeOK
  <2>11. ASSUME NEW v \in Verdicts, slot[d].pc = "agent", slot' = Returned(d, v)
         PROVE  SlotsTyped'
    <3> DEFINE r == [slot[d] EXCEPT !.pc = "ended", !.verdict = v, !.tree = 0,
                                    !.committed = FALSE, !.left = 0]
    <3>1. r \in Dispatches /\ r.job \in Jobs
      BY <2>1, <2>4, <2>11 DEF Dispatches
    <3>2. slot' = [slot EXCEPT ![d] = r]
      BY <2>1, <2>11 DEF Returned, SlotsTyped
    <3> QED
      BY <2>1, <3>1, <3>2, SlotWrite
  <2>12. CASE RouteFallsThrough(d)
    <3>1. CASE slot[d].committed \/ slot[d].left = 1
      BY <2>11, <2>12, <3>1 DEF RouteFallsThrough, Verdicts, TypeOK
    <3>2. CASE ~(slot[d].committed \/ slot[d].left = 1)
      <4> DEFINE r == [slot[d] EXCEPT !.left = slot[d].left - 1]
      <4>1. r \in Dispatches /\ r.job \in Jobs
        BY <2>1, <2>4, <2>12 DEF RouteFallsThrough, Dispatches
      <4>2. slot' = [slot EXCEPT ![d] = r]
        BY <2>1, <2>12, <3>2 DEF RouteFallsThrough, SlotsTyped
      <4>3. SlotsTyped'
        BY <2>1, <4>1, <4>2, SlotWrite
      <4> QED
        BY <2>12, <4>3 DEF RouteFallsThrough, TypeOK
    <3> QED
      BY <3>1, <3>2
  <2>13. CASE Conclude(d)
    <3>1. RoundOutcome(d) \in J!TerminalOutcomes
      BY <2>2 DEF RoundOutcome
    <3>2. job' \in [Jobs -> J!Rows]
      BY <2>1, <2>13, <3>1, RowEndsType DEF Conclude
    <3>3. SlotsTyped'
      BY <2>1, <2>13, FinishedTyped DEF Conclude
    <3> QED
      BY <2>13, <3>2, <3>3 DEF Conclude, TypeOK
  <2>14. CASE \E v \in {"FIXED", "other"} : AgentCompletes(d, v)
    BY <2>11, <2>14 DEF AgentCompletes, Verdicts, TypeOK
  <2>15. CASE AgentCommits(d)
    <3> DEFINE r == [slot[d] EXCEPT !.committed = TRUE]
    <3>1. r \in Dispatches /\ r.job \in Jobs
      BY <2>1, <2>4, <2>15 DEF AgentCommits, Dispatches
    <3>2. slot' = [slot EXCEPT ![d] = r]
      BY <2>1, <2>15 DEF AgentCommits, SlotsTyped
    <3>3. SlotsTyped'
      BY <2>1, <3>1, <3>2, SlotWrite
    <3> QED
      BY <2>15, <3>3 DEF AgentCommits, TypeOK
  <2>16. CASE AgentPushes(d)
    <3> DEFINE p == slot[d].job[1]
               r == [slot[d] EXCEPT !.tree = pr[p].top + 1]
    <3>1. p \in PRs /\ pr[p].top + 1 \in Nat
      BY <2>1, <2>16 DEF AgentPushes, TypeOK
    <3>2. r \in Dispatches /\ r.job \in Jobs
      BY <2>1, <2>4, <2>16, <3>1 DEF AgentPushes, Dispatches
    <3>3. slot' = [slot EXCEPT ![d] = r]
      BY <2>1, <2>16 DEF AgentPushes, SlotsTyped
    <3>4. SlotsTyped'
      BY <2>1, <3>2, <3>3, SlotWrite
    <3> QED
      BY <2>16, <3>1, <3>4, PushedTyped DEF AgentPushes, TypeOK
  <2>17. CASE RenewLease(d)
    <3>1. job' \in [Jobs -> J!Rows]
      BY <2>1, <2>17, RowsClosed DEF RenewLease, TypeOK
    <3> QED
      BY <2>1, <2>17, <3>1 DEF RenewLease, TypeOK, SlotsTyped
  <2> QED
    BY <1>11, <2>5, <2>6, <2>7, <2>8, <2>9, <2>10, <2>12, <2>13, <2>14, <2>15, <2>16, <2>17
    DEF SlotStep, AgentStep
<1>12. ASSUME NEW p \in PRs, AuthorPushes(p) PROVE TypeOK'
  <2>1. PICK h \in (1..pr[p].top + 1) \ {pr[p].head} : Pushed(p, h)
    BY <1>12 DEF AuthorPushes
  <2>2. h \in Nat
    BY <2>1
  <2> QED
    BY <1>12, <2>1, <2>2, PushedTyped DEF AuthorPushes
<1>13. ASSUME NEW j \in Jobs, LeaseExpires(j) PROVE TypeOK'
  <2>1. job' \in [Jobs -> J!Rows]
    BY <1>13, RowsClosed DEF LeaseExpires
  <2>2. spent' \in [bounces : Nat, pushes : Nat, lapses : Nat, crashes : Nat]
    BY <1>13 DEF LeaseExpires
  <2> QED
    BY <1>13, <2>1, <2>2 DEF LeaseExpires
<1>14. CASE MainRaises
  BY <1>14, NoJobAssumption DEF MainRaises, Crashes, AtPoll
<1>15. CASE RestartAfterRaise
  BY <1>15, NoJobAssumption DEF RestartAfterRaise, Restarted, AtPoll, IdleSlot, Verdicts
<1>16. CASE Crash
  BY SMTT(40), <1>16, NoJobAssumption DEF Crash, Crashes, Restarted, AtPoll, IdleSlot, Verdicts
<1>17. CASE UNCHANGED vars
  BY <1>17 DEF vars
<1> HIDE DEF TypeOK
<1>18. CASE MainStep
  BY <1>2, <1>3, <1>4, <1>5, <1>6, <1>7, <1>8, <1>9, <1>10, <1>18 DEF MainStep
<1>19. CASE Environment
  BY <1>1, <1>12, <1>13, <1>14, <1>15, <1>16, <1>19 DEF Environment
<1> QED
  BY <1>11, <1>17, <1>18, <1>19 DEF Next

\* TypeOK holds in every reachable state.
THEOREM TypeCorrect == Spec => []TypeOK
  BY TypeInit, TypeStep, PTL DEF Spec

-----------------------------------------------------------------------------
(* One dispatch per PR.                                                    *)

\* The key of every future in `inflight` is in inflight_keys, no two futures
\* have one key, and the round in the main thread's hands has none yet.
KeyInv ==
    /\ \A d \in Slots : slot[d].pc # "idle" => slot[d].job[1] \in keys
    /\ \A d, e \in Slots : slot[d].pc # "idle" /\ slot[e].pc # "idle"
                             /\ slot[d].job[1] = slot[e].job[1] => d = e
    /\ main.pc \in {"claimed", "cleared"} =>
           main.job[1] \notin keys /\ slot[main.slot].pc = "idle"

\* A step that leaves the keys alone, starts no dispatch and changes the round
\* of none keeps the keys right, as long as it hands the main thread no round.
LEMMA KeysKept ==
    ASSUME KeyInv, keys' = keys,
           \A d \in Slots : slot'[d].pc # "idle" => /\ slot[d].pc # "idle"
                                                   /\ slot'[d].job = slot[d].job,
           main'.pc \in {"claimed", "cleared"} =>
               /\ main.pc \in {"claimed", "cleared"} /\ main.slot \in Slots
               /\ main'.job = main.job /\ main'.slot = main.slot
    PROVE  KeyInv'
  BY DEF KeyInv

\* Every step keeps the keys right.
LEMMA KeyStep == TypeOK /\ KeyInv /\ [Next]_vars => KeyInv'
<1> SUFFICES ASSUME TypeOK, KeyInv, [Next]_vars PROVE KeyInv'
  OBVIOUS
<1>1. ASSUME NEW d \in Slots, SlotStep(d) \/ AgentStep(d) PROVE KeyInv'
  <2>1. /\ slot[d].pc # "idle" /\ keys' = keys /\ main' = main
        /\ \E r \in Dispatches : r.job = slot[d].job /\ slot' = [slot EXCEPT ![d] = r]
    <3> USE DEF TypeOK, Dispatches
    <3>1. CASE DispatchTurnedAway(d) \/ LeaveRunning(d) \/ StaleRound(d) \/ NoAssessment(d)
               \/ AgentFails(d) \/ Conclude(d)
      <4>1. slot' = [slot EXCEPT ![d] = [IdleSlot EXCEPT !.pc = "finished", !.job = slot[d].job]]
        BY <3>1 DEF DispatchTurnedAway, LeaveRunning, StaleRound, NoAssessment, AgentFails,
                    Conclude, Finished
      <4>2. [IdleSlot EXCEPT !.pc = "finished", !.job = slot[d].job] \in Dispatches
        BY DEF IdleSlot, Verdicts
      <4>3. [IdleSlot EXCEPT !.pc = "finished", !.job = slot[d].job].job = slot[d].job
        BY DEF IdleSlot
      <4>4. slot[d].pc # "idle" /\ keys' = keys /\ main' = main
        BY <3>1 DEF DispatchTurnedAway, LeaveRunning, StaleRound, NoAssessment, AgentFails,
                    Conclude
      <4> QED
        BY <4>1, <4>2, <4>3, <4>4
    <3>2. CASE ~(DispatchTurnedAway(d) \/ LeaveRunning(d) \/ StaleRound(d) \/ NoAssessment(d)
                 \/ AgentFails(d) \/ Conclude(d))
      <4>1. SlotsTyped'
        <5>1. TypeOK'
          BY TypeStep
        <5> QED
          BY <5>1 DEF SlotsTyped
      <4>2. slot'[d] \in Dispatches
        BY <4>1 DEF SlotsTyped
      <4>3. /\ slot[d].pc # "idle" /\ keys' = keys /\ main' = main
            /\ slot'[d].job = slot[d].job
            /\ slot' = [slot EXCEPT ![d] = slot'[d]]
        BY <1>1, <3>2, <4>2 DEF SlotStep, AgentStep, PrepareWorktree, Launch, RouteFallsThrough,
                    AgentCompletes, AgentCommits, AgentPushes, RenewLease, Returned
      <4> QED
        BY <4>2, <4>3
    <3> QED
      BY <3>1, <3>2
  <2>2. /\ keys' = keys
        /\ \A e \in Slots : slot'[e].pc # "idle" => /\ slot[e].pc # "idle"
                                                    /\ slot'[e].job = slot[e].job
        /\ main'.pc \in {"claimed", "cleared"} =>
               /\ main.pc \in {"claimed", "cleared"} /\ main.slot \in Slots
               /\ main'.job = main.job /\ main'.slot = main.slot
    BY <2>1 DEF TypeOK
  <2> QED
    BY <2>2, KeysKept
<1>2. ASSUME NEW d \in Slots, NEW j \in Jobs, Claim(d, j) PROVE KeyInv'
  BY <1>2 DEF Claim, ClaimableRound, KeyInv, TypeOK
<1>3. CASE HandOver
  <2> DEFINE r == [IdleSlot EXCEPT !.pc = "start", !.job = main.job]
             s == main.slot
  <2>1. /\ s \in Slots /\ main.job[1] \notin keys /\ slot[s].pc = "idle"
    BY <1>3 DEF HandOver, KeyInv, TypeOK
  <2>2. /\ slot' = [slot EXCEPT ![s] = r] /\ r.job = main.job /\ r.pc = "start"
        /\ keys' = keys \cup {main.job[1]} /\ main'.pc = "fill"
    BY <1>3 DEF HandOver, BackToFill, IdleSlot, TypeOK
  <2>3. slot'[s] = r /\ \A d \in Slots \ {s} : slot'[d] = slot[d]
    BY <2>1, <2>2 DEF TypeOK
  <2> QED
    BY <2>1, <2>2, <2>3 DEF KeyInv
<1>4. CASE Reap
  <2>1. /\ \A d \in Slots : slot'[d].pc # "idle" => d \notin Done /\ slot'[d] = slot[d]
        /\ keys' = keys \ {slot[d].job[1] : d \in Done}
        /\ main'.pc = "poll"
    BY <1>4 DEF Reap, TypeOK, IdleSlot
  <2>2. \A d \in Slots : slot'[d].pc # "idle" => slot[d].job[1] \notin {slot[e].job[1] : e \in Done}
    BY <2>1 DEF KeyInv, Done
  <2> QED
    BY <2>1, <2>2 DEF KeyInv
<1>5. CASE RestartAfterRaise \/ Crash
  BY <1>5 DEF RestartAfterRaise, Crash, Restarted, KeyInv, IdleSlot, AtPoll
<1>6. CASE \/ Recover \/ ParkOverCap \/ TurnAway \/ PoolFilled \/ MainRaises
           \/ \E j \in Jobs : ParkRecovered(j)
  <2>1. keys' = keys /\ slot' = slot /\ main'.pc \notin {"claimed", "cleared"}
    BY <1>6 DEF Recover, ParkOverCap, TurnAway, PoolFilled, MainRaises, ParkRecovered, BackToFill,
                AtPoll, TypeOK
  <2> QED
    BY <2>1, KeysKept
<1>7. CASE \/ SupersedeOlder \/ UNCHANGED vars
           \/ \E p \in PRs : AuthorPushes(p)
           \/ \E p \in PRs, h \in 1..MaxPushes + 1, n \in 1..TopRound, e \in BOOLEAN :
                  Bounce(p, h, n, e)
           \/ \E j \in Jobs : LeaseExpires(j)
  <2>1. /\ keys' = keys /\ slot' = slot
        /\ \/ main' = main
           \/ main' = [main EXCEPT !.pc = "cleared"] /\ main.pc = "claimed"
    BY <1>7 DEF SupersedeOlder, AuthorPushes, Bounce, LeaseExpires, vars
  <2> QED
    BY <2>1, KeysKept DEF TypeOK
<1> QED
  BY <1>1, <1>2, <1>3, <1>4, <1>5, <1>6, <1>7 DEF Next, MainStep, Environment

\* KeyInv holds at the start.
LEMMA KeyInit == Init => KeyInv
  BY DEF Init, KeyInv, IdleSlot, AtPoll

\* No two dispatches work in one PR's worktree, for any number of slots, PRs,
\* lapses and crashes.
THEOREM ExclusiveWorktree == Spec => []WorktreeExclusive
<1>1. KeyInv => WorktreeExclusive
  BY DEF KeyInv, WorktreeExclusive, Dispatching
<1> QED
  BY TypeInit, TypeStep, KeyInit, KeyStep, <1>1, PTL DEF Spec

-----------------------------------------------------------------------------
(* The attempts of a round.                                                *)

\* A queued row has an attempt left, for every crash one more, unless the
\* recovery that re-queued it is about to park it.
AttemptInv ==
    /\ AttemptsBounded
    /\ \A j \in Jobs :
          /\ job[j].state = "absent" => job[j].attempt = 0
          /\ job[j].state = "queued" =>
                /\ job[j].lease = "none"
                /\ job[j].attempt < MaxAttempts + spent.crashes \/ j \in main.park
    /\ main.pc # "fill" => main.park = {}

\* What each statement makes of the state, the lease and the attempt of a row.
LEMMA RowEffects ==
    ASSUME NEW r \in J!Rows
    PROVE  /\ J!Created(r, FALSE).state = "queued" /\ J!Created(r, FALSE).attempt = 0
           /\ J!Created(r, FALSE).lease = "none"
           /\ \A d \in Slots : J!Claimed(r, d).state = "running" /\ J!Claimed(r, d).attempt = r.attempt + 1
           /\ \A o \in J!TerminalOutcomes : J!Resolved(r, o).state = "done" /\ J!Resolved(r, o).attempt = r.attempt
           /\ J!Retried(r).state \in {"queued", "done"} /\ J!Retried(r).attempt = r.attempt
           /\ J!Retried(r).state = "queued" => J!Retried(r).lease = "none" /\ r.attempt < MaxAttempts
           /\ J!Parked(r).state = "done" /\ J!Parked(r).attempt = r.attempt
           /\ J!Superseded(r).state = "done" /\ J!Superseded(r).attempt = r.attempt
           /\ J!Recovered(r).state = "queued" /\ J!Recovered(r).lease = "none"
           /\ J!Recovered(r).attempt = r.attempt
           /\ J!Lapsed(r).state = r.state /\ J!Lapsed(r).attempt = r.attempt
           /\ J!Renewed(r).state = r.state /\ J!Renewed(r).attempt = r.attempt
<1> USE DEF J!Rows
<1>1. /\ J!Created(r, FALSE).state = "queued" /\ J!Created(r, FALSE).attempt = 0
      /\ J!Created(r, FALSE).lease = "none"
  BY DEF J!Created
<1>2. \A d \in Slots : J!Claimed(r, d).state = "running" /\ J!Claimed(r, d).attempt = r.attempt + 1
  BY DEF J!Claimed
<1>3. \A o \in J!TerminalOutcomes : J!Resolved(r, o).state = "done" /\ J!Resolved(r, o).attempt = r.attempt
  BY DEF J!Resolved
<1>4. /\ J!Retried(r).state \in {"queued", "done"} /\ J!Retried(r).attempt = r.attempt
      /\ J!Retried(r).state = "queued" => J!Retried(r).lease = "none" /\ r.attempt < MaxAttempts
  <2>1. CASE J!Exhausted(r)
    BY <2>1 DEF J!Retried
  <2>2. CASE ~J!Exhausted(r)
    <3>1. r.attempt < MaxAttempts
      BY <2>2, MaxAttemptsAssumption DEF J!Exhausted
    <3> QED
      BY <2>2, <3>1 DEF J!Retried
  <2> QED
    BY <2>1, <2>2
<1>5. /\ J!Parked(r).state = "done" /\ J!Parked(r).attempt = r.attempt
      /\ J!Superseded(r).state = "done" /\ J!Superseded(r).attempt = r.attempt
  BY DEF J!Parked, J!Superseded
<1>6. /\ J!Recovered(r).state = "queued" /\ J!Recovered(r).lease = "none"
      /\ J!Recovered(r).attempt = r.attempt
  BY DEF J!Recovered
<1>7. /\ J!Lapsed(r).state = r.state /\ J!Lapsed(r).attempt = r.attempt
      /\ J!Renewed(r).state = r.state /\ J!Renewed(r).attempt = r.attempt
  BY DEF J!Lapsed, J!Renewed
<1> QED
  BY <1>1, <1>2, <1>3, <1>4, <1>5, <1>6, <1>7

\* What AttemptInv says of every row, and of one that is not about to be parked.
RowBounded(r, c) ==
    /\ r.attempt <= MaxAttempts + c
    /\ r.state = "absent" => r.attempt = 0
    /\ r.state = "queued" => r.lease = "none"

Spare(r, c) == RowBounded(r, c) /\ (r.state = "queued" => r.attempt < MaxAttempts + c)

\* No statement but the recovery takes a row's last attempt without ending
\* it, and the recovery does so only for a row it is about to park.
LEMMA RowsBounded ==
    ASSUME NEW r \in J!Rows, NEW c \in Nat, RowBounded(r, c)
    PROVE  /\ Spare(J!Created(r, FALSE), c)
           /\ Spare(r, c) /\ J!Claimable(r) => \A d \in Slots : Spare(J!Claimed(r, d), c)
           /\ \A o \in J!TerminalOutcomes : Spare(J!Resolved(r, o), c)
           /\ Spare(J!Retried(r), c)
           /\ Spare(J!Parked(r), c)
           /\ Spare(J!Superseded(r), c)
           /\ RowBounded(J!Recovered(r), c)
           /\ ~J!Exhausted(r) => Spare(J!Recovered(r), c)
           /\ r.state = "running" => Spare(J!Lapsed(r), c) /\ Spare(J!Renewed(r), c)
           /\ Spare(r, c + 1)
<1>1. r.attempt \in Nat /\ MaxAttempts \in Nat \ {0}
  BY MaxAttemptsAssumption DEF J!Rows
<1>2. /\ r.attempt <= MaxAttempts + c
      /\ r.state = "queued" => r.lease = "none"
      /\ r.state = "absent" => r.attempt = 0
  BY DEF RowBounded
<1>3. ASSUME NEW q, q.attempt = r.attempt, q.state \in {"done", "running"}
      PROVE  Spare(q, c)
  BY <1>2, <1>3 DEF RowBounded, Spare
<1>4. ASSUME NEW q, q.attempt \in Nat, q.attempt < MaxAttempts + c, q.state # "absent",
             q.lease = "none"
      PROVE  Spare(q, c)
  BY <1>1, <1>4 DEF RowBounded, Spare
<1>5. Spare(J!Created(r, FALSE), c)
  <2>1. 0 \in Nat /\ 0 < MaxAttempts + c
    BY <1>1
  <2>2. /\ J!Created(r, FALSE).attempt = 0 /\ J!Created(r, FALSE).state # "absent"
        /\ J!Created(r, FALSE).lease = "none"
    BY RowEffects
  <2> QED
    BY <1>4, <2>1, <2>2
<1>6. Spare(r, c) /\ J!Claimable(r) => \A d \in Slots : Spare(J!Claimed(r, d), c)
  <2> SUFFICES ASSUME J!Claimable(r), Spare(r, c), NEW d \in Slots
               PROVE  Spare(J!Claimed(r, d), c)
    OBVIOUS
  <2>1. J!Claimed(r, d).state = "running" /\ J!Claimed(r, d).attempt = r.attempt + 1
    BY RowEffects
  <2>2. r.attempt + 1 <= MaxAttempts + c
    BY <1>1, <1>2 DEF J!Claimable, Spare
  <2> QED
    BY <2>1, <2>2 DEF RowBounded, Spare
<1>7. /\ \A o \in J!TerminalOutcomes : Spare(J!Resolved(r, o), c)
      /\ Spare(J!Parked(r), c)
      /\ Spare(J!Superseded(r), c)
  BY <1>3, RowEffects
<1>8. Spare(J!Retried(r), c)
  <2>1. /\ J!Retried(r).state \in {"queued", "done"} /\ J!Retried(r).attempt = r.attempt
        /\ J!Retried(r).state = "queued" => J!Retried(r).lease = "none" /\ r.attempt < MaxAttempts
    BY RowEffects
  <2>2. r.attempt < MaxAttempts => r.attempt < MaxAttempts + c
    BY <1>1
  <2>3. CASE J!Retried(r).state = "done"
    BY <1>3, <2>1, <2>3
  <2>4. CASE J!Retried(r).state = "queued"
    BY <1>1, <1>4, <2>1, <2>2, <2>4
  <2> QED
    BY <2>1, <2>3, <2>4
<1>9. RowBounded(J!Recovered(r), c) /\ (~J!Exhausted(r) => Spare(J!Recovered(r), c))
  <2>1. /\ J!Recovered(r).state = "queued" /\ J!Recovered(r).attempt = r.attempt
        /\ J!Recovered(r).lease = "none"
    BY RowEffects
  <2>2. r.attempt < MaxAttempts + c \/ J!Exhausted(r)
    BY <1>1 DEF J!Exhausted
  <2> QED
    BY <1>2, <2>1, <2>2 DEF RowBounded, Spare
<1>10. r.state = "running" => Spare(J!Lapsed(r), c) /\ Spare(J!Renewed(r), c)
  <2>1. /\ J!Lapsed(r).state = r.state /\ J!Lapsed(r).attempt = r.attempt
        /\ J!Renewed(r).state = r.state /\ J!Renewed(r).attempt = r.attempt
    BY RowEffects
  <2> QED
    BY <1>3, <2>1
<1>11. Spare(r, c + 1)
  <2>1. r.attempt <= MaxAttempts + (c + 1) /\ r.attempt < MaxAttempts + (c + 1)
    BY <1>1, <1>2
  <2> QED
    BY <1>2, <2>1 DEF RowBounded, Spare
<1> QED
  BY <1>5, <1>6, <1>7, <1>8, <1>9, <1>10, <1>11

\* Every step keeps the attempts bounded.
LEMMA AttemptStep == TypeOK /\ AttemptInv /\ [Next]_vars => AttemptInv'
<1> SUFFICES ASSUME TypeOK, AttemptInv, [Next]_vars PROVE AttemptInv'
  OBVIOUS
<1> DEFINE Bounded == \A j \in Jobs : /\ RowBounded(job[j], spent.crashes)
                                      /\ j \notin main.park => Spare(job[j], spent.crashes)
           ParkNow == main.pc # "fill" => main.park = {}
<1>1. /\ Bounded /\ ParkNow
      /\ \A j \in Jobs : job[j] \in J!Rows
      /\ spent.crashes \in Nat
  BY DEF AttemptInv, AttemptsBounded, RowBounded, Spare, TypeOK
<1>2. SUFFICES Bounded' /\ ParkNow'
  BY DEF AttemptInv, AttemptsBounded, RowBounded, Spare
<1>3. ASSUME NEW k \in Jobs, NEW r, job' = [job EXCEPT ![k] = r],
             Spare(r, spent.crashes) \/ r = job[k],
             main'.park = main.park, spent'.crashes = spent.crashes
      PROVE  Bounded'
  <2> TAKE j \in Jobs
  <2>1. job'[j] = IF j = k THEN r ELSE job[j]
    BY <1>3 DEF TypeOK
  <2>2. RowBounded(job[j], spent.crashes) /\ (j \notin main.park => Spare(job[j], spent.crashes))
    BY <1>1
  <2> QED
    BY <1>3, <2>1, <2>2 DEF Spare
<1>4. ASSUME job' = job, main'.park = main.park, spent'.crashes = spent.crashes
      PROVE  Bounded'
  BY <1>1, <1>4
<1>5. ASSUME NEW j \in Jobs
      PROVE  /\ job[j] \in J!Rows /\ RowBounded(job[j], spent.crashes)
             /\ j \notin main.park => Spare(job[j], spent.crashes)
  BY <1>1
<1>6. ASSUME NEW k \in Jobs, NEW d, NEW o \in J!TerminalOutcomes, RowEnds(k, d, o),
             main'.park = main.park, spent'.crashes = spent.crashes
      PROVE  Bounded'
  <2>1. Spare(J!Resolved(job[k], o), spent.crashes)
    BY <1>1, <1>5, RowsBounded
  <2>2. job' = [job EXCEPT ![k] = IF J!HeldBy(job[k], d) THEN J!Resolved(job[k], o) ELSE job[k]]
    BY <1>6 DEF RowEnds
  <2> QED
    BY <1>3, <1>6, <2>1, <2>2
<1> HIDE DEF Bounded
<1>7. ASSUME NEW p \in PRs, NEW h \in 1..MaxPushes + 1, NEW n \in 1..TopRound, NEW e \in BOOLEAN,
             Bounce(p, h, n, e)
      PROVE  Bounded' /\ ParkNow'
  <2> DEFINE j == <<p, n>>
  <2>1. j \in Jobs
    BY DEF Jobs
  <2>2. Spare(J!Created(job[j], FALSE), spent.crashes)
    BY <1>1, <1>5, <2>1, RowsBounded
  <2>3. main' = main /\ spent'.crashes = spent.crashes
    BY <1>7 DEF Bounce, TypeOK
  <2>4. job' = job \/ job' = [job EXCEPT ![j] = J!Created(job[j], FALSE)]
    BY <1>7 DEF Bounce
  <2> QED
    BY <1>1, <1>3, <1>4, <2>1, <2>2, <2>3, <2>4
<1>8. CASE Recover
  <2>1. /\ main'.park = {k \in Jobs : J!Recoverable(job[k]) /\ J!Exhausted(job[k])}
        /\ main'.pc = "fill" /\ spent' = spent /\ main.park = {}
    BY <1>1, <1>8 DEF Recover, TypeOK
  <2>2. ASSUME NEW j \in Jobs
        PROVE  /\ RowBounded(job'[j], spent.crashes)
               /\ j \notin main'.park => Spare(job'[j], spent.crashes)
    <3>1. CASE J!Recoverable(job[j])
      <4>1. job'[j] = J!Recovered(job[j])
        BY <1>8, <3>1 DEF Recover
      <4>2. /\ RowBounded(J!Recovered(job[j]), spent.crashes)
            /\ ~J!Exhausted(job[j]) => Spare(J!Recovered(job[j]), spent.crashes)
        BY <1>1, <1>5, RowsBounded
      <4> QED
        BY <2>1, <3>1, <4>1, <4>2
    <3>2. CASE ~J!Recoverable(job[j])
      <4>1. job'[j] = job[j]
        BY <1>8, <3>2 DEF Recover
      <4> QED
        BY <1>5, <2>1, <4>1
    <3> QED
      BY <3>1, <3>2
  <2> QED
    BY <2>1, <2>2 DEF Bounded
<1>9. ASSUME NEW k \in Jobs, ParkRecovered(k)
      PROVE  Bounded' /\ ParkNow'
  <2>1. main'.park = main.park \ {k} /\ spent' = spent /\ main'.pc = "fill"
    BY <1>9 DEF ParkRecovered, TypeOK
  <2>2. ASSUME NEW j \in Jobs
        PROVE  /\ RowBounded(job'[j], spent.crashes)
               /\ j \notin main'.park => Spare(job'[j], spent.crashes)
    <3>1. CASE j = k /\ J!ParkableBare(job[k])
      <4>1. job'[j] = J!Parked(job[j])
        BY <1>9, <3>1 DEF ParkRecovered, TypeOK
      <4>2. Spare(J!Parked(job[j]), spent.crashes)
        BY <1>1, <1>5, RowsBounded
      <4> QED
        BY <4>1, <4>2 DEF Spare
    <3>2. CASE j = k /\ ~J!ParkableBare(job[k])
      <4>1. job'[j] = job[j]
        BY <1>9, <3>2 DEF ParkRecovered, TypeOK
      <4>2. job[j].state # "queued"
        BY <1>5, <3>2 DEF RowBounded, J!ParkableBare
      <4> QED
        BY <1>5, <4>1, <4>2 DEF Spare
    <3>3. CASE j # k
      <4>1. job'[j] = job[j]
        BY <1>9, <3>3 DEF ParkRecovered, TypeOK
      <4> QED
        BY <1>5, <2>1, <3>3, <4>1
    <3> QED
      BY <3>1, <3>2, <3>3
  <2> QED
    BY <2>1, <2>2 DEF Bounded
<1>10. ASSUME NEW d \in Slots, NEW j \in Jobs, Claim(d, j)
      PROVE  Bounded' /\ ParkNow'
  <2>1. main.park = {} /\ main'.park = {} /\ spent' = spent
    BY <1>10 DEF Claim, TypeOK
  <2>2. Spare(J!Claimed(job[j], d), spent.crashes)
    <3>1. J!Claimable(job[j]) /\ Spare(job[j], spent.crashes)
      BY <1>5, <1>10, <2>1 DEF Claim, ClaimableRound
    <3> QED
      BY <1>1, <1>5, <3>1, RowsBounded
  <2>3. job' = [job EXCEPT ![j] = J!Claimed(job[j], d)]
    BY <1>10 DEF Claim
  <2> QED
    BY <1>3, <2>1, <2>2, <2>3
<1>11. CASE SupersedeOlder
  <2>1. /\ main' = [main EXCEPT !.pc = "cleared"] /\ main.park = {} /\ spent' = spent
    BY <1>1, <1>11 DEF SupersedeOlder
  <2>2. ASSUME NEW j \in Jobs
        PROVE  Spare(job'[j], spent.crashes)
    <3>1. job'[j] = J!Superseded(job[j]) \/ job'[j] = job[j]
      BY <1>11 DEF SupersedeOlder
    <3>2. Spare(J!Superseded(job[j]), spent.crashes) /\ Spare(job[j], spent.crashes)
      BY <1>1, <1>5, <2>1, RowsBounded
    <3> QED
      BY <3>1, <3>2
  <2>3. main'.park = {}
    BY <2>1 DEF TypeOK
  <2> QED
    BY <2>1, <2>2, <2>3 DEF Bounded, Spare
<1>12. CASE ParkOverCap
  <2>1. main.job \in Jobs /\ main'.park = main.park /\ main.park = {} /\ spent' = spent
    BY <1>1, <1>12 DEF ParkOverCap, BackToFill, TypeOK
  <2>2. Spare(J!Parked(job[main.job]), spent.crashes)
    BY <1>1, <1>5, <2>1, RowsBounded
  <2>3. job' = [job EXCEPT ![main.job] = IF J!ParkableBy(job[main.job], main.slot)
                                         THEN J!Parked(job[main.job]) ELSE job[main.job]]
    BY <1>12 DEF ParkOverCap
  <2> QED
    BY <1>3, <2>1, <2>2, <2>3
<1>13. "no_installation" \in J!TerminalOutcomes /\ "no_change" \in J!TerminalOutcomes
       /\ "done" \in J!TerminalOutcomes
  BY DEF J!TerminalOutcomes
<1>14. CASE TurnAway
  <2>1. main.job \in Jobs /\ main'.park = main.park /\ main.park = {} /\ spent' = spent
    BY <1>1, <1>14 DEF TurnAway, BackToFill, TypeOK
  <2>2. CASE job' = job
    BY <1>4, <2>1, <2>2
  <2>3. CASE \E o \in {"no_installation", "no_change"} : RowEnds(main.job, main.slot, o)
    BY <1>6, <1>13, <2>1, <2>3
  <2> QED
    BY <1>14, <2>1, <2>2, <2>3 DEF TurnAway
<1>15. CASE HandOver \/ PoolFilled \/ Reap
  <2>1. main'.park = main.park /\ main.park = {} /\ job' = job /\ spent' = spent
    BY <1>1, <1>15 DEF HandOver, PoolFilled, Reap, BackToFill, TypeOK
  <2> QED
    BY <1>4, <2>1
<1>16. ASSUME NEW d \in Slots, SlotStep(d) \/ AgentStep(d)
       PROVE  Bounded' /\ ParkNow'
  <2> DEFINE k == slot[d].job
  <2>1. main' = main /\ spent'.crashes = spent.crashes /\ k \in Jobs
    BY <1>16 DEF SlotStep, AgentStep, DispatchTurnedAway, LeaveRunning, PrepareWorktree,
         StaleRound, NoAssessment, Launch, AgentFails, RouteFallsThrough, Conclude, AgentCompletes,
         AgentCommits, AgentPushes, Pushed, RenewLease, TypeOK
  <2>2. /\ Spare(J!Retried(job[k]), spent.crashes)
        /\ job[k].state = "running" => Spare(J!Renewed(job[k]), spent.crashes)
    BY <1>1, <1>5, <2>1, RowsBounded
  <2>3. CASE AgentFails(d)
    <3>1. job' = [job EXCEPT ![k] = IF J!HeldBy(job[k], d) THEN J!Retried(job[k]) ELSE job[k]]
      BY <2>3 DEF AgentFails
    <3> QED
      BY <1>1, <1>3, <2>1, <2>2, <3>1
  <2>4. CASE RenewLease(d)
    <3>1. job' = [job EXCEPT ![k] = J!Renewed(job[k])] /\ job[k].state = "running"
      BY <2>4 DEF RenewLease, J!HeldBy
    <3> QED
      BY <1>1, <1>3, <2>1, <2>2, <3>1
  <2>5. CASE DispatchTurnedAway(d) \/ StaleRound(d) \/ NoAssessment(d) \/ Conclude(d)
    <3>1. \E o \in J!TerminalOutcomes : RowEnds(k, d, o)
      BY <1>13, <2>5 DEF DispatchTurnedAway, StaleRound, NoAssessment, Conclude, RoundOutcome
    <3> QED
      BY <1>1, <1>6, <2>1, <3>1
  <2>6. ASSUME job' = job PROVE Bounded'
    BY <1>4, <2>1, <2>6
  <2>7. Bounded'
    BY <1>16, <2>3, <2>4, <2>5, <2>6 DEF SlotStep, AgentStep, LeaveRunning, PrepareWorktree, Launch,
       RouteFallsThrough, AgentCompletes, AgentCommits, AgentPushes
  <2> QED
    BY <1>1, <2>1, <2>7
<1>17. ASSUME NEW j \in Jobs, LeaseExpires(j)
       PROVE  Bounded' /\ ParkNow'
  <2>1. main' = main /\ spent'.crashes = spent.crashes
    BY <1>17 DEF LeaseExpires, TypeOK
  <2>2. Spare(J!Lapsed(job[j]), spent.crashes)
    <3>1. job[j].state = "running"
      BY <1>17 DEF LeaseExpires
    <3> QED
      BY <1>1, <1>5, <3>1, RowsBounded
  <2>3. job' = [job EXCEPT ![j] = J!Lapsed(job[j])]
    BY <1>17 DEF LeaseExpires
  <2> QED
    BY <1>1, <1>3, <2>1, <2>2, <2>3
<1>18. CASE MainRaises \/ Crash
  <2>1. main'.park = {} /\ spent'.crashes = spent.crashes + 1 /\ job' = job
    BY <1>18 DEF MainRaises, Crash, Crashes, Restarted, AtPoll, TypeOK
  <2>2. ASSUME NEW j \in Jobs
        PROVE  Spare(job[j], spent.crashes + 1)
    BY <1>1, <1>5, RowsBounded
  <2> QED
    BY <2>1, <2>2 DEF Bounded, Spare
<1>19. CASE RestartAfterRaise
  <2>1. main'.park = {} /\ main.park = {} /\ spent' = spent /\ job' = job
    BY <1>1, <1>19 DEF RestartAfterRaise, Restarted, AtPoll
  <2> QED
    BY <1>4, <2>1
<1>20. CASE (\E p \in PRs : AuthorPushes(p)) \/ UNCHANGED vars
  <2>1. main' = main /\ spent'.crashes = spent.crashes /\ job' = job
    BY <1>20 DEF AuthorPushes, Pushed, vars, TypeOK
  <2> QED
    BY <1>1, <1>4, <2>1
<1>21. CASE ParkOverCap \/ TurnAway \/ HandOver \/ PoolFilled \/ Reap
  <2>1. ParkNow'
    BY <1>1, <1>21 DEF ParkOverCap, TurnAway, HandOver, PoolFilled, Reap, BackToFill, TypeOK
  <2> QED
    BY <1>12, <1>14, <1>15, <1>21, <2>1
<1> QED
  BY <1>7, <1>8, <1>9, <1>10, <1>11, <1>16, <1>17, <1>18, <1>19, <1>20, <1>21
  DEF Next, MainStep, Environment

\* AttemptInv holds at the start.
LEMMA AttemptInit == Init => AttemptInv
<1> SUFFICES ASSUME Init PROVE AttemptInv
  OBVIOUS
<1>1. \A j \in Jobs : job[j].state = "absent" /\ job[j].attempt = 0
  BY DEF Init, J!Absent
<1>2. spent.crashes = 0 /\ main.park = {}
  BY DEF Init, AtPoll
<1> QED
  BY <1>1, <1>2, MaxAttemptsAssumption DEF AttemptInv, AttemptsBounded

\* No order of a round is run more often than max_attempts and the crashes
\* allow, for any number of slots, PRs, lapses and recoveries.
THEOREM BoundedAttempts == Spec => []AttemptsBounded
<1>1. AttemptInv => AttemptsBounded
  BY DEF AttemptInv
<1> QED
  BY TypeInit, TypeStep, AttemptInit, AttemptStep, <1>1, PTL DEF Spec

-----------------------------------------------------------------------------
(* BuilderLane implements JobLease.                                        *)

\* Exactly the running rows have a lease, and each of them a claimant.
LeasedRow(r) ==
    /\ r.state = "running" <=> r.lease # "none"
    /\ r.state = "running" => r.token \in Slots

LeasedInv == \A j \in Jobs : LeasedRow(job[j])

\* A row without owner or lease.
Resting(r) == r.state # "running" /\ r.lease = "none"

LeaseMove == Lease!LeaseNext \/ UNCHANGED <<OwnerOf, LapsedLeases, RunOf>>

\* What each statement makes of the owner and the lease of a row.
LEMMA LeaseEffects ==
    ASSUME NEW r \in J!Rows
    PROVE  /\ Resting(J!Created(r, FALSE)) /\ Resting(J!Retried(r))
           /\ Resting(J!Parked(r)) /\ Resting(J!Recovered(r))
           /\ \A o \in J!TerminalOutcomes : Resting(J!Resolved(r, o))
           /\ Resting(r) => Resting(J!Superseded(r))
           /\ \A d \in Slots : /\ J!Claimed(r, d).state = "running"
                              /\ J!Claimed(r, d).token = d /\ J!Claimed(r, d).lease = "live"
           /\ J!Lapsed(r).state = r.state /\ J!Lapsed(r).token = r.token
           /\ J!Lapsed(r).lease = "expired"
           /\ J!Renewed(r).state = r.state /\ J!Renewed(r).token = r.token
           /\ J!Renewed(r).lease = "live"
<1> USE DEF J!Rows, Resting
<1>1. Resting(J!Created(r, FALSE)) /\ Resting(J!Parked(r)) /\ Resting(J!Recovered(r))
  BY DEF J!Created, J!Parked, J!Recovered
<1>2. Resting(J!Retried(r))
  <2>1. CASE J!Exhausted(r)
    BY <2>1 DEF J!Retried
  <2>2. CASE ~J!Exhausted(r)
    BY <2>2 DEF J!Retried
  <2> QED
    BY <2>1, <2>2
<1>3. \A o \in J!TerminalOutcomes : Resting(J!Resolved(r, o))
  BY DEF J!Resolved
<1>4. Resting(r) => Resting(J!Superseded(r))
  BY DEF J!Superseded
<1>5. \A d \in Slots : /\ J!Claimed(r, d).state = "running"
                       /\ J!Claimed(r, d).token = d /\ J!Claimed(r, d).lease = "live"
  BY DEF J!Claimed
<1>6. /\ J!Lapsed(r).state = r.state /\ J!Lapsed(r).token = r.token
      /\ J!Lapsed(r).lease = "expired"
  BY DEF J!Lapsed
<1>7. /\ J!Renewed(r).state = r.state /\ J!Renewed(r).token = r.token
      /\ J!Renewed(r).lease = "live"
  BY DEF J!Renewed
<1> HIDE DEF Resting
<1> QED
  BY <1>1, <1>2, <1>3, <1>4, <1>5, <1>6, <1>7

\* Rows that rested before and after the step touch no lease.
LEMMA LeasesUntouched ==
    ASSUME LeasedInv, \A j \in Jobs : job'[j] = job[j] \/ (Resting(job[j]) /\ Resting(job'[j]))
    PROVE  LeasedInv' /\ OwnerOf' = OwnerOf /\ LapsedLeases' = LapsedLeases
<1>1. \A j \in Jobs : LeasedRow(job'[j])
  BY DEF LeasedInv, LeasedRow, Resting
<1>2. \A j \in Jobs : /\ job'[j].state = "running" <=> job[j].state = "running"
                      /\ job[j].state = "running" => job'[j] = job[j]
  BY DEF Resting
<1> QED
  BY <1>1, <1>2 DEF LeasedInv, OwnerOf, LapsedLeases

\* Then a run may stay, end, or end with all the others.
LEMMA UntouchedMove ==
    ASSUME LeasedInv, \A j \in Jobs : job'[j] = job[j] \/ (Resting(job[j]) /\ Resting(job'[j])),
           \/ RunOf' = RunOf
           \/ \E d \in Slots : RunOf' = [RunOf EXCEPT ![d] = NoJob]
           \/ RunOf' = [d \in Slots |-> NoJob]
    PROVE  LeasedInv' /\ LeaseMove
<1>1. LeasedInv' /\ OwnerOf' = OwnerOf /\ LapsedLeases' = LapsedLeases
  BY LeasesUntouched
<1> QED
  BY <1>1 DEF LeaseMove, Lease!LeaseNext, Lease!WalkAway, Lease!Crash

\* Taking rows whose lease has lapsed out of running breaks their leases.
LEMMA BrokenMove ==
    ASSUME LeasedInv, NEW S \in SUBSET LapsedLeases, RunOf' = RunOf,
           \A j \in S : Resting(job'[j]),
           \A j \in Jobs \ S : job'[j] = job[j] \/ (Resting(job[j]) /\ Resting(job'[j]))
    PROVE  LeasedInv' /\ LeaseMove
<1>1. S \subseteq Jobs
  BY DEF LapsedLeases
<1>2. LeasedInv'
  BY <1>1 DEF LeasedInv, LeasedRow, Resting
<1>3. \A j \in Jobs \ S : /\ job'[j].state = "running" <=> job[j].state = "running"
                          /\ job[j].state = "running" => job'[j] = job[j]
  BY DEF Resting
<1>4. \A j \in S : job'[j].state # "running"
  BY DEF Resting
<1>5. OwnerOf' = [j \in Jobs |-> IF j \in S THEN NoToken ELSE OwnerOf[j]]
  BY <1>1, <1>3, <1>4 DEF OwnerOf
<1>6. LapsedLeases' = LapsedLeases \ S
  BY <1>1, <1>3, <1>4 DEF LapsedLeases
<1> QED
  BY <1>1, <1>2, <1>5, <1>6 DEF LeaseMove, Lease!LeaseNext, Lease!Break

\* A run that ends and leaves its own row resting gives it back.
LEMMA GivenBackMove ==
    ASSUME LeasedInv, NEW d \in Slots, NEW k \in Jobs, RunOf[d] = k, J!HeldBy(job[k], d),
           Resting(job'[k]), \A j \in Jobs \ {k} : job'[j] = job[j],
           RunOf' = [RunOf EXCEPT ![d] = NoJob]
    PROVE  LeasedInv' /\ LeaseMove
<1>1. LeasedInv'
  BY DEF LeasedInv, LeasedRow, Resting
<1>2. OwnerOf[k] = d /\ OwnerOf' = [OwnerOf EXCEPT ![k] = NoToken]
  BY DEF OwnerOf, J!HeldBy, Resting
<1>3. LapsedLeases' = LapsedLeases \ {k}
  BY DEF LapsedLeases, Resting
<1> QED
  BY <1>1, <1>2, <1>3 DEF LeaseMove, Lease!LeaseNext, Lease!GiveBack

\* The statement with which run d of row k ends: it hits the row it holds, or
\* nothing.
LEMMA EndMove ==
    ASSUME LeasedInv, TypeOK, NEW d \in Slots, NEW k \in Jobs, NEW q, RunOf[d] = k, Resting(q),
           job' = [job EXCEPT ![k] = IF J!HeldBy(job[k], d) THEN q ELSE job[k]],
           RunOf' = [RunOf EXCEPT ![d] = NoJob]
    PROVE  LeasedInv' /\ LeaseMove
<1>1. \A j \in Jobs \ {k} : job'[j] = job[j]
  BY DEF TypeOK
<1>2. CASE J!HeldBy(job[k], d)
  <2>1. job'[k] = q
    BY <1>2 DEF TypeOK
  <2> QED
    BY <1>1, <1>2, <2>1, GivenBackMove
<1>3. CASE ~J!HeldBy(job[k], d)
  <2>1. job' = job
    BY <1>3 DEF TypeOK
  <2> QED
    BY <2>1, UntouchedMove
<1> QED
  BY <1>2, <1>3

\* A row that rests goes to an idle claimant.
LEMMA AcquiredMove ==
    ASSUME LeasedInv, TypeOK, NEW d \in Slots, NEW k \in Jobs, RunOf[d] = NoJob,
           job[k].state = "queued",
           job' = [job EXCEPT ![k] = J!Claimed(job[k], d)], RunOf' = [RunOf EXCEPT ![d] = k]
    PROVE  LeasedInv' /\ LeaseMove
<1>1. /\ job'[k].state = "running" /\ job'[k].token = d /\ job'[k].lease = "live"
      /\ \A j \in Jobs \ {k} : job'[j] = job[j]
  <2>1. /\ job[k] \in J!Rows /\ job'[k] = J!Claimed(job[k], d)
        /\ \A j \in Jobs \ {k} : job'[j] = job[j]
    BY DEF TypeOK
  <2>2. /\ J!Claimed(job[k], d).state = "running" /\ J!Claimed(job[k], d).token = d
        /\ J!Claimed(job[k], d).lease = "live"
    BY <2>1, LeaseEffects, Zenon
  <2> QED
    BY <2>1, <2>2
<1>2. LeasedInv'
  BY <1>1 DEF LeasedInv, LeasedRow
<1>3. OwnerOf[k] = NoToken /\ OwnerOf' = [OwnerOf EXCEPT ![k] = d]
  <2>1. \A j \in Jobs : OwnerOf'[j] = IF j = k THEN d ELSE OwnerOf[j]
    BY <1>1 DEF OwnerOf
  <2> QED
    BY <2>1 DEF OwnerOf
<1>4. LapsedLeases' = LapsedLeases
  BY <1>1 DEF LapsedLeases
<1> QED
  BY <1>2, <1>3, <1>4 DEF LeaseMove, Lease!LeaseNext, Lease!Acquire, Lease!Free

\* Time runs out for a live lease.
LEMMA LapsedMove ==
    ASSUME LeasedInv, TypeOK, NEW k \in Jobs, job[k].state = "running",
           job' = [job EXCEPT ![k] = J!Lapsed(job[k])], RunOf' = RunOf
    PROVE  LeasedInv' /\ LeaseMove
<1>1. /\ job'[k].state = "running" /\ job'[k].token = job[k].token /\ job'[k].lease = "expired"
      /\ \A j \in Jobs \ {k} : job'[j] = job[j]
  <2>1. /\ job[k] \in J!Rows /\ job'[k] = J!Lapsed(job[k])
        /\ \A j \in Jobs \ {k} : job'[j] = job[j]
    BY DEF TypeOK
  <2> QED
    BY <2>1, LeaseEffects
<1>2. LeasedInv'
  BY <1>1 DEF LeasedInv, LeasedRow
<1>3. OwnerOf[k] # NoToken /\ OwnerOf' = OwnerOf
  BY <1>1, NullAssumption DEF OwnerOf, LeasedInv, LeasedRow
<1>4. LapsedLeases' = LapsedLeases \cup {k}
  BY <1>1 DEF LapsedLeases
<1> QED
  BY <1>2, <1>3, <1>4 DEF LeaseMove, Lease!LeaseNext, Lease!Lapse, Lease!Free

\* The run that holds its row renews it.
LEMMA RenewedMove ==
    ASSUME LeasedInv, TypeOK, NEW d \in Slots, NEW k \in Jobs, RunOf[d] = k, J!HeldBy(job[k], d),
           job' = [job EXCEPT ![k] = J!Renewed(job[k])], RunOf' = RunOf
    PROVE  LeasedInv' /\ LeaseMove
<1>1. /\ job'[k].state = "running" /\ job'[k].token = d /\ job'[k].lease = "live"
      /\ job[k].state = "running" /\ job[k].token = d
      /\ \A j \in Jobs \ {k} : job'[j] = job[j]
  <2>1. /\ job[k] \in J!Rows /\ job'[k] = J!Renewed(job[k])
        /\ \A j \in Jobs \ {k} : job'[j] = job[j]
    BY DEF TypeOK
  <2>2. /\ J!Renewed(job[k]).state = job[k].state /\ J!Renewed(job[k]).token = job[k].token
        /\ J!Renewed(job[k]).lease = "live"
    BY <2>1, LeaseEffects, Zenon
  <2>3. job[k].state = "running" /\ job[k].token = d
    BY DEF J!HeldBy
  <2> QED
    BY <2>1, <2>2, <2>3
<1>2. LeasedInv'
  BY <1>1 DEF LeasedInv, LeasedRow
<1>3. OwnerOf[k] = d /\ OwnerOf' = OwnerOf
  BY <1>1 DEF OwnerOf
<1>4. LapsedLeases' = LapsedLeases \ {k}
  BY <1>1 DEF LapsedLeases
<1> QED
  BY <1>2, <1>3, <1>4 DEF LeaseMove, Lease!LeaseNext, Lease!Renew

\* Who runs what: a dispatch its round, the slot chosen by the main thread the
\* round in its hands.
LEMMA RunFacts ==
    ASSUME TypeOK, KeyInv
    PROVE  /\ \A d \in Slots : Dispatching(d) => RunOf[d] = slot[d].job /\ slot[d].job \in Jobs
           /\ main.pc \notin {"claimed", "cleared"} =>
                 /\ main.job = NoJob
                 /\ \A d \in Slots : ~Dispatching(d) => RunOf[d] = NoJob
           /\ main.pc \in {"claimed", "cleared"} =>
                 /\ main.job \in Jobs /\ main.slot \in Slots
                 /\ RunOf[main.slot] = main.job /\ ~Dispatching(main.slot)
                 /\ \A d \in Slots \ {main.slot} : ~Dispatching(d) => RunOf[d] = NoJob
<1>1. \A d \in Slots : Dispatching(d) => RunOf[d] = slot[d].job /\ slot[d].job \in Jobs
  BY DEF TypeOK, RunOf, Dispatching
<1>2. main.pc \notin {"claimed", "cleared"} => main.job = NoJob
  BY NoJobAssumption DEF TypeOK
<1>3. main.pc \in {"claimed", "cleared"} =>
         main.job \in Jobs /\ main.slot \in Slots /\ ~Dispatching(main.slot)
  BY DEF TypeOK, KeyInv, Dispatching
<1> QED
  BY <1>1, <1>2, <1>3 DEF RunOf

\* A dispatch ends: its slot runs nothing any more.
LEMMA FinishedRun ==
    ASSUME TypeOK, KeyInv, NEW d \in Slots, Dispatching(d), Finished(d), main' = main
    PROVE  RunOf[d] = slot[d].job /\ slot[d].job \in Jobs /\ RunOf' = [RunOf EXCEPT ![d] = NoJob]
<1>1. RunOf[d] = slot[d].job /\ slot[d].job \in Jobs
  BY RunFacts
<1>2. slot'[d].pc = "finished" /\ \A e \in Slots \ {d} : slot'[e] = slot[e]
  BY DEF Finished, IdleSlot, TypeOK
<1>3. main.slot = d => main.job = NoJob
  BY RunFacts, NoJobAssumption
<1>4. \A e \in Slots : RunOf'[e] = IF e = d THEN NoJob ELSE RunOf[e]
  BY <1>2, <1>3 DEF RunOf, Dispatching
<1> QED
  BY <1>1, <1>4 DEF RunOf

\* A dispatch goes on: its slot runs the same round.
LEMMA OngoingRun ==
    ASSUME NEW d \in Slots, Dispatching(d), slot'[d].pc \notin {"idle", "finished"},
           slot'[d].job = slot[d].job, \A e \in Slots \ {d} : slot'[e] = slot[e], main' = main
    PROVE  RunOf' = RunOf
  BY DEF RunOf, Dispatching

\* The main thread drops the round in its hands.
LEMMA DroppedRun ==
    ASSUME TypeOK, KeyInv, main.pc \in {"claimed", "cleared"}, main'.job = NoJob, slot' = slot
    PROVE  RunOf' = [RunOf EXCEPT ![main.slot] = NoJob]
<1>1. \A d \in Slots : RunOf'[d] = IF d = main.slot THEN NoJob ELSE RunOf[d]
  BY RunFacts DEF RunOf, Dispatching
<1> QED
  BY <1>1 DEF RunOf

\* Every step is a step of JobLease or leaves the leases alone, and keeps the
\* columns of the rows consistent.
LEMMA LeaseStep ==
    TypeOK /\ KeyInv /\ LeasedInv /\ [Next]_vars => LeasedInv' /\ LeaseMove
<1> SUFFICES ASSUME TypeOK, KeyInv, LeasedInv, [Next]_vars PROVE LeasedInv' /\ LeaseMove
  OBVIOUS
<1>r. ASSUME NEW j \in Jobs
      PROVE  /\ job[j] \in J!Rows
             /\ job[j].state # "running" => Resting(job[j])
  BY DEF TypeOK, LeasedInv, LeasedRow, Resting
<1>s. ASSUME RunOf' = RunOf, job' = job PROVE LeasedInv' /\ LeaseMove
  BY <1>s, UntouchedMove
<1>t. "no_installation" \in J!TerminalOutcomes /\ "no_change" \in J!TerminalOutcomes
      /\ "done" \in J!TerminalOutcomes
  BY DEF J!TerminalOutcomes
\* A row that rests, or whose lease has lapsed, is put to rest.
<1>p. ASSUME NEW k \in Jobs, NEW q, Resting(q), job' = [job EXCEPT ![k] = q], RunOf' = RunOf,
             k \in LapsedLeases \/ Resting(job[k])
      PROVE  LeasedInv' /\ LeaseMove
  <2>1. job'[k] = q /\ \A j \in Jobs \ {k} : job'[j] = job[j]
    BY <1>p DEF TypeOK
  <2>2. CASE k \in LapsedLeases
    <3>1. {k} \in SUBSET LapsedLeases /\ \A j \in {k} : Resting(job'[j])
      BY <1>p, <2>1, <2>2
    <3>2. \A j \in Jobs \ {k} : job'[j] = job[j] \/ (Resting(job[j]) /\ Resting(job'[j]))
      BY <2>1
    <3>3. RunOf' = RunOf
      BY <1>p
    <3> QED
      BY <3>1, <3>2, <3>3, BrokenMove, Zenon
  <2>3. CASE Resting(job[k])
    BY <1>p, <2>1, <2>3, UntouchedMove
  <2> QED
    BY <1>p, <2>2, <2>3
<1>1. ASSUME NEW p \in PRs, NEW h \in 1..MaxPushes + 1, NEW n \in 1..TopRound, NEW e \in BOOLEAN,
             Bounce(p, h, n, e)
      PROVE  LeasedInv' /\ LeaseMove
  <2> DEFINE j == <<p, n>>
  <2>1. j \in Jobs /\ RunOf' = RunOf
    BY <1>1 DEF Bounce, Jobs, RunOf, Dispatching
  <2>2. job' = IF J!Creatable(job[j]) THEN [job EXCEPT ![j] = J!Created(job[j], FALSE)] ELSE job
    BY <1>1 DEF Bounce
  <2> HIDE DEF j
  <2>3. Resting(J!Created(job[j], FALSE))
    BY <1>r, <2>1, LeaseEffects
  <2>4. J!Creatable(job[j]) => j \in LapsedLeases \/ Resting(job[j])
    BY <1>r, <2>1 DEF J!Creatable, LapsedLeases
  <2> QED
    BY <1>p, <1>s, <2>1, <2>2, <2>3, <2>4
<1>2. CASE Recover
  <2>1. RunOf' = RunOf
    BY <1>2 DEF Recover, RunOf, Dispatching, TypeOK
  <2>2. \A j \in Jobs : job'[j] = IF j \in LapsedLeases THEN J!Recovered(job[j]) ELSE job[j]
    BY <1>2 DEF Recover, LapsedLeases, J!Recoverable
  <2>3. \A j \in LapsedLeases : j \in Jobs /\ Resting(J!Recovered(job[j]))
    BY <1>r, LeaseEffects DEF LapsedLeases
  <2> QED
    BY <2>1, <2>2, <2>3, BrokenMove
<1>3. ASSUME NEW j \in Jobs, ParkRecovered(j) PROVE LeasedInv' /\ LeaseMove
  <2>1. RunOf' = RunOf
    BY <1>3 DEF ParkRecovered, RunOf, Dispatching, TypeOK
  <2>2. job' = [job EXCEPT ![j] = IF J!ParkableBare(job[j]) THEN J!Parked(job[j]) ELSE job[j]]
    BY <1>3 DEF ParkRecovered
  <2>3. CASE J!ParkableBare(job[j])
    <3>1. j \in LapsedLeases \/ Resting(job[j])
      BY <1>r, <2>3 DEF J!ParkableBare, J!Rows, J!Leases, LapsedLeases, LeasedInv, LeasedRow
    <3>2. Resting(J!Parked(job[j]))
      BY <1>r, LeaseEffects
    <3> QED
      BY <1>p, <2>1, <2>2, <2>3, <3>1, <3>2
  <2>4. CASE ~J!ParkableBare(job[j])
    <3>1. job' = job
      BY <2>2, <2>4 DEF TypeOK
    <3> QED
      BY <1>s, <2>1, <3>1
  <2> QED
    BY <2>3, <2>4
<1>4. ASSUME NEW d \in Slots, NEW j \in Jobs, Claim(d, j) PROVE LeasedInv' /\ LeaseMove
  <2>1. main.pc = "fill" /\ ~Dispatching(d) /\ job[j].state = "queued"
    BY <1>4 DEF Claim, ClaimableRound, J!Claimable, Dispatching
  <2>2. RunOf[d] = NoJob /\ main.job = NoJob
    BY <2>1, RunFacts
  <2>3. main' = [main EXCEPT !.pc = "claimed", !.job = j, !.slot = d] /\ slot' = slot
    BY <1>4 DEF Claim
  <2>4. main'.job = j /\ main'.slot = d
    BY <2>3 DEF TypeOK
  <2>5. \A e \in Slots : RunOf'[e] = IF e = d THEN j ELSE RunOf[e]
    BY <2>1, <2>2, <2>3, <2>4 DEF RunOf, Dispatching
  <2>6. RunOf' = [RunOf EXCEPT ![d] = j]
    BY <2>5 DEF RunOf
  <2>7. job' = [job EXCEPT ![j] = J!Claimed(job[j], d)]
    BY <1>4 DEF Claim
  <2> QED
    BY <2>1, <2>2, <2>6, <2>7, AcquiredMove
<1>5. CASE SupersedeOlder
  <2>1. RunOf' = RunOf
    BY <1>5 DEF SupersedeOlder, RunOf, Dispatching, TypeOK
  <2>2. ASSUME NEW j \in Jobs
        PROVE  job'[j] = job[j] \/ (Resting(job[j]) /\ Resting(job'[j]))
    <3>1. job'[j] = job[j] \/ (job'[j] = J!Superseded(job[j]) /\ J!Supersedable(job[j]))
      BY <1>5 DEF SupersedeOlder
    <3>2. J!Supersedable(job[j]) => Resting(job[j])
      BY <1>r DEF J!Supersedable
    <3>3. Resting(job[j]) => Resting(J!Superseded(job[j]))
      BY <1>r, LeaseEffects
    <3> QED
      BY <3>1, <3>2, <3>3
  <2> QED
    BY <2>1, <2>2, UntouchedMove
<1>6. CASE ParkOverCap \/ TurnAway
  <2> DEFINE d == main.slot
             k == main.job
  <2>1. main.pc = "cleared" /\ main'.job = NoJob /\ slot' = slot
    BY <1>6 DEF ParkOverCap, TurnAway, BackToFill, TypeOK
  <2>2. d \in Slots /\ k \in Jobs /\ RunOf[d] = k /\ RunOf' = [RunOf EXCEPT ![d] = NoJob]
    BY <2>1, RunFacts, DroppedRun
  <2>3. CASE ParkOverCap
    <3>1. job' = [job EXCEPT ![k] = IF J!ParkableBy(job[k], d) THEN J!Parked(job[k]) ELSE job[k]]
      BY <2>3 DEF ParkOverCap
    <3>2. Resting(J!Parked(job[k]))
      BY <1>r, <2>2, LeaseEffects
    <3> HIDE DEF d, k
    <3>3. CASE J!HeldBy(job[k], d)
      <4>1. job' = [job EXCEPT ![k] = IF J!HeldBy(job[k], d) THEN J!Parked(job[k]) ELSE job[k]]
        BY <3>1, <3>3 DEF J!HeldBy, J!ParkableBy
      <4> QED
        BY <2>2, <3>2, <4>1, EndMove
    <3>4. CASE ~J!HeldBy(job[k], d)
      <4>1. J!ParkableBy(job[k], d) => Resting(job[k])
        BY <1>r, <2>2, <3>4 DEF J!HeldBy, J!ParkableBy
      <4>2. \A j \in Jobs : job'[j] = job[j] \/ (Resting(job[j]) /\ Resting(job'[j]))
        BY <2>2, <3>1, <3>2, <4>1 DEF TypeOK
      <4> QED
        BY <2>2, <4>2, UntouchedMove
    <3> QED
      BY <3>3, <3>4
  <2>4. CASE TurnAway /\ job' = job
    BY <2>2, <2>4, UntouchedMove
  <2>5. ASSUME NEW o \in {"no_installation", "no_change"}, RowEnds(k, d, o)
        PROVE  LeasedInv' /\ LeaseMove
    <3>1. job' = [job EXCEPT ![k] = IF J!HeldBy(job[k], d) THEN J!Resolved(job[k], o) ELSE job[k]]
      BY <2>5 DEF RowEnds
    <3>2. Resting(J!Resolved(job[k], o))
      BY <1>r, <1>t, <2>2, LeaseEffects
    <3> HIDE DEF d, k
    <3> QED
      BY <2>2, <3>1, <3>2, EndMove
  <2> QED
    BY <1>6, <2>3, <2>4, <2>5 DEF TurnAway
<1>7. CASE HandOver
  <2>1. /\ main.slot \in Slots /\ main.job \in Jobs /\ ~Dispatching(main.slot)
        /\ main'.job = NoJob /\ job' = job
        /\ slot' = [slot EXCEPT ![main.slot] = [IdleSlot EXCEPT !.pc = "start", !.job = main.job]]
    BY <1>7, RunFacts DEF HandOver, BackToFill, TypeOK
  <2>2. /\ slot'[main.slot].pc = "start" /\ slot'[main.slot].job = main.job
        /\ \A d \in Slots \ {main.slot} : slot'[d] = slot[d]
    BY <2>1 DEF TypeOK, IdleSlot
  <2>3. \A d \in Slots : RunOf'[d] = RunOf[d]
    BY <2>1, <2>2 DEF RunOf, Dispatching
  <2>4. RunOf' = RunOf
    BY <2>3 DEF RunOf
  <2> QED
    BY <1>s, <2>1, <2>4
<1>8. CASE PoolFilled
  <2>1. RunOf' = RunOf /\ job' = job
    BY <1>8 DEF PoolFilled, RunOf, Dispatching, TypeOK
  <2> QED
    BY <1>s, <2>1
<1>9. CASE Reap
  <2>1. main'.job = main.job /\ main'.slot = main.slot /\ job' = job
    BY <1>9 DEF Reap, TypeOK
  <2>2. \A d \in Slots : \/ slot'[d] = slot[d]
                         \/ slot'[d].pc = "idle" /\ slot[d].pc = "finished"
    BY <1>9 DEF Reap, Done, IdleSlot
  <2>3. RunOf' = RunOf
    BY <2>1, <2>2 DEF RunOf, Dispatching
  <2> QED
    BY <1>s, <2>1, <2>3
<1>10. ASSUME NEW d \in Slots, SlotStep(d) \/ AgentStep(d) PROVE LeasedInv' /\ LeaseMove
  <2> DEFINE k == slot[d].job
  <2>1. main' = main /\ Dispatching(d)
    BY <1>10 DEF SlotStep, AgentStep, DispatchTurnedAway, LeaveRunning, PrepareWorktree,
         StaleRound, NoAssessment, Launch, AgentFails, RouteFallsThrough, Conclude, AgentCompletes,
         AgentCommits, AgentPushes, RenewLease, Dispatching
  <2>2. k \in Jobs /\ RunOf[d] = k
    BY <2>1, RunFacts
  <2>3. Finished(d) => RunOf' = [RunOf EXCEPT ![d] = NoJob]
    BY <2>1, FinishedRun
  <2>4. CASE DispatchTurnedAway(d) \/ StaleRound(d) \/ NoAssessment(d) \/ Conclude(d)
    <3>1. PICK o \in J!TerminalOutcomes : RowEnds(k, d, o)
      BY <1>t, <2>4 DEF DispatchTurnedAway, StaleRound, NoAssessment, Conclude, RoundOutcome
    <3>2. Finished(d)
      BY <2>4 DEF DispatchTurnedAway, StaleRound, NoAssessment, Conclude
    <3>3. job' = [job EXCEPT ![k] = IF J!HeldBy(job[k], d) THEN J!Resolved(job[k], o) ELSE job[k]]
      BY <3>1 DEF RowEnds
    <3>4. Resting(J!Resolved(job[k], o))
      BY <1>r, <2>2, LeaseEffects
    <3> HIDE DEF k
    <3> QED
      BY <2>2, <2>3, <3>2, <3>3, <3>4, EndMove
  <2>5. CASE AgentFails(d)
    <3>1. /\ job' = [job EXCEPT ![k] = IF J!HeldBy(job[k], d) THEN J!Retried(job[k]) ELSE job[k]]
          /\ Finished(d)
      BY <2>5 DEF AgentFails
    <3>2. Resting(J!Retried(job[k]))
      BY <1>r, <2>2, LeaseEffects
    <3> HIDE DEF k
    <3> QED
      BY <2>2, <2>3, <3>1, <3>2, EndMove
  <2>6. CASE LeaveRunning(d)
    <3>1. Finished(d) /\ job' = job
      BY <2>6 DEF LeaveRunning
    <3> QED
      BY <2>3, <3>1, UntouchedMove
  <2>7. ASSUME slot'[d].pc \notin {"idle", "finished"}, slot'[d].job = slot[d].job,
               \A e \in Slots \ {d} : slot'[e] = slot[e]
        PROVE  RunOf' = RunOf
    BY <2>1, <2>7, OngoingRun
  <2>8. CASE \/ PrepareWorktree(d) \/ Launch(d) \/ RouteFallsThrough(d) \/ AgentCommits(d)
             \/ AgentPushes(d) \/ \E v \in {"FIXED", "other"} : AgentCompletes(d, v)
    <3>1. slot'[d].pc \notin {"idle", "finished"} /\ slot'[d].job = slot[d].job
      BY <2>8 DEF PrepareWorktree, Launch, RouteFallsThrough, AgentCommits, AgentPushes,
                  AgentCompletes, Returned, TypeOK
    <3>2. /\ \A e \in Slots \ {d} : slot'[e] = slot[e]
          /\ job' = job
      BY <2>8 DEF PrepareWorktree, Launch, RouteFallsThrough, AgentCommits, AgentPushes,
                  AgentCompletes, Returned, TypeOK
    <3> QED
      BY <1>s, <2>7, <3>1, <3>2
  <2>9. CASE RenewLease(d)
    <3>1. job' = [job EXCEPT ![k] = J!Renewed(job[k])] /\ J!HeldBy(job[k], d) /\ slot' = slot
      BY <2>9 DEF RenewLease
    <3>2. RunOf' = RunOf
      BY <2>1, <2>7, <3>1 DEF Dispatching
    <3> HIDE DEF k
    <3> QED
      BY <2>2, <3>1, <3>2, RenewedMove
  <2> QED
    BY <1>10, <2>4, <2>5, <2>6, <2>8, <2>9 DEF SlotStep, AgentStep
<1>11. CASE \E p \in PRs : AuthorPushes(p)
  <2>1. RunOf' = RunOf /\ job' = job
    BY <1>11 DEF AuthorPushes, RunOf, Dispatching
  <2> QED
    BY <1>s, <2>1
<1>12. ASSUME NEW j \in Jobs, LeaseExpires(j) PROVE LeasedInv' /\ LeaseMove
  <2>1. RunOf' = RunOf /\ job[j].state = "running" /\ job' = [job EXCEPT ![j] = J!Lapsed(job[j])]
    BY <1>12 DEF LeaseExpires, RunOf, Dispatching
  <2> QED
    BY <2>1, LapsedMove
<1>13. CASE MainRaises
  <2>1. main'.job = NoJob /\ slot' = slot /\ job' = job
    BY <1>13 DEF MainRaises, AtPoll
  <2>2. CASE main.pc \in {"claimed", "cleared"}
    <3>1. main.slot \in Slots /\ RunOf' = [RunOf EXCEPT ![main.slot] = NoJob]
      BY <2>1, <2>2, RunFacts, DroppedRun
    <3> QED
      BY <2>1, <3>1, UntouchedMove
  <2>3. CASE main.pc \notin {"claimed", "cleared"}
    <3>1. main.job = NoJob
      BY <2>3, RunFacts
    <3>2. RunOf' = RunOf
      BY <2>1, <3>1 DEF RunOf, Dispatching
    <3> QED
      BY <1>s, <2>1, <3>2
  <2> QED
    BY <2>2, <2>3
<1>14. CASE RestartAfterRaise \/ Crash
  <2>1. job' = job /\ main' = AtPoll /\ slot' = [d \in Slots |-> IdleSlot]
    BY <1>14 DEF RestartAfterRaise, Crash, Restarted
  <2>2. RunOf' = [d \in Slots |-> NoJob]
    BY <2>1 DEF RunOf, Dispatching, AtPoll, IdleSlot
  <2> QED
    BY <2>1, <2>2, UntouchedMove
<1>15. CASE UNCHANGED vars
  <2>1. RunOf' = RunOf /\ job' = job
    BY <1>15 DEF vars, RunOf, Dispatching
  <2> QED
    BY <1>s, <2>1
<1> QED
  BY <1>1, <1>2, <1>3, <1>4, <1>5, <1>6, <1>7, <1>8, <1>9, <1>10, <1>11, <1>12, <1>13, <1>14, <1>15
  DEF Next, MainStep, Environment

\* The builder lane implements the lease protocol of JobLease: nobody but its
\* own dispatch ends a live lease, for any number of rounds, slots and crashes.
THEOREM BuilderLaneImplementsJobLease == Spec => LeaseRefined
<1>1. Init => Lease!LeaseInit
  BY DEF Init, Lease!LeaseInit, OwnerOf, LapsedLeases, RunOf, J!Absent, IdleSlot, AtPoll, Dispatching
<1>2. Init => LeasedInv
  BY DEF Init, LeasedInv, LeasedRow, J!Absent
<1>3. LeaseMove => [Lease!LeaseNext]_(Lease!leaseVars)
  BY DEF LeaseMove, Lease!leaseVars
<1> QED
  BY TypeInit, TypeStep, KeyInit, KeyStep, <1>1, <1>2, <1>3, LeaseStep, PTL
  DEF Spec, LeaseRefined, Lease!LeaseSpec
=============================================================================
