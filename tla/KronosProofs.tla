----------------------------- MODULE KronosProofs -----------------------------
(***************************************************************************)
(* Theorems about Kronos for every set of PRs and processes, every page    *)
(* size and every bound on faults and moves.                               *)
(***************************************************************************)
EXTENDS Kronos, TLAPS

-----------------------------------------------------------------------------
(* Type correctness.                                                       *)

PassRecs == [pc : Pcs, mem : Slots, sick : BOOLEAN, spent : BOOLEAN,
             todo : SUBSET PRs, full : BOOLEAN, last : PRs \cup {0},
             cur : PRs \cup {0}, ask : {"none", "go", "stop"},
             retry : BOOLEAN, fix : SUBSET Fingerprints]

\* What TypeOK says of one process.
PassTyped(k, r, holder) ==
    /\ r \in PassRecs
    /\ r.pc # "off" => holder = k
    /\ r.pc \in {"comment", "owner", "mark", "prove", "commit"} => r.cur \in PRs
    /\ r.pc = "conflict" => r.cur \in Conflicted

\* The fingerprints a pass alerts about, and slots that only shrank or took in
\* something well formed.
LEMMA SlotFacts ==
    /\ Empty \in Slots /\ Off \in PassRecs
    /\ Service \in Fingerprints
    /\ \A p \in PRs : Loop(p) \in Fingerprints
    /\ \A p \in Conflicted : Conflict(p) \in Fingerprints /\ p \in PRs
    /\ \A p \in PRs, d \in {"go", "stop", "none"} : NeedsOf(p, d) \subseteq Owed
  BY KronosAssumptions DEF Empty, Slots, Off, PassRecs, Pcs, Fingerprints, NeedsOf, Owed

\* A process that writes a well-formed pass leaves the passes well typed.
LEMMA PassWrite ==
    ASSUME TypeOK, NEW k \in Passes, NEW r, PassTyped(k, r, lock'),
           run' = [run EXCEPT ![k] = r],
           \/ lock' = lock
           \/ \A j \in Passes \ {k} : run[j].pc = "off"
    PROVE  /\ run' \in [Passes -> PassRecs]
           /\ \A j \in Passes : PassTyped(j, run'[j], lock')
  BY DEF TypeOK, PassTyped, PassRecs

\* TypeOK, process by process.
LEMMA TypeAgain ==
    TypeOK <=> /\ up \in BOOLEAN
               /\ pr \in [PRs -> Situations]
               /\ ruling \in [PRs -> {"none", "go", "stop"}]
               /\ notified \subseteq PRs
               /\ comments \in [PRs -> Nat]
               /\ issues \in [Fingerprints -> Nat]
               /\ missed \in [Fingerprints -> Nat]
               /\ told \subseteq PRs
               /\ disk \in Slots
               /\ lock \in Passes \cup {NoPass}
               /\ run \in [Passes -> PassRecs]
               /\ \A k \in Passes : PassTyped(k, run[k], lock)
               /\ moves \in Nat /\ faults \in Nat
  BY DEF TypeOK, PassTyped, PassRecs

\* The initial state is well typed.
LEMMA TypeInit == Init => TypeOK
<1> SUFFICES ASSUME Init PROVE TypeOK
  OBVIOUS
<1>1. up \in BOOLEAN
  BY KronosAssumptions DEF Init
<1>2. \A k \in Passes : PassTyped(k, run[k], lock)
  BY SlotFacts DEF Init, PassTyped, Off
<1> QED
  BY <1>1, <1>2, SlotFacts, TypeAgain DEF Init, Situations, PassTyped

\* The effect of an alert, and of a resolved one.
LEMMA AlertTyped ==
    ASSUME TypeOK, NEW k \in Passes, NEW f \in Fingerprints, NEW how,
           Alert(k, f, how) \/ Close(k, f, how)
    PROVE  issues' \in [Fingerprints -> Nat] /\ missed' \in [Fingerprints -> Nat] /\ faults' \in Nat
<1>1. Opened(f) \in [Fingerprints -> Nat] /\ [issues EXCEPT ![f] = @ + 1] \in [Fingerprints -> Nat]
  BY DEF TypeOK, Opened
<1>2. Closed(f) \in [Fingerprints -> Nat]
  BY DEF TypeOK, Closed
<1>3. [missed EXCEPT ![f] = @ + 1] \in [Fingerprints -> Nat]
  BY DEF TypeOK
<1>4. faults' = faults \/ faults' = faults + 1
  BY DEF Alert, Close, Ends, Misses, Fault
<1>5. missed' = missed \/ missed' = [missed EXCEPT ![f] = @ + 1]
  BY DEF Alert, Close, Misses
<1>6. issues' \in {issues, Opened(f), Closed(f), [issues EXCEPT ![f] = @ + 1]}
  BY DEF Alert, Close
<1> QED
  BY <1>1, <1>2, <1>3, <1>4, <1>5, <1>6 DEF TypeOK

\* However an alert pass ends, it counts at most one failed call.
LEMMA EndsTyped ==
    ASSUME TypeOK, NEW k, NEW how, Ends(k, how)
    PROVE  faults' \in Nat
  BY DEF TypeOK, Ends, Fault

\* A step of process k that keeps the lock writes a typed pass.
LEMMA StepTyped ==
    ASSUME TypeOK, NEW k \in Passes, ~At(k, "off"), PassStep(k)
    PROVE  TypeOK'
<1> DEFINE r == run[k]
<1>1. /\ r \in PassRecs /\ PassTyped(k, r, lock) /\ lock = k /\ lock # NoPass
      /\ r.mem \in Slots
      /\ \A j \in Passes \ {k} : run[j].pc = "off"
  BY KronosAssumptions DEF TypeOK, PassTyped, PassRecs, At, NoPass
<1>2. ASSUME NEW q \in PassRecs, run' = [run EXCEPT ![k] = q], PassTyped(k, q, lock),
             UNCHANGED <<outside, lock>>,
             issues' \in [Fingerprints -> Nat], missed' \in [Fingerprints -> Nat],
             ruling' \in [PRs -> {"none", "go", "stop"}], notified' \subseteq PRs,
             comments' \in [PRs -> Nat], told' \subseteq PRs,
             disk' \in Slots, faults' \in Nat
      PROVE  TypeOK'
  <2>1. /\ run' \in [Passes -> PassRecs]
        /\ \A j \in Passes : PassTyped(j, run'[j], lock')
    BY <1>2, PassWrite
  <2> QED
    BY <1>2, <2>1 DEF TypeOK, PassTyped, PassRecs, outside
<1>3. ASSUME NEW pc \in Pcs, pc \notin {"off", "comment", "owner", "mark", "prove", "commit", "conflict"},
             Goto(k, pc), UNCHANGED <<outside, rulings, posted, disk, lock>>, faults' \in Nat
      PROVE  TypeOK'
  <2>1. [r EXCEPT !.pc = pc] \in PassRecs /\ PassTyped(k, [r EXCEPT !.pc = pc], lock)
    BY <1>1, <1>3 DEF PassTyped, PassRecs
  <2> QED
    BY <1>2, <1>3, <2>1 DEF Goto, TypeOK, rulings, posted, PassRecs
<1>4. CASE Checks(k)
  <2> DEFINE q == [r EXCEPT !.pc = "alert", !.sick = ~up]
  <2>1. q \in PassRecs /\ PassTyped(k, q, lock)
    BY <1>1 DEF PassTyped, PassRecs, Pcs, TypeOK
  <2> QED
    BY <1>2, <1>4, <2>1 DEF Checks, TypeOK, rulings, posted
<1>5. CASE AlertBroken(k)
  <2>1. CASE r.sick
    <3>1. PICK how \in Alerts :
             /\ Alert(k, Service, how)
             /\ run' = [run EXCEPT ![k].pc = "reconstruct",
                                   ![k].mem.open = Tracked(@, Service, how)]
      BY <1>5, <2>1 DEF AlertBroken
    <3> DEFINE q == [r EXCEPT !.pc = "reconstruct",
                              !.mem.open = Tracked(r.mem.open, Service, how)]
    <3>2. Tracked(r.mem.open, Service, how) \subseteq Fingerprints
      BY <1>1, SlotFacts DEF Tracked, Slots
    <3>3. q \in PassRecs /\ PassTyped(k, q, lock)
      BY <1>1, <3>2 DEF PassTyped, PassRecs, Pcs, Slots
    <3>4. issues' \in [Fingerprints -> Nat] /\ missed' \in [Fingerprints -> Nat] /\ faults' \in Nat
      BY <3>1, AlertTyped, SlotFacts
    <3>5. run' = [run EXCEPT ![k] = q]
      BY <3>1
    <3> QED
      BY <1>2, <1>5, <3>3, <3>4, <3>5 DEF AlertBroken, TypeOK, rulings
  <2>2. CASE ~r.sick
    BY <1>3, <1>5, <2>2 DEF AlertBroken, TypeOK, Pcs, rulings, posted
  <2> QED
    BY <2>1, <2>2
<1>6. CASE Reconstruct(k)
  <2>1. CASE r.spent
    BY SMTT(40), <1>3, <1>6, <2>1 DEF Reconstruct, TypeOK, Pcs, rulings, posted
  <2>2. CASE ~r.spent
    <3>1. PICK new \in {Rebuilt(k), {}} :
             /\ IF new = Rebuilt(k) THEN UNCHANGED faults ELSE Fault
             /\ run' = [run EXCEPT
                        ![k].pc = "drain",
                        ![k].mem.outbox = @ \cup new,
                        ![k].mem.owes = @ \cup UNION {NeedsOf(p, ruling[p]) : p \in new},
                        ![k].todo = run[k].mem.outbox \cup new]
      BY <1>6, <2>2 DEF Reconstruct
    <3> DEFINE needs == UNION {NeedsOf(p, ruling[p]) : p \in new}
               m == [r.mem EXCEPT !.outbox = r.mem.outbox \cup new, !.owes = r.mem.owes \cup needs]
               q == [r EXCEPT !.pc = "drain", !.mem = m, !.todo = r.mem.outbox \cup new]
    <3>2. new \subseteq PRs
      BY DEF Rebuilt, Unnotified
    <3>3. needs \subseteq Owed
      <4>1. \A p \in PRs : NeedsOf(p, ruling[p]) \subseteq Owed
        BY SMTT(40), SlotFacts DEF TypeOK
      <4> QED
        BY <3>2, <4>1
    <3>4. m \in Slots
      BY ZenonT(60), <1>1, <3>2, <3>3 DEF Slots
    <3>5. q \in PassRecs /\ PassTyped(k, q, lock)
      BY ZenonT(60), <1>1, <3>2, <3>4 DEF PassTyped, PassRecs, Pcs, Slots
    <3>6. run' = [run EXCEPT ![k] = q]
      BY ZenonT(60), <1>1, <3>1 DEF PassRecs, Slots, TypeOK
    <3>7. disk' = r.mem
      BY <1>6, <2>2 DEF Reconstruct
    <3>8. faults' = faults \/ faults' = faults + 1
      BY <3>1 DEF Fault
    <3>9. faults' \in Nat
      BY <3>8 DEF TypeOK
    <3> QED
      BY ZenonT(60), <1>1, <1>2, <1>6, <3>5, <3>6, <3>7, <3>9 DEF Reconstruct, TypeOK, rulings, posted
  <2> QED
    BY <2>1, <2>2
<1>7. CASE DrainNext(k)
  <2>1. PICK p \in r.todo :
           run' = [run EXCEPT ![k].pc = "comment", ![k].cur = p, ![k].retry = TRUE, ![k].todo = @ \ {p}]
    BY <1>7 DEF DrainNext
  <2> DEFINE q == [r EXCEPT !.pc = "comment", !.cur = p, !.retry = TRUE, !.todo = r.todo \ {p}]
  <2>2. q \in PassRecs /\ PassTyped(k, q, lock)
    BY <1>1 DEF PassTyped, PassRecs, Pcs
  <2>3. run' = [run EXCEPT ![k] = q]
    BY <2>1
  <2> QED
    BY <1>2, <1>7, <2>2, <2>3 DEF DrainNext, TypeOK, rulings, posted
<1>8. CASE DrainEnds(k)
  <2> DEFINE q == [r EXCEPT !.pc = "page", !.cur = 0, !.retry = FALSE, !.todo = {}]
  <2>1. q \in PassRecs /\ PassTyped(k, q, lock)
    BY ZenonT(60), <1>1 DEF PassTyped, PassRecs, Pcs
  <2>2. run' = [run EXCEPT ![k] = q]
    BY <1>8 DEF DrainEnds
  <2> QED
    BY <1>2, <1>8, <2>1, <2>2 DEF DrainEnds, TypeOK, rulings, posted
<1>9. ASSUME NEW owes, owes \subseteq r.mem.owes, NEW open \in SUBSET Fingerprints,
             NEW pc \in {"owner", "sweep", "mark", "drain"},
             r.pc \in {"comment", "owner"},
             run' = [run EXCEPT ![k] = [r EXCEPT !.pc = pc, !.mem = [r.mem EXCEPT !.owes = owes, !.open = open]]],
             UNCHANGED <<outside, lock, rulings, disk>>,
             issues' \in [Fingerprints -> Nat], missed' \in [Fingerprints -> Nat],
             comments' \in [PRs -> Nat], told' \subseteq PRs,
             faults' \in Nat
      PROVE  TypeOK'
  <2> DEFINE m == [r.mem EXCEPT !.owes = owes, !.open = open]
             q == [r EXCEPT !.pc = pc, !.mem = m]
  <2>1. m \in Slots
    BY <1>1, <1>9 DEF Slots
  <2>2. q \in PassRecs /\ PassTyped(k, q, lock)
    BY <1>1, <1>9, <2>1 DEF PassTyped, PassRecs, Pcs
  <2> QED
    BY <1>2, <1>9, <2>2 DEF TypeOK, rulings
<1>10. CASE Comment(k)
  <2> DEFINE p == r.cur
  <2>1. r.pc = "comment" /\ p \in PRs /\ r.mem.open \subseteq Fingerprints
    BY <1>1, <1>10 DEF Comment, At, PassTyped, Slots
  <2>2. CASE <<p, "comment">> \in r.mem.owes
    <3>1. PICK how \in Calls :
             /\ Ends(k, how)
             /\ comments' = IF how = "refused" THEN comments ELSE [comments EXCEPT ![p] = @ + 1]
             /\ run' = [run EXCEPT ![k].pc = "owner",
                           ![k].mem.owes = IF how = "returned" THEN @ \ {<<p, "comment">>} ELSE @]
      BY <1>10, <2>2 DEF Comment
    <3> DEFINE owes == IF how = "returned" THEN r.mem.owes \ {<<p, "comment">>} ELSE r.mem.owes
    <3>2. run' = [run EXCEPT ![k] = [r EXCEPT !.pc = "owner",
                             !.mem = [r.mem EXCEPT !.owes = owes, !.open = r.mem.open]]]
      BY ZenonT(60), <1>1, <3>1 DEF TypeOK, PassRecs, Slots
    <3>3. comments' \in [PRs -> Nat]
      BY <2>1, <3>1 DEF TypeOK
    <3>4. faults' \in Nat
      BY <3>1, EndsTyped
    <3>5. UNCHANGED <<outside, lock, rulings, disk, issues, missed, told>>
      BY <1>10 DEF Comment, rulings
    <3>6. owes \subseteq r.mem.owes
      OBVIOUS
    <3> HIDE DEF owes
    <3> QED
      BY <1>9, <2>1, <3>2, <3>3, <3>4, <3>5, <3>6 DEF TypeOK
  <2>3. CASE <<p, "comment">> \notin r.mem.owes
    <3>1. run' = [run EXCEPT ![k] = [r EXCEPT !.pc = "owner",
                             !.mem = [r.mem EXCEPT !.owes = r.mem.owes, !.open = r.mem.open]]]
      <4>1. r.mem = [r.mem EXCEPT !.owes = r.mem.owes, !.open = r.mem.open]
        BY <1>1 DEF Slots
      <4>2. run' = [run EXCEPT ![k] = [r EXCEPT !.pc = "owner", !.mem = r.mem]]
        BY <1>1, <1>10, <2>3 DEF Comment, Goto, TypeOK, PassRecs
      <4> QED
        BY <4>1, <4>2
    <3> QED
      BY <1>9, <1>10, <2>1, <2>3, <3>1 DEF Comment, TypeOK, rulings
  <2> QED
    BY <2>2, <2>3
<1>11. CASE AlertOwner(k)
  <2> DEFINE p == r.cur
             owes(how) == IF how \in {"returned", "suppressed"} THEN r.mem.owes \ {<<p, "alert">>}
                          ELSE r.mem.owes
  <2>1. r.pc = "owner" /\ p \in PRs /\ Loop(p) \in Fingerprints
    BY <1>1, <1>11, SlotFacts DEF AlertOwner, At, PassTyped
  <2>2. \A o : AfterDelivery(k, o) \in {"owner", "sweep", "mark", "drain"}
    BY DEF AfterDelivery
  <2>3. CASE <<p, "alert">> \in r.mem.owes
    <3>1. PICK how \in Alerts :
               /\ Alert(k, Loop(p), how)
               /\ told' = IF how = "refused" THEN told ELSE told \cup {p}
               /\ run' = [run EXCEPT ![k].pc = AfterDelivery(k, owes(how)),
                             ![k].mem.owes = owes(how),
                             ![k].mem.open = Tracked(@, Loop(p), how)]
      BY <1>11, <2>3 DEF AlertOwner
    <3> DEFINE left == owes(how)
               open == Tracked(r.mem.open, Loop(p), how)
    <3>2. run' = [run EXCEPT ![k] = [r EXCEPT !.pc = AfterDelivery(k, left),
                             !.mem = [r.mem EXCEPT !.owes = left, !.open = open]]]
      <4>1. run \in [Passes -> PassRecs]
        BY DEF TypeOK, PassRecs
      <4> HIDE DEF owes
      <4>2. run' = [run EXCEPT ![k].pc = AfterDelivery(k, left), ![k].mem.owes = left,
                               ![k].mem.open = open]
        BY <1>1, <3>1, <4>1 DEF PassRecs, Slots
      <4> HIDE DEF left, open
      <4>3. [run EXCEPT ![k].pc = AfterDelivery(k, left), ![k].mem.owes = left,
                        ![k].mem.open = open]
              = [run EXCEPT ![k] = [run[k] EXCEPT !.pc = AfterDelivery(k, left),
                                !.mem = [run[k].mem EXCEPT !.owes = left, !.open = open]]]
        BY ZenonT(60)
      <4> QED
        BY <4>2, <4>3
    <3>3. told' \subseteq PRs /\ open \subseteq Fingerprints /\ left \subseteq r.mem.owes
      BY <1>1, <2>1, <3>1 DEF TypeOK, Tracked, Slots
    <3>4. issues' \in [Fingerprints -> Nat] /\ missed' \in [Fingerprints -> Nat] /\ faults' \in Nat
      BY <2>1, <3>1, AlertTyped
    <3>5. UNCHANGED <<outside, lock, rulings, disk, comments>>
      BY <1>11 DEF AlertOwner
    <3> HIDE DEF left, open
    <3> QED
      BY <1>9, <2>1, <2>2, <3>2, <3>3, <3>4, <3>5 DEF TypeOK
  <2>4. CASE <<p, "alert">> \notin r.mem.owes
    <3>1. run' = [run EXCEPT ![k] = [r EXCEPT !.pc = AfterDelivery(k, r.mem.owes),
                             !.mem = [r.mem EXCEPT !.owes = r.mem.owes, !.open = r.mem.open]]]
      <4>1. r.mem = [r.mem EXCEPT !.owes = r.mem.owes, !.open = r.mem.open]
        BY <1>1 DEF Slots
      <4>2. run' = [run EXCEPT ![k] = [r EXCEPT !.pc = AfterDelivery(k, r.mem.owes), !.mem = r.mem]]
        BY <1>1, <1>11, <2>4 DEF AlertOwner, Goto, TypeOK, PassRecs
      <4> QED
        BY <4>1, <4>2
    <3>2. r.mem.open \subseteq Fingerprints
      BY <1>1 DEF Slots
    <3> QED
      BY <1>9, <1>11, <2>1, <2>2, <2>4, <3>1, <3>2 DEF AlertOwner, TypeOK
  <2> QED
    BY <2>3, <2>4
<1>12. CASE Mark(k)
  <2> DEFINE m == [r.mem EXCEPT !.outbox = r.mem.outbox \ {r.cur}]
             q == [r EXCEPT !.pc = "drain", !.mem = m]
  <2>1. PICK how \in {"returned", "refused"} :
          /\ Ends(k, how)
          /\ notified' = IF how = "refused" THEN notified ELSE notified \cup {run[k].cur}
    BY <1>12 DEF Mark
  <2>2. m \in Slots
    BY <1>1 DEF Slots
  <2>3. q \in PassRecs /\ PassTyped(k, q, lock) /\ r.cur \in PRs
    BY <1>1, <1>12, <2>2 DEF PassTyped, PassRecs, Pcs, Mark, At
  <2>4. run' = [run EXCEPT ![k] = q]
    BY <1>1, <1>12 DEF Mark, TypeOK, PassRecs, Slots
  <2>5. notified' \subseteq PRs /\ faults' \in Nat
    BY <2>1, <2>3, EndsTyped DEF TypeOK
  <2> QED
    BY <1>2, <1>12, <2>3, <2>4, <2>5 DEF Mark, TypeOK, posted
<1>13. CASE ReadPage(k)
  <2> DEFINE page == FirstOf(After(r.mem.cursor))
             full == Cardinality(page) = PageSize
             q1 == [r EXCEPT !.pc = "sweep", !.todo = page, !.last = 0, !.full = full]
             q2 == [r EXCEPT !.pc = "resolve", !.fix = r.mem.open]
  <2>1. page \subseteq PRs /\ full \in BOOLEAN
    BY DEF FirstOf, After
  <2> HIDE DEF page, full
  <2>2. /\ q1 \in PassRecs /\ PassTyped(k, q1, lock)
        /\ q2 \in PassRecs /\ PassTyped(k, q2, lock)
    <3>1. r.mem.open \subseteq Fingerprints
      BY <1>1 DEF Slots
    <3>2. q1 \in PassRecs /\ PassTyped(k, q1, lock)
      BY <1>1, <2>1 DEF PassTyped, PassRecs, Pcs
    <3> QED
      BY ZenonT(60), <1>1, <3>1, <3>2 DEF PassTyped, PassRecs, Pcs
  <2>3. /\ \/ run' = [run EXCEPT ![k] = q1] /\ UNCHANGED <<faults, disk>>
           \/ run' = [run EXCEPT ![k] = q2] /\ Fault /\ disk' = r.mem
        /\ UNCHANGED <<outside, rulings, posted, lock>>
    BY <1>13 DEF ReadPage, page, full
  <2>4. faults' \in Nat /\ disk' \in Slots
    BY <1>1, <2>3 DEF TypeOK, Fault
  <2> QED
    BY <1>2, <2>2, <2>3, <2>4 DEF TypeOK, rulings, posted
<1>14. ASSUME NEW q \in PassRecs, run' = [run EXCEPT ![k] = q], PassTyped(k, q, lock),
              UNCHANGED <<outside, rulings, posted, disk, lock>>,
              UNCHANGED faults \/ Fault
       PROVE  TypeOK'
  <2>1. faults' \in Nat
    BY <1>14 DEF Fault, TypeOK
  <2> QED
    BY <1>2, <1>14, <2>1 DEF TypeOK, rulings, posted
<1>15. CASE \E p \in PRs : PassOver(k, p)
  <2>1. PICK p \in PRs : PassOver(k, p)
    BY <1>15
  <2> DEFINE q == [r EXCEPT !.todo = r.todo \ {p}, !.last = p]
  <2>2. q \in PassRecs /\ PassTyped(k, q, lock)
    BY <1>1 DEF PassTyped, PassRecs
  <2>3. run' = [run EXCEPT ![k] = q] /\ UNCHANGED <<outside, rulings, posted, disk, lock>>
        /\ (UNCHANGED faults \/ Fault)
    BY <2>1 DEF PassOver
  <2> QED
    BY <1>14, <2>2, <2>3
<1>16. CASE \E p \in PRs : Ask(k, p)
  <2>1. PICK p \in PRs, answer \in {"go", "stop"} :
          /\ run' = [run EXCEPT ![k].pc = "prove", ![k].cur = p, ![k].ask = answer, ![k].todo = @ \ {p}]
          /\ UNCHANGED <<outside, rulings, posted, disk, lock, faults>>
    BY <1>16 DEF Ask
  <2> DEFINE q == [r EXCEPT !.pc = "prove", !.cur = p, !.ask = answer, !.todo = r.todo \ {p}]
  <2>2. q \in PassRecs /\ PassTyped(k, q, lock)
    BY <1>1 DEF PassTyped, PassRecs, Pcs
  <2>3. run' = [run EXCEPT ![k] = q]
    BY <2>1
  <2> QED
    BY <1>14, <2>1, <2>2, <2>3
<1>17. CASE Prove(k)
  <2> DEFINE q1 == [r EXCEPT !.pc = "sweep", !.ask = "none", !.todo = {}]
             q2 == [r EXCEPT !.pc = "commit"]
             q3 == [r EXCEPT !.pc = "sweep", !.ask = "none", !.last = r.cur]
  <2>1. /\ q1 \in PassRecs /\ PassTyped(k, q1, lock)
        /\ q2 \in PassRecs /\ PassTyped(k, q2, lock)
        /\ q3 \in PassRecs /\ PassTyped(k, q3, lock)
    BY <1>1, <1>17 DEF PassTyped, PassRecs, Pcs, Prove, At
  <2>2. /\ \/ run' = [run EXCEPT ![k] = q1]
           \/ run' = [run EXCEPT ![k] = q2]
           \/ run' = [run EXCEPT ![k] = q3]
        /\ UNCHANGED <<outside, rulings, posted, disk, lock>>
        /\ (UNCHANGED faults \/ Fault)
    BY <1>17 DEF Prove, Goto
  <2> QED
    BY <1>14, <2>1, <2>2
<1>18. CASE Commit(k)
  <2> DEFINE p == r.cur
             m == [r.mem EXCEPT !.judged = r.mem.judged \cup {p},
                                !.outbox = r.mem.outbox \cup {p},
                                !.owes = r.mem.owes \cup NeedsOf(p, r.ask)]
             q1 == [r EXCEPT !.pc = "comment", !.ask = "none", !.last = p, !.mem = m]
             q2 == [r EXCEPT !.pc = "sweep", !.ask = "none", !.last = p]
  <2>1. p \in PRs /\ r.ask \in {"none", "go", "stop"}
    BY <1>1, <1>18 DEF Commit, At, PassTyped, PassRecs
  <2>2. NeedsOf(p, r.ask) \subseteq Owed
    BY <2>1, SlotFacts
  <2>3. m \in Slots
    BY <1>1, <2>1, <2>2 DEF Slots
  <2>4. /\ q1 \in PassRecs /\ PassTyped(k, q1, lock)
        /\ q2 \in PassRecs /\ PassTyped(k, q2, lock)
    BY <1>1, <2>1, <2>3 DEF PassTyped, PassRecs, Pcs
  <2>5. \/ run' = [run EXCEPT ![k] = q1] /\ UNCHANGED faults
        \/ run' = [run EXCEPT ![k] = q2] /\ Fault
    BY <1>18 DEF Commit
  <2>6. run' = [run EXCEPT ![k] = q1] \/ run' = [run EXCEPT ![k] = q2]
    BY <2>5
  <2>7. /\ faults' \in Nat /\ ruling' \in [PRs -> {"none", "go", "stop"}]
        /\ UNCHANGED <<outside, notified, posted, disk, lock>>
    <3>1. faults' = faults \/ faults' = faults + 1
      BY <2>5 DEF Fault
    <3>2. ruling' = [ruling EXCEPT ![p] = r.ask] /\ UNCHANGED <<outside, notified, posted, disk, lock>>
      BY <1>18 DEF Commit
    <3> QED
      BY <2>1, <3>1, <3>2 DEF TypeOK
  <2> QED
    BY <1>2, <2>4, <2>6, <2>7 DEF TypeOK, posted
<1>19. CASE RollBack(k)
  <2> DEFINE q1 == [r EXCEPT !.pc = "sweep", !.ask = "none", !.todo = {}]
             q2 == [r EXCEPT !.pc = "conflict"]
  <2>1. q1 \in PassRecs /\ PassTyped(k, q1, lock)
    BY <1>1 DEF PassTyped, PassRecs, Pcs
  <2>2. r.cur \in Conflicted => q2 \in PassRecs /\ PassTyped(k, q2, lock)
    BY <1>1 DEF PassTyped, PassRecs, Pcs
  <2>3. /\ \/ run' = [run EXCEPT ![k] = q1]
           \/ run' = [run EXCEPT ![k] = q2] /\ r.cur \in Conflicted
        /\ UNCHANGED <<outside, rulings, posted, disk, lock, faults>>
    BY <1>19 DEF RollBack, Goto
  <2> QED
    BY <1>14, <2>1, <2>2, <2>3
<1>20. CASE AlertConflict(k)
  <2> DEFINE f == Conflict(r.cur)
  <2>1. f \in Fingerprints /\ r.cur \in PRs
    BY <1>1, <1>20, SlotFacts DEF AlertConflict, At, PassTyped
  <2>2. PICK how \in Alerts :
          /\ Alert(k, f, how)
          /\ run' = [run EXCEPT ![k].pc = "sweep", ![k].last = run[k].cur, ![k].ask = "none",
                                ![k].mem.open = Tracked(@, f, how)]
    BY <1>20 DEF AlertConflict
  <2> DEFINE open == Tracked(r.mem.open, f, how)
             m == [r.mem EXCEPT !.open = open]
             q == [r EXCEPT !.pc = "sweep", !.last = r.cur, !.ask = "none", !.mem = m]
  <2>3. open \subseteq Fingerprints
    BY <1>1, <2>1 DEF Tracked, Slots
  <2>4. m \in Slots
    BY <1>1, <2>3 DEF Slots
  <2>5. q \in PassRecs /\ PassTyped(k, q, lock)
    BY <1>1, <2>1, <2>4 DEF PassTyped, PassRecs, Pcs
  <2>6. run' = [run EXCEPT ![k] = q]
    BY <1>1, <2>2 DEF TypeOK, PassRecs, Slots
  <2>7. issues' \in [Fingerprints -> Nat] /\ missed' \in [Fingerprints -> Nat] /\ faults' \in Nat
    BY <2>1, <2>2, AlertTyped
  <2> QED
    BY <1>2, <1>20, <2>5, <2>6, <2>7 DEF AlertConflict, TypeOK, rulings
<1>21. CASE SweepEnds(k)
  <2> DEFINE m == [r.mem EXCEPT !.cursor = CursorAfter(k)]
             q == [Off EXCEPT !.pc = "resolve", !.mem = m, !.sick = r.sick, !.spent = r.spent,
                              !.fix = IF r.spent THEN {} ELSE m.open]
  <2>1. CursorAfter(k) \in PRs \cup {0}
    BY <1>1 DEF CursorAfter, PassRecs, Slots
  <2>2. m \in Slots
    BY <1>1, <2>1 DEF Slots
  <2>3. q \in PassRecs /\ PassTyped(k, q, lock)
    <3> DEFINE fix == IF r.spent THEN {} ELSE m.open
    <3>1. fix \in SUBSET Fingerprints
      BY <2>2 DEF Slots
    <3> DEFINE q1 == [Off EXCEPT !.pc = "resolve", !.mem = m]
               q2 == [q1 EXCEPT !.sick = r.sick, !.spent = r.spent, !.fix = fix]
    <3> HIDE DEF m, fix
    <3>2. q1 \in PassRecs /\ q1.pc = "resolve"
      BY <2>2, SlotFacts DEF PassRecs, Pcs
    <3>3. r.sick \in BOOLEAN /\ r.spent \in BOOLEAN
      BY <1>1 DEF PassRecs
    <3>4. q2 \in PassRecs /\ q2.pc = "resolve"
      <4> HIDE DEF q1
      <4> QED
        BY <3>1, <3>2, <3>3 DEF PassRecs
    <3>5. q2 = q
      BY DEF fix
    <3> QED
      BY <1>1, <3>4, <3>5 DEF PassTyped
  <2>4. run' = [run EXCEPT ![k] = q] /\ disk' = m
    BY <1>21 DEF SweepEnds
  <2> QED
    BY <1>2, <1>21, <2>2, <2>3, <2>4 DEF SweepEnds, TypeOK, rulings, posted
<1>22. CASE \E f \in Fingerprints : Resolve(k, f)
  <2>1. PICK f \in Fingerprints : Resolve(k, f)
    BY <1>22
  <2>2. CASE Fixed(k, f)
    <3>1. PICK how \in Calls :
               /\ Close(k, f, how)
               /\ run' = [run EXCEPT ![k].fix = @ \ {f}, ![k].mem.open = StillOpen(@, f, how)]
      BY <2>1, <2>2 DEF Resolve
    <3> DEFINE open == StillOpen(r.mem.open, f, how)
               m == [r.mem EXCEPT !.open = open]
               q == [r EXCEPT !.fix = r.fix \ {f}, !.mem = m]
    <3>2. open \subseteq Fingerprints
      BY <1>1 DEF StillOpen, Slots
    <3>3. m \in Slots
      BY <1>1, <3>2 DEF Slots
    <3>4. q \in PassRecs /\ PassTyped(k, q, lock)
      BY <1>1, <3>3 DEF PassTyped, PassRecs
    <3>5. run' = [run EXCEPT ![k] = q]
      BY <1>1, <3>1 DEF TypeOK, PassRecs, Slots
    <3>6. issues' \in [Fingerprints -> Nat] /\ missed' \in [Fingerprints -> Nat] /\ faults' \in Nat
      BY <3>1, AlertTyped
    <3> QED
      BY <1>2, <2>1, <3>4, <3>5, <3>6 DEF Resolve, TypeOK, rulings
  <2>3. CASE ~Fixed(k, f)
    <3> DEFINE q == [r EXCEPT !.fix = r.fix \ {f}]
    <3>1. q \in PassRecs /\ PassTyped(k, q, lock)
      BY <1>1 DEF PassTyped, PassRecs
    <3>2. run' = [run EXCEPT ![k] = q] /\ UNCHANGED <<outside, rulings, posted, disk, lock, faults>>
      BY <2>1, <2>3 DEF Resolve, posted
    <3> QED
      BY <1>14, <3>1, <3>2
  <2> QED
    BY <2>2, <2>3
<1>23. CASE Exit(k)
  <2>1. /\ run' = [run EXCEPT ![k] = Off] /\ lock' = NoPass /\ disk' = r.mem
        /\ UNCHANGED <<outside, rulings, posted, faults>>
    BY <1>23 DEF Exit
  <2>2. PassTyped(k, Off, lock')
    BY SlotFacts DEF PassTyped, Off
  <2>3. /\ run' \in [Passes -> PassRecs]
        /\ \A j \in Passes : PassTyped(j, run'[j], lock')
    BY <1>1, <2>1, <2>2, PassWrite
  <2> QED
    BY <1>1, <2>1, <2>3 DEF TypeOK, PassTyped, PassRecs, outside, rulings, posted
<1> QED
  BY <1>4, <1>5, <1>6, <1>7, <1>8, <1>10, <1>11, <1>12, <1>13, <1>15, <1>16, <1>17, <1>18, <1>19,
     <1>20, <1>21, <1>22, <1>23 DEF PassStep

\* Every step keeps the types.
LEMMA TypeStep == TypeOK /\ [Next]_vars => TypeOK'
<1> SUFFICES ASSUME TypeOK, [Next]_vars PROVE TypeOK'
  OBVIOUS
<1>1. ASSUME NEW k \in Passes, Begin(k) PROVE TypeOK'
  <2> DEFINE q == [Off EXCEPT !.pc = "checks", !.mem = disk]
  <2>1. \A j \in Passes : run[j].pc = "off"
    BY <1>1, KronosAssumptions DEF Begin, TypeOK, NoPass
  <2>2. PassTyped(k, q, k)
    BY SlotFacts DEF PassTyped, PassRecs, Off, Pcs, TypeOK
  <2>3. run' = [run EXCEPT ![k] = q] /\ lock' = k /\ UNCHANGED <<outside, rulings, posted, disk, faults>>
    BY <1>1 DEF Begin
  <2>4. /\ run' \in [Passes -> PassRecs]
        /\ \A j \in Passes : PassTyped(j, run'[j], lock')
    BY <2>1, <2>2, <2>3, PassWrite
  <2> QED
    BY <2>3, <2>4 DEF TypeOK, PassTyped, PassRecs, outside, rulings, posted
<1>2. ASSUME NEW k \in Passes, PassStep(k) PROVE TypeOK'
  <2>1. ~At(k, "off")
    BY <1>2 DEF At, PassStep, Checks, AlertBroken, Reconstruct, DrainNext, DrainEnds, Comment, AlertOwner,
       Mark, ReadPage, PassOver, Ask, NextRow, Prove, Commit, RollBack, AlertConflict, SweepEnds,
       Resolve, Exit
  <2> QED
    BY SMTT(40), <1>2, <2>1, StepTyped
<1>3. ASSUME NEW k \in Passes, BudgetSpent(k) PROVE TypeOK'
  <2> DEFINE q == [run[k] EXCEPT !.spent = TRUE]
  <2>1. PassTyped(k, q, lock)
    BY ZenonT(60) DEF TypeOK, PassTyped, PassRecs
  <2>2. run' = [run EXCEPT ![k] = q] /\ UNCHANGED <<outside, rulings, posted, disk, lock>> /\ Fault
    BY <1>3 DEF BudgetSpent
  <2>3. /\ run' \in [Passes -> PassRecs]
        /\ \A j \in Passes : PassTyped(j, run'[j], lock')
    BY <2>1, <2>2, PassWrite
  <2>4. faults' \in Nat
    BY <2>2 DEF Fault, TypeOK
  <2> QED
    BY <2>2, <2>3, <2>4 DEF TypeOK, PassTyped, PassRecs, outside, rulings, posted
<1>4. ASSUME NEW k \in Passes, Death(k) PROVE TypeOK'
  <2>1. run' = [run EXCEPT ![k] = Off] /\ lock = k /\ lock' = NoPass
        /\ UNCHANGED <<outside, rulings, posted, disk>> /\ Fault
    BY <1>4 DEF Death, At, TypeOK
  <2>2. PassTyped(k, Off, lock') /\ \A j \in Passes \ {k} : run[j].pc = "off"
    BY <2>1, SlotFacts DEF PassTyped, Off, TypeOK
  <2>3. /\ run' \in [Passes -> PassRecs]
        /\ \A j \in Passes : PassTyped(j, run'[j], lock')
    BY <2>1, <2>2, PassWrite
  <2>4. faults' \in Nat
    BY <2>1 DEF Fault, TypeOK
  <2> QED
    BY <2>1, <2>3, <2>4 DEF TypeOK, PassTyped, PassRecs, outside, rulings, posted
<1>5. CASE ServiceFlips \/ \E p \in PRs : Moves(p)
  <2>1. up' \in BOOLEAN /\ pr' \in [PRs -> Situations] /\ moves' \in Nat
    <3>1. moves' = moves + 1
      BY <1>5 DEF ServiceFlips, Moves, Move
    <3>2. CASE ServiceFlips
      BY <3>1, <3>2 DEF ServiceFlips, TypeOK
    <3>3. CASE \E p \in PRs : Moves(p)
      BY <3>1, <3>3 DEF Moves, TypeOK
    <3> QED
      BY <1>5, <3>2, <3>3
  <2> QED
    BY <1>5, <2>1 DEF ServiceFlips, Moves, TypeOK, rulings, posted
<1>6. CASE UNCHANGED vars
  BY <1>6 DEF vars, TypeOK, outside, rulings, posted
<1> QED
  BY <1>1, <1>2, <1>3, <1>4, <1>5, <1>6 DEF Next, World

\* TypeOK holds in every reachable state; in particular only the holder of
\* pass.lock is ever inside a pass.
THEOREM TypeCorrect == Spec => []TypeOK
  BY TypeInit, TypeStep, PTL DEF Spec
-----------------------------------------------------------------------------
(* The issues of a problem.                                                *)

\* Looking before creating keeps the account, and a search that misses pays
\* for the issue it lets through; closing takes away.
LEMMA LookedUp ==
    ASSUME TypeOK, SecondIssueMissed, NEW k \in Passes, NEW f \in Fingerprints, NEW how,
           Alert(k, f, how) \/ Close(k, f, how)
    PROVE  SecondIssueMissed'
<1> SUFFICES ASSUME NEW g \in Fingerprints PROVE issues'[g] <= 1 + missed'[g]
  BY DEF SecondIssueMissed
<1>1. /\ issues \in [Fingerprints -> Nat] /\ issues[g] \in Nat
      /\ missed \in [Fingerprints -> Nat] /\ missed[g] \in Nat
      /\ issues[g] <= 1 + missed[g]
  BY DEF TypeOK, SecondIssueMissed
<1>2. CASE UNCHANGED missed /\ issues' \in {issues, Opened(f), Closed(f)}
  <2>1. issues'[g] = issues[g] \/ issues'[g] = 1 \/ issues'[g] = issues[g] - 1
    BY <1>1, <1>2 DEF Opened, Closed
  <2> QED
    BY <1>1, <1>2, <2>1
<1>3. CASE Misses(f) /\ issues' \in {issues, [issues EXCEPT ![f] = @ + 1]}
  <2>1. /\ missed'[g] = IF g = f THEN missed[g] + 1 ELSE missed[g]
        /\ issues'[g] = issues[g] \/ (g = f /\ issues'[g] = issues[g] + 1)
    BY <1>1, <1>3 DEF Misses
  <2> QED
    BY <1>1, <2>1
<1> QED
  BY <1>2, <1>3 DEF Alert, Close

\* No step breaks the account.
LEMMA IssueStep == TypeOK /\ SecondIssueMissed /\ [Next]_vars => SecondIssueMissed'
<1> SUFFICES ASSUME TypeOK, SecondIssueMissed, [Next]_vars PROVE SecondIssueMissed'
  OBVIOUS
<1>1. ASSUME UNCHANGED <<issues, missed>> PROVE SecondIssueMissed'
  BY <1>1 DEF SecondIssueMissed
<1>2. ASSUME NEW k \in Passes, NEW f \in Fingerprints, Resolve(k, f) PROVE SecondIssueMissed'
  <2>1. UNCHANGED <<issues, missed>> \/ \E how \in Calls : Close(k, f, how)
    BY <1>2 DEF Resolve
  <2> QED
    BY <1>1, <2>1, LookedUp
<1>3. ASSUME NEW k \in Passes, AlertBroken(k) \/ AlertOwner(k) \/ AlertConflict(k)
      PROVE  SecondIssueMissed'
  <2>1. (\E f \in Fingerprints, how \in Alerts : Alert(k, f, how)) \/ UNCHANGED <<issues, missed>>
    <3>1. CASE AlertBroken(k)
      BY ZenonT(60), <3>1, SlotFacts DEF AlertBroken
    <3>2. CASE AlertOwner(k)
      <4>1. run[k].cur \in PRs
        BY <3>2 DEF AlertOwner, At, TypeOK
      <4>2. Loop(run[k].cur) \in Fingerprints
        BY <4>1, SlotFacts
      <4> QED
        BY ZenonT(60), <3>2, <4>2 DEF AlertOwner
    <3>3. CASE AlertConflict(k)
      <4>1. run[k].cur \in Conflicted
        BY <3>3 DEF AlertConflict, At, TypeOK
      <4>2. Conflict(run[k].cur) \in Fingerprints
        BY <4>1, SlotFacts
      <4> QED
        BY ZenonT(60), <3>3, <4>2 DEF AlertConflict
    <3> QED
      BY <1>3, <3>1, <3>2, <3>3
  <2> QED
    BY <1>1, <2>1, LookedUp
<1>4. ASSUME NEW k \in Passes,
             \/ Begin(k) \/ Checks(k) \/ Reconstruct(k) \/ DrainNext(k) \/ DrainEnds(k) \/ Comment(k)
             \/ Mark(k) \/ ReadPage(k) \/ Prove(k) \/ Commit(k) \/ RollBack(k) \/ SweepEnds(k)
             \/ (\E p \in PRs : PassOver(k, p) \/ Ask(k, p)) \/ Exit(k) \/ BudgetSpent(k) \/ Death(k)
      PROVE  UNCHANGED <<issues, missed>>
  BY <1>4 DEF Begin, Checks, Reconstruct, DrainNext, DrainEnds, Comment, Mark, ReadPage, Prove, Commit,
     RollBack, SweepEnds, PassOver, Ask, Exit, BudgetSpent, Death, posted
<1>5. CASE ServiceFlips \/ (\E p \in PRs : Moves(p)) \/ UNCHANGED vars
  BY <1>1, <1>5 DEF ServiceFlips, Moves, posted, vars
<1> QED
  BY <1>1, <1>2, <1>3, <1>4, <1>5 DEF Next, PassStep, World

\* The owner has no more open issues for one problem than the searches that
\* missed one account for, whatever answers were lost and whichever pass died
\* between creating the issue and saving it (alert.py, Alerter.alert).
THEOREM RepeatedIssues == Spec => []SecondIssueMissed
<1>1. Init => SecondIssueMissed
  BY DEF Init, SecondIssueMissed
<1> QED
  BY TypeInit, TypeStep, <1>1, IssueStep, PTL DEF Spec

-----------------------------------------------------------------------------
(* The file, the table and what was told.                                  *)

\* Slots that know of committed rulings only, and in which an entry that owes
\* nothing has been told.
Honest(m, rul, com, tel) ==
    /\ \A p \in m.judged \cup m.outbox : rul[p] # "none"
    /\ \A p \in m.outbox :
          /\ <<p, "comment">> \notin m.owes => com[p] >= 1
          /\ <<p, "alert">> \notin m.owes /\ rul[p] = "stop" => p \in tel

\* What one pass knows of the entry it works on and of the PR it rules.
Steady(r, rul) ==
    /\ r.pc \in {"comment", "owner", "mark"} => r.cur \in r.mem.outbox
    /\ r.pc = "mark" => Delivered(r.cur, r.mem.owes)
    /\ r.retry => r.pc \in {"drain", "comment", "owner", "mark"}
    /\ r.pc = "mark" => r.retry
    /\ r.pc = "drain" \/ r.retry => r.todo \subseteq r.mem.outbox
    /\ r.retry /\ r.pc \in {"comment", "owner", "mark"} => r.cur \notin r.todo
    /\ r.pc \in {"prove", "commit"} => r.ask \in {"go", "stop"}
    /\ r.pc = "commit" => rul[r.cur] = "none"

ToldInv ==
    /\ \A p \in notified : ruling[p] # "none"
    /\ NotifiedWasTold
    /\ Honest(disk, ruling, comments, told)
    /\ \A k \in Passes : Honest(run[k].mem, ruling, comments, told) /\ Steady(run[k], ruling)

\* ToldInv holds at the start.
LEMMA ToldInit == Init => ToldInv
  BY DEF Init, ToldInv, NotifiedWasTold, Honest, Steady, Off, Empty

\* What a step may do to the table, the PRs and the owner at all.
Growing ==
    /\ \A p \in PRs : ruling[p] # "none" => ruling'[p] = ruling[p]
    /\ \A p \in PRs : comments[p] >= 1 => comments'[p] >= 1
    /\ told \subseteq told'

\* Rulings, comments and tellings only grow, so slots that say no more than
\* before stay honest.
LEMMA HonestKept ==
    ASSUME Growing, NEW m \in Slots, Honest(m, ruling, comments, told), NEW n \in Slots,
           n.judged \subseteq m.judged, n.outbox \subseteq m.outbox, m.owes \subseteq n.owes
    PROVE  Honest(n, ruling', comments', told')
<1>1. m.judged \subseteq PRs /\ m.outbox \subseteq PRs
  BY DEF Slots
<1>2. \A p \in n.judged \cup n.outbox : ruling'[p] # "none"
  BY <1>1 DEF Honest, Growing
<1>3. ASSUME NEW p \in n.outbox PROVE <<p, "comment">> \notin n.owes => comments'[p] >= 1
  BY <1>1 DEF Honest, Growing
<1>4. ASSUME NEW p \in n.outbox
      PROVE  <<p, "alert">> \notin n.owes /\ ruling'[p] = "stop" => p \in told'
  BY <1>1 DEF Honest, Growing
<1> QED
  BY <1>2, <1>3, <1>4 DEF Honest

\* A step of process k that writes an honest pass and an honest file, and marks
\* only what was told, keeps ToldInv.
LEMMA ToldWrite ==
    ASSUME TypeOK, ToldInv, Growing, NEW k \in Passes,
           \A j \in Passes \ {k} : run[j].pc = "off",
           NEW q, run' = [run EXCEPT ![k] = q],
           Honest(q.mem, ruling', comments', told'), Steady(q, ruling'),
           Honest(disk', ruling', comments', told'),
           \A p \in notified' \ notified :
               p \in PRs /\ ruling[p] # "none" /\ comments[p] >= 1 /\ (ruling[p] = "stop" => p \in told)
    PROVE  ToldInv'
<1>1. ASSUME NEW p \in notified'
      PROVE  p \in PRs /\ ruling[p] # "none" /\ comments[p] >= 1 /\ (ruling[p] = "stop" => p \in told)
  BY DEF ToldInv, NotifiedWasTold, TypeOK
<1>2. (\A p \in notified' : ruling'[p] # "none") /\ NotifiedWasTold'
  BY <1>1 DEF Growing, NotifiedWasTold
<1>3. ASSUME NEW j \in Passes
      PROVE  Honest(run'[j].mem, ruling', comments', told') /\ Steady(run'[j], ruling')
  <2>1. CASE j = k
    BY <2>1 DEF TypeOK
  <2>2. CASE j # k
    <3>1. run[j].mem \in Slots /\ Honest(run[j].mem, ruling, comments, told) /\ Steady(run[j], ruling)
          /\ run'[j] = run[j] /\ run[j].pc = "off"
      BY <2>2 DEF TypeOK, ToldInv
    <3>2. Honest(run'[j].mem, ruling', comments', told')
      BY <3>1, HonestKept
    <3>3. Steady(run'[j], ruling')
      BY <3>1 DEF Steady
    <3> QED
      BY <3>2, <3>3
  <2> QED
    BY <2>1, <2>2
<1> QED
  BY <1>2, <1>3 DEF ToldInv

\* A step of a running pass keeps ToldInv.
LEMMA ToldPass ==
    ASSUME TypeOK, TypeOK', ToldInv, NEW k \in Passes, ~At(k, "off"), PassStep(k)
    PROVE  ToldInv'
<1> DEFINE r == run[k]
<1>1. /\ r \in PassRecs /\ r.mem \in Slots
      /\ Honest(r.mem, ruling, comments, told) /\ Steady(r, ruling)
      /\ disk \in Slots /\ Honest(disk, ruling, comments, told)
      /\ \A j \in Passes \ {k} : run[j].pc = "off"
  BY KronosAssumptions DEF TypeOK, PassRecs, At, NoPass, ToldInv
<1>2. run'[k] \in PassRecs /\ run'[k].mem \in Slots
  BY DEF TypeOK, PassRecs
\* Steps that post nothing, rule nothing and mark nothing.
<1>3. ASSUME NEW q \in PassRecs, run' = [run EXCEPT ![k] = q], UNCHANGED <<rulings, comments, told>>,
             q.mem \in Slots, q.mem.judged \subseteq r.mem.judged, q.mem.outbox \subseteq r.mem.outbox,
             r.mem.owes \subseteq q.mem.owes,
             Steady(q, ruling), disk' \in {disk, r.mem, q.mem}
      PROVE  ToldInv'
  <2>1. Growing
    BY <1>3 DEF Growing, rulings
  <2>2. Honest(q.mem, ruling', comments', told') /\ Honest(r.mem, ruling', comments', told')
        /\ Honest(disk, ruling', comments', told')
    BY <1>1, <1>3, <2>1, HonestKept
  <2>3. Honest(disk', ruling', comments', told')
    BY <1>3, <2>2
  <2>4. Steady(q, ruling') /\ notified' = notified
    BY <1>3 DEF rulings
  <2> QED
    BY <1>1, <1>3, <2>1, <2>2, <2>3, <2>4, ToldWrite
<1>4. ASSUME NEW pc \in Pcs, pc \notin {"drain", "comment", "owner", "mark", "prove", "commit"},
             ~r.retry, Goto(k, pc), UNCHANGED <<rulings, comments, told>>, disk' \in {disk, r.mem}
      PROVE  ToldInv'
  <2> DEFINE q == [r EXCEPT !.pc = pc]
  <2>1. q \in PassRecs /\ q.mem = r.mem /\ q.retry = r.retry /\ q.pc = pc
    BY <1>1 DEF PassRecs
  <2>2. Steady(q, ruling)
    BY <1>4, <2>1 DEF Steady
  <2> QED
    BY <1>1, <1>3, <1>4, <2>1, <2>2 DEF Goto
<1>5. CASE Checks(k)
  <2> DEFINE q == [r EXCEPT !.pc = "alert", !.sick = ~up]
  <2>1. run' = [run EXCEPT ![k] = q] /\ UNCHANGED <<rulings, comments, told, disk>>
    BY <1>5 DEF Checks, posted
  <2>2. q \in PassRecs
    BY <1>1 DEF PassRecs, Pcs, TypeOK
  <2>3. q.mem = r.mem /\ q.pc = "alert" /\ ~q.retry
    BY <1>1, <1>5 DEF PassRecs, Checks, At, Steady
  <2>4. Steady(q, ruling)
    BY <2>3 DEF Steady
  <2> QED
    BY <1>1, <1>3, <2>1, <2>2, <2>3, <2>4
<1>6. CASE AlertBroken(k)
  <2>0. ~r.retry
    BY <1>1, <1>6 DEF AlertBroken, At, Steady
  <2>1. CASE r.sick
    <3>1. PICK how \in Alerts :
             run' = [run EXCEPT ![k].pc = "reconstruct",
                                ![k].mem.open = Tracked(@, Service, how)]
      BY <1>6, <2>1 DEF AlertBroken
    <3> DEFINE q == [r EXCEPT !.pc = "reconstruct",
                              !.mem.open = Tracked(r.mem.open, Service, how)]
    <3>2. run' = [run EXCEPT ![k] = q] /\ run'[k] = q
      BY <3>1 DEF TypeOK
    <3>3. q \in PassRecs /\ q.mem \in Slots
      BY <1>2, <3>2
    <3>4. /\ q.pc = "reconstruct" /\ ~q.retry
          /\ q.mem.judged = r.mem.judged /\ q.mem.outbox = r.mem.outbox /\ q.mem.owes = r.mem.owes
      BY <1>1, <2>0 DEF PassRecs, Slots
    <3>5. Steady(q, ruling)
      BY <3>4 DEF Steady
    <3> QED
      BY <1>1, <1>3, <1>6, <3>2, <3>3, <3>4, <3>5 DEF AlertBroken
  <2>2. CASE ~r.sick
    BY <1>4, <1>6, <2>0, <2>2 DEF AlertBroken, Pcs
  <2> QED
    BY <2>1, <2>2
<1>7. CASE Reconstruct(k)
  <2>0. ~r.retry
    BY <1>1, <1>7 DEF Reconstruct, At, Steady
  <2>1. CASE r.spent
    BY SMTT(40), <1>4, <1>7, <2>0, <2>1 DEF Reconstruct, Pcs, posted
  <2>2. CASE ~r.spent
    <3>1. PICK new \in {Rebuilt(k), {}} :
             run' = [run EXCEPT
                        ![k].pc = "drain",
                        ![k].mem.outbox = @ \cup new,
                        ![k].mem.owes = @ \cup UNION {NeedsOf(p, ruling[p]) : p \in new},
                        ![k].todo = run[k].mem.outbox \cup new]
      BY <1>7, <2>2 DEF Reconstruct
    <3> DEFINE needs == UNION {NeedsOf(p, ruling[p]) : p \in new}
               m == [r.mem EXCEPT !.outbox = r.mem.outbox \cup new, !.owes = r.mem.owes \cup needs]
               q == [r EXCEPT !.pc = "drain", !.mem = m, !.todo = r.mem.outbox \cup new]
    <3>0. r \in PassRecs /\ r.mem \in Slots
      BY <1>1
    <3>2. run' = [run EXCEPT ![k] = q]
      BY ZenonT(60), <3>0, <3>1 DEF PassRecs, Slots
    <3>3. run'[k] = q
      BY <3>2 DEF TypeOK
    <3>12. q.mem = m
      BY <1>1 DEF PassRecs
    <3>13. q \in PassRecs /\ m \in Slots
      BY <1>2, <3>3, <3>12
    <3>4. /\ q.pc = "drain" /\ ~q.retry /\ q.mem = m /\ q.todo = m.outbox
          /\ m.judged = r.mem.judged /\ m.outbox = r.mem.outbox \cup new
          /\ m.owes = r.mem.owes \cup needs
      BY <1>1, <2>0 DEF PassRecs, Slots
    <3>5. Steady(q, ruling)
      BY <3>4 DEF Steady
    <3>6. UNCHANGED <<rulings, comments, told>> /\ disk' = r.mem
      BY <1>7, <2>2 DEF Reconstruct, posted
    <3>7. \A p \in new : ruling[p] # "none" /\ NeedsOf(p, ruling[p]) \subseteq needs
      BY DEF Rebuilt, Unnotified
    <3>8. Honest(m, ruling, comments, told)
      <4>1. \A p \in m.judged \cup m.outbox : ruling[p] # "none"
        BY <1>1, <3>4, <3>7 DEF Honest
      <4>2. ASSUME NEW p \in m.outbox
            PROVE  /\ <<p, "comment">> \notin m.owes => comments[p] >= 1
                   /\ <<p, "alert">> \notin m.owes /\ ruling[p] = "stop" => p \in told
        <5>1. CASE p \in new
          <6>1. <<p, "comment">> \in needs /\ (ruling[p] = "stop" => <<p, "alert">> \in needs)
            BY <3>7, <5>1 DEF NeedsOf
          <6> QED
            BY <3>4, <6>1
        <5>2. CASE p \notin new
          BY <1>1, <3>4, <5>2 DEF Honest
        <5> QED
          BY <5>1, <5>2
      <4> QED
        BY <4>1, <4>2 DEF Honest
    <3>9. ruling' = ruling /\ comments' = comments /\ told' = told /\ notified' = notified
      BY <3>6 DEF rulings
    <3>10. Growing
      BY <3>9 DEF Growing
    <3>11. Honest(q.mem, ruling', comments', told') /\ Honest(disk', ruling', comments', told')
           /\ Steady(q, ruling')
      BY <1>1, <3>4, <3>5, <3>6, <3>8, <3>9
    <3> QED
      BY ZenonT(60), <1>1, <3>2, <3>9, <3>10, <3>11, ToldWrite
  <2> QED
    BY <2>1, <2>2
<1>8. CASE DrainNext(k)
  <2>1. PICK p \in r.todo :
           run' = [run EXCEPT ![k].pc = "comment", ![k].cur = p, ![k].retry = TRUE, ![k].todo = @ \ {p}]
    BY <1>8 DEF DrainNext
  <2> DEFINE q == [r EXCEPT !.pc = "comment", !.cur = p, !.retry = TRUE, !.todo = r.todo \ {p}]
  <2>2. run' = [run EXCEPT ![k] = q] /\ run'[k] = q
    BY <1>1, <2>1 DEF PassRecs, TypeOK
  <2>3. q \in PassRecs /\ q.mem \in Slots
    BY <1>2, <2>2
  <2>4. q.pc = "comment" /\ q.cur = p /\ q.retry = TRUE /\ q.todo = r.todo \ {p} /\ q.mem = r.mem
    BY <1>1 DEF PassRecs
  <2>5. r.todo \subseteq r.mem.outbox
    BY <1>1, <1>8 DEF Steady, DrainNext, At
  <2>6. Steady(q, ruling)
    BY <2>4, <2>5 DEF Steady
  <2> QED
    BY <1>1, <1>3, <1>8, <2>2, <2>3, <2>4, <2>6 DEF DrainNext, posted
<1>9. CASE DrainEnds(k)
  <2> DEFINE q == [r EXCEPT !.pc = "page", !.cur = 0, !.retry = FALSE, !.todo = {}]
  <2>1. run' = [run EXCEPT ![k] = q]
    BY <1>9 DEF DrainEnds
  <2>5. run'[k] = q
    BY <2>1 DEF TypeOK
  <2>2. q \in PassRecs /\ q.mem \in Slots
    BY <1>2, <2>5
  <2>3. q.pc = "page" /\ q.retry = FALSE /\ q.mem = r.mem
    BY <1>1 DEF PassRecs
  <2>4. Steady(q, ruling)
    BY <2>3 DEF Steady
  <2> QED
    BY <1>1, <1>3, <1>9, <2>1, <2>2, <2>3, <2>4 DEF DrainEnds, posted
\* Within a delivery the slots may lose a need that was met and gain an alert.
<1>10. ASSUME NEW owes, NEW open, NEW pc \in {"owner", "sweep", "mark", "drain"},
              r.pc \in {"comment", "owner"},
              run' = [run EXCEPT ![k] = [r EXCEPT !.pc = pc, !.mem = [r.mem EXCEPT !.owes = owes, !.open = open]]],
              pc = "drain" => r.retry,
              pc = "sweep" => ~r.retry,
              pc = "mark" => r.retry /\ Delivered(r.cur, owes),
              \A p \in PRs : <<p, "comment">> \in r.mem.owes => <<p, "comment">> \in owes \/ comments'[p] >= 1,
              \A p \in PRs : <<p, "alert">> \in r.mem.owes => <<p, "alert">> \in owes \/ p \in told',
              Growing, UNCHANGED <<rulings, disk>>
       PROVE  ToldInv'
  <2> DEFINE m == [r.mem EXCEPT !.owes = owes, !.open = open]
             q == [r EXCEPT !.pc = pc, !.mem = m]
  <2>0. r \in PassRecs /\ r.mem \in Slots
    BY <1>1
  <2>1. /\ m.judged = r.mem.judged /\ m.outbox = r.mem.outbox /\ m.owes = owes
    BY <2>0 DEF Slots
  <2>2. /\ q.pc = pc /\ q.mem = m /\ q.retry = r.retry /\ q.cur = r.cur /\ q.todo = r.todo
    BY <2>0 DEF PassRecs
  <2>3. r.mem.judged \subseteq PRs /\ r.mem.outbox \subseteq PRs
    BY <2>0 DEF Slots
  <2>4. Honest(m, ruling', comments', told')
    <3>1. \A p \in m.judged \cup m.outbox : ruling'[p] # "none"
      BY <1>1, <1>10, <2>1 DEF Honest, rulings
    <3>2. ASSUME NEW p \in m.outbox PROVE <<p, "comment">> \notin owes => comments'[p] >= 1
      BY <1>1, <1>10, <2>1, <2>3 DEF Honest, Growing
    <3>3. ASSUME NEW p \in m.outbox
          PROVE  <<p, "alert">> \notin owes /\ ruling'[p] = "stop" => p \in told'
      BY <1>1, <1>10, <2>1, <2>3 DEF Honest, Growing, rulings
    <3> QED
      BY <2>1, <3>1, <3>2, <3>3 DEF Honest
  <2>5. Steady(q, ruling')
    <3>1. /\ q.mem.outbox = r.mem.outbox /\ q.mem.owes = owes
          /\ q.pc \in {"owner", "sweep", "mark", "drain"}
      BY <2>1, <2>2
    <3>2. r.cur \in r.mem.outbox
      BY <1>1, <1>10 DEF Steady
    <3>3. r.retry => r.todo \subseteq r.mem.outbox /\ r.cur \notin r.todo
      BY <1>1, <1>10 DEF Steady
    <3>4. q.pc = "mark" => Delivered(q.cur, q.mem.owes)
      BY <1>10, <2>2, <3>1
    <3> HIDE DEF q
    <3> QED
      BY <1>10, <2>2, <3>1, <3>2, <3>3, <3>4 DEF Steady
  <2>6. Honest(disk', ruling', comments', told')
    BY <1>1, <1>10, HonestKept
  <2> HIDE DEF q
  <2> QED
    BY <1>1, <1>10, <2>2, <2>4, <2>5, <2>6, ToldWrite DEF q, rulings
<1>11. CASE Comment(k)
  <2>0. /\ r.pc = "comment" /\ UNCHANGED <<rulings, disk, told>>
        /\ comments \in [PRs -> Nat] /\ r.cur \in PRs
    BY <1>1, <1>11 DEF Comment, At, TypeOK
  <2>1. CASE <<r.cur, "comment">> \in r.mem.owes
    <3>1. PICK how \in Calls :
             /\ comments' = IF how = "refused" THEN comments ELSE [comments EXCEPT ![r.cur] = @ + 1]
             /\ run' = [run EXCEPT ![k].pc = "owner",
                           ![k].mem.owes = IF how = "returned" THEN @ \ {<<r.cur, "comment">>} ELSE @]
      BY <1>11, <2>1 DEF Comment
    <3> DEFINE owes == IF how = "returned" THEN r.mem.owes \ {<<r.cur, "comment">>} ELSE r.mem.owes
    <3>2. run' = [run EXCEPT ![k] = [r EXCEPT !.pc = "owner",
                                        !.mem = [r.mem EXCEPT !.owes = owes, !.open = r.mem.open]]]
      <4>1. r \in PassRecs /\ r.mem \in Slots
        BY <1>1
      <4>2. [r.mem EXCEPT !.owes = owes, !.open = r.mem.open] = [r.mem EXCEPT !.owes = owes]
        BY <4>1 DEF Slots
      <4> QED
        BY <3>1, <4>1, <4>2 DEF PassRecs
    <3>3. \A p \in PRs : comments[p] >= 1 => comments'[p] >= 1
      BY <2>0, <3>1
    <3>4. Growing
      BY <2>0, <3>3 DEF Growing, rulings
    <3>5. \A p \in PRs : <<p, "comment">> \in r.mem.owes => <<p, "comment">> \in owes \/ comments'[p] >= 1
      BY <2>0, <3>1
    <3>6. \A p \in PRs : <<p, "alert">> \in r.mem.owes => <<p, "alert">> \in owes
      OBVIOUS
    <3> HIDE DEF owes
    <3> QED
      BY <1>10, <2>0, <3>2, <3>4, <3>5, <3>6
  <2>2. CASE <<r.cur, "comment">> \notin r.mem.owes
    <3> DEFINE q == [r EXCEPT !.pc = "owner"]
    <3>0. r \in PassRecs
      BY <1>1
    <3>1. run' = [run EXCEPT ![k] = q] /\ UNCHANGED comments
      BY <1>11, <2>2 DEF Comment, Goto
    <3>2. /\ q.pc = "owner" /\ q.mem = r.mem /\ q.retry = r.retry /\ q.cur = r.cur /\ q.todo = r.todo
          /\ q \in PassRecs
      BY <3>0 DEF PassRecs, Pcs
    <3>3. Steady(q, ruling)
      BY <1>1, <2>0, <3>2 DEF Steady
    <3> QED
      BY <1>1, <1>3, <2>0, <3>1, <3>2, <3>3
  <2> QED
    BY <2>1, <2>2
<1>12. CASE AlertOwner(k)
  <2>0. /\ r.pc = "owner" /\ UNCHANGED <<rulings, disk, comments>>
        /\ r.cur \in PRs
    BY <1>1, <1>12 DEF AlertOwner, At, TypeOK
  <2>1. CASE <<r.cur, "alert">> \in r.mem.owes
    <3>1. PICK how \in Alerts :
             LET owes == IF how \in {"returned", "suppressed"} THEN r.mem.owes \ {<<r.cur, "alert">>}
                         ELSE r.mem.owes IN
             /\ told' = IF how = "refused" THEN told ELSE told \cup {r.cur}
             /\ run' = [run EXCEPT ![k].pc = AfterDelivery(k, owes),
                           ![k].mem.owes = owes,
                           ![k].mem.open = Tracked(@, Loop(r.cur), how)]
      BY <1>12, <2>1 DEF AlertOwner
    <3> DEFINE owes == IF how \in {"returned", "suppressed"} THEN r.mem.owes \ {<<r.cur, "alert">>}
                       ELSE r.mem.owes
               open == Tracked(r.mem.open, Loop(r.cur), how)
               pc == AfterDelivery(k, owes)
    <3>2. run' = [run EXCEPT ![k] = [r EXCEPT !.pc = pc,
                                        !.mem = [r.mem EXCEPT !.owes = owes, !.open = open]]]
      <4>1. r \in PassRecs /\ r.mem \in Slots
        BY <1>1
      <4> QED
        BY ZenonT(60), <3>1, <4>1 DEF PassRecs, Slots
    <3>3. told' = IF how = "refused" THEN told ELSE told \cup {r.cur}
      BY <3>1
    <3>4. Growing
      BY <2>0, <3>3 DEF Growing, rulings
    <3>5. \A p \in PRs : <<p, "alert">> \in r.mem.owes => <<p, "alert">> \in owes \/ p \in told'
      BY <2>0, <3>3
    <3>6. \A p \in PRs : <<p, "comment">> \in r.mem.owes => <<p, "comment">> \in owes
      OBVIOUS
    <3>7. /\ pc \in {"sweep", "mark", "drain"}
          /\ pc = "drain" => r.retry
          /\ pc = "sweep" => ~r.retry
          /\ pc = "mark" => r.retry /\ Delivered(r.cur, owes)
      BY DEF AfterDelivery
    <3> HIDE DEF owes, open, pc
    <3> QED
      BY <1>10, <2>0, <3>2, <3>4, <3>5, <3>6, <3>7
  <2>2. CASE <<r.cur, "alert">> \notin r.mem.owes
    <3> DEFINE pc == AfterDelivery(k, r.mem.owes)
               q == [r EXCEPT !.pc = pc]
    <3>0. r \in PassRecs
      BY <1>1
    <3>1. run' = [run EXCEPT ![k] = q] /\ UNCHANGED told
      BY <1>12, <2>2 DEF AlertOwner, Goto
    <3>2. /\ pc \in {"sweep", "mark", "drain"}
          /\ pc = "drain" => r.retry
          /\ pc = "sweep" => ~r.retry
          /\ pc = "mark" => r.retry /\ Delivered(r.cur, r.mem.owes)
      BY DEF AfterDelivery
    <3>3. /\ q.pc = pc /\ q.mem = r.mem /\ q.retry = r.retry /\ q.cur = r.cur /\ q.todo = r.todo
          /\ q \in PassRecs
      BY <3>0, <3>2 DEF PassRecs, Pcs
    <3>4. Steady(q, ruling)
      BY <1>1, <2>0, <3>2, <3>3 DEF Steady
    <3> QED
      BY <1>1, <1>3, <2>0, <3>1, <3>3, <3>4
  <2> QED
    BY <2>1, <2>2
<1>13. CASE Mark(k)
  <2> DEFINE m == [r.mem EXCEPT !.outbox = r.mem.outbox \ {r.cur}]
             q == [r EXCEPT !.pc = "drain", !.mem = m]
  <2>0. r \in PassRecs /\ r.mem \in Slots
    BY <1>1
  <2>1. run' = [run EXCEPT ![k] = q]
    BY <1>13, <2>0 DEF Mark, PassRecs
  <2>2. /\ r.pc = "mark" /\ r.cur \in r.mem.outbox /\ Delivered(r.cur, r.mem.owes) /\ r.retry
        /\ r.todo \subseteq r.mem.outbox /\ r.cur \notin r.todo /\ r.cur \in PRs
    BY <1>1, <1>13 DEF Mark, At, Steady, TypeOK
  <2>3. /\ q.pc = "drain" /\ q.mem = m /\ q.retry /\ q.todo = r.todo
        /\ m.judged = r.mem.judged /\ m.outbox = r.mem.outbox \ {r.cur} /\ m.owes = r.mem.owes
        /\ m \in Slots
    BY <2>0, <2>2 DEF PassRecs, Slots
  <2>4. ruling' = ruling /\ comments' = comments /\ told' = told /\ disk' = disk
    BY <1>13 DEF Mark, posted
  <2>5. Growing
    BY <2>4 DEF Growing
  <2>6. Honest(m, ruling', comments', told') /\ Honest(disk', ruling', comments', told')
    BY <1>1, <2>3, <2>4, <2>5, HonestKept
  <2>7. Steady(q, ruling')
    BY <2>2, <2>3 DEF Steady
  <2>8. \A p \in notified' \ notified : p = r.cur
    BY <1>13 DEF Mark
  <2>9. ruling[r.cur] # "none" /\ comments[r.cur] >= 1 /\ (ruling[r.cur] = "stop" => r.cur \in told)
    BY <1>1, <2>2 DEF Honest, Delivered
  <2> HIDE DEF q
  <2> QED
    BY <1>1, <2>1, <2>2, <2>3, <2>5, <2>6, <2>7, <2>8, <2>9, ToldWrite DEF q
\* In the sweep no entry is retried, so only the ruling at hand matters.
<1>14. ASSUME NEW q \in PassRecs, run' = [run EXCEPT ![k] = q], UNCHANGED <<rulings, comments, told>>,
              q.mem = r.mem \/ q.mem = [r.mem EXCEPT !.open = q.mem.open]
                            \/ q.mem = [r.mem EXCEPT !.cursor = q.mem.cursor],
              q.pc \in {"sweep", "prove", "commit", "conflict", "resolve", "off"}, ~q.retry,
              q.pc \in {"prove", "commit"} => q.ask \in {"go", "stop"},
              q.pc = "commit" => ruling[q.cur] = "none",
              disk' \in {disk, r.mem, q.mem}
       PROVE  ToldInv'
  <2>0. r.mem \in Slots /\ q.mem \in Slots
    BY <1>1, <1>14 DEF PassRecs
  <2>1. q.mem.judged = r.mem.judged /\ q.mem.outbox = r.mem.outbox /\ q.mem.owes = r.mem.owes
    BY <1>14, <2>0 DEF Slots
  <2>2. Steady(q, ruling)
    BY <1>14 DEF Steady
  <2> QED
    BY <1>3, <1>14, <2>0, <2>1, <2>2
<1>15. CASE ReadPage(k)
  <2>0. r \in PassRecs /\ ~r.retry /\ run' \in [Passes -> PassRecs] /\ run \in [Passes -> PassRecs]
    BY <1>1, <1>15 DEF ReadPage, At, Steady, TypeOK, PassRecs
  <2>1. UNCHANGED <<rulings, comments, told>> /\ disk' \in {disk, r.mem}
    BY <1>15 DEF ReadPage, posted
  <2> DEFINE page == FirstOf(After(r.mem.cursor))
             a == [r EXCEPT !.pc = "sweep", !.todo = page, !.last = 0, !.full = Cardinality(page) = PageSize]
             b == [r EXCEPT !.pc = "resolve", !.fix = r.mem.open]
  <2>5. run' = [run EXCEPT ![k] = a] \/ run' = [run EXCEPT ![k] = b]
    <3>1. \/ run' = [run EXCEPT ![k].pc = "sweep", ![k].todo = page, ![k].last = 0,
                                ![k].full = Cardinality(page) = PageSize]
          \/ run' = [run EXCEPT ![k].pc = "resolve", ![k].fix = run[k].mem.open]
      BY <1>15 DEF ReadPage
    <3> HIDE DEF page
    <3> QED
      BY <2>0, <3>1 DEF PassRecs
  <2>2. PICK q \in {a, b} : run' = [run EXCEPT ![k] = q]
    BY <2>5
  <2>3. q \in PassRecs
    BY <2>0, <2>2
  <2>4. q.pc \in {"sweep", "resolve"} /\ ~q.retry /\ q.mem = r.mem
    BY <2>0, <2>2 DEF PassRecs
  <2> QED
    BY <1>14, <2>1, <2>2, <2>3, <2>4
<1>16. CASE \E p \in PRs : PassOver(k, p) \/ Ask(k, p)
  <2>0. /\ r \in PassRecs /\ ~r.retry /\ run' \in [Passes -> PassRecs] /\ run \in [Passes -> PassRecs]
        /\ UNCHANGED <<rulings, comments, told, disk>>
    BY <1>1, <1>16 DEF PassOver, Ask, NextRow, At, Steady, TypeOK, PassRecs, posted
  <2>1. PICK p \in PRs : PassOver(k, p) \/ Ask(k, p)
    BY <1>16
  <2>2. CASE PassOver(k, p)
    <3> DEFINE q == [r EXCEPT !.todo = r.todo \ {p}, !.last = p]
    <3>1. run' = [run EXCEPT ![k] = q]
      BY <2>2 DEF PassOver
    <3>2. q \in PassRecs
      BY <2>0, <3>1
    <3>3. q.pc = "sweep" /\ ~q.retry /\ q.mem = r.mem
      BY <2>0, <2>2 DEF PassRecs, PassOver, NextRow, At
    <3> HIDE DEF q
    <3> QED
      BY <1>14, <2>0, <3>1, <3>2, <3>3
  <2>3. CASE Ask(k, p)
    <3>1. PICK answer \in {"go", "stop"} :
             run' = [run EXCEPT ![k].pc = "prove", ![k].cur = p, ![k].ask = answer, ![k].todo = @ \ {p}]
      BY <2>3 DEF Ask
    <3> DEFINE q == [r EXCEPT !.pc = "prove", !.cur = p, !.ask = answer, !.todo = r.todo \ {p}]
    <3>2. run' = [run EXCEPT ![k] = q]
      BY <2>0, <3>1 DEF PassRecs
    <3>3. q \in PassRecs
      BY <2>0, <3>2
    <3>4. q.pc = "prove" /\ ~q.retry /\ q.mem = r.mem /\ q.ask = answer
      BY <2>0 DEF PassRecs
    <3> HIDE DEF q
    <3> QED
      BY <1>14, <2>0, <3>2, <3>3, <3>4
  <2> QED
    BY <2>1, <2>2, <2>3
<1>17. CASE Prove(k)
  <2>0. /\ r \in PassRecs /\ ~r.retry /\ run' \in [Passes -> PassRecs] /\ run \in [Passes -> PassRecs]
        /\ r.ask \in {"go", "stop"}
        /\ UNCHANGED <<rulings, comments, told, disk>>
    BY <1>1, <1>17 DEF Prove, At, Steady, TypeOK, PassRecs, posted
  <2>1. PICK q : /\ run' = [run EXCEPT ![k] = q]
                 /\ \/ q = [r EXCEPT !.pc = "sweep", !.ask = "none", !.todo = {}]
                    \/ q = [r EXCEPT !.pc = "sweep", !.ask = "none", !.last = r.cur]
                    \/ q = [r EXCEPT !.pc = "commit"] /\ ruling[r.cur] = "none"
    BY ZenonT(60), <1>17 DEF Prove, Goto
  <2>2. q \in PassRecs
    BY <2>0, <2>1
  <2>3. /\ q.pc \in {"sweep", "commit"} /\ ~q.retry /\ q.mem = r.mem
        /\ q.pc = "commit" => q.ask \in {"go", "stop"} /\ ruling[q.cur] = "none"
    BY <2>0, <2>1 DEF PassRecs
  <2> QED
    BY <1>14, <2>0, <2>1, <2>2, <2>3
<1>18. CASE RollBack(k)
  <2>0. /\ r \in PassRecs /\ ~r.retry /\ run' \in [Passes -> PassRecs] /\ run \in [Passes -> PassRecs]
        /\ UNCHANGED <<rulings, comments, told, disk>>
    BY <1>1, <1>18 DEF RollBack, At, Steady, TypeOK, PassRecs, posted
  <2> DEFINE a == [r EXCEPT !.pc = "sweep", !.ask = "none", !.todo = {}]
             b == [r EXCEPT !.pc = "conflict"]
  <2>4. run' = [run EXCEPT ![k] = a] \/ run' = [run EXCEPT ![k] = b]
    BY <1>18 DEF RollBack, Goto
  <2>1. PICK q \in {a, b} : run' = [run EXCEPT ![k] = q]
    BY <2>4
  <2>2. q \in PassRecs
    BY <2>0, <2>1
  <2>3. q.pc \in {"sweep", "conflict"} /\ ~q.retry /\ q.mem = r.mem
    BY <2>0, <2>1 DEF PassRecs
  <2> QED
    BY <1>14, <2>0, <2>1, <2>2, <2>3
<1>19. CASE AlertConflict(k)
  <2>0. /\ r \in PassRecs /\ ~r.retry /\ run' \in [Passes -> PassRecs] /\ run \in [Passes -> PassRecs]
        /\ UNCHANGED <<rulings, comments, told, disk>>
    BY <1>1, <1>19 DEF AlertConflict, At, Steady, TypeOK, PassRecs
  <2>1. PICK how \in Alerts :
           run' = [run EXCEPT ![k].pc = "sweep", ![k].last = run[k].cur, ![k].ask = "none",
                              ![k].mem.open = Tracked(@, Conflict(r.cur), how)]
    BY <1>19 DEF AlertConflict
  <2> DEFINE open == Tracked(r.mem.open, Conflict(r.cur), how)
             q == [r EXCEPT !.pc = "sweep", !.last = r.cur, !.ask = "none", !.mem.open = open]
  <2>2. run' = [run EXCEPT ![k] = q]
    BY <2>0, <2>1 DEF PassRecs
  <2>3. q \in PassRecs
    BY <2>0, <2>2
  <2>4. q.pc = "sweep" /\ ~q.retry /\ q.mem = [r.mem EXCEPT !.open = q.mem.open]
    <3>1. r.mem \in Slots
      BY <1>1
    <3> HIDE DEF open
    <3> QED
      BY <2>0, <3>1 DEF PassRecs, Slots
  <2> HIDE DEF q
  <2> QED
    BY <1>14, <2>0, <2>2, <2>3, <2>4
<1>20. CASE SweepEnds(k)
  <2> DEFINE mem == [r.mem EXCEPT !.cursor = CursorAfter(k)]
  <2>0. /\ run' \in [Passes -> PassRecs] /\ run \in [Passes -> PassRecs] /\ r.mem \in Slots
        /\ UNCHANGED <<rulings, comments, told>> /\ disk' = mem
    BY <1>1, <1>20 DEF SweepEnds, TypeOK, PassRecs, posted
  <2>1. PICK fix : run' = [run EXCEPT ![k] = [Off EXCEPT
                    !.pc = "resolve", !.mem = mem, !.sick = r.sick, !.spent = r.spent, !.fix = fix]]
    BY <1>20 DEF SweepEnds
  <2> DEFINE q == [Off EXCEPT !.pc = "resolve", !.mem = mem, !.sick = r.sick, !.spent = r.spent, !.fix = fix]
  <2>2. q \in PassRecs
    BY <2>0, <2>1
  <2>3. q.pc = "resolve" /\ ~q.retry /\ q.mem = mem
    BY DEF Off
  <2>4. q.mem = [r.mem EXCEPT !.cursor = q.mem.cursor]
    BY <2>0, <2>3 DEF Slots
  <2> HIDE DEF q
  <2> QED
    BY <1>14, <2>0, <2>1, <2>2, <2>3, <2>4 DEF q
<1>21. CASE Commit(k)
  <2> DEFINE p == r.cur
             needs == NeedsOf(p, r.ask)
             m == [r.mem EXCEPT !.judged = r.mem.judged \cup {p}, !.outbox = r.mem.outbox \cup {p},
                                !.owes = r.mem.owes \cup needs]
  <2>0. /\ r \in PassRecs /\ r.mem \in Slots /\ ~r.retry /\ r.pc = "commit" /\ p \in PRs
        /\ run' \in [Passes -> PassRecs] /\ run \in [Passes -> PassRecs]
        /\ r.ask \in {"go", "stop"} /\ ruling[p] = "none" /\ ruling \in [PRs -> {"none", "go", "stop"}]
    BY <1>1, <1>21 DEF Commit, At, Steady, TypeOK, PassRecs
  <2>1. ruling' = [ruling EXCEPT ![p] = r.ask] /\ UNCHANGED <<notified, comments, told, disk>>
    BY <1>21 DEF Commit, posted
  <2>2. Growing
    BY <2>0, <2>1 DEF Growing
  <2>3. Honest(r.mem, ruling', comments', told') /\ Honest(disk', ruling', comments', told')
    BY <1>1, <2>1, <2>2, HonestKept
  <2>4. CASE run' = [run EXCEPT ![k].pc = "sweep", ![k].ask = "none", ![k].last = p]
    <3> DEFINE q == [r EXCEPT !.pc = "sweep", !.ask = "none", !.last = p]
    <3>1. run' = [run EXCEPT ![k] = q]
      BY <2>4
    <3>2. q.pc = "sweep" /\ ~q.retry /\ q.mem = r.mem
      BY <2>0 DEF PassRecs
    <3>3. Steady(q, ruling')
      BY <3>2 DEF Steady
    <3> HIDE DEF q
    <3> QED
      BY <1>1, <2>1, <2>2, <2>3, <3>1, <3>2, <3>3, ToldWrite
  <2>5. CASE run' = [run EXCEPT ![k].pc = "comment", ![k].ask = "none", ![k].last = p, ![k].mem = m]
    <3> DEFINE q == [r EXCEPT !.pc = "comment", !.ask = "none", !.last = p, !.mem = m]
    <3>1. run' = [run EXCEPT ![k] = q]
      <4> HIDE DEF m
      <4> QED
        BY <2>0, <2>5 DEF PassRecs
    <3>2. q.pc = "comment" /\ ~q.retry /\ q.mem = m /\ q.cur = p
      BY <2>0 DEF PassRecs
    <3>3. /\ m.judged = r.mem.judged \cup {p} /\ m.outbox = r.mem.outbox \cup {p}
          /\ m.owes = r.mem.owes \cup needs
      BY <2>0 DEF Slots
    <3>4. ruling'[p] = r.ask /\ ruling'[p] # "none"
      BY <2>0, <2>1
    <3>5. <<p, "comment">> \in m.owes /\ (ruling'[p] = "stop" => <<p, "alert">> \in m.owes)
      BY <3>3, <3>4 DEF NeedsOf
    <3>6. Honest(m, ruling', comments', told')
      <4>1. \A o \in m.judged \cup m.outbox : ruling'[o] # "none"
        BY <2>3, <3>3, <3>4 DEF Honest
      <4>2. ASSUME NEW o \in m.outbox
            PROVE  /\ <<o, "comment">> \notin m.owes => comments'[o] >= 1
                   /\ <<o, "alert">> \notin m.owes /\ ruling'[o] = "stop" => o \in told'
        <5>1. CASE o = p
          BY <3>5, <5>1
        <5>2. CASE o # p
          BY <2>3, <3>3, <5>2 DEF Honest
        <5> QED
          BY <5>1, <5>2
      <4> QED
        BY <4>1, <4>2 DEF Honest
    <3>7. Steady(q, ruling')
      BY <3>2, <3>3 DEF Steady
    <3> HIDE DEF q
    <3> QED
      BY <1>1, <2>1, <2>2, <2>3, <3>1, <3>2, <3>6, <3>7, ToldWrite
  <2> QED
    BY <1>21, <2>4, <2>5 DEF Commit
<1>22. CASE \E f \in Fingerprints : Resolve(k, f)
  <2>0. /\ r \in PassRecs /\ r.mem \in Slots /\ ~r.retry
        /\ run' \in [Passes -> PassRecs] /\ run \in [Passes -> PassRecs]
        /\ UNCHANGED <<rulings, comments, told, disk>>
    BY <1>1, <1>22 DEF Resolve, At, Steady, TypeOK, PassRecs
  <2>1. PICK f \in Fingerprints : Resolve(k, f)
    BY <1>22
  <2>2. \/ run' = [run EXCEPT ![k].fix = @ \ {f}]
        \/ \E how \in Calls : run' = [run EXCEPT ![k].fix = @ \ {f}, ![k].mem.open = StillOpen(@, f, how)]
    BY <2>1 DEF Resolve
  <2>3. CASE run' = [run EXCEPT ![k].fix = @ \ {f}]
    <3> DEFINE q == [r EXCEPT !.fix = r.fix \ {f}]
    <3>1. run' = [run EXCEPT ![k] = q]
      BY <2>3
    <3>2. q \in PassRecs
      BY <2>0, <3>1
    <3>3. q.pc = "resolve" /\ ~q.retry /\ q.mem = r.mem
      BY <2>0, <2>1 DEF PassRecs, Resolve, At
    <3> HIDE DEF q
    <3> QED
      BY <1>14, <2>0, <3>1, <3>2, <3>3
  <2>4. ASSUME NEW how \in Calls,
               run' = [run EXCEPT ![k].fix = @ \ {f}, ![k].mem.open = StillOpen(@, f, how)]
        PROVE  ToldInv'
    <3> DEFINE open == StillOpen(r.mem.open, f, how)
               q == [r EXCEPT !.fix = r.fix \ {f}, !.mem = [r.mem EXCEPT !.open = open]]
    <3>1. run' = [run EXCEPT ![k] = q]
      <4> HIDE DEF open
      <4>1. run' = [run EXCEPT ![k].fix = @ \ {f}, ![k].mem.open = open]
        BY <2>4 DEF open
      <4> QED
        BY <2>0, <4>1 DEF PassRecs
    <3>2. q \in PassRecs
      BY <2>0, <3>1
    <3>3. q.pc = "resolve" /\ ~q.retry /\ q.mem = [r.mem EXCEPT !.open = open]
      BY <2>0, <2>1 DEF PassRecs, Resolve, At
    <3>4. q.mem = [r.mem EXCEPT !.open = q.mem.open]
      <4> HIDE DEF open, q
      <4> QED
        BY <2>0, <3>3 DEF Slots
    <3> HIDE DEF q
    <3> QED
      BY <1>14, <2>0, <3>1, <3>2, <3>3, <3>4
  <2> QED
    BY <2>2, <2>3, <2>4
<1>23. CASE Exit(k)
  <2>1. /\ Off \in PassRecs /\ Off.pc = "off" /\ ~Off.retry /\ Off.mem = Empty
        /\ Empty.judged = {} /\ Empty.outbox = {}
    BY SlotFacts DEF Off, Empty
  <2>2. run' = [run EXCEPT ![k] = Off] /\ ruling' = ruling /\ notified' = notified /\ comments' = comments
        /\ told' = told /\ disk' = r.mem
    BY <1>23 DEF Exit, rulings, posted
  <2>3. Growing
    BY <2>2 DEF Growing
  <2>4. Honest(Off.mem, ruling', comments', told') /\ Steady(Off, ruling')
    BY <2>1 DEF Honest, Steady
  <2>5. Honest(disk', ruling', comments', told')
    BY <1>1, <2>2
  <2> QED
    BY <1>1, <2>2, <2>3, <2>4, <2>5, ToldWrite
<1> QED
  BY <1>5, <1>6, <1>7, <1>8, <1>9, <1>11, <1>12, <1>13, <1>15, <1>16, <1>17, <1>18, <1>19, <1>20,
     <1>21, <1>22, <1>23 DEF PassStep

\* Every step keeps ToldInv.
LEMMA ToldStep == TypeOK /\ TypeOK' /\ ToldInv /\ [Next]_vars => ToldInv'
<1> SUFFICES ASSUME TypeOK, TypeOK', ToldInv, [Next]_vars PROVE ToldInv'
  OBVIOUS
<1>1. Off.pc = "off" /\ ~Off.retry /\ Off.mem = Empty /\ Empty.judged = {} /\ Empty.outbox = {}
  BY DEF Off, Empty
<1>2. ASSUME NEW k \in Passes, Begin(k) PROVE ToldInv'
  <2> DEFINE q == [Off EXCEPT !.pc = "checks", !.mem = disk]
  <2>1. \A j \in Passes : run[j].pc = "off"
    BY <1>2, KronosAssumptions DEF Begin, TypeOK, NoPass
  <2>2. /\ run' = [run EXCEPT ![k] = q] /\ ruling' = ruling /\ notified' = notified
        /\ comments' = comments /\ told' = told /\ disk' = disk
    BY <1>2 DEF Begin, rulings, posted
  <2>3. Growing
    BY <2>2 DEF Growing
  <2>4. q.pc = "checks" /\ ~q.retry /\ q.mem = disk
    BY DEF Off
  <2>5. Steady(q, ruling') /\ Honest(q.mem, ruling', comments', told') /\ Honest(disk', ruling', comments', told')
    BY SMTT(40), <2>2, <2>4 DEF Steady, ToldInv
  <2> HIDE DEF q
  <2> QED
    BY <2>1, <2>2, <2>3, <2>5, ToldWrite
<1>3. ASSUME NEW k \in Passes, PassStep(k) PROVE ToldInv'
  <2>1. ~At(k, "off")
    BY <1>3 DEF At, PassStep, Checks, AlertBroken, Reconstruct, DrainNext, DrainEnds, Comment, AlertOwner,
       Mark, ReadPage, PassOver, Ask, NextRow, Prove, Commit, RollBack, AlertConflict, SweepEnds,
       Resolve, Exit
  <2> QED
    BY <1>3, <2>1, ToldPass
<1>4. ASSUME NEW k \in Passes, BudgetSpent(k) \/ Death(k) PROVE ToldInv'
  <2>1. /\ \A j \in Passes \ {k} : run[j].pc = "off"
        /\ run[k] \in PassRecs
    BY <1>4, KronosAssumptions DEF BudgetSpent, Death, At, TypeOK, NoPass, PassRecs
  <2>2. /\ ruling' = ruling /\ notified' = notified
        /\ comments' = comments /\ told' = told /\ disk' = disk
    BY <1>4 DEF BudgetSpent, Death, rulings, posted
  <2>3. Growing
    BY <2>2 DEF Growing
  <2>4. CASE Death(k)
    <3>1. run' = [run EXCEPT ![k] = Off]
      BY <2>4 DEF Death
    <3>2. Honest(Off.mem, ruling', comments', told') /\ Steady(Off, ruling')
      BY <1>1 DEF Honest, Steady
    <3>3. Honest(disk', ruling', comments', told')
      BY <2>2 DEF ToldInv
    <3> QED
      BY <2>1, <2>2, <2>3, <3>1, <3>2, <3>3, ToldWrite
  <2>5. CASE BudgetSpent(k)
    <3> DEFINE q == [run[k] EXCEPT !.spent = TRUE]
    <3>1. run' = [run EXCEPT ![k] = q]
      BY <2>5 DEF BudgetSpent
    <3>2. /\ q.pc = run[k].pc /\ q.mem = run[k].mem /\ q.retry = run[k].retry /\ q.cur = run[k].cur
          /\ q.todo = run[k].todo /\ q.ask = run[k].ask
      BY <2>1 DEF PassRecs
    <3>3. Steady(run[k], ruling)
      BY DEF ToldInv
    <3>4. Steady(q, ruling')
      BY <2>2, <3>2, <3>3 DEF Steady
    <3>5. Honest(q.mem, ruling', comments', told') /\ Honest(disk', ruling', comments', told')
      BY <2>2, <3>2 DEF ToldInv
    <3> HIDE DEF q
    <3> QED
      BY <2>1, <2>2, <2>3, <3>1, <3>4, <3>5, ToldWrite
  <2> QED
    BY <1>4, <2>4, <2>5
<1>5. CASE \/ ServiceFlips \/ (\E p \in PRs : Moves(p)) \/ UNCHANGED vars
  <2>1. UNCHANGED <<ruling, notified, comments, told, disk, run>>
    BY <1>5 DEF ServiceFlips, Moves, outside, rulings, posted, vars
  <2> QED
    BY <2>1 DEF ToldInv, NotifiedWasTold
<1> QED
  BY <1>2, <1>3, <1>4, <1>5 DEF Next, World

\* A decision is marked notified only after its comment is on the PR and a
\* stop has reached the owner, whatever calls failed and whichever passes died.
THEOREM NotifiedTold == Spec => []NotifiedWasTold
<1>1. ToldInv => NotifiedWasTold
  BY DEF ToldInv
<1> QED
  BY TypeInit, TypeStep, ToldInit, ToldStep, <1>1, PTL DEF Spec

\* The state file never knows of a ruling the table does not have.
THEOREM FileFollows == Spec => []FileFollowsTable
<1>1. TypeOK /\ ToldInv => FileFollowsTable
  BY DEF TypeOK, ToldInv, Honest, FileFollowsTable, Slots
<1> QED
  BY TypeInit, TypeStep, ToldInit, ToldStep, <1>1, PTL DEF Spec

-----------------------------------------------------------------------------
(* Repeated comments.                                                      *)

\* 1 while slots m still have a comment on p to come: they owe it, or p would
\* be rebuilt from the table.  Else 0.
Pending(p, m, noted) ==
    IF <<p, "comment">> \in m.owes \/ (p \notin noted /\ p \notin m.outbox) THEN 1 ELSE 0

\* 1 in a delivery whose budget is gone: its mark may be refused at no fault.
Hurried(r) == IF r.spent /\ r.pc \in {"comment", "owner", "mark"} THEN 1 ELSE 0

\* A comment is owed only by an entry of the outbox.
Tidy(m) == \A p \in PRs : <<p, "comment">> \in m.owes => p \in m.outbox

\* What was posted and what is to come from slots m are within one comment and
\* one more for each fault.
Covered(m, extra, com, noted, n) == \A p \in PRs : com[p] + Pending(p, m, noted) + extra <= 1 + n

\* The slots that count are those of the running pass, else those of the file.
RepeatInv ==
    /\ Tidy(disk)
    /\ \A k \in Passes : Tidy(run[k].mem)
    /\ (\A k \in Passes : run[k].pc = "off") => Covered(disk, 0, comments, notified, faults)
    /\ \A k \in Passes :
          run[k].pc # "off" => Covered(run[k].mem, Hurried(run[k]), comments, notified, faults)

\* RepeatInv holds at the start.
LEMMA RepeatInit == Init => RepeatInv
<1> SUFFICES ASSUME Init PROVE RepeatInv
  OBVIOUS
<1>1. Tidy(Empty) /\ Off.mem = Empty /\ Off.pc = "off"
  BY DEF Tidy, Empty, Off
<1>2. disk = Empty /\ run = [k \in Passes |-> Off]
  BY DEF Init
<1>3. \A p \in PRs : Pending(p, disk, notified) <= 1 /\ comments[p] = 0
      /\ Pending(p, disk, notified) \in Nat
  BY DEF Pending, Init
<1>4. Covered(disk, 0, comments, notified, faults)
  BY <1>3 DEF Covered, Init
<1> QED
  BY <1>1, <1>2, <1>4 DEF RepeatInv

\* Pending and Hurried count 0 or 1.
LEMMA CountFacts ==
    /\ \A p, m, noted : Pending(p, m, noted) \in {0, 1}
    /\ \A r : Hurried(r) \in {0, 1}
  BY DEF Pending, Hurried

\* The step of a running pass that leaves it running keeps RepeatInv when the
\* slots it writes are tidy and covered.
LEMMA RepeatWrite ==
    ASSUME TypeOK, RepeatInv, NEW k \in Passes, run[k].pc # "off",
           NEW q, run' = [run EXCEPT ![k] = q], q.pc # "off",
           Tidy(q.mem), Tidy(disk'),
           Covered(q.mem, Hurried(q), comments', notified', faults')
    PROVE  RepeatInv'
<1>1. \A j \in Passes \ {k} : run[j].pc = "off" /\ run'[j] = run[j]
  BY KronosAssumptions DEF TypeOK, NoPass
<1>2. run'[k] = q
  BY DEF TypeOK
<1>3. \A j \in Passes : Tidy(run'[j].mem)
  BY <1>1, <1>2 DEF RepeatInv
<1> QED
  BY <1>1, <1>2, <1>3 DEF RepeatInv

\* A step that owes and posts as before.
LEMMA RepeatSame ==
    ASSUME TypeOK, RepeatInv, NEW k \in Passes, run[k].pc # "off",
           NEW q, run' = [run EXCEPT ![k] = q], q.pc # "off",
           q.mem.outbox = run[k].mem.outbox,
           \A p \in PRs : <<p, "comment">> \in q.mem.owes <=> <<p, "comment">> \in run[k].mem.owes,
           q.spent /\ q.pc \in {"comment", "owner", "mark"} =>
              run[k].spent /\ run[k].pc \in {"comment", "owner", "mark"},
           comments' = comments, notified' = notified,
           UNCHANGED faults \/ Fault, disk' \in {disk, run[k].mem, q.mem}
    PROVE  RepeatInv'
<1>1. Tidy(run[k].mem) /\ Tidy(disk) /\ Covered(run[k].mem, Hurried(run[k]), comments, notified, faults)
  BY DEF RepeatInv
<1>2. Tidy(q.mem)
  BY <1>1 DEF Tidy
<1>3. Hurried(q) <= Hurried(run[k])
  BY DEF Hurried
<1>4. \A p \in PRs : Pending(p, q.mem, notified) = Pending(p, run[k].mem, notified)
  BY DEF Pending
<1>5. faults \in Nat /\ faults' \in Nat /\ faults <= faults' /\ \A p \in PRs : comments[p] \in Nat
  BY DEF Fault, TypeOK
<1>6. ASSUME NEW p \in PRs
      PROVE  comments[p] + Pending(p, q.mem, notified) + Hurried(q) <= 1 + faults'
  <2>1. comments[p] + Pending(p, run[k].mem, notified) + Hurried(run[k]) <= 1 + faults
    BY <1>1 DEF Covered
  <2>2. Pending(p, run[k].mem, notified) \in Nat /\ Hurried(q) \in Nat /\ Hurried(run[k]) \in Nat
    BY CountFacts
  <2> QED
    BY <1>3, <1>4, <1>5, <2>1, <2>2
<1>7. Covered(q.mem, Hurried(q), comments', notified', faults')
  BY <1>6 DEF Covered
<1> QED
  BY <1>1, <1>2, <1>7, RepeatWrite

\* The steps that deliver nothing and file nothing keep RepeatInv.
LEMMA RepeatQuiet ==
    ASSUME TypeOK, TypeOK', ToldInv, RepeatInv, NEW k \in Passes,
           \/ Checks(k) \/ AlertBroken(k) \/ DrainNext(k) \/ DrainEnds(k) \/ ReadPage(k)
           \/ (\E p \in PRs : PassOver(k, p) \/ Ask(k, p)) \/ Prove(k) \/ RollBack(k)
           \/ AlertConflict(k) \/ SweepEnds(k) \/ \E f \in Fingerprints : Resolve(k, f)
    PROVE  RepeatInv'
<1> DEFINE r == run[k]
           Same(q) == /\ run' = [run EXCEPT ![k] = q]
                      /\ q.mem.outbox = r.mem.outbox /\ q.mem.owes = r.mem.owes
                      /\ q.pc # "off"
                      /\ q.spent => q.pc \notin {"comment", "owner", "mark"}
                      /\ disk' \in {disk, r.mem, q.mem}
<1>1. r \in PassRecs /\ r.mem \in Slots /\ run \in [Passes -> PassRecs]
  BY SMTT(40) DEF TypeOK, PassRecs
<1>2. comments' = comments /\ notified' = notified /\ r.pc # "off"
  BY ZenonT(60)
  DEF Checks, AlertBroken, DrainNext, DrainEnds, ReadPage, PassOver, Ask, NextRow, Prove, RollBack,
      AlertConflict, SweepEnds, Resolve, At, rulings, posted
<1>3. UNCHANGED faults \/ Fault
  <2>1. \A f, how : Alert(k, f, how) \/ Close(k, f, how) => UNCHANGED faults \/ Fault
    BY DEF Alert, Close, Misses, Ends
  <2>2. \A how : Ends(k, how) => UNCHANGED faults \/ Fault
    BY DEF Ends
  <2> QED
    BY <2>1, <2>2 DEF Checks, AlertBroken, DrainNext, DrainEnds, ReadPage, PassOver, Ask, Prove, RollBack,
       AlertConflict, SweepEnds, Resolve
<1>4. ASSUME NEW q, Same(q) PROVE RepeatInv'
  BY <1>2, <1>3, <1>4, RepeatSame
<1> HIDE DEF Same
<1>5. ASSUME Checks(k) PROVE \E q : Same(q)
  <2> DEFINE q == [r EXCEPT !.pc = "alert", !.sick = ~up]
  <2>1. Same(q)
    BY <1>1, <1>5 DEF Checks, Same, PassRecs
  <2> QED
    BY <2>1
\* What an alert does to the slots.
<1>6. ASSUME NEW pc \in {"sweep", "reconstruct"}, NEW open, NEW ask, NEW last,
             run' = [run EXCEPT ![k] = [r EXCEPT !.pc = pc, !.ask = ask, !.last = last,
                                                 !.mem = [r.mem EXCEPT !.open = open]]],
             disk' = disk
      PROVE  \E q : Same(q)
  <2> DEFINE q == [r EXCEPT !.pc = pc, !.ask = ask, !.last = last, !.mem = [r.mem EXCEPT !.open = open]]
  <2>1. q.pc = pc /\ q.mem = [r.mem EXCEPT !.open = open]
    BY <1>1 DEF PassRecs
  <2>2. q.mem.outbox = r.mem.outbox /\ q.mem.owes = r.mem.owes
    BY <1>1, <2>1 DEF Slots
  <2>3. Same(q)
    <3> HIDE DEF q
    <3>1. run' = [run EXCEPT ![k] = q]
      BY <1>6 DEF q
    <3> QED
      BY <1>6, <2>1, <2>2, <3>1 DEF Same
  <2> QED
    BY <2>3
<1>7. ASSUME NEW pc \in Pcs \ {"off", "comment", "owner", "mark"}, Goto(k, pc), disk' \in {disk, r.mem}
      PROVE  \E q : Same(q)
  <2> DEFINE q == [r EXCEPT !.pc = pc]
  <2>1. q.pc = pc /\ q.mem = r.mem /\ run' = [run EXCEPT ![k] = q]
    BY <1>1, <1>7 DEF PassRecs, Goto
  <2>2. Same(q)
    <3> HIDE DEF q
    <3> QED
      BY <1>7, <2>1 DEF Same
  <2> QED
    BY <2>2
<1>8. ASSUME AlertBroken(k) PROVE \E q : Same(q)
  <2>1. CASE r.sick
    <3>1. PICK how \in Alerts :
             run' = [run EXCEPT ![k].pc = "reconstruct",
                                ![k].mem.open = Tracked(@, Service, how)]
      BY <1>8, <2>1 DEF AlertBroken
    <3> DEFINE open == Tracked(r.mem.open, Service, how)
    <3>2. run' = [run EXCEPT ![k] = [r EXCEPT !.pc = "reconstruct", !.ask = r.ask, !.last = r.last,
                                              !.mem = [r.mem EXCEPT !.open = open]]]
      <4>1. run' = [run EXCEPT ![k] = [r EXCEPT !.pc = "reconstruct", !.mem = [r.mem EXCEPT !.open = open]]]
        BY ZenonT(60), <3>1
      <4> HIDE DEF open
      <4>2. [r EXCEPT !.pc = "reconstruct", !.mem = [r.mem EXCEPT !.open = open]]
              = [r EXCEPT !.pc = "reconstruct", !.ask = r.ask, !.last = r.last,
                          !.mem = [r.mem EXCEPT !.open = open]]
        BY <1>1 DEF PassRecs
      <4> QED
        BY <4>1, <4>2
    <3>3. disk' = disk
      BY <1>8 DEF AlertBroken
    <3> HIDE DEF open
    <3> QED
      BY <1>6, <3>2, <3>3
  <2>2. CASE ~r.sick
    <3>1. Goto(k, "reconstruct") /\ disk' = disk
      BY <1>8, <2>2 DEF AlertBroken
    <3> QED
      BY <1>7, <3>1 DEF Pcs
  <2> QED
    BY <2>1, <2>2
<1>9. ASSUME DrainNext(k) PROVE \E q : Same(q)
  <2>1. PICK p \in r.todo :
           run' = [run EXCEPT ![k].pc = "comment", ![k].cur = p, ![k].retry = TRUE, ![k].todo = @ \ {p}]
    BY <1>9 DEF DrainNext
  <2> DEFINE q == [r EXCEPT !.pc = "comment", !.cur = p, !.retry = TRUE, !.todo = r.todo \ {p}]
  <2>2. run' = [run EXCEPT ![k] = q] /\ q.pc = "comment" /\ q.mem = r.mem /\ q.spent = r.spent
    BY <1>1, <2>1 DEF PassRecs
  <2>3. ~r.spent /\ disk' = disk
    BY <1>9 DEF DrainNext
  <2>4. Same(q)
    <3> HIDE DEF q
    <3> QED
      BY <2>2, <2>3 DEF Same
  <2> QED
    BY <2>4
\* A step that moves the pass's other fields and keeps its slots.
<1>10. ASSUME NEW q \in PassRecs, run' = [run EXCEPT ![k] = q], q.mem = r.mem,
              q.pc \in {"page", "sweep", "resolve", "prove", "commit", "conflict"},
              disk' \in {disk, r.mem}
       PROVE  \E s : Same(s)
  <2>1. Same(q)
    BY <1>10 DEF Same
  <2> QED
    BY <2>1
<1>11. ASSUME DrainEnds(k) PROVE \E q : Same(q)
  <2> DEFINE q == [r EXCEPT !.pc = "page", !.cur = 0, !.retry = FALSE, !.todo = {}]
  <2>1. q \in PassRecs /\ q.mem = r.mem /\ q.pc = "page"
    BY <1>1 DEF PassRecs, Pcs
  <2>2. run' = [run EXCEPT ![k] = q] /\ disk' = disk
    BY <1>11 DEF DrainEnds
  <2> QED
    BY <1>10, <2>1, <2>2
<1>12. ASSUME ReadPage(k) PROVE \E q : Same(q)
  <2> DEFINE page == FirstOf(After(r.mem.cursor))
             full == Cardinality(page) = PageSize
             a == [r EXCEPT !.pc = "sweep", !.todo = page, !.last = 0, !.full = full]
             b == [r EXCEPT !.pc = "resolve", !.fix = r.mem.open]
  <2>1. page \subseteq PRs /\ full \in BOOLEAN
    BY DEF FirstOf, After
  <2>2. /\ \/ run' = [run EXCEPT ![k] = a]
           \/ run' = [run EXCEPT ![k] = b]
        /\ disk' \in {disk, r.mem}
    BY <1>12 DEF ReadPage
  <2> HIDE DEF page, full
  <2>3. a \in PassRecs /\ a.mem = r.mem /\ a.pc = "sweep"
    BY <1>1, <2>1 DEF PassRecs, Pcs
  <2>4. b \in PassRecs /\ b.mem = r.mem /\ b.pc = "resolve"
    BY <1>1 DEF PassRecs, Pcs, Slots
  <2> HIDE DEF a, b
  <2> QED
    BY <1>10, <2>2, <2>3, <2>4
<1>13. ASSUME NEW p \in PRs, PassOver(k, p) \/ Ask(k, p) PROVE \E q : Same(q)
  <2>1. disk' = disk /\ r.pc = "sweep"
    BY <1>13 DEF PassOver, Ask, NextRow, At
  <2>2. CASE PassOver(k, p)
    <3> DEFINE q == [r EXCEPT !.todo = r.todo \ {p}, !.last = p]
    <3>1. q \in PassRecs /\ q.mem = r.mem /\ q.pc = "sweep"
      BY <1>1, <2>1 DEF PassRecs
    <3>2. run' = [run EXCEPT ![k] = q]
      BY <2>2 DEF PassOver
    <3> QED
      BY <1>10, <2>1, <3>1, <3>2
  <2>3. CASE Ask(k, p)
    <3>1. PICK answer \in {"go", "stop"} :
             run' = [run EXCEPT ![k].pc = "prove", ![k].cur = p, ![k].ask = answer, ![k].todo = @ \ {p}]
      BY <2>3 DEF Ask
    <3> DEFINE q == [r EXCEPT !.pc = "prove", !.cur = p, !.ask = answer, !.todo = r.todo \ {p}]
    <3>2. q \in PassRecs /\ q.mem = r.mem /\ q.pc = "prove"
      BY <1>1 DEF PassRecs, Pcs
    <3>3. run' = [run EXCEPT ![k] = q]
      BY <3>1
    <3> QED
      BY <1>10, <2>1, <3>2, <3>3
  <2> QED
    BY <1>13, <2>2, <2>3
<1>14. ASSUME Prove(k) PROVE \E q : Same(q)
  <2> DEFINE a == [r EXCEPT !.pc = "sweep", !.ask = "none", !.todo = {}]
             b == [r EXCEPT !.pc = "commit"]
             c == [r EXCEPT !.pc = "sweep", !.ask = "none", !.last = r.cur]
  <2>1. /\ \/ run' = [run EXCEPT ![k] = a]
           \/ run' = [run EXCEPT ![k] = b]
           \/ run' = [run EXCEPT ![k] = c]
        /\ disk' = disk
    BY <1>14 DEF Prove, Goto
  <2>2. /\ a \in PassRecs /\ a.mem = r.mem /\ a.pc = "sweep"
        /\ b \in PassRecs /\ b.mem = r.mem /\ b.pc = "commit"
        /\ c \in PassRecs /\ c.mem = r.mem /\ c.pc = "sweep"
    BY <1>1 DEF PassRecs, Pcs
  <2> HIDE DEF a, b, c
  <2> QED
    BY <1>10, <2>1, <2>2
<1>15. ASSUME RollBack(k) PROVE \E q : Same(q)
  <2> DEFINE a == [r EXCEPT !.pc = "sweep", !.ask = "none", !.todo = {}]
             b == [r EXCEPT !.pc = "conflict"]
  <2>1. (run' = [run EXCEPT ![k] = a] \/ run' = [run EXCEPT ![k] = b]) /\ disk' = disk
    BY <1>15 DEF RollBack, Goto
  <2>2. /\ a \in PassRecs /\ a.mem = r.mem /\ a.pc = "sweep"
        /\ b \in PassRecs /\ b.mem = r.mem /\ b.pc = "conflict"
    BY <1>1 DEF PassRecs, Pcs
  <2> HIDE DEF a, b
  <2> QED
    BY <1>10, <2>1, <2>2
<1>16. ASSUME AlertConflict(k) PROVE \E q : Same(q)
  <2>1. PICK how \in Alerts :
           run' = [run EXCEPT ![k].pc = "sweep", ![k].last = run[k].cur, ![k].ask = "none",
                              ![k].mem.open = Tracked(@, Conflict(r.cur), how)]
    BY <1>16 DEF AlertConflict
  <2> DEFINE open == Tracked(r.mem.open, Conflict(r.cur), how)
  <2>2. run' = [run EXCEPT ![k] = [r EXCEPT !.pc = "sweep", !.ask = "none", !.last = r.cur,
                                            !.mem = [r.mem EXCEPT !.open = open]]]
    BY <1>1, <2>1 DEF PassRecs, Slots
  <2>3. disk' = disk
    BY <1>16 DEF AlertConflict
  <2> HIDE DEF open
  <2> QED
    BY <1>6, <2>2, <2>3
<1>17. ASSUME SweepEnds(k) PROVE \E q : Same(q)
  <2> DEFINE mem == [r.mem EXCEPT !.cursor = CursorAfter(k)]
             fix == IF r.spent THEN {} ELSE mem.open
             q == [Off EXCEPT !.pc = "resolve", !.mem = mem, !.sick = r.sick, !.spent = r.spent, !.fix = fix]
  <2>1. run' = [run EXCEPT ![k] = q] /\ disk' = mem
    BY <1>17 DEF SweepEnds
  <2>2. mem.outbox = r.mem.outbox /\ mem.owes = r.mem.owes
    BY <1>1 DEF Slots
  <2> HIDE DEF mem, fix
  <2>3. q.pc = "resolve" /\ q.mem = mem
    BY DEF Off
  <2>4. Same(q)
    <3> HIDE DEF q
    <3> QED
      BY <2>1, <2>2, <2>3 DEF Same
  <2> QED
    BY <2>4
<1>18. ASSUME NEW f \in Fingerprints, Resolve(k, f) PROVE \E q : Same(q)
  <2>0. disk' = disk /\ r.pc = "resolve"
    BY <1>18 DEF Resolve, At
  <2>1. CASE Fixed(k, f)
    <3>1. PICK how \in Calls :
             run' = [run EXCEPT ![k].fix = @ \ {f}, ![k].mem.open = StillOpen(@, f, how)]
      BY <1>18, <2>1 DEF Resolve
    <3> DEFINE open == StillOpen(r.mem.open, f, how)
               m == [r.mem EXCEPT !.open = open]
               q == [r EXCEPT !.fix = r.fix \ {f}, !.mem = m]
    <3>2. run' = [run EXCEPT ![k] = q]
      BY <1>1, <3>1 DEF PassRecs, Slots
    <3> HIDE DEF open
    <3>3. m.outbox = r.mem.outbox /\ m.owes = r.mem.owes
      BY <1>1 DEF Slots
    <3> HIDE DEF m
    <3>4. q.mem = m /\ q.pc = "resolve"
      BY <1>1, <2>0 DEF PassRecs
    <3>5. Same(q)
      <4> HIDE DEF q
      <4> QED
        BY <2>0, <3>2, <3>3, <3>4 DEF Same
    <3> QED
      BY <3>5
  <2>2. CASE ~Fixed(k, f)
    <3> DEFINE q == [r EXCEPT !.fix = r.fix \ {f}]
    <3>1. q \in PassRecs /\ q.mem = r.mem /\ q.pc = "resolve"
      BY <1>1, <2>0 DEF PassRecs
    <3>2. run' = [run EXCEPT ![k] = q]
      BY <1>18, <2>2 DEF Resolve
    <3> QED
      BY <1>10, <2>0, <3>1, <3>2
  <2> QED
    BY <2>1, <2>2
<1> QED
  BY <1>4, <1>5, <1>8, <1>9, <1>11, <1>12, <1>13, <1>14, <1>15, <1>16, <1>17, <1>18

\* A delivery keeps RepeatInv: what is posted is no longer to come, or it cost
\* a fault, or the mark was refused at the expense of the budget.
LEMMA RepeatDelivery ==
    ASSUME TypeOK, TypeOK', ToldInv, RepeatInv, NEW k \in Passes, Comment(k) \/ AlertOwner(k) \/ Mark(k)
    PROVE  RepeatInv'
<1> DEFINE r == run[k]
           p == r.cur
<1>1. /\ r \in PassRecs /\ r.mem \in Slots /\ run \in [Passes -> PassRecs] /\ p \in PRs
      /\ faults \in Nat /\ comments \in [PRs -> Nat]
      /\ r.pc \in {"comment", "owner", "mark"} /\ disk' = disk
  BY DEF TypeOK, PassRecs, Comment, AlertOwner, Mark, At
<1>2. /\ Tidy(r.mem) /\ Tidy(disk) /\ p \in r.mem.outbox
      /\ Covered(r.mem, Hurried(r), comments, notified, faults)
  BY <1>1 DEF RepeatInv, ToldInv, Steady
<1>3. Hurried(r) = IF r.spent THEN 1 ELSE 0
  BY <1>1 DEF Hurried
<1>4. ASSUME NEW owes, NEW open, NEW pc, pc # "off",
             run' = [run EXCEPT ![k] = [r EXCEPT !.pc = pc, !.mem = [r.mem EXCEPT !.owes = owes, !.open = open]]],
             \A o \in PRs : <<o, "comment">> \in owes <=> <<o, "comment">> \in r.mem.owes,
             UNCHANGED <<notified, comments>>, UNCHANGED faults \/ Fault
      PROVE  RepeatInv'
  <2> DEFINE m == [r.mem EXCEPT !.owes = owes, !.open = open]
             q == [r EXCEPT !.pc = pc, !.mem = m]
  <2>1. m.outbox = r.mem.outbox /\ m.owes = owes
    BY <1>1 DEF Slots
  <2>2. run' = [run EXCEPT ![k] = q]
    BY <1>4
  <2> HIDE DEF m
  <2>3. q.pc = pc /\ q.mem = m /\ q.spent = r.spent
    BY <1>1 DEF PassRecs
  <2> HIDE DEF q
  <2>4. \A o \in PRs : <<o, "comment">> \in q.mem.owes <=> <<o, "comment">> \in r.mem.owes
    BY <1>4, <2>1, <2>3
  <2>5. q.spent /\ q.pc \in {"comment", "owner", "mark"} => r.spent /\ r.pc \in {"comment", "owner", "mark"}
    BY <1>1, <2>3
  <2> QED
    BY <1>1, <1>4, <2>1, <2>2, <2>3, <2>4, <2>5, RepeatSame
<1>5. CASE Comment(k)
  <2>0. notified' = notified /\ r.pc = "comment"
    BY <1>5 DEF Comment, rulings, At
  <2>1. CASE <<p, "comment">> \in r.mem.owes
    <3>1. PICK how \in Calls :
             /\ Ends(k, how)
             /\ comments' = IF how = "refused" THEN comments ELSE [comments EXCEPT ![p] = @ + 1]
             /\ run' = [run EXCEPT ![k].pc = "owner",
                           ![k].mem.owes = IF how = "returned" THEN @ \ {<<p, "comment">>} ELSE @]
      BY <1>5, <2>1 DEF Comment
    <3> DEFINE owes == IF how = "returned" THEN r.mem.owes \ {<<p, "comment">>} ELSE r.mem.owes
               m == [r.mem EXCEPT !.owes = owes]
               q == [r EXCEPT !.pc = "owner", !.mem = m]
    <3>2. run' = [run EXCEPT ![k] = q]
      BY <1>1, <3>1 DEF PassRecs
    <3>3. \A o \in PRs : /\ <<o, "comment">> \in owes => <<o, "comment">> \in r.mem.owes
                         /\ o # p /\ <<o, "comment">> \in r.mem.owes => <<o, "comment">> \in owes
      OBVIOUS
    <3>4. how = "returned" <=> <<p, "comment">> \notin owes
      BY <2>1
    <3> HIDE DEF owes
    <3>5. m.outbox = r.mem.outbox /\ m.owes = owes
      BY <1>1 DEF Slots
    <3> HIDE DEF m
    <3>6. q.pc = "owner" /\ q.mem = m /\ q.spent = r.spent
      BY <1>1 DEF PassRecs
    <3> HIDE DEF q
    <3>7. Tidy(q.mem)
      BY <1>2, <3>3, <3>5, <3>6 DEF Tidy
    <3>8. Hurried(q) = Hurried(r)
      BY <2>0, <3>6 DEF Hurried
    <3>9. ASSUME NEW o \in PRs
          PROVE  comments'[o] + Pending(o, q.mem, notified') + Hurried(q) <= 1 + faults'
      <4>1. comments[o] + Pending(o, r.mem, notified) + Hurried(r) <= 1 + faults
        BY <1>2 DEF Covered
      <4>2. /\ Pending(o, r.mem, notified) \in {0, 1} /\ Pending(o, q.mem, notified) \in {0, 1}
            /\ Hurried(r) \in {0, 1} /\ comments[o] \in Nat
        BY <1>1, CountFacts
      <4>3. o # p => Pending(o, q.mem, notified) = Pending(o, r.mem, notified)
        BY <3>3, <3>5, <3>6 DEF Pending
      <4>4. Pending(p, r.mem, notified) = 1
        BY <2>1 DEF Pending
      <4>5. how = "returned" => Pending(p, q.mem, notified) = 0
        BY <1>2, <3>4, <3>5, <3>6 DEF Pending
      <4>6. /\ faults' = faults \/ faults' = faults + 1
            /\ how = "lost" => faults' = faults + 1
        BY <3>1 DEF Ends, Fault
      <4>7. comments'[o] = IF how # "refused" /\ o = p THEN comments[o] + 1 ELSE comments[o]
        BY <1>1, <3>1
      <4>8. how # "returned" => Pending(p, q.mem, notified) = 1
        BY <3>4, <3>5, <3>6 DEF Pending
      <4>9. CASE o # p
        BY <1>1, <2>0, <3>8, <4>1, <4>2, <4>3, <4>6, <4>7, <4>9
      <4>10. CASE o = p /\ how = "returned"
        BY <1>1, <2>0, <3>8, <4>1, <4>2, <4>4, <4>5, <4>6, <4>7, <4>10
      <4>11. CASE o = p /\ how = "lost"
        BY <1>1, <2>0, <3>8, <4>1, <4>2, <4>4, <4>6, <4>7, <4>8, <4>11
      <4>12. CASE o = p /\ how = "refused"
        BY <1>1, <2>0, <3>8, <4>1, <4>2, <4>4, <4>6, <4>7, <4>8, <4>12
      <4> QED
        BY <4>9, <4>10, <4>11, <4>12 DEF Calls
    <3>10. Covered(q.mem, Hurried(q), comments', notified', faults')
      BY <3>9 DEF Covered
    <3> QED
      BY <1>1, <1>2, <3>2, <3>6, <3>7, <3>10, RepeatWrite
  <2>2. CASE <<p, "comment">> \notin r.mem.owes
    <3> DEFINE q == [r EXCEPT !.pc = "owner"]
    <3>1. run' = [run EXCEPT ![k] = q] /\ UNCHANGED <<comments, faults>>
      BY <1>5, <2>2 DEF Comment, Goto
    <3>2. q.pc = "owner" /\ q.mem = r.mem /\ q.spent = r.spent
      BY <1>1 DEF PassRecs
    <3> HIDE DEF q
    <3> QED
      BY ZenonT(60), <1>1, <2>0, <3>1, <3>2, RepeatSame
  <2> QED
    BY <2>1, <2>2
<1>6. CASE AlertOwner(k)
  <2>0. UNCHANGED <<notified, comments>>
    BY <1>6 DEF AlertOwner, rulings
  <2>1. CASE <<p, "alert">> \in r.mem.owes
    <3>1. PICK how \in Alerts :
             LET owes == IF how \in {"returned", "suppressed"} THEN r.mem.owes \ {<<p, "alert">>}
                         ELSE r.mem.owes IN
             /\ Alert(k, Loop(p), how)
             /\ run' = [run EXCEPT ![k].pc = AfterDelivery(k, owes),
                           ![k].mem.owes = owes,
                           ![k].mem.open = Tracked(@, Loop(p), how)]
      BY <1>6, <2>1 DEF AlertOwner
    <3> DEFINE owes == IF how \in {"returned", "suppressed"} THEN r.mem.owes \ {<<p, "alert">>}
                       ELSE r.mem.owes
               open == Tracked(r.mem.open, Loop(p), how)
               pc == AfterDelivery(k, owes)
    <3>2. run' = [run EXCEPT ![k] = [r EXCEPT !.pc = pc,
                                        !.mem = [r.mem EXCEPT !.owes = owes, !.open = open]]]
      <4>1. r \in PassRecs /\ r.mem \in Slots
        BY <1>1
      <4> QED
        BY ZenonT(60), <3>1, <4>1 DEF PassRecs, Slots
    <3>3. \A o \in PRs : <<o, "comment">> \in owes <=> <<o, "comment">> \in r.mem.owes
      OBVIOUS
    <3>4. pc # "off"
      BY DEF AfterDelivery
    <3>5. UNCHANGED faults \/ Fault
      BY <3>1 DEF Alert, Misses, Ends
    <3> HIDE DEF owes, open, pc
    <3> QED
      BY ZenonT(60), <1>4, <2>0, <3>2, <3>3, <3>4, <3>5
  <2>2. CASE <<p, "alert">> \notin r.mem.owes
    <3> DEFINE pc == AfterDelivery(k, r.mem.owes)
               q == [r EXCEPT !.pc = pc]
    <3>1. run' = [run EXCEPT ![k] = q] /\ UNCHANGED faults
      BY <1>6, <2>2 DEF AlertOwner, Goto
    <3>2. pc # "off"
      BY DEF AfterDelivery
    <3> HIDE DEF pc
    <3>3. q.pc = pc /\ q.mem = r.mem /\ q.spent = r.spent
      BY <1>1 DEF PassRecs
    <3> HIDE DEF q
    <3> QED
      BY <1>1, <2>0, <3>1, <3>2, <3>3, RepeatSame
  <2> QED
    BY <2>1, <2>2
<1>7. CASE Mark(k)
  <2> DEFINE m == [r.mem EXCEPT !.outbox = r.mem.outbox \ {p}]
             q == [r EXCEPT !.pc = "drain", !.mem = m]
  <2>0. comments' = comments /\ r.pc = "mark" /\ run' = [run EXCEPT ![k] = q]
    BY <1>1, <1>7 DEF Mark, posted, At, PassRecs
  <2>1. PICK how \in {"returned", "refused"} :
          /\ Ends(k, how)
          /\ notified' = IF how = "refused" THEN notified ELSE notified \cup {p}
    BY <1>7 DEF Mark
  <2>2. m.outbox = r.mem.outbox \ {p} /\ m.owes = r.mem.owes
    BY <1>1 DEF Slots
  <2> HIDE DEF m
  <2>3. q.pc = "drain" /\ q.mem = m
    BY <1>1 DEF PassRecs
  <2> HIDE DEF q
  <2>4. Hurried(q) = 0
    BY <2>3 DEF Hurried
  <2>5. <<p, "comment">> \notin r.mem.owes
    BY <1>1, <2>0 DEF ToldInv, Steady, Delivered
  <2>6. Tidy(q.mem)
    BY <1>2, <2>2, <2>3, <2>5 DEF Tidy
  <2>7. ASSUME NEW o \in PRs
        PROVE  comments'[o] + Pending(o, q.mem, notified') + Hurried(q) <= 1 + faults'
    <3>1. comments[o] + Pending(o, r.mem, notified) + Hurried(r) <= 1 + faults
      BY <1>2 DEF Covered
    <3>2. /\ Pending(o, r.mem, notified) \in {0, 1} /\ Pending(o, q.mem, notified') \in {0, 1}
          /\ Hurried(r) \in {0, 1} /\ comments[o] \in Nat
      BY <1>1, CountFacts
    <3>3. o # p => Pending(o, q.mem, notified') = Pending(o, r.mem, notified)
      BY <2>1, <2>2, <2>3 DEF Pending
    <3>4. how = "returned" => Pending(p, q.mem, notified') = 0
      BY <2>1, <2>2, <2>3, <2>5 DEF Pending
    <3>5. /\ faults' = faults \/ faults' = faults + 1
          /\ how = "refused" => r.spent \/ faults' = faults + 1
      BY <2>1 DEF Ends, Fault
    <3>6. CASE o # p
      BY <1>1, <2>0, <2>4, <3>1, <3>2, <3>3, <3>5, <3>6
    <3>7. CASE o = p /\ how = "returned"
      BY <1>1, <2>0, <2>4, <3>1, <3>2, <3>4, <3>5, <3>7
    <3>8. CASE o = p /\ how = "refused"
      <4>1. Hurried(r) = 1 \/ faults' = faults + 1
        BY <1>3, <3>5, <3>8
      <4> QED
        BY <1>1, <2>0, <2>4, <3>1, <3>2, <3>5, <4>1
    <3> QED
      BY <3>6, <3>7, <3>8
  <2>8. Covered(q.mem, Hurried(q), comments', notified', faults')
    BY <2>7 DEF Covered
  <2> QED
    BY <1>1, <1>2, <2>0, <2>3, <2>6, <2>8, RepeatWrite
<1> QED
  BY <1>5, <1>6, <1>7

\* A new entry needs its own comment and nobody else's.
LEMMA NeedsComment ==
    ASSUME NEW p, NEW decision, NEW o
    PROVE  <<o, "comment">> \in NeedsOf(p, decision) <=> o = p
<1>1. <<o, "comment">> = <<p, "comment">> <=> o = p
  OBVIOUS
<1>2. <<o, "comment">> # <<p, "alert">>
  OBVIOUS
<1> QED
  BY <1>1, <1>2 DEF NeedsOf

\* The steps that put entries into the outbox keep RepeatInv: their comments
\* were still to come before.
LEMMA RepeatFiled ==
    ASSUME TypeOK, TypeOK', ToldInv, RepeatInv, NEW k \in Passes, Reconstruct(k) \/ Commit(k)
    PROVE  RepeatInv'
<1> DEFINE r == run[k]
<1>1. /\ r \in PassRecs /\ r.mem \in Slots /\ run \in [Passes -> PassRecs]
      /\ faults \in Nat /\ comments \in [PRs -> Nat] /\ r.pc \in {"reconstruct", "commit"}
      /\ UNCHANGED <<notified, comments>>
  BY DEF TypeOK, PassRecs, Reconstruct, Commit, At, rulings, posted
<1>2. /\ Tidy(r.mem) /\ Tidy(disk)
      /\ Covered(r.mem, Hurried(r), comments, notified, faults)
  BY <1>1 DEF RepeatInv
<1>3. Hurried(r) = 0
  BY <1>1 DEF Hurried
\* Slots that take in entries for new and ask for their comments.
<1>4. ASSUME NEW new, \A p \in new : p \notin notified /\ p \notin r.mem.outbox,
             NEW q, run' = [run EXCEPT ![k] = q], q.pc # "off", ~q.spent,
             q.mem.outbox = r.mem.outbox \cup new,
             \A p \in PRs : <<p, "comment">> \in q.mem.owes <=> <<p, "comment">> \in r.mem.owes \/ p \in new,
             disk' \in {disk, r.mem}, UNCHANGED faults \/ Fault
      PROVE  RepeatInv'
  <2>1. Tidy(q.mem) /\ Tidy(disk')
    BY <1>2, <1>4 DEF Tidy
  <2>2. Hurried(q) = 0
    BY <1>4 DEF Hurried
  <2>3. ASSUME NEW o \in PRs
        PROVE  comments'[o] + Pending(o, q.mem, notified') + Hurried(q) <= 1 + faults'
    <3>1. comments[o] + Pending(o, r.mem, notified) + Hurried(r) <= 1 + faults
      BY <1>2 DEF Covered
    <3>2. Pending(o, q.mem, notified) = Pending(o, r.mem, notified)
      BY <1>4 DEF Pending
    <3>3. Pending(o, r.mem, notified) \in {0, 1} /\ comments[o] \in Nat
      BY <1>1, CountFacts
    <3>4. faults' = faults \/ faults' = faults + 1
      BY <1>4 DEF Fault
    <3> QED
      BY <1>1, <1>3, <2>2, <3>1, <3>2, <3>3, <3>4
  <2>4. Covered(q.mem, Hurried(q), comments', notified', faults')
    BY <2>3 DEF Covered
  <2> QED
    BY <1>1, <1>4, <2>1, <2>4, RepeatWrite
<1>5. CASE Reconstruct(k)
  <2>1. CASE r.spent
    <3> DEFINE q == [r EXCEPT !.pc = "resolve"]
    <3>1. run' = [run EXCEPT ![k] = q] /\ UNCHANGED <<disk, faults>>
      BY <1>5, <2>1 DEF Reconstruct, Goto
    <3>2. q.pc = "resolve" /\ q.mem = r.mem
      BY <1>1 DEF PassRecs
    <3> HIDE DEF q
    <3> QED
      BY <1>1, <3>1, <3>2, RepeatSame
  <2>2. CASE ~r.spent
    <3>1. PICK new \in {Rebuilt(k), {}} :
             /\ IF new = Rebuilt(k) THEN UNCHANGED faults ELSE Fault
             /\ run' = [run EXCEPT
                        ![k].pc = "drain",
                        ![k].mem.outbox = @ \cup new,
                        ![k].mem.owes = @ \cup UNION {NeedsOf(p, ruling[p]) : p \in new},
                        ![k].todo = run[k].mem.outbox \cup new]
      BY <1>5, <2>2 DEF Reconstruct
    <3> DEFINE needs == UNION {NeedsOf(p, ruling[p]) : p \in new}
               m == [r.mem EXCEPT !.outbox = r.mem.outbox \cup new, !.owes = r.mem.owes \cup needs]
               q == [r EXCEPT !.pc = "drain", !.mem = m, !.todo = r.mem.outbox \cup new]
    <3>2. run' = [run EXCEPT ![k] = q]
      BY ZenonT(60), <1>1, <3>1 DEF PassRecs, Slots
    <3>3. \A p \in new : p \notin notified /\ p \notin r.mem.outbox
      BY DEF Rebuilt, Unnotified
    <3>4. ASSUME NEW p \in PRs PROVE <<p, "comment">> \in needs <=> p \in new
      <4>1. ASSUME NEW o PROVE <<p, "comment">> \in NeedsOf(o, ruling[o]) <=> o = p
        BY NeedsComment
      <4> QED
        BY Zenon, <4>1
    <3> HIDE DEF needs
    <3>5. m.outbox = r.mem.outbox \cup new /\ m.owes = r.mem.owes \cup needs
      BY <1>1 DEF Slots
    <3> HIDE DEF m
    <3>6. q.pc = "drain" /\ q.mem = m /\ ~q.spent
      BY <1>1, <2>2 DEF PassRecs
    <3> HIDE DEF q
    <3>7. disk' = r.mem /\ (UNCHANGED faults \/ Fault)
      BY <1>5, <2>2, <3>1 DEF Reconstruct
    <3>8. \A p \in PRs : <<p, "comment">> \in q.mem.owes <=> <<p, "comment">> \in r.mem.owes \/ p \in new
      BY <3>4, <3>5, <3>6
    <3> QED
      BY <1>4, <3>2, <3>3, <3>5, <3>6, <3>7, <3>8
  <2> QED
    BY <2>1, <2>2
<1>6. CASE Commit(k)
  <2> DEFINE p == r.cur
             needs == NeedsOf(p, r.ask)
             m == [r.mem EXCEPT !.judged = r.mem.judged \cup {p}, !.outbox = r.mem.outbox \cup {p},
                                !.owes = r.mem.owes \cup needs]
  <2>0. /\ ~r.spent /\ disk' = disk /\ r.pc = "commit" /\ p \in PRs
    BY <1>1, <1>6 DEF Commit, At, TypeOK
  <2>1. CASE Fault /\ run' = [run EXCEPT ![k].pc = "sweep", ![k].ask = "none", ![k].last = p]
    <3> DEFINE q == [r EXCEPT !.pc = "sweep", !.ask = "none", !.last = p]
    <3>1. run' = [run EXCEPT ![k] = q]
      BY <2>1
    <3>2. q.pc = "sweep" /\ q.mem = r.mem
      BY <1>1 DEF PassRecs
    <3> HIDE DEF q
    <3> QED
      BY <1>1, <2>0, <2>1, <3>1, <3>2, RepeatSame
  <2>2. CASE UNCHANGED faults
             /\ run' = [run EXCEPT ![k].pc = "comment", ![k].ask = "none", ![k].last = p, ![k].mem = m]
    <3> DEFINE q == [r EXCEPT !.pc = "comment", !.ask = "none", !.last = p, !.mem = m]
    <3>1. run' = [run EXCEPT ![k] = q]
      <4> HIDE DEF m
      <4> QED
        BY <1>1, <2>2 DEF PassRecs
    <3>2. ruling[p] = "none"
      BY <2>0 DEF ToldInv, Steady
    <3>3. p \notin notified /\ p \notin r.mem.outbox
      BY <3>2 DEF ToldInv, Honest
    <3>4. m.outbox = r.mem.outbox \cup {p} /\ m.owes = r.mem.owes \cup needs
      BY <1>1 DEF Slots
    <3> HIDE DEF m
    <3>5. q.pc = "comment" /\ q.mem = m /\ ~q.spent
      BY <1>1, <2>0 DEF PassRecs
    <3> HIDE DEF q
    <3>6. \A o \in PRs : <<o, "comment">> \in needs <=> o \in {p}
      BY Zenon, NeedsComment
    <3> HIDE DEF needs
    <3>7. \A o \in PRs : <<o, "comment">> \in q.mem.owes <=> <<o, "comment">> \in r.mem.owes \/ o \in {p}
      BY <3>4, <3>5, <3>6
    <3>8. \A o \in {p} : o \notin notified /\ o \notin r.mem.outbox
      BY <3>3
    <3>9. q.mem.outbox = r.mem.outbox \cup {p} /\ q.pc # "off" /\ ~q.spent
      BY <3>4, <3>5
    <3> QED
      BY <1>4, <2>0, <2>2, <3>1, <3>7, <3>8, <3>9
  <2> QED
    BY <1>6, <2>1, <2>2 DEF Commit
<1> QED
  BY <1>5, <1>6

\* Every step keeps RepeatInv.
LEMMA RepeatStep == TypeOK /\ TypeOK' /\ ToldInv /\ RepeatInv /\ [Next]_vars => RepeatInv'
<1> SUFFICES ASSUME TypeOK, TypeOK', ToldInv, RepeatInv, [Next]_vars PROVE RepeatInv'
  OBVIOUS
<1>0. /\ Tidy(Empty) /\ Off.mem = Empty /\ Off.pc = "off"
      /\ run \in [Passes -> PassRecs] /\ faults \in Nat /\ comments \in [PRs -> Nat]
  BY DEF Tidy, Empty, Off, TypeOK, PassRecs
\* The pass ends: the file counts from now on.
<1>1. ASSUME NEW k \in Passes, run[k].pc # "off", run' = [run EXCEPT ![k] = Off],
             Tidy(disk'), Covered(disk', 0, comments', notified', faults')
      PROVE  RepeatInv'
  <2>1. \A j \in Passes : run'[j] = (IF j = k THEN Off ELSE run[j]) /\ run'[j].pc = "off"
    BY <1>0, <1>1, KronosAssumptions DEF TypeOK, NoPass
  <2>2. \A j \in Passes : Tidy(run'[j].mem)
    BY <1>0, <2>1 DEF RepeatInv
  <2> QED
    BY <1>1, <2>1, <2>2 DEF RepeatInv
<1>2. ASSUME NEW k \in Passes, Begin(k) PROVE RepeatInv'
  <2> DEFINE q == [Off EXCEPT !.pc = "checks", !.mem = disk]
  <2>1. \A j \in Passes : run[j].pc = "off"
    BY <1>2, KronosAssumptions DEF Begin, TypeOK, NoPass
  <2>2. run' = [run EXCEPT ![k] = q] /\ UNCHANGED <<notified, comments, disk, faults>>
    BY <1>2 DEF Begin, rulings, posted
  <2>3. q.pc = "checks" /\ q.mem = disk
    BY DEF Off
  <2> HIDE DEF q
  <2>4. Hurried(q) = 0
    BY <2>3 DEF Hurried
  <2>5. \A j \in Passes : run'[j] = IF j = k THEN q ELSE run[j]
    BY <1>0, <2>2
  <2>6. Tidy(disk) /\ Covered(disk, 0, comments, notified, faults)
    BY <2>1 DEF RepeatInv
  <2>7. \A j \in Passes : Tidy(run'[j].mem)
    BY <2>3, <2>5, <2>6 DEF RepeatInv
  <2>8. \A j \in Passes : run'[j].pc # "off" => j = k
    BY <2>1, <2>5
  <2>9. Covered(q.mem, Hurried(q), comments', notified', faults') /\ run'[k] = q
    BY <2>2, <2>3, <2>4, <2>5, <2>6
  <2> QED
    BY <2>2, <2>3, <2>6, <2>7, <2>8, <2>9 DEF RepeatInv
<1>3. ASSUME NEW k \in Passes, Exit(k) PROVE RepeatInv'
  <2>1. /\ run[k].pc = "resolve" /\ run' = [run EXCEPT ![k] = Off] /\ disk' = run[k].mem
        /\ UNCHANGED <<notified, comments, faults>>
    BY <1>3 DEF Exit, At, rulings, posted
  <2>2. Hurried(run[k]) = 0
    BY <2>1 DEF Hurried
  <2>3. Tidy(run[k].mem) /\ Covered(run[k].mem, 0, comments, notified, faults)
    BY <2>1, <2>2 DEF RepeatInv
  <2> QED
    BY <1>1, <2>1, <2>3
<1>4. ASSUME NEW k \in Passes, Death(k) PROVE RepeatInv'
  <2>1. /\ run[k].pc # "off" /\ run' = [run EXCEPT ![k] = Off]
        /\ UNCHANGED <<notified, comments, disk>> /\ faults' = faults + 1
    BY <1>4 DEF Death, At, rulings, posted, Fault
  <2>2. Tidy(disk) /\ Covered(run[k].mem, Hurried(run[k]), comments, notified, faults)
    BY <2>1 DEF RepeatInv
  <2>3. ASSUME NEW p \in PRs PROVE comments[p] + Pending(p, disk, notified) + 0 <= 1 + faults'
    <3>1. comments[p] + Pending(p, run[k].mem, notified) + Hurried(run[k]) <= 1 + faults
      BY <2>2 DEF Covered
    <3>2. /\ Pending(p, run[k].mem, notified) \in {0, 1} /\ Pending(p, disk, notified) \in {0, 1}
          /\ Hurried(run[k]) \in {0, 1} /\ comments[p] \in Nat
      BY <1>0, CountFacts
    <3> QED
      BY <1>0, <2>1, <3>1, <3>2
  <2>4. Tidy(disk') /\ Covered(disk', 0, comments', notified', faults')
    BY <2>1, <2>2, <2>3 DEF Covered
  <2> QED
    BY <1>1, <2>1, <2>4
<1>5. ASSUME NEW k \in Passes, BudgetSpent(k) PROVE RepeatInv'
  <2> DEFINE q == [run[k] EXCEPT !.spent = TRUE]
  <2>1. /\ run[k].pc # "off" /\ run' = [run EXCEPT ![k] = q]
        /\ UNCHANGED <<notified, comments, disk>> /\ faults' = faults + 1
    BY <1>5 DEF BudgetSpent, At, rulings, posted, Fault
  <2>2. q.pc = run[k].pc /\ q.mem = run[k].mem
    BY <1>0 DEF PassRecs
  <2> HIDE DEF q
  <2>3. /\ Tidy(disk) /\ Tidy(run[k].mem)
        /\ Covered(run[k].mem, Hurried(run[k]), comments, notified, faults)
    BY <2>1 DEF RepeatInv
  <2>4. Hurried(run[k]) = 0
    BY <1>5 DEF BudgetSpent, Hurried
  <2>5. ASSUME NEW p \in PRs PROVE comments[p] + Pending(p, q.mem, notified) + Hurried(q) <= 1 + faults'
    <3>1. comments[p] + Pending(p, run[k].mem, notified) + 0 <= 1 + faults
      BY <2>3, <2>4 DEF Covered
    <3>2. /\ Pending(p, run[k].mem, notified) \in {0, 1} /\ Hurried(q) \in {0, 1} /\ comments[p] \in Nat
      BY <1>0, CountFacts
    <3> QED
      BY <1>0, <2>1, <2>2, <3>1, <3>2
  <2>6. Tidy(disk') /\ Covered(q.mem, Hurried(q), comments', notified', faults')
    BY <2>1, <2>3, <2>5 DEF Covered
  <2> QED
    BY <2>1, <2>2, <2>3, <2>6, RepeatWrite
<1>6. CASE \/ ServiceFlips \/ (\E p \in PRs : Moves(p)) \/ UNCHANGED vars
  <2>1. UNCHANGED <<notified, comments, disk, run, faults>>
    BY <1>6 DEF ServiceFlips, Moves, outside, rulings, posted, vars
  <2> QED
    BY <2>1 DEF RepeatInv
<1> QED
  BY <1>2, <1>3, <1>4, <1>5, <1>6, RepeatQuiet, RepeatDelivery, RepeatFiled DEF Next, World, PassStep

\* A ruling is posted on its PR once, and once more for a fault at most,
\* however many passes run, die and run out of budget.
THEOREM RepeatsCaused == Spec => []RepeatsHaveCauses
<1>1. TypeOK /\ RepeatInv => RepeatsHaveCauses
  <2> SUFFICES ASSUME TypeOK, RepeatInv, NEW p \in PRs PROVE comments[p] <= 1 + faults
    BY DEF RepeatsHaveCauses
  <2>1. PICK m, extra : extra \in {0, 1} /\ Covered(m, extra, comments, notified, faults)
    BY CountFacts DEF RepeatInv
  <2>2. comments[p] + Pending(p, m, notified) + extra <= 1 + faults
    BY <2>1 DEF Covered
  <2>3. Pending(p, m, notified) \in {0, 1} /\ comments[p] \in Nat /\ faults \in Nat
    BY CountFacts DEF TypeOK
  <2> QED
    BY <2>1, <2>2, <2>3
<1> QED
  BY TypeInit, TypeStep, ToldInit, ToldStep, RepeatInit, RepeatStep, <1>1, PTL DEF Spec
=============================================================================
