-------------------------------- MODULE Triage --------------------------------
(***************************************************************************)
(* The triage worker (run_neo, src/src/neo_worker.py) with the two-green   *)
(* gate and the merge executor (src/src/merge_executor.py): what a pool    *)
(* thread does with the wakes of one PR, from the claim of the wake's row  *)
(* to the debit of its credits.                                            *)
(*                                                                         *)
(* A wake is a verdict: a head and its colour.  A step is one SQL          *)
(* statement, one GitHub call, or the end of the agent, so everything that *)
(* was read in an earlier step may be old when it is used.  Any statement  *)
(* may raise, the process may die, leases lapse, authors push and reviewers*)
(* change their minds in between.                                          *)
(*                                                                         *)
(* Abstractions: heads are numbered in the order they are pushed; evidence *)
(* is whether the head had everything a merge needs when it was read; the  *)
(* phases ready, fix_forward, escalated (by the agent), builder_blocked    *)
(* and blocked are one phase, "ready"; rows that no statement of run_neo   *)
(* reads back (stale_head and lane_hold of the early returns, parked of    *)
(* the credit gate, usage attempts) are left out; what credits_for charges *)
(* for a run is any number up to a bound; the hand-off of a wake to the    *)
(* pool is WakeLane's, the life of an escalation Escalation's, that of a   *)
(* builder round BuilderLane's.                                            *)
(***************************************************************************)
EXTENDS Integers, FiniteSets

CONSTANTS Wakes,         \* verdicts: <<head, green>>
          Workers,       \* pool threads
          NoWake, NoToken,
          MaxAttempts,
          Bounces,       \* bounces_before_escalation
          PriorRounds,   \* builder rounds the PR may have had before
          Plans,         \* whether the install may be on a metered plan
          Credits,       \* balance of the install
          MaxDebit,      \* bound: credits one run costs
          MaxDeliveries, \* bound: verdicts delivered
          MaxMishaps     \* bound: leases that lapse under a run, statements
                         \* that raise, and crashes

ASSUME WakesAssumption ==
    Wakes \subseteq (Nat \ {0}) \X BOOLEAN /\ \E w \in Wakes : w[1] = 1
ASSUME NullAssumption == NoToken \notin Workers /\ NoWake \notin Wakes
ASSUME MaxAttemptsAssumption == MaxAttempts \in Nat \ {0}
ASSUME WorkersAssumption == IsFiniteSet(Workers) /\ Workers # {}
ASSUME BoundsAssumption ==
    /\ Plans \subseteq BOOLEAN /\ PriorRounds \subseteq 0..Bounces
    /\ Bounces \in Nat /\ Credits \in Nat /\ MaxDebit \in Nat \ {0}
    /\ MaxDeliveries \in Nat /\ MaxMishaps \in Nat

\* 0 stands for the heads before.
Heads == {w[1] : w \in Wakes}

\* The rounds triage may order; later ones belong to the advisor.
Rounds == 1..Bounces

VARIABLES
    job,      \* neo_jobs, kind='wake'
    ledger,   \* neo_actions rows of the PR
    builder,  \* neo_jobs, kind='builder': the rounds of the PR
    inst,     \* the row of neo_installs: on a metered plan, and its balance
    gh,       \* GitHub: head, merged head, lane branch
    run,      \* the run of each pool thread
    orders,   \* history: the rounds each verdict has ordered
    debits,   \* history: how often each verdict was paid for
    spent     \* bounded environment events

vars == <<job, ledger, builder, inst, gh, run, orders, debits, spent>>

J == INSTANCE JobRow WITH Claimants <- Workers

Phases == {"triage", "merged", "ready", "builder", "escalating", "escalated",
           "parked", "stale_head"}

Row(phase, w, round) == [phase |-> phase, head |-> w[1], green |-> w[2], round |-> round]

Idle == [pc |-> "idle", wake |-> NoWake, auth |-> FALSE, phase |-> "none", round |-> 0]

Pcs == {"gate", "evidence", "agent", "merge", "call",
        "bounce", "order", "phase", "marker", "close", "debit"}

TypeOK ==
    /\ job \in [Wakes -> J!Rows]
    /\ ledger \subseteq [phase : Phases, head : Heads \cup {0}, green : BOOLEAN, round : 0..Bounces]
    /\ builder \in [Rounds -> {"absent", "active", "done"}]
    /\ inst \in [metered : BOOLEAN, balance : Int]
    /\ gh \in [head : Heads, merged : Heads \cup {0}, lane : BOOLEAN]
    /\ run \in [Workers -> {Idle} \cup [pc : Pcs, wake : Wakes, auth : BOOLEAN,
                                       phase : Phases \cup {"none"}, round : 0..Bounces]]
    /\ \A t \in Workers : run[t].pc = "order" => run[t].round \in Rounds
    /\ orders \in [Wakes -> SUBSET Rounds]
    /\ debits \in [Wakes -> Nat]
    /\ spent \in [deliveries : Nat, lapses : Nat, faults : Nat]

Init ==
    /\ job = [w \in Wakes |-> J!Absent]
    /\ \E n \in PriorRounds :
          /\ ledger = {Row("builder", <<0, FALSE>>, r) : r \in 1..n}
          /\ builder = [r \in Rounds |-> IF r <= n THEN "done" ELSE "absent"]
    /\ \E metered \in Plans, lane \in BOOLEAN :
          /\ inst = [metered |-> metered, balance |-> Credits]
          /\ gh = [head |-> 1, merged |-> 0, lane |-> lane]
    /\ run = [t \in Workers |-> Idle]
    /\ orders = [w \in Wakes |-> {}]
    /\ debits = [w \in Wakes |-> 0]
    /\ spent = [deliveries |-> 0, lapses |-> 0, faults |-> 0]

-----------------------------------------------------------------------------
(* The run of one wake, up to its agent.                                   *)

At(t, pc) == run[t].pc = pc

Goto(t, pc) == run' = [run EXCEPT ![t].pc = pc]

Ends(t) == run' = [run EXCEPT ![t] = Idle]

\* A statement on the run's own row; it misses a row that was lost.
RowEnds(t, outcome) ==
    job' = [job EXCEPT ![run[t].wake] = IF J!HeldBy(@, t) THEN J!Resolved(@, outcome) ELSE @]

RowRetried(t) ==
    job' = [job EXCEPT ![run[t].wake] = IF J!HeldBy(@, t) THEN J!Retried(@) ELSE @]

\* A task for a queued wake claims its row.
Claim(t, w) ==
    /\ run[t] = Idle
    /\ J!Claimable(job[w])
    /\ job' = [job EXCEPT ![w] = J!Claimed(@, t)]
    /\ run' = [run EXCEPT ![t] = [Idle EXCEPT !.pc = "gate", !.wake = w]]
    /\ UNCHANGED <<ledger, builder, inst, gh, orders, debits, spent>>

\* The row was claimed only to give it up: the repository has no installation,
\* or GitHub did not answer, or knows no PR for the head.
Drop(t) ==
    /\ At(t, "gate")
    /\ RowEnds(t, "no_installation") \/ RowRetried(t)
    /\ Ends(t)
    /\ UNCHANGED <<ledger, builder, inst, gh, orders, debits, spent>>

\* already_acted; without a colour any colour counts.
ActedOn(w, phase) == \E row \in ledger : row.phase = phase /\ row.head = w[1] /\ row.green = w[2]

Merged(w) == \E row \in ledger : row.phase = "merged" /\ row.head = w[1]

\* (mutant) the gate looks at the merge only.
ActedOnlyMerged(w) == Merged(w)

Acted(w) == ActedOn(w, "triage") \/ Merged(w)

\* (mutant) a recorded builder round is not noticed.
HalfDoneButBuilder(w) == \E phase \in {"ready", "escalated", "escalating"} : ActedOn(w, phase)

HalfDone(w) == \E phase \in {"builder", "ready", "escalated", "escalating"} : ActedOn(w, phase)

DuplicateVerdict(t) ==
    /\ At(t, "gate") /\ Acted(run[t].wake)
    /\ RowEnds(t, "no_change")
    /\ Ends(t)
    /\ UNCHANGED <<ledger, builder, inst, gh, orders, debits, spent>>

\* An earlier run died before its triage marker: only the marker is missing.
RestoreMarker(t) ==
    LET w == run[t].wake IN
    /\ At(t, "gate") /\ ~Acted(w) /\ HalfDone(w)
    /\ ledger' = ledger \cup {Row("triage", w, 0)}
    /\ Goto(t, "close")
    /\ UNCHANGED <<job, builder, inst, gh, orders, debits, spent>>

\* (mutant) an empty balance still pays for a run.
OutOfCreditsLate == inst.metered /\ inst.balance < 0

OutOfCredits == inst.metered /\ inst.balance <= 0

\* A verdict nobody has acted on goes on, if the install can pay for it.
CreditGate(t) ==
    /\ At(t, "gate") /\ ~Acted(run[t].wake) /\ ~HalfDone(run[t].wake)
    /\ IF OutOfCredits
       THEN /\ job' = [job EXCEPT ![run[t].wake] = IF J!ParkableBy(@, t) THEN J!Parked(@) ELSE @]
            /\ Ends(t)
       ELSE Goto(t, "evidence") /\ UNCHANGED job
    /\ UNCHANGED <<ledger, builder, inst, gh, orders, debits, spent>>

OnHead(t) == run[t].wake[1] = gh.head

StaleHead(t) ==
    /\ At(t, "evidence") /\ ~OnHead(t)
    /\ RowEnds(t, "no_change")
    /\ Ends(t)
    /\ UNCHANGED <<ledger, builder, inst, gh, orders, debits, spent>>

\* The branch cannot be read or classified, the wake is an architect's, or a
\* lane PR must wait: the row is left running until its lease expires.
Hold(t) ==
    /\ At(t, "evidence")
    /\ Ends(t)
    /\ UNCHANGED <<job, ledger, builder, inst, gh, orders, debits, spent>>

\* Everything a merge needs was read on this head: merge_authority,
\* two_green_gate.  What the reviewers say at the moment is left open.
MayBeGreen(t) == OnHead(t)

\* run_lane_gate
LaneGate(t) ==
    /\ At(t, "evidence") /\ gh.lane
    /\ MayBeGreen(t) /\ ~Merged(run[t].wake)
    /\ run' = [run EXCEPT ![t].pc = "merge", ![t].auth = TRUE]
    /\ UNCHANGED <<job, ledger, builder, inst, gh, orders, debits, spent>>

\* An ordinary PR; a failed read of the evidence gives no authority.
StartAgent(t, auth) ==
    /\ At(t, "evidence") /\ ~gh.lane
    /\ auth => MayBeGreen(t)
    /\ run' = [run EXCEPT ![t].pc = "agent", ![t].auth = auth]
    /\ UNCHANGED <<job, ledger, builder, inst, gh, orders, debits, spent>>

-----------------------------------------------------------------------------
(* The agent, and what its verdict leads to.                               *)

\* It crashed, timed out or gave no verdict.
AgentFails(t) ==
    /\ At(t, "agent")
    /\ RowRetried(t)
    /\ Ends(t)
    /\ UNCHANGED <<ledger, builder, inst, gh, orders, debits, spent>>

\* ACCEPT merges with the authority and the evidence read before the agent
\* was started; ACCEPT without it, ACCEPT-READY and everything that is not
\* a bounce is one phase row.
AgentAnswers(t) ==
    /\ At(t, "agent")
    /\ \/ run[t].auth /\ Goto(t, "merge")
       \/ Goto(t, "bounce")
       \/ run' = [run EXCEPT ![t].pc = "phase", ![t].phase = "ready"]
    /\ UNCHANGED <<job, ledger, builder, inst, gh, orders, debits, spent>>

Comes(t, phase) == run' = [run EXCEPT ![t].pc = "phase", ![t].phase = phase]

\* merge(), step 1 to 3: the head and the state of the PR are read again.
MergeReads(t) ==
    /\ At(t, "merge")
    /\ \/ ~OnHead(t) /\ Comes(t, "stale_head")
       \/ Comes(t, "ready")     \* not open, not mergeable, or not readable
       \/ OnHead(t) /\ gh.merged = 0 /\ Goto(t, "call")
    /\ UNCHANGED <<job, ledger, builder, inst, gh, orders, debits, spent>>

\* (mutant) the merge API is called without the expected sha.
MergeableUnpinned(t) == gh.merged = 0

\* GitHub compares sha=expected_sha with the head it is about to merge.
Mergeable(t) == gh.merged = 0 /\ OnHead(t)

\* Step 4; the answer may be lost.  The comment and the deletion of the head
\* branch that follow change nothing Neo reads again.
MergeCall(t) ==
    /\ At(t, "call")
    /\ \/ /\ Mergeable(t)
          /\ gh' = [gh EXCEPT !.merged = gh.head]
          /\ Comes(t, "merged") \/ Comes(t, "ready")
       \/ /\ ~OnHead(t) /\ Comes(t, "stale_head")
          /\ UNCHANGED gh
       \/ Comes(t, "ready") /\ UNCHANGED gh
    /\ UNCHANGED <<job, ledger, builder, inst, orders, debits, spent>>

BuilderRounds == {row.round : row \in {x \in ledger : x.phase = "builder"}}

\* builder_rounds: the highest round with a phase row.
NextRound == IF BuilderRounds = {} THEN 1
             ELSE 1 + CHOOSE r \in BuilderRounds : \A q \in BuilderRounds : q <= r

AlreadyEscalated == \E row \in ledger : row.phase = "escalated"

\* already_escalated and builder_rounds decide where a bounce goes.
BounceParks(t) ==
    /\ At(t, "bounce") /\ AlreadyEscalated
    /\ ledger' = ledger \cup {Row("parked", run[t].wake, 0)}
    /\ Comes(t, "parked")
    /\ UNCHANGED <<job, builder, inst, gh, orders, debits, spent>>

\* submit_escalation: the advice's own marker carries no colour; when the
\* advisor cannot be reached the PR is parked.
BounceEscalates(t) ==
    LET h == run[t].wake[1] IN
    /\ At(t, "bounce") /\ ~AlreadyEscalated /\ NextRound > Bounces
    /\ \E phase \in {"escalating", "parked"} :
          /\ ledger' = ledger \cup {Row(phase, <<h, FALSE>>, 0)}
          /\ Comes(t, phase)
    /\ UNCHANGED <<job, builder, inst, gh, orders, debits, spent>>

\* (mutant) the limit is compared after the round was counted.
BounceOrdersLate(t) ==
    /\ At(t, "bounce") /\ ~AlreadyEscalated /\ NextRound <= Bounces + 1
    /\ run' = [run EXCEPT ![t].pc = "order", ![t].round = NextRound]
    /\ UNCHANGED <<job, ledger, builder, inst, gh, orders, debits, spent>>

BounceOrders(t) ==
    /\ At(t, "bounce") /\ ~AlreadyEscalated /\ NextRound <= Bounces
    /\ run' = [run EXCEPT ![t].pc = "order", ![t].round = NextRound]
    /\ UNCHANGED <<job, ledger, builder, inst, gh, orders, debits, spent>>

\* (mutant) the phase row is written before the builder job.
OrderSkipped(t) ==
    /\ At(t, "order")
    /\ Comes(t, "builder")
    /\ UNCHANGED <<job, ledger, builder, inst, gh, orders, debits, spent>>

\* create_builder; None for a round that is already queued or running is not
\* looked at.
Order(t) ==
    LET r == run[t].round IN
    /\ At(t, "order")
    /\ builder' = [builder EXCEPT ![r] = "active"]
    /\ orders' = IF builder[r] = "active" THEN orders
                 ELSE [orders EXCEPT ![run[t].wake] = @ \cup {r}]
    /\ Comes(t, "builder")
    /\ UNCHANGED <<job, ledger, inst, gh, debits, spent>>

\* The phase row; a lane PR has one for a merge only and no marker.
PhaseRow(t) ==
    LET w == run[t].wake
        p == run[t].phase IN
    /\ At(t, "phase")
    /\ IF gh.lane
       THEN /\ ledger' = IF p = "merged" THEN ledger \cup {Row(p, <<w[1], FALSE>>, 0)} ELSE ledger
            /\ Ends(t)
       ELSE /\ ledger' = ledger \cup {Row(p, w, run[t].round)}
            /\ Goto(t, "marker")
    /\ UNCHANGED <<job, builder, inst, gh, orders, debits, spent>>

TriageMarker(t) ==
    /\ At(t, "marker")
    /\ ledger' = ledger \cup {Row("triage", run[t].wake, 0)}
    /\ Goto(t, "close")
    /\ UNCHANGED <<job, builder, inst, gh, orders, debits, spent>>

\* The row's outcome; whether it was still this run's row is not looked at.
Close(t) ==
    /\ At(t, "close")
    /\ RowEnds(t, "done")
    /\ IF inst.metered /\ run[t].phase # "none" THEN Goto(t, "debit") ELSE Ends(t)
    /\ UNCHANGED <<ledger, builder, inst, gh, orders, debits, spent>>

\* credits_for: the agent's tokens are priced after the run; a run without
\* usage data is free.
Debit(t) ==
    /\ At(t, "debit")
    /\ \E credits \in 0..MaxDebit : inst' = [inst EXCEPT !.balance = @ - credits]
    /\ debits' = [debits EXCEPT ![run[t].wake] = @ + 1]
    /\ Ends(t)
    /\ UNCHANGED <<job, ledger, builder, gh, orders, spent>>

-----------------------------------------------------------------------------
(* The environment.                                                        *)

Mishap == spent.lapses + spent.faults < MaxMishaps

Faults == Mishap /\ spent' = [spent EXCEPT !.faults = @ + 1]

\* A statement raises: the exception leaves run_neo, the row stays running.
RunRaises(t) ==
    /\ run[t] # Idle
    /\ Faults
    /\ Ends(t)
    /\ UNCHANGED <<job, ledger, builder, inst, gh, orders, debits>>

Crash ==
    /\ \E t \in Workers : run[t] # Idle
    /\ Faults
    /\ run' = [t \in Workers |-> Idle]
    /\ UNCHANGED <<job, ledger, builder, inst, gh, orders, debits>>

\* on_verdict's create_wake, for any head the PR has had.
Deliver(w) ==
    /\ w[1] <= gh.head
    /\ spent.deliveries < MaxDeliveries
    /\ spent' = [spent EXCEPT !.deliveries = @ + 1]
    /\ J!Creatable(job[w])
    /\ job' = [job EXCEPT ![w] = J!Created(@, TRUE)]
    /\ UNCHANGED <<ledger, builder, inst, gh, run, orders, debits>>

Worked(w) == \E t \in Workers : run[t].wake = w

LeaseExpires(w) ==
    /\ job[w].state = "running" /\ job[w].lease = "live"
    /\ \/ ~Worked(w) /\ UNCHANGED spent
       \/ /\ Worked(w) /\ Mishap
          /\ spent' = [spent EXCEPT !.lapses = @ + 1]
    /\ job' = [job EXCEPT ![w] = J!Lapsed(@)]
    /\ UNCHANGED <<ledger, builder, inst, gh, run, orders, debits>>

RenewLease(t) ==
    LET w == run[t].wake IN
    /\ At(t, "agent")
    /\ J!HeldBy(job[w], t) /\ job[w].lease = "expired"
    /\ job' = [job EXCEPT ![w] = J!Renewed(@)]
    /\ UNCHANGED <<ledger, builder, inst, gh, run, orders, debits, spent>>

\* The recovery loop: recover_expired and the park of an exhausted row (the
\* window between the two is WakeLane's).
Recover(w) ==
    /\ J!Recoverable(job[w])
    /\ job' = [job EXCEPT ![w] = IF J!Exhausted(@) THEN J!Parked(J!Recovered(@))
                                 ELSE J!Recovered(@)]
    /\ UNCHANGED <<ledger, builder, inst, gh, run, orders, debits, spent>>

\* An author, a builder or a fix-forward agent.
Push ==
    /\ gh.merged = 0
    /\ gh.head + 1 \in Heads
    /\ gh' = [gh EXCEPT !.head = @ + 1]
    /\ UNCHANGED <<job, ledger, builder, inst, run, orders, debits, spent>>

BuilderFinishes(r) ==
    /\ builder[r] = "active"
    /\ builder' = [builder EXCEPT ![r] = "done"]
    /\ UNCHANGED <<job, ledger, inst, gh, run, orders, debits, spent>>

\* recover_escalations: the markers are consumed and the advice is decided, or
\* given up.
AdvisorDecides ==
    LET markers == {row \in ledger : row.phase = "escalating"} IN
    \E row \in markers, phase \in {"escalated", "parked"} :
        /\ ledger' = (ledger \ markers) \cup {Row(phase, <<row.head, FALSE>>, 0)}
        /\ UNCHANGED <<job, builder, inst, gh, run, orders, debits, spent>>

-----------------------------------------------------------------------------
RunStep(t) ==
    \/ Drop(t) \/ DuplicateVerdict(t) \/ RestoreMarker(t)
    \/ CreditGate(t) \/ StaleHead(t) \/ Hold(t) \/ LaneGate(t)
    \/ \E auth \in BOOLEAN : StartAgent(t, auth)
    \/ AgentFails(t) \/ AgentAnswers(t) \/ MergeReads(t) \/ MergeCall(t)
    \/ BounceParks(t) \/ BounceEscalates(t) \/ BounceOrders(t) \/ Order(t)
    \/ PhaseRow(t) \/ TriageMarker(t) \/ Close(t) \/ Debit(t)

Environment ==
    \/ \E t \in Workers : RunRaises(t) \/ RenewLease(t)
    \/ \E w \in Wakes : Deliver(w) \/ LeaseExpires(w)
    \/ \E r \in Rounds : BuilderFinishes(r)
    \/ Crash \/ Push \/ AdvisorDecides

Next ==
    \/ \E t \in Workers : RunStep(t) \/ \E w \in Wakes : Claim(t, w)
    \/ \E w \in Wakes : Recover(w)
    \/ Environment

Spec == Init /\ [][Next]_vars

-----------------------------------------------------------------------------
(* Properties.                                                             *)

\* What is merged is exactly the head whose evidence the merging run found
\* complete, although an agent ran and heads were pushed between the reads
\* and the call (merge_executor.merge: "sha=expected_sha").
MergedHeadWasGreen ==
    [][gh'.merged # gh.merged =>
          \E t \in Workers : /\ At(t, "call") /\ run[t].auth
                             /\ run[t].wake[1] = gh'.merged]_vars

\* "The triage marker goes LAST: it vouches that the phase row and any builder
\* job above exist" (run_neo), whatever died or lapsed before it was written.
\* An advice that was settled meanwhile left its outcome instead.
MarkerVouches ==
    \A m \in ledger : m.phase = "triage" =>
        \E row \in ledger :
            /\ row.phase # "triage"
            /\ \/ row.head = m.head /\ row.green = m.green
               \/ row.phase \in {"escalated", "parked"}
            /\ row.phase = "builder" => builder[row.round] # "absent"

\* "Re-running the agent would mint a second builder round": a verdict whose
\* round is on record orders no other one, however often it is delivered and
\* wherever a run of it died, unless a lease has lapsed under a run.
OneRoundPerVerdict ==
    [][\A w \in Wakes : orders'[w] # orders[w] /\ orders[w] # {}
                        => ~ActedOn(w, "builder") \/ spent.lapses > 0]_vars

\* A verdict is paid for once, and once more for every lease that lapsed under
\* a run of it.
PaidOncePerVerdict == \A w \in Wakes : debits[w] <= 1 + spent.lapses

\* The balance is looked at before the agent runs and debited after, by an
\* amount nobody knew before: every pool thread can overdraw it by one run,
\* however expensive, and no more.
OverdraftBounded == inst.balance >= 1 - Cardinality(Workers) * MaxDebit

\* The rows, the leases and the runs as JobLease sees them.
OwnerOf == [w \in Wakes |-> IF job[w].state = "running" THEN job[w].token ELSE NoToken]
LapsedLeases == {w \in Wakes : job[w].state = "running" /\ job[w].lease = "expired"}
RunOf == [t \in Workers |-> IF At(t, "debit") THEN NoWake ELSE run[t].wake]

Lease == INSTANCE JobLease WITH
    Jobs <- Wakes, Claimants <- Workers, NoJob <- NoWake, NoOwner <- NoToken,
    owner <- OwnerOf, lapsed <- LapsedLeases, run <- RunOf

\* run_neo's claims, resolves, retries and parks implement JobLease: a run that
\* lost its wake changes nothing of the row when it ends.
LeaseRefined == Lease!LeaseSpec
=============================================================================
