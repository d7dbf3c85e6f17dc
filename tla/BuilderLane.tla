----------------------------- MODULE BuilderLane -----------------------------
(***************************************************************************)
(* The builder lane (src/src/neo_builder.py): one main thread that polls   *)
(* neo_jobs for builder rounds, supersedes stale rounds, checks the PR and *)
(* hands the round to a pool of dispatch threads, each of which runs a     *)
(* fixer agent in the PR's one worktree.                                   *)
(*                                                                         *)
(* A step is one SQL statement, one GitHub read that decides something, or *)
(* one event of an agent.  The worker that creates the rounds, the authors *)
(* who push, the clock and crashes are the environment.                    *)
(*                                                                         *)
(* Abstractions: heads of a PR are numbered in the order they first appear *)
(* and a force-push may bring an old one back; the claim takes the newest  *)
(* queued round of a PR, and which PR comes first is left open; whether a  *)
(* PR is closed, on a lane branch, or without an installation is decided   *)
(* at each read.  The token minted by claim_queued is the identity of the  *)
(* free slot the round is meant for.  release() is left out: the claim     *)
(* already excludes the keys its branch tests for.                         *)
(***************************************************************************)
EXTENDS Naturals, FiniteSets

CONSTANTS PRs,
          Slots,         \* threads of the dispatch pool (NEO_BUILDER_CONCURRENCY)
          NoJob, NoToken,
          MaxAttempts,
          MaxRounds,     \* cfg.max_builder_rounds
          Routes,        \* available routes of the chain; 0: one fixed route
          TopRound,      \* bound: round numbers
          MaxBounces,    \* bound: bounces of the worker
          MaxPushes,     \* bound: pushes to the PRs
          MaxLapses,     \* bound: leases that lapse under a dispatch
          MaxCrashes     \* bound: crashes, and exceptions of the main thread

ASSUME NullAssumption == NoToken \notin Slots
ASSUME MaxAttemptsAssumption == MaxAttempts \in Nat \ {0}
ASSUME BoundsAssumption ==
    /\ MaxRounds \in Nat /\ Routes \in Nat /\ TopRound \in Nat
    /\ MaxBounces \in Nat /\ MaxPushes \in Nat /\ MaxLapses \in Nat /\ MaxCrashes \in Nat

Jobs == PRs \X (1..TopRound)

ASSUME NoJobAssumption == NoJob \notin Jobs

VARIABLES
    job,      \* neo_jobs, kind='builder': one row per (PR, round)
    order,    \* the same rows' head_sha column and payload
    pr,       \* GitHub's head of each PR, the heads it has had, and builder_rounds
    main,     \* the main thread: position, rows to park, the claimed round
    slot,     \* the dispatch threads and the futures in `inflight`
    keys,     \* inflight_keys
    newest,   \* history: the newest round of each PR whose agent was started
    spent     \* bounded environment events

vars == <<job, order, pr, main, slot, keys, newest, spent>>

J == INSTANCE JobRow WITH Claimants <- Slots

IdleSlot == [pc |-> "idle", job |-> NoJob, tree |-> 0, before |-> 0,
             committed |-> FALSE, left |-> 0, verdict |-> "none"]

AtPoll == [pc |-> "poll", park |-> {}, job |-> NoJob, slot |-> NoToken]

\* "other" is NO-CHANGE, BLOCKED or a completed run without a canonical
\* verdict, "none" a chain that returned without any completed run.
Verdicts == {"FIXED", "other", "none"}

TypeOK ==
    /\ job \in [Jobs -> J!Rows]
    /\ order \in [Jobs -> [sha : Nat, escalated : BOOLEAN]]
    /\ pr \in [PRs -> [head : Nat, top : Nat, rounds : 0..TopRound]]
    /\ main \in [pc : {"poll", "fill", "claimed", "cleared", "wait", "dead"},
                 park : SUBSET Jobs, job : Jobs \cup {NoJob},
                 slot : Slots \cup {NoToken}]
    /\ main.pc \in {"claimed", "cleared"} <=> main.job \in Jobs
    /\ main.job \in Jobs => main.slot \in Slots
    /\ slot \in [Slots -> [pc : {"idle", "start", "ready", "agent", "ended", "finished"},
                           job : Jobs \cup {NoJob}, tree : Nat, before : Nat,
                           committed : BOOLEAN, left : Nat, verdict : Verdicts]]
    /\ \A d \in Slots : slot[d].pc # "idle" => slot[d].job \in Jobs
    /\ keys \subseteq PRs
    /\ newest \in [PRs -> 0..TopRound]
    /\ spent \in [bounces : Nat, pushes : Nat, lapses : Nat, crashes : Nat]

Init ==
    /\ job = [j \in Jobs |-> J!Absent]
    /\ order = [j \in Jobs |-> [sha |-> 0, escalated |-> FALSE]]
    /\ pr = [p \in PRs |-> [head |-> 1, top |-> 1, rounds |-> 0]]
    /\ main = AtPoll
    /\ slot = [d \in Slots |-> IdleSlot]
    /\ keys = {}
    /\ newest = [p \in PRs |-> 0]
    /\ spent = [bounces |-> 0, pushes |-> 0, lapses |-> 0, crashes |-> 0]

Crashes == spent.crashes < MaxCrashes /\ spent' = [spent EXCEPT !.crashes = @ + 1]

-----------------------------------------------------------------------------
(* The workers that order rounds for a PR: a bounce of run_neo, and the    *)
(* escalated round.  Each reads builder_rounds, orders the next round for  *)
(* the head it judged, current or not, and then records it.  The read is   *)
(* stale when another worker records in between, one head is ordered again *)
(* (another verdict colour, a wake re-run after its lease lapsed, an       *)
(* escalation), and the record is missing when the worker dies first or    *)
(* when the round is an escalated one, which builder_rounds does not count.*)

\* create_builder's upsert: a re-armed row keeps its head_sha column, whatever
\* head its new payload is for.
Ordered(j, h, escalated) ==
    [order EXCEPT ![j] = [sha |-> IF job[j].state = "absent" THEN h ELSE @.sha,
                          escalated |-> escalated]]

Bounce(p, h, n, escalated) ==
    /\ h <= pr[p].top
    /\ n <= pr[p].rounds + 1
    /\ IF J!Creatable(job[<<p, n>>])
       THEN /\ job' = [job EXCEPT ![<<p, n>>] = J!Created(@, FALSE)]
            /\ order' = Ordered(<<p, n>>, h, escalated)
       ELSE UNCHANGED <<job, order>>
    /\ escalated => n > MaxRounds         \* below the cap it changes nothing
    /\ spent.bounces < MaxBounces
    /\ spent' = [spent EXCEPT !.bounces = @ + 1]
    /\ \/ /\ ~escalated
          /\ pr' = [pr EXCEPT ![p].rounds = IF @ < n THEN n ELSE @]
       \/ UNCHANGED pr
    /\ UNCHANGED <<main, slot, keys, newest>>

-----------------------------------------------------------------------------
(* main: one pass of the loop.                                             *)

\* recover_expired and the list of exhausted rows it returned.
Recover ==
    LET expired == {j \in Jobs : J!Recoverable(job[j])} IN
    /\ main.pc = "poll"
    /\ job' = [j \in Jobs |-> IF j \in expired THEN J!Recovered(job[j]) ELSE job[j]]
    /\ main' = [main EXCEPT !.pc = "fill",
                            !.park = {j \in expired : J!Exhausted(job[j])}]
    /\ UNCHANGED <<order, pr, slot, keys, newest, spent>>

ParkRecovered(j) ==
    /\ main.pc = "fill" /\ j \in main.park
    /\ job' = [job EXCEPT ![j] = IF J!ParkableBare(@) THEN J!Parked(@) ELSE @]
    /\ main' = [main EXCEPT !.park = @ \ {j}]
    /\ UNCHANGED <<order, pr, slot, keys, newest, spent>>

\* (mutant) the claim does not exclude the PRs in flight.
ClaimableRoundAnyKey(j) ==
    /\ J!Claimable(job[j])
    /\ \A r \in 1..TopRound : J!Claimable(job[<<j[1], r>>]) => r <= j[2]

\* claim_queued: the newest queued round of a PR that is not in flight.
ClaimableRound(j) ==
    /\ J!Claimable(job[j])
    /\ j[1] \notin keys
    /\ \A r \in 1..TopRound : J!Claimable(job[<<j[1], r>>]) => r <= j[2]

Claim(d, j) ==
    /\ main.pc = "fill" /\ main.park = {}
    /\ slot[d].pc = "idle"
    /\ ClaimableRound(j)
    /\ job' = [job EXCEPT ![j] = J!Claimed(@, d)]
    /\ main' = [main EXCEPT !.pc = "claimed", !.job = j, !.slot = d]
    /\ UNCHANGED <<order, pr, slot, keys, newest, spent>>

SupersedeOlder ==
    LET older == {j \in Jobs : /\ j[1] = main.job[1] /\ j[2] < main.job[2]
                               /\ J!Supersedable(job[j])} IN
    /\ main.pc = "claimed"
    /\ job' = [j \in Jobs |-> IF j \in older THEN J!Superseded(job[j]) ELSE job[j]]
    /\ main' = [main EXCEPT !.pc = "cleared"]
    /\ UNCHANGED <<order, pr, slot, keys, newest, spent>>

\* (mutant) the loop goes on with the row it has dealt with.
BackToFillKeepingJob == main' = [main EXCEPT !.pc = "fill", !.slot = NoToken]

BackToFill == main' = [main EXCEPT !.pc = "fill", !.job = NoJob, !.slot = NoToken]

\* A statement about row j under token d; it misses a row that was lost.
RowEnds(j, d, outcome) ==
    job' = [job EXCEPT ![j] = IF J!HeldBy(@, d) THEN J!Resolved(@, outcome) ELSE @]

OverCap(j) == ~order[j].escalated /\ j[2] > MaxRounds

ParkOverCap ==
    /\ main.pc = "cleared" /\ OverCap(main.job)
    /\ job' = [job EXCEPT ![main.job] =
                   IF J!ParkableBy(@, main.slot) THEN J!Parked(@) ELSE @]
    /\ BackToFill
    /\ UNCHANGED <<order, pr, slot, keys, newest, spent>>

\* No installation; or the PR is closed or on a lane branch; or GitHub did
\* not answer and the row is left to its lease.
TurnAway ==
    /\ main.pc = "cleared" /\ ~OverCap(main.job)
    /\ \/ \E o \in {"no_installation", "no_change"} : RowEnds(main.job, main.slot, o)
       \/ UNCHANGED job
    /\ BackToFill
    /\ UNCHANGED <<order, pr, slot, keys, newest, spent>>

HandOver ==
    /\ main.pc = "cleared" /\ ~OverCap(main.job)
    /\ keys' = keys \cup {main.job[1]}
    /\ slot' = [slot EXCEPT ![main.slot] =
                   [IdleSlot EXCEPT !.pc = "start", !.job = main.job]]
    /\ BackToFill
    /\ UNCHANGED <<job, order, pr, newest, spent>>

\* The claim came back empty, or every slot is in use.
PoolFilled ==
    /\ main.pc = "fill" /\ main.park = {}
    /\ \/ \A j \in Jobs : ~ClaimableRound(j)
       \/ \A d \in Slots : slot[d].pc # "idle"
    /\ main' = [main EXCEPT !.pc = IF \E d \in Slots : slot[d].pc # "idle"
                                   THEN "wait" ELSE "poll"]
    /\ UNCHANGED <<job, order, pr, slot, keys, newest, spent>>

Done == {d \in Slots : slot[d].pc = "finished"}

\* (mutant) the finished future is popped, its key stays.
ReapKeepingKeys ==
    /\ main.pc = "wait" /\ Done # {}
    /\ slot' = [d \in Slots |-> IF d \in Done THEN IdleSlot ELSE slot[d]]
    /\ main' = [main EXCEPT !.pc = "poll"]
    /\ UNCHANGED <<job, order, pr, keys, newest, spent>>

\* wait(FIRST_COMPLETED), then every future that is done.
Reap ==
    /\ main.pc = "wait" /\ Done # {}
    /\ slot' = [d \in Slots |-> IF d \in Done THEN IdleSlot ELSE slot[d]]
    /\ keys' = keys \ {slot[d].job[1] : d \in Done}
    /\ main' = [main EXCEPT !.pc = "poll"]
    /\ UNCHANGED <<job, order, pr, newest, spent>>

-----------------------------------------------------------------------------
(* dispatch_one, on a pool thread, for the round in its slot.              *)

Finished(d) == slot' = [slot EXCEPT ![d] = [IdleSlot EXCEPT !.pc = "finished", !.job = slot[d].job]]

\* The same checks as in main, read again; a round over the cap never gets
\* here.
DispatchTurnedAway(d) ==
    /\ slot[d].pc = "start"
    /\ \E o \in {"no_installation", "no_change"} : RowEnds(slot[d].job, d, o)
    /\ Finished(d)
    /\ UNCHANGED <<order, pr, main, keys, newest, spent>>

\* A read or the worktree failed, or a statement raised: the row is left to
\* its lease.
LeaveRunning(d) ==
    /\ slot[d].pc \in {"start", "ready", "ended"}
    /\ Finished(d)
    /\ UNCHANGED <<job, order, pr, main, keys, newest, spent>>

PrepareWorktree(d) ==
    /\ slot[d].pc = "start"
    /\ slot' = [slot EXCEPT ![d].pc = "ready", ![d].tree = pr[slot[d].job[1]].head]
    /\ UNCHANGED <<job, order, pr, main, keys, newest, spent>>

\* head_moved
OnItsHead(d) == slot[d].tree = order[slot[d].job].sha

StaleRound(d) ==
    /\ slot[d].pc = "ready" /\ ~OnItsHead(d)
    /\ RowEnds(slot[d].job, d, "no_change")
    /\ Finished(d)
    /\ UNCHANGED <<order, pr, main, keys, newest, spent>>

\* fetch_findings found no trusted assessment of this head.
NoAssessment(d) ==
    /\ slot[d].pc = "ready" /\ OnItsHead(d)
    /\ RowEnds(slot[d].job, d, "no_change")
    /\ Finished(d)
    /\ UNCHANGED <<order, pr, main, keys, newest, spent>>

\* The dispatch note, head_before, and the agent.
Launch(d) ==
    LET p == slot[d].job[1] IN
    /\ slot[d].pc = "ready" /\ OnItsHead(d)
    /\ slot' = [slot EXCEPT ![d].pc = "agent", ![d].before = pr[p].head,
                            ![d].left = Routes]
    /\ newest' = [newest EXCEPT ![p] = IF @ < slot[d].job[2] THEN slot[d].job[2] ELSE @]
    /\ UNCHANGED <<job, order, pr, main, keys, spent>>

-----------------------------------------------------------------------------
(* The fixer agent in the worktree, and the chain of routes it is run on.  *)

AgentCommits(d) ==
    /\ slot[d].pc = "agent" /\ ~slot[d].committed
    /\ slot' = [slot EXCEPT ![d].committed = TRUE]
    /\ UNCHANGED <<job, order, pr, main, keys, newest, spent>>

\* The PR's branch moves to head h, a new one or one it had before.
Pushed(p, h) ==
    /\ spent.pushes < MaxPushes
    /\ spent' = [spent EXCEPT !.pushes = @ + 1]
    /\ pr' = [pr EXCEPT ![p].head = h, ![p].top = IF @ < h THEN h ELSE @]

\* The agent's push is refused when somebody else has pushed meanwhile.
AgentPushes(d) ==
    LET p == slot[d].job[1] IN
    /\ slot[d].pc = "agent" /\ slot[d].committed
    /\ pr[p].head = slot[d].tree
    /\ Pushed(p, pr[p].top + 1)
    /\ slot' = [slot EXCEPT ![d].tree = pr[p].top + 1]
    /\ UNCHANGED <<job, order, main, keys, newest>>

\* The agent call returns; its worktree and routes are forgotten.
Returned(d, verdict) ==
    [slot EXCEPT ![d].pc = "ended", ![d].verdict = verdict,
                 ![d].tree = 0, ![d].committed = FALSE, ![d].left = 0]

AgentCompletes(d, verdict) ==
    /\ slot[d].pc = "agent"
    /\ slot' = Returned(d, verdict)
    /\ UNCHANGED <<job, order, pr, main, keys, newest, spent>>

\* run_with_chain: a route that cannot run or fails over hands the reset
\* worktree to the next one.  The chain stops without a verdict after the
\* last route, or when the failed route had already committed.
RouteFallsThrough(d) ==
    /\ slot[d].pc = "agent" /\ slot[d].left > 0
    /\ slot' = IF slot[d].committed \/ slot[d].left = 1
               THEN Returned(d, "none")
               ELSE [slot EXCEPT ![d].left = @ - 1]
    /\ UNCHANGED <<job, order, pr, main, keys, newest, spent>>

\* An AgentError that must not fall through, or any other exception.
AgentFails(d) ==
    LET j == slot[d].job IN
    /\ slot[d].pc = "agent"
    /\ job' = [job EXCEPT ![j] = IF J!HeldBy(@, d) THEN J!Retried(@) ELSE @]
    /\ Finished(d)
    /\ UNCHANGED <<order, pr, main, keys, newest, spent>>

\* What the round came to: a moved head counts before any verdict.
RoundOutcome(d) ==
    IF pr[slot[d].job[1]].head # slot[d].before \/ slot[d].verdict = "FIXED"
    THEN "done" ELSE "no_change"

Conclude(d) ==
    /\ slot[d].pc = "ended"
    /\ RowEnds(slot[d].job, d, RoundOutcome(d))
    /\ Finished(d)
    /\ UNCHANGED <<order, pr, main, keys, newest, spent>>

\* lease_renewal, the timer thread beside the agent.
RenewLease(d) ==
    LET j == slot[d].job IN
    /\ slot[d].pc = "agent"
    /\ J!HeldBy(job[j], d) /\ job[j].lease = "expired"
    /\ job' = [job EXCEPT ![j] = J!Renewed(@)]
    /\ UNCHANGED <<order, pr, main, slot, keys, newest, spent>>

-----------------------------------------------------------------------------
(* The environment.                                                        *)

AuthorPushes(p) ==
    /\ \E h \in (1..pr[p].top + 1) \ {pr[p].head} : Pushed(p, h)
    /\ UNCHANGED <<job, order, main, slot, keys, newest>>

AtWork(j) ==
    \/ \E d \in Slots : slot[d].pc \notin {"idle", "finished"} /\ slot[d].job = j
    \/ main.job = j

\* A lease runs out by the clock; under a dispatch only when its renewals
\* fail or the work outside lease_renewal takes longer than the lease.
LeaseExpires(j) ==
    /\ job[j].state = "running" /\ job[j].lease = "live"
    /\ \/ ~AtWork(j) /\ UNCHANGED spent
       \/ /\ AtWork(j) /\ spent.lapses < MaxLapses
          /\ spent' = [spent EXCEPT !.lapses = @ + 1]
    /\ job' = [job EXCEPT ![j] = J!Lapsed(@)]
    /\ UNCHANGED <<order, pr, main, slot, keys, newest>>

\* A statement of the main thread raises.  Nothing catches it, but the
\* interpreter joins the pool's threads before the process can end.
MainRaises ==
    /\ main.pc # "dead"
    /\ Crashes
    /\ main' = [AtPoll EXCEPT !.pc = "dead"]
    /\ UNCHANGED <<job, order, pr, slot, keys, newest>>

Restarted ==
    /\ main' = AtPoll
    /\ slot' = [d \in Slots |-> IdleSlot]
    /\ keys' = {}
    /\ UNCHANGED <<job, order, pr, newest>>

RestartAfterRaise ==
    /\ main.pc = "dead"
    /\ \A d \in Slots : slot[d].pc \in {"idle", "finished"}
    /\ Restarted
    /\ UNCHANGED spent

\* The unit is stopped or killed, its agents with it, and started again.
Crash == Crashes /\ Restarted

-----------------------------------------------------------------------------
MainStep ==
    \/ Recover \/ SupersedeOlder \/ ParkOverCap \/ TurnAway \/ HandOver
    \/ PoolFilled \/ Reap
    \/ \E j \in Jobs : ParkRecovered(j) \/ \E d \in Slots : Claim(d, j)

SlotStep(d) ==
    \/ DispatchTurnedAway(d) \/ LeaveRunning(d) \/ PrepareWorktree(d)
    \/ StaleRound(d) \/ NoAssessment(d) \/ Launch(d)
    \/ AgentFails(d) \/ RouteFallsThrough(d) \/ Conclude(d)
    \/ \E v \in {"FIXED", "other"} : AgentCompletes(d, v)

AgentStep(d) == AgentCommits(d) \/ AgentPushes(d) \/ RenewLease(d)

Environment ==
    \/ \E p \in PRs : AuthorPushes(p)
    \/ \E p \in PRs, h \in 1..MaxPushes + 1, n \in 1..TopRound, e \in BOOLEAN : Bounce(p, h, n, e)
    \/ \E j \in Jobs : LeaseExpires(j)
    \/ MainRaises \/ RestartAfterRaise \/ Crash

Next ==
    \/ MainStep
    \/ \E d \in Slots : SlotStep(d) \/ AgentStep(d)
    \/ Environment

Spec == Init /\ [][Next]_vars

\* Threads that can step do, an agent's own timeout ends it, an unrenewed
\* lease expires, and systemd starts a process that went away.
Fairness ==
    /\ WF_vars(MainStep)
    /\ \A d \in Slots : WF_vars(SlotStep(d))
    /\ \A j \in Jobs : WF_vars(~AtWork(j) /\ LeaseExpires(j))
    /\ WF_vars(RestartAfterRaise)

LiveSpec == Spec /\ Fairness

-----------------------------------------------------------------------------
(* Properties.                                                             *)

Dispatching(d) == slot[d].pc \notin {"idle", "finished"}

\* Two dispatches of one PR would share a worktree, and the second would
\* delete it under the first one's agent: never, whatever rounds are queued,
\* lapsed, recovered or re-claimed meanwhile.
WorktreeExclusive ==
    \A d, e \in Slots : Dispatching(d) /\ Dispatching(e) /\ slot[d].job[1] = slot[e].job[1]
                        => d = e

\* "a stale round never runs after a newer one exists" (neo_builder.py:14-16):
\* no agent is started for a round once an agent of a newer round of the PR was.
NewestAgentWins ==
    [][\A d \in Slots : (slot[d].pc = "ready" /\ slot'[d].pc = "agent")
                        => slot[d].job[2] >= newest[slot[d].job[1]]]_vars

\* Retries, recoveries and lapses together never run one order of a round
\* more than max_attempts times; a crash between the recovery of an exhausted
\* row and its park buys one more.
AttemptsBounded == \A j \in Jobs : job[j].attempt <= MaxAttempts + spent.crashes

\* Every queued round is eventually settled: claimed and worked, superseded,
\* or parked at the cap, through lapses, exceptions and restarts.
RoundsSettle == \A j \in Jobs : (job[j].state = "queued") ~> (job[j].state = "done")

\* The rows, the leases and the dispatches as JobLease sees them.
OwnerOf == [j \in Jobs |-> IF job[j].state = "running" THEN job[j].token ELSE NoToken]
LapsedLeases == {j \in Jobs : job[j].state = "running" /\ job[j].lease = "expired"}
RunOf == [d \in Slots |-> IF Dispatching(d) THEN slot[d].job
                          ELSE IF main.slot = d THEN main.job ELSE NoJob]

Lease == INSTANCE JobLease WITH
    Jobs <- Jobs, Claimants <- Slots, NoOwner <- NoToken,
    owner <- OwnerOf, lapsed <- LapsedLeases, run <- RunOf

\* The lane's statements implement JobLease: a dispatch that lost its round to
\* the recovery changes nothing when it ends, and superseding, parking and
\* re-arming never break a live lease.
LeaseRefined == Lease!LeaseSpec
=============================================================================
