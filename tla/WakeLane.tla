------------------------------ MODULE WakeLane ------------------------------
(***************************************************************************)
(* The wake lane of the Neo service (src/src/__main__.py): webhook threads *)
(* persist a verdict as a durable wake job and hand it to a thread pool,   *)
(* pool threads claim and work it (the job side of run_neo), and one       *)
(* recovery thread re-queues expired leases and re-submits orphans.        *)
(*                                                                         *)
(* Each database statement and each executor hand-off is a step of its     *)
(* own, so every interleaving of the threads, a restart between any two    *)
(* steps, and a failing statement are behaviours of the model.             *)
(***************************************************************************)
EXTENDS Naturals, FiniteSets

CONSTANTS Wakes,          \* (repo, head_sha, color): the wake keys
          Workers,        \* threads of the executor (NEO_MAX_WORKERS)
          Handlers,       \* threads of the webhook server
          Sweeper,        \* the recovery thread, when it hands a wake over
          NoWake, NoToken,
          MaxAttempts,
          MaxDeliveries,  \* bound: verdict events delivered
          MaxOutages,     \* bound: failing statements
          MaxLapses,      \* bound: leases that lapse under a live claimant
          MaxRestarts     \* bound: process restarts

ASSUME ThreadsAssumption == Sweeper \notin Handlers
ASSUME NullAssumption == NoWake \notin Wakes /\ NoToken \notin Workers
ASSUME WorkersAssumption == IsFiniteSet(Workers)
ASSUME MaxAttemptsAssumption == MaxAttempts \in Nat \ {0}
ASSUME BoundsAssumption ==
    /\ MaxDeliveries \in Nat /\ MaxOutages \in Nat
    /\ MaxLapses \in Nat /\ MaxRestarts \in Nat

VARIABLES
    row,         \* neo_jobs, kind='wake'
    pool,        \* tasks waiting in the executor, per wake
    worker,      \* what each pool thread is doing
    hand,        \* each submitter's progress through _submit_wake
    sweep,       \* the recovery thread's position and its local row lists
    closing,     \* the executor refuses new tasks (interpreter shutting down)
    deliveries, outages, lapses, restarts   \* bounded environment events

vars == <<row, pool, worker, hand, sweep, closing, deliveries, outages, lapses, restarts>>

J == INSTANCE JobRow WITH Claimants <- Workers

Submitters == Handlers \cup {Sweeper}

IdleWorker == [pc |-> "idle", wake |-> NoWake]
IdleHand == [pc |-> "idle", wake |-> NoWake]

TypeOK ==
    /\ row \in [Wakes -> J!Rows]
    /\ pool \in [Wakes -> Nat]
    /\ worker \in [Workers -> [pc : {"idle", "started", "claimed"},
                               wake : Wakes \cup {NoWake}]]
    /\ \A w \in Workers : worker[w].pc # "idle" => worker[w].wake \in Wakes
    /\ hand \in [Submitters -> [pc : {"idle", "submit", "stamp"},
                                wake : Wakes \cup {NoWake}]]
    /\ \A s \in Submitters : hand[s].pc # "idle" => hand[s].wake \in Wakes
    /\ sweep \in [pc : {"boot", "sleep", "recovered", "stale"},
                  park : SUBSET Wakes, todo : SUBSET Wakes]
    /\ closing \in BOOLEAN
    /\ deliveries \in Nat /\ outages \in Nat /\ lapses \in Nat /\ restarts \in Nat

Init ==
    /\ row = [k \in Wakes |-> J!Absent]
    /\ pool = [k \in Wakes |-> 0]
    /\ worker = [w \in Workers |-> IdleWorker]
    /\ hand = [s \in Submitters |-> IdleHand]
    /\ sweep = [pc |-> "boot", park |-> {}, todo |-> {}]
    /\ closing = FALSE
    /\ deliveries = 0 /\ outages = 0 /\ lapses = 0 /\ restarts = 0

Outage == outages < MaxOutages /\ outages' = outages + 1

-----------------------------------------------------------------------------
(* on_verdict, on a webhook thread: the wake is persisted first.  A wake   *)
(* that an active job already owns is dropped as a duplicate.              *)

OnVerdict(h, k) ==
    /\ hand[h].pc = "idle"
    /\ deliveries < MaxDeliveries
    /\ deliveries' = deliveries + 1
    /\ IF J!Creatable(row[k])
       THEN /\ row' = [row EXCEPT ![k] = J!Created(@, TRUE)]
            /\ hand' = [hand EXCEPT ![h] = [pc |-> "submit", wake |-> k]]
       ELSE UNCHANGED <<row, hand>>
    /\ UNCHANGED <<pool, worker, sweep, closing, outages, lapses, restarts>>

\* create_wake raises, before or after its transaction took effect: on_verdict
\* ends without a hand-off and the webhook answers 500 (webhook_server.py:161).
OnVerdictRaises(h, k) ==
    /\ hand[h].pc = "idle"
    /\ deliveries < MaxDeliveries
    /\ deliveries' = deliveries + 1
    /\ Outage
    /\ \/ J!Creatable(row[k]) /\ row' = [row EXCEPT ![k] = J!Created(@, TRUE)]
       \/ UNCHANGED row
    /\ UNCHANGED <<pool, worker, hand, sweep, closing, lapses, restarts>>

(* _submit_wake, on a webhook thread or on the recovery thread: hand the   *)
(* task to the executor, then stamp the row.                               *)

Submit(s) ==
    /\ hand[s].pc = "submit"
    /\ ~closing
    /\ pool' = [pool EXCEPT ![hand[s].wake] = @ + 1]
    /\ hand' = [hand EXCEPT ![s].pc = "stamp"]
    /\ UNCHANGED <<row, worker, sweep, closing, deliveries, outages, lapses, restarts>>

SubmitRejected(s) ==
    /\ hand[s].pc = "submit"
    /\ closing
    /\ hand' = [hand EXCEPT ![s] = IdleHand]
    /\ \/ /\ row' = [row EXCEPT ![hand[s].wake] = J!Stamped(@, FALSE)]
          /\ UNCHANGED outages
       \/ Outage /\ UNCHANGED row       \* clear_submitted failed, logged
    /\ UNCHANGED <<pool, worker, sweep, closing, deliveries, lapses, restarts>>

MarkSubmitted(s) ==
    /\ hand[s].pc = "stamp"
    /\ row' = [row EXCEPT ![hand[s].wake] = J!Stamped(@, TRUE)]
    /\ hand' = [hand EXCEPT ![s] = IdleHand]
    /\ UNCHANGED <<pool, worker, sweep, closing, deliveries, outages, lapses, restarts>>

MarkSubmittedFails(s) ==
    /\ hand[s].pc = "stamp"
    /\ Outage
    /\ hand' = [hand EXCEPT ![s] = IdleHand]
    /\ UNCHANGED <<row, pool, worker, sweep, closing, deliveries, lapses, restarts>>

-----------------------------------------------------------------------------
(* run_neo, on a pool thread, seen from the job row.                       *)

StartTask(w, k) ==
    /\ worker[w].pc = "idle"
    /\ pool[k] > 0
    /\ pool' = [pool EXCEPT ![k] = @ - 1]
    /\ worker' = [worker EXCEPT ![w] = [pc |-> "started", wake |-> k]]
    /\ UNCHANGED <<row, hand, sweep, closing, deliveries, outages, lapses, restarts>>

\* Every branch of run_neo claims before it touches the row: the triage run,
\* the no-installation refusal and the retryable pre-claim failures alike.
Claim(w) ==
    LET k == worker[w].wake IN
    /\ worker[w].pc = "started"
    /\ J!Claimable(row[k])
    /\ row' = [row EXCEPT ![k] = J!Claimed(@, w)]
    /\ worker' = [worker EXCEPT ![w].pc = "claimed"]
    /\ UNCHANGED <<pool, hand, sweep, closing, deliveries, outages, lapses, restarts>>

ClaimRefused(w) ==
    /\ worker[w].pc = "started"
    /\ ~J!Claimable(row[worker[w].wake])
    /\ worker' = [worker EXCEPT ![w] = IdleWorker]
    /\ UNCHANGED <<row, pool, hand, sweep, closing, deliveries, outages, lapses, restarts>>

\* The claim statement raises: _run_wake logs the exception and the task ends.
ClaimFails(w) ==
    /\ worker[w].pc = "started"
    /\ Outage
    /\ worker' = [worker EXCEPT ![w] = IdleWorker]
    /\ UNCHANGED <<row, pool, hand, sweep, closing, deliveries, lapses, restarts>>

\* The claimed run ends: terminal outcome, retry, or park on empty credits,
\* each hitting the row only while this thread's token is on it.
Finish(w) ==
    LET k == worker[w].wake IN
    /\ worker[w].pc = "claimed"
    /\ worker' = [worker EXCEPT ![w] = IdleWorker]
    /\ \/ /\ J!HeldBy(row[k], w)
          /\ \/ \E o \in {"done", "no_change", "no_installation"} :
                    row' = [row EXCEPT ![k] = J!Resolved(@, o)]
             \/ row' = [row EXCEPT ![k] = J!Retried(@)]
       \/ /\ J!ParkableBy(row[k], w)
          /\ row' = [row EXCEPT ![k] = J!Parked(@)]
       \/ /\ ~J!HeldBy(row[k], w)
          /\ UNCHANGED row
    /\ UNCHANGED <<pool, hand, sweep, closing, deliveries, outages, lapses, restarts>>

\* (mutant) the thread forgets its wake but not that it claimed it.
LeaveRunningHalfway(w) ==
    /\ worker[w].pc = "claimed"
    /\ worker' = [worker EXCEPT ![w].wake = NoWake]
    /\ UNCHANGED <<row, pool, hand, sweep, closing, deliveries, outages, lapses, restarts>>

\* run_neo returns without resolving: a lane PR was held or merged, an
\* architect or drift status woke a non-lane PR, or an exception escaped.
\* The row stays running until its lease expires.
LeaveRunning(w) ==
    /\ worker[w].pc = "claimed"
    /\ worker' = [worker EXCEPT ![w] = IdleWorker]
    /\ UNCHANGED <<row, pool, hand, sweep, closing, deliveries, outages, lapses, restarts>>

\* lease_renewal, the timer thread beside a claimed run.
RenewLease(w) ==
    LET k == worker[w].wake IN
    /\ worker[w].pc = "claimed"
    /\ J!HeldBy(row[k], w)
    /\ row[k].lease = "expired"
    /\ row' = [row EXCEPT ![k] = J!Renewed(@)]
    /\ UNCHANGED <<pool, worker, hand, sweep, closing, deliveries, outages, lapses, restarts>>

-----------------------------------------------------------------------------
(* Time.  A lease nobody renews expires; one whose claimant is alive does  *)
(* so only when its renewals keep failing, or when the part of the run     *)
(* outside lease_renewal takes longer than the lease.                      *)

Renewing(k) ==
    \E w \in Workers : /\ worker[w] = [pc |-> "claimed", wake |-> k]
                       /\ row[k].token = w

LeaseExpires(k) ==
    /\ row[k].state = "running" /\ row[k].lease = "live"
    /\ \/ ~Renewing(k) /\ UNCHANGED lapses
       \/ Renewing(k) /\ lapses < MaxLapses /\ lapses' = lapses + 1
    /\ row' = [row EXCEPT ![k] = J!Lapsed(@)]
    /\ UNCHANGED <<pool, worker, hand, sweep, closing, deliveries, outages, restarts>>

-----------------------------------------------------------------------------
(* _recovery_loop.  It hands one wake over at a time through _submit_wake, *)
(* and takes its next step only when that hand-off has returned.           *)

SweepAt(pc) == sweep.pc = pc /\ hand[Sweeper].pc = "idle"

ResetSubmissions ==
    /\ SweepAt("boot")
    /\ row' = [k \in Wakes |-> IF row[k].state = "queued"
                               THEN J!Stamped(row[k], FALSE) ELSE row[k]]
    /\ sweep' = [sweep EXCEPT !.pc = "sleep"]
    /\ UNCHANGED <<pool, worker, hand, closing, deliveries, outages, lapses, restarts>>

\* The start-up reset raises: logged, never tried again in this process.
ResetFails ==
    /\ SweepAt("boot")
    /\ Outage
    /\ sweep' = [sweep EXCEPT !.pc = "sleep"]
    /\ UNCHANGED <<row, pool, worker, hand, closing, deliveries, lapses, restarts>>

\* One UPDATE re-queues every expired run; the attempt counts it returned
\* decide, row by row and later, between a park and a fresh hand-off.
RecoverExpired ==
    LET expired == {k \in Wakes : J!Recoverable(row[k])} IN
    /\ SweepAt("sleep")
    /\ row' = [k \in Wakes |-> IF k \in expired THEN J!Recovered(row[k]) ELSE row[k]]
    /\ sweep' = [pc |-> "recovered",
                 park |-> {k \in expired : J!Exhausted(row[k])},
                 todo |-> {k \in expired : ~J!Exhausted(row[k])}]
    /\ UNCHANGED <<pool, worker, hand, closing, deliveries, outages, lapses, restarts>>

ParkRecovered(k) ==
    /\ SweepAt("recovered")
    /\ k \in sweep.park
    /\ row' = [row EXCEPT ![k] = IF J!ParkableBare(@) THEN J!Parked(@) ELSE @]
    /\ sweep' = [sweep EXCEPT !.park = @ \ {k}]
    /\ UNCHANGED <<pool, worker, hand, closing, deliveries, outages, lapses, restarts>>

Resubmit(k) ==
    /\ \/ SweepAt("recovered")
       \/ SweepAt("stale")
    /\ k \in sweep.todo
    /\ sweep' = [sweep EXCEPT !.todo = @ \ {k}]
    /\ hand' = [hand EXCEPT ![Sweeper] = [pc |-> "submit", wake |-> k]]
    /\ UNCHANGED <<row, pool, worker, closing, deliveries, outages, lapses, restarts>>

\* (mutant) the SELECT asks for the stamped rows.
StaleQueuedInverted ==
    /\ SweepAt("recovered")
    /\ sweep.park = {} /\ sweep.todo = {}
    /\ sweep' = [pc |-> "stale", park |-> {},
                 todo |-> {k \in Wakes : row[k].state = "queued" /\ row[k].submitted}]
    /\ UNCHANGED <<row, pool, worker, hand, closing, deliveries, outages, lapses, restarts>>

\* stale_queued: the queued wakes without a stamp, as one SELECT saw them.
\* (Its age floor and its LIMIT 100 only delay a row to a later pass.)
StaleQueued ==
    /\ SweepAt("recovered")
    /\ sweep.park = {} /\ sweep.todo = {}
    /\ sweep' = [pc |-> "stale", park |-> {},
                 todo |-> {k \in Wakes : row[k].state = "queued" /\ ~row[k].submitted}]
    /\ UNCHANGED <<row, pool, worker, hand, closing, deliveries, outages, lapses, restarts>>

PassEnds ==
    /\ SweepAt("stale")
    /\ sweep.todo = {}
    /\ sweep' = [sweep EXCEPT !.pc = "sleep"]
    /\ UNCHANGED <<row, pool, worker, hand, closing, deliveries, outages, lapses, restarts>>

\* A statement of the pass raises: the loop logs it and sleeps again, and
\* the rows it had not reached yet are dropped from its local lists.
PassAborted ==
    /\ \/ SweepAt("recovered")
       \/ SweepAt("stale")
    /\ Outage
    /\ sweep' = [pc |-> "sleep", park |-> {}, todo |-> {}]
    /\ UNCHANGED <<row, pool, worker, hand, closing, deliveries, lapses, restarts>>

-----------------------------------------------------------------------------
(* The process.  A shutdown first refuses new tasks; a restart (or a crash *)
(* and the supervisor's restart) loses every thread and waiting task.      *)

Shutdown ==
    /\ ~closing
    /\ restarts < MaxRestarts
    /\ closing' = TRUE
    /\ UNCHANGED <<row, pool, worker, hand, sweep, deliveries, outages, lapses, restarts>>

Restart ==
    /\ restarts < MaxRestarts
    /\ restarts' = restarts + 1
    /\ closing' = FALSE
    /\ pool' = [k \in Wakes |-> 0]
    /\ worker' = [w \in Workers |-> IdleWorker]
    /\ hand' = [s \in Submitters |-> IdleHand]
    /\ sweep' = [pc |-> "boot", park |-> {}, todo |-> {}]
    /\ UNCHANGED <<row, deliveries, outages, lapses>>

-----------------------------------------------------------------------------
HandlerStep(h) == \E k \in Wakes : OnVerdict(h, k) \/ OnVerdictRaises(h, k)

SubmitterStep(s) ==
    Submit(s) \/ SubmitRejected(s) \/ MarkSubmitted(s) \/ MarkSubmittedFails(s)

WorkerStep(w) ==
    \/ \E k \in Wakes : StartTask(w, k)
    \/ Claim(w) \/ ClaimRefused(w) \/ ClaimFails(w)
    \/ Finish(w) \/ LeaveRunning(w) \/ RenewLease(w)

SweepStep ==
    \/ ResetSubmissions \/ ResetFails \/ RecoverExpired
    \/ StaleQueued \/ PassEnds \/ PassAborted
    \/ \E k \in Wakes : ParkRecovered(k) \/ Resubmit(k)

Next ==
    \/ \E h \in Handlers : HandlerStep(h)
    \/ \E s \in Submitters : SubmitterStep(s)
    \/ \E w \in Workers : WorkerStep(w)
    \/ SweepStep
    \/ \E k \in Wakes : LeaseExpires(k)
    \/ Shutdown
    \/ Restart

Spec == Init /\ [][Next]_vars

\* A thread that can step does; the agent's own timeout ends a claimed run;
\* an unrenewed lease expires; the executor's queue is FIFO, so a waiting
\* task is not passed over for ever; a closing process goes away.
Fairness ==
    /\ \A s \in Submitters : WF_vars(Submit(s) \/ SubmitRejected(s) \/ MarkSubmitted(s))
    /\ \A k \in Wakes : SF_vars(\E w \in Workers : StartTask(w, k))
    /\ \A w \in Workers : WF_vars(Claim(w) \/ ClaimRefused(w)
                                  \/ Finish(w) \/ LeaveRunning(w))
    /\ \A k \in Wakes : WF_vars(~Renewing(k) /\ LeaseExpires(k))
    /\ WF_vars(ResetSubmissions \/ RecoverExpired \/ StaleQueued \/ PassEnds
               \/ \E k \in Wakes : ParkRecovered(k) \/ Resubmit(k))
    /\ WF_vars(closing /\ Restart)

LiveSpec == Spec /\ Fairness

-----------------------------------------------------------------------------
(* Properties.                                                             *)

\* A queued wake that nothing in this process will ever look at again: its
\* stamp hides it from stale_queued, a re-delivery is refused as a duplicate,
\* and no task or thread is on its way to claim it.
Orphan(k) ==
    /\ row[k].state = "queued" /\ row[k].submitted
    /\ pool[k] = 0
    /\ \A w \in Workers : worker[w] # [pc |-> "started", wake |-> k]
    /\ \A s \in Submitters : hand[s] # [pc |-> "submit", wake |-> k]
    /\ sweep.pc # "boot" /\ ~closing

\* The hand-off protocol of __main__.py strands a wake in exactly four ways:
\* the stamp of its own hand-off landing after the task already ran, the claim
\* statement of its last task raising, its create_wake committing the stamp and
\* then raising, and the start-up reset raising.  Any other order of submit,
\* stamp, claim, retry, recovery, shutdown and restart leaves every queued wake
\* either unstamped or with a task underway.
StrandedOnlyBy ==
    [][\A k \in Wakes : (~Orphan(k) /\ Orphan(k)') =>
          \/ \E s \in Submitters : hand[s].wake = k /\ MarkSubmitted(s)
          \/ \E w \in Workers : worker[w].wake = k /\ ClaimFails(w)
          \/ \E h \in Handlers : OnVerdictRaises(h, k)
          \/ ResetFails]_vars

Working(w, k) == worker[w] = [pc |-> "claimed", wake |-> k]

\* Two pool threads triage one verdict at the same time only if some lease
\* lapsed under its live claimant: neither duplicate hand-offs, re-deliveries,
\* recovery passes nor restarts get past claim()'s state = 'queued'.
ExclusiveUnlessLapsed ==
    lapses = 0 => \A w1, w2 \in Workers, k \in Wakes :
                      Working(w1, k) /\ Working(w2, k) => w1 = w2

\* A row carries a lease and a claimant exactly while it is running; a lease
\* left on a queued row would hide it from every claim.
LeasedWhileRunning ==
    \A k \in Wakes :
        /\ row[k].state = "running" <=> row[k].lease # "none"
        /\ row[k].state = "running" => row[k].token \in Workers

\* The row, the leases and the pool threads as JobLease sees them.
OwnerOf == [k \in Wakes |-> IF row[k].state = "running" THEN row[k].token ELSE NoToken]
LapsedLeases == {k \in Wakes : row[k].state = "running" /\ row[k].lease = "expired"}
RunOf == [w \in Workers |-> IF worker[w].pc = "claimed" THEN worker[w].wake ELSE NoWake]

Lease == INSTANCE JobLease WITH
    Jobs <- Wakes, Claimants <- Workers, NoJob <- NoWake, NoOwner <- NoToken,
    owner <- OwnerOf, lapsed <- LapsedLeases, run <- RunOf

\* The claimant gates of jobs.py implement JobLease: a live lease is ended by
\* nobody but its own claimant, and a claimant that lost its row to another
\* one changes no ownership when it finally resolves, retries or parks.
LeaseRefined == Lease!LeaseSpec

\* A wake is claimed at most max_attempts times per delivery: retry() and the
\* recovery pass both park at the cap (jobs.py, __main__.py).
AttemptCap == \A k \in Wakes : row[k].attempt <= MaxAttempts

\* Every queued verdict gets an outcome, unless the hand-off protocol lost it.
QueuedSettlesUnlessOrphaned ==
    \A k \in Wakes : (row[k].state = "queued") ~> (row[k].state = "done" \/ Orphan(k))

\* "a crashed worker or a restarted process cannot strand a head SHA"
\* (__main__.py:15-16).
NoStrandedWake ==
    \A k \in Wakes : (row[k].state = "queued") ~> (row[k].state = "done")
=============================================================================
