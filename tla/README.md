# rhobear-neo: TLA+ models and proofs

rhobear-neo is a pull-request bot. A GitHub webhook wakes it with a review
verdict; a worker triages the verdict with an agent, merges, sends the PR to a
builder agent, or, after enough bounced rounds, asks a frontier advisor for a
plan. A second service (Kronos) watches for stuck PRs and may rule on them.
All coordination goes through two Postgres tables, `neo_jobs` and
`neo_actions`. This directory models that coordination.

## 1. Inventory

| component (source) | state it keeps | operations | talks to |
|---|---|---|---|
| durable job store (`src/jobs.py`) | `neo_jobs` rows: state, outcome, attempt, lease, worker token, submitted stamp | create, claim, resolve, retry, park, lease renewal, recover_expired, stale_queued, supersede_older | everyone, by SQL |
| wake lane (`src/__main__.py`, `src/webhook_server.py`) | thread pool, its waiting tasks, recovery loop's local lists | on_verdict, _submit_wake, _run_wake, _recovery_loop | job store, triage worker, escalation |
| triage worker (`src/neo_worker.py`) | nothing of its own; local variables of a run | run_neo: gate, credits, agent, merge / builder / escalate, phase row, triage marker | both tables, GitHub, agents, advisor |
| escalation (`src/escalation.py`) | nothing of its own | submit_escalation, recover_escalations, escalate_pr, repair, park | `neo_actions`, job store, advisor |
| action ledger (`src/neo_state.py`) | `neo_actions`, credits | record, already_acted, take/clear/reclaim markers, decision lookups | — |
| builder lane (`src/neo_builder.py`) | in-flight futures and keys | claim_queued, dispatch, supersede, recover | job store, agents, GitHub |
| Kronos (`src/kronos/`) | pass lock, one state file (judged marks, outbox, cursor, open alerts) | checks, alerts, judge sweep, escalate/stop with compare-and-set, outbox, resolution | `neo_actions`, `neo_jobs`, advisor |
| advisor service (`advisor/server.py`) | in-memory queue and results, one worker | submit, poll, retention | escalation, Kronos |
| merge executor (`src/merge_executor.py`, evidence modules) | — | two-green gate, merge at a head | GitHub |
| agents, usage, config, GitHub App, redaction, deploy | usage rows | run, record, parse | — |

### What is hard here

* Several threads and three processes change one row with single statements; a
  thread acts on what it read some statements ago.
* A statement may raise after it took effect, so a handler that failed may
  have done its work.
* The service is restarted by systemd at any time and its pool tasks are lost.
* Leases, stale windows and advisor timeouts race with the late answer.
* Ordering is by row id, and a row may be written late.

### Properties that make each part correct

* Job store: a live lease is ended by its own claimant only; a stale claimant
  changes nothing; the attempt cap.
* Wake lane: every persisted verdict is worked or parked; no verdict is worked
  twice at once; a hand-off is never lost.
* Escalation: one decision per advice, no contradictory outcome, no gap without
  a marker, no lost round, no round for a stale head, one escalated round,
  markers go away.
* Builder lane: one agent per worktree, attempts are bounded, every round
  settles. That the newest round wins the code promises and does not keep
  (findings), nor that an order reaches an agent unless its head has moved
  (observations).
* Triage: a verdict is paid once and orders one round in spite of retries, its
  marker vouches for what it says, an install overdraws by what the runs in
  flight cost and no more.
* Merge gate: what is merged is the head that was green.
* Kronos: one pass at a time; a ruling is told, and told once but for faults;
  every quiet loop is judged; one issue per problem, closed when it is gone, as
  far as the search for it reaches (observations).
* Advisor (planned): an accepted advice is answered or forgotten, the queue is bounded.

`PROJECT.json` lists every hazard with its line and the properties aimed at it.

## 2. Modules

| module | what it is |
|---|---|
| `JobRow` | one `neo_jobs` row and the effect of each SQL statement on it, with its WHERE clause as a predicate |
| `JobLease` | abstract: who owns a job, whose lease has lapsed, who runs it |
| `WakeLane` | webhook threads, pool threads and the recovery loop over `JobRow` |
| `WakeLaneProofs` | theorems about `WakeLane` |
| `AdviceLedger` | abstract: what the advisor says of an advice, what became of it, the round it ordered |
| `Escalation` | `neo_actions` of one PR, its workers, the escalation pass, Kronos's writes |
| `EscalationProofs` | theorems about `Escalation` |
| `BuilderLane` | the builder service: main loop, dispatch threads, agents, the worktree and the PR's head, over `JobRow` |
| `BuilderLaneProofs` | theorems about `BuilderLane` |
| `TriageProofs` | theorems about `Triage` |
| `Triage` | the runs of one PR's wakes through run_neo, merge executor and credits included, over `JobRow` |
| `Kronos` | passes of the watchdog: checks, alerts, outbox, judge sweep, state file, rulings, issues |
| `KronosProofs` | theorems about `Kronos` |
| `MCWakeLane`, `MCEscalation`, `MCBuilderLane`, `MCTriage`, `MCKronos` | instances for TLC: values, symmetry sets, views |

Composition. `JobRow` is shared: `WakeLane`, `BuilderLane` and `Triage` are
three users of the same statements, and each is shown to implement the abstract
lease protocol `JobLease` (property `LeaseRefined`). `Escalation` implements the
abstract `AdviceLedger` (`LedgerRefined`). Where one module's subject
is another's environment, it is reduced to what the other may observe: the
hand-off of a wake is `WakeLane`'s and a plain delivery in `Triage`; an
escalation is `Escalation`'s and the step `AdvisorDecides` in `Triage`; the
rounds a bounce orders are `BuilderLane`'s and three states in `Triage`;
`Escalation` meets Kronos's writes as two transactions and `Kronos` meets
Zeus's as moves of the PR.

Operators whose comment begins with `(mutant)` are faulty variants of the
operator that follows them. No specification uses one: they show that a
property depends on the code line they change.

### WakeLane and the code

One step is one SQL statement or one executor hand-off, since each `Jobs`
method opens its own autocommit connection.

* `OnVerdict` is `on_verdict`; `hand[s]` is the position of a webhook thread or
  of the recovery thread in `_submit_wake`: `Submit`, then `MarkSubmitted`, or
  `SubmitRejected` when the pool is shutting down. `OnVerdictRaises` is a
  `create_wake` that commits the stamped row and raises: the thread ends, the
  server answers 500, and the wake has no task.
* `pool` counts waiting tasks per wake. `StartTask`, `Claim`, `Finish` and
  `LeaveRunning` are `run_neo` as the row sees it. `Finish` covers the resolve,
  retry and park exits, all gated by the claimant's token. `LeaveRunning`
  covers the exits that touch no row: a lane hold, a wake of the wrong kind, an
  exception caught by `_run_wake`.
* `sweep` is `_recovery_loop` with its local lists: start-up reset, re-queue of
  expired leases, parks and re-submissions row by row, `stale_queued`, and a
  pass cut short by a raising statement.
* Left out: payloads, PR numbers and the age filter and `LIMIT` of
  `stale_queued`, which only delay a row to a later pass. A claimant's random
  token is the identity of its thread.

### Escalation and the code

One PR. `rows` holds the `neo_actions` rows of four phases: `escalating`,
`inflight` (`escalation-inflight` in the table), `escalated` with an
`advisor_round`, and `parked`. An insert is one step; so is each of take, clear and reclaim, which
are transactions under the per-PR advisory lock.

* `worker[h]` is the run of head `h`'s wake: `Gate` (idempotency gate), `Bounce`
  (`already_escalated`), `SubmitEscalation` / `SubmitFails` / `SubmitRaises`
  then `ParkRaised`, `PhaseRow`, `Triage`. `RunDies` is a statement that raises: the lease
  lapses and the wake runs again.
* `rec` is the recovery thread: `Reclaim`, `Look` (marker, decision lookup,
  timeout, poll), `Take`, then `Park`, `Decide` and `CreateJob`, or `Repair`, then
  `Clear`. `ActRaises` raises before or after the effect, and `ReRecord` writes the
  marker again, unless the same outage still lasts (`ReRecordFails`).
* Kronos's `escalate` and `stop` each are one transaction whose guard is
  `_defer_reason`.
* `job` is the builder job of the escalated round. There is one, because
  `builder_rounds` counts only `builder` rows and no longer changes, so every
  escalated round of the PR has the same number and hits the same unique key.
* Left out: plans (only empty or not), decisions written before plans were
  stored, markers without an advice id, unreadable decisions (a deferral that
  changes nothing).
* Advice is numbered in the order its marker is recorded, which is the order
  the code compares (row id).

### BuilderLane and the code

* `main` is the main thread of `neo_builder.main`: `Recover` (recover_expired and
  its list), `ParkRecovered`, `Claim` (claim_queued: a queued round of a PR
  without an in-flight key, the newest of its PR first), `SupersedeOlder`, then
  `ParkOverCap`, `TurnAway` or `HandOver`; `PoolFilled` when the inner loop
  breaks, and `Reap` when the wait returns finished futures and their keys.
* `slot[d]` is a dispatch thread in `dispatch_one`: `DispatchTurnedAway`,
  `PrepareWorktree` (fetch and check out the head of the moment), `StaleRound`
  (head_moved), `NoAssessment`, `Launch`, the agent's end (`AgentCompletes`,
  `AgentFails`, `RouteFallsThrough` to the next route of the chain), and
  `Conclude` with the round's outcome. `LeaveRunning` covers the exits that
  touch no row.
* `pr[p]` has the head of the PR's branch (heads are numbered in the order they
  appear), the newest head so far and what `builder_rounds` answers. The agent
  commits in the worktree and pushes; the author pushes too, and a force-push
  may bring an old head back.
* `Bounce` is run_neo's order of a round, or the escalated one: for any head the
  PR has had, the same as before included (another verdict colour, a wake re-run
  after its lease lapsed, an escalation), and for any number up to the next,
  since `builder_rounds` is read one statement before. The round counts only
  when the worker lives to record it and it is not the escalated one.
* `order[j]` is the row's `head_sha` column and whether its payload is an
  escalated one. create_builder re-arms a finished row with a new payload and
  keeps the old `head_sha` (see the observations for what comes of it).
* `MainRaises` is an exception that leaves `main`: the interpreter joins the
  pool's threads before systemd can restart the unit.
* Left out: dry run, the repository allowlist, `release` (its branch is dead:
  claim_queued excludes the keys it tests for), the text of findings. The model
  has one builder process: the in-flight keys are in its memory, so a second one
  (an operator's `--once` beside the service) is not kept off a worktree by them.

### Triage and the code

* A wake is a verdict: a head and a colour. `run[t]` is a pool thread inside
  `run_neo`, and each `pc` is a place between two statements: `gate` (claim won;
  `Drop`, `DuplicateVerdict`, `RestoreMarker`, `CreditGate`), `evidence`
  (`StaleHead`, `Hold`, `LaneGate`, `StartAgent`), `agent` (`AgentFails`,
  `AgentAnswers`), `merge` and `call` (merge_executor's reads and its PUT with the
  expected sha), `bounce` (`BounceParks`, `BounceEscalates`, `BounceOrders`),
  `order` (create_builder), `phase`, `marker`, `close`, `debit`.
* `ledger` is `neo_actions` of the PR; `inst` the installation's plan and
  balance; `gh` GitHub's head, merged head and whether the branch is a lane.
* A run holds no lock: two runs of one verdict may be anywhere at once when a
  lease has lapsed, and `RowEnds` of the one that lost its row changes nothing,
  while its phase row and its debit go through.
* Evidence is one bit per read. The fields of the two-green gate are data: a
  head is or is not green at the moment it is read, and the model leaves the
  answer open. What it keeps is which head was read and when. Whether a check of
  the pinned head turns red between the last read and the merge call is therefore
  not told apart.
* `Debit` charges any number of credits up to `MaxDebit`: `credits_for` prices the
  tokens of the run, and nobody knows them when the balance is looked at.

### Kronos and the code

* `run[k]` is a process in `run_pass`; `mem` its copy of the slots of
  `state.json` (`judged`, the outbox and what its entries still owe, the sweep
  cursor, `open_alerts`); `disk` the file; `lock` the flock of `pass.lock`.
* The stages are those of `run_pass`: `Checks`, `AlertBroken`, `Reconstruct`
  (flush, and the rebuild of the outbox from committed decisions), `DrainNext` /
  `Comment` / `AlertOwner` / `Mark` / `DrainEnds`, `ReadPage`, `PassOver` or `Ask`,
  `Prove`, `Commit` or `RollBack`, `AlertConflict`, `SweepEnds`, `Resolve`, `Exit`.
* Every call ends in one of three ways (`Ends`): it returns, it is refused, or it
  took effect and the answer is lost. After `BudgetSpent` no call starts.
* `pr[p]` is what Zeus and GitHub say of a PR: in its loop, stuck in it (the
  judge can only defer), busy, or out of it.
* `issues[f]` counts the open issues of a problem. `search_open` reads the
  hundred open `kronos` issues updated last, so a search may miss the open one
  (`Misses`, counted in `missed` and among the faults): the alert then opens
  another, and the close finds nothing to close and forgets the entry.
* Left out: flap detection, the text of a report, the comments on issues,
  `--dry-run`, and a state file that cannot be parsed
  (`kronos/__init__.py:74-77` starts from an empty one, which forgets the tracked
  alerts and the outbox; committed rulings are rebuilt, alerts are not).

## 3. Runs

| run | instance | question |
|---|---|---|
| `wake_safety` | 1 wake, 2 pool threads, 1 webhook thread, 2 deliveries, 2 lapses, 1 outage, 1 restart | types, leases, exclusion, ways to strand a wake, refinement of `JobLease`; queued wakes settle unless the hand-off orphaned them |
| `wake_stranded` | no faults | **violated**: a wake is stranded |
| `wake_cap` | 1 outage | **violated**: one claim more than `max_attempts` |
| `esc_faults` | 1 head, 2 advices, 1 outage, crash and ruling | the safety of one head's escalation under every combination of these faults, refinement of `AdviceLedger`; every marker goes away, also when an act and its re-record fail together or a crash comes after the take |
| `esc_heads` | 2 heads, 2 advices, 1 outage | the same when two advices overtake each other |
| `esc_second`, `esc_clobber` | 2 heads, 2 advices, no faults | **violated**: see the findings |
| `esc_partial` | 1 head, 1 advice, 2 crashes | **violated**: a decision without a job and without a marker |
| `builder_lane` | 1 PR, 2 slots, rounds 1 and 2 (the cap is 1, so round 2 must be escalated), 2 bounces of any head, 1 route of a chain, 1 push, lapse and crash | one agent per worktree, attempts bounded, refinement of `JobLease`; every queued round settles |
| `builder_stale` | the same with one fixed route and no crash | **violated**: see the findings |
| `triage_verdicts` | 2 heads, a green verdict on the first and a red one on the second, 2 threads, 0 or 2 earlier rounds of 2, metered or not, runs of 0 to 2 credits, 2 deliveries, 1 lapse or fault | what is merged was green, one payment and one round per verdict, the marker vouches, the overdraft is bounded, refinement of `JobLease` |
| `kronos_pass` | 2 PRs, one with a job in the way, page of 1, 2 processes, 1 move of the world, 2 faults or missed issues | one lock, file behind the table, notified means told, repeats only after faults, a second issue only after a miss; rulings told, loops judged, alerts closed |

Bounds. Wakes share nothing but the threads, so one wake with two threads shows
every race on a row; the theorems hold for any number of wakes. How
many runs a lapse buys shows only with a third thread and is a theorem
(`RunsBounded`), not a run. Two
deliveries give a duplicate task, or re-arm a settled wake. Two advices are the smallest number that can overtake; a third adds only
another pair. One fault of each kind reaches every error branch, and
`esc_partial` shows what two do. Constants named `Max...` bound the
environment's events and never a retry of the code. The faults are bounded so
that runs are finite; the theorems have no bound.

`builder_lane` has one PR because PRs share only the slots: two rounds of one PR
over two slots are the races on a worktree and on a row, and the theorems
of `BuilderLaneProofs` hold for any number of PRs. Two
attempts let a row be recovered once and parked the second time. Two bounces are
two rounds of one head, two heads, or one number ordered twice. The chain of
routes only multiplies the states of an agent: one that falls through to its end
fires every step of it.

`triage_verdicts` merges states that differ only in what no later step reads
(`View` in `MCTriage`: outcome and stamp of a wake row, the attempt count of a
settled one, the authority and the round of a run past their last use) and
states that differ by a renaming of the pool's threads; no property reads any
of these. Two deliveries with `MaxAttempts` 2 give a re-delivery and a recovery;
two earlier rounds put the next bounce at the escalation limit. A credit of 1
lets both threads pass the gate on the last credit, and a run of 2 costs more
than was left.

`kronos_pass` starts with the service broken, so that an alert is open before
anything else happens, and may see it recover. A page of one row makes the
cursor matter with two PRs. Processes are numbered as they start, since nothing
tells them apart. Two faults are a death after a lost answer, a death of the
pass that repairs the first, or a missed issue and the failed close of the
second one.

Deadlock is checked in `kronos_pass`, where the timer never stops. Elsewhere it is
not: when the bounded events are used up and every wake, marker or round is
settled, nothing is left to do, as in the idle service. Symmetry and the view
are used in safety runs only.

Fairness. `wake_safety`: threads that can step do, an agent run ends (its
timeout), an unrenewed lease expires by the clock, the pool's queue is FIFO so
that a waiting task is not passed over for ever (hence SF), and a closing
process goes away. `esc_faults`: the recovery loop runs every minute, runs make
progress, an advice is answered or times out, and the stale window passes (SF,
since the model lets an hour pass only between runs). `builder_lane`: the main
thread and the dispatch threads step (an agent has a time limit), the lease of
a round nobody works on expires, and systemd starts a process that exited.
`kronos_pass`: the timer starts passes and the running pass gets on, because each
of its calls has a timeout. No fault is fair, nor any act of an author.

### Findings

Six runs contradict what the repository says of itself; each is in
`PROJECT.json` with the quoted line.

1. `wake_stranded`: the stamp of `_submit_wake` may land after the task was
   claimed and retried. The row is then queued and stamped, so no sweep and no
   re-delivery hands it over before the next restart.
2. `wake_cap`: an exhausted row is queued between `recover_expired` and `park`.
3. `esc_second`: nobody checks `already_escalated` again when an advice is
   decided; two heads that bounced early make two escalated rounds.
4. `esc_clobber`: the older head's worker writes its phase row after a newer
   head's marker. The late row makes the older advice the newest: it is acted
   on, and the newer advice's marker is deleted.
5. `esc_partial`: a later park of the same head counts as the outcome of an
   advice whose decision still lacks its job.
6. `builder_stale`: round 1 of a head is left running (a read failed), round 2 of
   the same head runs without a push, round 1's lease expires. It is re-queued,
   claimed, found on its head, and an agent is started for it after the newer
   round's.

Observations seen while modelling that no run's property contradicts:

* A builder round number ordered again for a newer head (the first worker died
  before it recorded the round, or read `builder_rounds` too early) keeps the old
  head in its row (`jobs.py:299-309`). `dispatch_one` finds the worktree on another
  head than the row's and resolves the round as stale, on the very head it was
  ordered for, although `jobs.py:290-291` re-arms the row 'so a re-delivered bounce
  still reaches the builder lane'. `RoundsSettle` counts such a round as settled.
* `alert.py:113-114` promises 'never two issues per problem'. When the open issue
  is past the hundred that `search_open` reads, the next alert opens another one.
  `SecondIssueMissed` says that nothing else does.
* A judge call may take longer than the pass: the default `judge_timeout` (300 s)
  exceeds the pass budget (240 s). A hanging Summit then spends the budget and
  the stop that `judge.py:38-41` promises for a timeout cannot be written. A
  short page resets the cursor all the same (`kronos/__main__.py:719`), so the
  next pass meets the same PR first. In the model this is a spent budget, and
  `LoopsAreJudged` bounds how often that happens.
* The late stamp is not the only way to strand a wake, it is the one without a
  fault. A claim that raises, a `create_wake` that commits
  and raises, and a start-up reset that fails do it too; `StrandedOnlyBy` says
  that nothing else does.
* An issue created by a pass that dies before its flush, for a problem that is
  gone by the next pass, is not tracked and stays open. So does an issue that the
  search misses when its problem is fixed: `resolved` finds nothing to
  close and the entry is dropped. `TrackedAlertsClose` says what the code can
  promise.
* `judge.py:651` expects one repeated notification at most after a death.
  `RepeatsHaveCauses` states it with one repeat per fault, which is what a
  series of deaths may cause (missed issues are counted as faults too, though
  they repeat no comment).
* When the builder's whole chain of routes returns without a verdict, the round
  ends as `no_change`; `neo_builder.py:93-94` speaks of a retry for failed runs.

## 4. Proofs

All for every value of the constants, from the assumptions stated in the
modules (`MaxAttempts` positive, null values distinct, bounds natural numbers, a
finite pool of threads where runs are counted; for `TriageProofs` at least one
thread and a first head).

`WakeLaneProofs`:

* `TypeCorrect`, `LeaseColumns` (by `LeaseInv`): each statement keeps a row well
  formed; `RowStep` says which move each action makes on a row.
* `ExclusiveTriage`: the inductive strengthening `HoldInv` says that while no
  lease has lapsed under its claimant, every claimed run still holds its row
  (its token, a live lease). `ExclusiveUnlessLapsed` alone is not inductive,
  because it does not say whose token a claimed run's row carries.
* `RunsBounded`: `StrayInv` counts, for each wake, the claimed runs that do not
  hold its row: a step without such a lapse makes none (`HoldStep`), a lapse makes
  one (`StrayStep`); of the other runs at most one has its token on the row.
* `StrandedInFourWays`: an action property, from types alone, action by action:
  only a late stamp, a raising claim, a `create_wake` that commits and raises, or a
  failed start-up reset makes an orphan.
* `WakeLaneImplementsJobLease`: initial states and steps map to `JobLease`'s
  under the refinement mapping at the end of `WakeLane`.

`EscalationProofs`: `Inv` adds to the three properties what they rest on:

* `ActMatches`: inside the pass, `pc` and the chosen act agree.
* `ParkJustified` and `ParkedIsHopeless`: the pass parks only an advice that is
  hopeless and undecided, and it stays so.
* `DecideJustified`: before `decide` the advice is not parked; before `job` its
  decision is there.

Together they make `OneDecision`, `OneOutcome` and `MarkerWithoutGap`
inductive. `TableGuards`, `PollingGuards` and `BystanderGuards` are the frame
lemmas; `ParkWritten` and `DecisionWritten` the two steps that matter.

`PlanRunsOnce` needs `PlanInv` besides: the pass decides only an undecided advice
and repairs only a decided one, the job never carries the plan of an undecided
advice, and between a decision and its job the job carries another plan. Its
lemmas say who may write a decision (`DecisionRows`), the job (`JobMoves`) and
the pass's own position (`RecMoves`).

`EscalationImplementsLedger` maps every step to a step of `AdviceLedger` or a
stutter. It rests on both invariants and on `AnswerInv` (the pass decides only an
answered advice; a round nobody ordered carries nobody's plan). `QuietSteps` shows
that only the pass's acts change what the table says has become of an advice
(`OutcomesKept`); the retry of an act that took effect and raised is a stutter,
because the outcome is already there.

`BuilderLaneProofs`:

* `TypeCorrect`: types, and the facts tying `main` and `slot` to their rounds.
* `ExclusiveWorktree`: `KeyInv` says that every busy slot's PR is in `keys`, that
  the PR of a claimed round is not, and that busy slots have different PRs.
  `WorktreeExclusive` alone is not inductive: it does not say that a claim avoids
  the PR of a round that is still running after its row was recovered.
* `BoundedAttempts`: `AttemptInv` bounds each row by its state: a queued row may
  have reached the cap only while the recovery still has it on its list or a
  crash has taken the list away.
* `BuilderLaneImplementsJobLease`: `LeasedInv` says that exactly the running rows
  carry a lease and a claimant. Each statement of the code is then one of a few
  moves on a row (untouched, broken, given back, acquired, lapsed, renewed:
  `LeaseEffects` and the `...Move` lemmas), and each move is a step of `JobLease`.

`TriageProofs` rests on one lemma about all steps of a run, `RunMoves`: a step
moves one run to a record `Moved` describes (its wake, how it comes to a merge, a
builder phase, a marker, a debit, and that its row is written only when it ends).

* `TypeCorrect`: types, and that the phase to be recorded is never the marker's.
* `MergedGreen`: `AuthInv`, only runs with authority are on the way to the call.
* `MarkersVouch`: `MarkInv` says besides that a builder phase about to be recorded
  has its job and that a run before its marker has its phase row. `VouchedStays`
  is the frame lemma: rows are removed only when an advice leaves its outcome.
* `OneRound`: `OnceInv`, while no lease has lapsed under a run, every run holds its
  row until it closes it (`RowKept`), so nobody else records a round between its
  gate and its phase row (`FreshStays`).
* `Overdraft`: `DebtInv` counts the runs between gate and debit, each at the most
  a run may cost, against the balance; `OwesFromGate` says where a debt begins,
  and `OwedParts` compares what sets of runs cost. The bound is the number of
  threads times the cost of a run: the code sets no limit to that cost, and
  `MaxDebit` may be any.
* `PaidOnce`: `PaidInv` counts, for each verdict, the runs that do not hold its row
  (one for each lapse, `StraysStay` and `StraysLapse`) and the payments made and
  owed. Before the marker nobody has paid, so whoever passes the gate is a stray
  or the holder (`PayersAtGate`); after it nobody passes.
* `TriageImplementsJobLease`: as for the builder lane. Only the start and the end of
  a run and the lease's own steps touch ownership; `LeaseRunStep` shows that all
  the others, `RunMoves` in hand, stutter.

`KronosProofs`:

* `TypeCorrect`: a process that runs holds the lock, so two never do.
* `RepeatedIssues`: the property is inductive as it stands. An alert creates an
  issue when none is open, or when its search missed the open ones and pays for
  it in `missed` (`LookedUp`); nothing else touches an issue (`IssueStep`).
* `NotifiedTold` and `FileFollows`, from `ToldInv`: the file and every pass's
  memory are honest (a judged mark or an outbox entry has a committed ruling,
  and what an entry no longer owes has been delivered), and a pass between
  deliveries is steady about the entry it works on. Each stage keeps the
  honesty of the memory (`HonestKept`, `ToldWrite`, `ToldPass`), each flush
  hands it to the file.
* `RepeatsCaused`: `RepeatInv` counts, for each PR, the comments posted and the one
  the slots still promise, and bounds them by one more than the faults: the slots
  of the running pass when there is one, else those of the file. A
  delivery whose time budget is gone (`Hurried`) has spent its fault in advance: its
  mark may be refused and the comment repeated.

Every safety, action and refinement property of the passing runs is stated by
one of these theorems. Only model-checked: liveness
(`QueuedSettlesUnlessOrphaned`, `MarkersSettle`, `RoundsSettle`, `RulingsAreTold`,
`LoopsAreJudged`, `TrackedAlertsClose`), because fairness and ENABLED are out of the
prover's reach.

## 5. Not modelled

HTTP, GitHub, agents and prompts (an outcome or a failure), text (redaction,
verdict grammar, reports), configuration parsing, deployment scripts. The
choice of a trusted reviewer and of a check run among several, and
`jev_review`: pure functions of one read. The schema migration, the usage
windows of the routes and the advisor's queue are in the plan.

## 6. Plan

1. done: `JobRow`, `JobLease`, `WakeLane`, `Escalation`, their runs and theorems.
2. done: `BuilderLane`, `Triage` (with the merge gate and the credits), `Kronos`,
   their runs and first theorems.
3. `AdvisorService`: bounded queue, one worker, retention, restart; composed
   with the poll of `Escalation` (lost record, timeout).
4. done: theorems for every safety, action and refinement property of the runs.
5. done: `AdviceLedger`, refined by `Escalation`.
6. The usage windows of the route chain and the schema migration: pure
   algorithms against a reference.
