----------------------------- MODULE Escalation -----------------------------
(***************************************************************************)
(* The advisor escalation of one pull request: wake workers submit a       *)
(* bounced head to the frontier advisor (the escalation branch of run_neo, *)
(* src/src/neo_worker.py), the recovery thread polls the advice and turns  *)
(* it into one escalated builder round or a park (src/src/escalation.py,   *)
(* src/src/neo_state.py), and Kronos's judge may rule on the same PR from  *)
(* another process (src/src/kronos/store.py).                              *)
(*                                                                         *)
(* The shared state is the table neo_actions: each statement, and each     *)
(* transaction under the per-PR advisory lock, is one step.  A statement   *)
(* may raise with or without its effect; the service may crash between any *)
(* two steps.  Advice is numbered in the order its marker is recorded.     *)
(*                                                                         *)
(* Abstractions: every wake is a red bounce of a PR that has spent its     *)
(* cheap rounds (builder_rounds no longer changes, so every escalated      *)
(* round has the same number and there is one builder job); plans and      *)
(* texts are left out, a plan is only empty or not.                        *)
(***************************************************************************)
EXTENDS Naturals, FiniteSets

CONSTANTS Heads,          \* head SHAs of the PR that bounced
          NoHead,
          MaxAdvices,     \* bound: submissions the advisor accepts
          MaxOutages,     \* bound: outages, in which statements and calls raise
          MaxCrashes,     \* bound: crashes of the service
          MaxRulings      \* bound: decisions Kronos commits

ASSUME EscalationBounds ==
    /\ MaxAdvices \in Nat /\ MaxOutages \in Nat
    /\ MaxCrashes \in Nat /\ MaxRulings \in Nat

VARIABLES
    rows,      \* the PR's neo_actions rows of the escalation phases
    lastId,    \* the table's id sequence
    recent,    \* the PR was touched within Kronos's quiet window
    job,       \* the builder job of the escalated round, and whose plan it carries
    worker,    \* the run of each head's wake
    rec,       \* the recovery thread inside recover_escalations
    advisor,   \* what the poll of each advice comes to
    outages, crashes, rulings

vars == <<rows, lastId, recent, job, worker, rec, advisor, outages, crashes, rulings>>
table == <<rows, lastId, recent>>
bounds == <<outages, crashes, rulings>>

Advices == 1 .. MaxAdvices

Nobody == 0      \* a park by a worker, or a decision by Kronos: no advice

Phases == {"escalating", "inflight", "escalated", "parked"}

Rows == [id : Nat, phase : Phases, advice : Advices \cup {Nobody}, head : Heads, old : BOOLEAN]

\* The two actions that record an outcome of the advice, and the repair.
ActPcs == {"park", "decide", "job", "repair"}

\* Well-typed rows with distinct ids, and a marker always names its advice.
RowsOK ==
    /\ rows \subseteq Rows
    /\ lastId \in Nat
    /\ \A r \in rows : r.id <= lastId
    /\ \A r, s \in rows : r.id = s.id => r = s
    /\ \A r \in rows : r.phase \in {"escalating", "inflight"} => r.advice # Nobody

TypeOK ==
    /\ RowsOK
    /\ recent \in BOOLEAN
    /\ job \in [state : {"none", "queued", "running", "lapsed", "done"},
                plan  : Advices \cup {Nobody}]
    /\ worker \in [Heads -> [pc : {"idle", "run", "submit", "raised", "phase", "triage", "done"},
                             advice : Advices \cup {Nobody}]]
    /\ rec \in [pc     : {"poll", "take", "clear", "rerecord"} \cup ActPcs,
                act    : ActPcs \cup {"none"},
                advice : Advices \cup {Nobody},
                head   : Heads \cup {NoHead}]
    /\ rec.pc # "poll" => rec.head \in Heads /\ rec.advice # Nobody
    /\ advisor \in [Advices -> {"unposted", "waiting", "plan", "hopeless"}]
    /\ outages \in Nat /\ crashes \in Nat /\ rulings \in Nat

IdleWorker == [pc |-> "idle", advice |-> Nobody]
Polling == [pc |-> "poll", act |-> "none", advice |-> Nobody, head |-> NoHead]

Init ==
    /\ rows = {} /\ lastId = 0 /\ recent = FALSE
    /\ job = [state |-> "none", plan |-> Nobody]
    /\ worker = [h \in Heads |-> IdleWorker]
    /\ rec = Polling
    /\ advisor = [a \in Advices |-> "unposted"]
    /\ outages = 0 /\ crashes = 0 /\ rulings = 0

-----------------------------------------------------------------------------
(* Reads and writes of the table.                                          *)

Of(phase) == {r \in rows : r.phase = phase}

MarkersOf(a) == {r \in rows : r.advice = a /\ r.phase \in {"escalating", "inflight"}}

\* An UPDATE of rows in place: their phase, and whether they are stale.
Rephased(S, phase, old) == {[r EXCEPT !.phase = phase, !.old = old] : r \in S}

IsNewest(r, S) == r \in S /\ \A s \in S : s.id <= r.id

\* already_escalated: a decision with an advisor_round, Zeus's or Kronos's.
AlreadyEscalated == Of("escalated") # {}

\* (mutant) a decision is looked up through its builder job.
DecisionOfUnlessJobless(a) == {r \in Of("escalated") : r.advice = a /\ job.state # "none"}

\* advisor_escalation_for / advisor_escalation_detail: this advice's decision.
DecisionOf(a) == {r \in Of("escalated") : r.advice = a /\ a # Nobody}

\* (mutant) the id sequence does not advance.
RecordReusingIds(phase, a, h) ==
    /\ lastId' = lastId
    /\ rows' = rows \cup {[id |-> lastId + 1, phase |-> phase, advice |-> a,
                           head |-> h, old |-> FALSE]}
    /\ recent' = TRUE

\* record / record_escalating: one INSERT.
Record(phase, a, h) ==
    /\ lastId' = lastId + 1
    /\ rows' = rows \cup {[id |-> lastId + 1, phase |-> phase, advice |-> a,
                           head |-> h, old |-> FALSE]}
    /\ recent' = TRUE

Outage == outages < MaxOutages /\ outages' = outages + 1 /\ UNCHANGED <<crashes, rulings>>

\* (mutant) a round that is still active is re-armed too.
CreateBuilderAnyState(a) == job' = [state |-> "queued", plan |-> a] /\ recent' = TRUE

\* create_builder: inserts the round's job, or re-arms a finished or lapsed
\* one with the new plan; a queued or running one is left alone.
CreateBuilder(a) ==
    IF job.state \in {"none", "done", "lapsed"}
    THEN job' = [state |-> "queued", plan |-> a] /\ recent' = TRUE
    ELSE UNCHANGED <<job, recent>>

-----------------------------------------------------------------------------
(* run_neo on the wake of head h, from its idempotency gate on.            *)

\* A run whose work is already recorded only restores the triage marker.
Gate(h) ==
    /\ worker[h].pc = "idle"
    /\ IF \E r \in rows : r.head = h /\ r.phase \in {"escalating", "escalated"}
       THEN worker' = [worker EXCEPT ![h].pc = "done"] /\ recent' = TRUE
       ELSE worker' = [worker EXCEPT ![h].pc = "run"] /\ UNCHANGED recent
    /\ UNCHANGED <<rows, lastId, job, rec, advisor, bounds>>

\* The agent bounced the head: a PR that had its escalated round is parked.
Bounce(h) ==
    /\ worker[h].pc = "run"
    /\ IF AlreadyEscalated
       THEN /\ Record("parked", Nobody, h)
            /\ worker' = [worker EXCEPT ![h] = [pc |-> "phase", advice |-> Nobody]]
       ELSE /\ worker' = [worker EXCEPT ![h].pc = "submit"]
            /\ UNCHANGED table
    /\ UNCHANGED <<job, rec, advisor, bounds>>

\* The advisor's next advice id.
NextAdvice(a) ==
    advisor[a] = "unposted" /\ \A b \in Advices : b < a => advisor[b] # "unposted"

\* submit_escalation: POST, then record the marker; the run goes on at next.
Submitted(h, a, next) ==
    /\ worker[h].pc = "submit"
    /\ NextAdvice(a)
    /\ advisor' = [advisor EXCEPT ![a] = "waiting"]
    /\ Record("escalating", a, h)
    /\ worker' = [worker EXCEPT ![h] = next]
    /\ UNCHANGED <<job, rec>>

SubmitEscalation(h) ==
    /\ \E a \in Advices : Submitted(h, a, [pc |-> "phase", advice |-> a])
    /\ UNCHANGED bounds

\* No token, no advisor, a full advisor queue (so past MaxAdvices), or a
\* marker that was not recorded: the PR is parked.
SubmitFails(h) ==
    /\ worker[h].pc = "submit"
    /\ \/ Outage
       \/ (\A a \in Advices : advisor[a] # "unposted") /\ UNCHANGED bounds
    /\ Record("parked", Nobody, h)
    /\ worker' = [worker EXCEPT ![h] = [pc |-> "phase", advice |-> Nobody]]
    /\ UNCHANGED <<job, rec, advisor>>

\* The marker's commit took effect but raised: the worker parks the PR.
SubmitRaises(h) ==
    /\ \E a \in Advices : Submitted(h, a, [pc |-> "raised", advice |-> Nobody])
    /\ Outage

ParkRaised(h) ==
    /\ worker[h].pc = "raised"
    /\ Record("parked", Nobody, h)
    /\ worker' = [worker EXCEPT ![h].pc = "phase"]
    /\ UNCHANGED <<job, rec, advisor, bounds>>

\* The worker's own phase row repeats the marker (or the park).
PhaseRow(h) ==
    /\ worker[h].pc = "phase"
    /\ Record(IF worker[h].advice = Nobody THEN "parked" ELSE "escalating", worker[h].advice, h)
    /\ worker' = [worker EXCEPT ![h] = [pc |-> "triage", advice |-> Nobody]]
    /\ UNCHANGED <<job, rec, advisor, bounds>>

\* The triage marker and the resolved wake job end the run for good.
Triage(h) ==
    /\ worker[h].pc = "triage"
    /\ worker' = [worker EXCEPT ![h].pc = "done"]
    /\ recent' = TRUE
    /\ UNCHANGED <<rows, lastId, job, rec, advisor, bounds>>

\* A statement of the run raised (its effect is the step before this one):
\* the wake's lease lapses and the wake runs again.
RunDies(h) ==
    /\ worker[h].pc \in {"run", "raised", "phase", "triage"}
    /\ Outage
    /\ worker' = [worker EXCEPT ![h] = IdleWorker]
    /\ UNCHANGED <<table, job, rec, advisor>>

-----------------------------------------------------------------------------
(* recover_escalations, on the recovery thread.                            *)

\* (mutant) the reclaim scans the wrong phase.
StaleQueued == {r \in Of("escalating") : r.old}

Stale == {r \in Of("inflight") : r.old}

\* reclaim_stale_inflight: an outcome later than the marker settles it.  A
\* decision settles only with its builder job; a park settles by head alone.
Settled(m) ==
    \E r \in rows :
        /\ r.id > m.id
        /\ \/ r.phase = "parked" /\ r.head = m.head
           \/ r.phase = "escalated" /\ r.advice = m.advice /\ job.state # "none"

Superseded(m) ==
    \E r \in rows : r.id > m.id /\ r.phase \in {"escalating", "inflight"}

\* One stale marker, newest first, in its own transaction.
Reclaim ==
    /\ rec.pc = "poll"
    /\ \E m \in Stale :
         /\ IsNewest(m, Stale)
         /\ rows' = IF Settled(m) \/ Superseded(m)
                    THEN rows \ {m}
                    ELSE (rows \ {m}) \cup Rephased({m}, "escalating", FALSE)
    /\ UNCHANGED <<lastId, recent, job, worker, rec, advisor, bounds>>

\* (mutant) the timeout and the advisor's failure are looked at first.
VerdictsTimeoutFirst(m) ==
    IF advisor[m.advice] = "hopeless" THEN {"park"}
    ELSE IF DecisionOf(m.advice) # {} THEN {"repair"}
    ELSE IF advisor[m.advice] = "plan" THEN {"decide"}
    ELSE {}

\* What the poll loop decides to do with the newest marker m.
Verdicts(m) ==
    IF DecisionOf(m.advice) # {} THEN {"repair"}
    ELSE IF advisor[m.advice] = "hopeless" THEN {"park"}
    ELSE IF advisor[m.advice] = "plan" THEN {"decide"}
    ELSE {}

\* escalating_prs, the decision lookup, the timeout and the poll: reads only.
\* A failed reclaim (Stale # {}) does not stop the loop.
Look ==
    /\ rec.pc = "poll"
    /\ \/ Stale = {} /\ UNCHANGED bounds
       \/ Stale # {} /\ Outage
    /\ \E m \in Of("escalating") :
         /\ IsNewest(m, Of("escalating"))
         /\ \E v \in Verdicts(m) :
            rec' = [pc |-> "take", act |-> v, advice |-> m.advice, head |-> m.head]
    /\ UNCHANGED <<table, job, worker, advisor>>

\* (mutant) the consumed rows are deleted, as they were before r4.
TakeDeleting ==
    LET esc == Of("escalating")
        own == {r \in esc : r.advice = rec.advice}
        won == \E r \in own : IsNewest(r, esc)
    IN
    /\ rec.pc = "take"
    /\ IF won
       THEN rows' = rows \ esc /\ rec' = [rec EXCEPT !.pc = rec.act]
       ELSE rows' = rows \ own /\ rec' = Polling
    /\ UNCHANGED <<lastId, recent, job, worker, advisor, bounds>>

\* take_escalation: the newest advice wins, its rows become in-flight and the
\* others' queued rows go; a superseded advice only loses its own rows.
Take ==
    LET esc == Of("escalating")
        own == {r \in esc : r.advice = rec.advice}
        won == \E r \in own : IsNewest(r, esc)
    IN
    /\ rec.pc = "take"
    /\ IF won
       THEN /\ rows' = (rows \ esc) \cup Rephased(own, "inflight", FALSE)
            /\ rec' = [rec EXCEPT !.pc = rec.act]
       ELSE /\ rows' = rows \ own
            /\ rec' = Polling
    /\ UNCHANGED <<lastId, recent, job, worker, advisor, bounds>>

TakeFails ==
    /\ rec.pc = "take"
    /\ Outage
    /\ rec' = Polling
    /\ UNCHANGED <<table, job, worker, advisor>>

\* _park_pr as the terminal action of the advice.
Park ==
    /\ rec.pc = "park"
    /\ Record("parked", rec.advice, rec.head)
    /\ rec' = [rec EXCEPT !.pc = "clear"]
    /\ UNCHANGED <<job, worker, advisor, bounds>>

\* escalate_pr, its first half: record the decision unless this advice has one.
Decide ==
    /\ rec.pc = "decide"
    /\ IF DecisionOf(rec.advice) = {}
       THEN Record("escalated", rec.advice, rec.head)
       ELSE UNCHANGED table
    /\ rec' = [rec EXCEPT !.pc = "job"]
    /\ UNCHANGED <<job, worker, advisor, bounds>>

\* escalate_pr, its second half.
CreateJob ==
    /\ rec.pc = "job"
    /\ CreateBuilder(rec.advice)
    /\ rec' = [rec EXCEPT !.pc = "clear"]
    /\ UNCHANGED <<rows, lastId, worker, advisor, bounds>>

\* (mutant) the repair re-arms whatever job the round has.
RepairRearming ==
    /\ rec.pc = "repair"
    /\ CreateBuilder(rec.advice)
    /\ rec' = [rec EXCEPT !.pc = "clear"]
    /\ UNCHANGED <<rows, lastId, worker, advisor, bounds>>

\* _repair_escalated_round: an existing job of the round is never touched.
Repair ==
    /\ rec.pc = "repair"
    /\ IF job.state = "none"
       THEN CreateBuilder(rec.advice)
       ELSE UNCHANGED <<job, recent>>
    /\ rec' = [rec EXCEPT !.pc = "clear"]
    /\ UNCHANGED <<rows, lastId, worker, advisor, bounds>>

\* The terminal action raised, before or after its statement took effect.
ActRaises ==
    /\ rec.pc \in ActPcs
    /\ Outage
    /\ \/ UNCHANGED <<table, job>>
       \/ rec.pc = "park" /\ Record("parked", rec.advice, rec.head) /\ UNCHANGED job
       \/ /\ rec.pc = "decide" /\ DecisionOf(rec.advice) = {}
          /\ Record("escalated", rec.advice, rec.head) /\ UNCHANGED job
       \/ /\ rec.pc \in {"job", "repair"} /\ (rec.pc = "job" \/ job.state = "none")
          /\ CreateBuilder(rec.advice) /\ UNCHANGED <<rows, lastId>>
    /\ rec' = [rec EXCEPT !.pc = "rerecord"]
    /\ UNCHANGED <<worker, advisor>>

\* The marker of a failed action is recorded again, with its original start.
ReRecord ==
    /\ rec.pc = "rerecord"
    /\ Record("escalating", rec.advice, rec.head)
    /\ rec' = Polling
    /\ UNCHANGED <<job, worker, advisor, bounds>>

\* The outage that failed the action lasts: the marker stays in flight.
ReRecordFails ==
    /\ rec.pc = "rerecord"
    /\ rec' = Polling
    /\ UNCHANGED <<table, job, worker, advisor, bounds>>

\* clear_inflight_markers, after the outcome is recorded.
Clear ==
    /\ rec.pc = "clear"
    /\ rows' = rows \ {r \in Of("inflight") : r.advice = rec.advice}
    /\ rec' = Polling
    /\ UNCHANGED <<lastId, recent, job, worker, advisor, bounds>>

ClearFails ==
    /\ rec.pc = "clear"
    /\ Outage
    /\ rec' = Polling
    /\ UNCHANGED <<table, job, worker, advisor>>

-----------------------------------------------------------------------------
(* Kronos's judge, in another process: a compare-and-set under the lock.   *)

KronosMayWrite ==
    /\ \A r \in rows : r.phase \notin {"escalating", "inflight", "escalated"}
    /\ ~recent

\* SqlWrites.escalate: the decision and a fresh-only job, or neither.
KronosEscalate(h) ==
    /\ rulings < MaxRulings
    /\ KronosMayWrite
    /\ job.state = "none"
    /\ Record("escalated", Nobody, h)
    /\ job' = [state |-> "queued", plan |-> Nobody]
    /\ rulings' = rulings + 1
    /\ UNCHANGED <<worker, rec, advisor, outages, crashes>>

\* SqlWrites.stop: the decision without a job.
KronosStop(h) ==
    /\ rulings < MaxRulings
    /\ KronosMayWrite
    /\ Record("escalated", Nobody, h)
    /\ rulings' = rulings + 1
    /\ UNCHANGED <<job, worker, rec, advisor, outages, crashes>>

-----------------------------------------------------------------------------
(* The advisor, the builder lane, the clock and the service's crashes.     *)

PlanReady(a) ==
    /\ advisor[a] = "waiting"
    /\ advisor' = [advisor EXCEPT ![a] = "plan"]
    /\ UNCHANGED <<table, job, worker, rec, bounds>>

\* The advisor failed, answered an empty plan, restarted and lost its record,
\* or timeout_secs have passed: each makes the poll park the PR.
GivesUp(a) ==
    /\ advisor[a] \in {"waiting", "plan"}
    /\ advisor' = [advisor EXCEPT ![a] = "hopeless"]
    /\ UNCHANGED <<table, job, worker, rec, bounds>>

BuilderMoves == {<<"queued", "running">>, <<"running", "done">>, <<"running", "lapsed">>,
                 <<"lapsed", "queued">>, <<"lapsed", "done">>}

BuilderLane ==
    /\ \E m \in BuilderMoves : job.state = m[1] /\ job' = [job EXCEPT !.state = m[2]]
    /\ recent' = TRUE
    /\ UNCHANGED <<rows, lastId, worker, rec, advisor, bounds>>

\* The stale and the quiet window are an hour long: they do not pass while a
\* thread is between two statements.
AtRest == rec.pc = "poll" /\ \A h \in Heads : worker[h].pc \in {"idle", "done"}

InflightGrowsStale(a) ==
    LET aging == {r \in Of("inflight") : r.advice = a /\ ~r.old} IN
    /\ AtRest
    /\ aging # {}
    /\ rows' = (rows \ aging) \cup Rephased(aging, "inflight", TRUE)
    /\ UNCHANGED <<lastId, recent, job, worker, rec, advisor, bounds>>

QuietWindowPasses ==
    /\ AtRest
    /\ recent /\ rulings < MaxRulings     \* only Kronos looks at it
    /\ recent' = FALSE
    /\ UNCHANGED <<rows, lastId, job, worker, rec, advisor, bounds>>

\* The service dies: the wakes that were running are re-queued.
Crash ==
    /\ crashes < MaxCrashes
    /\ crashes' = crashes + 1
    /\ worker' = [h \in Heads |-> IF worker[h].pc = "done" THEN worker[h] ELSE IdleWorker]
    /\ rec' = Polling
    /\ UNCHANGED <<table, job, advisor, outages, rulings>>

-----------------------------------------------------------------------------
WorkerStep(h) ==
    \/ Gate(h) \/ Bounce(h) \/ SubmitEscalation(h) \/ SubmitFails(h) \/ SubmitRaises(h)
    \/ ParkRaised(h) \/ PhaseRow(h) \/ Triage(h) \/ RunDies(h)

ActStep == Park \/ Decide \/ CreateJob \/ Repair

RecoveryStep ==
    \/ Reclaim \/ Look \/ Take \/ TakeFails
    \/ ActStep \/ ActRaises \/ ReRecord \/ ReRecordFails \/ Clear \/ ClearFails

Environment ==
    \/ \E a \in Advices : PlanReady(a) \/ GivesUp(a) \/ InflightGrowsStale(a)
    \/ BuilderLane \/ QuietWindowPasses \/ Crash

Next ==
    \/ \E h \in Heads : WorkerStep(h) \/ KronosEscalate(h) \/ KronosStop(h)
    \/ RecoveryStep
    \/ Environment

Spec == Init /\ [][Next]_vars

-----------------------------------------------------------------------------
(* What the escalation promises.                                           *)

\* A retry after a failure, a raised commit, a crash or a reclaim never
\* writes a second decision for the same advice (escalate_pr is idempotent
\* per advice_id).
OneDecisionPerAdvice ==
    \A r, s \in Of("escalated") : r.advice = s.advice /\ r.advice # Nobody => r = s

\* The recovery thread never parks an advice whose decision is committed and
\* never decides one it parked: no contradictory row next to an outcome.
OneOutcomePerAdvice ==
    \A r \in Of("parked") : r.advice # Nobody => DecisionOf(r.advice) = {}

\* From the take until the marker is cleared the table shows an in-flight
\* marker of the advice being acted on, so Kronos cannot rule in between.
NoMarkerGap ==
    rec.pc \in ActPcs \cup {"rerecord", "clear"} =>
        \E r \in Of("inflight") : r.advice = rec.advice

\* The escalated round of an advice runs once: no retry, repair or reclaim
\* re-arms the finished builder job with the plan it already carried out.
EscalatedRoundRunsOnce ==
    [][job.state = "done" /\ job'.state # "done" => job'.plan # job.plan]_vars

\* A marker never blocks the PR forever (Kronos defers, and the PR waits, as
\* long as one exists): not after a crash, an outage, or a silent advisor.
MarkersSettle ==
    (Of("escalating") \cup Of("inflight") # {}) ~> (Of("escalating") \cup Of("inflight") = {})

\* already_escalated: a PR has one genuine advisor-escalated round.
OneEscalatedRound == Cardinality(Of("escalated")) <= 1

\* Acting on an older advice never removes the queued marker of a newer one.
NewerMarkerKept ==
    [][\A r \in Of("escalating") :
          rec.pc = "take" /\ r.advice > rec.advice => r \in rows']_vars

\* A committed decision whose builder job is missing keeps a marker, so that
\* the recovery can still repair it.
DecisionRepairable ==
    \A d \in Of("escalated") :
        d.advice # Nobody /\ job.state = "none" => MarkersOf(d.advice) # {}

-----------------------------------------------------------------------------
(* The refinement of AdviceLedger: rows become outcomes, a queued and a    *)
(* running job are both an active round.                                   *)

AdviceOutcome ==
    [a \in Advices |->
        IF DecisionOf(a) # {} THEN "decided"
        ELSE IF \E r \in Of("parked") : r.advice = a THEN "parked" ELSE "none"]

EscalatedRound ==
    [state |-> IF job.state \in {"queued", "running"} THEN "active" ELSE job.state,
     plan  |-> job.plan]

Ledger == INSTANCE AdviceLedger WITH outcome <- AdviceOutcome, round <- EscalatedRound

\* The pass, its retries and repairs, the reclaim, Kronos and the crashes
\* together implement AdviceLedger: one lasting outcome per advice, on the
\* advisor's word, and one order of the round per decision.
LedgerRefined == Ledger!LedgerSpec

-----------------------------------------------------------------------------
(* Fairness: the recovery loop runs every minute, workers and the builder  *)
(* lane make progress, and the clock advances past each timeout (strongly: *)
(* the model only lets it pass while the threads are between runs).        *)

Fairness ==
    /\ WF_vars(Reclaim \/ Look \/ Take \/ ActStep \/ ReRecord \/ Clear)
    /\ \A h \in Heads :
         WF_vars(Gate(h) \/ Bounce(h) \/ SubmitEscalation(h) \/ SubmitFails(h)
                 \/ ParkRaised(h) \/ PhaseRow(h) \/ Triage(h))
    /\ \A a \in Advices : WF_vars(PlanReady(a) \/ GivesUp(a)) /\ SF_vars(InflightGrowsStale(a))

LiveSpec == Spec /\ Fairness
=============================================================================
