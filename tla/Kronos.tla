------------------------------- MODULE Kronos -------------------------------
(***************************************************************************)
(* One pass of Kronos (src/src/kronos/__main__.py, judge.py, alert.py,     *)
(* store.py): under the pass lock a process loads the state file, checks   *)
(* the service, alerts, delivers what earlier passes still owe, judges the *)
(* next page of fix loops, closes the alerts whose problem is gone, and    *)
(* writes the file back.  The timer starts a pass every five minutes and   *)
(* an operator may start another one at any time.                          *)
(*                                                                         *)
(* What is volatile and what is durable is the point of the model: a       *)
(* pass's slots live in memory until a flush replaces the file, a ruling   *)
(* is durable at its commit, and comments and issues are on GitHub at      *)
(* once.  A process may die between any two steps, any call may fail with  *)
(* or without its effect, and the pass budget may run out anywhere.        *)
(*                                                                         *)
(* Abstractions: every PR has five stored rounds and is in the loop, stuck *)
(* in it (the judge can only defer: its head moved on GitHub, it is closed *)
(* there, no row proves its installation), busy (Zeus touched it in the    *)
(* quiet window) or has left it; one service stands for all checks; the    *)
(* dedupe window of a fingerprint is set and cleared with its open_alerts  *)
(* entry, and whether it has run out is a free choice.  How the decision   *)
(* transaction competes with Zeus's own escalation is module Escalation's  *)
(* subject.  The alert repository holds other issues than these, and        *)
(* search_open reads one page of them: whether an open issue is past that  *)
(* page is a free choice at each search.                                   *)
(***************************************************************************)
EXTENDS Naturals, FiniteSets

CONSTANTS PRs,           \* PR numbers, in the order of the sweep's key
          Conflicted,    \* PRs whose round-6 builder job already exists
          Passes,        \* numbers of the processes that may run a pass
          PageSize,
          Health,        \* how the service may be found at first
          MaxMoves,      \* bound: changes of the service, of Zeus and of authors
          MaxFaults      \* bound: deaths, failed calls, spent budgets, missed issues

ASSUME KronosAssumptions ==
    /\ PRs \subseteq Nat \ {0} /\ IsFiniteSet(PRs)
    /\ Conflicted \subseteq PRs
    /\ Passes \subseteq Nat \ {0}
    /\ PageSize \in Nat \ {0} /\ Health \subseteq BOOLEAN
    /\ MaxMoves \in Nat /\ MaxFaults \in Nat

VARIABLES
    up,        \* the watched service is healthy
    pr,        \* what Zeus's rows and GitHub say of each PR
    ruling,    \* the committed decision of each PR
    notified,  \* PRs whose decision rows carry kronos_notified
    comments,  \* ruling comments on each PR
    issues,    \* open alert issues, by fingerprint
    missed,    \* searches that missed one, by fingerprint
    told,      \* PRs whose owner was alerted to a stop
    disk,      \* the state file
    lock,      \* the holder of pass.lock
    run,       \* each process's pass
    moves, faults

vars == <<up, pr, ruling, notified, comments, issues, missed, told, disk, lock, run, moves, faults>>
outside == <<up, pr, moves>>
rulings == <<ruling, notified>>
posted == <<comments, issues, missed, told>>

NoPass == 0

Service == <<"service", 0>>
Loop(p) == <<"loop", p>>
Conflict(p) == <<"conflict", p>>

Fingerprints == {Service} \cup {Loop(p) : p \in PRs} \cup {Conflict(p) : p \in Conflicted}

Owed == PRs \X {"comment", "alert"}

\* The slots of KronosState: judged, notify_outbox (its keys, and what the
\* entries still need), judge_cursor and open_alerts.
Slots == [judged : SUBSET PRs, outbox : SUBSET PRs, owes : SUBSET Owed,
          cursor : PRs \cup {0}, open : SUBSET Fingerprints]

Empty == [judged |-> {}, outbox |-> {}, owes |-> {}, cursor |-> 0, open |-> {}]

Off == [pc |-> "off", mem |-> Empty, sick |-> FALSE, spent |-> FALSE, todo |-> {},
        full |-> FALSE, last |-> 0, cur |-> 0, ask |-> "none", retry |-> FALSE, fix |-> {}]

Pcs == {"off", "checks", "alert", "reconstruct", "drain", "comment", "owner", "mark", "page",
        "sweep", "prove", "commit", "conflict", "resolve"}

Situations == {"loop", "stuck", "busy", "left"}

TypeOK ==
    /\ up \in BOOLEAN
    /\ pr \in [PRs -> Situations]
    /\ ruling \in [PRs -> {"none", "go", "stop"}]
    /\ notified \subseteq PRs
    /\ comments \in [PRs -> Nat]
    /\ issues \in [Fingerprints -> Nat]
    /\ missed \in [Fingerprints -> Nat]
    /\ told \subseteq PRs
    /\ disk \in Slots
    /\ lock \in Passes \cup {NoPass}
    /\ run \in [Passes -> [pc : Pcs, mem : Slots, sick : BOOLEAN, spent : BOOLEAN,
                           todo : SUBSET PRs, full : BOOLEAN, last : PRs \cup {0},
                           cur : PRs \cup {0}, ask : {"none", "go", "stop"},
                           retry : BOOLEAN, fix : SUBSET Fingerprints]]
    /\ \A k \in Passes :
          /\ run[k].pc # "off" => lock = k
          /\ run[k].pc \in {"comment", "owner", "mark", "prove", "commit"} => run[k].cur \in PRs
          /\ run[k].pc = "conflict" => run[k].cur \in Conflicted
    /\ moves \in Nat /\ faults \in Nat

Init ==
    /\ up \in Health
    /\ pr = [p \in PRs |-> "loop"]
    /\ ruling = [p \in PRs |-> "none"]
    /\ notified = {} /\ told = {}
    /\ comments = [p \in PRs |-> 0]
    /\ issues = [f \in Fingerprints |-> 0]
    /\ missed = [f \in Fingerprints |-> 0]
    /\ disk = Empty /\ lock = NoPass
    /\ run = [k \in Passes |-> Off]
    /\ moves = 0 /\ faults = 0

-----------------------------------------------------------------------------
At(k, pc) == run[k].pc = pc

Goto(k, pc) == run' = [run EXCEPT ![k].pc = pc]

Fault == faults < MaxFaults /\ faults' = faults + 1

\* How a call ends: it returns; it raises and nothing happened (without a
\* fault only because the budget is spent and it never started); or it took
\* effect and its answer was lost.
Ends(k, how) ==
    \/ how = "returned" /\ ~run[k].spent /\ UNCHANGED faults
    \/ how = "refused" /\ IF run[k].spent THEN UNCHANGED faults ELSE Fault
    \/ how = "lost" /\ ~run[k].spent /\ Fault

\* (mutant) an issue is created without looking for an open one.
OpenedBlindly(f) == [issues EXCEPT ![f] = @ + 1]

\* What search_open finds decides: an issue is created, or the one found gets
\* a comment; the one found is closed, or nothing is.
Opened(f) == [issues EXCEPT ![f] = IF @ = 0 THEN 1 ELSE @]
Closed(f) == [issues EXCEPT ![f] = IF @ = 0 THEN 0 ELSE @ - 1]

\* An issue is open, but past the hundred updated last, and no second page
\* is read.
Misses(f) == Fault /\ issues[f] > 0 /\ missed' = [missed EXCEPT ![f] = @ + 1]

\* Alerter.alert: suppressed inside the fingerprint's window.
Alert(k, f, how) ==
    \/ Ends(k, how) /\ issues' = (IF how = "refused" THEN issues ELSE Opened(f)) /\ UNCHANGED missed
    \/ /\ how \in {"returned", "lost"} /\ ~run[k].spent /\ Misses(f)
       /\ issues' = [issues EXCEPT ![f] = @ + 1]
    \/ how = "suppressed" /\ f \in run[k].mem.open /\ UNCHANGED <<issues, missed, faults>>

\* Alerter.resolved.
Close(k, f, how) ==
    \/ Ends(k, how) /\ issues' = (IF how = "refused" THEN issues ELSE Closed(f)) /\ UNCHANGED missed
    \/ how = "returned" /\ ~run[k].spent /\ Misses(f) /\ UNCHANGED issues

Calls == {"returned", "refused", "lost"}
Alerts == Calls \cup {"suppressed"}

Tracked(open, f, how) == IF how \in {"returned", "suppressed"} THEN open \cup {f} ELSE open

-----------------------------------------------------------------------------
(* The pass up to the judge.                                               *)

\* Processes have no identity: a new one takes the first free number.
NewPass(k) == At(k, "off") /\ \A j \in Passes : j < k => ~At(j, "off")

\* (mutant) a pass starts beside a running one.
BeginUnlocked(k) ==
    /\ NewPass(k)
    /\ lock' = k
    /\ run' = [run EXCEPT ![k] = [Off EXCEPT !.pc = "checks", !.mem = disk]]
    /\ UNCHANGED <<outside, rulings, posted, disk, faults>>

\* main: a pass that cannot take the lock exits; the file is loaded under it.
Begin(k) ==
    /\ NewPass(k) /\ lock = NoPass
    /\ lock' = k
    /\ run' = [run EXCEPT ![k] = [Off EXCEPT !.pc = "checks", !.mem = disk]]
    /\ UNCHANGED <<outside, rulings, posted, disk, faults>>

\* The results are read here and used until the pass ends.
Checks(k) ==
    /\ At(k, "checks")
    /\ run' = [run EXCEPT ![k].pc = "alert", ![k].sick = ~up]
    /\ UNCHANGED <<outside, rulings, posted, disk, lock, faults>>

\* The alert stage: a broken check raises its alert, tracked unless suppressed.
AlertBroken(k) ==
    /\ At(k, "alert")
    /\ IF run[k].sick
       THEN \E how \in Alerts :
               /\ Alert(k, Service, how)
               /\ run' = [run EXCEPT ![k].pc = "reconstruct",
                                     ![k].mem.open = Tracked(@, Service, how)]
       ELSE Goto(k, "reconstruct") /\ UNCHANGED <<issues, missed, faults>>
    /\ UNCHANGED <<outside, rulings, comments, told, disk, lock>>

Unnotified == {p \in PRs : ruling[p] # "none" /\ p \notin notified}

\* (mutant) only what this state file already knows is delivered.
NothingRebuilt(k) == {}

\* (mutant) an entry already in the outbox is rebuilt all the same.
RebuiltTwice(k) == Unnotified

\* reconstruct_pending_notifications: committed decisions nobody marked
\* delivered and that are not in the outbox.
Rebuilt(k) == Unnotified \ run[k].mem.outbox

NeedsOf(p, decision) == {<<p, "comment">>} \cup IF decision = "stop" THEN {<<p, "alert">>} ELSE {}

\* The flush after the alerts, and the start of the judge sweep.  Without
\* budget the rest of the pass is skipped.
Reconstruct(k) ==
    /\ At(k, "reconstruct")
    /\ IF run[k].spent THEN Goto(k, "resolve") /\ UNCHANGED <<disk, faults>>
       ELSE /\ disk' = run[k].mem
            /\ \E new \in {Rebuilt(k), {}} :
                  /\ IF new = Rebuilt(k) THEN UNCHANGED faults ELSE Fault
                  /\ run' = [run EXCEPT
                        ![k].pc = "drain",
                        ![k].mem.outbox = @ \cup new,
                        ![k].mem.owes = @ \cup UNION {NeedsOf(p, ruling[p]) : p \in new},
                        ![k].todo = run[k].mem.outbox \cup new]
    /\ UNCHANGED <<outside, rulings, posted, lock>>

-----------------------------------------------------------------------------
(* The outbox: drain_notify_outbox and _deliver_entry.                     *)

DrainNext(k) ==
    /\ At(k, "drain") /\ ~run[k].spent
    /\ \E p \in run[k].todo :
          run' = [run EXCEPT ![k].pc = "comment", ![k].cur = p, ![k].retry = TRUE, ![k].todo = @ \ {p}]
    /\ UNCHANGED <<outside, rulings, posted, disk, lock, faults>>

DrainEnds(k) ==
    /\ At(k, "drain") /\ (run[k].todo = {} \/ run[k].spent)
    /\ run' = [run EXCEPT ![k].pc = "page", ![k].cur = 0, ![k].retry = FALSE, ![k].todo = {}]
    /\ UNCHANGED <<outside, rulings, posted, disk, lock, faults>>

Comment(k) ==
    LET p == run[k].cur IN
    /\ At(k, "comment")
    /\ IF <<p, "comment">> \in run[k].mem.owes
       THEN \E how \in Calls :
               /\ Ends(k, how)
               /\ comments' = IF how = "refused" THEN comments ELSE [comments EXCEPT ![p] = @ + 1]
               /\ run' = [run EXCEPT ![k].pc = "owner",
                             ![k].mem.owes = IF how = "returned" THEN @ \ {<<p, "comment">>} ELSE @]
       ELSE Goto(k, "owner") /\ UNCHANGED <<comments, faults>>
    /\ UNCHANGED <<outside, rulings, issues, missed, told, disk, lock>>

\* (mutant) an entry is done once its alert is out.
DoneWhenAlerted(p, owes) == <<p, "alert">> \notin owes

\* An entry is done when neither its comment nor its alert is pending.
Delivered(p, owes) == {<<p, "comment">>, <<p, "alert">>} \cap owes = {}

\* A retried entry that is done goes on to its durable flag; an entry this
\* pass has just created is marked by the next pass's drain.
AfterDelivery(k, owes) ==
    IF ~run[k].retry THEN "sweep"
    ELSE IF Delivered(run[k].cur, owes) THEN "mark" ELSE "drain"

\* The alert fails independently of the comment.
AlertOwner(k) ==
    LET p == run[k].cur
        owes(how) == IF how \in {"returned", "suppressed"} THEN run[k].mem.owes \ {<<p, "alert">>}
                     ELSE run[k].mem.owes IN
    /\ At(k, "owner")
    /\ IF <<p, "alert">> \in run[k].mem.owes
       THEN \E how \in Alerts :
               /\ Alert(k, Loop(p), how)
               /\ told' = IF how = "refused" THEN told ELSE told \cup {p}
               /\ run' = [run EXCEPT ![k].pc = AfterDelivery(k, owes(how)),
                             ![k].mem.owes = owes(how),
                             ![k].mem.open = Tracked(@, Loop(p), how)]
       ELSE /\ Goto(k, AfterDelivery(k, run[k].mem.owes))
            /\ UNCHANGED <<issues, missed, told, faults>>
    /\ UNCHANGED <<outside, rulings, comments, disk, lock>>

\* mark_notified, tolerated when it fails; the entry leaves the outbox.
Mark(k) ==
    /\ At(k, "mark")
    /\ \E how \in {"returned", "refused"} :
          /\ Ends(k, how)
          /\ notified' = IF how = "refused" THEN notified ELSE notified \cup {run[k].cur}
    /\ run' = [run EXCEPT ![k].pc = "drain", ![k].mem.outbox = @ \ {run[k].cur}]
    /\ UNCHANGED <<outside, ruling, posted, disk, lock>>

-----------------------------------------------------------------------------
(* The judge sweep.                                                        *)

\* The rows of _JUDGE_SWEEP_SQL past the cursor: quiet, undecided, not terminal.
After(cursor) == {p \in PRs : pr[p] \in {"loop", "stuck"} /\ ruling[p] = "none" /\ p > cursor}

FirstOf(S) == {p \in S : Cardinality({q \in S : q < p}) < PageSize}

\* One page; when the query fails the sweep is over and the cursor stays.
ReadPage(k) ==
    LET page == FirstOf(After(run[k].mem.cursor)) IN
    /\ At(k, "page")
    /\ \/ /\ run' = [run EXCEPT ![k].pc = "sweep", ![k].todo = page, ![k].last = 0,
                                ![k].full = Cardinality(page) = PageSize]
          /\ UNCHANGED faults
          /\ UNCHANGED disk
       \/ /\ Fault
          /\ run' = [run EXCEPT ![k].pc = "resolve", ![k].fix = run[k].mem.open]
          /\ disk' = run[k].mem
    /\ UNCHANGED <<outside, rulings, posted, lock>>

NextRow(k, p) ==
    /\ At(k, "sweep") /\ ~run[k].spent
    /\ p \in run[k].todo /\ \A q \in run[k].todo : p <= q

\* judge_pr's skips and deferrals: judged already, stuck, the PR moved on
\* since the page was read, or a read that failed.
PassOver(k, p) ==
    /\ NextRow(k, p)
    /\ IF p \in run[k].mem.judged \/ pr[p] # "loop" \/ ruling[p] # "none"
       THEN UNCHANGED faults ELSE Fault
    /\ run' = [run EXCEPT ![k].todo = @ \ {p}, ![k].last = p]
    /\ UNCHANGED <<outside, rulings, posted, disk, lock>>

\* (mutant) the PR is marked judged when the judge is asked.
AskMarking(k, p) ==
    /\ NextRow(k, p)
    /\ p \notin run[k].mem.judged /\ pr[p] = "loop" /\ ruling[p] = "none"
    /\ \E answer \in {"go", "stop"} :
          run' = [run EXCEPT ![k].pc = "prove", ![k].cur = p, ![k].ask = answer,
                             ![k].mem.judged = @ \cup {p}, ![k].todo = @ \ {p}]
    /\ UNCHANGED <<outside, rulings, posted, disk, lock, faults>>

\* Summit is asked outside every lock; a refusal, a bad answer, a timeout or
\* a failed redaction stops the loop.
Ask(k, p) ==
    /\ NextRow(k, p)
    /\ p \notin run[k].mem.judged /\ pr[p] = "loop" /\ ruling[p] = "none"
    /\ \E answer \in {"go", "stop"} :
          run' = [run EXCEPT ![k].pc = "prove", ![k].cur = p, ![k].ask = answer, ![k].todo = @ \ {p}]
    /\ UNCHANGED <<outside, rulings, posted, disk, lock, faults>>

\* The transaction begins: the defer reasons, then the authority, are read
\* again under the PR's lock.  Without budget the write does not start, the
\* sweep breaks off and the PR does not count as processed.
Prove(k) ==
    LET p == run[k].cur IN
    /\ At(k, "prove")
    /\ \/ /\ run[k].spent
          /\ run' = [run EXCEPT ![k].pc = "sweep", ![k].ask = "none", ![k].todo = {}]
          /\ UNCHANGED faults
       \/ /\ ~run[k].spent
          /\ pr[p] = "loop" /\ ruling[p] = "none"
          /\ Goto(k, "commit")
          /\ UNCHANGED faults
       \/ /\ ~run[k].spent
          /\ IF pr[p] # "loop" \/ ruling[p] # "none" THEN UNCHANGED faults ELSE Fault
          /\ run' = [run EXCEPT ![k].pc = "sweep", ![k].ask = "none", ![k].last = p]
    /\ UNCHANGED <<outside, rulings, posted, disk, lock>>

\* The INSERTs and the commit, then the judged mark and the outbox entry in
\* memory.  The answer of the commit may be lost: the sweep goes on without
\* either.
Commit(k) ==
    LET p == run[k].cur
        ask == run[k].ask
        mem == [run[k].mem EXCEPT !.judged = @ \cup {p}, !.outbox = @ \cup {p},
                                  !.owes = @ \cup NeedsOf(p, ask)] IN
    /\ At(k, "commit") /\ ~run[k].spent
    /\ ask = "go" => p \notin Conflicted
    /\ ruling' = [ruling EXCEPT ![p] = ask]
    /\ \/ /\ run' = [run EXCEPT ![k].pc = "comment", ![k].ask = "none", ![k].last = p,
                                ![k].mem = mem]
          /\ UNCHANGED faults
       \/ Fault /\ run' = [run EXCEPT ![k].pc = "sweep", ![k].ask = "none", ![k].last = p]
    /\ UNCHANGED <<outside, notified, posted, disk, lock>>

\* The write rolls back: its budget is gone, or round 6 has a job already.
RollBack(k) ==
    LET p == run[k].cur IN
    /\ At(k, "commit")
    /\ \/ /\ run[k].spent
          /\ run' = [run EXCEPT ![k].pc = "sweep", ![k].ask = "none", ![k].todo = {}]
       \/ /\ ~run[k].spent /\ run[k].ask = "go" /\ p \in Conflicted
          /\ Goto(k, "conflict")
    /\ UNCHANGED <<outside, rulings, posted, disk, lock, faults>>

\* The owner hears of the job that blocks the escalation.
AlertConflict(k) ==
    LET f == Conflict(run[k].cur) IN
    /\ At(k, "conflict")
    /\ \E how \in Alerts :
          /\ Alert(k, f, how)
          /\ run' = [run EXCEPT ![k].pc = "sweep", ![k].last = run[k].cur, ![k].ask = "none",
                                ![k].mem.open = Tracked(@, f, how)]
    /\ UNCHANGED <<outside, rulings, comments, told, disk, lock>>

\* (mutant) a short page does not wrap to the top.
CursorUnwrapped(k) == IF run[k].last = 0 THEN run[k].mem.cursor ELSE run[k].last

\* Past the last processed row, or back to the top after a short page.
CursorAfter(k) ==
    IF ~run[k].full THEN 0
    ELSE IF run[k].last = 0 THEN run[k].mem.cursor ELSE run[k].last

SweepEnds(k) ==
    LET mem == [run[k].mem EXCEPT !.cursor = CursorAfter(k)] IN
    /\ At(k, "sweep") /\ (run[k].todo = {} \/ run[k].spent)
    /\ disk' = mem
    /\ run' = [run EXCEPT ![k] = [Off EXCEPT
                    !.pc = "resolve", !.mem = mem, !.sick = run[k].sick, !.spent = run[k].spent,
                    !.fix = IF run[k].spent THEN {} ELSE mem.open]]
    /\ UNCHANGED <<outside, rulings, posted, lock, faults>>

-----------------------------------------------------------------------------
(* The end of the pass.                                                    *)

\* A loop alert and a job conflict end when Zeus records merged or ready; the
\* job row itself is never removed.
Fixed(k, f) == IF f = Service THEN ~run[k].sick ELSE pr[f[2]] = "left"

\* (mutant) the entry is dropped whether or not the issue was closed.
StillOpenDropped(open, f, how) == open \ {f}

\* The entry is dropped only after the close.
StillOpen(open, f, how) == IF how = "returned" THEN open \ {f} ELSE open

\* _resolve_fixed on one tracked alert.
Resolve(k, f) ==
    /\ At(k, "resolve") /\ f \in run[k].fix
    /\ IF Fixed(k, f)
       THEN \E how \in Calls :
               /\ Close(k, f, how)
               /\ run' = [run EXCEPT ![k].fix = @ \ {f}, ![k].mem.open = StillOpen(@, f, how)]
       ELSE run' = [run EXCEPT ![k].fix = @ \ {f}] /\ UNCHANGED <<issues, missed, faults>>
    /\ UNCHANGED <<outside, rulings, comments, told, disk, lock>>

\* The last flush, and the release of the lock.
Exit(k) ==
    /\ At(k, "resolve") /\ run[k].fix = {}
    /\ disk' = run[k].mem
    /\ lock' = NoPass
    /\ run' = [run EXCEPT ![k] = Off]
    /\ UNCHANGED <<outside, rulings, posted, faults>>

-----------------------------------------------------------------------------
(* Faults and the world.                                                   *)

BudgetSpent(k) ==
    /\ ~At(k, "off") /\ ~run[k].spent
    /\ Fault
    /\ run' = [run EXCEPT ![k].spent = TRUE]
    /\ UNCHANGED <<outside, rulings, posted, disk, lock>>

\* The process dies; the kernel drops its flock.
Death(k) ==
    /\ ~At(k, "off")
    /\ Fault
    /\ run' = [run EXCEPT ![k] = Off]
    /\ lock' = IF lock = k THEN NoPass ELSE lock
    /\ UNCHANGED <<outside, rulings, posted, disk>>

Move == moves < MaxMoves /\ moves' = moves + 1

ServiceFlips ==
    /\ Move
    /\ up' = ~up
    /\ UNCHANGED <<pr, rulings, posted, disk, lock, run, faults>>

\* Zeus or the author acts on the PR, it goes quiet with its loop still open
\* or stuck, or Zeus records it merged or ready.
Moves(p) ==
    /\ Move
    /\ pr[p] # "left"
    /\ \E now \in Situations \ {pr[p]} : pr' = [pr EXCEPT ![p] = now]
    /\ UNCHANGED <<up, rulings, posted, disk, lock, run, faults>>

PassStep(k) ==
    \/ Checks(k) \/ AlertBroken(k) \/ Reconstruct(k)
    \/ DrainNext(k) \/ DrainEnds(k) \/ Comment(k) \/ AlertOwner(k) \/ Mark(k)
    \/ ReadPage(k) \/ Prove(k) \/ Commit(k) \/ RollBack(k) \/ AlertConflict(k) \/ SweepEnds(k)
    \/ \E p \in PRs : PassOver(k, p) \/ Ask(k, p)
    \/ \E f \in Fingerprints : Resolve(k, f)
    \/ Exit(k)

World ==
    \/ ServiceFlips \/ \E p \in PRs : Moves(p)
    \/ \E k \in Passes : BudgetSpent(k) \/ Death(k)

Next == (\E k \in Passes : Begin(k) \/ PassStep(k)) \/ World

Spec == Init /\ [][Next]_vars

\* The timer keeps starting passes, and the pass that runs gets on: every
\* call it makes has a timeout.  (While one runs, none begins.)
Fairness == WF_vars(\E k \in Passes : Begin(k) \/ PassStep(k))

LiveSpec == Spec /\ Fairness

-----------------------------------------------------------------------------
(* Properties.                                                             *)

\* The state file never knows of a ruling the table does not have: neither a
\* judged marker nor an outbox entry reaches the disk before its decision is
\* committed (judge.py, _escalate and _stop).
FileFollowsTable ==
    disk.judged \cup disk.outbox \subseteq {p \in PRs : ruling[p] # "none"}

\* A problem has a second open issue only when a search missed the one it had,
\* and no more of them than such misses: no lost answer, death, failed close
\* or overlapping pass makes one (alert.py, Alerter.alert).
SecondIssueMissed == \A f \in Fingerprints : issues[f] <= 1 + missed[f]

\* A decision marked notified has its comment on the PR, and a stop has
\* reached the owner (judge.py, _deliver_entry; store.py, mark_notified).
NotifiedWasTold ==
    \A p \in notified : comments[p] >= 1 /\ (ruling[p] = "stop" => p \in told)

\* A ruling is posted on its PR once, and once more for a fault at most: a
\* pass never repeats what another one delivered and saved (at-least-once
\* alerting, judge.py, drain_notify_outbox and reconstruct_pending_notifications).
RepeatsHaveCauses == \A p \in PRs : comments[p] <= 1 + faults

\* A committed ruling is always told: its comment and, for a stop, the
\* owner's alert get out whatever pass died between the commit and the flush
\* (judge.py, drain_notify_outbox and reconstruct_pending_notifications).
RulingsAreTold ==
    \A p \in PRs : ruling[p] # "none" ~> comments[p] >= 1 /\ (ruling[p] = "stop" => p \in told)

\* No quiet loop starves behind others that defer on every pass: the cursor
\* walks past them and wraps around (__main__.py, _judge_sweep).
LoopsAreJudged ==
    \A p \in PRs \ Conflicted :
        pr[p] = "loop" ~> ruling[p] # "none" \/ pr[p] # "loop"

\* The issue of a tracked alert whose problem is gone is closed unless the
\* problem comes back or a search missed an issue of it: a failed close keeps
\* its entry (__main__.py, _resolve_fixed).
TrackedAlertsClose ==
    \A f \in Fingerprints :
        LET gone == IF f = Service THEN up ELSE pr[f[2]] = "left" IN
        f \in disk.open /\ gone ~> issues[f] = 0 \/ ~gone \/ missed[f] > 0

=============================================================================
