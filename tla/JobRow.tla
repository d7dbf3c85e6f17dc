------------------------------- MODULE JobRow -------------------------------
(***************************************************************************)
(* One row of the neo_jobs table (src/src/jobs.py) and the SQL statements  *)
(* that change it.  Every method of Jobs is one autocommitted UPDATE or    *)
(* upsert, so each operator below is the effect of one atomic statement on *)
(* the row it hits, next to the WHERE clause that lets it hit.             *)
(*                                                                         *)
(* Abstractions: a lease is only "none" (NULL), "live" or "expired"; a     *)
(* claimant's random token is the identity of the claiming thread (a       *)
(* thread forgets a token before it draws the next one and every claim     *)
(* overwrites the column, so an old token never matches a later claim of   *)
(* the same thread); payload text is left out.                             *)
(***************************************************************************)
EXTENDS Naturals

CONSTANTS Claimants,     \* the threads that claim jobs
          NoToken,       \* the NULL of the worker_token column
          MaxAttempts    \* max_attempts, the same for every row

States == {"absent", "queued", "running", "done"}

\* resolve()'s terminal outcomes, plus "failed" of a row retry() re-queued
\* and "none" for NULL.
TerminalOutcomes == {"done", "no_change", "no_installation", "superseded", "parked"}

Outcomes == TerminalOutcomes \cup {"failed", "none"}

Leases == {"none", "live", "expired"}

Rows == [state     : States,
         outcome   : Outcomes,
         attempt   : Nat,
         lease     : Leases,
         token     : Claimants \cup {NoToken},
         submitted : BOOLEAN]

Absent == [state |-> "absent", outcome |-> "none", attempt |-> 0,
           lease |-> "none", token |-> NoToken, submitted |-> FALSE]

-----------------------------------------------------------------------------
\* create_wake / create_builder: the upsert inserts a missing row and re-arms
\* a terminal or expired-running one; any other row is a duplicate.
Creatable(r) ==
    \/ r.state \in {"absent", "done"}
    \/ r.state = "running" /\ r.lease = "expired"

\* The re-arm leaves worker_token alone.  `stamp` is what submitted_at becomes.
Created(r, stamp) ==
    [r EXCEPT !.state = "queued", !.outcome = "none", !.lease = "none",
              !.attempt = 0, !.submitted = stamp]

\* (mutant) a claim that does not look at the state of the row.
ClaimableAlsoRunning(r) == r.state \in {"queued", "running"}

\* claim / claim_queued: a queued row only; the attempt is counted here.
Claimable(r) == r.state = "queued"

Claimed(r, t) ==
    [r EXCEPT !.state = "running", !.attempt = @ + 1,
              !.lease = "live", !.token = t]

\* (mutant) the gate forgets whose token is on the row.
HeldByAnyone(r, t) == r.state = "running"

\* The claimant gate of resolve, retry, note, lease and release.
HeldBy(r, t) == r.state = "running" /\ r.token = t

Resolved(r, outcome) ==
    [r EXCEPT !.state = "done", !.outcome = outcome,
              !.lease = "none", !.token = NoToken]

\* (mutant) the cap is noticed one attempt late.
ExhaustedLate(r) == r.attempt > MaxAttempts

\* retry: back to queued, or parked in the same statement at the cap.
Exhausted(r) == r.attempt >= MaxAttempts

\* (mutant) a retry that keeps submitted_at.
RetriedKeepingStamp(r) ==
    [r EXCEPT !.state = IF Exhausted(r) THEN "done" ELSE "queued",
              !.outcome = IF Exhausted(r) THEN "parked" ELSE "failed",
              !.lease = "none", !.token = NoToken]

Retried(r) ==
    [r EXCEPT !.state = IF Exhausted(r) THEN "done" ELSE "queued",
              !.outcome = IF Exhausted(r) THEN "parked" ELSE "failed",
              !.lease = "none", !.token = NoToken, !.submitted = FALSE]

\* park without a token needs a row that no live lease protects; with a token
\* it needs the claimant's own row.  Neither clears worker_token.
ParkableBare(r) ==
    r.state \in {"queued", "running"} /\ r.lease # "live"

ParkableBy(r, t) ==
    r.state \in {"queued", "running"} /\ r.token = t

Parked(r) ==
    [r EXCEPT !.state = "done", !.outcome = "parked", !.lease = "none"]

\* lease: the renewal never looks at the old expiry.
Renewed(r) == [r EXCEPT !.lease = "live"]

\* (mutant) the recovery forgets to compare lease_expires with now().
RecoverableEarly(r) == r.state = "running"

\* recover_expired: the run is presumed dead, the attempt was already counted.
Recoverable(r) == r.state = "running" /\ r.lease = "expired"

\* (mutant) the recovery leaves the lease, or the stamp, on the queued row.
RecoveredKeepingLease(r) ==
    [r EXCEPT !.state = "queued", !.token = NoToken, !.submitted = FALSE]

RecoveredKeepingStamp(r) ==
    [r EXCEPT !.state = "queued", !.lease = "none", !.token = NoToken]

Recovered(r) ==
    [r EXCEPT !.state = "queued", !.lease = "none",
              !.token = NoToken, !.submitted = FALSE]

\* (mutant) a running round is closed as well.
SupersedableRunning(r) == r.state \in {"queued", "running"}

\* supersede_older: an older round of the PR that still waits is closed.
Supersedable(r) == r.state = "queued"

Superseded(r) == [r EXCEPT !.state = "done", !.outcome = "superseded"]

\* Time passing over an unrenewed lease (the now() of every comparison).
Lapsed(r) == [r EXCEPT !.lease = "expired"]

\* mark_submitted / clear_submitted / reset_queued_submissions: the stamp of
\* an existing row, whatever its state.
Stamped(r, stamp) == IF r.state = "absent" THEN r ELSE [r EXCEPT !.submitted = stamp]
=============================================================================
