------------------------------ MODULE JobLease ------------------------------
(***************************************************************************)
(* What the durable job store promises its lanes, without rows, tokens,    *)
(* stamps or threads: a job is owned through a lease that can lapse.       *)
(*                                                                         *)
(*  - only a free job can be acquired, and only by an idle claimant;       *)
(*  - while the lease is live nobody but the owner's own run ends the      *)
(*    ownership, and a claimant that lost its ownership changes nothing;   *)
(*  - a lapsed lease can be renewed by its owner or broken by anybody.     *)
(*                                                                         *)
(* WakeLane, BuilderLane and Triage implement this specification (their    *)
(* LeaseRefined).                                                          *)
(***************************************************************************)
CONSTANTS Jobs, Claimants, NoJob, NoOwner

VARIABLES owner,    \* [Jobs -> Claimants or NoOwner]
          lapsed,   \* the owned jobs whose lease has run out
          run       \* [Claimants -> the job each one is working, or NoJob]

leaseVars == <<owner, lapsed, run>>

Free(j) == owner[j] = NoOwner

LeaseInit ==
    /\ owner = [j \in Jobs |-> NoOwner]
    /\ lapsed = {}
    /\ run = [c \in Claimants |-> NoJob]

Acquire(c, j) ==
    /\ Free(j) /\ run[c] = NoJob
    /\ owner' = [owner EXCEPT ![j] = c]
    /\ run' = [run EXCEPT ![c] = j]
    /\ UNCHANGED lapsed

\* The owner's run ends and gives the job back.
GiveBack(c, j) ==
    /\ run[c] = j /\ owner[j] = c
    /\ owner' = [owner EXCEPT ![j] = NoOwner]
    /\ lapsed' = lapsed \ {j}
    /\ run' = [run EXCEPT ![c] = NoJob]

\* A run ends without touching any ownership: the owner walked away, or the
\* claimant had lost its job to somebody else.
WalkAway(c) ==
    /\ run' = [run EXCEPT ![c] = NoJob]
    /\ UNCHANGED <<owner, lapsed>>

Lapse(j) ==
    /\ ~Free(j)
    /\ lapsed' = lapsed \cup {j}
    /\ UNCHANGED <<owner, run>>

Renew(c, j) ==
    /\ run[c] = j /\ owner[j] = c
    /\ lapsed' = lapsed \ {j}
    /\ UNCHANGED <<owner, run>>

\* Recovery, a re-delivery or a park: only lapsed leases are broken.
Break(broken) ==
    /\ broken \subseteq lapsed
    /\ owner' = [j \in Jobs |-> IF j \in broken THEN NoOwner ELSE owner[j]]
    /\ lapsed' = lapsed \ broken
    /\ UNCHANGED run

\* The claimants' process dies; the leases it held stay.
Crash ==
    /\ run' = [c \in Claimants |-> NoJob]
    /\ UNCHANGED <<owner, lapsed>>

LeaseNext ==
    \/ \E c \in Claimants, j \in Jobs : Acquire(c, j) \/ GiveBack(c, j) \/ Renew(c, j)
    \/ \E c \in Claimants : WalkAway(c)
    \/ \E j \in Jobs : Lapse(j)
    \/ \E broken \in SUBSET Jobs : Break(broken)
    \/ Crash

LeaseSpec == LeaseInit /\ [][LeaseNext]_leaseVars
=============================================================================
