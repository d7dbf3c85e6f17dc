---------------------------- MODULE AdviceLedger ----------------------------
(***************************************************************************)
(* What the escalation of one pull request promises about an advice and    *)
(* the builder round it leads to, without markers, rows, passes, retries   *)
(* or failures of a statement:                                             *)
(*                                                                         *)
(*  - an advice comes to one outcome, decided or parked, and keeps it;     *)
(*  - it is decided only after the advisor has answered it, and parked     *)
(*    only once nothing can come of it any more;                           *)
(*  - a decision orders the round with its plan, never a round that is     *)
(*    active, and never twice in a row with the same plan;                 *)
(*  - Kronos orders the round only if nobody has, and no advice is decided.*)
(*                                                                         *)
(* Escalation implements this specification (its LedgerRefined).           *)
(***************************************************************************)
CONSTANTS Advices, Nobody

VARIABLES advisor,   \* what the poll of each advice comes to
          outcome,   \* what has become of each advice
          round      \* the escalated round and the advice whose plan it carries

ledgerVars == <<advisor, outcome, round>>

LedgerInit ==
    /\ advisor = [a \in Advices |-> "unposted"]
    /\ outcome = [a \in Advices |-> "none"]
    /\ round = [state |-> "none", plan |-> Nobody]

\* The advisor's side of an advice.
Polled(a, before, after) ==
    /\ advisor[a] \in before
    /\ advisor' = [advisor EXCEPT ![a] = after]
    /\ UNCHANGED <<outcome, round>>

Submit(a) == Polled(a, {"unposted"}, "waiting")
Answer(a) == Polled(a, {"waiting"}, "plan")
GiveUp(a) == Polled(a, {"waiting", "plan"}, "hopeless")

\* An advice without an outcome gets one.
Settle(a, before, after) ==
    /\ advisor[a] \in before
    /\ outcome[a] = "none"
    /\ outcome' = [outcome EXCEPT ![a] = after]
    /\ UNCHANGED <<advisor, round>>

ParkAdvice(a) == Settle(a, {"hopeless"}, "parked")
DecideAdvice(a) == Settle(a, {"plan", "hopeless"}, "decided")

\* The decided advice a orders the round.
Order(a) ==
    /\ outcome[a] = "decided"
    /\ round.state # "active" /\ round.plan # a
    /\ round' = [state |-> "active", plan |-> a]
    /\ UNCHANGED <<advisor, outcome>>

\* Kronos rules that the round goes ahead.
Rule ==
    /\ round.state = "none"
    /\ \A a \in Advices : outcome[a] # "decided"
    /\ round' = [state |-> "active", plan |-> Nobody]
    /\ UNCHANGED <<advisor, outcome>>

\* The builder lane works on the round it was ordered, with its plan.
LaneMoves == {<<"active", "done">>, <<"active", "lapsed">>,
              <<"lapsed", "active">>, <<"lapsed", "done">>}

Lane ==
    /\ \E m \in LaneMoves : round.state = m[1] /\ round' = [round EXCEPT !.state = m[2]]
    /\ UNCHANGED <<advisor, outcome>>

LedgerNext ==
    \/ \E a \in Advices :
         \/ Submit(a) \/ Answer(a) \/ GiveUp(a)
         \/ ParkAdvice(a) \/ DecideAdvice(a) \/ Order(a)
    \/ Rule \/ Lane

LedgerSpec == LedgerInit /\ [][LedgerNext]_ledgerVars
=============================================================================
