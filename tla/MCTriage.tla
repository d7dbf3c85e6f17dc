------------------------------- MODULE MCTriage -------------------------------
(* Triage with two heads of one PR for TLC; the .cfg sets the bounds.      *)
EXTENDS Triage, TLC

\* A green verdict on the first head, a red one on the next.
Verdicts == {<<1, TRUE>>, <<2, FALSE>>}

ThreadSymmetry == Permutations(Workers)

\* States that differ only in columns nobody reads any more are one state:
\* the outcome and the stamp of a wake row, the attempts of a settled row, the
\* token of a run that has ended, and a run's authority and round once used.
RowView(w) ==
    [state   |-> job[w].state,
     lease   |-> job[w].lease,
     attempt |-> IF job[w].state = "done" THEN 0 ELSE job[w].attempt,
     token   |-> IF \E t \in Workers : job[w].token = t /\ run[t].wake = w
                 THEN job[w].token ELSE NoToken]

RunView(t) ==
    [run[t] EXCEPT !.auth = @ /\ run[t].pc \in {"agent", "merge", "call"},
                   !.round = IF run[t].pc \in {"order", "phase"} THEN @ ELSE 0]

View == <<[w \in Wakes |-> RowView(w)], [t \in Workers |-> RunView(t)],
          ledger, builder, inst, gh, orders, debits, spent>>
=============================================================================
