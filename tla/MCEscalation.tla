---------------------------- MODULE MCEscalation ----------------------------
(* Finite instances of Escalation for TLC: head SHAs are model values and  *)
(* interchangeable; advice numbers are ordered and are not.                *)
EXTENDS Escalation, TLC

HeadSymmetry == Permutations(Heads)
=============================================================================
