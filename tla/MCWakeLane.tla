---------------------------- MODULE MCWakeLane ----------------------------
(* WakeLane with model values for TLC; the .cfg files set the bounds.      *)
EXTENDS WakeLane
=============================================================================
