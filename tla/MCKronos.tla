------------------------------ MODULE MCKronos ------------------------------
(* Kronos with model values for TLC; the .cfg sets the bounds.             *)
EXTENDS Kronos
=============================================================================
