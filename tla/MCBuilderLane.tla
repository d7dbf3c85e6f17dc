--------------------------- MODULE MCBuilderLane ---------------------------
(* BuilderLane with model values for TLC; the .cfg files set the bounds.   *)
EXTENDS BuilderLane
=============================================================================
