----------------------------- MODULE MCIteration -----------------------------
(* Iteration on small instances.                                           *)
EXTENDS Iteration
=============================================================================
