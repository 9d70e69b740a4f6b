---------------------------- MODULE MCLLMFailover ----------------------------
(* LLMFailover on small instances.                                         *)
EXTENDS LLMFailover, TLC

CONSTANTS p1, p2, p3

\* Three profiles; a later session may find two of them, in the other order.
Edited == {<<p1, p2, p3>>, <<p3, p1>>}

\* Two profiles that a later session may find in the other order.
Reordered == {<<p1, p2>>, <<p2, p1>>}
=============================================================================
