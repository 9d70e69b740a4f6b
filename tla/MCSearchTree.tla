---------------------------- MODULE MCSearchTree ----------------------------
(* SearchTree on small instances.                                          *)
EXTENDS SearchTree
=============================================================================
