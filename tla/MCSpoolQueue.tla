---------------------------- MODULE MCSpoolQueue ----------------------------
(* SpoolQueue on small instances.                                          *)
EXTENDS SpoolQueue
=============================================================================
