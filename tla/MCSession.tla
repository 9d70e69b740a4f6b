------------------------------ MODULE MCSession ------------------------------
(* One instance of Session for TLC. *)
EXTENDS Session

==============================================================================
