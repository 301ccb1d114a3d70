-------------------------- MODULE MCWaitWithOutput ---------------------------
(* Instances of WaitWithOutput for TLC: its constants are all in the cfg. *)
EXTENDS WaitWithOutput
=============================================================================
