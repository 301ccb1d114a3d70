--------------------------- MODULE MCTokioJobObject ---------------------------
(* Instances of TokioJobObject for TLC: its constants are all in the cfg. *)
EXTENDS TokioJobObject
=============================================================================
