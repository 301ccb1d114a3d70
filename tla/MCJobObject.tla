----------------------------- MODULE MCJobObject -----------------------------
(* Instances of JobObject for TLC: its constants are all in the cfg files. *)
EXTENDS JobObject
=============================================================================
