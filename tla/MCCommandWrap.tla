---------------------------- MODULE MCCommandWrap ----------------------------
(* Instances of CommandWrap for TLC. *)
EXTENDS CommandWrap

\* Flags without and with the one that JobObject uses itself.
SomeFlags == {{"CREATE_NO_WINDOW"}, {"CREATE_NO_WINDOW", "CREATE_SUSPENDED"}}

=============================================================================
