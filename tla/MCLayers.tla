------------------------------- MODULE MCLayers -------------------------------
(* Instances of Layers, over CommandWrap, for TLC. *)
EXTENDS Layers

\* Flags without and with the one that JobObject uses itself.
SomeFlags == {{"CREATE_NO_WINDOW"}, {"CREATE_NO_WINDOW", "CREATE_SUSPENDED"}}

=============================================================================
