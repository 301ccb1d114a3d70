--------------------------- MODULE MCProcessGroup ---------------------------
(* Instances of ProcessGroup for TLC. *)
EXTENDS ProcessGroup

\* Every child is the leader of a group of its own.
AllLeaders == [h \in Children |-> None]

\* Child "b" is attached to the group of child "a".
AttachedToA == [h \in Children |-> IF h = "b" THEN "a" ELSE None]

=============================================================================
