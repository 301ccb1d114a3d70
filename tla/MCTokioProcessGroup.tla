------------------------ MODULE MCTokioProcessGroup -------------------------
(* Instances of TokioProcessGroup for TLC. *)
EXTENDS TokioProcessGroup

\* Every child is the leader of a group of its own.
AllLeaders == [h \in Children |-> None]

=============================================================================
