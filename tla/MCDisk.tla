-------------------------------- MODULE MCDisk --------------------------------
(* NodeDisk with two workers and a unit for each. *)
EXTENDS NodeDisk

MCOwner == [u \in Unit |-> u - 1]
MCDir == [u \in Unit |-> u]
=============================================================================
