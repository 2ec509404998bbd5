-------------------------------- MODULE MCNode --------------------------------
(* FleetResume in NODE MODE: one VM, a worker per GPU on a shared disk, a unit for each. *)
EXTENDS FleetResume

MCVm == {"vm"}
MCHost == [w \in Worker |-> "vm"]
MCOwner == [u \in Unit |-> u - 1]
=============================================================================
