------------------------------- MODULE MCFleet -------------------------------
(* FleetResume in FLEET MODE: single-worker VMs 0 and 1; the plan's last unit belongs to *)
(* worker 2, whose VM Azure declined to create.                                          *)
EXTENDS FleetResume

MCHost == [w \in Worker |-> IF w = 0 THEN "vm0" ELSE "vm1"]
MCVm == {"vm0", "vm1"}
MCOwner == [u \in Unit |-> IF u = 1 THEN 0 ELSE 2]
=============================================================================
