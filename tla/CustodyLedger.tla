---------------------------- MODULE CustodyLedger ----------------------------
(***************************************************************************)
(* What the resume protocol promises, with everything about VMs, passes    *)
(* and uploads taken away.  For each unit of the plan: which VMs hold its  *)
(* shard, which VMs consider it finished, whether the object store has its *)
(* shard, and whether the store records it as complete.                    *)
(*                                                                         *)
(* A VM that considers a unit finished never generates it again, so the    *)
(* whole of resume correctness is that such a belief is always backed by   *)
(* bytes somewhere (scripts/objstore.sh:63-68).                            *)
(***************************************************************************)
CONSTANTS Vm, Unit

VARIABLES
    stored,    \* units whose shard is in the object store
    recorded,  \* units whose completion marker is in the object store
    holds,     \* holds[v]: units whose shard is on VM v's disk
    trusted    \* trusted[v]: units VM v has a completion marker for

vars == <<stored, recorded, holds, trusted>>

Init ==
    /\ stored = {}
    /\ recorded = {}
    /\ holds = [v \in Vm |-> {}]
    /\ trusted = [v \in Vm |-> {}]

Produce(v, u) ==
    /\ holds' = [holds EXCEPT ![v] = @ \cup {u}]
    /\ UNCHANGED <<stored, recorded, trusted>>

\* A VM vouches for a unit it produced.
Vouch(v, u) ==
    /\ u \in holds[v]
    /\ trusted' = [trusted EXCEPT ![v] = @ \cup {u}]
    /\ UNCHANGED <<stored, recorded, holds>>

Publish(v, u) ==
    /\ u \in holds[v]
    /\ stored' = stored \cup {u}
    /\ UNCHANGED <<recorded, holds, trusted>>

\* The store records a unit only on the word of a VM, and only once it has the shard.
Record(v, u) ==
    /\ u \in trusted[v] \cap stored
    /\ recorded' = recorded \cup {u}
    /\ UNCHANGED <<stored, holds, trusted>>

\* A VM takes the store's word for a unit.
Learn(v, u) ==
    /\ u \in recorded
    /\ trusted' = [trusted EXCEPT ![v] = @ \cup {u}]
    /\ UNCHANGED <<stored, recorded, holds>>

\* The VM's disk is gone, its beliefs with it.
Lose(v) ==
    /\ holds' = [holds EXCEPT ![v] = {}]
    /\ trusted' = [trusted EXCEPT ![v] = {}]
    /\ UNCHANGED <<stored, recorded>>

Next ==
    \E v \in Vm :
        \/ Lose(v)
        \/ \E u \in Unit :
            Produce(v, u) \/ Vouch(v, u) \/ Publish(v, u) \/ Record(v, u) \/ Learn(v, u)

Spec == Init /\ [][Next]_vars
=============================================================================
