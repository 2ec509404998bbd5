------------------------------ MODULE AtomicDisk ------------------------------
(***************************************************************************)
(* What src/soe/io/shards.py promises of a machine's disk: a unit's shard  *)
(* is absent or complete, its marker comes after the shard, and what       *)
(* run_unit returned is lost only with all of a directory that was new at  *)
(* a power loss.  NodeDisk shows when the code keeps it.  FleetResume      *)
(* takes a disk to be like this and knows no power loss.                   *)
(***************************************************************************)
CONSTANTS
    Unit,
    Dir         \* Dir[u]: the directory of u's shard and marker

VARIABLES
    shards,     \* units whose shard is there, complete
    marks,      \* units whose marker is there, complete
    returned,   \* units whose run_unit returned their path, and whose directory is not lost
    settled     \* directories that a power loss does not take

vars == <<shards, marks, returned, settled>>

Dirs == {Dir[u] : u \in Unit}
In(gone) == {u \in Unit : Dir[u] \in gone}

Init == shards = {} /\ marks = {} /\ returned = {} /\ settled = {}

\* write_shard's rename: the complete file appears, or replaces another.
PutShard ==
    /\ \E u \in Unit : shards' = shards \cup {u}
    /\ UNCHANGED <<marks, returned, settled>>

\* write_marker: only beside a shard.
PutMarker ==
    /\ \E u \in shards : marks' = marks \cup {u}
    /\ UNCHANGED <<shards, returned, settled>>

Return ==
    /\ \E u \in marks : returned' = returned \cup {u}
    /\ UNCHANGED <<shards, marks, settled>>

\* The machine loses power: directories that were not settled may go with all in them, and
\* of the others what was not yet returned, a marker before its shard. What is there
\* afterwards is settled.
PowerLoss ==
    \E gone \in SUBSET (Dirs \ settled) :
        /\ shards' \in SUBSET (shards \ In(gone))
        /\ marks' \in SUBSET (marks \cap shards')
        /\ returned' = returned \ In(gone) /\ returned' \subseteq marks'
        /\ settled' \in SUBSET Dirs /\ settled \subseteq settled'
        /\ \A u \in shards' : Dir[u] \in settled'

Next == PutShard \/ PutMarker \/ Return \/ PowerLoss
Spec == Init /\ [][Next]_vars
=============================================================================
