----------------------------- MODULE ArtifactTree -----------------------------
(***************************************************************************)
(* One arm's artifact tree over the life of an experiment: planned         *)
(* (gen/planner.py), generated (gen/runner.py), graded (grade/runner.py,   *)
(* cli.py), verified (verify.py) and loaded for analysis                   *)
(* (analysis/pipeline.py), while the operator may edit chunk_size and      *)
(* n_workers between commands and delete shards to have them regenerated.  *)
(*                                                                         *)
(* A path is <<pshard, chunk>>: nothing else of a unit is in its file name *)
(* (the sampling id leaves chunk_size out, config.py:104-121).  A shard is *)
(* the set of samples <<problem, sample>> it holds and the take, the       *)
(* answers of one generation of it.                                        *)
(***************************************************************************)
EXTENDS Naturals, FiniteSets

CONSTANTS
    P,          \* problems 0..P-1 of the dataset
    N,          \* n_total: samples 0..N-1 of each problem
    Chunk,      \* chunk sizes the operator may configure
    Workers,    \* fleet sizes the operator may configure
    Shrink,     \* whether n_workers may be lowered
    Take,       \* distinguishable generations of a shard
    None,       \* no file
    Commands,   \* among "rechunk", "resize", "delete", "redo", "grade": what the operator does
    MaxEdits    \* bound on edits of the config and deletions

ASSUME TreeAssumption ==
    /\ P \in Nat \ {0} /\ N \in Nat \ {0}
    /\ Chunk \subseteq {c \in 1..N : N % c = 0} /\ Chunk # {}  \* SamplingSpec._check
    /\ Workers \subseteq Nat \ {0} /\ Workers # {}
    /\ Shrink \in BOOLEAN
    /\ Commands \subseteq {"rechunk", "resize", "delete", "redo", "grade"}
    /\ MaxEdits \in Nat

VARIABLES
    cfg,     \* the config file: chunk size and number of workers
    plan,    \* the config plan.jsonl was last written from
    shard,   \* the shard at each path
    mark,    \* its completion marker: the unit's id and the payload's sha
    graded,  \* the graded parquet at each path: the shard it grades
    gmark,   \* whether its marker is there
    busy,    \* the file a running command has written and not yet marked
    edits

vars == <<cfg, plan, shard, mark, graded, gmark, busy, edits>>

Problem == 0..P - 1
Config == [chunk : Chunk, workers : Workers]
Path == (0..P - 1) \X (0..N - 1)
Sample == Problem \X (0..N - 1)
Shard == [rows : SUBSET Sample, take : Take]

ASSUME NoneAssumption == None \notin Shard

\* partition_problems: round robin.
Partition(c, w) == {i \in Problem : i % c.workers = w}

\* build_plan: a unit for every pshard that has problems and every chunk of its samples.
Units(c) ==
    {u \in Path : u[1] < c.workers /\ Partition(c, u[1]) # {} /\ u[2] < N \div c.chunk}

Lo(c, k) == k * c.chunk
Hi(c, k) == Lo(c, k) + c.chunk

\* unit_id: hashes pshard and sample range, not chunk_idx and not the problems.
Id(c, u) == <<u[1], Lo(c, u[2]), Hi(c, u[2])>>
Ids(c) == {Id(c, u) : u \in Units(c)}

\* run_unit's rows: every problem of the unit, every sample of its range.
RowsOf(c, u) == Partition(c, u[1]) \X (Lo(c, u[2])..Hi(c, u[2]) - 1)

Idle == [kind |-> "idle"]

TypeOK ==
    /\ cfg \in Config
    /\ plan \in Config
    /\ shard \in [Path -> Shard \cup {None}]
    /\ \A u \in Path : mark[u] = None \/ mark[u].sha \in Shard
    /\ graded \in [Path -> Shard \cup {None}]
    /\ gmark \in [Path -> BOOLEAN]
    /\ busy.kind \in {"idle", "gen", "grade"}
    /\ edits \in 0..MaxEdits

Init ==
    /\ cfg \in Config
    /\ plan = cfg
    /\ shard = [u \in Path |-> None]
    /\ mark = [u \in Path |-> None]
    /\ graded = [u \in Path |-> None]
    /\ gmark = [u \in Path |-> FALSE]
    /\ busy = Idle
    /\ edits = 0

Edit == edits < MaxEdits /\ edits' = edits + 1

-----------------------------------------------------------------------------
(* The operator *)

\* chunk_size is edited, as config.py:108-109 allows.
Rechunk(c) ==
    /\ "rechunk" \in Commands /\ busy = Idle /\ c # cfg.chunk
    /\ Edit
    /\ cfg' = [cfg EXCEPT !.chunk = c]
    /\ UNCHANGED <<plan, shard, mark, graded, gmark, busy>>

\* n_workers is edited, which the documents warn against.
Resize(n) ==
    /\ "resize" \in Commands /\ busy = Idle
    /\ n > cfg.workers \/ (Shrink /\ n < cfg.workers)
    /\ Edit
    /\ cfg' = [cfg EXCEPT !.workers = n]
    /\ UNCHANGED <<plan, shard, mark, graded, gmark, busy>>

\* "Delete the affected shards and regenerate" (verify.py:201): a shard and its marker,
\* before it is graded or (redo) after.
Delete(u) ==
    /\ busy = Idle /\ mark[u] # None
    /\ (IF gmark[u] THEN "redo" ELSE "delete") \in Commands
    /\ Edit
    /\ shard' = [shard EXCEPT ![u] = None]
    /\ mark' = [mark EXCEPT ![u] = None]
    /\ UNCHANGED <<cfg, plan, graded, gmark, busy>>

-----------------------------------------------------------------------------
(* soe plan, generate, grade *)

\* write_plan replaces plan.jsonl; launch_node.sh does so before it generates.
WritePlan ==
    /\ busy = Idle
    /\ plan' = cfg
    /\ UNCHANGED <<cfg, shard, mark, graded, gmark, busy, edits>>

\* run_experiment builds its units from the config: plan.jsonl is not read.
Remaining == {u \in Units(cfg) : mark[u] = None}

\* soe generate takes up a remaining unit.  Only launch_node.sh plans before it generates.
WriteShard(u, t) ==
    /\ busy = Idle /\ u \in Remaining
    /\ shard' = [shard EXCEPT ![u] = [rows |-> RowsOf(cfg, u), take |-> t]]
    /\ busy' = [kind |-> "gen", at |-> u]
    /\ UNCHANGED <<cfg, plan, mark, graded, gmark, edits>>

\* Mutant: the marker names the chunk instead of the sample range.
WriteMarkerChunkId ==
    /\ busy.kind = "gen"
    /\ mark' = [mark EXCEPT ![busy.at] =
          [id |-> <<busy.at[1], busy.at[2], busy.at[2]>>, sha |-> shard[busy.at]]]
    /\ busy' = Idle
    /\ UNCHANGED <<cfg, plan, shard, graded, gmark, edits>>

WriteMarker ==
    /\ busy.kind = "gen"
    /\ mark' = [mark EXCEPT ![busy.at] = [id |-> Id(cfg, busy.at), sha |-> shard[busy.at]]]
    /\ busy' = Idle
    /\ UNCHANGED <<cfg, plan, shard, graded, gmark, edits>>

\* Mutant: uncertified shards are graded too.
GradeAnyShard(u) ==
    /\ "grade" \in Commands /\ busy = Idle /\ shard[u] # None
    /\ ~gmark[u]
    /\ graded' = [graded EXCEPT ![u] = shard[u]]
    /\ busy' = [kind |-> "grade", at |-> u]
    /\ UNCHANGED <<cfg, plan, shard, mark, gmark, edits>>

\* soe grade walks the shard files: a marked one without a grade marker is graded.
GradeShard(u) ==
    /\ "grade" \in Commands /\ busy = Idle /\ shard[u] # None /\ mark[u] # None
    /\ ~gmark[u]
    /\ graded' = [graded EXCEPT ![u] = shard[u]]
    /\ busy' = [kind |-> "grade", at |-> u]
    /\ UNCHANGED <<cfg, plan, shard, mark, gmark, edits>>

MarkGraded ==
    /\ busy.kind = "grade"
    /\ gmark' = [gmark EXCEPT ![busy.at] = TRUE]
    /\ busy' = Idle
    /\ UNCHANGED <<cfg, plan, shard, mark, graded, edits>>

\* The command dies between a file and its marker.
Crash ==
    /\ busy # Idle
    /\ busy' = Idle
    /\ UNCHANGED <<cfg, plan, shard, mark, graded, gmark, edits>>

Next ==
    \/ \E c \in Chunk : Rechunk(c)
    \/ \E n \in Workers : Resize(n)
    \/ WritePlan \/ WriteMarker \/ MarkGraded \/ Crash
    \/ \E u \in Path : Delete(u) \/ GradeShard(u) \/ \E t \in Take : WriteShard(u, t)

Spec == Init /\ [][Next]_vars

-----------------------------------------------------------------------------
(* verify_experiment and the analysis gate, as functions of the tree *)

Done == {u \in Units(plan) : mark[u] # None}

\* Mutant: no orphan check.
OrphansTolerated == TRUE

\* Every marker anywhere in the tree carries the id of a planned unit.
NoOrphans == \A u \in Path : mark[u] # None => mark[u].id \in Ids(plan)

\* verify_shard: the shard is there and has the bytes its marker vouches for.
ShardsIntact == \A u \in Done : shard[u] # None /\ shard[u] = mark[u].sha

\* No seed, hence no sample, occurs in two planned shards.
SeedsUnique == \A u, v \in Done : u # v => shard[u].rows \cap shard[v].rows = {}

\* The samples of problem i in planned shards.
SamplesOf(i) == UNION {{s \in shard[u].rows : s[1] = i} : u \in Done}

\* Every problem that occurs has equally many samples.
NotRagged ==
    \A i, j \in Problem :
        SamplesOf(i) # {} /\ SamplesOf(j) # {} =>
            Cardinality(SamplesOf(i)) = Cardinality(SamplesOf(j))

\* Deep verify without the completeness requirement: what run_analysis asks for.
GateOK == NoOrphans /\ ShardsIntact /\ SeedsUnique /\ NotRagged

\* _covered: every done unit has a grade marker and the parquet beside it.
Covered == \A u \in Done : gmark[u] /\ graded[u] # None

\* soe verify with a target grading, its default settings.
VerifyOK == GateOK /\ Done = Units(plan) /\ Covered

\* load_graded takes every marked parquet of the tree, and refuses a repeated sample.
Loaded == {u \in Path : gmark[u] /\ graded[u] # None}
LoadOK == \A u, v \in Loaded : u # v => graded[u].rows \cap graded[v].rows = {}

-----------------------------------------------------------------------------
EachSampleOnce == \A s \in Sample : Cardinality({u \in Done : s \in shard[u].rows}) = 1

\* A tree that verify passes has every sample of every problem exactly once, whatever the
\* operator did to chunk_size, however n_workers grew and whether or not soe plan was run
\* before each generation, so long as it was run again before verify (verify.py:1-7).
VerifiedExact == plan = cfg /\ GateOK /\ Done = Units(plan) => EachSampleOnce

\* Whatever plan.jsonl verify finds, a tree that passes against it is whole: "Analysis must not
\* run until this passes" (verify.py:1-4, 66), and a fleet of another size in the same tree
\* shows as duplicate seeds (azure/README.md:149-152).
PassMeansWhole == GateOK /\ Done = Units(plan) => EachSampleOnce

\* A finished and graded run of an untouched config is accepted: verify raises no false alarm.
FinishedRunVerifies ==
    edits = 0 /\ busy = Idle /\ Done = Units(plan) /\ Covered => VerifyOK /\ LoadOK

\* What analysis loads from a tree that verify passes are the grades of the very answers in
\* the tree, each once (grade/runner.py:1-8, verify.py:97-107), even after a shard is deleted
\* and generated anew (verify.py:1-3, 201).
AnalysisSeesTree ==
    VerifyOK /\ LoadOK =>
        {graded[u] : u \in Loaded} = {shard[u] : u \in Done}
=============================================================================
