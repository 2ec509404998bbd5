# Verification of SharpeningOrExpansion

TLA+ models of the experiment harness in this repository, the TLC runs that
check them on small instances, and TLAPS proofs of the results that matter most
for instances of every size. Paths below are relative to the repository root.

The harness generates model answers to benchmark problems on a fleet of
preemptible GPU machines that share nothing but an object store, grades them,
verifies the resulting tree of files and analyses it. Its hard part is not any
one computation but the *bookkeeping*: which unit of work is finished, who may
skip it, which problem a seed stands for, whether a file on disk still is what a
marker says it is, and whether a machine that costs money is still working.

## 1. Inventory

| Component | State it keeps | Operations | Modelled in |
|---|---|---|---|
| Planner (`src/soe/gen/planner.py`, `config.py`, `paths.py`, `ids.py`) | `plan.jsonl`; unit ids; file names | `partition_problems`, `build_plan`, `write_plan`, `remaining_units` | ArtifactTree, FleetResume |
| Seeding (`seeding.py`) | none: a pure layout | `seed_base`, `seed_for`, `unpack` | Seeding, Provenance |
| Shards and markers (`io/shards.py`, `io/markers.py`) | zstd JSONL shard and JSON marker per unit | `_atomic_write`, `write_shard`, `write_marker`, `is_done`, `sweep_tmp` | NodeDisk, FleetResume |
| Generation runner (`gen/runner.py`) | the pass over the plan | `run_unit`, `run_experiment` (own pass, steal pass) | FleetResume, NodeDisk |
| Object store (`scripts/objstore.sh`) | shards, markers, manifests, logs of all machines | `objstore_push`, `objstore_pull_markers`, `objstore_pull_dir`, `objstore_publish_once` | FleetResume, ManifestElection |
| Node launcher (`scripts/launch_node.sh`) | script position, helpers, exit status | pull, election, probe, workers, periodic push, eviction push, cleanup | FleetResume, ManifestElection |
| Azure fleet (`azure/launch.sh`, `bootstrap.sh`, `reap.sh`) | VMs by name, heartbeat blobs | create, bootstrap stages, autostart, alive loop, reap | Reaper |
| Registry and manifests (`registry.py`, `data/loaders.py`) | numbers of models, datasets and problems | `check_freeze`, `write_freeze`, `write_manifest`, `read_manifest` | Provenance, ManifestElection |
| Grading (`grade/*.py`) | graded parquet and marker per unit | `grade_shard`, `grade_rows`, `extract`, `answer_token_pos`, `permuted_golds`, graders | ArtifactTree (files), Extraction (answers), Analysis (columns), Provenance (golds) |
| Verification (`verify.py`) | none: reads the tree | `verify_experiment` | ArtifactTree |
| Analysis (`analysis/*.py`) | none: reads the tree | `run_analysis` gate, `load_graded`, `build_tensor`, adjustments, pass@k, decomposition, crossover, bootstrap | ArtifactTree (gate and loading), Analysis |
| Command line (`cli.py`) | the operator's config file | `plan`, `prepare`, `generate`, `grade`, `verify`, `analyze`, `registry` | as steps of the above |

How they interact. `launch.sh` creates VMs named `soe-w<i>`, each with
`bootstrap.sh` as first-boot script, which starts `launch_node.sh`. That script
pulls the markers, agrees with the other VMs on a problem manifest, writes the
plan, and starts generation workers as processes on its disk; while they run, a
syncer and an eviction watcher push the tree to the store. Workers on one disk
see each other's markers; VMs see each other only through what was in the store
when they started. Later, one machine pulls everything, grades, verifies and
analyses. Beside all this the operator runs `reap.sh`, which deletes VMs by the
age of the heartbeat each uploads.

Hard behaviours: pushes that run while files appear under them; markers that
travel without their shards; two workers at one unit; a VM lost between any two
steps; transfers that fail half way and are ignored; a lead that never comes;
files left by a run that was killed; a config edited between two commands; and
decisions made on a snapshot of somebody else's heartbeat.

What makes each component correct:

* **resume** - a marker never vouches for a shard that is nowhere; no unit is
  skipped that nobody has; a clean exit means the whole experiment is stored;
  survivors finish what lost VMs left; marker and shard agree byte for byte.
* **election** - every plan was made from one manifest per dataset; a published
  manifest is final; every VM gets to a plan or to a refusal.
* **disk** - a marker stands for a whole shard through kills, power losses and other
  workers' sweeps; what was reported as written stays as long as its directory does;
  somebody finishes the plan.
* **provenance** - different samples have different seeds, a seed names its sample
  although registries grow and VMs come and go, and an answer is graded against the
  gold of the question that was asked.
* **tree** - a tree that verify passes against the present config's plan holds each
  sample once, and the analysis sees the grades of exactly those samples.
* **extraction** - every outermost balanced box is read once; nesting one box in
  another (as far as the rounds of unwrapping reach) and cutting off the head of a
  completion do not change the answer; its position is as good an estimate as the
  text's tokens per character allow.
* **analysis** - a cell of a tensor is a graded sample; the decomposition accounts
  for the whole gap; what one adjustment does to the lattice does not depend on
  an accident of order; a resample is the same estimate with other weights.
* **reaper** - working VMs live, dead ones go, finished ones go.

## 2. Modules

| Module | What it is |
|---|---|
| `CustodyLedger` | Abstract specification of the resume protocol: which units are stored, recorded, held and trusted, and the only ways these sets may change. |
| `FleetResume` | The detailed protocol: store, disks, scripts, pushes, workers, faults. Refines `CustodyLedger`. |
| `FleetResume_proofs` | Theorems about it. |
| `MCFleet`, `MCNode` | Instances: two one-worker VMs with two units, and one VM with two workers. |
| `ManifestElection`, `ManifestElection_proofs` | The election, and its theorems. TLC runs the module itself. |
| `AtomicDisk` | Abstract disk: a shard or a marker appears in one step and never tears; a power loss takes a returned unit only with all of a new directory. |
| `NodeDisk`, `NodeDisk_proofs` | `_atomic_write` call by call, with several workers, kills and power losses; implements `AtomicDisk` where no unit has two writers. |
| `MCDisk` | The instance: two workers, one unit each. |
| `ArtifactTree`, `MCTree`, `ArtifactTree_proofs` | One arm's files from plan to analysis under an operator who edits the config and deletes shards, and theorems for every size. |
| `Seeding` | The seed layout and its inverse, for every field width. |
| `Provenance`, `Provenance_proofs` | Composes `Seeding` with what feeds it: registries, manifests, machines, grading; and the theorems of both. |
| `MCProvenance` | The instance, two arms of one model among them. |
| `Extraction`, `Extraction_proofs` | What the grader reads out of a completion: tail, boxes, last integer, position; and theorems for completions and tails of every length. |
| `PassK` | The pass@k estimator in exact arithmetic, its closed form and its meaning. |
| `Analysis`, `MCAnalysis` | From answers and golds to graded rows, tensors, adjusted gaps, Shapley values, curves and a resample; the samples of the instance. |
| `Analysis_proofs` | The laws of finite sums, products and factorials, and theorems about tensors, lattice, curves, resamples and estimator for every frame. |
| `Reaper`, `MCReaper` | Heartbeats and the reaper, with the stage limits of the instances. |
| `Reaper_proofs` | Working VMs are spared, for every fleet and every threshold. |

A definition whose comment starts with "Mutant:" is a faulty variant of the
definition below it, the way a plausible bug in that code would make it. Nothing
uses it; each property was seen to fail when the variant takes the place of the
definition, which shows that the property depends on that code.

### FleetResume

State and code: `sdata`/`smark` are the store's shards and markers, `ldata`/
`lmark` each VM's; a file is a payload or `None`, and a marker *is* the payload
hash it carries (`markers.py:17-58`). `script[v]` is the line `launch_node.sh`
has reached, `pulling[v]` the markers `objstore_pull_markers` has yet to fetch.
A push (`phase`, `snap`, `walk`) is `objstore_push`: the marker list is frozen
first (`Snapshot`), pass 1 walks all shards in any order and copies those that
exist when it gets there, pass 2 copies the frozen markers. `Slot` is who may
push concurrently. A worker (`pass`, `todo`, `stage`, `out`) is
`run_experiment`: `todo` is the remaining-unit list as it was when the pass
began, `TakeUnit` the is-done test, `EnterWriteShard` the marker test of
`write_shard`, `ReplaceShard` its rename, `WriteMarker` what follows.
`Copied(new, old)` leaves open which of two payloads survives a copy onto an
existing object: azcopy compares modification times, `aws s3 sync` size and time
and only `cp -f` always overwrites.

Faults, bounded by `MaxFaults`: any copy or pull failing, a worker failing, TERM
to the script, a crash that keeps the disk, an eviction that does not. A power loss
is neither: what it can take from a disk is NodeDisk's matter, and FleetResume has
none.

### ManifestElection

`store` holds the published manifest of each dataset and `local` each disk's;
`left` and `tries` are the loop the script is in. The script's `if !
have_manifest` block is `FirstPull`, `Prepare`, `PublishOnce`/`Put`, `Poll`,
`Discard`, `Repull`; `PushManifest` is the later overwriting push of the tree by
a VM that has planned. `AtomicPublish` says whether the copy of publish-once
refuses to replace what was published since its test: TRUE for azcopy with
`--overwrite=false` (an assumption about azcopy) and the `cp -n` of the `file`
backend, FALSE for `aws s3 cp`. `KeptDisk` says whether
a killed script may run again on its old disk.

### ArtifactTree

A path is `<<pshard, chunk>>`, as in `paths.py`; a shard the set of samples in it
and a `take` that tells one generation of it from another; a marker the unit's id
and the sha. `Rechunk`/`Resize` edit the config, `WritePlan` is `soe plan`,
`WriteShard`/`WriteMarker` and `GradeShard`/`MarkGraded` are the two halves of a
unit of generation and grading with a crash possible between them, `Delete` the
operator's removal of a shard. `soe generate` takes its units from the config
(`Remaining`) and never reads `plan.jsonl`, `soe verify` takes them from `plan.jsonl`
(`Units(plan)`): `plan` is the config it was last written from, and nothing but
`launch_node.sh`, which plans and then generates, keeps the two alike. `verify_experiment` is the conjunction `GateOK`,
plus completeness and `Covered` for `soe verify`.

### NodeDisk

`name[f]` is what a directory entry shows (nothing, or an empty, torn or whole
file), `tmp[f]` the same for its `.tmp`, `fd[w]` the file a worker's open
descriptor leads to (the `.tmp`, the renamed file, or an unlinked inode); `nameSafe`,
`tmpSafe` and `linked` are what fsync and the directory fsync have made durable,
and `old[f]` the version a power loss may bring back. `place[d]` says whether a
directory is there, and whether the entry that names it is durable, which no line of
the code makes it: a power loss takes any of the directories made since the last one,
with all in them, and what it leaves is durable from then on. A missing directory
above a shard's own is one with the shard's. `Open`, `Write`, `Fsync`,
`Rename`/`RenameFails`, `DirSync` are the lines of `_atomic_write`, run twice per
unit: for the shard, then for the marker. `Sweep` is `sweep_tmp` at a worker's
start. A rename whose `.tmp` another worker has renamed or swept raises, and the
worker dies (`Dies`). `clash` collects the units of which two live workers had a
file open at once; it is a history variable and no action reads it.

### Seeding and Provenance

The seed is a number in mixed radix; the widths are parameters (the code's are
powers of two, and its shifts and masks are the products and remainders of the
model). `InRange` is what the code accepts. `Provenance` supplies the digits: `reg`
is the registry pair at the head, `frozen` what `FREEZE.md` holds, `checkout[m]` what
a VM cloned and `soe registry check` accepted, `manifest[m][d]` the numbering of
the problems it uses, `published[d]` the one in the store. `TakeManifest` is the
outcome of ManifestElection in one step; `RunUnit` draws the seeds of one problem
and records the question's id, `GradeUnit` looks the gold up by problem number.

### Extraction

The state is a completion that grows symbol by symbol, so that each state is what
a smaller token budget would have left. `\boxed{` is one symbol; blanks, signs
and commas, which `extract.py` strips, are left out, and so is the wording
`answer is`. `Close` is `_balanced_after`, `iter_boxed` the scan that resumes
behind each box it has taken, `unwrap_nested` its four rounds. Every symbol is
one unit of text. How the text is divided into tokens is free: `Emit` lets any
number of tokens of `Density` begin at a symbol, none where it continues the token
before, and `begun` counts them, so that `answer_token_pos` has a share of the text
to turn into a share of `n_completion_tokens`. It rounds the exact quotient; the
code rounds a floating-point product, which may fall on the other side of a tie.

### Analysis

A `Sample` is what generation leaves: an answer (a number or `NoInt`), its two
positions and its length. `grade_rows` turns it into a row of the graded file by
comparing the answer with the gold and with the gold of the problem `NullOf`
names, the derangement of `permuted_golds`.
`df` is the frame `load_graded` concatenates, one row at a time in any order.
`Buildable` collects the errors of `build_tensor`; `usable` stands for the
columns that another grader configuration leaves null, `variant` for the prompt
variant and sampling id. `AnalysisState` is what `run_analysis` passes on; a cell
keeps the observed outcome as `shared`, because the alternates given there are
the observed matrices. `apply_C2` to `apply_C7` and `apply_set` are the functions
of those names. `Decompose` raises when a coalition leaves no problem, and
`Replicate` is one bootstrap draw, and `caught_up` the test by which `crossover_k`
looks for the first k at which the base model's curve meets the other's. Arithmetic is exact, over a common
denominator, where the code compares floats with a tolerance of 1e-8: the model
says nothing about rounding.

### Reaper

`vm[v]` is the record of the VM of that name: bootstrap stage, age, the last line
of its local log with its age, whether `beat` stands before its upload, whether
the alive loop is due, and the job. `blob[v]` is the last line of the uploaded
log. A run of `reap.sh` is `ReadClock`, `Download`, `List`, a `Judge` per VM and
a `Delete` per condemned VM, both in the order of the listing (a VM's number is
its place there), with time passing between them (`lag`). Downloads and queries are
`|| true`; a deletion is not, and the first that fails ends the run under `set -e`
(`DeleteFails`), so that the VMs after it stay. A VM in `Broken` exists from the
start, with its bootstrap failed before azcopy was there. `Autostart` says whether the job is
started by bootstrap, as `launch.sh` has it, or by an operator over ssh.

## 3. Runs

Every passing run is exhaustive for its constants.

| Run | Shows | Bounds, and why they suffice |
|---|---|---|
| `fleet` | `NoOrphanMarker`, `Custody`, `CleanExitComplete`, refinement of `CustodyLedger`, `EventuallyComplete` | 2 VMs, 2 units, one of them owned by a worker that was never launched, 1 fault anywhere. Two VMs and a contended unit are what the protocol's races need, one VM may be lost for good, and the theorems lift the safety part to any size. |
| `node_safety` | `SweptInv`, the inductive invariant of the proofs | 1 VM, 2 workers on one disk, syncer and watcher pushing together, 2 faults. |
| `election` | `OneManifest`, `WriteOnce`, `EventuallyPlanned` | 3 VMs, 2 datasets, 2 revisions, 1 stop (of the lead, too), 1 failing transfer, 2 polls, 3 re-pulls: a lead, a taker-over and a bystander. |
| `node_disk` | `MarkedIsWhole`, `SurvivorCovers`, `ReturnedStaysDone`, `ActsAtomically`, `EventuallyMarked` | 2 workers, one unit each that the other may steal, in a directory of its own, 2 faults (kills, power losses): both workers can be inside one unit's files, a power loss can follow a kill or another one, and can take one directory and leave the other. More units repeat the same pairwise races. |
| `tree` | `VerifiedExact`, `AnalysisSeesTree`, `FinishedRunVerifies` | 3 problems over 1 or 2 workers (an uneven partition), 2 samples, 2 generations of a shard that can be told apart and are otherwise interchangeable (symmetry), 2 edits, crashes, and generation under a config that was planned or not. |
| `provenance` | `SeedsUnique`, `SeedsTraceable`, `BlocksDisjoint`, `GoldMatchesQuestion` | 2 VMs that may be recreated at any time, 2 models, 2 variants, 2 epochs, 1 edit of the registries (a renumbering among them), hub rows in two orders, and numbers one past each field. |
| `reaper` | `WorkingSpared`, `DeadReaped` | Two names: a VM that failed before it could publish anything (`Broken`), and behind it in the listing one that does all that a VM can. Thresholds and a run of the reaper of 1 tick, any upload, download or az call failing: every order of beat, upload, clock reading and download, and a deletion that fails before the other VM's turn. A verdict looks at one VM only; what a run does about several is the queue of deletions, which takes two. |
| `extraction` | `OutermostBoxes`, `WrapHarmless`, `TailDecides`, `PositionCalibrated` | All completions of up to 6 symbols over one digit, one letter, both braces and the box, read through a tail of 5, and no or two tokens beginning at each symbol: three boxes, one inside another inside a further one, a cut at every place of a box or a number, tokens longer and shorter than a symbol before, in and behind the answer. Deeper nests than the four rounds of unwrapping need 12 symbols; the proofs cover them. |
| `analysis` | `OnlyHolesPadded`, `Efficiency`, `C7IsNull`, `C4NeedsTwins`, `TopDecides`, `ReplicateReweighs`, `TailGapIsHardZero`, `NoCrossoverIsExpansion`, `PassKIsSubsetShare` | All frames from 20 samples: two models, problems in two datasets, some of which share their answer, up to two samples each, with unequal counts, problems one arm lacks, a null column, a second prompt variant, lucky solves and late answers; all 64 coalitions and all resamples. |

Three runs each violate one statement of the repository's documentation or
comments; they are disagreements between text and code, found while modelling:

| Run | What the trace shows |
|---|---|
| `tree_stale_grade` | A regenerated shard keeps the grades of the deleted answers; verify passes. |
| `analysis_hole` | A problem with graded rows of one model only: `build_tensor` scores the other model's missing samples as wrong, which `tensors.py:123-129` says it does not. |
| `reaper_finished` | `job-exit` stays behind the alive loop's lines; a finished VM is never deleted. |

## 4. What the conditions exclude

Several properties hold under a constant's value or a condition that can be changed;
what happens then is worth knowing. Each of these was seen in a trace of the model.
Properties named here that no run lists (`PassMeansWhole`, `RenameSurvives`,
`C5KeepsWhatFits` and others) are in the modules: put in a run's cfg with the
constants said here, they fail.

* `Shrink = TRUE` (ArtifactTree): lowering `n_workers` gives existing units other
  problems under the same id and path; `VerifiedExact` fails, verify passes
  with problems missing. `azure/README.md:149-152` expects duplicate seeds
  to be reported, which need not exist.
* A stale plan (ArtifactTree): `VerifiedExact` speaks of the plan of the config as it now
  is, as after a `soe plan` before `soe verify`; earlier generations may have run under
  any other. Without that condition it is `PassMeansWhole`, which fails in the constants
  of run `tree`: plan for one worker, edit to two, generate worker 0's units without a
  new `soe plan`, and verify passes with the other problems missing, because it compares ids and
  never `problem_idxs`. `verify.py:1-4` calls itself the gate against "numbers that look
  fine and are wrong"; `launch_node.sh:184` plans before it generates.
* Re-chunking mid-run: `seeding.py:9-11` says it cannot reissue a seed. The
  file name holds `chunk_idx` and no sample range, so from chunk size 2 to 1 the
  old chunk 0 keeps its path and chunk 1 generates one of its samples again. Verify
  then rejects the tree, which is what `VerifiedExact` needs.
* `run_analysis` asks for less than `soe verify` (`GateOK` instead of
  `VerifyOK`), against `verify.py:1`: an incomplete tree is analysed.
* `AtomicPublish = FALSE` (ManifestElection): `objstore_publish_once` on s3 is a
  test and then a copy that overwrites, so the second of two publishers wins;
  `OneManifest` fails, against the "first writer wins" of `objstore.sh:171`.
* `KeptDisk = TRUE` (ManifestElection): a prepared, unpublished manifest survives
  a kill and satisfies `have_manifest`, so the block that re-pulls
  (`launch_node.sh:164-166`) is skipped; `OneManifest` fails.
* Several payloads per unit (FleetResume): two VMs that steal the same unit and
  push in alternation leave one's shard under the other's marker, and
  `AssembledTreeVerifies` fails. It needs a backend whose bytes differ between
  machines, as `fingerprint.py` says vLLM's do.
* Tokens of unequal length (Extraction): `PositionCalibrated` says on which side of the
  answer the recorded position lies, and needs to know how many tokens per symbol
  there are before it. Where they are fewer than in the whole completion, the position
  is late and C5 drops what the budget left (`C5KeepsUnrepeated` fails with
  `Density = {0, 1, 3}` and `MaxLen = 5`); where they are more, it is early and C5 keeps
  what the budget would have cut. `tokenpos.py:3-6` calls the analysis "exact afterwards".
* A repeated answer (Extraction): `find_answer_char` takes its last occurrence, behind
  the box, and C5 drops it at the budgets in between, even with one token per symbol
  (`C5KeepsWhatFits`, `Density = {1}`).
* `TAIL < MaxLen` (Extraction): `grade_rows` takes a place in the tail for a place
  in the whole completion, so an answer at the start of the tail gets position 0;
  the lower bound of `PositionCalibrated` is for completions that the tail holds. The
  tail can also cut off the first of two boxes, so that `boxed_strict` accepts the
  other.
* Six or more boxes in one another (Extraction): `_unwrap_nested` stops after four
  rounds and the box that is left stays in the answer, which then equals no gold,
  against `extract.py:65` ("it should not count as a miss"). `WrapHarmless` therefore
  has a condition on the number of closed boxes; a proof without it failed, which
  completions of 6 symbols could not show.
* The position is that of the box, whatever policy is analysed: with `last_int`, a
  correct answer without a box has no position and C5 counts it as wrong.
* Two workers inside one unit (NodeDisk, `SOE_GPUS_PER_WORKER` below the number of
  GPUs): they share the unit's `.tmp` path, so one may truncate what the other
  is about to rename, and a *marker then stands for an empty or torn shard*, which
  `shards.py:7-10` rules out; `MarkerMeansComplete` in NodeDisk fails. Needed
  are a steal of a unit its owner is just writing, and then a loss of the worker
  that would have finished the write; verify finds it by the hash.
* A directory that is new at a power loss (NodeDisk, `RenameSurvives`): POSIX lets it
  go with everything in it, although every file was fsynced. ext4, and other file
  systems that commit a new directory with the first fsync inside it, do not;
  `ReturnedStaysDone` is what holds on all of them. The lost units have no marker
  either, so a relaunch generates them again.
* `run_unit` is not restartable after a lost rename race: the loser raises
  `FileNotFoundError` and its worker process ends. `SurvivorCovers` shows that one
  of two always remains.
* Two variants of one model and dataset share their seeds, in the repository's own
  configuration: `stage1` asks `qwen25m7b_base` on `aime_2026` with `zeroshot_boxed`
  and `fewshot4_math`, and `SeedKey` (`seeding.py:45-50`) has no variant, while
  `seeding.py:3-5` promises a seed per sample. `SeedsUnique` therefore speaks of one
  variant; verify counts seeds per arm and sees nothing.
* `Refreeze = TRUE` (Provenance): `write_freeze` freezes whatever loads, a
  renumbering included, against `FREEZE.md:8-11`; old seeds then decode to another
  model, and `SeedsTraceable` and `SeedsUnique` fail. Verify looks for
  duplicates per arm only (`verify.py:4` says "globally").
* `check_freeze` compares the registries with `FREEZE.md` as they are now, in
  `bootstrap.sh:189` when a VM starts and in `verify.py:59-61`; the seeds on disk are
  compared with neither. A registry edited on one machine for a generation there and
  edited back passes.
* `Shared = FALSE` (Provenance): every machine prepares its own manifest. Where the
  hub serves other rows in between, VM1 generates and VM2 grades against another
  problem's answer: `GoldMatchesQuestion` fails. `grade_rows` looks golds up
  by number and ignores the row's `problem_uid`, and verify's drift check
  (`verify.py:206-216`) compares rows with rows, which agree if each problem was
  generated by one machine. `loaders.py:3-6` has a re-push become "a hard error";
  `read_manifest` hashes the stored questions again and never asks the hub.
* The null golds (Analysis): a sample counts as lucky if the answer it gave equals
  the answer of *another* problem, and as correct if it equals its own. C4 can take
  out a correct sample only where two problems have one answer; `C4NeedsTwins`
  shows that its gap is otherwise exactly zero, although `adjustments.py:88-89`
  and `mock_backend.py:12` and `:122` describe it as an estimate of lucky guesses.
* A last push that fails is hidden by `|| true`: `CleanExitComplete` speaks of a
  push that succeeded, because status 0 alone does not mean the work is stored.
* A heartbeat download that fails (`reap.sh:39` ignores it) leaves every VM without
  a heartbeat, and working VMs past the deadline are deleted; `OnlyIdleReaped` fails.
* `Relaunch = TRUE` (Reaper): blobs are named after the VM and never removed, so a
  new VM is judged by its namesake's last heartbeat and can be deleted young.
* `Autostart = FALSE` (Reaper): without `SOE_CONFIG` bootstrap ends with `ready` and asks
  the operator to start the job; nothing beats any more, and `STALE_MIN` later the working VM
  is deleted, against `reap.sh:12-13`: `WorkingSpared` fails.
* A deletion that fails every time (a lock): `reap.sh:87` has no `|| true`, so each run of the
  reaper ends there and no VM listed later is ever deleted. `DeadReaped` needs the
  fairness that no VM's deletion fails for ever.
* `Limit["clone"] > Stale` (Reaper): the dependency install comes after a
  published beat, so `STALE_MIN` and not the "generous" `DEADLINE_MIN` decides.

## 5. Fairness

* FleetResume: a script that was launched and the processes it started keep
  running unless stopped (`WF` on each script's, push's and worker's steps), and
  each VM is launched once. No fairness for relaunching a lost VM, for eviction
  notices, or for the syncer: the final push suffices.
* NodeDisk: `WF` on each worker's steps; none for kills, power losses, relaunches. A
  worker is never asked to wait for another, so its own scheduling is enough.
* Provenance, ArtifactTree, Analysis, Extraction: safety only.
* ManifestElection: `WF` on each script's own steps; none for losses and failures.
* Reaper: the scripts on a VM go on, time passes, the operator runs `reap.sh`
  with `DRY_RUN=0` again and again, `az vm list` does not fail for ever (`SF` on
  `List`), nor does `az vm delete` of a VM it is asked for again and again (`SF` on
  each `Delete`), which is about Azure and not the code; section 4 says what happens
  without. `SF` on `Tick` because a run of the reaper may begin and end within one. `Tick` waits for an upload in progress, a due alive beat and a
  stage at its limit: that is the timing assumption under which thresholds mean
  anything.

## 6. Proofs

All theorems hold for every value of the constants under the named assumptions.

* **`MarkerImpliesShard`, `SkippedUnitsExist`, `TypeCorrect`** (FleetResume). Neither
  property is inductive: a push about to copy a marker needs to know its shard is
  there. `PushInv` supplies it: a snapshotted unit's shard is in the store *or
  still to be visited* in pass 1, and the place can only be left with a copy because
  the local shard exists (`Custody`) or the store has it. In pass 2 every
  snapshotted unit is stored. `WorkerInv` carries a worker over the gap between
  shard and marker. `IInv` is their conjunction; one lemma per action.
* **`SweptInductive`, `CleanExitMeansComplete`** add `SweepInv` (what the steal pass has left behind
  is marked on the disk, because markers are never removed from a live disk) and
  `FinalInv` (a script due to exit 0 pushes a snapshot of the whole plan).
* **`ImplementsLedger`**: initial states map to initial states and each action to
  one step of the ledger or a stutter, with `IInv` for the cases where a push
  records a unit.
* **`FleetSharesOneManifest`, `PublicationIsFinal`** (ManifestElection), assuming
  `AtomicPublish` and `~KeptDisk`; the invariant says that after the discard a disk
  holds published manifests only, and that everything used is published.
  Section 4 shows that neither assumption can be dropped.
* **`MarkerVouches`, `ReturnedIsFinal`, `ImplementsAtomicDisk`, `OneWorkerVouches`**
  (NodeDisk). A unit outside `clash` has one writer at most, and `OneWriter` says what
  that writer has made of its `.tmp`: empty before the write, whole after it, or
  swept away. `NameInv` says that what is renamed was fsynced, so that a
  power loss brings back a whole version or none, and that a marker's shard is
  durable before the marker is opened. `ReturnedInv` carries `run_unit`'s result
  over power losses that leave its directory, and `PlaceInv`, that what is written has
  a directory, gives the settled directories of `AtomicDisk`. With one worker `clash`
  stays empty, so on the Azure fleet no unit is excepted.
* **`SomebodySurvives`** (NodeDisk), for any number of workers. A worker is *bereft* when
  its `.tmp` has been taken and its next call will raise. `CoverInv` keeps, while there is no kill
  or power loss, a living worker that is not bereft, because whoever takes a
  file away, by a rename or a sweep, is alive and at a step that cannot fail; and it
  keeps that a steal pass leaves behind nothing unmarked. So the survivor, when done, has seen
  the whole plan marked.
* **`VerifiedTreeExact`, `LoadedGradesAreOfTree`, `FinishedRunIsAccepted`** (ArtifactTree).
  The invariant says that each marked shard is the content some past config gives
  its path (`MadeFor`), for a fleet no larger than the config's if fleets only grow, and
  `plan = cfg` makes that a bound by the plan. If
  no marker is an orphan, the chunk size must be the plan's (`SameChunks`); what
  remains is arithmetic: if m shards were cut round robin for at most m workers each
  and do not overlap, all were cut for m (`Cover`, by the least shard that is not: its
  extra problem belongs to a later shard, or to an earlier one that is right).
  `~Shrink` and `plan = cfg` are both needed, as section 4 says. For `LoadedGradesAreOfTree` the assumption is
  that no graded shard is deleted; `tree_stale_grade` shows the need for it.
* **`UnpackInverts`** (Seeding): each digit is recovered by division with remainder,
  for all field widths. **`OneSeedOneSample`, `SeedsDecode`, `SeedBlocksDisjoint`,
  `GoldsMatch`** (Provenance) lift it to the fleet: every checkout is a part of what is
  frozen, because only additions are frozen, so every row's digits are those of a
  current entry (`RowsSeeded`), and every row's question is that of the published
  manifest (`RowsAsked`).
* **`C7IsExactNull`, `FullSetDecides`** (Analysis), for every frame: every cell of a
  tensor carries its observed outcome as alternate (`CellObserved`), so replacing
  one by the other is the identity (`SharedIsObserved`) wherever `apply_set` does
  it; and only C2 and C3 touch the weights (`LiveOf`), from conditions that the
  other adjustments do not change, so the full set leaves the fewest problems.
* **`C4IdleWithoutTwins`** (Analysis): without two problems of one answer no sample
  equals both golds, so `apply_C4` masks wrong samples only.
* **`RowsFillTensors`** (Analysis): `build_tensor` sorts the rows of a problem by sample
  index and these differ, so the rank of a row is a bijection onto `1..n`: every cell is a row and
  every row a cell. Only problems without any row of a model are padded
  (`analysis_hole`).
* **`ValuesAddUp`** (Analysis): summed over the adjustments, the gap of a coalition that
  of m out of n that is neither empty nor full enters with a minus once for each of the n - m
  players outside it, and with a plus once for each of the m inside; with the
  factorial weights both come to the same (`OrdersMeet`) and only the two ends are left.
* **`TailIsHardZero`, `AbsentMeansExpansion`, `EstimatesAreShares`**: at `k = n` the
  estimate is 0 or 1, so that a curve counts the problems with a correct sample; for
  every `k` the product of the code is a quotient of falling factorials
  (`FallingProduct`), and that is the share of the k-subsets without a correct sample
  (`SubsetsCounted`, by Pascal's rule).
* **`BootstrapReweighs`**: `apply_set` does to a problem drawn twice what it does to the
  problem (`Mirrors`, adjustment by adjustment), so the sum over draws is the sum over
  problems, each taken as often as it was drawn.
* The four last rest on the laws of finite sums at the head of `Analysis_proofs`. No
  induction theorem can be used (they take a predicate as a parameter), so each induction
  runs over a *set* of witnesses: the naturals, or the subsets of a finite set,
  for which the claim holds (`CountingUp`, `AddingUp`). The sums of the
  community modules are recursive functions under a `CHOOSE`; `TableExists` shows that the
  table they choose exists, and so gives the recursion. `FactorialExists` and, in
  Extraction, `ScanExists` do the same for the factorial and the fold of `iter_boxed`.
* **`BoxesAreOutermost`** (Extraction): the depth adds up along a text (`DepthSplit`), so groups
  nest (`Nesting`): what is opened in a closed group is closed before it. The scan
  (`ScannedTo`) therefore resumes behind the last outermost box, and a box it passes over is
  inside one it has taken.
* **`WrappingHarmless`**: what a box contains has the same groups, moved (`ClosedMoved`), without
  the box itself, so each round of unwrapping that changes anything leaves fewer closed
  boxes (`FewerBoxes`), and four suffice for four.
* **`TailIsEnough`**: a tail keeps the boxes and digits it holds (`TailHoldsLast`,
  `TailHoldsRun`). **`PositionWithinCalibration`**, for every division into tokens: the
  answer is a part of the tail, its last occurrence there is the last one in the text
  (`FoundInTail`), its share of the tail is at most its share of the text, so a bound
  on the tokens before it carries over (`Denser`), and rounding keeps a quotient between
  two integers (`RoundBetween`).
* **`WorkingSparedAlways`** (Reaper), for every number of VMs and every deadline, stale
  limit and duration of a run of the reaper, assuming `~Relaunch` and `Timing` (bootstrap starts the job, azcopy is
  there within `DEADLINE_MIN`, no later stage outlasts `STALE_MIN`); section 4 shows
  what happens without them. Three parts: `Shape` (what the order of beats and
  stages leaves in a VM's record), `Fresh` (the blob of a working VM is its last
  beat unless a beat is due, and is at most as old as the limit on its stage) and
  `Spared` (a download after the clock reading only sees younger ages, so time
  that passes during the run condemns nobody).

Only model-checked is what is temporal beyond invariants and steps:
`EventuallyComplete`, `EventuallyPlanned`, `EventuallyMarked` and `DeadReaped`, because
liveness and `ENABLED` are beyond the prover. Every invariant, step property and
refinement of the passing runs has a theorem.

## 7. Not modelled

* Contents: prompts, token budgets, the `math_verify` grader, fingerprints, dataset
  parsing, figures and tables. Pure functions or pure I/O.
* The `answer is` wording, number formats, budget curves, quantiles of resamples.
* `map_with_timeout`: nothing calls it, so grading has no timeout and no row gets
  the status "timeout" that `pool.py:9-11` speaks of.
* The syncer's rule of giving up after three failures: it writes `.sync_broken`, which
  nothing removes and no worker reads, so generation goes on to its end although
  `launch_node.sh:218` speaks of stopping (planned).
* Reboots of a VM, whose per-boot hook runs bootstrap again; the time a deletion takes
  after `--no-wait`; disks, roles and addresses; `teardown.sh` and `azwrap.sh`.
* URL splicing and backend detection in `objstore.sh`.

## 8. Plan

Done, in this order: resume protocol, election, tree, seeds, reaper, extraction,
analysis, node disk, provenance, and the proofs of every invariant, step property and
refinement the passing runs check. Left:

1. `NodeLifecycle`: the syncer's give-up rule against "stop rather than keep
   burning GPU hours undurably", relaunches on a disk with `.sync_broken`.
2. Verify's remaining comparisons: manifest hashes, fingerprints, uid drift.
3. The budget curves of `analysis/pipeline.py`.
4. Proofs: liveness stays with TLC; new modules bring theorems of their own.
