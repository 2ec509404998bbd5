------------------------------ MODULE Provenance ------------------------------
(***************************************************************************)
(* Where a sample comes from: the registries that number models and        *)
(* datasets (src/soe/registry.py), the problem manifest that numbers       *)
(* problems (src/soe/data/loaders.py), the seed packed from those numbers  *)
(* (Seeding), and the gold answer looked up by problem number              *)
(* (grade/runner.py).  The repository's head and the upstream dataset      *)
(* change while VMs come, generate, grade and go.                          *)
(*                                                                         *)
(* A unit is one problem of one arm, all its samples at once; how units    *)
(* are cut and stored is the business of ArtifactTree and NodeDisk.  A     *)
(* manifest is the function from its problem numbers to its questions, and *)
(* a question stands for its content hash and for its answer.              *)
(***************************************************************************)
EXTENDS Seeding

CONSTANTS
    Model, Dataset,     \* keys an entry of models.yaml, datasets.yaml may have
    Arm,                \* the experiment's arms: [model, dataset, variant, epoch, n]
    Machine,            \* the VMs of the fleet
    Upstream,           \* what the hub may serve for a dataset: [problem -> question]
    None,
    Refreeze,           \* whether the operator freezes anything but additions
    Shared,             \* whether manifests go through an object store that publishes once
    MaxEdits            \* bound on edits of the registries

\* ExperimentConfig rejects two arms of one model, dataset and variant; seed_epoch and n_total
\* come from the arm's SamplingSpec.
ASSUME ArmAssumption ==
    /\ \A a \in Arm : /\ a.model \in Model /\ a.dataset \in Dataset
                     /\ a.epoch \in Nat /\ a.n \in Nat \ {0}
    /\ \A a, b \in Arm : a.model = b.model /\ a.dataset = b.dataset /\ a.variant = b.variant => a = b

ASSUME ProvenanceAssumption ==
    /\ \A l \in Upstream : DOMAIN l \subseteq Nat
    /\ None \notin Upstream
    /\ None \notin [models : SUBSET (Model \X Nat), datasets : SUBSET (Dataset \X Nat)]
    /\ Refreeze \in BOOLEAN /\ Shared \in BOOLEAN
    /\ MaxEdits \in Nat

VARIABLES
    reg,        \* the registries at the head: their sets of <<key, seed_idx>>
    frozen,     \* the registries whose hashes FREEZE.md holds, or None (PENDING)
    hub,        \* what the hub serves for each dataset
    published,  \* the manifest of each dataset in the object store
    checkout,   \* the registries each VM has cloned and checked
    manifest,   \* each VM's manifest of each dataset
    rows,       \* the samples in the artifact tree
    graded,     \* the graded samples: the row and the question whose answer was the gold
    edits       \* how often the registries were edited

repoVars == <<reg, frozen, edits>>
treeVars == <<rows, graded>>
vars == <<repoVars, hub, published, checkout, manifest, treeVars>>

\* ModelSpec and DatasetSpec bound seed_idx by the widths of the seed's fields.
Registry == [models : SUBSET (Model \X (0..MaxModel - 1)),
             datasets : SUBSET (Dataset \X (0..MaxDataset - 1))]

Question == UNION {{l[i] : i \in DOMAIN l} : l \in Upstream}

\* What run_unit writes of a sample, and grade_rows of its grading.
Row == [arm : Arm, problem : Nat, sample : Nat, uid : Question, seed : Nat]

Grading == [row : Row, gold : Question]

TypeOK ==
    /\ reg \in Registry
    /\ frozen \in Registry \cup {None}
    /\ hub \in [Dataset -> Upstream]
    /\ published \in [Dataset -> Upstream \cup {None}]
    /\ checkout \in [Machine -> Registry \cup {None}]
    /\ manifest \in [Machine -> [Dataset -> Upstream \cup {None}]]
    /\ rows \subseteq Row /\ graded \subseteq Grading
    /\ edits \in 0..MaxEdits

\* Mutant: only duplicate keys are rejected.
LoadsKeysOnly(entries) == \A x, y \in entries : x[1] = y[1] => x = y

\* load_models, load_datasets: keys and indices are unique; otherwise they raise.
Loads(entries) == \A x, y \in entries : x[1] = y[1] \/ x[2] = y[2] => x = y

\* current_hashes loads both registries.
Hashable(r) == Loads(r.models) /\ Loads(r.datasets)

\* Mutant: the registry is loaded but not compared with FREEZE.md.
check_freezeLoads(r, f) == f # None /\ Hashable(r)

\* check_freeze(strict=True): PENDING is refused, and so is any other set of pairs.
check_freeze(r, f) == f # None /\ Hashable(r) /\ r = f

Init ==
    /\ reg \in Registry /\ Hashable(reg)
    /\ frozen = None
    /\ hub \in [Dataset -> Upstream]
    /\ published = [d \in Dataset |-> None]
    /\ checkout = [m \in Machine |-> None]
    /\ manifest = [m \in Machine |-> [d \in Dataset |-> None]]
    /\ rows = {} /\ graded = {}
    /\ edits = 0

-----------------------------------------------------------------------------
(* The repository *)

\* The key's entry is renumbered, if it has one, or an entry is added for it; nothing stops
\* two lines of the file from having one key or one index.
Edited(entries, key, i) ==
    {entries \cup {<<key, i>>}, {x \in entries : x[1] # key} \cup {<<key, i>>}}

EditRegistry ==
    /\ edits < MaxEdits
    /\ edits' = edits + 1
    /\ \/ \E k \in Model, i \in 0..MaxModel - 1 : \E e \in Edited(reg.models, k, i) :
             reg' = [reg EXCEPT !.models = e]
       \/ \E k \in Dataset, i \in 0..MaxDataset - 1 : \E e \in Edited(reg.datasets, k, i) :
             reg' = [reg EXCEPT !.datasets = e]
    /\ UNCHANGED <<frozen, hub, published, checkout, manifest, treeVars>>

\* What FREEZE.md allows to be frozen: what was frozen before, and new entries.
Extends(r, f) == f # None => f.models \subseteq r.models /\ f.datasets \subseteq r.datasets

\* soe registry freeze: write_freeze takes whatever loads.
WriteFreeze ==
    /\ Hashable(reg)
    /\ ~Refreeze => Extends(reg, frozen)
    /\ frozen' = reg
    /\ UNCHANGED <<reg, edits, hub, published, checkout, manifest, treeVars>>

\* A new revision of a dataset that is pinned by branch.
Repush(d) ==
    /\ hub' \in {[hub EXCEPT ![d] = l] : l \in Upstream}
    /\ UNCHANGED <<repoVars, published, checkout, manifest, treeVars>>

-----------------------------------------------------------------------------
(* A VM *)

\* bootstrap.sh clones the head and stops unless "soe registry check" accepts it.
Bootstrap(m) ==
    /\ checkout[m] = None
    /\ check_freeze(reg, frozen)
    /\ checkout' = [checkout EXCEPT ![m] = reg]
    /\ UNCHANGED <<repoVars, hub, published, manifest, treeVars>>

\* A spot VM is evicted with its disk and created again.
Recreate(m) ==
    /\ checkout[m] # None
    /\ checkout' = [checkout EXCEPT ![m] = None]
    /\ manifest' = [manifest EXCEPT ![m] = [d \in Dataset |-> None]]
    /\ UNCHANGED <<repoVars, hub, published, treeVars>>

\* The datasets of the experiment are registered and numbered, as generate and grade need.
HasManifests(m) == \A a \in Arm : manifest[m][a.dataset] # None

Registered(entries, key) == \E x \in entries : x[1] = key

\* Mutant: a VM keeps the manifest it prepared, whoever published first.
TakeManifestOwn(m, d) ==
    /\ checkout[m] # None /\ manifest[m][d] = None
    /\ published' = [published EXCEPT ![d] = IF @ = None THEN hub[d] ELSE @]
    /\ manifest' = [manifest EXCEPT ![m][d] = hub[d]]
    /\ UNCHANGED <<repoVars, hub, checkout, treeVars>>

\* launch_node.sh: a published manifest is pulled; otherwise soe prepare looks the dataset up
\* and numbers the hub's rows in their order, and the result is published (ManifestElection
\* has the race).  Without an object store every machine uses what it prepared.
TakeManifest(m, d) ==
    /\ checkout[m] # None /\ manifest[m][d] = None
    /\ published[d] = None => Registered(checkout[m].datasets, d)
    /\ published' = [published EXCEPT ![d] = IF Shared /\ @ = None THEN hub[d] ELSE @]
    /\ manifest' = [manifest EXCEPT ![m][d] = IF Shared THEN published'[d] ELSE hub[d]]
    /\ UNCHANGED <<repoVars, hub, checkout, treeVars>>

\* A finished unit is not generated again, by whichever machine (FleetResume).
IsDone(a, i) == \E r \in rows : r.arm = a /\ r.problem = i

\* build_plan looks every arm's model up before any unit runs.
Planned(m) ==
    /\ checkout[m] # None
    /\ HasManifests(m)
    /\ \A a \in Arm : Registered(checkout[m].models, a.model)

\* What seed_for packs: the numbers of the model's entry x and the dataset's entry y.
KeyOf(a, x, y, i, j) ==
    [epoch |-> a.epoch, model_idx |-> x[2], dataset_idx |-> y[2], problem_idx |-> i, sample_idx |-> j]

\* run_unit: a seed for each sample.  A number out of its field's range raises before
\* anything is written.
RunUnit(m, a, i) ==
    /\ Planned(m)
    /\ i \in DOMAIN manifest[m][a.dataset]
    /\ ~IsDone(a, i)
    /\ \E x \in checkout[m].models, y \in checkout[m].datasets :
          /\ x[1] = a.model /\ y[1] = a.dataset
          /\ \A j \in 0..a.n - 1 : InRange(KeyOf(a, x, y, i, j))
          /\ rows' = rows \cup
                {[arm |-> a, problem |-> i, sample |-> j, uid |-> manifest[m][a.dataset][i],
                  seed |-> seed_for(KeyOf(a, x, y, i, j))] : j \in 0..a.n - 1}
    /\ UNCHANGED <<repoVars, hub, published, checkout, manifest, graded>>

\* grade_rows: the gold is the answer of the manifest's problem of the row's number; the
\* row's problem_uid is not looked at.
GradeUnit(m, a, i) ==
    /\ checkout[m] # None /\ HasManifests(m)
    /\ IsDone(a, i)
    /\ i \in DOMAIN manifest[m][a.dataset]
    /\ \A g \in graded : g.row.arm # a \/ g.row.problem # i
    /\ graded' = graded \cup
          {[row |-> r, gold |-> manifest[m][a.dataset][i]] :
              r \in {s \in rows : s.arm = a /\ s.problem = i}}
    /\ UNCHANGED <<repoVars, hub, published, checkout, manifest, rows>>

Problem == UNION {DOMAIN l : l \in Upstream}

MachineStep(m) ==
    \/ Bootstrap(m) \/ Recreate(m)
    \/ \E d \in Dataset : TakeManifest(m, d)
    \/ \E a \in Arm, i \in Problem : RunUnit(m, a, i) \/ GradeUnit(m, a, i)

Next == EditRegistry \/ WriteFreeze \/ (\E d \in Dataset : Repush(d)) \/ \E m \in Machine : MachineStep(m)

Spec == Init /\ [][Next]_vars

-----------------------------------------------------------------------------
(* Properties *)

\* No two samples of the experiment that were asked with the same prompt variant share a
\* seed, across arms, machines and every additive edit of the registries in between: a seed
\* names one sample (seeding.py:3-5, verify.py:4-6).  The variant is not in the key, so the
\* two variants of one model and dataset draw the same seeds.
SeedsUnique ==
    \A r, s \in rows : r.arm.variant = s.arm.variant /\ r.seed = s.seed => r = s

\* As long as "registry check" accepts the head, the seed of every sample, of whatever VM and
\* whatever older head, still unpacks to its own epoch, model, dataset, problem and number
\* (seeding.py:84, FREEZE.md:8-11).
SeedsTraceable ==
    check_freeze(reg, frozen) =>
        \A r \in rows : \E x \in reg.models, y \in reg.datasets :
            /\ x[1] = r.arm.model /\ y[1] = r.arm.dataset
            /\ unpack(r.seed) = KeyOf(r.arm, x, y, r.problem, r.sample)

\* Cut into intervals of 2^SAMPLE_BITS, the seeds fall apart exactly by epoch, model, dataset
\* and problem: no problem draws from another's interval and none draws from two, so common
\* random numbers across problems are impossible (seeding.py:13-15).
BlocksDisjoint ==
    \A r, s \in rows :
        r.seed \div MaxSample = s.seed \div MaxSample <=>
            /\ r.arm.epoch = s.arm.epoch /\ r.arm.model = s.arm.model
            /\ r.arm.dataset = s.arm.dataset /\ r.problem = s.problem

\* Every sample is graded against the answer of the question it was asked, whichever machine
\* generated it, whichever graded it and whatever the hub serves by then (loaders.py:3-6,
\* launch_node.sh:104-107).
GoldMatchesQuestion == \A g \in graded : g.gold = g.row.uid

-----------------------------------------------------------------------------
(* The inductive invariant, for a fleet that publishes its manifests once and an operator who *)
(* only freezes additions                                                                     *)

FrozenLoads == frozen # None => Hashable(frozen)

\* Every VM works with a part of what is frozen now.
CheckoutsFrozen ==
    \A m \in Machine : checkout[m] # None =>
        /\ frozen # None
        /\ checkout[m].models \subseteq frozen.models
        /\ checkout[m].datasets \subseteq frozen.datasets

OneManifest == \A m \in Machine, d \in Dataset : manifest[m][d] \in {None, published[d]}

RowsSeeded ==
    \A r \in rows :
        /\ frozen # None
        /\ \E x \in frozen.models, y \in frozen.datasets :
              /\ x[1] = r.arm.model /\ y[1] = r.arm.dataset
              /\ InRange(KeyOf(r.arm, x, y, r.problem, r.sample))
              /\ r.seed = seed_for(KeyOf(r.arm, x, y, r.problem, r.sample))

RowsAsked ==
    \A r \in rows :
        /\ published[r.arm.dataset] # None
        /\ r.uid = published[r.arm.dataset][r.problem]

GradedAsked ==
    \A g \in graded :
        /\ g.row \in rows
        /\ g.gold = published[g.row.arm.dataset][g.row.problem]

IInv ==
    /\ TypeOK
    /\ FrozenLoads /\ CheckoutsFrozen /\ OneManifest
    /\ RowsSeeded /\ RowsAsked /\ GradedAsked
=============================================================================
