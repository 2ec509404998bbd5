--------------------------- MODULE Provenance_proofs ---------------------------
(***************************************************************************)
(* One seed for one sample, one sample for one seed, and the right gold:   *)
(* for every experiment, fleet and history in which manifests are          *)
(* published once and only additions to the registries are frozen.         *)
(***************************************************************************)
EXTENDS Provenance, TLAPS

-----------------------------------------------------------------------------
(* The packing of seeding.py, for fields of every width *)

\* A number a * K + b with 0 <= b < K has quotient a and remainder b.
LEMMA Digits ==
    ASSUME NEW K \in Nat \ {0}, NEW a \in Nat, NEW b \in 0..K - 1
    PROVE  /\ a * K + b \in Nat
           /\ (a * K + b) \div K = a
           /\ (a * K + b) % K = b
  <1>1. a * K + b \in Nat
    BY SMT
  <1>2. (a * K + b) \div K = a
    BY SMTT(30)
  <1>3. (a * K + b) % K = b
    BY SMTT(30)
  <1>4. QED
    BY <1>1, <1>2, <1>3

\* An accepted key's fields are digits.
LEMMA Fields ==
    ASSUME NEW k \in Key, InRange(k)
    PROVE  /\ k.epoch \in Nat
           /\ k.model_idx \in 0..MaxModel - 1
           /\ k.dataset_idx \in 0..MaxDataset - 1
           /\ k.problem_idx \in 0..MaxProblem - 1
           /\ k.sample_idx \in 0..MaxSample - 1
  BY RadixAssumption DEF Key, InRange

\* unpack inverts seed_for on every accepted key (seeding.py:84).
THEOREM UnpackInverts ==
    ASSUME NEW k \in Key, InRange(k)
    PROVE  unpack(seed_for(k)) = k
  <1> DEFINE e == k.epoch
             em == e * MaxModel + k.model_idx
             emd == em * MaxDataset + k.dataset_idx
             emdp == emd * MaxProblem + k.problem_idx
             seed == emdp * MaxSample + k.sample_idx
  <1>1. em \in Nat /\ em \div MaxModel = e /\ em % MaxModel = k.model_idx
    BY Fields, Digits, RadixAssumption
  <1>2. emd \in Nat /\ emd \div MaxDataset = em /\ emd % MaxDataset = k.dataset_idx
    <2>1. em \in Nat
      BY <1>1
    <2>2. k.dataset_idx \in 0..MaxDataset - 1 /\ MaxDataset \in Nat \ {0}
      BY Fields, RadixAssumption
    <2> HIDE DEF em
    <2>3. QED
      BY <2>1, <2>2, Digits
  <1>3. emdp \in Nat /\ emdp \div MaxProblem = emd /\ emdp % MaxProblem = k.problem_idx
    <2>1. emd \in Nat
      BY <1>2
    <2>2. k.problem_idx \in 0..MaxProblem - 1 /\ MaxProblem \in Nat \ {0}
      BY Fields, RadixAssumption
    <2> HIDE DEF emd
    <2>3. QED
      BY <2>1, <2>2, Digits
  <1>4. seed \in Nat /\ seed \div MaxSample = emdp /\ seed % MaxSample = k.sample_idx
    <2>1. emdp \in Nat
      BY <1>3
    <2>2. k.sample_idx \in 0..MaxSample - 1 /\ MaxSample \in Nat \ {0}
      BY Fields, RadixAssumption
    <2> HIDE DEF emdp
    <2>3. QED
      BY <2>1, <2>2, Digits
  <1>5. seed_for(k) = seed
    BY DEF seed_for, seed_base, packed
  <1> HIDE DEF em, emd, emdp, seed
  <1>6. unpack(seed) = [epoch |-> e, model_idx |-> k.model_idx, dataset_idx |-> k.dataset_idx,
                        problem_idx |-> k.problem_idx, sample_idx |-> k.sample_idx]
    BY <1>1, <1>2, <1>3, <1>4 DEF unpack
  <1>7. k = [epoch |-> e, model_idx |-> k.model_idx, dataset_idx |-> k.dataset_idx,
             problem_idx |-> k.problem_idx, sample_idx |-> k.sample_idx]
    BY DEF Key
  <1>8. QED
    BY <1>5, <1>6, <1>7

\* The number of a block is natural.
LEMMA BlockNumber ==
    ASSUME NEW k \in Key, InRange(k)
    PROVE  packed(k) \in Nat
  <1>1. k.epoch * MaxModel + k.model_idx \in Nat
    BY Fields, RadixAssumption
  <1>2. (k.epoch * MaxModel + k.model_idx) * MaxDataset + k.dataset_idx \in Nat
    BY <1>1, Fields, Digits, RadixAssumption
  <1>3. QED
    BY <1>2, Fields, Digits, RadixAssumption DEF packed

\* The seeds of a block stay below the next block.
LEMMA BelowNextBlock ==
    ASSUME NEW k \in Key, InRange(k), NEW l \in Key, InRange(l), packed(k) < packed(l)
    PROVE  seed_for(k) < seed_base(l)
  <1> DEFINE a == packed(k)
             b == packed(l)
  <1>1. a \in Nat /\ b \in Nat /\ a + 1 <= b
    BY BlockNumber
  <1>2. k.sample_idx \in 0..MaxSample - 1
    BY Fields
  <1> HIDE DEF a, b
  <1>3. (a + 1) * MaxSample <= b * MaxSample
    BY <1>1, RadixAssumption
  <1>4. a * MaxSample + k.sample_idx < b * MaxSample
    BY <1>1, <1>2, <1>3, RadixAssumption
  <1>5. QED
    BY <1>4 DEF seed_for, seed_base, a, b

-----------------------------------------------------------------------------
(* Keys of registered entries *)

\* What an entry of a registry is.
LEMMA Entries ==
    ASSUME NEW r \in Registry, NEW x \in r.models, NEW y \in r.datasets
    PROVE  /\ x = <<x[1], x[2]>> /\ x[1] \in Model /\ x[2] \in Nat
           /\ y = <<y[1], y[2]>> /\ y[1] \in Dataset /\ y[2] \in Nat
  <1>1. x \in Model \X (0..MaxModel - 1) /\ y \in Dataset \X (0..MaxDataset - 1)
    BY DEF Registry
  <1>2. QED
    BY <1>1, RadixAssumption

\* What seed_for is asked to pack is a key.
LEMMA KeyTyped ==
    ASSUME NEW r \in Registry, NEW x \in r.models, NEW y \in r.datasets,
           NEW a \in Arm, NEW i \in Nat, NEW j \in Nat
    PROVE  KeyOf(a, x, y, i, j) \in Key
  BY Entries, ArmAssumption DEF Key, KeyOf

\* A seed is a number.
LEMMA SeedTyped ==
    ASSUME NEW k \in Key, InRange(k)
    PROVE  seed_for(k) \in Nat /\ seed_for(k) \div MaxSample = packed(k)
  <1> DEFINE p == packed(k)
  <1>1. p \in Nat
    BY BlockNumber
  <1>2. k.sample_idx \in 0..MaxSample - 1
    BY Fields
  <1> HIDE DEF p
  <1>3. p * MaxSample + k.sample_idx \in Nat /\ (p * MaxSample + k.sample_idx) \div MaxSample = p
    BY <1>1, <1>2, Digits, RadixAssumption
  <1>4. seed_for(k) = p * MaxSample + k.sample_idx
    BY DEF seed_for, seed_base, p
  <1>5. QED
    BY <1>3, <1>4 DEF p

\* The number of a block determines the fields it was packed from.
LEMMA BlockFields ==
    ASSUME NEW k \in Key, InRange(k), NEW l \in Key, InRange(l), packed(k) = packed(l)
    PROVE  /\ k.epoch = l.epoch /\ k.model_idx = l.model_idx
           /\ k.dataset_idx = l.dataset_idx /\ k.problem_idx = l.problem_idx
  <1>1. seed_for(k) \div MaxSample = seed_for(l) \div MaxSample
    BY SeedTyped
  <1> DEFINE u == unpack(seed_for(k))
             v == unpack(seed_for(l))
  <1>2. /\ u.epoch = v.epoch /\ u.model_idx = v.model_idx
        /\ u.dataset_idx = v.dataset_idx /\ u.problem_idx = v.problem_idx
    BY <1>1 DEF unpack
  <1>3. u = k /\ v = l
    BY UnpackInverts
  <1>4. QED
    BY <1>2, <1>3

-----------------------------------------------------------------------------
(* The inductive invariant *)

LEMMA InitInv == Init => IInv
  <1>1. SUFFICES ASSUME Init PROVE IInv
    OBVIOUS
  <1>2. TypeOK
    BY <1>1, ProvenanceAssumption DEF Init, TypeOK
  <1>3. FrozenLoads /\ CheckoutsFrozen /\ OneManifest
    BY <1>1 DEF Init, FrozenLoads, CheckoutsFrozen, OneManifest
  <1>4. RowsSeeded /\ RowsAsked /\ GradedAsked
    BY <1>1 DEF Init, RowsSeeded, RowsAsked, GradedAsked
  <1>5. QED
    BY <1>2, <1>3, <1>4 DEF IInv

\* Edits of the head reach nobody before they are frozen and checked out.
LEMMA EditRegistryInv == ASSUME IInv, EditRegistry PROVE IInv'
  <1>1. TypeOK'
    <2>1. reg' \in Registry
      <3>1. ASSUME NEW k \in Model, NEW i \in 0..MaxModel - 1, NEW e \in Edited(reg.models, k, i),
                   reg' = [reg EXCEPT !.models = e]
            PROVE  reg' \in Registry
        <4>1. e \subseteq Model \X (0..MaxModel - 1)
          BY <3>1 DEF IInv, TypeOK, Registry, Edited
        <4>2. QED
          BY <3>1, <4>1 DEF IInv, TypeOK, Registry
      <3>2. ASSUME NEW k \in Dataset, NEW i \in 0..MaxDataset - 1,
                   NEW e \in Edited(reg.datasets, k, i),
                   reg' = [reg EXCEPT !.datasets = e]
            PROVE  reg' \in Registry
        <4>1. e \subseteq Dataset \X (0..MaxDataset - 1)
          BY <3>2 DEF IInv, TypeOK, Registry, Edited
        <4>2. QED
          BY <3>2, <4>1 DEF IInv, TypeOK, Registry
      <3>3. QED
        BY <3>1, <3>2 DEF EditRegistry
    <2>2. edits' \in 0..MaxEdits
      BY ProvenanceAssumption DEF IInv, TypeOK, EditRegistry
    <2>3. QED
      BY <2>1, <2>2 DEF IInv, TypeOK, EditRegistry, treeVars
  <1>2. UNCHANGED <<frozen, published, checkout, manifest, rows, graded>>
    BY DEF EditRegistry, treeVars
  <1>3. QED
    BY <1>1, <1>2 DEF IInv, FrozenLoads, CheckoutsFrozen, OneManifest, RowsSeeded, RowsAsked,
                      GradedAsked

\* Freezing an addition keeps every entry an earlier seed was packed from.
LEMMA WriteFreezeInv == ASSUME IInv, ~Refreeze, WriteFreeze PROVE IInv'
  <1>1. TypeOK'
    BY DEF IInv, TypeOK, WriteFreeze, treeVars
  <1>2. frozen' # None /\ Hashable(frozen')
    BY ProvenanceAssumption, RadixAssumption DEF IInv, TypeOK, WriteFreeze, Registry
  <1>3. frozen # None => frozen.models \subseteq frozen'.models /\ frozen.datasets \subseteq frozen'.datasets
    BY DEF WriteFreeze, Extends
  <1>4. UNCHANGED <<published, checkout, manifest, rows, graded>>
    BY DEF WriteFreeze, treeVars
  <1>5. FrozenLoads' /\ CheckoutsFrozen' /\ OneManifest'
    BY <1>2, <1>3, <1>4 DEF IInv, FrozenLoads, CheckoutsFrozen, OneManifest, Hashable, Loads
  <1>6. RowsSeeded'
    BY <1>2, <1>3, <1>4 DEF IInv, RowsSeeded
  <1>7. RowsAsked' /\ GradedAsked'
    BY <1>4 DEF IInv, RowsAsked, GradedAsked
  <1>8. QED
    BY <1>1, <1>5, <1>6, <1>7 DEF IInv

LEMMA RepushInv == ASSUME IInv, NEW d \in Dataset, Repush(d) PROVE IInv'
  <1>1. TypeOK'
    BY DEF IInv, TypeOK, Repush, repoVars, treeVars
  <1>2. UNCHANGED <<frozen, published, checkout, manifest, rows, graded>>
    BY DEF Repush, repoVars, treeVars
  <1>3. QED
    BY <1>1, <1>2 DEF IInv, FrozenLoads, CheckoutsFrozen, OneManifest, RowsSeeded, RowsAsked,
                      GradedAsked

\* A VM starts with exactly what is frozen.
LEMMA BootstrapInv == ASSUME IInv, NEW m \in Machine, Bootstrap(m) PROVE IInv'
  <1>1. TypeOK'
    BY DEF IInv, TypeOK, Bootstrap, repoVars, treeVars
  <1>2. UNCHANGED <<frozen, published, manifest, rows, graded>>
    BY DEF Bootstrap, repoVars, treeVars
  <1>3. CheckoutsFrozen'
    BY <1>2 DEF IInv, TypeOK, CheckoutsFrozen, Bootstrap, check_freeze
  <1>4. QED
    BY <1>1, <1>2, <1>3 DEF IInv, FrozenLoads, OneManifest, RowsSeeded, RowsAsked, GradedAsked

LEMMA RecreateInv == ASSUME IInv, NEW m \in Machine, Recreate(m) PROVE IInv'
  <1>1. TypeOK'
    BY DEF IInv, TypeOK, Recreate, repoVars, treeVars
  <1>2. UNCHANGED <<frozen, published, rows, graded>>
    BY DEF Recreate, repoVars, treeVars
  <1>3. CheckoutsFrozen' /\ OneManifest'
    BY <1>2 DEF IInv, TypeOK, CheckoutsFrozen, OneManifest, Recreate
  <1>4. QED
    BY <1>1, <1>2, <1>3 DEF IInv, FrozenLoads, RowsSeeded, RowsAsked, GradedAsked

\* A manifest is published once: nobody's questions are renumbered under it.
LEMMA TakeManifestInv ==
    ASSUME IInv, Shared, NEW m \in Machine, NEW d \in Dataset, TakeManifest(m, d) PROVE IInv'
  <1>1. UNCHANGED <<frozen, checkout, rows, graded>>
    BY DEF TakeManifest, repoVars, treeVars
  <1>2. published' = [published EXCEPT ![d] = IF published[d] = None THEN hub[d] ELSE published[d]]
    BY DEF TakeManifest
  <1>3. manifest' = [manifest EXCEPT ![m][d] = published'[d]]
    BY DEF TakeManifest
  <1>4. published' \in [Dataset -> Upstream \cup {None}]
    BY <1>2 DEF IInv, TypeOK
  <1>5. TypeOK'
    <2>1. manifest' \in [Machine -> [Dataset -> Upstream \cup {None}]]
      BY <1>3, <1>4 DEF IInv, TypeOK
    <2>2. UNCHANGED <<reg, hub, edits>>
      BY DEF TakeManifest, repoVars
    <2>3. QED
      BY <1>1, <1>4, <2>1, <2>2 DEF IInv, TypeOK
  <1>6. \A c \in Dataset : published[c] # None => published'[c] = published[c]
    BY <1>2 DEF IInv, TypeOK
  <1>7. OneManifest'
    <2>1. SUFFICES ASSUME NEW n \in Machine, NEW c \in Dataset
                   PROVE  manifest'[n][c] \in {None, published'[c]}
      BY DEF OneManifest
    <2>2. CASE n = m /\ c = d
      BY <1>3, <2>2 DEF IInv, TypeOK
    <2>3. CASE ~(n = m /\ c = d)
      <3>1. manifest'[n][c] = manifest[n][c]
        BY <1>3, <2>3 DEF IInv, TypeOK
      <3>2. manifest[n][c] \in {None, published[c]}
        BY DEF IInv, OneManifest
      <3>3. QED
        BY <3>1, <3>2, <1>6
    <2>4. QED
      BY <2>2, <2>3
  <1>8. RowsAsked'
    <2>1. \A r \in rows : r.arm.dataset \in Dataset
      BY ArmAssumption DEF IInv, TypeOK, Row
    <2>2. QED
      BY <1>1, <1>6, <2>1 DEF IInv, RowsAsked
  <1>9. GradedAsked'
    <2>1. \A g \in graded : g.row \in rows /\ g.row.arm.dataset \in Dataset
      BY ArmAssumption DEF IInv, TypeOK, Grading, Row, GradedAsked
    <2>2. QED
      BY <1>1, <1>6, <2>1 DEF IInv, RowsAsked, GradedAsked
  <1>10. QED
    BY <1>1, <1>5, <1>7, <1>8, <1>9 DEF IInv, FrozenLoads, CheckoutsFrozen, RowsSeeded

\* A unit's rows are packed from entries that are frozen, and ask the published questions.
LEMMA RunUnitInv ==
    ASSUME IInv, NEW m \in Machine, NEW a \in Arm, NEW i \in Problem, RunUnit(m, a, i) PROVE IInv'
  <1>1. UNCHANGED <<reg, frozen, hub, published, checkout, manifest, graded, edits>>
    BY DEF RunUnit, repoVars
  <1>2. PICK x \in checkout[m].models, y \in checkout[m].datasets :
          /\ x[1] = a.model /\ y[1] = a.dataset
          /\ \A j \in 0..a.n - 1 : InRange(KeyOf(a, x, y, i, j))
          /\ rows' = rows \cup
                {[arm |-> a, problem |-> i, sample |-> j, uid |-> manifest[m][a.dataset][i],
                  seed |-> seed_for(KeyOf(a, x, y, i, j))] : j \in 0..a.n - 1}
    BY DEF RunUnit
  <1>3. /\ checkout[m] \in Registry
        /\ frozen # None
        /\ x \in frozen.models /\ y \in frozen.datasets
    BY DEF IInv, TypeOK, CheckoutsFrozen, RunUnit, Planned
  <1>4. a.dataset \in Dataset /\ a.n \in Nat /\ a.model \in Model
    BY ArmAssumption
  <1>5. /\ manifest[m][a.dataset] = published[a.dataset]
        /\ published[a.dataset] \in Upstream
    BY <1>4 DEF IInv, TypeOK, OneManifest, RunUnit, Planned, HasManifests
  <1>6. i \in Nat /\ manifest[m][a.dataset][i] \in Question
    <2>1. manifest[m][a.dataset] \in Upstream /\ i \in DOMAIN manifest[m][a.dataset]
      BY <1>5 DEF RunUnit
    <2>2. QED
      BY <2>1, ProvenanceAssumption DEF Question
  <1>7. \A j \in 0..a.n - 1 : /\ KeyOf(a, x, y, i, j) \in Key
                              /\ seed_for(KeyOf(a, x, y, i, j)) \in Nat
    <2>1. SUFFICES ASSUME NEW j \in 0..a.n - 1
                   PROVE  /\ KeyOf(a, x, y, i, j) \in Key
                          /\ seed_for(KeyOf(a, x, y, i, j)) \in Nat
      OBVIOUS
    <2>2. j \in Nat
      BY <1>4
    <2>3. KeyOf(a, x, y, i, j) \in Key
      BY <1>3, <1>6, <2>2, KeyTyped
    <2>4. QED
      BY <1>2, <2>3, SeedTyped
  <1> DEFINE new(j) == [arm |-> a, problem |-> i, sample |-> j, uid |-> manifest[m][a.dataset][i],
                        seed |-> seed_for(KeyOf(a, x, y, i, j))]
  <1>8. \A j \in 0..a.n - 1 : new(j) \in Row
    BY <1>4, <1>6, <1>7 DEF Row
  <1>9. \A r \in rows' : r \in rows \/ \E j \in 0..a.n - 1 : r = new(j)
    BY <1>2
  <1>10. TypeOK'
    <2>1. rows' \subseteq Row
      BY <1>8, <1>9 DEF IInv, TypeOK
    <2>2. QED
      BY <1>1, <2>1 DEF IInv, TypeOK
  <1>11. RowsSeeded'
    <2>1. SUFFICES ASSUME NEW r \in rows', r \notin rows
                   PROVE  \E z \in frozen.models, w \in frozen.datasets :
                            /\ z[1] = r.arm.model /\ w[1] = r.arm.dataset
                            /\ InRange(KeyOf(r.arm, z, w, r.problem, r.sample))
                            /\ r.seed = seed_for(KeyOf(r.arm, z, w, r.problem, r.sample))
      BY <1>1, <1>3 DEF IInv, RowsSeeded
    <2>2. PICK j \in 0..a.n - 1 : r = new(j)
      BY <1>9, <2>1
    <2>3. /\ r.arm = a /\ r.problem = i /\ r.sample = j
          /\ r.seed = seed_for(KeyOf(a, x, y, i, j))
      BY <2>2
    <2>4. QED
      BY <1>2, <1>3, <2>3
  <1>12. RowsAsked'
    <2>1. SUFFICES ASSUME NEW r \in rows', r \notin rows
                   PROVE  /\ published[r.arm.dataset] # None
                          /\ r.uid = published[r.arm.dataset][r.problem]
      BY <1>1 DEF IInv, RowsAsked
    <2>2. PICK j \in 0..a.n - 1 : r = new(j)
      BY <1>9, <2>1
    <2>3. r.arm = a /\ r.problem = i /\ r.uid = manifest[m][a.dataset][i]
      BY <2>2
    <2>4. QED
      BY <1>5, <2>3, ProvenanceAssumption
  <1>13. GradedAsked'
    BY <1>1, <1>2 DEF IInv, GradedAsked
  <1>14. QED
    BY <1>1, <1>10, <1>11, <1>12, <1>13 DEF IInv, FrozenLoads, CheckoutsFrozen, OneManifest

\* The golds come from the published manifest.
LEMMA GradeUnitInv ==
    ASSUME IInv, NEW m \in Machine, NEW a \in Arm, NEW i \in Problem, GradeUnit(m, a, i) PROVE IInv'
  <1>1. UNCHANGED <<reg, frozen, hub, published, checkout, manifest, rows, edits>>
    BY DEF GradeUnit, repoVars
  <1>2. a.dataset \in Dataset
    BY ArmAssumption
  <1>3. manifest[m][a.dataset] = published[a.dataset] /\ published[a.dataset] \in Upstream
    BY <1>2 DEF IInv, TypeOK, OneManifest, GradeUnit, HasManifests
  <1>4. \A g \in graded' : g \in graded \/ \E r \in rows :
            /\ r.arm = a /\ r.problem = i
            /\ g = [row |-> r, gold |-> manifest[m][a.dataset][i]]
    BY DEF GradeUnit
  <1>5. manifest[m][a.dataset][i] \in Question
    BY <1>3 DEF GradeUnit, Question
  <1>6. TypeOK'
    <2>1. graded' \subseteq Grading
      BY <1>4, <1>5 DEF IInv, TypeOK, Grading
    <2>2. QED
      BY <1>1, <2>1 DEF IInv, TypeOK
  <1>7. GradedAsked'
    <2>1. SUFFICES ASSUME NEW g \in graded', g \notin graded
                   PROVE  /\ g.row \in rows
                          /\ g.gold = published[g.row.arm.dataset][g.row.problem]
      BY <1>1 DEF IInv, GradedAsked
    <2>2. PICK r \in rows : /\ r.arm = a /\ r.problem = i
                            /\ g = [row |-> r, gold |-> manifest[m][a.dataset][i]]
      BY <1>4, <2>1
    <2>3. QED
      BY <1>3, <2>2
  <1>8. QED
    BY <1>1, <1>6, <1>7 DEF IInv, FrozenLoads, CheckoutsFrozen, OneManifest, RowsSeeded, RowsAsked

LEMMA StepInv == ASSUME ~Refreeze, Shared, IInv, [Next]_vars PROVE IInv'
  <1>1. CASE EditRegistry
    BY <1>1, EditRegistryInv
  <1>2. CASE WriteFreeze
    BY <1>2, WriteFreezeInv
  <1>3. CASE \E d \in Dataset : Repush(d)
    BY <1>3, RepushInv
  <1>4. ASSUME NEW m \in Machine, MachineStep(m)
        PROVE  IInv'
    <2>1. CASE Bootstrap(m)
      BY <2>1, BootstrapInv
    <2>2. CASE Recreate(m)
      BY <2>2, RecreateInv
    <2>3. CASE \E d \in Dataset : TakeManifest(m, d)
      BY <2>3, TakeManifestInv
    <2>4. CASE \E a \in Arm, i \in Problem : RunUnit(m, a, i)
      BY <2>4, RunUnitInv
    <2>5. CASE \E a \in Arm, i \in Problem : GradeUnit(m, a, i)
      BY <2>5, GradeUnitInv
    <2>6. QED
      BY <1>4, <2>1, <2>2, <2>3, <2>4, <2>5 DEF MachineStep
  <1>5. CASE UNCHANGED vars
    BY <1>5 DEF vars, repoVars, treeVars, IInv, TypeOK, FrozenLoads, CheckoutsFrozen, OneManifest,
                RowsSeeded, RowsAsked, GradedAsked
  <1>6. QED
    BY <1>1, <1>2, <1>3, <1>4, <1>5 DEF Next

\* Type correctness and the rest of the inductive invariant, along every behaviour.
THEOREM Inductive == ASSUME ~Refreeze, Shared PROVE Spec => []IInv
  <1>1. Init => IInv
    BY InitInv
  <1>2. IInv /\ [Next]_vars => IInv'
    BY StepInv
  <1>3. QED
    BY <1>1, <1>2, PTL DEF Spec

\* Every variable keeps its type.
THEOREM TypeCorrect == ASSUME ~Refreeze, Shared PROVE Spec => []TypeOK
  <1>1. IInv => TypeOK
    BY DEF IInv
  <1>2. QED
    BY <1>1, Inductive, PTL

-----------------------------------------------------------------------------
(* What the seeds say *)

\* The key a row's seed was packed from, by entries that are frozen.
LEMMA RowKey ==
    ASSUME IInv, NEW r \in rows
    PROVE  \E x \in frozen.models, y \in frozen.datasets :
             /\ x[1] = r.arm.model /\ y[1] = r.arm.dataset
             /\ KeyOf(r.arm, x, y, r.problem, r.sample) \in Key
             /\ InRange(KeyOf(r.arm, x, y, r.problem, r.sample))
             /\ r.seed = seed_for(KeyOf(r.arm, x, y, r.problem, r.sample))
  <1>1. frozen \in Registry
    BY DEF IInv, TypeOK, RowsSeeded
  <1>2. r.arm \in Arm /\ r.problem \in Nat /\ r.sample \in Nat
    BY DEF IInv, TypeOK, Row
  <1>3. QED
    BY <1>1, <1>2, KeyTyped DEF IInv, RowsSeeded

\* Two rows whose blocks have one number are of one problem, and conversely.
LEMMA SameBlock ==
    ASSUME IInv, NEW r \in rows, NEW s \in rows
    PROVE  r.seed \div MaxSample = s.seed \div MaxSample <=>
             /\ r.arm.epoch = s.arm.epoch /\ r.arm.model = s.arm.model
             /\ r.arm.dataset = s.arm.dataset /\ r.problem = s.problem
  <1>1. PICK x \in frozen.models, y \in frozen.datasets :
             /\ x[1] = r.arm.model /\ y[1] = r.arm.dataset
             /\ KeyOf(r.arm, x, y, r.problem, r.sample) \in Key
             /\ InRange(KeyOf(r.arm, x, y, r.problem, r.sample))
             /\ r.seed = seed_for(KeyOf(r.arm, x, y, r.problem, r.sample))
    BY RowKey
  <1>2. PICK z \in frozen.models, w \in frozen.datasets :
             /\ z[1] = s.arm.model /\ w[1] = s.arm.dataset
             /\ KeyOf(s.arm, z, w, s.problem, s.sample) \in Key
             /\ InRange(KeyOf(s.arm, z, w, s.problem, s.sample))
             /\ s.seed = seed_for(KeyOf(s.arm, z, w, s.problem, s.sample))
    BY RowKey
  <1>3. Loads(frozen.models) /\ Loads(frozen.datasets)
    BY DEF IInv, RowsSeeded, FrozenLoads, Hashable
  <1> DEFINE k == KeyOf(r.arm, x, y, r.problem, r.sample)
             l == KeyOf(s.arm, z, w, s.problem, s.sample)
  <1>4. r.seed \div MaxSample = packed(k) /\ s.seed \div MaxSample = packed(l)
    BY <1>1, <1>2, SeedTyped
  <1>5. ASSUME packed(k) = packed(l)
        PROVE  /\ r.arm.epoch = s.arm.epoch /\ r.arm.model = s.arm.model
               /\ r.arm.dataset = s.arm.dataset /\ r.problem = s.problem
    <2>1. /\ k.epoch = l.epoch /\ k.model_idx = l.model_idx
          /\ k.dataset_idx = l.dataset_idx /\ k.problem_idx = l.problem_idx
      BY <1>1, <1>2, <1>5, BlockFields
    <2>2. x[2] = z[2] /\ y[2] = w[2] /\ r.arm.epoch = s.arm.epoch /\ r.problem = s.problem
      BY <2>1 DEF KeyOf
    <2>3. x = z /\ y = w
      BY <1>3, <2>2 DEF Loads
    <2>4. QED
      BY <1>1, <1>2, <2>2, <2>3
  <1>6. ASSUME r.arm.epoch = s.arm.epoch, r.arm.model = s.arm.model,
               r.arm.dataset = s.arm.dataset, r.problem = s.problem
        PROVE  packed(k) = packed(l)
    <2>1. x = z /\ y = w
      BY <1>1, <1>2, <1>3, <1>6 DEF Loads
    <2>2. QED
      BY <1>6, <2>1 DEF packed, KeyOf
  <1>7. QED
    BY <1>4, <1>5, <1>6

\* One problem, one interval of seeds (seeding.py:13-15).
THEOREM SeedBlocksDisjoint == ASSUME ~Refreeze, Shared PROVE Spec => []BlocksDisjoint
  <1>1. IInv => BlocksDisjoint
    BY SameBlock DEF BlocksDisjoint
  <1>2. QED
    BY <1>1, Inductive, PTL

\* One seed, one sample (seeding.py:3-5): the fields of the seed are those of the sample's
\* key, the entries of its model and dataset are the only ones with their numbers, and the
\* published manifest has one question of its number.
THEOREM OneSeedOneSample == ASSUME ~Refreeze, Shared PROVE Spec => []SeedsUnique
  <1>1. ASSUME IInv, NEW r \in rows, NEW s \in rows,
               r.arm.variant = s.arm.variant, r.seed = s.seed
        PROVE  r = s
    <2>1. /\ r.arm.epoch = s.arm.epoch /\ r.arm.model = s.arm.model
          /\ r.arm.dataset = s.arm.dataset /\ r.problem = s.problem
      BY <1>1, SameBlock
    <2>2. r \in Row /\ s \in Row
      BY <1>1 DEF IInv, TypeOK
    <2>3. r.arm = s.arm
      BY <1>1, <2>1, <2>2, ArmAssumption DEF Row
    <2>4. r.uid = s.uid
      BY <1>1, <2>1, <2>3 DEF IInv, RowsAsked
    <2>5. r.sample = s.sample
      <3>1. PICK k \in Key : InRange(k) /\ r.seed = seed_for(k) /\ k.sample_idx = r.sample
        BY <1>1, RowKey DEF KeyOf
      <3>2. PICK l \in Key : InRange(l) /\ s.seed = seed_for(l) /\ l.sample_idx = s.sample
        BY <1>1, RowKey DEF KeyOf
      <3>3. unpack(r.seed) = k /\ unpack(s.seed) = l
        BY <3>1, <3>2, UnpackInverts
      <3>4. QED
        BY <1>1, <3>1, <3>2, <3>3
    <2>6. QED
      BY <1>1, <2>1, <2>2, <2>3, <2>4, <2>5 DEF Row
  <1>2. IInv => SeedsUnique
    BY <1>1 DEF SeedsUnique
  <1>3. QED
    BY <1>2, Inductive, PTL

\* Whatever was generated from whatever older head, a seed decodes to its sample as long as
\* "registry check" accepts the head (seeding.py:84, FREEZE.md:8-11).
THEOREM SeedsDecode == ASSUME ~Refreeze, Shared PROVE Spec => []SeedsTraceable
  <1>1. ASSUME IInv, check_freeze(reg, frozen), NEW r \in rows
        PROVE  \E x \in reg.models, y \in reg.datasets :
                 /\ x[1] = r.arm.model /\ y[1] = r.arm.dataset
                 /\ unpack(r.seed) = KeyOf(r.arm, x, y, r.problem, r.sample)
    <2>1. reg = frozen
      BY <1>1 DEF check_freeze
    <2>2. QED
      BY <1>1, <2>1, RowKey, UnpackInverts
  <1>2. IInv => SeedsTraceable
    BY <1>1 DEF SeedsTraceable
  <1>3. QED
    BY <1>2, Inductive, PTL

\* Graded against the answer of the question that was asked (loaders.py:3-6).
THEOREM GoldsMatch == ASSUME ~Refreeze, Shared PROVE Spec => []GoldMatchesQuestion
  <1>1. IInv => GoldMatchesQuestion
    BY DEF IInv, RowsAsked, GradedAsked, GoldMatchesQuestion
  <1>2. QED
    BY <1>1, Inductive, PTL
=============================================================================
