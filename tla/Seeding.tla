------------------------------- MODULE Seeding -------------------------------
(***************************************************************************)
(* Seed allocation (src/src/soe/seeding.py): a sample's key is packed into *)
(* one integer, field by field.  The widths are parameters so that TLC can *)
(* enumerate small ones; the code's are 6, 6, 6, 10 and 20 bits.           *)
(*                                                                         *)
(* Shifts and masks are products, quotients and remainders by the radices  *)
(* 2^bits; "a << b | c" is a * 2^b + c as long as 0 <= c < 2^b, which      *)
(* _check guarantees.  Provenance draws the seeds of a whole experiment.   *)
(***************************************************************************)
EXTENDS Integers

CONSTANTS MaxEpoch, MaxModel, MaxDataset, MaxProblem, MaxSample  \* 2^bits of each field

ASSUME RadixAssumption ==
    /\ MaxEpoch \in Nat \ {0} /\ MaxModel \in Nat \ {0} /\ MaxDataset \in Nat \ {0}
    /\ MaxProblem \in Nat \ {0} /\ MaxSample \in Nat \ {0}

\* SeedKey: what a caller may ask for, sizes unchecked.
Key == [epoch : Nat, model_idx : Nat, dataset_idx : Nat, problem_idx : Nat, sample_idx : Nat]

\* _check and the sample test of seed_for: the other keys raise ValueError.
InRange(k) ==
    /\ k.epoch < MaxEpoch /\ k.model_idx < MaxModel /\ k.dataset_idx < MaxDataset
    /\ k.problem_idx < MaxProblem
    /\ k.sample_idx < MaxSample

\* The number of the block of seeds that (epoch, model, dataset, problem) owns.
packed(k) ==
    ((k.epoch * MaxModel + k.model_idx) * MaxDataset + k.dataset_idx) * MaxProblem + k.problem_idx

\* Mutant: a block one seed short.
seed_baseNarrow(k) == packed(k) * (MaxSample - 1)

seed_base(k) == packed(k) * MaxSample

seed_for(k) == seed_base(k) + k.sample_idx

\* Mutant: the problem read with the sample's radix.
unpackWrongMask(seed) ==
    LET rest == seed \div MaxSample
        rest2 == rest \div MaxProblem
        rest3 == rest2 \div MaxDataset
    IN  [epoch |-> rest3 \div MaxModel,
         model_idx |-> rest3 % MaxModel,
         dataset_idx |-> rest2 % MaxDataset,
         problem_idx |-> rest % MaxSample,
         sample_idx |-> seed % MaxSample]

unpack(seed) ==
    LET rest == seed \div MaxSample
        rest2 == rest \div MaxProblem
        rest3 == rest2 \div MaxDataset
    IN  [epoch |-> rest3 \div MaxModel,
         model_idx |-> rest3 % MaxModel,
         dataset_idx |-> rest2 % MaxDataset,
         problem_idx |-> rest % MaxProblem,
         sample_idx |-> seed % MaxSample]

=============================================================================
