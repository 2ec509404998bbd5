------------------------------- MODULE Analysis -------------------------------
(***************************************************************************)
(* From extracted answers to the decomposed gap: grade_rows                *)
(* (src/src/soe/grade/runner.py) with the null golds, and run_analysis     *)
(* (src/src/soe/analysis/pipeline.py) with build_tensor (tensors.py), the  *)
(* adjustments (adjustments.py), the Shapley lattice with its bootstrap    *)
(* (decompose.py) and the crossover (crossover.py).                        *)
(*                                                                         *)
(* Arithmetic is exact: a gap is the numerator of a fraction over Scale, a *)
(* Shapley value over Scale * |CONFOUNDS|!.  The problem axis is the set   *)
(* of problems itself; nothing depends on its order.                       *)
(***************************************************************************)
EXTENDS PassK, Sequences

CONSTANTS
    Sample,     \* generated samples with the answer extracted from each
    Gold,       \* the answer of each problem of the manifests
    NullOf,     \* the problem whose answer is a problem's null gold
    NoInt,      \* what no integer can be read from, nothing extracted included
    Base, Rl,   \* the two model keys
    Recent,     \* datasets released after the cutoff
    KTop        \* 256 in the code

CONFOUNDS == {"C2", "C3", "C4", "C5", "C6", "C7"}

Problem == DOMAIN Gold

\* problem is <<dataset, problem_idx>>; pos is -1 without an answer; usable is FALSE where
\* another grader configuration left nulls.
SampleType ==
    [model : STRING, problem : Problem, sample : Nat, variant : STRING, usable : BOOLEAN,
     pred : Int \cup {NoInt}, tokens : Nat, pos : Int]

\* permuted_golds: a derangement of each dataset, the same on every machine.
permuted_golds(null_map) ==
    /\ \A p \in Problem : null_map[p] \in Problem /\ null_map[p][1] = p[1] /\ null_map[p] # p
    /\ \A p, q \in Problem : null_map[p] = null_map[q] => p = q

ASSUME AnalysisAssumption ==
    /\ \A s \in Sample : s \in SampleType
    /\ \A p \in Problem : Gold[p] \in Int \cup {NoInt}
    /\ permuted_golds(NullOf)
    /\ Base # Rl /\ KTop \in Nat \ {0}

-----------------------------------------------------------------------------
(* grade/runner.py, grade/graders.py *)

\* fastint: both sides are integers, and the same.
Grade(gold, pred) == gold # NoInt /\ gold = pred

\* Every answer is graded twice: against its gold, and against another problem's.
grade_rows(s) ==
    [model |-> s.model, problem |-> s.problem, sample |-> s.sample, variant |-> s.variant,
     usable |-> s.usable, tokens |-> s.tokens, pos |-> s.pos,
     correct |-> Grade(Gold[s.problem], s.pred),
     null |-> Grade(Gold[NullOf[s.problem]], s.pred)]

Row == {grade_rows(s) : s \in Sample}

VARIABLES
    stage,    \* "load", "tensor", "point", "replicate", "raised"
    df,       \* the graded frame
    st,       \* the AnalysisState of the point estimate
    lattice,  \* G on every subset of the confounds, for st
    draw,     \* the problem at each place of the bootstrap resample
    again     \* G on every subset, for the resample

vars == <<stage, df, st, lattice, draw, again>>

-----------------------------------------------------------------------------
(* tensors.py *)

Asked == {Base, Rl}
Scoped(rows) == {r \in rows : r.model \in Asked}
Problems(rows) == {r.problem : r \in Scoped(rows)}
Group(rows, m, p) == {r \in rows : r.model = m /\ r.problem = p}
Count(rows, m, p) == Cardinality({r.sample : r \in Group(rows, m, p)})
Counts(rows) == {Count(rows, m, p) : m \in Asked, p \in Problems(rows)} \ {0}

\* Neither prompt variants nor nulls nor unequal n within an arm.
Buildable(rows) ==
    /\ \A m \in Asked : \E r \in rows : r.model = m
    /\ \A r \in Scoped(rows) : r.usable
    /\ \A r, q \in Scoped(rows) :
         r.model = q.model /\ r.problem[1] = q.problem[1] =>
             /\ r.variant = q.variant
             /\ Count(rows, r.model, r.problem) = Count(rows, q.model, q.problem)

\* Mutant: n is the largest count.
n_samplesMost(rows) == Max(Counts(rows))

\* Arms may differ in n; all are cut to the smallest.
n_samples(rows) == Min(Counts(rows))

Pad == [correct |-> FALSE, shared |-> FALSE, null |-> FALSE, tokens |-> 0, pos |-> -1]
AsCell(r) == [correct |-> r.correct, shared |-> r.correct, null |-> r.null,
              tokens |-> r.tokens, pos |-> r.pos]

\* The s-th lowest sample of a model and problem; an array starts out as zeros.
Ranked(rows, m, p, s) ==
    {r \in Group(rows, m, p) : Cardinality({q \in Group(rows, m, p) : q.sample < r.sample}) = s - 1}
Cell(rows, m, p, s) ==
    IF Ranked(rows, m, p, s) = {} THEN Pad ELSE AsCell(CHOOSE r \in Ranked(rows, m, p, s) : TRUE)

Arm(rows, m) == [p \in Problems(rows) |-> [s \in 1..n_samples(rows) |-> Cell(rows, m, p, s)]]

\* The alternates of C7 are the observed matrices.
AnalysisState(rows) ==
    [base |-> Arm(rows, Base), rl |-> Arm(rows, Rl), n |-> n_samples(rows),
     weight |-> [p \in Problems(rows) |-> 1],
     recent |-> [p \in Problems(rows) |-> p[1] \in Recent],
     k_base |-> Min({KTop, n_samples(rows)}), k_rl |-> Min({KTop, n_samples(rows)})]

-----------------------------------------------------------------------------
(* adjustments.py *)

Axis(a) == DOMAIN a.weight
Solved(arm, p) == Cardinality({s \in DOMAIN arm[p] : arm[p][s].correct})

\* Both arms with the correctness of every cell replaced.
OnCells(a, Correct(_)) ==
    LET adjust(arm) == [p \in DOMAIN arm |-> [s \in DOMAIN arm[p] |->
                           [arm[p][s] EXCEPT !.correct = Correct(arm[p][s])]]]
    IN  [a EXCEPT !.base = adjust(@), !.rl = adjust(@)]

Reweigh(a, keep) == [a EXCEPT !.weight = [p \in Axis(a) |-> IF p \in keep THEN @[p] ELSE 0]]

\* The base solves between 5 and 80 per cent of the samples.
apply_C2(a) ==
    Reweigh(a, {p \in Axis(a) : LET c == 100 * Solved(a.base, p)
                                IN  5 * a.n <= c /\ c <= 80 * a.n})

\* Mutant: the date decides alone.
apply_C3Overwrites(a) == [a EXCEPT !.weight = [p \in Axis(a) |-> IF a.recent[p] THEN 1 ELSE 0]]

apply_C3(a) == Reweigh(a, {p \in Axis(a) : a.recent[p]})

\* Mutant: what the null gold does not match counts as solved.
apply_C4Unmasked(a) == OnCells(a, LAMBDA c : ~c.null)

apply_C4(a) == OnCells(a, LAMBDA c : c.correct /\ ~c.null)

\* The last position at which the base answered.
Budget(a) == Max({0} \cup {a.base[p][s].pos : p \in Axis(a), s \in 1..a.n})
apply_C5(a) == OnCells(a, LAMBDA c : c.correct /\ c.pos >= 0 /\ c.pos <= Budget(a))

\* Total tokens; a mean of 0 counts as 1.
Spend(a, arm) ==
    LET total == MapThenSumSet(LAMBDA x : arm[x[1]][x[2]].tokens, Axis(a) \X (1..a.n))
    IN  IF total = 0 THEN Cardinality(Axis(a)) * a.n ELSE total

apply_C6(a) ==
    [a EXCEPT !.k_rl = Max({1, Min({a.n, (a.k_base * Spend(a, a.base)) \div Spend(a, a.rl)})})]

apply_C7(a) == OnCells(a, LAMBDA c : c.shared)

\* Mutant: the shared prompt is put in after the false positives are taken out.
apply_setLateC7(a, S) ==
    LET c2 == IF "C2" \in S THEN apply_C2(a) ELSE a
        c3 == IF "C3" \in S THEN apply_C3(c2) ELSE c2
        c4 == IF "C4" \in S THEN apply_C4(c3) ELSE c3
        c7 == IF "C7" \in S THEN apply_C7(c4) ELSE c4
        c5 == IF "C5" \in S THEN apply_C5(c7) ELSE c7
    IN  IF "C6" \in S THEN apply_C6(c5) ELSE c5

\* Weights, then correctness, then the comparison rule, always in this order.
apply_set(a, S) ==
    LET c2 == IF "C2" \in S THEN apply_C2(a) ELSE a
        c3 == IF "C3" \in S THEN apply_C3(c2) ELSE c2
        c7 == IF "C7" \in S THEN apply_C7(c3) ELSE c3
        c4 == IF "C4" \in S THEN apply_C4(c7) ELSE c7
        c5 == IF "C5" \in S THEN apply_C5(c4) ELSE c4
    IN  IF "C6" \in S THEN apply_C6(c5) ELSE c5

-----------------------------------------------------------------------------
(* decompose.py *)

Scale(a) == factorial[a.n] * factorial[Cardinality(Axis(a))]

Live(a) == {p \in Axis(a) : a.weight[p] > 0}
TotalWeight(a) == MapThenSumSet(LAMBDA p : a.weight[p], Axis(a))

weighted_pass_at_k(a, arm, k) ==
    MapThenSumSet(LAMBDA p : a.weight[p] * pass_at_k(a.n, Solved(arm, p), Min({k, a.n})), Live(a))
        * (factorial[Cardinality(Axis(a))] \div TotalWeight(a))

\* Without a live problem the code raises EmptyStratumError.
gap(a) == weighted_pass_at_k(a, a.base, a.k_base) - weighted_pass_at_k(a, a.rl, a.k_rl)

G(a) == [S \in SUBSET CONFOUNDS |-> gap(apply_set(a, S))]
Estimable(a) == \A S \in SUBSET CONFOUNDS : Live(apply_set(a, S)) # {}

\* Mutant: every coalition weighs the same.
shapleyFlat(g, c) ==
    MapThenSumSet(LAMBDA S : g[S] - g[S \cup {c}], SUBSET (CONFOUNDS \ {c}))

\* v(S + c) - v(S) = G(S) - G(S + c), averaged over the orders of the confounds.
shapley(g, c) ==
    MapThenSumSet(LAMBDA S : factorial[Cardinality(S)]
                                 * factorial[Cardinality(CONFOUNDS) - Cardinality(S) - 1]
                                 * (g[S] - g[S \cup {c}]),
                  SUBSET (CONFOUNDS \ {c}))

\* Mutant: the dates are left behind.
ResampleOldDates(a, d) ==
    [a EXCEPT !.base = [i \in Axis(a) |-> @[d[i]]], !.rl = [i \in Axis(a) |-> @[d[i]]],
              !.weight = [i \in Axis(a) |-> @[d[i]]]]

\* One bootstrap replicate: whole problems, drawn with replacement.
Resample(a, d) ==
    [a EXCEPT !.base = [i \in Axis(a) |-> @[d[i]]], !.rl = [i \in Axis(a) |-> @[d[i]]],
              !.weight = [i \in Axis(a) |-> @[d[i]]], !.recent = [i \in Axis(a) |-> @[d[i]]]]

\* Mutant: problems the base solves are all counted as lost.
hard_zero_lostAll(a) == {p \in Axis(a) : Solved(a.base, p) > 0}

\* hard_zero_2x2: solved by one arm in some sample, by the other in none.
lost(a) == {p \in Axis(a) : Solved(a.base, p) > 0 /\ Solved(a.rl, p) = 0}
expansion(a) == {p \in Axis(a) : Solved(a.base, p) = 0 /\ Solved(a.rl, p) > 0}

-----------------------------------------------------------------------------
(* bootstrap.py, crossover.py *)

\* DEFAULT_KS up to n; a curve is a sum over problems, at every k over the same Scale.
usable_ks(a) == {2 ^ i : i \in 0..8} \cap 1..a.n
curve(a, arm, k) == MapThenSumSet(LAMBDA p : pass_at_k(a.n, Solved(arm, p), k), Axis(a))

\* Mutant: the curves have to cross, to touch is not enough.
caught_upStrict(a) == {k \in usable_ks(a) : curve(a, a.base, k) > curve(a, a.rl, k)}

\* crossover_k is the smallest of these, and None where there are none.
caught_up(a) == {k \in usable_ks(a) : curve(a, a.base, k) >= curve(a, a.rl, k)}

-----------------------------------------------------------------------------
Nothing == [S \in {} |-> 0]

Init ==
    /\ stage = "load" /\ df = {}
    /\ st = Nothing /\ lattice = Nothing /\ draw = Nothing /\ again = Nothing

\* load_graded: one more row of the marked parquets; a repeated sample_uid is refused.
Load(r) ==
    /\ stage = "load"
    /\ ~ \E q \in df : <<q.model, q.problem, q.variant, q.sample>>
                         = <<r.model, r.problem, r.variant, r.sample>>
    /\ df' = df \cup {r}
    /\ UNCHANGED <<stage, st, lattice, draw, again>>

Build ==
    /\ stage = "load"
    /\ IF Buildable(df) THEN stage' = "tensor" /\ st' = AnalysisState(df)
                        ELSE stage' = "raised" /\ UNCHANGED st
    /\ UNCHANGED <<df, lattice, draw, again>>

Decompose ==
    /\ stage = "tensor"
    /\ IF Estimable(st) THEN stage' = "point" /\ lattice' = G(st)
                        ELSE stage' = "raised" /\ UNCHANGED lattice
    /\ UNCHANGED <<df, st, draw, again>>

\* bootstrap_decompose: a replicate that empties a stratum is skipped.  Replicates do not
\* depend on each other, so a behaviour shows one.
Replicate(d) ==
    /\ stage = "point"
    /\ Estimable(Resample(st, d))
    /\ stage' = "replicate"
    /\ draw' = d /\ again' = G(Resample(st, d))
    /\ UNCHANGED <<df, st, lattice>>

Next ==
    \/ \E r \in Row : Load(r)
    \/ Build \/ Decompose
    \/ stage = "point" /\ \E d \in [Axis(st) -> Axis(st)] : Replicate(d)

Spec == Init /\ [][Next]_vars

-----------------------------------------------------------------------------
Built == stage \in {"tensor", "point", "replicate"}
Decomposed == stage \in {"point", "replicate"}

TypeOK ==
    /\ stage \in {"load", "tensor", "point", "replicate", "raised"}
    /\ df \subseteq Row
    /\ Built => /\ st.n \in Nat \ {0} /\ st.k_base \in 1..st.n /\ st.k_rl \in 1..st.n
                /\ DOMAIN st.base = Axis(st) /\ DOMAIN st.rl = Axis(st)
    /\ Decomposed => lattice \in [SUBSET CONFOUNDS -> Int]

\* Every cell of a tensor is the graded row of its rank, unless its model and problem have no
\* row at all: arms with different n are cut, never filled up (tensors.py:8-11, 182-202).
OnlyHolesPadded ==
    Built => \A p \in Axis(st), s \in 1..st.n :
        /\ Group(df, Base, p) # {} =>
               st.base[p][s] \in {AsCell(r) : r \in Ranked(df, Base, p, s)}
        /\ Group(df, Rl, p) # {} =>
               st.rl[p][s] \in {AsCell(r) : r \in Ranked(df, Rl, p, s)}

\* Every cell of a tensor is a graded sample: what nobody graded is an error and not an
\* all-False arm (tensors.py:123-129).
NothingInvented ==
    Built => \A p \in Axis(st), s \in 1..st.n : st.base[p][s] # Pad /\ st.rl[p][s] # Pad

\* raw gap = explained + residual (decompose.py:7-11), exactly and on every input.
Efficiency ==
    Decomposed =>
        MapThenSumSet(LAMBDA c : shapley(lattice, c), CONFOUNDS)
            = factorial[Cardinality(CONFOUNDS)] * (lattice[{}] - lattice[CONFOUNDS])

\* With the observed matrices as alternates C7 is an exact null player, whatever else is
\* adjusted: no subset's gap changes with it (pipeline.py:125-127).
C7IsNull == Decomposed => \A S \in SUBSET CONFOUNDS : lattice[S \cup {"C7"}] = lattice[S]

\* The problems of whose answers the null gold cannot be told from the gold.
Twin(p) == Gold[p] # NoInt /\ Gold[NullOf[p]] = Gold[p]

\* One answer is graded against both golds, so C4 takes a sample out only where two problems
\* of a dataset share their answer: without such twins it changes no gap, however lucky the
\* guesses, which adjustments.py:88-89 and mock_backend.py:122 do not say.
C4NeedsTwins ==
    Decomposed /\ (\A p \in Axis(st) : ~Twin(p)) =>
        \A S \in SUBSET CONFOUNDS : lattice[S \cup {"C4"}] = lattice[S]

\* The lattice can be estimated exactly if its top can: no subset runs out of problems
\* that the full set still has (decompose.py:29-36, 113-117).
TopDecides ==
    stage = "tensor" => (Estimable(st) <=> Live(apply_set(st, CONFOUNDS)) # {})

\* Drawing problems with replacement is reweighing them: each keeps its own date, weight
\* and both arms' samples (decompose.py:172-186).  C5 and C6 look at all problems at once.
ReplicateReweighs ==
    stage = "replicate" =>
        LET times == [p \in Axis(st) |-> Cardinality({i \in Axis(st) : draw[i] = p})]
        IN  \A S \in SUBSET {"C2", "C3", "C4", "C7"} :
                again[S] = gap(apply_set([st EXCEPT !.weight = times], S))

\* With as many draws as samples the raw gap is the hard-zero table: the problems lost less
\* those gained, over all problems (support.py:7-9).
TailGapIsHardZero ==
    Decomposed /\ st.k_base = st.n =>
        Cardinality(Axis(st)) * lattice[{}]
            = (Cardinality(lost(st)) - Cardinality(expansion(st))) * Scale(st)

\* A crossover is reported absent (crossover.py:14-19) only if the hard-zero table shows more
\* problems gained than lost, where the curves reach as far as the table does.
NoCrossoverIsExpansion ==
    Decomposed /\ st.n \in usable_ks(st) /\ caught_up(st) = {} =>
        Cardinality(expansion(st)) > Cardinality(lost(st))

\* The product form is the share of k-subsets that have a correct sample, and the closed
\* form of the reference implementations agrees, for the n of the tensor and larger ones
\* (passk.py:6-8, 43-46).
PassKIsSubsetShare ==
    stage = "tensor" => \A n \in st.n..KTop : \A c \in 0..n, k \in 1..n :
        /\ pass_at_k(n, c, k) * choose(n, k) = SubsetsWithCorrect(n, c, k) * factorial[n]
        /\ pass_at_k(n, c, k) = pass_at_k_gammaln(n, c, k)
=============================================================================
