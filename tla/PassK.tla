-------------------------------- MODULE PassK --------------------------------
(***************************************************************************)
(* The unbiased pass@k estimator (src/src/soe/analysis/passk.py) in exact  *)
(* arithmetic: a value is the numerator of a fraction over n!.             *)
(***************************************************************************)
EXTENDS Integers, FiniteSetsExt, Combinatorics

\* Mutant: the product starts one factor early.
pass_at_kWide(n, c, k) ==
    IF n - c < k THEN factorial[n]
    ELSE factorial[n] - factorial[n - c] * ProductSet({i - k : i \in (n - c)..n})

\* 1 - prod of (1 - k/i) for i in n-c+1..n; every k-subset has a correct one if n - c < k.
pass_at_k(n, c, k) ==
    IF n - c < k THEN factorial[n]
    ELSE factorial[n] - factorial[n - c] * ProductSet({i - k : i \in (n - c + 1)..n})

\* The closed form of the two reference implementations, 1 - C(n-c, k) / C(n, k).
pass_at_k_gammaln(n, c, k) ==
    IF n - c < k THEN factorial[n]
    ELSE factorial[n] - (choose(n - c, k) * factorial[n]) \div choose(n, k)

\* The share of the k-subsets of n samples, the first c of them correct, that have a
\* correct one: what the estimator stands for, as a numerator over C(n, k).
SubsetsWithCorrect(n, c, k) ==
    Cardinality({s \in kSubset(k, 1..n) : s \cap 1..c # {}})
=============================================================================
