---------------------------- MODULE Analysis_proofs ----------------------------
(***************************************************************************)
(* Theorems about Analysis for every frame, every set of adjustments and   *)
(* every cutoff.                                                           *)
(*                                                                         *)
(* With the observed matrices as alternates C7 changes no gap of the       *)
(* lattice, nor does C4 where no gold is its own null gold; the lattice    *)
(* can be estimated if and only if its top can; every cell of a tensor is  *)
(* the graded row of its rank; the Shapley values add up to the whole      *)
(* change; at full k the gap counts the problems one model alone solves; a *)
(* bootstrap replicate weighs each problem by its draws; and an estimate   *)
(* is a share of subsets.                                                  *)
(*                                                                         *)
(* The first sections are about sums over finite sets, as MapThenSumSet    *)
(* computes them, and the factorial. The summand is a function, so that a  *)
(* law can be cited for any expression e(x) by taking [x \in S |-> e(x)].  *)
(***************************************************************************)
EXTENDS Analysis, Integers, FiniteSetsExt, Combinatorics, FiniteSetTheorems,
        WellFoundedInduction, TLAPS

-----------------------------------------------------------------------------
(* Induction over sets of witnesses *)

\* Every non-empty set of naturals has a least element.
LEMMA Least ==
    ASSUME NEW T, T \subseteq Nat, T # {}
    PROVE  \E x \in T : \A y \in T : x <= y
<1>1. IsWellFoundedOn(OpToRel(<, Nat), Nat)
  BY NatLessThanWellFounded
<1>2. PICK x \in T : \A y \in T : ~ (<<y, x>> \in OpToRel(<, Nat))
  BY <1>1, WFMin
<1>3. \A y \in T : ~ (y < x)
  BY <1>2 DEF OpToRel
<1> QED
  BY <1>3

\* A set of naturals with 0 and the successor of each of its members is all of them.
LEMMA CountingUp ==
    ASSUME NEW T, 0 \in T, \A n \in T \cap Nat : n + 1 \in T
    PROVE  Nat \subseteq T
<1> SUFFICES ASSUME Nat \ T # {} PROVE FALSE
  OBVIOUS
<1>1. PICK x \in Nat \ T : \A y \in Nat \ T : x <= y
  BY Least
<1>2. x - 1 \in Nat /\ x - 1 \in T
  BY <1>1
<1>3. x - 1 + 1 \in T
  BY <1>2
<1> QED
  BY <1>1, <1>3

\* A family with {} and, with a subset of S, also that and one more element of S.
LEMMA AddingUp ==
    ASSUME NEW S, IsFiniteSet(S), NEW A, {} \in A,
           \A T \in SUBSET S : T \in A => \A x \in S \ T : T \cup {x} \in A
    PROVE  S \in A
<1> DEFINE N == {n \in Nat : \A T \in SUBSET S : Cardinality(T) = n => T \in A}
<1>1. ASSUME NEW T \in SUBSET S PROVE IsFiniteSet(T) /\ Cardinality(T) \in Nat
  BY FS_Subset, FS_CardinalityType
<1>2. 0 \in N
  BY <1>1, FS_EmptySet
<1>3. ASSUME NEW n \in N \cap Nat PROVE n + 1 \in N
  <2> SUFFICES ASSUME NEW T \in SUBSET S, Cardinality(T) = n + 1 PROVE T \in A
    OBVIOUS
  <2>1. PICK x \in T : TRUE
    BY <1>1, FS_EmptySet
  <2>2. Cardinality(T \ {x}) = n
    BY <1>1, <2>1, FS_RemoveElement
  <2>3. T \ {x} \in A /\ T = (T \ {x}) \cup {x}
    BY <1>3, <2>1, <2>2
  <2> QED
    BY <2>1, <2>3
<1>4. Nat \subseteq N
  BY <1>2, <1>3, CountingUp
<1> QED
  BY <1>1, <1>4

-----------------------------------------------------------------------------
(* What MapThenSumSet and ProductSet compute *)

\* o is "sum" or "product".
Join(o, a, b) == IF o = "sum" THEN a + b ELSE a * b

\* The table of the folds of all subsets, one more step of it.
Partial(o, f, S, it) ==
    [s \in SUBSET S |-> IF s = {} THEN (IF o = "sum" THEN 0 ELSE 1)
                        ELSE LET x == CHOOSE y \in s : TRUE IN Join(o, f[x], it[s \ {x}])]

Table(o, f, S) == CHOOSE it : it = Partial(o, f, S, it)
Folded(o, f, S) == Table(o, f, S)[S]

\* MapThenSumSet(LAMBDA x : f[x], S).
Total(f, S) == Folded("sum", f, S)

\* The table exists: by induction on the size of the subsets it covers.
LEMMA TableExists ==
    ASSUME NEW o, NEW f, NEW S, IsFiniteSet(S)
    PROVE  Table(o, f, S) = Partial(o, f, S, Table(o, f, S))
<1> DEFINE Small(n) == {s \in SUBSET S : Cardinality(s) <= n}
           Entry(s, it) == IF s = {} THEN (IF o = "sum" THEN 0 ELSE 1)
                          ELSE LET x == CHOOSE y \in s : TRUE IN Join(o, f[x], it[s \ {x}])
           N == {n \in Nat : \E it : it = [s \in Small(n) |-> Entry(s, it)]}
<1>1. ASSUME NEW s \in SUBSET S PROVE IsFiniteSet(s) /\ Cardinality(s) \in Nat
  BY FS_Subset, FS_CardinalityType
<1>2. ASSUME NEW s \in SUBSET S, s # {}
      PROVE  LET x == CHOOSE y \in s : TRUE
             IN  x \in s /\ Cardinality(s \ {x}) = Cardinality(s) - 1
  BY <1>1, <1>2, FS_RemoveElement
<1>3. 0 \in N
  <2>1. \A s \in Small(0) : s = {}
    BY <1>1, FS_EmptySet
  <2> DEFINE it == [s \in Small(0) |-> IF o = "sum" THEN 0 ELSE 1]
  <2>2. it = [s \in Small(0) |-> Entry(s, it)]
    BY <2>1
  <2> HIDE DEF it
  <2> QED
    BY <2>2
<1>4. ASSUME NEW n \in N \cap Nat PROVE n + 1 \in N
  <2>1. PICK it : it = [s \in Small(n) |-> Entry(s, it)]
    BY <1>4
  <2> DEFINE new == [s \in Small(n + 1) |-> Entry(s, it)]
  <2>2. ASSUME NEW s \in Small(n + 1) PROVE Entry(s, it) = Entry(s, new)
    <3>1. CASE s = {}
      BY <3>1
    <3>2. CASE s # {}
      <4> DEFINE x == CHOOSE y \in s : TRUE
      <4>1. s \ {x} \in Small(n) /\ s \ {x} \in Small(n + 1)
        BY <1>1, <1>2, <3>2
      <4>2. it[s \ {x}] = new[s \ {x}]
        <5>1. it[s \ {x}] = Entry(s \ {x}, it)
          BY <2>1, <4>1
        <5> QED
          BY <4>1, <5>1
      <4> QED
        BY <3>2, <4>2
    <3> QED
      BY <3>1, <3>2
  <2>3. new = [s \in Small(n + 1) |-> Entry(s, it)]
    OBVIOUS
  <2> HIDE DEF new, Entry
  <2>4. new = [s \in Small(n + 1) |-> Entry(s, new)]
    BY <2>2, <2>3
  <2>5. n + 1 \in Nat
    OBVIOUS
  <2> QED
    BY <2>4, <2>5
<1>5. Cardinality(S) \in N
  BY <1>1, <1>3, <1>4, CountingUp
<1>6. Small(Cardinality(S)) = SUBSET S
  BY <1>1, FS_Subset
<1>7. \E it : it = Partial(o, f, S, it)
  <2>1. PICK it : it = [s \in Small(Cardinality(S)) |-> Entry(s, it)]
    BY <1>5
  <2> QED
    BY <1>6, <2>1 DEF Partial
<1> QED
  BY <1>7 DEF Table

\* Tables agree on the sets both cover.
LEMMA TablesAgree ==
    ASSUME NEW o, NEW f, NEW S, IsFiniteSet(S), NEW T \in SUBSET S
    PROVE  Table(o, f, S)[T] = Folded(o, f, T)
<1> DEFINE N == {n \in Nat : \A s \in SUBSET T : Cardinality(s) = n =>
                                 Table(o, f, S)[s] = Table(o, f, T)[s]}
<1>1. ASSUME NEW s \in SUBSET T PROVE IsFiniteSet(s) /\ Cardinality(s) \in Nat /\ s \in SUBSET S
  BY FS_Subset, FS_CardinalityType
<1>2. /\ Table(o, f, S) = Partial(o, f, S, Table(o, f, S))
      /\ Table(o, f, T) = Partial(o, f, T, Table(o, f, T))
  BY <1>1, TableExists
<1>3. ASSUME NEW s \in SUBSET T, s # {}
      PROVE  LET x == CHOOSE y \in s : TRUE
             IN  /\ x \in s /\ Cardinality(s \ {x}) = Cardinality(s) - 1
                 /\ Table(o, f, S)[s] = Join(o, f[x], Table(o, f, S)[s \ {x}])
                 /\ Table(o, f, T)[s] = Join(o, f[x], Table(o, f, T)[s \ {x}])
  <2> DEFINE x == CHOOSE y \in s : TRUE
  <2>1. x \in s /\ Cardinality(s \ {x}) = Cardinality(s) - 1
    BY <1>1, <1>3, FS_RemoveElement
  <2>2. Table(o, f, S)[s] = Join(o, f[x], Table(o, f, S)[s \ {x}])
    BY <1>1, <1>2, <1>3 DEF Partial
  <2>3. Table(o, f, T)[s] = Join(o, f[x], Table(o, f, T)[s \ {x}])
    BY <1>2, <1>3 DEF Partial
  <2> QED
    BY <2>1, <2>2, <2>3
<1>4. 0 \in N
  <2>1. ASSUME NEW s \in SUBSET T, Cardinality(s) = 0 PROVE Table(o, f, S)[s] = Table(o, f, T)[s]
    <3>1. s = {}
      BY <1>1, <2>1, FS_EmptySet
    <3> QED
      BY <1>1, <1>2, <3>1 DEF Partial
  <2> QED
    BY <2>1
<1>5. ASSUME NEW n \in N \cap Nat PROVE n + 1 \in N
  <2> SUFFICES ASSUME NEW s \in SUBSET T, Cardinality(s) = n + 1
               PROVE  Table(o, f, S)[s] = Table(o, f, T)[s]
    OBVIOUS
  <2> DEFINE x == CHOOSE y \in s : TRUE
  <2>1. s # {}
    BY <1>1, FS_EmptySet
  <2>2. Cardinality(s \ {x}) = n /\ s \ {x} \in SUBSET T
    BY <1>3, <2>1
  <2>3. Table(o, f, S)[s \ {x}] = Table(o, f, T)[s \ {x}]
    BY <1>5, <2>2
  <2> QED
    BY <1>3, <2>1, <2>3
<1>6. Cardinality(T) \in N
  BY <1>1, <1>4, <1>5, CountingUp
<1> QED
  BY <1>6 DEF Folded

\* A fold as the library's operators unfold it.
LEMMA FoldedUnfold ==
    ASSUME NEW o, NEW f, NEW S, IsFiniteSet(S)
    PROVE  /\ Folded(o, f, {}) = IF o = "sum" THEN 0 ELSE 1
           /\ S # {} => LET x == CHOOSE y \in S : TRUE
                        IN  x \in S /\ Folded(o, f, S) = Join(o, f[x], Folded(o, f, S \ {x}))
<1>1. Folded(o, f, {}) = IF o = "sum" THEN 0 ELSE 1
  <2>1. Table(o, f, {}) = Partial(o, f, {}, Table(o, f, {}))
    BY FS_EmptySet, TableExists
  <2> QED
    BY <2>1 DEF Folded, Partial
<1>2. ASSUME S # {}
      PROVE  LET x == CHOOSE y \in S : TRUE
             IN  x \in S /\ Folded(o, f, S) = Join(o, f[x], Folded(o, f, S \ {x}))
  <2> DEFINE x == CHOOSE y \in S : TRUE
  <2>1. x \in S
    BY <1>2
  <2>2. Folded(o, f, S) = Join(o, f[x], Table(o, f, S)[S \ {x}])
    <3>1. Table(o, f, S) = Partial(o, f, S, Table(o, f, S))
      BY TableExists
    <3> QED
      BY <1>2, <3>1 DEF Folded, Partial
  <2>3. Table(o, f, S)[S \ {x}] = Folded(o, f, S \ {x})
    BY TablesAgree
  <2> QED
    BY <2>1, <2>2, <2>3
<1> QED
  BY <1>1, <1>2

\* Joined in another order integers give the same.
LEMMA JoinSwaps ==
    ASSUME NEW o, NEW a \in Int, NEW b \in Int, NEW c \in Int
    PROVE  Join(o, a, Join(o, b, c)) = Join(o, b, Join(o, a, c))
BY DEF Join

\* A fold of integers is an integer, in whatever order its elements are taken out.
LEMMA FoldedRemove ==
    ASSUME NEW o, NEW f, NEW S, IsFiniteSet(S), \A x \in S : f[x] \in Int
    PROVE  /\ Folded(o, f, S) \in Int
           /\ \A y \in S : Folded(o, f, S) = Join(o, f[y], Folded(o, f, S \ {y}))
<1> DEFINE Holds(T) == /\ Folded(o, f, T) \in Int
                       /\ \A y \in T : Folded(o, f, T) = Join(o, f[y], Folded(o, f, T \ {y}))
           N == {n \in Nat : \A T \in SUBSET S : Cardinality(T) <= n => Holds(T)}
<1>1. ASSUME NEW T \in SUBSET S
      PROVE  /\ IsFiniteSet(T) /\ Cardinality(T) \in Nat
             /\ \A x \in T : Cardinality(T \ {x}) = Cardinality(T) - 1
  BY FS_Subset, FS_CardinalityType, FS_RemoveElement
<1>2. Holds({})
  <2>1. IsFiniteSet({})
    BY FS_EmptySet
  <2>2. Folded(o, f, {}) \in Int
    BY <2>1, FoldedUnfold
  <2> QED
    BY <2>2
<1>3. 0 \in N
  <2>1. ASSUME NEW T \in SUBSET S, Cardinality(T) <= 0 PROVE T = {}
    BY <1>1, <2>1, FS_EmptySet
  <2> HIDE DEF Holds
  <2> QED
    BY <1>2, <2>1
<1>4. ASSUME NEW n \in N \cap Nat PROVE n + 1 \in N
  <2> SUFFICES ASSUME NEW T \in SUBSET S, T # {}, Cardinality(T) <= n + 1 PROVE Holds(T)
    <3> HIDE DEF Holds
    <3> QED
      BY <1>2
  <2> DEFINE c == CHOOSE y \in T : TRUE
  <2>1. c \in T /\ Folded(o, f, T) = Join(o, f[c], Folded(o, f, T \ {c}))
    BY <1>1, FoldedUnfold
  <2> HIDE DEF c
  <2>2. ASSUME NEW y \in T PROVE Holds(T \ {y})
    <3>1. T \ {y} \in SUBSET S /\ Cardinality(T \ {y}) <= n
      BY <1>1
    <3> HIDE DEF Holds
    <3> QED
      BY <1>4, <3>1
  <2>3. ASSUME NEW y \in T, y # c PROVE Folded(o, f, T) = Join(o, f[y], Folded(o, f, T \ {y}))
    <3> DEFINE rest == Folded(o, f, (T \ {c}) \ {y})
    <3>1. (T \ {c}) \ {y} = (T \ {y}) \ {c} /\ y \in T \ {c} /\ c \in T \ {y}
      BY <2>1, <2>3
    <3>2. Folded(o, f, T \ {c}) = Join(o, f[y], rest) /\ Folded(o, f, T \ {y}) = Join(o, f[c], rest)
      BY <2>1, <2>2, <3>1
    <3>3. rest \in Int
      <4>1. (T \ {c}) \ {y} \in SUBSET S /\ Cardinality((T \ {c}) \ {y}) <= n
        <5>1. /\ T \ {c} \in SUBSET S /\ (T \ {c}) \ {y} \in SUBSET S
              /\ Cardinality(T \ {c}) <= n /\ Cardinality(T \ {c}) \in Nat
          BY <1>1, <2>1
        <5>2. Cardinality((T \ {c}) \ {y}) = Cardinality(T \ {c}) - 1
          BY <1>1, <3>1, <5>1
        <5> QED
          BY <5>1, <5>2
      <4>2. Holds((T \ {c}) \ {y})
        <5> HIDE DEF Holds
        <5> QED
          BY <1>4, <4>1
      <4> QED
        BY <4>2
    <3>4. f[y] \in Int /\ f[c] \in Int
      BY <2>1
    <3> HIDE DEF rest
    <3> QED
      BY <2>1, <3>2, <3>3, <3>4, JoinSwaps
  <2>4. Folded(o, f, T) \in Int
    <3>1. f[c] \in Int /\ Folded(o, f, T \ {c}) \in Int
      BY <2>1, <2>2
    <3> QED
      BY <2>1, <3>1 DEF Join
  <2> QED
    BY <2>1, <2>3, <2>4
<1>5. Cardinality(S) \in N
  <2> HIDE DEF N
  <2> QED
    BY <1>1, <1>3, <1>4, CountingUp
<1>6. Holds(S)
  <2> HIDE DEF Holds
  <2> QED
    BY <1>1, <1>5
<1> QED
  BY <1>6

-----------------------------------------------------------------------------
(* The laws of sums *)

\* Only the summands count.
LEMMA TotalCongruent ==
    ASSUME NEW f, NEW g, NEW S, \A x \in S : f[x] = g[x]
    PROVE  Total(f, S) = Total(g, S)
<1>1. ASSUME NEW it PROVE Partial("sum", f, S, it) = Partial("sum", g, S, it)
  <2>1. ASSUME NEW s \in SUBSET S, s # {} PROVE (CHOOSE y \in s : TRUE) \in S
    BY <2>1
  <2> QED
    BY <2>1 DEF Partial
<1> QED
  BY <1>1 DEF Total, Folded, Table

\* A sum of integers is an integer, in whatever order its elements are taken out.
LEMMA TotalRemove ==
    ASSUME NEW f, NEW S, IsFiniteSet(S), \A x \in S : f[x] \in Int
    PROVE  /\ Total(f, {}) = 0 /\ Total(f, S) \in Int
           /\ \A y \in S : Total(f, S) = f[y] + Total(f, S \ {y})
<1>1. Folded("sum", f, {}) = 0
  BY FS_EmptySet, FoldedUnfold
<1>2. /\ Folded("sum", f, S) \in Int
      /\ \A y \in S : Folded("sum", f, S) = Join("sum", f[y], Folded("sum", f, S \ {y}))
  <2> HIDE DEF Join
  <2> QED
    BY FoldedRemove
<1> QED
  BY <1>1, <1>2 DEF Total, Join

\* The sum of every subset is an integer, and an element more adds its summand.
LEMMA TotalAdd ==
    ASSUME NEW f, NEW S, IsFiniteSet(S), \A x \in S : f[x] \in Int
    PROVE  /\ Total(f, {}) = 0
           /\ \A T \in SUBSET S : Total(f, T) \in Int
           /\ \A T \in SUBSET S : \A x \in S \ T : Total(f, T \cup {x}) = f[x] + Total(f, T)
<1>2. Total(f, {}) = 0
  BY TotalRemove
<1>3. ASSUME NEW T \in SUBSET S PROVE IsFiniteSet(T)
  BY FS_Subset
<1>4. ASSUME NEW T \in SUBSET S PROVE Total(f, T) \in Int
  BY <1>3, TotalRemove
<1>5. ASSUME NEW T \in SUBSET S, NEW x \in S \ T PROVE Total(f, T \cup {x}) = f[x] + Total(f, T)
  <2>1. IsFiniteSet(T \cup {x}) /\ (T \cup {x}) \ {x} = T /\ T \cup {x} \subseteq S
    BY <1>3
  <2>2. Total(f, T \cup {x}) = f[x] + Total(f, (T \cup {x}) \ {x})
    BY <2>1, TotalRemove
  <2> QED
    BY <2>1, <2>2
<1> QED
  BY <1>2, <1>4, <1>5

LEMMA TotalNatural ==
    ASSUME NEW f, NEW S, IsFiniteSet(S), \A x \in S : f[x] \in Nat
    PROVE  Total(f, S) \in Nat
<1> DEFINE A == {T \in SUBSET S : Total(f, T) \in Nat}
<1>1. /\ Total(f, {}) = 0
      /\ \A T \in SUBSET S : \A x \in S \ T : Total(f, T \cup {x}) = f[x] + Total(f, T)
  BY TotalAdd
<1>2. {} \in A
  BY <1>1
<1>3. ASSUME NEW T \in SUBSET S, T \in A, NEW x \in S \ T PROVE T \cup {x} \in A
  BY <1>1, <1>3
<1>4. S \in A
  <2> HIDE DEF A
  <2> QED
    BY <1>2, <1>3, AddingUp
<1> QED
  BY <1>4

LEMMA TotalPlus ==
    ASSUME NEW f, NEW g, NEW h, NEW S, IsFiniteSet(S),
           \A x \in S : f[x] \in Int /\ g[x] \in Int /\ h[x] = f[x] + g[x]
    PROVE  Total(h, S) = Total(f, S) + Total(g, S)
<1> DEFINE A == {T \in SUBSET S : Total(h, T) = Total(f, T) + Total(g, T)}
<1>1. ASSUME NEW e \in {f, g, h}
      PROVE  /\ Total(e, {}) = 0
             /\ \A T \in SUBSET S : Total(e, T) \in Int
             /\ \A T \in SUBSET S : \A x \in S \ T : Total(e, T \cup {x}) = e[x] + Total(e, T)
  <2>1. \A x \in S : e[x] \in Int
    OBVIOUS
  <2> QED
    BY <2>1, TotalAdd
<1>2. {} \in A
  BY <1>1
<1>3. ASSUME NEW T \in SUBSET S, T \in A, NEW x \in S \ T PROVE T \cup {x} \in A
  <2>1. /\ Total(f, T \cup {x}) = f[x] + Total(f, T) /\ Total(f, T) \in Int
        /\ Total(g, T \cup {x}) = g[x] + Total(g, T) /\ Total(g, T) \in Int
        /\ Total(h, T \cup {x}) = h[x] + Total(h, T)
    BY <1>1
  <2>2. Total(h, T) = Total(f, T) + Total(g, T)
    BY <1>3
  <2>3. f[x] \in Int /\ g[x] \in Int /\ h[x] = f[x] + g[x]
    OBVIOUS
  <2> QED
    BY <2>1, <2>2, <2>3
<1>4. S \in A
  <2> HIDE DEF A
  <2> QED
    BY <1>2, <1>3, AddingUp
<1> QED
  BY <1>4

LEMMA TotalScaled ==
    ASSUME NEW f, NEW h, NEW k \in Int, NEW S, IsFiniteSet(S),
           \A x \in S : f[x] \in Int /\ h[x] = k * f[x]
    PROVE  Total(h, S) = k * Total(f, S)
<1> DEFINE A == {T \in SUBSET S : Total(h, T) = k * Total(f, T)}
<1>1. ASSUME NEW e \in {f, h}
      PROVE  /\ Total(e, {}) = 0
             /\ \A T \in SUBSET S : Total(e, T) \in Int
             /\ \A T \in SUBSET S : \A x \in S \ T : Total(e, T \cup {x}) = e[x] + Total(e, T)
  <2>1. \A x \in S : e[x] \in Int
    OBVIOUS
  <2> QED
    BY <2>1, TotalAdd
<1>2. {} \in A
  BY <1>1
<1>3. ASSUME NEW T \in SUBSET S, T \in A, NEW x \in S \ T PROVE T \cup {x} \in A
  <2>1. /\ Total(f, T \cup {x}) = f[x] + Total(f, T) /\ Total(f, T) \in Int
        /\ Total(h, T \cup {x}) = h[x] + Total(h, T)
    BY <1>1
  <2>2. Total(h, T) = k * Total(f, T) /\ f[x] \in Int /\ h[x] = k * f[x]
    BY <1>3
  <2>3. k * (f[x] + Total(f, T)) = k * f[x] + k * Total(f, T)
    BY <2>1, <2>2
  <2> QED
    BY <2>1, <2>2, <2>3
<1>4. S \in A
  <2> HIDE DEF A
  <2> QED
    BY <1>2, <1>3, AddingUp
<1> QED
  BY <1>4

\* Counting is summing ones.
LEMMA TotalCount ==
    ASSUME NEW f, NEW S, IsFiniteSet(S), NEW P,
           \A x \in S : f[x] = IF x \in P THEN 1 ELSE 0
    PROVE  Total(f, S) = Cardinality(S \cap P)
<1> DEFINE A == {T \in SUBSET S : Total(f, T) = Cardinality(T \cap P)}
<1>1. /\ Total(f, {}) = 0
      /\ \A T \in SUBSET S : Total(f, T) \in Int
      /\ \A T \in SUBSET S : \A x \in S \ T : Total(f, T \cup {x}) = f[x] + Total(f, T)
  <2>1. \A x \in S : f[x] \in Int
    OBVIOUS
  <2> QED
    BY <2>1, TotalAdd
<1>2. {} \in A
  BY <1>1, FS_EmptySet
<1>3. ASSUME NEW T \in SUBSET S, T \in A, NEW x \in S \ T PROVE T \cup {x} \in A
  <2>1. IsFiniteSet(T \cap P) /\ Cardinality(T \cap P) \in Nat
    BY FS_Subset, FS_CardinalityType
  <2>2. Total(f, T \cup {x}) = f[x] + Cardinality(T \cap P)
    BY <1>1, <1>3
  <2>3. CASE x \in P
    <3>1. (T \cup {x}) \cap P = (T \cap P) \cup {x} /\ x \notin T \cap P
      BY <2>3
    <3>2. Cardinality((T \cap P) \cup {x}) = Cardinality(T \cap P) + 1
      BY <2>1, <3>1, FS_AddElement
    <3> QED
      BY <2>1, <2>2, <2>3, <3>1, <3>2
  <2>4. CASE x \notin P
    <3>1. (T \cup {x}) \cap P = T \cap P
      BY <2>4
    <3>2. f[x] = 0 /\ T \cup {x} \in SUBSET S
      BY <2>4
    <3>3. Total(f, T \cup {x}) = Cardinality(T \cap P)
      BY <2>1, <2>2, <3>2
    <3> QED
      BY <3>1, <3>2, <3>3
  <2> QED
    BY <2>3, <2>4
<1>4. S \in A
  <2> HIDE DEF A
  <2> QED
    BY <1>2, <1>3, AddingUp
<1> QED
  BY <1>4

LEMMA TotalConstant ==
    ASSUME NEW h, NEW k \in Int, NEW S, IsFiniteSet(S), \A x \in S : h[x] = k
    PROVE  Total(h, S) = k * Cardinality(S)
<1> DEFINE one == [x \in S |-> 1]
<1>1. Total(one, S) = Cardinality(S \cap S)
  BY TotalCount
<1>2. \A x \in S : one[x] \in Int /\ h[x] = k * one[x]
  OBVIOUS
<1> HIDE DEF one
<1>3. Total(h, S) = k * Total(one, S)
  BY <1>2, TotalScaled
<1> QED
  BY <1>1, <1>3

\* Summands of 0 can be left out.
LEMMA TotalRestrict ==
    ASSUME NEW f, NEW S, IsFiniteSet(S), NEW R \in SUBSET S,
           \A x \in S : f[x] \in Int, \A x \in S \ R : f[x] = 0
    PROVE  Total(f, S) = Total(f, R)
<1> DEFINE A == {T \in SUBSET S : Total(f, T) = Total(f, T \cap R)}
<1>1. /\ \A T \in SUBSET S : Total(f, T) \in Int
      /\ \A T \in SUBSET S : \A x \in S \ T : Total(f, T \cup {x}) = f[x] + Total(f, T)
  BY TotalAdd
<1>2. {} \in A
  <2>1. {} \cap R = {}
    OBVIOUS
  <2> QED
    BY <2>1
<1>3. ASSUME NEW T \in SUBSET S, T \in A, NEW x \in S \ T PROVE T \cup {x} \in A
  <2>1. Total(f, T \cup {x}) = f[x] + Total(f, T \cap R) /\ Total(f, T \cap R) \in Int
    BY <1>1, <1>3
  <2>2. CASE x \in R
    <3>1. (T \cup {x}) \cap R = (T \cap R) \cup {x} /\ T \cap R \in SUBSET S /\ x \in S \ (T \cap R)
      BY <2>2
    <3>2. Total(f, (T \cap R) \cup {x}) = f[x] + Total(f, T \cap R)
      BY <1>1, <3>1
    <3> QED
      BY <2>1, <3>1, <3>2
  <2>3. CASE x \notin R
    <3>1. (T \cup {x}) \cap R = T \cap R /\ f[x] = 0
      BY <2>3
    <3>2. Total(f, T \cup {x}) = Total(f, T \cap R)
      BY <2>1, <3>1
    <3> QED
      BY <3>1, <3>2
  <2> QED
    BY <2>2, <2>3
<1>4. S \in A
  <2> HIDE DEF A
  <2> QED
    BY <1>2, <1>3, AddingUp
<1>5. S \cap R = R
  OBVIOUS
<1> QED
  BY <1>4, <1>5

\* A single summand.
LEMMA TotalSingle ==
    ASSUME NEW f, NEW S, IsFiniteSet(S), NEW y \in S, f[y] \in Int, \A x \in S \ {y} : f[x] = 0
    PROVE  Total(f, S) = f[y]
<1>1. \A x \in S : f[x] \in Int
  OBVIOUS
<1>2. Total(f, S) = Total(f, {y})
  BY <1>1, TotalRestrict
<1>3. /\ Total(f, {}) = 0
      /\ \A T \in SUBSET S : \A x \in S \ T : Total(f, T \cup {x}) = f[x] + Total(f, T)
  BY <1>1, TotalAdd
<1>4. Total(f, {} \cup {y}) = f[y] + Total(f, {})
  BY <1>3
<1>5. {} \cup {y} = {y}
  OBVIOUS
<1> QED
  BY <1>2, <1>3, <1>4, <1>5

\* The row sums of a table F[x][y].
RowTotals(F, A, B) == [x \in A |-> Total(F[x], B)]

\* A table of integers has one sum, by rows F and by columns C.
LEMMA TotalSwap ==
    ASSUME NEW A, IsFiniteSet(A), NEW B, IsFiniteSet(B), NEW F, NEW C,
           \A x \in A, y \in B : F[x][y] \in Int /\ C[y][x] = F[x][y]
    PROVE  Total(RowTotals(F, A, B), A) = Total(RowTotals(C, B, A), B)
<1> DEFINE f == RowTotals(F, A, B)
           upto(T) == [y \in B |-> Total(C[y], T)]
           Fam == {T \in SUBSET A : Total(f, T) = Total(upto(T), B)}
<1>1. ASSUME NEW y \in B
      PROVE  /\ Total(C[y], {}) = 0
             /\ \A T \in SUBSET A : Total(C[y], T) \in Int
             /\ \A T \in SUBSET A : \A x \in A \ T :
                  Total(C[y], T \cup {x}) = C[y][x] + Total(C[y], T)
  <2>1. \A x \in A : C[y][x] \in Int
    OBVIOUS
  <2> QED
    BY <2>1, TotalAdd
<1>2. ASSUME NEW x \in A PROVE f[x] = Total(F[x], B) /\ f[x] \in Int
  <2>1. \A y \in B : F[x][y] \in Int
    OBVIOUS
  <2>2. Total(F[x], B) \in Int
    BY <2>1, TotalAdd
  <2> QED
    BY <2>2 DEF RowTotals
<1> HIDE DEF f
<1>3. /\ Total(f, {}) = 0
      /\ \A T \in SUBSET A : Total(f, T) \in Int
      /\ \A T \in SUBSET A : \A x \in A \ T : Total(f, T \cup {x}) = f[x] + Total(f, T)
  BY <1>2, TotalAdd
<1>4. {} \in Fam
  <2> DEFINE none == upto({})
  <2>1. \A y \in B : none[y] = 0
    BY <1>1
  <2> HIDE DEF none
  <2>2. Total(none, B) = 0 * Cardinality(B)
    BY <2>1, TotalConstant
  <2>3. Cardinality(B) \in Nat
    BY FS_CardinalityType
  <2> QED
    BY <1>3, <2>2, <2>3 DEF none
<1>5. ASSUME NEW T \in SUBSET A, T \in Fam, NEW x \in A \ T PROVE T \cup {x} \in Fam
  <2> DEFINE new == upto(T \cup {x})
             old == upto(T)
             row == F[x]
  <2>1. ASSUME NEW y \in B
        PROVE  row[y] \in Int /\ old[y] \in Int /\ new[y] = row[y] + old[y]
    <3>1. Total(C[y], T \cup {x}) = C[y][x] + Total(C[y], T) /\ Total(C[y], T) \in Int
      BY <1>1
    <3> QED
      BY <3>1
  <2>2. Total(f, T \cup {x}) = f[x] + Total(f, T) /\ f[x] = Total(row, B)
    BY <1>2, <1>3
  <2>3. Total(f, T) = Total(old, B)
    BY <1>5
  <2> HIDE DEF new, old, row
  <2>4. Total(new, B) = Total(row, B) + Total(old, B)
    BY <2>1, TotalPlus
  <2>5. Total(f, T \cup {x}) = Total(new, B)
    BY <2>2, <2>3, <2>4
  <2> QED
    BY <2>5 DEF new
<1>6. A \in Fam
  <2> HIDE DEF Fam
  <2> QED
    BY <1>4, <1>5, AddingUp
<1>7. upto(A) = RowTotals(C, B, A)
  BY DEF RowTotals
<1> QED
  BY <1>6, <1>7 DEF f

\* How often d draws p.
Times(d, S, p) == Cardinality({i \in S : d[i] = p})

LEMMA TotalOfHits ==
    ASSUME NEW S, IsFiniteSet(S), NEW d, NEW p, NEW k \in Int, NEW f,
           \A i \in S : f[i] = IF d[i] = p THEN k ELSE 0
    PROVE  Total(f, S) = k * Times(d, S, p)
<1> DEFINE P == {i \in S : d[i] = p}
           hit == [i \in S |-> IF i \in P THEN 1 ELSE 0]
<1>1. \A i \in S : hit[i] = IF i \in P THEN 1 ELSE 0
  OBVIOUS
<1>2. \A i \in S : hit[i] \in Int /\ f[i] = k * hit[i]
  OBVIOUS
<1>3. S \cap P = P
  OBVIOUS
<1> HIDE DEF P, hit
<1>4. Total(hit, S) = Cardinality(S \cap P)
  BY <1>1, TotalCount
<1>5. Total(f, S) = k * Total(hit, S)
  BY <1>2, TotalScaled
<1> QED
  BY <1>3, <1>4, <1>5 DEF P, Times

\* What the i-th draw of d finds in h, and what each of R is worth, as often as it is drawn.
Drawn(h, d, S) == [i \in S |-> h[d[i]]]
Reweighed(h, d, S, R) == [p \in R |-> h[p] * Times(d, S, p)]

\* A sum over drawings is a sum over what was drawn, as often as it was.
LEMMA TotalDrawn ==
    ASSUME NEW S, IsFiniteSet(S), NEW R, IsFiniteSet(R), NEW d, NEW h,
           \A i \in S : d[i] \in R, \A p \in R : h[p] \in Int
    PROVE  Total(Drawn(h, d, S), S) = Total(Reweighed(h, d, S, R), R)
<1> DEFINE F == [i \in S |-> [p \in R |-> IF d[i] = p THEN h[p] ELSE 0]]
           C == [p \in R |-> [i \in S |-> IF d[i] = p THEN h[p] ELSE 0]]
<1>1. ASSUME NEW i \in S, NEW p \in R
      PROVE  /\ F[i][p] = IF d[i] = p THEN h[p] ELSE 0
             /\ F[i][p] \in Int /\ C[p][i] = F[i][p]
  <2>1. h[p] \in Int
    OBVIOUS
  <2> QED
    BY <2>1
<1> HIDE DEF F, C
<1>2. ASSUME NEW i \in S PROVE Drawn(h, d, S)[i] = Total(F[i], R)
  <2> DEFINE row == F[i]
  <2>1. d[i] \in R /\ row[d[i]] \in Int /\ \A p \in R \ {d[i]} : row[p] = 0
    BY <1>1
  <2>2. row[d[i]] = Drawn(h, d, S)[i]
    BY <1>1 DEF Drawn
  <2> HIDE DEF row
  <2>3. Total(row, R) = row[d[i]]
    BY <2>1, TotalSingle
  <2> QED
    BY <2>2, <2>3 DEF row
<1>3. ASSUME NEW p \in R PROVE Reweighed(h, d, S, R)[p] = Total(C[p], S)
  <2> DEFINE column == C[p]
             k == h[p]
  <2>1. \A i \in S : column[i] = IF d[i] = p THEN k ELSE 0
    BY <1>1
  <2>2. k \in Int /\ Reweighed(h, d, S, R)[p] = k * Times(d, S, p)
    BY DEF Reweighed
  <2> HIDE DEF column, k
  <2>3. Total(column, S) = k * Times(d, S, p)
    BY <2>1, <2>2, TotalOfHits
  <2> QED
    BY <2>2, <2>3 DEF column
<1>4. \A i \in S, p \in R : F[i][p] \in Int /\ C[p][i] = F[i][p]
  BY <1>1
<1>5. Total(RowTotals(F, S, R), S) = Total(RowTotals(C, R, S), R)
  BY <1>4, TotalSwap
<1>6. \A i \in S : Drawn(h, d, S)[i] = RowTotals(F, S, R)[i]
  BY <1>2 DEF RowTotals
<1>7. \A p \in R : Reweighed(h, d, S, R)[p] = RowTotals(C, R, S)[p]
  BY <1>3 DEF RowTotals
<1>8. Total(Drawn(h, d, S), S) = Total(RowTotals(F, S, R), S)
  BY <1>6, TotalCongruent
<1>9. Total(Reweighed(h, d, S, R), R) = Total(RowTotals(C, R, S), R)
  BY <1>7, TotalCongruent
<1> QED
  BY <1>5, <1>8, <1>9

\* Renaming the index of a sum.
LEMMA TotalRenamed ==
    ASSUME NEW S, IsFiniteSet(S), NEW R, IsFiniteSet(R), NEW d, NEW h,
           \A i \in S : d[i] \in R,
           \A p \in R : h[p] \in Int /\ \E i \in S : d[i] = p,
           \A i, j \in S : d[i] = d[j] => i = j
    PROVE  Total(Drawn(h, d, S), S) = Total(h, R)
<1>1. ASSUME NEW p \in R PROVE Times(d, S, p) = 1
  <2>1. PICK i \in S : d[i] = p
    OBVIOUS
  <2>2. {j \in S : d[j] = p} = {i}
    BY <2>1
  <2> QED
    BY <2>2, FS_Singleton DEF Times
<1>2. \A p \in R : Reweighed(h, d, S, R)[p] = h[p]
  BY <1>1 DEF Reweighed
<1>3. Total(Reweighed(h, d, S, R), R) = Total(h, R)
  BY <1>2, TotalCongruent
<1>4. Total(Drawn(h, d, S), S) = Total(Reweighed(h, d, S, R), R)
  BY TotalDrawn
<1> QED
  BY <1>3, <1>4

-----------------------------------------------------------------------------
(* Factorials and empty products *)

FactorialUpTo(n, g) == [i \in 0..n |-> IF i = 0 THEN 1 ELSE i * g[i - 1]]

LEMMA FactorialExists ==
    factorial = [n \in Nat |-> IF n = 0 THEN 1 ELSE n * factorial[n - 1]]
<1> DEFINE T == {n \in Nat : \E g : g = FactorialUpTo(n, g)}
<1>1. 0 \in T
  <2> DEFINE g == [i \in 0..0 |-> 1]
  <2>1. g = FactorialUpTo(0, g)
    BY DEF FactorialUpTo
  <2> QED
    BY <2>1
<1>2. ASSUME NEW n \in T \cap Nat PROVE n + 1 \in T
  <2>1. PICK g : g = FactorialUpTo(n, g)
    BY <1>2
  <2> DEFINE h == FactorialUpTo(n + 1, g)
  <2>2. h = FactorialUpTo(n + 1, h)
    <3>1. ASSUME NEW i \in 0..n + 1, i # 0 PROVE g[i - 1] = h[i - 1]
      <4>1. i - 1 \in 0..n /\ i - 1 \in 0..n + 1
        BY <3>1
      <4> QED
        BY <2>1, <4>1 DEF FactorialUpTo
    <3> QED
      BY <3>1 DEF FactorialUpTo
  <2> HIDE DEF h
  <2> QED
    BY <2>2
<1>3. Nat \subseteq T
  BY <1>1, <1>2, CountingUp
<1> DEFINE Fact(n) == CHOOSE g : g = FactorialUpTo(n, g)
<1>4. ASSUME NEW n \in Nat PROVE Fact(n) = FactorialUpTo(n, Fact(n))
  BY <1>3
<1> HIDE DEF Fact
<1>5. ASSUME NEW n \in Nat, NEW m \in n..n + 1 PROVE \A i \in 0..n : Fact(m)[i] = Fact(n)[i]
  <2> DEFINE I == {i \in Nat : i <= n => Fact(m)[i] = Fact(n)[i]}
  <2>1. /\ Fact(n) = [i \in 0..n |-> IF i = 0 THEN 1 ELSE i * Fact(n)[i - 1]]
        /\ Fact(m) = [i \in 0..m |-> IF i = 0 THEN 1 ELSE i * Fact(m)[i - 1]]
    BY <1>4 DEF FactorialUpTo
  <2>2. 0 \in I
    BY <2>1
  <2>3. ASSUME NEW i \in I \cap Nat PROVE i + 1 \in I
    <3>1. CASE i + 1 <= n
      <4>1. i + 1 \in 0..n /\ i + 1 \in 0..m /\ i + 1 # 0 /\ i + 1 - 1 = i
        BY <3>1
      <4>2. Fact(n)[i + 1] = (i + 1) * Fact(n)[i + 1 - 1] /\ Fact(m)[i + 1] = (i + 1) * Fact(m)[i + 1 - 1]
        BY <2>1, <4>1
      <4>3. Fact(m)[i] = Fact(n)[i]
        BY <2>3, <3>1
      <4> QED
        BY <4>1, <4>2, <4>3
    <3>2. CASE ~ (i + 1 <= n)
      BY <3>2
    <3> QED
      BY <3>1, <3>2
  <2>4. Nat \subseteq I
    <3> HIDE DEF I
    <3> QED
      BY <2>2, <2>3, CountingUp
  <2> QED
    BY <2>4
<1> DEFINE f == [n \in Nat |-> Fact(n)[n]]
<1>6. ASSUME NEW n \in Nat PROVE f[n] = IF n = 0 THEN 1 ELSE n * f[n - 1]
  <2>1. Fact(n)[n] = IF n = 0 THEN 1 ELSE n * Fact(n)[n - 1]
    BY <1>4 DEF FactorialUpTo
  <2>2. CASE n # 0
    <3>1. n - 1 \in Nat /\ n \in n - 1..n - 1 + 1 /\ n - 1 \in 0..n - 1
      BY <2>2
    <3>2. Fact(n)[n - 1] = Fact(n - 1)[n - 1]
      BY <1>5, <3>1
    <3> QED
      BY <2>1, <2>2, <3>1, <3>2
  <2> QED
    BY <2>1, <2>2
<1>7. f = [n \in Nat |-> IF n = 0 THEN 1 ELSE n * f[n - 1]]
  <2>1. f = [n \in Nat |-> f[n]]
    OBVIOUS
  <2> HIDE DEF f
  <2> QED
    BY <1>6, <2>1
<1> HIDE DEF f
<1> QED
  BY <1>7 DEF factorial

LEMMA FactorialStep ==
    /\ factorial[0] = 1
    /\ \A n \in Nat : factorial[n] \in Nat \ {0} /\ factorial[n + 1] = (n + 1) * factorial[n]
<1>1. factorial[0] = 1
  BY FactorialExists
<1>2. ASSUME NEW n \in Nat PROVE factorial[n + 1] = (n + 1) * factorial[n]
  <2>1. n + 1 \in Nat /\ n + 1 # 0 /\ n + 1 - 1 = n
    OBVIOUS
  <2>2. factorial[n + 1] = (n + 1) * factorial[n + 1 - 1]
    BY <2>1, FactorialExists
  <2> QED
    BY <2>1, <2>2
<1> DEFINE T == {n \in Nat : factorial[n] \in Nat \ {0}}
<1>3. 0 \in T
  BY <1>1
<1>4. ASSUME NEW n \in T \cap Nat PROVE n + 1 \in T
  <2>1. factorial[n] \in Nat \ {0} /\ factorial[n + 1] = (n + 1) * factorial[n]
    BY <1>2, <1>4
  <2>2. (n + 1) * factorial[n] \in Nat \ {0}
    BY <2>1
  <2> QED
    BY <2>1, <2>2
<1>5. Nat \subseteq T
  BY <1>3, <1>4, CountingUp
<1> QED
  BY <1>1, <1>2, <1>5

LEMMA ProductRemove ==
    ASSUME NEW f, NEW S, IsFiniteSet(S), \A x \in S : f[x] \in Int
    PROVE  /\ Folded("product", f, S) \in Int
           /\ \A y \in S : Folded("product", f, S) = f[y] * Folded("product", f, S \ {y})
<1>1. /\ Folded("product", f, S) \in Int
      /\ \A y \in S : Folded("product", f, S) = Join("product", f[y], Folded("product", f, S \ {y}))
  BY FoldedRemove
<1> QED
  BY <1>1 DEF Join

\* A product of integers is an integer, of none it is 1, and each factor can be taken out.
LEMMA ProductTyped ==
    /\ ProductSet({}) = 1
    /\ \A S \in SUBSET Int : IsFiniteSet(S) =>
         /\ ProductSet(S) \in Int
         /\ \A x \in S : ProductSet(S) = x * ProductSet(S \ {x})
<1> DEFINE f == [x \in Int |-> x]
<1>1. ASSUME NEW S \in SUBSET Int PROVE ProductSet(S) = Folded("product", f, S)
  BY DEF ProductSet, FoldSet, MapThenFoldSet, Folded, Table, Partial, Join
<1>2. \A x \in Int : f[x] = x
  OBVIOUS
<1> HIDE DEF f
<1>3. ProductSet({}) = 1
  BY <1>1, FS_EmptySet, FoldedUnfold
<1>4. ASSUME NEW S \in SUBSET Int, IsFiniteSet(S)
      PROVE  /\ ProductSet(S) \in Int
             /\ \A x \in S : ProductSet(S) = x * ProductSet(S \ {x})
  <2>1. \A x \in S : f[x] \in Int
    BY <1>2
  <2>2. /\ Folded("product", f, S) \in Int
        /\ \A x \in S : Folded("product", f, S) = f[x] * Folded("product", f, S \ {x})
    BY <1>4, <2>1, ProductRemove
  <2>3. \A x \in S : ProductSet(S \ {x}) = Folded("product", f, S \ {x})
    BY <1>1
  <2> QED
    BY <1>1, <1>2, <2>2, <2>3
<1> QED
  BY <1>3, <1>4

-----------------------------------------------------------------------------
(* Ranks *)

LEMMA Topmost ==
    ASSUME NEW Q, IsFiniteSet(Q), Q # {}, NEW k, \A x \in Q : k[x] \in Nat
    PROVE  \E x \in Q : \A y \in Q : k[y] <= k[x]
<1> DEFINE A == {T \in SUBSET Q : T = {} \/ \E x \in T : \A y \in T : k[y] <= k[x]}
<1>1. {} \in A
  OBVIOUS
<1>2. ASSUME NEW T \in SUBSET Q, T \in A, NEW z \in Q \ T PROVE T \cup {z} \in A
  <2>1. CASE T = {}
    <3>1. \A y \in T \cup {z} : k[y] <= k[z]
      BY <2>1
    <3> QED
      BY <3>1
  <2>2. CASE T # {}
    <3>1. PICK x \in T : \A y \in T : k[y] <= k[x]
      BY <1>2, <2>2
    <3>2. CASE k[z] <= k[x]
      BY <3>1, <3>2
    <3>3. CASE ~ (k[z] <= k[x])
      <4>1. \A y \in T \cup {z} : k[y] <= k[z]
        BY <3>1, <3>3
      <4> QED
        BY <4>1
    <3> QED
      BY <3>2, <3>3
  <2> QED
    BY <2>1, <2>2
<1>3. Q \in A
  <2> HIDE DEF A
  <2> QED
    BY <1>1, <1>2, AddingUp
<1> QED
  BY <1>3

\* How many elements have a lower key, for each.
Ranks(Q, k) == {Cardinality({y \in Q : k[y] < k[x]}) : x \in Q}

\* Elements with different keys have all ranks from 0 to one less than their number.
LEMMA RanksTaken ==
    ASSUME NEW Q, IsFiniteSet(Q), NEW k, \A x \in Q : k[x] \in Nat,
           \A x, y \in Q : k[x] = k[y] => x = y, NEW s \in 1..Cardinality(Q)
    PROVE  s - 1 \in Ranks(Q, k)
<1> DEFINE Below(T, x) == {y \in T : k[y] < k[x]}
           Holds(T) == \A r \in 1..Cardinality(T) : \E x \in T : Cardinality(Below(T, x)) = r - 1
           N == {n \in Nat : \A T \in SUBSET Q : Cardinality(T) = n => Holds(T)}
<1>1. ASSUME NEW T \in SUBSET Q PROVE IsFiniteSet(T) /\ Cardinality(T) \in Nat
  BY FS_Subset, FS_CardinalityType
<1>2. 0 \in N
  OBVIOUS
<1>3. ASSUME NEW n \in N \cap Nat PROVE n + 1 \in N
  <2> SUFFICES ASSUME NEW T \in SUBSET Q, Cardinality(T) = n + 1 PROVE Holds(T)
    <3> HIDE DEF Holds
    <3> QED
      OBVIOUS
  <2> SUFFICES ASSUME NEW r \in 1..n + 1 PROVE \E x \in T : Cardinality(Below(T, x)) = r - 1
    OBVIOUS
  <2>1. T # {}
    BY <1>1, FS_EmptySet
  <2>2. PICK top \in T : \A y \in T : k[y] <= k[top]
    BY <1>1, <2>1, Topmost
  <2> DEFINE U == T \ {top}
  <2>3. U \in SUBSET Q /\ Cardinality(U) = n
    <3>1. Cardinality(U) = Cardinality(T) - 1
      BY <1>1, FS_RemoveElement
    <3> QED
      BY <3>1
  <2>4. CASE r = n + 1
    <3>1. Below(T, top) = U
      BY <2>2
    <3>2. Cardinality(Below(T, top)) = r - 1
      <4> HIDE DEF Below, U
      <4> QED
        BY <2>3, <2>4, <3>1
    <3> QED
      BY <3>2
  <2>5. CASE r # n + 1
    <3>1. r \in 1..n
      BY <2>5
    <3>2. Holds(U)
      <4> HIDE DEF Holds, U
      <4> QED
        BY <1>3, <2>3
    <3>3. PICK x \in U : Cardinality(Below(U, x)) = r - 1
      <4> HIDE DEF Below, U
      <4> QED
        BY <2>3, <3>1, <3>2
    <3>4. Below(T, x) = Below(U, x)
      BY <2>2, <3>3
    <3> QED
      BY <3>3, <3>4
  <2> QED
    BY <2>4, <2>5
<1>4. Cardinality(Q) \in N
  <2> HIDE DEF N
  <2> QED
    BY <1>1, <1>2, <1>3, CountingUp
<1>5. Holds(Q)
  <2> HIDE DEF Holds
  <2> QED
    BY <1>1, <1>4
<1> QED
  BY <1>5 DEF Ranks

-----------------------------------------------------------------------------
(* Falling products and subsets of k elements *)

\* The c factors below and at m make up what m! has more than (m - c)!.
LEMMA FallingProduct ==
    ASSUME NEW m \in Nat, NEW c \in 0..m
    PROVE  /\ ProductSet((m - c + 1)..m) \in Int
           /\ factorial[m] = factorial[m - c] * ProductSet((m - c + 1)..m)
<1> DEFINE P(e) == ProductSet((m - e + 1)..m)
           N == {e \in Nat : e <= m => factorial[m] = factorial[m - e] * P(e)}
<1>1. ASSUME NEW e \in Nat
      PROVE  /\ IsFiniteSet((m - e + 1)..m) /\ (m - e + 1)..m \in SUBSET Int
             /\ P(e) \in Int
  <2> DEFINE I == (m - e + 1)..m
  <2>1. IsFiniteSet(I) /\ I \in SUBSET Int
    BY FS_Interval
  <2> HIDE DEF I
  <2>2. ProductSet(I) \in Int
    BY <2>1, ProductTyped
  <2> QED
    BY <2>1, <2>2 DEF I
<1>2. 0 \in N
  <2>1. (m - 0 + 1)..m = {} /\ factorial[m] \in Int
    BY FactorialStep
  <2>2. P(0) = 1
    BY <2>1, ProductTyped
  <2> HIDE DEF P
  <2> QED
    BY <2>1, <2>2
<1>3. ASSUME NEW e \in N \cap Nat PROVE e + 1 \in N
  <2> SUFFICES ASSUME e + 1 <= m PROVE factorial[m] = factorial[m - (e + 1)] * P(e + 1)
    OBVIOUS
  <2>1. m - e \in (m - (e + 1) + 1)..m /\ ((m - (e + 1) + 1)..m) \ {m - e} = (m - e + 1)..m
    OBVIOUS
  <2>2. P(e + 1) = (m - e) * P(e)
    <3> DEFINE I == (m - (e + 1) + 1)..m
               y == m - e
    <3>1. y \in I /\ I \ {y} = (m - e + 1)..m /\ I \in SUBSET Int
      BY <2>1
    <3>2. P(e + 1) = ProductSet(I)
      OBVIOUS
    <3>3. IsFiniteSet(I)
      BY FS_Interval
    <3> HIDE DEF I, y
    <3>4. ProductSet(I) = y * ProductSet(I \ {y})
      BY <3>1, <3>3, ProductTyped
    <3> QED
      BY <3>1, <3>2, <3>4 DEF y
  <2>3. m - (e + 1) \in Nat /\ m - (e + 1) + 1 = m - e
    OBVIOUS
  <2>4. factorial[m - e] = (m - e) * factorial[m - (e + 1)] /\ factorial[m - (e + 1)] \in Int
    <3> DEFINE q == m - (e + 1)
    <3> HIDE DEF q
    <3>1. q \in Nat => factorial[q] \in Nat /\ factorial[q + 1] = (q + 1) * factorial[q]
      BY FactorialStep
    <3> QED
      BY <2>3, <3>1 DEF q
  <2>5. factorial[m] = factorial[m - e] * P(e) /\ P(e) \in Int
    BY <1>1, <1>3
  <2> DEFINE x == m - e
             y == factorial[m - (e + 1)]
             z == P(e)
  <2>6. x \in Int /\ y \in Int /\ z \in Int
    BY <2>4, <2>5
  <2>7. factorial[m] = (x * y) * z /\ P(e + 1) = x * z
    BY <2>2, <2>4, <2>5
  <2> HIDE DEF x, y, z, P
  <2>8. (x * y) * z = y * (x * z)
    BY <2>6
  <2> QED
    BY <2>7, <2>8 DEF y
<1>4. c \in N
  <2> HIDE DEF N
  <2> QED
    BY <1>2, <1>3, CountingUp
<1>5. factorial[m] = factorial[m - c] * P(c)
  <2> HIDE DEF P
  <2> QED
    BY <1>4
<1> QED
  BY <1>1, <1>5

LEMMA SubsetsFinite ==
    ASSUME NEW S, IsFiniteSet(S), NEW k
    PROVE  IsFiniteSet(kSubset(k, S)) /\ Cardinality(kSubset(k, S)) \in Nat
BY FS_SUBSET, FS_Subset, FS_CardinalityType DEF kSubset

\* A subset of one element more has the new element or it has not.
LEMMA PascalsRule ==
    ASSUME NEW S, IsFiniteSet(S), NEW x, x \notin S, NEW k \in Nat
    PROVE  Cardinality(kSubset(k + 1, S \cup {x}))
             = Cardinality(kSubset(k + 1, S)) + Cardinality(kSubset(k, S))
<1> DEFINE U == S \cup {x}
           A == kSubset(k + 1, S)
           K == kSubset(k, S)
           B == {s \cup {x} : s \in K}
           f == [s \in K |-> s \cup {x}]
<1>1. ASSUME NEW s \in SUBSET S
      PROVE  IsFiniteSet(s) /\ Cardinality(s) \in Nat /\ Cardinality(s \cup {x}) = Cardinality(s) + 1
  BY FS_Subset, FS_CardinalityType, FS_AddElement
<1>2. kSubset(k + 1, U) = A \cup B
  <2>1. ASSUME NEW s \in kSubset(k + 1, U) PROVE s \in A \cup B
    <3>1. s \in SUBSET U /\ Cardinality(s) = k + 1
      BY DEF kSubset
    <3>2. CASE x \notin s
      BY <3>1, <3>2 DEF kSubset
    <3>3. CASE x \in s
      <4>1. s \ {x} \in SUBSET S /\ (s \ {x}) \cup {x} = s
        BY <3>1, <3>3
      <4>2. Cardinality(s \ {x}) = k
        BY <1>1, <3>1, <4>1
      <4>3. s \ {x} \in K
        BY <4>1, <4>2 DEF kSubset
      <4> QED
        BY <4>1, <4>3
    <3> QED
      BY <3>2, <3>3
  <2>2. A \subseteq kSubset(k + 1, U)
    BY DEF kSubset
  <2>3. ASSUME NEW s \in K PROVE s \cup {x} \in kSubset(k + 1, U)
    <3>1. s \in SUBSET S /\ Cardinality(s) = k
      BY DEF kSubset
    <3>2. Cardinality(s \cup {x}) = k + 1 /\ s \cup {x} \in SUBSET U
      BY <1>1, <3>1
    <3> QED
      BY <3>2 DEF kSubset
  <2> QED
    BY <2>1, <2>2, <2>3
<1>3. A \cap B = {}
  BY DEF kSubset
<1>4. IsFiniteSet(A) /\ IsFiniteSet(K) /\ Cardinality(A) \in Nat /\ Cardinality(K) \in Nat
  BY SubsetsFinite
<1>5. f \in Bijection(K, B)
  <2>1. f \in [K -> B] /\ \A s \in B : \E t \in K : f[t] = s
    OBVIOUS
  <2>2. ASSUME NEW s \in K, NEW t \in K, f[s] = f[t] PROVE s = t
    BY <2>2 DEF kSubset
  <2> HIDE DEF f, K, B
  <2> QED
    BY <2>1, <2>2 DEF Bijection, Injection, Surjection, IsInjective
<1>6. IsFiniteSet(B) /\ Cardinality(B) = Cardinality(K)
  <2> HIDE DEF f, K, B
  <2> QED
    BY <1>4, <1>5, FS_Bijection DEF ExistsBijection
<1>7. Cardinality(A \cup B) = Cardinality(A) + Cardinality(B) - Cardinality(A \cap B)
  <2> HIDE DEF A, B
  <2> QED
    BY <1>4, <1>6, FS_Union
<1>8. Cardinality(A \cap B) = 0
  BY <1>3, FS_EmptySet
<1>9. Cardinality(A \cup B) = Cardinality(A) + Cardinality(K)
  <2> HIDE DEF A, B, K
  <2> QED
    BY <1>4, <1>6, <1>7, <1>8
<1> HIDE DEF B
<1> QED
  BY <1>2, <1>9

\* How often k! (n - k)! goes into n!, for n elements.
LEMMA SubsetsCounted ==
    ASSUME NEW S, IsFiniteSet(S), NEW k \in 0..Cardinality(S)
    PROVE  Cardinality(kSubset(k, S)) * (factorial[k] * factorial[Cardinality(S) - k])
             = factorial[Cardinality(S)]
<1> DEFINE Held(T) == \A j \in 0..Cardinality(T) :
                         Cardinality(kSubset(j, T)) * (factorial[j] * factorial[Cardinality(T) - j])
                           = factorial[Cardinality(T)]
           F == {T \in SUBSET S : Held(T)}
<1>1. ASSUME NEW T, IsFiniteSet(T)
      PROVE  /\ Cardinality(kSubset(0, T)) = 1
             /\ \A j \in Nat : j > Cardinality(T) => Cardinality(kSubset(j, T)) = 0
  <2>1. ASSUME NEW s \in SUBSET T
        PROVE  Cardinality(s) \in Nat /\ Cardinality(s) <= Cardinality(T) /\ (Cardinality(s) = 0 => s = {})
    BY <1>1, FS_Subset, FS_CardinalityType, FS_EmptySet
  <2>2. Cardinality(T) \in Nat /\ Cardinality({}) = 0
    BY <1>1, FS_CardinalityType, FS_EmptySet
  <2>3. kSubset(0, T) = {{}}
    BY <2>1, <2>2 DEF kSubset
  <2>4. ASSUME NEW j \in Nat, j > Cardinality(T) PROVE kSubset(j, T) = {}
    BY <2>1, <2>2, <2>4 DEF kSubset
  <2> QED
    BY <2>2, <2>3, <2>4, FS_Singleton
<1>2. {} \in F
  <2>1. Cardinality({}) = 0 /\ IsFiniteSet({}) /\ factorial[0] = 1
    BY FS_EmptySet, FactorialStep
  <2>2. Cardinality(kSubset(0, {})) = 1
    BY <1>1, <2>1
  <2> QED
    BY <2>1, <2>2
<1>3. ASSUME NEW T \in SUBSET S, T \in F, NEW x \in S \ T PROVE T \cup {x} \in F
  <2> DEFINE n == Cardinality(T)
  <2>1. IsFiniteSet(T) /\ n \in Nat /\ Cardinality(T \cup {x}) = n + 1
    BY FS_Subset, FS_CardinalityType, FS_AddElement
  <2>2. factorial[n] \in Int /\ factorial[n + 1] = (n + 1) * factorial[n] /\ factorial[0] = 1
    BY <2>1, FactorialStep
  <2>3. ASSUME NEW j \in 0..n + 1
        PROVE  Cardinality(kSubset(j, T \cup {x})) * (factorial[j] * factorial[n + 1 - j])
                 = factorial[n + 1]
    <3>1. CASE j = 0
      <4>1. Cardinality(kSubset(0, T \cup {x})) = 1 /\ n + 1 - 0 = n + 1 /\ factorial[n + 1] \in Int
        BY <1>1, <2>1, FactorialStep, FS_AddElement
      <4> QED
        BY <2>2, <3>1, <4>1
    <3>2. CASE j # 0
      <4> DEFINE i == j - 1
                 a == Cardinality(kSubset(j, T))
                 b == Cardinality(kSubset(i, T))
                 p == factorial[i]
                 q == factorial[n - i]
                 r == factorial[n - j]
      <4>1. i \in 0..n /\ j = i + 1 /\ n + 1 - j = n - i
        BY <2>1, <3>2
      <4>2. Cardinality(kSubset(j, T \cup {x})) = a + b
        <5>1. Cardinality(kSubset(i + 1, T \cup {x}))
                = Cardinality(kSubset(i + 1, T)) + Cardinality(kSubset(i, T))
          <6> HIDE DEF i
          <6> QED
            BY <2>1, <4>1, PascalsRule
        <5> QED
          BY <4>1, <5>1
      <4>3. a \in Nat /\ b \in Nat /\ p \in Int /\ q \in Int
        BY <2>1, <4>1, SubsetsFinite, FactorialStep
      <4>4. factorial[j] = j * p
        BY <4>1, FactorialStep
      <4>5. b * (p * q) = factorial[n]
        BY <1>3, <4>1
      <4>6. a * ((j * p) * q) = (n + 1 - j) * factorial[n]
        <5>1. CASE j <= n
          <6>1. a * ((j * p) * r) = factorial[n]
            BY <1>3, <4>4, <5>1
          <6>2. r \in Int /\ q = (n + 1 - j) * r
            <7>1. n - j \in Nat /\ (n - j) + 1 = n - i
              BY <2>1, <4>1, <5>1
            <7>2. factorial[n - j] \in Nat \ {0} /\ factorial[(n - j) + 1] = ((n - j) + 1) * factorial[n - j]
              BY <7>1, FactorialStep
            <7>3. (n - j) + 1 = n + 1 - j
              BY <2>1
            <7> QED
              BY <7>1, <7>2, <7>3
          <6> DEFINE d == n + 1 - j
          <6>3. d \in Int /\ q = d * r /\ j \in Int
            BY <2>1, <6>2
          <6> HIDE DEF a, p, q, r, d, i, n
          <6>4. a * ((j * p) * (d * r)) = d * (a * ((j * p) * r))
            BY <4>3, <6>2, <6>3
          <6> QED
            BY <6>1, <6>3, <6>4 DEF d
        <5>2. CASE j = n + 1
          <6>1. a = 0 /\ n + 1 - j = 0
            BY <1>1, <2>1, <5>2
          <6>2. (j * p) * q \in Int
            BY <4>3
          <6> HIDE DEF a, p, q
          <6> QED
            BY <2>2, <6>1, <6>2
        <5> QED
          BY <2>1, <5>1, <5>2
      <4>7. b * ((j * p) * q) = j * factorial[n]
        <5> HIDE DEF b, p, q
        <5>1. b * ((j * p) * q) = j * (b * (p * q))
          BY <4>3
        <5> QED
          BY <4>5, <5>1
      <4> DEFINE X == (j * p) * q
      <4>8. X \in Int /\ j \in Int
        BY <4>3
      <4>9. a * X = (n + 1 - j) * factorial[n] /\ b * X = j * factorial[n]
        BY <4>6, <4>7
      <4>10. factorial[j] * factorial[n + 1 - j] = X
        BY <4>1, <4>4
      <4> HIDE DEF a, b, X, n
      <4>11. (a + b) * X = a * X + b * X
        BY <4>3, <4>8
      <4>12. (n + 1 - j) * factorial[n] + j * factorial[n] = (n + 1) * factorial[n]
        <5> DEFINE g == factorial[n]
        <5>1. g \in Int /\ n \in Int
          BY <2>1, <2>2
        <5> HIDE DEF g
        <5>2. (n + 1 - j) * g + j * g = (n + 1) * g
          BY <4>8, <5>1
        <5> QED
          BY <5>2 DEF g
      <4> QED
        BY <2>2, <4>2, <4>9, <4>10, <4>11, <4>12
    <3> QED
      BY <3>1, <3>2
  <2>4. T \cup {x} \in SUBSET S
    OBVIOUS
  <2> HIDE DEF n
  <2> QED
    BY <2>1, <2>3, <2>4
<1>4. S \in F
  <2> HIDE DEF F
  <2> QED
    BY <1>2, <1>3, AddingUp
<1>5. Held(S)
  <2> HIDE DEF Held
  <2> QED
    BY <1>4
<1> QED
  BY <1>5

-----------------------------------------------------------------------------
(* Analysis states *)

CellType == [correct : BOOLEAN, shared : BOOLEAN, null : BOOLEAN, tokens : Nat, pos : Int]

\* An arm of some problems whose alternates are the observed outcomes.
Observed(arm) ==
    /\ arm = [p \in DOMAIN arm |-> arm[p]]
    /\ \A p \in DOMAIN arm :
         /\ arm[p] = [s \in DOMAIN arm[p] |-> arm[p][s]]
         /\ \A s \in DOMAIN arm[p] :
              arm[p][s] \in CellType /\ arm[p][s].shared = arm[p][s].correct

Fields == {"base", "rl", "n", "weight", "recent", "k_base", "k_rl"}

\* An analysis state with observed arms.
StateOK(a) ==
    /\ a = [f \in Fields |-> a[f]]
    /\ Observed(a.base) /\ Observed(a.rl)
    /\ DOMAIN a.base = Axis(a) /\ DOMAIN a.rl = Axis(a)

\* Weights are natural numbers.
WeightsOK(a) == a.weight \in [Axis(a) -> Nat]

\* What both golds match is at a problem whose golds are the same.
Twinned(a) ==
    \A arm \in {a.base, a.rl} : \A p \in DOMAIN arm : \A s \in DOMAIN arm[p] :
        arm[p][s].correct /\ arm[p][s].null => Twin(p)

\* load_graded refuses a repeated sample.
Distinct(rows) ==
    \A q, r \in rows : <<q.model, q.problem, q.variant, q.sample>>
                           = <<r.model, r.problem, r.variant, r.sample>> => q = r

\* What every later variable is computed from.
IInv ==
    /\ stage \in {"load", "tensor", "point", "replicate", "raised"}
    /\ df \subseteq Row /\ IsFiniteSet(df) /\ Distinct(df)
    /\ Built => Buildable(df) /\ st = AnalysisState(df)
    /\ Decomposed => Estimable(st) /\ lattice = G(st)
    /\ stage = "replicate" => /\ draw \in [Axis(st) -> Axis(st)] /\ Estimable(Resample(st, draw))
                              /\ again = G(Resample(st, draw))

-----------------------------------------------------------------------------
RowType == [model : STRING, problem : Problem, sample : Nat, variant : STRING,
            usable : BOOLEAN, correct : BOOLEAN, null : BOOLEAN, tokens : Nat, pos : Int]

\* grade_rows: a typed row, and no answer matches two different golds.
LEMMA RowGraded ==
    ASSUME NEW r \in Row
    PROVE  r \in RowType /\ (r.correct /\ r.null => Twin(r.problem))
<1>1. PICK s \in Sample : r = grade_rows(s)
  BY DEF Row
<1>2. s \in SampleType
  BY AnalysisAssumption
<1>3. r \in RowType
  BY <1>1, <1>2 DEF grade_rows, Grade, SampleType, RowType
<1>4. r.correct /\ r.null => Twin(r.problem)
  BY <1>1 DEF grade_rows, Grade, Twin
<1> QED
  BY <1>3, <1>4

\* The cells of a loaded frame are typed and carry the observed outcome as alternate.
LEMMA CellObserved ==
    ASSUME NEW rows, rows \subseteq Row, NEW m, NEW p, NEW s
    PROVE  /\ Cell(rows, m, p, s) \in CellType
           /\ Cell(rows, m, p, s).shared = Cell(rows, m, p, s).correct
<1>1. Pad \in CellType /\ Pad.shared = Pad.correct
  BY DEF Pad, CellType
<1>2. ASSUME NEW r \in Row PROVE AsCell(r) \in CellType /\ AsCell(r).shared = AsCell(r).correct
  BY RowGraded DEF AsCell, CellType, RowType
<1>3. CASE Ranked(rows, m, p, s) = {}
  BY <1>1, <1>3 DEF Cell
<1>4. CASE Ranked(rows, m, p, s) # {}
  <2> DEFINE r == CHOOSE r \in Ranked(rows, m, p, s) : TRUE
  <2>1. r \in Ranked(rows, m, p, s)
    BY <1>4
  <2>2. r \in Row
    BY <2>1 DEF Ranked, Group
  <2>3. Cell(rows, m, p, s) = AsCell(r)
    BY <1>4 DEF Cell
  <2> QED
    BY <1>2, <2>2, <2>3
<1> QED
  BY <1>3, <1>4

LEMMA ArmObserved ==
    ASSUME NEW rows, rows \subseteq Row, NEW m
    PROVE  Observed(Arm(rows, m))
BY CellObserved DEF Arm, Observed

LEMMA CellTwinned ==
    ASSUME NEW rows, rows \subseteq Row, NEW m, NEW p, NEW s,
           Cell(rows, m, p, s).correct, Cell(rows, m, p, s).null
    PROVE  Twin(p)
<1> DEFINE r == CHOOSE r \in Ranked(rows, m, p, s) : TRUE
<1>1. Ranked(rows, m, p, s) # {}
  BY DEF Cell, Pad
<1>2. r \in Ranked(rows, m, p, s)
  BY <1>1
<1>3. r \in Row /\ r.problem = p
  BY <1>2 DEF Ranked, Group
<1>4. Cell(rows, m, p, s) = AsCell(r)
  BY <1>1 DEF Cell
<1>5. r.correct /\ r.null
  BY <1>4 DEF AsCell
<1> QED
  BY <1>3, <1>5, RowGraded

\* What build_tensor and run_analysis hand to the decomposition.
LEMMA InitialState ==
    ASSUME NEW rows, rows \subseteq Row
    PROVE  /\ StateOK(AnalysisState(rows)) /\ WeightsOK(AnalysisState(rows))
           /\ Twinned(AnalysisState(rows))
<1> DEFINE a == AnalysisState(rows)
<1>1. a = [f \in Fields |-> a[f]]
  BY DEF AnalysisState, Fields
<1>2. a.base = Arm(rows, Base) /\ a.rl = Arm(rows, Rl)
  BY DEF AnalysisState
<1>3. a.weight = [p \in Problems(rows) |-> 1]
  BY DEF AnalysisState
<1>4. WeightsOK(a)
  BY <1>3 DEF WeightsOK, Axis
<1>5. DOMAIN a.base = Axis(a) /\ DOMAIN a.rl = Axis(a)
  BY <1>2, <1>3 DEF Axis, Arm
<1>6. ASSUME NEW m, NEW p \in DOMAIN Arm(rows, m), NEW s \in DOMAIN Arm(rows, m)[p],
             Arm(rows, m)[p][s].correct, Arm(rows, m)[p][s].null
      PROVE  Twin(p)
  <2>1. Arm(rows, m)[p][s] = Cell(rows, m, p, s)
    BY <1>6 DEF Arm
  <2> QED
    BY <1>6, <2>1, CellTwinned
<1>7. Twinned(a)
  BY <1>2, <1>6 DEF Twinned
<1> QED
  BY <1>1, <1>2, <1>4, <1>5, <1>7, ArmObserved DEF StateOK

-----------------------------------------------------------------------------
(* Minima and maxima *)

LEMMA MinIsLeast ==
    ASSUME NEW T, T \subseteq Nat, T # {}
    PROVE  Min(T) \in T /\ \A x \in T : Min(T) <= x
BY Least DEF Min

LEMMA MinOfTwo ==
    ASSUME NEW x \in Int, NEW y \in Int
    PROVE  Min({x, y}) = IF x <= y THEN x ELSE y
<1>1. \E z \in {x, y} : \A w \in {x, y} : z <= w
  OBVIOUS
<1>2. Min({x, y}) \in {x, y} /\ \A w \in {x, y} : Min({x, y}) <= w
  BY <1>1 DEF Min
<1> QED
  BY <1>2

LEMMA MaxOfTwo ==
    ASSUME NEW x \in Int, NEW y \in Int
    PROVE  Max({x, y}) = IF x >= y THEN x ELSE y
<1>1. \E z \in {x, y} : \A w \in {x, y} : z >= w
  OBVIOUS
<1>2. Max({x, y}) \in {x, y} /\ \A w \in {x, y} : Max({x, y}) >= w
  BY <1>1 DEF Max
<1> QED
  BY <1>2

-----------------------------------------------------------------------------
(* What build_tensor makes of a frame *)

LEMMA CountOfGroup ==
    ASSUME NEW rows, rows \subseteq Row, IsFiniteSet(rows), NEW m, NEW p
    PROVE  /\ IsFiniteSet(Group(rows, m, p))
           /\ Count(rows, m, p) \in Nat /\ Count(rows, m, p) <= Cardinality(Group(rows, m, p))
           /\ Group(rows, m, p) # {} => Count(rows, m, p) # 0
<1> DEFINE D == Group(rows, m, p)
           k == [r \in D |-> r.sample]
           I == {r.sample : r \in D}
<1>1. IsFiniteSet(D)
  BY FS_Subset DEF Group
<1>2. k \in [D -> I] /\ I = {k[r] : r \in D}
  OBVIOUS
<1>3. IsFiniteSet(I) /\ Cardinality(I) <= Cardinality(D)
  <2> HIDE DEF D, k, I
  <2>1. k \in Surjection(D, I)
    BY <1>2 DEF Surjection
  <2> QED
    BY <1>1, <2>1, FS_Surjection
<1>4. Cardinality(I) \in Nat /\ (I # {} => Cardinality(I) # 0)
  BY <1>3, FS_CardinalityType, FS_EmptySet
<1>5. Count(rows, m, p) = Cardinality(I)
  BY DEF Count
<1>6. D # {} => I # {}
  OBVIOUS
<1> QED
  BY <1>1, <1>3, <1>4, <1>5, <1>6

\* n is positive, and no larger than the number of rows of any model and problem that has any.
LEMMA SamplesCounted ==
    ASSUME NEW rows, rows \subseteq Row, IsFiniteSet(rows), Buildable(rows)
    PROVE  /\ n_samples(rows) \in Nat \ {0}
           /\ \A m \in Asked, p \in Problems(rows) :
                Group(rows, m, p) # {} => n_samples(rows) <= Cardinality(Group(rows, m, p))
           /\ IsFiniteSet(Problems(rows)) /\ Problems(rows) # {}
<1>1. ASSUME NEW m \in Asked, NEW p \in Problems(rows), Group(rows, m, p) # {}
      PROVE  Count(rows, m, p) \in Counts(rows)
  BY <1>1, CountOfGroup DEF Counts
<1>2. Counts(rows) \subseteq Nat
  BY CountOfGroup DEF Counts
<1>3. PICK r \in rows : r.model = Base
  BY DEF Buildable, Asked
<1>4. r.problem \in Problems(rows) /\ r \in Group(rows, Base, r.problem) /\ Base \in Asked
  BY <1>3 DEF Problems, Scoped, Asked, Group
<1>5. Counts(rows) # {}
  BY <1>1, <1>4
<1>6. n_samples(rows) \in Counts(rows) /\ \A c \in Counts(rows) : n_samples(rows) <= c
  BY <1>2, <1>5, MinIsLeast DEF n_samples
<1>7. 0 \notin Counts(rows)
  BY DEF Counts
<1>8. ASSUME NEW m \in Asked, NEW p \in Problems(rows), Group(rows, m, p) # {}
      PROVE  n_samples(rows) <= Cardinality(Group(rows, m, p))
  <2>1. /\ n_samples(rows) <= Count(rows, m, p) /\ n_samples(rows) \in Nat
        /\ Count(rows, m, p) \in Nat /\ Count(rows, m, p) <= Cardinality(Group(rows, m, p))
    BY <1>1, <1>2, <1>6, <1>8, CountOfGroup
  <2>2. Cardinality(Group(rows, m, p)) \in Nat
    BY CountOfGroup, FS_CardinalityType
  <2> QED
    BY <2>1, <2>2
<1>9. IsFiniteSet(Problems(rows))
  <2> DEFINE D == Scoped(rows)
             k == [q \in D |-> q.problem]
             I == {q.problem : q \in D}
  <2>1. IsFiniteSet(D)
    BY FS_Subset DEF Scoped
  <2>2. k \in [D -> I] /\ I = {k[q] : q \in D}
    OBVIOUS
  <2>3. IsFiniteSet(I)
    <3> HIDE DEF D, k, I
    <3>1. k \in Surjection(D, I)
      BY <2>2 DEF Surjection
    <3> QED
      BY <2>1, <3>1, FS_Surjection
  <2> QED
    BY <2>3 DEF Problems
<1> QED
  BY <1>2, <1>4, <1>6, <1>7, <1>8, <1>9

\* Samples of a model and problem that can be built from have different numbers.
LEMMA RankedRow ==
    ASSUME NEW rows, rows \subseteq Row, IsFiniteSet(rows), Distinct(rows), Buildable(rows),
           NEW m \in Asked, NEW p \in Problems(rows), Group(rows, m, p) # {},
           NEW s \in 1..n_samples(rows)
    PROVE  Ranked(rows, m, p, s) # {}
<1> DEFINE D == Group(rows, m, p)
           k == [r \in D |-> r.sample]
<1>1. ASSUME NEW q \in D, NEW r \in D, k[q] = k[r] PROVE q = r
  <2>1. q \in Scoped(rows) /\ r \in Scoped(rows) /\ q.model = r.model /\ q.problem = r.problem
    BY DEF Group, Scoped
  <2>2. q.variant = r.variant
    BY <2>1 DEF Buildable
  <2>3. q.sample = r.sample /\ q \in rows /\ r \in rows
    BY <1>1 DEF Group
  <2> QED
    BY <2>1, <2>2, <2>3 DEF Distinct
<1>2. ASSUME NEW r \in D PROVE k[r] \in Nat
  BY RowGraded DEF Group, RowType
<1>3. IsFiniteSet(D) /\ Cardinality(D) \in Nat
  BY CountOfGroup, FS_CardinalityType
<1>4. s \in 1..Cardinality(D)
  <2>1. n_samples(rows) \in Nat /\ n_samples(rows) <= Cardinality(D)
    BY SamplesCounted
  <2> QED
    BY <1>3, <2>1
<1>5. PICK r \in D : Cardinality({q \in D : k[q] < k[r]}) = s - 1
  <2>1. s - 1 \in Ranks(D, k)
    <3> HIDE DEF D, k
    <3> QED
      BY <1>1, <1>2, <1>3, <1>4, RanksTaken
  <2> HIDE DEF D, k
  <2> QED
    BY <2>1 DEF Ranks
<1>6. {q \in D : k[q] < k[r]} = {q \in D : q.sample < r.sample}
  OBVIOUS
<1>7. r \in Ranked(rows, m, p, s)
  BY <1>5, <1>6 DEF Ranked
<1> QED
  BY <1>7

-----------------------------------------------------------------------------
(* The Shapley value of any lattice *)

\* The weight of a coalition of m players out of n, before one more joins.
Orders(n, m) == factorial[m] * factorial[n - m - 1]

\* A coalition of m < n players is left by n - m players, one of m > 0 is joined by m.
LEMMA OrdersMeet ==
    ASSUME NEW n \in Nat, NEW m \in 0..n
    PROVE  /\ factorial[m] * factorial[n - m] \in Int
           /\ m < n => /\ Orders(n, m) \in Int
                       /\ (n - m) * Orders(n, m) = factorial[m] * factorial[n - m]
           /\ 0 < m => /\ Orders(n, m - 1) \in Int
                       /\ m * Orders(n, m - 1) = factorial[m] * factorial[n - m]
<1>1. factorial[m] \in Int /\ factorial[n - m] \in Int
  BY FactorialStep
<1>2. ASSUME m < n
      PROVE  /\ Orders(n, m) \in Int
             /\ (n - m) * Orders(n, m) = factorial[m] * factorial[n - m]
  <2>1. n - m - 1 \in Nat /\ n - m - 1 + 1 = n - m
    BY <1>2
  <2>2. factorial[n - m - 1] \in Int /\ factorial[n - m] = (n - m) * factorial[n - m - 1]
    BY <2>1, FactorialStep
  <2> QED
    BY <1>1, <2>2 DEF Orders
<1>3. ASSUME 0 < m
      PROVE  /\ Orders(n, m - 1) \in Int
             /\ m * Orders(n, m - 1) = factorial[m] * factorial[n - m]
  <2>1. m - 1 \in Nat /\ m - 1 + 1 = m /\ n - (m - 1) - 1 = n - m
    BY <1>3
  <2>2. factorial[m - 1] \in Int /\ factorial[m] = m * factorial[m - 1]
    BY <2>1, FactorialStep
  <2>3. Orders(n, m - 1) = factorial[m - 1] * factorial[n - m]
    BY <2>1 DEF Orders
  <2> QED
    BY <1>1, <2>2, <2>3
<1>4. factorial[m] * factorial[n - m] \in Int
  BY <1>1
<1> QED
  BY <1>2, <1>3, <1>4

\* What the coalitions without each player are worth, and what that comes to: each coalition
\* once for every player outside it.
Without(C, W, g) ==
    [c \in C |-> Total([S \in SUBSET (C \ {c}) |-> W[S] * g[S]], SUBSET (C \ {c}))]
Outsiders(C, W, g) ==
    [S \in SUBSET C |-> IF S = C THEN 0 ELSE (W[S] * g[S]) * Cardinality(C \ S)]

LEMMA SumOfWithout ==
    ASSUME NEW C, IsFiniteSet(C), NEW W, NEW g,
           \A S \in SUBSET C : g[S] \in Int,
           \A S \in SUBSET C : S # C => W[S] \in Int
    PROVE  Total(Without(C, W, g), C) = Total(Outsiders(C, W, g), SUBSET C)
<1> DEFINE F == [c \in C |-> [S \in SUBSET C |-> IF c \in S THEN 0 ELSE W[S] * g[S]]]
           K == [S \in SUBSET C |-> [c \in C |-> IF c \in S THEN 0 ELSE W[S] * g[S]]]
<1>1. ASSUME NEW c \in C, NEW S \in SUBSET C
      PROVE  /\ F[c][S] = IF c \in S THEN 0 ELSE W[S] * g[S]
             /\ F[c][S] \in Int /\ K[S][c] = F[c][S]
  <2>1. c \notin S => W[S] * g[S] \in Int
    <3>1. c \notin S => W[S] \in Int
      OBVIOUS
    <3> QED
      BY <3>1
  <2> QED
    BY <2>1
<1>2. IsFiniteSet(SUBSET C)
  BY FS_SUBSET
<1> HIDE DEF F, K
<1>3. ASSUME NEW c \in C PROVE Without(C, W, g)[c] = Total(F[c], SUBSET C)
  <2> DEFINE row == F[c]
             own == [S \in SUBSET (C \ {c}) |-> W[S] * g[S]]
             R == SUBSET (C \ {c})
  <2>1. \A S \in SUBSET C : row[S] \in Int
    BY <1>1
  <2>2. \A S \in (SUBSET C) \ R : row[S] = 0
    BY <1>1
  <2>3. \A S \in R : row[S] = own[S]
    BY <1>1
  <2>4. Without(C, W, g)[c] = Total(own, R) /\ R \in SUBSET (SUBSET C)
    BY DEF Without
  <2> HIDE DEF row, own, R
  <2>5. Total(row, SUBSET C) = Total(row, R)
    BY <1>2, <2>1, <2>2, <2>4, TotalRestrict
  <2>6. Total(row, R) = Total(own, R)
    BY <2>3, TotalCongruent
  <2> QED
    BY <2>4, <2>5, <2>6 DEF row
<1>4. ASSUME NEW S \in SUBSET C PROVE Outsiders(C, W, g)[S] = Total(K[S], C)
  <2> DEFINE column == K[S]
             k == W[S] * g[S]
             R == C \ S
  <2>1. \A c \in C : column[c] \in Int
    BY <1>1
  <2>2. \A c \in C \ R : column[c] = 0
    BY <1>1
  <2>3. \A c \in R : column[c] = k
    BY <1>1
  <2>4. IsFiniteSet(R) /\ R \in SUBSET C
    BY FS_Subset
  <2> HIDE DEF column
  <2>5. Total(column, C) = Total(column, R)
    BY <2>1, <2>2, <2>4, TotalRestrict
  <2>6. CASE S = C
    <3>1. R = {}
      BY <2>6
    <3>2. Total(column, R) = 0
      BY <2>4, <3>1, TotalRemove
    <3> QED
      BY <2>5, <2>6, <3>2 DEF column, Outsiders
  <2>7. CASE S # C
    <3>1. k \in Int
      BY <2>7
    <3>2. Outsiders(C, W, g)[S] = k * Cardinality(R)
      BY <2>7 DEF Outsiders
    <3> HIDE DEF k, R
    <3>3. Total(column, R) = k * Cardinality(R)
      BY <2>3, <2>4, <3>1, TotalConstant
    <3> QED
      BY <2>5, <3>2, <3>3 DEF column
  <2> QED
    BY <2>6, <2>7
<1>5. \A c \in C, S \in SUBSET C : F[c][S] \in Int /\ K[S][c] = F[c][S]
  BY <1>1
<1>6. \A c \in C : Without(C, W, g)[c] = Total(F[c], SUBSET C)
  BY <1>3
<1>7. \A S \in SUBSET C : Outsiders(C, W, g)[S] = Total(K[S], C)
  BY <1>4
<1>8. Total(RowTotals(F, C, SUBSET C), C) = Total(RowTotals(K, SUBSET C, C), SUBSET C)
  BY <1>2, <1>5, TotalSwap
<1>9. /\ \A c \in C : Without(C, W, g)[c] = RowTotals(F, C, SUBSET C)[c]
      /\ \A S \in SUBSET C : Outsiders(C, W, g)[S] = RowTotals(K, SUBSET C, C)[S]
  BY <1>6, <1>7 DEF RowTotals
<1>10. Total(Without(C, W, g), C) = Total(RowTotals(F, C, SUBSET C), C)
  BY <1>9, TotalCongruent
<1>11. Total(Outsiders(C, W, g), SUBSET C) = Total(RowTotals(K, SUBSET C, C), SUBSET C)
  BY <1>9, TotalCongruent
<1> QED
  BY <1>8, <1>10, <1>11

\* The same of the coalitions a player has joined: each once for every player inside it.
Joined(C, W, g) ==
    [c \in C |-> Total([S \in SUBSET (C \ {c}) |-> W[S] * g[S \cup {c}]], SUBSET (C \ {c}))]

\* Where W depends on the size of the coalition only, w[m].
Insiders(C, w, g) ==
    [T \in SUBSET C |-> IF T = {} THEN 0
                        ELSE (w[Cardinality(T) - 1] * g[T]) * Cardinality(T)]

LEMMA SumOfJoined ==
    ASSUME NEW C, IsFiniteSet(C), NEW W, NEW w, NEW g,
           \A S \in SUBSET C : g[S] \in Int,
           \A S \in SUBSET C : S # C => W[S] = w[Cardinality(S)] /\ W[S] \in Int
    PROVE  Total(Joined(C, W, g), C) = Total(Insiders(C, w, g), SUBSET C)
<1> DEFINE F == [c \in C |-> [T \in SUBSET C |-> IF c \in T THEN W[T \ {c}] * g[T] ELSE 0]]
           K == [T \in SUBSET C |-> [c \in C |-> IF c \in T THEN W[T \ {c}] * g[T] ELSE 0]]
<1>1. ASSUME NEW c \in C, NEW T \in SUBSET C
      PROVE  /\ F[c][T] = IF c \in T THEN W[T \ {c}] * g[T] ELSE 0
             /\ F[c][T] \in Int /\ K[T][c] = F[c][T]
  <2>1. c \in T => W[T \ {c}] * g[T] \in Int
    <3>1. c \in T => W[T \ {c}] \in Int
      OBVIOUS
    <3> QED
      BY <3>1
  <2> QED
    BY <2>1
<1>2. IsFiniteSet(SUBSET C)
  BY FS_SUBSET
<1> HIDE DEF F, K
<1>3. ASSUME NEW c \in C PROVE Joined(C, W, g)[c] = Total(F[c], SUBSET C)
  <2> DEFINE row == F[c]
             own == [S \in SUBSET (C \ {c}) |-> W[S] * g[S \cup {c}]]
             P == SUBSET (C \ {c})
             R == {T \in SUBSET C : c \in T}
             d == [S \in P |-> S \cup {c}]
  <2>1. \A T \in SUBSET C : row[T] \in Int
    BY <1>1
  <2>2. \A T \in (SUBSET C) \ R : row[T] = 0
    BY <1>1
  <2>3. ASSUME NEW S \in P PROVE d[S] \in R /\ own[S] = row[d[S]]
    <3>1. d[S] \in SUBSET C /\ c \in d[S] /\ d[S] \ {c} = S
      OBVIOUS
    <3> QED
      BY <1>1, <3>1
  <2>4. \A S, T \in P : d[S] = d[T] => S = T
    OBVIOUS
  <2>5. ASSUME NEW T \in R PROVE row[T] \in Int /\ \E S \in P : d[S] = T
    <3>1. T \ {c} \in P /\ d[T \ {c}] = T
      OBVIOUS
    <3> QED
      BY <2>1, <3>1
  <2>6. Joined(C, W, g)[c] = Total(own, P) /\ R \in SUBSET (SUBSET C)
    BY DEF Joined
  <2>7. IsFiniteSet(P) /\ IsFiniteSet(R)
    BY <1>2, FS_Subset
  <2> HIDE DEF row, own, P, R, d
  <2>8. Total(row, SUBSET C) = Total(row, R)
    BY <1>2, <2>1, <2>2, <2>6, TotalRestrict
  <2>9. Total(Drawn(row, d, P), P) = Total(row, R)
    BY <2>3, <2>4, <2>5, <2>7, TotalRenamed
  <2>10. \A S \in P : own[S] = Drawn(row, d, P)[S]
    BY <2>3 DEF Drawn
  <2>11. Total(own, P) = Total(Drawn(row, d, P), P)
    BY <2>10, TotalCongruent
  <2> QED
    BY <2>6, <2>8, <2>9, <2>11 DEF row
<1>4. ASSUME NEW T \in SUBSET C PROVE Insiders(C, w, g)[T] = Total(K[T], C)
  <2> DEFINE column == K[T]
             k == w[Cardinality(T) - 1] * g[T]
  <2>1. IsFiniteSet(T)
    BY FS_Subset
  <2>2. ASSUME NEW c \in T PROVE column[c] = k /\ k \in Int
    <3>1. Cardinality(T \ {c}) = Cardinality(T) - 1 /\ T \ {c} \in SUBSET C /\ T \ {c} # C
      BY <2>1, FS_RemoveElement
    <3>2. W[T \ {c}] = w[Cardinality(T) - 1] /\ W[T \ {c}] \in Int
      BY <3>1
    <3>3. column[c] = W[T \ {c}] * g[T]
      BY <1>1
    <3> QED
      BY <3>2, <3>3
  <2>3. \A c \in C : column[c] \in Int
    BY <1>1
  <2>4. ASSUME NEW c \in C \ T PROVE column[c] = 0
    <3>1. F[c][T] = 0 /\ K[T][c] = F[c][T]
      BY <1>1
    <3> QED
      BY <3>1
  <2> HIDE DEF column
  <2>5. Total(column, C) = Total(column, T)
    BY <2>3, <2>4, TotalRestrict
  <2>6. CASE T = {}
    <3>1. Total(column, T) = 0
      BY <2>1, <2>6, TotalRemove
    <3> QED
      BY <2>5, <2>6, <3>1 DEF column, Insiders
  <2>7. CASE T # {}
    <3>1. k \in Int
      BY <2>2, <2>7
    <3>2. Insiders(C, w, g)[T] = k * Cardinality(T)
      BY <2>7 DEF Insiders
    <3>3. \A c \in T : column[c] = k
      BY <2>2
    <3> HIDE DEF k
    <3>4. Total(column, T) = k * Cardinality(T)
      BY <2>1, <3>1, <3>3, TotalConstant
    <3> QED
      BY <2>5, <3>2, <3>4 DEF column
  <2> QED
    BY <2>6, <2>7
<1>5. \A c \in C, S \in SUBSET C : F[c][S] \in Int /\ K[S][c] = F[c][S]
  BY <1>1
<1>6. /\ \A c \in C : Joined(C, W, g)[c] = RowTotals(F, C, SUBSET C)[c]
      /\ \A S \in SUBSET C : Insiders(C, w, g)[S] = RowTotals(K, SUBSET C, C)[S]
  BY <1>3, <1>4 DEF RowTotals
<1>7. Total(RowTotals(F, C, SUBSET C), C) = Total(RowTotals(K, SUBSET C, C), SUBSET C)
  BY <1>2, <1>5, TotalSwap
<1>8. Total(Joined(C, W, g), C) = Total(RowTotals(F, C, SUBSET C), C)
  BY <1>6, TotalCongruent
<1>9. Total(Insiders(C, w, g), SUBSET C) = Total(RowTotals(K, SUBSET C, C), SUBSET C)
  BY <1>6, TotalCongruent
<1> QED
  BY <1>7, <1>8, <1>9

\* The Shapley values of a cost lattice g, over the number of orders of the players.
ShapleyOf(C, g) ==
    [c \in C |-> Total([S \in SUBSET (C \ {c}) |->
                            Orders(Cardinality(C), Cardinality(S)) * (g[S] - g[S \cup {c}])],
                       SUBSET (C \ {c}))]

LEMMA ShapleySplit ==
    ASSUME NEW C, IsFiniteSet(C), NEW W, NEW V, NEW g,
           \A S \in SUBSET C : g[S] \in Int,
           \A S \in SUBSET C : S # C => /\ W[S] = Orders(Cardinality(C), Cardinality(S))
                                        /\ W[S] \in Int /\ V[S] = -W[S]
    PROVE  Total(ShapleyOf(C, g), C) = Total(Without(C, W, g), C) + Total(Joined(C, V, g), C)
<1>1. ASSUME NEW c \in C
      PROVE  /\ ShapleyOf(C, g)[c] = Without(C, W, g)[c] + Joined(C, V, g)[c]
             /\ Without(C, W, g)[c] \in Int /\ Joined(C, V, g)[c] \in Int
  <2> DEFINE P == SUBSET (C \ {c})
             h == [S \in P |-> Orders(Cardinality(C), Cardinality(S)) * (g[S] - g[S \cup {c}])]
             e == [S \in P |-> W[S] * g[S]]
             f == [S \in P |-> V[S] * g[S \cup {c}]]
  <2>1. ASSUME NEW S \in P PROVE e[S] \in Int /\ f[S] \in Int /\ h[S] = e[S] + f[S]
    <3>1. S \in SUBSET C /\ S # C /\ S \cup {c} \in SUBSET C
      OBVIOUS
    <3>2. /\ W[S] = Orders(Cardinality(C), Cardinality(S)) /\ W[S] \in Int /\ V[S] = -W[S]
          /\ g[S] \in Int /\ g[S \cup {c}] \in Int
      BY <3>1
    <3> DEFINE x == W[S]
               y == g[S]
               z == g[S \cup {c}]
    <3>3. h[S] = x * (y - z) /\ e[S] = x * y /\ f[S] = (-x) * z
      BY <3>2
    <3>4. x \in Int /\ y \in Int /\ z \in Int
      BY <3>2
    <3> HIDE DEF x, y, z, h, e, f
    <3>5. x * (y - z) = x * y + (-x) * z /\ x * y \in Int /\ (-x) * z \in Int
      BY <3>4
    <3> QED
      BY <3>3, <3>5
  <2>2. IsFiniteSet(P)
    BY FS_Subset, FS_SUBSET
  <2>3. /\ ShapleyOf(C, g)[c] = Total(h, P)
        /\ Without(C, W, g)[c] = Total(e, P) /\ Joined(C, V, g)[c] = Total(f, P)
    BY DEF ShapleyOf, Without, Joined
  <2> HIDE DEF P, h, e, f
  <2>4. Total(h, P) = Total(e, P) + Total(f, P)
    BY <2>1, <2>2, TotalPlus
  <2>5. Total(e, P) \in Int
    BY <2>1, <2>2, TotalAdd
  <2>6. Total(f, P) \in Int
    BY <2>1, <2>2, TotalAdd
  <2> QED
    BY <2>3, <2>4, <2>5, <2>6
<1> QED
  BY <1>1, TotalPlus

\* The values add up to what all players together change.
LEMMA ShapleyEfficient ==
    ASSUME NEW C, IsFiniteSet(C), NEW g, \A S \in SUBSET C : g[S] \in Int
    PROVE  Total(ShapleyOf(C, g), C) = factorial[Cardinality(C)] * (g[{}] - g[C])
<1> DEFINE n == Cardinality(C)
           P == SUBSET C
           W == [S \in P |-> Orders(n, Cardinality(S))]
           V == [S \in P |-> -Orders(n, Cardinality(S))]
           w == [m \in 0..n |-> -Orders(n, m)]
           a == Outsiders(C, W, g)
           b == Insiders(C, w, g)
           k == [S \in P |-> a[S] + b[S]]
<1>1. IsFiniteSet(P) /\ n \in Nat /\ factorial[n] \in Int /\ factorial[0] = 1
  BY FS_SUBSET, FS_CardinalityType, FactorialStep
<1>2. ASSUME NEW S \in P
      PROVE  /\ IsFiniteSet(S) /\ Cardinality(S) \in 0..n
             /\ S # C => Cardinality(S) < n
             /\ Cardinality(C \ S) = n - Cardinality(S)
  <2>1. IsFiniteSet(S) /\ Cardinality(S) \in Nat
    BY FS_Subset, FS_CardinalityType
  <2>2. Cardinality(S) <= n /\ (S # C => Cardinality(S) < n)
    <3>1. Cardinality(S) <= n /\ (n = Cardinality(S) => S = C)
      BY FS_Subset
    <3> HIDE DEF n
    <3> QED
      BY <1>1, <2>1, <3>1
  <2>3. Cardinality(C \ S) = n - Cardinality(S)
    <3>1. Cardinality(C \ S) = Cardinality(C) - Cardinality(C \cap S) /\ C \cap S = S
      BY FS_Difference
    <3> QED
      BY <3>1
  <2> QED
    BY <2>1, <2>2, <2>3
<1>3. ASSUME NEW S \in P, S # C
      PROVE  /\ W[S] = Orders(n, Cardinality(S)) /\ W[S] \in Int /\ V[S] = -W[S]
             /\ V[S] = w[Cardinality(S)] /\ V[S] \in Int
  <2>1. Cardinality(S) \in 0..n /\ Cardinality(S) < n
    BY <1>2, <1>3
  <2>2. Orders(n, Cardinality(S)) \in Int
    BY <1>1, <2>1, OrdersMeet
  <2> QED
    BY <2>1, <2>2
<1>4. ASSUME NEW S \in P
      PROVE  LET worth == (factorial[Cardinality(S)] * factorial[n - Cardinality(S)]) * g[S]
             IN  /\ worth \in Int
                 /\ a[S] = IF S = C THEN 0 ELSE worth
                 /\ b[S] = IF S = {} THEN 0 ELSE -worth
  <2> DEFINE m == Cardinality(S)
             q == factorial[m] * factorial[n - m]
             x == g[S]
  <2>1. x \in Int /\ q \in Int /\ m \in 0..n
    BY <1>1, <1>2, OrdersMeet
  <2>2. a[S] = IF S = C THEN 0 ELSE q * x
    <3>1. CASE S # C
      <4> DEFINE o == Orders(n, m)
      <4>1. m < n /\ a[S] = (o * x) * (n - m)
        BY <1>2, <3>1 DEF Outsiders
      <4>2. o \in Int /\ (n - m) * o = q
        BY <1>1, <2>1, <4>1, OrdersMeet
      <4>3. n - m \in Int
        BY <1>1, <2>1
      <4> HIDE DEF o, q, x, a, m, n
      <4>4. (o * x) * (n - m) = ((n - m) * o) * x
        BY <2>1, <4>2, <4>3
      <4> QED
        BY <3>1, <4>1, <4>2, <4>4
    <3> QED
      BY <3>1 DEF Outsiders
  <2>3. b[S] = IF S = {} THEN 0 ELSE -(q * x)
    <3>1. CASE S # {}
      <4> DEFINE o == Orders(n, m - 1)
      <4>1. 0 < m
        <5>1. IsFiniteSet(S) /\ m # 0
          BY <1>2, <3>1, FS_EmptySet
        <5> QED
          BY <2>1, <5>1
      <4>2. o \in Int /\ m * o = q
        BY <1>1, <2>1, <4>1, OrdersMeet
      <4>3. b[S] = ((-o) * x) * m
        <5>1. m - 1 \in 0..n
          BY <1>1, <2>1, <4>1
        <5>2. w[m - 1] = -o
          BY <5>1
        <5> QED
          BY <3>1, <5>2 DEF Insiders
      <4>4. m \in Int
        BY <2>1
      <4> HIDE DEF o, q, x, b, m, n
      <4>5. ((-o) * x) * m = -((m * o) * x)
        BY <2>1, <4>2, <4>4
      <4> QED
        BY <3>1, <4>2, <4>3, <4>5
    <3> QED
      BY <3>1 DEF Insiders
  <2>4. q * x \in Int
    BY <2>1
  <2> QED
    BY <2>2, <2>3, <2>4
<1> HIDE DEF W, V, w
<1>5. Total(ShapleyOf(C, g), C) = Total(Without(C, W, g), C) + Total(Joined(C, V, g), C)
  BY <1>3, ShapleySplit
<1>6. Total(Without(C, W, g), C) = Total(a, P)
  BY <1>3, SumOfWithout
<1>7. Total(Joined(C, V, g), C) = Total(b, P)
  BY <1>3, SumOfJoined
<1>8. ASSUME NEW S \in P
      PROVE  /\ a[S] \in Int /\ b[S] \in Int /\ k[S] = a[S] + b[S] /\ k[S] \in Int
             /\ S \notin {{}, C} => k[S] = 0
  BY <1>4
<1>9. {} # C => k[{}] = factorial[n] * g[{}] /\ k[C] = -(factorial[n] * g[C])
  BY <1>1, <1>4, FS_EmptySet
<1>10. {} = C => k[C] = 0
  BY <1>4
<1> HIDE DEF a, b, k
<1>11. Total(k, P) = Total(a, P) + Total(b, P)
  BY <1>1, <1>8, TotalPlus
<1>12. Total(k, P) = Total(k, {{}, C})
  BY <1>1, <1>8, TotalRestrict
<1>13. /\ Total(k, {}) = 0 /\ Total(k, {{}}) = k[{}]
       /\ {} # C => Total(k, {{}, C}) = k[C] + k[{}]
  <2>1. /\ Total(k, {}) = 0
        /\ \A T \in SUBSET P : Total(k, T) \in Int
        /\ \A T \in SUBSET P : \A x \in P \ T : Total(k, T \cup {x}) = k[x] + Total(k, T)
    BY <1>1, <1>8, TotalAdd
  <2>2. Total(k, {} \cup {{}}) = k[{}] + Total(k, {}) /\ {} \cup {{}} = {{}}
    BY <2>1
  <2>3. {} # C => Total(k, {{}} \cup {C}) = k[C] + Total(k, {{}})
    BY <2>1
  <2>4. {{}} \cup {C} = {{}, C}
    OBVIOUS
  <2>5. k[{}] \in Int
    BY <1>8
  <2>6. Total(k, {{}}) = k[{}]
    BY <2>1, <2>2, <2>5
  <2> QED
    BY <2>1, <2>3, <2>4, <2>6
<1>14. g[{}] \in Int /\ g[C] \in Int
  OBVIOUS
<1>15. CASE C = {}
  <2>1. {{}, C} = {{}} /\ k[{}] = 0
    BY <1>10, <1>15
  <2>2. Total(ShapleyOf(C, g), C) = 0
    BY <1>5, <1>6, <1>7, <1>11, <1>12, <1>13, <2>1
  <2>3. g[{}] - g[C] = 0
    BY <1>14, <1>15
  <2> QED
    BY <1>1, <2>2, <2>3
<1>16. CASE C # {}
  <2>1. Total(ShapleyOf(C, g), C) = -(factorial[n] * g[C]) + factorial[n] * g[{}]
    BY <1>5, <1>6, <1>7, <1>9, <1>11, <1>12, <1>13, <1>16
  <2> QED
    BY <1>1, <1>14, <2>1
<1> QED
  BY <1>15, <1>16

-----------------------------------------------------------------------------
(* Adjustments that change nothing *)

\* Replacing the outcomes of an observed arm by its alternates changes nothing.
LEMMA SharedIsObserved ==
    ASSUME NEW arm, Observed(arm)
    PROVE  [p \in DOMAIN arm |-> [s \in DOMAIN arm[p] |->
               [arm[p][s] EXCEPT !.correct = arm[p][s].shared]]] = arm
<1>1. ASSUME NEW c \in CellType, c.shared = c.correct PROVE [c EXCEPT !.correct = c.shared] = c
  BY <1>1 DEF CellType
<1>2. ASSUME NEW p \in DOMAIN arm
      PROVE  [s \in DOMAIN arm[p] |-> [arm[p][s] EXCEPT !.correct = arm[p][s].shared]] = arm[p]
  <2>1. ASSUME NEW s \in DOMAIN arm[p]
        PROVE  [arm[p][s] EXCEPT !.correct = arm[p][s].shared] = arm[p][s]
    BY <1>1, <1>2, <2>1 DEF Observed
  <2> QED
    BY <1>2, <2>1 DEF Observed
<1> QED
  BY <1>2 DEF Observed

LEMMA C7Identity ==
    ASSUME NEW a, StateOK(a)
    PROVE  apply_C7(a) = a
<1>1. [p \in DOMAIN a.base |-> [s \in DOMAIN a.base[p] |->
           [a.base[p][s] EXCEPT !.correct = a.base[p][s].shared]]] = a.base
  BY SharedIsObserved DEF StateOK
<1>2. [p \in DOMAIN a.rl |-> [s \in DOMAIN a.rl[p] |->
           [a.rl[p][s] EXCEPT !.correct = a.rl[p][s].shared]]] = a.rl
  BY SharedIsObserved DEF StateOK
<1>3. apply_C7(a) = [a EXCEPT !.base = a.base, !.rl = a.rl]
  BY <1>1, <1>2 DEF apply_C7, OnCells
<1> QED
  BY <1>3 DEF StateOK, Fields

\* The weight adjustments leave the arms alone.
LEMMA ReweighKeeps ==
    ASSUME NEW a, StateOK(a), NEW keep
    PROVE  StateOK(Reweigh(a, keep))
BY DEF Reweigh, StateOK, Fields, Axis

\* Adding C7 to a set of adjustments changes nothing.
LEMMA NullStep ==
    ASSUME NEW a, StateOK(a), NEW S \in SUBSET CONFOUNDS
    PROVE  apply_set(a, S \cup {"C7"}) = apply_set(a, S)
<1> DEFINE c2 == IF "C2" \in S THEN apply_C2(a) ELSE a
           c3 == IF "C3" \in S THEN apply_C3(c2) ELSE c2
<1>1. StateOK(c2)
  BY ReweighKeeps DEF apply_C2
<1>2. StateOK(c3)
  BY <1>1, ReweighKeeps DEF apply_C3
<1>3. apply_C7(c3) = c3
  BY <1>2, C7Identity
<1>4. /\ "C2" \in S \cup {"C7"} <=> "C2" \in S
      /\ "C3" \in S \cup {"C7"} <=> "C3" \in S
      /\ "C4" \in S \cup {"C7"} <=> "C4" \in S
      /\ "C5" \in S \cup {"C7"} <=> "C5" \in S
      /\ "C6" \in S \cup {"C7"} <=> "C6" \in S
  OBVIOUS
<1> HIDE DEF c2, c3
<1> DEFINE rest(x, T) ==
      LET c4 == IF "C4" \in T THEN apply_C4(x) ELSE x
          c5 == IF "C5" \in T THEN apply_C5(c4) ELSE c4
      IN  IF "C6" \in T THEN apply_C6(c5) ELSE c5
<1>5. rest(c3, S \cup {"C7"}) = rest(c3, S)
  BY <1>4
<1>6. apply_set(a, S \cup {"C7"}) = rest(apply_C7(c3), S \cup {"C7"})
  BY <1>4 DEF apply_set, c2, c3
<1>7. apply_set(a, S) = rest(IF "C7" \in S THEN apply_C7(c3) ELSE c3, S)
  BY DEF apply_set, c2, c3
<1> QED
  BY <1>3, <1>5, <1>6, <1>7

\* An arm without twins keeps its outcomes under C4.
LEMMA NothingTaken ==
    ASSUME NEW arm, Observed(arm), NEW a, Twinned(a), arm \in {a.base, a.rl},
           \A p \in DOMAIN arm : ~Twin(p)
    PROVE  [p \in DOMAIN arm |-> [s \in DOMAIN arm[p] |->
               [arm[p][s] EXCEPT !.correct = arm[p][s].correct /\ ~arm[p][s].null]]] = arm
<1>1. ASSUME NEW c \in CellType, ~(c.correct /\ c.null)
      PROVE  [c EXCEPT !.correct = c.correct /\ ~c.null] = c
  <2>1. (c.correct /\ ~c.null) = c.correct
    BY <1>1 DEF CellType
  <2> QED
    BY <2>1 DEF CellType
<1>2. ASSUME NEW p \in DOMAIN arm
      PROVE  [s \in DOMAIN arm[p] |->
                 [arm[p][s] EXCEPT !.correct = arm[p][s].correct /\ ~arm[p][s].null]] = arm[p]
  <2>1. ASSUME NEW s \in DOMAIN arm[p]
        PROVE  [arm[p][s] EXCEPT !.correct = arm[p][s].correct /\ ~arm[p][s].null] = arm[p][s]
    <3>1. ~(arm[p][s].correct /\ arm[p][s].null)
      BY <1>2, <2>1 DEF Twinned
    <3>2. arm[p][s] \in CellType
      BY <1>2, <2>1 DEF Observed
    <3> QED
      BY <1>1, <3>1, <3>2
  <2> QED
    BY <1>2, <2>1 DEF Observed
<1> QED
  BY <1>2 DEF Observed

\* Arms in which nothing can be taken out.
Untwinned(a) ==
    /\ Twinned(a)
    /\ \A arm \in {a.base, a.rl} : \A p \in DOMAIN arm : ~Twin(p)

LEMMA C4Identity ==
    ASSUME NEW a, StateOK(a), Untwinned(a)
    PROVE  apply_C4(a) = a
<1>1. [p \in DOMAIN a.base |-> [s \in DOMAIN a.base[p] |->
           [a.base[p][s] EXCEPT !.correct = a.base[p][s].correct /\ ~a.base[p][s].null]]] = a.base
  BY NothingTaken DEF StateOK, Untwinned
<1>2. [p \in DOMAIN a.rl |-> [s \in DOMAIN a.rl[p] |->
           [a.rl[p][s] EXCEPT !.correct = a.rl[p][s].correct /\ ~a.rl[p][s].null]]] = a.rl
  BY NothingTaken DEF StateOK, Untwinned
<1>3. apply_C4(a) = [a EXCEPT !.base = a.base, !.rl = a.rl]
  BY <1>1, <1>2 DEF apply_C4, OnCells
<1> QED
  BY <1>3 DEF StateOK, Fields

\* Adding C4 to a set of adjustments changes nothing where there are no twins.
LEMMA IdleC4 ==
    ASSUME NEW a, StateOK(a), Untwinned(a), NEW S \in SUBSET CONFOUNDS
    PROVE  apply_set(a, S \cup {"C4"}) = apply_set(a, S)
<1> DEFINE c2 == IF "C2" \in S THEN apply_C2(a) ELSE a
           c3 == IF "C3" \in S THEN apply_C3(c2) ELSE c2
           c7 == IF "C7" \in S THEN apply_C7(c3) ELSE c3
<1>1. ASSUME NEW b, StateOK(b), Untwinned(b), NEW keep
      PROVE  StateOK(Reweigh(b, keep)) /\ Untwinned(Reweigh(b, keep))
  <2>1. Reweigh(b, keep).base = b.base /\ Reweigh(b, keep).rl = b.rl
    BY <1>1 DEF Reweigh, StateOK, Fields
  <2> QED
    BY <1>1, <2>1, ReweighKeeps DEF Untwinned, Twinned
<1>2. StateOK(c2) /\ Untwinned(c2)
  BY <1>1 DEF apply_C2
<1>3. StateOK(c3) /\ Untwinned(c3)
  BY <1>1, <1>2 DEF apply_C3
<1>4. c7 = c3
  BY <1>3, C7Identity
<1>5. apply_C4(c7) = c7
  BY <1>3, <1>4, C4Identity
<1>6. /\ "C2" \in S \cup {"C4"} <=> "C2" \in S
      /\ "C3" \in S \cup {"C4"} <=> "C3" \in S
      /\ "C5" \in S \cup {"C4"} <=> "C5" \in S
      /\ "C6" \in S \cup {"C4"} <=> "C6" \in S
      /\ "C7" \in S \cup {"C4"} <=> "C7" \in S
  OBVIOUS
<1> HIDE DEF c2, c3, c7
<1> DEFINE rest(x, T) ==
      LET c5 == IF "C5" \in T THEN apply_C5(x) ELSE x
      IN  IF "C6" \in T THEN apply_C6(c5) ELSE c5
<1>7. rest(c7, S \cup {"C4"}) = rest(c7, S)
  BY <1>6
<1>8. apply_set(a, S \cup {"C4"}) = rest(apply_C4(c7), S \cup {"C4"})
  BY <1>6 DEF apply_set, c2, c3, c7
<1>9. apply_set(a, S) = rest(IF "C4" \in S THEN apply_C4(c7) ELSE c7, S)
  BY DEF apply_set, c2, c3, c7
<1> QED
  BY <1>5, <1>7, <1>8, <1>9

-----------------------------------------------------------------------------
(* The problems an adjusted state has left *)

\* Only C2 and C3 touch weights and axis, and each only sets weights to zero.
LEMMA LiveOf ==
    ASSUME NEW a, StateOK(a), WeightsOK(a), NEW S \in SUBSET CONFOUNDS
    PROVE  Live(apply_set(a, S)) =
             {p \in Live(a) : /\ "C2" \in S => 5 * a.n <= 100 * Solved(a.base, p)
                                              /\ 100 * Solved(a.base, p) <= 80 * a.n
                              /\ "C3" \in S => a.recent[p]}
<1> DEFINE c2 == IF "C2" \in S THEN apply_C2(a) ELSE a
           c3 == IF "C3" \in S THEN apply_C3(c2) ELSE c2
           c7 == IF "C7" \in S THEN apply_C7(c3) ELSE c3
           c4 == IF "C4" \in S THEN apply_C4(c7) ELSE c7
           c5 == IF "C5" \in S THEN apply_C5(c4) ELSE c4
           informative(p) == 5 * a.n <= 100 * Solved(a.base, p) /\ 100 * Solved(a.base, p) <= 80 * a.n
<1>1. ASSUME NEW b, StateOK(b), WeightsOK(b), NEW keep
      PROVE  /\ StateOK(Reweigh(b, keep)) /\ WeightsOK(Reweigh(b, keep))
             /\ Reweigh(b, keep).recent = b.recent
             /\ Live(Reweigh(b, keep)) = Live(b) \cap keep
  <2>1. Reweigh(b, keep).weight = [p \in Axis(b) |-> IF p \in keep THEN b.weight[p] ELSE 0]
    BY <1>1 DEF Reweigh, StateOK, Fields
  <2>2. Reweigh(b, keep).recent = b.recent
    BY <1>1 DEF Reweigh, StateOK, Fields
  <2> QED
    BY <1>1, <2>1, <2>2, ReweighKeeps DEF WeightsOK, Axis, Live
<1>2. /\ StateOK(c2) /\ WeightsOK(c2) /\ c2.recent = a.recent
      /\ Live(c2) = {p \in Live(a) : "C2" \in S => informative(p)}
  BY <1>1 DEF apply_C2, Live
<1>3. Live(c3) = {p \in Live(c2) : "C3" \in S => a.recent[p]}
  BY <1>1, <1>2 DEF apply_C3, Live
<1>4. StateOK(c3)
  BY <1>1, <1>2 DEF apply_C3
<1>5. c7 = c3
  BY <1>4, C7Identity
<1> HIDE DEF c2, c3, informative
<1>6. c4.weight = c7.weight
  BY <1>4, <1>5 DEF apply_C4, OnCells, StateOK, Fields
<1>7. c4 = [f \in Fields |-> c4[f]]
  BY <1>4, <1>5 DEF apply_C4, OnCells, StateOK, Fields
<1> HIDE DEF c4
<1>8. c5.weight = c4.weight /\ c5 = [f \in Fields |-> c5[f]]
  BY <1>7 DEF apply_C5, OnCells, Fields
<1>9. apply_set(a, S) = IF "C6" \in S THEN apply_C6(c5) ELSE c5
  BY DEF apply_set, c2, c3, c4
<1> HIDE DEF c5
<1>10. apply_set(a, S).weight = c5.weight
  BY <1>8, <1>9 DEF apply_C6, Fields
<1>11. Live(apply_set(a, S)) = Live(c3)
  BY <1>5, <1>6, <1>8, <1>10 DEF Live, Axis
<1> QED
  BY <1>2, <1>3, <1>11 DEF informative

\* An adjustment more never brings a problem back.
LEMMA TopIsSmallest ==
    ASSUME NEW a, StateOK(a), WeightsOK(a)
    PROVE  Estimable(a) <=> Live(apply_set(a, CONFOUNDS)) # {}
<1>1. ASSUME NEW S \in SUBSET CONFOUNDS
      PROVE  Live(apply_set(a, CONFOUNDS)) \subseteq Live(apply_set(a, S))
  BY LiveOf DEF CONFOUNDS
<1> QED
  BY <1>1 DEF Estimable

-----------------------------------------------------------------------------
(* Analysis states in the large: what the adjustments keep *)

\* An arm has n typed cells for every problem of the axis.
Filled(arm, axis, n) == arm \in [axis -> [1..n -> CellType]]

\* A state one can estimate from, whatever the weights are.
Sized(a) ==
    /\ a = [f \in Fields |-> a[f]]
    /\ IsFiniteSet(Axis(a)) /\ Axis(a) # {}
    /\ a.n \in Nat \ {0}
    /\ Filled(a.base, Axis(a), a.n) /\ Filled(a.rl, Axis(a), a.n)
    /\ WeightsOK(a)
    /\ a.k_base \in 1..a.n /\ a.k_rl \in 1..a.n

\* b is a with other outcomes, other weights or another budget of the trained model.
Sister(b, a) ==
    Sized(b) /\ Axis(b) = Axis(a) /\ b.n = a.n /\ b.k_base = a.k_base /\ b.recent = a.recent

LEMMA InitialSized ==
    ASSUME NEW rows, rows \subseteq Row, IsFiniteSet(rows), Buildable(rows)
    PROVE  Sized(AnalysisState(rows))
<1> DEFINE a == AnalysisState(rows)
           n == n_samples(rows)
<1>1. n \in Nat \ {0} /\ IsFiniteSet(Problems(rows)) /\ Problems(rows) # {}
  BY SamplesCounted
<1>2. ASSUME NEW m PROVE Filled(Arm(rows, m), Problems(rows), n)
  BY CellObserved DEF Arm, Filled
<1>3. Min({KTop, n}) \in 1..n
  <2> HIDE DEF n
  <2> QED
    BY <1>1, AnalysisAssumption, MinOfTwo
<1>4. Axis(a) = Problems(rows) /\ a.n = n /\ WeightsOK(a)
  BY DEF AnalysisState, Axis, WeightsOK
<1>5. a = [f \in Fields |-> a[f]]
  BY DEF AnalysisState, Fields
<1>6. /\ a.base = Arm(rows, Base) /\ a.rl = Arm(rows, Rl)
      /\ a.k_base = Min({KTop, n}) /\ a.k_rl = Min({KTop, n})
  BY DEF AnalysisState
<1> HIDE DEF a, n
<1>7. Sized(a)
  BY <1>1, <1>2, <1>3, <1>4, <1>5, <1>6 DEF Sized
<1> QED
  BY <1>7 DEF a

LEMMA ReweighSized ==
    ASSUME NEW a, Sized(a), NEW keep
    PROVE  Sister(Reweigh(a, keep), a)
<1> DEFINE b == Reweigh(a, keep)
<1>1. /\ b.weight = [p \in Axis(a) |-> IF p \in keep THEN a.weight[p] ELSE 0]
      /\ b = [f \in Fields |-> b[f]] /\ \A f \in Fields \ {"weight"} : b[f] = a[f]
  BY DEF Reweigh, Sized, Fields
<1> HIDE DEF b
<1>2. Axis(b) = Axis(a) /\ WeightsOK(b)
  BY <1>1 DEF Axis, Sized, WeightsOK
<1>3. Sister(b, a)
  BY <1>1, <1>2 DEF Sister, Sized, Fields
<1> QED
  BY <1>3 DEF b

\* Other outcomes, in the same cells.
LEMMA RescoredSized ==
    ASSUME NEW a, Sized(a), NEW b, NEW base, Filled(base, Axis(a), a.n),
           NEW rl, Filled(rl, Axis(a), a.n), b = [a EXCEPT !.base = base, !.rl = rl]
    PROVE  Sister(b, a)
<1>1. /\ b.base = base /\ b.rl = rl
      /\ b = [f \in Fields |-> b[f]] /\ \A f \in Fields \ {"base", "rl"} : b[f] = a[f]
  BY DEF Sized, Fields
<1>2. Axis(b) = Axis(a) /\ WeightsOK(b)
  BY <1>1 DEF Axis, Sized, WeightsOK, Fields
<1> QED
  BY <1>1, <1>2 DEF Sister, Sized, Fields

LEMMA CellRescored ==
    ASSUME NEW c \in CellType, NEW v \in BOOLEAN
    PROVE  [c EXCEPT !.correct = v] \in CellType
BY DEF CellType

LEMMA C7Sized ==
    ASSUME NEW a, Sized(a)
    PROVE  Sister(apply_C7(a), a)
<1> DEFINE redo(arm) == [p \in DOMAIN arm |-> [s \in DOMAIN arm[p] |->
                            [arm[p][s] EXCEPT !.correct = arm[p][s].shared]]]
<1>1. ASSUME NEW arm, Filled(arm, Axis(a), a.n) PROVE Filled(redo(arm), Axis(a), a.n)
  <2>1. ASSUME NEW p \in Axis(a), NEW s \in 1..a.n
        PROVE  [arm[p][s] EXCEPT !.correct = arm[p][s].shared] \in CellType
    <3>1. arm[p][s] \in CellType
      BY <1>1, <2>1 DEF Filled
    <3>2. (arm[p][s].shared) \in BOOLEAN
      BY <3>1 DEF CellType
    <3> HIDE DEF CellType
    <3> QED
      BY <3>1, <3>2, CellRescored
  <2>2. \A p \in Axis(a) : arm[p] = [s \in 1..a.n |-> arm[p][s]]
    BY <1>1 DEF Filled
  <2>3. arm = [p \in Axis(a) |-> arm[p]]
    BY <1>1 DEF Filled
  <2>4. redo(arm) = [p \in Axis(a) |-> [s \in 1..a.n |-> [arm[p][s] EXCEPT !.correct = arm[p][s].shared]]]
    BY <2>2, <2>3
  <2> QED
    BY <2>1, <2>4 DEF Filled
<1>2. apply_C7(a) = [a EXCEPT !.base = redo(a.base), !.rl = redo(a.rl)]
  BY DEF apply_C7, OnCells, Sized, Fields
<1>3. Filled(redo(a.base), Axis(a), a.n) /\ Filled(redo(a.rl), Axis(a), a.n)
  BY <1>1 DEF Sized
<1> HIDE DEF redo
<1> QED
  BY <1>2, <1>3, RescoredSized

LEMMA C4Sized ==
    ASSUME NEW a, Sized(a)
    PROVE  Sister(apply_C4(a), a)
<1> DEFINE redo(arm) == [p \in DOMAIN arm |-> [s \in DOMAIN arm[p] |->
                            [arm[p][s] EXCEPT !.correct = arm[p][s].correct /\ ~arm[p][s].null]]]
<1>1. ASSUME NEW arm, Filled(arm, Axis(a), a.n) PROVE Filled(redo(arm), Axis(a), a.n)
  <2>1. ASSUME NEW p \in Axis(a), NEW s \in 1..a.n
        PROVE  [arm[p][s] EXCEPT !.correct = arm[p][s].correct /\ ~arm[p][s].null] \in CellType
    <3>1. arm[p][s] \in CellType
      BY <1>1, <2>1 DEF Filled
    <3>2. (arm[p][s].correct /\ ~arm[p][s].null) \in BOOLEAN
      BY <3>1 DEF CellType
    <3> HIDE DEF CellType
    <3> QED
      BY <3>1, <3>2, CellRescored
  <2>2. \A p \in Axis(a) : arm[p] = [s \in 1..a.n |-> arm[p][s]]
    BY <1>1 DEF Filled
  <2>3. arm = [p \in Axis(a) |-> arm[p]]
    BY <1>1 DEF Filled
  <2>4. redo(arm) = [p \in Axis(a) |-> [s \in 1..a.n |-> [arm[p][s] EXCEPT !.correct = arm[p][s].correct /\ ~arm[p][s].null]]]
    BY <2>2, <2>3
  <2> QED
    BY <2>1, <2>4 DEF Filled
<1>2. apply_C4(a) = [a EXCEPT !.base = redo(a.base), !.rl = redo(a.rl)]
  BY DEF apply_C4, OnCells, Sized, Fields
<1>3. Filled(redo(a.base), Axis(a), a.n) /\ Filled(redo(a.rl), Axis(a), a.n)
  BY <1>1 DEF Sized
<1> HIDE DEF redo
<1> QED
  BY <1>2, <1>3, RescoredSized

LEMMA C5Sized ==
    ASSUME NEW a, Sized(a)
    PROVE  Sister(apply_C5(a), a)
<1> DEFINE B == Budget(a)
           redo(arm) == [p \in DOMAIN arm |-> [s \in DOMAIN arm[p] |->
                            [arm[p][s] EXCEPT !.correct = /\ arm[p][s].correct
                                                          /\ arm[p][s].pos >= 0
                                                          /\ arm[p][s].pos <= B]]]
<1>1. ASSUME NEW arm, Filled(arm, Axis(a), a.n) PROVE Filled(redo(arm), Axis(a), a.n)
  <2> HIDE DEF B
  <2>1. ASSUME NEW p \in Axis(a), NEW s \in 1..a.n
        PROVE  [arm[p][s] EXCEPT !.correct = arm[p][s].correct /\ arm[p][s].pos >= 0 /\ arm[p][s].pos <= B] \in CellType
    <3>1. arm[p][s] \in CellType
      BY <1>1, <2>1 DEF Filled
    <3>2. (arm[p][s].correct /\ arm[p][s].pos >= 0 /\ arm[p][s].pos <= B) \in BOOLEAN
      BY <3>1 DEF CellType
    <3> HIDE DEF CellType
    <3> QED
      BY <3>1, <3>2, CellRescored
  <2>2. \A p \in Axis(a) : arm[p] = [s \in 1..a.n |-> arm[p][s]]
    BY <1>1 DEF Filled
  <2>3. arm = [p \in Axis(a) |-> arm[p]]
    BY <1>1 DEF Filled
  <2>4. redo(arm) = [p \in Axis(a) |-> [s \in 1..a.n |-> [arm[p][s] EXCEPT !.correct = arm[p][s].correct /\ arm[p][s].pos >= 0 /\ arm[p][s].pos <= B]]]
    BY <2>2, <2>3
  <2> QED
    BY <2>1, <2>4 DEF Filled
<1>2. apply_C5(a) = [a EXCEPT !.base = redo(a.base), !.rl = redo(a.rl)]
  BY DEF apply_C5, OnCells, Sized, Fields
<1>3. Filled(redo(a.base), Axis(a), a.n) /\ Filled(redo(a.rl), Axis(a), a.n)
  BY <1>1 DEF Sized
<1> HIDE DEF redo
<1> QED
  BY <1>2, <1>3, RescoredSized

\* What an arm spends is positive.
LEMMA SpendPositive ==
    ASSUME NEW a, Sized(a), NEW arm, Filled(arm, Axis(a), a.n)
    PROVE  Spend(a, arm) \in Nat \ {0}
<1> DEFINE D == Axis(a) \X (1..a.n)
           f == [x \in D |-> arm[x[1]][x[2]].tokens]
<1>1. MapThenSumSet(LAMBDA x : arm[x[1]][x[2]].tokens, D) = Total(f, D)
  <2> HIDE DEF D
  <2> QED
    BY DEF MapThenSumSet, MapThenFoldSet, Total, Folded, Table, Partial, Join
<1>2. IsFiniteSet(D)
  <2>1. a.n \in Int /\ 1 \in Int /\ IsFiniteSet(Axis(a))
    BY DEF Sized
  <2>2. IsFiniteSet(1..a.n)
    BY <2>1, FS_Interval
  <2> QED
    BY <2>1, <2>2, FS_Product
<1>3. \A x \in D : f[x] \in Nat
  BY DEF Filled, CellType, Sized
<1> HIDE DEF f
<1>4. Total(f, D) \in Nat
  BY <1>2, <1>3, TotalNatural
<1>5. Cardinality(Axis(a)) \in Nat \ {0}
  BY FS_CardinalityType, FS_EmptySet DEF Sized
<1>6. Cardinality(Axis(a)) * a.n \in Nat \ {0}
  BY <1>5 DEF Sized
<1> QED
  BY <1>1, <1>4, <1>6 DEF Spend

LEMMA C6Sized ==
    ASSUME NEW a, Sized(a)
    PROVE  Sister(apply_C6(a), a)
<1> DEFINE q == (a.k_base * Spend(a, a.base)) \div Spend(a, a.rl)
           k == Max({1, Min({a.n, q})})
           b == [a EXCEPT !.k_rl = k]
<1>1. q \in Int
  <2>1. Spend(a, a.base) \in Nat \ {0} /\ Spend(a, a.rl) \in Nat \ {0}
    BY SpendPositive DEF Sized
  <2>2. a.k_base \in Nat
    BY DEF Sized
  <2>3. a.k_base * Spend(a, a.base) \in Int
    BY <2>1, <2>2
  <2> QED
    BY <2>1, <2>3
<1> HIDE DEF q
<1>2. a.n \in Nat \ {0}
  BY DEF Sized
<1>3. Min({a.n, q}) \in Int /\ Min({a.n, q}) <= a.n
  BY <1>1, <1>2, MinOfTwo
<1>4. k \in 1..a.n
  <2> DEFINE m == Min({a.n, q})
  <2> HIDE DEF m
  <2>1. m \in Int /\ m <= a.n
    BY <1>3 DEF m
  <2>2. Max({1, m}) \in 1..a.n
    BY <1>2, <2>1, MaxOfTwo
  <2> QED
    BY <2>2 DEF m
<1> HIDE DEF k
<1>5. b.k_rl = k /\ b = [f \in Fields |-> b[f]] /\ \A f \in Fields \ {"k_rl"} : b[f] = a[f]
  BY DEF Sized, Fields
<1> HIDE DEF b
<1>6. Axis(b) = Axis(a) /\ WeightsOK(b)
  BY <1>5 DEF Axis, Sized, WeightsOK, Fields
<1>7. Sister(b, a)
  BY <1>4, <1>5, <1>6 DEF Sister, Sized, Fields
<1> QED
  BY <1>7 DEF apply_C6, b, k, q

\* Every subset of the adjustments leaves a state one can estimate from.
LEMMA AppliedSized ==
    ASSUME NEW a, Sized(a), NEW S
    PROVE  Sister(apply_set(a, S), a)
<1> DEFINE c2 == IF "C2" \in S THEN apply_C2(a) ELSE a
           c3 == IF "C3" \in S THEN apply_C3(c2) ELSE c2
           c7 == IF "C7" \in S THEN apply_C7(c3) ELSE c3
           c4 == IF "C4" \in S THEN apply_C4(c7) ELSE c7
           c5 == IF "C5" \in S THEN apply_C5(c4) ELSE c4
           c6 == IF "C6" \in S THEN apply_C6(c5) ELSE c5
<1>1. Sister(c2, a)
  BY ReweighSized DEF apply_C2, Sister
<1> HIDE DEF c2
<1>2. Sister(c3, a)
  BY <1>1, ReweighSized DEF apply_C3, Sister
<1> HIDE DEF c3
<1>3. Sister(c7, a)
  BY <1>2, C7Sized DEF Sister
<1> HIDE DEF c7
<1>4. Sister(c4, a)
  BY <1>3, C4Sized DEF Sister
<1> HIDE DEF c4
<1>5. Sister(c5, a)
  BY <1>4, C5Sized DEF Sister
<1> HIDE DEF c5
<1>6. Sister(c6, a)
  BY <1>5, C6Sized DEF Sister
<1>7. apply_set(a, S) = c6
  BY DEF apply_set, c2, c3, c7, c4, c5
<1> QED
  BY <1>6, <1>7

-----------------------------------------------------------------------------
(* Gaps are integers *)

LEMMA SolvedBound ==
    ASSUME NEW A, NEW n \in Nat, NEW arm, Filled(arm, A, n), NEW p \in A
    PROVE  Solved(arm, p) \in 0..n
<1> DEFINE H == {s \in DOMAIN arm[p] : arm[p][s].correct}
<1>1. DOMAIN arm[p] = 1..n
  BY DEF Filled
<1>2. IsFiniteSet(1..n) /\ Cardinality(1..n) = n
  BY FS_Interval
<1>3. H \subseteq 1..n
  BY <1>1
<1> HIDE DEF H
<1>4. IsFiniteSet(H) /\ Cardinality(H) <= Cardinality(1..n)
  BY <1>2, <1>3, FS_Subset
<1>5. Cardinality(H) \in Nat
  BY <1>4, FS_CardinalityType
<1>6. Cardinality(H) \in 0..n
  BY <1>2, <1>4, <1>5
<1> QED
  BY <1>6 DEF Solved, H

LEMMA PassTyped ==
    ASSUME NEW n \in Nat, NEW c \in 0..n, NEW k \in 1..n
    PROVE  pass_at_k(n, c, k) \in Int
<1> DEFINE I == {i - k : i \in (n - c + 1)..n}
<1>1. I \subseteq (1 - k)..n
  OBVIOUS
<1>2. IsFiniteSet((1 - k)..n)
  BY FS_Interval
<1>3. IsFiniteSet(I) /\ I \subseteq Int
  BY <1>1, <1>2, FS_Subset
<1> HIDE DEF I
<1>4. ProductSet(I) \in Int
  BY <1>3, ProductTyped
<1>5. factorial[n] \in Int /\ factorial[n - c] \in Int
  BY FactorialStep
<1>6. factorial[n - c] * ProductSet(I) \in Int
  BY <1>4, <1>5
<1>7. factorial[n] - factorial[n - c] * ProductSet(I) \in Int
  BY <1>5, <1>6
<1> QED
  BY <1>5, <1>7 DEF pass_at_k, I

\* The weights of the live problems are not all zero.
LEMMA TotalWeightPositive ==
    ASSUME NEW a, Sized(a), Live(a) # {}
    PROVE  TotalWeight(a) \in Nat \ {0}
<1> DEFINE A == Axis(a)
           f == [p \in A |-> a.weight[p]]
<1>1. TotalWeight(a) = Total(f, A)
  BY DEF TotalWeight, MapThenSumSet, MapThenFoldSet, Total, Folded, Table, Partial, Join
<1>2. IsFiniteSet(A) /\ \A p \in A : f[p] \in Nat
  BY DEF Sized, WeightsOK
<1>3. PICK p \in A : f[p] > 0
  BY DEF Live
<1> HIDE DEF A, f
<1>4. \A q \in A \ {p} : f[q] \in Nat
  BY <1>2
<1>5. IsFiniteSet(A \ {p})
  BY <1>2, FS_Subset
<1>6. Total(f, A \ {p}) \in Nat
  BY <1>4, <1>5, TotalNatural
<1>7. Total(f, A) = f[p] + Total(f, A \ {p})
  BY <1>2, TotalRemove
<1> QED
  BY <1>1, <1>2, <1>3, <1>6, <1>7

LEMMA WeightedTyped ==
    ASSUME NEW a, Sized(a), Live(a) # {}, NEW arm, Filled(arm, Axis(a), a.n), NEW k \in 1..a.n
    PROVE  weighted_pass_at_k(a, arm, k) \in Int
<1> DEFINE L == Live(a)
           f == [p \in L |-> a.weight[p] * pass_at_k(a.n, Solved(arm, p), Min({k, a.n}))]
           w == factorial[Cardinality(Axis(a))] \div TotalWeight(a)
<1>1. IsFiniteSet(L) /\ L \subseteq Axis(a)
  BY FS_Subset DEF Live, Sized
<1>2. a.n \in Nat \ {0} /\ Min({k, a.n}) = k
  BY MinOfTwo DEF Sized
<1>3. ASSUME NEW p \in L PROVE f[p] \in Int
  <2>1. Solved(arm, p) \in 0..a.n
    BY <1>1, <1>2, SolvedBound
  <2>2. pass_at_k(a.n, Solved(arm, p), Min({k, a.n})) \in Int
    BY <1>2, <2>1, PassTyped
  <2>3. a.weight[p] \in Int
    BY <1>1 DEF Sized, WeightsOK
  <2>4. a.weight[p] * pass_at_k(a.n, Solved(arm, p), Min({k, a.n})) \in Int
    BY <2>2, <2>3
  <2> QED
    BY <2>4
<1>4. weighted_pass_at_k(a, arm, k) = Total(f, L) * w
  <2> DEFINE e(p) == a.weight[p] * pass_at_k(a.n, Solved(arm, p), Min({k, a.n}))
  <2>1. weighted_pass_at_k(a, arm, k) = MapThenSumSet(LAMBDA p : e(p), L) * w
    BY DEF weighted_pass_at_k
  <2>2. f = [p \in L |-> e(p)]
    OBVIOUS
  <2> HIDE DEF L, f, e
  <2>3. MapThenSumSet(LAMBDA p : e(p), L) = Total(f, L)
    BY <2>2 DEF MapThenSumSet, MapThenFoldSet, Total, Folded, Table, Partial, Join
  <2> QED
    BY <2>1, <2>3
<1>5. w \in Int
  <2>1. factorial[Cardinality(Axis(a))] \in Int
    BY FactorialStep, FS_CardinalityType DEF Sized
  <2>2. TotalWeight(a) \in Nat \ {0}
    BY TotalWeightPositive
  <2> QED
    BY <2>1, <2>2
<1> HIDE DEF f, L, w
<1>6. Total(f, L) \in Int
  BY <1>1, <1>3, TotalRemove
<1> QED
  BY <1>4, <1>5, <1>6

\* Every subset of the lattice has an integer gap, once every subset can be estimated.
LEMMA LatticeTyped ==
    ASSUME NEW a, Sized(a), Estimable(a)
    PROVE  G(a) \in [SUBSET CONFOUNDS -> Int]
<1>1. ASSUME NEW b, Sized(b), Live(b) # {} PROVE gap(b) \in Int
  <2>1. /\ Filled(b.base, Axis(b), b.n) /\ Filled(b.rl, Axis(b), b.n)
        /\ b.k_base \in 1..b.n /\ b.k_rl \in 1..b.n
    BY <1>1 DEF Sized
  <2>2. weighted_pass_at_k(b, b.base, b.k_base) \in Int /\ weighted_pass_at_k(b, b.rl, b.k_rl) \in Int
    BY <1>1, <2>1, WeightedTyped
  <2> QED
    BY <2>2 DEF gap
<1>2. ASSUME NEW S \in SUBSET CONFOUNDS PROVE gap(apply_set(a, S)) \in Int
  <2>1. Sized(apply_set(a, S)) /\ Live(apply_set(a, S)) # {}
    BY AppliedSized DEF Sister, Estimable
  <2> QED
    BY <1>1, <2>1
<1> QED
  BY <1>2 DEF G

-----------------------------------------------------------------------------
(* The raw gap and the curves, at as many draws as there are samples *)

\* All problems weigh the same and both arms draw as often, as run_analysis sets out.
Unweighted(a) == Sized(a) /\ a.weight = [p \in Axis(a) |-> 1] /\ a.k_rl = a.k_base

LEMMA InitialUnweighted ==
    ASSUME NEW rows, rows \subseteq Row, IsFiniteSet(rows), Buildable(rows)
    PROVE  Unweighted(AnalysisState(rows))
<1>1. /\ AnalysisState(rows).weight = [p \in Problems(rows) |-> 1]
      /\ AnalysisState(rows).k_rl = AnalysisState(rows).k_base
  BY DEF AnalysisState
<1> QED
  BY <1>1, InitialSized DEF Unweighted, Axis

\* Without weights an estimate is a curve over the number of problems.
LEMMA WeightedIsCurve ==
    ASSUME NEW a, Unweighted(a), NEW arm, Filled(arm, Axis(a), a.n), NEW k \in 1..a.n
    PROVE  /\ weighted_pass_at_k(a, arm, k)
                  = curve(a, arm, k) * (factorial[Cardinality(Axis(a))] \div Cardinality(Axis(a)))
           /\ curve(a, arm, k) \in Int
<1> DEFINE A == Axis(a)
           e(p) == pass_at_k(a.n, Solved(arm, p), k)
           w(p) == a.weight[p] * pass_at_k(a.n, Solved(arm, p), Min({k, a.n}))
           f == [p \in A |-> e(p)]
           one == [p \in A |-> a.weight[p]]
<1>1. IsFiniteSet(A) /\ a.n \in Nat \ {0}
  BY DEF Unweighted, Sized
<1>2. Min({k, a.n}) = k
  BY <1>1, MinOfTwo
<1>3. ASSUME NEW p \in A PROVE e(p) \in Int /\ w(p) = e(p)
  <2>1. e(p) \in Int
    BY <1>1, SolvedBound, PassTyped
  <2>2. a.weight[p] = 1
    BY DEF Unweighted
  <2>3. w(p) = 1 * e(p)
    BY <1>2, <2>2
  <2> HIDE DEF e, w
  <2> QED
    BY <2>1, <2>3
<1>4. Live(a) = A
  BY DEF Live, Unweighted
<1>5. weighted_pass_at_k(a, arm, k)
          = MapThenSumSet(LAMBDA p : w(p), A) * (factorial[Cardinality(A)] \div TotalWeight(a))
  BY <1>4 DEF weighted_pass_at_k
<1>6. curve(a, arm, k) = MapThenSumSet(LAMBDA p : e(p), A)
  BY DEF curve
<1>7. TotalWeight(a) = Total(one, A)
  <2>1. TotalWeight(a) = MapThenSumSet(LAMBDA p : a.weight[p], A)
    BY DEF TotalWeight
  <2> HIDE DEF A
  <2>2. MapThenSumSet(LAMBDA p : a.weight[p], A) = Total(one, A)
    BY DEF MapThenSumSet, MapThenFoldSet, Total, Folded, Table, Partial, Join
  <2> QED
    BY <2>1, <2>2
<1>8. \A p \in A : one[p] = 1
  BY DEF Unweighted
<1> HIDE DEF A, e, w, one
<1>9. Total(one, A) = Cardinality(A)
  <2>1. Total(one, A) = 1 * Cardinality(A)
    BY <1>1, <1>8, TotalConstant
  <2> QED
    BY <1>1, <2>1, FS_CardinalityType
<1>10. MapThenSumSet(LAMBDA p : e(p), A) = Total(f, A)
  BY DEF MapThenSumSet, MapThenFoldSet, Total, Folded, Table, Partial, Join
<1>11. MapThenSumSet(LAMBDA p : w(p), A) = Total(f, A)
  <2>1. f = [p \in A |-> w(p)]
    BY <1>3
  <2> HIDE DEF f
  <2> QED
    BY <2>1 DEF MapThenSumSet, MapThenFoldSet, Total, Folded, Table, Partial, Join
<1>12. \A p \in A : f[p] \in Int
  BY <1>3
<1> HIDE DEF f
<1>13. Total(f, A) \in Int
  BY <1>1, <1>12, TotalRemove
<1> QED
  BY <1>5, <1>6, <1>7, <1>9, <1>10, <1>11, <1>13 DEF A

\* Drawing every sample finds a correct one if there is one.
LEMMA PassOfAll ==
    ASSUME NEW n \in Nat \ {0}, NEW c \in 0..n
    PROVE  pass_at_k(n, c, n) = IF c > 0 THEN factorial[n] ELSE 0
<1>1. CASE c > 0
  BY <1>1 DEF pass_at_k
<1>2. CASE c = 0
  <2>1. {i - n : i \in (n - c + 1)..n} = {}
    BY <1>2
  <2>2. factorial[n] \in Int /\ factorial[n - c] = factorial[n]
    BY <1>2, FactorialStep
  <2>3. pass_at_k(n, c, n) = factorial[n] - factorial[n] * 1
    <3>1. ProductSet({i - n : i \in (n - c + 1)..n}) = 1
      BY <2>1, ProductTyped
    <3> QED
      BY <1>2, <2>2, <3>1 DEF pass_at_k
  <2> QED
    BY <1>2, <2>2, <2>3
<1> QED
  BY <1>1, <1>2

\* The problems an arm solves in some sample.
Reached(a, arm) == {p \in Axis(a) : Solved(arm, p) > 0}

LEMMA TailCurve ==
    ASSUME NEW a, Sized(a), NEW arm, Filled(arm, Axis(a), a.n)
    PROVE  /\ curve(a, arm, a.n) = factorial[a.n] * Cardinality(Reached(a, arm))
           /\ IsFiniteSet(Reached(a, arm)) /\ Cardinality(Reached(a, arm)) \in Nat
<1> DEFINE A == Axis(a)
           R == Reached(a, arm)
           e(p) == pass_at_k(a.n, Solved(arm, p), a.n)
           f == [p \in A |-> e(p)]
           hit == [p \in A |-> IF p \in R THEN 1 ELSE 0]
<1>1. IsFiniteSet(A) /\ a.n \in Nat \ {0} /\ factorial[a.n] \in Int
  BY FactorialStep DEF Sized
<1>2. R \subseteq A /\ A \cap R = R
  BY DEF Reached
<1>3. IsFiniteSet(R) /\ Cardinality(R) \in Nat
  BY <1>1, <1>2, FS_Subset, FS_CardinalityType
<1>4. ASSUME NEW p \in A PROVE f[p] = factorial[a.n] * hit[p] /\ hit[p] \in Int
  <2>1. e(p) = IF Solved(arm, p) > 0 THEN factorial[a.n] ELSE 0
    BY <1>1, SolvedBound, PassOfAll
  <2>2. p \in R <=> Solved(arm, p) > 0
    BY DEF Reached
  <2> HIDE DEF e, R
  <2> QED
    BY <1>1, <2>1, <2>2
<1>5. curve(a, arm, a.n) = MapThenSumSet(LAMBDA p : e(p), A)
  BY DEF curve
<1>6. \A p \in A : hit[p] = IF p \in R THEN 1 ELSE 0
  OBVIOUS
<1> HIDE DEF A, R, e
<1>7. MapThenSumSet(LAMBDA p : e(p), A) = Total(f, A)
  BY DEF MapThenSumSet, MapThenFoldSet, Total, Folded, Table, Partial, Join
<1> HIDE DEF f, hit
<1>8. Total(hit, A) = Cardinality(R)
  BY <1>1, <1>2, <1>6, TotalCount
<1>9. Total(f, A) = factorial[a.n] * Total(hit, A)
  BY <1>1, <1>4, TotalScaled
<1> QED
  BY <1>3, <1>5, <1>7, <1>8, <1>9 DEF R

\* The hard-zero table is the difference of what the arms reach.
LEMMA HardZeroBalance ==
    ASSUME NEW a, Sized(a)
    PROVE  /\ Cardinality(lost(a)) - Cardinality(expansion(a))
                  = Cardinality(Reached(a, a.base)) - Cardinality(Reached(a, a.rl))
           /\ Cardinality(lost(a)) \in Nat /\ Cardinality(expansion(a)) \in Nat
<1> DEFINE B == Reached(a, a.base)
           R == Reached(a, a.rl)
<1>1. /\ Filled(a.base, Axis(a), a.n) /\ Filled(a.rl, Axis(a), a.n) /\ a.n \in Nat
      /\ IsFiniteSet(B) /\ IsFiniteSet(R) /\ Cardinality(B) \in Nat /\ Cardinality(R) \in Nat
  BY TailCurve DEF Sized
<1>2. ASSUME NEW p \in Axis(a)
      PROVE  Solved(a.base, p) \in Nat /\ Solved(a.rl, p) \in Nat
  BY <1>1, SolvedBound
<1>3. lost(a) = B \ R /\ expansion(a) = R \ B
  BY <1>2 DEF lost, expansion, Reached
<1> HIDE DEF B, R
<1>4. /\ Cardinality(B \ R) = Cardinality(B) - Cardinality(B \cap R)
      /\ Cardinality(R \ B) = Cardinality(R) - Cardinality(R \cap B)
      /\ IsFiniteSet(B \ R) /\ IsFiniteSet(R \ B)
  BY <1>1, FS_Difference
<1>5. R \cap B = B \cap R /\ IsFiniteSet(B \cap R)
  BY <1>1, FS_Subset
<1>6. /\ Cardinality(B \cap R) \in Nat /\ Cardinality(B \ R) \in Nat
      /\ Cardinality(R \ B) \in Nat
  BY <1>4, <1>5, FS_CardinalityType
<1> QED
  BY <1>1, <1>3, <1>4, <1>5, <1>6 DEF B, R

\* The share of a problem in the common denominator.
LEMMA ShareOfFactorial ==
    ASSUME NEW N \in Nat \ {0}
    PROVE  /\ factorial[N] \div N \in Int
           /\ N * (factorial[N] \div N) = factorial[N]
<1>1. N - 1 \in Nat /\ (N - 1) + 1 = N
  OBVIOUS
<1>2. factorial[N - 1] \in Int /\ factorial[N] = N * factorial[N - 1]
  BY <1>1, FactorialStep
<1>3. ASSUME NEW x \in Int PROVE (N * x) \div N = x
  OBVIOUS
<1>4. factorial[N] \div N = factorial[N - 1]
  BY <1>2, <1>3
<1> QED
  BY <1>2, <1>4

\* An empty set of adjustments adjusts nothing.
LEMMA NothingApplied ==
    ASSUME NEW a
    PROVE  apply_set(a, {}) = a
BY DEF apply_set

-----------------------------------------------------------------------------
(* A bootstrap replicate as a reweighing *)

\* x has the problem d[i] at place i, y has every problem at its own place; where a problem
\* weighs anything it weighs 1 in x and the number of its draws in y.
Mirrors(x, y, d) ==
    /\ Sized(x) /\ Sized(y)
    /\ Axis(x) = Axis(y) /\ x.n = y.n /\ x.k_base = y.k_base /\ x.k_rl = y.k_rl
    /\ d \in [Axis(y) -> Axis(y)]
    /\ \A i \in Axis(y) : /\ x.base[i] = y.base[d[i]] /\ x.rl[i] = y.rl[d[i]]
                          /\ x.recent[i] = y.recent[d[i]]
    /\ \E u \in [Axis(y) -> {0, 1}] :
         /\ \A i \in Axis(y) : x.weight[i] = u[d[i]]
         /\ \A p \in Axis(y) : y.weight[p] = u[p] * Times(d, Axis(y), p)

LEMMA TimesTyped ==
    ASSUME NEW S, IsFiniteSet(S), NEW d, NEW p
    PROVE  Times(d, S, p) \in Nat
BY FS_Subset, FS_CardinalityType DEF Times

LEMMA ReweighMirrors ==
    ASSUME NEW x, NEW y, NEW d, Mirrors(x, y, d), NEW k, NEW l,
           \A i \in Axis(y) : i \in k <=> d[i] \in l
    PROVE  Mirrors(Reweigh(x, k), Reweigh(y, l), d)
<1> DEFINE A == Axis(y)
           xk == Reweigh(x, k)
           yl == Reweigh(y, l)
<1>1. /\ Sized(x) /\ Sized(y) /\ Axis(x) = A /\ d \in [A -> A] /\ IsFiniteSet(A)
  BY DEF Mirrors, Sized
<1>2. /\ xk.weight = [i \in A |-> IF i \in k THEN x.weight[i] ELSE 0]
      /\ \A f \in Fields \ {"weight"} : xk[f] = x[f]
  BY <1>1 DEF Reweigh, Sized, Fields
<1>3. /\ yl.weight = [p \in A |-> IF p \in l THEN y.weight[p] ELSE 0]
      /\ \A f \in Fields \ {"weight"} : yl[f] = y[f]
  BY <1>1 DEF Reweigh, Sized, Fields
<1>4. Sister(xk, x) /\ Sister(yl, y)
  BY <1>1, ReweighSized
<1> HIDE DEF xk, yl, A
<1>5. Sized(xk) /\ Sized(yl) /\ Axis(xk) = A /\ Axis(yl) = A
  BY <1>1, <1>4 DEF Sister, A
<1>6. PICK u \in [A -> {0, 1}] :
         /\ \A i \in A : x.weight[i] = u[d[i]]
         /\ \A p \in A : y.weight[p] = u[p] * Times(d, A, p)
  BY DEF Mirrors, A
<1> DEFINE v == [p \in A |-> IF p \in l THEN u[p] ELSE 0]
<1>7. v \in [A -> {0, 1}]
  BY <1>6
<1>8. \A i \in A : xk.weight[i] = v[d[i]]
  BY <1>1, <1>2, <1>6 DEF A
<1>9. \A p \in A : yl.weight[p] = v[p] * Times(d, A, p)
  <2> SUFFICES ASSUME NEW p \in A PROVE yl.weight[p] = v[p] * Times(d, A, p)
    OBVIOUS
  <2>1. Times(d, A, p) \in Nat
    BY <1>1, TimesTyped
  <2> QED
    BY <1>3, <1>6, <2>1
<1> HIDE DEF v
<1>10. \E w \in [A -> {0, 1}] : /\ \A i \in A : xk.weight[i] = w[d[i]]
                                 /\ \A p \in A : yl.weight[p] = w[p] * Times(d, A, p)
  BY <1>7, <1>8, <1>9
<1>11. /\ xk.n = yl.n /\ xk.k_base = yl.k_base /\ xk.k_rl = yl.k_rl
       /\ \A i \in A : /\ xk.base[i] = yl.base[d[i]] /\ xk.rl[i] = yl.rl[d[i]]
                        /\ xk.recent[i] = yl.recent[d[i]]
  BY <1>2, <1>3 DEF Mirrors, Fields, A
<1> QED
  BY <1>1, <1>5, <1>10, <1>11 DEF Mirrors, xk, yl

\* Other outcomes, the same at every place a problem was drawn for.
LEMMA RescoredMirrors ==
    ASSUME NEW x, NEW y, NEW d, Mirrors(x, y, d), NEW xs, NEW ys,
           Sister(xs, x), Sister(ys, y),
           \A f \in {"weight", "k_rl"} : xs[f] = x[f] /\ ys[f] = y[f],
           \A i \in Axis(y) : xs.base[i] = ys.base[d[i]] /\ xs.rl[i] = ys.rl[d[i]]
    PROVE  Mirrors(xs, ys, d)
<1> DEFINE A == Axis(y)
<1>1. /\ Sized(xs) /\ Sized(ys) /\ Axis(xs) = A /\ Axis(ys) = A
      /\ xs.n = ys.n /\ xs.k_base = ys.k_base /\ xs.k_rl = ys.k_rl /\ d \in [A -> A]
  BY DEF Mirrors, Sister
<1>2. \A i \in A : xs.recent[i] = ys.recent[d[i]]
  BY DEF Mirrors, Sister
<1>3. xs.weight = x.weight /\ ys.weight = y.weight
  OBVIOUS
<1> QED
  BY <1>1, <1>2, <1>3 DEF Mirrors

LEMMA C7Mirrors ==
    ASSUME NEW x, NEW y, NEW d, Mirrors(x, y, d)
    PROVE  Mirrors(apply_C7(x), apply_C7(y), d)
<1> DEFINE one(row) == [s \in DOMAIN row |-> [row[s] EXCEPT !.correct = row[s].shared]]
           redo(arm) == [p \in DOMAIN arm |-> one(arm[p])]
<1>1. ASSUME NEW a, Sized(a)
      PROVE  /\ Sister(apply_C7(a), a)
             /\ apply_C7(a).base = redo(a.base) /\ apply_C7(a).rl = redo(a.rl)
             /\ \A f \in {"weight", "k_rl"} : apply_C7(a)[f] = a[f]
             /\ DOMAIN a.base = Axis(a) /\ DOMAIN a.rl = Axis(a)
  BY <1>1, C7Sized DEF apply_C7, OnCells, Sized, Fields, Filled
<1>2. ASSUME NEW a, NEW b, Sized(a), Sized(b), NEW i \in Axis(a), NEW p \in Axis(b),
             a.base[i] = b.base[p], a.rl[i] = b.rl[p]
      PROVE  apply_C7(a).base[i] = apply_C7(b).base[p] /\ apply_C7(a).rl[i] = apply_C7(b).rl[p]
  <2>1. ASSUME NEW c, Sized(c), NEW q \in Axis(c)
        PROVE  apply_C7(c).base[q] = one(c.base[q]) /\ apply_C7(c).rl[q] = one(c.rl[q])
    <3>1. /\ apply_C7(c).base = redo(c.base) /\ apply_C7(c).rl = redo(c.rl)
          /\ DOMAIN c.base = Axis(c) /\ DOMAIN c.rl = Axis(c)
      BY <1>1, <2>1
    <3> HIDE DEF one
    <3> QED
      BY <2>1, <3>1
  <2> HIDE DEF one
  <2> QED
    BY <1>2, <2>1
<1> HIDE DEF redo
<1>3. /\ Sized(x) /\ Sized(y) /\ Axis(x) = Axis(y) /\ d \in [Axis(y) -> Axis(y)]
      /\ \A i \in Axis(y) : x.base[i] = y.base[d[i]] /\ x.rl[i] = y.rl[d[i]]
  BY DEF Mirrors
<1>4. \A i \in Axis(y) : /\ apply_C7(x).base[i] = apply_C7(y).base[d[i]]
                         /\ apply_C7(x).rl[i] = apply_C7(y).rl[d[i]]
  BY <1>2, <1>3
<1> QED
  BY <1>1, <1>3, <1>4, RescoredMirrors

LEMMA C4Mirrors ==
    ASSUME NEW x, NEW y, NEW d, Mirrors(x, y, d)
    PROVE  Mirrors(apply_C4(x), apply_C4(y), d)
<1> DEFINE one(row) == [s \in DOMAIN row |-> [row[s] EXCEPT !.correct = row[s].correct /\ ~row[s].null]]
           redo(arm) == [p \in DOMAIN arm |-> one(arm[p])]
<1>1. ASSUME NEW a, Sized(a)
      PROVE  /\ Sister(apply_C4(a), a)
             /\ apply_C4(a).base = redo(a.base) /\ apply_C4(a).rl = redo(a.rl)
             /\ \A f \in {"weight", "k_rl"} : apply_C4(a)[f] = a[f]
             /\ DOMAIN a.base = Axis(a) /\ DOMAIN a.rl = Axis(a)
  BY <1>1, C4Sized DEF apply_C4, OnCells, Sized, Fields, Filled
<1>2. ASSUME NEW a, NEW b, Sized(a), Sized(b), NEW i \in Axis(a), NEW p \in Axis(b),
             a.base[i] = b.base[p], a.rl[i] = b.rl[p]
      PROVE  apply_C4(a).base[i] = apply_C4(b).base[p] /\ apply_C4(a).rl[i] = apply_C4(b).rl[p]
  <2>1. ASSUME NEW c, Sized(c), NEW q \in Axis(c)
        PROVE  apply_C4(c).base[q] = one(c.base[q]) /\ apply_C4(c).rl[q] = one(c.rl[q])
    <3>1. /\ apply_C4(c).base = redo(c.base) /\ apply_C4(c).rl = redo(c.rl)
          /\ DOMAIN c.base = Axis(c) /\ DOMAIN c.rl = Axis(c)
      BY <1>1, <2>1
    <3> HIDE DEF one
    <3> QED
      BY <2>1, <3>1
  <2> HIDE DEF one
  <2> QED
    BY <1>2, <2>1
<1> HIDE DEF redo
<1>3. /\ Sized(x) /\ Sized(y) /\ Axis(x) = Axis(y) /\ d \in [Axis(y) -> Axis(y)]
      /\ \A i \in Axis(y) : x.base[i] = y.base[d[i]] /\ x.rl[i] = y.rl[d[i]]
  BY DEF Mirrors
<1>4. \A i \in Axis(y) : /\ apply_C4(x).base[i] = apply_C4(y).base[d[i]]
                         /\ apply_C4(x).rl[i] = apply_C4(y).rl[d[i]]
  BY <1>2, <1>3
<1> QED
  BY <1>1, <1>3, <1>4, RescoredMirrors

\* A problem's samples are solved as often at each place it was drawn for.
LEMMA SolvedMirrors ==
    ASSUME NEW x, NEW y, NEW d, Mirrors(x, y, d), NEW i \in Axis(y)
    PROVE  /\ Solved(x.base, i) = Solved(y.base, d[i])
           /\ Solved(x.rl, i) = Solved(y.rl, d[i])
<1>1. x.base[i] = y.base[d[i]] /\ x.rl[i] = y.rl[d[i]]
  BY DEF Mirrors
<1> QED
  BY <1>1 DEF Solved

\* The confounds that look at one problem at a time.
LEMMA AppliedMirrors ==
    ASSUME NEW x, NEW y, NEW d, Mirrors(x, y, d), NEW S \in SUBSET {"C2", "C3", "C4", "C7"}
    PROVE  Mirrors(apply_set(x, S), apply_set(y, S), d)
<1> DEFINE c2(a) == IF "C2" \in S THEN apply_C2(a) ELSE a
           c3(a) == IF "C3" \in S THEN apply_C3(a) ELSE a
           c7(a) == IF "C7" \in S THEN apply_C7(a) ELSE a
           c4(a) == IF "C4" \in S THEN apply_C4(a) ELSE a
<1>1. ASSUME NEW a, NEW b, Mirrors(a, b, d) PROVE Mirrors(apply_C2(a), apply_C2(b), d)
  <2> DEFINE keep(e) == {p \in Axis(e) : LET c == 100 * Solved(e.base, p)
                                         IN  5 * e.n <= c /\ c <= 80 * e.n}
  <2>1. a.n = b.n /\ Axis(a) = Axis(b) /\ \A i \in Axis(b) : d[i] \in Axis(b)
    BY <1>1 DEF Mirrors
  <2>2. \A i \in Axis(b) : i \in keep(a) <=> d[i] \in keep(b)
    BY <1>1, <2>1, SolvedMirrors
  <2>3. apply_C2(a) = Reweigh(a, keep(a)) /\ apply_C2(b) = Reweigh(b, keep(b))
    BY DEF apply_C2
  <2> HIDE DEF keep
  <2> QED
    BY <1>1, <2>2, <2>3, ReweighMirrors
<1>2. ASSUME NEW a, NEW b, Mirrors(a, b, d) PROVE Mirrors(apply_C3(a), apply_C3(b), d)
  <2> DEFINE keep(e) == {p \in Axis(e) : e.recent[p]}
  <2>1. /\ Axis(a) = Axis(b) /\ \A i \in Axis(b) : d[i] \in Axis(b)
        /\ \A i \in Axis(b) : a.recent[i] = b.recent[d[i]]
    BY <1>2 DEF Mirrors
  <2>2. \A i \in Axis(b) : i \in keep(a) <=> d[i] \in keep(b)
    BY <2>1
  <2>3. apply_C3(a) = Reweigh(a, keep(a)) /\ apply_C3(b) = Reweigh(b, keep(b))
    BY DEF apply_C3
  <2> HIDE DEF keep
  <2> QED
    BY <1>2, <2>2, <2>3, ReweighMirrors
<1>3. Mirrors(c2(x), c2(y), d)
  BY <1>1
<1>4. ASSUME NEW a, NEW b, Mirrors(a, b, d)
      PROVE  Mirrors(c3(a), c3(b), d) /\ Mirrors(c7(a), c7(b), d) /\ Mirrors(c4(a), c4(b), d)
  BY <1>2, <1>4, C7Mirrors, C4Mirrors
<1>5. \A a : apply_set(a, S) = c4(c7(c3(c2(a))))
  BY DEF apply_set
<1> HIDE DEF c2, c3, c7, c4
<1> QED
  BY <1>3, <1>4, <1>5

\* Equal totals, problem by problem of the reweighing or place by place of the replicate.
LEMMA TotalMirrors ==
    ASSUME NEW S, IsFiniteSet(S), NEW d, \A i \in S : d[i] \in S,
           NEW u, NEW e, \A p \in S : u[p] \in {0, 1} /\ e[p] \in Int
    PROVE  Total([i \in S |-> u[d[i]] * e[d[i]]], S)
             = Total([p \in S |-> u[p] * Times(d, S, p) * e[p]], S)
<1> DEFINE h == [p \in S |-> u[p] * e[p]]
           f == [i \in S |-> u[d[i]] * e[d[i]]]
           g == [p \in S |-> u[p] * Times(d, S, p) * e[p]]
<1>1. \A p \in S : h[p] \in Int
  OBVIOUS
<1>2. \A i \in S : f[i] = Drawn(h, d, S)[i]
  BY DEF Drawn
<1>3. ASSUME NEW p \in S PROVE g[p] = Reweighed(h, d, S, S)[p]
  <2>1. Times(d, S, p) \in Nat
    BY TimesTyped
  <2>2. Reweighed(h, d, S, S)[p] = u[p] * e[p] * Times(d, S, p)
    BY DEF Reweighed
  <2> QED
    BY <2>1, <2>2
<1> HIDE DEF h, f, g
<1>4. Total(f, S) = Total(Drawn(h, d, S), S)
  BY <1>2, TotalCongruent
<1>5. Total(g, S) = Total(Reweighed(h, d, S, S), S)
  BY <1>3, TotalCongruent
<1>6. Total(Drawn(h, d, S), S) = Total(Reweighed(h, d, S, S), S)
  BY <1>1, TotalDrawn
<1> QED
  BY <1>4, <1>5, <1>6 DEF f, g

\* An estimate is the sum over all problems, those that weigh nothing included.
LEMMA WeightedInFull ==
    ASSUME NEW a, Sized(a), NEW arm, Filled(arm, Axis(a), a.n), NEW k \in 1..a.n
    PROVE  /\ weighted_pass_at_k(a, arm, k)
                  = Total([p \in Axis(a) |-> a.weight[p] * pass_at_k(a.n, Solved(arm, p), k)], Axis(a))
                      * (factorial[Cardinality(Axis(a))] \div Total([p \in Axis(a) |-> a.weight[p]], Axis(a)))
           /\ \A p \in Axis(a) : pass_at_k(a.n, Solved(arm, p), k) \in Int
<1> DEFINE A == Axis(a)
           L == Live(a)
           w(p) == a.weight[p] * pass_at_k(a.n, Solved(arm, p), Min({k, a.n}))
           f == [p \in A |-> a.weight[p] * pass_at_k(a.n, Solved(arm, p), k)]
           g == [p \in L |-> w(p)]
           one == [p \in A |-> a.weight[p]]
<1>1. IsFiniteSet(A) /\ a.n \in Nat \ {0} /\ Min({k, a.n}) = k
  BY MinOfTwo DEF Sized
<1>2. ASSUME NEW p \in A
      PROVE  pass_at_k(a.n, Solved(arm, p), k) \in Int /\ a.weight[p] \in Nat
  BY <1>1, SolvedBound, PassTyped DEF Sized, WeightsOK
<1>3. ASSUME NEW p \in A PROVE f[p] \in Int /\ (p \notin L => f[p] = 0)
  <2> DEFINE v == a.weight[p]
             e == pass_at_k(a.n, Solved(arm, p), k)
  <2>1. v \in Nat /\ e \in Int /\ f[p] = v * e /\ (p \notin L => v = 0)
    BY <1>2 DEF Live
  <2> HIDE DEF v, e, f, L
  <2> QED
    BY <2>1
<1>4. L \in SUBSET A
  BY DEF Live
<1>5. ASSUME NEW p \in L PROVE g[p] = f[p]
  BY <1>1, <1>4
<1>6. weighted_pass_at_k(a, arm, k)
          = MapThenSumSet(LAMBDA p : w(p), L) * (factorial[Cardinality(A)] \div TotalWeight(a))
  BY DEF weighted_pass_at_k
<1>7. TotalWeight(a) = MapThenSumSet(LAMBDA p : a.weight[p], A)
  BY DEF TotalWeight
<1> HIDE DEF A, L, w
<1>8. MapThenSumSet(LAMBDA p : a.weight[p], A) = Total(one, A)
  BY DEF MapThenSumSet, MapThenFoldSet, Total, Folded, Table, Partial, Join
<1>9. MapThenSumSet(LAMBDA p : w(p), L) = Total(g, L)
  BY DEF MapThenSumSet, MapThenFoldSet, Total, Folded, Table, Partial, Join
<1> HIDE DEF f, g
<1>10. Total(g, L) = Total(f, L)
  BY <1>5, TotalCongruent
<1>11. Total(f, A) = Total(f, L)
  BY <1>1, <1>3, <1>4, TotalRestrict
<1> QED
  BY <1>2, <1>6, <1>7, <1>8, <1>9, <1>10, <1>11 DEF A, f

\* Both sides have the same gap.
LEMMA GapMirrors ==
    ASSUME NEW x, NEW y, NEW d, Mirrors(x, y, d)
    PROVE  gap(x) = gap(y)
<1> DEFINE A == Axis(y)
<1>1. /\ Sized(x) /\ Sized(y) /\ Axis(x) = A /\ x.n = y.n
      /\ x.k_base = y.k_base /\ x.k_rl = y.k_rl /\ IsFiniteSet(A)
      /\ \A i \in A : d[i] \in A
  BY DEF Mirrors, Sized
<1>2. PICK u \in [A -> {0, 1}] :
         /\ \A i \in A : x.weight[i] = u[d[i]]
         /\ \A p \in A : y.weight[p] = u[p] * Times(d, A, p)
  BY DEF Mirrors
<1>3. Total([i \in A |-> x.weight[i]], A) = Total([p \in A |-> y.weight[p]], A)
  <2> DEFINE e == [p \in A |-> 1]
             f == [i \in A |-> u[d[i]] * e[d[i]]]
             g == [p \in A |-> u[p] * Times(d, A, p) * e[p]]
  <2>1. \A p \in A : u[p] \in {0, 1} /\ e[p] \in Int
    OBVIOUS
  <2>2. Total(f, A) = Total(g, A)
    <3> HIDE DEF e
    <3> QED
      BY <1>1, <2>1, TotalMirrors
  <2>3. [i \in A |-> x.weight[i]] = f
    <3>1. \A i \in A : u[d[i]] \in {0, 1} /\ x.weight[i] = u[d[i]] * e[d[i]]
      BY <1>1, <1>2
    <3> HIDE DEF e, A
    <3> QED
      BY <3>1
  <2>4. [p \in A |-> y.weight[p]] = g
    <3>1. ASSUME NEW p \in A PROVE y.weight[p] = u[p] * Times(d, A, p) * e[p]
      <4>1. Times(d, A, p) \in Nat
        BY <1>1, TimesTyped
      <4>2. u[p] * Times(d, A, p) \in Int
        BY <4>1
      <4> QED
        BY <1>2, <4>2
    <3> HIDE DEF e, A
    <3> QED
      BY <3>1
  <2> QED
    BY <2>2, <2>3, <2>4
<1>4. ASSUME NEW p, NEW q, NEW k \in 1..y.n, Filled(p, A, y.n), Filled(q, A, y.n),
             \A i \in A : Solved(p, i) = Solved(q, d[i])
      PROVE  weighted_pass_at_k(x, p, k) = weighted_pass_at_k(y, q, k)
  <2> DEFINE e == [i \in A |-> pass_at_k(y.n, Solved(q, i), k)]
             f == [i \in A |-> u[d[i]] * e[d[i]]]
             g == [i \in A |-> u[i] * Times(d, A, i) * e[i]]
  <2>1. /\ weighted_pass_at_k(x, p, k)
               = Total([i \in A |-> x.weight[i] * pass_at_k(y.n, Solved(p, i), k)], A)
                   * (factorial[Cardinality(A)] \div Total([i \in A |-> x.weight[i]], A))
        /\ weighted_pass_at_k(y, q, k)
               = Total([i \in A |-> y.weight[i] * pass_at_k(y.n, Solved(q, i), k)], A)
                   * (factorial[Cardinality(A)] \div Total([i \in A |-> y.weight[i]], A))
    BY <1>1, <1>4, WeightedInFull
  <2>2. \A i \in A : u[i] \in {0, 1} /\ e[i] \in Int
    BY <1>1, <1>4, WeightedInFull
  <2>3. [i \in A |-> x.weight[i] * pass_at_k(y.n, Solved(p, i), k)] = f
    BY <1>1, <1>2, <1>4
  <2>4. [i \in A |-> y.weight[i] * pass_at_k(y.n, Solved(q, i), k)] = g
    BY <1>2
  <2>5. Total(f, A) = Total(g, A)
    <3> HIDE DEF e
    <3> QED
      BY <1>1, <2>2, TotalMirrors
  <2> HIDE DEF e, f, g, A
  <2> QED
    BY <1>3, <2>1, <2>3, <2>4, <2>5
<1>5. /\ Filled(x.base, A, y.n) /\ Filled(x.rl, A, y.n) /\ Filled(y.base, A, y.n)
      /\ Filled(y.rl, A, y.n) /\ y.k_base \in 1..y.n /\ y.k_rl \in 1..y.n
  BY <1>1 DEF Sized
<1>6. weighted_pass_at_k(x, x.base, y.k_base) = weighted_pass_at_k(y, y.base, y.k_base)
  BY <1>4, <1>5, SolvedMirrors
<1>7. weighted_pass_at_k(x, x.rl, y.k_rl) = weighted_pass_at_k(y, y.rl, y.k_rl)
  BY <1>4, <1>5, SolvedMirrors
<1> QED
  BY <1>1, <1>6, <1>7 DEF gap

-----------------------------------------------------------------------------
(* The estimator *)

\* Combinatorics' choose counts the k-subsets of 1..n, and of any n elements.
LEMMA ChooseCounts ==
    ASSUME NEW n \in Nat, NEW k \in 0..n, NEW S, IsFiniteSet(S), Cardinality(S) = n
    PROVE  /\ choose(n, k) = Cardinality(kSubset(k, S)) /\ choose(n, k) \in Nat \ {0}
           /\ choose(n, k) * (factorial[k] * factorial[n - k]) = factorial[n]
<1> DEFINE c == Cardinality(kSubset(k, S))
           d == factorial[k] * factorial[n - k]
<1>1. c * d = factorial[n] /\ c \in Nat
  BY SubsetsCounted, SubsetsFinite
<1>2. factorial[n] \in Nat \ {0} /\ d \in Nat \ {0}
  <2>1. factorial[k] \in Nat \ {0} /\ factorial[n - k] \in Nat \ {0} /\ factorial[n] \in Nat \ {0}
    BY FactorialStep
  <2> QED
    BY <2>1
<1>3. choose(n, k) = factorial[n] \div d
  BY DEF choose
<1> HIDE DEF c, d
<1>4. (c * d) \div d = c
  BY <1>1, <1>2
<1>5. c # 0
  BY <1>1, <1>2
<1> QED
  BY <1>1, <1>3, <1>4, <1>5 DEF c, d

\* The k-subsets without a correct sample are those of the other n - c samples.
LEMMA IncorrectSubsets ==
    ASSUME NEW n \in Nat, NEW c \in 0..n, NEW k \in 0..n
    PROVE  SubsetsWithCorrect(n, c, k)
             = Cardinality(kSubset(k, 1..n)) - Cardinality(kSubset(k, (c + 1)..n))
<1> DEFINE K == kSubset(k, 1..n)
           M == kSubset(k, (c + 1)..n)
<1>1. IsFiniteSet(K)
  BY FS_Interval, SubsetsFinite
<1>2. {s \in K : s \cap 1..c # {}} = K \ M
  BY DEF kSubset
<1>3. K \cap M = M
  BY DEF kSubset
<1> HIDE DEF K, M
<1>4. Cardinality(K \ M) = Cardinality(K) - Cardinality(K \cap M)
  BY <1>1, FS_Difference
<1> QED
  BY <1>2, <1>3, <1>4 DEF SubsetsWithCorrect, K, M

\* passk.py:6-8, 43-46: the product, the closed form and the share of subsets are one number.
LEMMA EstimatorIsShare ==
    ASSUME NEW n \in Nat, NEW c \in 0..n, NEW k \in 1..n
    PROVE  /\ pass_at_k(n, c, k) * choose(n, k) = SubsetsWithCorrect(n, c, k) * factorial[n]
           /\ pass_at_k(n, c, k) = pass_at_k_gammaln(n, c, k)
<1> DEFINE C == choose(n, k)
           W == Cardinality(kSubset(k, (c + 1)..n))
           N == factorial[n]
<1>1. IsFiniteSet(1..n) /\ Cardinality(1..n) = n
  BY FS_Interval
<1>2. IsFiniteSet((c + 1)..n) /\ Cardinality((c + 1)..n) = n - c
  BY FS_Interval
<1>3. /\ C = Cardinality(kSubset(k, 1..n)) /\ C \in Nat \ {0}
      /\ C * (factorial[k] * factorial[n - k]) = N
  BY <1>1, ChooseCounts
<1>4. W \in Nat /\ N \in Nat \ {0}
  BY <1>2, SubsetsFinite, FactorialStep
<1>5. SubsetsWithCorrect(n, c, k) = C - W
  BY <1>3, IncorrectSubsets
<1>6. CASE n - c < k
  <2>1. W = 0
    <3>1. ASSUME NEW s \in SUBSET ((c + 1)..n) PROVE Cardinality(s) # k
      <4>1. Cardinality(s) <= Cardinality((c + 1)..n) /\ Cardinality(s) \in Nat
        BY <1>2, FS_Subset, FS_CardinalityType
      <4> QED
        BY <1>2, <1>6, <4>1
    <3>2. kSubset(k, (c + 1)..n) = {}
      BY <3>1 DEF kSubset
    <3> QED
      BY <3>2, FS_EmptySet
  <2>2. pass_at_k(n, c, k) = N /\ pass_at_k_gammaln(n, c, k) = N
    BY <1>6 DEF pass_at_k, pass_at_k_gammaln
  <2> HIDE DEF C, W, N
  <2>3. N * C = (C - W) * N
    BY <1>3, <1>4, <2>1
  <2> QED
    BY <1>5, <2>2, <2>3 DEF C, N
<1>7. CASE ~ (n - c < k)
  <2> DEFINE P == ProductSet((n - k - c + 1)..(n - k))
             f == factorial[k]
             g == factorial[n - k]
             h == factorial[n - c]
             l == factorial[n - k - c]
  <2>1. n - k \in Nat /\ c \in 0..(n - k) /\ n - c \in Nat /\ k \in 0..(n - c) /\ n - c - k = n - k - c
    BY <1>7
  <2>2. g = l * P /\ P \in Int
    <3> DEFINE m == n - k
    <3>1. m \in Nat /\ c \in 0..m
      BY <2>1
    <3> HIDE DEF m
    <3>2. /\ ProductSet((m - c + 1)..m) \in Int
          /\ factorial[m] = factorial[m - c] * ProductSet((m - c + 1)..m)
      BY <3>1, FallingProduct
    <3> QED
      BY <3>2 DEF m
  <2>3. {i - k : i \in (n - c + 1)..n} = (n - k - c + 1)..(n - k)
    <3>1. ASSUME NEW j \in (n - k - c + 1)..(n - k) PROVE j \in {i - k : i \in (n - c + 1)..n}
      <4>1. j + k \in (n - c + 1)..n /\ j = (j + k) - k
        OBVIOUS
      <4> QED
        BY <4>1
    <3>2. {i - k : i \in (n - c + 1)..n} \subseteq (n - k - c + 1)..(n - k)
      OBVIOUS
    <3> QED
      BY <3>1, <3>2
  <2>4. pass_at_k(n, c, k) = N - h * P
    BY <1>7, <2>3 DEF pass_at_k
  <2>5. W * (f * l) = h /\ choose(n - c, k) = W
    <3> DEFINE m == n - c
               S == (c + 1)..n
    <3>1. m \in Nat /\ k \in 0..m /\ IsFiniteSet(S) /\ Cardinality(S) = m
      BY <1>2, <2>1
    <3> HIDE DEF m, S
    <3>2. /\ choose(m, k) = Cardinality(kSubset(k, S))
          /\ choose(m, k) * (factorial[k] * factorial[m - k]) = factorial[m]
      BY <3>1, ChooseCounts
    <3> QED
      BY <2>1, <3>2 DEF m, S
  <2>6. pass_at_k_gammaln(n, c, k) = N - (W * N) \div C
    BY <1>7, <2>5 DEF pass_at_k_gammaln
  <2>7. f \in Int /\ g \in Int /\ h \in Int /\ l \in Int
    BY <2>1, FactorialStep
  <2>8. C * (f * g) = N
    BY <1>3
  <2> HIDE DEF C, W, N, P, f, g, h, l
  <2>9. W * N = C * (h * P)
    <3>1. W * (C * (f * (l * P))) = C * ((W * (f * l)) * P)
      BY <1>3, <1>4, <2>2, <2>7
    <3> QED
      BY <2>2, <2>5, <2>8, <3>1
  <2>10. (W * N) \div C = h * P
    <3>1. h * P \in Int
      BY <2>2, <2>7
    <3>2. ASSUME NEW x \in Int PROVE (C * x) \div C = x
      BY <1>3
    <3> QED
      BY <2>9, <3>1, <3>2
  <2>11. (N - h * P) * C = (C - W) * N
    <3>1. (N - h * P) * C = C * N - C * (h * P) /\ (C - W) * N = C * N - W * N
      BY <1>3, <1>4, <2>2, <2>7
    <3> QED
      BY <2>9, <3>1
  <2> QED
    BY <1>5, <2>4, <2>6, <2>10, <2>11 DEF C, N
<1> QED
  BY <1>6, <1>7

-----------------------------------------------------------------------------
LEMMA InitInv ==
    ASSUME Init
    PROVE  IInv
BY FS_EmptySet DEF Init, IInv, Built, Decomposed, Distinct

LEMMA NextInv ==
    ASSUME IInv, [Next]_vars
    PROVE  IInv'
<1>1. ASSUME NEW r \in Row, Load(r) PROVE IInv'
  <2>1. /\ df' = df \cup {r} /\ stage' = stage /\ stage = "load"
        /\ \A q \in df : <<q.model, q.problem, q.variant, q.sample>>
                            # <<r.model, r.problem, r.variant, r.sample>>
    BY <1>1 DEF Load
  <2>2. IsFiniteSet(df')
    BY <2>1, FS_AddElement DEF IInv
  <2>3. Distinct(df')
    BY <2>1 DEF IInv, Distinct
  <2> QED
    BY <2>1, <2>2, <2>3 DEF IInv, Built, Decomposed
<1>2. CASE Build
  BY <1>2 DEF Build, IInv, Built, Decomposed, Distinct
<1>3. CASE Decompose
  BY <1>3 DEF Decompose, IInv, Built, Decomposed, Distinct
<1>4. ASSUME NEW d \in [Axis(st) -> Axis(st)], Replicate(d) PROVE IInv'
  BY <1>4 DEF Replicate, IInv, Built, Decomposed, Distinct
<1>5. CASE UNCHANGED vars
  BY <1>5 DEF vars, IInv, Built, Decomposed, Distinct
<1> QED
  BY <1>1, <1>2, <1>3, <1>4, <1>5 DEF Next

LEMMA Invariance == Spec => []IInv
<1> QED
  BY InitInv, NextInv, PTL DEF Spec

\* pipeline.py:125-127: for every frame, C7 is an exact null player of the lattice.
THEOREM C7IsExactNull == Spec => []C7IsNull
<1>1. ASSUME IInv PROVE C7IsNull
  <2> SUFFICES ASSUME Decomposed, NEW S \in SUBSET CONFOUNDS
               PROVE  lattice[S \cup {"C7"}] = lattice[S]
    BY DEF C7IsNull
  <2>1. lattice = G(st) /\ StateOK(st)
    BY <1>1, InitialState DEF IInv, Built, Decomposed
  <2>2. S \cup {"C7"} \in SUBSET CONFOUNDS
    BY DEF CONFOUNDS
  <2>3. apply_set(st, S \cup {"C7"}) = apply_set(st, S)
    BY <2>1, NullStep
  <2> QED
    BY <2>1, <2>2, <2>3 DEF G
<1> QED
  BY <1>1, Invariance, PTL

\* adjustments.py:85-97: for every frame, C4 changes no gap of the lattice where no problem's
\* gold is its own null gold.
THEOREM C4IdleWithoutTwins == Spec => []C4NeedsTwins
<1>1. ASSUME IInv PROVE C4NeedsTwins
  <2> SUFFICES ASSUME Decomposed, \A p \in Axis(st) : ~Twin(p), NEW S \in SUBSET CONFOUNDS
               PROVE  lattice[S \cup {"C4"}] = lattice[S]
    BY DEF C4NeedsTwins
  <2>1. lattice = G(st) /\ StateOK(st) /\ Twinned(st)
    BY <1>1, InitialState DEF IInv, Built, Decomposed
  <2>2. Untwinned(st)
    BY <2>1 DEF Untwinned, StateOK
  <2>3. S \cup {"C4"} \in SUBSET CONFOUNDS
    BY DEF CONFOUNDS
  <2>4. apply_set(st, S \cup {"C4"}) = apply_set(st, S)
    BY <2>1, <2>2, IdleC4
  <2> QED
    BY <2>1, <2>3, <2>4 DEF G
<1> QED
  BY <1>1, Invariance, PTL

\* decompose.py:113-117: "every subset of the lattice must be estimable" is decided by the
\* full set of adjustments alone.
THEOREM FullSetDecides == Spec => []TopDecides
<1>1. ASSUME IInv PROVE TopDecides
  <2> SUFFICES ASSUME stage = "tensor" PROVE Estimable(st) <=> Live(apply_set(st, CONFOUNDS)) # {}
    BY DEF TopDecides
  <2>1. StateOK(st) /\ WeightsOK(st)
    BY <1>1, InitialState DEF IInv, Built
  <2> QED
    BY <2>1, TopIsSmallest
<1> QED
  BY <1>1, Invariance, PTL

\* tensors.py:8-11, 182-202: for every frame, each cell of a tensor is the graded row of its
\* rank, and padding fills only the cells of a model and problem without rows.
THEOREM RowsFillTensors == Spec => []OnlyHolesPadded
<1>1. ASSUME IInv PROVE OnlyHolesPadded
  <2> SUFFICES ASSUME Built, NEW p \in Axis(st), NEW s \in 1..st.n
               PROVE  /\ Group(df, Base, p) # {} =>
                             st.base[p][s] \in {AsCell(r) : r \in Ranked(df, Base, p, s)}
                      /\ Group(df, Rl, p) # {} =>
                             st.rl[p][s] \in {AsCell(r) : r \in Ranked(df, Rl, p, s)}
    BY DEF OnlyHolesPadded
  <2>1. st = AnalysisState(df)
    BY <1>1 DEF IInv
  <2>2. p \in Problems(df) /\ s \in 1..n_samples(df)
    BY <2>1 DEF AnalysisState, Axis
  <2>3. ASSUME NEW m \in Asked, Group(df, m, p) # {}
        PROVE  Arm(df, m)[p][s] \in {AsCell(r) : r \in Ranked(df, m, p, s)}
    <3>1. Ranked(df, m, p, s) # {}
      BY <1>1, <2>2, <2>3, RankedRow DEF IInv
    <3>2. Cell(df, m, p, s) \in {AsCell(r) : r \in Ranked(df, m, p, s)}
      BY <3>1 DEF Cell
    <3> QED
      BY <2>2, <3>2 DEF Arm
  <2>4. st.base = Arm(df, Base) /\ st.rl = Arm(df, Rl)
    BY <2>1 DEF AnalysisState
  <2> QED
    BY <2>3, <2>4 DEF Asked
<1> QED
  BY <1>1, Invariance, PTL

\* Types: the frame is graded rows, both arms share the axis of the weights, both budgets lie
\* within n, and every subset of the confounds has an exact gap.
THEOREM TypeCorrect == Spec => []TypeOK
<1>1. ASSUME IInv PROVE TypeOK
  <2>1. ASSUME Built PROVE Sized(st)
    BY <1>1, <2>1, InitialSized DEF IInv
  <2>2. ASSUME Built
        PROVE  /\ st.n \in Nat \ {0} /\ st.k_base \in 1..st.n /\ st.k_rl \in 1..st.n
               /\ DOMAIN st.base = Axis(st) /\ DOMAIN st.rl = Axis(st)
    BY <2>1, <2>2 DEF Sized, Filled
  <2>3. ASSUME Decomposed PROVE lattice \in [SUBSET CONFOUNDS -> Int]
    BY <1>1, <2>1, <2>3, LatticeTyped DEF IInv, Built, Decomposed
  <2> QED
    BY <1>1, <2>2, <2>3 DEF IInv, TypeOK
<1> QED
  BY <1>1, Invariance, PTL

LEMMA SixConfounds == IsFiniteSet(CONFOUNDS)
<1>1. IsFiniteSet({"C2", "C3"})
  <2>1. IsFiniteSet({"C2"}) /\ {"C2"} \cup {"C3"} = {"C2", "C3"}
    BY FS_Singleton
  <2> QED
    BY <2>1, FS_AddElement
<1>2. IsFiniteSet({"C2", "C3"} \cup {"C4"})
  BY <1>1, FS_AddElement
<1>3. IsFiniteSet({"C2", "C3"} \cup {"C4"} \cup {"C5"})
  BY <1>2, FS_AddElement
<1>4. IsFiniteSet({"C2", "C3"} \cup {"C4"} \cup {"C5"} \cup {"C6"})
  BY <1>3, FS_AddElement
<1>5. IsFiniteSet({"C2", "C3"} \cup {"C4"} \cup {"C5"} \cup {"C6"} \cup {"C7"})
  BY <1>4, FS_AddElement
<1>6. CONFOUNDS = {"C2", "C3"} \cup {"C4"} \cup {"C5"} \cup {"C6"} \cup {"C7"}
  BY DEF CONFOUNDS
<1> QED
  BY <1>5, <1>6

\* decompose.py:7-11: for every frame, "raw gap = explained + residual": what the six confounds
\* are credited with adds up to the raw gap less the gap of the full set.
THEOREM ValuesAddUp == Spec => []Efficiency
<1>1. ASSUME IInv PROVE Efficiency
  <2> SUFFICES ASSUME Decomposed
               PROVE  MapThenSumSet(LAMBDA c : shapley(lattice, c), CONFOUNDS)
                          = factorial[Cardinality(CONFOUNDS)] * (lattice[{}] - lattice[CONFOUNDS])
    BY DEF Efficiency
  <2> DEFINE C == CONFOUNDS
             f == [c \in C |-> shapley(lattice, c)]
  <2>1. lattice \in [SUBSET C -> Int]
    BY <1>1, InitialSized, LatticeTyped DEF IInv, Built, Decomposed
  <2>2. ASSUME NEW c \in C PROVE f[c] = ShapleyOf(C, lattice)[c]
    <3> DEFINE P == SUBSET (C \ {c})
               e(S) == factorial[Cardinality(S)] * factorial[Cardinality(C) - Cardinality(S) - 1]
                           * (lattice[S] - lattice[S \cup {c}])
               h == [S \in P |-> e(S)]
    <3>1. shapley(lattice, c) = MapThenSumSet(LAMBDA S : e(S), P)
      BY DEF shapley
    <3>2. ShapleyOf(C, lattice)[c] = Total(h, P)
      BY DEF ShapleyOf, Orders
    <3> HIDE DEF P, e, C
    <3>3. MapThenSumSet(LAMBDA S : e(S), P) = Total(h, P)
      BY DEF MapThenSumSet, MapThenFoldSet, Total, Folded, Table, Partial, Join
    <3> QED
      BY <2>2, <3>1, <3>2, <3>3
  <2>3. MapThenSumSet(LAMBDA c : shapley(lattice, c), C) = Total(f, C)
    <3> HIDE DEF C
    <3> QED
      BY DEF MapThenSumSet, MapThenFoldSet, Total, Folded, Table, Partial, Join
  <2> HIDE DEF f, C
  <2>4. Total(f, C) = Total(ShapleyOf(C, lattice), C)
    BY <2>2, TotalCongruent
  <2>5. IsFiniteSet(C)
    BY SixConfounds DEF C
  <2>6. Total(ShapleyOf(C, lattice), C) = factorial[Cardinality(C)] * (lattice[{}] - lattice[C])
    BY <2>1, <2>5, ShapleyEfficient
  <2> QED
    BY <2>3, <2>4, <2>6 DEF C
<1> QED
  BY <1>1, Invariance, PTL

\* support.py:7-9: for every frame, the raw gap at k = n is the hard-zero table.
THEOREM TailIsHardZero == Spec => []TailGapIsHardZero
<1>1. ASSUME IInv PROVE TailGapIsHardZero
  <2> SUFFICES ASSUME Decomposed, st.k_base = st.n
               PROVE  Cardinality(Axis(st)) * lattice[{}]
                          = (Cardinality(lost(st)) - Cardinality(expansion(st))) * Scale(st)
    BY DEF TailGapIsHardZero
  <2> DEFINE N == Cardinality(Axis(st))
             b == Cardinality(Reached(st, st.base))
             r == Cardinality(Reached(st, st.rl))
             F == factorial[st.n]
             w == factorial[N] \div N
  <2>1. Unweighted(st) /\ Sized(st) /\ lattice = G(st)
    BY <1>1, InitialUnweighted DEF IInv, Built, Decomposed, Unweighted
  <2>2. /\ Filled(st.base, Axis(st), st.n) /\ Filled(st.rl, Axis(st), st.n)
        /\ st.n \in Nat \ {0} /\ st.n \in 1..st.n /\ st.k_rl = st.n
    BY <2>1 DEF Sized, Unweighted
  <2>3. N \in Nat \ {0} /\ w \in Int /\ N * w = factorial[N]
    <3>1. N \in Nat \ {0}
      BY <2>1, FS_CardinalityType, FS_EmptySet DEF Sized
    <3> QED
      BY <3>1, ShareOfFactorial
  <2>4. lattice[{}] = gap(st)
    BY <2>1, NothingApplied DEF G
  <2>5. gap(st) = curve(st, st.base, st.n) * w - curve(st, st.rl, st.n) * w
    BY <2>1, <2>2, WeightedIsCurve DEF gap
  <2>6. /\ curve(st, st.base, st.n) = F * b /\ curve(st, st.rl, st.n) = F * r
        /\ b \in Nat /\ r \in Nat
    BY <2>1, <2>2, TailCurve
  <2>7. F \in Int /\ factorial[N] \in Int
    BY <2>2, <2>3, FactorialStep
  <2>8. Cardinality(lost(st)) - Cardinality(expansion(st)) = b - r
    BY <2>1, HardZeroBalance
  <2>9. Scale(st) = F * factorial[N]
    BY DEF Scale
  <2> HIDE DEF N, b, r, F, w
  <2>10. gap(st) = F * b * w - F * r * w
    BY <2>5, <2>6
  <2>11. N * (F * b * w - F * r * w) = (b - r) * (F * (N * w))
    BY <2>3, <2>6, <2>7
  <2> QED
    BY <2>3, <2>4, <2>8, <2>9, <2>10, <2>11 DEF N
<1> QED
  BY <1>1, Invariance, PTL

\* crossover.py:14-19: for every frame, where the curves reach n and the base is nowhere level
\* with the trained model, the hard-zero table has more problems gained than lost.
THEOREM AbsentMeansExpansion == Spec => []NoCrossoverIsExpansion
<1>1. ASSUME IInv PROVE NoCrossoverIsExpansion
  <2> SUFFICES ASSUME Decomposed, st.n \in usable_ks(st), caught_up(st) = {}
               PROVE  Cardinality(expansion(st)) > Cardinality(lost(st))
    BY DEF NoCrossoverIsExpansion
  <2> DEFINE b == Cardinality(Reached(st, st.base))
             r == Cardinality(Reached(st, st.rl))
             F == factorial[st.n]
  <2>1. Sized(st)
    BY <1>1, InitialSized DEF IInv, Built, Decomposed
  <2>2. /\ Filled(st.base, Axis(st), st.n) /\ Filled(st.rl, Axis(st), st.n)
        /\ st.n \in Nat \ {0}
    BY <2>1 DEF Sized
  <2>3. /\ curve(st, st.base, st.n) = F * b /\ curve(st, st.rl, st.n) = F * r
        /\ b \in Nat /\ r \in Nat
    BY <2>1, <2>2, TailCurve
  <2>4. ~ (F * b >= F * r)
    BY <2>3 DEF caught_up
  <2>5. F \in Nat \ {0}
    BY <2>2, FactorialStep
  <2>6. /\ Cardinality(lost(st)) - Cardinality(expansion(st)) = b - r
        /\ Cardinality(lost(st)) \in Nat /\ Cardinality(expansion(st)) \in Nat
    BY <2>1, HardZeroBalance
  <2> HIDE DEF b, r, F
  <2>7. b < r
    BY <2>3, <2>4, <2>5
  <2> QED
    BY <2>3, <2>6, <2>7
<1> QED
  BY <1>1, Invariance, PTL

\* decompose.py:172-186: for every frame and every draw, the replicate's gap is that of the
\* point estimate's problems weighed by how often each was drawn.
THEOREM BootstrapReweighs == Spec => []ReplicateReweighs
<1>1. ASSUME IInv PROVE ReplicateReweighs
  <2> DEFINE A == Axis(st)
             times == [p \in A |-> Cardinality({i \in A : draw[i] = p})]
             x == Resample(st, draw)
             y == [st EXCEPT !.weight = times]
  <2> SUFFICES ASSUME stage = "replicate", NEW S \in SUBSET {"C2", "C3", "C4", "C7"}
               PROVE  again[S] = gap(apply_set(y, S))
    BY DEF ReplicateReweighs
  <2>1. Unweighted(st) /\ Sized(st) /\ again = G(x) /\ draw \in [A -> A]
    BY <1>1, InitialUnweighted DEF IInv, Built, Unweighted
  <2>2. /\ x.weight = [i \in A |-> 1] /\ x.base = [i \in A |-> st.base[draw[i]]]
        /\ x.rl = [i \in A |-> st.rl[draw[i]]] /\ x.recent = [i \in A |-> st.recent[draw[i]]]
        /\ x.n = st.n /\ x.k_base = st.k_base /\ x.k_rl = st.k_rl
        /\ x = [f \in Fields |-> x[f]]
    BY <2>1 DEF Resample, Unweighted, Sized, Fields
  <2>3. /\ y.weight = times /\ y = [f \in Fields |-> y[f]]
        /\ \A f \in Fields \ {"weight"} : y[f] = st[f]
    BY <2>1 DEF Sized, Fields
  <2>4. \A p \in A : times[p] = Times(draw, A, p) /\ Times(draw, A, p) \in Nat
    BY <2>1, TimesTyped DEF Times, Sized
  <2> HIDE DEF x, y, times, A
  <2>5. Axis(x) = A /\ Axis(y) = A
    BY <2>2, <2>3 DEF Axis, times
  <2>6. Filled(x.base, A, st.n) /\ Filled(x.rl, A, st.n)
    <3>1. Filled(st.base, A, st.n) /\ Filled(st.rl, A, st.n)
      BY <2>1 DEF Sized, A
    <3> QED
      BY <2>1, <2>2, <3>1 DEF Filled
  <2>7. WeightsOK(x) /\ WeightsOK(y)
    BY <2>2, <2>3, <2>4, <2>5 DEF WeightsOK, times
  <2>8. Sized(x) /\ Sized(y)
    BY <2>1, <2>2, <2>3, <2>5, <2>6, <2>7 DEF Sized, Fields, A
  <2> DEFINE u == [p \in A |-> 1]
  <2>9. /\ u \in [A -> {0, 1}] /\ \A i \in A : x.weight[i] = u[draw[i]]
        /\ \A p \in A : y.weight[p] = u[p] * Times(draw, A, p)
    BY <2>1, <2>2, <2>3, <2>4
  <2> HIDE DEF u
  <2>10. /\ \A i \in A : /\ x.base[i] = y.base[draw[i]] /\ x.rl[i] = y.rl[draw[i]]
                          /\ x.recent[i] = y.recent[draw[i]]
         /\ x.n = y.n /\ x.k_base = y.k_base /\ x.k_rl = y.k_rl
    BY <2>2, <2>3 DEF Fields
  <2>11. Mirrors(x, y, draw)
    BY <2>1, <2>5, <2>8, <2>9, <2>10 DEF Mirrors
  <2>12. again[S] = gap(apply_set(x, S))
    BY <2>1 DEF G, CONFOUNDS
  <2> QED
    BY <2>11, <2>12, AppliedMirrors, GapMirrors
<1> QED
  BY <1>1, Invariance, PTL

\* passk.py:6-8, 43-46: at the n of the tensor and every larger one, the estimator is the share
\* of the k-subsets that have a correct sample, and the closed form agrees.
THEOREM EstimatesAreShares == Spec => []PassKIsSubsetShare
<1>1. ASSUME IInv PROVE PassKIsSubsetShare
  <2> SUFFICES ASSUME stage = "tensor",
                      NEW n \in st.n..KTop, NEW c \in 0..n, NEW k \in 1..n
               PROVE  /\ pass_at_k(n, c, k) * choose(n, k) = SubsetsWithCorrect(n, c, k) * factorial[n]
                      /\ pass_at_k(n, c, k) = pass_at_k_gammaln(n, c, k)
    BY DEF PassKIsSubsetShare
  <2>1. st.n \in Nat /\ KTop \in Nat
    BY <1>1, InitialSized, AnalysisAssumption DEF IInv, Built, Sized
  <2>2. n \in Nat
    BY <2>1
  <2> QED
    BY <2>2, EstimatorIsShare
<1> QED
  BY <1>1, Invariance, PTL
===============================================================================
