--------------------------- MODULE Extraction_proofs ---------------------------
(***************************************************************************)
(* Theorems about Extraction for completions and tails of every length:    *)
(* which boxes iter_boxed takes, what nesting and cutting off the head     *)
(* leave of the answer, and where it is recorded.                          *)
(***************************************************************************)
EXTENDS Extraction, SequenceTheorems, FiniteSetTheorems, WellFoundedInduction, TLAPS

\* The places of the braces in a text.
Opens(s) == {x \in Int : s[x] \in {Box, "{"}}
Closes(s) == {x \in Int : s[x] = "}"}

-----------------------------------------------------------------------------
(* Naturals, maxima and shifted sets *)

\* Every non-empty set of naturals has a least element.
LEMMA Least ==
    ASSUME NEW T, T \subseteq Nat, T # {}
    PROVE  \E x \in T : \A y \in T : x <= y
<1>1. IsWellFoundedOn(OpToRel(<, Nat), Nat)
    BY NatLessThanWellFounded
<1>2. PICK x \in T : \A y \in T : ~ (<<y, x>> \in OpToRel(<, Nat))
    BY <1>1, WFMin
<1>3. \A y \in T : ~ (y < x)
    BY <1>2 DEF OpToRel
<1> QED
    BY <1>3

\* A set of naturals with 0 and the successor of each of its members is all of them.
LEMMA CountingUp ==
    ASSUME NEW T, 0 \in T, \A n \in T \cap Nat : n + 1 \in T
    PROVE  Nat \subseteq T
<1> SUFFICES ASSUME Nat \ T # {} PROVE FALSE
    OBVIOUS
<1>1. PICK x \in Nat \ T : \A y \in Nat \ T : x <= y
    BY Least
<1>2. x - 1 \in Nat /\ x - 1 \in T
    BY <1>1
<1>3. x - 1 + 1 \in T
    BY <1>2
<1> QED
    BY <1>1, <1>3

\* Min is the least element.
LEMMA MinIs ==
    ASSUME NEW T, T \subseteq Nat, T # {}
    PROVE  Min(T) \in T /\ \A y \in T : Min(T) <= y
BY Least DEF Min

\* A non-empty finite set of naturals has a greatest element, and Max is it.
LEMMA MaxIs ==
    ASSUME NEW n \in Nat, NEW T \in SUBSET (0..n), T # {}
    PROVE  Max(T) \in T /\ \A y \in T : y <= Max(T)
<1> DEFINE R == {n - x : x \in T}
<1>1. R \subseteq Nat
    OBVIOUS
<1>0. R # {}
    <2>1. PICK x \in T : TRUE
        OBVIOUS
    <2>2. n - x \in R
        BY <2>1
    <2> QED
        BY <2>2
<1>2. PICK r \in R : \A y \in R : r <= y
    BY <1>0, <1>1, Least
<1>3. PICK x \in T : r = n - x
    BY <1>2
<1>4. ASSUME NEW y \in T PROVE y <= x
    <2>1. n - y \in R /\ x \in Int /\ y \in Int
        BY <1>3
    <2>2. n - x <= n - y
        BY <1>2, <1>3, <2>1
    <2> QED
        BY <2>1, <2>2
<1> QED
    BY <1>4 DEF Max

\* The greatest element is the only one.
LEMMA MaxUnique ==
    ASSUME NEW T, T \subseteq Int, NEW m \in T, \A y \in T : y <= m
    PROVE  Max(T) = m
<1>1. \E x \in T : \A y \in T : x >= y
    OBVIOUS
<1>2. Max(T) \in T /\ \A y \in T : Max(T) >= y
    BY <1>1 DEF Max
<1>3. m \in Int /\ Max(T) \in Int /\ m <= Max(T) /\ Max(T) <= m
    BY <1>2
<1> QED
    BY <1>3

\* So is the least.
LEMMA MinUnique ==
    ASSUME NEW T, T \subseteq Int, NEW m \in T, \A y \in T : m <= y
    PROVE  Min(T) = m
<1>1. \E x \in T : \A y \in T : x <= y
    OBVIOUS
<1>2. Min(T) \in T /\ \A y \in T : Min(T) <= y
    BY <1>1 DEF Min
<1>3. m \in Int /\ Min(T) \in Int /\ m <= Min(T) /\ Min(T) <= m
    BY <1>2
<1> QED
    BY <1>3

\* Moving a set along the integers keeps its size.
LEMMA Moved ==
    ASSUME NEW A, A \subseteq Int, IsFiniteSet(A), NEW d \in Int
    PROVE  IsFiniteSet({x + d : x \in A}) /\ Cardinality({x + d : x \in A}) = Cardinality(A)
<1> DEFINE B == {x + d : x \in A}
           f == [x \in A |-> x + d]
<1>1. f \in Bijection(A, B)
    <2>1. f \in [A -> B]
        OBVIOUS
    <2>2. \A x, y \in A : f[x] = f[y] => x = y
        OBVIOUS
    <2>3. \A z \in B : \E x \in A : f[x] = z
        OBVIOUS
    <2> HIDE DEF f, B
    <2> QED
        BY <2>1, <2>2, <2>3 DEF Bijection, Injection, Surjection, IsInjective, Range
<1>2. ExistsBijection(A, B)
    BY <1>1 DEF ExistsBijection
<1> QED
    BY <1>2, FS_Bijection

-----------------------------------------------------------------------------
(* Depth and the closing brace *)

\* How many places of a kind there are from i to j.
Count(A, i, j) == Cardinality((i..j) \cap A)

\* The places of a kind add up along the text.
LEMMA CountSplit ==
    ASSUME NEW A, NEW i \in Int, NEW m \in Int, NEW j \in Int, NEW k \in Int,
           j = m + 1, i <= j, m <= k
    PROVE  /\ Count(A, i, k) = Count(A, i, m) + Count(A, j, k)
           /\ Count(A, i, m) \in Nat /\ Count(A, j, k) \in Nat
<1> DEFINE B == (i..m) \cap A
           C == (j..k) \cap A
           D == (i..k) \cap A
<1>1. IsFiniteSet(i..m) /\ IsFiniteSet(j..k)
    BY FS_Interval
<1>2. IsFiniteSet(B) /\ IsFiniteSet(C)
    BY <1>1, FS_Subset
<1>3. D = B \cup C /\ B \cap C = {}
    OBVIOUS
<1> HIDE DEF B, C, D
<1>4. Cardinality(B \cap C) = 0
    BY <1>3, FS_EmptySet
<1>5. Cardinality(B \cup C) = Cardinality(B) + Cardinality(C) - Cardinality(B \cap C)
    BY <1>2, FS_Union
<1>6. Cardinality(B) \in Nat /\ Cardinality(C) \in Nat
    BY <1>2, FS_CardinalityType
<1>7. Cardinality(D) = Cardinality(B) + Cardinality(C)
    BY <1>3, <1>4, <1>5, <1>6
<1> QED
    BY <1>6, <1>7 DEF B, C, D, Count

\* No place holds both an opening and a closing brace.
LEMMA BracesDiffer == ASSUME NEW s PROVE Opens(s) \cap Closes(s) = {}
BY DEF Opens, Closes, Box

\* The depth is what has been opened less what has been closed.
LEMMA DepthCounts ==
    ASSUME NEW s, NEW i \in Int, NEW j \in Int
    PROVE  Depth(s, i, j) = Count(Opens(s), i, j) - Count(Closes(s), i, j)
<1>1. (i..j) \cap Opens(s) = {x \in i..j : s[x] \in {Box, "{"}}
    <2>1. i..j \subseteq Int
        OBVIOUS
    <2> QED
        BY <2>1 DEF Opens
<1>2. (i..j) \cap Closes(s) = {x \in i..j : s[x] = "}"}
    <2>1. i..j \subseteq Int
        OBVIOUS
    <2> QED
        BY <2>1 DEF Closes
<1> QED
    BY <1>1, <1>2 DEF Depth, Count

\* Depths add up along the text.
LEMMA DepthSplit ==
    ASSUME NEW s, NEW i \in Int, NEW m \in Int, NEW j \in Int, NEW k \in Int,
           j = m + 1, i <= j, m <= k
    PROVE  /\ Depth(s, i, k) \in Int /\ Depth(s, i, m) \in Int /\ Depth(s, j, k) \in Int
           /\ Depth(s, i, k) = Depth(s, i, m) + Depth(s, j, k)
<1> DEFINE U(a, b) == Count(Opens(s), a, b)
           D(a, b) == Count(Closes(s), a, b)
<1>1. U(i, k) = U(i, m) + U(j, k) /\ U(i, m) \in Nat /\ U(j, k) \in Nat
    BY CountSplit
<1>2. D(i, k) = D(i, m) + D(j, k) /\ D(i, m) \in Nat /\ D(j, k) \in Nat
    BY CountSplit
<1>3. /\ Depth(s, i, k) = U(i, k) - D(i, k) /\ Depth(s, j, k) = U(j, k) - D(j, k)
      /\ Depth(s, i, m) = U(i, m) - D(i, m)
    BY DepthCounts
<1> HIDE DEF U, D
<1> QED
    BY <1>1, <1>2, <1>3

\* What one symbol adds.
LEMMA DepthOne ==
    ASSUME NEW s, NEW j \in Int
    PROVE  /\ j \in Opens(s) => Depth(s, j, j) = 1
           /\ j \in Closes(s) => Depth(s, j, j) = -1
           /\ j \notin Opens(s) /\ j \notin Closes(s) => Depth(s, j, j) = 0
<1> DEFINE U == (j..j) \cap Opens(s)
           D == (j..j) \cap Closes(s)
<1>1. Depth(s, j, j) = Cardinality(U) - Cardinality(D)
    BY DepthCounts DEF Count
<1>2. j..j = {j}
    OBVIOUS
<1>3. /\ U = IF j \in Opens(s) THEN {j} ELSE {}
      /\ D = IF j \in Closes(s) THEN {j} ELSE {}
    BY <1>2
<1>4. Cardinality({j}) = 1 /\ Cardinality({}) = 0
    BY FS_Singleton, FS_EmptySet
<1>5. ~ (j \in Opens(s) /\ j \in Closes(s))
    BY BracesDiffer
<1> HIDE DEF U, D
<1> QED
    BY <1>1, <1>3, <1>4, <1>5

\* A group that is open keeps a positive depth until its first zero.
LEMMA StaysOpen ==
    ASSUME NEW s, NEW i \in Int, NEW n \in Int, i \in Opens(s),
           \A j \in i..n : Depth(s, i, j) # 0
    PROVE  \A j \in i..n : Depth(s, i, j) >= 1
<1> DEFINE T == {m \in Nat : i + m <= n => Depth(s, i, i + m) >= 1}
<1>1. 0 \in T
    <2>1. Depth(s, i, i) = 1 /\ i + 0 = i
        BY DepthOne
    <2> QED
        BY <2>1
<1>2. ASSUME NEW m \in T \cap Nat PROVE m + 1 \in T
    <2> SUFFICES ASSUME i + (m + 1) <= n PROVE Depth(s, i, i + (m + 1)) >= 1
        OBVIOUS
    <2> DEFINE j == i + (m + 1)
    <2>1. j \in Int /\ j - 1 = i + m /\ i <= j /\ j \in i..n
        OBVIOUS
    <2> HIDE DEF j
    <2>2. Depth(s, i, j - 1) >= 1
        BY <1>2, <2>1
    <2>3. /\ Depth(s, i, j) = Depth(s, i, j - 1) + Depth(s, j, j)
          /\ Depth(s, i, j) \in Int /\ Depth(s, i, j - 1) \in Int
        BY <2>1, DepthSplit
    <2>4. Depth(s, j, j) \in {-1, 0, 1}
        BY <2>1, DepthOne
    <2>5. Depth(s, i, j) >= 1
        BY <2>1, <2>2, <2>3, <2>4
    <2> QED
        BY <2>5 DEF j
<1>3. Nat \subseteq T
    BY <1>1, <1>2, CountingUp
<1> SUFFICES ASSUME NEW j \in i..n PROVE Depth(s, i, j) >= 1
    OBVIOUS
<1>4. j - i \in T /\ i + (j - i) = j
    BY <1>3
<1> QED
    BY <1>4

\* Close is the first place where the depth is zero again.
LEMMA CloseIs ==
    ASSUME NEW s, Len(s) \in Nat, NEW i \in Nat \ {0}
    PROVE  /\ (\A j \in i..Len(s) : Depth(s, i, j) # 0) => Close(s, i) = 0
           /\ Close(s, i) = 0 => \A j \in i..Len(s) : Depth(s, i, j) # 0
           /\ \A j \in i..Len(s) :
                Depth(s, i, j) = 0 /\ (\A h \in i..(j - 1) : Depth(s, i, h) # 0) => Close(s, i) = j
           /\ Close(s, i) # 0 => /\ Close(s, i) \in i..Len(s) /\ Depth(s, i, Close(s, i)) = 0
                                 /\ \A h \in i..(Close(s, i) - 1) : Depth(s, i, h) # 0
<1> DEFINE ends == {j \in i..Len(s) : Depth(s, i, j) = 0}
<1>1. Close(s, i) = IF ends = {} THEN 0 ELSE Min(ends)
    BY DEF Close
<1>2. ends \subseteq Nat /\ 0 \notin ends /\ ends \subseteq Int
    OBVIOUS
<1>3. ASSUME ends # {} PROVE Min(ends) \in ends /\ \A y \in ends : Min(ends) <= y
    <2> HIDE DEF ends
    <2> QED
        BY <1>2, <1>3, MinIs
<1>4. ASSUME NEW j \in i..Len(s), Depth(s, i, j) = 0, \A h \in i..(j - 1) : Depth(s, i, h) # 0
      PROVE  Close(s, i) = j
    <2>1. j \in ends /\ \A y \in ends : j <= y
        BY <1>4
    <2> QED
        BY <1>1, <1>3, <2>1
<1>5. ASSUME Close(s, i) # 0
      PROVE  /\ Close(s, i) \in i..Len(s) /\ Depth(s, i, Close(s, i)) = 0
             /\ \A h \in i..(Close(s, i) - 1) : Depth(s, i, h) # 0
    <2>1. Close(s, i) \in ends /\ \A y \in ends : Close(s, i) <= y
        BY <1>1, <1>3, <1>5
    <2> QED
        BY <2>1
<1>6. ends # {} => Close(s, i) # 0
    BY <1>1, <1>2, <1>3
<1> QED
    BY <1>1, <1>4, <1>5, <1>6

\* A closed group ends behind its opener, at a closing brace, and is open in between; one
\* that is not closed is open to the end.
LEMMA Group ==
    ASSUME NEW s, Len(s) \in Nat, NEW i \in 1..Len(s), i \in Opens(s)
    PROVE  /\ Close(s, i) # 0 =>
                /\ Close(s, i) \in (i + 1)..Len(s) /\ Close(s, i) \in Closes(s)
                /\ Depth(s, i, Close(s, i)) = 0
                /\ \A j \in i..(Close(s, i) - 1) : Depth(s, i, j) >= 1
           /\ Close(s, i) = 0 => \A j \in i..Len(s) : Depth(s, i, j) >= 1
<1>1. Depth(s, i, i) = 1
    BY DepthOne
<1>2. ASSUME Close(s, i) # 0
      PROVE  /\ Close(s, i) \in (i + 1)..Len(s) /\ Close(s, i) \in Closes(s)
             /\ Depth(s, i, Close(s, i)) = 0
             /\ \A j \in i..(Close(s, i) - 1) : Depth(s, i, j) >= 1
    <2> DEFINE c == Close(s, i)
    <2>1. c \in i..Len(s) /\ Depth(s, i, c) = 0 /\ \A h \in i..(c - 1) : Depth(s, i, h) # 0
        BY <1>2, CloseIs
    <2> HIDE DEF c
    <2>2. c \in (i + 1)..Len(s)
        BY <1>1, <2>1
    <2>3. \A j \in i..(c - 1) : Depth(s, i, j) >= 1
        BY <2>1, StaysOpen
    <2> DEFINE m == c - 1
    <2>7. m \in Int /\ c \in Int /\ c = m + 1 /\ i <= c /\ m <= c /\ m \in i..(c - 1)
        BY <2>2
    <2>5. Depth(s, i, m) >= 1
        BY <2>3, <2>7
    <2> HIDE DEF m
    <2>4. Depth(s, i, c) = Depth(s, i, m) + Depth(s, c, c) /\ Depth(s, i, m) \in Int
        BY <2>7, DepthSplit
    <2>6. c \in Closes(s)
        BY <2>1, <2>4, <2>5, DepthOne
    <2> QED
        BY <2>1, <2>2, <2>3, <2>6 DEF c
<1>3. ASSUME Close(s, i) = 0 PROVE \A j \in i..Len(s) : Depth(s, i, j) >= 1
    BY <1>3, CloseIs, StaysOpen
<1> QED
    BY <1>2, <1>3

\* Groups nest: what is opened inside a group and is closed is closed before it, and what
\* is not closed keeps the outer one open.
LEMMA Nesting ==
    ASSUME NEW s, Len(s) \in Nat, NEW g \in 1..Len(s), NEW h \in 1..Len(s), g < h,
           g \in Opens(s), h \in Opens(s), Close(s, g) >= h
    PROVE  Close(s, h) # 0 /\ Close(s, h) < Close(s, g)
<1> DEFINE c == Close(s, g)
<1>1. c \in (g + 1)..Len(s) /\ c \in Closes(s) /\ Depth(s, g, c) = 0
      /\ \A j \in g..(c - 1) : Depth(s, g, j) >= 1
    BY Group
<1> HIDE DEF c
<1>2. c # h
    BY <1>1, BracesDiffer
<1> DEFINE m == h - 1
<1>3. /\ m \in g..(c - 1) /\ Depth(s, g, m) >= 1
      /\ m \in Int /\ c \in Int /\ h = m + 1 /\ g <= h /\ m <= c /\ g \in Int /\ h \in Int
    BY <1>1, <1>2 DEF c
<1> HIDE DEF m
<1>4. /\ Depth(s, g, c) = Depth(s, g, m) + Depth(s, h, c)
      /\ Depth(s, g, m) \in Int /\ Depth(s, h, c) \in Int
    <2>1. m \in Int /\ c \in Int /\ h = m + 1 /\ g <= h /\ m <= c /\ g \in Int /\ h \in Int
        BY <1>3
    <2>2. Depth(s, g, c) = Depth(s, g, m) + Depth(s, h, c)
        BY <2>1, DepthSplit
    <2>3. Depth(s, g, m) \in Int
        BY <2>1, DepthSplit
    <2>4. Depth(s, h, c) \in Int
        BY <2>1, DepthSplit
    <2> QED
        BY <2>2, <2>3, <2>4
<1>5. Depth(s, h, c) < 0
    BY <1>1, <1>3, <1>4
<1>9. c \in h..Len(s)
    BY <1>1, <1>2 DEF c
<1>6. Close(s, h) # 0
    <2>1. ~ (Depth(s, h, c) >= 1)
        BY <1>4, <1>5
    <2> QED
        BY <1>9, <2>1, Group
<1>7. Close(s, h) <= c
    <2>1. ~ (Depth(s, h, c) >= 1)
        BY <1>4, <1>5
    <2>2. Close(s, h) \in Int /\ \A j \in h..(Close(s, h) - 1) : Depth(s, h, j) >= 1
        BY <1>6, Group
    <2> QED
        BY <1>9, <2>1, <2>2
<1>8. Depth(s, h, Close(s, h)) = 0 /\ Close(s, h) \in Int
    BY <1>6, Group
<1> QED
    BY <1>5, <1>6, <1>7, <1>8, <1>1 DEF c

-----------------------------------------------------------------------------
(* Outermost boxes *)

\* The places of the boxes of a text that are closed, and of those in no other such box.
Closed(s) == {i \in 1..Len(s) : s[i] = Box /\ Close(s, i) # 0}
Outer(s) == {i \in Closed(s) : \A j \in Closed(s) : j < i => Close(s, j) < i}

\* Where a closed box stands and where it ends.
LEMMA ClosedBox ==
    ASSUME NEW s, Len(s) \in Nat, NEW i \in Closed(s)
    PROVE  /\ i \in 1..Len(s) /\ i \in Opens(s) /\ i \in Nat /\ s[i] = Box
           /\ Close(s, i) # 0 /\ Close(s, i) \in (i + 1)..Len(s) /\ Close(s, i) \in Nat
<1>1. i \in 1..Len(s) /\ s[i] = Box /\ Close(s, i) # 0
    BY DEF Closed
<1>2. i \in Opens(s)
    <2>1. i \in Int /\ s[i] \in {Box, "{"}
        BY <1>1
    <2> QED
        BY <2>1 DEF Opens
<1>3. Close(s, i) \in (i + 1)..Len(s)
    BY <1>1, <1>2, Group
<1> QED
    BY <1>1, <1>2, <1>3

\* Every closed box is one of the outermost boxes or in one of them.
LEMMA OuterCovers ==
    ASSUME NEW s, Len(s) \in Nat, NEW i \in Closed(s)
    PROVE  \E g \in Outer(s) : g <= i /\ i <= Close(s, g)
<1> DEFINE T == {g \in Closed(s) : g <= i /\ i <= Close(s, g)}
<1>1. T \subseteq Nat /\ i \in T
    BY ClosedBox
<1>2. PICK g \in T : \A h \in T : g <= h
    BY <1>1, Least
<1>3. ASSUME NEW h \in Closed(s), h < g, ~ (Close(s, h) < g) PROVE FALSE
    <2>1. /\ h \in 1..Len(s) /\ g \in 1..Len(s) /\ h \in Opens(s) /\ g \in Opens(s)
          /\ Close(s, h) \in Nat /\ Close(s, g) \in Nat /\ i \in Nat
        BY <1>2, ClosedBox
    <2>2. Close(s, h) >= g
        BY <1>3, <2>1
    <2>3. Close(s, g) < Close(s, h)
        BY <1>3, <2>1, <2>2, Nesting
    <2>4. h \in T
        BY <1>2, <1>3, <2>1, <2>3
    <2> QED
        BY <1>2, <1>3, <2>1, <2>4
<1>4. g \in Outer(s)
    BY <1>2, <1>3 DEF Outer
<1> QED
    BY <1>2, <1>4

\* A closed box is an outermost one if and only if those before it end before it.
LEMMA OuterIff ==
    ASSUME NEW s, Len(s) \in Nat, NEW i \in Closed(s)
    PROVE  i \in Outer(s) <=> \A g \in Outer(s) : g < i => Close(s, g) < i
<1>1. i \in Outer(s) => \A g \in Outer(s) : g < i => Close(s, g) < i
    BY DEF Outer
<1>2. ASSUME \A g \in Outer(s) : g < i => Close(s, g) < i PROVE i \in Outer(s)
    <2>1. PICK g \in Outer(s) : g <= i /\ i <= Close(s, g)
        BY OuterCovers
    <2>2. g \in Nat /\ i \in Nat /\ Close(s, g) \in Nat
        BY ClosedBox DEF Outer
    <2>3. g = i
        BY <1>2, <2>1, <2>2
    <2> QED
        BY <2>1, <2>3
<1> QED
    BY <1>1, <1>2

-----------------------------------------------------------------------------
(* The scan of iter_boxed *)

\* A step of the fold, and where it begins.
Take(s, found, i) ==
    IF s[i] = Box /\ i >= found.consumed_to /\ Close(s, i) # 0
    THEN [out |-> Append(found.out, Content(s, i)), consumed_to |-> Close(s, i) + 1]
    ELSE found

Start == [out |-> <<>>, consumed_to |-> 0]
Places(s) == [i \in 1..Len(s) |-> i]

\* The table of the folds of all sets of places, and one more step of it.
ScanOf(s, S, it) ==
    IF S = {} THEN Start ELSE LET x == Max(S) IN Take(s, it[S \ {x}], Places(s)[x])
ScanTable(s) == CHOOSE it : it = [S \in SUBSET DOMAIN Places(s) |-> ScanOf(s, S, it)]

\* iter_boxed is the last entry of the table of its fold.
LEMMA ScanIs == \A s : iter_boxed(s) = ScanTable(s)[DOMAIN Places(s)].out
BY DEF iter_boxed, FoldLeft, MapThenFoldSet, ScanTable, ScanOf, Take, Start, Places

\* The table exists: by induction on the size of the sets it covers.
LEMMA ScanExists ==
    ASSUME NEW s, Len(s) \in Nat
    PROVE  ScanTable(s) = [S \in SUBSET DOMAIN Places(s) |-> ScanOf(s, S, ScanTable(s))]
<1> DEFINE D == DOMAIN Places(s)
           Small(n) == {S \in SUBSET D : Cardinality(S) <= n}
           N == {n \in Nat : \E it : it = [S \in Small(n) |-> ScanOf(s, S, it)]}
<1>0. D = 1..Len(s) /\ IsFiniteSet(D)
    BY FS_Interval DEF Places
<1>1. ASSUME NEW S \in SUBSET D PROVE IsFiniteSet(S) /\ Cardinality(S) \in Nat
    BY <1>0, FS_Subset, FS_CardinalityType
<1>2. ASSUME NEW S \in SUBSET D, S # {}
      PROVE  Max(S) \in S /\ Cardinality(S \ {Max(S)}) = Cardinality(S) - 1
    <2>1. S \in SUBSET (0..Len(s))
        BY <1>0
    <2>2. Max(S) \in S
        BY <1>2, <2>1, MaxIs
    <2> QED
        BY <1>1, <2>2, FS_RemoveElement
<1>3. 0 \in N
    <2>1. \A S \in Small(0) : S = {}
        BY <1>1, FS_EmptySet
    <2> DEFINE it == [S \in Small(0) |-> Start]
    <2>2. it = [S \in Small(0) |-> ScanOf(s, S, it)]
        BY <2>1 DEF ScanOf
    <2> HIDE DEF it
    <2> QED
        BY <2>2
<1>4. ASSUME NEW n \in N \cap Nat PROVE n + 1 \in N
    <2>1. PICK it : it = [S \in Small(n) |-> ScanOf(s, S, it)]
        BY <1>4
    <2> DEFINE new == [S \in Small(n + 1) |-> ScanOf(s, S, it)]
    <2>2. ASSUME NEW S \in Small(n + 1) PROVE ScanOf(s, S, it) = ScanOf(s, S, new)
        <3>1. CASE S = {}
            BY <3>1 DEF ScanOf
        <3>2. CASE S # {}
            <4> DEFINE x == Max(S)
            <4>1. S \ {x} \in Small(n) /\ S \ {x} \in Small(n + 1)
                BY <1>1, <1>2, <3>2
            <4>2. it[S \ {x}] = new[S \ {x}]
                <5>1. it[S \ {x}] = ScanOf(s, S \ {x}, it)
                    BY <2>1, <4>1
                <5> QED
                    BY <4>1, <5>1
            <4> QED
                BY <3>2, <4>2 DEF ScanOf
        <3> QED
            BY <3>1, <3>2
    <2>3. new = [S \in Small(n + 1) |-> ScanOf(s, S, it)]
        OBVIOUS
    <2> HIDE DEF new
    <2>4. new = [S \in Small(n + 1) |-> ScanOf(s, S, new)]
        BY <2>2, <2>3
    <2>5. n + 1 \in Nat
        OBVIOUS
    <2> QED
        BY <2>4, <2>5
<1>5. Cardinality(D) \in N
    BY <1>1, <1>3, <1>4, CountingUp
<1>6. Small(Cardinality(D)) = SUBSET D
    BY <1>0, <1>1, FS_Subset
<1>7. \E it : it = [S \in SUBSET D |-> ScanOf(s, S, it)]
    <2>1. PICK it : it = [S \in Small(Cardinality(D)) |-> ScanOf(s, S, it)]
        BY <1>5
    <2> QED
        BY <1>6, <2>1
<1> QED
    BY <1>7 DEF ScanTable

\* What the scan has found up to a place.
Scan(s, k) == ScanTable(s)[1..k]

\* After one more place the scan has taken one more step.
LEMMA ScanUnfold ==
    ASSUME NEW s, Len(s) \in Nat
    PROVE  /\ iter_boxed(s) = Scan(s, Len(s)).out
           /\ Scan(s, 0) = Start
           /\ \A k \in 1..Len(s) : Scan(s, k) = Take(s, Scan(s, k - 1), k)
<1>1. DOMAIN Places(s) = 1..Len(s) /\ \A k \in 1..Len(s) : Places(s)[k] = k
    BY DEF Places
<1>2. iter_boxed(s) = Scan(s, Len(s)).out
    BY <1>1, ScanIs DEF Scan
<1>3. \A S \in SUBSET (1..Len(s)) : ScanTable(s)[S] = ScanOf(s, S, ScanTable(s))
    <2> DEFINE D == DOMAIN Places(s)
    <2>1. ScanTable(s) = [S \in SUBSET D |-> ScanOf(s, S, ScanTable(s))]
        BY ScanExists
    <2>2. D = 1..Len(s)
        BY <1>1
    <2> HIDE DEF D
    <2>3. \A S \in SUBSET D : ScanTable(s)[S] = ScanOf(s, S, ScanTable(s))
        <3> DEFINE val(S) == ScanOf(s, S, ScanTable(s))
        <3>1. ScanTable(s) = [S \in SUBSET D |-> val(S)]
            BY <2>1
        <3> HIDE DEF val
        <3>2. \A S \in SUBSET D : ScanTable(s)[S] = val(S)
            BY <3>1
        <3> QED
            BY <3>2 DEF val
    <2> QED
        BY <2>2, <2>3
<1>4. Scan(s, 0) = Start
    <2>1. 1..0 = {}
        OBVIOUS
    <2>2. {} \in SUBSET (1..Len(s))
        OBVIOUS
    <2> QED
        BY <1>3, <2>1, <2>2 DEF Scan, ScanOf
<1>5. ASSUME NEW k \in 1..Len(s) PROVE Scan(s, k) = Take(s, Scan(s, k - 1), k)
    <2>1. 1..k \in SUBSET (1..Len(s)) /\ 1..k # {} /\ (1..k) \ {k} = 1..(k - 1)
        <3>1. k \in Int /\ 1 <= k /\ k <= Len(s)
            OBVIOUS
        <3>2. 1..k \subseteq 1..Len(s)
            BY <3>1
        <3>3. 1 \in 1..k
            BY <3>1
        <3>4. (1..k) \ {k} = 1..(k - 1)
            BY <3>1
        <3> QED
            BY <3>2, <3>3, <3>4
    <2>2. Max(1..k) = k
        <3>1. 1..k \subseteq Int /\ k \in 1..k /\ \A y \in 1..k : y <= k
            OBVIOUS
        <3> QED
            BY <3>1, MaxUnique
    <2>3. ScanTable(s)[1..k] = ScanOf(s, 1..k, ScanTable(s))
        BY <1>3, <2>1
    <2> QED
        BY <1>1, <2>1, <2>2, <2>3 DEF Scan, ScanOf
<1> QED
    BY <1>2, <1>4, <1>5

\* The outermost boxes up to a place; their number is the rank of the last of them.
UpTo(s, k) == {i \in Outer(s) : i <= k}

\* Outermost boxes are places of the text.
LEMMA OuterPlaces ==
    ASSUME NEW s, Len(s) \in Nat, NEW i \in Outer(s)
    PROVE  i \in 1..Len(s) /\ i \in Nat /\ 1 <= i /\ i <= Len(s)
BY DEF Outer, Closed

\* There are finitely many of them.
LEMMA UpToFinite ==
    ASSUME NEW s, Len(s) \in Nat, NEW k
    PROVE  /\ IsFiniteSet(Outer(s)) /\ IsFiniteSet(UpTo(s, k))
           /\ Cardinality(UpTo(s, k)) \in Nat
<1>1. Outer(s) \subseteq 1..Len(s)
    BY OuterPlaces
<1>2. IsFiniteSet(1..Len(s))
    BY FS_Interval
<1>3. IsFiniteSet(Outer(s))
    BY <1>1, <1>2, FS_Subset
<1>4. IsFiniteSet(UpTo(s, k))
    BY <1>3, FS_Subset DEF UpTo
<1> QED
    BY <1>3, <1>4, FS_CardinalityType

\* Up to a place the scan has the contents of the outermost boxes there, by rank, and goes
\* on behind the last of them.
ScannedTo(s, k) ==
    /\ Scan(s, k).out \in Seq({Content(s, i) : i \in 1..Len(s)})
    /\ Len(Scan(s, k).out) = Cardinality(UpTo(s, k))
    /\ \A i \in UpTo(s, k) : Scan(s, k).out[Cardinality(UpTo(s, i))] = Content(s, i)
    /\ Scan(s, k).consumed_to \in Nat
    /\ \A g \in UpTo(s, k) : Close(s, g) < Scan(s, k).consumed_to
    /\ \/ Scan(s, k).consumed_to = 0
       \/ \E g \in UpTo(s, k) : Scan(s, k).consumed_to = Close(s, g) + 1

\* Before the first place nothing is taken.
LEMMA ScannedStart == ASSUME NEW s, Len(s) \in Nat PROVE ScannedTo(s, 0)
<1>1. UpTo(s, 0) = {}
    BY OuterPlaces DEF UpTo
<1>2. Scan(s, 0) = [out |-> <<>>, consumed_to |-> 0]
    BY ScanUnfold DEF Start
<1>3. Cardinality(UpTo(s, 0)) = 0
    BY <1>1, FS_EmptySet
<1> DEFINE C == {Content(s, i) : i \in 1..Len(s)}
<1>4. Scan(s, 0).out \in Seq(C) /\ Len(Scan(s, 0).out) = 0 /\ Scan(s, 0).consumed_to = 0
    <2> HIDE DEF C
    <2>1. Scan(s, 0).out = <<>> /\ Scan(s, 0).consumed_to = 0
        BY <1>2
    <2> QED
        BY <2>1, EmptySeq
<1> QED
    BY <1>1, <1>3, <1>4 DEF ScannedTo

\* An outermost box is taken: those before it have ended.
LEMMA ScanTakes ==
    ASSUME NEW s, Len(s) \in Nat, NEW k \in 1..Len(s), NEW h \in Nat, k = h + 1,
           ScannedTo(s, h), k \in Outer(s)
    PROVE  ScannedTo(s, k)
<1> DEFINE C == {Content(s, i) : i \in 1..Len(s)}
           seq == Scan(s, h).out
<1>1. k \in Closed(s) /\ k \in Nat /\ s[k] = Box /\ Close(s, k) # 0 /\ Close(s, k) \in Nat
    BY ClosedBox DEF Outer
<1>2. \A g \in UpTo(s, h) : g < k /\ g \in Outer(s)
    BY OuterPlaces DEF UpTo
<1>3. \A g \in UpTo(s, h) : Close(s, g) < k /\ Close(s, g) \in Nat
    BY <1>1, <1>2, ClosedBox DEF Outer
<1>4. k >= Scan(s, h).consumed_to
    BY <1>1, <1>3 DEF ScannedTo
<1>5. Scan(s, k) = [out |-> Append(seq, Content(s, k)), consumed_to |-> Close(s, k) + 1]
    <2>1. Scan(s, k) = Take(s, Scan(s, h), k)
        <3>1. k - 1 = h
            OBVIOUS
        <3> QED
            BY <3>1, ScanUnfold
    <2> QED
        BY <1>1, <1>4, <2>1 DEF Take
<1>6. UpTo(s, k) = UpTo(s, h) \cup {k} /\ k \notin UpTo(s, h)
    <2>1. \A i \in Outer(s) : i <= k <=> i <= h \/ i = k
        BY OuterPlaces
    <2>2. ~ (k <= h)
        OBVIOUS
    <2> QED
        BY <2>1, <2>2 DEF UpTo
<1>7. Cardinality(UpTo(s, k)) = Cardinality(UpTo(s, h)) + 1 /\ Cardinality(UpTo(s, h)) \in Nat
    BY <1>6, UpToFinite, FS_AddElement
<1>8. seq \in Seq(C) /\ Len(seq) = Cardinality(UpTo(s, h)) /\ Content(s, k) \in C
    BY DEF ScannedTo
<1> HIDE DEF C, seq
<1>9. /\ Append(seq, Content(s, k)) \in Seq(C)
      /\ Len(Append(seq, Content(s, k))) = Len(seq) + 1
      /\ \A i \in 1..Len(seq) : Append(seq, Content(s, k))[i] = seq[i]
      /\ Append(seq, Content(s, k))[Len(seq) + 1] = Content(s, k)
    BY <1>8, AppendProperties
<1>10. ASSUME NEW i \in UpTo(s, k)
       PROVE  Append(seq, Content(s, k))[Cardinality(UpTo(s, i))] = Content(s, i)
    <2>1. CASE i = k
        BY <1>7, <1>8, <1>9, <2>1
    <2>2. CASE i \in UpTo(s, h)
        <3>1. i \in Outer(s) /\ i \in 1..Len(s) /\ i <= h
            BY <2>2, OuterPlaces DEF UpTo
        <3>2. UpTo(s, i) \subseteq UpTo(s, h) /\ i \in UpTo(s, i)
            <4>1. \A j \in Outer(s) : j <= i => j <= h
                BY <3>1, OuterPlaces
            <4>2. i <= i
                BY <3>1
            <4>3. UpTo(s, i) \subseteq UpTo(s, h)
                BY <4>1 DEF UpTo
            <4>4. i \in UpTo(s, i)
                BY <3>1, <4>2 DEF UpTo
            <4> QED
                BY <4>3, <4>4
        <3>3. Cardinality(UpTo(s, i)) <= Cardinality(UpTo(s, h)) /\ Cardinality(UpTo(s, i)) \in Nat
            BY <3>1, <3>2, UpToFinite, FS_Subset
        <3>4. Cardinality(UpTo(s, i)) # 0
            BY <3>1, <3>2, UpToFinite, FS_EmptySet
        <3>5. Cardinality(UpTo(s, i)) \in 1..Len(seq)
            BY <1>7, <1>8, <3>3, <3>4
        <3>6. seq[Cardinality(UpTo(s, i))] = Content(s, i)
            BY <2>2 DEF ScannedTo, seq
        <3> QED
            BY <1>9, <3>5, <3>6
    <2> QED
        BY <1>6, <2>1, <2>2
<1>11. \A g \in UpTo(s, k) : Close(s, g) < Close(s, k) + 1
    <2>1. Close(s, k) > k
        BY <1>1, ClosedBox
    <2> QED
        BY <1>1, <1>3, <1>6, <2>1
<1>12. k \in UpTo(s, k)
    BY <1>6
<1>13. Scan(s, k).out = Append(seq, Content(s, k)) /\ Scan(s, k).consumed_to = Close(s, k) + 1
    BY <1>5
<1>14. Scan(s, k).out \in Seq(C) /\ Len(Scan(s, k).out) = Cardinality(UpTo(s, k))
    BY <1>7, <1>8, <1>9, <1>13
<1>15. \A i \in UpTo(s, k) : Scan(s, k).out[Cardinality(UpTo(s, i))] = Content(s, i)
    BY <1>10, <1>13
<1>16. \A g \in UpTo(s, k) : Close(s, g) < Scan(s, k).consumed_to
    BY <1>11, <1>13
<1>17. /\ Scan(s, k).consumed_to \in Nat
       /\ \E g \in UpTo(s, k) : Scan(s, k).consumed_to = Close(s, g) + 1
    BY <1>1, <1>12, <1>13
<1> QED
    BY <1>14, <1>15, <1>16, <1>17 DEF ScannedTo, C

\* Nothing else is taken.
LEMMA ScanPasses ==
    ASSUME NEW s, Len(s) \in Nat, NEW k \in 1..Len(s), NEW h \in Nat, k = h + 1,
           ScannedTo(s, h), k \notin Outer(s)
    PROVE  ScannedTo(s, k)
<1>1. Scan(s, k) = Take(s, Scan(s, h), k)
    <2>1. k - 1 = h
        OBVIOUS
    <2> QED
        BY <2>1, ScanUnfold
<1>2. UpTo(s, k) = UpTo(s, h)
    <2>1. \A i \in Outer(s) : i <= k <=> i <= h
        BY OuterPlaces
    <2> QED
        BY <2>1 DEF UpTo
<1>3. ~ (s[k] = Box /\ k >= Scan(s, h).consumed_to /\ Close(s, k) # 0)
    <2> SUFFICES ASSUME s[k] = Box, Close(s, k) # 0 PROVE k < Scan(s, h).consumed_to
        BY DEF ScannedTo
    <2>1. k \in Closed(s)
        BY DEF Closed
    <2>2. PICK g \in Outer(s) : g < k /\ ~ (Close(s, g) < k)
        BY <2>1, OuterIff
    <2>3. g \in Nat /\ Close(s, g) \in Nat /\ g \in UpTo(s, h)
        BY <2>2, ClosedBox DEF Outer, UpTo
    <2>4. Close(s, g) < Scan(s, h).consumed_to /\ Scan(s, h).consumed_to \in Nat
        BY <2>3 DEF ScannedTo
    <2> QED
        BY <2>2, <2>3, <2>4
<1>4. Scan(s, k) = Scan(s, h)
    BY <1>1, <1>3 DEF Take
<1> QED
    BY <1>2, <1>4 DEF ScannedTo

\* iter_boxed gives the contents of the outermost boxes in order.
LEMMA BoxesTaken ==
    ASSUME NEW s, Len(s) \in Nat
    PROVE  /\ iter_boxed(s) \in Seq({Content(s, i) : i \in 1..Len(s)})
           /\ Len(iter_boxed(s)) = Cardinality(Outer(s))
           /\ \A i \in Outer(s) : iter_boxed(s)[Cardinality(UpTo(s, i))] = Content(s, i)
<1> DEFINE N == {k \in Nat : k <= Len(s) => ScannedTo(s, k)}
<1>1. 0 \in N
    BY ScannedStart
<1>2. ASSUME NEW h \in N \cap Nat PROVE h + 1 \in N
    <2> DEFINE k == h + 1
    <2>1. k \in Nat /\ k = h + 1
        OBVIOUS
    <2> HIDE DEF k
    <2>2. k <= Len(s) => k \in 1..Len(s) /\ h \in Nat /\ ScannedTo(s, h)
        BY <2>1
    <2>3. k <= Len(s) => ScannedTo(s, k)
        BY <2>1, <2>2, ScanTakes, ScanPasses
    <2> QED
        BY <2>1, <2>3 DEF k
<1>3. Len(s) \in N
    BY <1>1, <1>2, CountingUp
<1>4. UpTo(s, Len(s)) = Outer(s)
    BY OuterPlaces DEF UpTo
<1>5. iter_boxed(s) = Scan(s, Len(s)).out
    BY ScanUnfold
<1> QED
    BY <1>3, <1>4, <1>5 DEF ScannedTo

\* The last box is that of the last place; without a box there is no answer.
LEMMA LastBox ==
    ASSUME NEW s, Len(s) \in Nat
    PROVE  /\ Outer(s) = {} => iter_boxed(s) = <<>> /\ boxed_last(s) = <<>>
           /\ Outer(s) # {} =>
                /\ Max(Outer(s)) \in Outer(s) /\ \A g \in Outer(s) : g <= Max(Outer(s))
                /\ boxed_last(s) = unwrap_nested(Content(s, Max(Outer(s))))
<1> DEFINE C == {Content(s, i) : i \in 1..Len(s)}
           boxes == iter_boxed(s)
<1>1. boxes \in Seq(C) /\ Len(boxes) = Cardinality(Outer(s)) /\ IsFiniteSet(Outer(s))
    BY BoxesTaken, UpToFinite
<1>2. boxed_last(s) = IF boxes = <<>> THEN <<>> ELSE unwrap_nested(boxes[Len(boxes)])
    BY DEF boxed_last, Last
<1>3. ASSUME Outer(s) = {} PROVE boxes = <<>>
    <2>1. Len(boxes) = 0
        BY <1>1, <1>3, FS_EmptySet
    <2> HIDE DEF C, boxes
    <2> QED
        BY <1>1, <2>1, EmptySeq
<1>4. ASSUME Outer(s) # {}
      PROVE  /\ Max(Outer(s)) \in Outer(s) /\ \A g \in Outer(s) : g <= Max(Outer(s))
             /\ boxed_last(s) = unwrap_nested(Content(s, Max(Outer(s))))
    <2> DEFINE m == Max(Outer(s))
    <2>1. Outer(s) \in SUBSET (0..Len(s))
        BY OuterPlaces
    <2>2. m \in Outer(s) /\ \A g \in Outer(s) : g <= m
        BY <1>4, <2>1, MaxIs
    <2> HIDE DEF m
    <2>3. UpTo(s, m) = Outer(s)
        BY <2>2 DEF UpTo
    <2>4. boxes[Cardinality(UpTo(s, m))] = Content(s, m)
        BY <2>2, BoxesTaken
    <2>5. boxes # <<>>
        <3>1. Len(boxes) # 0
            BY <1>1, <1>4, FS_EmptySet
        <3> HIDE DEF boxes
        <3> QED
            BY <3>1, EmptySeq
    <2> HIDE DEF boxes
    <2> QED
        BY <1>1, <1>2, <2>2, <2>3, <2>4, <2>5 DEF m
<1> QED
    BY <1>2, <1>3, <1>4

\* A single outermost box is the whole result.
LEMMA OnlyBox ==
    ASSUME NEW s, Len(s) \in Nat, NEW i, Outer(s) = {i}
    PROVE  iter_boxed(s) # <<>> /\ Len(iter_boxed(s)) = 1 /\ iter_boxed(s)[1] = Content(s, i)
<1>1. Cardinality(Outer(s)) = 1
    BY FS_Singleton
<1>2. i \in Outer(s) /\ i <= i
    BY OuterPlaces
<1>3. UpTo(s, i) = Outer(s)
    BY <1>2 DEF UpTo
<1>4. Len(iter_boxed(s)) = 1 /\ iter_boxed(s)[1] = Content(s, i)
    BY <1>1, <1>2, <1>3, BoxesTaken
<1>5. Len(<<>>) # 1
    BY EmptySeq
<1> QED
    BY <1>4, <1>5

-----------------------------------------------------------------------------
(* A part of a text *)

\* t stands in s behind d places.
Part(s, t, d) ==
    /\ s \in Seq(Symbol) /\ t \in Seq(Symbol) /\ d \in Nat /\ Len(t) + d <= Len(s)
    /\ \A x \in 1..Len(t) : t[x] = s[x + d]

\* A part lies within the text.
LEMMA PartTyped ==
    ASSUME NEW s, NEW t, NEW d, Part(s, t, d)
    PROVE  d \in Nat /\ Len(s) \in Nat /\ Len(t) \in Nat /\ Len(t) + d <= Len(s)
BY LenProperties DEF Part

\* Braces stand where they stood.
LEMMA BracesMoved ==
    ASSUME NEW s, NEW t, NEW d, Part(s, t, d), NEW i \in 1..Len(t), NEW j \in 0..Len(t)
    PROVE  /\ ((i + d)..(j + d)) \cap Opens(s) = {x + d : x \in (i..j) \cap Opens(t)}
           /\ ((i + d)..(j + d)) \cap Closes(s) = {x + d : x \in (i..j) \cap Closes(t)}
<1>1. d \in Nat /\ Len(t) \in Nat /\ i \in Nat /\ j \in Nat /\ j <= Len(t) /\ 1 <= i
    BY PartTyped
<1>2. ASSUME NEW x \in i..j
      PROVE  /\ x + d \in (i + d)..(j + d)
             /\ x \in Opens(t) <=> x + d \in Opens(s)
             /\ x \in Closes(t) <=> x + d \in Closes(s)
    <2>1. x \in Int /\ x + d \in Int /\ x + d \in (i + d)..(j + d) /\ x \in 1..Len(t)
        BY <1>1
    <2>2. t[x] = s[x + d]
        BY <2>1 DEF Part
    <2> QED
        BY <2>1, <2>2 DEF Opens, Closes
<1>3. ASSUME NEW y \in (i + d)..(j + d) PROVE y - d \in i..j /\ (y - d) + d = y
    BY <1>1
<1>4. ((i + d)..(j + d)) \cap Opens(s) = {x + d : x \in (i..j) \cap Opens(t)}
    <2>1. ASSUME NEW y \in ((i + d)..(j + d)) \cap Opens(s)
          PROVE  y \in {x + d : x \in (i..j) \cap Opens(t)}
        BY <1>2, <1>3
    <2> QED
        BY <1>2, <2>1
<1>5. ((i + d)..(j + d)) \cap Closes(s) = {x + d : x \in (i..j) \cap Closes(t)}
    <2>1. ASSUME NEW y \in ((i + d)..(j + d)) \cap Closes(s)
          PROVE  y \in {x + d : x \in (i..j) \cap Closes(t)}
        BY <1>2, <1>3
    <2> QED
        BY <1>2, <2>1
<1> QED
    BY <1>4, <1>5

\* So depths are the same in the part.
LEMMA DepthMoved ==
    ASSUME NEW s, NEW t, NEW d, Part(s, t, d), NEW i \in 1..Len(t), NEW j \in 0..Len(t)
    PROVE  Depth(t, i, j) = Depth(s, i + d, j + d)
<1>1. d \in Nat /\ d \in Int /\ i \in Int /\ j \in Int /\ i + d \in Int /\ j + d \in Int
    BY PartTyped
<1> DEFINE U == (i..j) \cap Opens(t)
           D == (i..j) \cap Closes(t)
<1>2. IsFiniteSet(i..j)
    BY <1>1, FS_Interval
<1>3. IsFiniteSet(U) /\ IsFiniteSet(D) /\ U \subseteq Int /\ D \subseteq Int
    BY <1>1, <1>2, FS_Subset
<1>4. /\ ((i + d)..(j + d)) \cap Opens(s) = {x + d : x \in U}
      /\ ((i + d)..(j + d)) \cap Closes(s) = {x + d : x \in D}
    <2>1. /\ ((i + d)..(j + d)) \cap Opens(s) = {x + d : x \in (i..j) \cap Opens(t)}
          /\ ((i + d)..(j + d)) \cap Closes(s) = {x + d : x \in (i..j) \cap Closes(t)}
        BY BracesMoved
    <2> QED
        BY <2>1
<1>5. /\ Depth(t, i, j) = Cardinality(U) - Cardinality(D)
      /\ Depth(s, i + d, j + d) =
            Cardinality(((i + d)..(j + d)) \cap Opens(s)) - Cardinality(((i + d)..(j + d)) \cap Closes(s))
    BY <1>1, DepthCounts DEF Count
<1> HIDE DEF U, D
<1>6. Cardinality({x + d : x \in U}) = Cardinality(U)
    BY <1>1, <1>3, Moved
<1>7. Cardinality({x + d : x \in D}) = Cardinality(D)
    BY <1>1, <1>3, Moved
<1> QED
    BY <1>4, <1>5, <1>6, <1>7

\* A group that ends in the part ends there at the same place.
LEMMA CloseMoved ==
    ASSUME NEW s, NEW t, NEW d, Part(s, t, d), NEW i \in 1..Len(t), NEW k, k = i + d
    PROVE  /\ Close(t, i) # 0 => Close(s, k) = Close(t, i) + d
           /\ Close(s, k) # 0 /\ Close(s, k) <= Len(t) + d => Close(t, i) = Close(s, k) - d
<1>1. /\ d \in Nat /\ Len(s) \in Nat /\ Len(t) \in Nat /\ Len(t) + d <= Len(s)
      /\ i \in Nat \ {0} /\ k \in Nat \ {0}
    BY PartTyped
<1>2. ASSUME NEW j \in i..Len(t) PROVE Depth(t, i, j) = Depth(s, k, j + d)
    <2>1. j \in 0..Len(t)
        BY <1>1
    <2> QED
        BY <2>1, DepthMoved
<1>3. ASSUME Close(t, i) # 0 PROVE Close(s, k) = Close(t, i) + d
    <2> DEFINE c == Close(t, i)
               e == c + d
    <2>1. c \in i..Len(t) /\ Depth(t, i, c) = 0 /\ \A h \in i..(c - 1) : Depth(t, i, h) # 0
        BY <1>1, <1>3, CloseIs
    <2> HIDE DEF c
    <2>2. e \in k..Len(s) /\ Depth(s, k, e) = 0
        BY <1>1, <1>2, <2>1
    <2>3. ASSUME NEW h \in k..(e - 1) PROVE Depth(s, k, h) # 0
        <3>1. h - d \in i..Len(t) /\ h - d \in i..(c - 1) /\ (h - d) + d = h
            BY <1>1, <2>1
        <3> QED
            BY <1>2, <2>1, <3>1
    <2> HIDE DEF e
    <2>4. Close(s, k) = e
        BY <1>1, <2>2, <2>3, CloseIs
    <2> QED
        BY <2>4 DEF e, c
<1>4. ASSUME Close(s, k) # 0, Close(s, k) <= Len(t) + d PROVE Close(t, i) = Close(s, k) - d
    <2> DEFINE e == Close(s, k)
               c == e - d
    <2>1. /\ e \in k..Len(s) /\ Depth(s, k, e) = 0 /\ e <= Len(t) + d
          /\ \A h \in k..(e - 1) : Depth(s, k, h) # 0
        BY <1>1, <1>4, CloseIs
    <2> HIDE DEF e
    <2>2. c \in i..Len(t) /\ c + d = e
        BY <1>1, <2>1
    <2>3. ASSUME NEW h \in i..(c - 1) PROVE Depth(t, i, h) # 0
        <3>1. h + d \in k..(e - 1) /\ h \in i..Len(t)
            BY <1>1, <2>2
        <3> QED
            BY <1>2, <2>1, <3>1
    <2>4. Depth(t, i, c) = 0
        BY <1>2, <2>1, <2>2
    <2> HIDE DEF c
    <2>5. Close(t, i) = c
        BY <1>1, <2>2, <2>3, <2>4, CloseIs
    <2> QED
        BY <2>5 DEF c, e
<1> QED
    BY <1>3, <1>4

SameStretch(s, t, a, b, e, f) ==
    SubSeq(t, a, b) = SubSeq(s, e, f) /\ SubSeq(t, a, b) \in Seq(Symbol)

\* A stretch of the part is the same stretch of the text.
LEMMA StretchMoved ==
    ASSUME NEW s, NEW t, NEW d, Part(s, t, d), NEW a \in Nat \ {0}, NEW b \in Int, b <= Len(t),
           NEW e, e = a + d, NEW f, f = b + d
    PROVE  SameStretch(s, t, a, b, e, f)
<1>1. /\ d \in Nat /\ Len(s) \in Nat /\ Len(t) \in Nat /\ Len(t) + d <= Len(s)
      /\ a \in Int /\ 1 <= a /\ e \in Int /\ f \in Int
    BY PartTyped
<1>2. s \in Seq(Symbol) /\ t \in Seq(Symbol)
    BY DEF Part
<1>3. ASSUME NEW x \in a..b PROVE t[x] \in Symbol /\ x + d \in e..f /\ t[x] = s[x + d]
    <2>1. x \in 1..Len(t)
        BY <1>1
    <2> QED
        BY <1>1, <1>2, <2>1, ElementOfSeq DEF Part
<1>4. ASSUME NEW x \in e..f PROVE s[x] \in Symbol
    <2>1. x \in 1..Len(s)
        BY <1>1
    <2> QED
        BY <1>2, <2>1, ElementOfSeq
<1>5. /\ SubSeq(t, a, b) \in Seq(Symbol)
      /\ Len(SubSeq(t, a, b)) = IF a <= b THEN b - a + 1 ELSE 0
      /\ \A i \in 1..(b - a + 1) : SubSeq(t, a, b)[i] = t[a + i - 1]
    BY <1>1, <1>3, SubSeqProperties
<1>6. /\ SubSeq(s, e, f) \in Seq(Symbol)
      /\ Len(SubSeq(s, e, f)) = IF e <= f THEN f - e + 1 ELSE 0
      /\ \A i \in 1..(f - e + 1) : SubSeq(s, e, f)[i] = s[e + i - 1]
    BY <1>1, <1>4, SubSeqProperties
<1>7. Len(SubSeq(t, a, b)) = Len(SubSeq(s, e, f))
    BY <1>1, <1>5, <1>6
<1>8. ASSUME NEW i \in 1..Len(SubSeq(t, a, b)) PROVE SubSeq(t, a, b)[i] = SubSeq(s, e, f)[i]
    <2>1. i \in Int /\ i \in 1..(b - a + 1) /\ i \in 1..(f - e + 1)
        <3>1. a <= b
            BY <1>5
        <3>2. Len(SubSeq(t, a, b)) = b - a + 1
            BY <1>5, <3>1
        <3>3. i \in 1..(b - a + 1)
            BY <3>2
        <3> QED
            BY <1>1, <3>3
    <2>2. a + i - 1 \in a..b /\ (a + i - 1) + d = e + i - 1
        BY <1>1, <2>1
    <2>3. t[a + i - 1] = s[(a + i - 1) + d]
        BY <1>3, <2>2
    <2> QED
        BY <1>5, <1>6, <2>1, <2>2, <2>3
<1> QED
    BY <1>5, <1>6, <1>7, <1>8, SeqEqual DEF SameStretch

\* The closed boxes of a part are those of the text that end in it, with the same contents.
LEMMA ClosedMoved ==
    ASSUME NEW s, NEW t, NEW d, Part(s, t, d), NEW i \in 1..Len(t), NEW k, k = i + d
    PROVE  /\ i \in Closed(t) => /\ k \in Closed(s) /\ Close(s, k) = Close(t, i) + d
                                 /\ Close(s, k) <= Len(t) + d /\ Content(t, i) = Content(s, k)
           /\ k \in Closed(s) /\ Close(s, k) <= Len(t) + d =>
                                    i \in Closed(t) /\ Close(t, i) = Close(s, k) - d
<1>1. /\ d \in Nat /\ Len(s) \in Nat /\ Len(t) \in Nat /\ Len(t) + d <= Len(s)
      /\ i \in Nat /\ k \in 1..Len(s) /\ t[i] = s[k]
    BY PartTyped DEF Part
<1>2. ASSUME i \in Closed(t)
      PROVE  /\ k \in Closed(s) /\ Close(s, k) = Close(t, i) + d
             /\ Close(s, k) <= Len(t) + d /\ Content(t, i) = Content(s, k)
    <2> DEFINE c == Close(t, i)
               e == Close(s, k)
    <2>1. t[i] = Box /\ c # 0 /\ c \in (i + 1)..Len(t) /\ c \in Nat
        BY <1>1, <1>2, ClosedBox
    <2>2. e = c + d
        BY <1>1, <2>1, CloseMoved
    <2>3. k \in Closed(s)
        <3>1. e # 0
            BY <1>1, <2>1, <2>2
        <3>2. s[k] = Box
            BY <1>1, <2>1
        <3> QED
            BY <1>1, <3>1, <3>2 DEF Closed
    <2>4. Content(t, i) = SubSeq(t, i + 1, c - 1) /\ Content(s, k) = SubSeq(s, k + 1, e - 1)
        BY DEF Content
    <2> HIDE DEF c, e
    <2>5. SubSeq(t, i + 1, c - 1) = SubSeq(s, k + 1, e - 1)
        <3> DEFINE a == i + 1
                   b == c - 1
                   p == k + 1
                   q == e - 1
        <3>1. a \in Nat \ {0} /\ b \in Int /\ b <= Len(t) /\ p = a + d /\ q = b + d
            BY <1>1, <2>1, <2>2
        <3> HIDE DEF a, b, p, q
        <3>2. SameStretch(s, t, a, b, p, q)
            BY <3>1, StretchMoved
        <3> QED
            BY <3>2 DEF SameStretch, a, b, p, q
    <2>6. e <= Len(t) + d
        BY <1>1, <2>1, <2>2
    <2> QED
        BY <2>2, <2>3, <2>4, <2>5, <2>6 DEF c, e
<1>3. ASSUME k \in Closed(s), Close(s, k) <= Len(t) + d
      PROVE  i \in Closed(t) /\ Close(t, i) = Close(s, k) - d
    <2>1. s[k] = Box /\ Close(s, k) # 0 /\ Close(s, k) \in (k + 1)..Len(s)
        BY <1>1, <1>3, ClosedBox
    <2>2. Close(t, i) = Close(s, k) - d
        BY <1>3, <2>1, CloseMoved
    <2>3. Close(t, i) # 0
        BY <1>1, <2>1, <2>2
    <2> QED
        BY <1>1, <2>1, <2>2, <2>3 DEF Closed
<1> QED
    BY <1>2, <1>3

-----------------------------------------------------------------------------
(* The tail *)

\* t is s without its first d places.
TailOf(s, t, d) == Part(s, t, d) /\ Len(t) + d = Len(s)

\* clip_tail leaves out places at the front only.
LEMMA ClippedIsTail ==
    ASSUME NEW s \in Seq(Symbol)
    PROVE  /\ clip_tail(s) \in Seq(Symbol)
           /\ TailOf(s, clip_tail(s), Len(s) - Len(clip_tail(s)))
<1>1. Len(s) \in Nat /\ TAIL \in Nat
    BY LenProperties, ExtractionAssumption
<1>2. CASE Len(s) <= TAIL
    <2>1. clip_tail(s) = s
        BY <1>2 DEF clip_tail
    <2>2. Len(s) - Len(s) = 0 /\ 0 \in Nat /\ Len(s) + 0 = Len(s)
        BY <1>1
    <2>3. \A x \in 1..Len(s) : x + 0 = x
        BY <1>1
    <2> QED
        BY <1>1, <2>1, <2>2, <2>3 DEF TailOf, Part
<1>3. CASE ~ (Len(s) <= TAIL)
    <2> DEFINE t == clip_tail(s)
               a == Len(s) - TAIL + 1
               d == Len(s) - TAIL
    <2>1. t = SubSeq(s, a, Len(s))
        BY <1>3 DEF clip_tail
    <2>2. a \in Int /\ Len(s) \in Int /\ a <= Len(s) + 1 /\ 1 <= a /\ d \in Nat /\ a = d + 1
        BY <1>1, <1>3
    <2>3. \A i \in a..Len(s) : s[i] \in Symbol
        BY <1>1, <2>2, ElementOfSeq
    <2> HIDE DEF a
    <2>4. /\ t \in Seq(Symbol) /\ Len(t) = IF a <= Len(s) THEN Len(s) - a + 1 ELSE 0
          /\ \A i \in 1..(Len(s) - a + 1) : t[i] = s[a + i - 1]
        BY <2>1, <2>2, <2>3, SubSeqProperties
    <2> HIDE DEF t
    <2>5. Len(t) = TAIL
        BY <1>1, <2>2, <2>4 DEF a
    <2>6. Len(s) - Len(t) = d /\ Len(t) + d = Len(s)
        BY <1>1, <2>5
    <2>7. ASSUME NEW x \in 1..Len(t) PROVE t[x] = s[x + d]
        <3>1. x \in 1..(Len(s) - a + 1) /\ a + x - 1 = x + d
            BY <1>1, <2>2, <2>5
        <3> QED
            BY <2>4, <3>1
    <2>8. TailOf(s, t, d)
        BY <1>1, <2>2, <2>4, <2>6, <2>7 DEF TailOf, Part
    <2> QED
        BY <2>4, <2>6, <2>8 DEF t
<1> QED
    BY <1>2, <1>3

\* A tail that holds the last outermost box has it as its own last.
LEMMA TailHoldsLast ==
    ASSUME NEW s, NEW t, NEW d, TailOf(s, t, d), Outer(s) # {}, Max(Outer(s)) > d
    PROVE  boxed_last(t) = boxed_last(s)
<1> DEFINE m == Max(Outer(s))
           k == m - d
<1>1. /\ d \in Nat /\ Len(s) \in Nat /\ Len(t) \in Nat /\ Len(t) + d = Len(s) /\ Part(s, t, d)
    BY PartTyped DEF TailOf
<1>2. /\ m \in Outer(s) /\ \A g \in Outer(s) : g <= m
      /\ boxed_last(s) = unwrap_nested(Content(s, m))
    BY <1>1, LastBox
<1>3. m > d
    OBVIOUS
<1> HIDE DEF m
<1>4. m \in Closed(s) /\ m \in 1..Len(s) /\ m \in Nat
    BY <1>1, <1>2, OuterPlaces DEF Outer
<1>5. k \in 1..Len(t) /\ m = k + d
    BY <1>1, <1>3, <1>4
<1> HIDE DEF k
<1>6. ASSUME NEW g \in Closed(s) PROVE Close(s, g) \in Nat /\ Close(s, g) <= Len(t) + d
    BY <1>1, ClosedBox
<1>7. k \in Closed(t) /\ Content(t, k) = Content(s, m)
    BY <1>1, <1>4, <1>5, <1>6, ClosedMoved
<1>8. ASSUME NEW j \in Closed(t)
      PROVE  /\ j \in 1..Len(t) /\ j + d \in Closed(s) /\ Close(s, j + d) = Close(t, j) + d
             /\ Close(t, j) \in Nat
    <2> DEFINE h == j + d
    <2>1. j \in 1..Len(t) /\ h = j + d
        BY DEF Closed
    <2> HIDE DEF h
    <2>2. h \in Closed(s) /\ Close(s, h) = Close(t, j) + d
        BY <1>1, <2>1, ClosedMoved
    <2> QED
        BY <1>1, <2>1, <2>2, ClosedBox
<1>9. k \in Outer(t)
    <2> SUFFICES ASSUME NEW j \in Closed(t), j < k PROVE Close(t, j) < k
        BY <1>7 DEF Outer
    <2>1. j + d \in Closed(s) /\ j + d < m /\ Close(s, j + d) = Close(t, j) + d /\ Close(t, j) \in Nat
        BY <1>1, <1>5, <1>8
    <2>2. Close(s, j + d) < m
        BY <1>2, <2>1 DEF Outer
    <2> QED
        BY <1>1, <1>5, <2>1, <2>2
<1>10. ASSUME NEW i \in Outer(t) PROVE i <= k
    <2> SUFFICES ASSUME k < i PROVE FALSE
        BY <1>1, <1>5, OuterPlaces
    <2>1. i \in Closed(t) /\ i \in 1..Len(t) /\ Close(t, k) < i
        BY <1>7, OuterPlaces DEF Outer
    <2>2. i + d \in Closed(s) /\ i + d \in Nat
        BY <1>1, <1>8, <2>1
    <2>3. PICK g \in Outer(s) : g <= i + d /\ i + d <= Close(s, g)
        BY <1>1, <2>2, OuterCovers
    <2>4. g <= m /\ g \in Nat /\ g \in Closed(s) /\ Close(s, g) \in Nat
        BY <1>1, <1>2, <2>3, ClosedBox DEF Outer
    <2>5. Close(s, m) = Close(t, k) + d /\ Close(t, k) \in Nat
        BY <1>5, <1>7, <1>8
    <2>6. Close(s, m) < i + d
        BY <1>1, <2>1, <2>5
    <2>7. g # m
        BY <1>1, <2>1, <2>3, <2>5, <2>6
    <2>8. Close(s, g) < m
        BY <1>2, <1>4, <2>4, <2>7 DEF Outer
    <2> QED
        BY <1>1, <1>4, <1>5, <2>1, <2>3, <2>4, <2>8
<1>11. Max(Outer(t)) = k
    <2>1. Outer(t) \subseteq Int
        BY <1>1, OuterPlaces
    <2> QED
        BY <1>9, <1>10, <2>1, MaxUnique
<1>12. boxed_last(t) = unwrap_nested(Content(t, k))
    BY <1>1, <1>9, <1>11, LastBox
<1> QED
    BY <1>2, <1>7, <1>12

\* The places of the digits of a text, and those of them that no other symbol follows before
\* the last digit.
Digits(s) == {i \in 1..Len(s) : s[i] \in Digit}

\* The last run of digits, by the places of the digits.
LEMMA LastRunIs == \A s : LastRun(s) = {i \in Digits(s) : \A j \in i..Max(Digits(s)) : j \in Digits(s)}
BY DEF LastRun, Digits

\* The last run ends with the last digit.
LEMMA RunEnds ==
    ASSUME NEW s, Len(s) \in Nat, Digits(s) # {}
    PROVE  /\ Max(Digits(s)) \in LastRun(s) /\ Max(LastRun(s)) = Max(Digits(s))
           /\ \A j \in Digits(s) : j <= Max(Digits(s))
           /\ LastRun(s) \subseteq Digits(s) /\ Digits(s) \subseteq Nat
<1> DEFINE m == Max(Digits(s))
<1>1. Digits(s) \in SUBSET (0..Len(s)) /\ Digits(s) \subseteq Nat
    BY DEF Digits
<1>2. m \in Digits(s) /\ \A j \in Digits(s) : j <= m
    BY <1>1, MaxIs
<1>3. LastRun(s) = {i \in Digits(s) : \A j \in i..m : j \in Digits(s)}
    BY LastRunIs
<1> HIDE DEF m
<1>4. m..m = {m}
    BY <1>1, <1>2
<1>5. m \in LastRun(s) /\ LastRun(s) \subseteq Digits(s)
    BY <1>2, <1>3, <1>4
<1>6. Max(LastRun(s)) = m
    <2>1. LastRun(s) \subseteq Int /\ \A j \in LastRun(s) : j <= m
        BY <1>1, <1>2, <1>5
    <2> QED
        BY <1>5, <2>1, MaxUnique
<1> QED
    BY <1>1, <1>2, <1>5, <1>6 DEF m

\* A tail that holds all of the last run of digits has it as its own last run.
LEMMA TailHoldsRun ==
    ASSUME NEW s, NEW t, NEW d, TailOf(s, t, d), LastRun(s) # {}, Min(LastRun(s)) > d
    PROVE  last_int(t) = last_int(s)
<1> DEFINE lo == Min(LastRun(s))
           m == Max(Digits(s))
           a == lo - d
           b == m - d
<1>1. /\ d \in Nat /\ Len(s) \in Nat /\ Len(t) \in Nat /\ Len(t) + d = Len(s) /\ Part(s, t, d)
    BY PartTyped DEF TailOf
<1>2. /\ m \in LastRun(s) /\ Max(LastRun(s)) = m /\ \A j \in Digits(s) : j <= m
      /\ LastRun(s) \subseteq Digits(s) /\ Digits(s) \subseteq Nat
    <2>1. Digits(s) # {}
        BY LastRunIs
    <2> QED
        BY <1>1, <2>1, RunEnds
<1>3. lo \in LastRun(s) /\ \A j \in LastRun(s) : lo <= j
    <2>1. LastRun(s) \subseteq Nat
        BY <1>2
    <2> QED
        BY <2>1, MinIs
<1>4. last_int(s) = SubSeq(s, lo, m)
    BY <1>2 DEF last_int
<1>5. lo > d
    OBVIOUS
<1>6. LastRun(s) = {i \in Digits(s) : \A j \in i..m : j \in Digits(s)}
    BY LastRunIs
<1> HIDE DEF lo, m
<1>7. /\ lo \in Nat /\ m \in Nat /\ lo <= m /\ lo \in 1..Len(s) /\ m \in 1..Len(s)
    BY <1>2, <1>3 DEF Digits
<1>8. a \in 1..Len(t) /\ b \in 1..Len(t) /\ lo = a + d /\ m = b + d /\ a <= b
    BY <1>1, <1>5, <1>7
<1> HIDE DEF a, b
<1>9. ASSUME NEW i \in 1..Len(t) PROVE i \in Digits(t) <=> i + d \in Digits(s)
    <2>1. i + d \in 1..Len(s) /\ t[i] = s[i + d]
        BY <1>1 DEF Part
    <2> QED
        BY <2>1 DEF Digits
<1>10. Digits(t) \subseteq 1..Len(t)
    BY DEF Digits
<1>11. b \in Digits(t)
    BY <1>2, <1>8, <1>9
<1>12. ASSUME NEW j \in Digits(t) PROVE j <= b
    <2>1. j \in 1..Len(t) /\ j + d \in Digits(s)
        BY <1>9, <1>10
    <2>2. j + d <= m
        BY <1>2, <2>1
    <2> QED
        BY <1>1, <1>8, <2>1, <2>2
<1>13. Max(Digits(t)) = b
    <2>1. Digits(t) \subseteq Int
        BY <1>10
    <2> QED
        BY <1>11, <1>12, <2>1, MaxUnique
<1>14. LastRun(t) = {i \in Digits(t) : \A j \in i..b : j \in Digits(t)}
    BY <1>13, LastRunIs
<1>15. a \in LastRun(t)
    <2>1. a \in Digits(t)
        BY <1>2, <1>3, <1>8, <1>9
    <2>2. ASSUME NEW j \in a..b PROVE j \in Digits(t)
        <3>1. j \in 1..Len(t) /\ j + d \in lo..m
            BY <1>1, <1>8
        <3>2. j + d \in Digits(s)
            BY <1>3, <1>6, <3>1
        <3> QED
            BY <1>9, <3>1, <3>2
    <2> QED
        BY <1>14, <2>1, <2>2
<1>16. ASSUME NEW i \in LastRun(t) PROVE a <= i
    <2>1. i \in Digits(t) /\ i \in 1..Len(t) /\ \A j \in i..b : j \in Digits(t)
        BY <1>10, <1>14
    <2>2. i + d \in Digits(s)
        BY <1>9, <2>1
    <2>3. ASSUME NEW j \in (i + d)..m PROVE j \in Digits(s)
        <3>1. j - d \in i..b /\ j - d \in 1..Len(t) /\ (j - d) + d = j
            BY <1>1, <1>8, <2>1
        <3> QED
            BY <1>9, <2>1, <3>1
    <2>4. i + d \in LastRun(s)
        BY <1>6, <2>2, <2>3
    <2>5. lo <= i + d
        BY <1>3, <2>4
    <2> QED
        BY <1>1, <1>8, <2>1, <2>5
<1>17. Min(LastRun(t)) = a
    <2>1. LastRun(t) \subseteq Int
        BY <1>10, <1>14
    <2> QED
        BY <1>15, <1>16, <2>1, MinUnique
<1>18. Max(LastRun(t)) = b
    BY <1>1, <1>11, <1>13, RunEnds
<1>19. last_int(t) = SubSeq(t, a, b)
    BY <1>15, <1>17, <1>18 DEF last_int
<1>20. SameStretch(s, t, a, b, lo, m)
    <2>1. a \in Nat \ {0} /\ b \in Int /\ b <= Len(t)
        BY <1>1, <1>8
    <2> QED
        BY <1>1, <1>8, <2>1, StretchMoved
<1>21. SubSeq(t, a, b) = SubSeq(s, lo, m)
    BY <1>20 DEF SameStretch
<1> QED
    BY <1>4, <1>19, <1>21

-----------------------------------------------------------------------------
(* The answer is a part of the text *)

\* A text is a part of itself.
LEMMA PartOfItself == ASSUME NEW s \in Seq(Symbol) PROVE Part(s, s, 0)
<1>1. Len(s) \in Nat
    BY LenProperties
<1>2. \A x \in 1..Len(s) : x + 0 = x
    BY <1>1
<1>3. Len(s) + 0 <= Len(s)
    BY <1>1
<1> QED
    BY <1>2, <1>3 DEF Part

\* A part of a part is a part.
LEMMA PartOfPart ==
    ASSUME NEW s, NEW t, NEW d, Part(s, t, d), NEW u, NEW e, Part(t, u, e), NEW f, f = e + d
    PROVE  Part(s, u, f)
<1>1. /\ d \in Nat /\ e \in Nat /\ Len(s) \in Nat /\ Len(t) \in Nat /\ Len(u) \in Nat
      /\ Len(t) + d <= Len(s) /\ Len(u) + e <= Len(t)
    BY PartTyped
<1>2. s \in Seq(Symbol) /\ u \in Seq(Symbol) /\ f \in Nat /\ Len(u) + f <= Len(s)
    BY <1>1 DEF Part
<1>3. ASSUME NEW x \in 1..Len(u) PROVE u[x] = s[x + f]
    <2>1. x + e \in 1..Len(t) /\ (x + e) + d = x + f
        BY <1>1
    <2>2. u[x] = t[x + e] /\ t[x + e] = s[(x + e) + d]
        BY <2>1 DEF Part
    <2> QED
        BY <2>1, <2>2
<1> QED
    BY <1>2, <1>3 DEF Part

\* What a closed box contains is a part of the text, behind the box.
LEMMA ContentIsPart ==
    ASSUME NEW s \in Seq(Symbol), NEW i \in Closed(s)
    PROVE  Part(s, Content(s, i), i) /\ Len(Content(s, i)) + i + 1 = Close(s, i)
<1> DEFINE a == i + 1
           b == Close(s, i) - 1
           t == Content(s, i)
<1>1. Len(s) \in Nat
    BY LenProperties
<1>2. Close(s, i) \in (i + 1)..Len(s) /\ i \in 1..Len(s) /\ i \in Nat
    BY <1>1, ClosedBox
<1>3. t = SubSeq(s, a, b) /\ a \in Int /\ b \in Int /\ a <= b + 1 /\ 1 <= a /\ b <= Len(s)
    BY <1>1, <1>2 DEF Content
<1>4. \A x \in a..b : s[x] \in Symbol
    <2>1. \A x \in a..b : x \in 1..Len(s)
        BY <1>1, <1>3
    <2> QED
        BY <2>1, ElementOfSeq
<1>5. a = i + 1 /\ b = Close(s, i) - 1
    OBVIOUS
<1> HIDE DEF a, b
<1>6. /\ t \in Seq(Symbol) /\ Len(t) = IF a <= b THEN b - a + 1 ELSE 0
      /\ \A x \in 1..(b - a + 1) : t[x] = s[a + x - 1]
    BY <1>3, <1>4, SubSeqProperties
<1> HIDE DEF t
<1>7. Len(t) = b - a + 1
    BY <1>3, <1>6
<1>8. Len(t) + i + 1 = Close(s, i) /\ Len(t) + i <= Len(s)
    BY <1>1, <1>2, <1>5, <1>7
<1>9. ASSUME NEW x \in 1..Len(t) PROVE t[x] = s[x + i]
    <2>1. x \in 1..(b - a + 1) /\ a + x - 1 = x + i
        BY <1>2, <1>3, <1>5, <1>7
    <2> QED
        BY <1>6, <2>1
<1> QED
    BY <1>2, <1>6, <1>8, <1>9 DEF Part, t

\* A round of unwrapping leaves a text alone or takes what its only outermost box contains.
LEMMA UnwrapCases ==
    ASSUME NEW s \in Seq(Symbol)
    PROVE  \/ Unwrap(s) = s
           \/ \E i \in Closed(s) : Unwrap(s) = Content(s, i)
<1>1. Len(s) \in Nat
    BY LenProperties
<1> SUFFICES ASSUME s # <<>>, s[1] = Box, Len(iter_boxed(s)) = 1
             PROVE  \E i \in Closed(s) : Unwrap(s) = Content(s, i)
    BY DEF Unwrap
<1>2. Cardinality(Outer(s)) = 1 /\ IsFiniteSet(Outer(s))
    BY <1>1, BoxesTaken, UpToFinite
<1>3. PICK i : Outer(s) = {i}
    BY <1>2, FS_Singleton
<1>4. iter_boxed(s)[1] = Content(s, i) /\ i \in Closed(s)
    BY <1>1, <1>3, OnlyBox DEF Outer
<1> QED
    BY <1>4 DEF Unwrap

\* A round of unwrapping leaves a part of the text.
LEMMA UnwrapIsPart ==
    ASSUME NEW s, NEW t, \E d : Part(s, t, d)
    PROVE  \E d : Part(s, Unwrap(t), d)
<1>1. PICK d : Part(s, t, d)
    OBVIOUS
<1>2. t \in Seq(Symbol)
    BY <1>1 DEF Part
<1>3. CASE Unwrap(t) = t
    BY <1>1, <1>3
<1>4. ASSUME NEW i \in Closed(t), Unwrap(t) = Content(t, i) PROVE \E f : Part(s, Unwrap(t), f)
    <2>1. Part(t, Content(t, i), i)
        BY <1>2, ContentIsPart
    <2> DEFINE f == i + d
    <2>2. f = i + d
        OBVIOUS
    <2> HIDE DEF f
    <2>3. Part(s, Content(t, i), f)
        BY <1>1, <2>1, <2>2, PartOfPart
    <2> QED
        BY <1>4, <2>3
<1> QED
    BY <1>2, <1>3, <1>4, UnwrapCases

\* An answer stands somewhere in the text.
LEMMA AnswerIsPart ==
    ASSUME NEW s \in Seq(Symbol), boxed_last(s) # <<>>
    PROVE  \E d : Part(s, boxed_last(s), d)
<1>1. Len(s) \in Nat
    BY LenProperties
<1>2. Outer(s) # {}
    BY <1>1, LastBox
<1> DEFINE m == Max(Outer(s))
<1>3. m \in Closed(s) /\ boxed_last(s) = unwrap_nested(Content(s, m))
    BY <1>1, <1>2, LastBox DEF Outer
<1> HIDE DEF m
<1>4. \E d : Part(s, Content(s, m), d)
    BY <1>3, ContentIsPart
<1>5. \E d : Part(s, Unwrap(Content(s, m)), d)
    BY <1>4, UnwrapIsPart
<1>6. \E d : Part(s, Unwrap(Unwrap(Content(s, m))), d)
    BY <1>5, UnwrapIsPart
<1>7. \E d : Part(s, Unwrap(Unwrap(Unwrap(Content(s, m)))), d)
    BY <1>6, UnwrapIsPart
<1>8. \E d : Part(s, Unwrap(Unwrap(Unwrap(Unwrap(Content(s, m))))), d)
    BY <1>7, UnwrapIsPart
<1> QED
    BY <1>3, <1>8 DEF unwrap_nested

-----------------------------------------------------------------------------
(* Where the answer is recorded *)

\* The places before the occurrences of an answer.
Occurs(s, answer) ==
    {i \in 0..Len(s) - Len(answer) : SubSeq(s, i + 1, i + Len(answer)) = answer}

\* An occurrence in the part is one in the text.
LEMMA OccursMoved ==
    ASSUME NEW s, NEW t, NEW d, Part(s, t, d), NEW u, Len(u) \in Nat,
           NEW i \in Nat, i + Len(u) <= Len(t), NEW k, k = i + d
    PROVE  i \in Occurs(t, u) <=> k \in Occurs(s, u)
<1> DEFINE a == i + 1
           b == i + Len(u)
           e == k + 1
           f == k + Len(u)
<1>1. d \in Nat /\ Len(s) \in Nat /\ Len(t) \in Nat /\ Len(t) + d <= Len(s)
    BY PartTyped
<1>2. /\ a \in Nat \ {0} /\ b \in Int /\ b <= Len(t) /\ e = a + d /\ f = b + d
      /\ i \in 0..Len(t) - Len(u) /\ k \in 0..Len(s) - Len(u)
    BY <1>1
<1>3. /\ i \in Occurs(t, u) <=> SubSeq(t, a, b) = u
      /\ k \in Occurs(s, u) <=> SubSeq(s, e, f) = u
    BY <1>2 DEF Occurs
<1> HIDE DEF a, b, e, f
<1>4. SameStretch(s, t, a, b, e, f)
    BY <1>2, StretchMoved
<1> QED
    BY <1>3, <1>4 DEF SameStretch

\* Where the part stands is an occurrence.
LEMMA PartOccurs ==
    ASSUME NEW s, NEW u, NEW d, Part(s, u, d)
    PROVE  d \in Occurs(s, u)
<1>1. d \in Nat /\ Len(s) \in Nat /\ Len(u) \in Nat /\ Len(u) + d <= Len(s) /\ u \in Seq(Symbol)
    BY PartTyped DEF Part
<1> DEFINE z == 0 + 1
           e == d + 1
           f == d + Len(u)
<1>2. /\ z \in Nat \ {0} /\ e = z + d /\ f = Len(u) + d /\ Len(u) \in Int /\ Len(u) <= Len(u)
      /\ d \in 0..Len(s) - Len(u) /\ z = 1
    BY <1>1
<1>3. d \in Occurs(s, u) <=> SubSeq(s, e, f) = u
    BY <1>2 DEF Occurs
<1> HIDE DEF z, e, f
<1>4. SameStretch(s, u, z, Len(u), e, f)
    BY <1>2, StretchMoved
<1>5. SubSeq(u, z, Len(u)) = u
    BY <1>1, <1>2, SubSeqFull
<1> QED
    BY <1>3, <1>4, <1>5 DEF SameStretch

\* What the tail holds is found in the text where it is found in the tail.
LEMMA FoundInTail ==
    ASSUME NEW s, NEW t, NEW d, TailOf(s, t, d), NEW u, NEW e, Part(t, u, e)
    PROVE  /\ FindAnswer(s, u) = FindAnswer(t, u) + d
           /\ FindAnswer(t, u) \in Nat /\ FindAnswer(t, u) <= Len(t)
<1> DEFINE p == FindAnswer(t, u)
           k == p + d
<1>1. /\ d \in Nat /\ Len(s) \in Nat /\ Len(t) \in Nat /\ Len(t) + d = Len(s) /\ Part(s, t, d)
      /\ Len(u) \in Nat
    BY PartTyped DEF TailOf
<1>2. e \in Occurs(t, u)
    BY PartOccurs
<1>3. Occurs(t, u) \in SUBSET (0..Len(t))
    BY <1>1 DEF Occurs
<1>4. p = Max(Occurs(t, u)) /\ FindAnswer(s, u) = Max(Occurs(s, u))
    BY DEF FindAnswer, Occurs
<1>5. p \in Occurs(t, u) /\ \A x \in Occurs(t, u) : x <= p
    BY <1>1, <1>2, <1>3, <1>4, MaxIs
<1> HIDE DEF p
<1>6. p \in Nat /\ p <= Len(t) /\ p + Len(u) <= Len(t) /\ k = p + d
    BY <1>1, <1>5 DEF Occurs
<1> HIDE DEF k
<1>7. k \in Occurs(s, u)
    BY <1>1, <1>5, <1>6, OccursMoved
<1>8. ASSUME NEW y \in Occurs(s, u) PROVE y <= k
    <2>1. y \in Int /\ k \in Int /\ y + Len(u) <= Len(s)
        BY <1>1, <1>6 DEF Occurs
    <2> SUFFICES ASSUME y > k PROVE FALSE
        BY <2>1
    <2> DEFINE x == y - d
    <2>2. x \in Nat /\ x + Len(u) <= Len(t) /\ y = x + d /\ x > p
        BY <1>1, <1>6, <2>1
    <2> HIDE DEF x
    <2>3. x \in Occurs(t, u)
        BY <1>1, <2>2, OccursMoved
    <2> QED
        BY <1>5, <1>6, <2>2, <2>3
<1>9. Max(Occurs(s, u)) = k
    <2>1. Occurs(s, u) \subseteq Int
        BY <1>1 DEF Occurs
    <2> QED
        BY <1>7, <1>8, <2>1, MaxUnique
<1> QED
    BY <1>4, <1>6, <1>9 DEF p

\* Rounding a quotient keeps it between two integers.
LEMMA RoundBetween ==
    ASSUME NEW x \in Nat, NEW y \in Nat \ {0}, NEW lo \in Nat, NEW hi \in Nat,
           lo * y <= x, x <= hi * y
    PROVE  Round(x, y) \in lo..hi
<1> DEFINE q == x \div y
           r == x % y
<1>1. q \in Int /\ r \in 0..(y - 1) /\ x = y * q + r
    OBVIOUS
<1>2. Round(x, y) = IF 2 * r > y \/ (2 * r = y /\ q % 2 = 1) THEN q + 1 ELSE q
    BY DEF Round
<1> HIDE DEF q, r
<1>3. lo <= q
    <2> SUFFICES ASSUME q + 1 <= lo PROVE FALSE
        BY <1>1
    <2>1. PICK z \in Nat : lo = q + 1 + z
        BY <1>1
    <2>2. lo * y = q * y + y + z * y
        BY <1>1, <2>1
    <2>3. z * y \in Nat
        BY <2>1
    <2>4. q * y = y * q /\ q * y \in Int
        BY <1>1
    <2> QED
        BY <1>1, <2>2, <2>3, <2>4
<1>4. q <= hi /\ (r > 0 => q + 1 <= hi)
    <2>1. ASSUME q >= hi + 1 PROVE FALSE
        <3>1. PICK z \in Nat : q = hi + 1 + z
            BY <1>1, <2>1
        <3>2. q * y = hi * y + y + z * y
            BY <1>1, <3>1
        <3>3. z * y \in Nat /\ hi * y \in Nat
            BY <3>1
        <3>4. q * y = y * q /\ q * y \in Int
            BY <1>1
        <3> QED
            BY <1>1, <3>2, <3>3, <3>4
    <2>2. ASSUME r > 0, q = hi PROVE FALSE
        <3>1. y * q = hi * y /\ hi * y \in Int
            BY <1>1, <2>2
        <3> QED
            BY <1>1, <2>2, <3>1
    <2> QED
        BY <1>1, <2>1, <2>2
<1>5. 2 * r > y \/ 2 * r = y => r > 0
    BY <1>1
<1> QED
    BY <1>1, <1>2, <1>3, <1>4, <1>5

\* Where the first hi of l symbols hold at most b of n tokens per symbol, so do p of the t
\* symbols that the tail leaves.
LEMMA Denser ==
    ASSUME NEW p \in Nat, NEW t \in Nat, NEW d \in Nat, NEW n \in Nat, NEW b \in Nat,
           NEW hi, NEW l, hi = p + d, l = t + d, p <= t, hi * n <= b * l
    PROVE  p * n <= b * t
<1>1. hi * n = p * n + d * n /\ b * l = b * t + b * d
    OBVIOUS
<1>2. p * n \in Nat /\ d * n \in Nat /\ b * t \in Nat /\ b * d \in Nat /\ n * t \in Nat
    OBVIOUS
<1>3. CASE b >= n
    <2>1. PICK z \in Nat : b = n + z
        BY <1>3
    <2>2. PICK y \in Nat : t = p + y
        OBVIOUS
    <2>3. b * t = n * t + z * t /\ n * t = p * n + n * y
        BY <2>1, <2>2
    <2>4. z * t \in Nat /\ n * y \in Nat
        BY <2>1, <2>2
    <2> QED
        BY <1>2, <2>3, <2>4
<1>4. CASE b <= n
    <2>1. PICK z \in Nat : n = b + z
        BY <1>4
    <2>2. d * n = b * d + d * z /\ d * z \in Nat
        BY <2>1
    <2> QED
        BY <1>1, <1>2, <2>2
<1> QED
    BY <1>3, <1>4

\* The position recorded for an answer is one of the n tokens, not past the b tokens before
\* the answer where these are at least its share, nor before them where they are at most its
\* share and the tail is all of the text.
LEMMA PositionOf ==
    ASSUME NEW s \in Seq(Symbol), NEW n \in Nat, NEW b \in Nat, boxed_last(clip_tail(s)) # <<>>
    PROVE  LET place == FindAnswer(s, boxed_last(clip_tail(s)))
               pos == answer_token_pos(s, n)
           IN  /\ pos \in 0..n
               /\ b * Len(s) >= place * n => pos <= b
               /\ Len(s) <= TAIL /\ b * Len(s) <= place * n => pos >= b
<1> DEFINE t == clip_tail(s)
           u == boxed_last(t)
           d == Len(s) - Len(t)
           p == FindAnswer(t, u)
           place == FindAnswer(s, u)
           pos == answer_token_pos(s, n)
<1>1. t \in Seq(Symbol) /\ TailOf(s, t, d)
    BY ClippedIsTail
<1>2. PICK e : Part(t, u, e)
    BY <1>1, AnswerIsPart
<1>3. pos = Round(p * n, Len(t))
    BY DEF answer_token_pos
<1>4. u # <<>>
    OBVIOUS
<1>5. place = p + d /\ p \in Nat /\ p <= Len(t)
    <2> HIDE DEF t, u, d
    <2> QED
        BY <1>1, <1>2, FoundInTail DEF p, place
<1>6. d \in Nat /\ Len(s) \in Nat /\ Len(t) \in Nat /\ Len(s) = Len(t) + d
    <2> HIDE DEF t, d
    <2> QED
        BY <1>1, PartTyped DEF TailOf
<1>7. Len(t) \in Nat \ {0}
    <2>1. Len(u) # 0
        <3>1. u \in Seq(Symbol)
            BY <1>2 DEF Part
        <3> HIDE DEF u
        <3> QED
            BY <1>4, <3>1, EmptySeq
    <2>2. Len(u) \in Nat /\ e \in Nat /\ Len(u) + e <= Len(t)
        <3> HIDE DEF t, u
        <3> QED
            BY <1>2, PartTyped
    <2> QED
        BY <1>6, <2>1, <2>2
<1>8. Len(s) <= TAIL => t = s
    BY DEF clip_tail
<1> DEFINE x == p * n
<1>9. x \in Nat /\ 0 * Len(t) <= x /\ x <= n * Len(t)
    <2> HIDE DEF t, p, d, place, pos, u
    <2>1. PICK z \in Nat : Len(t) = p + z
        <3>1. p \in Nat /\ Len(t) \in Nat /\ p <= Len(t)
            BY <1>5, <1>6
        <3>2. Len(t) - p \in Nat /\ Len(t) = p + (Len(t) - p)
            BY <3>1
        <3> QED
            BY <3>2
    <2>2. n * Len(t) = p * n + n * z /\ n * z \in Nat /\ p * n \in Nat
        BY <1>5, <2>1
    <2> QED
        BY <1>7, <2>2
<1>10. pos \in 0..n
    <2> HIDE DEF x, p, t, pos
    <2>1. Round(x, Len(t)) \in 0..n
        BY <1>7, <1>9, RoundBetween
    <2> QED
        BY <1>3, <2>1 DEF x
<1>11. ASSUME place * n <= b * Len(s) PROVE pos <= b
    <2> HIDE DEF p, t, d, place, pos, u
    <2>1. p * n <= b * Len(t)
        BY <1>5, <1>6, <1>11, Denser
    <2>2. x <= b * Len(t)
        BY <2>1
    <2> HIDE DEF x
    <2>3. Round(x, Len(t)) \in 0..b
        BY <1>7, <1>9, <2>2, RoundBetween
    <2> QED
        BY <1>3, <2>3 DEF x
<1>12. ASSUME Len(s) <= TAIL, b * Len(s) <= place * n PROVE pos >= b
    <2>1. Len(t) = Len(s)
        BY <1>8, <1>12
    <2> HIDE DEF p, t, place, pos, u
    <2>2. place = p
        BY <1>5, <1>6, <2>1
    <2>3. b * Len(t) <= x
        BY <1>12, <2>1, <2>2
    <2> HIDE DEF x, d
    <2>4. Round(x, Len(t)) \in b..n
        BY <1>7, <1>9, <2>3, RoundBetween
    <2> QED
        BY <1>3, <2>4 DEF x
<1>13. place * n \in Int /\ b * Len(s) \in Int
    <2> HIDE DEF p, t, d, place, pos, u
    <2> QED
        BY <1>5, <1>6
<1> HIDE DEF pos
<1>14. /\ b * Len(s) >= place * n => pos <= b
       /\ Len(s) <= TAIL /\ b * Len(s) <= place * n => pos >= b
    <2> HIDE DEF place
    <2> QED
        BY <1>11, <1>12, <1>13
<1> QED
    BY <1>10, <1>14 DEF pos

\* The answer is found in the completion.
LEMMA PlaceTyped ==
    ASSUME NEW s \in Seq(Symbol), boxed_last(clip_tail(s)) # <<>>
    PROVE  FindAnswer(s, boxed_last(clip_tail(s))) \in 0..Len(s)
<1> DEFINE t == clip_tail(s)
           u == boxed_last(t)
           d == Len(s) - Len(t)
<1>1. t \in Seq(Symbol) /\ TailOf(s, t, d)
    BY ClippedIsTail
<1>2. PICK e : Part(t, u, e)
    BY <1>1, AnswerIsPart
<1> HIDE DEF t, u, d
<1>3. /\ FindAnswer(s, u) = FindAnswer(t, u) + d
      /\ FindAnswer(t, u) \in Nat /\ FindAnswer(t, u) <= Len(t)
    BY <1>1, <1>2, FoundInTail
<1>4. d \in Nat /\ Len(s) \in Nat /\ Len(t) \in Nat /\ Len(t) + d = Len(s)
    BY <1>1, PartTyped DEF TailOf
<1>5. FindAnswer(s, u) \in 0..Len(s)
    BY <1>3, <1>4
<1> QED
    BY <1>5 DEF t, u

-----------------------------------------------------------------------------
(* A box around a box *)

\* A sequence of one element.
LEMMA Single ==
    ASSUME NEW S, NEW a \in S
    PROVE  <<a>> \in Seq(S) /\ Len(<<a>>) = 1 /\ <<a>>[1] = a
OBVIOUS

\* A sequence with an element before it and one behind it.
LEMMA Between ==
    ASSUME NEW S, NEW a \in S, NEW c \in S, NEW s \in Seq(S), NEW n, n = Len(s),
           NEW w, w = <<a>> \o s \o <<c>>
    PROVE  /\ w \in Seq(S) /\ Len(w) = n + 2 /\ w[1] = a /\ w[n + 2] = c
           /\ \A x \in 1..n : w[x + 1] = s[x]
<1> DEFINE b == <<a>>
           d == <<c>>
           v == b \o s
<1>0. w = v \o d
    OBVIOUS
<1>1. n \in Nat /\ n = Len(s)
    BY LenProperties
<1>2. b \in Seq(S) /\ Len(b) = 1 /\ b[1] = a /\ d \in Seq(S) /\ Len(d) = 1 /\ d[1] = c
    BY Single
<1> HIDE DEF b, d
<1>3. v \in Seq(S) /\ Len(v) = Len(b) + Len(s)
    BY <1>2, ConcatProperties
<1>4. \A x \in 1..(Len(b) + Len(s)) : v[x] = IF x <= Len(b) THEN b[x] ELSE s[x - Len(b)]
    BY <1>2, ConcatProperties
<1> HIDE DEF v
<1>5. w \in Seq(S) /\ Len(w) = Len(v) + Len(d)
    BY <1>0, <1>2, <1>3, ConcatProperties
<1>6. \A x \in 1..(Len(v) + Len(d)) : w[x] = IF x <= Len(v) THEN v[x] ELSE d[x - Len(v)]
    <2>1. v \in Seq(S) /\ d \in Seq(S)
        BY <1>2, <1>3
    <2> QED
        BY <1>0, <2>1, ConcatProperties
<1>7. Len(v) = n + 1 /\ Len(w) = n + 2
    BY <1>1, <1>2, <1>3, <1>5
<1>8. \A x \in 1..(n + 1) : v[x] = IF x <= 1 THEN b[x] ELSE s[x - 1]
    <2>1. \A x \in 1..(n + 1) : x \in 1..(Len(b) + Len(s))
        BY <1>1, <1>2
    <2> QED
        BY <1>2, <1>4, <2>1
<1>9. \A x \in 1..(n + 2) : w[x] = IF x <= n + 1 THEN v[x] ELSE d[x - (n + 1)]
    <2>1. \A x \in 1..(n + 2) : x \in 1..(Len(v) + Len(d))
        BY <1>1, <1>2, <1>7
    <2> QED
        BY <1>6, <1>7, <2>1
<1>10. w[1] = a
    <2>1. 1 \in 1..(n + 2) /\ 1 \in 1..(n + 1) /\ 1 <= n + 1
        BY <1>1
    <2> QED
        BY <1>2, <1>8, <1>9, <2>1
<1>11. w[n + 2] = c
    <2>1. n + 2 \in 1..(n + 2) /\ ~ (n + 2 <= n + 1) /\ (n + 2) - (n + 1) = 1
        BY <1>1
    <2> QED
        BY <1>2, <1>9, <2>1
<1>12. ASSUME NEW x \in 1..n PROVE w[x + 1] = s[x]
    <2>1. x + 1 \in 1..(n + 2) /\ x + 1 \in 1..(n + 1) /\ x + 1 <= n + 1 /\ ~ (x + 1 <= 1) /\ (x + 1) - 1 = x
        BY <1>1
    <2> QED
        BY <1>8, <1>9, <2>1
<1> QED
    BY <1>5, <1>7, <1>10, <1>11, <1>12
Wrapped(s) == <<Box>> \o s \o <<"}">>

\* A text that is one box as a whole.
Boxed(s) == s \in Seq(Symbol) /\ s # <<>> /\ s[1] = Box /\ Close(s, 1) = Len(s)

\* It is its own only outermost box, and a round of unwrapping opens it.
LEMMA BoxedOnly ==
    ASSUME NEW s, Boxed(s)
    PROVE  /\ 1 \in Closed(s) /\ Outer(s) = {1} /\ Len(iter_boxed(s)) = 1
           /\ Content(s, 1) \in Seq(Symbol) /\ Unwrap(s) = Content(s, 1)
           /\ boxed_last(s) = unwrap_nested(Content(s, 1)) /\ boxed_strict(s) = boxed_last(s)
<1>1. Len(s) \in Nat /\ Len(s) # 0 /\ s \in Seq(Symbol) /\ s # <<>> /\ s[1] = Box
      /\ Close(s, 1) = Len(s)
    BY LenProperties, EmptySeq DEF Boxed
<1>2. 1 \in Closed(s)
    BY <1>1 DEF Closed
<1>3. 1 \in Outer(s)
    <2>1. \A j \in Closed(s) : ~ (j < 1)
        BY <1>1, ClosedBox
    <2> QED
        BY <1>2, <2>1 DEF Outer
<1>4. ASSUME NEW i \in Outer(s) PROVE i = 1
    <2>1. i \in Nat /\ 1 <= i /\ i <= Len(s)
        BY <1>1, OuterPlaces
    <2>2. 1 < i => Close(s, 1) < i
        BY <1>2 DEF Outer
    <2> QED
        BY <1>1, <2>1, <2>2
<1>5. Outer(s) = {1}
    BY <1>3, <1>4
<1>6. iter_boxed(s) # <<>> /\ Len(iter_boxed(s)) = 1 /\ iter_boxed(s)[1] = Content(s, 1)
    BY <1>1, <1>5, OnlyBox
<1>7. Unwrap(s) = Content(s, 1)
    BY <1>1, <1>6 DEF Unwrap
<1>8. boxed_last(s) = unwrap_nested(Content(s, 1))
    BY <1>6 DEF boxed_last, Last
<1>9. boxed_strict(s) = boxed_last(s)
    BY <1>6 DEF boxed_strict
<1>10. Content(s, 1) \in Seq(Symbol)
    BY <1>1, <1>2, ContentIsPart DEF Part
<1> QED
    BY <1>2, <1>5, <1>6, <1>7, <1>8, <1>9, <1>10

\* A box around it is again one box as a whole, with the text in it.
LEMMA WrappedBoxed ==
    ASSUME NEW s, Boxed(s)
    PROVE  Boxed(Wrapped(s)) /\ Content(Wrapped(s), 1) = s
<1> DEFINE w == Wrapped(s)
           n == Len(s)
           e == n + 2
           m == n + 1
<1>1. /\ n \in Nat /\ n # 0 /\ s \in Seq(Symbol) /\ s # <<>> /\ s[1] = Box
      /\ Close(s, 1) = n /\ n = Len(s) /\ e = n + 2 /\ m = n + 1
    BY LenProperties, EmptySeq DEF Boxed
<1> HIDE DEF n, e, m
<1>20. n \in Nat /\ n # 0 /\ s \in Seq(Symbol) /\ n = Len(s) /\ e = n + 2 /\ m = n + 1
    BY <1>1
<1>2. Box \in Symbol /\ "}" \in Symbol
    BY DEF Symbol
<1>3. /\ w \in Seq(Symbol) /\ Len(w) = e /\ w[1] = Box /\ w[e] = "}"
      /\ \A x \in 1..n : w[x + 1] = s[x]
    <2> DEFINE brace == "}"
    <2>1. w = <<Box>> \o s \o <<brace>> /\ Box \in Symbol /\ brace \in Symbol
        BY <1>2 DEF Wrapped
    <2> HIDE DEF w, brace
    <2>2. /\ w \in Seq(Symbol) /\ Len(w) = n + 2 /\ w[1] = Box /\ w[n + 2] = brace
          /\ \A x \in 1..n : w[x + 1] = s[x]
        BY <1>20, <2>1, Between
    <2> QED
        BY <1>20, <2>2 DEF brace
<1>21. Len(w) = e
    BY <1>3
<1> HIDE DEF w
<1>4. Part(w, s, 1)
    <2>1. Len(s) + 1 <= Len(w) /\ 1 \in Nat
        BY <1>20, <1>21
    <2>2. \A x \in 1..Len(s) : s[x] = w[x + 1]
        BY <1>1, <1>3
    <2> QED
        BY <1>1, <1>3, <2>1, <2>2 DEF Part
<1>5. 1 \in Opens(s) /\ 1 \in Opens(w) /\ e \in Closes(w)
    <2>1. 1 \in Int /\ e \in Int
        BY <1>1
    <2>2. w[1] \in {Box, "{"} /\ s[1] \in {Box, "{"} /\ w[e] = "}"
        BY <1>1, <1>3
    <2> QED
        BY <2>1, <2>2 DEF Opens, Closes
<1>6. Depth(s, 1, n) = 0 /\ \A j \in 1..(n - 1) : Depth(s, 1, j) >= 1
    <2>1. 1 \in 1..Len(s)
        BY <1>1
    <2> QED
        BY <1>1, <1>5, <2>1, Group
<1>7. Depth(w, 1, 1) = 1 /\ Depth(w, e, e) = -1
    <2>1. 1 \in Int /\ e \in Int
        BY <1>1
    <2> QED
        BY <1>5, <2>1, DepthOne
<1>8. ASSUME NEW j \in 1..n, NEW k, k = j + 1 PROVE Depth(w, 1, k) = 1 + Depth(s, 1, j)
    <2> DEFINE two == 1 + 1
    <2>0. 1 \in 1..Len(s) /\ j \in 0..Len(s)
        BY <1>1
    <2>1. k \in Int /\ two \in Int /\ two = 1 + 1 /\ 1 <= two /\ 1 <= k /\ two <= k
        BY <1>1, <1>8
    <2>2. Depth(s, 1, j) = Depth(w, 1 + 1, j + 1)
        BY <1>4, <2>0, DepthMoved
    <2>3. Depth(w, 1 + 1, j + 1) = Depth(w, two, k)
        BY <1>8
    <2> HIDE DEF two
    <2>4. Depth(w, 1, k) = Depth(w, 1, 1) + Depth(w, two, k)
        BY <2>1, DepthSplit
    <2> QED
        BY <1>7, <2>2, <2>3, <2>4
<1>9. ASSUME NEW k \in 1..m PROVE Depth(w, 1, k) >= 1
    <2>1. CASE k = 1
        BY <1>7, <2>1
    <2>2. CASE k # 1
        <3> DEFINE j == k - 1
        <3>1. j \in 1..n /\ k = j + 1 /\ (j = n \/ j \in 1..(n - 1))
            BY <1>1, <2>2
        <3> HIDE DEF j
        <3>2. Depth(w, 1, k) = 1 + Depth(s, 1, j)
            BY <1>8, <3>1
        <3>3. j = n => Depth(w, 1, k) = 1
            BY <1>6, <3>2
        <3>4. j \in 1..(n - 1) => Depth(w, 1, k) >= 1
            <4>1. ASSUME j \in 1..(n - 1) PROVE Depth(s, 1, j) \in Int
                <5>1. j \in Int /\ 1 \in Int /\ j + 1 \in Int /\ 1 <= j + 1 /\ j <= j + 1
                    BY <3>1
                <5> QED
                    BY <3>1, <5>1, DepthSplit
            <4> QED
                BY <1>6, <3>2, <4>1
        <3> QED
            BY <3>1, <3>3, <3>4
    <2> QED
        BY <2>1, <2>2
<1>10. Depth(w, 1, e) = 0
    <2>1. m \in Int /\ e \in Int /\ e = m + 1 /\ 1 <= e /\ m <= e /\ n \in 1..n /\ m = n + 1
        BY <1>1
    <2>2. Depth(w, 1, m) = 1 + Depth(s, 1, n)
        BY <1>8, <2>1
    <2> HIDE DEF m, e
    <2>3. Depth(w, 1, e) = Depth(w, 1, m) + Depth(w, e, e)
        BY <2>1, DepthSplit
    <2> QED
        BY <1>6, <1>7, <2>2, <2>3
<1>11. Close(w, 1) = e
    <2>1. Len(w) \in Nat /\ 1 \in Nat \ {0} /\ e \in 1..Len(w)
        BY <1>20, <1>21
    <2>2. \A h \in 1..(e - 1) : Depth(w, 1, h) # 0
        <3>1. e - 1 = m
            BY <1>1
        <3> QED
            BY <1>9, <3>1
    <2> QED
        BY <1>10, <2>1, <2>2, CloseIs
<1>12. Boxed(w)
    <2>1. w # <<>>
        <3>1. Len(w) # 0
            BY <1>20, <1>21
        <3> QED
            BY <3>1, EmptySeq
    <2> QED
        BY <1>3, <1>11, <2>1 DEF Boxed
<1>13. Content(w, 1) = s
    <2> DEFINE a == 1 + 1
               b == e - 1
    <2>1. Content(w, 1) = SubSeq(w, a, b)
        BY <1>11 DEF Content
    <2>2. 1 \in Nat \ {0} /\ n \in Int /\ n <= Len(s) /\ a = 1 + 1 /\ b = n + 1
        BY <1>1
    <2> HIDE DEF a, b
    <2>3. SameStretch(w, s, 1, n, a, b)
        BY <1>4, <2>2, StretchMoved
    <2>4. SubSeq(s, 1, n) = s
        BY <1>1, SubSeqFull
    <2> QED
        BY <2>1, <2>3, <2>4 DEF SameStretch
<1> QED
    BY <1>12, <1>13 DEF w

\* A round that changes a text leaves fewer closed boxes.
LEMMA FewerBoxes ==
    ASSUME NEW s \in Seq(Symbol), NEW i \in Closed(s)
    PROVE  /\ IsFiniteSet(Closed(s)) /\ Cardinality(Closed(s)) \in Nat
           /\ Cardinality(Closed(Content(s, i))) \in Nat
           /\ Cardinality(Closed(Content(s, i))) < Cardinality(Closed(s))
<1> DEFINE t == Content(s, i)
           A == Closed(t)
           B == {x + i : x \in A}
<1>1. Len(s) \in Nat /\ Part(s, t, i) /\ i \in Nat
    BY LenProperties, ClosedBox, ContentIsPart
<1>2. Len(t) \in Nat
    BY <1>1, PartTyped
<1>3. Closed(s) \subseteq 1..Len(s) /\ A \subseteq 1..Len(t) /\ A \subseteq Int
    BY DEF Closed
<1>4. IsFiniteSet(1..Len(s)) /\ IsFiniteSet(1..Len(t))
    BY FS_Interval
<1>5. IsFiniteSet(Closed(s)) /\ IsFiniteSet(A)
    BY <1>3, <1>4, FS_Subset
<1>6. IsFiniteSet(B) /\ Cardinality(B) = Cardinality(A)
    <2> HIDE DEF A
    <2>1. i \in Int
        BY <1>1
    <2> QED
        BY <1>3, <1>5, <2>1, Moved
<1>7. B \subseteq Closed(s) /\ i \notin B
    <2>1. ASSUME NEW x \in A PROVE x + i \in Closed(s) /\ x + i # i
        <3> DEFINE k == x + i
        <3>1. x \in 1..Len(t) /\ k = x + i /\ x \in Closed(t)
            BY <1>3
        <3>2. k # i
            BY <1>1, <3>1
        <3> HIDE DEF k
        <3>3. k \in Closed(s)
            BY <1>1, <3>1, ClosedMoved
        <3> QED
            BY <3>2, <3>3 DEF k
    <2> QED
        BY <2>1
<1>8. Cardinality(B) < Cardinality(Closed(s))
    <2> HIDE DEF B
    <2>1. B # Closed(s)
        BY <1>7
    <2>2. Cardinality(B) <= Cardinality(Closed(s)) /\ Cardinality(B) # Cardinality(Closed(s))
        BY <1>5, <1>7, <2>1, FS_Subset
    <2>3. Cardinality(B) \in Nat /\ Cardinality(Closed(s)) \in Nat
        BY <1>5, <1>6, FS_CardinalityType
    <2> QED
        BY <2>2, <2>3
<1>9. Cardinality(Closed(s)) \in Nat /\ Cardinality(A) \in Nat
    BY <1>5, FS_CardinalityType
<1> QED
    BY <1>5, <1>6, <1>8, <1>9

\* Unwrapping changes the text no more, or will stop after n closed boxes at most.
Settled(s, n) ==
    s \in Seq(Symbol) /\ (Unwrap(s) = s \/ (IsFiniteSet(Closed(s)) /\ Cardinality(Closed(s)) <= n))

\* A round leaves one box less to unwrap.
LEMMA Settling ==
    ASSUME NEW s, NEW n \in Nat, NEW m \in Nat, n = m + 1, Settled(s, n)
    PROVE  Settled(Unwrap(s), m)
<1>1. s \in Seq(Symbol)
    BY DEF Settled
<1>2. CASE Unwrap(s) = s
    BY <1>1, <1>2 DEF Settled
<1>3. CASE Unwrap(s) # s
    <2>1. PICK i \in Closed(s) : Unwrap(s) = Content(s, i)
        BY <1>1, <1>3, UnwrapCases
    <2>2. Content(s, i) \in Seq(Symbol)
        BY <1>1, ContentIsPart DEF Part
    <2>3. Cardinality(Closed(s)) <= n
        BY <1>3 DEF Settled
    <2>4. /\ Cardinality(Closed(s)) \in Nat /\ Cardinality(Closed(Content(s, i))) \in Nat
          /\ Cardinality(Closed(Content(s, i))) < Cardinality(Closed(s))
        BY <1>1, FewerBoxes
    <2>5. Cardinality(Closed(Content(s, i))) <= m
        BY <2>3, <2>4
    <2>6. IsFiniteSet(Closed(Content(s, i)))
        <3>1. Closed(Content(s, i)) \subseteq 1..Len(Content(s, i))
            BY DEF Closed
        <3>2. Len(Content(s, i)) \in Nat
            BY <2>2, LenProperties
        <3>3. IsFiniteSet(1..Len(Content(s, i)))
            BY <3>2, FS_Interval
        <3> QED
            BY <3>1, <3>3, FS_Subset
    <2> QED
        BY <2>1, <2>2, <2>5, <2>6 DEF Settled
<1> QED
    BY <1>2, <1>3

\* Where no box is closed there is nothing left to unwrap.
LEMMA SettledAtLast ==
    ASSUME NEW s, Settled(s, 0)
    PROVE  Unwrap(s) = s
<1>1. s \in Seq(Symbol)
    BY DEF Settled
<1>2. ASSUME Cardinality(Closed(s)) <= 0, IsFiniteSet(Closed(s)) PROVE Closed(s) = {}
    <2>1. Cardinality(Closed(s)) \in Nat
        BY <1>2, FS_CardinalityType
    <2>2. Cardinality(Closed(s)) = 0
        BY <1>2, <2>1
    <2> QED
        BY <1>2, <2>2, FS_EmptySet
<1>3. Closed(s) = {} => Unwrap(s) = s
    BY <1>1, UnwrapCases
<1> QED
    BY <1>2, <1>3 DEF Settled

\* What a box around a box does to the answer.
LEMMA WrapKeepsAnswer ==
    ASSUME NEW s, Boxed(s)
    PROVE  /\ boxed_strict(Wrapped(s)) = boxed_last(Wrapped(s))
           /\ Cardinality(Closed(s)) <= 4 => boxed_last(Wrapped(s)) = boxed_last(s)
           /\ Unwrap(boxed_last(Wrapped(s))) = boxed_last(s)
<1> DEFINE w == Wrapped(s)
           v == Content(s, 1)
<1>1. Boxed(w) /\ Content(w, 1) = s
    BY WrappedBoxed
<1>2. /\ Unwrap(s) = v /\ boxed_last(s) = Unwrap(Unwrap(Unwrap(Unwrap(v)))) /\ v \in Seq(Symbol)
      /\ 1 \in Closed(s)
    BY BoxedOnly DEF unwrap_nested
<1>3. boxed_strict(w) = boxed_last(w) /\ boxed_last(w) = unwrap_nested(Content(w, 1))
    <2> HIDE DEF w
    <2> QED
        BY <1>1, BoxedOnly
<1>4. boxed_last(w) = Unwrap(Unwrap(Unwrap(v)))
    BY <1>1, <1>2, <1>3 DEF unwrap_nested
<1>5. ASSUME Cardinality(Closed(s)) <= 4
      PROVE  Unwrap(Unwrap(Unwrap(Unwrap(v)))) = Unwrap(Unwrap(Unwrap(v)))
    <2>1. Settled(v, 3)
        <3>1. s \in Seq(Symbol)
            BY DEF Boxed
        <3>2. /\ Cardinality(Closed(s)) \in Nat /\ Cardinality(Closed(v)) \in Nat
              /\ Cardinality(Closed(v)) < Cardinality(Closed(s))
            BY <1>2, <3>1, FewerBoxes
        <3>3. Cardinality(Closed(v)) <= 3
            BY <1>5, <3>2
        <3>4. IsFiniteSet(Closed(v))
            <4>1. Closed(v) \subseteq 1..Len(v)
                BY DEF Closed
            <4>2. Len(v) \in Nat
                BY <1>2, LenProperties
            <4>3. IsFiniteSet(1..Len(v))
                BY <4>2, FS_Interval
            <4> QED
                BY <4>1, <4>3, FS_Subset
        <3> QED
            BY <1>2, <3>3, <3>4 DEF Settled
    <2> HIDE DEF v
    <2>2. Settled(Unwrap(v), 2)
        BY <2>1, Settling
    <2>3. Settled(Unwrap(Unwrap(v)), 1)
        BY <2>2, Settling
    <2>4. Settled(Unwrap(Unwrap(Unwrap(v))), 0)
        BY <2>3, Settling
    <2> QED
        BY <2>4, SettledAtLast
<1> QED
    BY <1>2, <1>3, <1>4, <1>5

-----------------------------------------------------------------------------
(* The theorems *)

\* A completion is a sequence of symbols no longer than the bound, and its tokens are counted
\* at each of them.
IInv ==
    /\ text \in Seq(Symbol) /\ Len(text) <= MaxLen
    /\ begun \in Seq(Nat) /\ Len(begun) = Len(text)

\* The tokens of a part of a completion are counted.
LEMMA BeforeTyped ==
    ASSUME IInv, NEW i \in 0..Len(text)
    PROVE  Before(i) \in Nat
<1>1. begun \in Seq(Nat) /\ Len(begun) = Len(text) /\ Len(text) \in Nat
    BY LenProperties DEF IInv
<1>2. i # 0 => begun[i] \in Nat
    BY <1>1, ElementOfSeq
<1> QED
    BY <1>2 DEF Before

\* It is so from the empty completion on, symbol by symbol.
LEMMA Inductive == Spec => []IInv
<1>1. Init => IInv
    <2> SUFFICES ASSUME Init PROVE IInv
        OBVIOUS
    <2>1. /\ text \in Seq(Symbol) /\ Len(text) = 0
          /\ begun \in Seq(Nat) /\ Len(begun) = 0
        BY EmptySeq DEF Init
    <2>2. MaxLen \in Nat
        BY ExtractionAssumption
    <2>3. Len(text) <= MaxLen
        BY <2>1, <2>2
    <2> QED
        BY <2>1, <2>3 DEF IInv
<1>2. IInv /\ [Next]_vars => IInv'
    <2> SUFFICES ASSUME IInv, [Next]_vars PROVE IInv'
        OBVIOUS
    <2>1. ASSUME NEW c \in Symbol, NEW k \in Density, Emit(c, k) PROVE IInv'
        <3> DEFINE n == Before(Len(text)) + k
        <3>1. text' = Append(text, c) /\ Len(text) < MaxLen /\ begun' = Append(begun, n)
            BY <2>1 DEF Emit
        <3>2. /\ text \in Seq(Symbol) /\ Len(text) \in Nat
              /\ begun \in Seq(Nat) /\ Len(begun) = Len(text)
            BY LenProperties DEF IInv
        <3>3. Append(text, c) \in Seq(Symbol) /\ Len(Append(text, c)) = Len(text) + 1
            BY <3>2, AppendProperties
        <3>4. n \in Nat
            <4>1. Before(Len(text)) \in Nat
                BY <3>2, BeforeTyped
            <4>2. k \in Nat
                BY ExtractionAssumption
            <4> QED
                BY <4>1, <4>2
        <3> HIDE DEF n
        <3>5. Append(begun, n) \in Seq(Nat) /\ Len(Append(begun, n)) = Len(begun) + 1
            BY <3>2, <3>4, AppendProperties
        <3>6. MaxLen \in Nat
            BY ExtractionAssumption
        <3>7. /\ text' \in Seq(Symbol) /\ Len(text') <= MaxLen
              /\ begun' \in Seq(Nat) /\ Len(begun') = Len(text')
            BY <3>1, <3>2, <3>3, <3>5, <3>6
        <3> QED
            BY <3>7 DEF IInv
    <2>2. CASE UNCHANGED vars
        BY <2>2 DEF IInv, vars
    <2> QED
        BY <2>1, <2>2 DEF Next
<1> QED
    BY <1>1, <1>2, PTL DEF Spec

\* Every completion the grader reads is one of symbols, no longer than the bound.
THEOREM TypeCorrect == Spec => []TypeOK
<1>1. IInv => TypeOK
    <2> SUFFICES ASSUME IInv PROVE TypeOK
        OBVIOUS
    <2>1. text \in Seq(Symbol) /\ DOMAIN text = 1..Len(text)
        BY LenProperties DEF IInv
    <2>2. \A x \in 1..Len(text) : text[x] \in Symbol
        BY <2>1, ElementOfSeq
    <2>3. begun \in Seq(Nat) /\ DOMAIN begun = 1..Len(begun)
        BY LenProperties DEF IInv
    <2>4. \A x \in 1..Len(begun) : begun[x] \in Nat
        BY <2>3, ElementOfSeq
    <2> QED
        BY <2>1, <2>2, <2>3, <2>4 DEF TypeOK, IInv, ToSet
<1> QED
    BY <1>1, Inductive, PTL

\* iter_boxed takes each outermost balanced box of any completion, in order, and nothing else
\* (extract.py:41-60).
THEOREM BoxesAreOutermost == Spec => []OutermostBoxes
<1>1. IInv => OutermostBoxes
    <2> SUFFICES ASSUME IInv PROVE OutermostBoxes
        OBVIOUS
    <2>1. Len(text) \in Nat
        BY LenProperties DEF IInv
    <2>2. Balanced = Closed(text)
        BY DEF Balanced, Closed
    <2>3. Outermost = Outer(text)
        BY <2>2 DEF Outermost, Outer
    <2>4. \A i \in Outermost : {j \in Outermost : j <= i} = UpTo(text, i)
        BY <2>3 DEF UpTo
    <2>5. Len(iter_boxed(text)) = Cardinality(Outermost)
        BY <2>1, <2>3, BoxesTaken
    <2>6. \A i \in Outermost :
             iter_boxed(text)[Cardinality({j \in Outermost : j <= i})] = Content(text, i)
        BY <2>1, <2>3, <2>4, BoxesTaken
    <2> QED
        BY <2>5, <2>6 DEF OutermostBoxes
<1> QED
    BY <1>1, Inductive, PTL

\* A box around a completion that is a box is taken as one, however deep they nest, and keeps
\* the answer as far as the four rounds of _unwrap_nested reach (extract.py:42-46, 64-72).
THEOREM WrappingHarmless == Spec => []WrapHarmless
<1>1. IInv => WrapHarmless
    <2> SUFFICES ASSUME IInv, text # <<>>, text[1] = Box, Close(text, 1) = Len(text)
                 PROVE  LET wrapped == <<Box>> \o text \o <<"}">>
                        IN  /\ boxed_strict(wrapped) = boxed_last(wrapped)
                            /\ Cardinality(Balanced) <= 4 => boxed_last(wrapped) = boxed_last(text)
                            /\ Unwrap(boxed_last(wrapped)) = boxed_last(text)
        BY DEF WrapHarmless
    <2>1. Boxed(text)
        BY DEF Boxed, IInv
    <2>2. Balanced = Closed(text)
        BY DEF Balanced, Closed
    <2>3. Wrapped(text) = <<Box>> \o text \o <<"}">>
        BY DEF Wrapped
    <2> QED
        BY <2>1, <2>2, <2>3, WrapKeepsAnswer
<1> QED
    BY <1>1, Inductive, PTL

\* A tail of any length decides as the completion does when it holds the last box, or all of
\* the last run of digits (pool.py:19).
THEOREM TailIsEnough == Spec => []TailDecides
<1>1. IInv => TailDecides
    <2> SUFFICES ASSUME IInv PROVE TailDecides
        OBVIOUS
    <2> DEFINE tail == clip_tail(text)
               cut == Len(text) - Len(tail)
    <2>1. TailOf(text, tail, cut)
        BY ClippedIsTail DEF IInv
    <2>2. Balanced = Closed(text)
        BY DEF Balanced, Closed
    <2>3. Outermost = Outer(text)
        BY <2>2 DEF Outermost, Outer
    <2> HIDE DEF tail, cut
    <2>4. Outermost # {} /\ Max(Outermost) > cut => boxed_last(tail) = boxed_last(text)
        BY <2>1, <2>3, TailHoldsLast
    <2>5. LastRun(text) # {} /\ Min(LastRun(text)) > cut => last_int(tail) = last_int(text)
        BY <2>1, TailHoldsRun
    <2> QED
        BY <2>4, <2>5 DEF TailDecides, tail, cut
<1> QED
    BY <1>1, Inductive, PTL

\* The position recorded for an answer is one of the completion's tokens, not late where the
\* text before the answer is as dense in tokens as the whole, and not early where it is no
\* denser and all of it was read (tokenpos.py:18-36, runner.py:77-80).
THEOREM PositionWithinCalibration == Spec => []PositionCalibrated
<1>1. IInv => PositionCalibrated
    <2> DEFINE N == n_completion_tokens
               place == FindAnswer(text, boxed_last(clip_tail(text)))
               pos == answer_token_pos(text, N)
    <2> SUFFICES ASSUME IInv, pos # NO_ANSWER
                 PROVE  /\ pos \in 0..N
                        /\ Before(place) * Len(text) >= place * N => pos <= Before(place)
                        /\ Len(text) <= TAIL /\ Before(place) * Len(text) <= place * N
                               => pos >= Before(place)
        BY DEF PositionCalibrated
    <2>1. text \in Seq(Symbol) /\ Len(text) \in Nat
        BY LenProperties DEF IInv
    <2>2. boxed_last(clip_tail(text)) # <<>>
        BY DEF answer_token_pos
    <2>3. N \in Nat
        BY <2>1, BeforeTyped DEF n_completion_tokens
    <2>4. place \in 0..Len(text)
        BY <2>1, <2>2, PlaceTyped
    <2>5. Before(place) \in Nat
        <3> HIDE DEF place
        <3> QED
            BY <2>4, BeforeTyped
    <2> HIDE DEF N
    <2> QED
        BY <2>1, <2>2, <2>3, <2>5, PositionOf
<1> QED
    BY <1>1, Inductive, PTL
===============================================================================
