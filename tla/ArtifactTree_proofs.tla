-------------------------- MODULE ArtifactTree_proofs --------------------------
(***************************************************************************)
(* Theorems about ArtifactTree for every number of problems and samples,   *)
(* every set of chunk sizes and fleet sizes and every number of edits.     *)
(***************************************************************************)
EXTENDS ArtifactTree, Integers, FiniteSetTheorems, WellFoundedInduction, TLAPS

\* Every non-empty set of naturals has a least element.
LEMMA Least ==
    ASSUME NEW T, T \subseteq Nat, T # {}
    PROVE  \E x \in T : \A y \in T : x <= y
<1>1. IsWellFoundedOn(OpToRel(<, Nat), Nat)
  BY NatLessThanWellFounded
<1>2. PICK x \in T : \A y \in T : ~ (<<y, x>> \in OpToRel(<, Nat))
  BY <1>1, WFMin
<1>3. \A y \in T : ~ (y < x)
  BY <1>2 DEF OpToRel
<1> QED
  BY <1>3

\* Below n a number is its own remainder, and adding n does not change a remainder.
LEMMA Remainders ==
    ASSUME NEW n \in Nat \ {0}, NEW a \in 0..n - 1
    PROVE  /\ a % n = a
           /\ (a + n) % n = a
           /\ \A i \in Nat : i % n = a /\ i < a + n => i = a
<1>1. a % n = a
  BY SMTT(30)
<1>2. (a + n) % n = a
  BY SMTT(30)
<1>3. ASSUME NEW i \in Nat, i % n = a, i < a + n PROVE i = a
  BY <1>3, SMTT(30)
<1> QED
  BY <1>1, <1>2, <1>3

\* Round robin over fewer workers never gives disjoint shards another shape: if each of the
\* m shards was cut for at most m workers and no two overlap, all were cut for m.
LEMMA Cover ==
    ASSUME NEW m \in Nat \ {0}, NEW A,
           \A w \in 0..P - 1 : w < m =>
               \E n \in 1..m : w < n /\ A[w] = {i \in Problem : i % n = w},
           \A w, x \in 0..P - 1 : w < m /\ x < m /\ w # x => A[w] \cap A[x] = {}
    PROVE  \A w \in 0..P - 1 : w < m => A[w] = {i \in Problem : i % m = w}
<1> DEFINE B(w) == {i \in Problem : i % m = w}
           Bad == {w \in 0..P - 1 : w < m /\ A[w] # B(w)}
<1> SUFFICES ASSUME Bad # {} PROVE FALSE
  OBVIOUS
<1>0. P \in Nat \ {0}
  BY TreeAssumption
<1>1. PICK w \in Bad : \A y \in Bad : w <= y
  <2>1. Bad \subseteq Nat
    BY <1>0
  <2> QED
    BY <2>1, Least
<1>2. w \in 0..P - 1 /\ w < m /\ A[w] # B(w)
  BY <1>1
<1>3. PICK n \in 1..m : w < n /\ A[w] = {i \in Problem : i % n = w}
  BY <1>2
<1>4. n # m
  BY <1>2, <1>3
<1>5. n \in Nat \ {0} /\ n < m /\ w \in 0..n - 1 /\ w \in 0..m - 1
  BY <1>0, <1>2, <1>3, <1>4
<1>6. CASE w + n >= P
  <2>1. ASSUME NEW l \in {n, m}, NEW i \in Problem PROVE i % l = w <=> i = w
    <3>1. l \in Nat \ {0} /\ w \in 0..l - 1 /\ i \in Nat /\ i < w + l
      BY <1>0, <1>2, <1>5, <1>6, <2>1 DEF Problem
    <3>2. w % l = w
      BY <3>1, Remainders
    <3>3. i % l = w => i = w
      BY <3>1, Remainders
    <3> QED
      BY <3>2, <3>3
  <2>2. A[w] = B(w)
    BY <1>3, <2>1
  <2> QED
    BY <1>2, <2>2
<1>7. CASE w + n < P
  <2>1. w + n \in A[w]
    <3>1. (w + n) % n = w
      BY <1>5, Remainders
    <3>2. w + n \in Problem
      BY <1>0, <1>2, <1>5, <1>7 DEF Problem
    <3> QED
      BY <1>3, <3>1, <3>2
  <2>2. CASE w + n < m
    <3>1. w + n \in 0..P - 1 /\ w + n # w
      BY <1>0, <1>2, <1>5, <1>7
    <3>2. PICK l \in 1..m : w + n < l /\ A[w + n] = {i \in Problem : i % l = w + n}
      BY <2>2, <3>1
    <3>3. w + n \in A[w + n]
      <4>1. l \in Nat \ {0} /\ w + n \in 0..l - 1
        BY <3>1, <3>2
      <4>2. (w + n) % l = w + n
        BY <4>1, Remainders
      <4> QED
        BY <3>1, <3>2, <4>2 DEF Problem
    <3> QED
      BY <1>2, <2>1, <2>2, <3>1, <3>3
  <2>3. CASE w + n >= m
    <3> DEFINE x == w + n - m
    <3>1. x \in 0..P - 1 /\ x < w /\ x < m /\ x + m = w + n /\ x \in 0..m - 1
      BY <1>0, <1>2, <1>5, <2>3
    <3>2. A[x] = B(x)
      BY <1>1, <1>2, <3>1
    <3>3. w + n \in B(x)
      <4>1. (x + m) % m = x
        BY <3>1, Remainders
      <4> QED
        BY <1>0, <1>2, <1>5, <1>7, <3>1, <4>1 DEF Problem
    <3> QED
      BY <1>2, <2>1, <3>1, <3>2, <3>3
  <2> QED
    BY <1>0, <1>2, <1>5, <2>2, <2>3
<1> QED
  BY <1>0, <1>2, <1>5, <1>6, <1>7

-----------------------------------------------------------------------------
(* Chunks *)

\* Products keep the order.
LEMMA Monotone ==
    ASSUME NEW a \in Nat, NEW b \in Nat, NEW c \in Nat, a <= b
    PROVE  a * c <= b * c
BY SMTT(30)

\* A sample number lies in one chunk and in no other.
LEMMA OneChunk ==
    ASSUME NEW c \in Nat \ {0}, NEW s \in Nat, NEW k \in Nat
    PROVE  k * c <= s /\ s < k * c + c <=> k = s \div c
<1> DEFINE q == s \div c
<1>1. q \in Nat /\ q * c <= s /\ s < q * c + c
  BY SMTT(30)
<1> HIDE DEF q
<1>2. CASE k < q
  <2>1. (k + 1) * c <= q * c
    BY <1>1, <1>2, Monotone
  <2>2. (k + 1) * c = k * c + c
    BY SMT
  <2> QED
    BY <1>1, <1>2, <2>1, <2>2
<1>3. CASE q < k
  <2>1. (q + 1) * c <= k * c
    BY <1>1, <1>3, Monotone
  <2>2. (q + 1) * c = q * c + c
    BY <1>1, SMT
  <2> QED
    BY <1>1, <1>3, <2>1, <2>2
<1>4. CASE k = q
  BY <1>1, <1>4
<1>5. (k * c <= s /\ s < k * c + c) <=> k = q
  BY <1>1, <1>2, <1>3, <1>4
<1> QED
  BY <1>5 DEF q

\* The chunks of N samples are those below N \div c, and end within N.
LEMMA ChunkEnds ==
    ASSUME NEW c \in Chunk, NEW k \in Nat
    PROVE  k < N \div c <=> k * c + c <= N
<1>1. N \in Nat \ {0} /\ c \in 1..N /\ N % c = 0
  BY TreeAssumption
<1> DEFINE q == N \div c
<1>2. q \in Nat /\ N = q * c
  BY <1>1, SMTT(30)
<1> HIDE DEF q
<1>3. (k + 1) * c = k * c + c
  BY <1>1, SMT
<1>4. CASE k < q
  BY <1>1, <1>2, <1>3, <1>4, Monotone
<1>5. CASE ~ (k < q)
  <2>1. q * c <= k * c
    BY <1>1, <1>2, <1>5, Monotone
  <2> QED
    BY <1>1, <1>2, <1>5, <2>1
<1> QED
  BY <1>4, <1>5 DEF q

-----------------------------------------------------------------------------
(* The tree *)

\* What generating unit u under config c puts on disk.
Content(c, u, t) == [rows |-> RowsOf(c, u), take |-> t]

\* A shard and its marker as a generation under c leaves them.  A fleet that only grows was
\* no larger then than the config has it now; before the first edit the plan was c already.
MadeFor(u, c) ==
    /\ u \in Units(c)
    /\ \E t \in Take : /\ mark[u] = [id |-> Id(c, u), sha |-> Content(c, u, t)]
                       /\ shard[u] = Content(c, u, t)
    /\ Shrink \/ c.workers <= cfg.workers
    /\ edits = 0 => c = plan

Shapes ==
    /\ cfg \in Config /\ plan \in Config
    /\ shard \in [Path -> Shard \cup {None}]
    /\ mark = [u \in Path |-> mark[u]]
    /\ graded \in [Path -> Shard \cup {None}]
    /\ gmark \in [Path -> BOOLEAN]
    /\ edits \in 0..MaxEdits

Planned == edits = 0 => plan = cfg

Marked == \A u \in Path : mark[u] # None => \E c \in Config : MadeFor(u, c)

BusyWith ==
    \/ busy = Idle
    \/ \E u \in Units(cfg), t \in Take :
          /\ busy = [kind |-> "gen", at |-> u]
          /\ mark[u] = None /\ shard[u] = Content(cfg, u, t)
    \/ \E u \in Path :
          /\ busy = [kind |-> "grade", at |-> u]
          /\ mark[u] # None /\ graded[u] = shard[u]

\* Unless graded shards are deleted, a grade marker stands for the shard beside it.
GradesFresh ==
    "redo" \notin Commands \/ edits = 0 =>
        \A u \in Path : gmark[u] => mark[u] # None /\ graded[u] = shard[u]

IInv == Shapes /\ Planned /\ Marked /\ BusyWith /\ GradesFresh

\* The facts about config values that the steps use.
LEMMA ConfigType ==
    ASSUME NEW c \in Config
    PROVE  /\ c.chunk \in Chunk /\ c.workers \in Workers
           /\ c.chunk \in 1..N /\ c.workers \in Nat \ {0} /\ N % c.chunk = 0
           /\ Units(c) \subseteq Path
BY TreeAssumption DEF Config, Units

\* A unit generates samples of the dataset.
LEMMA ContentType ==
    ASSUME NEW c \in Config, NEW u \in Units(c), NEW t \in Take
    PROVE  Content(c, u, t) \in Shard /\ Content(c, u, t) # None
<1>1. u \in Path /\ u[2] \in Nat /\ u[2] < N \div c.chunk /\ c.chunk \in Chunk
  BY ConfigType, TreeAssumption DEF Units, Path
<1>2. u[2] * c.chunk \in Nat /\ u[2] * c.chunk + c.chunk <= N
  <2>1. c.chunk \in Nat
    BY ConfigType
  <2> QED
    BY <1>1, <2>1, ChunkEnds
<1>3. Lo(c, u[2])..Hi(c, u[2]) - 1 \subseteq 0..N - 1
  BY <1>2, ConfigType, TreeAssumption DEF Lo, Hi
<1>4. Partition(c, u[1]) \subseteq Problem
  BY DEF Partition
<1>5. RowsOf(c, u) \subseteq Sample
  BY <1>3, <1>4 DEF RowsOf, Sample
<1> QED
  BY <1>5, NoneAssumption DEF Content, Shard

LEMMA InitInv ==
    ASSUME Init
    PROVE  IInv
<1>1. Shapes /\ Planned
  BY TreeAssumption, ConfigType DEF Init, Shapes, Planned
<1> QED
  BY <1>1 DEF Init, IInv, Marked, BusyWith, GradesFresh, Idle

\* What stays true of the marked units when only config and edits change.
LEMMA EditKeeps ==
    ASSUME IInv, busy = Idle, cfg' \in Config, Edit,
           Shrink \/ cfg.workers <= cfg'.workers,
           UNCHANGED <<plan, shard, mark, graded, gmark, busy>>
    PROVE  IInv'
<1>1. edits' \in 0..MaxEdits /\ edits' # 0
  BY TreeAssumption DEF Edit, IInv, Shapes
<1>2. Shapes'
  BY <1>1 DEF IInv, Shapes
<1>3. cfg.workers \in Nat /\ cfg'.workers \in Nat
  BY ConfigType DEF IInv, Shapes
<1>4. Planned'
  BY <1>1 DEF Planned
<1>5. Marked'
  <2> SUFFICES ASSUME NEW u \in Path, mark[u] # None PROVE \E c \in Config : MadeFor(u, c)'
    BY DEF Marked
  <2>1. PICK c \in Config : MadeFor(u, c)
    BY DEF IInv, Marked
  <2>2. c.workers \in Nat
    BY ConfigType
  <2>3. MadeFor(u, c)'
    BY <1>1, <1>3, <2>1, <2>2 DEF MadeFor
  <2> QED
    BY <2>3
<1>6. BusyWith'
  BY DEF BusyWith
<1>7. GradesFresh'
  BY <1>1 DEF IInv, GradesFresh
<1> QED
  BY <1>2, <1>4, <1>5, <1>6, <1>7 DEF IInv

LEMMA RechunkStep ==
    ASSUME IInv, NEW c \in Chunk, Rechunk(c)
    PROVE  IInv'
<1>1. cfg' \in Config /\ cfg'.workers = cfg.workers /\ cfg.workers \in Nat
  BY ConfigType DEF Rechunk, IInv, Shapes, Config
<1> QED
  BY <1>1, EditKeeps DEF Rechunk

LEMMA ResizeStep ==
    ASSUME IInv, NEW n \in Workers, Resize(n)
    PROVE  IInv'
<1>1. cfg' \in Config /\ cfg'.workers = n /\ cfg.workers \in Nat /\ n \in Nat
  BY ConfigType, TreeAssumption DEF Resize, IInv, Shapes, Config
<1>2. Shrink \/ cfg.workers <= cfg'.workers
  BY <1>1 DEF Resize
<1> QED
  BY <1>1, <1>2, EditKeeps DEF Resize

LEMMA DeleteStep ==
    ASSUME IInv, NEW u \in Path, Delete(u)
    PROVE  IInv'
<1>1. edits' \in 0..MaxEdits /\ edits' # 0
  BY TreeAssumption DEF Delete, Edit, IInv, Shapes
<1>2. mark' = [mark EXCEPT ![u] = None] /\ mark' = [x \in Path |-> IF x = u THEN None ELSE mark[x]]
  BY DEF Delete, IInv, Shapes
<1>3. \A x \in Path : x # u => shard'[x] = shard[x]
  BY DEF Delete, IInv, Shapes
<1>4. Shapes'
  BY <1>1, <1>2 DEF Delete, IInv, Shapes
<1>5. Marked'
  <2> SUFFICES ASSUME NEW x \in Path, mark'[x] # None PROVE \E c \in Config : MadeFor(x, c)'
    BY DEF Marked
  <2>1. x # u /\ mark'[x] = mark[x] /\ shard'[x] = shard[x]
    BY <1>2, <1>3
  <2>2. PICK c \in Config : MadeFor(x, c)
    BY <2>1 DEF IInv, Marked
  <2>3. MadeFor(x, c)'
    BY <1>1, <2>1, <2>2 DEF MadeFor, Delete
  <2> QED
    BY <2>3
<1>6. BusyWith' /\ Planned'
  BY <1>1 DEF Delete, IInv, BusyWith, Planned
<1>7. GradesFresh'
  <2> SUFFICES ASSUME "redo" \notin Commands, NEW x \in Path, gmark'[x]
               PROVE  mark'[x] # None /\ graded'[x] = shard'[x]
    BY <1>1 DEF GradesFresh
  <2>1. x # u
    BY DEF Delete
  <2> QED
    BY <1>2, <1>3, <2>1 DEF Delete, IInv, GradesFresh
<1> QED
  BY <1>4, <1>5, <1>6, <1>7 DEF IInv

LEMMA WritePlanStep ==
    ASSUME IInv, WritePlan
    PROVE  IInv'
<1>1. Shapes' /\ Planned' /\ BusyWith' /\ GradesFresh'
  BY ConfigType DEF WritePlan, IInv, Shapes, Planned, BusyWith, GradesFresh
<1>2. Marked'
  <2> SUFFICES ASSUME NEW u \in Path, mark[u] # None PROVE \E c \in Config : MadeFor(u, c)'
    BY DEF Marked, WritePlan
  <2>1. PICK c \in Config : MadeFor(u, c)
    BY DEF IInv, Marked
  <2>2. MadeFor(u, c)'
    BY <2>1 DEF MadeFor, WritePlan, IInv, Planned
  <2> QED
    BY <2>2
<1> QED
  BY <1>1, <1>2 DEF IInv

LEMMA WriteShardStep ==
    ASSUME IInv, NEW u \in Path, NEW t \in Take, WriteShard(u, t)
    PROVE  IInv'
<1>1. u \in Units(cfg) /\ mark[u] = None /\ cfg \in Config
  BY DEF WriteShard, Remaining, IInv, Shapes
<1>2. shard' = [shard EXCEPT ![u] = Content(cfg, u, t)]
  BY DEF WriteShard, Content
<1>3. shard'[u] = Content(cfg, u, t) /\ \A x \in Path : x # u => shard'[x] = shard[x]
  BY <1>2 DEF IInv, Shapes
<1>4. Shapes' /\ Planned'
  BY <1>1, <1>2, ContentType DEF WriteShard, IInv, Shapes, Planned
<1>5. Marked'
  <2> SUFFICES ASSUME NEW x \in Path, mark[x] # None PROVE \E c \in Config : MadeFor(x, c)'
    BY DEF Marked, WriteShard
  <2>1. PICK c \in Config : MadeFor(x, c)
    BY DEF IInv, Marked
  <2>2. shard'[x] = shard[x]
    BY <1>1, <1>3
  <2>3. MadeFor(x, c)'
    BY <2>1, <2>2 DEF MadeFor, WriteShard
  <2> QED
    BY <2>3
<1>6. BusyWith'
  BY <1>1, <1>3 DEF WriteShard, BusyWith
<1>7. GradesFresh'
  BY <1>1, <1>3 DEF WriteShard, IInv, GradesFresh
<1> QED
  BY <1>4, <1>5, <1>6, <1>7 DEF IInv

\* A worker's marker: the unit at hand was made under the config.
LEMMA WriteMarkerStep ==
    ASSUME IInv, WriteMarker
    PROVE  IInv'
<1>1. PICK u \in Units(cfg), t \in Take :
          /\ busy = [kind |-> "gen", at |-> u]
          /\ mark[u] = None /\ shard[u] = Content(cfg, u, t)
  BY DEF WriteMarker, IInv, BusyWith, Idle
<1>2. u \in Path /\ cfg \in Config /\ cfg.workers \in Nat
  BY ConfigType DEF IInv, Shapes
<1>3. mark' = [mark EXCEPT ![u] = [id |-> Id(cfg, u), sha |-> Content(cfg, u, t)]]
  BY <1>1 DEF WriteMarker
<1>4. /\ mark'[u] = [id |-> Id(cfg, u), sha |-> Content(cfg, u, t)]
      /\ \A x \in Path : x # u => mark'[x] = mark[x]
      /\ mark' = [x \in Path |-> mark'[x]]
  BY <1>2, <1>3 DEF IInv, Shapes
<1>5. Shapes' /\ Planned' /\ BusyWith'
  BY <1>4 DEF WriteMarker, IInv, Shapes, Planned, BusyWith
<1>6. Marked'
  <2> SUFFICES ASSUME NEW x \in Path, mark'[x] # None PROVE \E c \in Config : MadeFor(x, c)'
    BY DEF Marked
  <2>1. CASE x = u
    <3>1. PICK c \in Config : c = cfg
      BY <1>2
    <3>2. shard'[x] = Content(c, x, t) /\ mark'[x] = [id |-> Id(c, x), sha |-> Content(c, x, t)]
      BY <1>1, <1>4, <2>1, <3>1 DEF WriteMarker
    <3>3. /\ x \in Units(c) /\ c.workers <= cfg'.workers
          /\ edits' = 0 => c = plan'
      BY <1>1, <1>2, <2>1, <3>1 DEF WriteMarker, IInv, Planned
    <3>4. MadeFor(x, c)'
      BY <3>2, <3>3 DEF MadeFor
    <3> QED
      BY <3>4
  <2>2. CASE x # u
    <3>1. PICK c \in Config : MadeFor(x, c)
      BY <1>4, <2>2 DEF IInv, Marked
    <3>2. MadeFor(x, c)'
      BY <1>4, <2>2, <3>1 DEF MadeFor, WriteMarker
    <3> QED
      BY <3>2
  <2> QED
    BY <2>1, <2>2
<1>7. GradesFresh'
  BY <1>1, <1>2, <1>4 DEF WriteMarker, IInv, GradesFresh
<1> QED
  BY <1>5, <1>6, <1>7 DEF IInv

LEMMA GradeShardStep ==
    ASSUME IInv, NEW u \in Path, GradeShard(u)
    PROVE  IInv'
<1>1. /\ graded'[u] = shard[u] /\ mark[u] # None /\ ~gmark[u]
      /\ \A x \in Path : x # u => graded'[x] = graded[x]
  BY DEF GradeShard, IInv, Shapes
<1>2. Shapes' /\ Planned'
  BY DEF GradeShard, IInv, Shapes, Planned
<1>3. Marked'
  BY DEF GradeShard, IInv, Marked, MadeFor
<1>4. BusyWith'
  BY <1>1 DEF GradeShard, BusyWith
<1>5. GradesFresh'
  BY <1>1 DEF GradeShard, IInv, GradesFresh
<1> QED
  BY <1>2, <1>3, <1>4, <1>5 DEF IInv

LEMMA MarkGradedStep ==
    ASSUME IInv, MarkGraded
    PROVE  IInv'
<1>1. PICK u \in Path :
          busy = [kind |-> "grade", at |-> u] /\ mark[u] # None /\ graded[u] = shard[u]
  BY DEF MarkGraded, IInv, BusyWith, Idle
<1>2. gmark' = [gmark EXCEPT ![u] = TRUE]
  BY <1>1 DEF MarkGraded
<1>3. Shapes' /\ Planned' /\ BusyWith'
  BY <1>2 DEF MarkGraded, IInv, Shapes, Planned, BusyWith
<1>4. Marked'
  BY DEF MarkGraded, IInv, Marked, MadeFor
<1>5. GradesFresh'
  BY <1>1, <1>2 DEF MarkGraded, IInv, Shapes, GradesFresh
<1> QED
  BY <1>3, <1>4, <1>5 DEF IInv

LEMMA CrashStep ==
    ASSUME IInv, Crash
    PROVE  IInv'
<1>1. Marked'
  BY DEF Crash, IInv, Marked, MadeFor
<1> QED
  BY <1>1 DEF Crash, IInv, Shapes, Planned, BusyWith, GradesFresh

LEMMA NextInv ==
    ASSUME IInv, [Next]_vars
    PROVE  IInv'
<1>1. CASE UNCHANGED vars
  <2>1. Marked'
    BY <1>1 DEF vars, IInv, Marked, MadeFor
  <2> QED
    BY <1>1, <2>1 DEF vars, IInv, Shapes, Planned, BusyWith, GradesFresh
<1> QED
  BY <1>1, RechunkStep, ResizeStep, DeleteStep, WritePlanStep, WriteShardStep, WriteMarkerStep,
     GradeShardStep, MarkGradedStep, CrashStep DEF Next

LEMMA Invariance == Spec => []IInv
BY InitInv, NextInv, PTL DEF Spec

\* Every variable keeps its type.
THEOREM TypeCorrect == Spec => []TypeOK
<1>1. ASSUME IInv PROVE TypeOK
  <2>1. ASSUME NEW u \in Path, mark[u] # None PROVE mark[u].sha \in Shard
    <3>1. PICK c \in Config : MadeFor(u, c)
      BY <1>1, <2>1 DEF IInv, Marked
    <3>2. PICK t \in Take : mark[u].sha = Content(c, u, t) /\ u \in Units(c)
      BY <3>1 DEF MadeFor
    <3> QED
      BY <3>2, ContentType
  <2>2. busy.kind \in {"idle", "gen", "grade"}
    BY <1>1 DEF IInv, BusyWith, Idle
  <2> QED
    BY <1>1, <2>1, <2>2 DEF IInv, Shapes, TypeOK
<1> QED
  BY <1>1, Invariance, PTL

-----------------------------------------------------------------------------
(* What a passing verify means *)

\* The marked planned units of a tree without orphans were cut into the plan's chunks.
LEMMA SameChunks ==
    ASSUME IInv, NoOrphans, NEW u \in Path, mark[u] # None
    PROVE  /\ u \in Units(plan)
           /\ \E n \in Workers :
                /\ u[1] < n /\ (Shrink \/ n <= cfg.workers)
                /\ shard[u].rows = {i \in Problem : i % n = u[1]}
                                     \X (Lo(plan, u[2])..Hi(plan, u[2]) - 1)
<1>1. PICK c \in Config : MadeFor(u, c)
  BY DEF IInv, Marked
<1>2. PICK v \in Units(plan) : Id(c, u) = Id(plan, v)
  BY <1>1 DEF NoOrphans, Ids, MadeFor
<1>3. plan \in Config /\ c.chunk \in Nat \ {0} /\ plan.chunk \in Nat \ {0}
  BY ConfigType DEF IInv, Shapes
<1>4. /\ u \in (0..P - 1) \X (0..N - 1) /\ v \in (0..P - 1) \X (0..N - 1)
      /\ u[2] \in Nat /\ v[2] \in Nat /\ u = <<u[1], u[2]>> /\ v = <<v[1], v[2]>>
  BY <1>2, <1>3, ConfigType, TreeAssumption DEF Path
<1>5. /\ u[1] = v[1] /\ u[2] * c.chunk = v[2] * plan.chunk
      /\ u[2] * c.chunk + c.chunk = v[2] * plan.chunk + plan.chunk
  BY <1>2 DEF Id, Lo, Hi
<1>6. c.chunk = plan.chunk
  <2>1. u[2] * c.chunk \in Nat /\ v[2] * plan.chunk \in Nat
    BY <1>3, <1>4
  <2> QED
    BY <1>3, <1>5, <2>1
<1>7. u[2] = v[2]
  <2> DEFINE s == u[2] * c.chunk
  <2>1. s \in Nat /\ s < s + c.chunk
    BY <1>3, <1>4
  <2>2. u[2] = s \div c.chunk
    BY <1>3, <1>4, <2>1, OneChunk
  <2>3. v[2] = s \div c.chunk
    BY <1>3, <1>4, <1>5, <1>6, <2>1, OneChunk
  <2> QED
    BY <2>2, <2>3
<1>8. u = v
  BY <1>4, <1>5, <1>7
<1>9. shard[u].rows = Partition(c, u[1]) \X (Lo(plan, u[2])..Hi(plan, u[2]) - 1)
  BY <1>1, <1>6 DEF MadeFor, Content, RowsOf, Lo, Hi
<1>10. u[1] < c.workers
  BY <1>1 DEF MadeFor, Units
<1>11. c.workers \in Workers /\ (Shrink \/ c.workers <= cfg.workers)
  BY <1>1, ConfigType DEF MadeFor
<1> QED
  BY <1>2, <1>8, <1>9, <1>10, <1>11 DEF Partition

\* A sample number of the dataset lies in exactly one planned chunk.
LEMMA ChunkOf ==
    ASSUME NEW c \in Config, NEW s \in 0..N - 1
    PROVE  /\ s \div c.chunk \in 0..N - 1 /\ s \div c.chunk < N \div c.chunk
           /\ \A k \in 0..N - 1 : s \in Lo(c, k)..Hi(c, k) - 1 <=> k = s \div c.chunk
<1>1. c.chunk \in Nat \ {0} /\ c.chunk \in Chunk /\ s \in Nat /\ N \in Nat
  BY ConfigType, TreeAssumption
<1> DEFINE q == s \div c.chunk
<1>2. q \in Nat
  BY <1>1, SMTT(30)
<1> HIDE DEF q
<1>3. q * c.chunk <= s /\ s < q * c.chunk + c.chunk
  BY <1>1, <1>2, OneChunk DEF q
<1>4. q < N \div c.chunk
  <2>1. N \in Nat \ {0} /\ c.chunk \in 1..N /\ N % c.chunk = 0
    BY ConfigType, TreeAssumption
  <2> DEFINE l == N \div c.chunk
  <2>2. l \in Nat /\ N = l * c.chunk
    BY <1>1, <2>1, SMTT(30)
  <2> HIDE DEF l
  <2>3. SUFFICES ASSUME ~ (q < l) PROVE FALSE
    BY DEF l
  <2>4. l * c.chunk <= q * c.chunk
    BY <1>1, <1>2, <2>2, <2>3, Monotone
  <2>5. q * c.chunk \in Nat
    BY <1>1, <1>2
  <2> QED
    BY <1>1, <1>3, <2>2, <2>4, <2>5
<1>5. q \in 0..N - 1
  <2>1. q <= q * c.chunk
    <3>1. 1 * q <= c.chunk * q
      BY <1>1, <1>2, Monotone
    <3>2. 1 * q = q /\ c.chunk * q = q * c.chunk
      BY <1>1, <1>2
    <3> QED
      BY <3>1, <3>2
  <2>2. q * c.chunk \in Nat
    BY <1>1, <1>2
  <2> QED
    BY <1>1, <1>2, <1>3, <2>1, <2>2
<1>6. ASSUME NEW k \in 0..N - 1 PROVE s \in Lo(c, k)..Hi(c, k) - 1 <=> k = q
  <2>1. k \in Nat /\ k * c.chunk \in Nat
    BY <1>1
  <2>2. s \in Lo(c, k)..Hi(c, k) - 1 <=> k * c.chunk <= s /\ s < k * c.chunk + c.chunk
    BY <1>1, <2>1 DEF Lo, Hi
  <2> QED
    BY <1>1, <2>1, <2>2, OneChunk DEF q
<1> QED
  BY <1>4, <1>5, <1>6 DEF q

\* verify.py:1-7: if the fleet only grew, a tree that passes and is complete against the plan
\* of the config as it now is holds every sample in exactly one planned shard.
THEOREM VerifiedTreeExact ==
    ASSUME ~Shrink
    PROVE  Spec => []VerifiedExact
<1>1. ASSUME IInv PROVE VerifiedExact
  <2> SUFFICES ASSUME plan = cfg, GateOK, Done = Units(plan), NEW s \in Sample
               PROVE  Cardinality({u \in Done : s \in shard[u].rows}) = 1
    BY DEF VerifiedExact, EachSampleOnce
  <2>1. /\ plan \in Config /\ plan.workers \in Nat \ {0} /\ P \in Nat \ {0} /\ N \in Nat \ {0}
        /\ Done \subseteq Path /\ \A u \in Done : mark[u] # None
    BY <1>1, ConfigType, TreeAssumption DEF IInv, Shapes, Done
  <2>2. s = <<s[1], s[2]>> /\ s[1] \in Problem /\ s[1] \in 0..P - 1 /\ s[2] \in 0..N - 1
    BY DEF Sample, Problem
  <2> DEFINE m == plan.workers
             k == s[2] \div plan.chunk
             A == [w \in 0..P - 1 |-> {i \in Problem : <<i, s[2]>> \in shard[<<w, k>>].rows}]
  <2>3. k \in 0..N - 1 /\ k < N \div plan.chunk /\ s[2] \in Lo(plan, k)..Hi(plan, k) - 1
    BY <2>1, <2>2, ChunkOf
  <2> HIDE DEF k
  <2>4. ASSUME NEW w \in 0..P - 1, w < m PROVE <<w, k>> \in Done
    <3>1. w \in Partition(plan, w)
      <4>1. w \in 0..m - 1
        BY <2>1, <2>4
      <4>2. w % m = w
        BY <2>1, <4>1, Remainders
      <4> QED
        BY <4>2 DEF Partition, Problem
    <3> QED
      BY <2>3, <2>4, <3>1 DEF Units, Path
  <2>5. ASSUME NEW w \in 0..P - 1, w < m
        PROVE  \E n \in 1..m : w < n /\ A[w] = {i \in Problem : i % n = w}
    <3>1. <<w, k>> \in Path /\ mark[<<w, k>>] # None
      BY <2>1, <2>4, <2>5
    <3>2. PICK n \in Workers :
              /\ w < n /\ n <= plan.workers
              /\ shard[<<w, k>>].rows = {i \in Problem : i % n = w}
                                          \X (Lo(plan, k)..Hi(plan, k) - 1)
      BY <1>1, <3>1, SameChunks DEF GateOK
    <3>3. n \in 1..m
      BY <2>1, <3>2, TreeAssumption
    <3>4. A[w] = {i \in Problem : i % n = w}
      BY <2>3, <2>5, <3>2
    <3> QED
      BY <3>2, <3>3, <3>4
  <2>6. ASSUME NEW w \in 0..P - 1, NEW x \in 0..P - 1, w < m, x < m, w # x
        PROVE  A[w] \cap A[x] = {}
    <3>1. <<w, k>> \in Done /\ <<x, k>> \in Done /\ <<w, k>> # <<x, k>>
      BY <2>4, <2>6
    <3>2. shard[<<w, k>>].rows \cap shard[<<x, k>>].rows = {}
      BY <3>1 DEF GateOK, SeedsUnique
    <3> QED
      BY <2>6, <3>2
  <2> HIDE DEF A
  <2>7. \A w \in 0..P - 1 : w < m => A[w] = {i \in Problem : i % m = w}
    BY <2>1, <2>5, <2>6, Cover
  <2> DEFINE w == s[1] % m
  <2>8. w \in 0..P - 1 /\ w < m
    BY <2>1, <2>2, SMTT(30)
  <2>9. <<w, k>> \in Done /\ s \in shard[<<w, k>>].rows
    <3>1. s[1] \in A[w]
      BY <2>2, <2>7, <2>8
    <3> QED
      BY <2>2, <2>4, <2>8, <3>1 DEF A
  <2> HIDE DEF w
  <2>10. {u \in Done : s \in shard[u].rows} = {<<w, k>>}
    BY <2>9 DEF GateOK, SeedsUnique
  <2> QED
    BY <2>10, FS_Singleton
<1> QED
  BY <1>1, Invariance, PTL

\* A grade marker beside a shard that verify finds planned: load_graded takes the file.
LEMMA LoadedIsDone ==
    ASSUME IInv, NoOrphans, "redo" \notin Commands \/ edits = 0, NEW u \in Loaded
    PROVE  u \in Done /\ graded[u] = shard[u]
<1>1. u \in Path /\ mark[u] # None /\ graded[u] = shard[u]
  BY DEF Loaded, IInv, GradesFresh
<1>2. u \in Units(plan)
  BY <1>1, SameChunks
<1> QED
  BY <1>1, <1>2 DEF Done

\* Unless graded shards are deleted, the analysis of a tree that verify passes reads the
\* grades of the answers in it (grade/runner.py:1-8).
THEOREM LoadedGradesAreOfTree ==
    ASSUME "redo" \notin Commands
    PROVE  Spec => []AnalysisSeesTree
<1>1. ASSUME IInv PROVE AnalysisSeesTree
  <2> SUFFICES ASSUME VerifyOK PROVE {graded[u] : u \in Loaded} = {shard[u] : u \in Done}
    BY DEF AnalysisSeesTree
  <2>1. \A u \in Loaded : u \in Done /\ graded[u] = shard[u]
    BY <1>1, LoadedIsDone DEF VerifyOK, GateOK
  <2>2. Done \subseteq Loaded
    BY <1>1, ConfigType DEF VerifyOK, Covered, Loaded, Done, IInv, Shapes
  <2> QED
    BY <2>1, <2>2
<1> QED
  BY <1>1, Invariance, PTL

-----------------------------------------------------------------------------
(* The run of an untouched config *)

\* Every marked shard of such a run is the plan's unit at its path.
LEMMA MarkedAsPlanned ==
    ASSUME IInv, edits = 0, NEW u \in Path, mark[u] # None
    PROVE  /\ u \in Units(plan) /\ mark[u].id = Id(plan, u)
           /\ shard[u] # None /\ shard[u] = mark[u].sha
           /\ shard[u].rows = RowsOf(plan, u)
<1>1. MadeFor(u, plan)
  BY DEF IInv, Marked, MadeFor
<1>2. plan \in Config
  BY DEF IInv, Shapes
<1>3. PICK t \in Take : /\ mark[u] = [id |-> Id(plan, u), sha |-> Content(plan, u, t)]
                        /\ shard[u] = Content(plan, u, t)
  BY <1>1 DEF MadeFor
<1>4. u \in Units(plan)
  BY <1>1 DEF MadeFor
<1>5. Content(plan, u, t) # None
  BY <1>2, <1>4, ContentType
<1> QED
  BY <1>3, <1>4, <1>5 DEF Content

\* The unit a sample belongs to: its shard by round robin, its chunk by division.
UnitOf(c, s) == <<s[1] % c.workers, s[2] \div c.chunk>>

\* Under one config a sample is generated by its unit and by no other.
LEMMA OneUnit ==
    ASSUME NEW c \in Config, NEW s \in Sample
    PROVE  /\ UnitOf(c, s) \in Units(c)
           /\ \A u \in Units(c) : s \in RowsOf(c, u) <=> u = UnitOf(c, s)
<1> DEFINE w == s[1] % c.workers
           k == s[2] \div c.chunk
<1>1. s = <<s[1], s[2]>> /\ s[1] \in 0..P - 1 /\ s[2] \in 0..N - 1
  BY DEF Sample, Problem
<1>2. P \in Nat \ {0} /\ c.workers \in Nat \ {0}
  BY ConfigType, TreeAssumption
<1>3. w \in 0..P - 1 /\ w < c.workers
  BY <1>1, <1>2, SMTT(30)
<1>4. /\ k \in 0..N - 1 /\ k < N \div c.chunk
      /\ \A l \in 0..N - 1 : s[2] \in Lo(c, l)..Hi(c, l) - 1 <=> l = k
  BY <1>1, ChunkOf
<1>5. s[1] \in Partition(c, w)
  BY <1>1 DEF Partition, Problem
<1> HIDE DEF w, k
<1>6. <<w, k>> \in Units(c)
  BY <1>3, <1>4, <1>5 DEF Units, Path
<1>7. ASSUME NEW u \in Units(c) PROVE s \in RowsOf(c, u) <=> u = <<w, k>>
  <2>1. u = <<u[1], u[2]>> /\ u[1] \in 0..P - 1 /\ u[2] \in 0..N - 1
    BY DEF Units, Path
  <2>2. s[1] \in Partition(c, u[1]) <=> u[1] = w
    BY <1>1 DEF Partition, Problem, w
  <2>3. s \in RowsOf(c, u) <=>
            s[1] \in Partition(c, u[1]) /\ s[2] \in Lo(c, u[2])..Hi(c, u[2]) - 1
    BY <1>1 DEF RowsOf
  <2> QED
    BY <1>4, <2>1, <2>2, <2>3
<1> QED
  BY <1>6, <1>7 DEF UnitOf, w, k

\* Without an edit verify accepts a finished and graded run: no false alarm (verify.py:35-66).
THEOREM FinishedRunIsAccepted == Spec => []FinishedRunVerifies
<1>1. ASSUME IInv PROVE FinishedRunVerifies
  <2> SUFFICES ASSUME edits = 0, Done = Units(plan), Covered
               PROVE  NoOrphans /\ ShardsIntact /\ SeedsUnique /\ NotRagged /\ LoadOK
    BY DEF FinishedRunVerifies, VerifyOK, GateOK
  <2>1. plan \in Config /\ Done \subseteq Path /\ \A u \in Done : mark[u] # None
    BY <1>1, ConfigType DEF IInv, Shapes, Done
  <2>2. NoOrphans
    BY <1>1, MarkedAsPlanned DEF NoOrphans, Ids
  <2>3. ShardsIntact
    BY <1>1, <2>1, MarkedAsPlanned DEF ShardsIntact
  <2>4. \A u \in Done : shard[u].rows = RowsOf(plan, u) /\ RowsOf(plan, u) \subseteq Sample
    <3> SUFFICES ASSUME NEW u \in Done
                 PROVE  shard[u].rows = RowsOf(plan, u) /\ RowsOf(plan, u) \subseteq Sample
      OBVIOUS
    <3>1. u \in Path /\ mark[u] # None
      BY <2>1
    <3>2. PICK t \in Take : shard[u] = Content(plan, u, t)
      BY <1>1, <3>1 DEF IInv, Marked, MadeFor
    <3>3. Content(plan, u, t) \in Shard
      BY <2>1, ContentType
    <3> QED
      BY <3>2, <3>3 DEF Content, Shard
  <2>5. SeedsUnique
    <3> SUFFICES ASSUME NEW u \in Done, NEW v \in Done, NEW s \in shard[u].rows \cap shard[v].rows
                 PROVE  u = v
      BY DEF SeedsUnique
    <3>1. s \in Sample /\ s \in RowsOf(plan, u) /\ s \in RowsOf(plan, v)
      BY <2>4
    <3> QED
      BY <2>1, <3>1, OneUnit
  <2>6. ASSUME NEW i \in Problem PROVE SamplesOf(i) = {i} \X (0..N - 1)
    <3>1. ASSUME NEW s \in SamplesOf(i) PROVE s \in {i} \X (0..N - 1)
      BY <2>4, <3>1 DEF SamplesOf, Sample
    <3>2. ASSUME NEW s \in {i} \X (0..N - 1) PROVE s \in SamplesOf(i)
      <4>1. s \in Sample /\ s[1] = i
        BY DEF Sample
      <4>2. UnitOf(plan, s) \in Done /\ s \in RowsOf(plan, UnitOf(plan, s))
        BY <2>1, <4>1, OneUnit
      <4> QED
        BY <2>4, <4>1, <4>2 DEF SamplesOf
    <3> QED
      BY <3>1, <3>2
  <2>7. NotRagged
    <3>1. N \in Nat \ {0}
      BY TreeAssumption
    <3>2. IsFiniteSet(0..N - 1)
      BY <3>1, FS_Interval
    <3>3. ASSUME NEW i \in Problem
          PROVE  Cardinality(SamplesOf(i)) = Cardinality(0..N - 1)
      <4>1. IsFiniteSet({i}) /\ Cardinality({i}) = 1
        BY FS_Singleton
      <4>2. Cardinality({i} \X (0..N - 1)) = 1 * Cardinality(0..N - 1)
        BY <3>2, <4>1, FS_Product
      <4>3. Cardinality(0..N - 1) \in Nat
        BY <3>2, FS_CardinalityType
      <4>4. Cardinality({i} \X (0..N - 1)) = Cardinality(0..N - 1)
        BY <4>2, <4>3
      <4>5. SamplesOf(i) = {i} \X (0..N - 1)
        BY <2>6
      <4> QED
        BY <4>4, <4>5
    <3> QED
      BY <3>3 DEF NotRagged
  <2>8. LoadOK
    BY <1>1, <2>2, <2>5, LoadedIsDone DEF LoadOK, SeedsUnique
  <2> QED
    BY <2>2, <2>3, <2>5, <2>7, <2>8
<1> QED
  BY <1>1, Invariance, PTL
==============================================================================
