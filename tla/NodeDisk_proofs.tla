---------------------------- MODULE NodeDisk_proofs ----------------------------
(***************************************************************************)
(* A marker vouches for a complete shard, for any number of workers, units *)
(* and faults, as long as no two live workers had the unit's files open at *)
(* once; in particular with one worker per disk (fleet mode).              *)
(***************************************************************************)
EXTENDS NodeDisk, TLAPS

USE NodeAssumption

-----------------------------------------------------------------------------
(* Facts used throughout *)

\* A worker is at one unit only.
LEMMA OneUnit ==
    ASSUME TypeOK, NEW w \in Worker, NEW u \in Unit, NEW v \in Unit, Here(w, u), Here(w, v)
    PROVE  u = v
<1>1. u \in Nat /\ v \in Nat
    OBVIOUS
<1>2. u <= v /\ v <= u
    BY DEF Here
<1> QED
    BY <1>1, <1>2

LEMMA FileTyped ==
    ASSUME TypeOK, NEW w \in Worker, NEW u \in Unit
    PROVE  FileOf(w, u) \in File /\ Data(u) \in File /\ Mark(u) \in File
    BY DEF TypeOK, File, FileOf, Data, Mark, Kind

\* Moved changes no descriptor into anything but "is".
LEMMA MovedTyped ==
    ASSUME TypeOK, NEW f \in File, NEW was, NEW is \in {"none", "tmp", "name", "gone"}
    PROVE  Moved(f, was, is) \in [Worker -> {"none", "tmp", "name", "gone"}]
    BY DEF TypeOK, Moved

-----------------------------------------------------------------------------
(* Type correctness *)

LEMMA InitType == Init => TypeOK
    BY DEF Init, TypeOK, Idle, Kind, Body, Pass, Step

LEMMA NextType ==
    ASSUME TypeOK, Next
    PROVE  TypeOK'
<1> USE DEF TypeOK, Body, Pass, Step, Kind
<1>1. ASSUME NEW w \in Worker, StartWorker(w)
      PROVE  TypeOK'
    BY <1>1 DEF StartWorker, fileVars
<1>7. ASSUME NEW w \in Worker, BeginOwn(w)
      PROVE  TypeOK'
    BY <1>7 DEF BeginOwn, fileVars
<1>8. ASSUME NEW w \in Worker, BeginSteal(w)
      PROVE  TypeOK'
    BY <1>8 DEF BeginSteal, fileVars
<1>9. ASSUME NEW w \in Worker, FinishWorker(w)
      PROVE  TypeOK'
    BY <1>9 DEF FinishWorker, fileVars
<1>2. ASSUME NEW w \in Worker, NEW f \in File, Sweep(w, f)
      PROVE  TypeOK'
    BY <1>2, MovedTyped DEF Sweep
<1>3. ASSUME NEW w \in Worker, Kill(w)
      PROVE  TypeOK'
    BY <1>3 DEF Kill, Fault, Dies, fileVars
<1>4. CASE Relaunch
    BY <1>4 DEF Relaunch, Restart, Idle, fileVars
<1>5. CASE PowerLoss
    <2>1. name' \in [File -> Body] /\ tmp' \in [File -> Body]
        BY <1>5 DEF PowerLoss, Remains
    <2>2. place' \in [Dirs -> {"none", "fresh", "durable"}] /\ returned' \in SUBSET Unit
        <3>1. PICK gone \in SUBSET Dirs :
                 /\ place' = [d \in Dirs |->
                       IF d \in gone \/ place[d] = "none" THEN "none" ELSE "durable"]
                 /\ returned' = returned \ In(gone)
            BY <1>5 DEF PowerLoss
        <3> QED
            BY <3>1
    <2> QED
        BY <1>5, <2>1, <2>2 DEF PowerLoss, Restart, Idle, Fault
<1>6. ASSUME NEW w \in Worker, NEW u \in Unit, UnitStep(w, u)
      PROVE  TypeOK'
    <2> DEFINE f == FileOf(w, u)
    <2>0. f \in File
        BY FileTyped
    <2>1. CASE TakeUnit(w, u)
        BY <2>1 DEF TakeUnit, Leave, Goto, fileVars
    <2>8. CASE EnterWriteShard(w, u)
        BY <2>8 DEF EnterWriteShard, Leave, Goto, fileVars
    <2>2. CASE Open(w, u)
        BY <2>0, <2>2 DEF Open, Goto
    <2>3. CASE Write(w, u)
        <3>1. Written(tmp[f]) \subseteq Body /\ Written(name[f]) \subseteq Body
            BY DEF Written
        <3>2. /\ tmp' \in [File -> Body] /\ tmpSafe' \in [File -> BOOLEAN]
              /\ name' \in [File -> Body] /\ nameSafe' \in [File -> BOOLEAN]
            <4>1. CASE fd[w] = "tmp"
                <5>1. /\ \E b \in Body : tmp' = [tmp EXCEPT ![f] = b]
                      /\ tmpSafe' = [tmpSafe EXCEPT ![f] = FALSE]
                      /\ UNCHANGED <<name, nameSafe>>
                    BY <2>3, <3>1, <4>1 DEF Write
                <5> QED
                    BY <2>0, <5>1
            <4>2. CASE fd[w] = "name"
                <5>1. /\ \E b \in Body : name' = [name EXCEPT ![f] = b]
                      /\ nameSafe' = [nameSafe EXCEPT ![f] = FALSE]
                      /\ UNCHANGED <<tmp, tmpSafe>>
                    BY <2>3, <3>1, <4>2 DEF Write
                <5> QED
                    BY <2>0, <5>1
            <4>3. CASE fd[w] = "gone"
                BY <2>3, <4>3 DEF Write
            <4> QED
                BY <2>3, <4>1, <4>2, <4>3 DEF Write
        <3> QED
            BY <2>3, <3>2 DEF Write, Goto
    <2>4. CASE Fsync(w, u)
        BY <2>0, <2>4 DEF Fsync, Goto
    <2>5. CASE Rename(w, u)
        <3>1. fd' \in [Worker -> {"none", "tmp", "name", "gone"}]
            BY <2>5 DEF Rename, Moved
        <3>2. name' \in [File -> Body] /\ old' \in [File -> Body] /\ tmp' \in [File -> Body]
            BY <2>0, <2>5 DEF Rename
        <3> QED
            BY <2>0, <2>5, <3>1, <3>2 DEF Rename, Goto
    <2>6. CASE RenameFails(w, u)
        BY <2>6 DEF RenameFails, Dies, fileVars
    <2>7. CASE DirSync(w, u)
        <3>1. linked' \in [File -> BOOLEAN] /\ old' \in [File -> Body]
            BY <2>7 DEF DirSync
        <3>2. /\ pass' \in [Worker -> Pass] /\ todo' \in [Worker -> SUBSET Unit]
              /\ left' \in [Worker -> SUBSET File] /\ step' \in [Worker -> Step]
              /\ kind' \in [Worker -> Kind] /\ returned' \in SUBSET Unit
            <4>1. CASE kind[w] = "data"
                <5>1. /\ kind' = [kind EXCEPT ![w] = "mark"]
                      /\ step' = [step EXCEPT ![w] = "open"]
                      /\ UNCHANGED <<pass, todo, left, returned>>
                    BY <2>7, <4>1 DEF DirSync, Onward
                <5> QED
                    BY <5>1
            <4>2. CASE kind[w] # "data"
                <5>1. Leave(w, u) /\ returned' = returned \cup {u}
                    BY <2>7, <4>2 DEF DirSync, Onward
                <5> QED
                    BY <5>1 DEF Leave
            <4> QED
                BY <4>1, <4>2
        <3> QED
            BY <2>7, <3>1, <3>2 DEF DirSync
    <2> QED
        BY <1>6, <2>1, <2>2, <2>3, <2>4, <2>5, <2>6, <2>7, <2>8 DEF UnitStep
<1> QED
    BY <1>1, <1>2, <1>3, <1>4, <1>5, <1>6, <1>7, <1>8, <1>9 DEF Next, WorkerStep

THEOREM TypeCorrect == Spec => []TypeOK
<1>1. TypeOK /\ [Next]_vars => TypeOK'
    BY NextType DEF vars, TypeOK, fileVars, workVars
<1> QED
    BY InitType, <1>1, PTL DEF Spec

-----------------------------------------------------------------------------
(* The inductive invariant *)

LEMMA InitInv == Init => IInv
<1> SUFFICES ASSUME Init PROVE IInv
    OBVIOUS
<1>1. TypeOK
    BY InitType
<1>2. StepInv /\ OldInv /\ ReturnedInv
    BY DEF Init, Idle, StepInv, OldInv, ReturnedInv
<1>3. ASSUME NEW u \in Unit PROVE WriterInv(u) /\ NameInv(u)
    <2>1. \A w \in Worker : step[w] = "next" /\ todo[w] = {}
        BY DEF Init, Idle
    <2>2. \A k \in Kind : <<u, k>> \in File
        BY DEF File
    <2>3. Mark(u) \in File
        BY DEF File, Mark, Kind
    <2> QED
        BY <2>1, <2>2, <2>3 DEF Init, WriterInv, NameInv, Writers, Marked, Here
<1> QED
    BY <1>1, <1>2, <1>3 DEF IInv

\* What a step may do without concern to unit v: nothing but syncing to its files, and with
\* each worker either nothing or move it to where it writes nothing.
Aside(v) ==
    /\ \A k \in Kind :
        /\ tmp'[<<v, k>>] = tmp[<<v, k>>] /\ tmpSafe'[<<v, k>>] = tmpSafe[<<v, k>>]
        /\ name'[<<v, k>>] = name[<<v, k>>] /\ nameSafe'[<<v, k>>] = nameSafe[<<v, k>>]
        /\ \/ linked'[<<v, k>>] = linked[<<v, k>>] /\ old'[<<v, k>>] = old[<<v, k>>]
           \/ linked'[<<v, k>>] /\ old'[<<v, k>>] = "none"
    /\ \A x \in Worker :
        \/ ~Here(x, v)'
        \/ step'[x] \in {"next", "gen", "open"} /\ kind'[x] = "data"
        \/ /\ Here(x, v)
           /\ step'[x] = step[x] /\ kind'[x] = kind[x] /\ fd'[x] = fd[x]

LEMMA AsideKeeps ==
    ASSUME TypeOK, NEW v \in Unit, WriterInv(v), NameInv(v), Aside(v)
    PROVE  WriterInv(v)' /\ NameInv(v)'
<1>1. Data(v) = <<v, "data">> /\ Mark(v) = <<v, "mark">> /\ "data" \in Kind /\ "mark" \in Kind
    BY DEF Data, Mark, Kind
<1>2. ASSUME NEW x \in Worker, x \in Writers(v)'
      PROVE  /\ x \in Writers(v)
             /\ step'[x] = step[x] /\ kind'[x] = kind[x] /\ fd'[x] = fd[x] /\ kind[x] \in Kind
    BY <1>2 DEF Aside, Writers, TypeOK
<1>3. WriterInv(v)'
    <2> SUFFICES ASSUME NEW w \in Worker, w \in Writers(v)'
                 PROVE  OneWriter(w, v)'
        BY DEF WriterInv, Writers
    <2>1. OneWriter(w, v)
        BY <1>2 DEF WriterInv
    <2>2. Writers(v)' = {w}
        BY <1>2, <2>1 DEF OneWriter, Writers
    <2>3. /\ tmp'[<<v, kind[w]>>] = tmp[<<v, kind[w]>>]
          /\ tmpSafe'[<<v, kind[w]>>] = tmpSafe[<<v, kind[w]>>]
        BY <1>2 DEF Aside
    <2> QED
        BY <1>2, <2>1, <2>2, <2>3 DEF OneWriter, FileOf
<1>4. Durable(v) => Durable(v)'
    BY <1>1 DEF Durable, Aside
<1>5. NameInv(v)'
    <2>1. (v \in Marked)' => v \in Marked
        BY <1>1 DEF Marked, Aside
    <2> QED
        BY <1>1, <1>4, <2>1 DEF NameInv, Aside
<1> QED
    BY <1>3, <1>5

\* What a step does to worker x if it neither touches nor leaves behind an open file.
Calm(x) ==
    \/ /\ pass'[x] = pass[x] /\ todo'[x] = todo[x]
       /\ step'[x] = step[x] /\ kind'[x] = kind[x] /\ fd'[x] = fd[x]
    \/ /\ step'[x] \in {"next", "gen", "open"} /\ kind'[x] = "data" /\ fd'[x] = "none"
       /\ step'[x] # "next" => pass'[x] \in {"own", "steal"} /\ todo'[x] # {}

LEMMA CalmKeeps ==
    ASSUME IInv, TypeOK', UNCHANGED <<fileVars, clash, returned>>,
           \A x \in Worker : Calm(x)
    PROVE  IInv'
<1>1. StepInv'
    BY DEF IInv, StepInv, Calm, Here, FileOf, fileVars
<1>2. OldInv' /\ ReturnedInv'
    BY DEF IInv, OldInv, ReturnedInv, fileVars
<1>3. ASSUME NEW v \in Unit, v \notin clash'
      PROVE  WriterInv(v)' /\ NameInv(v)'
    <2>1. TypeOK /\ WriterInv(v) /\ NameInv(v)
        BY <1>3 DEF IInv
    <2>2. Aside(v)
        BY DEF Aside, Calm, Here, fileVars
    <2> QED
        BY <2>1, <2>2, AsideKeeps
<1> QED
    BY <1>1, <1>2, <1>3 DEF IInv

LEMMA StartWorkerKeeps ==
    ASSUME IInv, TypeOK', NEW w \in Worker,
           StartWorker(w) \/ BeginOwn(w) \/ BeginSteal(w) \/ FinishWorker(w)
    PROVE  IInv'
<1>1. TypeOK /\ StepInv
    BY DEF IInv
<1>2. step[w] = "next" /\ kind[w] = "data" /\ fd[w] = "none"
    BY <1>1 DEF StepInv, StartWorker, BeginOwn, BeginSteal, FinishWorker, TypeOK
<1>3. UNCHANGED <<fileVars, clash, returned>>
    BY DEF StartWorker, BeginOwn, BeginSteal, FinishWorker
<1>4. ASSUME NEW x \in Worker PROVE Calm(x)
    BY <1>1, <1>2 DEF StartWorker, BeginOwn, BeginSteal, FinishWorker, TypeOK, Calm
<1> QED
    BY <1>3, <1>4, CalmKeeps

LEMMA EnterKeeps ==
    ASSUME IInv, TypeOK', NEW w \in Worker, NEW u \in Unit,
           TakeUnit(w, u) \/ EnterWriteShard(w, u)
    PROVE  IInv'
<1>1. TypeOK /\ StepInv
    BY DEF IInv
<1>2. /\ kind[w] = "data" /\ fd[w] = "none"
      /\ pass[w] \in {"own", "steal"} /\ todo[w] # {}
    BY <1>1 DEF StepInv, TakeUnit, EnterWriteShard, At, Here, TypeOK
<1>3. UNCHANGED <<fileVars, clash, returned>>
    BY DEF TakeUnit, EnterWriteShard
<1>4. ASSUME NEW x \in Worker PROVE Calm(x)
    BY <1>1, <1>2 DEF TakeUnit, EnterWriteShard, Leave, Goto, TypeOK, Calm
<1> QED
    BY <1>3, <1>4, CalmKeeps

LEMMA DeathKeeps ==
    ASSUME IInv, TypeOK', NEW w \in Worker,
           Kill(w) \/ \E u \in Unit : RenameFails(w, u)
    PROVE  IInv'
<1>1. TypeOK /\ Dies(w) /\ UNCHANGED <<fileVars, clash, returned>>
    BY DEF IInv, Kill, RenameFails
<1>2. ASSUME NEW x \in Worker PROVE Calm(x)
    BY <1>1 DEF Dies, TypeOK, Calm
<1> QED
    BY <1>1, <1>2, CalmKeeps

LEMMA RelaunchKeeps ==
    ASSUME IInv, TypeOK', Relaunch
    PROVE  IInv'
<1>1. ASSUME NEW x \in Worker PROVE Calm(x)
    BY DEF Relaunch, Restart, Idle, Calm
<1> QED
    BY <1>1, CalmKeeps DEF Relaunch

-----------------------------------------------------------------------------
(* The steps on a file *)

LEMMA SweepKeeps ==
    ASSUME IInv, TypeOK', NEW w \in Worker, NEW g \in File, Sweep(w, g)
    PROVE  IInv'
<1>1. /\ TypeOK /\ StepInv
      /\ UNCHANGED <<name, nameSafe, linked, old, pass, todo, step, kind, clash, returned>>
    BY DEF IInv, Sweep
<1>2. ASSUME NEW x \in Worker
      PROVE  fd'[x] = IF fd[x] = "tmp" /\ Here(x, g[1]) /\ kind[x] = g[2] THEN "gone" ELSE fd[x]
    BY <1>1 DEF Sweep, Moved
<1>3. StepInv'
    BY <1>1, <1>2 DEF StepInv, Here, FileOf
<1>4. OldInv' /\ ReturnedInv'
    BY <1>1 DEF IInv, OldInv, ReturnedInv
<1>5. ASSUME NEW v \in Unit, v \notin clash'
      PROVE  WriterInv(v)' /\ NameInv(v)'
    <2>1. WriterInv(v) /\ NameInv(v)
        BY <1>1, <1>5 DEF IInv
    <2>2. NameInv(v)'
        BY <1>1, <2>1 DEF NameInv, Marked, Durable, Here
    <2>3. Writers(v)' = Writers(v)
        BY <1>1 DEF Writers, Here
    <2>4. ASSUME NEW x \in Worker, x \in Writers(v)
          PROVE  OneWriter(x, v)'
        <3>1. OneWriter(x, v) /\ Here(x, v) /\ FileOf(x, v) \in File
            BY <1>1, <2>1, <2>4, FileTyped DEF WriterInv, Writers
        <3>2. FileOf(x, v)' = FileOf(x, v)
            BY <1>1 DEF FileOf
        <3>3. CASE FileOf(x, v) = g
            <4>1. tmp'[g] = "none" /\ tmpSafe'[g]
                BY <1>1 DEF Sweep, TypeOK
            <4>2. fd'[x] = IF fd[x] = "tmp" THEN "gone" ELSE fd[x]
                BY <1>2, <3>1, <3>3 DEF FileOf
            <4> QED
                BY <1>1, <2>3, <3>1, <3>2, <3>3, <4>1, <4>2 DEF OneWriter
        <3>4. CASE FileOf(x, v) # g
            <4>1. /\ tmp'[FileOf(x, v)] = tmp[FileOf(x, v)]
                  /\ tmpSafe'[FileOf(x, v)] = tmpSafe[FileOf(x, v)]
                BY <1>1, <3>1, <3>4 DEF Sweep, TypeOK
            <4>2. fd'[x] = fd[x]
                <5>1. CASE g[1] = v
                    BY <1>2, <3>4, <5>1 DEF FileOf, File
                <5>2. CASE g[1] # v
                    BY <1>1, <1>2, <3>1, <5>2, OneUnit DEF File
                <5> QED
                    BY <5>1, <5>2
            <4> QED
                BY <1>1, <2>3, <3>1, <3>2, <4>1, <4>2 DEF OneWriter
        <3> QED
            BY <3>3, <3>4
    <2> QED
        BY <2>2, <2>3, <2>4 DEF WriterInv, Writers
<1> QED
    BY <1>3, <1>4, <1>5 DEF IInv

LEMMA OpenKeeps ==
    ASSUME IInv, TypeOK', NEW w \in Worker, NEW u \in Unit, Open(w, u)
    PROVE  IInv'
<1> DEFINE f == FileOf(w, u)
<1>1. /\ TypeOK /\ StepInv /\ Here(w, u) /\ f \in File
      /\ step[w] = "open" /\ pass[w] \in {"own", "steal"} /\ todo[w] # {}
      /\ UNCHANGED <<name, nameSafe, linked, old, pass, todo, kind, returned>>
    BY FileTyped DEF IInv, Open, At, Goto, Here
<1>2. step' = [step EXCEPT ![w] = "write"] /\ fd' = [fd EXCEPT ![w] = "tmp"]
    BY DEF Open, Goto
<1>3. StepInv'
    BY <1>1, <1>2 DEF StepInv, Here, FileOf, TypeOK
<1>4. OldInv' /\ ReturnedInv'
    BY <1>1 DEF IInv, OldInv, ReturnedInv
<1>5. ASSUME NEW v \in Unit, v \notin clash'
      PROVE  WriterInv(v)' /\ NameInv(v)'
    <2>1. v \notin clash /\ WriterInv(v) /\ NameInv(v)
        BY <1>5 DEF IInv, Open
    <2>2. CASE v = u
        <3>1. NameInv(v)'
            BY <1>1, <2>1 DEF NameInv, Marked, Durable, Here
        <3>2. Writers(v) = {}
            BY <1>5, <2>2 DEF Open
        <3>3. Writers(v)' = {w}
            BY <1>1, <1>2, <2>2, <3>2 DEF Writers, Here, TypeOK
        <3>4. OneWriter(w, v)'
            <4>1. tmp'[f] = "empty" /\ step'[w] = "write" /\ fd'[w] = "tmp"
                BY <1>1, <1>2 DEF Open, TypeOK
            <4> QED
                BY <1>1, <2>2, <3>3, <4>1 DEF OneWriter, FileOf
        <3> QED
            BY <3>1, <3>3, <3>4 DEF WriterInv
    <2>3. CASE v # u
        <3>1. ~Here(w, v)
            BY <1>1, <2>3, OneUnit
        <3>2. ~Here(w, v)'
            BY <1>1, <3>1 DEF Here
        <3>3. ASSUME NEW k \in Kind
              PROVE  tmp'[<<v, k>>] = tmp[<<v, k>>] /\ tmpSafe'[<<v, k>>] = tmpSafe[<<v, k>>]
            BY <1>1, <2>3 DEF Open, TypeOK, File, FileOf
        <3>4. Aside(v)
            BY <1>1, <1>2, <3>2, <3>3 DEF Aside, Here, TypeOK
        <3> QED
            BY <1>1, <2>1, <3>4, AsideKeeps
    <2> QED
        BY <2>2, <2>3
<1> QED
    BY <1>3, <1>4, <1>5 DEF IInv

LEMMA WriteKeeps ==
    ASSUME IInv, TypeOK', NEW w \in Worker, NEW u \in Unit, Write(w, u)
    PROVE  IInv'
<1> DEFINE f == FileOf(w, u)
<1>1. /\ TypeOK /\ StepInv /\ Here(w, u) /\ f \in File
      /\ step[w] = "write" /\ pass[w] \in {"own", "steal"}
      /\ UNCHANGED <<linked, old, pass, todo, kind, fd, clash, returned>>
    BY FileTyped DEF IInv, Write, At, Goto
<1>2. step' = [step EXCEPT ![w] = "fsync"]
    BY DEF Write, Goto
<1>3. w \in Writers(u)
    BY <1>1 DEF Writers
<1>4. ASSUME NEW g \in File, g # f
      PROVE  /\ tmp'[g] = tmp[g] /\ tmpSafe'[g] = tmpSafe[g]
             /\ name'[g] = name[g] /\ nameSafe'[g] = nameSafe[g]
    BY <1>1, <1>4 DEF Write, TypeOK
<1>5. ASSUME name[f] # "none"
      PROVE  name'[f] # "none"
    BY <1>1, <1>5 DEF Write, Written, TypeOK
<1>6. StepInv'
    <2> SUFFICES ASSUME NEW x \in Worker, step'[x] = "dirsync", NEW v \in Unit, Here(x, v)
                 PROVE  name'[FileOf(x, v)] # "none"
        BY <1>1, <1>2 DEF StepInv, Here, FileOf, TypeOK
    <2>1. name[FileOf(x, v)] # "none" /\ FileOf(x, v) \in File
        BY <1>1, <1>2, FileTyped DEF StepInv, TypeOK
    <2> QED
        BY <2>1, <1>4, <1>5
<1>7. OldInv' /\ ReturnedInv'
    <2>1. ASSUME NEW g \in File, name[g] # "none" PROVE name'[g] # "none"
        BY <1>4, <1>5, <2>1
    <2> QED
        BY <1>1, <2>1, FileTyped DEF IInv, OldInv, ReturnedInv, TypeOK
<1>8. ASSUME NEW v \in Unit, v \notin clash'
      PROVE  WriterInv(v)' /\ NameInv(v)'
    <2>1. v \notin clash /\ WriterInv(v) /\ NameInv(v)
        BY <1>1, <1>8 DEF IInv
    <2>2. CASE v = u
        <3>1. OneWriter(w, u)
            BY <1>3, <2>1, <2>2 DEF WriterInv
        <3>2. UNCHANGED <<name, nameSafe>>
            BY <1>1, <3>1 DEF OneWriter, Write
        <3>3. NameInv(v)'
            BY <1>1, <2>1, <3>2 DEF NameInv, Marked, Durable, Here
        <3>4. Writers(u)' = {w}
            BY <1>1, <1>2, <3>1 DEF OneWriter, Writers, Here, TypeOK
        <3>5. /\ fd[w] = "tmp" => tmp'[f] = "whole"
              /\ fd[w] = "gone" => tmp'[f] = tmp[f]
            BY <1>1, <3>1 DEF OneWriter, Write, Written, TypeOK
        <3>6. OneWriter(w, u)'
            BY <1>1, <1>2, <3>1, <3>4, <3>5 DEF OneWriter, FileOf, TypeOK
        <3> QED
            BY <2>2, <3>3, <3>4, <3>6 DEF WriterInv
    <2>3. CASE v # u
        <3>1. ~Here(w, v)
            BY <1>1, <2>3, OneUnit
        <3>2. ~Here(w, v)'
            BY <1>1, <3>1 DEF Here
        <3>3. \A k \in Kind : <<v, k>> \in File /\ <<v, k>> # f
            BY <2>3 DEF File, FileOf
        <3>4. Aside(v)
            BY <1>1, <1>2, <1>4, <3>2, <3>3 DEF Aside, Here, TypeOK
        <3> QED
            BY <1>1, <2>1, <3>4, AsideKeeps
    <2> QED
        BY <2>2, <2>3
<1> QED
    BY <1>6, <1>7, <1>8 DEF IInv

LEMMA FsyncKeeps ==
    ASSUME IInv, TypeOK', NEW w \in Worker, NEW u \in Unit, Fsync(w, u)
    PROVE  IInv'
<1> DEFINE f == FileOf(w, u)
<1>1. /\ TypeOK /\ StepInv /\ Here(w, u) /\ f \in File
      /\ step[w] = "fsync" /\ pass[w] \in {"own", "steal"}
      /\ UNCHANGED <<tmp, name, linked, old, pass, todo, kind, clash, returned>>
    BY FileTyped DEF IInv, Fsync, At, Goto
<1>2. step' = [step EXCEPT ![w] = "rename"] /\ fd' = [fd EXCEPT ![w] = "none"]
    BY DEF Fsync, Goto
<1>3. w \in Writers(u)
    BY <1>1 DEF Writers
<1>4. ASSUME NEW g \in File
      PROVE  /\ g # f => tmpSafe'[g] = tmpSafe[g] /\ nameSafe'[g] = nameSafe[g]
             /\ nameSafe[g] => nameSafe'[g]
    BY <1>1 DEF Fsync, TypeOK
<1>5. StepInv'
    BY <1>1, <1>2 DEF StepInv, Here, FileOf, TypeOK
<1>6. OldInv' /\ ReturnedInv'
    BY <1>1 DEF IInv, OldInv, ReturnedInv
<1>7. ASSUME NEW v \in Unit, v \notin clash'
      PROVE  WriterInv(v)' /\ NameInv(v)'
    <2>1. v \notin clash /\ WriterInv(v) /\ NameInv(v)
        BY <1>1, <1>7 DEF IInv
    <2>2. CASE v = u
        <3>1. OneWriter(w, u)
            BY <1>3, <2>1, <2>2 DEF WriterInv
        <3>2. \A k \in Kind : <<v, k>> \in File
            BY DEF File
        <3>3. NameInv(v)'
            BY <1>1, <1>4, <2>1, <3>2 DEF NameInv, Marked, Durable, Here
        <3>4. Writers(u)' = {w}
            BY <1>1, <1>2, <3>1 DEF OneWriter, Writers, Here, TypeOK
        <3>5. fd[w] = "tmp" => tmpSafe'[f]
            BY <1>1 DEF Fsync, TypeOK
        <3>6. OneWriter(w, u)'
            BY <1>1, <1>2, <3>1, <3>4, <3>5 DEF OneWriter, FileOf, TypeOK
        <3> QED
            BY <2>2, <3>3, <3>4, <3>6 DEF WriterInv
    <2>3. CASE v # u
        <3>1. ~Here(w, v)
            BY <1>1, <2>3, OneUnit
        <3>2. ~Here(w, v)'
            BY <1>1, <3>1 DEF Here
        <3>3. \A k \in Kind : <<v, k>> \in File /\ <<v, k>> # f
            BY <2>3 DEF File, FileOf
        <3>4. Aside(v)
            BY <1>1, <1>2, <1>4, <3>2, <3>3 DEF Aside, Here, TypeOK
        <3> QED
            BY <1>1, <2>1, <3>4, AsideKeeps
    <2> QED
        BY <2>2, <2>3
<1> QED
    BY <1>5, <1>6, <1>7 DEF IInv

LEMMA RenameKeeps ==
    ASSUME IInv, TypeOK', NEW w \in Worker, NEW u \in Unit, Rename(w, u)
    PROVE  IInv'
<1> DEFINE f == FileOf(w, u)
<1>1. /\ TypeOK /\ StepInv /\ OldInv /\ Here(w, u) /\ f \in File
      /\ step[w] = "rename" /\ pass[w] \in {"own", "steal"} /\ tmp[f] # "none"
      /\ UNCHANGED <<pass, todo, kind, clash, returned>>
    BY FileTyped DEF IInv, Rename, At, Goto
<1>2. step' = [step EXCEPT ![w] = "dirsync"]
    BY DEF Rename, Goto
<1>3. w \in Writers(u)
    BY <1>1 DEF Writers
<1>4. ASSUME NEW g \in File, g # f
      PROVE  /\ tmp'[g] = tmp[g] /\ tmpSafe'[g] = tmpSafe[g]
             /\ name'[g] = name[g] /\ nameSafe'[g] = nameSafe[g]
             /\ linked'[g] = linked[g] /\ old'[g] = old[g]
    BY <1>1, <1>4 DEF Rename, TypeOK
<1>5. /\ name'[f] = tmp[f] /\ nameSafe'[f] = tmpSafe[f] /\ linked'[f] = FALSE
      /\ old'[f] = IF ~linked[f] THEN old[f] ELSE IF nameSafe[f] THEN name[f] ELSE "torn"
    BY <1>1 DEF Rename, TypeOK
<1>6. ASSUME NEW x \in Worker
      PROVE  /\ fd'[x] # "none" => fd[x] # "none"
             /\ ~Here(x, u) => fd'[x] = fd[x]
    <2>1. f[1] = u
        BY DEF FileOf
    <2> QED
        BY <1>6, <2>1 DEF Rename, Moved
<1>7. ASSUME NEW g \in File, name[g] # "none"
      PROVE  name'[g] # "none"
    BY <1>1, <1>4, <1>5, <1>7
<1>8. StepInv'
    <2>1. ASSUME NEW x \in Worker, step'[x] = "dirsync", NEW v \in Unit, Here(x, v)
          PROVE  name'[FileOf(x, v)] # "none"
        <3>1. CASE x = w
            BY <1>1, <1>5, <2>1, <3>1, OneUnit
        <3>2. CASE x # w
            BY <1>1, <1>2, <1>7, <2>1, <3>2, FileTyped DEF StepInv, TypeOK
        <3> QED
            BY <3>1, <3>2
    <2>2. w \in Worker /\ fd[w] = "none" /\ fd'[w] = "none"
        BY <1>1, <1>6 DEF StepInv, TypeOK
    <2> QED
        BY <1>1, <1>2, <1>6, <2>1, <2>2 DEF StepInv, Here, FileOf, TypeOK
<1>9. OldInv'
    BY <1>1, <1>4, <1>5 DEF OldInv
<1>10. ReturnedInv'
    <2> SUFFICES ASSUME NEW v \in returned
                 PROVE  /\ name'[Mark(v)] # "none"
                        /\ linked'[Mark(v)] \/ old'[Mark(v)] # "none"
        BY <1>1 DEF ReturnedInv, Mark
    <2>1. /\ Mark(v) \in File /\ name[Mark(v)] # "none"
          /\ linked[Mark(v)] \/ old[Mark(v)] # "none"
        BY <1>1, FileTyped DEF IInv, ReturnedInv, TypeOK
    <2> QED
        BY <1>4, <1>5, <1>7, <2>1
<1>11. ASSUME NEW v \in Unit, v \notin clash'
       PROVE  WriterInv(v)' /\ NameInv(v)'
    <2>1. v \notin clash /\ WriterInv(v) /\ NameInv(v)
        BY <1>1, <1>11 DEF IInv
    <2>2. CASE v = u
        <3>1. OneWriter(w, u)
            BY <1>3, <2>1, <2>2 DEF WriterInv
        <3>2. tmp[f] = "whole" /\ tmpSafe[f]
            BY <1>1, <3>1 DEF OneWriter
        <3>3. Writers(u)' = {}
            BY <1>1, <1>2, <3>1 DEF OneWriter, Writers, Here, TypeOK
        <3>4. /\ Data(v) = <<v, "data">> /\ Mark(v) = <<v, "mark">>
              /\ \A k \in Kind : <<v, k>> \in File
              /\ "data" \in Kind /\ "mark" \in Kind /\ kind[w] \in Kind
            BY <1>1 DEF Data, Mark, File, Kind, TypeOK
        <3>5. ASSUME NEW k \in Kind
              PROVE  /\ name'[<<v, k>>] \in {"none", "whole"} /\ nameSafe'[<<v, k>>]
                     /\ old'[<<v, k>>] \in {"none", "whole"}
            <4>1. <<v, k>> \in File
                BY <3>4
            <4>2. CASE <<v, k>> = f
                BY <1>5, <2>1, <3>2, <4>2 DEF NameInv
            <4>3. CASE <<v, k>> # f
                BY <1>4, <2>1, <4>1, <4>3 DEF NameInv
            <4> QED
                BY <4>2, <4>3
        <3>6. Durable(v) => Durable(v)'
            <4>1. CASE Data(v) = f
                BY <1>5, <2>1, <3>2, <3>4, <4>1 DEF NameInv, Durable
            <4>2. CASE Data(v) # f
                BY <1>4, <3>4, <4>2 DEF Durable
            <4> QED
                BY <4>1, <4>2
        <3>7. (v \in Marked)' => Durable(v)
            <4>1. CASE Mark(v) = f
                <5>1. kind[w] = "mark" /\ Here(w, v)
                    BY <1>1, <2>2, <4>1 DEF FileOf, Mark
                <5> QED
                    BY <2>1, <5>1 DEF NameInv
            <4>2. CASE Mark(v) # f
                BY <1>4, <2>1, <3>4, <4>2 DEF NameInv, Marked
            <4> QED
                BY <4>1, <4>2
        <3>8. ASSUME NEW x \in Worker, Here(x, v)', kind'[x] = "mark"
              PROVE  Durable(v)
            BY <1>1, <2>1, <3>8 DEF NameInv, Here
        <3>9. NameInv(v)'
            BY <3>5, <3>6, <3>7, <3>8 DEF NameInv
        <3> QED
            BY <2>2, <3>3, <3>9 DEF WriterInv
    <2>3. CASE v # u
        <3>1. ~Here(w, v) /\ ~Here(w, v)'
            BY <1>1, <2>3, OneUnit DEF Here
        <3>2. \A k \in Kind : <<v, k>> \in File /\ <<v, k>> # f
            BY <2>3 DEF File, FileOf
        <3>3. ASSUME NEW x \in Worker, Here(x, v)'
              PROVE  /\ Here(x, v)
                     /\ step'[x] = step[x] /\ kind'[x] = kind[x] /\ fd'[x] = fd[x]
            <4>1. Here(x, v) /\ x # w
                BY <1>1, <3>1, <3>3 DEF Here
            <4>2. ~Here(x, u)
                BY <1>1, <2>3, <4>1, OneUnit
            <4> QED
                BY <1>1, <1>2, <1>6, <4>1, <4>2 DEF TypeOK
        <3>4. Aside(v)
            BY <1>4, <3>2, <3>3 DEF Aside
        <3> QED
            BY <1>1, <2>1, <3>4, AsideKeeps
    <2> QED
        BY <2>2, <2>3
<1> QED
    BY <1>8, <1>9, <1>10, <1>11 DEF IInv

LEMMA DirSyncKeeps ==
    ASSUME IInv, TypeOK', NEW w \in Worker, NEW u \in Unit, DirSync(w, u)
    PROVE  IInv'
<1> DEFINE f == FileOf(w, u)
<1>1. /\ TypeOK /\ StepInv /\ OldInv /\ Here(w, u) /\ f \in File
      /\ step[w] = "dirsync" /\ pass[w] \in {"own", "steal"}
      /\ UNCHANGED <<tmp, name, tmpSafe, nameSafe, fd, pass, clash>>
    BY FileTyped DEF IInv, DirSync, At, Onward, Leave
<1>2. name[f] # "none" /\ fd[w] = "none"
    BY <1>1 DEF StepInv, TypeOK
<1>3. ASSUME NEW g \in File
      PROVE  \/ linked'[g] = linked[g] /\ old'[g] = old[g]
             \/ linked'[g] /\ old'[g] = "none"
    BY <1>1 DEF DirSync, TypeOK
<1>4. \A k \in Kind : <<u, k>> \in File /\ linked'[<<u, k>>]
    BY DEF DirSync, File
<1>5. \/ /\ kind[w] = "data"
         /\ kind' = [kind EXCEPT ![w] = "mark"] /\ step' = [step EXCEPT ![w] = "open"]
         /\ todo' = todo /\ returned' = returned
      \/ /\ kind[w] = "mark"
         /\ kind' = [kind EXCEPT ![w] = "data"] /\ step' = [step EXCEPT ![w] = "next"]
         /\ todo' = [todo EXCEPT ![w] = @ \ {u}] /\ returned' = returned \cup {u}
    BY <1>1 DEF DirSync, Onward, Leave, TypeOK, Kind
<1>6. ASSUME NEW x \in Worker, x # w
      PROVE  /\ kind'[x] = kind[x] /\ step'[x] = step[x] /\ todo'[x] = todo[x]
             /\ \A v \in Unit : Here(x, v)' <=> Here(x, v)
    BY <1>1, <1>5, <1>6 DEF TypeOK, Here
<1>7. /\ step'[w] \in {"next", "open"}
      /\ step'[w] = "next" => kind'[w] = "data"
      /\ step'[w] = "open" => todo'[w] # {}
    BY <1>1, <1>5 DEF TypeOK, Here
<1>8. StepInv'
    <2> SUFFICES ASSUME NEW x \in Worker
                 PROVE  /\ step'[x] # "next" => pass'[x] \in {"own", "steal"} /\ todo'[x] # {}
                        /\ step'[x] \in {"next", "gen"} => kind'[x] = "data"
                        /\ fd'[x] # "none" => step'[x] \in {"write", "fsync"}
                        /\ step'[x] = "dirsync" =>
                              \A v \in Unit : Here(x, v)' => name'[<<v, kind'[x]>>] # "none"
        BY DEF StepInv, FileOf
    <2>1. CASE x = w
        BY <1>1, <1>2, <1>7, <2>1
    <2>2. CASE x # w
        BY <1>1, <1>6, <2>2 DEF StepInv, FileOf
    <2> QED
        BY <2>1, <2>2
<1>9. OldInv'
    BY <1>1, <1>3 DEF OldInv
<1>10. ReturnedInv'
    <2>1. ASSUME NEW v \in returned
          PROVE  /\ name'[Mark(v)] # "none"
                 /\ linked'[Mark(v)] \/ old'[Mark(v)] # "none"
        <3>1. Mark(v) \in File
            BY <1>1, FileTyped DEF TypeOK
        <3> QED
            BY <1>1, <1>3, <3>1 DEF IInv, ReturnedInv
    <2>2. ASSUME kind[w] = "mark"
          PROVE  name'[Mark(u)] # "none" /\ linked'[Mark(u)]
        BY <1>1, <1>2, <1>4, <2>2 DEF Mark, FileOf, Kind
    <2> QED
        BY <1>5, <2>1, <2>2 DEF ReturnedInv, Mark
<1>11. ASSUME NEW v \in Unit, v \notin clash'
       PROVE  WriterInv(v)' /\ NameInv(v)'
    <2>1. v \notin clash /\ WriterInv(v) /\ NameInv(v)
        BY <1>1, <1>11 DEF IInv
    <2>2. \A k \in Kind : <<v, k>> \in File
        BY DEF File
    <2>3. CASE v # u
        <3>1. ~Here(w, v)
            BY <1>1, <2>3, OneUnit
        <3>2. \/ step'[w] = "next" /\ kind'[w] = "data"
              \/ ~Here(w, v)'
            BY <1>1, <1>5, <3>1 DEF TypeOK, Here
        <3>3. Aside(v)
            BY <1>1, <1>3, <1>6, <2>2, <3>2 DEF Aside
        <3> QED
            BY <1>1, <2>1, <3>3, AsideKeeps
    <2>4. CASE v = u
        <3>1. Data(v) = <<v, "data">> /\ Mark(v) = <<v, "mark">> /\ "data" \in Kind
            BY DEF Data, Mark, Kind
        <3>2. Durable(v) => Durable(v)'
            BY <1>1, <1>4, <2>4, <3>1 DEF Durable
        <3>3. \A k \in Kind : old'[<<v, k>>] \in {"none", "whole"}
            BY <1>3, <2>1, <2>2 DEF NameInv
        <3>4. ASSUME NEW x \in Worker, Here(x, v)', kind'[x] = "mark"
              PROVE  Durable(v)'
            <4>1. CASE x = w
                <5>1. kind[w] = "data" /\ f = Data(v)
                    BY <1>1, <1>5, <2>4, <3>4, <4>1 DEF TypeOK, FileOf, Data
                <5> QED
                    BY <1>1, <1>2, <1>4, <2>1, <2>4, <3>1, <5>1 DEF NameInv, Durable
            <4>2. CASE x # w
                BY <1>6, <2>1, <3>2, <3>4, <4>2 DEF NameInv
            <4> QED
                BY <4>1, <4>2
        <3>5. NameInv(v)'
            BY <1>1, <2>1, <3>2, <3>3, <3>4 DEF NameInv, Marked
        <3>6. ASSUME NEW x \in Writers(v)' PROVE OneWriter(x, v)'
            <4>1. x \in Worker /\ x # w /\ x \in Writers(v)
                BY <1>6, <1>7, <3>6 DEF Writers
            <4>2. OneWriter(x, v)
                BY <2>1, <4>1 DEF WriterInv
            <4>3. Writers(v)' = {x}
                BY <1>6, <1>7, <4>1, <4>2, <3>6 DEF OneWriter, Writers
            <4> QED
                BY <1>1, <1>6, <4>1, <4>2, <4>3 DEF OneWriter, FileOf
        <3> QED
            BY <3>5, <3>6 DEF WriterInv
    <2> QED
        BY <2>3, <2>4
<1> QED
    BY <1>8, <1>9, <1>10, <1>11 DEF IInv

\* A power loss leaves under a name what is durable there, as much of it as was fsynced.
Remaining(g) ==
    \/ name'[g] = name[g]
    \/ ~nameSafe[g] /\ name'[g] = "torn"
    \/ ~linked[g] /\ name'[g] = old[g]

LEMMA PowerLossKeeps ==
    ASSUME IInv, TypeOK', PowerLoss
    PROVE  IInv'
<1>1. TypeOK /\ OldInv /\ UNCHANGED clash
    BY DEF IInv, PowerLoss
<1>0. PICK gone \in SUBSET {d \in Dirs : place[d] = "fresh"} :
        /\ \E undone \in SUBSET {f \in File : ~linked[f]},
              spoilt \in SUBSET {f \in File : name[f] # "none" /\ ~nameSafe[f]} :
              name' = [f \in File |->
                        IF f[1] \in In(gone) THEN "none" ELSE Remains(f, undone, spoilt)]
        /\ returned' = returned \ In(gone)
    BY DEF PowerLoss
<1>2. ASSUME NEW x \in Worker
      PROVE  step'[x] = "next" /\ todo'[x] = {} /\ kind'[x] = "data" /\ fd'[x] = "none"
    BY DEF PowerLoss, Restart, Idle
<1>3. ASSUME NEW g \in File
      PROVE  /\ linked'[g] /\ nameSafe'[g] /\ old'[g] = "none"
             /\ g[1] \in In(gone) => name'[g] = "none"
             /\ g[1] \notin In(gone) => Remaining(g)
    <2>1. linked'[g] /\ nameSafe'[g] /\ old'[g] = "none"
        BY DEF PowerLoss
    <2>2. /\ g[1] \in In(gone) => name'[g] = "none"
          /\ g[1] \notin In(gone) => Remaining(g)
        BY <1>0 DEF Remains, Remaining
    <2> QED
        BY <2>1, <2>2
<1>4. StepInv'
    BY <1>2 DEF StepInv
<1>5. OldInv'
    BY <1>3 DEF OldInv
<1>6. ReturnedInv'
    <2> SUFFICES ASSUME NEW v \in returned \ In(gone)
                 PROVE  name'[Mark(v)] # "none" /\ linked'[Mark(v)]
        BY <1>0 DEF ReturnedInv, Mark
    <2>1. Mark(v) \in File
        BY <1>1, FileTyped DEF TypeOK
    <2>2. /\ name[Mark(v)] # "none"
          /\ linked[Mark(v)] \/ old[Mark(v)] # "none"
        BY DEF IInv, ReturnedInv
    <2>3. Mark(v)[1] = v
        BY DEF Mark
    <2> QED
        BY <1>3, <2>1, <2>2, <2>3 DEF Remaining
<1>7. ASSUME NEW v \in Unit, v \notin clash'
      PROVE  WriterInv(v)' /\ NameInv(v)'
    <2>1. NameInv(v)
        BY <1>1, <1>7 DEF IInv
    <2>2. /\ Data(v) = <<v, "data">> /\ Mark(v) = <<v, "mark">>
          /\ \A k \in Kind : <<v, k>> \in File
          /\ "data" \in Kind /\ "mark" \in Kind
        BY DEF Data, Mark, File, Kind
    <2>7. \A k \in Kind : v \in In(gone) => name'[<<v, k>>] = "none"
        BY <1>3, <2>2
    <2>8. \A k \in Kind : v \notin In(gone) => Remaining(<<v, k>>)
        BY <1>3, <2>2
    <2>3. \A k \in Kind : name'[<<v, k>>] \in {"none", "whole"}
        BY <2>7, <2>8, <2>1, <2>2 DEF NameInv, Remaining
    <2>4. (v \in Marked)' => v \in Marked /\ v \notin In(gone)
        BY <1>1, <2>1, <2>2, <2>7, <2>8 DEF NameInv, OldInv, Remaining, Marked
    <2>5. Durable(v) /\ v \notin In(gone) => Durable(v)'
        BY <1>3, <2>1, <2>2, <2>8 DEF NameInv, Durable, Remaining
    <2>6. NameInv(v)'
        BY <1>2, <1>3, <2>1, <2>2, <2>3, <2>4, <2>5 DEF NameInv
    <2> QED
        BY <1>2, <2>6 DEF WriterInv, Writers
<1> QED
    BY <1>4, <1>5, <1>6, <1>7 DEF IInv

LEMMA NextKeeps ==
    ASSUME IInv, [Next]_vars
    PROVE  IInv'
<1>1. CASE UNCHANGED vars
    <2>1. UNCHANGED <<fileVars, clash, returned>> /\ TypeOK'
        BY <1>1 DEF vars, fileVars, workVars, IInv, TypeOK
    <2>2. ASSUME NEW x \in Worker PROVE Calm(x)
        BY <1>1 DEF vars, workVars, Calm
    <2> QED
        BY <2>1, <2>2, CalmKeeps
<1>2. CASE Next
    <2>1. TypeOK'
        BY <1>2, NextType DEF IInv
    <2>2. ASSUME NEW w \in Worker, WorkerStep(w) PROVE IInv'
        BY <2>1, <2>2, StartWorkerKeeps, SweepKeeps, EnterKeeps, OpenKeeps, WriteKeeps,
           FsyncKeeps, RenameKeeps, DeathKeeps, DirSyncKeeps DEF WorkerStep, UnitStep
    <2> QED
        BY <1>2, <2>1, <2>2, DeathKeeps, RelaunchKeeps, PowerLossKeeps DEF Next
<1> QED
    BY <1>1, <1>2

THEOREM Inductive == Spec => []IInv
    BY InitInv, NextKeeps, PTL DEF Spec

-----------------------------------------------------------------------------
(* What follows from it *)

\* A marker vouches for a complete shard whenever no two live workers had the unit's files
\* open at once, through kills, sweeps and power losses (shards.py:7-10).
THEOREM MarkerVouches == Spec => []MarkedIsWhole
<1>1. IInv => MarkedIsWhole
    <2> SUFFICES ASSUME IInv, NEW u \in Marked \ clash
                 PROVE  name[Data(u)] = "whole" /\ name[Mark(u)] = "whole"
        BY DEF MarkedIsWhole
    <2>1. NameInv(u) /\ u \in Marked
        BY DEF IInv, Marked
    <2> QED
        BY <2>1 DEF NameInv, Durable, Marked, Mark, Kind
<1> QED
    BY <1>1, Inductive, PTL

\* What run_unit has returned stays done, whatever workers or power losses do afterwards,
\* clashes included, as long as its directory is not new and lost (shards.py:31, 38).
THEOREM ReturnedIsFinal == Spec => ReturnedStaysDone
<1>1. IInv /\ IInv' /\ [Next]_vars =>
        [\A u \in returned :
            \/ u \in Marked'
            \/ place[Dir[u]] = "fresh" /\ place'[Dir[u]] = "none"]_vars
    <2> SUFFICES ASSUME IInv, IInv', Next, NEW u \in returned, u \notin Marked'
                 PROVE  place[Dir[u]] = "fresh" /\ place'[Dir[u]] = "none"
        OBVIOUS
    <2>1. u \notin returned'
        BY DEF IInv, TypeOK, ReturnedInv, Marked
    <2>2. PowerLoss
        BY <2>1 DEF Next, Kill, Relaunch, WorkerStep, UnitStep, StartWorker, BeginOwn, BeginSteal,
           FinishWorker, Sweep, TakeUnit, EnterWriteShard, Open, Write, Fsync, Rename,
           RenameFails, DirSync, Onward
    <2>3. u \in Unit
        BY DEF IInv, TypeOK
    <2> QED
        BY <2>1, <2>2, <2>3 DEF PowerLoss, In
<1> QED
    BY <1>1, Inductive, PTL DEF Spec, ReturnedStaysDone

\* A directory that is written to is there.
LEMMA PlaceKeeps ==
    ASSUME IInv, IInv', PlaceInv, [Next]_vars
    PROVE  PlaceInv'
<1>1. TypeOK /\ StepInv /\ TypeOK'
    BY DEF IInv
<1>2. ASSUME \A d \in Dirs : place'[d] = "none" => place[d] = "none",
             \A f \in File : name'[f] # "none" => name[f] # "none" \/ place[Dir[f[1]]] # "none",
             \A w \in Worker, u \in Unit :
                step'[w] \in {"write", "fsync", "rename"} /\ Here(w, u)' =>
                    \/ place'[Dir[u]] # "none"
                    \/ step[w] \in {"write", "fsync", "rename"} /\ Here(w, u)
      PROVE  PlaceInv'
    <2>1. \A u \in Unit : Dir[u] \in Dirs
        BY DEF Dirs
    <2>2. \A f \in File : f[1] \in Unit
        BY DEF File
    <2> QED
        BY <1>2, <2>1, <2>2 DEF PlaceInv
<1>3. ASSUME NEW w \in Worker, WorkerStep(w) \/ Kill(w) PROVE PlaceInv'
    <2>1. ASSUME NEW x \in Worker, x # w
          PROVE  step'[x] = step[x] /\ \A u \in Unit : Here(x, u)' => Here(x, u)
        BY <1>1, <1>3, <2>1 DEF WorkerStep, Kill, StartWorker, BeginOwn, BeginSteal,
           FinishWorker, Sweep, UnitStep, TakeUnit, EnterWriteShard, Open, Write, Fsync, Rename,
           RenameFails, DirSync, Onward, Leave, Goto, Dies, Here, TypeOK
    <2>2. ASSUME NEW u \in Unit, Open(w, u) PROVE PlaceInv'
        <3>1. /\ \A d \in Dirs : place'[d] = "none" => place[d] = "none"
              /\ place'[Dir[u]] # "none" /\ name' = name
              /\ Here(w, u)' /\ u \in Unit
            BY <1>1, <2>2 DEF Open, At, Goto, Here, Dirs, TypeOK
        <3>2. \A v \in Unit : Here(w, v)' => v = u
            BY <3>1 DEF Here
        <3> QED
            BY <1>2, <2>1, <3>1, <3>2
    <2>3. ASSUME NEW u \in Unit, Write(w, u) \/ Fsync(w, u) \/ Rename(w, u) PROVE PlaceInv'
        <3>1. /\ place' = place /\ step[w] \in {"write", "fsync", "rename"} /\ Here(w, u)
              /\ \A v \in Unit : Here(w, v)' => Here(w, v)
            BY <2>3 DEF Write, Fsync, Rename, At, Goto, Here
        <3>2. place[Dir[u]] # "none"
            BY <3>1 DEF PlaceInv
        <3>3. ASSUME NEW f \in File, f # FileOf(w, u) PROVE name'[f] = name[f]
            BY <1>1, <2>3, <3>3 DEF Write, Fsync, Rename, TypeOK
        <3>4. FileOf(w, u)[1] = u
            BY DEF FileOf
        <3> QED
            BY <1>2, <2>1, <3>1, <3>2, <3>3, <3>4
    <2>4. CASE \A u \in Unit : ~ (Open(w, u) \/ Write(w, u) \/ Fsync(w, u) \/ Rename(w, u))
        <3>1. place' = place /\ name' = name
            BY <1>3, <2>4 DEF WorkerStep, Kill, StartWorker, BeginOwn, BeginSteal,
               FinishWorker, Sweep, UnitStep, TakeUnit, EnterWriteShard, RenameFails, DirSync,
               fileVars
        <3>2. \/ step'[w] \notin {"write", "fsync", "rename"}
              \/ step'[w] = step[w] /\ \A u \in Unit : Here(w, u)' => Here(w, u)
            BY <1>1, <1>3, <2>4 DEF WorkerStep, Kill, StartWorker, BeginOwn, BeginSteal,
               FinishWorker, Sweep, UnitStep, TakeUnit, EnterWriteShard, RenameFails, DirSync,
               Onward, Leave, Goto, Dies, Here, StepInv, TypeOK
        <3> QED
            BY <1>2, <2>1, <3>1, <3>2
    <2> QED
        BY <2>2, <2>3, <2>4
<1>4. ASSUME Restart PROVE \A w \in Worker : step'[w] = "next"
    BY <1>4 DEF Restart, Idle
<1>5. CASE Relaunch
    BY <1>2, <1>4, <1>5 DEF Relaunch, fileVars
<1>6. CASE PowerLoss
    <2>1. PICK gone \in SUBSET {d \in Dirs : place[d] = "fresh"} :
            /\ \E undone \in SUBSET {f \in File : ~linked[f]},
                  spoilt \in SUBSET {f \in File : name[f] # "none" /\ ~nameSafe[f]} :
                  name' = [f \in File |->
                            IF f[1] \in In(gone) THEN "none" ELSE Remains(f, undone, spoilt)]
            /\ place' = [d \in Dirs |->
                  IF d \in gone \/ place[d] = "none" THEN "none" ELSE "durable"]
        BY <1>6 DEF PowerLoss
    <2>2. ASSUME NEW f \in File, name'[f] # "none"
          PROVE  f[1] \notin In(gone) /\ name[f] # "none"
        <3>1. f[1] \notin In(gone)
            BY <2>1, <2>2
        <3>2. PICK undone \in SUBSET {g \in File : ~linked[g]},
                   spoilt \in SUBSET {g \in File : name[g] # "none" /\ ~nameSafe[g]} :
                 name'[f] = Remains(f, undone, spoilt)
            BY <2>1, <2>2, <3>1
        <3> QED
            BY <2>2, <3>1, <3>2 DEF Remains, IInv, OldInv
    <2>3. ASSUME NEW f \in File, name'[f] # "none" PROVE place'[Dir[f[1]]] # "none"
        <3>1. f[1] \in Unit /\ Dir[f[1]] \in Dirs
            BY DEF File, Dirs
        <3>2. Dir[f[1]] \notin gone
            BY <2>2, <2>3, <3>1 DEF In
        <3>3. place[Dir[f[1]]] # "none"
            BY <2>2, <2>3 DEF PlaceInv
        <3> QED
            BY <2>1, <3>1, <3>2, <3>3
    <2>4. \A w \in Worker : step'[w] = "next"
        BY <1>4, <1>6 DEF PowerLoss
    <2> QED
        BY <2>3, <2>4 DEF PlaceInv
<1>7. CASE UNCHANGED vars
    BY <1>7 DEF vars, fileVars, workVars, PlaceInv, Here
<1> QED
    BY <1>3, <1>5, <1>6, <1>7 DEF Next

LEMMA Placed == Spec => []PlaceInv
<1>1. Init => PlaceInv
    BY DEF Init, Idle, PlaceInv
<1>2. IInv /\ IInv' /\ PlaceInv /\ [Next]_vars => PlaceInv'
    BY PlaceKeeps
<1> QED
    BY <1>1, <1>2, Inductive, PTL DEF Spec

\* While no unit has two writers at once, the disk takes only the steps of an atomic one:
\* what FleetResume assumes of write_shard and write_marker.
LEMMA StepIsAtomic ==
    ASSUME IInv, IInv', PlaceInv', [Next]_vars, clash' = {}
    PROVE  [Disk!Next]_(Disk!vars)
<1> DEFINE shards == {u \in Unit : name[Data(u)] = "whole"}
           marks == {u \in Unit : name[Mark(u)] = "whole"}
           settled == {d \in Dirs : place[d] = "durable"}
<1> SUFFICES ASSUME UNCHANGED <<shards, marks, returned, settled>> => FALSE
             PROVE  Disk!Next
    BY DEF Disk!vars
<1>1. TypeOK
    BY DEF IInv
<1>2. ASSUME NEW w \in Worker, NEW u \in Unit, Rename(w, u)
      PROVE  Disk!Next
    <2> DEFINE f == FileOf(w, u)
    <2>1. clash = {} /\ returned' = returned /\ w \in Writers(u) /\ tmp[f] # "none"
        BY <1>2 DEF Rename, At, Writers
    <2>8. settled' = settled
        BY <1>2 DEF Rename
    <2>2. Here(w, u) /\ WriterInv(u) /\ NameInv(u) /\ step[w] = "rename"
        BY <1>2, <2>1 DEF IInv, Rename, At
    <2>3. tmp[f] = "whole"
        BY <2>1, <2>2 DEF WriterInv, OneWriter
    <2>4. ASSUME NEW g \in File
          PROVE  name'[g] = IF g = f THEN "whole" ELSE name[g]
        BY <1>1, <1>2, <2>3 DEF Rename, TypeOK
    <2>5. ASSUME NEW v \in Unit
          PROVE  /\ Data(v) \in File /\ Mark(v) \in File
                 /\ Data(v) = f <=> v = u /\ kind[w] = "data"
                 /\ Mark(v) = f <=> v = u /\ kind[w] = "mark"
        BY DEF File, Kind, Data, Mark, FileOf
    <2>6. CASE kind[w] = "data"
        <3>1. shards' = shards \cup {u} /\ marks' = marks
            BY <2>4, <2>5, <2>6
        <3> QED
            BY <2>1, <2>8, <3>1 DEF Disk!Next, Disk!PutShard
    <2>7. CASE kind[w] = "mark"
        <3>1. shards' = shards /\ marks' = marks \cup {u}
            BY <2>4, <2>5, <2>7
        <3>2. u \in shards
            BY <2>2, <2>7 DEF NameInv, Durable
        <3> QED
            BY <2>1, <2>8, <3>1, <3>2 DEF Disk!Next, Disk!PutMarker
    <2> QED
        BY <1>1, <2>6, <2>7 DEF TypeOK, Kind
<1>3. ASSUME NEW w \in Worker, NEW u \in Unit, DirSync(w, u)
      PROVE  Disk!Next
    <2>1. name' = name /\ clash = {} /\ step[w] = "dirsync" /\ Here(w, u) /\ settled' = settled
        BY <1>3 DEF DirSync, At
    <2>2. returned' = returned \cup {u} /\ kind[w] = "mark"
        BY <1>1, <1>3, <2>1 DEF DirSync, Onward, TypeOK, Kind
    <2>3. name[Mark(u)] # "none" /\ NameInv(u)
        BY <2>1, <2>2 DEF IInv, StepInv, FileOf, Mark
    <2>4. u \in marks
        BY <2>3 DEF NameInv, Mark, Kind
    <2> QED
        BY <2>1, <2>2, <2>4 DEF Disk!Next, Disk!Return
<1>4. CASE PowerLoss
    <2>1. clash = {}
        BY <1>4 DEF PowerLoss
    <2>0. PICK gone \in SUBSET {d \in Dirs : place[d] = "fresh"} :
            /\ \E undone \in SUBSET {f \in File : ~linked[f]},
                  spoilt \in SUBSET {f \in File : name[f] # "none" /\ ~nameSafe[f]} :
                  name' = [f \in File |->
                            IF f[1] \in In(gone) THEN "none" ELSE Remains(f, undone, spoilt)]
            /\ place' = [d \in Dirs |->
                  IF d \in gone \/ place[d] = "none" THEN "none" ELSE "durable"]
            /\ returned' = returned \ In(gone)
        BY <1>4 DEF PowerLoss
    <2>2. ASSUME NEW v \in Unit
          PROVE  /\ NameInv(v) /\ NameInv(v)'
                 /\ Data(v) \in File /\ Mark(v) \in File
                 /\ Data(v) = <<v, "data">> /\ Mark(v) = <<v, "mark">>
                 /\ Data(v)[1] = v /\ Mark(v)[1] = v
                 /\ "data" \in Kind /\ "mark" \in Kind
        BY <2>1 DEF IInv, Data, Mark, File, Kind
    <2>3. ASSUME NEW g \in File, name[g] \in {"none", "whole"}, old[g] \in {"none", "whole"},
                 nameSafe[g], name'[g] = "whole"
          PROVE  name[g] = "whole" /\ g[1] \notin In(gone)
        BY <2>0, <2>3 DEF Remains, IInv, OldInv
    <2>4. shards' \subseteq shards \ In(gone) /\ marks' \subseteq marks \ In(gone)
        <3>1. ASSUME NEW v \in Unit, name'[Data(v)] = "whole"
              PROVE  name[Data(v)] = "whole" /\ v \notin In(gone)
            BY <2>2, <2>3, <3>1 DEF NameInv
        <3>2. ASSUME NEW v \in Unit, name'[Mark(v)] = "whole"
              PROVE  name[Mark(v)] = "whole" /\ v \notin In(gone)
            BY <2>2, <2>3, <3>2 DEF NameInv
        <3> QED
            BY <3>1, <3>2
    <2>5. returned' \subseteq marks'
        BY <1>1, <2>2 DEF IInv, TypeOK, ReturnedInv, NameInv
    <2>6. marks' \subseteq shards'
        BY <2>2 DEF NameInv, Durable, Marked
    <2>7. /\ gone \in SUBSET (Dirs \ settled) /\ settled \subseteq settled'
          /\ settled' \in SUBSET Dirs
        BY <2>0
    <2>8. ASSUME NEW v \in shards' PROVE Dir[v] \in settled'
        <3>1. v \in Unit /\ name'[Data(v)] # "none"
            OBVIOUS
        <3>2. place'[Dir[v]] # "none"
            BY <2>2, <3>1 DEF PlaceInv
        <3>3. Dir[v] \in Dirs
            BY <3>1 DEF Dirs
        <3> QED
            BY <2>0, <3>2, <3>3
    <2>9. In(gone) = Disk!In(gone) /\ Dirs = Disk!Dirs
        BY DEF In, Disk!In, Dirs, Disk!Dirs
    <2>10. Disk!PowerLoss
        <3> HIDE DEF shards, marks, settled
        <3> QED
            BY <2>0, <2>4, <2>5, <2>6, <2>7, <2>8, <2>9
               DEF Disk!PowerLoss, shards, marks, settled
    <2> QED
        BY <2>10 DEF Disk!Next
<1>5. ASSUME NEW w \in Worker, NEW u \in Unit, Write(w, u)
      PROVE  name' = name
    <2>1. clash = {} /\ w \in Writers(u) /\ step[w] = "write"
        BY <1>5 DEF Write, At, Writers
    <2>2. OneWriter(w, u)
        BY <2>1 DEF IInv, WriterInv
    <2> QED
        BY <1>5, <2>1, <2>2 DEF OneWriter, Write
<1>6. ASSUME name' = name, returned' = returned, settled' = settled PROVE FALSE
    BY <1>6
<1>10. ASSUME place' = place PROVE settled' = settled
    BY <1>10
<1>11. ASSUME NEW w \in Worker, NEW u \in Unit, Open(w, u) PROVE settled' = settled
    <2>1. ASSUME NEW d \in Dirs PROVE place'[d] = "durable" <=> place[d] = "durable"
        BY <1>1, <1>11 DEF Open, TypeOK
    <2> QED
        BY <2>1
<1>7. ASSUME NEW w \in Worker, NEW u \in Unit, UnitStep(w, u)
      PROVE  Disk!Next
    BY <1>2, <1>3, <1>5, <1>6, <1>7, <1>10, <1>11 DEF UnitStep, TakeUnit, EnterWriteShard, Open, Write,
       Fsync, RenameFails, fileVars
<1>8. ASSUME NEW w \in Worker, WorkerStep(w)
      PROVE  Disk!Next
    BY <1>6, <1>7, <1>8, <1>10 DEF WorkerStep, StartWorker, BeginOwn, BeginSteal, FinishWorker,
       Sweep, fileVars
<1>9. CASE Next
    BY <1>4, <1>6, <1>8, <1>9, <1>10 DEF Next, Kill, Relaunch, fileVars
<1> QED
    BY <1>6, <1>9, <1>10 DEF vars, fileVars

THEOREM ImplementsAtomicDisk == Spec => ActsAtomically
<1>1. IInv /\ IInv' /\ PlaceInv' /\ [Next]_vars => [clash' = {} => Disk!Next]_(Disk!vars)
    BY StepIsAtomic
<1> QED
    BY <1>1, Inductive, Placed, PTL DEF Spec, ActsAtomically

\* With one worker per disk (launch_node.sh in fleet mode) the protocol of shards.py keeps
\* its promise as written: a marker means that the shard is complete.
THEOREM OneWorkerVouches ==
    ASSUME \A w, x \in Worker : w = x
    PROVE  Spec => []MarkerMeansComplete
<1> DEFINE Alone == clash = {}
<1>1. Init => Alone
    BY DEF Init
<1>2. Alone /\ [Next]_vars => Alone'
    <2> SUFFICES ASSUME clash = {}, [Next]_vars PROVE clash' = {}
        OBVIOUS
    <2>1. ASSUME NEW w \in Worker, NEW u \in Unit, Open(w, u) PROVE clash' = {}
        <3>1. Writers(u) = {}
            BY <2>1 DEF Open, At, Writers
        <3> QED
            BY <2>1, <3>1 DEF Open
    <2>2. ASSUME NEW w \in Worker, NEW u \in Unit, UnitStep(w, u) PROVE clash' = {}
        BY <2>1, <2>2 DEF UnitStep, TakeUnit, EnterWriteShard, Write, Fsync, Rename,
           RenameFails, DirSync
    <2>3. ASSUME NEW w \in Worker, WorkerStep(w) PROVE clash' = {}
        BY <2>2, <2>3 DEF WorkerStep, StartWorker, BeginOwn, BeginSteal, FinishWorker, Sweep
    <2> QED
        BY <2>3 DEF Next, Kill, Relaunch, PowerLoss, vars
<1>3. Alone /\ MarkedIsWhole => MarkerMeansComplete
    BY DEF MarkedIsWhole, MarkerMeansComplete
<1> HIDE DEF Alone
<1> QED
    BY <1>1, <1>2, <1>3, MarkerVouches, PTL DEF Spec

-----------------------------------------------------------------------------
(* Somebody survives *)

\* Where a step takes nothing away it leaves every survivor one, and what is marked marked.
Harmless ==
    /\ \A u \in Unit : u \in Marked => u \in Marked'
    /\ \A x \in Worker :
        /\ pass'[x] = "failed" => pass[x] = "failed" \/ Bereft(x)
        /\ Bereft(x)' => Bereft(x)

\* What a step does to the passes: only units that are marked now leave a steal pass.
Covering ==
    \A x \in Worker :
        /\ pass'[x] = "steal" => \/ Unit \ Marked \subseteq todo'[x]
                                 \/ pass[x] = "steal" /\ todo[x] \ todo'[x] \subseteq Marked'
        /\ pass'[x] = "done" => \/ pass[x] = "done"
                                \/ pass[x] = "steal" /\ todo[x] = {}

LEMMA CoverFrom ==
    ASSUME CoverInv, faults' = faults, Covering, Marked \subseteq Marked',
           faults = 0 => \E w \in Worker : pass'[w] # "failed" /\ ~Bereft(w)'
    PROVE  CoverInv'
BY DEF CoverInv, Covering

\* A file that a step leaves in place leaves nobody bereft, and no unit unmarked.
LEMMA NothingTaken ==
    ASSUME TypeOK, StepInv,
           \A f \in File : tmp'[f] = "none" => tmp[f] = "none",
           \A f \in File : name'[f] = "none" => name[f] = "none",
           \A x \in Worker :
              \/ step'[x] \notin {"write", "fsync", "rename"}
              \/ \E u \in Unit : Here(x, u)' /\ tmp'[FileOf(x, u)'] # "none"
              \/ /\ step[x] \in {"write", "fsync", "rename"}
                 /\ todo'[x] = todo[x] /\ kind'[x] = kind[x],
           TypeOK',
           \A x \in Worker : pass'[x] = "failed" => pass[x] = "failed" \/ Bereft(x)
    PROVE  Harmless
<1>1. \A u \in Unit : u \in Marked => u \in Marked'
    BY DEF Marked, Mark, File, Kind
<1>2. ASSUME NEW x \in Worker, Bereft(x)' PROVE Bereft(x)
    <2>1. PICK u \in Unit : Here(x, u)' /\ tmp'[FileOf(x, u)'] = "none"
        BY <1>2 DEF Bereft
    <2>2. \A v \in Unit : Here(x, v)' => v = u
        <3> SUFFICES ASSUME NEW v \in Unit, Here(x, v)' PROVE v = u
            OBVIOUS
        <3>1. v \in Nat /\ u \in Nat /\ u <= v /\ v <= u
            BY <2>1 DEF Here
        <3> QED
            BY <3>1
    <2>3. step'[x] \in {"write", "fsync", "rename"}
        BY <1>2 DEF Bereft
    <2>4. /\ step[x] \in {"write", "fsync", "rename"}
          /\ todo'[x] = todo[x] /\ kind'[x] = kind[x]
        BY <2>1, <2>2, <2>3
    <2>5. Here(x, u) /\ FileOf(x, u)' = FileOf(x, u) /\ FileOf(x, u) \in File
        BY <2>1, <2>4, FileTyped DEF Here, FileOf
    <2> QED
        BY <2>1, <2>4, <2>5 DEF Bereft
<1> QED
    BY <1>1, <1>2 DEF Harmless

LEMMA HarmlessCovers ==
    ASSUME CoverInv, faults' = faults, Harmless, Covering
    PROVE  CoverInv'
<1>1. Marked \subseteq Marked'
    BY DEF Harmless, Marked
<1>2. faults = 0 => \E w \in Worker : pass'[w] # "failed" /\ ~Bereft(w)'
    BY DEF CoverInv, Harmless
<1> QED
    BY <1>1, <1>2, CoverFrom

\* Steps that leave the disk alone.
LEMMA PassCovers ==
    ASSUME IInv, IInv', CoverInv, NEW w \in Worker,
           \/ StartWorker(w) \/ BeginOwn(w) \/ BeginSteal(w) \/ FinishWorker(w)
           \/ \E u \in Unit : TakeUnit(w, u) \/ EnterWriteShard(w, u)
    PROVE  CoverInv'
<1>1. TypeOK /\ TypeOK' /\ StepInv
    BY DEF IInv
<1>2. UNCHANGED <<fileVars, faults>>
    BY DEF StartWorker, BeginOwn, BeginSteal, FinishWorker, TakeUnit, EnterWriteShard
<1>3. ASSUME NEW x \in Worker
      PROVE  /\ \/ step'[x] \notin {"write", "fsync", "rename"}
                \/ /\ step[x] \in {"write", "fsync", "rename"}
                   /\ todo'[x] = todo[x] /\ kind'[x] = kind[x]
             /\ pass'[x] = "failed" => pass[x] = "failed"
    BY <1>1 DEF StartWorker, BeginOwn, BeginSteal, FinishWorker, TakeUnit, EnterWriteShard,
       Leave, Goto, StepInv, TypeOK, Step, Pass
<1>4. Harmless
    BY <1>1, <1>2, <1>3, NothingTaken DEF fileVars
<1>5. Marked' = Marked
    BY <1>2 DEF Marked, fileVars
<1>6. Covering
    <2>1. CASE StartWorker(w) \/ BeginOwn(w) \/ BeginSteal(w) \/ FinishWorker(w)
        BY <1>1, <2>1 DEF StartWorker, BeginOwn, BeginSteal, FinishWorker, TypeOK, Covering
    <2>2. ASSUME NEW u \in Unit, TakeUnit(w, u) \/ EnterWriteShard(w, u) PROVE Covering
        BY <1>1, <1>5, <2>2 DEF TakeUnit, EnterWriteShard, Leave, Goto, TypeOK, Covering, At
    <2> QED
        BY <2>1, <2>2
<1> QED
    BY <1>2, <1>4, <1>6, HarmlessCovers

\* Steps that put something into files.
LEMMA FileCovers ==
    ASSUME IInv, IInv', CoverInv, NEW w \in Worker, NEW u \in Unit,
           Open(w, u) \/ Write(w, u) \/ Fsync(w, u)
    PROVE  CoverInv'
<1> DEFINE f == FileOf(w, u)
<1>1. TypeOK /\ TypeOK' /\ StepInv /\ f \in File
    BY FileTyped DEF IInv
<1>2. /\ UNCHANGED <<pass, todo, left, kind, faults>>
      /\ \A x \in Worker : x # w => step'[x] = step[x]
      /\ Here(w, u)' /\ f' = f
    BY <1>1 DEF Open, Write, Fsync, Goto, TypeOK, At, Here, FileOf
<1>3. /\ \A g \in File : g # f => tmp'[g] = tmp[g] /\ name'[g] = name[g]
      /\ tmp'[f] = "none" => tmp[f] = "none"
      /\ name'[f] = "none" => name[f] = "none"
    <2>1. CASE Open(w, u)
        BY <1>1, <2>1 DEF Open, TypeOK
    <2>2. CASE Write(w, u)
        <3>1. CASE fd[w] = "tmp"
            <4>1. /\ \E b \in {"whole", "torn"} : tmp' = [tmp EXCEPT ![f] = b]
                  /\ name' = name
                BY <2>2, <3>1 DEF Write, Written
            <4> QED
                BY <1>1, <4>1 DEF TypeOK
        <3>2. CASE fd[w] = "name"
            <4>1. /\ \E b \in {"whole", "torn"} : name' = [name EXCEPT ![f] = b]
                  /\ tmp' = tmp
                BY <2>2, <3>2 DEF Write, Written
            <4> QED
                BY <1>1, <4>1 DEF TypeOK
        <3>3. CASE fd[w] = "gone"
            BY <2>2, <3>3 DEF Write
        <3> QED
            BY <2>2, <3>1, <3>2, <3>3 DEF Write
    <2>3. CASE Fsync(w, u)
        BY <2>3 DEF Fsync
    <2> QED
        BY <2>1, <2>2, <2>3
<1>4. \/ step[w] \in {"write", "fsync", "rename"}
      \/ tmp'[f] # "none"
    BY <1>1 DEF Open, Write, Fsync, At, TypeOK
<1>5. ASSUME NEW x \in Worker
      PROVE  \/ step'[x] \notin {"write", "fsync", "rename"}
             \/ \E v \in Unit : Here(x, v)' /\ tmp'[FileOf(x, v)'] # "none"
             \/ /\ step[x] \in {"write", "fsync", "rename"}
                /\ todo'[x] = todo[x] /\ kind'[x] = kind[x]
    BY <1>2, <1>4
<1>6. Harmless
    <2>1. /\ \A g \in File : tmp'[g] = "none" => tmp[g] = "none"
          /\ \A g \in File : name'[g] = "none" => name[g] = "none"
        BY <1>3
    <2> QED
        BY <1>1, <1>2, <1>5, <2>1, NothingTaken
<1>7. Marked \subseteq Marked'
    BY <1>6 DEF Harmless, Marked
<1>8. Covering
    BY <1>2 DEF Covering
<1> QED
    BY <1>2, <1>6, <1>8, HarmlessCovers

\* The shard's directory is fsynced, or the marker's, and the unit is done.
LEMMA DirSyncCovers ==
    ASSUME IInv, IInv', CoverInv, NEW w \in Worker, NEW u \in Unit, DirSync(w, u)
    PROVE  CoverInv'
<1>1. TypeOK /\ TypeOK' /\ StepInv
    BY DEF IInv
<1>2. UNCHANGED <<tmp, name, faults, pass>> /\ Here(w, u) /\ step[w] = "dirsync"
    <2>1. Onward(w, u) => UNCHANGED pass
        BY DEF Onward, Leave
    <2> QED
        BY <2>1 DEF DirSync, At
<1>3. /\ step'[w] \notin {"write", "fsync", "rename"}
      /\ \A x \in Worker : x # w => step'[x] = step[x] /\ todo'[x] = todo[x] /\ kind'[x] = kind[x]
      /\ \/ todo'[w] = todo[w]
         \/ kind[w] # "data" /\ todo'[w] = todo[w] \ {u}
    <2>1. CASE kind[w] = "data"
        <3>1. /\ kind' = [kind EXCEPT ![w] = "mark"]
              /\ step' = [step EXCEPT ![w] = "open"]
              /\ todo' = todo
            BY <2>1 DEF DirSync, Onward
        <3> QED
            BY <1>1, <3>1 DEF TypeOK
    <2>2. CASE kind[w] # "data"
        <3>1. Leave(w, u)
            BY <2>2 DEF DirSync, Onward
        <3> QED
            BY <1>1, <2>2, <3>1 DEF Leave, TypeOK
    <2> QED
        BY <2>1, <2>2
<1>4. Harmless
    <2>1. ASSUME NEW x \in Worker
          PROVE  \/ step'[x] \notin {"write", "fsync", "rename"}
                 \/ /\ step[x] \in {"write", "fsync", "rename"}
                    /\ todo'[x] = todo[x] /\ kind'[x] = kind[x]
        BY <1>3
    <2> QED
        BY <1>1, <1>2, <2>1, NothingTaken
<1>5. kind[w] # "data" => u \in Marked'
    BY <1>1, <1>2 DEF StepInv, FileOf, Mark, Marked, TypeOK, Kind
<1>6. Covering
    BY <1>2, <1>3, <1>5 DEF Covering
<1> QED
    BY <1>2, <1>4, <1>6, HarmlessCovers

\* A worker that dies of a rename was bereft before.
LEMMA RenameFailsCovers ==
    ASSUME IInv, IInv', CoverInv, NEW w \in Worker, NEW u \in Unit, RenameFails(w, u)
    PROVE  CoverInv'
<1>1. TypeOK /\ TypeOK' /\ StepInv
    BY DEF IInv
<1>2. /\ UNCHANGED <<fileVars, faults>> /\ Bereft(w)
      /\ pass'[w] = "failed" /\ step'[w] = "next"
      /\ \A x \in Worker : x # w => /\ pass'[x] = pass[x] /\ step'[x] = step[x]
                                    /\ todo'[x] = todo[x] /\ kind'[x] = kind[x]
    BY <1>1 DEF RenameFails, Dies, TypeOK, Bereft, At
<1>3. Harmless
    BY <1>1, <1>2, NothingTaken DEF fileVars
<1>4. Covering
    BY <1>2 DEF Covering
<1> QED
    BY <1>2, <1>3, <1>4, HarmlessCovers

\* Who sweeps or renames somebody else's file is not bereft itself.
LEMMA TakerCovers ==
    ASSUME IInv, IInv', CoverInv, NEW w \in Worker,
           (\E f \in File : Sweep(w, f)) \/ (\E u \in Unit : Rename(w, u))
    PROVE  CoverInv'
<1>1. TypeOK /\ StepInv
    BY DEF IInv
<1>2. /\ UNCHANGED <<faults, pass, todo>> /\ pass[w] # "failed"
      /\ step'[w] \notin {"write", "fsync", "rename"}
    BY <1>1 DEF Sweep, Rename, Goto, At, StepInv, TypeOK, Step
<1>3. pass'[w] # "failed" /\ ~Bereft(w)'
    BY <1>2 DEF Bereft
<1>4. \A f \in File : name'[f] = "none" => name[f] = "none"
    <2>1. ASSUME NEW f \in File, Sweep(w, f) PROVE name' = name
        BY <2>1 DEF Sweep
    <2>2. ASSUME NEW u \in Unit, Rename(w, u)
          PROVE  \A f \in File : name'[f] = "none" => name[f] = "none"
        BY <1>1, <2>2, FileTyped DEF Rename, TypeOK
    <2> QED
        BY <2>1, <2>2
<1>5. Marked \subseteq Marked'
    BY <1>4 DEF Marked, Mark, File, Kind
<1>6. Covering
    BY <1>2 DEF Covering
<1> QED
    BY <1>2, <1>3, <1>5, <1>6, CoverFrom

LEMMA CoverKept ==
    ASSUME IInv, IInv', CoverInv, [Next]_vars
    PROVE  CoverInv'
<1>1. CASE UNCHANGED vars
    BY <1>1 DEF vars, fileVars, workVars, CoverInv, Bereft, Here, FileOf, Marked
<1>2. ASSUME NEW w \in Worker, WorkerStep(w) PROVE CoverInv'
    BY <1>2, PassCovers, FileCovers, DirSyncCovers, RenameFailsCovers, TakerCovers
       DEF WorkerStep, UnitStep
<1>3. CASE Relaunch
    <2>1. \A x \in Worker : pass'[x] = "new" /\ step'[x] = "next"
        BY <1>3 DEF Relaunch, Restart, Idle
    <2> QED
        BY <2>1 DEF CoverInv, Bereft
<1>4. ASSUME Fault PROVE CoverInv'
    <2>1. faults' # 0
        BY <1>4 DEF IInv, TypeOK, Fault
    <2> QED
        BY <2>1 DEF CoverInv
<1> QED
    BY <1>1, <1>2, <1>3, <1>4 DEF Next, Kill, PowerLoss

\* Workers of one disk kill each other by renaming and sweeping the shared .tmp names, yet,
\* short of kills and power losses, one of them always lives to finish the plan, for any
\* number of workers (runner.py:159, planner.py:132-133).
THEOREM SomebodySurvives == Spec => []SurvivorCovers
<1>1. Init => CoverInv
    BY DEF Init, Idle, CoverInv, Bereft
<1>2. IInv /\ IInv' /\ CoverInv /\ [Next]_vars => CoverInv'
    BY CoverKept
<1>3. CoverInv => SurvivorCovers
    BY DEF CoverInv, SurvivorCovers
<1> QED
    BY <1>1, <1>2, <1>3, Inductive, PTL DEF Spec
=============================================================================
