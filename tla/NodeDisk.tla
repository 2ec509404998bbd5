------------------------------- MODULE NodeDisk -------------------------------
(***************************************************************************)
(* The disk of one machine under several generation workers: the inside of *)
(* _atomic_write (src/src/soe/io/shards.py), which FleetResume takes for   *)
(* one step.  A file is written as <name>.tmp, fsynced, renamed, and the   *)
(* directory is fsynced; the .tmp name is the same for everyone who writes *)
(* that file, and every starting worker sweeps the .tmp files away.  The   *)
(* directory is made where it is missing, and nothing fsyncs the one it is *)
(* made in, so that a power loss may take a new directory and all in it.   *)
(*                                                                         *)
(* A file's body is "whole" when one writer's complete payload is in it.   *)
(* An inode has a name here only while the code can reach it: it is what   *)
(* the .tmp entry holds, what the final entry holds, or gone.  So a        *)
(* writer's descriptor points to "tmp", "name" or "gone", and moves with   *)
(* the renames and unlinks of others.                                      *)
(***************************************************************************)
EXTENDS Naturals

CONSTANTS
    Worker,     \* the workers of this machine, by index
    Unit,       \* the plan, each unit named by its position in run order
    Owner,      \* Owner[u]: the worker index u's problem shard belongs to
    Dir,        \* Dir[u]: the directory of u's shard and marker
    MaxFaults   \* bound on kills and power losses

ASSUME NodeAssumption ==
    /\ Worker \subseteq Nat /\ Worker # {}
    /\ Unit \subseteq Nat
    /\ Owner \in [Unit -> Nat]
    /\ MaxFaults \in Nat

Kind == {"data", "mark"}
File == Unit \X Kind
Data(u) == <<u, "data">>
Mark(u) == <<u, "mark">>
Dirs == {Dir[u] : u \in Unit}
In(gone) == {u \in Unit : Dir[u] \in gone}

Body == {"none", "empty", "whole", "torn"}
Pass == {"new", "sweep", "own", "steal", "done", "failed"}
Step == {"next", "gen", "open", "write", "fsync", "rename", "dirsync"}

VARIABLES
    tmp, name,          \* body under each file's .tmp and final name
    tmpSafe, nameSafe,  \* whether that body has been fsynced
    linked, old,        \* whether the final name is durable; if not, the durable body
    place,              \* whether a directory is missing, new, or there for good
    pass, todo,         \* as in FleetResume
    left,               \* files a worker's sweep_tmp has yet to visit
    step, kind,         \* what the worker does next, and to which file of its unit
    fd,                 \* where the inode it has open is now
    faults,
    clash,              \* units two live writers had open at once (history)
    returned            \* units whose run_unit returned their path, as long as their
                        \* directory has not been lost (history)

fileVars == <<tmp, name, tmpSafe, nameSafe, linked, old, place>>
workVars == <<pass, todo, left, step, kind, fd>>
vars == <<fileVars, workVars, faults, clash, returned>>

TypeOK ==
    /\ tmp \in [File -> Body] /\ name \in [File -> Body] /\ old \in [File -> Body]
    /\ tmpSafe \in [File -> BOOLEAN] /\ nameSafe \in [File -> BOOLEAN]
    /\ linked \in [File -> BOOLEAN]
    /\ place \in [Dirs -> {"none", "fresh", "durable"}]
    /\ pass \in [Worker -> Pass]
    /\ todo \in [Worker -> SUBSET Unit]
    /\ left \in [Worker -> SUBSET File]
    /\ step \in [Worker -> Step]
    /\ kind \in [Worker -> Kind]
    /\ fd \in [Worker -> {"none", "tmp", "name", "gone"}]
    /\ faults \in 0..MaxFaults
    /\ clash \in SUBSET Unit
    /\ returned \in SUBSET Unit

Idle(x) == [w \in Worker |-> x]

Init ==
    /\ tmp = [f \in File |-> "none"] /\ name = tmp /\ old = tmp
    /\ tmpSafe = [f \in File |-> TRUE] /\ nameSafe = tmpSafe /\ linked = tmpSafe
    /\ place = [d \in Dirs |-> "none"]
    /\ pass = Idle("new") /\ todo = Idle({}) /\ left = Idle({})
    /\ step = Idle("next") /\ kind = Idle("data") /\ fd = Idle("none")
    /\ faults = 0 /\ clash = {} /\ returned = {}

\* is_done: the marker file exists.
Marked == {u \in Unit : name[Mark(u)] # "none"}

\* The unit worker w is at: the first one left of its pass.
Here(w, u) == u \in todo[w] /\ \A x \in todo[w] : u <= x

Fault == faults < MaxFaults /\ faults' = faults + 1

-----------------------------------------------------------------------------
(* run_experiment *)

\* launch_node.sh starts the workers in index order; soe generate first sweeps.
StartWorker(w) ==
    /\ pass[w] = "new"
    /\ \A x \in Worker : x < w => pass[x] # "new"
    /\ pass' = [pass EXCEPT ![w] = "sweep"]
    /\ left' = [left EXCEPT ![w] = File]
    /\ UNCHANGED <<fileVars, todo, step, kind, fd, faults, clash, returned>>

\* Descriptors, those of f's writers that pointed to "was" now pointing to "is".
Moved(f, was, is) ==
    [w \in Worker |-> IF fd[w] = was /\ Here(w, f[1]) /\ kind[w] = f[2] THEN is ELSE fd[w]]

\* sweep_tmp comes to f's place: an orphan or not, f's .tmp is unlinked.
Sweep(w, f) ==
    /\ pass[w] = "sweep"
    /\ f \in left[w]
    /\ left' = [left EXCEPT ![w] = @ \ {f}]
    /\ tmp' = [tmp EXCEPT ![f] = "none"]
    /\ tmpSafe' = [tmpSafe EXCEPT ![f] = TRUE]
    /\ fd' = Moved(f, "tmp", "gone")
    /\ UNCHANGED <<name, nameSafe, linked, old, place>>
    /\ UNCHANGED <<pass, todo, step, kind, faults, clash, returned>>

BeginOwn(w) ==
    /\ pass[w] = "sweep"
    /\ left[w] = {}
    /\ pass' = [pass EXCEPT ![w] = "own"]
    /\ todo' = [todo EXCEPT ![w] = {u \in Unit \ Marked : Owner[u] = w}]
    /\ UNCHANGED <<fileVars, left, step, kind, fd, faults, clash, returned>>

\* Mutant: no steal pass.
BeginNoSteal(w) ==
    /\ pass[w] = "own"
    /\ todo[w] = {}
    /\ pass' = [pass EXCEPT ![w] = "steal"]
    /\ UNCHANGED <<fileVars, todo, left, step, kind, fd, faults, clash, returned>>

BeginSteal(w) ==
    /\ pass[w] = "own"
    /\ todo[w] = {}
    /\ pass' = [pass EXCEPT ![w] = "steal"]
    /\ todo' = [todo EXCEPT ![w] = Unit \ Marked]
    /\ UNCHANGED <<fileVars, left, step, kind, fd, faults, clash, returned>>

FinishWorker(w) ==
    /\ pass[w] = "steal"
    /\ todo[w] = {}
    /\ pass' = [pass EXCEPT ![w] = "done"]
    /\ UNCHANGED <<fileVars, todo, left, step, kind, fd, faults, clash, returned>>

\* The process of w is gone; its descriptors are closed and its .tmp file stays.
Dies(w) ==
    /\ pass' = [pass EXCEPT ![w] = "failed"]
    /\ todo' = [todo EXCEPT ![w] = {}]
    /\ left' = [left EXCEPT ![w] = {}]
    /\ step' = [step EXCEPT ![w] = "next"]
    /\ kind' = [kind EXCEPT ![w] = "data"]
    /\ fd' = [fd EXCEPT ![w] = "none"]

-----------------------------------------------------------------------------
(* run_unit: w is at unit u *)

At(w, u, s) == pass[w] \in {"own", "steal"} /\ step[w] = s /\ Here(w, u)

FileOf(w, u) == <<u, kind[w]>>

Goto(w, s) ==
    /\ step' = [step EXCEPT ![w] = s]
    /\ UNCHANGED <<pass, todo, left, kind>>

\* w turns to the next unit of its pass.
Leave(w, u) ==
    /\ todo' = [todo EXCEPT ![w] = @ \ {u}]
    /\ step' = [step EXCEPT ![w] = "next"]
    /\ kind' = [kind EXCEPT ![w] = "data"]
    /\ UNCHANGED <<pass, left>>

TakeUnit(w, u) ==
    /\ At(w, u, "next")
    /\ IF u \in Marked THEN Leave(w, u) ELSE Goto(w, "gen")
    /\ UNCHANGED <<fileVars, fd, faults, clash, returned>>

\* write_shard tests for the marker once more and concedes the unit if it is there.
EnterWriteShard(w, u) ==
    /\ At(w, u, "gen")
    /\ IF u \in Marked THEN Leave(w, u) ELSE Goto(w, "open")
    /\ UNCHANGED <<fileVars, fd, faults, clash, returned>>

\* Workers between opening and renaming a file of u.
Writers(u) == {x \in Worker : step[x] \in {"write", "fsync", "rename"} /\ Here(x, u)}

\* mkdir(parents=True, exist_ok=True), and open(tmp, "wb"): truncates a .tmp that is there, somebody else's included.
Open(w, u) ==
    /\ At(w, u, "open")
    /\ place' = [place EXCEPT ![Dir[u]] = IF @ = "none" THEN "fresh" ELSE @]
    /\ tmp' = [tmp EXCEPT ![FileOf(w, u)] = "empty"]
    /\ tmpSafe' = [tmpSafe EXCEPT ![FileOf(w, u)] = FALSE]
    /\ fd' = [fd EXCEPT ![w] = "tmp"]
    /\ clash' = IF Writers(u) = {} THEN clash ELSE clash \cup {u}
    /\ Goto(w, "write")
    /\ UNCHANGED <<name, nameSafe, linked, old, faults, returned>>

\* A payload over another one, of another length perhaps, may leave the other's tail.
Written(body) == IF body = "empty" THEN {"whole"} ELSE {"whole", "torn"}

Write(w, u) ==
    LET f == FileOf(w, u) IN
    /\ At(w, u, "write")
    /\ \/ /\ fd[w] = "tmp"
          /\ \E b \in Written(tmp[f]) : tmp' = [tmp EXCEPT ![f] = b]
          /\ tmpSafe' = [tmpSafe EXCEPT ![f] = FALSE]
          /\ UNCHANGED <<name, nameSafe>>
       \/ /\ fd[w] = "name"
          /\ \E b \in Written(name[f]) : name' = [name EXCEPT ![f] = b]
          /\ nameSafe' = [nameSafe EXCEPT ![f] = FALSE]
          /\ UNCHANGED <<tmp, tmpSafe>>
       \/ /\ fd[w] = "gone"
          /\ UNCHANGED <<tmp, tmpSafe, name, nameSafe>>
    /\ Goto(w, "fsync")
    /\ UNCHANGED <<linked, old, place, fd, faults, clash, returned>>

\* Mutant: the payload is not fsynced.
NoFsync(w, u) ==
    /\ At(w, u, "fsync")
    /\ fd' = [fd EXCEPT ![w] = "none"]
    /\ Goto(w, "rename")
    /\ UNCHANGED <<fileVars, faults, clash, returned>>

\* os.fsync, and the file is closed.
Fsync(w, u) ==
    LET f == FileOf(w, u) IN
    /\ At(w, u, "fsync")
    /\ tmpSafe' = [tmpSafe EXCEPT ![f] = @ \/ fd[w] = "tmp"]
    /\ nameSafe' = [nameSafe EXCEPT ![f] = @ \/ fd[w] = "name"]
    /\ fd' = [fd EXCEPT ![w] = "none"]
    /\ Goto(w, "rename")
    /\ UNCHANGED <<tmp, name, linked, old, place, faults, clash, returned>>

\* os.replace: whatever .tmp holds gets the final name.
Rename(w, u) ==
    LET f == FileOf(w, u) IN
    /\ At(w, u, "rename")
    /\ tmp[f] # "none"
    /\ name' = [name EXCEPT ![f] = tmp[f]]
    /\ nameSafe' = [nameSafe EXCEPT ![f] = tmpSafe[f]]
    /\ old' = [old EXCEPT ![f] =
          IF ~linked[f] THEN @ ELSE IF nameSafe[f] THEN name[f] ELSE "torn"]
    /\ linked' = [linked EXCEPT ![f] = FALSE]
    /\ tmp' = [tmp EXCEPT ![f] = "none"]
    /\ tmpSafe' = [tmpSafe EXCEPT ![f] = TRUE]
    /\ fd' = [x \in Worker |->
          IF Moved(f, "name", "gone")[x] = "gone" THEN "gone" ELSE Moved(f, "tmp", "name")[x]]
    /\ Goto(w, "dirsync")
    /\ UNCHANGED <<place, faults, clash, returned>>

\* FileNotFoundError: another worker renamed or swept it.  Nothing catches it.
RenameFails(w, u) ==
    /\ At(w, u, "rename")
    /\ tmp[FileOf(w, u)] = "none"
    /\ Dies(w)
    /\ UNCHANGED <<fileVars, faults, clash, returned>>

\* After the shard its marker is written, after the marker run_unit returns.
Onward(w, u) ==
    IF kind[w] = "data"
    THEN /\ name[Data(u)] # "none"
         /\ kind' = [kind EXCEPT ![w] = "mark"]
         /\ step' = [step EXCEPT ![w] = "open"]
         /\ UNCHANGED <<pass, todo, left, returned>>
    ELSE /\ Leave(w, u)
         /\ returned' = returned \cup {u}

\* Mutant: the directory is not fsynced.
NoDirSync(w, u) ==
    /\ At(w, u, "dirsync")
    /\ Onward(w, u)
    /\ UNCHANGED <<fileVars, fd, faults, clash>>

\* The directory's fsync covers every file in it, and not its own name.
DirSync(w, u) ==
    /\ At(w, u, "dirsync")
    /\ linked' = [f \in File |-> linked[f] \/ Dir[f[1]] = Dir[u]]
    /\ old' = [f \in File |-> IF Dir[f[1]] = Dir[u] THEN "none" ELSE old[f]]
    /\ Onward(w, u)
    /\ UNCHANGED <<tmp, name, tmpSafe, nameSafe, place, fd, faults, clash>>

-----------------------------------------------------------------------------
(* What the environment does *)

\* A worker is killed, or dies of anything else; the disk survives.
Kill(w) ==
    /\ pass[w] \in {"sweep", "own", "steal"}
    /\ Fault
    /\ Dies(w)
    /\ UNCHANGED <<fileVars, clash, returned>>

Restart ==
    /\ pass' = Idle("new") /\ todo' = Idle({}) /\ left' = Idle({})
    /\ step' = Idle("next") /\ kind' = Idle("data") /\ fd' = Idle("none")

\* launch_node.sh is run again once every worker of the last run has ended.
Relaunch ==
    /\ \A w \in Worker : pass[w] \in {"done", "failed"}
    /\ Restart
    /\ UNCHANGED <<fileVars, faults, clash, returned>>

\* What a power loss leaves under f's final name: a rename that no directory fsync covers
\* may be undone, and unsynced bytes may be lost.
Remains(f, undone, spoilt) ==
    IF f \in undone THEN old[f] ELSE IF f \in spoilt THEN "torn" ELSE name[f]

\* Directories made since the last one may be lost, with all files in them; the others and
\* what remains in them are on the disk from then on.
PowerLoss ==
    /\ Fault
    /\ Restart
    /\ \E gone \in SUBSET {d \in Dirs : place[d] = "fresh"} :
          /\ \E undone \in SUBSET {f \in File : ~linked[f]},
                spoilt \in SUBSET {f \in File : name[f] # "none" /\ ~nameSafe[f]} :
                name' = [f \in File |->
                          IF f[1] \in In(gone) THEN "none" ELSE Remains(f, undone, spoilt)]
          /\ \E there \in SUBSET {f \in File : tmp[f] # "none" \/ ~linked[f]} :
                tmp' = [f \in File |->
                          IF f \in there /\ f[1] \notin In(gone) THEN "torn" ELSE "none"]
          /\ place' = [d \in Dirs |->
                IF d \in gone \/ place[d] = "none" THEN "none" ELSE "durable"]
          /\ returned' = returned \ In(gone)
    /\ tmpSafe' = [f \in File |-> TRUE]
    /\ nameSafe' = [f \in File |-> TRUE]
    /\ linked' = [f \in File |-> TRUE]
    /\ old' = [f \in File |-> "none"]
    /\ UNCHANGED clash

-----------------------------------------------------------------------------
UnitStep(w, u) ==
    \/ TakeUnit(w, u) \/ EnterWriteShard(w, u)
    \/ Open(w, u) \/ Write(w, u) \/ Fsync(w, u) \/ Rename(w, u) \/ RenameFails(w, u)
    \/ DirSync(w, u)

WorkerStep(w) ==
    \/ StartWorker(w) \/ BeginOwn(w) \/ BeginSteal(w) \/ FinishWorker(w)
    \/ \E f \in File : Sweep(w, f)
    \/ \E u \in Unit : UnitStep(w, u)

Next == (\E w \in Worker : WorkerStep(w) \/ Kill(w)) \/ Relaunch \/ PowerLoss

Spec == Init /\ [][Next]_vars

\* A process that was started goes on unless something stops it.
FairSpec == Spec /\ \A w \in Worker : WF_vars(WorkerStep(w))

-----------------------------------------------------------------------------
(* What must hold. *)

\* The marker's presence implies that the data is complete (shards.py:7-10), through kills,
\* sweeps by other workers and power losses, for every unit that no two live workers were
\* writing at the same time.
MarkedIsWhole ==
    \A u \in Marked \ clash : name[Data(u)] = "whole" /\ name[Mark(u)] = "whole"

\* A unit that run_unit reported as written stays done, whatever fails later ("so the rename
\* itself survives a power loss / instance reclaim", shards.py:38), unless its directory is
\* new and goes as a whole (shards.py:31).
ReturnedStaysDone ==
    [][\A u \in returned :
          \/ u \in Marked'
          \/ place[Dir[u]] = "fresh" /\ place'[Dir[u]] = "none"]_vars

\* The comment of shards.py:38 as it stands, new directories included.
RenameSurvives == [][\A u \in returned : u \in Marked']_vars

\* A worker whose .tmp is renamed or swept away by another dies of it; somebody always
\* survives to finish the plan (runner.py:159, planner.py:132-133).
SurvivorCovers ==
    faults = 0 /\ (\A w \in Worker : pass[w] \in {"done", "failed"}) => Unit \subseteq Marked

\* ... and the plan does get finished.
EventuallyMarked == [](faults = 0) => <>(Unit \subseteq Marked)

\* As long as no two workers have been writing one unit, each step of the disk is a step of
\* an atomic one: what FleetResume takes for granted.
Disk == INSTANCE AtomicDisk WITH
    shards <- {u \in Unit : name[Data(u)] = "whole"},
    marks <- {u \in Unit : name[Mark(u)] = "whole"},
    settled <- {d \in Dirs : place[d] = "durable"}

ActsAtomically == [][clash' = {} => Disk!Next]_(Disk!vars)

\* The comment of shards.py:7-10 as it stands, shared units included.
MarkerMeansComplete == \A u \in Marked : name[Data(u)] = "whole"
-----------------------------------------------------------------------------
(* The inductive strengthening of MarkedIsWhole and ReturnedStaysDone. *)

StepInv ==
    \A w \in Worker :
        /\ step[w] # "next" => pass[w] \in {"own", "steal"} /\ todo[w] # {}
        /\ step[w] \in {"next", "gen"} => kind[w] = "data"
        /\ fd[w] # "none" => step[w] \in {"write", "fsync"}
        /\ step[w] = "dirsync" => \A u \in Unit : Here(w, u) => name[FileOf(w, u)] # "none"

\* No rename, done or undone, makes a file disappear.
OldInv == \A f \in File : old[f] # "none" => name[f] # "none"

\* A returned unit's marker survives a power loss, in this version or an older one.
ReturnedInv ==
    \A u \in returned :
        /\ name[Mark(u)] # "none"
        /\ linked[Mark(u)] \/ old[Mark(u)] # "none"

\* What w, u's only writer, has made of its .tmp so far, unless that was swept away.
OneWriter(w, u) ==
    LET f == FileOf(w, u) IN
    /\ Writers(u) = {w}
    /\ step[w] \in {"write", "fsync"} =>
          \/ /\ fd[w] = "tmp"
             /\ tmp[f] = IF step[w] = "write" THEN "empty" ELSE "whole"
          \/ /\ fd[w] = "gone"
             /\ tmp[f] = "none"
    /\ step[w] = "rename" => tmp[f] \in {"none", "whole"} /\ (tmp[f] = "whole" => tmpSafe[f])

WriterInv(u) == \A w \in Writers(u) : OneWriter(w, u)

\* u's shard is complete and would be after a power loss.
Durable(u) == name[Data(u)] = "whole" /\ (linked[Data(u)] \/ old[Data(u)] = "whole")

NameInv(u) ==
    /\ \A k \in Kind :
        /\ name[<<u, k>>] \in {"none", "whole"} /\ nameSafe[<<u, k>>]
        /\ old[<<u, k>>] \in {"none", "whole"}
    /\ u \in Marked => Durable(u)
    /\ \A w \in Worker : Here(w, u) /\ kind[w] = "mark" => Durable(u)

IInv ==
    /\ TypeOK /\ StepInv /\ OldInv /\ ReturnedInv
    /\ \A u \in Unit \ clash : WriterInv(u) /\ NameInv(u)

\* What is written, or being written, has a directory.
PlaceInv ==
    /\ \A f \in File : name[f] # "none" => place[Dir[f[1]]] # "none"
    /\ \A w \in Worker, u \in Unit :
          step[w] \in {"write", "fsync", "rename"} /\ Here(w, u) => place[Dir[u]] # "none"

\* What w is about to rename was renamed or swept away by another.
Bereft(w) ==
    /\ step[w] \in {"write", "fsync", "rename"}
    /\ \E u \in Unit : Here(w, u) /\ tmp[FileOf(w, u)] = "none"

\* Who took the file from a worker lives on; and the steal pass leaves nothing unmarked behind.
CoverInv ==
    faults = 0 =>
        /\ \E w \in Worker : pass[w] # "failed" /\ ~Bereft(w)
        /\ \A w \in Worker :
              /\ pass[w] = "steal" => Unit \ Marked \subseteq todo[w]
              /\ pass[w] = "done" => Unit \subseteq Marked
=============================================================================
