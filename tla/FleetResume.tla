----------------------------- MODULE FleetResume -----------------------------
(***************************************************************************)
(* Generation by a fleet of preemptible VMs that share nothing but an      *)
(* object store.                                                           *)
(*                                                                         *)
(* Each VM runs scripts/launch_node.sh: pull the completion markers, prove *)
(* the store writable, start the generation workers, push the artifact     *)
(* tree every SYNC_INTERVAL while they run, push once more on the way out. *)
(* Each worker runs src/soe/gen/runner.py: its own units, then every unit  *)
(* still unmarked on this disk ("steal").  A push is objstore_push of      *)
(* scripts/objstore.sh: snapshot the local markers, copy every shard, copy *)
(* the snapshotted markers.                                                *)
(*                                                                         *)
(* Both topologies of launch_node.sh are instances: FLEET MODE has one     *)
(* worker per VM, NODE MODE several workers on one VM's disk.              *)
(*                                                                         *)
(* The payload of a shard is a member of Bytes; a marker carries the sha   *)
(* of the payload its writer wrote, so it is a member of Bytes too.  One   *)
(* value is a backend that always answers the same bytes (mock, replay),   *)
(* several one that may not (vLLM on different GPUs).                      *)
(***************************************************************************)
EXTENDS Naturals

CONSTANTS
    Vm,         \* machines, each with its own disk
    Worker,     \* global worker indices that were launched
    Host,       \* Host[w]: the VM worker w runs on
    Unit,       \* the plan, each unit named by its position in run order
    Owner,      \* Owner[u]: the worker index u's problem shard belongs to
    Bytes,      \* payloads a generation of a unit may produce
    None,       \* no file
    Slot,       \* push processes of a VM: "sync", and "watch" if notices arrive
    MaxFaults   \* bound on evictions, crashes, signals and failed operations

ASSUME FleetAssumption ==
    /\ Worker \subseteq Nat
    /\ Unit \subseteq Nat
    /\ Host \in [Worker -> Vm]
    /\ \A v \in Vm : \E w \in Worker : Host[w] = v
    /\ Owner \in [Unit -> Nat]
    /\ None \notin Bytes
    /\ "sync" \in Slot /\ Slot \subseteq {"sync", "watch"}
    /\ MaxFaults \in Nat

VARIABLES
    sdata, smark,       \* the object store: shard and marker of each unit
    ldata, lmark,       \* each VM's disk: shard and marker of each unit
    script,             \* where each VM's launch_node.sh stands
    fail,               \* its "fail" flag / non-zero exit status
    pulling,            \* units objstore_pull_markers has yet to visit
    phase, snap, walk,  \* each push: phase, marker snapshot, files yet to visit
    pass,               \* each worker's pass over the plan
    todo,               \* units left in that pass, the current one included
    stage,              \* how far run_unit got with the current unit
    out,                \* the payload write_shard wrote for it
    faults              \* faults so far

storeVars == <<sdata, smark>>
diskVars == <<ldata, lmark>>
scriptVars == <<script, fail, pulling>>
pushVars == <<phase, snap, walk>>
workerVars == <<pass, todo, stage, out>>
vars == <<storeVars, diskVars, scriptVars, pushVars, workerVars, faults>>

Script == {"off", "lost", "pull", "probe", "run", "term", "final", "exit"}
Phase == {"idle", "data", "marks", "ok", "failed"}
Pass == {"new", "own", "steal", "done", "failed"}
File == Bytes \cup {None}

TypeOK ==
    /\ sdata \in [Unit -> File]
    /\ smark \in [Unit -> File]
    /\ ldata \in [Vm -> [Unit -> File]]
    /\ lmark \in [Vm -> [Unit -> File]]
    /\ script \in [Vm -> Script]
    /\ fail \in [Vm -> BOOLEAN]
    /\ pulling \in [Vm -> SUBSET Unit]
    /\ phase \in [Vm -> [Slot -> Phase]]
    /\ snap \in [Vm -> [Slot -> SUBSET Unit]]
    /\ walk \in [Vm -> [Slot -> SUBSET Unit]]
    /\ pass \in [Worker -> Pass]
    /\ todo \in [Worker -> SUBSET Unit]
    /\ stage \in [Worker -> {"next", "gen", "write", "wrote"}]
    /\ out \in [Worker -> File]
    /\ faults \in 0..MaxFaults

NoFile == [u \in Unit |-> None]

Init ==
    /\ sdata = NoFile
    /\ smark = NoFile
    /\ ldata = [v \in Vm |-> NoFile]
    /\ lmark = [v \in Vm |-> NoFile]
    /\ script = [v \in Vm |-> "off"]
    /\ fail = [v \in Vm |-> FALSE]
    /\ pulling = [v \in Vm |-> {}]
    /\ phase = [v \in Vm |-> [p \in Slot |-> "idle"]]
    /\ snap = [v \in Vm |-> [p \in Slot |-> {}]]
    /\ walk = [v \in Vm |-> [p \in Slot |-> {}]]
    /\ pass = [w \in Worker |-> "new"]
    /\ todo = [w \in Worker |-> {}]
    /\ stage = [w \in Worker |-> "next"]
    /\ out = [w \in Worker |-> None]
    /\ faults = 0

\* is_done over a whole disk: the units a worker on VM v would not generate.
Marked(v) == {u \in Unit : lmark[v][u] # None}

Fault ==
    /\ faults < MaxFaults
    /\ faults' = faults + 1

-----------------------------------------------------------------------------
(* objstore_push, run by the periodic syncer, the eviction watcher and the *)
(* script itself (probe and final push).                                   *)

\* The marker list is taken before the first shard is copied.
Snapshot(v) == Marked(v)

\* Mutant: one pass, markers not held back.
StartPushOnePass(v, p) ==
    /\ phase' = [phase EXCEPT ![v][p] = "marks"]
    /\ snap' = [snap EXCEPT ![v][p] = Snapshot(v)]
    /\ walk' = [walk EXCEPT ![v][p] = Snapshot(v)]

\* A push of VM v begins in slot p; a push already running there is gone.
StartPush(v, p) ==
    /\ phase' = [phase EXCEPT ![v][p] = "data"]
    /\ snap' = [snap EXCEPT ![v][p] = Snapshot(v)]
    /\ walk' = [walk EXCEPT ![v][p] = Unit]

\* cleanup kills the syncer and the watcher, then pushes from the script.
KillHelpersAndPush(v) ==
    /\ phase' = [phase EXCEPT ![v] = [p \in Slot |-> IF p = "sync" THEN "data" ELSE "idle"]]
    /\ snap' = [snap EXCEPT ![v] = [p \in Slot |-> IF p = "sync" THEN Snapshot(v) ELSE {}]]
    /\ walk' = [walk EXCEPT ![v] = [p \in Slot |-> IF p = "sync" THEN Unit ELSE {}]]

\* What an object holds after a copy onto it: azure overwrites if the source is newer, s3
\* sync compares size and time, the file backend always overwrites.
Copied(new, old) == IF old = None THEN {new} ELSE {new, old}

\* Pass 1 reaches the place of u's shard: copied if it is on disk at that moment.
PushShard(v, p, u) ==
    /\ phase[v][p] = "data"
    /\ u \in walk[v][p]
    /\ walk' = [walk EXCEPT ![v][p] = @ \ {u}]
    /\ IF ldata[v][u] = None
       THEN UNCHANGED sdata
       ELSE \E b \in Copied(ldata[v][u], sdata[u]) : sdata' = [sdata EXCEPT ![u] = b]
    /\ UNCHANGED <<smark, diskVars, scriptVars, phase, snap, workerVars, faults>>

\* Mutant: pass 2 lists the markers anew.
PushTurnRelisted(v, p) ==
    /\ phase[v][p] = "data"
    /\ walk[v][p] = {}
    /\ phase' = [phase EXCEPT ![v][p] = "marks"]
    /\ walk' = [walk EXCEPT ![v][p] = Snapshot(v)]
    /\ UNCHANGED <<storeVars, diskVars, scriptVars, snap, workerVars, faults>>

\* Pass 1 copied everything (rc = 0): pass 2 goes over the snapshot.
PushTurn(v, p) ==
    /\ phase[v][p] = "data"
    /\ walk[v][p] = {}
    /\ phase' = [phase EXCEPT ![v][p] = "marks"]
    /\ walk' = [walk EXCEPT ![v][p] = snap[v][p]]
    /\ UNCHANGED <<storeVars, diskVars, scriptVars, snap, workerVars, faults>>

PushMarker(v, p, u) ==
    /\ phase[v][p] = "marks"
    /\ u \in walk[v][p]
    /\ walk' = [walk EXCEPT ![v][p] = @ \ {u}]
    /\ \E b \in Copied(lmark[v][u], smark[u]) : smark' = [smark EXCEPT ![u] = b]
    /\ UNCHANGED <<sdata, diskVars, scriptVars, phase, snap, workerVars, faults>>

\* objstore_push returns, its snapshot file removed.
PushReturns(v, p, rc) ==
    /\ phase' = [phase EXCEPT ![v][p] = rc]
    /\ snap' = [snap EXCEPT ![v][p] = {}]
    /\ walk' = [walk EXCEPT ![v][p] = {}]
    /\ UNCHANGED <<storeVars, diskVars, scriptVars, workerVars>>

PushOk(v, p) ==
    /\ phase[v][p] = "marks"
    /\ walk[v][p] = {}
    /\ PushReturns(v, p, "ok")
    /\ UNCHANGED faults

\* Mutant: a failed pass 1 does not keep pass 2 from running.
PushFailsOn(v, p) ==
    /\ phase[v][p] = "data"
    /\ Fault
    /\ phase' = [phase EXCEPT ![v][p] = "marks"]
    /\ walk' = [walk EXCEPT ![v][p] = snap[v][p]]
    /\ UNCHANGED <<storeVars, diskVars, scriptVars, snap, workerVars>>

\* A copy fails: rc = 1, the rest of the pass and of the push are skipped.
PushFails(v, p) ==
    /\ phase[v][p] \in {"data", "marks"}
    /\ Fault
    /\ PushReturns(v, p, "failed")

-----------------------------------------------------------------------------
(* launch_node.sh *)

\* The VM boots with an empty disk, or the script is run again on a disk that survived.
Launch(v) ==
    /\ script[v] \in {"off", "lost"}
    /\ script' = [script EXCEPT ![v] = "pull"]
    /\ pulling' = [pulling EXCEPT ![v] = Unit]
    /\ UNCHANGED <<storeVars, diskVars, fail, pushVars, workerVars, faults>>

\* Mutant: resume takes any shard in the store for a finished unit.
PullShardAsMarker(v, u) ==
    /\ script[v] = "pull"
    /\ u \in pulling[v]
    /\ pulling' = [pulling EXCEPT ![v] = @ \ {u}]
    /\ IF sdata[u] = None
       THEN UNCHANGED lmark
       ELSE lmark' = [lmark EXCEPT ![v][u] = sdata[u]]
    /\ UNCHANGED <<storeVars, ldata, script, fail, pushVars, workerVars, faults>>

\* objstore_pull_markers: the markers, never the shards; an existing one is overwritten.
PullMarker(v, u) ==
    /\ script[v] = "pull"
    /\ u \in pulling[v]
    /\ pulling' = [pulling EXCEPT ![v] = @ \ {u}]
    /\ IF smark[u] = None
       THEN UNCHANGED lmark
       ELSE lmark' = [lmark EXCEPT ![v][u] = smark[u]]
    /\ UNCHANGED <<storeVars, ldata, script, fail, pushVars, workerVars, faults>>

\* The store could not be read: exit 4, before any trap is installed.
PullFails(v) ==
    /\ script[v] = "pull"
    /\ Fault
    /\ script' = [script EXCEPT ![v] = "exit"]
    /\ fail' = [fail EXCEPT ![v] = TRUE]
    /\ pulling' = [pulling EXCEPT ![v] = {}]
    /\ UNCHANGED <<storeVars, diskVars, pushVars, workerVars>>

\* Markers pulled, manifest agreed and plan written: push once to prove the store writable.
Probe(v) ==
    /\ script[v] = "pull"
    /\ pulling[v] = {}
    /\ script' = [script EXCEPT ![v] = "probe"]
    /\ StartPush(v, "sync")
    /\ UNCHANGED <<storeVars, diskVars, fail, pulling, workerVars, faults>>

\* Helpers started and workers about to be, or exit 4.
ProbeReturns(v) ==
    /\ script[v] = "probe"
    /\ phase[v]["sync"] \in {"ok", "failed"}
    /\ IF phase[v]["sync"] = "ok"
       THEN /\ script' = [script EXCEPT ![v] = "run"]
            /\ UNCHANGED fail
       ELSE /\ script' = [script EXCEPT ![v] = "exit"]
            /\ fail' = [fail EXCEPT ![v] = TRUE]
    /\ UNCHANGED <<storeVars, diskVars, pulling, pushVars, workerVars, faults>>

\* The syncer wakes up; it ignores how the previous push ended.
Sync(v) ==
    /\ script[v] = "run"
    /\ phase[v]["sync"] \in {"ok", "failed"}
    /\ StartPush(v, "sync")
    /\ UNCHANGED <<storeVars, diskVars, scriptVars, workerVars, faults>>

\* react_to_eviction sees the sentinel: one push, beside the syncer's, then it returns.
EvictionNotice(v) ==
    /\ "watch" \in Slot
    /\ script[v] = "run"
    /\ phase[v]["watch"] = "idle"
    /\ StartPush(v, "watch")
    /\ UNCHANGED <<storeVars, diskVars, scriptVars, workerVars, faults>>

\* Workers of VM v still running.
Running(v) == {w \in Worker : Host[w] = v /\ pass[w] \in {"new", "own", "steal"}}

\* SIGTERM while the script waits for a worker: the trap kills the helpers and pushes, and
\* the script then resumes after the interrupted "wait" with fail=1.
Term(v) ==
    /\ script[v] = "run"
    /\ Running(v) # {} /\ \A w \in Running(v) : pass[w] # "new"
    /\ Fault
    /\ script' = [script EXCEPT ![v] = "term"]
    /\ fail' = [fail EXCEPT ![v] = TRUE]
    /\ KillHelpersAndPush(v)
    /\ UNCHANGED <<storeVars, diskVars, pulling, workerVars>>

\* Every worker was waited for, except one whose "wait" a signal interrupted; then the EXIT
\* trap.  A worker not waited for runs on.
Cleanup(v) ==
    /\ \/ /\ script[v] = "run"
          /\ Running(v) = {}
          /\ fail' = [fail EXCEPT ![v] = \E w \in Worker : Host[w] = v /\ pass[w] = "failed"]
       \/ /\ script[v] = "term"
          /\ phase[v]["sync"] \in {"ok", "failed"}
          /\ \A w, x \in Running(v) : w = x
          /\ UNCHANGED fail
    /\ script' = [script EXCEPT ![v] = "final"]
    /\ KillHelpersAndPush(v)
    /\ UNCHANGED <<storeVars, diskVars, pulling, workerVars, faults>>

\* "objstore_push ... || true": the exit status says nothing of the push.
Exit(v) ==
    /\ script[v] = "final"
    /\ phase[v]["sync"] \in {"ok", "failed"}
    /\ script' = [script EXCEPT ![v] = "exit"]
    /\ UNCHANGED <<storeVars, diskVars, fail, pulling, pushVars, workerVars, faults>>

-----------------------------------------------------------------------------
(* generation workers: run_experiment and run_unit *)

\* The unit worker w is at: remaining units are run in plan order.
Current(w, u) == u \in todo[w] /\ \A x \in todo[w] : u <= x

\* Workers of one VM are started in index order, STAGGER apart.
StartWorker(w) ==
    /\ script[Host[w]] = "run"
    /\ pass[w] = "new"
    /\ \A x \in Worker : Host[x] = Host[w] /\ x < w => pass[x] # "new"
    /\ pass' = [pass EXCEPT ![w] = "own"]
    /\ todo' = [todo EXCEPT ![w] = {u \in Unit \ Marked(Host[w]) : Owner[u] = w}]
    /\ UNCHANGED <<storeVars, diskVars, scriptVars, pushVars, stage, out, faults>>

\* Mutant: no steal pass.
BeginNoSteal(w) ==
    /\ pass[w] = "own"
    /\ todo[w] = {}
    /\ pass' = [pass EXCEPT ![w] = "steal"]
    /\ UNCHANGED <<storeVars, diskVars, scriptVars, pushVars, todo, stage, out, faults>>

\* remaining_units(worker=None), evaluated when the own pass is over.
BeginSteal(w) ==
    /\ pass[w] = "own"
    /\ todo[w] = {}
    /\ pass' = [pass EXCEPT ![w] = "steal"]
    /\ todo' = [todo EXCEPT ![w] = Unit \ Marked(Host[w])]
    /\ UNCHANGED <<storeVars, diskVars, scriptVars, pushVars, stage, out, faults>>

FinishWorker(w) ==
    /\ pass[w] = "steal"
    /\ todo[w] = {}
    /\ pass' = [pass EXCEPT ![w] = "done"]
    /\ UNCHANGED <<storeVars, diskVars, scriptVars, pushVars, todo, stage, out, faults>>

\* run_unit's first test: a unit marked since the pass began is skipped.
TakeUnit(w, u) ==
    /\ pass[w] \in {"own", "steal"}
    /\ stage[w] = "next"
    /\ Current(w, u)
    /\ IF u \in Marked(Host[w])
       THEN /\ todo' = [todo EXCEPT ![w] = @ \ {u}]
            /\ UNCHANGED stage
       ELSE /\ stage' = [stage EXCEPT ![w] = "gen"]
            /\ UNCHANGED todo
    /\ UNCHANGED <<storeVars, diskVars, scriptVars, pushVars, pass, out, faults>>

\* Generation is over and write_shard is entered: it refuses if a marker appeared meanwhile,
\* and the unit is conceded.
EnterWriteShard(w, u) ==
    /\ pass[w] \in {"own", "steal"}
    /\ stage[w] = "gen"
    /\ Current(w, u)
    /\ IF u \in Marked(Host[w])
       THEN /\ todo' = [todo EXCEPT ![w] = @ \ {u}]
            /\ stage' = [stage EXCEPT ![w] = "next"]
       ELSE /\ stage' = [stage EXCEPT ![w] = "write"]
            /\ UNCHANGED todo
    /\ UNCHANGED <<storeVars, diskVars, scriptVars, pushVars, pass, out, faults>>

\* The rename that ends write_shard: the shard replaces whatever is there.
ReplaceShard(w, u, b) ==
    /\ pass[w] \in {"own", "steal"}
    /\ stage[w] = "write"
    /\ Current(w, u)
    /\ ldata' = [ldata EXCEPT ![Host[w]][u] = b]
    /\ out' = [out EXCEPT ![w] = b]
    /\ stage' = [stage EXCEPT ![w] = "wrote"]
    /\ UNCHANGED <<storeVars, lmark, scriptVars, pushVars, pass, todo, faults>>

\* write_marker: sha of the payload this worker wrote; refused if the shard is missing.
WriteMarker(w, u) ==
    /\ pass[w] \in {"own", "steal"}
    /\ stage[w] = "wrote"
    /\ Current(w, u)
    /\ ldata[Host[w]][u] # None
    /\ lmark' = [lmark EXCEPT ![Host[w]][u] = out[w]]
    /\ todo' = [todo EXCEPT ![w] = @ \ {u}]
    /\ stage' = [stage EXCEPT ![w] = "next"]
    /\ out' = [out EXCEPT ![w] = None]
    /\ UNCHANGED <<storeVars, ldata, scriptVars, pushVars, pass, faults>>

\* BudgetError, a backend that loses requests, a full disk: the worker process exits non-zero.
WorkerFails(w) ==
    /\ pass[w] \in {"own", "steal"}
    /\ Fault
    /\ pass' = [pass EXCEPT ![w] = "failed"]
    /\ todo' = [todo EXCEPT ![w] = {}]
    /\ stage' = [stage EXCEPT ![w] = "next"]
    /\ out' = [out EXCEPT ![w] = None]
    /\ UNCHANGED <<storeVars, diskVars, scriptVars, pushVars>>

-----------------------------------------------------------------------------
(* The machine stops. *)

\* Every process of VM v is gone.
AllProcessesDie(v) ==
    /\ script' = [script EXCEPT ![v] = "lost"]
    /\ fail' = [fail EXCEPT ![v] = FALSE]
    /\ pulling' = [pulling EXCEPT ![v] = {}]
    /\ phase' = [phase EXCEPT ![v] = [p \in Slot |-> "idle"]]
    /\ snap' = [snap EXCEPT ![v] = [p \in Slot |-> {}]]
    /\ walk' = [walk EXCEPT ![v] = [p \in Slot |-> {}]]
    /\ pass' = [w \in Worker |-> IF Host[w] = v THEN "new" ELSE pass[w]]
    /\ todo' = [w \in Worker |-> IF Host[w] = v THEN {} ELSE todo[w]]
    /\ stage' = [w \in Worker |-> IF Host[w] = v THEN "next" ELSE stage[w]]
    /\ out' = [w \in Worker |-> IF Host[w] = v THEN None ELSE out[w]]

\* A reboot or a killed job: the disk survives and the script may be run again on it.
Crash(v) ==
    /\ script[v] \notin {"off", "lost"}
    /\ Fault
    /\ AllProcessesDie(v)
    /\ UNCHANGED <<storeVars, diskVars>>

\* Spot eviction with --eviction-policy Delete: the disk goes with the VM.
Evict(v) ==
    /\ script[v] \notin {"off", "lost"}
    /\ Fault
    /\ AllProcessesDie(v)
    /\ ldata' = [ldata EXCEPT ![v] = NoFile]
    /\ lmark' = [lmark EXCEPT ![v] = NoFile]
    /\ UNCHANGED storeVars

-----------------------------------------------------------------------------
ScriptStep(v) ==
    \/ Probe(v) \/ ProbeReturns(v) \/ Cleanup(v) \/ Exit(v)
    \/ \E u \in Unit : PullMarker(v, u)

PushStep(v, p) ==
    \/ PushTurn(v, p) \/ PushOk(v, p)
    \/ \E u \in Unit : PushShard(v, p, u) \/ PushMarker(v, p, u)

WorkerStep(w) ==
    \/ StartWorker(w) \/ BeginSteal(w) \/ FinishWorker(w)
    \/ \E u \in Unit :
        \/ TakeUnit(w, u) \/ EnterWriteShard(w, u) \/ WriteMarker(w, u)
        \/ \E b \in Bytes : ReplaceShard(w, u, b)

Disturbance(v) == PullFails(v) \/ Term(v) \/ Crash(v) \/ Evict(v)

Next ==
    \/ \E v \in Vm :
        \/ Launch(v) \/ ScriptStep(v) \/ Sync(v) \/ EvictionNotice(v) \/ Disturbance(v)
        \/ \E p \in Slot : PushStep(v, p) \/ PushFails(v, p)
    \/ \E w \in Worker : WorkerStep(w) \/ WorkerFails(w)

Spec == Init /\ [][Next]_vars

(***************************************************************************)
(* The scheduling the code relies on: a launched script and its processes  *)
(* keep running unless something stops them.  Nobody is obliged to relaunch*)
(* a lost VM, to deliver a notice, or to sync in time.                     *)
(***************************************************************************)
Fairness ==
    /\ \A v \in Vm :
        /\ WF_vars(script[v] = "off" /\ Launch(v))
        /\ WF_vars(ScriptStep(v))
        /\ \A p \in Slot : WF_vars(PushStep(v, p))
    /\ \A w \in Worker : WF_vars(WorkerStep(w))

FairSpec == Spec /\ Fairness

-----------------------------------------------------------------------------
(* What must hold. *)

\* A marker in the store vouches for a shard in the store.  Workers on other machines skip
\* the unit forever on that marker alone (scripts/objstore.sh:63-68).
NoOrphanMarker ==
    \A u \in Unit : smark[u] # None => sdata[u] # None

\* A VM skips a unit only while its shard exists somewhere: on the VM's own disk, or in the
\* store, from which resume pulled the marker without the shard (io/markers.py:3-5).
Custody ==
    \A v \in Vm : \A u \in Unit :
        lmark[v][u] # None => ldata[v][u] # None \/ sdata[u] # None

\* A run that ended with status 0 and whose last push succeeded left every unit of the
\* experiment, other workers' units included, in the store (runner.py:159, launch_node.sh:242).
CleanExit(v) == script[v] = "exit" /\ ~fail[v] /\ phase[v]["sync"] = "ok"
Complete == \A u \in Unit : smark[u] # None /\ sdata[u] # None
CleanExitComplete == \A v \in Vm : CleanExit(v) => Complete

\* The tree assembled from the store once every script has exited passes the checksum test of
\* the deep verify (verify.py:176-185, tests/test_resume_across_machines.py:135).  True with
\* one Payload only.
AssembledTreeVerifies ==
    (\A v \in Vm : script[v] = "exit") =>
        \A u \in Unit : smark[u] # None => smark[u] = sdata[u]

\* The experiment ends up in the store although VMs are lost, as long as one is not: whoever
\* survives steals the rest (runner.py:159).
EventuallyComplete == <>Complete

\* The resume protocol keeps the promise of CustodyLedger.
Ledger == INSTANCE CustodyLedger WITH
    stored <- {u \in Unit : sdata[u] # None},
    recorded <- {u \in Unit : smark[u] # None},
    holds <- [v \in Vm |-> {u \in Unit : ldata[v][u] # None}],
    trusted <- [v \in Vm |-> Marked(v)]

LedgerSpec == Ledger!Spec

-----------------------------------------------------------------------------
(* The inductive strengthening of NoOrphanMarker and Custody. *)

\* A push in pass 1 has, for each marker of its snapshot, the shard in the store or the
\* shard's place still to be visited; in pass 2 it has them all.
PushInv ==
    \A v \in Vm : \A p \in Slot :
        /\ snap[v][p] \subseteq Marked(v)
        /\ phase[v][p] = "data" =>
              \A u \in snap[v][p] : u \in walk[v][p] \/ sdata[u] # None
        /\ phase[v][p] = "marks" =>
              /\ walk[v][p] \subseteq snap[v][p]
              /\ \A u \in snap[v][p] : sdata[u] # None

\* A worker is at a unit of its pass, and between its shard and its marker has the shard
\* on disk.
WorkerInv ==
    \A w \in Worker :
        /\ stage[w] # "next" => pass[w] \in {"own", "steal"} /\ todo[w] # {}
        /\ stage[w] = "wrote" =>
              /\ out[w] # None
              /\ \A u \in Unit : Current(w, u) => ldata[Host[w]][u] # None

IInv == TypeOK /\ NoOrphanMarker /\ Custody /\ PushInv /\ WorkerInv

(* The strengthening for CleanExitComplete. *)

\* The steal pass covers the plan: what it has left behind is marked on this disk.
SweepInv ==
    \A w \in Worker :
        /\ pass[w] = "steal" => Unit \ todo[w] \subseteq Marked(Host[w])
        /\ pass[w] = "done" => Unit \subseteq Marked(Host[w])

\* The last push of a script that is to exit 0 carries the markers of the whole plan.
FinalInv ==
    \A v \in Vm :
        /\ script[v] = "term" => fail[v]
        /\ script[v] \in {"final", "exit"} /\ ~fail[v] =>
              /\ Unit \subseteq Marked(v)
              /\ phase[v]["sync"] \in {"data", "marks"} => snap[v]["sync"] = Unit
              /\ phase[v]["sync"] = "marks" =>
                    \A u \in Unit \ walk[v]["sync"] : smark[u] # None
              /\ phase[v]["sync"] = "ok" => \A u \in Unit : smark[u] # None

SweptInv == IInv /\ SweepInv /\ FinalInv
=============================================================================
