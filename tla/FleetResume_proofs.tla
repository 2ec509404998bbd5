-------------------------- MODULE FleetResume_proofs --------------------------
EXTENDS FleetResume, TLAPS

LEMMA TypeNext == TypeOK /\ [Next]_vars => TypeOK'
<1> SUFFICES ASSUME TypeOK, [Next]_vars PROVE TypeOK'
  OBVIOUS
<1> USE FleetAssumption DEF TypeOK, Script, Phase, Pass, File
<1> USE DEF storeVars, diskVars, scriptVars, pushVars, workerVars
<1>1. ASSUME NEW v \in Vm, Launch(v) PROVE TypeOK'
  BY <1>1 DEF Launch
<1>2. ASSUME NEW v \in Vm, NEW u \in Unit, PullMarker(v, u) PROVE TypeOK'
  <2>1. CASE smark[u] = None
    BY <1>2, <2>1 DEF PullMarker
  <2>2. CASE smark[u] # None
    <3>1. lmark' = [lmark EXCEPT ![v] = [lmark[v] EXCEPT ![u] = smark[u]]]
      BY <1>2, <2>2 DEF PullMarker
    <3>2. lmark' \in [Vm -> [Unit -> File]]
      BY <3>1
    <3> QED
      BY <1>2, <3>2 DEF PullMarker
  <2> QED
    BY <2>1, <2>2
<1>3. ASSUME NEW v \in Vm, PullFails(v) PROVE TypeOK'
  BY <1>3 DEF PullFails, Fault
<1>4. ASSUME NEW v \in Vm, Probe(v) PROVE TypeOK'
  BY <1>4 DEF Probe, StartPush, Snapshot, Marked
<1>5. ASSUME NEW v \in Vm, ProbeReturns(v) PROVE TypeOK'
  BY <1>5 DEF ProbeReturns
<1>6. ASSUME NEW v \in Vm, Sync(v) PROVE TypeOK'
  BY <1>6 DEF Sync, StartPush, Snapshot, Marked
<1>7. ASSUME NEW v \in Vm, EvictionNotice(v) PROVE TypeOK'
  BY <1>7 DEF EvictionNotice, StartPush, Snapshot, Marked
<1>8. ASSUME NEW v \in Vm, Term(v) PROVE TypeOK'
  BY <1>8 DEF Term, KillHelpersAndPush, Snapshot, Marked, Fault
<1>9. ASSUME NEW v \in Vm, Cleanup(v) PROVE TypeOK'
  BY <1>9 DEF Cleanup, KillHelpersAndPush, Snapshot, Marked
<1>10. ASSUME NEW v \in Vm, Exit(v) PROVE TypeOK'
  BY <1>10 DEF Exit
<1>11. ASSUME NEW v \in Vm, Crash(v) PROVE TypeOK'
  BY <1>11 DEF Crash, AllProcessesDie, Fault
<1>12. ASSUME NEW v \in Vm, Evict(v) PROVE TypeOK'
  BY <1>12 DEF Evict, AllProcessesDie, NoFile, Fault
<1>13. ASSUME NEW v \in Vm, NEW p \in Slot, NEW u \in Unit, PushShard(v, p, u) PROVE TypeOK'
  <2>1. CASE ldata[v][u] = None
    BY <1>13, <2>1 DEF PushShard
  <2>2. CASE ldata[v][u] # None
    <3>1. PICK b \in File : sdata' = [sdata EXCEPT ![u] = b]
      BY <1>13, <2>2 DEF PushShard, Copied
    <3> QED
      BY <1>13, <3>1 DEF PushShard
  <2> QED
    BY <2>1, <2>2
<1>14. ASSUME NEW v \in Vm, NEW p \in Slot, PushTurn(v, p) PROVE TypeOK'
  BY <1>14 DEF PushTurn
<1>15. ASSUME NEW v \in Vm, NEW p \in Slot, NEW u \in Unit, PushMarker(v, p, u) PROVE TypeOK'
  BY <1>15 DEF PushMarker, Copied
<1>16. ASSUME NEW v \in Vm, NEW p \in Slot, PushOk(v, p) PROVE TypeOK'
  BY <1>16 DEF PushOk, PushReturns
<1>17. ASSUME NEW v \in Vm, NEW p \in Slot, PushFails(v, p) PROVE TypeOK'
  BY <1>17 DEF PushFails, PushReturns, Fault
<1>18. ASSUME NEW w \in Worker, StartWorker(w) PROVE TypeOK'
  BY <1>18 DEF StartWorker, Marked
<1>19. ASSUME NEW w \in Worker, BeginSteal(w) PROVE TypeOK'
  BY <1>19 DEF BeginSteal, Marked
<1>20. ASSUME NEW w \in Worker, FinishWorker(w) PROVE TypeOK'
  BY <1>20 DEF FinishWorker
<1>21. ASSUME NEW w \in Worker, NEW u \in Unit, TakeUnit(w, u) PROVE TypeOK'
  <2>1. CASE u \in Marked(Host[w])
    <3>a. todo' = [todo EXCEPT ![w] = todo[w] \ {u}]
      BY <1>21, <2>1 DEF TakeUnit
    <3>b. todo' \in [Worker -> SUBSET Unit]
      BY <3>a
    <3>1. stage' \in [Worker -> {"next", "gen", "write", "wrote"}]
      BY <1>21, <2>1 DEF TakeUnit
    <3>2. UNCHANGED <<storeVars, diskVars, scriptVars, pushVars, pass, out, faults>>
      BY <1>21 DEF TakeUnit
    <3> QED
      BY <3>b, <3>1, <3>2
  <2>2. CASE u \notin Marked(Host[w])
    <3>1. /\ todo' = todo
          /\ stage' \in [Worker -> {"next", "gen", "write", "wrote"}]
      BY <1>21, <2>2 DEF TakeUnit
    <3>2. UNCHANGED <<storeVars, diskVars, scriptVars, pushVars, pass, out, faults>>
      BY <1>21 DEF TakeUnit
    <3> QED
      BY <3>1, <3>2
  <2> QED
    BY <2>1, <2>2
<1>22. ASSUME NEW w \in Worker, NEW u \in Unit, EnterWriteShard(w, u) PROVE TypeOK'
  <2>1. CASE u \in Marked(Host[w])
    <3>a. todo' = [todo EXCEPT ![w] = todo[w] \ {u}]
      BY <1>22, <2>1 DEF EnterWriteShard
    <3>b. todo' \in [Worker -> SUBSET Unit]
      BY <3>a
    <3>1. stage' \in [Worker -> {"next", "gen", "write", "wrote"}]
      BY <1>22, <2>1 DEF EnterWriteShard
    <3>2. UNCHANGED <<storeVars, diskVars, scriptVars, pushVars, pass, out, faults>>
      BY <1>22 DEF EnterWriteShard
    <3> QED
      BY <3>b, <3>1, <3>2
  <2>2. CASE u \notin Marked(Host[w])
    <3>1. /\ todo' = todo
          /\ stage' \in [Worker -> {"next", "gen", "write", "wrote"}]
      BY <1>22, <2>2 DEF EnterWriteShard
    <3>2. UNCHANGED <<storeVars, diskVars, scriptVars, pushVars, pass, out, faults>>
      BY <1>22 DEF EnterWriteShard
    <3> QED
      BY <3>1, <3>2
  <2> QED
    BY <2>1, <2>2
<1>23. ASSUME NEW w \in Worker, NEW u \in Unit, NEW b \in Bytes, ReplaceShard(w, u, b) PROVE TypeOK'
  BY <1>23 DEF ReplaceShard
<1>24. ASSUME NEW w \in Worker, NEW u \in Unit, WriteMarker(w, u) PROVE TypeOK'
  BY <1>24 DEF WriteMarker
<1>25. ASSUME NEW w \in Worker, WorkerFails(w) PROVE TypeOK'
  BY <1>25 DEF WorkerFails, Fault
<1>26. CASE UNCHANGED vars
  BY <1>26 DEF vars
<1> QED
  BY <1>1, <1>2, <1>3, <1>4, <1>5, <1>6, <1>7, <1>8, <1>9, <1>10, <1>11, <1>12, <1>13, <1>14, <1>15, <1>16, <1>17, <1>18, <1>19, <1>20, <1>21, <1>22, <1>23, <1>24, <1>25, <1>26
  DEF Next, ScriptStep, PushStep, WorkerStep, Disturbance

-----------------------------------------------------------------------------
(* Which actions touch what. *)

LEMMA StoreSteps ==
  [Next]_vars => \/ UNCHANGED storeVars
                 \/ \E v \in Vm, p \in Slot, u \in Unit : PushShard(v, p, u) \/ PushMarker(v, p, u)
BY DEF Next, vars, Launch, ScriptStep, PullMarker, Probe, ProbeReturns, Cleanup, Exit, Sync,
       EvictionNotice, Disturbance, PullFails, Term, Crash, Evict, PushStep, PushTurn, PushOk,
       PushFails, PushReturns, WorkerStep, StartWorker, BeginSteal, FinishWorker, TakeUnit,
       EnterWriteShard, ReplaceShard, WriteMarker, WorkerFails, storeVars

LEMMA DiskSteps ==
  [Next]_vars => \/ UNCHANGED diskVars
                 \/ \E v \in Vm : Evict(v) \/ \E u \in Unit : PullMarker(v, u)
                 \/ \E w \in Worker, u \in Unit : 
                       WriteMarker(w, u) \/ \E b \in Bytes : ReplaceShard(w, u, b)
BY DEF Next, vars, Launch, ScriptStep, Probe, ProbeReturns, Cleanup, Exit, Sync,
       EvictionNotice, Disturbance, PullFails, Term, Crash, PushStep, PushShard, PushTurn,
       PushMarker, PushOk, PushFails, PushReturns, WorkerStep, StartWorker, BeginSteal,
       FinishWorker, TakeUnit, EnterWriteShard, WorkerFails, diskVars

LEMMA PushSteps ==
  [Next]_vars => \/ UNCHANGED pushVars
                 \/ \E v \in Vm : \/ Probe(v) \/ Sync(v) \/ EvictionNotice(v)
                                  \/ Term(v) \/ Cleanup(v) \/ Crash(v) \/ Evict(v)
                 \/ \E v \in Vm, p \in Slot : PushStep(v, p) \/ PushFails(v, p)
BY DEF Next, vars, Launch, ScriptStep, PullMarker, ProbeReturns, Exit, Disturbance, PullFails,
       WorkerStep, StartWorker, BeginSteal, FinishWorker, TakeUnit, EnterWriteShard,
       ReplaceShard, WriteMarker, WorkerFails, pushVars

LEMMA WorkerSteps ==
  [Next]_vars => \/ UNCHANGED workerVars
                 \/ \E v \in Vm : Crash(v) \/ Evict(v)
                 \/ \E w \in Worker : WorkerStep(w) \/ WorkerFails(w)
BY DEF Next, vars, Launch, ScriptStep, PullMarker, Probe, ProbeReturns, Cleanup, Exit, Sync,
       EvictionNotice, Disturbance, PullFails, Term, PushStep, PushShard, PushTurn,
       PushMarker, PushOk, PushFails, PushReturns, workerVars

-----------------------------------------------------------------------------
(* The store only gains files, and what a push of a unit puts there. *)

LEMMA PushShardEffect ==
  ASSUME TypeOK, NEW v \in Vm, NEW p \in Slot, NEW u \in Unit, PushShard(v, p, u)
  PROVE  /\ \A x \in Unit : sdata[x] # None => sdata'[x] # None
         /\ ldata[v][u] # None => sdata'[u] # None
<1>1. CASE ldata[v][u] = None
  BY <1>1 DEF PushShard
<1>2. CASE ldata[v][u] # None
  <2>1. PICK b : b # None /\ sdata' = [sdata EXCEPT ![u] = b]
    BY <1>2 DEF PushShard, Copied
  <2> QED
    BY <2>1 DEF TypeOK
<1> QED
  BY <1>1, <1>2

LEMMA ShardsStay ==
  ASSUME TypeOK, [Next]_vars
  PROVE  \A u \in Unit : sdata[u] # None => sdata'[u] # None
BY StoreSteps, PushShardEffect DEF storeVars, PushMarker

LEMMA NoOrphanMarkerNext == IInv /\ [Next]_vars => NoOrphanMarker'
<1> SUFFICES ASSUME IInv, [Next]_vars PROVE NoOrphanMarker'
  OBVIOUS
<1>1. CASE UNCHANGED storeVars
  BY <1>1 DEF IInv, NoOrphanMarker, storeVars
<1>2. ASSUME NEW v \in Vm, NEW p \in Slot, NEW u \in Unit, PushShard(v, p, u)
      PROVE  NoOrphanMarker'
  BY <1>2, ShardsStay DEF IInv, NoOrphanMarker, PushShard
<1>3. ASSUME NEW v \in Vm, NEW p \in Slot, NEW u \in Unit, PushMarker(v, p, u)
      PROVE  NoOrphanMarker'
  \* Pass 2 walks the snapshot, and every snapshotted unit has its shard in the store.
  <2>1. sdata[u] # None
    BY <1>3 DEF IInv, PushInv, PushMarker
  <2>2. PICK b : smark' = [smark EXCEPT ![u] = b]
    BY <1>3 DEF PushMarker
  <2> QED
    BY <1>3, <2>1, <2>2 DEF IInv, TypeOK, NoOrphanMarker, PushMarker
<1> QED
  BY <1>1, <1>2, <1>3, StoreSteps

LEMMA CustodyNext == IInv /\ [Next]_vars => Custody'
<1> SUFFICES ASSUME IInv, [Next]_vars PROVE Custody'
  OBVIOUS
<1> USE DEF IInv, TypeOK, Custody
<1>1. \A u \in Unit : sdata[u] # None => sdata'[u] # None
  BY ShardsStay
<1>2. CASE UNCHANGED diskVars
  BY <1>1, <1>2 DEF diskVars
<1>3. ASSUME NEW v \in Vm, Evict(v) PROVE Custody'
  BY <1>1, <1>3 DEF Evict, NoFile
<1>4. ASSUME NEW v \in Vm, NEW u \in Unit, PullMarker(v, u) PROVE Custody'
  \* A marker is pulled only if the store has it, hence its shard.
  <2>1. CASE smark[u] = None
    BY <1>1, <1>4, <2>1 DEF PullMarker
  <2>2. CASE smark[u] # None
    <3>1. sdata[u] # None
      BY <2>2 DEF NoOrphanMarker
    <3>2. /\ lmark' = [lmark EXCEPT ![v] = [lmark[v] EXCEPT ![u] = smark[u]]]
          /\ ldata' = ldata
      BY <1>4, <2>2 DEF PullMarker
    <3>3. \A y \in Vm, x \in Unit : lmark'[y][x] = lmark[y][x] \/ (y = v /\ x = u)
      BY <3>2
    <3> QED
      BY <1>1, <3>1, <3>2, <3>3
  <2> QED
    BY <2>1, <2>2
<1>5. ASSUME NEW w \in Worker, NEW u \in Unit, WriteMarker(w, u) PROVE Custody'
  <2>1. Host[w] \in Vm /\ ldata' = ldata /\ ldata[Host[w]][u] # None
    BY <1>5, FleetAssumption DEF WriteMarker
  <2>2. \A y \in Vm, x \in Unit : lmark'[y][x] = lmark[y][x] \/ (y = Host[w] /\ x = u)
    BY <1>5, <2>1 DEF WriteMarker
  <2> QED
    BY <1>1, <2>1, <2>2
<1>6. ASSUME NEW w \in Worker, NEW u \in Unit, NEW b \in Bytes, ReplaceShard(w, u, b)
      PROVE  Custody'
  <2>1. Host[w] \in Vm /\ b # None /\ lmark' = lmark
    BY <1>6, FleetAssumption DEF ReplaceShard
  <2>2. \A y \in Vm, x \in Unit : ldata'[y][x] = ldata[y][x] \/ ldata'[y][x] = b
    BY <1>6, <2>1 DEF ReplaceShard
  <2> QED
    BY <1>1, <2>1, <2>2
<1> QED
  BY <1>2, <1>3, <1>4, <1>5, <1>6, DiskSteps

LEMMA MarksStay ==
  ASSUME IInv, [Next]_vars, ~ \E v \in Vm : Evict(v)
  PROVE  \A v \in Vm : Marked(v) \subseteq Marked(v)'
<1> USE DEF IInv, TypeOK, Marked
<1>1. CASE UNCHANGED diskVars
  BY <1>1 DEF diskVars
<1>2. ASSUME NEW v \in Vm, NEW u \in Unit, PullMarker(v, u)
      PROVE  \A y \in Vm : Marked(y) \subseteq Marked(y)'
  <2>1. CASE smark[u] = None
    BY <1>2, <2>1 DEF PullMarker
  <2>2. CASE smark[u] # None
    <3>1. lmark' = [lmark EXCEPT ![v] = [lmark[v] EXCEPT ![u] = smark[u]]]
      BY <1>2, <2>2 DEF PullMarker
    <3>2. \A y \in Vm, x \in Unit : lmark'[y][x] \in {lmark[y][x], smark[u]}
      BY <3>1
    <3> QED
      BY <2>2, <3>2
  <2> QED
    BY <2>1, <2>2
<1>3. ASSUME NEW w \in Worker, NEW u \in Unit, WriteMarker(w, u)
      PROVE  \A y \in Vm : Marked(y) \subseteq Marked(y)'
  <2>1. out[w] # None
    BY <1>3 DEF WorkerInv, WriteMarker
  <2>2. \A y \in Vm, x \in Unit : lmark'[y][x] \in {lmark[y][x], out[w]}
    BY <1>3, FleetAssumption DEF WriteMarker
  <2> QED
    BY <2>1, <2>2
<1>4. ASSUME NEW w \in Worker, NEW u \in Unit, NEW b \in Bytes, ReplaceShard(w, u, b)
      PROVE  \A y \in Vm : Marked(y) \subseteq Marked(y)'
  BY <1>4 DEF ReplaceShard
<1> QED
  BY <1>1, <1>2, <1>3, <1>4, DiskSteps

\* PushInv for one push.
PushSafe(v, p) ==
  /\ snap[v][p] \subseteq Marked(v)
  /\ phase[v][p] = "data" => \A u \in snap[v][p] : u \in walk[v][p] \/ sdata[u] # None
  /\ phase[v][p] = "marks" => /\ walk[v][p] \subseteq snap[v][p]
                              /\ \A u \in snap[v][p] : sdata[u] # None

LEMMA PushInvNext == IInv /\ TypeOK' /\ [Next]_vars => PushInv'
<1> SUFFICES ASSUME IInv, TypeOK', [Next]_vars, NEW y \in Vm, NEW q \in Slot
             PROVE  PushSafe(y, q)'
  BY DEF PushInv, PushSafe
<1> USE DEF IInv, TypeOK
<1>s. PushSafe(y, q)
  BY DEF PushInv, PushSafe
<1>d. \A u \in Unit : sdata[u] # None => sdata'[u] # None
  BY ShardsStay
<1>1. CASE \E v \in Vm : Evict(v)
  <2>1. PICK v \in Vm : Evict(v)
    BY <1>1
  <2>2. CASE y = v
    BY <2>1, <2>2 DEF Evict, AllProcessesDie, PushSafe
  <2>3. CASE y # v
    <3>1. /\ phase'[y] = phase[y] /\ snap'[y] = snap[y] /\ walk'[y] = walk[y]
          /\ lmark'[y] = lmark[y] /\ sdata' = sdata
      BY <2>1, <2>3 DEF Evict, AllProcessesDie, storeVars
    <3> QED
      BY <3>1, <1>s DEF PushSafe, Marked
  <2> QED
    BY <2>2, <2>3
<1>2. CASE ~ \E v \in Vm : Evict(v)
  <2>m. Marked(y) \subseteq Marked(y)'
    BY <1>2, MarksStay
  <2>same. ASSUME phase'[y][q] = phase[y][q], snap'[y][q] = snap[y][q],
                  walk'[y][q] = walk[y][q]
           PROVE  PushSafe(y, q)'
    BY <2>same, <2>m, <1>s, <1>d DEF PushSafe
  \* A push that begins: everything is still to be visited.
  <2>begin. ASSUME phase'[y][q] = "data", snap'[y][q] = Marked(y), walk'[y][q] = Unit
            PROVE  PushSafe(y, q)'
    BY <2>begin, <2>m DEF PushSafe, Marked
  <2>stop. ASSUME phase'[y][q] \in {"idle", "ok", "failed"}, snap'[y][q] = {}
           PROVE  PushSafe(y, q)'
    BY <2>stop DEF PushSafe
  <2>1. CASE UNCHANGED pushVars
    BY <2>1, <2>same DEF pushVars
  <2>2. ASSUME NEW v \in Vm, Probe(v) \/ Sync(v) \/ EvictionNotice(v) PROVE PushSafe(y, q)'
    <3>1. PICK p \in Slot : StartPush(v, p)
      BY <2>2, FleetAssumption DEF Probe, Sync, EvictionNotice
    <3>2. CASE y = v /\ q = p
      BY <3>1, <3>2, <2>begin DEF StartPush, Snapshot
    <3>3. CASE ~(y = v /\ q = p)
      BY <3>1, <3>3, <2>same DEF StartPush
    <3> QED
      BY <3>2, <3>3
  <2>3. ASSUME NEW v \in Vm, Term(v) \/ Cleanup(v) PROVE PushSafe(y, q)'
    <3>1. KillHelpersAndPush(v)
      BY <2>3 DEF Term, Cleanup
    <3>2. CASE y = v /\ q = "sync"
      BY <3>1, <3>2, <2>begin DEF KillHelpersAndPush, Snapshot
    <3>3. CASE y = v /\ q # "sync"
      BY <3>1, <3>3, <2>stop DEF KillHelpersAndPush
    <3>4. CASE y # v
      BY <3>1, <3>4, <2>same DEF KillHelpersAndPush
    <3> QED
      BY <3>2, <3>3, <3>4
  <2>4. ASSUME NEW v \in Vm, Crash(v) PROVE PushSafe(y, q)'
    BY <2>4, <2>same, <2>stop DEF Crash, AllProcessesDie
  <2>5. ASSUME NEW v \in Vm, NEW p \in Slot, NEW u \in Unit, PushShard(v, p, u)
        PROVE  PushSafe(y, q)'
    <3>1. CASE y = v /\ q = p
      \* u leaves the walk: its shard was copied, or was not on this disk and then, if u is
      \* in the snapshot, Custody says the store has it.
      <4>1. /\ phase' = phase /\ snap' = snap
            /\ walk'[v][p] = walk[v][p] \ {u} /\ phase[v][p] = "data"
        BY <2>5 DEF PushShard
      <4>2. u \in snap[v][p] => sdata'[u] # None
        BY <2>5, <1>d, PushShardEffect DEF Custody, PushInv, Marked
      <4> QED
        BY <3>1, <4>1, <4>2, <2>m, <1>s, <1>d DEF PushSafe
    <3>2. CASE ~(y = v /\ q = p)
      BY <2>5, <3>2, <2>same DEF PushShard
    <3> QED
      BY <3>1, <3>2
  <2>6. ASSUME NEW v \in Vm, NEW p \in Slot, PushTurn(v, p) PROVE PushSafe(y, q)'
    <3>1. CASE y = v /\ q = p
      BY <2>6, <3>1, <2>m, <1>s, <1>d DEF PushTurn, PushSafe
    <3>2. CASE ~(y = v /\ q = p)
      BY <2>6, <3>2, <2>same DEF PushTurn
    <3> QED
      BY <3>1, <3>2
  <2>7. ASSUME NEW v \in Vm, NEW p \in Slot, NEW u \in Unit, PushMarker(v, p, u)
        PROVE  PushSafe(y, q)'
    BY <2>7, <2>m, <1>s, <1>d DEF PushMarker, PushSafe
  <2>8. ASSUME NEW v \in Vm, NEW p \in Slot, PushOk(v, p) \/ PushFails(v, p)
        PROVE  PushSafe(y, q)'
    <3>1. CASE y = v /\ q = p
      BY <2>8, <3>1, <2>stop DEF PushOk, PushFails, PushReturns
    <3>2. CASE ~(y = v /\ q = p)
      BY <2>8, <3>2, <2>same DEF PushOk, PushFails, PushReturns
    <3> QED
      BY <3>1, <3>2
  <2> QED
    BY <1>2, <2>1, <2>2, <2>3, <2>4, <2>5, <2>6, <2>7, <2>8, PushSteps DEF PushStep
<1> QED
  BY <1>1, <1>2

LEMMA DiskShardsStay ==
  ASSUME IInv, [Next]_vars, ~ \E v \in Vm : Evict(v)
  PROVE  \A v \in Vm, u \in Unit : ldata[v][u] # None => ldata'[v][u] # None
<1> USE DEF IInv, TypeOK
<1>1. CASE UNCHANGED diskVars
  BY <1>1 DEF diskVars
<1>2. ASSUME NEW v \in Vm, NEW u \in Unit, PullMarker(v, u) PROVE ldata' = ldata
  BY <1>2 DEF PullMarker
<1>3. ASSUME NEW w \in Worker, NEW u \in Unit, WriteMarker(w, u) PROVE ldata' = ldata
  BY <1>3 DEF WriteMarker
<1>4. ASSUME NEW w \in Worker, NEW u \in Unit, NEW b \in Bytes, ReplaceShard(w, u, b)
      PROVE  \A v \in Vm, x \in Unit : ldata'[v][x] \in {ldata[v][x], b} /\ b # None
  BY <1>4, FleetAssumption DEF ReplaceShard
<1> QED
  BY <1>1, <1>2, <1>3, <1>4, DiskSteps

\* WorkerInv for one worker.
WorkerSafe(w) ==
  /\ stage[w] # "next" => pass[w] \in {"own", "steal"} /\ todo[w] # {}
  /\ stage[w] = "wrote" => /\ out[w] # None
                           /\ \A u \in Unit : Current(w, u) => ldata[Host[w]][u] # None

LEMMA WorkerInvNext == IInv /\ [Next]_vars => WorkerInv'
<1> SUFFICES ASSUME IInv, [Next]_vars, NEW y \in Worker
             PROVE  WorkerSafe(y)'
  BY DEF WorkerInv, WorkerSafe
<1> USE DEF IInv, TypeOK
<1>s. WorkerSafe(y)
  BY DEF WorkerInv, WorkerSafe
<1>h. Host[y] \in Vm
  BY FleetAssumption
<1>1. CASE \E v \in Vm : Evict(v)
  <2>1. PICK v \in Vm : Evict(v)
    BY <1>1
  <2>2. CASE Host[y] = v
    BY <2>1, <2>2 DEF Evict, AllProcessesDie, WorkerSafe
  <2>3. CASE Host[y] # v
    <3>1. /\ pass'[y] = pass[y] /\ stage'[y] = stage[y]
          /\ todo'[y] = todo[y] /\ out'[y] = out[y]
          /\ ldata'[Host[y]] = ldata[Host[y]]
      BY <1>h, <2>1, <2>3 DEF Evict, AllProcessesDie
    <3> QED
      BY <3>1, <1>s DEF WorkerSafe, Current
  <2> QED
    BY <2>2, <2>3
<1>2. CASE ~ \E v \in Vm : Evict(v)
  <2>d. \A v \in Vm, u \in Unit : ldata[v][u] # None => ldata'[v][u] # None
    BY <1>2, DiskShardsStay
  <2>same. ASSUME pass'[y] = pass[y], stage'[y] = stage[y], todo'[y] = todo[y],
                  out'[y] = out[y]
           PROVE  WorkerSafe(y)'
    BY <2>same, <2>d, <1>s, <1>h DEF WorkerSafe, Current
  <2>next. ASSUME stage'[y] = "next" PROVE WorkerSafe(y)'
    BY <2>next DEF WorkerSafe
  <2>1. CASE UNCHANGED workerVars
    BY <2>1, <2>same DEF workerVars
  <2>2. ASSUME NEW v \in Vm, Crash(v) PROVE WorkerSafe(y)'
    BY <2>2, <2>same, <2>next DEF Crash, AllProcessesDie
  <2>3. ASSUME NEW w \in Worker, w # y, WorkerStep(w) \/ WorkerFails(w)
        PROVE  WorkerSafe(y)'
    BY <2>3, <2>same
    DEF WorkerStep, StartWorker, BeginSteal, FinishWorker, TakeUnit, EnterWriteShard,
        ReplaceShard, WriteMarker, WorkerFails
  <2>4. ASSUME StartWorker(y) \/ BeginSteal(y) \/ FinishWorker(y) \/ WorkerFails(y)
        PROVE  WorkerSafe(y)'
    BY <2>4, <2>next, <1>s
    DEF WorkerSafe, StartWorker, BeginSteal, FinishWorker, WorkerFails
  <2>5. ASSUME NEW u \in Unit, TakeUnit(y, u) \/ EnterWriteShard(y, u)
        PROVE  WorkerSafe(y)'
    BY <2>5, <2>next DEF WorkerSafe, TakeUnit, EnterWriteShard, Current
  <2>6. ASSUME NEW u \in Unit, NEW b \in Bytes, ReplaceShard(y, u, b)
        PROVE  WorkerSafe(y)'
    <3>1. /\ b # None /\ out'[y] = b /\ stage'[y] = "wrote"
          /\ pass' = pass /\ todo' = todo /\ ldata'[Host[y]][u] = b
      BY <2>6, <1>h, FleetAssumption DEF ReplaceShard
    <3>2. \A x \in Unit : Current(y, x)' => x = u
      BY <2>6, <3>1, FleetAssumption DEF ReplaceShard, Current
    <3> QED
      BY <2>6, <3>1, <3>2 DEF WorkerSafe, ReplaceShard, Current
  <2>7. ASSUME NEW u \in Unit, WriteMarker(y, u) PROVE WorkerSafe(y)'
    BY <2>7, <2>next DEF WriteMarker
  <2> QED
    BY <1>2, <2>1, <2>2, <2>3, <2>4, <2>5, <2>6, <2>7, WorkerSteps DEF WorkerStep
<1> QED
  BY <1>1, <1>2

-----------------------------------------------------------------------------

LEMMA InitIInv == Init => IInv
<1> SUFFICES ASSUME Init PROVE IInv
  OBVIOUS
<1>1. TypeOK
  BY FleetAssumption DEF Init, TypeOK, NoFile, File, Script, Phase, Pass
<1> QED
  BY <1>1
  DEF Init, NoFile, IInv, NoOrphanMarker, Custody, PushInv, WorkerInv

\* Type correctness: every variable of FleetResume keeps its type.
THEOREM TypeCorrect == Spec => []TypeOK
<1>1. Init => TypeOK
  BY InitIInv DEF IInv
<1> QED
  BY <1>1, TypeNext, PTL DEF Spec

\* The inductive invariant: what a push has still to copy is exactly what keeps the store's
\* markers backed by shards.
THEOREM Inductive == Spec => []IInv
<1>1. IInv /\ [Next]_vars => IInv'
  BY TypeNext, NoOrphanMarkerNext, CustodyNext, PushInvNext, WorkerInvNext DEF IInv
<1> QED
  BY <1>1, InitIInv, PTL DEF Spec

\* Resume correctness across the network hop (scripts/objstore.sh:60-76): for any fleet, plan
\* and interleaving of pushes, pulls, evictions and failures, a marker in the store has its
\* shard beside it.
THEOREM MarkerImpliesShard == Spec => []NoOrphanMarker
BY Inductive, PTL DEF IInv

\* No VM ever regards as finished a unit whose shard exists neither on its disk nor in the
\* store, so no unit is skipped into nonexistence.
THEOREM SkippedUnitsExist == Spec => []Custody
BY Inductive, PTL DEF IInv

-----------------------------------------------------------------------------
(* CleanExitComplete. *)

\* SweepInv for one worker.
SweepSafe(w) ==
  /\ pass[w] = "steal" => Unit \ todo[w] \subseteq Marked(Host[w])
  /\ pass[w] = "done" => Unit \subseteq Marked(Host[w])

LEMMA SweepInvNext == IInv /\ SweepInv /\ [Next]_vars => SweepInv'
<1> SUFFICES ASSUME IInv, SweepInv, [Next]_vars, NEW y \in Worker
             PROVE  SweepSafe(y)'
  BY DEF SweepInv, SweepSafe
<1> USE DEF IInv, TypeOK
<1>s. SweepSafe(y)
  BY DEF SweepInv, SweepSafe
<1>h. Host[y] \in Vm
  BY FleetAssumption
<1>1. CASE \E v \in Vm : Evict(v)
  <2>1. PICK v \in Vm : Evict(v)
    BY <1>1
  <2>2. CASE Host[y] = v
    BY <2>1, <2>2 DEF Evict, AllProcessesDie, SweepSafe
  <2>3. CASE Host[y] # v
    <3>1. /\ pass'[y] = pass[y] /\ todo'[y] = todo[y]
          /\ lmark'[Host[y]] = lmark[Host[y]]
      BY <1>h, <2>1, <2>3 DEF Evict, AllProcessesDie
    <3> QED
      BY <3>1, <1>s DEF SweepSafe, Marked
  <2> QED
    BY <2>2, <2>3
<1>2. CASE ~ \E v \in Vm : Evict(v)
  <2>m. Marked(Host[y]) \subseteq Marked(Host[y])'
    BY <1>2, <1>h, MarksStay
  <2>same. ASSUME pass'[y] = pass[y], todo'[y] = todo[y] PROVE SweepSafe(y)'
    BY <2>same, <2>m, <1>s DEF SweepSafe
  <2>not. ASSUME pass'[y] \notin {"steal", "done"} PROVE SweepSafe(y)'
    BY <2>not DEF SweepSafe
  \* The current unit leaves the pass marked.
  <2>unit. ASSUME NEW u \in Unit, pass'[y] = pass[y],
                  todo'[y] = todo[y] \ {u}, u \in Marked(Host[y])'
           PROVE  SweepSafe(y)'
    BY <2>unit, <2>m, <1>s DEF SweepSafe
  <2>1. CASE UNCHANGED workerVars
    BY <2>1, <2>same DEF workerVars
  <2>2. ASSUME NEW v \in Vm, Crash(v) PROVE SweepSafe(y)'
    BY <2>2, <2>same, <2>not DEF Crash, AllProcessesDie
  <2>3. ASSUME NEW w \in Worker, w # y, WorkerStep(w) \/ WorkerFails(w)
        PROVE  SweepSafe(y)'
    BY <2>3, <2>same
    DEF WorkerStep, StartWorker, BeginSteal, FinishWorker, TakeUnit, EnterWriteShard,
        ReplaceShard, WriteMarker, WorkerFails
  <2>4. ASSUME StartWorker(y) \/ WorkerFails(y) PROVE SweepSafe(y)'
    BY <2>4, <2>not DEF StartWorker, WorkerFails
  <2>5. ASSUME BeginSteal(y) PROVE SweepSafe(y)'
    BY <2>5, <2>m DEF BeginSteal, SweepSafe
  <2>6. ASSUME FinishWorker(y) PROVE SweepSafe(y)'
    BY <2>6, <2>m, <1>s DEF FinishWorker, SweepSafe
  <2>7. ASSUME NEW u \in Unit, TakeUnit(y, u) \/ EnterWriteShard(y, u)
        PROVE  SweepSafe(y)'
    <3>1. CASE u \in Marked(Host[y])
      BY <2>7, <3>1, <2>m, <2>unit DEF TakeUnit, EnterWriteShard
    <3>2. CASE u \notin Marked(Host[y])
      BY <2>7, <3>2, <2>same DEF TakeUnit, EnterWriteShard
    <3> QED
      BY <3>1, <3>2
  <2>8. ASSUME NEW u \in Unit, NEW b \in Bytes, ReplaceShard(y, u, b) PROVE SweepSafe(y)'
    BY <2>8, <2>same DEF ReplaceShard
  <2>9. ASSUME NEW u \in Unit, WriteMarker(y, u) PROVE SweepSafe(y)'
    <3>1. lmark'[Host[y]][u] = out[y] /\ out[y] # None
      BY <2>9, <1>h DEF WriteMarker, WorkerInv
    <3>2. u \in Marked(Host[y])'
      BY <3>1 DEF Marked
    <3> QED
      BY <2>9, <3>2, <2>unit DEF WriteMarker
  <2> QED
    BY <1>2, <2>1, <2>2, <2>3, <2>4, <2>5, <2>6, <2>7, <2>8, <2>9, WorkerSteps
    DEF WorkerStep
<1> QED
  BY <1>1, <1>2

LEMMA StoreMarkersStay ==
  ASSUME IInv, [Next]_vars
  PROVE  \A u \in Unit : smark[u] # None => smark'[u] # None
<1> USE DEF IInv, TypeOK
<1>1. ASSUME NEW v \in Vm, NEW p \in Slot, NEW u \in Unit, PushMarker(v, p, u)
      PROVE  \A x \in Unit : smark[x] # None => smark'[x] # None
  <2>1. lmark[v][u] # None
    BY <1>1 DEF PushMarker, PushInv, Marked
  <2>2. PICK b : b # None /\ smark' = [smark EXCEPT ![u] = b]
    BY <1>1, <2>1 DEF PushMarker, Copied
  <2> QED
    BY <2>2
<1> QED
  BY <1>1, StoreSteps DEF storeVars, PushShard

\* FinalInv for one VM, in two parts.
FinalSafe(v) ==
  /\ Unit \subseteq Marked(v)
  /\ phase[v]["sync"] \in {"data", "marks"} => snap[v]["sync"] = Unit
  /\ phase[v]["sync"] = "marks" => \A u \in Unit \ walk[v]["sync"] : smark[u] # None
  /\ phase[v]["sync"] = "ok" => \A u \in Unit : smark[u] # None

Ending(v) == script[v] \in {"final", "exit"} /\ ~fail[v]

\* Where a script that is not failing stands on its way out, and how it got there.
LEMMA EndingSteps ==
  ASSUME IInv, [Next]_vars, NEW v \in Vm, Ending(v)'
  PROVE  \/ Ending(v) /\ ~Cleanup(v)
         \/ script[v] = "run" /\ Cleanup(v)
         \/ script[v] = "term" /\ ~fail[v]
<1> USE DEF IInv, TypeOK, Ending
<1>1. ASSUME script'[v] = script[v], fail'[v] = fail[v] PROVE Ending(v) /\ ~Cleanup(v)
  BY <1>1 DEF Cleanup
<1>2. ASSUME NEW x \in Vm, Launch(x) \/ Probe(x) \/ Term(x) \/ Crash(x) \/ Evict(x)
      PROVE  Ending(v) /\ ~Cleanup(v)
  BY <1>1, <1>2 DEF Launch, Probe, Term, Crash, Evict, AllProcessesDie
<1>3. ASSUME NEW x \in Vm, PullFails(x) \/ ProbeReturns(x)
      PROVE  Ending(v) /\ ~Cleanup(v)
  BY <1>1, <1>3 DEF PullFails, ProbeReturns
<1>4. ASSUME NEW x \in Vm, Exit(x) PROVE Ending(v) /\ ~Cleanup(v)
  BY <1>1, <1>4 DEF Exit, Cleanup
<1>5. ASSUME NEW x \in Vm, Cleanup(x)
      PROVE  \/ Ending(v) /\ ~Cleanup(v)
             \/ script[v] = "run" /\ Cleanup(v)
             \/ script[v] = "term" /\ ~fail[v]
  BY <1>1, <1>5 DEF Cleanup
<1>6. ASSUME NEW x \in Vm, \/ Sync(x) \/ EvictionNotice(x)
                           \/ \E u \in Unit : PullMarker(x, u)
                           \/ \E p \in Slot : PushStep(x, p) \/ PushFails(x, p)
      PROVE  Ending(v) /\ ~Cleanup(v)
  BY <1>1, <1>6
  DEF Sync, EvictionNotice, PullMarker, PushStep, PushShard, PushTurn, PushMarker, PushOk,
      PushFails, PushReturns, scriptVars
<1>7. ASSUME NEW w \in Worker, WorkerStep(w) \/ WorkerFails(w)
      PROVE  Ending(v) /\ ~Cleanup(v)
  BY <1>1, <1>7
  DEF WorkerStep, StartWorker, BeginSteal, FinishWorker, TakeUnit, EnterWriteShard,
      ReplaceShard, WriteMarker, WorkerFails, scriptVars
<1>8. CASE UNCHANGED vars
  BY <1>1, <1>8 DEF vars, scriptVars
<1> QED
  BY <1>2, <1>3, <1>4, <1>5, <1>6, <1>7, <1>8 DEF Next, ScriptStep, Disturbance

LEMMA EndingMarksStay ==
  ASSUME IInv, [Next]_vars, NEW v \in Vm, Ending(v)'
  PROVE  Marked(v) \subseteq Marked(v)'
<1>1. CASE \E x \in Vm : Evict(x)
  <2>1. PICK x \in Vm : Evict(x)
    BY <1>1
  <2>2. x # v
    BY <2>1 DEF Evict, AllProcessesDie, Ending, IInv, TypeOK
  <2> QED
    BY <2>1, <2>2 DEF Evict, Marked, IInv, TypeOK
<1> QED
  BY <1>1, MarksStay

LEMMA FinalInvNext == IInv /\ SweepInv /\ FinalInv /\ [Next]_vars => FinalInv'
<1> SUFFICES ASSUME IInv, SweepInv, FinalInv, [Next]_vars, NEW y \in Vm
             PROVE  /\ script'[y] = "term" => fail'[y]
                    /\ Ending(y)' => FinalSafe(y)'
  BY DEF FinalInv, Ending, FinalSafe
<1> USE DEF IInv, TypeOK
<1>1. script'[y] = "term" => fail'[y]
  <2>1. ASSUME NEW x \in Vm, \/ Launch(x) \/ Probe(x) \/ Term(x) \/ Crash(x) \/ Evict(x)
                             \/ PullFails(x) \/ ProbeReturns(x) \/ Exit(x) \/ Cleanup(x)
        PROVE  script'[y] = "term" => fail'[y]
    BY <2>1
    DEF FinalInv, Launch, Probe, Term, Crash, Evict, AllProcessesDie, PullFails,
        ProbeReturns, Exit, Cleanup
  <2>same. ASSUME UNCHANGED <<script, fail>> PROVE script'[y] = "term" => fail'[y]
    BY <2>same DEF FinalInv
  <2>2. ASSUME NEW x \in Vm, \/ Sync(x) \/ EvictionNotice(x)
                             \/ \E u \in Unit : PullMarker(x, u)
                             \/ \E p \in Slot : PushStep(x, p) \/ PushFails(x, p)
        PROVE  UNCHANGED <<script, fail>>
    BY <2>2
    DEF Sync, EvictionNotice, PullMarker, PushStep, PushShard, PushTurn, PushMarker, PushOk,
        PushFails, PushReturns, scriptVars
  <2>3. ASSUME NEW w \in Worker, WorkerStep(w) \/ WorkerFails(w)
        PROVE  UNCHANGED <<script, fail>>
    BY <2>3
    DEF WorkerStep, StartWorker, BeginSteal, FinishWorker, TakeUnit, EnterWriteShard,
        ReplaceShard, WriteMarker, WorkerFails, scriptVars
  <2>4. CASE UNCHANGED vars
    BY <2>4, <2>same DEF vars, scriptVars
  <2> QED
    BY <2>1, <2>2, <2>3, <2>4, <2>same DEF Next, ScriptStep, Disturbance
<1>2. ASSUME Ending(y)' PROVE FinalSafe(y)'
  <2>m. Marked(y) \subseteq Marked(y)'
    BY <1>2, EndingMarksStay
  <2>s. \A u \in Unit : smark[u] # None => smark'[u] # None
    BY StoreMarkersStay
  <2>1. CASE script[y] = "run" /\ Cleanup(y)
    \* No worker failed, so one at least is done, and it swept the plan.
    <3>1. PICK w \in Worker : Host[w] = y
      BY FleetAssumption
    <3>2. pass[w] = "done"
      BY <1>2, <2>1, <3>1 DEF Cleanup, Running, Ending, Pass
    <3>3. Unit \subseteq Marked(y)
      BY <3>1, <3>2 DEF SweepInv
    <3>4. phase'[y]["sync"] = "data" /\ snap'[y]["sync"] = Marked(y)
      BY <2>1, FleetAssumption DEF Cleanup, KillHelpersAndPush, Snapshot
    <3> QED
      BY <2>m, <3>3, <3>4 DEF FinalSafe, Marked
  <2>2. CASE script[y] = "term" /\ ~fail[y]
    BY <2>2 DEF FinalInv
  <2>3. CASE Ending(y) /\ ~Cleanup(y)
    <3>f. FinalSafe(y)
      BY <2>3 DEF FinalInv, FinalSafe, Ending
    <3>same. ASSUME phase'[y]["sync"] = phase[y]["sync"],
                    snap'[y]["sync"] = snap[y]["sync"], walk'[y]["sync"] = walk[y]["sync"]
             PROVE  FinalSafe(y)'
      BY <3>same, <3>f, <2>m, <2>s DEF FinalSafe
    <3>1. CASE UNCHANGED pushVars
      BY <3>1, <3>same DEF pushVars
    <3>2. ASSUME NEW v \in Vm, \/ Probe(v) \/ Sync(v) \/ EvictionNotice(v) \/ Term(v)
                               \/ Cleanup(v) \/ Crash(v) \/ Evict(v)
          PROVE  FinalSafe(y)'
      <4>1. y # v
        BY <1>2, <2>3, <3>2
        DEF Ending, Probe, Sync, EvictionNotice, Term, Crash, Evict, AllProcessesDie
      <4> QED
        BY <3>2, <3>same, <4>1
        DEF Probe, Sync, EvictionNotice, Term, Cleanup, Crash, Evict, AllProcessesDie,
            StartPush, KillHelpersAndPush
    <3>3. ASSUME NEW v \in Vm, NEW p \in Slot, ~(v = y /\ p = "sync"),
                 PushStep(v, p) \/ PushFails(v, p)
          PROVE  FinalSafe(y)'
      \* A push elsewhere leaves this one alone.
      <4>a. ASSUME NEW f, NEW g, NEW e, f \in [Vm -> [Slot -> e]],
                   NEW c, g = [f EXCEPT ![v][p] = c]
            PROVE  g[y]["sync"] = f[y]["sync"]
        BY <3>3, <4>a, FleetAssumption
      <4>1. \/ phase' = phase
            \/ \E c : phase' = [phase EXCEPT ![v][p] = c]
        BY <3>3
        DEF PushStep, PushShard, PushMarker, PushTurn, PushOk, PushFails, PushReturns
      <4>2. \/ snap' = snap
            \/ \E c : snap' = [snap EXCEPT ![v][p] = c]
        BY <3>3
        DEF PushStep, PushShard, PushMarker, PushTurn, PushOk, PushFails, PushReturns
      <4>3. \E c : walk' = [walk EXCEPT ![v][p] = c]
        BY <3>3
        DEF PushStep, PushShard, PushMarker, PushTurn, PushOk, PushFails, PushReturns
      <4>4. phase'[y]["sync"] = phase[y]["sync"]
        BY <4>a, <4>1
      <4>5. snap'[y]["sync"] = snap[y]["sync"]
        BY <4>a, <4>2
      <4>6. walk'[y]["sync"] = walk[y]["sync"]
        BY <4>a, <4>3
      <4> QED
        BY <4>4, <4>5, <4>6, <3>same
    <3>4. ASSUME NEW u \in Unit, PushShard(y, "sync", u) PROVE FinalSafe(y)'
      <4>1. /\ phase' = phase /\ snap' = snap /\ phase[y]["sync"] = "data"
        BY <3>4 DEF PushShard
      <4> QED
        BY <3>f, <2>m, <4>1 DEF FinalSafe
    <3>5. ASSUME PushTurn(y, "sync") PROVE FinalSafe(y)'
      <4>1. /\ phase[y]["sync"] = "data" /\ phase'[y]["sync"] = "marks" /\ snap' = snap
            /\ walk'[y]["sync"] = snap[y]["sync"]
        BY <3>5, FleetAssumption DEF PushTurn
      <4> QED
        BY <3>f, <2>m, <4>1 DEF FinalSafe
    <3>6. ASSUME NEW u \in Unit, PushMarker(y, "sync", u) PROVE FinalSafe(y)'
      <4>1. lmark[y][u] # None
        BY <3>f DEF FinalSafe, Marked
      <4>2. PICK b : b # None /\ smark' = [smark EXCEPT ![u] = b]
        BY <3>6, <4>1 DEF PushMarker, Copied
      <4>3. /\ phase' = phase /\ snap' = snap
            /\ walk'[y]["sync"] = walk[y]["sync"] \ {u} /\ phase[y]["sync"] = "marks"
        BY <3>6, FleetAssumption DEF PushMarker
      <4> QED
        BY <3>f, <2>m, <2>s, <4>2, <4>3 DEF FinalSafe
    <3>7. ASSUME PushOk(y, "sync") PROVE FinalSafe(y)'
      <4>1. /\ phase[y]["sync"] = "marks" /\ walk[y]["sync"] = {}
            /\ phase'[y]["sync"] = "ok" /\ smark' = smark
        BY <3>7, FleetAssumption DEF PushOk, PushReturns, storeVars
      <4> QED
        BY <3>f, <2>m, <4>1 DEF FinalSafe
    <3>8. ASSUME PushFails(y, "sync") PROVE FinalSafe(y)'
      <4>1. phase'[y]["sync"] = "failed"
        BY <3>8, FleetAssumption DEF PushFails, PushReturns
      <4> QED
        BY <3>f, <2>m, <4>1 DEF FinalSafe
    <3> QED
      BY <3>1, <3>2, <3>3, <3>4, <3>5, <3>6, <3>7, <3>8, PushSteps DEF PushStep
  <2> QED
    BY <1>2, <2>1, <2>2, <2>3, EndingSteps
<1> QED
  BY <1>1, <1>2

\* The steal pass leaves nothing behind that is not marked on its disk (runner.py:159-180),
\* and the last push of a script that is to exit 0 carries the markers of the whole plan to
\* the store (launch_node.sh:229-246).
THEOREM SweptInductive == Spec => []SweptInv
<1>1. Init => SweptInv
  BY InitIInv DEF Init, SweptInv, SweepInv, FinalInv
<1>2. SweptInv /\ [Next]_vars => SweptInv'
  BY TypeNext, NoOrphanMarkerNext, CustodyNext, PushInvNext, WorkerInvNext, SweepInvNext,
     FinalInvNext
  DEF IInv, SweptInv
<1> QED
  BY <1>1, <1>2, PTL DEF Spec

\* A launch_node.sh that exits 0 after a successful last push leaves the whole experiment in
\* the store, whatever happened to the other machines (runner.py:159, launch_node.sh:229-246).
THEOREM CleanExitMeansComplete == Spec => []CleanExitComplete
<1>1. SweptInv => CleanExitComplete
  BY DEF SweptInv, IInv, FinalInv, NoOrphanMarker, CleanExitComplete, CleanExit, Complete
<1> QED
  BY <1>1, SweptInductive, PTL

-----------------------------------------------------------------------------
(* The protocol implements CustodyLedger: every step is one of its steps or a stutter. *)

LEMMA LedgerInit == Init => Ledger!Init
BY DEF Init, NoFile, Ledger!Init, Marked

LEMMA LedgerNext == IInv /\ [Next]_vars => [Ledger!Next]_(Ledger!vars)
<1> SUFFICES ASSUME IInv, [Next]_vars PROVE [Ledger!Next]_(Ledger!vars)
  OBVIOUS
<1> USE DEF IInv, TypeOK
<1> DEFINE stored == {u \in Unit : sdata[u] # None}
           recorded == {u \in Unit : smark[u] # None}
           holds == [v \in Vm |-> {u \in Unit : ldata[v][u] # None}]
           trusted == [v \in Vm |-> Marked(v)]
<1>1. CASE UNCHANGED <<storeVars, diskVars>>
  BY <1>1 DEF storeVars, diskVars, Ledger!vars, Marked
<1>2. ASSUME NEW v \in Vm, NEW p \in Slot, NEW u \in Unit, PushShard(v, p, u)
      PROVE  [Ledger!Next]_(Ledger!vars)
  <2>1. UNCHANGED <<recorded, holds, trusted>>
    BY <1>2 DEF PushShard, diskVars, Marked
  <2>2. CASE ldata[v][u] = None
    BY <1>2, <2>1, <2>2 DEF PushShard, Ledger!vars
  <2>3. CASE ldata[v][u] # None
    <3>1. PICK b : b # None /\ sdata' = [sdata EXCEPT ![u] = b]
      BY <1>2, <2>3 DEF PushShard, Copied
    <3>2. stored' = stored \cup {u}
      BY <3>1
    <3>3. Ledger!Publish(v, u)
      BY <2>1, <2>3, <3>2 DEF Ledger!Publish
    <3> QED
      BY <3>3 DEF Ledger!Next
  <2> QED
    BY <2>2, <2>3
<1>3. ASSUME NEW v \in Vm, NEW p \in Slot, NEW u \in Unit, PushMarker(v, p, u)
      PROVE  [Ledger!Next]_(Ledger!vars)
  <2>1. UNCHANGED <<stored, holds, trusted>>
    BY <1>3 DEF PushMarker, diskVars, Marked
  <2>2. u \in Marked(v) /\ sdata[u] # None
    BY <1>3 DEF PushMarker, PushInv
  <2>3. PICK b : b # None /\ smark' = [smark EXCEPT ![u] = b]
    BY <1>3, <2>2 DEF PushMarker, Copied, Marked
  <2>4. recorded' = recorded \cup {u}
    BY <2>3
  <2>5. Ledger!Record(v, u)
    BY <2>1, <2>2, <2>4 DEF Ledger!Record
  <2> QED
    BY <2>5 DEF Ledger!Next
<1>4. ASSUME NEW v \in Vm, Evict(v) PROVE [Ledger!Next]_(Ledger!vars)
  <2>1. UNCHANGED <<stored, recorded>>
    BY <1>4 DEF Evict, storeVars
  <2>2. holds' = [holds EXCEPT ![v] = {}]
    BY <1>4 DEF Evict, NoFile
  <2>3. trusted' = [trusted EXCEPT ![v] = {}]
    BY <1>4 DEF Evict, NoFile, Marked
  <2>4. Ledger!Lose(v)
    BY <2>1, <2>2, <2>3 DEF Ledger!Lose
  <2> QED
    BY <2>4 DEF Ledger!Next
<1>5. ASSUME NEW v \in Vm, NEW u \in Unit, PullMarker(v, u)
      PROVE  [Ledger!Next]_(Ledger!vars)
  <2>1. UNCHANGED <<stored, recorded, holds>>
    BY <1>5 DEF PullMarker, storeVars
  <2>2. CASE smark[u] = None
    BY <1>5, <2>1, <2>2 DEF PullMarker, Ledger!vars, Marked
  <2>3. CASE smark[u] # None
    <3>1. lmark' = [lmark EXCEPT ![v] = [lmark[v] EXCEPT ![u] = smark[u]]]
      BY <1>5, <2>3 DEF PullMarker
    <3>2. trusted' = [trusted EXCEPT ![v] = trusted[v] \cup {u}]
      <4>1. \A y \in Vm, x \in Unit :
               lmark'[y][x] # None <=> lmark[y][x] # None \/ (y = v /\ x = u)
        BY <2>3, <3>1
      <4> QED
        BY <4>1 DEF Marked
    <3>3. Ledger!Learn(v, u)
      BY <2>1, <2>3, <3>2 DEF Ledger!Learn
    <3> QED
      BY <3>3 DEF Ledger!Next
  <2> QED
    BY <2>2, <2>3
<1>6. ASSUME NEW w \in Worker, NEW u \in Unit, WriteMarker(w, u)
      PROVE  [Ledger!Next]_(Ledger!vars)
  <2>1. UNCHANGED <<stored, recorded, holds>>
    BY <1>6 DEF WriteMarker, storeVars
  <2>2. Host[w] \in Vm /\ out[w] # None /\ ldata[Host[w]][u] # None
    BY <1>6, FleetAssumption DEF WriteMarker, WorkerInv
  <2>3. lmark' = [lmark EXCEPT ![Host[w]] = [lmark[Host[w]] EXCEPT ![u] = out[w]]]
    BY <1>6 DEF WriteMarker
  <2>4. trusted' = [trusted EXCEPT ![Host[w]] = trusted[Host[w]] \cup {u}]
    <3>1. \A y \in Vm, x \in Unit :
             lmark'[y][x] # None <=> lmark[y][x] # None \/ (y = Host[w] /\ x = u)
      BY <2>2, <2>3
    <3> QED
      BY <2>2, <3>1 DEF Marked
  <2>5. Ledger!Vouch(Host[w], u)
    BY <2>1, <2>2, <2>4 DEF Ledger!Vouch
  <2> QED
    BY <2>2, <2>5 DEF Ledger!Next
<1>7. ASSUME NEW w \in Worker, NEW u \in Unit, NEW b \in Bytes, ReplaceShard(w, u, b)
      PROVE  [Ledger!Next]_(Ledger!vars)
  <2>1. UNCHANGED <<stored, recorded, trusted>>
    BY <1>7 DEF ReplaceShard, storeVars, Marked
  <2>2. Host[w] \in Vm /\ b # None
    BY FleetAssumption
  <2>3. ldata' = [ldata EXCEPT ![Host[w]] = [ldata[Host[w]] EXCEPT ![u] = b]]
    BY <1>7 DEF ReplaceShard
  <2>4. holds' = [holds EXCEPT ![Host[w]] = holds[Host[w]] \cup {u}]
    <3>1. \A y \in Vm, x \in Unit :
             ldata'[y][x] # None <=> ldata[y][x] # None \/ (y = Host[w] /\ x = u)
      BY <2>2, <2>3
    <3> QED
      BY <2>2, <3>1
  <2>5. Ledger!Produce(Host[w], u)
    BY <2>1, <2>4 DEF Ledger!Produce
  <2> QED
    BY <2>2, <2>5 DEF Ledger!Next
<1> QED
  BY <1>1, <1>2, <1>3, <1>4, <1>5, <1>6, <1>7, StoreSteps, DiskSteps

\* The resume protocol, for every fleet and plan, does only what CustodyLedger allows.
THEOREM ImplementsLedger == Spec => LedgerSpec
BY LedgerInit, LedgerNext, Inductive, PTL DEF Spec, LedgerSpec, Ledger!Spec
=============================================================================
