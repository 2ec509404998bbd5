----------------------------- MODULE Reaper_proofs -----------------------------
(***************************************************************************)
(* The reaper spares working VMs: for every number of VMs, every pair of   *)
(* thresholds and every duration of a run of the reaper, provided that     *)
(* stages keep to the thresholds and names are not used again.             *)
(***************************************************************************)
EXTENDS Reaper, TLAPS

\* What the operator has to choose the thresholds by: azcopy is there within the deadline, and
\* whatever takes longer than STALE_MIN beats in between.
Timing ==
    /\ Autostart
    /\ Stale >= 1
    /\ Limit["start"] <= (IF HasTool THEN Stale ELSE Deadline)
    /\ \A s \in Stages \ {"start"} : Limit[s] <= Stale

\* The phases in which bootstrap has not started the job.
Before == {"start", "tooling", "clone"}

\* What the scripts of v keep true of its record and its blob.
Shape(v) ==
    /\ vm[v].phase # "absent" => v \in used
    /\ v \notin used => blob[v] = NoBeat /\ seen[v] = NoBeat
    /\ vm[v].pend => vm[v].logAge = 0 /\ vm[v].phase # "absent"
    /\ vm[v].phase \in Before => vm[v].job = "none"
    /\ vm[v].phase = "ready" /\ vm[v].pend => vm[v].job = "none"
    /\ vm[v].job = "running" => vm[v].phase \in {"ready", "running"}
    /\ vm[v].phase \in Stages /\ vm[v].job = "none" => vm[v].log # "job-exit"
    /\ vm[v].job = "running" => vm[v].log # "job-exit"
    /\ vm[v].phase = "start" => vm[v].age = vm[v].logAge /\ (~HasTool => blob[v] = NoBeat)

\* The heartbeat of a working VM is young enough, and is its last beat unless one is due.
Fresh(v) ==
    clean /\ Working(v) =>
        IF blob[v] = NoBeat
        THEN /\ vm[v].age <= Deadline
             /\ vm[v].pend \/ (vm[v].phase = "start" /\ ~HasTool)
        ELSE /\ blob[v].stage # "job-exit" /\ blob[v].age <= Stale
             /\ \/ vm[v].pend
                \/ vm[v].phase = "running" /\ (vm[v].due \/ blob[v].age = 0)
                \/ vm[v].phase # "running" /\ blob[v].age = vm[v].logAge

\* Nor does the run of the reaper under way hold anything against it.
Spared(v) ==
    clean /\ Working(v) =>
        /\ v \notin doomed
        /\ pc \in {"list", "judge"} =>
              IF seen[v] = NoBeat THEN vm[v].age - lag <= Deadline
              ELSE seen[v].stage # "job-exit" /\ seen[v].age <= Stale

IInv ==
    /\ TypeOK
    /\ todo \subseteq used /\ doomed \subseteq used
    /\ \A v \in VMs : Shape(v) /\ Fresh(v) /\ Spared(v)

LEMMA CapFacts ==
    /\ Cap \in Nat /\ Deadline + MaxLag < Cap /\ Stale + MaxLag < Cap
    /\ \A n \in Ages : Older(n) \in Ages
    /\ \A n \in Nat : n < Cap => n \in Ages /\ Older(n) = n + 1
BY ReaperAssumption DEF Cap, AtLeast, Ages, Older

LEMMA NoBeatIsNoBlob == NoBeat \notin [stage : Lines, age : Ages]
BY NoBeatAssumption, CapFacts, ReaperAssumption DEF Ages

\* vm[v] is a record with these fields and no others.
LEMMA Fields ==
    ASSUME TypeOK, NEW v \in VMs
    PROVE  /\ vm[v] \in VM
           /\ vm[v].phase \in Phases /\ vm[v].age \in Ages /\ vm[v].log \in Lines
           /\ vm[v].logAge \in Ages /\ vm[v].pend \in BOOLEAN /\ vm[v].due \in BOOLEAN
           /\ vm[v].job \in {"none", "running", "exited"}
           /\ blob[v] # NoBeat => blob[v].stage \in Lines /\ blob[v].age \in Ages
           /\ seen[v] # NoBeat => seen[v].stage \in Lines /\ seen[v].age \in -MaxLag..Cap
BY DEF TypeOK, VM

\* A step of one VM: what it has to respect for the invariant to go on.
LEMMA VmChange ==
    ASSUME IInv, NEW v \in VMs, NEW r \in VM, NEW b \in {NoBeat} \cup [stage : Lines, age : Ages],
           vm' = [vm EXCEPT ![v] = r], blob' = [blob EXCEPT ![v] = b],
           used' \in {used, used \cup {v}}, UNCHANGED reaperVars,
           clean' \in BOOLEAN, clean' => clean,
           Shape(v)', Fresh(v)', Spared(v)'
    PROVE  IInv'
<1>1. TypeOK'
  BY DEF IInv, TypeOK, reaperVars
<1>2. todo' \subseteq used' /\ doomed' \subseteq used'
  BY DEF IInv, reaperVars
<1>3. ASSUME NEW w \in VMs, w # v PROVE Shape(w)' /\ Fresh(w)' /\ Spared(w)'
  <2>1. vm'[w] = vm[w] /\ blob'[w] = blob[w] /\ (w \in used' <=> w \in used)
    BY <1>3 DEF IInv, TypeOK
  <2>2. Shape(w) /\ Fresh(w) /\ Spared(w)
    BY DEF IInv
  <2>3. Shape(w)'
    BY <2>1, <2>2 DEF Shape, reaperVars
  <2>4. Working(w)' <=> Working(w)
    BY <2>1 DEF Working, Bootstrapping
  <2>5. Fresh(w)'
    BY <2>1, <2>2, <2>4 DEF Fresh
  <2>6. Spared(w)'
    BY <2>1, <2>2, <2>4 DEF Spared, reaperVars
  <2> QED
    BY <2>3, <2>5, <2>6
<1> QED
  BY <1>1, <1>2, <1>3 DEF IInv

\* The reaper's view of v does not change when v goes on working at the same age.
LEMMA StaysSpared ==
    ASSUME IInv, NEW v \in VMs, UNCHANGED reaperVars, clean' => clean,
           Working(v)' => Working(v) /\ vm'[v].age = vm[v].age
    PROVE  Spared(v)'
<1>1. Spared(v)
  BY DEF IInv
<1> QED
  BY <1>1 DEF Spared, reaperVars

\* What is not working has nothing to fear.
LEMMA IdleIsSafe ==
    ASSUME NEW v \in VMs, ~ Working(v)'
    PROVE  Fresh(v)' /\ Spared(v)'
BY DEF Fresh, Spared

-----------------------------------------------------------------------------
(* The VM *)

LEMMA AbsentFields ==
    /\ Absent \in VM /\ Absent.phase = "absent" /\ Absent.age = 0 /\ Absent.logAge = 0
    /\ Absent.pend = FALSE /\ Absent.due = FALSE /\ Absent.job = "none"
BY CapFacts DEF Absent, VM, Phases, Lines, Stages, Ages

LEMMA LostFields ==
    /\ Lost \in VM /\ Lost.phase = "failed" /\ Lost.pend = FALSE /\ Lost.job = "none"
BY CapFacts DEF Lost, VM, Phases, Lines, Stages, Ages

\* A beat changes the local log and nothing else.
LEMMA BeatFields ==
    ASSUME NEW r \in VM, NEW s \in Lines
    PROVE  /\ Beat(r, s) \in VM
           /\ Beat(r, s).log = s /\ Beat(r, s).logAge = 0 /\ Beat(r, s).pend = TRUE
           /\ Beat(r, s).phase = r.phase /\ Beat(r, s).age = r.age
           /\ Beat(r, s).due = r.due /\ Beat(r, s).job = r.job
<1>1. 0 \in Ages
  BY CapFacts DEF Ages
<1>2. Beat(r, s) \in VM
  BY <1>1 DEF Beat, VM
<1> QED
  BY <1>2 DEF Beat, VM

LEMMA CreateStep ==
    ASSUME ~Relaunch, IInv, NEW v \in VMs, Create(v)
    PROVE  IInv'
<1> DEFINE r == Beat([Absent EXCEPT !.phase = "start"], "start")
<1>1. /\ r \in VM /\ r.phase = "start" /\ r.age = 0 /\ r.log = "start" /\ r.logAge = 0
      /\ r.pend = TRUE /\ r.due = FALSE /\ r.job = "none"
  <2> DEFINE a == [Absent EXCEPT !.phase = "start"]
  <2>1. /\ a \in VM /\ a.phase = "start" /\ a.age = 0 /\ a.due = FALSE /\ a.job = "none"
    BY AbsentFields DEF VM, Phases, Stages
  <2> HIDE DEF a
  <2> QED
    BY <2>1, BeatFields DEF Lines, Stages, a
<1>2. v \notin used /\ vm' = [vm EXCEPT ![v] = r] /\ used' = used \cup {v}
  BY DEF Create
<1> HIDE DEF r
<1>3. vm'[v] = r /\ blob[v] = NoBeat /\ seen[v] = NoBeat /\ v \notin doomed
  BY <1>2 DEF IInv, TypeOK, Shape
<1>4. /\ blob' = [blob EXCEPT ![v] = NoBeat] /\ UNCHANGED <<blob, reaperVars, clean>>
      /\ clean \in BOOLEAN
  BY <1>3 DEF Create, IInv, TypeOK
<1>5. Shape(v)'
  BY <1>1, <1>2, <1>3, <1>4 DEF Shape, Before, Stages
<1>6. Fresh(v)'
  BY <1>1, <1>3, <1>4, ReaperAssumption DEF Fresh
<1>7. Spared(v)'
  <2>1. lag \in Nat
    BY ReaperAssumption DEF IInv, TypeOK
  <2> QED
    BY <2>1, <1>1, <1>3, <1>4, ReaperAssumption DEF Spared, reaperVars
<1> QED
  BY <1>1, <1>2, <1>4, <1>5, <1>6, <1>7, VmChange

\* The upload publishes the last beat at its age, which is zero.
LEMMA UploadStep ==
    ASSUME Autostart, IInv, NEW v \in VMs, Upload(v)
    PROVE  IInv'
<1> DEFINE r == [vm[v] EXCEPT !.pend = FALSE]
           b == [stage |-> vm[v].log, age |-> vm[v].logAge]
<1>1. /\ r \in VM /\ r.phase = vm[v].phase /\ r.age = vm[v].age /\ r.log = vm[v].log
      /\ r.logAge = vm[v].logAge /\ r.pend = FALSE /\ r.due = vm[v].due /\ r.job = vm[v].job
  BY DEF IInv, TypeOK, VM
<1>2. vm' = [vm EXCEPT ![v] = r] /\ vm[v].pend /\ UNCHANGED <<used, reaperVars>>
  BY DEF Upload
<1>3. /\ b \in [stage : Lines, age : Ages] /\ b # NoBeat
      /\ b.stage = vm[v].log /\ b.age = vm[v].logAge
  <2>1. b \in [stage : Lines, age : Ages]
    BY Fields DEF IInv
  <2> QED
    BY <2>1, NoBeatIsNoBlob
<1> HIDE DEF r, b
<1>4. vm'[v] = r /\ Shape(v) /\ Fresh(v) /\ vm[v].logAge = 0
  BY <1>2 DEF IInv, TypeOK, Shape
<1>5. Working(v)' <=> Working(v)
  BY <1>1, <1>4 DEF Working, Bootstrapping
<1>6. CASE HasAzcopy(v) /\ blob' = [blob EXCEPT ![v] = b] /\ clean' = clean
  <2>1. blob'[v] = b /\ clean \in BOOLEAN
    BY <1>6 DEF IInv, TypeOK
  <2>2. Shape(v)'
    <3>1. vm[v].phase = "start" => HasTool
      BY <1>6 DEF HasAzcopy
    <3>2. v \in used
      BY <1>2, <1>4 DEF Shape
    <3> QED
      BY <1>1, <1>2, <1>4, <2>1, <3>1, <3>2 DEF Shape, Before, reaperVars
  <2>3. Working(v) => vm[v].log # "job-exit"
    BY <1>2, <1>4, Fields DEF Working, Bootstrapping, Shape, Before, Stages, IInv
  <2>4. Fresh(v)'
    BY <1>1, <1>3, <1>4, <1>5, <2>1, <2>3, ReaperAssumption DEF Fresh
  <2>5. Spared(v)'
    BY <1>1, <1>2, <1>4, <1>5, <1>6, StaysSpared
  <2> QED
    BY <1>1, <1>2, <1>3, <1>6, <2>1, <2>2, <2>4, <2>5, VmChange
<1>7. CASE blob' = blob /\ clean' = (clean /\ ~HasAzcopy(v))
  <2>1. blob' = [blob EXCEPT ![v] = blob[v]] /\ clean' \in BOOLEAN /\ (clean' => clean)
    BY <1>7 DEF IInv, TypeOK
  <2>2. Shape(v)'
    BY <1>1, <1>2, <1>4, <1>7 DEF Shape, reaperVars
  <2>3. Fresh(v)'
    <3> SUFFICES ASSUME clean', Working(v)' PROVE Fresh(v)'
      BY DEF Fresh
    <3>1. clean /\ ~HasTool /\ vm[v].phase = "start" /\ Working(v)
      BY <1>5, <1>7 DEF HasAzcopy
    <3>2. blob[v] = NoBeat /\ vm[v].age <= Deadline
      BY <1>4, <3>1 DEF Shape, Fresh
    <3> QED
      BY <1>1, <1>4, <1>7, <3>1, <3>2 DEF Fresh
  <2>4. Spared(v)'
    BY <1>1, <1>2, <1>4, <1>5, <2>1, StaysSpared
  <2>5. blob[v] \in {NoBeat} \cup [stage : Lines, age : Ages]
    BY DEF IInv, TypeOK
  <2> QED
    BY <1>1, <1>2, <2>1, <2>2, <2>3, <2>4, <2>5, VmChange
<1> QED
  BY <1>6, <1>7 DEF Upload, b

\* A step that leaves the blob alone and keeps v at its age.
LEMMA SameBlob ==
    ASSUME IInv, NEW v \in VMs, NEW r \in VM, vm' = [vm EXCEPT ![v] = r],
           UNCHANGED <<used, blob, reaperVars, clean>>,
           r.age = vm[v].age \/ ~ Working(v)', Working(v)' => Working(v),
           Shape(v)', Fresh(v)'
    PROVE  IInv'
<1>1. /\ blob' = [blob EXCEPT ![v] = blob[v]] /\ clean' \in BOOLEAN
      /\ blob[v] \in {NoBeat} \cup [stage : Lines, age : Ages]
      /\ vm'[v] = r
  BY DEF IInv, TypeOK
<1>2. Spared(v)'
  BY <1>1, StaysSpared
<1> QED
  BY <1>1, <1>2, VmChange

\* A working VM's beat: until it is uploaded, the previous one speaks for it.
LEMMA BeatIsFresh ==
    ASSUME IInv, NEW v \in VMs, UNCHANGED <<blob, clean>>,
           Working(v)' => Working(v), vm'[v].pend, vm'[v].age = vm[v].age
    PROVE  Fresh(v)'
BY DEF IInv, Fresh

LEMMA AdvanceStep ==
    ASSUME IInv, NEW v \in VMs, Advance(v)
    PROVE  IInv'
<1>1. PICK s \in {"tooling", "clone", "ready"} :
          vm' = [vm EXCEPT ![v] = Beat([vm[v] EXCEPT !.phase = s], s)]
  <2>1. vm[v].phase \in DOMAIN NextStage
    BY DEF Advance
  <2>2. NextStage[vm[v].phase] \in {"tooling", "clone", "ready"}
    BY <2>1 DEF NextStage
  <2> HIDE DEF NextStage
  <2> QED
    BY <2>2 DEF Advance
<1> DEFINE a == [vm[v] EXCEPT !.phase = s]
           r == Beat(a, s)
<1>2. /\ a \in VM /\ a.phase = s /\ a.age = vm[v].age /\ a.job = vm[v].job /\ s \in Lines
      /\ vm[v].phase \in Before
  BY DEF IInv, TypeOK, VM, Phases, Stages, Lines, Advance, NextStage, Before
<1> HIDE DEF a
<1>3. /\ r \in VM /\ r.phase = s /\ r.age = vm[v].age /\ r.job = vm[v].job /\ r.log = s
      /\ r.logAge = 0 /\ r.pend = TRUE
  BY <1>2, BeatFields
<1>4. vm' = [vm EXCEPT ![v] = r] /\ UNCHANGED <<used, blob, reaperVars, clean>>
  BY <1>1 DEF Advance, a
<1> HIDE DEF r
<1>5. vm'[v] = r /\ Shape(v) /\ vm[v].job = "none"
  BY <1>2, <1>4 DEF IInv, TypeOK, Shape
<1>6. Shape(v)'
  BY <1>2, <1>3, <1>4, <1>5 DEF Shape, Before, Stages, reaperVars
<1>7. Working(v)
  BY <1>2 DEF Working, Bootstrapping, Before, Stages
<1>8. Fresh(v)'
  BY <1>3, <1>4, <1>5, <1>7, BeatIsFresh
<1> QED
  BY <1>3, <1>4, <1>5, <1>6, <1>7, <1>8, SameBlob

LEMMA FailStep ==
    ASSUME IInv, NEW v \in VMs, Fail(v)
    PROVE  IInv'
<1> DEFINE a == [vm[v] EXCEPT !.phase = "failed"]
           b == Beat(a, "failed")
           r == [b EXCEPT !.pend = HasAzcopy(v)]
<1>1. /\ a \in VM /\ a.phase = "failed" /\ a.age = vm[v].age /\ a.job = vm[v].job
      /\ "failed" \in Lines /\ vm[v].phase \in Before
  BY DEF IInv, TypeOK, VM, Phases, Lines, Fail, NextStage, Before
<1> HIDE DEF a
<1>2. /\ b \in VM /\ b.phase = "failed" /\ b.age = vm[v].age /\ b.job = vm[v].job
      /\ b.log = "failed" /\ b.logAge = 0
  BY <1>1, BeatFields
<1>3. vm' = [vm EXCEPT ![v] = r] /\ UNCHANGED <<used, blob, reaperVars, clean>>
  BY DEF Fail, a
<1> HIDE DEF b
<1>4. HasAzcopy(v) \in BOOLEAN
  BY ReaperAssumption DEF HasAzcopy
<1>5. /\ r \in VM /\ r.phase = "failed" /\ r.age = vm[v].age /\ r.job = vm[v].job
      /\ r.log = "failed" /\ r.logAge = 0
  BY <1>2, <1>4 DEF VM
<1> HIDE DEF r
<1>6. vm'[v] = r /\ Shape(v) /\ vm[v].job = "none" /\ vm[v].phase # "absent"
  BY <1>1, <1>3 DEF IInv, TypeOK, Shape, Before
<1>7. Shape(v)'
  BY <1>3, <1>5, <1>6 DEF Shape, Before, Stages, reaperVars
<1>8. ~ Working(v)'
  BY <1>5, <1>6 DEF Working, Bootstrapping, Stages
<1> QED
  BY <1>3, <1>5, <1>7, <1>8, IdleIsSafe, SameBlob

LEMMA StartJobStep ==
    ASSUME Autostart, IInv, NEW v \in VMs, StartJob(v)
    PROVE  IInv'
<1> DEFINE r == [vm[v] EXCEPT !.job = "running"]
<1>1. /\ r \in VM /\ r.phase = "ready" /\ r.age = vm[v].age /\ r.job = "running"
      /\ r.log = vm[v].log /\ r.logAge = vm[v].logAge /\ r.pend = vm[v].pend
      /\ vm[v].phase = "ready" /\ ~vm[v].pend /\ vm[v].job = "none"
  BY DEF IInv, TypeOK, VM, StartJob
<1>2. vm' = [vm EXCEPT ![v] = r] /\ UNCHANGED <<used, blob, reaperVars, clean>>
  BY DEF StartJob
<1> HIDE DEF r
<1>3. vm'[v] = r /\ Shape(v) /\ Fresh(v) /\ Working(v)
  BY <1>1, <1>2 DEF IInv, TypeOK, Working, Bootstrapping, Stages
<1>4. Shape(v)'
  BY <1>1, <1>2, <1>3 DEF Shape, Before, Stages, reaperVars
<1>5. Fresh(v)'
  BY <1>1, <1>2, <1>3 DEF Fresh
<1> QED
  BY <1>1, <1>2, <1>3, <1>4, <1>5, SameBlob

LEMMA RunningStep ==
    ASSUME Autostart, IInv, NEW v \in VMs, Running(v)
    PROVE  IInv'
<1> DEFINE a == [vm[v] EXCEPT !.phase = "running"]
           r == Beat(a, "running")
<1>1. /\ a \in VM /\ a.phase = "running" /\ a.age = vm[v].age /\ a.job = vm[v].job
      /\ "running" \in Lines /\ vm[v].phase = "ready"
  BY DEF IInv, TypeOK, VM, Phases, Lines, Running
<1> HIDE DEF a
<1>2. /\ r \in VM /\ r.phase = "running" /\ r.age = vm[v].age /\ r.job = vm[v].job
      /\ r.log = "running" /\ r.logAge = 0 /\ r.pend = TRUE
  BY <1>1, BeatFields
<1>3. vm' = [vm EXCEPT ![v] = r] /\ UNCHANGED <<used, blob, reaperVars, clean>>
  BY DEF Running, a
<1> HIDE DEF r
<1>4. vm'[v] = r /\ Shape(v) /\ Working(v)
  BY <1>1, <1>3 DEF IInv, TypeOK, Working, Bootstrapping, Stages
<1>5. Shape(v)'
  BY <1>1, <1>2, <1>3, <1>4 DEF Shape, Before, Stages, reaperVars
<1>6. Fresh(v)'
  BY <1>2, <1>3, <1>4, BeatIsFresh
<1> QED
  BY <1>2, <1>3, <1>4, <1>5, <1>6, SameBlob

\* The job may end before bootstrap has announced it; the next beat follows all the same.
LEMMA JobExitStep ==
    ASSUME Autostart, IInv, NEW v \in VMs, JobExit(v)
    PROVE  IInv'
<1> DEFINE r == [vm[v] EXCEPT !.job = "exited", !.log = "job-exit"]
<1>1. /\ r \in VM /\ r.phase = vm[v].phase /\ r.age = vm[v].age /\ r.job = "exited"
      /\ r.logAge = vm[v].logAge /\ r.pend = vm[v].pend /\ r.due = vm[v].due
      /\ vm[v].job = "running"
  BY DEF IInv, TypeOK, VM, Lines, JobExit
<1>2. vm' = [vm EXCEPT ![v] = r] /\ UNCHANGED <<used, blob, reaperVars, clean>>
  BY DEF JobExit
<1> HIDE DEF r
<1>3. vm'[v] = r /\ Shape(v) /\ Fresh(v) /\ Working(v)
  BY <1>1, <1>2 DEF IInv, TypeOK, Working
<1>4. Shape(v)'
  BY <1>1, <1>2, <1>3 DEF Shape, Before, Stages, reaperVars
<1>5. Fresh(v)'
  BY <1>1, <1>2, <1>3 DEF Fresh
<1> QED
  BY <1>1, <1>2, <1>3, <1>4, <1>5, SameBlob

LEMMA AliveStep ==
    ASSUME IInv, NEW v \in VMs, Alive(v)
    PROVE  IInv'
<1> DEFINE a == [vm[v] EXCEPT !.due = FALSE]
           r == Beat(a, "alive")
<1>1. /\ a \in VM /\ a.phase = "running" /\ a.age = vm[v].age /\ a.job = vm[v].job
      /\ "alive" \in Lines /\ vm[v].phase = "running"
  BY DEF IInv, TypeOK, VM, Lines, Alive
<1> HIDE DEF a
<1>2. /\ r \in VM /\ r.phase = "running" /\ r.age = vm[v].age /\ r.job = vm[v].job
      /\ r.log = "alive" /\ r.logAge = 0 /\ r.pend = TRUE
  BY <1>1, BeatFields
<1>3. vm' = [vm EXCEPT ![v] = r] /\ UNCHANGED <<used, blob, reaperVars, clean>>
  BY DEF Alive, a
<1> HIDE DEF r
<1>4. vm'[v] = r /\ Shape(v)
  BY <1>1, <1>3 DEF IInv, TypeOK
<1>5. Working(v)' => Working(v)
  BY <1>1, <1>2, <1>4 DEF Working, Bootstrapping
<1>6. Shape(v)'
  BY <1>1, <1>2, <1>3, <1>4 DEF Shape, Before, Stages, reaperVars
<1>7. Fresh(v)'
  BY <1>2, <1>3, <1>4, <1>5, BeatIsFresh
<1> QED
  BY <1>2, <1>3, <1>4, <1>5, <1>6, <1>7, SameBlob

LEMMA HangStep ==
    ASSUME IInv, NEW v \in VMs, Hang(v)
    PROVE  IInv'
<1> DEFINE r == [vm[v] EXCEPT !.phase = "dead", !.pend = FALSE, !.due = FALSE,
                              !.job = IF vm[v].job = "running" THEN "none" ELSE vm[v].job]
<1>1. /\ r \in VM /\ r.phase = "dead" /\ r.pend = FALSE /\ r.job # "running"
      /\ vm[v].phase # "absent"
  BY DEF IInv, TypeOK, VM, Phases, Hang
<1>2. vm' = [vm EXCEPT ![v] = r] /\ UNCHANGED <<used, blob, reaperVars, clean>>
  BY DEF Hang
<1> HIDE DEF r
<1>3. vm'[v] = r /\ Shape(v)
  BY <1>2 DEF IInv, TypeOK
<1>4. Shape(v)' /\ ~ Working(v)'
  BY <1>1, <1>2, <1>3 DEF Shape, Before, Stages, Working, Bootstrapping, reaperVars
<1> QED
  BY <1>1, <1>2, <1>4, IdleIsSafe, SameBlob

LEMMA EvictStep ==
    ASSUME IInv, NEW v \in VMs, Evict(v)
    PROVE  IInv'
<1>1. vm' = [vm EXCEPT ![v] = Absent] /\ UNCHANGED <<used, blob, reaperVars, clean>>
  BY DEF Evict
<1>2. vm'[v] = Absent /\ Shape(v)
  BY <1>1 DEF IInv, TypeOK
<1>3. Shape(v)' /\ ~ Working(v)'
  BY <1>1, <1>2, AbsentFields DEF Shape, Before, Stages, Working, Bootstrapping, reaperVars
<1> QED
  BY <1>1, <1>3, AbsentFields, IdleIsSafe, SameBlob

-----------------------------------------------------------------------------
(* Time *)

\* A tick later a working VM's heartbeat is still no older than the thresholds allow.
LEMMA TickStep ==
    ASSUME Timing, IInv, Tick
    PROVE  IInv'
<1>1. /\ Deadline \in Nat /\ Stale \in Nat /\ MaxLag \in Nat /\ lag \in 0..MaxLag
      /\ TypeOK /\ clean' = clean /\ used' = used
      /\ UNCHANGED <<pc, seen, todo, doomed>>
  BY ReaperAssumption DEF IInv, TypeOK, Tick
<1>2. lag' \in 0..MaxLag /\ (pc # "idle" => lag' = lag + 1)
  <2>1. CASE pc = "idle"
    <3>1. lag' = 0
      BY <2>1 DEF Tick
    <3> QED
      BY <1>1, <2>1, <3>1
  <2>2. CASE pc # "idle"
    <3>1. lag' = lag + 1 /\ lag < MaxLag
      BY <2>2 DEF Tick
    <3> QED
      BY <1>1, <2>2, <3>1
  <2> QED
    BY <2>1, <2>2
<1>3. ASSUME NEW v \in VMs, vm[v].phase # "absent"
      PROVE  /\ vm'[v] \in VM /\ vm'[v].phase = vm[v].phase /\ vm'[v].job = vm[v].job
             /\ vm'[v].pend = vm[v].pend /\ vm'[v].log = vm[v].log
             /\ vm'[v].age = Older(vm[v].age) /\ vm'[v].logAge = Older(vm[v].logAge)
             /\ vm'[v].due = (vm[v].phase = "running")
  <2> DEFINE r == [vm[v] EXCEPT !.age = Older(vm[v].age), !.logAge = Older(vm[v].logAge),
                                !.due = vm[v].phase = "running"]
  <2>1. vm'[v] = r
    BY <1>3 DEF Tick
  <2>2. Older(vm[v].age) \in Ages /\ Older(vm[v].logAge) \in Ages
    BY <1>1, Fields, CapFacts
  <2>3. vm[v] \in VM
    BY <1>1, Fields
  <2> QED
    BY <2>1, <2>2, <2>3 DEF VM
<1>4. ASSUME NEW v \in VMs, vm[v].phase = "absent" PROVE vm'[v] = vm[v]
  BY <1>4 DEF Tick
<1>5. ASSUME NEW v \in VMs
      PROVE  /\ blob[v] = NoBeat => blob'[v] = NoBeat
             /\ blob[v] # NoBeat => /\ blob'[v] \in [stage : Lines, age : Ages]
                                   /\ blob'[v].stage = blob[v].stage
                                   /\ blob'[v].age = Older(blob[v].age)
  <2>1. CASE blob[v] # NoBeat
    <3>1. blob[v] \in [stage : Lines, age : Ages] /\ Older(blob[v].age) \in Ages
      BY <1>1, <2>1, CapFacts DEF TypeOK
    <3>2. blob'[v] = [blob[v] EXCEPT !.age = Older(blob[v].age)]
      BY <2>1 DEF Tick
    <3> QED
      BY <2>1, <3>1, <3>2
  <2> QED
    BY <2>1 DEF Tick
<1>6. TypeOK'
  <2>1. vm' \in [VMs -> VM]
    <3>1. \A v \in VMs : vm'[v] \in VM
      BY <1>1, <1>3, <1>4, Fields
    <3> QED
      BY <3>1 DEF Tick
  <2>2. blob' \in [VMs -> {NoBeat} \cup [stage : Lines, age : Ages]]
    <3>1. \A v \in VMs : blob'[v] \in {NoBeat} \cup [stage : Lines, age : Ages]
      BY <1>5
    <3> QED
      BY <3>1 DEF Tick
  <2> QED
    BY <1>1, <1>2, <2>1, <2>2 DEF TypeOK
<1>7. ASSUME NEW v \in VMs PROVE Shape(v)' /\ Fresh(v)' /\ Spared(v)'
  <2>1. Shape(v) /\ Fresh(v) /\ Spared(v)
    BY DEF IInv
  <2>2. /\ ~vm[v].pend /\ ~vm[v].due
        /\ vm[v].phase \in Stages => vm[v].logAge < Limit[vm[v].phase]
    BY DEF Tick, CanWait, Bootstrapping, Timing
  <2>3. CASE vm[v].phase = "absent"
    <3>1. ~ Working(v)'
      BY <1>4, <2>1, <2>3 DEF Shape, Working, Bootstrapping, Stages
    <3>2. Shape(v)'
      BY <1>1, <1>4, <1>5, <2>1, <2>3 DEF Shape, Before, Stages
    <3> QED
      BY <3>1, <3>2, IdleIsSafe
  <2>4. CASE vm[v].phase # "absent"
    <3>1. Shape(v)'
      BY <1>1, <1>3, <1>5, <2>1, <2>2, <2>4 DEF Shape, Before, Stages
    <3>2. Working(v)' <=> Working(v)
      BY <1>3, <2>4 DEF Working, Bootstrapping
    <3>3. vm[v].age \in Ages /\ vm[v].logAge \in Nat
      BY <1>1, Fields, CapFacts DEF Ages
    <3>4. ASSUME clean, Working(v), blob[v] = NoBeat
          PROVE  vm[v].age < Deadline /\ vm[v].phase = "start" /\ ~HasTool
      <4>1. vm[v].phase = "start" /\ ~HasTool
        BY <2>1, <2>2, <3>4 DEF Fresh
      <4>2. vm[v].age = vm[v].logAge /\ vm[v].logAge < Limit["start"] /\ Limit["start"] <= Deadline
        BY <2>1, <2>2, <4>1 DEF Shape, Stages, Timing
      <4>3. Limit["start"] \in Nat
        BY ReaperAssumption DEF Stages
      <4> QED
        BY <1>1, <3>3, <4>1, <4>2, <4>3
    <3>5. ASSUME clean, Working(v), blob[v] # NoBeat
          PROVE  /\ blob[v].stage # "job-exit" /\ blob[v].age \in Nat /\ blob[v].age < Stale
                 /\ vm[v].phase # "running" => blob[v].age = vm[v].logAge
      <4>1. blob[v].age \in Nat /\ blob[v].stage # "job-exit"
        BY <1>1, <2>1, <3>5, Fields, CapFacts DEF Fresh, Ages
      <4>2. CASE vm[v].phase = "running"
        BY <1>1, <2>1, <2>2, <3>5, <4>1, <4>2 DEF Fresh, Timing
      <4>3. CASE vm[v].phase # "running"
        <5>1. vm[v].phase \in Stages /\ blob[v].age = vm[v].logAge
          BY <2>1, <2>2, <3>5, <4>3 DEF Fresh, Working, Bootstrapping, Shape, Stages
        <5>2. vm[v].phase = "start" => HasTool
          BY <2>1, <3>5 DEF Shape
        <5>3. Limit[vm[v].phase] <= Stale
          BY <5>1, <5>2 DEF Timing
        <5>4. Limit[vm[v].phase] \in Nat
          BY <5>1, ReaperAssumption
        <5> QED
          BY <1>1, <2>2, <3>3, <4>1, <5>1, <5>3, <5>4
      <4> QED
        BY <4>1, <4>2, <4>3
    <3>6. Fresh(v)'
      <4> SUFFICES ASSUME clean, Working(v) PROVE Fresh(v)'
        BY <1>1, <3>2 DEF Fresh
      <4>1. CASE blob[v] = NoBeat
        <5>1. vm'[v].age = vm[v].age + 1
          BY <1>1, <1>3, <2>4, <3>3, <3>4, <4>1, CapFacts DEF Ages
        <5> QED
          BY <1>1, <1>3, <1>5, <2>4, <3>3, <3>4, <4>1, <5>1 DEF Fresh, Ages
      <4>2. CASE blob[v] # NoBeat
        <5>1. blob'[v].age = blob[v].age + 1 /\ blob'[v] # NoBeat
          BY <1>1, <1>5, <3>5, <4>2, CapFacts, NoBeatIsNoBlob
        <5>2. vm[v].phase # "running" => vm'[v].logAge = blob'[v].age
          BY <1>3, <1>5, <2>4, <3>5, <4>2
        <5>3. vm'[v].phase = vm[v].phase /\ (vm[v].phase = "running" => vm'[v].due)
          BY <1>3, <2>4
        <5>4. blob'[v].stage # "job-exit" /\ blob'[v].age <= Stale
          <6>1. blob'[v].stage = blob[v].stage
            BY <1>5, <4>2
          <6>2. blob'[v].age <= Stale
            BY <1>1, <3>5, <4>2, <5>1
          <6> QED
            BY <3>5, <4>2, <6>1, <6>2
        <5> QED
          BY <5>1, <5>2, <5>3, <5>4 DEF Fresh
      <4> QED
        BY <4>1, <4>2
    <3>7. Spared(v)'
      <4> SUFFICES ASSUME clean, Working(v) PROVE Spared(v)'
        BY <1>1, <3>2 DEF Spared
      <4>1. v \notin doomed'
        BY <1>1, <2>1 DEF Spared
      <4>2. ASSUME pc \in {"list", "judge"}, seen[v] = NoBeat
            PROVE  vm'[v].age - lag' <= Deadline
        <5>1. vm[v].age - lag <= Deadline /\ lag' = lag + 1
          BY <1>2, <2>1, <4>2 DEF Spared
        <5>2. vm'[v].age = vm[v].age + 1
          <6>1. vm[v].age \in Nat /\ vm[v].age < Cap
            BY <1>1, <3>3, <5>1, CapFacts DEF Ages
          <6>2. Older(vm[v].age) = vm[v].age + 1
            BY <6>1, CapFacts
          <6> QED
            BY <1>3, <2>4, <6>2
        <5> QED
          BY <1>1, <3>3, <5>1, <5>2 DEF Ages
      <4> QED
        BY <1>1, <2>1, <4>1, <4>2 DEF Spared
    <3> QED
      BY <3>1, <3>6, <3>7
  <2> QED
    BY <2>3, <2>4
<1> QED
  BY <1>1, <1>6, <1>7 DEF IInv

-----------------------------------------------------------------------------
(* The reaper *)

\* A step of the reaper that reads the VMs: their shape and freshness are not its concern.
LEMMA ReaderKeeps ==
    ASSUME IInv, NEW v \in VMs, UNCHANGED <<vm, used, blob>>, clean' => clean
    PROVE  /\ Fresh(v)' /\ (Working(v)' <=> Working(v))
           /\ (v \notin used => seen'[v] = NoBeat) => Shape(v)'
<1>1. Shape(v) /\ Fresh(v)
  BY DEF IInv
<1>2. Working(v)' <=> Working(v)
  BY DEF Working, Bootstrapping
<1>3. Fresh(v)'
  BY <1>1, <1>2 DEF Fresh
<1>4. (v \notin used => seen'[v] = NoBeat) => Shape(v)'
  BY <1>1 DEF Shape
<1> QED
  BY <1>2, <1>3, <1>4

LEMMA ReadClockStep ==
    ASSUME IInv, ReadClock
    PROVE  IInv'
<1>1. 0 \in 0..MaxLag
  BY ReaperAssumption
<1>2. TypeOK' /\ todo' \subseteq used' /\ doomed' \subseteq used'
  BY <1>1 DEF IInv, TypeOK, ReadClock
<1>3. ASSUME NEW v \in VMs PROVE Shape(v)' /\ Fresh(v)' /\ Spared(v)'
  <2>1. Shape(v) /\ Spared(v)
    BY DEF IInv
  <2>2. Fresh(v)' /\ (Working(v)' <=> Working(v)) /\ Shape(v)'
    BY <2>1, ReaderKeeps DEF ReadClock, Shape
  <2>3. Spared(v)'
    BY <2>1, <2>2 DEF Spared, ReadClock
  <2> QED
    BY <2>2, <2>3
<1> QED
  BY <1>2, <1>3 DEF IInv

\* The heartbeats are downloaded after the clock was read: at that reading they were younger.
LEMMA DownloadStep ==
    ASSUME IInv, Download
    PROVE  IInv'
<1>1. /\ MaxLag \in Nat /\ Stale \in Nat /\ Deadline \in Nat /\ Cap \in Nat
      /\ lag \in 0..MaxLag /\ clean \in BOOLEAN /\ TypeOK
      /\ UNCHANGED <<vm, used, blob, lag, todo, doomed>> /\ pc' = "list"
  BY ReaperAssumption, CapFacts DEF IInv, TypeOK, Download
<1>2. CASE /\ seen' = [v \in VMs |-> IF blob[v] = NoBeat THEN NoBeat
                                       ELSE [blob[v] EXCEPT !.age = @ - lag]]
           /\ clean' = clean
  <2>1. ASSUME NEW v \in VMs
        PROVE  /\ blob[v] = NoBeat => seen'[v] = NoBeat
               /\ blob[v] # NoBeat => /\ seen'[v] \in [stage : Lines, age : -MaxLag..Cap]
                                      /\ seen'[v].stage = blob[v].stage
                                      /\ seen'[v].age = blob[v].age - lag
    <3>1. CASE blob[v] # NoBeat
      <4>1. blob[v] \in [stage : Lines, age : Ages] /\ seen'[v] = [blob[v] EXCEPT !.age = @ - lag]
        BY <1>1, <1>2, <3>1 DEF TypeOK
      <4>2. blob[v].age - lag \in -MaxLag..Cap
        BY <1>1, <4>1 DEF Ages
      <4> QED
        BY <3>1, <4>1, <4>2
    <3> QED
      BY <1>2, <3>1
  <2>2. seen' \in [VMs -> {NoBeat} \cup [stage : Lines, age : -MaxLag..Cap]]
    <3>1. \A v \in VMs : seen'[v] \in {NoBeat} \cup [stage : Lines, age : -MaxLag..Cap]
      BY <2>1
    <3> QED
      BY <1>2, <3>1
  <2>3. TypeOK' /\ todo' \subseteq used' /\ doomed' \subseteq used'
    BY <1>1, <1>2, <2>2 DEF IInv, TypeOK
  <2>4. ASSUME NEW v \in VMs PROVE Shape(v)' /\ Fresh(v)' /\ Spared(v)'
    <3>1. Shape(v) /\ Fresh(v) /\ Spared(v)
      BY DEF IInv
    <3>2. Fresh(v)' /\ (Working(v)' <=> Working(v)) /\ Shape(v)'
      BY <1>1, <1>2, <2>1, <3>1, ReaderKeeps DEF Shape
    <3>3. ASSUME clean, Working(v), blob[v] = NoBeat
          PROVE  seen'[v] = NoBeat /\ vm[v].age - lag <= Deadline
      BY <1>1, <2>1, <3>1, <3>3, Fields DEF Fresh, Ages
    <3>4. ASSUME clean, Working(v), blob[v] # NoBeat
          PROVE  /\ seen'[v] # NoBeat
                 /\ seen'[v].stage # "job-exit" /\ seen'[v].age <= Stale
      <4>1. blob[v].stage # "job-exit" /\ blob[v].age <= Stale /\ blob[v].age \in Ages
        BY <1>1, <3>1, <3>4, Fields DEF Fresh
      <4>2. seen'[v] # NoBeat
        BY <2>1, <3>4, NoBeatAssumption
      <4> QED
        BY <1>1, <2>1, <3>4, <4>1, <4>2 DEF Ages
    <3>5. Spared(v)'
      BY <1>1, <1>2, <3>1, <3>2, <3>3, <3>4 DEF Spared
    <3> QED
      BY <3>2, <3>5
  <2> QED
    BY <2>3, <2>4 DEF IInv
<1>3. CASE seen' = [v \in VMs |-> NoBeat] /\ clean' = FALSE
  <2>1. TypeOK' /\ todo' \subseteq used' /\ doomed' \subseteq used'
    BY <1>1, <1>3 DEF IInv, TypeOK
  <2>2. ASSUME NEW v \in VMs PROVE Shape(v)' /\ Fresh(v)' /\ Spared(v)'
    BY <1>1, <1>3, ReaderKeeps DEF Fresh, Spared
  <2> QED
    BY <2>1, <2>2 DEF IInv
<1> QED
  BY <1>2, <1>3 DEF Download

\* What is listed exists, or existed.
LEMMA ListStep ==
    ASSUME IInv, NEW vms \in SUBSET used, ListVms(vms)
    PROVE  IInv'
<1>1. TypeOK' /\ todo' \subseteq used' /\ doomed' \subseteq used'
  BY DEF IInv, TypeOK, ListVms
<1>2. ASSUME NEW v \in VMs PROVE Shape(v)' /\ Fresh(v)' /\ Spared(v)'
  <2>1. Shape(v) /\ Spared(v)
    BY DEF IInv
  <2>2. Fresh(v)' /\ (Working(v)' <=> Working(v)) /\ Shape(v)'
    BY <2>1, ReaderKeeps DEF ListVms, Shape
  <2>3. Spared(v)'
    BY <2>1, <2>2 DEF Spared, ListVms
  <2> QED
    BY <2>2, <2>3
<1> QED
  BY <1>1, <1>2 DEF IInv

\* A verdict that spares a working VM keeps the invariant.
LEMMA VerdictStep ==
    ASSUME IInv, NEW v \in VMs, NEW created, Verdict(v, created),
           clean' \in BOOLEAN, clean' => clean,
           clean' /\ Working(v) => ~Condemned(v, created)
    PROVE  IInv'
<1>1. /\ todo' \subseteq todo /\ doomed' \subseteq doomed \cup {v} /\ v \in used
      /\ Condemned(v, created) \/ doomed' = doomed
      /\ UNCHANGED <<vm, used, blob, pc, lag, seen>>
  BY DEF Verdict, First, IInv
<1>2. TypeOK' /\ todo' \subseteq used' /\ doomed' \subseteq used'
  BY <1>1 DEF IInv, TypeOK
<1>3. ASSUME NEW w \in VMs PROVE Shape(w)' /\ Fresh(w)' /\ Spared(w)'
  <2>1. Shape(w) /\ Spared(w)
    BY DEF IInv
  <2>2. Fresh(w)' /\ (Working(w)' <=> Working(w)) /\ Shape(w)'
    BY <1>1, <2>1, ReaderKeeps DEF Shape
  <2>3. Spared(w)'
    BY <1>1, <2>1, <2>2 DEF Spared
  <2> QED
    BY <2>2, <2>3
<1> QED
  BY <1>2, <1>3 DEF IInv

LEMMA JudgeStep ==
    ASSUME IInv, NEW v \in VMs, Judge(v)
    PROVE  IInv'
<1>1. Verdict(v, vm[v].age - lag) /\ clean' = clean /\ pc = "judge" /\ clean \in BOOLEAN
  BY DEF Judge, Verdict, IInv, TypeOK
<1>2. ASSUME clean, Working(v) PROVE ~Condemned(v, vm[v].age - lag)
  <2>1. IF seen[v] = NoBeat THEN vm[v].age - lag <= Deadline
        ELSE seen[v].stage # "job-exit" /\ seen[v].age <= Stale
    BY <1>1, <1>2 DEF IInv, Spared
  <2>2. /\ vm[v].age \in Int /\ lag \in Int /\ Deadline \in Int /\ Stale \in Int
        /\ seen[v] # NoBeat => seen[v].age \in Int
    <3>1. TypeOK /\ MaxLag \in Nat /\ Cap \in Nat
      BY ReaperAssumption, CapFacts DEF IInv
    <3> QED
      BY <3>1, Fields, ReaperAssumption DEF TypeOK, Ages
  <2>3. CASE seen[v] = NoBeat
    BY <2>1, <2>2, <2>3 DEF Condemned
  <2>4. CASE seen[v] # NoBeat
    BY <2>1, <2>2, <2>4 DEF Condemned
  <2> QED
    BY <2>3, <2>4
<1> QED
  BY <1>1, <1>2, VerdictStep

LEMMA JudgeUnshownStep ==
    ASSUME IInv, NEW v \in VMs, JudgeUnshown(v)
    PROVE  IInv'
<1>1. /\ Verdict(v, Cap) /\ clean \in BOOLEAN /\ clean' = (clean /\ vm[v].phase = "absent")
  BY DEF JudgeUnshown, IInv, TypeOK
<1>2. vm[v].phase = "absent" => ~Working(v)
  BY DEF IInv, Shape, Working, Bootstrapping, Stages
<1> QED
  BY <1>1, <1>2, VerdictStep

LEMMA JudgedStep ==
    ASSUME IInv, Judged
    PROVE  IInv'
<1>1. TypeOK' /\ todo' \subseteq used' /\ doomed' \subseteq used'
  BY DEF IInv, TypeOK, Judged
<1>2. ASSUME NEW v \in VMs PROVE Shape(v)' /\ Fresh(v)' /\ Spared(v)'
  <2>1. Shape(v) /\ Spared(v)
    BY DEF IInv
  <2>2. Fresh(v)' /\ (Working(v)' <=> Working(v)) /\ Shape(v)'
    BY <2>1, ReaderKeeps DEF Judged, Shape
  <2>3. Spared(v)'
    BY <2>1, <2>2 DEF Spared, Judged
  <2> QED
    BY <2>2, <2>3
<1> QED
  BY <1>1, <1>2 DEF IInv

LEMMA DeleteStep ==
    ASSUME IInv, NEW v \in VMs, Delete(v)
    PROVE  IInv'
<1>1. /\ vm' = [vm EXCEPT ![v] = Absent] /\ doomed' \subseteq doomed
      /\ UNCHANGED <<used, blob, pc, lag, seen, todo, clean>>
  BY DEF Delete
<1>2. TypeOK' /\ todo' \subseteq used' /\ doomed' \subseteq used'
  BY <1>1, AbsentFields DEF IInv, TypeOK
<1>3. ASSUME NEW w \in VMs PROVE Shape(w)' /\ Fresh(w)' /\ Spared(w)'
  <2>1. Shape(w) /\ Fresh(w) /\ Spared(w)
    BY DEF IInv
  <2>2. CASE w = v
    <3>1. vm'[w] = Absent
      BY <1>1, <2>2 DEF IInv, TypeOK
    <3>2. Shape(w)' /\ ~Working(w)'
      BY <1>1, <2>1, <3>1, AbsentFields DEF Shape, Before, Stages, Working, Bootstrapping
    <3> QED
      BY <3>2, IdleIsSafe
  <2>3. CASE w # v
    <3>1. vm'[w] = vm[w]
      BY <1>1, <2>3 DEF IInv, TypeOK
    <3>2. Shape(w)' /\ (Working(w)' <=> Working(w))
      BY <1>1, <2>1, <3>1 DEF Shape, Working, Bootstrapping
    <3>3. Fresh(w)'
      BY <1>1, <2>1, <3>1, <3>2 DEF Fresh
    <3>4. Spared(w)'
      BY <1>1, <2>1, <3>1, <3>2 DEF Spared
    <3> QED
      BY <3>2, <3>3, <3>4
  <2> QED
    BY <2>2, <2>3
<1> QED
  BY <1>2, <1>3 DEF IInv

LEMMA EndRunStep ==
    ASSUME IInv, EndRun
    PROVE  IInv'
<1>1. 0 \in 0..MaxLag
  BY ReaperAssumption
<1>2. TypeOK' /\ todo' \subseteq used' /\ doomed' \subseteq used'
  BY <1>1 DEF IInv, TypeOK, EndRun
<1>3. ASSUME NEW v \in VMs PROVE Shape(v)' /\ Fresh(v)' /\ Spared(v)'
  <2>1. Shape(v) /\ Spared(v)
    BY DEF IInv
  <2>2. Fresh(v)' /\ (Working(v)' <=> Working(v)) /\ Shape(v)'
    BY <2>1, ReaderKeeps DEF EndRun
  <2>3. Spared(v)'
    BY <2>1, <2>2 DEF Spared, EndRun
  <2> QED
    BY <2>2, <2>3
<1> QED
  BY <1>2, <1>3 DEF IInv

-----------------------------------------------------------------------------
(* The system *)

LEMMA InitInv == Init => IInv
<1> SUFFICES ASSUME Init PROVE IInv
  OBVIOUS
<1>1. TypeOK /\ todo \subseteq used /\ doomed \subseteq used
  BY AbsentFields, LostFields, ReaperAssumption DEF Init, TypeOK
<1>2. ASSUME NEW v \in VMs PROVE Shape(v) /\ Fresh(v) /\ Spared(v)
  <2>1. /\ vm[v] = (IF v \in Broken THEN Lost ELSE Absent)
        /\ blob[v] = NoBeat /\ seen[v] = NoBeat /\ pc = "idle" /\ todo = {} /\ doomed = {}
        /\ used = Broken
    BY DEF Init
  <2>2. CASE v \in Broken
    BY <2>1, <2>2, LostFields
       DEF Shape, Fresh, Spared, Working, Bootstrapping, Stages, Before
  <2>3. CASE v \notin Broken
    BY <2>1, <2>3, AbsentFields
       DEF Shape, Fresh, Spared, Working, Bootstrapping, Stages, Before
  <2> QED
    BY <2>2, <2>3
<1> QED
  BY <1>1, <1>2 DEF IInv

LEMMA StutterInv ==
    ASSUME IInv, UNCHANGED vars
    PROVE  IInv'
<1>1. TypeOK' /\ todo' \subseteq used' /\ doomed' \subseteq used'
  BY DEF IInv, TypeOK, vars, reaperVars
<1>2. ASSUME NEW v \in VMs PROVE Shape(v)' /\ Fresh(v)' /\ Spared(v)'
  <2>1. Shape(v) /\ Spared(v)
    BY DEF IInv
  <2>2. Fresh(v)' /\ (Working(v)' <=> Working(v)) /\ Shape(v)'
    BY <2>1, ReaderKeeps DEF vars, reaperVars, Shape
  <2>3. Spared(v)'
    BY <2>1, <2>2 DEF Spared, vars, reaperVars
  <2> QED
    BY <2>2, <2>3
<1> QED
  BY <1>1, <1>2 DEF IInv

LEMMA NextInv ==
    ASSUME ~Relaunch, Timing, IInv, [Next]_vars
    PROVE  IInv'
<1>1. ASSUME NEW v \in VMs, VmStep(v) \/ StartJob(v) PROVE IInv'
  BY <1>1, UploadStep, AdvanceStep, StartJobStep, RunningStep, AliveStep DEF VmStep, Timing
<1>2. ASSUME ReaperStep PROVE IInv'
  <2>1. CASE List
    <3>1. Existing \in SUBSET used
      BY DEF IInv, Shape, Existing
    <3> QED
      BY <2>1, <3>1, ListStep DEF List
  <2>2. CASE ListFails
    <3>1. {} \in SUBSET used
      OBVIOUS
    <3> QED
      BY <2>2, <3>1, ListStep DEF ListFails
  <2>3. ASSUME NEW v \in VMs, Judge(v) \/ JudgeUnshown(v) \/ Delete(v) \/ DeleteFails(v)
        PROVE  IInv'
    BY <2>3, JudgeStep, JudgeUnshownStep, DeleteStep, EndRunStep DEF DeleteFails
  <2> QED
    BY <1>2, <2>1, <2>2, <2>3, ReadClockStep, DownloadStep, JudgedStep, EndRunStep
       DEF ReaperStep, Reaped
<1>3. ASSUME NEW v \in VMs,
             Create(v) \/ Fail(v) \/ JobExit(v) \/ Hang(v) \/ Evict(v)
      PROVE  IInv'
  BY <1>3, CreateStep, FailStep, JobExitStep, HangStep, EvictStep DEF Timing
<1>4. CASE UNCHANGED vars
  BY <1>4, StutterInv
<1> QED
  BY <1>1, <1>2, <1>3, <1>4, TickStep DEF Next

LEMMA Invariance ==
    ASSUME ~Relaunch, Timing
    PROVE  Spec => []IInv
<1>1. IInv /\ [Next]_vars => IInv'
  BY NextInv
<1> QED
  BY <1>1, InitInv, PTL DEF Spec

\* Whatever the number of VMs, the thresholds and the time a run of the reaper takes: while no
\* call has failed, no VM is deleted whose bootstrap advances or whose job runs (neither of
\* the two conditions of reap.sh:10-13), provided that names are not used again, that azcopy is
\* installed within the deadline and that no later stage outlasts STALE_MIN.
THEOREM WorkingSparedAlways ==
    ASSUME ~Relaunch, Timing
    PROVE  Spec => WorkingSpared
<1>1. IInv => \A v \in VMs : Delete(v) /\ clean => ~Working(v)
  BY DEF IInv, Spared, Delete, First
<1>2. IInv => [\A v \in VMs : Delete(v) /\ clean => ~Working(v)]_vars
  BY <1>1
<1> QED
  BY <1>2, Invariance, PTL DEF WorkingSpared
==============================================================================
