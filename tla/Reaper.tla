------------------------------- MODULE Reaper -------------------------------
(***************************************************************************)
(* The heartbeats of azure/bootstrap.sh and the reaper azure/reap.sh that  *)
(* deletes VMs by them, run with DRY_RUN=0.  A VM appends each stage to a  *)
(* local log and uploads the log as heartbeat/<name>.log; the job it       *)
(* starts appends job-exit to the same log and uploads nothing.            *)
(*                                                                         *)
(* Time passes in ticks, long enough for one `alive` beat.  An age counts  *)
(* ticks up to Cap, past which no decision depends on it.  Stages scratch  *)
(* and watcher are part of "start", deps is part of "clone".               *)
(***************************************************************************)
EXTENDS Integers

CONSTANTS
    VMs,          \* VM names, each by its place in what az vm list prints
    Broken,       \* those of a VM that has failed before azcopy was there
    NoBeat,       \* no heartbeat blob
    Deadline,     \* DEADLINE_MIN, in ticks
    Stale,        \* STALE_MIN
    Limit,        \* how long a bootstrap stage takes at most, when it works
    MaxLag,       \* how long one run of the reaper takes at most
    HasTool,      \* whether the image comes with azcopy
    Autostart,    \* whether bootstrap starts the job (SOE_CONFIG is set), or an operator does
    Relaunch,     \* whether names are used again (launch.sh run anew after an eviction)
    UploadsFail,  \* whether a heartbeat's upload may fail
    AzFails,      \* whether the reaper's downloads and queries may fail
    DeletesFail   \* whether its deletions may

Stages == {"start", "tooling", "clone", "ready"}

ASSUME ReaperAssumption ==
    /\ VMs \subseteq Nat /\ Broken \subseteq VMs
    /\ Deadline \in Nat /\ Stale \in Nat /\ MaxLag \in Nat
    /\ Limit \in [Stages -> Nat]
    /\ {HasTool, Autostart, Relaunch, UploadsFail, AzFails, DeletesFail} \subseteq BOOLEAN

VARIABLES
    vm,     \* per name: the VM of that name, see VM below
    used,   \* the names that were ever given to a VM
    blob,   \* heartbeat/<name>.log: its last line's stage and age, or NoBeat
    pc,     \* where a run of reap.sh stands
    lag,    \* ticks since that run read the clock
    seen,   \* the last lines it downloaded, with their age at its clock reading
    todo,   \* VMs it listed and has not judged
    doomed, \* VMs it will delete
    clean   \* history: no call that a verdict rests on has failed (upload, download, az show)

vars == <<vm, used, blob, pc, lag, seen, todo, doomed, clean>>
reaperVars == <<pc, lag, seen, todo, doomed>>

AtLeast(x, y) == IF x > y THEN x ELSE y
Cap == AtLeast(Deadline, Stale) + MaxLag + 1
Ages == 0..Cap

Phases == Stages \cup {"absent", "running", "failed", "dead"}
Lines == Stages \cup {"running", "failed", "alive", "job-exit"}

ASSUME NoBeatAssumption == NoBeat \notin [stage : Lines, age : -MaxLag..Cap]

VM == [phase : Phases,                                  \* the stage bootstrap reached
       age : Ages,                                      \* since timeCreated
       log : Lines,                                     \* last line of the local log
       logAge : Ages,                                   \* since that line's stamp
       pend : BOOLEAN,                                  \* inside beat, before the upload
       due : BOOLEAN,                                   \* the alive loop's sleep is over
       job : {"none", "running", "exited"}]             \* launch_node.sh

Absent == [phase |-> "absent", age |-> 0, log |-> "start", logAge |-> 0,
           pend |-> FALSE, due |-> FALSE, job |-> "none"]

\* A VM just created, whose bootstrap has failed at once.
Lost == [phase |-> "failed", age |-> 0, log |-> "failed", logAge |-> 0,
         pend |-> FALSE, due |-> FALSE, job |-> "none"]

TypeOK ==
    /\ vm \in [VMs -> VM] /\ used \subseteq VMs
    /\ blob \in [VMs -> {NoBeat} \cup [stage : Lines, age : Ages]]
    /\ seen \in [VMs -> {NoBeat} \cup [stage : Lines, age : -MaxLag..Cap]]
    /\ pc \in {"idle", "download", "list", "judge", "delete"} /\ lag \in 0..MaxLag
    /\ todo \subseteq VMs /\ doomed \subseteq VMs /\ clean \in BOOLEAN

Init ==
    /\ vm = [v \in VMs |-> IF v \in Broken THEN Lost ELSE Absent] /\ used = Broken
    /\ blob = [v \in VMs |-> NoBeat]
    /\ pc = "idle" /\ lag = 0 /\ seen = [v \in VMs |-> NoBeat]
    /\ todo = {} /\ doomed = {}
    /\ clean = TRUE

-----------------------------------------------------------------------------
(* The VM. *)

\* Without autostart bootstrap ends with the beat `ready`.
Bootstrapping(v) ==
    vm[v].phase \in Stages /\ (Autostart \/ vm[v].phase # "ready" \/ vm[v].pend)

\* The first half of beat: the line is in the local log, its upload is to come.
Beat(r, stage) == [r EXCEPT !.log = stage, !.logAge = 0, !.pend = TRUE]

\* az vm create, and bootstrap's first beat.
Create(v) ==
    /\ vm[v].phase = "absent" /\ (v \notin used \/ Relaunch)
    /\ vm' = [vm EXCEPT ![v] = Beat([Absent EXCEPT !.phase = "start"], "start")]
    /\ used' = used \cup {v}
    /\ UNCHANGED <<blob, reaperVars, clean>>

HasAzcopy(v) == HasTool \/ vm[v].phase # "start"

\* The second half of beat: azcopy uploads the log as it is by now, if azcopy is there.
Upload(v) ==
    /\ vm[v].pend
    /\ vm' = [vm EXCEPT ![v].pend = FALSE]
    /\ \/ /\ HasAzcopy(v)
          /\ blob' = [blob EXCEPT ![v] = [stage |-> vm[v].log, age |-> vm[v].logAge]]
          /\ UNCHANGED clean
       \/ /\ UploadsFail \/ ~HasAzcopy(v)
          /\ clean' = (clean /\ ~HasAzcopy(v))
          /\ UNCHANGED blob
    /\ UNCHANGED <<used, reaperVars>>

NextStage == [start |-> "tooling", tooling |-> "clone", clone |-> "ready"]

\* A stage is done and the next one beats.
Advance(v) ==
    /\ vm[v].phase \in DOMAIN NextStage /\ ~vm[v].pend
    /\ LET s == NextStage[vm[v].phase]
       IN  vm' = [vm EXCEPT ![v] = Beat([@ EXCEPT !.phase = s], s)]
    /\ UNCHANGED <<used, blob, reaperVars, clean>>

\* A command of bootstrap fails: beat failed (or no-gpu), and the script exits.  Before
\* azcopy is installed nothing is published.
Fail(v) ==
    /\ vm[v].phase \in DOMAIN NextStage /\ ~vm[v].pend
    /\ vm' = [vm EXCEPT ![v] =
                [Beat([@ EXCEPT !.phase = "failed"], "failed") EXCEPT !.pend = HasAzcopy(v)]]
    /\ UNCHANGED <<used, blob, reaperVars, clean>>

\* The job starts: in a detached child of bootstrap, or by hand over ssh.
StartJob(v) ==
    /\ vm[v].phase = "ready" /\ ~vm[v].pend /\ vm[v].job = "none"
    /\ vm' = [vm EXCEPT ![v].job = "running"]
    /\ UNCHANGED <<used, blob, reaperVars, clean>>

\* Bootstrap beats `running` and leaves the alive loop behind.
Running(v) ==
    /\ Autostart
    /\ vm[v].phase = "ready" /\ vm[v].job # "none"
    /\ vm' = [vm EXCEPT ![v] = Beat([@ EXCEPT !.phase = "running"], "running")]
    /\ UNCHANGED <<used, blob, reaperVars, clean>>

\* The job ends: bootstrap's child appends a line and uploads nothing.  (The line is stamped with
\* the time of the autostart; the reaper does not look at the stamp of this line.)
JobExit(v) ==
    /\ vm[v].job = "running"
    /\ vm' = [vm EXCEPT ![v].job = "exited", ![v].log = IF Autostart THEN "job-exit" ELSE @]
    /\ UNCHANGED <<used, blob, reaperVars, clean>>

\* while :; do sleep 60; beat alive; done
Alive(v) ==
    /\ vm[v].phase = "running" /\ vm[v].due /\ ~vm[v].pend
    /\ vm' = [vm EXCEPT ![v] = Beat([@ EXCEPT !.due = FALSE], "alive")]
    /\ UNCHANGED <<used, blob, reaperVars, clean>>

\* The machine hangs with everything on it.
Hang(v) ==
    /\ vm[v].phase \notin {"absent", "dead"}
    /\ vm' = [vm EXCEPT ![v].phase = "dead", ![v].pend = FALSE, ![v].due = FALSE,
                        ![v].job = IF @ = "running" THEN "none" ELSE @]
    /\ UNCHANGED <<used, blob, reaperVars, clean>>

\* Spot eviction with --eviction-policy Delete.
Evict(v) ==
    /\ vm[v].phase # "absent"
    /\ vm' = [vm EXCEPT ![v] = Absent]
    /\ UNCHANGED <<used, blob, reaperVars, clean>>

-----------------------------------------------------------------------------
(* Time: it passes while no beat is on its way, no alive beat is due and no working stage
   is over its limit. *)

CanWait(v) ==
    /\ ~vm[v].pend /\ ~vm[v].due
    /\ Bootstrapping(v) => vm[v].logAge < Limit[vm[v].phase]

Older(n) == IF n < Cap THEN n + 1 ELSE Cap

Tick ==
    /\ \A v \in VMs : CanWait(v)
    /\ pc # "idle" => lag < MaxLag
    /\ vm' = [v \in VMs |-> IF vm[v].phase = "absent" THEN vm[v] ELSE
                [vm[v] EXCEPT !.age = Older(@), !.logAge = Older(@),
                              !.due = vm[v].phase = "running"]]
    /\ blob' = [v \in VMs |-> IF blob[v] = NoBeat THEN NoBeat
                              ELSE [blob[v] EXCEPT !.age = Older(@)]]
    /\ lag' = IF pc = "idle" THEN 0 ELSE lag + 1
    /\ UNCHANGED <<used, pc, seen, todo, doomed, clean>>

-----------------------------------------------------------------------------
(* reap.sh. *)

\* now=$(date)
ReadClock ==
    /\ pc = "idle" /\ pc' = "download" /\ lag' = 0
    /\ UNCHANGED <<vm, used, blob, seen, todo, doomed, clean>>

\* azcopy copy heartbeat/*, || true: a failure leaves an empty directory.
Download ==
    /\ pc = "download" /\ pc' = "list"
    /\ \/ /\ seen' = [v \in VMs |-> IF blob[v] = NoBeat THEN NoBeat
                                    ELSE [blob[v] EXCEPT !.age = @ - lag]]
          /\ UNCHANGED clean
       \/ /\ AzFails
          /\ seen' = [v \in VMs |-> NoBeat]
          /\ clean' = FALSE
    /\ UNCHANGED <<vm, used, blob, lag, todo, doomed>>

\* az vm list; when it fails, the group looks empty.
ListVms(vms) ==
    /\ pc = "list" /\ pc' = "judge"
    /\ todo' = vms
    /\ UNCHANGED <<vm, used, blob, lag, seen, doomed, clean>>

Existing == {v \in VMs : vm[v].phase # "absent"}
List == ListVms(Existing)
ListFails == AzFails /\ ListVms({})

\* Mutant: the stale test is off by one.
CondemnedEarly(v, created) ==
    IF seen[v] = NoBeat THEN created > Deadline
    ELSE seen[v].stage = "job-exit" \/ seen[v].age >= Stale

\* Mutant: a VM without heartbeat is waited for whatever its age.
CondemnedSeen(v, created) ==
    seen[v] # NoBeat /\ (seen[v].stage = "job-exit" \/ seen[v].age > Stale)

\* The verdict on a VM created `created` ticks before the clock reading.
Condemned(v, created) ==
    IF seen[v] = NoBeat THEN created > Deadline
    ELSE seen[v].stage = "job-exit" \/ seen[v].age > Stale

\* Both loops go through the VMs in the order of the listing.
First(v, vms) == v \in vms /\ \A w \in vms : v <= w

\* One turn of the loop.
Verdict(v, created) ==
    /\ pc = "judge" /\ First(v, todo)
    /\ todo' = todo \ {v}
    /\ doomed' = IF Condemned(v, created) THEN doomed \cup {v} ELSE doomed
    /\ UNCHANGED <<vm, used, blob, pc, lag, seen>>

Judge(v) ==
    /\ vm[v].phase # "absent"
    /\ Verdict(v, vm[v].age - lag)
    /\ UNCHANGED clean

\* az vm show says nothing, perhaps because the VM is gone: it counts as 9999 minutes old.
JudgeUnshown(v) ==
    /\ vm[v].phase = "absent" \/ AzFails
    /\ Verdict(v, Cap)
    /\ clean' = (clean /\ vm[v].phase = "absent")

Judged ==
    /\ pc = "judge" /\ todo = {} /\ pc' = "delete"
    /\ UNCHANGED <<vm, used, blob, lag, seen, todo, doomed, clean>>

EndRun ==
    /\ pc' = "idle" /\ lag' = 0 /\ seen' = [v \in VMs |-> NoBeat] /\ doomed' = {}
    /\ UNCHANGED <<vm, used, blob, todo, clean>>

\* az vm delete, by name.
Delete(v) ==
    /\ pc = "delete" /\ First(v, doomed)
    /\ vm' = [vm EXCEPT ![v] = Absent]
    /\ doomed' = doomed \ {v}
    /\ UNCHANGED <<used, blob, pc, lag, seen, todo, clean>>

\* az vm delete fails: set -e ends the run, and the VMs after v stay for the next one.
DeleteFails(v) ==
    /\ pc = "delete" /\ First(v, doomed)
    /\ DeletesFail \/ vm[v].phase = "absent"
    /\ EndRun

Reaped ==
    /\ pc = "delete" /\ doomed = {}
    /\ EndRun

-----------------------------------------------------------------------------
VmStep(v) ==
    \/ Upload(v) \/ Advance(v) \/ Running(v) \/ Alive(v)
    \/ Autostart /\ StartJob(v)

ReaperStep ==
    \/ ReadClock \/ Download \/ List \/ ListFails \/ Judged \/ Reaped
    \/ \E v \in VMs : Judge(v) \/ JudgeUnshown(v) \/ Delete(v) \/ DeleteFails(v)

Next ==
    \/ \E v \in VMs : \/ Create(v) \/ VmStep(v) \/ StartJob(v) \/ JobExit(v)
                      \/ Fail(v) \/ Hang(v) \/ Evict(v)
    \/ ReaperStep
    \/ Tick

Spec == Init /\ [][Next]_vars

\* What is scheduled happens: the scripts go on, time passes, and the operator runs the
\* reaper again and again, and not every az vm list fails, nor every az vm delete of one VM.
FairSpec ==
    /\ Spec
    /\ \A v \in VMs : WF_vars(VmStep(v))
    /\ WF_vars(ReaperStep) /\ SF_vars(List) /\ SF_vars(Tick)
    /\ \A v \in VMs : SF_vars(Delete(v))

-----------------------------------------------------------------------------
Working(v) == Bootstrapping(v) \/ vm[v].job = "running"

\* As long as no call failed, no VM is deleted while its bootstrap advances or its job runs
\* (reap.sh:10-13).
WorkingSpared == [][\A v \in VMs : Delete(v) /\ clean => ~Working(v)]_vars

\* The reaper deletes VMs "that are billing but not working" (reap.sh:2), whatever failed: not
\* so when the download of the heartbeats does.
OnlyIdleReaped == [][\A v \in VMs : Delete(v) => ~Working(v)]_vars

\* A VM whose bootstrap failed or that hangs is deleted in the end, whether it ever published
\* a heartbeat or not, although a deletion that fails leaves every VM after it to a later run
\* (bootstrap.sh:15-20, reap.sh:85-88).
DeadReaped ==
    \A v \in VMs : vm[v].phase \in {"failed", "dead"} ~> vm[v].phase = "absent"

\* A VM whose job is over is deleted in the end (reap.sh:15-16, bootstrap.sh:20).
FinishedReaped == \A v \in VMs : vm[v].job = "exited" ~> vm[v].phase = "absent"

=============================================================================
