--------------------------- MODULE ManifestElection ---------------------------
(***************************************************************************)
(* How the VMs of a fleet come to generate from one problem manifest.      *)
(*                                                                         *)
(* problem_idx is a position in the manifest and feeds every seed, so two  *)
(* VMs with different manifests give the same seed different problems.     *)
(* scripts/launch_node.sh (lines 94-182) has one VM prepare the manifests  *)
(* and publish them write-once; the others wait for them and take over if  *)
(* they wait too long; everybody then discards its own copy and consumes   *)
(* the published one.  Once a VM has planned, its pushes carry the         *)
(* manifests along with everything else in the artifact tree, and a push   *)
(* overwrites.                                                             *)
(*                                                                         *)
(* A manifest is a member of Revision: what a download of the dataset      *)
(* happened to answer.                                                     *)
(***************************************************************************)
EXTENDS Naturals

CONSTANTS
    Vm,             \* the machines of the fleet
    Lead,           \* SOE_LEAD; perhaps a machine that is gone or never came
    Dataset,        \* the dataset keys of the experiment's arms, in sorted order
    Revision,       \* manifests a download may produce
    None,           \* no file
    MaxPolls,       \* MANIFEST_WAIT: polls before a VM takes over
    MaxPulls,       \* attempts to pull the published manifests at the end
    AtomicPublish,  \* azcopy --overwrite=false, cp -n; FALSE: aws s3, a test and then a copy
    KeptDisk,       \* a script may be run again on the disk of a run that was killed
    MaxLost,        \* bound on VMs stopped
    MaxFailures     \* bound on failed downloads and transfers

ASSUME ElectionAssumption ==
    /\ Dataset \subseteq Nat
    /\ None \notin Revision
    /\ MaxPolls \in Nat /\ MaxPulls \in Nat
    /\ AtomicPublish \in BOOLEAN /\ KeptDisk \in BOOLEAN
    /\ MaxLost \in Nat /\ MaxFailures \in Nat

VARIABLES
    store,      \* the published manifest of each dataset
    local,      \* the manifests on each VM's disk
    script,     \* where each VM's launch_node.sh stands
    left,       \* datasets its loop has yet to handle
    tries,      \* polls or pulls made so far
    used,       \* every manifest some VM planned with, ever
    lost, failures

storeVars == <<store, used>>
faultVars == <<lost, failures>>
vars == <<store, local, script, left, tries, used, lost, failures>>

Script == {"off", "pull", "prepare", "publish", "put", "wait", "discard", "repull",
           "planned", "refused"}
File == Revision \cup {None}
NoFile == [d \in Dataset |-> None]

TypeOK ==
    /\ store \in [Dataset -> File]
    /\ local \in [Vm -> [Dataset -> File]]
    /\ script \in [Vm -> Script]
    /\ left \in [Vm -> SUBSET Dataset]
    /\ tries \in [Vm -> Nat]
    /\ used \in [Dataset -> SUBSET Revision]
    /\ lost \in 0..MaxLost
    /\ failures \in 0..MaxFailures

Init ==
    /\ store = NoFile
    /\ local = [v \in Vm |-> NoFile]
    /\ script = [v \in Vm |-> "off"]
    /\ left = [v \in Vm |-> {}]
    /\ tries = [v \in Vm |-> 0]
    /\ used = [d \in Dataset |-> {}]
    /\ lost = 0
    /\ failures = 0

Failure == failures < MaxFailures /\ failures' = failures + 1 /\ UNCHANGED lost

\* have_manifest: every dataset's manifest is on disk, not just some.
Have(disk) == \A d \in Dataset : disk[d] # None

\* The first dataset VM v's loop has yet to handle.
First(v, d) == d \in left[v] /\ \A x \in left[v] : d <= x

Goto(v, where) == script' = [script EXCEPT ![v] = where]

-----------------------------------------------------------------------------
\* objstore_pull_dir over a disk: the published manifests in S arrive, replacing what is there.
Pulled(disk, S) ==
    [d \in Dataset |-> IF d \in S /\ store[d] # None THEN store[d] ELSE disk[d]]

\* pull_manifests: a transfer that fails part way is taken for a pull that found less.
PullManifests(v) ==
    \/ /\ local' = [local EXCEPT ![v] = Pulled(@, Dataset)]
       /\ UNCHANGED faultVars
    \/ /\ \E S \in SUBSET Dataset : local' = [local EXCEPT ![v] = Pulled(@, S)]
       /\ Failure

\* The manifests on this disk become the ones this VM plans and generates with.
GoOn(v) ==
    /\ used' = [d \in Dataset |-> used[d] \cup {local'[v][d]}]
    /\ Goto(v, "planned")

\* The script starts, on an empty disk or on what a killed run left.
Launch(v) ==
    /\ script[v] = "off"
    /\ Goto(v, "pull")
    /\ UNCHANGED <<storeVars, local, left, tries, faultVars>>

\* First pull: go on with complete manifests, prepare them as the lead, or wait for the lead.
FirstPull(v) ==
    /\ script[v] = "pull"
    /\ PullManifests(v)
    /\ IF Have(local'[v])
       THEN GoOn(v) /\ UNCHANGED left
       ELSE /\ Goto(v, IF v = Lead THEN "prepare" ELSE "wait")
            /\ left' = [left EXCEPT ![v] = Dataset]
            /\ UNCHANGED used
    /\ tries' = [tries EXCEPT ![v] = 0]
    /\ UNCHANGED store

\* Mutant: only the lead may prepare; the others give up.
PollNoTakeover(v) ==
    /\ script[v] = "wait"
    /\ PullManifests(v)
    /\ tries' = [tries EXCEPT ![v] = @ + 1]
    /\ Goto(v, IF Have(local'[v]) THEN "discard"
               ELSE IF tries'[v] < MaxPolls THEN "wait"
               ELSE "refused")
    /\ UNCHANGED <<storeVars, left>>

\* One turn of the wait for the lead; after the last one, take over.
Poll(v) ==
    /\ script[v] = "wait"
    /\ PullManifests(v)
    /\ tries' = [tries EXCEPT ![v] = @ + 1]
    /\ Goto(v, IF Have(local'[v]) THEN "discard"
               ELSE IF tries'[v] < MaxPolls THEN "wait"
               ELSE "prepare")
    /\ UNCHANGED <<storeVars, left>>

\* soe prepare downloads a dataset and replaces its manifest on disk.
Prepare(v, d) ==
    /\ script[v] = "prepare"
    /\ First(v, d)
    /\ \E r \in Revision : local' = [local EXCEPT ![v][d] = r]
    /\ IF left[v] = {d}
       THEN /\ Goto(v, "publish")
            /\ left' = [left EXCEPT ![v] = Dataset]
       ELSE /\ left' = [left EXCEPT ![v] = @ \ {d}]
            /\ UNCHANGED script
    /\ UNCHANGED <<storeVars, tries, faultVars>>

\* The download fails and set -e ends the script.
PrepareFails(v) ==
    /\ script[v] = "prepare"
    /\ Failure
    /\ Goto(v, "refused")
    /\ UNCHANGED <<storeVars, local, left, tries>>

\* publish_manifests moves on to the next dataset, and after the last one to the discard.
Published(v, d) ==
    /\ left' = [left EXCEPT ![v] = @ \ {d}]
    /\ Goto(v, IF left[v] = {d} THEN "discard" ELSE "publish")

\* objstore_publish_once: an existing manifest stays, otherwise the copy begins.
PublishOnce(v, d) ==
    /\ script[v] = "publish"
    /\ First(v, d)
    /\ IF store[d] # None THEN Published(v, d) ELSE Goto(v, "put") /\ UNCHANGED left
    /\ UNCHANGED <<storeVars, local, tries, faultVars>>

\* Mutant: azcopy's default, --overwrite=true.
PutOverwrites(v, d) ==
    /\ script[v] = "put"
    /\ First(v, d)
    /\ store' = [store EXCEPT ![d] = local[v][d]]
    /\ Published(v, d)
    /\ UNCHANGED <<local, tries, used, faultVars>>

\* The copy lands.  With --overwrite=false or cp -n what was published since stays; aws s3 cp
\* replaces it.
Put(v, d) ==
    /\ script[v] = "put"
    /\ First(v, d)
    /\ store' = [store EXCEPT ![d] = IF AtomicPublish /\ @ # None THEN @ ELSE local[v][d]]
    /\ Published(v, d)
    /\ UNCHANGED <<local, tries, used, faultVars>>

\* rc=1, the other datasets are still tried, and the caller only warns.
PublishFails(v, d) ==
    /\ script[v] \in {"publish", "put"}
    /\ First(v, d)
    /\ Failure
    /\ Published(v, d)
    /\ UNCHANGED <<storeVars, local, tries>>

\* Mutant: a VM's own manifests survive until the published ones replace them.
DiscardNothing(v) ==
    /\ script[v] = "discard"
    /\ tries' = [tries EXCEPT ![v] = 0]
    /\ Goto(v, "repull")
    /\ UNCHANGED <<storeVars, local, left, faultVars>>

\* rm -f problems/*.manifest.jsonl
Discard(v) ==
    /\ script[v] = "discard"
    /\ local' = [local EXCEPT ![v] = NoFile]
    /\ tries' = [tries EXCEPT ![v] = 0]
    /\ Goto(v, "repull")
    /\ UNCHANGED <<storeVars, left, faultVars>>

\* Pull the published manifests, up to MaxPulls times; without them, exit 3.
Repull(v) ==
    /\ script[v] = "repull"
    /\ PullManifests(v)
    /\ tries' = [tries EXCEPT ![v] = @ + 1]
    /\ IF Have(local'[v])
       THEN GoOn(v)
       ELSE /\ Goto(v, IF tries'[v] < MaxPulls THEN "repull" ELSE "refused")
            /\ UNCHANGED used
    /\ UNCHANGED <<store, left>>

\* A VM at work pushes its tree, manifests included (the probe, the syncer, the last push);
\* the copy replaces what is published unless the store's is the newer one.
PushManifest(v, d) ==
    /\ script[v] = "planned"
    /\ \E r \in {local[v][d], store[d]} \ {None} : store' = [store EXCEPT ![d] = r]
    /\ UNCHANGED <<local, script, left, tries, used, faultVars>>

\* The machine stops at any point; its disk goes with it, or may survive.
Stop(v) ==
    /\ script[v] # "off"
    /\ lost < MaxLost
    /\ lost' = lost + 1
    /\ Goto(v, "off")
    /\ \E disk \in {NoFile} \cup {x \in {local[v]} : KeptDisk} :
         local' = [local EXCEPT ![v] = disk]
    /\ left' = [left EXCEPT ![v] = {}]
    /\ tries' = [tries EXCEPT ![v] = 0]
    /\ UNCHANGED <<storeVars, failures>>

-----------------------------------------------------------------------------
Elect(v) ==
    \/ FirstPull(v) \/ Poll(v) \/ Discard(v) \/ Repull(v)
    \/ \E d \in Dataset : Prepare(v, d) \/ PublishOnce(v, d) \/ Put(v, d)

Next == \E v \in Vm :
    \/ Launch(v) \/ Elect(v) \/ PrepareFails(v) \/ Stop(v)
    \/ \E d \in Dataset : PublishFails(v, d) \/ PushManifest(v, d)

Spec == Init /\ [][Next]_vars

\* A script that was started runs on; nobody is obliged to start one.
FairSpec == Spec /\ \A v \in Vm : WF_vars(Elect(v))

-----------------------------------------------------------------------------
\* Over the whole life of the experiment, VMs lost and replaced included, every seed denotes
\* one problem: all VMs ever planned with the same manifest of each dataset
\* (launch_node.sh:94-107, "so the fleet cannot split across two manifests").
OneManifest == \A d \in Dataset : \A r, s \in used[d] : r = s

\* Publication is write-once, whoever publishes or pushes (objstore.sh:171-177).
WriteOnce ==
    [][\A d \in Dataset : store[d] # None => store'[d] = store[d]]_store

\* Nobody waits for ever: a script that nothing stops ends up planning, whether or not the
\* lead exists and whichever VMs are lost; only a failed download or transfer can make it
\* refuse instead (launch_node.sh:98-105, 150-156, 176-181).  For fresh disks: a leftover
\* manifest can make a script refuse as well.
EventuallyPlanned ==
    \A v \in Vm : []<>(script[v] \in {"off", "planned"} \/ (script[v] = "refused" /\ failures > 0))

-----------------------------------------------------------------------------
(* The inductive strengthening: once discarded, a disk holds nothing but   *)
(* published manifests.                                                    *)
PublishedOnly(v) == \A d \in Dataset : local[v][d] \in {None, store[d]}

Consumes ==
    \A v \in Vm :
        /\ script[v] \in {"off", "pull", "wait", "repull", "planned"} => PublishedOnly(v)
        /\ script[v] = "planned" => Have(local[v])

Prepared ==
    \A v \in Vm :
        /\ script[v] = "prepare" => \A d \in Dataset \ left[v] : local[v][d] # None
        /\ script[v] \in {"publish", "put"} => Have(local[v])
        /\ script[v] = "wait" => left[v] = Dataset

UsedIsPublished == \A d \in Dataset : used[d] \subseteq {store[d]} /\ None \notin used[d]

IInv == TypeOK /\ Consumes /\ Prepared /\ UsedIsPublished
=============================================================================
