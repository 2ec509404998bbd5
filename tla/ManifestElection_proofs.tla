------------------------ MODULE ManifestElection_proofs ------------------------
(***************************************************************************)
(* One experiment, one manifest: with an atomic write-once publication and *)
(* no script re-run on a surviving disk, for any fleet, datasets, waiting  *)
(* time and number of stopped machines and failed transfers.               *)
(***************************************************************************)
EXTENDS ManifestElection, TLAPS

\* A pull leaves on disk published manifests and what was there.
LEMMA PullEffect ==
    ASSUME TypeOK, NEW v \in Vm, PullManifests(v)
    PROVE  /\ \E S \in SUBSET Dataset : local' = [local EXCEPT ![v] = Pulled(local[v], S)]
           /\ local' \in [Vm -> [Dataset -> File]]
           /\ lost' \in 0..MaxLost /\ failures' \in 0..MaxFailures
  <1>1. \E S \in SUBSET Dataset : local' = [local EXCEPT ![v] = Pulled(local[v], S)]
    BY DEF PullManifests
  <1>2. local' \in [Vm -> [Dataset -> File]]
    BY <1>1 DEF TypeOK, Pulled, File
  <1>3. lost' \in 0..MaxLost /\ failures' \in 0..MaxFailures
    BY ElectionAssumption DEF PullManifests, Failure, faultVars, TypeOK
  <1>4. QED
    BY <1>1, <1>2, <1>3

\* Every variable of ManifestElection keeps its type.
LEMMA TypeNext == TypeOK /\ [Next]_vars => TypeOK'
  <1> SUFFICES ASSUME TypeOK, [Next]_vars PROVE TypeOK'
    OBVIOUS
  <1> USE ElectionAssumption
  <1>1. CASE UNCHANGED vars
    BY <1>1 DEF vars, TypeOK
  <1> SUFFICES ASSUME NEW v \in Vm,
                      \/ Launch(v) \/ Elect(v) \/ PrepareFails(v) \/ Stop(v)
                      \/ \E d \in Dataset : PublishFails(v, d) \/ PushManifest(v, d)
               PROVE  TypeOK'
    BY <1>1 DEF Next
  <1>2. CASE Launch(v)
    BY <1>2 DEF Launch, Goto, Script, storeVars, faultVars, TypeOK
  <1>3. CASE FirstPull(v)
    <2>1. local' \in [Vm -> [Dataset -> File]] /\ lost' \in 0..MaxLost /\ failures' \in 0..MaxFailures
      BY <1>3, PullEffect DEF FirstPull
    <2>2. script' \in [Vm -> Script]
      BY <1>3 DEF FirstPull, GoOn, Goto, TypeOK, Script
    <2>3. used' \in [Dataset -> SUBSET Revision]
      <3>1. CASE Have(local'[v])
        <4>1. \A d \in Dataset : local'[v][d] \in Revision
          BY <2>1, <3>1 DEF Have, File
        <4>2. used' = [d \in Dataset |-> used[d] \cup {local'[v][d]}]
          BY <1>3, <3>1 DEF FirstPull, GoOn
        <4>3. QED
          BY <4>1, <4>2 DEF TypeOK
      <3>2. CASE ~Have(local'[v])
        BY <1>3, <3>2 DEF FirstPull, TypeOK
      <3>3. QED
        BY <3>1, <3>2
    <2>4. QED
      BY <1>3, <2>1, <2>2, <2>3 DEF FirstPull, GoOn, TypeOK
  <1>4. CASE Poll(v)
    <2>1. local' \in [Vm -> [Dataset -> File]] /\ lost' \in 0..MaxLost /\ failures' \in 0..MaxFailures
      BY <1>4, PullEffect DEF Poll
    <2>2. script' \in [Vm -> Script] /\ tries' \in [Vm -> Nat]
      BY <1>4 DEF Poll, Goto, TypeOK, Script
    <2>3. QED
      BY <1>4, <2>1, <2>2 DEF Poll, storeVars, TypeOK
  <1>5. CASE Discard(v)
    BY <1>5 DEF Discard, Goto, Script, storeVars, faultVars, TypeOK, NoFile, File
  <1>6. CASE Repull(v)
    <2>1. local' \in [Vm -> [Dataset -> File]] /\ lost' \in 0..MaxLost /\ failures' \in 0..MaxFailures
      BY <1>6, PullEffect DEF Repull
    <2>2. script' \in [Vm -> Script] /\ tries' \in [Vm -> Nat]
      <3>1. script' \in [Vm -> Script]
        BY <1>6 DEF Repull, GoOn, Goto, TypeOK, Script
      <3>2. tries' \in [Vm -> Nat]
        BY <1>6 DEF Repull, TypeOK
      <3>3. QED
        BY <3>1, <3>2
    <2>3. used' \in [Dataset -> SUBSET Revision]
      <3>1. CASE Have(local'[v])
        <4>1. \A d \in Dataset : local'[v][d] \in Revision
          BY <2>1, <3>1 DEF Have, File
        <4>2. used' = [d \in Dataset |-> used[d] \cup {local'[v][d]}]
          BY <1>6, <3>1 DEF Repull, GoOn
        <4>3. QED
          BY <4>1, <4>2 DEF TypeOK
      <3>2. CASE ~Have(local'[v])
        BY <1>6, <3>2 DEF Repull, TypeOK
      <3>3. QED
        BY <3>1, <3>2
    <2>4. QED
      BY <1>6, <2>1, <2>2, <2>3 DEF Repull, GoOn, TypeOK
  <1>7. ASSUME NEW d \in Dataset, Prepare(v, d) PROVE TypeOK'
    <2>1. local' \in [Vm -> [Dataset -> File]]
      BY <1>7 DEF Prepare, TypeOK, File
    <2>2. CASE left[v] = {d}
      BY <1>7, <2>1, <2>2 DEF Prepare, Goto, Script, storeVars, faultVars, TypeOK
    <2>3. CASE left[v] # {d}
      BY <1>7, <2>1, <2>3 DEF Prepare, storeVars, faultVars, TypeOK
    <2>4. QED
      BY <2>2, <2>3
  <1>8. ASSUME NEW d \in Dataset, PublishOnce(v, d) PROVE TypeOK'
    BY <1>8 DEF PublishOnce, Published, Goto, Script, storeVars, faultVars, TypeOK
  <1>9. ASSUME NEW d \in Dataset, Put(v, d) PROVE TypeOK'
    BY <1>9 DEF Put, Published, Goto, Script, faultVars, TypeOK
  <1>10. CASE PrepareFails(v)
    BY <1>10 DEF PrepareFails, Failure, Goto, Script, storeVars, TypeOK
  <1>11. CASE Stop(v)
    BY <1>11 DEF Stop, Goto, Script, storeVars, TypeOK, NoFile, File
  <1>12. ASSUME NEW d \in Dataset, PublishFails(v, d) PROVE TypeOK'
    BY <1>12 DEF PublishFails, Published, Failure, Goto, Script, storeVars, TypeOK
  <1>13. ASSUME NEW d \in Dataset, PushManifest(v, d) PROVE TypeOK'
    BY <1>13 DEF PushManifest, faultVars, TypeOK
  <1>14. QED
    BY <1>2, <1>3, <1>4, <1>5, <1>6, <1>7, <1>8, <1>9, <1>10, <1>11, <1>12, <1>13 DEF Elect

\* Every variable of ManifestElection keeps its type, whatever the store and the disks do.
THEOREM TypeCorrect == Spec => []TypeOK
  <1>1. Init => TypeOK
    BY ElectionAssumption DEF Init, TypeOK, NoFile, File, Script
  <1>2. QED
    BY <1>1, TypeNext, PTL DEF Spec

-----------------------------------------------------------------------------
\* What is published stays: a VM that pushes has nothing but the published manifests.
LEMMA StoreStays ==
    ASSUME AtomicPublish, IInv, [Next]_vars
    PROVE  \A d \in Dataset : store[d] # None => store'[d] = store[d]
  <1>1. CASE UNCHANGED vars
    BY <1>1 DEF vars
  <1> SUFFICES ASSUME NEW v \in Vm,
                      \/ Launch(v) \/ Elect(v) \/ PrepareFails(v) \/ Stop(v)
                      \/ \E d \in Dataset : PublishFails(v, d) \/ PushManifest(v, d)
               PROVE  \A d \in Dataset : store[d] # None => store'[d] = store[d]
    BY <1>1 DEF Next
  <1>2. ASSUME NEW d \in Dataset, PublishOnce(v, d)
        PROVE  \A x \in Dataset : store[x] # None => store'[x] = store[x]
    BY <1>2 DEF PublishOnce, storeVars
  <1>3. ASSUME NEW d \in Dataset, Put(v, d)
        PROVE  \A x \in Dataset : store[x] # None => store'[x] = store[x]
    BY <1>3 DEF Put, IInv, TypeOK
  <1>4. ASSUME NEW d \in Dataset, PushManifest(v, d)
        PROVE  \A x \in Dataset : store[x] # None => store'[x] = store[x]
    <2>1. local[v][d] = store[d]
      BY <1>4 DEF PushManifest, IInv, Consumes, PublishedOnly, Have
    <2>2. QED
      BY <1>4, <2>1 DEF PushManifest, IInv, TypeOK
  <1>5. QED
    BY <1>2, <1>3, <1>4
    DEF Launch, Elect, FirstPull, Poll, Discard, Repull, Prepare, PrepareFails, Stop,
        PublishFails, storeVars

\* A disk of published manifests stays one while others publish: nothing it lacks is replaced.
LEMMA PublishedOnlyStays ==
    ASSUME AtomicPublish, IInv, [Next]_vars, NEW w \in Vm,
           PublishedOnly(w), local'[w] = local[w]
    PROVE  PublishedOnly(w)'
  <1>1. \A d \in Dataset : store[d] # None => store'[d] = store[d]
    BY StoreStays
  <1>2. QED
    BY <1>1 DEF PublishedOnly

\* A pull turns a disk of published manifests into one.
LEMMA PullsPublished ==
    ASSUME IInv, NEW v \in Vm, PullManifests(v), PublishedOnly(v), UNCHANGED store
    PROVE  PublishedOnly(v)'
  <1>1. PICK S \in SUBSET Dataset : local' = [local EXCEPT ![v] = Pulled(local[v], S)]
    BY PullEffect DEF IInv
  <1>2. local'[v] = Pulled(local[v], S)
    BY <1>1 DEF IInv, TypeOK
  <1>3. QED
    BY <1>2 DEF Pulled, PublishedOnly

\* Other VMs' disks and scripts are none of v's business.
LEMMA OthersUntouched ==
    ASSUME IInv, NEW v \in Vm,
           \/ Launch(v) \/ Elect(v) \/ PrepareFails(v) \/ Stop(v)
           \/ \E d \in Dataset : PublishFails(v, d) \/ PushManifest(v, d),
           NEW w \in Vm, w # v
    PROVE  local'[w] = local[w] /\ script'[w] = script[w] /\ left'[w] = left[w]
  <1> USE DEF IInv, TypeOK
  <1>1. CASE FirstPull(v) \/ Poll(v) \/ Repull(v)
    <2>1. PullManifests(v)
      BY <1>1 DEF FirstPull, Poll, Repull
    <2>2. PICK S \in SUBSET Dataset : local' = [local EXCEPT ![v] = Pulled(local[v], S)]
      BY <2>1, PullEffect
    <2>3. QED
      BY <1>1, <2>2 DEF FirstPull, Poll, Repull, GoOn, Goto
  <1>2. CASE Launch(v) \/ Discard(v) \/ PrepareFails(v) \/ Stop(v)
    BY <1>2 DEF Launch, Discard, PrepareFails, Stop, Goto
  <1>3. ASSUME NEW d \in Dataset, Prepare(v, d)
        PROVE  local'[w] = local[w] /\ script'[w] = script[w] /\ left'[w] = left[w]
    BY <1>3 DEF Prepare, Goto
  <1>4. ASSUME NEW d \in Dataset, PublishOnce(v, d) \/ Put(v, d) \/ PublishFails(v, d)
        PROVE  local'[w] = local[w] /\ script'[w] = script[w] /\ left'[w] = left[w]
    BY <1>4 DEF PublishOnce, Put, PublishFails, Published, Goto
  <1>5. ASSUME NEW d \in Dataset, PushManifest(v, d)
        PROVE  local'[w] = local[w] /\ script'[w] = script[w] /\ left'[w] = left[w]
    BY <1>5 DEF PushManifest
  <1>6. QED
    BY <1>1, <1>2, <1>3, <1>4, <1>5 DEF Elect

\* A script that waits, re-pulls or has planned holds published manifests only.
LEMMA ConsumesNext ==
    ASSUME AtomicPublish, ~KeptDisk, IInv, [Next]_vars
    PROVE  Consumes'
  <1>1. CASE UNCHANGED vars
    BY <1>1 DEF vars, IInv, Consumes, PublishedOnly, Have
  <1> SUFFICES ASSUME NEW v \in Vm,
                      \/ Launch(v) \/ Elect(v) \/ PrepareFails(v) \/ Stop(v)
                      \/ \E d \in Dataset : PublishFails(v, d) \/ PushManifest(v, d)
               PROVE  Consumes'
    BY <1>1 DEF Next
  <1> DEFINE Quiet == {"off", "pull", "wait", "repull", "planned"}
             Good(w) == /\ script[w] \in Quiet => PublishedOnly(w)
                        /\ script[w] = "planned" => Have(local[w])
  <1>2. ASSUME NEW w \in Vm, w # v PROVE Good(w)'
    <2>1. local'[w] = local[w] /\ script'[w] = script[w]
      BY <1>2, OthersUntouched
    <2>2. Good(w)
      BY DEF IInv, Consumes
    <2>3. PublishedOnly(w) => PublishedOnly(w)'
      BY <2>1, PublishedOnlyStays
    <2>4. QED
      BY <2>1, <2>2, <2>3 DEF Have
  <1>3. Good(v)'
    <2> USE DEF IInv, TypeOK, Consumes, Goto
    <2>1. CASE FirstPull(v) \/ Poll(v) \/ Repull(v)
      <3>1. PullManifests(v) /\ PublishedOnly(v) /\ UNCHANGED store
        BY <2>1 DEF FirstPull, Poll, Repull, storeVars
      <3>2. PublishedOnly(v)'
        BY <3>1, PullsPublished
      <3>3. script'[v] = "planned" => Have(local[v])'
        BY <2>1 DEF FirstPull, Poll, Repull, GoOn, Have
      <3>4. QED
        BY <3>2, <3>3
    <2>2. CASE Launch(v)
      <3>1. PublishedOnly(v) /\ local'[v] = local[v] /\ script'[v] = "pull"
        BY <2>2 DEF Launch
      <3>2. PublishedOnly(v)'
        BY <3>1, PublishedOnlyStays
      <3>3. QED
        BY <3>1, <3>2
    <2>3. CASE Discard(v) \/ Stop(v)
      <3>1. local'[v] = NoFile /\ script'[v] # "planned"
        BY <2>3 DEF Discard, Stop
      <3>2. QED
        BY <3>1 DEF NoFile, PublishedOnly
    <2>4. CASE PrepareFails(v)
      <3>1. script'[v] = "refused"
        BY <2>4 DEF PrepareFails
      <3>2. QED
        BY <3>1
    <2>5. ASSUME NEW d \in Dataset, Prepare(v, d) PROVE Good(v)'
      <3>1. script'[v] \in {"prepare", "publish"}
        BY <2>5 DEF Prepare
      <3>2. QED
        BY <3>1
    <2>6. ASSUME NEW d \in Dataset, PublishOnce(v, d) \/ Put(v, d) \/ PublishFails(v, d)
          PROVE  Good(v)'
      <3>1. script'[v] \in {"publish", "put", "discard"}
        BY <2>6 DEF PublishOnce, Put, PublishFails, Published
      <3>2. QED
        BY <3>1
    <2>7. ASSUME NEW d \in Dataset, PushManifest(v, d) PROVE Good(v)'
      <3>1. PublishedOnly(v) /\ Have(local[v]) /\ local'[v] = local[v]
        BY <2>7 DEF PushManifest
      <3>2. PublishedOnly(v)'
        BY <3>1, PublishedOnlyStays
      <3>3. QED
        BY <3>1, <3>2 DEF Have
    <2>8. QED
      BY <2>1, <2>2, <2>3, <2>4, <2>5, <2>6, <2>7 DEF Elect
  <1>4. \A w \in Vm : Good(w)'
    BY <1>2, <1>3
  <1>5. QED
    BY <1>4 DEF Consumes

\* The loops over the datasets have prepared what they are past.
LEMMA PreparedNext ==
    ASSUME AtomicPublish, IInv, [Next]_vars
    PROVE  Prepared'
  <1>1. CASE UNCHANGED vars
    BY <1>1 DEF vars, IInv, Prepared, Have
  <1> SUFFICES ASSUME NEW v \in Vm,
                      \/ Launch(v) \/ Elect(v) \/ PrepareFails(v) \/ Stop(v)
                      \/ \E d \in Dataset : PublishFails(v, d) \/ PushManifest(v, d)
               PROVE  Prepared'
    BY <1>1 DEF Next
  <1> DEFINE Good(w) == /\ script[w] = "prepare" =>
                              \A d \in Dataset \ left[w] : local[w][d] # None
                        /\ script[w] \in {"publish", "put"} => Have(local[w])
                        /\ script[w] = "wait" => left[w] = Dataset
  <1>2. \A w \in Vm : Good(w)
    BY DEF IInv, Prepared
  <1>3. ASSUME NEW w \in Vm, w # v PROVE Good(w)'
    <2>1. local'[w] = local[w] /\ script'[w] = script[w] /\ left'[w] = left[w]
      BY <1>3, OthersUntouched
    <2>2. QED
      BY <1>2, <2>1 DEF Have
  <1>4. Good(v)'
    <2> USE ElectionAssumption DEF IInv, TypeOK, Goto
    <2>1. CASE FirstPull(v)
      <3>1. script'[v] \in {"prepare", "wait"} => left'[v] = Dataset
        BY <2>1 DEF FirstPull, GoOn
      <3>2. script'[v] \in {"prepare", "wait", "planned"}
        BY <2>1 DEF FirstPull, GoOn
      <3>3. QED
        BY <3>1, <3>2
    <2>2. CASE Poll(v)
      <3>1. script'[v] \in {"discard", "wait", "prepare"} /\ left'[v] = left[v]
        BY <2>2 DEF Poll
      <3>2. left[v] = Dataset
        BY <2>2, <1>2 DEF Poll
      <3>3. QED
        BY <3>1, <3>2
    <2>3. CASE Repull(v) \/ Launch(v) \/ Discard(v) \/ Stop(v) \/ PrepareFails(v)
      <3>1. script'[v] \in {"planned", "repull", "refused", "pull", "off"}
        BY <2>3 DEF Repull, GoOn, Launch, Discard, Stop, PrepareFails
      <3>2. QED
        BY <3>1
    <2>4. ASSUME NEW d \in Dataset, Prepare(v, d) PROVE Good(v)'
      <3>1. PICK r \in Revision : local' = [local EXCEPT ![v][d] = r]
        BY <2>4 DEF Prepare
      <3>2. local'[v] = [local[v] EXCEPT ![d] = r] /\ r # None
        BY <3>1
      <3>3. \A x \in Dataset \ (left[v] \ {d}) : local'[v][x] # None
        BY <2>4, <1>2, <3>2 DEF Prepare
      <3>4. CASE left[v] = {d}
        BY <2>4, <3>3, <3>4 DEF Prepare, Have
      <3>5. CASE left[v] # {d}
        BY <2>4, <3>3, <3>5 DEF Prepare
      <3>6. QED
        BY <3>4, <3>5
    <2>5. ASSUME NEW d \in Dataset, PublishOnce(v, d) PROVE Good(v)'
      <3>1. /\ script'[v] \in {"publish", "put", "discard"} /\ local'[v] = local[v]
            /\ script[v] = "publish"
        BY <2>5 DEF PublishOnce, Published
      <3>2. QED
        BY <3>1, <1>2 DEF Have
    <2>6. ASSUME NEW d \in Dataset, Put(v, d) \/ PublishFails(v, d) PROVE Good(v)'
      <3>1. /\ script'[v] \in {"publish", "discard"} /\ local'[v] = local[v]
            /\ script[v] \in {"publish", "put"}
        BY <2>6 DEF Put, PublishFails, Published, storeVars
      <3>2. QED
        BY <3>1, <1>2 DEF Have
    <2>7. ASSUME NEW d \in Dataset, PushManifest(v, d) PROVE Good(v)'
      BY <2>7, <1>2 DEF PushManifest
    <2>8. QED
      BY <2>1, <2>2, <2>3, <2>4, <2>5, <2>6, <2>7 DEF Elect
  <1>5. \A w \in Vm : Good(w)'
    BY <1>3, <1>4
  <1>6. QED
    BY <1>5 DEF Prepared

\* Whatever a VM planned with is what is published.
LEMMA UsedNext ==
    ASSUME AtomicPublish, ~KeptDisk, IInv, [Next]_vars, Consumes'
    PROVE  UsedIsPublished'
  <1>1. \A d \in Dataset : store[d] # None => store'[d] = store[d]
    BY StoreStays
  <1>2. UsedIsPublished
    BY DEF IInv
  <1>3. CASE UNCHANGED used
    <2>1. ASSUME NEW d \in Dataset PROVE used[d] \subseteq {store'[d]}
      <3>1. CASE store[d] = None
        BY <3>1, <1>2 DEF UsedIsPublished
      <3>2. CASE store[d] # None
        BY <3>2, <1>1, <1>2 DEF UsedIsPublished
      <3>3. QED
        BY <3>1, <3>2
    <2>2. QED
      BY <1>2, <1>3, <2>1 DEF UsedIsPublished
  <1>4. ASSUME NEW v \in Vm, FirstPull(v) \/ Repull(v), used' # used PROVE UsedIsPublished'
    <2>1. GoOn(v) /\ UNCHANGED store
      BY <1>4 DEF FirstPull, Repull, storeVars
    <2>2. script'[v] = "planned"
      BY <2>1 DEF GoOn, Goto, IInv, TypeOK
    <2>3. \A d \in Dataset : local'[v][d] = store'[d] /\ local'[v][d] # None
      BY <2>2 DEF Consumes, PublishedOnly, Have
    <2>4. \A d \in Dataset : used'[d] = used[d] \cup {local'[v][d]}
      BY <2>1 DEF GoOn
    <2>5. QED
      BY <1>2, <2>1, <2>3, <2>4 DEF UsedIsPublished
  <1>5. UNCHANGED used \/ \E v \in Vm : FirstPull(v) \/ Repull(v)
    BY DEF Next, vars, Elect, Launch, Poll, Discard, Prepare, PublishOnce, Put, PrepareFails,
           Stop, PublishFails, PushManifest, storeVars
  <1>6. QED
    BY <1>3, <1>4, <1>5

\* IInv is inductive.
LEMMA Inductive ==
    ASSUME AtomicPublish, ~KeptDisk
    PROVE  Spec => []IInv
  <1>1. Init => IInv
    <2>1. Init => TypeOK
      BY ElectionAssumption DEF Init, TypeOK, NoFile, File, Script
    <2>2. QED
      BY <2>1 DEF Init, IInv, Consumes, PublishedOnly, Prepared, UsedIsPublished, NoFile
  <1>2. IInv /\ [Next]_vars => IInv'
    <2> SUFFICES ASSUME IInv, [Next]_vars PROVE IInv'
      OBVIOUS
    <2>1. TypeOK'
      BY TypeNext DEF IInv
    <2>2. Consumes'
      BY ConsumesNext
    <2>3. QED
      BY <2>1, <2>2, PreparedNext, UsedNext DEF IInv
  <1>3. QED
    BY <1>1, <1>2, PTL DEF Spec

\* With an atomic publication and fresh disks, all VMs the experiment ever had planned with
\* the same manifest of each dataset, so a seed denotes one problem (launch_node.sh:94-107).
THEOREM FleetSharesOneManifest ==
    ASSUME AtomicPublish, ~KeptDisk
    PROVE  Spec => []OneManifest
  <1>1. IInv => OneManifest
    BY DEF IInv, UsedIsPublished, OneManifest
  <1>2. QED
    BY <1>1, Inductive, PTL

\* Under the same conditions nobody's push or publication replaces a published manifest
\* (objstore.sh:171-177).
THEOREM PublicationIsFinal ==
    ASSUME AtomicPublish, ~KeptDisk
    PROVE  Spec => WriteOnce
  <1>1. IInv /\ [Next]_vars => [\A d \in Dataset : store[d] # None => store'[d] = store[d]]_store
    BY StoreStays
  <1>2. QED
    BY <1>1, Inductive, PTL DEF Spec, WriteOnce
=============================================================================
