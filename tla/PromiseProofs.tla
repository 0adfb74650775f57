---------------------------- MODULE PromiseProofs ----------------------------
(***************************************************************************)
(* The promises of CautiousUse for a daemon that is killed, stopped and    *)
(* restarted at any step, for every set of VMs, names and handlers and     *)
(* every pool.  The argument is PromiseInv of PromiseInvariant, on top of  *)
(* AddressInv: a step touches one VM only, its record, its address, its    *)
(* folder and its entry in the inventory, so what has to be looked at is   *)
(* that VM and the process that takes the step.  First the promises about  *)
(* states, then, with StageInv, those about steps.                         *)
(***************************************************************************)
EXTENDS PromiseInvariant, RunProofs

\* What DeletedIsGone needs on top of Reliable.
TearsDownTruly == {"unregister", "deletedir"} \cap Faults = {}

-----------------------------------------------------------------------------
(* A step touches one VM.                                                  *)

OnlyTouches(m) ==
  /\ \A i \in VmIds : i # m => /\ ppc'[i] = ppc[i]
                               /\ prov'[i] = prov[i]
                               /\ vms'[i] = vms[i]
                               /\ inventory'[i] = inventory[i]
  /\ \A i \in VmIds, a \in Pool : i # m => (Holds(i, a)' <=> Holds(i, a))
  /\ \A n \in AllNames : n # prov[m].name => datastore'[n] = datastore[n]

LEMMA FolderTouch ==
  ASSUME ESXiTypeOK, NEW n, NEW ok,
         \/ MakeDirectory(n, ok) \/ CopyVirtualDisk(n, ok)
         \/ CopyDatastoreFile(n, ok) \/ PatchVmx(n, ok) \/ DeleteDir(n, ok)
  PROVE  /\ \A k \in AllNames : k # n => datastore'[k] = datastore[k]
         /\ UNCHANGED inventory
<1>1. ASSUME NEW call, NEW can, NEW files, DatastoreCall(call, can, ok, n, files)
      PROVE  /\ \A k \in AllNames : k # n => datastore'[k] = datastore[k]
             /\ UNCHANGED inventory
  BY <1>1 DEF DatastoreCall, ESXiTypeOK
<1> QED
  BY <1>1 DEF MakeDirectory, CopyVirtualDisk, CopyDatastoreFile, PatchVmx, DeleteDir

LEMMA InventoryTouch ==
  ASSUME ESXiTypeOK, NEW m \in VmIds, NEW n, NEW a, NEW ok,
         \/ RegisterVM(m, n, ok) \/ SetExtraConfig(m, a, ok) \/ PowerOn(m, ok)
         \/ PowerOff(m, ok) \/ Unregister(m, ok)
  PROVE  OthersKept(m) /\ UNCHANGED datastore
<1>1. ASSUME NEW call, NEW can, NEW vm, InventoryCall(call, can, ok, m, vm)
      PROVE  OthersKept(m) /\ UNCHANGED datastore
  BY <1>1 DEF InventoryCall, OthersKept, ESXiTypeOK
<1> QED
  BY <1>1 DEF RegisterVM, SetExtraConfig, PowerOn, PowerOff, Unregister

LEMMA ReleaseTouch ==
  ASSUME IPAllocTypeOK, NEW m \in VmIds, NEW a, Holds(m, a), Release(a)
  PROVE  /\ \A i \in VmIds, b \in Pool : i # m => (Holds(i, b)' <=> Holds(i, b))
         /\ \A b \in Pool : Holds(m, b)' => Holds(m, b)
         /\ "store" \notin Faults => ~Holds(m, a)'
  BY DataAssumption DEF Release, Holds, IPAllocTypeOK

LEMMA RecordTouch ==
  ASSUME StoreTypeOK, NEW m \in VmIds, NEW s \in Statuses, NEW a,
         UpdateStatus(m, s) \/ SetIP(m, a) \/ RemoveRecord(m)
  PROVE  \A i \in VmIds : i # m => vms'[i] = vms[i]
  BY DEF UpdateStatus, SetIP, RemoveRecord, StoreTypeOK

LEMMA GoroutineTouches ==
  ASSUME Reliable, AddressInv, NEW id \in VmIds, runProvision(id)
  PROVE  /\ OnlyTouches(id)
         /\ UNCHANGED <<dpc, del>>
         /\ prov'[id].name = prov[id].name
         /\ ppc[id] # "none" /\ ~Settled(id)
<1> USE DEF AddressInv, TypeOK, storeVars, esxiVars
<1> DEFINE Kept == /\ UNCHANGED <<dpc, del>>
                   /\ prov'[id].name = prov[id].name
                   /\ ppc[id] # "none" /\ ~Settled(id)
                   /\ \A i \in VmIds : i # id => ppc'[i] = ppc[i] /\ prov'[i] = prov[i]
<1>1. CASE RunStages(id)
  <2>1. Kept
    BY <1>1 DEF RunStages, SetAllocating, SetCloning, SetInjecting, SetStarting,
                SetReady, SetStatus, AcquireIP, RecordIP, Inject, Start, WaitReady,
                Launch, GoTo, Settled, ProvLocals
  <2>2. CASE AcquireIP(id)
    <3>1. UNCHANGED <<vms, inventory, datastore>>
      BY <2>2 DEF AcquireIP
    <3>2. \A i \in VmIds, a \in Pool : i # id => (Holds(i, a)' <=> Holds(i, a))
      BY <2>2, DataAssumption
         DEF AcquireIP, Acquire, AcquireFails, Free, Holds, IPAllocTypeOK
    <3> QED
      BY <2>1, <3>1, <3>2 DEF OnlyTouches
  <2>3. CASE SetAllocating(id) \/ SetCloning(id) \/ SetInjecting(id)
             \/ SetStarting(id) \/ SetReady(id) \/ RecordIP(id)
    <3>1. UNCHANGED <<ipalloc, inventory, datastore>>
      BY <2>3 DEF SetAllocating, SetCloning, SetInjecting, SetStarting, SetReady,
                  SetStatus, RecordIP
    <3>2. \A i \in VmIds : i # id => vms'[i] = vms[i]
      BY <2>3, RecordTouch
         DEF SetAllocating, SetCloning, SetInjecting, SetStarting, SetReady,
             SetStatus, RecordIP, Statuses, InProgress
    <3> QED
      BY <2>1, <3>1, <3>2 DEF OnlyTouches, Holds
  <2>4. CASE Inject(id) \/ Start(id) \/ WaitReady(id) \/ Launch(id)
    <3>1. UNCHANGED <<ipalloc, vms, datastore>> /\ OthersKept(id)
      BY <2>4, InventoryTouch DEF Inject, Start, WaitReady, Launch, OthersKept
    <3> QED
      BY <2>1, <3>1 DEF OnlyTouches, OthersKept, Holds
  <2> QED
    BY <1>1, <2>1, <2>2, <2>3, <2>4 DEF RunStages
<1>2. CASE RunClone(id)
  <2>1. UNCHANGED <<ipalloc, vms>>
    BY <1>2 DEF RunClone, ResolveGold, CloneStep, CloneDone
  <2>2. Kept
    BY <1>2 DEF RunClone, ResolveGold, CloneStep, CloneDone, GoTo, Settled, Steps
  <2>3. /\ OthersKept(id)
        /\ \A k \in AllNames : k # prov[id].name => datastore'[k] = datastore[k]
    <3>1. CASE UNCHANGED <<inventory, datastore>>
      BY <3>1 DEF OthersKept
    <3>2. ASSUME NEW step, NEW ok, CloneCall(id, step, prov[id].name, ok)
          PROVE  /\ OthersKept(id)
                 /\ \A k \in AllNames : k # prov[id].name => datastore'[k] = datastore[k]
      BY <3>2, FolderTouch, InventoryTouch DEF CloneCall, OthersKept
    <3> QED
      BY <1>2, <3>1, <3>2 DEF RunClone, ResolveGold, CloneStep, CloneDone
  <2> QED
    BY <2>1, <2>2, <2>3 DEF OnlyTouches, OthersKept, Holds
<1>3. CASE RunFailure(id)
  <2>1. Kept
    BY <1>3 DEF RunFailure, MarkFailed, FailThen, SetStatus, ReleaseAfterClone, ReleaseIP,
                CleanupFind, CleanupPowerOff, CleanupUnregister, CleanupDir,
                CleanupRelease, CleanupCheckpoints, GoTo, Settled, ProvLocals
  <2>2. CASE MarkFailed(id)
    <3>1. UNCHANGED <<ipalloc, inventory, datastore>>
      BY <2>2 DEF MarkFailed, SetStatus
    <3>2. \A i \in VmIds : i # id => vms'[i] = vms[i]
      BY <2>2, RecordTouch DEF MarkFailed, SetStatus, Statuses
    <3> QED
      BY <2>1, <3>1, <3>2 DEF OnlyTouches, Holds
  <2>3. CASE ReleaseAfterClone(id) \/ CleanupRelease(id)
    <3>1. /\ UNCHANGED <<vms, inventory, datastore>>
          /\ Release(prov[id].ip)
          /\ ppc[id] \in {"release", "c_release"}
      BY <2>3 DEF ReleaseAfterClone, CleanupRelease, ReleaseIP
    <3>2. Holds(id, prov[id].ip)
      BY <3>1 DEF ReleasesOwn, HoldingPCs
    <3>3. \A i \in VmIds, a \in Pool : i # id => (Holds(i, a)' <=> Holds(i, a))
      BY <3>1, <3>2, ReleaseTouch
    <3> QED
      BY <2>1, <3>1, <3>3 DEF OnlyTouches
  <2>4. CASE CleanupFind(id) \/ CleanupCheckpoints(id)
    BY <2>1, <2>4 DEF CleanupFind, CleanupCheckpoints, OnlyTouches, Holds
  <2>5. CASE CleanupPowerOff(id) \/ CleanupUnregister(id)
    <3>1. prov[id].vm = id
      BY <2>5 DEF CleanupPowerOff, CleanupUnregister, FindsOwn
    <3>2. UNCHANGED <<ipalloc, vms, datastore>> /\ OthersKept(id)
      BY <2>5, <3>1, InventoryTouch DEF CleanupPowerOff, CleanupUnregister
    <3> QED
      BY <2>1, <3>2 DEF OnlyTouches, OthersKept, Holds
  <2>6. CASE CleanupDir(id)
    <3>1. /\ UNCHANGED <<ipalloc, vms, inventory>>
          /\ \A k \in AllNames : k # prov[id].name => datastore'[k] = datastore[k]
      BY <2>6, FolderTouch DEF CleanupDir
    <3> QED
      BY <2>1, <3>1 DEF OnlyTouches, Holds
  <2> QED
    BY <1>3, <2>2, <2>3, <2>4, <2>5, <2>6 DEF RunFailure
<1> QED
  BY <1>1, <1>2, <1>3 DEF runProvision

-----------------------------------------------------------------------------
(* RecordInv: the goroutine.                                               *)

\* The VMs a step does not touch are as they were, and so are the handlers that
\* work on them.
LEMMA Elsewhere ==
  ASSUME RecordInv, NEW m \in VmIds, OnlyTouches(m), NEW i \in VmIds, i # m
  PROVE  /\ Provisioning(i)' /\ RecordsAddress(i)' /\ ReadyRuns(i)'
         /\ Settled(i)' = Settled(i)
         /\ Present(i)' = Present(i)
         /\ LostUnrecorded(i)' = LostUnrecorded(i)
         /\ Registered(i)' = Registered(i)
<1>1. /\ ppc'[i] = ppc[i] /\ prov'[i] = prov[i]
      /\ vms'[i] = vms[i] /\ inventory'[i] = inventory[i]
      /\ \A a \in Pool : Holds(i, a)' <=> Holds(i, a)
  BY DEF OnlyTouches
<1>2. Provisioning(i) /\ RecordsAddress(i) /\ ReadyRuns(i)
  BY DEF RecordInv
<1>3. Running(i)' = Running(i) /\ Registered(i)' = Registered(i)
  BY <1>1 DEF Running, Registered
<1>4. /\ Present(i)' = Present(i) /\ Settled(i)' = Settled(i)
      /\ LostUnrecorded(i)' = LostUnrecorded(i)
  BY <1>1 DEF Present, Settled, LostUnrecorded
<1>5. Provisioning(i)'
  BY <1>1, <1>2, <1>4 DEF Provisioning
<1>6. RecordsAddress(i)'
  BY <1>1, <1>2, <1>4 DEF RecordsAddress
<1>7. ReadyRuns(i)'
  BY <1>1, <1>2, <1>3 DEF ReadyRuns
<1> QED
  BY <1>3, <1>4, <1>5, <1>6, <1>7

LEMMA HandlersElsewhere ==
  ASSUME RecordInv, NEW m \in VmIds, OnlyTouches(m), NEW g \in Handlers,
         dpc'[g] = dpc[g], del'[g] = del[g],
         dpc[g] # "idle" => del[g].id \in VmIds /\ del[g].id # m
  PROVE  TearsDown(g)'
<1>1. CASE dpc[g] = "idle"
  BY <1>1 DEF TearsDown
<1>2. ASSUME dpc[g] # "idle", NEW i \in VmIds, i = del[g].id, i # m
      PROVE  TearsDown(g)'
  <2>1. /\ Present(i)' = Present(i)
        /\ LostUnrecorded(i)' = LostUnrecorded(i)
        /\ vms'[i] = vms[i]
        /\ \A a \in Pool : Holds(i, a)' <=> Holds(i, a)
    BY <1>2, Elsewhere DEF OnlyTouches
  <2>2. del'[g].id = i
    BY <1>2
  <2>3. TearsDown(g)
    BY DEF RecordInv
  <2>4. /\ Present(i)' /\ del'[g].ip = vms'[i].ip
        /\ dpc'[g] \notin {"idle", "mark"} => vms'[i].status = "deleting"
        /\ dpc'[g] \in {"clear", "remove"} =>
             \A a \in Pool : Holds(i, a)' => LostUnrecorded(i)'
    BY <1>2, <2>1, <2>3 DEF TearsDown
  <2> QED
    BY <2>2, <2>4 DEF TearsDown, Holds, Present, LostUnrecorded
<1> QED
  BY <1>1, <1>2

\* A step of a goroutine keeps RecordInv if it keeps it for its own VM.
LEMMA GoroutineRecords ==
  ASSUME Reliable, AddressInv, RecordInv, NEW id \in VmIds, runProvision(id),
         Present(id)', ppc'[id] # "lost",
         Provisioning(id)', RecordsAddress(id)', ReadyRuns(id)'
  PROVE  RecordInv'
<1>1. /\ OnlyTouches(id) /\ UNCHANGED <<dpc, del>>
      /\ ppc[id] # "none" /\ ~Settled(id)
  BY GoroutineTouches
<1>2. \A i \in VmIds : Provisioning(i)' /\ RecordsAddress(i)' /\ ReadyRuns(i)'
  <2>1. ASSUME NEW i \in VmIds
        PROVE  Provisioning(i)' /\ RecordsAddress(i)' /\ ReadyRuns(i)'
    <3>1. CASE i = id
      BY <3>1
    <3>2. CASE i # id
      BY <1>1, <3>2, Elsewhere
    <3> QED
      BY <3>1, <3>2
  <2> QED
    BY <2>1
<1>3. \A g \in Handlers : TearsDown(g)'
  <2>1. ASSUME NEW g \in Handlers
        PROVE  TearsDown(g)'
    <3>1. dpc[g] # "idle" => del[g].id \in VmIds /\ del[g].id # id
      BY <1>1 DEF AddressInv, HandlersApart
    <3> QED
      BY <1>1, <3>1, HandlersElsewhere
  <2> QED
    BY <2>1
<1>4. HolderHasRecord'
  <2>1. ASSUME NEW i \in VmIds, NEW a \in Pool, Holds(i, a)'
        PROVE  \/ Present(i)' /\ (Settled(i)' => vms'[i].ip = a)
               \/ LostUnrecorded(i)'
    <3>1. CASE i = id
      BY <2>1, <3>1 DEF Provisioning, RecordsAddress, Settled, BeforeSetIP
    <3>2. CASE i # id
      <4>1. Holds(i, a) /\ vms'[i] = vms[i]
        BY <1>1, <2>1, <3>2 DEF OnlyTouches
      <4> QED
        BY <1>1, <3>2, <4>1, Elsewhere DEF RecordInv, HolderHasRecord
    <3> QED
      BY <3>1, <3>2
  <2> QED
    BY <2>1 DEF HolderHasRecord
<1> QED
  BY <1>2, <1>3, <1>4 DEF RecordInv

\* A step that leaves the record alone, after the address was acquired.
LEMMA GoroutineGoesOn ==
  ASSUME Reliable, AddressInv, RecordInv, NEW id \in VmIds, runProvision(id),
         UNCHANGED vms, prov'[id].ip = prov[id].ip,
         \A a \in Pool : Holds(id, a)' => Holds(id, a),
         ppc[id] \notin {"allocating", "setip"},
         ppc'[id] \notin BeforeSetIP \cup {"lost"},
         ppc'[id] = "ready" => Running(id)'
  PROVE  RecordInv'
<1>1. ppc[id] # "none" /\ ~Settled(id)
  BY GoroutineTouches
<1>2. Provisioning(id) /\ RecordsAddress(id) /\ ReadyRuns(id)
  BY DEF RecordInv
<1>3. Present(id) /\ Present(id)'
  BY <1>1, <1>2 DEF Provisioning, Present
<1>4. Provisioning(id)'
  BY <1>2, <1>3 DEF Provisioning, BeforeAcquire, BeforeSetIP
<1>5. RecordsAddress(id)'
  BY <1>1, <1>2, <1>3
     DEF RecordsAddress, Provisioning, BeforeSetIP, BeforeAcquire, Settled
<1>6. ReadyRuns(id)'
  BY <1>1, <1>2 DEF ReadyRuns, Settled
<1> QED
  BY <1>3, <1>4, <1>5, <1>6, GoroutineRecords

\* A status is written over an outcome that it does not hide.
LEMMA GoroutineWrites ==
  ASSUME Reliable, AddressInv, RecordInv, NEW id \in VmIds, runProvision(id),
         NEW at, NEW s \in Statuses, NEW next, SetStatus(id, at, s, next),
         at # "setip", next # "setip", next \notin {"none", "ready", "lost"},
         next \in BeforeAcquire => at \in BeforeAcquire,
         at \in BeforeAcquire => next \in BeforeAcquire,
         s = "ready" => at = "ready" /\ next = "done"
  PROVE  RecordInv'
<1> USE DEF AddressInv, TypeOK, StoreTypeOK
<1>1. /\ ppc[id] = at /\ ppc'[id] = next
      /\ UNCHANGED <<ipalloc, inventory, prov>>
      /\ UpdateStatus(id, s)
  BY DEF SetStatus, GoTo, esxiVars
<1>2. ppc[id] # "none" /\ ~Settled(id)
  BY GoroutineTouches
<1>3. Provisioning(id) /\ RecordsAddress(id) /\ ReadyRuns(id)
  BY DEF RecordInv
<1>4. Present(id)
  BY <1>2, <1>3 DEF Provisioning
<1>5. vms'[id].status = s /\ vms'[id].ip = vms[id].ip
  BY <1>1, <1>4 DEF UpdateStatus, WriteMayFail, Reliable, VmRecord
<1>6. Present(id)'
  BY <1>5 DEF Present, Statuses, InProgress
<1>7. Provisioning(id)'
  BY <1>1, <1>3, <1>6 DEF Provisioning, Holds
<1>8. RecordsAddress(id)'
  BY <1>1, <1>2, <1>3, <1>4, <1>5 DEF RecordsAddress, BeforeSetIP, BeforeAcquire, Settled
<1>9. ReadyRuns(id)'
  BY <1>1, <1>3, <1>5 DEF ReadyRuns, Running
<1> QED
  BY <1>1, <1>6, <1>7, <1>8, <1>9, GoroutineRecords

LEMMA StagesKeepRecords ==
  ASSUME Reliable, AddressInv, RecordInv, NEW id \in VmIds, RunStages(id)
  PROVE  RecordInv'
<1> USE DEF AddressInv, TypeOK, StoreTypeOK
<1>1. runProvision(id)
  BY DEF runProvision
<1>2. CASE SetAllocating(id) \/ SetCloning(id) \/ SetInjecting(id)
           \/ SetStarting(id) \/ SetReady(id)
  BY <1>1, <1>2, GoroutineWrites
     DEF SetAllocating, SetCloning, SetInjecting, SetStarting, SetReady, Statuses,
         InProgress, BeforeAcquire
<1>3. CASE AcquireIP(id)
  <2>1. ppc[id] = "acquire" /\ UNCHANGED <<vms, inventory>>
    BY <1>3 DEF AcquireIP, storeVars, esxiVars
  <2>2. CASE AcquireFails /\ GoTo(id, "fail_return") /\ UNCHANGED prov
    BY <1>1, <2>1, <2>2, GoroutineGoesOn
       DEF AcquireFails, GoTo, Holds, BeforeSetIP
  <2>3. ASSUME NEW a \in Pool, Acquire(id, a), GoTo(id, "setip"),
               prov' = [prov EXCEPT ![id].ip = a]
        PROVE  RecordInv'
    <3>1. /\ ppc'[id] = "setip" /\ prov'[id].ip = a
      BY <2>3 DEF GoTo, ProvLocals
    <3>2. Provisioning(id) /\ RecordsAddress(id) /\ ReadyRuns(id) /\ Present(id)
      BY <2>1 DEF RecordInv, Provisioning, Settled
    <3>3. \A b \in Pool : ~Holds(id, b)
      BY <2>1, <3>2, DataAssumption DEF Provisioning, BeforeAcquire
    <3>4. \A b \in Pool : Holds(id, b)' => b = a
      BY <2>3, <3>3 DEF Acquire, Holds, IPAllocTypeOK
    <3>5. Present(id)'
      BY <2>1, <3>2 DEF Present
    <3>6. Provisioning(id)'
      BY <3>1, <3>4, <3>5 DEF Provisioning, BeforeAcquire
    <3>7. RecordsAddress(id)'
      BY <2>1, <3>1, <3>2 DEF RecordsAddress, BeforeSetIP
    <3>8. ReadyRuns(id)'
      BY <2>1, <3>1, <3>2 DEF ReadyRuns
    <3> QED
      BY <1>1, <3>1, <3>5, <3>6, <3>7, <3>8, GoroutineRecords
  <2> QED
    BY <1>3, <2>2, <2>3 DEF AcquireIP
<1>4. CASE RecordIP(id)
  <2>1. /\ ppc[id] = "setip" /\ ppc'[id] = "cloning"
        /\ UNCHANGED <<ipalloc, inventory, prov>>
        /\ SetIP(id, prov[id].ip)
    BY <1>4 DEF RecordIP, GoTo, esxiVars
  <2>2. Provisioning(id) /\ RecordsAddress(id) /\ ReadyRuns(id) /\ Present(id)
    BY <2>1 DEF RecordInv, Provisioning, Settled
  <2>3. vms'[id].ip = prov[id].ip /\ vms'[id].status = vms[id].status
    BY <2>1, <2>2 DEF SetIP, WriteMayFail, Reliable, VmRecord
  <2>4. Present(id)'
    BY <2>2, <2>3 DEF Present
  <2>5. Provisioning(id)'
    BY <2>1, <2>2, <2>4 DEF Provisioning, BeforeAcquire, Holds
  <2>6. RecordsAddress(id)' /\ ReadyRuns(id)'
    BY <2>1, <2>2, <2>3 DEF RecordsAddress, ReadyRuns, BeforeSetIP
  <2> QED
    BY <1>1, <2>1, <2>4, <2>5, <2>6, GoroutineRecords
<1>5. CASE Inject(id) \/ Start(id)
  <2>1. /\ UNCHANGED <<ipalloc, vms, prov>>
        /\ ppc[id] \in {"inject", "poweron"}
        /\ ppc'[id] \in {"starting", "wait", "fail_cleanup"}
    BY <1>5 DEF Inject, Start, GoTo, storeVars
  <2> QED
    BY <1>1, <2>1, GoroutineGoesOn DEF Holds, BeforeSetIP
<1>6. CASE WaitReady(id)
  <2>1. /\ UNCHANGED <<ipalloc, vms, prov, inventory>>
        /\ ppc[id] = "wait"
        /\ ppc'[id] = "fail_return" \/ (ppc'[id] = "ready" /\ Running(id))
    BY <1>6 DEF WaitReady, GuestReports, GoTo, storeVars, esxiVars
  <2> QED
    BY <1>1, <2>1, GoroutineGoesOn DEF Holds, Running, BeforeSetIP
<1>7. CASE Launch(id)
  <2>1. /\ UNCHANGED <<ipalloc, vms, inventory, prov>>
        /\ ppc[id] = "pending" /\ ppc'[id] = "allocating"
    BY <1>7 DEF Launch, GoTo, storeVars, esxiVars
  <2>2. Provisioning(id) /\ RecordsAddress(id) /\ ReadyRuns(id)
    BY DEF RecordInv
  <2>3. Present(id) /\ Present(id)'
    BY <2>1, <2>2 DEF Provisioning, Settled, Present
  <2>4. Provisioning(id)'
    BY <2>1, <2>2, <2>3 DEF Provisioning, BeforeAcquire, Holds
  <2>5. RecordsAddress(id)' /\ ReadyRuns(id)'
    BY <2>1, <2>2 DEF RecordsAddress, ReadyRuns, BeforeSetIP, Present, Running
  <2> QED
    BY <1>1, <2>1, <2>3, <2>4, <2>5, GoroutineRecords
<1> QED
  BY <1>2, <1>3, <1>4, <1>5, <1>6, <1>7 DEF RunStages

LEMMA CloneKeepsRecords ==
  ASSUME Reliable, AddressInv, RecordInv, NEW id \in VmIds, RunClone(id)
  PROVE  RecordInv'
<1>1. runProvision(id)
  BY DEF runProvision
<1>2. /\ UNCHANGED <<ipalloc, vms, prov>>
      /\ ppc[id] \in ClonePCs
      /\ ppc'[id] \in ClonePCs \cup {"injecting", "fail_release"}
  BY DEF RunClone, ResolveGold, CloneStep, CloneDone, GoTo, storeVars, StepAfter,
         ClonePCs, Steps, AddressInv, TypeOK
<1> QED
  BY <1>1, <1>2, GoroutineGoesOn DEF Holds, BeforeSetIP, ClonePCs, Steps

LEMMA FailureKeepsRecords ==
  ASSUME Reliable, AddressInv, RecordInv, NEW id \in VmIds, RunFailure(id)
  PROVE  RecordInv'
<1> USE DEF AddressInv, TypeOK
<1>1. runProvision(id)
  BY DEF runProvision
<1>2. CASE MarkFailed(id)
  <2>1. PICK at \in DOMAIN FailThen : SetStatus(id, at, "failed", FailThen[at])
    BY <1>2 DEF MarkFailed
  <2> QED
    BY <1>1, <2>1, GoroutineWrites DEF FailThen, Statuses, BeforeAcquire
<1>3. CASE ReleaseAfterClone(id) \/ CleanupRelease(id)
  <2>1. /\ UNCHANGED <<vms, prov>>
        /\ Release(prov[id].ip)
        /\ ppc[id] \in {"release", "c_release"}
        /\ ppc'[id] \in {"done", "c_clear"}
    BY <1>3 DEF ReleaseAfterClone, CleanupRelease, ReleaseIP, GoTo, storeVars
  <2>2. \A a \in Pool : Holds(id, a)' => Holds(id, a)
    BY <2>1, ReleaseTouch DEF ReleasesOwn, HoldingPCs
  <2> QED
    BY <1>1, <2>1, <2>2, GoroutineGoesOn DEF BeforeSetIP
<1>4. CASE CleanupFind(id) \/ CleanupPowerOff(id) \/ CleanupUnregister(id)
           \/ CleanupDir(id) \/ CleanupCheckpoints(id)
  <2>1. /\ UNCHANGED <<ipalloc, vms>>
        /\ prov'[id].ip = prov[id].ip
        /\ ppc[id] \in CleanupPCs
        /\ ppc'[id] \in CleanupPCs \cup {"done"}
    BY <1>4 DEF CleanupFind, CleanupPowerOff, CleanupUnregister, CleanupDir,
                CleanupCheckpoints, GoTo, storeVars, CleanupPCs, ProvLocals
  <2> QED
    BY <1>1, <2>1, GoroutineGoesOn DEF Holds, BeforeSetIP, CleanupPCs
<1> QED
  BY <1>2, <1>3, <1>4 DEF RunFailure

-----------------------------------------------------------------------------
(* RecordInv: the handlers of DELETE.                                      *)

LEMMA HandlerTouches ==
  ASSUME Reliable, AddressInv, RecordInv, NEW h \in Handlers, Delete(h),
         NEW m \in VmIds, m = del[h].id
  PROVE  /\ OnlyTouches(m)
         /\ UNCHANGED <<ppc, prov>>
         /\ dpc[h] # "idle"
         /\ \A g \in Handlers : g # h => dpc'[g] = dpc[g] /\ del'[g] = del[g]
         /\ \A a \in Pool : Holds(m, a)' => Holds(m, a)
<1> USE DEF AddressInv, TypeOK, storeVars, esxiVars
<1>1. /\ UNCHANGED <<ppc, prov>>
      /\ dpc[h] # "idle"
      /\ \A g \in Handlers : g # h => dpc'[g] = dpc[g] /\ del'[g] = del[g]
  BY DEF Delete, DeleteMark, DeleteFind, DeletePowerOff, DeleteUnregister, DeleteFiles,
         DeleteRelease, DeleteCheckpoints, DeleteRecord, DelGoTo
<1>2. del[h].name = prov[m].name
  BY <1>1, HandlerKnows
<1>3. CASE DeleteMark(h) \/ DeleteRecord(h)
  <2>1. UNCHANGED <<ipalloc, inventory, datastore>>
    BY <1>3 DEF DeleteMark, DeleteRecord
  <2>2. \A i \in VmIds : i # m => vms'[i] = vms[i]
    BY <1>3, RecordTouch DEF DeleteMark, DeleteRecord, Statuses
  <2> QED
    BY <1>1, <2>1, <2>2 DEF OnlyTouches, Holds
<1>4. CASE DeleteFind(h) \/ DeleteCheckpoints(h)
  BY <1>1, <1>4 DEF DeleteFind, DeleteCheckpoints, OnlyTouches, Holds
<1>5. CASE DeletePowerOff(h) \/ DeleteUnregister(h)
  <2>1. del[h].vm = m
    BY <1>5 DEF DeletePowerOff, DeleteUnregister, FindsOwn
  <2>2. UNCHANGED <<ipalloc, vms, datastore>> /\ OthersKept(m)
    BY <1>5, <2>1, InventoryTouch DEF DeletePowerOff, DeleteUnregister
  <2> QED
    BY <1>1, <2>2 DEF OnlyTouches, OthersKept, Holds
<1>6. CASE DeleteFiles(h)
  <2>1. /\ UNCHANGED <<ipalloc, vms, inventory>>
        /\ \A k \in AllNames : k # prov[m].name => datastore'[k] = datastore[k]
    BY <1>2, <1>6, FolderTouch DEF DeleteFiles
  <2> QED
    BY <1>1, <2>1 DEF OnlyTouches, Holds
<1>7. CASE DeleteRelease(h)
  <2>1. UNCHANGED <<vms, inventory, datastore>> /\ dpc[h] = "release"
    BY <1>7 DEF DeleteRelease
  <2>2. CASE del[h].ip = None
    BY <1>1, <1>7, <2>1, <2>2 DEF DeleteRelease, OnlyTouches, Holds
  <2>3. CASE del[h].ip # None
    <3>1. Holds(m, del[h].ip) /\ Release(del[h].ip)
      BY <1>7, <2>1, <2>3 DEF DeleteRelease, ReleasesOwn, BeforeRelease
    <3>2. /\ \A i \in VmIds, b \in Pool : i # m => (Holds(i, b)' <=> Holds(i, b))
          /\ \A b \in Pool : Holds(m, b)' => Holds(m, b)
      BY <3>1, ReleaseTouch
    <3> QED
      BY <1>1, <2>1, <3>2 DEF OnlyTouches
  <2> QED
    BY <2>2, <2>3
<1> QED
  BY <1>3, <1>4, <1>5, <1>6, <1>7 DEF Delete

\* The same for a step of a handler: m is the VM it works on.
LEMMA HandlerRecords ==
  ASSUME Reliable, AddressInv, RecordInv, NEW h \in Handlers, Delete(h),
         NEW m \in VmIds, m = del[h].id,
         RecordsAddress(m)', ReadyRuns(m)', TearsDown(h)',
         \A a \in Pool : Holds(m, a)' =>
           \/ Present(m)' /\ vms'[m].ip = vms[m].ip
           \/ LostUnrecorded(m)'
  PROVE  RecordInv'
<1>1. /\ OnlyTouches(m) /\ UNCHANGED <<ppc, prov>>
      /\ dpc[h] # "idle"
      /\ \A g \in Handlers : g # h => dpc'[g] = dpc[g] /\ del'[g] = del[g]
      /\ \A a \in Pool : Holds(m, a)' => Holds(m, a)
  BY HandlerTouches
<1>2. Settled(m) /\ Provisioning(m)
  BY <1>1, HandlerKnows DEF RecordInv
<1>3. Provisioning(m)'
  BY <1>1, <1>2 DEF Provisioning, Settled
<1>4. \A i \in VmIds : Provisioning(i)' /\ RecordsAddress(i)' /\ ReadyRuns(i)'
  <2>1. ASSUME NEW i \in VmIds
        PROVE  Provisioning(i)' /\ RecordsAddress(i)' /\ ReadyRuns(i)'
    <3>1. CASE i = m
      BY <1>3, <3>1
    <3>2. CASE i # m
      BY <1>1, <3>2, Elsewhere
    <3> QED
      BY <3>1, <3>2
  <2> QED
    BY <2>1
<1>5. \A g \in Handlers : TearsDown(g)'
  <2>1. ASSUME NEW g \in Handlers, g # h
        PROVE  TearsDown(g)'
    <3>1. dpc[g] # "idle" => del[g].id \in VmIds /\ del[g].id # m
      BY <1>1, <2>1 DEF AddressInv, HandlersApart
    <3> QED
      BY <1>1, <2>1, <3>1, HandlersElsewhere
  <2> QED
    BY <2>1
<1>6. HolderHasRecord'
  <2>1. ASSUME NEW i \in VmIds, NEW a \in Pool, Holds(i, a)'
        PROVE  \/ Present(i)' /\ (Settled(i)' => vms'[i].ip = a)
               \/ LostUnrecorded(i)'
    <3>1. CASE i = m
      <4>1. Holds(m, a)
        BY <1>1, <2>1, <3>1
      <4>2. vms[m].ip = a \/ LostUnrecorded(m)
        BY <1>2, <4>1 DEF RecordInv, HolderHasRecord
      <4> QED
        BY <1>1, <2>1, <3>1, <4>2 DEF LostUnrecorded
    <3>2. CASE i # m
      <4>1. Holds(i, a) /\ vms'[i] = vms[i]
        BY <1>1, <2>1, <3>2 DEF OnlyTouches
      <4> QED
        BY <1>1, <3>2, <4>1, Elsewhere DEF RecordInv, HolderHasRecord
    <3> QED
      BY <3>1, <3>2
  <2> QED
    BY <2>1 DEF HolderHasRecord
<1> QED
  BY <1>4, <1>5, <1>6 DEF RecordInv

LEMMA DeleteKeepsRecords ==
  ASSUME Reliable, AddressInv, RecordInv, NEW h \in Handlers, Delete(h)
  PROVE  RecordInv'
<1> USE DEF AddressInv, TypeOK, StoreTypeOK, storeVars, esxiVars
<1>1. dpc[h] # "idle"
  BY DEF Delete, DeleteMark, DeleteFind, DeletePowerOff, DeleteUnregister, DeleteFiles,
         DeleteRelease, DeleteCheckpoints, DeleteRecord
<1>2. PICK m \in VmIds : m = del[h].id
  BY <1>1, HandlerKnows
<1>3. /\ UNCHANGED <<ppc, prov>>
      /\ \A a \in Pool : Holds(m, a)' => Holds(m, a)
  BY <1>2, HandlerTouches
<1>4. /\ Settled(m) /\ ppc[m] # "none"
      /\ RecordsAddress(m) /\ ReadyRuns(m) /\ TearsDown(h) /\ Provisioning(m)
  BY <1>1, <1>2, HandlerKnows DEF RecordInv
<1>5. /\ Present(m) /\ del[h].ip = vms[m].ip
      /\ dpc[h] # "mark" => vms[m].status = "deleting"
      /\ dpc[h] \in {"clear", "remove"} =>
           \A a \in Pool : Holds(m, a) => LostUnrecorded(m)
  BY <1>1, <1>2, <1>4 DEF TearsDown
<1>6. CASE DeleteMark(h)
  <2>1. /\ dpc'[h] = "find" /\ UNCHANGED <<ipalloc, inventory, del>>
        /\ UpdateStatus(m, "deleting")
    BY <1>2, <1>6 DEF DeleteMark, DelGoTo
  <2>2. vms'[m].status = "deleting" /\ vms'[m].ip = vms[m].ip
    BY <1>5, <2>1 DEF UpdateStatus, WriteMayFail, Reliable, VmRecord
  <2>3. Present(m)'
    BY <2>2 DEF Present
  <2>4. RecordsAddress(m)' /\ ReadyRuns(m)'
    BY <1>3, <1>4, <1>5, <2>2 DEF RecordsAddress, ReadyRuns, Settled
  <2>5. TearsDown(h)'
    BY <1>2, <1>5, <2>1, <2>2, <2>3 DEF TearsDown, Present
  <2> QED
    BY <1>2, <2>2, <2>3, <2>4, <2>5, HandlerRecords
<1>7. ASSUME UNCHANGED vms, dpc[h] # "mark", del'[h].id = m, del'[h].ip = del[h].ip,
             dpc'[h] \in {"clear", "remove"} =>
               \A a \in Pool : Holds(m, a)' => LostUnrecorded(m)
      PROVE  RecordInv'
  <2>1. Present(m)' /\ LostUnrecorded(m)' = LostUnrecorded(m)
    BY <1>3, <1>5, <1>7 DEF Present, LostUnrecorded
  <2>2. RecordsAddress(m)' /\ ReadyRuns(m)'
    BY <1>3, <1>4, <1>5, <1>7 DEF RecordsAddress, ReadyRuns, Settled, Present
  <2>3. TearsDown(h)'
    BY <1>5, <1>7, <2>1 DEF TearsDown, Present, LostUnrecorded, Holds
  <2> QED
    BY <1>2, <1>7, <2>1, <2>2, <2>3, HandlerRecords
<1>8. CASE DeleteFind(h)
  <2>1. /\ UNCHANGED <<vms, ipalloc>>
        /\ dpc[h] = "find"
        /\ dpc'[h] \in {"off", "rmdir"}
        /\ del'[h].id = m
        /\ del'[h].ip = del[h].ip
    BY <1>2, <1>8 DEF DeleteFind, DelGoTo, DelLocals, Reliable
  <2> QED
    BY <1>7, <2>1
<1>9. CASE DeletePowerOff(h) \/ DeleteUnregister(h) \/ DeleteFiles(h)
  <2>1. /\ UNCHANGED <<vms, ipalloc, del>>
        /\ dpc[h] # "mark"
        /\ dpc'[h] \in {"unregister", "rmdir", "release"}
    BY <1>9 DEF DeletePowerOff, DeleteUnregister, DeleteFiles, DelGoTo
  <2> QED
    BY <1>2, <1>7, <2>1
<1>10. CASE DeleteRelease(h)
  <2>1. UNCHANGED <<vms, del>> /\ dpc[h] = "release" /\ dpc'[h] = "clear"
    BY <1>10 DEF DeleteRelease, DelGoTo
  <2>2. ASSUME NEW a \in Pool, Holds(m, a)'
        PROVE  LostUnrecorded(m)
    <3>1. Holds(m, a)
      BY <1>3, <2>2
    <3>2. vms[m].ip = a \/ LostUnrecorded(m)
      BY <1>4, <3>1 DEF RecordInv, HolderHasRecord
    <3>3. CASE vms[m].ip = a
      <4>1. Release(a)
        BY <1>5, <1>10, <3>3, DataAssumption DEF DeleteRelease
      <4> QED
        BY <2>2, <3>1, <4>1, ReleaseTouch DEF Reliable
    <3> QED
      BY <3>2, <3>3
  <2> QED
    BY <1>2, <1>7, <2>1, <2>2
<1>11. CASE DeleteCheckpoints(h)
  <2>1. /\ UNCHANGED <<vms, ipalloc, del>>
        /\ dpc[h] = "clear"
        /\ dpc'[h] = "remove"
    BY <1>11 DEF DeleteCheckpoints, DelGoTo
  <2> QED
    BY <1>2, <1>5, <1>7, <2>1 DEF Holds
<1>12. CASE DeleteRecord(h)
  <2>1. /\ UNCHANGED <<ipalloc, inventory>>
        /\ dpc[h] = "remove" /\ dpc'[h] = "idle"
        /\ RemoveRecord(m)
    BY <1>2, <1>12 DEF DeleteRecord, DelGoTo
  <2>2. vms'[m] = NoRecord
    BY <2>1 DEF RemoveRecord, WriteMayFail, Reliable
  <2>3. RecordsAddress(m)' /\ ReadyRuns(m)'
    BY <1>3, <1>4, <2>2 DEF RecordsAddress, ReadyRuns, Settled, NoRecord, Present
  <2>4. TearsDown(h)'
    BY <2>1 DEF TearsDown
  <2>5. \A a \in Pool : Holds(m, a)' => LostUnrecorded(m)'
    BY <1>3, <1>5, <2>1, <2>2 DEF LostUnrecorded, NoRecord
  <2> QED
    BY <1>2, <2>3, <2>4, <2>5, HandlerRecords
<1> QED
  BY <1>6, <1>8, <1>9, <1>10, <1>11, <1>12 DEF Delete

-----------------------------------------------------------------------------
(* RecordInv: the clients and the process.                                 *)

LEMMA ProvisionKeepsRecords ==
  ASSUME AddressInv, RecordInv, NEW id \in VmIds, NEW name \in Names \cup {id},
         Provision(id, name)
  PROVE  RecordInv' /\ OnlyTouches(id) /\ Present(id)'
<1> USE DEF AddressInv, TypeOK, StoreTypeOK
<1>1. /\ ppc[id] = "none" /\ ppc'[id] = "pending"
      /\ prov'[id].ip = prov[id].ip
      /\ \A i \in VmIds : i # id => ppc'[i] = ppc[i] /\ prov'[i] = prov[i]
      /\ UNCHANGED <<ipalloc, datastore, inventory, dpc, del>>
  BY DEF Provision, GoTo, ProvLocals, esxiVars
<1>2. /\ vms'[id].status = "pending" /\ vms'[id].ip = None
      /\ \A i \in VmIds : i # id => vms'[i] = vms[i]
  BY DEF Provision, Put
<1>3. OnlyTouches(id)
  BY <1>1, <1>2 DEF OnlyTouches, Holds
<1>4. Provisioning(id)
  BY DEF RecordInv
<1>5. Present(id)'
  BY <1>2 DEF Present
<1>6. Provisioning(id)' /\ RecordsAddress(id)' /\ ReadyRuns(id)'
  BY <1>1, <1>2, <1>4, <1>5
     DEF Provisioning, RecordsAddress, ReadyRuns, BeforeAcquire, BeforeSetIP, Holds
<1>7. \A i \in VmIds : Provisioning(i)' /\ RecordsAddress(i)' /\ ReadyRuns(i)'
  BY <1>3, <1>6, Elsewhere
<1>8. \A g \in Handlers : TearsDown(g)'
  <2>1. ASSUME NEW g \in Handlers
        PROVE  TearsDown(g)'
    <3>1. dpc[g] # "idle" => del[g].id \in VmIds /\ del[g].id # id
      BY <1>1 DEF HandlersApart, Settled
    <3> QED
      BY <1>1, <1>3, <3>1, HandlersElsewhere
  <2> QED
    BY <2>1
<1>9. HolderHasRecord'
  <2>1. ASSUME NEW i \in VmIds, NEW a \in Pool, Holds(i, a)'
        PROVE  \/ Present(i)' /\ (Settled(i)' => vms'[i].ip = a)
               \/ LostUnrecorded(i)'
    <3>1. CASE i = id
      BY <1>1, <1>5, <3>1 DEF Settled
    <3>2. CASE i # id
      <4>1. Holds(i, a) /\ vms'[i] = vms[i]
        BY <1>3, <2>1, <3>2 DEF OnlyTouches
      <4> QED
        BY <1>3, <3>2, <4>1, Elsewhere DEF RecordInv, HolderHasRecord
    <3> QED
      BY <3>1, <3>2
  <2> QED
    BY <2>1 DEF HolderHasRecord
<1> QED
  BY <1>3, <1>5, <1>7, <1>8, <1>9 DEF RecordInv

LEMMA DeleteStartKeepsRecords ==
  ASSUME AddressInv, RecordInv, NEW h \in Handlers, NEW id \in VmIds,
         DeleteStart(h, id)
  PROVE  RecordInv'
<1> USE DEF AddressInv, TypeOK
<1>1. /\ UNCHANGED <<ipalloc, vms, datastore, inventory, ppc, prov>>
      /\ Present(id) /\ dpc'[h] = "mark"
      /\ del'[h].id = id /\ del'[h].ip = vms[id].ip
      /\ \A g \in Handlers : g # h => dpc'[g] = dpc[g] /\ del'[g] = del[g]
  BY DEF DeleteStart, DelGoTo, storeVars, esxiVars
<1>2. \A i \in VmIds : Provisioning(i)' /\ RecordsAddress(i)' /\ ReadyRuns(i)'
  BY <1>1 DEF RecordInv, Provisioning, RecordsAddress, ReadyRuns, Holds, Settled,
              Present, Running
<1>3. \A g \in Handlers : TearsDown(g)'
  BY <1>1 DEF RecordInv, TearsDown, Holds, Present, LostUnrecorded
<1>4. HolderHasRecord'
  BY <1>1 DEF RecordInv, HolderHasRecord, Holds, Present, Settled, LostUnrecorded
<1> QED
  BY <1>2, <1>3, <1>4 DEF RecordInv

LEMMA EndKeepsRecords ==
  ASSUME AddressInv, RecordInv, Dies
  PROVE  RecordInv'
<1>1. /\ UNCHANGED <<ipalloc, vms, inventory, prov>>
      /\ \A i \in VmIds : \/ ppc'[i] = ppc[i]
                          \/ ~Settled(i) /\ ppc[i] # "none" /\ ppc'[i] = "lost"
      /\ \A h \in Handlers : dpc'[h] = "idle"
  BY DEF Dies, storeVars, esxiVars, Ended, Settled
<1>2. \A i \in VmIds : /\ Provisioning(i) /\ RecordsAddress(i) /\ ReadyRuns(i)
                       /\ Present(i)' = Present(i) /\ Running(i)' = Running(i)
                       /\ \A a \in Pool : Holds(i, a)' = Holds(i, a)
  BY <1>1 DEF RecordInv, Present, Running, Holds
<1>3. \A i \in VmIds : Provisioning(i)'
  BY <1>1, <1>2 DEF Provisioning, Settled, BeforeAcquire
<1>4. \A i \in VmIds : RecordsAddress(i)'
  BY <1>1, <1>2 DEF RecordsAddress, Settled, BeforeSetIP
<1>5. \A i \in VmIds : ReadyRuns(i)'
  BY <1>1, <1>2 DEF ReadyRuns, Settled
<1>6. \A h \in Handlers : TearsDown(h)'
  BY <1>1 DEF TearsDown
<1>7. HolderHasRecord'
  <2>1. ASSUME NEW i \in VmIds, NEW a \in Pool, Holds(i, a)
        PROVE  \/ Present(i)' /\ (Settled(i)' => vms'[i].ip = a)
               \/ LostUnrecorded(i)'
    <3>1. CASE ppc'[i] = ppc[i]
      BY <1>1, <1>2, <2>1, <3>1
         DEF RecordInv, HolderHasRecord, Settled, LostUnrecorded
    <3>2. CASE ~Settled(i) /\ ppc[i] # "none" /\ ppc'[i] = "lost"
      BY <1>1, <1>2, <2>1, <3>2
         DEF Provisioning, RecordsAddress, BeforeSetIP, Settled, LostUnrecorded
    <3> QED
      BY <1>1, <3>1, <3>2
  <2> QED
    BY <1>2, <2>1 DEF HolderHasRecord
<1> QED
  BY <1>3, <1>4, <1>5, <1>6, <1>7 DEF RecordInv

LEMMA RecordInductive ==
  ASSUME Careful, Reliable, AddressInv, RecordInv, [VmaasdNext]_vmaasdVars
  PROVE  RecordInv'
<1>1. CASE Serve
  <2>1. CASE \E id \in VmIds : \E name \in Names \cup {id} : Provision(id, name)
    BY <2>1, ProvisionKeepsRecords
  <2>2. CASE \E h \in Handlers, id \in VmIds : DeleteStart(h, id)
    BY <2>2, DeleteStartKeepsRecords
  <2> QED
    BY <1>1, <2>1, <2>2 DEF Serve, Requests, CautiousProvision, CautiousDelete
<1>2. CASE Work
  BY <1>2, StagesKeepRecords, CloneKeepsRecords, FailureKeepsRecords,
     DeleteKeepsRecords DEF Work, Daemon, runProvision
<1>3. CASE Exit \/ Crash
  BY <1>3, EndKeepsRecords DEF Exit, Crash
<1>4. CASE UNCHANGED vars
  BY <1>4 DEF vars, RecordInv, Provisioning, RecordsAddress, ReadyRuns, TearsDown,
              HolderHasRecord, Present, Settled, Running, Holds, LostUnrecorded
<1> QED
  BY <1>1, <1>2, <1>3, <1>4
     DEF VmaasdNext, Stops, Shutdown, Drained, Waited, Restart, vmaasdVars

LEMMA InitRecords == Init => RecordInv
  BY DataAssumption
     DEF Init, IPAllocInit, StoreInit, NoRecord, NoProvision, RecordInv,
         Provisioning, RecordsAddress, ReadyRuns, TearsDown, HolderHasRecord,
         Present, Holds, BeforeAcquire, BeforeSetIP

\* README "What it does": whatever fails in provisions and DELETEs, and whenever
\* the daemon dies and comes back, a VM shown as ready runs with the address its
\* record shows, and the pool has that address under its id.
THEOREM ReadyMeansLive ==
  ASSUME Careful, Reliable
  PROVE  VmaasdSpec => []ReadyIsLive
<1>1. VmaasdInit => AddressInv /\ RecordInv
  BY InitInv, InitRecords DEF VmaasdInit
<1>2. AddressInv /\ RecordInv /\ [VmaasdNext]_vmaasdVars => AddressInv' /\ RecordInv'
  BY VmaasdInductive, RecordInductive
<1>3. AddressInv /\ RecordInv => ReadyIsLive
  <2> SUFFICES ASSUME AddressInv, RecordInv, NEW id \in VmIds, vms[id].status = "ready"
               PROVE  /\ Running(id)
                      /\ inventory[id].guest = vms[id].ip
                      /\ Holds(id, vms[id].ip)
    BY DEF ReadyIsLive
  <2>1. ppc[id] = "done" /\ Running(id) /\ Present(id)
    BY DEF RecordInv, ReadyRuns, Present
  <2>2. vms[id].ip = prov[id].ip
    BY <2>1 DEF RecordInv, RecordsAddress, BeforeSetIP
  <2> QED
    BY <2>1, <2>2 DEF AddressInv, InjectedOwn, RunningHoldsAddress
<1> QED
  BY <1>1, <1>2, <1>3, PTL DEF VmaasdSpec

\* store.go:92-93 and TROUBLESHOOTING.md:129: no address is held for a VM
\* without a record that names it, but for the crash between Acquire and SetIP.
THEOREM NoAddressLeaks ==
  ASSUME Careful, Reliable
  PROVE  VmaasdSpec => []HolderHasRecord
<1>1. VmaasdInit => AddressInv /\ RecordInv
  BY InitInv, InitRecords DEF VmaasdInit
<1>2. AddressInv /\ RecordInv /\ [VmaasdNext]_vmaasdVars => AddressInv' /\ RecordInv'
  BY VmaasdInductive, RecordInductive
<1>3. RecordInv => HolderHasRecord
  BY DEF RecordInv
<1> QED
  BY <1>1, <1>2, <1>3, PTL DEF VmaasdSpec

-----------------------------------------------------------------------------
(* GoneInv.                                                                *)

\* What a step that touches m leaves of a deleted VM i, and of the handlers on
\* their way to deleting it.
LEMMA StaysGone ==
  ASSUME AddressInv, RecordInv, DeletedIsGone, NEW m \in VmIds, OnlyTouches(m),
         ppc[m] # "none" \/ Present(m)', NEW i \in VmIds, i # m,
         ppc'[i] # "none", ~Present(i)'
  PROVE  /\ ~Registered(i)'
         /\ datastore'[prov'[i].name] = {}
         /\ \A a \in Pool : Holds(i, a)' => LostUnrecorded(i)'
<1>1. /\ ppc'[i] = ppc[i] /\ prov'[i] = prov[i]
      /\ Registered(i)' = Registered(i) /\ Present(i)' = Present(i)
      /\ LostUnrecorded(i)' = LostUnrecorded(i)
      /\ \A a \in Pool : Holds(i, a)' <=> Holds(i, a)
  BY Elsewhere DEF OnlyTouches
<1>2. prov[i].name \in AllNames /\ prov[i].name # prov[m].name
  <2>1. prov[i].name \in AllNames
    BY <1>1 DEF AddressInv, TypeOK, ProvLocals, NamesApart
  <2>2. prov[i].name # prov[m].name
    BY <1>1 DEF AddressInv, NamesApart
  <2> QED
    BY <2>1, <2>2
<1>3. datastore'[prov[i].name] = datastore[prov[i].name]
  BY <1>2 DEF OnlyTouches
<1> QED
  BY <1>1, <1>3 DEF DeletedIsGone

LEMMA RemovesElsewhere ==
  ASSUME AddressInv, RecordInv, NEW g \in Handlers, Removes(g),
         NEW m \in VmIds, OnlyTouches(m), dpc'[g] = dpc[g], del'[g] = del[g],
         dpc[g] # "idle" => del[g].id # m
  PROVE  Removes(g)'
<1>1. CASE dpc[g] = "idle"
  BY <1>1 DEF Removes
<1>2. CASE dpc[g] # "idle"
  <2>1. PICK i \in VmIds : i = del[g].id
    BY <1>2, HandlerKnows
  <2>2. ppc[i] # "none" /\ del[g].name = prov[i].name /\ i # m
    BY <1>2, <2>1, HandlerKnows
  <2>3. prov[i].name \in AllNames /\ prov[i].name # prov[m].name
    BY <2>2 DEF AddressInv, TypeOK, ProvLocals, NamesApart
  <2>4. datastore'[del[g].name] = datastore[del[g].name]
    BY <2>2, <2>3 DEF OnlyTouches
  <2>5. Registered(i)' = Registered(i)
    BY <2>2, Elsewhere
  <2>6. dpc[g] \in {"rmdir", "release", "clear", "remove"} => ~Registered(i)'
    BY <2>1, <2>5 DEF Removes
  <2> QED
    BY <2>1, <2>4, <2>6 DEF Removes, Registered
<1> QED
  BY <1>1, <1>2

\* A goroutine works for a VM that has its record.
LEMMA GoroutineKeepsGone ==
  ASSUME Reliable, AddressInv, RecordInv, RecordInv', GoneInv,
         NEW id \in VmIds, runProvision(id)
  PROVE  GoneInv'
<1>1. /\ OnlyTouches(id) /\ UNCHANGED <<dpc, del>>
      /\ ppc[id] # "none" /\ ~Settled(id)
  BY GoroutineTouches
<1>2. \A g \in Handlers : Removes(g)'
  <2>1. ASSUME NEW g \in Handlers
        PROVE  Removes(g)'
    <3>1. dpc[g] # "idle" => del[g].id # id
      BY <1>1 DEF AddressInv, HandlersApart
    <3> QED
      BY <1>1, <3>1, RemovesElsewhere DEF GoneInv
  <2> QED
    BY <2>1
<1>3. Present(id)'
  <2>1. Present(id)
    BY <1>1 DEF RecordInv, Provisioning
  <2>2. \/ UNCHANGED vms
        \/ \E s \in Statuses : UpdateStatus(id, s)
        \/ \E a : SetIP(id, a)
    BY DEF runProvision, RunStages, RunClone, RunFailure, SetAllocating, SetCloning,
           SetInjecting, SetStarting, SetReady, SetStatus, AcquireIP, RecordIP, Inject,
           Start, WaitReady, Launch, ResolveGold, CloneStep, CloneDone, MarkFailed,
           ReleaseAfterClone, ReleaseIP, CleanupFind, CleanupPowerOff,
           CleanupUnregister, CleanupDir, CleanupRelease, CleanupCheckpoints,
           storeVars, Statuses, InProgress
  <2> QED
    BY <2>1, <2>2
       DEF UpdateStatus, SetIP, Present, Statuses, InProgress, AddressInv, TypeOK,
           StoreTypeOK, VmRecord
<1>4. DeletedIsGone'
  BY <1>1, <1>3, StaysGone DEF GoneInv, DeletedIsGone
<1> QED
  BY <1>2, <1>4 DEF GoneInv

\* A DELETE unregisters its VM before it wipes the folder, and the record goes
\* last.
LEMMA DeleteKeepsGone ==
  ASSUME Reliable, TearsDownTruly, AddressInv, RecordInv, GoneInv,
         NEW h \in Handlers, Delete(h)
  PROVE  GoneInv'
<1> USE DEF AddressInv, TypeOK, ESXiTypeOK, storeVars, esxiVars
<1>1. dpc[h] # "idle"
  BY DEF Delete, DeleteMark, DeleteFind, DeletePowerOff, DeleteUnregister, DeleteFiles,
         DeleteRelease, DeleteCheckpoints, DeleteRecord
<1>2. PICK m \in VmIds : m = del[h].id
  BY <1>1, HandlerKnows
<1>3. /\ OnlyTouches(m)
      /\ UNCHANGED <<ppc, prov>>
      /\ \A g \in Handlers : g # h => dpc'[g] = dpc[g] /\ del'[g] = del[g]
      /\ \A a \in Pool : Holds(m, a)' => Holds(m, a)
  BY <1>2, HandlerTouches
<1>4. /\ ppc[m] # "none" /\ del[h].name = prov[m].name
      /\ Removes(h) /\ Present(m)
      /\ dpc[h] \in {"clear", "remove"} =>
           \A a \in Pool : Holds(m, a) => LostUnrecorded(m)
  BY <1>1, <1>2, HandlerKnows DEF GoneInv, RecordInv, TearsDown
<1>5. prov[m].name \in AllNames
  BY <1>4 DEF ProvLocals, NamesApart
<1>6. \A g \in Handlers : g # h => Removes(g)'
  <2>1. ASSUME NEW g \in Handlers, g # h
        PROVE  Removes(g)'
    <3>1. dpc[g] # "idle" => del[g].id # m
      BY <1>1, <1>2, <2>1 DEF HandlersApart
    <3> QED
      BY <1>3, <2>1, <3>1, RemovesElsewhere DEF GoneInv
  <2> QED
    BY <2>1
<1>7. ASSUME Removes(h)', Present(m)'
      PROVE  GoneInv'
  BY <1>3, <1>4, <1>6, <1>7, StaysGone DEF GoneInv, DeletedIsGone
<1>8. CASE DeleteMark(h)
  <2>1. dpc'[h] = "find" /\ UpdateStatus(m, "deleting")
    BY <1>2, <1>8 DEF DeleteMark, DelGoTo
  <2>2. Present(m)'
    BY <1>4, <2>1 DEF UpdateStatus, Present, StoreTypeOK, VmRecord
  <2> QED
    BY <1>7, <2>1, <2>2 DEF Removes
<1>9. CASE DeleteFind(h)
  <2>1. UNCHANGED <<vms, datastore, inventory>>
    BY <1>9 DEF DeleteFind
  <2>2. CASE dpc'[h] = "off"
    BY <1>4, <1>7, <2>1, <2>2 DEF Removes, Present
  <2>3. CASE VmNotFound(del[h].name) /\ DelGoTo(h, "rmdir") /\ UNCHANGED del
    <3>1. ~Registered(m)
      BY <1>4, <2>3 DEF VmNotFound, VmsNamed, OwnNames
    <3>2. dpc'[h] = "rmdir" /\ del'[h].id = m /\ ~Registered(m)'
      BY <1>2, <2>1, <2>3, <3>1 DEF DelGoTo, Registered
    <3>3. Removes(h)'
      BY <3>2 DEF Removes, Registered
    <3> QED
      BY <1>4, <1>7, <2>1, <3>3 DEF Present
  <2> QED
    BY <1>9, <2>2, <2>3 DEF DeleteFind, DelGoTo, Reliable
<1>10. CASE DeletePowerOff(h)
  <2>1. dpc'[h] = "unregister" /\ UNCHANGED vms
    BY <1>10 DEF DeletePowerOff, DelGoTo
  <2> QED
    BY <1>4, <1>7, <2>1 DEF Removes, Present
<1>11. CASE DeleteUnregister(h)
  <2>1. /\ dpc[h] = "unregister" /\ dpc'[h] = "rmdir"
        /\ UNCHANGED <<vms, del>>
        /\ \E ok \in BOOLEAN : Unregister(del[h].vm, ok)
    BY <1>11 DEF DeleteUnregister, DelGoTo
  <2>2. del[h].vm = m /\ ~Running(m)
    BY <1>2, <2>1 DEF FindsOwn, StoppedBeforeRelease, AfterPowerOff
  <2>3. PICK ok \in BOOLEAN, done \in BOOLEAN :
          /\ Outcome("unregister", inventory[m].state = "off", ok, done)
          /\ inventory' = IF done THEN [inventory EXCEPT ![m] = NoVm] ELSE inventory
    BY <2>1, <2>2 DEF Unregister, InventoryCall
  <2>4. done <=> inventory[m].state = "off"
    BY <2>3 DEF TearsDownTruly, Outcome
  <2>5. ~Registered(m)'
    BY <2>2, <2>3, <2>4 DEF Registered, Running, NoVm, VmObject
  <2>6. Removes(h)'
    BY <1>2, <2>1, <2>5 DEF Removes, Registered
  <2> QED
    BY <1>4, <1>7, <2>1, <2>6 DEF Present
<1>12. CASE DeleteFiles(h)
  <2>1. /\ dpc[h] = "rmdir" /\ dpc'[h] = "release"
        /\ UNCHANGED <<vms, del>>
        /\ \E ok \in BOOLEAN : DeleteDir(prov[m].name, ok)
    BY <1>4, <1>12 DEF DeleteFiles, DelGoTo
  <2>2. ~Registered(m)
    BY <1>2, <1>4, <2>1 DEF Removes
  <2>3. ~Locked(prov[m].name)
    BY <1>4, <2>2 DEF Locked, VmsNamed, OwnNames, NamesApart
  <2>4. PICK ok \in BOOLEAN, done \in BOOLEAN :
          /\ Outcome("deletedir", datastore[prov[m].name] # {} /\ ~Locked(prov[m].name),
                     ok, done)
          /\ datastore' = IF done THEN [datastore EXCEPT ![prov[m].name] = {}]
                                  ELSE datastore
          /\ UNCHANGED inventory
    BY <2>1 DEF DeleteDir, DatastoreCall
  <2>5. done <=> datastore[prov[m].name] # {}
    BY <2>3, <2>4 DEF TearsDownTruly, Outcome
  <2>6. datastore'[prov[m].name] = {} /\ ~Registered(m)'
    BY <1>5, <2>2, <2>4, <2>5 DEF Registered
  <2>7. Removes(h)'
    BY <1>2, <1>4, <2>1, <2>6 DEF Removes, Registered
  <2> QED
    BY <1>4, <1>7, <2>1, <2>7 DEF Present
<1>13. CASE DeleteRelease(h) \/ DeleteCheckpoints(h)
  <2>1. /\ dpc[h] \in {"release", "clear"}
        /\ UNCHANGED <<vms, del, datastore, inventory>>
    BY <1>13 DEF DeleteRelease, DeleteCheckpoints
  <2>2. Removes(h)'
    BY <1>4, <2>1 DEF Removes, Registered
  <2> QED
    BY <1>4, <1>7, <2>1, <2>2 DEF Present
<1>14. CASE DeleteRecord(h)
  <2>1. /\ dpc[h] = "remove" /\ dpc'[h] = "idle"
        /\ UNCHANGED <<ipalloc, datastore, inventory>>
        /\ RemoveRecord(m)
    BY <1>2, <1>14 DEF DeleteRecord, DelGoTo
  <2>2. vms'[m] = NoRecord
    BY <2>1 DEF RemoveRecord, WriteMayFail, Reliable, StoreTypeOK
  <2>3. Removes(h)'
    BY <2>1 DEF Removes
  <2>4. /\ ~Registered(m)'
        /\ datastore'[prov'[m].name] = {}
        /\ \A a \in Pool : Holds(m, a)' => LostUnrecorded(m)'
    BY <1>2, <1>3, <1>4, <2>1, <2>2
       DEF Removes, Registered, LostUnrecorded, NoRecord
  <2>5. DeletedIsGone'
    BY <1>3, <1>4, <2>4, StaysGone DEF GoneInv, DeletedIsGone
  <2> QED
    BY <1>6, <2>3, <2>5 DEF GoneInv
<1> QED
  BY <1>8, <1>9, <1>10, <1>11, <1>12, <1>13, <1>14 DEF Delete

LEMMA GoneInductive ==
  ASSUME Careful, Reliable, TearsDownTruly, AddressInv, RecordInv, RecordInv', GoneInv,
         [VmaasdNext]_vmaasdVars
  PROVE  GoneInv'
<1>1. CASE Serve
  <2>1. ASSUME NEW id \in VmIds, NEW name \in Names \cup {id}, Provision(id, name)
        PROVE  GoneInv'
    <3>1. OnlyTouches(id) /\ Present(id)' /\ UNCHANGED <<dpc, del>> /\ ppc[id] = "none"
      BY <2>1, ProvisionKeepsRecords DEF Provision
    <3>2. \A g \in Handlers : Removes(g)'
      <4>1. ASSUME NEW g \in Handlers
            PROVE  Removes(g)'
        <5>1. dpc[g] # "idle" => del[g].id # id
          BY <3>1 DEF AddressInv, HandlersApart, Settled
        <5> QED
          BY <3>1, <5>1, RemovesElsewhere DEF GoneInv
      <4> QED
        BY <4>1
    <3>3. DeletedIsGone'
      BY <3>1, StaysGone DEF GoneInv, DeletedIsGone
    <3> QED
      BY <3>2, <3>3 DEF GoneInv
  <2>2. ASSUME NEW h \in Handlers, NEW id \in VmIds, DeleteStart(h, id)
        PROVE  GoneInv'
    <3>1. /\ UNCHANGED <<ipalloc, vms, datastore, inventory, ppc, prov>>
          /\ dpc'[h] = "mark"
          /\ \A g \in Handlers : g # h => dpc'[g] = dpc[g] /\ del'[g] = del[g]
      BY <2>2 DEF DeleteStart, DelGoTo, storeVars, esxiVars, AddressInv, TypeOK
    <3>2. \A g \in Handlers : Removes(g)'
      BY <3>1 DEF GoneInv, Removes, Registered
    <3>3. DeletedIsGone'
      BY <3>1 DEF GoneInv, DeletedIsGone, Present, Registered, Holds, LostUnrecorded
    <3> QED
      BY <3>2, <3>3 DEF GoneInv
  <2> QED
    BY <1>1, <2>1, <2>2 DEF Serve, Requests, CautiousProvision, CautiousDelete
<1>2. CASE Work
  BY <1>2, GoroutineKeepsGone, DeleteKeepsGone DEF Work, Daemon
<1>3. CASE Exit \/ Crash
  <2>1. /\ UNCHANGED <<ipalloc, vms, datastore, inventory, prov>>
        /\ \A i \in VmIds : \/ ppc'[i] = ppc[i]
                            \/ ~Settled(i) /\ ppc[i] # "none" /\ ppc'[i] = "lost"
        /\ \A h \in Handlers : dpc'[h] = "idle"
    BY <1>3 DEF Exit, Crash, Dies, storeVars, esxiVars, Ended, Settled
  <2>2. \A g \in Handlers : Removes(g)'
    BY <2>1 DEF Removes
  <2>3. DeletedIsGone'
    <3>1. ASSUME NEW i \in VmIds, ppc'[i] # "none", ~Present(i)'
          PROVE  ppc'[i] = ppc[i]
      BY <2>1, <3>1 DEF RecordInv, Provisioning, Present
    <3> QED
      BY <2>1, <3>1
         DEF GoneInv, DeletedIsGone, Present, Registered, Holds, LostUnrecorded
  <2> QED
    BY <2>2, <2>3 DEF GoneInv
<1>4. CASE UNCHANGED vars
  BY <1>4 DEF vars, GoneInv, Removes, DeletedIsGone, Present, Registered, Holds,
              LostUnrecorded
<1> QED
  BY <1>1, <1>2, <1>3, <1>4
     DEF VmaasdNext, Stops, Shutdown, Drained, Waited, Restart, vmaasdVars

LEMMA InitGone == Init => GoneInv
  BY DEF Init, GoneInv, Removes, DeletedIsGone

\* README.md:22, "Clean teardown": where a DELETE's own calls answer truly, a
\* record that is gone leaves no VM, no file and no address behind, whatever
\* failed in the provision and whenever the daemon died and came back.
THEOREM CleanTeardown ==
  ASSUME Careful, Reliable, TearsDownTruly
  PROVE  VmaasdSpec => []DeletedIsGone
<1>1. VmaasdInit => AddressInv /\ RecordInv /\ GoneInv
  BY InitInv, InitRecords, InitGone DEF VmaasdInit
<1>2. AddressInv /\ RecordInv /\ GoneInv /\ [VmaasdNext]_vmaasdVars
        => AddressInv' /\ RecordInv' /\ GoneInv'
  BY VmaasdInductive, RecordInductive, GoneInductive
<1>3. GoneInv => DeletedIsGone
  BY DEF GoneInv
<1> QED
  BY <1>1, <1>2, <1>3, PTL DEF VmaasdSpec

-----------------------------------------------------------------------------
(* Two promises about steps: the statuses of a record follow the state     *)
(* diagram of ARCHITECTURE.md, and a VM boots only from a folder with its  *)
(* own disk and a patched .vmx.  The argument is StageInv: the record      *)
(* shows the stage its goroutine is in, and the folder fills step by step. *)

\* A step that touches another VM.
LEMMA StageElsewhere ==
  ASSUME AddressInv, NEW m \in VmIds, OnlyTouches(m), NEW i \in VmIds, i # m,
         clones'[i] = clones[i], ShowsStage(i), ClonesInOrder(i)
  PROVE  ShowsStage(i)' /\ ClonesInOrder(i)'
<1>1. /\ ppc'[i] = ppc[i] /\ prov'[i] = prov[i] /\ vms'[i] = vms[i]
  BY DEF OnlyTouches
<1>2. ShowsStage(i)'
  BY <1>1 DEF ShowsStage
<1>3. CASE ppc[i] = "none"
  BY <1>1, <1>2, <1>3 DEF ClonesInOrder, BeforeSetIP
<1>4. CASE ppc[i] # "none"
  <2>1. prov[i].name \in AllNames /\ prov[i].name # prov[m].name
    BY <1>4 DEF AddressInv, TypeOK, ProvLocals, NamesApart
  <2>2. datastore'[prov'[i].name] = datastore[prov[i].name]
    BY <1>1, <2>1 DEF OnlyTouches
  <2> QED
    BY <1>1, <1>2, <2>2 DEF ClonesInOrder
<1> QED
  BY <1>3, <1>4

\* The write of a status while the goroutine has its record.
LEMMA StatusWritten ==
  ASSUME Reliable, AddressInv, RecordInv, NEW id \in VmIds, runProvision(id),
         NEW at, NEW s \in Statuses, NEW next, SetStatus(id, at, s, next)
  PROVE  /\ ppc[id] = at /\ ppc'[id] = next
         /\ vms'[id].status = s
         /\ UNCHANGED <<clones, datastore, inventory, prov>>
<1> USE DEF AddressInv, TypeOK, StoreTypeOK
<1>1. /\ ppc[id] = at /\ ppc'[id] = next
      /\ UNCHANGED <<clones, datastore, inventory, prov>>
      /\ UpdateStatus(id, s)
  BY DEF SetStatus, GoTo, esxiVars
<1>2. Present(id)
  BY GoroutineTouches DEF RecordInv, Provisioning
<1>3. vms'[id].status = s
  BY <1>1, <1>2 DEF UpdateStatus, WriteMayFail, Reliable, VmRecord
<1> QED
  BY <1>1, <1>3

LEMMA StagesInOrder ==
  ASSUME Reliable, AddressInv, RecordInv, StageInv, NEW id \in VmIds, RunStages(id)
  PROVE  ShowsStage(id)' /\ ClonesInOrder(id)'
<1> USE DEF AddressInv, TypeOK, StoreTypeOK
<1>1. runProvision(id) /\ ShowsStage(id) /\ ClonesInOrder(id)
  BY DEF runProvision, StageInv
<1>2. CASE SetAllocating(id) \/ SetCloning(id) \/ SetInjecting(id)
           \/ SetStarting(id) \/ SetReady(id)
  <2>1. PICK at, s, next :
          /\ s \in Statuses
          /\ SetStatus(id, at, s, next)
          /\ <<at, s, next>> \in
               {<<"allocating", "allocating", "acquire">>, <<"cloning", "cloning", "gold">>,
                <<"injecting", "injecting", "inject">>, <<"starting", "starting", "poweron">>,
                <<"ready", "ready", "done">>}
    BY <1>2 DEF SetAllocating, SetCloning, SetInjecting, SetStarting, SetReady, Statuses,
                InProgress
  <2>2. /\ ppc[id] = at /\ ppc'[id] = next /\ vms'[id].status = s
        /\ UNCHANGED <<clones, datastore, prov>>
    BY <1>1, <2>1, StatusWritten
  <2>3. ShowsStage(id)'
    BY <2>1, <2>2 DEF ShowsStage, ClonePCs, Steps, FailThen
  <2>4. ClonesInOrder(id)'
    BY <1>1, <2>1, <2>2 DEF ClonesInOrder, BeforeSetIP
  <2> QED
    BY <2>3, <2>4
<1>3. CASE AcquireIP(id)
  <2>1. /\ UNCHANGED <<vms, clones>>
        /\ ppc[id] = "acquire" /\ ppc'[id] \in {"setip", "fail_return"}
    BY <1>3 DEF AcquireIP, GoTo, storeVars
  <2> QED
    BY <1>1, <2>1
       DEF ShowsStage, ClonesInOrder, BeforeSetIP, ClonePCs, Steps, FailThen, InProgress
<1>4. CASE RecordIP(id)
  <2>1. /\ ppc[id] = "setip" /\ ppc'[id] = "cloning"
        /\ UNCHANGED <<clones, prov>>
        /\ SetIP(id, prov[id].ip)
    BY <1>4 DEF RecordIP, GoTo
  <2>2. vms'[id].status = vms[id].status
    BY <2>1 DEF SetIP, VmRecord
  <2> QED
    BY <1>1, <2>1, <2>2 DEF ShowsStage, ClonesInOrder, BeforeSetIP, ClonePCs, Steps, FailThen
<1>5. CASE Inject(id) \/ Start(id) \/ WaitReady(id)
  <2>1. /\ UNCHANGED <<vms, clones, prov>>
        /\ \/ ppc[id] = "inject" /\ ppc'[id] \in {"starting", "fail_cleanup"}
           \/ ppc[id] = "poweron" /\ ppc'[id] \in {"wait", "fail_cleanup"}
           \/ ppc[id] = "wait" /\ ppc'[id] \in {"ready", "fail_return"}
    BY <1>5 DEF Inject, Start, WaitReady, GoTo, storeVars
  <2>2. UNCHANGED datastore
    BY <1>5, InventoryTouch DEF Inject, Start, WaitReady, esxiVars
  <2> QED
    BY <1>1, <2>1, <2>2
       DEF ShowsStage, ClonesInOrder, BeforeSetIP, ClonePCs, Steps, FailThen, InProgress
<1>6. CASE Launch(id)
  <2>1. /\ UNCHANGED <<vms, clones, datastore, prov>>
        /\ ppc[id] = "pending" /\ ppc'[id] = "allocating"
    BY <1>6 DEF Launch, GoTo, storeVars, esxiVars
  <2> QED
    BY <1>1, <2>1 DEF ShowsStage, ClonesInOrder, BeforeSetIP, ClonePCs, Steps, FailThen
<1> QED
  BY <1>2, <1>3, <1>4, <1>5, <1>6 DEF RunStages

LEMMA CloneInOrder ==
  ASSUME Reliable, AddressInv, RecordInv, StageInv, NEW id \in VmIds, RunClone(id)
  PROVE  ShowsStage(id)' /\ ClonesInOrder(id)'
<1> USE DEF AddressInv, TypeOK, StoreTypeOK
<1>1. ShowsStage(id) /\ ClonesInOrder(id) /\ UNCHANGED <<vms, prov>>
  BY DEF StageInv, RunClone, ResolveGold, CloneStep, CloneDone, storeVars
<1>2. /\ ppc[id] \in ClonePCs
      /\ ppc'[id] \in ClonePCs \cup {"injecting", "fail_release"}
  BY DEF RunClone, ResolveGold, CloneStep, CloneDone, GoTo, StepAfter, ClonePCs, Steps
<1>3. ShowsStage(id)'
  BY <1>1, <1>2 DEF ShowsStage, ClonePCs, Steps, FailThen, InProgress
<1>4. ClonesInOrder(id)'
  <2>1. CASE ppc'[id] = "fail_release"
    BY <2>1 DEF ClonesInOrder, BeforeSetIP
  <2>2. CASE ResolveGold(id)
    <3>1. ppc[id] = "gold" /\ UNCHANGED clones /\ ppc'[id] \in {"mkdir", "fail_release"}
      BY <2>2 DEF ResolveGold, GoTo, storeVars
    <3> QED
      BY <1>1, <3>1 DEF ClonesInOrder, BeforeSetIP
  <2>3. CASE CloneDone(id)
    <3>1. ppc[id] = "clear" /\ UNCHANGED datastore /\ ppc'[id] = "injecting"
      BY <2>3 DEF CloneDone, GoTo, esxiVars
    <3> QED
      BY <1>1, <3>1 DEF ClonesInOrder, BeforeSetIP
  <2>4. ASSUME NEW step \in Steps, CloneStep(id, step), ppc'[id] # "fail_release"
        PROVE  ClonesInOrder(id)'
    <3> DEFINE n == prov[id].name
    <3>1. n \in AllNames
      BY <2>4 DEF NamesApart, ProvLocals, CloneStep, Steps
    <3>2. ppc[id] = step /\ ppc'[id] = StepAfter[step]
      BY <2>4 DEF CloneStep, GoTo
    <3>3. CASE CheckpointHas(id, step)
      <4>1. UNCHANGED <<clones, datastore>> /\ step \in clones[id]
        BY <2>4, <3>3 DEF CloneStep, esxiVars, CheckpointHas
      <4> QED
        BY <1>1, <3>2, <4>1 DEF ClonesInOrder, BeforeSetIP, Steps, StepAfter
    <3>4. CASE ~CheckpointHas(id, step)
      <4>1. PICK ok \in BOOLEAN : /\ CloneCall(id, step, n, ok)
                                  /\ ok
                                  /\ CheckpointSet(id, step)
        BY <2>4, <3>4 DEF CloneStep, GoTo
      <4>2. clones'[id] = clones[id] \cup {step}
        BY <4>1 DEF CheckpointSet
      <4>3. /\ step = "copydisk" => "disk" \in datastore'[n]
            /\ step = "copyvmx" => datastore'[n] = (datastore[n] \ {"patched"}) \cup {"vmx"}
            /\ step = "patchvmx" => datastore'[n] = datastore[n] \cup {"patched"}
            /\ step = "register" => UNCHANGED datastore
        BY <3>1, <4>1
           DEF CloneCall, CopyVirtualDisk, CopyDatastoreFile, PatchVmx, RegisterVM,
               DatastoreCall, InventoryCall, Outcome, ESXiTypeOK
      <4> QED
        BY <1>1, <3>2, <4>2, <4>3 DEF ClonesInOrder, BeforeSetIP, Steps, StepAfter
    <3> QED
      BY <3>3, <3>4
  <2> QED
    BY <2>1, <2>2, <2>3, <2>4 DEF RunClone
<1> QED
  BY <1>3, <1>4

LEMMA FailureInOrder ==
  ASSUME Reliable, AddressInv, RecordInv, StageInv, NEW id \in VmIds, RunFailure(id)
  PROVE  ShowsStage(id)' /\ ClonesInOrder(id)'
<1>1. ppc'[id] \in {"release", "done"} \cup CleanupPCs
  BY DEF RunFailure, MarkFailed, FailThen, SetStatus, ReleaseAfterClone, ReleaseIP,
         CleanupFind, CleanupPowerOff, CleanupUnregister, CleanupDir, CleanupRelease,
         CleanupCheckpoints, GoTo, AddressInv, TypeOK, CleanupPCs
<1> QED
  BY <1>1 DEF ShowsStage, ClonesInOrder, BeforeSetIP, ClonePCs, Steps, FailThen, CleanupPCs

LEMMA GoroutineInOrder ==
  ASSUME Reliable, AddressInv, RecordInv, StageInv, NEW id \in VmIds, runProvision(id)
  PROVE  StageInv'
<1>1. OnlyTouches(id)
  BY GoroutineTouches
<1>2. \A i \in VmIds : i # id => clones'[i] = clones[i]
  BY DEF runProvision, RunStages, RunClone, RunFailure, SetAllocating, SetCloning,
         SetInjecting, SetStarting, SetReady, SetStatus, AcquireIP, RecordIP, Inject,
         Start, WaitReady, Launch, ResolveGold, CloneStep, CloneDone, MarkFailed,
         ReleaseAfterClone, ReleaseIP, CleanupFind, CleanupPowerOff, CleanupUnregister,
         CleanupDir, CleanupRelease, CleanupCheckpoints, storeVars, CheckpointSet,
         CheckpointClear, AddressInv, TypeOK, StoreTypeOK
<1>3. ShowsStage(id)' /\ ClonesInOrder(id)'
  BY StagesInOrder, CloneInOrder, FailureInOrder DEF runProvision
<1> QED
  BY <1>1, <1>2, <1>3, StageElsewhere DEF StageInv

\* A DELETE works on a VM whose goroutine has ended.
LEMMA DeleteInOrder ==
  ASSUME Reliable, AddressInv, RecordInv, StageInv, NEW h \in Handlers, Delete(h)
  PROVE  StageInv'
<1>1. dpc[h] # "idle"
  BY DEF Delete, DeleteMark, DeleteFind, DeletePowerOff, DeleteUnregister, DeleteFiles,
         DeleteRelease, DeleteCheckpoints, DeleteRecord
<1>2. PICK m \in VmIds : m = del[h].id
  BY <1>1, HandlerKnows
<1>3. OnlyTouches(m) /\ UNCHANGED ppc /\ Settled(m)
  BY <1>1, <1>2, HandlerTouches, HandlerKnows
<1>4. \A i \in VmIds : i # m => clones'[i] = clones[i]
  BY <1>2 DEF Delete, DeleteMark, DeleteFind, DeletePowerOff, DeleteUnregister,
              DeleteFiles, DeleteRelease, DeleteCheckpoints, DeleteRecord, storeVars,
              CheckpointClear, AddressInv, TypeOK, StoreTypeOK
<1>5. ShowsStage(m)' /\ ClonesInOrder(m)'
  BY <1>3 DEF Settled, ShowsStage, ClonesInOrder, BeforeSetIP, ClonePCs, Steps, FailThen
<1> QED
  BY <1>3, <1>4, <1>5, StageElsewhere DEF StageInv

LEMMA ServeInOrder ==
  ASSUME AddressInv, RecordInv, StageInv, Requests
  PROVE  StageInv'
<1> USE DEF AddressInv, TypeOK
<1>1. ASSUME NEW id \in VmIds, NEW name \in Names \cup {id}, Provision(id, name)
      PROVE  StageInv'
  <2>1. OnlyTouches(id) /\ UNCHANGED clones
    BY <1>1, ProvisionKeepsRecords DEF Provision
  <2>2. ppc[id] = "none" /\ ppc'[id] = "pending" /\ vms'[id].status = "pending"
    BY <1>1 DEF Provision, GoTo, Put, StoreTypeOK
  <2>3. ShowsStage(id)' /\ ClonesInOrder(id)'
    BY <2>1, <2>2
       DEF StageInv, ShowsStage, ClonesInOrder, BeforeSetIP, ClonePCs, Steps, FailThen
  <2> QED
    BY <2>1, <2>3, StageElsewhere DEF StageInv
<1>2. ASSUME NEW h \in Handlers, NEW id \in VmIds, DeleteStart(h, id)
      PROVE  StageInv'
  BY <1>2 DEF DeleteStart, storeVars, esxiVars, StageInv, ShowsStage, ClonesInOrder
<1> QED
  BY <1>1, <1>2 DEF Requests, CautiousProvision, CautiousDelete

LEMMA StageInductive ==
  ASSUME Careful, Reliable, AddressInv, RecordInv, StageInv, [VmaasdNext]_vmaasdVars
  PROVE  StageInv'
<1>1. CASE Serve
  BY <1>1, ServeInOrder DEF Serve
<1>2. CASE Work
  BY <1>2, GoroutineInOrder, DeleteInOrder DEF Work, Daemon
<1>3. CASE Exit \/ Crash
  <2>1. /\ UNCHANGED <<vms, clones, datastore, prov>>
        /\ \A i \in VmIds : ppc'[i] = ppc[i] \/ ppc'[i] = "lost"
    BY <1>3 DEF Exit, Crash, Dies, storeVars, esxiVars
  <2> QED
    BY <2>1 DEF StageInv, ShowsStage, ClonesInOrder, BeforeSetIP, ClonePCs, Steps, FailThen
<1>4. CASE UNCHANGED vars
  BY <1>4 DEF vars, StageInv, ShowsStage, ClonesInOrder
<1> QED
  BY <1>1, <1>2, <1>3, <1>4
     DEF VmaasdNext, Stops, Shutdown, Drained, Waited, Restart, vmaasdVars

LEMMA InitStages == Init => StageInv
  BY DEF Init, StoreInit, StageInv, ShowsStage, ClonesInOrder, BeforeSetIP, ClonePCs,
         Steps, FailThen

\* Every step of the daemon at an invariant state keeps the invariant.
LEMMA PromiseInductive ==
  ASSUME Careful, Reliable, TearsDownTruly, AddressInv, PromiseInv,
         [VmaasdNext]_vmaasdVars
  PROVE  AddressInv' /\ PromiseInv'
<1>1. AddressInv' /\ RecordInv'
  BY VmaasdInductive, RecordInductive DEF PromiseInv
<1>2. GoneInv' /\ StageInv'
  BY <1>1, GoneInductive, StageInductive DEF PromiseInv
<1> QED
  BY <1>1, <1>2 DEF PromiseInv

\* What the promises rest on: the record of a VM shows the stage and the address
\* of its provision, "ready" is written of a VM that runs, and a DELETE has left
\* nothing of a VM when it removes its record.
THEOREM PromiseInvHolds ==
  ASSUME Careful, Reliable, TearsDownTruly
  PROVE  VmaasdSpec => []PromiseInv
<1>1. VmaasdInit => AddressInv /\ PromiseInv
  BY InitInv, InitRecords, InitGone, InitStages DEF VmaasdInit, PromiseInv
<1>2. AddressInv /\ PromiseInv /\ [VmaasdNext]_vmaasdVars => AddressInv' /\ PromiseInv'
  BY PromiseInductive
<1> QED
  BY <1>1, <1>2, PTL DEF VmaasdSpec

-----------------------------------------------------------------------------
(* The steps that write a status, and the step that boots a VM.            *)

LEMMA StatusStep ==
  ASSUME Careful, Reliable, AddressInv, RecordInv, StageInv, [VmaasdNext]_vmaasdVars,
         NEW i \in VmIds, vms[i].status # vms'[i].status
  PROVE  <<vms[i].status, vms'[i].status>> \in StatusEdges
<1> USE DEF AddressInv, TypeOK, StoreTypeOK
<1>1. ASSUME NEW id \in VmIds, runProvision(id)
      PROVE  <<vms[i].status, vms'[i].status>> \in StatusEdges
  <2>1. i = id
    BY <1>1, GoroutineTouches DEF OnlyTouches
  <2>2. ShowsStage(id)
    BY DEF StageInv
  <2>3. ASSUME NEW at, NEW s \in Statuses, NEW next, SetStatus(id, at, s, next),
               \/ at = s /\ s \in {"allocating", "cloning", "injecting", "starting", "ready"}
               \/ at \in DOMAIN FailThen /\ s = "failed"
        PROVE  <<vms[i].status, vms'[i].status>> \in StatusEdges
    <3>1. ppc[id] = at /\ vms'[id].status = s
      BY <1>1, <2>3, StatusWritten
    <3>2. CASE at = s /\ s \in {"allocating", "cloning", "injecting", "starting", "ready"}
      BY <2>1, <2>2, <3>1, <3>2 DEF ShowsStage, ClonePCs, StatusEdges
    <3>3. CASE at \in DOMAIN FailThen /\ s = "failed"
      BY <2>1, <2>2, <3>1, <3>3 DEF ShowsStage, StatusEdges
    <3> QED
      BY <2>3, <3>2, <3>3
  <2>4. CASE SetAllocating(id) \/ SetCloning(id) \/ SetInjecting(id)
             \/ SetStarting(id) \/ SetReady(id)
    BY <2>3, <2>4 DEF SetAllocating, SetCloning, SetInjecting, SetStarting, SetReady,
                      Statuses, InProgress
  <2>5. CASE MarkFailed(id)
    BY <2>3, <2>5 DEF MarkFailed, Statuses
  <2>6. CASE RecordIP(id)
    <3>1. vms'[id].status = vms[id].status
      BY <2>6 DEF RecordIP, SetIP, VmRecord
    <3> QED
      BY <2>1, <3>1
  <2>7. CASE UNCHANGED vms
    BY <2>7
  <2> QED
    BY <1>1, <2>4, <2>5, <2>6, <2>7
       DEF runProvision, RunStages, RunClone, RunFailure, AcquireIP, Inject, Start,
           WaitReady, Launch, ResolveGold, CloneStep, CloneDone, ReleaseAfterClone, ReleaseIP,
           CleanupFind, CleanupPowerOff, CleanupUnregister, CleanupDir, CleanupRelease,
           CleanupCheckpoints, storeVars
<1>2. ASSUME NEW h \in Handlers, Delete(h)
      PROVE  <<vms[i].status, vms'[i].status>> \in StatusEdges
  <2>1. dpc[h] # "idle"
    BY <1>2 DEF Delete, DeleteMark, DeleteFind, DeletePowerOff, DeleteUnregister,
                DeleteFiles, DeleteRelease, DeleteCheckpoints, DeleteRecord
  <2>2. PICK m \in VmIds : m = del[h].id
    BY <2>1, HandlerKnows
  <2>3. i = m
    BY <1>2, <2>2, HandlerTouches DEF OnlyTouches
  <2>4. Present(m) /\ (dpc[h] # "mark" => vms[m].status = "deleting")
    BY <2>1, <2>2 DEF RecordInv, TearsDown
  <2>5. CASE DeleteMark(h)
    <3>1. vms'[m].status = "deleting"
      BY <2>2, <2>4, <2>5 DEF DeleteMark, UpdateStatus, WriteMayFail, Reliable, VmRecord
    <3>2. vms[m].status \in Statuses \ {"deleting"}
      BY <2>3, <2>4, <3>1 DEF Present, VmRecord
    <3> QED
      BY <2>3, <3>1, <3>2 DEF StatusEdges
  <2>6. CASE DeleteRecord(h)
    <3>1. vms'[m].status = "absent" /\ vms[m].status = "deleting"
      BY <2>2, <2>4, <2>6 DEF DeleteRecord, RemoveRecord, WriteMayFail, Reliable, NoRecord
    <3> QED
      BY <2>3, <3>1 DEF StatusEdges
  <2>7. CASE UNCHANGED vms
    BY <2>7
  <2> QED
    BY <1>2, <2>5, <2>6, <2>7
       DEF Delete, DeleteFind, DeletePowerOff, DeleteUnregister, DeleteFiles,
           DeleteRelease, DeleteCheckpoints, storeVars
<1>3. ASSUME NEW id \in VmIds, NEW name \in Names \cup {id}, Provision(id, name)
      PROVE  <<vms[i].status, vms'[i].status>> \in StatusEdges
  <2>1. /\ vms[id].status = "absent" /\ vms'[id].status = "pending"
        /\ \A k \in VmIds : k # id => vms'[k] = vms[k]
    BY <1>3 DEF Provision, Put, OwnNames, Present
  <2> QED
    BY <2>1 DEF StatusEdges
<1>4. CASE UNCHANGED vms
  BY <1>4
<1> QED
  BY <1>1, <1>2, <1>3, <1>4
     DEF VmaasdNext, Serve, Work, Daemon, Requests, CautiousProvision, CautiousDelete,
         DeleteStart, Stops, Shutdown, Drained, Waited, Exit, Crash, Dies, Restart,
         vmaasdVars, vars, storeVars

LEMMA BootStep ==
  ASSUME Careful, Reliable, AddressInv, RecordInv, StageInv, [VmaasdNext]_vmaasdVars,
         NEW m \in VmIds, ~Running(m), Running(m)'
  PROVE  {"disk", "vmx", "patched"} \subseteq datastore[inventory[m].name]
<1> USE DEF AddressInv, TypeOK, esxiVars
<1>1. ASSUME \A i \in VmIds : Calms(i)
      PROVE  FALSE
  BY <1>1 DEF Calms
<1>2. ~ UNCHANGED inventory
  BY <1>1, QuietCalms
<1>3. ~ \E k, ok : PowerOff(k, ok) \/ Unregister(k, ok)
  BY <1>1, StopCalms
<1>4. ~ \E n, ok : \/ MakeDirectory(n, ok) \/ CopyVirtualDisk(n, ok)
                   \/ CopyDatastoreFile(n, ok) \/ PatchVmx(n, ok) \/ DeleteDir(n, ok)
  BY <1>2, FolderCalms
<1>5. ~ \E id \in VmIds : \E n, a, ok : RegisterVM(id, n, ok) \/ SetExtraConfig(id, a, ok)
  BY RegisterBoots, InjectBoots DEF Running
<1>6. PICK id \in VmIds : Start(id)
  <2>1. ~ Serve
    BY <1>2 DEF Serve, Requests, CautiousProvision, CautiousDelete, Provision, DeleteStart
  <2>2. ~ \E h \in Handlers : Delete(h)
    BY <1>2, <1>3, <1>4
       DEF Delete, DeleteMark, DeleteFind, DeletePowerOff, DeleteUnregister, DeleteFiles,
           DeleteRelease, DeleteCheckpoints, DeleteRecord
  <2>3. ~ \E id \in VmIds : RunClone(id)
    BY <1>2, <1>4, <1>5 DEF RunClone, ResolveGold, CloneStep, CloneDone, CloneCall
  <2>4. ~ \E id \in VmIds : RunFailure(id)
    BY <1>2, <1>3, <1>4
       DEF RunFailure, MarkFailed, SetStatus, ReleaseAfterClone, ReleaseIP, CleanupFind,
           CleanupPowerOff, CleanupUnregister, CleanupDir, CleanupRelease,
           CleanupCheckpoints
  <2>5. ASSUME NEW id \in VmIds, RunStages(id)
        PROVE  Start(id)
    BY <1>2, <1>5, <2>5
       DEF RunStages, SetAllocating, SetCloning, SetInjecting, SetStarting, SetReady,
           SetStatus, AcquireIP, RecordIP, Inject, WaitReady, Launch
  <2>6. Work
    BY <1>2, <2>1 DEF VmaasdNext, Stops, Shutdown, Drained, Waited, Exit, Crash,
                      Dies, Restart, vmaasdVars, vars
  <2> QED
    BY <2>2, <2>3, <2>4, <2>5, <2>6 DEF Work, Daemon, runProvision
<1>7. ppc[id] = "poweron" /\ \E ok \in BOOLEAN : PowerOn(id, ok)
  BY <1>6 DEF Start
<1>8. m = id /\ Registered(id)
  BY <1>7, PowerOnBoots DEF Running
<1>9. inventory[id].name = prov[id].name
  BY <1>8 DEF OwnNames
<1>10. {"disk", "vmx", "patched"} \subseteq datastore[prov[id].name]
  BY <1>7 DEF StageInv, ClonesInOrder
<1> QED
  BY <1>8, <1>9, <1>10

\* The state diagram of ARCHITECTURE.md: whatever fails and whenever the daemon dies,
\* the status of a record changes along an edge of the diagram, where "failed" is
\* reached from a stage, "deleting" from everywhere, and left by the removal.
THEOREM FollowsDiagram ==
  ASSUME Careful, Reliable
  PROVE  VmaasdSpec => StatusFollowsDiagram
<1>1. VmaasdInit => AddressInv /\ RecordInv /\ StageInv
  BY InitInv, InitRecords, InitStages DEF VmaasdInit
<1>2. AddressInv /\ RecordInv /\ StageInv /\ [VmaasdNext]_vmaasdVars
        => AddressInv' /\ RecordInv' /\ StageInv'
  BY VmaasdInductive, RecordInductive, StageInductive
<1>3. AddressInv /\ RecordInv /\ StageInv /\ [VmaasdNext]_vmaasdVars
        => [\A id \in VmIds :
              vms[id].status # vms'[id].status =>
                <<vms[id].status, vms'[id].status>> \in StatusEdges]_vars
  BY StatusStep
<1> QED
  BY <1>1, <1>2, <1>3, PTL DEF VmaasdSpec, StatusFollowsDiagram

\* vmx.go: no VM boots without its own disk, or from a .vmx that still names the
\* gold image's, whatever failed in its clone and whenever the daemon died.
THEOREM BootsFromItsOwn ==
  ASSUME Careful, Reliable
  PROVE  VmaasdSpec => BootsPatched
<1>1. VmaasdInit => AddressInv /\ RecordInv /\ StageInv
  BY InitInv, InitRecords, InitStages DEF VmaasdInit
<1>2. AddressInv /\ RecordInv /\ StageInv /\ [VmaasdNext]_vmaasdVars
        => AddressInv' /\ RecordInv' /\ StageInv'
  BY VmaasdInductive, RecordInductive, StageInductive
<1>3. AddressInv /\ RecordInv /\ StageInv /\ [VmaasdNext]_vmaasdVars
        => [\A m \in VmIds :
              ~Running(m) /\ Running(m)' =>
                {"disk", "vmx", "patched"} \subseteq datastore[inventory[m].name]]_vars
  BY BootStep
<1> QED
  BY <1>1, <1>2, <1>3, PTL DEF VmaasdSpec, BootsPatched
=============================================================================
