--------------------------- MODULE LifecycleProofs --------------------------
(***************************************************************************)
(* Theorems about the orchestrator under any clients (Spec of Lifecycle),  *)
(* for every set of VM ids, names, handlers and faults and every pool.     *)
(***************************************************************************)
EXTENDS LifecycleProperties, TLAPS

USE DEF IPAllocTypeOK, StoreTypeOK, ESXiTypeOK

-----------------------------------------------------------------------------
(* Type correctness, component by component and then action by action.     *)

LEMMA InitType == Init => TypeOK
  BY DEF Init, TypeOK, IPAllocInit, StoreInit, ESXiInit, VmRecord, NoRecord,
         VmObject, NoVm, ProvLocals, DelLocals, NoProvision, NoRequest,
         ProvPCs, DelPCs

LEMMA UpdateStatusType ==
  ASSUME StoreTypeOK, NEW id \in VmIds, NEW s \in Statuses, UpdateStatus(id, s)
  PROVE  vms' \in [VmIds -> VmRecord]
  BY DEF UpdateStatus, VmRecord

LEMMA SetIPType ==
  ASSUME StoreTypeOK, NEW id \in VmIds, NEW a \in Pool \cup {None}, SetIP(id, a)
  PROVE  vms' \in [VmIds -> VmRecord]
  BY DEF SetIP, VmRecord

LEMMA ReleaseType ==
  ASSUME IPAllocTypeOK, NEW a, Release(a)
  PROVE  IPAllocTypeOK'
  BY DEF Release

\* A call on a folder or a VM that is not there changes nothing.
LEMMA DatastoreCallType ==
  ASSUME ESXiTypeOK, NEW call, NEW can, NEW ok, NEW n, NEW files,
         n \in AllNames => files \in SUBSET Files,
         DatastoreCall(call, can, ok, n, files)
  PROVE  ESXiTypeOK'
<1>1. CASE n \in AllNames
  BY <1>1 DEF DatastoreCall
<1>2. CASE n \notin AllNames
  BY <1>2 DEF DatastoreCall
<1> QED
  BY <1>1, <1>2

LEMMA InventoryCallType ==
  ASSUME ESXiTypeOK, NEW call, NEW can, NEW ok, NEW m, NEW vm,
         m \in VmIds => vm \in VmObject,
         InventoryCall(call, can, ok, m, vm)
  PROVE  ESXiTypeOK'
<1>1. CASE m \in VmIds
  BY <1>1 DEF InventoryCall
<1>2. CASE m \notin VmIds
  BY <1>2 DEF InventoryCall
<1> QED
  BY <1>1, <1>2

LEMMA DatastoreType ==
  ASSUME ESXiTypeOK, NEW n, NEW ok,
         \/ MakeDirectory(n, ok) \/ CopyVirtualDisk(n, ok)
         \/ CopyDatastoreFile(n, ok) \/ PatchVmx(n, ok) \/ DeleteDir(n, ok)
  PROVE  ESXiTypeOK'
<1> USE DEF Files
<1>1. CASE MakeDirectory(n, ok)
  BY <1>1, DatastoreCallType DEF MakeDirectory
<1>2. CASE CopyVirtualDisk(n, ok)
  BY <1>2, DatastoreCallType DEF CopyVirtualDisk
<1>3. CASE CopyDatastoreFile(n, ok)
  BY <1>3, DatastoreCallType DEF CopyDatastoreFile
<1>4. CASE PatchVmx(n, ok)
  BY <1>4, DatastoreCallType DEF PatchVmx
<1>5. CASE DeleteDir(n, ok)
  BY <1>5, DatastoreCallType DEF DeleteDir
<1> QED
  BY <1>1, <1>2, <1>3, <1>4, <1>5

LEMMA InventoryType ==
  ASSUME ESXiTypeOK, NEW m, NEW n \in AllNames \cup {None},
         NEW a \in Pool \cup {None}, NEW ok,
         \/ RegisterVM(m, n, ok) \/ SetExtraConfig(m, a, ok) \/ PowerOn(m, ok)
         \/ PowerOff(m, ok) \/ Unregister(m, ok)
  PROVE  ESXiTypeOK'
<1> USE DEF VmObject
<1>1. CASE RegisterVM(m, n, ok)
  BY <1>1, InventoryCallType DEF RegisterVM
<1>2. CASE SetExtraConfig(m, a, ok)
  BY <1>2, InventoryCallType DEF SetExtraConfig
<1>3. CASE PowerOn(m, ok)
  BY <1>3, InventoryCallType DEF PowerOn
<1>4. CASE PowerOff(m, ok)
  BY <1>4, InventoryCallType DEF PowerOff
<1>5. CASE Unregister(m, ok)
  BY <1>5, InventoryCallType DEF Unregister, NoVm
<1> QED
  BY <1>1, <1>2, <1>3, <1>4, <1>5

\* What CloneCall leaves alone follows from the call it makes.
LEMMA CloneCallType ==
  ASSUME ESXiTypeOK, NEW id, NEW step, NEW n \in AllNames \cup {None}, NEW ok,
         CloneCall(id, step, n, ok)
  PROVE  ESXiTypeOK'
  BY DatastoreType, InventoryType DEF CloneCall

LEMMA TypeInductive == TypeOK /\ [Next]_vars => TypeOK'
<1> SUFFICES ASSUME TypeOK, [Next]_vars
             PROVE  TypeOK'
  OBVIOUS
<1> USE DEF TypeOK, storeVars, esxiVars
<1>1. CASE UNCHANGED vars
  BY <1>1 DEF vars
<1>2. ASSUME NEW id \in VmIds, NEW name \in Names \cup {id}, Provision(id, name)
      PROVE  TypeOK'
  BY <1>2, SMTT(30) DEF Provision, Put, GoTo, VmRecord, AllNames, Statuses, InProgress,
              ProvLocals, ProvPCs
<1>3. ASSUME NEW id \in VmIds, NEW at, NEW s \in Statuses, NEW next \in ProvPCs,
             SetStatus(id, at, s, next)
      PROVE  TypeOK'
  <2>1. vms' \in [VmIds -> VmRecord]
    BY <1>3, UpdateStatusType DEF SetStatus
  <2> QED
    BY <1>3, <2>1 DEF SetStatus, GoTo
<1>4. ASSUME NEW id \in VmIds, AcquireIP(id)
      PROVE  TypeOK'
  BY <1>4 DEF AcquireIP, Acquire, AcquireFails, GoTo, ProvLocals, ProvPCs
<1>5. ASSUME NEW id \in VmIds, RecordIP(id)
      PROVE  TypeOK'
  <2>1. prov[id].ip \in Pool \cup {None}
    BY DEF ProvLocals
  <2>2. vms' \in [VmIds -> VmRecord]
    BY <1>5, <2>1, SetIPType DEF RecordIP
  <2> QED
    BY <1>5, <2>2 DEF RecordIP, GoTo, ProvPCs
<1>6. ASSUME NEW id \in VmIds, ResolveGold(id)
      PROVE  TypeOK'
  BY <1>6 DEF ResolveGold, GoTo, ProvPCs, ClonePCs, Steps
<1>7. ASSUME NEW id \in VmIds, NEW step \in Steps, CloneStep(id, step)
      PROVE  TypeOK'
  <2>1. prov[id].name \in AllNames \cup {None}
    BY DEF ProvLocals
  <2>2. ESXiTypeOK'
    BY <1>7, <2>1, CloneCallType DEF CloneStep
  <2>3. clones' \in [VmIds -> SUBSET Steps]
    BY <1>7 DEF CloneStep, CheckpointSet
  <2>4. StepAfter[step] \in ProvPCs
    BY DEF StepAfter, Steps, ProvPCs, ClonePCs
  <2>5. ppc' \in [VmIds -> ProvPCs]
    BY <1>7, <2>4 DEF CloneStep, GoTo, ProvPCs
  <2> QED
    BY <1>7, <2>2, <2>3, <2>5 DEF CloneStep
<1>8. ASSUME NEW id \in VmIds, CloneDone(id)
      PROVE  TypeOK'
  BY <1>8 DEF CloneDone, CheckpointClear, GoTo, ProvPCs
<1>9. ASSUME NEW id \in VmIds, Inject(id)
      PROVE  TypeOK'
  <2>1. prov[id].ip \in Pool \cup {None}
    BY DEF ProvLocals
  <2>2. ESXiTypeOK'
    BY <1>9, <2>1, InventoryType DEF Inject
  <2> QED
    BY <1>9, <2>2 DEF Inject, GoTo, ProvPCs
<1>10. ASSUME NEW id \in VmIds, Start(id)
       PROVE  TypeOK'
  <2>1. ESXiTypeOK'
    BY <1>10, InventoryType DEF Start
  <2> QED
    BY <1>10, <2>1 DEF Start, GoTo, ProvPCs
<1>11. ASSUME NEW id \in VmIds, WaitReady(id)
       PROVE  TypeOK'
  BY <1>11 DEF WaitReady, GoTo, ProvPCs
<1>27. ASSUME NEW id \in VmIds, Launch(id)
       PROVE  TypeOK'
  BY <1>27 DEF Launch, GoTo, ProvPCs
<1>12. ASSUME NEW id \in VmIds, NEW at, NEW next \in ProvPCs,
              ReleaseIP(id, at, next)
       PROVE  TypeOK'
  BY <1>12, ReleaseType DEF ReleaseIP, GoTo
<1>13. ASSUME NEW id \in VmIds, CleanupFind(id)
       PROVE  TypeOK'
  BY <1>13 DEF CleanupFind, GoTo, ProvLocals, ProvPCs, CleanupPCs
<1>14. ASSUME NEW id \in VmIds, CleanupPowerOff(id)
       PROVE  TypeOK'
  BY <1>14, InventoryType DEF CleanupPowerOff, GoTo, ProvPCs, CleanupPCs
<1>15. ASSUME NEW id \in VmIds, CleanupUnregister(id)
       PROVE  TypeOK'
  BY <1>15, InventoryType DEF CleanupUnregister, GoTo, ProvPCs, CleanupPCs
<1>16. ASSUME NEW id \in VmIds, CleanupDir(id)
       PROVE  TypeOK'
  BY <1>16, DatastoreType DEF CleanupDir, GoTo, ProvPCs, CleanupPCs
<1>17. ASSUME NEW id \in VmIds, CleanupCheckpoints(id)
       PROVE  TypeOK'
  BY <1>17 DEF CleanupCheckpoints, CheckpointClear, GoTo, ProvPCs
<1>18. ASSUME NEW h \in Handlers, NEW id \in VmIds, DeleteStart(h, id)
       PROVE  TypeOK'
  BY <1>18 DEF DeleteStart, DelGoTo, DelLocals, DelPCs, VmRecord
<1>19. ASSUME NEW h \in Handlers, DeleteMark(h)
       PROVE  TypeOK'
  <2>1. vms' \in [VmIds -> VmRecord]
    BY <1>19, SMTT(30) DEF DeleteMark, UpdateStatus, VmRecord, Statuses
  <2> QED
    BY <1>19, <2>1 DEF DeleteMark, DelGoTo, DelPCs
<1>20. ASSUME NEW h \in Handlers, DeleteFind(h)
       PROVE  TypeOK'
  <2>1. del' \in [Handlers -> DelLocals]
    <3>1. ASSUME NEW m \in VmIds, del' = [del EXCEPT ![h].vm = m]
          PROVE  del' \in [Handlers -> DelLocals]
      BY <3>1, ZenonT(30) DEF DelLocals
    <3>2. NoRequest \in DelLocals
      BY DEF NoRequest, DelLocals
    <3> QED
      BY <1>20, <3>1, <3>2 DEF DeleteFind
  <2> QED
    BY <1>20, <2>1 DEF DeleteFind, DelGoTo, DelPCs
<1>21. ASSUME NEW h \in Handlers, DeletePowerOff(h)
       PROVE  TypeOK'
  BY <1>21, InventoryType DEF DeletePowerOff, DelGoTo, DelPCs
<1>22. ASSUME NEW h \in Handlers, DeleteUnregister(h)
       PROVE  TypeOK'
  BY <1>22, InventoryType DEF DeleteUnregister, DelGoTo, DelPCs
<1>23. ASSUME NEW h \in Handlers, DeleteFiles(h)
       PROVE  TypeOK'
  BY <1>23, DatastoreType DEF DeleteFiles, DelGoTo, DelPCs
<1>24. ASSUME NEW h \in Handlers, DeleteRelease(h)
       PROVE  TypeOK'
  BY <1>24, ReleaseType DEF DeleteRelease, DelGoTo, DelPCs
<1>25. ASSUME NEW h \in Handlers, DeleteCheckpoints(h)
       PROVE  TypeOK'
  BY <1>25 DEF DeleteCheckpoints, CheckpointClear, DelGoTo, DelPCs
<1>26. ASSUME NEW h \in Handlers, DeleteRecord(h)
       PROVE  TypeOK'
  <2>1. NoRecord \in VmRecord
    BY DEF NoRecord, VmRecord
  <2>2. NoRequest \in DelLocals
    BY DEF NoRequest, DelLocals
  <2> QED
    BY <1>26, <2>1, <2>2 DEF DeleteRecord, RemoveRecord, DelGoTo, DelPCs
<1> QED
  <2>1. ASSUME NEW id \in VmIds, RunStages(id)
        PROVE  TypeOK'
    <3> USE DEF ProvPCs, Statuses, InProgress
    <3>1. CASE SetAllocating(id) \/ SetCloning(id) \/ SetInjecting(id)
               \/ SetStarting(id) \/ SetReady(id)
      BY <3>1, <1>3 DEF SetAllocating, SetCloning, SetInjecting, SetStarting,
                        SetReady, ClonePCs
    <3> QED
      BY <2>1, <3>1, <1>4, <1>5, <1>9, <1>10, <1>11, <1>27 DEF RunStages
  <2>2. ASSUME NEW id \in VmIds, RunClone(id)
        PROVE  TypeOK'
    BY <2>2, <1>6, <1>7, <1>8 DEF RunClone
  <2>3. ASSUME NEW id \in VmIds, RunFailure(id)
        PROVE  TypeOK'
    <3>1. CASE MarkFailed(id)
      <4>1. PICK pc \in DOMAIN FailThen :
                SetStatus(id, pc, "failed", FailThen[pc])
        BY <3>1 DEF MarkFailed
      <4>2. FailThen[pc] \in ProvPCs
        BY DEF FailThen, ProvPCs, CleanupPCs
      <4> QED
        BY <4>1, <4>2, <1>3 DEF Statuses
    <3>2. CASE ReleaseAfterClone(id) \/ CleanupRelease(id)
      BY <3>2, <1>12 DEF ReleaseAfterClone, CleanupRelease, ProvPCs, CleanupPCs
    <3> QED
      BY <2>3, <3>1, <3>2, <1>13, <1>14, <1>15, <1>16, <1>17 DEF RunFailure
  <2>4. ASSUME NEW h \in Handlers, Delete(h)
        PROVE  TypeOK'
    BY <2>4, <1>19, <1>20, <1>21, <1>22, <1>23, <1>24, <1>25, <1>26 DEF Delete
  <2> QED
    BY <1>1, <1>2, <1>18, <2>1, <2>2, <2>3, <2>4 DEF Next, Daemon, runProvision

\* The values of every variable stay in the sets their comments name: no step of
\* a goroutine or a handler works on a VM, a name or an address that is none.
THEOREM TypeCorrect == Spec => []TypeOK
<1>1. Init => TypeOK
  BY InitType
<1>2. TypeOK /\ [Next]_vars => TypeOK'
  BY TypeInductive
<1> QED
  BY <1>1, <1>2, PTL DEF Spec

-----------------------------------------------------------------------------
(* Who touches the pool and the records, whatever process takes the step.  *)

LEMMA PoolStep ==
  ASSUME [Next]_vars
  PROVE  \/ UNCHANGED ipalloc
         \/ \E id \in VmIds : AcquireIP(id)
         \/ \E a : Release(a)
<1> USE DEF storeVars, esxiVars
<1>1. ASSUME NEW id \in VmIds, runProvision(id)
      PROVE  \/ UNCHANGED ipalloc
             \/ AcquireIP(id)
             \/ \E a : Release(a)
  <2>1. CASE RunStages(id)
    BY <2>1 DEF RunStages, SetAllocating, SetCloning, SetInjecting, SetStarting,
                SetReady, SetStatus, RecordIP, Inject, Start, WaitReady, Launch
  <2>2. CASE RunClone(id)
    BY <2>2 DEF RunClone, ResolveGold, CloneStep, CloneDone
  <2>3. CASE RunFailure(id)
    BY <2>3 DEF RunFailure, MarkFailed, SetStatus, ReleaseAfterClone, ReleaseIP,
                CleanupFind, CleanupPowerOff, CleanupUnregister, CleanupDir,
                CleanupRelease, CleanupCheckpoints
  <2> QED
    BY <1>1, <2>1, <2>2, <2>3 DEF runProvision
<1>2. ASSUME NEW h \in Handlers, Delete(h)
      PROVE  UNCHANGED ipalloc \/ (\E a : Release(a))
  BY <1>2 DEF Delete, DeleteMark, DeleteFind, DeletePowerOff, DeleteUnregister,
              DeleteFiles, DeleteRelease, DeleteCheckpoints, DeleteRecord
<1> QED
  BY <1>1, <1>2 DEF Next, Daemon, Provision, DeleteStart, vars

LEMMA RecordStep ==
  ASSUME [Next]_vars
  PROVE  \/ UNCHANGED vms
         \/ \E id \in VmIds : \E name : Provision(id, name)
         \/ \E id, s : s \in Statuses /\ UpdateStatus(id, s)
         \/ \E id, a : SetIP(id, a)
         \/ \E id : RemoveRecord(id)
<1> DEFINE Touched == \/ UNCHANGED vms
                      \/ \E id, s : s \in Statuses /\ UpdateStatus(id, s)
                      \/ \E id, a : SetIP(id, a)
                      \/ \E id : RemoveRecord(id)
<1> USE DEF storeVars, esxiVars, Statuses, InProgress
<1>1. ASSUME NEW id \in VmIds, runProvision(id)
      PROVE  Touched
  <2>1. CASE RunStages(id)
    BY <2>1 DEF RunStages, SetAllocating, SetCloning, SetInjecting, SetStarting,
                SetReady, SetStatus, AcquireIP, RecordIP, Inject, Start, WaitReady, Launch
  <2>2. CASE RunClone(id)
    BY <2>2 DEF RunClone, ResolveGold, CloneStep, CloneDone
  <2>3. CASE RunFailure(id)
    BY <2>3 DEF RunFailure, MarkFailed, SetStatus, ReleaseAfterClone, ReleaseIP,
                CleanupFind, CleanupPowerOff, CleanupUnregister, CleanupDir,
                CleanupRelease, CleanupCheckpoints
  <2> QED
    BY <1>1, <2>1, <2>2, <2>3 DEF runProvision
<1>2. ASSUME NEW h \in Handlers, Delete(h)
      PROVE  Touched
  BY <1>2 DEF Delete, DeleteMark, DeleteFind, DeletePowerOff, DeleteUnregister,
              DeleteFiles, DeleteRelease, DeleteCheckpoints, DeleteRecord
<1>3. CASE UNCHANGED vars
  BY <1>3 DEF vars
<1>4. CASE \E h \in Handlers, id \in VmIds : DeleteStart(h, id)
  BY <1>4 DEF DeleteStart
<1> QED
  BY <1>1, <1>2, <1>3, <1>4 DEF Next, Daemon

LEMMA HolderStays ==
  ASSUME TypeOK, [Next]_vars, NEW a \in Pool, ipalloc[a] # None
  PROVE  ipalloc'[a] \in {ipalloc[a], None}
<1> USE DEF TypeOK
<1>1. CASE UNCHANGED ipalloc
  BY <1>1
<1>2. ASSUME NEW id \in VmIds, AcquireIP(id)
      PROVE  ipalloc'[a] \in {ipalloc[a], None}
  BY <1>2 DEF AcquireIP, Acquire, AcquireFails, Free
<1>3. ASSUME NEW b, Release(b)
      PROVE  ipalloc'[a] \in {ipalloc[a], None}
  BY <1>3 DEF Release
<1> QED
  BY <1>1, <1>2, <1>3, PoolStep

LEMMA GoneStaysGone ==
  ASSUME TypeOK, [Next]_vars, NEW id \in VmIds, ppc[id] # "none", ~Present(id)
  PROVE  ~Present(id)'
<1> USE DEF TypeOK, Present
<1>1. CASE UNCHANGED vms
  BY <1>1
<1>2. ASSUME NEW i \in VmIds, NEW name, Provision(i, name)
      PROVE  ~Present(id)'
  BY <1>2 DEF Provision, Put
<1>3. ASSUME NEW i, NEW s \in Statuses, UpdateStatus(i, s)
      PROVE  ~Present(id)'
  BY <1>3 DEF UpdateStatus
<1>4. ASSUME NEW i, NEW a, SetIP(i, a)
      PROVE  ~Present(id)'
  BY <1>4 DEF SetIP, VmRecord
<1>5. ASSUME NEW i, RemoveRecord(i)
      PROVE  ~Present(id)'
  BY <1>5 DEF RemoveRecord, NoRecord
<1> QED
  BY <1>1, <1>2, <1>3, <1>4, <1>5, RecordStep

\* "never double-allocates" (alloc.go:8): whatever the clients, the faults and
\* the interleaving, an address reaches another VM only through the pool.
THEOREM HolderIsStable == Spec => HolderStable
<1>1. TypeOK /\ [Next]_vars =>
        [\A a \in Pool :
           ipalloc[a] # None => ipalloc'[a] \in {ipalloc[a], None}]_vars
  BY HolderStays
<1> QED
  BY <1>1, TypeCorrect, PTL DEF Spec, HolderStable

\* A removed record never comes back: the late writes of a goroutine or of a
\* second DELETE find no record and write none.
THEOREM RemovedStaysRemoved == Spec => NoResurrection
<1>1. TypeOK /\ [Next]_vars =>
        [\A id \in VmIds : ppc[id] # "none" /\ ~Present(id) => ~Present(id)']_vars
  BY GoneStaysGone
<1> QED
  BY <1>1, TypeCorrect, PTL DEF Spec, NoResurrection
=============================================================================
