------------------------------ MODULE RunProofs -------------------------------
(***************************************************************************)
(* BootsWithOwnAddress and OutcomeRecorded under any clients and faults,   *)
(* for the orchestrator and for a daemon that crashes and restarts, for    *)
(* every set of VMs, names and handlers and every pool.  The invariant is  *)
(* RunInv of RunInvariant: nothing in it speaks of more than one id, and   *)
(* what others do to a VM can only stop it.                                *)
(***************************************************************************)
EXTENDS RunInvariant, CautiousProofs

\* What somebody else may do to a VM: power it off, or take it away.
Calms(i) ==
  /\ Running(i)' => Running(i)
  /\ Registered(i)' => Registered(i) /\ inventory'[i].guest = inventory[i].guest

\* A goroutine that stays where it is, leaves the pipeline, or moves on in it
\* without the injection and the boot.
MovesOn(i) ==
  \/ ppc'[i] = ppc[i]
  \/ ppc'[i] \notin BeforeAddress \cup BeforeBoot
  \/ ppc[i] \in BeforeAddress /\ ppc'[i] \in BeforeAddress
  \/ ppc[i] \in BeforeBoot /\ ppc'[i] \in BeforeBoot \ {"starting", "poweron"}
  \/ ppc[i] = "starting" /\ ppc'[i] = "poweron"

LEMMA BootKept ==
  ASSUME NEW i \in VmIds, BootsOnce(i), Calms(i), MovesOn(i),
         prov'[i].ip = prov[i].ip
  PROVE  BootsOnce(i)'
  BY DEF BootsOnce, Calms, MovesOn, BeforeAddress, BeforeBoot, ClonePCs, Steps,
         Running, Registered

LEMMA FolderCalms ==
  ASSUME NEW n, NEW ok,
         \/ MakeDirectory(n, ok) \/ CopyVirtualDisk(n, ok)
         \/ CopyDatastoreFile(n, ok) \/ PatchVmx(n, ok) \/ DeleteDir(n, ok)
  PROVE  UNCHANGED inventory
  BY DEF MakeDirectory, CopyVirtualDisk, CopyDatastoreFile, PatchVmx, DeleteDir,
         DatastoreCall

LEMMA StopCalms ==
  ASSUME ESXiTypeOK, NEW m, NEW ok, PowerOff(m, ok) \/ Unregister(m, ok)
  PROVE  \A i \in VmIds : Calms(i)
<1> SUFFICES ASSUME NEW i \in VmIds
             PROVE  Calms(i)
  OBVIOUS
<1> USE DEF ESXiTypeOK, VmObject, Calms, Running, Registered
<1>1. CASE inventory' = inventory
  BY <1>1
<1>2. CASE inventory' = [inventory EXCEPT ![m] = [inventory[m] EXCEPT !.state = "off"]]
           /\ Registered(m)
  BY <1>2
<1>3. CASE inventory' = [inventory EXCEPT ![m] = NoVm]
  BY <1>3 DEF NoVm
<1> QED
  BY <1>1, <1>2, <1>3 DEF PowerOff, Unregister, InventoryCall, Outcome

LEMMA QuietCalms ==
  ASSUME UNCHANGED inventory
  PROVE  \A i \in VmIds : Calms(i)
  BY DEF Calms, Running, Registered

\* The goroutine of id at the one VM it may register, inject and boot.
LEMMA RegisterBoots ==
  ASSUME ESXiTypeOK, NEW id \in VmIds, NEW n, NEW ok, RegisterVM(id, n, ok)
  PROVE  /\ \A i \in VmIds : i # id => inventory'[i] = inventory[i]
         /\ Running(id)' => Running(id)
  BY DEF RegisterVM, InventoryCall, ESXiTypeOK, Running

LEMMA InjectBoots ==
  ASSUME ESXiTypeOK, NEW id \in VmIds, NEW a, NEW ok, SetExtraConfig(id, a, ok)
  PROVE  /\ \A i \in VmIds : i # id => inventory'[i] = inventory[i]
         /\ Running(id)' <=> Running(id)
         /\ ok => inventory'[id].guest = a
  BY DEF SetExtraConfig, InventoryCall, Outcome, ESXiTypeOK, VmObject, Running

LEMMA PowerOnBoots ==
  ASSUME ESXiTypeOK, NEW id \in VmIds, NEW ok, PowerOn(id, ok)
  PROVE  /\ \A i \in VmIds : i # id => inventory'[i] = inventory[i]
         /\ inventory'[id].guest = inventory[id].guest
         /\ Running(id)' => Registered(id)
  BY DEF PowerOn, InventoryCall, Outcome, ESXiTypeOK, VmObject, Running, Registered

-----------------------------------------------------------------------------
(* BootInv is kept by every step of a goroutine, a handler or a client.    *)

LEMMA OthersBoot ==
  ASSUME BootInv, NEW id \in VmIds,
         \A i \in VmIds : i # id => /\ ppc'[i] = ppc[i] /\ prov'[i] = prov[i]
                                    /\ inventory'[i] = inventory[i],
         BootsOnce(id)'
  PROVE  BootInv'
<1> SUFFICES ASSUME NEW i \in VmIds, i # id
             PROVE  BootsOnce(i)'
  BY DEF BootInv
<1> QED
  BY BootKept DEF BootInv, Calms, MovesOn, Running, Registered

LEMMA GoroutineBoots ==
  ASSUME TypeOK, BootInv, NEW id \in VmIds, runProvision(id)
  PROVE  BootInv'
<1> USE DEF TypeOK, storeVars, esxiVars
<1>1. /\ \A i \in VmIds : i # id => ppc'[i] = ppc[i] /\ prov'[i] = prov[i]
  <2>1. CASE RunStages(id)
    BY <2>1 DEF RunStages, SetAllocating, SetCloning, SetInjecting, SetStarting,
                SetReady, SetStatus, AcquireIP, RecordIP, Inject, Start, WaitReady,
                Launch, GoTo
  <2>2. CASE RunClone(id)
    BY <2>2 DEF RunClone, ResolveGold, CloneStep, CloneDone, GoTo
  <2>3. CASE RunFailure(id)
    BY <2>3 DEF RunFailure, MarkFailed, SetStatus, ReleaseAfterClone, ReleaseIP,
                CleanupFind, CleanupPowerOff, CleanupUnregister, CleanupDir,
                CleanupRelease, CleanupCheckpoints, GoTo
  <2> QED
    BY <2>1, <2>2, <2>3 DEF runProvision
<1>2. ASSUME \A i \in VmIds : Calms(i), MovesOn(id), prov'[id].ip = prov[id].ip
      PROVE  BootInv'
  BY <1>1, <1>2, BootKept DEF BootInv, MovesOn
<1>3. CASE SetAllocating(id) \/ SetCloning(id) \/ SetInjecting(id) \/ RecordIP(id)
           \/ SetStarting(id) \/ SetReady(id) \/ WaitReady(id) \/ Launch(id)
  BY <1>2, <1>3, QuietCalms
     DEF SetAllocating, SetCloning, SetInjecting, SetStarting, SetReady, SetStatus,
         RecordIP, WaitReady, Launch, GoTo, MovesOn, BeforeAddress, BeforeBoot, ClonePCs, Steps
<1>4. CASE AcquireIP(id)
  <2>1. BootsOnce(id)'
    BY <1>4 DEF AcquireIP, Acquire, AcquireFails, Free, GoTo, BootInv, BootsOnce,
                BeforeAddress, BeforeBoot, ClonePCs, Steps, Running, Registered,
                ProvLocals
  <2>2. UNCHANGED inventory
    BY <1>4 DEF AcquireIP
  <2> QED
    BY <1>1, <2>1, <2>2, OthersBoot
<1>5. CASE Inject(id)
  <2>1. PICK ok \in BOOLEAN : /\ SetExtraConfig(id, prov[id].ip, ok)
                              /\ GoTo(id, IF ok THEN "starting" ELSE "fail_cleanup")
    BY <1>5 DEF Inject
  <2>2. ppc[id] = "inject" /\ UNCHANGED prov
    BY <1>5 DEF Inject
  <2>3. BootsOnce(id)'
    BY <2>1, <2>2, InjectBoots
       DEF GoTo, BootInv, BootsOnce, BeforeAddress, BeforeBoot, ClonePCs, Steps
  <2> QED
    BY <1>1, <2>1, <2>3, InjectBoots, OthersBoot
<1>6. CASE Start(id)
  <2>1. PICK ok \in BOOLEAN : /\ PowerOn(id, ok)
                              /\ GoTo(id, IF ok THEN "wait" ELSE "fail_cleanup")
    BY <1>6 DEF Start
  <2>2. ppc[id] = "poweron" /\ UNCHANGED prov
    BY <1>6 DEF Start
  <2>3. BootsOnce(id)'
    BY <2>1, <2>2, PowerOnBoots
       DEF GoTo, BootInv, BootsOnce, BeforeAddress, BeforeBoot, ClonePCs, Steps
  <2> QED
    BY <1>1, <2>1, <2>3, PowerOnBoots, OthersBoot
<1>7. CASE ResolveGold(id) \/ CloneDone(id)
  BY <1>2, <1>7, QuietCalms
     DEF ResolveGold, CloneDone, GoTo, MovesOn, BeforeAddress, BeforeBoot, ClonePCs,
         Steps
<1>8. ASSUME NEW step \in Steps, CloneStep(id, step)
      PROVE  BootInv'
  <2>1. /\ ppc[id] = step /\ UNCHANGED prov
        /\ ppc'[id] \in {StepAfter[step], "fail_release"}
    BY <1>8 DEF CloneStep, GoTo
  <2>2. MovesOn(id) /\ ppc[id] \in BeforeBoot /\ ppc'[id] \notin {"starting", "poweron"}
    BY <2>1 DEF StepAfter, MovesOn, BeforeAddress, BeforeBoot, ClonePCs, Steps
  <2>3. CASE UNCHANGED inventory
    BY <1>2, <2>1, <2>2, <2>3, QuietCalms
  <2>4. ASSUME NEW n, NEW ok, RegisterVM(id, n, ok)
        PROVE  BootInv'
    <3>1. BootsOnce(id)'
      BY <2>1, <2>2, <2>4, RegisterBoots
         DEF BootInv, BootsOnce, StepAfter, BeforeAddress, BeforeBoot, ClonePCs, Steps
    <3> QED
      BY <1>1, <2>4, <3>1, RegisterBoots, OthersBoot
  <2> QED
    BY <1>8, <2>3, <2>4, FolderCalms DEF CloneStep, CloneCall
<1>9. CASE MarkFailed(id) \/ ReleaseAfterClone(id) \/ CleanupRelease(id)
           \/ CleanupCheckpoints(id) \/ CleanupFind(id)
  BY <1>2, <1>9, QuietCalms
     DEF MarkFailed, SetStatus, ReleaseAfterClone, CleanupRelease, ReleaseIP,
         CleanupCheckpoints, CleanupFind, GoTo, FailThen, MovesOn, BeforeAddress,
         BeforeBoot, ClonePCs, Steps, ProvLocals
<1>10. CASE CleanupPowerOff(id) \/ CleanupUnregister(id)
  BY <1>2, <1>10, StopCalms
     DEF CleanupPowerOff, CleanupUnregister, GoTo, MovesOn, BeforeAddress, BeforeBoot,
         ClonePCs, Steps
<1>11. CASE CleanupDir(id)
  BY <1>2, <1>11, FolderCalms, QuietCalms
     DEF CleanupDir, GoTo, MovesOn, BeforeAddress, BeforeBoot, ClonePCs, Steps
<1> QED
  BY <1>3, <1>4, <1>5, <1>6, <1>7, <1>8, <1>9, <1>10, <1>11
     DEF runProvision, RunStages, RunClone, RunFailure

LEMMA HandlerBoots ==
  ASSUME TypeOK, BootInv, NEW h \in Handlers, Delete(h)
  PROVE  BootInv'
<1> USE DEF TypeOK, storeVars, esxiVars
<1>1. UNCHANGED <<ppc, prov>>
  BY DEF Delete, DeleteMark, DeleteFind, DeletePowerOff, DeleteUnregister,
         DeleteFiles, DeleteRelease, DeleteCheckpoints, DeleteRecord
<1>2. \A i \in VmIds : Calms(i)
  <2>1. CASE DeletePowerOff(h) \/ DeleteUnregister(h)
    BY <2>1, StopCalms DEF DeletePowerOff, DeleteUnregister
  <2>2. CASE DeleteFiles(h)
    BY <2>2, FolderCalms, QuietCalms DEF DeleteFiles
  <2>3. CASE DeleteMark(h) \/ DeleteFind(h) \/ DeleteRelease(h)
             \/ DeleteCheckpoints(h) \/ DeleteRecord(h)
    BY <2>3, QuietCalms
       DEF DeleteMark, DeleteFind, DeleteRelease, DeleteCheckpoints, DeleteRecord
  <2> QED
    BY <2>1, <2>2, <2>3 DEF Delete
<1> QED
  BY <1>1, <1>2, BootKept DEF BootInv, MovesOn

LEMMA RequestBoots ==
  ASSUME TypeOK, BootInv, NEW id \in VmIds,
         \/ \E name \in Names \cup {id} : Provision(id, name)
         \/ \E h \in Handlers : DeleteStart(h, id)
  PROVE  BootInv'
<1> USE DEF TypeOK, storeVars, esxiVars
<1>1. /\ UNCHANGED inventory
      /\ \A i \in VmIds : prov'[i].ip = prov[i].ip
      /\ \A i \in VmIds : MovesOn(i)
  BY DEF Provision, DeleteStart, GoTo, ProvLocals, MovesOn, BeforeAddress
<1> QED
  BY <1>1, QuietCalms, BootKept DEF BootInv

LEMMA BootInductive ==
  ASSUME TypeOK, BootInv, [Next]_vars
  PROVE  BootInv'
<1>1. CASE UNCHANGED vars
  BY <1>1, QuietCalms, BootKept DEF vars, BootInv, MovesOn
<1> QED
  BY <1>1, GoroutineBoots, HandlerBoots, RequestBoots DEF Next, Daemon

LEMMA InitBoots == Init => BootInv
<1> SUFFICES ASSUME Init, NEW i \in VmIds
             PROVE  BootsOnce(i)
  BY DEF BootInv
<1>1. ppc[i] = "none" /\ inventory[i] = NoVm
  BY DEF Init, ESXiInit
<1> QED
  BY <1>1 DEF NoVm, BootsOnce, BeforeBoot, ClonePCs, Steps, Running, Registered

\* A crash or an exit: some goroutines are lost, at the host nothing changes.
LEMMA EndBoots ==
  ASSUME BootInv, UNCHANGED <<inventory, prov>>,
         \A i \in VmIds : ppc'[i] \in {ppc[i], "lost"}
  PROVE  BootInv'
  BY QuietCalms, BootKept
     DEF BootInv, MovesOn, BeforeAddress, BeforeBoot, ClonePCs, Steps

LEMMA BootMeans == TypeOK /\ BootInv => BootsWithOwnAddress
  BY DEF BootInv, BootsOnce, BootsWithOwnAddress

-----------------------------------------------------------------------------
(* OutcomeInv is kept where the store takes every write.                   *)

\* The record of i may change only to an outcome, or go.
Closes(i) ==
  \/ vms'[i] = vms[i]
  \/ vms'[i].status \in {"ready", "failed", "deleting", "absent"}

LEMMA OutcomeKept ==
  ASSUME NEW i \in VmIds, ShowsOutcome(i), Closes(i),
         ppc'[i] \in AfterOutcome => ppc[i] \in AfterOutcome
  PROVE  ShowsOutcome(i)'
  BY DEF ShowsOutcome, Closes, Present

LEMMA OthersShow ==
  ASSUME OutcomeInv, NEW id \in VmIds,
         \A i \in VmIds : i # id => ppc'[i] = ppc[i] /\ vms'[i] = vms[i],
         ShowsOutcome(id)'
  PROVE  OutcomeInv'
  BY OutcomeKept DEF OutcomeInv, Closes

LEMMA GoroutineShows ==
  ASSUME TypeOK, OutcomeInv, "store" \notin Faults, NEW id \in VmIds, runProvision(id)
  PROVE  OutcomeInv'
<1> USE DEF TypeOK, storeVars, esxiVars
<1>1. ASSUME UNCHANGED vms, ~SetReady(id), ~MarkFailed(id)
      PROVE  OutcomeInv'
  <2>1. /\ \A i \in VmIds : i # id => ppc'[i] = ppc[i]
        /\ ppc'[id] \in AfterOutcome => ppc[id] \in AfterOutcome
    <3>1. CASE RunStages(id)
      BY <1>1, <3>1
         DEF RunStages, SetAllocating, SetCloning, SetInjecting, SetStarting,
             SetStatus, AcquireIP, RecordIP, Inject, Start, WaitReady, Launch, GoTo,
             AfterOutcome, CleanupPCs
    <3>2. CASE RunClone(id)
      BY <3>2 DEF RunClone, ResolveGold, CloneStep, CloneDone, GoTo, AfterOutcome,
                  CleanupPCs, StepAfter, Steps
    <3>3. CASE RunFailure(id)
      BY <1>1, <3>3
         DEF RunFailure, ReleaseAfterClone, ReleaseIP, CleanupFind, CleanupPowerOff,
             CleanupUnregister, CleanupDir, CleanupRelease, CleanupCheckpoints, GoTo,
             AfterOutcome, CleanupPCs
    <3> QED
      BY <3>1, <3>2, <3>3 DEF runProvision
  <2> QED
    BY <1>1, <2>1, OutcomeKept DEF OutcomeInv, Closes
<1>2. ASSUME NEW at, NEW s \in Statuses, NEW next, SetStatus(id, at, s, next),
             next \in AfterOutcome => s \in {"ready", "failed"}
      PROVE  OutcomeInv'
  BY <1>2, OthersShow
     DEF SetStatus, UpdateStatus, WriteMayFail, GoTo, OutcomeInv, ShowsOutcome, Present,
         StoreTypeOK, VmRecord
<1>3. CASE RecordIP(id)
  BY <1>3, OthersShow
     DEF RecordIP, SetIP, GoTo, OutcomeInv, ShowsOutcome, AfterOutcome, CleanupPCs,
         StoreTypeOK, VmRecord
<1>4. CASE SetReady(id) \/ MarkFailed(id)
  BY <1>2, <1>4 DEF SetReady, MarkFailed, Statuses
<1>5. CASE UNCHANGED vms
  BY <1>1, <1>4, <1>5
<1>6. CASE RunStages(id)
  BY <1>2, <1>3, <1>4, <1>5, <1>6
     DEF RunStages, SetAllocating, SetCloning, SetInjecting, SetStarting,
         AcquireIP, Inject, Start, WaitReady, Launch, Statuses, InProgress, AfterOutcome,
         CleanupPCs
<1>7. CASE RunClone(id)
  BY <1>5, <1>7 DEF RunClone, ResolveGold, CloneStep, CloneDone
<1>8. CASE RunFailure(id)
  BY <1>4, <1>5, <1>8
     DEF RunFailure, ReleaseAfterClone, ReleaseIP, CleanupFind, CleanupPowerOff,
         CleanupUnregister, CleanupDir, CleanupRelease, CleanupCheckpoints
<1> QED
  BY <1>6, <1>7, <1>8 DEF runProvision

LEMMA HandlerShows ==
  ASSUME TypeOK, OutcomeInv, NEW h \in Handlers, Delete(h)
  PROVE  OutcomeInv'
<1> USE DEF TypeOK, storeVars, esxiVars
<1>1. UNCHANGED ppc
  BY DEF Delete, DeleteMark, DeleteFind, DeletePowerOff, DeleteUnregister,
         DeleteFiles, DeleteRelease, DeleteCheckpoints, DeleteRecord
<1>2. \A i \in VmIds : Closes(i)
  <2>1. CASE DeleteMark(h)
    BY <2>1 DEF DeleteMark, UpdateStatus, Closes, StoreTypeOK, VmRecord
  <2>2. CASE DeleteRecord(h)
    BY <2>2 DEF DeleteRecord, RemoveRecord, NoRecord, Closes, StoreTypeOK
  <2>3. CASE UNCHANGED vms
    BY <2>3 DEF Closes
  <2> QED
    BY <2>1, <2>2, <2>3
       DEF Delete, DeleteFind, DeletePowerOff, DeleteUnregister, DeleteFiles,
           DeleteRelease, DeleteCheckpoints
<1> QED
  BY <1>1, <1>2, OutcomeKept DEF OutcomeInv

LEMMA RequestShows ==
  ASSUME TypeOK, OutcomeInv, NEW id \in VmIds,
         \/ \E name \in Names \cup {id} : Provision(id, name)
         \/ \E h \in Handlers : DeleteStart(h, id)
  PROVE  OutcomeInv'
<1> USE DEF TypeOK, storeVars, esxiVars
<1>1. ASSUME NEW name, Provision(id, name)
      PROVE  OutcomeInv'
  BY <1>1, OthersShow
     DEF Provision, Put, GoTo, ShowsOutcome, AfterOutcome, CleanupPCs, StoreTypeOK
<1>2. ASSUME NEW h, DeleteStart(h, id)
      PROVE  OutcomeInv'
  BY <1>2, OutcomeKept DEF DeleteStart, OutcomeInv, Closes
<1> QED
  BY <1>1, <1>2

LEMMA OutcomeInductive ==
  ASSUME TypeOK, OutcomeInv, "store" \notin Faults, [Next]_vars
  PROVE  OutcomeInv'
<1>1. CASE UNCHANGED vars
  BY <1>1, OutcomeKept DEF vars, OutcomeInv, Closes
<1> QED
  BY <1>1, GoroutineShows, HandlerShows, RequestShows DEF Next, Daemon

LEMMA InitOutcome == Init => OutcomeInv
  BY DEF Init, OutcomeInv, ShowsOutcome, AfterOutcome, CleanupPCs

LEMMA EndShows ==
  ASSUME OutcomeInv, UNCHANGED vms, \A i \in VmIds : ppc'[i] \in {ppc[i], "lost"}
  PROVE  OutcomeInv'
  BY OutcomeKept DEF OutcomeInv, Closes, AfterOutcome, CleanupPCs

LEMMA OutcomeMeans == OutcomeInv => OutcomeRecorded
  BY DEF OutcomeInv, ShowsOutcome, OutcomeRecorded, AfterOutcome

LEMMA DrawnInductive ==
  ASSUME TypeOK, RecordsDrawn, [Next]_vars
  PROVE  RecordsDrawn'
<1> USE DEF TypeOK, StoreTypeOK, RecordsDrawn, Present
<1>1. \A i \in VmIds : ppc'[i] = "none" => ppc[i] = "none"
  <2>1. ASSUME NEW id \in VmIds, runProvision(id)
        PROVE  /\ \A i \in VmIds : i # id => ppc'[i] = ppc[i]
               /\ ppc'[id] # "none"
    <3>1. CASE RunStages(id)
      BY <3>1 DEF RunStages, SetAllocating, SetCloning, SetInjecting, SetStarting,
                  SetReady, SetStatus, AcquireIP, RecordIP, Inject, Start, WaitReady,
                  Launch, GoTo
    <3>2. CASE RunClone(id)
      BY <3>2 DEF RunClone, ResolveGold, CloneStep, CloneDone, GoTo, StepAfter, Steps
    <3>3. CASE RunFailure(id)
      BY <3>3 DEF RunFailure, MarkFailed, FailThen, SetStatus, ReleaseAfterClone, ReleaseIP,
                  CleanupFind, CleanupPowerOff, CleanupUnregister, CleanupDir,
                  CleanupRelease, CleanupCheckpoints, GoTo
    <3> QED
      BY <2>1, <3>1, <3>2, <3>3 DEF runProvision
  <2>2. ASSUME NEW h \in Handlers, Delete(h)
        PROVE  UNCHANGED ppc
    BY <2>2 DEF Delete, DeleteMark, DeleteFind, DeletePowerOff, DeleteUnregister,
                DeleteFiles, DeleteRelease, DeleteCheckpoints, DeleteRecord
  <2> QED
    BY <2>1, <2>2 DEF Next, Daemon, Provision, DeleteStart, GoTo, vars
<1>2. CASE \E id \in VmIds : \E name : Provision(id, name)
  BY <1>1, <1>2 DEF Provision, Put, GoTo
<1>3. CASE \/ UNCHANGED vms
           \/ \E id, s : s \in Statuses /\ UpdateStatus(id, s)
           \/ \E id, a : SetIP(id, a)
           \/ \E id : RemoveRecord(id)
  <2>1. \A i \in VmIds : vms'[i].status # "absent" => vms[i].status # "absent"
    BY <1>3 DEF UpdateStatus, SetIP, RemoveRecord, NoRecord, VmRecord
  <2> QED
    BY <1>1, <2>1
<1> QED
  BY <1>2, <1>3, RecordStep

LEMMA InitDrawn == Init => RecordsDrawn
  BY DEF Init, StoreInit, NoRecord, RecordsDrawn, Present

-----------------------------------------------------------------------------
(* The theorems.                                                           *)

\* cloud-init reads guestinfo at boot: whatever the clients ask for, whatever
\* fails and whoever tears down whose VM, a VM that runs was booted with the
\* address its own provision acquired.
THEOREM BootsWithItsOwn == Spec => []BootsWithOwnAddress
<1>1. Init => TypeOK /\ BootInv
  BY InitType, InitBoots
<1>2. TypeOK /\ BootInv /\ [Next]_vars => (TypeOK /\ BootInv)'
  BY TypeInductive, BootInductive
<1> QED
  BY <1>1, <1>2, BootMeans, PTL DEF Spec

\* The invariant itself: its parts about the boot and the drawn ids hold under
\* every fault, the part about the outcome where the store takes its writes.
THEOREM RunInvHolds ==
  ASSUME "store" \notin Faults
  PROVE  Spec => []RunInv
<1>1. Init => TypeOK /\ RunInv
  BY InitType, InitBoots, InitOutcome, InitDrawn DEF RunInv
<1>2. TypeOK /\ RunInv /\ [Next]_vars => (TypeOK /\ RunInv)'
  BY TypeInductive, BootInductive, OutcomeInductive, DrawnInductive DEF RunInv
<1> QED
  BY <1>1, <1>2, PTL DEF Spec

\* A goroutine that has returned leaves an outcome in its record, and not a
\* stage that nobody progresses, as long as the store takes its writes.
THEOREM OutcomesAreRecorded ==
  ASSUME "store" \notin Faults
  PROVE  Spec => []OutcomeRecorded
<1>1. Init => TypeOK /\ OutcomeInv
  BY InitType, InitOutcome
<1>2. TypeOK /\ OutcomeInv /\ [Next]_vars => (TypeOK /\ OutcomeInv)'
  BY TypeInductive, OutcomeInductive
<1> QED
  BY <1>1, <1>2, OutcomeMeans, PTL DEF Spec

LEMMA VmaasdMoves ==
  ASSUME VmaasdTypeOK, [VmaasdNext]_vmaasdVars
  PROVE  \/ [Next]_vars
         \/ /\ UNCHANGED <<ipalloc, vms, inventory, prov>>
            /\ \A i \in VmIds : ppc'[i] \in {ppc[i], "lost"}
<1>1. CASE Exit \/ Crash
  BY <1>1 DEF Exit, Crash, Dies, storeVars, esxiVars
<1>2. CASE Serve \/ Work
  BY <1>2 DEF Serve, Work, Requests, CautiousProvision, CautiousDelete, Next
<1> QED
  BY <1>1, <1>2 DEF VmaasdNext, Stops, Shutdown, Drained, Waited, Restart, vmaasdVars

\* The same for a daemon that crashes and restarts at any step: what the next
\* process finds at the host and in the store is no worse.
THEOREM RunsSurviveTheDaemon ==
  VmaasdSpec => /\ []BootsWithOwnAddress
                /\ "store" \notin Faults => []OutcomeRecorded
<1>1. VmaasdInit => BootInv /\ OutcomeInv
  BY InitBoots, InitOutcome DEF VmaasdInit
<1>2. VmaasdTypeOK /\ BootInv /\ [VmaasdNext]_vmaasdVars => BootInv'
  BY VmaasdMoves, BootInductive, EndBoots DEF VmaasdTypeOK
<1>3. /\ "store" \notin Faults
      /\ VmaasdTypeOK /\ OutcomeInv /\ [VmaasdNext]_vmaasdVars
      => OutcomeInv'
  BY VmaasdMoves, OutcomeInductive, EndShows DEF VmaasdTypeOK
<1>4. VmaasdTypeOK /\ BootInv => BootsWithOwnAddress
  BY BootMeans DEF VmaasdTypeOK
<1>5. VmaasdSpec => []BootsWithOwnAddress
  BY <1>1, <1>2, <1>4, VmaasdTypeCorrect, PTL DEF VmaasdSpec
<1>6. ASSUME "store" \notin Faults
      PROVE  VmaasdSpec => []OutcomeRecorded
  <2>1. VmaasdTypeOK /\ OutcomeInv /\ [VmaasdNext]_vmaasdVars => OutcomeInv'
    BY <1>3, <1>6
  <2> QED
    BY <1>1, <2>1, OutcomeMeans, VmaasdTypeCorrect, PTL DEF VmaasdSpec
<1> QED
  BY <1>5, <1>6

\* alloc.go:7-8 and store.go's Delete, for a daemon that crashes and restarts at
\* any step: the pool and the store outlive it, so the next process gives no held
\* address to another VM, and writes no record that a former one removed.
THEOREM PoolAndStoreOutliveTheDaemon ==
  VmaasdSpec => HolderStable /\ NoResurrection
<1>1. VmaasdTypeOK /\ [VmaasdNext]_vmaasdVars =>
        [\A a \in Pool :
           ipalloc[a] # None => ipalloc'[a] \in {ipalloc[a], None}]_vars
  BY VmaasdMoves, HolderStays DEF VmaasdTypeOK
<1>2. VmaasdTypeOK /\ [VmaasdNext]_vmaasdVars =>
        [\A id \in VmIds : ppc[id] # "none" /\ ~Present(id) => ~Present(id)']_vars
  BY VmaasdMoves, GoneStaysGone DEF VmaasdTypeOK, Present
<1> QED
  BY <1>1, <1>2, VmaasdTypeCorrect, PTL DEF VmaasdSpec, HolderStable, NoResurrection

\* orchestrator.go:10-11, "Wait() blocks until all in-flight goroutines finish":
\* whatever its clients ask for, also while the daemon stops, and whatever fails,
\* every record in a stage when Wait returns is one that an earlier end of the
\* process left, or that a POST has written and not yet started a goroutine for.
THEOREM WaitCoversProvisions ==
  ASSUME "store" \notin Faults
  PROVE  VmaasdSpec => WaitCoversStarted
<1> DEFINE Inv == OutcomeInv /\ RecordsDrawn
<1>1. VmaasdInit => Inv
  BY InitOutcome, InitDrawn DEF VmaasdInit
<1>2. VmaasdTypeOK /\ Inv /\ [VmaasdNext]_vmaasdVars => Inv'
  <2> SUFFICES ASSUME VmaasdTypeOK, Inv, [VmaasdNext]_vmaasdVars
               PROVE  Inv'
    OBVIOUS
  <2>1. CASE [Next]_vars
    BY <2>1, OutcomeInductive, DrawnInductive DEF VmaasdTypeOK
  <2>2. CASE UNCHANGED vms /\ \A i \in VmIds : ppc'[i] \in {ppc[i], "lost"}
    BY <2>2, EndShows DEF RecordsDrawn, Present
  <2> QED
    BY <2>1, <2>2, VmaasdMoves
<1>3. Inv /\ [VmaasdNext]_vmaasdVars
        => [Waited => \A id \in VmIds :
              Present(id) /\ vms[id].status \in InProgress =>
                ppc[id] \in {"lost", "pending"}]_vmaasdVars
  BY DEF Waited, Ended, OutcomeInv, ShowsOutcome, AfterOutcome, RecordsDrawn, InProgress
<1> QED
  BY <1>1, <1>2, <1>3, VmaasdTypeCorrect, PTL DEF VmaasdSpec, WaitCoversStarted
=============================================================================
