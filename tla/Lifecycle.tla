----------------------------- MODULE Lifecycle ------------------------------
(***************************************************************************)
(* The orchestrator (internal/lifecycle/orchestrator.go) with the clone    *)
(* procedure it calls (internal/clone/clone.go), over the store, the       *)
(* address pool and the ESXi host.                                         *)
(*                                                                         *)
(* Two kinds of process run concurrently: one goroutine per provision      *)
(* (runProvision) and one HTTP handler per DELETE in flight (Delete).      *)
(* Nothing synchronises them but bbolt's transactions, so every            *)
(* transaction and every ESXi call is a step of its own and the processes  *)
(* interleave between them.  ppc[id] and dpc[h] name the call a process is *)
(* about to make.                                                          *)
(***************************************************************************)
EXTENDS IPAlloc, Store, ESXi

CONSTANT Handlers   \* the DELETE requests that can be in flight at once

VARIABLES
  ppc,    \* program counter of each provision goroutine
  prov,   \* its locals: rec.Name, the acquired ip, the VM cleanup found
  dpc,    \* program counter of each Delete handler
  del     \* its locals: the id, and the record and the VM it read

procVars == <<ppc, prov, dpc, del>>
vars == <<ipalloc, vms, clones, datastore, inventory, ppc, prov, dpc, del>>

ClonePCs == Steps \cup {"gold", "clear"}

CleanupPCs == {"c_find", "c_off", "c_unregister", "c_rmdir", "c_release",
               "c_clear"}

\* "none": the id was not drawn yet.  "pending": the record is written and the
\* goroutine not started.  "done": it has returned.  "lost": it died with the
\* process, or would have been started by a handler that did.
ProvPCs == {"none", "pending", "allocating", "acquire", "setip", "cloning",
            "injecting", "inject", "starting", "poweron", "wait", "ready", "fail_return",
            "fail_release", "fail_cleanup", "release", "done", "lost"}
           \cup ClonePCs \cup CleanupPCs

DelPCs == {"idle", "mark", "find", "off", "unregister", "rmdir", "release",
           "clear", "remove"}

ProvLocals == [name : AllNames \cup {None}, ip : Pool \cup {None},
               vm : VmIds \cup {None}]

DelLocals == [id : VmIds \cup {None}, name : AllNames \cup {None},
              ip : Pool \cup {None}, vm : VmIds \cup {None}]

NoProvision == [name |-> None, ip |-> None, vm |-> None]
NoRequest == [id |-> None, name |-> None, ip |-> None, vm |-> None]

TypeOK ==
  /\ IPAllocTypeOK
  /\ StoreTypeOK
  /\ ESXiTypeOK
  /\ ppc \in [VmIds -> ProvPCs]
  /\ prov \in [VmIds -> ProvLocals]
  /\ dpc \in [Handlers -> DelPCs]
  /\ del \in [Handlers -> DelLocals]

Init ==
  /\ IPAllocInit
  /\ StoreInit
  /\ ESXiInit
  /\ ppc = [id \in VmIds |-> "none"]
  /\ prov = [id \in VmIds |-> NoProvision]
  /\ dpc = [h \in Handlers |-> "idle"]
  /\ del = [h \in Handlers |-> NoRequest]

GoTo(id, pc) == ppc' = [ppc EXCEPT ![id] = pc]

DelGoTo(h, pc) == dpc' = [dpc EXCEPT ![h] = pc]

-----------------------------------------------------------------------------
(* POST /v1/vms: the record is written, and then the goroutine is counted  *)
(* by the WaitGroup and started.  A Put that fails leaves nothing behind   *)
(* and is not a step.                                                      *)

Provision(id, name) ==
  /\ ppc[id] = "none"
  /\ Put(id, name)
  /\ prov' = [prov EXCEPT ![id].name = name]
  /\ GoTo(id, "pending")
  /\ UNCHANGED <<ipalloc, clones, esxiVars, dpc, del>>

\* o.wg.Add and go, in the handler.
Launch(id) ==
  /\ ppc[id] = "pending"
  /\ GoTo(id, "allocating")
  /\ UNCHANGED <<ipalloc, storeVars, esxiVars, prov, dpc, del>>

-----------------------------------------------------------------------------
(* runProvision up to the clone.                                           *)

\* setStatus(id, s): the goroutine goes on whether or not it was written.
SetStatus(id, at, s, next) ==
  /\ ppc[id] = at
  /\ UpdateStatus(id, s)
  /\ GoTo(id, next)
  /\ UNCHANGED <<ipalloc, clones, esxiVars, prov, dpc, del>>

\* Wrong on purpose: the VM boots before it was given its metadata.
SkipInjection(id) == SetStatus(id, "injecting", "injecting", "starting")

\* Wrong on purpose: the record says "ready" of a VM that is yet to start.
ReadyTooEarly(id) == SetStatus(id, "starting", "ready", "poweron")

SetAllocating(id) == SetStatus(id, "allocating", "allocating", "acquire")
SetCloning(id)    == SetStatus(id, "cloning", "cloning", "gold")
SetInjecting(id)  == SetStatus(id, "injecting", "injecting", "inject")
SetStarting(id)   == SetStatus(id, "starting", "starting", "poweron")
SetReady(id)      == SetStatus(id, "ready", "ready", "done")

AcquireIP(id) ==
  /\ ppc[id] = "acquire"
  /\ \/ \E a \in Pool :
          /\ Acquire(id, a)
          /\ prov' = [prov EXCEPT ![id].ip = a]
          /\ GoTo(id, "setip")
     \/ /\ AcquireFails
        /\ GoTo(id, "fail_return")
        /\ UNCHANGED prov
  /\ UNCHANGED <<storeVars, esxiVars, dpc, del>>

RecordIP(id) ==
  /\ ppc[id] = "setip"
  /\ SetIP(id, prov[id].ip)
  /\ GoTo(id, "cloning")
  /\ UNCHANGED <<ipalloc, clones, esxiVars, prov, dpc, del>>

-----------------------------------------------------------------------------
(* clone.Clone: five steps, each at most once per checkpoint.              *)

ResolveGold(id) ==
  /\ ppc[id] = "gold"
  /\ \/ GoTo(id, "mkdir")
     \/ "gold" \in Faults /\ GoTo(id, "fail_release")
  /\ UNCHANGED <<ipalloc, storeVars, esxiVars, prov, dpc, del>>

\* Wrong on purpose: the copied .vmx is registered unpatched.
StepAfterUnpatched == [mkdir |-> "copydisk", copydisk |-> "copyvmx",
                       copyvmx |-> "register", patchvmx |-> "register",
                       register |-> "clear"]

StepAfter == [mkdir |-> "copydisk", copydisk |-> "copyvmx",
              copyvmx |-> "patchvmx", patchvmx |-> "register",
              register |-> "clear"]

\* The ESXi call of a step, on the folder and under the name n.
CloneCall(id, step, n, ok) ==
  \/ step = "mkdir" /\ MakeDirectory(n, ok)
  \/ step = "copydisk" /\ CopyVirtualDisk(n, ok)
  \/ step = "copyvmx" /\ CopyDatastoreFile(n, ok)
  \/ step = "patchvmx" /\ PatchVmx(n, ok)
  \/ step = "register" /\ RegisterVM(id, n, ok)

\* once(): skip a step that has its checkpoint, else call and checkpoint; an
\* error of the call or of the checkpoint ends the clone.
CloneStep(id, step) ==
  /\ ppc[id] = step
  /\ IF CheckpointHas(id, step)
     THEN /\ GoTo(id, StepAfter[step])
          /\ UNCHANGED <<clones, esxiVars>>
     ELSE \E ok \in BOOLEAN :
            /\ CloneCall(id, step, prov[id].name, ok)
            /\ \/ /\ ok
                  /\ CheckpointSet(id, step)
                  /\ GoTo(id, StepAfter[step])
               \/ /\ ~ok \/ WriteMayFail
                  /\ UNCHANGED clones
                  /\ GoTo(id, "fail_release")
  /\ UNCHANGED <<ipalloc, vms, prov, dpc, del>>

CloneDone(id) ==
  /\ ppc[id] = "clear"
  /\ CheckpointClear(id)
  /\ GoTo(id, "injecting")
  /\ UNCHANGED <<ipalloc, vms, esxiVars, prov, dpc, del>>

-----------------------------------------------------------------------------
(* runProvision after the clone.                                           *)

Inject(id) ==
  /\ ppc[id] = "inject"
  /\ \E ok \in BOOLEAN :
       /\ SetExtraConfig(id, prov[id].ip, ok)
       /\ GoTo(id, IF ok THEN "starting" ELSE "fail_cleanup")
  /\ UNCHANGED <<ipalloc, storeVars, prov, dpc, del>>

\* Wrong on purpose: the error of PowerOn is dropped and nothing is awaited.
StartUnchecked(id) ==
  /\ ppc[id] = "poweron"
  /\ \E ok \in BOOLEAN : PowerOn(id, ok)
  /\ GoTo(id, "ready")
  /\ UNCHANGED <<ipalloc, storeVars, prov, dpc, del>>

Start(id) ==
  /\ ppc[id] = "poweron"
  /\ \E ok \in BOOLEAN :
       /\ PowerOn(id, ok)
       /\ GoTo(id, IF ok THEN "wait" ELSE "fail_cleanup")
  /\ UNCHANGED <<ipalloc, storeVars, prov, dpc, del>>

\* The guest reports the address cloud-init read at boot.
GuestReports(id, a) == Running(id) /\ inventory[id].guest = a

\* Wrong on purpose: no deadline, and errors are retried.
WaitForever(id) ==
  /\ ppc[id] = "wait"
  /\ GuestReports(id, prov[id].ip)
  /\ GoTo(id, "ready")
  /\ UNCHANGED <<ipalloc, storeVars, esxiVars, prov, dpc, del>>

\* Wrong on purpose: the alternative the comment in runProvision rejects, to
\* "just release IP-pool slot" of the VM that is left for inspection.
WaitThenRelease(id) ==
  /\ ppc[id] = "wait"
  /\ \/ GuestReports(id, prov[id].ip) /\ GoTo(id, "ready")
     \/ "wait" \in Faults /\ GoTo(id, "fail_release")
  /\ UNCHANGED <<ipalloc, storeVars, esxiVars, prov, dpc, del>>

\* Polling ends with the address reported, with an error of the Properties
\* call (the VM is gone), or with the timeout after five minutes.
WaitReady(id) ==
  /\ ppc[id] = "wait"
  /\ \/ GuestReports(id, prov[id].ip) /\ GoTo(id, "ready")
     \/ /\ ~GuestReports(id, prov[id].ip) \/ "wait" \in Faults
        /\ GoTo(id, "fail_return")
  /\ UNCHANGED <<ipalloc, storeVars, esxiVars, prov, dpc, del>>

-----------------------------------------------------------------------------
(* The error paths: fail() first, then what the failed stage undoes.       *)

FailThen == [fail_return |-> "done", fail_release |-> "release",
             fail_cleanup |-> "c_find"]

\* Wrong on purpose: an error path that does not call fail().
LeaveUnmarked(id) ==
  \E pc \in DOMAIN FailThen :
    /\ ppc[id] = pc
    /\ GoTo(id, FailThen[pc])
    /\ UNCHANGED <<ipalloc, storeVars, esxiVars, prov, dpc, del>>

MarkFailed(id) ==
  \E pc \in DOMAIN FailThen : SetStatus(id, pc, "failed", FailThen[pc])

\* A failed clone gives the address back; record, files and checkpoints stay.
ReleaseIP(id, at, next) ==
  /\ ppc[id] = at
  /\ Release(prov[id].ip)
  /\ GoTo(id, next)
  /\ UNCHANGED <<storeVars, esxiVars, prov, dpc, del>>

ReleaseAfterClone(id) == ReleaseIP(id, "release", "done")

CleanupFind(id) ==
  /\ ppc[id] = "c_find"
  /\ \/ \E m \in VmIds : /\ FindVM(prov[id].name, m)
                         /\ prov' = [prov EXCEPT ![id].vm = m]
                         /\ GoTo(id, "c_off")
     \/ /\ VmNotFound(prov[id].name) \/ "find" \in Faults
        /\ GoTo(id, "c_rmdir")
        /\ UNCHANGED prov
  /\ UNCHANGED <<ipalloc, storeVars, esxiVars, dpc, del>>

CleanupPowerOff(id) ==
  /\ ppc[id] = "c_off"
  /\ \E ok \in BOOLEAN : PowerOff(prov[id].vm, ok)
  /\ GoTo(id, "c_unregister")
  /\ UNCHANGED <<ipalloc, storeVars, prov, dpc, del>>

CleanupUnregister(id) ==
  /\ ppc[id] = "c_unregister"
  /\ \E ok \in BOOLEAN : Unregister(prov[id].vm, ok)
  /\ GoTo(id, "c_rmdir")
  /\ UNCHANGED <<ipalloc, storeVars, prov, dpc, del>>

CleanupDir(id) ==
  /\ ppc[id] = "c_rmdir"
  /\ \E ok \in BOOLEAN : DeleteDir(prov[id].name, ok)
  /\ GoTo(id, "c_release")
  /\ UNCHANGED <<ipalloc, storeVars, prov, dpc, del>>

CleanupRelease(id) == ReleaseIP(id, "c_release", "c_clear")

CleanupCheckpoints(id) ==
  /\ ppc[id] = "c_clear"
  /\ CheckpointClear(id)
  /\ GoTo(id, "done")
  /\ UNCHANGED <<ipalloc, vms, esxiVars, prov, dpc, del>>

-----------------------------------------------------------------------------
(* DELETE /v1/vms/{id}: Delete works on the record it read at the start.   *)

\* A missing record answers 404 and is not a step.
DeleteStart(h, id) ==
  /\ dpc[h] = "idle"
  /\ Present(id)
  /\ del' = [del EXCEPT ![h] = [id |-> id, name |-> vms[id].name,
                                ip |-> vms[id].ip, vm |-> None]]
  /\ DelGoTo(h, "mark")
  /\ UNCHANGED <<ipalloc, storeVars, esxiVars, ppc, prov>>

\* Wrong on purpose: the record keeps its status while it is torn down.
DeleteUnmarked(h) ==
  /\ dpc[h] = "mark"
  /\ DelGoTo(h, "find")
  /\ UNCHANGED <<ipalloc, storeVars, esxiVars, ppc, prov, del>>

DeleteMark(h) ==
  /\ dpc[h] = "mark"
  /\ UpdateStatus(del[h].id, "deleting")
  /\ DelGoTo(h, "find")
  /\ UNCHANGED <<ipalloc, clones, esxiVars, ppc, prov, del>>

\* Wrong on purpose: the VM is left in the inventory.
DeleteFilesOnly(h) ==
  /\ dpc[h] = "find"
  /\ DelGoTo(h, "rmdir")
  /\ UNCHANGED <<ipalloc, storeVars, esxiVars, ppc, prov, del>>

\* Any error but ErrVMNotFound ends the request; the record stays "deleting".
DeleteFind(h) ==
  /\ dpc[h] = "find"
  /\ \/ \E m \in VmIds : /\ FindVM(del[h].name, m)
                         /\ del' = [del EXCEPT ![h].vm = m]
                         /\ DelGoTo(h, "off")
     \/ /\ VmNotFound(del[h].name)
        /\ DelGoTo(h, "rmdir")
        /\ UNCHANGED del
     \/ /\ "find" \in Faults
        /\ DelGoTo(h, "idle")
        /\ del' = [del EXCEPT ![h] = NoRequest]
  /\ UNCHANGED <<ipalloc, storeVars, esxiVars, ppc, prov>>

\* Wrong on purpose: the power-off is retried until it succeeds.
DeletePowerOffRetried(h) ==
  /\ dpc[h] = "off"
  /\ \E ok \in BOOLEAN :
       /\ PowerOff(del[h].vm, ok)
       /\ DelGoTo(h, IF ok THEN "unregister" ELSE "off")
  /\ UNCHANGED <<ipalloc, storeVars, ppc, prov, del>>

\* From here on every error is logged and the next call is made all the same.
DeletePowerOff(h) ==
  /\ dpc[h] = "off"
  /\ \E ok \in BOOLEAN : PowerOff(del[h].vm, ok)
  /\ DelGoTo(h, "unregister")
  /\ UNCHANGED <<ipalloc, storeVars, ppc, prov, del>>

DeleteUnregister(h) ==
  /\ dpc[h] = "unregister"
  /\ \E ok \in BOOLEAN : Unregister(del[h].vm, ok)
  /\ DelGoTo(h, "rmdir")
  /\ UNCHANGED <<ipalloc, storeVars, ppc, prov, del>>

DeleteFiles(h) ==
  /\ dpc[h] = "rmdir"
  /\ \E ok \in BOOLEAN : DeleteDir(del[h].name, ok)
  /\ DelGoTo(h, "release")
  /\ UNCHANGED <<ipalloc, storeVars, ppc, prov, del>>

\* Wrong on purpose: the address is not given back.
DeleteKeepsAddress(h) ==
  /\ dpc[h] = "release"
  /\ DelGoTo(h, "clear")
  /\ UNCHANGED <<ipalloc, storeVars, esxiVars, ppc, prov, del>>

DeleteRelease(h) ==
  /\ dpc[h] = "release"
  /\ IF del[h].ip = None THEN UNCHANGED ipalloc ELSE Release(del[h].ip)
  /\ DelGoTo(h, "clear")
  /\ UNCHANGED <<storeVars, esxiVars, ppc, prov, del>>

DeleteCheckpoints(h) ==
  /\ dpc[h] = "clear"
  /\ CheckpointClear(del[h].id)
  /\ DelGoTo(h, "remove")
  /\ UNCHANGED <<ipalloc, vms, esxiVars, ppc, prov, del>>

DeleteRecord(h) ==
  /\ dpc[h] = "remove"
  /\ RemoveRecord(del[h].id)
  /\ DelGoTo(h, "idle")
  /\ del' = [del EXCEPT ![h] = NoRequest]
  /\ UNCHANGED <<ipalloc, clones, esxiVars, ppc, prov>>

-----------------------------------------------------------------------------
(* The processes and the specification.                                    *)

RunStages(id) ==
  \/ Launch(id)
  \/ SetAllocating(id) \/ AcquireIP(id) \/ RecordIP(id) \/ SetCloning(id)
  \/ SetInjecting(id) \/ Inject(id) \/ SetStarting(id) \/ Start(id)
  \/ WaitReady(id) \/ SetReady(id)

RunClone(id) ==
  \/ ResolveGold(id) \/ (\E step \in Steps : CloneStep(id, step))
  \/ CloneDone(id)

RunFailure(id) ==
  \/ MarkFailed(id) \/ ReleaseAfterClone(id) \/ CleanupFind(id)
  \/ CleanupPowerOff(id) \/ CleanupUnregister(id) \/ CleanupDir(id)
  \/ CleanupRelease(id) \/ CleanupCheckpoints(id)

runProvision(id) == RunStages(id) \/ RunClone(id) \/ RunFailure(id)

Delete(h) ==
  \/ DeleteMark(h) \/ DeleteFind(h) \/ DeletePowerOff(h)
  \/ DeleteUnregister(h) \/ DeleteFiles(h) \/ DeleteRelease(h)
  \/ DeleteCheckpoints(h) \/ DeleteRecord(h)

\* The daemon's own steps, which its scheduler runs.
Daemon == (\E id \in VmIds : runProvision(id)) \/ (\E h \in Handlers : Delete(h))

Next ==
  \/ \E id \in VmIds : \E name \in Names \cup {id} : Provision(id, name)
  \/ \E h \in Handlers, id \in VmIds : DeleteStart(h, id)
  \/ Daemon

Spec == Init /\ [][Next]_vars

Fairness ==
  /\ \A id \in VmIds : WF_vars(runProvision(id))
  /\ \A h \in Handlers : WF_vars(Delete(h))

FairSpec == Spec /\ Fairness
=============================================================================
