-------------------------------- MODULE ESXi --------------------------------
(***************************************************************************)
(* The ESXi host as the daemon sees it through internal/esxi: datastore    *)
(* folders and the VM inventory.  The host itself is external; what each   *)
(* call does is taken from the helpers' comments and from how the daemon   *)
(* uses them.                                                              *)
(*                                                                         *)
(* A call has an outcome: the reply ok and whether the effect took place.  *)
(* A call the host can carry out may still reply with an error when it is  *)
(* in Faults, before or after its effect: a task.Wait that is cancelled or *)
(* loses the connection says nothing about the task.                       *)
(*                                                                         *)
(* A VM object is referred to (the MoRef) by the id of the provision that  *)
(* registered it; a provision registers at most one.                       *)
(***************************************************************************)
EXTENDS VmaasData

VARIABLES datastore,  \* folder name -> what the folder holds
          inventory   \* MoRef -> the registered VM

esxiVars == <<datastore, inventory>>

\* "vmx" is the copied .vmx; "patched" marks that it carries the new name.
Files == {"dir", "disk", "vmx", "patched"}

VmObject == [state : {"absent", "off", "on"},
             name  : AllNames \cup {None},
             guest : Pool \cup {None}]   \* the address in guestinfo.metadata

NoVm == [state |-> "absent", name |-> None, guest |-> None]

ESXiTypeOK ==
  /\ datastore \in [AllNames -> SUBSET Files]
  /\ inventory \in [VmIds -> VmObject]

ESXiInit ==
  /\ datastore = [n \in AllNames |-> {}]
  /\ inventory = [m \in VmIds |-> NoVm]

Registered(m) == inventory[m].state # "absent"

Running(m) == inventory[m].state = "on"

VmsNamed(n) == {m \in VmIds : Registered(m) /\ inventory[m].name = n}

\* The host keeps the files of a running VM locked.
Locked(n) == \E m \in VmsNamed(n) : Running(m)

\* What a call may answer, where can says whether the host can carry it out.
Outcome(call, can, ok, done) ==
  /\ done => can
  /\ \/ ok /\ done
     \/ ~ok /\ ~can
     \/ ~ok /\ call \in Faults

-----------------------------------------------------------------------------
(* Datastore calls on the folder n.                                        *)

DatastoreCall(call, can, ok, n, files) ==
  \E done \in BOOLEAN :
    /\ Outcome(call, can, ok, done)
    /\ datastore' = IF done THEN [datastore EXCEPT ![n] = files] ELSE datastore
    /\ UNCHANGED inventory

\* "already exists" is squashed.
MakeDirectory(n, ok) ==
  DatastoreCall("mkdir", TRUE, ok, n, datastore[n] \cup {"dir"})

\* force = true: an existing target is overwritten.
CopyVirtualDisk(n, ok) ==
  DatastoreCall("copydisk", "dir" \in datastore[n] /\ ~Locked(n), ok, n,
                datastore[n] \cup {"disk"})

\* The copy is the gold image's .vmx, so it is not patched.
CopyDatastoreFile(n, ok) ==
  DatastoreCall("copyvmx", "dir" \in datastore[n] /\ ~Locked(n), ok, n,
                (datastore[n] \ {"patched"}) \cup {"vmx"})

\* Download, patch, upload.
PatchVmx(n, ok) ==
  DatastoreCall("patchvmx", "vmx" \in datastore[n] /\ ~Locked(n), ok, n,
                datastore[n] \cup {"patched"})

\* Fails on a missing folder.
DeleteDir(n, ok) ==
  DatastoreCall("deletedir", datastore[n] # {} /\ ~Locked(n), ok, n, {})

-----------------------------------------------------------------------------
(* Inventory calls on the VM m.                                            *)

InventoryCall(call, can, ok, m, vm) ==
  \E done \in BOOLEAN :
    /\ Outcome(call, can, ok, done)
    /\ inventory' = IF done THEN [inventory EXCEPT ![m] = vm] ELSE inventory
    /\ UNCHANGED datastore

\* A .vmx that is registered already cannot be registered again.
RegisterVM(m, n, ok) ==
  InventoryCall("register", "vmx" \in datastore[n] /\ VmsNamed(n) = {}, ok, m,
                [state |-> "off", name |-> n, guest |-> None])

\* The four guestinfo keys; all that matters later is the address in them.
SetExtraConfig(m, a, ok) ==
  InventoryCall("inject", Registered(m), ok, m, [inventory[m] EXCEPT !.guest = a])

PowerOn(m, ok) ==
  InventoryCall("poweron",
                inventory[m].state = "off" /\ "disk" \in datastore[inventory[m].name],
                ok, m, [inventory[m] EXCEPT !.state = "on"])

\* Powering off a VM that is off already succeeds.
PowerOff(m, ok) ==
  InventoryCall("poweroff", Registered(m), ok, m,
                [inventory[m] EXCEPT !.state = "off"])

\* The host refuses to unregister a running VM.  The files stay.
Unregister(m, ok) ==
  InventoryCall("unregister", inventory[m].state = "off", ok, m, NoVm)

\* FindVM reads only: some VM of that name, ErrVMNotFound, or another error.
FindVM(n, m) == m \in VmsNamed(n)

VmNotFound(n) == VmsNamed(n) = {}
=============================================================================
