------------------------- MODULE CautiousInvariant --------------------------
(***************************************************************************)
(* Why RunningHoldsAddress holds under all cautions: the invariant that    *)
(* every step keeps.  Names keep the VMs apart, so that what a goroutine   *)
(* or a handler finds by name is its own VM; who is about to release an    *)
(* address holds it; and by then its VM is off.                            *)
(***************************************************************************)
EXTENDS CautiousUse

\* From Acquire to the step after which the address may be someone else's.
HoldingPCs == {"setip", "cloning", "injecting", "inject", "starting", "poweron",
               "wait", "ready", "fail_release", "fail_cleanup", "release",
               "c_find", "c_off", "c_unregister", "c_rmdir", "c_release"}
              \cup ClonePCs

\* Before power-on, on the way out of a failed clone, and after power-off.
StoppedPCs == {"none", "pending", "allocating", "acquire", "setip", "cloning",
               "injecting", "inject", "starting", "poweron", "fail_release", "release",
               "c_unregister", "c_rmdir", "c_release", "c_clear"}
              \cup ClonePCs

\* A handler that has yet to release the address.
BeforeRelease == {"mark", "find", "off", "unregister", "rmdir", "release"}

\* A handler that has powered its VM off, or found none.
AfterPowerOff == {"unregister", "rmdir", "release", "clear", "remove"}

\* An id that was not drawn has nothing to its name, and a name has one VM.
NamesApart ==
  /\ \A id \in VmIds : ppc[id] = "none" => prov[id] = NoProvision
  /\ \A id \in VmIds : ppc[id] # "none" => prov[id].name # None
  /\ \A i, j \in VmIds : i # j /\ ppc[i] # "none" => prov[i].name # prov[j].name

\* The record and the VM of an id go by the name of its provision.
OwnNames ==
  \A id \in VmIds :
    /\ Present(id) => ppc[id] # "none" /\ vms[id].name = prov[id].name
    /\ Registered(id) => ppc[id] # "none" /\ inventory[id].name = prov[id].name

\* A handler works on its own on a VM whose provision has ended.
HandlersApart ==
  /\ \A h \in Handlers : dpc[h] # "idle" =>
       /\ del[h].id \in VmIds
       /\ Settled(del[h].id)
       /\ del[h].name = prov[del[h].id].name
  /\ \A g, h \in Handlers :
       g # h /\ dpc[g] # "idle" /\ dpc[h] # "idle" => del[g].id # del[h].id
  /\ \A h \in Handlers : dpc[h] = "idle" => del[h] = NoRequest

\* The VM a cleanup or a DELETE has found by name is its own.
FindsOwn ==
  /\ \A id \in VmIds : ppc[id] \in {"c_off", "c_unregister"} => prov[id].vm = id
  /\ \A h \in Handlers : dpc[h] \in {"off", "unregister"} => del[h].vm = del[h].id

\* Whoever is going to release an address holds it until then.
ReleasesOwn ==
  /\ \A id \in VmIds : ppc[id] \in HoldingPCs => Holds(id, prov[id].ip)
  /\ \A h \in Handlers :
       dpc[h] \in BeforeRelease /\ del[h].ip # None => Holds(del[h].id, del[h].ip)

\* No VM runs whose address is going to be released next.
StoppedBeforeRelease ==
  /\ \A id \in VmIds : ppc[id] \in StoppedPCs => ~Running(id)
  /\ \A h \in Handlers : dpc[h] \in AfterPowerOff => ~Running(del[h].id)

\* A VM that runs, or is about to, has the address its provision acquired.
InjectedOwn ==
  \A id \in VmIds :
    Running(id) \/ (ppc[id] \in {"starting", "poweron"} /\ Registered(id)) =>
      inventory[id].guest = prov[id].ip

\* The invariant under which RunningHoldsAddress is preserved by every step.
AddressInv ==
  /\ TypeOK
  /\ NamesApart
  /\ OwnNames
  /\ HandlersApart
  /\ FindsOwn
  /\ ReleasesOwn
  /\ StoppedBeforeRelease
  /\ InjectedOwn
  /\ RunningHoldsAddress
=============================================================================
