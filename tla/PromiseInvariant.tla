-------------------------- MODULE PromiseInvariant ---------------------------
(***************************************************************************)
(* Why the promises of CautiousUse hold under all cautions, also across    *)
(* crashes and restarts: what the record of a VM says at each stage of its *)
(* provision, and what is left of the VM at each stage of its DELETE.      *)
(* Every step keeps this and AddressInv together.                          *)
(***************************************************************************)
EXTENDS CautiousInvariant

\* The stages before the address is recorded, and those before it is acquired.
BeforeSetIP == {"none", "pending", "allocating", "acquire", "setip"}

BeforeAcquire == {"none", "pending", "allocating", "acquire"}

\* The goroutine has its record, and an id has at most the address it acquired.
Provisioning(id) ==
  /\ ppc[id] # "none" /\ ~Settled(id) => Present(id)
  /\ ppc[id] \in BeforeAcquire => prov[id].ip = None
  /\ \A a \in Pool : Holds(id, a) => a = prov[id].ip

\* The record names that address from SetIP on; a crash may have come before.
RecordsAddress(id) ==
  Present(id) =>
    /\ ppc[id] \in BeforeSetIP => vms[id].ip = None
    /\ ppc[id] = "lost" => vms[id].ip \in {None, prov[id].ip}
    /\ ppc[id] \notin BeforeSetIP \cup {"lost"} => vms[id].ip = prov[id].ip

\* "ready" is written last, of a VM that was seen to run.
ReadyRuns(id) ==
  /\ ppc[id] = "ready" => Running(id)
  /\ vms[id].status = "ready" => ppc[id] = "done" /\ Running(id)

\* What a DELETE has done with the record and the address before each call.
TearsDown(h) ==
  LET id == del[h].id
  IN  /\ dpc[h] # "idle" => Present(id) /\ del[h].ip = vms[id].ip
      /\ dpc[h] \notin {"idle", "mark"} => vms[id].status = "deleting"
      /\ dpc[h] \in {"clear", "remove"} =>
           \A a \in Pool : Holds(id, a) => LostUnrecorded(id)

\* The invariant under which ReadyIsLive and HolderHasRecord are preserved by
\* every step, as AddressInv is for RunningHoldsAddress.
RecordInv ==
  /\ \A id \in VmIds : Provisioning(id) /\ RecordsAddress(id) /\ ReadyRuns(id)
  /\ \A h \in Handlers : TearsDown(h)
  /\ HolderHasRecord

\* What a DELETE has done with the VM and its files before each call.
Removes(h) ==
  /\ dpc[h] \in {"rmdir", "release", "clear", "remove"} => ~Registered(del[h].id)
  /\ dpc[h] \in {"release", "clear", "remove"} => datastore[del[h].name] = {}

\* The same for DeletedIsGone, where Unregister and DeleteDir answer truly.
GoneInv == (\A h \in Handlers : Removes(h)) /\ DeletedIsGone

\* While its goroutine works, the record shows the stage it is in.
ShowsStage(id) ==
  /\ ppc[id] \in {"pending", "allocating"} => vms[id].status = "pending"
  /\ ppc[id] \in {"acquire", "setip", "cloning"} => vms[id].status = "allocating"
  /\ ppc[id] \in ClonePCs \cup {"injecting"} => vms[id].status = "cloning"
  /\ ppc[id] \in {"inject", "starting"} => vms[id].status = "injecting"
  /\ ppc[id] \in {"poweron", "wait", "ready"} => vms[id].status = "starting"
  /\ ppc[id] \in DOMAIN FailThen => vms[id].status \in InProgress \ {"pending"}

\* No step of a first clone finds its checkpoint, and its folder fills step by
\* step.
ClonesInOrder(id) ==
  LET files == datastore[prov[id].name]
      done  == clones[id]
  IN  /\ ppc[id] \in BeforeSetIP \cup {"cloning", "gold", "mkdir"} => done = {}
      /\ ppc[id] = "copydisk" => done \subseteq {"mkdir"}
      /\ ppc[id] = "copyvmx" =>
           done \subseteq {"mkdir", "copydisk"} /\ "disk" \in files
      /\ ppc[id] = "patchvmx" =>
           done \subseteq {"mkdir", "copydisk", "copyvmx"} /\ {"disk", "vmx"} \subseteq files
      /\ ppc[id] = "register" => "register" \notin done
      /\ ppc[id] \in {"register", "clear", "injecting", "inject", "starting", "poweron"} =>
           {"disk", "vmx", "patched"} \subseteq files

\* The same for StatusFollowsDiagram and BootsPatched.
StageInv == \A id \in VmIds : ShowsStage(id) /\ ClonesInOrder(id)

PromiseInv == RecordInv /\ GoneInv /\ StageInv
=============================================================================
