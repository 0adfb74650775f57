---------------------------- MODULE RunInvariant -----------------------------
(***************************************************************************)
(* Why BootsWithOwnAddress and OutcomeRecorded hold under any clients:     *)
(* what is true of the VM and of the record of an id at each stage of its  *)
(* goroutine, whatever the other goroutines and the handlers do to them.   *)
(* Others may stop and unregister a VM, and mark or remove a record; only  *)
(* its own goroutine registers the VM, injects, boots it, or writes any    *)
(* other status.                                                           *)
(***************************************************************************)
EXTENDS LifecycleProperties

BeforeAddress == {"none", "pending", "allocating", "acquire"}

\* From Acquire to the call that boots the VM.
BeforeBoot == {"setip", "cloning", "injecting", "inject", "starting", "poweron"}
              \cup ClonePCs

\* What is behind fail() and behind the last status.
AfterOutcome == {"release", "done"} \cup CleanupPCs

BootsOnce(id) ==
  /\ ppc[id] \in BeforeAddress \cup BeforeBoot => ~Running(id)
  /\ ppc[id] \in BeforeBoot \/ Running(id) => prov[id].ip \in Pool
  /\ Running(id) \/ (ppc[id] \in {"starting", "poweron"} /\ Registered(id)) =>
       inventory[id].guest = prov[id].ip

ShowsOutcome(id) ==
  ppc[id] \in AfterOutcome /\ Present(id) =>
    vms[id].status \in {"ready", "failed", "deleting"}

BootInv == \A id \in VmIds : BootsOnce(id)

OutcomeInv == \A id \in VmIds : ShowsOutcome(id)

\* A record comes with its goroutine.
RecordsDrawn == \A id \in VmIds : Present(id) => ppc[id] # "none"

\* The invariant that every step keeps, as long as the store takes every write.
RunInv == BootInv /\ OutcomeInv /\ RecordsDrawn
=============================================================================
