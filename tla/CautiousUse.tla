---------------------------- MODULE CautiousUse -----------------------------
(***************************************************************************)
(* The orchestrator under clients that take care.  The promises of the     *)
(* README (a ready VM runs with its own address; a deleted VM is gone and  *)
(* its address free) hold for clients that take all four cautions:         *)
(*                                                                         *)
(*   "names"    no name is asked for twice;                                *)
(*   "settled"  a VM is deleted only after its provision has ended;        *)
(*   "alone"    no two DELETEs of one VM are in flight together;           *)
(*   "pool"     before the DELETE, GET /v1/pool shows the address of the   *)
(*              record, if it has one, as used by this VM.                 *)
(*                                                                         *)
(* The code enforces none of them, and leaving one out of Cautions breaks  *)
(* a promise: the runs same_name, without_settled and without_pool show it *)
(* for three of them.                                                      *)
(***************************************************************************)
EXTENDS LifecycleProperties

CONSTANT Cautions   \* the cautions the clients take

AllCautions == {"names", "settled", "alone", "pool"}

ASSUME CautionsAssumption == Cautions \subseteq AllCautions

UniqueName(name) == \A id \in VmIds : prov[id].name # name

Settled(id) == ppc[id] \in {"done", "lost"}

Alone(id) == \A h \in Handlers : del[h].id # id

PoolShowsHolder(id) == vms[id].ip = None \/ Holds(id, vms[id].ip)

CautiousProvision(id, name) ==
  /\ "names" \in Cautions => UniqueName(name)
  /\ Provision(id, name)

CautiousDelete(h, id) ==
  /\ "settled" \in Cautions => Settled(id)
  /\ "alone" \in Cautions => Alone(id)
  /\ "pool" \in Cautions => PoolShowsHolder(id)
  /\ DeleteStart(h, id)

Requests ==
  \/ \E id \in VmIds : \E name \in Names \cup {id} : CautiousProvision(id, name)
  \/ \E h \in Handlers, id \in VmIds : CautiousDelete(h, id)

CautiousNext == Requests \/ Daemon

CautiousSpec == Init /\ [][CautiousNext]_vars

CautiousFairSpec == CautiousSpec /\ Fairness

-----------------------------------------------------------------------------

\* README "What it does": a ready VM runs, with the address its record shows,
\* and the pool has that address under this VM's id.
ReadyIsLive ==
  \A id \in VmIds :
    vms[id].status = "ready" =>
      /\ Running(id)
      /\ inventory[id].guest = vms[id].ip
      /\ Holds(id, vms[id].ip)

\* No two VMs run with one address, and the pool never offers the address of a
\* VM that runs: what a VM was booted with is held by it as long as it runs,
\* also when its provision failed and left it there for inspection.
RunningHoldsAddress ==
  \A m \in VmIds : Running(m) => Holds(m, inventory[m].guest)

\* A provision that died between Acquire and SetIP: docs/TROUBLESHOOTING.md:129
\* says that its address is still allocated.
LostUnrecorded(id) == ppc[id] = "lost" /\ vms[id].ip = None

\* No address leaks: who holds one has a record, which names the address once
\* the provision has ended, so that a DELETE gives it back; the only leak is the
\* crash between the two transactions that take an address and record it.
HolderHasRecord ==
  \A id \in VmIds, a \in Pool :
    Holds(id, a) => \/ Present(id) /\ (Settled(id) => vms[id].ip = a)
                    \/ LostUnrecorded(id)

\* README "Clean teardown": when the record of a VM is gone, so are the VM, its
\* files and its hold on an address, short of the leak named above.
DeletedIsGone ==
  \A id \in VmIds :
    ppc[id] # "none" /\ ~Present(id) =>
      /\ ~Registered(id)
      /\ datastore[prov[id].name] = {}
      /\ \A a \in Pool : Holds(id, a) => LostUnrecorded(id)

\* The state diagram of ARCHITECTURE.md:108-122.  It draws (any error) and (Delete)
\* from the four stages after "pending"; a DELETE also marks what is ready, failed
\* or still pending after a crash.  "deleting" is left only by the removal.
StatusEdges ==
  {<<"absent", "pending">>, <<"pending", "allocating">>,
   <<"allocating", "cloning">>, <<"cloning", "injecting">>,
   <<"injecting", "starting">>, <<"starting", "ready">>, <<"deleting", "absent">>}
  \cup ((InProgress \ {"pending"}) \X {"failed"})
  \cup ((Statuses \ {"deleting"}) \X {"deleting"})

StatusFollowsDiagram ==
  [][\A id \in VmIds :
       vms[id].status # vms'[id].status =>
         <<vms[id].status, vms'[id].status>> \in StatusEdges]_vars

\* vmx.go: a VM boots from a .vmx that names its own disk and nvram, not the
\* gold image's, and the disk is there.
BootsPatched ==
  [][\A m \in VmIds :
       ~Running(m) /\ Running(m)' =>
         {"disk", "vmx", "patched"} \subseteq datastore[inventory[m].name]]_vars

\* The pool recovers: a DELETE whose FindVM does not fail ends with the record
\* gone and nothing held by the id.
DeleteFrees ==
  \A id \in VmIds :
    (\E h \in Handlers : dpc[h] = "mark" /\ del[h].id = id) ~>
      (~Present(id) /\ \A a \in Pool : ~Holds(id, a))
=============================================================================
