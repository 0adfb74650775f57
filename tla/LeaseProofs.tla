---------------------------- MODULE LeaseProofs -----------------------------
(***************************************************************************)
(* The daemon implements Lease: under the refinement mapping of            *)
(* AddressLease every step is a step of the lease or leaves it alone.      *)
(* AddressInv, before and after the step, has all that is needed: who is   *)
(* about to give an address back has powered its VM off, and who boots a   *)
(* VM holds the address it was injected with.                              *)
(***************************************************************************)
EXTENDS AddressLease, CautiousProofs

\* The mapping, by cases.
LEMMA UsesOf ==
  ASSUME RunningHoldsAddress
  PROVE  \A m \in VmIds :
           /\ Running(m) => /\ OnNetwork[m] = inventory[m].guest
                            /\ OnNetwork[m] \in Pool
                            /\ ipalloc[OnNetwork[m]] = m
           /\ ~Running(m) => OnNetwork[m] = None
  BY DEF RunningHoldsAddress, Holds, OnNetwork

\* The lease itself: its rules keep two VMs from having one address.
LEMMA LeaseInductive ==
  ASSUME Leases!TypeOK, Leases!UsedIsLeased, [Leases!Next]_(Leases!leaseVars)
  PROVE  Leases!TypeOK' /\ Leases!UsedIsLeased'
  BY DataAssumption DEF Leases!TypeOK, Leases!UsedIsLeased, Leases!Next, Leases!leaseVars,
     Leases!Grant, Leases!ComeUp, Leases!GoDown, Leases!GiveBack

-----------------------------------------------------------------------------
(* The two kinds of steps that the lease sees.                             *)

\* An address is acquired while the host is left alone.
LEMMA AcquireStep ==
  ASSUME UNCHANGED inventory, NEW a \in Pool, NEW v \in VmIds,
         ipalloc[a] = None, ipalloc' = [ipalloc EXCEPT ![a] = v]
  PROVE  [Leases!Next]_(Leases!leaseVars)
<1>1. OnNetwork' = OnNetwork
  BY DEF OnNetwork, Running
<1> QED
  BY <1>1 DEF Leases!Next, Leases!Grant

\* An address is given back while the host is left alone.
LEMMA ReleaseStep ==
  ASSUME AddressInv, AddressInv', UNCHANGED inventory, NEW a \in Pool,
         ipalloc' = [ipalloc EXCEPT ![a] = None]
  PROVE  [Leases!Next]_(Leases!leaseVars)
<1>1. OnNetwork' = OnNetwork
  BY DEF OnNetwork, Running
<1>2. ipalloc \in [Pool -> VmIds \cup {None}]
  BY DEF AddressInv, TypeOK, IPAllocTypeOK
<1>3. CASE ipalloc[a] = None
  BY <1>1, <1>2, <1>3 DEF Leases!leaseVars
<1>4. CASE ipalloc[a] # None
  <2>1. PICK v \in VmIds : ipalloc[a] = v
    BY <1>2, <1>4
  <2>2. OnNetwork[v] # a
    <3>1. CASE Running(v)
      <4>1. ipalloc'[inventory[v].guest] = v
        BY <3>1 DEF AddressInv, RunningHoldsAddress, Holds, Running
      <4>2. ipalloc'[a] # v
        BY <1>2, DataAssumption
      <4> QED
        BY <4>1, <4>2, <3>1 DEF OnNetwork
    <3>2. CASE ~Running(v)
      BY <3>2, DataAssumption DEF OnNetwork
    <3> QED
      BY <3>1, <3>2
  <2> QED
    BY <1>1, <2>1, <2>2 DEF Leases!Next, Leases!GiveBack
<1> QED
  BY <1>3, <1>4

\* One VM is changed at the host while the pool is left alone.
LEMMA HostStep ==
  ASSUME AddressInv, AddressInv', UNCHANGED ipalloc, NEW m \in VmIds,
         OthersKept(m),
         Running(m) /\ Running(m)' => inventory'[m].guest = inventory[m].guest
  PROVE  [Leases!Next]_(Leases!leaseVars)
<1>1. OnNetwork' = [OnNetwork EXCEPT ![m] = OnNetwork'[m]]
  BY DEF OnNetwork, Running, OthersKept
<1>2. /\ Running(m) => /\ OnNetwork[m] = inventory[m].guest
                       /\ OnNetwork[m] \in Pool
      /\ ~Running(m) => OnNetwork[m] = None
  BY UsesOf DEF AddressInv
<1>3. /\ Running(m)' => /\ OnNetwork'[m] = inventory'[m].guest
                        /\ OnNetwork'[m] \in Pool
                        /\ ipalloc[OnNetwork'[m]] = m
      /\ ~Running(m)' => OnNetwork'[m] = None
  BY DEF AddressInv, RunningHoldsAddress, Holds, OnNetwork, Running
<1>4. CASE Running(m) <=> Running(m)'
  <2>1. OnNetwork'[m] = OnNetwork[m]
    BY <1>2, <1>3, <1>4
  <2> QED
    BY <1>1, <2>1 DEF Leases!leaseVars, OnNetwork
<1>5. CASE ~Running(m) /\ Running(m)'
  <2>1. Leases!ComeUp(m, OnNetwork'[m])
    BY <1>1, <1>2, <1>3, <1>5 DEF Leases!ComeUp
  <2> QED
    BY <1>3, <1>5, <2>1 DEF Leases!Next
<1>6. CASE Running(m) /\ ~Running(m)'
  <2>1. Leases!GoDown(m)
    BY <1>1, <1>2, <1>3, <1>6, DataAssumption DEF Leases!GoDown
  <2> QED
    BY <2>1 DEF Leases!Next
<1> QED
  BY <1>4, <1>5, <1>6

-----------------------------------------------------------------------------
(* Every step of the daemon is of one of the two kinds, or of none.        *)

QuietStep == UNCHANGED <<ipalloc, inventory>>

StepOfPool ==
  /\ UNCHANGED inventory
  /\ \E a \in Pool :
       \/ ipalloc' = [ipalloc EXCEPT ![a] = None]
       \/ \E v \in VmIds : ipalloc[a] = None /\ ipalloc' = [ipalloc EXCEPT ![a] = v]

StepOfHost ==
  /\ UNCHANGED ipalloc
  /\ \E m \in VmIds :
       /\ OthersKept(m)
       /\ Running(m) /\ Running(m)' => inventory'[m].guest = inventory[m].guest

KindOfStep == QuietStep \/ StepOfPool \/ StepOfHost

LEMMA ReleaseKind ==
  ASSUME NEW a, Release(a), UNCHANGED inventory
  PROVE  KindOfStep
  BY DEF Release, KindOfStep, QuietStep, StepOfPool

LEMMA PowerOffKind ==
  ASSUME Reliable, AddressInv, NEW m \in VmIds, NEW ok, PowerOff(m, ok), UNCHANGED ipalloc
  PROVE  KindOfStep
<1>1. OthersKept(m) /\ ~Running(m)'
  BY PowerOffEffect DEF AddressInv, TypeOK
<1> QED
  BY <1>1 DEF KindOfStep, StepOfHost

LEMMA UnregisterKind ==
  ASSUME AddressInv, NEW m \in VmIds, NEW ok, Unregister(m, ok), UNCHANGED ipalloc
  PROVE  KindOfStep
<1>1. OthersKept(m) /\ inventory'[m] \in {inventory[m], NoVm}
  BY UnregisterEffect DEF AddressInv, TypeOK
<1>2. inventory'[m] = NoVm => ~Running(m)'
  BY DEF Running, NoVm
<1> QED
  BY <1>1, <1>2 DEF KindOfStep, StepOfHost

LEMMA StagesKind ==
  ASSUME AddressInv, NEW id \in VmIds, RunStages(id)
  PROVE  KindOfStep
<1>1. CASE AcquireIP(id)
  BY <1>1 DEF AcquireIP, Acquire, AcquireFails, Free, esxiVars,
              KindOfStep, QuietStep, StepOfPool
<1>2. CASE Inject(id)
  <2>1. PICK ok \in BOOLEAN : SetExtraConfig(id, prov[id].ip, ok)
    BY <1>2 DEF Inject
  <2>2. OthersKept(id) /\ inventory'[id].state = inventory[id].state
    BY <2>1, InjectEffect DEF AddressInv, TypeOK
  <2>3. ~Running(id)
    BY <1>2 DEF Inject, AddressInv, StoppedBeforeRelease, StoppedPCs
  <2>4. ~Running(id)'
    BY <2>2, <2>3 DEF Running
  <2> QED
    BY <1>2, <2>2, <2>3, <2>4 DEF Inject, KindOfStep, StepOfHost
<1>3. CASE Start(id)
  <2>1. PICK ok \in BOOLEAN : PowerOn(id, ok)
    BY <1>3 DEF Start
  <2>2. OthersKept(id) /\ inventory'[id].guest = inventory[id].guest
    BY <2>1, PowerOnEffect DEF AddressInv, TypeOK
  <2> QED
    BY <1>3, <2>2 DEF Start, KindOfStep, StepOfHost
<1>4. CASE \/ SetAllocating(id) \/ RecordIP(id) \/ SetCloning(id) \/ SetInjecting(id)
           \/ SetStarting(id) \/ WaitReady(id) \/ SetReady(id) \/ Launch(id)
  BY <1>4 DEF SetAllocating, RecordIP, SetCloning, SetInjecting, SetStarting,
              WaitReady, SetReady, SetStatus, Launch, esxiVars, KindOfStep, QuietStep
<1> QED
  BY <1>1, <1>2, <1>3, <1>4 DEF RunStages

LEMMA CloneKind ==
  ASSUME AddressInv, NEW id \in VmIds, RunClone(id)
  PROVE  KindOfStep
<1>1. CASE ResolveGold(id) \/ CloneDone(id)
  BY <1>1 DEF ResolveGold, CloneDone, esxiVars, KindOfStep, QuietStep
<1>2. ASSUME NEW step \in Steps, CloneStep(id, step)
      PROVE  KindOfStep
  <2>1. CASE UNCHANGED esxiVars
    BY <1>2, <2>1 DEF CloneStep, esxiVars, KindOfStep, QuietStep
  <2>2. ASSUME NEW ok \in BOOLEAN, CloneCall(id, step, prov[id].name, ok)
        PROVE  KindOfStep
    <3>1. CASE RegisterVM(id, prov[id].name, ok)
      <4>1. /\ OthersKept(id)
            /\ \/ inventory'[id] = inventory[id]
               \/ inventory'[id] = [state |-> "off", name |-> prov[id].name,
                                    guest |-> None]
        BY <3>1, RegisterEffect DEF AddressInv, TypeOK
      <4> QED
        BY <1>2, <4>1 DEF CloneStep, Running, KindOfStep, StepOfHost
    <3>2. CASE UNCHANGED inventory
      BY <1>2, <3>2 DEF CloneStep, KindOfStep, QuietStep
    <3> QED
      BY <2>2, <3>1, <3>2
         DEF CloneCall, MakeDirectory, CopyVirtualDisk, CopyDatastoreFile, PatchVmx,
             DatastoreCall
  <2> QED
    BY <1>2, <2>1, <2>2 DEF CloneStep
<1> QED
  BY <1>1, <1>2 DEF RunClone

LEMMA FailureKind ==
  ASSUME Reliable, AddressInv, NEW id \in VmIds, RunFailure(id)
  PROVE  KindOfStep
<1>1. CASE MarkFailed(id) \/ CleanupFind(id) \/ CleanupCheckpoints(id)
  BY <1>1 DEF MarkFailed, SetStatus, CleanupFind, CleanupCheckpoints, esxiVars,
              KindOfStep, QuietStep
<1>2. CASE CleanupDir(id)
  BY <1>2 DEF CleanupDir, DeleteDir, DatastoreCall, KindOfStep, QuietStep
<1>3. CASE ReleaseAfterClone(id) \/ CleanupRelease(id)
  BY <1>3, ReleaseKind DEF ReleaseAfterClone, CleanupRelease, ReleaseIP, esxiVars
<1>4. CASE CleanupPowerOff(id)
  <2>1. prov[id].vm = id
    BY <1>4 DEF CleanupPowerOff, AddressInv, FindsOwn
  <2> QED
    BY <1>4, <2>1, PowerOffKind DEF CleanupPowerOff
<1>5. CASE CleanupUnregister(id)
  <2>1. prov[id].vm = id
    BY <1>5 DEF CleanupUnregister, AddressInv, FindsOwn
  <2> QED
    BY <1>5, <2>1, UnregisterKind DEF CleanupUnregister
<1> QED
  BY <1>1, <1>2, <1>3, <1>4, <1>5 DEF RunFailure

LEMMA DeleteKind ==
  ASSUME Reliable, AddressInv, NEW h \in Handlers, Delete(h)
  PROVE  KindOfStep
<1>1. CASE \/ DeleteMark(h) \/ DeleteFind(h) \/ DeleteCheckpoints(h) \/ DeleteRecord(h)
  BY <1>1 DEF DeleteMark, DeleteFind, DeleteCheckpoints, DeleteRecord, esxiVars,
              KindOfStep, QuietStep
<1>2. CASE DeleteFiles(h)
  BY <1>2 DEF DeleteFiles, DeleteDir, DatastoreCall, KindOfStep, QuietStep
<1>3. CASE DeleteRelease(h)
  BY <1>3, ReleaseKind DEF DeleteRelease, esxiVars, KindOfStep, QuietStep
<1>4. ASSUME dpc[h] \in {"off", "unregister"}
      PROVE  del[h].vm \in VmIds
  BY <1>4 DEF AddressInv, FindsOwn, HandlersApart
<1>5. CASE DeletePowerOff(h)
  BY <1>4, <1>5, PowerOffKind DEF DeletePowerOff
<1>6. CASE DeleteUnregister(h)
  BY <1>4, <1>6, UnregisterKind DEF DeleteUnregister
<1> QED
  BY <1>1, <1>2, <1>3, <1>5, <1>6 DEF Delete

LEMMA DaemonKind ==
  ASSUME Reliable, AddressInv, [VmaasdNext]_vmaasdVars
  PROVE  KindOfStep
<1> USE DEF storeVars, esxiVars
<1>1. CASE Serve
  BY <1>1 DEF Serve, Requests, CautiousProvision, CautiousDelete, Provision,
              DeleteStart, KindOfStep, QuietStep
<1>2. CASE Work
  BY <1>2, StagesKind, CloneKind, FailureKind, DeleteKind DEF Work, Daemon, runProvision
<1>3. CASE Stops \/ Crash \/ Restart \/ UNCHANGED vmaasdVars
  BY <1>3 DEF Stops, Shutdown, Drained, Waited, Exit, Crash, Dies, Restart, vmaasdVars,
              vars, KindOfStep, QuietStep
<1> QED
  BY <1>1, <1>2, <1>3 DEF VmaasdNext

-----------------------------------------------------------------------------

LEMMA InitIsLeaseInit == VmaasdInit => Leases!Init
  BY DEF VmaasdInit, Init, IPAllocInit, ESXiInit, NoVm, Leases!Init, OnNetwork, Running

LEMMA StepIsLeaseStep ==
  ASSUME Reliable, AddressInv, AddressInv', [VmaasdNext]_vmaasdVars
  PROVE  [Leases!Next]_(Leases!leaseVars)
<1>1. CASE QuietStep
  BY <1>1 DEF QuietStep, Leases!leaseVars, OnNetwork, Running
<1>2. CASE StepOfPool
  <2>1. UNCHANGED inventory
    BY <1>2 DEF StepOfPool
  <2>2. ASSUME NEW a \in Pool, ipalloc' = [ipalloc EXCEPT ![a] = None]
        PROVE  [Leases!Next]_(Leases!leaseVars)
    BY <2>1, <2>2, ReleaseStep
  <2>3. ASSUME NEW a \in Pool, NEW v \in VmIds, ipalloc[a] = None,
               ipalloc' = [ipalloc EXCEPT ![a] = v]
        PROVE  [Leases!Next]_(Leases!leaseVars)
    BY <2>1, <2>3, AcquireStep
  <2> QED
    BY <1>2, <2>2, <2>3 DEF StepOfPool
<1>3. CASE StepOfHost
  BY <1>3, HostStep DEF StepOfHost
<1> QED
  BY <1>1, <1>2, <1>3, DaemonKind DEF KindOfStep

\* README.md:17-22 and alloc.go:7-11: whatever clients that take care request,
\* whatever fails, and whenever the daemon is killed or stopped and started
\* again, the addresses on the network follow the rules of the lease.
THEOREM DaemonImplementsLease ==
  ASSUME Careful, Reliable
  PROVE  VmaasdSpec => LeaseSpec
<1>1. VmaasdInit => AddressInv /\ Leases!Init
  BY InitInv, InitIsLeaseInit DEF VmaasdInit
<1>2. AddressInv /\ [VmaasdNext]_vmaasdVars => AddressInv'
  BY VmaasdInductive
<1>3. AddressInv /\ AddressInv' /\ [VmaasdNext]_vmaasdVars
        => [Leases!Next]_(Leases!leaseVars)
  BY StepIsLeaseStep
<1> QED
  BY <1>1, <1>2, <1>3, PTL DEF VmaasdSpec, LeaseSpec, Leases!Spec

\* alloc.go:7-8, "never double-allocates", as the rules of the lease alone
\* give it: two VMs never have one address on the network.
THEOREM LeasesAreExclusive == LeaseSpec => []Leases!Exclusive
<1>1. Leases!Init => Leases!TypeOK /\ Leases!UsedIsLeased
  BY DataAssumption DEF Leases!Init, Leases!TypeOK, Leases!UsedIsLeased
<1>2. /\ Leases!TypeOK /\ Leases!UsedIsLeased
      /\ [Leases!Next]_(Leases!leaseVars)
      => Leases!TypeOK' /\ Leases!UsedIsLeased'
  BY LeaseInductive
<1>3. Leases!UsedIsLeased => Leases!Exclusive
  BY DEF Leases!UsedIsLeased, Leases!Exclusive
<1> QED
  BY <1>1, <1>2, <1>3, PTL DEF LeaseSpec, Leases!Spec
=============================================================================
