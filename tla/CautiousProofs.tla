--------------------------- MODULE CautiousProofs ---------------------------
(***************************************************************************)
(* RunningHoldsAddress for every set of VMs, names, handlers and every     *)
(* pool, under clients that take all four cautions, on a store whose       *)
(* writes succeed and a host whose FindVM and PowerOff answer truly; every *)
(* other call may fail.  The argument is AddressInv of CautiousInvariant,  *)
(* for the orchestrator first and at the end for a daemon that is killed,  *)
(* stopped and restarted.                                                  *)
(***************************************************************************)
EXTENDS CautiousInvariant, Vmaasd, LifecycleProofs

USE DEF IPAllocTypeOK, StoreTypeOK, ESXiTypeOK

\* What the theorem assumes of the clients and of the environment.
Careful == Cautions = AllCautions

Reliable == {"store", "find", "poweroff"} \cap Faults = {}

-----------------------------------------------------------------------------
(* What a call does to the VM m, and that it leaves the other VMs alone.   *)

OthersKept(m) == \A i \in VmIds : i # m => inventory'[i] = inventory[i]

LEMMA ReliableCall ==
  ASSUME NEW call, call \notin Faults, NEW can \in BOOLEAN, NEW ok, NEW done,
         Outcome(call, can, ok, done)
  PROVE  done <=> can
  BY DEF Outcome

LEMMA RegisterEffect ==
  ASSUME ESXiTypeOK, NEW m \in VmIds, NEW n, NEW ok, RegisterVM(m, n, ok)
  PROVE  /\ OthersKept(m)
         /\ \/ inventory'[m] = inventory[m]
            \/ inventory'[m] = [state |-> "off", name |-> n, guest |-> None]
  BY DEF RegisterVM, InventoryCall, OthersKept

LEMMA InjectEffect ==
  ASSUME ESXiTypeOK, NEW m \in VmIds, NEW a, NEW ok, SetExtraConfig(m, a, ok)
  PROVE  /\ OthersKept(m)
         /\ inventory'[m].state = inventory[m].state
         /\ inventory'[m].name = inventory[m].name
         /\ ok => inventory'[m].guest = a
<1> DEFINE vm == [inventory[m] EXCEPT !.guest = a]
<1>1. vm.state = inventory[m].state /\ vm.name = inventory[m].name /\ vm.guest = a
  BY DEF VmObject
<1>2. PICK done \in BOOLEAN :
        /\ Outcome("inject", Registered(m), ok, done)
        /\ inventory' = IF done THEN [inventory EXCEPT ![m] = vm] ELSE inventory
  BY DEF SetExtraConfig, InventoryCall
<1> HIDE DEF vm
<1>3. CASE done
  BY <1>1, <1>2, <1>3 DEF OthersKept
<1>4. CASE ~done
  BY <1>2, <1>4 DEF OthersKept, Outcome
<1> QED
  BY <1>3, <1>4

LEMMA PowerOnEffect ==
  ASSUME ESXiTypeOK, NEW m \in VmIds, NEW ok, PowerOn(m, ok)
  PROVE  /\ OthersKept(m)
         /\ inventory'[m].name = inventory[m].name
         /\ inventory'[m].guest = inventory[m].guest
         /\ inventory'[m].state \in {inventory[m].state, "on"}
         /\ inventory'[m] # inventory[m] => Registered(m)
  BY DEF PowerOn, InventoryCall, OthersKept, Outcome, VmObject, Registered

LEMMA PowerOffEffect ==
  ASSUME ESXiTypeOK, NEW m \in VmIds, NEW ok, PowerOff(m, ok), Reliable
  PROVE  /\ OthersKept(m)
         /\ inventory'[m].name = inventory[m].name
         /\ inventory'[m].guest = inventory[m].guest
         /\ Registered(m)' <=> Registered(m)
         /\ ~Running(m)'
<1> DEFINE vm == [inventory[m] EXCEPT !.state = "off"]
<1>1. /\ vm.state = "off"
      /\ vm.name = inventory[m].name
      /\ vm.guest = inventory[m].guest
  BY DEF VmObject
<1>2. PICK done \in BOOLEAN :
        /\ Outcome("poweroff", Registered(m), ok, done)
        /\ inventory' = IF done THEN [inventory EXCEPT ![m] = vm] ELSE inventory
  BY DEF PowerOff, InventoryCall
<1>3. done <=> Registered(m)
  BY <1>2, ReliableCall DEF Registered, Reliable
<1> HIDE DEF vm
<1>4. CASE done
  BY <1>1, <1>2, <1>3, <1>4 DEF OthersKept, Registered, Running
<1>5. CASE ~done
  BY <1>2, <1>3, <1>5 DEF OthersKept, Registered, Running
<1> QED
  BY <1>4, <1>5

LEMMA UnregisterEffect ==
  ASSUME ESXiTypeOK, NEW m \in VmIds, NEW ok, Unregister(m, ok)
  PROVE  /\ OthersKept(m)
         /\ inventory'[m] \in {inventory[m], NoVm}
  BY DEF Unregister, InventoryCall, OthersKept

\* Under AddressInv a search by the name of id finds the VM of id or nothing.
LEMMA FindOwn ==
  ASSUME AddressInv, NEW id \in VmIds, ppc[id] # "none", NEW m \in VmIds,
         FindVM(prov[id].name, m)
  PROVE  m = id
  BY DEF AddressInv, NamesApart, OwnNames, FindVM, VmsNamed

-----------------------------------------------------------------------------
(* A step that leaves the pool alone keeps AddressInv when the process may *)
(* stand where it goes and the VM it touched, its own, is as it should be. *)

RecordsKept ==
  \A i \in VmIds : Present(i)' => Present(i) /\ vms'[i].name = vms[i].name

ProvKept(id) ==
  \A i \in VmIds : /\ prov'[i].name = prov[i].name
                   /\ prov'[i].ip = prov[i].ip
                   /\ i # id => prov'[i] = prov[i]

LEMMA InitInv == Init => AddressInv
<1> SUFFICES ASSUME Init
             PROVE  AddressInv
  OBVIOUS
<1>1. TypeOK
  BY InitType
<1>2. \A id \in VmIds : /\ ppc[id] = "none"
                        /\ prov[id] = NoProvision
                        /\ ~Present(id)
                        /\ ~Registered(id)
                        /\ ~Running(id)
  BY DEF Init, StoreInit, ESXiInit, Present, Registered, Running, NoRecord, NoVm
<1>3. \A h \in Handlers : dpc[h] = "idle" /\ del[h] = NoRequest
  BY DEF Init
<1> QED
  BY <1>1, <1>2, <1>3
     DEF AddressInv, NamesApart, OwnNames, HandlersApart, FindsOwn, ReleasesOwn,
         StoppedBeforeRelease, InjectedOwn, RunningHoldsAddress, HoldingPCs,
         ClonePCs, Steps, BeforeRelease, AfterPowerOff

LEMMA GoroutineMoves ==
  ASSUME AddressInv, TypeOK', NEW id \in VmIds, NEW next,
         GoTo(id, next), UNCHANGED <<ipalloc, dpc, del>>, ProvKept(id),
         ~Settled(id), ppc[id] # "none", next # "none",
         RecordsKept, OthersKept(id),
         Registered(id)' => inventory'[id].name = prov[id].name,
         next \in HoldingPCs => ppc[id] \in HoldingPCs,
         next \in StoppedPCs => ~Running(id)',
         next \in {"c_off", "c_unregister"} => prov'[id].vm = id,
         Running(id)' \/ (next \in {"starting", "poweron"} /\ Registered(id)')
           => inventory'[id].guest = prov[id].ip,
         Running(id)' => Holds(id, inventory'[id].guest)
  PROVE  AddressInv'
<1> USE DEF AddressInv
<1>1. ppc'[id] = next /\ \A i \in VmIds : i # id => ppc'[i] = ppc[i]
  BY DEF GoTo, TypeOK
<1>2. \A i \in VmIds : i # id => /\ Registered(i)' = Registered(i)
                                 /\ Running(i)' = Running(i)
  BY DEF OthersKept, Registered, Running
<1>3. \A h \in Handlers : dpc[h] # "idle" => del[h].id # id /\ del[h].id \in VmIds
  BY DEF HandlersApart
<1>4. NamesApart'
  BY <1>1 DEF NamesApart, ProvKept
<1>5. OwnNames'
  BY <1>1, <1>2 DEF OwnNames, ProvKept, OthersKept, RecordsKept
<1>6. HandlersApart'
  BY <1>1, <1>3 DEF HandlersApart, ProvKept, Settled
<1>7. FindsOwn'
  BY <1>1 DEF FindsOwn, ProvKept
<1>8. ReleasesOwn'
  BY <1>1 DEF ReleasesOwn, ProvKept, Holds
<1>9. StoppedBeforeRelease'
  BY <1>1, <1>2, <1>3 DEF StoppedBeforeRelease, AfterPowerOff
<1>10. InjectedOwn'
  BY <1>1, <1>2 DEF InjectedOwn, ProvKept, OthersKept
<1>11. RunningHoldsAddress'
  BY <1>2 DEF RunningHoldsAddress, OthersKept, Holds
<1> QED
  BY <1>4, <1>5, <1>6, <1>7, <1>8, <1>9, <1>10, <1>11

LEMMA HandlerMoves ==
  ASSUME AddressInv, TypeOK', NEW h \in Handlers, NEW next,
         DelGoTo(h, next), UNCHANGED <<ipalloc, ppc, prov>>, dpc[h] # "idle",
         \A g \in Handlers : g # h => del'[g] = del[g],
         IF next = "idle"
         THEN del'[h] = NoRequest
         ELSE /\ del'[h].id = del[h].id
              /\ del'[h].name = del[h].name
              /\ del'[h].ip = del[h].ip,
         NEW m \in VmIds, m = del[h].id, RecordsKept, OthersKept(m),
         Registered(m)' => /\ Registered(m)
                           /\ inventory'[m].name = inventory[m].name
                           /\ inventory'[m].guest = inventory[m].guest,
         Running(m)' => Running(m),
         next \in BeforeRelease => dpc[h] \in BeforeRelease,
         next \in AfterPowerOff => ~Running(m)',
         next \in {"off", "unregister"} => del'[h].vm = m
  PROVE  AddressInv'
<1> USE DEF AddressInv
<1>1. dpc'[h] = next /\ \A g \in Handlers : g # h => dpc'[g] = dpc[g]
  BY DEF DelGoTo, TypeOK
<1>2. /\ Settled(m)
      /\ \A g \in Handlers : g # h /\ dpc[g] # "idle" => del[g].id # m
      /\ \A g \in Handlers : dpc[g] # "idle" => del[g].id \in VmIds
  BY DEF HandlersApart
<1>3. ASSUME NEW i \in VmIds
      PROVE  /\ Registered(i)' => Registered(i)
             /\ Running(i)' => Running(i)
             /\ Registered(i)' => /\ inventory'[i].name = inventory[i].name
                                 /\ inventory'[i].guest = inventory[i].guest
  <2>1. CASE i = m
    BY <2>1
  <2>2. CASE i # m
    BY <2>2 DEF OthersKept, Registered, Running
  <2> QED
    BY <2>1, <2>2
<1>4. \A i \in VmIds : Running(i) => Registered(i)
  BY DEF Running, Registered
<1>5. \A i \in VmIds : Running(i)' => Registered(i)'
  BY DEF Running, Registered
<1>6. NamesApart'
  BY DEF NamesApart
<1>7. OwnNames'
  BY <1>3 DEF OwnNames, RecordsKept
<1>8. HandlersApart'
  BY <1>1, <1>2 DEF HandlersApart, Settled
<1>9. FindsOwn'
  BY <1>1 DEF FindsOwn
<1>10. ReleasesOwn'
  BY <1>1 DEF ReleasesOwn, Holds, BeforeRelease
<1>11. StoppedBeforeRelease'
  BY <1>1, <1>2, <1>3 DEF StoppedBeforeRelease, AfterPowerOff
<1>12. InjectedOwn'
  BY <1>3, <1>5 DEF InjectedOwn
<1>13. RunningHoldsAddress'
  BY <1>3, <1>5 DEF RunningHoldsAddress, Holds
<1> QED
  BY <1>6, <1>7, <1>8, <1>9, <1>10, <1>11, <1>12, <1>13

\* The same when the inventory is left alone.
LEMMA GoroutineQuiet ==
  ASSUME AddressInv, TypeOK', NEW id \in VmIds, NEW next,
         GoTo(id, next), UNCHANGED <<ipalloc, inventory, prov, dpc, del>>,
         ~Settled(id), ppc[id] # "none", next # "none", RecordsKept,
         next \in HoldingPCs => ppc[id] \in HoldingPCs,
         next \in StoppedPCs => ppc[id] \in StoppedPCs,
         next \in {"starting", "poweron"} => ppc[id] = "starting",
         next \notin {"c_off", "c_unregister"}
  PROVE  AddressInv'
<1> USE DEF AddressInv
<1>1. ProvKept(id) /\ OthersKept(id)
  BY DEF ProvKept, OthersKept
<1>2. Registered(id)' = Registered(id) /\ Running(id)' = Running(id)
  BY DEF Registered, Running
<1>3. Registered(id)' => inventory'[id].name = prov[id].name
  BY <1>2 DEF OwnNames
<1>4. next \in StoppedPCs => ~Running(id)'
  BY <1>2 DEF StoppedBeforeRelease
<1>5. Running(id)' \/ (next \in {"starting", "poweron"} /\ Registered(id)')
        => inventory'[id].guest = prov[id].ip
  BY <1>2 DEF InjectedOwn
<1>6. Running(id)' => Holds(id, inventory'[id].guest)
  BY <1>2 DEF RunningHoldsAddress
<1> HIDE DEF AddressInv
<1> QED
  BY <1>1, <1>3, <1>4, <1>5, <1>6, GoroutineMoves

LEMMA HandlerQuiet ==
  ASSUME AddressInv, TypeOK', NEW h \in Handlers, NEW next,
         DelGoTo(h, next), UNCHANGED <<ipalloc, inventory, ppc, prov>>,
         dpc[h] # "idle", RecordsKept,
         IF next = "idle" THEN del' = [del EXCEPT ![h] = NoRequest]
                          ELSE UNCHANGED del,
         next \in BeforeRelease => dpc[h] \in BeforeRelease,
         next \in AfterPowerOff => dpc[h] \in AfterPowerOff,
         next \notin {"off", "unregister"}
  PROVE  AddressInv'
<1>1. PICK m \in VmIds : m = del[h].id
  BY DEF AddressInv, HandlersApart
<1>2. OthersKept(m)
  BY DEF OthersKept
<1>3. Registered(m)' = Registered(m) /\ Running(m)' = Running(m)
  BY DEF Registered, Running
<1>4. next \in AfterPowerOff => ~Running(m)'
  BY <1>1, <1>3 DEF AddressInv, StoppedBeforeRelease
<1>5. del \in [Handlers -> DelLocals]
  BY DEF AddressInv, TypeOK
<1>6. /\ \A g \in Handlers : g # h => del'[g] = del[g]
      /\ IF next = "idle"
         THEN del'[h] = NoRequest
         ELSE /\ del'[h].id = del[h].id
              /\ del'[h].name = del[h].name
              /\ del'[h].ip = del[h].ip
  BY <1>5
<1> QED
  BY <1>1, <1>2, <1>3, <1>4, <1>6, HandlerMoves

\* A write to a record that is there changes its status or its address.
LEMMA UpdateKeepsNames ==
  ASSUME StoreTypeOK, NEW id \in VmIds, NEW s \in Statuses, UpdateStatus(id, s)
  PROVE  RecordsKept
  BY DEF UpdateStatus, RecordsKept, Present, VmRecord

LEMMA SetIPKeepsNames ==
  ASSUME StoreTypeOK, NEW id \in VmIds, NEW a, SetIP(id, a)
  PROVE  RecordsKept
  BY DEF SetIP, RecordsKept, Present, VmRecord

LEMMA RemovalKeepsNames ==
  ASSUME StoreTypeOK, NEW id \in VmIds, RemoveRecord(id)
  PROVE  RecordsKept
  BY DEF RemoveRecord, RecordsKept, Present, NoRecord

-----------------------------------------------------------------------------
(* The goroutine, stage by stage.                                          *)

LEMMA StagesKeepInv ==
  ASSUME Reliable, AddressInv, TypeOK', NEW id \in VmIds, RunStages(id)
  PROVE  AddressInv'
<1> USE DEF esxiVars, storeVars
<1>1. ASSUME NEW at, NEW s \in Statuses, NEW next, SetStatus(id, at, s, next),
             <<at, next>> \in {<<"allocating", "acquire">>, <<"cloning", "gold">>,
                               <<"injecting", "inject">>,
                               <<"starting", "poweron">>, <<"ready", "done">>}
      PROVE  AddressInv'
  <2>1. RecordsKept
    BY <1>1, UpdateKeepsNames DEF SetStatus, AddressInv, TypeOK
  <2>2. /\ ppc[id] = at
        /\ GoTo(id, next)
        /\ UNCHANGED <<ipalloc, inventory, prov, dpc, del>>
    BY <1>1 DEF SetStatus
  <2>3. /\ at \notin {"none", "done", "lost"}
        /\ next # "none"
        /\ next \in HoldingPCs => at \in HoldingPCs
        /\ next \in StoppedPCs => at \in StoppedPCs
        /\ next \in {"starting", "poweron"} => at = "starting"
        /\ next \notin {"c_off", "c_unregister"}
    BY <1>1 DEF HoldingPCs, StoppedPCs, ClonePCs, Steps
  <2> QED
    BY <2>1, <2>2, <2>3, GoroutineQuiet DEF Settled
<1>2. CASE AcquireIP(id)
  <2>1. CASE AcquireFails /\ GoTo(id, "fail_return") /\ UNCHANGED prov
    BY <1>2, <2>1, GoroutineQuiet
       DEF AcquireIP, AcquireFails, RecordsKept, Present, Settled, HoldingPCs,
           StoppedPCs, ClonePCs, Steps
  <2>2. ASSUME NEW a \in Pool, Acquire(id, a), GoTo(id, "setip"),
               prov' = [prov EXCEPT ![id].ip = a]
        PROVE  AddressInv'
    <3> USE DEF AddressInv
    <3>1. /\ ppc[id] = "acquire"
          /\ ppc' = [ppc EXCEPT ![id] = "setip"]
          /\ UNCHANGED <<vms, clones, datastore, inventory, dpc, del>>
      BY <1>2, <2>2 DEF AcquireIP, GoTo
    <3>2. /\ ppc'[id] = "setip"
          /\ \A i \in VmIds : i # id => ppc'[i] = ppc[i] /\ prov'[i] = prov[i]
      BY <3>1, <2>2 DEF TypeOK
    <3>3. prov'[id].ip = a /\ prov'[id].name = prov[id].name
          /\ prov'[id].vm = prov[id].vm
      BY <2>2 DEF TypeOK, ProvLocals
    <3>4. \A i \in VmIds : \A b : Holds(i, b) => Holds(i, b)'
      BY <2>2, DataAssumption DEF Acquire, Free, Holds, TypeOK
    <3>5. Holds(id, a)'
      BY <2>2 DEF Acquire, Holds, TypeOK
    <3>6. \A h \in Handlers : dpc[h] # "idle" => del[h].id \in VmIds \ {id}
      BY <3>1 DEF HandlersApart, Settled
    <3>7. NamesApart'
      BY <3>1, <3>2, <3>3 DEF NamesApart
    <3>8. OwnNames'
      BY <3>1, <3>2, <3>3 DEF OwnNames, Present, Registered
    <3>9. HandlersApart'
      BY <3>1, <3>2, <3>6 DEF HandlersApart, Settled
    <3>10. FindsOwn'
      BY <3>1, <3>2 DEF FindsOwn
    <3>11. ReleasesOwn'
      <4>1. \A i \in VmIds : ppc'[i] \in HoldingPCs => Holds(i, prov[i].ip)'
        BY <3>2, <3>3, <3>4, <3>5 DEF ReleasesOwn
      <4>2. \A h \in Handlers : dpc[h] \in BeforeRelease /\ del[h].ip # None =>
              del[h].id \in VmIds /\ Holds(del[h].id, del[h].ip)
        BY <3>6 DEF ReleasesOwn, BeforeRelease
      <4> QED
        BY <3>1, <3>4, <4>1, <4>2 DEF ReleasesOwn, Holds
    <3>12. StoppedBeforeRelease'
      BY <3>1, <3>2 DEF StoppedBeforeRelease, Running, StoppedPCs
    <3>13. InjectedOwn'
      BY <3>1, <3>2 DEF InjectedOwn, StoppedBeforeRelease, StoppedPCs, Running,
                        Registered
    <3>14. RunningHoldsAddress'
      BY <3>1, <3>4 DEF RunningHoldsAddress, Running
    <3> QED
      BY <3>7, <3>8, <3>9, <3>10, <3>11, <3>12, <3>13, <3>14
  <2> QED
    BY <1>2, <2>1, <2>2 DEF AcquireIP
<1>3. CASE RecordIP(id)
  <2>1. RecordsKept
    BY <1>3, SetIPKeepsNames DEF RecordIP, AddressInv, TypeOK
  <2> QED
    BY <1>3, <2>1, GoroutineQuiet
       DEF RecordIP, Settled, HoldingPCs, StoppedPCs
<1>4. CASE Inject(id)
  <2>1. PICK ok \in BOOLEAN : /\ SetExtraConfig(id, prov[id].ip, ok)
                              /\ GoTo(id, IF ok THEN "starting" ELSE "fail_cleanup")
    BY <1>4 DEF Inject
  <2>2. /\ OthersKept(id)
        /\ inventory'[id].state = inventory[id].state
        /\ inventory'[id].name = inventory[id].name
        /\ ok => inventory'[id].guest = prov[id].ip
    BY <2>1, InjectEffect DEF AddressInv, TypeOK
  <2>3. ppc[id] = "inject" /\ ~Running(id)
    BY <1>4 DEF Inject, AddressInv, StoppedBeforeRelease, StoppedPCs
  <2>4. Registered(id)' => inventory'[id].name = prov[id].name
    BY <2>2 DEF Registered, AddressInv, OwnNames
  <2>5. ~Running(id)'
    BY <2>2, <2>3 DEF Running
  <2> QED
    BY <1>4, <2>1, <2>2, <2>3, <2>4, <2>5, GoroutineMoves
       DEF Inject, RecordsKept, Present, ProvKept, Settled, HoldingPCs
<1>5. CASE Start(id)
  <2>1. PICK ok \in BOOLEAN : /\ PowerOn(id, ok)
                              /\ GoTo(id, IF ok THEN "wait" ELSE "fail_cleanup")
    BY <1>5 DEF Start
  <2>2. /\ OthersKept(id)
        /\ inventory'[id].name = inventory[id].name
        /\ inventory'[id].guest = inventory[id].guest
        /\ inventory'[id] # inventory[id] => Registered(id)
    BY <2>1, PowerOnEffect DEF AddressInv, TypeOK
  <2>3. ppc[id] = "poweron" /\ ipalloc' = ipalloc
    BY <1>5 DEF Start
  <2>4. Registered(id)' => Registered(id)
    BY <2>2 DEF Registered
  <2>5. Registered(id)' => inventory'[id].name = prov[id].name
    BY <2>2, <2>4 DEF AddressInv, OwnNames
  <2>6. Running(id)' => inventory'[id].guest = prov[id].ip
    BY <2>2, <2>3, <2>4 DEF AddressInv, InjectedOwn, Running, Registered
  <2>7. Holds(id, prov[id].ip)
    BY <2>3 DEF AddressInv, ReleasesOwn, HoldingPCs
  <2> QED
    BY <1>5, <2>1, <2>2, <2>3, <2>5, <2>6, <2>7, GoroutineMoves
       DEF Start, RecordsKept, Present, ProvKept, Settled, HoldingPCs,
           StoppedPCs, ClonePCs, Steps
<1>6. CASE WaitReady(id)
  BY <1>6, GoroutineQuiet
     DEF WaitReady, RecordsKept, Present, Settled, HoldingPCs, StoppedPCs,
         ClonePCs, Steps
<1>7. CASE Launch(id)
  BY <1>7, GoroutineQuiet
     DEF Launch, RecordsKept, Present, Settled, HoldingPCs, StoppedPCs, ClonePCs, Steps
<1> QED
  BY <1>1, <1>2, <1>3, <1>4, <1>5, <1>6, <1>7
     DEF RunStages, SetAllocating, SetCloning, SetInjecting, SetStarting,
         SetReady, Statuses, InProgress

LEMMA CloneKeepsInv ==
  ASSUME AddressInv, TypeOK', NEW id \in VmIds, RunClone(id)
  PROVE  AddressInv'
<1> USE DEF esxiVars, storeVars
<1>1. CASE ResolveGold(id)
  BY <1>1, GoroutineQuiet
     DEF ResolveGold, RecordsKept, Present, Settled, HoldingPCs, StoppedPCs,
         ClonePCs, Steps
<1>2. ASSUME NEW step \in Steps, CloneStep(id, step)
      PROVE  AddressInv'
  <2>1. PICK next \in {StepAfter[step], "fail_release"} : GoTo(id, next)
    BY <1>2 DEF CloneStep
  <2>2. /\ ppc[id] = step
        /\ UNCHANGED <<ipalloc, vms, prov, dpc, del>>
    BY <1>2 DEF CloneStep
  <2>3. /\ ~Settled(id)
        /\ ppc[id] # "none"
        /\ next # "none"
        /\ ppc[id] \in HoldingPCs
        /\ ppc[id] \in StoppedPCs
        /\ next \notin {"starting", "poweron", "c_off", "c_unregister"}
    BY <2>2 DEF Steps, Settled, HoldingPCs, StoppedPCs, ClonePCs, StepAfter
  <2>4. RecordsKept /\ ProvKept(id)
    BY <2>2 DEF RecordsKept, ProvKept, Present
  <2>5. CASE UNCHANGED inventory
    BY <2>1, <2>2, <2>3, <2>4, <2>5, GoroutineQuiet
  <2>6. ASSUME NEW ok, RegisterVM(id, prov[id].name, ok)
        PROVE  AddressInv'
    <3>1. /\ OthersKept(id)
          /\ \/ inventory'[id] = inventory[id]
             \/ inventory'[id] = [state |-> "off", name |-> prov[id].name,
                                  guest |-> None]
      BY <2>6, RegisterEffect DEF AddressInv, TypeOK
    <3>2. Registered(id)' => inventory'[id].name = prov[id].name
      BY <3>1 DEF Registered, AddressInv, OwnNames
    <3>3. ~Running(id)
      BY <2>3 DEF AddressInv, StoppedBeforeRelease
    <3>4. ~Running(id)'
      BY <3>1, <3>3 DEF Running
    <3> QED
      BY <2>1, <2>2, <2>3, <2>4, <3>1, <3>2, <3>4, GoroutineMoves
  <2> QED
    BY <1>2, <2>5, <2>6
       DEF CloneStep, CloneCall, MakeDirectory, CopyVirtualDisk,
           CopyDatastoreFile, PatchVmx, DatastoreCall
<1>3. CASE CloneDone(id)
  BY <1>3, GoroutineQuiet
     DEF CloneDone, RecordsKept, Present, Settled, HoldingPCs, StoppedPCs,
         ClonePCs
<1> QED
  BY <1>1, <1>2, <1>3 DEF RunClone

\* An address goes back to the pool when its holder m has no process left that
\* counts on it and does not run.
LEMMA ReleaseKeepsHolds ==
  ASSUME TypeOK, NEW m \in VmIds, NEW a, Holds(m, a), Release(a)
  PROVE  \A i \in VmIds : \A b : i # m /\ Holds(i, b) => Holds(i, b)'
  BY DEF Release, Holds, TypeOK

LEMMA ReleaseIPKeepsInv ==
  ASSUME AddressInv, TypeOK', NEW id \in VmIds, NEW at, NEW next,
         ReleaseIP(id, at, next),
         <<at, next>> \in {<<"release", "done">>, <<"c_release", "c_clear">>}
  PROVE  AddressInv'
<1> USE DEF AddressInv
<1>1. /\ ppc[id] = at
      /\ Release(prov[id].ip)
      /\ UNCHANGED <<vms, clones, datastore, inventory, prov, dpc, del>>
      /\ ppc'[id] = next
      /\ \A i \in VmIds : i # id => ppc'[i] = ppc[i]
  BY DEF ReleaseIP, GoTo, TypeOK, storeVars, esxiVars
<1>2. Holds(id, prov[id].ip) /\ ~Running(id) /\ ~Settled(id)
  BY <1>1 DEF ReleasesOwn, StoppedBeforeRelease, Settled, HoldingPCs, StoppedPCs
<1>3. \A i \in VmIds : \A b : i # id /\ Holds(i, b) => Holds(i, b)'
  BY <1>1, <1>2, ReleaseKeepsHolds
<1>4. \A h \in Handlers : dpc[h] # "idle" => del[h].id \in VmIds \ {id}
  BY <1>2 DEF HandlersApart
<1>5. \A i \in VmIds : Running(i)' = Running(i) /\ Registered(i)' = Registered(i)
  BY <1>1 DEF Running, Registered
<1>6. NamesApart'
  BY <1>1 DEF NamesApart
<1>7. OwnNames'
  BY <1>1, <1>5 DEF OwnNames, Present
<1>8. HandlersApart'
  BY <1>1, <1>4 DEF HandlersApart, Settled
<1>9. FindsOwn'
  BY <1>1 DEF FindsOwn
<1>10. ReleasesOwn'
  <2>1. \A i \in VmIds : ppc'[i] \in HoldingPCs => Holds(i, prov[i].ip)'
    BY <1>1, <1>3 DEF ReleasesOwn, HoldingPCs, ClonePCs, Steps
  <2>2. \A h \in Handlers : dpc[h] \in BeforeRelease /\ del[h].ip # None =>
          del[h].id \in VmIds \ {id} /\ Holds(del[h].id, del[h].ip)
    BY <1>4 DEF ReleasesOwn, BeforeRelease
  <2> QED
    BY <1>1, <1>3, <2>1, <2>2 DEF ReleasesOwn, Holds
<1>11. StoppedBeforeRelease'
  BY <1>1, <1>2, <1>4, <1>5 DEF StoppedBeforeRelease, AfterPowerOff
<1>12. InjectedOwn'
  BY <1>1, <1>5 DEF InjectedOwn
<1>13. RunningHoldsAddress'
  BY <1>1, <1>2, <1>3, <1>5 DEF RunningHoldsAddress
<1> QED
  BY <1>6, <1>7, <1>8, <1>9, <1>10, <1>11, <1>12, <1>13

LEMMA FailureKeepsInv ==
  ASSUME Reliable, AddressInv, TypeOK', NEW id \in VmIds, RunFailure(id)
  PROVE  AddressInv'
<1> USE DEF esxiVars, storeVars
<1>1. CASE MarkFailed(id)
  <2>1. PICK at \in DOMAIN FailThen : SetStatus(id, at, "failed", FailThen[at])
    BY <1>1 DEF MarkFailed
  <2>2. RecordsKept
    BY <2>1, UpdateKeepsNames DEF SetStatus, AddressInv, TypeOK, Statuses
  <2>3. /\ ~Settled(id)
        /\ ppc[id] # "none"
        /\ FailThen[at] # "none"
        /\ FailThen[at] \in HoldingPCs => ppc[id] \in HoldingPCs
        /\ FailThen[at] \in StoppedPCs => ppc[id] \in StoppedPCs
        /\ FailThen[at] \notin {"starting", "poweron", "c_off", "c_unregister"}
    BY <2>1 DEF SetStatus, FailThen, Settled, HoldingPCs, StoppedPCs, ClonePCs,
                Steps
  <2> QED
    BY <2>1, <2>2, <2>3, GoroutineQuiet DEF SetStatus
<1>2. CASE ReleaseAfterClone(id) \/ CleanupRelease(id)
  BY <1>2, ReleaseIPKeepsInv DEF ReleaseAfterClone, CleanupRelease
<1>3. CASE CleanupFind(id)
  <2>1. /\ ppc[id] = "c_find"
        /\ UNCHANGED <<ipalloc, vms, inventory, dpc, del>>
    BY <1>3 DEF CleanupFind
  <2>2. /\ RecordsKept
        /\ OthersKept(id)
        /\ ~Settled(id)
        /\ ppc[id] # "none"
        /\ ppc[id] \in HoldingPCs
    BY <2>1 DEF RecordsKept, OthersKept, Present, Settled, HoldingPCs
  <2>3. Registered(id)' = Registered(id) /\ Running(id)' = Running(id)
    BY <2>1 DEF Registered, Running
  <2>4. /\ Registered(id)' => inventory'[id].name = prov[id].name
        /\ Running(id)' => inventory'[id].guest = prov[id].ip
        /\ Running(id)' => Holds(id, inventory'[id].guest)
    BY <2>1, <2>3 DEF AddressInv, OwnNames, InjectedOwn, RunningHoldsAddress
  <2>5. ASSUME NEW m \in VmIds, FindVM(prov[id].name, m),
               prov' = [prov EXCEPT ![id].vm = m], GoTo(id, "c_off")
        PROVE  AddressInv'
    <3>1. m = id
      BY <2>2, <2>5, FindOwn
    <3>2. ProvKept(id) /\ prov'[id].vm = id
      BY <2>5, <3>1 DEF ProvKept, AddressInv, TypeOK, ProvLocals
    <3>3. "c_off" \notin StoppedPCs
      BY DEF StoppedPCs, ClonePCs, Steps
    <3> QED
      BY <2>1, <2>2, <2>4, <2>5, <3>2, <3>3, GoroutineMoves
  <2>6. CASE VmNotFound(prov[id].name) /\ GoTo(id, "c_rmdir") /\ UNCHANGED prov
    <3>1. ~Registered(id)
      BY <2>6 DEF VmNotFound, VmsNamed, AddressInv, OwnNames
    <3>2. ~Running(id)'
      BY <2>3, <3>1 DEF Running, Registered
    <3>3. ProvKept(id)
      BY <2>6 DEF ProvKept
    <3> QED
      BY <2>1, <2>2, <2>4, <2>6, <3>2, <3>3, GoroutineMoves
  <2> QED
    BY <1>3, <2>5, <2>6 DEF CleanupFind, Reliable
<1>4. CASE CleanupPowerOff(id)
  <2>1. /\ ppc[id] = "c_off"
        /\ GoTo(id, "c_unregister")
        /\ UNCHANGED <<ipalloc, vms, prov, dpc, del>>
    BY <1>4 DEF CleanupPowerOff
  <2>2. prov[id].vm = id
    BY <2>1 DEF AddressInv, FindsOwn
  <2>3. /\ OthersKept(id)
        /\ inventory'[id].name = inventory[id].name
        /\ Registered(id)' <=> Registered(id)
        /\ ~Running(id)'
    BY <1>4, <2>2, PowerOffEffect DEF CleanupPowerOff, AddressInv, TypeOK
  <2>4. Registered(id)' => inventory'[id].name = prov[id].name
    BY <2>3 DEF AddressInv, OwnNames
  <2> QED
    BY <2>1, <2>2, <2>3, <2>4, GoroutineMoves
       DEF RecordsKept, ProvKept, Present, Settled, HoldingPCs
<1>5. CASE CleanupUnregister(id)
  <2>1. /\ ppc[id] = "c_unregister"
        /\ GoTo(id, "c_rmdir")
        /\ UNCHANGED <<ipalloc, vms, prov, dpc, del>>
    BY <1>5 DEF CleanupUnregister
  <2>2. prov[id].vm = id /\ ~Running(id)
    BY <2>1 DEF AddressInv, FindsOwn, StoppedBeforeRelease, StoppedPCs
  <2>3. OthersKept(id) /\ inventory'[id] \in {inventory[id], NoVm}
    BY <1>5, <2>2, UnregisterEffect DEF CleanupUnregister, AddressInv, TypeOK
  <2>4. ~Running(id)' /\ (Registered(id)' => inventory'[id].name = prov[id].name)
    BY <2>2, <2>3 DEF Running, Registered, NoVm, AddressInv, OwnNames
  <2> QED
    BY <2>1, <2>3, <2>4, GoroutineMoves
       DEF RecordsKept, ProvKept, Present, Settled, HoldingPCs
<1>6. CASE CleanupDir(id)
  <2>1. UNCHANGED inventory
    BY <1>6 DEF CleanupDir, DeleteDir, DatastoreCall
  <2> QED
    BY <1>6, <2>1, GoroutineQuiet
       DEF CleanupDir, RecordsKept, Present, Settled, HoldingPCs, StoppedPCs
<1>7. CASE CleanupCheckpoints(id)
  BY <1>7, GoroutineQuiet
     DEF CleanupCheckpoints, RecordsKept, Present, Settled, HoldingPCs,
         StoppedPCs, ClonePCs, Steps
<1> QED
  BY <1>1, <1>2, <1>3, <1>4, <1>5, <1>6, <1>7 DEF RunFailure

-----------------------------------------------------------------------------
(* The handlers of DELETE.                                                 *)

\* What a handler that is under way may rely on: m is its VM.
LEMMA HandlerKnows ==
  ASSUME AddressInv, NEW h \in Handlers, dpc[h] # "idle"
  PROVE  /\ del[h].id \in VmIds
         /\ Settled(del[h].id)
         /\ ppc[del[h].id] # "none"
         /\ del[h].name = prov[del[h].id].name
  BY DEF AddressInv, HandlersApart, Settled

LEMMA DeleteReleaseKeepsInv ==
  ASSUME AddressInv, TypeOK', NEW h \in Handlers, DeleteRelease(h)
  PROVE  AddressInv'
<1> USE DEF AddressInv
<1>1. /\ dpc[h] = "release"
      /\ UNCHANGED <<vms, clones, datastore, inventory, ppc, prov, del>>
      /\ dpc'[h] = "clear"
      /\ \A g \in Handlers : g # h => dpc'[g] = dpc[g]
  BY DEF DeleteRelease, DelGoTo, TypeOK, storeVars, esxiVars
<1>2. CASE del[h].ip = None
  <2>1. UNCHANGED ipalloc /\ DelGoTo(h, "clear")
    BY <1>2 DEF DeleteRelease
  <2> QED
    BY <1>1, <2>1, HandlerQuiet
       DEF RecordsKept, Present, BeforeRelease, AfterPowerOff
<1>3. ASSUME del[h].ip # None, NEW m \in VmIds, m = del[h].id
      PROVE  AddressInv'
  <2>1. Release(del[h].ip) /\ Holds(m, del[h].ip) /\ ~Running(m) /\ Settled(m)
    BY <1>1, <1>3, HandlerKnows
       DEF DeleteRelease, ReleasesOwn, StoppedBeforeRelease, BeforeRelease,
           AfterPowerOff
  <2>2. \A i \in VmIds : \A b : i # m /\ Holds(i, b) => Holds(i, b)'
    BY <2>1, ReleaseKeepsHolds
  <2>3. \A g \in Handlers : g # h /\ dpc[g] # "idle" => del[g].id \in VmIds \ {m}
    BY <1>1, <1>3 DEF HandlersApart
  <2>4. \A i \in VmIds : Running(i)' = Running(i) /\ Registered(i)' = Registered(i)
    BY <1>1 DEF Running, Registered
  <2>5. NamesApart'
    BY <1>1 DEF NamesApart
  <2>6. OwnNames'
    BY <1>1, <2>4 DEF OwnNames, Present
  <2>7. HandlersApart'
    BY <1>1 DEF HandlersApart, Settled
  <2>8. FindsOwn'
    BY <1>1 DEF FindsOwn
  <2>9. ReleasesOwn'
    <3>1. \A i \in VmIds : ppc[i] \in HoldingPCs => Holds(i, prov[i].ip)'
      BY <1>1, <2>1, <2>2 DEF ReleasesOwn, Settled, HoldingPCs, ClonePCs, Steps
    <3>2. \A g \in Handlers : g # h /\ dpc[g] \in BeforeRelease /\ del[g].ip # None
            => del[g].id \in VmIds \ {m} /\ Holds(del[g].id, del[g].ip)
      BY <2>3 DEF ReleasesOwn, BeforeRelease
    <3> QED
      BY <1>1, <2>2, <3>1, <3>2 DEF ReleasesOwn, BeforeRelease, Holds
  <2>10. StoppedBeforeRelease'
    BY <1>1, <1>3, <2>1, <2>3, <2>4 DEF StoppedBeforeRelease, AfterPowerOff
  <2>11. InjectedOwn'
    BY <1>1, <2>4 DEF InjectedOwn
  <2>12. RunningHoldsAddress'
    BY <1>1, <2>1, <2>2, <2>4 DEF RunningHoldsAddress
  <2> QED
    BY <2>5, <2>6, <2>7, <2>8, <2>9, <2>10, <2>11, <2>12
<1> QED
  BY <1>1, <1>2, <1>3, HandlerKnows

LEMMA DeleteFindKeepsInv ==
  ASSUME Reliable, AddressInv, TypeOK', NEW h \in Handlers, DeleteFind(h)
  PROVE  AddressInv'
<1>1. /\ dpc[h] = "find"
      /\ UNCHANGED <<ipalloc, vms, inventory, ppc, prov>>
  BY DEF DeleteFind, storeVars, esxiVars
<1>2. PICK m \in VmIds : m = del[h].id
  BY <1>1, HandlerKnows
<1>3. ppc[m] # "none" /\ del[h].name = prov[m].name
  BY <1>1, <1>2, HandlerKnows
<1>4. RecordsKept /\ OthersKept(m)
  BY <1>1 DEF RecordsKept, OthersKept, Present
<1>5. Registered(m)' = Registered(m) /\ Running(m)' = Running(m)
  BY <1>1 DEF Registered, Running
<1>6. del \in [Handlers -> DelLocals]
  BY DEF AddressInv, TypeOK
<1>7. ASSUME NEW v \in VmIds, FindVM(del[h].name, v),
             del' = [del EXCEPT ![h].vm = v], DelGoTo(h, "off")
      PROVE  AddressInv'
  <2>1. v = m
    BY <1>3, <1>7, FindOwn
  <2>2. /\ \A g \in Handlers : g # h => del'[g] = del[g]
        /\ del'[h].id = del[h].id
        /\ del'[h].name = del[h].name
        /\ del'[h].ip = del[h].ip
        /\ del'[h].vm = m
    BY <1>6, <1>7, <2>1 DEF DelLocals
  <2>3. "off" \notin AfterPowerOff /\ dpc[h] \in BeforeRelease
    BY <1>1 DEF AfterPowerOff, BeforeRelease
  <2> QED
    BY <1>1, <1>2, <1>4, <1>5, <1>7, <2>2, <2>3, HandlerMoves
<1>8. CASE VmNotFound(del[h].name) /\ DelGoTo(h, "rmdir") /\ UNCHANGED del
  <2>1. ~Registered(m)
    BY <1>3, <1>8 DEF VmNotFound, VmsNamed, AddressInv, OwnNames
  <2>2. ~Running(m)' /\ dpc[h] \in BeforeRelease
    BY <1>1, <1>5, <2>1 DEF Running, Registered, BeforeRelease
  <2> QED
    BY <1>1, <1>2, <1>4, <1>5, <1>8, <2>2, HandlerMoves
<1> QED
  BY <1>7, <1>8 DEF DeleteFind, Reliable

LEMMA DeleteKeepsInv ==
  ASSUME Reliable, AddressInv, TypeOK', NEW h \in Handlers, Delete(h)
  PROVE  AddressInv'
<1> USE DEF esxiVars, storeVars
<1>1. CASE DeleteMark(h)
  <2>1. PICK m \in VmIds : m = del[h].id
    BY <1>1, HandlerKnows DEF DeleteMark
  <2>2. RecordsKept
    BY <1>1, <2>1, UpdateKeepsNames DEF DeleteMark, AddressInv, TypeOK, Statuses
  <2> QED
    BY <1>1, <2>2, HandlerQuiet DEF DeleteMark, BeforeRelease, AfterPowerOff
<1>2. CASE DeletePowerOff(h)
  <2>1. /\ dpc[h] = "off"
        /\ DelGoTo(h, "unregister")
        /\ UNCHANGED <<ipalloc, vms, ppc, prov, del>>
    BY <1>2 DEF DeletePowerOff
  <2>2. PICK m \in VmIds : m = del[h].id
    BY <2>1, HandlerKnows
  <2>3. del[h].vm = m
    BY <2>1, <2>2 DEF AddressInv, FindsOwn
  <2>4. /\ OthersKept(m)
        /\ inventory'[m].name = inventory[m].name
        /\ inventory'[m].guest = inventory[m].guest
        /\ Registered(m)' <=> Registered(m)
        /\ ~Running(m)'
    BY <1>2, <2>3, PowerOffEffect DEF DeletePowerOff, AddressInv, TypeOK
  <2> QED
    BY <2>1, <2>2, <2>3, <2>4, HandlerMoves
       DEF RecordsKept, Present, BeforeRelease
<1>3. CASE DeleteUnregister(h)
  <2>1. /\ dpc[h] = "unregister"
        /\ DelGoTo(h, "rmdir")
        /\ UNCHANGED <<ipalloc, vms, ppc, prov, del>>
    BY <1>3 DEF DeleteUnregister
  <2>2. PICK m \in VmIds : m = del[h].id
    BY <2>1, HandlerKnows
  <2>3. del[h].vm = m /\ ~Running(m)
    BY <2>1, <2>2 DEF AddressInv, FindsOwn, StoppedBeforeRelease, AfterPowerOff
  <2>4. OthersKept(m) /\ inventory'[m] \in {inventory[m], NoVm}
    BY <1>3, <2>3, UnregisterEffect DEF DeleteUnregister, AddressInv, TypeOK
  <2>5. /\ ~Running(m)'
        /\ Registered(m)' => /\ Registered(m)
                             /\ inventory'[m].name = inventory[m].name
                             /\ inventory'[m].guest = inventory[m].guest
    BY <2>3, <2>4 DEF Running, Registered, NoVm
  <2> QED
    BY <2>1, <2>2, <2>4, <2>5, HandlerMoves
       DEF RecordsKept, Present, BeforeRelease
<1>4. CASE DeleteFiles(h)
  <2>1. UNCHANGED inventory
    BY <1>4 DEF DeleteFiles, DeleteDir, DatastoreCall
  <2> QED
    BY <1>4, <2>1, HandlerQuiet
       DEF DeleteFiles, RecordsKept, Present, BeforeRelease, AfterPowerOff
<1>5. CASE DeleteCheckpoints(h)
  BY <1>5, HandlerQuiet
     DEF DeleteCheckpoints, RecordsKept, Present, BeforeRelease, AfterPowerOff
<1>6. CASE DeleteRecord(h)
  <2>1. PICK m \in VmIds : m = del[h].id
    BY <1>6, HandlerKnows DEF DeleteRecord
  <2>2. RecordsKept
    BY <1>6, <2>1, RemovalKeepsNames DEF DeleteRecord, AddressInv, TypeOK
  <2> QED
    BY <1>6, <2>2, HandlerQuiet DEF DeleteRecord, BeforeRelease, AfterPowerOff
<1> QED
  BY <1>1, <1>2, <1>3, <1>4, <1>5, <1>6, DeleteFindKeepsInv,
     DeleteReleaseKeepsInv DEF Delete

-----------------------------------------------------------------------------
(* The clients, and the theorem.                                           *)

LEMMA ProvisionKeepsInv ==
  ASSUME AddressInv, TypeOK', NEW id \in VmIds, NEW name \in Names \cup {id},
         UniqueName(name), Provision(id, name)
  PROVE  AddressInv'
<1> USE DEF AddressInv
<1>1. /\ ppc[id] = "none"
      /\ ppc'[id] = "pending"
      /\ prov'[id].name = name
      /\ name # None
      /\ \A i \in VmIds : i # id => ppc'[i] = ppc[i] /\ prov'[i] = prov[i]
  BY DataAssumption DEF Provision, GoTo, TypeOK, ProvLocals
<1>2. UNCHANGED <<ipalloc, clones, datastore, inventory, dpc, del>>
  BY DEF Provision, esxiVars
<1>3. /\ vms'[id].name = name
      /\ \A i \in VmIds : i # id => vms'[i] = vms[i]
  BY DEF Provision, Put, TypeOK
<1>4. ~Registered(id) /\ ~Running(id)
  BY <1>1 DEF OwnNames, Registered, Running
<1>5. \A i \in VmIds : Running(i)' = Running(i) /\ Registered(i)' = Registered(i)
  BY <1>2 DEF Running, Registered
<1>6. \A h \in Handlers : dpc[h] # "idle" => del[h].id \in VmIds \ {id}
  BY <1>1 DEF HandlersApart, Settled
<1>7. NamesApart'
  BY <1>1 DEF NamesApart, UniqueName
<1>8. OwnNames'
  BY <1>1, <1>2, <1>3, <1>4, <1>5 DEF OwnNames, Present
<1>9. HandlersApart'
  BY <1>1, <1>2, <1>6 DEF HandlersApart, Settled
<1>10. FindsOwn'
  BY <1>1, <1>2 DEF FindsOwn
<1>11. ReleasesOwn'
  BY <1>1, <1>2 DEF ReleasesOwn, Holds, HoldingPCs, ClonePCs, Steps
<1>12. StoppedBeforeRelease'
  BY <1>1, <1>2, <1>4, <1>5, <1>6 DEF StoppedBeforeRelease, AfterPowerOff
<1>13. InjectedOwn'
  BY <1>1, <1>2, <1>4, <1>5 DEF InjectedOwn
<1>14. RunningHoldsAddress'
  BY <1>2, <1>5 DEF RunningHoldsAddress, Holds
<1> QED
  BY <1>7, <1>8, <1>9, <1>10, <1>11, <1>12, <1>13, <1>14

LEMMA DeleteStartKeepsInv ==
  ASSUME AddressInv, TypeOK', NEW h \in Handlers, NEW id \in VmIds, Settled(id),
         Alone(id), PoolShowsHolder(id), DeleteStart(h, id)
  PROVE  AddressInv'
<1> USE DEF AddressInv
<1>1. /\ Present(id)
      /\ UNCHANGED <<ipalloc, vms, clones, datastore, inventory, ppc, prov>>
      /\ dpc'[h] = "mark"
      /\ \A g \in Handlers : g # h => dpc'[g] = dpc[g] /\ del'[g] = del[g]
      /\ del'[h].id = id
      /\ del'[h].name = vms[id].name
      /\ del'[h].ip = vms[id].ip
  BY DEF DeleteStart, DelGoTo, TypeOK, storeVars, esxiVars
<1>2. \A i \in VmIds : Running(i)' = Running(i) /\ Registered(i)' = Registered(i)
  BY <1>1 DEF Running, Registered
<1>3. NamesApart'
  BY <1>1 DEF NamesApart
<1>4. OwnNames'
  BY <1>1, <1>2 DEF OwnNames, Present
<1>5. HandlersApart'
  BY <1>1 DEF HandlersApart, OwnNames, Settled, Alone
<1>6. FindsOwn'
  BY <1>1 DEF FindsOwn
<1>7. ReleasesOwn'
  BY <1>1 DEF ReleasesOwn, PoolShowsHolder, Holds
<1>8. StoppedBeforeRelease'
  BY <1>1, <1>2 DEF StoppedBeforeRelease, AfterPowerOff, HandlersApart
<1>9. InjectedOwn'
  BY <1>1, <1>2 DEF InjectedOwn
<1>10. RunningHoldsAddress'
  BY <1>1, <1>2 DEF RunningHoldsAddress, Holds
<1> QED
  BY <1>3, <1>4, <1>5, <1>6, <1>7, <1>8, <1>9, <1>10

LEMMA AddressInductive ==
  ASSUME Careful, Reliable, AddressInv, [CautiousNext]_vars
  PROVE  AddressInv'
<1>1. [Next]_vars
  BY DEF CautiousNext, Requests, CautiousProvision, CautiousDelete, Next
<1>2. TypeOK'
  BY <1>1, TypeInductive DEF AddressInv
<1>3. CASE UNCHANGED vars
  BY <1>3, <1>2
     DEF vars, AddressInv, NamesApart, OwnNames, HandlersApart, FindsOwn,
         ReleasesOwn, StoppedBeforeRelease, InjectedOwn, RunningHoldsAddress,
         Present, Registered, Running, Settled, Holds
<1>4. CASE Requests
  BY <1>2, <1>4, ProvisionKeepsInv, DeleteStartKeepsInv
     DEF Requests, CautiousProvision, CautiousDelete, Careful, AllCautions
<1>5. CASE Daemon
  BY <1>2, <1>5, StagesKeepInv, CloneKeepsInv, FailureKeepsInv, DeleteKeepsInv
     DEF Daemon, runProvision
<1> QED
  BY <1>3, <1>4, <1>5 DEF CautiousNext

\* Under careful clients, and unless FindVM, PowerOff or the store itself fails,
\* an address the pool offers is used by no VM that runs, and no two VMs run
\* with one address, whatever else fails and however processes interleave.
THEOREM AddressesAreExclusive ==
  ASSUME Careful, Reliable
  PROVE  CautiousSpec => []RunningHoldsAddress
<1>1. Init => AddressInv
  BY InitInv
<1>2. AddressInv /\ [CautiousNext]_vars => AddressInv'
  BY AddressInductive
<1>3. AddressInv => RunningHoldsAddress
  BY DEF AddressInv
<1> QED
  BY <1>1, <1>2, <1>3, PTL DEF CautiousSpec

-----------------------------------------------------------------------------
(* The process: AddressInv outlives it, because a lost goroutine and a      *)
(* dropped handler release nothing and power nothing on.                   *)

LEMMA ProcessEnds ==
  ASSUME AddressInv, Dies
  PROVE  AddressInv'
<1> USE DEF AddressInv
<1>1. /\ UNCHANGED <<ipalloc, vms, clones, datastore, inventory, prov>>
      /\ \A h \in Handlers : dpc'[h] = "idle" /\ del'[h] = NoRequest
      /\ \A id \in VmIds : ppc'[id] \in {ppc[id], "lost"}
      /\ \A id \in VmIds : ppc[id] = "none" <=> ppc'[id] = "none"
  BY DEF Dies, storeVars, esxiVars, Ended
<1>2. \A i \in VmIds : Running(i)' = Running(i) /\ Registered(i)' = Registered(i)
  BY <1>1 DEF Running, Registered
<1>3. TypeOK'
  <2>1. NoRequest \in DelLocals
    BY DEF NoRequest, DelLocals
  <2>2. ppc' \in [VmIds -> ProvPCs]
    BY DEF Dies, TypeOK, ProvPCs
  <2> QED
    BY <1>1, <2>1, <2>2 DEF TypeOK, IPAllocTypeOK, StoreTypeOK, ESXiTypeOK, Dies, DelPCs
<1>4. NamesApart'
  BY <1>1 DEF NamesApart
<1>5. OwnNames'
  BY <1>1, <1>2 DEF OwnNames, Present
<1>6. HandlersApart'
  BY <1>1 DEF HandlersApart
<1>7. FindsOwn'
  BY <1>1 DEF FindsOwn
<1>8. ReleasesOwn'
  BY <1>1 DEF ReleasesOwn, Holds, HoldingPCs, ClonePCs, Steps, BeforeRelease
<1>9. StoppedBeforeRelease'
  BY <1>1, <1>2
     DEF StoppedBeforeRelease, StoppedPCs, ClonePCs, Steps, AfterPowerOff
<1>10. InjectedOwn'
  BY <1>1, <1>2 DEF InjectedOwn
<1>11. RunningHoldsAddress'
  BY <1>1, <1>2 DEF RunningHoldsAddress, Holds
<1> QED
  BY <1>3, <1>4, <1>5, <1>6, <1>7, <1>8, <1>9, <1>10, <1>11

LEMMA VmaasdInductive ==
  ASSUME Careful, Reliable, AddressInv, [VmaasdNext]_vmaasdVars
  PROVE  AddressInv'
<1>1. CASE Serve \/ Work
  BY <1>1, AddressInductive DEF Serve, Work, CautiousNext
<1>2. CASE Exit \/ Crash
  BY <1>2, ProcessEnds DEF Exit, Crash
<1>3. CASE UNCHANGED vars
  BY <1>3, AddressInductive
<1> QED
  BY <1>1, <1>2, <1>3
     DEF VmaasdNext, Stops, Shutdown, Drained, Waited, Restart, vmaasdVars

\* Clients and faults of any kind, and the end of the process at any step, keep
\* every variable in the set its comment names: what a lost goroutine leaves in
\* the store and at the host is nothing the next process could stumble over.
THEOREM VmaasdTypeCorrect == VmaasdSpec => []VmaasdTypeOK
<1>1. VmaasdInit => VmaasdTypeOK
  BY InitType DEF VmaasdInit, VmaasdTypeOK, Phases
<1>2. VmaasdTypeOK /\ [VmaasdNext]_vmaasdVars => VmaasdTypeOK'
  <2> SUFFICES ASSUME VmaasdTypeOK, [VmaasdNext]_vmaasdVars
               PROVE  VmaasdTypeOK'
    OBVIOUS
  <2>1. phase' \in Phases
    BY DEF VmaasdTypeOK, VmaasdNext, Serve, Work, Stops, Shutdown, Drained, Waited,
           Exit, Crash, Dies, Restart, vmaasdVars, Phases
  <2>2. TypeOK'
    <3>1. CASE Serve \/ Work
      BY <3>1, TypeInductive
         DEF VmaasdTypeOK, Serve, Work, Requests, CautiousProvision, CautiousDelete, Next
    <3>2. CASE Exit \/ Crash
      <4>1. /\ UNCHANGED <<ipalloc, vms, clones, datastore, inventory, prov>>
            /\ ppc' \in [VmIds -> ProvPCs]
            /\ Dies
        BY <3>2 DEF Exit, Crash, Dies, Ended, storeVars, esxiVars, VmaasdTypeOK, TypeOK, ProvPCs
      <4>2. NoRequest \in DelLocals
        BY DEF NoRequest, DelLocals
      <4> QED
        BY <4>1, <4>2 DEF VmaasdTypeOK, TypeOK, IPAllocTypeOK, StoreTypeOK, ESXiTypeOK,
                          Dies, DelPCs
    <3>3. CASE UNCHANGED vars
      BY <3>3, TypeInductive DEF VmaasdTypeOK
    <3> QED
      BY <3>1, <3>2, <3>3
         DEF VmaasdNext, Stops, Shutdown, Drained, Waited, Restart, vmaasdVars
  <2> QED
    BY <2>1, <2>2 DEF VmaasdTypeOK
<1> QED
  BY <1>1, <1>2, PTL DEF VmaasdSpec

\* Why the next theorem holds: names keep the VMs apart, who is about to release
\* an address holds it, and its VM is off by then.
THEOREM AddressInvHolds ==
  ASSUME Careful, Reliable
  PROVE  VmaasdSpec => []AddressInv
<1>1. VmaasdInit => AddressInv
  BY InitInv DEF VmaasdInit
<1>2. AddressInv /\ [VmaasdNext]_vmaasdVars => AddressInv'
  BY VmaasdInductive
<1> QED
  BY <1>1, <1>2, PTL DEF VmaasdSpec

\* However often and whenever the daemon is killed, stopped and started again,
\* the pool of the next process offers no address of a VM that runs.
THEOREM AddressesOutliveTheDaemon ==
  ASSUME Careful, Reliable
  PROVE  VmaasdSpec => []RunningHoldsAddress
<1>1. AddressInv => RunningHoldsAddress
  BY DEF AddressInv
<1> QED
  BY <1>1, AddressInvHolds, PTL
=============================================================================
