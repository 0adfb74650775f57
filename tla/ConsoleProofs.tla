---------------------------- MODULE ConsoleProofs ----------------------------
(***************************************************************************)
(* The orchestrator under the users of the web console, for every set of   *)
(* VMs, names and handlers, every pool and any number of requests that     *)
(* overtake each other or fail.  The console is a client of the daemon, so *)
(* what holds under any clients holds under it; and a row that shows an    *)
(* outcome is enough to delete by, whatever else is in flight: ConsoleInv  *)
(* of ConsoleInvariant.                                                    *)
(***************************************************************************)
EXTENDS ConsoleInvariant, PromiseProofs

\* What a teardown needs: its own calls and the store answer truly.
Truthful == {"store", "poweroff", "unregister", "deletedir"} \cap Faults = {}

-----------------------------------------------------------------------------
(* The console is a client.                                                *)

LEMMA ConsoleIsClient == [ConsoleNext]_consoleVars => [Next]_vars
  BY DEF ConsoleNext, consoleVars, Submit, doDelete, Next, RefreshList,
         RefreshPool, handleListVMs, ReadUsed, ReadFree, Show, Fail

\* Every behaviour of the daemon under the console is one under any clients: an
\* allocated address stays with its VM until it is released, a removed record
\* stays removed, a VM boots with its own address.
THEOREM ConsoleServes ==
  ConsoleSpec => /\ Spec
                 /\ HolderStable
                 /\ NoResurrection
                 /\ []BootsWithOwnAddress
<1>1. ConsoleInit => Init
  BY DEF ConsoleInit
<1>2. ConsoleSpec => Spec
  BY <1>1, ConsoleIsClient, PTL DEF ConsoleSpec, Spec
<1> QED
  BY <1>2, HolderIsStable, RemovedStaysRemoved, BootsWithItsOwn

-----------------------------------------------------------------------------
(* Type correctness.                                                       *)

LEMMA ConsoleInitType == ConsoleInit => ConsoleTypeOK
<1> SUFFICES ASSUME ConsoleInit
             PROVE  ConsoleTypeOK
  OBVIOUS
<1>1. TypeOK
  BY InitType DEF ConsoleInit
<1>2. NoVms \in [VmIds -> VmRecord] /\ AllFree \in [Pool -> VmIds \cup {None}]
  BY DEF NoVms, AllFree, NoRecord, VmRecord
<1> QED
  BY <1>1, <1>2, ConsoleAssumption
     DEF ConsoleTypeOK, ConsoleInit, NoPoll, NoPage

LEMMA ConsoleTypeInductive ==
  ASSUME ConsoleTypeOK, [ConsoleNext]_consoleVars
  PROVE  ConsoleTypeOK'
<1> DEFINE Rows == [VmIds -> VmRecord]
           Used == [Pool -> VmIds \cup {None}]
           Frees == SUBSET Pool
           Poll == [at   : {"idle", "listed", "half", "counted"},
                    rows : Rows, used : Used, free : Frees]
           Page == [rows : Rows, listError : BOOLEAN,
                    used : Used, free : Frees, poolError : BOOLEAN]
<1>1. TypeOK /\ TypeOK'
  BY ConsoleIsClient, TypeInductive DEF ConsoleTypeOK
<1>2. vms \in Rows /\ ipalloc \in Used /\ Free \in Frees
  BY <1>1 DEF TypeOK, IPAllocTypeOK, StoreTypeOK, Free
<1>3. NoVms \in Rows /\ AllFree \in Used /\ {} \in Frees
  BY DEF NoVms, AllFree, NoRecord, VmRecord, Statuses
<1>4. poll \in [Polls -> Poll] /\ page \in Page /\ errors \in 0..MaxErrors
  BY DEF ConsoleTypeOK
<1> HIDE DEF Rows, Used, Frees
<1>5. NoPoll \in Poll
  BY <1>3 DEF NoPoll
<1>6. poll' \in [Polls -> Poll] /\ page' \in Page /\ errors' \in 0..MaxErrors
  <2>1. CASE UNCHANGED <<poll, page, errors>>
    BY <1>4, <2>1
  <2>2. ASSUME NEW p \in Polls, handleListVMs(p)
        PROVE  poll' \in [Polls -> Poll] /\ UNCHANGED <<page, errors>>
    BY <1>2, <1>4, <2>2, ZenonT(30) DEF handleListVMs
  <2>3. ASSUME NEW p \in Polls, ReadUsed(p) \/ ReadFree(p)
        PROVE  poll' \in [Polls -> Poll] /\ UNCHANGED <<page, errors>>
    BY <1>2, <1>4, <2>3 DEF ReadUsed, ReadFree
  <2>4. ASSUME NEW p \in Polls, Show(p)
        PROVE  poll' \in [Polls -> Poll] /\ page' \in Page /\ UNCHANGED errors
    <3>1. poll[p] \in Poll /\ poll' \in [Polls -> Poll]
      BY <1>4, <1>5, <2>4 DEF Show
    <3>2. CASE page' = [page EXCEPT !.rows = poll[p].rows, !.listError = FALSE]
      <4> DEFINE shown == [page EXCEPT !.rows = poll[p].rows]
      <4>1. shown \in Page
        BY <1>4, <3>1
      <4>2. page' = [shown EXCEPT !.listError = FALSE]
        BY <3>2
      <4> HIDE DEF shown
      <4> QED
        BY <2>4, <3>1, <4>1, <4>2 DEF Show
    <3>3. CASE page' = [page EXCEPT !.used = poll[p].used, !.free = poll[p].free,
                                    !.poolError = FALSE]
      <4> DEFINE shown == [page EXCEPT !.used = poll[p].used]
                 read == [shown EXCEPT !.free = poll[p].free]
      <4>1. shown \in Page
        BY <1>4, <3>1
      <4>2. page' = [read EXCEPT !.poolError = FALSE]
        BY <3>3
      <4> HIDE DEF shown
      <4>3. read \in Page
        BY <3>1, <4>1
      <4> HIDE DEF read
      <4> QED
        BY <2>4, <3>1, <4>2, <4>3 DEF Show
    <3> QED
      BY <2>4, <3>1, <3>2, <3>3 DEF Show, RenderRows
  <2>5. ASSUME NEW p \in Polls, Fail(p)
        PROVE  poll' \in [Polls -> Poll] /\ page' \in Page /\ errors' \in 0..MaxErrors
    <3>1. poll' \in [Polls -> Poll] /\ page' \in Page
      BY <1>3, <1>4, <1>5, <2>5 DEF Fail
    <3>2. errors' \in 0..MaxErrors
      BY <1>4, <2>5, ConsoleAssumption DEF Fail
    <3> QED
      BY <3>1, <3>2
  <2> QED
    BY <1>4, <2>1, <2>2, <2>3, <2>4, <2>5
       DEF ConsoleNext, consoleVars, Submit, doDelete, RefreshList, RefreshPool
<1> QED
  BY <1>1, <1>6 DEF ConsoleTypeOK, Rows, Used, Frees

\* Under the console too every variable stays in its set, those of the page and
\* of its requests included, whatever fails.
THEOREM ConsoleTypeCorrect == ConsoleSpec => []ConsoleTypeOK
  BY ConsoleInitType, ConsoleTypeInductive, PTL DEF ConsoleSpec

-----------------------------------------------------------------------------
(* A step of a process is about one VM.  Another VM can only lose by it:   *)
(* a DELETE that comes late may release an address it has been given.      *)

Apart(m) ==
  /\ \A i \in VmIds : i # m => /\ ppc'[i] = ppc[i]
                               /\ prov'[i] = prov[i]
                               /\ vms'[i] = vms[i]
                               /\ inventory'[i] = inventory[i]
  /\ \A i \in VmIds, a \in Pool : i # m /\ Holds(i, a)' => Holds(i, a)
  /\ \A n \in AllNames : n # prov[m].name => datastore'[n] = datastore[n]

LEMMA ReleaseTakes ==
  ASSUME IPAllocTypeOK, NEW a, Release(a)
  PROVE  /\ \A i \in VmIds, b \in Pool : Holds(i, b)' => Holds(i, b)
         /\ "store" \notin Faults => \A i \in VmIds : ~Holds(i, a)'
  BY DataAssumption DEF Release, Holds, IPAllocTypeOK

LEMMA GoroutineApart ==
  ASSUME TypeOK, FindsOwn, NEW id \in VmIds, runProvision(id)
  PROVE  /\ Apart(id)
         /\ UNCHANGED <<dpc, del>>
         /\ prov'[id].name = prov[id].name
         /\ ppc[id] \notin {"none", "done", "lost"} /\ ppc'[id] # "none"
<1> USE DEF TypeOK, storeVars, esxiVars
<1> DEFINE Kept == /\ UNCHANGED <<dpc, del>>
                   /\ prov'[id].name = prov[id].name
                   /\ ppc[id] \notin {"none", "done", "lost"} /\ ppc'[id] # "none"
                   /\ \A i \in VmIds : i # id => ppc'[i] = ppc[i] /\ prov'[i] = prov[i]
<1>1. CASE RunStages(id)
  <2>1. Kept
    BY <1>1 DEF RunStages, SetAllocating, SetCloning, SetInjecting, SetStarting,
                SetReady, SetStatus, AcquireIP, RecordIP, Inject, Start, WaitReady,
                Launch, GoTo, ProvLocals
  <2>2. CASE AcquireIP(id)
    <3>1. UNCHANGED <<vms, inventory, datastore>>
      BY <2>2 DEF AcquireIP
    <3>2. \A i \in VmIds, a \in Pool : i # id /\ Holds(i, a)' => Holds(i, a)
      BY <2>2, DataAssumption
         DEF AcquireIP, Acquire, AcquireFails, Free, Holds, IPAllocTypeOK
    <3> QED
      BY <2>1, <3>1, <3>2 DEF Apart
  <2>3. CASE SetAllocating(id) \/ SetCloning(id) \/ SetInjecting(id)
             \/ SetStarting(id) \/ SetReady(id) \/ RecordIP(id)
    <3>1. UNCHANGED <<ipalloc, inventory, datastore>>
      BY <2>3 DEF SetAllocating, SetCloning, SetInjecting, SetStarting, SetReady,
                  SetStatus, RecordIP
    <3>2. \A i \in VmIds : i # id => vms'[i] = vms[i]
      BY <2>3, RecordTouch
         DEF SetAllocating, SetCloning, SetInjecting, SetStarting, SetReady,
             SetStatus, RecordIP, Statuses, InProgress
    <3> QED
      BY <2>1, <3>1, <3>2 DEF Apart, Holds
  <2>4. CASE Launch(id) \/ Inject(id) \/ Start(id) \/ WaitReady(id)
    <3>1. UNCHANGED <<ipalloc, vms, datastore>> /\ OthersKept(id)
      BY <2>4, InventoryTouch DEF Launch, Inject, Start, WaitReady, OthersKept
    <3> QED
      BY <2>1, <3>1 DEF Apart, OthersKept, Holds
  <2> QED
    BY <1>1, <2>1, <2>2, <2>3, <2>4 DEF RunStages
<1>2. CASE RunClone(id)
  <2>1. UNCHANGED <<ipalloc, vms>>
    BY <1>2 DEF RunClone, ResolveGold, CloneStep, CloneDone
  <2>2. Kept
    BY <1>2 DEF RunClone, ResolveGold, CloneStep, CloneDone, GoTo, StepAfter, Steps
  <2>3. /\ OthersKept(id)
        /\ \A k \in AllNames : k # prov[id].name => datastore'[k] = datastore[k]
    <3>1. CASE UNCHANGED <<inventory, datastore>>
      BY <3>1 DEF OthersKept
    <3>2. ASSUME NEW step, NEW ok, CloneCall(id, step, prov[id].name, ok)
          PROVE  /\ OthersKept(id)
                 /\ \A k \in AllNames : k # prov[id].name => datastore'[k] = datastore[k]
      <4>1. CASE step = "register"
        BY <3>2, <4>1, InventoryTouch DEF CloneCall
      <4>2. CASE step # "register"
        BY <3>2, <4>2, FolderTouch DEF CloneCall, OthersKept
      <4> QED
        BY <4>1, <4>2
    <3> QED
      BY <1>2, <3>1, <3>2 DEF RunClone, ResolveGold, CloneStep, CloneDone
  <2> QED
    BY <2>1, <2>2, <2>3 DEF Apart, OthersKept, Holds
<1>3. CASE RunFailure(id)
  <2>1. Kept
    BY <1>3 DEF RunFailure, MarkFailed, FailThen, SetStatus, ReleaseAfterClone, ReleaseIP,
                CleanupFind, CleanupPowerOff, CleanupUnregister, CleanupDir,
                CleanupRelease, CleanupCheckpoints, GoTo, ProvLocals
  <2>2. CASE MarkFailed(id)
    <3>1. UNCHANGED <<ipalloc, inventory, datastore>>
      BY <2>2 DEF MarkFailed, SetStatus
    <3>2. \A i \in VmIds : i # id => vms'[i] = vms[i]
      BY <2>2, RecordTouch DEF MarkFailed, SetStatus, Statuses
    <3> QED
      BY <2>1, <3>1, <3>2 DEF Apart, Holds
  <2>3. CASE ReleaseAfterClone(id) \/ CleanupRelease(id)
    <3>1. UNCHANGED <<vms, inventory, datastore>> /\ Release(prov[id].ip)
      BY <2>3 DEF ReleaseAfterClone, CleanupRelease, ReleaseIP
    <3> QED
      BY <2>1, <3>1, ReleaseTakes DEF Apart
  <2>4. CASE CleanupFind(id) \/ CleanupCheckpoints(id)
    BY <2>1, <2>4 DEF CleanupFind, CleanupCheckpoints, Apart, Holds
  <2>5. CASE CleanupPowerOff(id) \/ CleanupUnregister(id)
    <3>1. prov[id].vm = id
      BY <2>5 DEF CleanupPowerOff, CleanupUnregister, FindsOwn
    <3>2. UNCHANGED <<ipalloc, vms, datastore>> /\ OthersKept(id)
      BY <2>5, <3>1, InventoryTouch DEF CleanupPowerOff, CleanupUnregister
    <3> QED
      BY <2>1, <3>2 DEF Apart, OthersKept, Holds
  <2>6. CASE CleanupDir(id)
    <3>1. /\ UNCHANGED <<ipalloc, vms, inventory>>
          /\ \A k \in AllNames : k # prov[id].name => datastore'[k] = datastore[k]
      BY <2>6, FolderTouch DEF CleanupDir
    <3> QED
      BY <2>1, <3>1 DEF Apart, Holds
  <2> QED
    BY <1>3, <2>2, <2>3, <2>4, <2>5, <2>6 DEF RunFailure
<1> QED
  BY <1>1, <1>2, <1>3 DEF runProvision

LEMMA HandlerApart ==
  ASSUME TypeOK, FindsOwn, NEW h \in Handlers, ReadsTrue(h), Delete(h)
  PROVE  /\ Apart(del[h].id)
         /\ UNCHANGED <<ppc, prov>>
         /\ dpc[h] # "idle"
         /\ \A g \in Handlers : g # h => dpc'[g] = dpc[g] /\ del'[g] = del[g]
<1> USE DEF TypeOK, storeVars, esxiVars
<1>1. /\ UNCHANGED <<ppc, prov>>
      /\ dpc[h] # "idle"
      /\ \A g \in Handlers : g # h => dpc'[g] = dpc[g] /\ del'[g] = del[g]
  BY DEF Delete, DeleteMark, DeleteFind, DeletePowerOff, DeleteUnregister, DeleteFiles,
         DeleteRelease, DeleteCheckpoints, DeleteRecord, DelGoTo
<1>2. PICK m \in VmIds : m = del[h].id /\ del[h].name = prov[m].name
  BY <1>1 DEF ReadsTrue
<1>3. CASE DeleteMark(h) \/ DeleteRecord(h)
  <2>1. /\ UNCHANGED <<ipalloc, inventory, datastore>>
        /\ \A i \in VmIds : i # m => vms'[i] = vms[i]
    BY <1>2, <1>3, RecordTouch DEF DeleteMark, DeleteRecord, Statuses
  <2> QED
    BY <1>1, <1>2, <2>1 DEF Apart, Holds
<1>4. CASE DeleteFind(h) \/ DeleteCheckpoints(h)
  BY <1>1, <1>2, <1>4 DEF DeleteFind, DeleteCheckpoints, Apart, Holds
<1>5. CASE DeletePowerOff(h) \/ DeleteUnregister(h)
  <2>1. del[h].vm = m
    BY <1>2, <1>5 DEF DeletePowerOff, DeleteUnregister, FindsOwn
  <2>2. UNCHANGED <<ipalloc, vms, datastore>> /\ OthersKept(m)
    BY <1>5, <2>1, InventoryTouch DEF DeletePowerOff, DeleteUnregister
  <2> QED
    BY <1>1, <1>2, <2>2 DEF Apart, OthersKept, Holds
<1>6. CASE DeleteFiles(h)
  <2>1. /\ UNCHANGED <<ipalloc, vms, inventory>>
        /\ \A k \in AllNames : k # prov[m].name => datastore'[k] = datastore[k]
    BY <1>2, <1>6, FolderTouch DEF DeleteFiles
  <2> QED
    BY <1>1, <1>2, <2>1 DEF Apart, Holds
<1>7. CASE DeleteRelease(h)
  <2>1. /\ UNCHANGED <<vms, inventory, datastore>>
        /\ UNCHANGED ipalloc \/ Release(del[h].ip)
    BY <1>7 DEF DeleteRelease
  <2>2. \A i \in VmIds, a \in Pool : Holds(i, a)' => Holds(i, a)
    BY <2>1, ReleaseTakes DEF Holds
  <2> QED
    BY <1>1, <1>2, <2>1, <2>2 DEF Apart
<1> QED
  BY <1>3, <1>4, <1>5, <1>6, <1>7 DEF Delete

-----------------------------------------------------------------------------
(* What is past its outcome only fades, whoever takes the step.            *)

Fades(i) ==
  /\ ppc'[i] \in AfterOutcome
  /\ prov'[i].name = prov[i].name /\ prov'[i].ip = prov[i].ip
  /\ Present(i)' => Present(i) /\ vms'[i].ip = vms[i].ip
  /\ Running(i)' => Running(i)
  /\ Registered(i)' => Registered(i)
  /\ datastore'[prov[i].name] \subseteq datastore[prov[i].name]
  /\ \A a \in Pool : Holds(i, a)' => Holds(i, a)

LEMMA ApartFades ==
  ASSUME TypeOK, NamesApart, NEW m \in VmIds, Apart(m),
         NEW i \in VmIds, i # m, ppc[i] \in AfterOutcome
  PROVE  Fades(i)
<1>1. prov[i].name \in AllNames /\ prov[i].name # prov[m].name
  BY DEF NamesApart, TypeOK, ProvLocals, AfterOutcome, CleanupPCs
<1> QED
  BY <1>1 DEF Apart, Fades, Present, Running, Registered

LEMMA RemoveDirFades ==
  ASSUME ESXiTypeOK, NEW n, NEW ok, DeleteDir(n, ok)
  PROVE  /\ \A k \in AllNames : datastore'[k] \subseteq datastore[k]
         /\ UNCHANGED inventory
  BY DEF DeleteDir, DatastoreCall, ESXiTypeOK

LEMMA GoroutineFades ==
  ASSUME TypeOK, NamesApart, NEW id \in VmIds, runProvision(id),
         ppc[id] \in AfterOutcome
  PROVE  Fades(id)
<1> USE DEF TypeOK, storeVars, esxiVars
<1>1. prov[id].name \in AllNames
  BY DEF NamesApart, ProvLocals, AfterOutcome, CleanupPCs
<1>2. \/ ReleaseAfterClone(id) \/ CleanupRelease(id)
      \/ CleanupFind(id) \/ CleanupCheckpoints(id)
      \/ CleanupPowerOff(id) \/ CleanupUnregister(id)
      \/ CleanupDir(id)
  <2>1. ~RunStages(id)
    BY DEF RunStages, SetAllocating, SetCloning, SetInjecting, SetStarting, SetReady,
           SetStatus, AcquireIP, RecordIP, Inject, Start, WaitReady, Launch, AfterOutcome,
           CleanupPCs
  <2>2. ~RunClone(id)
    BY DEF RunClone, ResolveGold, CloneStep, CloneDone, Steps, AfterOutcome, CleanupPCs
  <2>3. ~MarkFailed(id)
    BY DEF MarkFailed, SetStatus, FailThen, AfterOutcome, CleanupPCs
  <2> QED
    BY <2>1, <2>2, <2>3 DEF runProvision, RunFailure
<1>3. UNCHANGED vms /\ prov'[id].name = prov[id].name /\ prov'[id].ip = prov[id].ip
      /\ ppc'[id] \in AfterOutcome
  BY <1>2 DEF ReleaseAfterClone, CleanupRelease, ReleaseIP, CleanupFind,
              CleanupCheckpoints, CleanupPowerOff, CleanupUnregister, CleanupDir,
              GoTo, ProvLocals, AfterOutcome, CleanupPCs
<1>4. CASE ReleaseAfterClone(id) \/ CleanupRelease(id)
  <2>1. UNCHANGED <<inventory, datastore>> /\ Release(prov[id].ip)
    BY <1>4 DEF ReleaseAfterClone, CleanupRelease, ReleaseIP
  <2> QED
    BY <1>3, <2>1, ReleaseTakes DEF Fades, Present, Running, Registered
<1>5. CASE CleanupFind(id) \/ CleanupCheckpoints(id)
  <2>1. UNCHANGED <<ipalloc, inventory, datastore>>
    BY <1>5 DEF CleanupFind, CleanupCheckpoints
  <2> QED
    BY <1>3, <2>1 DEF Fades, Present, Running, Registered, Holds
<1>6. CASE CleanupPowerOff(id) \/ CleanupUnregister(id)
  <2>1. UNCHANGED ipalloc /\ Calms(id)
    BY <1>6, StopCalms DEF CleanupPowerOff, CleanupUnregister
  <2>2. UNCHANGED datastore
    BY <1>6 DEF CleanupPowerOff, CleanupUnregister, PowerOff, Unregister, InventoryCall
  <2> QED
    BY <1>3, <2>1, <2>2 DEF Fades, Present, Calms, Holds
<1>7. CASE CleanupDir(id)
  <2>1. /\ UNCHANGED <<ipalloc, inventory>>
        /\ datastore'[prov[id].name] \subseteq datastore[prov[id].name]
    BY <1>1, <1>7, RemoveDirFades DEF CleanupDir
  <2> QED
    BY <1>3, <2>1 DEF Fades, Present, Running, Registered, Holds
<1> QED
  BY <1>2, <1>4, <1>5, <1>6, <1>7

LEMMA HandlerFades ==
  ASSUME TypeOK, NamesApart, NEW h \in Handlers, ReadsTrue(h), Delete(h)
  PROVE  Fades(del[h].id)
<1> USE DEF TypeOK, storeVars, esxiVars
<1>1. UNCHANGED <<ppc, prov>> /\ dpc[h] # "idle"
  BY DEF Delete, DeleteMark, DeleteFind, DeletePowerOff, DeleteUnregister, DeleteFiles,
         DeleteRelease, DeleteCheckpoints, DeleteRecord
<1>2. PICK m \in VmIds : /\ m = del[h].id /\ ppc[m] \in AfterOutcome
                         /\ del[h].name = prov[m].name
  BY <1>1 DEF ReadsTrue
<1> SUFFICES Fades(m)
  BY <1>2
<1>3. prov[m].name \in AllNames
  BY <1>2 DEF NamesApart, ProvLocals, AfterOutcome, CleanupPCs
<1>4. CASE DeleteMark(h) \/ DeleteRecord(h)
  <2>1. UNCHANGED <<ipalloc, inventory, datastore>>
    BY <1>4 DEF DeleteMark, DeleteRecord
  <2>2. Present(m)' => Present(m) /\ vms'[m].ip = vms[m].ip
    BY <1>2, <1>4 DEF DeleteMark, DeleteRecord, UpdateStatus, RemoveRecord, Present,
                      NoRecord, StoreTypeOK, VmRecord
  <2> QED
    BY <1>1, <1>2, <2>1, <2>2 DEF Fades, Running, Registered, Holds
<1>5. CASE DeleteFind(h) \/ DeleteCheckpoints(h)
  <2>1. UNCHANGED <<ipalloc, vms, inventory, datastore>>
    BY <1>5 DEF DeleteFind, DeleteCheckpoints
  <2> QED
    BY <1>1, <1>2, <2>1 DEF Fades, Present, Running, Registered, Holds
<1>6. CASE DeletePowerOff(h) \/ DeleteUnregister(h)
  <2>1. UNCHANGED <<ipalloc, vms>> /\ Calms(m)
    BY <1>6, StopCalms DEF DeletePowerOff, DeleteUnregister
  <2>2. UNCHANGED datastore
    BY <1>6 DEF DeletePowerOff, DeleteUnregister, PowerOff, Unregister, InventoryCall
  <2> QED
    BY <1>1, <1>2, <2>1, <2>2 DEF Fades, Present, Calms, Holds
<1>7. CASE DeleteFiles(h)
  <2>1. /\ UNCHANGED <<ipalloc, vms, inventory>>
        /\ datastore'[prov[m].name] \subseteq datastore[prov[m].name]
    BY <1>3, <1>7, RemoveDirFades DEF DeleteFiles
  <2> QED
    BY <1>1, <1>2, <2>1 DEF Fades, Present, Running, Registered, Holds
<1>8. CASE DeleteRelease(h)
  <2>1. UNCHANGED <<vms, inventory, datastore>>
    BY <1>8 DEF DeleteRelease
  <2>2. \A a \in Pool : Holds(m, a)' => Holds(m, a)
    BY <1>8, ReleaseTakes DEF DeleteRelease, Holds
  <2> QED
    BY <1>1, <1>2, <2>1, <2>2 DEF Fades, Present, Running, Registered
<1> QED
  BY <1>4, <1>5, <1>6, <1>7, <1>8 DEF Delete

LEMMA ProvisionApart ==
  ASSUME TypeOK, NEW id \in VmIds, NEW name, Provision(id, name)
  PROVE  Apart(id) /\ ppc[id] = "none" /\ UNCHANGED <<ipalloc, esxiVars, dpc, del>>
  BY DEF Provision, Put, GoTo, Apart, Holds, TypeOK, StoreTypeOK, esxiVars

LEMMA EndedFades ==
  ASSUME TypeOK, NamesApart, FindsOwn, \A h \in Handlers : ReadsTrue(h), [Next]_vars,
         NEW i \in VmIds, ppc[i] \in AfterOutcome
  PROVE  Fades(i)
<1>1. CASE UNCHANGED <<ipalloc, vms, datastore, inventory, ppc, prov>>
  BY <1>1 DEF Fades, Present, Running, Registered, Holds
<1>2. ASSUME NEW id \in VmIds, NEW name, Provision(id, name)
      PROVE  Fades(i)
  <2>1. id # i
    BY <1>2, ProvisionApart DEF AfterOutcome, CleanupPCs
  <2> QED
    BY <1>2, <2>1, ProvisionApart, ApartFades
<1>3. ASSUME NEW id \in VmIds, runProvision(id)
      PROVE  Fades(i)
  BY <1>3, GoroutineFades, GoroutineApart, ApartFades
<1>4. ASSUME NEW h \in Handlers, Delete(h)
      PROVE  Fades(i)
  <2>1. del[h].id \in VmIds
    BY <1>4, HandlerApart DEF ReadsTrue
  <2> QED
    BY <1>4, <2>1, HandlerFades, HandlerApart, ApartFades
<1>5. CASE \E h \in Handlers, id \in VmIds : DeleteStart(h, id)
  BY <1>1, <1>5 DEF DeleteStart, storeVars, esxiVars
<1> QED
  BY <1>1, <1>2, <1>3, <1>4, <1>5 DEF Next, Daemon, vars

-----------------------------------------------------------------------------
(* What a handler knows stays true while others work, and each of its own  *)
(* calls makes the next part of it true.                                   *)

LEMMA OthersKeepHandler ==
  ASSUME NEW h \in Handlers, ReadsTrue(h), GoneSoFar(h),
         dpc[h] # "idle" => Fades(del[h].id),
         dpc'[h] = dpc[h], del'[h] = del[h]
  PROVE  ReadsTrue(h)' /\ GoneSoFar(h)'
<1>1. CASE dpc[h] = "idle"
  BY <1>1 DEF ReadsTrue, GoneSoFar, Removes
<1>2. CASE dpc[h] # "idle"
  <2>1. PICK m : m = del[h].id
    OBVIOUS
  <2>2. /\ Fades(m) /\ m \in VmIds /\ ppc[m] \in AfterOutcome
        /\ del[h].name = prov[m].name /\ del[h].ip = prov[m].ip
    BY <1>2, <2>1 DEF ReadsTrue
  <2>3. ReadsTrue(h)'
    BY <2>1, <2>2 DEF ReadsTrue, Fades
  <2>4. /\ Running(m)' => Running(m)
        /\ Registered(m)' => Registered(m)
        /\ datastore[del[h].name] = {} => datastore'[del'[h].name] = {}
        /\ \A a \in Pool : Holds(m, a)' => Holds(m, a)
    BY <2>2 DEF Fades
  <2>5. GoneSoFar(h)'
    BY <2>1, <2>4 DEF GoneSoFar, Removes, Running, Registered, Holds
  <2> QED
    BY <2>3, <2>5
<1> QED
  BY <1>1, <1>2

LEMMA PowerOffStops ==
  ASSUME Truthful, ESXiTypeOK, NEW m \in VmIds, NEW ok, PowerOff(m, ok)
  PROVE  ~Running(m)'
<1>1. PICK done \in BOOLEAN :
        /\ Outcome("poweroff", Registered(m), ok, done)
        /\ inventory' = IF done THEN [inventory EXCEPT ![m] = [inventory[m] EXCEPT !.state = "off"]]
                                ELSE inventory
  BY DEF PowerOff, InventoryCall
<1>2. done <=> Registered(m)
  BY <1>1, ReliableCall DEF Registered, Truthful
<1>3. [inventory[m] EXCEPT !.state = "off"].state = "off"
  BY DEF ESXiTypeOK, VmObject
<1> QED
  BY <1>1, <1>2, <1>3 DEF Running, Registered, ESXiTypeOK

LEMMA UnregisterRemoves ==
  ASSUME Truthful, ESXiTypeOK, NEW m \in VmIds, NEW ok, Unregister(m, ok), ~Running(m)
  PROVE  ~Registered(m)'
<1>1. PICK done \in BOOLEAN :
        /\ Outcome("unregister", inventory[m].state = "off", ok, done)
        /\ inventory' = IF done THEN [inventory EXCEPT ![m] = NoVm] ELSE inventory
  BY DEF Unregister, InventoryCall
<1>2. done <=> inventory[m].state = "off"
  BY <1>1, ReliableCall DEF Truthful
<1> QED
  BY <1>1, <1>2 DEF Running, Registered, ESXiTypeOK, VmObject, NoVm

LEMMA DeleteDirRemoves ==
  ASSUME Truthful, ESXiTypeOK, NEW n \in AllNames, NEW ok, DeleteDir(n, ok), ~Locked(n)
  PROVE  datastore'[n] = {}
<1>1. PICK done \in BOOLEAN :
        /\ Outcome("deletedir", datastore[n] # {} /\ ~Locked(n), ok, done)
        /\ datastore' = IF done THEN [datastore EXCEPT ![n] = {}] ELSE datastore
  BY DEF DeleteDir, DatastoreCall
<1>2. done <=> datastore[n] # {} /\ ~Locked(n)
  BY <1>1, ReliableCall DEF Truthful
<1> QED
  BY <1>1, <1>2 DEF ESXiTypeOK

\* Names lead a search to the VM of the id or to none.
LEMMA NamedOwn ==
  ASSUME NamesApart, OwnNames, NEW id \in VmIds, ppc[id] # "none"
  PROVE  VmsNamed(prov[id].name) \subseteq {id}
  BY DEF NamesApart, OwnNames, VmsNamed

LEMMA HandlerStep ==
  ASSUME Truthful, TypeOK, NamesApart, OwnNames, FindsOwn, NEW h \in Handlers,
         ReadsTrue(h), GoneSoFar(h), Delete(h),
         \A i \in VmIds : RecordsOwn(i)
  PROVE  /\ ReadsTrue(h)' /\ GoneSoFar(h)'
         /\ dpc'[h] \in {"off", "unregister"} => del'[h].vm = del'[h].id
<1> USE DEF TypeOK, storeVars, esxiVars
<1>1. dpc[h] # "idle" /\ UNCHANGED <<ppc, prov>>
  BY HandlerApart
<1>2. PICK m \in VmIds : m = del[h].id
  BY <1>1 DEF ReadsTrue
<1>3. /\ ppc[m] \in AfterOutcome /\ ppc[m] # "none"
      /\ del[h].name = prov[m].name /\ del[h].ip = prov[m].ip
  BY <1>1, <1>2 DEF ReadsTrue, AfterOutcome, CleanupPCs
<1>4. prov[m].name \in AllNames
  BY <1>3 DEF NamesApart, ProvLocals
<1>5. Fades(m)
  BY <1>2, HandlerFades
<1>6. ASSUME del'[h].id = m, del'[h].name = del[h].name, del'[h].ip = del[h].ip
      PROVE  ReadsTrue(h)'
  BY <1>1, <1>2, <1>3, <1>6 DEF ReadsTrue
<1>7. ASSUME del'[h].id = m, del'[h].name = del[h].name, del'[h].ip = del[h].ip,
             dpc'[h] = "unregister" => ~Running(m)',
             dpc'[h] \in {"rmdir", "release", "clear", "remove"} => ~Registered(m)',
             dpc'[h] \in {"release", "clear", "remove"} => datastore'[prov[m].name] = {},
             dpc'[h] \in {"clear", "remove"} => \A a \in Pool : ~Holds(m, a)'
      PROVE  ReadsTrue(h)' /\ GoneSoFar(h)'
  <2>1. GoneSoFar(h)'
    BY <1>3, <1>7 DEF GoneSoFar, Removes, Running, Registered, Holds
  <2> QED
    BY <1>6, <1>7, <2>1
<1>8. ASSUME dpc'[h] = "idle"
      PROVE  ReadsTrue(h)' /\ GoneSoFar(h)'
  BY <1>8 DEF ReadsTrue, GoneSoFar, Removes
<1>9. CASE DeleteMark(h)
  BY <1>2, <1>7, <1>9 DEF DeleteMark, DelGoTo
<1>10. CASE DeleteFind(h)
  <2>1. ASSUME NEW k \in VmIds, FindVM(del[h].name, k),
               del' = [del EXCEPT ![h].vm = k], DelGoTo(h, "off")
        PROVE  /\ ReadsTrue(h)' /\ GoneSoFar(h)'
               /\ del'[h].vm = del'[h].id
    <3>1. k = m
      BY <1>3, <2>1, NamedOwn DEF FindVM
    <3>2. /\ del'[h].id = m /\ del'[h].name = del[h].name /\ del'[h].ip = del[h].ip
          /\ del'[h].vm = k /\ dpc'[h] = "off"
      BY <1>2, <2>1 DEF DelGoTo, DelLocals
    <3> QED
      BY <1>7, <3>1, <3>2
  <2>2. ASSUME VmNotFound(del[h].name), DelGoTo(h, "rmdir"), UNCHANGED del
        PROVE  ReadsTrue(h)' /\ GoneSoFar(h)' /\ dpc'[h] = "rmdir"
    <3>1. ~Registered(m)
      BY <1>3, <2>2 DEF VmNotFound, VmsNamed, OwnNames
    <3>2. ~Registered(m)' /\ dpc'[h] = "rmdir"
      BY <1>5, <2>2, <3>1 DEF Fades, DelGoTo
    <3> QED
      BY <1>2, <1>7, <2>2, <3>2
  <2>3. ASSUME DelGoTo(h, "idle")
        PROVE  ReadsTrue(h)' /\ GoneSoFar(h)' /\ dpc'[h] = "idle"
    BY <1>8, <2>3 DEF DelGoTo
  <2> QED
    BY <1>10, <2>1, <2>2, <2>3 DEF DeleteFind
<1>11. CASE DeletePowerOff(h)
  <2>1. del[h].vm = m /\ UNCHANGED del /\ dpc'[h] = "unregister"
    BY <1>2, <1>11 DEF DeletePowerOff, DelGoTo, FindsOwn
  <2>2. ~Running(m)'
    BY <1>11, <2>1, PowerOffStops DEF DeletePowerOff
  <2> QED
    BY <1>2, <1>7, <2>1, <2>2
<1>12. CASE DeleteUnregister(h)
  <2>1. del[h].vm = m /\ UNCHANGED del /\ dpc'[h] = "rmdir" /\ dpc[h] = "unregister"
    BY <1>2, <1>12 DEF DeleteUnregister, DelGoTo, FindsOwn
  <2>2. ~Registered(m)'
    BY <1>2, <1>12, <2>1, UnregisterRemoves DEF DeleteUnregister, GoneSoFar
  <2> QED
    BY <1>2, <1>7, <2>1, <2>2
<1>13. CASE DeleteFiles(h)
  <2>1. UNCHANGED del /\ dpc'[h] = "release" /\ dpc[h] = "rmdir"
    BY <1>13 DEF DeleteFiles, DelGoTo
  <2>2. ~Registered(m)
    BY <1>2, <2>1 DEF GoneSoFar, Removes
  <2>3. ~Locked(prov[m].name)
    BY <1>3, <2>2, NamedOwn DEF Locked, VmsNamed
  <2>4. datastore'[prov[m].name] = {} /\ ~Registered(m)'
    BY <1>3, <1>4, <1>5, <1>13, <2>2, <2>3, DeleteDirRemoves DEF DeleteFiles, Fades
  <2> QED
    BY <1>2, <1>7, <2>1, <2>4
<1>14. ASSUME dpc[h] \in {"release", "clear"}, UNCHANGED del, dpc'[h] \in {"clear", "remove"},
              \A a \in Pool : ~Holds(m, a)'
       PROVE  ReadsTrue(h)' /\ GoneSoFar(h)'
  <2>1. ~Registered(m) /\ datastore[prov[m].name] = {}
    BY <1>2, <1>3, <1>14 DEF GoneSoFar, Removes
  <2>2. ~Registered(m)' /\ datastore'[prov[m].name] = {}
    BY <1>5, <2>1 DEF Fades
  <2> QED
    BY <1>2, <1>7, <1>14, <2>2
<1>15. CASE DeleteRelease(h)
  <2>1. /\ UNCHANGED del /\ dpc'[h] = "clear" /\ dpc[h] = "release"
        /\ IF prov[m].ip = None THEN UNCHANGED ipalloc ELSE Release(prov[m].ip)
    BY <1>3, <1>15 DEF DeleteRelease, DelGoTo
  <2>2. \A a \in Pool : ~Holds(m, a)'
    BY <1>5, <2>1, ReleaseTakes, DataAssumption DEF RecordsOwn, Fades, Truthful
  <2> QED
    BY <1>14, <2>1, <2>2
<1>16. CASE DeleteCheckpoints(h)
  <2>1. UNCHANGED del /\ dpc'[h] = "remove" /\ dpc[h] = "clear"
    BY <1>16 DEF DeleteCheckpoints, DelGoTo
  <2>2. \A a \in Pool : ~Holds(m, a)'
    BY <1>2, <1>5, <2>1 DEF GoneSoFar, Fades
  <2> QED
    BY <1>14, <2>1, <2>2
<1>17. CASE DeleteRecord(h)
  BY <1>8, <1>17 DEF DeleteRecord, DelGoTo
<1> QED
  <2>1. CASE DeleteFind(h)
    BY <1>10, <2>1
  <2>2. ASSUME ~DeleteFind(h), dpc'[h] = "off"
        PROVE  FALSE
    BY <2>2 DEF Delete, DeleteMark, DeletePowerOff, DeleteUnregister, DeleteFiles,
                DeleteRelease, DeleteCheckpoints, DeleteRecord, DelGoTo
  <2> QED
    BY <1>9, <1>10, <1>11, <1>12, <1>13, <1>15, <1>16, <1>17, <2>2 DEF Delete

-----------------------------------------------------------------------------
(* The record of an id: written by its own goroutine until the outcome,    *)
(* after that by nobody but the DELETEs.                                   *)

LEMMA EndedRecords ==
  ASSUME NEW i \in VmIds, ppc[i] \in AfterOutcome, RecordsOwn(i), Fades(i)
  PROVE  RecordsOwn(i)'
  BY DEF RecordsOwn, Fades, AfterOutcome, CleanupPCs, BeforeAcquire, BeforeSetIP

LEMMA OthersRecords ==
  ASSUME NEW m \in VmIds, Apart(m), NEW i \in VmIds, i # m, RecordsOwn(i)
  PROVE  RecordsOwn(i)'
  BY DEF RecordsOwn, Apart, Present

\* A status other than an outcome does not end the provision.
Shows(i) ==
  vms'[i].status \in {"ready", "failed"} => ppc'[i] \in AfterOutcome

LEMMA GoroutineRecordsOwn ==
  ASSUME TypeOK, "store" \notin Faults, NEW id \in VmIds, RecordsOwn(id), ShowsEnded(vms),
         runProvision(id), ppc[id] \notin AfterOutcome, ppc[id] \notin {"none", "lost"}
  PROVE  RecordsOwn(id)' /\ Present(id)' /\ Shows(id)
<1> USE DEF TypeOK, StoreTypeOK, storeVars, esxiVars
<1>1. /\ Present(id)
      /\ vms[id].status \notin {"ready", "failed"}
      /\ vms[id].ip = IF ppc[id] \in BeforeSetIP THEN None ELSE prov[id].ip
      /\ \A a \in Pool : Holds(id, a) => a = prov[id].ip
      /\ ppc[id] \in BeforeAcquire => prov[id].ip = None
  BY DEF RecordsOwn, ShowsEnded
\* What does not write the record, where the address is not acquired either.
<1>2. ASSUME UNCHANGED <<ipalloc, vms, prov>>, ppc'[id] \notin BeforeSetIP,
             ppc[id] \notin BeforeSetIP
      PROVE  RecordsOwn(id)' /\ Present(id)' /\ Shows(id)
  BY <1>1, <1>2 DEF RecordsOwn, Shows, Present, Holds, BeforeSetIP, BeforeAcquire
<1>3. ASSUME NEW at, NEW s \in Statuses, NEW next, SetStatus(id, at, s, next),
             at \in BeforeAcquire <=> next \in BeforeAcquire,
             at \in BeforeSetIP <=> next \in BeforeSetIP,
             s \in {"ready", "failed"} => next \in AfterOutcome
      PROVE  RecordsOwn(id)' /\ Present(id)' /\ Shows(id)
  <2>1. /\ UNCHANGED <<ipalloc, prov>> /\ ppc[id] = at /\ ppc'[id] = next
        /\ vms'[id].status = s /\ vms'[id].ip = vms[id].ip
    BY <1>1, <1>3 DEF SetStatus, UpdateStatus, WriteMayFail, GoTo, VmRecord
  <2>2. Present(id)'
    BY <2>1 DEF Present, Statuses, InProgress
  <2> QED
    BY <1>1, <1>3, <2>1, <2>2 DEF RecordsOwn, Shows, Holds
<1>4. CASE SetAllocating(id) \/ SetCloning(id) \/ SetInjecting(id)
           \/ SetStarting(id) \/ SetReady(id)
  BY <1>3, <1>4
     DEF SetAllocating, SetCloning, SetInjecting, SetStarting, SetReady, Statuses,
         InProgress, BeforeAcquire, BeforeSetIP, AfterOutcome
<1>5. ASSUME NEW a \in Pool, Acquire(id, a), prov' = [prov EXCEPT ![id].ip = a],
             GoTo(id, "setip"), UNCHANGED vms, ppc[id] = "acquire"
      PROVE  RecordsOwn(id)' /\ Present(id)' /\ Shows(id)
  <2>1. ppc'[id] = "setip" /\ prov'[id].ip = a /\ ~(\E b \in Pool : Holds(id, b))
    BY <1>1, <1>5, DataAssumption DEF GoTo, ProvLocals, BeforeAcquire
  <2>2. \A b \in Pool : Holds(id, b)' => b = a
    BY <1>5, <2>1 DEF Acquire, Holds, IPAllocTypeOK
  <2> QED
    BY <1>1, <1>5, <2>1, <2>2
       DEF RecordsOwn, Shows, Present, BeforeAcquire, BeforeSetIP
<1>6. CASE AcquireIP(id)
  <2>1. ASSUME AcquireFails, GoTo(id, "fail_return"), UNCHANGED <<vms, prov>>,
               ppc[id] = "acquire"
        PROVE  RecordsOwn(id)' /\ Present(id)' /\ Shows(id)
    <3>1. /\ UNCHANGED ipalloc /\ ppc'[id] = "fail_return"
          /\ prov[id].ip = None /\ vms[id].ip = None
      BY <1>1, <2>1 DEF AcquireFails, GoTo, BeforeAcquire, BeforeSetIP
    <3> QED
      BY <1>1, <2>1, <3>1 DEF RecordsOwn, Shows, Present, Holds, BeforeAcquire, BeforeSetIP
  <2> QED
    BY <1>5, <1>6, <2>1 DEF AcquireIP
<1>7. CASE RecordIP(id)
  <2>1. /\ UNCHANGED <<ipalloc, prov>> /\ ppc'[id] = "cloning"
        /\ vms'[id].ip = prov[id].ip /\ vms'[id].status = vms[id].status
    BY <1>1, <1>7 DEF RecordIP, SetIP, WriteMayFail, GoTo, VmRecord
  <2> QED
    BY <1>1, <2>1 DEF RecordsOwn, Shows, Present, Holds, BeforeAcquire, BeforeSetIP
<1>8. CASE Inject(id) \/ Start(id) \/ WaitReady(id)
  BY <1>2, <1>8 DEF Inject, Start, WaitReady, GoTo, BeforeSetIP
<1>9. CASE RunClone(id)
  BY <1>2, <1>9
     DEF RunClone, ResolveGold, CloneStep, CloneDone, GoTo, StepAfter, Steps, BeforeSetIP
<1>10. CASE MarkFailed(id)
  BY <1>3, <1>10 DEF MarkFailed, FailThen, Statuses, BeforeAcquire, BeforeSetIP,
                     AfterOutcome, CleanupPCs
<1>11. RunFailure(id) => MarkFailed(id)
  BY DEF RunFailure, ReleaseAfterClone, ReleaseIP, CleanupFind, CleanupPowerOff,
         CleanupUnregister, CleanupDir, CleanupRelease, CleanupCheckpoints,
         AfterOutcome, CleanupPCs
<1>12. CASE Launch(id)
  <2>1. /\ UNCHANGED <<vms, ipalloc, prov>>
        /\ ppc[id] = "pending" /\ ppc'[id] = "allocating"
    BY <1>1, <1>12 DEF Launch, GoTo, storeVars
  <2> QED
    BY <1>1, <2>1 DEF RecordsOwn, Shows, Present, Holds, BeforeAcquire, BeforeSetIP
<1> QED
  BY <1>4, <1>6, <1>7, <1>8, <1>9, <1>10, <1>11, <1>12 DEF runProvision, RunStages

LEMMA ProvisionRecordsOwn ==
  ASSUME TypeOK, NamesApart, NEW id \in VmIds, NEW name, Provision(id, name), RecordsOwn(id)
  PROVE  RecordsOwn(id)' /\ Present(id)' /\ Shows(id)
<1>1. /\ UNCHANGED ipalloc /\ ppc[id] = "none" /\ ppc'[id] = "pending"
      /\ vms'[id] = [name |-> name, status |-> "pending", ip |-> None]
      /\ prov'[id].ip = prov[id].ip /\ prov[id].ip = None
  BY DEF Provision, Put, GoTo, NamesApart, NoProvision, TypeOK, StoreTypeOK, ProvLocals
<1> QED
  BY <1>1 DEF RecordsOwn, Shows, Present, Holds, BeforeAcquire, BeforeSetIP

\* Every record, whoever takes the step: kept as it should be, and there as long
\* as the provision has not come to an outcome.
LEMMA RecordsInductive ==
  ASSUME TypeOK, NamesApart, FindsOwn, ShowsEnded(vms), "store" \notin Faults,
         \A h \in Handlers : ReadsTrue(h), [Next]_vars,
         NEW i \in VmIds, RecordsOwn(i)
  PROVE  /\ RecordsOwn(i)'
         /\ ppc'[i] # "none" /\ ppc[i] \notin AfterOutcome => Present(i)'
         /\ ppc[i] \notin AfterOutcome => Shows(i)
<1>1. ASSUME ppc[i] \in AfterOutcome
      PROVE  RecordsOwn(i)'
  BY <1>1, EndedFades, EndedRecords
<1>2. ASSUME NEW m \in VmIds, Apart(m), m # i, ppc[i] \notin AfterOutcome
      PROVE  /\ RecordsOwn(i)' /\ Shows(i)
             /\ ppc'[i] # "none" => Present(i)'
  <2>1. RecordsOwn(i)' /\ vms'[i] = vms[i] /\ ppc'[i] = ppc[i]
    BY <1>2, OthersRecords DEF Apart
  <2> QED
    BY <1>2, <2>1 DEF RecordsOwn, Shows, ShowsEnded
<1>3. ASSUME UNCHANGED <<ipalloc, vms, ppc, prov>>, ppc[i] \notin AfterOutcome
      PROVE  /\ RecordsOwn(i)' /\ Shows(i)
             /\ ppc'[i] # "none" => Present(i)'
  BY <1>3 DEF RecordsOwn, Shows, ShowsEnded, Present, Holds
<1>4. ASSUME NEW id \in VmIds, NEW name, Provision(id, name), ppc[i] \notin AfterOutcome
      PROVE  /\ RecordsOwn(i)' /\ Shows(i)
             /\ ppc'[i] # "none" => Present(i)'
  BY <1>2, <1>4, ProvisionApart, ProvisionRecordsOwn
<1>5. ASSUME NEW id \in VmIds, runProvision(id), ppc[i] \notin AfterOutcome
      PROVE  /\ RecordsOwn(i)' /\ Shows(i)
             /\ ppc'[i] # "none" => Present(i)'
  BY <1>2, <1>5, GoroutineApart, GoroutineRecordsOwn
<1>6. ASSUME NEW h \in Handlers, Delete(h), ppc[i] \notin AfterOutcome
      PROVE  /\ RecordsOwn(i)' /\ Shows(i)
             /\ ppc'[i] # "none" => Present(i)'
  <2>1. Apart(del[h].id) /\ del[h].id \in VmIds /\ del[h].id # i
    BY <1>6, HandlerApart DEF ReadsTrue
  <2> QED
    BY <1>2, <1>6, <2>1
<1>7. CASE UNCHANGED vars \/ \E h \in Handlers, id \in VmIds : DeleteStart(h, id)
  BY <1>1, <1>3, <1>7 DEF vars, DeleteStart, storeVars
<1> QED
  BY <1>1, <1>4, <1>5, <1>6, <1>7 DEF Next, Daemon

-----------------------------------------------------------------------------
(* Names.                                                                  *)

\* The ids keep their names, an id that is drawn gets one nobody has.
LEMMA NamesInductive ==
  ASSUME TypeOK, NamesApart, FindsOwn, [ConsoleNext]_consoleVars,
         \A h \in Handlers : ReadsTrue(h)
  PROVE  NamesApart'
<1>1. ASSUME \A i \in VmIds : /\ ppc'[i] = "none" <=> ppc[i] = "none"
                              /\ prov'[i].name = prov[i].name
                              /\ ppc[i] = "none" => prov'[i] = prov[i]
      PROVE  NamesApart'
  BY <1>1 DEF NamesApart
<1>2. ASSUME NEW id \in VmIds, NEW name \in Names \cup {id}, Submit(id, name)
      PROVE  NamesApart'
  <2>1. /\ ppc[id] = "none" /\ ppc'[id] = "pending" /\ prov'[id].name = name
        /\ name # None /\ \A i \in VmIds : prov[i].name # name
        /\ \A i \in VmIds : i # id => ppc'[i] = ppc[i] /\ prov'[i] = prov[i]
    BY <1>2, DataAssumption
       DEF Submit, UniqueName, Provision, GoTo, TypeOK, ProvLocals
  <2> QED
    BY <2>1 DEF NamesApart
<1>3. ASSUME NEW id \in VmIds, runProvision(id)
      PROVE  NamesApart'
  BY <1>1, <1>3, GoroutineApart DEF Apart
<1>4. ASSUME NEW h \in Handlers, Delete(h)
      PROVE  NamesApart'
  BY <1>1, <1>4, HandlerApart
<1>5. CASE UNCHANGED <<ppc, prov>>
  BY <1>1, <1>5
<1> QED
  BY <1>2, <1>3, <1>4, <1>5
     DEF ConsoleNext, consoleVars, vars, doDelete, DeleteStart, Daemon, RefreshList,
         RefreshPool, handleListVMs, ReadUsed, ReadFree, Show, Fail

LEMMA StopKeepsNames ==
  ASSUME ESXiTypeOK, NEW m, NEW ok, PowerOff(m, ok) \/ Unregister(m, ok)
  PROVE  \A i \in VmIds : Registered(i)' => /\ Registered(i)
                                           /\ inventory'[i].name = inventory[i].name
<1> SUFFICES ASSUME NEW i \in VmIds
             PROVE  Registered(i)' => /\ Registered(i)
                                      /\ inventory'[i].name = inventory[i].name
  OBVIOUS
<1> USE DEF ESXiTypeOK, VmObject, Registered
<1>1. CASE inventory' = inventory
  BY <1>1
<1>2. CASE inventory' = [inventory EXCEPT ![m] = [inventory[m] EXCEPT !.state = "off"]]
           /\ Registered(m)
  BY <1>2
<1>3. CASE inventory' = [inventory EXCEPT ![m] = NoVm]
  BY <1>3 DEF NoVm
<1> QED
  BY <1>1, <1>2, <1>3 DEF PowerOff, Unregister, InventoryCall, Outcome

\* A goroutine registers its VM under the name of its provision.
LEMMA GoroutineNames ==
  ASSUME TypeOK, OwnNames, NEW id \in VmIds, runProvision(id)
  PROVE  Registered(id)' => inventory'[id].name = prov[id].name
<1> USE DEF TypeOK
<1>1. ASSUME Registered(id)' => Registered(id) /\ inventory'[id].name = inventory[id].name
      PROVE  Registered(id)' => inventory'[id].name = prov[id].name
  BY <1>1 DEF OwnNames
<1>2. CASE UNCHANGED inventory
  BY <1>1, <1>2 DEF Registered
<1>3. CASE Inject(id)
  <2>1. /\ inventory'[id].state = inventory[id].state
        /\ inventory'[id].name = inventory[id].name
    BY <1>3, InjectEffect DEF Inject
  <2> QED
    BY <1>1, <2>1 DEF Registered
<1>4. CASE Start(id)
  <2>1. /\ inventory'[id].name = inventory[id].name
        /\ inventory'[id] # inventory[id] => Registered(id)
    BY <1>4, PowerOnEffect DEF Start
  <2> QED
    BY <1>1, <2>1 DEF Registered
<1>5. CASE RunClone(id)
  <2>1. ASSUME NEW ok, RegisterVM(id, prov[id].name, ok)
        PROVE  Registered(id)' => inventory'[id].name = prov[id].name
    <3>1. CASE inventory'[id] = inventory[id]
      BY <1>1, <3>1 DEF Registered
    <3>2. CASE inventory'[id] = [state |-> "off", name |-> prov[id].name, guest |-> None]
      BY <3>2
    <3> QED
      BY <2>1, <3>1, <3>2, RegisterEffect
  <2> QED
    BY <1>2, <1>5, <2>1, FolderCalms
       DEF RunClone, ResolveGold, CloneStep, CloneDone, CloneCall, esxiVars
<1>6. CASE CleanupPowerOff(id) \/ CleanupUnregister(id)
  BY <1>1, <1>6, StopKeepsNames DEF CleanupPowerOff, CleanupUnregister
<1>7. CASE CleanupDir(id)
  BY <1>2, <1>7, FolderCalms DEF CleanupDir
<1>8. CASE RunStages(id)
  BY <1>2, <1>3, <1>4, <1>8
     DEF RunStages, SetAllocating, SetCloning, SetInjecting, SetStarting, SetReady,
         SetStatus, AcquireIP, RecordIP, WaitReady, Launch, esxiVars
<1>9. CASE RunFailure(id)
  BY <1>2, <1>6, <1>7, <1>9
     DEF RunFailure, MarkFailed, SetStatus, ReleaseAfterClone, CleanupRelease,
         ReleaseIP, CleanupFind, CleanupCheckpoints, esxiVars
<1> QED
  BY <1>5, <1>8, <1>9 DEF runProvision

LEMMA OwnNamesInductive ==
  ASSUME TypeOK, NamesApart, OwnNames, FindsOwn, [Next]_vars,
         \A h \in Handlers : ReadsTrue(h)
  PROVE  OwnNames'
<1> USE DEF TypeOK
<1>1. ASSUME NEW id \in VmIds, NEW name, Provision(id, name)
      PROVE  OwnNames'
  <2>1. UNCHANGED inventory /\ ppc[id] = "none"
    BY <1>1 DEF Provision, esxiVars
  <2>2. /\ ppc'[id] = "pending" /\ vms'[id].name = name /\ prov'[id].name = name
        /\ \A i \in VmIds : i # id => /\ ppc'[i] = ppc[i] /\ prov'[i] = prov[i]
                                      /\ vms'[i] = vms[i]
    BY <1>1 DEF Provision, Put, GoTo, StoreTypeOK, ProvLocals
  <2> QED
    BY <2>1, <2>2 DEF OwnNames, Present, Registered
<1>2. ASSUME RecordsKept,
             \A i \in VmIds : /\ ppc[i] # "none" => ppc'[i] # "none"
                              /\ prov'[i].name = prov[i].name
                              /\ Registered(i)' => /\ ppc[i] # "none"
                                                   /\ inventory'[i].name = prov[i].name
      PROVE  OwnNames'
  BY <1>2 DEF OwnNames, RecordsKept
<1>3. (\A i \in VmIds : \A name : ~Provision(i, name)) => RecordsKept
  <2>1. CASE UNCHANGED vms
    BY <2>1 DEF RecordsKept, Present
  <2>2. ASSUME NEW i, NEW s \in Statuses, UpdateStatus(i, s)
        PROVE  RecordsKept
    BY <2>2 DEF UpdateStatus, RecordsKept, Present, StoreTypeOK, VmRecord
  <2>3. ASSUME NEW i, NEW a, SetIP(i, a)
        PROVE  RecordsKept
    BY <2>3 DEF SetIP, RecordsKept, Present, StoreTypeOK, VmRecord
  <2>4. ASSUME NEW i, RemoveRecord(i)
        PROVE  RecordsKept
    BY <2>4 DEF RemoveRecord, RecordsKept, Present, NoRecord, StoreTypeOK
  <2> QED
    BY <2>1, <2>2, <2>3, <2>4, RecordStep
<1>4. ASSUME NEW id \in VmIds, runProvision(id), RecordsKept
      PROVE  OwnNames'
  <2>1. /\ Apart(id) /\ prov'[id].name = prov[id].name
        /\ ppc[id] # "none" /\ ppc'[id] # "none"
    BY <1>4, GoroutineApart
  <2>2. Registered(id)' => inventory'[id].name = prov[id].name
    BY <1>4, GoroutineNames
  <2> QED
    BY <1>2, <1>4, <2>1, <2>2 DEF Apart, OwnNames, Registered
<1>5. ASSUME NEW h \in Handlers, Delete(h), RecordsKept
      PROVE  OwnNames'
  <2>1. UNCHANGED <<ppc, prov>>
    BY <1>5, HandlerApart
  <2>2. \A i \in VmIds : Registered(i)' => /\ Registered(i)
                                          /\ inventory'[i].name = inventory[i].name
    <3>1. CASE DeletePowerOff(h) \/ DeleteUnregister(h)
      BY <3>1, StopKeepsNames DEF DeletePowerOff, DeleteUnregister
    <3>2. CASE DeleteFiles(h)
      BY <3>2, FolderCalms DEF DeleteFiles, Registered
    <3>3. CASE UNCHANGED inventory
      BY <3>3 DEF Registered
    <3> QED
      BY <1>5, <3>1, <3>2, <3>3
         DEF Delete, DeleteMark, DeleteFind, DeleteRelease, DeleteCheckpoints,
             DeleteRecord, esxiVars
  <2> QED
    BY <1>2, <1>5, <2>1, <2>2 DEF OwnNames
<1>6. CASE UNCHANGED <<vms, inventory, ppc, prov>>
  BY <1>6 DEF OwnNames, Present, Registered
<1>7. CASE \E i \in VmIds : \E name : Provision(i, name)
  BY <1>1, <1>7
<1> QED
  BY <1>3, <1>4, <1>5, <1>6, <1>7 DEF Next, Daemon, vars, DeleteStart, storeVars, esxiVars

LEMMA GoroutineFinds ==
  ASSUME TypeOK, NamesApart, OwnNames, FindsOwn, NEW id \in VmIds, runProvision(id),
         ppc'[id] \in {"c_off", "c_unregister"}
  PROVE  prov'[id].vm = id
<1> USE DEF TypeOK
<1>1. ~RunStages(id)
  BY DEF RunStages, SetAllocating, SetCloning, SetInjecting, SetStarting, SetReady,
         SetStatus, AcquireIP, RecordIP, Inject, Start, WaitReady, Launch, GoTo
<1>2. ~RunClone(id)
  BY DEF RunClone, ResolveGold, CloneStep, CloneDone, GoTo, StepAfter, Steps
<1>3. CASE CleanupFind(id)
  <2>1. PICK m \in VmIds : FindVM(prov[id].name, m) /\ prov' = [prov EXCEPT ![id].vm = m]
    BY <1>3 DEF CleanupFind, GoTo
  <2>2. m = id
    BY <1>3, <2>1, NamedOwn DEF CleanupFind, FindVM
  <2> QED
    BY <2>1, <2>2 DEF ProvLocals
<1>4. CASE CleanupPowerOff(id)
  BY <1>4 DEF CleanupPowerOff, FindsOwn
<1>5. CleanupFind(id) \/ CleanupPowerOff(id)
  BY <1>1, <1>2
     DEF runProvision, RunFailure, MarkFailed, SetStatus, FailThen, ReleaseAfterClone,
         CleanupRelease, ReleaseIP, CleanupUnregister, CleanupDir, CleanupCheckpoints, GoTo
<1> QED
  BY <1>3, <1>4, <1>5

-----------------------------------------------------------------------------
(* ConsoleInv: step by step.                                               *)

\* What the page and its requests show was in the records at some time.
LEMMA ShownInductive ==
  ASSUME ConsoleTypeOK, NamesApart, FindsOwn, ShownInv, "store" \notin Faults,
         \A h \in Handlers : ReadsTrue(h), \A i \in VmIds : RecordsOwn(i),
         [ConsoleNext]_consoleVars
  PROVE  ShownInv'
<1>1. TypeOK /\ [Next]_vars
  BY ConsoleIsClient DEF ConsoleTypeOK
<1>2. \A i \in VmIds : ppc[i] \in AfterOutcome => ppc'[i] \in AfterOutcome
  BY <1>1, EndedFades DEF Fades
<1>3. \A rows : ShowsEnded(rows) =>
        \A i \in VmIds : rows[i].status \in {"ready", "failed"} => ppc'[i] \in AfterOutcome
  BY <1>2 DEF ShowsEnded
<1>4. ShowsEnded(vms)'
  <2>1. \A i \in VmIds : ppc[i] \notin AfterOutcome => Shows(i)
    BY <1>1, RecordsInductive DEF ShownInv
  <2> QED
    BY <1>2, <2>1 DEF ShowsEnded, Shows
<1>5. /\ \A p \in Polls : poll'[p].rows \in {poll[p].rows, vms, NoVms}
      /\ page'.rows \in {page.rows, NoVms} \cup {poll[p].rows : p \in Polls}
  <2>1. CASE UNCHANGED <<poll, page>>
    BY <2>1
  <2>2. ASSUME NEW q \in Polls, handleListVMs(q) \/ ReadUsed(q) \/ ReadFree(q)
        PROVE  /\ \A p \in Polls : poll'[p].rows \in {poll[p].rows, vms}
               /\ UNCHANGED page
    <3>1. CASE handleListVMs(q)
      BY <3>1 DEF handleListVMs, ConsoleTypeOK
    <3>2. CASE ReadUsed(q)
      BY <3>2 DEF ReadUsed, ConsoleTypeOK
    <3>3. CASE ReadFree(q)
      BY <3>3 DEF ReadFree, ConsoleTypeOK
    <3> QED
      BY <2>2, <3>1, <3>2, <3>3
  <2>3. ASSUME NEW q \in Polls, Show(q)
        PROVE  /\ \A p \in Polls : poll'[p].rows \in {poll[p].rows, NoVms}
               /\ page'.rows \in {page.rows, poll[q].rows}
    BY <2>3 DEF Show, RenderRows, NoPoll, ConsoleTypeOK
  <2>4. ASSUME NEW q \in Polls, Fail(q)
        PROVE  /\ \A p \in Polls : poll'[p].rows \in {poll[p].rows, NoVms}
               /\ page'.rows \in {page.rows, NoVms}
    BY <2>4 DEF Fail, NoPoll, ConsoleTypeOK
  <2> QED
    BY <2>1, <2>2, <2>3, <2>4
       DEF ConsoleNext, consoleVars, Submit, doDelete, RefreshList, RefreshPool
<1>6. ShowsEnded(NoVms) /\ ShowsEnded(vms) /\ ShowsEnded(page.rows)
      /\ \A p \in Polls : ShowsEnded(poll[p].rows)
  BY DEF ShownInv, ShowsEnded, NoVms, NoRecord
<1>7. \A i \in VmIds, p \in Polls :
        poll'[p].rows[i].status \in {"ready", "failed"} => ppc'[i] \in AfterOutcome
  BY <1>3, <1>5, <1>6
<1>8. \A i \in VmIds : page'.rows[i].status \in {"ready", "failed"} => ppc'[i] \in AfterOutcome
  BY <1>3, <1>5, <1>6
<1> QED
  BY <1>4, <1>7, <1>8 DEF ShownInv, ShowsEnded

LEMMA FindsInductive ==
  ASSUME Truthful, ConsoleTypeOK, NamesApart, OwnNames, FindsOwn, HandlersInv, [Next]_vars,
         \A i \in VmIds : RecordsOwn(i)
  PROVE  FindsOwn'
<1>1. TypeOK
  BY DEF ConsoleTypeOK
<1>2. CASE UNCHANGED <<ppc, prov, dpc, del>>
  BY <1>2 DEF FindsOwn
<1>3. ASSUME NEW id \in VmIds, runProvision(id)
      PROVE  FindsOwn'
  <2>1. Apart(id) /\ UNCHANGED <<dpc, del>>
    BY <1>1, <1>3, GoroutineApart
  <2>2. ppc'[id] \in {"c_off", "c_unregister"} => prov'[id].vm = id
    BY <1>1, <1>3, GoroutineFinds
  <2> QED
    BY <2>1, <2>2 DEF FindsOwn, Apart
<1>4. ASSUME NEW h \in Handlers, Delete(h)
      PROVE  FindsOwn'
  <2>1. /\ UNCHANGED <<ppc, prov>>
        /\ \A g \in Handlers : g # h => dpc'[g] = dpc[g] /\ del'[g] = del[g]
    BY <1>1, <1>4, HandlerApart DEF HandlersInv
  <2>2. dpc'[h] \in {"off", "unregister"} => del'[h].vm = del'[h].id
    BY <1>1, <1>4, HandlerStep DEF HandlersInv
  <2> QED
    BY <2>1, <2>2 DEF FindsOwn
<1>5. ASSUME NEW id \in VmIds, NEW name, Provision(id, name)
      PROVE  FindsOwn'
  <2>1. Apart(id) /\ ppc'[id] = "pending" /\ UNCHANGED <<dpc, del>>
    BY <1>1, <1>5, ProvisionApart DEF Provision, GoTo, TypeOK
  <2> QED
    BY <2>1 DEF FindsOwn, Apart
<1>6. ASSUME NEW h \in Handlers, NEW id \in VmIds, DeleteStart(h, id)
      PROVE  FindsOwn'
  <2>1. /\ UNCHANGED <<ppc, prov>> /\ dpc'[h] = "mark"
        /\ \A g \in Handlers : g # h => dpc'[g] = dpc[g] /\ del'[g] = del[g]
    BY <1>1, <1>6 DEF DeleteStart, DelGoTo, TypeOK
  <2> QED
    BY <2>1 DEF FindsOwn
<1> QED
  BY <1>2, <1>3, <1>4, <1>5, <1>6 DEF Next, Daemon, vars

LEMMA HandlersInductive ==
  ASSUME Truthful, ConsoleInv, [ConsoleNext]_consoleVars
  PROVE  HandlersInv'
<1>1. TypeOK /\ [Next]_vars /\ \A h \in Handlers : ReadsTrue(h) /\ GoneSoFar(h)
  BY ConsoleIsClient DEF ConsoleInv, ConsoleTypeOK, HandlersInv
<1>2. \A i \in VmIds : ppc[i] \in AfterOutcome => Fades(i)
  BY <1>1, EndedFades DEF ConsoleInv
<1>3. ASSUME NEW g \in Handlers, dpc'[g] = dpc[g], del'[g] = del[g]
      PROVE  ReadsTrue(g)' /\ GoneSoFar(g)'
  <2>1. dpc[g] # "idle" => Fades(del[g].id)
    BY <1>1, <1>2 DEF ReadsTrue
  <2> QED
    BY <1>1, <1>3, <2>1, OthersKeepHandler
<1>4. CASE UNCHANGED <<dpc, del>>
  BY <1>3, <1>4 DEF HandlersInv
<1>5. ASSUME NEW h \in Handlers, Delete(h)
      PROVE  HandlersInv'
  <2>1. ReadsTrue(h)' /\ GoneSoFar(h)'
    BY <1>1, <1>5, HandlerStep DEF ConsoleInv
  <2>2. \A g \in Handlers : g # h => dpc'[g] = dpc[g] /\ del'[g] = del[g]
    BY <1>1, <1>5, HandlerApart DEF ConsoleInv
  <2> QED
    BY <1>3, <2>1, <2>2 DEF HandlersInv
<1>6. ASSUME NEW h \in Handlers, NEW id \in VmIds, doDelete(h, id)
      PROVE  HandlersInv'
  <2>1. /\ UNCHANGED <<ppc, prov>> /\ dpc'[h] = "mark" /\ Present(id)
        /\ del'[h].id = id /\ del'[h].name = vms[id].name /\ del'[h].ip = vms[id].ip
        /\ \A g \in Handlers : g # h => dpc'[g] = dpc[g] /\ del'[g] = del[g]
    BY <1>1, <1>6 DEF doDelete, DeleteStart, DelGoTo, TypeOK
  <2>2. ppc[id] \in AfterOutcome
    BY <1>6 DEF doDelete, ShownSettled, ConsoleInv, ShownInv, ShowsEnded
  <2>3. vms[id].name = prov[id].name /\ vms[id].ip = prov[id].ip
    BY <2>1, <2>2 DEF ConsoleInv, OwnNames, RecordsOwn, AfterOutcome, CleanupPCs,
                      BeforeSetIP
  <2>4. ReadsTrue(h)' /\ GoneSoFar(h)'
    BY <2>1, <2>2, <2>3 DEF ReadsTrue, GoneSoFar, Removes
  <2> QED
    BY <1>3, <2>1, <2>4 DEF HandlersInv
<1>7. ASSUME NEW id \in VmIds, runProvision(id)
      PROVE  UNCHANGED <<dpc, del>>
  BY <1>1, <1>7, GoroutineApart DEF ConsoleInv
<1> QED
  BY <1>4, <1>5, <1>6, <1>7
     DEF ConsoleNext, consoleVars, vars, Submit, Provision, Daemon, RefreshList,
         RefreshPool, handleListVMs, ReadUsed, ReadFree, Show, Fail

\* A record goes when its DELETE has come to the end, and what is gone by then
\* does not come back.
LEMMA GoneStays ==
  ASSUME Truthful, ConsoleInv, [ConsoleNext]_consoleVars
  PROVE  DeletedIsGone'
<1>1. TypeOK /\ [Next]_vars /\ \A h \in Handlers : ReadsTrue(h) /\ GoneSoFar(h)
  BY ConsoleIsClient DEF ConsoleInv, ConsoleTypeOK, HandlersInv
<1> SUFFICES ASSUME NEW i \in VmIds, ppc'[i] # "none", ~Present(i)'
             PROVE  /\ ~Registered(i)'
                    /\ datastore'[prov'[i].name] = {}
                    /\ \A a \in Pool : ~Holds(i, a)'
  BY DEF DeletedIsGone
<1>2. ppc[i] \in AfterOutcome
  BY <1>1, RecordsInductive DEF ConsoleInv, ShownInv, Truthful
<1>3. Fades(i)
  BY <1>1, <1>2, EndedFades DEF ConsoleInv
<1>4. /\ ~Registered(i)
      /\ datastore[prov[i].name] = {}
      /\ \A a \in Pool : ~Holds(i, a)
  <2>1. CASE ~Present(i)
    BY <1>2, <2>1 DEF ConsoleInv, DeletedIsGone, LostUnrecorded, AfterOutcome, CleanupPCs
  <2>2. CASE Present(i)
    <3>1. PICK h \in Handlers : Delete(h) /\ del[h].id = i /\ dpc[h] = "remove"
      <4>1. ASSUME NEW m \in VmIds, Apart(m)
            PROVE  i = m
        BY <2>2, <4>1 DEF Apart, Present
      <4>2. ASSUME NEW id \in VmIds, NEW name, Provision(id, name)
            PROVE  FALSE
        BY <1>1, <1>2, <4>1, <4>2, ProvisionApart DEF AfterOutcome, CleanupPCs
      <4>3. ASSUME NEW id \in VmIds, runProvision(id)
            PROVE  FALSE
        <5>1. i = id
          BY <1>1, <4>1, <4>3, GoroutineApart DEF ConsoleInv
        <5>2. UNCHANGED vms
          BY <1>2, <4>3, <5>1
             DEF runProvision, RunStages, SetAllocating, SetCloning, SetInjecting,
                 SetStarting, SetReady, SetStatus, AcquireIP, RecordIP, Inject, Start,
                 WaitReady, Launch, RunClone, ResolveGold, CloneStep, CloneDone, RunFailure,
                 MarkFailed, FailThen, ReleaseAfterClone, CleanupRelease, ReleaseIP,
                 CleanupFind, CleanupPowerOff, CleanupUnregister, CleanupDir,
                 CleanupCheckpoints, storeVars, AfterOutcome, CleanupPCs, Steps
        <5> QED
          BY <2>2, <5>2 DEF Present
      <4>4. ASSUME NEW h \in Handlers, Delete(h)
            PROVE  del[h].id = i /\ dpc[h] = "remove"
        <5>1. del[h].id = i
          BY <1>1, <4>1, <4>4, HandlerApart DEF ConsoleInv, ReadsTrue
        <5>2. ~DeleteMark(h)
          BY <1>1, <2>2, <5>1
             DEF DeleteMark, UpdateStatus, Present, TypeOK, StoreTypeOK, VmRecord
        <5>3. ~UNCHANGED vms
          BY <2>2 DEF Present
        <5> QED
          BY <4>4, <5>1, <5>2, <5>3
             DEF Delete, DeleteFind, DeletePowerOff, DeleteUnregister, DeleteFiles,
                 DeleteRelease, DeleteCheckpoints, DeleteRecord, storeVars
      <4>5. ~UNCHANGED vms
        BY <2>2 DEF Present
      <4> QED
        BY <1>1, <4>2, <4>3, <4>4, <4>5 DEF Next, Daemon, DeleteStart, vars, storeVars
    <3>2. GoneSoFar(h) /\ ReadsTrue(h)
      BY <1>1
    <3> QED
      BY <3>1, <3>2 DEF GoneSoFar, Removes, ReadsTrue
  <2> QED
    BY <2>1, <2>2
<1> QED
  BY <1>3, <1>4 DEF Fades

LEMMA ConsoleInitInv == ConsoleInit => ConsoleInv
<1> SUFFICES ASSUME ConsoleInit
             PROVE  ConsoleInv
  OBVIOUS
<1>1. Init /\ ConsoleTypeOK
  BY ConsoleInitType DEF ConsoleInit
<1>2. NamesApart /\ OwnNames /\ FindsOwn
  BY <1>1, InitInv DEF AddressInv
<1>3. \A rows : rows = NoVms => ShowsEnded(rows)
  BY DEF ShowsEnded, NoVms, NoRecord
<1>4. ShownInv
  BY <1>3 DEF ConsoleInit, Init, StoreInit, NoVms, NoPoll, NoPage, ShownInv
<1>5. \A i \in VmIds : RecordsOwn(i)
  BY <1>1, DataAssumption
     DEF Init, StoreInit, IPAllocInit, NoRecord, NoProvision, RecordsOwn, Present, Holds
<1>6. HandlersInv
  BY <1>1 DEF Init, HandlersInv, ReadsTrue, GoneSoFar, Removes
<1>7. DeletedIsGone
  BY <1>1 DEF Init, DeletedIsGone
<1> QED
  BY <1>1, <1>2, <1>4, <1>5, <1>6, <1>7 DEF ConsoleInv

\* Rows show an outcome only of what has come to one, handlers work on what is
\* still so, and what one of them has removed stays removed for the others.
THEOREM ConsoleInvHolds ==
  ASSUME Truthful
  PROVE  ConsoleSpec => []ConsoleInv
<1>1. ConsoleInv /\ [ConsoleNext]_consoleVars => ConsoleInv'
  <2> SUFFICES ASSUME ConsoleInv, [ConsoleNext]_consoleVars
               PROVE  ConsoleInv'
    OBVIOUS
  <2>1. /\ TypeOK /\ [Next]_vars /\ "store" \notin Faults
        /\ \A h \in Handlers : ReadsTrue(h)
    BY ConsoleIsClient DEF ConsoleInv, ConsoleTypeOK, HandlersInv, Truthful
  <2>2. ConsoleTypeOK'
    BY ConsoleTypeInductive DEF ConsoleInv
  <2>3. NamesApart' /\ OwnNames'
    BY <2>1, NamesInductive, OwnNamesInductive DEF ConsoleInv
  <2>4. FindsOwn'
    BY <2>1, FindsInductive DEF ConsoleInv
  <2>5. ShownInv'
    BY <2>1, ShownInductive DEF ConsoleInv
  <2>6. \A i \in VmIds : RecordsOwn(i)'
    BY <2>1, RecordsInductive DEF ConsoleInv, ShownInv
  <2>7. HandlersInv' /\ DeletedIsGone'
    BY HandlersInductive, GoneStays
  <2> QED
    BY <2>2, <2>3, <2>4, <2>5, <2>6, <2>7 DEF ConsoleInv
<1> QED
  BY <1>1, ConsoleInitInv, PTL DEF ConsoleSpec

\* README.md:22, "Clean teardown", for those who delete by the row they see:
\* without any of the cautions about a DELETE, with an answer however old, and
\* with any number of DELETEs and a cleanup at work on one VM, a record that is
\* gone has left no VM, no file and no address behind.
THEOREM ConsoleTeardown ==
  ASSUME Truthful
  PROVE  ConsoleSpec => []DeletedIsGone
  BY ConsoleInvHolds, PTL DEF ConsoleInv
=============================================================================
