# vmaas-zerotouch in TLA+

`vmaasd` gives out virtual machines on one ESXi host: `POST /v1/vms` clones a
gold image file by file, injects a static address through guestinfo, powers the
VM on and waits until the guest reports that address; `DELETE /v1/vms/{id}`
takes it down again. This directory models the daemon, model-checks it with TLC
on small instances, and proves the properties that matter most with TLAPS for
every instance. Line numbers refer to the files under `src/`.

## 1. The system

### Components, their state and their operations

| Part (source) | State | Operations |
| --- | --- | --- |
| `lifecycle` (`orchestrator.go`, `guest.go`) | a WaitGroup and one goroutine per provision | `Provision`, `runProvision`, `waitReady`, `fail`, `bestEffortCleanup`, `Delete`, `Wait` |
| `clone` (`clone.go`, `vmx.go`) | none; checkpoints live in the store | `Clone`: five steps through `once`; `Patch` of the .vmx text |
| `ipalloc` (`alloc.go`) | bucket address -> VM id | `Acquire`, `Release`, `Used`, `Free` |
| `store` (`store.go`) | buckets `vms` and `clones` | `Put`, `Get`, `Delete`, `List`, `UpdateStatus`, `SetIP`, `CheckpointSet/Has/Clear` |
| `esxi` (`client.go`, `datastore.go`, `vm.go`) | a session; the host's folders and inventory behind it | one helper per call of the host |
| `api` (`handlers.go`, `server.go`, middleware) | none | the requests; a 60 s timeout around each |
| `cmd/vmaasd/main.go`, `docker-compose.yml` | the process | start, graceful shutdown, restart by docker |
| `cloudinit`, `config` | none | rendering; loading and validating the file |
| web UI (`app.js`) | what the page shows; the requests in flight | poll list, pool and health every 2 s; create and delete |
| scripts, compose files | outside | shell around the daemon; docker's restart policy |

### How they interact

A POST writes a record and starts a goroutine; a DELETE runs in its HTTP
handler. The goroutines and the handlers share the store, the pool and the host,
and nothing synchronises them but bbolt: each store or pool operation is one
transaction, and between two of them, or between two calls of the host, any
other process may run. The orchestrator has no lock per VM, no cancellation of a
provision, and no look at the store when the daemon starts.

### What is hard

* *Interleaving.* A DELETE may meet the goroutine of the VM it deletes at every
  call; two DELETEs may meet; two VMs may share a name, and with it a folder and
  what `FindVM` finds.
* *Stale reads.* `Delete` works to its end with the record it read at its start;
  `Release` takes an address and does not ask who holds it.
* *Partial failure.* Every call of the host may fail, before or after its
  effect; most errors of cleanup and `Delete` are logged and passed over.
* *Crash and restart.* The store and the host outlive the process, goroutines
  and handlers do not; the session at the host outlives a process that is
  killed, and docker starts the next one.
* *Stale reads of clients.* The page shows answers that may be late, out of
  order or composed of two transactions, and its buttons act on them.
* *Edges of data.* The walk over addresses at the end of an address family, a
  pool that was edited between two runs, the multi-line patterns of vmx.go, a
  second parse that drops its errors.
* *A stop.* The signal stops the listener, not the requests it has accepted; one
  of them may reach the orchestrator when `Shutdown` has given up on it, while
  `orch.Wait()` counts the goroutines.
* *Liveness.* A provision has to end with an outcome, a DELETE with an answer, a
  shutdown with an exit.

`PROJECT.json` lists each of these as a hazard at the line where it bites, with
the properties that would catch it.

### What makes each part correct

* Pool: an address has one holder; it passes to the next only through the pool;
  a running VM holds its address; what is held can be released again.
* Store: a removed record stays removed; statuses follow the state diagram.
* Clone: a VM boots from its own disk, and from a .vmx that was patched.
* Lifecycle: injection before power-on, with the VM's own address; "ready"
  means running; every provision ends, with a recorded outcome; DELETE leaves
  nothing behind.
* Process: a stop waits for every provision that was started, and comes to its
  end; a restart finds a store that is still true of the host; a wrong setting
  ends the start; no session is lost without a reason; a restart comes to serve.
* Console: however answers are delayed, the page comes to show the truth, and a
  delete started from a stale row is a complete one.
* Pure functions: the walk takes the least free address of the pool; the patched
  .vmx is about the clone; a name is a safe folder; an accepted configuration
  renders completely.

## 2. The modules

| Module | Models | Extends |
| --- | --- | --- |
| `VmaasData` | the constants, statuses, records and clone steps | |
| `IPAlloc` | the pool (`alloc.go`) | `VmaasData` |
| `Store` | records and checkpoints (`store.go`) | `VmaasData` |
| `ESXi` | the host as the daemon sees it (external) | `VmaasData` |
| `Lifecycle` | orchestrator and clone, with POST and DELETE as requests | the three above |
| `LifecycleProperties` | what holds under any clients | `Lifecycle` |
| `CautiousUse` | clients that take cautions, and what holds under them | `LifecycleProperties` |
| `Vmaasd` | the process: shutdown, crash, restart | `CautiousUse` |
| `Lease` | abstract: what is promised about addresses | |
| `AddressLease` | the daemon as an implementation of `Lease` | `Vmaasd` |
| `Console` | the web console, and the handlers it polls | `CautiousUse` |
| `Startup` | `run()` from `config.Load` to its return; the session; docker | |
| `AddressWalk`, `VmxPatch`, `Names`, `Settings` | pure functions: `alloc.go`, `vmx.go`, `sanitizeName`, `config.go` with `render.go` | `Selection` |
| `Selection` | the loops that keep some elements of a list, as a recursive function that can be proved about | |
| `RunInvariant` | the inductive invariant of what holds under any clients | `LifecycleProperties` |
| `CautiousInvariant`, `PromiseInvariant` | the inductive invariants under all cautions | `CautiousUse` |
| `ConsoleInvariant` | the inductive invariant for the users of the page | `Console`, `RunInvariant`, `PromiseInvariant` |
| `LifecycleProofs`, `RunProofs`, `CautiousProofs`, `PromiseProofs`, `LeaseProofs`, `ConsoleProofs`, `StartupProofs`, `FunctionProofs` | theorems and proofs | |
| `MCLifecycle`, `MCCautious`, `MCVmaasd`, `MCFunctions` | for TLC: symmetry, inputs | |

### State and code

* `ipalloc[a]`: the id in the bucket under address `a`, or `None`. Addresses are
  the numbers `PoolStart .. PoolEnd`. `Acquire` takes the least free one, as the
  walk in the code does.
* `vms[id]`: the record (name, status, address); the status "absent" is a
  missing key. `clones[id]`: the steps with a checkpoint.
* `datastore[n]`: what the folder `n` holds, of "dir", "disk", "vmx" and
  "patched". `inventory[m]`: the VM object: its power state, its name and the
  address in its guestinfo metadata. A VM object is referred to by the id of the
  provision that registered it.
* `ppc[id]`, `prov[id]`: where the goroutine of `id` is and its locals;
  `dpc[h]`, `del[h]`: the same for the DELETE handler `h`. A program counter is
  the name of the call that comes next. `ppc[id]` is "pending" between the `Put`
  of the record and the `wg.Add` (`Provision`, `Launch`): `orch.Wait()` does not
  count such a POST yet.
* `phase` (`Vmaasd`): where `run()` of `main.go` is once it serves: "draining" in
  `Shutdown`, "waiting" in `orch.Wait()`, "closing" behind it, "down" when the
  process is gone. Requests arrive in every phase but the last (`Serve`): a
  handler of a request that was accepted before the signal may start late, since
  the server has no `ReadTimeout` and the error of `Shutdown` is dropped.
* `poll`, `page`, `errors` (`Console`): the requests of the page with what their
  handlers have read so far; what the page shows; how many requests failed.
* `Startup` has a state of its own: the settings that are wrong, where `run()`
  is, and the host's table of sessions. Requests of clients do not occur in it.
  `run()` returns through `Close`, which drops the error of `Logout`: the session
  is gone, or "stranded".
* The pure functions have no state. `MCFunctions` makes a behaviour of each
  call: an input, then its result.

Each action is one bbolt transaction or one call of the host with the decision
the code takes on its reply. `SetStatus` is an UpdateStatus transaction whose
error is dropped, as in `setStatus`. `CloneStep` is `once`: look at the
checkpoint, make the call, set the checkpoint; the transaction of the checkpoint
is taken together with the call (section 6). Every error path first writes the
status "failed" (`MarkFailed`) and then goes where `FailThen` says: an exhausted
pool and a timeout return; a failed clone releases the address and returns; a
failed injection or power-on runs `bestEffortCleanup`.

`Outcome` in `ESXi` says what a call may answer: success with the effect; an
error when the host cannot carry it out; and, for the calls in `Faults`, an error
although it could, with or without the effect. `store` in `Faults` stands for a
transaction that cannot be written.

### Three kinds of clients

`Spec` of `Lifecycle` puts no condition on the clients: any DELETE at any
moment, names asked for twice. `LifecycleProperties` holds there. The promises
of the README and of the docs hold only for clients that take four cautions,
which the code does not enforce and `CautiousUse` names: no name twice
("names"); DELETE only after the provision ended ("settled"); no two DELETEs of
one VM in flight ("alone"); and DELETE only when the pool shows the address of
the record as used by that VM ("pool"). `Cautions` says which are taken; the
runs `without_pool`, `without_settled` and `same_name` leave some out. The users
of `Console` are a third kind: they ask for a name once, and delete the rows their
page shows as ready or failed, however old the page is.

## 3. The runs

| Run | Specification | Instance | Shows |
| --- | --- | --- | --- |
| `races` | `Spec` | 2 VMs, 1 DELETE, 1 shared name, 1 address, failing injection, any clients | `TypeOK`, `BootsWithOwnAddress`, `OutcomeRecorded`, `HolderStable`, and the invariant `RunInv` of their proofs |
| `shutdown` | `VmaasdFairSpec` | 1 VM, 2 DELETEs, 1 address, failing injection and wait, no cautions | `NoResurrection`, `ProvisionEnds`, `DeleteAnswered`, `WaitCoversStarted`, `ShutdownCompletes` |
| `promises` | `VmaasdSpec` | 2 VMs, 2 DELETEs, 2 addresses, every host fault of a provision, all cautions | `ReadyIsLive`, `RunningHoldsAddress`, `HolderHasRecord`, `DeletedIsGone`, `StatusFollowsDiagram`, `BootsPatched`, the refinement `LeaseSpec`, `VmaasdTypeOK`, and the invariants `AddressInv` and `PromiseInv` of the proofs |
| `console` | `ConsoleFairSpec` | 1 VM, 1 DELETE, 2 requests of the page, 1 lost answer, failing mkdir | `ConsoleConverges`, `DeletedIsGone`, `DeleteFrees`, and the invariant `ConsoleInv` of its proof, `ConsoleTypeOK` included |
| `startup` | `StartupFairSpec` | any one setting wrong, 2 sessions, 3 names of processes, 3 troubles | `SessionsAccounted`, `FailsFast`, `ServesInTheEnd`, `StartupTypeOK` |
| `functions` | `FunctionsSpec` | every small input, see below | `WalkTakesLeastFree`, `PoolAddsUp`, `VmxPointsAtClone`, `VmxIdentityIsFresh`, `NamesAreSafe`, `LoadedRendersComplete` |

The other six runs show where the code departs from what its docs or comments
say. Each has one property and a counterexample:

| Run | Condition | Counterexample |
| --- | --- | --- |
| `without_pool` | all cautions but "pool" | A clone fails; its address is released (orchestrator.go:114) but stays in the record. The next VM gets it and runs. The DELETE of the failed record frees it under that VM. alloc.go:7-8 says "never double-allocates". |
| `without_settled` | all but "settled" | A DELETE during the clone is answered; the goroutine goes on and leaves a folder, a VM or an address that no record names. README.md:22 says what a delete removes. |
| `same_name` | "settled" and "alone" only | The clone of the second VM of a name fails on the first one's files; its DELETE takes the first one down. README.md:49-50 says the trash icon removes "it". |
| `pool_edge` | a pool that ends with its family, used up | `Acquire` records and returns the zero `Addr`, "invalid IP", where it should return `ErrPoolExhausted`: `Next()` of the last address compares below every end (alloc.go:59). The `Acquire` after that does not return, inside the only write transaction. alloc.go:7-8 says "never returns an address outside the range". |
| `late_post` | all cautions, a stop by signal, no fault | `Shutdown` gives up after 30 s on a POST whose body is still being read; its handler writes the record (orchestrator.go:84) when `orch.Wait()` is about to return, and the process exits before the goroutine starts. The record keeps its stage. main.go:6-7 says the daemon "stops accepting new requests, waits for in-flight provisions to finish". |
| `health` | the session expires | `/healthz` answers 200 from what it cached at login, while no request reaches the host. server.go:11 says "ESXi reachability". |

Four departures have no run. Two DELETEs of one VM in flight together repeat the
release of an address, as in `without_pool`: it is the same line that does not
ask who holds it. When `PowerOff` fails, or the 60 s timeout of the router
(server.go:55) cancels the context of a DELETE before it, `Delete` logs the error
(orchestrator.go:206), frees the address of a VM that runs on (217) and removes
its record; the theorems exclude it by `Reliable`. A provision that the end of
the process interrupts is not resumed, where ARCHITECTURE.md:100-102 says that a
restart re-enters `runProvision`: `Restart` leaves it lost, and `late_post` ends
so. The crash between `Acquire` and `SetIP`, which leaves an
address that no record names, is documented (docs/TROUBLESHOOTING.md:118-130);
`HolderHasRecord` and `DeletedIsGone` name it as their one exception.

### Bounds, and why they are enough

* Two VMs and one address (`races`) are the least with which an address can
  change hands, and with it be released by the wrong process; a pool of one is
  exhausted by the first VM. `promises` has two addresses, so that two VMs run at
  once. One shared name is enough for two VMs to collide (`races`); where the
  clients ask for no name twice (`promises`), a VM may as well go by its id. The
  theorems of section 4 take over for every other instance.
* Two handlers are enough for two DELETEs to race; a VM has one goroutine.
* An id is drawn once and a provision has no loop, so no counter needs a bound
  and the state space is finite without a constraint.
* `Faults` differs between runs. All host faults of a provision are in
  `promises`; `races` and `shutdown` keep those whose error paths matter for the
  run (the cleanup after a failed injection; the VM that is left running after a
  timeout), since faults multiply the states of every interleaving.
* `console`: with two requests a late answer can overtake a newer one and the two
  transactions of `handlePool` can meet any step; `MaxErrors` = 1 lets one answer
  be lost at any point. One VM suffices, since a row does not depend on another.
  Lost answers are bounded because `ConsoleConverges` is about what follows them.
* `startup`: `SessionCap` = 2 stands for the host's 30 or so, so that leaked
  sessions do fill the table; three names, so that a new process has one that no
  session goes by; three `MaxTroubles` are enough to kill a process, break a
  setting and lose a reply in one behaviour. `health` needs one.
* `functions`: two address families of four addresses each, so that a pool may
  begin and end at an edge, cross from one to the other or lie within, with every
  bucket, keys outside the pool included; .vmx texts of four lines with blank
  lines between and any end; names of a prefix of `NameLimit`-1 characters or
  none and four more of every class; files with one field wrong in each way, any
  two name servers and prefixes at and across their limits. `NameLimit` = 8
  stands for the 63 characters of `sanitizeName`.
* VM ids and handlers are interchangeable, so the safety runs over several of
  them use symmetry; the runs with liveness properties do not.
* `late_post` needs one VM, and `pool_edge` families of three addresses.
* Deadlock is not looked for where the system comes to rest: when every id was
  drawn and every record deleted (`Spec`, `CautiousSpec`), when a daemon serves
  and nothing happens any more (`startup`), when a function has returned.

### Fairness

`Fairness` is weak fairness of each goroutine and of each handler: the Go
scheduler runs them, every call of the host returns (it carries a context or
fails with the connection), and the polling of `waitReady` has a deadline.
Nothing is assumed of requests. For the process, `Shutdown` of the HTTP server
returns by its 30 s timeout, `orch.Wait()` returns when it can (the ids are
finitely many, so late requests do not hold it up for ever), `run()` then ends,
and docker restarts the container (`restart: unless-stopped`). Crashes and signals
are never forced and never excluded.

In `Console`, `refreshAll` is called every two seconds for as long as the page is
open and asks for the list and the pool each time, so each of the two is strongly
fair: slots come free again and again, and neither request starves the other.
That an answer arrives is weak fairness of the slot; in which order is open.

In `Startup`, `run()` goes on from call to call, docker restarts it, the host
drops the sessions of dead processes in time, and the operator puts a wrong
setting right (the error message names it). What disturbs the daemon (`Trouble`)
is neither fair nor unbounded: `ServesInTheEnd` is about what follows it.

## 4. What is proved

tlapm checks every proof to its last leaf, for every value of the constants;
the only assumptions on them are `PoolAssumption` (the pool is a non-empty range,
which `ipalloc.New` checks), `DataAssumption` (ids, names and `None` are
distinct, faults are calls), `CautionsAssumption`, and for the pure functions
`WalkAssumption`, `NameAssumption` and `BoundsAssumption` (sizes are natural
numbers, and a name has room for a character). Four more are hypotheses of the
theorems that need them: `Careful`, the clients take all four cautions;
`Reliable`, writes to the store succeed and `FindVM` and `PowerOff` answer truly;
`TearsDownTruly`, so do `Unregister` and `DeleteDir`; `Truthful`, writes to the
store succeed and `PowerOff`, `Unregister` and `DeleteDir` answer truly. The runs
`without_pool`, `without_settled` and `same_name` show that what they leave out is
needed; why `PowerOff` must answer truly is said in section 3. Whatever is not
named may fail in every way.

| Theorem | Hypotheses | Statement |
| --- | --- | --- |
| `LifecycleProofs!TypeCorrect` | | `Spec => []TypeOK` |
| `LifecycleProofs!HolderIsStable` | | `Spec => HolderStable` |
| `LifecycleProofs!RemovedStaysRemoved` | | `Spec => NoResurrection` |
| `RunProofs!BootsWithItsOwn` | | `Spec => []BootsWithOwnAddress` |
| `RunProofs!RunInvHolds` | the store takes every write | `Spec => []RunInv` |
| `RunProofs!OutcomesAreRecorded` | the store takes every write | `Spec => []OutcomeRecorded` |
| `RunProofs!WaitCoversProvisions` | the store takes every write | `VmaasdSpec => WaitCoversStarted` |
| `RunProofs!PoolAndStoreOutliveTheDaemon` | | `VmaasdSpec` gives `HolderStable` and `NoResurrection` |
| `CautiousProofs!VmaasdTypeCorrect` | | `VmaasdSpec => []VmaasdTypeOK` |
| `RunProofs!RunsSurviveTheDaemon` | the store, for the second | `VmaasdSpec` gives `[]BootsWithOwnAddress` and `[]OutcomeRecorded` |
| `CautiousProofs!AddressesAreExclusive` | `Careful`, `Reliable` | `CautiousSpec => []RunningHoldsAddress` |
| `CautiousProofs!AddressInvHolds` | `Careful`, `Reliable` | `VmaasdSpec => []AddressInv` |
| `CautiousProofs!AddressesOutliveTheDaemon` | `Careful`, `Reliable` | `VmaasdSpec => []RunningHoldsAddress` |
| `LeaseProofs!DaemonImplementsLease` | `Careful`, `Reliable` | `VmaasdSpec => LeaseSpec` |
| `LeaseProofs!LeasesAreExclusive` | | `LeaseSpec => []Leases!Exclusive` |
| `PromiseProofs!ReadyMeansLive` | `Careful`, `Reliable` | `VmaasdSpec => []ReadyIsLive` |
| `PromiseProofs!NoAddressLeaks` | `Careful`, `Reliable` | `VmaasdSpec => []HolderHasRecord` |
| `PromiseProofs!CleanTeardown` | and `TearsDownTruly` | `VmaasdSpec => []DeletedIsGone` |
| `PromiseProofs!PromiseInvHolds` | and `TearsDownTruly` | `VmaasdSpec => []PromiseInv` |
| `PromiseProofs!FollowsDiagram` | `Careful`, `Reliable` | `VmaasdSpec => StatusFollowsDiagram` |
| `PromiseProofs!BootsFromItsOwn` | `Careful`, `Reliable` | `VmaasdSpec => BootsPatched` |
| `ConsoleProofs!ConsoleServes` | | `ConsoleSpec` gives `Spec`, and with it what holds under any clients |
| `ConsoleProofs!ConsoleTypeCorrect` | | `ConsoleSpec => []ConsoleTypeOK` |
| `ConsoleProofs!ConsoleInvHolds` | `Truthful` | `ConsoleSpec => []ConsoleInv` |
| `ConsoleProofs!ConsoleTeardown` | `Truthful` | `ConsoleSpec => []DeletedIsGone` |
| `StartupProofs!StartupTypeCorrect` | `StartupAssumption` | `StartupSpec => []StartupTypeOK` |
| `StartupProofs!SessionsHaveAReason` | `StartupAssumption` | `StartupSpec => []SessionsAccounted` |
| `StartupProofs!StartsFailFast` | `StartupAssumption` | `StartupSpec => []FailsFast` |
| `FunctionProofs!LeastFreeIsTaken` | | `FunctionsSpec => []WalkTakesLeastFree` |
| `FunctionProofs!PoolsAddUp` | | `FunctionsSpec => []PoolAddsUp` |
| `FunctionProofs!VmxIsOfTheClone` | | `FunctionsSpec => []VmxPointsAtClone` |
| `FunctionProofs!IdentityIsStripped` | | `FunctionsSpec => []VmxIdentityIsFresh` |
| `FunctionProofs!SafeNames` | | `FunctionsSpec => []NamesAreSafe` |
| `FunctionProofs!LoadedIsComplete` | | `FunctionsSpec => []LoadedRendersComplete` |

*Any clients.* `TypeCorrect` goes action by action; a lemma for each operation of
the store, the pool and the host says what it leaves of the type.
`HolderIsStable` and `RemovedStaysRemoved` rest on it and on two lemmas that list
which actions touch the pool (`PoolStep`) and the records (`RecordStep`) at all.
`BootsWithOwnAddress` says nothing of a VM before it runs; `RunInv` adds that a VM
is off until its own goroutine boots it, and is injected between registration and
boot. It is inductive without any caution because all that others can do to a VM
is to stop it or take it away (`Calms`), and to a record to mark or remove it.
`WaitCoversProvisions` follows: when `orch.Wait()` returns, a goroutine has ended
with an outcome, or was lost to an earlier end of the process, or its POST is
still between the record and the `wg.Add`, or it was never asked for, and then has
no record (`RecordsDrawn`). It does not say that a stop costs no provision its
outcome, which `late_post` refutes.

*RunningHoldsAddress* is not inductive: nothing in it says that the process about
to release an address releases its own, or that its VM is off. `AddressInv` adds
what is needed:

1. names tell VMs apart, and a record and an inventory entry carry the name of
   their provision (`NamesApart`, `OwnNames`);
2. so what a cleanup or a DELETE finds by name is its own VM (`FindsOwn`), and a
   handler is alone with a VM whose goroutine has ended (`HandlersApart`);
3. whoever is on the way to a release holds the address until then
   (`ReleasesOwn`);
4. and by then its VM is off (`StoppedBeforeRelease`): before power-on, or after
   a power-off that was reported truly, or not found at all;
5. a VM that runs was booted with the address its provision acquired
   (`InjectedOwn`).

Two lemmas carry most of the proof: `GoroutineMoves` and `HandlerMoves` say that
a step that leaves the pool alone keeps `AddressInv` if the process may stand
where it goes and the VM it touched is as it should be. The actions that touch
the pool, the locals or the clients' requests have lemmas of their own. The end
of the process adds little: a lost goroutine and a dropped handler release
nothing and power nothing on.

*The lease.* `Lease` knows only who leases an address and which address a VM has
on the network: an address is granted when free, comes up only where it is
leased, and is given back only when its VM is down. The mapping takes the bucket
of the allocator for the first and the guestinfo of the running VMs for the
second. Under `AddressInv` each step of the daemon touches the pool, or one VM, or
neither (`KindOfStep`), and so is a step of the lease or a stutter. That no two VMs
share an address is then a theorem about `Lease` alone.

*The promises* add `PromiseInv` on top: what the record names at each stage and
what a DELETE has undone before each of its calls (`RecordInv`), what is left of a
VM behind each of them (`GoneInv`), which status the record shows and how far the
folder is filled at each stage (`StageInv`). A step touches one VM, its record,
its address, its folder and its inventory entry (`OnlyTouches`); so the proof
looks at that VM and at the process that takes the step, and `Elsewhere`,
`StaysGone` and `StageElsewhere` say that nothing changes for the others.

*The console.* Its users delete while other DELETEs, and the cleanup of a failed
provision, are at work on the same VM, so nothing says who holds what any more.
`ConsoleInv` says instead what stays true whoever does it: a row shows an outcome
only of a provision that is past it, in the store, in every answer under way and
on the page, however old (`ShownInv`), since a status never goes back from there;
so nobody adds anything to the VM of a handler, and what a handler has read of it
stays true (`ReadsTrue`); and what any of them has removed is gone for all
(`GoneSoFar`). An address in a record is that of its provision from `SetIP` on
(`RecordsOwn`), so the release of a DELETE is the one that frees it, or finds
nothing of this VM to free. It may free the address under the next VM that got
it, as in `without_pool`: `DeletedIsGone` is about the VM that is deleted. That
needs names that are asked for once and none of the cautions about a DELETE.

TLC checks the inductive invariants too: `RunInv` in `races`, `AddressInv` and
`PromiseInv` in `promises`, `ConsoleInv` in `console`.

*The start.* `SessionsAccounted` needs that a process that is under way has not
come to an end yet (`Underway`), since the names of processes are used again.
A process that called `Logout` accounts for its session only when the call
failed. `FailsFast` follows from what `run()` has behind it at each stage
(`NotStumbled`). The bound of the host's table is a lemma about cardinalities.

*The pure functions.* A behaviour of `FunctionsSpec` is a call and its value
(`CallsReturnValues`), so each theorem rests on a lemma about the function alone,
stated for inputs of every size: texts of any number of lines, names of any
length, families of any number of addresses. What a loop or a walk returns is
shown by induction; the induction theorems of the library take a predicate as a
parameter, which the provers here cannot instantiate, so `Induction` is about a
*set* of numbers, proved from the well-foundedness of the natural numbers. With it:

* the walk from an address is `Stretch`, its closed form up to the end of the pool
  or the edge of the family, and the first element not in the bucket is the least;
  `LeastFreeIsTaken` says so of every pool while it has a free address, and that
  it is exhausted of those the walk comes to the end of. Of the others
  `pool_edge` shows that the walk leaves the range;
* `Selected` picks the elements of a set in their order (`Picks`: an increasing
  map of places that misses none), which gives what `StripIdentity`, `Others`,
  `KeysOf` and `sanitizeName` keep; two increasing maps onto the same places are
  one (`SameList`), which gives that the other settings of a .vmx keep their order;
* each step of `Patch` keeps the lines there are at their places and appends at
  most one (`Extends`), so that a second patch finds every key and changes nothing
  (`PatchedAgain`).

What stays with TLC are the liveness properties: `ProvisionEnds`,
`DeleteAnswered`, `ShutdownCompletes`, `ConsoleConverges`, `DeleteFrees` and
`ServesInTheEnd`. Their proof needs ENABLED and fairness, which these provers do
not treat. Every safety property of a passing run has its theorem.

## 5. Plan

Done: the core (`Lifecycle` and what it is built on), clients and cautions, the
process, the lease and its refinement, the console, the start, the pure
functions, and a theorem for every safety property of the six passing runs. What
is left, in this order:

1. `Acquire` of `IPAlloc` as an instance of the walk of `AddressWalk`: a pool
   inside a family, shown to take the same steps.
2. Host tasks that outlive a cancelled wait, once there is a source for what the
   host does with two tasks of one VM.
3. A clone that is entered again after a crash, with the call and its checkpoint
   apart, if the code comes to resume provisions as ARCHITECTURE.md says.

## 6. What is not modelled

* *The checkpoint as a transaction of its own.* `CloneStep` joins a call and its
  checkpoint. Nothing else reads or writes the checkpoints of a VM whose
  goroutine is in its clone except a DELETE's `CheckpointClear`, and nothing
  reruns a clone, so the difference could show only in a rerun.
* *Tasks that outlive the call.* A failed call may have taken effect, but takes
  none later: what ESXi does with two tasks of one VM is not in this code.
* *Between the deferred closes and the exit.* `Exit` takes the closing of the
  store, the `Logout` and the end of the process as one step. What a late handler
  or goroutine does at the host during that `Logout`, when its writes fail, is left
  out. The WaitGroup may also panic when it is reused before `Wait` has returned;
  that is a `Crash`.
* *Download and upload of the .vmx* are one call, `PatchVmx`: the daemon keeps the
  text between them, and nobody else writes the file.
* *VMs the daemon does not manage.* `NamesAreSafe` says that no request can name
  the gold VM of the default configuration; other VMs of the host, and an id that
  is asked for as a name (`DataAssumption` keeps the two apart), are left out.
* *Failing writes of the store* are in the theorems about `Spec` and in no run:
  with them `OutcomeRecorded` and the promises do not hold, since `fail()` writes to the
  same store.
* *Unregister and DeleteDir that fail* leave what they were to remove; that is
  the hypothesis `TearsDownTruly`, and why these faults are not in `promises`.
* *`IPAlloc` is the pool inside a family.* Its `Acquire` takes the least free
  number; that the walk of `alloc.go` does so, and what it does at the edges, is
  the subject of `AddressWalk`, for every pool it can be given.
* *Users of the console with several VMs and handlers.* The run has one of each;
  the theorems of `ConsoleProofs` are about any number, the liveness is not.
* *Contents*: the text of the cloud-init templates, YAML, the .vmx beyond the
  lines `Patch` looks at, Unicode beyond the classes `sanitizeName` tells apart,
  timestamps, error texts, logging. `List` reverses its keys, which are random,
  where its comment promises the newest first; no state depends on it.
* *Authentication, CORS, TLS, metrics, the scripts and the compose files* beyond
  the restart policy: they change no state of the daemon.
* `clone.Cleanup` and `orch.Stop`, which nothing calls; `--once`, which prints.
