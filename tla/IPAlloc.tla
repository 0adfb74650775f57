------------------------------ MODULE IPAlloc -------------------------------
(***************************************************************************)
(* The address pool (internal/ipalloc/alloc.go) over its bbolt bucket.     *)
(* A bucket key is an allocated address and its value the VM id that holds *)
(* it; a free address has no key, here the value None.  Acquire and        *)
(* Release each run in one bbolt Update transaction, hence one step each.  *)
(* Release takes an address alone: it does not ask who holds it.           *)
(***************************************************************************)
EXTENDS VmaasData

VARIABLE ipalloc

IPAllocTypeOK == ipalloc \in [Pool -> VmIds \cup {None}]

IPAllocInit == ipalloc = [a \in Pool |-> None]

Free == {a \in Pool : ipalloc[a] = None}

Holds(vm, a) == a \in Pool /\ ipalloc[a] = vm

\* Wrong on purpose: the walk does not look whether the key exists.
AcquireTaken(vm, a) ==
  /\ a = PoolStart
  /\ ipalloc' = [ipalloc EXCEPT ![a] = vm]

\* The walk from start to end stops at the first address without a key.
Acquire(vm, a) ==
  /\ a \in Free
  /\ \A b \in Free : a <= b
  /\ ipalloc' = [ipalloc EXCEPT ![a] = vm]

\* ErrPoolExhausted, or the transaction cannot be written.
AcquireFails ==
  /\ Free = {} \/ "store" \in Faults
  /\ UNCHANGED ipalloc

\* Deleting a key that is not there is no error.
Release(a) ==
  \/ /\ a \in Pool
     /\ ipalloc' = [ipalloc EXCEPT ![a] = None]
  \/ /\ a \notin Pool \/ "store" \in Faults
     /\ UNCHANGED ipalloc
=============================================================================
