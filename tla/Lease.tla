------------------------------- MODULE Lease --------------------------------
(***************************************************************************)
(* What the daemon promises about addresses, without the daemon: the rules *)
(* of a lease.  An address is free or leased to one VM; it is leased only  *)
(* when it is free; a VM comes up only with an address that is leased to   *)
(* it, and the lease is given back only when its VM does not use it.       *)
(* Nothing is said of requests, records, folders, goroutines or crashes.   *)
(***************************************************************************)
CONSTANTS Vms, Addresses, None

VARIABLES holder,  \* address -> the VM it is leased to, or None
          uses     \* VM -> the address it has on the network, or None

leaseVars == <<holder, uses>>

Init ==
  /\ holder = [a \in Addresses |-> None]
  /\ uses = [v \in Vms |-> None]

Grant(v, a) ==
  /\ holder[a] = None
  /\ holder' = [holder EXCEPT ![a] = v]
  /\ UNCHANGED uses

ComeUp(v, a) ==
  /\ holder[a] = v
  /\ uses[v] = None
  /\ uses' = [uses EXCEPT ![v] = a]
  /\ UNCHANGED holder

GoDown(v) ==
  /\ uses[v] # None
  /\ uses' = [uses EXCEPT ![v] = None]
  /\ UNCHANGED holder

GiveBack(v, a) ==
  /\ holder[a] = v
  /\ uses[v] # a
  /\ holder' = [holder EXCEPT ![a] = None]
  /\ UNCHANGED uses

Next ==
  \/ \E v \in Vms, a \in Addresses : Grant(v, a) \/ ComeUp(v, a) \/ GiveBack(v, a)
  \/ \E v \in Vms : GoDown(v)

Spec == Init /\ [][Next]_leaseVars

-----------------------------------------------------------------------------

TypeOK ==
  /\ holder \in [Addresses -> Vms \cup {None}]
  /\ uses \in [Vms -> Addresses \cup {None}]

\* alloc.go:7-8, seen from the network: two VMs never have one address.
Exclusive ==
  \A v, w \in Vms : v # w /\ uses[v] # None => uses[v] # uses[w]

\* The rules keep this, and Exclusive follows from it.
UsedIsLeased == \A v \in Vms : uses[v] # None => holder[uses[v]] = v
=============================================================================
