---------------------------- MODULE AddressLease ----------------------------
(***************************************************************************)
(* The daemon as an implementation of Lease.  The bucket of the allocator  *)
(* says who leases an address; what a VM has on the network is the address *)
(* in the guestinfo it booted from, as long as it runs.                    *)
(***************************************************************************)
EXTENDS Vmaasd

\* cloud-init configures the NIC from guestinfo.metadata at boot.
OnNetwork == [m \in VmIds |-> IF Running(m) THEN inventory[m].guest ELSE None]

Leases == INSTANCE Lease WITH Vms <- VmIds, Addresses <- Pool,
                              holder <- ipalloc, uses <- OnNetwork

\* README.md:17-22 and alloc.go:7-11: whatever requests, failures, crashes and
\* restarts do, each step of the daemon is a step of the lease or none.
LeaseSpec == Leases!Spec
=============================================================================
