------------------------------ MODULE MCVmaasd ------------------------------
(* Vmaasd for TLC: VM ids are interchangeable, and so are requests.        *)
EXTENDS AddressLease, PromiseInvariant, TLC

Symmetry == Permutations(VmIds) \cup Permutations(Handlers)
=============================================================================
