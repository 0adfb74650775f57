----------------------------- MODULE MCLifecycle ----------------------------
(* Lifecycle for TLC: VM ids are interchangeable, and so are requests.     *)
EXTENDS RunInvariant, TLC

Symmetry == Permutations(VmIds) \cup Permutations(Handlers)
=============================================================================
