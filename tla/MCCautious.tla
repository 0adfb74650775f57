----------------------------- MODULE MCCautious -----------------------------
(* CautiousUse for TLC: VM ids are interchangeable, and so are requests.   *)
EXTENDS CautiousUse, TLC

Symmetry == Permutations(VmIds) \cup Permutations(Handlers)
=============================================================================
