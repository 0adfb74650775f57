------------------------------- MODULE Names --------------------------------
(***************************************************************************)
(* sanitizeName of internal/lifecycle/orchestrator.go, which makes the     *)
(* name of the folder and of the VM in the inventory from what the client  *)
(* asked for.  One character stands for each class the code tells apart:   *)
(* "A" for capitals, "." for what is dropped, "/" and tab included.        *)
(***************************************************************************)
EXTENDS Integers, SequencesExt, Selection

CONSTANT NameLimit   \* 63 in the code

ASSUME NameAssumption == NameLimit \in Nat \ {0}

Chars == {"a", "A", "0", "-", "_", " ", "."}

SafeChars == {"a", "0", "-"}

\* What a request without a single usable character is called: "vmaas-vm".
DefaultName == <<"a", "a", "a", "a", "a", "-", "a", "a">>

Lower(c) == IF c = "A" THEN "a" ELSE c

Dash(c) == IF c \in {"_", " "} THEN "-" ELSE c

TrimSpace(s) ==
  LET solid == {i \in DOMAIN s : s[i] # " "}
  IN  IF solid = {} THEN <<>> ELSE SubSeq(s, Min(solid), Max(solid))

\* Wrong on purpose: the default is chosen before the characters are dropped.
DefaultFirst(s) ==
  LET named == IF TrimSpace(s) = <<>> THEN DefaultName ELSE TrimSpace(s)
      kept  == Selected([i \in DOMAIN named |-> Dash(Lower(named[i]))], SafeChars)
  IN  SubSeq(kept, 1, Min({Len(kept), NameLimit}))

sanitizeName(s) ==
  LET trimmed == TrimSpace(s)
      kept    == Selected([i \in DOMAIN trimmed |-> Dash(Lower(trimmed[i]))], SafeChars)
      named   == IF kept = <<>> THEN DefaultName ELSE kept
  IN  SubSeq(named, 1, Min({Len(named), NameLimit}))

-----------------------------------------------------------------------------

\* orchestrator.go:253, "a safe inventory/folder name": whatever is asked for,
\* the name is not empty (DeleteDir of "" would be the datastore), fits, and has
\* no character that leads out of its folder or to a VM with a dot in its name,
\* as the gold image has; asking again by the name that GET shows gets it.
IsSafe(name) ==
  /\ Len(name) \in 1..NameLimit
  /\ ToSet(name) \subseteq SafeChars
  /\ sanitizeName(name) = name
=============================================================================
