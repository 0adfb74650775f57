----------------------------- MODULE Selection -----------------------------
(***************************************************************************)
(* SelectSeq with a set for its test, as a recursive function: what it     *)
(* returns can be proved by induction over the length of the sequence.     *)
(***************************************************************************)
EXTENDS Integers, Sequences

\* The elements of s that are in keep, in the order of s.
Selected(s, keep) ==
  LET upTo[i \in 0..Len(s)] ==
        IF i = 0 THEN <<>>
        ELSE IF s[i] \in keep THEN Append(upTo[i - 1], s[i]) ELSE upTo[i - 1]
  IN  upTo[Len(s)]
=============================================================================
