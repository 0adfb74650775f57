---------------------------- MODULE AddressWalk -----------------------------
(***************************************************************************)
(* The allocator of internal/ipalloc/alloc.go address by address.  IPAlloc *)
(* takes Acquire in one step on a pool of numbers; this module has the     *)
(* loops that walk from start to end, on addresses as netip has them: two  *)
(* families, each with a last address, and the zero Addr that Next returns *)
(* after it, whose text is the key "invalid IP".                           *)
(*                                                                         *)
(* A bucket is the set of its keys.  It outlives the configuration, so it  *)
(* may hold addresses outside the pool of today.                           *)
(***************************************************************************)
EXTENDS Integers, SequencesExt, Selection

CONSTANTS Last4, Last6   \* the last address of each family

Families == {4, 6}

ASSUME WalkAssumption == Last4 \in Nat /\ Last6 \in Nat

LastOf == [f \in Families |-> IF f = 4 THEN Last4 ELSE Last6]

Zero == [family |-> 0, n |-> 0]

ValidAddrs == UNION {[family : {f}, n : 0..LastOf[f]] : f \in Families}

Addrs == ValidAddrs \cup {Zero}

\* netip.Addr.Compare: the shorter address is the smaller one.
LessEq(a, b) == a.family < b.family \/ (a.family = b.family /\ a.n <= b.n)

\* netip.Addr.Next: nothing follows the last address of a family.
NextAddr(a) ==
  IF a.family \in Families /\ a.n < LastOf[a.family] THEN [a EXCEPT !.n = @ + 1] ELSE Zero

\* New: the ends parse, and start does not come after end.
Accepts(start, end) == LessEq(start, end)

\* Wrong on purpose: the loop condition is Less instead of Compare <= 0.
WalkShort(start, end) ==
  LET from[a \in Addrs] ==
        IF ~LessEq(a, end) \/ a = end THEN <<>>
        ELSE IF a = Zero THEN <<Zero>>
        ELSE <<a>> \o from[NextAddr(a)]
  IN  from[start]

\* The keys that the loops of Acquire, Free and Total come by.  After Zero
\* the loop goes on for ever and comes by no other key: its text stays.
Walk(start, end) ==
  LET from[a \in Addrs] ==
        IF ~LessEq(a, end) THEN <<>>
        ELSE IF a = Zero THEN <<Zero>>
        ELSE <<a>> \o from[NextAddr(a)]
  IN  from[start]

Endless(start, end) == Contains(Walk(start, end), Zero)

\* Free: what the walk comes by and the bucket does not have.
FreeOf(start, end, bucket) ==
  Selected(Walk(start, end), Addrs \ bucket)

\* Acquire: the first of them; else ErrPoolExhausted, or no answer at all,
\* with the write lock of the store held.
AcquireOf(start, end, bucket) ==
  LET free == FreeOf(start, end, bucket)
  IN  IF free # <<>> THEN [answer |-> "address", got |-> Head(free)]
      ELSE [answer |-> IF Endless(start, end) THEN "none" ELSE "exhausted",
            got |-> Zero]

\* Wrong on purpose: the ends of the pool count as outside.
ReleaseInside(start, end, bucket, a) ==
  IF LessEq(a, start) \/ LessEq(end, a) THEN bucket ELSE bucket \ {a}

\* Release: the bucket after it, unchanged on ErrIPNotInPool.
ReleaseOf(start, end, bucket, a) ==
  IF LessEq(start, a) /\ LessEq(a, end) THEN bucket \ {a} ELSE bucket

\* Total.
TotalOf(start, end) == Len(Walk(start, end))

-----------------------------------------------------------------------------

\* The pool of the configuration: both ends included, of one family.
PoolOf(start, end) ==
  {a \in ValidAddrs : a.family = start.family /\ LessEq(start, a) /\ LessEq(a, end)}

\* A pool the walk comes to the end of: one family, whose last address it does
\* not have.  Validate and New accept the others too.
EndsProperly(start, end) ==
  start.family = end.family /\ end.n < LastOf[end.family]

\* Acquire answers with the least free address of the pool, and with
\* ErrPoolExhausted when there is none.  The second is said of a pool the walk
\* comes to the end of; of the others see InsideRange.
TakesLeastFree(start, end, bucket, r) ==
  LET free == PoolOf(start, end) \ bucket
  IN  /\ free # {} =>
           r.answer = "address" /\ r.got \in free /\ \A a \in free : LessEq(r.got, a)
      /\ free = {} /\ EndsProperly(start, end) => r.answer = "exhausted"

\* alloc.go:7-8, "The allocator never returns an address outside the range".
InsideRange(start, end, r) == r.answer = "address" => r.got \in PoolOf(start, end)

\* GET /v1/pool adds up: total is the size of the pool, free and the used
\* addresses of the pool make it up, whatever else the bucket holds; what was
\* acquired can be released, which leaves the bucket as it was; and a key that
\* an edit of the pool left outside it is not released any more.
AddsUp(start, end, bucket, r) ==
  EndsProperly(start, end) =>
    /\ TotalOf(start, end) = Cardinality(PoolOf(start, end))
    /\ ToSet(FreeOf(start, end, bucket)) = PoolOf(start, end) \ bucket
    /\ Len(FreeOf(start, end, bucket)) + Cardinality(PoolOf(start, end) \cap bucket)
         = TotalOf(start, end)
    /\ r.answer = "address" =>
         ReleaseOf(start, end, bucket \cup {r.got}, r.got) = bucket
    /\ \A a \in ValidAddrs :
         ReleaseOf(start, end, bucket, a) = bucket \ ({a} \cap PoolOf(start, end))
=============================================================================
