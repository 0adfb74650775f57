---------------------------- MODULE MCFunctions -----------------------------
(***************************************************************************)
(* The pure functions of the daemon on every small input.  A behaviour is  *)
(* one call: the input it is given, and then its result.                   *)
(***************************************************************************)
EXTENDS AddressWalk, VmxPatch, Names, Settings

CONSTANTS
  MaxLines,  \* lines of a .vmx
  MaxTail    \* free characters of a requested name, after a prefix of "a"s

ASSUME BoundsAssumption == MaxLines \in Nat /\ MaxTail \in Nat

VARIABLES
  call,   \* the function and its input
  result  \* <<>> until it returns, then its one result

\* Every pool New accepts, every bucket, the addresses outside the pool and the
\* key "invalid IP" included.
WalkCalls ==
  {c \in [fn : {"walk"}, start : ValidAddrs, end : ValidAddrs, bucket : SUBSET Addrs] :
     Accepts(c.start, c.end)}

\* Lines in any order, with a blank line after some, and any end of the text.
VmxTexts ==
  {t \in BoundedSeq([key : VmxKeys, of : {"gold"}, nls : 0..2], MaxLines) :
     t # <<>> /\ \A i \in 1..(Len(t) - 1) : t[i].nls > 0}

PatchCalls == [fn : {"patch"}, text : VmxTexts]

LongStart == [i \in 1..(NameLimit - 1) |-> "a"]

NameCalls ==
  [fn : {"name"}, asked : {p \o s : p \in {<<>>, LongStart}, s \in BoundedSeq(Chars, MaxTail)}]

\* A right file with at most one field changed, and any name servers.
Files ==
  [text   : {[[f \in Fields |-> "ok"] EXCEPT ![g] = x] : g \in Fields, x \in Values},
   dns    : BoundedSeq({"ok", "bad", "var"}, 2),
   prefix : {0, 1, 32, 33}]

LoadCalls == [fn : {"load"}, file : Files, env : {"ok", "bad", ""},
              keys : {<<>>, <<"comment", "k1", "blank", "k2">>},
              ip : {"ok", "invalid"}]

FunctionsInit ==
  /\ call \in WalkCalls \cup PatchCalls \cup NameCalls \cup LoadCalls
  /\ result = <<>>

Calls(fn, value) ==
  /\ call.fn = fn
  /\ result = <<>>
  /\ result' = <<value>>
  /\ UNCHANGED call

FunctionsNext ==
  \/ Calls("walk", AcquireOf(call.start, call.end, call.bucket))
  \/ Calls("patch", Patch(call.text))
  \/ Calls("name", sanitizeName(call.asked))
  \/ Calls("load", Loads(call.file, call.env))

FunctionsSpec == FunctionsInit /\ [][FunctionsNext]_<<call, result>>

-----------------------------------------------------------------------------

Returned(fn) == call.fn = fn /\ result # <<>>

\* Acquire of the pool and the bucket it was called on: see TakesLeastFree.
WalkTakesLeastFree ==
  Returned("walk") => TakesLeastFree(call.start, call.end, call.bucket, result[1])

\* Acquire of any pool that New accepts: see InsideRange.
NeverOutsideRange ==
  Returned("walk") => InsideRange(call.start, call.end, result[1])

\* Acquire, Release, Free and Total agree about the pool: see AddsUp.
PoolAddsUp == Returned("walk") => AddsUp(call.start, call.end, call.bucket, result[1])

\* The .vmx that is uploaded belongs to the clone: see PointsAtClone.
VmxPointsAtClone == Returned("patch") => PointsAtClone(call.text, result[1])

\* The clone does not share UUID and MAC with the gold image: see IdentityIsFresh.
VmxIdentityIsFresh == Returned("patch") => IdentityIsFresh(call.text, result[1])

\* The name of the folder and the VM, whatever was asked for: see IsSafe.
NamesAreSafe == Returned("name") => IsSafe(result[1])

\* What Load accepts is enough for Render: see RendersComplete.
LoadedRendersComplete ==
  Returned("load") /\ result[1] =>
    RendersComplete(call.file, call.env, call.keys, call.ip)
=============================================================================
