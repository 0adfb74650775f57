--------------------------- MODULE FunctionProofs ---------------------------
(***************************************************************************)
(* The pure functions, for inputs of every size.  What a recursive         *)
(* definition returns is proved by induction over the natural numbers; the *)
(* induction is about a set of numbers, since the provers take no          *)
(* predicate as a parameter.                                               *)
(***************************************************************************)
EXTENDS MCFunctions, SequenceTheorems, FiniteSetTheorems, WellFoundedInduction, TLAPS

Below == {ss \in Nat \X Nat : ss[1] < ss[2]}

LEMMA BelowWellFounded == IsWellFoundedOn(Below, Nat)
  BY NatLessThanWellFounded, Zenon DEF OpToRel, Below

LEMMA LeastNumber ==
  ASSUME NEW T \in SUBSET Nat, T # {}
  PROVE  \E x \in T : \A y \in T : x <= y
<1>1. PICK x \in T : \A y \in T : <<y, x>> \notin Below
  BY WFMin, BelowWellFounded
<1>2. ASSUME NEW y \in T PROVE x <= y
  <2> SUFFICES ASSUME y < x PROVE FALSE
    OBVIOUS
  <2>1. <<y, x>> \in Nat \X Nat /\ <<y, x>>[1] < <<y, x>>[2]
    OBVIOUS
  <2>2. <<y, x>> \in Below
    BY <2>1, Zenon DEF Below
  <2> QED
    BY <1>1, <2>2
<1> QED
  BY <1>2

LEMMA Induction ==
  ASSUME NEW S, 0 \in S, \A n \in Nat : n \in S => n + 1 \in S
  PROVE  Nat \subseteq S
<1> SUFFICES ASSUME Nat \ S # {} PROVE FALSE
  OBVIOUS
<1>1. PICK x \in Nat \ S : \A y \in Nat \ S : x <= y
  BY LeastNumber
<1>2. x # 0 /\ x - 1 \in Nat
  BY <1>1
<1>3. x - 1 \in S
  BY <1>1, <1>2
<1> QED
  BY <1>1, <1>2, <1>3

LEMMA GreatestNumber ==
  ASSUME NEW n \in Nat, NEW T \in SUBSET (0..n), T # {}
  PROVE  \E x \in T : \A y \in T : x >= y
<1> DEFINE U == {n - x : x \in T}
<1>1. U \in SUBSET Nat /\ U # {}
  <2>1. \A x \in T : n - x \in Nat
    OBVIOUS
  <2> QED
    BY <2>1
<1>2. PICK u \in U : \A y \in U : u <= y
  BY <1>1, LeastNumber
<1>3. PICK x \in T : u = n - x
  OBVIOUS
<1>4. ASSUME NEW y \in T PROVE x >= y
  <2>1. n - y \in U
    OBVIOUS
  <2> QED
    BY <1>2, <1>3, <2>1
<1> QED
  BY <1>4

LEMMA FunctionIsSeq ==
  ASSUME NEW n \in Nat, NEW A, NEW f \in [1..n -> A]
  PROVE  f \in Seq(A) /\ Len(f) = n
<1>1. f \in Seq(A)
  <2>1. \E m \in Nat : f \in [1..m -> A]
    OBVIOUS
  <2> QED
    BY <2>1, SeqDef, Zenon
<1>2. DOMAIN f = 1..Len(f) /\ Len(f) \in Nat /\ DOMAIN f = 1..n
  BY <1>1
<1> QED
  BY <1>1, <1>2

LEMMA BoundedIsSeq ==
  ASSUME NEW A, NEW n \in Nat, NEW s \in BoundedSeq(A, n)
  PROVE  s \in Seq(A) /\ Len(s) <= n
<1>1. PICK m \in 0..n : s \in [1..m -> A]
  BY Zenon DEF BoundedSeq, SeqOf
<1> QED
  BY <1>1, FunctionIsSeq

-----------------------------------------------------------------------------
(* What Selected returns.                                                  *)

UpTo(s, keep) ==
  CHOOSE upTo :
    upTo = [i \in 0..Len(s) |->
              IF i = 0 THEN <<>>
              ELSE IF s[i] \in keep THEN Append(upTo[i - 1], s[i]) ELSE upTo[i - 1]]

LEMMA SelectedIsUpTo ==
  ASSUME NEW s, NEW keep PROVE Selected(s, keep) = UpTo(s, keep)[Len(s)]
  BY DEF Selected, UpTo

LEMMA UpToRecursion ==
  ASSUME NEW s, NEW keep, Len(s) \in Nat
  PROVE  UpTo(s, keep) =
           [i \in 0..Len(s) |->
              IF i = 0 THEN <<>>
              ELSE IF s[i] \in keep THEN Append(UpTo(s, keep)[i - 1], s[i])
              ELSE UpTo(s, keep)[i - 1]]
<1> DEFINE Next1(f, i) == IF s[i] \in keep THEN Append(f, s[i]) ELSE f
           Good(f, n) == f = [i \in 0..n |-> IF i = 0 THEN <<>> ELSE Next1(f[i - 1], i)]
           S == {n \in Nat : \E f : Good(f, n)}
<1> HIDE DEF Next1
<1>1. 0 \in S
  <2>1. Good([i \in 0..0 |-> <<>>], 0)
    OBVIOUS
  <2> QED
    BY <2>1
<1>2. ASSUME NEW n \in Nat, n \in S PROVE n + 1 \in S
  <2>1. PICK f : Good(f, n)
    BY <1>2
  <2> DEFINE g == [i \in 0..(n + 1) |-> IF i = n + 1 THEN Next1(f[n], n + 1) ELSE f[i]]
  <2>2. ASSUME NEW i \in 0..(n + 1)
        PROVE  g[i] = IF i = 0 THEN <<>> ELSE Next1(g[i - 1], i)
    <3>1. CASE i = n + 1
      BY <3>1
    <3>2. CASE i # n + 1
      <4>1. i \in 0..n /\ g[i] = f[i] /\ f[i] = IF i = 0 THEN <<>> ELSE Next1(f[i - 1], i)
        BY <3>2, <2>1
      <4>2. i # 0 => g[i - 1] = f[i - 1]
        BY <3>2
      <4> QED
        BY <4>1, <4>2
    <3> QED
      BY <3>1, <3>2
  <2>3. Good(g, n + 1)
    BY <2>2
  <2> HIDE DEF g, Good
  <2> QED
    BY <2>3
<1>3. Len(s) \in S
  <2> HIDE DEF S
  <2> QED
    BY <1>1, <1>2, Induction
<1>4. \E f : Good(f, Len(s))
  BY <1>3
<1>5. UpTo(s, keep) = CHOOSE f : Good(f, Len(s))
  BY DEF UpTo, Next1
<1>6. Good(UpTo(s, keep), Len(s))
  <2> HIDE DEF Good
  <2> QED
    BY <1>4, <1>5
<1> QED
  BY <1>6 DEF Next1

\* r is what keep leaves of the first n elements of s; e says where each was.
Picks(e, r, s, keep, n) ==
  /\ \A j \in 1..Len(r) : e[j] \in 1..n /\ r[j] = s[e[j]] /\ r[j] \in keep
  /\ \A j, k \in 1..Len(r) : j < k => e[j] < e[k]
  /\ \A i \in 1..n : s[i] \in keep => \E j \in 1..Len(r) : e[j] = i

LEMMA SelectedPicks ==
  ASSUME NEW A, NEW s \in Seq(A), NEW keep
  PROVE  /\ Selected(s, keep) \in Seq(A)
         /\ \E e : Picks(e, Selected(s, keep), s, keep, Len(s))
<1> DEFINE u == UpTo(s, keep)
           Good(n) == u[n] \in Seq(A) /\ \E e : Picks(e, u[n], s, keep, n)
           S == {n \in Nat : n <= Len(s) => Good(n)}
<1>1. Len(s) \in Nat /\ \A i \in 1..Len(s) : s[i] \in A
  OBVIOUS
<1>2. /\ u[0] = <<>>
      /\ \A i \in 1..Len(s) :
           u[i] = IF s[i] \in keep THEN Append(u[i - 1], s[i]) ELSE u[i - 1]
  <2>1. u = [i \in 0..Len(s) |->
               IF i = 0 THEN <<>>
               ELSE IF s[i] \in keep THEN Append(u[i - 1], s[i]) ELSE u[i - 1]]
    BY <1>1, UpToRecursion
  <2> HIDE DEF u
  <2>2. \A i \in 0..Len(s) :
          u[i] = IF i = 0 THEN <<>>
                 ELSE IF s[i] \in keep THEN Append(u[i - 1], s[i]) ELSE u[i - 1]
    BY <2>1
  <2>3. 0 \in 0..Len(s) /\ \A i \in 1..Len(s) : i \in 0..Len(s) /\ i # 0
    BY <1>1
  <2> QED
    BY <2>2, <2>3
<1> HIDE DEF u
<1>3. 0 \in S
  <2>1. Picks(<<>>, <<>>, s, keep, 0)
    BY DEF Picks
  <2>2. Good(0)
    BY <1>2, <2>1
  <2> QED
    BY <2>2
<1>4. ASSUME NEW n \in Nat, n \in S PROVE n + 1 \in S
  <2> SUFFICES ASSUME n + 1 <= Len(s) PROVE Good(n + 1)
    OBVIOUS
  <2>1. PICK e : u[n] \in Seq(A) /\ Picks(e, u[n], s, keep, n)
    BY <1>1, <1>4
  <2>2. n + 1 \in 1..Len(s) /\ (n + 1) - 1 = n
    BY <1>1
  <2> DEFINE m == Len(u[n])
  <2>3. m \in Nat
    BY <2>1
  <2>4. CASE s[n + 1] \notin keep
    <3>1. u[n + 1] = u[n]
      BY <1>2, <2>2, <2>4
    <3>2. Picks(e, u[n], s, keep, n + 1)
      BY <2>1, <2>4 DEF Picks
    <3> QED
      BY <2>1, <3>1, <3>2
  <2>5. CASE s[n + 1] \in keep
    <3> DEFINE r == Append(u[n], s[n + 1])
               d == [j \in 1..(m + 1) |-> IF j <= m THEN e[j] ELSE n + 1]
    <3>1. u[n + 1] = r
      BY <1>2, <2>2, <2>5
    <3>2. /\ r \in Seq(A) /\ Len(r) = m + 1 /\ r[m + 1] = s[n + 1]
          /\ \A j \in 1..m : r[j] = u[n][j]
      BY <1>1, <2>1, <2>2, AppendProperties
    <3> HIDE DEF r, m
    <3>3. \A j \in 1..m : e[j] \in 1..n /\ u[n][j] = s[e[j]] /\ u[n][j] \in keep
      BY <2>1 DEF Picks, m
    <3>4. \A j, k \in 1..m : j < k => e[j] < e[k]
      BY <2>1 DEF Picks, m
    <3>5. \A i \in 1..n : s[i] \in keep => \E j \in 1..m : e[j] = i
      BY <2>1 DEF Picks, m
    <3>6. \A j \in 1..(m + 1) :
            \/ j \in 1..m /\ d[j] = e[j] /\ d[j] \in 1..n /\ r[j] = u[n][j]
            \/ j = m + 1 /\ d[j] = n + 1 /\ r[j] = s[n + 1]
      BY <2>3, <3>2, <3>3
    <3> HIDE DEF d
    <3>7. \A j \in 1..(m + 1) : d[j] \in 1..(n + 1) /\ r[j] = s[d[j]] /\ r[j] \in keep
      BY <2>5, <3>3, <3>6
    <3>8. \A j, k \in 1..(m + 1) : j < k => d[j] < d[k]
      BY <2>3, <3>4, <3>6
    <3>9. \A i \in 1..(n + 1) : s[i] \in keep => \E j \in 1..(m + 1) : d[j] = i
      <4>1. d[m + 1] = n + 1 /\ m + 1 \in 1..(m + 1) /\ \A j \in 1..m : d[j] = e[j] /\ j \in 1..(m + 1)
        BY <2>3 DEF d
      <4>2. \A i \in 1..(n + 1) : i \in 1..n \/ i = n + 1
        OBVIOUS
      <4> QED
        BY <3>5, <4>1, <4>2
    <3>10. Picks(d, r, s, keep, n + 1)
      BY <3>2, <3>7, <3>8, <3>9 DEF Picks
    <3> QED
      BY <3>1, <3>2, <3>10
  <2> QED
    BY <2>4, <2>5
<1>5. Len(s) \in S
  <2> HIDE DEF S
  <2> QED
    BY <1>1, <1>3, <1>4, Induction
<1> QED
  BY <1>1, <1>5, SelectedIsUpTo DEF u

Increasing(d, m) ==
  /\ \A j \in 1..m : d[j] \in Nat
  /\ \A j, k \in 1..m : j < k => d[j] < d[k]

Within(d, m, e, n) == \A j \in 1..m : \E k \in 1..n : e[k] = d[j]

\* Two increasing lists of the same numbers are the same list.
LEMMA SameList ==
  ASSUME NEW m \in Nat, NEW n \in Nat, NEW d, NEW e,
         Increasing(d, m), Increasing(e, n), Within(d, m, e, n), Within(e, n, d, m)
  PROVE  m = n /\ \A j \in 1..m : d[j] = e[j]
<1> USE DEF Increasing, Within
<1> DEFINE Differs(j) == \/ j <= m /\ j <= n /\ d[j] # e[j]
                         \/ j <= m /\ j > n
                         \/ j <= n /\ j > m
           T == {j \in Nat \ {0} : Differs(j)}
<1>1. ASSUME T # {} PROVE FALSE
  <2>1. PICK j \in Nat \ {0} : Differs(j) /\ \A i \in Nat \ {0} : Differs(i) => j <= i
    <3>1. T \in SUBSET Nat
      OBVIOUS
    <3>2. PICK j \in T : \A i \in T : j <= i
      BY <1>1, <3>1, LeastNumber
    <3> HIDE DEF Differs
    <3> QED
      BY <3>2
  <2>2. \A i \in 1..(j - 1) : i \in 1..m /\ i \in 1..n /\ d[i] = e[i]
    <3> SUFFICES ASSUME NEW i \in 1..(j - 1)
                 PROVE  i \in 1..m /\ i \in 1..n /\ d[i] = e[i]
      OBVIOUS
    <3>1. i \in Nat \ {0} /\ ~ Differs(i) /\ (i <= m \/ i <= n)
      BY <2>1
    <3> QED
      BY <3>1
  <2>3. CASE j <= m
    <3>1. PICK k \in 1..n : e[k] = d[j]
      BY <2>1, <2>3
    <3>2. k >= j
      BY <2>2, <2>3, <3>1, <2>1
    <3>3. j \in 1..n /\ e[j] # d[j] /\ k # j
      BY <2>1, <2>3, <3>1, <3>2
    <3>4. e[j] < d[j]
      BY <3>1, <3>2, <3>3
    <3>5. PICK i \in 1..m : d[i] = e[j]
      BY <3>3
    <3>6. i < j
      BY <2>1, <2>3, <3>4, <3>5
    <3>7. e[i] = e[j] /\ i \in 1..n
      BY <2>2, <3>5, <3>6
    <3> QED
      BY <3>3, <3>6, <3>7
  <2>4. CASE j > m
    <3>1. j \in 1..n
      BY <2>1, <2>4
    <3>2. PICK i \in 1..m : d[i] = e[j]
      BY <3>1
    <3>3. i < j /\ e[i] = e[j] /\ i \in 1..n
      BY <2>1, <2>2, <2>4, <3>2
    <3> QED
      BY <3>1, <3>3
  <2> QED
    BY <2>1, <2>3, <2>4
<1>2. \A j \in Nat \ {0} : ~ Differs(j)
  BY <1>1
<1>3. m = n
  <2>1. m > n => m \in Nat \ {0} /\ Differs(m)
    OBVIOUS
  <2>2. n > m => n \in Nat \ {0} /\ Differs(n)
    OBVIOUS
  <2> QED
    BY <1>2, <2>1, <2>2
<1>4. \A j \in 1..m : d[j] = e[j]
  BY <1>2, <1>3
<1> QED
  BY <1>3, <1>4

LEMMA AllKept ==
  ASSUME NEW A, NEW s \in Seq(A), NEW keep, \A i \in 1..Len(s) : s[i] \in keep
  PROVE  Selected(s, keep) = s
<1> DEFINE r == Selected(s, keep)
           id == [i \in 1..Len(s) |-> i]
<1>1. PICK e : r \in Seq(A) /\ Picks(e, r, s, keep, Len(s))
  BY SelectedPicks
<1> HIDE DEF r
<1>2. Len(r) = Len(s) /\ \A j \in 1..Len(r) : e[j] = id[j]
  <2>1. Len(r) \in Nat /\ Len(s) \in Nat
    BY <1>1
  <2>2. /\ \A j \in 1..Len(r) : e[j] \in 1..Len(s)
        /\ \A j, k \in 1..Len(r) : j < k => e[j] < e[k]
        /\ \A i \in 1..Len(s) : \E j \in 1..Len(r) : e[j] = i
    BY <1>1 DEF Picks
  <2>3. \A i \in 1..Len(s) : id[i] = i
    OBVIOUS
  <2> HIDE DEF id
  <2>4. Increasing(e, Len(r)) /\ Increasing(id, Len(s))
    BY <2>1, <2>2, <2>3 DEF Increasing
  <2>5. Within(e, Len(r), id, Len(s)) /\ Within(id, Len(s), e, Len(r))
    BY <2>1, <2>2, <2>3 DEF Within
  <2> QED
    BY <2>1, <2>4, <2>5, SameList
<1>3. \A j \in 1..Len(r) : r[j] = s[j]
  <2>1. \A j \in 1..Len(r) : r[j] = s[e[j]]
    BY <1>1, Zenon DEF Picks
  <2>2. \A j \in 1..Len(r) : id[j] = j
    BY <1>2
  <2> HIDE DEF id
  <2> QED
    BY <1>2, <2>1, <2>2
<1> QED
  BY <1>1, <1>2, <1>3, SeqEqual DEF r

LEMMA ElementsOfSelected ==
  ASSUME NEW A, NEW s \in Seq(A), NEW keep
  PROVE  ToSet(Selected(s, keep)) = ToSet(s) \cap keep
<1> DEFINE r == Selected(s, keep)
<1>1. PICK e : r \in Seq(A) /\ Picks(e, r, s, keep, Len(s))
  BY SelectedPicks
<1> HIDE DEF r
<1>2. DOMAIN r = 1..Len(r) /\ DOMAIN s = 1..Len(s)
  BY <1>1
<1>3. ASSUME NEW x \in ToSet(r) PROVE x \in ToSet(s) /\ x \in keep
  <2>1. PICK j \in 1..Len(r) : x = r[j]
    BY <1>2 DEF ToSet
  <2>2. e[j] \in DOMAIN s /\ x = s[e[j]] /\ x \in keep
    BY <1>1, <1>2, <2>1 DEF Picks
  <2> QED
    BY <2>2 DEF ToSet
<1>4. ASSUME NEW x \in ToSet(s), x \in keep PROVE x \in ToSet(r)
  <2>1. PICK i \in 1..Len(s) : x = s[i]
    BY <1>2 DEF ToSet
  <2>2. PICK j \in 1..Len(r) : e[j] = i
    BY <1>1, <1>4, <2>1 DEF Picks
  <2>3. r[j] = x
    BY <1>1, <2>1, <2>2 DEF Picks
  <2> QED
    BY <1>2, <2>3 DEF ToSet
<1> QED
  BY <1>3, <1>4 DEF r

-----------------------------------------------------------------------------
(* Every call that has returned has the value of its function.             *)

Inputs == WalkCalls \cup PatchCalls \cup NameCalls \cup LoadCalls

ValueReturned ==
  /\ Returned("walk") => result[1] = AcquireOf(call.start, call.end, call.bucket)
  /\ Returned("patch") => result[1] = Patch(call.text)
  /\ Returned("name") => result[1] = sanitizeName(call.asked)
  /\ Returned("load") => result[1] = Loads(call.file, call.env)

LEMMA KindsOfInput ==
  ASSUME NEW c \in Inputs
  PROVE  /\ c.fn = "walk" => c \in WalkCalls
         /\ c.fn = "patch" => c \in PatchCalls
         /\ c.fn = "name" => c \in NameCalls
         /\ c.fn = "load" => c \in LoadCalls
<1>1. c \in WalkCalls => c.fn = "walk"
  BY DEF WalkCalls
<1>2. c \in PatchCalls => c.fn = "patch"
  BY DEF PatchCalls
<1>3. c \in NameCalls => c.fn = "name"
  BY DEF NameCalls
<1>4. c \in LoadCalls => c.fn = "load"
  BY DEF LoadCalls
<1> QED
  BY <1>1, <1>2, <1>3, <1>4 DEF Inputs

LEMMA CallsReturnValues == FunctionsSpec => [](call \in Inputs /\ ValueReturned)
<1>1. FunctionsInit => call \in Inputs /\ ValueReturned
  BY DEF FunctionsInit, Inputs, ValueReturned, Returned
<1>2. /\ call \in Inputs /\ ValueReturned
      /\ [FunctionsNext]_<<call, result>>
      => (call \in Inputs /\ ValueReturned)'
  <2> SUFFICES ASSUME call \in Inputs, ValueReturned, [FunctionsNext]_<<call, result>>
               PROVE  (call \in Inputs /\ ValueReturned)'
    OBVIOUS
  <2>1. CASE Calls("walk", AcquireOf(call.start, call.end, call.bucket))
    BY <2>1 DEF Calls, ValueReturned, Returned
  <2>2. CASE Calls("patch", Patch(call.text))
    BY <2>2 DEF Calls, ValueReturned, Returned
  <2>3. CASE Calls("name", sanitizeName(call.asked))
    BY <2>3 DEF Calls, ValueReturned, Returned
  <2>4. CASE Calls("load", Loads(call.file, call.env))
    BY <2>4 DEF Calls, ValueReturned, Returned
  <2>5. CASE UNCHANGED <<call, result>>
    BY <2>5 DEF ValueReturned, Returned
  <2> QED
    BY <2>1, <2>2, <2>3, <2>4, <2>5 DEF FunctionsNext
<1> QED
  BY <1>1, <1>2, PTL DEF FunctionsSpec

-----------------------------------------------------------------------------
(* The configuration.                                                      *)

LEMMA AcceptedRendersComplete ==
  ASSUME NEW text, NEW D, NEW servers \in Seq(D), NEW prefix, NEW file,
         file = [text |-> text, dns |-> servers, prefix |-> prefix],
         NEW env, NEW K, NEW keysFile \in Seq(K), NEW ip, Loads(file, env)
  PROVE  RendersComplete(file, env, keysFile, ip)
<1> DEFINE c == Expand(file, env)
           v == VarsOfProvision(ip)
           r == Render(v, c, keysFile)
           dns == Selected(c.dns, {"ok"})
<1>1. /\ v.id = "ok" /\ v.host = "ok" /\ v.ip = ip /\ v.nic = "" /\ v.user = ""
      /\ v.prefix = 0 /\ v.gateway = "" /\ v.dns = <<>> /\ v.keys = <<>>
  BY DEF VarsOfProvision
<1>2. Validate(c)
  BY DEF Loads
<1>3. /\ c.text["nic_name"] # "" /\ c.text["default_user"] # ""
      /\ c.text["gateway"] = "ok" /\ c.prefix \in 1..32
  BY <1>2 DEF Validate, NeededFields, AddressFields
<1>4. dns = c.dns /\ Len(c.dns) = Len(file.dns)
  <2> DEFINE t == [f \in Fields |-> ExpandValue(file.text[f], env)]
             d == [i \in DOMAIN file.dns |-> ExpandValue(file.dns[i], env)]
  <2>0. c = [file EXCEPT !.text = t, !.dns = d]
    BY DEF Expand
  <2> HIDE DEF t, d, c
  <2>1. file.dns = servers /\ c.dns = d
    BY <2>0
  <2>2. DOMAIN file.dns = 1..Len(file.dns) /\ Len(file.dns) \in Nat
    BY <2>1
  <2>3. \A i \in DOMAIN c.dns : c.dns[i] = "ok"
    BY <1>2 DEF Validate
  <2>4. c.dns \in Seq({"ok"}) /\ Len(c.dns) = Len(file.dns)
    <3>1. DOMAIN c.dns = 1..Len(file.dns) /\ c.dns = [i \in 1..Len(file.dns) |-> c.dns[i]]
      BY <2>1, <2>2 DEF d
    <3>2. c.dns \in [1..Len(file.dns) -> {"ok"}]
      BY <2>3, <3>1
    <3> QED
      BY <2>2, <3>2, FunctionIsSeq
  <2>5. \A i \in 1..Len(c.dns) : c.dns[i] \in {"ok"}
    BY <2>4
  <2> QED
    BY <2>4, <2>5, AllKept
<1>5. ToSet(KeysOf(keysFile)) = ToSet(keysFile) \ {"blank", "comment"}
  BY ElementsOfSelected DEF KeysOf
<1>6. /\ r.ok <=> ip = "ok"
      /\ r.nic = c.text["nic_name"] /\ r.user = c.text["default_user"]
      /\ r.prefix = c.prefix /\ r.gateway = "ok" /\ r.dns = dns
      /\ r.keys = KeysOf(keysFile)
  <2> HIDE DEF c, v
  <2> QED
    BY <1>1, <1>3 DEF Render, Or
<1> QED
  BY <1>3, <1>4, <1>5, <1>6 DEF RendersComplete

\* config.go:5-6: what Load accepts of a configuration file is all that Render
\* needs, with any number of name servers and of keys.
THEOREM LoadedIsComplete == FunctionsSpec => []LoadedRendersComplete
<1>1. call \in Inputs /\ ValueReturned => LoadedRendersComplete
  <2> SUFFICES ASSUME call \in Inputs, ValueReturned, Returned("load"), result[1]
               PROVE  RendersComplete(call.file, call.env, call.keys, call.ip)
    BY DEF LoadedRendersComplete
  <2>1. call \in LoadCalls /\ Loads(call.file, call.env)
    BY KindsOfInput DEF Returned, ValueReturned
  <2>2. /\ call.file \in Files
        /\ call.keys \in {<<>>, <<"comment", "k1", "blank", "k2">>}
    BY <2>1 DEF LoadCalls
  <2> DEFINE Lines == {"comment", "k1", "blank", "k2"}
  <2>3. call.keys \in Seq(Lines)
    <3>1. "comment" \in Lines /\ "k1" \in Lines /\ "blank" \in Lines /\ "k2" \in Lines
      OBVIOUS
    <3> HIDE DEF Lines
    <3>2. CASE call.keys = <<>>
      BY <3>2
    <3>3. CASE call.keys = <<"comment", "k1", "blank", "k2">>
      BY <3>1, <3>3
    <3> QED
      BY <2>2, <3>2, <3>3
  <2> HIDE DEF Lines
  <2> DEFINE Servers == {"ok", "bad", "var"}
             texts == {[[f \in Fields |-> "ok"] EXCEPT ![g] = x] : g \in Fields, x \in Values}
  <2>4. call.file \in [text : texts, dns : BoundedSeq(Servers, 2), prefix : {0, 1, 32, 33}]
    BY <2>2 DEF Files
  <2> HIDE DEF Servers, texts
  <2>5. call.file.dns \in Seq(Servers)
    BY <2>4, BoundedIsSeq
  <2>6. call.file = [text |-> call.file.text, dns |-> call.file.dns, prefix |-> call.file.prefix]
    BY <2>4
  <2> QED
    BY <2>1, <2>3, <2>5, <2>6, AcceptedRendersComplete
<1> QED
  BY <1>1, CallsReturnValues, PTL

-----------------------------------------------------------------------------
(* The name of a VM.                                                       *)

LEMMA LessOfTwo ==
  ASSUME NEW a \in Int, NEW b \in Int
  PROVE  Min({a, b}) = IF a <= b THEN a ELSE b
<1> DEFINE m == IF a <= b THEN a ELSE b
<1>1. m \in {a, b} /\ \A y \in {a, b} : m <= y
  OBVIOUS
<1>2. \A x \in {a, b} : (\A y \in {a, b} : x <= y) => x = m
  OBVIOUS
<1> QED
  BY <1>1, <1>2 DEF Min

LEMMA SolidPart ==
  ASSUME NEW n \in Nat, NEW solid \in SUBSET (1..n), solid # {}
  PROVE  /\ Min(solid) \in 1..n /\ Max(solid) \in 1..n
         /\ \A i \in solid : Min(solid) <= i /\ i <= Max(solid)
<1>1. solid \in SUBSET (0..n) /\ solid \in SUBSET Nat
  OBVIOUS
<1>2. \E x \in solid : \A y \in solid : x <= y
  BY <1>1, LeastNumber
<1>3. \E x \in solid : \A y \in solid : x >= y
  BY <1>1, GreatestNumber
<1>4. Min(solid) \in solid /\ \A y \in solid : Min(solid) <= y
  BY <1>2, Zenon DEF Min
<1>5. Max(solid) \in solid /\ \A y \in solid : Max(solid) >= y
  BY <1>3, Zenon DEF Max
<1> QED
  BY <1>1, <1>4, <1>5

LEMMA TrimSpaceType ==
  ASSUME NEW s \in Seq(Chars)
  PROVE  TrimSpace(s) \in Seq(Chars)
<1> DEFINE solid == {i \in DOMAIN s : s[i] # " "}
<1>0. TrimSpace(s) = IF solid = {} THEN <<>> ELSE SubSeq(s, Min(solid), Max(solid))
  BY Zenon DEF TrimSpace
<1>1. CASE solid = {}
  <2> HIDE DEF solid
  <2> QED
    BY <1>0, <1>1
<1>2. CASE solid # {}
  <2>1. Min(solid) \in 1..Len(s) /\ Max(solid) \in 1..Len(s)
    <3>1. solid \in SUBSET (1..Len(s)) /\ Len(s) \in Nat
      <4>1. DOMAIN s = 1..Len(s) /\ Len(s) \in Nat
        BY LenProperties, Zenon
      <4> QED
        BY <4>1, Zenon
    <3> HIDE DEF solid
    <3> QED
      BY <1>2, <3>1, SolidPart
  <2> HIDE DEF solid
  <2>2. TrimSpace(s) = SubSeq(s, Min(solid), Max(solid))
    BY <1>0, <1>2
  <2>3. \A i \in Min(solid)..Max(solid) : s[i] \in Chars
    BY <2>1
  <2>4. Min(solid) \in Int /\ Max(solid) \in Int
    BY <2>1
  <2> QED
    BY <2>2, <2>3, <2>4, SubSeqProperties
<1> QED
  BY <1>1, <1>2

\* Nothing to trim, to lower or to drop in a safe name.
LEMMA SafeStays ==
  ASSUME NEW s \in Seq(Chars), \A i \in 1..Len(s) : s[i] \in SafeChars,
         Len(s) \in 1..NameLimit
  PROVE  sanitizeName(s) = s
<1>1. TrimSpace(s) = s
  <2> DEFINE solid == {i \in DOMAIN s : s[i] # " "}
  <2>0. TrimSpace(s) = IF solid = {} THEN <<>> ELSE SubSeq(s, Min(solid), Max(solid))
    BY Zenon DEF TrimSpace
  <2>1. solid = 1..Len(s) /\ solid # {}
    <3>1. DOMAIN s = 1..Len(s) /\ Len(s) \in Nat /\ 1 \in 1..Len(s)
      BY NameAssumption
    <3>2. \A i \in 1..Len(s) : s[i] # " "
      BY DEF SafeChars
    <3> QED
      BY <3>1, <3>2
  <2>2. /\ Min(solid) \in 1..Len(s) /\ Max(solid) \in 1..Len(s)
        /\ \A i \in solid : Min(solid) <= i /\ i <= Max(solid)
    <3>1. Len(s) \in Nat /\ 1..Len(s) \in SUBSET (1..Len(s)) /\ 1..Len(s) # {}
      BY NameAssumption
    <3> HIDE DEF solid
    <3> QED
      BY <2>1, <3>1, SolidPart
  <2> HIDE DEF solid
  <2>3. TrimSpace(s) = SubSeq(s, Min(solid), Max(solid))
    BY <2>0, <2>1
  <2>4. 1 \in solid /\ Len(s) \in solid
    BY <2>1
  <2>5. Min(solid) = 1 /\ Max(solid) = Len(s)
    BY <2>2, <2>4
  <2> QED
    BY <2>3, <2>5, SubSeqFull
<1>2. [i \in DOMAIN s |-> Dash(Lower(s[i]))] = s
  <2>1. \A c \in SafeChars : Dash(Lower(c)) = c
    BY DEF SafeChars, Dash, Lower
  <2>2. \A i \in DOMAIN s : Dash(Lower(s[i])) = s[i]
    BY <2>1
  <2>3. s = [i \in DOMAIN s |-> s[i]]
    OBVIOUS
  <2> QED
    BY <2>2, <2>3, Zenon
<1>3. Selected(s, SafeChars) = s
  BY AllKept
<1>4. s # <<>>
  OBVIOUS
<1>5. Min({Len(s), NameLimit}) = Len(s)
  BY LessOfTwo, NameAssumption
<1> QED
  BY <1>1, <1>2, <1>3, <1>4, <1>5, SubSeqFull DEF sanitizeName

\* orchestrator.go:253, for a name of any length: what sanitizeName makes of it
\* fits, is not empty, has safe characters only, and stays what it is.
LEMMA SanitizedIsSafe ==
  ASSUME NEW s \in Seq(Chars)
  PROVE  IsSafe(sanitizeName(s))
<1> DEFINE trimmed == TrimSpace(s)
           dashed  == [i \in DOMAIN trimmed |-> Dash(Lower(trimmed[i]))]
           kept    == Selected(dashed, SafeChars)
           named   == IF kept = <<>> THEN DefaultName ELSE kept
           n       == Min({Len(named), NameLimit})
           name    == SubSeq(named, 1, n)
<1>1. sanitizeName(s) = name
  BY DEF sanitizeName
<1>2. dashed \in Seq(Chars)
  <2>1. trimmed \in Seq(Chars)
    BY TrimSpaceType
  <2> HIDE DEF trimmed
  <2>2. \A c \in Chars : Dash(Lower(c)) \in Chars
    BY DEF Chars, Dash, Lower
  <2>3. Len(trimmed) \in Nat /\ DOMAIN trimmed = 1..Len(trimmed)
    BY <2>1
  <2>4. dashed \in [1..Len(trimmed) -> Chars]
    BY <2>1, <2>2, <2>3
  <2> QED
    BY <2>3, <2>4, FunctionIsSeq
<1> HIDE DEF dashed
<1>3. /\ named \in Seq(Chars) /\ named # <<>>
      /\ \A i \in 1..Len(named) : named[i] \in SafeChars
  <2>1. PICK e : kept \in Seq(Chars) /\ Picks(e, kept, dashed, SafeChars, Len(dashed))
    BY <1>2, SelectedPicks
  <2> HIDE DEF kept
  <2>2. CASE kept = <<>>
    <3>1. /\ DefaultName \in Seq(Chars) /\ DefaultName # <<>>
          /\ \A i \in 1..Len(DefaultName) : DefaultName[i] \in SafeChars
      <4>1. "a" \in Chars /\ "-" \in Chars /\ "a" \in SafeChars /\ "-" \in SafeChars
        BY DEF Chars, SafeChars
      <4>2. DefaultName \in Seq(Chars) /\ DefaultName # <<>> /\ Len(DefaultName) = 8
        BY <4>1 DEF DefaultName
      <4>3. \A i \in 1..8 : DefaultName[i] \in SafeChars
        BY <4>1 DEF DefaultName
      <4> QED
        BY <4>2, <4>3
    <3> QED
      BY <2>2, <3>1
  <2>3. CASE kept # <<>>
    BY <2>1, <2>3 DEF Picks
  <2> QED
    BY <2>2, <2>3
<1> HIDE DEF named
<1>4. n \in 1..Len(named) /\ n <= NameLimit
  BY <1>3, LessOfTwo, NameAssumption
<1> HIDE DEF n
<1>5. name \in Seq(Chars) /\ Len(name) = n /\ \A i \in 1..n : name[i] = named[i]
  <2>1. \A i \in 1..n : named[i] \in Chars
    BY <1>3, <1>4
  <2>2. 1 \in Int /\ n \in Int /\ 1 <= n /\ (n - 1) + 1 = n
    BY <1>4
  <2>3. /\ name \in Seq(Chars)
        /\ Len(name) = (n - 1) + 1
        /\ \A i \in 1..((n - 1) + 1) : name[i] = named[(1 + i) - 1]
    BY <2>1, <2>2, SubSeqProperties
  <2> QED
    BY <2>2, <2>3
<1> HIDE DEF name
<1>6. Len(name) \in 1..NameLimit /\ \A i \in 1..Len(name) : name[i] \in SafeChars
  BY <1>3, <1>4, <1>5, NameAssumption
<1>7. ToSet(name) \subseteq SafeChars
  BY <1>5, <1>6 DEF ToSet
<1>8. sanitizeName(name) = name
  BY <1>5, <1>6, SafeStays
<1> QED
  BY <1>1, <1>6, <1>7, <1>8 DEF IsSafe

\* The names of folders and VMs are safe, for a limit and requests of any length.
THEOREM SafeNames == FunctionsSpec => []NamesAreSafe
<1>1. call \in Inputs /\ ValueReturned => NamesAreSafe
  <2> SUFFICES ASSUME call \in Inputs, ValueReturned, Returned("name")
               PROVE  IsSafe(result[1])
    BY DEF NamesAreSafe
  <2>1. call \in NameCalls /\ result[1] = sanitizeName(call.asked)
    BY KindsOfInput DEF Returned, ValueReturned
  <2>2. PICK p \in {<<>>, LongStart}, s \in BoundedSeq(Chars, MaxTail) : call.asked = p \o s
    BY <2>1 DEF NameCalls
  <2>3. s \in Seq(Chars)
    BY BoundedIsSeq, BoundsAssumption
  <2>4. p \in Seq(Chars)
    <3>1. LongStart \in [1..(NameLimit - 1) -> Chars] /\ NameLimit - 1 \in Nat
      <4>1. "a" \in Chars
        BY DEF Chars
      <4> QED
        BY <4>1, NameAssumption DEF LongStart
    <3>2. LongStart \in Seq(Chars)
      BY <3>1, FunctionIsSeq
    <3>3. CASE p = LongStart
      BY <3>2, <3>3
    <3>4. CASE p = <<>>
      BY <3>4
    <3> QED
      BY <3>3, <3>4
  <2> QED
    BY <2>1, <2>2, <2>3, <2>4, ConcatProperties, SanitizedIsSafe
<1> QED
  BY <1>1, CallsReturnValues, PTL

-----------------------------------------------------------------------------
(* The walk through the pool.                                              *)

At(family, n) == [family |-> family, n |-> n]

LEMMA LastIsNat == \A f \in Families : LastOf[f] \in Nat
  BY WalkAssumption DEF LastOf, Families

LEMMA AtIsValid ==
  ASSUME NEW f \in Families, NEW n \in 0..LastOf[f]
  PROVE  /\ At(f, n) \in ValidAddrs /\ At(f, n) \in Addrs
         /\ At(f, n).family = f /\ At(f, n).n = n /\ At(f, n) # Zero
<1>1. At(f, n) \in [family : {f}, n : 0..LastOf[f]]
  BY DEF At
<1>2. At(f, n) \in ValidAddrs
  BY <1>1, Zenon DEF ValidAddrs
<1>3. At(f, n).family = f /\ At(f, n).n = n
  BY DEF At
<1>4. At(f, n) # Zero
  BY <1>3 DEF Zero, Families
<1> QED
  BY <1>2, <1>3, <1>4 DEF Addrs

LEMMA ValidIsAt ==
  ASSUME NEW a \in ValidAddrs
  PROVE  /\ a.family \in Families /\ a.n \in 0..LastOf[a.family]
         /\ a = At(a.family, a.n) /\ a # Zero /\ a.n \in Nat /\ a.family \in Nat
         /\ LastOf[a.family] \in Nat
<1>1. PICK f \in Families : a \in [family : {f}, n : 0..LastOf[f]]
  BY Zenon DEF ValidAddrs
<1>2. a.family = f /\ a.n \in 0..LastOf[f] /\ a = At(a.family, a.n)
  BY <1>1 DEF At
<1> QED
  BY <1>2, LastIsNat, AtIsValid DEF Families

\* The last address of the family of a that is not after the end.
LastWalked(a, end) == IF a.family = end.family THEN end.n ELSE LastOf[a.family]

Strides(a, end) == LastWalked(a, end) - a.n + 1

\* The walk leaves the family at its end.
Passes(a, end) == LastWalked(a, end) = LastOf[a.family]

\* What the walk comes by, without recursion.
Stretch(a, end) ==
  IF ~ LessEq(a, end) THEN <<>>
  ELSE IF a = Zero THEN <<Zero>>
  ELSE [i \in 1..(Strides(a, end) + (IF Passes(a, end) THEN 1 ELSE 0)) |->
          IF i <= Strides(a, end) THEN At(a.family, a.n + i - 1) ELSE Zero]

\* Every pool of every New.
LEMMA StretchFacts ==
  ASSUME NEW a \in ValidAddrs, NEW end \in ValidAddrs, LessEq(a, end)
  PROVE  /\ LastWalked(a, end) \in a.n..LastOf[a.family]
         /\ Strides(a, end) \in Nat \ {0}
         /\ Stretch(a, end) \in Seq(Addrs)
         /\ Len(Stretch(a, end)) = Strides(a, end) + (IF Passes(a, end) THEN 1 ELSE 0)
         /\ \A i \in 1..Strides(a, end) :
              /\ Stretch(a, end)[i] = At(a.family, a.n + i - 1)
              /\ a.n + i - 1 \in a.n..LastWalked(a, end)
         /\ Passes(a, end) => Stretch(a, end)[Strides(a, end) + 1] = Zero
<1>1. /\ a.family \in Families /\ a.n \in 0..LastOf[a.family] /\ a # Zero
      /\ end.n \in 0..LastOf[end.family] /\ LastOf[a.family] \in Nat
      /\ a.family \in Nat /\ end.family \in Nat
  BY ValidIsAt
<1> DEFINE last == LastWalked(a, end)
           k == Strides(a, end)
           m == k + (IF Passes(a, end) THEN 1 ELSE 0)
           w == [i \in 1..m |-> IF i <= k THEN At(a.family, a.n + i - 1) ELSE Zero]
<1>2. last \in a.n..LastOf[a.family]
  BY <1>1 DEF LastWalked, LessEq
<1>3. k \in Nat \ {0} /\ k = last - a.n + 1
  BY <1>1, <1>2 DEF Strides
<1>4. Stretch(a, end) = w
  BY <1>1, Zenon DEF Stretch
<1>5. m \in Nat /\ m >= k /\ m <= k + 1 /\ (Passes(a, end) => m = k + 1)
  BY <1>3
<1> HIDE DEF last, k, m
<1>6. \A i \in 1..k : a.n + i - 1 \in a.n..last
  BY <1>1, <1>2, <1>3
<1>7. \A i \in 1..k : a.n + i - 1 \in 0..LastOf[a.family]
  BY <1>1, <1>2, <1>6
<1>8. \A i \in 1..m : w[i] \in Addrs
  <2> SUFFICES ASSUME NEW i \in 1..m PROVE w[i] \in Addrs
    OBVIOUS
  <2>1. CASE i <= k
    <3>1. i \in 1..k /\ w[i] = At(a.family, a.n + i - 1)
      BY <2>1, <1>5
    <3> QED
      BY <1>1, <1>7, <3>1, AtIsValid
  <2>2. CASE ~ (i <= k)
    BY <2>2 DEF Addrs
  <2> QED
    BY <2>1, <2>2
<1>9. w \in Seq(Addrs) /\ Len(w) = m
  BY <1>5, <1>8, FunctionIsSeq
<1>10. \A i \in 1..k : w[i] = At(a.family, a.n + i - 1)
  BY <1>5, <1>3
<1>11. m = k + 1 => w[k + 1] = Zero
  BY <1>3
<1> QED
  BY <1>2, <1>3, <1>4, <1>5, <1>6, <1>9, <1>10, <1>11 DEF last, k, m

LEMMA NextOf ==
  ASSUME NEW a \in ValidAddrs
  PROVE  /\ a.n = LastOf[a.family] => NextAddr(a) = Zero
         /\ a.n # LastOf[a.family] => /\ NextAddr(a) = At(a.family, a.n + 1)
                                     /\ NextAddr(a) \in ValidAddrs
                                     /\ NextAddr(a).family = a.family
                                     /\ NextAddr(a).n = a.n + 1
<1>1. /\ a.family \in Families /\ a.n \in 0..LastOf[a.family] /\ LastOf[a.family] \in Nat
      /\ a = At(a.family, a.n)
  BY ValidIsAt
<1>2. CASE a.n = LastOf[a.family]
  BY <1>1, <1>2 DEF NextAddr
<1>3. CASE a.n # LastOf[a.family]
  <2>1. a.n < LastOf[a.family] /\ a.n + 1 \in 0..LastOf[a.family]
    BY <1>1, <1>3
  <2>2. NextAddr(a) = [a EXCEPT !.n = @ + 1]
    BY <1>1, <2>1 DEF NextAddr
  <2>3. NextAddr(a) = At(a.family, a.n + 1)
    BY <1>1, <2>2 DEF At
  <2> QED
    BY <1>1, <1>3, <2>1, <2>3, AtIsValid
<1> QED
  BY <1>2, <1>3

LEMMA StretchAtZero ==
  ASSUME NEW end \in ValidAddrs PROVE Stretch(Zero, end) = <<Zero>> /\ LessEq(Zero, end)
<1>1. LessEq(Zero, end)
  BY ValidIsAt DEF LessEq, Zero, Families
<1> QED
  BY <1>1 DEF Stretch

LEMMA StretchStep ==
  ASSUME NEW a \in ValidAddrs, NEW end \in ValidAddrs, LessEq(a, end)
  PROVE  Stretch(a, end) = <<a>> \o Stretch(NextAddr(a), end)
<1> DEFINE b == NextAddr(a)
           s == Stretch(a, end)
           t == Stretch(b, end)
           k == Strides(a, end)
<1> SUFFICES s = <<a>> \o t
  OBVIOUS
<1>1. /\ a.n \in 0..LastOf[a.family] /\ LastOf[a.family] \in Nat /\ a.n \in Nat
      /\ a = At(a.family, a.n) /\ end.n \in Nat /\ a.family \in Nat /\ end.family \in Nat
      /\ end.n <= LastOf[end.family] /\ LastOf[end.family] \in Nat
  BY ValidIsAt
<1>2. /\ LastWalked(a, end) \in a.n..LastOf[a.family] /\ k \in Nat \ {0}
      /\ k = LastWalked(a, end) - a.n + 1
      /\ s \in Seq(Addrs) /\ Len(s) = k + (IF Passes(a, end) THEN 1 ELSE 0)
      /\ \A i \in 1..k : s[i] = At(a.family, a.n + i - 1)
      /\ Passes(a, end) => s[k + 1] = Zero
  BY StretchFacts DEF Strides
<1>3. s[1] = a
  BY <1>1, <1>2
<1>4. a \in Addrs /\ <<a>> \in Seq(Addrs) /\ Len(<<a>>) = 1 /\ <<a>>[1] = a
  BY DEF Addrs
<1>5. ASSUME t \in Seq(Addrs), Len(s) = 1 + Len(t), \A i \in 1..Len(t) : s[1 + i] = t[i]
      PROVE  s = <<a>> \o t
  <2> HIDE DEF s, t
  <2> DEFINE u == <<a>> \o t
  <2>1. /\ u \in Seq(Addrs) /\ Len(u) = 1 + Len(t)
        /\ \A i \in 1..(1 + Len(t)) : u[i] = IF i <= 1 THEN <<a>>[i] ELSE t[i - 1]
    BY <1>4, <1>5, ConcatProperties
  <2> HIDE DEF u
  <2>2. Len(t) \in Nat
    BY <1>5
  <2>3. \A i \in 1..Len(s) : s[i] = u[i]
    <3> SUFFICES ASSUME NEW i \in 1..Len(s) PROVE s[i] = u[i]
      OBVIOUS
    <3>1. CASE i = 1
      BY <1>3, <1>4, <1>5, <2>1, <2>2, <3>1
    <3>2. CASE i # 1
      <4>1. i - 1 \in 1..Len(t) /\ 1 + (i - 1) = i /\ ~ (i <= 1) /\ i \in 1..(1 + Len(t))
        BY <1>5, <2>2, <3>2
      <4> QED
        BY <1>5, <2>1, <4>1
    <3> QED
      BY <3>1, <3>2
  <2>4. s = u
    BY <1>2, <1>5, <2>1, <2>3, SeqEqual
  <2> QED
    BY <2>4 DEF u
<1>6. CASE a.n = LastOf[a.family]
  <2>0. t = <<Zero>> /\ Zero \in Addrs
    BY <1>6, NextOf, StretchAtZero DEF Addrs
  <2>2. k = 1 /\ Passes(a, end)
    BY <1>1, <1>2, <1>6 DEF Passes
  <2>3. Len(s) = 2 /\ s[2] = Zero
    BY <1>2, <2>2
  <2> HIDE DEF s, t
  <2>1. t \in Seq(Addrs) /\ Len(t) = 1 /\ t[1] = Zero
    BY <2>0
  <2> QED
    BY <1>5, <2>1, <2>3
<1>7. CASE a.n # LastOf[a.family] /\ LessEq(b, end)
  <2>1. b \in ValidAddrs /\ b.family = a.family /\ b.n = a.n + 1
    BY <1>7, NextOf
  <2>2. /\ LastWalked(b, end) = LastWalked(a, end) /\ (Passes(b, end) <=> Passes(a, end))
    BY <2>1 DEF LastWalked, Passes
  <2>3. Strides(b, end) = k - 1
    BY <1>1, <1>2, <2>1, <2>2 DEF Strides
  <2>4. /\ t \in Seq(Addrs) /\ Len(t) = (k - 1) + (IF Passes(a, end) THEN 1 ELSE 0)
        /\ \A i \in 1..(k - 1) : t[i] = At(b.family, b.n + i - 1)
        /\ Passes(a, end) => t[(k - 1) + 1] = Zero
    BY <1>7, <2>1, <2>2, <2>3, StretchFacts
  <2> HIDE DEF s, t, b, k
  <2>5. \A i \in 1..(k - 1) : s[1 + i] = t[i]
    <3> SUFFICES ASSUME NEW i \in 1..(k - 1) PROVE s[1 + i] = t[i]
      OBVIOUS
    <3>0. k \in Nat /\ a.n \in Nat
      BY <1>1, <1>2
    <3>1. 1 + i \in 1..k /\ a.n + (1 + i) - 1 = b.n + i - 1
      BY <2>1, <3>0
    <3> QED
      BY <1>2, <2>1, <2>4, <3>1
  <2>6. Passes(a, end) => s[1 + k] = t[k]
    BY <1>2, <2>4
  <2>7. Len(s) = 1 + Len(t)
    BY <1>2, <2>4
  <2>8. \A i \in 1..Len(t) : i \in 1..(k - 1) \/ (i = k /\ Passes(a, end))
    BY <1>2, <2>4
  <2> QED
    BY <1>5, <2>4, <2>5, <2>6, <2>7, <2>8
<1>8. CASE a.n # LastOf[a.family] /\ ~ LessEq(b, end)
  <2>1. b.family = a.family /\ b.n = a.n + 1 /\ a.n < LastOf[a.family]
    BY <1>1, <1>8, NextOf
  <2>2. a.family = end.family /\ end.n = a.n
    BY <1>1, <1>8, <2>1 DEF LessEq
  <2>3. k = 1 /\ ~ Passes(a, end)
    BY <1>1, <1>2, <2>1, <2>2 DEF Passes, LastWalked
  <2>4. t = <<>> /\ t \in Seq(Addrs) /\ Len(t) = 0
    BY <1>8 DEF Stretch
  <2>5. Len(s) = 1
    BY <1>2, <2>3
  <2> HIDE DEF s, t, b
  <2> QED
    BY <1>5, <2>4, <2>5
<1> QED
  BY <1>6, <1>7, <1>8

\* The recursion comes to the same, whichever address it starts from.
LEMMA WalkIsStretch ==
  ASSUME NEW start \in ValidAddrs, NEW end \in ValidAddrs
  PROVE  Walk(start, end) = Stretch(start, end)
<1> DEFINE body(f, a) == IF ~ LessEq(a, end) THEN <<>>
                         ELSE IF a = Zero THEN <<Zero>>
                         ELSE <<a>> \o f[NextAddr(a)]
           Good(f) == f = [a \in Addrs |-> body(f, a)]
           w == [a \in Addrs |-> Stretch(a, end)]
           from == CHOOSE f : Good(f)
<1>1. \A a \in Addrs : w[a] = body(w, a)
  <2> SUFFICES ASSUME NEW a \in Addrs PROVE w[a] = body(w, a)
    OBVIOUS
  <2>1. CASE ~ LessEq(a, end)
    BY <2>1 DEF Stretch
  <2>2. CASE LessEq(a, end) /\ a = Zero
    BY <2>2, StretchAtZero
  <2>3. CASE LessEq(a, end) /\ a # Zero
    <3>1. a \in ValidAddrs
      BY <2>3 DEF Addrs
    <3>2. NextAddr(a) \in Addrs
      BY <3>1, NextOf DEF Addrs
    <3>3. w[a] = Stretch(a, end) /\ w[NextAddr(a)] = Stretch(NextAddr(a), end)
      BY <3>2
    <3> HIDE DEF w
    <3> QED
      BY <2>3, <3>1, <3>3, StretchStep
  <2> QED
    BY <2>1, <2>2, <2>3
<1>2. Good(w)
  <2>1. w = [a \in Addrs |-> w[a]]
    OBVIOUS
  <2> HIDE DEF w, body
  <2> QED
    BY <1>1, <2>1, Zenon
<1>3. Good(from)
  <2> HIDE DEF Good, w
  <2> QED
    BY <1>2
<1> HIDE DEF from
<1>4. \A a \in Addrs : from[a] = body(from, a)
  <2> HIDE DEF body
  <2> QED
    BY <1>3
<1> HIDE DEF Good
<1> DEFINE S == {k \in Nat : \A a \in ValidAddrs :
                   LastOf[a.family] - a.n = k => from[a] = Stretch(a, end)}
<1>5. from[Zero] = <<Zero>>
  BY <1>4, StretchAtZero DEF Addrs
<1>6. ASSUME NEW a \in ValidAddrs, from[NextAddr(a)] = Stretch(NextAddr(a), end)
      PROVE  from[a] = Stretch(a, end)
  <2>1. a \in Addrs /\ a # Zero
    BY ValidIsAt DEF Addrs
  <2>2. CASE LessEq(a, end)
    BY <1>4, <1>6, <2>1, <2>2, StretchStep
  <2>3. CASE ~ LessEq(a, end)
    BY <1>4, <2>1, <2>3 DEF Stretch
  <2> QED
    BY <2>2, <2>3
<1>7. 0 \in S
  <2> SUFFICES ASSUME NEW a \in ValidAddrs, LastOf[a.family] - a.n = 0
               PROVE  from[a] = Stretch(a, end)
    OBVIOUS
  <2>1. a.n = LastOf[a.family]
    BY ValidIsAt
  <2> QED
    BY <1>5, <1>6, <2>1, NextOf, StretchAtZero
<1>8. ASSUME NEW k \in Nat, k \in S PROVE k + 1 \in S
  <2> SUFFICES ASSUME NEW a \in ValidAddrs, LastOf[a.family] - a.n = k + 1
               PROVE  from[a] = Stretch(a, end)
    OBVIOUS
  <2>1. a.n # LastOf[a.family] /\ a.n \in Nat /\ LastOf[a.family] \in Nat
    BY ValidIsAt
  <2>2. /\ NextAddr(a) \in ValidAddrs
        /\ LastOf[NextAddr(a).family] - NextAddr(a).n = k
    BY <2>1, NextOf
  <2> QED
    BY <1>6, <1>8, <2>2
<1>9. Nat \subseteq S
  <2> HIDE DEF S
  <2> QED
    BY <1>7, <1>8, Induction
<1>10. LastOf[start.family] - start.n \in Nat
  BY ValidIsAt
<1>11. from[start] = Stretch(start, end)
  BY <1>9, <1>10
<1> QED
  BY <1>11, Zenon DEF Walk, from, Good

\* The pool is what the walk comes by before it leaves the family.
LEMMA PoolIsStretch ==
  ASSUME NEW start \in ValidAddrs, NEW end \in ValidAddrs, LessEq(start, end)
  PROVE  /\ \A a \in PoolOf(start, end) : \E i \in 1..Strides(start, end) :
              a = Walk(start, end)[i]
         /\ \A i \in 1..Strides(start, end) :
              /\ Walk(start, end)[i] \in PoolOf(start, end)
              /\ \A j \in i..Strides(start, end) :
                   LessEq(Walk(start, end)[i], Walk(start, end)[j])
              /\ \A j \in 1..Strides(start, end) :
                   Walk(start, end)[i] = Walk(start, end)[j] => i = j
<1> DEFINE f == start.family
           k == Strides(start, end)
           last == LastWalked(start, end)
           w == Walk(start, end)
<1> SUFFICES /\ \A a \in PoolOf(start, end) : \E i \in 1..k : a = w[i]
             /\ \A i \in 1..k : /\ w[i] \in PoolOf(start, end)
                                /\ \A j \in i..k : LessEq(w[i], w[j])
                                /\ \A j \in 1..k : w[i] = w[j] => i = j
  OBVIOUS
<1>1. /\ f \in Families /\ start.n \in Nat /\ LastOf[f] \in Nat /\ f \in Nat
      /\ end.family \in Nat /\ end.n \in Nat
  BY ValidIsAt
<1>2. /\ last \in start.n..LastOf[f] /\ k \in Nat \ {0} /\ k = last - start.n + 1
      /\ \A i \in 1..k : w[i] = At(f, start.n + i - 1)
  BY StretchFacts, WalkIsStretch DEF Strides
<1>3. f < end.family \/ (f = end.family /\ last = end.n)
  BY <1>1 DEF LessEq, LastWalked
<1> HIDE DEF f, k, w
<1>4. \A i \in 1..k : start.n + i - 1 \in 0..LastOf[f] /\ start.n + i - 1 >= start.n
                     /\ start.n + i - 1 <= last
  BY <1>1, <1>2
<1>5. \A i \in 1..k : /\ w[i] \in ValidAddrs /\ w[i].family = f
                     /\ w[i].n = start.n + i - 1
  BY <1>1, <1>2, <1>4, AtIsValid
<1>6. \A a \in PoolOf(start, end) : \E i \in 1..k : a = w[i]
  <2> SUFFICES ASSUME NEW a \in PoolOf(start, end) PROVE \E i \in 1..k : a = w[i]
    OBVIOUS
  <2>1. a \in ValidAddrs /\ a.family = f /\ LessEq(start, a) /\ LessEq(a, end)
    BY DEF PoolOf, f
  <2>2. a = At(f, a.n) /\ a.n \in Nat /\ a.n <= LastOf[f]
    BY <2>1, ValidIsAt
  <2>3. start.n <= a.n
    BY <1>1, <2>1 DEF LessEq, f
  <2>4. a.n <= last
    BY <1>1, <1>3, <2>1, <2>2 DEF LessEq, LastWalked, f
  <2> DEFINE i == a.n - start.n + 1
  <2>5. i \in 1..k /\ start.n + i - 1 = a.n
    BY <1>1, <1>2, <2>2, <2>3, <2>4
  <2> HIDE DEF i
  <2> QED
    BY <1>2, <2>2, <2>5
<1>7. \A i \in 1..k : w[i] \in PoolOf(start, end)
  <2> SUFFICES ASSUME NEW i \in 1..k PROVE w[i] \in PoolOf(start, end)
    OBVIOUS
  <2>1. /\ w[i] \in ValidAddrs /\ w[i].family = start.family
        /\ LessEq(start, w[i]) /\ LessEq(w[i], end)
    BY <1>1, <1>3, <1>4, <1>5 DEF LessEq, f
  <2> QED
    BY <2>1 DEF PoolOf
<1>8. ASSUME NEW i \in 1..k, NEW j \in i..k PROVE LessEq(w[i], w[j])
  <2>1. j \in 1..k /\ i <= j
    BY <1>2
  <2> QED
    BY <1>1, <1>5, <2>1 DEF LessEq
<1>9. ASSUME NEW i \in 1..k, NEW j \in 1..k, w[i] = w[j] PROVE i = j
  <2>1. start.n + i - 1 = start.n + j - 1
    BY <1>5, <1>9
  <2> QED
    BY <1>1, <1>2, <2>1
<1> QED
  BY <1>6, <1>7, <1>8, <1>9

LEMMA WalkFacts ==
  ASSUME NEW start \in ValidAddrs, NEW end \in ValidAddrs, LessEq(start, end)
  PROVE  /\ Walk(start, end) \in Seq(Addrs) /\ Strides(start, end) \in Nat \ {0}
         /\ EndsProperly(start, end) =>
              /\ Len(Walk(start, end)) = Strides(start, end)
              /\ ~ Endless(start, end)
         /\ ~ EndsProperly(start, end) =>
              /\ Len(Walk(start, end)) = Strides(start, end) + 1
              /\ Walk(start, end)[Strides(start, end) + 1] = Zero
              /\ Endless(start, end)
<1> DEFINE k == Strides(start, end)
           w == Walk(start, end)
<1>1. EndsProperly(start, end) <=> ~ Passes(start, end)
  BY ValidIsAt DEF EndsProperly, Passes, LastWalked
<1>2. /\ w \in Seq(Addrs) /\ k \in Nat \ {0}
      /\ Passes(start, end) => Len(w) = k + 1 /\ w[k + 1] = Zero
      /\ ~ Passes(start, end) => Len(w) = k
  BY StretchFacts, WalkIsStretch
<1>3. \A i \in 1..k : w[i] # Zero
  BY PoolIsStretch, ValidIsAt DEF PoolOf
<1> HIDE DEF k, w
<1>4. Passes(start, end) => \E i \in 1..Len(w) : w[i] = Zero
  BY <1>2
<1>5. Endless(start, end) <=> \E i \in 1..Len(w) : w[i] = Zero
  BY DEF Endless, Contains, w
<1> QED
  BY <1>1, <1>2, <1>3, <1>4, <1>5 DEF k, w

\* For pools and buckets of every size.
LEMMA AcquireTakesLeastFree ==
  ASSUME NEW start \in ValidAddrs, NEW end \in ValidAddrs, LessEq(start, end),
         NEW bucket \in SUBSET Addrs
  PROVE  TakesLeastFree(start, end, bucket, AcquireOf(start, end, bucket))
<1> DEFINE k == Strides(start, end)
           w == Walk(start, end)
           pool == PoolOf(start, end)
           free == FreeOf(start, end, bucket)
           r == AcquireOf(start, end, bucket)
<1>1. /\ w \in Seq(Addrs) /\ k \in Nat \ {0}
      /\ EndsProperly(start, end) => Len(w) = k /\ ~ Endless(start, end)
      /\ ~ EndsProperly(start, end) => Len(w) = k + 1 /\ w[k + 1] = Zero /\ Endless(start, end)
  BY WalkFacts
<1>2. /\ \A a \in pool : \E i \in 1..k : a = w[i]
      /\ \A i \in 1..k : w[i] \in pool /\ \A j \in i..k : LessEq(w[i], w[j])
  BY PoolIsStretch
<1>3. PICK e : free \in Seq(Addrs) /\ Picks(e, free, w, Addrs \ bucket, Len(w))
  BY <1>1, SelectedPicks DEF FreeOf
<1>4. /\ free # <<>> => r.answer = "address" /\ r.got = Head(free)
      /\ free = <<>> => r.answer = IF Endless(start, end) THEN "none" ELSE "exhausted"
  BY DEF AcquireOf
<1> HIDE DEF k, w, pool, free, r
<1>5. \A i \in 1..Len(w) : w[i] \in Addrs
  BY <1>1
\* The first that is kept is the first that is free.
<1>6. ASSUME NEW i \in 1..Len(w), w[i] \notin bucket
      PROVE  /\ free # <<>> /\ e[1] \in 1..i /\ Head(free) = w[e[1]] /\ w[e[1]] \notin bucket
  <2>1. PICK j \in 1..Len(free) : e[j] = i
    BY <1>3, <1>5, <1>6 DEF Picks
  <2>2. Len(free) \in Nat /\ 1 \in 1..Len(free) /\ free # <<>> /\ Head(free) = free[1]
    BY <1>3, <2>1
  <2>3. e[1] \in 1..Len(w) /\ free[1] = w[e[1]] /\ free[1] \notin bucket
    BY <1>3, <2>2 DEF Picks
  <2>4. e[1] <= e[j]
    BY <1>3, <2>1, <2>2, <2>3 DEF Picks
  <2> QED
    BY <2>1, <2>2, <2>3, <2>4
<1>7. ASSUME \A i \in 1..Len(w) : w[i] \in bucket PROVE free = <<>>
  <2>1. \A j \in 1..Len(free) : FALSE
    BY <1>3, <1>7 DEF Picks
  <2> QED
    BY <1>3, <2>1
<1>8. CASE pool \ bucket # {}
  <2>1. PICK b \in pool \ bucket : TRUE
    BY <1>8
  <2>2. PICK m \in 1..k : b = w[m]
    BY <1>2, <2>1
  <2>3. \A i \in 1..k : i \in 1..Len(w)
    BY <1>1
  <2>4. free # <<>> /\ e[1] \in 1..m /\ Head(free) = w[e[1]] /\ w[e[1]] \notin bucket
    BY <1>6, <2>1, <2>2, <2>3
  <2>5. r.answer = "address" /\ r.got = w[e[1]] /\ e[1] \in 1..k /\ r.got \in pool \ bucket
    BY <1>1, <1>2, <1>4, <2>4
  <2>6. ASSUME NEW a \in pool \ bucket PROVE LessEq(r.got, a)
    <3>1. PICK i \in 1..k : a = w[i]
      BY <1>2, <2>6
    <3>2. e[1] \in 1..i
      BY <1>6, <2>3, <2>6, <3>1
    <3>3. i \in e[1]..k
      BY <1>1, <3>1, <3>2
    <3> QED
      BY <1>2, <2>5, <3>1, <3>3
  <2> QED
    BY <1>8, <2>5, <2>6 DEF TakesLeastFree, pool, r
<1>9. CASE pool \ bucket = {}
  <2>1. \A i \in 1..k : w[i] \in bucket
    BY <1>2, <1>9
  <2>2. CASE EndsProperly(start, end)
    <3>1. free = <<>>
      BY <1>1, <1>7, <2>1, <2>2
    <3> QED
      BY <1>1, <1>4, <1>9, <2>2, <3>1 DEF TakesLeastFree, pool, r
  <2>3. CASE ~ EndsProperly(start, end)
    BY <1>9, <2>3 DEF TakesLeastFree, pool, r
  <2> QED
    BY <2>2, <2>3
<1> QED
  BY <1>8, <1>9

\* Acquire takes the least free address as long as there is one, and answers
\* ErrPoolExhausted of a pool whose walk ends, for pools and buckets of every
\* size.
THEOREM LeastFreeIsTaken == FunctionsSpec => []WalkTakesLeastFree
<1>1. call \in Inputs /\ ValueReturned => WalkTakesLeastFree
  <2> SUFFICES ASSUME call \in Inputs, ValueReturned, Returned("walk")
               PROVE  TakesLeastFree(call.start, call.end, call.bucket, result[1])
    BY DEF WalkTakesLeastFree
  <2>1. call \in WalkCalls /\ result[1] = AcquireOf(call.start, call.end, call.bucket)
    BY KindsOfInput DEF Returned, ValueReturned
  <2>2. /\ call.start \in ValidAddrs /\ call.end \in ValidAddrs
        /\ call.bucket \in SUBSET Addrs /\ LessEq(call.start, call.end)
    BY <2>1 DEF WalkCalls, Accepts
  <2> QED
    BY <2>1, <2>2, AcquireTakesLeastFree
<1> QED
  BY <1>1, CallsReturnValues, PTL

\* A list of the elements of T, each once, is as long as T is large.
LEMMA CountedBy ==
  ASSUME NEW n \in Nat, NEW T, NEW w,
         \A i \in 1..n : w[i] \in T,
         \A i, j \in 1..n : w[i] = w[j] => i = j,
         \A x \in T : \E i \in 1..n : x = w[i]
  PROVE  IsFiniteSet(T) /\ Cardinality(T) = n
<1> DEFINE g == [i \in 1..n |-> w[i]]
<1>1. g \in [1..n -> T] /\ \A i \in 1..n : g[i] = w[i]
  OBVIOUS
<1> HIDE DEF g
<1>2. g \in Bijection(1..n, T)
  BY <1>1 DEF Bijection, Injection, Surjection, IsInjective
<1>3. ExistsBijection(1..n, T)
  BY <1>2 DEF ExistsBijection
<1>4. IsFiniteSet(1..n) /\ Cardinality(1..n) = n
  <2>1. 1 \in Int /\ n \in Int /\ (1 > n => n = 0)
    OBVIOUS
  <2> QED
    BY <2>1, FS_Interval
<1> QED
  BY <1>3, <1>4, FS_Bijection

\* GET /v1/pool, for pools and buckets of every size.
LEMMA PoolCountsAddUp ==
  ASSUME NEW start \in ValidAddrs, NEW end \in ValidAddrs, LessEq(start, end),
         NEW bucket \in SUBSET Addrs
  PROVE  AddsUp(start, end, bucket, AcquireOf(start, end, bucket))
<1> SUFFICES ASSUME EndsProperly(start, end)
             PROVE  AddsUp(start, end, bucket, AcquireOf(start, end, bucket))
  BY DEF AddsUp
<1> DEFINE k == Strides(start, end)
           w == Walk(start, end)
           pool == PoolOf(start, end)
           free == FreeOf(start, end, bucket)
           r == AcquireOf(start, end, bucket)
<1>1. w \in Seq(Addrs) /\ k \in Nat /\ Len(w) = k
  BY WalkFacts
<1>2. /\ \A a \in pool : \E i \in 1..k : a = w[i]
      /\ \A i \in 1..k : w[i] \in pool
      /\ \A i, j \in 1..k : w[i] = w[j] => i = j
  BY PoolIsStretch
<1>3. TotalOf(start, end) = k
  BY <1>1 DEF TotalOf
<1>4. TakesLeastFree(start, end, bucket, r)
  BY AcquireTakesLeastFree
<1>5. PICK e : free \in Seq(Addrs) /\ Picks(e, free, w, Addrs \ bucket, Len(w))
  BY <1>1, SelectedPicks DEF FreeOf
<1>6. ToSet(free) = ToSet(w) \cap (Addrs \ bucket)
  BY <1>1, ElementsOfSelected DEF FreeOf
<1> HIDE DEF k, w, free, r
<1>7. IsFiniteSet(pool) /\ Cardinality(pool) = k
  <2> HIDE DEF pool
  <2> QED
    BY <1>1, <1>2, CountedBy, ZenonT(30)
<1>8. ToSet(free) = pool \ bucket
  <2> HIDE DEF pool
  <2>1. DOMAIN w = 1..k
    BY <1>1
  <2>2. ToSet(w) = pool
    BY <1>2, <2>1 DEF ToSet
  <2>3. \A a \in pool : a \in Addrs
    BY <1>1, <1>2
  <2> QED
    BY <1>6, <2>2, <2>3
<1>9. Len(free) = Cardinality(pool \ bucket)
  <2> HIDE DEF pool
  <2>1. Len(free) \in Nat /\ DOMAIN free = 1..Len(free)
    BY <1>5
  <2>2. \A j \in 1..Len(free) : free[j] \in pool \ bucket
    BY <1>8, <2>1 DEF ToSet
  <2>3. \A x \in pool \ bucket : \E j \in 1..Len(free) : x = free[j]
    BY <1>8, <2>1 DEF ToSet
  <2>4. \A j \in 1..Len(free) : e[j] \in 1..k /\ free[j] = w[e[j]]
    BY <1>1, <1>5 DEF Picks
  <2>5. ASSUME NEW i \in 1..Len(free), NEW j \in 1..Len(free), free[i] = free[j]
        PROVE  i = j
    <3>1. e[i] = e[j] /\ e[i] \in Int
      BY <1>2, <2>4, <2>5
    <3>2. ~ (e[i] < e[j]) /\ ~ (e[j] < e[i])
      BY <3>1
    <3>3. ~ (i < j) /\ ~ (j < i)
      BY <1>5, <3>2 DEF Picks
    <3> QED
      BY <2>1, <3>3
  <2> QED
    BY <2>1, <2>2, <2>3, <2>5, CountedBy
<1>10. Len(free) + Cardinality(pool \cap bucket) = k
  <2> HIDE DEF pool
  <2>1. Cardinality(pool \ bucket) = Cardinality(pool) - Cardinality(pool \cap bucket)
    BY <1>7, FS_Difference
  <2>2. IsFiniteSet(pool \cap bucket)
    BY <1>7, FS_Intersection
  <2>3. Cardinality(pool \cap bucket) \in Nat
    BY <2>2, FS_CardinalityType
  <2> QED
    BY <1>1, <1>7, <1>9, <2>1, <2>3
<1>11. r.answer = "address" => ReleaseOf(start, end, bucket \cup {r.got}, r.got) = bucket
  <2> SUFFICES ASSUME r.answer = "address"
               PROVE  ReleaseOf(start, end, bucket \cup {r.got}, r.got) = bucket
    OBVIOUS
  <2>1. r.got \in pool \ bucket
    BY <1>4 DEF TakesLeastFree
  <2>2. LessEq(start, r.got) /\ LessEq(r.got, end) /\ r.got \notin bucket
    BY <2>1 DEF PoolOf
  <2>3. ReleaseOf(start, end, bucket \cup {r.got}, r.got) = (bucket \cup {r.got}) \ {r.got}
    BY <2>2 DEF ReleaseOf
  <2> QED
    BY <2>2, <2>3
<1>12. ASSUME NEW a \in ValidAddrs
       PROVE  ReleaseOf(start, end, bucket, a) = bucket \ ({a} \cap pool)
  <2>1. a \in pool <=> LessEq(start, a) /\ LessEq(a, end)
    BY DEF PoolOf, EndsProperly, LessEq, ValidAddrs, Families
  <2> HIDE DEF pool
  <2> QED
    BY <2>1 DEF ReleaseOf
<1> QED
  BY <1>3, <1>7, <1>8, <1>10, <1>11, <1>12 DEF AddsUp, free, r, pool

\* The numbers of GET /v1/pool make up the pool, and what was acquired can be
\* released, for pools and buckets of every size.
THEOREM PoolsAddUp == FunctionsSpec => []PoolAddsUp
<1>1. call \in Inputs /\ ValueReturned => PoolAddsUp
  <2> SUFFICES ASSUME call \in Inputs, ValueReturned, Returned("walk")
               PROVE  AddsUp(call.start, call.end, call.bucket, result[1])
    BY DEF PoolAddsUp
  <2>1. call \in WalkCalls /\ result[1] = AcquireOf(call.start, call.end, call.bucket)
    BY KindsOfInput DEF Returned, ValueReturned
  <2>2. /\ call.start \in ValidAddrs /\ call.end \in ValidAddrs
        /\ call.bucket \in SUBSET Addrs /\ LessEq(call.start, call.end)
    BY <2>1 DEF WalkCalls, Accepts
  <2> QED
    BY <2>1, <2>2, PoolCountsAddUp
<1> QED
  BY <1>1, CallsReturnValues, PTL

-----------------------------------------------------------------------------
(* The .vmx of the clone.                                                  *)

Lines == [key : VmxKeys, of : {"gold", "clone"}, nls : Nat]

\* A .vmx: lines, of which all but the last end.
Texts == {t \in Seq(Lines) : t # <<>> /\ \A i \in 1..Len(t) : i < Len(t) => t[i].nls > 0}

LEMMA KeysAreApart ==
  /\ ToSet(NamedKeys) = {NamedKeys[1], NamedKeys[2], NamedKeys[3]}
  /\ \A k \in ToSet(NamedKeys) : k \in VmxKeys /\ k \notin IdentityKeys /\ k # "other"
  /\ \A k \in IdentityKeys : k # "other"
<1>1. DOMAIN NamedKeys = 1..3
  BY DEF NamedKeys
<1>2. \A i \in 1..3 : i = 1 \/ i = 2 \/ i = 3
  OBVIOUS
<1>3. ToSet(NamedKeys) = {NamedKeys[1], NamedKeys[2], NamedKeys[3]}
  BY <1>1, <1>2 DEF ToSet
<1>4. /\ NamedKeys[1] = "displayName" /\ NamedKeys[2] = "nvram"
      /\ NamedKeys[3] = "scsi0:0.fileName"
  BY DEF NamedKeys
<1> QED
  BY <1>3, <1>4 DEF VmxKeys, IdentityKeys

LEMMA PatchKeyFacts ==
  ASSUME NEW t \in Texts, NEW key \in ToSet(NamedKeys)
  PROVE  LET u == PatchKey(t, key)
         IN  /\ u \in Texts
             /\ HasKey(t, key) => Len(u) = Len(t)
             /\ ~ HasKey(t, key) => Len(u) = Len(t) + 1 /\ u[Len(u)] = NewLine(key, 1)
             /\ \A i \in 1..Len(t) :
                  /\ u[i].key = t[i].key
                  /\ t[i].key = key => u[i].of = "clone"
                  /\ t[i].key # key => u[i].of = t[i].of
                  /\ t[i].key # key /\ HasKey(t, key) => u[i] = t[i]
<1>1. /\ t \in Seq(Lines) /\ t # <<>> /\ DOMAIN t = 1..Len(t) /\ Len(t) \in Nat \ {0}
      /\ \A i \in 1..Len(t) : i < Len(t) => t[i].nls > 0
      /\ \A i \in 1..Len(t) : /\ t[i] \in Lines /\ t[i].key \in VmxKeys
                             /\ t[i].of \in {"gold", "clone"} /\ t[i].nls \in Nat
  <2>1. /\ t \in Seq(Lines) /\ t # <<>> /\ Len(t) \in Nat
        /\ \A i \in 1..Len(t) : i < Len(t) => t[i].nls > 0
    BY DEF Texts
  <2>2. DOMAIN t = 1..Len(t) /\ Len(t) # 0 /\ \A i \in 1..Len(t) : t[i] \in Lines
    BY <2>1
  <2> QED
    BY <2>1, <2>2 DEF Lines
<1>2. \A n \in {0, 1} : /\ NewLine(key, n) \in Lines /\ NewLine(key, n).key = key
                        /\ NewLine(key, n).of = "clone" /\ NewLine(key, n).nls = n
  BY KeysAreApart DEF NewLine, Lines
<1>3. CASE HasKey(t, key)
  <2> DEFINE u == ReplaceKey(t, key)
  <2>1. PatchKey(t, key) = u
    BY <1>3 DEF PatchKey
  <2>2. /\ DOMAIN u = 1..Len(t)
        /\ \A i \in 1..Len(t) :
             \/ t[i].key # key /\ u[i] = t[i]
             \/ t[i].key = key /\ i = Len(t) /\ u[i] = NewLine(key, 0)
             \/ t[i].key = key /\ i # Len(t) /\ u[i] = NewLine(key, 1)
    BY <1>1 DEF ReplaceKey
  <2>3. \A i \in 1..Len(t) : u[i] \in Lines
    BY <1>1, <1>2, <2>2
  <2>4. u = [i \in 1..Len(t) |-> u[i]]
    BY <1>1 DEF ReplaceKey
  <2> HIDE DEF u
  <2>5. u \in [1..Len(t) -> Lines]
    BY <2>3, <2>4
  <2>6. u \in Seq(Lines) /\ Len(u) = Len(t)
    BY <1>1, <2>5, FunctionIsSeq
  <2>7. \A i \in 1..Len(t) : i < Len(t) => u[i].nls > 0
    <3> SUFFICES ASSUME NEW i \in 1..Len(t), i < Len(t) PROVE u[i].nls > 0
      OBVIOUS
    <3>1. NewLine(key, 1).nls > 0
      BY <1>2
    <3>2. t[i].nls > 0
      BY <1>1, Zenon
    <3>3. Len(t) \in Nat
      BY <1>1
    <3>4. i # Len(t)
      BY <3>3
    <3>5. u[i] = t[i] \/ u[i] = NewLine(key, 1)
      BY <2>2, <3>4, Zenon
    <3> QED
      BY <3>1, <3>2, <3>5
  <2>8. u \in Texts
    BY <1>1, <2>6, <2>7 DEF Texts
  <2> QED
    BY <1>2, <1>3, <2>1, <2>2, <2>6, <2>8
<1>4. CASE ~ HasKey(t, key)
  <2> DEFINE v == [i \in DOMAIN t |->
                     IF i < Len(t) THEN t[i] ELSE [t[i] EXCEPT !.nls = 1]]
             u == Append(v, NewLine(key, 1))
  <2>1. PatchKey(t, key) = u
    BY <1>4 DEF PatchKey, AppendKey
  <2>2. \A i \in 1..Len(t) : /\ v[i] \in Lines /\ v[i].key = t[i].key /\ v[i].of = t[i].of
                            /\ v[i].nls > 0
    BY <1>1 DEF Lines
  <2>3. v \in [1..Len(t) -> Lines]
    BY <1>1, <2>2
  <2> HIDE DEF v
  <2>4. v \in Seq(Lines) /\ Len(v) = Len(t)
    BY <1>1, <2>3, FunctionIsSeq
  <2>5. /\ u \in Seq(Lines) /\ u # <<>> /\ Len(u) = Len(t) + 1
        /\ \A i \in 1..Len(t) : u[i] = v[i]
        /\ u[Len(t) + 1] = NewLine(key, 1)
    BY <1>2, <2>4, AppendProperties
  <2> HIDE DEF u
  <2>6. \A i \in 1..Len(u) : i < Len(u) => i \in 1..Len(t)
    BY <1>1, <2>5
  <2>7. u \in Texts
    BY <2>2, <2>5, <2>6 DEF Texts
  <2>8. \A i \in 1..Len(t) : t[i].key # key
    BY <1>1, <1>4 DEF HasKey
  <2> QED
    BY <1>4, <2>1, <2>2, <2>5, <2>7, <2>8
<1> QED
  BY <1>3, <1>4

\* The text before the identity is stripped.
Rewritten(t) ==
  PatchKey(PatchKey(PatchKey(t, NamedKeys[1]), NamedKeys[2]), NamedKeys[3])

\* What one more key does to a text of which some keys are rewritten.
Extends(t, u, keys) ==
  /\ t \in Texts /\ u \in Texts /\ Len(t) \in Nat /\ Len(u) \in Nat /\ Len(u) >= Len(t)
  /\ \A k \in keys : HasKey(u, k)
  /\ \A i \in 1..Len(t) : u[i].key = t[i].key
  /\ \A i \in 1..Len(u) : u[i].key \in keys => u[i].of = "clone"
  /\ \A i \in 1..Len(t) : t[i].key \notin keys => u[i].of = t[i].of
  /\ \A i \in (Len(t) + 1)..Len(u) : u[i].key \in keys
  /\ (\A k \in keys : HasKey(t, k)) =>
       /\ Len(u) = Len(t)
       /\ \A i \in 1..Len(t) : t[i].key \notin keys => u[i] = t[i]

LEMMA OneMoreKey ==
  ASSUME NEW t, NEW u, NEW keys, Extends(t, u, keys), NEW key \in ToSet(NamedKeys)
  PROVE  Extends(t, PatchKey(u, key), keys \cup {key})
<1> DEFINE v == PatchKey(u, key)
<1>1. /\ t \in Texts /\ u \in Texts /\ Len(t) \in Nat /\ Len(u) \in Nat /\ Len(u) >= Len(t)
      /\ \A k \in keys : HasKey(u, k)
      /\ \A i \in 1..Len(t) : u[i].key = t[i].key
      /\ \A i \in 1..Len(u) : u[i].key \in keys => u[i].of = "clone"
      /\ \A i \in 1..Len(t) : t[i].key \notin keys => u[i].of = t[i].of
      /\ \A i \in (Len(t) + 1)..Len(u) : u[i].key \in keys
      /\ (\A k \in keys : HasKey(t, k)) =>
           /\ Len(u) = Len(t)
           /\ \A i \in 1..Len(t) : t[i].key \notin keys => u[i] = t[i]
  BY DEF Extends
<1>2. /\ v \in Texts
      /\ HasKey(u, key) => Len(v) = Len(u)
      /\ ~ HasKey(u, key) => Len(v) = Len(u) + 1 /\ v[Len(v)] = NewLine(key, 1)
      /\ \A i \in 1..Len(u) :
           /\ v[i].key = u[i].key
           /\ u[i].key = key => v[i].of = "clone"
           /\ u[i].key # key => v[i].of = u[i].of
           /\ u[i].key # key /\ HasKey(u, key) => v[i] = u[i]
  BY <1>1, PatchKeyFacts
<1>3. /\ DOMAIN t = 1..Len(t) /\ DOMAIN u = 1..Len(u) /\ DOMAIN v = 1..Len(v)
      /\ Len(v) \in Nat
  BY <1>1, <1>2 DEF Texts
<1> HIDE DEF v
<1>4. /\ Len(t) \in Nat /\ Len(u) \in Nat /\ Len(v) \in Nat
      /\ Len(u) >= Len(t) /\ Len(v) >= Len(u) /\ Len(v) >= Len(t)
  <2>1. Len(t) \in Nat /\ Len(u) \in Nat /\ Len(u) >= Len(t)
    BY <1>1
  <2>2. Len(v) = Len(u) \/ Len(v) = Len(u) + 1
    BY <1>2
  <2> QED
    BY <2>1, <2>2
\* A line of v is one of u, or the new one.
<1>5. ASSUME NEW i \in 1..Len(v)
      PROVE  \/ i \in 1..Len(u)
             \/ /\ i = Len(u) + 1 /\ ~ HasKey(u, key)
                /\ v[i].key = key /\ v[i].of = "clone"
  <2>1. CASE HasKey(u, key)
    BY <1>2, <2>1
  <2>2. CASE ~ HasKey(u, key)
    <3>1. NewLine(key, 1).key = key /\ NewLine(key, 1).of = "clone"
      BY DEF NewLine
    <3>2. Len(v) = Len(u) + 1 /\ v[Len(v)] = NewLine(key, 1)
      BY <1>2, <2>2
    <3>3. i \in 1..Len(u) \/ i = Len(u) + 1
      BY <1>1, <3>2
    <3> QED
      BY <2>2, <3>1, <3>2, <3>3
  <2> QED
    BY <2>1, <2>2
<1>6. ASSUME NEW k \in keys \cup {key} PROVE HasKey(v, k)
  <2>1. CASE HasKey(u, k)
    <3>1. PICK i \in 1..Len(u) : u[i].key = k
      BY <1>3, <2>1 DEF HasKey
    <3>2. i \in 1..Len(v)
      BY <1>4
    <3>3. v[i].key = k
      BY <1>2, <3>1
    <3> QED
      BY <1>3, <3>2, <3>3 DEF HasKey
  <2>2. CASE ~ HasKey(u, k)
    <3>1. k = key
      BY <1>1, <2>2
    <3>0. NewLine(key, 1).key = key
      BY DEF NewLine
    <3>2. Len(v) = Len(u) + 1 /\ v[Len(v)].key = key
      BY <1>2, <2>2, <3>0, <3>1
    <3>3. Len(v) \in DOMAIN v
      <4>1. Len(v) \in 1..Len(v)
        BY <1>4, <3>2
      <4> QED
        BY <1>3, <4>1
    <3> QED
      BY <3>1, <3>2, <3>3 DEF HasKey
  <2> QED
    BY <2>1, <2>2
<1>7. \A i \in 1..Len(t) : i \in 1..Len(u)
  BY <1>1
<1>8. \A i \in 1..Len(t) : v[i].key = t[i].key
  BY <1>1, <1>2, <1>7
<1>9. \A i \in 1..Len(v) : v[i].key \in keys \cup {key} => v[i].of = "clone"
  BY <1>1, <1>2, <1>5
<1>10. \A i \in 1..Len(t) : t[i].key \notin keys \cup {key} => v[i].of = t[i].of
  BY <1>1, <1>2, <1>7
<1>11. \A i \in (Len(t) + 1)..Len(v) : v[i].key \in keys \cup {key}
  <2> SUFFICES ASSUME NEW i \in (Len(t) + 1)..Len(v) PROVE v[i].key \in keys \cup {key}
    OBVIOUS
  <2>1. i \in 1..Len(v)
    BY <1>4
  <2>2. i \in 1..Len(u) => i \in (Len(t) + 1)..Len(u)
    BY <1>4
  <2> QED
    BY <1>1, <1>2, <1>5, <2>1, <2>2
<1>12. ASSUME \A k \in keys \cup {key} : HasKey(t, k)
       PROVE  /\ Len(v) = Len(t)
              /\ \A i \in 1..Len(t) : t[i].key \notin keys \cup {key} => v[i] = t[i]
  <2>1. Len(u) = Len(t) /\ \A i \in 1..Len(t) : t[i].key \notin keys => u[i] = t[i]
    BY <1>1, <1>12
  <2>2. PICK i \in 1..Len(t) : t[i].key = key
    BY <1>3, <1>12 DEF HasKey
  <2>3. HasKey(u, key)
    BY <1>1, <1>3, <1>7, <2>2 DEF HasKey
  <2>4. Len(v) = Len(t)
    BY <1>2, <2>1, <2>3
  <2>5. \A j \in 1..Len(t) : t[j].key \notin keys \cup {key} => v[j] = t[j]
    BY <1>1, <1>2, <1>7, <2>1, <2>3
  <2> QED
    BY <2>4, <2>5
<1>13. Extends(t, v, keys \cup {key})
  BY <1>1, <1>2, <1>3, <1>4, <1>6, <1>8, <1>9, <1>10, <1>11, <1>12 DEF Extends
<1> QED
  BY <1>13 DEF v

LEMMA RewrittenExtends ==
  ASSUME NEW t \in Texts
  PROVE  Extends(t, Rewritten(t), ToSet(NamedKeys))
<1> DEFINE k1 == NamedKeys[1]
           k2 == NamedKeys[2]
           k3 == NamedKeys[3]
           u == PatchKey(t, k1)
           v == PatchKey(u, k2)
<1>1. k1 \in ToSet(NamedKeys) /\ k2 \in ToSet(NamedKeys) /\ k3 \in ToSet(NamedKeys)
  BY KeysAreApart
<1>2. Extends(t, t, {})
  BY DEF Extends, Texts
<1>3. Extends(t, u, {} \cup {k1})
  BY <1>1, <1>2, OneMoreKey
<1>4. Extends(t, v, ({} \cup {k1}) \cup {k2})
  BY <1>1, <1>3, OneMoreKey
<1>5. Extends(t, Rewritten(t), (({} \cup {k1}) \cup {k2}) \cup {k3})
  BY <1>1, <1>4, OneMoreKey DEF Rewritten
<1>6. (({} \cup {k1}) \cup {k2}) \cup {k3} = ToSet(NamedKeys)
  BY KeysAreApart
<1> QED
  BY <1>5, <1>6

\* new is p without its lines that identify and end: e[j] is the place in p of
\* line j of new, and the last line of p is not taken by an earlier line of new.
StripsBy(e, p, new) ==
  /\ Increasing(e, Len(new))
  /\ \A j \in 1..Len(new) :
       /\ e[j] \in 1..Len(p) /\ new[j] = p[e[j]]
       /\ ~ (new[j].key \in IdentityKeys /\ new[j].nls > 0)
       /\ j < Len(new) => e[j] < Len(p)
  /\ \A i \in 1..Len(p) :
       ~ (p[i].key \in IdentityKeys /\ p[i].nls > 0) => \E j \in 1..Len(new) : e[j] = i

\* What Patch keeps of the rewritten text, and where each line was.
LEMMA PatchedFrom ==
  ASSUME NEW t \in Texts
  PROVE  LET p   == Rewritten(t)
             new == Patch(t)
         IN  /\ Extends(t, p, ToSet(NamedKeys))
             /\ new \in Texts
             /\ \E e : StripsBy(e, p, new)
             /\ \A k \in ToSet(NamedKeys) : HasKey(new, k)
<1> DEFINE p == Rewritten(t)
           new == Patch(t)
           keep == {l \in ToSet(p) : ~ (l.key \in IdentityKeys /\ l.nls > 0)}
<1>1. Extends(t, p, ToSet(NamedKeys))
  BY RewrittenExtends
<1>2. /\ p \in Texts /\ p \in Seq(Lines) /\ Len(p) \in Nat /\ DOMAIN p = 1..Len(p)
      /\ \A i \in 1..Len(p) : i < Len(p) => p[i].nls > 0
      /\ \A k \in ToSet(NamedKeys) : HasKey(p, k)
  BY <1>1 DEF Extends, Texts
<1>3. new = Selected(p, keep)
  BY DEF Patch, StripIdentity, Rewritten
<1> HIDE DEF p
<1>4. PICK e : new \in Seq(Lines) /\ Picks(e, new, p, keep, Len(p))
  BY <1>2, <1>3, SelectedPicks
<1>5. \A i \in 1..Len(p) : p[i] \in keep <=> ~ (p[i].key \in IdentityKeys /\ p[i].nls > 0)
  BY <1>2 DEF ToSet
<1> HIDE DEF new, keep
<1>6. Len(new) \in Nat /\ DOMAIN new = 1..Len(new)
  BY <1>4
<1>7. /\ \A j \in 1..Len(new) : e[j] \in 1..Len(p) /\ new[j] = p[e[j]] /\ new[j] \in keep
      /\ \A j, k \in 1..Len(new) : j < k => e[j] < e[k]
      /\ \A i \in 1..Len(p) : p[i] \in keep => \E j \in 1..Len(new) : e[j] = i
  BY <1>4 DEF Picks
<1>8. Increasing(e, Len(new))
  BY <1>2, <1>7 DEF Increasing
<1>9. ASSUME NEW j \in 1..Len(new), j < Len(new) PROVE e[j] < Len(p)
  <2>1. Len(new) \in 1..Len(new)
    BY <1>6
  <2>2. e[j] < e[Len(new)] /\ e[Len(new)] \in 1..Len(p) /\ e[j] \in 1..Len(p)
    BY <1>7, <1>9, <2>1
  <2> QED
    BY <1>2, <2>2
<1>10. \A j \in 1..Len(new) : ~ (new[j].key \in IdentityKeys /\ new[j].nls > 0)
  BY <1>5, <1>7
<1>11. ASSUME NEW k \in ToSet(NamedKeys) PROVE HasKey(new, k)
  <2>1. PICK i \in 1..Len(p) : p[i].key = k
    BY <1>2 DEF HasKey
  <2>2. p[i] \in keep
    BY <1>5, <2>1, KeysAreApart
  <2>3. PICK j \in 1..Len(new) : e[j] = i
    BY <1>7, <2>2
  <2>4. j \in DOMAIN new /\ new[j].key = k
    BY <1>6, <1>7, <2>1, <2>3
  <2> QED
    BY <2>4 DEF HasKey
<1>12. new \in Texts
  <2>1. new # <<>>
    <3>1. HasKey(new, NamedKeys[1])
      BY <1>11, KeysAreApart
    <3>2. \E i \in DOMAIN new : TRUE
      BY <3>1 DEF HasKey
    <3> QED
      BY <1>6, <3>2
  <2>2. \A j \in 1..Len(new) : j < Len(new) => new[j].nls > 0
    BY <1>2, <1>7, <1>9
  <2> QED
    BY <1>4, <2>1, <2>2 DEF Texts
<1>13. StripsBy(e, p, new)
  <2>1. \A j \in 1..Len(new) :
          /\ e[j] \in 1..Len(p) /\ new[j] = p[e[j]]
          /\ ~ (new[j].key \in IdentityKeys /\ new[j].nls > 0)
          /\ j < Len(new) => e[j] < Len(p)
    BY <1>7, <1>9, <1>10
  <2>2. \A i \in 1..Len(p) : ~ (p[i].key \in IdentityKeys /\ p[i].nls > 0) =>
          \E j \in 1..Len(new) : e[j] = i
    BY <1>5, <1>7
  <2> QED
    BY <1>8, <2>1, <2>2 DEF StripsBy
<1> SUFFICES /\ Extends(t, p, ToSet(NamedKeys))
             /\ new \in Texts
             /\ \E d : StripsBy(d, p, new)
             /\ \A k \in ToSet(NamedKeys) : HasKey(new, k)
  BY DEF p, new
<1> QED
  BY <1>1, <1>11, <1>12, <1>13

\* HOW_IT_WORKS.md:136-138, for a .vmx of any length.
LEMMA PatchedIdentity ==
  ASSUME NEW t \in Texts
  PROVE  IdentityIsFresh(t, Patch(t))
<1> DEFINE p == Rewritten(t)
           new == Patch(t)
<1>1. PICK e : /\ new \in Texts
               /\ \A j \in 1..Len(new) :
                    /\ e[j] \in 1..Len(p) /\ new[j] = p[e[j]]
                    /\ ~ (new[j].key \in IdentityKeys /\ new[j].nls > 0)
                    /\ j < Len(new) => e[j] < Len(p)
  BY PatchedFrom DEF StripsBy
<1>2. /\ p \in Texts /\ Len(t) \in Nat /\ Len(p) \in Nat /\ Len(p) >= Len(t)
      /\ \A i \in (Len(t) + 1)..Len(p) : p[i].key \in ToSet(NamedKeys)
      /\ (\A k \in ToSet(NamedKeys) : HasKey(t, k)) =>
           /\ Len(p) = Len(t)
           /\ \A i \in 1..Len(t) : t[i].key \notin ToSet(NamedKeys) => p[i] = t[i]
      /\ \A i \in 1..Len(t) : p[i].key = t[i].key
      /\ \A k \in ToSet(NamedKeys) : HasKey(p, k)
  BY RewrittenExtends DEF Extends
<1> HIDE DEF p, new
<1>3. SUFFICES ASSUME NEW i \in DOMAIN new, new[i].key \in IdentityKeys
               PROVE  /\ t[Len(t)].nls = 0 /\ t[Len(t)].key \in IdentityKeys
                      /\ \A k \in ToSet(NamedKeys) : HasKey(t, k)
                      /\ i = Len(new)
  BY DEF IdentityIsFresh, new
<1>4. i \in 1..Len(new) /\ Len(new) \in Nat
  BY <1>1 DEF Texts
<1>5. /\ e[i] \in 1..Len(p) /\ new[i] = p[e[i]] /\ ~ (new[i].nls > 0)
      /\ i < Len(new) => e[i] < Len(p)
  BY <1>1, <1>3, <1>4
\* A line that is kept although it identifies has no newline: it is the last.
<1>6. e[i] = Len(p) /\ p[Len(p)].key \in IdentityKeys /\ ~ (p[Len(p)].nls > 0)
  <2>1. e[i] < Len(p) => p[e[i]].nls > 0
    BY <1>2, <1>5 DEF Texts
  <2>2. e[i] = Len(p)
    BY <1>2, <1>5, <2>1
  <2> QED
    BY <1>3, <1>5, <2>2
<1>7. i = Len(new)
  BY <1>4, <1>5, <1>6
\* It was there before, so nothing was appended.
<1>8. Len(p) = Len(t)
  <2>1. Len(p) \notin (Len(t) + 1)..Len(p)
    BY <1>2, <1>6, KeysAreApart
  <2> QED
    BY <1>2, <2>1
<1>9. \A k \in ToSet(NamedKeys) : HasKey(t, k)
  <2> SUFFICES ASSUME NEW k \in ToSet(NamedKeys) PROVE HasKey(t, k)
    OBVIOUS
  <2>1. PICK j \in DOMAIN p : p[j].key = k
    BY <1>2 DEF HasKey
  <2>2. j \in 1..Len(t) /\ DOMAIN t = 1..Len(t)
    BY <1>2, <1>8, <2>1 DEF Texts
  <2>3. t[j].key = k
    BY <1>2, <2>1, <2>2
  <2> QED
    BY <2>2, <2>3 DEF HasKey
<1>10. /\ Len(t) \in 1..Len(t) /\ t[Len(t)] \in Lines
  <2>1. Len(t) \in 1..Len(t)
    BY <1>2, <1>5, <1>8
  <2> QED
    BY <2>1 DEF Texts
<1>11. t[Len(t)] = p[Len(p)]
  <2>1. t[Len(t)].key = p[Len(p)].key
    BY <1>2, <1>8, <1>10
  <2>2. t[Len(t)].key \notin ToSet(NamedKeys)
    BY <1>6, <2>1, KeysAreApart
  <2> QED
    BY <1>2, <1>8, <1>9, <1>10, <2>2
<1>12. t[Len(t)].nls = 0
  BY <1>6, <1>10, <1>11 DEF Lines
<1> QED
  BY <1>6, <1>7, <1>9, <1>11, <1>12

LEMMA InputsAreTexts ==
  ASSUME NEW t \in VmxTexts
  PROVE  t \in Texts
<1> DEFINE L == [key : VmxKeys, of : {"gold"}, nls : 0..2]
<1>1. t \in BoundedSeq(L, MaxLines) /\ t # <<>> /\ \A i \in 1..(Len(t) - 1) : t[i].nls > 0
  BY DEF VmxTexts
<1>2. \A l \in L : l \in Lines
  BY DEF Lines
<1> HIDE DEF L
<1>3. t \in Seq(L)
  BY <1>1, BoundedIsSeq, BoundsAssumption
<1>4. t \in Seq(Lines)
  BY <1>2, <1>3, SeqMonotonic
<1>5. \A i \in 1..Len(t) : i < Len(t) => i \in 1..(Len(t) - 1)
  BY <1>3
<1> QED
  BY <1>1, <1>4, <1>5 DEF Texts

\* The clone has no UUID and MAC of the gold image, but for the one line that a
\* text without a last newline can keep; for a .vmx of any length.
THEOREM IdentityIsStripped == FunctionsSpec => []VmxIdentityIsFresh
<1>1. call \in Inputs /\ ValueReturned => VmxIdentityIsFresh
  <2> SUFFICES ASSUME call \in Inputs, ValueReturned, Returned("patch")
               PROVE  IdentityIsFresh(call.text, result[1])
    BY DEF VmxIdentityIsFresh
  <2>1. call \in PatchCalls /\ result[1] = Patch(call.text)
    BY KindsOfInput DEF Returned, ValueReturned
  <2>2. call.text \in Texts
    BY <2>1, InputsAreTexts DEF PatchCalls
  <2> QED
    BY <2>1, <2>2, PatchedIdentity
<1> QED
  BY <1>1, CallsReturnValues, PTL

\* Every other setting of the gold image is there, in its order.
LEMMA OthersStay ==
  ASSUME NEW t \in Texts
  PROVE  KeyAndOwner(Others(Patch(t))) = KeyAndOwner(Others(t))
<1> DEFINE p == Rewritten(t)
           new == Patch(t)
           there == {l \in ToSet(new) : l.key = "other"}
           here == {l \in ToSet(t) : l.key = "other"}
           mine == Others(new)
           gold == Others(t)
<1>0. /\ new \in Texts
      /\ \E e : StripsBy(e, p, new)
  BY PatchedFrom
<1>2. /\ Len(t) \in Nat /\ Len(p) \in Nat /\ Len(p) >= Len(t)
      /\ \A i \in (Len(t) + 1)..Len(p) : p[i].key \in ToSet(NamedKeys)
      /\ \A i \in 1..Len(t) : p[i].key = t[i].key
      /\ \A i \in 1..Len(t) : t[i].key \notin ToSet(NamedKeys) => p[i].of = t[i].of
  BY RewrittenExtends DEF Extends
<1>3. PICK d : mine \in Seq(Lines) /\ Picks(d, mine, new, there, Len(new))
  BY <1>0, SelectedPicks DEF Others, Texts
<1>4. PICK c : gold \in Seq(Lines) /\ Picks(c, gold, t, here, Len(t))
  BY SelectedPicks DEF Others, Texts
<1>5. \A j \in 1..Len(new) : new[j] \in there <=> new[j].key = "other"
  BY <1>0 DEF ToSet, Texts
<1>6. \A i \in 1..Len(t) : t[i] \in here <=> t[i].key = "other"
  BY DEF ToSet, Texts
<1>7. Len(mine) \in Nat /\ Len(gold) \in Nat
  BY <1>3, <1>4
<1>8. DOMAIN mine = 1..Len(mine) /\ DOMAIN gold = 1..Len(gold)
  BY <1>3, <1>4
<1>9. "other" \notin ToSet(NamedKeys) /\ "other" \notin IdentityKeys
  BY KeysAreApart
<1> SUFFICES KeyAndOwner(mine) = KeyAndOwner(gold)
  OBVIOUS
<1> HIDE DEF p, new, there, here, mine, gold
<1>1. PICK e : StripsBy(e, p, new)
  BY <1>0
<1>10. /\ \A j \in 1..Len(mine) : d[j] \in 1..Len(new) /\ mine[j] = new[d[j]] /\ mine[j].key = "other"
       /\ \A j, k \in 1..Len(mine) : j < k => d[j] < d[k]
       /\ \A i \in 1..Len(new) : new[i].key = "other" => \E j \in 1..Len(mine) : d[j] = i
  BY <1>3, <1>5 DEF Picks
<1>11. /\ \A j \in 1..Len(gold) : c[j] \in 1..Len(t) /\ gold[j] = t[c[j]] /\ gold[j].key = "other"
       /\ \A j, k \in 1..Len(gold) : j < k => c[j] < c[k]
       /\ \A i \in 1..Len(t) : t[i].key = "other" => \E j \in 1..Len(gold) : c[j] = i
  BY <1>4, <1>6 DEF Picks
\* The places of the other settings in the rewritten text, seen from both.
<1> DEFINE g == [j \in 1..Len(mine) |-> e[d[j]]]
<1>12. \A j \in 1..Len(mine) : g[j] = e[d[j]] /\ g[j] \in 1..Len(p) /\ mine[j] = p[g[j]]
  BY <1>1, <1>10 DEF StripsBy
<1> HIDE DEF g
<1>13. \A j \in 1..Len(mine) : g[j] \in 1..Len(t)
  <2> SUFFICES ASSUME NEW j \in 1..Len(mine) PROVE g[j] \in 1..Len(t)
    OBVIOUS
  <2>1. p[g[j]].key = "other" /\ g[j] \in 1..Len(p)
    BY <1>10, <1>12
  <2>2. g[j] \notin (Len(t) + 1)..Len(p)
    BY <1>2, <1>9, <2>1
  <2> QED
    BY <1>2, <2>1, <2>2
<1>14. Increasing(g, Len(mine)) /\ Increasing(c, Len(gold))
  <2>1. \A j, k \in 1..Len(mine) : j < k => g[j] < g[k]
    <3> SUFFICES ASSUME NEW j \in 1..Len(mine), NEW k \in 1..Len(mine), j < k
                 PROVE  e[d[j]] < e[d[k]]
      BY <1>12
    <3>1. d[j] \in 1..Len(new) /\ d[k] \in 1..Len(new) /\ d[j] < d[k]
      BY <1>10
    <3> QED
      BY <1>1, <3>1 DEF StripsBy, Increasing
  <2>2. \A j \in 1..Len(mine) : g[j] \in Nat
    BY <1>13
  <2>3. \A j \in 1..Len(gold) : c[j] \in Nat
    BY <1>11
  <2> QED
    BY <1>11, <2>1, <2>2, <2>3 DEF Increasing
<1>15. Within(g, Len(mine), c, Len(gold))
  <2> SUFFICES ASSUME NEW j \in 1..Len(mine) PROVE \E k \in 1..Len(gold) : c[k] = g[j]
    BY DEF Within
  <2>1. g[j] \in 1..Len(t) /\ p[g[j]].key = "other"
    BY <1>10, <1>12, <1>13
  <2>2. t[g[j]].key = "other"
    BY <1>2, <2>1
  <2> QED
    BY <1>11, <2>1, <2>2
<1>16. Within(c, Len(gold), g, Len(mine))
  <2> SUFFICES ASSUME NEW k \in 1..Len(gold) PROVE \E j \in 1..Len(mine) : g[j] = c[k]
    BY DEF Within
  <2>1. c[k] \in 1..Len(t) /\ t[c[k]].key = "other"
    BY <1>11
  <2>2. c[k] \in 1..Len(p) /\ p[c[k]].key = "other"
    BY <1>2, <2>1
  <2>3. PICK i \in 1..Len(new) : e[i] = c[k]
    BY <1>1, <1>9, <2>2 DEF StripsBy
  <2>4. new[i].key = "other"
    BY <1>1, <2>2, <2>3 DEF StripsBy
  <2>5. PICK j \in 1..Len(mine) : d[j] = i
    BY <1>10, <2>4
  <2> QED
    BY <1>12, <2>3, <2>5
<1>17. Len(mine) = Len(gold) /\ \A j \in 1..Len(mine) : g[j] = c[j]
  BY <1>7, <1>14, <1>15, <1>16, SameList
<1>18. \A j \in 1..Len(mine) : <<mine[j].key, mine[j].of>> = <<gold[j].key, gold[j].of>>
  <2> SUFFICES ASSUME NEW j \in 1..Len(mine)
               PROVE  mine[j].key = gold[j].key /\ mine[j].of = gold[j].of
    OBVIOUS
  <2>1. mine[j] = p[c[j]] /\ gold[j] = t[c[j]] /\ c[j] \in 1..Len(t)
    BY <1>11, <1>12, <1>17
  <2>2. t[c[j]].key = "other"
    BY <1>11, <1>17, <2>1
  <2>3. p[c[j]].key = t[c[j]].key /\ p[c[j]].of = t[c[j]].of
    BY <1>2, <1>9, <2>1, <2>2
  <2> QED
    BY <2>1, <2>3
<1> QED
  BY <1>8, <1>17, <1>18 DEF KeyAndOwner

\* Patching what was patched changes no key and no owner.
LEMMA PatchedAgain ==
  ASSUME NEW s \in Texts,
         \A k \in ToSet(NamedKeys) : HasKey(s, k),
         \A i \in 1..Len(s) : s[i].key \in ToSet(NamedKeys) => s[i].of = "clone",
         \A i \in 1..Len(s) : ~ (s[i].key \in IdentityKeys /\ s[i].nls > 0)
  PROVE  KeyAndOwner(Patch(s)) = KeyAndOwner(s)
<1> DEFINE q == Rewritten(s)
           keep == {l \in ToSet(q) : ~ (l.key \in IdentityKeys /\ l.nls > 0)}
           named == ToSet(NamedKeys)
<1>1. Extends(s, q, named)
  BY RewrittenExtends
<1>2. Patch(s) = Selected(q, keep)
  BY DEF Patch, StripIdentity, Rewritten
<1>3. \A k \in named : k \notin IdentityKeys
  BY KeysAreApart
<1>4. \A i \in 1..Len(s) : s[i].key \in named => s[i].of = "clone"
  OBVIOUS
<1>5. \A i \in 1..Len(s) : s[i].key \in IdentityKeys => ~ (s[i].nls > 0)
  OBVIOUS
<1>6. DOMAIN s = 1..Len(s)
  BY DEF Texts
<1> HIDE DEF q
<1>7. q \in Texts /\ q \in Seq(Lines) /\ Len(q) = Len(s) /\ DOMAIN q = 1..Len(s)
  BY <1>1 DEF Extends, Texts
<1>8. \A i \in 1..Len(s) : q[i].key = s[i].key
  BY <1>1 DEF Extends
<1>9. \A i \in 1..Len(s) : s[i].key \notin named => q[i] = s[i]
  BY <1>1 DEF Extends
<1>10. \A i \in 1..Len(s) : q[i].key \in named => q[i].of = "clone"
  BY <1>1, <1>7 DEF Extends
<1> HIDE DEF named
<1>11. \A i \in 1..Len(q) : q[i] \in keep
  <2> SUFFICES ASSUME NEW i \in 1..Len(s) PROVE q[i] \in keep
    BY <1>7
  <2>1. q[i] \in ToSet(q)
    BY <1>7 DEF ToSet
  <2>2. ASSUME q[i].key \in IdentityKeys PROVE ~ (q[i].nls > 0)
    <3>1. s[i].key \in IdentityKeys
      BY <1>8, <2>2, Zenon
    <3>2. s[i].key \notin named
      BY <1>3, <3>1, Zenon
    <3>3. q[i] = s[i]
      BY <1>9, <3>2, Zenon
    <3>4. ~ (s[i].nls > 0)
      BY <1>5, <3>1, Zenon
    <3> QED
      BY <3>3, <3>4, Zenon
  <2> QED
    BY <2>1, <2>2
<1> HIDE DEF keep
<1>12. Patch(s) = q
  <2>1. Selected(q, keep) = q
    BY <1>7, <1>11, AllKept
  <2> QED
    BY <1>2, <2>1
<1>13. \A i \in 1..Len(s) : q[i].of = s[i].of
  <2> SUFFICES ASSUME NEW i \in 1..Len(s) PROVE q[i].of = s[i].of
    OBVIOUS
  <2>1. q[i].key = s[i].key
    BY <1>8, Zenon
  <2>2. CASE s[i].key \in named
    <3>1. q[i].key \in named
      BY <2>1, <2>2, Zenon
    <3>2. q[i].of = "clone"
      BY <1>10, <3>1, Zenon
    <3>3. s[i].of = "clone"
      BY <1>4, <2>2, Zenon
    <3> QED
      BY <3>2, <3>3, Zenon
  <2>3. CASE s[i].key \notin named
    <3>1. q[i] = s[i]
      BY <1>9, <2>3, Zenon
    <3> QED
      BY <3>1, Zenon
  <2> QED
    BY <2>2, <2>3, Zenon
<1>14. \A i \in 1..Len(s) : <<q[i].key, q[i].of>> = <<s[i].key, s[i].of>>
  BY <1>8, <1>13
<1> QED
  BY <1>6, <1>7, <1>12, <1>14 DEF KeyAndOwner

\* vmx.go:1-3, for a .vmx of any length.
LEMMA PatchedPointsAtClone ==
  ASSUME NEW t \in Texts
  PROVE  PointsAtClone(t, Patch(t))
<1> DEFINE p == Rewritten(t)
           new == Patch(t)
<1>1. PICK e : /\ new \in Texts
               /\ \A j \in 1..Len(new) :
                    /\ e[j] \in 1..Len(p) /\ new[j] = p[e[j]]
                    /\ ~ (new[j].key \in IdentityKeys /\ new[j].nls > 0)
               /\ \A k \in ToSet(NamedKeys) : HasKey(new, k)
  BY PatchedFrom DEF StripsBy
<1>2. \A i \in 1..Len(p) : p[i].key \in ToSet(NamedKeys) => p[i].of = "clone"
  BY RewrittenExtends DEF Extends
<1>3. KeyAndOwner(Others(new)) = KeyAndOwner(Others(t))
  BY OthersStay
<1> HIDE DEF p, new
<1>4. DOMAIN new = 1..Len(new) /\ \A i \in 1..Len(new) : i < Len(new) => new[i].nls > 0
  BY <1>1 DEF Texts
<1>5. \A i \in 1..Len(new) : new[i].key \in ToSet(NamedKeys) => new[i].of = "clone"
  BY <1>1, <1>2
<1>6. KeyAndOwner(Patch(new)) = KeyAndOwner(new)
  BY <1>1, <1>5, PatchedAgain
<1> QED
  BY <1>1, <1>3, <1>4, <1>5, <1>6 DEF PointsAtClone, new

\* The .vmx that is uploaded is about the clone, keeps every other setting of the
\* gold image, and stays what it is when it is patched again; for any length.
THEOREM VmxIsOfTheClone == FunctionsSpec => []VmxPointsAtClone
<1>1. call \in Inputs /\ ValueReturned => VmxPointsAtClone
  <2> SUFFICES ASSUME call \in Inputs, ValueReturned, Returned("patch")
               PROVE  PointsAtClone(call.text, result[1])
    BY DEF VmxPointsAtClone
  <2>1. call \in PatchCalls /\ result[1] = Patch(call.text)
    BY KindsOfInput DEF Returned, ValueReturned
  <2>2. call.text \in Texts
    BY <2>1, InputsAreTexts DEF PatchCalls
  <2> QED
    BY <2>1, <2>2, PatchedPointsAtClone
<1> QED
  BY <1>1, CallsReturnValues, PTL
=============================================================================
