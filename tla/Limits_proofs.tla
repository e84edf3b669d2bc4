---------------------------- MODULE Limits_proofs ----------------------------
(***************************************************************************)
(* Rate limits, lockout and chunked uploads: what is let through in any    *)
(* span, what a lockout admits and what is stored of an upload, for any    *)
(* limits, windows, sizes and numbers of clients.                          *)
(*                                                                         *)
(* The library's induction theorems take an operator, which the provers    *)
(* do not instantiate.  What is needed here is about sets: a nonempty set  *)
(* of naturals has a least element, because the finite subsets of Nat are  *)
(* well-founded.                                                           *)
(***************************************************************************)
EXTENDS Limits, TLAPS, WellFoundedInduction, FiniteSetTheorems, SequenceTheorems

(* Induction *)

\* Of any set of naturals, nonempty, one is the least: take the set 0..n that no other is
\* within.
LEMMA LeastNatural ==
    ASSUME NEW S \in SUBSET Nat, S # {}
    PROVE  \E n \in S : \A m \in S : n <= m
<1> DEFINE T == {0..n : n \in S}
<1>1. T \subseteq FiniteSubsetsOf(Nat) /\ T # {}
  <2>1. \A n \in Nat : 0..n \subseteq Nat /\ IsFiniteSet(0..n)
    BY FS_Interval
  <2> QED
    BY <2>1 DEF FiniteSubsetsOf
<1>2. PICK x \in T : \A y \in T : <<y, x>> \notin StrictSubsetOrdering(Nat)
  <2> HIDE DEF T
  <2> QED
    BY <1>1, FS_StrictSubsetOrderingWellFounded, WFMin
<1>3. PICK n \in S : x = 0..n
  BY <1>2
<1>4. ASSUME NEW m \in S, ~(n <= m) PROVE FALSE
  <2>1. 0..m \in T /\ 0..m \subseteq 0..n /\ n \in 0..n /\ n \notin 0..m /\ 0..n \subseteq Nat
    BY <1>4
  <2>2. <<0..m, 0..n>> \in StrictSubsetOrdering(Nat)
    BY <2>1 DEF StrictSubsetOrdering
  <2> QED
    BY <1>2, <1>3, <2>1, <2>2
<1> QED
  BY <1>4

\* Induction, about a set of naturals instead of a predicate.
LEMMA Induction ==
    ASSUME NEW S, 0 \in S, \A n \in Nat : n \in S => n + 1 \in S
    PROVE  Nat \subseteq S
<1> SUFFICES ASSUME Nat \ S # {} PROVE FALSE
  OBVIOUS
<1>1. PICK n \in Nat \ S : \A m \in Nat \ S : n <= m
  BY LeastNatural
<1>2. n # 0 /\ n - 1 \in Nat
  OBVIOUS
<1>3. n - 1 \in S
  BY <1>1, <1>2
<1> QED
  BY <1>2, <1>3
-----------------------------------------------------------------------------
(* Sums *)

Sums(f, n, g) == g = [i \in 0..n |-> IF i = 0 THEN f[0] ELSE g[i - 1] + f[i]]

\* The function that SumTo sums up with is well defined.
LEMMA SumsExist ==
    ASSUME NEW f PROVE \A n \in Nat : \E g : Sums(f, n, g)
<1> DEFINE S == {n \in Nat : \E g : Sums(f, n, g)}
<1>1. 0 \in S
  <2>1. Sums(f, 0, [i \in 0..0 |-> f[0]])
    BY DEF Sums
  <2> QED
    BY <2>1
<1>2. ASSUME NEW n \in Nat, n \in S PROVE n + 1 \in S
  <2>1. PICK g : Sums(f, n, g)
    BY <1>2
  <2> DEFINE h == [i \in 0..(n + 1) |-> IF i = n + 1 THEN g[n] + f[n + 1] ELSE g[i]]
  <2>2. Sums(f, n + 1, h)
    BY <2>1 DEF Sums
  <2> QED
    BY <2>2
<1> HIDE DEF S
<1>3. Nat \subseteq S
  BY <1>1, <1>2, Induction
<1> QED
  BY <1>3 DEF S

\* SumTo is the last value of that function.
LEMMA SumToSums ==
    ASSUME NEW f, NEW n \in Nat
    PROVE  \E g : Sums(f, n, g) /\ SumTo(f, n) = g[n]
<1> DEFINE g == CHOOSE g : g = [i \in 0..n |-> IF i = 0 THEN f[0] ELSE g[i - 1] + f[i]]
<1>1. SumTo(f, n) = g[n]
  BY DEF SumTo
<1>2. g = [i \in 0..n |-> IF i = 0 THEN f[0] ELSE g[i - 1] + f[i]]
  BY SumsExist DEF Sums
<1> QED
  BY <1>1, <1>2 DEF Sums

\* The sum up to n + 1 goes through the sum up to n.
LEMMA SumsAgree ==
    ASSUME NEW f, NEW n \in Nat, NEW m \in Nat, n <= m, NEW g, NEW h, Sums(f, n, g), Sums(f, m, h)
    PROVE  \A i \in 0..n : g[i] = h[i]
<1> DEFINE S == {i \in Nat : i <= n => g[i] = h[i]}
<1>1. 0 \in S
  BY DEF Sums
<1>2. ASSUME NEW i \in Nat, i \in S PROVE i + 1 \in S
  <2> SUFFICES ASSUME i + 1 <= n PROVE g[i + 1] = h[i + 1]
    OBVIOUS
  <2>1. g[i] = h[i] /\ i + 1 \in 0..n /\ i + 1 \in 0..m /\ i + 1 # 0 /\ (i + 1) - 1 = i
    BY <1>2
  <2>2. g[i + 1] = g[i] + f[i + 1] /\ h[i + 1] = h[i] + f[i + 1]
    BY <2>1 DEF Sums
  <2> QED
    BY <2>1, <2>2
<1> HIDE DEF S
<1>3. Nat \subseteq S
  BY <1>1, <1>2, Induction
<1> QED
  BY <1>3 DEF S

\* What SumTo computes, step by step.
LEMMA SumSteps ==
    ASSUME NEW f
    PROVE  SumTo(f, 0) = f[0] /\ \A n \in Nat : SumTo(f, n + 1) = SumTo(f, n) + f[n + 1]
<1>1. SumTo(f, 0) = f[0]
  BY SumToSums DEF Sums
<1>2. ASSUME NEW n \in Nat PROVE SumTo(f, n + 1) = SumTo(f, n) + f[n + 1]
  <2>1. PICK g : Sums(f, n, g) /\ SumTo(f, n) = g[n]
    BY SumToSums
  <2>2. PICK h : Sums(f, n + 1, h) /\ SumTo(f, n + 1) = h[n + 1]
    BY SumToSums
  <2>3. g[n] = h[n]
    BY <2>1, <2>2, SumsAgree
  <2>4. h[n + 1] = h[n] + f[n + 1]
    BY <2>2 DEF Sums
  <2> QED
    BY <2>1, <2>2, <2>3, <2>4
<1> QED
  BY <1>1, <1>2

\* A sum of naturals is one, and grows with what is added up.
LEMMA SumGrows ==
    ASSUME NEW f, NEW top \in Nat, \A i \in 0..top : f[i] \in Nat
    PROVE  \A n \in 0..top : \A m \in 0..n : SumTo(f, m) \in Nat /\ SumTo(f, m) <= SumTo(f, n)
<1> DEFINE S == {n \in Nat : n <= top =>
                   \A m \in 0..n : SumTo(f, m) \in Nat /\ SumTo(f, m) <= SumTo(f, n)}
<1>1. 0 \in S
  BY SumSteps
<1>2. ASSUME NEW n \in Nat, n \in S PROVE n + 1 \in S
  <2> SUFFICES ASSUME n + 1 <= top, NEW m \in 0..(n + 1)
               PROVE  SumTo(f, m) \in Nat /\ SumTo(f, m) <= SumTo(f, n + 1)
    OBVIOUS
  <2>1. SumTo(f, n) \in Nat /\ \A k \in 0..n : SumTo(f, k) \in Nat /\ SumTo(f, k) <= SumTo(f, n)
    BY <1>2
  <2>2. f[n + 1] \in Nat /\ SumTo(f, n + 1) = SumTo(f, n) + f[n + 1]
    BY SumSteps
  <2>3. CASE m = n + 1
    BY <2>1, <2>2, <2>3
  <2>4. CASE m \in 0..n
    BY <2>1, <2>2, <2>4
  <2> QED
    BY <2>3, <2>4
<1> HIDE DEF S
<1>3. Nat \subseteq S
  BY <1>1, <1>2, Induction
<1> QED
  BY <1>3 DEF S

\* One more in a class of age k.
LEMMA SumAdds ==
    ASSUME NEW top \in Nat, NEW f \in [0..top -> Nat], NEW k \in 0..top
    PROVE  \A n \in 0..top : SumTo([f EXCEPT ![k] = f[k] + 1], n) =
                              SumTo(f, n) + (IF k <= n THEN 1 ELSE 0)
<1> DEFINE h == [f EXCEPT ![k] = f[k] + 1]
           S == {n \in Nat : n <= top => SumTo(h, n) = SumTo(f, n) + (IF k <= n THEN 1 ELSE 0)}
<1>1. \A i \in 0..top : h[i] = f[i] + (IF i = k THEN 1 ELSE 0)
  OBVIOUS
<1> HIDE DEF h
<1>2. 0 \in S
  <2>1. SumTo(h, 0) = h[0] /\ SumTo(f, 0) = f[0] /\ h[0] = f[0] + (IF 0 = k THEN 1 ELSE 0)
    BY <1>1, SumSteps
  <2> QED
    BY <2>1
<1>3. ASSUME NEW n \in Nat, n \in S PROVE n + 1 \in S
  <2> SUFFICES ASSUME n + 1 <= top
               PROVE  SumTo(h, n + 1) = SumTo(f, n + 1) + (IF k <= n + 1 THEN 1 ELSE 0)
    OBVIOUS
  <2>1. SumTo(h, n) = SumTo(f, n) + (IF k <= n THEN 1 ELSE 0)
    BY <1>3
  <2>2. SumTo(h, n + 1) = SumTo(h, n) + h[n + 1] /\ SumTo(f, n + 1) = SumTo(f, n) + f[n + 1]
    BY SumSteps
  <2>3. h[n + 1] = f[n + 1] + (IF n + 1 = k THEN 1 ELSE 0) /\ f[n + 1] \in Nat
    BY <1>1
  <2>4. SumTo(f, n) \in Nat
    BY SumGrows
  <2>5. CASE k = n + 1
    BY <2>1, <2>2, <2>3, <2>4, <2>5
  <2>6. CASE k # n + 1
    BY <2>1, <2>2, <2>3, <2>4, <2>6
  <2> QED
    BY <2>5, <2>6
<1> HIDE DEF S
<1>4. Nat \subseteq S
  BY <1>2, <1>3, Induction
<1>5. \A n \in 0..top : SumTo(h, n) = SumTo(f, n) + (IF k <= n THEN 1 ELSE 0)
  BY <1>4 DEF S
<1> QED
  BY <1>5 DEF h

\* A tick moves every class into the next and forgets the last.
LEMMA SumAges ==
    ASSUME NEW top \in Nat, NEW f \in [0..top -> Nat]
    PROVE  /\ Older(f) \in [0..top -> Nat]
           /\ SumTo(Older(f), 0) = 0
           /\ \A n \in 0..top : n > 0 => SumTo(Older(f), n) = SumTo(f, n - 1)
<1> DEFINE h == Older(f)
           S == {n \in Nat : n <= top => SumTo(h, n) = IF n = 0 THEN 0 ELSE SumTo(f, n - 1)}
<1>1. h \in [0..top -> Nat] /\ h[0] = 0 /\ \A i \in 1..top : h[i] = f[i - 1]
  BY DEF Older
<1> HIDE DEF h
<1>2. 0 \in S
  BY <1>1, SumSteps
<1>3. ASSUME NEW n \in Nat, n \in S PROVE n + 1 \in S
  <2> SUFFICES ASSUME n + 1 <= top PROVE SumTo(h, n + 1) = SumTo(f, n)
    OBVIOUS
  <2>1. SumTo(h, n + 1) = SumTo(h, n) + f[n] /\ f[n] \in Nat
    <3>1. n + 1 \in 1..top /\ (n + 1) - 1 = n /\ n \in 0..top
      OBVIOUS
    <3>2. h[n + 1] = f[n]
      BY <1>1, <3>1
    <3> QED
      BY <3>1, <3>2, SumSteps
  <2>2. CASE n = 0
    BY <1>3, <2>1, <2>2, SumSteps
  <2>3. CASE n # 0
    <3>1. SumTo(h, n) = SumTo(f, n - 1) /\ n - 1 \in Nat
      BY <1>3, <2>3
    <3>2. SumTo(f, n) = SumTo(f, n - 1) + f[n]
      BY <3>1, SumSteps
    <3> QED
      BY <2>1, <3>1, <3>2
  <2> QED
    BY <2>2, <2>3
<1> HIDE DEF S
<1>4. Nat \subseteq S
  BY <1>2, <1>3, Induction
<1> QED
  BY <1>1, <1>4 DEF S, h
-----------------------------------------------------------------------------
(* Time *)

\* A remainder below w is unique.
LEMMA Remainder ==
    ASSUME NEW w \in Nat \ {0}, NEW q \in Int, NEW p \in Int, NEW r \in 0..(w - 1), NEW s \in 0..(w - 1),
           w * q + r = w * p + s
    PROVE  r = s
<1>1. CASE q = p
  BY <1>1
<1>2. CASE q > p
  <2>1. q = p + (q - p) /\ q - p >= 1
    BY <1>2
  <2>2. w * (q - p) >= w
    BY <2>1
  <2> QED
    BY <2>1, <2>2
<1>3. CASE q < p
  <2>1. p = q + (p - q) /\ p - q >= 1
    BY <1>3
  <2>2. w * (p - q) >= w
    BY <2>1
  <2> QED
    BY <2>1, <2>2
<1> QED
  BY <1>1, <1>2, <1>3

\* The next number has the next remainder, or none.
LEMMA NextRemainder ==
    ASSUME NEW w \in Nat \ {0}, NEW n \in Nat
    PROVE  n % w \in 0..(w - 1) /\ (n + 1) % w = IF (n % w) + 1 = w THEN 0 ELSE (n % w) + 1
<1>1. \A k \in Nat : k % w \in 0..(w - 1) /\ k \div w \in Int /\ k = w * (k \div w) + (k % w)
  OBVIOUS
<1>2. CASE (n % w) + 1 = w
  <2>1. n + 1 = w * ((n \div w) + 1) + 0
    BY <1>1, <1>2
  <2> QED
    BY <1>1, <1>2, <2>1, Remainder
<1>3. CASE (n % w) + 1 # w
  <2>1. n + 1 = w * (n \div w) + ((n % w) + 1) /\ (n % w) + 1 \in 0..(w - 1)
    BY <1>1, <1>3
  <2>2. /\ (n + 1) % w \in 0..(w - 1) /\ (n + 1) \div w \in Int /\ n \div w \in Int
        /\ n + 1 = w * ((n + 1) \div w) + ((n + 1) % w)
    BY <1>1
  <2>3. (n + 1) % w = (n % w) + 1
    BY <2>1, <2>2, Remainder
  <2> QED
    BY <1>3, <2>3
<1> QED
  BY <1>1, <1>2, <1>3

\* How much of a window has passed. The clock starts again where all windows do.
Elapsed(g) == now % Window[g]

\* A tick goes on in the window, or starts the next.
LEMMA ElapsedSteps ==
    ASSUME NEW g \in Groups, now \in 0..(Period - 1)
    PROVE  /\ Elapsed(g) \in 0..(Window[g] - 1) /\ Left(g) = Window[g] - Elapsed(g)
           /\ Window[g] \in Nat \ {0} /\ Left(g) \in 1..Window[g]
           /\ Tick => Elapsed(g)' = IF Elapsed(g) + 1 = Window[g] THEN 0 ELSE Elapsed(g) + 1
<1>1. Window[g] \in Nat \ {0} /\ Period \in Nat \ {0} /\ Period % Window[g] = 0 /\ now \in Nat
  BY LimitsAssumption
<1>2. now % Window[g] \in 0..(Window[g] - 1)
  BY <1>1, NextRemainder
<1>3. ASSUME Tick
      PROVE  now' % Window[g] = IF (now % Window[g]) + 1 = Window[g] THEN 0 ELSE (now % Window[g]) + 1
  <2>1. now' = (now + 1) % Period
    BY <1>3 DEF Tick
  <2>2. now' % Window[g] = (now + 1) % Window[g]
    <3>1. CASE now + 1 = Period
      <4>1. now' = 0
        BY <1>1, <2>1, <3>1
      <4>2. 0 % Window[g] = 0
        BY <1>1
      <4> QED
        BY <1>1, <3>1, <4>1, <4>2
    <3>2. CASE now + 1 # Period
      <4>1. now' = now + 1
        BY <1>1, <2>1, <3>2
      <4> QED
        BY <4>1
    <3> QED
      BY <3>1, <3>2
  <2> QED
    BY <1>1, <2>2, NextRemainder
<1> QED
  BY <1>1, <1>2, <1>3 DEF Elapsed, Left
-----------------------------------------------------------------------------
(* Chunks *)

\* A sum depends on what is added up only.
LEMMA SumsCongruent ==
    ASSUME NEW f, NEW h, NEW top \in Nat, \A i \in 0..top : f[i] = h[i]
    PROVE  SumTo(f, top) = SumTo(h, top)
<1> DEFINE S == {n \in Nat : n <= top => SumTo(f, n) = SumTo(h, n)}
<1>1. 0 \in S
  BY SumSteps
<1>2. ASSUME NEW n \in Nat, n \in S PROVE n + 1 \in S
  <2> SUFFICES ASSUME n + 1 <= top PROVE SumTo(f, n + 1) = SumTo(h, n + 1)
    OBVIOUS
  <2>1. SumTo(f, n) = SumTo(h, n) /\ f[n + 1] = h[n + 1]
    BY <1>2
  <2> QED
    BY <2>1, SumSteps
<1> HIDE DEF S
<1>3. Nat \subseteq S
  BY <1>1, <1>2, Induction
<1> QED
  BY <1>3 DEF S

Bytes(s) == SumTo([i \in 0..Len(s) |-> IF i = 0 THEN 0 ELSE Size[s[i]]], Len(s))

\* What the rows of a chunk need in a body.
LEMMA BytesOfNone == Bytes(<<>>) = 0
<1>1. Len(<<>>) = 0
  OBVIOUS
<1> QED
  BY <1>1, SumSteps DEF Bytes

LEMMA BytesType == ASSUME NEW s \in Seq(Rows) PROVE Bytes(s) \in Nat
<1> DEFINE f == [i \in 0..Len(s) |-> IF i = 0 THEN 0 ELSE Size[s[i]]]
<1>1. Len(s) \in Nat
  BY LenProperties
<1>2. \A i \in 0..Len(s) : f[i] \in Nat
  BY <1>1, ElementOfSeq, LimitsAssumption
<1> HIDE DEF f
<1>3. SumTo(f, Len(s)) \in Nat
  <2>1. Len(s) \in 0..Len(s)
    BY <1>1
  <2> QED
    BY <1>1, <1>2, <2>1, SumGrows
<1> QED
  BY <1>3 DEF Bytes, f

LEMMA BytesOfAppend ==
    ASSUME NEW s \in Seq(Rows), NEW x \in Rows
    PROVE  Bytes(Append(s, x)) = Bytes(s) + Size[x]
<1> DEFINE t == Append(s, x)
           n == Len(s)
           f == [i \in 0..Len(t) |-> IF i = 0 THEN 0 ELSE Size[t[i]]]
           h == [i \in 0..Len(s) |-> IF i = 0 THEN 0 ELSE Size[s[i]]]
<1>1. /\ Len(t) = n + 1 /\ n \in Nat /\ t[n + 1] = x
      /\ \A i \in 1..n : t[i] = s[i]
  BY AppendProperties, LenProperties
<1>2. \A i \in 0..n : f[i] = h[i]
  <2> HIDE DEF t, n
  <2>1. SUFFICES ASSUME NEW i \in 0..n PROVE f[i] = h[i]
    OBVIOUS
  <2>2. i \in 0..Len(t) /\ i \in 0..Len(s) /\ (i # 0 => i \in 1..n)
    BY <1>1 DEF n
  <2> QED
    BY <1>1, <2>2
<1>3. f[n + 1] = Size[x]
  <2> HIDE DEF t, n
  <2>1. n + 1 \in 0..Len(t) /\ n + 1 # 0
    BY <1>1
  <2> QED
    BY <1>1, <2>1
<1> HIDE DEF f, h
<1>4. SumTo(f, n + 1) = SumTo(f, n) + f[n + 1] /\ SumTo(f, n) = SumTo(h, n)
  BY <1>1, <1>2, SumSteps, SumsCongruent
<1>5. SumTo(f, Len(t)) = SumTo(h, n) + Size[x]
  BY <1>1, <1>3, <1>4
<1> QED
  BY <1>5 DEF Bytes, f, h

\* FoldLeft goes through the prefixes of a sequence.
None == [full |-> <<>>, open |-> <<>>, bytes |-> Wrapper]
Folds(rs, n, g) ==
    g = [s \in SUBSET (1..n) |-> IF s = {} THEN None ELSE AddRow(g[s \ {Max(s)}], rs[Max(s)])]

\* FoldLeft takes the set of the first n places apart by its greatest element, n.
LEMMA MaxOfPrefix == ASSUME NEW n \in Nat, NEW s \in SUBSET (1..(n + 1)), n + 1 \in s
                     PROVE  Max(s) = n + 1
<1>1. n + 1 \in s /\ \A y \in s : n + 1 >= y /\ y \in Int
  OBVIOUS
<1>2. Max(s) \in s /\ \A y \in s : Max(s) >= y
  BY <1>1 DEF Max
<1>3. Max(s) >= n + 1 /\ n + 1 >= Max(s) /\ Max(s) \in Int
  BY <1>1, <1>2
<1> QED
  BY <1>3

LEMMA FoldsExist == ASSUME NEW rs PROVE \A n \in Nat : \E g : Folds(rs, n, g)
<1> DEFINE S == {n \in Nat : \E g : Folds(rs, n, g)}
<1>1. 0 \in S
  <2>1. SUBSET (1..0) = {{}}
    OBVIOUS
  <2>2. Folds(rs, 0, [s \in {{}} |-> None])
    BY <2>1 DEF Folds
  <2> QED
    BY <2>2
<1>2. ASSUME NEW n \in Nat, n \in S PROVE n + 1 \in S
  <2>1. PICK g : Folds(rs, n, g)
    BY <1>2
  <2> DEFINE h == [s \in SUBSET (1..(n + 1)) |->
                     IF n + 1 \in s THEN AddRow(g[s \ {n + 1}], rs[n + 1]) ELSE g[s]]
             next == [s \in SUBSET (1..(n + 1)) |->
                        IF s = {} THEN None ELSE AddRow(h[s \ {Max(s)}], rs[Max(s)])]
  <2>2. ASSUME NEW s \in SUBSET (1..(n + 1)) PROVE h[s] = next[s]
    <3>1. CASE n + 1 \in s
      <4>1. Max(s) = n + 1
        BY <3>1, MaxOfPrefix
      <4>2. s \ {n + 1} \in SUBSET (1..(n + 1)) /\ n + 1 \notin s \ {n + 1}
        OBVIOUS
      <4>3. h[s \ {n + 1}] = g[s \ {n + 1}]
        BY <4>2
      <4>4. next[s] = AddRow(h[s \ {n + 1}], rs[n + 1])
        <5> HIDE DEF h
        <5> QED
          BY <3>1, <4>1
      <4>5. h[s] = AddRow(g[s \ {n + 1}], rs[n + 1])
        BY <3>1
      <4> QED
        BY <4>3, <4>4, <4>5
    <3>2. CASE n + 1 \notin s
      <4>1. s \in SUBSET (1..n) /\ s \ {Max(s)} \in SUBSET (1..(n + 1)) /\ n + 1 \notin s \ {Max(s)}
        <5>1. n \in Nat /\ s \subseteq 1..(n + 1) /\ n + 1 \notin s
          BY <1>2, <3>2
        <5>2. \A i \in 1..(n + 1) : i # n + 1 => i \in 1..n
          BY <5>1
        <5> QED
          BY <5>1, <5>2
      <4>2. h[s] = g[s] /\ h[s \ {Max(s)}] = g[s \ {Max(s)}]
        BY <3>2, <4>1
      <4>3. g[s] = IF s = {} THEN None ELSE AddRow(g[s \ {Max(s)}], rs[Max(s)])
        BY <2>1, <4>1 DEF Folds
      <4>4. next[s] = IF s = {} THEN None ELSE AddRow(h[s \ {Max(s)}], rs[Max(s)])
        <5> HIDE DEF h
        <5> QED
          OBVIOUS
      <4> QED
        BY <4>2, <4>3, <4>4
    <3> QED
      BY <3>1, <3>2
  <2>3. h = next
    BY <2>2
  <2>4. Folds(rs, n + 1, h)
    BY <2>3 DEF Folds
  <2> QED
    BY <2>4
<1> HIDE DEF S
<1>3. Nat \subseteq S
  BY <1>1, <1>2, Induction
<1> QED
  BY <1>3 DEF S

\* What FoldLeft computes is the value of that function at all places.
LEMMA FoldLeftFolds ==
    ASSUME NEW rs \in Seq(Rows)
    PROVE  \E g : Folds(rs, Len(rs), g) /\ FoldLeft(AddRow, None, rs) = g[1..Len(rs)]
<1> DEFINE g == CHOOSE g : g = [s \in SUBSET (DOMAIN rs) |->
                                  IF s = {} THEN None ELSE AddRow(g[s \ {Max(s)}], rs[Max(s)])]
<1>1. FoldLeft(AddRow, None, rs) = g[DOMAIN rs]
  BY DEF FoldLeft, MapThenFoldSet
<1>2. DOMAIN rs = 1..Len(rs) /\ Len(rs) \in Nat
  BY LenProperties
<1>3. Folds(rs, Len(rs), g)
  <2>1. PICK w : Folds(rs, Len(rs), w)
    BY <1>2, FoldsExist
  <2>2. w = [s \in SUBSET (DOMAIN rs) |-> IF s = {} THEN None ELSE AddRow(w[s \ {Max(s)}], rs[Max(s)])]
    BY <1>2, <2>1 DEF Folds
  <2>3. g = [s \in SUBSET (DOMAIN rs) |-> IF s = {} THEN None ELSE AddRow(g[s \ {Max(s)}], rs[Max(s)])]
    BY <2>2
  <2> QED
    BY <1>2, <2>3 DEF Folds
<1> QED
  BY <1>1, <1>2, <1>3

\* A chunk fits the bounds of the page; chunks cut the first k rows of rs at ends.
Fits(s) == Len(s) <= MaxRecords /\ Wrapper + Bytes(s) <= MaxBytes

CutAt(rs, k, chs, ends) ==
    /\ chs \in Seq(Seq(Rows)) /\ ends \in [0..Len(chs) -> 0..k] /\ ends[0] = 0
    /\ \A i \in 1..Len(chs) : /\ ends[i - 1] < ends[i] /\ Fits(chs[i])
                              /\ chs[i] = SubSeq(rs, ends[i - 1] + 1, ends[i])

\* Type and length of a slice.
LEMMA Slices ==
    ASSUME NEW rs \in Seq(Rows), NEW a \in 0..Len(rs), NEW b \in a..Len(rs)
    PROVE  SubSeq(rs, a + 1, b) \in Seq(Rows) /\ Len(SubSeq(rs, a + 1, b)) = b - a
<1>1. Len(rs) \in Nat /\ a \in Nat /\ b \in Nat /\ a <= b
  BY LenProperties
<1>2. \A i \in (a + 1)..b : rs[i] \in Rows
  <2> TAKE i \in (a + 1)..b
  <2>1. i \in 1..Len(rs)
    BY <1>1
  <2> QED
    BY <2>1, ElementOfSeq
<1>3. /\ SubSeq(rs, a + 1, b) \in Seq(Rows)
      /\ Len(SubSeq(rs, a + 1, b)) = IF a + 1 <= b THEN b - (a + 1) + 1 ELSE 0
  BY <1>1, <1>2, SubSeqProperties
<1> QED
  BY <1>1, <1>3

\* A chunk that ends where the open one does is one more slice.
LEMMA CutMore ==
    ASSUME NEW rs \in Seq(Rows), NEW k \in 0..Len(rs), NEW chs, NEW ends, CutAt(rs, k, chs, ends),
           ends[Len(chs)] < k, Fits(SubSeq(rs, ends[Len(chs)] + 1, k)), NEW m \in k..Len(rs)
    PROVE  \E longer : /\ CutAt(rs, m, Append(chs, SubSeq(rs, ends[Len(chs)] + 1, k)), longer)
                       /\ longer[Len(chs) + 1] = k
<1> DEFINE n == Len(chs)
           s == SubSeq(rs, ends[n] + 1, k)
           longer == [i \in 0..(n + 1) |-> IF i = n + 1 THEN k ELSE ends[i]]
<1>1. chs \in Seq(Seq(Rows)) /\ n \in Nat /\ Len(rs) \in Nat /\ ends \in [0..n -> 0..k]
  BY LenProperties DEF CutAt
<1>2. ends[n] \in 0..k /\ s \in Seq(Rows)
  <2>1. ends[n] \in 0..k
    BY <1>1
  <2>2. ends[n] \in 0..Len(rs) /\ k \in ends[n]..Len(rs)
    BY <1>1, <2>1
  <2> QED
    BY <2>1, <2>2, Slices
<1> DEFINE new == Append(chs, s)
<1>3. /\ new \in Seq(Seq(Rows)) /\ Len(new) = n + 1 /\ new[n + 1] = s
      /\ \A i \in 1..n : new[i] = chs[i]
  <2>1. s \in Seq(Rows)
    BY <1>2
  <2> HIDE DEF s
  <2> QED
    BY <1>1, <2>1, AppendProperties
<1>4. longer \in [0..(n + 1) -> 0..m] /\ longer[0] = 0 /\ longer[n + 1] = k
  <2>1. \A i \in 0..(n + 1) : i # n + 1 => i \in 0..n
    BY <1>1
  <2>2. ends[0] = 0 /\ 0 # n + 1 /\ k \in 0..m /\ 0..k \subseteq 0..m
    BY <1>1 DEF CutAt
  <2> QED
    BY <1>1, <2>1, <2>2
<1>5. ASSUME NEW i \in 1..(n + 1)
      PROVE  /\ longer[i - 1] < longer[i] /\ Fits(new[i])
             /\ new[i] = SubSeq(rs, longer[i - 1] + 1, longer[i])
  <2>1. CASE i = n + 1
    <3>1. longer[i - 1] = ends[n] /\ longer[i] = k
      BY <1>1, <2>1
    <3>2. new[i] = s
      BY <1>3, <2>1
    <3> QED
      BY <3>1, <3>2
  <2>2. CASE i # n + 1
    <3>1. i \in 1..n /\ i - 1 \in 0..n /\ i - 1 # n + 1
      BY <1>1, <2>2
    <3>2. longer[i - 1] = ends[i - 1] /\ longer[i] = ends[i] /\ new[i] = chs[i]
      BY <1>1, <1>3, <2>2, <3>1
    <3> HIDE DEF longer, new
    <3> QED
      BY <3>1, <3>2 DEF CutAt
  <2> QED
    BY <2>1, <2>2
<1>6. CutAt(rs, m, new, longer)
  <2> HIDE DEF longer, new, n, s
  <2> QED
    BY <1>3, <1>4, <1>5 DEF CutAt
<1> QED
  BY <1>4, <1>6

\* What cuts the first k rows cuts the first k + 1 but for the rest.
LEMMA CutWider ==
    ASSUME NEW rs, NEW k \in Nat, NEW chs, NEW ends, CutAt(rs, k, chs, ends)
    PROVE  CutAt(rs, k + 1, chs, ends)
<1>1. 0..k \subseteq 0..(k + 1)
  OBVIOUS
<1> QED
  BY <1>1 DEF CutAt

Cut(rs, k, acc) ==
    \E ends : /\ CutAt(rs, k, acc.full, ends)
              /\ acc = [full |-> acc.full, open |-> acc.open, bytes |-> acc.bytes]
              /\ acc.open = SubSeq(rs, ends[Len(acc.full)] + 1, k)
              /\ acc.bytes = Wrapper + Bytes(acc.open)
              /\ k > 0 => ends[Len(acc.full)] < k /\ Fits(acc.open)

\* Nothing is cut at first.
LEMMA NoneCut == ASSUME NEW rs \in Seq(Rows) PROVE Cut(rs, 0, None)
<1>1. /\ None.full = <<>> /\ None.open = <<>> /\ None.bytes = Wrapper
      /\ None = [full |-> <<>>, open |-> <<>>, bytes |-> Wrapper]
  BY DEF None
<1>2. Len(<<>>) = 0 /\ <<>> \in Seq(Seq(Rows)) /\ SubSeq(rs, 1, 0) = <<>>
  BY SubSeqEmpty
<1>3. CutAt(rs, 0, <<>>, [i \in 0..0 |-> 0])
  BY <1>2 DEF CutAt
<1>4. Bytes(<<>>) = 0 /\ Wrapper \in Nat
  BY BytesOfNone, LimitsAssumption
<1> QED
  BY <1>1, <1>2, <1>3, <1>4 DEF Cut

\* AddRow keeps the cutting: the row joins the open chunk if that still fits, or opens the
\* next.
LEMMA AddRowCuts ==
    ASSUME NEW rs \in Seq(Rows), ~Oversize(rs), NEW k \in Nat, k + 1 <= Len(rs),
           NEW acc, Cut(rs, k, acc)
    PROVE  Cut(rs, k + 1, AddRow(acc, rs[k + 1]))
<1> DEFINE row == rs[k + 1]
<1>1. PICK ends :
        /\ CutAt(rs, k, acc.full, ends)
        /\ acc = [full |-> acc.full, open |-> acc.open, bytes |-> acc.bytes]
        /\ acc.open = SubSeq(rs, ends[Len(acc.full)] + 1, k)
        /\ acc.bytes = Wrapper + Bytes(acc.open)
        /\ k > 0 => ends[Len(acc.full)] < k /\ Fits(acc.open)
  BY DEF Cut
<1> DEFINE n == Len(acc.full)
           last == ends[n]
<1>2. /\ k + 1 \in 1..Len(rs) /\ Len(rs) \in Nat /\ k \in 0..Len(rs) /\ n \in Nat /\ last \in 0..k
      /\ MaxRecords \in Nat \ {0} /\ MaxBytes \in Nat /\ Wrapper \in Nat
  <2>1. n \in Nat /\ ends \in [0..n -> 0..k] /\ Len(rs) \in Nat
    BY <1>1, LenProperties DEF CutAt
  <2>2. last \in 0..k
    BY <2>1
  <2>3. MaxRecords \in Nat \ {0} /\ MaxBytes \in Nat \ {0} /\ Wrapper \in Nat
    BY LimitsAssumption
  <2> QED
    BY <2>1, <2>2, <2>3
<1>3. row \in Rows /\ Size[row] \in Nat /\ Wrapper + Size[row] <= MaxBytes
  <2>1. row \in Rows /\ DOMAIN rs = 1..Len(rs)
    BY <1>2, ElementOfSeq, LenProperties
  <2>2. Size[row] \in Nat
    BY <2>1, LimitsAssumption
  <2> QED
    BY <1>2, <2>1, <2>2 DEF Oversize
<1>4. acc.open \in Seq(Rows) /\ Len(acc.open) = k - last /\ Bytes(acc.open) \in Nat
  <2>1. last \in 0..Len(rs) /\ k \in last..Len(rs)
    BY <1>2
  <2>2. acc.open \in Seq(Rows) /\ Len(acc.open) = k - last
    BY <1>1, <2>1, Slices
  <2> QED
    BY <2>2, BytesType
<1>7. acc.bytes = Wrapper + Bytes(acc.open)
  BY <1>1
<1> HIDE DEF row
<1>5. CASE acc.open # <<>> /\ (Len(acc.open) >= MaxRecords \/ acc.bytes + Size[row] > MaxBytes)
  <2> DEFINE new == [full |-> Append(acc.full, acc.open), open |-> <<row>>, bytes |-> Wrapper + Size[row]]
  <2>1. AddRow(acc, row) = new
    BY <1>5 DEF AddRow
  <2>2. k > 0 /\ last < k /\ Fits(acc.open)
    <3>1. k # 0
      BY <1>1, <1>2, <1>4, <1>5, SubSeqEmpty
    <3> QED
      BY <1>1, <3>1
  <2>3. PICK longer : CutAt(rs, k + 1, Append(acc.full, acc.open), longer) /\ longer[n + 1] = k
    <3>1. k + 1 \in k..Len(rs) /\ ends[Len(acc.full)] < k /\ Fits(SubSeq(rs, ends[Len(acc.full)] + 1, k))
      BY <1>1, <1>2, <2>2
    <3>2. \E longer : /\ CutAt(rs, k + 1, Append(acc.full, SubSeq(rs, ends[Len(acc.full)] + 1, k)), longer)
                      /\ longer[Len(acc.full) + 1] = k
      <4>1. CutAt(rs, k, acc.full, ends) /\ k \in 0..Len(rs)
        BY <1>1, <1>2
      <4> QED
        BY <3>1, <4>1, CutMore
    <3> QED
      BY <1>1, <3>2
  <2>4. Len(Append(acc.full, acc.open)) = n + 1
    BY <1>1, <1>4, AppendProperties DEF CutAt
  <2>5. <<row>> = SubSeq(rs, k + 1, k + 1)
    <3>1. \A i \in (k + 1)..(k + 1) : rs[i] \in Rows
      BY <1>2, ElementOfSeq
    <3>2. /\ SubSeq(rs, k + 1, k + 1) \in Seq(Rows) /\ Len(SubSeq(rs, k + 1, k + 1)) = 1
          /\ SubSeq(rs, k + 1, k + 1)[1] = rs[k + 1]
      BY <1>2, <3>1, SubSeqProperties
    <3>3. <<row>> \in Seq(Rows) /\ Len(<<row>>) = 1 /\ <<row>>[1] = row
      BY <1>3
    <3> QED
      BY <3>2, <3>3, SeqEqual DEF row
  <2>6. Bytes(<<row>>) = Size[row] /\ Fits(<<row>>)
    <3>1. Append(<<>>, row) = <<row>> /\ <<>> \in Seq(Rows) /\ Len(<<row>>) = 1
      OBVIOUS
    <3>2. Bytes(<<row>>) = Bytes(<<>>) + Size[row]
      BY <1>3, <3>1, BytesOfAppend
    <3> QED
      BY <1>2, <1>3, <3>1, <3>2, BytesOfNone DEF Fits
  <2>7. /\ new.full = Append(acc.full, acc.open) /\ new.open = <<row>>
        /\ new.bytes = Wrapper + Size[row]
        /\ new = [full |-> new.full, open |-> new.open, bytes |-> new.bytes]
    OBVIOUS
  <2>8. k + 1 > 0 /\ k < k + 1
    OBVIOUS
  <2> HIDE DEF new
  <2>9. Cut(rs, k + 1, new)
    BY <2>3, <2>4, <2>5, <2>6, <2>7, <2>8 DEF Cut
  <2> QED
    BY <2>1, <2>9 DEF row
<1>6. CASE ~(acc.open # <<>> /\ (Len(acc.open) >= MaxRecords \/ acc.bytes + Size[row] > MaxBytes))
  <2> DEFINE open == Append(acc.open, row)
             new == [full |-> acc.full, open |-> open, bytes |-> acc.bytes + Size[row]]
  <2>1. AddRow(acc, row) = new
    BY <1>1, <1>6 DEF AddRow
  <2>2. open = SubSeq(rs, last + 1, k + 1)
    <3>1. last + 1 \in 1..Len(rs) /\ k + 1 \in (last + 1)..Len(rs) /\ (k + 1) - 1 = k
      BY <1>2
    <3>2. SubSeq(rs, last + 1, k + 1) = acc.open \o <<rs[k + 1]>>
      BY <1>1, <3>1, SubSeqRecursiveSecond
    <3> QED
      BY <1>3, <1>4, <3>2, AppendIsConcat DEF row
  <2>3. Bytes(open) = Bytes(acc.open) + Size[row] /\ Len(open) = Len(acc.open) + 1
    BY <1>3, <1>4, BytesOfAppend, AppendProperties
  <2> HIDE DEF open
  <2>4. Fits(open)
    <3>1. CASE acc.open = <<>>
      <4>1. Len(open) = 1 /\ Bytes(open) = Size[row]
        BY <1>2, <1>3, <2>3, <3>1, BytesOfNone
      <4>2. 1 <= MaxRecords /\ Wrapper + Size[row] <= MaxBytes
        BY <1>2, <1>3
      <4> QED
        BY <4>1, <4>2 DEF Fits
    <3>2. CASE acc.open # <<>>
      <4>1. Len(acc.open) \in Nat /\ ~(Len(acc.open) >= MaxRecords)
            /\ ~(acc.bytes + Size[row] > MaxBytes)
        BY <1>2, <1>4, <1>6, <3>2
      <4>2. acc.bytes + Size[row] = Wrapper + Bytes(open) /\ Wrapper + Bytes(open) \in Int
        BY <1>2, <1>3, <1>4, <1>7, <2>3
      <4>3. Len(open) <= MaxRecords
        BY <1>2, <2>3, <4>1
      <4>4. Wrapper + Bytes(open) <= MaxBytes
        BY <1>2, <4>1, <4>2
      <4> QED
        BY <4>3, <4>4 DEF Fits
    <3> QED
      BY <3>1, <3>2
  <2>5. CutAt(rs, k + 1, acc.full, ends)
    BY <1>1, CutWider
  <2>6. acc.bytes + Size[row] = Wrapper + Bytes(open) /\ last < k + 1
    <3>1. acc.bytes + Size[row] = Wrapper + Bytes(open)
      BY <1>2, <1>3, <1>4, <1>7, <2>3
    <3>2. last < k + 1
      BY <1>2, <1>4, <1>7
    <3> QED
      BY <3>1, <3>2
  <2>7. Cut(rs, k + 1, new)
    BY <2>2, <2>4, <2>5, <2>6 DEF Cut
  <2> QED
    BY <2>1, <2>7 DEF row
<1> QED
  BY <1>5, <1>6

\* So every prefix of an upload is cut.
LEMMA PrefixesCut ==
    ASSUME NEW rs \in Seq(Rows), ~Oversize(rs), NEW g, Folds(rs, Len(rs), g)
    PROVE  Cut(rs, Len(rs), g[1..Len(rs)])
<1> DEFINE S == {k \in Nat : k <= Len(rs) => Cut(rs, k, g[1..k])}
<1>1. Len(rs) \in Nat
  BY LenProperties
<1>2. 0 \in S
  <2>1. 1..0 = {} /\ {} \in SUBSET (1..Len(rs))
    OBVIOUS
  <2>2. g[{}] = None
    BY <2>1 DEF Folds
  <2> QED
    BY <2>1, <2>2, NoneCut
<1>3. ASSUME NEW k \in Nat, k \in S PROVE k + 1 \in S
  <2> SUFFICES ASSUME k + 1 <= Len(rs) PROVE Cut(rs, k + 1, g[1..(k + 1)])
    OBVIOUS
  <2>1. Cut(rs, k, g[1..k])
    BY <1>1, <1>3
  <2>2. /\ 1..(k + 1) \in SUBSET (1..Len(rs)) /\ 1..(k + 1) # {} /\ k + 1 \in 1..(k + 1)
        /\ (1..(k + 1)) \ {k + 1} = 1..k
    BY <1>1
  <2>3. Max(1..(k + 1)) = k + 1
    BY <2>2, MaxOfPrefix
  <2>4. g[1..(k + 1)] = AddRow(g[(1..(k + 1)) \ {Max(1..(k + 1))}], rs[Max(1..(k + 1))])
    <3> DEFINE s == 1..(k + 1)
    <3>1. s \in SUBSET (1..Len(rs)) /\ s # {}
      BY <2>2
    <3> HIDE DEF s
    <3>2. g[s] = AddRow(g[s \ {Max(s)}], rs[Max(s)])
      BY <3>1 DEF Folds
    <3> QED
      BY <3>2 DEF s
  <2>5. g[1..(k + 1)] = AddRow(g[1..k], rs[k + 1])
    BY <2>2, <2>3, <2>4
  <2> QED
    BY <2>1, <2>5, AddRowCuts
<1> HIDE DEF S
<1>4. Nat \subseteq S
  BY <1>2, <1>3, Induction
<1> QED
  BY <1>1, <1>4 DEF S

\* The chunks of an upload, one after another, are its rows.
Cuts(rs, ends) ==
    CutAt(rs, Len(rs), ChunksOf[rs], ends) /\ ends[Len(ChunksOf[rs])] = Len(rs)

LEMMA ChunksCut ==
    ASSUME NEW rs \in Uploads, ~Oversize(rs) PROVE \E ends : Cuts(rs, ends)
<1> DEFINE acc == FoldLeft(AddRow, None, rs)
<1>1. rs \in Seq(Rows) /\ Len(rs) \in Nat
  BY LimitsAssumption, LenProperties
<1>2. ChunksOf[rs] = IF acc.open = <<>> THEN acc.full ELSE Append(acc.full, acc.open)
  BY DEF ChunksOf, chunkSealedRecords, None
<1>3. Cut(rs, Len(rs), acc)
  BY <1>1, FoldLeftFolds, PrefixesCut
<1> HIDE DEF acc
<1>4. PICK ends :
        /\ CutAt(rs, Len(rs), acc.full, ends)
        /\ acc.open = SubSeq(rs, ends[Len(acc.full)] + 1, Len(rs))
        /\ Len(rs) > 0 => ends[Len(acc.full)] < Len(rs) /\ Fits(acc.open)
  BY <1>3 DEF Cut
<1>5. ends[Len(acc.full)] \in 0..Len(rs) /\ acc.full \in Seq(Seq(Rows))
  BY <1>4, LenProperties DEF CutAt
<1>6. acc.open \in Seq(Rows) /\ Len(acc.open) = Len(rs) - ends[Len(acc.full)]
  <2>1. Len(rs) \in ends[Len(acc.full)]..Len(rs)
    BY <1>1, <1>5
  <2> QED
    BY <1>1, <1>4, <1>5, <2>1, Slices
<1>7. CASE acc.open = <<>>
  <2>1. ends[Len(acc.full)] = Len(rs)
    BY <1>1, <1>5, <1>6, <1>7
  <2> QED
    BY <1>2, <1>4, <1>7, <2>1 DEF Cuts
<1>8. CASE acc.open # <<>>
  <2>1. ends[Len(acc.full)] < Len(rs) /\ Fits(acc.open)
    <3>1. Len(rs) # 0
      BY <1>4, <1>5, <1>8, SubSeqEmpty
    <3> QED
      BY <1>1, <1>4, <3>1
  <2>2. Len(rs) \in 0..Len(rs) /\ Len(rs) \in Len(rs)..Len(rs)
    BY <1>1
  <2>3. PICK longer : /\ CutAt(rs, Len(rs), Append(acc.full, acc.open), longer)
                      /\ longer[Len(acc.full) + 1] = Len(rs)
    <3>1. PICK k, chs : k = Len(rs) /\ chs = acc.full
      OBVIOUS
    <3>2. /\ CutAt(rs, k, chs, ends) /\ ends[Len(chs)] < k
          /\ Fits(SubSeq(rs, ends[Len(chs)] + 1, k)) /\ k \in 0..Len(rs) /\ k \in k..Len(rs)
      BY <1>4, <2>1, <2>2, <3>1
    <3>3. \E longer : /\ CutAt(rs, k, Append(chs, SubSeq(rs, ends[Len(chs)] + 1, k)), longer)
                      /\ longer[Len(chs) + 1] = k
      BY <1>1, <3>2, CutMore
    <3> QED
      BY <1>4, <3>1, <3>3
  <2>4. Len(Append(acc.full, acc.open)) = Len(acc.full) + 1
    BY <1>5, <1>6, AppendProperties
  <2> QED
    BY <1>2, <1>8, <2>3, <2>4 DEF Cuts
<1> QED
  BY <1>7, <1>8

\* The chunks of an upload are its rows, cut without gap, overlap or empty chunk, and each is
\* within the bounds of the page, for any number of rows of any sizes (chunkSealedRecords).
THEOREM ChunksAreTheRows ==
    ASSUME NEW rs \in Uploads, ~Oversize(rs)
    PROVE  \E ends \in [0..Len(ChunksOf[rs]) -> 0..Len(rs)] :
             /\ ends[0] = 0 /\ ends[Len(ChunksOf[rs])] = Len(rs)
             /\ \A i \in 1..Len(ChunksOf[rs]) :
                  /\ ends[i - 1] < ends[i]
                  /\ ChunksOf[rs][i] = SubSeq(rs, ends[i - 1] + 1, ends[i])
                  /\ Len(ChunksOf[rs][i]) <= MaxRecords
                  /\ Wrapper + Bytes(ChunksOf[rs][i]) <= MaxBytes
BY ChunksCut DEF Cuts, CutAt, Fits

\* Where each chunk ends.
Ends(rs) == CHOOSE ends : Cuts(rs, ends)

\* So the server takes each chunk.
LEMMA EachChunk ==
    ASSUME NEW rs \in Uploads, ~Oversize(rs)
    PROVE  /\ rs \in Seq(Rows) /\ Len(rs) \in Nat /\ Len(ChunksOf[rs]) \in Nat
           /\ Ends(rs)[0] = 0 /\ Ends(rs)[Len(ChunksOf[rs])] = Len(rs)
           /\ rs # <<>> => Len(ChunksOf[rs]) > 0
           /\ \A i \in 0..Len(ChunksOf[rs]) : Ends(rs)[i] \in 0..Len(rs)
           /\ \A i \in 1..Len(ChunksOf[rs]) :
                /\ Accepts(ChunksOf[rs][i]) /\ ChunksOf[rs][i] \in Seq(Rows)
                /\ Ends(rs)[i - 1] < Ends(rs)[i]
                /\ ChunksOf[rs][i] = SubSeq(rs, Ends(rs)[i - 1] + 1, Ends(rs)[i])
<1> DEFINE chs == ChunksOf[rs]
           ends == Ends(rs)
<1>1. CutAt(rs, Len(rs), chs, ends) /\ ends[Len(chs)] = Len(rs)
  BY ChunksCut DEF Cuts, Ends
<1> HIDE DEF chs, ends
<1>2. rs \in Seq(Rows) /\ Len(rs) \in Nat /\ chs \in Seq(Seq(Rows)) /\ Len(chs) \in Nat
  BY <1>1, LimitsAssumption, LenProperties DEF CutAt
<1>3. ends[0] = 0 /\ \A i \in 0..Len(chs) : ends[i] \in 0..Len(rs)
  BY <1>1 DEF CutAt
<1>4. rs # <<>> => Len(chs) > 0
  <2>1. rs # <<>> => Len(rs) \in Nat \ {0}
    BY <1>2, EmptySeq
  <2> QED
    BY <1>1, <1>2, <1>3, <2>1
<1>5. ASSUME NEW i \in 1..Len(chs)
      PROVE  /\ Accepts(chs[i]) /\ chs[i] \in Seq(Rows) /\ ends[i - 1] < ends[i]
             /\ chs[i] = SubSeq(rs, ends[i - 1] + 1, ends[i])
  <2>1. chs[i] \in Seq(Rows)
    BY <1>2, ElementOfSeq
  <2>2. Fits(chs[i]) /\ ends[i - 1] < ends[i] /\ chs[i] = SubSeq(rs, ends[i - 1] + 1, ends[i])
    BY <1>1 DEF CutAt
  <2>3. Len(chs[i]) \in Nat /\ Bytes(chs[i]) \in Nat
    BY <2>1, BytesType, LenProperties
  <2>4. Len(chs[i]) <= BatchRecords /\ Wrapper + Bytes(chs[i]) <= RequestBytes
    <3>1. /\ MaxRecords \in Nat /\ MaxBytes \in Nat /\ BatchRecords \in Nat /\ RequestBytes \in Nat
          /\ Wrapper \in Nat /\ MaxRecords <= BatchRecords /\ MaxBytes <= RequestBytes
      BY LimitsAssumption, ClientFitsServer
    <3>2. Len(chs[i]) <= MaxRecords /\ Wrapper + Bytes(chs[i]) <= MaxBytes
      BY <2>2 DEF Fits
    <3> QED
      BY <2>3, <3>1, <3>2
  <2> QED
    BY <2>1, <2>2, <2>4 DEF Accepts, Bytes
<1> QED
  BY <1>1, <1>2, <1>3, <1>4, <1>5 DEF chs, ends
-----------------------------------------------------------------------------
(* The inductive invariant *)

Typed == TypeOK /\ served = [b \in Buckets |-> served[b]]

(* A row counts at least what was let through in its window, and a window lets through no
   more than its limit: neither the one that runs nor, as far as it is not a window's length
   ago, the one before. *)
CountedIn(b) ==
    LET through == SumTo(served[b], Elapsed(b[1]))
    IN  /\ through <= Limit[b[1]]
        /\ Current(b) = {} => through = 0
        /\ \A r \in Current(b) : through <= r.count
        /\ SumTo(served[b], Window[b[1]] - 1) - through <= Limit[b[1]]

Counted == \A b \in Buckets : CountedIn(b)

(* Sign-ins that were let through and have not failed yet add to the failures. *)
Checked == {c \in Clients : client[c].st = "checked"}

Admitted == SumTo(failures, LockSpan) + Cardinality(Checked) <= MaxFail + Cardinality(Clients) - 1

(* What is stored of an upload that runs is the rows of the chunks before the one it sends. *)
Progress(c) ==
    LET r == client[c]
    IN  /\ r.st \in {"send", "sleep"} =>
             /\ r.role = "upload" /\ r.rows \in Uploads /\ ~Oversize(r.rows)
             /\ r.chunk \in 1..Len(ChunksOf[r.rows])
             /\ got[c] = SubSeq(r.rows, 1, Ends(r.rows)[r.chunk - 1])
        /\ r.st # "rejected"
        /\ IsPrefix(got[c], r.rows)
        /\ r.st = "done" => got[c] = r.rows
        /\ r.st = "oversize" => got[c] = <<>>

(* A page sleeps for the rest of the window it was refused in, so that each refusal of its
   chunk is in a window of its own; after one, nobody else has counted in the next. *)
Waits(c) ==
    LET r == client[c]
        w == refused[c]
    IN  /\ r.st = "send" =>
             /\ w.windows = r.attempt /\ ~w.here
             /\ Alone(c) /\ r.attempt > 0 => Current(Bucket(c)) = {}
        /\ r.st = "sleep" =>
             /\ r.attempt < Retries /\ w.windows = r.attempt + 1
             /\ w.here => r.wait = Left("upload")
             /\ Alone(c) => r.attempt = 0 /\ (~w.here => Current(Bucket(c)) = {})
        /\ r.st = "gaveup" => w.windows = Retries + 1 /\ ~Alone(c)

Orderly == \A c \in Clients : Progress(c) /\ Waits(c)

IInv == Typed /\ Counted /\ Admitted /\ Orderly
-----------------------------------------------------------------------------
(* Types *)

\* The assumptions, as the proofs use them.
LEMMA Constants ==
    /\ MaxRecords \in Nat \ {0} /\ MaxBytes \in Nat \ {0} /\ MaxFail \in Nat \ {0}
    /\ Retries \in Nat \ {0} /\ MaxSleep \in Nat /\ LockSpan \in Nat /\ AnnounceSpan \in Nat
    /\ Period \in Nat \ {0} /\ "upload" \in Groups /\ "login_verify" \in Groups
    /\ \A g \in Groups : Limit[g] \in Nat \ {0} /\ Window[g] \in Nat \ {0}
    /\ \A b \in Buckets : b[1] \in Groups
    /\ Window["upload"] <= MaxSleep /\ Ages = 0..LockSpan
BY LimitsAssumption, ClientFitsServer DEF Groups, Buckets, Ages

LEMMA BucketType ==
    ASSUME TypeOK, NEW c \in Clients
    PROVE  Bucket(c) \in Buckets /\ Group(c) \in Groups /\ Bucket(c)[1] = Group(c)
<1>1. client[c].who \in Principals /\ Group(c) \in Groups
  BY Constants DEF TypeOK, Client, Group
<1> QED
  BY <1>1 DEF Bucket, Buckets

\* The count is that of some row of the running window.
LEMMA CountType ==
    ASSUME TypeOK, NEW b \in Buckets
    PROVE  /\ Count(b) \in Nat /\ \A r \in Current(b) : r \in rows /\ r.count \in Nat
           /\ Current(b) # {} => \E r \in Current(b) : Count(b) = r.count
<1>1. \A r \in Current(b) : r \in rows /\ r.count \in Nat
  BY DEF Current, TypeOK, Row
<1> QED
  BY <1>1 DEF Count

\* The row that a request leaves in its bucket.
Counting(b) == [bucket |-> b, left |-> Left(b[1]), count |-> Least(Count(b), Limit[b[1]]) + 1]

LEMMA CountingType ==
    ASSUME TypeOK, NEW b \in Buckets
    PROVE  /\ Counting(b) \in Row /\ Counting(b).bucket = b /\ Counting(b).left = Left(b[1])
           /\ Left(b[1]) \in 1..Window[b[1]] /\ Counting(b).count <= Limit[b[1]] + 1
           /\ Counting(b).count = IF Within(b) THEN Count(b) + 1 ELSE Limit[b[1]] + 1
<1>1. Left(b[1]) \in 1..Window[b[1]] /\ Window[b[1]] \in Nat /\ Limit[b[1]] \in Nat /\ Count(b) \in Nat
  BY Constants, CountType, ElapsedSteps DEF TypeOK
<1>2. Least(Count(b), Limit[b[1]]) + 1 = IF Within(b) THEN Count(b) + 1 ELSE Limit[b[1]] + 1
  BY <1>1 DEF Least, Within
<1> QED
  BY <1>1, <1>2 DEF Counting, Row, Within

\* A request replaces the row of its bucket and window; the clean-up deletes no row that
\* counts.
LEMMA CountRequestRows ==
    ASSUME TypeOK, NEW b \in Buckets, CountRequest(b)
    PROVE  /\ rows' \subseteq (rows \ Current(b)) \cup {Counting(b)} /\ Counting(b) \in rows'
           /\ \A r \in rows : r \notin Current(b) /\ r.left >= 0 => r \in rows'
           /\ served' = IF Within(b) THEN [served EXCEPT ![b] = [served[b] EXCEPT ![0] = served[b][0] + 1]]
                                     ELSE served
<1> DEFINE counted == (rows \ Current(b)) \cup {Counting(b)}
<1>1. rows' = counted \/ rows' = counted \ Expired(counted)
  BY DEF CountRequest, Counting
<1>2. \A r \in counted : r.left >= 0 => r \notin Expired(counted)
  <2>1. \A r \in counted : r.left \in Int
    BY CountingType DEF TypeOK, Row
  <2> HIDE DEF counted
  <2> QED
    BY <2>1 DEF Expired
<1>3. Counting(b).left >= 0
  BY CountingType, Constants
<1>4. served' = IF Within(b) THEN [served EXCEPT ![b] = [served[b] EXCEPT ![0] = served[b][0] + 1]]
                             ELSE served
  BY DEF CountRequest
<1> QED
  BY <1>1, <1>2, <1>3, <1>4

LEMMA CountRequestType ==
    ASSUME Typed, NEW b \in Buckets, CountRequest(b)
    PROVE  /\ \A r \in rows' : r \in Row /\ r.left \in (-1)..Window[r.bucket[1]]
                               /\ r.count <= Limit[r.bucket[1]] + 1
           /\ \A x \in Buckets : served'[x] \in [0..(Window[x[1]] - 1) -> Nat]
           /\ served' = [x \in Buckets |-> served'[x]]
<1>1. TypeOK /\ served = [x \in Buckets |-> served[x]]
  BY DEF Typed
<1>2. \A r \in rows' : r \in rows \/ r = Counting(b)
  BY <1>1, CountRequestRows
<1>3. Counting(b).left \in (-1)..Window[b[1]]
  BY <1>1, CountingType, Constants
<1>4. \A r \in rows' : /\ r \in Row /\ r.left \in (-1)..Window[r.bucket[1]]
                       /\ r.count <= Limit[r.bucket[1]] + 1
  <2>1. ASSUME NEW r \in rows
        PROVE  /\ r \in Row /\ r.left \in (-1)..Window[r.bucket[1]]
               /\ r.count <= Limit[r.bucket[1]] + 1
    BY <1>1 DEF TypeOK
  <2>2. ASSUME NEW r, r = Counting(b)
        PROVE  /\ r \in Row /\ r.left \in (-1)..Window[r.bucket[1]]
               /\ r.count <= Limit[r.bucket[1]] + 1
    BY <1>1, <1>3, <2>2, CountingType
  <2> QED
    BY <1>2, <2>1, <2>2
<1>5. [served[b] EXCEPT ![0] = served[b][0] + 1] \in [0..(Window[b[1]] - 1) -> Nat]
  <2>1. served[b] \in [0..(Window[b[1]] - 1) -> Nat] /\ 0 \in 0..(Window[b[1]] - 1)
    <3>1. served[b] \in [0..(Window[b[1]] - 1) -> Nat]
      BY <1>1 DEF TypeOK
    <3>2. Window[b[1]] \in Nat \ {0}
      BY Constants
    <3> QED
      BY <3>1, <3>2
  <2>2. PICK f \in [0..(Window[b[1]] - 1) -> Nat] : f = served[b]
    BY <2>1
  <2>3. f[0] + 1 \in Nat
    BY <2>1
  <2>4. [f EXCEPT ![0] = f[0] + 1] \in [0..(Window[b[1]] - 1) -> Nat]
    BY <2>3
  <2> QED
    BY <2>2, <2>4
<1>6. \/ served' = served
      \/ served' = [served EXCEPT ![b] = [served[b] EXCEPT ![0] = served[b][0] + 1]]
  BY <1>1, CountRequestRows
<1>7. \A x \in Buckets : served'[x] \in [0..(Window[x[1]] - 1) -> Nat]
  BY <1>1, <1>5, <1>6 DEF TypeOK
<1>8. served' = [x \in Buckets |-> served'[x]]
  BY <1>1, <1>6
<1> QED
  BY <1>4, <1>7, <1>8

\* What no request and no client changes but in one way.
LEMMA TypedFrom ==
    ASSUME Typed, now' = now, UNCHANGED <<rows, served>> \/ \E b \in Buckets : CountRequest(b),
           failures' \in [Ages -> Nat], locked' \in 0..Never, client' \in [Clients -> Client],
           got' \in [Clients -> Seq(Rows)],
           refused' \in [Clients -> [windows : 0..(Retries + 1), here : BOOLEAN]]
    PROVE  Typed'
<1>1. /\ \A r \in rows' : r \in Row /\ r.left \in (-1)..Window[r.bucket[1]]
                          /\ r.count <= Limit[r.bucket[1]] + 1
      /\ \A x \in Buckets : served'[x] \in [0..(Window[x[1]] - 1) -> Nat]
      /\ served' = [x \in Buckets |-> served'[x]]
  <2>1. CASE UNCHANGED <<rows, served>>
    BY <2>1 DEF Typed, TypeOK
  <2>2. CASE \E b \in Buckets : CountRequest(b)
    BY <2>2, CountRequestType
  <2> QED
    BY <2>1, <2>2
<1>2. now' \in 0..(Period - 1)
  BY DEF Typed, TypeOK
<1> QED
  BY <1>1, <1>2 DEF Typed, TypeOK

\* A client's steps change its own memory, and neither its role nor who it is.
OnlyChanges(c, new) == client' = [client EXCEPT ![c] = new]

LEMMA ClientType ==
    ASSUME TypeOK, NEW c \in Clients, NEW new \in Client, OnlyChanges(c, new)
    PROVE  client' \in [Clients -> Client] /\ client'[c] = new /\ \A d \in Clients \ {c} : client'[d] = client[d]
BY DEF TypeOK, OnlyChanges

Other(c) ==
    \A d \in Clients \ {c} : client'[d] = client[d] /\ got'[d] = got[d] /\ refused'[d] = refused[d]

\* What all steps of a client have in common.
Moves(c) ==
    /\ now' = now /\ Other(c)
    /\ client'[c].role = client[c].role /\ client'[c].who = client[c].who
    /\ UNCHANGED <<rows, served>> \/ CountRequest(Bucket(c))

\* Each step of a client: that it is well typed, and what it does to its client.
LEMMA StartUploadStep ==
    ASSUME Typed, NEW c \in Clients, StartUpload(c)
    PROVE  /\ Typed' /\ Moves(c) /\ UNCHANGED <<rows, served, failures>>
           /\ got'[c] = <<>> /\ refused'[c] = [windows |-> 0, here |-> FALSE]
           /\ client[c].st # "checked" /\ client'[c].role = "upload"
           /\ client'[c].rows \in Uploads /\ client'[c].chunk = 1 /\ client'[c].attempt = 0
           /\ client'[c].st = IF Oversize(client'[c].rows) THEN "oversize"
                              ELSE IF client'[c].rows = <<>> THEN "done" ELSE "send"
<1>1. /\ TypeOK /\ client[c].role = "upload" /\ client[c].st \in Resting
      /\ got' = [got EXCEPT ![c] = <<>>]
      /\ refused' = [refused EXCEPT ![c] = [windows |-> 0, here |-> FALSE]]
      /\ UNCHANGED <<now, rows, failures, locked, served>>
  BY DEF StartUpload, Typed
<1>2. PICK rs, st :
        /\ rs \in Uploads
        /\ st = CASE Oversize(rs) -> "oversize" [] rs = <<>> -> "done" [] OTHER -> "send"
        /\ client' = [client EXCEPT ![c] = [Idle("upload", client[c].who) EXCEPT !.st = st, !.rows = rs,
                                                                                  !.chunk = 1]]
  BY DEF StartUpload
<1>3. st = IF Oversize(rs) THEN "oversize" ELSE IF rs = <<>> THEN "done" ELSE "send"
  <2>1. <<>> \in Seq(Rows) /\ ~Oversize(<<>>)
    BY DEF Oversize
  <2> QED
    BY <1>2, <2>1
<1> DEFINE new == [Idle("upload", client[c].who) EXCEPT !.st = st, !.rows = rs, !.chunk = 1]
<1>4. new \in Client
  <2>1. rs \in Seq(Rows) /\ st \in States /\ client[c].who \in Principals
    <3>1. rs \in Seq(Rows)
      BY <1>2, LimitsAssumption
    <3>2. st \in States
      BY <1>3 DEF States
    <3>3. client[c].who \in Principals
      BY <1>1 DEF TypeOK, Client
    <3> QED
      BY <3>1, <3>2, <3>3
  <2> QED
    <3>1. 0 \in Nat /\ 0 \in 0..Retries /\ 0 \in 0..MaxSleep /\ 0 \in 0..TooOld
      BY Constants DEF TooOld
    <3> DEFINE i == Idle("upload", client[c].who)
    <3>2. i \in Client
      BY <2>1, <3>1 DEF Idle, Client, States
    <3> HIDE DEF i
    <3>3. [i EXCEPT !.st = st, !.rows = rs, !.chunk = 1] \in Client
      BY <2>1, <3>2 DEF Client
    <3> QED
      BY <3>3 DEF i
<1>5. /\ new.role = "upload" /\ new.who = client[c].who /\ new.st = st /\ new.rows = rs
      /\ new.chunk = 1 /\ new.attempt = 0
  BY DEF Idle
<1> HIDE DEF new
<1>6. client' \in [Clients -> Client] /\ client'[c] = new /\ \A d \in Clients \ {c} : client'[d] = client[d]
  BY <1>1, <1>2, <1>4, ClientType DEF OnlyChanges, new
<1>7. /\ got' \in [Clients -> Seq(Rows)] /\ got'[c] = <<>>
      /\ refused' \in [Clients -> [windows : 0..(Retries + 1), here : BOOLEAN]]
      /\ refused'[c] = [windows |-> 0, here |-> FALSE]
      /\ \A d \in Clients \ {c} : got'[d] = got[d] /\ refused'[d] = refused[d]
  <2>1. /\ got' \in [Clients -> Seq(Rows)] /\ got'[c] = <<>>
        /\ \A d \in Clients \ {c} : got'[d] = got[d]
    <3>1. got \in [Clients -> Seq(Rows)] /\ <<>> \in Seq(Rows)
      BY <1>1 DEF TypeOK
    <3> QED
      BY <1>1, <3>1
  <2>2. /\ refused' \in [Clients -> [windows : 0..(Retries + 1), here : BOOLEAN]]
        /\ refused'[c] = [windows |-> 0, here |-> FALSE]
        /\ \A d \in Clients \ {c} : refused'[d] = refused[d]
    <3>1. refused \in [Clients -> [windows : 0..(Retries + 1), here : BOOLEAN]]
      BY <1>1 DEF TypeOK
    <3>2. [windows |-> 0, here |-> FALSE] \in [windows : 0..(Retries + 1), here : BOOLEAN]
      BY Constants
    <3> QED
      BY <1>1, <3>1, <3>2
  <2> QED
    BY <2>1, <2>2
<1>8. Typed'
  BY <1>1, <1>6, <1>7, TypedFrom DEF TypeOK
<1>9. Moves(c)
  BY <1>1, <1>5, <1>6, <1>7 DEF Moves, Other
<1>10. client[c].st # "checked"
  BY <1>1 DEF Resting
<1> QED
  BY <1>1, <1>2, <1>3, <1>5, <1>6, <1>7, <1>8, <1>9, <1>10

LEMMA PostRefusedStep ==
    ASSUME Typed, NEW c \in Clients, PostRefused(c)
    PROVE  /\ Typed' /\ Moves(c) /\ CountRequest(Bucket(c)) /\ ~Within(Bucket(c)) /\ UNCHANGED failures
           /\ client[c].st = "send" /\ got'[c] = got[c]
           /\ client'[c].rows = client[c].rows /\ client'[c].chunk = client[c].chunk
           /\ client'[c].attempt = client[c].attempt
           /\ IF client[c].attempt < Retries
              THEN client'[c].st = "sleep" /\ client'[c].wait = Pause(RetryAfter("upload"))
              ELSE client'[c].st = "gaveup"
           /\ refused'[c].windows = IF refused[c].here THEN refused[c].windows
                                    ELSE Least(refused[c].windows + 1, Retries + 1)
           /\ refused'[c].here = TRUE
<1>1. /\ TypeOK /\ client[c].st = "send" /\ ~Within(Bucket(c)) /\ CountRequest(Bucket(c))
      /\ UNCHANGED <<now, failures, locked, got>>
  BY DEF PostRefused, Typed
<1>2. client[c] \in Client /\ refused[c] \in [windows : 0..(Retries + 1), here : BOOLEAN]
  BY <1>1 DEF TypeOK
<1>3. Pause(RetryAfter("upload")) \in 0..MaxSleep
  <2>1. Left("upload") \in Nat
    BY <1>1, Constants, ElapsedSteps DEF TypeOK
  <2> QED
    BY <2>1, Constants DEF Pause, RetryAfter, Least, Most
<1>4. PICK new : new = IF client[c].attempt < Retries
                       THEN [client[c] EXCEPT !.st = "sleep", !.wait = Pause(RetryAfter("upload"))]
                       ELSE [client[c] EXCEPT !.st = "gaveup"]
  OBVIOUS
<1>5. /\ new \in Client /\ new.role = client[c].role /\ new.who = client[c].who
      /\ new.rows = client[c].rows /\ new.chunk = client[c].chunk /\ new.attempt = client[c].attempt
      /\ IF client[c].attempt < Retries THEN new.st = "sleep" /\ new.wait = Pause(RetryAfter("upload"))
                                        ELSE new.st = "gaveup"
  BY <1>2, <1>3, <1>4 DEF Client, States
<1>6. client' = [client EXCEPT ![c] = new]
  BY <1>4 DEF PostRefused, MayRetry
<1>7. client' \in [Clients -> Client] /\ client'[c] = new /\ \A d \in Clients \ {c} : client'[d] = client[d]
  BY <1>1, <1>5, <1>6, ClientType DEF OnlyChanges
<1>8. PICK x : x = IF refused[c].here THEN refused[c].windows ELSE Least(refused[c].windows + 1, Retries + 1)
  OBVIOUS
<1>9. PICK w \in [windows : 0..(Retries + 1), here : BOOLEAN] :
        w = [refused[c] EXCEPT !.windows = x, !.here = TRUE] /\ w.windows = x /\ w.here = TRUE
  <2>1. x \in 0..(Retries + 1)
    BY <1>2, <1>8, Constants DEF Least
  <2> DEFINE w == [refused[c] EXCEPT !.windows = x, !.here = TRUE]
  <2>2. w \in [windows : 0..(Retries + 1), here : BOOLEAN]
    BY <1>2, <2>1
  <2>3. w.windows = x /\ w.here = TRUE
    BY <1>2
  <2> QED
    BY <2>2, <2>3
<1>10. refused' = [refused EXCEPT ![c] = w]
  <2>1. refused' = [refused EXCEPT ![c].windows = x, ![c].here = TRUE]
    BY <1>8 DEF PostRefused
  <2> QED
    BY <1>1, <1>9, <2>1 DEF TypeOK
<1>11. /\ refused' \in [Clients -> [windows : 0..(Retries + 1), here : BOOLEAN]] /\ refused'[c] = w
       /\ \A d \in Clients \ {c} : refused'[d] = refused[d]
  BY <1>1, <1>9, <1>10 DEF TypeOK
<1>12. Bucket(c) \in Buckets
  BY <1>1, BucketType
<1>13. Typed'
  BY <1>1, <1>7, <1>11, <1>12, TypedFrom DEF TypeOK
<1> QED
  BY <1>1, <1>5, <1>7, <1>8, <1>9, <1>11, <1>13 DEF Moves, Other

LEMMA PostStoredStep ==
    ASSUME Typed, Orderly, NEW c \in Clients, PostStored(c)
    PROVE  /\ Typed' /\ Moves(c) /\ CountRequest(Bucket(c)) /\ Within(Bucket(c)) /\ UNCHANGED failures
           /\ client[c].st = "send" /\ got'[c] = got[c] \o ChunksOf[client[c].rows][client[c].chunk]
           /\ client'[c].rows = client[c].rows /\ client'[c].chunk = client[c].chunk + 1
           /\ client'[c].attempt = 0
           /\ client'[c].st = IF client[c].chunk = Len(ChunksOf[client[c].rows]) THEN "done" ELSE "send"
           /\ refused'[c] = [windows |-> 0, here |-> FALSE]
<1>1. /\ TypeOK /\ client[c].st = "send" /\ Within(Bucket(c)) /\ CountRequest(Bucket(c))
      /\ UNCHANGED <<now, failures, locked>>
      /\ refused' = [refused EXCEPT ![c] = [windows |-> 0, here |-> FALSE]]
  BY DEF PostStored, Typed
<1>2. client[c] \in Client /\ got[c] \in Seq(Rows)
  BY <1>1 DEF TypeOK
<1>3. PICK chunk : chunk = ChunksOf[client[c].rows][client[c].chunk]
  OBVIOUS
<1>4. Accepts(chunk) /\ chunk \in Seq(Rows)
  <2>1. /\ client[c].rows \in Uploads /\ ~Oversize(client[c].rows)
        /\ client[c].chunk \in 1..Len(ChunksOf[client[c].rows])
    BY <1>1 DEF Orderly, Progress
  <2> QED
    BY <1>3, <2>1, EachChunk
<1>5. PICK new : new = [client[c] EXCEPT !.chunk = client[c].chunk + 1, !.attempt = 0,
                          !.st = IF client[c].chunk = Len(ChunksOf[client[c].rows]) THEN "done" ELSE "send"]
  OBVIOUS
<1>6. /\ new \in Client /\ new.role = client[c].role /\ new.who = client[c].who
      /\ new.rows = client[c].rows /\ new.chunk = client[c].chunk + 1 /\ new.attempt = 0
      /\ new.st = IF client[c].chunk = Len(ChunksOf[client[c].rows]) THEN "done" ELSE "send"
  <2>1. client[c].chunk + 1 \in Nat /\ 0 \in 0..Retries /\ "done" \in States /\ "send" \in States
    BY <1>2, Constants DEF Client, States
  <2> QED
    BY <1>2, <1>5, <2>1 DEF Client
<1>7. client' = [client EXCEPT ![c] = new] /\ got' = [got EXCEPT ![c] = got[c] \o chunk]
  <2>1. client' = [client EXCEPT ![c] = [client[c] EXCEPT !.chunk = client[c].chunk + 1, !.attempt = 0,
                      !.st = IF client[c].chunk = Len(ChunksOf[client[c].rows]) THEN "done" ELSE "send"]]
    <3>1. PICK st :
            st = IF ~Accepts(chunk) THEN "rejected"
                 ELSE IF client[c].chunk = Len(ChunksOf[client[c].rows]) THEN "done" ELSE "send"
      OBVIOUS
    <3>2. client' = [client EXCEPT ![c] = [client[c] EXCEPT !.chunk = client[c].chunk + 1, !.attempt = 0,
                         !.st = IF ~Accepts(chunk) THEN "rejected"
                                ELSE IF client[c].chunk = Len(ChunksOf[client[c].rows]) THEN "done" ELSE "send"]]
      BY <1>3 DEF PostStored, Chunks
    <3>3. st = IF client[c].chunk = Len(ChunksOf[client[c].rows]) THEN "done" ELSE "send"
      BY <1>4, <3>1
    <3> QED
      BY <3>1, <3>2, <3>3
  <2>2. got' = [got EXCEPT ![c] = got[c] \o chunk]
    BY <1>3, <1>4 DEF PostStored, Chunks
  <2> QED
    BY <1>5, <2>1, <2>2
<1>8. client' \in [Clients -> Client] /\ client'[c] = new /\ \A d \in Clients \ {c} : client'[d] = client[d]
  BY <1>1, <1>6, <1>7, ClientType DEF OnlyChanges
<1>9. got[c] \o chunk \in Seq(Rows)
  BY <1>2, <1>4, ConcatProperties
<1>10. /\ got' \in [Clients -> Seq(Rows)] /\ got'[c] = got[c] \o chunk
       /\ refused' \in [Clients -> [windows : 0..(Retries + 1), here : BOOLEAN]]
       /\ refused'[c] = [windows |-> 0, here |-> FALSE]
       /\ \A d \in Clients \ {c} : got'[d] = got[d] /\ refused'[d] = refused[d]
  <2>1. got \in [Clients -> Seq(Rows)] /\ refused \in [Clients -> [windows : 0..(Retries + 1), here : BOOLEAN]]
        /\ [windows |-> 0, here |-> FALSE] \in [windows : 0..(Retries + 1), here : BOOLEAN]
    BY <1>1, Constants DEF TypeOK
  <2> QED
    BY <1>1, <1>7, <1>9, <2>1
<1>11. Bucket(c) \in Buckets
  BY <1>1, BucketType
<1>12. Typed'
  BY <1>1, <1>8, <1>10, <1>11, TypedFrom DEF TypeOK
<1> QED
  BY <1>1, <1>3, <1>6, <1>8, <1>10, <1>12 DEF Moves, Other

LEMMA PostFailsStep ==
    ASSUME Typed, Orderly, NEW c \in Clients, PostFails(c)
    PROVE  /\ Typed' /\ Moves(c) /\ UNCHANGED failures /\ client[c].st = "send" /\ client'[c].st = "failed"
           /\ client'[c].rows = client[c].rows /\ refused'[c] = refused[c]
           /\ \/ got'[c] = got[c]
              \/ got'[c] = got[c] \o ChunksOf[client[c].rows][client[c].chunk]
<1>1. /\ TypeOK /\ client[c].st = "send" /\ UNCHANGED <<now, failures, locked, refused>>
      /\ client' = [client EXCEPT ![c].st = "failed"]
      /\ UNCHANGED <<rows, served>> \/ CountRequest(Bucket(c))
  BY DEF PostFails, Typed
<1>2. client[c] \in Client /\ got \in [Clients -> Seq(Rows)] /\ got[c] \in Seq(Rows)
  BY <1>1 DEF TypeOK
<1>3. PICK chunk \in Seq(Rows) : chunk = ChunksOf[client[c].rows][client[c].chunk]
  <2>1. /\ client[c].rows \in Uploads /\ ~Oversize(client[c].rows)
        /\ client[c].chunk \in 1..Len(ChunksOf[client[c].rows])
    BY <1>1 DEF Orderly, Progress
  <2> QED
    BY <2>1, EachChunk
<1>4. PICK new : new = [client[c] EXCEPT !.st = "failed"]
  OBVIOUS
<1>5. /\ new \in Client /\ new.role = client[c].role /\ new.who = client[c].who
      /\ new.rows = client[c].rows /\ new.st = "failed"
  BY <1>2, <1>4 DEF Client, States
<1>6. client' \in [Clients -> Client] /\ client'[c] = new /\ \A d \in Clients \ {c} : client'[d] = client[d]
  BY <1>1, <1>4, <1>5, ClientType DEF OnlyChanges
<1>7. got' = got \/ got' = [got EXCEPT ![c] = got[c] \o chunk]
  BY <1>3 DEF PostFails, Chunks
<1>8. got[c] \o chunk \in Seq(Rows)
  BY <1>2, ConcatProperties
<1>9. /\ got' \in [Clients -> Seq(Rows)]
      /\ got'[c] = got[c] \/ got'[c] = got[c] \o chunk
      /\ \A d \in Clients \ {c} : got'[d] = got[d]
  BY <1>2, <1>7, <1>8
<1>10. Bucket(c) \in Buckets
  BY <1>1, BucketType
<1>11. Typed'
  <2>1. UNCHANGED <<rows, served>> \/ \E b \in Buckets : CountRequest(b)
    BY <1>1, <1>10
  <2>2. /\ now' = now /\ failures' \in [Ages -> Nat] /\ locked' \in 0..Never
        /\ refused' \in [Clients -> [windows : 0..(Retries + 1), here : BOOLEAN]]
    BY <1>1 DEF TypeOK
  <2> QED
    BY <1>6, <1>9, <2>1, <2>2, TypedFrom
<1> QED
  BY <1>1, <1>3, <1>5, <1>6, <1>9, <1>11 DEF Moves, Other

LEMMA WakeStep ==
    ASSUME Typed, Orderly, NEW c \in Clients, Wake(c)
    PROVE  /\ Typed' /\ Moves(c) /\ UNCHANGED <<failures, rows, served, got, refused>>
           /\ client[c].st = "sleep" /\ client[c].wait = 0 /\ client'[c].st = "send"
           /\ client'[c].rows = client[c].rows /\ client'[c].chunk = client[c].chunk
           /\ client'[c].attempt = client[c].attempt + 1
<1>1. /\ TypeOK /\ client[c].st = "sleep" /\ client[c].wait = 0
      /\ UNCHANGED <<now, rows, failures, locked, served, got, refused>>
      /\ client' = [client EXCEPT ![c].st = "send", ![c].attempt = @ + 1]
  BY DEF Wake, Typed
<1>2. client[c] \in Client /\ client[c].attempt < Retries
  BY <1>1 DEF TypeOK, Orderly, Waits
<1>3. client[c].attempt + 1 \in 0..Retries
  BY <1>2, Constants DEF Client
<1>4. PICK new : new = [client[c] EXCEPT !.st = "send", !.attempt = client[c].attempt + 1]
  OBVIOUS
<1>5. /\ new \in Client /\ new.role = client[c].role /\ new.who = client[c].who
      /\ new.rows = client[c].rows /\ new.chunk = client[c].chunk
      /\ new.attempt = client[c].attempt + 1 /\ new.st = "send"
  BY <1>2, <1>3, <1>4 DEF Client, States
<1>6. client' = [client EXCEPT ![c] = new]
  BY <1>1, <1>4 DEF TypeOK
<1>7. client' \in [Clients -> Client] /\ client'[c] = new /\ \A d \in Clients \ {c} : client'[d] = client[d]
  BY <1>1, <1>5, <1>6, ClientType DEF OnlyChanges
<1>8. Typed'
  BY <1>1, <1>7, TypedFrom DEF TypeOK
<1> QED
  BY <1>1, <1>5, <1>7, <1>8 DEF Moves, Other

\* The steps of a sign-in, which uploads nothing.
LEMMA SignInStep ==
    ASSUME Typed, NEW c \in Clients, SignIn(c) \/ CheckLock(c) \/ Announce(c) \/ Verify(c),
           failures' \in [Ages -> Nat]
    PROVE  /\ Typed' /\ Moves(c) /\ UNCHANGED <<got, refused>>
           /\ client[c].st \in {"idle", "arrived", "announce", "checked"}
           /\ client'[c].st \in {"idle", "arrived", "announce", "checked"}
           /\ client'[c].rows = client[c].rows /\ client'[c].role = client[c].role
           /\ client'[c].who = client[c].who
           /\ client'[c].st = "checked" => client[c].st = "arrived" /\ ~Locked
<1>1. TypeOK /\ client[c] \in Client /\ Bucket(c) \in Buckets
  BY BucketType DEF Typed, TypeOK
<1>2. /\ UNCHANGED <<now, got, refused>> /\ client[c].st \in {"idle", "arrived", "announce", "checked"}
      /\ UNCHANGED <<rows, served>> \/ CountRequest(Bucket(c))
  BY DEF SignIn, CheckLock, Announce, Verify
<1>3. PICK st, age :
        /\ client' = [client EXCEPT ![c] = [client[c] EXCEPT !.st = st, !.age = age]]
        /\ st \in {"idle", "arrived", "announce", "checked"} /\ age \in {0, client[c].age}
        /\ st = "checked" => client[c].st = "arrived" /\ ~Locked
  <2> DEFINE Sets(st, age) ==
               /\ client' = [client EXCEPT ![c] = [client[c] EXCEPT !.st = st, !.age = age]]
               /\ st \in {"idle", "arrived", "announce", "checked"} /\ age \in {0, client[c].age}
               /\ st = "checked" => client[c].st = "arrived" /\ ~Locked
  <2>1. ASSUME SignIn(c) PROVE \E st, age : Sets(st, age)
    <3>1. PICK st : st = IF Within(Bucket(c)) THEN "arrived" ELSE "idle"
      OBVIOUS
    <3>2. client' = [client EXCEPT ![c].st = st]
      BY <2>1, <3>1 DEF SignIn
    <3>3. client' = [client EXCEPT ![c] = [client[c] EXCEPT !.st = st, !.age = client[c].age]]
      BY <1>1, <3>2 DEF TypeOK, Client
    <3>4. Sets(st, client[c].age)
      BY <3>1, <3>3
    <3> HIDE DEF Sets
    <3> QED
      BY <3>4
  <2>2. ASSUME CheckLock(c) PROVE \E st, age : Sets(st, age)
    <3>1. PICK st : st = IF ~Locked THEN "checked" ELSE IF locked = Never THEN "announce" ELSE "idle"
      OBVIOUS
    <3>2. client' = [client EXCEPT ![c].age = 0, ![c].st = st] /\ client[c].st = "arrived"
      BY <2>2, <3>1 DEF CheckLock
    <3>3. client' = [client EXCEPT ![c] = [client[c] EXCEPT !.st = st, !.age = 0]]
      BY <1>1, <3>2 DEF TypeOK, Client
    <3>4. Sets(st, 0)
      BY <3>1, <3>2, <3>3
    <3> HIDE DEF Sets
    <3> QED
      BY <3>4
  <2>3. ASSUME Announce(c) \/ Verify(c) PROVE \E st, age : Sets(st, age)
    <3>1. client' = [client EXCEPT ![c].st = "idle", ![c].age = 0]
      BY <2>3 DEF Announce, Verify
    <3>2. client' = [client EXCEPT ![c] = [client[c] EXCEPT !.st = "idle", !.age = 0]]
      BY <1>1, <3>1 DEF TypeOK, Client
    <3>3. Sets("idle", 0)
      BY <3>2
    <3> HIDE DEF Sets
    <3> QED
      BY <3>3
  <2>4. \E st, age : Sets(st, age)
    <3> HIDE DEF Sets
    <3> QED
      BY <2>1, <2>2, <2>3
  <2> QED
    BY <2>4
<1>4. PICK new : new = [client[c] EXCEPT !.st = st, !.age = age]
  OBVIOUS
<1>5. /\ new \in Client /\ new.role = client[c].role /\ new.who = client[c].who
      /\ new.rows = client[c].rows /\ new.st = st
  <2>1. age \in 0..TooOld /\ st \in States
    <3>1. client[c].age \in 0..TooOld /\ 0 \in 0..TooOld
      BY <1>1, Constants DEF Client, TooOld
    <3> QED
      BY <1>3, <3>1 DEF States
  <2> QED
    BY <1>1, <1>4, <2>1 DEF Client
<1>6. client' \in [Clients -> Client] /\ client'[c] = new /\ \A d \in Clients \ {c} : client'[d] = client[d]
  BY <1>1, <1>3, <1>4, <1>5, ClientType DEF OnlyChanges
<1>7. locked' \in 0..Never
  <2>1. locked \in 0..Never /\ client[c].age \in Nat /\ Never \in Nat
    <3>1. locked \in 0..Never
      BY <1>1 DEF TypeOK
    <3>2. client[c].age \in 0..TooOld
      BY <1>1 DEF Client
    <3>3. Never \in Nat /\ TooOld \in Nat
      BY Constants DEF Never, TooOld
    <3> QED
      BY <3>1, <3>2, <3>3
  <2>2. locked' = locked \/ locked' = Least(locked, client[c].age)
    BY DEF SignIn, CheckLock, Announce, Verify
  <2> QED
    BY <2>1, <2>2 DEF Least
<1>8. Typed'
  BY <1>1, <1>2, <1>6, <1>7, TypedFrom DEF TypeOK
<1> QED
  BY <1>2, <1>3, <1>5, <1>6, <1>8 DEF Moves, Other

LEMMA VerifyType ==
    ASSUME Typed, NEW c \in Clients, SignIn(c) \/ CheckLock(c) \/ Announce(c) \/ Verify(c)
    PROVE  failures' \in [Ages -> Nat]
<1>1. failures \in [Ages -> Nat]
  BY DEF Typed, TypeOK
<1>2. CASE failures' = failures
  BY <1>1, <1>2
<1>3. CASE client[c].age \in Ages /\ failures' = [failures EXCEPT ![client[c].age] = @ + 1]
  <2>1. PICK age \in Ages : age = client[c].age
    BY <1>3
  <2>2. failures[age] + 1 \in Nat
    BY <1>1
  <2> QED
    BY <1>1, <1>3, <2>1, <2>2
<1> QED
  BY <1>2, <1>3 DEF SignIn, CheckLock, Announce, Verify

\* A tick: what it does to the requests let through, to the rows and to the clients.
LEMMA SpanAged ==
    ASSUME TypeOK, NEW b \in Buckets
    PROVE  /\ Window[b[1]] - 1 \in Nat /\ served[b] \in [0..(Window[b[1]] - 1) -> Nat]
           /\ Older(served[b]) \in [0..(Window[b[1]] - 1) -> Nat]
<1>1. Window[b[1]] - 1 \in Nat /\ served[b] \in [0..(Window[b[1]] - 1) -> Nat]
  BY Constants DEF TypeOK
<1> QED
  BY <1>1, SumAges

LEMMA RowAged ==
    ASSUME TypeOK, NEW r \in rows
    PROVE  /\ Aged(r) \in Row /\ Aged(r).bucket = r.bucket
           /\ Aged(r).left \in (-1)..Window[r.bucket[1]] /\ Aged(r).count <= Limit[r.bucket[1]] + 1
           /\ r.left > 1 => Aged(r).left = r.left - 1 /\ Aged(r).count = r.count
           /\ r.left <= 1 => Aged(r).left <= 0
<1>1. /\ r \in Row /\ r.left \in (-1)..Window[r.bucket[1]] /\ r.count <= Limit[r.bucket[1]] + 1
      /\ r.bucket[1] \in Groups /\ Window[r.bucket[1]] \in Nat \ {0} /\ Limit[r.bucket[1]] \in Nat \ {0}
  BY Constants DEF TypeOK, Row
<1>2. CASE r.left > 1
  BY <1>1, <1>2 DEF Aged, Row
<1>3. CASE ~(r.left > 1)
  <2>1. Most(r.left - 1, -1) \in Int /\ Most(r.left - 1, -1) <= 0 /\ Most(r.left - 1, -1) >= -1
    BY <1>1, <1>3 DEF Most
  <2>2. Aged(r) = [r EXCEPT !.left = Most(r.left - 1, -1), !.count = 0]
    BY <1>3 DEF Aged
  <2>3. PICK left \in Int : left = Most(r.left - 1, -1)
    BY <2>1
  <2>4. /\ [r EXCEPT !.left = left, !.count = 0] \in Row
        /\ [r EXCEPT !.left = left, !.count = 0].bucket = r.bucket
        /\ [r EXCEPT !.left = left, !.count = 0].left = left
        /\ [r EXCEPT !.left = left, !.count = 0].count = 0
    BY <1>1 DEF Row
  <2> QED
    BY <1>1, <1>3, <2>1, <2>2, <2>3, <2>4
<1> QED
  BY <1>2, <1>3

LEMMA TickStep ==
    ASSUME Typed, Tick
    PROVE  /\ Typed' /\ got' = got
           /\ \A c \in Clients :
                /\ client'[c].role = client[c].role /\ client'[c].who = client[c].who
                /\ client'[c].st = client[c].st /\ client'[c].rows = client[c].rows
                /\ client'[c].chunk = client[c].chunk /\ client'[c].attempt = client[c].attempt
                /\ client'[c].wait = Most(client[c].wait - 1, 0)
                /\ refused'[c].windows = refused[c].windows
                /\ refused'[c].here = IF now' % Window["upload"] = 0 THEN FALSE ELSE refused[c].here
<1>1. TypeOK
  BY DEF Typed
<1>2. now' \in 0..(Period - 1)
  <2>1. now' = (now + 1) % Period
    BY DEF Tick
  <2>2. now + 1 \in Nat /\ Period \in Nat \ {0}
    BY <1>1, Constants DEF TypeOK
  <2> QED
    BY <2>1, <2>2, NextRemainder
<1>3. \A r \in rows' : /\ r \in Row /\ r.left \in (-1)..Window[r.bucket[1]]
                       /\ r.count <= Limit[r.bucket[1]] + 1
  BY <1>1, RowAged DEF Tick
<1>4. failures' \in [Ages -> Nat]
  BY <1>1, Constants, SumAges DEF Tick, TypeOK
<1>5. locked' \in 0..Never
  <2>1. locked' = Least(locked + 1, Never)
    BY DEF Tick
  <2>2. locked \in 0..Never /\ Never \in Nat
    BY <1>1, Constants DEF TypeOK, Never
  <2> QED
    BY <2>1, <2>2 DEF Least
<1>6. /\ \A b \in Buckets : served'[b] \in [0..(Window[b[1]] - 1) -> Nat]
      /\ served' = [b \in Buckets |-> served'[b]]
  <2>1. served' = [b \in Buckets |-> Older(served[b])]
    BY DEF Tick
  <2>2. \A b \in Buckets : Older(served[b]) \in [0..(Window[b[1]] - 1) -> Nat]
    BY <1>1, SpanAged
  <2> QED
    BY <2>1, <2>2
<1> DEFINE aged(c) ==
      [client[c] EXCEPT !.wait = Most(client[c].wait - 1, 0),
                        !.age = IF client[c].st \in {"checked", "announce"}
                                THEN Least(client[c].age + 1, TooOld) ELSE 0]
<1>7. ASSUME NEW c \in Clients
      PROVE  /\ aged(c) \in Client
             /\ aged(c).role = client[c].role /\ aged(c).who = client[c].who
             /\ aged(c).st = client[c].st /\ aged(c).rows = client[c].rows
             /\ aged(c).chunk = client[c].chunk /\ aged(c).attempt = client[c].attempt
             /\ aged(c).wait = Most(client[c].wait - 1, 0)
  <2>1. client[c] \in Client /\ TooOld \in Nat /\ MaxSleep \in Nat
    BY <1>1, Constants DEF TypeOK, TooOld
  <2>2. PICK wait, age :
          /\ wait = Most(client[c].wait - 1, 0)
          /\ age = IF client[c].st \in {"checked", "announce"} THEN Least(client[c].age + 1, TooOld) ELSE 0
    OBVIOUS
  <2>3. client[c].wait \in 0..MaxSleep /\ client[c].age \in 0..TooOld
    BY <2>1 DEF Client
  <2>4. wait \in 0..MaxSleep /\ age \in 0..TooOld
    BY <2>1, <2>2, <2>3 DEF Most, Least
  <2>5. aged(c) = [client[c] EXCEPT !.wait = wait, !.age = age]
    BY <2>2
  <2> HIDE DEF aged
  <2> QED
    BY <2>1, <2>2, <2>4, <2>5 DEF Client
<1>8. client' = [c \in Clients |-> aged(c)]
  BY DEF Tick
<1>9. /\ client' \in [Clients -> Client]
      /\ \A c \in Clients : client'[c] = aged(c)
  <2> HIDE DEF aged
  <2> QED
    BY <1>7, <1>8
<1>10. /\ refused' \in [Clients -> [windows : 0..(Retries + 1), here : BOOLEAN]]
       /\ \A c \in Clients :
            /\ refused'[c].windows = refused[c].windows
            /\ refused'[c].here = IF now' % Window["upload"] = 0 THEN FALSE ELSE refused[c].here
  <2>1. refused \in [Clients -> [windows : 0..(Retries + 1), here : BOOLEAN]]
    BY <1>1 DEF TypeOK
  <2>2. CASE now' % Window["upload"] = 0
    <3>1. refused' = [c \in Clients |-> [refused[c] EXCEPT !.here = FALSE]]
      BY <2>2 DEF Tick
    <3> QED
      BY <2>1, <2>2, <3>1
  <2>3. CASE now' % Window["upload"] # 0
    <3>1. refused' = [c \in Clients |-> refused[c]]
      BY <2>3 DEF Tick
    <3> QED
      BY <2>1, <2>3, <3>1
  <2> QED
    BY <2>2, <2>3
<1>11. got' = got /\ got' \in [Clients -> Seq(Rows)]
  BY <1>1 DEF Tick, TypeOK
<1>12. Typed'
  BY <1>2, <1>3, <1>4, <1>5, <1>6, <1>9, <1>10, <1>11 DEF Typed, TypeOK
<1> HIDE DEF aged
<1>13. ASSUME NEW c \in Clients
       PROVE  /\ client'[c].role = client[c].role /\ client'[c].who = client[c].who
              /\ client'[c].st = client[c].st /\ client'[c].rows = client[c].rows
              /\ client'[c].chunk = client[c].chunk /\ client'[c].attempt = client[c].attempt
              /\ client'[c].wait = Most(client[c].wait - 1, 0)
  BY <1>7, <1>9
<1> QED
  BY <1>10, <1>11, <1>12, <1>13
-----------------------------------------------------------------------------
(* The counters *)

\* The requests let through in the running window are some of those in the span.
LEMMA Through ==
    ASSUME TypeOK, NEW b \in Buckets
    PROVE  /\ SumTo(served[b], Elapsed(b[1])) \in Nat
           /\ SumTo(served[b], Window[b[1]] - 1) \in Nat
           /\ SumTo(served[b], Elapsed(b[1])) <= SumTo(served[b], Window[b[1]] - 1)
<1>1. PICK f, top, e : f = served[b] /\ top = Window[b[1]] - 1 /\ e = Elapsed(b[1])
  OBVIOUS
<1>2. top \in Nat /\ f \in [0..top -> Nat] /\ e \in 0..top /\ top \in 0..top
  <2>1. b[1] \in Groups /\ now \in 0..(Period - 1)
    BY Constants DEF TypeOK
  <2>2. Elapsed(b[1]) \in 0..(Window[b[1]] - 1)
    BY <2>1, ElapsedSteps
  <2>3. top \in Nat /\ f \in [0..top -> Nat]
    BY <1>1, SpanAged
  <2> QED
    BY <1>1, <2>2, <2>3
<1>3. SumTo(f, e) \in Nat /\ SumTo(f, e) <= SumTo(f, top) /\ SumTo(f, top) \in Nat
  BY <1>2, SumGrows
<1> QED
  BY <1>1, <1>3

\* A request leaves its own row in its bucket, and the others as they are.
LEMMA CurrentAfter ==
    ASSUME TypeOK, NEW b \in Buckets, NEW x \in Buckets, CountRequest(b), now' = now
    PROVE  IF x = b THEN Current(x)' = {Counting(b)}
           ELSE Current(x)' \subseteq Current(x) /\ (Current(x)' = {} => Current(x) = {})
<1>1. Left(x[1])' = Left(x[1]) /\ Left(x[1]) \in 1..Window[x[1]] /\ Window[x[1]] \in Nat
  BY Constants, ElapsedSteps DEF TypeOK, Left
<1>2. Current(x)' = {r \in rows' : r.bucket = x /\ r.left = Left(x[1])}
  BY <1>1 DEF Current
<1>3. /\ rows' \subseteq (rows \ Current(b)) \cup {Counting(b)} /\ Counting(b) \in rows'
      /\ \A r \in rows : r \notin Current(b) /\ r.left >= 0 => r \in rows'
  BY CountRequestRows
<1>4. Counting(b).bucket = b /\ Counting(b).left = Left(b[1])
  BY CountingType
<1>5. CASE x = b
  <2>1. Current(x)' \subseteq {Counting(b)}
    BY <1>2, <1>3, <1>5 DEF Current
  <2> QED
    BY <1>2, <1>3, <1>4, <1>5, <2>1
<1>6. CASE x # b
  <2>1. Current(x)' \subseteq Current(x)
    BY <1>2, <1>3, <1>4, <1>6 DEF Current
  <2>2. ASSUME NEW r \in Current(x) PROVE r \in Current(x)'
    <3>1. r \in rows /\ r.bucket = x /\ r.left = Left(x[1]) /\ r \notin Current(b) /\ r.left >= 0
      BY <1>1, <1>6 DEF Current
    <3> QED
      BY <1>2, <1>3, <3>1
  <2> QED
    BY <1>6, <2>1, <2>2
<1> QED
  BY <1>5, <1>6

\* Counting a request keeps the limits: it is let through only below the count of the row.
LEMMA RequestCounted ==
    ASSUME Typed, Counted, NEW b \in Buckets, CountRequest(b), now' = now
    PROVE  Counted'
<1>1. TypeOK
  BY DEF Typed
<1> SUFFICES ASSUME NEW x \in Buckets PROVE CountedIn(x)'
  BY DEF Counted
<1>2. Elapsed(x[1])' = Elapsed(x[1])
  BY DEF Elapsed
<1>3. PICK e, top, f, lim :
        e = Elapsed(x[1]) /\ top = Window[x[1]] - 1 /\ f = served[x] /\ lim = Limit[x[1]]
  OBVIOUS
<1>4. /\ SumTo(f, e) \in Nat /\ SumTo(f, top) \in Nat /\ SumTo(f, e) <= lim /\ lim \in Nat
      /\ SumTo(f, top) - SumTo(f, e) <= lim
      /\ Current(x) = {} => SumTo(f, e) = 0
      /\ \A r \in Current(x) : SumTo(f, e) <= r.count
  BY <1>1, <1>3, Through, Constants DEF Counted, CountedIn
<1>5. CASE x = b /\ Within(b)
  <2>1. top \in Nat /\ f \in [0..top -> Nat] /\ e \in 0..top /\ top \in 0..top /\ 0 \in 0..top
    <3>1. b[1] \in Groups /\ now \in 0..(Period - 1)
      BY <1>1, Constants DEF TypeOK
    <3>2. Elapsed(b[1]) \in 0..(Window[b[1]] - 1) /\ Window[b[1]] \in Nat \ {0}
      BY <3>1, ElapsedSteps
    <3>3. top \in Nat /\ e \in 0..top /\ f \in [0..top -> Nat]
      BY <1>1, <1>3, <1>5, <3>2, SpanAged
    <3> QED
      BY <3>3
  <2>2. served'[x] = [f EXCEPT ![0] = f[0] + 1]
    <3>1. served' = [served EXCEPT ![b] = [served[b] EXCEPT ![0] = served[b][0] + 1]]
      BY <1>1, <1>5, CountRequestRows
    <3> QED
      BY <1>3, <1>5, <3>1 DEF Typed
  <2>3. SumTo(served'[x], e) = SumTo(f, e) + 1 /\ SumTo(served'[x], top) = SumTo(f, top) + 1
    <3>1. \A n \in 0..top : SumTo([f EXCEPT ![0] = f[0] + 1], n) = SumTo(f, n) + (IF 0 <= n THEN 1 ELSE 0)
      BY <2>1, SumAdds
    <3>2. 0 <= e /\ 0 <= top
      BY <2>1
    <3>3. /\ SumTo([f EXCEPT ![0] = f[0] + 1], e) = SumTo(f, e) + (IF 0 <= e THEN 1 ELSE 0)
          /\ SumTo([f EXCEPT ![0] = f[0] + 1], top) = SumTo(f, top) + (IF 0 <= top THEN 1 ELSE 0)
      BY <2>1, <3>1
    <3> QED
      BY <2>2, <3>2, <3>3
  <2>4. Count(x) \in Nat /\ SumTo(f, e) <= Count(x) /\ Count(x) < lim
    <3>1. Count(x) \in Nat /\ Count(x) < lim
      BY <1>1, <1>3, <1>5, CountType DEF Within
    <3>2. CASE Current(x) = {}
      BY <1>4, <3>1, <3>2
    <3>3. CASE Current(x) # {}
      BY <1>1, <1>4, <3>1, <3>3, CountType
    <3> QED
      BY <3>1, <3>2, <3>3
  <2>5. Current(x)' = {Counting(b)} /\ Counting(b).count = Count(x) + 1
    BY <1>1, <1>5, CurrentAfter, CountingType
  <2>6. /\ SumTo(f, e) + 1 <= lim /\ SumTo(f, e) + 1 <= Counting(b).count
        /\ (SumTo(f, top) + 1) - (SumTo(f, e) + 1) <= lim
    BY <1>4, <2>4, <2>5
  <2> QED
    BY <1>2, <1>3, <2>3, <2>5, <2>6 DEF CountedIn
<1>6. CASE x = b /\ ~Within(b)
  <2>1. served' = served
    BY <1>1, <1>6, CountRequestRows
  <2>2. Current(x)' = {Counting(b)} /\ Counting(b).count = lim + 1
    BY <1>1, <1>3, <1>6, CurrentAfter, CountingType
  <2>3. SumTo(f, e) <= Counting(b).count
    BY <1>4, <2>2
  <2> QED
    BY <1>2, <1>3, <1>4, <2>1, <2>2, <2>3 DEF CountedIn
<1>7. CASE x # b
  <2>1. served'[x] = served[x]
    <3>1. \/ served' = served
          \/ served' = [served EXCEPT ![b] = [served[b] EXCEPT ![0] = served[b][0] + 1]]
      BY <1>1, CountRequestRows
    <3> QED
      BY <1>7, <3>1 DEF Typed
  <2>2. Current(x)' \subseteq Current(x) /\ (Current(x)' = {} => Current(x) = {})
    BY <1>1, <1>7, CurrentAfter
  <2> QED
    BY <1>2, <1>3, <1>4, <2>1, <2>2 DEF CountedIn
<1> QED
  BY <1>5, <1>6, <1>7

\* Within a window a tick keeps its row and count.
LEMMA CurrentAged ==
    ASSUME TypeOK, Tick, NEW b \in Buckets, Elapsed(b[1]) + 1 # Window[b[1]]
    PROVE  /\ Left(b[1])' = Left(b[1]) - 1
           /\ Current(b)' = {} <=> Current(b) = {}
           /\ \A r \in Current(b)' : \E s \in Current(b) : r.count = s.count
<1>1. b[1] \in Groups /\ now \in 0..(Period - 1) /\ now' \in 0..(Period - 1)
  <2>1. now' = (now + 1) % Period
    BY DEF Tick
  <2>2. now + 1 \in Nat /\ Period \in Nat \ {0}
    BY Constants DEF TypeOK
  <2> QED
    BY <2>1, <2>2, Constants, NextRemainder DEF TypeOK
<1>2. /\ Left(b[1])' = Left(b[1]) - 1 /\ Left(b[1]) \in Nat /\ Left(b[1]) > 1
  <2>1. Left(b[1])' = Window[b[1]] - Elapsed(b[1])'
    BY DEF Left, Elapsed
  <2>2. /\ Left(b[1]) = Window[b[1]] - Elapsed(b[1]) /\ Window[b[1]] \in Nat \ {0}
        /\ Elapsed(b[1]) \in 0..(Window[b[1]] - 1) /\ Elapsed(b[1])' = Elapsed(b[1]) + 1
    BY <1>1, ElapsedSteps
  <2>3. Left(b[1])' = Window[b[1]] - (Elapsed(b[1]) + 1)
    BY <2>1, <2>2
  <2> QED
    BY <2>2, <2>3
<1>3. rows' = {Aged(r) : r \in rows}
  BY DEF Tick
<1>4. Current(b)' = {r \in rows' : r.bucket = b /\ r.left = Left(b[1]) - 1}
  BY <1>2 DEF Current
<1>5. ASSUME NEW r \in Current(b) PROVE Aged(r) \in Current(b)'
  <2>1. r \in rows /\ r.bucket = b /\ r.left = Left(b[1])
    BY <1>5 DEF Current
  <2>2. Aged(r).bucket = b /\ Aged(r).left = Left(b[1]) - 1
    BY <1>2, <2>1, RowAged
  <2> QED
    BY <1>3, <1>4, <2>1, <2>2
<1>6. ASSUME NEW r \in Current(b)' PROVE \E s \in Current(b) : r.count = s.count
  <2>1. r \in rows' /\ r.bucket = b /\ r.left = Left(b[1]) - 1
    BY <1>4, <1>6
  <2>2. PICK s \in rows : r = Aged(s)
    BY <1>3, <2>1
  <2>3. s.bucket = b /\ s.left \in Int /\ s.left > 1
    <3>1. s.left \in Int
      BY DEF TypeOK, Row
    <3>2. Aged(s).bucket = s.bucket /\ (s.left <= 1 => Aged(s).left <= 0)
      BY RowAged
    <3>3. Aged(s).left > 0
      BY <1>2, <2>1, <2>2
    <3>4. Aged(s).left \in Int
      BY <1>2, <2>1, <2>2
    <3> QED
      BY <2>1, <2>2, <3>1, <3>2, <3>3, <3>4
  <2>4. s.left = Left(b[1]) /\ r.count = s.count
    BY <1>2, <2>1, <2>2, <2>3, RowAged
  <2> QED
    BY <2>3, <2>4 DEF Current
<1> QED
  BY <1>2, <1>5, <1>6

\* A tick keeps the limits: the running window becomes the one before when it ends.
LEMMA TickCounted ==
    ASSUME Typed, Counted, Tick
    PROVE  Counted'
<1>1. TypeOK /\ Typed' /\ TypeOK'
  BY TickStep DEF Typed
<1> SUFFICES ASSUME NEW b \in Buckets PROVE CountedIn(b)'
  BY DEF Counted
<1>2. PICK e, top, f, lim, next :
        /\ e = Elapsed(b[1]) /\ top = Window[b[1]] - 1 /\ f = served[b] /\ lim = Limit[b[1]]
        /\ next = Elapsed(b[1])'
  OBVIOUS
<1>3. /\ SumTo(f, e) \in Nat /\ SumTo(f, top) \in Nat /\ SumTo(f, e) <= SumTo(f, top)
      /\ SumTo(f, e) <= lim /\ lim \in Nat /\ SumTo(f, top) - SumTo(f, e) <= lim
      /\ Current(b) = {} => SumTo(f, e) = 0
      /\ \A r \in Current(b) : SumTo(f, e) <= r.count
  BY <1>1, <1>2, Through, Constants DEF Counted, CountedIn
<1>4. /\ top \in Nat /\ f \in [0..top -> Nat] /\ e \in 0..top /\ top \in 0..top
      /\ next = IF e + 1 = top + 1 THEN 0 ELSE e + 1
  <2>1. b[1] \in Groups /\ now \in 0..(Period - 1)
    BY <1>1, Constants DEF TypeOK
  <2>2. Elapsed(b[1])' = IF Elapsed(b[1]) + 1 = Window[b[1]] THEN 0 ELSE Elapsed(b[1]) + 1
    BY <2>1, ElapsedSteps
  <2>3. Elapsed(b[1]) \in 0..(Window[b[1]] - 1) /\ Window[b[1]] \in Nat \ {0}
    BY <2>1, ElapsedSteps
  <2>4. top \in Nat /\ e \in 0..top /\ f \in [0..top -> Nat]
    BY <1>1, <1>2, <2>3, SpanAged
  <2>5. next = IF e + 1 = top + 1 THEN 0 ELSE e + 1
    BY <1>2, <2>2, <2>3
  <2> QED
    BY <2>4, <2>5
<1>5. served'[b] = Older(f)
  BY <1>2 DEF Tick
<1>6. /\ SumTo(Older(f), 0) = 0
      /\ \A n \in 0..top : n > 0 => SumTo(Older(f), n) = SumTo(f, n - 1)
  BY <1>4, SumAges
<1>7. SumTo(Older(f), top) \in Nat /\ SumTo(Older(f), top) <= SumTo(f, top)
  <2>1. CASE top = 0
    BY <1>3, <1>6, <2>1
  <2>2. CASE top # 0
    <3>1. top - 1 \in 0..top /\ SumTo(Older(f), top) = SumTo(f, top - 1)
      BY <1>4, <1>6, <2>2
    <3> QED
      BY <1>4, <3>1, SumGrows
  <2> QED
    BY <2>1, <2>2
<1>8. CASE e = top
  <2>1. next = 0 /\ SumTo(Older(f), next) = 0
    BY <1>4, <1>6, <1>8
  <2>2. SumTo(Older(f), top) - SumTo(Older(f), next) <= lim
    BY <1>3, <1>7, <1>8, <2>1
  <2>3. \A r \in Current(b)' : 0 <= r.count
    BY <1>1 DEF Current, TypeOK, Row
  <2> QED
    BY <1>2, <1>3, <1>5, <2>1, <2>2, <2>3 DEF CountedIn
<1>9. CASE e # top
  <2>1. next = e + 1 /\ next \in 0..top /\ next > 0 /\ next - 1 = e
    BY <1>4, <1>9
  <2>2. SumTo(Older(f), next) = SumTo(f, e)
    BY <1>6, <2>1
  <2>3. /\ Current(b)' = {} <=> Current(b) = {}
        /\ \A r \in Current(b)' : \E s \in Current(b) : r.count = s.count
    <3>1. Elapsed(b[1]) + 1 # Window[b[1]]
      BY <1>2, <1>4, <1>9, Constants
    <3> QED
      BY <1>1, <3>1, CurrentAged
  <2>4. SumTo(Older(f), top) - SumTo(Older(f), next) <= lim
    BY <1>3, <1>7, <2>2
  <2>5. \A r \in Current(b)' : SumTo(f, e) <= r.count
    BY <1>3, <2>3
  <2> QED
    BY <1>2, <1>3, <1>5, <2>2, <2>3, <2>4, <2>5 DEF CountedIn
<1> QED
  BY <1>8, <1>9

\* A span is within the running window and the one before.
LEMMA SpansAreTwoWindows == ASSUME Typed, Counted PROVE SpanBounded
<1> SUFFICES ASSUME NEW b \in Buckets PROVE SumTo(served[b], Window[b[1]] - 1) <= 2 * Limit[b[1]]
  BY DEF SpanBounded
<1>1. PICK total, through, lim :
        /\ total = SumTo(served[b], Window[b[1]] - 1) /\ through = SumTo(served[b], Elapsed(b[1]))
        /\ lim = Limit[b[1]]
  OBVIOUS
<1>2. /\ through \in Nat /\ total \in Nat /\ lim \in Nat
      /\ through <= lim /\ total - through <= lim
  BY <1>1, Through, Constants DEF Typed, Counted, CountedIn
<1>3. total <= 2 * lim
  BY <1>2
<1> QED
  BY <1>1, <1>3
-----------------------------------------------------------------------------
(* The lockout *)

LEMMA CheckedType ==
    /\ Cardinality(Clients) \in Nat /\ IsFiniteSet(Checked) /\ Cardinality(Checked) \in Nat
    /\ Cardinality(Checked) <= Cardinality(Clients)
<1>1. IsFiniteSet(Clients) /\ Checked \subseteq Clients
  BY LimitsAssumption DEF Checked
<1> QED
  BY <1>1, FS_Subset, FS_CardinalityType

LEMMA FailuresType ==
    ASSUME TypeOK
    PROVE  /\ failures \in [0..LockSpan -> Nat] /\ LockSpan \in Nat /\ LockSpan \in 0..LockSpan
           /\ SumTo(failures, LockSpan) \in Nat
<1>1. failures \in [0..LockSpan -> Nat] /\ LockSpan \in Nat /\ LockSpan \in 0..LockSpan
  BY Constants DEF TypeOK
<1>2. \A i \in 0..LockSpan : failures[i] \in Nat
  BY <1>1
<1>3. SumTo(failures, LockSpan) \in Nat
  BY <1>1, <1>2, SumGrows
<1> QED
  BY <1>1, <1>3

\* A failure was let through before: the sign-in that records it no longer counts as such.
LEMMA ClientAdmitted ==
    ASSUME Typed, Admitted, NEW c \in Clients, Other(c),
           \/ failures' = failures /\ (client'[c].st = "checked" => client[c].st = "checked")
           \/ failures' = failures /\ ~Locked
           \/ /\ client[c].st = "checked" /\ client'[c].st # "checked"
              /\ client[c].age \in Ages
              /\ failures' = [failures EXCEPT ![client[c].age] = failures[client[c].age] + 1]
    PROVE  Admitted'
<1> DEFINE sum == SumTo(failures, LockSpan)
           all == Cardinality(Clients)
<1>1. /\ sum \in Nat /\ all \in Nat /\ MaxFail \in Nat \ {0} /\ sum + Cardinality(Checked) <= MaxFail + all - 1
      /\ Cardinality(Checked) \in Nat /\ IsFiniteSet(Checked)
  BY FailuresType, CheckedType, Constants DEF Typed, Admitted
<1>2. Cardinality(Checked') \in Nat /\ Cardinality(Checked') <= all
  <2>1. IsFiniteSet(Clients) /\ Checked' \subseteq Clients
    BY LimitsAssumption DEF Checked
  <2> QED
    BY <2>1, FS_Subset, FS_CardinalityType
<1>3. CASE failures' = failures /\ (client'[c].st = "checked" => client[c].st = "checked")
  <2>1. Checked' \subseteq Checked
    BY <1>3 DEF Checked, Other
  <2>2. Cardinality(Checked') <= Cardinality(Checked)
    BY <1>1, <2>1, FS_Subset
  <2>3. sum + Cardinality(Checked') <= MaxFail + all - 1
    BY <1>1, <1>2, <2>2
  <2> QED
    BY <1>3, <2>3 DEF Admitted
<1>4. CASE failures' = failures /\ ~Locked
  <2>1. sum < MaxFail
    BY <1>1, <1>4 DEF Locked
  <2>2. sum + Cardinality(Checked') <= MaxFail + all - 1
    BY <1>1, <1>2, <2>1
  <2> QED
    BY <1>4, <2>2 DEF Admitted
<1>5. CASE /\ client[c].st = "checked" /\ client'[c].st # "checked"
           /\ client[c].age \in Ages
           /\ failures' = [failures EXCEPT ![client[c].age] = failures[client[c].age] + 1]
  <2>1. Checked' = Checked \ {c} /\ c \in Checked
    BY <1>5 DEF Checked, Other
  <2>2. Cardinality(Checked') = Cardinality(Checked) - 1
    BY <1>1, <2>1, FS_RemoveElement
  <2>3. SumTo(failures', LockSpan) = sum + 1
    <3>1. PICK k \in 0..LockSpan : k = client[c].age
      BY <1>5 DEF Ages
    <3>2. SumTo([failures EXCEPT ![k] = failures[k] + 1], LockSpan) = sum + (IF k <= LockSpan THEN 1 ELSE 0)
      <4>1. PICK f, top : f = failures /\ top = LockSpan
        OBVIOUS
      <4>2. top \in Nat /\ f \in [0..top -> Nat] /\ top \in 0..top /\ k \in 0..top
        BY <4>1, FailuresType DEF Typed
      <4>3. SumTo([f EXCEPT ![k] = f[k] + 1], top) = SumTo(f, top) + (IF k <= top THEN 1 ELSE 0)
        BY <4>2, SumAdds
      <4> QED
        BY <4>1, <4>3
    <3>3. k <= LockSpan
      BY <3>1, Constants
    <3> QED
      BY <1>5, <3>1, <3>2, <3>3
  <2>4. (sum + 1) + Cardinality(Checked') <= MaxFail + all - 1
    BY <1>1, <2>2
  <2> QED
    BY <2>3, <2>4 DEF Admitted
<1> QED
  BY <1>3, <1>4, <1>5

\* A sign-in is let past the lockout below its limit, and fails at most once.
LEMMA SignInAdmitted ==
    ASSUME Typed, Admitted, NEW c \in Clients, SignIn(c) \/ CheckLock(c) \/ Announce(c) \/ Verify(c)
    PROVE  Admitted'
<1>1. Other(c) /\ (client'[c].st = "checked" => client[c].st = "arrived" /\ ~Locked)
  BY SignInStep, VerifyType DEF Moves
<1>2. CASE failures' = failures
  BY <1>1, <1>2, ClientAdmitted
<1>3. CASE failures' # failures
  <2>1. /\ Verify(c) /\ client[c].st = "checked" /\ client[c].age \in Ages
        /\ failures' = [failures EXCEPT ![client[c].age] = @ + 1]
    BY <1>3 DEF SignIn, CheckLock, Announce, Verify
  <2>2. client'[c].st # "checked"
    BY <1>1, <2>1
  <2> QED
    BY <1>1, <2>1, <2>2, ClientAdmitted
<1> QED
  BY <1>2, <1>3

\* Failures only age.
LEMMA TickAdmitted ==
    ASSUME Typed, Admitted, Tick PROVE Admitted'
<1> DEFINE sum == SumTo(failures, LockSpan)
<1>1. Checked' = Checked
  BY TickStep DEF Checked
<1>2. failures' = Older(failures)
  BY DEF Tick
<1>3. SumTo(Older(failures), LockSpan) \in Nat /\ SumTo(Older(failures), LockSpan) <= sum
  <2>1. PICK f, top : f = failures /\ top = LockSpan
    OBVIOUS
  <2>2. top \in Nat /\ f \in [0..top -> Nat] /\ top \in 0..top /\ SumTo(f, top) \in Nat
    BY <2>1, FailuresType DEF Typed
  <2>3. SumTo(Older(f), 0) = 0 /\ \A n \in 0..top : n > 0 => SumTo(Older(f), n) = SumTo(f, n - 1)
    BY <2>2, SumAges
  <2>4. CASE top = 0
    BY <2>1, <2>2, <2>3, <2>4
  <2>5. CASE top # 0
    <3>1. top - 1 \in 0..top /\ SumTo(Older(f), top) = SumTo(f, top - 1)
      BY <2>2, <2>3, <2>5
    <3>2. SumTo(f, top - 1) \in Nat /\ SumTo(f, top - 1) <= SumTo(f, top)
      BY <2>2, <3>1, SumGrows
    <3> QED
      BY <2>1, <3>1, <3>2
  <2> QED
    BY <2>4, <2>5
<1>4. /\ sum \in Nat /\ Cardinality(Clients) \in Nat /\ MaxFail \in Nat \ {0}
      /\ sum + Cardinality(Checked) <= MaxFail + Cardinality(Clients) - 1
      /\ Cardinality(Checked) \in Nat
  BY FailuresType, CheckedType, Constants DEF Typed, Admitted
<1>5. SumTo(failures', LockSpan) + Cardinality(Checked) <= MaxFail + Cardinality(Clients) - 1
  BY <1>2, <1>3, <1>4
<1> QED
  BY <1>1, <1>5 DEF Admitted

LEMMA FewerThanAdmitted == ASSUME Typed, Admitted PROVE FailuresBounded
<1>1. /\ SumTo(failures, LockSpan) \in Nat /\ Cardinality(Clients) \in Nat /\ MaxFail \in Nat
      /\ SumTo(failures, LockSpan) + Cardinality(Checked) <= MaxFail + Cardinality(Clients) - 1
      /\ Cardinality(Checked) \in Nat
  BY FailuresType, CheckedType, Constants DEF Typed, Admitted
<1> QED
  BY <1>1 DEF FailuresBounded
-----------------------------------------------------------------------------
(* What is stored of an upload *)

LEMMA SlicePrefix ==
    ASSUME NEW rs \in Seq(Rows), NEW n \in 0..Len(rs)
    PROVE  IsPrefix(SubSeq(rs, 1, n), rs) /\ (n = 0 => SubSeq(rs, 1, n) = <<>>)
<1>1. Len(rs) \in Nat /\ n \in Nat /\ n <= Len(rs) /\ 0 \in 0..Len(rs)
  BY LenProperties
<1>2. SubSeq(rs, 1, n) \in Seq(Rows) /\ Len(SubSeq(rs, 1, n)) = n
  <2>1. SubSeq(rs, 0 + 1, n) \in Seq(Rows) /\ Len(SubSeq(rs, 0 + 1, n)) = n - 0
    BY <1>1, Slices
  <2> QED
    BY <1>1, <2>1
<1>3. SubSeq(SubSeq(rs, 1, n), 1, n) = SubSeq(rs, 1, n)
  BY <1>2, SubSeqFull
<1>4. n = 0 => SubSeq(rs, 1, n) = <<>>
  BY SubSeqEmpty
<1> QED
  BY <1>1, <1>2, <1>3, <1>4 DEF IsPrefix

\* The chunk to be sent continues what is stored, and ends it if it is the last.
LEMMA NextChunk ==
    ASSUME NEW c \in Clients, Progress(c), client[c].st = "send"
    PROVE  /\ got[c] \o ChunksOf[client[c].rows][client[c].chunk]
                = SubSeq(client[c].rows, 1, Ends(client[c].rows)[client[c].chunk])
           /\ IsPrefix(SubSeq(client[c].rows, 1, Ends(client[c].rows)[client[c].chunk]), client[c].rows)
           /\ client[c].chunk = Len(ChunksOf[client[c].rows]) =>
                SubSeq(client[c].rows, 1, Ends(client[c].rows)[client[c].chunk]) = client[c].rows
<1>1. PICK rs, i, ends : rs = client[c].rows /\ i = client[c].chunk /\ ends = Ends(client[c].rows)
  OBVIOUS
<1>2. /\ rs \in Uploads /\ ~Oversize(rs) /\ i \in 1..Len(ChunksOf[rs])
      /\ got[c] = SubSeq(rs, 1, ends[i - 1])
  BY <1>1 DEF Progress
<1>3. /\ rs \in Seq(Rows) /\ Len(rs) \in Nat /\ Len(ChunksOf[rs]) \in Nat
      /\ ends[Len(ChunksOf[rs])] = Len(rs)
      /\ \A j \in 0..Len(ChunksOf[rs]) : ends[j] \in 0..Len(rs)
      /\ ends[i - 1] < ends[i] /\ ChunksOf[rs][i] = SubSeq(rs, ends[i - 1] + 1, ends[i])
  BY <1>1, <1>2, EachChunk
<1>4. PICK k, n : k = ends[i - 1] /\ n = ends[i]
  OBVIOUS
<1>5. 1 \in 1..(Len(rs) + 1) /\ k \in (1 - 1)..Len(rs) /\ n \in k..Len(rs) /\ n \in 0..Len(rs)
  <2>1. i \in 0..Len(ChunksOf[rs]) /\ i - 1 \in 0..Len(ChunksOf[rs])
    BY <1>2, <1>3
  <2>2. k \in 0..Len(rs) /\ n \in 0..Len(rs) /\ k < n
    BY <1>3, <1>4, <2>1
  <2> QED
    BY <1>3, <2>2
<1>6. SubSeq(rs, 1, k) \o SubSeq(rs, k + 1, n) = SubSeq(rs, 1, n)
  BY <1>3, <1>5, ConcatAdjacentSubSeq
<1>7. i = Len(ChunksOf[rs]) => SubSeq(rs, 1, n) = rs
  BY <1>3, <1>4, SubSeqFull
<1> QED
  BY <1>1, <1>2, <1>3, <1>4, <1>5, <1>6, <1>7, SlicePrefix

\* Steps that store nothing.
LEMMA ProgressStays ==
    ASSUME NEW c \in Clients, Progress(c), got'[c] = got[c],
           client'[c].role = client[c].role, client'[c].rows = client[c].rows,
           \/ client'[c].st = client[c].st /\ client'[c].chunk = client[c].chunk
           \/ /\ client[c].st \in {"send", "sleep"} /\ client'[c].st \in {"send", "sleep"}
              /\ client'[c].chunk = client[c].chunk
           \/ client'[c].st \notin {"send", "sleep", "done", "oversize", "rejected"}
    PROVE  Progress(c)'
BY DEF Progress

LEMMA StartUploadProgress ==
    ASSUME Typed, NEW c \in Clients, StartUpload(c)
    PROVE  Progress(c)'
<1>1. PICK rs \in Uploads : rs = client'[c].rows
  BY StartUploadStep
<1>2. /\ got'[c] = <<>> /\ client'[c].role = "upload" /\ client'[c].chunk = 1
      /\ client'[c].st = IF Oversize(rs) THEN "oversize" ELSE IF rs = <<>> THEN "done" ELSE "send"
  BY <1>1, StartUploadStep
<1>3. rs \in Seq(Rows) /\ 0 \in 0..Len(rs) /\ SubSeq(rs, 1, 0) = <<>> /\ IsPrefix(<<>>, rs)
  <2>1. rs \in Seq(Rows) /\ 0 \in 0..Len(rs)
    BY LimitsAssumption, LenProperties
  <2> QED
    BY <2>1, SlicePrefix
<1>4. ASSUME ~Oversize(rs), rs # <<>>
      PROVE  1 \in 1..Len(ChunksOf[rs]) /\ <<>> = SubSeq(rs, 1, Ends(rs)[1 - 1])
  <2>1. Len(ChunksOf[rs]) \in Nat /\ Len(ChunksOf[rs]) > 0 /\ Ends(rs)[0] = 0
    BY <1>4, EachChunk
  <2>2. 1 - 1 = 0
    OBVIOUS
  <2> QED
    BY <1>3, <2>1, <2>2
<1>5. CASE client'[c].st = "send"
  <2>1. ~Oversize(rs) /\ rs # <<>>
    BY <1>2, <1>5
  <2>2. 1 \in 1..Len(ChunksOf[rs]) /\ <<>> = SubSeq(rs, 1, Ends(rs)[1 - 1])
    BY <1>4, <2>1
  <2> QED
    BY <1>1, <1>2, <1>3, <1>5, <2>1, <2>2 DEF Progress
<1>6. CASE client'[c].st # "send"
  <2>1. client'[c].st = "oversize" \/ (client'[c].st = "done" /\ rs = <<>>)
    BY <1>2, <1>6
  <2> QED
    BY <1>1, <1>2, <1>3, <2>1 DEF Progress
<1> QED
  BY <1>5, <1>6

LEMMA PostStoredProgress ==
    ASSUME Typed, Orderly, NEW c \in Clients, PostStored(c)
    PROVE  Progress(c)'
<1>1. Progress(c)
  BY DEF Orderly
<1>2. PICK rs, i, ends : rs = client[c].rows /\ i = client[c].chunk /\ ends = Ends(rs)
  OBVIOUS
<1>3. /\ client[c].st = "send" /\ client'[c].rows = rs /\ client'[c].chunk = i + 1
      /\ client'[c].role = client[c].role /\ got'[c] = got[c] \o ChunksOf[rs][i]
      /\ client'[c].st = IF i = Len(ChunksOf[rs]) THEN "done" ELSE "send"
  BY <1>2, PostStoredStep DEF Moves
<1>4. /\ client[c].role = "upload" /\ rs \in Uploads /\ ~Oversize(rs) /\ i \in 1..Len(ChunksOf[rs])
  BY <1>1, <1>2, <1>3 DEF Progress
<1>5. /\ got'[c] = SubSeq(rs, 1, ends[i]) /\ IsPrefix(got'[c], rs)
      /\ i = Len(ChunksOf[rs]) => got'[c] = rs
  BY <1>1, <1>2, <1>3, NextChunk
<1>6. ASSUME i # Len(ChunksOf[rs]) PROVE i + 1 \in 1..Len(ChunksOf[rs]) /\ (i + 1) - 1 = i
  <2>1. Len(ChunksOf[rs]) \in Nat
    BY <1>4, EachChunk
  <2> QED
    BY <1>4, <1>6, <2>1
<1>7. CASE i = Len(ChunksOf[rs])
  BY <1>3, <1>5, <1>7 DEF Progress
<1>8. CASE i # Len(ChunksOf[rs])
  <2>1. got'[c] = SubSeq(rs, 1, ends[(i + 1) - 1]) /\ i + 1 \in 1..Len(ChunksOf[rs])
    BY <1>5, <1>6, <1>8
  <2> QED
    BY <1>2, <1>3, <1>4, <1>5, <1>8, <2>1 DEF Progress
<1> QED
  BY <1>7, <1>8

LEMMA PostFailsProgress ==
    ASSUME Typed, Orderly, NEW c \in Clients, PostFails(c)
    PROVE  Progress(c)'
<1>1. Progress(c)
  BY DEF Orderly
<1>2. /\ client[c].st = "send" /\ client'[c].st = "failed" /\ client'[c].rows = client[c].rows
      /\ \/ got'[c] = got[c]
         \/ got'[c] = got[c] \o ChunksOf[client[c].rows][client[c].chunk]
  BY PostFailsStep
<1>3. IsPrefix(got'[c], client[c].rows)
  BY <1>1, <1>2, NextChunk DEF Progress
<1> QED
  BY <1>2, <1>3 DEF Progress
-----------------------------------------------------------------------------
(* How long a page waits *)

\* Who a client is never changes, so neither does who shares a bucket.
SameCast == \A d \in Clients : client'[d].role = client[d].role /\ client'[d].who = client[d].who

LEMMA CastKept ==
    ASSUME SameCast, NEW c \in Clients
    PROVE  Bucket(c)' = Bucket(c) /\ Alone(c)' = Alone(c)
BY DEF SameCast, Bucket, Group, Alone

LEMMA MovesKeepCast == ASSUME NEW c \in Clients, Moves(c) PROVE SameCast
BY DEF Moves, Other, SameCast

LEMMA LeftType ==
    ASSUME TypeOK
    PROVE  Left("upload") \in 1..Window["upload"] /\ Window["upload"] \in Nat \ {0}
BY Constants, ElapsedSteps DEF TypeOK

\* A request changes no bucket but its own.
LEMMA StaysEmpty ==
    ASSUME TypeOK, now' = now, NEW x \in Buckets, Current(x) = {},
           \/ UNCHANGED <<rows, served>>
           \/ \E b \in Buckets : b # x /\ CountRequest(b)
    PROVE  Current(x)' = {}
<1>1. CASE UNCHANGED <<rows, served>>
  BY <1>1 DEF Current, Left
<1>2. CASE \E b \in Buckets : b # x /\ CountRequest(b)
  BY <1>2, CurrentAfter
<1> QED
  BY <1>1, <1>2

\* What other clients do takes nothing from a page that uploads alone.
LEMMA OthersWait ==
    ASSUME Typed, Orderly, NEW c \in Clients, Moves(c), NEW d \in Clients \ {c}
    PROVE  Waits(d)'
<1>1. TypeOK /\ Waits(d) /\ Progress(d) /\ now' = now
  BY DEF Typed, Orderly, Moves
<1>2. client'[d] = client[d] /\ refused'[d] = refused[d]
  BY DEF Moves, Other
<1>3. Bucket(d)' = Bucket(d) /\ Alone(d)' = Alone(d) /\ Left("upload")' = Left("upload")
  BY <1>1, MovesKeepCast, CastKept DEF Left
<1>4. PICK x \in Buckets : x = Bucket(d)
  BY <1>1, BucketType
<1>5. ASSUME Alone(d), client[d].st \in {"send", "sleep"}, Current(Bucket(d)) = {}
      PROVE  Current(Bucket(d))' = {}
  <2>1. Bucket(c) # Bucket(d)
    <3>1. client[d].role = "upload"
      BY <1>1, <1>5 DEF Progress
    <3>2. client[c].role # "upload" \/ client[c].who # client[d].who
      BY <1>5 DEF Alone
    <3> QED
      BY <3>1, <3>2 DEF Bucket, Group
  <2>2. Bucket(c) \in Buckets
    BY <1>1, BucketType
  <2>3. Current(x)' = {}
    <3>1. UNCHANGED <<rows, served>> \/ \E b \in Buckets : b # x /\ CountRequest(b)
      BY <1>4, <2>1, <2>2 DEF Moves
    <3>2. Current(x) = {}
      BY <1>4, <1>5
    <3> QED
      BY <1>1, <3>1, <3>2, StaysEmpty
  <2>4. Current(Bucket(d))' = Current(x)'
    BY <1>3, <1>4 DEF Current, Left
  <2> QED
    BY <2>3, <2>4
<1> QED
  BY <1>1, <1>2, <1>3, <1>5 DEF Waits

LEMMA StartUploadWaits ==
    ASSUME Typed, NEW c \in Clients, StartUpload(c)
    PROVE  Waits(c)'
<1>1. /\ refused'[c] = [windows |-> 0, here |-> FALSE] /\ client'[c].attempt = 0
      /\ client'[c].st \in {"oversize", "done", "send"}
  BY StartUploadStep
<1> QED
  BY <1>1 DEF Waits

\* The bucket is empty after a page has waited, and stays so if it is the only one to use it.
LEMMA AloneFirst ==
    ASSUME Typed, Orderly, NEW c \in Clients, client[c].st = "send", ~Within(Bucket(c)), Alone(c)
    PROVE  client[c].attempt = 0
<1>1. TypeOK /\ Waits(c) /\ client[c].attempt \in 0..Retries
  BY DEF Typed, Orderly, TypeOK, Client
<1>2. ASSUME client[c].attempt > 0 PROVE FALSE
  <2>1. Current(Bucket(c)) = {}
    BY <1>1, <1>2 DEF Waits
  <2>2. Count(Bucket(c)) = 0
    BY <2>1 DEF Count
  <2>3. Limit[Bucket(c)[1]] \in Nat \ {0}
    BY <1>1, Constants, BucketType
  <2> QED
    BY <2>2, <2>3 DEF Within
<1> QED
  BY <1>1, <1>2

\* A refused page is told to wait for the rest of the window, and may.
LEMMA PostRefusedWaits ==
    ASSUME Typed, Orderly, NEW c \in Clients, PostRefused(c)
    PROVE  Waits(c)'
<1>1. /\ TypeOK /\ Waits(c) /\ client[c].st = "send" /\ ~Within(Bucket(c)) /\ now' = now
      /\ client'[c].attempt = client[c].attempt /\ refused'[c].here = TRUE
      /\ refused'[c].windows = IF refused[c].here THEN refused[c].windows
                               ELSE Least(refused[c].windows + 1, Retries + 1)
      /\ IF client[c].attempt < Retries
         THEN client'[c].st = "sleep" /\ client'[c].wait = Pause(RetryAfter("upload"))
         ELSE client'[c].st = "gaveup"
  BY PostRefusedStep DEF Orderly, Moves, Typed
<1>2. client[c].attempt \in 0..Retries /\ Retries \in Nat \ {0}
  BY <1>1, Constants DEF TypeOK, Client
<1>3. refused'[c].windows = client[c].attempt + 1
  <2>1. ~refused[c].here /\ refused[c].windows = client[c].attempt
    BY <1>1 DEF Waits
  <2>2. Least(client[c].attempt + 1, Retries + 1) = client[c].attempt + 1
    BY <1>2 DEF Least
  <2> QED
    BY <1>1, <2>1, <2>2
<1>4. Alone(c)' = Alone(c) /\ (Alone(c) => client[c].attempt = 0)
  BY <1>1, PostRefusedStep, MovesKeepCast, CastKept, AloneFirst
<1>5. CASE client[c].attempt < Retries
  <2>1. Pause(RetryAfter("upload")) = Left("upload")
    <3>1. Left("upload") \in Nat /\ Left("upload") >= 1 /\ Left("upload") <= MaxSleep /\ MaxSleep \in Nat
      BY <1>1, LeftType, Constants
    <3> QED
      BY <3>1 DEF Pause, RetryAfter, Least, Most
  <2>2. Left("upload")' = Left("upload")
    BY <1>1 DEF Left
  <2> QED
    BY <1>1, <1>3, <1>4, <1>5, <2>1, <2>2 DEF Waits
<1>6. CASE ~(client[c].attempt < Retries)
  <2>1. client[c].attempt = Retries /\ client[c].attempt # 0
    BY <1>2, <1>6
  <2> QED
    BY <1>1, <1>3, <1>4, <1>6, <2>1 DEF Waits
<1> QED
  BY <1>5, <1>6

\* A page wakes in a later window.
LEMMA WakeWaits ==
    ASSUME Typed, Orderly, NEW c \in Clients, Wake(c)
    PROVE  Waits(c)'
<1>1. /\ TypeOK /\ Waits(c) /\ now' = now /\ client[c].st = "sleep" /\ client[c].wait = 0
      /\ client'[c].st = "send" /\ client'[c].attempt = client[c].attempt + 1
      /\ refused' = refused /\ rows' = rows
  BY WakeStep DEF Orderly, Moves, Typed
<1>2. ~refused[c].here
  BY <1>1, LeftType DEF Waits
<1>3. Bucket(c)' = Bucket(c) /\ Alone(c)' = Alone(c)
  BY WakeStep, MovesKeepCast, CastKept
<1>4. Current(Bucket(c))' = Current(Bucket(c))
  BY <1>1, <1>3 DEF Current, Left
<1> QED
  BY <1>1, <1>2, <1>3, <1>4 DEF Waits

\* A new window has no row, nor has one that had none.
LEMMA EmptyAged ==
    ASSUME Typed, Tick, NEW x \in Buckets, Current(x) = {} \/ Elapsed(x[1]) + 1 = Window[x[1]]
    PROVE  Current(x)' = {}
<1>1. TypeOK /\ TypeOK'
  BY TickStep DEF Typed
<1>2. CASE Elapsed(x[1]) + 1 # Window[x[1]]
  BY <1>1, <1>2, CurrentAged
<1>3. CASE Elapsed(x[1]) + 1 = Window[x[1]]
  <2> SUFFICES ASSUME NEW r \in Current(x)' PROVE FALSE
    OBVIOUS
  <2>1. Left(x[1])' = Window[x[1]] /\ Window[x[1]] \in Nat \ {0}
    <3>1. x[1] \in Groups /\ now \in 0..(Period - 1)
      BY <1>1, Constants DEF TypeOK
    <3>2. Elapsed(x[1])' = 0 /\ Window[x[1]] \in Nat \ {0}
      BY <1>3, <3>1, ElapsedSteps
    <3>3. Left(x[1])' = Window[x[1]] - Elapsed(x[1])'
      BY DEF Left, Elapsed
    <3> QED
      BY <3>2, <3>3
  <2>2. r \in rows' /\ r.bucket = x /\ r.left = Window[x[1]]
    BY <2>1 DEF Current
  <2>3. PICK s \in rows : r = Aged(s)
    BY <2>2 DEF Tick
  <2>4. s.left \in (-1)..Window[x[1]] /\ s.bucket = x
    BY <1>1, <2>2, <2>3, RowAged DEF TypeOK
  <2>5. Aged(s).left < Window[x[1]]
    <3>1. CASE s.left > 1
      BY <1>1, <2>1, <2>4, <3>1, RowAged
    <3>2. CASE ~(s.left > 1)
      <4>1. Aged(s).left <= 0 /\ Aged(s).left \in Int
        BY <1>1, <2>1, <2>2, <2>3, <2>4, <3>2, RowAged
      <4> QED
        BY <2>1, <4>1
    <3> QED
      BY <3>1, <3>2
  <2> QED
    BY <2>1, <2>2, <2>3, <2>5
<1> QED
  BY <1>2, <1>3

\* A sleep ends with the window.
LEMMA TickWaits ==
    ASSUME Typed, Orderly, Tick, NEW c \in Clients
    PROVE  Waits(c)'
<1>1. TypeOK /\ Waits(c) /\ Progress(c) /\ now \in 0..(Period - 1)
  BY DEF Typed, Orderly, TypeOK
<1>2. /\ client'[c].st = client[c].st /\ client'[c].attempt = client[c].attempt
      /\ client'[c].wait = Most(client[c].wait - 1, 0)
      /\ refused'[c].windows = refused[c].windows
      /\ refused'[c].here = IF now' % Window["upload"] = 0 THEN FALSE ELSE refused[c].here
  BY TickStep
<1>3. Bucket(c)' = Bucket(c) /\ Alone(c)' = Alone(c)
  <2>1. SameCast
    BY TickStep DEF SameCast
  <2> QED
    BY <2>1, CastKept
<1>4. PICK x \in Buckets : x = Bucket(c)
  BY <1>1, BucketType
<1>5. Current(Bucket(c))' = Current(x)'
  BY <1>3, <1>4 DEF Current, Left
<1>6. client[c].st \in {"send", "sleep"} => x[1] = "upload"
  BY <1>1, <1>4 DEF Progress, Bucket, Group
<1>7. Current(x) = {} \/ Elapsed(x[1]) + 1 = Window[x[1]] => Current(Bucket(c))' = {}
  BY <1>5, EmptyAged
<1>8. CASE client[c].st \notin {"send", "sleep"}
  BY <1>1, <1>2, <1>3, <1>8 DEF Waits
<1>9. CASE client[c].st = "send"
  <2>1. Alone(c) /\ client[c].attempt > 0 => Current(Bucket(c))' = {}
    BY <1>1, <1>4, <1>7, <1>9 DEF Waits
  <2> QED
    BY <1>1, <1>2, <1>3, <1>9, <2>1 DEF Waits
<1>10. CASE client[c].st = "sleep"
  <2>1. /\ now' % Window["upload"] = IF Elapsed("upload") + 1 = Window["upload"] THEN 0
                                     ELSE Elapsed("upload") + 1
        /\ Elapsed("upload") \in 0..(Window["upload"] - 1) /\ Window["upload"] \in Nat \ {0}
        /\ Left("upload") = Window["upload"] - Elapsed("upload")
    <3>1. Elapsed("upload")' = now' % Window["upload"]
      BY DEF Elapsed
    <3> QED
      BY <1>1, <3>1, Constants, ElapsedSteps
  <2>2. CASE Elapsed("upload") + 1 = Window["upload"]
    <3>1. refused'[c].here = FALSE
      BY <1>2, <2>1, <2>2
    <3>2. Current(Bucket(c))' = {}
      BY <1>6, <1>7, <1>10, <2>2
    <3> QED
      BY <1>1, <1>2, <1>3, <1>10, <3>1, <3>2 DEF Waits
  <2>3. CASE Elapsed("upload") + 1 # Window["upload"]
    <3>1. refused'[c].here = refused[c].here
      <4>1. now' % Window["upload"] # 0
        BY <2>1, <2>3
      <4> QED
        BY <1>2, <4>1
    <3>2. Left("upload")' = Left("upload") - 1 /\ Left("upload") \in Nat /\ Left("upload") > 1
      <4>1. Left("upload")' = Window["upload"] - (now' % Window["upload"])
        BY DEF Left
      <4> QED
        BY <2>1, <2>3, <4>1
    <3>3. refused[c].here => client'[c].wait = Left("upload")'
      <4>1. refused[c].here => client[c].wait = Left("upload")
        BY <1>1, <1>10 DEF Waits
      <4> QED
        BY <1>2, <3>2, <4>1 DEF Most
    <3>4. Alone(c) /\ ~refused[c].here => Current(Bucket(c))' = {}
      BY <1>1, <1>4, <1>7, <1>10 DEF Waits
    <3> QED
      BY <1>1, <1>2, <1>3, <1>10, <3>1, <3>3, <3>4 DEF Waits
  <2> QED
    BY <2>2, <2>3
<1> QED
  BY <1>8, <1>9, <1>10
-----------------------------------------------------------------------------
(* The theorems *)

LEMMA SumOfZeros ==
    ASSUME NEW top \in Nat, NEW f, f = [i \in 0..top |-> 0]
    PROVE  \A n \in 0..top : SumTo(f, n) = 0
<1> DEFINE S == {n \in Nat : n <= top => SumTo(f, n) = 0}
<1>1. 0 \in S
  BY SumSteps
<1>2. ASSUME NEW n \in Nat, n \in S PROVE n + 1 \in S
  <2> SUFFICES ASSUME n + 1 <= top PROVE SumTo(f, n + 1) = 0
    OBVIOUS
  <2>1. SumTo(f, n) = 0 /\ f[n + 1] = 0
    BY <1>2
  <2>2. SumTo(f, n + 1) = SumTo(f, n) + f[n + 1]
    BY SumSteps
  <2> QED
    BY <2>1, <2>2
<1> HIDE DEF S
<1>3. Nat \subseteq S
  BY <1>1, <1>2, Induction
<1> QED
  BY <1>3 DEF S

\* The invariant holds at first, and every step keeps it.
LEMMA InitInvariant == Init => IInv
<1> SUFFICES ASSUME Init PROVE IInv
  OBVIOUS
<1>1. PICK cast \in Casts : client = [c \in Clients |-> Idle(cast[c].role, cast[c].who)]
  BY DEF Init
<1>2. ASSUME NEW c \in Clients
      PROVE  client[c] \in Client /\ client[c].st = "idle" /\ client[c].rows = <<>>
  <2>1. cast[c].role \in {"upload", "signin", "away"} /\ cast[c].who \in Principals
    BY LimitsAssumption
  <2>2. PICK role \in {"upload", "signin", "away"}, who \in Principals :
          role = cast[c].role /\ who = cast[c].who
    BY <2>1
  <2>3. client[c] = Idle(role, who)
    BY <1>1, <2>2
  <2>4. 0 \in 0..Retries /\ 0 \in 0..MaxSleep /\ 0 \in 0..TooOld
    BY Constants DEF TooOld
  <2>5. Idle(role, who) \in Client /\ Idle(role, who).st = "idle" /\ Idle(role, who).rows = <<>>
    BY <2>4 DEF Idle, Client, States
  <2> QED
    BY <2>3, <2>5
<1>3. \A b \in Buckets : /\ Window[b[1]] - 1 \in Nat
                         /\ served[b] = [age \in 0..(Window[b[1]] - 1) |-> 0]
                         /\ Limit[b[1]] \in Nat
  BY Constants DEF Init
<1>4. Typed
  <2>1. client \in [Clients -> Client]
    BY <1>1, <1>2
  <2>2. ASSUME NEW b \in Buckets PROVE served[b] \in [0..(Window[b[1]] - 1) -> Nat]
    <3>1. PICK span : span = 0..(Window[b[1]] - 1)
      OBVIOUS
    <3>2. served[b] = [age \in span |-> 0]
      BY <1>3, <3>1
    <3>3. [age \in span |-> 0] \in [span -> Nat]
      OBVIOUS
    <3> QED
      BY <3>1, <3>2, <3>3
  <2>3. served = [b \in Buckets |-> served[b]]
    BY DEF Init
  <2>4. now \in 0..(Period - 1) /\ rows = {} /\ failures \in [Ages -> Nat]
    BY DEF Init
  <2>5. locked \in 0..Never
    BY Constants DEF Init, Never
  <2>6. /\ got \in [Clients -> Seq(Rows)]
        /\ refused \in [Clients -> [windows : 0..(Retries + 1), here : BOOLEAN]]
    <3>1. 0 \in 0..(Retries + 1)
      BY Constants
    <3> QED
      BY <3>1 DEF Init
  <2> QED
    BY <2>1, <2>2, <2>3, <2>4, <2>5, <2>6 DEF Typed, TypeOK
<1>5. Counted
  <2> SUFFICES ASSUME NEW b \in Buckets PROVE CountedIn(b)
    BY DEF Counted
  <2>1. PICK top, f, e : top = Window[b[1]] - 1 /\ f = served[b] /\ e = Elapsed(b[1])
    OBVIOUS
  <2>2. top \in Nat /\ f = [age \in 0..top |-> 0] /\ e \in 0..top /\ top \in 0..top
    <3>1. b[1] \in Groups /\ now \in 0..(Period - 1)
      BY Constants DEF Init
    <3>2. e \in 0..top
      BY <2>1, <3>1, ElapsedSteps
    <3> QED
      BY <1>3, <2>1, <3>2
  <2>3. SumTo(f, e) = 0 /\ SumTo(f, top) = 0
    BY <2>2, SumOfZeros
  <2>4. Current(b) = {}
    BY DEF Init, Current
  <2>5. 0 <= Limit[b[1]] /\ 0 - 0 <= Limit[b[1]]
    <3>1. PICK lim \in Nat : lim = Limit[b[1]]
      BY <1>3
    <3>2. 0 <= lim /\ 0 - 0 <= lim
      OBVIOUS
    <3> QED
      BY <3>1, <3>2
  <2> QED
    BY <2>1, <2>3, <2>4, <2>5 DEF CountedIn
<1>6. Admitted
  <2>1. Checked = {}
    BY <1>2 DEF Checked
  <2>2. Cardinality(Checked) = 0
    BY <2>1, FS_EmptySet
  <2>3. SumTo(failures, LockSpan) = 0
    <3>1. PICK top, f : top = LockSpan /\ f = failures
      OBVIOUS
    <3>2. top \in Nat /\ f = [i \in 0..top |-> 0] /\ top \in 0..top
      BY <3>1, Constants DEF Init
    <3>3. SumTo(f, top) = 0
      BY <3>2, SumOfZeros
    <3> QED
      BY <3>1, <3>3
  <2>4. Cardinality(Clients) \in Nat /\ MaxFail \in Nat \ {0}
    BY CheckedType, Constants
  <2> QED
    BY <2>2, <2>3, <2>4 DEF Admitted
<1>7. Orderly
  <2> SUFFICES ASSUME NEW c \in Clients PROVE Progress(c) /\ Waits(c)
    BY DEF Orderly
  <2>1. got[c] = <<>> /\ client[c].st = "idle" /\ client[c].rows = <<>>
    BY <1>2 DEF Init
  <2>2. IsPrefix(<<>>, <<>>)
    BY DEF IsPrefix
  <2> QED
    BY <2>1, <2>2 DEF Progress, Waits
<1> QED
  BY <1>4, <1>5, <1>6, <1>7 DEF IInv

\* A client's step: what it does to the counters, the lockout and the other clients.
LEMMA ClientStep ==
    ASSUME IInv, NEW c \in Clients, Typed', Moves(c), Progress(c)', Waits(c)', Admitted'
    PROVE  IInv'
<1>1. Typed /\ Counted /\ Orderly /\ TypeOK /\ now' = now
  BY DEF IInv, Typed, Moves
<1>2. Counted'
  <2>1. CASE UNCHANGED <<rows, served>>
    <3>1. /\ \A b \in Buckets : Current(b)' = Current(b)
          /\ \A b \in Buckets : Elapsed(b[1])' = Elapsed(b[1])
      BY <1>1, <2>1 DEF Current, Left, Elapsed
    <3>2. served' = served
      BY <2>1
    <3>3. ASSUME NEW b \in Buckets PROVE CountedIn(b)'
      BY <1>1, <3>1, <3>2 DEF Counted, CountedIn
    <3> QED
      BY <3>3 DEF Counted
  <2>2. CASE CountRequest(Bucket(c))
    BY <1>1, <2>2, BucketType, RequestCounted
  <2> QED
    BY <2>1, <2>2 DEF Moves
<1>3. ASSUME NEW d \in Clients \ {c} PROVE Progress(d)' /\ Waits(d)'
  <2>1. client'[d] = client[d] /\ got'[d] = got[d] /\ Progress(d)
    BY <1>1 DEF Moves, Other, Orderly
  <2>2. Progress(d)'
    BY <2>1, ProgressStays
  <2> QED
    BY <1>1, <2>2, OthersWait
<1>4. Orderly'
  BY <1>3 DEF Orderly
<1> QED
  BY <1>2, <1>4 DEF IInv

\* Steps of an upload record no failure of a sign-in.
LEMMA UploadAdmitted ==
    ASSUME IInv, NEW c \in Clients, Moves(c), failures' = failures,
           client'[c].st # "checked" \/ client[c].st = "checked"
    PROVE  Admitted'
BY ClientAdmitted DEF IInv, Moves

LEMMA NextInvariant == IInv /\ [Next]_vars => IInv'
<1> SUFFICES ASSUME IInv, [Next]_vars PROVE IInv'
  OBVIOUS
<1>1. Typed /\ Counted /\ Admitted /\ Orderly
  BY DEF IInv
<1>2. ASSUME NEW c \in Clients, StartUpload(c) PROVE IInv'
  <2>1. Typed' /\ Moves(c) /\ failures' = failures /\ client'[c].st # "checked"
    BY <1>1, <1>2, StartUploadStep
  <2>2. Progress(c)' /\ Waits(c)' /\ Admitted'
    BY <1>1, <1>2, <2>1, StartUploadProgress, StartUploadWaits, UploadAdmitted
  <2> QED
    BY <2>1, <2>2, ClientStep
<1>3. ASSUME NEW c \in Clients, PostRefused(c) PROVE IInv'
  <2>1. /\ Typed' /\ Moves(c) /\ failures' = failures /\ client'[c].st \in {"sleep", "gaveup"}
        /\ client[c].st = "send" /\ got'[c] = got[c]
        /\ client'[c].rows = client[c].rows /\ client'[c].chunk = client[c].chunk
    BY <1>1, <1>3, PostRefusedStep
  <2>2. Progress(c)'
    <3>1. Progress(c) /\ client'[c].role = client[c].role
      BY <1>1, <2>1 DEF Orderly, Moves
    <3> QED
      BY <2>1, <3>1, ProgressStays
  <2>3. Waits(c)' /\ Admitted'
    BY <1>1, <1>3, <2>1, PostRefusedWaits, UploadAdmitted
  <2> QED
    BY <2>1, <2>2, <2>3, ClientStep
<1>4. ASSUME NEW c \in Clients, PostStored(c) PROVE IInv'
  <2>1. /\ Typed' /\ Moves(c) /\ failures' = failures /\ client'[c].st \in {"done", "send"}
        /\ client'[c].attempt = 0 /\ refused'[c] = [windows |-> 0, here |-> FALSE]
    BY <1>1, <1>4, PostStoredStep
  <2>2. Waits(c)'
    BY <2>1 DEF Waits
  <2>3. Progress(c)' /\ Admitted'
    BY <1>1, <1>4, <2>1, PostStoredProgress, UploadAdmitted
  <2> QED
    BY <2>1, <2>2, <2>3, ClientStep
<1>5. ASSUME NEW c \in Clients, PostFails(c) PROVE IInv'
  <2>1. Typed' /\ Moves(c) /\ failures' = failures /\ client'[c].st = "failed"
    BY <1>1, <1>5, PostFailsStep
  <2>2. Waits(c)'
    BY <2>1 DEF Waits
  <2>3. Progress(c)' /\ Admitted'
    BY <1>1, <1>5, <2>1, PostFailsProgress, UploadAdmitted
  <2> QED
    BY <2>1, <2>2, <2>3, ClientStep
<1>6. ASSUME NEW c \in Clients, Wake(c) PROVE IInv'
  <2>1. /\ Typed' /\ Moves(c) /\ failures' = failures /\ got' = got
        /\ client[c].st = "sleep" /\ client'[c].st = "send"
        /\ client'[c].rows = client[c].rows /\ client'[c].chunk = client[c].chunk
    BY <1>1, <1>6, WakeStep
  <2>2. Progress(c)'
    <3>1. Progress(c) /\ client'[c].role = client[c].role
      BY <1>1, <2>1 DEF Orderly, Moves
    <3> QED
      BY <2>1, <3>1, ProgressStays
  <2>3. Waits(c)' /\ Admitted'
    BY <1>1, <1>6, <2>1, WakeWaits, UploadAdmitted
  <2> QED
    BY <2>1, <2>2, <2>3, ClientStep
<1>7. ASSUME NEW c \in Clients, SignIn(c) \/ CheckLock(c) \/ Announce(c) \/ Verify(c) PROVE IInv'
  <2>1. /\ Typed' /\ Moves(c) /\ got' = got
        /\ client'[c].st \in {"idle", "arrived", "announce", "checked"}
        /\ client'[c].rows = client[c].rows
    BY <1>1, <1>7, VerifyType, SignInStep
  <2>2. Waits(c)'
    BY <2>1 DEF Waits
  <2>3. Progress(c)'
    <3>1. Progress(c) /\ client'[c].role = client[c].role
      BY <1>1, <2>1 DEF Orderly, Moves
    <3> QED
      BY <2>1, <3>1, ProgressStays
  <2>4. Admitted'
    BY <1>1, <1>7, SignInAdmitted
  <2> QED
    BY <2>1, <2>2, <2>3, <2>4, ClientStep
<1>8. CASE Tick
  <2>1. Typed' /\ Counted' /\ Admitted'
    BY <1>1, <1>8, TickStep, TickCounted, TickAdmitted
  <2>2. ASSUME NEW c \in Clients PROVE Progress(c)' /\ Waits(c)'
    <3>1. /\ Progress(c) /\ got'[c] = got[c]
          /\ client'[c].role = client[c].role /\ client'[c].st = client[c].st
          /\ client'[c].rows = client[c].rows /\ client'[c].chunk = client[c].chunk
      BY <1>1, <1>8, TickStep DEF Orderly
    <3> QED
      BY <1>1, <1>8, <3>1, ProgressStays, TickWaits
  <2> QED
    BY <2>1, <2>2 DEF IInv, Orderly
<1>9. CASE UNCHANGED vars
  <2>1. Typed'
    BY <1>1, <1>9 DEF vars, Typed, TypeOK, Row
  <2>2. Counted'
    BY <1>1, <1>9 DEF vars, IInv, Counted, CountedIn, Elapsed, Current, Left
  <2>3. Admitted'
    BY <1>1, <1>9 DEF vars, IInv, Admitted, Checked
  <2>4. Orderly'
    BY <1>1, <1>9 DEF vars, IInv, Orderly, Progress, Waits, Alone, Bucket, Group, Current, Left, Elapsed
  <2> QED
    BY <2>1, <2>2, <2>3, <2>4 DEF IInv
<1> QED
  BY <1>2, <1>3, <1>4, <1>5, <1>6, <1>7, <1>8, <1>9 DEF Next, Upload

\* In every reachable state, for any number of clients and whatever they upload: a row of the
\* running window counts what was let through in it, the limits of both windows are kept,
\* sign-ins past the lockout are accounted for, and a page is at the chunk, and in the window,
\* that its memory says.
THEOREM Invariant == Spec => []IInv
BY InitInvariant, NextInvariant, PTL DEF Spec

\* Every state of the counters, the events and the clients is one the program can represent:
\* the count of a row never passes the limit by more than one, nor an attempt its bound
\* (rate_limit.py, submitEncryptedChunk).
THEOREM TypeCorrect == Spec => []TypeOK
<1>1. IInv => TypeOK
  BY DEF IInv, Typed
<1> QED
  BY Invariant, <1>1, PTL

\* Within any span of a window's length at most twice the limit gets through, for any limits
\* and windows, whenever the clean-up of expired rows runs (consume_rate_limit).
THEOREM SpansAreBounded == Spec => []SpanBounded
<1>1. IInv => SpanBounded
  BY SpansAreTwoWindows DEF IInv
<1> QED
  BY Invariant, <1>1, PTL

\* What is stored of an upload is a prefix of its rows, and all of them when it is done, for
\* rows of any sizes and any number of them; no chunk exceeds what the server takes
\* (chunkSealedRecords, submitEncryptedInChunks).
THEOREM UploadsAreStoredInOrder == Spec => []StoredInOrder
<1>1. IInv => StoredInOrder
  BY DEF IInv, Orderly, Progress, StoredInOrder
<1> QED
  BY Invariant, <1>1, PTL

\* A page that waits as it is told gives up only after refusals in one window more than it may
\* retry, and never if nobody else uploads for its account, for any number of other clients.
THEOREM PagesGiveUpLate == Spec => []GivesUpLate
<1>1. IInv => GivesUpLate
  BY DEF IInv, Orderly, Waits, GivesUpLate
<1> QED
  BY Invariant, <1>1, PTL

\* Failed sign-ins within the span of a lockout exceed its limit by at most the other requests
\* that were in progress, however many there are (login_verify, check_account_lockout).
THEOREM FailuresAreBounded == Spec => []FailuresBounded
<1>1. IInv => FailuresBounded
  BY FewerThanAdmitted DEF IInv
<1> QED
  BY Invariant, <1>1, PTL
=============================================================================
