----------------------------- MODULE LoopProofs -----------------------------
(***************************************************************************)
(* Facts the other proofs keep needing: about sets of numbers, about loops, *)
(* which are recursive functions along the numbers, and about what          *)
(* sequences hold.                                                         *)
(***************************************************************************)
EXTENDS Integers, SequencesExt, Selections, FiniteSetTheorems, FunctionTheorems,
        SequenceTheorems, WellFoundedInduction, TLAPS

-----------------------------------------------------------------------------
(* Numbers and loops *)

\* A set of natural numbers that is not empty has a least element.
LEMMA LeastNatural ==
  ASSUME NEW T \in SUBSET Nat, T # {}
  PROVE  \E n \in T : \A m \in T : n <= m
  <1> DEFINE R == OpToRel(<, Nat)
  <1>1. \E x \in T : \A y \in T : ~(<<y, x>> \in R)
    <2>1. IsWellFoundedOn(R, Nat)
      BY NatLessThanWellFounded
    <2> HIDE DEF R
    <2> QED
      BY <2>1, WFMin
  <1>2. \A x, y \in Nat : <<y, x>> \in R <=> y < x
    BY DEF OpToRel
  <1> HIDE DEF R
  <1>3. PICK n \in T : \A m \in T : ~(<<m, n>> \in R)
    BY <1>1
  <1>4. \A m \in T : ~(m < n)
    BY <1>2, <1>3
  <1>5. \A m \in T : n <= m
    BY <1>4
  <1> QED
    BY <1>5

\* A property of numbers that 0 has, and n + 1 whenever n has it.
LEMMA NaturalsByInduction ==
  ASSUME NEW T \in SUBSET Nat, 0 \in T, \A n \in T : n + 1 \in T
  PROVE  T = Nat
<1>1. SUFFICES ASSUME Nat \ T # {}
               PROVE  FALSE
  OBVIOUS
<1>2. PICK n \in Nat \ T : \A m \in Nat \ T : n <= m
  <2> DEFINE U == Nat \ T
  <2>1. U \in SUBSET Nat /\ U # {}
    BY <1>1
  <2> HIDE DEF U
  <2>2. \E n \in U : \A m \in U : n <= m
    BY <2>1, LeastNatural
  <2> QED
    BY <2>2 DEF U
<1>3. n # 0 /\ n - 1 \in Nat
  BY <1>2
<1>4. n - 1 \in T
  BY <1>2, <1>3
<1>5. (n - 1) + 1 \in T
  BY <1>4
<1> QED
  BY <1>2, <1>3, <1>5

\* The same up to a bound.
LEMMA UpToByInduction ==
  ASSUME NEW last \in Nat, NEW T, 0 \in T, \A n \in 0..(last - 1) : n \in T => n + 1 \in T
  PROVE  0..last \subseteq T
<1> DEFINE U == {n \in Nat : n \in T \/ n > last}
<1>1. \A n \in U : n + 1 \in U
  <2> SUFFICES ASSUME NEW n \in Nat, n \in T \/ n > last
               PROVE  n + 1 \in T \/ n + 1 > last
    OBVIOUS
  <2>1. CASE n < last
    BY <2>1
  <2>2. CASE ~(n < last)
    BY <2>2
  <2> QED
    BY <2>1, <2>2
<1>2. U \in SUBSET Nat /\ 0 \in U
  OBVIOUS
<1> HIDE DEF U
<1>3. U = Nat
  BY <1>1, <1>2, NaturalsByInduction
<1> QED
  BY <1>3 DEF U

\* A set of natural numbers with an upper bound has a greatest element.
LEMMA MaxOfBounded ==
  ASSUME NEW bound \in Nat, NEW S \in SUBSET (0..bound), S # {}
  PROVE  /\ Max(S) \in S
         /\ \A x \in S : x <= Max(S)
<1> DEFINE T == {n \in Nat : \A x \in S : x <= n}
<1>1. T \in SUBSET Nat /\ bound \in T
  OBVIOUS
<1>2. PICK n \in T : \A m \in T : n <= m
  <2> HIDE DEF T
  <2> QED
    BY <1>1, LeastNatural
<1>3. n \in S
  <2>1. CASE n = 0
    <3>1. PICK x \in S : TRUE
      OBVIOUS
    <3>2. x = 0
      BY <2>1, <1>2, <3>1
    <3> QED
      BY <2>1, <3>2
  <2>2. CASE n # 0
    <3>1. SUFFICES ASSUME n \notin S
                   PROVE  FALSE
      OBVIOUS
    <3>2. n - 1 \in Nat
      BY <2>2, <1>2
    <3>3. \A x \in S : x <= n - 1
      BY <1>2, <3>1, <3>2
    <3>4. n - 1 \in T
      BY <3>2, <3>3
    <3> QED
      BY <1>2, <3>2, <3>4
  <2> QED
    BY <2>1, <2>2
<1>4. \A x \in S : n >= x
  BY <1>2
<1>5. Max(S) \in S /\ \A x \in S : Max(S) >= x
  BY <1>3, <1>4 DEF Max
<1> QED
  BY <1>5

Solves(f, last, start, step) ==
  f[0] = start /\ \A n \in 1..last : f[n] = step[<<n, f[n - 1]>>]

\* A recursion along the numbers up to a bound has a solution.
LEMMA RecursionUpTo ==
  ASSUME NEW last \in Nat, NEW U, NEW start \in U, NEW step \in [(1..last) \X U -> U]
  PROVE  \E f \in [0..last -> U] : Solves(f, last, start, step)
<1> DEFINE T == {m \in 0..last : \E f \in [0..m -> U] : Solves(f, m, start, step)}
<1>1. 0 \in T
  <2> DEFINE f == [n \in 0..0 |-> start]
  <2>1. f \in [0..0 -> U] /\ Solves(f, 0, start, step)
    BY DEF Solves
  <2> HIDE DEF f
  <2> QED
    BY <2>1
<1>2. ASSUME NEW m \in 0..(last - 1), m \in T
      PROVE  m + 1 \in T
  <2>1. m \in Nat /\ m + 1 \in 1..last /\ m + 1 \in 0..last
    OBVIOUS
  <2>2. PICK f \in [0..m -> U] : Solves(f, m, start, step)
    BY <1>2
  <2> DEFINE next == step[<<m + 1, f[m]>>]
             g == [n \in 0..(m + 1) |-> IF n = m + 1 THEN next ELSE f[n]]
  <2>3. f[m] \in U /\ next \in U
    BY <2>1, <2>2
  <2> HIDE DEF next
  <2>4. g \in [0..(m + 1) -> U]
    <3>1. \A n \in 0..(m + 1) : n # m + 1 => n \in 0..m
      BY <2>1
    <3>2. \A n \in 0..(m + 1) : (IF n = m + 1 THEN next ELSE f[n]) \in U
      BY <2>2, <2>3, <3>1
    <3> QED
      BY <3>2
  <2>5. g[0] = start
    BY <2>1, <2>2 DEF Solves
  <2>6. ASSUME NEW n \in 1..(m + 1)
        PROVE  g[n] = step[<<n, g[n - 1]>>]
    <3>1. CASE n = m + 1
      <4>1. n - 1 = m /\ m \in 0..(m + 1) /\ m # m + 1
        BY <2>1, <3>1
      <4>2. g[m] = f[m] /\ g[n] = next
        BY <3>1, <4>1
      <4> QED
        BY <3>1, <4>1, <4>2 DEF next
    <3>2. CASE n # m + 1
      <4>1. n \in 1..m /\ n \in 0..m /\ n - 1 \in 0..m /\ n - 1 # m + 1 /\ n - 1 \in 0..(m + 1)
        BY <2>1, <3>2
      <4>2. g[n] = f[n] /\ g[n - 1] = f[n - 1]
        BY <3>2, <4>1
      <4>3. f[n] = step[<<n, f[n - 1]>>]
        BY <2>2, <4>1 DEF Solves
      <4> QED
        BY <4>2, <4>3
    <3> QED
      BY <3>1, <3>2
  <2> HIDE DEF g
  <2>7. Solves(g, m + 1, start, step)
    BY <2>5, <2>6 DEF Solves
  <2> QED
    BY <2>1, <2>4, <2>7
<1> HIDE DEF T
<1>3. 0..last \subseteq T
  BY <1>1, <1>2, UpToByInduction
<1> QED
  BY <1>3 DEF T

\* What a loop over a sequence of sequences puts together.
LEMMA FlattenedParts ==
  ASSUME NEW S, NEW seqs \in Seq(Seq(S))
  PROVE  FlattenSeq(seqs) \in Seq(S)
<1> DEFINE last == Len(seqs)
           Step(s) == [i \in 1..last |-> IF i = 1 THEN seqs[i] ELSE s[i - 1] \o seqs[i]]
           flatten == CHOOSE s : s = Step(s)
<1>1. FlattenSeq(seqs) = IF last = 0 THEN seqs ELSE flatten[last]
  BY DEF FlattenSeq
<1>2. last \in Nat /\ \A i \in 1..last : seqs[i] \in Seq(S)
  OBVIOUS
<1>3. CASE last = 0
  <2>1. seqs = <<>>
    BY <1>3
  <2> QED
    BY <1>1, <1>3, <2>1
<1>4. CASE last # 0
  <2> DEFINE U == Seq(S)
  <2>1. PICK step : step = [p \in (1..last) \X U |-> p[2] \o seqs[p[1]]]
    OBVIOUS
  <2>2. step \in [(1..last) \X U -> U]
    BY <1>2, <2>1
  <2>3. <<>> \in U
    OBVIOUS
  <2> HIDE DEF U
  <2>4. PICK f \in [0..last -> U] : Solves(f, last, <<>>, step)
    BY <1>2, <2>2, <2>3, RecursionUpTo
  <2>5. f[0] = <<>> /\ \A n \in 1..last : f[n] = f[n - 1] \o seqs[n]
    <3>1. ASSUME NEW n \in 1..last
          PROVE  f[n] = f[n - 1] \o seqs[n]
      <4>1. n - 1 \in 0..last
        BY <1>2
      <4>2. f[n] = step[<<n, f[n - 1]>>]
        BY <2>4 DEF Solves
      <4>3. <<n, f[n - 1]>> \in (1..last) \X U
        BY <2>4, <4>1
      <4> QED
        BY <2>1, <4>2, <4>3
    <3> QED
      BY <2>4, <3>1 DEF Solves
  <2> DEFINE g == [i \in 1..last |-> f[i]]
  <2>6. g = Step(g)
    <3>1. ASSUME NEW i \in 1..last
          PROVE  f[i] = IF i = 1 THEN seqs[i] ELSE g[i - 1] \o seqs[i]
      <4>1. CASE i = 1
        <5>1. 1 \in 1..last /\ 1 - 1 = 0
          BY <4>1
        <5>2. f[1] = <<>> \o seqs[1]
          BY <5>1, <2>5
        <5>3. <<>> \o seqs[1] = seqs[1]
          BY <1>2, <4>1
        <5> QED
          BY <4>1, <5>2, <5>3
      <4>2. CASE i # 1
        <5>1. i - 1 \in 1..last
          BY <1>2, <4>2
        <5> QED
          BY <4>2, <5>1, <2>5
      <4> QED
        BY <4>1, <4>2
    <3> QED
      BY <3>1
  <2> HIDE DEF g
  <2>7. flatten = Step(flatten)
    BY <2>6
  <2> HIDE DEF flatten
  <2> DEFINE T == {n \in 0..last : n # 0 => flatten[n] \in Seq(S)}
  <2>8. 0 \in T
    BY <1>2
  <2>9. ASSUME NEW n \in 0..(last - 1), n \in T
        PROVE  n + 1 \in T
    <3>1. n + 1 \in 1..last /\ n + 1 \in 0..last /\ (n + 1) - 1 = n
      BY <1>2
    <3>2. flatten[n + 1] = IF n + 1 = 1 THEN seqs[n + 1] ELSE flatten[n] \o seqs[n + 1]
      BY <2>7, <3>1
    <3>3. CASE n = 0
      BY <3>1, <3>2, <3>3, <1>2
    <3>4. CASE n # 0
      <4>1. flatten[n] \in Seq(S) /\ seqs[n + 1] \in Seq(S) /\ n + 1 # 1
        BY <2>9, <3>1, <3>4, <1>2
      <4>2. flatten[n] \o seqs[n + 1] \in Seq(S)
        BY <4>1
      <4> QED
        BY <3>1, <3>2, <4>1, <4>2
    <3> QED
      BY <3>3, <3>4
  <2> HIDE DEF T
  <2>10. 0..last \subseteq T
    BY <1>2, <2>8, <2>9, UpToByInduction
  <2>11. flatten[last] \in Seq(S)
    BY <1>2, <1>4, <2>10 DEF T
  <2> QED
    BY <1>1, <1>4, <2>11
<1> QED
  BY <1>3, <1>4

-----------------------------------------------------------------------------
(* Lists *)

\* A set is listed with every element once.
LEMMA Lists ==
  ASSUME NEW S, IsFiniteSet(S)
  PROVE  /\ SetToSeq(S) \in Seq(S) /\ ToSet(SetToSeq(S)) = S
         /\ \A i, j \in DOMAIN SetToSeq(S) : SetToSeq(S)[i] = SetToSeq(S)[j] => i = j
<1>1. Cardinality(S) \in Nat /\ ExistsBijection(1..Cardinality(S), S)
  BY FS_CardinalityType
<1>2. PICK f \in Bijection(1..Cardinality(S), S) : TRUE
  BY <1>1 DEF ExistsBijection
<1>3. f \in [1..Cardinality(S) -> S] /\ IsInjective(f)
  BY <1>2 DEF Bijection, Injection, Surjection, IsInjective
<1> DEFINE s == SetToSeq(S)
<1>4. s \in [1..Cardinality(S) -> S] /\ IsInjective(s)
  BY <1>3 DEF SetToSeq
<1> HIDE DEF s
<1>5. s \in Injection(1..Cardinality(S), S)
  BY <1>4 DEF Injection, IsInjective
<1>6. IsFiniteSet(1..Cardinality(S)) /\ Cardinality(1..Cardinality(S)) = Cardinality(S)
  BY <1>1, FS_Interval
<1>7. s \in Surjection(1..Cardinality(S), S)
  BY <1>5, <1>6, FS_Injection
<1>8. s \in Seq(S)
  BY <1>1, <1>4
<1>9. ToSet(s) = S
  BY <1>4, <1>7 DEF ToSet, Surjection
<1> QED
  BY <1>4, <1>8, <1>9 DEF s, IsInjective

\* What is in a list of elements of a set.
LEMMA SequenceIn ==
  ASSUME NEW S, NEW s \in Seq(S)
  PROVE  ToSet(s) \subseteq S
BY DEF ToSet

\* What a list holds that goes on with another one.
LEMMA Joins ==
  ASSUME NEW S, NEW s \in Seq(S), NEW t \in Seq(S)
  PROVE  s \o t \in Seq(S) /\ ToSet(s \o t) = ToSet(s) \union ToSet(t)
<1>1. /\ s \o t \in Seq(S) /\ Len(s \o t) = Len(s) + Len(t)
      /\ \A i \in 1..Len(s) + Len(t) :
           (s \o t)[i] = IF i <= Len(s) THEN s[i] ELSE t[i - Len(s)]
  OBVIOUS
<1>2. DOMAIN (s \o t) = 1..Len(s) + Len(t) /\ DOMAIN s = 1..Len(s) /\ DOMAIN t = 1..Len(t)
      /\ Len(s) \in Nat /\ Len(t) \in Nat
  BY <1>1
<1>3. ASSUME NEW x \in ToSet(s \o t) PROVE x \in ToSet(s) \union ToSet(t)
  <2>1. PICK i \in 1..Len(s) + Len(t) : x = (s \o t)[i]
    BY <1>2, <1>3 DEF ToSet
  <2>2. CASE i <= Len(s)
    BY <1>1, <1>2, <2>1, <2>2 DEF ToSet
  <2>3. CASE ~(i <= Len(s))
    <3>1. i - Len(s) \in 1..Len(t) /\ x = t[i - Len(s)]
      BY <1>1, <1>2, <2>1, <2>3
    <3> QED
      BY <1>2, <3>1 DEF ToSet
  <2> QED
    BY <2>2, <2>3
<1>4. ASSUME NEW x \in ToSet(s) PROVE x \in ToSet(s \o t)
  <2>1. PICK i \in 1..Len(s) : x = s[i]
    BY <1>2, <1>4 DEF ToSet
  <2>2. i \in 1..Len(s) + Len(t) /\ (s \o t)[i] = x
    BY <1>1, <1>2, <2>1
  <2> QED
    BY <1>2, <2>2 DEF ToSet
<1>5. ASSUME NEW x \in ToSet(t) PROVE x \in ToSet(s \o t)
  <2>1. PICK i \in 1..Len(t) : x = t[i]
    BY <1>2, <1>5 DEF ToSet
  <2>2. i + Len(s) \in 1..Len(s) + Len(t) /\ (s \o t)[i + Len(s)] = x
    BY <1>1, <1>2, <2>1
  <2> QED
    BY <1>2, <2>2 DEF ToSet
<1> QED
  BY <1>1, <1>3, <1>4, <1>5

-----------------------------------------------------------------------------
(* Filters and prefixes *)

\* Keeping what is at some places of a list is a loop along the list.
KeptUpTo(f, S, list, places) ==
  /\ f[0] = <<>>
  /\ \A n \in 0..Len(list) : f[n] \in Seq(S)
  /\ \A n \in 1..Len(list) :
       f[n] = IF n \in places THEN Append(f[n - 1], list[n]) ELSE f[n - 1]

LEMMA KeptLoop ==
  ASSUME NEW S, NEW list \in Seq(S), NEW places
  PROVE  \E f : KeptUpTo(f, S, list, places) /\ Kept(list, places) = f[Len(list)]
<1> DEFINE last == Len(list)
           U == Seq(S)
           Step(s) == [n \in 0..last |->
                         IF n = 0 THEN <<>>
                         ELSE IF n \in places THEN Append(s[n - 1], list[n]) ELSE s[n - 1]]
           kept == CHOOSE s : s = Step(s)
<1>1. Kept(list, places) = kept[last]
  BY Zenon DEF Kept
<1>2. last \in Nat /\ \A n \in 1..last : list[n] \in S
  OBVIOUS
<1>3. PICK step : step = [p \in (1..last) \X U |->
                            IF p[1] \in places THEN Append(p[2], list[p[1]]) ELSE p[2]]
  OBVIOUS
<1>4. step \in [(1..last) \X U -> U]
  <2>1. \A p \in (1..last) \X U : list[p[1]] \in S /\ p[2] \in Seq(S)
    BY <1>2
  <2>2. \A p \in (1..last) \X U : Append(p[2], list[p[1]]) \in Seq(S)
    BY <2>1
  <2> QED
    BY <1>3, <2>1, <2>2
<1>5. <<>> \in U
  OBVIOUS
<1> HIDE DEF U
<1>6. PICK f \in [0..last -> U] : Solves(f, last, <<>>, step)
  BY <1>2, <1>4, <1>5, RecursionUpTo
<1>7. f[0] = <<>> /\ \A n \in 1..last :
        f[n] = IF n \in places THEN Append(f[n - 1], list[n]) ELSE f[n - 1]
  <2>1. ASSUME NEW n \in 1..last
        PROVE  f[n] = IF n \in places THEN Append(f[n - 1], list[n]) ELSE f[n - 1]
    <3>1. n - 1 \in 0..last
      BY <1>2
    <3>2. <<n, f[n - 1]>> \in (1..last) \X U
      BY <1>6, <3>1
    <3> QED
      BY <1>3, <1>6, <3>2 DEF Solves
  <2> QED
    BY <1>6, <2>1 DEF Solves
<1>8. f = Step(f)
  <2>1. \A n \in 0..last : n # 0 => n \in 1..last
    BY <1>2
  <2>2. f = [n \in 0..last |-> f[n]]
    BY <1>6
  <2> QED
    BY <1>7, <2>1, <2>2
<1>9. kept = Step(kept)
  BY <1>8
<1> HIDE DEF kept
<1> DEFINE T == {n \in 0..last : kept[n] \in Seq(S)}
<1>10. 0 \in T
  BY <1>2, <1>9
<1>11. ASSUME NEW n \in 0..(last - 1), n \in T PROVE n + 1 \in T
  <2>1. n + 1 \in 0..last /\ n + 1 # 0 /\ (n + 1) - 1 = n /\ n + 1 \in 1..last
    BY <1>2
  <2>2. kept[n + 1] = IF n + 1 \in places THEN Append(kept[n], list[n + 1]) ELSE kept[n]
    BY <1>9, <2>1
  <2>3. kept[n] \in Seq(S) /\ list[n + 1] \in S
    BY <1>2, <1>11, <2>1
  <2>4. Append(kept[n], list[n + 1]) \in Seq(S)
    BY <2>3
  <2> QED
    BY <2>1, <2>2, <2>3, <2>4
<1> HIDE DEF T
<1>12. 0..last \subseteq T
  BY <1>2, <1>10, <1>11, UpToByInduction
<1>13. kept[0] = <<>>
  <2>1. 0 \in 0..last
    BY <1>2
  <2> QED
    BY <1>9, <2>1
<1>14. ASSUME NEW n \in 1..last
       PROVE  kept[n] = IF n \in places THEN Append(kept[n - 1], list[n]) ELSE kept[n - 1]
  <2>1. n \in 0..last /\ n # 0
    BY <1>2
  <2> QED
    BY <1>9, <2>1
<1>16. \A n \in 0..last : kept[n] \in Seq(S)
  BY <1>12 DEF T
<1>15. KeptUpTo(kept, S, list, places)
  BY <1>13, <1>14, <1>16 DEF KeptUpTo
<1> QED
  BY <1>1, <1>15

\* What is kept of a list was in it.
LEMMA KeptFrom ==
  ASSUME NEW S, NEW list \in Seq(S), NEW places
  PROVE  Kept(list, places) \in Seq(S)
BY KeptLoop DEF KeptUpTo

\* All that is kept of a list is the list.
LEMMA KeptAll ==
  ASSUME NEW S, NEW list \in Seq(S), NEW places, 1..Len(list) \subseteq places
  PROVE  Kept(list, places) = list
<1>1. PICK f : KeptUpTo(f, S, list, places) /\ Kept(list, places) = f[Len(list)]
  BY KeptLoop
<1> DEFINE T == {n \in 0..Len(list) : f[n] = SubSeq(list, 1, n)}
<1>2. 0 \in T
  BY <1>1 DEF KeptUpTo
<1>3. ASSUME NEW n \in 0..(Len(list) - 1), n \in T PROVE n + 1 \in T
  <2>1. n + 1 \in 1..Len(list) /\ n + 1 \in places /\ (n + 1) - 1 = n
    OBVIOUS
  <2>2. f[n + 1] = Append(f[n], list[n + 1])
    BY <1>1, <2>1 DEF KeptUpTo
  <2>3. f[n] = SubSeq(list, 1, n)
    BY <1>3
  <2>4. Append(SubSeq(list, 1, n), list[n + 1]) = SubSeq(list, 1, n + 1)
    BY <2>1
  <2> QED
    BY <2>1, <2>2, <2>3, <2>4
<1> HIDE DEF T
<1>4. 0..Len(list) \subseteq T
  BY <1>2, <1>3, UpToByInduction
<1>5. f[Len(list)] = SubSeq(list, 1, Len(list))
  BY <1>4 DEF T
<1> QED
  BY <1>1, <1>5

\* A list of anything is one of what it holds.
LEMMA ListOf ==
  ASSUME NEW S, NEW s \in Seq(S)
  PROVE  s \in Seq(ToSet(s)) /\ Len(s) \in Nat /\ DOMAIN s = 1..Len(s)
<1>1. s \in [1..Len(s) -> S] /\ Len(s) \in Nat
  OBVIOUS
<1>2. \A i \in 1..Len(s) : s[i] \in ToSet(s)
  BY <1>1 DEF ToSet
<1> QED
  BY <1>1, <1>2

\* The prefixes of a list by their elements.
LEMMA PrefixElements ==
  ASSUME NEW S, NEW T, NEW s \in Seq(S), NEW t \in Seq(T)
  PROVE  IsPrefix(s, t) <=> Len(s) <= Len(t) /\ \A i \in 1..Len(s) : s[i] = t[i]
<1>1. SubSeq(s, 1, Len(s)) = s
  OBVIOUS
<1>2. ASSUME Len(s) <= Len(t)
      PROVE  /\ SubSeq(t, 1, Len(s)) \in [1..Len(s) -> T]
             /\ \A i \in 1..Len(s) : SubSeq(t, 1, Len(s))[i] = t[i]
  <2>1. Len(s) \in Nat /\ Len(t) \in Nat /\ \A i \in 1..Len(s) : i \in 1..Len(t)
    BY <1>2
  <2>2. \A i \in 1..Len(s) : t[i] \in T
    BY <2>1
  <2>3. SubSeq(t, 1, Len(s)) = [i \in 1..Len(s) |-> t[i]]
    BY <2>1
  <2> QED
    BY <2>2, <2>3
<1>3. s \in [1..Len(s) -> S]
  OBVIOUS
<1> QED
  BY <1>1, <1>2, <1>3 DEF IsPrefix

\* The elements of a prefix, one by one, stay those that were kept; what was
\* left out before them does not count.
LEMMA KeptPrefix ==
  ASSUME NEW S, NEW list \in Seq(S), NEW places, NEW U, NEW prefix \in Seq(U), NEW skipped \in Nat,
         skipped + Len(prefix) <= Len(list),
         \A n \in 1..skipped : n \notin places,
         \A i \in 1..Len(prefix) : skipped + i \in places /\ list[skipped + i] = prefix[i]
  PROVE  IsPrefix(prefix, Kept(list, places))
<1>1. PICK f : KeptUpTo(f, S, list, places) /\ Kept(list, places) = f[Len(list)]
  BY KeptLoop
<1> DEFINE p == Len(prefix)
           Agrees(n) == \A i \in 1..p : i <= Len(f[n]) => f[n][i] = prefix[i]
           Long(n) == /\ n <= skipped => Len(f[n]) = 0
                      /\ n >= skipped /\ n <= skipped + p => Len(f[n]) = n - skipped
                      /\ n >= skipped + p => Len(f[n]) >= p
           T == {n \in 0..Len(list) : Agrees(n) /\ Long(n)}
<1>2. p \in Nat /\ Len(list) \in Nat
  OBVIOUS
<1>3. 0 \in T
  BY <1>1, <1>2 DEF KeptUpTo
<1>4. ASSUME NEW n \in 0..(Len(list) - 1), n \in T PROVE n + 1 \in T
  <2>1. n + 1 \in 1..Len(list) /\ n + 1 \in 0..Len(list) /\ n \in 0..Len(list) /\ (n + 1) - 1 = n
    BY <1>2
  <2>2. f[n] \in Seq(S) /\ f[n + 1] \in Seq(S) /\ list[n + 1] \in S /\ Len(f[n]) \in Nat
    BY <1>1, <2>1 DEF KeptUpTo
  <2>3. f[n + 1] = IF n + 1 \in places THEN Append(f[n], list[n + 1]) ELSE f[n]
    BY <1>1, <2>1 DEF KeptUpTo
  <2>4. Agrees(n) /\ Long(n)
    BY <1>4
  <2>5. CASE n + 1 <= skipped
    BY <1>2, <2>1, <2>2, <2>3, <2>4, <2>5
  <2>6. CASE n + 1 > skipped /\ n + 1 <= skipped + p
    <3>1. PICK i \in 1..p : n + 1 = skipped + i
      <4>1. (n + 1) - skipped \in 1..p /\ n + 1 = skipped + ((n + 1) - skipped)
        BY <1>2, <2>6
      <4> QED
        BY <4>1
    <3>2. n + 1 \in places /\ list[n + 1] = prefix[i] /\ Len(f[n]) = i - 1
      BY <1>2, <2>4, <2>6, <3>1
    <3>3. f[n + 1] = Append(f[n], prefix[i])
      BY <2>3, <3>2
    <3>4. Len(f[n + 1]) = i /\ f[n + 1][i] = prefix[i]
          /\ \A j \in 1..(i - 1) : f[n + 1][j] = f[n][j]
      BY <2>2, <3>2, <3>3
    <3>5. Agrees(n + 1)
      BY <1>2, <2>4, <3>1, <3>2, <3>4
    <3>6. Long(n + 1)
      BY <1>2, <2>6, <3>1, <3>4
    <3> QED
      BY <2>1, <3>5, <3>6
  <2>7. CASE n + 1 > skipped + p
    <3>1. Len(f[n]) >= p
      BY <1>2, <2>4, <2>7
    <3>2. Len(f[n + 1]) >= p /\ \A j \in 1..p : f[n + 1][j] = f[n][j]
      BY <1>2, <2>2, <2>3, <3>1
    <3> QED
      BY <1>2, <2>1, <2>4, <2>7, <3>1, <3>2
  <2> QED
    BY <1>2, <2>5, <2>6, <2>7
<1> HIDE DEF T
<1>5. 0..Len(list) \subseteq T
  BY <1>2, <1>3, <1>4, UpToByInduction
<1>6. Len(list) \in T
  BY <1>2, <1>5
<1>7. f[Len(list)] \in Seq(S)
  BY <1>1, <1>2 DEF KeptUpTo
<1>8. Len(f[Len(list)]) >= p /\ Agrees(Len(list))
  BY <1>2, <1>6 DEF T
<1>9. Len(f[Len(list)]) \in Nat
  BY <1>7
<1>10. p <= Len(f[Len(list)]) /\ \A i \in 1..p : prefix[i] = f[Len(list)][i]
  BY <1>2, <1>8, <1>9
<1> QED
  BY <1>1, <1>7, <1>10, PrefixElements
=============================================================================
