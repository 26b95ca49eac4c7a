----------------------------- MODULE DataLemmas -----------------------------
(***************************************************************************)
(* Facts about numbers, sets and sequences that the proofs of the other     *)
(* modules share.  A smallest element stands in for induction: what holds   *)
(* of no least number holds of none.                                        *)
(***************************************************************************)
EXTENDS Integers, Sequences, FiniteSetsExt, FiniteSetTheorems,
        WellFoundedInduction, TLAPS

\* A set of natural numbers that is not empty has a least element.
LEMMA LeastNat ==
    ASSUME NEW S, S \subseteq Nat, S # {}
    PROVE  \E m \in S : \A x \in S : m <= x
<1>1. IsWellFoundedOn(OpToRel(<, Nat), Nat)
  BY NatLessThanWellFounded
<1>2. PICK m \in S : \A y \in S : ~(<<y, m>> \in OpToRel(<, Nat))
  BY <1>1, WFMin
<1>3. \A y \in S : ~(y < m)
  BY <1>2 DEF OpToRel
<1> QED
  BY <1>3

\* One that is bounded has a greatest element, ...
LEMMA GreatestNat ==
    ASSUME NEW S, S \subseteq Nat, S # {}, NEW n \in Nat, \A x \in S : x <= n
    PROVE  \E m \in S : \A x \in S : x <= m
<1> DEFINE T == {n - x : x \in S}
<1>1. T \subseteq Nat
  OBVIOUS
<1>2. PICK z \in S : TRUE
  OBVIOUS
<1>3. n - z \in T
  BY <1>2
<1>4. PICK m \in T : \A y \in T : m <= y
  <2> HIDE DEF T
  <2> QED
    BY <1>1, <1>3, LeastNat
<1>5. PICK x \in S : m = n - x
  BY <1>4
<1>6. \A y \in S : n - y \in T
  OBVIOUS
<1>7. \A y \in S : y <= x
  BY <1>4, <1>5, <1>6
<1> QED
  BY <1>7

\* ... and Max is that element.
LEMMA MaxIn ==
    ASSUME NEW S, S \subseteq Nat, S # {}, NEW n \in Nat, \A x \in S : x <= n
    PROVE  Max(S) \in S /\ \A x \in S : x <= Max(S)
<1>1. \E m \in S : \A x \in S : m >= x
  BY GreatestNat
<1> QED
  BY <1>1 DEF Max

\* A function on 1..n is a sequence of length n, ...
LEMMA FunctionIsSeq ==
    ASSUME NEW n \in Nat, NEW S, NEW f \in [1..n -> S]
    PROVE  f \in Seq(S) /\ Len(f) = n
OBVIOUS

\* ... and an update of a sequence is one of the same length.
LEMMA SeqUpdate ==
    ASSUME NEW S, NEW s \in Seq(S), NEW i, NEW v, i \in DOMAIN s => v \in S
    PROVE  /\ [s EXCEPT ![i] = v] \in Seq(S)
           /\ Len([s EXCEPT ![i] = v]) = Len(s)
<1>1. s \in [1..Len(s) -> S] /\ Len(s) \in Nat
  OBVIOUS
<1>2. [s EXCEPT ![i] = v] \in [1..Len(s) -> S]
  BY <1>1
<1> QED
  BY <1>1, <1>2, FunctionIsSeq

Injective(s) == \A i, j \in DOMAIN s : s[i] = s[j] => i = j

\* The elements of a longer sequence, ...
LEMMA AppendElements ==
    ASSUME NEW S, NEW s \in Seq(S), NEW x
    PROVE  /\ Range(Append(s, x)) = Range(s) \cup {x}
           /\ Append(s, x) # <<>>
           /\ Injective(s) /\ x \notin Range(s) => Injective(Append(s, x))
<1>1. /\ DOMAIN Append(s, x) = 1..(Len(s) + 1) /\ DOMAIN s = 1..Len(s) /\ Len(s) \in Nat
      /\ \A i \in 1..Len(s) : Append(s, x)[i] = s[i]
      /\ Append(s, x)[Len(s) + 1] = x
  OBVIOUS
<1>2. \A i \in 1..(Len(s) + 1) : i \in 1..Len(s) \/ i = Len(s) + 1
  BY <1>1
<1> DEFINE t == Append(s, x)
<1>3. t # <<>>
  <2>1. Len(t) = Len(s) + 1
    OBVIOUS
  <2>2. Len(t) # 0
    BY <1>1, <2>1
  <2> HIDE DEF t
  <2> QED
    BY <2>2
<1> HIDE DEF t
<1>4. Range(t) = Range(s) \cup {x}
  BY <1>1, <1>2 DEF Range, t
<1>5. Injective(s) /\ x \notin Range(s) => Injective(t)
  <2>1. SUFFICES ASSUME Injective(s), x \notin Range(s), NEW i \in DOMAIN t, NEW j \in DOMAIN t,
                        t[i] = t[j]
                 PROVE  i = j
    BY DEF Injective
  <2>2. \A l \in 1..Len(s) : s[l] # x
    BY <1>1, <2>1 DEF Range
  <2>3. /\ i \in 1..Len(s) => t[i] = s[i]
        /\ j \in 1..Len(s) => t[j] = s[j]
        /\ i \notin 1..Len(s) => i = Len(s) + 1 /\ t[i] = x
        /\ j \notin 1..Len(s) => j = Len(s) + 1 /\ t[j] = x
    BY <1>1, <1>2 DEF t
  <2> QED
    BY <1>1, <2>1, <2>2, <2>3 DEF Injective
<1> QED
  BY <1>3, <1>4, <1>5 DEF t

\* ... of the rest of one, ...
LEMMA TailElements ==
    ASSUME NEW S, NEW s \in Seq(S), s # <<>>
    PROVE  /\ Range(s) = {Head(s)} \cup Range(Tail(s)) /\ Head(s) \in S
           /\ Tail(s) \in Seq(S) /\ Len(Tail(s)) = Len(s) - 1 /\ Len(s) >= 1
           /\ \A i \in 1..(Len(s) - 1) : Tail(s)[i] = s[i + 1]
           /\ Injective(s) => Injective(Tail(s)) /\ Head(s) \notin Range(Tail(s))
           /\ Len(s) # 1 => Tail(s) # <<>>
<1>1. /\ Len(s) \in Nat /\ Len(s) >= 1 /\ DOMAIN s = 1..Len(s) /\ Head(s) = s[1] /\ Head(s) \in S
      /\ Tail(s) \in Seq(S) /\ Len(Tail(s)) = Len(s) - 1
      /\ DOMAIN Tail(s) = 1..(Len(s) - 1)
      /\ \A i \in 1..(Len(s) - 1) : Tail(s)[i] = s[i + 1]
  OBVIOUS
<1> DEFINE t == Tail(s)
<1>2. DOMAIN t = 1..(Len(s) - 1) /\ \A i \in 1..(Len(s) - 1) : t[i] = s[i + 1]
  BY <1>1
<1> HIDE DEF t
<1>3. Range(s) = {Head(s)} \cup Range(t)
  <2>1. ASSUME NEW i \in 1..Len(s) PROVE s[i] = Head(s) \/ s[i] \in Range(t)
    <3>1. CASE i = 1
      BY <1>1, <3>1
    <3>2. CASE i # 1
      <4>1. i - 1 \in 1..(Len(s) - 1) /\ t[i - 1] = s[i]
        BY <1>1, <1>2, <3>2
      <4> QED
        BY <1>2, <4>1 DEF Range
    <3> QED
      BY <3>1, <3>2
  <2>2. ASSUME NEW i \in DOMAIN t PROVE t[i] \in Range(s)
    BY <1>1, <1>2 DEF Range
  <2> QED
    BY <1>1, <2>1, <2>2 DEF Range
<1>4. Injective(s) => Injective(t) /\ Head(s) \notin Range(t)
  <2>1. SUFFICES ASSUME Injective(s) PROVE Injective(t) /\ Head(s) \notin Range(t)
    OBVIOUS
  <2>2. \A i \in DOMAIN t : t[i] # Head(s)
    BY <1>1, <1>2, <2>1 DEF Injective
  <2>3. ASSUME NEW i \in DOMAIN t, NEW j \in DOMAIN t, t[i] = t[j] PROVE i = j
    <3>1. i + 1 \in DOMAIN s /\ j + 1 \in DOMAIN s /\ s[i + 1] = s[j + 1]
      BY <1>1, <1>2, <2>3
    <3>2. i + 1 = j + 1
      BY <2>1, <3>1 DEF Injective
    <3> QED
      BY <1>2, <3>2
  <2> QED
    BY <2>2, <2>3 DEF Injective, Range
<1>5. Len(s) # 1 => t # <<>>
  BY <1>1, <1>2
<1> QED
  BY <1>1, <1>3, <1>4, <1>5 DEF t

\* ... and of a prefix.
LEMMA PrefixElements ==
    ASSUME NEW S, NEW s \in Seq(S), NEW n \in 0..Len(s)
    PROVE  /\ SubSeq(s, 1, n) \in Seq(S) /\ Len(SubSeq(s, 1, n)) = n
           /\ \A i \in 1..n : SubSeq(s, 1, n)[i] = s[i]
           /\ Range(SubSeq(s, 1, n)) \subseteq Range(s)
           /\ Injective(s) => Injective(SubSeq(s, 1, n))
<1>1. /\ SubSeq(s, 1, n) \in Seq(S) /\ Len(SubSeq(s, 1, n)) = n
      /\ \A i \in 1..n : SubSeq(s, 1, n)[i] = s[i]
  OBVIOUS
<1> DEFINE t == SubSeq(s, 1, n)
<1>2. DOMAIN t = 1..n /\ DOMAIN s = 1..Len(s) /\ \A i \in 1..n : t[i] = s[i] /\ i \in 1..Len(s)
  BY <1>1
<1> HIDE DEF t
<1>3. Range(t) \subseteq Range(s)
  BY <1>2 DEF Range
<1>4. Injective(s) => Injective(t)
  BY <1>2 DEF Injective
<1> QED
  BY <1>1, <1>3, <1>4 DEF t

\* A bijection from an interval of numbers is a sequence that lists each element
\* of the set exactly once.
LEMMA BijectionListsOnce ==
    ASSUME NEW S, IsFiniteSet(S), NEW f \in Bijection(1..Cardinality(S), S)
    PROVE  /\ f \in Seq(S) /\ Len(f) = Cardinality(S)
           /\ \A i, j \in DOMAIN f : f[i] = f[j] => i = j
           /\ \A x \in S : \E i \in DOMAIN f : f[i] = x
<1> DEFINE n == Cardinality(S)
<1>1. n \in Nat
  BY FS_CardinalityType
<1>2. /\ f \in [1..n -> S] /\ \A i, j \in DOMAIN f : f[i] = f[j] => i = j
      /\ \A x \in S : \E i \in 1..n : f[i] = x
  BY DEF Bijection, Injection, Surjection, IsInjective
<1>3. f \in Seq(S) /\ Len(f) = n
  <2> HIDE DEF n
  <2> QED
    BY <1>1, <1>2, FunctionIsSeq
<1> QED
  BY <1>2, <1>3
=============================================================================
