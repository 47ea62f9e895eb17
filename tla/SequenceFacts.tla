--------------------------- MODULE SequenceFacts ----------------------------
(***************************************************************************)
(* What the proofs need to know about sequences and natural numbers: the   *)
(* listings of a set, the elements of a queue, and the least element of a  *)
(* set of numbers, which stands in for induction.                          *)
(***************************************************************************)
EXTENDS Integers, Sequences, FiniteSets, SequencesExt, FiniteSetTheorems, TLAPS

-----------------------------------------------------------------------------
(* Every set of natural numbers has a least element.                       *)
LEMMA Smallest ==
    ASSUME NEW S, S \subseteq Nat, S # {}
    PROVE  \E i \in S : \A j \in S : i <= j
<1>1. \E x \in S : \A y \in S : ~(<<y, x>> \in OpToRel(<, Nat))
  BY NatLessThanWellFounded, WFMin
<1>2. PICK x \in S : \A y \in S : ~(y < x)
  BY <1>1 DEF OpToRel
<1> QED
  BY <1>2

LEMMA Induction ==
    ASSUME NEW S, 0 \in S, \A n \in Nat : n \in S => n + 1 \in S
    PROVE  Nat \subseteq S
<1> SUFFICES ASSUME Nat \ S # {} PROVE FALSE
  OBVIOUS
<1>1. PICK i \in Nat \ S : \A j \in Nat \ S : i <= j
  BY Smallest
<1>2. i # 0 /\ i - 1 \in Nat /\ i - 1 \notin Nat \ S
  BY <1>1
<1> QED
  BY <1>1, <1>2

-----------------------------------------------------------------------------
(* A listing of a finite set is a sequence over that set.                  *)
LEMMA ListingIsSeq ==
    ASSUME NEW T, IsFiniteSet(T), NEW S \in SUBSET T, NEW s \in SetToSeqs(S)
    PROVE  s \in Seq(S) /\ s \in Seq(T)
<1>1. IsFiniteSet(S)
  BY FS_Subset
<1>2. Cardinality(S) \in Nat
  BY <1>1, FS_CardinalityType
<1> QED
  BY <1>2 DEF SetToSeqs

LEMMA ListingIsNotEmpty ==
    ASSUME NEW T, IsFiniteSet(T), NEW S \in SUBSET T, S # {}, NEW s \in SetToSeqs(S)
    PROVE  s # <<>>
<1>1. IsFiniteSet(S)
  BY FS_Subset
<1>2. Cardinality(S) \in Nat /\ Cardinality(S) # 0
  BY <1>1, FS_CardinalityType, FS_EmptySet
<1> QED
  BY <1>2 DEF SetToSeqs

(* It lists every element, and each of them once.                          *)
LEMMA ListingCovers ==
    ASSUME NEW S, IsFiniteSet(S), NEW s \in SetToSeqs(S)
    PROVE  ToSet(s) = S /\ \A i, j \in DOMAIN s : s[i] = s[j] => i = j
<1>2. Cardinality(S) \in Nat
  BY FS_CardinalityType
<1> DEFINE I == 1..Cardinality(S)
<1>3. IsFiniteSet(I) /\ Cardinality(I) = Cardinality(S)
  BY <1>2, FS_Interval
<1>4. s \in [I -> S] /\ \A i, j \in I : s[i] = s[j] => i = j
  BY DEF SetToSeqs, IsInjective
<1> HIDE DEF I
<1>5. s \in Injection(I, S)
  BY <1>4 DEF Injection, IsInjective
<1>6. s \in Surjection(I, S)
  BY <1>3, <1>5, FS_Injection
<1> QED
  BY <1>4, <1>6 DEF Surjection, ToSet

-----------------------------------------------------------------------------
(* The elements of a queue.                                                *)
LEMMA ToSetAppend ==
    ASSUME NEW S, NEW s \in Seq(S), NEW e \in S
    PROVE  ToSet(Append(s, e)) = ToSet(s) \cup {e}
<1>1. /\ DOMAIN Append(s, e) = 1..(Len(s) + 1)
      /\ DOMAIN s = 1..Len(s)
      /\ Len(s) \in Nat
      /\ Append(s, e)[Len(s) + 1] = e
      /\ \A i \in 1..Len(s) : Append(s, e)[i] = s[i]
  OBVIOUS
<1>2. ASSUME NEW x \in ToSet(Append(s, e)) PROVE x \in ToSet(s) \cup {e}
  <2>1. PICK i \in 1..(Len(s) + 1) : x = Append(s, e)[i]
    BY <1>1 DEF ToSet
  <2>2. i \in 1..Len(s) \/ i = Len(s) + 1
    BY <1>1
  <2> QED
    BY <1>1, <2>1, <2>2 DEF ToSet
<1>3. ASSUME NEW x \in ToSet(s) \cup {e} PROVE x \in ToSet(Append(s, e))
  <2>1. CASE x = e
    <3>1. Len(s) + 1 \in 1..(Len(s) + 1)
      BY <1>1
    <3> QED
      BY <1>1, <2>1, <3>1 DEF ToSet
  <2>2. CASE x \in ToSet(s)
    <3>1. PICK i \in 1..Len(s) : x = s[i]
      BY <1>1, <2>2 DEF ToSet
    <3>2. i \in 1..(Len(s) + 1)
      BY <1>1
    <3> QED
      BY <1>1, <3>1, <3>2 DEF ToSet
  <2> QED
    BY <2>1, <2>2
<1> QED
  BY <1>2, <1>3

LEMMA ConcatIndex ==
    ASSUME NEW S, NEW s \in Seq(S), NEW t \in Seq(S), NEW i \in DOMAIN (s \o t)
    PROVE  \/ i \in DOMAIN s /\ (s \o t)[i] = s[i]
           \/ i - Len(s) \in DOMAIN t /\ (s \o t)[i] = t[i - Len(s)]
  OBVIOUS

LEMMA ToSetConcat ==
    ASSUME NEW S, NEW s \in Seq(S), NEW t \in Seq(S)
    PROVE  ToSet(s \o t) = ToSet(s) \cup ToSet(t)
<1>1. ToSet(s \o t) \subseteq ToSet(s) \cup ToSet(t)
  BY ConcatIndex DEF ToSet
<1>2. ASSUME NEW x \in ToSet(s) PROVE x \in ToSet(s \o t)
  <2>1. PICK i \in DOMAIN s : x = s[i]
    BY DEF ToSet
  <2>2. i \in DOMAIN (s \o t) /\ (s \o t)[i] = s[i]
    OBVIOUS
  <2> QED
    BY <2>1, <2>2 DEF ToSet
<1>3. ASSUME NEW x \in ToSet(t) PROVE x \in ToSet(s \o t)
  <2>1. PICK i \in DOMAIN t : x = t[i]
    BY DEF ToSet
  <2>2. i + Len(s) \in DOMAIN (s \o t) /\ (s \o t)[i + Len(s)] = t[i]
    OBVIOUS
  <2> QED
    BY <2>1, <2>2 DEF ToSet
<1> QED
  BY <1>1, <1>2, <1>3

LEMMA ToSetTail ==
    ASSUME NEW S, NEW s \in Seq(S), s # <<>>
    PROVE  Head(s) \in ToSet(s) /\ ToSet(Tail(s)) \subseteq ToSet(s)
<1>1. 1 \in DOMAIN s /\ Head(s) = s[1]
  OBVIOUS
<1>2. \A i \in DOMAIN Tail(s) : i + 1 \in DOMAIN s /\ Tail(s)[i] = s[i + 1]
  OBVIOUS
<1> QED
  BY <1>1, <1>2 DEF ToSet

(* Moving the head of one queue to the end of another keeps the elements   *)
(* of both in their order.                                                 *)
LEMMA HeadMoves ==
    ASSUME NEW S, NEW c \in Seq(S), NEW a \in Seq(S), a # <<>>
    PROVE  Append(c, Head(a)) \o Tail(a) = c \o a
<1> DEFINE l == Append(c, Head(a)) \o Tail(a)
           r == c \o a
<1>1. Head(a) \in S /\ Tail(a) \in Seq(S) /\ Len(a) >= 1 /\ Len(Tail(a)) = Len(a) - 1
  OBVIOUS
<1>2. Append(c, Head(a)) \in Seq(S) /\ Len(Append(c, Head(a))) = Len(c) + 1
  BY <1>1
<1>3. l \in Seq(S) /\ r \in Seq(S) /\ Len(l) = Len(c) + Len(a) /\ Len(r) = Len(c) + Len(a)
  BY <1>1, <1>2
<1>4. ASSUME NEW i \in 1..(Len(c) + Len(a)) PROVE l[i] = r[i]
  <2>1. CASE i <= Len(c)
    BY <2>1, <1>1, <1>2
  <2>2. CASE i = Len(c) + 1
    BY <2>2, <1>1, <1>2
  <2>3. CASE i > Len(c) + 1
    <3>1. i - (Len(c) + 1) \in 1..Len(Tail(a))
      BY <2>3, <1>1
    <3>2. l[i] = Tail(a)[i - (Len(c) + 1)]
      BY <3>1, <2>3, <1>1, <1>2
    <3>3. Tail(a)[i - (Len(c) + 1)] = a[i - Len(c)]
      BY <3>1, <1>1
    <3> QED
      BY <3>2, <3>3, <2>3
  <2> QED
    BY <2>1, <2>2, <2>3
<1> QED
  BY <1>3, <1>4

LEMMA HeadLeaves ==
    ASSUME NEW S, NEW c \in Seq(S), NEW a \in Seq(S), c # <<>>
    PROVE  <<Head(c)>> \o (Tail(c) \o a) = c \o a
<1> DEFINE l == <<Head(c)>> \o (Tail(c) \o a)
           r == c \o a
<1>1. Head(c) \in S /\ Tail(c) \in Seq(S) /\ Len(c) >= 1 /\ Len(Tail(c)) = Len(c) - 1
      /\ <<Head(c)>> \in Seq(S) /\ Len(<<Head(c)>>) = 1
  OBVIOUS
<1>2. Tail(c) \o a \in Seq(S) /\ Len(Tail(c) \o a) = Len(c) - 1 + Len(a)
  BY <1>1
<1>3. l \in Seq(S) /\ r \in Seq(S) /\ Len(l) = Len(c) + Len(a) /\ Len(r) = Len(c) + Len(a)
  BY <1>1, <1>2
<1>4. ASSUME NEW i \in 1..(Len(c) + Len(a)) PROVE l[i] = r[i]
  <2>1. CASE i = 1
    BY <2>1, <1>1, <1>2
  <2>2. CASE i > 1
    <3>1. l[i] = (Tail(c) \o a)[i - 1]
      BY <2>2, <1>1, <1>2
    <3>2. CASE i <= Len(c)
      <4>1. i - 1 \in 1..Len(Tail(c))
        BY <2>2, <3>2, <1>1
      <4>2. (Tail(c) \o a)[i - 1] = Tail(c)[i - 1] /\ Tail(c)[i - 1] = c[i]
        BY <4>1, <1>1
      <4> QED
        BY <4>2, <3>1, <3>2, <1>1
    <3>3. CASE i > Len(c)
      <4>1. (Tail(c) \o a)[i - 1] = a[i - Len(c)]
        BY <3>3, <1>1, <1>2
      <4> QED
        BY <4>1, <3>1, <3>3, <1>1
    <3> QED
      BY <3>2, <3>3
  <2> QED
    BY <2>1, <2>2
<1> QED
  BY <1>3, <1>4
=============================================================================
