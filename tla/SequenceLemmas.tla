--------------------------- MODULE SequenceLemmas ---------------------------
(***************************************************************************)
(* What the proofs of this project use about sets of numbers and about     *)
(* sequences: lists without repetitions, and what taking entries off them  *)
(* leaves.                                                                 *)
(***************************************************************************)
EXTENDS Integers, SequencesExt, TLAPS, SequenceTheorems, WellFoundedInduction

-----------------------------------------------------------------------------
(* Sets of numbers *)

\* A non-empty set of naturals has a least element.
LEMMA LeastElement ==
    ASSUME NEW T, T \subseteq Nat, T # {}
    PROVE  \E x \in T : \A y \in T : x <= y
<1>1. PICK x \in T : \A y \in T : ~ (<<y, x>> \in OpToRel(<, Nat))
  BY NatLessThanWellFounded, WFMin
<1>2. \A y \in T : x <= y
  <2>1. TAKE y \in T
  <2>2. ~ (y < x)
    BY <1>1 DEF OpToRel
  <2>. QED
    BY <2>2
<1>. QED
  BY <1>2

\* A non-empty set of naturals with an upper bound has a greatest element.
LEMMA LastElement ==
    ASSUME NEW n \in Nat, NEW T, T \subseteq 0 .. n, T # {}
    PROVE  \E x \in T : \A y \in T : y <= x
<1>0. \A y \in T : y \in Int
  OBVIOUS
<1> DEFINE R == {n - y : y \in T}
<1>1. R \subseteq Nat
  OBVIOUS
<1>2. PICK x \in R : \A y \in R : x <= y
  <2>1. R # {}
    OBVIOUS
  <2> HIDE DEF R
  <2>. QED
    BY <1>1, <2>1, LeastElement
<1>3. PICK z \in T : x = n - z
  OBVIOUS
<1>4. \A y \in T : y <= z
  <2>1. TAKE y \in T
  <2>2. x <= n - y
    BY <1>2
  <2>3. y \in Int /\ z \in Int
    <3> HIDE DEF R
    <3>. QED
      BY <1>0
  <2>. QED
    BY <1>3, <2>2, <2>3
<1>. QED
  BY <1>4

-----------------------------------------------------------------------------
(* Taking an entry off a sequence *)

\* RemoveFirst takes an entry e out of a sequence that has one, and leaves the
\* order of the others (CAuthoriserFifo::RemoveL).
LEMMA RemoveFirstCases ==
    ASSUME NEW S, NEW s \in Seq(S), NEW e
    PROVE  \/ (\A i \in 1 .. Len(s) : s[i] # e) /\ RemoveFirst(s, e) = s
           \/ \E i \in 1 .. Len(s) : s[i] = e /\ RemoveFirst(s, e) = RemoveAt(s, i)
<1>1. CASE \E i \in 1 .. Len(s) : s[i] = e
  <2> DEFINE I == {i \in 1 .. Len(s) : s[i] = e}
  <2>1. \E x \in I : \A y \in I : x <= y
    <3>1. I \subseteq Nat /\ I # {}
      BY <1>1
    <3>. HIDE DEF I
    <3>. QED
      BY <3>1, LeastElement
  <2>2. Min(I) \in I
    BY <2>1 DEF Min
  <2>3. SelectInSeq(s, LAMBDA v : v = e) = Min(I)
    BY <1>1 DEF SelectInSeq
  <2>. QED
    BY <1>1, <2>2, <2>3 DEF RemoveFirst
<1>2. CASE ~ \E i \in 1 .. Len(s) : s[i] = e
  BY <1>2 DEF RemoveFirst
<1>. QED
  BY <1>1, <1>2

LEMMA RemoveAtProperties ==
    ASSUME NEW S, NEW s \in Seq(S), NEW i \in 1 .. Len(s)
    PROVE  /\ RemoveAt(s, i) \in Seq(S)
           /\ Len(RemoveAt(s, i)) = Len(s) - 1
           /\ \A j \in 1 .. Len(s) - 1 :
                RemoveAt(s, i)[j] = IF j < i THEN s[j] ELSE s[j + 1]
<1> DEFINE u == SubSeq(s, 1, i - 1)
           v == SubSeq(s, i + 1, Len(s))
<1>1. u \in Seq(S) /\ Len(u) = i - 1 /\ \A j \in 1 .. i - 1 : u[j] = s[j]
  OBVIOUS
<1>2. v \in Seq(S) /\ Len(v) = Len(s) - i /\ \A j \in 1 .. Len(s) - i : v[j] = s[i + j]
  OBVIOUS
<1>3. RemoveAt(s, i) = u \o v
  BY DEF RemoveAt
<1> HIDE DEF u, v
<1>4. /\ u \o v \in Seq(S)
      /\ Len(u \o v) = Len(s) - 1
      /\ \A j \in 1 .. Len(s) - 1 : (u \o v)[j] = IF j < i THEN u[j] ELSE v[j - (i - 1)]
  <2>1. /\ u \o v \in Seq(S)
        /\ Len(u \o v) = Len(u) + Len(v)
        /\ \A j \in 1 .. Len(u) + Len(v) :
             (u \o v)[j] = IF j <= Len(u) THEN u[j] ELSE v[j - Len(u)]
    BY <1>1, <1>2, ConcatProperties
  <2>2. Len(u) = i - 1 /\ Len(v) = Len(s) - i
    BY <1>1, <1>2
  <2>3. Len(u) + Len(v) = Len(s) - 1
    BY <2>2
  <2>4. \A j \in 1 .. Len(s) - 1 : j <= i - 1 <=> j < i
    OBVIOUS
  <2>. QED
    BY <2>1, <2>2, <2>3, <2>4
<1>. QED
  BY <1>1, <1>2, <1>3, <1>4

\* RemoveFirst yields a sequence over the same set.
LEMMA RemoveFirstType ==
    ASSUME NEW S, NEW s \in Seq(S), NEW e
    PROVE  RemoveFirst(s, e) \in Seq(S)
BY RemoveFirstCases, RemoveAtProperties

-----------------------------------------------------------------------------
(* Sequences in which every entry occurs once *)

Unrepeated(s) == \A i, j \in 1 .. Len(s) : s[i] = s[j] => i = j

LEMMA EmptyUnrepeated ==
    Unrepeated(<<>>) /\ \A x : ~Contains(<<>>, x)
BY DEF Unrepeated, Contains

LEMMA TailUnrepeated ==
    ASSUME NEW S, NEW s \in Seq(S), Unrepeated(s), s # <<>>
    PROVE  /\ Unrepeated(Tail(s))
           /\ \A x : Contains(Tail(s), x) <=> Contains(s, x) /\ x # Head(s)
           /\ Contains(s, Head(s))
<1>1. /\ Tail(s) \in Seq(S) /\ Len(Tail(s)) = Len(s) - 1
      /\ \A i \in 1 .. Len(Tail(s)) : Tail(s)[i] = s[i + 1]
      /\ Len(s) \in Nat \ {0} /\ Head(s) = s[1]
  BY HeadTailProperties
<1>2. Unrepeated(Tail(s))
  BY <1>1 DEF Unrepeated
<1>3. \A x : Contains(Tail(s), x) <=> Contains(s, x) /\ x # Head(s)
  <2>1. ASSUME NEW x, NEW i \in 1 .. Len(Tail(s)), Tail(s)[i] = x
        PROVE  Contains(s, x) /\ x # Head(s)
    BY <1>1, <2>1 DEF Contains, Unrepeated
  <2>2. ASSUME NEW x, NEW i \in 1 .. Len(s), s[i] = x, x # Head(s)
        PROVE  Contains(Tail(s), x)
    <3>1. i - 1 \in 1 .. Len(Tail(s)) /\ Tail(s)[i - 1] = x
      BY <1>1, <2>2
    <3>. QED
      BY <3>1 DEF Contains
  <2>. QED
    BY <2>1, <2>2 DEF Contains
<1>4. Contains(s, Head(s))
  BY <1>1 DEF Contains
<1>. QED
  BY <1>2, <1>3, <1>4

LEMMA AppendUnrepeated ==
    ASSUME NEW S, NEW s \in Seq(S), NEW e \in S, Unrepeated(s), ~Contains(s, e)
    PROVE  /\ Unrepeated(Append(s, e))
           /\ \A x : Contains(Append(s, e), x) <=> Contains(s, x) \/ x = e
<1> DEFINE t == Append(s, e)
<1>1. /\ Len(s) \in Nat /\ Len(t) = Len(s) + 1
      /\ \A i \in 1 .. Len(s) : t[i] = s[i]
      /\ t[Len(s) + 1] = e
  BY AppendProperties
<1> HIDE DEF t
<1>2. \A i \in 1 .. Len(t) : i \in 1 .. Len(s) \/ i = Len(s) + 1
  BY <1>1
<1>3. Unrepeated(t)
  BY <1>1, <1>2 DEF Unrepeated, Contains
<1>4. \A x : Contains(t, x) <=> Contains(s, x) \/ x = e
  <2>1. ASSUME NEW x, Contains(t, x) PROVE Contains(s, x) \/ x = e
    BY <1>1, <1>2, <2>1 DEF Contains
  <2>2. ASSUME NEW x, Contains(s, x) PROVE Contains(t, x)
    BY <1>1, <2>2 DEF Contains
  <2>3. Contains(t, e)
    BY <1>1 DEF Contains
  <2>. QED
    BY <2>1, <2>2, <2>3
<1>. QED
  BY <1>3, <1>4 DEF t

LEMMA RemoveAtUnrepeated ==
    ASSUME NEW S, NEW s \in Seq(S), NEW i \in 1 .. Len(s), Unrepeated(s)
    PROVE  /\ RemoveAt(s, i) \in Seq(S) /\ Len(RemoveAt(s, i)) = Len(s) - 1
           /\ Unrepeated(RemoveAt(s, i))
           /\ \A x : Contains(RemoveAt(s, i), x) <=> Contains(s, x) /\ x # s[i]
<1> DEFINE t == RemoveAt(s, i)
<1>1. /\ t \in Seq(S) /\ Len(t) = Len(s) - 1 /\ Len(s) \in Nat
      /\ \A j \in 1 .. Len(s) - 1 : t[j] = IF j < i THEN s[j] ELSE s[j + 1]
  BY RemoveAtProperties
<1> HIDE DEF t
<1>2. Unrepeated(t)
  <2>1. SUFFICES ASSUME NEW j \in 1 .. Len(t), NEW k \in 1 .. Len(t), t[j] = t[k] PROVE j = k
    BY DEF Unrepeated
  <2> DEFINE J == IF j < i THEN j ELSE j + 1
             K == IF k < i THEN k ELSE k + 1
  <2>2. J \in 1 .. Len(s) /\ K \in 1 .. Len(s) /\ s[J] = s[K]
    BY <1>1, <2>1
  <2>3. J = K
    BY <2>2 DEF Unrepeated
  <2>. QED
    BY <2>3
<1>3. ASSUME NEW x, Contains(t, x) PROVE Contains(s, x) /\ x # s[i]
  <2>1. PICK j \in 1 .. Len(t) : t[j] = x
    BY <1>3 DEF Contains
  <2> DEFINE J == IF j < i THEN j ELSE j + 1
  <2>2. J \in 1 .. Len(s) /\ s[J] = x /\ J # i
    BY <1>1, <2>1
  <2>. QED
    BY <2>2 DEF Contains, Unrepeated
<1>4. ASSUME NEW x, Contains(s, x), x # s[i] PROVE Contains(t, x)
  <2>1. PICK j \in 1 .. Len(s) : s[j] = x
    BY <1>4 DEF Contains
  <2>2. j # i
    BY <1>4, <2>1
  <2> DEFINE J == IF j < i THEN j ELSE j - 1
  <2>3. J \in 1 .. Len(t) /\ t[J] = x
    BY <1>1, <2>1, <2>2
  <2>. QED
    BY <2>3 DEF Contains
<1>. QED
  BY <1>1, <1>2, <1>3, <1>4 DEF t

LEMMA RemoveFirstUnrepeated ==
    ASSUME NEW S, NEW s \in Seq(S), NEW e, Unrepeated(s)
    PROVE  /\ Unrepeated(RemoveFirst(s, e))
           /\ \A x : Contains(RemoveFirst(s, e), x) <=> Contains(s, x) /\ x # e
           /\ Len(RemoveFirst(s, e)) >= Len(s) - 1
<1>1. CASE (\A i \in 1 .. Len(s) : s[i] # e) /\ RemoveFirst(s, e) = s
  BY <1>1 DEF Contains
<1>2. ASSUME NEW i \in 1 .. Len(s), s[i] = e, RemoveFirst(s, e) = RemoveAt(s, i)
      PROVE  /\ Unrepeated(RemoveFirst(s, e))
             /\ \A x : Contains(RemoveFirst(s, e), x) <=> Contains(s, x) /\ x # e
             /\ Len(RemoveFirst(s, e)) >= Len(s) - 1
  BY <1>2, RemoveAtUnrepeated
<1>. QED
  BY <1>1, <1>2, RemoveFirstCases

=============================================================================
