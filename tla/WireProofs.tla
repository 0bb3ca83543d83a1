----------------------------- MODULE WireProofs -----------------------------
(***************************************************************************)
(* Lemmas about the units on a stream, for the proofs about Tunnel, Reader *)
(* and Dialogue: what is left when some are read, dropped or put behind    *)
(* others, and sequences of header blocks in the order they were heard.    *)
(***************************************************************************)
EXTENDS Wire, SequenceTheorems, WellFoundedInduction, TLAPS

(* The units without anything in them but their kind.                      *)
PlainKinds ==
  {"data", "size", "sep", "zero", "trailer", "blank", "garbage", "badsize",
   "stub", "rest"}
Plain == [u : PlainKinds]

LEMMA PlainUnit ==
  ASSUME NEW k \in PlainKinds
  PROVE  Unit(k) \in Plain /\ Unit(k).u = k
BY DEF Unit, Plain

LEMMA PlainKind ==
  ASSUME NEW x \in Plain
  PROVE  x.u \in PlainKinds
BY DEF Plain

----------------------------------------------------------------------------
(* A set of natural numbers has a least element, and Min gives it.         *)
LEMMA LeastNatural ==
  ASSUME NEW S, S \subseteq Nat, S # {}
  PROVE  Min(S) \in S /\ \A n \in S : Min(S) <= n
<1> DEFINE R == OpToRel(<, Nat)
<1>1. IsWellFoundedOn(R, Nat)
  BY NatLessThanWellFounded
<1>2. \A x, y \in Nat : <<y, x>> \in R <=> y < x
  BY DEF OpToRel
<1> HIDE DEF R
<1>3. PICK x \in S : \A y \in S : ~(<<y, x>> \in R)
  BY <1>1, WFMin
<1>4. \A y \in S : x <= y
  <2> TAKE y \in S
  <2>1. x \in Nat /\ y \in Nat /\ ~(<<y, x>> \in R)
    BY <1>3
  <2>2. ~(y < x)
    BY <1>2, <2>1
  <2> QED
    BY <2>1, <2>2
<1> QED
  BY <1>4 DEF Min

LEMMA SequenceTyped ==
  ASSUME NEW S, NEW T, NEW s \in Seq(S), \A i \in 1..Len(s) : s[i] \in T
  PROVE  s \in Seq(T)
<1>1. Len(s) \in Nat /\ s \in [1..Len(s) -> S]
  BY LenProperties
<1>2. s \in [1..Len(s) -> T]
  BY <1>1
<1> QED
  BY <1>1, <1>2, SeqDef

LEMMA Joined ==
  ASSUME NEW S, NEW s \in Seq(S), NEW t \in Seq(S)
  PROVE  /\ s \o t \in Seq(S)
         /\ Len(s \o t) = Len(s) + Len(t)
         /\ \A i \in 1..Len(s) : (s \o t)[i] = s[i]
         /\ \A i \in 1..Len(t) : (s \o t)[Len(s) + i] = t[i]
<1> DEFINE st == s \o t
<1>1. /\ st \in Seq(S) /\ Len(s) \in Nat /\ Len(t) \in Nat
      /\ Len(st) = Len(s) + Len(t)
      /\ \A i \in 1..(Len(s) + Len(t)) : st[i] = IF i <= Len(s) THEN s[i] ELSE t[i - Len(s)]
  BY ConcatProperties, LenProperties
<1> HIDE DEF st
<1>2. \A i \in 1..Len(s) : st[i] = s[i]
  BY <1>1
<1>3. \A i \in 1..Len(t) : st[Len(s) + i] = t[i]
  <2> TAKE i \in 1..Len(t)
  <2>1. /\ Len(s) + i \in 1..(Len(s) + Len(t)) /\ ~(Len(s) + i <= Len(s))
        /\ (Len(s) + i) - Len(s) = i
    BY <1>1
  <2> QED
    BY <1>1, <2>1
<1> QED
  BY <1>1, <1>2, <1>3 DEF st

(* What is left when k units are gone.                                     *)
LEMMA Rest ==
  ASSUME NEW S, NEW s \in Seq(S), NEW k \in Nat, NEW t,
         t = SubSeq(s, k + 1, Len(s))
  PROVE  /\ t \in Seq(S)
         /\ Len(t) = IF k <= Len(s) THEN Len(s) - k ELSE 0
         /\ \A i \in 1..Len(t) : k + i \in 1..Len(s) /\ t[i] = s[k + i]
<1>1. Len(s) \in Nat /\ DOMAIN s = 1..Len(s) /\ \A i \in 1..Len(s) : s[i] \in S
  BY LenProperties, ElementOfSeq
<1>2. \A i \in (k + 1)..Len(s) : s[i] \in S
  BY <1>1
<1>3. /\ t \in Seq(S)
      /\ Len(t) = IF k + 1 <= Len(s) THEN Len(s) - (k + 1) + 1 ELSE 0
      /\ \A i \in 1..(Len(s) - (k + 1) + 1) : t[i] = s[(k + 1) + i - 1]
  BY <1>1, <1>2, SubSeqProperties
<1> QED
  BY <1>1, <1>3

LEMMA RestOfDropped ==
  ASSUME NEW S, NEW s \in Seq(S), NEW t \in Dropped(s)
  PROVE  /\ t \in Seq(S)
         /\ \E k \in 0..Len(s) :
              /\ t = SubSeq(s, k + 1, Len(s))
              /\ Len(t) = Len(s) - k
              /\ \A i \in 1..Len(t) : k + i \in 1..Len(s) /\ t[i] = s[k + i]
<1>1. PICK k \in 0..Len(s) : t = SubSeq(s, k + 1, Len(s))
  BY DEF Dropped
<1>2. Len(s) \in Nat /\ k \in Nat /\ k <= Len(s)
  BY <1>1, LenProperties
<1> QED
  BY <1>1, <1>2, Rest

LEMMA NothingDropped ==
  ASSUME NEW t \in Dropped(<<>>)
  PROVE  t = <<>>
<1>1. <<>> \in Seq({}) /\ Len(<<>>) = 0
  BY EmptySeq
<1>2. t \in Seq({}) /\ \E k \in 0..0 : Len(t) = 0 - k
  BY <1>1, RestOfDropped
<1> QED
  BY <1>2, EmptySeq

LEMMA EmptyRest ==
  ASSUME NEW k \in Nat
  PROVE  SubSeq(<<>>, k + 1, Len(<<>>)) = <<>>
BY EmptySeq, SubSeqEmpty

----------------------------------------------------------------------------
(* Header blocks by their numbers: in order, and within bounds.            *)
Between(s, lo, hi) ==
  /\ s \in Seq(Nat)
  /\ \A i \in 1..Len(s) : lo < s[i] /\ s[i] <= hi
  /\ \A i, j \in 1..Len(s) : i < j => s[i] < s[j]

LEMMA BetweenEmpty ==
  ASSUME NEW lo, NEW hi
  PROVE  Between(<<>>, lo, hi)
BY EmptySeq DEF Between

LEMMA BetweenWider ==
  ASSUME NEW s, NEW lo \in Nat, NEW hi \in Nat, NEW l \in Nat, NEW h \in Nat,
         Between(s, lo, hi), l <= lo, hi <= h
  PROVE  Between(s, l, h)
<1>1. \A i \in 1..Len(s) : s[i] \in Nat
  BY ElementOfSeq DEF Between
<1> QED
  BY <1>1 DEF Between

LEMMA BetweenJoined ==
  ASSUME NEW s, NEW t, NEW lo \in Nat, NEW mid \in Nat, NEW hi \in Nat,
         lo <= mid, mid <= hi, Between(s, lo, mid), Between(t, mid, hi)
  PROVE  Between(s \o t, lo, hi)
<1> DEFINE st == s \o t
<1>1. /\ Len(s) \in Nat /\ \A i \in 1..Len(s) : s[i] \in Nat
      /\ Len(t) \in Nat /\ \A i \in 1..Len(t) : t[i] \in Nat
      /\ s \in Seq(Nat) /\ t \in Seq(Nat)
  BY LenProperties, ElementOfSeq DEF Between
<1>2. /\ st \in Seq(Nat)
      /\ Len(st) = Len(s) + Len(t)
      /\ \A i \in 1..Len(st) : st[i] = IF i <= Len(s) THEN s[i] ELSE t[i - Len(s)]
  BY <1>1, ConcatProperties
<1> HIDE DEF st
<1>3. ASSUME NEW i \in 1..Len(st)
      PROVE  lo < st[i] /\ st[i] <= hi
  <2>1. CASE i <= Len(s)
    <3>1. i \in 1..Len(s) /\ st[i] = s[i]
      BY <1>1, <1>2, <2>1
    <3> QED
      BY <1>1, <3>1 DEF Between
  <2>2. CASE Len(s) < i
    <3>1. i - Len(s) \in 1..Len(t) /\ st[i] = t[i - Len(s)]
      BY <1>1, <1>2, <2>2
    <3>2. mid < st[i] /\ st[i] <= hi /\ st[i] \in Nat
      BY <1>1, <3>1 DEF Between
    <3> QED
      BY <3>2
  <2> QED
    BY <1>1, <2>1, <2>2
<1>4. ASSUME NEW i \in 1..Len(st), NEW j \in 1..Len(st), i < j
      PROVE  st[i] < st[j]
  <2>1. CASE j <= Len(s)
    <3>1. i \in 1..Len(s) /\ j \in 1..Len(s) /\ st[i] = s[i] /\ st[j] = s[j]
      BY <1>1, <1>2, <1>4, <2>1
    <3> QED
      BY <1>4, <3>1 DEF Between
  <2>2. CASE i <= Len(s) /\ Len(s) < j
    <3>1. st[i] = s[i] /\ st[j] = t[j - Len(s)] /\ j - Len(s) \in 1..Len(t)
      BY <1>1, <1>2, <2>2
    <3>2. s[i] <= mid /\ mid < t[j - Len(s)] /\ i \in 1..Len(s)
      BY <1>1, <2>2, <3>1 DEF Between
    <3> QED
      BY <1>1, <3>1, <3>2
  <2>3. CASE Len(s) < i
    <3>1. /\ st[i] = t[i - Len(s)] /\ st[j] = t[j - Len(s)]
          /\ i - Len(s) \in 1..Len(t) /\ j - Len(s) \in 1..Len(t)
          /\ i - Len(s) < j - Len(s)
      BY <1>1, <1>2, <1>4, <2>3
    <3> QED
      BY <3>1 DEF Between
  <2> QED
    BY <1>1, <1>2, <1>4, <2>1, <2>2, <2>3
<1> QED
  BY <1>2, <1>3, <1>4 DEF Between, st

(* The blocks after number m, as many as s has.                            *)
Counts(s, m) == s \in Seq(Nat) /\ \A i \in 1..Len(s) : s[i] = m + i

LEMMA CountsEmpty ==
  ASSUME NEW m
  PROVE  Counts(<<>>, m)
BY EmptySeq DEF Counts

LEMMA CountsOn ==
  ASSUME NEW s, NEW m \in Nat, NEW n, Counts(s, m), n = m + Len(s) + 1
  PROVE  Counts(Append(s, n), m) /\ Len(Append(s, n)) = Len(s) + 1
<1>1. Len(s) \in Nat /\ n \in Nat /\ s \in Seq(Nat)
  BY LenProperties DEF Counts
<1>2. /\ Append(s, n) \in Seq(Nat)
      /\ Len(Append(s, n)) = Len(s) + 1
      /\ \A i \in 1..Len(s) : Append(s, n)[i] = s[i]
      /\ Append(s, n)[Len(s) + 1] = n
  BY <1>1, AppendProperties
<1> QED
  BY <1>1, <1>2 DEF Counts

LEMMA CountsBetween ==
  ASSUME NEW s, NEW m \in Nat, Counts(s, m)
  PROVE  Len(s) \in Nat /\ Between(s, m, m + Len(s))
<1>1. Len(s) \in Nat
  BY LenProperties DEF Counts
<1> QED
  BY <1>1 DEF Counts, Between
=============================================================================
