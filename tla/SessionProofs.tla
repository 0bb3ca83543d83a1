--------------------------- MODULE SessionProofs ----------------------------
(***************************************************************************)
(* Theorems about Session, for any options, URLs, replies and limits.  The *)
(* first part is about lists of cookies: a list that takes in the headers  *)
(* of a reply one by one is followed through its steps, by induction in    *)
(* the form of a least counterexample.                                     *)
(***************************************************************************)
EXTENDS Session, FiniteSetTheorems, SequenceTheorems, WellFoundedInduction, TLAPS

----------------------------------------------------------------------------
(* A set of natural numbers has a least element; what holds of the first   *)
(* step and is kept by every step holds of all.                            *)
LEMMA LeastOf ==
  ASSUME NEW S, S \subseteq Nat, S # {}
  PROVE  Least(S) \in S /\ \A i \in S : Least(S) <= i
<1> DEFINE R == OpToRel(<, Nat)
<1>1. IsWellFoundedOn(R, Nat)
  BY NatLessThanWellFounded
<1>2. \A x, y \in Nat : <<y, x>> \in R <=> y < x
  BY DEF OpToRel
<1> HIDE DEF R
<1>3. PICK x \in S : \A y \in S : ~(<<y, x>> \in R)
  BY <1>1, WFMin
<1>4. \A y \in S : x <= y
  <2> TAKE y \in S
  <2>1. x \in Nat /\ y \in Nat /\ ~(<<y, x>> \in R)
    BY <1>3
  <2>2. ~(y < x)
    BY <1>2, <2>1
  <2> QED
    BY <2>1, <2>2
<1> QED
  BY <1>4 DEF Least

LEMMA GreatestOf ==
  ASSUME NEW m \in Nat, NEW S, S \subseteq 0..m, S # {}
  PROVE  Greatest(S) \in S /\ \A i \in S : i <= Greatest(S)
<1> DEFINE T == {m - i : i \in S}
<1>1. T \subseteq Nat /\ T # {}
  <2>1. \A i \in S : m - i \in Nat /\ m - i \in T
    OBVIOUS
  <2> QED
    BY <2>1
<1>2. Least(T) \in T /\ \A k \in T : Least(T) <= k
  BY <1>1, LeastOf
<1>3. PICK g \in S : Least(T) = m - g
  BY <1>2
<1>4. \A i \in S : m - i \in T
  OBVIOUS
<1> HIDE DEF T
<1>5. \A i \in S : m - g <= m - i
  BY <1>2, <1>3, <1>4
<1>6. \A i \in S : g >= i
  BY <1>5
<1>7. \E x \in S : \A j \in S : x >= j
  BY <1>6
<1>8. Greatest(S) \in S /\ \A j \in S : Greatest(S) >= j
  BY <1>7 DEF Greatest
<1> QED
  BY <1>8

LEMMA StepByStep ==
  ASSUME NEW m \in Nat, NEW G, 0 \in G, \A i \in 1..m : i - 1 \in G => i \in G
  PROVE  \A i \in 0..m : i \in G
<1> DEFINE bad == {i \in 0..m : i \notin G}
<1>1. SUFFICES ASSUME bad # {}
               PROVE  FALSE
  OBVIOUS
<1>2. Least(bad) \in bad /\ \A i \in bad : Least(bad) <= i
  BY <1>1, LeastOf
<1>3. Least(bad) \in 1..m
  BY <1>2
<1>4. Least(bad) - 1 \in 0..m /\ ~(Least(bad) <= Least(bad) - 1)
  BY <1>3
<1>5. Least(bad) - 1 \in G
  BY <1>2, <1>4
<1> QED
  BY <1>2, <1>3, <1>5

(* A function that is defined step by step exists.                         *)
Stepwise(m, S, start, step) ==
  \E f \in [0..m -> S] :
    f[0] = start /\ \A i \in 1..m : f[i] = step[i][f[i - 1]]

LEMMA Steps ==
  ASSUME NEW m \in Nat, NEW S, NEW start \in S, NEW step \in [1..m -> [S -> S]]
  PROVE  Stepwise(m, S, start, step)
<1> DEFINE Upto(k, f) == /\ f \in [0..k -> S]
                         /\ f[0] = start
                         /\ \A i \in 1..k : f[i] = step[i][f[i - 1]]
           G == {k \in 0..m : \E f : Upto(k, f)}
<1>1. 0 \in G
  <2> DEFINE f == [i \in 0..0 |-> start]
  <2>1. f \in [0..0 -> S] /\ f[0] = start /\ 1..0 = {}
    OBVIOUS
  <2> HIDE DEF f
  <2>2. Upto(0, f)
    BY <2>1
  <2> QED
    BY <2>2
<1>2. ASSUME NEW k \in 1..m, k - 1 \in G
      PROVE  k \in G
  <2>1. PICK f : Upto(k - 1, f)
    BY <1>2
  <2> DEFINE g == [i \in 0..k |-> IF i = k THEN step[k][f[k - 1]] ELSE f[i]]
  <2>2. /\ f \in [0..(k - 1) -> S] /\ f[0] = start
        /\ \A i \in 1..(k - 1) : f[i] = step[i][f[i - 1]]
    BY <2>1
  <2>3. f[k - 1] \in S /\ step[k][f[k - 1]] \in S
    BY <2>2
  <2>4. g \in [0..k -> S]
    BY <2>2, <2>3
  <2>5. g[0] = start
    BY <2>2
  <2>6. ASSUME NEW i \in 1..k
        PROVE  g[i] = step[i][g[i - 1]]
    <3>1. g[i - 1] = f[i - 1]
      OBVIOUS
    <3>2. CASE i = k
      BY <3>1, <3>2
    <3>3. CASE i # k
      BY <2>2, <3>1, <3>3
    <3> QED
      BY <3>2, <3>3
  <2>7. Upto(k, g)
    BY <2>4, <2>5, <2>6
  <2> HIDE DEF Upto, g
  <2> QED
    BY <2>7
<1> HIDE DEF G
<1>3. \A i \in 0..m : i \in G
  BY <1>1, <1>2, StepByStep
<1>4. m \in G
  BY <1>3
<1> QED
  BY <1>4 DEF G, Stepwise

----------------------------------------------------------------------------
(* Retained keeps the cookies of a list that are in a set.                 *)
RetainedInSteps(C, list, S) ==
  \E f \in [0..Len(list) -> Seq(C)] :
    /\ f[0] = <<>>
    /\ \A i \in 1..Len(list) :
         f[i] = IF list[i] \in S THEN Append(f[i - 1], list[i]) ELSE f[i - 1]
    /\ Retained(list, S) = f[Len(list)]

LEMMA RetainedSteps ==
  ASSUME NEW C, NEW list \in Seq(C), NEW S
  PROVE  RetainedInSteps(C, list, S)
<1> DEFINE m == Len(list)
           Q == Seq(C)
           none == <<>>
           More(l, i) == IF list[i] \in S THEN Append(l, list[i]) ELSE l
           Is(f) == f = [i \in 0..m |-> IF i = 0 THEN none ELSE More(f[i - 1], i)]
           step == [i \in 1..m |-> [l \in Q |-> More(l, i)]]
<1>1. m \in Nat /\ \A i \in 1..m : list[i] \in C
  BY LenProperties, ElementOfSeq
<1>2. \A i \in 1..m : \A l \in Q : More(l, i) \in Q
  BY <1>1, AppendProperties
<1>3. Retained(list, S) = (CHOOSE f : Is(f))[m]
  BY DEF Retained
<1>4. none \in Q
  BY EmptySeq
<1> HIDE DEF More, m, Q, none
<1>5. /\ step \in [1..m -> [Q -> Q]]
      /\ \A i \in 1..m : \A l \in Q : step[i][l] = More(l, i)
  BY <1>2
<1> HIDE DEF step
<1>6. PICK f \in [0..m -> Q] : f[0] = none /\ \A i \in 1..m : f[i] = step[i][f[i - 1]]
  <2>1. Stepwise(m, Q, none, step)
    BY <1>1, <1>4, <1>5, Steps
  <2> QED
    BY <2>1 DEF Stepwise
<1>7. \A i \in 0..m : f[i] = IF i = 0 THEN none ELSE More(f[i - 1], i)
  <2> TAKE i \in 0..m
  <2>1. CASE i # 0
    <3>1. i \in 1..m /\ f[i - 1] \in Q
      BY <1>1, <1>6, <2>1
    <3> QED
      BY <1>5, <1>6, <2>1, <3>1
  <2> QED
    BY <1>6, <2>1
<1>8. Is(f)
  BY <1>6, <1>7
<1> DEFINE g == CHOOSE h : Is(h)
<1>9. Is(g)
  BY <1>8
<1> HIDE DEF g
<1>10. /\ DOMAIN g = 0..m /\ g = [i \in 0..m |-> g[i]]
       /\ \A i \in 0..m : g[i] = IF i = 0 THEN none ELSE More(g[i - 1], i)
  BY <1>9
<1>11. g[0] = none /\ \A i \in 1..m : g[i] = More(g[i - 1], i)
  BY <1>1, <1>10
<1> DEFINE G == {i \in 0..m : g[i] \in Q}
<1>12. 0 \in G /\ \A i \in 1..m : i - 1 \in G => i \in G
  BY <1>1, <1>2, <1>4, <1>11
<1> HIDE DEF G
<1>13. \A i \in 0..m : i \in G
  BY <1>1, <1>12, StepByStep
<1>14. g \in [0..m -> Q]
  BY <1>10, <1>13 DEF G
<1>15. Retained(list, S) = g[m]
  BY <1>3 DEF g
<1> QED
  BY <1>11, <1>14, <1>15 DEF m, More, Q, none, RetainedInSteps

----------------------------------------------------------------------------
(* The cookies in a list.                                                  *)
LEMMA Elements ==
  ASSUME NEW C, NEW s \in Seq(C)
  PROVE  /\ DOMAIN s = 1..Len(s) /\ Len(s) \in Nat
         /\ \A i \in 1..Len(s) : s[i] \in C /\ s[i] \in ToSet(s)
         /\ \A x \in ToSet(s) : x \in C /\ \E i \in 1..Len(s) : x = s[i]
         /\ ToSet(s) \subseteq C
<1>1. DOMAIN s = 1..Len(s) /\ Len(s) \in Nat /\ \A i \in 1..Len(s) : s[i] \in C
  BY LenProperties, ElementOfSeq
<1> QED
  BY <1>1 DEF ToSet

LEMMA NoElements == ToSet(<<>>) = {}
<1> DEFINE none == <<>>
<1>1. none \in Seq({})
  BY EmptySeq
<1> HIDE DEF none
<1>2. ToSet(none) \subseteq {}
  BY <1>1, Elements
<1> QED
  BY <1>2 DEF none

LEMMA AppendElements ==
  ASSUME NEW C, NEW s \in Seq(C), NEW x \in C
  PROVE  /\ Append(s, x) \in Seq(C)
         /\ ToSet(Append(s, x)) = ToSet(s) \union {x}
         /\ Len(Append(s, x)) = Len(s) + 1
         /\ \A i \in 1..Len(s) : Append(s, x)[i] = s[i]
         /\ Append(s, x)[Len(s) + 1] = x
<1> DEFINE a == Append(s, x)
<1>1. /\ a \in Seq(C) /\ Len(a) = Len(s) + 1 /\ a[Len(s) + 1] = x
      /\ \A i \in 1..Len(s) : a[i] = s[i]
  BY AppendProperties
<1> HIDE DEF a
<1>2. /\ DOMAIN s = 1..Len(s) /\ Len(s) \in Nat /\ DOMAIN a = 1..Len(a)
  BY <1>1, Elements
<1>3. ToSet(a) = ToSet(s) \union {x}
  BY <1>1, <1>2 DEF ToSet
<1> QED
  BY <1>1, <1>3 DEF a

LEMMA FiniteElements ==
  ASSUME NEW C, NEW s \in Seq(C)
  PROVE  IsFiniteSet(ToSet(s))
<1>1. DOMAIN s = 1..Len(s) /\ Len(s) \in Nat /\ s \in [1..Len(s) -> C]
  BY LenProperties
<1>2. s \in Surjection(1..Len(s), ToSet(s))
  BY <1>1 DEF Surjection, ToSet
<1>3. IsFiniteSet(1..Len(s))
  BY <1>1, FS_Interval
<1> QED
  BY <1>2, <1>3, FS_Surjection

(* No two cookies of a list have the same key.                             *)
Unique(list) == \A i, j \in DOMAIN list : SameKey(list[i], list[j]) => i = j

LEMMA UniqueAppend ==
  ASSUME NEW C, NEW s \in Seq(C), NEW x \in C, Unique(s),
         \A d \in ToSet(s) : ~SameKey(x, d)
  PROVE  Unique(Append(s, x))
<1> DEFINE a == Append(s, x)
<1>1. /\ a \in Seq(C) /\ Len(a) = Len(s) + 1 /\ a[Len(s) + 1] = x
      /\ \A i \in 1..Len(s) : a[i] = s[i]
  BY AppendElements
<1> HIDE DEF a
<1>2. /\ DOMAIN a = 1..(Len(s) + 1) /\ DOMAIN s = 1..Len(s) /\ Len(s) \in Nat
      /\ \A i \in 1..Len(s) : s[i] \in ToSet(s)
  BY <1>1, Elements
<1>3. \A i \in 1..Len(s) : ~SameKey(x, s[i]) /\ ~SameKey(s[i], x)
  BY <1>2 DEF SameKey
<1>4. ASSUME NEW i \in DOMAIN a, NEW j \in DOMAIN a, SameKey(a[i], a[j])
      PROVE  i = j
  <2>1. CASE i \in 1..Len(s) /\ j \in 1..Len(s)
    BY <1>1, <1>2, <1>4, <2>1 DEF Unique
  <2>2. CASE i = Len(s) + 1 \/ j = Len(s) + 1
    BY <1>1, <1>2, <1>3, <1>4, <2>2
  <2> QED
    BY <1>2, <2>1, <2>2
<1> QED
  BY <1>4 DEF Unique, a

LEMMA RetainedFacts ==
  ASSUME NEW C, NEW list \in Seq(C), NEW S
  PROVE  /\ Retained(list, S) \in Seq(C)
         /\ ToSet(Retained(list, S)) = ToSet(list) \cap S
         /\ Unique(list) => Unique(Retained(list, S))
<1> DEFINE m == Len(list)
           Before(i) == {list[k] : k \in {j \in 1..i : list[j] \in S}}
<1>1. PICK f \in [0..m -> Seq(C)] :
        /\ f[0] = <<>>
        /\ \A i \in 1..m :
             f[i] = IF list[i] \in S THEN Append(f[i - 1], list[i]) ELSE f[i - 1]
        /\ Retained(list, S) = f[m]
  <2>1. RetainedInSteps(C, list, S)
    BY RetainedSteps
  <2> QED
    BY <2>1 DEF RetainedInSteps
<1>2. /\ m \in Nat /\ DOMAIN list = 1..m
      /\ \A i \in 1..m : list[i] \in C /\ list[i] \in ToSet(list)
  BY Elements
<1>3. \A i \in 0..m : f[i] \in Seq(C)
  BY <1>1
<1> HIDE DEF m
<1> DEFINE G == {i \in 0..m : /\ ToSet(f[i]) = Before(i)
                              /\ Unique(list) => Unique(f[i])}
<1>4. 0 \in G
  <2>1. ToSet(<<>>) = {} /\ Before(0) = {}
    BY NoElements
  <2>2. Unique(<<>>)
    BY DEF Unique
  <2> QED
    BY <1>1, <1>2, <2>1, <2>2
<1>5. ASSUME NEW i \in 1..m, i - 1 \in G
      PROVE  i \in G
  <2>1. /\ f[i - 1] \in Seq(C) /\ list[i] \in C /\ i \in 0..m
        /\ ToSet(f[i - 1]) = Before(i - 1)
        /\ Unique(list) => Unique(f[i - 1])
    BY <1>2, <1>3, <1>5
  <2>2. CASE list[i] \notin S
    <3>1. f[i] = f[i - 1]
      BY <1>1, <2>2
    <3>2. \A j \in 1..i : list[j] \in S <=> j \in 1..(i - 1) /\ list[j] \in S
      BY <2>2
    <3>3. Before(i) = Before(i - 1)
      BY <3>2
    <3> QED
      BY <2>1, <3>1, <3>3
  <2>3. CASE list[i] \in S
    <3>1. f[i] = Append(f[i - 1], list[i])
      BY <1>1, <2>3
    <3>2. Before(i) = Before(i - 1) \union {list[i]}
      <4>1. \A j \in 1..i : j = i \/ j \in 1..(i - 1)
        OBVIOUS
      <4>2. i \in 1..i /\ \A j \in 1..(i - 1) : j \in 1..i
        OBVIOUS
      <4> QED
        BY <2>3, <4>1, <4>2
    <3>3. ToSet(f[i]) = Before(i)
      <4> HIDE DEF Before
      <4> QED
        BY <2>1, <3>1, <3>2, AppendElements
    <3>4. ASSUME Unique(list)
          PROVE  Unique(f[i])
      <4>1. \A d \in Before(i - 1) : ~SameKey(list[i], d)
        <5> TAKE d \in Before(i - 1)
        <5>1. PICK k \in 1..(i - 1) : d = list[k]
          OBVIOUS
        <5>2. k \in 1..m /\ k # i
          BY <1>2
        <5> QED
          BY <1>2, <3>4, <5>1, <5>2 DEF Unique
      <4> HIDE DEF Before
      <4> QED
        BY <2>1, <3>1, <3>4, <4>1, UniqueAppend
    <3> HIDE DEF Before
    <3> QED
      BY <2>1, <3>3, <3>4
  <2> QED
    BY <2>2, <2>3
<1>6. ToSet(list) \cap S = Before(m)
  BY <1>2 DEF ToSet
<1> HIDE DEF G, Before
<1>7. \A i \in 0..m : i \in G
  BY <1>2, <1>4, <1>5, StepByStep
<1>8. m \in G
  BY <1>2, <1>7
<1> QED
  BY <1>1, <1>2, <1>3, <1>6, <1>8 DEF G

----------------------------------------------------------------------------
(* How many cookies a list has of a domain; a list within its limits.      *)
Capped(list) == \A c \in ToSet(list) : CountIn(list, c.dom) <= MaxPerDomain

LEMMA Counts ==
  ASSUME NEW C, NEW s \in Seq(C), NEW dom
  PROVE  /\ CountIn(s, dom) \in Nat
         /\ IsFiniteSet({d \in ToSet(s) : d.dom = dom})
         /\ \A t \in Seq(C) : ToSet(t) \subseteq ToSet(s) => CountIn(t, dom) <= CountIn(s, dom)
         /\ Capped(s) => CountIn(s, dom) <= MaxPerDomain
<1> DEFINE D == {d \in ToSet(s) : d.dom = dom}
<1>1. IsFiniteSet(ToSet(s)) /\ D \in SUBSET ToSet(s)
  BY FiniteElements
<1>2. IsFiniteSet(D)
  BY <1>1, FS_Subset
<1>3. Cardinality(D) \in Nat
  BY <1>2, FS_CardinalityType
<1>4. ASSUME NEW t \in Seq(C), ToSet(t) \subseteq ToSet(s)
      PROVE  CountIn(t, dom) <= CountIn(s, dom)
  <2>1. {d \in ToSet(t) : d.dom = dom} \in SUBSET D
    BY <1>4
  <2> HIDE DEF D
  <2>2. Cardinality({d \in ToSet(t) : d.dom = dom}) <= Cardinality(D)
    BY <1>2, <2>1, FS_Subset
  <2> QED
    BY <2>2 DEF CountIn, D
<1>5. ASSUME Capped(s)
      PROVE  CountIn(s, dom) <= MaxPerDomain
  <2>1. CASE D = {}
    <3>1. Cardinality(D) = 0
      BY <2>1, FS_EmptySet
    <3> QED
      BY <3>1, CookiesAssumption DEF CountIn
  <2>2. CASE D # {}
    <3>1. PICK c \in ToSet(s) : c.dom = dom
      BY <2>2
    <3> QED
      BY <1>5, <3>1 DEF Capped
  <2> QED
    BY <2>1, <2>2
<1> QED
  BY <1>2, <1>3, <1>4, <1>5 DEF CountIn

LEMMA CountAppend ==
  ASSUME NEW C, NEW s \in Seq(C), NEW x \in C, NEW dom
  PROVE  /\ CountIn(Append(s, x), dom) <= CountIn(s, dom) + 1
         /\ x.dom # dom => CountIn(Append(s, x), dom) = CountIn(s, dom)
<1> DEFINE D == {d \in ToSet(s) : d.dom = dom}
           E == {d \in ToSet(Append(s, x)) : d.dom = dom}
<1>1. IsFiniteSet(D) /\ Cardinality(D) = CountIn(s, dom) /\ CountIn(s, dom) \in Nat
  BY Counts DEF CountIn
<1>2. Cardinality(E) = CountIn(Append(s, x), dom)
  BY DEF CountIn
<1>3. ToSet(Append(s, x)) = ToSet(s) \union {x}
  BY AppendElements
<1>4. E = IF x.dom = dom THEN D \cup {x} ELSE D
  BY <1>3
<1> HIDE DEF D, E
<1>5. Cardinality(D \cup {x}) = IF x \in D THEN Cardinality(D) ELSE Cardinality(D) + 1
  BY <1>1, FS_AddElement
<1> QED
  BY <1>1, <1>2, <1>4, <1>5

(* A cookie takes the place of the one with its key, if there is room.     *)
LEMMA WithoutFacts ==
  ASSUME NEW C, NEW list \in Seq(C), NEW c
  PROVE  /\ Without(list, c) \in Seq(C)
         /\ ToSet(Without(list, c)) = {d \in ToSet(list) : ~SameKey(c, d)}
         /\ Unique(list) => Unique(Without(list, c))
         /\ Capped(list) => Capped(Without(list, c))
<1> DEFINE w == Without(list, c)
           S == {d \in ToSet(list) : ~SameKey(c, d)}
<1>1. w = Retained(list, S)
  BY DEF Without
<1> HIDE DEF w
<1>2. /\ w \in Seq(C) /\ ToSet(w) = ToSet(list) \cap S
      /\ Unique(list) => Unique(w)
  BY <1>1, RetainedFacts
<1>3. ToSet(w) = S
  BY <1>2
<1>4. ASSUME Capped(list)
      PROVE  Capped(w)
  <2>1. \A d \in ToSet(w) : /\ CountIn(w, d.dom) <= CountIn(list, d.dom)
                            /\ CountIn(list, d.dom) <= MaxPerDomain
                            /\ CountIn(w, d.dom) \in Nat /\ CountIn(list, d.dom) \in Nat
    BY <1>2, <1>3, <1>4, Counts
  <2> QED
    BY <2>1, CookiesAssumption DEF Capped
<1> QED
  BY <1>2, <1>3, <1>4 DEF w

Room(list, c) == CountIn(Without(list, c), c.dom) < MaxPerDomain

LEMMA StoreFacts ==
  ASSUME NEW C, NEW list \in Seq(C), NEW c \in C, NEW t
  PROVE  /\ Store(list, c, t) \in Seq(C)
         /\ ToSet(Store(list, c, t)) =
              {d \in ToSet(list) : ~SameKey(c, d)}
                \union (IF ~Expired(c, t) /\ Room(list, c) THEN {c} ELSE {})
         /\ Unique(list) => Unique(Store(list, c, t))
         /\ Capped(list) => Capped(Store(list, c, t))
<1> DEFINE w == Without(list, c)
<1>1. /\ w \in Seq(C) /\ ToSet(w) = {d \in ToSet(list) : ~SameKey(c, d)}
      /\ Unique(list) => Unique(w)
      /\ Capped(list) => Capped(w)
  BY WithoutFacts
<1>2. CountIn(w, c.dom) \in Nat /\ MaxPerDomain \in Nat
  BY <1>1, Counts, CookiesAssumption
<1>3. CASE Expired(c, t) \/ ~Room(list, c)
  <2>1. Store(list, c, t) = w
    BY <1>2, <1>3 DEF Store, Room
  <2> HIDE DEF w
  <2> QED
    BY <1>1, <1>3, <2>1
<1>4. CASE ~Expired(c, t) /\ Room(list, c)
  <2>1. Store(list, c, t) = Append(w, c) /\ CountIn(w, c.dom) < MaxPerDomain
    BY <1>2, <1>4 DEF Store, Room
  <2> HIDE DEF w
  <2>2. Append(w, c) \in Seq(C) /\ ToSet(Append(w, c)) = ToSet(w) \union {c}
    BY <1>1, AppendElements
  <2>3. Unique(list) => Unique(Append(w, c))
    BY <1>1, UniqueAppend
  <2>4. ASSUME Capped(list)
        PROVE  Capped(Append(w, c))
    <3>1. ASSUME NEW d \in ToSet(Append(w, c))
          PROVE  CountIn(Append(w, c), d.dom) <= MaxPerDomain
      <4>1. /\ CountIn(w, d.dom) \in Nat /\ CountIn(w, d.dom) <= MaxPerDomain
            /\ CountIn(Append(w, c), d.dom) \in Nat
        BY <1>1, <2>2, <2>4, Counts
      <4>2. /\ CountIn(Append(w, c), d.dom) <= CountIn(w, d.dom) + 1
            /\ c.dom # d.dom => CountIn(Append(w, c), d.dom) = CountIn(w, d.dom)
        BY <1>1, CountAppend
      <4> QED
        BY <1>2, <2>1, <4>1, <4>2
    <3> QED
      BY <3>1 DEF Capped
  <2> QED
    BY <1>1, <1>4, <2>1, <2>2, <2>3, <2>4
<1> QED
  BY <1>3, <1>4

----------------------------------------------------------------------------
(* A list that takes in headers, followed through a set Q of lists that no *)
(* header leads out of.                                                    *)
AbsorbedInSteps(Q, list, headers, u, host, t, rule) ==
  \E f \in [0..Len(headers) -> Q] :
    /\ f[0] = list
    /\ \A i \in 1..Len(headers) : f[i] = Taken(f[i - 1], headers[i], u, host, t, rule)
    /\ Absorbed(list, headers, u, host, t, rule) = f[Len(headers)]

LEMMA AbsorbedSteps ==
  ASSUME NEW Q, NEW list \in Q, NEW H, NEW headers \in Seq(H),
         NEW u, NEW host, NEW t, NEW rule,
         \A sc \in H, l \in Q : Taken(l, sc, u, host, t, rule) \in Q
  PROVE  AbsorbedInSteps(Q, list, headers, u, host, t, rule)
<1> DEFINE m == Len(headers)
           More(l, i) == Taken(l, headers[i], u, host, t, rule)
           Is(f) == f = [i \in 0..m |-> IF i = 0 THEN list ELSE More(f[i - 1], i)]
           step == [i \in 1..m |-> [l \in Q |-> More(l, i)]]
<1>1. m \in Nat /\ \A i \in 1..m : headers[i] \in H
  BY LenProperties, ElementOfSeq
<1>2. \A i \in 1..m : \A l \in Q : More(l, i) \in Q
  BY <1>1
<1>3. Absorbed(list, headers, u, host, t, rule) = (CHOOSE f : Is(f))[m]
  BY DEF Absorbed
<1> HIDE DEF More, m
<1>4. /\ step \in [1..m -> [Q -> Q]]
      /\ \A i \in 1..m : \A l \in Q : step[i][l] = More(l, i)
  BY <1>2
<1> HIDE DEF step
<1>5. PICK f \in [0..m -> Q] : f[0] = list /\ \A i \in 1..m : f[i] = step[i][f[i - 1]]
  <2>1. Stepwise(m, Q, list, step)
    BY <1>1, <1>4, Steps
  <2> QED
    BY <2>1 DEF Stepwise
<1>6. \A i \in 0..m : f[i] = IF i = 0 THEN list ELSE More(f[i - 1], i)
  <2> TAKE i \in 0..m
  <2>1. CASE i # 0
    <3>1. i \in 1..m /\ f[i - 1] \in Q
      BY <1>1, <1>5, <2>1
    <3> QED
      BY <1>4, <1>5, <2>1, <3>1
  <2> QED
    BY <1>5, <2>1
<1>7. Is(f)
  BY <1>5, <1>6
<1> DEFINE g == CHOOSE h : Is(h)
<1>8. Is(g)
  BY <1>7
<1> HIDE DEF g
<1>9. /\ DOMAIN g = 0..m /\ g = [i \in 0..m |-> g[i]]
      /\ \A i \in 0..m : g[i] = IF i = 0 THEN list ELSE More(g[i - 1], i)
  BY <1>8
<1>10. g[0] = list /\ \A i \in 1..m : g[i] = More(g[i - 1], i)
  BY <1>1, <1>9
<1> DEFINE G == {i \in 0..m : g[i] \in Q}
<1>11. 0 \in G /\ \A i \in 1..m : i - 1 \in G => i \in G
  BY <1>1, <1>2, <1>10
<1> HIDE DEF G
<1>12. \A i \in 0..m : i \in G
  BY <1>1, <1>11, StepByStep
<1>13. g \in [0..m -> Q]
  BY <1>9, <1>12 DEF G
<1>14. Absorbed(list, headers, u, host, t, rule) = g[m]
  BY <1>3 DEF g
<1> QED
  BY <1>10, <1>13, <1>14 DEF m, More, AbsorbedInSteps

StoredInSteps(Q, cookies, t) ==
  \E f \in [0..Len(cookies) -> Q] :
    /\ f[0] = <<>>
    /\ \A i \in 1..Len(cookies) : f[i] = Store(f[i - 1], cookies[i], t)
    /\ Stored(cookies, t) = f[Len(cookies)]

LEMMA StoredSteps ==
  ASSUME NEW Q, <<>> \in Q, NEW C, NEW cookies \in Seq(C), NEW t,
         \A c \in C, l \in Q : Store(l, c, t) \in Q
  PROVE  StoredInSteps(Q, cookies, t)
<1> DEFINE m == Len(cookies)
           none == <<>>
           More(l, i) == Store(l, cookies[i], t)
           Is(f) == f = [i \in 0..m |-> IF i = 0 THEN none ELSE More(f[i - 1], i)]
           step == [i \in 1..m |-> [l \in Q |-> More(l, i)]]
<1>1. m \in Nat /\ none \in Q /\ \A i \in 1..m : cookies[i] \in C
  BY LenProperties, ElementOfSeq
<1>2. \A i \in 1..m : \A l \in Q : More(l, i) \in Q
  BY <1>1
<1>3. Stored(cookies, t) = (CHOOSE f : Is(f))[m]
  BY DEF Stored
<1> HIDE DEF More, m, none
<1>4. /\ step \in [1..m -> [Q -> Q]]
      /\ \A i \in 1..m : \A l \in Q : step[i][l] = More(l, i)
  BY <1>2
<1> HIDE DEF step
<1>5. PICK f \in [0..m -> Q] : f[0] = none /\ \A i \in 1..m : f[i] = step[i][f[i - 1]]
  <2>1. Stepwise(m, Q, none, step)
    BY <1>1, <1>4, Steps
  <2> QED
    BY <2>1 DEF Stepwise
<1>6. \A i \in 0..m : f[i] = IF i = 0 THEN none ELSE More(f[i - 1], i)
  <2> TAKE i \in 0..m
  <2>1. CASE i # 0
    <3>1. i \in 1..m /\ f[i - 1] \in Q
      BY <1>1, <1>5, <2>1
    <3> QED
      BY <1>4, <1>5, <2>1, <3>1
  <2> QED
    BY <1>5, <2>1
<1>7. Is(f)
  BY <1>5, <1>6
<1> DEFINE g == CHOOSE h : Is(h)
<1>8. Is(g)
  BY <1>7
<1> HIDE DEF g
<1>9. /\ DOMAIN g = 0..m /\ g = [i \in 0..m |-> g[i]]
      /\ \A i \in 0..m : g[i] = IF i = 0 THEN none ELSE More(g[i - 1], i)
  BY <1>8
<1>10. g[0] = none /\ \A i \in 1..m : g[i] = More(g[i - 1], i)
  BY <1>1, <1>9
<1> DEFINE G == {i \in 0..m : g[i] \in Q}
<1>11. 0 \in G /\ \A i \in 1..m : i - 1 \in G => i \in G
  BY <1>1, <1>2, <1>10
<1> HIDE DEF G
<1>12. \A i \in 0..m : i \in G
  BY <1>1, <1>11, StepByStep
<1>13. g \in [0..m -> Q]
  BY <1>9, <1>12 DEF G
<1>14. Stored(cookies, t) = g[m]
  BY <1>3 DEF g
<1> QED
  BY <1>10, <1>13, <1>14 DEF m, More, none, StoredInSteps

(* What holds of all lists of Q holds of the result.                       *)
LEMMA AbsorbedWithin ==
  ASSUME NEW Q, NEW list \in Q, NEW H, NEW headers \in Seq(H),
         NEW u, NEW host, NEW t, NEW rule,
         \A sc \in H, l \in Q : Taken(l, sc, u, host, t, rule) \in Q
  PROVE  Absorbed(list, headers, u, host, t, rule) \in Q
<1>1. AbsorbedInSteps(Q, list, headers, u, host, t, rule)
  BY AbsorbedSteps
<1>2. Len(headers) \in 0..Len(headers)
  BY LenProperties
<1> QED
  BY <1>1, <1>2 DEF AbsorbedInSteps

LEMMA StoredWithin ==
  ASSUME NEW Q, <<>> \in Q, NEW C, NEW cookies \in Seq(C), NEW t,
         \A c \in C, l \in Q : Store(l, c, t) \in Q
  PROVE  Stored(cookies, t) \in Q
<1>1. StoredInSteps(Q, cookies, t)
  BY StoredSteps
<1>2. Len(cookies) \in 0..Len(cookies)
  BY LenProperties
<1> QED
  BY <1>1, <1>2 DEF StoredInSteps

(* The headers up to the k-th lead to the k-th list.                       *)
Closed(Q, H, u, host, t, rule) ==
  \A sc \in H, l \in Q : Taken(l, sc, u, host, t, rule) \in Q
Follows(f, list, headers, u, host, t, rule) ==
  /\ f[0] = list
  /\ \A i \in 1..Len(headers) : f[i] = Taken(f[i - 1], headers[i], u, host, t, rule)

LEMMA AbsorbedPrefix ==
  ASSUME NEW Q, NEW list \in Q, NEW H, NEW headers \in Seq(H),
         NEW u, NEW host, NEW t, NEW rule, Closed(Q, H, u, host, t, rule),
         NEW f, Follows(f, list, headers, u, host, t, rule),
         NEW k \in 0..Len(headers)
  PROVE  Absorbed(list, SubSeq(headers, 1, k), u, host, t, rule) = f[k]
<1> DEFINE some == SubSeq(headers, 1, k)
<1>1. Len(headers) \in Nat /\ k \in Nat /\ \A i \in 1..k : headers[i] \in H
  BY LenProperties, ElementOfSeq
<1>0. /\ \A sc \in H, l \in Q : Taken(l, sc, u, host, t, rule) \in Q
      /\ f[0] = list
      /\ \A i \in 1..Len(headers) : f[i] = Taken(f[i - 1], headers[i], u, host, t, rule)
  BY DEF Closed, Follows
<1>2. some \in Seq(H) /\ Len(some) = k /\ \A i \in 1..k : some[i] = headers[i]
  <2>1. \A i \in 1..k : headers[i] \in H
    BY <1>1
  <2>2. /\ some \in Seq(H) /\ Len(some) = IF 1 <= k THEN k - 1 + 1 ELSE 0
        /\ \A i \in 1..(k - 1 + 1) : some[i] = headers[1 + i - 1]
    BY <1>1, <2>1, SubSeqProperties
  <2> HIDE DEF some
  <2> QED
    BY <1>1, <2>2
<1> HIDE DEF some
<1>3. AbsorbedInSteps(Q, list, some, u, host, t, rule)
  BY <1>0, <1>2, AbsorbedSteps
<1>4. PICK g \in [0..k -> Q] :
        /\ g[0] = list
        /\ \A i \in 1..k : g[i] = Taken(g[i - 1], some[i], u, host, t, rule)
        /\ Absorbed(list, some, u, host, t, rule) = g[k]
  BY <1>2, <1>3 DEF AbsorbedInSteps
<1> DEFINE G == {i \in 0..k : g[i] = f[i]}
<1>5. 0 \in G
  BY <1>0, <1>1, <1>4
<1>6. \A i \in 1..k : i - 1 \in G => i \in G
  BY <1>0, <1>1, <1>2, <1>4
<1> HIDE DEF G
<1>7. \A i \in 0..k : i \in G
  BY <1>1, <1>5, <1>6, StepByStep
<1> QED
  BY <1>1, <1>4, <1>7 DEF G, some

----------------------------------------------------------------------------
(* What a Set-Cookie header becomes.                                       *)
LEMMA TrimmedIsPath ==
  ASSUME NEW p \in Seq(STRING)
  PROVE  Trimmed(p) \in Seq(STRING)
<1>1. CASE Len(p) > 1
  <2>1. Len(p) \in Nat /\ \A i \in 1..Len(p) : p[i] \in STRING
    BY LenProperties, ElementOfSeq
  <2>2. SubSeq(p, 1, Len(p) - 1) \in Seq(STRING)
    BY <1>1, <2>1, SubSeqProperties
  <2> QED
    BY <2>2 DEF Trimmed, Front
<1>2. CASE ~(Len(p) > 1)
  BY <1>2 DEF Trimmed
<1> QED
  BY <1>1, <1>2

LEMMA DefaultPathIsPath ==
  ASSUME NEW p \in Labels, p[1] = "/"
  PROVE  DefaultPath(p) \in Seq(STRING)
<1>1. p \in Seq(STRING) /\ p # <<>> /\ Len(p) \in Nat /\ \A i \in 1..Len(p) : p[i] \in STRING
  BY LenProperties, ElementOfSeq DEF Labels
<1>0. Len(p) # 0 /\ 1 \in 1..Len(p)
  BY <1>1, EmptySeq
<1>2. CASE LaterSlashes(p) = {}
  <2>1. Root \in Seq(STRING)
    <3>1. "/" \in STRING
      BY <1>1, <1>0
    <3> DEFINE slash == "/"
    <3> HIDE DEF slash
    <3>2. <<slash>> \in Seq(STRING)
      BY <3>1 DEF slash
    <3> QED
      BY <3>2 DEF Root, slash
  <2> QED
    BY <1>2, <2>1 DEF DefaultPath
<1>3. CASE LaterSlashes(p) # {}
  <2>1. LaterSlashes(p) \subseteq 0..Len(p) /\ LaterSlashes(p) \subseteq 2..Len(p)
    BY <1>1 DEF LaterSlashes
  <2>2. Greatest(LaterSlashes(p)) \in 2..Len(p)
    BY <1>1, <1>3, <2>1, GreatestOf
  <2> DEFINE g == Greatest(LaterSlashes(p))
  <2>3. DefaultPath(p) = SubSeq(p, 1, g - 1)
    BY <1>3 DEF DefaultPath
  <2> HIDE DEF g
  <2>4. g \in Nat /\ g - 1 \in Nat /\ g - 1 <= Len(p)
    BY <1>1, <2>2 DEF g
  <2>5. SubSeq(p, 1, g - 1) \in Seq(STRING)
    BY <1>1, <2>4, SubSeqProperties
  <2> QED
    BY <2>3, <2>5
<1> QED
  BY <1>2, <1>3

LEMMA PathOfIsPath ==
  ASSUME NEW sc \in SetCookieSpace, NEW u \in UrlSpace
  PROVE  PathOf(sc, u) \in Seq(STRING)
<1>1. u.path \in Labels /\ u.path[1] = "/" /\ (sc.path # None => sc.path \in Seq(STRING))
  BY DEF UrlSpace, SetCookieSpace, Labels
<1> DEFINE p == IF sc.path = None THEN DefaultPath(u.path) ELSE sc.path
<1>2. p \in Seq(STRING)
  BY <1>1, DefaultPathIsPath
<1> HIDE DEF p
<1>3. Trimmed(p) \in Seq(STRING)
  BY <1>2, TrimmedIsPath
<1> QED
  BY <1>3 DEF p, PathOf

LEMMA CoversItself ==
  ASSUME NEW h \in Seq(STRING)
  PROVE  Covers(h, h)
<1>1. Len(h) \in Nat
  BY LenProperties
<1> QED
  BY <1>1 DEF Covers, IsPrefix

(* The domain a header may claim is one its host lies in.                  *)
LEMMA ClaimedFacts ==
  ASSUME NEW sc \in SetCookieSpace, NEW host \in Labels,
         ClaimedDomain(sc, host) # None
  PROVE  /\ ClaimedDomain(sc, host) \in [at : Labels, sub : BOOLEAN]
         /\ Covers(ClaimedDomain(sc, host).at, host)
<1>1. sc.domain = None \/ sc.domain \in Labels
  BY DEF SetCookieSpace
<1>2. Covers(host, host)
  BY CoversItself DEF Labels
<1>3. CASE sc.domain = None \/ (IsIp(host) /\ sc.domain = host)
  BY <1>2, <1>3 DEF ClaimedDomain
<1>4. CASE ~(sc.domain = None \/ (IsIp(host) /\ sc.domain = host))
  <2>1. Covers(sc.domain, host) /\ ClaimedDomain(sc, host) = [at |-> sc.domain, sub |-> TRUE]
    BY <1>4 DEF ClaimedDomain
  <2> QED
    BY <1>1, <1>4, <2>1
<1> QED
  BY <1>3, <1>4

LEMMA ParsedFacts ==
  ASSUME NEW sc \in SetCookieSpace, NEW u \in UrlSpace, NEW host \in Labels,
         NEW t \in Nat, Accepted(sc, u, host)
  PROVE  /\ Parsed(sc, u, host, t) \in Cookie
         /\ Parsed(sc, u, host, t).by = u.host
         /\ Parsed(sc, u, host, t).dom = ClaimedDomain(sc, host)
         /\ Covers(Parsed(sc, u, host, t).dom.at, host)
         /\ t > 1 => (Expired(Parsed(sc, u, host, t), t) <=> sc.age = "gone")
<1> DEFINE c == Parsed(sc, u, host, t)
           e == CASE sc.age = "session" -> 0
                  [] sc.age = "gone" -> 1
                  [] OTHER -> t + Lifetime
<1>1. /\ ClaimedDomain(sc, host) \in [at : Labels, sub : BOOLEAN]
      /\ Covers(ClaimedDomain(sc, host).at, host)
  BY ClaimedFacts DEF Accepted
<1>2. PathOf(sc, u) \in Seq(STRING)
  BY PathOfIsPath
<1>3. /\ sc.secure \in BOOLEAN /\ sc.name \in STRING
      /\ sc.age \in {"session", "later", "gone"} /\ u.host \in Seq(STRING)
  BY DEF SetCookieSpace, UrlSpace, Labels
<1>4. e \in Nat /\ (t > 1 => (e > 0 /\ e <= t <=> sc.age = "gone"))
  <2>1. CASE sc.age = "session"
    BY <2>1
  <2>2. CASE sc.age = "gone"
    BY <2>2
  <2>3. CASE sc.age = "later"
    <3>1. e = t + Lifetime
      BY <2>3
    <3> QED
      BY <2>3, <3>1 DEF Lifetime
  <2> QED
    BY <1>3, <2>1, <2>2, <2>3
<1>5. c = [dom |-> ClaimedDomain(sc, host), path |-> PathOf(sc, u),
           secure |-> sc.secure, name |-> sc.name, by |-> u.host, expires |-> e]
  BY DEF Parsed
<1> HIDE DEF e, c
<1>6. c \in Cookie
  BY <1>1, <1>2, <1>3, <1>4, <1>5 DEF Cookie
<1>7. c.by = u.host /\ c.dom = ClaimedDomain(sc, host) /\ c.expires = e
  BY <1>5
<1>8. t > 1 => (Expired(c, t) <=> sc.age = "gone")
  BY <1>4, <1>7 DEF Expired
<1> QED
  BY <1>1, <1>6, <1>7, <1>8 DEF c

----------------------------------------------------------------------------
(* The lists the program keeps: no key twice, no domain over its limit.    *)
Lists(C) == {l \in Seq(C) : Unique(l) /\ Capped(l)}

LEMMA NoneIsList ==
  ASSUME NEW C
  PROVE  <<>> \in Lists(C)
<1> DEFINE none == <<>>
<1>1. none \in Seq(C) /\ DOMAIN none = {} /\ ToSet(none) = {}
  BY EmptySeq, NoElements
<1> HIDE DEF none
<1>2. Unique(none) /\ Capped(none)
  BY <1>1 DEF Unique, Capped
<1> QED
  BY <1>1, <1>2 DEF Lists, none

LEMMA StoreIsList ==
  ASSUME NEW C, NEW l \in Lists(C), NEW c \in C, NEW t
  PROVE  Store(l, c, t) \in Lists(C)
<1>1. l \in Seq(C) /\ Unique(l) /\ Capped(l)
  BY DEF Lists
<1> QED
  BY <1>1, StoreFacts DEF Lists

LEMMA TakenIsList ==
  ASSUME NEW C, NEW l \in Lists(C), NEW sc, NEW u, NEW host, NEW t, NEW rule,
         Accepted(sc, u, host) => Parsed(sc, u, host, t) \in C
  PROVE  Taken(l, sc, u, host, t, rule) \in Lists(C)
<1> DEFINE c == Parsed(sc, u, host, t)
<1>1. \/ Taken(l, sc, u, host, t, rule) = l
      \/ Accepted(sc, u, host) /\ Taken(l, sc, u, host, t, rule) = Store(l, c, t)
  BY DEF Taken
<1> HIDE DEF c
<1>2. Accepted(sc, u, host) => Store(l, c, t) \in Lists(C)
  BY StoreIsList DEF c
<1> QED
  BY <1>1, <1>2

LEMMA AbsorbedIsList ==
  ASSUME NEW C, NEW l \in Lists(C), NEW H, NEW headers \in Seq(H),
         NEW u, NEW host, NEW t, NEW rule,
         \A sc \in H : Accepted(sc, u, host) => Parsed(sc, u, host, t) \in C
  PROVE  Absorbed(l, headers, u, host, t, rule) \in Lists(C)
<1>1. \A sc \in H, k \in Lists(C) : Taken(k, sc, u, host, t, rule) \in Lists(C)
  BY TakenIsList
<1> QED
  BY <1>1, AbsorbedWithin

LEMMA StoredIsList ==
  ASSUME NEW C, NEW cookies \in Seq(C), NEW t
  PROVE  Stored(cookies, t) \in Lists(C)
<1>1. \A c \in C, l \in Lists(C) : Store(l, c, t) \in Lists(C)
  BY StoreIsList
<1> QED
  BY <1>1, NoneIsList, StoredWithin

LEMMA ReverseElements ==
  ASSUME NEW C, NEW l \in Seq(C)
  PROVE  /\ Reverse(l) \in Seq(C)
         /\ ToSet(Reverse(l)) = ToSet(l)
         /\ Unique(l) => Unique(Reverse(l))
<1> DEFINE r == Reverse(l)
           m == Len(l)
<1>1. /\ DOMAIN l = 1..m /\ m \in Nat
      /\ \A i \in 1..m : l[i] \in C /\ l[i] \in ToSet(l)
      /\ \A x \in ToSet(l) : x \in C /\ \E i \in 1..m : x = l[i]
  BY Elements
<1> HIDE DEF m
<1>2. r = [i \in 1..m |-> l[(m - i) + 1]]
  BY DEF Reverse, m
<1>3. /\ \A i \in 1..m : (m - i) + 1 \in 1..m /\ r[i] = l[(m - i) + 1]
      /\ DOMAIN r = 1..m
  BY <1>1, <1>2
<1>4. r \in Seq(C) /\ Len(r) = m
  <2>1. r \in [1..m -> C]
    BY <1>1, <1>2, <1>3
  <2> QED
    BY <1>1, <2>1
<1>5. ToSet(r) = ToSet(l)
  <2>1. \A x \in ToSet(r) : x \in ToSet(l)
    <3> TAKE x \in ToSet(r)
    <3>1. PICK i \in 1..m : x = r[i]
      BY <1>3 DEF ToSet
    <3> QED
      BY <1>1, <1>3, <3>1
  <2>2. \A x \in ToSet(l) : x \in ToSet(r)
    <3> TAKE x \in ToSet(l)
    <3>1. PICK i \in 1..m : x = l[i]
      BY <1>1
    <3>2. (m - i) + 1 \in 1..m /\ r[(m - i) + 1] = x
      <4>1. (m - i) + 1 \in 1..m /\ (m - ((m - i) + 1)) + 1 = i
        BY <1>1
      <4> QED
        BY <1>3, <3>1, <4>1
    <3> QED
      BY <1>3, <3>2 DEF ToSet
  <2> QED
    BY <2>1, <2>2
<1>6. ASSUME Unique(l) PROVE Unique(r)
  <2>1. SUFFICES ASSUME NEW i \in 1..m, NEW j \in 1..m, SameKey(r[i], r[j])
        PROVE  i = j
    BY <1>3 DEF Unique
  <2>2. SameKey(l[(m - i) + 1], l[(m - j) + 1])
    BY <1>3, <2>1
  <2>3. (m - i) + 1 = (m - j) + 1
    BY <1>1, <1>3, <1>6, <2>2 DEF Unique
  <2> QED
    BY <1>1, <2>3
<1> QED
  BY <1>4, <1>5, <1>6

LEMMA ReverseIsList ==
  ASSUME NEW C, NEW l \in Lists(C)
  PROVE  Reverse(l) \in Lists(C)
<1>1. l \in Seq(C) /\ Unique(l) /\ Capped(l)
  BY DEF Lists
<1>2. Reverse(l) \in Seq(C) /\ ToSet(Reverse(l)) = ToSet(l) /\ Unique(Reverse(l))
  BY <1>1, ReverseElements
<1>3. Capped(Reverse(l))
  BY <1>1, <1>2 DEF Capped, CountIn
<1> QED
  BY <1>2, <1>3 DEF Lists

LEMMA JarIsList ==
  ASSUME NEW C, NEW f \in Seq(C), NEW l \in Lists(C), NEW H, NEW headers \in Seq(H),
         NEW u, NEW host, NEW t,
         \A sc \in H : Accepted(sc, u, host) => Parsed(sc, u, host, t) \in C
  PROVE  Jar(f, l, headers, u, host, t) \in Lists(C)
<1>1. f \o l \in Seq(C)
  BY ConcatProperties DEF Lists
<1>2. Stored(f \o l, t) \in Lists(C)
  BY <1>1, StoredIsList
<1>3. Absorbed(Stored(f \o l, t), headers, u, host, t, "segment") \in Lists(C)
  BY <1>2, AbsorbedIsList
<1> QED
  BY <1>3, ReverseIsList DEF Jar

\* What is carried is a cookie of the file or of the memory.
LEMMA CarriedFrom ==
  ASSUME NEW C, NEW f \in Seq(C), NEW l \in Seq(C), NEW gones, NEW host, NEW path,
         NEW sec, NEW junk, NEW t,
         NEW s \in Carried(f, l, gones, host, path, sec, junk, t)
  PROVE  /\ s.cookie \in C
         /\ \/ s.from = "file" /\ s.cookie \in ToSet(f)
               /\ DeletionKey(s.cookie) \notin gones
            \/ s.from = "memory" /\ s.cookie \in ToSet(l)
         /\ Usable(s.cookie, sec, junk, t) /\ Fits(s.cookie, host, path)
<1> DEFINE S == {c \in ToSet(f) : DeletionKey(c) \notin gones /\ Usable(c, sec, junk, t)}
           kept == Retained(f, S)
           first == FirstPerDomain(kept)
<1>1. kept \in Seq(C) /\ ToSet(kept) = ToSet(f) \cap S
  BY RetainedFacts
<1>2. \/ \E c \in first : Fits(c, host, path) /\ s = [cookie |-> c, from |-> "file"]
      \/ \E c \in ToSet(l) : /\ Usable(c, sec, junk, t) /\ Fits(c, host, path)
                             /\ s = [cookie |-> c, from |-> "memory"]
  BY DEF Carried
<1>3. DOMAIN kept = 1..Len(kept) /\ \A i \in 1..Len(kept) : kept[i] \in ToSet(kept)
  BY <1>1, Elements
<1>4. first \subseteq ToSet(kept)
  <2> HIDE DEF kept
  <2> QED
    BY <1>3 DEF FirstPerDomain
<1> HIDE DEF kept, first
<1>5. ToSet(f) \subseteq C /\ ToSet(l) \subseteq C
  BY Elements
<1>6. CASE \E c \in first : Fits(c, host, path) /\ s = [cookie |-> c, from |-> "file"]
  <2>1. PICK c \in first : Fits(c, host, path) /\ s = [cookie |-> c, from |-> "file"]
    BY <1>6
  <2>2. c \in ToSet(f) /\ DeletionKey(c) \notin gones /\ Usable(c, sec, junk, t)
    BY <1>1, <1>4
  <2> QED
    BY <1>5, <2>1, <2>2
<1>7. CASE \E c \in ToSet(l) : /\ Usable(c, sec, junk, t) /\ Fits(c, host, path)
                               /\ s = [cookie |-> c, from |-> "memory"]
  BY <1>5, <1>7
<1> QED
  BY <1>2, <1>6, <1>7

----------------------------------------------------------------------------
(* The type invariant, in the form that is inductive: what the next step   *)
(* reads has its type as well.                                             *)
InCall == at \in {"request", "reply"}
Typed ==
  /\ opts \in OptionSets
  /\ at \in {"next", "request", "reply", "done"}
  /\ n \in 0..MaxUrls /\ redirects \in 0..MaxRedirs
  /\ InCall => n > 0 /\ url \in UrlSpace /\ custom \in Labels \union {None}
  /\ now \in StartTime..MaxTime
  /\ retried \in BOOLEAN /\ learned \in BOOLEAN
  /\ mem \in Lists(Cookie) /\ memory \in Lists(Cookie) /\ jar \in Lists(Cookie)
  /\ file \in Seq(Cookie) /\ (file = opts.file \/ file \in Lists(Cookie))
  /\ hsts \in Seq(HstsEntry) /\ alts \in Seq(AltEntry)
  /\ owed \subseteq Cookie
  /\ sent \subseteq [cookie : Cookie, from : {"file", "memory"}]

LEMMA OptionFacts ==
  ASSUME NEW o \in OptionSets
  PROVE  /\ o.file \in Seq(Cookie) /\ o.file \in Seq({c \in Cookie : c.by = <<>>})
         /\ o.hsts \in Seq(HstsEntry) /\ o.alts \in Seq(AltEntry)
         /\ o.hosts \in Seq(Labels \union {None})
         /\ Len(o.hosts) \in Nat
         /\ \A i \in 1..Len(o.hosts) : o.hosts[i] \in Labels \union {None}
<1> DEFINE L == Labels \union {None}
           F == {c \in Cookie : c.by = <<>>}
<1>1. o \in OptionSpace
  BY SessionAssumption
<1>2. /\ o.file \in Seq(F) /\ o.hsts \in Seq(HstsEntry) /\ o.alts \in Seq(AltEntry)
      /\ o.hosts \in Seq(L)
  BY <1>1 DEF OptionSpace
<1> HIDE DEF L
<1>3. Len(o.hosts) \in Nat /\ \A i \in 1..Len(o.hosts) : o.hosts[i] \in L
  BY <1>2, LenProperties, ElementOfSeq
<1>4. o.file \in Seq(Cookie)
  <2>1. Len(o.file) \in Nat /\ o.file \in [1..Len(o.file) -> F]
    BY <1>2, LenProperties
  <2>2. o.file \in [1..Len(o.file) -> Cookie]
    BY <2>1
  <2> QED
    BY <2>1, <2>2
<1> QED
  BY <1>2, <1>3, <1>4 DEF L

LEMMA LogicalIsHost ==
  ASSUME NEW u \in UrlSpace, NEW c \in Labels \union {None}
  PROVE  Logical(u, c) \in Labels
BY DEF Logical, UrlSpace

LEMMA MainHostIsHost ==
  ASSUME opts \in OptionSets, n \in 0..MaxUrls, n > 0
  PROVE  MainHost \in Labels \union {None}
<1>1. /\ Len(opts.hosts) \in Nat
      /\ \A i \in 1..Len(opts.hosts) : opts.hosts[i] \in Labels \union {None}
  BY OptionFacts
<1>2. Len(opts.hosts) \in 1..Len(opts.hosts)
  BY <1>1 DEF MaxUrls
<1> QED
  BY <1>1, <1>2 DEF MainHost, Last

LEMMA ReplyFacts ==
  ASSUME NEW r \in Replies
  PROVE  /\ r.cookies \in Seq(SetCookieSpace)
         /\ r.st = 302 => r.to \in Urls /\ r.to \in UrlSpace
         /\ r.sts # None => r.sts \in [sub : BOOLEAN]
         /\ r.alt # None => r.alt \in STRING
BY SessionAssumption DEF ReplySpace

LEMMA UpgradedIsUrl ==
  ASSUME NEW u \in UrlSpace
  PROVE  Upgraded(u) \in UrlSpace
<1>1. CoveredBy(opts.hsts, u.host) \in BOOLEAN
  BY DEF CoveredBy
<1> DEFINE b == u.https \/ (u.text = "full" /\ CoveredBy(opts.hsts, u.host))
<1>2. b \in BOOLEAN
  OBVIOUS
<1> HIDE DEF b
<1>3. [u EXCEPT !.https = b] \in UrlSpace
  BY <1>2 DEF UrlSpace
<1> QED
  BY <1>3 DEF Upgraded, b

LEMMA TakesFirstIsList ==
  ASSUME NEW C, NEW l \in Lists(C), NEW r \in Replies,
         \A sc \in SetCookieSpace :
           Accepted(sc, url, Logical(url, custom))
             => Parsed(sc, url, Logical(url, custom), now) \in C
  PROVE  TakesFirst(l, r) \in Lists(C) /\ TakesLast(l, r) \in Lists(C)
<1>1. r.cookies \in Seq(SetCookieSpace)
  BY ReplyFacts
<1>2. /\ Absorbed(l, r.cookies, url, Logical(url, custom), now, "segment") \in Lists(C)
      /\ Absorbed(l, r.cookies, url, Logical(url, custom), now, "name") \in Lists(C)
  BY <1>1, AbsorbedIsList
<1> QED
  BY <1>2 DEF TakesFirst, TakesLast

LEMMA InitTyped == Init => Typed
<1> SUFFICES ASSUME Init PROVE Typed
  OBVIOUS
<1>1. opts \in OptionSets /\ opts.file \in Seq(Cookie)
      /\ opts.hsts \in Seq(HstsEntry) /\ opts.alts \in Seq(AltEntry)
      /\ MaxUrls \in Nat
  BY OptionFacts DEF Init, MaxUrls
<1>2. <<>> \in Lists(Cookie)
  BY NoneIsList
<1>3. MaxRedirs \in Nat /\ StartTime \in StartTime..MaxTime
  BY SessionAssumption DEF StartTime, MaxTime, Lifetime
<1>4. mem \in Lists(Cookie) /\ memory \in Lists(Cookie) /\ jar \in Lists(Cookie)
  BY <1>2 DEF Init
<1>5. /\ n \in 0..MaxUrls /\ redirects \in 0..MaxRedirs /\ now \in StartTime..MaxTime
      /\ ~InCall /\ at = "next"
  BY <1>1, <1>3 DEF Init, InCall
<1>6. /\ retried \in BOOLEAN /\ learned \in BOOLEAN /\ file = opts.file
      /\ hsts = opts.hsts /\ alts = opts.alts /\ owed = {} /\ sent = {}
  BY DEF Init
<1> QED
  BY <1>1, <1>4, <1>5, <1>6 DEF Typed

LEMMA LearnAltTyped ==
  ASSUME url \in UrlSpace, alts \in Seq(AltEntry), NEW r \in Replies
  PROVE  LearnAlt(alts, r) \in Seq(AltEntry)
<1>1. r.alt # None => [host |-> url.host, alt |-> r.alt] \in AltEntry
  BY ReplyFacts DEF UrlSpace, AltEntry
<1> DEFINE e == [host |-> url.host, alt |-> r.alt]
<1> HIDE DEF e
<1>2. r.alt # None => Append(alts, e) \in Seq(AltEntry)
  BY <1>1, AppendProperties DEF e
<1> QED
  BY <1>2 DEF LearnAlt, e

LEMMA LearnHstsTyped ==
  ASSUME url \in UrlSpace, hsts \in Seq(HstsEntry), NEW r \in Replies, TellsHsts(r)
  PROVE  LearnHsts(hsts, r) \in Seq(HstsEntry)
<1> DEFINE e == [sub |-> r.sts.sub, host |-> url.host]
           same == {i \in DOMAIN hsts : hsts[i].host = url.host}
<1>1. e \in HstsEntry
  BY ReplyFacts DEF UrlSpace, HstsEntry, TellsHsts
<1>2. DOMAIN hsts = 1..Len(hsts) /\ Len(hsts) \in Nat
  BY LenProperties
<1>3. LearnHsts(hsts, r) = IF same = {} THEN Append(hsts, e)
                           ELSE [hsts EXCEPT ![Least(same)] = e]
  BY DEF LearnHsts
<1>4. same \subseteq Nat
  BY <1>2
<1> HIDE DEF e, same
<1>5. Append(hsts, e) \in Seq(HstsEntry)
  BY <1>1, AppendProperties
<1>6. [hsts EXCEPT ![Least(same)] = e] \in Seq(HstsEntry)
  <2>1. hsts \in [1..Len(hsts) -> HstsEntry]
    BY LenProperties
  <2>2. [hsts EXCEPT ![Least(same)] = e] \in [1..Len(hsts) -> HstsEntry]
    BY <1>1, <2>1
  <2> QED
    BY <1>2, <2>2
<1> QED
  BY <1>3, <1>5, <1>6

LEMMA CallOverTyped ==
  ASSUME Typed, CallOver, UNCHANGED <<opts, n, now>>,
         memory' \in Lists(Cookie), jar' \in Lists(Cookie),
         file' \in Seq(Cookie), file' = opts.file \/ file' \in Lists(Cookie),
         hsts' \in Seq(HstsEntry), alts' \in Seq(AltEntry),
         owed' \subseteq Cookie, learned' \in BOOLEAN
  PROVE  Typed'
<1>1. mem' \in Lists(Cookie)
  BY NoneIsList DEF CallOver
<1>2. 0 \in 0..MaxRedirs
  BY SessionAssumption
<1>3. MaxUrls' = MaxUrls
  BY DEF MaxUrls
<1> QED
  BY <1>1, <1>2, <1>3 DEF Typed, CallOver, InCall

LEMMA NextTyped == Typed /\ [Next]_vars => Typed'
<1> SUFFICES ASSUME Typed, [Next]_vars PROVE Typed'
  OBVIOUS
<1>0. /\ MaxRedirs \in Nat /\ MaxUrls \in Nat /\ redirects \in Nat /\ n \in Nat
      /\ now \in Nat /\ StartTime \in Nat /\ MaxTime \in Nat /\ now > 1
  BY SessionAssumption, OptionFacts DEF MaxUrls, Typed, StartTime, MaxTime, Lifetime
<1>1. CASE NextUrl
  <2>1. \E u \in Urls : url' = Upgraded(u)
    BY <1>1 DEF NextUrl
  <2>2. url' \in UrlSpace
    BY <2>1, UpgradedIsUrl, SessionAssumption
  <2>3. custom' \in Labels \union {None} /\ n' \in 1..MaxUrls
    <3>1. n + 1 \in 1..Len(opts.hosts)
      BY <1>0, <1>1 DEF NextUrl, MaxUrls
    <3>2. opts.hosts[n + 1] \in Labels \union {None}
      BY <3>1, OptionFacts DEF Typed
    <3> QED
      BY <1>1, <3>1, <3>2 DEF NextUrl, MaxUrls
  <2>4. MaxUrls' = MaxUrls
    BY <1>1 DEF NextUrl, MaxUrls
  <2>5. redirects' \in 0..MaxRedirs /\ n' \in 0..MaxUrls' /\ n' > 0
    BY <1>0, <1>1, <2>3, <2>4 DEF NextUrl
  <2>6. /\ UNCHANGED <<opts, sent, now, memory, file, jar, hsts, learned, alts, owed>>
        /\ mem' = memory /\ retried' = FALSE /\ at' = "request"
    BY <1>1 DEF NextUrl, mainvars
  <2> QED
    BY <2>2, <2>3, <2>5, <2>6 DEF Typed, InCall
<1>2. CASE Request
  <2>1. sent' \subseteq [cookie : Cookie, from : {"file", "memory"}]
    <3> DEFINE host == Logical(url, custom)
               sec == url.https \/ IsLoopback(host)
               all == Carried(file, mem, deleted, host, url.path, sec, opts.junk, now)
    <3>1. sent' = all
      BY <1>2 DEF Request
    <3>2. file \in Seq(Cookie) /\ mem \in Seq(Cookie)
      BY DEF Typed, Lists
    <3>3. ASSUME NEW s \in all
          PROVE  s \in [cookie : Cookie, from : {"file", "memory"}]
      <4>1. s.cookie \in Cookie /\ s.from \in {"file", "memory"}
        BY <3>2, <3>3, CarriedFrom
      <4>2. \E c : s = [cookie |-> c, from |-> "file"] \/ s = [cookie |-> c, from |-> "memory"]
        BY <3>3 DEF Carried
      <4> QED
        BY <4>1, <4>2
    <3> QED
      BY <3>1, <3>3
  <2>2. MaxUrls' = MaxUrls
    BY <1>2 DEF Request, MaxUrls
  <2> QED
    BY <1>2, <2>1, <2>2 DEF Request, Typed, InCall, callvars, mainvars
<1>3. ASSUME InCall
      PROVE  \A sc \in SetCookieSpace :
               /\ Accepted(sc, url, Logical(url, custom))
                    => Parsed(sc, url, Logical(url, custom), now) \in Cookie
               /\ Accepted(sc, url, Logical(url, MainHost))
                    => Parsed(sc, url, Logical(url, MainHost), now) \in Cookie
  <2>1. url \in UrlSpace /\ custom \in Labels \union {None} /\ MainHost \in Labels \union {None}
    BY <1>3, MainHostIsHost DEF Typed
  <2>2. Logical(url, custom) \in Labels /\ Logical(url, MainHost) \in Labels
    BY <2>1, LogicalIsHost
  <2> QED
    BY <1>0, <2>1, <2>2, ParsedFacts
<1>4. CASE Retry
  <2>1. PICK r \in Replies : mem' = TakesFirst(mem, r)
    BY <1>4 DEF Retry
  <2>2. mem' \in Lists(Cookie)
    BY <1>3, <1>4, <2>1, TakesFirstIsList DEF Typed, Retry, InCall
  <2>3. MaxUrls' = MaxUrls
    BY <1>4 DEF Retry, MaxUrls
  <2> QED
    BY <1>4, <2>2, <2>3 DEF Retry, Typed, InCall, mainvars
<1>5. CASE Redirect
  <2>1. PICK r \in Replies :
          /\ r.st = 302
          /\ mem' = TakesLast(TakesFirst(mem, r), r)
          /\ url' = r.to
          /\ custom' = IF <<r.to.host, r.to.https>> = <<url.host, url.https>>
                       THEN custom ELSE None
    BY <1>5 DEF Redirect
  <2>2. mem' \in Lists(Cookie)
    BY <1>3, <1>5, <2>1, TakesFirstIsList DEF Typed, Redirect, InCall
  <2>3. url' \in UrlSpace
    BY <2>1, ReplyFacts
  <2>4. custom' \in Labels \union {None}
    BY <1>5, <2>1 DEF Typed, Redirect, InCall
  <2>5. MaxUrls' = MaxUrls
    BY <1>5 DEF Redirect, MaxUrls
  <2>6. redirects' \in 0..MaxRedirs
    BY <1>0, <1>5 DEF Redirect, Typed
  <2>7. /\ UNCHANGED <<opts, n, sent, now, memory, file, jar, hsts, learned, alts, owed>>
        /\ retried' = FALSE /\ at = "reply" /\ at' = "request"
    BY <1>5 DEF Redirect, mainvars
  <2> QED
    BY <2>2, <2>3, <2>4, <2>5, <2>6, <2>7 DEF Typed, InCall
<1>6. CASE Final
  <2>0. InCall /\ CallOver /\ UNCHANGED <<opts, n, now>> /\ url \in UrlSpace
    BY <1>6 DEF Final, InCall, Typed
  <2> DEFINE main == Logical(url, MainHost)
  <2>1. PICK r \in Replies :
          /\ alts' = LearnAlt(alts, r)
          /\ hsts' = IF TellsHsts(r) THEN LearnHsts(hsts, r) ELSE hsts
          /\ learned' = (learned \/ TellsHsts(r))
          /\ SavesJar(r)
          /\ memory' = IF opts.engine
                       THEN Absorbed(memory, r.cookies, url, main, now, "never")
                       ELSE memory
          /\ owed' = {c \in owed : \A d \in Names(r) : ~SameKey(c, d)}
                       \union {d \in Names(r) : ~Expired(d, now)}
    BY <1>6 DEF Final
  <2>2. alts' \in Seq(AltEntry)
    BY <2>0, <2>1, LearnAltTyped DEF Typed
  <2>3. hsts' \in Seq(HstsEntry)
    BY <2>0, <2>1, LearnHstsTyped DEF Typed
  <2>4. r.cookies \in Seq(SetCookieSpace)
    BY ReplyFacts
  <2>5. \A sc \in SetCookieSpace :
          Accepted(sc, url, main) => Parsed(sc, url, main, now) \in Cookie
    BY <1>3, <2>0
  <2> HIDE DEF main
  <2>6. memory' \in Lists(Cookie)
    BY <2>1, <2>4, <2>5, AbsorbedIsList DEF Typed
  <2>7. Jar(file, memory, r.cookies, url, main, now) \in Lists(Cookie)
    BY <2>4, <2>5, JarIsList DEF Typed
  <2>8. /\ jar' \in Lists(Cookie) /\ file' \in Seq(Cookie)
        /\ file' = opts.file \/ file' \in Lists(Cookie)
    BY <2>1, <2>7 DEF Typed, SavesJar, main, Lists
  <2>9. owed' \subseteq Cookie
    <3>1. Names(r) \subseteq Cookie
      <4>1. DOMAIN r.cookies = 1..Len(r.cookies)
            /\ \A i \in 1..Len(r.cookies) : r.cookies[i] \in SetCookieSpace
        BY <2>4, Elements
      <4> QED
        BY <2>5, <4>1 DEF Names, main
    <3> QED
      BY <2>1, <3>1 DEF Typed
  <2>10. learned' \in BOOLEAN
    BY <2>1 DEF TellsHsts, Typed
  <2> QED
    BY <2>0, <2>2, <2>3, <2>6, <2>8, <2>9, <2>10, CallOverTyped
<1>7. CASE Fail
  BY <1>7, CallOverTyped DEF Fail, mainvars, Typed
<1>8. CASE Tick
  <2>1. now' \in StartTime..MaxTime
    BY <1>0, <1>8 DEF Tick, Typed
  <2>2. MaxUrls' = MaxUrls
    BY <1>8 DEF Tick, MaxUrls
  <2> QED
    BY <1>8, <2>1, <2>2 DEF Tick, Typed, InCall, callvars, mainvars
<1>9. CASE Finish
  <2>1. hsts' \in Seq(HstsEntry)
    BY <1>9, OptionFacts DEF Finish, Typed
  <2>2. MaxUrls' = MaxUrls
    BY <1>9 DEF Finish, MaxUrls
  <2> QED
    BY <1>9, <2>1, <2>2 DEF Finish, Typed, InCall, callvars
<1>10. CASE UNCHANGED vars
  <2>1. MaxUrls' = MaxUrls
    BY <1>10 DEF vars, MaxUrls
  <2> QED
    BY <1>10, <2>1 DEF vars, Typed, InCall, callvars, mainvars
<1> QED
  BY <1>1, <1>2, <1>4, <1>5, <1>6, <1>7, <1>8, <1>9, <1>10 DEF Next

THEOREM SessionTyped == Spec => []Typed
<1>1. Init => Typed
  BY InitTyped
<1>2. Typed /\ [Next]_vars => Typed'
  BY NextTyped
<1> QED
  BY <1>1, <1>2, PTL DEF Spec

LEMMA TypedHolds == Typed => SessionTypeOK
<1> SUFFICES ASSUME Typed PROVE SessionTypeOK
  OBVIOUS
<1>1. ASSUME NEW l \in Lists(Cookie) PROVE Keepable(l)
  <2>1. l \in Seq(Cookie) /\ Unique(l) /\ Capped(l)
    BY <1>1 DEF Lists
  <2>2. \A c \in ToSet(l) : c \in Cookie
    BY <2>1, Elements
  <2>3. \A c \in ToSet(l) : c.dom.at # <<>>
    BY <2>2 DEF Cookie, Labels
  <2> QED
    BY <2>1, <2>3 DEF Keepable, Unique, Capped
<1> QED
  BY <1>1 DEF Typed, SessionTypeOK

(* SessionTypeOK, for all instances.                                       *)
THEOREM SessionTypesHold == Spec => []SessionTypeOK
BY SessionTyped, TypedHolds, PTL

----------------------------------------------------------------------------
(* The domain of a cookie.  Without a Host header every cookie that is     *)
(* kept was set from within its domain, or comes from a file; it is sent   *)
(* only where it fits.                                                     *)
Homely == {c \in Cookie : c.by = <<>> \/ Covers(c.dom.at, c.by)}
NoHosts == \A i \in DOMAIN opts.hosts : opts.hosts[i] = None
InDomain ==
  NoHosts =>
    /\ InCall => custom = None
    /\ mem \in Lists(Homely) /\ memory \in Lists(Homely) /\ jar \in Lists(Homely)
    /\ file \in Seq(Homely)
    /\ at = "reply" =>
         \A s \in sent : s.cookie \in Homely /\ Fits(s.cookie, url.host, url.path)

LEMMA FilesAreHomely ==
  ASSUME NEW o \in OptionSets
  PROVE  o.file \in Seq(Homely)
<1> DEFINE F == {c \in Cookie : c.by = <<>>}
<1>1. o.file \in Seq(F)
  BY OptionFacts
<1>2. Len(o.file) \in Nat /\ o.file \in [1..Len(o.file) -> F]
  BY <1>1, LenProperties
<1>3. F \subseteq Homely
  BY DEF Homely
<1> HIDE DEF F
<1>4. o.file \in [1..Len(o.file) -> Homely]
  BY <1>2, <1>3
<1> QED
  BY <1>2, <1>4

LEMMA ParsedIsHomely ==
  ASSUME NEW u \in UrlSpace, NEW t \in Nat
  PROVE  \A sc \in SetCookieSpace :
           Accepted(sc, u, u.host) => Parsed(sc, u, u.host, t) \in Homely
<1> SUFFICES ASSUME NEW sc \in SetCookieSpace, Accepted(sc, u, u.host)
             PROVE  Parsed(sc, u, u.host, t) \in Homely
  OBVIOUS
<1>1. u.host \in Labels
  BY DEF UrlSpace
<1> QED
  BY <1>1, ParsedFacts DEF Homely

LEMMA FitsInDomain ==
  ASSUME NEW c \in Cookie, NEW host \in Labels, NEW path, Fits(c, host, path)
  PROVE  Covers(c.dom.at, host)
<1>1. c.dom.sub => Covers(c.dom.at, host)
  BY DEF Fits, DomainMatches
<1>2. ~c.dom.sub => host = c.dom.at
  BY DEF Fits, DomainMatches
<1>3. Covers(host, host)
  BY CoversItself DEF Labels
<1> QED
  BY <1>1, <1>2, <1>3

LEMMA InDomainStep == Typed /\ InDomain /\ [Next]_vars => InDomain'
<1> SUFFICES ASSUME Typed, InDomain, [Next]_vars, NoHosts' PROVE InDomain'
  BY DEF InDomain
<1>0. UNCHANGED opts /\ NoHosts /\ now \in Nat
  <2>1. UNCHANGED opts
    BY DEF Next, vars, NextUrl, Request, Retry, Redirect, Final, Fail, Tick, Finish
  <2> QED
    BY <2>1 DEF NoHosts, Typed, StartTime, MaxTime, Lifetime
<1>a. /\ InCall => custom = None
      /\ mem \in Lists(Homely) /\ memory \in Lists(Homely) /\ jar \in Lists(Homely)
      /\ file \in Seq(Homely)
      /\ at = "reply" =>
           \A s \in sent : s.cookie \in Homely /\ Fits(s.cookie, url.host, url.path)
  BY <1>0 DEF InDomain
<1>b. ASSUME InCall
      PROVE  /\ url \in UrlSpace
             /\ Logical(url, custom) = url.host /\ Logical(url, MainHost) = url.host
  <2>1. n > 0 /\ n \in 0..MaxUrls
    BY <1>b DEF Typed
  <2>2. Len(opts.hosts) \in Nat /\ DOMAIN opts.hosts = 1..Len(opts.hosts)
    <3>1. opts.hosts \in Seq(Labels \union {None})
      BY OptionFacts DEF Typed
    <3> QED
      BY <3>1, LenProperties
  <2>3. Len(opts.hosts) \in DOMAIN opts.hosts
    BY <2>1, <2>2 DEF MaxUrls
  <2>4. MainHost = None
    BY <1>0, <2>3 DEF MainHost, Last, NoHosts
  <2> QED
    BY <1>a, <1>b, <2>4 DEF Logical, Typed
<1>c. <<>> \in Lists(Homely)
  BY NoneIsList
<1>1. CASE NextUrl
  <2>1. n + 1 \in DOMAIN opts.hosts
    <3>1. opts.hosts \in Seq(Labels \union {None})
      BY OptionFacts DEF Typed
    <3>2. DOMAIN opts.hosts = 1..Len(opts.hosts) /\ Len(opts.hosts) \in Nat
      BY <3>1, LenProperties
    <3> QED
      BY <1>1, <3>2 DEF NextUrl, Typed, MaxUrls
  <2>2. custom' = None
    BY <1>0, <1>1, <2>1 DEF NextUrl, NoHosts
  <2> QED
    BY <1>1, <1>a, <2>2 DEF NextUrl, InDomain, mainvars
<1>2. CASE Request
  <2>1. \A s \in sent' : s.cookie \in Homely /\ Fits(s.cookie, url.host, url.path)
    <3> DEFINE host == Logical(url, custom)
               sec == url.https \/ IsLoopback(host)
    <3>1. sent' = Carried(file, mem, deleted, host, url.path, sec, opts.junk, now)
      BY <1>2 DEF Request
    <3>2. host = url.host
      BY <1>2, <1>b DEF InCall, Request
    <3> HIDE DEF host, sec
    <3>3. mem \in Seq(Homely)
      BY <1>a DEF Lists
    <3> QED
      BY <1>a, <3>1, <3>2, <3>3, CarriedFrom
  <2> QED
    BY <1>2, <1>a, <2>1 DEF Request, InDomain, InCall, callvars, mainvars
<1>4. CASE Retry
  <2>1. PICK r \in Replies : mem' = TakesFirst(mem, r)
    BY <1>4 DEF Retry
  <2>2. mem' \in Lists(Homely)
    BY <1>0, <1>a, <1>b, <1>4, <2>1, ParsedIsHomely, TakesFirstIsList DEF Retry, InCall
  <2> QED
    BY <1>4, <1>a, <2>2 DEF Retry, InDomain, InCall, mainvars
<1>5. CASE Redirect
  <2>1. PICK r \in Replies :
          /\ mem' = TakesLast(TakesFirst(mem, r), r)
          /\ custom' = IF <<r.to.host, r.to.https>> = <<url.host, url.https>>
                       THEN custom ELSE None
    BY <1>5 DEF Redirect
  <2>2. mem' \in Lists(Homely)
    BY <1>0, <1>a, <1>b, <1>5, <2>1, ParsedIsHomely, TakesFirstIsList DEF Redirect, InCall
  <2>3. custom' = None
    BY <1>5, <1>a, <2>1 DEF Redirect, InCall
  <2> QED
    BY <1>5, <1>a, <2>2, <2>3 DEF Redirect, InDomain, InCall, mainvars
<1>6. CASE Final
  <2>0. InCall /\ CallOver /\ UNCHANGED <<opts, n, now>> /\ url \in UrlSpace
    BY <1>6, <1>b DEF Final, InCall
  <2> DEFINE main == Logical(url, MainHost)
  <2>1. PICK r \in Replies :
          /\ SavesJar(r)
          /\ memory' = IF opts.engine
                       THEN Absorbed(memory, r.cookies, url, main, now, "never")
                       ELSE memory
    BY <1>6 DEF Final
  <2>2. main = url.host /\ r.cookies \in Seq(SetCookieSpace)
    BY <1>b, <2>0, ReplyFacts
  <2>3. \A sc \in SetCookieSpace :
          Accepted(sc, url, main) => Parsed(sc, url, main, now) \in Homely
    BY <1>0, <2>0, <2>2, ParsedIsHomely
  <2> HIDE DEF main
  <2>4. memory' \in Lists(Homely)
    BY <1>a, <2>1, <2>2, <2>3, AbsorbedIsList
  <2>5. Jar(file, memory, r.cookies, url, main, now) \in Lists(Homely)
    BY <1>a, <2>2, <2>3, JarIsList
  <2>6. jar' \in Lists(Homely) /\ file' \in Seq(Homely)
    BY <1>a, <2>1, <2>5 DEF SavesJar, main, Lists
  <2>7. mem' \in Lists(Homely) /\ at' = "next"
    BY <1>c, <2>0 DEF CallOver
  <2> QED
    BY <2>4, <2>6, <2>7 DEF InDomain, InCall
<1>7. CASE Fail
  <2>1. mem' \in Lists(Homely) /\ at' = "next"
    BY <1>c, <1>7 DEF CallOver, Fail
  <2> QED
    BY <1>7, <1>a, <2>1 DEF InDomain, InCall, Fail, mainvars
<1>8. CASE Tick
  BY <1>8, <1>a DEF Tick, InDomain, InCall, callvars, mainvars
<1>9. CASE Finish
  BY <1>9, <1>a DEF Finish, InDomain, InCall, callvars
<1>10. CASE UNCHANGED vars
  BY <1>10, <1>a DEF vars, InDomain, InCall, callvars, mainvars
<1> QED
  BY <1>1, <1>2, <1>4, <1>5, <1>6, <1>7, <1>8, <1>9, <1>10 DEF Next

LEMMA InitInDomain == Init => InDomain
<1> SUFFICES ASSUME Init PROVE InDomain
  OBVIOUS
<1>1. opts.file \in Seq(Homely)
  BY FilesAreHomely DEF Init
<1>2. mem \in Lists(Homely) /\ memory \in Lists(Homely) /\ jar \in Lists(Homely)
  BY NoneIsList DEF Init
<1>3. at = "next" /\ file = opts.file
  BY DEF Init
<1> QED
  BY <1>1, <1>2, <1>3 DEF InDomain, InCall

LEMMA InDomainHolds == Typed /\ InDomain => CookiesStayInTheirDomain
<1> SUFFICES ASSUME Typed, InDomain, at = "reply", NoHosts, NEW s \in sent,
                    s.cookie.by # <<>>
             PROVE  /\ Covers(s.cookie.dom.at, s.cookie.by)
                    /\ Covers(s.cookie.dom.at, url.host)
  BY DEF CookiesStayInTheirDomain, NoHosts, Nowhere
<1>1. s.cookie \in Homely /\ Fits(s.cookie, url.host, url.path)
  BY DEF InDomain
<1>2. s.cookie \in Cookie /\ url.host \in Labels
  BY <1>1 DEF Homely, Typed, InCall, UrlSpace
<1> QED
  BY <1>1, <1>2, FitsInDomain DEF Homely

(* No server is sent a cookie that a server outside the cookie's domain    *)
(* has set, when no Host header is given: whatever the redirects, the      *)
(* retries, the cookie files and the URLs.                                 *)
THEOREM CookiesStayInTheirDomainHolds == Spec => []CookiesStayInTheirDomain
<1>1. Init => Typed /\ InDomain
  BY InitTyped, InitInDomain
<1>2. Typed /\ InDomain /\ [Next]_vars => Typed' /\ InDomain'
  BY NextTyped, InDomainStep
<1> QED
  BY <1>1, <1>2, InDomainHolds, PTL DEF Spec

----------------------------------------------------------------------------
(* The last word of a reply.  main() takes the headers one by one; what    *)
(* its list holds then is old and not mentioned, or what the last header   *)
(* on that key sets.                                                       *)
Accepts(headers, u, host) == {k \in DOMAIN headers : Accepted(headers[k], u, host)}

Run(f, list, headers, u, host, t) ==
  /\ f \in [0..Len(headers) -> Lists(Cookie)] /\ f[0] = list
  /\ \A i \in 1..Len(headers) : f[i] = Taken(f[i - 1], headers[i], u, host, t, "never")
  /\ Absorbed(list, headers, u, host, t, "never") = f[Len(headers)]

Parses(headers, u, host, t) ==
  \A k \in Accepts(headers, u, host) : Parsed(headers[k], u, host, t) \in Cookie

LEMMA Runs ==
  ASSUME NEW list \in Lists(Cookie), NEW headers \in Seq(SetCookieSpace),
         NEW u \in UrlSpace, NEW host \in Labels, NEW t \in Nat
  PROVE  /\ \E f : Run(f, list, headers, u, host, t)
         /\ Parses(headers, u, host, t)
<1>1. \A sc \in SetCookieSpace :
        Accepted(sc, u, host) => Parsed(sc, u, host, t) \in Cookie
  BY ParsedFacts
<1>2. AbsorbedInSteps(Lists(Cookie), list, headers, u, host, t, "never")
  BY <1>1, TakenIsList, AbsorbedSteps
<1>3. \E f : Run(f, list, headers, u, host, t)
  BY <1>2 DEF AbsorbedInSteps, Run
<1>4. \A k \in DOMAIN headers : headers[k] \in SetCookieSpace
  BY Elements
<1>5. Parses(headers, u, host, t)
  BY <1>1, <1>4 DEF Parses, Accepts
<1> QED
  BY <1>3, <1>5

\* One header of the run.
OneHeader(f, headers, u, host, t, i) ==
  LET c == Parsed(headers[i], u, host, t)
  IN  /\ i - 1 \in 0..Len(headers) /\ f[i - 1] \in Lists(Cookie)
      /\ i \notin Accepts(headers, u, host) => f[i] = f[i - 1]
      /\ i \in Accepts(headers, u, host) =>
           ToSet(f[i]) = {d \in ToSet(f[i - 1]) : ~SameKey(c, d)}
                           \union (IF ~Expired(c, t) /\ Room(f[i - 1], c) THEN {c} ELSE {})

LEMMA RunStep ==
  ASSUME NEW headers \in Seq(SetCookieSpace), NEW u, NEW host, NEW t, NEW list, NEW f,
         Run(f, list, headers, u, host, t), Parses(headers, u, host, t),
         NEW i \in 1..Len(headers)
  PROVE  OneHeader(f, headers, u, host, t, i)
<1> DEFINE c == Parsed(headers[i], u, host, t)
           A == Accepts(headers, u, host)
<1>1. Len(headers) \in Nat /\ DOMAIN headers = 1..Len(headers)
  BY LenProperties
<1>2. i - 1 \in 0..Len(headers) /\ f[i - 1] \in Lists(Cookie)
  BY <1>1 DEF Run
<1>3. i \in A <=> Accepted(headers[i], u, host)
  BY <1>1 DEF Accepts
<1>4. f[i] = Taken(f[i - 1], headers[i], u, host, t, "never")
  BY DEF Run
<1>5. ~Refused("never", f[i - 1], c)
  BY DEF Refused
<1>6. f[i] = IF i \in A THEN Store(f[i - 1], c, t) ELSE f[i - 1]
  <2> HIDE DEF c
  <2>1. Taken(f[i - 1], headers[i], u, host, t, "never") =
          IF \/ ~Accepted(headers[i], u, host)
             \/ ~u.https /\ ~c.secure /\ Refused("never", f[i - 1], c)
          THEN f[i - 1] ELSE Store(f[i - 1], c, t)
    BY DEF Taken, c
  <2> HIDE DEF A
  <2> QED
    BY <1>3, <1>4, <1>5, <2>1
<1>7. ASSUME i \in A
      PROVE  ToSet(Store(f[i - 1], c, t)) =
               {d \in ToSet(f[i - 1]) : ~SameKey(c, d)}
                 \union (IF ~Expired(c, t) /\ Room(f[i - 1], c) THEN {c} ELSE {})
  <2>1. c \in Cookie /\ f[i - 1] \in Seq(Cookie)
    BY <1>2, <1>7 DEF Parses, Lists
  <2> HIDE DEF c
  <2> QED
    BY <2>1, StoreFacts
<1> QED
  BY <1>2, <1>6, <1>7 DEF OneHeader

OldOrLast(list, after, headers, u, host, t) ==
  \A d \in ToSet(after) :
    \/ /\ d \in ToSet(list)
       /\ \A k \in Accepts(headers, u, host) : ~SameKey(Parsed(headers[k], u, host, t), d)
    \/ \E k \in Accepts(headers, u, host) :
         /\ d = Parsed(headers[k], u, host, t)
         /\ ~Expired(d, t)
         /\ \A j \in Accepts(headers, u, host) :
              j > k => ~SameKey(Parsed(headers[j], u, host, t), d)

LEMMA LastWord ==
  ASSUME NEW list \in Lists(Cookie), NEW headers \in Seq(SetCookieSpace),
         NEW u \in UrlSpace, NEW host \in Labels, NEW t \in Nat
  PROVE  OldOrLast(list, Absorbed(list, headers, u, host, t, "never"),
                   headers, u, host, t)
<1> DEFINE m == Len(headers)
           A == Accepts(headers, u, host)
           P(k) == Parsed(headers[k], u, host, t)
<1>1. PICK f : Run(f, list, headers, u, host, t)
  BY Runs
<1>2. Parses(headers, u, host, t)
  BY Runs
<1>3. m \in Nat /\ A \subseteq 1..m
  BY LenProperties DEF Accepts
<1>4. \A i \in 1..m :
        /\ i \notin A => f[i] = f[i - 1]
        /\ i \in A => \A d \in ToSet(f[i]) :
             \/ d \in ToSet(f[i - 1]) /\ ~SameKey(P(i), d)
             \/ d = P(i) /\ ~Expired(P(i), t)
  <2> TAKE i \in 1..m
  <2>1. /\ i \notin A => f[i] = f[i - 1]
        /\ i \in A =>
             ToSet(f[i]) =
               {d \in ToSet(f[i - 1]) : ~SameKey(P(i), d)}
                 \union (IF ~Expired(P(i), t) /\ Room(f[i - 1], P(i)) THEN {P(i)} ELSE {})
    <3>1. OneHeader(f, headers, u, host, t, i)
      BY <1>1, <1>2, RunStep
    <3> QED
      BY <3>1 DEF OneHeader
  <2> HIDE DEF A, P
  <2> QED
    BY <2>1
<1>5. f[0] = list
  BY <1>1 DEF Run
<1> HIDE DEF m, A, P
<1> DEFINE Good(i, d) ==
             \/ d \in ToSet(list) /\ \A k \in A : k <= i => ~SameKey(P(k), d)
             \/ \E k \in A : /\ k <= i /\ d = P(k) /\ ~Expired(d, t)
                             /\ \A j \in A : j > k /\ j <= i => ~SameKey(P(j), d)
           G == {i \in 0..m : \A d \in ToSet(f[i]) : Good(i, d)}
<1>6. 0 \in G
  BY <1>3, <1>5
<1>7. ASSUME NEW i \in 1..m, i - 1 \in G
      PROVE  i \in G
  <2>0. i \in Nat /\ i - 1 \in Nat /\ (\A k \in A : k \in Nat) /\ i \in 0..m
    BY <1>3
  <2>1. SUFFICES ASSUME NEW d \in ToSet(f[i]) PROVE Good(i, d)
    BY <2>0
  <2>2. \A e \in ToSet(f[i - 1]) : Good(i - 1, e)
    BY <1>7
  <2>3. CASE i \notin A
    <3>1. Good(i - 1, d)
      BY <1>4, <2>1, <2>2, <2>3
    <3>2. \A k \in A : k <= i => k <= i - 1
      BY <2>0, <2>3
    <3>3. \A k \in A : k <= i - 1 => k <= i
      BY <2>0
    <3> QED
      BY <3>1, <3>2, <3>3
  <2>4. CASE i \in A /\ d = P(i) /\ ~Expired(P(i), t)
    <3>1. \A j \in A : ~(j > i /\ j <= i)
      BY <2>0
    <3>2. i <= i
      BY <2>0
    <3> QED
      BY <2>4, <3>1, <3>2
  <2>5. CASE i \in A /\ d \in ToSet(f[i - 1]) /\ ~SameKey(P(i), d)
    <3>1. Good(i - 1, d)
      BY <2>2, <2>5
    <3>2. \A k \in A : k <= i => k <= i - 1 \/ k = i
      BY <2>0
    <3>3. \A k \in A : k <= i - 1 => k <= i
      BY <2>0
    <3> QED
      BY <2>5, <3>1, <3>2, <3>3
  <2> QED
    BY <1>4, <2>1, <2>3, <2>4, <2>5
<1> HIDE DEF G
<1>8. \A i \in 0..m : i \in G
  BY <1>3, <1>6, <1>7, StepByStep
<1>9. \A d \in ToSet(f[m]) : Good(m, d)
  <2>1. m \in G
    BY <1>3, <1>8
  <2> QED
    BY <2>1 DEF G
<1>10. \A k \in A : k <= m
  BY <1>3
<1>11. \A d \in ToSet(f[m]) :
         \/ d \in ToSet(list) /\ \A k \in A : ~SameKey(P(k), d)
         \/ \E k \in A : /\ d = P(k) /\ ~Expired(d, t)
                         /\ \A j \in A : j > k => ~SameKey(P(j), d)
  BY <1>9, <1>10
<1>12. Absorbed(list, headers, u, host, t, "never") = f[m]
  BY <1>1 DEF Run, m
<1> QED
  BY <1>11, <1>12 DEF OldOrLast, A, P

(* What is in the list, and no later header is about it, stays there.      *)
LEMMA StaysInRun ==
  ASSUME NEW headers \in Seq(SetCookieSpace), NEW u, NEW host, NEW t, NEW list, NEW f,
         Run(f, list, headers, u, host, t), Parses(headers, u, host, t),
         NEW k \in 0..Len(headers), NEW c \in ToSet(f[k]),
         \A j \in Accepts(headers, u, host) :
           j > k => ~SameKey(Parsed(headers[j], u, host, t), c)
  PROVE  c \in ToSet(Absorbed(list, headers, u, host, t, "never"))
<1> DEFINE m == Len(headers)
           A == Accepts(headers, u, host)
           P(j) == Parsed(headers[j], u, host, t)
           G == {i \in 0..m : i >= k => c \in ToSet(f[i])}
<1>1. m \in Nat /\ k \in Nat
  BY LenProperties
<1>2. \A i \in 1..m : i > k /\ c \in ToSet(f[i - 1]) => c \in ToSet(f[i])
  <2> TAKE i \in 1..m
  <2>1. /\ i \notin A => f[i] = f[i - 1]
        /\ i \in A =>
             ToSet(f[i]) =
               {d \in ToSet(f[i - 1]) : ~SameKey(P(i), d)}
                 \union (IF ~Expired(P(i), t) /\ Room(f[i - 1], P(i)) THEN {P(i)} ELSE {})
    <3>1. OneHeader(f, headers, u, host, t, i)
      BY RunStep
    <3> QED
      BY <3>1 DEF OneHeader
  <2>2. i \in A /\ i > k => ~SameKey(P(i), c)
    OBVIOUS
  <2> HIDE DEF A, P
  <2> QED
    BY <2>1, <2>2
<1> HIDE DEF m, A, P
<1>3. 0 \in G
  BY <1>1
<1>4. \A i \in 1..m : i - 1 \in G => i \in G
  <2> TAKE i \in 1..m
  <2>1. i \in Nat /\ i - 1 \in Nat /\ i \in 0..m
    BY <1>1
  <2>2. CASE i > k
    BY <1>2, <2>1, <2>2, <1>1
  <2>3. CASE i = k
    BY <2>1, <2>3
  <2>4. CASE i < k
    BY <1>1, <2>1, <2>4
  <2> QED
    BY <1>1, <2>1, <2>2, <2>3, <2>4
<1> HIDE DEF G
<1>5. \A i \in 0..m : i \in G
  BY <1>1, <1>3, <1>4, StepByStep
<1>6. c \in ToSet(f[m])
  <2>1. m \in G /\ m >= k
    BY <1>1, <1>5 DEF m
  <2> QED
    BY <2>1 DEF G
<1> QED
  BY <1>6 DEF Run, m

(* What the last header on its key sets is there, unless its domain was at *)
(* the limit when it was set.                                              *)
LEMMA TakenUnlessFull ==
  ASSUME NEW list \in Lists(Cookie), NEW headers \in Seq(SetCookieSpace),
         NEW u \in UrlSpace, NEW host \in Labels, NEW t \in Nat,
         NEW k \in Accepts(headers, u, host),
         ~Expired(Parsed(headers[k], u, host, t), t),
         \A j \in Accepts(headers, u, host) :
           j > k => ~SameKey(Parsed(headers[j], u, host, t), Parsed(headers[k], u, host, t))
  PROVE  \/ Parsed(headers[k], u, host, t)
              \in ToSet(Absorbed(list, headers, u, host, t, "never"))
         \/ \E i \in 0..Len(headers) :
              Parsed(headers[k], u, host, t).dom
                \in AtLimit(Absorbed(list, SubSeq(headers, 1, i), u, host, t, "never"))
<1> DEFINE c == Parsed(headers[k], u, host, t)
<1>1. PICK f : Run(f, list, headers, u, host, t)
  BY Runs
<1>2. Parses(headers, u, host, t)
  BY Runs
<1>3. k \in 1..Len(headers) /\ Len(headers) \in Nat
  BY LenProperties DEF Accepts
<1>4. /\ k - 1 \in 0..Len(headers) /\ f[k - 1] \in Lists(Cookie)
      /\ Room(f[k - 1], c) => c \in ToSet(f[k])
  <2>1. /\ k - 1 \in 0..Len(headers) /\ f[k - 1] \in Lists(Cookie)
        /\ ToSet(f[k]) =
             {d \in ToSet(f[k - 1]) : ~SameKey(c, d)}
               \union (IF ~Expired(c, t) /\ Room(f[k - 1], c) THEN {c} ELSE {})
    <3>1. OneHeader(f, headers, u, host, t, k)
      BY <1>1, <1>2, <1>3, RunStep
    <3> QED
      BY <3>1 DEF OneHeader
  <2> HIDE DEF c
  <2> QED
    BY <2>1 DEF c
<1>5. CASE Room(f[k - 1], c)
  <2>1. k \in 0..Len(headers) /\ c \in ToSet(f[k])
    BY <1>3, <1>4, <1>5
  <2>2. c \in ToSet(Absorbed(list, headers, u, host, t, "never"))
    BY <1>1, <1>2, <2>1, StaysInRun
  <2> QED
    BY <2>2
<1>6. CASE ~Room(f[k - 1], c)
  <2> DEFINE l == f[k - 1]
             w == Without(l, c)
  <2>1. l \in Seq(Cookie) /\ Len(headers) \in Nat
    BY <1>3, <1>4 DEF Lists
  <2> HIDE DEF c, l
  <2>2. w \in Seq(Cookie) /\ ToSet(w) \subseteq ToSet(l)
    BY <2>1, WithoutFacts
  <2> HIDE DEF w
  <2>3. /\ CountIn(w, c.dom) \in Nat /\ CountIn(l, c.dom) \in Nat
        /\ CountIn(w, c.dom) <= CountIn(l, c.dom)
    BY <2>1, <2>2, Counts
  <2>4. MaxPerDomain \in Nat /\ MaxPerDomain > 0
    BY CookiesAssumption
  <2>5. ~(CountIn(w, c.dom) < MaxPerDomain)
    BY <1>6 DEF Room, w, l
  <2>6. CountIn(l, c.dom) >= MaxPerDomain /\ CountIn(l, c.dom) # 0
    BY <2>3, <2>4, <2>5
  <2>7. {d \in ToSet(l) : d.dom = c.dom} # {}
    BY <2>6, FS_EmptySet DEF CountIn
  <2>8. PICK d \in ToSet(l) : d.dom = c.dom
    BY <2>7
  <2>9. c.dom \in AtLimit(l)
    BY <2>6, <2>8 DEF AtLimit
  <2>10. Absorbed(list, SubSeq(headers, 1, k - 1), u, host, t, "never") = l
    <3>1. Closed(Lists(Cookie), SetCookieSpace, u, host, t, "never")
      BY ParsedFacts, TakenIsList DEF Closed
    <3>2. Follows(f, list, headers, u, host, t, "never")
      BY <1>1 DEF Run, Follows
    <3>3. Absorbed(list, SubSeq(headers, 1, k - 1), u, host, t, "never") = f[k - 1]
      BY <1>4, <3>1, <3>2, AbsorbedPrefix
    <3> QED
      BY <3>3 DEF l
  <2>11. c.dom \in AtLimit(Absorbed(list, SubSeq(headers, 1, k - 1), u, host, t, "never"))
    BY <2>9, <2>10
  <2> QED
    BY <1>4, <2>11 DEF c
<1> QED
  BY <1>5, <1>6

LEMMA KeptUnlessMentioned ==
  ASSUME NEW list \in Lists(Cookie), NEW headers \in Seq(SetCookieSpace),
         NEW u \in UrlSpace, NEW host \in Labels, NEW t \in Nat,
         NEW c \in ToSet(list),
         \A j \in Accepts(headers, u, host) : ~SameKey(Parsed(headers[j], u, host, t), c)
  PROVE  c \in ToSet(Absorbed(list, headers, u, host, t, "never"))
<1>1. PICK f : Run(f, list, headers, u, host, t)
  BY Runs
<1>2. Parses(headers, u, host, t)
  BY Runs
<1>3. 0 \in 0..Len(headers) /\ c \in ToSet(f[0])
  BY <1>1, LenProperties DEF Run
<1> QED
  BY <1>1, <1>2, <1>3, StaysInRun

----------------------------------------------------------------------------
(* The cookies a final reply names, by the last header on each key.        *)
IsName(d, headers, u, host, t) ==
  \E k \in Accepts(headers, u, host) :
    /\ d = Parsed(headers[k], u, host, t)
    /\ \A j \in Accepts(headers, u, host) :
         j > k => ~SameKey(Parsed(headers[j], u, host, t), d)

LEMMA NamesAre ==
  ASSUME NEW r, NEW d
  PROVE  d \in Names(r) <=> IsName(d, r.cookies, url, Logical(url, MainHost), now)
<1> DEFINE main == Logical(url, MainHost)
           A == Accepts(r.cookies, url, main)
           c == [i \in DOMAIN r.cookies |-> Parsed(r.cookies[i], url, main, now)]
           in == {i \in DOMAIN c : Accepted(r.cookies[i], url, main)}
<1>1. in = A /\ \A i \in A : c[i] = Parsed(r.cookies[i], url, main, now)
  BY DEF Accepts
<1>2. Names(r) = {c[i] : i \in {k \in in : \A j \in in : j > k => ~SameKey(c[j], c[k])}}
  BY DEF Names
<1>3. d \in Names(r) <=>
        \E k \in in : d = c[k] /\ \A j \in in : j > k => ~SameKey(c[j], c[k])
  <2> HIDE DEF c, in
  <2> QED
    BY <1>2
<1>4. d \in Names(r) <=>
        \E k \in A : /\ d = Parsed(r.cookies[k], url, main, now)
                     /\ \A j \in A : j > k =>
                          ~SameKey(Parsed(r.cookies[j], url, main, now), d)
  <2> HIDE DEF c, in, A, main
  <2> QED
    BY <1>1, <1>3 DEF main
<1> QED
  BY <1>4 DEF IsName

LEMMA LastNamed ==
  ASSUME NEW headers \in Seq(SetCookieSpace), NEW u, NEW host, NEW t,
         NEW k \in Accepts(headers, u, host)
  PROVE  \E d : IsName(d, headers, u, host, t)
                /\ SameKey(Parsed(headers[k], u, host, t), d)
<1> DEFINE m == Len(headers)
           A == Accepts(headers, u, host)
           P(i) == Parsed(headers[i], u, host, t)
           S == {j \in A : SameKey(P(j), P(k))}
           g == Greatest(S)
<1>1. m \in Nat /\ A \subseteq 1..m
  BY LenProperties DEF Accepts
<1>2. S \subseteq 0..m /\ k \in S
  BY <1>1 DEF SameKey
<1>3. g \in S /\ \A i \in S : i <= g
  BY <1>1, <1>2, GreatestOf
<1> HIDE DEF g, m
<1>4. \A j \in A : j > g => ~SameKey(P(j), P(g))
  <2> SUFFICES ASSUME NEW j \in A, j > g, SameKey(P(j), P(g)) PROVE FALSE
    OBVIOUS
  <2>1. SameKey(P(g), P(k))
    BY <1>3
  <2>2. SameKey(P(j), P(k))
    BY <2>1 DEF SameKey
  <2>3. j <= g
    BY <1>3, <2>2
  <2> QED
    BY <1>1, <1>3, <2>3
<1>5. IsName(P(g), headers, u, host, t)
  BY <1>3, <1>4 DEF IsName
<1>6. SameKey(P(k), P(g))
  BY <1>3 DEF SameKey
<1> QED
  BY <1>5, <1>6

LEMMA OneName ==
  ASSUME NEW headers \in Seq(SetCookieSpace), NEW u, NEW host, NEW t,
         NEW d, NEW e, IsName(d, headers, u, host, t), IsName(e, headers, u, host, t),
         SameKey(d, e)
  PROVE  d = e
<1> DEFINE A == Accepts(headers, u, host)
           P(i) == Parsed(headers[i], u, host, t)
<1>1. Len(headers) \in Nat /\ A \subseteq 1..Len(headers)
  BY LenProperties DEF Accepts
<1> HIDE DEF A, P
<1>2. PICK k \in A : d = P(k) /\ \A j \in A : j > k => ~SameKey(P(j), d)
  BY DEF IsName, A, P
<1>3. PICK i \in A : e = P(i) /\ \A j \in A : j > i => ~SameKey(P(j), e)
  BY DEF IsName, A, P
<1>4. ~(i > k) /\ ~(k > i)
  BY <1>2, <1>3 DEF SameKey
<1>5. i = k
  BY <1>1, <1>4
<1> QED
  BY <1>2, <1>3, <1>5

----------------------------------------------------------------------------
(* The bookkeeping.  The first request of a call is made with what main()  *)
(* remembers; a key that is gone is in no list and among the deletions;    *)
(* what is owed is in memory, or its domain has been at the limit.         *)
DeletionOf(k) == [at |-> k.dom.at, path |-> Trimmed(k.path), name |-> k.name]
Answering ==
  at = "reply" =>
    sent = Carried(file, mem, deleted, Logical(url, custom), url.path,
                   url.https \/ IsLoopback(Logical(url, custom)), opts.junk, now)
Fresh == InCall /\ FirstOfCall => mem = memory
Forgotten ==
  opts.engine =>
    \A k \in gone : DeletionOf(k) \in deleted /\ \A c \in ToSet(memory) : Key(c) # k
Remembered == opts.engine => \A c \in owed : c \in ToSet(memory) \/ c.dom \in full
Kept == Answering /\ Fresh /\ Forgotten /\ Remembered

LEMMA KeysAgree ==
  ASSUME NEW c, NEW d
  PROVE  /\ SameKey(c, d) <=> Key(c) = Key(d)
         /\ DeletionOf(Key(c)) = DeletionKey(c)
BY DEF SameKey, Key, DeletionOf, DeletionKey

\* What a final reply does to the memory, the deletions and the two histories.
FinalFacts(r) ==
  /\ \A c \in ToSet(memory') :
       \/ c \in ToSet(memory) /\ \A d \in Names(r) : ~SameKey(c, d)
       \/ c \in Names(r) /\ ~Expired(c, now)
  /\ \A d \in Names(r) : Expired(d, now) => DeletionKey(d) \in deleted'
  /\ deleted \subseteq deleted'
  /\ \A c \in ToSet(memory) :
       (\A d \in Names(r) : ~SameKey(c, d)) => c \in ToSet(memory')
  /\ \A d \in Names(r) : ~Expired(d, now) => d \in ToSet(memory') \/ d.dom \in full'
  /\ full \subseteq full'
  /\ \A d, e \in Names(r) : SameKey(d, e) => d = e

FinalOf(r) ==
  /\ memory' = Absorbed(memory, r.cookies, url, Logical(url, MainHost), now, "never")
  /\ deleted' = deleted \union
                  Deletions(r.cookies, url, Logical(url, MainHost), now)
  /\ full' = full \union
       UNION {AtLimit(Absorbed(memory, SubSeq(r.cookies, 1, i), url,
                               Logical(url, MainHost), now, "never")) :
                i \in 0..Len(r.cookies)}

LEMMA FinalFactsHold ==
  ASSUME Typed, InCall, NEW r \in Replies, FinalOf(r)
  PROVE  FinalFacts(r)
<1> DEFINE host == Logical(url, MainHost)
           hs == r.cookies
           A == Accepts(hs, url, host)
           P(i) == Parsed(hs[i], url, host, now)
           limit(i) == AtLimit(Absorbed(memory, SubSeq(hs, 1, i), url, host, now, "never"))
<1>1. /\ url \in UrlSpace /\ host \in Labels /\ hs \in Seq(SetCookieSpace)
      /\ now \in Nat /\ now > 1 /\ memory \in Lists(Cookie)
  <2>1. MainHost \in Labels \union {None} /\ url \in UrlSpace
    BY MainHostIsHost DEF Typed
  <2> QED
    BY <2>1, LogicalIsHost, ReplyFacts DEF Typed, StartTime, MaxTime, Lifetime
<1>2. /\ memory' = Absorbed(memory, hs, url, host, now, "never")
      /\ deleted' = deleted \union Deletions(hs, url, host, now)
      /\ full' = full \union UNION {limit(i) : i \in 0..Len(hs)}
  BY DEF FinalOf
<1>3. \A d : d \in Names(r) <=> IsName(d, hs, url, host, now)
  BY NamesAre
<1> HIDE DEF host, hs, limit
<1>4. OldOrLast(memory, memory', hs, url, host, now)
  BY <1>1, <1>2, LastWord
<1>5. \A d \in Names(r) : \E k \in A :
        d = P(k) /\ \A j \in A : j > k => ~SameKey(P(j), d)
  BY <1>3 DEF IsName
<1>6. \A k \in A : \A d : d = P(k) /\ (\A j \in A : j > k => ~SameKey(P(j), d)) => d \in Names(r)
  BY <1>3 DEF IsName
<1>7. \A k \in A : \E d \in Names(r) : SameKey(P(k), d)
  BY <1>1, <1>3, LastNamed
<1>8. \A k \in A : hs[k] \in SetCookieSpace /\ hs[k] \in ToSet(hs) /\ Accepted(hs[k], url, host)
  BY <1>1, Elements DEF Accepts
<1>9. \A c \in ToSet(memory') :
        \/ c \in ToSet(memory) /\ \A k \in A : ~SameKey(P(k), c)
        \/ \E k \in A : /\ c = P(k) /\ ~Expired(c, now)
                        /\ \A j \in A : j > k => ~SameKey(P(j), c)
  BY <1>4 DEF OldOrLast
<1> HIDE DEF A
<1>10. \A c \in ToSet(memory') :
         \/ c \in ToSet(memory) /\ \A d \in Names(r) : ~SameKey(c, d)
         \/ c \in Names(r) /\ ~Expired(c, now)
  <2> TAKE c \in ToSet(memory')
  <2>1. CASE c \in ToSet(memory) /\ \A k \in A : ~SameKey(P(k), c)
    <3>1. ASSUME NEW d \in Names(r) PROVE ~SameKey(c, d)
      <4>1. PICK k \in A : d = P(k)
        BY <1>5
      <4> QED
        BY <2>1, <4>1 DEF SameKey
    <3> QED
      BY <2>1, <3>1
  <2>2. CASE \E k \in A : /\ c = P(k) /\ ~Expired(c, now)
                         /\ \A j \in A : j > k => ~SameKey(P(j), c)
    <3> HIDE DEF P
    <3> QED
      BY <1>6, <2>2
  <2> QED
    BY <1>9, <2>1, <2>2
<1>11. \A d \in Names(r) : Expired(d, now) => DeletionKey(d) \in deleted'
  <2> SUFFICES ASSUME NEW d \in Names(r), Expired(d, now)
               PROVE  DeletionKey(d) \in deleted'
    OBVIOUS
  <2>1. PICK k \in A : d = P(k)
    BY <1>5
  <2>2. hs[k].age = "gone"
    BY <1>1, <1>8, <2>1, ParsedFacts
  <2>3. DeletionKey(P(k)) \in Deletions(hs, url, host, now)
    BY <1>8, <2>2 DEF Deletions
  <2> QED
    BY <1>2, <2>1, <2>3
<1>12. \A c \in ToSet(memory) :
         (\A d \in Names(r) : ~SameKey(c, d)) => c \in ToSet(memory')
  <2> SUFFICES ASSUME NEW c \in ToSet(memory), \A d \in Names(r) : ~SameKey(c, d)
               PROVE  c \in ToSet(memory')
    OBVIOUS
  <2>1. ASSUME NEW k \in A PROVE ~SameKey(P(k), c)
    <3>1. PICK d \in Names(r) : SameKey(P(k), d)
      BY <1>7
    <3>2. ~SameKey(c, d)
      OBVIOUS
    <3> QED
      BY <3>1, <3>2 DEF SameKey
  <2> QED
    BY <1>1, <1>2, <2>1, KeptUnlessMentioned DEF A
<1>13. \A d \in Names(r) : ~Expired(d, now) => d \in ToSet(memory') \/ d.dom \in full'
  <2> SUFFICES ASSUME NEW d \in Names(r), ~Expired(d, now)
               PROVE  d \in ToSet(memory') \/ d.dom \in full'
    OBVIOUS
  <2>1. PICK k \in A : d = P(k) /\ \A j \in A : j > k => ~SameKey(P(j), d)
    BY <1>5
  <2>2. \/ P(k) \in ToSet(Absorbed(memory, hs, url, host, now, "never"))
        \/ \E i \in 0..Len(hs) : P(k).dom \in limit(i)
    BY <1>1, <2>1, TakenUnlessFull DEF A, limit
  <2> HIDE DEF P
  <2> QED
    BY <1>2, <2>1, <2>2
<1>14. \A d, e \in Names(r) : SameKey(d, e) => d = e
  BY <1>1, <1>3, OneName
<1> QED
  BY <1>2, <1>10, <1>11, <1>12, <1>13, <1>14 DEF FinalFacts

LEMMA FinalKeeps ==
  ASSUME Typed, Forgotten, Remembered, Final
  PROVE  Forgotten' /\ Remembered'
<1>1. PICK r \in Replies :
        /\ memory' = IF opts.engine
                     THEN Absorbed(memory, r.cookies, url,
                                   Logical(url, MainHost), now, "never")
                     ELSE memory
        /\ deleted' = IF opts.engine
                      THEN deleted \union
                             Deletions(r.cookies, url, Logical(url, MainHost), now)
                      ELSE deleted
        /\ owed' = {c \in owed : \A d \in Names(r) : ~SameKey(c, d)}
                     \union {d \in Names(r) : ~Expired(d, now)}
        /\ gone' = (gone \ {Key(d) : d \in Names(r)})
                     \union {Key(d) : d \in {e \in Names(r) : Expired(e, now)}}
        /\ full' = full \union
             UNION {AtLimit(Absorbed(memory, SubSeq(r.cookies, 1, i), url,
                                     Logical(url, MainHost), now, "never")) :
                      i \in 0..Len(r.cookies)}
  BY DEF Final
<1>2. UNCHANGED opts
  BY DEF Final
<1> SUFFICES ASSUME opts.engine PROVE Forgotten' /\ Remembered'
  BY <1>2 DEF Forgotten, Remembered
<1>3. FinalFacts(r)
  <2>1. InCall
    BY DEF Final, InCall
  <2>2. FinalOf(r)
    BY <1>1 DEF FinalOf
  <2> QED
    BY <2>1, <2>2, FinalFactsHold
<1>4. Forgotten'
  <2>1. SUFFICES ASSUME NEW k \in gone'
        PROVE  DeletionOf(k) \in deleted' /\ \A c \in ToSet(memory') : Key(c) # k
    BY DEF Forgotten
  <2>2. \/ k \in gone /\ \A d \in Names(r) : k # Key(d)
        \/ \E d \in Names(r) : Expired(d, now) /\ k = Key(d)
    BY <1>1
  <2>3. CASE k \in gone /\ \A d \in Names(r) : k # Key(d)
    <3>1. DeletionOf(k) \in deleted /\ \A c \in ToSet(memory) : Key(c) # k
      BY <2>3 DEF Forgotten
    <3> QED
      BY <1>3, <2>3, <3>1 DEF FinalFacts
  <2>4. CASE \E d \in Names(r) : Expired(d, now) /\ k = Key(d)
    <3>1. PICK d \in Names(r) : Expired(d, now) /\ k = Key(d)
      BY <2>4
    <3>2. DeletionOf(k) \in deleted'
      BY <1>3, <3>1, KeysAgree DEF FinalFacts
    <3>3. ASSUME NEW c \in ToSet(memory'), Key(c) = k PROVE FALSE
      <4>1. SameKey(c, d) /\ SameKey(d, c)
        BY <3>1, <3>3, KeysAgree
      <4> QED
        BY <1>3, <3>1, <4>1 DEF FinalFacts
    <3> QED
      BY <3>2, <3>3
  <2> QED
    BY <2>2, <2>3, <2>4
<1>5. Remembered'
  <2>1. SUFFICES ASSUME NEW c \in owed' PROVE c \in ToSet(memory') \/ c.dom \in full'
    BY DEF Remembered
  <2>2. CASE c \in owed /\ \A d \in Names(r) : ~SameKey(c, d)
    BY <1>3, <2>2 DEF FinalFacts, Remembered
  <2>3. CASE c \in Names(r) /\ ~Expired(c, now)
    BY <1>3, <2>3 DEF FinalFacts
  <2> QED
    BY <1>1, <2>1, <2>2, <2>3
<1> QED
  BY <1>4, <1>5

LEMMA KeptStep == Typed /\ Kept /\ [Next]_vars => Kept'
<1> SUFFICES ASSUME Typed, Kept, [Next]_vars PROVE Kept'
  OBVIOUS
<1>0. Answering /\ Fresh /\ Forgotten /\ Remembered
  BY DEF Kept
<1>1. CASE NextUrl
  <2>1. Forgotten' /\ Remembered'
    BY <1>0, <1>1 DEF NextUrl, mainvars, Forgotten, Remembered
  <2>2. Answering' /\ Fresh'
    BY <1>1 DEF NextUrl, mainvars, Answering, Fresh
  <2> QED
    BY <2>1, <2>2 DEF Kept
<1>2. CASE Request
  <2>1. Forgotten' /\ Remembered'
    BY <1>0, <1>2 DEF Request, mainvars, Forgotten, Remembered
  <2>2. Fresh'
    BY <1>0, <1>2 DEF Request, mainvars, callvars, Fresh, InCall, FirstOfCall
  <2>3. Answering'
    BY <1>2 DEF Request, mainvars, callvars, Answering, Logical
  <2> QED
    BY <2>1, <2>2, <2>3 DEF Kept
<1>3. CASE Retry
  <2>1. Forgotten' /\ Remembered'
    BY <1>0, <1>3 DEF Retry, mainvars, Forgotten, Remembered
  <2>2. Answering' /\ Fresh'
    BY <1>3 DEF Retry, Answering, Fresh, FirstOfCall
  <2> QED
    BY <2>1, <2>2 DEF Kept
<1>4. CASE Redirect
  <2>1. Forgotten' /\ Remembered'
    BY <1>0, <1>4 DEF Redirect, mainvars, Forgotten, Remembered
  <2>2. Answering' /\ Fresh'
    <3>1. redirects' # 0
      BY <1>4 DEF Redirect, Typed
    <3> QED
      BY <1>4, <3>1 DEF Redirect, Answering, Fresh, FirstOfCall
  <2> QED
    BY <2>1, <2>2 DEF Kept
<1>5. CASE Final
  <2>1. Forgotten' /\ Remembered'
    BY <1>0, <1>5, FinalKeeps
  <2>2. Answering' /\ Fresh'
    BY <1>5 DEF Final, CallOver, Answering, Fresh, InCall
  <2> QED
    BY <2>1, <2>2 DEF Kept
<1>6. CASE Fail
  <2>1. Forgotten' /\ Remembered'
    BY <1>0, <1>6 DEF Fail, mainvars, Forgotten, Remembered
  <2>2. Answering' /\ Fresh'
    BY <1>6 DEF Fail, CallOver, Answering, Fresh, InCall
  <2> QED
    BY <2>1, <2>2 DEF Kept
<1>7. CASE Tick
  <2>1. Forgotten' /\ Remembered'
    BY <1>0, <1>7 DEF Tick, mainvars, Forgotten, Remembered
  <2>2. Answering' /\ Fresh'
    BY <1>7 DEF Tick, Answering, Fresh, InCall
  <2> QED
    BY <2>1, <2>2 DEF Kept
<1>8. CASE Finish
  <2>1. Forgotten' /\ Remembered'
    BY <1>0, <1>8 DEF Finish, Forgotten, Remembered
  <2>2. Answering' /\ Fresh'
    BY <1>8 DEF Finish, Answering, Fresh, InCall
  <2> QED
    BY <2>1, <2>2 DEF Kept
<1>9. CASE UNCHANGED vars
  <2>1. Forgotten' /\ Remembered'
    BY <1>0, <1>9 DEF vars, mainvars, Forgotten, Remembered
  <2>2. Fresh'
    BY <1>0, <1>9 DEF vars, mainvars, callvars, Fresh, InCall, FirstOfCall
  <2>3. Answering'
    BY <1>0, <1>9 DEF vars, mainvars, callvars, Answering, Logical
  <2> QED
    BY <2>1, <2>2, <2>3 DEF Kept
<1> QED
  BY <1>1, <1>2, <1>3, <1>4, <1>5, <1>6, <1>7, <1>8, <1>9 DEF Next

LEMMA InitKept == Init => Kept
BY DEF Init, Kept, Answering, Fresh, Forgotten, Remembered, InCall

LEMMA DeletedHolds == Typed /\ Kept => DeletedStaysDeleted
<1> SUFFICES ASSUME Typed, Kept, at = "reply", opts.engine,
                    NEW s \in sent, Key(s.cookie) \in gone
             PROVE  s.from = "memory" /\ ~FirstOfCall
  BY DEF DeletedStaysDeleted
<1>1. s \in Carried(file, mem, deleted, Logical(url, custom), url.path,
                   url.https \/ IsLoopback(Logical(url, custom)), opts.junk, now)
  BY DEF Kept, Answering
<1>2. file \in Seq(Cookie) /\ mem \in Seq(Cookie)
  BY DEF Typed, Lists
<1>3. \/ s.from = "file" /\ DeletionKey(s.cookie) \notin deleted
      \/ s.from = "memory" /\ s.cookie \in ToSet(mem)
  BY <1>1, <1>2, CarriedFrom
<1>4. /\ DeletionKey(s.cookie) \in deleted
      /\ \A c \in ToSet(memory) : Key(c) # Key(s.cookie)
  BY KeysAgree DEF Kept, Forgotten
<1>5. FirstOfCall => mem = memory
  BY DEF Kept, Fresh, InCall
<1> QED
  BY <1>3, <1>4, <1>5

LEMMA RememberedHolds == Typed /\ Kept => RememberedAcrossUrls
<1> DEFINE host == Logical(url, custom)
           sec == url.https \/ IsLoopback(host)
<1> SUFFICES ASSUME Typed, Kept, at = "reply", FirstOfCall, opts.engine,
                    NEW c \in owed, Usable(c, sec, opts.junk, now),
                    Fits(c, host, url.path), c.dom \notin full
             PROVE  \E s \in sent : s.cookie = c
  BY DEF RememberedAcrossUrls
<1>1. c \in ToSet(mem)
  BY DEF Kept, Fresh, InCall, Remembered
<1>2. sent = Carried(file, mem, deleted, host, url.path, sec, opts.junk, now)
  BY DEF Kept, Answering
<1> HIDE DEF host, sec
<1>3. [cookie |-> c, from |-> "memory"] \in sent
  BY <1>1, <1>2 DEF Carried
<1> QED
  BY <1>3

THEOREM SessionKept == Spec => [](Typed /\ Kept)
<1>1. Init => Typed /\ Kept
  BY InitTyped, InitKept
<1>2. Typed /\ Kept /\ [Next]_vars => Typed' /\ Kept'
  BY NextTyped, KeptStep
<1> QED
  BY <1>1, <1>2, PTL DEF Spec

(* A cookie that the final reply of an earlier URL deleted, and none has   *)
(* set since, is not sent again by the first request of a URL, nor ever    *)
(* from a file.                                                            *)
THEOREM DeletedStaysDeletedHolds == Spec => []DeletedStaysDeleted
BY SessionKept, DeletedHolds, PTL

(* What the final replies have set is sent with the first request of every *)
(* later URL it fits, unless its domain has been at the limit.             *)
THEOREM RememberedAcrossUrlsHolds == Spec => []RememberedAcrossUrls
BY SessionKept, RememberedHolds, PTL

----------------------------------------------------------------------------
(* The caches.                                                             *)
UpgradedHere ==
  InCall /\ redirects = 0 /\ url.text = "full" =>
    url.https \/ ~CoveredBy(opts.hsts, url.host)
HostsKept ==
  /\ at # "done" => \A e \in ToSet(opts.hsts) : \E d \in ToSet(hsts) : d.host = e.host
  /\ ~learned => hsts = opts.hsts
AltsKept ==
  /\ IsPrefix(opts.alts, alts)
  /\ \A i, j \in DOMAIN alts :
       alts[i] = alts[j] => i = j \/ {i, j} \subseteq DOMAIN opts.alts
HstsDone ==
  at = "done" =>
    \A e \in ToSet(opts.hsts) : \E d \in ToSet(hsts) : d.host = e.host /\ (learned \/ d = e)
Caches == UpgradedHere /\ HostsKept /\ AltsKept /\ HstsDone

LEMMA LearnHstsKeeps ==
  ASSUME url \in UrlSpace, hsts \in Seq(HstsEntry), NEW r \in Replies, TellsHsts(r),
         NEW h, \E d \in ToSet(hsts) : d.host = h
  PROVE  \E d \in ToSet(LearnHsts(hsts, r)) : d.host = h
<1> DEFINE e == [sub |-> r.sts.sub, host |-> url.host]
           same == {i \in DOMAIN hsts : hsts[i].host = url.host}
           new == LearnHsts(hsts, r)
<1>1. e \in HstsEntry /\ e.host = url.host
  BY ReplyFacts DEF UrlSpace, HstsEntry, TellsHsts
<1>2. /\ DOMAIN hsts = 1..Len(hsts) /\ Len(hsts) \in Nat
      /\ \A x \in ToSet(hsts) : \E i \in 1..Len(hsts) : x = hsts[i]
      /\ hsts \in [1..Len(hsts) -> HstsEntry]
  BY Elements, LenProperties
<1>3. new = IF same = {} THEN Append(hsts, e) ELSE [hsts EXCEPT ![Least(same)] = e]
  BY DEF LearnHsts
<1>4. same \subseteq Nat /\ same \subseteq 1..Len(hsts)
      /\ \A i \in same : hsts[i].host = url.host
  BY <1>2
<1>5. PICK d \in ToSet(hsts) : d.host = h
  OBVIOUS
<1> HIDE DEF e, same, new
<1>6. CASE same = {}
  <2>1. ToSet(Append(hsts, e)) = ToSet(hsts) \union {e}
    BY <1>1, AppendElements
  <2>2. d \in ToSet(new)
    BY <1>3, <1>5, <1>6, <2>1
  <2> QED
    BY <1>5, <2>2 DEF new
<1>7. CASE same # {}
  <2>1. Least(same) \in same
    BY <1>4, <1>7, LeastOf
  <2> DEFINE k == Least(same)
  <2>2. k \in 1..Len(hsts) /\ hsts[k].host = url.host /\ new = [hsts EXCEPT ![k] = e]
    BY <1>3, <1>4, <1>7, <2>1
  <2> HIDE DEF k
  <2>3. /\ DOMAIN new = 1..Len(hsts)
        /\ \A i \in 1..Len(hsts) : new[i] = IF i = k THEN e ELSE hsts[i]
    BY <1>2, <2>2
  <2>4. \A i \in 1..Len(hsts) : new[i].host = hsts[i].host
    BY <1>1, <2>2, <2>3
  <2>5. PICK i \in 1..Len(hsts) : d = hsts[i]
    BY <1>2, <1>5
  <2>6. new[i] \in ToSet(new) /\ new[i].host = h
    BY <1>5, <2>3, <2>4, <2>5 DEF ToSet
  <2> QED
    BY <2>6 DEF new
<1> QED
  BY <1>6, <1>7

LEMMA LearnAltKeeps ==
  ASSUME url \in UrlSpace, opts \in OptionSets, alts \in Seq(AltEntry), NEW r \in Replies,
         AltsKept, alts' = LearnAlt(alts, r), opts' = opts
  PROVE  AltsKept'
<1> DEFINE e == [host |-> url.host, alt |-> r.alt]
           m == Len(alts)
           p == Len(opts.alts)
<1>1. CASE alts' = alts
  BY <1>1 DEF AltsKept
<1>2. CASE alts' # alts
  <2>1. alts' = Append(alts, e) /\ e \notin ToSet(alts) /\ r.alt # None
    BY <1>2 DEF LearnAlt
  <2>2. e \in AltEntry
    BY <2>1, ReplyFacts DEF UrlSpace, AltEntry
  <2>3. /\ DOMAIN alts = 1..m /\ m \in Nat
        /\ \A i \in 1..m : alts[i] \in ToSet(alts)
    BY Elements
  <2>4. opts.alts \in Seq(AltEntry) /\ p \in Nat /\ DOMAIN opts.alts = 1..p
    BY OptionFacts, LenProperties
  <2>5. p <= m /\ SubSeq(opts.alts, 1, p) = SubSeq(alts, 1, p)
    BY DEF AltsKept, IsPrefix
  <2> HIDE DEF e
  <2>6. /\ alts' \in Seq(AltEntry) /\ Len(alts') = m + 1
        /\ \A i \in 1..m : alts'[i] = alts[i]
        /\ alts'[m + 1] = e
    BY <2>1, <2>2, AppendElements
  <2>7. DOMAIN alts' = 1..(m + 1)
    BY <2>6, LenProperties
  <2> HIDE DEF m, p
  <2>8. IsPrefix(opts.alts, alts')
    <3>1. SubSeq(alts', 1, p) = SubSeq(alts, 1, p)
      <4>1. \A i \in 1..p : alts'[i] = alts[i]
        BY <2>3, <2>4, <2>5, <2>6
      <4> QED
        BY <4>1, <2>4, SMT
    <3>2. p <= Len(alts')
      BY <2>3, <2>4, <2>5, <2>6
    <3> QED
      BY <2>5, <3>1, <3>2 DEF IsPrefix, p
  <2>9. ASSUME NEW i \in 1..(m + 1), NEW j \in 1..(m + 1), alts'[i] = alts'[j]
        PROVE  i = j \/ {i, j} \subseteq DOMAIN opts.alts
    <3>1. CASE i \in 1..m /\ j \in 1..m
      BY <2>3, <2>6, <2>9, <3>1 DEF AltsKept
    <3>2. CASE i = m + 1 /\ j \in 1..m
      BY <2>1, <2>3, <2>6, <2>9, <3>2
    <3>3. CASE j = m + 1 /\ i \in 1..m
      BY <2>1, <2>3, <2>6, <2>9, <3>3
    <3>4. CASE i = m + 1 /\ j = m + 1
      BY <3>4
    <3>5. \A q \in 1..(m + 1) : q \in 1..m \/ q = m + 1
      BY <2>3
    <3> QED
      BY <3>1, <3>2, <3>3, <3>4, <3>5
  <2> QED
    BY <2>7, <2>8, <2>9 DEF AltsKept
<1> QED
  BY <1>1, <1>2

LEMMA InitCaches == Init => Caches
<1> SUFFICES ASSUME Init PROVE Caches
  OBVIOUS
<1>1. opts.alts \in Seq(AltEntry)
  BY OptionFacts DEF Init
<1>2. IsPrefix(opts.alts, opts.alts)
  <2>1. Len(opts.alts) \in Nat
    BY <1>1, LenProperties
  <2> QED
    BY <1>1, <2>1 DEF IsPrefix
<1> QED
  BY <1>2 DEF Init, Caches, UpgradedHere, HostsKept, AltsKept, HstsDone, InCall

LEMMA CachesStep == Typed /\ Caches /\ [Next]_vars => Caches'
<1> SUFFICES ASSUME Typed, Caches, [Next]_vars PROVE Caches'
  OBVIOUS
<1>0. UpgradedHere /\ HostsKept /\ AltsKept /\ HstsDone
  BY DEF Caches
<1>1. CASE NextUrl
  <2>1. PICK u \in Urls : url' = Upgraded(u)
    BY <1>1 DEF NextUrl
  <2>2. /\ url'.host = u.host /\ url'.text = u.text
        /\ u.text = "full" =>
             url'.https = (u.https \/ CoveredBy(opts.hsts, u.host))
    <3>1. u \in UrlSpace
      BY SessionAssumption
    <3> QED
      BY <2>1, <3>1 DEF Upgraded, UrlSpace
  <2>3. UpgradedHere'
    BY <1>1, <2>2 DEF UpgradedHere, NextUrl, CoveredBy
  <2>4. HostsKept' /\ AltsKept' /\ HstsDone'
    BY <1>0, <1>1 DEF NextUrl, mainvars, HostsKept, AltsKept, HstsDone
  <2> QED
    BY <2>3, <2>4 DEF Caches
<1>2. CASE Request
  <2>1. UpgradedHere'
    BY <1>0, <1>2 DEF UpgradedHere, Request, callvars, InCall, CoveredBy
  <2>2. HostsKept' /\ AltsKept' /\ HstsDone'
    BY <1>0, <1>2 DEF Request, mainvars, HostsKept, AltsKept, HstsDone
  <2> QED
    BY <2>1, <2>2 DEF Caches
<1>3. CASE Retry
  <2>1. UpgradedHere'
    BY <1>0, <1>3 DEF UpgradedHere, Retry, InCall, CoveredBy
  <2>2. HostsKept' /\ AltsKept' /\ HstsDone'
    BY <1>0, <1>3 DEF Retry, mainvars, HostsKept, AltsKept, HstsDone
  <2> QED
    BY <2>1, <2>2 DEF Caches
<1>4. CASE Redirect
  <2>1. UpgradedHere'
    <3>1. redirects' # 0
      BY <1>4 DEF Redirect, Typed
    <3> QED
      BY <3>1 DEF UpgradedHere
  <2>2. HostsKept' /\ AltsKept' /\ HstsDone'
    BY <1>0, <1>4 DEF Redirect, mainvars, HostsKept, AltsKept, HstsDone
  <2> QED
    BY <2>1, <2>2 DEF Caches
<1>5. CASE Final
  <2>0. /\ InCall /\ url \in UrlSpace /\ at = "reply" /\ at' = "next" /\ opts' = opts
        /\ hsts \in Seq(HstsEntry) /\ alts \in Seq(AltEntry) /\ opts \in OptionSets
    BY <1>5 DEF Final, CallOver, InCall, Typed
  <2>1. PICK r \in Replies :
          /\ alts' = LearnAlt(alts, r)
          /\ hsts' = IF TellsHsts(r) THEN LearnHsts(hsts, r) ELSE hsts
          /\ learned' = (learned \/ TellsHsts(r))
    BY <1>5 DEF Final
  <2>2. AltsKept'
    BY <1>0, <2>0, <2>1, LearnAltKeeps
  <2>3. HostsKept'
    <3>1. \A e \in ToSet(opts.hsts) : \E d \in ToSet(hsts) : d.host = e.host
      BY <1>0, <2>0 DEF HostsKept
    <3>2. CASE TellsHsts(r)
      <4>1. \A e \in ToSet(opts.hsts) : \E d \in ToSet(LearnHsts(hsts, r)) : d.host = e.host
        BY <2>0, <3>1, <3>2, LearnHstsKeeps
      <4>2. learned' = TRUE
        BY <2>1, <3>2
      <4> QED
        BY <2>0, <2>1, <3>2, <4>1, <4>2 DEF HostsKept
    <3>3. CASE ~TellsHsts(r)
      <4>1. hsts' = hsts /\ (~learned' => ~learned)
        BY <2>1, <3>3
      <4> QED
        BY <1>0, <2>0, <3>1, <4>1 DEF HostsKept
    <3> QED
      BY <3>2, <3>3
  <2>4. UpgradedHere' /\ HstsDone'
    BY <2>0 DEF UpgradedHere, HstsDone, InCall
  <2> QED
    BY <2>2, <2>3, <2>4 DEF Caches
<1>6. CASE Fail
  <2>1. UpgradedHere' /\ HstsDone'
    BY <1>6 DEF Fail, CallOver, UpgradedHere, HstsDone, InCall
  <2>2. HostsKept' /\ AltsKept'
    BY <1>0, <1>6 DEF Fail, mainvars, HostsKept, AltsKept
  <2> QED
    BY <2>1, <2>2 DEF Caches
<1>7. CASE Tick
  BY <1>0, <1>7 DEF Tick, callvars, mainvars, Caches, UpgradedHere, HostsKept, AltsKept,
                    HstsDone, InCall, CoveredBy
<1>8. CASE Finish
  <2>1. UpgradedHere' /\ AltsKept'
    BY <1>0, <1>8 DEF Finish, UpgradedHere, AltsKept, InCall
  <2>2. HostsKept' /\ HstsDone'
    <3>1. \A e \in ToSet(opts.hsts) : \E d \in ToSet(hsts) : d.host = e.host
      BY <1>0, <1>8 DEF HostsKept, Finish
    <3>2. /\ at' = "done" /\ opts' = opts /\ learned' = learned
          /\ hsts' = IF learned THEN hsts ELSE opts.hsts
      BY <1>8 DEF Finish
    <3> QED
      BY <3>1, <3>2 DEF HostsKept, HstsDone
  <2> QED
    BY <2>1, <2>2 DEF Caches
<1>9. CASE UNCHANGED vars
  BY <1>0, <1>9 DEF vars, callvars, mainvars, Caches, UpgradedHere, HostsKept, AltsKept,
                    HstsDone, InCall, CoveredBy
<1> QED
  BY <1>1, <1>2, <1>3, <1>4, <1>5, <1>6, <1>7, <1>8, <1>9 DEF Next

LEMMA CachesAre == Typed /\ Caches => CachesHold
<1> SUFFICES ASSUME Typed, Caches PROVE CachesHold
  OBVIOUS
<1>1. ASSUME InCall, ~url.https, CoveredBy(opts.hsts, url.host), url.text = "full"
      PROVE  redirects > 0
  <2>1. redirects # 0
    BY <1>1 DEF Caches, UpgradedHere
  <2> QED
    BY <2>1 DEF Typed
<1> QED
  BY <1>1 DEF CachesHold, Caches, HstsDone, AltsKept, InCall

(* A host that the HSTS file covers is asked in the clear only where a     *)
(* redirect leads there or the URL is not written with http:// and the     *)
(* bare host, and the write-back at the end loses no host and no           *)
(* alternative service that was loaded.                                    *)
THEOREM CachesHoldAlways == Spec => []CachesHold
<1>1. Init => Typed /\ Caches
  BY InitTyped, InitCaches
<1>2. Typed /\ Caches /\ [Next]_vars => Typed' /\ Caches'
  BY NextTyped, CachesStep
<1> QED
  BY <1>1, <1>2, CachesAre, PTL DEF Spec

----------------------------------------------------------------------------
(* What arrives in the clear takes no Secure cookie away.                  *)
LEMMA FirstSegmentIsPrefix ==
  ASSUME NEW path \in Seq(STRING)
  PROVE  IsPrefix(FirstSegment(path), path)
<1>1. Len(path) \in Nat /\ \A i \in 1..Len(path) : path[i] \in STRING
  BY LenProperties, ElementOfSeq
<1>2. CASE LaterSlashes(path) = {}
  <2>1. FirstSegment(path) = path
    BY <1>2 DEF FirstSegment
  <2> QED
    BY <1>1, <2>1 DEF IsPrefix
<1>3. CASE LaterSlashes(path) # {}
  <2> DEFINE k == Least(LaterSlashes(path)) - 1
             s == SubSeq(path, 1, k)
  <2>1. LaterSlashes(path) \subseteq Nat /\ LaterSlashes(path) \subseteq 2..Len(path)
    BY <1>1 DEF LaterSlashes
  <2>2. Least(LaterSlashes(path)) \in 2..Len(path)
    BY <1>3, <2>1, LeastOf
  <2>3. k \in Nat /\ k > 0 /\ k <= Len(path)
    BY <1>1, <2>2
  <2>4. FirstSegment(path) = s
    BY <1>3 DEF FirstSegment
  <2> HIDE DEF k
  <2>5. \A i \in 1..k : path[i] \in STRING
    BY <1>1, <2>3
  <2>6. s \in Seq(STRING) /\ Len(s) = k /\ \A i \in 1..k : s[i] = path[i]
    <3>1. /\ s \in Seq(STRING) /\ Len(s) = IF 1 <= k THEN k - 1 + 1 ELSE 0
          /\ \A i \in 1..(k - 1 + 1) : s[i] = path[1 + i - 1]
      BY <2>3, <2>5, SubSeqProperties
    <3> HIDE DEF s
    <3> QED
      BY <2>3, <3>1
  <2>7. SubSeq(s, 1, k) = s
    <3>1. s = SubSeq(path, 1, k)
      OBVIOUS
    <3>2. \A i \in 1..k : s[i] = path[i]
      BY <2>6
    <3> HIDE DEF s
    <3>3. SubSeq(s, 1, k) = SubSeq(path, 1, k)
      BY <2>3, <3>2, SMT
    <3> QED
      BY <3>1, <3>3
  <2> QED
    BY <2>3, <2>4, <2>6, <2>7 DEF IsPrefix
<1> QED
  BY <1>2, <1>3

LEMMA TakenSparesSecure ==
  ASSUME NEW l \in Lists(Cookie), NEW c \in SecureOnes(l),
         NEW sc \in SetCookieSpace, NEW u \in UrlSpace, NEW host \in Labels, NEW t \in Nat,
         NEW rule \in {"segment", "name"}, ~u.https, ~IsLoopback(host)
  PROVE  c \in SecureOnes(Taken(l, sc, u, host, t, rule))
<1> DEFINE p == Parsed(sc, u, host, t)
<1>1. c \in ToSet(l) /\ c.secure /\ StartsWithSlash(c.path)
  BY DEF SecureOnes
<1>2. l \in Seq(Cookie) /\ c \in Cookie
  <2>1. l \in Seq(Cookie)
    BY DEF Lists
  <2> QED
    BY <1>1, <2>1, Elements
<1>3. SUFFICES c \in ToSet(Taken(l, sc, u, host, t, rule))
  BY <1>1 DEF SecureOnes
<1>4. CASE Taken(l, sc, u, host, t, rule) = l
  BY <1>1, <1>4
<1>5. CASE Taken(l, sc, u, host, t, rule) # l
  <2>1. /\ Accepted(sc, u, host) /\ Taken(l, sc, u, host, t, rule) = Store(l, p, t)
        /\ p.secure \/ ~Refused(rule, l, p)
    BY <1>5 DEF Taken
  <2>2. ~sc.secure
    BY <2>1 DEF Accepted
  <2>3. p.secure = sc.secure
    BY DEF Parsed
  <2>4. p \in Cookie
    BY <2>1, ParsedFacts
  <2> HIDE DEF p
  <2>5. ~Refused(rule, l, p)
    BY <2>1, <2>2, <2>3
  <2>6. ~SameKey(p, c)
    <3> SUFFICES ASSUME SameKey(p, c) PROVE FALSE
      OBVIOUS
    <3>1. p.dom = c.dom /\ p.path = c.path /\ p.name = c.name
      BY DEF SameKey
    <3>2. ByName(l, p)
      BY <1>1, <3>1 DEF ByName
    <3>3. BySegment(l, p)
      <4>1. IsPrefix(FirstSegment(c.path), p.path)
        BY <1>2, <3>1, FirstSegmentIsPrefix DEF Cookie
      <4> QED
        BY <1>1, <3>1, <4>1 DEF BySegment, Overlays
    <3> QED
      BY <2>5, <3>2, <3>3 DEF Refused
  <2>7. c \in ToSet(Store(l, p, t))
    <3>1. {d \in ToSet(l) : ~SameKey(p, d)} \subseteq ToSet(Store(l, p, t))
      BY <1>2, <2>4, StoreFacts
    <3> QED
      BY <1>1, <2>6, <3>1
  <2> QED
    BY <2>1, <2>7
<1> QED
  BY <1>4, <1>5

LEMMA AbsorbedSparesSecure ==
  ASSUME NEW l \in Lists(Cookie), NEW c \in SecureOnes(l),
         NEW headers \in Seq(SetCookieSpace),
         NEW u \in UrlSpace, NEW host \in Labels, NEW t \in Nat,
         NEW rule \in {"segment", "name"}, ~u.https, ~IsLoopback(host)
  PROVE  /\ Absorbed(l, headers, u, host, t, rule) \in Lists(Cookie)
         /\ c \in SecureOnes(Absorbed(l, headers, u, host, t, rule))
<1> DEFINE Q == {q \in Lists(Cookie) : c \in SecureOnes(q)}
<1>1. \A sc \in SetCookieSpace, q \in Q : Taken(q, sc, u, host, t, rule) \in Q
  <2> TAKE sc \in SetCookieSpace, q \in Q
  <2>1. Taken(q, sc, u, host, t, rule) \in Lists(Cookie)
    BY ParsedFacts, TakenIsList
  <2>2. c \in SecureOnes(Taken(q, sc, u, host, t, rule))
    BY TakenSparesSecure
  <2> QED
    BY <2>1, <2>2
<1>2. l \in Q
  OBVIOUS
<1> HIDE DEF Q
<1>3. Absorbed(l, headers, u, host, t, rule) \in Q
  BY <1>1, <1>2, AbsorbedWithin
<1> QED
  BY <1>3 DEF Q

(* Storing a list anew loses the expired ones only.                        *)
LEMMA StoredKeeps ==
  ASSUME NEW l \in Lists(Cookie), NEW t, NEW c \in ToSet(l), ~Expired(c, t)
  PROVE  c \in ToSet(Stored(l, t))
<1> DEFINE m == Len(l)
<1>1. /\ l \in Seq(Cookie) /\ Unique(l) /\ Capped(l)
      /\ m \in Nat /\ DOMAIN l = 1..m
      /\ \A i \in 1..m : l[i] \in Cookie /\ l[i] \in ToSet(l)
      /\ \E i \in 1..m : c = l[i]
  BY Elements DEF Lists
<1>2. PICK k \in 1..m : c = l[k]
  BY <1>1
<1>3. StoredInSteps(Lists(Cookie), l, t)
  BY <1>1, NoneIsList, StoreIsList, StoredSteps
<1>4. PICK f \in [0..m -> Lists(Cookie)] :
        /\ f[0] = <<>>
        /\ \A i \in 1..m : f[i] = Store(f[i - 1], l[i], t)
        /\ Stored(l, t) = f[m]
  BY <1>3 DEF StoredInSteps
<1>5. ToSet(f[0]) = {}
  BY <1>4, NoElements
<1> HIDE DEF m
<1>6. \A i \in 1..m :
        /\ i - 1 \in 0..m /\ f[i - 1] \in Lists(Cookie)
        /\ ToSet(f[i]) = {d \in ToSet(f[i - 1]) : ~SameKey(l[i], d)}
                           \union (IF ~Expired(l[i], t) /\ Room(f[i - 1], l[i])
                                   THEN {l[i]} ELSE {})
  <2> TAKE i \in 1..m
  <2>1. i - 1 \in 0..m /\ f[i - 1] \in Lists(Cookie) /\ f[i - 1] \in Seq(Cookie)
    BY <1>1, <1>4 DEF Lists
  <2>2. f[i] = Store(f[i - 1], l[i], t) /\ l[i] \in Cookie
    BY <1>1, <1>4
  <2>3. ToSet(Store(f[i - 1], l[i], t)) =
          {d \in ToSet(f[i - 1]) : ~SameKey(l[i], d)}
            \union (IF ~Expired(l[i], t) /\ Room(f[i - 1], l[i]) THEN {l[i]} ELSE {})
    BY <2>1, <2>2, StoreFacts
  <2> QED
    BY <2>1, <2>2, <2>3
<1> DEFINE G == {i \in 0..m : /\ ToSet(f[i]) \subseteq ToSet(l)
                              /\ i >= k => c \in ToSet(f[i])}
<1>7. 0 \in G
  BY <1>1, <1>5
<1>8. ASSUME NEW i \in 1..m, i - 1 \in G
      PROVE  i \in G
  <2>0. i \in Nat /\ i - 1 \in Nat /\ k \in Nat /\ i \in 0..m
    BY <1>1
  <2>1. ToSet(f[i - 1]) \subseteq ToSet(l) /\ (i - 1 >= k => c \in ToSet(f[i - 1]))
    BY <1>8
  <2>2. ToSet(f[i]) \subseteq ToSet(l)
    BY <1>1, <1>6, <2>1
  <2>3. CASE i = k
    <3> DEFINE w == Without(f[i - 1], c)
               D == {d \in ToSet(l) : d.dom = c.dom}
               E == {d \in ToSet(w) : d.dom = c.dom}
    <3>1. /\ f[i - 1] \in Seq(Cookie) /\ c \in Cookie
      BY <1>1, <1>2, <1>6 DEF Lists
    <3>2. w \in Seq(Cookie) /\ ToSet(w) = {d \in ToSet(f[i - 1]) : ~SameKey(c, d)}
      BY <3>1, WithoutFacts
    <3> HIDE DEF w
    <3>3. c \in D /\ c \notin E /\ E \subseteq D
      BY <2>1, <3>2 DEF SameKey
    <3>4. IsFiniteSet(D) /\ Cardinality(D) \in Nat /\ Cardinality(D) <= MaxPerDomain
      <4>1. CountIn(l, c.dom) \in Nat /\ IsFiniteSet(D) /\ CountIn(l, c.dom) <= MaxPerDomain
        BY <1>1, Counts
      <4> QED
        BY <4>1 DEF CountIn
    <3>5. CountIn(w, c.dom) \in Nat /\ CountIn(w, c.dom) = Cardinality(E)
      <4>1. CountIn(w, c.dom) \in Nat
        BY <3>2, Counts
      <4> QED
        BY <4>1 DEF CountIn
    <3> HIDE DEF D, E
    <3>6. IsFiniteSet(D \ {c}) /\ Cardinality(D \ {c}) = Cardinality(D) - 1
      BY <3>3, <3>4, FS_RemoveElement
    <3>7. E \in SUBSET (D \ {c})
      BY <3>3
    <3>8. Cardinality(E) <= Cardinality(D \ {c})
      BY <3>6, <3>7, FS_Subset
    <3>9. Room(f[i - 1], c)
      <4>1. CountIn(w, c.dom) < MaxPerDomain
        BY <3>4, <3>5, <3>6, <3>8, CookiesAssumption
      <4> QED
        BY <4>1 DEF Room, w
    <3>10. c \in ToSet(f[i])
      BY <1>2, <1>6, <2>3, <3>9
    <3> QED
      BY <2>0, <2>2, <3>10
  <2>4. CASE i > k
    <3>1. c \in ToSet(f[i - 1])
      BY <2>0, <2>1, <2>4
    <3>2. ~SameKey(l[i], c)
      <4>1. i # k
        BY <2>0, <2>4
      <4> QED
        BY <1>1, <1>2, <4>1 DEF Unique
    <3>3. c \in ToSet(f[i])
      BY <1>6, <3>1, <3>2
    <3> QED
      BY <2>0, <2>2, <3>3
  <2>5. CASE i < k
    <3>1. ~(i >= k)
      BY <2>0, <2>5
    <3> QED
      BY <2>0, <2>2, <3>1
  <2>6. i = k \/ i > k \/ i < k
    BY <2>0
  <2> QED
    BY <2>3, <2>4, <2>5, <2>6
<1> HIDE DEF G
<1>9. \A i \in 0..m : i \in G
  BY <1>1, <1>7, <1>8, StepByStep
<1>10. m \in G /\ m >= k
  BY <1>1, <1>9
<1> QED
  BY <1>4, <1>10 DEF G

----------------------------------------------------------------------------
\* A -b file that is not rewritten is as it was.
FileKept == opts.jar # "same" => file = opts.file

LEMMA FileKeptStep == FileKept /\ [Next]_vars => FileKept'
<1> SUFFICES ASSUME FileKept, [Next]_vars PROVE FileKept'
  OBVIOUS
<1>1. CASE Final
  <2>1. PICK r \in Replies : SavesJar(r)
    BY <1>1 DEF Final
  <2> QED
    BY <1>1, <2>1 DEF FileKept, SavesJar, Final
<1>2. CASE ~Final
  BY <1>2 DEF FileKept, Next, vars, mainvars, NextUrl, Request, Retry, Redirect, Fail,
              Tick, Finish
<1> QED
  BY <1>1, <1>2

LEMMA SparesSecure ==
  ASSUME Typed, FileKept, Next, InTheClear
  PROVE  /\ at' = "request" => SecureOnes(mem) \subseteq ToSet(mem')
         /\ jar' # jar /\ opts.file = <<>> =>
              {c \in SecureOnes(memory) : ~Expired(c, now)} \subseteq ToSet(jar')
<1>1. /\ at = "reply" /\ ~url.https /\ url \in UrlSpace /\ now \in Nat
      /\ Logical(url, custom) \in Labels /\ ~IsLoopback(Logical(url, custom))
      /\ Logical(url, MainHost) \in Labels /\ ~IsLoopback(Logical(url, MainHost))
  <2>1. at = "reply" /\ url \in UrlSpace /\ custom \in Labels \union {None}
        /\ MainHost \in Labels \union {None}
    BY MainHostIsHost DEF InTheClear, Typed, InCall
  <2> QED
    BY <2>1, LogicalIsHost DEF InTheClear, Typed, StartTime, MaxTime, Lifetime
<1>2. ASSUME NEW r \in Replies, NEW l \in Lists(Cookie), NEW c \in SecureOnes(l)
      PROVE  /\ TakesFirst(l, r) \in Lists(Cookie) /\ c \in SecureOnes(TakesFirst(l, r))
             /\ TakesLast(l, r) \in Lists(Cookie) /\ c \in SecureOnes(TakesLast(l, r))
  <2>1. r.cookies \in Seq(SetCookieSpace)
    BY ReplyFacts
  <2> DEFINE a == Absorbed(l, r.cookies, url, Logical(url, custom), now, "segment")
             b == Absorbed(l, r.cookies, url, Logical(url, custom), now, "name")
  <2>2. /\ a \in Lists(Cookie) /\ c \in SecureOnes(a)
        /\ b \in Lists(Cookie) /\ c \in SecureOnes(b)
    BY <1>1, <2>1, AbsorbedSparesSecure
  <2> HIDE DEF a, b
  <2>3. TakesFirst(l, r) \in {a, l} /\ TakesLast(l, r) \in {b, l}
    BY DEF TakesFirst, TakesLast, a, b
  <2> QED
    BY <2>2, <2>3
<1>3. mem \in Lists(Cookie)
  BY DEF Typed
<1>4. CASE Retry
  <2>1. PICK r \in Replies : mem' = TakesFirst(mem, r)
    BY <1>4 DEF Retry
  <2>2. SecureOnes(mem) \subseteq ToSet(mem')
    BY <1>2, <1>3, <2>1 DEF SecureOnes
  <2>3. jar' = jar
    BY <1>4 DEF Retry, mainvars
  <2> QED
    BY <2>2, <2>3
<1>5. CASE Redirect
  <2>1. PICK r \in Replies : mem' = TakesLast(TakesFirst(mem, r), r)
    BY <1>5 DEF Redirect
  <2>2. ASSUME NEW c \in SecureOnes(mem) PROVE c \in ToSet(mem')
    <3>1. TakesFirst(mem, r) \in Lists(Cookie) /\ c \in SecureOnes(TakesFirst(mem, r))
      BY <1>2, <1>3
    <3>2. c \in SecureOnes(TakesLast(TakesFirst(mem, r), r))
      BY <1>2, <3>1
    <3> QED
      BY <2>1, <3>2 DEF SecureOnes
  <2>3. jar' = jar
    BY <1>5 DEF Redirect, mainvars
  <2> QED
    BY <2>2, <2>3
<1>6. CASE Final
  <2>1. PICK r \in Replies : SavesJar(r)
    BY <1>6 DEF Final
  <2>2. at' = "next"
    BY <1>6 DEF Final, CallOver
  <2> DEFINE host == Logical(url, MainHost)
             content == Jar(file, memory, r.cookies, url, host, now)
  <2>3. ASSUME jar' # jar, opts.file = <<>>, NEW c \in SecureOnes(memory), ~Expired(c, now)
        PROVE  c \in ToSet(jar')
    <3>1. jar' = content /\ opts.jar = "own"
      BY <2>1, <2>3 DEF SavesJar
    <3>2. file = <<>>
      BY <2>3, <3>1 DEF FileKept
    <3>3. memory \in Lists(Cookie) /\ memory \in Seq(Cookie)
      BY DEF Typed, Lists
    <3>4. file \o memory = memory
      BY <3>2, <3>3, ConcatEmptySeq
    <3> DEFINE s == Stored(memory, now)
               a == Absorbed(s, r.cookies, url, host, now, "segment")
    <3>5. content = Reverse(a)
      BY <3>4 DEF Jar
    <3>6. s \in Lists(Cookie) /\ c \in SecureOnes(s)
      <4>1. c \in ToSet(memory) /\ c.secure /\ StartsWithSlash(c.path)
        BY DEF SecureOnes
      <4>2. c \in ToSet(s)
        BY <2>3, <3>3, <4>1, StoredKeeps
      <4>3. s \in Lists(Cookie)
        BY <3>3, StoredIsList
      <4> HIDE DEF s
      <4> QED
        BY <4>1, <4>2, <4>3 DEF SecureOnes
    <3>7. r.cookies \in Seq(SetCookieSpace)
      BY ReplyFacts
    <3> HIDE DEF s
    <3>8. a \in Lists(Cookie) /\ c \in SecureOnes(a)
      BY <1>1, <3>6, <3>7, AbsorbedSparesSecure
    <3> HIDE DEF a
    <3>9. ToSet(Reverse(a)) = ToSet(a) /\ c \in ToSet(a)
      <4>1. a \in Seq(Cookie)
        BY <3>8 DEF Lists
      <4> QED
        BY <3>8, <4>1, ReverseElements DEF SecureOnes
    <3> HIDE DEF content
    <3> QED
      BY <3>1, <3>5, <3>9
  <2> QED
    BY <2>2, <2>3
<1>7. CASE Fail
  BY <1>7 DEF Fail, CallOver, mainvars
<1>8. ~NextUrl /\ ~Request /\ ~Tick /\ ~Finish
  BY <1>1 DEF NextUrl, Request, Tick, Finish
<1> QED
  BY <1>4, <1>5, <1>6, <1>7, <1>8 DEF Next

(* A reply that came in the clear from a server elsewhere takes no Secure  *)
(* cookie from the call it belongs to, nor from the jar written for it.    *)
THEOREM PlainNeverOverridesSecureHolds == Spec => PlainNeverOverridesSecure
<1> DEFINE Spares ==
      InTheClear =>
        /\ at' = "request" => SecureOnes(mem) \subseteq ToSet(mem')
        /\ jar' # jar /\ opts.file = <<>> =>
             {c \in SecureOnes(memory) : ~Expired(c, now)} \subseteq ToSet(jar')
<1>1. Init => Typed /\ FileKept
  BY InitTyped DEF Init, FileKept
<1>2. Typed /\ FileKept /\ [Next]_vars => Typed' /\ FileKept'
  BY NextTyped, FileKeptStep
<1>3. Typed /\ FileKept /\ [Next]_vars => [Spares]_vars
  BY SparesSecure
<1> QED
  BY <1>1, <1>2, <1>3, PTL DEF Spec, PlainNeverOverridesSecure
=============================================================================
