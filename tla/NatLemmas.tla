----------------------------- MODULE NatLemmas -----------------------------
(* Induction over the naturals in terms of sets, the form in which the     *)
(* first-order provers can use it, and what it shows of Selection.         *)
EXTENDS Selection, WellFoundedInduction, FiniteSetTheorems, SequenceTheorems, TLAPS

(* Every non-empty set of naturals has a least element. *)
LEMMA NatLeast ==
    ASSUME NEW T \in SUBSET Nat, T # {}
    PROVE  \E x \in T : \A y \in T : x <= y
<1> DEFINE Less == {p \in Nat \X Nat : p[1] < p[2]}
<1>1. IsWellFoundedOn(Less, Nat)
  <2>1. OpToRel(<, Nat) = Less
    BY Zenon DEF OpToRel
  <2>2. QED
    BY <2>1, NatLessThanWellFounded, Zenon
<1>2. PICK x \in T : \A y \in T : <<y, x>> \notin Less
  <2> HIDE DEF Less
  <2> QED
    BY <1>1, WFMin, Zenon
<1>3. \A y \in T : ~ (y < x)
  BY <1>2
<1>4. QED
  <2> HIDE DEF Less
  <2> QED
    BY <1>3

(* A set of naturals that holds 0 and is closed under successor is Nat. *)
LEMMA SetInduction ==
    ASSUME NEW T \in SUBSET Nat, 0 \in T, \A n \in T : n + 1 \in T
    PROVE  T = Nat
<1>1. SUFFICES ASSUME Nat \ T # {} PROVE FALSE
  OBVIOUS
<1>2. PICK x \in Nat \ T : \A y \in Nat \ T : x <= y
  BY <1>1, NatLeast
<1>3. x - 1 \in T
  BY <1>2
<1>4. (x - 1) + 1 = x
  BY <1>2
<1>5. QED
  BY <1>2, <1>3, <1>4

-----------------------------------------------------------------------------
(* Selection *)

(* Every set of positions can be enumerated in increasing order. *)
LEMMA AscendingExists ==
    ASSUME NEW n \in Nat, NEW I \in SUBSET (1..n)
    PROVE  /\ IsFiniteSet(I)
           /\ \E g \in [1..Cardinality(I) -> I] :
                 \A i, j \in 1..Cardinality(I) : i < j => g[i] < g[j]
<1> DEFINE P(m) == \A J \in SUBSET (1..m) :
                     /\ IsFiniteSet(J)
                     /\ \E g \in [1..Cardinality(J) -> J] :
                          \A i, j \in 1..Cardinality(J) : i < j => g[i] < g[j]
           T == {m \in Nat : P(m)}
<1>1. 0 \in T
  <2>1. SUFFICES ASSUME NEW J \in SUBSET (1..0)
                 PROVE  /\ IsFiniteSet(J)
                        /\ \E g \in [1..Cardinality(J) -> J] :
                             \A i, j \in 1..Cardinality(J) : i < j => g[i] < g[j]
    OBVIOUS
  <2>2. J = {}
    OBVIOUS
  <2>3. IsFiniteSet(J) /\ Cardinality(J) = 0
    BY <2>2, FS_EmptySet
  <2>4. [i \in 1..0 |-> i] \in [1..Cardinality(J) -> J]
    BY <2>2, <2>3
  <2>5. QED
    BY <2>3, <2>4
<1>2. ASSUME NEW m \in T PROVE m + 1 \in T
  <2>1. SUFFICES ASSUME NEW J \in SUBSET (1..(m + 1))
                 PROVE  /\ IsFiniteSet(J)
                        /\ \E g \in [1..Cardinality(J) -> J] :
                             \A i, j \in 1..Cardinality(J) : i < j => g[i] < g[j]
    OBVIOUS
  <2>2. CASE m + 1 \notin J
    <3>1. J \in SUBSET (1..m)
      BY <2>2
    <3>2. QED
      BY <3>1, <1>2
  <2>3. CASE m + 1 \in J
    <3>1. PICK K : K = J \ {m + 1}
      OBVIOUS
    <3>2. K \in SUBSET (1..m) /\ J = K \cup {m + 1} /\ m + 1 \notin K
      BY <2>3, <3>1
    <3>3. IsFiniteSet(K)
      BY <3>2, <1>2
    <3>4. PICK k \in Nat : k = Cardinality(K)
      BY <3>3, FS_CardinalityType
    <3>5. PICK g \in [1..k -> K] : \A i, j \in 1..k : i < j => g[i] < g[j]
      BY <3>2, <3>4, <1>2
    <3>6. IsFiniteSet(J) /\ Cardinality(J) = k + 1
      BY <3>2, <3>3, <3>4, FS_AddElement
    <3> DEFINE h == [i \in 1..(k + 1) |-> IF i = k + 1 THEN m + 1 ELSE g[i]]
    <3>7. h \in [1..(k + 1) -> J]
      BY <3>2, <3>5
    <3>8. \A i \in 1..k : g[i] \in Nat /\ g[i] < m + 1
      <4>1. \A i \in 1..k : g[i] \in K
        BY <3>5
      <4>2. \A x \in K : x \in Nat /\ x < m + 1
        BY <3>2
      <4>3. QED
        BY <4>1, <4>2
    <3>9. \A i, j \in 1..(k + 1) : i < j => h[i] < h[j]
      <4>1. SUFFICES ASSUME NEW i \in 1..(k + 1), NEW j \in 1..(k + 1), i < j
                     PROVE  h[i] < h[j]
        OBVIOUS
      <4>2. i \in 1..k /\ h[i] = g[i]
        BY <4>1
      <4>3. CASE j = k + 1
        BY <4>2, <4>3, <3>8
      <4>4. CASE j # k + 1
        <5>1. j \in 1..k /\ h[j] = g[j]
          BY <4>4
        <5>2. g[i] < g[j]
          BY <4>1, <4>2, <5>1, <3>5
        <5>3. QED
          BY <4>2, <5>1, <5>2
      <4>5. QED
        BY <4>3, <4>4
    <3>10. QED
      BY <3>6, <3>7, <3>9
  <2>4. QED
    BY <2>2, <2>3
<1>3. T = Nat
  <2> HIDE DEF T
  <2>1. T \subseteq Nat
    BY DEF T
  <2> QED
    BY <1>1, <1>2, <2>1, SetInduction
<1>4. P(n)
  BY <1>3
<1>5. QED
  BY <1>4

(* Pick(s, I) lists the elements of s at the positions I, each once. *)
LEMMA PickBijection ==
    ASSUME NEW S, NEW s \in Seq(S), NEW I \in SUBSET DOMAIN s
    PROVE  /\ Cardinality(I) \in Nat
           /\ Ascending(I) \in [1..Cardinality(I) -> I]
           /\ \A i, j \in 1..Cardinality(I) :
                 i # j => Ascending(I)[i] # Ascending(I)[j]
           /\ \A x \in I : \E i \in 1..Cardinality(I) : Ascending(I)[i] = x
<1>1. PICK n \in Nat : DOMAIN s = 1..n
  BY LenProperties
<1>2. I \in SUBSET (1..n)
  BY <1>1
<1>3. IsFiniteSet(I)
  BY <1>2, AscendingExists
<1>4. \E g \in [1..Cardinality(I) -> I] :
         \A i, j \in 1..Cardinality(I) : i < j => g[i] < g[j]
  BY <1>2, AscendingExists
<1>5. PICK k \in Nat : k = Cardinality(I)
  BY <1>3, FS_CardinalityType
<1>6. PICK g : g = Ascending(I)
  OBVIOUS
<1>7. g \in [1..k -> I] /\ \A i, j \in 1..k : i < j => g[i] < g[j]
  BY <1>4, <1>5, <1>6 DEF Ascending
<1>8. \A i, j \in 1..k : i # j => g[i] # g[j]
  <2>1. \A i \in 1..k : g[i] \in Nat
    BY <1>2, <1>7
  <2>2. SUFFICES ASSUME NEW i \in 1..k, NEW j \in 1..k, i < j
                 PROVE  g[i] # g[j]
    OBVIOUS
  <2>3. g[i] < g[j]
    BY <1>7, <2>2
  <2>4. QED
    BY <2>1, <2>3
<1>9. g \in Injection(1..k, I)
  BY <1>7, <1>8 DEF Injection, IsInjective
<1>10. Cardinality(1..k) = Cardinality(I)
  BY <1>5, FS_Interval
<1>11. g \in Surjection(1..k, I)
  BY <1>3, <1>9, <1>10, FS_Injection
<1>12. \A x \in I : \E i \in 1..k : g[i] = x
  BY <1>11 DEF Surjection
<1>13. QED
  BY <1>5, <1>6, <1>7, <1>8, <1>12
=============================================================================
