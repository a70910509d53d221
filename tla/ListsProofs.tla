----------------------------- MODULE ListsProofs -----------------------------
(* What a filtered list holds. *)
EXTENDS Lists, TLAPS, FiniteSetTheorems, WellFoundedInduction

\* A set of numbers has a least one.
LEMMA Least ==
  ASSUME NEW T, T \subseteq Nat, T # {}
  PROVE  \E x \in T : \A y \in T : x <= y
<1>1. PICK x \in T : \A y \in T : ~(<<y, x>> \in OpToRel(<, Nat))
  BY NatLessThanWellFounded, WFMin
<1>2. \A y \in T : ~(y < x)
  BY <1>1 DEF OpToRel
<1> QED
  BY <1>2

\* Places of a list of this length.
Within(P, len) == \A j \in P : j \in Nat /\ 1 <= j /\ j <= len

\* The places up to m.
UpTo(P, m) == {j \in P : j <= m}

\* They grow by one place at most from one number to the next.
LEMMA UpToFacts ==
  ASSUME NEW len \in Nat, NEW P, Within(P, len)
  PROVE  /\ UpTo(P, len) = P /\ UpTo(P, 0) = {}
         /\ \A m \in Nat : UpTo(P, m) \in SUBSET P
         /\ \A m \in Nat \ {0} : m \notin P => UpTo(P, m) = UpTo(P, m - 1)
         /\ \A m \in Nat \ {0} : m \in P => /\ UpTo(P, m) = UpTo(P, m - 1) \cup {m}
                                            /\ m \notin UpTo(P, m - 1)
<1>1. UpTo(P, len) = P
  BY DEF UpTo, Within
<1>2. UpTo(P, 0) = {}
  BY DEF UpTo, Within
<1>3. \A m \in Nat : UpTo(P, m) \in SUBSET P
  BY DEF UpTo
<1>4. ASSUME NEW m \in Nat \ {0}, m \notin P
      PROVE  UpTo(P, m) = UpTo(P, m - 1)
  <2>1. \A j \in P : j <= m <=> j <= m - 1
    BY <1>4 DEF Within
  <2> QED
    BY <2>1 DEF UpTo
<1>5. ASSUME NEW m \in Nat \ {0}, m \in P
      PROVE  UpTo(P, m) = UpTo(P, m - 1) \cup {m} /\ m \notin UpTo(P, m - 1)
  <2>1. \A j \in P : j <= m <=> j <= m - 1 \/ j = m
    BY <1>5 DEF Within
  <2>2. ~(m <= m - 1)
    OBVIOUS
  <2> QED
    BY <1>5, <2>1, <2>2 DEF UpTo
<1> QED
  BY <1>1, <1>2, <1>3, <1>4, <1>5

\* There are finitely many of them.
LEMMA PlacesFinite ==
  ASSUME NEW len \in Nat, NEW P, Within(P, len)
  PROVE  IsFiniteSet(P) /\ Cardinality(P) \in Nat
<1>1. IsFiniteSet(1..len)
  BY FS_Interval
<1>2. P \in SUBSET (1..len)
  BY DEF Within
<1> QED
  BY <1>1, <1>2, FS_Subset, FS_CardinalityType

\* Every rank up to the number of places is the rank of one of them.
LEMMA Ranked ==
  ASSUME NEW len \in Nat, NEW P, Within(P, len), NEW n \in 1..Cardinality(P)
  PROVE  \E k \in P : Cardinality(UpTo(P, k)) = n
<1>1. IsFiniteSet(P) /\ Cardinality(P) \in Nat
  BY PlacesFinite
<1>2. \A m \in Nat : IsFiniteSet(UpTo(P, m)) /\ Cardinality(UpTo(P, m)) \in Nat
  BY <1>1, UpToFacts, FS_Subset, FS_CardinalityType
<1> DEFINE T == {m \in Nat : Cardinality(UpTo(P, m)) >= n}
<1>3. len \in T
  BY <1>1, UpToFacts
<1>4. PICK m \in T : \A y \in T : m <= y
  <2> HIDE DEF T
  <2>1. T \subseteq Nat
    BY DEF T
  <2> QED
    BY <1>3, <2>1, Least
<1>5. m \in Nat /\ Cardinality(UpTo(P, m)) >= n
  BY <1>4
<1>6. m # 0
  BY <1>5, UpToFacts, FS_EmptySet
<1>7. m - 1 \in Nat /\ ~(Cardinality(UpTo(P, m - 1)) >= n)
  BY <1>4, <1>5, <1>6
<1>8. m \in P
  BY <1>5, <1>6, <1>7, UpToFacts
<1>9. UpTo(P, m) = UpTo(P, m - 1) \cup {m} /\ m \notin UpTo(P, m - 1)
  BY <1>5, <1>6, <1>8, UpToFacts
<1>10. Cardinality(UpTo(P, m)) = Cardinality(UpTo(P, m - 1)) + 1
  BY <1>2, <1>7, <1>9, FS_AddElement
<1>11. Cardinality(UpTo(P, m)) = n
  BY <1>1, <1>2, <1>5, <1>7, <1>10
<1> QED
  BY <1>8, <1>11

\* A list of what is at the places, and nothing else.
LEMMA PickedFacts ==
  ASSUME NEW S, NEW list \in Seq(S), NEW P, Within(P, Len(list))
  PROVE  /\ Picked(list, P) \in Seq(S) /\ Len(Picked(list, P)) = Cardinality(P)
         /\ \A n \in 1..Cardinality(P) : \E k \in P : Picked(list, P)[n] = list[k]
<1> DEFINE Place(n) == CHOOSE k \in P : Cardinality(UpTo(P, k)) = n
<1>1. Len(list) \in Nat /\ Cardinality(P) \in Nat
  BY PlacesFinite
<1>2. \A n \in 1..Cardinality(P) : Place(n) \in P
  BY <1>1, Ranked
<1>3. Picked(list, P) = [n \in 1..Cardinality(P) |-> list[Place(n)]]
  BY DEF Picked, UpTo
<1> HIDE DEF Place
<1>4. \A k \in P : list[k] \in S
  BY DEF Within
<1>5. \A n \in 1..Cardinality(P) : list[Place(n)] \in S
  BY <1>2, <1>4
<1>6. PICK c \in Nat : c = Cardinality(P)
  BY <1>1
<1>7. PICK l : l = Picked(list, P)
  OBVIOUS
<1>8. l = [n \in 1..c |-> list[Place(n)]] /\ \A n \in 1..c : list[Place(n)] \in S
  BY <1>3, <1>5, <1>6, <1>7
<1>9. l \in Seq(S) /\ Len(l) = c /\ \A n \in 1..c : l[n] = list[Place(n)]
  BY <1>8
<1> QED
  BY <1>2, <1>6, <1>7, <1>9

\* Those of a list are in it, and in the set.
LEMMA ThoseFacts ==
  ASSUME NEW S, NEW list \in Seq(S), NEW set
  PROVE  Those(list, set) \in Seq(S \cap set)
<1>1. PICK P : P = {k \in 1..Len(list) : list[k] \in set}
  OBVIOUS
<1>2. Within(P, Len(list)) /\ \A k \in P : list[k] \in set
  BY <1>1 DEF Within
<1>3. PICK l : l = Picked(list, P)
  OBVIOUS
<1>4. /\ l \in Seq(S) /\ Len(l) = Cardinality(P)
      /\ \A n \in 1..Cardinality(P) : \E k \in P : l[n] = list[k]
  BY <1>2, <1>3, PickedFacts
<1>5. \A n \in 1..Len(l) : l[n] \in S \cap set
  BY <1>2, <1>4
<1>6. l \in Seq(S \cap set)
  BY <1>4, <1>5
<1> QED
  BY <1>1, <1>3, <1>6 DEF Those

\* Leaving the repetitions out adds nothing.
LEMMA DistinctFacts ==
  ASSUME NEW S, NEW list \in Seq(S)
  PROVE  Distinct(list) \in Seq(S)
<1>1. PICK P : P = {k \in 1..Len(list) : \A j \in 1..(k - 1) : list[j] # list[k]}
  OBVIOUS
<1>2. Within(P, Len(list))
  BY <1>1 DEF Within
<1> QED
  BY <1>1, <1>2, PickedFacts DEF Distinct
=============================================================================
