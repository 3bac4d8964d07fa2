------------------------ MODULE Subsequences_proofs ------------------------
(***************************************************************************)
(* What Nth and Picked return, for every sequence and set of places.       *)
(***************************************************************************)
EXTENDS Integers, Subsequences, SequenceTheorems, FiniteSetTheorems, TLAPS

\* Every place of a finite set has its rank, and every rank its place.
LEMMA NthPlace ==
    ASSUME NEW places \in SUBSET Nat, IsFiniteSet(places),
           NEW k \in 1..Cardinality(places)
    PROVE  Nth(places, k) \in places /\ Cardinality({j \in places : j <= Nth(places, k)}) = k
<1> DEFINE UpTo(i) == {j \in places : j <= i}
           rank == [i \in places |-> Cardinality(UpTo(i))]
           n == Cardinality(places)
<1>1. n \in Nat /\ IsFiniteSet(1..n) /\ Cardinality(1..n) = n
  <2>1. n \in Nat
    BY FS_CardinalityType
  <2> QED
    BY <2>1, FS_Interval
<1>2. \A i \in places : IsFiniteSet(UpTo(i)) /\ Cardinality(UpTo(i)) \in 1..n
  <2> SUFFICES ASSUME NEW i \in places PROVE IsFiniteSet(UpTo(i)) /\ Cardinality(UpTo(i)) \in 1..n
    OBVIOUS
  <2>1. UpTo(i) \in SUBSET places /\ i \in UpTo(i)
    OBVIOUS
  <2>2. IsFiniteSet(UpTo(i)) /\ Cardinality(UpTo(i)) <= n
    BY <2>1, FS_Subset
  <2>3. Cardinality(UpTo(i)) \in Nat /\ Cardinality(UpTo(i)) # 0
    BY <2>1, <2>2, FS_CardinalityType, FS_EmptySet
  <2> HIDE DEF UpTo, n
  <2> QED
    BY <1>1, <2>2, <2>3
<1>3. \A i, j \in places : i < j => Cardinality(UpTo(i)) < Cardinality(UpTo(j))
  <2> SUFFICES ASSUME NEW i \in places, NEW j \in places, i < j
               PROVE  Cardinality(UpTo(i)) < Cardinality(UpTo(j))
    OBVIOUS
  <2>0. i \in Nat /\ j \in Nat /\ \A m \in places : m \in Nat
    OBVIOUS
  <2>1. /\ \A m \in places : m <= i => m <= j
        /\ j <= j
        /\ ~(j <= i)
    BY <2>0
  <2>2. UpTo(i) \in SUBSET UpTo(j) /\ j \in UpTo(j) /\ j \notin UpTo(i)
    BY <2>1
  <2>3. Cardinality(UpTo(i)) <= Cardinality(UpTo(j)) /\ Cardinality(UpTo(i)) # Cardinality(UpTo(j))
    BY <1>2, <2>2, FS_Subset
  <2>4. Cardinality(UpTo(i)) \in Nat /\ Cardinality(UpTo(j)) \in Nat
    BY <1>2
  <2> HIDE DEF UpTo
  <2> QED
    BY <2>3, <2>4
<1>4. rank \in [places -> 1..n]
  BY <1>2
<1>5. rank \in Injection(places, 1..n)
  <2> SUFFICES ASSUME NEW i \in places, NEW j \in places, rank[i] = rank[j] PROVE i = j
    BY <1>4 DEF Injection, IsInjective
  <2>1. Cardinality(UpTo(i)) = Cardinality(UpTo(j)) /\ Cardinality(UpTo(i)) \in Nat
    BY <1>2
  <2>2. ~(i < j) /\ ~(j < i)
    <3> HIDE DEF UpTo
    <3> QED
      BY <1>3, <2>1
  <2> QED
    BY <2>2
<1>6. rank \in Surjection(places, 1..n)
  BY <1>1, <1>5, FS_Injection
<1>7. \E i \in places : Cardinality(UpTo(i)) = k
  BY <1>6 DEF Surjection
<1> QED
  BY <1>7 DEF Nth

\* What is picked stands at the given places, all of them, in their order.
LEMMA PickedFacts ==
    ASSUME NEW S, NEW s \in Seq(S), NEW places \in SUBSET (DOMAIN s)
    PROVE  /\ Cardinality(places) \in 0..Len(s)
           /\ Picked(s, places) \in Seq(S)
           /\ Len(Picked(s, places)) = Cardinality(places)
           /\ DOMAIN Picked(s, places) = 1..Cardinality(places)
           /\ \A k \in 1..Cardinality(places) :
                Nth(places, k) \in places /\ Picked(s, places)[k] = s[Nth(places, k)]
           /\ \A k, l \in 1..Cardinality(places) : k < l => Nth(places, k) < Nth(places, l)
<1> DEFINE n == Cardinality(places)
<1>1. DOMAIN s = 1..Len(s) /\ Len(s) \in Nat
  OBVIOUS
<1>2. IsFiniteSet(1..Len(s)) /\ Cardinality(1..Len(s)) = Len(s)
  <2>1. 1 \in Int /\ Len(s) \in Int /\ (1 > Len(s) => Len(s) = 0)
    BY <1>1
  <2> QED
    BY <2>1, FS_Interval
<1>3. IsFiniteSet(places) /\ n <= Len(s)
  BY <1>2, FS_Subset
<1>4. n \in Nat
  BY <1>3, FS_CardinalityType
<1>5. ASSUME NEW k \in 1..n
      PROVE  Nth(places, k) \in places /\ Cardinality({j \in places : j <= Nth(places, k)}) = k
  <2>1. places \in SUBSET Nat
    BY <1>1
  <2> QED
    BY <1>3, <2>1, NthPlace
<1>6. ASSUME NEW k \in 1..n PROVE s[Nth(places, k)] \in S
  <2>1. Nth(places, k) \in 1..Len(s)
    BY <1>1, <1>5
  <2> QED
    BY <2>1, ElementOfSeq
<1>7. Picked(s, places) \in [1..n -> S]
  BY <1>6 DEF Picked
<1>8. Picked(s, places) \in Seq(S) /\ Len(Picked(s, places)) = n
  BY <1>4, <1>7
<1>9. ASSUME NEW k \in 1..n, NEW l \in 1..n, k < l PROVE Nth(places, k) < Nth(places, l)
  <2> DEFINE a == Nth(places, k)
             b == Nth(places, l)
  <2>1. a \in places /\ b \in places
    BY <1>5
  <2>0. a \in Nat /\ b \in Nat
    BY <1>1, <2>1
  <2>2. Cardinality({j \in places : j <= a}) = k /\ Cardinality({j \in places : j <= b}) = l
    BY <1>5
  <2>3. CASE b <= a
    <3>1. \A j \in places : j \in Nat
      BY <1>1
    <3>2. {j \in places : j <= b} \in SUBSET {j \in places : j <= a}
      <4> HIDE DEF a, b
      <4> QED
        BY <2>0, <2>3, <3>1
    <3>3. IsFiniteSet({j \in places : j <= a})
      BY <1>3, FS_Subset
    <3>4. l <= k
      BY <2>2, <3>2, <3>3, FS_Subset
    <3> QED
      BY <1>9, <3>4
  <2> HIDE DEF a, b
  <2>4. CASE a < b
    BY <2>4 DEF a, b
  <2> QED
    BY <2>0, <2>3, <2>4
<1>10. /\ n \in 0..Len(s)
       /\ DOMAIN Picked(s, places) = 1..n
       /\ \A k \in 1..n : Picked(s, places)[k] = s[Nth(places, k)]
  BY <1>1, <1>3, <1>4 DEF Picked
<1> QED
  BY <1>5, <1>8, <1>9, <1>10

\* Places of a sequence are finite in number.
LEMMA PlacesFinite ==
    ASSUME NEW S, NEW s \in Seq(S), NEW places \in SUBSET (DOMAIN s)
    PROVE  /\ IsFiniteSet(places) /\ places \in SUBSET Nat
           /\ Cardinality(places) \in Nat /\ Cardinality(places) <= Len(s)
           /\ \A i \in places : i \in 1..Len(s)
<1>1. DOMAIN s = 1..Len(s) /\ Len(s) \in Nat
  OBVIOUS
<1>2. IsFiniteSet(1..Len(s)) /\ Cardinality(1..Len(s)) = Len(s)
  <2>1. 1 \in Int /\ Len(s) \in Int /\ (1 > Len(s) => Len(s) = 0)
    BY <1>1
  <2> QED
    BY <2>1, FS_Interval
<1>3. IsFiniteSet(places) /\ Cardinality(places) <= Len(s)
  BY <1>1, <1>2, FS_Subset
<1> QED
  BY <1>1, <1>3, FS_CardinalityType

\* A sequence that names the members of a finite set in ascending order names
\* them by their ranks.
LEMMA Ranks ==
    ASSUME NEW places \in SUBSET Nat, NEW n \in Nat, NEW e \in [1..n -> places],
           \A k, l \in 1..n : k < l => e[k] < e[l],
           \A i \in places : \E k \in 1..n : e[k] = i
    PROVE  /\ IsFiniteSet(places) /\ Cardinality(places) = n
           /\ \A k \in 1..n : Nth(places, k) = e[k]
<1>1. IsFiniteSet(1..n) /\ Cardinality(1..n) = n
  <2>1. 1 \in Int /\ n \in Int /\ (1 > n => n = 0)
    OBVIOUS
  <2> QED
    BY <2>1, FS_Interval
<1>2. e \in Injection(1..n, places)
  <2> SUFFICES ASSUME NEW k \in 1..n, NEW l \in 1..n, e[k] = e[l] PROVE k = l
    BY DEF Injection, IsInjective
  <2>1. e[k] \in Nat /\ e[l] \in Nat
    OBVIOUS
  <2> QED
    BY <2>1
<1>3. e \in Surjection(1..n, places)
  BY DEF Surjection
<1>4. IsFiniteSet(places) /\ Cardinality(places) = n
  BY <1>1, <1>2, <1>3, FS_Bijection DEF Bijection, ExistsBijection
<1>5. ASSUME NEW k \in 1..n PROVE Cardinality({j \in places : j <= e[k]}) = k
  <2> DEFINE low == {j \in places : j <= e[k]}
             f == [l \in 1..k |-> e[l]]
  <2>1. IsFiniteSet(1..k) /\ Cardinality(1..k) = k
    <3>1. 1 \in Int /\ k \in Int /\ ~(1 > k)
      OBVIOUS
    <3> QED
      BY <3>1, FS_Interval
  <2>2. \A l \in 1..k : l \in 1..n /\ e[l] \in places /\ e[l] \in Nat /\ e[k] \in Nat /\ e[l] <= e[k]
    <3> SUFFICES ASSUME NEW l \in 1..k
                 PROVE  l \in 1..n /\ e[l] \in places /\ e[l] \in Nat /\ e[k] \in Nat /\ e[l] <= e[k]
      OBVIOUS
    <3>1. l \in 1..n /\ (l = k \/ l < k)
      OBVIOUS
    <3>2. e[l] \in places /\ e[k] \in places /\ e[l] \in Nat /\ e[k] \in Nat
      BY <3>1
    <3>3. l < k => e[l] < e[k]
      BY <3>1
    <3> QED
      BY <3>1, <3>2, <3>3
  <2>3. f \in [1..k -> low]
    BY <2>2
  <2>4. f \in Injection(1..k, low)
    <3> SUFFICES ASSUME NEW a \in 1..k, NEW b \in 1..k, f[a] = f[b] PROVE a = b
      BY <2>3 DEF Injection, IsInjective
    <3>1. e[a] = e[b] /\ a \in 1..n /\ b \in 1..n /\ e[a] \in Nat
      BY <2>2
    <3> QED
      BY <3>1
  <2>5. \A j \in low : \E l \in 1..k : f[l] = j
    <3> SUFFICES ASSUME NEW j \in places, j <= e[k] PROVE \E l \in 1..k : e[l] = j
      OBVIOUS
    <3>1. PICK l \in 1..n : e[l] = j
      OBVIOUS
    <3>2. e[k] \in Nat /\ e[l] \in Nat
      OBVIOUS
    <3>3. ~(k < l)
      BY <3>1, <3>2
    <3> QED
      BY <3>1, <3>3
  <2>6. f \in Surjection(1..k, low)
    BY <2>3, <2>5 DEF Surjection
  <2> QED
    BY <2>1, <2>4, <2>6, FS_Bijection DEF Bijection, ExistsBijection
<1> QED
  <2> SUFFICES ASSUME NEW k \in 1..n PROVE Nth(places, k) = e[k]
    BY <1>4
  <2>1. Nth(places, k) \in places /\ Cardinality({j \in places : j <= Nth(places, k)}) = k
    BY <1>4, NthPlace
  <2>2. PICK l \in 1..n : e[l] = Nth(places, k)
    BY <2>1
  <2> QED
    BY <1>5, <2>1, <2>2

\* Every one of the places is the k-th for some k.
LEMMA PlaceRank ==
    ASSUME NEW places \in SUBSET Nat, IsFiniteSet(places), NEW i \in places
    PROVE  \E k \in 1..Cardinality(places) : Nth(places, k) = i
<1> DEFINE n == Cardinality(places)
           nth == [k \in 1..n |-> Nth(places, k)]
<1>1. n \in Nat
  BY FS_CardinalityType
<1>2. IsFiniteSet(1..n) /\ Cardinality(1..n) = n
  <2>1. 1 \in Int /\ n \in Int /\ (1 > n => n = 0)
    BY <1>1
  <2> HIDE DEF n
  <2> QED
    BY <2>1, FS_Interval
<1>3. \A k \in 1..n : Nth(places, k) \in places /\ Cardinality({j \in places : j <= Nth(places, k)}) = k
  BY NthPlace
<1>4. nth \in [1..n -> places]
  BY <1>3
<1>5. nth \in Injection(1..n, places)
  BY <1>3, <1>4 DEF Injection, IsInjective
<1>6. nth \in Surjection(1..n, places)
  <2> HIDE DEF nth
  <2> QED
    BY <1>2, <1>5, FS_Injection
<1> QED
  BY <1>6 DEF Surjection

\* Nothing is left out where every place is picked.
LEMMA PickedAll ==
    ASSUME NEW S, NEW s \in Seq(S)
    PROVE  Picked(s, DOMAIN s) = s
<1> DEFINE n == Len(s)
           e == [k \in 1..n |-> k]
<1>1. DOMAIN s = 1..n /\ n \in Nat /\ s = [k \in 1..n |-> s[k]]
  OBVIOUS
<1>2. /\ e \in [1..n -> DOMAIN s] /\ DOMAIN s \in SUBSET Nat
      /\ \A k, l \in 1..n : k < l => e[k] < e[l]
      /\ \A i \in DOMAIN s : \E k \in 1..n : e[k] = i
  BY <1>1
<1>3. Cardinality(DOMAIN s) = n /\ \A k \in 1..n : Nth(DOMAIN s, k) = e[k]
  <2> HIDE DEF n, e
  <2> QED
    BY <1>1, <1>2, Ranks
<1>4. Picked(s, DOMAIN s) = [k \in 1..n |-> s[k]]
  BY <1>3 DEF Picked
<1> QED
  BY <1>1, <1>4

\* Equality with a concatenation, as a predicate.
IsConcat(c, a, b) == c = a \o b

\* What is picked of two sequences, one behind the other.
LEMMA PickedConcat ==
    ASSUME NEW S, NEW s \in Seq(S), NEW t \in Seq(S),
           NEW A \in SUBSET (DOMAIN s), NEW B \in SUBSET (DOMAIN t),
           NEW places \in SUBSET Nat,
           \A i \in A : i \in places, \A j \in B : Len(s) + j \in places,
           \A i \in places : i \in A \/ \E j \in B : i = Len(s) + j
    PROVE  IsConcat(Picked(s \o t, places), Picked(s, A), Picked(t, B))
<1> DEFINE a == Cardinality(A)
           b == Cardinality(B)
           e == [k \in 1..(a + b) |-> IF k <= a THEN Nth(A, k) ELSE Len(s) + Nth(B, k - a)]
<1>1. /\ Len(s) \in Nat /\ Len(t) \in Nat
      /\ a \in Nat /\ b \in Nat
      /\ IsFiniteSet(A) /\ IsFiniteSet(B)
      /\ \A i \in A : i \in 1..Len(s)
      /\ \A i \in B : i \in 1..Len(t)
      /\ A \in SUBSET Nat /\ B \in SUBSET Nat
  BY PlacesFinite
<1>2. /\ s \o t \in Seq(S) /\ Len(s \o t) = Len(s) + Len(t)
      /\ \A i \in 1..Len(s) : (s \o t)[i] = s[i]
      /\ \A j \in 1..Len(t) : (s \o t)[Len(s) + j] = t[j]
  <2>1. \A i \in 1..(Len(s) + Len(t)) :
          (s \o t)[i] = IF i <= Len(s) THEN s[i] ELSE t[i - Len(s)]
    BY ConcatProperties
  <2>2. \A j \in 1..Len(t) : /\ Len(s) + j \in 1..(Len(s) + Len(t))
                             /\ ~(Len(s) + j <= Len(s)) /\ Len(s) + j - Len(s) = j
    BY <1>1
  <2>3. \A i \in 1..Len(s) : i \in 1..(Len(s) + Len(t)) /\ i <= Len(s)
    BY <1>1
  <2>4. s \o t \in Seq(S) /\ Len(s \o t) = Len(s) + Len(t)
    BY ConcatProperties
  <2> QED
    BY <2>1, <2>2, <2>3, <2>4
<1>3. /\ \A k \in 1..a : Nth(A, k) \in A /\ Picked(s, A)[k] = s[Nth(A, k)]
      /\ \A k, l \in 1..a : k < l => Nth(A, k) < Nth(A, l)
      /\ Picked(s, A) \in Seq(S) /\ Len(Picked(s, A)) = a
  BY PickedFacts
<1>4. /\ \A k \in 1..b : Nth(B, k) \in B /\ Picked(t, B)[k] = t[Nth(B, k)]
      /\ \A k, l \in 1..b : k < l => Nth(B, k) < Nth(B, l)
      /\ Picked(t, B) \in Seq(S) /\ Len(Picked(t, B)) = b
  BY PickedFacts
<1>5. \A k \in 1..(a + b) : /\ k <= a => k \in 1..a
                            /\ ~(k <= a) => k - a \in 1..b
  BY <1>1
<1>6. e \in [1..(a + b) -> places]
  <2> SUFFICES ASSUME NEW k \in 1..(a + b) PROVE e[k] \in places
    OBVIOUS
  <2>1. CASE k <= a
    BY <1>3, <1>5, <2>1
  <2>2. CASE ~(k <= a)
    BY <1>4, <1>5, <2>2
  <2> QED
    BY <2>1, <2>2
<1>7. places \in SUBSET Nat
  BY <1>1
<1>8. ASSUME NEW k \in 1..(a + b), NEW l \in 1..(a + b), k < l PROVE e[k] < e[l]
  <2>1. CASE l <= a
    <3>1. k \in 1..a /\ l \in 1..a
      BY <1>1, <1>8, <2>1
    <3>2. e[k] = Nth(A, k) /\ e[l] = Nth(A, l)
      BY <3>1
    <3> QED
      BY <1>3, <1>8, <3>1, <3>2
  <2>2. CASE k <= a /\ ~(l <= a)
    <3>1. e[k] = Nth(A, k) /\ Nth(A, k) \in A
      BY <1>3, <1>5, <2>2
    <3>2. e[l] = Len(s) + Nth(B, l - a) /\ Nth(B, l - a) \in B
      BY <1>4, <1>5, <2>2
    <3> QED
      BY <1>1, <3>1, <3>2
  <2>3. CASE ~(k <= a)
    <3>1. k - a \in 1..b /\ l - a \in 1..b /\ k - a < l - a /\ ~(l <= a)
      BY <1>1, <1>8, <2>3
    <3>2. e[k] = Len(s) + Nth(B, k - a) /\ e[l] = Len(s) + Nth(B, l - a)
      BY <2>3, <3>1
    <3>3. Nth(B, k - a) < Nth(B, l - a) /\ Nth(B, k - a) \in Nat /\ Nth(B, l - a) \in Nat
      BY <1>1, <1>4, <3>1
    <3> QED
      BY <1>1, <3>2, <3>3
  <2> QED
    BY <2>1, <2>2, <2>3
<1>9. ASSUME NEW i \in places PROVE \E k \in 1..(a + b) : e[k] = i
  <2>1. CASE i \in A
    <3>1. PICK k \in 1..a : Nth(A, k) = i
      BY <1>1, <2>1, PlaceRank
    <3>2. k \in 1..(a + b) /\ k <= a
      BY <1>1
    <3> QED
      BY <3>1, <3>2
  <2>2. CASE i \in {Len(s) + j : j \in B}
    <3>1. PICK j \in B : i = Len(s) + j
      BY <2>2
    <3>2. PICK k \in 1..b : Nth(B, k) = j
      BY <1>1, PlaceRank
    <3>3. \E m \in 1..(a + b) : ~(m <= a) /\ m - a = k
      <4>1. k \in 1..b /\ a \in Nat /\ b \in Nat
        BY <1>1
      <4> HIDE DEF a, b
      <4>2. a + k \in 1..(a + b) /\ ~(a + k <= a) /\ a + k - a = k
        BY <4>1
      <4> QED
        BY <4>1, <4>2
    <3>4. PICK m \in 1..(a + b) : ~(m <= a) /\ m - a = k
      BY <3>3
    <3>5. e[m] = Len(s) + Nth(B, k)
      BY <3>4
    <3> QED
      BY <3>1, <3>2, <3>5
  <2> QED
    BY <2>1, <2>2
<1>10. Cardinality(places) = a + b /\ \A k \in 1..(a + b) : Nth(places, k) = e[k]
  <2>1. a + b \in Nat
    BY <1>1
  <2> HIDE DEF e, a, b
  <2> QED
    BY <1>6, <1>7, <1>8, <1>9, <2>1, Ranks
<1>11. Picked(s \o t, places) = [k \in 1..(a + b) |-> (s \o t)[e[k]]]
  BY <1>10 DEF Picked
<1>12. /\ Picked(s, A) \o Picked(t, B) \in Seq(S)
       /\ Len(Picked(s, A) \o Picked(t, B)) = a + b
       /\ \A k \in 1..(a + b) :
            (Picked(s, A) \o Picked(t, B))[k] =
              IF k <= a THEN Picked(s, A)[k] ELSE Picked(t, B)[k - a]
  <2> DEFINE u == Picked(s, A)
             v == Picked(t, B)
  <2>1. u \in Seq(S) /\ v \in Seq(S) /\ Len(u) = a /\ Len(v) = b
    BY <1>3, <1>4
  <2> HIDE DEF u, v, a, b
  <2>2. /\ u \o v \in Seq(S)
        /\ Len(u \o v) = Len(u) + Len(v)
        /\ \A k \in 1..(Len(u) + Len(v)) :
             (u \o v)[k] = IF k <= Len(u) THEN u[k] ELSE v[k - Len(u)]
    BY <2>1, ConcatProperties
  <2>3. /\ u \o v \in Seq(S)
        /\ Len(u \o v) = a + b
        /\ \A k \in 1..(a + b) : (u \o v)[k] = IF k <= a THEN u[k] ELSE v[k - a]
    BY <2>1, <2>2
  <2> QED
    BY <2>3 DEF u, v
<1>13. Picked(s, A) \o Picked(t, B) =
         [k \in 1..(a + b) |-> IF k <= a THEN Picked(s, A)[k] ELSE Picked(t, B)[k - a]]
  <2> DEFINE u == Picked(s, A) \o Picked(t, B)
  <2>1. \A q \in Seq(S) : q = [k \in 1..Len(q) |-> q[k]]
    OBVIOUS
  <2> HIDE DEF a, b
  <2> QED
    BY <1>12, <2>1
<1>14. ASSUME NEW k \in 1..(a + b)
       PROVE  (s \o t)[e[k]] = IF k <= a THEN Picked(s, A)[k] ELSE Picked(t, B)[k - a]
  <2>1. CASE k <= a
    <3>1. k \in 1..a /\ e[k] = Nth(A, k)
      BY <1>5, <2>1
    <3> QED
      BY <1>1, <1>2, <1>3, <2>1, <3>1
  <2>2. CASE ~(k <= a)
    <3>1. k - a \in 1..b /\ e[k] = Len(s) + Nth(B, k - a)
      BY <1>5, <2>2
    <3>2. Nth(B, k - a) \in 1..Len(t)
      BY <1>1, <1>4, <3>1
    <3> HIDE DEF a, b, e
    <3> QED
      BY <1>2, <1>4, <2>2, <3>1, <3>2
  <2> QED
    BY <2>1, <2>2
<1> HIDE DEF a, b, e
<1> QED
  BY <1>11, <1>13, <1>14 DEF IsConcat

\* What is picked at no place.
LEMMA PickedNothing == ASSUME NEW s PROVE Picked(s, {}) = <<>>
<1>1. Cardinality({}) = 0
  BY FS_EmptySet
<1> QED
  BY <1>1 DEF Picked
=============================================================================
