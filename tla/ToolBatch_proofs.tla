-------------------------- MODULE ToolBatch_proofs --------------------------
(***************************************************************************)
(* Theorems about ToolBatch, the rules of grounding and the query of the   *)
(* knowledge base inside it.                                               *)
(***************************************************************************)
EXTENDS ToolBatch, Subsequences_proofs, MilvusExecutor_proofs, FunctionTheorems,
        WellFoundedInduction

-----------------------------------------------------------------------------
(* The rules of grounding: what they let through is a legal write, for     *)
(* every dictionary, denylist and choice of words of the model.            *)

\* First picks a member of what was found, and an earliest one.
LEMMA FirstOfFound ==
    ASSUME NEW indices \in SUBSET Nat, indices # {}
    PROVE  /\ First(indices) \in indices
           /\ \A j \in indices : First(indices) <= j
<1> DEFINE Less == OpToRel(<, Nat)
<1>1. IsWellFoundedOn(Less, Nat)
  BY NatLessThanWellFounded
<1>2. \A m, n \in Nat : m < n => <<m, n>> \in Less
  BY DEF OpToRel
<1> HIDE DEF Less
<1>3. PICK i \in indices : \A j \in indices : <<j, i>> \notin Less
  BY <1>1, WFMin
<1>4. ASSUME NEW j \in indices PROVE i <= j
  <2>1. i \in Nat /\ j \in Nat /\ <<j, i>> \notin Less
    BY <1>3
  <2>2. ~(j < i)
    BY <1>2, <2>1
  <2> QED
    BY <2>1, <2>2
<1> QED
  BY <1>4 DEF First

\* What the parameter words match is a row of the dictionary (_match_param).
LEMMA MatchIsARow ==
    ASSUME NEW params \in Seq(Param), NEW key, MatchParam(params, key) # 0
    PROVE  MatchParam(params, key) \in DOMAIN params
<1> DEFINE tier == << Coded(params, key), Controllable(params, Named(params, key)),
                      Named(params, key), WithState(params, key) >>
           found == {t \in DOMAIN tier : tier[t] # {}}
<1>1. /\ DOMAIN params \in SUBSET Nat
      /\ \A t \in DOMAIN tier : tier[t] \in SUBSET DOMAIN params
      /\ DOMAIN tier = 1..4
  <2>1. DOMAIN params \in SUBSET Nat
    OBVIOUS
  <2>2. /\ Coded(params, key) \subseteq DOMAIN params
        /\ Named(params, key) \subseteq DOMAIN params
        /\ Controllable(params, Named(params, key)) \subseteq DOMAIN params
        /\ WithState(params, key) \subseteq DOMAIN params
    BY DEF Coded, Named, Controllable, WithState
  <2> QED
    BY <2>1, <2>2
<1>2. found # {} /\ MatchParam(params, key) = First(tier[First(found)])
  BY DEF MatchParam
<1>3. First(found) \in found
  <2>1. found \in SUBSET Nat
    BY <1>1
  <2> QED
    BY <2>1, <1>2, FirstOfFound
<1>4. tier[First(found)] # {} /\ tier[First(found)] \in SUBSET DOMAIN params
  BY <1>1, <1>3
<1> HIDE DEF tier, found
<1>5. First(tier[First(found)]) \in tier[First(found)]
  BY <1>1, <1>4, FirstOfFound
<1> QED
  BY <1>2, <1>4, <1>5

\* A value that is resolved is an enabled state of the row, or a number within
\* its bounds (_resolve_value).
LEMMA ResolvedIsLegal ==
    ASSUME NEW p \in Param, NEW value \in Word, Number[value] # NaN,
           ResolveValue(p, value).ok
    PROVE  LET v == ResolveValue(p, value).value IN
           IF p.states # <<>>
           THEN \E k \in DOMAIN p.states : p.states[k].able /\ p.states[k].value = v
           ELSE /\ Bounded(p)
                /\ Number[v] \in Int
                /\ p.lo # NoBound => p.lo <= Number[v]
                /\ p.hi # NoBound => Number[v] <= p.hi
<1>1. CASE p.states # <<>>
  <2>1. Able(p, value) # {} /\ ResolveValue(p, value).value = p.states[First(Able(p, value))].value
    BY <1>1 DEF ResolveValue, Rejected
  <2>2. Able(p, value) \in SUBSET Nat
    BY DEF Able, AnyState, Param
  <2>3. First(Able(p, value)) \in Able(p, value)
    BY <2>1, <2>2, FirstOfFound
  <2>4. First(Able(p, value)) \in DOMAIN p.states /\ p.states[First(Able(p, value))].able
    BY <2>3 DEF Able, AnyState
  <2> QED
    BY <1>1, <2>1, <2>4
<1>2. CASE p.states = <<>>
  <2>1. Bounded(p) /\ InRange(p, value) /\ ResolveValue(p, value).value = value
    BY <1>2 DEF ResolveValue, Rejected
  <2>2. Number[value] \in Int
    BY <2>1, GroundingAssumption DEF InRange
  <2>3. p.lo \in Int \cup {NoBound} /\ p.hi \in Int \cup {NoBound}
    BY DEF Param
  <2> QED
    BY <1>2, <2>1, <2>2, <2>3 DEF InRange, Below
<1> QED
  BY <1>1, <1>2

\* Whatever the model says, and whatever is in the dictionary of the device:
\* grounding rejects it, or what it gives is a legal write.  The value must not
\* be the word "nan", which no comparison with a bound rejects
\* (grounding.py:183-208).
THEOREM GroundedIsLegal ==
    ASSUME NEW type, NEW params \in Seq(Param), NEW key, NEW value \in Word,
           Number[value] # NaN, Ground(type, params, key, value).ok
    PROVE  Legal(type, params, Ground(type, params, key, value))
<1> DEFINE i == MatchParam(params, key)
           p == params[i]
           resolved == ResolveValue(p, value)
<1>1. /\ i # 0 /\ p.ctrl /\ resolved.ok /\ ~Denied(type, p)
      /\ Ground(type, params, key, value) =
           [ok |-> TRUE, value |-> resolved.value, param |-> p.no,
            action |-> IF p.door THEN "doorControl" ELSE "deviceCtrl"]
  BY DEF Ground, Rejected
<1>2. i \in DOMAIN params
  BY <1>1, MatchIsARow
<1>3. p \in Param
  BY <1>2
<1>4. IF p.states # <<>>
      THEN \E k \in DOMAIN p.states : p.states[k].able /\ p.states[k].value = resolved.value
      ELSE /\ Bounded(p)
           /\ Number[resolved.value] \in Int
           /\ p.lo # NoBound => p.lo <= Number[resolved.value]
           /\ p.hi # NoBound => Number[resolved.value] <= p.hi
  BY <1>1, <1>3, ResolvedIsLegal
<1> HIDE DEF i, p, resolved
<1> QED
  BY <1>1, <1>2, <1>4 DEF Legal, p

\* A word that names a controllable row, and is no code, never means a
\* read-only row of the same name, in whichever order the dictionary has them
\* (grounding.py:108-112).
THEOREM ControllableBeforeReadOnly ==
    ASSUME NEW params \in Seq(Param), NEW key, Coded(params, key) = {},
           Controllable(params, Named(params, key)) # {}
    PROVE  /\ params[MatchParam(params, key)].ctrl
           /\ key \in params[MatchParam(params, key)].name
<1> DEFINE named == Controllable(params, Named(params, key))
           tier == << Coded(params, key), named, Named(params, key), WithState(params, key) >>
           found == {t \in DOMAIN tier : tier[t] # {}}
<1>1. 2 \in found /\ 1 \notin found /\ found \subseteq 1..4
  OBVIOUS
<1>2. First(found) \in found /\ First(found) <= 2
  <2>1. found \in SUBSET Nat /\ found # {}
    BY <1>1
  <2> QED
    BY <2>1, <1>1, FirstOfFound
<1>3. First(found) = 2
  <2> DEFINE f == First(found)
  <2>1. f \in 1..4 /\ f # 1 /\ f <= 2
    BY <1>1, <1>2
  <2> HIDE DEF f
  <2>2. f = 2
    BY <2>1
  <2> QED
    BY <2>2 DEF f
<1>4. MatchParam(params, key) = First(named)
  BY <1>1, <1>3 DEF MatchParam
<1>5. named \in SUBSET Nat
  BY DEF Controllable, Named
<1>6. First(named) \in named
  BY <1>5, FirstOfFound
<1> QED
  BY <1>4, <1>6 DEF Controllable, Named

-----------------------------------------------------------------------------
(* Evidence                                                                *)

\* The evidence a caller may see.
Passing(c) == {item \in Items : Level[item.chunk] \in Clearance[c]}

NoRepeat(items) ==
    \A i, j \in DOMAIN items : items[i].chunk = items[j].chunk => i = j

LEMMA PrefixFacts ==
    ASSUME NEW S, NEW items \in Seq(S), NEW n \in Nat
    PROVE  /\ Prefix(items, n) \in Seq(S)
           /\ Len(Prefix(items, n)) <= n
           /\ Len(Prefix(items, n)) <= Len(items)
           /\ DOMAIN Prefix(items, n) \subseteq DOMAIN items
           /\ \A i \in DOMAIN Prefix(items, n) : Prefix(items, n)[i] = items[i]
<1> DEFINE m == IF n < Len(items) THEN n ELSE Len(items)
<1>1. Len(items) \in Nat /\ DOMAIN items = 1..Len(items)
  BY LenProperties
<1>2. m \in Nat /\ m <= n /\ m <= Len(items)
  BY <1>1
<1>3. \A i \in 1..m : items[i] \in S
  BY <1>1, <1>2, ElementOfSeq
<1>4. Prefix(items, n) = SubSeq(items, 1, m)
  BY DEF Prefix
<1> HIDE DEF m
<1>5. /\ SubSeq(items, 1, m) \in Seq(S)
      /\ Len(SubSeq(items, 1, m)) = m
      /\ \A i \in 1..m : SubSeq(items, 1, m)[i] = items[i]
  <2>1. /\ SubSeq(items, 1, m) \in Seq(S)
        /\ Len(SubSeq(items, 1, m)) = IF 1 <= m THEN m - 1 + 1 ELSE 0
        /\ \A i \in 1..(m - 1 + 1) : SubSeq(items, 1, m)[i] = items[1 + i - 1]
    BY <1>2, <1>3, SubSeqProperties
  <2>2. \A i \in 1..m : 1 + i - 1 = i
    OBVIOUS
  <2> QED
    BY <1>2, <2>1, <2>2
<1>6. DOMAIN SubSeq(items, 1, m) = 1..m
  BY <1>5, LenProperties
<1> QED
  BY <1>1, <1>2, <1>4, <1>5, <1>6

\* What Milvus lets through passes the filter.
LEMMA FilteredFacts ==
    ASSUME NEW c \in Caller, NEW hits \in Seq(Chunk), NEW filter, filter \subseteq Clearance[c]
    PROVE  Filtered(hits, filter) \in Seq(Passing(c))
<1> DEFINE places == {i \in DOMAIN hits : Level[hits[i]] \in filter}
           passing == Picked(hits, places)
<1>1. places \in SUBSET (DOMAIN hits)
  OBVIOUS
<1>2. /\ passing \in Seq(Chunk)
      /\ DOMAIN passing = 1..Cardinality(places)
      /\ Cardinality(places) \in Nat
      /\ \A k \in 1..Cardinality(places) :
           Nth(places, k) \in places /\ passing[k] = hits[Nth(places, k)]
  BY <1>1, PickedFacts
<1>3. \A k \in DOMAIN passing : passing[k] \in Chunk /\ Level[passing[k]] \in Clearance[c]
  BY <1>2
<1> HIDE DEF passing
<1>4. \A k \in DOMAIN passing : Item(passing[k], Unscored) \in Passing(c)
  <2> SUFFICES ASSUME NEW k \in DOMAIN passing PROVE Item(passing[k], Unscored) \in Passing(c)
    OBVIOUS
  <2>1. Item(passing[k], Unscored) \in Items /\ Item(passing[k], Unscored).chunk = passing[k]
    BY <1>3 DEF Item, Items, Unscored
  <2> QED
    BY <1>3, <2>1 DEF Passing
<1>5. [i \in DOMAIN passing |-> Item(passing[i], Unscored)] \in [1..Cardinality(places) -> Passing(c)]
  BY <1>2, <1>4
<1> QED
  BY <1>2, <1>5 DEF Filtered, passing

LEMMA TopKType == TopK \in Nat /\ TopK > 0 /\ RenderLimit \in Nat /\ MaxQueries \in Nat /\ MaxQueries > 0
BY RetrievalAssumption

\* A ranking has no items but those that were ranked.
LEMMA RankingFacts ==
    ASSUME NEW c \in Caller, NEW items \in Seq(Passing(c)), NEW ranking \in Rankings(items)
    PROVE  ranking \in Seq(Passing(c)) /\ Len(ranking) <= TopK
<1>1. CASE ranking = Kept(items)
  BY <1>1, PrefixFacts, TopKType DEF Kept
<1>2. ASSUME NEW score \in Scoring, ranking = Reranked(items, score)
      PROVE  ranking \in Seq(Passing(c)) /\ Len(ranking) <= TopK
  <2>1. ASSUME NEW s \in 0..2 PROVE Scored(items, score, s) \in Seq(Passing(c))
    <3> DEFINE scored == [i \in DOMAIN items |-> [items[i] EXCEPT !.score = s]]
               places == {i \in DOMAIN items :
                            items[i].chunk \in DOMAIN score /\ score[items[i].chunk] = s}
    <3>1. ASSUME NEW item \in Passing(c) PROVE [item EXCEPT !.score = s] \in Passing(c)
      BY DEF Passing, Items, Unscored
    <3>2. DOMAIN items = 1..Len(items) /\ Len(items) \in Nat /\ \A i \in DOMAIN items : items[i] \in Passing(c)
      BY LenProperties
    <3>3. scored \in [1..Len(items) -> Passing(c)]
      BY <3>1, <3>2
    <3>4. scored \in Seq(Passing(c)) /\ DOMAIN scored = DOMAIN items
      BY <3>2, <3>3
    <3>5. places \in SUBSET (DOMAIN scored)
      BY <3>4
    <3> HIDE DEF scored, places
    <3>6. Picked(scored, places) \in Seq(Passing(c))
      BY <3>4, <3>5, PickedFacts
    <3> QED
      BY <3>6 DEF Scored, scored, places
  <2>2. Scored(items, score, 2) \o Scored(items, score, 1) \o Scored(items, score, 0) \in Seq(Passing(c))
    <3>1. /\ Scored(items, score, 2) \in Seq(Passing(c))
          /\ Scored(items, score, 1) \in Seq(Passing(c))
          /\ Scored(items, score, 0) \in Seq(Passing(c))
      BY <2>1
    <3> QED
      BY <3>1, ConcatProperties
  <2> QED
    BY <1>2, <2>2, PrefixFacts, TopKType DEF Reranked
<1> QED
  BY <1>1, <1>2 DEF Rankings

LEMMA DistinctFacts ==
    ASSUME NEW S, NEW items \in Seq(S)
    PROVE  /\ Distinct(items) \in Seq(S)
           /\ Len(Distinct(items)) <= Len(items)
           /\ NoRepeat(Distinct(items))
           /\ \A k \in DOMAIN Distinct(items) :
                \E i \in DOMAIN items : Distinct(items)[k] = items[i]
<1> DEFINE places == {i \in DOMAIN items : \A j \in 1..(i - 1) : items[j].chunk # items[i].chunk}
           n == Cardinality(places)
<1>1. DOMAIN items = 1..Len(items) /\ Len(items) \in Nat
  BY LenProperties
<1>2. places \in SUBSET (DOMAIN items)
  OBVIOUS
<1>3. /\ n \in 0..Len(items)
      /\ Picked(items, places) \in Seq(S)
      /\ Len(Picked(items, places)) = n
      /\ DOMAIN Picked(items, places) = 1..n
      /\ \A k \in 1..n : Nth(places, k) \in places /\ Picked(items, places)[k] = items[Nth(places, k)]
      /\ \A k, l \in 1..n : k < l => Nth(places, k) < Nth(places, l)
  BY <1>2, PickedFacts
<1>4. ASSUME NEW k \in 1..n, NEW l \in 1..n, k < l
      PROVE  items[Nth(places, k)].chunk # items[Nth(places, l)].chunk
  <2>1. Nth(places, k) < Nth(places, l) /\ Nth(places, k) \in 1..Len(items) /\ Nth(places, l) \in places
    BY <1>1, <1>3, <1>4
  <2>2. Nth(places, l) \in 1..Len(items)
    BY <1>1, <2>1
  <2>3. \A i \in places : \A j \in 1..(i - 1) : items[j].chunk # items[i].chunk
    OBVIOUS
  <2>4. Nth(places, k) \in 1..(Nth(places, l) - 1)
    BY <1>1, <2>1, <2>2
  <2> QED
    BY <2>1, <2>3, <2>4
<1> HIDE DEF places, n
<1>5. NoRepeat(Picked(items, places))
  <2> SUFFICES ASSUME NEW k \in 1..n, NEW l \in 1..n,
                      Picked(items, places)[k].chunk = Picked(items, places)[l].chunk
               PROVE  k = l
    BY <1>3 DEF NoRepeat
  <2>1. ~(k < l) /\ ~(l < k)
    BY <1>3, <1>4
  <2> QED
    BY <1>1, <1>3, <2>1
<1>6. \A k \in DOMAIN Picked(items, places) : \E i \in DOMAIN items : Picked(items, places)[k] = items[i]
  BY <1>2, <1>3
<1>7. Distinct(items) = Picked(items, places)
  BY DEF Distinct, places
<1>8. Len(Picked(items, places)) <= Len(items)
  BY <1>3
<1> QED
  BY <1>3, <1>5, <1>6, <1>7, <1>8

LEMMA SupplementFacts ==
    ASSUME NEW S, NEW primary \in Seq(S), NEW items \in Seq(S)
    PROVE  /\ Supplement(primary, items) \in Seq(S)
           /\ Len(Supplement(primary, items)) <= Len(items)
           /\ NoRepeat(Supplement(primary, items))
           /\ \A k \in DOMAIN Supplement(primary, items) : \A i \in DOMAIN primary :
                Supplement(primary, items)[k].chunk # primary[i].chunk
<1> DEFINE places == {i \in DOMAIN items : items[i].chunk \notin Chunks(primary)}
           others == Picked(items, places)
<1>1. places \in SUBSET (DOMAIN items)
  OBVIOUS
<1>2. /\ Cardinality(places) \in 0..Len(items)
      /\ others \in Seq(S)
      /\ Len(others) = Cardinality(places)
      /\ DOMAIN others = 1..Cardinality(places)
      /\ \A k \in 1..Cardinality(places) :
           Nth(places, k) \in places /\ others[k] = items[Nth(places, k)]
  BY <1>1, PickedFacts
<1>3. \A k \in DOMAIN others : others[k].chunk \notin Chunks(primary)
  BY <1>2
<1>4. Supplement(primary, items) = Distinct(others)
  BY DEF Supplement
<1> HIDE DEF others, places
<1>5. /\ Distinct(others) \in Seq(S)
      /\ Len(Distinct(others)) <= Len(others)
      /\ NoRepeat(Distinct(others))
      /\ \A k \in DOMAIN Distinct(others) : \E i \in DOMAIN others : Distinct(others)[k] = others[i]
  BY <1>2, DistinctFacts
<1>6. \A k \in DOMAIN Distinct(others) : Distinct(others)[k].chunk \notin Chunks(primary)
  BY <1>3, <1>5
<1>7. \A k \in DOMAIN Distinct(others) : \A i \in DOMAIN primary :
        Distinct(others)[k].chunk # primary[i].chunk
  BY <1>6 DEF Chunks
<1>8. Len(Distinct(others)) <= Len(items)
  <2>1. Len(Distinct(others)) \in Nat /\ Len(others) \in Nat /\ Len(items) \in Nat
    BY <1>2, <1>5, LenProperties
  <2> QED
    BY <1>2, <1>5, <2>1
<1> QED
  BY <1>4, <1>5, <1>7, <1>8

\* Two tiers without repetition and without a chunk in common repeat nothing.
LEMMA TiersApart ==
    ASSUME NEW S, NEW a \in Seq(S), NEW b \in Seq(S), NoRepeat(a), NoRepeat(b),
           \A k \in DOMAIN b : \A i \in DOMAIN a : b[k].chunk # a[i].chunk
    PROVE  NoRepeat(a \o b)
<1>1. /\ DOMAIN a = 1..Len(a) /\ Len(a) \in Nat
      /\ DOMAIN b = 1..Len(b) /\ Len(b) \in Nat
  BY LenProperties
<1>2. /\ a \o b \in Seq(S)
      /\ Len(a \o b) = Len(a) + Len(b)
      /\ \A i \in 1..(Len(a) + Len(b)) : (a \o b)[i] = IF i <= Len(a) THEN a[i] ELSE b[i - Len(a)]
  BY ConcatProperties
<1>3. DOMAIN (a \o b) = 1..(Len(a) + Len(b))
  BY <1>2, LenProperties
<1> SUFFICES ASSUME NEW i \in 1..(Len(a) + Len(b)), NEW j \in 1..(Len(a) + Len(b)),
                    (a \o b)[i].chunk = (a \o b)[j].chunk
             PROVE  i = j
  BY <1>3 DEF NoRepeat
<1>4. CASE i <= Len(a) /\ j <= Len(a)
  <2>1. i \in DOMAIN a /\ j \in DOMAIN a /\ a[i].chunk = a[j].chunk
    BY <1>1, <1>2, <1>4
  <2> QED
    BY <2>1 DEF NoRepeat
<1>5. CASE i <= Len(a) /\ j > Len(a)
  <2>1. i \in DOMAIN a /\ j - Len(a) \in DOMAIN b /\ a[i].chunk = b[j - Len(a)].chunk
    BY <1>1, <1>2, <1>5
  <2> QED
    BY <2>1
<1>6. CASE i > Len(a) /\ j <= Len(a)
  <2>1. j \in DOMAIN a /\ i - Len(a) \in DOMAIN b /\ a[j].chunk = b[i - Len(a)].chunk
    BY <1>1, <1>2, <1>6
  <2> QED
    BY <2>1
<1>7. CASE i > Len(a) /\ j > Len(a)
  <2>1. i - Len(a) \in DOMAIN b /\ j - Len(a) \in DOMAIN b /\ b[i - Len(a)].chunk = b[j - Len(a)].chunk
    BY <1>1, <1>2, <1>7
  <2>2. i - Len(a) = j - Len(a)
    BY <2>1 DEF NoRepeat
  <2> QED
    BY <1>1, <2>2
<1> QED
  BY <1>1, <1>4, <1>5, <1>6, <1>7

-----------------------------------------------------------------------------
(* The query                                                               *)

\* What is known of a query, wherever it is.
QueryInv(c, q) ==
    /\ q \in Query
    /\ q.filter \subseteq Clearance[c]
    /\ q.hits \in Seq(Passing(c)) /\ q.first \in Seq(Passing(c))
    /\ q.primary \in Seq(Passing(c)) /\ q.supplemental \in Seq(Passing(c))
    /\ Len(q.first) <= TopK /\ Len(q.primary) <= TopK /\ Len(q.supplemental) <= TopK
    /\ NoRepeat(q.primary \o q.supplemental)
    /\ q.at = "repair" => q.left > 0

LEMMA PassingItems ==
    ASSUME NEW c, NEW s \in Seq(Passing(c))
    PROVE  s \in Seq(Items)
BY SeqMonotonic DEF Passing

LEMMA NoQueryInv == ASSUME NEW c \in Caller PROVE QueryInv(c, NoQuery)
<1>1. <<>> \in Seq(Items) /\ <<>> \in Seq(Passing(c)) /\ Len(<<>>) = 0
  BY EmptySeq
<1>2. <<>> \o <<>> = <<>>
  BY <1>1, ConcatEmptySeq
<1>3. NoRepeat(<<>> \o <<>>)
  BY <1>2 DEF NoRepeat
<1>4. NoQuery \in Query
  BY <1>1, TopKType DEF NoQuery, Query, Over
<1> QED
  BY <1>1, <1>3, <1>4, TopKType DEF QueryInv, NoQuery

\* The repair round is over or left out.
LEMMA MergedInv ==
    ASSUME NEW c \in Caller, NEW q, QueryInv(c, q),
           NEW repaired \in Seq(Passing(c)), Len(repaired) <= TopK
    PROVE  QueryInv(c, Merged(q, repaired))
<1> DEFINE promote == ShouldPromote(q.first, repaired)
           seed == Prefix(IF promote THEN repaired ELSE q.first, TopK)
           primary == Distinct(seed)
           others == IF promote THEN Prefix(q.first, TopK) ELSE repaired
           supplemental == Supplement(primary, others)
           at == IF ParentsOf(primary \o supplemental) # {} THEN "expand"
                 ELSE IF primary = <<>> THEN "insufficient" ELSE "answered"
<1>1. q \in Query /\ q.first \in Seq(Passing(c)) /\ Len(q.first) <= TopK /\ q.filter \subseteq Clearance[c]
  BY DEF QueryInv
<1>2. seed \in Seq(Passing(c)) /\ Len(seed) <= TopK
  BY <1>1, PrefixFacts, TopKType
<1>3. others \in Seq(Passing(c)) /\ Len(others) <= TopK
  BY <1>1, PrefixFacts, TopKType
<1> HIDE DEF seed, others
<1>4. primary \in Seq(Passing(c)) /\ Len(primary) <= TopK /\ NoRepeat(primary)
  <2>1. primary \in Seq(Passing(c)) /\ Len(primary) <= Len(seed) /\ NoRepeat(primary)
    BY <1>2, DistinctFacts
  <2>2. Len(primary) \in Nat /\ Len(seed) \in Nat
    BY <1>2, <2>1, LenProperties
  <2> HIDE DEF primary
  <2> QED
    BY <1>2, <2>1, <2>2, TopKType
<1> HIDE DEF primary
<1>5. /\ supplemental \in Seq(Passing(c)) /\ Len(supplemental) <= TopK
      /\ NoRepeat(primary \o supplemental)
  <2>1. /\ supplemental \in Seq(Passing(c))
        /\ Len(supplemental) <= Len(others)
        /\ NoRepeat(supplemental)
        /\ \A k \in DOMAIN supplemental : \A i \in DOMAIN primary :
             supplemental[k].chunk # primary[i].chunk
    BY <1>3, <1>4, SupplementFacts
  <2>2. Len(supplemental) \in Nat /\ Len(others) \in Nat
    BY <1>3, <2>1, LenProperties
  <2> HIDE DEF supplemental
  <2>3. NoRepeat(primary \o supplemental)
    BY <1>4, <2>1, TiersApart
  <2> QED
    BY <1>3, <2>1, <2>2, <2>3, TopKType
<1>6. Merged(q, repaired) = [q EXCEPT !.primary = primary, !.supplemental = supplemental,
                                      !.hits = <<>>, !.at = at]
  BY DEF Merged, primary, seed, others
<1>7. at \in {"expand", "insufficient", "answered"}
  OBVIOUS
<1> HIDE DEF supplemental, at
<1>8. /\ primary \in Seq(Items) /\ supplemental \in Seq(Items)
      /\ <<>> \in Seq(Items) /\ <<>> \in Seq(Passing(c))
  BY <1>4, <1>5, PassingItems, EmptySeq
<1>9. Merged(q, repaired) \in Query
  BY <1>1, <1>6, <1>7, <1>8 DEF Query, Over, Searching
<1>10. /\ Merged(q, repaired).filter = q.filter
       /\ Merged(q, repaired).first = q.first
       /\ Merged(q, repaired).hits = <<>>
       /\ Merged(q, repaired).primary = primary
       /\ Merged(q, repaired).supplemental = supplemental
       /\ Merged(q, repaired).at = at
  BY <1>1, <1>6 DEF Query
<1> HIDE DEF promote
<1> QED
  BY <1>1, <1>4, <1>5, <1>7, <1>8, <1>9, <1>10 DEF QueryInv

\* The blocks are put on the items; what the items are stays.
LEMMA AnsweredInv ==
    ASSUME NEW c \in Caller, NEW q, QueryInv(c, q), NEW fetched
    PROVE  QueryInv(c, Answered(q, fetched))
<1> DEFINE primary == Expanded(q.primary, fetched)
           supplemental == Expanded(q.supplemental, fetched)
           at == IF q.primary = <<>> THEN "insufficient" ELSE "answered"
<1>1. ASSUME NEW items \in Seq(Passing(c))
      PROVE  /\ Expanded(items, fetched) \in Seq(Passing(c))
             /\ Len(Expanded(items, fetched)) = Len(items)
             /\ \A i \in DOMAIN items : Expanded(items, fetched)[i].chunk = items[i].chunk
  <2>1. DOMAIN items = 1..Len(items) /\ Len(items) \in Nat /\ \A i \in DOMAIN items : items[i] \in Passing(c)
    BY LenProperties
  <2>2. ASSUME NEW item \in Passing(c)
        PROVE  /\ [item EXCEPT !.block = Parent[item.chunk]] \in Passing(c)
               /\ [item EXCEPT !.block = Parent[item.chunk]].chunk = item.chunk
    <3>1. Parent[item.chunk] \in Chunk \cup {NoChunk}
      BY RetrievalAssumption DEF Passing, Items
    <3> QED
      BY <3>1 DEF Passing, Items
  <2>3. \A i \in DOMAIN items :
          LET e == IF Parent[items[i].chunk] \in fetched
                   THEN [items[i] EXCEPT !.block = Parent[items[i].chunk]] ELSE items[i]
          IN e \in Passing(c) /\ e.chunk = items[i].chunk
    BY <2>1, <2>2
  <2>4. /\ DOMAIN Expanded(items, fetched) = 1..Len(items)
        /\ Expanded(items, fetched) \in [1..Len(items) -> Passing(c)]
        /\ \A i \in DOMAIN items : Expanded(items, fetched)[i].chunk = items[i].chunk
    BY <2>1, <2>3 DEF Expanded
  <2> QED
    BY <2>1, <2>4
<1>2. /\ q \in Query /\ q.filter \subseteq Clearance[c]
      /\ q.hits \in Seq(Passing(c)) /\ q.first \in Seq(Passing(c))
      /\ q.primary \in Seq(Passing(c)) /\ q.supplemental \in Seq(Passing(c))
      /\ Len(q.first) <= TopK /\ Len(q.primary) <= TopK /\ Len(q.supplemental) <= TopK
      /\ NoRepeat(q.primary \o q.supplemental)
  BY DEF QueryInv
<1>3. /\ primary \in Seq(Passing(c)) /\ Len(primary) = Len(q.primary)
      /\ \A i \in DOMAIN q.primary : primary[i].chunk = q.primary[i].chunk
      /\ supplemental \in Seq(Passing(c)) /\ Len(supplemental) = Len(q.supplemental)
      /\ \A i \in DOMAIN q.supplemental : supplemental[i].chunk = q.supplemental[i].chunk
  BY <1>1, <1>2
<1>4. Answered(q, fetched) = [q EXCEPT !.primary = primary, !.supplemental = supplemental, !.at = at]
  BY <1>2 DEF Answered, Query
<1>5. at \in {"insufficient", "answered"}
  OBVIOUS
<1> HIDE DEF primary, supplemental, at
<1>6. NoRepeat(primary \o supplemental)
  <2> DEFINE n == Len(primary) + Len(supplemental)
             old == q.primary \o q.supplemental
             new == primary \o supplemental
  <2>1. /\ Len(primary) \in Nat /\ Len(supplemental) \in Nat
        /\ DOMAIN q.primary = 1..Len(primary) /\ DOMAIN q.supplemental = 1..Len(supplemental)
    BY <1>2, <1>3, LenProperties
  <2>2. /\ old \in Seq(Passing(c)) /\ Len(old) = n
        /\ \A i \in 1..n : old[i] = IF i <= Len(primary) THEN q.primary[i]
                                    ELSE q.supplemental[i - Len(primary)]
    <3>1. q.primary \in Seq(Passing(c)) /\ q.supplemental \in Seq(Passing(c))
      BY <1>2
    <3>2. Len(q.primary) = Len(primary) /\ Len(q.supplemental) = Len(supplemental)
      BY <1>3
    <3>3. /\ old \in Seq(Passing(c)) /\ Len(old) = Len(q.primary) + Len(q.supplemental)
          /\ \A i \in 1..(Len(q.primary) + Len(q.supplemental)) :
               old[i] = IF i <= Len(q.primary) THEN q.primary[i]
                        ELSE q.supplemental[i - Len(q.primary)]
      BY <3>1, ConcatProperties
    <3> QED
      BY <3>2, <3>3
  <2>3. /\ new \in Seq(Passing(c)) /\ Len(new) = n
        /\ \A i \in 1..n : new[i] = IF i <= Len(primary) THEN primary[i]
                                    ELSE supplemental[i - Len(primary)]
    <3>1. primary \in Seq(Passing(c)) /\ supplemental \in Seq(Passing(c))
      BY <1>3
    <3> QED
      BY <3>1, ConcatProperties
  <2>4. DOMAIN old = 1..n /\ DOMAIN new = 1..n
    BY <2>2, <2>3, LenProperties
  <2>5. \A i \in 1..n : new[i].chunk = old[i].chunk
    <3> SUFFICES ASSUME NEW i \in 1..n PROVE new[i].chunk = old[i].chunk
      OBVIOUS
    <3>1. CASE i <= Len(primary)
      <4>1. i \in DOMAIN q.primary
        BY <2>1, <3>1
      <4> QED
        BY <1>3, <2>2, <2>3, <3>1, <4>1
    <3>2. CASE ~(i <= Len(primary))
      <4>1. i - Len(primary) \in DOMAIN q.supplemental
        BY <2>1, <3>2
      <4> QED
        BY <1>3, <2>2, <2>3, <3>2, <4>1
    <3> QED
      BY <3>1, <3>2
  <2> HIDE DEF n, old, new
  <2>6. NoRepeat(old)
    BY <1>2 DEF old
  <2>7. NoRepeat(new)
    BY <2>4, <2>5, <2>6 DEF NoRepeat
  <2> QED
    BY <2>7 DEF new
<1>7. primary \in Seq(Items) /\ supplemental \in Seq(Items)
  BY <1>3, PassingItems
<1>8. Answered(q, fetched) \in Query
  BY <1>2, <1>4, <1>5, <1>7 DEF Query, Over
<1>9. /\ Answered(q, fetched).filter = q.filter /\ Answered(q, fetched).hits = q.hits
      /\ Answered(q, fetched).first = q.first /\ Answered(q, fetched).at = at
      /\ Answered(q, fetched).primary = primary /\ Answered(q, fetched).supplemental = supplemental
  BY <1>2, <1>4 DEF Query
<1> QED
  BY <1>2, <1>3, <1>5, <1>6, <1>8, <1>9 DEF QueryInv

RetrievalInv ==
    /\ query \in [Caller -> Query]
    /\ \A c \in Caller : QueryInv(c, query[c])

LEMMA OneQueryMoves ==
    ASSUME RetrievalInv, NEW c \in Caller, NEW q, QueryInv(c, q),
           query' = [query EXCEPT ![c] = q]
    PROVE  RetrievalInv'
<1>1. q \in Query
  BY DEF QueryInv
<1>2. query' \in [Caller -> Query]
  BY <1>1 DEF RetrievalInv
<1>3. \A d \in Caller : query'[d] = IF d = c THEN q ELSE query[d]
  BY DEF RetrievalInv
<1>4. \A d \in Caller : QueryInv(d, query'[d])
  BY <1>3 DEF RetrievalInv
<1> QED
  BY <1>2, <1>4 DEF RetrievalInv, QueryInv, Query, Passing

LEMMA RetrievalFrame == ASSUME RetrievalInv, query' = query PROVE RetrievalInv'
BY DEF RetrievalInv, QueryInv, Query, Passing

\* Whatever fails, the query goes on as the code says.
LEMMA FailedInv ==
    ASSUME RetrievalInv, NEW c \in Caller, query[c].at \in Searching
    PROVE  QueryInv(c, Failed(c))
<1>1. QueryInv(c, query[c])
  BY DEF RetrievalInv
<1>2. CASE query[c].at = "first"
  <2>1. Failed(c) = [NoQuery EXCEPT !.at = "unavailable"]
    BY <1>2 DEF Failed
  <2>2. QueryInv(c, NoQuery)
    BY NoQueryInv
  <2>3. [NoQuery EXCEPT !.at = "unavailable"] \in Query
    BY <2>2 DEF QueryInv, Query, Over
  <2> QED
    BY <2>1, <2>2, <2>3 DEF QueryInv, Query
<1>3. CASE query[c].at = "repair"
  <2>1. Failed(c) = Merged(query[c], <<>>)
    BY <1>3 DEF Failed
  <2>2. <<>> \in Seq(Passing(c)) /\ Len(<<>>) <= TopK
    BY EmptySeq, TopKType
  <2> QED
    BY <1>1, <2>1, <2>2, MergedInv
<1>4. CASE query[c].at = "expand"
  BY <1>1, <1>4, AnsweredInv DEF Failed
<1> QED
  BY <1>2, <1>3, <1>4 DEF Searching

LEMMA AskInv == ASSUME RetrievalInv, NEW c \in Caller, Ask(c) PROVE RetrievalInv'
<1> DEFINE q == [NoQuery EXCEPT !.at = "first", !.filter = Clearance[c]]
<1>1. QueryInv(c, NoQuery)
  BY NoQueryInv
<1>2. NoQuery \in Query
  BY <1>1 DEF QueryInv
<1>3. Clearance[c] \in SUBSET UNION {Clearance[d] : d \in Caller}
  OBVIOUS
<1>4. q \in Query
  BY <1>2, <1>3 DEF Query, Searching
<1>5. QueryInv(c, q)
  BY <1>1, <1>2, <1>4 DEF QueryInv, Query
<1> QED
  BY <1>5, OneQueryMoves DEF Ask

LEMMA SearchOverInv == ASSUME RetrievalInv, NEW c \in Caller, SearchOver(c) PROVE RetrievalInv'
<1>1. CASE answer[c] = "error"
  BY <1>1, FailedInv, OneQueryMoves DEF SearchOver, Searching
<1>2. CASE answer[c] # "error"
  <2> DEFINE q == query[c]
  <2>1. QueryInv(c, q) /\ q \in Query /\ q.at \in {"first", "repair"}
    BY DEF RetrievalInv, SearchOver
  <2>2. PICK hits \in HitList :
          query' = [query EXCEPT
                ![c].hits = @ \o Filtered(hits, query[c].filter),
                ![c].left = IF query[c].at = "first" THEN 0 ELSE @ - 1,
                ![c].at = IF query[c].at = "first" THEN "rank_first"
                          ELSE IF query[c].left > 1 THEN "repair" ELSE "rank_repair"]
    BY <1>2 DEF SearchOver
  <2> DEFINE found == q.hits \o Filtered(hits, q.filter)
             left == IF q.at = "first" THEN 0 ELSE q.left - 1
             at == IF q.at = "first" THEN "rank_first"
                   ELSE IF q.left > 1 THEN "repair" ELSE "rank_repair"
             new == [q EXCEPT !.hits = found, !.left = left, !.at = at]
  <2>3. query' = [query EXCEPT ![c] = new]
    BY <2>1, <2>2 DEF RetrievalInv, Query
  <2>4. found \in Seq(Passing(c))
    <3>1. hits \in Seq(Chunk) /\ q.filter \subseteq Clearance[c] /\ q.hits \in Seq(Passing(c))
      BY <2>1, RetrievalAssumption DEF QueryInv
    <3>2. Filtered(hits, q.filter) \in Seq(Passing(c))
      BY <3>1, FilteredFacts
    <3> QED
      BY <3>1, <3>2, ConcatProperties
  <2>5. left \in 0..MaxQueries /\ (at = "repair" => left > 0)
    <3>1. q.left \in 0..MaxQueries /\ (q.at = "repair" => q.left > 0)
      BY <2>1 DEF QueryInv, Query
    <3> QED
      BY <2>1, <3>1, TopKType
  <2>6. at \in {"rank_first", "repair", "rank_repair"}
    OBVIOUS
  <2> HIDE DEF found, left, at
  <2>7. found \in Seq(Items)
    BY <2>4, PassingItems
  <2>8. new \in Query
    BY <2>1, <2>5, <2>6, <2>7 DEF Query, Searching
  <2>9. QueryInv(c, new)
    BY <2>1, <2>4, <2>5, <2>8 DEF QueryInv, Query
  <2> HIDE DEF new
  <2> QED
    BY <2>3, <2>9, OneQueryMoves
<1> QED
  BY <1>1, <1>2

LEMMA RankFirstInv == ASSUME RetrievalInv, NEW c \in Caller, RankFirst(c) PROVE RetrievalInv'
<1> DEFINE q == query[c]
<1>1. QueryInv(c, q) /\ q \in Query /\ q.hits \in Seq(Passing(c))
  BY DEF RetrievalInv, QueryInv
<1>2. PICK items \in Rankings(q.hits), inTime \in BOOLEAN :
         query' = [query EXCEPT ![c] =
            IF ShouldRepair(items) /\ HasRewriter /\ inTime
            THEN [q EXCEPT !.at = "rewrite", !.first = items, !.hits = <<>>]
            ELSE Merged([q EXCEPT !.first = items], <<>>)]
  BY DEF RankFirst
<1>3. items \in Seq(Passing(c)) /\ Len(items) <= TopK /\ items \in Seq(Items)
  BY <1>1, RankingFacts, PassingItems
<1>4. <<>> \in Seq(Items) /\ <<>> \in Seq(Passing(c)) /\ Len(<<>>) <= TopK
  BY EmptySeq, TopKType
<1>5. QueryInv(c, [q EXCEPT !.at = "rewrite", !.first = items, !.hits = <<>>])
  BY <1>1, <1>3, <1>4 DEF QueryInv, Query
<1>6. QueryInv(c, Merged([q EXCEPT !.first = items], <<>>))
  <2>1. QueryInv(c, [q EXCEPT !.first = items])
    BY <1>1, <1>3 DEF QueryInv, Query
  <2> QED
    BY <1>4, <2>1, MergedInv
<1> HIDE DEF q
<1> QED
  BY <1>2, <1>5, <1>6, OneQueryMoves

LEMMA RewriteInv == ASSUME RetrievalInv, NEW c \in Caller, Rewrite(c) PROVE RetrievalInv'
<1>1. QueryInv(c, query[c]) /\ query \in [Caller -> Query]
  BY DEF RetrievalInv
<1>2. ASSUME NEW n \in 1..MaxQueries,
             query' = [query EXCEPT ![c].at = "repair", ![c].left = n, ![c].filter = FilterOf(query[c])]
      PROVE  RetrievalInv'
  <2> DEFINE q == [query[c] EXCEPT !.at = "repair", !.left = n]
  <2>1. n \in 0..MaxQueries /\ n > 0
    BY <1>2
  <2>2. query' = [query EXCEPT ![c] = q]
    BY <1>1, <1>2 DEF Query, FilterOf
  <2>3. QueryInv(c, q)
    BY <1>1, <2>1 DEF QueryInv, Query, Searching
  <2> HIDE DEF q
  <2> QED
    BY <2>2, <2>3, OneQueryMoves
<1>3. CASE query' = [query EXCEPT ![c] = Merged(query[c], <<>>)]
  <2>1. <<>> \in Seq(Passing(c)) /\ Len(<<>>) <= TopK
    BY EmptySeq, TopKType
  <2>2. QueryInv(c, Merged(query[c], <<>>))
    BY <1>1, <2>1, MergedInv
  <2> QED
    BY <1>3, <2>2, OneQueryMoves
<1> QED
  BY <1>2, <1>3 DEF Rewrite

LEMMA RankRepairInv == ASSUME RetrievalInv, NEW c \in Caller, RankRepair(c) PROVE RetrievalInv'
<1>1. QueryInv(c, query[c]) /\ query[c].hits \in Seq(Passing(c))
  BY DEF RetrievalInv, QueryInv
<1>2. PICK items \in Rankings(Distinct(query[c].hits)) :
         query' = [query EXCEPT ![c] = Merged(query[c], items)]
  BY DEF RankRepair
<1>3. Distinct(query[c].hits) \in Seq(Passing(c))
  BY <1>1, DistinctFacts
<1>4. items \in Seq(Passing(c)) /\ Len(items) <= TopK
  BY <1>3, RankingFacts
<1> QED
  BY <1>1, <1>2, <1>4, MergedInv, OneQueryMoves

\* No step of a query brings evidence that its caller may not see, nor a chunk twice.
LEMMA RetrievalStepInv ==
    ASSUME RetrievalInv, NEW c \in Caller, RetrievalStep(c)
    PROVE  RetrievalInv'
<1>1. CASE StartSearch(c)
  BY <1>1, RetrievalFrame DEF StartSearch
<1>2. CASE NoSearch(c)
  BY <1>2, FailedInv, OneQueryMoves DEF NoSearch
<1>3. CASE BlocksFetched(c)
  <2> DEFINE fetched == ParentsOf(query[c].primary \o query[c].supplemental)
  <2>1. QueryInv(c, Failed(c))
    BY <1>3, FailedInv DEF BlocksFetched, Searching
  <2>2. QueryInv(c, Answered(query[c], fetched))
    BY AnsweredInv DEF RetrievalInv
  <2> QED
    BY <1>3, <2>1, <2>2, OneQueryMoves DEF BlocksFetched
<1> QED
  BY <1>1, <1>2, <1>3, SearchOverInv, RankFirstInv, RewriteInv, RankRepairInv DEF RetrievalStep

LEMMA TimeOutInv == ASSUME RetrievalInv, NEW c \in Caller, TimeOut(c) PROVE RetrievalInv'
BY NoQueryInv, OneQueryMoves DEF TimeOut

-----------------------------------------------------------------------------
(* What the model is shown                                                 *)

BlocksOnce(items) ==
    \A i, j \in DOMAIN items :
        items[i].block = items[j].block => i = j \/ items[i].block = NoChunk

LEMMA SectionFacts ==
    ASSUME NEW items \in Seq(Items), NEW seen, NEW limit \in Nat
    PROVE  /\ Section(items, seen, limit) \in Seq(Items)
           /\ Len(Section(items, seen, limit)) <= limit
           /\ BlocksOnce(Section(items, seen, limit))
           /\ \A i \in DOMAIN Section(items, seen, limit) :
                \/ Section(items, seen, limit)[i].block = NoChunk
                \/ Section(items, seen, limit)[i].block \notin seen
<1> DEFINE fresh == {i \in DOMAIN items :
                       \/ items[i].block = NoChunk
                       \/ /\ items[i].block \notin seen
                          /\ \A j \in 1..(i - 1) : items[j].block # items[i].block}
           n == Cardinality(fresh)
           all == Picked(items, fresh)
           shown == Prefix(all, limit)
<1>1. DOMAIN items = 1..Len(items) /\ Len(items) \in Nat
  BY LenProperties
<1>2. fresh \in SUBSET (DOMAIN items)
  OBVIOUS
<1>3. /\ n \in 0..Len(items)
      /\ all \in Seq(Items)
      /\ DOMAIN all = 1..n
      /\ \A k \in 1..n : Nth(fresh, k) \in fresh /\ all[k] = items[Nth(fresh, k)]
      /\ \A k, l \in 1..n : k < l => Nth(fresh, k) < Nth(fresh, l)
  <2> HIDE DEF fresh
  <2> QED
    BY <1>2, PickedFacts
<1>4. \A k \in 1..n : all[k].block = NoChunk \/ all[k].block \notin seen
  BY <1>3
<1>5. ASSUME NEW k \in 1..n, NEW l \in 1..n, k < l, all[k].block = all[l].block
      PROVE  all[l].block = NoChunk
  <2>1. Nth(fresh, k) < Nth(fresh, l) /\ Nth(fresh, k) \in 1..Len(items) /\ Nth(fresh, l) \in fresh
    BY <1>1, <1>3, <1>5
  <2>2. Nth(fresh, l) \in 1..Len(items)
    BY <1>1, <2>1
  <2>3. Nth(fresh, k) \in 1..(Nth(fresh, l) - 1)
    BY <1>1, <2>1, <2>2
  <2>4. \A i \in fresh : items[i].block = NoChunk \/ \A j \in 1..(i - 1) : items[j].block # items[i].block
    OBVIOUS
  <2>5. items[Nth(fresh, k)].block = items[Nth(fresh, l)].block
    BY <1>3, <1>5
  <2> QED
    BY <1>3, <2>1, <2>3, <2>4, <2>5
<1> HIDE DEF fresh, n, all
<1>6. /\ shown \in Seq(Items) /\ Len(shown) <= limit
      /\ DOMAIN shown \subseteq DOMAIN all
      /\ \A i \in DOMAIN shown : shown[i] = all[i]
  BY <1>3, PrefixFacts
<1> HIDE DEF shown
<1>7. BlocksOnce(shown)
  <2> SUFFICES ASSUME NEW k \in DOMAIN shown, NEW l \in DOMAIN shown,
                      shown[k].block = shown[l].block, shown[k].block # NoChunk
               PROVE  k = l
    BY DEF BlocksOnce
  <2>1. k \in 1..n /\ l \in 1..n /\ all[k].block = all[l].block /\ all[k].block # NoChunk
    BY <1>3, <1>6
  <2>2. ~(k < l) /\ ~(l < k)
    BY <1>5, <2>1
  <2>3. n \in Nat
    BY <1>1, <1>3
  <2> QED
    BY <2>1, <2>2, <2>3
<1>8. \A i \in DOMAIN shown : shown[i].block = NoChunk \/ shown[i].block \notin seen
  BY <1>3, <1>4, <1>6
<1>9. Section(items, seen, limit) = shown
  BY DEF Section, shown, all, fresh
<1> QED
  BY <1>6, <1>7, <1>8, <1>9

LEMMA ArrangedType == ASSUME NEW items \in Seq(Items) PROVE Arranged(items) \in Seq(Items)
<1> DEFINE odd == {i \in DOMAIN items : i % 2 = 1}
           even == {i \in DOMAIN items : i % 2 = 0 /\ i > 2}
<1>1. CASE Len(items) <= 3
  BY <1>1 DEF Arranged
<1>2. CASE ~(Len(items) <= 3)
  <2>1. odd \in SUBSET (DOMAIN items) /\ even \in SUBSET (DOMAIN items)
    OBVIOUS
  <2>2. Arranged(items) = Picked(items, odd) \o Picked(items, even) \o <<items[2]>>
    BY <1>2 DEF Arranged
  <2> HIDE DEF odd, even
  <2>3. Picked(items, odd) \in Seq(Items) /\ Picked(items, even) \in Seq(Items)
    BY <2>1, PickedFacts
  <2>4. Len(items) \in Nat /\ 2 \in 1..Len(items)
    BY <1>2, LenProperties
  <2>5. items[2] \in Items
    BY <2>4, ElementOfSeq
  <2>6. <<items[2]>> \in Seq(Items)
    BY <2>5
  <2> QED
    BY <2>2, <2>3, <2>6, ConcatProperties
<1> QED
  BY <1>1, <1>2

\* No block is shown twice, in the same tier or in both.
LEMMA SnippetsOnce ==
    ASSUME NEW primary \in Seq(Items), NEW supplemental \in Seq(Items)
    PROVE  BlocksOnce(Snippets(primary, supplemental))
<1> DEFINE best == Arranged(Prefix(primary, RenderLimit))
           a == Section(best, {}, RenderLimit)
           blocks == {a[i].block : i \in DOMAIN a}
           b == Section(supplemental, blocks, RenderLimit - Len(a))
<1>1. best \in Seq(Items)
  BY PrefixFacts, ArrangedType, TopKType
<1>2. a \in Seq(Items) /\ Len(a) <= RenderLimit /\ BlocksOnce(a)
  BY <1>1, SectionFacts, TopKType
<1>3. Snippets(primary, supplemental) = a \o b
  BY DEF Snippets
<1> HIDE DEF best, a
<1>4. Len(a) \in Nat /\ RenderLimit - Len(a) \in Nat
  <2>1. Len(a) \in Nat
    BY <1>2, LenProperties
  <2> QED
    BY <1>2, <2>1, TopKType
<1>5. /\ b \in Seq(Items) /\ BlocksOnce(b)
      /\ \A k \in DOMAIN b : b[k].block = NoChunk \/ b[k].block \notin blocks
  BY <1>4, SectionFacts
<1>6. \A k \in DOMAIN b : \A i \in DOMAIN a : b[k].block = NoChunk \/ b[k].block # a[i].block
  BY <1>5
<1> HIDE DEF b, blocks
<1>7. /\ DOMAIN a = 1..Len(a) /\ Len(a) \in Nat
      /\ DOMAIN b = 1..Len(b) /\ Len(b) \in Nat
  BY <1>2, <1>5, LenProperties
<1>8. /\ a \o b \in Seq(Items)
      /\ Len(a \o b) = Len(a) + Len(b)
      /\ \A i \in 1..(Len(a) + Len(b)) : (a \o b)[i] = IF i <= Len(a) THEN a[i] ELSE b[i - Len(a)]
  BY <1>2, <1>5, ConcatProperties
<1>9. DOMAIN (a \o b) = 1..(Len(a) + Len(b))
  BY <1>8, LenProperties
<1> SUFFICES ASSUME NEW i \in 1..(Len(a) + Len(b)), NEW j \in 1..(Len(a) + Len(b)),
                    (a \o b)[i].block = (a \o b)[j].block, (a \o b)[i].block # NoChunk
             PROVE  i = j
  BY <1>3, <1>9 DEF BlocksOnce
<1>10. CASE i <= Len(a) /\ j <= Len(a)
  <2>1. i \in DOMAIN a /\ j \in DOMAIN a /\ a[i].block = a[j].block /\ a[i].block # NoChunk
    BY <1>7, <1>8, <1>10
  <2> QED
    BY <1>2, <2>1 DEF BlocksOnce
<1>11. CASE i <= Len(a) /\ j > Len(a)
  <2>1. i \in DOMAIN a /\ j - Len(a) \in DOMAIN b /\ a[i].block = b[j - Len(a)].block /\ a[i].block # NoChunk
    BY <1>7, <1>8, <1>11
  <2> QED
    BY <1>6, <2>1
<1>12. CASE i > Len(a) /\ j <= Len(a)
  <2>1. j \in DOMAIN a /\ i - Len(a) \in DOMAIN b /\ a[j].block = b[i - Len(a)].block /\ a[j].block # NoChunk
    BY <1>7, <1>8, <1>12
  <2> QED
    BY <1>6, <2>1
<1>13. CASE i > Len(a) /\ j > Len(a)
  <2>1. /\ i - Len(a) \in DOMAIN b /\ j - Len(a) \in DOMAIN b
        /\ b[i - Len(a)].block = b[j - Len(a)].block /\ b[i - Len(a)].block # NoChunk
    BY <1>7, <1>8, <1>13
  <2>2. i - Len(a) = j - Len(a)
    BY <1>5, <2>1 DEF BlocksOnce
  <2> QED
    BY <1>7, <2>2
<1> QED
  BY <1>7, <1>10, <1>11, <1>12, <1>13

\* The evidence of every query is sound.
LEMMA SoundEvidence == RetrievalInv => EvidenceSound
<1> SUFFICES ASSUME RetrievalInv, NEW c \in Caller
             PROVE  /\ \A i \in DOMAIN Evidence(c) : Level[Evidence(c)[i].chunk] \in Clearance[c]
                    /\ \A i, j \in DOMAIN Evidence(c) :
                         Evidence(c)[i].chunk = Evidence(c)[j].chunk => i = j
                    /\ BlocksOnce(Snippets(query[c].primary, query[c].supplemental))
  BY DEF EvidenceSound, BlocksOnce
<1>1. /\ query[c].primary \in Seq(Passing(c)) /\ query[c].supplemental \in Seq(Passing(c))
      /\ NoRepeat(Evidence(c))
  BY DEF RetrievalInv, QueryInv, Evidence
<1>2. Evidence(c) \in Seq(Passing(c))
  BY <1>1, ConcatProperties DEF Evidence
<1>3. \A i \in DOMAIN Evidence(c) : Evidence(c)[i] \in Passing(c)
  BY <1>2, LenProperties
<1>4. query[c].primary \in Seq(Items) /\ query[c].supplemental \in Seq(Items)
  BY <1>1, PassingItems
<1> QED
  BY <1>1, <1>3, <1>4, SnippetsOnce DEF Passing, NoRepeat


-----------------------------------------------------------------------------
(* What is true of a call on its way                                       *)

\* No configured system has what the call asks for.
Nowhere(input) ==
    input.name \notin Umbrella => \A s \in ToSet(Systems) : Page(s, input) = {}

\* A call that runs has passed the gate, its agent's call too; it waits where
\* its arguments lead it.  A system that is not still to be asked has nothing.
CallInv(x) ==
    /\ x \in CallRecord
    /\ x.at # "told" => Taken(x.input) = "start"
    /\ x.at \notin {"told", "agent"} => (x.input.agent => LeafTaken(x.input))
    /\ x.told = "blocked" <=> Taken(x.input) = "blocked"
    /\ x.at = "agent" => x.input.agent
    /\ x.at \in {"start", "pause"} => x.tries <= 1
    /\ x.at = "coordinates" => Locates(x.input)
    /\ x.at = "read" => x.todo # <<>> /\ x.input.tool \in DOMAIN ReadPlan
    /\ x.at = "knowledge" => x.input.tool = "knowledge_query"
    /\ x.at = "lookup" => /\ LooksUp(x.input)
                          /\ x.todo # <<>>
                          /\ x.input.name \notin Umbrella =>
                               \A s \in ToSet(Systems) \ ToSet(x.todo) : Page(s, x.input) = {}
    /\ x.at = "dictionary" => /\ x.input.tool = "propose_control"
                              /\ \E d \in Device : x.hits = {d} /\ DeviceId(x.input, d) # BadId
    /\ x.told = "none_found" => Nowhere(x.input)

CallsInv ==
    /\ call \in [Caller -> CallRecord]
    /\ \A c \in Caller : CallInv(call[c])

LEMMA OneCallMoves ==
    ASSUME CallsInv, NEW c \in Caller, NEW x, CallInv(x),
           call' = [call EXCEPT ![c] = x], permissions' = permissions
    PROVE  CallsInv'
<1>1. x \in CallRecord
  BY DEF CallInv
<1>2. call' \in [Caller -> CallRecord]
  BY <1>1 DEF CallsInv
<1>3. \A d \in Caller : call'[d] = IF d = c THEN x ELSE call[d]
  BY DEF CallsInv
<1>4. \A d \in Caller : CallInv(call'[d])
  BY <1>3 DEF CallsInv
<1>5. ASSUME NEW y, CallInv(y) PROVE CallInv(y)'
  BY <1>5 DEF CallInv, CallRecord, Taken, LeafTaken, Nowhere
<1> QED
  BY <1>2, <1>4, <1>5 DEF CallsInv

LEMMA CallsFrame == ASSUME CallsInv, UNCHANGED <<call, permissions>> PROVE CallsInv'
<1>1. ASSUME NEW y, CallInv(y) PROVE CallInv(y)'
  BY <1>1 DEF CallInv, CallRecord, Taken, LeafTaken, Nowhere
<1> QED
  BY <1>1 DEF CallsInv

\* What the two tools are given.
LEMMA InputFacts ==
    ASSUME NEW input \in Input
    PROVE  /\ input.tool = "device_status" => input.name \in Word
           /\ input.tool = "propose_control" =>
                /\ input.name \in Word \cup {NoName}
                /\ input.device \in Device \cup {NoDevice, BadId}
                /\ input.point \in Device \cup {NoDevice}
                /\ input.param \in Word /\ input.value \in Word
BY DEF Input, Plain

\* The ways of a call through the gate.
LEMMA TakenFacts ==
    ASSUME NEW input \in Input
    PROVE  /\ Taken(input) \in {"none", "unknown_tool", "blocked", "pending", "start"}
           /\ input.agent \in BOOLEAN
           /\ input.tool # "facility_agent"
<1>1. input.agent \in BOOLEAN /\ input.tool # "facility_agent"
  BY DEF Input, Plain
<1> QED
  BY <1>1 DEF Taken

LEMMA CatalogFacts ==
    /\ DOMAIN Catalog = TopTools \cup FacilityLeaves
    /\ DOMAIN ReadPlan = {"record_query", "device_health", "energy_query"}
    /\ Catalog["propose_control"] = "device:control"
    /\ Catalog["execute_proposal"] = "device:control"
<1>1. DOMAIN Catalog = TopTools \cup FacilityLeaves
  BY DEF Catalog
<1>2. DOMAIN ReadPlan = {"record_query", "device_health", "energy_query"}
  BY DEF ReadPlan
<1>3. "propose_control" \in TopTools /\ "execute_proposal" \in TopTools
  BY DEF TopTools
<1>4. Catalog["propose_control"] = "device:control" /\ Catalog["execute_proposal"] = "device:control"
  BY <1>3 DEF Catalog, LifeTools
<1> QED
  BY <1>1, <1>2, <1>4

LEMMA ToolKinds ==
    ASSUME NEW input, input.tool \in {"device_status", "propose_control"}
    PROVE  Locates(input) \/ Nameless(input) \/ LooksUp(input)
BY DEF Locates, Nameless, LooksUp

LEMMA StartedFacts ==
    ASSUME NEW input \in Input, Taken(input) = "start", input.agent => LeafTaken(input)
    PROVE  /\ \/ Locates(input) \/ Nameless(input) \/ LooksUp(input)
              \/ input.tool \in LifeTools \cup {"knowledge_query"} \cup DOMAIN ReadPlan
           /\ input.tool = "propose_control" => "device:control" \in permissions
<1>1. input.agent \in BOOLEAN /\ input.tool # "facility_agent"
  BY TakenFacts
<1>2. CASE input.agent
  <2>1. input.tool \in FacilityLeaves /\ Permitted(input.tool, permissions)
    BY <1>2 DEF LeafTaken, Registry, Verdict
  <2> QED
    BY <2>1, CatalogFacts, ToolKinds DEF FacilityLeaves, Permitted
<1>3. CASE ~input.agent
  <2>1. input.tool \in Registry(FALSE) /\ Verdict(input.tool, permissions) = "allow"
    BY <1>1, <1>3 DEF Taken, Verdict
  <2>2. input.tool \in TopTools \cup FacilityLeaves /\ input.tool # "execute_proposal"
        /\ Permitted(input.tool, permissions)
    BY <2>1 DEF Registry, Catalog, Verdict, IsControl
  <2> QED
    BY <1>1, <2>2, CatalogFacts, ToolKinds DEF FacilityLeaves, TopTools, LifeTools, Permitted
<1> QED
  BY <1>1, <1>2, <1>3


LEMMA EmptyTodo == <<>> \in Seq(System \cup {"must", "may"}) /\ {} \in SUBSET Device
BY EmptySeq

LEMMA OneCall == ASSUME CallsInv, NEW c \in Caller PROVE CallInv(call[c]) /\ call[c] \in CallRecord
BY DEF CallsInv

\* A call that ends has been let through, and is not said to be blocked.
LEMMA FinishedInv ==
    ASSUME CallsInv, NEW c \in Caller, ~Told(c),
           NEW how \in {"ok", "none_found", "error", "timeout", "failed"},
           how = "none_found" => Nowhere(call[c].input)
    PROVE  /\ CallInv(Finished(c, how))
           /\ CallInv([Finished(c, how) EXCEPT !.at = "told"])
<1>1. /\ call[c] \in CallRecord /\ Taken(call[c].input) = "start"
      /\ call[c].input.agent \in BOOLEAN
  <2>1. call[c] \in CallRecord /\ Taken(call[c].input) = "start"
    BY OneCall DEF CallInv, Told
  <2> QED
    BY <2>1, TakenFacts DEF CallRecord
<1> DEFINE x == Finished(c, how)
           y == [x EXCEPT !.at = "told"]
<1>2. /\ x \in CallRecord /\ x.input = call[c].input /\ x.told = how
      /\ x.at = IF call[c].input.agent THEN "agent" ELSE "told"
  BY <1>1, EmptyTodo DEF Finished, CallRecord
<1>3. y \in CallRecord /\ y.input = call[c].input /\ y.told = how /\ y.at = "told"
  BY <1>2 DEF CallRecord
<1> HIDE DEF x, y
<1>4. CallInv(x)
  BY <1>1, <1>2 DEF CallInv
<1>5. CallInv(y)
  BY <1>1, <1>3 DEF CallInv
<1> QED
  BY <1>4, <1>5 DEF x, y

LEMMA CrashedInv ==
    ASSUME CallsInv, NEW c \in Caller, call[c].at \notin {"told", "agent"}
    PROVE  CallInv(Crashed(c))
<1>1. CASE call[c].tries < 2
  <2> DEFINE x == [call[c] EXCEPT !.at = "pause", !.todo = <<>>, !.hits = {}]
  <2>1. CallInv(call[c]) /\ call[c] \in CallRecord /\ call[c].tries \in 0..2
    BY OneCall DEF CallRecord
  <2>2. /\ x \in CallRecord /\ x.input = call[c].input /\ x.told = call[c].told
        /\ x.at = "pause" /\ x.tries = call[c].tries
    BY <2>1, EmptyTodo DEF CallRecord
  <2>3. x.tries <= 1
    BY <1>1, <2>1, <2>2
  <2>4. Crashed(c) = x
    BY <1>1 DEF Crashed
  <2> HIDE DEF x
  <2> QED
    BY <2>1, <2>2, <2>3, <2>4 DEF CallInv
<1>2. CASE ~(call[c].tries < 2)
  BY <1>2, FinishedInv DEF Crashed, Told
<1> QED
  BY <1>1, <1>2

LEMMA EntryInv == ASSUME NEW input \in Input PROVE CallInv(Entry(input))
<1> DEFINE x == Entry(input)
           taken == Taken(input)
           at == CASE taken # "start" -> "told"
                   [] taken = "start" /\ input.agent /\ ~LeafTaken(input) -> "agent"
                   [] OTHER -> "start"
           told == IF taken = "start" THEN "none" ELSE taken
<1>1. /\ taken \in {"none", "unknown_tool", "blocked", "pending", "start"}
      /\ input.agent \in BOOLEAN
  BY TakenFacts
<1>2. x = [NoCall EXCEPT !.input = input, !.told = told, !.at = at]
  BY DEF Entry
<1>3. /\ at \in {"told", "agent", "start"}
      /\ at # "told" => taken = "start"
      /\ at = "agent" => input.agent
      /\ at = "start" => (input.agent => LeafTaken(input))
      /\ told \in {"none", "unknown_tool", "blocked", "pending"}
      /\ told = "blocked" <=> taken = "blocked"
  <2> HIDE DEF taken
  <2> QED
    BY <1>1
<1> HIDE DEF at, told
<1>4. x = [input |-> input, at |-> at, tries |-> 0, todo |-> <<>>, hits |-> {}, handle |-> 0,
           told |-> told]
  BY <1>2 DEF NoCall
<1> HIDE DEF x, taken
<1>6. /\ x \in CallRecord /\ x.input = input /\ x.told = told /\ x.at = at /\ x.tries = 0
  BY <1>3, <1>4, EmptyTodo DEF CallRecord
<1>5. CallInv(x)
  BY <1>3, <1>6 DEF CallInv, taken
<1> QED
  BY <1>5 DEF x


\* Whatever stands at the given places is picked.
LEMMA PickedEvery ==
    ASSUME NEW S, NEW s \in Seq(S), NEW places \in SUBSET (DOMAIN s), NEW i \in places
    PROVE  \E k \in DOMAIN Picked(s, places) : Picked(s, places)[k] = s[i]
<1>1. IsFiniteSet(places) /\ places \in SUBSET Nat
  BY PlacesFinite
<1>2. PICK k \in 1..Cardinality(places) : Nth(places, k) = i
  BY <1>1, PlaceRank
<1> QED
  BY <1>2, PickedFacts

\* The fallback reaches every configured system.
LEMMA RouteFacts ==
    ASSUME NEW input \in Input, LooksUp(input)
    PROVE  /\ Route(input) \in Seq(System) /\ Route(input) # <<>>
           /\ input.name \notin Umbrella => ToSet(Systems) \subseteq ToSet(Route(input))
<1> DEFINE primary == SystemFor[input.name]
           others == {i \in DOMAIN Systems : Systems[i] # primary}
           rest == Picked(Systems, others)
<1>1. input.name \in Word
  BY InputFacts DEF LooksUp, Locates, Nameless
<1>2. primary \in System /\ ToSet(Systems) \subseteq System
  BY <1>1 DEF System
<1>3. Systems \in Seq(ToSet(Systems))
  BY ToolAssumption
<1>4. others \in SUBSET (DOMAIN Systems)
  OBVIOUS
<1>5. Systems \in Seq(System)
  BY <1>2, <1>3, SeqMonotonic
<1>6. /\ rest \in Seq(System)
      /\ \A i \in others : \E k \in DOMAIN rest : rest[k] = Systems[i]
  <2> HIDE DEF others
  <2> QED
    BY <1>4, <1>5, PickedFacts, PickedEvery
<1>7. /\ Route(input) = IF input.name \in Umbrella THEN <<primary>> ELSE <<primary>> \o rest
      /\ \A i \in DOMAIN Systems : i \notin others => Systems[i] = primary
  BY DEF Route
<1> HIDE DEF primary, others, rest
<1>8. <<primary>> \in Seq(System) /\ Len(<<primary>>) = 1 /\ <<primary>>[1] = primary
  BY <1>2
<1>9. /\ <<primary>> \o rest \in Seq(System)
      /\ Len(<<primary>> \o rest) = 1 + Len(rest)
      /\ \A i \in 1..(1 + Len(rest)) :
           (<<primary>> \o rest)[i] = IF i <= 1 THEN <<primary>>[i] ELSE rest[i - 1]
  <2>1. \A i \in 1..(Len(<<primary>>) + Len(rest)) :
          (<<primary>> \o rest)[i] = IF i <= Len(<<primary>>) THEN <<primary>>[i]
                                     ELSE rest[i - Len(<<primary>>)]
    BY <1>6, <1>8, ConcatProperties
  <2> QED
    BY <1>6, <1>8, <2>1, ConcatProperties
<1>10. ASSUME NEW s \in ToSet(Systems) PROVE s \in ToSet(<<primary>> \o rest)
  <2>1. PICK i \in DOMAIN Systems : s = Systems[i]
    BY DEF ToSet
  <2>2. DOMAIN (<<primary>> \o rest) = 1..(1 + Len(rest)) /\ DOMAIN rest = 1..Len(rest) /\ Len(rest) \in Nat
    BY <1>6, <1>9, LenProperties
  <2>3. CASE i \in others
    <3>1. PICK k \in DOMAIN rest : rest[k] = s
      BY <1>6, <2>1, <2>3
    <3>2. k + 1 \in 1..(1 + Len(rest)) /\ (<<primary>> \o rest)[k + 1] = s
      BY <1>9, <2>2, <3>1
    <3> QED
      BY <2>2, <3>2 DEF ToSet
  <2>4. CASE i \notin others
    <3>1. 1 \in 1..(1 + Len(rest)) /\ (<<primary>> \o rest)[1] = s
      BY <1>7, <1>8, <1>9, <2>1, <2>2, <2>4
    <3> QED
      BY <2>2, <3>1 DEF ToSet
  <2> QED
    BY <2>3, <2>4
<1>11. <<primary>> \o rest # <<>> /\ <<primary>> # <<>>
  <2>1. Len(rest) \in Nat
    BY <1>6, LenProperties
  <2>2. Len(<<primary>> \o rest) # 0
    BY <1>9, <2>1
  <2> QED
    BY <1>8, <2>2, EmptySeq
<1> QED
  BY <1>7, <1>8, <1>9, <1>10, <1>11


-----------------------------------------------------------------------------
(* Every step of a call keeps what is true of the calls                    *)

LEMMA EndsInv ==
    ASSUME CallsInv, NEW c \in Caller, ~Told(c), permissions' = permissions,
           NEW how \in {"ok", "none_found", "error", "timeout", "failed"},
           how = "none_found" => Nowhere(call[c].input),
           \/ Ends(c, how)
           \/ call' = [call EXCEPT ![c] = [Finished(c, how) EXCEPT !.at = "told"]]
    PROVE  CallsInv'
BY FinishedInv, OneCallMoves DEF Ends

LEMMA RegisterCalls ==
    ASSUME CallsInv, proposals \in Seq(Written), NEW c \in Caller, NEW d, NEW write,
           call[c].at \notin {"told", "agent"}, Register(c, d, write)
    PROVE  CallsInv'
<1>1. PICK done \in Puts : call' = [call EXCEPT ![c] = Confirmed(c, done)]
  BY DEF Register
<1>2. CallInv(Confirmed(c, done))
  <2>1. CASE done = Returned
    <3> DEFINE x == Finished(c, "ok")
               y == [x EXCEPT !.handle = Len(proposals) + 1]
    <3>1. CallInv(x) /\ x \in CallRecord
      BY FinishedInv DEF Told, CallInv
    <3>2. Len(proposals) + 1 \in Nat
      BY LenProperties
    <3> HIDE DEF x
    <3>3. /\ y \in CallRecord /\ y.input = x.input /\ y.told = x.told /\ y.at = x.at
          /\ y.tries = x.tries /\ y.todo = x.todo /\ y.hits = x.hits
      BY <3>1, <3>2 DEF CallRecord
    <3> HIDE DEF y
    <3>4. CallInv(y)
      BY <3>1, <3>3 DEF CallInv
    <3> QED
      BY <2>1, <3>4 DEF Confirmed, x, y
  <2>2. CASE done # Returned
    BY <2>2, CrashedInv DEF Confirmed
  <2> QED
    BY <2>1, <2>2
<1>3. permissions' = permissions
  BY DEF Register, who
<1> QED
  BY <1>1, <1>2, <1>3, OneCallMoves

LEMMA GroundForCalls ==
    ASSUME CallsInv, proposals \in Seq(Written), NEW c \in Caller, NEW d \in Device,
           call[c].at \notin {"told", "agent"}, call[c].input.tool = "propose_control",
           GroundFor(c, d)
    PROVE  CallsInv'
<1> DEFINE input == call[c].input
<1>1. CASE DeviceId(input, d) = BadId
  BY <1>1, EndsInv DEF GroundFor, Told, UnchangedButCall, who
<1>2. CASE DeviceId(input, d) # BadId /\ IsDoorAction(d \in DoorDevice, input.param, input.value)
  BY <1>2, RegisterCalls DEF GroundFor
<1>3. CASE /\ DeviceId(input, d) # BadId
           /\ ~IsDoorAction(d \in DoorDevice, input.param, input.value)
  <2> DEFINE x == Coordinates(c, d)
  <2>1. call' = [call EXCEPT ![c] = x] /\ permissions' = permissions
    BY <1>3 DEF GroundFor, UnchangedButCall, who
  <2>2. CallInv(call[c]) /\ call[c] \in CallRecord
    BY OneCall
  <2>3. {d} \in SUBSET Device
    OBVIOUS
  <2>4. /\ x \in CallRecord /\ x.input = input /\ x.told = call[c].told /\ x.at = "dictionary"
        /\ x.hits = {d}
    BY <2>2, <2>3, EmptyTodo DEF Coordinates, CallRecord
  <2> HIDE DEF x
  <2>5. CallInv(x)
    BY <1>3, <2>2, <2>4 DEF CallInv
  <2> QED
    BY <2>1, <2>5, OneCallMoves
<1> QED
  BY <1>1, <1>2, <1>3

\* What a call becomes when its handler starts.
Began(c, place, todo) ==
    [call[c] EXCEPT !.at = place, !.todo = todo, !.tries = @ + 1]

LEMMA StartCases ==
    ASSUME CallsInv, NEW c \in Caller, Start(c)
    PROVE  LET input == call[c].input IN
           \/ /\ Locates(input)
              /\ call' = [call EXCEPT ![c] = Began(c, "coordinates", <<>>)] /\ UnchangedButCall
           \/ Nameless(input) /\ Ends(c, "error") /\ UnchangedButCall
           \/ input.tool \in LifeTools /\ Ends(c, "ok") /\ UnchangedButCall
           \/ /\ LooksUp(input)
              /\ call' = [call EXCEPT ![c] = Began(c, "lookup", Route(input))] /\ UnchangedButCall
           \/ /\ input.tool = "knowledge_query"
              /\ call' = [call EXCEPT ![c] = Began(c, "knowledge", <<>>)]
              /\ Ask(c) /\ UNCHANGED <<who, batch, storeVars, frozen, settled>>
           \/ /\ input.tool \in DOMAIN ReadPlan
              /\ \E plan \in ReadPlan[input.tool] :
                   call' = [call EXCEPT ![c] = Began(c, "read", plan)]
              /\ UnchangedButCall
<1> DEFINE input == call[c].input
           Go(place, todo) ==
             call' = [call EXCEPT ![c].at = place, ![c].todo = todo, ![c].tries = @ + 1]
<1>1. CallInv(call[c]) /\ call[c] \in CallRecord /\ call[c].at = "start"
  BY OneCall DEF Start
<1>2. input \in Input /\ Taken(input) = "start" /\ (input.agent => LeafTaken(input))
  BY <1>1 DEF CallInv, CallRecord
<1>3. \/ Locates(input) \/ Nameless(input) \/ LooksUp(input)
      \/ input.tool \in LifeTools \cup {"knowledge_query"} \cup DOMAIN ReadPlan
  BY <1>2, StartedFacts
<1>4. ASSUME NEW place, NEW todo, Go(place, todo)
      PROVE  call' = [call EXCEPT ![c] = Began(c, place, todo)]
  <2>1. call \in [Caller -> CallRecord]
    BY DEF CallsInv
  <2> QED
    BY <1>4, <2>1 DEF Began, CallRecord
<1>5. CASE Locates(input)
  <2>1. Go("coordinates", <<>>) /\ UnchangedButCall
    BY <1>5 DEF Start, Locates, Nameless, LooksUp, LifeTools, ReadPlan
  <2> QED
    BY <1>4, <1>5, <2>1
<1>6. CASE Nameless(input)
  BY <1>6 DEF Start, Locates, Nameless, LooksUp, LifeTools, ReadPlan
<1>7. CASE LooksUp(input)
  <2>1. Go("lookup", Route(input)) /\ UnchangedButCall
    BY <1>7 DEF Start, Locates, Nameless, LooksUp, LifeTools, ReadPlan
  <2> QED
    BY <1>4, <1>7, <2>1
<1>8. CASE input.tool \in LifeTools
  BY <1>8 DEF Start, Locates, Nameless, LooksUp, LifeTools, ReadPlan
<1>9. CASE input.tool = "knowledge_query"
  <2>1. Go("knowledge", <<>>) /\ Ask(c) /\ UNCHANGED <<who, batch, storeVars, frozen, settled>>
    BY <1>9 DEF Start, Locates, Nameless, LooksUp, LifeTools, ReadPlan
  <2> QED
    BY <1>4, <1>9, <2>1
<1>10. CASE input.tool \in DOMAIN ReadPlan
  <2>1. \E plan \in ReadPlan[input.tool] : Go("read", plan) /\ UnchangedButCall
    BY <1>10 DEF Start, Locates, Nameless, LooksUp, LifeTools, ReadPlan
  <2> QED
    BY <1>4, <1>10, <2>1
<1> QED
  BY <1>3, <1>5, <1>6, <1>7, <1>8, <1>9, <1>10


\* A read tool makes one request at least.
LEMMA PlanFacts ==
    ASSUME NEW tool \in DOMAIN ReadPlan, NEW plan \in ReadPlan[tool]
    PROVE  plan \in Seq(System \cup {"must", "may"}) /\ plan # <<>>
<1> DEFINE T == System \cup {"must", "may"}
<1>1. ReadPlan[tool] \in {RecordQuery, DeviceHealth, EnergyQuery}
  BY CatalogFacts DEF ReadPlan
<1>2. ASSUME NEW p \in Records PROVE p \in Seq(T) /\ Len(p) \in Nat \ {0} /\ DOMAIN p = 1..Len(p)
  <2>1. "must" \in T
    OBVIOUS
  <2> HIDE DEF T
  <2>2. p \in Seq(T) /\ p # <<>>
    <3>1. <<"must">> \in Seq(T) /\ <<"must", "must">> \in Seq(T) /\ <<"must", "must", "must">> \in Seq(T)
      BY <2>1
    <3>2. <<"must">> # <<>> /\ <<"must", "must">> # <<>> /\ <<"must", "must", "must">> # <<>>
      OBVIOUS
    <3> QED
      BY <1>2, <3>1, <3>2 DEF Records
  <2> QED
    BY <2>2, LenProperties, EmptySeq
<1>3. ASSUME NEW p \in Records PROVE RecordsAgain(p) \in Seq(T) /\ RecordsAgain(p) # <<>>
  <2> DEFINE more == [i \in DOMAIN p |-> "may"]
  <2>1. p \in Seq(T) /\ Len(p) \in Nat \ {0} /\ DOMAIN p = 1..Len(p)
    BY <1>2
  <2>2. more \in Seq(T)
    BY <2>1
  <2>3. RecordsAgain(p) = p \o more
    BY DEF RecordsAgain
  <2> HIDE DEF more, T
  <2>4. p \o more \in Seq(T) /\ Len(p \o more) = Len(p) + Len(more) /\ Len(more) \in Nat
    BY <2>1, <2>2, ConcatProperties, LenProperties
  <2>5. Len(p \o more) # 0
    BY <2>1, <2>4
  <2> QED
    BY <2>3, <2>4, <2>5, EmptySeq
<1>4. /\ <<"must", "may">> \in Seq(T) /\ <<"must">> \in Seq(T)
      /\ <<"must", "may">> # <<>> /\ <<"must">> # <<>>
  OBVIOUS
<1>5. \A p \in Records : p \in Seq(T) /\ p # <<>>
  BY <1>2, EmptySeq
<1> HIDE DEF T
<1>6. CASE ReadPlan[tool] = RecordQuery
  <2>1. plan \in Records \/ \E p \in Records : plan = RecordsAgain(p)
    BY <1>6 DEF RecordQuery
  <2> QED
    BY <1>3, <1>5, <2>1 DEF T
<1>7. CASE ReadPlan[tool] = DeviceHealth
  BY <1>4, <1>7 DEF DeviceHealth, T
<1>8. CASE ReadPlan[tool] = EnergyQuery
  BY <1>4, <1>8 DEF EnergyQuery, T
<1> QED
  BY <1>1, <1>6, <1>7, <1>8


LEMMA BeganFacts ==
    ASSUME CallsInv, NEW c \in Caller, call[c].at = "start",
           NEW place \in {"coordinates", "lookup", "read", "knowledge"},
           NEW todo \in Seq(System \cup {"must", "may"})
    PROVE  LET x == Began(c, place, todo) IN
           /\ x \in CallRecord /\ x.input = call[c].input /\ x.told = call[c].told
           /\ x.at = place /\ x.todo = todo
<1>1. call[c] \in CallRecord /\ CallInv(call[c])
  BY OneCall
<1>2. call[c].tries \in 0..2 /\ call[c].tries <= 1
  BY <1>1 DEF CallInv, CallRecord
<1>3. call[c].tries + 1 \in 0..2
  BY <1>2
<1> QED
  BY <1>1, <1>3 DEF Began, CallRecord

LEMMA StartCalls == ASSUME CallsInv, NEW c \in Caller, Start(c) PROVE CallsInv'
<1> DEFINE input == call[c].input
<1>1. /\ CallInv(call[c]) /\ call[c] \in CallRecord /\ call[c].at = "start" /\ ~Told(c)
      /\ Taken(input) = "start" /\ (input.agent => LeafTaken(input)) /\ input \in Input
  <2>1. CallInv(call[c]) /\ call[c] \in CallRecord /\ call[c].at = "start"
    BY OneCall DEF Start
  <2> QED
    BY <2>1 DEF Told, CallInv, CallRecord
<1>2. permissions' = permissions
  BY StartCases DEF UnchangedButCall, who
<1>3. ASSUME NEW place \in {"coordinates", "lookup", "read", "knowledge"},
             NEW todo \in Seq(System \cup {"must", "may"}),
             call' = [call EXCEPT ![c] = Began(c, place, todo)],
             place = "coordinates" => Locates(input),
             place = "read" => todo # <<>> /\ input.tool \in DOMAIN ReadPlan,
             place = "knowledge" => input.tool = "knowledge_query",
             place = "lookup" => /\ LooksUp(input)
                                 /\ todo # <<>>
                                 /\ input.name \notin Umbrella => ToSet(Systems) \subseteq ToSet(todo)
      PROVE  CallsInv'
  <2> DEFINE x == Began(c, place, todo)
  <2>1. /\ x \in CallRecord /\ x.input = input /\ x.told = call[c].told
        /\ x.at = place /\ x.todo = todo
    BY <1>1, BeganFacts
  <2> HIDE DEF x
  <2>2. CallInv(x)
    BY <1>1, <1>3, <2>1 DEF CallInv
  <2> QED
    BY <1>2, <1>3, <2>2, OneCallMoves DEF x
<1>4. CASE Locates(input) /\ call' = [call EXCEPT ![c] = Began(c, "coordinates", <<>>)]
  BY <1>3, <1>4, EmptyTodo
<1>5. CASE Nameless(input) /\ Ends(c, "error")
  BY <1>1, <1>2, <1>5, EndsInv
<1>6. CASE input.tool \in LifeTools /\ Ends(c, "ok")
  BY <1>1, <1>2, <1>6, EndsInv
<1>7. CASE LooksUp(input) /\ call' = [call EXCEPT ![c] = Began(c, "lookup", Route(input))]
  <2>1. /\ Route(input) \in Seq(System) /\ Route(input) # <<>>
        /\ input.name \notin Umbrella => ToSet(Systems) \subseteq ToSet(Route(input))
    BY <1>1, <1>7, RouteFacts
  <2>2. Route(input) \in Seq(System \cup {"must", "may"})
    BY <2>1, SeqMonotonic
  <2> QED
    BY <1>3, <1>7, <2>1, <2>2
<1>8. CASE /\ input.tool = "knowledge_query"
           /\ call' = [call EXCEPT ![c] = Began(c, "knowledge", <<>>)]
  BY <1>3, <1>8, EmptyTodo
<1>9. CASE /\ input.tool \in DOMAIN ReadPlan
           /\ \E plan \in ReadPlan[input.tool] :
                call' = [call EXCEPT ![c] = Began(c, "read", plan)]
  <2>1. PICK plan \in ReadPlan[input.tool] : call' = [call EXCEPT ![c] = Began(c, "read", plan)]
    BY <1>9
  <2>2. plan \in Seq(System \cup {"must", "may"}) /\ plan # <<>>
    BY <1>9, PlanFacts
  <2> QED
    BY <1>3, <1>9, <2>1, <2>2
<1> QED
  BY <1>4, <1>5, <1>6, <1>7, <1>8, <1>9, StartCases

LEMMA HeadAndTail ==
    ASSUME NEW S, NEW s \in Seq(S), s # <<>>
    PROVE  /\ Tail(s) \in Seq(S) /\ Head(s) \in S
           /\ ToSet(s) \subseteq {Head(s)} \cup ToSet(Tail(s))
<1>1. /\ Len(s) \in Nat /\ Len(s) # 0 /\ DOMAIN s = 1..Len(s)
  BY LenProperties, EmptySeq
<1>2. /\ Tail(s) \in Seq(S) /\ Head(s) = s[1] /\ Len(Tail(s)) = Len(s) - 1
      /\ \A i \in 1..(Len(s) - 1) : Tail(s)[i] = s[i + 1]
  BY <1>1, HeadTailProperties
<1>3. DOMAIN Tail(s) = 1..(Len(s) - 1)
  BY <1>2, LenProperties
<1>4. ASSUME NEW i \in DOMAIN s, i # 1 PROVE s[i] \in ToSet(Tail(s))
  <2>1. i - 1 \in 1..(Len(s) - 1) /\ Tail(s)[i - 1] = s[i]
    BY <1>1, <1>2, <1>4
  <2> QED
    BY <1>3, <2>1 DEF ToSet
<1> QED
  BY <1>1, <1>2, <1>4 DEF ToSet


LEMMA LookupCases ==
    ASSUME CallsInv, NEW c \in Caller, Lookup(c)
    PROVE  LET x == call[c]
               hits == Page(Head(x.todo), x.input) IN
           \/ /\ hits = {} /\ Tail(x.todo) # <<>>
              /\ call' = [call EXCEPT ![c] = [x EXCEPT !.todo = Tail(@)]] /\ UnchangedButCall
           \/ hits = {} /\ Tail(x.todo) = <<>> /\ Ends(c, "none_found") /\ UnchangedButCall
           \/ x.input.tool = "device_status" /\ Ends(c, "ok") /\ UnchangedButCall
           \/ Ends(c, "error") /\ UnchangedButCall
           \/ x.input.tool = "propose_control" /\ \E d \in hits : d \in Device /\ GroundFor(c, d)
<1> DEFINE x == call[c]
           hits == Page(Head(x.todo), x.input)
<1>1. x \in CallRecord /\ CallInv(x) /\ x.at = "lookup"
  BY OneCall DEF Lookup
<1>2. x.input.tool \in {"device_status", "propose_control"}
  BY <1>1 DEF CallInv, LooksUp
<1>3. hits \subseteq Device
  BY DEF Page
<1>4. CASE hits = {} /\ Tail(x.todo) # <<>>
  <2>1. call' = [call EXCEPT ![c].todo = Tail(@)] /\ UnchangedButCall
    BY <1>4 DEF Lookup
  <2>2. call' = [call EXCEPT ![c] = [x EXCEPT !.todo = Tail(@)]]
    BY <1>1, <2>1 DEF CallsInv, CallRecord
  <2> QED
    BY <1>4, <2>1, <2>2
<1>5. CASE ~(hits = {} /\ Tail(x.todo) # <<>>)
  <2>1. Looked(c, hits)
    BY <1>5 DEF Lookup
  <2>2. CASE x.input.tool = "device_status" \/ hits = {}
    BY <1>5, <2>1, <2>2 DEF Looked
  <2>3. CASE ~(x.input.tool = "device_status" \/ hits = {})
    <3>1. FirstHit(hits, x.input.name) \subseteq hits
      BY DEF FirstHit
    <3>2. \/ \E d \in FirstHit(hits, x.input.name) : GroundFor(c, d)
          \/ Ends(c, "error") /\ UnchangedButCall
      BY <2>1, <2>3 DEF Looked
    <3> QED
      BY <1>2, <1>3, <2>3, <3>1, <3>2
  <2> QED
    BY <2>2, <2>3
<1> QED
  BY <1>4, <1>5

LEMMA LookupCalls ==
    ASSUME CallsInv, proposals \in Seq(Written), NEW c \in Caller, Lookup(c)
    PROVE  CallsInv'
<1> DEFINE x == call[c]
           hits == Page(Head(x.todo), x.input)
<1>1. x \in CallRecord /\ CallInv(x) /\ x.at = "lookup" /\ ~Told(c)
  BY OneCall DEF Lookup, Told
<1>2. x.todo \in Seq(System \cup {"must", "may"}) /\ x.todo # <<>>
  BY <1>1 DEF CallInv, CallRecord
<1>3. /\ Tail(x.todo) \in Seq(System \cup {"must", "may"})
      /\ ToSet(x.todo) \subseteq {Head(x.todo)} \cup ToSet(Tail(x.todo))
  BY <1>2, HeadAndTail
<1>4. CASE /\ hits = {} /\ Tail(x.todo) # <<>> /\ UnchangedButCall
           /\ call' = [call EXCEPT ![c] = [x EXCEPT !.todo = Tail(@)]]
  <2> DEFINE y == [x EXCEPT !.todo = Tail(@)]
  <2>1. /\ y \in CallRecord /\ y.input = x.input /\ y.told = x.told /\ y.at = x.at
        /\ y.todo = Tail(x.todo)
    BY <1>1, <1>3 DEF CallRecord
  <2>2. x.input.name \notin Umbrella =>
          \A s \in ToSet(Systems) \ ToSet(Tail(x.todo)) : Page(s, x.input) = {}
    BY <1>1, <1>3, <1>4 DEF CallInv
  <2> HIDE DEF y
  <2>3. CallInv(y)
    BY <1>1, <1>4, <2>1, <2>2 DEF CallInv
  <2>4. permissions' = permissions
    BY <1>4 DEF UnchangedButCall, who
  <2> QED
    BY <1>4, <2>3, <2>4, OneCallMoves DEF y
<1>5. CASE hits = {} /\ Tail(x.todo) = <<>> /\ Ends(c, "none_found") /\ UnchangedButCall
  <2>1. ToSet(Tail(x.todo)) = {}
    BY <1>5 DEF ToSet
  <2>2. Nowhere(x.input)
    BY <1>1, <1>3, <1>5, <2>1 DEF CallInv, Nowhere
  <2> QED
    BY <1>1, <1>5, <2>2, EndsInv DEF UnchangedButCall, who
<1>6. CASE (Ends(c, "ok") \/ Ends(c, "error")) /\ UnchangedButCall
  BY <1>1, <1>6, EndsInv DEF UnchangedButCall, who
<1>7. CASE x.input.tool = "propose_control" /\ \E d \in hits : d \in Device /\ GroundFor(c, d)
  BY <1>1, <1>7, GroundForCalls
<1> QED
  BY <1>4, <1>5, <1>6, <1>7, LookupCases

LEMMA GivenCalls ==
    ASSUME CallsInv, proposals \in Seq(Written), NEW c \in Caller, Given(c)
    PROVE  CallsInv' /\ call[c].input.tool = "propose_control" /\ call[c].input.point \in Device
<1>1. CallInv(call[c]) /\ call[c] \in CallRecord /\ call[c].at = "coordinates"
  BY OneCall DEF Given
<1>2. call[c].input.tool = "propose_control" /\ call[c].input.point \in Device
  BY <1>1, InputFacts DEF CallInv, Locates, CallRecord
<1> QED
  BY <1>1, <1>2, GroundForCalls DEF Given

LEMMA DictionariesCalls ==
    ASSUME CallsInv, proposals \in Seq(Written), NEW c \in Caller, Dictionaries(c)
    PROVE  CallsInv'
<1>1. call[c].at \notin {"told", "agent"}
  BY DEF Dictionaries
<1> QED
  BY <1>1, RegisterCalls, EndsInv DEF Dictionaries, Told, UnchangedButCall, who

\* The steps that take no part in a control.
LEMMA ReadingCalls == ASSUME CallsInv, NEW c \in Caller, Reading(c) PROVE CallsInv'
<1> DEFINE x == call[c]
           y == [x EXCEPT !.todo = Tail(x.todo)]
<1>1. x \in CallRecord /\ CallInv(x) /\ x.at = "read" /\ ~Told(c) /\ permissions' = permissions
  BY OneCall DEF Reading, Told, UnchangedButCall, who
<1>2. x.todo \in Seq(System \cup {"must", "may"}) /\ x.todo # <<>>
  BY <1>1 DEF CallInv, CallRecord
<1>3. Tail(x.todo) \in Seq(System \cup {"must", "may"})
  BY <1>2, HeadAndTail
<1>4. CASE Tail(x.todo) = <<>>
  BY <1>1, <1>4, EndsInv DEF Reading, Ends
<1>5. CASE Tail(x.todo) # <<>>
  <2>1. call' = [call EXCEPT ![c] = y]
    BY <1>5 DEF Reading
  <2>2. /\ y \in CallRecord /\ y.input = x.input /\ y.told = x.told /\ y.at = x.at
        /\ y.todo = Tail(x.todo)
    BY <1>1, <1>3 DEF CallRecord
  <2> HIDE DEF y
  <2>3. CallInv(y)
    BY <1>1, <1>5, <2>2 DEF CallInv
  <2> QED
    BY <1>1, <2>1, <2>3, OneCallMoves
<1> QED
  BY <1>4, <1>5

LEMMA RetryCalls == ASSUME CallsInv, NEW c \in Caller, Retry(c) PROVE CallsInv'
<1> DEFINE x == call[c]
           y == [x EXCEPT !.at = "start"]
<1>1. x \in CallRecord /\ CallInv(x) /\ x.at = "pause" /\ permissions' = permissions
  BY OneCall DEF Retry, UnchangedButCall, who
<1>2. call' = [call EXCEPT ![c] = y]
  BY <1>1 DEF Retry, CallsInv, CallRecord
<1>3. /\ y \in CallRecord /\ y.input = x.input /\ y.told = x.told /\ y.at = "start" /\ y.tries = x.tries
  BY <1>1 DEF CallRecord
<1> HIDE DEF y
<1>4. CallInv(y)
  BY <1>1, <1>3 DEF CallInv
<1> QED
  BY <1>1, <1>2, <1>4, OneCallMoves

LEMMA EndingCalls ==
    ASSUME CallsInv, NEW c \in Caller,
           Refused(c) \/ Crash(c) \/ TimeOutCall(c) \/ TimeOutAgent(c) \/ AgentEnds(c) \/ KnowledgeAnswered(c)
    PROVE  CallsInv'
<1>1. CASE Refused(c)
  BY <1>1, EndsInv DEF Refused, AwaitingBackend, Told, UnchangedButCall, who
<1>2. CASE Crash(c)
  BY <1>2, CrashedInv, OneCallMoves DEF Crash, AwaitingBackend, UnchangedButCall, who
<1>3. CASE TimeOutCall(c)
  BY <1>3, EndsInv DEF TimeOutCall, AwaitingBackend, Told, who
<1>4. CASE TimeOutAgent(c)
  BY <1>4, EndsInv DEF TimeOutAgent, UnchangedButCall, who
<1>5. CASE AgentEnds(c)
  BY <1>5, EndsInv DEF AgentEnds, Told, UnchangedButCall, who
<1>6. CASE KnowledgeAnswered(c)
  BY <1>6, EndsInv DEF KnowledgeAnswered, Told, who
<1> QED
  BY <1>1, <1>2, <1>3, <1>4, <1>5, <1>6

\* Who is logged in, and what the model may still ask for.
SessionInv ==
    /\ session \in Sessions
    /\ permissions \in Login(session.user)
    /\ batch \in 0..Len(session.batches)

LEMMA BatchInputs ==
    ASSUME SessionInv, batch < Len(session.batches), NEW inputs \in session.batches[batch + 1]
    PROVE  inputs \in [Caller -> Input] /\ batch + 1 \in 0..Len(session.batches) /\ batch \in Nat
<1>1. session.batches \in Seq(SUBSET [Caller -> Input])
  BY ToolAssumption DEF SessionInv
<1>2. batch + 1 \in 1..Len(session.batches) /\ batch \in Nat
  BY <1>1, LenProperties DEF SessionInv
<1>3. session.batches[batch + 1] \in SUBSET [Caller -> Input]
  BY <1>1, <1>2, ElementOfSeq
<1> QED
  BY <1>2, <1>3

LEMMA AskToolsCalls == ASSUME CallsInv, SessionInv, AskTools PROVE CallsInv'
<1>1. PICK inputs \in session.batches[batch + 1] : call' = [c \in Caller |-> Entry(inputs[c])]
  BY DEF AskTools
<1>2. inputs \in [Caller -> Input]
  BY BatchInputs DEF AskTools
<1>3. \A c \in Caller : CallInv(call'[c]) /\ call'[c] \in CallRecord
  BY <1>1, <1>2, EntryInv DEF CallInv
<1>4. permissions' = permissions
  BY DEF AskTools, who
<1>5. ASSUME NEW y, CallInv(y) PROVE CallInv(y)'
  BY <1>4, <1>5 DEF CallInv, CallRecord, Taken, LeafTaken, Nowhere
<1>6. call' \in [Caller -> CallRecord]
  BY <1>1, <1>3
<1> QED
  BY <1>3, <1>5, <1>6 DEF CallsInv


-----------------------------------------------------------------------------
(* What is registered                                                      *)

\* A word that float() reads as "nan" is within every bound.
NoNaN == \A w \in Word : Number[w] # NaN

Lawful(p) ==
    /\ p.device # BadId
    /\ \/ Legal(TypeOf[p.point], Dictionary[p.point], p)
       \/ p.point \in DoorDevice /\ p.action = "doorControl" /\ p.value \in Opening

Registered(c) ==
    \E p \in Written, done \in Puts :
      /\ p.by = c /\ p.batch = batch
      /\ NoNaN => Lawful(p)
      /\ PutSome(p, done)
      /\ call' = [call EXCEPT ![c] = Confirmed(c, done)]

\* A grounded write is made of words.
LEMMA GroundedType ==
    ASSUME NEW type, NEW params \in Seq(Param), NEW key, NEW value \in Word,
           Ground(type, params, key, value).ok
    PROVE  /\ Ground(type, params, key, value).param \in Word
           /\ Ground(type, params, key, value).value \in Word
           /\ Ground(type, params, key, value).action \in {"deviceCtrl", "doorControl"}
<1> DEFINE i == MatchParam(params, key)
           p == params[i]
           resolved == ResolveValue(p, value)
<1>1. /\ i # 0 /\ resolved.ok
      /\ Ground(type, params, key, value) =
           [ok |-> TRUE, value |-> resolved.value, param |-> p.no,
            action |-> IF p.door THEN "doorControl" ELSE "deviceCtrl"]
  BY DEF Ground, Rejected
<1>2. i \in DOMAIN params
  BY <1>1, MatchIsARow
<1>3. p \in Param
  BY <1>2
<1>4. resolved.value \in Word
  <2>1. CASE p.states # <<>>
    <3>1. Able(p, value) # {} /\ resolved.value = p.states[First(Able(p, value))].value
      BY <1>1, <2>1 DEF ResolveValue, Rejected
    <3>2. Able(p, value) \in SUBSET Nat
      BY <1>3 DEF Able, AnyState, Param
    <3>3. First(Able(p, value)) \in Able(p, value)
      BY <3>1, <3>2, FirstOfFound
    <3>4. First(Able(p, value)) \in DOMAIN p.states
      BY <3>3 DEF Able, AnyState
    <3>5. p.states \in Seq([status : Word, value : Word, able : BOOLEAN])
      BY <1>3 DEF Param
    <3>6. p.states[First(Able(p, value))] \in [status : Word, value : Word, able : BOOLEAN]
      BY <3>4, <3>5, LenProperties, ElementOfSeq
    <3>7. p.states[First(Able(p, value))].value \in Word
      BY <3>6
    <3> QED
      BY <3>1, <3>7
  <2>2. CASE p.states = <<>>
    BY <1>1, <2>2 DEF ResolveValue, Rejected
  <2> QED
    BY <2>1, <2>2
<1> HIDE DEF i, p, resolved
<1> QED
  BY <1>1, <1>3, <1>4 DEF Param

LEMMA RegisterFacts ==
    ASSUME CallsInv, SessionInv, NEW c \in Caller, NEW d \in Device, NEW write,
           call[c].input.tool = "propose_control",
           write.param \in Word \cup {"channelControl"}, write.value \in Word,
           write.action \in {"deviceCtrl", "doorControl"},
           NoNaN => Lawful(Proposal(c, d, write)),
           Register(c, d, write)
    PROVE  Registered(c)
<1> DEFINE p == Proposal(c, d, write)
           input == call[c].input
<1>1. PICK done \in Puts : PutSome(p, done) /\ call' = [call EXCEPT ![c] = Confirmed(c, done)]
  BY DEF Register
<1>2. input \in Input /\ batch \in Nat
  <2>1. call[c] \in CallRecord
    BY OneCall
  <2>2. \A s \in Sessions : Len(s.batches) \in Nat
    BY ToolAssumption, LenProperties
  <2> QED
    BY <2>1, <2>2 DEF CallRecord, SessionInv
<1>3. DeviceId(input, d) \in Device \cup {NoDevice, BadId}
  BY <1>2, InputFacts DEF DeviceId
<1>4. /\ p = [by |-> c, batch |-> batch, input |-> input, device |-> DeviceId(input, d), point |-> d,
              param |-> write.param, value |-> write.value, action |-> write.action]
  BY DEF Proposal
<1>5. p \in Written /\ p.by = c /\ p.batch = batch
  BY <1>2, <1>3, <1>4 DEF Written
<1> HIDE DEF p
<1>6. NoNaN => Lawful(p)
  BY DEF p
<1> QED
  BY <1>1, <1>5, <1>6 DEF Registered

\* By name or by coordinates: a door is written to at once.
LEMMA GroundForFacts ==
    ASSUME CallsInv, SessionInv, NEW c \in Caller, NEW d \in Device,
           call[c].input.tool = "propose_control", GroundFor(c, d)
    PROVE  \/ Registered(c) /\ UNCHANGED <<who, batch, frozen, settled, retrievalVars>>
           \/ Ends(c, "error") /\ UnchangedButCall
           \/ call' = [call EXCEPT ![c] = Coordinates(c, d)] /\ UnchangedButCall
<1> DEFINE input == call[c].input
           write == DoorAction(input.param, input.value)
<1>1. input \in Input
  BY OneCall DEF CallRecord
<1>2. input.param \in Word /\ input.value \in Word
  BY <1>1, InputFacts
<1>3. CASE /\ DeviceId(input, d) # BadId
           /\ IsDoorAction(d \in DoorDevice, input.param, input.value)
  <2>1. Register(c, d, write)
    BY <1>3 DEF GroundFor
  <2>2. /\ write.param = "channelControl" /\ write.action = "doorControl"
        /\ write.value \in Opening /\ d \in DoorDevice
    BY <1>3 DEF DoorAction, IsDoorAction
  <2>3. write.value \in Word
    BY <2>2, GroundingAssumption
  <2> HIDE DEF write
  <2>4. Lawful(Proposal(c, d, write))
    BY <1>3, <2>2 DEF Lawful, Proposal
  <2> QED
    BY <2>1, <2>2, <2>3, <2>4, RegisterFacts DEF Register
<1> QED
  BY <1>3 DEF GroundFor

LEMMA DictionariesFacts ==
    ASSUME CallsInv, SessionInv, NEW c \in Caller, Dictionaries(c)
    PROVE  /\ call[c].input.tool = "propose_control"
           /\ \/ Registered(c) /\ UNCHANGED <<who, batch, frozen, settled, retrievalVars>>
              \/ Ends(c, "error") /\ UnchangedButCall
<1> DEFINE input == call[c].input
<1>1. CallInv(call[c]) /\ call[c] \in CallRecord /\ call[c].at = "dictionary"
  BY OneCall DEF Dictionaries
<1>2. /\ input.tool = "propose_control" /\ input \in Input
      /\ \E d \in Device : call[c].hits = {d} /\ DeviceId(input, d) # BadId
  BY <1>1 DEF CallInv, CallRecord
<1>3. PICK d \in Device : call[c].hits = {d} /\ DeviceId(input, d) # BadId
  BY <1>2
<1> DEFINE write == Ground(TypeOf[d], Dictionary[d], input.param, input.value)
<1>4. IF write.ok THEN Register(c, d, write) ELSE Ends(c, "error") /\ UnchangedButCall
  BY <1>3 DEF Dictionaries
<1>5. input.param \in Word /\ input.value \in Word
  BY <1>2, InputFacts
<1>6. CASE write.ok
  <2>1. Dictionary[d] \in Seq(Param)
    BY ToolAssumption
  <2>2. /\ write.param \in Word /\ write.value \in Word
        /\ write.action \in {"deviceCtrl", "doorControl"}
    BY <1>5, <1>6, <2>1, GroundedType
  <2>3. NoNaN => Legal(TypeOf[d], Dictionary[d], write)
    BY <1>5, <1>6, <2>1, GroundedIsLegal DEF NoNaN
  <2> HIDE DEF write
  <2>4. NoNaN => Lawful(Proposal(c, d, write))
    BY <1>3, <2>3 DEF Lawful, Proposal, Legal
  <2> QED
    BY <1>2, <1>4, <1>6, <2>2, <2>4, RegisterFacts DEF Register
<1>7. CASE ~write.ok
  BY <1>2, <1>4, <1>7
<1> QED
  BY <1>6, <1>7


\* A step of a call either registers a proposal or leaves the store alone, and
\* then it does not say that a control was registered.
Quiet(c) ==
    /\ UNCHANGED storeVars
    /\ \E x :
         /\ call' = [call EXCEPT ![c] = x]
         /\ x.input = call[c].input /\ x.handle = call[c].handle
         /\ x.told = "ok" /\ x.at = "told" /\ ~x.input.agent => x.input.tool # "propose_control"

LEMMA QuietEnds ==
    ASSUME CallsInv, NEW c \in Caller, UNCHANGED storeVars, NEW how,
           how = "ok" /\ ~call[c].input.agent => call[c].input.tool # "propose_control",
           \/ Ends(c, how)
           \/ call' = [call EXCEPT ![c] = [Finished(c, how) EXCEPT !.at = "told"]]
    PROVE  Quiet(c)
<1> DEFINE x == Finished(c, how)
           y == [x EXCEPT !.at = "told"]
<1>1. call[c] \in CallRecord
  BY OneCall
<1>2. x.input = call[c].input /\ x.handle = call[c].handle /\ x.told = how
  BY <1>1 DEF Finished, CallRecord
<1>3. y.input = call[c].input /\ y.handle = call[c].handle /\ y.told = how
  BY <1>1 DEF Finished, CallRecord
<1>4. call' = [call EXCEPT ![c] = x] \/ call' = [call EXCEPT ![c] = y]
  BY DEF Ends
<1> HIDE DEF x, y
<1> QED
  BY <1>2, <1>3, <1>4 DEF Quiet

\* A call that goes on, whatever it waits for next.
LEMMA QuietMoves ==
    ASSUME CallsInv, NEW c \in Caller, UNCHANGED storeVars, NEW x,
           call' = [call EXCEPT ![c] = x],
           x.input = call[c].input, x.handle = call[c].handle, x.at # "told"
    PROVE  Quiet(c)
BY DEF Quiet

LEMMA QuietCrash ==
    ASSUME CallsInv, NEW c \in Caller, UNCHANGED storeVars, call' = [call EXCEPT ![c] = Crashed(c)]
    PROVE  Quiet(c)
<1>1. call[c] \in CallRecord
  BY OneCall
<1>2. CASE call[c].tries < 2
  <2> DEFINE x == [call[c] EXCEPT !.at = "pause", !.todo = <<>>, !.hits = {}]
  <2>1. Crashed(c) = x
    BY <1>2 DEF Crashed
  <2>2. x.input = call[c].input /\ x.handle = call[c].handle /\ x.at = "pause"
    BY <1>1 DEF CallRecord
  <2> HIDE DEF x
  <2> QED
    BY <2>1, <2>2, QuietMoves
<1>3. CASE ~(call[c].tries < 2)
  BY <1>3, QuietEnds DEF Crashed, Ends
<1> QED
  BY <1>2, <1>3

LEMMA StartShape ==
    ASSUME CallsInv, NEW c \in Caller, Start(c)
    PROVE  Quiet(c) /\ UNCHANGED <<who, batch, frozen, settled>>
<1> DEFINE input == call[c].input
<1>1. call[c] \in CallRecord
  BY OneCall
<1>2. UNCHANGED <<who, batch, storeVars, frozen, settled>>
  BY StartCases DEF UnchangedButCall
<1>3. ASSUME NEW place \in {"coordinates", "lookup", "read", "knowledge"}, NEW todo,
             call' = [call EXCEPT ![c] = Began(c, place, todo)]
      PROVE  Quiet(c)
  <2> DEFINE x == Began(c, place, todo)
  <2>1. x.input = input /\ x.handle = call[c].handle /\ x.at = place
    BY <1>1 DEF Began, CallRecord
  <2>2. call' = [call EXCEPT ![c] = x]
    BY <1>3
  <2> HIDE DEF x
  <2> QED
    BY <1>2, <2>1, <2>2, QuietMoves DEF storeVars
<1>4. CASE Ends(c, "error")
  BY <1>2, <1>4, QuietEnds DEF storeVars
<1>5. CASE input.tool \in LifeTools /\ Ends(c, "ok")
  BY <1>2, <1>5, QuietEnds DEF storeVars, LifeTools
<1> QED
  BY <1>2, <1>3, <1>4, <1>5, StartCases

LEMMA CoordinatesShape ==
    ASSUME CallsInv, NEW c \in Caller, NEW d, UNCHANGED storeVars,
           call' = [call EXCEPT ![c] = Coordinates(c, d)]
    PROVE  Quiet(c)
<1> DEFINE x == Coordinates(c, d)
<1>1. call[c] \in CallRecord
  BY OneCall
<1>2. x.input = call[c].input /\ x.handle = call[c].handle /\ x.at = "dictionary"
  BY <1>1 DEF Coordinates, CallRecord
<1> HIDE DEF x
<1> QED
  BY <1>2, QuietMoves DEF x

LEMMA GroundForShape ==
    ASSUME CallsInv, SessionInv, NEW c \in Caller, NEW d \in Device,
           call[c].input.tool = "propose_control", GroundFor(c, d)
    PROVE  /\ Quiet(c) \/ Registered(c)
           /\ UNCHANGED <<who, batch, frozen, settled>>
<1>1. CASE Registered(c) /\ UNCHANGED <<who, batch, frozen, settled, retrievalVars>>
  BY <1>1
<1>2. CASE Ends(c, "error") /\ UnchangedButCall
  BY <1>2, QuietEnds DEF UnchangedButCall
<1>3. CASE call' = [call EXCEPT ![c] = Coordinates(c, d)] /\ UnchangedButCall
  BY <1>3, CoordinatesShape DEF UnchangedButCall
<1> QED
  BY <1>1, <1>2, <1>3, GroundForFacts

LEMMA CallShape ==
    ASSUME CallsInv, SessionInv, proposals \in Seq(Written), NEW c \in Caller, Call(c)
    PROVE  /\ ~Told(c)
           /\ \/ Quiet(c)
              \/ /\ Registered(c)
                 /\ call[c].input.tool = "propose_control"
                 /\ call[c].at \notin {"told", "agent"}
           /\ UNCHANGED <<who, batch, frozen, settled>>
<1> DEFINE x == call[c]
<1>1. x \in CallRecord /\ CallInv(x)
  BY OneCall
<1>2. CASE Start(c)
  BY <1>2, StartShape DEF Start, Told
<1>3. CASE Given(c)
  BY <1>3, GivenCalls, GroundForShape DEF Given, Told
<1>4. CASE Lookup(c)
  <2> DEFINE hits == Page(Head(x.todo), x.input)
             y == [x EXCEPT !.todo = Tail(@)]
  <2>1. x.at = "lookup" /\ ~Told(c)
    BY <1>4 DEF Lookup, Told
  <2>2. CASE call' = [call EXCEPT ![c] = y] /\ UnchangedButCall
    <3>1. y.input = x.input /\ y.handle = x.handle /\ y.at = "lookup"
      BY <1>1, <2>1 DEF CallRecord
    <3> HIDE DEF y
    <3> QED
      BY <2>1, <2>2, <3>1, QuietMoves DEF UnchangedButCall
  <2>3. CASE (Ends(c, "none_found") \/ Ends(c, "error")) /\ UnchangedButCall
    BY <2>1, <2>3, QuietEnds DEF UnchangedButCall
  <2>4. CASE x.input.tool = "device_status" /\ Ends(c, "ok") /\ UnchangedButCall
    BY <2>1, <2>4, QuietEnds DEF UnchangedButCall
  <2>5. CASE x.input.tool = "propose_control" /\ \E d \in hits : d \in Device /\ GroundFor(c, d)
    BY <2>1, <2>5, GroundForShape
  <2> QED
    BY <1>4, <2>2, <2>3, <2>4, <2>5, LookupCases
<1>5. CASE Dictionaries(c)
  <2>1. x.at = "dictionary" /\ ~Told(c)
    BY <1>5 DEF Dictionaries, Told
  <2>2. CASE Registered(c) /\ UNCHANGED <<who, batch, frozen, settled, retrievalVars>>
    BY <1>5, <2>1, <2>2, DictionariesFacts
  <2>3. CASE Ends(c, "error") /\ UnchangedButCall
    BY <2>1, <2>3, QuietEnds DEF UnchangedButCall
  <2> QED
    BY <1>5, <2>2, <2>3, DictionariesFacts
<1>6. CASE Reading(c)
  <2> DEFINE y == [x EXCEPT !.todo = Tail(x.todo)]
  <2>1. x.at = "read" /\ ~Told(c) /\ x.input.tool # "propose_control"
    BY <1>1, <1>6, CatalogFacts DEF Reading, Told, CallInv
  <2>2. UNCHANGED <<who, batch, storeVars, frozen, settled>>
    BY <1>6 DEF Reading, UnchangedButCall
  <2>3. Ends(c, "ok") \/ call' = [call EXCEPT ![c] = y]
    BY <1>6 DEF Reading, Ends
  <2>4. y.input = x.input /\ y.handle = x.handle /\ y.at = "read"
    BY <1>1, <2>1 DEF CallRecord
  <2> HIDE DEF y
  <2> QED
    BY <2>1, <2>2, <2>3, <2>4, QuietEnds, QuietMoves
<1>7. CASE Refused(c)
  <2>1. ~Told(c) /\ (x.at = "read" => x.input.tool # "propose_control")
    BY <1>1, <1>7, CatalogFacts DEF Refused, AwaitingBackend, Told, CallInv
  <2> QED
    BY <1>7, <2>1, QuietEnds DEF Refused, UnchangedButCall
<1>8. CASE Crash(c)
  BY <1>8, QuietCrash DEF Crash, AwaitingBackend, Told, UnchangedButCall
<1>9. CASE Retry(c)
  <2> DEFINE y == [x EXCEPT !.at = "start"]
  <2>1. ~Told(c) /\ UNCHANGED <<who, batch, storeVars, frozen, settled>>
    BY <1>9 DEF Retry, Told, UnchangedButCall
  <2>2. call' = [call EXCEPT ![c] = y]
    BY <1>1, <1>9 DEF Retry, CallsInv, CallRecord
  <2>3. y.input = x.input /\ y.handle = x.handle /\ y.at = "start"
    BY <1>1 DEF CallRecord
  <2> HIDE DEF y
  <2> QED
    BY <2>1, <2>2, <2>3, QuietMoves
<1>10. CASE TimeOutCall(c)
  BY <1>10, QuietEnds DEF TimeOutCall, AwaitingBackend, Told
<1>11. CASE TimeOutAgent(c)
  BY <1>11, QuietEnds DEF TimeOutAgent, UnchangedButCall
<1>12. CASE AgentEnds(c)
  <2>1. x.input.agent /\ ~Told(c)
    BY <1>1, <1>12 DEF AgentEnds, CallInv, Told
  <2> QED
    BY <1>12, <2>1, QuietEnds DEF AgentEnds, UnchangedButCall
<1>13. CASE KnowledgeAnswered(c)
  <2>1. ~Told(c) /\ x.input.tool # "propose_control"
    BY <1>1, <1>13 DEF KnowledgeAnswered, Told, CallInv
  <2> QED
    BY <1>13, <2>1, QuietEnds DEF KnowledgeAnswered
<1>14. CASE Retrieving(c)
  <2>1. ~Told(c) /\ x.at = "knowledge" /\ UNCHANGED <<who, batch, call, storeVars, frozen, settled>>
    BY <1>14 DEF Retrieving, Told
  <2>2. call' = [call EXCEPT ![c] = x]
    BY <2>1 DEF CallsInv
  <2> QED
    BY <2>1, <2>2, QuietMoves
<1> QED
  BY <1>2, <1>3, <1>4, <1>5, <1>6, <1>7, <1>8, <1>9, <1>10, <1>11, <1>12, <1>13, <1>14 DEF Call


-----------------------------------------------------------------------------
(* The store, and what is said about it                                    *)

StoreTypes ==
    /\ proposals \in Seq(Written)
    /\ live \cup index \cup ofThread \subseteq Handles
    /\ frozen \in Seq(Handles \cup {0})
    /\ settled \in Seq([handle : Handles \cup {0}, answer : Outcome])
    /\ \A c \in Caller : call[c].handle \in Handles \cup {0}
    /\ \A h \in Handles : proposals[h].batch <= batch

Entitled == proposals # <<>> \/ frozen # <<>> \/ settled # <<>> => "device:control" \in permissions

AllLawful == NoNaN => \A h \in Handles : Lawful(proposals[h])

\* A proposal is in the store before it is called registered; in memory it is
\* there only then.
ReportOK(c) ==
    ~call[c].input.agent /\ call[c].input.tool = "propose_control" =>
      IF Told(c) /\ call[c].told = "ok"
      THEN /\ call[c].handle \in Handles
           /\ call[c].handle \in live => call[c].handle \in index \cap ofThread
      ELSE session.redis \/ \A h \in Handles : ~(proposals[h].by = c /\ proposals[h].batch = batch)

\* What was settled for good is not in the store again.
SettledOut ==
    \A i \in DOMAIN settled :
      settled[i].answer \in {"executed", "not_executed", "error"}
      => settled[i].handle \notin live \cup index

StoreInv ==
    /\ StoreTypes
    /\ Entitled
    /\ AllLawful
    /\ \A c \in Caller : ReportOK(c)
    /\ SettledOut

ToolInv == SessionInv /\ CallsInv /\ StoreInv

\* The proposals are only ever added to.
LEMMA PutFacts ==
    ASSUME StoreTypes, NEW p \in Written, NEW done \in Puts, PutSome(p, done)
    PROVE  LET n == Len(proposals) + 1 IN
           /\ proposals' \in Seq(Written)
           /\ Handles \subseteq Handles' /\ Handles' \subseteq Handles \cup {n} /\ n \notin Handles
           /\ \A h \in Handles : proposals'[h] = proposals[h]
           /\ n \in Handles' => proposals'[n] = p
           /\ live' \cup index' \cup ofThread' \subseteq Handles'
           /\ live' \subseteq live \cup {n} /\ index' \subseteq index \cup {n}
           /\ live \subseteq live' /\ index \subseteq index' /\ ofThread \subseteq ofThread'
           /\ done = Returned => n \in Handles' /\ n \in index' \cap ofThread'
           /\ n \in Nat
<1> DEFINE n == Len(proposals) + 1
<1>1. Len(proposals) \in Nat /\ proposals \in Seq(Written)
  BY LenProperties DEF StoreTypes
<1>2. done \in 0..4
  BY DEF Puts, Returned
<1>3. CASE done = 0
  <2>1. /\ proposals' = proposals /\ live' = live /\ index' = index /\ ofThread' = ofThread
    BY <1>3 DEF PutSome
  <2> QED
    BY <1>1, <1>3, <2>1 DEF Handles, StoreTypes, Returned
<1>4. CASE done # 0
  <2>1. proposals' = Append(proposals, p)
    BY <1>4 DEF PutSome
  <2>2. /\ proposals' \in Seq(Written) /\ Len(proposals') = n
        /\ \A i \in 1..Len(proposals) : proposals'[i] = proposals[i]
        /\ proposals'[n] = p
    BY <1>1, <2>1, AppendProperties
  <2>3. Handles' = Handles \cup {n} /\ n \notin Handles /\ n \in Nat
    BY <1>1, <2>2 DEF Handles
  <2>4. /\ live' \in {live, live \cup {n}} /\ index' \in {index, index \cup {n}}
        /\ ofThread' \in {ofThread, ofThread \cup {n}}
    BY DEF PutSome
  <2>5. done = Returned => n \in index' \cap ofThread'
    BY <1>2 DEF PutSome, Returned
  <2>6. live \cup index \cup ofThread \subseteq Handles
    BY DEF StoreTypes
  <2>7. \A h \in Handles : proposals'[h] = proposals[h]
    BY <2>2 DEF Handles
  <2> HIDE DEF n
  <2> QED
    BY <2>2, <2>3, <2>4, <2>5, <2>6, <2>7 DEF n
<1> QED
  BY <1>3, <1>4

LEMMA CallMoved ==
    ASSUME CallsInv, NEW c \in Caller, NEW x, call' = [call EXCEPT ![c] = x]
    PROVE  call'[c] = x /\ \A d \in Caller \ {c} : call'[d] = call[d]
BY DEF CallsInv

LEMMA BatchNat == ASSUME SessionInv PROVE batch \in Nat
<1>1. \A s \in Sessions : Len(s.batches) \in Nat
  BY ToolAssumption, LenProperties
<1> QED
  BY <1>1 DEF SessionInv

\* A call that registers nothing is not said to have.
LEMMA QuietStore ==
    ASSUME ToolInv, NEW c \in Caller, ~Told(c), Quiet(c), UNCHANGED <<who, batch, frozen, settled>>
    PROVE  StoreInv'
<1>1. /\ proposals' = proposals /\ live' = live /\ index' = index /\ ofThread' = ofThread
      /\ session' = session /\ permissions' = permissions /\ batch' = batch
      /\ frozen' = frozen /\ settled' = settled
  BY DEF Quiet, storeVars, who
<1>2. PICK x :
        /\ call' = [call EXCEPT ![c] = x]
        /\ x.input = call[c].input /\ x.handle = call[c].handle
        /\ x.told = "ok" /\ x.at = "told" /\ ~x.input.agent => x.input.tool # "propose_control"
  BY DEF Quiet
<1>3. call'[c] = x /\ \A d \in Caller \ {c} : call'[d] = call[d]
  BY <1>2, CallMoved DEF ToolInv
<1>4. Handles' = Handles
  BY <1>1 DEF Handles
<1>5. StoreTypes'
  BY <1>1, <1>2, <1>3, <1>4 DEF ToolInv, StoreInv, StoreTypes
<1>6. Entitled' /\ SettledOut'
  BY <1>1 DEF ToolInv, StoreInv, Entitled, SettledOut
<1>7. AllLawful'
  BY <1>1, <1>4 DEF ToolInv, StoreInv, AllLawful, Lawful
<1>8. ASSUME NEW d \in Caller PROVE ReportOK(d)'
  <2>1. ReportOK(d)
    BY DEF ToolInv, StoreInv
  <2>2. CASE d = c
    BY <1>1, <1>2, <1>3, <1>4, <2>1, <2>2 DEF ReportOK, Told
  <2>3. CASE d # c
    BY <1>1, <1>3, <1>4, <2>1, <2>3 DEF ReportOK, Told
  <2> QED
    BY <2>2, <2>3
<1> QED
  BY <1>5, <1>6, <1>7, <1>8 DEF StoreInv

\* The proposal that was registered: it is legal, and in the store before the
\* model is told.
LEMMA RegisteredStore ==
    ASSUME ToolInv, NEW c \in Caller, call[c].at \notin {"told", "agent"}, Registered(c),
           call[c].input.tool = "propose_control", UNCHANGED <<who, batch, frozen, settled>>
    PROVE  StoreInv'
<1> DEFINE n == Len(proposals) + 1
<1>1. PICK p \in Written, done \in Puts :
        /\ p.by = c /\ p.batch = batch
        /\ NoNaN => Lawful(p)
        /\ PutSome(p, done)
        /\ call' = [call EXCEPT ![c] = Confirmed(c, done)]
  BY DEF Registered
<1>2. /\ session' = session /\ permissions' = permissions /\ batch' = batch
      /\ frozen' = frozen /\ settled' = settled
  BY DEF who
<1>3. /\ StoreTypes /\ Entitled /\ AllLawful /\ SettledOut /\ batch \in Nat
      /\ call[c] \in CallRecord /\ CallInv(call[c])
  BY OneCall, BatchNat DEF ToolInv, StoreInv
<1>4. /\ proposals' \in Seq(Written)
      /\ Handles \subseteq Handles' /\ Handles' \subseteq Handles \cup {n} /\ n \notin Handles
      /\ \A h \in Handles : proposals'[h] = proposals[h]
      /\ n \in Handles' => proposals'[n] = p
      /\ live' \cup index' \cup ofThread' \subseteq Handles'
      /\ live' \subseteq live \cup {n} /\ index' \subseteq index \cup {n}
      /\ live \subseteq live' /\ index \subseteq index' /\ ofThread \subseteq ofThread'
      /\ done = Returned => n \in Handles' /\ n \in index' \cap ofThread'
      /\ n \in Nat
  BY <1>1, <1>3, PutFacts
<1>5. call'[c] = Confirmed(c, done) /\ \A d \in Caller \ {c} : call'[d] = call[d]
  BY <1>1, CallMoved DEF ToolInv
<1>6. /\ call'[c].input = call[c].input
      /\ done = Returned => call'[c].told = "ok" /\ call'[c].handle = n
      /\ done # Returned => call'[c].handle = call[c].handle
      /\ done = Returned /\ ~call[c].input.agent => call'[c].at = "told"
  <2>1. CASE done = Returned
    <3>1. Confirmed(c, done) = [Finished(c, "ok") EXCEPT !.handle = Len(proposals) + 1]
      BY <2>1 DEF Confirmed
    <3> QED
      BY <1>3, <1>5, <2>1, <3>1 DEF Finished, CallRecord
  <2>2. CASE done # Returned
    BY <1>3, <1>5, <2>2 DEF Confirmed, Crashed, Finished, CallRecord
  <2> QED
    BY <2>1, <2>2
<1> HIDE DEF n
<1>7. StoreTypes'
  <2>1. Handles \cup {0} \subseteq Handles' \cup {0}
    BY <1>4
  <2>2. frozen' \in Seq(Handles' \cup {0})
    BY <1>2, <1>3, <2>1, SeqMonotonic DEF StoreTypes
  <2>3. settled' \in Seq([handle : Handles' \cup {0}, answer : Outcome])
    <3>1. [handle : Handles \cup {0}, answer : Outcome] \subseteq [handle : Handles' \cup {0}, answer : Outcome]
      BY <2>1
    <3> QED
      BY <1>2, <1>3, <3>1, SeqMonotonic DEF StoreTypes
  <2>4. \A d \in Caller : call'[d].handle \in Handles' \cup {0}
    BY <1>3, <1>4, <1>5, <1>6 DEF StoreTypes
  <2>5. \A h \in Handles' : proposals'[h].batch <= batch'
    BY <1>1, <1>2, <1>3, <1>4 DEF StoreTypes
  <2> QED
    BY <1>4, <2>2, <2>3, <2>4, <2>5 DEF StoreTypes
<1>8. Entitled'
  <2>1. /\ call[c].input \in Input /\ Taken(call[c].input) = "start"
        /\ call[c].input.agent => LeafTaken(call[c].input)
    BY <1>3 DEF CallInv, CallRecord
  <2>2. "device:control" \in permissions
    BY <2>1, StartedFacts
  <2> QED
    BY <1>2, <2>2 DEF Entitled
<1>9. AllLawful'
  <2>1. \A q : Lawful(q)' = Lawful(q)
    BY DEF Lawful
  <2> QED
    BY <1>1, <1>3, <1>4, <2>1 DEF AllLawful
<1>10. SettledOut'
  <2> SUFFICES ASSUME NEW i \in DOMAIN settled,
                      settled[i].answer \in {"executed", "not_executed", "error"}
               PROVE  settled[i].handle \notin live' \cup index'
    BY <1>2 DEF SettledOut
  <2>1. settled[i] \in [handle : Handles \cup {0}, answer : Outcome]
    <3>1. settled \in Seq([handle : Handles \cup {0}, answer : Outcome])
      BY <1>3 DEF StoreTypes
    <3>2. i \in 1..Len(settled)
      BY <3>1, LenProperties
    <3> QED
      BY <3>1, <3>2, ElementOfSeq
  <2>2. settled[i].handle \in Handles \cup {0} /\ settled[i].handle \notin live \cup index
    BY <1>3, <2>1 DEF SettledOut
  <2>3. n # 0
    BY <1>3, LenProperties DEF n, StoreTypes
  <2>4. settled[i].handle # n
    BY <1>4, <2>2, <2>3
  <2> QED
    BY <1>4, <2>2, <2>4
<1>11. ASSUME NEW d \in Caller PROVE ReportOK(d)'
  <2>1. ReportOK(d)
    BY DEF ToolInv, StoreInv
  <2>2. CASE d # c
    <3>1. call'[d] = call[d]
      BY <1>5, <2>2
    <3>2. call[d].handle \in Handles => (call[d].handle \in live' <=> call[d].handle \in live)
      BY <1>4
    <3>3. \A h \in Handles' : proposals'[h].by = d => h \in Handles /\ proposals'[h] = proposals[h]
      BY <1>1, <1>4, <2>2
    <3> QED
      BY <1>2, <1>4, <2>1, <3>1, <3>2, <3>3 DEF ReportOK, Told
  <2>3. CASE d = c /\ done = Returned
    BY <1>4, <1>5, <1>6, <2>3 DEF ReportOK, Told
  <2>4. CASE d = c /\ done # Returned
    <3>1. session.redis
      BY <1>1, <2>4 DEF Puts
    <3>2. ~(call'[c].at = "told" /\ call'[c].told = "ok")
      <4>1. Confirmed(c, done) = Crashed(c)
        BY <2>4 DEF Confirmed
      <4> QED
        BY <1>3, <1>5, <4>1 DEF Crashed, Finished, CallRecord
    <3> QED
      BY <1>2, <2>4, <3>1, <3>2 DEF ReportOK, Told
  <2> QED
    BY <2>2, <2>3, <2>4
<1> QED
  BY <1>7, <1>8, <1>9, <1>10, <1>11 DEF StoreInv


\* latest_for gives a handle of the store, or none.
LEMMA LatestFacts == ASSUME StoreTypes PROVE Latest \in Handles \cup {0}
<1> DEFINE held == ofThread \cap live
           n == Len(proposals)
           back == {n - h : h \in held}
<1>1. n \in Nat /\ held \subseteq 1..n /\ Handles = 1..n
  BY LenProperties DEF StoreTypes, Handles
<1>2. CASE held = {}
  BY <1>2 DEF Latest
<1>3. CASE held # {}
  <2>1. back \in SUBSET Nat /\ back # {}
    BY <1>1, <1>3
  <2>2. First(back) \in back /\ \A b \in back : First(back) <= b
    BY <2>1, FirstOfFound
  <2> DEFINE h == n - First(back)
  <2>3. h \in held
    BY <1>1, <2>2
  <2>4. \A other \in held : other <= h
    <3> SUFFICES ASSUME NEW other \in held PROVE other <= h
      OBVIOUS
    <3>1. n - other \in back /\ n - other \in Nat /\ First(back) \in Nat
      BY <1>1, <2>1, <2>2
    <3>2. First(back) <= n - other
      BY <2>2, <3>1
    <3>3. other \in Nat
      BY <1>1
    <3> HIDE DEF back
    <3> QED
      BY <1>1, <3>1, <3>2, <3>3
  <2>5. \E g \in held : \A other \in held : other <= g
    BY <2>3, <2>4
  <2>6. Latest \in held
    BY <1>3, <2>5 DEF Latest
  <2> QED
    BY <1>1, <2>6
<1> QED
  BY <1>2, <1>3

\* A new batch: a call is held back only if its principal may control.
LEMMA AskToolsStore == ASSUME ToolInv, AskTools PROVE StoreInv'
<1>1. PICK inputs \in session.batches[batch + 1] :
         LET held == {c \in Caller : Taken(inputs[c]) = "pending"} IN
         /\ call' = [c \in Caller |-> Entry(inputs[c])]
         /\ frozen' = [i \in 1..Cardinality(held) |-> Latest]
         /\ ofThread' = IF held = {} THEN ofThread ELSE ThreadAfterLatest
  BY DEF AskTools
<1> DEFINE held == {c \in Caller : Taken(inputs[c]) = "pending"}
<1>2. /\ proposals' = proposals /\ live' = live /\ index' = index
      /\ session' = session /\ permissions' = permissions
      /\ settled' = <<>> /\ batch' = batch + 1
  BY DEF AskTools, who
<1>3. inputs \in [Caller -> Input] /\ batch \in Nat
  BY BatchInputs DEF ToolInv, AskTools
<1>4. StoreTypes /\ Entitled /\ AllLawful
  BY DEF ToolInv, StoreInv
<1>5. Handles' = Handles
  BY <1>2 DEF Handles
<1>6. IsFiniteSet(held) /\ Cardinality(held) \in Nat
  <2>1. held \in SUBSET Caller
    OBVIOUS
  <2> HIDE DEF held
  <2> QED
    BY <2>1, ExecutorAssumption, FS_Subset, FS_CardinalityType
<1>7. \A c \in Caller : /\ call'[c].handle = 0
                        /\ call'[c].told # "ok"
                        /\ call'[c].input = inputs[c]
  <2> SUFFICES ASSUME NEW c \in Caller
               PROVE  /\ Entry(inputs[c]).handle = 0 /\ Entry(inputs[c]).told # "ok"
                      /\ Entry(inputs[c]).input = inputs[c]
    BY <1>1
  <2>1. Taken(inputs[c]) # "ok"
    BY <1>3, TakenFacts
  <2> QED
    BY <2>1 DEF Entry, NoCall
<1>8. StoreTypes'
  <2>1. frozen' \in Seq(Handles \cup {0})
    <3>1. frozen' = [i \in 1..Cardinality(held) |-> Latest] /\ Latest \in Handles \cup {0}
      BY <1>1, <1>4, LatestFacts
    <3> HIDE DEF held
    <3> QED
      BY <1>6, <3>1
  <2>2. ofThread' \subseteq ofThread
    BY <1>1 DEF ThreadAfterLatest
  <2>3. settled' \in Seq([handle : Handles \cup {0}, answer : Outcome])
    BY <1>2, EmptySeq
  <2>4. \A h \in Handles : proposals[h].batch <= batch + 1
    <3>1. \A h \in Handles : proposals[h].batch <= batch /\ proposals[h] \in Written
      BY <1>4, LenProperties, ElementOfSeq DEF StoreTypes, Handles
    <3>2. \A h \in Handles : proposals[h].batch \in Nat
      BY <3>1 DEF Written
    <3> QED
      BY <1>3, <3>1, <3>2
  <2> QED
    BY <1>2, <1>4, <1>5, <1>7, <2>1, <2>2, <2>3, <2>4 DEF StoreTypes
<1>9. Entitled'
  <2>1. CASE held = {}
    <3>1. Cardinality(held) = 0
      BY <2>1, FS_EmptySet
    <3>2. frozen' = <<>>
      <4>1. DOMAIN frozen' = {}
        <5>1. DOMAIN frozen' = 1..Cardinality(held)
          BY <1>1
        <5> HIDE DEF held
        <5> QED
          BY <3>1, <5>1
      <4>2. frozen' \in Seq(Handles' \cup {0})
        BY <1>8 DEF StoreTypes
      <4> QED
        BY <4>1, <4>2, LenProperties, EmptySeq
    <3> QED
      BY <1>2, <1>4, <3>2 DEF Entitled
  <2>2. CASE held # {}
    <3>1. PICK c \in Caller : Taken(inputs[c]) = "pending"
      BY <2>2
    <3> DEFINE input == inputs[c]
               tool == IF input.agent THEN "facility_agent" ELSE input.tool
    <3>2. tool \in Registry(FALSE) /\ Verdict(tool, permissions) = "ask"
      BY <3>1 DEF Taken
    <3> HIDE DEF tool
    <3>3. tool = "execute_proposal" /\ Catalog[tool] \in permissions
      BY <3>2 DEF Verdict, IsControl, Permitted
    <3> QED
      BY <1>2, <3>3, CatalogFacts DEF Entitled
  <2> QED
    BY <2>1, <2>2
<1>10. AllLawful' /\ SettledOut'
  <2>1. \A q : Lawful(q)' = Lawful(q)
    BY DEF Lawful
  <2> QED
    BY <1>2, <1>4, <1>5, <2>1 DEF AllLawful, SettledOut
<1>11. ASSUME NEW c \in Caller PROVE ReportOK(c)'
  <2>1. \A h \in Handles : proposals[h].batch # batch + 1
    <3>1. \A h \in Handles : proposals[h].batch <= batch /\ proposals[h] \in Written
      BY <1>4, LenProperties, ElementOfSeq DEF StoreTypes, Handles
    <3>2. \A h \in Handles : proposals[h].batch \in Nat
      BY <3>1 DEF Written
    <3> QED
      BY <1>3, <3>1, <3>2
  <2> QED
    BY <1>2, <1>5, <1>7, <2>1 DEF ReportOK, Told
<1> QED
  BY <1>8, <1>9, <1>10, <1>11 DEF StoreInv

\* A key that expires takes nothing with it.
LEMMA ExpireStore == ASSUME ToolInv, Expire PROVE StoreInv'
<1>1. /\ proposals' = proposals /\ index' = index /\ ofThread' = ofThread /\ live' \subseteq live
      /\ session' = session /\ permissions' = permissions /\ batch' = batch /\ call' = call
      /\ frozen' = frozen /\ settled' = settled
  BY DEF Expire, who
<1>2. Handles' = Handles
  BY <1>1 DEF Handles
<1>3. StoreTypes'
  BY <1>1, <1>2 DEF ToolInv, StoreInv, StoreTypes
<1>4. Entitled' /\ SettledOut'
  BY <1>1 DEF ToolInv, StoreInv, Entitled, SettledOut
<1>5. AllLawful'
  BY <1>1, <1>2 DEF ToolInv, StoreInv, AllLawful, Lawful
<1>6. \A c \in Caller : ReportOK(c)'
  BY <1>1, <1>2 DEF ToolInv, StoreInv, ReportOK, Told
<1> QED
  BY <1>3, <1>4, <1>5, <1>6 DEF StoreInv

LEMMA StoreFrame ==
    ASSUME ToolInv, UNCHANGED <<who, batch, call, storeVars, frozen, settled>>
    PROVE  StoreInv'
<1>1. /\ proposals' = proposals /\ index' = index /\ ofThread' = ofThread /\ live' = live
      /\ session' = session /\ permissions' = permissions /\ batch' = batch /\ call' = call
      /\ frozen' = frozen /\ settled' = settled
  BY DEF storeVars, who
<1>2. Handles' = Handles
  BY <1>1 DEF Handles
<1>3. StoreTypes'
  BY <1>1, <1>2 DEF ToolInv, StoreInv, StoreTypes
<1>4. Entitled' /\ SettledOut'
  BY <1>1 DEF ToolInv, StoreInv, Entitled, SettledOut
<1>5. AllLawful'
  BY <1>1, <1>2 DEF ToolInv, StoreInv, AllLawful, Lawful
<1>6. \A c \in Caller : ReportOK(c)'
  BY <1>1, <1>2 DEF ToolInv, StoreInv, ReportOK, Told
<1> QED
  BY <1>3, <1>4, <1>5, <1>6 DEF StoreInv

\* What is said to be over for good is popped.
LEMMA SettleStore == ASSUME ToolInv, Settle PROVE StoreInv'
<1>0. PICK approved \in SUBSET DOMAIN frozen :
        /\ Pop({frozen[i] : i \in Sent(approved) \cup (DOMAIN frozen \ approved)})
        /\ \E failed \in SUBSET Sent(approved) :
             settled' = [i \in DOMAIN frozen |->
                           [handle |-> frozen[i], answer |-> Answer(approved, i, failed)]]
  BY DEF Settle
<1>1. PICK failed \in SUBSET Sent(approved) :
        settled' = [i \in DOMAIN frozen |->
                      [handle |-> frozen[i], answer |-> Answer(approved, i, failed)]]
  BY <1>0
<1> DEFINE popped == {frozen[i] : i \in Sent(approved) \cup (DOMAIN frozen \ approved)}
<1>2. /\ proposals' = proposals /\ live' = live \ popped /\ index' = index \ popped
      /\ ofThread' = ofThread \ (popped \cap live)
      /\ session' = session /\ permissions' = permissions /\ batch' = batch /\ call' = call
      /\ frozen' = <<>> /\ frozen # <<>>
  BY <1>0 DEF Settle, Pop, who
<1>3. StoreTypes /\ Entitled /\ AllLawful
  BY DEF ToolInv, StoreInv
<1>4. Handles' = Handles
  BY <1>2 DEF Handles
<1>5. /\ DOMAIN frozen = 1..Len(frozen) /\ Len(frozen) \in Nat
      /\ \A i \in DOMAIN frozen : frozen[i] \in Handles \cup {0}
  <2>1. frozen \in Seq(Handles \cup {0})
    BY <1>3 DEF StoreTypes
  <2> QED
    BY <2>1, LenProperties, ElementOfSeq
<1>6. \A i \in DOMAIN frozen :
        /\ Answer(approved, i, failed) \in Outcome
        /\ Answer(approved, i, failed) \in {"executed", "not_executed", "error"} => frozen[i] \in popped
  <2> SUFFICES ASSUME NEW i \in DOMAIN frozen
               PROVE  /\ Answer(approved, i, failed) \in Outcome
                      /\ Answer(approved, i, failed) \in {"executed", "not_executed", "error"}
                         => frozen[i] \in popped
    OBVIOUS
  <2> DEFINE sent == {j \in Sent(approved) : frozen[j] = frozen[i]}
  <2>1. sent # {} => frozen[i] \in popped
    OBVIOUS
  <2>2. i \notin approved => frozen[i] \in popped
    OBVIOUS
  <2>3. i \in failed => frozen[i] \in popped
    OBVIOUS
  <2>6. Answer(approved, i, failed) \in Outcome
    BY DEF Answer, Outcome
  <2>7. Answer(approved, i, failed) = "not_executed" => i \notin approved
    BY DEF Answer
  <2>8. Answer(approved, i, failed) = "executed" => sent # {}
    BY DEF Answer
  <2>9. Answer(approved, i, failed) = "error" => i \in failed
    BY DEF Answer
  <2> QED
    BY <2>1, <2>2, <2>3, <2>6, <2>7, <2>8, <2>9
<1> HIDE DEF popped
<1>7. StoreTypes'
  <2>1. settled' \in Seq([handle : Handles \cup {0}, answer : Outcome])
    BY <1>1, <1>5, <1>6
  <2>2. frozen' \in Seq(Handles \cup {0})
    BY <1>2, EmptySeq
  <2> QED
    BY <1>2, <1>3, <1>4, <2>1, <2>2 DEF StoreTypes
<1>8. Entitled'
  BY <1>2, <1>3 DEF Entitled
<1>9. AllLawful'
  BY <1>2, <1>3, <1>4 DEF AllLawful, Lawful
<1>10. SettledOut'
  <2>1. \A i \in DOMAIN settled' : i \in DOMAIN frozen /\ settled'[i].handle = frozen[i]
                                   /\ settled'[i].answer = Answer(approved, i, failed)
    BY <1>1
  <2> QED
    BY <1>2, <1>6, <2>1 DEF SettledOut
<1>11. ASSUME NEW c \in Caller PROVE ReportOK(c)'
  <2>1. ReportOK(c)
    BY DEF ToolInv, StoreInv
  <2> QED
    BY <1>2, <1>4, <2>1 DEF ReportOK, Told
<1> QED
  BY <1>7, <1>8, <1>9, <1>10, <1>11 DEF StoreInv


-----------------------------------------------------------------------------
(* The invariant of the calls and the store                                *)

LEMMA InitToolInv == InitTool => ToolInv
<1> SUFFICES ASSUME InitTool PROVE ToolInv
  OBVIOUS
<1>1. /\ session \in Sessions /\ permissions \in Login(session.user) /\ batch = 0
      /\ call = [c \in Caller |-> NoCall] /\ proposals = <<>>
      /\ live = {} /\ index = {} /\ ofThread = {} /\ frozen = <<>> /\ settled = <<>>
  BY DEF InitTool
<1>2. SessionInv
  <2>1. \A s \in Sessions : Len(s.batches) \in Nat
    BY ToolAssumption, LenProperties
  <2> QED
    BY <1>1, <2>1 DEF SessionInv
<1>3. NoInput \in Input /\ Entry(NoInput) = NoCall
  <2>1. NoInput \in Input
    BY DEF NoInput, Input, Plain
  <2>2. Taken(NoInput) = "none"
    <3>1. NoInput.tool = "none" /\ NoInput.tool \notin Registry(FALSE) /\ ~NoInput.agent
      BY CatalogFacts DEF NoInput, Registry, TopTools, FacilityLeaves, LifeTools
    <3> QED
      BY <3>1 DEF Taken
  <2>3. Entry(NoInput) = [NoCall EXCEPT !.input = NoInput, !.told = "none", !.at = "told"]
    BY <2>2 DEF Entry
  <2> QED
    BY <2>1, <2>3 DEF NoCall
<1>4. CallsInv
  <2>1. CallInv(NoCall) /\ NoCall \in CallRecord
    BY <1>3, EntryInv DEF CallInv
  <2> QED
    BY <1>1, <2>1 DEF CallsInv
<1>5. StoreInv
  <2>1. Handles = {}
    BY <1>1, EmptySeq DEF Handles
  <2>2. \A S : <<>> \in Seq(S)
    BY EmptySeq
  <2>3. StoreTypes
    BY <1>1, <2>1, <2>2 DEF StoreTypes, NoCall
  <2> QED
    BY <1>1, <2>1, <2>3 DEF StoreInv, Entitled, AllLawful, ReportOK, SettledOut, NoCall, NoInput
<1> QED
  BY <1>2, <1>4, <1>5 DEF ToolInv

\* What the rest of a step does to the calls.
LEMMA CallCalls == ASSUME ToolInv, NEW c \in Caller, Call(c) PROVE CallsInv'
<1>1. CallsInv /\ SessionInv /\ proposals \in Seq(Written)
  BY DEF ToolInv, StoreInv, StoreTypes
<1>2. CASE Retrieving(c)
  BY <1>1, <1>2, CallsFrame DEF Retrieving, who
<1> QED
  BY <1>1, <1>2, StartCalls, GivenCalls, LookupCalls, DictionariesCalls, ReadingCalls, RetryCalls,
     EndingCalls DEF Call

LEMMA SessionFrame == ASSUME SessionInv, UNCHANGED <<who, batch>> PROVE SessionInv'
BY DEF SessionInv, who

LEMMA NextToolInv == ASSUME ToolInv, [Next]_vars PROVE ToolInv'
<1>1. CallsInv /\ SessionInv /\ proposals \in Seq(Written)
  BY DEF ToolInv, StoreInv, StoreTypes
<1>2. CASE AskTools
  <2>1. SessionInv'
    <3>1. PICK inputs \in session.batches[batch + 1] : TRUE
      BY <1>2 DEF AskTools
    <3>2. batch + 1 \in 0..Len(session.batches)
      BY <1>1, <1>2, BatchInputs DEF AskTools
    <3> QED
      BY <1>1, <1>2, <3>2 DEF AskTools, SessionInv, who
  <2> QED
    BY <1>1, <1>2, <2>1, AskToolsCalls, AskToolsStore DEF ToolInv
<1>3. CASE Settle
  BY <1>1, <1>3, CallsFrame, SessionFrame, SettleStore DEF ToolInv, Settle, who
<1>4. CASE Expire
  BY <1>1, <1>4, CallsFrame, SessionFrame, ExpireStore DEF ToolInv, Expire, who
<1>5. ASSUME NEW c \in Caller, Call(c) PROVE ToolInv'
  <2>1. /\ ~Told(c)
        /\ \/ Quiet(c)
           \/ /\ Registered(c)
              /\ call[c].input.tool = "propose_control"
              /\ call[c].at \notin {"told", "agent"}
        /\ UNCHANGED <<who, batch, frozen, settled>>
    BY <1>1, <1>5, CallShape
  <2>2. StoreInv'
    BY <2>1, QuietStore, RegisteredStore
  <2> QED
    BY <1>1, <1>5, <2>1, <2>2, CallCalls, SessionFrame DEF ToolInv
<1>6. CASE UNCHANGED <<who, batch, call, storeVars, frozen, settled>>
  BY <1>1, <1>6, CallsFrame, SessionFrame, StoreFrame DEF ToolInv, who
<1> QED
  BY <1>2, <1>3, <1>4, <1>5, <1>6 DEF Next, vars

\* What the gate let through, what each call still has to ask and what is
\* registered under which handle hold together in every reachable state
\* (loop.py:405-445, dispatch.py:88-109, propose.py:36-84).
THEOREM ToolInvHolds == Spec => []ToolInv
<1>1. InitTool => ToolInv
  BY InitToolInv
<1>2. ToolInv /\ [Next]_vars => ToolInv'
  BY NextToolInv
<1> QED
  BY <1>1, <1>2, PTL DEF Spec


-----------------------------------------------------------------------------
(* The queries and the executor under the calls                            *)

\* What a step of a call does to its query: nothing, or a step of the query,
\* its start, its cancellation or its end.
LEMMA CallQuery ==
    ASSUME ToolInv, NEW c \in Caller, Call(c)
    PROVE  \/ UNCHANGED retrievalVars
           \/ Ask(c) \/ TimeOut(c) \/ RetrievalStep(c)
           \/ query' = [query EXCEPT ![c] = NoQuery] /\ UNCHANGED executorVars
<1>1. CallsInv /\ SessionInv /\ proposals \in Seq(Written)
  BY DEF ToolInv, StoreInv, StoreTypes
<1>2. CASE Start(c)
  BY <1>1, <1>2, StartCases DEF UnchangedButCall
<1>3. CASE Given(c)
  BY <1>1, <1>3, GivenCalls, GroundForFacts DEF Given, UnchangedButCall
<1>4. CASE Lookup(c)
  <2>1. ASSUME NEW d \in Device, call[c].input.tool = "propose_control", GroundFor(c, d)
        PROVE  UNCHANGED retrievalVars
    BY <1>1, <2>1, GroundForFacts DEF UnchangedButCall
  <2> QED
    BY <1>1, <1>4, <2>1, LookupCases DEF UnchangedButCall
<1>5. CASE Dictionaries(c)
  BY <1>1, <1>5, DictionariesFacts DEF UnchangedButCall
<1>6. CASE Reading(c) \/ Refused(c) \/ Crash(c) \/ Retry(c) \/ TimeOutAgent(c) \/ AgentEnds(c)
  BY <1>6 DEF Reading, Refused, Crash, Retry, TimeOutAgent, AgentEnds, UnchangedButCall
<1>7. CASE TimeOutCall(c) \/ KnowledgeAnswered(c) \/ Retrieving(c)
  BY <1>7 DEF TimeOutCall, KnowledgeAnswered, Retrieving
<1> QED
  BY <1>2, <1>3, <1>4, <1>5, <1>6, <1>7 DEF Call

\* The tool calls use the executor as it is meant to be used: whatever they do
\* is a step of MilvusExecutor or none.
LEMMA ExecutorStep == ASSUME ToolInv, [Next]_vars PROVE [ExecutorNext]_executorVars
<1>1. ASSUME NEW c \in Caller, Call(c) PROVE [ExecutorNext]_executorVars
  <2>1. CASE UNCHANGED retrievalVars
    BY <2>1 DEF retrievalVars
  <2>2. CASE Ask(c)
    BY <2>2 DEF Ask
  <2>3. CASE TimeOut(c)
    BY <2>3 DEF TimeOut, ExecutorNext
  <2>4. CASE RetrievalStep(c)
    BY <2>4 DEF RetrievalStep, StartSearch, NoSearch, SearchOver, BlocksFetched, RankFirst, Rewrite,
                RankRepair, ExecutorNext
  <2> QED
    BY <1>1, <2>1, <2>2, <2>3, <2>4, CallQuery
<1>2. CASE AskTools \/ Settle \/ Expire \/ UNCHANGED vars
  BY <1>2 DEF AskTools, Settle, Expire, vars, retrievalVars
<1>3. ASSUME NEW w \in Worker, Thread(w) PROVE [ExecutorNext]_executorVars
  BY <1>3 DEF ExecutorNext
<1> QED
  BY <1>1, <1>2, <1>3 DEF Next

LEMMA RetrievalNext == ASSUME ToolInv, RetrievalInv, [Next]_vars PROVE RetrievalInv'
<1>1. ASSUME NEW c \in Caller, Call(c) PROVE RetrievalInv'
  <2>1. CASE UNCHANGED retrievalVars
    BY <2>1, RetrievalFrame DEF retrievalVars
  <2>2. CASE query' = [query EXCEPT ![c] = NoQuery]
    BY <2>2, NoQueryInv, OneQueryMoves
  <2> QED
    BY <1>1, <2>1, <2>2, CallQuery, AskInv, TimeOutInv, RetrievalStepInv
<1>2. CASE query' = query
  BY <1>2, RetrievalFrame
<1> QED
  BY <1>1, <1>2 DEF Next, AskTools, Settle, Expire, vars, retrievalVars

LEMMA InitRetrieval == InitTool => RetrievalInv
BY NoQueryInv DEF InitTool, RetrievalInit, RetrievalInv, QueryInv

-----------------------------------------------------------------------------
(* The theorems                                                            *)

\* The calls of the tools, their timeouts and cancellations included, are
\* callers such as MilvusExecutor expects: every behaviour of the tools is one
\* of the executor, and what holds of it holds here.
THEOREM ImplementsExecutor == Spec => ExecutorSpec
<1>1. InitTool => ExecutorInit
  BY DEF InitTool, RetrievalInit
<1>2. ToolInv /\ [Next]_vars => [ExecutorNext]_executorVars
  BY ExecutorStep
<1> QED
  BY <1>1, <1>2, ToolInvHolds, PTL DEF Spec, ExecutorSpec

\* No permit of the executor is lost or made, however the tool calls end
\* (executor.py:53-61, dispatch.py:88-109).
THEOREM ToolsPermitsBalanced == Spec => []PermitsBalanced
BY ImplementsExecutor, SafePermitsBalanced, PTL

\* The collection is loaded once, under all the concurrent calls of a batch
\* (client.py:239-250).
THEOREM ToolsLoadedOnce == Spec => []LoadedOnce
BY ImplementsExecutor, SafeLoadedOnce, PTL

\* At every stage of a query, its hits, its ranking and both tiers of its
\* evidence hold nothing but what passed the filter of its caller
\* (service.py:81-241).
THEOREM RetrievalInvHolds == Spec => []RetrievalInv
<1>1. InitTool => RetrievalInv
  BY InitRetrieval
<1>2. ToolInv /\ RetrievalInv /\ [Next]_vars => RetrievalInv'
  BY RetrievalNext
<1> QED
  BY <1>1, <1>2, ToolInvHolds, PTL DEF Spec

\* Every chunk that a caller gets passes the filter of its identity, whichever
\* round found it, and nothing is shown twice (service.py:226-232,
\* evidence.py:233).
THEOREM SafeEvidenceSound == Spec => []EvidenceSound
BY RetrievalInvHolds, SoundEvidence, PTL

\* The calls, the queries and the store stay well formed.
THEOREM ToolTypeCorrect == Spec => []ToolTypeOK
<1>1. ToolInv /\ RetrievalInv /\ ExecutorTypeOK => ToolTypeOK
  <2> SUFFICES ASSUME ToolInv, RetrievalInv, ExecutorTypeOK PROVE ToolTypeOK
    OBVIOUS
  <2>1. RetrievalTypeOK
    BY DEF RetrievalTypeOK, RetrievalInv, QueryInv
  <2>2. call \in [Caller -> CallRecord]
    BY DEF ToolInv, CallsInv
  <2> QED
    BY <2>1, <2>2 DEF ToolTypeOK, ToolInv, SessionInv, StoreInv, StoreTypes
<1> QED
  BY <1>1, ToolInvHolds, RetrievalInvHolds, ImplementsExecutor, ExecutorTypeCorrect, PTL

\* Nothing of a control comes about for a principal who is not entitled to it,
\* for any catalog of codes, any role and any policy of the organisation
\* (gate.py:5-13, loader.py:3-4, subagent.py:56).
THEOREM SafeOnlyPermitted == Spec => []OnlyPermitted
<1>1. ToolInv => OnlyPermitted
  <2> SUFFICES ASSUME ToolInv PROVE OnlyPermitted
    OBVIOUS
  <2>1. proposals # <<>> \/ frozen # <<>> \/ settled # <<>> => "device:control" \in permissions
    BY DEF ToolInv, StoreInv, Entitled
  <2>2. permissions \cap Withheld(session.user.role) = {}
    BY DEF ToolInv, SessionInv, Login, ResolveCapabilities
  <2>3. ASSUME NEW c \in Caller
        PROVE  LET input == call[c].input
                   tool == IF input.agent THEN "facility_agent" ELSE input.tool IN
               tool \in TopTools =>
                 (call[c].told = "blocked" <=> tool \notin SelectToolset(permissions))
    <3> DEFINE input == call[c].input
               tool == IF input.agent THEN "facility_agent" ELSE input.tool
    <3>1. call[c].told = "blocked" <=> Taken(input) = "blocked"
      BY DEF ToolInv, CallsInv, CallInv
    <3>2. tool \in TopTools => input # NoInput /\ tool \in Registry(FALSE) /\ tool \in DOMAIN Catalog
      BY CatalogFacts DEF NoInput, Registry, TopTools, LifeTools
    <3>3. tool \in TopTools => (Taken(input) = "blocked" <=> Verdict(tool, permissions) = "deny")
      <4> HIDE DEF tool
      <4>1. tool \in TopTools => (Verdict(tool, permissions) = "deny" => Taken(input) = "blocked")
        BY <3>2 DEF Taken, tool
      <4>2. tool \in TopTools => (Taken(input) = "blocked" => Verdict(tool, permissions) = "deny")
        BY <3>2 DEF Taken, tool, Verdict
      <4> QED
        BY <4>1, <4>2
    <3> HIDE DEF tool
    <3>4. tool \in TopTools =>
            (Verdict(tool, permissions) = "deny" <=> tool \notin SelectToolset(permissions))
      BY <3>2 DEF Verdict, Permitted, SelectToolset
    <3> QED
      BY <3>1, <3>3, <3>4 DEF tool
  <2> QED
    BY <2>1, <2>2, <2>3 DEF OnlyPermitted
<1> QED
  BY <1>1, ToolInvHolds, PTL

\* Unless a word reads as "nan", which no bound rejects, everything that is
\* ever registered is a legal write, for any dictionary and any names
\* (grounding.py:3-10, 183-208).
THEOREM SafeProposalGrounded == NoNaN => (Spec => []ProposalGrounded)
<1> SUFFICES ASSUME NoNaN PROVE Spec => []ProposalGrounded
  OBVIOUS
<1>1. ToolInv => ProposalGrounded
  BY DEF ToolInv, StoreInv, AllLawful, Lawful, ProposalGrounded
<1> QED
  BY <1>1, ToolInvHolds, PTL

\* What the model and the user are told of a proposal agrees with the store,
\* whatever crashed, timed out or was tried twice (dispatch.py:88-109,
\* propose.py:78-84, proposal_control.py:84-147).
THEOREM SafeReportMatchesStore == Spec => []ReportMatchesStore
<1>1. ToolInv => ReportMatchesStore
  BY DEF ToolInv, StoreInv, ReportOK, SettledOut, ReportMatchesStore, Answering
<1> QED
  BY <1>1, ToolInvHolds, PTL

\* "No such device" is said only when no configured system has one, for any
\* systems and names (backend.py:411-429).
THEOREM SafeFoundWherever == Spec => []FoundWherever
<1>1. ToolInv => FoundWherever
  BY DEF ToolInv, CallsInv, CallInv, Nowhere, FoundWherever
<1> QED
  BY <1>1, ToolInvHolds, PTL
=============================================================================
