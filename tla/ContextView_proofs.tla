------------------------- MODULE ContextView_proofs -------------------------
(***************************************************************************)
(* Theorems about ContextView.                                             *)
(***************************************************************************)
EXTENDS ContextView, Subsequences_proofs

-----------------------------------------------------------------------------
(* Messages of a heap                                                      *)

ToolName == Tool \cup {Compaction, NoTool}

CallSet == [id : Int, tool : Tool \cup {Compaction}, arg : Int]

MessageSet ==
    [role : {"user", "assistant", "tool", "system"}, ref : Nat, text : SUBSET Int,
     calls : Seq(CallSet), id : Nat, tool : ToolName,
     body : {"text", "result", "pending", "summary", "dropped", "head", "plan", "context"}]

\* What is known of a message and of its copies: an object with the number of
\* a call is the result of that call, or its placeholder.
Fits(heap, m) ==
    /\ m.ref # NoRef => m.ref \in DOMAIN heap /\ heap[m.ref].role = m.role
    /\ \A k \in DOMAIN m.calls :
         m.calls[k].id > 0 =>
           m.calls[k].id \in DOMAIN heap /\ heap[m.calls[k].id].tool = m.calls[k].tool
    /\ m.role = "tool" => m.id > 0 /\ m.id \in DOMAIN heap /\ heap[m.id].tool = m.tool
    /\ m.role # "assistant" => m.calls = <<>>
    /\ Calls(m, Compaction) => \A k \in DOMAIN m.calls : m.calls[k].tool = Compaction
    /\ m.body = "pending" => m.role = "tool" /\ m.tool \notin {"plan", Compaction}
    /\ m.body = "summary" => (m.role = "tool" => m.tool = Compaction) /\ m.role \in {"system", "tool"}

Known(heap) == {m \in MessageSet : Fits(heap, m)}

\* A message without calls that answers none.
LEMMA MadeMessages ==
    ASSUME NEW heap
    PROVE  /\ UserMessage(NoRef, {}) \in Known(heap)
           /\ UserMessage(NoRef, {Nudge}) \in Known(heap)
           /\ \A body \in {"summary", "head", "plan", "context"} :
                SystemMessage(body) \in Known(heap)
<1>1. <<>> \in Seq(CallSet) /\ DOMAIN <<>> = {}
  OBVIOUS
<1>2. ASSUME NEW text \in SUBSET Int PROVE UserMessage(NoRef, text) \in Known(heap)
  BY <1>1 DEF UserMessage, Message, Known, MessageSet, Fits, Calls, ToolName, NoRef
<1>3. ASSUME NEW body \in {"summary", "head", "plan", "context"}
      PROVE  SystemMessage(body) \in Known(heap)
  <2> DEFINE m == SystemMessage(body)
  <2>1. /\ m.role = "system" /\ m.ref = NoRef /\ m.calls = <<>> /\ m.body = body
        /\ DOMAIN m.calls = {} /\ body # "pending"
    BY <1>1 DEF SystemMessage, Message
  <2>2. m \in MessageSet
    BY <1>1 DEF SystemMessage, Message, MessageSet, ToolName, NoRef
  <2>3. Fits(heap, m)
    <3> HIDE DEF m
    <3> QED
      BY <2>1 DEF Fits, Calls
  <2> QED
    BY <2>2, <2>3 DEF Known
<1> QED
  BY <1>2, <1>3 DEF Nudge

-----------------------------------------------------------------------------
(* Calls and their answers                                                 *)

\* The step that a place of a list belongs to.
Belongs(ms, j, i) ==
    /\ j \in 1..(i - 1)
    /\ IsStep(ms[j])
    /\ \A k \in (j + 1)..(i - 1) : ~IsStep(ms[k])

Answers(ms, j, i) ==
    /\ i \in DOMAIN ms
    /\ ms[i].role = "tool"
    /\ Belongs(ms, j, i)
    /\ ms[i].id \in CallIds(ms[j])

Paired(ms) ==
    \A i \in DOMAIN ms : ms[i].role = "tool" => \E j \in DOMAIN ms : Answers(ms, j, i)

Complete(ms) ==
    \A j \in DOMAIN ms : \A id \in CallIds(ms[j]) :
      id > 0 => \E i \in DOMAIN ms : Answers(ms, j, i) /\ ms[i].id = id

Whole(ms) == Paired(ms) /\ Complete(ms)

\* The step a place belongs to is the one repair looks at.
LEMMA KnownIds ==
    ASSUME NEW S, NEW ms \in Seq(S), NEW i \in DOMAIN ms, NEW j, Belongs(ms, j, i)
    PROVE  KnownToolIds(ms, i) = CallIds(ms[j])
<1> DEFINE before == {k \in 1..(i - 1) : ms[k].role \in {"user", "assistant"}}
<1>1. i \in Nat /\ j \in before /\ j \in Nat
  BY DEF Belongs, IsStep
<1>2. \A k \in before : k \in Nat /\ k <= j
  <2> SUFFICES ASSUME NEW k \in before PROVE k \in Nat /\ k <= j
    OBVIOUS
  <2>1. k \in 1..(i - 1) /\ IsStep(ms[k])
    BY DEF IsStep
  <2>2. k \notin (j + 1)..(i - 1)
    BY <2>1 DEF Belongs
  <2> QED
    BY <1>1, <2>1, <2>2
<1>3. (CHOOSE l \in before : \A k \in before : k <= l) = j
  <2> DEFINE c == CHOOSE l \in before : \A k \in before : k <= l
  <2>1. c \in before /\ \A k \in before : k <= c
    BY <1>1, <1>2
  <2>2. j <= c /\ c <= j /\ c \in Nat
    BY <1>1, <1>2, <2>1
  <2> HIDE DEF c
  <2> QED
    BY <1>1, <2>2 DEF c
<1> HIDE DEF before
<1>4. KnownToolIds(ms, i) =
        IF before = {} THEN {} ELSE CallIds(ms[CHOOSE l \in before : \A k \in before : k <= l])
  BY DEF KnownToolIds, before
<1> QED
  BY <1>1, <1>3, <1>4

\* A list picked from another is whole if calls and answers are picked
\* together.
LEMMA PickedWhole ==
    ASSUME NEW S, NEW ms \in Seq(S), NEW places \in SUBSET (DOMAIN ms),
           \A i \in places :
              ms[i].role = "tool" => \E j \in places : Answers(ms, j, i),
           \A j \in places : \A id \in CallIds(ms[j]) :
              id > 0 => \E i \in places : Answers(ms, j, i) /\ ms[i].id = id
    PROVE  Whole(Picked(ms, places))
<1> DEFINE out == Picked(ms, places)
           n == Cardinality(places)
<1>1. /\ n \in Nat /\ DOMAIN out = 1..n
      /\ \A k \in 1..n : Nth(places, k) \in places /\ out[k] = ms[Nth(places, k)]
      /\ \A k, l \in 1..n : k < l => Nth(places, k) < Nth(places, l)
  BY PickedFacts, PlacesFinite
<1>2. \A i \in places : i \in Nat /\ \E k \in 1..n : Nth(places, k) = i
  BY PlacesFinite, PlaceRank
<1>3. ASSUME NEW k \in 1..n, NEW l \in 1..n, Nth(places, k) < Nth(places, l) PROVE k < l
  <2>1. k \in Nat /\ l \in Nat /\ Nth(places, k) \in Nat /\ Nth(places, l) \in Nat
    BY <1>1, <1>2
  <2>2. ~(l < k) /\ l # k
    BY <1>1, <1>3, <2>1
  <2> QED
    BY <2>1, <2>2
<1>4. ASSUME NEW k \in 1..n, NEW l \in 1..n, Answers(ms, Nth(places, k), Nth(places, l))
      PROVE  Answers(out, k, l)
  <2> DEFINE j == Nth(places, k)
             i == Nth(places, l)
  <2>1. j \in Nat /\ i \in Nat /\ j < i /\ out[k] = ms[j] /\ out[l] = ms[i]
    BY <1>1, <1>2, <1>4 DEF Answers, Belongs
  <2>2. k < l
    BY <1>3, <2>1
  <2>3. ASSUME NEW q \in (k + 1)..(l - 1) PROVE ~IsStep(out[q])
    <3>1. q \in 1..n /\ k < q /\ q < l
      BY <1>1
    <3>2. j < Nth(places, q) /\ Nth(places, q) < i /\ Nth(places, q) \in Nat
      BY <1>1, <1>2, <3>1
    <3>3. Nth(places, q) \in (j + 1)..(i - 1)
      BY <2>1, <3>2
    <3> QED
      BY <1>1, <1>4, <3>1, <3>3 DEF Answers, Belongs
  <2>4. k \in 1..(l - 1)
    BY <2>2
  <2> HIDE DEF out
  <2> QED
    BY <1>1, <1>4, <2>1, <2>3, <2>4 DEF Answers, Belongs
<1>5. Paired(out)
  <2> SUFFICES ASSUME NEW l \in 1..n, out[l].role = "tool"
               PROVE  \E k \in 1..n : Answers(out, k, l)
    BY <1>1 DEF Paired
  <2>1. PICK j \in places : Answers(ms, j, Nth(places, l))
    BY <1>1
  <2>2. PICK k \in 1..n : Nth(places, k) = j
    BY <1>2
  <2> QED
    BY <1>4, <2>1, <2>2
<1>6. Complete(out)
  <2> SUFFICES ASSUME NEW k \in 1..n, NEW id \in CallIds(out[k]), id > 0
               PROVE  \E l \in 1..n : Answers(out, k, l) /\ out[l].id = id
    BY <1>1 DEF Complete
  <2>1. PICK i \in places : Answers(ms, Nth(places, k), i) /\ ms[i].id = id
    BY <1>1
  <2>2. PICK l \in 1..n : Nth(places, l) = i
    BY <1>2
  <2> QED
    BY <1>1, <1>4, <2>1, <2>2
<1> QED
  BY <1>5, <1>6 DEF Whole

\* Two whole lists, one behind the other, are whole.
LEMMA ConcatWhole ==
    ASSUME NEW S, NEW a \in Seq(S), NEW b \in Seq(S), Whole(a), Whole(b)
    PROVE  Whole(a \o b)
<1> DEFINE ms == a \o b
           n == Len(a)
<1>1. /\ n \in Nat /\ Len(b) \in Nat /\ ms \in Seq(S) /\ DOMAIN ms = 1..(n + Len(b))
      /\ \A i \in 1..n : ms[i] = a[i] /\ i \in DOMAIN ms
      /\ \A i \in 1..Len(b) : ms[n + i] = b[i] /\ n + i \in DOMAIN ms
  <2>1. /\ ms \in Seq(S) /\ Len(ms) = n + Len(b)
        /\ \A i \in 1..(n + Len(b)) : ms[i] = IF i <= n THEN a[i] ELSE b[i - n]
    BY ConcatProperties
  <2>2. n \in Nat /\ Len(b) \in Nat /\ DOMAIN ms = 1..(n + Len(b))
    BY <2>1, LenProperties
  <2> HIDE DEF n
  <2>3. \A i \in 1..Len(b) : n + i \in 1..(n + Len(b)) /\ ~(n + i <= n) /\ n + i - n = i
    BY <2>2
  <2>4. \A i \in 1..n : i \in 1..(n + Len(b)) /\ i <= n
    BY <2>2
  <2> QED
    BY <2>1, <2>2, <2>3, <2>4
<1> HIDE DEF n
<1>2. DOMAIN a = 1..n /\ DOMAIN b = 1..Len(b)
  BY LenProperties DEF n
<1>3. \A i \in DOMAIN ms : i \in 1..n \/ \E k \in 1..Len(b) : i = n + k
  <2> SUFFICES ASSUME NEW i \in DOMAIN ms, i \notin 1..n PROVE \E k \in 1..Len(b) : i = n + k
    OBVIOUS
  <2>1. i - n \in 1..Len(b) /\ i = n + (i - n)
    BY <1>1
  <2> QED
    BY <2>1
<1>4. ASSUME NEW j \in 1..n, NEW i \in 1..n, Answers(a, j, i) PROVE Answers(ms, j, i)
  <2>1. \A k \in (j + 1)..(i - 1) : k \in 1..n
    BY <1>1
  <2> HIDE DEF ms
  <2> QED
    BY <1>1, <1>4, <2>1 DEF Answers, Belongs
<1>5. ASSUME NEW j \in 1..Len(b), NEW i \in 1..Len(b), Answers(b, j, i)
      PROVE  Answers(ms, n + j, n + i)
  <2>1. n + j \in 1..((n + i) - 1)
    BY <1>1, <1>5 DEF Answers, Belongs
  <2>2. ASSUME NEW k \in ((n + j) + 1)..((n + i) - 1) PROVE ~IsStep(ms[k])
    <3>1. k - n \in (j + 1)..(i - 1) /\ k - n \in 1..Len(b) /\ n + (k - n) = k
      BY <1>1
    <3>2. ms[k] = b[k - n]
      BY <1>1, <3>1
    <3> QED
      BY <1>5, <3>1, <3>2 DEF Answers, Belongs
  <2> HIDE DEF ms
  <2> QED
    BY <1>1, <1>5, <2>1, <2>2 DEF Answers, Belongs
<1>6. ASSUME NEW j, NEW i \in DOMAIN a, Answers(a, j, i) PROVE j \in 1..n
  BY <1>1, <1>2, <1>6 DEF Answers, Belongs
<1>7. ASSUME NEW j, NEW i \in DOMAIN b, Answers(b, j, i) PROVE j \in 1..Len(b)
  BY <1>1, <1>2, <1>7 DEF Answers, Belongs
<1>8. Paired(ms)
  <2> SUFFICES ASSUME NEW i \in DOMAIN ms, ms[i].role = "tool"
               PROVE  \E j \in DOMAIN ms : Answers(ms, j, i)
    BY DEF Paired
  <2>1. CASE i \in 1..n
    <3>1. PICK j \in DOMAIN a : Answers(a, j, i)
      BY <1>1, <1>2, <2>1 DEF Whole, Paired
    <3> QED
      BY <1>1, <1>2, <1>4, <2>1, <3>1
  <2>2. CASE i \notin 1..n
    <3>1. PICK k \in 1..Len(b) : i = n + k
      BY <1>3, <2>2
    <3>2. PICK j \in DOMAIN b : Answers(b, j, k)
      BY <1>1, <1>2, <3>1 DEF Whole, Paired
    <3> QED
      BY <1>1, <1>2, <1>5, <3>1, <3>2
  <2> QED
    BY <2>1, <2>2
<1>9. Complete(ms)
  <2> SUFFICES ASSUME NEW j \in DOMAIN ms, NEW id \in CallIds(ms[j]), id > 0
               PROVE  \E i \in DOMAIN ms : Answers(ms, j, i) /\ ms[i].id = id
    BY DEF Complete
  <2>1. CASE j \in 1..n
    <3>1. PICK i \in DOMAIN a : Answers(a, j, i) /\ a[i].id = id
      BY <1>1, <1>2, <2>1 DEF Whole, Complete
    <3> QED
      BY <1>1, <1>2, <1>4, <2>1, <3>1
  <2>2. CASE j \notin 1..n
    <3>1. PICK k \in 1..Len(b) : j = n + k
      BY <1>3, <2>2
    <3>2. PICK i \in DOMAIN b : Answers(b, k, i) /\ b[i].id = id
      BY <1>1, <1>2, <3>1 DEF Whole, Complete
    <3> QED
      BY <1>1, <1>2, <1>5, <3>1, <3>2
  <2> QED
    BY <2>1, <2>2
<1> QED
  BY <1>8, <1>9 DEF Whole

\* A message that neither calls nor answers is whole by itself, and so is
\* nothing.
LEMMA SingleWhole ==
    ASSUME NEW m, m.role # "tool", m.calls = <<>>
    PROVE  Whole(<<m>>)
<1>1. DOMAIN <<m>> = {1} /\ <<m>>[1] = m
  OBVIOUS
<1>2. CallIds(m) = {}
  BY DEF CallIds
<1> QED
  BY <1>1, <1>2 DEF Whole, Paired, Complete

LEMMA EmptyWhole == Whole(<<>>)
BY DEF Whole, Paired, Complete

\* Only roles, numbers and calls matter.
LEMMA SameWhole ==
    ASSUME NEW S, NEW ms \in Seq(S), NEW other \in Seq(S), Whole(ms),
           Len(other) = Len(ms),
           \A i \in DOMAIN ms : /\ other[i].role = ms[i].role /\ other[i].id = ms[i].id
                                /\ other[i].calls = ms[i].calls
    PROVE  Whole(other)
<1>1. DOMAIN other = DOMAIN ms /\ DOMAIN ms = 1..Len(ms) /\ Len(ms) \in Nat
  BY LenProperties
<1>2. ASSUME NEW j, NEW i \in DOMAIN ms, Answers(ms, j, i) PROVE Answers(other, j, i)
  <2>1. j \in DOMAIN ms /\ \A k \in (j + 1)..(i - 1) : k \in DOMAIN ms
    BY <1>1, <1>2 DEF Answers, Belongs
  <2> QED
    BY <1>1, <1>2, <2>1 DEF Answers, Belongs, IsStep, CallIds
<1>3. \A j \in DOMAIN ms : CallIds(other[j]) = CallIds(ms[j])
  BY DEF CallIds
<1> QED
  BY <1>1, <1>2, <1>3 DEF Whole, Paired, Complete

-----------------------------------------------------------------------------
(* What the stages keep                                                    *)

\* Two messages that differ at most in what a user said.
Alike(m, other) ==
    /\ other.role = m.role /\ other.ref = m.ref /\ other.calls = m.calls
    /\ other.id = m.id /\ other.tool = m.tool /\ other.body = m.body
    /\ ~IsUser(m) => other.text = m.text

\* No compaction is shown, and one summary at most.
Clean(ms) == \A i \in DOMAIN ms : NotCompaction(ms[i])

Once(ms) ==
    \A i, j \in DOMAIN ms : ms[i].body = "summary" /\ ms[j].body = "summary" => i = j

\* Users take turns.
NoNeighbours(ms) == \A i \in 2..Len(ms) : ~(IsUser(ms[i]) /\ IsUser(ms[i - 1]))

\* Picking keeps the order, and what is picked comes up once.
LEMMA PickedOnce ==
    ASSUME NEW S, NEW ms \in Seq(S), NEW places \in SUBSET (DOMAIN ms),
           \A i, j \in places : ms[i].body = "summary" /\ ms[j].body = "summary" => i = j
    PROVE  Once(Picked(ms, places))
<1> DEFINE n == Cardinality(places)
           out == Picked(ms, places)
<1>1. /\ DOMAIN out = 1..n
      /\ \A k \in 1..n : Nth(places, k) \in places /\ out[k] = ms[Nth(places, k)]
      /\ \A k, l \in 1..n : k < l => Nth(places, k) < Nth(places, l)
  BY PickedFacts
<1>2. n \in Nat /\ \A i \in places : i \in 1..Len(ms)
  BY PlacesFinite
<1>3. SUFFICES ASSUME NEW k \in 1..n, NEW l \in 1..n,
                      ms[Nth(places, k)].body = "summary", ms[Nth(places, l)].body = "summary"
               PROVE  k = l
  BY <1>1 DEF Once
<1>4. Nth(places, k) = Nth(places, l)
  BY <1>1, <1>3
<1>5. Nth(places, k) \in Nat /\ k \in Nat /\ l \in Nat
  BY <1>1, <1>2
<1>6. ~(k < l) /\ ~(l < k)
  BY <1>1, <1>4, <1>5
<1> QED
  BY <1>5, <1>6

\* The merged text of an adjacent user message is a text.
LEMMA MergeText ==
    ASSUME NEW heap, NEW ms \in Seq(Known(heap)),
           NEW i \in DOMAIN ms
    PROVE  UNION {ms[j].text : j \in RunOf(ms, i)} \in SUBSET Int
<1>1. \A j \in RunOf(ms, i) : j \in DOMAIN ms
  BY DEF RunOf
<1>2. \A j \in DOMAIN ms : ms[j].text \in SUBSET Int
  BY DEF Known, MessageSet
<1> QED
  BY <1>1, <1>2

\* Merging the users of a list.
LEMMA MergedFacts ==
    ASSUME NEW heap, NEW ms \in Seq(Known(heap)), Whole(ms)
    PROVE  LET out == MergedUsers(ms)
               places == {i \in DOMAIN ms : ~Continues(ms, i)}
           IN /\ out \in Seq(Known(heap)) /\ Whole(out) /\ NoNeighbours(out)
              /\ DOMAIN out = 1..Cardinality(places)
              /\ \A k \in DOMAIN out :
                   Nth(places, k) \in DOMAIN ms /\ Alike(ms[Nth(places, k)], out[k])
              /\ ms # <<>> => out # <<>> /\ out[1].role = ms[1].role
              /\ \A i \in DOMAIN ms : ~IsUser(ms[i]) => \E k \in DOMAIN out : Alike(ms[i], out[k])
              /\ Once(ms) => Once(out)
<1> DEFINE mixed == [i \in DOMAIN ms |->
                       IF IsUser(ms[i])
                       THEN [ms[i] EXCEPT !.text = UNION {ms[j].text : j \in RunOf(ms, i)}]
                       ELSE ms[i]]
           places == {i \in DOMAIN ms : ~Continues(ms, i)}
           out == MergedUsers(ms)
           n == Cardinality(places)
<1>1. \A i \in DOMAIN ms : mixed[i] \in Known(heap) /\ Alike(ms[i], mixed[i])
  <2> SUFFICES ASSUME NEW i \in DOMAIN ms PROVE mixed[i] \in Known(heap) /\ Alike(ms[i], mixed[i])
    OBVIOUS
  <2>1. ms[i] \in MessageSet /\ Fits(heap, ms[i])
    BY DEF Known
  <2>2. CASE IsUser(ms[i])
    <3> DEFINE t == UNION {ms[j].text : j \in RunOf(ms, i)}
    <3>1. t \in SUBSET Int
      BY MergeText
    <3>2. mixed[i] = [ms[i] EXCEPT !.text = t]
      BY <2>2
    <3> HIDE DEF t, mixed
    <3>3. mixed[i] \in MessageSet /\ Alike(ms[i], mixed[i])
      BY <2>1, <2>2, <3>1, <3>2 DEF MessageSet, Alike
    <3>4. Fits(heap, mixed[i])
      BY <2>1, <3>3 DEF Alike, Fits, Calls
    <3> QED
      BY <3>3, <3>4 DEF Known
  <2>3. CASE ~IsUser(ms[i])
    BY <2>1, <2>3 DEF Known, Alike
  <2> QED
    BY <2>2, <2>3
<1>2. Len(ms) \in Nat /\ DOMAIN ms = 1..Len(ms)
  BY LenProperties
<1>3. mixed \in Seq(Known(heap)) /\ Len(mixed) = Len(ms) /\ DOMAIN mixed = DOMAIN ms
  BY <1>1, <1>2
<1>4. Whole(mixed)
  <2>1. \A i \in DOMAIN ms : /\ mixed[i].role = ms[i].role /\ mixed[i].id = ms[i].id
                             /\ mixed[i].calls = ms[i].calls
    BY <1>1 DEF Alike
  <2> HIDE DEF mixed
  <2> QED
    BY <1>3, <2>1, SameWhole
<1>5. out = Picked(mixed, places)
  BY DEF MergedUsers
<1> HIDE DEF mixed, out
<1>6. places \in SUBSET (DOMAIN mixed) /\ n \in Nat
  <2>1. places \in SUBSET (DOMAIN mixed)
    BY <1>3
  <2> QED
    BY <1>3, <2>1, PlacesFinite
<1>7. /\ out \in Seq(Known(heap)) /\ Len(out) = n /\ DOMAIN out = 1..n
      /\ \A k \in 1..n : Nth(places, k) \in places /\ out[k] = mixed[Nth(places, k)]
      /\ \A k, l \in 1..n : k < l => Nth(places, k) < Nth(places, l)
  BY <1>3, <1>5, <1>6, PickedFacts
<1>8. \A i \in places : \E k \in 1..n : Nth(places, k) = i
  <2>1. places \in SUBSET Nat /\ IsFiniteSet(places)
    BY <1>3, <1>6, PlacesFinite
  <2> HIDE DEF places
  <2> QED
    BY <2>1, PlaceRank
<1>9. \A i \in DOMAIN ms : ~IsUser(ms[i]) => i \in places
  BY DEF Continues
<1>10. Whole(out)
  <2>1. ASSUME NEW i \in places, mixed[i].role = "tool"
        PROVE  \E j \in places : Answers(mixed, j, i)
    <3>1. PICK j \in DOMAIN ms : Answers(mixed, j, i)
      BY <1>3, <1>4, <2>1 DEF Whole, Paired
    <3>2. CallIds(mixed[j]) # {} /\ ms[j] \in Known(heap)
      BY <3>1 DEF Answers
    <3>3. mixed[j].calls # <<>>
      BY <3>2 DEF CallIds
    <3>4. ms[j].calls # <<>>
      BY <1>1, <3>3 DEF Alike
    <3>5. ~IsUser(ms[j])
      BY <3>2, <3>4 DEF Known, Fits, IsUser
    <3> QED
      BY <1>9, <3>1, <3>5
  <2>2. ASSUME NEW j \in places, NEW id \in CallIds(mixed[j]), id > 0
        PROVE  \E i \in places : Answers(mixed, j, i) /\ mixed[i].id = id
    <3>1. PICK i \in DOMAIN ms : Answers(mixed, j, i) /\ mixed[i].id = id
      BY <1>3, <1>4, <2>2 DEF Whole, Complete
    <3>2. ~IsUser(ms[i])
      BY <1>1, <3>1 DEF Answers, IsUser, Alike
    <3> QED
      BY <1>9, <3>1, <3>2
  <2> HIDE DEF places
  <2> QED
    BY <1>3, <1>5, <1>6, <2>1, <2>2, PickedWhole
<1>11. \A k \in DOMAIN out :
          Nth(places, k) \in DOMAIN ms /\ Alike(ms[Nth(places, k)], out[k])
  BY <1>1, <1>7
<1>12. NoNeighbours(out)
  <2> SUFFICES ASSUME NEW k \in 2..Len(out), IsUser(out[k]), IsUser(out[k - 1]) PROVE FALSE
    BY DEF NoNeighbours
  <2> DEFINE q == Nth(places, k)
             p == Nth(places, k - 1)
  <2>1. k \in 1..n /\ k - 1 \in 1..n /\ k - 1 < k /\ k \in Nat
    BY <1>6, <1>7
  <2>2. p \in places /\ q \in places /\ p < q /\ p \in 1..Len(ms) /\ q \in 1..Len(ms)
    BY <1>2, <1>7, <2>1
  <2>3. IsUser(ms[q])
    BY <1>11, <1>7, <2>1 DEF Alike, IsUser
  <2>4. ~IsUser(ms[q - 1]) /\ q - 1 \in 1..Len(ms)
    BY <1>2, <2>2, <2>3 DEF Continues
  <2>5. IsUser(ms[p])
    BY <1>11, <1>7, <2>1 DEF Alike, IsUser
  <2>6. q - 1 \in places /\ p # q - 1
    BY <1>2, <1>9, <2>4, <2>5
  <2>7. PICK r \in 1..n : Nth(places, r) = q - 1
    BY <1>8, <2>6
  <2>8. r \in Nat /\ p < q - 1 /\ q - 1 < q /\ p \in Nat /\ q \in Nat
    BY <2>2, <2>6, <1>2, <1>6
  <2>9. ~(r < k - 1) /\ r # k - 1
    BY <1>7, <2>1, <2>7, <2>8
  <2>10. ~(k < r) /\ r # k
    BY <1>7, <2>1, <2>7, <2>8
  <2> QED
    BY <2>1, <2>8, <2>9, <2>10
<1>13. ms # <<>> => out # <<>> /\ out[1].role = ms[1].role
  <2> SUFFICES ASSUME ms # <<>> PROVE out # <<>> /\ out[1].role = ms[1].role
    OBVIOUS
  <2>1. 1 \in DOMAIN ms
    BY <1>2, EmptySeq
  <2>2. 1 \in places
    BY <2>1 DEF Continues
  <2>3. PICK r \in 1..n : Nth(places, r) = 1
    BY <1>8, <2>2
  <2>4. 1 \in 1..n /\ r \in Nat
    BY <1>6
  <2>5. Nth(places, 1) \in 1..Len(ms)
    BY <1>2, <1>7, <2>4
  <2>6. r = 1
    <3>1. ~(1 < r)
      BY <1>2, <1>7, <2>3, <2>4, <2>5
    <3> QED
      BY <2>4, <3>1
  <2>7. out[1].role = ms[1].role
    BY <1>7, <1>11, <2>3, <2>4, <2>6 DEF Alike
  <2> QED
    BY <1>7, <2>4, <2>7
<1>14. \A i \in DOMAIN ms : ~IsUser(ms[i]) => \E k \in DOMAIN out : Alike(ms[i], out[k])
  BY <1>7, <1>8, <1>9, <1>11
<1>15. Once(ms) => Once(out)
  <2>1. Once(ms) => Once(mixed)
    BY <1>1, <1>3 DEF Once, Alike
  <2> QED
    BY <1>3, <1>5, <1>6, <2>1, PickedOnce DEF Once
<1> QED
  BY <1>7, <1>10, <1>11, <1>12, <1>13, <1>14, <1>15 DEF out

-----------------------------------------------------------------------------
(* The stages of the assembler                                             *)

Plain(ms) == \A i \in DOMAIN ms : ms[i].body # "summary"

Sound(heap, ms) == ms \in Seq(Known(heap)) /\ Whole(ms) /\ Clean(ms) /\ Once(ms)

Shows(m, other) ==
    other.role = m.role /\ other.id = m.id /\ other.tool = m.tool /\ other.body = m.body

\* Every result that is not a plan's is still there.
Kept(ms, out) ==
    \A i \in DOMAIN ms :
      ms[i].role = "tool" /\ ms[i].tool # "plan" => \E k \in DOMAIN out : Shows(ms[i], out[k])

LEMMA KeptOn ==
    ASSUME NEW a, NEW b, NEW c, Kept(a, b), Kept(b, c)
    PROVE  Kept(a, c)
<1> SUFFICES ASSUME NEW i \in DOMAIN a, a[i].role = "tool", a[i].tool # "plan"
             PROVE  \E k \in DOMAIN c : Shows(a[i], c[k])
  BY DEF Kept
<1>1. PICK j \in DOMAIN b : Shows(a[i], b[j])
  BY DEF Kept
<1>2. PICK k \in DOMAIN c : Shows(b[j], c[k])
  BY <1>1 DEF Kept, Shows
<1> QED
  BY <1>1, <1>2 DEF Shows

\* The answer to a call stands on the same side of every step as the call.
LEMMA CutPoint ==
    ASSUME NEW S, NEW ms \in Seq(S), NEW i, NEW j, Answers(ms, j, i),
           NEW c \in Nat \ {0}, c \in DOMAIN ms => IsStep(ms[c])
    PROVE  (j < c <=> i < c) /\ j \in DOMAIN ms /\ i \in DOMAIN ms
<1>1. /\ i \in Nat /\ j \in Nat /\ 1 <= j /\ j < i /\ i \in DOMAIN ms /\ ms[i].role = "tool"
      /\ \A k \in (j + 1)..(i - 1) : ~IsStep(ms[k])
  BY DEF Answers, Belongs
<1>2. DOMAIN ms = 1..Len(ms) /\ Len(ms) \in Nat
  BY LenProperties
<1>3. ASSUME j < c, c <= i PROVE FALSE
  <2>1. c \in DOMAIN ms /\ c # i
    BY <1>1, <1>2, <1>3 DEF IsStep
  <2>2. c \in (j + 1)..(i - 1)
    BY <1>1, <1>3, <2>1
  <2> QED
    BY <1>1, <2>1, <2>2
<1> QED
  BY <1>1, <1>2, <1>3

LEMMA SingleSound ==
    ASSUME NEW heap, NEW m \in Known(heap), m.role # "tool", m.calls = <<>>
    PROVE  Sound(heap, <<m>>)
<1>1. <<m>> \in Seq(Known(heap)) /\ DOMAIN <<m>> = {1} /\ <<m>>[1] = m
  OBVIOUS
<1>2. NotCompaction(m)
  BY DEF NotCompaction, IsCompactionMsg, IsCompactionCall, Calls
<1> QED
  BY <1>1, <1>2, SingleWhole DEF Sound, Clean, Once

LEMMA PickedSound ==
    ASSUME NEW heap, NEW ms \in Seq(Known(heap)), NEW places \in SUBSET (DOMAIN ms),
           \A i \in places : NotCompaction(ms[i]),
           \A i, j \in places : ms[i].body = "summary" /\ ms[j].body = "summary" => i = j,
           Whole(Picked(ms, places))
    PROVE  /\ Sound(heap, Picked(ms, places))
           /\ (\A i \in places : ms[i].body # "summary") => Plain(Picked(ms, places))
           /\ \A i \in places : \E k \in DOMAIN Picked(ms, places) : Picked(ms, places)[k] = ms[i]
<1> DEFINE out == Picked(ms, places)
           n == Cardinality(places)
<1>2. /\ out \in Seq(Known(heap)) /\ DOMAIN out = 1..n
      /\ \A k \in 1..n : Nth(places, k) \in places /\ out[k] = ms[Nth(places, k)]
  BY PickedFacts
<1>3. Once(out)
  BY PickedOnce
<1>4. \A i \in places : \E k \in 1..n : Nth(places, k) = i
  BY PlacesFinite, PlaceRank
<1> HIDE DEF out, n
<1>5. Clean(out)
  BY <1>2 DEF Clean
<1>6. (\A i \in places : ms[i].body # "summary") => Plain(out)
  BY <1>2 DEF Plain
<1>7. \A i \in places : \E k \in DOMAIN out : out[k] = ms[i]
  <2> SUFFICES ASSUME NEW i \in places PROVE \E k \in DOMAIN out : out[k] = ms[i]
    OBVIOUS
  <2>1. PICK k \in 1..n : Nth(places, k) = i
    BY <1>4
  <2> QED
    BY <1>2, <2>1
<1> QED
  BY <1>2, <1>3, <1>5, <1>6, <1>7 DEF Sound, out

\* The places of two lists, one behind the other.
LEMMA ConcatPlaces ==
    ASSUME NEW S, NEW a \in Seq(S), NEW b \in Seq(S)
    PROVE  /\ Len(a) \in Nat /\ Len(b) \in Nat /\ a \o b \in Seq(S)
           /\ Len(a \o b) = Len(a) + Len(b) /\ DOMAIN (a \o b) = 1..(Len(a) + Len(b))
           /\ \A i \in DOMAIN a : i \in DOMAIN (a \o b) /\ (a \o b)[i] = a[i]
           /\ \A i \in DOMAIN b : Len(a) + i \in DOMAIN (a \o b) /\ (a \o b)[Len(a) + i] = b[i]
           /\ \A i \in DOMAIN (a \o b) : i \in DOMAIN a \/ \E k \in DOMAIN b : i = Len(a) + k
<1> DEFINE ms == a \o b
           n == Len(a)
<1>1. /\ ms \in Seq(S) /\ Len(ms) = n + Len(b)
      /\ \A i \in 1..(n + Len(b)) : ms[i] = IF i <= n THEN a[i] ELSE b[i - n]
  BY ConcatProperties
<1>2. /\ n \in Nat /\ Len(b) \in Nat /\ DOMAIN ms = 1..(n + Len(b)) /\ DOMAIN a = 1..n
      /\ DOMAIN b = 1..Len(b)
  BY <1>1, LenProperties
<1> HIDE DEF n, ms
<1>3. \A i \in DOMAIN a : i \in DOMAIN ms /\ ms[i] = a[i]
  BY <1>1, <1>2
<1>4. \A i \in DOMAIN b : n + i \in DOMAIN ms /\ ms[n + i] = b[i]
  <2>1. \A i \in 1..Len(b) : n + i \in 1..(n + Len(b)) /\ ~(n + i <= n) /\ n + i - n = i
    BY <1>2
  <2> QED
    BY <1>1, <1>2, <2>1
<1>5. ASSUME NEW i \in DOMAIN ms PROVE i \in DOMAIN a \/ \E k \in DOMAIN b : i = n + k
  <2>1. CASE i <= n
    BY <1>2, <2>1
  <2>2. CASE ~(i <= n)
    <3>1. i - n \in 1..Len(b) /\ i = n + (i - n)
      BY <1>2, <2>2
    <3> QED
      BY <1>2, <3>1
  <2> QED
    BY <2>1, <2>2
<1> QED
  BY <1>1, <1>2, <1>3, <1>4, <1>5 DEF n, ms

LEMMA ConcatSound ==
    ASSUME NEW heap, NEW a, NEW b, Sound(heap, a), Sound(heap, b), Plain(a) \/ Plain(b)
    PROVE  Sound(heap, a \o b) /\ (Plain(a) /\ Plain(b) => Plain(a \o b))
<1> DEFINE ms == a \o b
           n == Len(a)
<1>1. a \in Seq(Known(heap)) /\ b \in Seq(Known(heap)) /\ Whole(ms)
  BY ConcatWhole DEF Sound
<1>2. ms \in Seq(Known(heap))
  BY <1>1, ConcatProperties
<1>3. /\ \A i \in DOMAIN a : i \in DOMAIN ms /\ ms[i] = a[i]
      /\ \A i \in DOMAIN b : n + i \in DOMAIN ms /\ ms[n + i] = b[i]
      /\ \A i \in DOMAIN ms : i \in DOMAIN a \/ \E k \in DOMAIN b : i = n + k
  BY <1>1, ConcatPlaces
<1> HIDE DEF n, ms
<1>4. Clean(ms)
  <2> SUFFICES ASSUME NEW i \in DOMAIN ms PROVE NotCompaction(ms[i])
    BY DEF Clean
  <2> QED
    BY <1>3 DEF Sound, Clean
<1>5. Once(ms)
  <2> SUFFICES ASSUME NEW i \in DOMAIN ms, NEW j \in DOMAIN ms,
                      ms[i].body = "summary", ms[j].body = "summary"
               PROVE  i = j
    BY DEF Once
  <2>1. Once(a) /\ Once(b)
    BY DEF Sound
  <2>2. CASE Plain(a)
    <3>1. PICK k \in DOMAIN b : i = n + k
      BY <1>3, <2>2 DEF Plain
    <3>2. PICK l \in DOMAIN b : j = n + l
      BY <1>3, <2>2 DEF Plain
    <3> QED
      BY <1>3, <2>1, <3>1, <3>2 DEF Once
  <2>3. CASE Plain(b)
    <3>1. i \in DOMAIN a /\ j \in DOMAIN a
      BY <1>3, <2>3 DEF Plain
    <3> QED
      BY <1>3, <2>1, <3>1 DEF Once
  <2> QED
    BY <2>2, <2>3
<1>6. Plain(a) /\ Plain(b) => Plain(ms)
  <2> SUFFICES ASSUME Plain(a), Plain(b), NEW i \in DOMAIN ms PROVE ms[i].body # "summary"
    BY DEF Plain
  <2> QED
    BY <1>3 DEF Plain
<1> QED
  BY <1>1, <1>2, <1>4, <1>5, <1>6 DEF Sound, ms

\* Dropping the results of answered tasks; what no answer follows stays, and
\* a placeholder always.
LEMMA DropSound ==
    ASSUME NEW heap, NEW ms, Sound(heap, ms)
    PROVE  LET out == DropAnsweredToolResults(ms)
           IN /\ Sound(heap, out) /\ DOMAIN out = DOMAIN ms
              /\ Plain(ms) => Plain(out)
              /\ \A i \in DOMAIN ms :
                   \/ ms[i].body = "pending"
                   \/ ~IsOrdinaryToolResult(ms[i])
                   \/ \A j \in (i + 1)..Len(ms) : ~IsTextAnswer(ms[j])
                   => out[i] = ms[i]
<1> DEFINE out == DropAnsweredToolResults(ms)
<1>1. ms \in Seq(Known(heap)) /\ Whole(ms) /\ Clean(ms) /\ Once(ms)
  BY DEF Sound
<1>2. DOMAIN ms = 1..Len(ms) /\ Len(ms) \in Nat
  BY <1>1, LenProperties
<1>3. ASSUME NEW i \in DOMAIN ms
      PROVE  out[i] = ms[i] \/ (out[i] = [ms[i] EXCEPT !.body = "dropped"] /\ ms[i].role = "tool"
                                /\ ms[i].tool # Compaction)
  BY DEF DropAnsweredToolResults, IsOrdinaryToolResult
<1>4. ASSUME NEW i \in DOMAIN ms,
             \/ ms[i].body = "pending"
             \/ ~IsOrdinaryToolResult(ms[i])
             \/ \A j \in (i + 1)..Len(ms) : ~IsTextAnswer(ms[j])
      PROVE  out[i] = ms[i]
  BY <1>4 DEF DropAnsweredToolResults
<1>5. DOMAIN out = DOMAIN ms
  BY DEF DropAnsweredToolResults
<1>6. out = [i \in DOMAIN ms |-> out[i]]
  BY <1>5 DEF DropAnsweredToolResults
<1> HIDE DEF out
<1>7. ASSUME NEW i \in DOMAIN ms
      PROVE  /\ out[i] \in Known(heap)
             /\ out[i].role = ms[i].role /\ out[i].id = ms[i].id /\ out[i].calls = ms[i].calls
             /\ out[i].tool = ms[i].tool
             /\ out[i].body = "summary" => ms[i].body = "summary"
  <2>1. ms[i] \in MessageSet /\ Fits(heap, ms[i])
    BY <1>1 DEF Known
  <2>2. CASE out[i] = ms[i]
    BY <2>1, <2>2 DEF Known
  <2>3. CASE out[i] = [ms[i] EXCEPT !.body = "dropped"]
    <3>1. /\ out[i] \in MessageSet
          /\ out[i].role = ms[i].role /\ out[i].id = ms[i].id /\ out[i].calls = ms[i].calls
          /\ out[i].tool = ms[i].tool /\ out[i].ref = ms[i].ref /\ out[i].body = "dropped"
      BY <2>1, <2>3 DEF MessageSet
    <3>2. Fits(heap, out[i])
      BY <2>1, <3>1 DEF Fits, Calls
    <3> QED
      BY <3>1, <3>2 DEF Known
  <2> QED
    BY <1>3, <2>2, <2>3
<1>8. out \in Seq(Known(heap)) /\ Len(out) = Len(ms)
  BY <1>2, <1>6, <1>7
<1>9. Whole(out)
  BY <1>1, <1>7, <1>8, SameWhole
<1>10. Clean(out)
  <2> SUFFICES ASSUME NEW i \in DOMAIN ms PROVE NotCompaction(out[i])
    BY <1>5 DEF Clean
  <2>1. NotCompaction(ms[i])
    BY <1>1 DEF Clean
  <2> QED
    BY <1>7, <2>1 DEF NotCompaction, IsCompactionMsg, IsCompactionCall, Calls
<1>11. Once(out) /\ (Plain(ms) => Plain(out))
  BY <1>1, <1>5, <1>7 DEF Once, Plain
<1> QED
  BY <1>4, <1>5, <1>8, <1>9, <1>10, <1>11 DEF Sound, out

\* What stays of the calls of a message.
LEMMA OtherCalls ==
    ASSUME NEW calls \in Seq(CallSet)
    PROVE  /\ WithoutPlan(calls) \in Seq(CallSet)
           /\ \A k \in DOMAIN WithoutPlan(calls) :
                \E l \in DOMAIN calls : WithoutPlan(calls)[k] = calls[l] /\ calls[l].tool # "plan"
           /\ \A l \in DOMAIN calls : calls[l].tool # "plan" =>
                \E k \in DOMAIN WithoutPlan(calls) : WithoutPlan(calls)[k] = calls[l]
           /\ calls = <<>> => WithoutPlan(calls) = <<>>
<1> DEFINE places == {k \in DOMAIN calls : calls[k].tool # "plan"}
           n == Cardinality(places)
           out == Picked(calls, places)
<1>1. /\ out \in Seq(CallSet) /\ DOMAIN out = 1..n
      /\ \A k \in 1..n : Nth(places, k) \in places /\ out[k] = calls[Nth(places, k)]
  BY PickedFacts
<1>2. \A l \in places : \E k \in 1..n : Nth(places, k) = l
  <2>1. places \in SUBSET Nat /\ IsFiniteSet(places)
    BY PlacesFinite
  <2> HIDE DEF places
  <2> QED
    BY <2>1, PlaceRank
<1>3. calls = <<>> => out = <<>>
  <2> SUFFICES ASSUME calls = <<>> PROVE out = <<>>
    OBVIOUS
  <2>1. places = {}
    OBVIOUS
  <2> HIDE DEF places
  <2> QED
    BY <2>1, PickedNothing
<1>4. out = WithoutPlan(calls)
  BY DEF WithoutPlan
<1> HIDE DEF out, n
<1>5. \A k \in DOMAIN out : \E l \in DOMAIN calls : out[k] = calls[l] /\ calls[l].tool # "plan"
  BY <1>1
<1>6. \A l \in DOMAIN calls : calls[l].tool # "plan" => \E k \in DOMAIN out : out[k] = calls[l]
  <2> SUFFICES ASSUME NEW l \in places PROVE \E k \in DOMAIN out : out[k] = calls[l]
    OBVIOUS
  <2>1. PICK k \in 1..n : Nth(places, k) = l
    BY <1>2
  <2> QED
    BY <1>1, <2>1
<1> HIDE DEF places
<1> QED
  BY <1>1, <1>3, <1>4, <1>5, <1>6

\* Leaving out the plan calls: no other call loses its answer.
LEMMA ExcludeSound ==
    ASSUME NEW heap, NEW ms, Sound(heap, ms)
    PROVE  /\ Sound(heap, ExcludePlanCalls(ms)) /\ Kept(ms, ExcludePlanCalls(ms))
           /\ Plain(ms) => Plain(ExcludePlanCalls(ms))
<1> DEFINE less == [i \in DOMAIN ms |-> [ms[i] EXCEPT !.calls = WithoutPlan(@)]]
           Emptied(m) == Calls(m, "plan") /\ m.text = {} /\ WithoutPlan(m.calls) = <<>>
           places == {i \in DOMAIN ms :
                        ~Emptied(ms[i]) /\ (ms[i].role = "tool" => ms[i].id \notin PlanIds(ms))}
<1>1. ms \in Seq(Known(heap)) /\ Whole(ms) /\ Clean(ms) /\ Once(ms)
  BY DEF Sound
<1>2. DOMAIN ms = 1..Len(ms) /\ Len(ms) \in Nat
  BY <1>1, LenProperties
<1>3. ExcludePlanCalls(ms) = Picked(less, places)
  BY DEF ExcludePlanCalls
<1>4. \A i \in DOMAIN ms : ms[i] \in MessageSet /\ Fits(heap, ms[i])
  BY <1>1 DEF Known
<1>5. ASSUME NEW i \in DOMAIN ms
      PROVE  /\ less[i] \in MessageSet
             /\ less[i].role = ms[i].role /\ less[i].id = ms[i].id /\ less[i].tool = ms[i].tool
             /\ less[i].ref = ms[i].ref /\ less[i].body = ms[i].body /\ less[i].text = ms[i].text
             /\ less[i].calls = WithoutPlan(ms[i].calls)
  <2>1. ms[i].calls \in Seq(CallSet)
    BY <1>4 DEF MessageSet
  <2>2. WithoutPlan(ms[i].calls) \in Seq(CallSet)
    BY <2>1, OtherCalls
  <2> QED
    BY <1>4, <2>2 DEF MessageSet
<1>6. ASSUME NEW i \in DOMAIN ms
      PROVE  /\ \A k \in DOMAIN less[i].calls :
                  \E l \in DOMAIN ms[i].calls : /\ less[i].calls[k] = ms[i].calls[l]
                                                /\ ms[i].calls[l].tool # "plan"
             /\ \A l \in DOMAIN ms[i].calls : ms[i].calls[l].tool # "plan" =>
                  \E k \in DOMAIN less[i].calls : less[i].calls[k] = ms[i].calls[l]
             /\ ms[i].calls = <<>> => less[i].calls = <<>>
  <2>1. ms[i].calls \in Seq(CallSet)
    BY <1>4 DEF MessageSet
  <2>2. less[i].calls = WithoutPlan(ms[i].calls)
    BY <1>5
  <2> HIDE DEF less
  <2> DEFINE c == ms[i].calls
  <2>3. c \in Seq(CallSet) /\ less[i].calls = WithoutPlan(c)
    BY <2>1, <2>2
  <2> HIDE DEF c
  <2>4. /\ \A k \in DOMAIN WithoutPlan(c) :
             \E l \in DOMAIN c : WithoutPlan(c)[k] = c[l] /\ c[l].tool # "plan"
        /\ \A l \in DOMAIN c : c[l].tool # "plan" =>
             \E k \in DOMAIN WithoutPlan(c) : WithoutPlan(c)[k] = c[l]
        /\ c = <<>> => WithoutPlan(c) = <<>>
    BY <2>3, OtherCalls
  <2> QED
    BY <2>3, <2>4 DEF c
<1>7. less = [i \in DOMAIN ms |-> less[i]] /\ DOMAIN less = DOMAIN ms
  OBVIOUS
<1> HIDE DEF less
<1>8. ASSUME NEW i \in DOMAIN ms PROVE less[i] \in Known(heap) /\ NotCompaction(less[i])
  <2>1. Fits(heap, less[i])
    BY <1>4, <1>5, <1>6 DEF Fits, Calls
  <2>2. NotCompaction(ms[i])
    BY <1>1 DEF Clean
  <2>3. NotCompaction(less[i])
    BY <1>5, <1>6, <2>2 DEF NotCompaction, IsCompactionMsg, IsCompactionCall, Calls
  <2> QED
    BY <1>5, <2>1, <2>3 DEF Known
<1>9. less \in Seq(Known(heap)) /\ Len(less) = Len(ms)
  BY <1>2, <1>7, <1>8
<1>10. Clean(less) /\ Once(less) /\ (Plain(ms) => Plain(less))
  BY <1>1, <1>5, <1>7, <1>8 DEF Clean, Once, Plain
<1>11. ASSUME NEW i \in DOMAIN ms, NEW k \in DOMAIN ms[i].calls, ms[i].calls[k].id > 0
       PROVE  ms[i].calls[k].id \in PlanIds(ms) <=> ms[i].calls[k].tool = "plan"
  <2>1. ASSUME ms[i].calls[k].tool = "plan" PROVE ms[i].calls[k].id \in PlanIds(ms)
    BY <2>1 DEF PlanIds
  <2>2. ASSUME ms[i].calls[k].id \in PlanIds(ms) PROVE ms[i].calls[k].tool = "plan"
    <3>1. PICK j \in DOMAIN ms :
            ms[i].calls[k].id \in {ms[j].calls[l].id : l \in {l \in DOMAIN ms[j].calls : ms[j].calls[l].tool = "plan"}}
      BY <2>2 DEF PlanIds
    <3>2. PICK l \in DOMAIN ms[j].calls :
            ms[j].calls[l].tool = "plan" /\ ms[j].calls[l].id = ms[i].calls[k].id
      BY <3>1
    <3>3. heap[ms[i].calls[k].id].tool = "plan"
      BY <1>4, <1>11, <3>2 DEF Fits
    <3> QED
      BY <1>4, <1>11, <3>3 DEF Fits
  <2> QED
    BY <2>1, <2>2
<1>12. \A i \in DOMAIN ms : ms[i].role = "tool" => less[i].calls = <<>> /\ ~Emptied(ms[i])
  BY <1>4, <1>6 DEF Fits, Calls
<1>13. ASSUME NEW i \in DOMAIN ms, NEW j \in DOMAIN ms, Answers(ms, j, i), ms[i].id > 0,
              ms[i].id \notin PlanIds(ms)
       PROVE  Answers(less, j, i) /\ j \in places /\ i \in places
  <2>1. ms[i].role = "tool" /\ Belongs(ms, j, i) /\ ms[i].id \in CallIds(ms[j])
    BY <1>13 DEF Answers
  <2>2. PICK k \in DOMAIN ms[j].calls : ms[j].calls[k].id = ms[i].id
    BY <2>1 DEF CallIds
  <2>3. ms[j].calls[k].tool # "plan"
    BY <1>11, <1>13, <2>2
  <2>4. PICK l \in DOMAIN less[j].calls : less[j].calls[l] = ms[j].calls[k]
    BY <1>6, <2>3
  <2>5. less[i].id \in CallIds(less[j])
    BY <1>5, <2>2, <2>4 DEF CallIds
  <2>6. \A q \in (j + 1)..(i - 1) : q \in DOMAIN ms
    BY <1>2, <2>1 DEF Belongs
  <2>7. Answers(less, j, i)
    BY <1>5, <1>7, <2>1, <2>5, <2>6 DEF Answers, Belongs, IsStep
  <2>8. i \in places
    BY <1>12, <1>13, <2>1
  <2>9. WithoutPlan(ms[j].calls) # <<>>
    BY <1>5, <2>4
  <2>10. ms[j].role # "tool"
    BY <2>1 DEF Belongs, IsStep
  <2> QED
    BY <2>7, <2>8, <2>9, <2>10
<1>14. \A i \in DOMAIN ms : ms[i].role = "tool" =>
          /\ ms[i].id > 0 /\ heap[ms[i].id].tool = ms[i].tool
          /\ \E j \in DOMAIN ms : Answers(ms, j, i)
  BY <1>1, <1>4 DEF Whole, Paired, Fits
<1>15. ASSUME NEW i \in places, less[i].role = "tool"
       PROVE  \E j \in places : Answers(less, j, i)
  BY <1>5, <1>13, <1>14, <1>15
<1>16. ASSUME NEW j \in places, NEW id \in CallIds(less[j]), id > 0
       PROVE  \E i \in places : Answers(less, j, i) /\ less[i].id = id
  <2>1. PICK k \in DOMAIN less[j].calls : less[j].calls[k].id = id
    BY DEF CallIds
  <2>2. PICK l \in DOMAIN ms[j].calls :
          less[j].calls[k] = ms[j].calls[l] /\ ms[j].calls[l].tool # "plan"
    BY <1>6
  <2>3. id \in CallIds(ms[j]) /\ id \notin PlanIds(ms)
    BY <1>11, <1>16, <2>1, <2>2 DEF CallIds
  <2>4. PICK i \in DOMAIN ms : Answers(ms, j, i) /\ ms[i].id = id
    BY <1>1, <1>16, <2>3 DEF Whole, Complete
  <2> QED
    BY <1>5, <1>13, <1>16, <2>3, <2>4
<1>17. places \in SUBSET (DOMAIN less)
  BY <1>7
<1>18. \A i \in DOMAIN ms : ms[i].role = "tool" /\ ms[i].tool # "plan" => i \in places
  <2> SUFFICES ASSUME NEW i \in DOMAIN ms, ms[i].role = "tool", ms[i].tool # "plan"
               PROVE  i \in places
    OBVIOUS
  <2>1. ms[i].id \notin PlanIds(ms)
    <3> SUFFICES ASSUME ms[i].id \in PlanIds(ms) PROVE FALSE
      OBVIOUS
    <3>1. PICK j \in DOMAIN ms :
            ms[i].id \in {ms[j].calls[l].id : l \in {l \in DOMAIN ms[j].calls : ms[j].calls[l].tool = "plan"}}
      BY DEF PlanIds
    <3>2. PICK l \in DOMAIN ms[j].calls :
            ms[j].calls[l].tool = "plan" /\ ms[j].calls[l].id = ms[i].id
      BY <3>1
    <3>3. heap[ms[i].id].tool = "plan"
      BY <1>4, <1>14, <3>2 DEF Fits
    <3> QED
      BY <1>14, <3>3
  <2> QED
    BY <1>12, <2>1
<1> HIDE DEF places
<1>19. Whole(Picked(less, places))
  BY <1>9, <1>15, <1>16, <1>17, PickedWhole
<1> DEFINE out == Picked(less, places)
<1>20. /\ Sound(heap, out)
       /\ (\A i \in places : less[i].body # "summary") => Plain(out)
       /\ \A i \in places : \E k \in DOMAIN out : out[k] = less[i]
  BY <1>9, <1>10, <1>17, <1>19, PickedSound DEF Clean, Once
<1>21. Plain(ms) => Plain(out)
  BY <1>10, <1>17, <1>20 DEF Plain
<1> HIDE DEF out
<1>22. Kept(ms, out)
  <2> SUFFICES ASSUME NEW i \in DOMAIN ms, ms[i].role = "tool", ms[i].tool # "plan"
               PROVE  \E k \in DOMAIN out : Shows(ms[i], out[k])
    BY DEF Kept
  <2>1. PICK k \in DOMAIN out : out[k] = less[i]
    BY <1>18, <1>20
  <2> QED
    BY <1>5, <2>1 DEF Shows
<1> QED
  BY <1>3, <1>20, <1>21, <1>22 DEF out

\* Trimming the dialogue of old turns: the cuts are at user messages, and
\* between them calls and results stay.
LEMMA TrimSound ==
    ASSUME NEW heap, NEW ms, Sound(heap, ms)
    PROVE  /\ Sound(heap, TrimDialogueTurns(ms)) /\ Kept(ms, TrimDialogueTurns(ms))
           /\ Plain(ms) => Plain(TrimDialogueTurns(ms))
<1> DEFINE starts == TurnStarts(ms)
           n == Cardinality(starts)
           lo == Nth(starts, KeepFirst + 1)
           hi == Nth(starts, n - KeepRecent + 1)
           front == 1..(lo - 1)
           back == {i \in lo..Len(ms) : i >= hi \/ MustKeepInTrim(ms[i])}
           note == UserMessage(NoRef, {})
<1>1. ms \in Seq(Known(heap)) /\ Whole(ms) /\ Clean(ms) /\ Once(ms)
  BY DEF Sound
<1>2. DOMAIN ms = 1..Len(ms) /\ Len(ms) \in Nat
  BY <1>1, LenProperties
<1>3. CASE n <= KeepFirst + KeepRecent
  <2>1. TrimDialogueTurns(ms) = ms
    BY <1>3 DEF TrimDialogueTurns
  <2>2. Kept(ms, ms)
    BY DEF Kept, Shows
  <2> QED
    BY <2>1, <2>2
<1>4. CASE ~(n <= KeepFirst + KeepRecent)
  <2>1. starts \in SUBSET (DOMAIN ms) /\ \A i \in starts : IsStep(ms[i])
    BY DEF TurnStarts, IsUser, IsStep
  <2>2. TrimDialogueTurns(ms) = (Picked(ms, front) \o <<note>>) \o Picked(ms, back)
    BY <1>4 DEF TrimDialogueTurns
  <2> HIDE DEF starts
  <2>3. IsFiniteSet(starts) /\ n \in Nat /\ starts \in SUBSET Nat
    BY <1>1, <2>1, PlacesFinite
  <2>4. KeepFirst \in Nat \ {0} /\ KeepRecent \in Nat \ {0}
    BY ContextAssumption
  <2>5. KeepFirst + 1 \in 1..n
    BY <1>4, <2>3, <2>4
  <2>6. lo \in starts
    BY <2>3, <2>5, NthPlace
  <2> HIDE DEF lo, hi, n
  <2>7. lo \in 1..Len(ms) /\ IsStep(ms[lo]) /\ lo \in Nat \ {0}
    BY <1>2, <2>1, <2>6
  <2>8. front \in SUBSET (DOMAIN ms) /\ back \in SUBSET (DOMAIN ms)
    BY <1>2, <2>7
  <2>9. \A i \in DOMAIN ms : (i \in front <=> i < lo) /\ (i \in back => ~(i < lo))
                             /\ (~(i < lo) /\ MustKeepInTrim(ms[i]) => i \in back)
    BY <1>2, <2>7
  <2> HIDE DEF front, back
  <2>10. ASSUME NEW i, NEW j, Answers(ms, j, i)
         PROVE  /\ i \in DOMAIN ms /\ j \in DOMAIN ms
                /\ i \in front <=> j \in front
                /\ MustKeepInTrim(ms[i]) /\ MustKeepInTrim(ms[j])
    <3>1. (j < lo <=> i < lo) /\ j \in DOMAIN ms /\ i \in DOMAIN ms
      BY <1>1, <2>7, <2>10, CutPoint
    <3>2. ms[i].role = "tool" /\ CallIds(ms[j]) # {}
      BY <2>10 DEF Answers
    <3>3. ms[j].calls # <<>>
      BY <3>2 DEF CallIds
    <3> QED
      BY <2>9, <3>1, <3>2, <3>3 DEF MustKeepInTrim
  <2>11. \A i \in DOMAIN ms : ms[i].role = "tool" => \E j \in DOMAIN ms : Answers(ms, j, i)
    BY <1>1 DEF Whole, Paired
  <2>12. \A j \in DOMAIN ms : \A id \in CallIds(ms[j]) :
            id > 0 => \E i \in DOMAIN ms : Answers(ms, j, i) /\ ms[i].id = id
    BY <1>1 DEF Whole, Complete
  <2>13. Whole(Picked(ms, front))
    <3>1. \A i \in front : ms[i].role = "tool" => \E j \in front : Answers(ms, j, i)
      BY <2>8, <2>10, <2>11
    <3>2. \A j \in front : \A id \in CallIds(ms[j]) :
             id > 0 => \E i \in front : Answers(ms, j, i) /\ ms[i].id = id
      BY <2>8, <2>10, <2>12
    <3> QED
      BY <1>1, <2>8, <3>1, <3>2, PickedWhole
  <2>14. Whole(Picked(ms, back))
    <3>1. \A i \in back : ms[i].role = "tool" => \E j \in back : Answers(ms, j, i)
      BY <2>8, <2>9, <2>10, <2>11
    <3>2. \A j \in back : \A id \in CallIds(ms[j]) :
             id > 0 => \E i \in back : Answers(ms, j, i) /\ ms[i].id = id
      BY <2>8, <2>9, <2>10, <2>12
    <3> QED
      BY <1>1, <2>8, <3>1, <3>2, PickedWhole
  <2> DEFINE a == Picked(ms, front)
             b == Picked(ms, back)
             c == a \o <<note>>
  <2>15. /\ Sound(heap, a)
         /\ (\A i \in front : ms[i].body # "summary") => Plain(a)
         /\ \A i \in front : \E k \in DOMAIN a : a[k] = ms[i]
    BY <1>1, <2>8, <2>13, PickedSound DEF Clean, Once
  <2>16. /\ Sound(heap, b)
         /\ (\A i \in back : ms[i].body # "summary") => Plain(b)
         /\ \A i \in back : \E k \in DOMAIN b : b[k] = ms[i]
    BY <1>1, <2>8, <2>14, PickedSound DEF Clean, Once
  <2>17. Sound(heap, <<note>>) /\ Plain(<<note>>)
    <3>1. note \in Known(heap) /\ note.role # "tool" /\ note.calls = <<>> /\ note.body # "summary"
      BY MadeMessages DEF UserMessage, Message
    <3> HIDE DEF note
    <3>2. DOMAIN <<note>> = {1} /\ <<note>>[1] = note
      OBVIOUS
    <3> QED
      BY <3>1, <3>2, SingleSound DEF Plain
  <2> HIDE DEF a, b, note
  <2>18. /\ Sound(heap, c) /\ (Plain(a) => Plain(c))
         /\ \A i \in DOMAIN a : i \in DOMAIN c /\ c[i] = a[i]
    <3>1. Sound(heap, c) /\ (Plain(a) => Plain(c))
      BY <2>15, <2>17, ConcatSound
    <3>2. a \in Seq(Known(heap)) /\ <<note>> \in Seq(Known(heap))
      BY <2>15, <2>17 DEF Sound
    <3> QED
      BY <3>1, <3>2, ConcatPlaces
  <2>19. Plain(c) \/ Plain(b)
    <3>1. CASE \A i \in front : ms[i].body # "summary"
      BY <2>15, <2>18, <3>1
    <3>2. CASE ~ \A i \in front : ms[i].body # "summary"
      <4>1. PICK i \in front : ms[i].body = "summary"
        BY <3>2
      <4>2. \A j \in back : i # j
        BY <2>8, <2>9, <4>1
      <4>3. \A j \in back : ms[j].body # "summary"
        BY <1>1, <2>8, <4>1, <4>2 DEF Once
      <4> QED
        BY <2>16, <4>3
    <3> QED
      BY <3>1, <3>2
  <2> HIDE DEF c
  <2> DEFINE out == c \o b
  <2>20. /\ Sound(heap, out) /\ (Plain(c) /\ Plain(b) => Plain(out))
         /\ \A i \in DOMAIN c : i \in DOMAIN out /\ out[i] = c[i]
         /\ \A i \in DOMAIN b : Len(c) + i \in DOMAIN out /\ out[Len(c) + i] = b[i]
    <3>1. Sound(heap, out) /\ (Plain(c) /\ Plain(b) => Plain(out))
      BY <2>16, <2>18, <2>19, ConcatSound
    <3>2. c \in Seq(Known(heap)) /\ b \in Seq(Known(heap))
      BY <2>16, <2>18 DEF Sound
    <3> QED
      BY <3>1, <3>2, ConcatPlaces
  <2>21. TrimDialogueTurns(ms) = out
    BY <2>2 DEF a, b, c
  <2> HIDE DEF out
  <2>22. Plain(ms) => Plain(out)
    BY <2>8, <2>15, <2>16, <2>18, <2>20 DEF Plain
  <2>23. Kept(ms, out)
    <3> SUFFICES ASSUME NEW i \in DOMAIN ms, ms[i].role = "tool"
                 PROVE  \E k \in DOMAIN out : out[k] = ms[i]
      BY DEF Kept, Shows
    <3>1. CASE i \in front
      BY <2>15, <2>18, <2>20, <3>1
    <3>2. CASE i \notin front
      <4>1. i \in back
        BY <2>9, <3>2 DEF MustKeepInTrim
      <4> QED
        BY <2>16, <2>20, <4>1
    <3> QED
      BY <3>1, <3>2
  <2> QED
    BY <2>20, <2>21, <2>22, <2>23
<1> QED
  BY <1>3, <1>4

-----------------------------------------------------------------------------
(* Compactions                                                             *)

\* The recent steps that a compaction leaves were counted where it stands,
\* and what it stands for holds no placeholder.
Fitting(ms) ==
    \A p \in CompactionCalls(ms) :
      /\ ms[p].calls[1].arg \in MayRemain(ms, p)
      /\ \A i \in Middle(ms, p, ms[p].calls[1].arg) : ms[i].body # "pending"

\* What the latest compaction stands for.
Gone(ms) ==
    IF CompactionCalls(ms) = {} THEN {}
    ELSE Middle(ms, LastCompaction(ms), ms[LastCompaction(ms)].calls[1].arg)

\* A message in two lists, the second of which has nothing behind it that is
\* not behind it in the first.
Behind(ms, i, out, k) ==
    /\ out[k] = ms[i]
    /\ \A l \in (k + 1)..Len(out) :
         IsTextAnswer(out[l]) => \E j \in (i + 1)..Len(ms) : out[l] = ms[j]

\* Messages about compactions answer each other.
LEMMA CompactionPairs ==
    ASSUME NEW heap, NEW ms \in Seq(Known(heap)), NEW i, NEW j \in DOMAIN ms, Answers(ms, j, i)
    PROVE  NotCompaction(ms[i]) <=> NotCompaction(ms[j])
<1>1. /\ ms[i].role = "tool" /\ IsStep(ms[j]) /\ ms[i].id \in CallIds(ms[j])
      /\ ms[i] \in Known(heap) /\ ms[j] \in Known(heap)
  BY DEF Answers, Belongs
<1>2. PICK k \in DOMAIN ms[j].calls : ms[j].calls[k].id = ms[i].id
  BY <1>1 DEF CallIds
<1>3. ms[j].calls[k].tool = ms[i].tool
  BY <1>1, <1>2 DEF Known, Fits
<1>4. ms[j].role = "assistant"
  BY <1>1, <1>2 DEF Known, Fits
<1>5. IsCompactionMsg(ms[i]) <=> ms[i].tool = Compaction
  BY <1>1 DEF IsCompactionMsg, IsCompactionCall
<1>6. IsCompactionMsg(ms[j]) <=> ms[j].calls[k].tool = Compaction
  BY <1>1, <1>2, <1>4 DEF IsCompactionMsg, IsCompactionCall, Calls, Known, Fits
<1> QED
  BY <1>3, <1>5, <1>6 DEF NotCompaction

\* The last one of some places of a list.
LEMMA LastPlace ==
    ASSUME NEW S, NEW ms \in Seq(S), NEW places \in SUBSET (DOMAIN ms), places # {}
    PROVE  LET p == CHOOSE i \in places : \A j \in places : j <= i
           IN p \in places /\ \A j \in places : j <= p
<1> DEFINE n == Cardinality(places)
<1>1. IsFiniteSet(places) /\ places \in SUBSET Nat /\ n \in Nat
  BY PlacesFinite
<1>2. \A j \in places : \E k \in 1..n : Nth(places, k) = j
  BY <1>1, PlaceRank
<1>3. /\ \A k \in 1..n : Nth(places, k) \in places
      /\ \A k, l \in 1..n : k < l => Nth(places, k) < Nth(places, l)
  BY PickedFacts
<1> HIDE DEF n
<1>4. n \in 1..n
  BY <1>1, <1>2
<1>5. ASSUME NEW j \in places PROVE j <= Nth(places, n)
  <2>1. PICK k \in 1..n : Nth(places, k) = j
    BY <1>2
  <2>2. k < n \/ k = n
    BY <1>1
  <2> QED
    BY <1>1, <1>3, <1>4, <2>1, <2>2
<1> QED
  BY <1>3, <1>4, <1>5

\* Where the middle of a fitting compaction begins and ends.
LEMMA MiddleSteps ==
    ASSUME NEW S, NEW ms \in Seq(S), NEW p \in Nat, NEW recent \in MayRemain(ms, p)
    PROVE  LET n == Cardinality(StepStarts(ms, p))
               h == StepAt(ms, p, KeepFirst)
               r == StepAt(ms, p, n - recent)
           IN /\ Middle(ms, p, recent) = h..(r - 1)
              /\ h \in StepStarts(ms, p) /\ r \in StepStarts(ms, p)
              /\ h \in Nat \ {0} /\ r \in Nat \ {0} /\ h < r /\ r < p
              /\ n \in Nat /\ recent \in Nat /\ KeepFirst < n /\ KeepFirst < n - recent
<1> DEFINE starts == StepStarts(ms, p)
           n == Cardinality(starts)
           h == StepAt(ms, p, KeepFirst)
           r == StepAt(ms, p, n - recent)
<1>1. starts \in SUBSET (DOMAIN ms) /\ \A i \in starts : i < p
  BY DEF StepStarts
<1>2. IsFiniteSet(starts) /\ n \in Nat /\ \A i \in starts : i \in 1..Len(ms)
  BY <1>1, PlacesFinite
<1>3. KeepFirst \in Nat \ {0} /\ recent \in 1..(n - KeepFirst - 1)
  BY ContextAssumption DEF MayRemain
<1>4. /\ recent \in Nat /\ 1 <= recent /\ recent <= n - KeepFirst - 1
      /\ KeepFirst < n /\ n - recent < n /\ KeepFirst < n - recent
      /\ KeepFirst + 1 \in 1..n /\ n - recent + 1 \in 1..n
      /\ KeepFirst + 1 < n - recent + 1
  BY <1>2, <1>3
<1>5. h = Nth(starts, KeepFirst + 1) /\ r = Nth(starts, n - recent + 1)
  BY <1>4 DEF StepAt
<1>6. Middle(ms, p, recent) = h..(r - 1)
  BY DEF Middle
<1> HIDE DEF h, r, n, starts
<1>7. /\ \A k \in 1..n : Nth(starts, k) \in starts
      /\ \A k, l \in 1..n : k < l => Nth(starts, k) < Nth(starts, l)
  BY <1>1, PickedFacts DEF n
<1>8. h \in starts /\ r \in starts /\ h < r
  BY <1>4, <1>5, <1>7
<1>9. h \in Nat \ {0} /\ r \in Nat \ {0} /\ r < p
  BY <1>1, <1>2, <1>8
<1> QED
  BY <1>2, <1>4, <1>6, <1>8, <1>9 DEF h, r, n, starts

\* Picking keeps what stands behind.
LEMMA PickedBehind ==
    ASSUME NEW S, NEW ms \in Seq(S), NEW places \in SUBSET (DOMAIN ms)
    PROVE  /\ \A k \in DOMAIN Picked(ms, places) :
                \E j \in places : Picked(ms, places)[k] = ms[j]
           /\ \A i \in places : \E k \in DOMAIN Picked(ms, places) :
                /\ Picked(ms, places)[k] = ms[i]
                /\ \A l \in DOMAIN Picked(ms, places) : k < l =>
                     \E j \in places : i < j /\ Picked(ms, places)[l] = ms[j]
<1> DEFINE out == Picked(ms, places)
           n == Cardinality(places)
<1>1. /\ DOMAIN out = 1..n
      /\ \A k \in 1..n : Nth(places, k) \in places /\ out[k] = ms[Nth(places, k)]
      /\ \A k, l \in 1..n : k < l => Nth(places, k) < Nth(places, l)
  BY PickedFacts
<1>2. \A i \in places : \E k \in 1..n : Nth(places, k) = i
  BY PlacesFinite, PlaceRank
<1> HIDE DEF out, n
<1>3. \A k \in DOMAIN out : \E j \in places : out[k] = ms[j]
  BY <1>1
<1>4. ASSUME NEW i \in places
      PROVE  \E k \in DOMAIN out :
               /\ out[k] = ms[i]
               /\ \A l \in DOMAIN out : k < l => \E j \in places : i < j /\ out[l] = ms[j]
  <2>1. PICK k \in 1..n : Nth(places, k) = i
    BY <1>2
  <2>2. ASSUME NEW l \in DOMAIN out, k < l PROVE \E j \in places : i < j /\ out[l] = ms[j]
    BY <1>1, <2>1, <2>2
  <2> QED
    BY <1>1, <2>1, <2>2
<1> QED
  BY <1>3, <1>4 DEF out

\* A list of objects: nothing in it was made for a prompt.
Objects(heap, ms) ==
    ms \in Seq(Known(heap)) /\ Whole(ms) /\ \A i \in DOMAIN ms : ms[i].role # "system"

\* Replacing the middle before the latest compaction: the cuts are at steps.
LEMMA ApplySound ==
    ASSUME NEW heap, NEW ms, Objects(heap, ms), Fitting(ms), CompactionCalls(ms) # {}
    PROVE  LET out == ApplyCompactionView(ms)
           IN /\ Sound(heap, out)
              /\ \A i \in DOMAIN ms : NotCompaction(ms[i]) /\ i \notin Gone(ms) =>
                   \E k \in DOMAIN out : Behind(ms, i, out, k)
<1> DEFINE p == LastCompaction(ms)
           arg == ms[p].calls[1].arg
           n == Cardinality(StepStarts(ms, p))
           h == StepAt(ms, p, KeepFirst)
           r == StepAt(ms, p, n - arg)
           front == {i \in 1..(h - 1) : NotCompaction(ms[i])}
           back == {i \in r..Len(ms) : NotCompaction(ms[i])}
           sum == SystemMessage("summary")
           a == Picked(ms, front)
           b == Picked(ms, back)
           c == a \o <<sum>>
           out == c \o b
<1>1. ms \in Seq(Known(heap)) /\ Whole(ms) /\ \A i \in DOMAIN ms : ms[i].role # "system"
  BY DEF Objects
<1>2. DOMAIN ms = 1..Len(ms) /\ Len(ms) \in Nat
  BY <1>1, LenProperties
<1>3. p \in DOMAIN ms /\ p \in CompactionCalls(ms) /\ p \in Nat
  <2> DEFINE calls == CompactionCalls(ms)
  <2>1. calls \in SUBSET (DOMAIN ms)
    BY DEF CompactionCalls
  <2>2. p = CHOOSE i \in calls : \A j \in calls : j <= i
    BY DEF LastCompaction
  <2> HIDE DEF calls, p
  <2>3. calls # {}
    BY DEF calls
  <2>4. p \in calls
    BY <1>1, <2>1, <2>2, <2>3, LastPlace
  <2> QED
    BY <1>2, <2>1, <2>4 DEF calls
<1> HIDE DEF p
<1>4. arg \in MayRemain(ms, p) /\ Gone(ms) = Middle(ms, p, arg)
  BY <1>3 DEF Fitting, Gone, p
<1> HIDE DEF arg
<1>5. /\ Gone(ms) = h..(r - 1) /\ h \in StepStarts(ms, p) /\ r \in StepStarts(ms, p)
      /\ h \in Nat \ {0} /\ r \in Nat \ {0} /\ h < r /\ r < p
      /\ n \in Nat /\ arg \in Nat /\ KeepFirst < n /\ KeepFirst < n - arg
  BY <1>1, <1>3, <1>4, MiddleSteps
<1>6. /\ h \in DOMAIN ms /\ r \in DOMAIN ms /\ IsStep(ms[h]) /\ IsStep(ms[r]) /\ IsStep(ms[p])
      /\ IsCompactionMsg(ms[p])
  <2>1. h \in DOMAIN ms /\ r \in DOMAIN ms /\ IsStep(ms[h]) /\ IsStep(ms[r])
    BY <1>5 DEF StepStarts
  <2>2. IsCompactionCall(ms[p])
    BY <1>3 DEF CompactionCalls
  <2> QED
    BY <2>1, <2>2 DEF IsCompactionMsg, IsCompactionCall, IsStep
<1>7. ApplyCompactionView(ms) = out
  <2> DEFINE headKeep == IF KeepFirst < n THEN KeepFirst ELSE n
             fits == n - ms[p].calls[1].arg
             recentStart == IF fits > headKeep THEN fits ELSE headKeep
             head == 1..(StepAt(ms, p, headKeep) - 1)
             recent == StepAt(ms, p, recentStart)..(p - 1)
             future == {i \in (p + 1)..Len(ms) : i = p + 1 => ms[i].role # "tool"}
  <2>1. ApplyCompactionView(ms) =
          (Picked(ms, {i \in head : NotCompaction(ms[i])}) \o <<sum>>)
          \o Picked(ms, {i \in recent \cup future : NotCompaction(ms[i])})
    BY DEF ApplyCompactionView, p
  <2>2. headKeep = KeepFirst /\ recentStart = n - arg
    <3>1. fits = n - arg
      BY DEF arg
    <3> HIDE DEF n, fits
    <3>2. headKeep = KeepFirst
      BY <1>5
    <3> HIDE DEF headKeep
    <3>3. KeepFirst \in Nat
      BY ContextAssumption
    <3> QED
      BY <1>5, <3>1, <3>2, <3>3
  <2>3. head = 1..(h - 1) /\ recent = r..(p - 1)
    BY <2>2
  <2>4. ASSUME p + 1 \in DOMAIN ms, ms[p + 1].role = "tool" PROVE ~NotCompaction(ms[p + 1])
    <3>1. PICK j \in DOMAIN ms : Answers(ms, j, p + 1)
      BY <1>1, <2>4 DEF Whole, Paired
    <3>2. j = p
      <4>1. j \in 1..p /\ p \notin (j + 1)..p
        BY <1>3, <1>6, <3>1 DEF Answers, Belongs
      <4> QED
        BY <1>3, <4>1
    <3> QED
      BY <1>1, <1>6, <3>1, <3>2, CompactionPairs DEF NotCompaction
  <2> HIDE DEF recent, future, head
  <2>5. \A i : i \in recent \cup future /\ NotCompaction(ms[i])
                <=> i \in r..Len(ms) /\ NotCompaction(ms[i])
    <3> SUFFICES ASSUME NEW i, NotCompaction(ms[i])
                 PROVE  i \in recent \cup future <=> i \in r..Len(ms)
      OBVIOUS
    <3>1. i # p /\ (i = p + 1 /\ i \in DOMAIN ms => ms[i].role # "tool")
      BY <1>6, <2>4 DEF NotCompaction
    <3>2. i \in recent <=> i \in r..(p - 1)
      BY <2>3
    <3>3. i \in future <=> i \in (p + 1)..Len(ms)
      BY <1>2, <1>3, <3>1 DEF future
    <3>4. p \in 1..Len(ms)
      BY <1>2, <1>3
    <3> HIDE DEF r
    <3>5. i \in r..(p - 1) \/ i \in (p + 1)..Len(ms) <=> i \in r..Len(ms)
      BY <1>2, <1>3, <1>5, <3>1, <3>4
    <3> QED
      BY <3>2, <3>3, <3>5
  <2>6. {i \in recent \cup future : NotCompaction(ms[i])} = back
    BY <2>5
  <2>7. {i \in head : NotCompaction(ms[i])} = front
    BY <2>3
  <2> QED
    BY <2>1, <2>6, <2>7
<1> HIDE DEF h, r, n
<1>8. front \in SUBSET (DOMAIN ms) /\ back \in SUBSET (DOMAIN ms)
  BY <1>2, <1>5, <1>6
<1>9. \A i \in DOMAIN ms : (i \in front <=> i < h /\ NotCompaction(ms[i]))
                           /\ (i \in back <=> ~(i < r) /\ NotCompaction(ms[i]))
  BY <1>2, <1>5
<1> HIDE DEF front, back
<1>10. ASSUME NEW i, NEW j, Answers(ms, j, i)
       PROVE  /\ i \in DOMAIN ms /\ j \in DOMAIN ms
              /\ i \in front <=> j \in front
              /\ i \in back <=> j \in back
  <2>1. (j < h <=> i < h) /\ (j < r <=> i < r) /\ j \in DOMAIN ms /\ i \in DOMAIN ms
    BY <1>1, <1>5, <1>6, <1>10, CutPoint
  <2>2. NotCompaction(ms[i]) <=> NotCompaction(ms[j])
    BY <1>1, <1>10, <2>1, CompactionPairs
  <2> QED
    BY <1>9, <2>1, <2>2
<1>11. \A i \in DOMAIN ms : ms[i].role = "tool" => \E j \in DOMAIN ms : Answers(ms, j, i)
  BY <1>1 DEF Whole, Paired
<1>12. \A j \in DOMAIN ms : \A id \in CallIds(ms[j]) :
          id > 0 => \E i \in DOMAIN ms : Answers(ms, j, i) /\ ms[i].id = id
  BY <1>1 DEF Whole, Complete
<1>13. ASSUME NEW i \in DOMAIN ms, NotCompaction(ms[i]) PROVE ms[i].body # "summary"
  BY <1>1, <1>13 DEF NotCompaction, IsCompactionMsg, Known, Fits
<1>14. Whole(a)
  <2>1. \A i \in front : ms[i].role = "tool" => \E j \in front : Answers(ms, j, i)
    BY <1>8, <1>10, <1>11
  <2>2. \A j \in front : \A id \in CallIds(ms[j]) :
           id > 0 => \E i \in front : Answers(ms, j, i) /\ ms[i].id = id
    BY <1>8, <1>10, <1>12
  <2> QED
    BY <1>1, <1>8, <2>1, <2>2, PickedWhole
<1>15. Whole(b)
  <2>1. \A i \in back : ms[i].role = "tool" => \E j \in back : Answers(ms, j, i)
    BY <1>8, <1>10, <1>11
  <2>2. \A j \in back : \A id \in CallIds(ms[j]) :
           id > 0 => \E i \in back : Answers(ms, j, i) /\ ms[i].id = id
    BY <1>8, <1>10, <1>12
  <2> QED
    BY <1>1, <1>8, <2>1, <2>2, PickedWhole
<1>16. Sound(heap, a) /\ Plain(a)
  BY <1>1, <1>8, <1>9, <1>13, <1>14, PickedSound
<1>17. Sound(heap, b) /\ Plain(b)
  BY <1>1, <1>8, <1>9, <1>13, <1>15, PickedSound
<1>18. Sound(heap, <<sum>>) /\ ~IsTextAnswer(sum)
  <2>1. sum \in Known(heap) /\ sum.role # "tool" /\ sum.calls = <<>> /\ sum.role # "assistant"
    BY MadeMessages DEF SystemMessage, Message
  <2> HIDE DEF sum
  <2> QED
    BY <2>1, SingleSound DEF IsTextAnswer
<1>19. /\ \A k \in DOMAIN a : \E j \in front : a[k] = ms[j]
       /\ \A i \in front : \E k \in DOMAIN a :
            /\ a[k] = ms[i]
            /\ \A l \in DOMAIN a : k < l => \E j \in front : i < j /\ a[l] = ms[j]
  BY <1>1, <1>8, PickedBehind
<1>20. /\ \A k \in DOMAIN b : \E j \in back : b[k] = ms[j]
       /\ \A i \in back : \E k \in DOMAIN b :
            /\ b[k] = ms[i]
            /\ \A l \in DOMAIN b : k < l => \E j \in back : i < j /\ b[l] = ms[j]
  BY <1>1, <1>8, PickedBehind
<1> HIDE DEF a, b, sum
<1>21. Sound(heap, c)
  BY <1>16, <1>18, ConcatSound
<1>22. /\ a \in Seq(Known(heap)) /\ b \in Seq(Known(heap)) /\ <<sum>> \in Seq(Known(heap))
       /\ c \in Seq(Known(heap)) /\ DOMAIN <<sum>> = {1} /\ <<sum>>[1] = sum
  BY <1>16, <1>17, <1>18, <1>21 DEF Sound
<1>23. /\ \A i \in DOMAIN a : i \in DOMAIN c /\ c[i] = a[i]
       /\ \A i \in DOMAIN <<sum>> : Len(a) + i \in DOMAIN c /\ c[Len(a) + i] = <<sum>>[i]
       /\ \A i \in DOMAIN c : i \in DOMAIN a \/ \E k \in DOMAIN <<sum>> : i = Len(a) + k
  BY <1>22, ConcatPlaces
<1> HIDE DEF c
<1>24. Sound(heap, out)
  BY <1>17, <1>21, ConcatSound
<1>25. /\ Len(c) \in Nat /\ DOMAIN c = 1..Len(c)
       /\ \A i \in DOMAIN c : i \in DOMAIN out /\ out[i] = c[i]
       /\ \A i \in DOMAIN b : Len(c) + i \in DOMAIN out /\ out[Len(c) + i] = b[i]
       /\ \A i \in DOMAIN out : i \in DOMAIN c \/ \E k \in DOMAIN b : i = Len(c) + k
  BY <1>22, ConcatPlaces, LenProperties
<1>26. DOMAIN out = 1..Len(out) /\ Len(out) \in Nat
  BY <1>24, LenProperties DEF Sound
<1>27. \A k \in DOMAIN a : k \in Nat
  BY <1>22, LenProperties
<1>28. \A k \in DOMAIN b : k \in Nat
  BY <1>22, LenProperties
<1> HIDE DEF out
<1>29. ASSUME NEW i \in DOMAIN ms, NotCompaction(ms[i]), i \notin Gone(ms)
       PROVE  \E k \in DOMAIN out : Behind(ms, i, out, k)
  <2>1. i \in front \/ i \in back
    <3>1. i < h \/ ~(i < r)
      BY <1>2, <1>5, <1>29
    <3> QED
      BY <1>9, <1>29, <3>1
  <2>2. \A j \in back : j \in (i + 1)..Len(ms) <=> i < j
    BY <1>2, <1>8
  <2>3. \A j \in front : j \in (i + 1)..Len(ms) <=> i < j
    BY <1>2, <1>8
  <2>4. CASE i \in front
    <3>1. PICK k \in DOMAIN a :
            /\ a[k] = ms[i]
            /\ \A l \in DOMAIN a : k < l => \E j \in front : i < j /\ a[l] = ms[j]
      BY <1>19, <2>4
    <3>2. k \in DOMAIN out /\ out[k] = ms[i] /\ k \in Nat
      BY <1>23, <1>25, <1>27, <3>1
    <3>3. ASSUME NEW l \in (k + 1)..Len(out), IsTextAnswer(out[l])
          PROVE  \E j \in (i + 1)..Len(ms) : out[l] = ms[j]
      <4>1. l \in DOMAIN out /\ k < l
        BY <1>26, <3>2
      <4>2. CASE l \in DOMAIN c
        <5>1. l \in DOMAIN a
          BY <1>18, <1>22, <1>23, <1>25, <3>3, <4>2
        <5>2. PICK j \in front : i < j /\ a[l] = ms[j]
          BY <3>1, <4>1, <5>1
        <5> QED
          BY <1>23, <1>25, <2>3, <4>2, <5>1, <5>2
      <4>3. CASE l \notin DOMAIN c
        <5>1. PICK q \in DOMAIN b : l = Len(c) + q
          BY <1>25, <4>1, <4>3
        <5>2. PICK j \in back : b[q] = ms[j]
          BY <1>20
        <5>3. i < j
          <6>1. i < h /\ ~(j < r) /\ j \in Nat /\ i \in Nat
            BY <1>2, <1>8, <1>9, <2>4
          <6> QED
            BY <1>5, <6>1
        <5> QED
          BY <1>25, <2>2, <5>1, <5>2, <5>3
      <4> QED
        BY <4>2, <4>3
    <3> QED
      BY <3>2, <3>3 DEF Behind
  <2>5. CASE i \in back
    <3>1. PICK k \in DOMAIN b :
            /\ b[k] = ms[i]
            /\ \A l \in DOMAIN b : k < l => \E j \in back : i < j /\ b[l] = ms[j]
      BY <1>20, <2>5
    <3>2. Len(c) + k \in DOMAIN out /\ out[Len(c) + k] = ms[i] /\ k \in Nat
      BY <1>25, <1>28, <3>1
    <3>3. ASSUME NEW l \in ((Len(c) + k) + 1)..Len(out), IsTextAnswer(out[l])
          PROVE  \E j \in (i + 1)..Len(ms) : out[l] = ms[j]
      <4>1. l \in DOMAIN out /\ Len(c) + k < l
        BY <1>25, <1>26, <3>2
      <4>2. l \notin DOMAIN c
        BY <1>25, <3>2, <4>1
      <4>3. PICK q \in DOMAIN b : l = Len(c) + q
        BY <1>25, <4>1, <4>2
      <4>4. k < q
        BY <1>25, <1>28, <3>2, <4>1, <4>3
      <4>5. PICK j \in back : i < j /\ b[q] = ms[j]
        BY <3>1, <4>4
      <4> QED
        BY <1>25, <2>2, <4>3, <4>5
    <3> QED
      BY <3>2, <3>3 DEF Behind
  <2> QED
    BY <2>1, <2>4, <2>5
<1> QED
  BY <1>7, <1>24, <1>29

\* The history that the latest compaction leaves, if there is one.
LEMMA HistorySound ==
    ASSUME NEW heap, NEW ms, Objects(heap, ms), Fitting(ms)
    PROVE  LET out == IF CompactionCalls(ms) # {} THEN ApplyCompactionView(ms) ELSE ms
           IN /\ Sound(heap, out)
              /\ \A i \in DOMAIN ms : NotCompaction(ms[i]) /\ i \notin Gone(ms) =>
                   \E k \in DOMAIN out : Behind(ms, i, out, k)
<1>1. CASE CompactionCalls(ms) # {}
  BY <1>1, ApplySound
<1>2. CASE CompactionCalls(ms) = {}
  <2>1. ms \in Seq(Known(heap)) /\ Whole(ms) /\ \A i \in DOMAIN ms : ms[i].role # "system"
    BY DEF Objects
  <2>2. ASSUME NEW i \in DOMAIN ms PROVE NotCompaction(ms[i])
    <3>1. \A j \in DOMAIN ms : ~IsCompactionCall(ms[j])
      BY <1>2 DEF CompactionCalls
    <3>2. CASE ms[i].role = "tool"
      <4>1. PICK j \in DOMAIN ms : Answers(ms, j, i)
        BY <2>1, <3>2 DEF Whole, Paired
      <4>2. ms[j].role # "tool"
        BY <4>1 DEF Answers, Belongs, IsStep
      <4>3. NotCompaction(ms[j])
        BY <3>1, <4>2 DEF NotCompaction, IsCompactionMsg
      <4> QED
        BY <2>1, <4>1, <4>3, CompactionPairs
    <3>3. CASE ms[i].role # "tool"
      BY <3>1, <3>3 DEF NotCompaction, IsCompactionMsg
    <3> QED
      BY <3>2, <3>3
  <2>3. \A i \in DOMAIN ms : ms[i].body # "summary"
    BY <2>1, <2>2 DEF NotCompaction, IsCompactionMsg, Known, Fits
  <2>4. Sound(heap, ms)
    BY <2>1, <2>2, <2>3 DEF Sound, Clean, Once
  <2>5. \A i \in DOMAIN ms : Behind(ms, i, ms, i)
    BY DEF Behind
  <2> QED
    BY <1>2, <2>4, <2>5
<1> QED
  BY <1>1, <1>2

\* A whole list has no orphans.
LEMMA NoOrphans ==
    ASSUME NEW S, NEW ms \in Seq(S), Whole(ms)
    PROVE  WithoutOrphans(ms) = ms
<1>1. ASSUME NEW i \in DOMAIN ms, ms[i].role = "tool" PROVE ms[i].id \in KnownToolIds(ms, i)
  <2>1. PICK j \in DOMAIN ms : Answers(ms, j, i)
    BY <1>1 DEF Whole, Paired
  <2>2. KnownToolIds(ms, i) = CallIds(ms[j])
    BY <2>1, KnownIds DEF Answers
  <2> QED
    BY <2>1, <2>2 DEF Answers
<1>2. {i \in DOMAIN ms : ms[i].role = "tool" => ms[i].id \in KnownToolIds(ms, i)} = DOMAIN ms
  BY <1>1
<1> QED
  BY <1>2, PickedAll DEF WithoutOrphans

\* A list that may be sent.
Legal(heap, ms) ==
    Sound(heap, ms) /\ NoNeighbours(ms) /\ ms # <<>> /\ ms[1].role = "system"

LEMMA RepairLegal ==
    ASSUME NEW heap, NEW ms, Sound(heap, ms), ms # <<>>, ms[1].role = "system"
    PROVE  Legal(heap, RepairMessages(ms)) /\ Kept(ms, RepairMessages(ms))
<1> DEFINE places == {i \in DOMAIN ms : ~Continues(ms, i)}
           out == MergedUsers(ms)
<1>1. ms \in Seq(Known(heap)) /\ Whole(ms) /\ Clean(ms) /\ Once(ms)
  BY DEF Sound
<1>2. RepairMessages(ms) = out
  BY <1>1, NoOrphans DEF RepairMessages
<1>3. /\ out \in Seq(Known(heap)) /\ Whole(out) /\ NoNeighbours(out)
      /\ \A k \in DOMAIN out : Nth(places, k) \in DOMAIN ms /\ Alike(ms[Nth(places, k)], out[k])
      /\ out # <<>> /\ out[1].role = ms[1].role
      /\ \A i \in DOMAIN ms : ~IsUser(ms[i]) => \E k \in DOMAIN out : Alike(ms[i], out[k])
      /\ Once(out)
  BY <1>1, MergedFacts
<1> HIDE DEF out
<1>4. Clean(out)
  <2> SUFFICES ASSUME NEW k \in DOMAIN out PROVE NotCompaction(out[k])
    BY DEF Clean
  <2> DEFINE i == Nth(places, k)
  <2>1. i \in DOMAIN ms /\ Alike(ms[i], out[k]) /\ NotCompaction(ms[i])
    BY <1>1, <1>3 DEF Clean
  <2> HIDE DEF i
  <2> QED
    BY <2>1 DEF Alike, NotCompaction, IsCompactionMsg, IsCompactionCall, Calls
<1>5. Kept(ms, out)
  BY <1>3 DEF Kept, Alike, Shows, IsUser
<1> QED
  BY <1>2, <1>3, <1>4, <1>5 DEF Legal, Sound

\* What is behind a prefix is still there.
LEMMA KeptConcat ==
    ASSUME NEW S, NEW ms, NEW a \in Seq(S), NEW b \in Seq(S)
    PROVE  (Kept(ms, a) => Kept(ms, a \o b)) /\ (Kept(ms, b) => Kept(ms, a \o b))
<1>1. /\ \A i \in DOMAIN a : i \in DOMAIN (a \o b) /\ (a \o b)[i] = a[i]
      /\ \A i \in DOMAIN b : Len(a) + i \in DOMAIN (a \o b) /\ (a \o b)[Len(a) + i] = b[i]
  BY ConcatPlaces
<1> DEFINE c == a \o b
<1>2. /\ \A i \in DOMAIN a : \E k \in DOMAIN c : c[k] = a[i]
      /\ \A i \in DOMAIN b : \E k \in DOMAIN c : c[k] = b[i]
  BY <1>1
<1> HIDE DEF c
<1>3. (Kept(ms, a) => Kept(ms, c)) /\ (Kept(ms, b) => Kept(ms, c))
  BY <1>2 DEF Kept, Shows
<1> QED
  BY <1>3 DEF c

\* A message of the assembler, or none.
LEMMA OptionalSound ==
    ASSUME NEW heap, NEW body \in {"head", "plan", "context"}, NEW b \in BOOLEAN
    PROVE  LET out == IF b THEN <<SystemMessage(body)>> ELSE <<>>
           IN Sound(heap, out) /\ Plain(out)
<1> DEFINE m == SystemMessage(body)
<1>1. m \in Known(heap) /\ m.role # "tool" /\ m.calls = <<>> /\ m.body # "summary"
  <2>1. m \in Known(heap)
    BY MadeMessages
  <2> QED
    BY <2>1 DEF SystemMessage, Message
<1> HIDE DEF m
<1>2. DOMAIN <<m>> = {1} /\ <<m>>[1] = m
  OBVIOUS
<1>3. Sound(heap, <<m>>) /\ Plain(<<m>>)
  BY <1>1, <1>2, SingleSound DEF Plain
<1>4. Sound(heap, <<>>) /\ Plain(<<>>)
  BY EmptyWhole, EmptySeq DEF Sound, Clean, Once, Plain
<1> QED
  BY <1>3, <1>4 DEF m

\* What has to be shown: placeholders, and what the current task gathered
\* that no summary stands for.
Due(ms, i) ==
    \/ ms[i].body = "pending"
    \/ /\ IsOrdinaryToolResult(ms[i]) /\ i \notin Gone(ms)
       /\ \A j \in (i + 1)..Len(ms) : ~IsTextAnswer(ms[j])

ShowsDue(ms, view) ==
    \A i \in DOMAIN ms : Due(ms, i) => \E k \in DOMAIN view : Shows(ms[i], view[k])

\* Deriving a prompt.
LEMMA AssembleLegal ==
    ASSUME NEW heap, NEW ms, Objects(heap, ms), Fitting(ms), NEW over \in BOOLEAN
    PROVE  LET view == RepairMessages(Unrepaired(ms, over))
           IN Legal(heap, view) /\ ShowsDue(ms, view)
<1> DEFINE history == IF CompactionCalls(ms) # {} THEN ApplyCompactionView(ms) ELSE ms
           dropped == DropAnsweredToolResults(history)
           reduced == ExcludePlanCalls(dropped)
           trimmed == TrimDialogueTurns(reduced)
           some == DerivePlan(ms) > 0
           head == IF TRUE THEN <<SystemMessage("head")>> ELSE <<>>
           plan == IF some THEN <<SystemMessage("plan")>> ELSE <<>>
           context == IF over THEN <<SystemMessage("context")>> ELSE <<>>
           a == head \o trimmed
           b == a \o plan
           c == b \o context
           view == RepairMessages(c)
<1>1. /\ Sound(heap, history)
      /\ \A i \in DOMAIN ms : NotCompaction(ms[i]) /\ i \notin Gone(ms) =>
           \E k \in DOMAIN history : Behind(ms, i, history, k)
  BY HistorySound
<1>2. Unrepaired(ms, over) = c
  BY DEF Unrepaired, Reduced
<1>3. some \in BOOLEAN
  OBVIOUS
<1> HIDE DEF history, some
<1>4. /\ Sound(heap, dropped) /\ DOMAIN dropped = DOMAIN history
      /\ \A i \in DOMAIN history :
           \/ history[i].body = "pending"
           \/ ~IsOrdinaryToolResult(history[i])
           \/ \A j \in (i + 1)..Len(history) : ~IsTextAnswer(history[j])
           => dropped[i] = history[i]
  BY <1>1, DropSound
<1> HIDE DEF dropped
<1>5. Sound(heap, reduced) /\ Kept(dropped, reduced)
  BY <1>4, ExcludeSound
<1> HIDE DEF reduced
<1>6. Sound(heap, trimmed) /\ Kept(reduced, trimmed)
  BY <1>5, TrimSound
<1> HIDE DEF trimmed
<1>7. /\ Sound(heap, head) /\ Plain(head) /\ Sound(heap, plan) /\ Plain(plan)
      /\ Sound(heap, context) /\ Plain(context)
  <2>1. Sound(heap, head) /\ Plain(head)
    BY OptionalSound
  <2>2. Sound(heap, plan) /\ Plain(plan)
    BY <1>3, OptionalSound
  <2>3. Sound(heap, context) /\ Plain(context)
    BY OptionalSound
  <2> QED
    BY <2>1, <2>2, <2>3
<1>8. 1 \in DOMAIN head /\ head[1].role = "system"
  BY DEF SystemMessage, Message
<1> HIDE DEF head, plan, context
<1>9. Sound(heap, a)
  BY <1>6, <1>7, ConcatSound
<1>10. 1 \in DOMAIN a /\ a[1] = head[1]
  <2>1. head \in Seq(Known(heap)) /\ trimmed \in Seq(Known(heap))
    BY <1>6, <1>7 DEF Sound
  <2> QED
    BY <1>8, <2>1, ConcatPlaces
<1>11. Kept(trimmed, a)
  <2>1. head \in Seq(Known(heap)) /\ trimmed \in Seq(Known(heap))
    BY <1>6, <1>7 DEF Sound
  <2>2. Kept(trimmed, trimmed)
    BY DEF Kept, Shows
  <2> QED
    BY <2>1, <2>2, KeptConcat
<1> HIDE DEF a
<1>12. Sound(heap, b)
  BY <1>7, <1>9, ConcatSound
<1>13. 1 \in DOMAIN b /\ b[1] = head[1] /\ Kept(a, b)
  <2>1. a \in Seq(Known(heap)) /\ plan \in Seq(Known(heap))
    BY <1>7, <1>9 DEF Sound
  <2>2. Kept(a, a)
    BY DEF Kept, Shows
  <2>3. Kept(a, b)
    BY <2>1, <2>2, KeptConcat
  <2> QED
    BY <1>10, <2>1, <2>3, ConcatPlaces
<1> HIDE DEF b
<1>14. Sound(heap, c)
  BY <1>7, <1>12, ConcatSound
<1>15. 1 \in DOMAIN c /\ c[1] = head[1] /\ Kept(b, c)
  <2>1. b \in Seq(Known(heap)) /\ context \in Seq(Known(heap))
    BY <1>7, <1>12 DEF Sound
  <2>2. Kept(b, b)
    BY DEF Kept, Shows
  <2>3. Kept(b, c)
    BY <2>1, <2>2, KeptConcat
  <2> QED
    BY <1>13, <2>1, <2>3, ConcatPlaces
<1> HIDE DEF c
<1>16. c # <<>> /\ c[1].role = "system"
  BY <1>8, <1>15
<1>17. Legal(heap, view) /\ Kept(c, view)
  BY <1>14, <1>16, RepairLegal
<1> HIDE DEF view
<1>18. Kept(dropped, view)
  <2>1. Kept(dropped, trimmed)
    BY <1>5, <1>6, KeptOn
  <2>2. Kept(dropped, b)
    BY <1>11, <1>13, <2>1, KeptOn
  <2> QED
    BY <1>15, <1>17, <2>2, KeptOn
<1>19. ShowsDue(ms, view)
  <2> SUFFICES ASSUME NEW i \in DOMAIN ms, Due(ms, i)
               PROVE  \E k \in DOMAIN view : Shows(ms[i], view[k])
    BY DEF ShowsDue
  <2>1. /\ ms[i].role = "tool" /\ ms[i].tool # "plan" /\ ms[i].tool # Compaction
        /\ i \notin Gone(ms)
    <3>1. CASE ms[i].body = "pending"
      <4>1. ms[i] \in Known(heap)
        BY DEF Objects
      <4>2. i \notin Gone(ms)
        <5>1. CASE CompactionCalls(ms) = {}
          BY <5>1 DEF Gone
        <5>2. CASE CompactionCalls(ms) # {}
          <6> DEFINE calls == CompactionCalls(ms)
                     p == LastCompaction(ms)
          <6>1. calls \in SUBSET (DOMAIN ms) /\ ms \in Seq(Known(heap))
            BY DEF CompactionCalls, Objects
          <6>2. p = CHOOSE q \in calls : \A j \in calls : j <= q
            BY DEF LastCompaction
          <6> HIDE DEF calls, p
          <6>3. calls # {}
            BY <5>2 DEF calls
          <6>4. p \in calls
            BY <6>1, <6>2, <6>3, LastPlace
          <6> QED
            BY <3>1, <5>2, <6>4 DEF calls, p, Gone, Fitting
        <5> QED
          BY <5>1, <5>2
      <4> QED
        BY <3>1, <4>1, <4>2 DEF Known, Fits
    <3>2. CASE ms[i].body # "pending"
      BY <3>2 DEF Due, IsOrdinaryToolResult
    <3> QED
      BY <3>1, <3>2
  <2>2. NotCompaction(ms[i])
    BY <2>1 DEF NotCompaction, IsCompactionMsg, IsCompactionCall
  <2>3. PICK k \in DOMAIN history : Behind(ms, i, history, k)
    BY <1>1, <2>1, <2>2
  <2>4. \/ history[k].body = "pending"
        \/ \A l \in (k + 1)..Len(history) : ~IsTextAnswer(history[l])
    BY <2>3 DEF Behind, Due
  <2>5. dropped[k] = ms[i] /\ k \in DOMAIN dropped
    BY <1>4, <2>3, <2>4 DEF Behind
  <2> QED
    BY <1>18, <2>1, <2>5 DEF Kept
<1> QED
  BY <1>2, <1>17, <1>19 DEF view

-----------------------------------------------------------------------------
(* Lists that differ in their texts, or in what is settled                 *)

\* Two lists with the same steps, calls and answers; nothing is pending in
\* the second that is not in the first.
Similar(a, b) ==
    /\ Len(b) = Len(a)
    /\ \A i \in DOMAIN a :
         /\ b[i].role = a[i].role /\ b[i].calls = a[i].calls /\ b[i].id = a[i].id
         /\ b[i].body = "pending" => a[i].body = "pending"

AlikeLists(a, b) == Len(b) = Len(a) /\ \A i \in DOMAIN a : Alike(a[i], b[i])

LEMMA SimilarLists ==
    ASSUME NEW S, NEW a \in Seq(S), NEW b \in Seq(S), Similar(a, b)
    PROVE  /\ DOMAIN b = DOMAIN a
           /\ Whole(a) => Whole(b)
           /\ \A i \in DOMAIN a : Continues(b, i) <=> Continues(a, i)
           /\ CompactionCalls(b) = CompactionCalls(a)
           /\ \A p : StepStarts(b, p) = StepStarts(a, p)
           /\ Fitting(a) => Fitting(b)
           /\ Gone(b) = Gone(a)
           /\ NoNeighbours(a) => NoNeighbours(b)
<1>1. DOMAIN b = DOMAIN a /\ DOMAIN a = 1..Len(a) /\ Len(a) \in Nat /\ Len(b) = Len(a)
  BY LenProperties DEF Similar
<1>2. \A i \in DOMAIN a :
         /\ b[i].role = a[i].role /\ b[i].calls = a[i].calls /\ b[i].id = a[i].id
         /\ b[i].body = "pending" => a[i].body = "pending"
  BY DEF Similar
<1>3. Whole(a) => Whole(b)
  BY <1>1, <1>2, SameWhole
<1>4. \A i \in DOMAIN a : IsUser(b[i]) = IsUser(a[i]) /\ IsStep(b[i]) = IsStep(a[i])
  BY <1>2 DEF IsUser, IsStep
<1>5. \A i \in DOMAIN a : i > 1 => i - 1 \in DOMAIN a
  BY <1>1
<1>6. \A i \in DOMAIN a : Continues(b, i) <=> Continues(a, i)
  BY <1>4, <1>5 DEF Continues
<1>7. CompactionCalls(b) = CompactionCalls(a)
  BY <1>1, <1>2 DEF CompactionCalls, IsCompactionCall, Calls
<1>8. ASSUME NEW p PROVE StepStarts(b, p) = StepStarts(a, p)
  BY <1>1, <1>4 DEF StepStarts
<1>9. ASSUME NEW p, NEW recent
      PROVE  Middle(b, p, recent) = Middle(a, p, recent) /\ MayRemain(b, p) = MayRemain(a, p)
  BY <1>8 DEF Middle, MayRemain, StepAt
<1>10. Gone(b) = Gone(a)
  <2>1. LastCompaction(b) = LastCompaction(a)
    BY <1>7 DEF LastCompaction
  <2>2. CASE CompactionCalls(a) = {}
    BY <1>7, <2>2 DEF Gone
  <2>3. CASE CompactionCalls(a) # {}
    <3> DEFINE calls == CompactionCalls(a)
               p == LastCompaction(a)
    <3>1. calls \in SUBSET (DOMAIN a)
      BY DEF CompactionCalls
    <3>2. p = CHOOSE q \in calls : \A j \in calls : j <= q
      BY DEF LastCompaction
    <3>3. calls # {}
      BY <2>3
    <3> HIDE DEF calls, p
    <3>4. p \in DOMAIN a
      BY <3>1, <3>2, <3>3, LastPlace
    <3>5. b[p].calls = a[p].calls
      BY <1>2, <3>4
    <3> QED
      BY <1>7, <1>9, <2>1, <2>3, <3>5 DEF Gone, p
  <2> QED
    BY <2>2, <2>3
<1>11. Fitting(a) => Fitting(b)
  <2> SUFFICES ASSUME Fitting(a), NEW p \in CompactionCalls(b)
               PROVE  /\ b[p].calls[1].arg \in MayRemain(b, p)
                      /\ \A i \in Middle(b, p, b[p].calls[1].arg) : b[i].body # "pending"
    BY DEF Fitting
  <2> DEFINE arg == a[p].calls[1].arg
  <2>1. p \in CompactionCalls(a) /\ p \in DOMAIN a /\ p \in Nat
    BY <1>1, <1>7 DEF CompactionCalls
  <2>2. b[p].calls[1].arg = arg
    BY <1>2, <2>1
  <2>3. arg \in MayRemain(a, p) /\ \A i \in Middle(a, p, arg) : a[i].body # "pending"
    BY <2>1 DEF Fitting
  <2> HIDE DEF arg
  <2>4. ASSUME NEW i \in Middle(a, p, arg) PROVE i \in DOMAIN a
    <3> DEFINE h == StepAt(a, p, KeepFirst)
               r == StepAt(a, p, Cardinality(StepStarts(a, p)) - arg)
    <3>1. /\ Middle(a, p, arg) = h..(r - 1) /\ h \in Nat \ {0} /\ r \in Nat \ {0} /\ r < p
      BY <2>1, <2>3, MiddleSteps
    <3> HIDE DEF h, r
    <3>2. i \in h..(r - 1)
      BY <2>4, <3>1
    <3> QED
      BY <1>1, <2>1, <3>1, <3>2
  <2> QED
    BY <1>2, <1>9, <2>2, <2>3, <2>4
<1>12. NoNeighbours(a) => NoNeighbours(b)
  <2>1. \A i \in 2..Len(a) : i \in DOMAIN a /\ i - 1 \in DOMAIN a
    BY <1>1
  <2> QED
    BY <1>1, <1>4, <2>1 DEF NoNeighbours
<1> QED
  BY <1>1, <1>3, <1>6, <1>7, <1>8, <1>10, <1>11, <1>12

\* The same messages are due in lists that differ only in what users said.
LEMMA AlikeDue ==
    ASSUME NEW S, NEW a \in Seq(S), NEW b \in Seq(S), AlikeLists(a, b)
    PROVE  /\ Similar(a, b)
           /\ \A i \in DOMAIN a : Due(b, i) <=> Due(a, i)
           /\ \A view : ShowsDue(a, view) => ShowsDue(b, view)
<1>1. DOMAIN b = DOMAIN a /\ DOMAIN a = 1..Len(a) /\ Len(a) \in Nat /\ Len(b) = Len(a)
  BY LenProperties DEF AlikeLists
<1>2. \A i \in DOMAIN a : Alike(a[i], b[i])
  BY DEF AlikeLists
<1>3. Similar(a, b)
  BY <1>1, <1>2 DEF Similar, Alike
<1>4. Gone(b) = Gone(a)
  BY <1>3, SimilarLists
<1>5. \A i \in DOMAIN a : IsTextAnswer(b[i]) <=> IsTextAnswer(a[i])
  BY <1>2 DEF Alike, IsTextAnswer, IsUser
<1>6. \A i \in DOMAIN a : IsOrdinaryToolResult(b[i]) <=> IsOrdinaryToolResult(a[i])
  BY <1>2 DEF Alike, IsOrdinaryToolResult
<1>7. \A i \in DOMAIN a : \A j \in (i + 1)..Len(a) : j \in DOMAIN a
  BY <1>1
<1>8. ASSUME NEW i \in DOMAIN a PROVE Due(b, i) <=> Due(a, i)
  <2>1. b[i].body = a[i].body
    BY <1>2 DEF Alike
  <2> QED
    BY <1>1, <1>4, <1>5, <1>6, <1>7, <2>1 DEF Due
<1>9. ASSUME NEW view, ShowsDue(a, view) PROVE ShowsDue(b, view)
  <2> SUFFICES ASSUME NEW i \in DOMAIN a, Due(b, i)
               PROVE  \E k \in DOMAIN view : Shows(b[i], view[k])
    BY <1>1 DEF ShowsDue
  <2>1. PICK k \in DOMAIN view : Shows(a[i], view[k])
    BY <1>8, <1>9 DEF ShowsDue
  <2> QED
    BY <1>2, <2>1 DEF Shows, Alike
<1> QED
  BY <1>3, <1>8, <1>9

\* Messages behind a list leave its compactions as they are.
LEMMA FittingConcat ==
    ASSUME NEW S, NEW a \in Seq(S), NEW b \in Seq(S), Fitting(a),
           \A p \in CompactionCalls(b) :
             /\ b[p].calls[1].arg \in MayRemain(a, Len(a) + 1)
             /\ \A i \in Middle(a, Len(a) + 1, b[p].calls[1].arg) : a[i].body # "pending"
             /\ p = 1
    PROVE  Fitting(a \o b)
<1> DEFINE c == a \o b
           n == Len(a)
<1>1. /\ n \in Nat /\ Len(b) \in Nat /\ c \in Seq(S) /\ DOMAIN c = 1..(n + Len(b))
      /\ \A i \in DOMAIN a : i \in DOMAIN c /\ c[i] = a[i]
      /\ \A i \in DOMAIN b : n + i \in DOMAIN c /\ c[n + i] = b[i]
      /\ \A i \in DOMAIN c : i \in DOMAIN a \/ \E k \in DOMAIN b : i = n + k
  BY ConcatPlaces
<1>2. DOMAIN a = 1..n
  BY LenProperties
<1> HIDE DEF c, n
<1>3. ASSUME NEW p \in Nat, p <= n + 1 PROVE StepStarts(c, p) = StepStarts(a, p)
  <2>1. \A i : i \in DOMAIN c /\ i < p <=> i \in DOMAIN a /\ i < p
    BY <1>1, <1>2, <1>3
  <2> QED
    BY <1>1, <2>1 DEF StepStarts
<1>4. ASSUME NEW p \in Nat, p <= n + 1, NEW arg \in MayRemain(a, p),
             \A i \in Middle(a, p, arg) : a[i].body # "pending"
      PROVE  /\ arg \in MayRemain(c, p)
             /\ \A i \in Middle(c, p, arg) : c[i].body # "pending"
  <2>1. StepStarts(c, p) = StepStarts(a, p)
    BY <1>3, <1>4
  <2>2. MayRemain(c, p) = MayRemain(a, p) /\ Middle(c, p, arg) = Middle(a, p, arg)
    BY <2>1 DEF MayRemain, Middle, StepAt
  <2>3. ASSUME NEW i \in Middle(a, p, arg) PROVE i \in DOMAIN a
    <3> DEFINE h == StepAt(a, p, KeepFirst)
               r == StepAt(a, p, Cardinality(StepStarts(a, p)) - arg)
    <3>1. /\ Middle(a, p, arg) = h..(r - 1) /\ h \in Nat \ {0} /\ r \in Nat \ {0} /\ r < p
      BY <1>4, MiddleSteps
    <3> HIDE DEF h, r
    <3>2. i \in h..(r - 1)
      BY <2>3, <3>1
    <3> QED
      BY <1>1, <1>2, <1>4, <3>1, <3>2
  <2> QED
    BY <1>1, <1>4, <2>2, <2>3
<1>5. SUFFICES ASSUME NEW p \in CompactionCalls(c)
               PROVE  /\ c[p].calls[1].arg \in MayRemain(c, p)
                      /\ \A i \in Middle(c, p, c[p].calls[1].arg) : c[i].body # "pending"
  BY DEF Fitting, c
<1>6. p \in DOMAIN c /\ IsCompactionCall(c[p])
  BY DEF CompactionCalls
<1>7. CASE p \in DOMAIN a
  <2>1. p \in CompactionCalls(a) /\ c[p] = a[p] /\ p \in Nat /\ p <= n + 1
    BY <1>1, <1>2, <1>6, <1>7 DEF CompactionCalls
  <2>2. /\ a[p].calls[1].arg \in MayRemain(a, p)
        /\ \A i \in Middle(a, p, a[p].calls[1].arg) : a[i].body # "pending"
    BY <2>1 DEF Fitting
  <2> QED
    BY <1>4, <2>1, <2>2
<1>8. CASE p \notin DOMAIN a
  <2>1. PICK k \in DOMAIN b : p = n + k
    BY <1>1, <1>6, <1>8
  <2>2. k \in CompactionCalls(b) /\ c[p] = b[k]
    BY <1>1, <1>6, <2>1 DEF CompactionCalls
  <2>3. p = n + 1 /\ p \in Nat
    BY <1>1, <2>1, <2>2
  <2>4. /\ b[k].calls[1].arg \in MayRemain(a, n + 1)
        /\ \A i \in Middle(a, n + 1, b[k].calls[1].arg) : a[i].body # "pending"
    BY <2>2 DEF n
  <2> QED
    BY <1>4, <2>2, <2>3, <2>4
<1> QED
  BY <1>7, <1>8

-----------------------------------------------------------------------------
(* The objects of the messages                                             *)

Msgs(heap, refs) == [i \in DOMAIN refs |-> heap[refs[i]]]

Heap(heap) ==
    /\ heap \in Seq(Known(heap))
    /\ \A r \in DOMAIN heap :
         /\ heap[r].ref = r
         /\ heap[r].role # "system"
         /\ heap[r].body \in {"text", "result", "pending", "summary"}

\* Objects after a merge: a user may have said more.
Same(heap, other) ==
    DOMAIN other = DOMAIN heap /\ \A r \in DOMAIN heap : Alike(heap[r], other[r])

LEMMA SameKnown ==
    ASSUME NEW heap, NEW other, Same(heap, other)
    PROVE  Known(other) = Known(heap)
<1>1. /\ DOMAIN other = DOMAIN heap
      /\ \A r \in DOMAIN heap : other[r].role = heap[r].role /\ other[r].tool = heap[r].tool
  BY DEF Same, Alike
<1>2. ASSUME NEW m PROVE Fits(other, m) <=> Fits(heap, m)
  <2>1. (m.ref # NoRef => m.ref \in DOMAIN heap /\ heap[m.ref].role = m.role)
        <=> (m.ref # NoRef => m.ref \in DOMAIN other /\ other[m.ref].role = m.role)
    BY <1>1
  <2>2. ASSUME NEW k \in DOMAIN m.calls
        PROVE  (m.calls[k].id \in DOMAIN heap /\ heap[m.calls[k].id].tool = m.calls[k].tool)
               <=> (m.calls[k].id \in DOMAIN other /\ other[m.calls[k].id].tool = m.calls[k].tool)
    BY <1>1
  <2>3. (m.id \in DOMAIN heap /\ heap[m.id].tool = m.tool)
        <=> (m.id \in DOMAIN other /\ other[m.id].tool = m.tool)
    BY <1>1
  <2> QED
    BY <2>1, <2>2, <2>3 DEF Fits
<1> QED
  BY <1>2 DEF Known

\* What the merge writes: the texts of users.
LEMMA InPlace ==
    ASSUME NEW heap, Heap(heap), NEW ms \in Seq(Known(heap))
    PROVE  /\ Same(heap, MergedInPlace(heap, ms))
           /\ Heap(MergedInPlace(heap, ms))
           /\ Known(MergedInPlace(heap, ms)) = Known(heap)
<1> DEFINE other == MergedInPlace(heap, ms)
<1>1. heap \in Seq(Known(heap)) /\ DOMAIN heap = 1..Len(heap) /\ Len(heap) \in Nat
  BY LenProperties DEF Heap
<1>2. DOMAIN other = DOMAIN heap /\ other = [r \in DOMAIN heap |-> other[r]]
  BY DEF MergedInPlace
<1>3. ASSUME NEW r \in DOMAIN heap
      PROVE  Alike(heap[r], other[r]) /\ other[r] \in MessageSet
  <2> DEFINE Said(i) == i \in DOMAIN ms /\ ms[i].ref = r /\ ms[i].role = "user"
             t == ms[CHOOSE i \in DOMAIN ms : ms[i].ref = r /\ ms[i].role = "user"].text
  <2>1. heap[r] \in MessageSet
    BY <1>1 DEF Known
  <2>2. CASE \E i : Said(i)
    <3>1. PICK i \in DOMAIN ms : ms[i].ref = r /\ ms[i].role = "user"
      BY <2>2
    <3>2. t \in SUBSET Int
      <4> DEFINE c == CHOOSE j \in DOMAIN ms : ms[j].ref = r /\ ms[j].role = "user"
      <4>1. c \in DOMAIN ms
        BY <3>1
      <4> HIDE DEF c
      <4>2. ms[c].text \in SUBSET Int
        BY <4>1 DEF Known, MessageSet
      <4> QED
        BY <4>2 DEF c
    <3>3. r # NoRef
      BY <1>1 DEF NoRef
    <3>4. heap[r].role = "user"
      BY <3>1, <3>3 DEF Known, Fits
    <3>5. other[r] = [heap[r] EXCEPT !.text = t]
      BY <2>2 DEF MergedInPlace
    <3> HIDE DEF t, other
    <3> QED
      BY <2>1, <3>2, <3>4, <3>5 DEF MessageSet, Alike, IsUser
  <2>3. CASE ~ \E i : Said(i)
    <3>1. other[r] = heap[r]
      BY <2>3 DEF MergedInPlace
    <3> QED
      BY <2>1, <3>1 DEF Alike
  <2> QED
    BY <2>2, <2>3
<1>4. Same(heap, other)
  BY <1>2, <1>3 DEF Same
<1>5. Known(other) = Known(heap)
  BY <1>4, SameKnown
<1> HIDE DEF other
<1>6. ASSUME NEW r \in DOMAIN heap PROVE other[r] \in Known(other)
  <2>1. heap[r] \in Known(heap)
    BY <1>1
  <2>2. Fits(heap, other[r])
    BY <1>3, <2>1 DEF Known, Fits, Alike, Calls
  <2> QED
    BY <1>3, <1>5, <2>2 DEF Known
<1>7. other \in Seq(Known(other))
  BY <1>1, <1>2, <1>6
<1>8. \A r \in DOMAIN other :
         /\ other[r].ref = r
         /\ other[r].role # "system"
         /\ other[r].body \in {"text", "result", "pending", "summary"}
  BY <1>2, <1>3 DEF Heap, Alike
<1> QED
  BY <1>4, <1>5, <1>7, <1>8 DEF Heap, other

\* What is known stays known when messages are made.
LEMMA KnownGrows ==
    ASSUME NEW S, NEW heap \in Seq(S), NEW ms \in Seq(S)
    PROVE  Known(heap) \subseteq Known(heap \o ms)
<1> DEFINE all == heap \o ms
<1>1. \A r \in DOMAIN heap : r \in DOMAIN all /\ all[r] = heap[r]
  BY ConcatPlaces
<1> HIDE DEF all
<1>2. SUFFICES ASSUME NEW m \in Known(heap) PROVE m \in Known(all)
  BY DEF all
<1>3. m \in MessageSet /\ Fits(heap, m)
  BY DEF Known
<1>4. Fits(all, m)
  BY <1>1, <1>3 DEF Fits
<1> QED
  BY <1>3, <1>4 DEF Known

\* New messages at the end.
Made(heap, ms) ==
    /\ ms \in Seq(Known(heap \o ms))
    /\ \A k \in DOMAIN ms :
         /\ ms[k].ref = Len(heap) + k
         /\ ms[k].role # "system"
         /\ ms[k].body \in {"text", "result", "pending", "summary"}

LEMMA HeapGrows ==
    ASSUME NEW heap, Heap(heap), NEW ms, Made(heap, ms)
    PROVE  /\ Heap(heap \o ms)
           /\ Known(heap) \subseteq Known(heap \o ms)
           /\ DOMAIN heap \subseteq DOMAIN (heap \o ms)
           /\ Refs(ms) \in Seq(DOMAIN (heap \o ms)) /\ Len(Refs(ms)) = Len(ms)
           /\ Msgs(heap \o ms, Refs(ms)) = ms
           /\ \A refs \in Seq(DOMAIN heap) : Msgs(heap \o ms, refs) = Msgs(heap, refs)
<1> DEFINE all == heap \o ms
           n == Len(heap)
<1>1. heap \in Seq(MessageSet) /\ ms \in Seq(MessageSet) /\ ms \in Seq(Known(all))
  <2>1. \A h : Known(h) \subseteq MessageSet
    BY DEF Known
  <2>2. heap \in Seq(Known(heap)) /\ ms \in Seq(Known(all))
    BY DEF Heap, Made
  <2> QED
    BY <2>1, <2>2, SeqMonotonic
<1>2. /\ n \in Nat /\ Len(ms) \in Nat /\ all \in Seq(MessageSet) /\ DOMAIN all = 1..(n + Len(ms))
      /\ \A r \in DOMAIN heap : r \in DOMAIN all /\ all[r] = heap[r]
      /\ \A k \in DOMAIN ms : n + k \in DOMAIN all /\ all[n + k] = ms[k]
      /\ \A r \in DOMAIN all : r \in DOMAIN heap \/ \E k \in DOMAIN ms : r = n + k
  BY <1>1, ConcatPlaces
<1>3. Known(heap) \subseteq Known(all)
  BY <1>1, KnownGrows
<1>4. \A k \in DOMAIN ms : /\ ms[k].ref = n + k /\ ms[k].role # "system"
                           /\ ms[k].body \in {"text", "result", "pending", "summary"}
  BY DEF Made
<1>5. \A r \in DOMAIN heap : /\ heap[r].ref = r /\ heap[r].role # "system"
                             /\ heap[r].body \in {"text", "result", "pending", "summary"}
  BY DEF Heap
<1>6. all \in Seq(Known(all))
  <2>1. heap \in Seq(Known(heap))
    BY DEF Heap
  <2>2. heap \in Seq(Known(all))
    BY <1>3, <2>1, SeqMonotonic
  <2> QED
    BY <1>1, <2>2, ConcatProperties
<1>7. DOMAIN ms = 1..Len(ms) /\ DOMAIN heap = 1..n
  BY <1>1, LenProperties
<1> HIDE DEF all, n
<1>8. Heap(all)
  BY <1>2, <1>4, <1>5, <1>6 DEF Heap
<1>9. DOMAIN heap \subseteq DOMAIN all
  BY <1>2
<1>10. Refs(ms) \in Seq(DOMAIN all) /\ Len(Refs(ms)) = Len(ms) /\ DOMAIN Refs(ms) = DOMAIN ms
  <2>1. Refs(ms) = [k \in 1..Len(ms) |-> ms[k].ref]
    BY <1>7 DEF Refs
  <2>2. \A k \in 1..Len(ms) : ms[k].ref \in DOMAIN all
    BY <1>2, <1>4, <1>7
  <2> QED
    BY <1>2, <1>7, <2>1, <2>2
<1>11. Msgs(all, Refs(ms)) = ms
  <2>1. Msgs(all, Refs(ms)) = [k \in DOMAIN ms |-> all[ms[k].ref]]
    BY DEF Msgs, Refs
  <2>2. \A k \in DOMAIN ms : all[ms[k].ref] = ms[k]
    BY <1>2, <1>4
  <2>3. ms = [k \in DOMAIN ms |-> ms[k]]
    BY <1>1
  <2> QED
    BY <2>1, <2>2, <2>3
<1>12. ASSUME NEW refs \in Seq(DOMAIN heap) PROVE Msgs(all, refs) = Msgs(heap, refs)
  <2>1. \A i \in DOMAIN refs : refs[i] \in DOMAIN heap
    OBVIOUS
  <2> QED
    BY <1>2, <2>1 DEF Msgs
<1> QED
  BY <1>3, <1>8, <1>9, <1>10, <1>11, <1>12 DEF all

LEMMA MsgsFacts ==
    ASSUME NEW heap, Heap(heap), NEW refs \in Seq(DOMAIN heap)
    PROVE  /\ Msgs(heap, refs) \in Seq(Known(heap)) /\ Len(Msgs(heap, refs)) = Len(refs)
           /\ DOMAIN Msgs(heap, refs) = DOMAIN refs
           /\ \A i \in DOMAIN refs : /\ Msgs(heap, refs)[i] = heap[refs[i]]
                                     /\ Msgs(heap, refs)[i].ref = refs[i]
                                     /\ Msgs(heap, refs)[i].role # "system"
           /\ Whole(Msgs(heap, refs)) => Objects(heap, Msgs(heap, refs))
<1> DEFINE ms == Msgs(heap, refs)
<1>1. DOMAIN refs = 1..Len(refs) /\ Len(refs) \in Nat /\ \A i \in DOMAIN refs : refs[i] \in DOMAIN heap
  BY LenProperties
<1>2. \A r \in DOMAIN heap : heap[r] \in Known(heap) /\ heap[r].ref = r /\ heap[r].role # "system"
  BY DEF Heap
<1>3. ms = [i \in 1..Len(refs) |-> heap[refs[i]]]
  BY <1>1 DEF Msgs
<1>4. ms \in Seq(Known(heap)) /\ Len(ms) = Len(refs) /\ DOMAIN ms = DOMAIN refs
  BY <1>1, <1>2, <1>3
<1>5. \A i \in DOMAIN refs : ms[i] = heap[refs[i]]
  BY <1>1, <1>3
<1> HIDE DEF ms
<1>6. \A i \in DOMAIN refs : ms[i].ref = refs[i] /\ ms[i].role # "system"
  BY <1>1, <1>2, <1>5
<1>7. Whole(ms) => Objects(heap, ms)
  BY <1>4, <1>6 DEF Objects
<1> QED
  BY <1>4, <1>5, <1>6, <1>7 DEF ms

LEMMA SameMsgs ==
    ASSUME NEW heap, NEW other, Heap(heap), Heap(other), Same(heap, other),
           NEW refs \in Seq(DOMAIN heap)
    PROVE  AlikeLists(Msgs(heap, refs), Msgs(other, refs))
<1>1. refs \in Seq(DOMAIN other)
  BY DEF Same
<1>2. /\ Len(Msgs(heap, refs)) = Len(refs) /\ Len(Msgs(other, refs)) = Len(refs)
      /\ DOMAIN Msgs(heap, refs) = DOMAIN refs
      /\ \A i \in DOMAIN refs : Msgs(heap, refs)[i] = heap[refs[i]]
      /\ \A i \in DOMAIN refs : Msgs(other, refs)[i] = other[refs[i]]
  BY <1>1, MsgsFacts
<1>3. \A i \in DOMAIN refs : refs[i] \in DOMAIN heap
  OBVIOUS
<1> QED
  BY <1>2, <1>3 DEF AlikeLists, Same

-----------------------------------------------------------------------------
(* The references of a repaired list                                       *)

MergedRefs(heap, refs) ==
    Picked(refs, {i \in DOMAIN refs : ~Continues(Msgs(heap, refs), i)})

LEMMA MergedRefsFacts ==
    ASSUME NEW heap, Heap(heap), NEW refs \in Seq(DOMAIN heap), Whole(Msgs(heap, refs))
    PROVE  LET ms == Msgs(heap, refs)
               merged == MergedRefs(heap, refs)
           IN /\ merged \in Seq(DOMAIN heap)
              /\ RepairMessages(ms) \in Seq(Known(heap))
              /\ Refs(RepairMessages(ms)) = merged
              /\ Whole(Msgs(heap, merged)) /\ NoNeighbours(Msgs(heap, merged))
<1> DEFINE ms == Msgs(heap, refs)
           places == {i \in DOMAIN ms : ~Continues(ms, i)}
           merged == MergedRefs(heap, refs)
           out == RepairMessages(ms)
           n == Cardinality(places)
<1>1. /\ ms \in Seq(Known(heap)) /\ Len(ms) = Len(refs) /\ DOMAIN ms = DOMAIN refs
      /\ \A i \in DOMAIN refs : ms[i] = heap[refs[i]] /\ ms[i].ref = refs[i]
  BY MsgsFacts
<1>2. merged = Picked(refs, places)
  BY <1>1 DEF MergedRefs
<1>3. out = MergedUsers(ms)
  BY <1>1, NoOrphans DEF RepairMessages
<1>4. /\ out \in Seq(Known(heap)) /\ Whole(out) /\ NoNeighbours(out)
      /\ DOMAIN out = 1..n
      /\ \A k \in DOMAIN out : Nth(places, k) \in DOMAIN ms /\ Alike(ms[Nth(places, k)], out[k])
  BY <1>1, <1>3, MergedFacts
<1>5. /\ merged \in Seq(DOMAIN heap) /\ Len(merged) = n /\ DOMAIN merged = 1..n
      /\ \A k \in 1..n : merged[k] = refs[Nth(places, k)]
  <2>1. places \in SUBSET (DOMAIN refs)
    BY <1>1
  <2> HIDE DEF places
  <2> QED
    BY <1>2, <2>1, PickedFacts
<1> HIDE DEF ms, out, merged, places
<1>6. Refs(out) = merged
  <2>1. \A k \in 1..n : out[k].ref = merged[k]
    <3> SUFFICES ASSUME NEW k \in 1..n PROVE out[k].ref = merged[k]
      OBVIOUS
    <3>1. Nth(places, k) \in DOMAIN ms /\ out[k].ref = ms[Nth(places, k)].ref
      BY <1>4 DEF Alike
    <3> QED
      BY <1>1, <1>5, <3>1
  <2>2. Refs(out) = [k \in 1..n |-> merged[k]]
    BY <1>4, <2>1 DEF Refs
  <2>3. merged = [k \in 1..n |-> merged[k]]
    BY <1>5
  <2> QED
    BY <2>2, <2>3
<1>7. /\ Msgs(heap, merged) \in Seq(Known(heap)) /\ Len(Msgs(heap, merged)) = Len(merged)
      /\ \A k \in DOMAIN merged : Msgs(heap, merged)[k] = heap[merged[k]]
  BY <1>5, MsgsFacts
<1>8. Similar(out, Msgs(heap, merged))
  <2>1. Len(out) = n
    BY <1>4, LenProperties, <1>5
  <2>2. \A k \in 1..n : Alike(Msgs(heap, merged)[k], out[k])
    BY <1>1, <1>4, <1>5, <1>7
  <2> QED
    BY <1>4, <1>5, <1>7, <2>1, <2>2 DEF Similar, Alike
<1>9. Whole(Msgs(heap, merged)) /\ NoNeighbours(Msgs(heap, merged))
  BY <1>4, <1>7, <1>8, SimilarLists
<1> QED
  BY <1>4, <1>5, <1>6, <1>9 DEF ms, out, merged

\* Merging twice is merging once.
LEMMA MergedTwice ==
    ASSUME NEW heap, Heap(heap), NEW refs \in Seq(DOMAIN heap), NoNeighbours(Msgs(heap, refs))
    PROVE  MergedRefs(heap, refs) = refs
<1> DEFINE ms == Msgs(heap, refs)
<1>1. ms \in Seq(Known(heap)) /\ DOMAIN ms = DOMAIN refs /\ DOMAIN ms = 1..Len(ms) /\ Len(ms) \in Nat
  <2>1. ms \in Seq(Known(heap)) /\ DOMAIN ms = DOMAIN refs
    BY MsgsFacts
  <2> QED
    BY <2>1, LenProperties
<1> HIDE DEF ms
<1>2. \A i \in DOMAIN ms : ~Continues(ms, i)
  <2>1. \A i \in DOMAIN ms : i > 1 => i \in 2..Len(ms)
    BY <1>1
  <2> QED
    BY <2>1 DEF NoNeighbours, Continues, ms
<1>3. {i \in DOMAIN refs : ~Continues(ms, i)} = DOMAIN refs
  BY <1>1, <1>2
<1> QED
  BY <1>3, PickedAll DEF MergedRefs, ms

LEMMA SimilarMerged ==
    ASSUME NEW heap, NEW other, Heap(heap), Heap(other),
           NEW a \in Seq(DOMAIN heap), NEW b \in Seq(DOMAIN other),
           Similar(Msgs(heap, a), Msgs(other, b))
    PROVE  /\ Similar(Msgs(heap, MergedRefs(heap, a)), Msgs(other, MergedRefs(other, b)))
           /\ a = b => MergedRefs(heap, a) = MergedRefs(other, b)
<1> DEFINE as == Msgs(heap, a)
           bs == Msgs(other, b)
           places == {i \in DOMAIN a : ~Continues(as, i)}
           n == Cardinality(places)
<1>1. /\ as \in Seq(MessageSet) /\ Len(as) = Len(a) /\ DOMAIN as = DOMAIN a
      /\ \A i \in DOMAIN a : as[i] = heap[a[i]]
  <2>1. Known(heap) \subseteq MessageSet
    BY DEF Known
  <2>2. /\ as \in Seq(Known(heap)) /\ Len(as) = Len(a) /\ DOMAIN as = DOMAIN a
        /\ \A i \in DOMAIN a : as[i] = heap[a[i]]
    BY MsgsFacts
  <2> HIDE DEF as
  <2> QED
    BY <2>1, <2>2, SeqMonotonic
<1>2. /\ bs \in Seq(MessageSet) /\ Len(bs) = Len(b) /\ DOMAIN bs = DOMAIN b
      /\ \A i \in DOMAIN b : bs[i] = other[b[i]]
  <2>1. Known(other) \subseteq MessageSet
    BY DEF Known
  <2>2. /\ bs \in Seq(Known(other)) /\ Len(bs) = Len(b) /\ DOMAIN bs = DOMAIN b
        /\ \A i \in DOMAIN b : bs[i] = other[b[i]]
    BY MsgsFacts
  <2> HIDE DEF bs
  <2> QED
    BY <2>1, <2>2, SeqMonotonic
<1> HIDE DEF as, bs
<1>3. DOMAIN bs = DOMAIN as /\ \A i \in DOMAIN as : Continues(bs, i) <=> Continues(as, i)
  BY <1>1, <1>2, SimilarLists DEF as, bs
<1>4. {i \in DOMAIN b : ~Continues(bs, i)} = places
  BY <1>1, <1>2, <1>3
<1>5. MergedRefs(heap, a) = Picked(a, places) /\ MergedRefs(other, b) = Picked(b, places)
  BY <1>4 DEF MergedRefs, as, bs
<1>6. places \in SUBSET (DOMAIN a) /\ places \in SUBSET (DOMAIN b)
  BY <1>1, <1>2, <1>3
<1> HIDE DEF places
<1>7. /\ Picked(a, places) \in Seq(DOMAIN heap) /\ Len(Picked(a, places)) = n
      /\ DOMAIN Picked(a, places) = 1..n
      /\ \A k \in 1..n : Nth(places, k) \in places /\ Picked(a, places)[k] = a[Nth(places, k)]
  BY <1>6, PickedFacts
<1>8. /\ Picked(b, places) \in Seq(DOMAIN other) /\ Len(Picked(b, places)) = n
      /\ DOMAIN Picked(b, places) = 1..n
      /\ \A k \in 1..n : Nth(places, k) \in places /\ Picked(b, places)[k] = b[Nth(places, k)]
  BY <1>6, PickedFacts
<1> DEFINE am == Msgs(heap, Picked(a, places))
           bm == Msgs(other, Picked(b, places))
<1>9. Len(am) = n /\ DOMAIN am = 1..n /\ \A k \in 1..n : am[k] = heap[Picked(a, places)[k]]
  BY <1>7, MsgsFacts
<1>10. Len(bm) = n /\ DOMAIN bm = 1..n /\ \A k \in 1..n : bm[k] = other[Picked(b, places)[k]]
  BY <1>8, MsgsFacts
<1> HIDE DEF am, bm, n
<1>11. \A k \in 1..n : \E i \in DOMAIN as : am[k] = as[i] /\ bm[k] = bs[i]
  <2> SUFFICES ASSUME NEW k \in 1..n
               PROVE  am[k] = as[Nth(places, k)] /\ bm[k] = bs[Nth(places, k)]
                      /\ Nth(places, k) \in DOMAIN as
    OBVIOUS
  <2>1. am[k] = heap[a[Nth(places, k)]] /\ bm[k] = other[b[Nth(places, k)]]
    BY <1>7, <1>8, <1>9, <1>10
  <2>2. Nth(places, k) \in DOMAIN a /\ Nth(places, k) \in DOMAIN b
    BY <1>6, <1>7
  <2> QED
    BY <1>1, <1>2, <2>1, <2>2
<1>12. \A i \in DOMAIN as :
         /\ bs[i].role = as[i].role /\ bs[i].calls = as[i].calls /\ bs[i].id = as[i].id
         /\ bs[i].body = "pending" => as[i].body = "pending"
  BY DEF Similar, as, bs
<1>13. Similar(am, bm)
  <2> SUFFICES ASSUME NEW k \in 1..n
               PROVE  /\ bm[k].role = am[k].role /\ bm[k].calls = am[k].calls /\ bm[k].id = am[k].id
                      /\ bm[k].body = "pending" => am[k].body = "pending"
    BY <1>9, <1>10 DEF Similar
  <2>1. PICK i \in DOMAIN as : am[k] = as[i] /\ bm[k] = bs[i]
    BY <1>11
  <2> QED
    BY <1>12, <2>1
<1> QED
  BY <1>5, <1>13 DEF am, bm

LEMMA MsgsConcat ==
    ASSUME NEW heap, Heap(heap), NEW a \in Seq(DOMAIN heap), NEW b \in Seq(DOMAIN heap)
    PROVE  Msgs(heap, a \o b) = Msgs(heap, a) \o Msgs(heap, b)
<1> DEFINE c == a \o b
           n == Len(a)
           am == Msgs(heap, a)
           bm == Msgs(heap, b)
           cm == Msgs(heap, c)
<1>1. /\ n \in Nat /\ Len(b) \in Nat /\ c \in Seq(DOMAIN heap) /\ Len(c) = n + Len(b)
      /\ DOMAIN c = 1..(n + Len(b)) /\ DOMAIN a = 1..n /\ DOMAIN b = 1..Len(b)
      /\ \A i \in DOMAIN a : i \in DOMAIN c /\ c[i] = a[i]
      /\ \A i \in DOMAIN b : n + i \in DOMAIN c /\ c[n + i] = b[i]
      /\ \A i \in DOMAIN c : i \in DOMAIN a \/ \E k \in DOMAIN b : i = n + k
  BY ConcatPlaces, LenProperties
<1>2. /\ am \in Seq(Known(heap)) /\ Len(am) = n /\ DOMAIN am = DOMAIN a
      /\ \A i \in DOMAIN a : am[i] = heap[a[i]]
  BY MsgsFacts
<1>3. /\ bm \in Seq(Known(heap)) /\ Len(bm) = Len(b) /\ DOMAIN bm = DOMAIN b
      /\ \A i \in DOMAIN b : bm[i] = heap[b[i]]
  BY MsgsFacts
<1>4. cm = [i \in DOMAIN c |-> heap[c[i]]]
  BY DEF Msgs
<1> DEFINE dm == am \o bm
<1> HIDE DEF c, n, am, bm, cm
<1>5. /\ dm \in Seq(Known(heap)) /\ DOMAIN dm = 1..(n + Len(b))
      /\ \A i \in DOMAIN am : i \in DOMAIN dm /\ dm[i] = am[i]
      /\ \A i \in DOMAIN bm : n + i \in DOMAIN dm /\ dm[n + i] = bm[i]
  <2>1. am \in Seq(Known(heap)) /\ bm \in Seq(Known(heap)) /\ Len(am) = n /\ Len(bm) = Len(b)
    BY <1>2, <1>3
  <2>2. /\ dm \in Seq(Known(heap)) /\ DOMAIN dm = 1..(Len(am) + Len(bm))
        /\ \A i \in DOMAIN am : i \in DOMAIN dm /\ dm[i] = am[i]
        /\ \A i \in DOMAIN bm : Len(am) + i \in DOMAIN dm /\ dm[Len(am) + i] = bm[i]
    <3> DEFINE S == Known(heap)
    <3>1. am \in Seq(S) /\ bm \in Seq(S)
      BY <2>1
    <3> HIDE DEF S
    <3>2. /\ dm \in Seq(S) /\ DOMAIN dm = 1..(Len(am) + Len(bm))
          /\ \A i \in DOMAIN am : i \in DOMAIN dm /\ dm[i] = am[i]
          /\ \A i \in DOMAIN bm : Len(am) + i \in DOMAIN dm /\ dm[Len(am) + i] = bm[i]
      BY <3>1, ConcatPlaces
    <3> QED
      BY <3>2 DEF S
  <2> HIDE DEF dm
  <2> QED
    BY <2>1, <2>2
<1>6. dm = [i \in DOMAIN c |-> dm[i]]
  <2>1. DOMAIN dm = DOMAIN c /\ dm \in Seq(Known(heap))
    BY <1>1, <1>5
  <2> HIDE DEF dm
  <2> QED
    BY <2>1
<1> HIDE DEF dm
<1>7. ASSUME NEW i \in DOMAIN c PROVE dm[i] = heap[c[i]]
  <2>1. CASE i \in DOMAIN a
    BY <1>1, <1>2, <1>5, <2>1
  <2>2. CASE i \notin DOMAIN a
    <3>1. PICK k \in DOMAIN b : i = n + k
      BY <1>1, <2>2
    <3> QED
      BY <1>1, <1>3, <1>5, <3>1
  <2> QED
    BY <2>1, <2>2
<1> QED
  BY <1>4, <1>6, <1>7 DEF dm, am, bm, cm, c

\* New messages at the end of a list: the merged list grows by some of them,
\* and by all if no user is among them.
LEMMA MergedGrows ==
    ASSUME NEW heap, Heap(heap), NEW ms, Made(heap, ms), NEW refs \in Seq(DOMAIN heap)
    PROVE  LET all == heap \o ms
           IN /\ refs \o Refs(ms) \in Seq(DOMAIN all)
              /\ Msgs(all, refs \o Refs(ms)) = Msgs(heap, refs) \o ms
              /\ \E B \in SUBSET (DOMAIN Refs(ms)) :
                   /\ MergedRefs(all, refs \o Refs(ms)) = MergedRefs(heap, refs) \o Picked(Refs(ms), B)
                   /\ (\A k \in DOMAIN ms : ~IsUser(ms[k])) => B = DOMAIN Refs(ms)
<1> DEFINE all == heap \o ms
           new == Refs(ms)
           S == DOMAIN all
           n == Len(refs)
           old == Msgs(heap, refs)
           full == old \o ms
<1>1. /\ Heap(all) /\ DOMAIN heap \subseteq S
      /\ new \in Seq(S) /\ Len(new) = Len(ms) /\ Msgs(all, new) = ms
      /\ Msgs(all, refs) = old
  BY HeapGrows
<1>2. refs \in Seq(S)
  BY <1>1, SeqMonotonic
<1>3. Msgs(all, refs \o new) = full
  BY <1>1, <1>2, MsgsConcat
<1>4. old \in Seq(Known(heap)) /\ Len(old) = n /\ DOMAIN old = DOMAIN refs
  BY MsgsFacts
<1>5. \A h : Known(h) \subseteq MessageSet
  BY DEF Known
<1>6. old \in Seq(MessageSet)
  <2> HIDE DEF old
  <2> QED
    BY <1>4, <1>5, SeqMonotonic
<1>7. ms \in Seq(MessageSet)
  <2>1. ms \in Seq(Known(all))
    BY DEF Made
  <2> HIDE DEF all
  <2> QED
    BY <1>5, <2>1, SeqMonotonic
<1> HIDE DEF old, S, new
<1>8. /\ refs \o new \in Seq(S) /\ n \in Nat /\ DOMAIN (refs \o new) = 1..(n + Len(new))
  <2>1. refs \in Seq(S) /\ new \in Seq(S)
    BY <1>1, <1>2
  <2> QED
    BY <2>1, ConcatPlaces
<1>9. DOMAIN refs = 1..n /\ DOMAIN new = 1..Len(new) /\ DOMAIN ms = 1..Len(ms) /\ Len(ms) \in Nat
      /\ Len(new) \in Nat
  BY <1>1, <1>2, <1>7, LenProperties
<1>10. /\ \A i \in DOMAIN old : full[i] = old[i]
       /\ \A i \in DOMAIN ms : full[n + i] = ms[i]
  BY <1>4, <1>6, <1>7, ConcatPlaces
<1> DEFINE A == {i \in DOMAIN refs : ~Continues(old, i)}
           B == {j \in DOMAIN new : ~Continues(full, n + j)}
           merged == refs \o new
<1> HIDE DEF all, new, full, n
<1>11. ASSUME NEW i \in DOMAIN refs PROVE Continues(full, i) <=> Continues(old, i)
  <2>1. i \in 1..n /\ (i > 1 => i - 1 \in 1..n)
    BY <1>8, <1>9
  <2> QED
    BY <1>4, <1>9, <1>10, <2>1 DEF Continues
<1>12. {i \in DOMAIN merged : ~Continues(full, i)} = A \cup {n + j : j \in B}
  <2> DEFINE P(i) == ~Continues(full, i)
  <2>1. ASSUME NEW i \in DOMAIN merged, P(i) PROVE i \in A \cup {n + j : j \in B}
    <3>1. CASE i <= n
      <4>1. i \in DOMAIN refs
        BY <1>8, <1>9, <3>1
      <4> QED
        BY <1>11, <2>1, <4>1
    <3>2. CASE ~(i <= n)
      <4>1. i - n \in DOMAIN new /\ n + (i - n) = i
        BY <1>8, <1>9, <3>2
      <4> QED
        BY <2>1, <4>1
    <3> QED
      BY <3>1, <3>2
  <2>2. ASSUME NEW i \in A PROVE i \in DOMAIN merged /\ P(i)
    <3>1. i \in DOMAIN refs /\ ~Continues(old, i)
      OBVIOUS
    <3>2. i \in DOMAIN merged
      BY <1>8, <1>9, <3>1
    <3> QED
      BY <1>11, <3>1, <3>2
  <2>3. ASSUME NEW j \in B PROVE n + j \in DOMAIN merged /\ P(n + j)
    <3>1. j \in DOMAIN new /\ P(n + j)
      OBVIOUS
    <3>2. n + j \in DOMAIN merged
      BY <1>8, <1>9, <3>1
    <3> QED
      BY <3>1, <3>2
  <2> HIDE DEF P, A, B, merged
  <2> QED
    BY <2>1, <2>2, <2>3 DEF P
<1>13. ASSUME NEW X \in SUBSET Nat, X = A \cup {n + j : j \in B}
       PROVE  Picked(merged, X) = Picked(refs, A) \o Picked(new, B)
  <2>1. A \in SUBSET (DOMAIN refs) /\ B \in SUBSET (DOMAIN new)
    OBVIOUS
  <2>2. refs \in Seq(S) /\ new \in Seq(S)
    BY <1>1, <1>2
  <2> HIDE DEF A, B
  <2>3. /\ \A i \in A : i \in X
        /\ \A j \in B : Len(refs) + j \in X
        /\ \A i \in X : i \in A \/ \E j \in B : i = Len(refs) + j
    BY <1>13 DEF n
  <2> HIDE DEF merged
  <2>4. IsConcat(Picked(refs \o new, X), Picked(refs, A), Picked(new, B))
    BY <2>1, <2>2, <2>3, PickedConcat
  <2> QED
    BY <2>4 DEF merged, IsConcat
<1>14. MergedRefs(all, merged) = Picked(merged, {i \in DOMAIN merged : ~Continues(full, i)})
  BY <1>3 DEF MergedRefs
<1>15. MergedRefs(heap, refs) = Picked(refs, A)
  BY DEF MergedRefs, old
<1>16. (\A k \in DOMAIN ms : ~IsUser(ms[k])) => B = DOMAIN new
  <2> SUFFICES ASSUME \A k \in DOMAIN ms : ~IsUser(ms[k]) PROVE \A j \in DOMAIN new : ~Continues(full, n + j)
    OBVIOUS
  <2>1. \A j \in DOMAIN new : j \in DOMAIN ms /\ ~IsUser(full[n + j])
    BY <1>1, <1>9, <1>10
  <2> QED
    BY <2>1 DEF Continues
<1>17. B \in SUBSET (DOMAIN new)
  OBVIOUS
<1> HIDE DEF A, B, merged
<1>18. MergedRefs(all, merged) = MergedRefs(heap, refs) \o Picked(new, B)
  <2> DEFINE X == {i \in DOMAIN merged : ~Continues(full, i)}
  <2>1. X \in SUBSET Nat /\ X = A \cup {n + j : j \in B}
    <3>1. DOMAIN merged \in SUBSET Nat
      BY <1>8, <1>9 DEF merged
    <3> QED
      BY <1>12, <3>1
  <2> HIDE DEF X
  <2> QED
    BY <1>13, <1>14, <1>15, <2>1 DEF X
<1> QED
  BY <1>3, <1>8, <1>16, <1>17, <1>18 DEF all, new, full, old, merged, S

\* A log that grows.
LEMMA LogGrows ==
    ASSUME NEW heap, Heap(heap), NEW ms, Made(heap, ms), NEW refs \in Seq(DOMAIN heap),
           Whole(Msgs(heap, refs)), Whole(ms), Fitting(Msgs(heap, MergedRefs(heap, refs))),
           \/ CompactionCalls(ms) = {}
           \/ /\ \A k \in DOMAIN ms : ~IsUser(ms[k])
              /\ \A p \in CompactionCalls(ms) :
                   p = 1 /\ ms[p].calls[1].arg \in RecentSteps(Msgs(heap, MergedRefs(heap, refs)))
    PROVE  LET all == heap \o ms
           IN /\ refs \o Refs(ms) \in Seq(DOMAIN all)
              /\ Whole(Msgs(all, refs \o Refs(ms)))
              /\ Fitting(Msgs(all, MergedRefs(all, refs \o Refs(ms))))
              /\ (\A k \in DOMAIN ms : ~IsUser(ms[k])) =>
                   MergedRefs(all, refs \o Refs(ms)) = MergedRefs(heap, refs) \o Refs(ms)
<1> DEFINE all == heap \o ms
           new == Refs(ms)
           merged == MergedRefs(heap, refs)
           old == Msgs(heap, merged)
           S == DOMAIN all
<1>1. /\ Heap(all) /\ DOMAIN heap \subseteq S
      /\ new \in Seq(S) /\ Len(new) = Len(ms) /\ Msgs(all, new) = ms
      /\ \A rs \in Seq(DOMAIN heap) : Msgs(all, rs) = Msgs(heap, rs)
  BY HeapGrows
<1>2. /\ refs \o new \in Seq(S) /\ Msgs(all, refs \o new) = Msgs(heap, refs) \o ms
  BY MergedGrows
<1>3. PICK B \in SUBSET (DOMAIN new) :
         /\ MergedRefs(all, refs \o new) = merged \o Picked(new, B)
         /\ (\A k \in DOMAIN ms : ~IsUser(ms[k])) => B = DOMAIN new
  BY MergedGrows
<1>4. merged \in Seq(DOMAIN heap)
  BY MergedRefsFacts
<1>5. Known(heap) \subseteq Known(all)
  BY HeapGrows
<1> HIDE DEF merged
<1>6. \A rs \in Seq(DOMAIN heap) : Msgs(heap, rs) \in Seq(Known(heap))
  BY MsgsFacts
<1>7. ms \in Seq(Known(all))
  BY DEF Made
<1> DEFINE K == Known(all)
<1>8. Msgs(heap, refs) \in Seq(K) /\ old \in Seq(K)
  BY <1>4, <1>5, <1>6, SeqMonotonic
<1>9. DOMAIN ms = 1..Len(ms) /\ DOMAIN new = 1..Len(new)
  BY <1>1, <1>7, LenProperties
<1> DEFINE more == Msgs(all, Picked(new, B))
<1>10. Picked(new, B) \in Seq(S) /\ DOMAIN Picked(new, B) = 1..Cardinality(B)
       /\ \A k \in 1..Cardinality(B) : Nth(B, k) \in B /\ Picked(new, B)[k] = new[Nth(B, k)]
  BY <1>1, PickedFacts
<1>11. /\ more \in Seq(K) /\ DOMAIN more = 1..Cardinality(B)
       /\ \A k \in 1..Cardinality(B) : more[k] = all[new[Nth(B, k)]]
  <2> DEFINE rs == Picked(new, B)
  <2>1. rs \in Seq(DOMAIN all) /\ Heap(all)
    BY <1>1, <1>10
  <2> HIDE DEF all
  <2>2. DOMAIN rs = 1..Cardinality(B) /\ \A k \in 1..Cardinality(B) : rs[k] = new[Nth(B, k)]
    BY <1>10
  <2> HIDE DEF rs, new
  <2>3. /\ Msgs(all, rs) \in Seq(Known(all)) /\ DOMAIN Msgs(all, rs) = DOMAIN rs
        /\ \A k \in DOMAIN rs : Msgs(all, rs)[k] = all[rs[k]]
    BY <2>1, MsgsFacts
  <2> QED
    BY <2>2, <2>3 DEF rs
<1>12. \A j \in DOMAIN new : all[new[j]] = ms[j]
  BY <1>1 DEF Msgs
<1>13. Msgs(all, merged \o Picked(new, B)) = old \o more
  <2>1. merged \in Seq(S)
    BY <1>1, <1>4, SeqMonotonic
  <2>2. Msgs(all, merged) = old
    BY <1>1, <1>4
  <2>3. Msgs(all, merged \o Picked(new, B)) = Msgs(all, merged) \o Msgs(all, Picked(new, B))
    BY <1>1, <1>10, <2>1, MsgsConcat
  <2> QED
    BY <2>2, <2>3
<1>14. (\A k \in DOMAIN ms : ~IsUser(ms[k])) => Picked(new, B) = new
  BY <1>1, <1>3, PickedAll
<1> HIDE DEF all, new, more, old, S
<1>15. \A p \in CompactionCalls(more) :
          /\ more[p].calls[1].arg \in MayRemain(old, Len(old) + 1)
          /\ \A i \in Middle(old, Len(old) + 1, more[p].calls[1].arg) : old[i].body # "pending"
          /\ p = 1
  <2>1. CASE CompactionCalls(ms) = {}
    <3>1. \A k \in 1..Cardinality(B) : \E j \in DOMAIN ms : more[k] = ms[j]
      BY <1>1, <1>9, <1>10, <1>11, <1>12
    <3>2. \A j \in DOMAIN ms : ~IsCompactionCall(ms[j])
      BY <2>1 DEF CompactionCalls
    <3>3. CompactionCalls(more) = {}
      BY <1>11, <3>1, <3>2 DEF CompactionCalls
    <3> QED
      BY <3>3
  <2>2. CASE /\ \A k \in DOMAIN ms : ~IsUser(ms[k])
             /\ \A p \in CompactionCalls(ms) : p = 1 /\ ms[p].calls[1].arg \in RecentSteps(old)
    <3>1. more = ms
      BY <1>1, <1>14, <2>2 DEF more
    <3> QED
      BY <2>2, <3>1 DEF RecentSteps
  <2> QED
    BY <2>1, <2>2 DEF old, merged
<1>16. Fitting(old \o more)
  <2>1. Fitting(old)
    BY DEF old, merged
  <2> HIDE DEF K
  <2> QED
    BY <1>8, <1>11, <1>15, <2>1, FittingConcat
<1>17. Whole(Msgs(heap, refs) \o ms)
  <2>1. ms \in Seq(K)
    BY <1>7
  <2> HIDE DEF K
  <2> QED
    BY <1>8, <2>1, ConcatWhole
<1> QED
  BY <1>2, <1>3, <1>13, <1>14, <1>16, <1>17 DEF all, new, merged, S

-----------------------------------------------------------------------------
(* The inductive invariant                                                 *)

\* The log with adjacent users merged: what the run works on.
MergedLog == MergedRefs(object, log)

\* The thread: messages that fit each other, calls with their answers, and
\* compactions that leave out no placeholder.
ThreadInv ==
    /\ Heap(object)
    /\ log \in Seq(DOMAIN object) /\ conv \in Seq(DOMAIN object)
    /\ awaiting \subseteq DOMAIN object
    /\ Whole(Msgs(object, log))
    /\ Fitting(Msgs(object, MergedLog))

\* The run: its conversation is the merged log once it is repaired, and the
\* prompt is a legal view of it that shows what is due.
RunInv ==
    /\ phase = "top" => conv \in {log, MergedLog}
    /\ phase \in {"check", "turn"} =>
         /\ conv = MergedLog
         /\ Legal(object, prompt)
         /\ ShowsDue(Msgs(object, conv), prompt)
    /\ prompt \in Seq(Known(object))

CounterInv ==
    /\ nudge \in BOOLEAN
    /\ compacted \in 0..(ThrashLimit + 1)
    /\ users \in 0..MaxUsers
    /\ phase \in {"idle", "top", "check", "turn"}

ViewInv == ThreadInv /\ RunInv /\ CounterInv

-----------------------------------------------------------------------------
(* Steps                                                                   *)

\* What a merge in place leaves of the thread.
LEMMA SameThread ==
    ASSUME NEW heap, NEW other, Heap(heap), Heap(other), Same(heap, other),
           NEW refs \in Seq(DOMAIN heap), Whole(Msgs(heap, refs))
    PROVE  /\ refs \in Seq(DOMAIN other) /\ Whole(Msgs(other, refs))
           /\ MergedRefs(other, refs) = MergedRefs(heap, refs)
           /\ Fitting(Msgs(heap, MergedRefs(heap, refs))) =>
                Fitting(Msgs(other, MergedRefs(other, refs)))
           /\ \A view : ShowsDue(Msgs(heap, refs), view) => ShowsDue(Msgs(other, refs), view)
<1> DEFINE a == Msgs(heap, refs)
           b == Msgs(other, refs)
           merged == MergedRefs(heap, refs)
           am == Msgs(heap, merged)
           bm == Msgs(other, merged)
           K == Known(heap)
<1>1. refs \in Seq(DOMAIN other) /\ Known(other) = K
  BY SameKnown DEF Same
<1>2. a \in Seq(K) /\ b \in Seq(K)
  <2>1. a \in Seq(K)
    BY MsgsFacts
  <2>2. b \in Seq(Known(other))
    BY <1>1, MsgsFacts
  <2> QED
    BY <1>1, <2>1, <2>2
<1>3. AlikeLists(a, b)
  BY SameMsgs
<1> HIDE DEF K, a, b
<1>4. Similar(a, b) /\ \A view : ShowsDue(a, view) => ShowsDue(b, view)
  BY <1>2, <1>3, AlikeDue
<1>5. Whole(b)
  BY <1>2, <1>4, SimilarLists DEF a
<1>6. MergedRefs(other, refs) = merged /\ Similar(am, Msgs(other, MergedRefs(other, refs)))
  BY <1>1, <1>4, SimilarMerged DEF a, b
<1>7. merged \in Seq(DOMAIN heap) /\ merged \in Seq(DOMAIN other)
  <2>1. merged \in Seq(DOMAIN heap)
    BY MergedRefsFacts
  <2> QED
    BY <2>1 DEF Same
<1> HIDE DEF merged
<1>8. am \in Seq(K) /\ bm \in Seq(K)
  <2>1. am \in Seq(K)
    BY <1>7, MsgsFacts DEF K
  <2>2. bm \in Seq(Known(other))
    BY <1>7, MsgsFacts
  <2> QED
    BY <1>1, <2>1, <2>2
<1> HIDE DEF am, bm
<1>9. Fitting(am) => Fitting(bm)
  <2>1. Similar(am, bm)
    BY <1>6 DEF bm
  <2> QED
    BY <1>8, <2>1, SimilarLists
<1> QED
  BY <1>1, <1>4, <1>5, <1>6, <1>9 DEF a, b, am, bm, merged

\* What a list of new messages has to be.
LEMMA MadeList ==
    ASSUME NEW heap, Heap(heap), NEW ms \in Seq(MessageSet),
           \A k \in DOMAIN ms :
             /\ ms[k].ref = Len(heap) + k
             /\ ms[k].role # "system"
             /\ ms[k].body \in {"text", "result", "pending", "summary"}
             /\ \A l \in DOMAIN ms[k].calls : ms[k].calls[l].id > 0 =>
                  \E q \in DOMAIN ms : ms[k].calls[l].id = Len(heap) + q
                                       /\ ms[q].tool = ms[k].calls[l].tool
             /\ ms[k].role = "tool" => ms[k].id = Len(heap) + k
             /\ ms[k].role # "assistant" => ms[k].calls = <<>>
             /\ Calls(ms[k], Compaction) =>
                  \A l \in DOMAIN ms[k].calls : ms[k].calls[l].tool = Compaction
             /\ ms[k].body = "pending" =>
                  ms[k].role = "tool" /\ ms[k].tool \notin {"plan", Compaction}
             /\ ms[k].body = "summary" => ms[k].role = "tool" /\ ms[k].tool = Compaction
    PROVE  Made(heap, ms)
<1> DEFINE all == heap \o ms
           n == Len(heap)
<1>1. heap \in Seq(MessageSet)
  <2>1. heap \in Seq(Known(heap)) /\ Known(heap) \subseteq MessageSet
    BY DEF Heap, Known
  <2> QED
    BY <2>1, SeqMonotonic
<1>2. n \in Nat /\ \A k \in DOMAIN ms : n + k \in DOMAIN all /\ all[n + k] = ms[k]
  BY <1>1, ConcatPlaces
<1>3. DOMAIN ms = 1..Len(ms) /\ Len(ms) \in Nat
  BY LenProperties
<1> HIDE DEF all, n
<1>4. ASSUME NEW k \in DOMAIN ms PROVE ms[k] \in Known(all)
  <2>1. ms[k].ref = n + k /\ ms[k] \in MessageSet
    BY DEF n
  <2>2. ms[k].ref \in DOMAIN all /\ all[ms[k].ref].role = ms[k].role
    BY <1>2, <2>1
  <2>3. ASSUME NEW l \in DOMAIN ms[k].calls, ms[k].calls[l].id > 0
        PROVE  /\ ms[k].calls[l].id \in DOMAIN all
               /\ all[ms[k].calls[l].id].tool = ms[k].calls[l].tool
    <3>1. PICK q \in DOMAIN ms : ms[k].calls[l].id = n + q /\ ms[q].tool = ms[k].calls[l].tool
      BY <2>3 DEF n
    <3> QED
      BY <1>2, <3>1
  <2>4. ms[k].role = "tool" =>
          ms[k].id > 0 /\ ms[k].id \in DOMAIN all /\ all[ms[k].id].tool = ms[k].tool
    <3> SUFFICES ASSUME ms[k].role = "tool"
                 PROVE  ms[k].id > 0 /\ ms[k].id \in DOMAIN all /\ all[ms[k].id].tool = ms[k].tool
      OBVIOUS
    <3>1. ms[k].id = n + k
      BY DEF n
    <3> QED
      BY <1>2, <1>3, <3>1
  <2>5. Fits(all, ms[k])
    BY <2>2, <2>3, <2>4 DEF Fits
  <2> QED
    BY <2>1, <2>5 DEF Known
<1>5. ms \in Seq(Known(all))
  BY <1>3, <1>4
<1> QED
  BY <1>5 DEF Made, all

\* The thread grows by messages that answer each other.
LEMMA ThreadGrows ==
    ASSUME ThreadInv, NEW ms, Made(object, ms), Whole(ms), CompactionCalls(ms) = {},
           object' = object \o ms, log' = log \o Refs(ms),
           conv' \in {log', <<>>, conv \o Refs(ms)}, awaiting' \subseteq DOMAIN object'
    PROVE  /\ ThreadInv' /\ Known(object) \subseteq Known(object')
           /\ (\A k \in DOMAIN ms : ~IsUser(ms[k])) => MergedLog' = MergedLog \o Refs(ms)
<1>1. /\ Heap(object) /\ log \in Seq(DOMAIN object) /\ Whole(Msgs(object, log))
      /\ Fitting(Msgs(object, MergedRefs(object, log))) /\ conv \in Seq(DOMAIN object)
  BY DEF ThreadInv, MergedLog
<1>2. /\ log' \in Seq(DOMAIN object') /\ Whole(Msgs(object', log'))
      /\ Fitting(Msgs(object', MergedRefs(object', log')))
      /\ (\A k \in DOMAIN ms : ~IsUser(ms[k])) =>
           MergedRefs(object', log') = MergedRefs(object, log) \o Refs(ms)
  BY <1>1, LogGrows
<1>3. /\ Heap(object') /\ Known(object) \subseteq Known(object')
      /\ DOMAIN object \subseteq DOMAIN object' /\ Refs(ms) \in Seq(DOMAIN object')
  BY <1>1, HeapGrows
<1>4. conv' \in Seq(DOMAIN object')
  <2>1. conv \in Seq(DOMAIN object')
    BY <1>1, <1>3, SeqMonotonic
  <2>2. conv \o Refs(ms) \in Seq(DOMAIN object')
    BY <1>3, <2>1, ConcatProperties
  <2> QED
    BY <1>2, <2>2, EmptySeq
<1> QED
  BY <1>2, <1>3, <1>4 DEF ThreadInv, MergedLog

\* A run that ends leaves the thread as it is.
LEMMA EndRunStep ==
    ASSUME EndRun, phase' = "idle"
    PROVE  RunInv' /\ nudge' \in BOOLEAN /\ compacted' \in 0..(ThrashLimit + 1) /\ conv' = <<>>
<1>1. prompt' = <<>> /\ nudge' = FALSE /\ compacted' = 0 /\ conv' = <<>>
  BY DEF EndRun
<1>2. ThrashLimit \in Nat
  BY ContextAssumption
<1>3. prompt' \in Seq(Known(object'))
  BY <1>1, EmptySeq
<1>4. RunInv'
  BY <1>3 DEF RunInv
<1>5. compacted' \in 0..(ThrashLimit + 1)
  BY <1>1, <1>2
<1> QED
  BY <1>1, <1>4, <1>5

LEMMA StopStep ==
    ASSUME ViewInv, EndRun, UNCHANGED <<object, log, awaiting, users>>
    PROVE  ViewInv'
<1>1. phase' = "idle"
  BY DEF EndRun
<1>2. RunInv' /\ nudge' \in BOOLEAN /\ compacted' \in 0..(ThrashLimit + 1) /\ conv' = <<>>
  BY <1>1, EndRunStep
<1>3. conv' \in Seq(DOMAIN object')
  BY <1>2, EmptySeq
<1>4. ThreadInv'
  BY <1>3 DEF ViewInv, ThreadInv, MergedLog
<1>5. CounterInv'
  BY <1>1, <1>2 DEF ViewInv, CounterInv
<1> QED
  BY <1>2, <1>4, <1>5 DEF ViewInv

LEMMA RequestStep ==
    ASSUME ViewInv, Request
    PROVE  ViewInv'
<1> DEFINE m == UserMessage(Len(object) + 1, {users + 1})
           ms == <<m>>
<1>1. /\ Heap(object) /\ prompt \in Seq(Known(object)) /\ users \in Nat /\ users < MaxUsers
      /\ compacted \in 0..(ThrashLimit + 1)
  BY ContextAssumption DEF ViewInv, ThreadInv, RunInv, CounterInv, Request
<1>2. Len(object) \in Nat
  BY <1>1, LenProperties DEF Heap
<1>3. /\ m.role = "user" /\ m.ref = Len(object) + 1 /\ m.calls = <<>> /\ m.body = "text"
      /\ m \in MessageSet
  <2>1. <<>> \in Seq(CallSet)
    BY EmptySeq
  <2> QED
    BY <1>1, <1>2, <2>1 DEF UserMessage, Message, MessageSet, ToolName
<1> HIDE DEF m
<1>4. ms \in Seq(MessageSet) /\ DOMAIN ms = {1} /\ ms[1] = m
  BY <1>3
<1>5. Made(object, ms)
  <2>1. DOMAIN m.calls = {}
    BY <1>3
  <2> HIDE DEF ms
  <2> QED
    BY <1>1, <1>3, <1>4, <2>1, MadeList DEF Calls
<1>6. Whole(ms) /\ CompactionCalls(ms) = {}
  <2>1. Whole(ms)
    BY <1>3, SingleWhole
  <2> QED
    BY <1>3, <1>4, <2>1 DEF CompactionCalls, IsCompactionCall
<1>7. /\ object' = object \o ms /\ log' = log \o Refs(ms) /\ conv' = log' /\ awaiting' = {}
      /\ nudge' = FALSE /\ phase' = "top" /\ users' = users + 1 /\ prompt' = prompt
      /\ compacted' = compacted
  BY DEF Request, Commit, StartRun, m
<1> HIDE DEF ms
<1>8. ThreadInv' /\ Known(object) \subseteq Known(object')
  BY <1>5, <1>6, <1>7, ThreadGrows DEF ViewInv
<1>9. prompt' \in Seq(Known(object'))
  BY <1>1, <1>7, <1>8, SeqMonotonic
<1>10. RunInv'
  BY <1>7, <1>9 DEF RunInv
<1>11. CounterInv'
  <2>1. users + 1 \in 0..MaxUsers
    BY <1>1, ContextAssumption
  <2> QED
    BY <1>1, <1>7, <2>1 DEF CounterInv
<1> QED
  BY <1>8, <1>10, <1>11 DEF ViewInv

\* The model's last word: a text, or a call that is never run.
LEMMA LastTurn ==
    ASSUME ViewInv, NEW m \in MessageSet, m.role = "assistant", m.ref = Len(object) + 1,
           m.body = "text",
           \A k \in DOMAIN m.calls : ~(m.calls[k].id > 0) /\ m.calls[k].tool # Compaction,
           Commit(<<m>>), EndRun, UNCHANGED <<awaiting, users>>
    PROVE  ViewInv'
<1> DEFINE ms == <<m>>
<1>1. Heap(object) /\ ms \in Seq(MessageSet) /\ DOMAIN ms = {1} /\ ms[1] = m
  BY DEF ViewInv, ThreadInv
<1>2. /\ object' = object \o ms /\ log' = log \o Refs(ms) /\ awaiting' = awaiting
      /\ users' = users
  BY DEF Commit
<1> HIDE DEF ms
<1>3. Made(object, ms)
  BY <1>1, MadeList DEF Calls
<1>4. CompactionCalls(ms) = {}
  BY <1>1 DEF CompactionCalls, IsCompactionCall, Calls
<1>5. Whole(ms)
  <2>1. \A id \in CallIds(ms[1]) : ~(id > 0)
    BY <1>1 DEF CallIds
  <2> QED
    BY <1>1, <2>1 DEF Whole, Paired, Complete
<1>6. phase' = "idle"
  BY DEF EndRun
<1>7. RunInv' /\ nudge' \in BOOLEAN /\ compacted' \in 0..(ThrashLimit + 1) /\ conv' = <<>>
  BY <1>6, EndRunStep
<1>8. awaiting' \subseteq DOMAIN object'
  <2>1. DOMAIN object \subseteq DOMAIN object'
    BY <1>1, <1>2, <1>3, HeapGrows
  <2> QED
    BY <1>2, <2>1 DEF ViewInv, ThreadInv
<1>9. ThreadInv'
  BY <1>2, <1>3, <1>4, <1>5, <1>7, <1>8, ThreadGrows DEF ViewInv
<1>10. CounterInv'
  BY <1>2, <1>6, <1>7 DEF ViewInv, CounterInv
<1> QED
  BY <1>7, <1>9, <1>10 DEF ViewInv

LEMMA AnswerStep ==
    ASSUME ViewInv, Answer
    PROVE  ViewInv'
<1> DEFINE a == Len(object) + 1
           m == Message("assistant", a, {a}, <<>>, 0, NoTool, "text")
<1>1. a \in Nat
  <2>1. object \in Seq(Known(object))
    BY DEF ViewInv, ThreadInv, Heap
  <2> QED
    BY <2>1, LenProperties
<1>2. Commit(<<m>>) /\ EndRun /\ UNCHANGED <<awaiting, users>>
  BY DEF Answer
<1>3. m \in MessageSet /\ m.role = "assistant" /\ m.ref = a /\ m.calls = <<>> /\ m.body = "text"
  <2>1. <<>> \in Seq(CallSet)
    BY EmptySeq
  <2> HIDE DEF a
  <2> QED
    BY <1>1, <2>1 DEF Message, MessageSet, ToolName
<1>4. DOMAIN m.calls = {}
  BY <1>3
<1> HIDE DEF m
<1> QED
  BY <1>2, <1>3, <1>4, LastTurn

LEMMA GraceStep ==
    ASSUME ViewInv, NEW tool \in Tool, NEW spoken \in BOOLEAN, Grace(tool, spoken)
    PROVE  ViewInv'
<1> DEFINE a == Len(object) + 1
           c == ToolCall(-a, tool, 0)
           m == Message("assistant", a, IF spoken THEN {a} ELSE {}, <<c>>, 0, NoTool, "text")
<1>1. Len(object) \in Nat /\ a \in Nat /\ -a \in Int /\ ~(-a > 0)
  <2>1. object \in Seq(Known(object))
    BY DEF ViewInv, ThreadInv, Heap
  <2>2. Len(object) \in Nat
    BY <2>1, LenProperties
  <2> QED
    BY <2>2
<1>2. Commit(<<m>>) /\ EndRun /\ UNCHANGED <<awaiting, users>>
  BY DEF Grace
<1>3. m.ref = Len(object) + 1
  BY DEF Message
<1> HIDE DEF a
<1>4. c \in CallSet /\ c.id = -a /\ c.tool = tool
  BY <1>1 DEF ToolCall, CallSet
<1> HIDE DEF c
<1>5. <<c>> \in Seq(CallSet) /\ DOMAIN <<c>> = {1} /\ <<c>>[1] = c
  BY <1>4
<1>6. m \in MessageSet /\ m.role = "assistant" /\ m.calls = <<c>> /\ m.body = "text"
  <2> DEFINE cs == <<c>>
  <2> HIDE DEF cs
  <2>1. (IF spoken THEN {a} ELSE {}) \in SUBSET Int
    BY <1>1
  <2>2. cs \in Seq(CallSet)
    BY <1>5 DEF cs
  <2> QED
    BY <1>1, <2>1, <2>2 DEF Message, MessageSet, ToolName, cs
<1>7. tool # Compaction
  BY ContextAssumption
<1> HIDE DEF m
<1>8. \A k \in DOMAIN m.calls : ~(m.calls[k].id > 0) /\ m.calls[k].tool # Compaction
  BY <1>1, <1>4, <1>5, <1>6, <1>7
<1> QED
  BY <1>2, <1>3, <1>6, <1>8, LastTurn

\* A prompt is assembled of the merged log.
LEMMA AssembleStep ==
    ASSUME NEW heap, Heap(heap), NEW refs \in Seq(DOMAIN heap), Whole(Msgs(heap, refs)),
           Fitting(Msgs(heap, MergedRefs(heap, refs))), NEW over \in BOOLEAN
    PROVE  LET merged == MergedRefs(heap, refs)
               made == Assemble(heap, merged, over)
           IN /\ Heap(made.heap) /\ DOMAIN made.heap = DOMAIN heap
              /\ refs \in Seq(DOMAIN made.heap) /\ merged \in Seq(DOMAIN made.heap)
              /\ Whole(Msgs(made.heap, refs))
              /\ MergedRefs(made.heap, refs) = merged
              /\ Fitting(Msgs(made.heap, merged))
              /\ Legal(made.heap, made.view)
              /\ ShowsDue(Msgs(made.heap, merged), made.view)
<1> DEFINE merged == MergedRefs(heap, refs)
           ms == Msgs(heap, merged)
           view == RepairMessages(Unrepaired(ms, over))
           other == MergedInPlace(heap, view)
<1>1. Assemble(heap, merged, over) = [view |-> view, heap |-> other]
  BY DEF Assemble, Msgs
<1>2. merged \in Seq(DOMAIN heap) /\ Whole(ms)
  BY MergedRefsFacts
<1>3. Fitting(ms)
  OBVIOUS
<1> HIDE DEF merged
<1>4. Objects(heap, ms)
  BY <1>2, MsgsFacts
<1> HIDE DEF ms
<1>5. Legal(heap, view) /\ ShowsDue(ms, view)
  BY <1>3, <1>4, AssembleLegal
<1>6. view \in Seq(Known(heap))
  BY <1>5 DEF Legal, Sound
<1> HIDE DEF view
<1>7. Same(heap, other) /\ Heap(other) /\ Known(other) = Known(heap)
  BY <1>6, InPlace
<1> HIDE DEF other
<1>8. Legal(other, view)
  BY <1>5, <1>7 DEF Legal, Sound
<1>9. /\ refs \in Seq(DOMAIN other) /\ Whole(Msgs(other, refs))
      /\ MergedRefs(other, refs) = merged /\ Fitting(Msgs(other, merged))
  <2>1. /\ refs \in Seq(DOMAIN other) /\ Whole(Msgs(other, refs))
        /\ MergedRefs(other, refs) = MergedRefs(heap, refs)
        /\ Fitting(Msgs(heap, MergedRefs(heap, refs))) =>
             Fitting(Msgs(other, MergedRefs(other, refs)))
    BY <1>7, SameThread
  <2> QED
    BY <2>1 DEF merged
<1>10. merged \in Seq(DOMAIN other) /\ ShowsDue(Msgs(other, merged), view)
  <2>1. Whole(Msgs(heap, merged)) /\ ShowsDue(Msgs(heap, merged), view)
    BY <1>2, <1>5 DEF ms
  <2> QED
    BY <1>2, <1>7, <2>1, SameThread
<1>11. DOMAIN other = DOMAIN heap
  BY <1>7 DEF Same
<1> QED
  BY <1>1, <1>7, <1>8, <1>9, <1>10, <1>11 DEF merged

LEMMA PrepareStep ==
    ASSUME ViewInv, Prepare
    PROVE  ViewInv'
<1> DEFINE repaired == RepairMessages(Conversation)
           heap == MergedInPlace(object, repaired)
           merged == MergedLog
<1>1. /\ Heap(object) /\ log \in Seq(DOMAIN object) /\ Whole(Msgs(object, log))
      /\ Fitting(Msgs(object, merged)) /\ conv \in Seq(DOMAIN object)
      /\ awaiting \subseteq DOMAIN object /\ conv \in {log, merged}
  BY DEF ViewInv, ThreadInv, RunInv, Prepare
<1>2. merged = MergedRefs(object, log)
  BY DEF MergedLog
<1>3. /\ merged \in Seq(DOMAIN object) /\ Whole(Msgs(object, merged))
      /\ NoNeighbours(Msgs(object, merged))
  BY <1>1, <1>2, MergedRefsFacts
<1>4. Whole(Msgs(object, conv)) /\ MergedRefs(object, conv) = merged
  <2>1. MergedRefs(object, merged) = merged
    BY <1>1, <1>3, MergedTwice
  <2> QED
    BY <1>1, <1>2, <1>3, <2>1
<1>5. repaired \in Seq(Known(object)) /\ Refs(repaired) = merged
  <2>1. Conversation = Msgs(object, conv)
    BY DEF Conversation, Messages, Msgs
  <2> QED
    BY <1>1, <1>4, <2>1, MergedRefsFacts
<1> HIDE DEF repaired
<1>6. Same(object, heap) /\ Heap(heap)
  BY <1>1, <1>5, InPlace
<1>7. PICK over \in BOOLEAN :
        LET made == Assemble(heap, Refs(repaired), over)
        IN conv' = Refs(repaired) /\ object' = made.heap /\ prompt' = made.view
  BY DEF Prepare, repaired
<1> HIDE DEF heap
<1>8. /\ log \in Seq(DOMAIN heap) /\ Whole(Msgs(heap, log)) /\ MergedRefs(heap, log) = merged
      /\ Fitting(Msgs(heap, MergedRefs(heap, log)))
  BY <1>1, <1>2, <1>6, SameThread
<1> DEFINE made == Assemble(heap, merged, over)
<1>9. conv' = merged /\ object' = made.heap /\ prompt' = made.view
  BY <1>5, <1>7
<1>10. /\ Heap(made.heap) /\ DOMAIN made.heap = DOMAIN heap
       /\ log \in Seq(DOMAIN made.heap) /\ merged \in Seq(DOMAIN made.heap)
       /\ Whole(Msgs(made.heap, log))
       /\ MergedRefs(made.heap, log) = merged
       /\ Fitting(Msgs(made.heap, merged))
       /\ Legal(made.heap, made.view)
       /\ ShowsDue(Msgs(made.heap, merged), made.view)
  BY <1>6, <1>8, AssembleStep
<1> HIDE DEF made, merged
<1>11. /\ log' = log /\ awaiting' = awaiting /\ nudge' = nudge /\ users' = users
       /\ compacted' = 0 /\ phase' = "check"
  BY DEF Prepare
<1>12. MergedLog' = merged
  BY <1>9, <1>10, <1>11 DEF MergedLog
<1>13. ThreadInv'
  <2>1. awaiting' \subseteq DOMAIN object'
    BY <1>1, <1>6, <1>9, <1>10, <1>11 DEF Same
  <2> QED
    BY <1>9, <1>10, <1>11, <1>12, <2>1 DEF ThreadInv
<1>14. RunInv'
  <2>1. Legal(object', prompt') /\ ShowsDue(Msgs(object', conv'), prompt')
    BY <1>9, <1>10
  <2>2. prompt' \in Seq(Known(object'))
    BY <2>1 DEF Legal, Sound
  <2>3. phase' # "top" /\ conv' = MergedLog'
    BY <1>9, <1>11, <1>12
  <2> QED
    BY <2>1, <2>2, <2>3 DEF RunInv
<1>15. CounterInv'
  BY <1>11, ContextAssumption DEF ViewInv, CounterInv
<1> QED
  BY <1>13, <1>14, <1>15 DEF ViewInv

LEMMA CompactStep ==
    ASSUME ViewInv, Compact
    PROVE  ViewInv'
<1> DEFINE a == Len(object) + 1
<1>1. /\ Heap(object) /\ log \in Seq(DOMAIN object) /\ Whole(Msgs(object, log))
      /\ Fitting(Msgs(object, MergedLog)) /\ conv = MergedLog
      /\ awaiting \subseteq DOMAIN object
  BY DEF ViewInv, ThreadInv, RunInv, Compact
<1>2. Len(object) \in Nat
  BY <1>1, LenProperties DEF Heap
<1>3. PICK recent \in RecentSteps(Conversation), over \in BOOLEAN :
        LET pair == <<Message("assistant", a, {}, <<ToolCall(a + 1, Compaction, recent)>>,
                              0, NoTool, "text"),
                      ToolMessage(a + 1, a + 1, Compaction, "summary")>>
            made == Assemble(object \o pair, conv \o Refs(pair), over)
        IN /\ conv' = conv \o Refs(pair)
           /\ log' = log \o Refs(pair)
           /\ object' = made.heap
           /\ prompt' = made.view
  BY DEF Compact
<1> DEFINE c == ToolCall(a + 1, Compaction, recent)
           m1 == Message("assistant", a, {}, <<c>>, 0, NoTool, "text")
           m2 == ToolMessage(a + 1, a + 1, Compaction, "summary")
           pair == <<m1, m2>>
           heap == object \o pair
           made == Assemble(heap, conv \o Refs(pair), over)
<1>4. /\ conv' = conv \o Refs(pair) /\ log' = log \o Refs(pair)
      /\ object' = made.heap /\ prompt' = made.view
  BY <1>3
<1>5. recent \in RecentSteps(Msgs(object, MergedLog)) /\ recent \in Int
  <2>1. Conversation = Msgs(object, MergedLog)
    BY <1>1 DEF Conversation, Messages, Msgs
  <2> QED
    BY <2>1, <1>3 DEF RecentSteps, MayRemain
<1>6. c \in CallSet /\ c.id = Len(object) + 2 /\ c.tool = Compaction /\ c.arg = recent
  BY <1>2, <1>5 DEF ToolCall, CallSet
<1> HIDE DEF c
<1>7. <<c>> \in Seq(CallSet) /\ DOMAIN <<c>> = {1} /\ <<c>>[1] = c /\ <<>> \in Seq(CallSet)
      /\ DOMAIN <<>> = {}
  BY <1>6
<1>8. /\ m1 \in MessageSet /\ m1.role = "assistant" /\ m1.ref = Len(object) + 1
      /\ m1.calls = <<c>> /\ m1.body = "text" /\ m1.tool = NoTool
  <2> DEFINE cs == <<c>>
  <2>1. cs \in Seq(CallSet)
    BY <1>7
  <2> HIDE DEF cs
  <2> QED
    BY <1>2, <2>1 DEF Message, MessageSet, ToolName, cs
<1>9. /\ m2 \in MessageSet /\ m2.role = "tool" /\ m2.ref = Len(object) + 2
      /\ m2.id = Len(object) + 2 /\ m2.tool = Compaction
      /\ m2.calls = <<>> /\ m2.body = "summary"
  BY <1>2, <1>7 DEF ToolMessage, Message, MessageSet, ToolName
<1> HIDE DEF m1, m2
<1>10. /\ pair \in Seq(MessageSet) /\ DOMAIN pair = {1, 2} /\ pair[1] = m1 /\ pair[2] = m2
       /\ Len(pair) = 2
  BY <1>8, <1>9
<1> HIDE DEF pair
<1>11. Made(object, pair)
  <2>1. /\ \A l \in DOMAIN m1.calls : m1.calls[l] = c
        /\ DOMAIN m2.calls = {}
    BY <1>7, <1>8, <1>9
  <2>2. c.id = Len(object) + 2 /\ 2 \in DOMAIN pair /\ pair[2].tool = c.tool
    BY <1>6, <1>9, <1>10
  <2>3. \A k \in DOMAIN pair :
             /\ pair[k].ref = Len(object) + k
             /\ pair[k].role # "system"
             /\ pair[k].body \in {"text", "result", "pending", "summary"}
             /\ \A l \in DOMAIN pair[k].calls : pair[k].calls[l].id > 0 =>
                  \E q \in DOMAIN pair : pair[k].calls[l].id = Len(object) + q
                                         /\ pair[q].tool = pair[k].calls[l].tool
             /\ pair[k].role = "tool" => pair[k].id = Len(object) + k
             /\ pair[k].role # "assistant" => pair[k].calls = <<>>
    <3>1. /\ pair[1].ref = Len(object) + 1 /\ pair[1].role = "assistant"
          /\ pair[1].body = "text"
          /\ \A l \in DOMAIN pair[1].calls :
               \E q \in DOMAIN pair : pair[1].calls[l].id = Len(object) + q
                                      /\ pair[q].tool = pair[1].calls[l].tool
      BY <1>8, <1>10, <2>1, <2>2
    <3>2. /\ pair[2].ref = Len(object) + 2 /\ pair[2].role = "tool"
          /\ pair[2].body = "summary" /\ pair[2].id = Len(object) + 2
          /\ pair[2].calls = <<>> /\ DOMAIN pair[2].calls = {}
      BY <1>9, <1>10, <2>1
    <3> QED
      BY <1>10, <3>1, <3>2
  <2>4. \A k \in DOMAIN pair :
             /\ Calls(pair[k], Compaction) =>
                  \A l \in DOMAIN pair[k].calls : pair[k].calls[l].tool = Compaction
             /\ pair[k].body = "pending" =>
                  pair[k].role = "tool" /\ pair[k].tool \notin {"plan", Compaction}
             /\ pair[k].body = "summary" => pair[k].role = "tool" /\ pair[k].tool = Compaction
    BY <1>6, <1>8, <1>9, <1>10, <2>1
  <2> QED
    BY <1>1, <1>10, <2>3, <2>4, MadeList
<1>12. Whole(pair)
  <2>1. Answers(pair, 1, 2)
    <3>1. m2.id \in CallIds(m1)
      BY <1>6, <1>7, <1>8, <1>9 DEF CallIds
    <3> QED
      BY <1>8, <1>9, <1>10, <3>1 DEF Answers, Belongs, IsStep
  <2>2. CallIds(m2) = {} /\ CallIds(m1) = {m2.id}
    BY <1>6, <1>7, <1>8, <1>9 DEF CallIds
  <2>3. Paired(pair)
    BY <1>8, <1>10, <2>1 DEF Paired
  <2>4. Complete(pair)
    BY <1>10, <2>1, <2>2 DEF Complete
  <2> QED
    BY <2>3, <2>4 DEF Whole
<1>13. /\ \A k \in DOMAIN pair : ~IsUser(pair[k])
       /\ \A p \in CompactionCalls(pair) :
            p = 1 /\ pair[p].calls[1].arg \in RecentSteps(Msgs(object, MergedLog))
  <2>1. pair[1].calls[1].arg = recent
    BY <1>6, <1>7, <1>8, <1>10
  <2>2. \A p \in CompactionCalls(pair) : p = 1
    BY <1>9, <1>10 DEF CompactionCalls, IsCompactionCall
  <2> QED
    BY <1>5, <1>8, <1>9, <1>10, <2>1, <2>2 DEF IsUser
<1>14. Heap(heap) /\ DOMAIN object \subseteq DOMAIN heap
  BY <1>1, <1>11, HeapGrows
<1>15. /\ log' \in Seq(DOMAIN heap) /\ Whole(Msgs(heap, log'))
       /\ Fitting(Msgs(heap, MergedRefs(heap, log')))
       /\ MergedRefs(heap, log') = conv'
  <2>1. /\ log \o Refs(pair) \in Seq(DOMAIN heap)
        /\ Whole(Msgs(heap, log \o Refs(pair)))
        /\ Fitting(Msgs(heap, MergedRefs(heap, log \o Refs(pair))))
        /\ MergedRefs(heap, log \o Refs(pair)) = MergedRefs(object, log) \o Refs(pair)
    BY <1>1, <1>11, <1>12, <1>13, LogGrows DEF MergedLog
  <2> QED
    BY <1>1, <1>4, <2>1 DEF MergedLog
<1>16. made = Assemble(heap, MergedRefs(heap, log'), over)
  BY <1>4, <1>15
<1> HIDE DEF heap, made
<1>17. /\ Heap(made.heap) /\ DOMAIN made.heap = DOMAIN heap
       /\ log' \in Seq(DOMAIN made.heap) /\ conv' \in Seq(DOMAIN made.heap)
       /\ Whole(Msgs(made.heap, log'))
       /\ MergedRefs(made.heap, log') = conv'
       /\ Fitting(Msgs(made.heap, conv'))
       /\ Legal(made.heap, made.view)
       /\ ShowsDue(Msgs(made.heap, conv'), made.view)
  BY <1>14, <1>15, <1>16, AssembleStep
<1>18. /\ awaiting' = awaiting /\ nudge' = nudge /\ users' = users /\ phase' = phase
       /\ compacted' = compacted + 1 /\ phase = "check" /\ compacted <= ThrashLimit
  BY DEF Compact
<1>19. MergedLog' = conv'
  BY <1>4, <1>17 DEF MergedLog
<1>20. ThreadInv'
  <2>1. awaiting' \subseteq DOMAIN object'
    BY <1>1, <1>4, <1>14, <1>17, <1>18
  <2> QED
    BY <1>4, <1>17, <1>19, <2>1 DEF ThreadInv
<1>21. RunInv'
  <2>1. Legal(object', prompt') /\ ShowsDue(Msgs(object', conv'), prompt')
    BY <1>4, <1>17
  <2>2. prompt' \in Seq(Known(object'))
    BY <2>1 DEF Legal, Sound
  <2>3. phase' # "top"
    BY <1>18
  <2> QED
    BY <1>19, <2>1, <2>2, <2>3 DEF RunInv
<1>22. CounterInv'
  <2>1. compacted + 1 \in 0..(ThrashLimit + 1)
    BY <1>18, ContextAssumption DEF ViewInv, CounterInv
  <2> QED
    BY <1>18, <2>1 DEF ViewInv, CounterInv
<1> QED
  BY <1>20, <1>21, <1>22 DEF ViewInv

\* Whatever is due is the result of a call that is not a plan's.
LEMMA DueTool ==
    ASSUME NEW heap, NEW ms \in Seq(Known(heap)), NEW i \in DOMAIN ms, Due(ms, i)
    PROVE  ms[i].role = "tool" /\ ms[i].tool # "plan"
<1>1. ms[i] \in Known(heap)
  OBVIOUS
<1> QED
  BY <1>1 DEF Due, IsOrdinaryToolResult, Known, Fits

\* A nudge at the end of a prompt.
LEMMA NudgeLegal ==
    ASSUME NEW heap, NEW ms, Legal(heap, ms), NEW m \in Known(heap),
           m.role # "tool", m.calls = <<>>, m.body # "summary"
    PROVE  Legal(heap, RepairMessages(Append(ms, m))) /\ Kept(ms, RepairMessages(Append(ms, m)))
<1> DEFINE all == ms \o <<m>>
           K == Known(heap)
<1>1. /\ Sound(heap, ms) /\ ms \in Seq(K) /\ ms # <<>> /\ ms[1].role = "system"
  BY DEF Legal, Sound
<1>2. <<m>> \in Seq(K) /\ DOMAIN <<m>> = {1} /\ <<m>>[1] = m
  OBVIOUS
<1>3. Append(ms, m) = all
  BY <1>1, AppendIsConcat
<1>4. Sound(heap, all)
  BY <1>1, <1>2, SingleSound, ConcatSound DEF Plain
<1>5. all # <<>> /\ all[1] = ms[1]
  <2>1. 1 \in DOMAIN ms
    BY <1>1, EmptySeq, LenProperties
  <2>2. 1 \in DOMAIN all /\ all[1] = ms[1]
    BY <1>1, <1>2, <2>1, ConcatPlaces
  <2> QED
    BY <2>2
<1>6. Kept(ms, all)
  <2>1. Kept(ms, ms)
    BY DEF Kept, Shows
  <2> QED
    BY <1>1, <1>2, <2>1, KeptConcat
<1> HIDE DEF all
<1>7. Legal(heap, RepairMessages(all)) /\ Kept(all, RepairMessages(all))
  BY <1>1, <1>4, <1>5, RepairLegal
<1> QED
  BY <1>3, <1>6, <1>7, KeptOn

LEMMA SendStep ==
    ASSUME ViewInv, Send
    PROVE  ViewInv'
<1> DEFINE m == UserMessage(NoRef, {Nudge})
           nudged == RepairMessages(Append(prompt, m))
           ms == Msgs(object, conv)
<1>1. /\ Heap(object) /\ log \in Seq(DOMAIN object) /\ Whole(Msgs(object, log))
      /\ Fitting(Msgs(object, MergedRefs(object, log))) /\ conv \in Seq(DOMAIN object)
      /\ awaiting \subseteq DOMAIN object /\ conv = MergedRefs(object, log)
      /\ Legal(object, prompt) /\ ShowsDue(ms, prompt) /\ nudge \in BOOLEAN
  BY DEF ViewInv, ThreadInv, RunInv, CounterInv, MergedLog, Send
<1>2. /\ log' = log /\ conv' = conv /\ awaiting' = awaiting /\ nudge' = nudge /\ users' = users
      /\ compacted' = 0 /\ phase' = "turn"
      /\ prompt' = (IF nudge THEN nudged ELSE prompt)
      /\ object' = (IF nudge THEN MergedInPlace(object, nudged) ELSE object)
  BY DEF Send
<1>3. Whole(ms) /\ ms \in Seq(Known(object))
  <2>1. Whole(ms)
    BY <1>1, MergedRefsFacts
  <2> QED
    BY <1>1, <2>1, MsgsFacts
<1>4. m \in Known(object) /\ m.role # "tool" /\ m.calls = <<>> /\ m.body # "summary"
  BY MadeMessages DEF UserMessage, Message
<1> HIDE DEF m
<1>5. Legal(object, nudged) /\ Kept(prompt, nudged)
  BY <1>1, <1>4, NudgeLegal
<1> HIDE DEF nudged
<1>6. ShowsDue(ms, nudged)
  <2> SUFFICES ASSUME NEW i \in DOMAIN ms, Due(ms, i)
               PROVE  \E k \in DOMAIN nudged : Shows(ms[i], nudged[k])
    BY DEF ShowsDue
  <2>1. ms[i].role = "tool" /\ ms[i].tool # "plan"
    <3> HIDE DEF ms
    <3> QED
      BY <1>3, DueTool
  <2>2. PICK k \in DOMAIN prompt : Shows(ms[i], prompt[k])
    BY <1>1 DEF ShowsDue
  <2>3. PICK l \in DOMAIN nudged : Shows(prompt[k], nudged[l])
    BY <1>5, <2>1, <2>2 DEF Kept, Shows
  <2> QED
    BY <2>2, <2>3 DEF Shows
<1>7. /\ Same(object, object') /\ Heap(object')
      /\ Legal(object, prompt') /\ ShowsDue(ms, prompt')
  <2>1. CASE nudge
    <3>1. nudged \in Seq(Known(object))
      BY <1>5 DEF Legal, Sound
    <3>2. Same(object, MergedInPlace(object, nudged)) /\ Heap(MergedInPlace(object, nudged))
      BY <1>1, <3>1, InPlace
    <3> QED
      BY <1>2, <1>5, <1>6, <2>1, <3>2
  <2>2. CASE ~nudge
    BY <1>1, <1>2, <2>2 DEF Same, Alike
  <2> QED
    BY <2>1, <2>2
<1>8. /\ log \in Seq(DOMAIN object') /\ Whole(Msgs(object', log))
      /\ MergedRefs(object', log) = conv /\ Fitting(Msgs(object', conv))
  BY <1>1, <1>7, SameThread
<1>9. conv \in Seq(DOMAIN object') /\ ShowsDue(Msgs(object', conv), prompt')
  BY <1>1, <1>3, <1>7, SameThread
<1>10. ThreadInv'
  <2>1. awaiting \subseteq DOMAIN object'
    BY <1>1, <1>7 DEF Same
  <2> QED
    BY <1>2, <1>7, <1>8, <1>9, <2>1 DEF ThreadInv, MergedLog
<1>11. RunInv'
  <2>1. Known(object') = Known(object)
    BY <1>7, SameKnown
  <2>2. Legal(object', prompt') /\ prompt' \in Seq(Known(object'))
    BY <1>7, <2>1 DEF Legal, Sound
  <2> QED
    BY <1>2, <1>8, <1>9, <2>2 DEF RunInv, MergedLog
<1>12. CounterInv'
  BY <1>2, ContextAssumption DEF ViewInv, CounterInv
<1> QED
  BY <1>10, <1>11, <1>12 DEF ViewInv

\* A call of tools and the results behind it.
BatchOf(heap, tools, items, text, held) ==
    LET a == Len(heap) + 1
        calls == [k \in DOMAIN tools |-> ToolCall(a + k, tools[k], items)]
    IN <<Message("assistant", a, text, calls, 0, NoTool, "text")>>
       \o [k \in DOMAIN tools |->
             ToolMessage(a + k, a + k, tools[k], IF k \in held THEN "pending" ELSE "result")]

LEMMA BatchMade ==
    ASSUME NEW heap, Heap(heap), NEW tools \in Batch, NEW items \in {0, 1},
           NEW text \in SUBSET Int, NEW held \in SUBSET (DOMAIN tools),
           \A k \in held : tools[k] = "execute_proposal"
    PROVE  LET batch == BatchOf(heap, tools, items, text, held)
           IN /\ Made(heap, batch) /\ Whole(batch) /\ CompactionCalls(batch) = {}
              /\ \A k \in DOMAIN batch : ~IsUser(batch[k])
              /\ \A k \in held : Len(heap) + 1 + k \in DOMAIN (heap \o batch)
<1> DEFINE a == Len(heap) + 1
           n == Len(tools)
           calls == [k \in DOMAIN tools |-> ToolCall(a + k, tools[k], items)]
           m == Message("assistant", a, text, calls, 0, NoTool, "text")
           Body(k) == IF k \in held THEN "pending" ELSE "result"
           results == [k \in DOMAIN tools |-> ToolMessage(a + k, a + k, tools[k], Body(k))]
           head == <<m>>
           batch == head \o results
<1>1. /\ tools \in Seq(Tool) /\ n \in Nat /\ DOMAIN tools = 1..n
      /\ \A k \in 1..n : tools[k] \in Tool
      /\ Compaction \notin Tool
  <2>1. tools \in Seq(Tool) /\ Compaction \notin Tool
    BY ContextAssumption
  <2> QED
    BY <2>1, LenProperties
<1>2. Len(heap) \in Nat /\ a \in Nat /\ a = Len(heap) + 1
  BY LenProperties DEF Heap
<1> HIDE DEF a
<1>3. /\ calls \in Seq(CallSet) /\ DOMAIN calls = 1..n
      /\ \A k \in 1..n : calls[k].id = a + k /\ calls[k].tool = tools[k]
  <2>1. \A k \in 1..n : ToolCall(a + k, tools[k], items) \in CallSet
    BY <1>1, <1>2 DEF ToolCall, CallSet
  <2>2. calls = [k \in 1..n |-> ToolCall(a + k, tools[k], items)]
    BY <1>1
  <2>3. \A k \in 1..n : calls[k].id = a + k /\ calls[k].tool = tools[k]
    BY <2>2 DEF ToolCall
  <2> QED
    BY <1>1, <2>1, <2>2, <2>3
<1> HIDE DEF calls
<1>4. /\ m \in MessageSet /\ m.role = "assistant" /\ m.ref = a /\ m.calls = calls
      /\ m.body = "text"
  BY <1>2, <1>3 DEF Message, MessageSet, ToolName
<1> HIDE DEF m
<1>5. /\ results \in Seq(MessageSet) /\ Len(results) = n /\ DOMAIN results = 1..n
      /\ \A k \in 1..n :
           /\ results[k].role = "tool" /\ results[k].ref = a + k /\ results[k].id = a + k
           /\ results[k].tool = tools[k] /\ results[k].calls = <<>>
           /\ results[k].body \in {"pending", "result"}
           /\ results[k].body = "pending" => k \in held
  <2>1. ASSUME NEW k \in 1..n
        PROVE  ToolMessage(a + k, a + k, tools[k], Body(k)) \in MessageSet
    <3>1. <<>> \in Seq(CallSet) /\ Body(k) \in {"pending", "result"}
      BY EmptySeq
    <3> HIDE DEF Body
    <3> QED
      BY <1>1, <1>2, <3>1 DEF ToolMessage, Message, MessageSet, ToolName
  <2>2. results = [k \in 1..n |-> ToolMessage(a + k, a + k, tools[k], Body(k))]
    BY <1>1
  <2>3. ASSUME NEW k \in 1..n
        PROVE  /\ results[k].role = "tool" /\ results[k].ref = a + k /\ results[k].id = a + k
               /\ results[k].tool = tools[k] /\ results[k].calls = <<>>
               /\ results[k].body \in {"pending", "result"}
               /\ results[k].body = "pending" => k \in held
    BY <2>2 DEF ToolMessage, Message
  <2> HIDE DEF Body, results
  <2> QED
    BY <1>1, <2>1, <2>2, <2>3
<1> HIDE DEF results
<1>6. head \in Seq(MessageSet) /\ DOMAIN head = {1} /\ head[1] = m /\ Len(head) = 1
  BY <1>4
<1> HIDE DEF head
<1>7. /\ batch \in Seq(MessageSet) /\ DOMAIN batch = 1..(1 + n) /\ batch[1] = m
      /\ \A k \in 1..n : 1 + k \in DOMAIN batch /\ batch[1 + k] = results[k]
      /\ \A q \in DOMAIN batch : q = 1 \/ \E k \in 1..n : q = 1 + k
  <2>1. /\ batch \in Seq(MessageSet) /\ DOMAIN batch = 1..(Len(head) + Len(results))
        /\ \A i \in DOMAIN head : i \in DOMAIN batch /\ batch[i] = head[i]
        /\ \A i \in DOMAIN results :
             Len(head) + i \in DOMAIN batch /\ batch[Len(head) + i] = results[i]
        /\ \A i \in DOMAIN batch :
             i \in DOMAIN head \/ \E k \in DOMAIN results : i = Len(head) + k
    <3>1. head \in Seq(MessageSet) /\ results \in Seq(MessageSet)
      BY <1>5, <1>6
    <3> QED
      BY <3>1, ConcatPlaces
  <2> HIDE DEF batch
  <2> QED
    BY <1>5, <1>6, <2>1
<1> HIDE DEF batch
<1>8. ASSUME NEW q \in DOMAIN batch
      PROVE  /\ batch[q].ref = Len(heap) + q
             /\ batch[q].role \in {"assistant", "tool"}
             /\ batch[q].body \in {"text", "result", "pending"}
             /\ \A l \in DOMAIN batch[q].calls :
                  /\ batch[q].calls[l].tool # Compaction
                  /\ \E k \in DOMAIN batch : batch[q].calls[l].id = Len(heap) + k
                                             /\ batch[k].tool = batch[q].calls[l].tool
             /\ batch[q].role = "tool" => batch[q].id = Len(heap) + q
             /\ batch[q].role # "assistant" => batch[q].calls = <<>>
             /\ batch[q].body = "pending" =>
                  batch[q].role = "tool" /\ batch[q].tool \notin {"plan", Compaction}
  <2>1. CASE q = 1
    <3>1. batch[q] = m
      BY <1>7, <2>1
    <3>2. ASSUME NEW l \in DOMAIN m.calls
          PROVE  /\ m.calls[l].tool # Compaction
                 /\ \E k \in DOMAIN batch : m.calls[l].id = Len(heap) + k
                                            /\ batch[k].tool = m.calls[l].tool
      <4>1. l \in 1..n /\ m.calls[l].id = a + l /\ m.calls[l].tool = tools[l]
        BY <1>3, <1>4
      <4>2. 1 + l \in DOMAIN batch /\ batch[1 + l].tool = tools[l]
        BY <1>5, <1>7, <4>1
      <4>3. a + l = Len(heap) + (1 + l)
        BY <1>1, <1>2, <4>1
      <4>4. tools[l] \in Tool
        BY <1>1, <4>1
      <4> QED
        BY <1>1, <4>1, <4>2, <4>3, <4>4
    <3> QED
      BY <1>2, <1>4, <2>1, <3>1, <3>2
  <2>2. ASSUME NEW k \in 1..n, q = 1 + k
        PROVE  /\ batch[q].ref = Len(heap) + q /\ batch[q].role = "tool"
               /\ batch[q].body \in {"result", "pending"} /\ batch[q].calls = <<>>
               /\ batch[q].id = Len(heap) + q
               /\ batch[q].body = "pending" => batch[q].tool \notin {"plan", Compaction}
    <3>1. batch[q] = results[k]
      BY <1>7, <2>2
    <3>2. a + k = Len(heap) + q
      BY <1>1, <1>2, <2>2
    <3>3. "execute_proposal" \notin {"plan", Compaction}
      BY DEF Compaction
    <3> QED
      BY <1>5, <3>1, <3>2, <3>3
  <2>3. DOMAIN <<>> = {}
    OBVIOUS
  <2> QED
    BY <1>7, <2>1, <2>2, <2>3
<1>9. Made(heap, batch)
  <2>1. \A q \in DOMAIN batch : ~Calls(batch[q], Compaction)
    BY <1>8 DEF Calls
  <2>2. \A q \in DOMAIN batch :
          batch[q].body \in {"text", "result", "pending", "summary"}
          /\ batch[q].body # "summary" /\ batch[q].role # "system"
    BY <1>8
  <2> QED
    BY <1>7, <1>8, <2>1, <2>2, MadeList
<1>10. \A k \in DOMAIN batch : ~IsUser(batch[k])
  BY <1>8 DEF IsUser
<1>11. CompactionCalls(batch) = {}
  BY <1>8 DEF CompactionCalls, IsCompactionCall, Calls
<1>12. ASSUME NEW k \in 1..n
       PROVE  1 \in DOMAIN batch /\ Answers(batch, 1, 1 + k) /\ batch[1 + k].id = a + k
  <2>1. 1 + k \in DOMAIN batch /\ batch[1 + k].role = "tool" /\ batch[1 + k].id = a + k
    BY <1>5, <1>7
  <2>2. a + k \in CallIds(batch[1])
    BY <1>3, <1>4, <1>7 DEF CallIds
  <2>3. \A q \in 2..k : ~IsStep(batch[q])
    <3> SUFFICES ASSUME NEW q \in 2..k PROVE ~IsStep(batch[q])
      OBVIOUS
    <3>1. q - 1 \in 1..n /\ q = 1 + (q - 1)
      BY <1>1
    <3>2. batch[q] = results[q - 1]
      BY <1>7, <3>1
    <3> QED
      BY <1>5, <3>1, <3>2 DEF IsStep
  <2>4. Belongs(batch, 1, 1 + k)
    <3>1. 1 \in 1..((1 + k) - 1) /\ (1 + 1)..((1 + k) - 1) = 2..k
      BY <1>1
    <3>2. IsStep(batch[1])
      BY <1>4, <1>7 DEF IsStep
    <3> QED
      BY <2>3, <3>1, <3>2 DEF Belongs
  <2> QED
    BY <1>1, <1>7, <2>1, <2>2, <2>4 DEF Answers
<1>13. Paired(batch)
  <2> SUFFICES ASSUME NEW i \in DOMAIN batch, batch[i].role = "tool"
               PROVE  \E j \in DOMAIN batch : Answers(batch, j, i)
    BY DEF Paired
  <2>1. PICK k \in 1..n : i = 1 + k
    BY <1>4, <1>7
  <2> QED
    BY <1>12, <2>1
<1>14. Complete(batch)
  <2> SUFFICES ASSUME NEW j \in DOMAIN batch, NEW id \in CallIds(batch[j])
               PROVE  \E i \in DOMAIN batch : Answers(batch, j, i) /\ batch[i].id = id
    BY DEF Complete
  <2>1. PICK k \in DOMAIN batch[j].calls : batch[j].calls[k].id = id
    BY DEF CallIds
  <2>2. j = 1
    <3>1. ASSUME NEW q \in 1..n, j = 1 + q PROVE batch[j].calls = <<>>
      BY <1>5, <1>7, <3>1
    <3>2. DOMAIN <<>> = {}
      OBVIOUS
    <3> QED
      BY <1>7, <2>1, <3>1, <3>2
  <2>3. k \in 1..n /\ id = a + k
    BY <1>3, <1>4, <1>7, <2>1, <2>2
  <2> QED
    BY <1>12, <2>2, <2>3 DEF Answers
<1>15. ASSUME NEW k \in held PROVE a + k \in DOMAIN (heap \o batch)
  <2>1. k \in 1..n /\ 1 + k \in DOMAIN batch
    BY <1>1, <1>7
  <2>2. heap \in Seq(MessageSet)
    <3>1. heap \in Seq(Known(heap)) /\ Known(heap) \subseteq MessageSet
      BY DEF Heap, Known
    <3> QED
      BY <3>1, SeqMonotonic
  <2>3. Len(heap) + (1 + k) \in DOMAIN (heap \o batch)
    BY <1>7, <2>1, <2>2, ConcatPlaces
  <2>4. a + k = Len(heap) + (1 + k)
    BY <1>1, <1>2, <2>1
  <2> QED
    BY <2>3, <2>4
<1> QED
  BY <1>9, <1>10, <1>11, <1>13, <1>14, <1>15
     DEF Whole, BatchOf, batch, head, results, m, calls, a

LEMMA CallToolsStep ==
    ASSUME ViewInv, NEW tools \in Batch, NEW spoken \in BOOLEAN, NEW items \in {0, 1},
           CallTools(tools, spoken, items)
    PROVE  ViewInv'
<1> DEFINE a == Len(object) + 1
           held == {k \in DOMAIN tools : tools[k] = "execute_proposal"}
           text == IF spoken THEN {a} ELSE {}
           batch == BatchOf(object, tools, items, text, held)
<1>1. Heap(object) /\ Len(object) \in Nat /\ conv \in Seq(DOMAIN object)
  BY LenProperties DEF ViewInv, ThreadInv, Heap
<1>2. text \in SUBSET Int /\ held \in SUBSET (DOMAIN tools)
      /\ \A k \in held : tools[k] = "execute_proposal"
  BY <1>1
<1>3. /\ phase = "turn" /\ Commit(batch) /\ users' = users
      /\ held # {} => EndRun /\ awaiting' = {a + k : k \in held}
      /\ held = {} => /\ conv' = conv \o Refs(batch) /\ prompt' = <<>> /\ phase' = "top"
                      /\ nudge' = (\A k \in DOMAIN tools : tools[k] = "plan")
                      /\ awaiting' = awaiting /\ compacted' = compacted
  BY DEF CallTools, BatchOf
<1> HIDE DEF text, held
<1>4. /\ Made(object, batch) /\ Whole(batch) /\ CompactionCalls(batch) = {}
      /\ \A k \in DOMAIN batch : ~IsUser(batch[k])
      /\ \A k \in held : Len(object) + 1 + k \in DOMAIN (object \o batch)
  BY <1>1, <1>2, BatchMade
<1> HIDE DEF batch, a
<1>5. object' = object \o batch /\ log' = log \o Refs(batch)
  BY <1>3 DEF Commit
<1>6. DOMAIN object \subseteq DOMAIN object'
  BY <1>1, <1>4, <1>5, HeapGrows
<1>7. CASE held # {}
  <2>1. RunInv' /\ nudge' \in BOOLEAN /\ compacted' \in 0..(ThrashLimit + 1)
        /\ conv' = <<>> /\ phase' = "idle"
    <3>1. phase' = "idle"
      BY <1>3, <1>7 DEF EndRun
    <3> QED
      BY <1>3, <1>7, <3>1, EndRunStep
  <2>2. awaiting' \subseteq DOMAIN object'
    BY <1>3, <1>4, <1>5, <1>7 DEF a
  <2>3. ThreadInv'
    BY <1>4, <1>5, <2>1, <2>2, ThreadGrows DEF ViewInv
  <2>4. CounterInv'
    BY <1>3, <2>1 DEF ViewInv, CounterInv
  <2> QED
    BY <2>1, <2>3, <2>4 DEF ViewInv
<1>8. CASE held = {}
  <2>1. awaiting' \subseteq DOMAIN object'
    BY <1>3, <1>6, <1>8 DEF ViewInv, ThreadInv
  <2>2. conv' = conv \o Refs(batch)
    BY <1>3, <1>8
  <2>3. ThreadInv' /\ MergedLog' = MergedLog \o Refs(batch)
    BY <1>4, <1>5, <2>1, <2>2, ThreadGrows DEF ViewInv
  <2>4. RunInv'
    <3>1. conv = MergedLog
      BY <1>3 DEF ViewInv, RunInv
    <3>2. prompt' = <<>> /\ phase' = "top" /\ conv' = MergedLog'
      BY <1>3, <1>8, <2>2, <2>3, <3>1
    <3>3. prompt' \in Seq(Known(object'))
      BY <3>2, EmptySeq
    <3> QED
      BY <3>2, <3>3 DEF RunInv
  <2>5. CounterInv'
    BY <1>3, <1>8 DEF ViewInv, CounterInv
  <2> QED
    BY <2>3, <2>4, <2>5 DEF ViewInv
<1> QED
  BY <1>7, <1>8

LEMMA ThrashStep ==
    ASSUME ViewInv, Thrash \/ GiveUp
    PROVE  ViewInv'
BY StopStep DEF Thrash, GiveUp

\* A list of messages of a heap, as messages.
LEMMA PlainMsgs ==
    ASSUME NEW heap, Heap(heap), NEW refs \in Seq(DOMAIN heap)
    PROVE  Msgs(heap, refs) \in Seq(MessageSet)
<1>1. Msgs(heap, refs) \in Seq(Known(heap)) /\ Known(heap) \subseteq MessageSet
  BY MsgsFacts DEF Known
<1> QED
  BY <1>1, SeqMonotonic

\* A result with the number of a placeholder.
AsResult(m, ref) == [m EXCEPT !.ref = ref, !.body = "result"]

LEMMA AsResultFacts ==
    ASSUME NEW m \in MessageSet, NEW ref \in Nat
    PROVE  LET new == AsResult(m, ref)
           IN /\ new \in MessageSet /\ new.ref = ref /\ new.body = "result"
              /\ new.role = m.role /\ new.calls = m.calls /\ new.id = m.id /\ new.tool = m.tool
BY DEF AsResult, MessageSet

\* The results that take the places of placeholders.
Results(heap, places) ==
    [k \in 1..Cardinality(places) |-> AsResult(heap[Nth(places, k)], Len(heap) + k)]

LEMMA ResultsMade ==
    ASSUME NEW heap, Heap(heap), NEW places \in SUBSET (DOMAIN heap)
    PROVE  LET n == Cardinality(places)
               settled == Results(heap, places)
           IN /\ Made(heap, settled) /\ n \in Nat
              /\ \A k \in 1..n :
                   /\ Nth(places, k) \in places
                   /\ Len(heap) + k \in DOMAIN (heap \o settled)
                   /\ (heap \o settled)[Len(heap) + k] = AsResult(heap[Nth(places, k)], Len(heap) + k)
<1> DEFINE n == Cardinality(places)
           settled == Results(heap, places)
           all == heap \o settled
           b == Len(heap)
           Old(k) == heap[Nth(places, k)]
           New(k) == AsResult(Old(k), b + k)
<1>1. /\ heap \in Seq(Known(heap)) /\ heap \in Seq(MessageSet) /\ b \in Nat
      /\ \A r \in DOMAIN heap : heap[r] \in Known(heap) /\ heap[r].role # "system"
  <2>1. heap \in Seq(Known(heap)) /\ Known(heap) \subseteq MessageSet
    BY DEF Heap, Known
  <2>2. heap \in Seq(MessageSet)
    BY <2>1, SeqMonotonic
  <2>3. \A r \in DOMAIN heap : heap[r] \in Known(heap) /\ heap[r].role # "system"
    BY <2>1 DEF Heap
  <2> QED
    BY <2>1, <2>2, <2>3, LenProperties
<1>2. n \in Nat /\ IsFiniteSet(places) /\ places \in SUBSET Nat
  BY <1>1, PlacesFinite
<1>3. \A k \in 1..n : Nth(places, k) \in places
  BY <1>2, NthPlace
<1>4. settled = [k \in 1..n |-> New(k)]
  BY DEF Results
<1> HIDE DEF b, n, settled
<1>5. ASSUME NEW k \in 1..n
      PROVE  /\ Old(k) \in Known(heap) /\ New(k) \in MessageSet
             /\ New(k).ref = b + k /\ New(k).body = "result"
             /\ New(k).role = Old(k).role /\ New(k).calls = Old(k).calls
             /\ New(k).id = Old(k).id /\ New(k).tool = Old(k).tool
             /\ New(k).role # "system"
  <2>1. Old(k) \in Known(heap) /\ Old(k).role # "system"
    BY <1>1, <1>3
  <2>2. b + k \in Nat
    BY <1>1, <1>2
  <2> HIDE DEF Old
  <2>3. Old(k) \in MessageSet
    BY <2>1 DEF Known
  <2> QED
    BY <2>1, <2>2, <2>3, AsResultFacts
<1> HIDE DEF Old, New
<1>6. /\ settled \in Seq(MessageSet) /\ DOMAIN settled = 1..n
      /\ \A k \in 1..n : settled[k] = New(k)
  BY <1>2, <1>4, <1>5
<1>7. /\ Known(heap) \subseteq Known(all)
      /\ \A k \in 1..n : b + k \in DOMAIN all /\ all[b + k] = settled[k]
  <2>1. heap \in Seq(MessageSet) /\ settled \in Seq(MessageSet)
    BY <1>1, <1>6
  <2>2. Known(heap) \subseteq Known(all)
    BY <2>1, KnownGrows
  <2>3. \A k \in DOMAIN settled : b + k \in DOMAIN all /\ all[b + k] = settled[k]
    BY <2>1, ConcatPlaces DEF b
  <2> QED
    BY <1>6, <2>2, <2>3
<1> HIDE DEF all
<1>8. ASSUME NEW k \in 1..n PROVE settled[k] \in Known(all)
  <2> DEFINE o == Old(k)
             m == settled[k]
  <2>1. /\ o \in Known(all) /\ m \in MessageSet /\ m.ref = b + k /\ m.body = "result"
        /\ m.calls = o.calls /\ m.id = o.id /\ m.tool = o.tool /\ m.role = o.role
    BY <1>5, <1>6, <1>7
  <2>2. m.ref \in DOMAIN all /\ all[m.ref].role = m.role
    BY <1>7, <2>1
  <2> HIDE DEF o, m
  <2>3. Fits(all, m)
    BY <2>1, <2>2 DEF Known, Fits, Calls
  <2> QED
    BY <2>1, <2>3 DEF Known, m
<1>9. settled \in Seq(Known(all))
  <2>1. settled = [k \in 1..n |-> settled[k]]
    BY <1>4, <1>6
  <2>2. \A k \in 1..n : settled[k] \in Known(all)
    BY <1>8
  <2> QED
    BY <1>2, <2>1, <2>2
<1>10. Made(heap, settled)
  <2>1. \A k \in DOMAIN settled :
          /\ settled[k].ref = b + k /\ settled[k].role # "system"
          /\ settled[k].body \in {"text", "result", "pending", "summary"}
    BY <1>5, <1>6
  <2> QED
    BY <1>9, <2>1 DEF Made, all, b
<1>11. \A k \in 1..n : b + k \in DOMAIN all /\ all[b + k] = New(k)
  BY <1>6, <1>7
<1> QED
  BY <1>2, <1>3, <1>10, <1>11 DEF New, Old, all, b, n, settled

LEMMA ConfirmStep ==
    ASSUME ViewInv, Confirm
    PROVE  ViewInv'
<1> DEFINE n == Cardinality(awaiting)
           settled == Results(object, awaiting)
           Rank(r) == Cardinality({open \in awaiting : open <= r})
           a == Msgs(object, log)
           b == Msgs(object', log')
<1>1. /\ Heap(object) /\ log \in Seq(DOMAIN object) /\ awaiting \in SUBSET (DOMAIN object)
      /\ Whole(a) /\ Fitting(Msgs(object, MergedRefs(object, log)))
      /\ prompt \in Seq(Known(object))
  BY DEF ViewInv, ThreadInv, RunInv, MergedLog
<1>2. /\ object' = object \o settled
      /\ log' = [i \in DOMAIN log |->
                   IF log[i] \in awaiting THEN Len(object) + Rank(log[i]) ELSE log[i]]
      /\ conv' = log' /\ nudge' = FALSE /\ phase' = "top" /\ awaiting' = {}
      /\ prompt' = prompt /\ compacted' = compacted /\ users' = users
  <2>1. object' = object \o settled
    BY DEF Confirm, Settled, Results, AsResult
  <2> HIDE DEF settled
  <2> QED
    BY <2>1 DEF Confirm, StartRun
<1> HIDE DEF settled
<1>3. /\ Made(object, settled) /\ n \in Nat
      /\ \A k \in 1..n :
           /\ Nth(awaiting, k) \in awaiting
           /\ Len(object) + k \in DOMAIN object'
           /\ object'[Len(object) + k] = AsResult(object[Nth(awaiting, k)], Len(object) + k)
  BY <1>1, <1>2, ResultsMade DEF settled
<1>4. /\ Heap(object') /\ Known(object) \subseteq Known(object')
      /\ DOMAIN object \subseteq DOMAIN object'
  BY <1>1, <1>2, <1>3, HeapGrows
<1>5. /\ Len(object) \in Nat
      /\ \A r \in DOMAIN object : /\ object[r] \in MessageSet
                                  /\ r \in DOMAIN object' /\ object'[r] = object[r]
  <2>1. object \in Seq(Known(object)) /\ settled \in Seq(Known(object'))
        /\ Known(object) \subseteq MessageSet /\ Known(object') \subseteq MessageSet
    BY <1>1, <1>2, <1>3 DEF Heap, Made, Known
  <2>2. object \in Seq(MessageSet) /\ settled \in Seq(MessageSet)
    BY <2>1, SeqMonotonic
  <2>3. \A r \in DOMAIN object : r \in DOMAIN (object \o settled) /\ (object \o settled)[r] = object[r]
    BY <2>2, ConcatPlaces
  <2> QED
    BY <1>2, <2>2, <2>3, LenProperties
<1>6. ASSUME NEW r \in awaiting
      PROVE  /\ Len(object) + Rank(r) \in DOMAIN object'
             /\ object'[Len(object) + Rank(r)] = AsResult(object[r], Len(object) + Rank(r))
             /\ Len(object) + Rank(r) \in Nat
  <2>1. awaiting \in SUBSET Nat /\ IsFiniteSet(awaiting)
    <3>1. object \in Seq(Known(object))
      BY <1>1 DEF Heap
    <3> QED
      BY <1>1, <3>1, PlacesFinite
  <2>2. PICK k \in 1..n : Nth(awaiting, k) = r
    BY <2>1, PlaceRank
  <2>3. Cardinality({open \in awaiting : open <= Nth(awaiting, k)}) = k
    BY <2>1, NthPlace
  <2>4. Rank(r) = k
    BY <2>2, <2>3
  <2> HIDE DEF Rank, n
  <2> QED
    BY <1>3, <1>5, <2>2, <2>4
<1> HIDE DEF Rank, n
<1>7. DOMAIN log = 1..Len(log) /\ Len(log) \in Nat /\ \A i \in DOMAIN log : log[i] \in DOMAIN object
  BY <1>1, LenProperties
<1>8. ASSUME NEW i \in DOMAIN log
      PROVE  /\ log'[i] \in DOMAIN object'
             /\ object'[log'[i]].role = object[log[i]].role
             /\ object'[log'[i]].calls = object[log[i]].calls
             /\ object'[log'[i]].id = object[log[i]].id
             /\ object'[log'[i]].body = "pending" => object[log[i]].body = "pending"
  <2>1. CASE log[i] \in awaiting
    <3>1. log'[i] = Len(object) + Rank(log[i])
      BY <1>2, <2>1
    <3> DEFINE m == object[log[i]]
               new == AsResult(m, log'[i])
    <3>2. object'[log'[i]] = new /\ log'[i] \in DOMAIN object'
      BY <1>6, <2>1, <3>1
    <3>3. m \in MessageSet /\ log'[i] \in Nat
      BY <1>5, <1>6, <1>7, <2>1, <3>1
    <3> HIDE DEF m
    <3>4. /\ new.role = m.role /\ new.calls = m.calls /\ new.id = m.id
          /\ new.body = "result"
      BY <3>3, AsResultFacts
    <3> HIDE DEF new
    <3> QED
      BY <3>2, <3>4 DEF m
  <2>2. CASE log[i] \notin awaiting
    BY <1>2, <1>5, <1>7, <2>2
  <2> QED
    BY <2>1, <2>2
<1>9. log' \in Seq(DOMAIN object') /\ Len(log') = Len(log) /\ DOMAIN log' = DOMAIN log
  <2>1. log' = [i \in 1..Len(log) |-> log'[i]]
    BY <1>2, <1>7
  <2>2. \A i \in 1..Len(log) : log'[i] \in DOMAIN object'
    BY <1>7, <1>8
  <2> QED
    BY <1>7, <2>1, <2>2
<1>10. /\ Len(a) = Len(log) /\ Len(b) = Len(log) /\ DOMAIN a = DOMAIN log
       /\ \A i \in DOMAIN log : a[i] = object[log[i]] /\ b[i] = object'[log'[i]]
       /\ a \in Seq(MessageSet) /\ b \in Seq(MessageSet)
  <2>1. /\ Len(a) = Len(log) /\ DOMAIN a = DOMAIN log
        /\ \A i \in DOMAIN log : a[i] = object[log[i]]
    BY <1>1, MsgsFacts
  <2>2. /\ Len(b) = Len(log') /\ \A i \in DOMAIN log' : b[i] = object'[log'[i]]
    BY <1>4, <1>9, MsgsFacts
  <2>3. a \in Seq(MessageSet) /\ b \in Seq(MessageSet)
    BY <1>1, <1>4, <1>9, PlainMsgs
  <2> HIDE DEF a, b
  <2> QED
    BY <1>9, <2>1, <2>2, <2>3
<1> HIDE DEF a, b
<1>11. Similar(a, b)
  BY <1>8, <1>10 DEF Similar
<1>12. Whole(b)
  BY <1>1, <1>10, <1>11, SimilarLists
<1> DEFINE am == Msgs(object, MergedRefs(object, log))
           bm == Msgs(object', MergedRefs(object', log'))
<1>13. Similar(am, bm)
  BY <1>1, <1>4, <1>9, <1>11, SimilarMerged DEF a, b
<1>14. am \in Seq(MessageSet) /\ bm \in Seq(MessageSet)
  <2>1. MergedRefs(object, log) \in Seq(DOMAIN object)
    BY <1>1, MergedRefsFacts DEF a
  <2>2. MergedRefs(object', log') \in Seq(DOMAIN object')
    BY <1>4, <1>9, <1>12, MergedRefsFacts DEF b
  <2> QED
    BY <1>1, <1>4, <2>1, <2>2, PlainMsgs
<1>15. Fitting(am)
  BY <1>1
<1> HIDE DEF am, bm
<1>16. Fitting(bm)
  BY <1>13, <1>14, <1>15, SimilarLists
<1>17. ThreadInv'
  BY <1>2, <1>4, <1>9, <1>12, <1>16 DEF ThreadInv, MergedLog, b, bm
<1>18. RunInv'
  <2>1. prompt' \in Seq(Known(object'))
    BY <1>1, <1>2, <1>4, SeqMonotonic
  <2> QED
    BY <1>2, <2>1 DEF RunInv
<1>19. CounterInv'
  BY <1>2 DEF ViewInv, CounterInv
<1> QED
  BY <1>17, <1>18, <1>19 DEF ViewInv

-----------------------------------------------------------------------------
(* The theorems                                                            *)

LEMMA InitView == Init => ViewInv
<1> SUFFICES ASSUME Init PROVE ViewInv
  OBVIOUS
<1>1. /\ object = <<>> /\ log = <<>> /\ conv = <<>> /\ awaiting = {} /\ prompt = <<>>
      /\ nudge = FALSE /\ compacted = 0 /\ users = 0 /\ phase = "idle"
  BY DEF Init
<1>2. DOMAIN <<>> = {} /\ \A S : <<>> \in Seq(S)
  BY EmptySeq
<1>3. Heap(object)
  BY <1>1, <1>2 DEF Heap
<1>4. Msgs(object, log) = <<>>
  BY <1>1 DEF Msgs
<1>5. Whole(Msgs(object, log))
  BY <1>4, EmptyWhole
<1>6. NoNeighbours(Msgs(object, log))
  BY <1>4, Len(<<>>) = 0 DEF NoNeighbours
<1>7. log \in Seq(DOMAIN object)
  BY <1>1, <1>2
<1>8. MergedLog = log
  BY <1>3, <1>6, <1>7, MergedTwice DEF MergedLog
<1>9. Fitting(Msgs(object, MergedLog))
  BY <1>2, <1>4, <1>8 DEF Fitting, CompactionCalls
<1>10. ThreadInv
  BY <1>1, <1>2, <1>3, <1>5, <1>9 DEF ThreadInv
<1>11. RunInv
  BY <1>1, <1>2 DEF RunInv
<1>12. CounterInv
  <2>1. 0 \in 0..(ThrashLimit + 1) /\ 0 \in 0..MaxUsers
    BY ContextAssumption
  <2> QED
    BY <1>1, <2>1 DEF CounterInv
<1> QED
  BY <1>10, <1>11, <1>12 DEF ViewInv

LEMMA NextView == ViewInv /\ [Next]_vars => ViewInv'
<1> SUFFICES ASSUME ViewInv, [Next]_vars PROVE ViewInv'
  OBVIOUS
<1>1. CASE Request
  BY <1>1, RequestStep
<1>2. CASE Confirm
  BY <1>2, ConfirmStep
<1>3. CASE Prepare
  BY <1>3, PrepareStep
<1>4. CASE Compact
  BY <1>4, CompactStep
<1>5. CASE Thrash \/ GiveUp
  BY <1>5, ThrashStep
<1>6. CASE Send
  BY <1>6, SendStep
<1>7. CASE Answer
  BY <1>7, AnswerStep
<1>8. ASSUME NEW tools \in Batch, NEW spoken \in BOOLEAN, NEW items \in {0, 1},
             CallTools(tools, spoken, items)
      PROVE  ViewInv'
  BY <1>8, CallToolsStep
<1>9. ASSUME NEW tool \in Tool, NEW spoken \in BOOLEAN, Grace(tool, spoken)
      PROVE  ViewInv'
  BY <1>9, GraceStep
<1>10. CASE UNCHANGED vars
  BY <1>10 DEF vars, ViewInv, ThreadInv, RunInv, CounterInv, MergedLog
<1> QED
  BY <1>1, <1>2, <1>3, <1>4, <1>5, <1>6, <1>7, <1>8, <1>9, <1>10 DEF Next

\* Whatever is requested, called, confirmed and compacted: the thread is whole
\* and the prompt is a legal view of it that shows what is due.
THEOREM ViewInvariant == Spec => []ViewInv
<1>1. Init => ViewInv
  BY InitView
<1>2. ViewInv /\ [Next]_vars => ViewInv'
  BY NextView
<1> QED
  BY <1>1, <1>2, PTL DEF Spec

LEMMA ViewTypes == ViewInv => TypeOK
<1> SUFFICES ASSUME ViewInv PROVE TypeOK
  OBVIOUS
<1>1. /\ Heap(object) /\ log \in Seq(DOMAIN object) /\ conv \in Seq(DOMAIN object)
      /\ awaiting \subseteq DOMAIN object /\ prompt \in Seq(Known(object)) /\ CounterInv
  BY DEF ViewInv, ThreadInv, RunInv
<1>2. ASSUME NEW r \in DOMAIN object
      PROVE  /\ object[r].ref = r /\ object[r].role \in {"user", "assistant", "tool"}
             /\ object[r].body \in {"text", "result", "pending", "summary"}
  <2>1. /\ object[r] \in Known(object) /\ object[r].ref = r /\ object[r].role # "system"
        /\ object[r].body \in {"text", "result", "pending", "summary"}
    BY <1>1 DEF Heap
  <2> QED
    BY <2>1 DEF Known, MessageSet
<1>3. \A i \in DOMAIN log : log[i] \in DOMAIN object
  BY <1>1
<1>4. \A i \in DOMAIN conv : conv[i] \in DOMAIN object
  BY <1>1
<1>5. ASSUME NEW i \in DOMAIN prompt PROVE prompt[i].ref \in {NoRef} \cup DOMAIN object
  <2>1. prompt[i] \in Known(object)
    BY <1>1
  <2> QED
    BY <2>1 DEF Known, Fits
<1> QED
  BY <1>1, <1>2, <1>3, <1>4, <1>5 DEF TypeOK, CounterInv

\* Types of the variables (messages.py:13).
THEOREM TypeCorrect == Spec => []TypeOK
BY ViewInvariant, ViewTypes, PTL

LEMMA SentLegal ==
    ASSUME ViewInv, Sent
    PROVE  /\ prompt \in Seq(Known(object)) /\ Whole(prompt) /\ NoNeighbours(prompt)
           /\ Clean(prompt) /\ Once(prompt) /\ prompt[1].role = "system"
           /\ ShowsDue(Msgs(object, conv), prompt)
BY DEF ViewInv, RunInv, Sent, Legal, Sound

LEMMA ViewLegal == ViewInv => PromptLegal
<1> SUFFICES ASSUME ViewInv, Sent
             PROVE  /\ prompt[1].role = "system"
                    /\ \A i \in 2..Len(prompt) : ~(IsUser(prompt[i]) /\ IsUser(prompt[i - 1]))
                    /\ \A i \in DOMAIN prompt :
                         prompt[i].role = "tool" => prompt[i].id \in KnownToolIds(prompt, i)
                    /\ \A i \in DOMAIN prompt : \A id \in CallIds(prompt[i]) :
                         id > 0 => Answered(prompt, i, id)
  BY DEF PromptLegal
<1>1. /\ prompt \in Seq(Known(object)) /\ Paired(prompt) /\ Complete(prompt)
      /\ NoNeighbours(prompt) /\ prompt[1].role = "system"
  BY SentLegal DEF Whole
<1>2. DOMAIN prompt = 1..Len(prompt) /\ Len(prompt) \in Nat
  BY <1>1, LenProperties
<1>3. ASSUME NEW i \in DOMAIN prompt, prompt[i].role = "tool"
      PROVE  prompt[i].id \in KnownToolIds(prompt, i)
  <2>1. PICK j \in DOMAIN prompt : Answers(prompt, j, i)
    BY <1>1, <1>3 DEF Paired
  <2>2. KnownToolIds(prompt, i) = CallIds(prompt[j])
    BY <1>1, <2>1, KnownIds DEF Answers
  <2> QED
    BY <2>1, <2>2 DEF Answers
<1>4. ASSUME NEW i \in DOMAIN prompt, NEW id \in CallIds(prompt[i]), id > 0
      PROVE  Answered(prompt, i, id)
  <2>1. PICK j \in DOMAIN prompt : Answers(prompt, i, j) /\ prompt[j].id = id
    BY <1>1, <1>4 DEF Complete
  <2>2. prompt[j].role = "tool" /\ i \in 1..(j - 1)
    BY <2>1 DEF Answers, Belongs
  <2>3. j \in (i + 1)..Len(prompt)
    BY <1>2, <2>2
  <2> QED
    BY <1>3, <2>1, <2>2, <2>3 DEF Answered
<1> QED
  BY <1>1, <1>3, <1>4 DEF NoNeighbours

\* What goes to the provider is a legal sequence, whatever was dropped,
\* excluded, trimmed, summarised and merged (repair.py:1, history.py:24).
THEOREM SafePromptLegal == Spec => []PromptLegal
BY ViewInvariant, ViewLegal, PTL

\* What is due in the conversation is in the prompt.
LEMMA DueShown ==
    ASSUME ViewInv, Sent, NEW i \in DOMAIN conv, Due(Msgs(object, conv), i)
    PROVE  InPrompt(Conversation[i])
<1> DEFINE ms == Msgs(object, conv)
<1>1. Conversation = ms /\ i \in DOMAIN ms
  BY DEF Conversation, Messages, Msgs
<1> HIDE DEF ms
<1>2. PICK k \in DOMAIN prompt : Shows(ms[i], prompt[k])
  BY <1>1, SentLegal DEF ShowsDue, ms
<1> QED
  BY <1>1, <1>2 DEF InPrompt, Shows

LEMMA ViewCurrent == ViewInv => CurrentWorkKept
<1> SUFFICES ASSUME ViewInv, Sent, NEW i \in DOMAIN conv,
                    IsOrdinaryToolResult(Conversation[i]),
                    \A j \in (i + 1)..Len(conv) : ~IsTextAnswer(Conversation[j]),
                    Conversation[i].ref \notin Summarised
             PROVE  InPrompt(Conversation[i])
  BY DEF CurrentWorkKept
<1> DEFINE ms == Msgs(object, conv)
<1>1. Conversation = ms
  BY DEF Conversation, Messages, Msgs
<1>2. Len(ms) = Len(conv)
  BY MsgsFacts DEF ViewInv, ThreadInv
<1> HIDE DEF ms
<1>3. i \notin Gone(ms)
  BY <1>1 DEF Summarised, Gone
<1>4. Due(ms, i)
  BY <1>1, <1>2, <1>3 DEF Due
<1> QED
  BY <1>4, DueShown DEF ms

\* The results the current task has gathered are shown in full, unless they
\* are in the summary (history.py:10).
THEOREM SafeCurrentWorkKept == Spec => []CurrentWorkKept
BY ViewInvariant, ViewCurrent, PTL

LEMMA ViewPlaceholder == ViewInv => PlaceholderKept
<1> SUFFICES ASSUME ViewInv, Sent, NEW i \in DOMAIN conv, Conversation[i].body = "pending"
             PROVE  InPrompt(Conversation[i])
  BY DEF PlaceholderKept
<1>1. Due(Msgs(object, conv), i)
  BY DEF Due, Conversation, Messages, Msgs
<1> QED
  BY <1>1, DueShown

\* A confirmation placeholder in the thread is in every prompt
\* (history.py:14).
THEOREM SafePlaceholderKept == Spec => []PlaceholderKept
BY ViewInvariant, ViewPlaceholder, PTL

LEMMA ViewSummary == ViewInv => OneSummary
<1> SUFFICES ASSUME ViewInv, Sent
             PROVE  /\ \A i \in DOMAIN prompt : ~IsCompactionMsg(prompt[i])
                    /\ Cardinality({i \in DOMAIN prompt : prompt[i].body = "summary"}) <= 1
  BY DEF OneSummary
<1> DEFINE places == {i \in DOMAIN prompt : prompt[i].body = "summary"}
<1>1. Clean(prompt) /\ Once(prompt)
  BY SentLegal
<1>2. \A i \in DOMAIN prompt : ~IsCompactionMsg(prompt[i])
  BY <1>1 DEF Clean, NotCompaction
<1>3. Cardinality(places) <= 1
  <2>1. CASE places = {}
    <3> HIDE DEF places
    <3> QED
      BY <2>1, FS_EmptySet
  <2>2. CASE places # {}
    <3>1. PICK i : i \in places
      BY <2>2
    <3>2. places = {i}
      BY <1>1, <3>1 DEF Once
    <3> HIDE DEF places
    <3>3. Cardinality(places) = 1
      BY <3>2, FS_Singleton
    <3> QED
      BY <3>3
  <2> QED
    BY <2>1, <2>2
<1> QED
  BY <1>2, <1>3

\* At most one summary is shown, and never as the call or the result by which
\* a compaction is logged (history.py:258).
THEOREM SafeOneSummary == Spec => []OneSummary
BY ViewInvariant, ViewSummary, PTL
=============================================================================
