-------------------------- MODULE DemoServer_proofs --------------------------
(***************************************************************************)
(* Theorems about the demo server, for any number of resets, requests and  *)
(* open pages (AwaitedKept: for one page).                                 *)
(***************************************************************************)
EXTENDS DemoServer, FiniteSetTheorems, WellFoundedInduction, TLAPS

-----------------------------------------------------------------------------
(* Types                                                                   *)

Generation == 0..MaxResets

\* No card has a call id of the future.
Known(cards) == \A i \in DOMAIN cards : cards[i].id < fresh

CardsKnown ==
    /\ \A g \in Generation : \A i \in DOMAIN Boundaries(g) : Known(Boundaries(g)[i].pend)
    /\ \A t \in Tab : Known(run[t].todo) /\ Known(run[t].pend)
    /\ \A t \in Tab : \A card \in page[t].cards : card.id < fresh

Typed == TypeOK /\ CardsKnown

\* What is known of the thread of a generation.
LEMMA ThreadFacts ==
    ASSUME TypeOK, NEW g \in Generation
    PROVE  /\ Log(g) \in Seq(Message)
           /\ Boundaries(g) \in Seq(BoundaryRecord)
           /\ LastStatus(g) \in Status
           /\ LastSeq(g) \in Nat
           /\ LastPending(g) \in Seq(Card)
<1>1. hist[g] \in History
  BY DEF TypeOK, Generation
<1>2. Log(g) \in Seq(Message) /\ Boundaries(g) \in Seq(BoundaryRecord)
  BY <1>1 DEF History, Log, Boundaries
<1>3. CASE Boundaries(g) = <<>>
  BY <1>2, <1>3 DEF LastStatus, LastSeq, LastPending, Status
<1>4. CASE Boundaries(g) # <<>>
  <2>1. Last(Boundaries(g)) \in BoundaryRecord
    BY <1>2, <1>4 DEF Last
  <2> QED
    BY <1>2, <1>4, <2>1 DEF LastStatus, LastSeq, LastPending, BoundaryRecord
<1> QED
  BY <1>3, <1>4

\* The last pending batch holds cards of the past.
LEMMA LastPendingKnown ==
    ASSUME Typed, NEW g \in Generation
    PROVE  Known(LastPending(g))
<1>1. CASE Boundaries(g) = <<>>
  BY <1>1 DEF LastPending, Known
<1>2. CASE Boundaries(g) # <<>>
  <2>1. Boundaries(g) \in Seq(BoundaryRecord)
    BY ThreadFacts DEF Typed
  <2>2. Len(Boundaries(g)) \in DOMAIN Boundaries(g)
    BY <1>2, <2>1
  <2>3. LastPending(g) = Boundaries(g)[Len(Boundaries(g))].pend
    BY <1>2 DEF LastPending, Last
  <2> QED
    BY <2>2, <2>3 DEF Typed, CardsKnown
<1> QED
  BY <1>1, <1>2

\* A commit appends to one generation and leaves the others alone.
LEMMA CommitFacts ==
    ASSUME TypeOK, NEW g \in Generation, NEW msgs \in Seq(Message),
           NEW b \in BoundaryRecord, Commit(g, msgs, b)
    PROVE  /\ hist' \in [Generation -> History]
           /\ Log(g)' = Log(g) \o msgs
           /\ Boundaries(g)' = Append(Boundaries(g), b)
           /\ \A o \in Generation : o # g => hist'[o] = hist[o]
<1>1. hist \in [Generation -> History]
  BY DEF TypeOK, Generation
<1>2. /\ Log(g) \in Seq(Message) /\ Boundaries(g) \in Seq(BoundaryRecord)
      /\ hist[g] \in History
  BY <1>1, ThreadFacts
<1>3. hist' = [hist EXCEPT ![g] = [hist[g] EXCEPT !.log = Log(g) \o msgs,
                                                  !.bnds = Append(Boundaries(g), b)]]
  BY <1>1 DEF Commit, Log, Boundaries
<1>4. hist'[g] = [hist[g] EXCEPT !.log = Log(g) \o msgs, !.bnds = Append(Boundaries(g), b)]
  BY <1>1, <1>3
<1>5. Log(g) \o msgs \in Seq(Message) /\ Append(Boundaries(g), b) \in Seq(BoundaryRecord)
  BY <1>2
<1>6. /\ hist'[g].log = Log(g) \o msgs /\ hist'[g].bnds = Append(Boundaries(g), b)
      /\ hist'[g] \in History
  BY <1>2, <1>4, <1>5 DEF History
<1>7. hist' \in [Generation -> History] /\ \A o \in Generation : o # g => hist'[o] = hist[o]
  BY <1>1, <1>3, <1>4, <1>6
<1> QED
  BY <1>6, <1>7 DEF Log, Boundaries

\* The messages an iteration appends.
LEMMA MessageFacts ==
    /\ \A k \in Kind, n \in Nat : Msg(k, n) \in Message
    /\ \A k \in Kind : Plain(<<k>>) \in Seq(Message) /\ Plain(<<k>>) = <<Msg(k, 0)>>
    /\ \A k, l \in Kind :
         Plain(<<k, l>>) \in Seq(Message) /\ Plain(<<k, l>>) = <<Msg(k, 0), Msg(l, 0)>>
<1>1. \A k \in Kind, n \in Nat : Msg(k, n) \in Message
  BY DEF Msg, Message
<1>2. ASSUME NEW k \in Kind
      PROVE  Plain(<<k>>) \in Seq(Message) /\ Plain(<<k>>) = <<Msg(k, 0)>>
  <2>1. Plain(<<k>>) = <<Msg(k, 0)>>
    BY DEF Plain
  <2>2. Msg(k, 0) \in Message
    BY <1>1
  <2>3. <<Msg(k, 0)>> \in Seq(Message)
    BY <2>2
  <2> QED
    BY <2>1, <2>3, Zenon
<1>3. ASSUME NEW k \in Kind, NEW l \in Kind
      PROVE  Plain(<<k, l>>) \in Seq(Message) /\ Plain(<<k, l>>) = <<Msg(k, 0), Msg(l, 0)>>
  <2>1. Plain(<<k, l>>) = <<Msg(k, 0), Msg(l, 0)>>
    BY DEF Plain
  <2>2. Msg(k, 0) \in Message /\ Msg(l, 0) \in Message
    BY <1>1
  <2>3. <<Msg(k, 0), Msg(l, 0)>> \in Seq(Message)
    BY <2>2
  <2> QED
    BY <2>1, <2>3, Zenon
<1> QED
  BY <1>1, <1>2, <1>3, Zenon

\* A new boundary whose cards are known leaves all cards known.
LEMMA AppendedKnown ==
    ASSUME Typed, NEW new \in Generation, NEW b \in BoundaryRecord,
           Boundaries(new)' = Append(Boundaries(new), b),
           \A o \in Generation : o # new => hist'[o] = hist[o],
           fresh' \in Nat, fresh' >= fresh,
           \A j \in DOMAIN b.pend : b.pend[j].id < fresh'
    PROVE  \A g \in Generation : \A i \in DOMAIN Boundaries(g)' : Known(Boundaries(g)[i].pend)'
<1>1. SUFFICES ASSUME NEW g \in Generation, NEW i \in DOMAIN Boundaries(g)',
                      NEW j \in DOMAIN Boundaries(g)'[i].pend
               PROVE  Boundaries(g)'[i].pend[j].id < fresh'
  BY DEF Known
<1>2. Boundaries(g) \in Seq(BoundaryRecord) /\ fresh \in Nat
  BY ThreadFacts DEF Typed, TypeOK
<1>3. ASSUME i \in DOMAIN Boundaries(g), Boundaries(g)'[i] = Boundaries(g)[i]
      PROVE  Boundaries(g)'[i].pend[j].id < fresh'
  <2>1. Boundaries(g)[i].pend[j].id < fresh
    BY <1>3 DEF Typed, CardsKnown, Known
  <2>2. Boundaries(g)[i].pend \in Seq(Card)
    <3>1. Boundaries(g)[i] \in BoundaryRecord
      BY <1>2, <1>3
    <3> QED
      BY <3>1 DEF BoundaryRecord
  <2>3. Boundaries(g)[i].pend[j].id \in Nat
    <3>1. j \in DOMAIN Boundaries(g)[i].pend
      BY <1>1, <1>3
    <3>2. Boundaries(g)[i].pend[j] \in Card
      BY <2>2, <3>1
    <3> QED
      BY <3>2 DEF Card
  <2> QED
    BY <1>2, <1>3, <2>1, <2>3
<1>4. CASE g # new
  BY <1>1, <1>3, <1>4 DEF Boundaries
<1>5. CASE g = new
  <2>1. i \in 1..(Len(Boundaries(new)) + 1)
    BY <1>1, <1>2, <1>5
  <2>2. CASE i = Len(Boundaries(new)) + 1
    BY <1>1, <1>2, <1>5, <2>2
  <2>3. CASE i \in 1..Len(Boundaries(new))
    BY <1>2, <1>3, <1>5, <2>3
  <2> QED
    BY <1>2, <1>5, <2>1, <2>2, <2>3
<1> QED
  BY <1>4, <1>5

\* What a request hands to the stream.
LEMMA StartStreamTyped ==
    ASSUME Typed, NEW t \in Tab, NEW confirm \in BOOLEAN, NEW approved \in Nat,
           NEW cancel \in BOOLEAN, NEW before \in Nat,
           StartStream(t, confirm, approved, cancel, before), requests < MaxRequests
    PROVE  /\ run' \in [Tab -> TaskRecord]
           /\ \A u \in Tab : run'[u].gen <= generation
           /\ \A u \in Tab : run'[u].todo = run[u].todo \/ run'[u].todo = <<>>
           /\ \A u \in Tab : run'[u].pend = run[u].pend \/ run'[u].pend = <<>>
           /\ stream' \in [Tab -> Stream]
           /\ requests' \in 0..MaxRequests
<1> DEFINE task == [NoRun EXCEPT !.st = "created", !.confirm = confirm, !.approved = approved,
                                 !.cancel = cancel, !.gen = generation, !.who = principal]
           opened == [NoStream EXCEPT !.st = "polling", !.seen = before]
<1>1. /\ task \in TaskRecord /\ task.gen = generation
      /\ task.todo = <<>> /\ task.pend = <<>>
  <2>1. /\ generation \in 0..MaxResets /\ principal \in Principal
        /\ [persona |-> FirstPersona, token |-> EnvToken] \in Principal
    BY DemoAssumption DEF Typed, TypeOK, Principal
  <2>2. <<>> \in Seq(Card)
    OBVIOUS
  <2>3. NoRun.todo = <<>> /\ NoRun.pend = <<>>
    BY DEF NoRun
  <2> QED
    BY <2>1, <2>2, <2>3 DEF TaskRecord, NoRun, Status
<1>2. opened \in Stream
  BY DEF NoStream, Stream
<1>3. run' = [run EXCEPT ![t] = task] /\ stream' = [stream EXCEPT ![t] = opened]
      /\ requests' = requests + 1
  BY DEF StartStream
<1> HIDE DEF task, opened
<1> QED
  BY <1>1, <1>2, <1>3, DemoAssumption DEF Typed, TypeOK

\* A request keeps the types.
LEMMA RequestTyped ==
    ASSUME Typed, NEW t \in Tab, Request(t)
    PROVE  Typed'
<1>0. /\ generation \in Generation
      /\ Log(generation) \in Seq(Message) /\ Len(Log(generation)) \in Nat
      /\ LastSeq(generation) \in Nat
  BY ThreadFacts DEF Typed, TypeOK, Generation
<1>1. CASE ApiChat(t)
  <2> DEFINE b == Boundary("user", LastSeq(generation) + 1, <<>>)
  <2> PICK new \in Generation : new = generation
    BY <1>0
  <2>1. b \in BoundaryRecord /\ b.pend = <<>>
    BY <1>0 DEF Boundary, BoundaryRecord, Status
  <2>2. Plain(<<"user">>) \in Seq(Message)
    BY MessageFacts DEF Kind
  <2>3. Commit(new, Plain(<<"user">>), b)
    BY <1>1 DEF ApiChat
  <2> HIDE DEF b
  <2>4. /\ hist' \in [Generation -> History]
        /\ Boundaries(new)' = Append(Boundaries(new), b)
        /\ \A o \in Generation : o # new => hist'[o] = hist[o]
    BY <2>1, <2>2, <2>3, CommitFacts DEF Typed
  <2>5. /\ run' \in [Tab -> TaskRecord]
        /\ \A u \in Tab : run'[u].gen <= generation
        /\ \A u \in Tab : run'[u].todo = run[u].todo \/ run'[u].todo = <<>>
        /\ \A u \in Tab : run'[u].pend = run[u].pend \/ run'[u].pend = <<>>
        /\ stream' \in [Tab -> Stream]
        /\ requests' \in 0..MaxRequests
    <3>1. StartStream(t, FALSE, 0, FALSE, Len(Log(generation)) + 1) /\ requests < MaxRequests
      BY <1>1 DEF ApiChat
    <3>2. Len(Log(generation)) + 1 \in Nat
      BY <1>0
    <3> QED
      BY <3>1, <3>2, StartStreamTyped
  <2>6. page' \in [Tab -> Page] /\ \A u \in Tab : page'[u].cards = page[u].cards
    BY <1>1 DEF ApiChat, Typed, TypeOK, Page
  <2>7. TypeOK'
    BY <1>1, <2>4, <2>5, <2>6 DEF ApiChat, Typed, TypeOK, Generation, Principal
  <2>8. fresh' = fresh /\ fresh \in Nat
    BY <1>1 DEF ApiChat, Typed, TypeOK
  <2>9. \A g \in Generation : \A i \in DOMAIN Boundaries(g)' : Known(Boundaries(g)[i].pend)'
    BY <2>1, <2>4, <2>8, AppendedKnown DEF Known
  <2> QED
    BY <2>5, <2>6, <2>7, <2>8, <2>9 DEF Typed, CardsKnown, Known
<1>2. ASSUME NEW card \in page[t].cards, ApproveCard(t, card)
      PROVE  Typed'
  <2>0. card \in Card /\ card.id \in 1..(fresh - 1) /\ card.id \in Nat
    BY DEF Typed, TypeOK, CardsKnown, Page, Card
  <2>1. /\ run' \in [Tab -> TaskRecord]
        /\ \A u \in Tab : run'[u].gen <= generation
        /\ \A u \in Tab : run'[u].todo = run[u].todo \/ run'[u].todo = <<>>
        /\ \A u \in Tab : run'[u].pend = run[u].pend \/ run'[u].pend = <<>>
        /\ stream' \in [Tab -> Stream]
        /\ requests' \in 0..MaxRequests
    BY <1>0, <1>2, <2>0, StartStreamTyped DEF ApproveCard
  <2>2. page' \in [Tab -> Page] /\ \A u \in Tab : page'[u].cards \subseteq page[u].cards
    BY <1>2 DEF ApproveCard, Typed, TypeOK, Page
  <2>3. TypeOK'
    BY <1>2, <2>0, <2>1, <2>2 DEF ApproveCard, Typed, TypeOK, Principal
  <2> QED
    BY <1>2, <2>1, <2>2, <2>3 DEF ApproveCard, Typed, CardsKnown, Known, Boundaries
<1>3. ASSUME NEW card \in page[t].cards, CancelCard(t, card)
      PROVE  Typed'
  <2>1. /\ run' \in [Tab -> TaskRecord]
        /\ \A u \in Tab : run'[u].gen <= generation
        /\ \A u \in Tab : run'[u].todo = run[u].todo \/ run'[u].todo = <<>>
        /\ \A u \in Tab : run'[u].pend = run[u].pend \/ run'[u].pend = <<>>
        /\ stream' \in [Tab -> Stream]
        /\ requests' \in 0..MaxRequests
    BY <1>0, <1>3, StartStreamTyped DEF CancelCard
  <2>2. page' \in [Tab -> Page] /\ \A u \in Tab : page'[u].cards \subseteq page[u].cards
    BY <1>3 DEF CancelCard, Typed, TypeOK, Page
  <2>3. TypeOK'
    BY <1>3, <2>1, <2>2 DEF CancelCard, Typed, TypeOK, Principal
  <2> QED
    BY <1>3, <2>1, <2>2, <2>3 DEF CancelCard, Typed, CardsKnown, Known, Boundaries
<1>4. CASE ApiReset(t)
  <2>1. page' \in [Tab -> Page] /\ \A u \in Tab : page'[u].cards \subseteq page[u].cards
    <3>1. NoSideBar \in [version : Nat, done : 0..PlanSteps, active : BOOLEAN]
      BY DemoAssumption DEF NoSideBar
    <3>2. page' = [page EXCEPT ![t].cards = {}, ![t].side = NoSideBar]
      BY <1>4 DEF ApiReset
    <3>3. page \in [Tab -> Page]
      BY DEF Typed, TypeOK
    <3> QED
      BY <3>1, <3>2, <3>3 DEF Page
  <2>2. generation' \in Generation /\ generation' >= generation
    BY <1>4, DemoAssumption DEF ApiReset, Typed, TypeOK, Generation
  <2>3. \A u \in Tab : run[u].gen \in Generation
    BY DEF Typed, TypeOK, TaskRecord, Generation
  <2>4. TypeOK'
    BY <1>4, <2>1, <2>2, <2>3 DEF ApiReset, Typed, TypeOK, Generation, Principal
  <2> QED
    BY <1>4, <2>1, <2>4 DEF ApiReset, Typed, CardsKnown, Known, Boundaries
<1>5. ASSUME NEW p \in Persona, ApiIdentity(t, p)
      PROVE  Typed'
  <2>1. TypeOK'
    <3>1. principal' \in Principal
      BY <1>5 DEF ApiIdentity, Typed, TypeOK, Principal
    <3>2. switches' \in 0..MaxSwitches
      BY <1>5, DemoAssumption DEF ApiIdentity, Typed, TypeOK
    <3> QED
      BY <1>5, <3>1, <3>2 DEF ApiIdentity, Typed, TypeOK
  <2> QED
    BY <1>5, <2>1 DEF ApiIdentity, Typed, CardsKnown, Known, Boundaries
<1> QED
  BY <1>1, <1>2, <1>3, <1>4, <1>5 DEF Request

\* A set of numbers below a bound that is not empty has a greatest.
LEMMA GreatestExists ==
    ASSUME NEW bound \in Nat, NEW S \in SUBSET (0..bound), S # {}
    PROVE  \E m \in S : \A k \in S : k <= m
<1> DEFINE Less == OpToRel(<, Nat)
           Gaps == {bound - k : k \in S}
<1>1. IsWellFoundedOn(Less, Nat)
  BY NatLessThanWellFounded
<1>2. \A m, n \in Nat : m < n => <<m, n>> \in Less
  BY DEF OpToRel
<1>3. Gaps \in SUBSET Nat /\ Gaps # {}
  <2>1. \A k \in S : bound - k \in Nat
    OBVIOUS
  <2>2. PICK k \in S : TRUE
    OBVIOUS
  <2>3. bound - k \in Gaps
    OBVIOUS
  <2> QED
    BY <2>1, <2>3
<1>4. \A k \in S : bound - k \in Gaps
  OBVIOUS
<1>5. \A x \in Gaps : \E m \in S : x = bound - m
  OBVIOUS
<1> HIDE DEF Less, Gaps
<1>6. PICK x \in Gaps : \A y \in Gaps : <<y, x>> \notin Less
  BY <1>1, <1>3, WFMin
<1>7. PICK m \in S : x = bound - m
  BY <1>5, <1>6
<1>8. ASSUME NEW k \in S PROVE k <= m
  <2>1. bound - k \in Gaps /\ bound - k \in Nat /\ x \in Nat
    BY <1>3, <1>4, <1>6
  <2>2. ~(bound - k < x)
    BY <1>2, <1>6, <2>1
  <2>3. k \in Int /\ m \in Int
    OBVIOUS
  <2> QED
    BY <1>7, <2>2, <2>3
<1> QED
  BY <1>8

\* The latest proposal is one that is registered.
LEMMA LatestFacts ==
    ASSUME TypeOK, NEW g \in Generation
    PROVE  /\ Latest(g) \in Nat
           /\ Latest(g) \in proposals[g] \cup {NoHandle}
<1>1. proposals[g] \in SUBSET (1..(fresh - 1)) /\ fresh \in Nat
  BY DEF TypeOK, Generation
<1>2. CASE proposals[g] = {}
  BY <1>2 DEF Latest, NoHandle
<1>3. CASE proposals[g] # {}
  <2>1. \E h \in proposals[g] : \A other \in proposals[g] : other <= h
    <3>1. proposals[g] \in SUBSET (0..fresh)
      BY <1>1
    <3> QED
      BY <1>1, <1>3, <3>1, GreatestExists
  <2>2. Latest(g) \in proposals[g]
    BY <1>3, <2>1 DEF Latest
  <2> QED
    BY <1>1, <2>2
<1> QED
  BY <1>2, <1>3

\* A commit of the task of t.
LEMMA IterateTyped ==
    ASSUME Typed, NEW t \in Tab, NEW msgs \in Seq(Message), NEW status \in Status,
           NEW pend \in Seq(Card), Iterate(t, msgs, status, pend),
           fresh' \in Nat, fresh' >= fresh, \A j \in DOMAIN pend : pend[j].id < fresh'
    PROVE  /\ hist' \in [Generation -> History]
           /\ run' \in [Tab -> TaskRecord]
           /\ \A u \in Tab : run'[u].gen = run[u].gen
           /\ \A u \in Tab : run'[u].todo = run[u].todo
           /\ \A u \in Tab : run'[u].pend \in {run[u].pend, pend}
           /\ \A g \in Generation : \A i \in DOMAIN Boundaries(g)' : Known(Boundaries(g)[i].pend)'
<1> PICK g \in Generation : g = run[t].gen
  BY DEF Typed, TypeOK, TaskRecord, Generation
<1>1. run[t] \in TaskRecord /\ run \in [Tab -> TaskRecord]
  BY DEF Typed, TypeOK
<1> DEFINE b == Boundary(status, run[t].seq + 1, pend)
<1>2. b \in BoundaryRecord /\ b.pend = pend
  BY <1>1 DEF Boundary, BoundaryRecord, TaskRecord
<1>3. Commit(g, msgs, b)
  BY DEF Iterate
<1> HIDE DEF b
<1>4. /\ hist' \in [Generation -> History]
      /\ Boundaries(g)' = Append(Boundaries(g), b)
      /\ \A o \in Generation : o # g => hist'[o] = hist[o]
  BY <1>2, <1>3, CommitFacts DEF Typed
<1>5. Len(Log(g)) \in Nat /\ Len(msgs) \in Nat
  BY ThreadFacts DEF Typed
<1> DEFINE mine == run[t].mine \cup (Len(Log(g)) + 1)..(Len(Log(g)) + Len(msgs))
           st == IF status = "iteration" THEN "running" ELSE "ended"
           final == IF status = "iteration" THEN "none" ELSE status
           seq == run[t].seq + 1
           task == [run[t] EXCEPT !.seq = seq, !.mine = mine, !.st = st, !.status = final,
                                  !.pend = pend]
<1>6. run' = [run EXCEPT ![t] = task]
  BY <1>1 DEF Iterate
<1>7. /\ task \in TaskRecord /\ task.gen = run[t].gen /\ task.todo = run[t].todo
      /\ task.pend = pend
  <2>1. mine \in SUBSET Nat
    BY <1>1, <1>5 DEF TaskRecord
  <2>2. final \in Status
    BY DEF Status
  <2>3. st \in {"none", "created", "resolving", "running", "ended"}
    OBVIOUS
  <2>4. seq \in Nat
    BY <1>1 DEF TaskRecord
  <2> HIDE DEF mine, final, st, seq
  <2> QED
    BY <1>1, <2>1, <2>2, <2>3, <2>4 DEF TaskRecord
<1> HIDE DEF task
<1>8. \A o \in Generation : \A i \in DOMAIN Boundaries(o)' : Known(Boundaries(o)[i].pend)'
  BY <1>2, <1>4, AppendedKnown
<1> QED
  BY <1>1, <1>4, <1>6, <1>7, <1>8

\* A turn keeps the types.
LEMMA TurnTyped ==
    ASSUME Typed, NEW t \in Tab, Turn(t)
    PROVE  Typed'
<1>0. /\ fresh \in Nat /\ fresh >= 1 /\ run[t] \in TaskRecord /\ run \in [Tab -> TaskRecord]
      /\ proposals \in [Generation -> SUBSET (1..(fresh - 1))]
      /\ run[t].gen \in Generation /\ <<>> \in Seq(Card)
      /\ \A u \in Tab : run[u].gen <= generation /\ run[u].todo \in Seq(Card)
      /\ \A u \in Tab : run[u].pend \in Seq(Card)
  BY DEF Typed, TypeOK, Generation, TaskRecord
<1>1. ASSUME UnchangedByRun,
             fresh' \in Nat, fresh' >= fresh,
             proposals' \in [Generation -> SUBSET (1..(fresh' - 1))],
             hist' \in [Generation -> History],
             run' \in [Tab -> TaskRecord],
             \A u \in Tab : run'[u].gen = run[u].gen,
             \A u \in Tab : run'[u].todo = run[u].todo,
             \A u \in Tab : run'[u].pend = run[u].pend \/ Known(run[u].pend)',
             \A g \in Generation : \A i \in DOMAIN Boundaries(g)' : Known(Boundaries(g)[i].pend)'
      PROVE  Typed'
  <2>1. TypeOK'
    <3>1. /\ fresh' \in Nat \ {0}
          /\ ledger' \subseteq 1..(fresh' - 1)
          /\ clicked' \subseteq 1..(fresh' - 1)
      <4>1. 1..(fresh - 1) \subseteq 1..(fresh' - 1) /\ fresh' # 0
        BY <1>0, <1>1
      <4> QED
        BY <1>1, <4>1 DEF Typed, TypeOK, UnchangedByRun
    <3> QED
      BY <1>0, <1>1, <3>1 DEF Typed, TypeOK, UnchangedByRun, Generation, Principal
  <2>2. \A u \in Tab : Known(run[u].todo)'
    <3>1. SUFFICES ASSUME NEW u \in Tab, NEW i \in DOMAIN run[u].todo
                   PROVE  run[u].todo[i].id < fresh'
      BY <1>1 DEF Known
    <3>2. run[u].todo[i] \in Card
      BY <1>0, <3>1
    <3>3. run[u].todo[i].id < fresh /\ run[u].todo[i].id \in Nat
      BY <3>1, <3>2 DEF Typed, CardsKnown, Known, Card
    <3> QED
      BY <1>0, <1>1, <3>3
  <2>3. \A u \in Tab : Known(run[u].pend)'
    <3>1. SUFFICES ASSUME NEW u \in Tab, run'[u].pend = run[u].pend,
                          NEW i \in DOMAIN run[u].pend
                   PROVE  run[u].pend[i].id < fresh'
      BY <1>1 DEF Known
    <3>2. run[u].pend[i] \in Card
      BY <1>0, <3>1
    <3>3. run[u].pend[i].id < fresh /\ run[u].pend[i].id \in Nat
      BY <3>1, <3>2 DEF Typed, CardsKnown, Known, Card
    <3> QED
      BY <1>0, <1>1, <3>3
  <2>4. \A u \in Tab : \A card \in page'[u].cards : card.id < fresh'
    <3>1. SUFFICES ASSUME NEW u \in Tab, NEW card \in page[u].cards
                   PROVE  card.id < fresh'
      BY <1>1 DEF UnchangedByRun
    <3>2. card.id \in Nat /\ card.id < fresh
      BY DEF Typed, TypeOK, CardsKnown, Page, Card
    <3> QED
      BY <1>0, <1>1, <3>2
  <2> QED
    BY <1>1, <2>1, <2>2, <2>3, <2>4 DEF Typed, CardsKnown
<1>2. ASSUME UnchangedByRun, NEW msgs \in Seq(Message), NEW status \in Status,
             NEW pend \in Seq(Card), Iterate(t, msgs, status, pend),
             fresh' \in Nat, fresh' >= fresh, \A j \in DOMAIN pend : pend[j].id < fresh',
             proposals' \in [Generation -> SUBSET (1..(fresh' - 1))]
      PROVE  Typed'
  <2>1. /\ hist' \in [Generation -> History]
        /\ run' \in [Tab -> TaskRecord]
        /\ \A u \in Tab : run'[u].gen = run[u].gen
        /\ \A u \in Tab : run'[u].todo = run[u].todo
        /\ \A u \in Tab : run'[u].pend \in {run[u].pend, pend}
        /\ \A g \in Generation : \A i \in DOMAIN Boundaries(g)' : Known(Boundaries(g)[i].pend)'
    BY <1>2, IterateTyped
  <2>2. \A u \in Tab : run'[u].pend = run[u].pend \/ Known(run[u].pend)'
    BY <1>2, <2>1 DEF Known
  <2> QED
    BY <1>1, <1>2, <2>1, <2>2
<1>3. ASSUME fresh' = fresh, proposals' = proposals
      PROVE  /\ fresh' \in Nat /\ fresh' >= fresh
             /\ proposals' \in [Generation -> SUBSET (1..(fresh' - 1))]
             /\ \A j \in DOMAIN <<>> : <<>>[j].id < fresh'
  BY <1>0, <1>3
<1>4. ASSUME fresh' = fresh + 1
      PROVE  /\ fresh' \in Nat /\ fresh' >= fresh
             /\ proposals \in [Generation -> SUBSET (1..(fresh' - 1))]
             /\ \A j \in DOMAIN <<>> : <<>>[j].id < fresh'
  <2>1. 1..(fresh - 1) \subseteq 1..(fresh' - 1)
    BY <1>0, <1>4
  <2> QED
    BY <1>0, <1>4, <2>1
<1>5. "iteration" \in Status /\ "failed" \in Status /\ "awaiting_confirmation" \in Status
  BY DEF Status
<1>6. CASE TurnPlan(t)
  <2>1. <<Msg("plan", fresh), Msg("planned", 0)>> \in Seq(Message)
    <3>1. Msg("plan", fresh) \in Message /\ Msg("planned", 0) \in Message
      BY <1>0, MessageFacts DEF Kind
    <3> QED
      BY <3>1
  <2> QED
    BY <1>0, <1>2, <1>4, <1>5, <1>6, <2>1 DEF TurnPlan
<1>7. ASSUME NEW k \in CallResult, TurnCall(t, k)
      PROVE  Typed'
  <2>1. Plain(<<"call", k>>) \in Seq(Message)
    BY DemoAssumption, MessageFacts DEF Kind
  <2> QED
    BY <1>0, <1>2, <1>3, <1>5, <1>7, <2>1 DEF TurnCall
<1>8. CASE TurnPropose(t)
  <2>1. Plain(<<"call", "proposed">>) \in Seq(Message)
    BY MessageFacts DEF Kind
  <2>2. fresh' = fresh + 1 /\ proposals' = [proposals EXCEPT ![run[t].gen] = @ \cup {fresh}]
    BY <1>8 DEF TurnPropose
  <2>3. fresh \in 1..(fresh' - 1)
    BY <1>0, <2>2
  <2>4. proposals' \in [Generation -> SUBSET (1..(fresh' - 1))]
    BY <1>0, <1>4, <2>2, <2>3
  <2> QED
    BY <1>0, <1>2, <1>4, <1>5, <1>8, <2>1, <2>2, <2>4 DEF TurnPropose
<1>9. ASSUME NEW calls \in 1..2, TurnExecute(t, calls)
      PROVE  Typed'
  <2> DEFINE pend == [i \in 1..calls |-> [id |-> fresh + i - 1, handle |-> Latest(run[t].gen)]]
             holds == [i \in 1..calls |-> Msg("hold", pend[i].id)]
  <2>1. fresh' = fresh + calls
    BY <1>9 DEF TurnExecute
  <2>2. Latest(run[t].gen) \in Nat
    BY <1>0, LatestFacts DEF Typed
  <2>3. pend \in Seq(Card) /\ \A j \in DOMAIN pend : pend[j].id < fresh'
    BY <1>0, <2>1, <2>2 DEF Card
  <2>4. <<Msg("exec", calls)>> \o holds \in Seq(Message)
    <3>1. Msg("exec", calls) \in Message
      <4>1. "exec" \in Kind /\ calls \in Nat
        BY DEF Kind
      <4> QED
        BY <4>1, MessageFacts
    <3>2. \A i \in 1..calls : Msg("hold", pend[i].id) \in Message
      <4>1. "hold" \in Kind /\ \A i \in 1..calls : pend[i].id \in Nat
        BY <1>0 DEF Kind
      <4> HIDE DEF pend
      <4> QED
        BY <4>1, MessageFacts
    <3> HIDE DEF pend
    <3>3. holds \in Seq(Message) /\ <<Msg("exec", calls)>> \in Seq(Message)
      BY <3>1, <3>2
    <3> HIDE DEF holds
    <3> QED
      BY <3>3
  <2>5. Iterate(t, <<Msg("exec", calls)>> \o holds, "awaiting_confirmation", pend)
    BY <1>9 DEF TurnExecute
  <2>6. proposals' \in [Generation -> SUBSET (1..(fresh' - 1))] /\ fresh' \in Nat /\ fresh' >= fresh
    <3>1. 1..(fresh - 1) \subseteq 1..(fresh' - 1) /\ fresh' \in Nat /\ fresh' >= fresh
      BY <1>0, <2>1
    <3>2. proposals' = proposals
      BY <1>9 DEF TurnExecute
    <3> QED
      BY <1>0, <3>1, <3>2
  <2>7. UnchangedByRun
    BY <1>9 DEF TurnExecute
  <2> HIDE DEF pend, holds
  <2> QED
    BY <1>2, <1>5, <2>3, <2>4, <2>5, <2>6, <2>7
<1>10. CASE TurnAnswer(t)
  <2> PICK g \in Generation : g = run[t].gen
    BY <1>0
  <2> DEFINE b == Boundary("completed", run[t].seq + 1, <<>>)
  <2>1. b \in BoundaryRecord /\ b.pend = <<>>
    BY <1>0 DEF Boundary, BoundaryRecord, TaskRecord, Status
  <2>2. Commit(g, Plain(<<"say">>), b) /\ Plain(<<"say">>) \in Seq(Message)
    BY <1>10, MessageFacts DEF TurnAnswer, Kind
  <2> HIDE DEF b
  <2>3. /\ hist' \in [Generation -> History]
        /\ Boundaries(g)' = Append(Boundaries(g), b)
        /\ \A o \in Generation : o # g => hist'[o] = hist[o]
    BY <2>1, <2>2, CommitFacts DEF Typed
  <2>4. fresh' = fresh /\ proposals' = proposals /\ UnchangedByRun
    BY <1>10 DEF TurnAnswer
  <2>5. \A o \in Generation : \A i \in DOMAIN Boundaries(o)' : Known(Boundaries(o)[i].pend)'
    BY <1>0, <2>1, <2>3, <2>4, AppendedKnown
  <2>6. /\ run' \in [Tab -> TaskRecord]
        /\ \A u \in Tab : run'[u].gen = run[u].gen
        /\ \A u \in Tab : run'[u].todo = run[u].todo
        /\ \A u \in Tab : run'[u].pend = run[u].pend
    <3>1. Len(Log(g)) \in Nat
      BY ThreadFacts DEF Typed
    <3>2. run' = [run EXCEPT ![t].st = "ended", ![t].status = "completed", ![t].seq = @ + 1,
                             ![t].mine = @ \cup {Len(Log(g)) + 1}]
      BY <1>10 DEF TurnAnswer
    <3> DEFINE mine == run[t].mine \cup {Len(Log(g)) + 1}
               task == [run[t] EXCEPT !.st = "ended", !.status = "completed",
                                      !.seq = run[t].seq + 1, !.mine = mine]
    <3>3. run' = [run EXCEPT ![t] = task]
      BY <1>0, <3>2
    <3>4. mine \in SUBSET Nat /\ run[t].seq + 1 \in Nat /\ "completed" \in Status
      BY <1>0, <3>1 DEF TaskRecord, Status
    <3> HIDE DEF mine
    <3>5. /\ task \in TaskRecord /\ task.gen = run[t].gen /\ task.todo = run[t].todo
          /\ task.pend = run[t].pend
      BY <1>0, <3>4 DEF TaskRecord
    <3> HIDE DEF task
    <3> QED
      BY <1>0, <3>3, <3>5
  <2> QED
    BY <1>1, <1>3, <2>3, <2>4, <2>5, <2>6
<1>11. ASSUME NEW status \in {"failed", "budget_exhausted"}, TurnGiveUp(t, status)
       PROVE  Typed'
  <2>1. /\ run' \in [Tab -> TaskRecord]
        /\ \A u \in Tab : run'[u].gen = run[u].gen
        /\ \A u \in Tab : run'[u].todo = run[u].todo
        /\ \A u \in Tab : run'[u].pend = run[u].pend
    BY <1>0, <1>11 DEF TurnGiveUp, TaskRecord, Status
  <2>2. /\ hist' = hist /\ fresh' = fresh /\ proposals' = proposals /\ UnchangedByRun
    BY <1>11 DEF TurnGiveUp
  <2>3. \A g \in Generation : \A i \in DOMAIN Boundaries(g)' : Known(Boundaries(g)[i].pend)'
    BY <2>2 DEF Typed, CardsKnown, Known, Boundaries
  <2>4. hist' \in [Generation -> History]
    BY <2>2 DEF Typed, TypeOK, Generation
  <2> QED
    BY <1>1, <1>3, <2>1, <2>2, <2>3, <2>4
<1>12. CASE TurnFuse(t)
  <2>1. Plain(<<"call", "error">>) \in Seq(Message)
    BY MessageFacts DEF Kind
  <2> QED
    BY <1>0, <1>2, <1>3, <1>5, <1>12, <2>1 DEF TurnFuse
<1> QED
  BY <1>6, <1>7, <1>8, <1>9, <1>10, <1>11, <1>12 DEF Turn

\* A step of the task's own keeps the types: it starts, or resolves a card.
LEMMA StartRunTyped ==
    ASSUME Typed, NEW t \in Tab, StartRun(t)
    PROVE  Typed'
<1> PICK g \in Generation : g = run[t].gen
  BY DEF Typed, TypeOK, TaskRecord, Generation
<1>1. run[t] \in TaskRecord /\ run \in [Tab -> TaskRecord]
  BY DEF Typed, TypeOK
<1>2. LastSeq(g) \in Nat /\ LastPending(g) \in Seq(Card) /\ Known(LastPending(g))
  BY ThreadFacts, LastPendingKnown DEF Typed
<1>3. /\ Entered(t) \in TaskRecord
      /\ Entered(t).gen = run[t].gen
      /\ Entered(t).todo = run[t].todo \/ Entered(t).todo = LastPending(g)
      /\ Entered(t).pend = run[t].pend \/ Entered(t).pend = LastPending(g)
  BY <1>1, <1>2 DEF Entered, TaskRecord, Status
<1>4. run' = [run EXCEPT ![t] = Entered(t)]
  BY DEF StartRun
<1>5. TypeOK'
  BY <1>1, <1>3, <1>4 DEF StartRun, Typed, TypeOK, Principal
<1>6. \A u \in Tab : Known(run'[u].todo) /\ Known(run'[u].pend)
  BY <1>1, <1>2, <1>3, <1>4 DEF Typed, CardsKnown
<1> QED
  BY <1>5, <1>6 DEF StartRun, Typed, CardsKnown, Known, Boundaries

LEMMA ResolveNextTyped ==
    ASSUME Typed, NEW t \in Tab, ResolveNext(t)
    PROVE  Typed'
<1> DEFINE p == Head(run[t].todo)
<1>1. /\ run[t] \in TaskRecord /\ run \in [Tab -> TaskRecord]
      /\ run[t].todo \in Seq(Card) /\ run[t].todo # <<>>
      /\ fresh \in Nat
      /\ proposals \in [Generation -> SUBSET (1..(fresh - 1))] /\ run[t].gen \in Generation
  BY DEF ResolveNext, Typed, TypeOK, TaskRecord, Generation
<1>2. /\ p \in Card /\ Tail(run[t].todo) \in Seq(Card) /\ Known(Tail(run[t].todo))
  <2>1. Known(run[t].todo)
    BY DEF Typed, CardsKnown
  <2>2. \A i \in DOMAIN Tail(run[t].todo) :
           i + 1 \in DOMAIN run[t].todo /\ Tail(run[t].todo)[i] = run[t].todo[i + 1]
    BY <1>1
  <2> QED
    BY <1>1, <2>1, <2>2 DEF Known
<1>3. PICK k \in Outcomes(t, p) :
        /\ run' = [run EXCEPT ![t].todo = Tail(@), ![t].settled = @ \cup {Msg(k, p.id)}]
        /\ ledger' = IF k = "executed" THEN ledger \cup {p.handle} ELSE ledger
        /\ proposals' = [proposals EXCEPT ![run[t].gen] = @ \ {p.handle}]
  BY DEF ResolveNext
<1>4. /\ k \in Kind
      /\ k = "executed" => p.handle \in ledger \cup proposals[run[t].gen]
  BY <1>3 DEF Outcomes, Kind
<1>5. ledger' \subseteq 1..(fresh - 1)
  BY <1>1, <1>3, <1>4 DEF Typed, TypeOK
<1>6. proposals' \in [Generation -> SUBSET (1..(fresh - 1))]
  BY <1>1, <1>3
<1>7. Msg(k, p.id) \in Message
  BY <1>2, <1>4, MessageFacts DEF Card
<1> HIDE DEF p
<1> DEFINE task == [run[t] EXCEPT !.todo = Tail(run[t].todo),
                                  !.settled = run[t].settled \cup {Msg(k, p.id)}]
<1>8. run' = [run EXCEPT ![t] = task]
  BY <1>1, <1>3
<1>9. /\ task \in TaskRecord /\ task.gen = run[t].gen /\ task.pend = run[t].pend
      /\ task.todo = Tail(run[t].todo)
  BY <1>1, <1>2, <1>7 DEF TaskRecord
<1> HIDE DEF task
<1>10. TypeOK'
  BY <1>1, <1>5, <1>6, <1>8, <1>9 DEF ResolveNext, Typed, TypeOK, Generation, Principal
<1> QED
  BY <1>1, <1>2, <1>8, <1>9, <1>10 DEF ResolveNext, Typed, CardsKnown, Known, Boundaries

\* What a placeholder gives way to.
LEMMA ReplacedFacts ==
    ASSUME NEW m \in Message, NEW outcomes \in SUBSET Message
    PROVE  /\ Replaced(m, outcomes) \in Message
           /\ Replaced(m, outcomes).n = m.n
           /\ \/ Replaced(m, outcomes) = m
              \/ m.k \in OfPending /\ Replaced(m, outcomes) \in outcomes
  BY DEF Replaced

\* Settle exchanges messages in place and appends a boundary.
LEMMA SettleFacts ==
    ASSUME TypeOK, NEW t \in Tab, NEW g \in Generation, g = run[t].gen, Settle(t)
    PROVE  /\ hist' \in [Generation -> History]
           /\ Log(g)' = [i \in DOMAIN Log(g) |-> Replaced(Log(g)[i], run[t].settled)]
           /\ Boundaries(g)' = Append(Boundaries(g), Boundary("iteration", run[t].seq + 1, <<>>))
           /\ \A o \in Generation : o # g => hist'[o] = hist[o]
           /\ Len(Log(g)') = Len(Log(g))
           /\ Boundary("iteration", run[t].seq + 1, <<>>) \in BoundaryRecord
<1> DEFINE b == Boundary("iteration", run[t].seq + 1, <<>>)
           log == [i \in DOMAIN Log(g) |-> Replaced(Log(g)[i], run[t].settled)]
<1>1. /\ run[t] \in TaskRecord /\ hist \in [Generation -> History] /\ hist[g] \in History
      /\ run[t].settled \in SUBSET Message
  BY DEF TypeOK, Generation, TaskRecord
<1>2. Log(g) \in Seq(Message) /\ Boundaries(g) \in Seq(BoundaryRecord)
  BY ThreadFacts
<1>3. b \in BoundaryRecord
  BY <1>1 DEF Boundary, BoundaryRecord, TaskRecord, Status
<1>4. log \in Seq(Message) /\ Len(log) = Len(Log(g))
  BY <1>1, <1>2, ReplacedFacts
<1>5. hist' = [hist EXCEPT ![g] = [hist[g] EXCEPT !.log = log, !.bnds = Append(Boundaries(g), b)]]
  BY <1>1 DEF Settle, Log, Boundaries
<1> HIDE DEF log, b
<1>6. Append(Boundaries(g), b) \in Seq(BoundaryRecord)
  BY <1>2, <1>3
<1>7. /\ hist'[g].log = log /\ hist'[g].bnds = Append(Boundaries(g), b)
      /\ hist'[g] \in History
  BY <1>1, <1>4, <1>5, <1>6 DEF History
<1>8. hist' \in [Generation -> History] /\ \A o \in Generation : o # g => hist'[o] = hist[o]
  BY <1>1, <1>5, <1>7
<1>9. Log(g)' = log /\ Boundaries(g)' = Append(Boundaries(g), b)
  BY <1>7 DEF Log, Boundaries
<1> QED
  BY <1>3, <1>4, <1>8, <1>9 DEF log, b

LEMMA SettleTyped ==
    ASSUME Typed, NEW t \in Tab, Settle(t)
    PROVE  Typed'
<1> PICK g \in Generation : g = run[t].gen
  BY DEF Typed, TypeOK, TaskRecord, Generation
<1> DEFINE b == Boundary("iteration", run[t].seq + 1, <<>>)
<1>1. /\ run[t] \in TaskRecord /\ run \in [Tab -> TaskRecord] /\ fresh \in Nat
  BY DEF Typed, TypeOK
<1>2. /\ hist' \in [Generation -> History]
      /\ Boundaries(g)' = Append(Boundaries(g), b)
      /\ \A o \in Generation : o # g => hist'[o] = hist[o]
      /\ b \in BoundaryRecord
  BY SettleFacts DEF Typed
<1>3. b.pend = <<>> /\ fresh' = fresh
  BY DEF Boundary, Settle
<1> HIDE DEF b
<1>4. \A o \in Generation : \A i \in DOMAIN Boundaries(o)' : Known(Boundaries(o)[i].pend)'
  BY <1>1, <1>2, <1>3, AppendedKnown
<1> DEFINE task == [run[t] EXCEPT !.st = "running", !.seq = run[t].seq + 1]
<1>5. run' = [run EXCEPT ![t] = task]
  BY <1>1 DEF Settle
<1>6. /\ task \in TaskRecord /\ task.gen = run[t].gen /\ task.pend = run[t].pend
      /\ task.todo = run[t].todo
  <2>1. run[t].seq + 1 \in Nat
    BY <1>1 DEF TaskRecord
  <2> QED
    BY <1>1, <2>1 DEF TaskRecord
<1> HIDE DEF task
<1>7. TypeOK'
  <2>1. run' \in [Tab -> TaskRecord] /\ \A u \in Tab : run'[u].gen <= generation
    BY <1>1, <1>5, <1>6 DEF Typed, TypeOK
  <2> QED
    BY <1>2, <2>1 DEF Settle, Typed, TypeOK, Generation, Principal
<1> QED
  BY <1>1, <1>3, <1>4, <1>5, <1>6, <1>7 DEF Settle, Typed, CardsKnown, Known

\* Counting the messages of a log gives numbers.
LEMMA CountDoneNat ==
    ASSUME NEW msgs \in Seq(Message)
    PROVE  CountDone(msgs) \in Nat
<1>1. DOMAIN msgs = 1..Len(msgs) /\ Len(msgs) \in Nat
  OBVIOUS
<1>2. IsFiniteSet(DOMAIN msgs)
  BY <1>1, FS_Interval
<1> QED
  BY <1>2, FS_Subset, FS_CardinalityType DEF CountDone

LEMMA CountCalledNat ==
    ASSUME NEW msgs \in Seq(Message)
    PROVE  CountCalled(msgs) \in Nat
<1> DEFINE Pairs(i) == {<<i, c>> : c \in Calls(msgs[i])}
           All == {Pairs(i) : i \in DOMAIN msgs}
<1>1. DOMAIN msgs = 1..Len(msgs) /\ Len(msgs) \in Nat
  OBVIOUS
<1>2. IsFiniteSet(DOMAIN msgs)
  BY <1>1, FS_Interval
<1>3. ASSUME NEW i \in DOMAIN msgs
      PROVE  IsFiniteSet(Pairs(i))
  <2>1. msgs[i] \in Message
    OBVIOUS
  <2>2. IsFiniteSet(Calls(msgs[i]))
    <3>1. PICK n \in Nat : Calls(msgs[i]) = 1..n
      BY <2>1 DEF Calls, Message
    <3> QED
      BY <3>1, FS_Interval
  <2>3. IsFiniteSet({i} \X Calls(msgs[i]))
    BY <2>2, FS_Singleton, FS_Product
  <2>4. Pairs(i) \in SUBSET ({i} \X Calls(msgs[i]))
    OBVIOUS
  <2> QED
    BY <2>3, <2>4, FS_Subset
<1>4. IsFiniteSet(All)
  <2>1. [i \in DOMAIN msgs |-> Pairs(i)] \in Surjection(DOMAIN msgs, All)
    BY DEF Surjection
  <2> QED
    BY <1>2, <2>1, FS_Surjection
<1>5. \A S \in All : IsFiniteSet(S)
  BY <1>3
<1>6. IsFiniteSet(UNION All)
  BY <1>4, <1>5, FS_UNION
<1> QED
  BY <1>6, FS_CardinalityType DEF CountCalled

\* The last plan of a log.
LEMMA LastPlanFacts ==
    ASSUME NEW log \in Seq(Message), PlanCalls(log) # {}
    PROVE  /\ LastPlan(log) \in PlanCalls(log)
           /\ \A j \in PlanCalls(log) : j <= LastPlan(log)
<1>1. PlanCalls(log) \in SUBSET (0..Len(log)) /\ Len(log) \in Nat
  BY DEF PlanCalls
<1>2. \E i \in PlanCalls(log) : \A j \in PlanCalls(log) : j <= i
  BY <1>1, GreatestExists
<1> QED
  BY <1>2 DEF LastPlan

LEMMA AfterFacts ==
    ASSUME NEW log \in Seq(Message), NEW i \in 0..Len(log)
    PROVE  /\ After(log, i) \in Seq(Message)
           /\ Len(After(log, i)) = Len(log) - i
           /\ \A j \in 1..(Len(log) - i) : After(log, i)[j] = log[i + j]
  BY DEF After

LEMMA ProjectionTyped ==
    ASSUME NEW log \in Seq(Message), PlanCalls(log) # {}, NEW completed
    PROVE  /\ PlanSignature(log, completed) \in Nat \X BOOLEAN
           /\ ProjectPlan(log, completed) \in [version : Nat, done : 0..PlanSteps, active : BOOLEAN]
           /\ ProjectPlan(log, completed).version = log[LastPlan(log)].n
           /\ ProjectPlan(log, completed).done =
                IF completed \/ CountDone(AfterLastPlan(log)) > PlanSteps
                THEN PlanSteps ELSE CountDone(AfterLastPlan(log))
<1>1. AfterLastPlan(log) \in Seq(Message)
  BY LastPlanFacts, AfterFacts DEF AfterLastPlan, PlanCalls
<1>2. CountDone(AfterLastPlan(log)) \in Nat /\ PlanSteps \in Nat
  BY <1>1, CountDoneNat, DemoAssumption
<1>3. PlanSignature(log, completed) \in Nat \X BOOLEAN
  <2>1. CountCalled(AfterLastPlan(log)) \in Nat
    BY <1>1, CountCalledNat
  <2>2. (CountCalled(AfterLastPlan(log)) > CountDone(AfterLastPlan(log))) \in BOOLEAN
    BY <1>2, <2>1
  <2> QED
    BY <1>2, <2>2 DEF PlanSignature
<1>4. log[LastPlan(log)].n \in Nat
  <2>1. LastPlan(log) \in DOMAIN log
    BY LastPlanFacts DEF PlanCalls
  <2>2. log[LastPlan(log)] \in Message
    BY <2>1
  <2> QED
    BY <2>2 DEF Message
<1>5. PlanSignature(log, completed)[1] =
        IF completed THEN PlanSteps ELSE CountDone(AfterLastPlan(log))
  BY DEF PlanSignature
<1> QED
  BY <1>2, <1>3, <1>4, <1>5 DEF ProjectPlan

\* A flush keeps the types of stream and page.
LEMMA FlushTyped ==
    ASSUME Typed, NEW t \in Tab, NEW completed, Flush(t, completed)
    PROVE  /\ stream' \in [Tab -> Stream]
           /\ page' \in [Tab -> Page]
           /\ \A u \in Tab : \A card \in page'[u].cards : card.id < fresh
<1> PICK g \in Generation : g = run[t].gen
  BY DEF Typed, TypeOK, TaskRecord, Generation
<1>1. /\ stream \in [Tab -> Stream] /\ stream[t] \in Stream
      /\ page \in [Tab -> Page] /\ page[t] \in Page
      /\ run[t].pend \in Seq(Card) /\ Known(run[t].pend)
  BY DEF Typed, TypeOK, CardsKnown, TaskRecord
<1>2. Log(g) \in Seq(Message) /\ Len(Log(g)) \in Nat /\ stream[t].seen \in Nat
  BY <1>1, ThreadFacts DEF Typed, Stream
<1> DEFINE resend == PlanCalls(Log(g)) # {} /\ PlanSignature(Log(g), completed) # stream[t].sig
           seen == IF Len(Log(g)) > stream[t].seen THEN Len(Log(g)) ELSE stream[t].seen
           shown == stream[t].shown \cup (stream[t].seen + 1)..Len(Log(g))
           sig == IF resend THEN PlanSignature(Log(g), completed) ELSE stream[t].sig
           st == IF run[t].st = "ended" THEN "closing" ELSE "polling"
           side == IF resend THEN ProjectPlan(Log(g), completed) ELSE page[t].side
           cards == IF run[t].st = "ended" /\ run[t].status = "awaiting_confirmation"
                    THEN page[t].cards \cup ToSet(run[t].pend) ELSE page[t].cards
<1>3. /\ stream' = [stream EXCEPT ![t].seen = seen, ![t].shown = shown, ![t].sig = sig,
                                  ![t].st = st]
      /\ page' = [page EXCEPT ![t].side = side, ![t].cards = cards]
  BY <1>1 DEF Flush
<1>4. /\ seen \in Nat /\ shown \in SUBSET Nat
      /\ sig \in {<<>>} \cup (Nat \X BOOLEAN)
      /\ st \in {"none", "polling", "closing"}
  <2>1. shown \in SUBSET Nat
    BY <1>1, <1>2 DEF Stream
  <2>2. sig \in {<<>>} \cup (Nat \X BOOLEAN)
    BY <1>1, <1>2, ProjectionTyped DEF Stream
  <2> QED
    BY <1>2, <2>1, <2>2
<1>5. /\ side \in [version : Nat, done : 0..PlanSteps, active : BOOLEAN]
      /\ cards \in SUBSET Card /\ \A card \in cards : card.id < fresh
  <2>1. side \in [version : Nat, done : 0..PlanSteps, active : BOOLEAN]
    BY <1>1, <1>2, ProjectionTyped DEF Page
  <2>2. \A card \in ToSet(run[t].pend) : card \in Card /\ card.id < fresh
    BY <1>1 DEF ToSet, Known
  <2>3. \A card \in page[t].cards : card \in Card /\ card.id < fresh
    BY <1>1 DEF Page, Typed, CardsKnown
  <2> QED
    BY <2>1, <2>2, <2>3
<1> HIDE DEF seen, shown, sig, st, side, cards
<1>6. stream' \in [Tab -> Stream]
  BY <1>1, <1>3, <1>4 DEF Stream
<1>7. page' \in [Tab -> Page]
  BY <1>1, <1>3, <1>5 DEF Page
<1>8. \A u \in Tab : \A card \in page'[u].cards : card.id < fresh
  BY <1>1, <1>3, <1>5 DEF Typed, CardsKnown
<1> QED
  BY <1>6, <1>7, <1>8

LEMMA GeneratorTyped ==
    ASSUME Typed, NEW t \in Tab, Generator(t)
    PROVE  Typed'
<1>1. ASSUME NEW completed, Flush(t, completed),
             UNCHANGED <<generation, hist, proposals, ledger, principal, run, clicked, fresh,
                         requests, switches>>
      PROVE  Typed'
  <2>1. /\ stream' \in [Tab -> Stream]
        /\ page' \in [Tab -> Page]
        /\ \A u \in Tab : \A card \in page'[u].cards : card.id < fresh
    BY <1>1, FlushTyped
  <2> QED
    BY <1>1, <2>1 DEF Typed, TypeOK, Principal, CardsKnown, Known, Boundaries
<1>2. CASE Poll(t)
  BY <1>1, <1>2 DEF Poll
<1>3. CASE FlushTail(t)
  BY <1>1, <1>3 DEF FlushTail
<1>4. CASE Close(t)
  <2>1. proposals' \in [0..MaxResets -> SUBSET (1..(fresh - 1))]
    BY <1>4 DEF Close, CollectProposals, Typed, TypeOK
  <2>2. NoStream \in Stream
    BY DEF NoStream, Stream
  <2>3. NoRun \in TaskRecord /\ NoRun.gen = 0 /\ NoRun.todo = <<>> /\ NoRun.pend = <<>>
    <3>1. /\ [persona |-> FirstPersona, token |-> EnvToken] \in Principal
          /\ <<>> \in Seq(Card) /\ 0 \in 0..MaxResets
      BY DemoAssumption DEF Principal
    <3> QED
      BY <3>1 DEF TaskRecord, NoRun, Status
  <2>4. page' \in [Tab -> Page] /\ \A u \in Tab : page'[u].cards = page[u].cards
    BY <1>4 DEF Close, Freed, Typed, TypeOK, Page
  <2>5. /\ stream' = [stream EXCEPT ![t] = NoStream] /\ run' = [run EXCEPT ![t] = NoRun]
        /\ UNCHANGED <<generation, hist, ledger, principal, clicked, fresh, requests, switches>>
    BY <1>4 DEF Close
  <2>6. run' \in [Tab -> TaskRecord] /\ \A u \in Tab : run'[u].gen <= generation
    BY <2>3, <2>5 DEF Typed, TypeOK
  <2>7. TypeOK'
    BY <2>1, <2>2, <2>4, <2>5, <2>6 DEF Typed, TypeOK, Principal
  <2>8. \A u \in Tab : Known(run'[u].todo) /\ Known(run'[u].pend)
    BY <2>3, <2>5 DEF Typed, TypeOK, CardsKnown, Known
  <2> QED
    BY <2>4, <2>5, <2>7, <2>8 DEF Typed, CardsKnown, Known, Boundaries
<1> QED
  BY <1>2, <1>3, <1>4 DEF Generator

LEMMA InitTyped == Init => Typed
<1> SUFFICES ASSUME Init PROVE Typed
  OBVIOUS
<1>1. /\ [persona |-> FirstPersona, token |-> EnvToken] \in Principal
      /\ <<>> \in Seq(Card) /\ 0 \in 0..MaxResets
      /\ MaxRequests \in Nat /\ MaxSwitches \in Nat /\ PlanSteps \in Nat
  BY DemoAssumption DEF Principal
<1>2. NoRun \in TaskRecord /\ NoRun.gen = 0 /\ NoRun.todo = <<>> /\ NoRun.pend = <<>>
  BY <1>1 DEF TaskRecord, NoRun, Status
<1>3. NoStream \in Stream
  BY DEF NoStream, Stream
<1>4. NoSideBar \in [version : Nat, done : 0..PlanSteps, active : BOOLEAN]
  BY <1>1 DEF NoSideBar
<1>5. page \in [Tab -> Page] /\ \A u \in Tab : page[u].cards = {}
  BY <1>4 DEF Init, Page
<1>6. /\ EmptyHistory \in History /\ EmptyHistory.bnds = <<>>
  BY DEF EmptyHistory, History
<1>7. TypeOK
  <2>1. hist \in [0..MaxResets -> History]
    BY <1>6 DEF Init
  <2>2. /\ generation \in 0..MaxResets /\ proposals \in [0..MaxResets -> SUBSET (1..(fresh - 1))]
        /\ principal \in Principal /\ requests \in 0..MaxRequests /\ switches \in 0..MaxSwitches
        /\ ledger = {} /\ clicked = {} /\ fresh = 1
    BY <1>1 DEF Init
  <2>3. /\ run \in [Tab -> TaskRecord] /\ \A u \in Tab : run[u].gen <= generation
        /\ stream \in [Tab -> Stream]
    BY <1>2, <1>3 DEF Init
  <2> QED
    BY <1>5, <2>1, <2>2, <2>3 DEF TypeOK
<1>8. \A g \in Generation : Boundaries(g) = <<>>
  BY <1>6 DEF Init, Boundaries, Generation
<1>9. \A u \in Tab : run[u].todo = <<>> /\ run[u].pend = <<>>
  BY <1>2 DEF Init
<1> QED
  BY <1>5, <1>7, <1>8, <1>9 DEF Typed, CardsKnown, Known

LEMMA NextTyped == Typed /\ [Next]_vars => Typed'
<1> SUFFICES ASSUME Typed, [Next]_vars PROVE Typed'
  OBVIOUS
<1>1. ASSUME NEW t \in Tab, Request(t) PROVE Typed'
  BY <1>1, RequestTyped
<1>2. ASSUME NEW t \in Tab, Task(t) PROVE Typed'
  BY <1>2, StartRunTyped, ResolveNextTyped, SettleTyped, TurnTyped DEF Task
<1>3. ASSUME NEW t \in Tab, Generator(t) PROVE Typed'
  BY <1>3, GeneratorTyped
<1>4. ASSUME NEW token \in Token, ApiToken(token) PROVE Typed'
  <2>1. principal' \in Principal /\ switches' \in 0..MaxSwitches
    <3>1. principal' \in Principal
      BY <1>4 DEF ApiToken, Typed, TypeOK, Principal
    <3>2. switches' \in 0..MaxSwitches
      BY <1>4, DemoAssumption DEF ApiToken, Typed, TypeOK
    <3> QED
      BY <3>1, <3>2
  <2>2. TypeOK'
    BY <1>4, <2>1 DEF ApiToken, Typed, TypeOK
  <2> QED
    BY <1>4, <2>2 DEF ApiToken, Typed, CardsKnown, Known, Boundaries
<1>5. CASE UNCHANGED vars
  BY <1>5 DEF vars, Typed, TypeOK, Principal, CardsKnown, Known, Boundaries
<1> QED
  BY <1>1, <1>2, <1>3, <1>4, <1>5 DEF Next

\* Every variable of the demo keeps its type, in every interleaving of pages,
\* tasks and generators; cards show call ids that were given out.
THEOREM TypeCorrect == Spec => []TypeOK
<1>1. Spec => []Typed
  BY InitTyped, NextTyped, PTL DEF Spec
<1>2. Typed => TypeOK
  BY DEF Typed
<1> QED
  BY <1>1, <1>2, PTL

-----------------------------------------------------------------------------
(* How a log grows                                                         *)

\* A step leaves what a log holds, except that outcomes replace placeholders
\* and earlier outcomes;
\* what it appends was not executed, and a plan among it comes first and has a
\* version of its own.
LogGrows(g) ==
    /\ Len(Log(g)) <= Len(Log(g)')
    /\ \A i \in 1..Len(Log(g)) :
         \/ Log(g)'[i] = Log(g)[i]
         \/ /\ Log(g)[i].k \in OfPending
            /\ \E t \in Tab : Log(g)'[i] \in run[t].settled
    /\ \A i \in (Len(Log(g)) + 1)..Len(Log(g)') :
         /\ Log(g)'[i].k # "executed"
         /\ Log(g)'[i].k = "plan" =>
              i = Len(Log(g)) + 1 /\ Log(g)'[i].n = fresh /\ fresh' = fresh + 1

\* What a commit does to the logs.
LEMMA CommitLog ==
    ASSUME TypeOK, NEW g \in Generation, NEW msgs, NEW b, Commit(g, msgs, b)
    PROVE  /\ Log(g)' = Log(g) \o msgs
           /\ \A o \in Generation : o # g => Log(o)' = Log(o)
  BY DEF Commit, Log, TypeOK, Generation, History

LEMMA AppendGrows ==
    ASSUME Typed, NEW new \in Generation, NEW msgs \in Seq(Message), NEW b,
           Commit(new, msgs, b),
           \A i \in 1..Len(msgs) :
             /\ msgs[i].k # "executed"
             /\ msgs[i].k = "plan" => i = 1 /\ msgs[i].n = fresh /\ fresh' = fresh + 1
    PROVE  \A g \in Generation : LogGrows(g)
<1> SUFFICES ASSUME NEW g \in Generation PROVE LogGrows(g)
  OBVIOUS
<1>1. Log(g) \in Seq(Message)
  BY ThreadFacts DEF Typed
<1>2. CASE g # new
  <2>1. Log(g)' = Log(g)
    BY <1>2, CommitLog DEF Typed
  <2> QED
    BY <1>1, <2>1 DEF LogGrows
<1>3. CASE g = new
  <2>1. Log(g)' = Log(g) \o msgs
    BY <1>3, CommitLog DEF Typed
  <2>2. Len(Log(g)') = Len(Log(g)) + Len(msgs) /\ Len(Log(g)) \in Nat /\ Len(msgs) \in Nat
    BY <1>1, <2>1
  <2>3. \A i \in 1..Len(Log(g)) : Log(g)'[i] = Log(g)[i]
    BY <1>1, <2>1
  <2>4. \A i \in (Len(Log(g)) + 1)..Len(Log(g)') :
           i - Len(Log(g)) \in 1..Len(msgs) /\ Log(g)'[i] = msgs[i - Len(Log(g))]
    BY <1>1, <2>1, <2>2
  <2> QED
    BY <2>2, <2>3, <2>4 DEF LogGrows
<1> QED
  BY <1>2, <1>3

LEMMA LogsGrow ==
    ASSUME Typed, [Next]_vars
    PROVE  \A g \in Generation : LogGrows(g)
<1>0. \A t \in Tab : run[t].gen \in Generation
  BY DEF Typed, TypeOK, TaskRecord, Generation
<1>1. ASSUME hist' = hist
      PROVE  \A g \in Generation : LogGrows(g)
  <2> SUFFICES ASSUME NEW g \in Generation PROVE LogGrows(g)
    OBVIOUS
  <2>1. Log(g) \in Seq(Message) /\ Log(g)' = Log(g)
    BY <1>1, ThreadFacts DEF Typed, Log
  <2> QED
    BY <2>1 DEF LogGrows
<1>2. ASSUME NEW new \in Generation, NEW k \in Kind, NEW b, Commit(new, Plain(<<k>>), b),
             k \notin {"executed", "plan"}
      PROVE  \A g \in Generation : LogGrows(g)
  <2>1. Plain(<<k>>) = <<Msg(k, 0)>> /\ Plain(<<k>>) \in Seq(Message) /\ Msg(k, 0).k = k
    BY MessageFacts DEF Msg
  <2>2. \A i \in 1..Len(Plain(<<k>>)) : Plain(<<k>>)[i].k = k
    BY <2>1
  <2> QED
    BY <1>2, <2>1, <2>2, AppendGrows
<1>3. ASSUME NEW new \in Generation, NEW k \in Kind, NEW l \in Kind, NEW b,
             Commit(new, Plain(<<k, l>>), b),
             k \notin {"executed", "plan"}, l \notin {"executed", "plan"}
      PROVE  \A g \in Generation : LogGrows(g)
  <2>1. /\ Plain(<<k, l>>) = <<Msg(k, 0), Msg(l, 0)>> /\ Plain(<<k, l>>) \in Seq(Message)
        /\ Msg(k, 0).k = k /\ Msg(l, 0).k = l
    BY MessageFacts DEF Msg
  <2>2. \A i \in 1..Len(Plain(<<k, l>>)) : Plain(<<k, l>>)[i].k \in {k, l}
    BY <2>1
  <2> QED
    BY <1>3, <2>1, <2>2, AppendGrows
<1>4. ASSUME NEW t \in Tab, Request(t)
      PROVE  \A g \in Generation : LogGrows(g)
  <2>1. CASE ApiChat(t)
    <3> PICK g \in Generation : g = generation
      BY DEF Typed, TypeOK, Generation
    <3>1. Commit(g, Plain(<<"user">>), Boundary("user", LastSeq(generation) + 1, <<>>))
      BY <2>1 DEF ApiChat
    <3> QED
      BY <1>2, <3>1 DEF Kind
  <2>2. CASE ~ApiChat(t)
    BY <1>1, <1>4, <2>2
       DEF Request, ApproveCard, CancelCard, ApiReset, ApiIdentity
  <2> QED
    BY <2>1, <2>2
<1>5. ASSUME NEW t \in Tab, Settle(t)
      PROVE  \A g \in Generation : LogGrows(g)
  <2> SUFFICES ASSUME NEW g \in Generation PROVE LogGrows(g)
    OBVIOUS
  <2>1. Log(g) \in Seq(Message) /\ run[t].settled \in SUBSET Message
    BY ThreadFacts DEF Typed, TypeOK, TaskRecord
  <2>2. CASE g # run[t].gen
    <3>1. Log(g)' = Log(g)
      BY <1>0, <1>5, <2>2, SettleFacts DEF Typed, Log
    <3> QED
      BY <2>1, <3>1 DEF LogGrows
  <2>3. CASE g = run[t].gen
    <3>1. /\ Log(g)' = [i \in DOMAIN Log(g) |-> Replaced(Log(g)[i], run[t].settled)]
          /\ Len(Log(g)') = Len(Log(g))
      BY <1>5, <2>3, SettleFacts DEF Typed
    <3>2. \A i \in 1..Len(Log(g)) :
             \/ Log(g)'[i] = Log(g)[i]
             \/ Log(g)[i].k \in OfPending /\ Log(g)'[i] \in run[t].settled
      BY <2>1, <3>1, ReplacedFacts
    <3>3. \A i \in 1..Len(Log(g)) :
             \/ Log(g)'[i] = Log(g)[i]
             \/ Log(g)[i].k \in OfPending /\ \E u \in Tab : Log(g)'[i] \in run[u].settled
      BY <3>2
    <3>4. Len(Log(g)) \in Nat /\ (Len(Log(g)) + 1)..Len(Log(g)') = {}
      BY <2>1, <3>1
    <3>5. Len(Log(g)) <= Len(Log(g)')
      BY <3>1, <3>4
    <3> QED
      BY <3>3, <3>4, <3>5, Zenon DEF LogGrows
  <2> QED
    BY <2>2, <2>3
<1>6. ASSUME NEW t \in Tab, Turn(t)
      PROVE  \A g \in Generation : LogGrows(g)
  <2> PICK g \in Generation : g = run[t].gen
    BY <1>0
  <2>1. CASE TurnPlan(t)
    <3>1. PICK b : Commit(g, <<Msg("plan", fresh), Msg("planned", 0)>>, b)
      BY <2>1 DEF TurnPlan, Iterate
    <3>2. <<Msg("plan", fresh), Msg("planned", 0)>> \in Seq(Message)
      <4>1. Msg("plan", fresh) \in Message /\ Msg("planned", 0) \in Message
        BY MessageFacts DEF Typed, TypeOK, Kind
      <4> QED
        BY <4>1
    <3>3. fresh' = fresh + 1
      BY <2>1 DEF TurnPlan
    <3> DEFINE msgs == <<Msg("plan", fresh), Msg("planned", 0)>>
    <3>4. Len(msgs) = 2 /\ msgs[1].k = "plan" /\ msgs[1].n = fresh /\ msgs[2].k = "planned"
      BY DEF Msg
    <3>5. \A i \in 1..Len(msgs) :
             /\ msgs[i].k # "executed"
             /\ msgs[i].k = "plan" => i = 1 /\ msgs[i].n = fresh /\ fresh' = fresh + 1
      BY <3>3, <3>4
    <3>6. Commit(g, msgs, b) /\ msgs \in Seq(Message)
      BY <3>1, <3>2
    <3> HIDE DEF msgs
    <3> QED
      BY <3>5, <3>6, AppendGrows
  <2>2. ASSUME NEW k \in CallResult, TurnCall(t, k)
        PROVE  \A o \in Generation : LogGrows(o)
    <3>1. PICK b : Commit(g, Plain(<<"call", k>>), b)
      BY <2>2 DEF TurnCall, Iterate
    <3>2. "call" \in Kind /\ k \in Kind /\ k \notin {"executed", "plan"}
      BY DemoAssumption DEF Kind
    <3> QED
      BY <1>3, <3>1, <3>2
  <2>3. CASE TurnPropose(t)
    <3>1. PICK b : Commit(g, Plain(<<"call", "proposed">>), b)
      BY <2>3 DEF TurnPropose, Iterate
    <3> QED
      BY <1>3, <3>1 DEF Kind
  <2>4. ASSUME NEW calls \in 1..2, TurnExecute(t, calls)
        PROVE  \A o \in Generation : LogGrows(o)
    <3> DEFINE pend == [i \in 1..calls |-> [id |-> fresh + i - 1, handle |-> Latest(run[t].gen)]]
               holds == [i \in 1..calls |-> Msg("hold", pend[i].id)]
               msgs == <<Msg("exec", calls)>> \o holds
    <3>1. PICK b : Commit(g, msgs, b)
      BY <2>4 DEF TurnExecute, Iterate
    <3>2. /\ Msg("exec", calls) \in Message /\ Msg("exec", calls).k = "exec"
          /\ calls \in Nat
      <4>1. "exec" \in Kind /\ calls \in Nat
        BY DEF Kind
      <4> QED
        BY <4>1, MessageFacts DEF Msg
    <3>3. \A i \in 1..calls : holds[i] \in Message /\ holds[i].k = "hold"
      <4>1. "hold" \in Kind /\ \A i \in 1..calls : pend[i].id \in Nat
        BY DEF Kind, Typed, TypeOK
      <4> HIDE DEF pend
      <4> QED
        BY <4>1, MessageFacts DEF Msg
    <3>4. holds \in Seq(Message) /\ Len(holds) = calls
      BY <3>2, <3>3
    <3> HIDE DEF holds, pend
    <3>5. <<Msg("exec", calls)>> \in Seq(Message)
      BY <3>2
    <3>6. msgs \in Seq(Message) /\ \A i \in 1..Len(msgs) : msgs[i].k \in {"exec", "hold"}
      BY <3>2, <3>3, <3>4, <3>5
    <3> HIDE DEF msgs
    <3> QED
      BY <3>1, <3>6, AppendGrows
  <2>5. CASE TurnAnswer(t)
    <3>1. PICK b : Commit(g, Plain(<<"say">>), b)
      BY <2>5 DEF TurnAnswer
    <3> QED
      BY <1>2, <3>1 DEF Kind
  <2>6. ASSUME NEW status, TurnGiveUp(t, status)
        PROVE  \A o \in Generation : LogGrows(o)
    BY <1>1, <2>6 DEF TurnGiveUp
  <2>7. CASE TurnFuse(t)
    <3>1. PICK b : Commit(g, Plain(<<"call", "error">>), b)
      BY <2>7 DEF TurnFuse, Iterate
    <3> QED
      BY <1>3, <3>1 DEF Kind
  <2> QED
    BY <1>6, <2>1, <2>2, <2>3, <2>4, <2>5, <2>6, <2>7 DEF Turn
<1>7. ASSUME NEW t \in Tab, StartRun(t) \/ ResolveNext(t) \/ Generator(t)
      PROVE  hist' = hist
  BY <1>7 DEF StartRun, ResolveNext, Generator, Poll, FlushTail, Close
<1>8. ASSUME NEW token \in Token, ApiToken(token)
      PROVE  hist' = hist
  BY <1>8 DEF ApiToken
<1>9. CASE UNCHANGED vars
  BY <1>1, <1>9 DEF vars
<1> QED
  BY <1>1, <1>4, <1>5, <1>6, <1>7, <1>8, <1>9 DEF Next, Task

-----------------------------------------------------------------------------
(* What a step does to the tasks                                           *)

\* A step of the task of t other than a resolution leaves the decision, the
\* outcomes and the generation of every task alone.
LEMMA TaskFrame ==
    ASSUME Typed, NEW t \in Tab, StartRun(t) \/ Settle(t) \/ Turn(t)
    PROVE  \A u \in Tab :
             /\ run'[u].approved = run[u].approved
             /\ run'[u].settled = run[u].settled
             /\ run'[u].gen = run[u].gen
<1>1. run \in [Tab -> TaskRecord] /\ run[t] \in TaskRecord
  BY DEF Typed, TypeOK
<1>2. CASE StartRun(t)
  <2>1. /\ Entered(t).approved = run[t].approved /\ Entered(t).settled = run[t].settled
        /\ Entered(t).gen = run[t].gen
    BY <1>1 DEF Entered, TaskRecord
  <2> QED
    BY <1>1, <1>2, <2>1 DEF StartRun
<1>3. CASE Settle(t)
  BY <1>1, <1>3 DEF Settle, TaskRecord
<1>4. ASSUME NEW msgs, NEW status, NEW pend, Iterate(t, msgs, status, pend)
      PROVE  \A u \in Tab :
               /\ run'[u].approved = run[u].approved
               /\ run'[u].settled = run[u].settled
               /\ run'[u].gen = run[u].gen
  BY <1>1, <1>4 DEF Iterate, TaskRecord
<1>5. CASE Turn(t)
  <2>1. CASE TurnAnswer(t)
    BY <1>1, <2>1 DEF TurnAnswer, TaskRecord
  <2>2. ASSUME NEW status, TurnGiveUp(t, status)
        PROVE  \A u \in Tab :
                 /\ run'[u].approved = run[u].approved
                 /\ run'[u].settled = run[u].settled
                 /\ run'[u].gen = run[u].gen
    BY <1>1, <2>2 DEF TurnGiveUp, TaskRecord
  <2> QED
    BY <1>4, <1>5, <2>1, <2>2
       DEF Turn, TurnPlan, TurnCall, TurnPropose, TurnExecute, TurnFuse
<1> QED
  BY <1>2, <1>3, <1>5

\* A request without a run.
NoTask(t) ==
    /\ run' = run /\ stream' = stream /\ ~page[t].loading
    /\ UNCHANGED <<hist, clicked, fresh>>
    /\ \A u \in Tab : /\ page'[u].loading = page[u].loading
                      /\ u # t => page'[u].side = page[u].side

\* A request whose task and stream are new.
NewTask(t) ==
    /\ \A u \in Tab : u # t => run'[u] = run[u] /\ stream'[u] = stream[u]
    /\ run'[t].st = "created" /\ run'[t].gen = generation
    /\ run'[t].approved \in clicked' \cup {0}
    /\ run'[t].settled = {} /\ run'[t].mine = {}
    /\ stream'[t].st = "polling" /\ stream'[t].sig = <<>> /\ stream'[t].shown = {}
    /\ \A g \in Generation : g = generation => stream'[t].seen = Len(Log(g)')
    /\ clicked \subseteq clicked'
    /\ UNCHANGED <<generation, proposals, fresh>>
    /\ page'[t].loading /\ ~page[t].loading
    /\ \A u \in Tab : /\ u # t => page'[u].loading = page[u].loading
                      /\ page'[u].side = page[u].side

LEMMA RequestFrame ==
    ASSUME Typed, NEW t \in Tab, Request(t)
    PROVE  NoTask(t) \/ NewTask(t)
<1>1. /\ run \in [Tab -> TaskRecord] /\ stream \in [Tab -> Stream] /\ page \in [Tab -> Page]
      /\ generation \in Generation /\ page[t] \in Page
  BY DEF Typed, TypeOK, Generation
<1> PICK g \in Generation : g = generation
  BY <1>1
<1>2. Log(g) \in Seq(Message) /\ Len(Log(g)) \in Nat
  BY ThreadFacts DEF Typed
<1>3. ASSUME NEW confirm, NEW approved, NEW cancel, NEW before,
             StartStream(t, confirm, approved, cancel, before),
             approved \in clicked' \cup {0}, before = Len(Log(g)'), clicked \subseteq clicked',
             UNCHANGED <<generation, proposals, fresh>>, ~page[t].loading,
             page'[t].loading,
             \A u \in Tab : /\ u # t => page'[u].loading = page[u].loading
                            /\ page'[u].side = page[u].side
      PROVE  NewTask(t)
  <2>1. /\ \A u \in Tab : u # t => run'[u] = run[u] /\ stream'[u] = stream[u]
        /\ run'[t].st = "created" /\ run'[t].gen = generation
        /\ run'[t].approved = approved /\ run'[t].settled = {} /\ run'[t].mine = {}
        /\ stream'[t].st = "polling" /\ stream'[t].sig = <<>> /\ stream'[t].shown = {}
        /\ stream'[t].seen = before
    BY <1>1, <1>3 DEF StartStream, NoRun, NoStream
  <2> QED
    BY <1>3, <2>1 DEF NewTask
<1>4. CASE ApiChat(t)
  <2>1. StartStream(t, FALSE, 0, FALSE, Len(Log(g)) + 1)
    BY <1>4 DEF ApiChat
  <2>2. Commit(g, Plain(<<"user">>), Boundary("user", LastSeq(generation) + 1, <<>>))
    BY <1>4 DEF ApiChat
  <2>3. Log(g)' = Log(g) \o Plain(<<"user">>)
    BY <2>2, CommitLog DEF Typed
  <2>4. Len(Log(g)') = Len(Log(g)) + 1
    <3>1. Plain(<<"user">>) = <<Msg("user", 0)>> /\ Plain(<<"user">>) \in Seq(Message)
      BY MessageFacts DEF Kind
    <3>2. Len(Plain(<<"user">>)) = 1
      BY <3>1
    <3>3. Len(Log(g) \o Plain(<<"user">>)) = Len(Log(g)) + Len(Plain(<<"user">>))
      BY <1>2, <3>1
    <3> QED
      BY <2>3, <3>2, <3>3
  <2>5. /\ page' = [page EXCEPT ![t].loading = TRUE] /\ ~page[t].loading
        /\ clicked' = clicked /\ UNCHANGED <<generation, proposals, fresh>>
    BY <1>4 DEF ApiChat
  <2>6. /\ page'[t].loading
        /\ \A u \in Tab : /\ u # t => page'[u].loading = page[u].loading
                          /\ page'[u].side = page[u].side
    BY <1>1, <2>5 DEF Page
  <2> QED
    BY <1>3, <2>1, <2>4, <2>5, <2>6
<1>5. ASSUME NEW card \in page[t].cards, NEW approved, NEW cancel,
             StartStream(t, TRUE, approved, cancel, Len(Log(g))),
             page' = [page EXCEPT ![t].loading = TRUE, ![t].cards = @ \ {card}],
             approved \in clicked' \cup {0}, clicked \subseteq clicked', ~page[t].loading,
             UNCHANGED <<generation, hist, proposals, fresh>>
      PROVE  NewTask(t)
  <2>1. Len(Log(g)) = Len(Log(g)')
    BY <1>5 DEF Log
  <2>2. /\ page'[t].loading
        /\ \A u \in Tab : /\ u # t => page'[u].loading = page[u].loading
                          /\ page'[u].side = page[u].side
    BY <1>1, <1>5 DEF Page
  <2> QED
    BY <1>3, <1>5, <2>1, <2>2
<1>6. ASSUME NEW card \in page[t].cards, ApproveCard(t, card)
      PROVE  NewTask(t)
  BY <1>5, <1>6 DEF ApproveCard
<1>7. ASSUME NEW card \in page[t].cards, CancelCard(t, card)
      PROVE  NewTask(t)
  BY <1>5, <1>7 DEF CancelCard
<1>8. CASE ApiReset(t)
  BY <1>1, <1>8 DEF ApiReset, Page, NoTask
<1>9. ASSUME NEW p \in Persona, ApiIdentity(t, p)
      PROVE  NoTask(t)
  BY <1>9 DEF ApiIdentity, NoTask
<1> QED
  BY <1>4, <1>6, <1>7, <1>8, <1>9 DEF Request

-----------------------------------------------------------------------------
(* Only what the user approved is executed                                 *)

\* The decision a task carries was clicked, and so was every card its
\* outcomes report as executed.
ApprovalInv ==
    /\ Typed
    /\ \A t \in Tab : run[t].approved \in clicked \cup {0}
    /\ \A t \in Tab : \A m \in run[t].settled :
         /\ m.k \in {"executed", "rejected", "refused"}
         /\ m.k = "executed" => m.n \in clicked
    /\ ExecutedWasApproved

LEMMA InitApproval == Init => ApprovalInv
<1> SUFFICES ASSUME Init PROVE ApprovalInv
  OBVIOUS
<1>1. \A t \in Tab : run[t].approved = 0 /\ run[t].settled = {}
  BY DEF Init, NoRun
<1>2. \A g \in Generation : Log(g) = <<>>
  BY DEF Init, EmptyHistory, Log, Generation
<1> QED
  BY <1>1, <1>2, InitTyped DEF ApprovalInv, ExecutedWasApproved, Generation

\* The log obeys after a step, whichever it is.
LEMMA ExecutedKept ==
    ASSUME ApprovalInv, [Next]_vars, clicked \subseteq clicked'
    PROVE  ExecutedWasApproved'
<1> SUFFICES ASSUME NEW g \in Generation, NEW i \in DOMAIN Log(g)', Log(g)'[i].k = "executed"
             PROVE  Log(g)'[i].n \in clicked'
  BY DEF ExecutedWasApproved, Generation
<1>1. Log(g) \in Seq(Message) /\ Log(g)' \in Seq(Message)
  <2>1. Typed'
    BY NextTyped DEF ApprovalInv
  <2>2. hist' \in [Generation -> History]
    BY <2>1 DEF Typed, TypeOK, Generation
  <2> QED
    BY <2>2, ThreadFacts DEF ApprovalInv, Typed, History, Log
<1>2. LogGrows(g)
  BY LogsGrow DEF ApprovalInv
<1>3. i \in 1..Len(Log(g))
  BY <1>1, <1>2 DEF LogGrows
<1>4. CASE Log(g)'[i] = Log(g)[i]
  BY <1>1, <1>3, <1>4 DEF ApprovalInv, ExecutedWasApproved, Generation
<1>5. ASSUME NEW t \in Tab, Log(g)'[i] \in run[t].settled
      PROVE  Log(g)'[i].n \in clicked'
  BY <1>5 DEF ApprovalInv
<1> QED
  BY <1>2, <1>3, <1>4, <1>5 DEF LogGrows

LEMMA NextApproval == ApprovalInv /\ [Next]_vars => ApprovalInv'
<1> SUFFICES ASSUME ApprovalInv, [Next]_vars PROVE ApprovalInv'
  OBVIOUS
<1>1. Typed /\ Typed'
  BY NextTyped DEF ApprovalInv
<1>2. ASSUME clicked \subseteq clicked',
             \A u \in Tab :
               \/ run'[u].approved = run[u].approved /\ run'[u].settled = run[u].settled
               \/ run'[u].approved \in clicked' \cup {0} /\ run'[u].settled = {}
      PROVE  ApprovalInv'
  <2>1. ExecutedWasApproved'
    BY <1>2, ExecutedKept
  <2> QED
    BY <1>1, <1>2, <2>1 DEF ApprovalInv
<1>3. ASSUME NEW t \in Tab, Request(t) PROVE ApprovalInv'
  <2>1. CASE NoTask(t)
    BY <1>2, <2>1 DEF NoTask
  <2>2. CASE NewTask(t)
    <3>1. \A u \in Tab :
            \/ run'[u].approved = run[u].approved /\ run'[u].settled = run[u].settled
            \/ run'[u].approved \in clicked' \cup {0} /\ run'[u].settled = {}
      BY <2>2 DEF NewTask
    <3> QED
      BY <1>2, <2>2, <3>1 DEF NewTask
  <2> QED
    BY <1>1, <1>3, <2>1, <2>2, RequestFrame
<1>4. ASSUME NEW t \in Tab, StartRun(t) \/ Settle(t) \/ Turn(t) PROVE ApprovalInv'
  <2>1. clicked' = clicked
    BY <1>4 DEF StartRun, Settle, Turn, TurnPlan, TurnCall, TurnPropose, TurnExecute,
                TurnAnswer, TurnGiveUp, TurnFuse, UnchangedByRun
  <2>2. \A u \in Tab : run'[u].approved = run[u].approved /\ run'[u].settled = run[u].settled
    BY <1>1, <1>4, TaskFrame
  <2> QED
    BY <1>2, <2>1, <2>2
<1>5. ASSUME NEW t \in Tab, ResolveNext(t) PROVE ApprovalInv'
  <2> DEFINE p == Head(run[t].todo)
  <2>1. /\ run \in [Tab -> TaskRecord] /\ run[t] \in TaskRecord
        /\ clicked' = clicked
    BY <1>1, <1>5 DEF ResolveNext, Typed, TypeOK
  <2>2. p.id # 0
    <3>1. run[t].todo \in Seq(Card) /\ run[t].todo # <<>>
      BY <1>5, <2>1 DEF ResolveNext, TaskRecord
    <3>2. p \in Card
      BY <3>1
    <3> QED
      BY <3>2 DEF Card
  <2>3. PICK k \in Outcomes(t, p) :
          run' = [run EXCEPT ![t].todo = Tail(@), ![t].settled = @ \cup {Msg(k, p.id)}]
    BY <1>5 DEF ResolveNext
  <2>4. /\ k \in {"executed", "rejected", "refused"}
        /\ k = "executed" => p.id \in clicked
    BY <2>2, <2>3 DEF Outcomes, Decision, ApprovalInv
  <2> HIDE DEF p
  <2>5. /\ \A u \in Tab : run'[u].approved = run[u].approved
        /\ \A u \in Tab : u # t => run'[u].settled = run[u].settled
        /\ run'[t].settled = run[t].settled \cup {Msg(k, p.id)}
    BY <2>1, <2>3 DEF TaskRecord
  <2>6. \A u \in Tab : \A m \in run'[u].settled :
          /\ m.k \in {"executed", "rejected", "refused"}
          /\ m.k = "executed" => m.n \in clicked
    BY <2>4, <2>5 DEF Msg, ApprovalInv
  <2>7. ExecutedWasApproved'
    BY <2>1, ExecutedKept
  <2> QED
    BY <1>1, <2>1, <2>5, <2>6, <2>7 DEF ApprovalInv
<1>6. ASSUME NEW t \in Tab, Generator(t) PROVE ApprovalInv'
  <2>1. clicked' = clicked
    BY <1>6 DEF Generator, Poll, FlushTail, Close
  <2>2. \A u \in Tab :
          \/ run'[u].approved = run[u].approved /\ run'[u].settled = run[u].settled
          \/ run'[u].approved \in clicked' \cup {0} /\ run'[u].settled = {}
    <3>1. CASE Poll(t) \/ FlushTail(t)
      BY <3>1 DEF Poll, FlushTail
    <3>2. CASE Close(t)
      <4>1. run' = [run EXCEPT ![t] = NoRun] /\ run \in [Tab -> TaskRecord]
        BY <1>1, <3>2 DEF Close, Typed, TypeOK
      <4>2. NoRun.approved = 0 /\ NoRun.settled = {}
        BY DEF NoRun
      <4> QED
        BY <4>1, <4>2
    <3> QED
      BY <1>6, <3>1, <3>2 DEF Generator
  <2> QED
    BY <1>2, <2>1, <2>2
<1>7. ASSUME NEW token \in Token, ApiToken(token) PROVE ApprovalInv'
  BY <1>2, <1>7 DEF ApiToken
<1>8. CASE UNCHANGED vars
  BY <1>2, <1>8 DEF vars
<1> QED
  BY <1>3, <1>4, <1>5, <1>6, <1>7, <1>8 DEF Next, Task

\* A control that reports an execution is one whose own card the user approved
\* (loop.py:168, app.js:475), however many pages, stale cards, batches and
\* resets there are.
THEOREM SafeExecutedWasApproved == Spec => []ExecutedWasApproved
<1>1. Spec => []ApprovalInv
  BY InitApproval, NextApproval, PTL DEF Spec
<1>2. ApprovalInv => ExecutedWasApproved
  BY DEF ApprovalInv
<1> QED
  BY <1>1, <1>2, PTL

-----------------------------------------------------------------------------
(* Every message is shown                                                  *)

\* A stream goes with a task, and the page is not free while it lasts; what its
\* task committed is shown or still to come, and shown when the task is over.
ShownInv ==
    /\ Typed
    /\ \A t \in Tab :
         /\ stream[t].st = "none" <=> run[t].st = "none"
         /\ stream[t].st # "none" => page[t].loading
         /\ stream[t].st = "closing" => run[t].st = "ended" /\ run[t].mine \subseteq stream[t].shown
    /\ \A t \in Tab : \A g \in Generation : g = run[t].gen /\ stream[t].st = "polling" =>
         /\ stream[t].seen <= Len(Log(g))
         /\ run[t].mine \subseteq stream[t].shown \cup (stream[t].seen + 1)..Len(Log(g))

\* A task that starts, resolves or settles commits no message of its own; a
\* turn commits those at the end of the log.
LEMMA MineFrame ==
    ASSUME Typed, NEW t \in Tab, Task(t)
    PROVE  /\ \A u \in Tab : u # t => run'[u] = run[u]
           /\ run'[t].gen = run[t].gen
           /\ run[t].st \in {"created", "resolving", "running"} /\ run'[t].st # "none"
           /\ UNCHANGED <<stream, page>>
           /\ \A g \in Generation : g = run[t].gen =>
                run'[t].mine \subseteq run[t].mine \cup (Len(Log(g)) + 1)..Len(Log(g)')
<1>1. run \in [Tab -> TaskRecord] /\ run[t] \in TaskRecord
  BY DEF Typed, TypeOK
<1> PICK g \in Generation : g = run[t].gen
  BY <1>1 DEF TaskRecord, Generation
<1>2. Log(g) \in Seq(Message) /\ Len(Log(g)) \in Nat
  BY ThreadFacts DEF Typed
<1>3. CASE StartRun(t)
  <2>1. run' = [run EXCEPT ![t] = Entered(t)] /\ run[t].st = "created" /\ UNCHANGED <<stream, page>>
    BY <1>3 DEF StartRun
  <2>2. Entered(t).mine = run[t].mine /\ Entered(t).gen = run[t].gen /\ Entered(t).st # "none"
    BY <1>1 DEF Entered, TaskRecord
  <2> QED
    BY <1>1, <2>1, <2>2
<1>4. CASE ResolveNext(t)
  BY <1>1, <1>4 DEF ResolveNext, TaskRecord
<1>5. CASE Settle(t)
  BY <1>1, <1>5 DEF Settle, TaskRecord
<1>6. ASSUME NEW msgs \in Seq(Message), NEW status, NEW pend, Iterate(t, msgs, status, pend),
             Running(t), UnchangedByRun
      PROVE  /\ \A u \in Tab : u # t => run'[u] = run[u]
             /\ run'[t].gen = run[t].gen
             /\ run[t].st = "running" /\ run'[t].st # "none"
             /\ UNCHANGED <<stream, page>>
             /\ run'[t].mine \subseteq run[t].mine \cup (Len(Log(g)) + 1)..Len(Log(g)')
  <2>1. PICK b : Commit(g, msgs, b)
    BY <1>6 DEF Iterate
  <2>2. Len(Log(g)') = Len(Log(g)) + Len(msgs)
    <3>1. Log(g)' = Log(g) \o msgs
      BY <2>1, CommitLog DEF Typed
    <3> QED
      BY <1>2, <3>1
  <2> DEFINE added == (Len(Log(g)) + 1)..(Len(Log(g)) + Len(msgs))
  <2>3. run' = [run EXCEPT
          ![t].seq = @ + 1,
          ![t].mine = @ \cup added,
          ![t].st = IF status = "iteration" THEN "running" ELSE "ended",
          ![t].status = IF status = "iteration" THEN "none" ELSE status,
          ![t].pend = pend]
    BY <1>6 DEF Iterate
  <2>4. added = (Len(Log(g)) + 1)..Len(Log(g)')
    BY <2>2
  <2> HIDE DEF added
  <2>5. /\ \A u \in Tab : u # t => run'[u] = run[u]
        /\ run'[t].gen = run[t].gen /\ run'[t].st # "none"
        /\ run'[t].mine = run[t].mine \cup added
    BY <1>1, <2>3 DEF TaskRecord
  <2> QED
    BY <1>6, <2>4, <2>5 DEF Running, UnchangedByRun
<1>7. CASE TurnPlan(t)
  <2>1. <<Msg("plan", fresh), Msg("planned", 0)>> \in Seq(Message)
    <3>1. Msg("plan", fresh) \in Message /\ Msg("planned", 0) \in Message
      BY MessageFacts DEF Typed, TypeOK, Kind
    <3> QED
      BY <3>1
  <2> QED
    BY <1>6, <1>7, <2>1 DEF TurnPlan
<1>8. ASSUME NEW calls \in 1..2, TurnExecute(t, calls)
      PROVE  \E msgs \in Seq(Message) : \E status, pend :
               Iterate(t, msgs, status, pend) /\ Running(t) /\ UnchangedByRun
  <2> DEFINE pend == [i \in 1..calls |-> [id |-> fresh + i - 1, handle |-> Latest(run[t].gen)]]
             holds == [i \in 1..calls |-> Msg("hold", pend[i].id)]
  <2>1. /\ Iterate(t, <<Msg("exec", calls)>> \o holds, "awaiting_confirmation", pend)
        /\ Running(t) /\ UnchangedByRun
    BY <1>8 DEF TurnExecute
  <2>2. Msg("exec", calls) \in Message /\ \A i \in 1..calls : Msg("hold", pend[i].id) \in Message
    <3>1. "exec" \in Kind /\ "hold" \in Kind /\ calls \in Nat /\ \A i \in 1..calls : pend[i].id \in Nat
      BY DEF Kind, Typed, TypeOK
    <3> HIDE DEF pend
    <3> QED
      BY <3>1, MessageFacts
  <2> HIDE DEF pend
  <2>3. holds \in Seq(Message) /\ <<Msg("exec", calls)>> \in Seq(Message)
    BY <2>2
  <2> HIDE DEF holds
  <2>4. <<Msg("exec", calls)>> \o holds \in Seq(Message)
    BY <2>3
  <2> QED
    BY <2>1, <2>4
<1>9. ASSUME NEW k \in CallResult, TurnCall(t, k)
      PROVE  \E msgs \in Seq(Message) : \E status, pend :
               Iterate(t, msgs, status, pend) /\ Running(t) /\ UnchangedByRun
  <2>1. Plain(<<"call", k>>) \in Seq(Message)
    BY DemoAssumption, MessageFacts DEF Kind
  <2> QED
    BY <1>9, <2>1 DEF TurnCall
<1>10. ASSUME TurnPropose(t) \/ TurnFuse(t)
       PROVE  \E msgs \in Seq(Message) : \E status, pend :
                Iterate(t, msgs, status, pend) /\ Running(t) /\ UnchangedByRun
  <2>1. Plain(<<"call", "proposed">>) \in Seq(Message) /\ Plain(<<"call", "error">>) \in Seq(Message)
    BY MessageFacts DEF Kind
  <2> QED
    BY <1>10, <2>1 DEF TurnPropose, TurnFuse
<1>11. CASE TurnAnswer(t)
  <2>1. PICK b : Commit(g, Plain(<<"say">>), b)
    BY <1>11 DEF TurnAnswer
  <2>2. Plain(<<"say">>) \in Seq(Message) /\ Plain(<<"say">>) = <<Msg("say", 0)>>
    BY MessageFacts DEF Kind
  <2>3. Len(Log(g)') = Len(Log(g)) + 1
    <3>1. Log(g)' = Log(g) \o Plain(<<"say">>)
      BY <2>1, CommitLog DEF Typed
    <3>2. Len(Plain(<<"say">>)) = 1
      BY <2>2
    <3>3. Len(Log(g) \o Plain(<<"say">>)) = Len(Log(g)) + Len(Plain(<<"say">>))
      BY <1>2, <2>2
    <3> QED
      BY <3>1, <3>2, <3>3
  <2>4. /\ \A u \in Tab : u # t => run'[u] = run[u]
        /\ run'[t].gen = run[t].gen /\ run'[t].st = "ended" /\ run[t].st = "running"
        /\ run'[t].mine = run[t].mine \cup {Len(Log(g)) + 1}
        /\ UNCHANGED <<stream, page>>
    BY <1>1, <1>11 DEF TurnAnswer, TaskRecord, Running, UnchangedByRun
  <2>5. Len(Log(g)) + 1 \in (Len(Log(g)) + 1)..Len(Log(g)')
    BY <1>2, <2>3
  <2> QED
    BY <2>4, <2>5
<1>12. ASSUME NEW status, TurnGiveUp(t, status)
       PROVE  /\ \A u \in Tab : u # t => run'[u] = run[u]
              /\ run'[t].gen = run[t].gen /\ run'[t].st # "none" /\ run[t].st = "running"
              /\ UNCHANGED <<stream, page>> /\ run'[t].mine = run[t].mine
  BY <1>1, <1>12 DEF TurnGiveUp, TaskRecord, UnchangedByRun
<1> QED
  BY <1>3, <1>4, <1>5, <1>6, <1>7, <1>8, <1>9, <1>10, <1>11, <1>12 DEF Task, Turn

\* What a flush does to stream and page.
LEMMA FlushFrame ==
    ASSUME Typed, NEW t \in Tab, NEW completed, Flush(t, completed),
           NEW g \in Generation, g = run[t].gen
    PROVE  /\ \A u \in Tab : u # t => stream'[u] = stream[u] /\ page'[u] = page[u]
           /\ \A u \in Tab : page'[u].loading = page[u].loading
           /\ stream'[t].seen = IF Len(Log(g)) > stream[t].seen THEN Len(Log(g)) ELSE stream[t].seen
           /\ stream'[t].shown = stream[t].shown \cup (stream[t].seen + 1)..Len(Log(g))
           /\ stream'[t].st = IF run[t].st = "ended" THEN "closing" ELSE "polling"
           /\ \/ stream'[t].sig = stream[t].sig /\ page'[t].side = page[t].side
              \/ PlanCalls(Log(g)) # {} /\ page'[t].side = ProjectPlan(Log(g), completed)
<1>1. /\ stream \in [Tab -> Stream] /\ stream[t] \in Stream
      /\ page \in [Tab -> Page] /\ page[t] \in Page
  BY DEF Typed, TypeOK
<1> DEFINE resend == PlanCalls(Log(g)) # {} /\ PlanSignature(Log(g), completed) # stream[t].sig
           seen == IF Len(Log(g)) > stream[t].seen THEN Len(Log(g)) ELSE stream[t].seen
           shown == stream[t].shown \cup (stream[t].seen + 1)..Len(Log(g))
           sig == IF resend THEN PlanSignature(Log(g), completed) ELSE stream[t].sig
           st == IF run[t].st = "ended" THEN "closing" ELSE "polling"
           side == IF resend THEN ProjectPlan(Log(g), completed) ELSE page[t].side
           cards == IF run[t].st = "ended" /\ run[t].status = "awaiting_confirmation"
                    THEN page[t].cards \cup ToSet(run[t].pend) ELSE page[t].cards
<1>2. /\ stream' = [stream EXCEPT ![t].seen = seen, ![t].shown = shown, ![t].sig = sig,
                                  ![t].st = st]
      /\ page' = [page EXCEPT ![t].side = side, ![t].cards = cards]
  BY <1>1 DEF Flush
<1>3. \/ sig = stream[t].sig /\ side = page[t].side
      \/ PlanCalls(Log(g)) # {} /\ side = ProjectPlan(Log(g), completed)
  OBVIOUS
<1> HIDE DEF sig, side, cards, resend, seen, shown, st
<1>4. /\ stream'[t].seen = seen /\ stream'[t].shown = shown /\ stream'[t].sig = sig
      /\ stream'[t].st = st
      /\ \A u \in Tab : u # t => stream'[u] = stream[u] /\ page'[u] = page[u]
      /\ page'[t].side = side
      /\ \A u \in Tab : page'[u].loading = page[u].loading
  BY <1>1, <1>2 DEF Stream, Page
<1> QED
  BY <1>3, <1>4 DEF seen, shown, st

\* A round of polling flushes; so does the tail, after which the stream closes.
LEMMA GeneratorKinds ==
    ASSUME NEW t \in Tab, Generator(t)
    PROVE  /\ UNCHANGED <<hist, generation, fresh, clicked>>
           /\ \/ Close(t)
              \/ \E completed : /\ Flush(t, completed) /\ (completed => run[t].st = "ended")
                                /\ stream[t].st = "polling" /\ UNCHANGED <<run, proposals>>
  BY DEF Generator, Poll, FlushTail, Close

\* What closing does.
LEMMA CloseFrame ==
    ASSUME Typed, NEW t \in Tab, Close(t)
    PROVE  /\ \A u \in Tab : u # t => stream'[u] = stream[u] /\ run'[u] = run[u] /\ page'[u] = page[u]
           /\ run'[t].st = "none" /\ stream'[t].st = "none"
           /\ page'[t].side = page[t].side /\ ~page'[t].loading
  BY DEF Close, Freed, NoRun, NoStream, Typed, TypeOK, Page

LEMMA InitShown == Init => ShownInv
<1> SUFFICES ASSUME Init PROVE ShownInv
  OBVIOUS
<1>1. \A t \in Tab : run[t].st = "none" /\ stream[t].st = "none"
  BY DEF Init, NoRun, NoStream
<1> QED
  BY <1>1, InitTyped DEF ShownInv

LEMMA NextShown == ShownInv /\ [Next]_vars => ShownInv'
<1> SUFFICES ASSUME ShownInv, [Next]_vars PROVE ShownInv'
  OBVIOUS
<1>1. /\ Typed /\ Typed'
      /\ \A u \in Tab : run[u].gen \in Generation /\ stream[u].seen \in Nat
      /\ \A g \in Generation : LogGrows(g)
      /\ \A g \in Generation : Len(Log(g)) \in Nat /\ Len(Log(g)') \in Nat /\ Len(Log(g)) <= Len(Log(g)')
  <2>1. Typed /\ Typed'
    BY NextTyped DEF ShownInv
  <2>2. \A g \in Generation : LogGrows(g)
    BY <2>1, LogsGrow
  <2>3. \A g \in Generation : Log(g) \in Seq(Message) /\ Log(g)' \in Seq(Message)
    BY <2>1, ThreadFacts DEF Typed, TypeOK, Generation, History, Log
  <2>4. \A g \in Generation : Len(Log(g)) \in Nat /\ Len(Log(g)') \in Nat
    BY <2>3
  <2>5. \A u \in Tab : run[u].gen \in Generation /\ stream[u].seen \in Nat
    BY <2>1 DEF Typed, TypeOK, TaskRecord, Stream, Generation
  <2> QED
    BY <2>1, <2>2, <2>4, <2>5 DEF LogGrows
<1> DEFINE Obeys(u) ==
             /\ stream[u].st = "none" <=> run[u].st = "none"
             /\ stream[u].st # "none" => page[u].loading
             /\ stream[u].st = "closing" => run[u].st = "ended" /\ run[u].mine \subseteq stream[u].shown
             /\ \A g \in Generation : g = run[u].gen /\ stream[u].st = "polling" =>
                  /\ stream[u].seen <= Len(Log(g))
                  /\ run[u].mine \subseteq stream[u].shown \cup (stream[u].seen + 1)..Len(Log(g))
<1>2. \A u \in Tab : Obeys(u)
  BY DEF ShownInv
<1>3. ASSUME \A u \in Tab : Obeys(u)' PROVE ShownInv'
  BY <1>1, <1>3 DEF ShownInv
\* Tabs whose task and stream stay are served by a log that only grows.
<1>4. ASSUME NEW u \in Tab, run'[u] = run[u], stream'[u] = stream[u],
             page'[u].loading = page[u].loading
      PROVE  Obeys(u)'
  <2>1. ASSUME NEW g \in Generation, g = run[u].gen, stream[u].st = "polling"
        PROVE  /\ stream[u].seen <= Len(Log(g)')
               /\ run[u].mine \subseteq stream[u].shown \cup (stream[u].seen + 1)..Len(Log(g)')
    <3>1. /\ stream[u].seen <= Len(Log(g))
          /\ run[u].mine \subseteq stream[u].shown \cup (stream[u].seen + 1)..Len(Log(g))
      BY <1>2, <2>1
    <3>2. (stream[u].seen + 1)..Len(Log(g)) \subseteq (stream[u].seen + 1)..Len(Log(g)')
      BY <1>1
    <3> QED
      BY <1>1, <3>1, <3>2
  <2> QED
    BY <1>2, <1>4, <2>1
<1> HIDE DEF Obeys
<1>5. ASSUME NEW t \in Tab, Request(t) PROVE \A u \in Tab : Obeys(u)'
  <2>1. CASE NoTask(t)
    BY <1>4, <2>1 DEF NoTask
  <2>2. CASE NewTask(t)
    <3>1. ASSUME NEW u \in Tab, u # t PROVE Obeys(u)'
      BY <1>4, <2>2, <3>1 DEF NewTask
    <3>2. Obeys(t)'
      <4>1. /\ run'[t].st = "created" /\ stream'[t].st = "polling" /\ page'[t].loading
            /\ run'[t].mine = {} /\ run'[t].gen = generation
        BY <2>2 DEF NewTask
      <4>2. \A g \in Generation : g = generation => stream'[t].seen <= Len(Log(g)')
        BY <1>1, <2>2 DEF NewTask
      <4> QED
        BY <4>1, <4>2 DEF Obeys
    <3> QED
      BY <3>1, <3>2
  <2> QED
    BY <1>1, <1>5, <2>1, <2>2, RequestFrame
<1>6. ASSUME NEW t \in Tab, Task(t) PROVE \A u \in Tab : Obeys(u)'
  <2>1. /\ \A u \in Tab : u # t => run'[u] = run[u]
        /\ run'[t].gen = run[t].gen
        /\ run[t].st \in {"created", "resolving", "running"} /\ run'[t].st # "none"
        /\ stream' = stream /\ page' = page
        /\ \A g \in Generation : g = run[t].gen =>
             run'[t].mine \subseteq run[t].mine \cup (Len(Log(g)) + 1)..Len(Log(g)')
    BY <1>1, <1>6, MineFrame
  <2>2. ASSUME NEW u \in Tab, u # t PROVE Obeys(u)'
    BY <1>4, <2>1, <2>2
  <2>3. Obeys(t)'
    <3>1. stream[t].st = "polling" /\ page[t].loading
      <4>1. stream[t].st \in {"none", "polling", "closing"}
        BY <1>1 DEF Typed, TypeOK, Stream
      <4> QED
        BY <1>2, <2>1, <4>1 DEF Obeys
    <3>2. ASSUME NEW g \in Generation, g = run[t].gen
          PROVE  /\ stream[t].seen <= Len(Log(g)')
                 /\ run'[t].mine \subseteq stream[t].shown \cup (stream[t].seen + 1)..Len(Log(g)')
      <4>1. /\ stream[t].seen <= Len(Log(g))
            /\ run[t].mine \subseteq stream[t].shown \cup (stream[t].seen + 1)..Len(Log(g))
        BY <1>2, <3>1, <3>2 DEF Obeys
      <4>2. /\ (stream[t].seen + 1)..Len(Log(g)) \subseteq (stream[t].seen + 1)..Len(Log(g)')
            /\ (Len(Log(g)) + 1)..Len(Log(g)') \subseteq (stream[t].seen + 1)..Len(Log(g)')
        BY <1>1, <4>1
      <4>3. run'[t].mine \subseteq run[t].mine \cup (Len(Log(g)) + 1)..Len(Log(g)')
        BY <2>1, <3>2
      <4> QED
        BY <1>1, <4>1, <4>2, <4>3
    <3> QED
      BY <2>1, <3>1, <3>2 DEF Obeys
  <2> QED
    BY <2>2, <2>3
<1>7. ASSUME NEW t \in Tab, Generator(t) PROVE \A u \in Tab : Obeys(u)'
  <2> PICK g \in Generation : g = run[t].gen
    BY <1>1
  <2>1. hist' = hist /\ Log(g)' = Log(g)
    BY <1>7, GeneratorKinds DEF Log
  <2>2. CASE Close(t)
    <3>1. ASSUME NEW u \in Tab, u # t PROVE Obeys(u)'
      BY <1>1, <1>4, <2>2, <3>1, CloseFrame
    <3>2. Obeys(t)'
      BY <1>1, <2>2, CloseFrame DEF Obeys
    <3> QED
      BY <3>1, <3>2
  <2>3. ASSUME NEW completed, Flush(t, completed), stream[t].st = "polling", run' = run
        PROVE  \A u \in Tab : Obeys(u)'
    <3>1. /\ \A u \in Tab : u # t => stream'[u] = stream[u] /\ page'[u] = page[u]
          /\ \A u \in Tab : page'[u].loading = page[u].loading
          /\ stream'[t].seen = IF Len(Log(g)) > stream[t].seen THEN Len(Log(g)) ELSE stream[t].seen
          /\ stream'[t].shown = stream[t].shown \cup (stream[t].seen + 1)..Len(Log(g))
          /\ stream'[t].st = IF run[t].st = "ended" THEN "closing" ELSE "polling"
      BY <1>1, <2>3, FlushFrame
    <3>2. ASSUME NEW u \in Tab, u # t PROVE Obeys(u)'
      BY <1>4, <2>3, <3>1, <3>2
    <3>3. /\ stream[t].seen <= Len(Log(g))
          /\ run[t].mine \subseteq stream[t].shown \cup (stream[t].seen + 1)..Len(Log(g))
          /\ run[t].st # "none" /\ page[t].loading
      BY <1>2, <2>3 DEF Obeys
    <3>4. stream'[t].seen <= Len(Log(g)) /\ run[t].mine \subseteq stream'[t].shown
      BY <1>1, <3>1, <3>3
    <3>5. /\ stream'[t].st # "none"
          /\ stream'[t].st = "closing" => run[t].st = "ended"
      BY <3>1
    <3>6. Obeys(t)'
      BY <2>1, <2>3, <3>1, <3>3, <3>4, <3>5 DEF Obeys
    <3> QED
      BY <3>2, <3>6
  <2> QED
    BY <1>7, <2>2, <2>3, GeneratorKinds
<1>8. ASSUME NEW token \in Token, ApiToken(token) PROVE \A u \in Tab : Obeys(u)'
  BY <1>4, <1>8 DEF ApiToken
<1>9. CASE UNCHANGED vars
  BY <1>3, <1>4, <1>9 DEF vars
<1> QED
  BY <1>3, <1>5, <1>6, <1>7, <1>8, <1>9 DEF Next

\* When a stream is over it has shown every message its run committed, also
\* those committed between the last poll and the end (demo_server.py:600).
THEOREM SafeEveryMessageShown == Spec => []EveryMessageShown
<1>1. Spec => []ShownInv
  BY InitShown, NextShown, PTL DEF Spec
<1>2. ShownInv => EveryMessageShown
  BY DEF ShownInv, EveryMessageShown
<1> QED
  BY <1>1, <1>2, PTL

-----------------------------------------------------------------------------
(* The side bar does not go back                                           *)

\* Plans have versions of the past, each its own.
Versions ==
    \A g \in Generation : \A i \in PlanCalls(Log(g)) :
        /\ Log(g)[i].n < fresh
        /\ \A j \in PlanCalls(Log(g)) : Log(g)[j].n = Log(g)[i].n => j = i

\* What the side bar of a stream shows was done after the plan it shows.
SideBar ==
    \A t \in Tab : \A g \in Generation :
        g = run[t].gen /\ stream[t].st = "polling" /\ stream[t].sig # <<>> =>
          \E i \in PlanCalls(Log(g)) :
            /\ Log(g)[i].n = page[t].side.version
            /\ page[t].side.done <= CountDone(After(Log(g), i))

PlanInv == ApprovalInv /\ ShownInv /\ Versions /\ SideBar

\* Plans stay where they are, and what is done after a plan stays done.
LEMMA PlansKept ==
    ASSUME ApprovalInv, [Next]_vars, NEW g \in Generation
    PROVE  /\ \A i \in PlanCalls(Log(g)) :
                /\ i \in PlanCalls(Log(g)') /\ Log(g)'[i] = Log(g)[i]
                /\ CountDone(After(Log(g), i)) <= CountDone(After(Log(g)', i))
           /\ \A i \in PlanCalls(Log(g)') :
                \/ i \in PlanCalls(Log(g)) /\ Log(g)'[i] = Log(g)[i]
                \/ i = Len(Log(g)) + 1 /\ Log(g)'[i].n = fresh /\ fresh' = fresh + 1
<1>1. Log(g) \in Seq(Message) /\ Log(g)' \in Seq(Message)
  <2>1. Typed'
    BY NextTyped DEF ApprovalInv
  <2> QED
    BY <2>1, ThreadFacts DEF ApprovalInv, Typed, TypeOK, Generation, History, Log
<1>2. LogGrows(g)
  BY LogsGrow DEF ApprovalInv
<1>3. \A i \in 1..Len(Log(g)) :
        \/ Log(g)'[i] = Log(g)[i]
        \/ /\ Log(g)[i].k \in OfPending
           /\ Log(g)'[i].k \in {"executed", "rejected", "refused"}
  BY <1>2 DEF LogGrows, ApprovalInv
<1>4. /\ Len(Log(g)) \in Nat /\ Len(Log(g)') \in Nat /\ Len(Log(g)) <= Len(Log(g)')
      /\ DOMAIN Log(g) = 1..Len(Log(g)) /\ DOMAIN Log(g)' = 1..Len(Log(g)')
  BY <1>1, <1>2 DEF LogGrows
<1>5. ASSUME NEW i \in PlanCalls(Log(g))
      PROVE  i \in PlanCalls(Log(g)') /\ Log(g)'[i] = Log(g)[i]
  BY <1>3, <1>4, <1>5 DEF PlanCalls, OfPending
<1>6. ASSUME NEW i \in PlanCalls(Log(g))
      PROVE  CountDone(After(Log(g), i)) <= CountDone(After(Log(g)', i))
  <2> DEFINE Done(msgs) == {j \in DOMAIN msgs :
                 msgs[j].k \in {"ok", "proposed", "executed", "rejected", "refused"}}
             old == After(Log(g), i)
             new == After(Log(g)', i)
  <2>1. i \in 0..Len(Log(g)) /\ i \in 0..Len(Log(g)') /\ i \in Nat
    BY <1>4 DEF PlanCalls
  <2>2. /\ old \in Seq(Message) /\ Len(old) = Len(Log(g)) - i
        /\ \A j \in 1..(Len(Log(g)) - i) : old[j] = Log(g)[i + j]
    BY <1>1, <2>1, AfterFacts
  <2>3. /\ new \in Seq(Message) /\ Len(new) = Len(Log(g)') - i
        /\ \A j \in 1..(Len(Log(g)') - i) : new[j] = Log(g)'[i + j]
    BY <1>1, <2>1, AfterFacts
  <2>4. ASSUME NEW j \in Done(old) PROVE j \in Done(new)
    <3>1. j \in 1..(Len(Log(g)) - i)
      BY <2>2
    <3>2. i + j \in 1..Len(Log(g)) /\ j \in 1..(Len(Log(g)') - i)
      BY <1>4, <2>1, <3>1
    <3>3. new[j] = old[j] \/ new[j].k \in {"executed", "rejected", "refused"}
      BY <1>3, <2>2, <2>3, <3>1, <3>2
    <3>4. j \in DOMAIN new
      BY <2>3, <3>2
    <3> QED
      BY <2>4, <3>3, <3>4
  <2>5. IsFiniteSet(Done(new))
    <3>1. DOMAIN new = 1..Len(new) /\ Len(new) \in Nat
      BY <2>3
    <3>2. IsFiniteSet(DOMAIN new)
      BY <3>1, FS_Interval
    <3> QED
      BY <3>2, FS_Subset
  <2>6. Cardinality(Done(old)) <= Cardinality(Done(new))
    BY <2>4, <2>5, FS_Subset
  <2> QED
    BY <2>6 DEF CountDone
<1>7. ASSUME NEW i \in PlanCalls(Log(g)'), i \in 1..Len(Log(g))
      PROVE  i \in PlanCalls(Log(g)) /\ Log(g)'[i] = Log(g)[i]
  BY <1>3, <1>4, <1>7 DEF PlanCalls
<1>8. ASSUME NEW i \in PlanCalls(Log(g)'), i \notin 1..Len(Log(g))
      PROVE  i = Len(Log(g)) + 1 /\ Log(g)'[i].n = fresh /\ fresh' = fresh + 1
  <2>1. i \in (Len(Log(g)) + 1)..Len(Log(g)') /\ Log(g)'[i].k = "plan"
    BY <1>4, <1>8 DEF PlanCalls
  <2> QED
    BY <1>2, <2>1 DEF LogGrows
<1> QED
  BY <1>5, <1>6, <1>7, <1>8

LEMMA FreshGrows ==
    ASSUME Typed, [Next]_vars
    PROVE  fresh \in Nat /\ fresh' \in Nat /\ fresh <= fresh'
<1>1. fresh \in Nat
  BY DEF Typed, TypeOK
<1>2. fresh' \in {fresh, fresh + 1, fresh + 2}
  <2>1. ASSUME NEW t \in Tab, Request(t) PROVE fresh' = fresh
    BY <2>1, RequestFrame DEF NoTask, NewTask
  <2>2. ASSUME NEW t \in Tab, Turn(t) PROVE fresh' \in {fresh, fresh + 1, fresh + 2}
    <3>1. ASSUME NEW calls \in 1..2, TurnExecute(t, calls)
          PROVE  fresh' \in {fresh, fresh + 1, fresh + 2}
      <4>1. fresh' = fresh + calls /\ (calls = 1 \/ calls = 2)
        BY <3>1 DEF TurnExecute
      <4> QED
        BY <4>1
    <3>2. ASSUME Turn(t), ~\E calls \in 1..2 : TurnExecute(t, calls)
          PROVE  fresh' \in {fresh, fresh + 1}
      BY <3>2 DEF Turn, TurnPlan, TurnCall, TurnPropose, TurnAnswer, TurnGiveUp, TurnFuse
    <3> QED
      BY <2>2, <3>1, <3>2
  <2>3. ASSUME NEW t \in Tab, StartRun(t) \/ ResolveNext(t) \/ Settle(t) PROVE fresh' = fresh
    BY <2>3 DEF StartRun, ResolveNext, Settle
  <2>4. ASSUME NEW t \in Tab, Generator(t) PROVE fresh' = fresh
    BY <2>4, GeneratorKinds
  <2>5. ASSUME NEW token \in Token, ApiToken(token) PROVE fresh' = fresh
    BY <2>5 DEF ApiToken
  <2> QED
    BY <2>1, <2>2, <2>3, <2>4, <2>5 DEF Next, Task, vars
<1> QED
  BY <1>1, <1>2

LEMMA VersionsKept ==
    ASSUME ApprovalInv, Versions, [Next]_vars
    PROVE  Versions'
<1> SUFFICES ASSUME NEW g \in Generation, NEW i \in PlanCalls(Log(g)')
             PROVE  /\ Log(g)'[i].n < fresh'
                    /\ \A j \in PlanCalls(Log(g)') : Log(g)'[j].n = Log(g)'[i].n => j = i
  BY DEF Versions, Generation
<1>1. fresh \in Nat /\ fresh' \in Nat /\ fresh <= fresh'
  BY FreshGrows DEF ApprovalInv
<1>2. \A j \in PlanCalls(Log(g)') :
        \/ j \in PlanCalls(Log(g)) /\ Log(g)'[j] = Log(g)[j]
        \/ j = Len(Log(g)) + 1 /\ Log(g)'[j].n = fresh /\ fresh' = fresh + 1
  BY PlansKept
<1>3. \A j \in PlanCalls(Log(g)) : Log(g)[j].n \in Nat /\ Log(g)[j].n < fresh
  <2>1. Log(g) \in Seq(Message)
    BY ThreadFacts DEF ApprovalInv, Typed
  <2>2. \A j \in PlanCalls(Log(g)) : Log(g)[j] \in Message
    BY <2>1 DEF PlanCalls
  <2> QED
    BY <2>2 DEF Versions, Message
<1>4. Log(g)'[i].n < fresh'
  BY <1>1, <1>2, <1>3
<1>5. ASSUME NEW j \in PlanCalls(Log(g)'), Log(g)'[j].n = Log(g)'[i].n
      PROVE  j = i
  <2>1. CASE i \in PlanCalls(Log(g)) /\ Log(g)'[i] = Log(g)[i]
    <3>1. CASE j \in PlanCalls(Log(g)) /\ Log(g)'[j] = Log(g)[j]
      BY <1>5, <2>1, <3>1 DEF Versions
    <3>2. CASE Log(g)'[j].n = fresh
      BY <1>1, <1>3, <1>5, <2>1, <3>2
    <3> QED
      BY <1>2, <3>1, <3>2
  <2>2. CASE i = Len(Log(g)) + 1 /\ Log(g)'[i].n = fresh
    BY <1>1, <1>2, <1>3, <1>5, <2>2
  <2> QED
    BY <1>2, <2>1, <2>2
<1> QED
  BY <1>4, <1>5

\* How a step changes what a page shows of the plan while its stream polls.
LEMMA SideFrame ==
    ASSUME ApprovalInv, ShownInv, [Next]_vars, NEW u \in Tab
    PROVE  \/ /\ page'[u].side = page[u].side
              /\ stream'[u].sig = stream[u].sig /\ stream'[u].st = stream[u].st
              /\ run'[u].gen = run[u].gen
           \/ stream[u].st = "none" /\ (stream'[u].st = "none" \/ stream'[u].sig = <<>>)
           \/ stream'[u].st = "none"
           \/ /\ \E completed : Flush(u, completed) /\ (completed => run[u].st = "ended")
              /\ run' = run /\ stream[u].st = "polling" /\ hist' = hist
<1>1. Typed
  BY DEF ApprovalInv
<1>2. ASSUME NEW t \in Tab, Request(t), t # u
      PROVE  /\ page'[u].side = page[u].side /\ stream'[u] = stream[u] /\ run'[u] = run[u]
  BY <1>1, <1>2, RequestFrame DEF NoTask, NewTask
<1>3. ASSUME Request(u)
      PROVE  stream[u].st = "none" /\ (stream'[u].st = "none" \/ stream'[u].sig = <<>>)
  BY <1>1, <1>3, RequestFrame DEF NoTask, NewTask, ShownInv
<1>4. ASSUME NEW t \in Tab, Task(t)
      PROVE  /\ page' = page /\ stream' = stream /\ run'[u].gen = run[u].gen
  BY <1>1, <1>4, MineFrame
<1>5. ASSUME NEW t \in Tab, Generator(t), t # u
      PROVE  page'[u] = page[u] /\ stream'[u] = stream[u] /\ run'[u] = run[u]
  <2>1. CASE Close(t)
    BY <1>1, <1>5, <2>1, CloseFrame
  <2>2. ASSUME NEW completed, Flush(t, completed), run' = run
        PROVE  page'[u] = page[u] /\ stream'[u] = stream[u] /\ run'[u] = run[u]
    <3> PICK g \in Generation : g = run[t].gen
      BY <1>1 DEF Typed, TypeOK, TaskRecord, Generation
    <3> QED
      BY <1>1, <1>5, <2>2, FlushFrame
  <2> QED
    BY <1>5, <2>1, <2>2, GeneratorKinds
<1>6. ASSUME Generator(u)
      PROVE  \/ stream'[u].st = "none"
             \/ /\ \E completed : Flush(u, completed) /\ (completed => run[u].st = "ended")
                /\ run' = run /\ stream[u].st = "polling" /\ hist' = hist
  BY <1>1, <1>6, GeneratorKinds, CloseFrame
<1>7. ASSUME NEW token \in Token, ApiToken(token)
      PROVE  page' = page /\ stream' = stream /\ run' = run
  BY <1>7 DEF ApiToken
<1> QED
  BY <1>2, <1>3, <1>4, <1>5, <1>6, <1>7 DEF Next, vars

\* What a flush shows of the plan.
LEMMA FlushedPlan ==
    ASSUME Typed, NEW u \in Tab, NEW completed, Flush(u, completed),
           NEW g \in Generation, g = run[u].gen,
           PlanCalls(Log(g)) # {}, page'[u].side = ProjectPlan(Log(g), completed)
    PROVE  /\ LastPlan(Log(g)) \in PlanCalls(Log(g))
           /\ page'[u].side.version = Log(g)[LastPlan(Log(g))].n
           /\ page'[u].side.done =
                IF completed \/ CountDone(After(Log(g), LastPlan(Log(g)))) > PlanSteps
                THEN PlanSteps ELSE CountDone(After(Log(g), LastPlan(Log(g))))
           /\ CountDone(After(Log(g), LastPlan(Log(g)))) \in Nat
<1>1. Log(g) \in Seq(Message)
  BY ThreadFacts DEF Typed
<1>3. LastPlan(Log(g)) \in PlanCalls(Log(g))
  BY <1>1, LastPlanFacts
<1>4. AfterLastPlan(Log(g)) = After(Log(g), LastPlan(Log(g)))
  BY DEF AfterLastPlan
<1>5. CountDone(After(Log(g), LastPlan(Log(g)))) \in Nat
  <2>1. LastPlan(Log(g)) \in 0..Len(Log(g))
    BY <1>1, <1>3 DEF PlanCalls
  <2> QED
    BY <1>1, <2>1, AfterFacts, CountDoneNat
<1>6. /\ ProjectPlan(Log(g), completed).version = Log(g)[LastPlan(Log(g))].n
      /\ ProjectPlan(Log(g), completed).done =
           IF completed \/ CountDone(AfterLastPlan(Log(g))) > PlanSteps
           THEN PlanSteps ELSE CountDone(AfterLastPlan(Log(g)))
  BY <1>1, ProjectionTyped
<1> QED
  BY <1>3, <1>4, <1>5, <1>6

LEMMA SideBarKept ==
    ASSUME PlanInv, [Next]_vars
    PROVE  SideBar'
<1> SUFFICES ASSUME NEW u \in Tab, NEW g \in Generation,
                    g = run'[u].gen, stream'[u].st = "polling", stream'[u].sig # <<>>
             PROVE  \E i \in PlanCalls(Log(g)') :
                      /\ Log(g)'[i].n = page'[u].side.version
                      /\ page'[u].side.done <= CountDone(After(Log(g)', i))
  BY DEF SideBar, Generation
<1>1. /\ Typed /\ ApprovalInv /\ ShownInv /\ PlanSteps \in Nat
      /\ page[u].side.done \in 0..PlanSteps
  BY DemoAssumption DEF PlanInv, ApprovalInv, Typed, TypeOK, Page
<1>2. ASSUME NEW i \in PlanCalls(Log(g)), Log(g)[i].n = page'[u].side.version,
             page'[u].side.done <= CountDone(After(Log(g), i)), page'[u].side.done \in Nat
      PROVE  \E j \in PlanCalls(Log(g)') :
               /\ Log(g)'[j].n = page'[u].side.version
               /\ page'[u].side.done <= CountDone(After(Log(g)', j))
  <2>1. /\ i \in PlanCalls(Log(g)') /\ Log(g)'[i] = Log(g)[i]
        /\ CountDone(After(Log(g), i)) <= CountDone(After(Log(g)', i))
    BY <1>1, <1>2, PlansKept
  <2>2. CountDone(After(Log(g), i)) \in Nat /\ CountDone(After(Log(g)', i)) \in Nat
    <3>1. Log(g) \in Seq(Message) /\ Log(g)' \in Seq(Message)
      <4>1. Typed'
        BY <1>1, NextTyped
      <4> QED
        BY <1>1, <4>1, ThreadFacts DEF Typed, TypeOK, Generation, History, Log
    <3>2. i \in 0..Len(Log(g)) /\ i \in 0..Len(Log(g)')
      BY <2>1, <3>1 DEF PlanCalls
    <3> QED
      BY <3>1, <3>2, AfterFacts, CountDoneNat
  <2> QED
    BY <1>2, <2>1, <2>2
<1>3. CASE /\ page'[u].side = page[u].side
           /\ stream'[u].sig = stream[u].sig /\ stream'[u].st = stream[u].st
           /\ run'[u].gen = run[u].gen
  <2>1. PICK i \in PlanCalls(Log(g)) :
          /\ Log(g)[i].n = page[u].side.version
          /\ page[u].side.done <= CountDone(After(Log(g), i))
    BY <1>3 DEF PlanInv, SideBar
  <2> QED
    BY <1>1, <1>2, <1>3, <2>1
<1>4. ASSUME NEW completed, Flush(u, completed), completed => run[u].st = "ended",
             run' = run, stream[u].st = "polling"
      PROVE  \E i \in PlanCalls(Log(g)') :
               /\ Log(g)'[i].n = page'[u].side.version
               /\ page'[u].side.done <= CountDone(After(Log(g)', i))
  <2>1. g = run[u].gen
    BY <1>4
  <2>2. run[u].st # "ended"
    BY <1>1, <1>4, <2>1, FlushFrame
  <2>3. CASE page'[u].side = page[u].side /\ stream'[u].sig = stream[u].sig
    <3>1. PICK i \in PlanCalls(Log(g)) :
            /\ Log(g)[i].n = page[u].side.version
            /\ page[u].side.done <= CountDone(After(Log(g), i))
      BY <1>4, <2>1, <2>3 DEF PlanInv, SideBar
    <3> QED
      BY <1>1, <1>2, <2>3, <3>1
  <2>4. CASE PlanCalls(Log(g)) # {} /\ page'[u].side = ProjectPlan(Log(g), completed)
    <3> DEFINE i == LastPlan(Log(g))
    <3>1. /\ i \in PlanCalls(Log(g))
          /\ page'[u].side.version = Log(g)[i].n
          /\ page'[u].side.done =
               IF completed \/ CountDone(After(Log(g), i)) > PlanSteps
               THEN PlanSteps ELSE CountDone(After(Log(g), i))
          /\ CountDone(After(Log(g), i)) \in Nat
      BY <1>1, <1>4, <2>1, <2>4, FlushedPlan
    <3> HIDE DEF i
    <3>2. /\ Log(g)[i].n = page'[u].side.version
          /\ page'[u].side.done <= CountDone(After(Log(g), i))
          /\ page'[u].side.done \in Nat
      BY <1>1, <1>4, <2>2, <3>1
    <3> QED
      BY <1>2, <3>1, <3>2
  <2> QED
    BY <1>1, <1>4, <2>1, <2>3, <2>4, FlushFrame
<1> QED
  BY <1>1, <1>3, <1>4, SideFrame

LEMMA InitPlan == Init => PlanInv
<1> SUFFICES ASSUME Init PROVE PlanInv
  OBVIOUS
<1>1. \A g \in Generation : Log(g) = <<>>
  BY DEF Init, EmptyHistory, Log, Generation
<1>2. \A t \in Tab : stream[t].st = "none"
  BY DEF Init, NoStream
<1>3. Versions
  BY <1>1 DEF Versions, PlanCalls
<1>4. SideBar
  BY <1>2 DEF SideBar
<1> QED
  BY <1>3, <1>4, InitApproval, InitShown DEF PlanInv

LEMMA NextPlan == PlanInv /\ [Next]_vars => PlanInv'
  BY NextApproval, NextShown, VersionsKept, SideBarKept DEF PlanInv

\* No step takes back a finished step of the plan on show.
LEMMA PlanStep ==
    ASSUME PlanInv, [Next]_vars, NEW u \in Tab,
           stream[u].st = "polling", stream'[u].st # "none", stream[u].sig # <<>>,
           page'[u].side.version = page[u].side.version
    PROVE  page'[u].side.done >= page[u].side.done
<1>1. /\ Typed /\ ApprovalInv /\ ShownInv /\ PlanSteps \in Nat
      /\ page[u].side.done \in 0..PlanSteps
  BY DemoAssumption DEF PlanInv, ApprovalInv, Typed, TypeOK, Page
<1>2. CASE page'[u].side = page[u].side
  BY <1>1, <1>2
<1>3. ASSUME NEW completed, Flush(u, completed), page'[u].side # page[u].side
      PROVE  page'[u].side.done >= page[u].side.done
  <2> PICK g \in Generation : g = run[u].gen
    BY <1>1 DEF Typed, TypeOK, TaskRecord, Generation
  <2> DEFINE last == LastPlan(Log(g))
  <2>0. PlanCalls(Log(g)) # {} /\ page'[u].side = ProjectPlan(Log(g), completed)
    BY <1>1, <1>3, FlushFrame
  <2>1. /\ last \in PlanCalls(Log(g))
        /\ page'[u].side.version = Log(g)[last].n
        /\ page'[u].side.done =
             IF completed \/ CountDone(After(Log(g), last)) > PlanSteps
             THEN PlanSteps ELSE CountDone(After(Log(g), last))
        /\ CountDone(After(Log(g), last)) \in Nat
    BY <1>1, <1>3, <2>0, FlushedPlan
  <2> HIDE DEF last
  <2>2. PICK i \in PlanCalls(Log(g)) :
          /\ Log(g)[i].n = page[u].side.version
          /\ page[u].side.done <= CountDone(After(Log(g), i))
    BY DEF PlanInv, SideBar
  <2>3. i = last
    BY <2>1, <2>2 DEF PlanInv, Versions
  <2> QED
    BY <1>1, <2>1, <2>2, <2>3
<1> QED
  BY <1>1, <1>2, <1>3, SideFrame

\* Within one stream the side bar never takes back a finished step of a plan
\* (demo_server.py:381-400), whatever other pages commit to the thread.
THEOREM SafePlanForward == Spec => PlanForward
<1>1. Spec => []PlanInv
  BY InitPlan, NextPlan, PTL DEF Spec
<1>2. PlanInv /\ [Next]_vars =>
        [\A t \in Tab :
          ( /\ stream[t].st = "polling" /\ stream'[t].st # "none" /\ stream[t].sig # <<>>
            /\ page'[t].side.version = page[t].side.version )
          => page'[t].side.done >= page[t].side.done]_vars
  BY PlanStep
<1> QED
  BY <1>1, <1>2, PTL DEF Spec, PlanForward

-----------------------------------------------------------------------------
(* What the user is asked about stays there to be carried out              *)

Waiting(g) == LastStatus(g) = "awaiting_confirmation"

PendingKept(g) ==
    \A i \in DOMAIN LastPending(g) : LastPending(g)[i].handle \in proposals[g] \cup {NoHandle}

\* The task has resolved its batch, or found or left none.
PastBatch(t) ==
    \/ run[t].st = "running"
    \/ run[t].st = "ended" /\ run[t].status # "awaiting_confirmation"

\* With one page, its task works on the generation of the moment; once it
\* resolved the batch or found none, and after it ended without one, the thread
\* does not wait; and while it waits and nobody resolves, its proposals are
\* there.
WaitInv ==
    /\ ShownInv
    /\ \A t \in Tab : run[t].st # "none" => run[t].gen = generation
    /\ \A g \in Generation : g > generation => Boundaries(g) = <<>>
    /\ \A g \in Generation : g = generation =>
         /\ \A t \in Tab : PastBatch(t) => ~Waiting(g)
         /\ Waiting(g) => (\E t \in Tab : run[t].st = "resolving") \/ PendingKept(g)

\* The boundary of a commit is the last one.
LEMMA CommittedLast ==
    ASSUME Typed, NEW g \in Generation, NEW b \in BoundaryRecord,
           Boundaries(g)' = Append(Boundaries(g), b)
    PROVE  LastStatus(g)' = b.status /\ LastPending(g)' = b.pend
<1>1. Boundaries(g) \in Seq(BoundaryRecord)
  BY ThreadFacts DEF Typed
<1>2. /\ Append(Boundaries(g), b) # <<>>
      /\ Append(Boundaries(g), b)[Len(Append(Boundaries(g), b))] = b
  BY <1>1
<1> QED
  BY <1>2 DEF LastStatus, LastPending, Last

LEMMA InitWait == Init => WaitInv
<1> SUFFICES ASSUME Init PROVE WaitInv
  OBVIOUS
<1>1. \A t \in Tab : run[t].st = "none"
  BY DEF Init, NoRun
<1>2. \A g \in Generation : Boundaries(g) = <<>>
  BY DEF Init, EmptyHistory, Boundaries, Generation
<1>3. \A g \in Generation : ~Waiting(g)
  BY <1>2 DEF Waiting, LastStatus
<1> QED
  BY <1>1, <1>2, <1>3, InitShown DEF WaitInv, PastBatch

\* A step that leaves the generation, the boundaries and the proposals alone.
LEMMA WaitFrame ==
    ASSUME WaitInv, ShownInv', UNCHANGED <<generation, hist, proposals>>,
           \A u \in Tab : run'[u].st # "none" => run'[u].gen = generation,
           \A u \in Tab : PastBatch(u)' => ~Waiting(generation),
           Waiting(generation) /\ (\E u \in Tab : run[u].st = "resolving")
             => \E u \in Tab : run'[u].st = "resolving"
    PROVE  WaitInv'
<1>1. \A g \in Generation : /\ Boundaries(g)' = Boundaries(g)
                            /\ Waiting(g)' = Waiting(g)
                            /\ PendingKept(g)' = PendingKept(g)
  BY DEF Boundaries, Waiting, LastStatus, PendingKept, LastPending
<1>2. \A g \in Generation : g = generation => (Waiting(g) <=> Waiting(generation))
  OBVIOUS
<1> QED
  BY <1>1, <1>2 DEF WaitInv

LEMMA NextWait ==
    ASSUME NEW t, Tab = {t}, WaitInv, [Next]_vars
    PROVE  WaitInv'
<1>1. /\ Typed /\ Typed' /\ ShownInv /\ ShownInv' /\ t \in Tab
      /\ generation \in Generation /\ run[t].gen \in Generation
      /\ run \in [Tab -> TaskRecord] /\ run[t] \in TaskRecord
      /\ \A u \in Tab : u = t
  <2>1. ShownInv /\ ShownInv' /\ t \in Tab /\ \A u \in Tab : u = t
    BY NextShown DEF WaitInv, PastBatch
  <2>2. Typed /\ Typed'
    BY <2>1 DEF ShownInv
  <2>3. run \in [Tab -> TaskRecord] /\ generation \in Generation
    BY <2>2 DEF Typed, TypeOK, Generation
  <2>4. run[t] \in TaskRecord
    BY <2>1, <2>3
  <2>5. run[t].gen \in Generation
    BY <2>4 DEF TaskRecord, Generation
  <2> QED
    BY <2>1, <2>2, <2>3, <2>4, <2>5
<1> PICK g \in Generation : g = generation
  BY <1>1
<1>2. /\ run[t].st # "none" => run[t].gen = g
      /\ PastBatch(t) => ~Waiting(g)
      /\ Waiting(g) => run[t].st = "resolving" \/ PendingKept(g)
      /\ \A o \in Generation : o > g => Boundaries(o) = <<>>
  BY <1>1 DEF WaitInv, PastBatch
\* A commit of a boundary after which the thread does not wait, or keeps what
\* it waits for.
<1>3. ASSUME NEW b \in BoundaryRecord, generation' = generation,
             Boundaries(g)' = Append(Boundaries(g), b),
             \A o \in Generation : o # g => hist'[o] = hist[o],
             run'[t].st # "none" => run'[t].gen = g,
             \/ b.status # "awaiting_confirmation"
             \/ /\ run'[t].st = "ended" /\ run'[t].status = "awaiting_confirmation"
                /\ \A i \in DOMAIN b.pend : b.pend[i].handle \in proposals'[g] \cup {NoHandle}
      PROVE  WaitInv'
  <2>1. LastStatus(g)' = b.status /\ LastPending(g)' = b.pend
    BY <1>1, <1>3, CommittedLast
  <2>2. \A o \in Generation : o > g => Boundaries(o)' = <<>>
    <3>1. g \in Int
      BY DEF Generation
    <3> QED
      BY <1>2, <1>3, <3>1 DEF Boundaries, Generation
  <2>3. CASE b.status # "awaiting_confirmation"
    <3>1. ~Waiting(g)'
      BY <2>1, <2>3 DEF Waiting
    <3> QED
      BY <1>1, <1>3, <2>2, <3>1 DEF WaitInv, PastBatch
  <2>4. CASE /\ run'[t].st = "ended" /\ run'[t].status = "awaiting_confirmation"
             /\ \A i \in DOMAIN b.pend : b.pend[i].handle \in proposals'[g] \cup {NoHandle}
    <3>1. PendingKept(g)'
      BY <2>1, <2>4 DEF PendingKept
    <3> QED
      BY <1>1, <1>3, <2>2, <2>4, <3>1 DEF WaitInv, PastBatch
  <2> QED
    BY <1>3, <2>3, <2>4
<1>4. CASE Request(t)
  <2>1. CASE ApiChat(t)
    <3> DEFINE b == Boundary("user", LastSeq(generation) + 1, <<>>)
    <3>1. b \in BoundaryRecord /\ b.status # "awaiting_confirmation"
      BY <1>1, ThreadFacts DEF Boundary, BoundaryRecord, Status, Typed
    <3>2. Commit(g, Plain(<<"user">>), b) /\ Plain(<<"user">>) \in Seq(Message)
      BY <2>1, MessageFacts DEF ApiChat, Kind
    <3> HIDE DEF b
    <3>3. /\ Boundaries(g)' = Append(Boundaries(g), b)
          /\ \A o \in Generation : o # g => hist'[o] = hist[o]
      BY <1>1, <3>1, <3>2, CommitFacts DEF Typed
    <3>4. run'[t].gen = g /\ generation' = generation
      BY <1>1, <2>1 DEF ApiChat, StartStream, NoRun
    <3> QED
      BY <1>3, <3>1, <3>3, <3>4
  <2>2. CASE ApiReset(t)
    <3>1. run[t].st = "none"
      BY <1>1, <2>2 DEF ApiReset, ShownInv
    <3>2. generation' = g + 1 /\ run' = run /\ hist' = hist
      BY <2>2 DEF ApiReset
    <3>3. \A o \in Generation : o > g => Boundaries(o)' = <<>> /\ ~Waiting(o)'
      BY <1>2, <3>2 DEF Boundaries, Waiting, LastStatus
    <3>4. \A o \in Generation : o >= g + 1 => o > g
      BY DEF Generation
    <3>5. \A o \in Generation : o > g + 1 => o >= g + 1
      BY DEF Generation
    <3> QED
      BY <1>1, <3>1, <3>2, <3>3, <3>4, <3>5 DEF WaitInv, PastBatch, Generation
  <2>3. ASSUME NEW card \in page[t].cards, ApproveCard(t, card) \/ CancelCard(t, card)
        PROVE  WaitInv'
    <3>1. ~page[t].loading /\ UNCHANGED <<generation, hist, proposals>>
      BY <2>3 DEF ApproveCard, CancelCard
    <3>2. run[t].st = "none"
      BY <1>1, <3>1 DEF ShownInv
    <3>3. run'[t].st = "created" /\ run'[t].gen = generation
      BY <1>1, <2>3 DEF ApproveCard, CancelCard, StartStream, NoRun
    <3> QED
      BY <1>1, <3>1, <3>2, <3>3, WaitFrame DEF PastBatch
  <2>4. ASSUME NEW p \in Persona, ApiIdentity(t, p)
        PROVE  WaitInv'
    <3>1. UNCHANGED <<generation, hist, proposals, run>>
      BY <2>4 DEF ApiIdentity
    <3> QED
      BY <1>1, <1>2, <3>1, WaitFrame DEF PastBatch
  <2> QED
    BY <1>4, <2>1, <2>2, <2>3, <2>4 DEF Request
<1>5. CASE StartRun(t)
  <2>1. /\ run' = [run EXCEPT ![t] = Entered(t)] /\ run[t].st = "created"
        /\ UNCHANGED <<generation, hist, proposals>>
    BY <1>5 DEF StartRun
  <2>2. run[t].gen = generation
    BY <1>2, <2>1
  <2>3. /\ Entered(t).gen = run[t].gen
        /\ Entered(t).st = "ended" => Entered(t).status = "awaiting_confirmation"
        /\ Entered(t).st = "running" => ~Waiting(generation)
        /\ Entered(t).st \in {"running", "ended", "resolving"}
    BY <1>1, <2>2 DEF Entered, TaskRecord, Waiting
  <2>4. run'[t] = Entered(t)
    BY <1>1, <2>1
  <2> QED
    BY <1>1, <2>1, <2>2, <2>3, <2>4, WaitFrame DEF PastBatch
<1>6. CASE ResolveNext(t)
  <2>1. /\ run[t].st = "resolving" /\ run'[t].st = "resolving" /\ run'[t].gen = run[t].gen
        /\ UNCHANGED <<generation, hist>>
    BY <1>1, <1>6 DEF ResolveNext, TaskRecord
  <2>2. \A o \in Generation : Boundaries(o)' = Boundaries(o)
    BY <2>1 DEF Boundaries
  <2> QED
    BY <1>1, <1>2, <2>1, <2>2 DEF WaitInv, PastBatch
<1>7. CASE Settle(t)
  <2> DEFINE b == Boundary("iteration", run[t].seq + 1, <<>>)
  <2>1. run[t].gen = g
    BY <1>2, <1>7 DEF Settle
  <2>2. /\ Boundaries(g)' = Append(Boundaries(g), b)
        /\ \A o \in Generation : o # g => hist'[o] = hist[o]
        /\ b \in BoundaryRecord
    BY <1>1, <1>7, <2>1, SettleFacts DEF Typed
  <2>3. b.status # "awaiting_confirmation"
    BY DEF Boundary
  <2> HIDE DEF b
  <2>4. run'[t].gen = run[t].gen /\ generation' = generation
    BY <1>1, <1>7 DEF Settle, TaskRecord
  <2> QED
    BY <1>3, <2>1, <2>2, <2>3, <2>4
<1>8. ASSUME NEW msgs \in Seq(Message), NEW status \in Status, NEW pend \in Seq(Card),
             Iterate(t, msgs, status, pend), Running(t), UnchangedByRun,
             \/ status # "awaiting_confirmation"
             \/ \A i \in DOMAIN pend : pend[i].handle \in proposals'[g] \cup {NoHandle}
      PROVE  WaitInv'
  <2> DEFINE b == Boundary(status, run[t].seq + 1, pend)
  <2>1. run[t].gen = g
    BY <1>2, <1>8 DEF Running
  <2>2. b \in BoundaryRecord /\ b.pend = pend /\ b.status = status
    BY <1>1 DEF Boundary, BoundaryRecord, TaskRecord
  <2>3. Commit(g, msgs, b)
    BY <1>8, <2>1 DEF Iterate
  <2> HIDE DEF b
  <2>4. /\ Boundaries(g)' = Append(Boundaries(g), b)
        /\ \A o \in Generation : o # g => hist'[o] = hist[o]
    BY <1>1, <2>2, <2>3, CommitFacts DEF Typed
  <2>5. /\ run'[t].gen = run[t].gen
        /\ status = "awaiting_confirmation" =>
             run'[t].st = "ended" /\ run'[t].status = "awaiting_confirmation"
    BY <1>1, <1>8 DEF Iterate, TaskRecord
  <2> QED
    BY <1>3, <1>8, <2>1, <2>2, <2>4, <2>5 DEF UnchangedByRun
<1>9. CASE TurnPlan(t)
  <2>1. <<Msg("plan", fresh), Msg("planned", 0)>> \in Seq(Message)
    <3>1. Msg("plan", fresh) \in Message /\ Msg("planned", 0) \in Message
      BY <1>1, MessageFacts DEF Typed, TypeOK, Kind
    <3> QED
      BY <3>1
  <2>2. "iteration" \in Status /\ <<>> \in Seq(Card)
    BY DEF Status
  <2> QED
    BY <1>8, <1>9, <2>1, <2>2 DEF TurnPlan
<1>10. ASSUME NEW k \in CallResult, TurnCall(t, k) PROVE WaitInv'
  <2>1. Plain(<<"call", k>>) \in Seq(Message)
    BY DemoAssumption, MessageFacts DEF Kind
  <2>2. "iteration" \in Status /\ <<>> \in Seq(Card)
    BY DEF Status
  <2> QED
    BY <1>8, <1>10, <2>1, <2>2 DEF TurnCall
<1>11. CASE TurnPropose(t)
  <2>1. Plain(<<"call", "proposed">>) \in Seq(Message)
    BY MessageFacts DEF Kind
  <2>2. "iteration" \in Status /\ <<>> \in Seq(Card)
    BY DEF Status
  <2> QED
    BY <1>8, <1>11, <2>1, <2>2 DEF TurnPropose
<1>12. CASE TurnFuse(t)
  <2>1. Plain(<<"call", "error">>) \in Seq(Message)
    BY MessageFacts DEF Kind
  <2>2. "failed" \in Status /\ <<>> \in Seq(Card)
    BY DEF Status
  <2> QED
    BY <1>8, <1>12, <2>1, <2>2 DEF TurnFuse
<1>13. ASSUME NEW calls \in 1..2, TurnExecute(t, calls) PROVE WaitInv'
  <2> DEFINE pend == [i \in 1..calls |-> [id |-> fresh + i - 1, handle |-> Latest(run[t].gen)]]
             holds == [i \in 1..calls |-> Msg("hold", pend[i].id)]
  <2>1. run[t].gen = g /\ fresh \in Nat \ {0}
    BY <1>1, <1>2, <1>13 DEF TurnExecute, Running, Typed, TypeOK
  <2>2. Latest(run[t].gen) \in Nat /\ Latest(run[t].gen) \in proposals[g] \cup {NoHandle}
    BY <1>1, <2>1, LatestFacts DEF Typed
  <2>3. pend \in Seq(Card) /\ \A i \in DOMAIN pend : pend[i].handle \in proposals[g] \cup {NoHandle}
    BY <2>1, <2>2 DEF Card
  <2>4. /\ Iterate(t, <<Msg("exec", calls)>> \o holds, "awaiting_confirmation", pend)
        /\ Running(t) /\ UnchangedByRun /\ proposals' = proposals
    BY <1>13 DEF TurnExecute
  <2>5. "exec" \in Kind /\ "hold" \in Kind /\ calls \in Nat /\ \A i \in 1..calls : pend[i].id \in Nat
    BY <2>1 DEF Kind
  <2> HIDE DEF pend
  <2>6. Msg("exec", calls) \in Message /\ \A i \in 1..calls : Msg("hold", pend[i].id) \in Message
    BY <2>5, MessageFacts
  <2>7. holds \in Seq(Message) /\ <<Msg("exec", calls)>> \in Seq(Message)
    BY <2>6
  <2> HIDE DEF holds
  <2>8. <<Msg("exec", calls)>> \o holds \in Seq(Message) /\ "awaiting_confirmation" \in Status
    BY <2>7 DEF Status
  <2> QED
    BY <1>8, <2>3, <2>4, <2>8
<1>14. CASE TurnAnswer(t)
  <2> DEFINE b == Boundary("completed", run[t].seq + 1, <<>>)
  <2>1. run[t].gen = g
    BY <1>2, <1>14 DEF TurnAnswer, Running
  <2>2. b \in BoundaryRecord /\ b.status # "awaiting_confirmation"
    BY <1>1 DEF Boundary, BoundaryRecord, TaskRecord, Status
  <2>3. Commit(g, Plain(<<"say">>), b) /\ Plain(<<"say">>) \in Seq(Message)
    BY <1>14, <2>1, MessageFacts DEF TurnAnswer, Kind
  <2> HIDE DEF b
  <2>4. /\ Boundaries(g)' = Append(Boundaries(g), b)
        /\ \A o \in Generation : o # g => hist'[o] = hist[o]
    BY <1>1, <2>2, <2>3, CommitFacts DEF Typed
  <2>5. run'[t].gen = run[t].gen /\ generation' = generation
    BY <1>1, <1>14 DEF TurnAnswer, UnchangedByRun, TaskRecord
  <2> QED
    BY <1>3, <2>1, <2>2, <2>4, <2>5
<1>15. ASSUME NEW status \in {"failed", "budget_exhausted"}, TurnGiveUp(t, status) PROVE WaitInv'
  <2>1. /\ run[t].st = "running" /\ run'[t].st = "ended" /\ run'[t].gen = run[t].gen
        /\ UNCHANGED <<generation, hist, proposals>>
    BY <1>1, <1>15 DEF TurnGiveUp, UnchangedByRun, TaskRecord
  <2> QED
    BY <1>1, <1>2, <2>1, WaitFrame DEF PastBatch
<1>16. CASE Generator(t)
  <2>1. CASE Close(t)
    <3>1. run[t].st = "ended"
      BY <1>1, <2>1 DEF Close, ShownInv
    <3>2. run'[t].st = "none" /\ generation' = generation /\ hist' = hist
      BY <1>1, <2>1, CloseFrame DEF Close
    <3>3. CASE run[t].status = "awaiting_confirmation"
      <4>1. proposals' = proposals
        BY <2>1, <3>3 DEF Close, CollectProposals
      <4> QED
        BY <1>1, <3>1, <3>2, <4>1, WaitFrame DEF PastBatch
    <3>4. CASE run[t].status # "awaiting_confirmation"
      <4>1. ~Waiting(g)
        BY <1>2, <3>1, <3>4 DEF PastBatch
      <4>2. ~Waiting(g)' /\ \A o \in Generation : Boundaries(o)' = Boundaries(o)
        BY <3>2, <4>1 DEF Waiting, LastStatus, Boundaries
      <4> QED
        BY <1>1, <1>2, <3>2, <4>2 DEF WaitInv, PastBatch
    <3> QED
      BY <3>3, <3>4
  <2>2. CASE UNCHANGED <<run, proposals>>
    <3>1. UNCHANGED <<generation, hist, proposals, run>>
      BY <1>1, <1>16, <2>2, GeneratorKinds
    <3> QED
      BY <1>1, <1>2, <3>1, WaitFrame DEF PastBatch
  <2> QED
    BY <1>1, <1>16, <2>1, <2>2, GeneratorKinds
<1>17. CASE UNCHANGED <<generation, hist, proposals, run>>
  BY <1>1, <1>2, <1>17, WaitFrame DEF PastBatch
<1>18. ASSUME NEW token \in Token, ApiToken(token) PROVE WaitInv'
  BY <1>17, <1>18 DEF ApiToken
<1>19. CASE UNCHANGED vars
  BY <1>17, <1>19 DEF vars
<1>20. CASE Turn(t)
  BY <1>9, <1>10, <1>11, <1>12, <1>13, <1>14, <1>15, <1>20 DEF Turn
<1> QED
  BY <1>1, <1>4, <1>5, <1>6, <1>7, <1>16, <1>18, <1>19, <1>20 DEF Next, Task

\* With one page, while the thread waits for the user the proposals it froze
\* are there to be carried out: the clean-up after a run leaves them alone
\* (demo_server.py:801).
THEOREM SafeAwaitedKept == (\E t : Tab = {t}) => (Spec => []AwaitedKept)
<1> SUFFICES ASSUME NEW t, Tab = {t} PROVE Spec => []AwaitedKept
  OBVIOUS
<1>1. WaitInv /\ [Next]_vars => WaitInv'
  BY NextWait
<1>2. Spec => []WaitInv
  BY <1>1, InitWait, PTL DEF Spec
<1>3. WaitInv => AwaitedKept
  <2> SUFFICES ASSUME WaitInv PROVE AwaitedKept
    OBVIOUS
  <2>1. generation \in Generation /\ \A u \in Tab : run[u].st # "none" => run[u].gen = generation
    BY DEF WaitInv, ShownInv, Typed, TypeOK, Generation
  <2>2. Waiting(generation) => (\E u \in Tab : run[u].st = "resolving") \/ PendingKept(generation)
    BY <2>1 DEF WaitInv, PastBatch
  <2> QED
    BY <2>1, <2>2 DEF AwaitedKept, Waiting, PendingKept
<1> QED
  BY <1>2, <1>3, PTL
==============================================================================
