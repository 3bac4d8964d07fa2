--------------------------- MODULE RunLoop_proofs ---------------------------
(* Proofs about RunLoop, for every tool set, gate, limits and number of runs. *)
EXTENDS RunLoop, SequenceTheorems, FiniteSetTheorems, TLAPS

-----------------------------------------------------------------------------
(* Sequences and counts *)

LEMMA ReplacedIsSeq ==
    ASSUME NEW S, NEW s \in Seq(S), NEW i, NEW e \in S
    PROVE  [s EXCEPT ![i] = e] \in Seq(S)
<1>1. [s EXCEPT ![i] = e] \in [1 .. Len(s) -> S]
  BY LenProperties
<1> QED BY <1>1, LenProperties, SeqDef

\* Cutting what was appended last gives back the sequence.
LEMMA CutAppended ==
    ASSUME NEW S, NEW s \in Seq(S), NEW e \in S
    PROVE  SubSeq(Append(s, e), 1, Len(s)) = s
<1>1. /\ Len(s) \in Nat
      /\ Append(s, e) \in Seq(S)
      /\ Len(Append(s, e)) = Len(s) + 1
      /\ \A i \in 1 .. Len(s) : Append(s, e)[i] = s[i]
  OBVIOUS
<1>2. /\ SubSeq(Append(s, e), 1, Len(s)) \in Seq(S)
      /\ Len(SubSeq(Append(s, e), 1, Len(s))) = Len(s)
      /\ \A i \in 1 .. Len(s) : SubSeq(Append(s, e), 1, Len(s))[i] = s[i]
  BY <1>1
<1> QED BY <1>2, SeqEqual

LEMMA PrefixIsSeq ==
    ASSUME NEW S, NEW s \in Seq(S), NEW n \in Nat, n <= Len(s)
    PROVE  SubSeq(s, 1, n) \in Seq(S)
OBVIOUS

LEMMA TwoAppends ==
    ASSUME NEW S, NEW s \in Seq(S), NEW a \in S, NEW b \in S
    PROVE  Append(Append(s, a), b) = s \o <<a, b>>
<1>1. <<a, b>> \in Seq(S) /\ Len(<<a, b>>) = 2 /\ <<a, b>>[1] = a /\ <<a, b>>[2] = b
  OBVIOUS
<1>2. /\ s \o <<a, b>> \in Seq(S)
      /\ Len(s \o <<a, b>>) = Len(s) + 2
      /\ \A i \in 1 .. Len(s) + 2 :
            (s \o <<a, b>>)[i] = IF i <= Len(s) THEN s[i] ELSE <<a, b>>[i - Len(s)]
  BY <1>1, ConcatProperties
<1>3. /\ Append(Append(s, a), b) \in Seq(S)
      /\ Len(Append(Append(s, a), b)) = Len(s) + 2
      /\ \A i \in 1 .. Len(s) + 2 : Append(Append(s, a), b)[i] =
            IF i <= Len(s) THEN s[i] ELSE IF i = Len(s) + 1 THEN a ELSE b
  OBVIOUS
<1>4. \A i \in 1 .. Len(s) + 2 : Append(Append(s, a), b)[i] = (s \o <<a, b>>)[i]
  BY <1>1, <1>2, <1>3, LenProperties
<1> QED BY <1>2, <1>3, <1>4, SeqEqual

LEMMA OneAppend ==
    ASSUME NEW S, NEW s \in Seq(S), NEW a \in S
    PROVE  Append(s, a) = s \o <<a>>
<1>1. <<a>> \in Seq(S) /\ Len(<<a>>) = 1 /\ <<a>>[1] = a
  OBVIOUS
<1>2. /\ s \o <<a>> \in Seq(S)
      /\ Len(s \o <<a>>) = Len(s) + 1
      /\ \A i \in 1 .. Len(s) + 1 :
            (s \o <<a>>)[i] = IF i <= Len(s) THEN s[i] ELSE <<a>>[i - Len(s)]
  BY <1>1, ConcatProperties
<1>3. \A i \in 1 .. Len(s) + 1 : Append(s, a)[i] = (s \o <<a>>)[i]
  BY <1>1, <1>2, LenProperties
<1> QED BY <1>2, <1>3, SeqEqual

\* The positions of a sequence with some property can be counted.
LEMMA PartOfSeqIsFinite ==
    ASSUME NEW S, NEW s \in Seq(S), NEW P \in SUBSET DOMAIN s
    PROVE  Cardinality(P) \in Nat
<1>1. DOMAIN s = 1 .. Len(s) /\ Len(s) \in Nat
  BY LenProperties
<1>2. IsFiniteSet(1 .. Len(s))
  BY <1>1, FS_Interval
<1> QED BY <1>1, <1>2, FS_Subset, FS_CardinalityType
-----------------------------------------------------------------------------
(* Type correctness *)

\* A rollback cuts the conversation where it was when the model was called.
BaseInside == pc \in {"call", "tools"} => run.base <= Len(conv)

TypeInv == TypeOK /\ BaseInside

LEMMA FreshTypes ==
    /\ FreshPool \in Pool
    /\ FreshRun \in RunType
    /\ NoTxn \in Transaction
BY EmptySeq
   DEF FreshPool, Pool, FreshRun, RunType, Decision, Signature, NoTxn, Transaction,
       BoundaryStatus, Reply

\* An assignment to one local of run_loop keeps the others.
LEMMA RunFields ==
    ASSUME NEW r \in RunType, NEW n \in Nat
    PROVE  /\ [r EXCEPT !.next = n] \in RunType
           /\ [r EXCEPT !.seq = n] \in RunType
           /\ [r EXCEPT !.base = n] \in RunType
           /\ [r EXCEPT !.steps = n] \in RunType
           /\ [r EXCEPT !.failures = n] \in RunType
           /\ [r EXCEPT !.empties = n] \in RunType
           /\ [r EXCEPT !.noProgress = n] \in RunType
           /\ [r EXCEPT !.repeats = n] \in RunType
           /\ [r EXCEPT !.unproductive = n] \in RunType
           /\ [r EXCEPT !.compactions = n] \in RunType
BY DEF RunType

LEMMA RunDecision ==
    ASSUME NEW r \in RunType, NEW d \in Decision
    PROVE  [r EXCEPT !.decision = d] \in RunType
BY DEF RunType

LEMMA RunGrace ==
    ASSUME NEW r \in RunType, NEW b \in BOOLEAN
    PROVE  [r EXCEPT !.isGrace = b] \in RunType
BY DEF RunType

LEMMA RunSignature ==
    ASSUME NEW r \in RunType, NEW s \in Signature
    PROVE  [r EXCEPT !.last = s] \in RunType
BY DEF RunType

LEMMA TypeInit == Init => TypeInv
<1> SUFFICES ASSUME Init PROVE TypeInv
  OBVIOUS
<1>1. boundary \in Boundary
  BY DEF Init, Boundary, BoundaryStatus
<1>2. control \in BOOLEAN
  BY LoopAssumption DEF Init
<1>3. log \in Seq(Entry) /\ conv \in Seq(Entry) /\ calls \in Seq(Tool) /\ results \in Seq(Result)
  BY EmptySeq DEF Init
<1> QED BY <1>1, <1>2, <1>3, FreshTypes DEF Init, TypeInv, TypeOK, BaseInside, Stage, Reply

\* When a run returns, what it leaves is well typed if the store and the
\* conversation are.
LEMMA ReturnType ==
    ASSUME TypeInv, NEW r \in Reply, Return(r), UNCHANGED envVars,
           conv' \in Seq(Entry), log' \in Seq(Entry), boundary' \in Boundary
    PROVE  TypeInv'
<1>1. calls' \in Seq(Tool) /\ results' \in Seq(Result)
  BY EmptySeq DEF Return
<1>2. pc' \in Stage /\ BaseInside'
  BY DEF Return, Stage, BaseInside
<1>3. pool' \in Pool /\ run' \in RunType /\ txn' \in Transaction
  BY FreshTypes DEF Return
<1> QED BY <1>1, <1>2, <1>3 DEF Return, TypeInv, TypeOK, envVars

LEMMA CommittedType ==
    ASSUME TypeInv, NEW entries \in Seq(Entry), NEW status \in BoundaryStatus, NEW count \in Nat,
           Committed(entries, status, count)
    PROVE  log' \in Seq(Entry) /\ boundary' \in Boundary
<1>1. log' \in Seq(Entry) /\ Len(log') \in Nat
  BY ConcatProperties, LenProperties DEF TypeInv, TypeOK, Committed
<1>2. run.seq \in Nat /\ pool \in Pool
  BY DEF TypeInv, TypeOK, RunType
<1> QED BY <1>1, <1>2 DEF Committed, Boundary

LEMMA SettledType ==
    ASSUME TypeInv, Settled
    PROVE  log' \in Seq(Entry) /\ boundary' \in Boundary
<1>1. "results" \in Entry /\ "iteration" \in BoundaryStatus
  BY DEF Entry, BoundaryStatus
<1>2. log' \in Seq(Entry)
  BY <1>1, ReplacedIsSeq DEF TypeInv, TypeOK, Settled
<1>3. run.seq \in Nat /\ pool \in Pool
  BY DEF TypeInv, TypeOK, RunType
<1> QED BY <1>1, <1>2, <1>3 DEF Settled, Boundary

LEMMA TransactionType ==
    ASSUME NEW e \in Seq(Entry), NEW s \in BoundaryStatus, NEW n \in Nat, NEW r \in Reply
    PROVE  [entries |-> e, status |-> s, count |-> n, reply |-> r] \in Transaction
BY DEF Transaction

LEMMA ConsumedType ==
    ASSUME NEW p \in Pool, NEW n \in Nat, NEW t \in BOOLEAN
    PROVE  Consumed(p, n, t) \in Pool
BY DEF Consumed, Pool

LEMMA RestoredType ==
    ASSUME TypeInv
    PROVE  Restored(boundary.snapshot, pool) \in Pool
BY DEF TypeInv, TypeOK, Boundary, Restored

LEMMA RolledBackType ==
    ASSUME TypeInv, pc \in {"call", "tools"}
    PROVE  RolledBack \in Seq(Entry)
<1>1. run.base \in Nat /\ run.base <= Len(conv) /\ conv \in Seq(Entry)
  BY DEF TypeInv, TypeOK, RunType, BaseInside
<1> QED BY <1>1, PrefixIsSeq DEF RolledBack

LEMMA SignatureType ==
    ASSUME NEW turn \in Seq(Tool)
    PROVE  SignatureOf(turn) \in Signature
<1>1. ASSUME NEW i \in DOMAIN turn
      PROVE <<turn[i], Cardinality({j \in DOMAIN turn : turn[j] = turn[i]})>> \in Tool \X Nat
  <2>1. Cardinality({j \in DOMAIN turn : turn[j] = turn[i]}) \in Nat
    BY PartOfSeqIsFinite
  <2>2. turn[i] \in Tool
    BY LenProperties, ElementOfSeq
  <2> QED BY <2>1, <2>2
<1> QED BY <1>1 DEF SignatureOf, Signature

\* The outcomes of a batch are as many results as it has calls.
LEMMA OutcomeType ==
    ASSUME TypeInv, NEW r \in Outcomes
    PROVE  /\ r \in Seq(Result)
           /\ \A kinds : Cardinality(Holding(r, kinds)) \in Nat
           /\ FailuresAfter(run.failures, r) \in Nat
<1>1. DOMAIN calls = 1 .. Len(calls) /\ Len(calls) \in Nat
  BY LenProperties DEF TypeInv, TypeOK
<1>2. r \in Seq(Result)
  BY <1>1, SeqDef DEF Outcomes
<1>3. \A kinds : Cardinality(Holding(r, kinds)) \in Nat
  BY <1>2, PartOfSeqIsFinite DEF Holding
<1>4. run.failures \in Nat
  BY DEF TypeInv, TypeOK, RunType
<1>5. FailuresAfter(run.failures, r) \in Nat
  <2> DEFINE executed == Holding(r, {"useful", "useless"})
             late == {i \in Holding(r, {"failed"}) : \A j \in executed : j < i}
  <2>1. Cardinality(late) \in Nat
    BY <1>2, PartOfSeqIsFinite DEF Holding
  <2> QED BY <1>3, <1>4, <2>1 DEF FailuresAfter
<1> QED BY <1>2, <1>3, <1>5

LEMMA TypeStep == TypeInv /\ [Next]_vars => TypeInv'
<1> SUFFICES ASSUME TypeInv, [Next]_vars PROVE TypeInv'
  OBVIOUS
<1>a. Entry = {"user", "text", "calls", "results", "placeholders", "summary"}
  BY DEF Entry
<1>b. conv \in Seq(Entry) /\ log \in Seq(Entry) /\ boundary \in Boundary /\ run \in RunType
      /\ pool \in Pool /\ txn \in Transaction
  BY DEF TypeInv, TypeOK
<1>c. /\ 0 \in Nat /\ 1 \in Nat
      /\ run.next + 1 \in Nat /\ run.seq + 1 \in Nat /\ run.steps + 1 \in Nat
      /\ run.empties + 1 \in Nat /\ run.compactions + 1 \in Nat
  <2>1. run \in RunType
    BY <1>b
  <2>2. /\ run.next \in Nat /\ run.seq \in Nat /\ run.steps \in Nat
        /\ run.empties \in Nat /\ run.compactions \in Nat
    BY <2>1 DEF RunType
  <2> QED BY <2>2
<1>d. "none" \in Decision /\ "user" \in Entry
  BY DEF Decision, Entry
<1>1. CASE Say
  <2>1. log' \in Seq(Entry)
    <3>1. CASE log' = log
      BY <3>1, <1>b
    <3>2. CASE log' = Append(log, "user")
      BY <3>2, <1>b, <1>d
    <3> QED BY <1>1, <3>1, <3>2 DEF Say
  <2>2. boundary.seq + 1 \in Nat
    BY <1>b DEF Boundary
  <2>3. boundary' \in Boundary
    BY <1>1, <2>2 DEF Say, Boundary, BoundaryStatus
  <2>4. conv' \in Seq(Entry) /\ users' \in Nat /\ reply' \in Reply
    <3>1. conv' = log' /\ users' = users + 1 /\ reply' = ""
      BY <1>1 DEF Say
    <3>2. users \in Nat
      BY DEF TypeInv, TypeOK
    <3>3. "" \in Reply
      BY DEF Reply
    <3>4. users' \in Nat
      <4>1. users' = users + 1
        BY <3>1
      <4> QED BY <4>1, <3>2
    <3>5. conv' \in Seq(Entry)
      BY <3>1, <2>1
    <3> QED BY <3>1, <3>3, <3>4, <3>5
  <2>5. BaseInside' /\ pc' \in Stage
    BY <1>1 DEF Say, BaseInside, Stage
  <2> QED BY <1>1, <2>1, <2>3, <2>4, <2>5 DEF Say, TypeInv, TypeOK, turnVars
<1>2. ASSUME NEW decision \in Decision, Start(decision) PROVE TypeInv'
  <2>1. run' \in RunType
    BY <1>2, FreshTypes, RunDecision DEF Start
  <2>2. BaseInside' /\ pc' \in Stage /\ reply' \in Reply
    BY <1>2 DEF Start, BaseInside, Stage, Reply
  <2>3. runs' = runs + 1 /\ runs \in Nat
    BY <1>2 DEF Start, TypeInv, TypeOK
  <2>4. runs' \in Nat
    BY <2>3
  <2> QED BY <1>2, <1>b, <2>1, <2>2, <2>4, FreshTypes DEF Start, TypeInv, TypeOK, turnVars, storeVars
<1>3. CASE Interrupt
  BY <1>3 DEF Interrupt, TypeInv, TypeOK, BaseInside, turnVars, storeVars, envVars
<1>4. CASE Enter
  <2>1. CASE Return("awaiting_confirmation")
    BY <1>4, <2>1, <1>b, ReturnType DEF Enter, Reply, storeVars
  <2>2. CASE ~Return("awaiting_confirmation")
    <3>1. boundary.seq \in Nat
      BY <1>b DEF Boundary
    <3>2. run' \in RunType
      <4>1. CASE run' = [run EXCEPT !.seq = boundary.seq, !.next = 1]
        BY <4>1, <3>1, <1>b, <1>c, RunFields
      <4>2. CASE run' = [run EXCEPT !.seq = boundary.seq, !.decision = "none"]
        BY <4>2, <3>1, <1>b, <1>d, RunFields, RunDecision
      <4> QED BY <1>4, <2>2, <4>1, <4>2 DEF Enter
    <3>3. pool' \in Pool
      BY <1>4, <2>2, RestoredType DEF Enter
    <3> QED BY <1>4, <2>2, <3>2, <3>3
        DEF Enter, TypeInv, TypeOK, BaseInside, Stage, turnVars, storeVars, envVars
  <2> QED BY <2>1, <2>2
<1>5. CASE ControlAnswers
  <2>1. run' \in RunType
    <3>1. CASE run' = [run EXCEPT !.next = @ + 1]
      BY <3>1, <1>b, <1>c, RunFields
    <3>2. CASE run' = [run EXCEPT !.seq = @ + 1, !.next = 0]
      BY <3>2, <1>b, <1>c, RunFields
    <3> QED BY <1>5, <3>1, <3>2 DEF ControlAnswers
  <2>2. conv' \in Seq(Entry)
    BY <1>5, <1>a, <1>b, ReplacedIsSeq DEF ControlAnswers
  <2> QED BY <1>5, <2>1, <2>2
      DEF ControlAnswers, TypeInv, TypeOK, BaseInside, Stage, turnVars, storeVars, envVars
<1>6. CASE Settle
  <2>1. run' \in RunType
    BY <1>6, <1>b DEF Settle, RunType, Decision
  <2> QED BY <1>6, <2>1, SettledType
      DEF Settle, TypeInv, TypeOK, BaseInside, Stage, turnVars, envVars
<1>7. CASE Top
  <2>1. CASE \E r \in {"interrupted", "budget_exhausted"} : Return(r)
    BY <1>7, <2>1, <1>b, ReturnType DEF Top, Reply, storeVars
  <2>2. CASE \E isGrace \in BOOLEAN : Assemble(isGrace) /\ pool' \in {pool, GraceTaken(pool)}
    <3>1. run' \in RunType
      <4>1. PICK isGrace \in BOOLEAN : Assemble(isGrace)
        BY <2>2
      <4>2. run' = [run EXCEPT !.isGrace = isGrace, !.compactions = 0]
        BY <4>1 DEF Assemble
      <4> QED BY <4>2, <1>b, <1>c, RunFields, RunGrace
    <3>2. pool' \in Pool
      BY <2>2, <1>b DEF GraceTaken, Pool
    <3> QED BY <1>7, <2>2, <3>1, <3>2
        DEF Top, Assemble, TypeInv, TypeOK, BaseInside, Stage, turnVars, storeVars, envVars
  <2> QED BY <1>7, <2>1, <2>2 DEF Top
<1>8. CASE Proceed
  <2>1. run' \in RunType /\ run'.base = Len(conv)
    BY <1>8, <1>b, LenProperties DEF Proceed, RunType
  <2>2. Len(conv) \in Nat
    BY <1>b, LenProperties
  <2> QED BY <1>8, <2>1, <2>2
      DEF Proceed, TypeInv, TypeOK, BaseInside, Stage, turnVars, storeVars, envVars
<1>9. CASE CompactThrash
  BY <1>9, <1>b, ReturnType DEF CompactThrash, Reply, storeVars
<1>10. CASE Compact
  <2>1. run' \in RunType
    BY <1>10, <1>b, <1>c, RunFields DEF Compact
  <2>2. conv' \in Seq(Entry)
    BY <1>10, <1>a, <1>b DEF Compact
  <2>3. pool' \in Pool
    BY <1>10, <1>b, ConsumedType DEF Compact
  <2> QED BY <1>10, <2>1, <2>2, <2>3
      DEF Compact, TypeInv, TypeOK, BaseInside, Stage, turnVars, storeVars, envVars
<1>11. CASE CommitSummary
  <2>1. run' \in RunType
    BY <1>11, <1>b, <1>c, RunFields DEF CommitSummary
  <2>2. <<"summary">> \in Seq(Entry) /\ "iteration" \in BoundaryStatus
    BY <1>a DEF BoundaryStatus
  <2>3. log' \in Seq(Entry) /\ boundary' \in Boundary
    BY <1>11, <2>2, CommittedType DEF CommitSummary
  <2> QED BY <1>11, <2>1, <2>3
      DEF CommitSummary, TypeInv, TypeOK, BaseInside, Stage, turnVars, envVars
<1>12. CASE ModelFails
  BY <1>12, <1>b, ReturnType DEF ModelFails, Reply, storeVars
<1>13. ASSUME NEW entry \in {"text", "calls"}, Answered(entry)
       PROVE  conv' \in Seq(Entry) /\ Len(conv') = Len(conv) + 1 /\ pool' \in Pool
  BY <1>13, <1>a, <1>b, ConsumedType DEF Answered
<1>14. CASE GraceTurn
  <2>1. PICK entry \in {"text", "calls"} :
           Answered(entry) /\ Hand(<<entry>>, "completed", 0, "budget_exhausted")
    BY <1>14 DEF GraceTurn
  <2>2. conv' \in Seq(Entry) /\ pool' \in Pool
    BY <2>1, <1>13
  <2>3. run' \in RunType
    BY <1>14, <1>b, <1>c, RunFields DEF GraceTurn
  <2>4. <<entry>> \in Seq(Entry)
    BY <1>a
  <2>5. txn' \in Transaction /\ pc' = "commit"
    BY <2>1, <2>4 DEF Hand, Transaction, BoundaryStatus, Reply
  <2> QED BY <1>14, <2>2, <2>3, <2>5
      DEF GraceTurn, TypeInv, TypeOK, BaseInside, Stage, storeVars, envVars
<1>15. CASE TextTurn
  <2>1. conv' \in Seq(Entry) /\ pool' \in Pool
    BY <1>15, <1>13 DEF TextTurn
  <2>2. run' \in RunType
    BY <1>15, <1>b, <1>c, RunFields DEF TextTurn
  <2>3. <<"text">> \in Seq(Entry)
    BY <1>a
  <2>4. txn' \in Transaction /\ pc' = "commit"
    BY <1>15, <2>3 DEF TextTurn, Hand, Transaction, BoundaryStatus, Reply
  <2> QED BY <1>15, <2>1, <2>2, <2>4
      DEF TextTurn, TypeInv, TypeOK, BaseInside, Stage, storeVars, envVars
<1>16. CASE EmptyTurn
  <2>1. conv' \in Seq(Entry)
    BY <1>16, RolledBackType DEF EmptyTurn
  <2>2. CASE Return("empty_response")
    BY <1>16, <2>1, <2>2, <1>b, ReturnType DEF EmptyTurn, Reply, storeVars
  <2>3. CASE ~Return("empty_response")
    <3>1. run' \in RunType
      <4>1. run' = [run EXCEPT !.steps = @ + 1, !.empties = @ + 1]
        BY <1>16, <2>3 DEF EmptyTurn
      <4> QED BY <4>1, <1>b, <1>c, RunFields
    <3>2. pool' \in Pool
      BY <1>16, <2>3, <1>b, ConsumedType DEF EmptyTurn
    <3> QED BY <1>16, <2>1, <2>3, <3>1, <3>2
        DEF EmptyTurn, TypeInv, TypeOK, BaseInside, Stage, turnVars, storeVars, envVars
  <2> QED BY <2>2, <2>3
<1>17. ASSUME NEW turn \in Turns, ToolTurn(turn) PROVE TypeInv'
  <2>1. turn \in Seq(Tool)
    BY LoopAssumption
  <2>2. CASE \E r \in {"no_progress", "stall"} : Return(r) /\ conv' = RolledBack
    <3>1. conv' \in Seq(Entry)
      BY <1>17, <2>2, RolledBackType DEF ToolTurn
    <3> QED BY <1>17, <2>2, <3>1, <1>b, ReturnType DEF ToolTurn, Reply, storeVars
  <2>3. CASE Answered("calls") /\ pc' = "tools"
    <3> DEFINE idle == IF PlanOnly(turn) THEN run.noProgress + 1 ELSE 0
    <3>1. /\ run' = [run EXCEPT !.steps = @ + 1, !.empties = 0, !.noProgress = idle,
                                !.last = SignatureOf(turn), !.repeats = Repeats(turn)]
          /\ calls' = turn
          /\ UNCHANGED <<results, txn, interrupted, reply, storeVars, envVars>>
          /\ pc = "call"
      BY <1>17, <2>3 DEF ToolTurn, Return
    <3>2. idle \in Nat /\ Repeats(turn) \in Nat
      BY <1>b DEF RunType, Repeats
    <3>3. SignatureOf(turn) \in Signature
      BY <2>1, SignatureType
    <3> HIDE DEF idle
    <3>4. run' \in RunType
      BY <3>1, <3>2, <3>3, <1>b, <1>c, RunFields, RunSignature
    <3>7. run'.base = run.base
      BY <3>1, <1>b DEF RunType
    <3>5. conv' \in Seq(Entry) /\ Len(conv') = Len(conv) + 1 /\ pool' \in Pool
      BY <2>3, <1>13
    <3>6. BaseInside'
      <4>1. run.base \in Nat /\ run.base <= Len(conv) /\ Len(conv) \in Nat
        BY <3>1, <1>b, LenProperties DEF TypeInv, BaseInside, RunType
      <4> QED BY <4>1, <3>5, <3>7 DEF BaseInside
    <3> QED BY <3>1, <3>4, <3>5, <3>6, <2>1, <2>3
        DEF TypeInv, TypeOK, Stage, storeVars, envVars
  <2> QED BY <1>17, <2>2, <2>3 DEF ToolTurn
<1>18. CASE ToolsReturn
  <2>1. PICK r \in Outcomes :
           \/ BatchDropped(r)
           \/ /\ BatchDone(r)
              /\ \E q \in PoolAfterSubagents(pool) : pool' = q
              /\ UNCHANGED <<calls, interrupted, reply>>
    BY <1>18 DEF ToolsReturn
  <2>2. CASE BatchDropped(r)
    <3>1. conv' \in Seq(Entry)
      BY <1>18, <2>2, RolledBackType DEF BatchDropped, ToolsReturn
    <3> QED BY <1>18, <2>2, <3>1, <1>b, ReturnType DEF ToolsReturn, BatchDropped, Reply, storeVars
  <2>3. CASE BatchDone(r) /\ (\E q \in PoolAfterSubagents(pool) : pool' = q)
             /\ UNCHANGED <<calls, interrupted, reply>>
    <3> DEFINE failures == FailuresAfter(run.failures, r)
               asked == Holding(r, {"placeholder"})
               futile == IF Holding(r, {"useful"}) # {} THEN 0 ELSE run.unproductive + 1
               entry == IF asked # {} THEN "placeholders" ELSE "results"
    <3>1. failures \in Nat /\ Cardinality(asked) \in Nat /\ r \in Seq(Result)
      BY OutcomeType
    <3>2. futile \in Nat
      BY <1>b DEF RunType
    <3>3. entry \in Entry /\ <<"calls", entry>> \in Seq(Entry)
      BY <1>a
    <3>4. /\ results' = r
          /\ conv' = Append(conv, entry)
          /\ pc' = "commit"
          /\ \E status \in {"awaiting_confirmation", "failed", "iteration"},
                count \in {0, Cardinality(asked)},
                rep \in {"awaiting_confirmation", "tool_failures", ""} :
                   txn' = [entries |-> <<"calls", entry>>, status |-> status,
                           count |-> count, reply |-> rep]
      BY <2>3 DEF BatchDone, Hand
    <3>5. \/ run' = [run EXCEPT !.failures = failures, !.seq = @ + 1]
          \/ run' = [run EXCEPT !.failures = failures, !.seq = @ + 1, !.unproductive = futile]
      BY <2>3 DEF BatchDone
    <3> HIDE DEF failures, asked, futile, entry
    <3>6. run' \in RunType
      <4>1. CASE run' = [run EXCEPT !.failures = failures, !.seq = @ + 1]
        BY <4>1, <3>1, <1>b, <1>c, RunFields
      <4>2. CASE run' = [run EXCEPT !.failures = failures, !.seq = @ + 1, !.unproductive = futile]
        BY <4>2, <3>1, <3>2, <1>b, <1>c, RunFields
      <4> QED BY <3>5, <4>1, <4>2
    <3>7. txn' \in Transaction
      <4>1. PICK status \in {"awaiting_confirmation", "failed", "iteration"},
                 count \in {0, Cardinality(asked)},
                 rep \in {"awaiting_confirmation", "tool_failures", ""} :
                   txn' = [entries |-> <<"calls", entry>>, status |-> status,
                           count |-> count, reply |-> rep]
        BY <3>4
      <4>a. count \in Nat
        <5>1. CASE count = 0
          BY <5>1
        <5>2. CASE count = Cardinality(asked)
          BY <5>2, <3>1
        <5> QED BY <5>1, <5>2
      <4>2. status \in BoundaryStatus /\ count \in Nat /\ rep \in Reply
        BY <4>a DEF BoundaryStatus, Reply
      <4>3. [entries |-> <<"calls", entry>>, status |-> status, count |-> count, reply |-> rep]
               \in Transaction
        BY <4>2, <3>3, TransactionType
      <4> QED BY <4>1, <4>3
    <3>8. conv' \in Seq(Entry)
      <4>1. conv' = Append(conv, entry)
        BY <3>4
      <4> QED BY <4>1, <3>3, <1>b
    <3>9. pool' \in Pool
      BY <2>3, <1>b DEF PoolAfterSubagents, Pool
    <3> QED BY <1>18, <2>3, <3>1, <3>4, <3>6, <3>7, <3>8, <3>9
        DEF ToolsReturn, TypeInv, TypeOK, BaseInside, Stage, storeVars, envVars
  <2> QED BY <2>1, <2>2, <2>3
<1>19. ASSUME Committed(txn.entries, txn.status, txn.count)
       PROVE  log' \in Seq(Entry) /\ boundary' \in Boundary
  <2>1. txn.entries \in Seq(Entry) /\ txn.status \in BoundaryStatus /\ txn.count \in Nat
    BY <1>b DEF Transaction
  <2> QED BY <1>19, <2>1, CommittedType
<1>20. CASE Commit
  <2>1. log' \in Seq(Entry) /\ boundary' \in Boundary /\ txn.reply \in Reply
    BY <1>19, <1>20, <1>b DEF Commit, Transaction
  <2>2. CASE Return(txn.reply)
    BY <1>20, <2>1, <2>2, <1>b, ReturnType DEF Commit
  <2>3. CASE ~Return(txn.reply)
    BY <1>20, <2>1, <2>3, FreshTypes, EmptySeq
    DEF Commit, TypeInv, TypeOK, BaseInside, Stage, envVars
  <2> QED BY <2>2, <2>3
<1>21. CASE PersistFails
  <2>1. log' \in Seq(Entry) /\ boundary' \in Boundary
    <3>1. CASE UNCHANGED storeVars
      BY <3>1, <1>b DEF storeVars
    <3>2. CASE Settled
      BY <3>2, SettledType
    <3>3. CASE Committed(<<"summary">>, "iteration", 0)
      <4>1. <<"summary">> \in Seq(Entry) /\ "iteration" \in BoundaryStatus
        BY <1>a DEF BoundaryStatus
      <4> QED BY <3>3, <4>1, CommittedType
    <3>4. CASE Committed(txn.entries, txn.status, txn.count)
      BY <3>4, <1>19
    <3> QED BY <1>21, <3>1, <3>2, <3>3, <3>4 DEF PersistFails
  <2> QED BY <1>21, <2>1, <1>b, ReturnType DEF PersistFails, Reply
<1>22. CASE Raises
  BY <1>22, <1>b, ReturnType DEF Raises, Reply, storeVars
<1>23. CASE Crash
  BY <1>23, <1>b, ReturnType DEF Crash, Reply, storeVars
<1>24. CASE UNCHANGED vars
  BY <1>24 DEF vars, TypeInv, TypeOK, BaseInside, turnVars, storeVars, envVars
<1> QED
  BY <1>1, <1>2, <1>3, <1>4, <1>5, <1>6, <1>7, <1>8, <1>9, <1>10, <1>11, <1>12, <1>14, <1>15,
     <1>16, <1>17, <1>18, <1>20, <1>21, <1>22, <1>23, <1>24 DEF Next, Progress

\* Every variable of the engine and its store keeps its type: in particular
\* the restored pool is a pool, whatever the boundary carried.
THEOREM TypeCorrect == Spec => []TypeOK
<1>1. TypeInv => TypeOK
  BY DEF TypeInv
<1> QED BY <1>1, TypeInit, TypeStep, PTL DEF Spec
-----------------------------------------------------------------------------
(* The transactions of the engine *)

LEMMA EngineInit == Init => EngineInv
<1> SUFFICES ASSUME Init PROVE EngineInv
  OBVIOUS
<1>1. conv = log /\ pc = "idle" /\ boundary.status = "none" /\ boundary.batch = 0
  BY DEF Init
<1>2. StageAccounts
  BY <1>1 DEF StageAccounts
<1>3. TransactionAccounts
  BY <1>1 DEF TransactionAccounts, Awaiting
<1> QED BY <1>2, <1>3 DEF EngineInv

\* A commit appends, and its boundary names a batch exactly if it waits for the user.
LEMMA CommittedBatch ==
    ASSUME TypeInv, NEW entries \in Seq(Entry), entries # <<>>, NEW status, NEW count,
           Committed(entries, status, count)
    PROVE  /\ log' = log \o entries
           /\ boundary'.status = status
           /\ boundary'.seq = run.seq
           /\ boundary'.snapshot = pool
           /\ boundary'.batch # 0 <=> status = "awaiting_confirmation"
           /\ boundary'.batch # 0 => boundary'.batch = Len(log')
<1>1. log \in Seq(Entry) /\ log' = log \o entries
  BY DEF TypeInv, TypeOK, Committed
<1>2. Len(entries) \in Nat \ {0} /\ Len(log) \in Nat /\ Len(log') = Len(log) + Len(entries)
  BY <1>1, ConcatProperties, LenProperties, EmptySeq
<1>3. Len(log') # 0
  BY <1>2
<1> QED BY <1>1, <1>3 DEF Committed

LEMMA SettledBatch ==
    ASSUME Settled
    PROVE  /\ log' = [log EXCEPT ![boundary.batch] = "results"]
           /\ boundary'.status = "iteration"
           /\ boundary'.seq = run.seq
           /\ boundary'.snapshot = pool
           /\ boundary'.batch = 0
BY DEF Settled

\* A run that returns without touching the store leaves the conversation
\* committed, unless it says otherwise.
LEMMA ReturnAccounts ==
    ASSUME EngineInv, NEW r, Return(r), UNCHANGED storeVars,
           conv' = log \/ r \in {"persist_error", "raised", "lost"}
    PROVE  EngineInv'
BY DEF EngineInv, StageAccounts, TransactionAccounts, Awaiting, Return, storeVars

\* What the rollback of an iteration gives back.
LEMMA RollbackAccounts ==
    ASSUME TypeInv, EngineInv, pc \in {"call", "tools"}
    PROVE  RolledBack = log
<1>1. log \in Seq(Entry) /\ "calls" \in Entry
  BY DEF TypeInv, TypeOK, Entry
<1>2. run.base = Len(log)
  BY DEF EngineInv, StageAccounts
<1>3. CASE pc = "call"
  <2>1. conv = log
    BY <1>3 DEF EngineInv, StageAccounts
  <2> QED BY <1>1, <1>2, <2>1, SubSeqFull DEF RolledBack
<1>4. CASE pc = "tools"
  <2>1. conv = Append(log, "calls")
    BY <1>4 DEF EngineInv, StageAccounts
  <2> QED BY <1>1, <1>2, <2>1, CutAppended DEF RolledBack
<1> QED BY <1>3, <1>4

\* The entries of a transaction about to be committed.
LEMMA HandedAccounts ==
    ASSUME TypeInv, EngineInv, pc = "commit"
    PROVE  txn.entries \in Seq(Entry) /\ txn.entries # <<>>
<1>1. txn.entries \in Seq(Entry)
  BY DEF TypeInv, TypeOK, Transaction
<1>2. txn.entries \in {<<"calls", "placeholders">>, <<"text">>, <<"calls">>, <<"calls", "results">>}
  BY DEF EngineInv, TransactionAccounts
<1>3. txn.entries # <<>>
  BY <1>2
<1> QED BY <1>1, <1>3

\* A run under way hands a transaction to the store.
LEMMA HandAccounts ==
    ASSUME TypeInv, EngineInv, NEW entries \in Seq(Entry), NEW status, NEW count, NEW r,
           Hand(entries, status, count, r), UNCHANGED storeVars, pc \in {"call", "tools"},
           conv' = log \o entries, run'.seq = run.seq + 1,
           \/ /\ status = "awaiting_confirmation"
              /\ entries = <<"calls", "placeholders">>
              /\ r # ""
           \/ /\ status \in {"iteration", "completed", "failed"}
              /\ entries \in {<<"text">>, <<"calls">>, <<"calls", "results">>}
    PROVE  EngineInv'
<1>1. pc' = "commit" /\ txn'.entries = entries /\ txn'.status = status /\ txn'.reply = r
  BY DEF Hand
<1>2. ~Awaiting /\ run.seq = boundary.seq
  BY DEF EngineInv, StageAccounts
<1>3. ~Awaiting' /\ boundary' = boundary /\ log' = log
  BY <1>2 DEF Awaiting, storeVars
<1>4. StageAccounts'
  BY <1>1, <1>2, <1>3 DEF StageAccounts
<1>5. TransactionAccounts'
  BY <1>1, <1>2, <1>3 DEF TransactionAccounts, EngineInv
<1> QED BY <1>4, <1>5 DEF EngineInv

LEMMA EngineStep == TypeInv /\ EngineInv /\ [Next]_vars => EngineInv'
<1> SUFFICES ASSUME TypeInv, EngineInv, [Next]_vars PROVE EngineInv'
  OBVIOUS
<1>r. run \in RunType /\ log \in Seq(Entry)
  BY DEF TypeInv, TypeOK
<1>a. \A e \in {"text", "calls", "results", "placeholders", "summary"} : e \in Entry
  BY DEF Entry
<1>1. CASE Say
  BY <1>1 DEF Say, EngineInv, StageAccounts, TransactionAccounts, Awaiting
<1>2. ASSUME NEW decision \in Decision, Start(decision) PROVE EngineInv'
  BY <1>2 DEF Start, EngineInv, StageAccounts, TransactionAccounts, Awaiting, storeVars
<1>3. CASE Interrupt
  BY <1>3 DEF Interrupt, EngineInv, StageAccounts, TransactionAccounts, Awaiting, storeVars, turnVars
<1>4. CASE Enter
  <2>1. conv = log /\ conv' = conv /\ UNCHANGED storeVars
    BY <1>4 DEF Enter, EngineInv, StageAccounts
  <2>2. CASE Return("awaiting_confirmation")
    BY <2>1, <2>2, ReturnAccounts
  <2>3. CASE pc' = "resolving" /\ Awaiting /\ run.decision # "none"
             /\ run' = [run EXCEPT !.seq = boundary.seq, !.next = 1]
    <3>1. run'.seq = boundary.seq /\ run'.decision = run.decision
      BY <1>r, <2>3 DEF RunType
    <3> QED BY <2>1, <2>3, <3>1
        DEF EngineInv, StageAccounts, TransactionAccounts, Awaiting, storeVars
  <2>4. CASE pc' = "top" /\ ~Awaiting
             /\ run' = [run EXCEPT !.seq = boundary.seq, !.decision = "none"]
    <3>1. run'.seq = boundary.seq
      BY <1>r, <2>4 DEF RunType
    <3> QED BY <2>1, <2>4, <3>1
        DEF EngineInv, StageAccounts, TransactionAccounts, Awaiting, storeVars
  <2> QED BY <1>4, <2>2, <2>3, <2>4 DEF Enter, Awaiting
<1>5. CASE ControlAnswers
  <2>1. conv = log /\ Awaiting /\ run.decision # "none" /\ run.seq = boundary.seq
    BY <1>5 DEF ControlAnswers, EngineInv, StageAccounts
  <2>2. UNCHANGED storeVars
    BY <1>5 DEF ControlAnswers
  <2>3. CASE run' = [run EXCEPT !.next = @ + 1] /\ UNCHANGED <<pc, conv>>
    <3>1. run'.seq = run.seq /\ run'.decision = run.decision
      BY <1>r, <2>3 DEF RunType
    <3> QED BY <1>5, <2>1, <2>2, <2>3, <3>1
        DEF ControlAnswers, EngineInv, StageAccounts, TransactionAccounts, Awaiting, storeVars
  <2>4. CASE run' = [run EXCEPT !.seq = @ + 1, !.next = 0] /\ pc' = "settle"
             /\ conv' = [conv EXCEPT ![boundary.batch] = "results"]
    <3>1. run'.seq = run.seq + 1 /\ run'.decision = run.decision
      BY <1>r, <2>4 DEF RunType
    <3> QED BY <2>1, <2>2, <2>4, <3>1
        DEF EngineInv, StageAccounts, TransactionAccounts, Awaiting, storeVars
  <2> QED BY <1>5, <2>3, <2>4 DEF ControlAnswers
<1>6. CASE Settle
  <2>1. /\ conv = [log EXCEPT ![boundary.batch] = "results"]
        /\ pc' = "top" /\ conv' = conv
    BY <1>6 DEF Settle, EngineInv, StageAccounts
  <2>2. run'.seq = run.seq
    BY <1>6, <1>r DEF Settle, RunType
  <2>3. /\ log' = [log EXCEPT ![boundary.batch] = "results"]
        /\ boundary'.status = "iteration" /\ boundary'.seq = run.seq /\ boundary'.batch = 0
    BY <1>6, SettledBatch DEF Settle
  <2> QED BY <2>1, <2>2, <2>3 DEF EngineInv, StageAccounts, TransactionAccounts, Awaiting
<1>7. CASE Top
  <2>1. conv = log /\ conv' = conv /\ UNCHANGED storeVars /\ ~Awaiting /\ run.seq = boundary.seq
    BY <1>7 DEF Top, EngineInv, StageAccounts
  <2>2. CASE \E r \in {"interrupted", "budget_exhausted"} : Return(r)
    BY <2>1, <2>2, ReturnAccounts
  <2>3. ASSUME NEW isGrace \in BOOLEAN, Assemble(isGrace) PROVE EngineInv'
    <3>1. pc' = "assembled" /\ run'.seq = run.seq
      BY <2>3, <1>r DEF Assemble, RunType
    <3> QED BY <2>1, <3>1 DEF EngineInv, StageAccounts, TransactionAccounts, Awaiting, storeVars
  <2> QED BY <1>7, <2>2, <2>3 DEF Top
<1>8. CASE Proceed
  <2>1. conv = log /\ conv' = conv /\ UNCHANGED storeVars /\ ~Awaiting /\ run.seq = boundary.seq
    BY <1>8 DEF Proceed, EngineInv, StageAccounts
  <2>2. pc' = "call" /\ run'.seq = run.seq /\ run'.base = Len(conv)
    BY <1>8, <1>r DEF Proceed, RunType
  <2> QED BY <2>1, <2>2 DEF EngineInv, StageAccounts, TransactionAccounts, Awaiting, storeVars
<1>9. CASE CompactThrash
  <2>1. conv' = log
    BY <1>9 DEF CompactThrash, EngineInv, StageAccounts
  <2> QED BY <1>9, <2>1, ReturnAccounts DEF CompactThrash
<1>10. CASE Compact
  <2>1. conv = log /\ UNCHANGED storeVars /\ ~Awaiting /\ run.seq = boundary.seq
    BY <1>10 DEF Compact, EngineInv, StageAccounts
  <2>2. pc' = "commit_summary" /\ conv' = log \o <<"summary">>
    BY <1>10, <1>r, <1>a, <2>1, OneAppend DEF Compact
  <2>3. run'.seq = run.seq + 1
    BY <1>10, <1>r DEF Compact, RunType
  <2> QED BY <2>1, <2>2, <2>3 DEF EngineInv, StageAccounts, TransactionAccounts, Awaiting, storeVars
<1>11. CASE CommitSummary
  <2>1. <<"summary">> \in Seq(Entry) /\ <<"summary">> # <<>>
    BY <1>a
  <2>2. conv' = log \o <<"summary">> /\ run.seq = boundary.seq + 1
    BY <1>11 DEF CommitSummary, EngineInv, StageAccounts
  <2>3. log' = log \o <<"summary">> /\ boundary'.status = "iteration"
        /\ boundary'.seq = run.seq /\ boundary'.batch = 0
    <3>1. Committed(<<"summary">>, "iteration", 0)
      BY <1>11 DEF CommitSummary
    <3>2. /\ log' = log \o <<"summary">>
          /\ boundary'.status = "iteration"
          /\ boundary'.seq = run.seq
          /\ boundary'.batch # 0 <=> "iteration" = "awaiting_confirmation"
      BY <2>1, <3>1, CommittedBatch
    <3> QED BY <3>2
  <2>4. pc' = "assembled" /\ run'.seq = run.seq
    BY <1>11, <1>r DEF CommitSummary, RunType
  <2> QED BY <2>2, <2>3, <2>4 DEF EngineInv, StageAccounts, TransactionAccounts, Awaiting
<1>12. CASE ModelFails
  <2>1. conv' = log
    BY <1>12 DEF ModelFails, EngineInv, StageAccounts
  <2> QED BY <1>12, <2>1, ReturnAccounts DEF ModelFails
<1>13. ASSUME NEW entry \in {"text", "calls"}, Answered(entry)
       PROVE  /\ conv' = Append(log, entry) /\ conv' = log \o <<entry>> /\ <<entry>> \in Seq(Entry)
              /\ pc = "call"
  <2>1. conv = log /\ entry \in Entry
    BY <1>13, <1>a DEF Answered, EngineInv, StageAccounts
  <2>2. conv' = Append(log, entry) /\ pc = "call"
    BY <1>13, <2>1 DEF Answered
  <2>3. Append(log, entry) = log \o <<entry>>
    BY <1>r, <2>1, OneAppend
  <2>4. <<entry>> \in Seq(Entry)
    BY <2>1
  <2> QED BY <2>2, <2>3, <2>4
<1>14. CASE GraceTurn
  <2>1. PICK entry \in {"text", "calls"} :
           Answered(entry) /\ Hand(<<entry>>, "completed", 0, "budget_exhausted")
    BY <1>14 DEF GraceTurn
  <2>2. conv' = log \o <<entry>> /\ <<entry>> \in Seq(Entry) /\ pc = "call"
    BY <2>1, <1>13
  <2>3. run'.seq = run.seq + 1 /\ UNCHANGED storeVars
    BY <1>14, <1>r DEF GraceTurn, RunType
  <2>4. <<entry>> \in {<<"text">>, <<"calls">>, <<"calls", "results">>}
    OBVIOUS
  <2> QED BY <2>1, <2>2, <2>3, <2>4, HandAccounts
<1>15. CASE TextTurn
  <2>1. conv' = log \o <<"text">> /\ <<"text">> \in Seq(Entry) /\ pc = "call"
    BY <1>15, <1>13 DEF TextTurn
  <2>2. run'.seq = run.seq + 1 /\ UNCHANGED storeVars
    BY <1>15, <1>r DEF TextTurn, RunType
  <2> QED BY <1>15, <2>1, <2>2, HandAccounts DEF TextTurn
<1>16. CASE EmptyTurn
  <2>1. conv' = log /\ UNCHANGED storeVars /\ ~Awaiting /\ run.seq = boundary.seq
    BY <1>16, RollbackAccounts DEF EmptyTurn, EngineInv, StageAccounts
  <2>2. CASE Return("empty_response")
    BY <2>1, <2>2, ReturnAccounts
  <2>3. CASE pc' = "top" /\ run' = [run EXCEPT !.steps = @ + 1, !.empties = @ + 1]
    <3>1. run'.seq = run.seq
      BY <2>3, <1>r DEF RunType
    <3> QED BY <2>1, <2>3, <3>1 DEF EngineInv, StageAccounts, TransactionAccounts, Awaiting, storeVars
  <2> QED BY <1>16, <2>2, <2>3 DEF EmptyTurn
<1>17. ASSUME NEW turn \in Turns, ToolTurn(turn) PROVE EngineInv'
  <2>1. UNCHANGED storeVars /\ ~Awaiting /\ run.seq = boundary.seq /\ run.base = Len(log)
    BY <1>17 DEF ToolTurn, EngineInv, StageAccounts
  <2>2. CASE \E r \in {"no_progress", "stall"} : Return(r) /\ conv' = RolledBack
    <3>1. conv' = log
      BY <1>17, <2>2, RollbackAccounts DEF ToolTurn
    <3> QED BY <2>1, <2>2, <3>1, ReturnAccounts
  <2>3. CASE Answered("calls") /\ pc' = "tools"
    <3> DEFINE idle == IF PlanOnly(turn) THEN run.noProgress + 1 ELSE 0
    <3>1. run' = [run EXCEPT !.steps = @ + 1, !.empties = 0, !.noProgress = idle,
                             !.last = SignatureOf(turn), !.repeats = Repeats(turn)]
      BY <1>17, <2>3 DEF ToolTurn, Return
    <3> HIDE DEF idle
    <3>2. run'.seq = run.seq /\ run'.base = run.base
      BY <3>1, <1>r DEF RunType
    <3>3. conv' = Append(log, "calls")
      BY <2>3, <1>13
    <3> QED BY <2>1, <2>3, <3>2, <3>3
        DEF EngineInv, StageAccounts, TransactionAccounts, Awaiting, storeVars
  <2> QED BY <1>17, <2>2, <2>3 DEF ToolTurn
<1>18. CASE ToolsReturn
  <2>1. pc = "tools" /\ UNCHANGED storeVars /\ conv = Append(log, "calls")
    BY <1>18 DEF ToolsReturn, EngineInv, StageAccounts
  <2>2. PICK r \in Outcomes : BatchDropped(r) \/ BatchDone(r)
    BY <1>18 DEF ToolsReturn
  <2>3. CASE BatchDropped(r)
    <3>1. conv' = log
      BY <2>1, <2>3, RollbackAccounts DEF BatchDropped
    <3> QED BY <2>1, <2>3, <3>1, ReturnAccounts DEF BatchDropped
  <2>4. CASE BatchDone(r)
    <3> DEFINE failures == FailuresAfter(run.failures, r)
               asked == Holding(r, {"placeholder"})
               futile == IF Holding(r, {"useful"}) # {} THEN 0 ELSE run.unproductive + 1
               entry == IF asked # {} THEN "placeholders" ELSE "results"
    <3>1. conv' = Append(conv, entry)
      BY <2>4 DEF BatchDone
    <3>2. conv' = log \o <<"calls", entry>> /\ <<"calls", entry>> \in Seq(Entry)
      BY <1>r, <1>a, <2>1, <3>1, TwoAppends
    <3>3. \/ run' = [run EXCEPT !.failures = failures, !.seq = @ + 1]
          \/ run' = [run EXCEPT !.failures = failures, !.seq = @ + 1, !.unproductive = futile]
      BY <2>4 DEF BatchDone
    <3>4. CASE asked # {}
      <4>1. Hand(<<"calls", "placeholders">>, "awaiting_confirmation", Cardinality(asked),
                 "awaiting_confirmation")
        BY <2>4, <3>4 DEF BatchDone
      <4>2. run'.seq = run.seq + 1
        <5> HIDE DEF failures, futile
        <5> QED BY <3>3, <1>r DEF RunType
      <4>3. conv' = log \o <<"calls", "placeholders">> /\ <<"calls", "placeholders">> \in Seq(Entry)
        BY <3>2, <3>4
      <4> QED BY <2>1, <4>1, <4>2, <4>3, HandAccounts
    <3>5. CASE asked = {}
      <4>1. \/ Hand(<<"calls", "results">>, "failed", 0, "tool_failures")
            \/ Hand(<<"calls", "results">>, "iteration", 0, "")
        BY <2>4, <3>5 DEF BatchDone
      <4>2. run'.seq = run.seq + 1
        <5> HIDE DEF failures, futile
        <5> QED BY <3>3, <1>r DEF RunType
      <4>3. conv' = log \o <<"calls", "results">> /\ <<"calls", "results">> \in Seq(Entry)
        BY <3>2, <3>5
      <4> QED BY <2>1, <4>1, <4>2, <4>3, HandAccounts
    <3> QED BY <3>4, <3>5
  <2> QED BY <2>2, <2>3, <2>4
<1>19. CASE Commit
  <2>1. txn.entries \in Seq(Entry) /\ txn.entries # <<>>
    BY <1>19, HandedAccounts DEF Commit
  <2>2. /\ conv' = log \o txn.entries /\ run.seq = boundary.seq + 1
    BY <1>19 DEF Commit, EngineInv, StageAccounts
  <2>3. /\ log' = log \o txn.entries
        /\ boundary'.status = txn.status /\ boundary'.seq = run.seq
        /\ boundary'.batch # 0 <=> txn.status = "awaiting_confirmation"
    BY <1>19, <2>1, CommittedBatch DEF Commit
  <2>4. CASE Return(txn.reply)
    BY <2>2, <2>3, <2>4 DEF Return, EngineInv, StageAccounts, TransactionAccounts, Awaiting
  <2>5. CASE txn.reply = "" /\ pc' = "top" /\ UNCHANGED run
    <3>1. txn.status # "awaiting_confirmation"
      BY <1>19, <2>5 DEF Commit, EngineInv, TransactionAccounts
    <3> QED BY <2>2, <2>3, <2>5, <3>1
        DEF EngineInv, StageAccounts, TransactionAccounts, Awaiting
  <2> QED BY <1>19, <2>4, <2>5 DEF Commit
<1>20. CASE PersistFails
  <2>1. Awaiting' <=> boundary'.batch # 0
    <3>1. CASE UNCHANGED storeVars
      BY <3>1 DEF storeVars, Awaiting, EngineInv, TransactionAccounts
    <3>2. CASE Settled
      BY <3>2, SettledBatch DEF Awaiting
    <3>3. CASE Committed(<<"summary">>, "iteration", 0)
      <4>1. <<"summary">> \in Seq(Entry) /\ <<"summary">> # <<>>
        BY <1>a
      <4> QED BY <3>3, <4>1, CommittedBatch DEF Awaiting
    <3>4. CASE pc = "commit" /\ Committed(txn.entries, txn.status, txn.count)
      BY <3>4, HandedAccounts, CommittedBatch DEF Awaiting
    <3> QED BY <1>20, <3>1, <3>2, <3>3, <3>4 DEF PersistFails
  <2>2. pc' = "idle" /\ reply' = "persist_error"
    BY <1>20 DEF PersistFails, Return
  <2> QED BY <2>1, <2>2 DEF EngineInv, StageAccounts, TransactionAccounts
<1>21. CASE Raises
  BY <1>21, ReturnAccounts DEF Raises
<1>22. CASE Crash
  BY <1>22, ReturnAccounts DEF Crash
<1>23. CASE UNCHANGED vars
  BY <1>23 DEF vars, EngineInv, StageAccounts, TransactionAccounts, Awaiting, storeVars, turnVars
<1> QED
  BY <1>1, <1>2, <1>3, <1>4, <1>5, <1>6, <1>7, <1>8, <1>9, <1>10, <1>11, <1>12, <1>14, <1>15,
     <1>16, <1>17, <1>18, <1>19, <1>20, <1>21, <1>22, <1>23 DEF Next, Progress

LEMMA EngineAccounts == Spec => [](TypeInv /\ EngineInv)
BY TypeInit, TypeStep, EngineInit, EngineStep, PTL DEF Spec

\* At the top of every iteration, and when a run has returned without a
\* failure of its collaborators, memory and store agree: whichever of the
\* rollbacks, commits and settlements of run_loop came before.
THEOREM SafeTransactional == Spec => []Transactional
<1>1. EngineInv => Transactional
  BY DEF EngineInv, StageAccounts, Transactional
<1> QED BY <1>1, EngineAccounts, PTL

\* A step that leaves a pending batch is the settlement of its decisions.
LEMMA DecisionStep ==
    ASSUME NoChatWhilePending, TypeInv, EngineInv, Next, Awaiting, boundary' # boundary
    PROVE  run.decision # "none" /\ boundary'.status = "iteration"
<1>1. pc \notin {"top", "assembled", "commit_summary", "call", "tools", "commit"}
  BY DEF EngineInv, StageAccounts
<1>2. CASE pc = "settle" /\ Settled
  BY <1>2, SettledBatch DEF EngineInv, StageAccounts
<1>3. CASE Say
  BY <1>3 DEF Say, NoChatWhilePending, Awaiting
<1>4. CASE PersistFails
  BY <1>1, <1>2, <1>4 DEF PersistFails, storeVars
<1>5. CASE Progress
  <2>1. ~CommitSummary /\ ~Commit
    BY <1>1 DEF CommitSummary, Commit
  <2>2. ~Settle => UNCHANGED storeVars
    BY <1>5, <2>1 DEF Progress, Enter, ControlAnswers, Top, Proceed, CompactThrash, Compact,
       ModelFails, GraceTurn, TextTurn, EmptyTurn, ToolTurn, ToolsReturn
  <2> QED BY <1>2, <2>2 DEF Settle, storeVars
<1>6. CASE (\E decision \in Decision : Start(decision)) \/ Interrupt \/ Raises \/ Crash
  BY <1>6 DEF Start, Interrupt, Raises, Crash, storeVars
<1> QED BY <1>3, <1>4, <1>5, <1>6 DEF Next

\* Where the caller commits no message over a pending batch, only a decision
\* it passed to run_loop ends the batch.
THEOREM SafeOnlyADecisionSettles == NoChatWhilePending => (Spec => OnlyADecisionSettles)
<1> SUFFICES ASSUME NoChatWhilePending PROVE Spec => OnlyADecisionSettles
  OBVIOUS
<1>1. TypeInv /\ EngineInv /\ [Next]_vars
      => [boundary.status = "awaiting_confirmation" /\ boundary' # boundary
          => run.decision # "none" /\ boundary'.status = "iteration"]_vars
  BY DecisionStep DEF Awaiting
<1> QED BY <1>1, EngineAccounts, PTL DEF Spec, OnlyADecisionSettles
-----------------------------------------------------------------------------
(* The engine and its store implement one conversation thread *)

LEMMA ThreadInit == Init => Thread!TInit
<1> SUFFICES ASSUME Init PROVE Thread!TInit
  OBVIOUS
<1>1. log = <<>> /\ boundary.seq = 0 /\ boundary.batch = 0
  BY DEF Init
<1> QED BY <1>1 DEF Thread!TInit

\* A commit of a run is a transaction of the thread.
LEMMA CommittedMaps ==
    ASSUME TypeInv, EngineInv, NEW entries \in Seq(Entry), NEW status, NEW count,
           Committed(entries, status, count), ~Awaiting, run.seq = boundary.seq + 1,
           \/ status = "awaiting_confirmation" /\ entries = <<"calls", "placeholders">>
           \/ /\ status # "awaiting_confirmation"
              /\ entries \in {<<"text">>, <<"calls">>, <<"calls", "results">>, <<"summary">>}
    PROVE  Thread!TNext
<1>1. entries # <<>>
  OBVIOUS
<1>2. boundary.batch = 0
  BY DEF EngineInv, TransactionAccounts
<1>3. /\ log' = log \o entries
      /\ boundary'.seq = boundary.seq + 1
      /\ boundary'.batch # 0 <=> status = "awaiting_confirmation"
      /\ boundary'.batch # 0 => boundary'.batch = Len(log')
  BY <1>1, CommittedBatch
<1>4. CASE status = "awaiting_confirmation"
  BY <1>2, <1>3, <1>4 DEF Thread!TNext, Thread!TSuspend
<1>5. CASE status # "awaiting_confirmation"
  <2>1. entries \in Thread!Additions
    BY <1>5 DEF Thread!Additions
  <2>2. \A i \in DOMAIN entries : entries[i] # "placeholders"
    BY <1>5
  <2>3. boundary'.batch = 0
    BY <1>3, <1>5
  <2>4. Thread!TExtend(entries)
    BY <1>2, <1>3, <2>2, <2>3 DEF Thread!TExtend
  <2> QED BY <2>1, <2>4 DEF Thread!TNext
<1> QED BY <1>4, <1>5

LEMMA SettledMaps ==
    ASSUME EngineInv, Settled, Awaiting, run.seq = boundary.seq + 1
    PROVE  Thread!TNext
<1>1. boundary.batch # 0
  BY DEF EngineInv, TransactionAccounts
<1> QED BY <1>1, SettledBatch DEF Thread!TNext, Thread!TSettle

\* The transaction a run has handed to the store is one the thread allows.
LEMMA HandedMaps ==
    ASSUME TypeInv, EngineInv, pc = "commit", Committed(txn.entries, txn.status, txn.count)
    PROVE  Thread!TNext
<1>1. txn.entries \in Seq(Entry)
  BY HandedAccounts
<1>2. ~Awaiting /\ run.seq = boundary.seq + 1
  BY DEF EngineInv, StageAccounts
<1>3. \/ txn.status = "awaiting_confirmation" /\ txn.entries = <<"calls", "placeholders">>
      \/ /\ txn.status # "awaiting_confirmation"
         /\ txn.entries \in {<<"text">>, <<"calls">>, <<"calls", "results">>, <<"summary">>}
  BY DEF EngineInv, TransactionAccounts
<1> QED BY <1>1, <1>2, <1>3, CommittedMaps

LEMMA SummaryMaps ==
    ASSUME TypeInv, EngineInv, pc = "commit_summary", Committed(<<"summary">>, "iteration", 0)
    PROVE  Thread!TNext
<1>1. <<"summary">> \in Seq(Entry)
  BY DEF Entry
<1>2. ~Awaiting /\ run.seq = boundary.seq + 1
  BY DEF EngineInv, StageAccounts
<1> QED BY <1>1, <1>2, CommittedMaps

LEMMA SayMaps ==
    ASSUME NoChatWhilePending, TypeInv, EngineInv, Say
    PROVE  Thread!TNext
<1>1. log \in Seq(Entry) /\ "user" \in Entry
  BY DEF TypeInv, TypeOK, Entry
<1>2. boundary.batch = 0 /\ boundary'.batch = 0 /\ boundary'.seq = boundary.seq + 1
  BY DEF Say, NoChatWhilePending, EngineInv, TransactionAccounts, Awaiting
<1>3. CASE log' = log
  <2>1. log' = log \o <<>>
    BY <1>1, <1>3, ConcatEmptySeq
  <2>2. Thread!TExtend(<<>>)
    BY <1>2, <2>1 DEF Thread!TExtend
  <2> QED BY <2>2 DEF Thread!TNext, Thread!Additions
<1>4. CASE log' = Append(log, "user")
  <2>1. log' = log \o <<"user">>
    BY <1>1, <1>4, OneAppend
  <2>2. Thread!TExtend(<<"user">>)
    BY <1>2, <2>1 DEF Thread!TExtend
  <2> QED BY <2>2 DEF Thread!TNext, Thread!Additions
<1> QED BY <1>3, <1>4 DEF Say

LEMMA ThreadStep ==
    ASSUME NoChatWhilePending, TypeInv, EngineInv, [Next]_vars
    PROVE  [Thread!TNext]_(Thread!tvars)
<1>1. UNCHANGED storeVars => UNCHANGED Thread!tvars
  BY DEF storeVars, Thread!tvars
<1>2. CASE Say
  BY <1>2, SayMaps
<1>3. pc = "settle" /\ Settled => Thread!TNext
  BY SettledMaps DEF EngineInv, StageAccounts
<1>4. CASE PersistFails
  BY <1>1, <1>3, <1>4, HandedMaps, SummaryMaps DEF PersistFails
<1>5. CASE Settle \/ CommitSummary \/ Commit
  BY <1>3, <1>5, HandedMaps, SummaryMaps DEF Settle, CommitSummary, Commit
<1>6. CASE Progress /\ ~(Settle \/ CommitSummary \/ Commit)
  <2>1. UNCHANGED storeVars
    BY <1>6 DEF Progress, Enter, ControlAnswers, Top, Proceed, CompactThrash, Compact,
       ModelFails, GraceTurn, TextTurn, EmptyTurn, ToolTurn, ToolsReturn
  <2> QED BY <1>1, <2>1
<1>7. CASE \/ \E decision \in Decision : Start(decision)
           \/ Interrupt \/ Raises \/ Crash \/ UNCHANGED vars
  BY <1>1, <1>7 DEF Start, Interrupt, Raises, Crash, vars
<1> QED BY <1>2, <1>4, <1>5, <1>6, <1>7 DEF Next

\* With any store failure, crash, interrupt and tool outcome, what the engine
\* leaves in the store is a thread of whole transactions whose pending batch
\* nothing but its settlement rewrites.
THEOREM Refinement == NoChatWhilePending => (Spec => ImplementsThread)
<1> SUFFICES ASSUME NoChatWhilePending PROVE Spec => ImplementsThread
  OBVIOUS
<1>1. TypeInv /\ EngineInv /\ [Next]_vars => [Thread!TNext]_(Thread!tvars)
  BY ThreadStep
<1> QED BY <1>1, ThreadInit, EngineAccounts, PTL DEF Spec, ImplementsThread, Thread!TSpec
-----------------------------------------------------------------------------
(* The budget pool *)

LEMMA Limits ==
    MaxIterations \in Nat /\ CompactThrashLimit \in Nat /\ SubagentSpend \in Nat
BY LoopAssumption

LEMMA FreshOverdrawn == Overdrawn(FreshPool)
<1>1. FreshPool.iters = 0 /\ ~FreshPool.graceUsed
  BY DEF FreshPool
<1> QED BY <1>1, Limits DEF Overdrawn

LEMMA ConsumedFields ==
    ASSUME NEW p \in Pool, NEW n \in Nat, NEW t \in BOOLEAN
    PROVE  /\ Consumed(p, n, t).iters = p.iters + n
           /\ Consumed(p, n, t).graceUsed = p.graceUsed
           /\ p.tokensOut => Consumed(p, n, t).tokensOut
BY DEF Consumed, Pool

\* One more charge in an iteration that has charged no more than its compactions.
LEMMA ChargeOverdraws ==
    ASSUME NEW p \in Pool, NEW t \in BOOLEAN, NEW k \in Nat, pool = p,
           run.isGrace \in BOOLEAN, Overdrawn(p), Charged(k)
    PROVE  Overdrawn(Consumed(p, 1, t))
<1> DEFINE q == Consumed(p, 1, t)
<1>1. /\ q.iters = p.iters + 1
      /\ q.graceUsed = p.graceUsed
      /\ p.tokensOut => q.tokensOut
  BY ConsumedFields
<1>2. p.iters \in Nat /\ p.graceUsed \in BOOLEAN
  BY DEF Pool
<1> SUFFICES Overdrawn(q)
  OBVIOUS
<1> HIDE DEF q
<1>3. q.graceUsed => Exhausted(q)
  BY <1>1, <1>2, Limits DEF Overdrawn, Exhausted
<1>4. CASE run.isGrace
  <2>1. /\ p.graceUsed /\ k <= CompactThrashLimit + 1
        /\ p.iters <= MaxIterations + CompactThrashLimit + 1 + SubagentSpend + k
    BY <1>4 DEF Charged
  <2>2. q.iters <= MaxIterations + CompactThrashLimit + 1 + SubagentSpend + (CompactThrashLimit + 2)
    BY <1>1, <1>2, <2>1, Limits
  <2> QED BY <1>1, <1>2, <1>3, <2>1, <2>2, Limits DEF Overdrawn
<1>5. CASE ~run.isGrace
  <2>1. ~p.graceUsed /\ k <= CompactThrashLimit + 1 /\ p.iters < MaxIterations + k
    BY <1>5 DEF Charged
  <2>2. q.iters <= MaxIterations + CompactThrashLimit + 1 + SubagentSpend
    BY <1>1, <1>2, <2>1, Limits
  <2>3. q.iters <= MaxIterations + CompactThrashLimit + 1 + SubagentSpend + 0
    BY <1>1, <1>2, <2>2, Limits
  <2> QED BY <1>1, <1>2, <1>3, <2>1, <2>3, Limits DEF Overdrawn
<1> QED BY <1>4, <1>5

LEMMA PoolInit == Init => PoolInv
<1> SUFFICES ASSUME Init PROVE PoolInv
  OBVIOUS
<1>1. boundary.snapshot = NoSnapshot /\ pc = "idle" /\ pool = FreshPool
  BY DEF Init
<1> QED BY <1>1, FreshOverdrawn DEF PoolInv

\* Between the iterations the pool only has to be no further overdrawn.
LEMMA PoolKept ==
    ASSUME PoolInv, Overdrawn(pool'), boundary' = boundary \/ boundary'.snapshot = pool,
           pc' \notin {"assembled", "commit_summary", "call", "tools"}
    PROVE  PoolInv'
BY DEF PoolInv, Overdrawn, Exhausted

LEMMA ReturnPool ==
    ASSUME PoolInv, NEW r, Return(r), boundary' = boundary \/ boundary'.snapshot = pool
    PROVE  PoolInv'
<1>1. pool' = FreshPool /\ pc' = "idle"
  BY DEF Return
<1>2. Overdrawn(pool')
  BY <1>1, FreshOverdrawn DEF Overdrawn, Exhausted
<1> QED BY <1>1, <1>2, PoolKept

LEMMA PoolStep == TypeInv /\ PoolInv /\ [Next]_vars => PoolInv'
<1> SUFFICES ASSUME TypeInv, PoolInv, [Next]_vars PROVE PoolInv'
  OBVIOUS
<1>1. /\ pool \in Pool /\ pool.iters \in Nat /\ pool.graceUsed \in BOOLEAN
      /\ run \in RunType /\ run.compactions \in Nat /\ run.isGrace \in BOOLEAN
  BY DEF TypeInv, TypeOK, Pool, RunType
<1>2. Overdrawn(pool)
  BY DEF PoolInv
<1>3. ASSUME NEW e, Answered(e), NEW k \in Nat, Charged(k) PROVE Overdrawn(pool')
  <2>1. PICK t \in BOOLEAN : pool' = Consumed(pool, 1, t)
    BY <1>3 DEF Answered
  <2>2. Overdrawn(Consumed(pool, 1, t))
    BY <1>1, <1>2, <1>3, ChargeOverdraws
  <2> QED BY <2>1, <2>2 DEF Overdrawn, Exhausted
<1>4. CASE Say
  BY <1>4, <1>2 DEF Say, PoolInv, Overdrawn, Exhausted
<1>5. CASE \E decision \in Decision : Start(decision)
  <2>1. pool' = FreshPool /\ pc' = "enter" /\ boundary' = boundary
    BY <1>5 DEF Start, storeVars
  <2>2. Overdrawn(pool')
    BY <2>1, FreshOverdrawn DEF Overdrawn, Exhausted
  <2> QED BY <2>1, <2>2, PoolKept
<1>6. CASE Interrupt
  BY <1>6 DEF Interrupt, PoolInv, Overdrawn, Exhausted, Charged, storeVars
<1>7. CASE Enter
  <2>1. CASE Return("awaiting_confirmation")
    BY <1>7, <2>1, ReturnPool DEF Enter, storeVars
  <2>2. CASE pool' = Restored(boundary.snapshot, pool) /\ pc' \in {"resolving", "top"}
    <3>1. Overdrawn(pool')
      BY <1>2, <2>2 DEF Restored, PoolInv, Overdrawn, Exhausted
    <3> QED BY <1>7, <2>2, <3>1, PoolKept DEF Enter, storeVars
  <2> QED BY <1>7, <2>1, <2>2 DEF Enter
<1>8. CASE ControlAnswers \/ Settle
  <2>1. pool' = pool /\ pc' \in {"resolving", "settle", "top"}
    BY <1>8 DEF ControlAnswers, Settle
  <2>2. boundary' = boundary \/ boundary'.snapshot = pool
    BY <1>8, SettledBatch DEF ControlAnswers, Settle, storeVars
  <2>3. Overdrawn(pool')
    BY <1>2, <2>1 DEF Overdrawn, Exhausted
  <2> QED BY <2>1, <2>2, <2>3, PoolKept
<1>9. CASE Top
  <2>1. boundary' = boundary
    BY <1>9 DEF Top, storeVars
  <2>2. CASE \E r \in {"interrupted", "budget_exhausted"} : Return(r)
    BY <2>1, <2>2, ReturnPool
  <2>3. CASE Assemble(TRUE) /\ pool' = GraceTaken(pool) /\ Exhausted(pool) /\ ~pool.graceUsed
    <3>1. pc' = "assembled" /\ run'.isGrace /\ run'.compactions = 0
      BY <1>1, <2>3 DEF Assemble, RunType
    <3>2. pool'.graceUsed /\ pool'.iters = pool.iters /\ pool'.tokensOut = pool.tokensOut
      BY <1>1, <2>3 DEF GraceTaken, Pool
    <3>3. pool.iters <= MaxIterations + CompactThrashLimit + 1 + SubagentSpend
      BY <1>1, <1>2, <2>3, Limits DEF Overdrawn
    <3>4. Overdrawn(pool')
      BY <1>1, <2>3, <3>2, <3>3, Limits DEF Overdrawn, Exhausted
    <3>5. Charged(run.compactions)'
      BY <1>1, <3>1, <3>2, <3>3, Limits DEF Charged
    <3> QED BY <2>1, <3>1, <3>4, <3>5 DEF PoolInv, Overdrawn, Exhausted
  <2>4. CASE Assemble(FALSE) /\ pool' = pool /\ ~Exhausted(pool)
    <3>1. pc' = "assembled" /\ ~run'.isGrace /\ run'.compactions = 0
      BY <1>1, <2>4 DEF Assemble, RunType
    <3>2. ~pool.graceUsed /\ pool.iters < MaxIterations
      BY <1>1, <1>2, <2>4, Limits DEF Overdrawn, Exhausted
    <3>3. Charged(run.compactions)'
      BY <1>1, <2>4, <3>1, <3>2, Limits DEF Charged
    <3> QED BY <1>2, <2>1, <2>4, <3>1, <3>3 DEF PoolInv, Overdrawn, Exhausted
  <2> QED BY <1>9, <2>2, <2>3, <2>4 DEF Top
<1>10. CASE Proceed
  <2>1. pc = "assembled" /\ pc' = "call" /\ pool' = pool /\ boundary' = boundary
    BY <1>10 DEF Proceed, storeVars
  <2>2. run'.isGrace = run.isGrace /\ run'.compactions = run.compactions
    BY <1>1, <1>10 DEF Proceed, RunType
  <2>3. Charged(run.compactions)
    BY <2>1 DEF PoolInv
  <2>4. Charged(run.compactions)'
    BY <2>1, <2>2, <2>3 DEF Charged
  <2> QED BY <1>2, <2>1, <2>4 DEF PoolInv, Overdrawn, Exhausted
<1>11. CASE Compact
  <2>1. /\ pc = "assembled" /\ pc' = "commit_summary" /\ boundary' = boundary
        /\ pool' = Consumed(pool, 1, FALSE) /\ run.compactions <= CompactThrashLimit
    BY <1>11 DEF Compact, storeVars
  <2>2. run'.isGrace = run.isGrace /\ run'.compactions = run.compactions
    BY <1>1, <1>11 DEF Compact, RunType
  <2>3. pool'.iters = pool.iters + 1 /\ pool'.graceUsed = pool.graceUsed
    BY <1>1, <2>1, ConsumedFields
  <2>4. Charged(run.compactions)
    BY <2>1 DEF PoolInv
  <2>5. Overdrawn(Consumed(pool, 1, FALSE))
    BY <1>1, <1>2, <2>4, ChargeOverdraws
  <2>6. Charged(run.compactions + 1)'
    <3> DEFINE k == run.compactions
    <3>1. k + 1 <= CompactThrashLimit + 1
      BY <1>1, <2>1, Limits
    <3>2. CASE run.isGrace
      <4>1. pool.graceUsed /\ pool.iters <= MaxIterations + CompactThrashLimit + 1 + SubagentSpend + k
        BY <2>4, <3>2 DEF Charged
      <4>2. pool'.iters <= MaxIterations + CompactThrashLimit + 1 + SubagentSpend + (k + 1)
        BY <1>1, <2>3, <4>1, Limits
      <4> QED BY <2>2, <2>3, <3>1, <3>2, <4>1, <4>2 DEF Charged
    <3>3. CASE ~run.isGrace
      <4>1. ~pool.graceUsed /\ pool.iters < MaxIterations + k
        BY <2>4, <3>3 DEF Charged
      <4>2. pool'.iters < MaxIterations + (k + 1)
        BY <1>1, <2>3, <4>1, Limits
      <4> QED BY <2>2, <2>3, <3>1, <3>3, <4>1, <4>2 DEF Charged
    <3> QED BY <3>2, <3>3
  <2> QED BY <2>1, <2>5, <2>6 DEF PoolInv, Overdrawn, Exhausted
<1>12. CASE CommitSummary
  <2>1. pc = "commit_summary" /\ pc' = "assembled" /\ pool' = pool /\ boundary'.snapshot = pool
    BY <1>12 DEF CommitSummary, Committed
  <2>2. run'.isGrace = run.isGrace /\ run'.compactions = run.compactions + 1
    BY <1>1, <1>12 DEF CommitSummary, RunType
  <2>3. Charged(run.compactions + 1)
    BY <2>1 DEF PoolInv
  <2>4. Charged(run.compactions)'
    BY <2>1, <2>2, <2>3 DEF Charged
  <2> QED BY <1>2, <2>1, <2>4 DEF PoolInv, Overdrawn, Exhausted
<1>13. CASE GraceTurn \/ TextTurn
  <2>1. PICK e : Answered(e)
    BY <1>13 DEF GraceTurn, TextTurn
  <2>2. pc' = "commit" /\ boundary' = boundary
    BY <1>13 DEF GraceTurn, TextTurn, Hand, storeVars
  <2>3. Charged(run.compactions)
    BY <2>1 DEF Answered, PoolInv
  <2>4. Overdrawn(pool')
    BY <1>1, <1>3, <2>1, <2>3
  <2> QED BY <2>2, <2>4, PoolKept
<1>14. CASE EmptyTurn
  <2>1. boundary' = boundary /\ pc = "call"
    BY <1>14 DEF EmptyTurn, storeVars
  <2>2. CASE Return("empty_response")
    BY <2>1, <2>2, ReturnPool
  <2>3. CASE pc' = "top" /\ \E t \in BOOLEAN : pool' = Consumed(pool, 1, t)
    <3>1. PICK t \in BOOLEAN : pool' = Consumed(pool, 1, t)
      BY <2>3
    <3>2. Charged(run.compactions)
      BY <2>1 DEF PoolInv
    <3>3. Overdrawn(Consumed(pool, 1, t))
      BY <1>1, <1>2, <3>2, ChargeOverdraws
    <3>4. Overdrawn(pool')
      BY <3>1, <3>3 DEF Overdrawn, Exhausted
    <3> QED BY <2>1, <2>3, <3>4, PoolKept
  <2> QED BY <1>14, <2>2, <2>3 DEF EmptyTurn
<1>15. ASSUME NEW turn \in Turns, ToolTurn(turn) PROVE PoolInv'
  <2>1. boundary' = boundary /\ pc = "call" /\ ~run.isGrace
    BY <1>15 DEF ToolTurn, storeVars
  <2>2. CASE \E r \in {"no_progress", "stall"} : Return(r)
    BY <2>1, <2>2, ReturnPool
  <2>3. CASE Answered("calls") /\ pc' = "tools"
    <3>1. PICK t \in BOOLEAN : pool' = Consumed(pool, 1, t)
      BY <2>3 DEF Answered
    <3>2. Charged(run.compactions)
      BY <2>1 DEF PoolInv
    <3>3. Overdrawn(pool')
      BY <1>1, <1>3, <2>3, <3>2
    <3>4. pool'.iters = pool.iters + 1 /\ pool'.graceUsed = pool.graceUsed
      BY <1>1, <3>1, ConsumedFields
    <3>5. ~pool'.graceUsed /\ pool'.iters <= MaxIterations + CompactThrashLimit + 1
      BY <1>1, <2>1, <3>2, <3>4, Limits DEF Charged
    <3> QED BY <2>1, <2>3, <3>3, <3>5 DEF PoolInv, Overdrawn, Exhausted
  <2> QED BY <1>15, <2>2, <2>3 DEF ToolTurn
<1>16. CASE ToolsReturn
  <2>1. boundary' = boundary /\ pc = "tools"
    BY <1>16 DEF ToolsReturn, storeVars
  <2>2. CASE \E r \in {"interrupted", "no_progress"} : Return(r)
    BY <2>1, <2>2, ReturnPool
  <2>3. CASE pc' = "commit" /\ pool' \in PoolAfterSubagents(pool)
    <3>1. ~pool.graceUsed /\ pool.iters <= MaxIterations + CompactThrashLimit + 1
      BY <2>1 DEF PoolInv
    <3>2. /\ pool'.iters \in pool.iters .. pool.iters + SubagentSpend
          /\ pool'.graceUsed \in BOOLEAN
          /\ pool'.graceUsed => Exhausted(pool')
      BY <2>3, <3>1 DEF PoolAfterSubagents
    <3>3. pool'.iters \in Nat /\ pool'.iters <= pool.iters + SubagentSpend
      BY <1>1, <3>2, Limits
    <3>4. Overdrawn(pool')
      BY <1>1, <3>1, <3>2, <3>3, Limits DEF Overdrawn, Exhausted
    <3> QED BY <2>1, <2>3, <3>4, PoolKept
  <2> QED BY <1>16, <2>2, <2>3 DEF ToolsReturn, BatchDropped, BatchDone, Hand
<1>17. CASE Commit
  <2>1. boundary'.snapshot = pool
    BY <1>17 DEF Commit, Committed
  <2>2. CASE Return(txn.reply)
    BY <2>1, <2>2, ReturnPool
  <2>3. CASE pool' = pool /\ pc' = "top"
    <3>1. Overdrawn(pool')
      BY <1>2, <2>3 DEF Overdrawn, Exhausted
    <3> QED BY <2>1, <2>3, <3>1, PoolKept
  <2> QED BY <1>17, <2>2, <2>3 DEF Commit
<1>18. CASE PersistFails
  <2>1. boundary' = boundary \/ boundary'.snapshot = pool
    BY <1>18, SettledBatch DEF PersistFails, Committed, storeVars
  <2> QED BY <1>18, <2>1, ReturnPool DEF PersistFails
<1>19. CASE CompactThrash \/ ModelFails \/ Raises \/ Crash
  BY <1>19, ReturnPool DEF CompactThrash, ModelFails, Raises, Crash, storeVars
<1>20. CASE UNCHANGED vars
  BY <1>20 DEF vars, PoolInv, Overdrawn, Exhausted, Charged, storeVars
<1> QED
  BY <1>4, <1>5, <1>6, <1>7, <1>8, <1>9, <1>10, <1>11, <1>12, <1>13, <1>14, <1>15, <1>16, <1>17,
     <1>18, <1>19, <1>20 DEF Next, Progress

\* However a request is interrupted, suspended and resumed, and whatever its
\* sub-agents consume, its pool is overdrawn by a fixed amount at most.
THEOREM SafePoolBounded == Spec => []PoolBounded
<1>1. TypeInv /\ PoolInv => PoolBounded
  <2> SUFFICES ASSUME TypeInv, PoolInv PROVE PoolBounded
    OBVIOUS
  <2>1. pool.iters \in Nat /\ pool.graceUsed \in BOOLEAN
    BY DEF TypeInv, TypeOK, Pool
  <2>2. pool.iters <= MaxIterations + CompactThrashLimit + 1 + SubagentSpend
                      + CompactThrashLimit + 2
    BY <2>1, Limits DEF PoolInv, Overdrawn
  <2> QED BY <2>1, <2>2, Limits DEF PoolBounded, Overdraft
<1> QED BY <1>1, TypeInit, TypeStep, PoolInit, PoolStep, PTL DEF Spec

-----------------------------------------------------------------------------
(* Resuming does not refund *)

LEMMA AddedCounts ==
    ASSUME NEW s \in Seq(Entry)
    PROVE  Added(s) \subseteq DOMAIN s /\ IsFiniteSet(Added(s)) /\ Cardinality(Added(s)) \in Nat
<1>1. DOMAIN s = 1 .. Len(s) /\ Len(s) \in Nat
  BY LenProperties
<1>2. IsFiniteSet(1 .. Len(s)) /\ Added(s) \subseteq 1 .. Len(s)
  BY <1>1, FS_Interval DEF Added
<1> QED BY <1>1, <1>2, FS_Subset, FS_CardinalityType

\* After the user has spoken, nothing has been added.
LEMMA NothingAfterUser ==
    ASSUME NEW s \in Seq(Entry), s # <<>>, s[Len(s)] = "user"
    PROVE  Cardinality(Added(s)) = 0
<1>1. DOMAIN s = 1 .. Len(s) /\ Len(s) \in Nat \ {0}
  BY LenProperties, EmptySeq
<1>2. Len(s) \in DOMAIN s /\ \A i \in DOMAIN s : ~(Len(s) < i)
  BY <1>1
<1>3. ASSUME NEW i \in DOMAIN s, \A j \in DOMAIN s : s[j] = "user" => j < i PROVE FALSE
  BY <1>2, <1>3
<1>4. Added(s) = {}
  BY <1>3 DEF Added
<1> QED BY <1>4, FS_EmptySet

\* An entry adds itself at most, and only what the model wrote is counted.
LEMMA AddedAppend ==
    ASSUME NEW s \in Seq(Entry), NEW e \in Entry
    PROVE  /\ Cardinality(Added(Append(s, e))) <= Cardinality(Added(s)) + 1
           /\ e \notin {"text", "calls", "summary"} =>
                 Cardinality(Added(Append(s, e))) <= Cardinality(Added(s))
<1> DEFINE t == Append(s, e)
<1>1. /\ t \in Seq(Entry) /\ Len(s) \in Nat
      /\ DOMAIN s = 1 .. Len(s) /\ DOMAIN t = 1 .. Len(s) + 1
      /\ t[Len(s) + 1] = e /\ \A i \in 1 .. Len(s) : t[i] = s[i]
  BY LenProperties
<1> HIDE DEF t
<1>2. ASSUME NEW i \in Added(t), i # Len(s) + 1 PROVE i \in Added(s)
  <2>1. i \in DOMAIN s /\ t[i] = s[i]
    BY <1>1, <1>2 DEF Added
  <2>2. ASSUME NEW j \in DOMAIN s, s[j] = "user" PROVE j < i
    BY <1>1, <1>2, <2>2 DEF Added
  <2> QED BY <1>2, <2>1, <2>2 DEF Added
<1>3. e \notin {"text", "calls", "summary"} => Len(s) + 1 \notin Added(t)
  BY <1>1 DEF Added
<1>4. IsFiniteSet(Added(s)) /\ Cardinality(Added(s)) \in Nat /\ Cardinality(Added(t)) \in Nat
  BY <1>1, AddedCounts
<1>5. ASSUME Added(t) \subseteq Added(s) PROVE Cardinality(Added(t)) <= Cardinality(Added(s))
  BY <1>4, <1>5, FS_Subset
<1>6. Cardinality(Added(t)) <= Cardinality(Added(s)) + 1
  <2> DEFINE u == Added(s) \cup {Len(s) + 1}
  <2>1. Added(t) \subseteq u
    BY <1>2
  <2>2. IsFiniteSet(u) /\ Cardinality(u) \in Nat /\ Cardinality(u) <= Cardinality(Added(s)) + 1
    <3>1. IsFiniteSet(u)
      BY <1>4, FS_AddElement
    <3>2. Cardinality(u) = Cardinality(Added(s)) \/ Cardinality(u) = Cardinality(Added(s)) + 1
      BY <1>4, FS_AddElement
    <3> QED BY <1>4, <3>1, <3>2
  <2>3. Cardinality(Added(t)) <= Cardinality(u)
    BY <2>1, <2>2, FS_Subset
  <2> HIDE DEF u
  <2> QED BY <1>4, <2>2, <2>3
<1>7. e \notin {"text", "calls", "summary"} => Cardinality(Added(t)) <= Cardinality(Added(s))
  BY <1>2, <1>3, <1>5
<1> QED BY <1>6, <1>7 DEF t

\* What a transaction of the engine adds to the thread.
LEMMA AddedByTransaction ==
    ASSUME NEW s \in Seq(Entry), NEW entries,
           entries \in {<<"text">>, <<"calls">>, <<"summary">>,
                        <<"calls", "results">>, <<"calls", "placeholders">>}
    PROVE  /\ s \o entries \in Seq(Entry)
           /\ Cardinality(Added(s \o entries)) <= Cardinality(Added(s)) + 1
<1>0. \A e \in {"text", "calls", "summary", "results", "placeholders"} : e \in Entry
  BY DEF Entry
<1>1. ASSUME NEW e \in {"text", "calls", "summary"}, entries = <<e>>
      PROVE  /\ s \o entries \in Seq(Entry)
             /\ Cardinality(Added(s \o entries)) <= Cardinality(Added(s)) + 1
  <2>1. s \o entries = Append(s, e) /\ e \in Entry
    BY <1>0, <1>1, OneAppend
  <2> QED BY <2>1, AddedAppend
<1>2. ASSUME NEW e \in {"results", "placeholders"}, entries = <<"calls", e>>
      PROVE  /\ s \o entries \in Seq(Entry)
             /\ Cardinality(Added(s \o entries)) <= Cardinality(Added(s)) + 1
  <2> DEFINE t == Append(s, "calls")
  <2>1. s \o entries = Append(t, e) /\ t \in Seq(Entry) /\ e \in Entry
    BY <1>0, <1>2, TwoAppends
  <2>2. Cardinality(Added(t)) <= Cardinality(Added(s)) + 1
    BY <1>0, AddedAppend
  <2> HIDE DEF t
  <2>3. Cardinality(Added(Append(t, e))) <= Cardinality(Added(t)) /\ Append(t, e) \in Seq(Entry)
    BY <1>2, <2>1, AddedAppend
  <2>4. /\ Cardinality(Added(t)) \in Nat /\ Cardinality(Added(Append(t, e))) \in Nat
        /\ Cardinality(Added(s)) \in Nat
    BY <2>1, <2>3, AddedCounts
  <2>5. Cardinality(Added(Append(t, e))) <= Cardinality(Added(s)) + 1
    BY <2>2, <2>3, <2>4
  <2> QED BY <2>1, <2>3, <2>5
<1> QED BY <1>1, <1>2

\* Settling a batch of placeholders uncovers nothing.
LEMMA AddedBySettlement ==
    ASSUME NEW s \in Seq(Entry), NEW i \in DOMAIN s, s[i] = "placeholders"
    PROVE  Cardinality(Added([s EXCEPT ![i] = "results"])) <= Cardinality(Added(s))
<1> DEFINE t == [s EXCEPT ![i] = "results"]
<1>1. DOMAIN t = DOMAIN s /\ t[i] = "results" /\ \A j \in DOMAIN s : j # i => t[j] = s[j]
  OBVIOUS
<1> HIDE DEF t
<1>2. ASSUME NEW k \in Added(t) PROVE k \in Added(s)
  <2>1. k \in DOMAIN s /\ k # i /\ t[k] = s[k]
    BY <1>1, <1>2 DEF Added
  <2>2. ASSUME NEW j \in DOMAIN s, s[j] = "user" PROVE j < k
    <3>1. j # i /\ t[j] = "user" /\ j \in DOMAIN t
      BY <1>1, <2>2
    <3> QED BY <1>2, <3>1 DEF Added
  <2> QED BY <1>2, <2>1, <2>2 DEF Added
<1> QED BY <1>2, AddedCounts, FS_Subset DEF t

LEMMA PaidInit == Init => PaidInv
<1> SUFFICES ASSUME Init PROVE PaidInv
  OBVIOUS
<1>1. /\ log = <<>> /\ pc = "idle"
      /\ boundary.status = "none" /\ boundary.snapshot = NoSnapshot
  BY DEF Init
<1>2. Added(log) = {}
  BY <1>1 DEF Added
<1>3. Cardinality(Added(log)) = 0
  BY <1>2, FS_EmptySet
<1> QED BY <1>1, <1>3 DEF PaidInv, Awaiting

\* A step that leaves the store alone and keeps the pool ahead.
LEMMA PaidKept ==
    ASSUME PaidInv, UNCHANGED storeVars,
           \/ pc' \in {"idle", "enter"}
           \/ /\ pc' \in {"resolving", "settle", "top", "assembled", "call"}
              /\ Cardinality(Added(log)) <= pool'.iters
           \/ /\ pc' \in {"commit_summary", "tools", "commit"}
              /\ Cardinality(Added(log)) + 1 <= pool'.iters
    PROVE  PaidInv'
BY DEF PaidInv, Awaiting, storeVars

\* A commit of what the pool has paid for.
LEMMA PaidCommit ==
    ASSUME TypeInv, PaidInv, Cardinality(Added(log)) + 1 <= pool.iters,
           NEW entries, NEW status, NEW count, Committed(entries, status, count),
           \/ status # "awaiting_confirmation" /\ entries \in {<<"text">>, <<"calls">>, <<"summary">>,
                                                              <<"calls", "results">>}
           \/ status = "awaiting_confirmation" /\ entries = <<"calls", "placeholders">>,
           \/ pc' = "idle"
           \/ pc' \in {"top", "assembled"} /\ pool' = pool
    PROVE  PaidInv'
<1>1. log \in Seq(Entry) /\ pool \in Pool /\ pool.iters \in Nat
  BY DEF TypeInv, TypeOK, Pool
<1>2. entries \in {<<"text">>, <<"calls">>, <<"summary">>, <<"calls", "results">>, <<"calls", "placeholders">>}
  OBVIOUS
<1>3. log \o entries \in Seq(Entry) /\ Cardinality(Added(log \o entries)) <= Cardinality(Added(log)) + 1
  BY <1>1, <1>2, AddedByTransaction
<1>4. log' = log \o entries /\ boundary'.snapshot = pool /\ boundary'.status = status
  BY DEF Committed
<1>5. Cardinality(Added(log')) \in Nat /\ Cardinality(Added(log)) \in Nat
  BY <1>1, <1>3, <1>4, AddedCounts
<1>6. Cardinality(Added(log')) <= pool.iters
  BY <1>1, <1>3, <1>4, <1>5
<1>7. boundary'.snapshot # NoSnapshot
  BY <1>1, <1>4, LoopAssumption
<1>8. ASSUME status = "awaiting_confirmation"
      PROVE  boundary'.batch \in DOMAIN log' /\ log'[boundary'.batch] = "placeholders"
  <2>1. log' = Append(Append(log, "calls"), "placeholders")
    <3>1. "calls" \in Entry /\ "placeholders" \in Entry
      BY DEF Entry
    <3> QED BY <1>1, <1>4, <1>8, <3>1, TwoAppends
  <2>2. /\ Append(log, "calls") \in Seq(Entry) /\ Len(log) \in Nat
        /\ Len(log') = Len(log) + 2 /\ DOMAIN log' = 1 .. Len(log) + 2
        /\ log'[Len(log) + 2] = "placeholders"
    BY <1>1, <2>1, LenProperties DEF Entry
  <2>3. boundary'.batch = Len(log')
    BY <1>8 DEF Committed
  <2> QED BY <2>2, <2>3
<1> QED BY <1>4, <1>6, <1>7, <1>8 DEF PaidInv, Awaiting

\* The settlement of the batch that waits.
LEMMA PaidSettlement ==
    ASSUME TypeInv, PaidInv, Awaiting, Settled, Cardinality(Added(log)) <= pool.iters,
           \/ pc' = "idle"
           \/ pc' = "top" /\ pool' = pool
    PROVE  PaidInv'
<1>1. log \in Seq(Entry) /\ pool \in Pool /\ pool.iters \in Nat
  BY DEF TypeInv, TypeOK, Pool
<1>2. /\ boundary.batch \in DOMAIN log /\ log[boundary.batch] = "placeholders"
      /\ log' = [log EXCEPT ![boundary.batch] = "results"]
      /\ boundary'.status = "iteration" /\ boundary'.snapshot = pool
  BY SettledBatch DEF PaidInv
<1>3. Cardinality(Added(log')) <= Cardinality(Added(log))
  BY <1>1, <1>2, AddedBySettlement
<1>4. log' \in Seq(Entry)
  <2>1. "results" \in Entry
    BY DEF Entry
  <2> QED BY <1>1, <1>2, <2>1, ReplacedIsSeq
<1>5. Cardinality(Added(log')) \in Nat /\ Cardinality(Added(log)) \in Nat
  BY <1>1, <1>4, AddedCounts
<1>6. Cardinality(Added(log')) <= pool.iters
  BY <1>1, <1>3, <1>5
<1>7. boundary'.snapshot # NoSnapshot
  BY <1>1, <1>2, LoopAssumption
<1> QED BY <1>2, <1>6, <1>7 DEF PaidInv, Awaiting

LEMMA PaidStep == TypeInv /\ EngineInv /\ PaidInv /\ [Next]_vars => PaidInv'
<1> SUFFICES ASSUME TypeInv, EngineInv, PaidInv, [Next]_vars PROVE PaidInv'
  OBVIOUS
<1>1. /\ log \in Seq(Entry) /\ pool \in Pool /\ pool.iters \in Nat
      /\ Cardinality(Added(log)) \in Nat
  BY AddedCounts DEF TypeInv, TypeOK, Pool
<1> DEFINE spent == Cardinality(Added(log))
<1>2. ASSUME NEW t \in BOOLEAN, NEW n \in Nat, pool' = Consumed(pool, n, t)
      PROVE  pool'.iters = pool.iters + n
  BY <1>1, <1>2, ConsumedFields
<1>3. CASE Say
  <2>1. "user" \in Entry
    BY DEF Entry
  <2>2. log' # <<>> /\ log'[Len(log')] = "user" /\ log' \in Seq(Entry)
    <3>1. CASE log # <<>> /\ log[Len(log)] = "user"
      BY <1>1, <1>3, <3>1 DEF Say
    <3>2. CASE ~(log # <<>> /\ log[Len(log)] = "user")
      <4>1. log' = Append(log, "user")
        BY <1>3, <3>2 DEF Say
      <4>2. /\ Append(log, "user") \in Seq(Entry) /\ Len(Append(log, "user")) = Len(log) + 1
            /\ Append(log, "user")[Len(log) + 1] = "user" /\ Append(log, "user") # <<>>
        BY <1>1, <2>1
      <4> QED BY <4>1, <4>2
    <3> QED BY <3>1, <3>2
  <2>3. Cardinality(Added(log')) = 0
    BY <2>2, NothingAfterUser
  <2>4. /\ boundary'.status = "user" /\ boundary'.snapshot = NoSnapshot /\ pc' = "idle"
    BY <1>3 DEF Say
  <2> QED BY <2>3, <2>4 DEF PaidInv, Awaiting
<1>4. CASE \E decision \in Decision : Start(decision)
  BY <1>4, PaidKept DEF Start
<1>5. CASE Interrupt
  BY <1>5 DEF Interrupt, PaidInv, Awaiting, storeVars
<1>6. CASE Enter
  <2>1. CASE Return("awaiting_confirmation")
    BY <1>6, <2>1, PaidKept DEF Enter, Return
  <2>2. CASE pool' = Restored(boundary.snapshot, pool) /\ pc' \in {"resolving", "top"}
    <3>1. spent <= pool'.iters
      <4>1. CASE boundary.snapshot = NoSnapshot
        <5>1. spent <= 0 /\ pool' = pool
          BY <2>2, <4>1 DEF PaidInv, Restored
        <5> QED BY <1>1, <5>1
      <4>2. CASE boundary.snapshot # NoSnapshot
        BY <2>2, <4>2 DEF PaidInv, Restored
      <4> QED BY <4>1, <4>2
    <3> QED BY <1>6, <2>2, <3>1, PaidKept DEF Enter
  <2> QED BY <1>6, <2>1, <2>2 DEF Enter
<1>7. CASE ControlAnswers
  <2>1. /\ UNCHANGED storeVars /\ pool' = pool /\ pc = "resolving" /\ pc' \in {"resolving", "settle"}
    BY <1>7 DEF ControlAnswers
  <2> QED BY <2>1, PaidKept DEF PaidInv
<1>8. CASE Settle
  <2>1. Settled /\ pc = "settle" /\ pc' = "top" /\ pool' = pool
    BY <1>8 DEF Settle
  <2>2. Awaiting /\ spent <= pool.iters
    BY <2>1 DEF EngineInv, StageAccounts, PaidInv
  <2> QED BY <2>1, <2>2, PaidSettlement
<1>9. CASE Top
  <2>1. UNCHANGED storeVars /\ pc = "top" /\ spent <= pool.iters
    BY <1>9 DEF Top, PaidInv
  <2>2. CASE \E r \in {"interrupted", "budget_exhausted"} : Return(r)
    BY <2>1, <2>2, PaidKept DEF Return
  <2>3. CASE \E g \in BOOLEAN : Assemble(g) /\ pool' \in {pool, GraceTaken(pool)}
    <3>1. pc' = "assembled" /\ pool'.iters = pool.iters
      BY <1>1, <2>3 DEF Assemble, GraceTaken, Pool
    <3> QED BY <2>1, <3>1, PaidKept
  <2> QED BY <1>9, <2>2, <2>3 DEF Top
<1>10. CASE Proceed
  BY <1>10, PaidKept DEF Proceed, PaidInv
<1>11. CASE Compact
  <2>1. /\ UNCHANGED storeVars /\ pc = "assembled" /\ pc' = "commit_summary"
        /\ pool' = Consumed(pool, 1, FALSE)
    BY <1>11 DEF Compact
  <2>2. spent <= pool.iters /\ pool'.iters = pool.iters + 1
    BY <1>2, <2>1 DEF PaidInv
  <2>3. spent + 1 <= pool'.iters
    BY <1>1, <2>2
  <2> QED BY <2>1, <2>3, PaidKept
<1>12. CASE CommitSummary
  <2>1. /\ pc = "commit_summary" /\ pc' = "assembled" /\ pool' = pool
        /\ Committed(<<"summary">>, "iteration", 0)
    BY <1>12 DEF CommitSummary
  <2> QED BY <2>1, PaidCommit DEF PaidInv
<1>a. ASSUME NEW e, Answered(e), UNCHANGED storeVars, pc' \in {"tools", "commit"} PROVE PaidInv'
  <2>1. PICK t \in BOOLEAN : pool' = Consumed(pool, 1, t)
    BY <1>a DEF Answered
  <2>2. spent <= pool.iters /\ pool'.iters = pool.iters + 1
    BY <1>2, <1>a, <2>1 DEF Answered, PaidInv
  <2>3. spent + 1 <= pool'.iters
    BY <1>1, <2>2
  <2> QED BY <1>a, <2>3, PaidKept
<1>13. CASE GraceTurn \/ TextTurn
  BY <1>13, <1>a DEF GraceTurn, TextTurn, Hand
<1>14. CASE EmptyTurn
  <2>1. UNCHANGED storeVars /\ pc = "call"
    BY <1>14 DEF EmptyTurn
  <2>2. CASE Return("empty_response")
    BY <2>1, <2>2, PaidKept DEF Return
  <2>3. CASE pc' = "top" /\ \E t \in BOOLEAN : pool' = Consumed(pool, 1, t)
    <3>1. spent <= pool.iters /\ pool'.iters = pool.iters + 1
      BY <1>2, <2>1, <2>3 DEF PaidInv
    <3>2. spent <= pool'.iters
      BY <1>1, <3>1
    <3> QED BY <2>1, <2>3, <3>2, PaidKept
  <2> QED BY <1>14, <2>2, <2>3 DEF EmptyTurn
<1>15. ASSUME NEW turn \in Turns, ToolTurn(turn) PROVE PaidInv'
  <2>1. UNCHANGED storeVars
    BY <1>15 DEF ToolTurn
  <2>2. CASE \E r \in {"no_progress", "stall"} : Return(r)
    BY <2>1, <2>2, PaidKept DEF Return
  <2>3. CASE Answered("calls") /\ pc' = "tools"
    BY <1>a, <2>1, <2>3
  <2> QED BY <1>15, <2>2, <2>3 DEF ToolTurn
<1>16. CASE ToolsReturn
  <2>1. UNCHANGED storeVars /\ pc = "tools"
    BY <1>16 DEF ToolsReturn
  <2>2. CASE \E r \in {"interrupted", "no_progress"} : Return(r)
    BY <2>1, <2>2, PaidKept DEF Return
  <2>3. CASE pc' = "commit" /\ pool' \in PoolAfterSubagents(pool)
    <3>1. spent + 1 <= pool.iters /\ pool'.iters \in pool.iters .. pool.iters + SubagentSpend
      BY <2>1, <2>3 DEF PaidInv, PoolAfterSubagents
    <3>2. spent + 1 <= pool'.iters
      BY <1>1, <3>1, Limits
    <3> QED BY <2>1, <2>3, <3>2, PaidKept
  <2> QED BY <1>16, <2>2, <2>3 DEF ToolsReturn, BatchDropped, BatchDone, Hand
<1>b. pc = "commit" /\ Committed(txn.entries, txn.status, txn.count)
        /\ (pc' = "idle" \/ (pc' = "top" /\ pool' = pool)) => PaidInv'
  <2> SUFFICES ASSUME pc = "commit", Committed(txn.entries, txn.status, txn.count),
                      pc' = "idle" \/ (pc' = "top" /\ pool' = pool)
               PROVE  PaidInv'
    OBVIOUS
  <2>1. \/ /\ txn.status = "awaiting_confirmation" /\ txn.entries = <<"calls", "placeholders">>
        \/ /\ txn.status # "awaiting_confirmation"
           /\ txn.entries \in {<<"text">>, <<"calls">>, <<"summary">>, <<"calls", "results">>}
    BY DEF EngineInv, TransactionAccounts
  <2>2. Cardinality(Added(log)) + 1 <= pool.iters
    BY DEF PaidInv
  <2> QED BY <2>1, <2>2, PaidCommit
<1>17. CASE Commit
  <2>1. pc' = "idle" \/ (pc' = "top" /\ pool' = pool)
    BY <1>17 DEF Commit, Return
  <2> QED BY <1>17, <1>b, <2>1 DEF Commit
<1>18. CASE PersistFails
  <2>1. pc' = "idle"
    BY <1>18 DEF PersistFails, Return
  <2>2. CASE UNCHANGED storeVars
    BY <2>1, <2>2, PaidKept
  <2>3. CASE pc = "settle" /\ Settled
    BY <2>1, <2>3, PaidSettlement DEF EngineInv, StageAccounts, PaidInv
  <2>4. CASE pc = "commit_summary" /\ Committed(<<"summary">>, "iteration", 0)
    BY <2>1, <2>4, PaidCommit DEF PaidInv
  <2>5. CASE pc = "commit" /\ Committed(txn.entries, txn.status, txn.count)
    BY <1>b, <2>1, <2>5
  <2> QED BY <1>18, <2>2, <2>3, <2>4, <2>5 DEF PersistFails
<1>19. CASE CompactThrash \/ ModelFails \/ Raises \/ Crash
  BY <1>19, PaidKept DEF CompactThrash, ModelFails, Raises, Crash, Return
<1>20. CASE UNCHANGED vars
  BY <1>20 DEF vars, PaidInv, Awaiting, storeVars
<1> QED
  BY <1>3, <1>4, <1>5, <1>6, <1>7, <1>8, <1>9, <1>10, <1>11, <1>12, <1>13, <1>14, <1>15, <1>16,
     <1>17, <1>18, <1>19, <1>20 DEF Next, Progress

\* What the model has added since the user last spoke is paid for in the pool
\* that the next run is restored to, through every interrupt, suspension,
\* settlement, lost answer of the store and crash.
THEOREM SafeNoRefund == Spec => []NoRefund
<1>1. PaidInv => NoRefund
  BY DEF PaidInv, NoRefund
<1>2. Spec => [](TypeInv /\ EngineInv)
  BY EngineAccounts
<1> QED BY <1>1, <1>2, PaidInit, PaidStep, PTL DEF Spec
=============================================================================
