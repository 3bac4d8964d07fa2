------------------------ MODULE SessionStore_proofs ------------------------
(* Proofs about SessionStore, for any number of writes and every interleaving. *)
EXTENDS SessionStore, SequenceTheorems, TLAPS

-----------------------------------------------------------------------------
(* Type correctness *)

RedisOK ==
    /\ messages \in Seq(Entry)
    /\ boundary \in Boundary
    /\ boundary.batch # 0 <=> Awaiting
    /\ ttl \in [messages : BOOLEAN, boundaries : BOOLEAN]
    /\ ttl.messages => messages # <<>>
    /\ ttl.boundaries => boundary # NoBoundary

WriterOK ==
    writer \in [at : At, entries : Seq(Entry), status : Status, settles : BOOLEAN,
                seq : Nat, snapshot : Seq(Entry)]

\* A TypeOK that can be carried from step to step: what is about to be
\* committed is one of the transactions of the engine and its caller.
TypeInv == TypeOK /\ CommandAccounts

LEMMA TypeInit == Init => TypeInv
<1> SUFFICES ASSUME Init PROVE TypeInv
  OBVIOUS
<1>1. messages \in Seq(Entry) /\ audit \in Seq([seq : Nat, status : Status])
  BY EmptySeq DEF Init
<1>2. RedisOK
  BY <1>1 DEF Init, RedisOK, Boundary, NoBoundary, Awaiting
<1>3. WriterOK
  BY EmptySeq DEF Init, WriterOK, At, Status
<1>4. writer.at = "idle"
  BY DEF Init
<1>5. CommandAccounts
  BY <1>4 DEF CommandAccounts
<1> QED BY <1>1, <1>2, <1>3, <1>5
        DEF Init, TypeInv, TypeOK, RedisOK, WriterOK, ReaderAt

\* What can be written is a sequence of entries, and never an empty one.
LEMMA WriteType ==
    ASSUME NEW w \in Write
    PROVE  /\ w.entries \in Seq(Entry)
           /\ Len(w.entries) > 0
           /\ w.status \in Status
<1>1. /\ w.entries \in {<<"user">>, <<"summary">>, <<"calls", "results">>, <<"text">>,
                         <<"calls", "placeholders">>}
      /\ w.status \in Status
  BY DEF Write, Status
<1>2. \A e \in Seq(Entry) : e = w.entries /\ Len(e) > 0
         => w.entries \in Seq(Entry) /\ Len(w.entries) > 0
  OBVIOUS
<1>3. /\ <<"user">> \in Seq(Entry) /\ Len(<<"user">>) > 0
      /\ <<"summary">> \in Seq(Entry) /\ Len(<<"summary">>) > 0
      /\ <<"text">> \in Seq(Entry) /\ Len(<<"text">>) > 0
  BY DEF Entry
<1>4. /\ <<"calls", "results">> \in Seq(Entry) /\ Len(<<"calls", "results">>) > 0
      /\ <<"calls", "placeholders">> \in Seq(Entry) /\ Len(<<"calls", "placeholders">>) > 0
  BY DEF Entry
<1> QED BY <1>1, <1>2, <1>3, <1>4, Zenon

LEMMA PushedType ==
    ASSUME TypeInv, writer.at = "commit", Pushed
    PROVE  RedisOK' /\ Len(messages') > 0
<1>1. /\ writer.entries \in Seq(Entry)
      /\ Len(writer.entries) > 0
      /\ writer.status \in Status
      /\ writer.seq \in Nat
  <2> DEFINE w == [entries |-> writer.entries, status |-> writer.status]
  <2>1. w \in Write
    BY DEF TypeInv, CommandAccounts
  <2>2. w.entries = writer.entries /\ w.status = writer.status
    OBVIOUS
  <2> HIDE DEF w
  <2> QED BY <2>1, <2>2, WriteType DEF TypeInv, TypeOK
<1>2. messages \in Seq(Entry)
  BY DEF TypeInv, TypeOK
<1>3. /\ messages' \in Seq(Entry)
      /\ Len(messages') = Len(messages) + Len(writer.entries)
      /\ Len(messages') \in Nat
      /\ Len(messages') > 0
  BY <1>1, <1>2, ConcatProperties, LenProperties DEF Pushed
<1>4. messages' # <<>>
  BY <1>3
<1>5. /\ boundary'.status = writer.status
      /\ boundary'.batch = IF writer.status = "awaiting_confirmation" THEN Len(messages') ELSE 0
      /\ boundary' = [status |-> writer.status, seq |-> writer.seq, batch |-> boundary'.batch]
  BY DEF Pushed
<1>6. boundary'.batch \in Nat
  BY <1>3, <1>5
<1>7. boundary' \in Boundary
  BY <1>1, <1>5, <1>6 DEF Boundary
<1>8. boundary' # NoBoundary
  <2>1. boundary'.status # "none"
    BY <1>1, <1>5 DEF Status
  <2> QED BY <2>1 DEF NoBoundary
<1>9. boundary'.batch # 0 <=> Awaiting'
  BY <1>3, <1>5 DEF Awaiting
<1>10. ttl' \in [messages : BOOLEAN, boundaries : BOOLEAN]
  BY DEF Pushed, TypeInv, TypeOK
<1> QED BY <1>3, <1>4, <1>7, <1>8, <1>9, <1>10 DEF RedisOK

LEMMA ReplacedType ==
    ASSUME NEW s \in Seq(Entry)
    PROVE  Replaced(s) \in Seq(Entry) /\ Len(Replaced(s)) = Len(s)
<1>1. DOMAIN s = 1 .. Len(s) /\ Len(s) \in Nat /\ \A i \in 1 .. Len(s) : s[i] \in Entry
  BY LenProperties, ElementOfSeq
<1>2. Replaced(s) \in [1 .. Len(s) -> Entry]
  BY <1>1 DEF Replaced, Entry
<1> QED BY <1>1, <1>2, SeqDef, LenProperties

LEMMA RewrittenType ==
    ASSUME TypeInv, Rewritten
    PROVE  RedisOK'
<1>1. messages' \in Seq(Entry)
  BY ReplacedType DEF Rewritten, TypeInv, TypeOK
<1>2. boundary' \in Boundary /\ boundary'.status = "iteration" /\ boundary'.batch = 0
  BY DEF Rewritten, TypeInv, TypeOK, Boundary, Status
<1>3. boundary' # NoBoundary
  BY <1>2 DEF NoBoundary
<1>4. ttl' \in [messages : BOOLEAN, boundaries : BOOLEAN] /\ ~ttl'.messages
  BY DEF Rewritten, TypeInv, TypeOK
<1> QED BY <1>1, <1>2, <1>3, <1>4 DEF RedisOK, Awaiting

LEMMA TtlOnMessagesType ==
    ASSUME TypeInv, TtlOnMessages
    PROVE  RedisOK'
<1> DEFINE b == messages # <<>> /\ writer.status = "awaiting_confirmation"
<1>1. ttl' = [ttl EXCEPT !.messages = b] /\ b \in BOOLEAN /\ (b => messages # <<>>)
  BY DEF TtlOnMessages
<1> HIDE DEF b
<1>2. /\ ttl' \in [messages : BOOLEAN, boundaries : BOOLEAN]
      /\ ttl'.messages = b
      /\ ttl'.boundaries = ttl.boundaries
  BY <1>1 DEF TypeInv, TypeOK
<1> QED BY <1>1, <1>2 DEF RedisOK, TtlOnMessages, TypeInv, TypeOK, Awaiting

LEMMA TtlOnBoundariesType ==
    ASSUME TypeInv, TtlOnBoundaries
    PROVE  RedisOK'
<1> DEFINE b == boundary # NoBoundary /\ writer.status = "awaiting_confirmation"
<1>1. ttl' = [ttl EXCEPT !.boundaries = b] /\ b \in BOOLEAN /\ (b => boundary # NoBoundary)
  BY DEF TtlOnBoundaries
<1> HIDE DEF b
<1>2. /\ ttl' \in [messages : BOOLEAN, boundaries : BOOLEAN]
      /\ ttl'.messages = ttl.messages
      /\ ttl'.boundaries = b
  BY <1>1 DEF TypeInv, TypeOK
<1> QED BY <1>1, <1>2 DEF RedisOK, TtlOnBoundaries, TypeInv, TypeOK, Awaiting

LEMMA UnchangedType ==
    ASSUME TypeInv, UNCHANGED redisVars
    PROVE  RedisOK'
BY DEF redisVars, RedisOK, TypeInv, TypeOK, Awaiting

\* A command leaves Redis well typed, carried out or not.
LEMMA EffectType ==
    ASSUME TypeInv, UNCHANGED redisVars \/ Effect
    PROVE  RedisOK'
<1>1. CASE UNCHANGED redisVars
  BY <1>1, UnchangedType
<1>2. CASE Effect
  <2>1. CASE writer.at = "commit"
    BY <1>2, <2>1, PushedType DEF Effect
  <2>2. CASE writer.at = "rewrite"
    BY <1>2, <2>2, RewrittenType DEF Effect
  <2>3. CASE writer.at = "ttl_messages"
    BY <1>2, <2>3, TtlOnMessagesType DEF Effect
  <2>4. CASE writer.at = "ttl_boundaries"
    BY <1>2, <2>4, TtlOnBoundariesType DEF Effect
  <2>5. CASE writer.at \notin {"commit", "rewrite", "ttl_messages", "ttl_boundaries"}
    BY <1>2, <2>5, UnchangedType DEF Effect
  <2> QED BY <2>1, <2>2, <2>3, <2>4, <2>5
<1> QED BY <1>1, <1>2

\* Moving the program counter of a write changes nothing else of it.
LEMMA WriterMoved ==
    ASSUME WriterOK, NEW to \in At, writer' = [writer EXCEPT !.at = to]
    PROVE  /\ WriterOK'
           /\ writer'.at = to
           /\ writer'.entries = writer.entries
           /\ writer'.status = writer.status
           /\ writer'.settles = writer.settles
           /\ writer'.seq = writer.seq
           /\ writer'.snapshot = writer.snapshot
BY DEF WriterOK

LEMMA BeginType ==
    ASSUME TypeInv, NEW at \in {"commit", "fetch"}, NEW entries \in Seq(Entry),
           NEW status \in Status, NEW settles \in BOOLEAN,
           Begin(at, entries, status, settles),
           at = "commit" => [entries |-> entries, status |-> status] \in Write,
           at = "fetch" => status = "iteration"
    PROVE  TypeInv'
<1>1. boundary.seq + 1 \in Nat
  BY DEF TypeInv, TypeOK, Boundary
<1>2. WriterOK'
  BY <1>1, EmptySeq DEF Begin, WriterOK, At
<1>3. /\ writer'.at = at /\ writer'.entries = entries /\ writer'.status = status
      /\ config' = config
  BY DEF Begin
<1>4. RedisOK'
  BY UnchangedType DEF Begin
<1>5. CommandAccounts'
  BY <1>3 DEF CommandAccounts
<1> QED BY <1>2, <1>4, <1>5 DEF Begin, TypeInv, TypeOK, RedisOK, WriterOK

\* What a step that only moves the write along has to establish.
LEMMA MovedType ==
    ASSUME TypeInv, NEW to \in At, writer' = [writer EXCEPT !.at = to], RedisOK',
           to \notin {"commit", "fetch", "rewrite"},
           to \in {"ttl_messages", "ttl_boundaries"} => config.ttl,
           audit' \in Seq([seq : Nat, status : Status]), acked' \in BOOLEAN,
           UNCHANGED <<config, writes>>, reader' \in ReaderAt
    PROVE  TypeInv'
<1>1. WriterOK
  BY DEF TypeInv, TypeOK, WriterOK
<1>2. WriterOK' /\ writer'.at = to
  BY <1>1, WriterMoved
<1>3. CommandAccounts'
  BY <1>2 DEF CommandAccounts
<1> QED BY <1>2, <1>3 DEF TypeInv, TypeOK, RedisOK, WriterOK

LEMMA BegunAt ==
    ASSUME TypeInv, BeginCommit \/ BeginResolve \/ Fetch
    PROVE  writer'.at \in {"commit", "fetch", "rewrite"}
<1>1. CASE BeginCommit
  <2>1. PICK w \in Write : Begin("commit", w.entries, w.status, FALSE)
    BY <1>1 DEF BeginCommit
  <2> QED BY <2>1 DEF Begin
<1>2. CASE BeginResolve
  BY <1>2 DEF BeginResolve, Begin
<1>3. CASE Fetch
  BY <1>3 DEF Fetch, TypeInv, TypeOK
<1> QED BY <1>1, <1>2, <1>3

LEMMA AfterExecAt ==
    ASSUME TypeInv
    PROVE  /\ AfterExec \in {"ttl_messages", "audit"}
           /\ AfterExec = "ttl_messages" => config.ttl
BY DEF AfterExec

LEMMA RowType == TypeInv => Row \in [seq : Nat, status : Status]
BY DEF TypeInv, TypeOK, Row

LEMMA TypeStep == TypeInv /\ [Next]_vars => TypeInv'
<1> SUFFICES ASSUME TypeInv, [Next]_vars PROVE TypeInv'
  OBVIOUS
<1>1. CASE BeginCommit
  <2>1. PICK w \in Write : Begin("commit", w.entries, w.status, FALSE)
    BY <1>1 DEF BeginCommit
  <2>2. w = [entries |-> w.entries, status |-> w.status]
    BY DEF Write
  <2> QED BY <2>1, <2>2, WriteType, BeginType
<1>2. CASE BeginResolve
  <2>1. "iteration" \in Status
    BY DEF Status
  <2> QED BY <1>2, <2>1, EmptySeq, BeginType DEF BeginResolve
<1>3. CASE Fetch
  <2>1. writer' = [writer EXCEPT !.at = "rewrite", !.snapshot = messages]
    BY <1>3 DEF Fetch
  <2>2. WriterOK' /\ writer'.at = "rewrite" /\ writer'.status = writer.status
    BY <2>1 DEF TypeInv, TypeOK, WriterOK, At
  <2>3. writer.status = "iteration"
    BY <1>3 DEF Fetch, TypeInv, CommandAccounts
  <2>4. CommandAccounts'
    BY <2>2, <2>3 DEF CommandAccounts
  <2>5. RedisOK'
    BY <1>3, UnchangedType DEF Fetch
  <2> QED BY <1>3, <2>2, <2>4, <2>5 DEF Fetch, TypeInv, TypeOK, RedisOK, WriterOK
<1>4. CASE Execute
  <2>1. PICK to \in At : /\ to \notin {"commit", "fetch", "rewrite"}
                         /\ to \in {"ttl_messages", "ttl_boundaries"} => config.ttl
                         /\ writer' = [writer EXCEPT !.at = to]
                         /\ Effect
                         /\ UNCHANGED <<audit, reader, acked, config, writes>>
    <3>1. CASE Advance("commit", AfterExec) \/ Advance("rewrite", AfterExec)
      BY <3>1, AfterExecAt DEF Advance, At
    <3>2. CASE Advance("ttl_messages", "ttl_boundaries")
      BY <3>2 DEF Advance, At, TypeInv, CommandAccounts
    <3>3. CASE Advance("ttl_boundaries", "audit")
      BY <3>3 DEF Advance, At
    <3> QED BY <1>4, <3>1, <3>2, <3>3 DEF Execute
  <2>2. RedisOK'
    BY <2>1, EffectType
  <2> QED BY <2>1, <2>2, MovedType DEF TypeInv, TypeOK
<1>5. CASE Audit
  <2>1. PICK inserted, raised \in BOOLEAN :
           /\ audit' = IF inserted THEN Append(audit, Row) ELSE audit
           /\ acked' = (raised => ~Mandatory)
    BY <1>5 DEF Audit
  <2>2. audit' \in Seq([seq : Nat, status : Status])
    BY <2>1, RowType, AppendProperties DEF TypeInv, TypeOK
  <2>3. acked' \in BOOLEAN
    BY <2>1
  <2>4. RedisOK'
    BY <1>5, UnchangedType DEF Audit
  <2> QED BY <1>5, <2>2, <2>3, <2>4, MovedType DEF Audit, At, TypeInv, TypeOK
<1>6. CASE Fail
  <2>1. RedisOK'
    BY <1>6, EffectType DEF Fail
  <2> QED BY <1>6, <2>1, MovedType DEF Fail, At, TypeInv, TypeOK
<1>7. CASE Load \/ Peek \/ LoadFails
  <2>1. RedisOK'
    BY <1>7, UnchangedType DEF Load, Peek, LoadFails
  <2>2. reader' \in ReaderAt /\ UNCHANGED <<audit, writer, acked, config, writes>>
    BY <1>7 DEF Load, Peek, LoadFails, ReaderAt
  <2> QED BY <2>1, <2>2 DEF TypeInv, TypeOK, RedisOK, CommandAccounts
<1>8. CASE Refresh
  <2> DEFINE hasLog == messages # <<>>
             hasBoundary == boundary # NoBoundary
  <2>1. \/ ttl' = [ttl EXCEPT !.messages = hasLog]
        \/ ttl' = [ttl EXCEPT !.boundaries = hasBoundary]
    BY <1>8 DEF Refresh
  <2>2. hasLog \in BOOLEAN /\ hasBoundary \in BOOLEAN
    OBVIOUS
  <2> HIDE DEF hasLog, hasBoundary
  <2>3. /\ ttl' \in [messages : BOOLEAN, boundaries : BOOLEAN]
        /\ ttl'.messages \in {ttl.messages, hasLog}
        /\ ttl'.boundaries \in {ttl.boundaries, hasBoundary}
    BY <2>1, <2>2 DEF TypeInv, TypeOK
  <2>4. RedisOK'
    BY <1>8, <2>3 DEF Refresh, RedisOK, TypeInv, TypeOK, Awaiting, hasLog, hasBoundary
  <2>5. reader' \in ReaderAt /\ UNCHANGED <<audit, writer, acked, config, writes>>
    BY <1>8 DEF Refresh, ReaderAt
  <2> QED BY <2>4, <2>5 DEF TypeInv, TypeOK, RedisOK, CommandAccounts
<1>9. CASE Crash
  <2>1. RedisOK'
    BY <1>9, UnchangedType DEF Crash
  <2>2. acked' \in BOOLEAN /\ reader' \in ReaderAt
    BY <1>9 DEF Crash, ReaderAt, TypeInv, TypeOK
  <2> QED BY <1>9, <2>1, <2>2, MovedType DEF Crash, At, TypeInv, TypeOK
<1>10. CASE Expire
  <2>1. /\ \/ messages' = <<>> /\ ttl' = [ttl EXCEPT !.messages = FALSE] /\ boundary' = boundary
           \/ boundary' = NoBoundary /\ ttl' = [ttl EXCEPT !.boundaries = FALSE] /\ messages' = messages
        /\ UNCHANGED <<audit, writer, reader, acked, config, writes>>
    BY <1>10 DEF Expire
  <2>2. <<>> \in Seq(Entry) /\ NoBoundary \in Boundary
        /\ NoBoundary.batch = 0 /\ NoBoundary.status = "none"
    BY EmptySeq DEF NoBoundary, Boundary
  <2>3. RedisOK'
    BY <2>1, <2>2 DEF RedisOK, TypeInv, TypeOK, Awaiting
  <2> QED BY <2>1, <2>3 DEF TypeInv, TypeOK, RedisOK, CommandAccounts
<1>11. CASE UNCHANGED vars
  BY <1>11 DEF vars, redisVars, TypeInv, TypeOK, CommandAccounts, Awaiting
<1> QED BY <1>1, <1>2, <1>3, <1>4, <1>5, <1>6, <1>7, <1>8, <1>9, <1>10, <1>11 DEF Next

\* The store's variables keep their types, and the two facts every reader of
\* the lists relies on hold, with any interleaving of loads, writes, failures
\* and expiry (RedisConversationStore, AuditedConversationStore).
THEOREM TypeCorrect == Spec => []TypeOK
<1>1. TypeInv => TypeOK
  BY DEF TypeInv
<1> QED BY <1>1, TypeInit, TypeStep, PTL DEF Spec

-----------------------------------------------------------------------------
(* What the engine is told and what is audited *)

LEMMA AuditedInit == Init => ControlAudited
BY DEF Init, ControlAudited

LEMMA AuditedStep == TypeInv /\ ControlAudited /\ [Next]_vars => ControlAudited'
<1> SUFFICES ASSUME TypeInv, ControlAudited, [Next]_vars PROVE ControlAudited'
  OBVIOUS
<1>1. CASE Audit
  <2>1. PICK inserted, raised \in BOOLEAN :
           /\ inserted \/ raised
           /\ audit' = IF inserted THEN Append(audit, Row) ELSE audit
           /\ acked' = (raised => ~Mandatory)
    BY <1>1 DEF Audit
  <2>2. writer' = [writer EXCEPT !.at = "idle"]
    BY <1>1 DEF Audit
  <2>3. /\ writer'.settles = writer.settles
        /\ writer'.status = writer.status
        /\ writer'.seq = writer.seq
    BY <2>2, WriterMoved DEF TypeInv, TypeOK, WriterOK, At
  <2>4. Row' = Row
    BY <2>3 DEF Row
  <2>5. SUFFICES ASSUME acked', writer'.settles \/ writer'.status = "awaiting_confirmation"
                 PROVE  audit' # <<>> /\ audit'[Len(audit')] = Row
    BY <2>4 DEF ControlAudited
  <2>6. Mandatory
    BY <2>3, <2>5 DEF Mandatory
  <2>7. audit' = Append(audit, Row)
    BY <2>1, <2>5, <2>6
  <2>8. Len(audit') = Len(audit) + 1 /\ Len(audit) \in Nat /\ audit'[Len(audit')] = Row
    BY <2>7, RowType, AppendProperties, LenProperties DEF TypeInv, TypeOK
  <2> QED BY <2>8, EmptySeq
<1>2. CASE BeginCommit \/ BeginResolve \/ Fetch
  <2>1. writer'.at # "idle"
    BY <1>2, BegunAt
  <2> QED BY <2>1 DEF ControlAudited
<1>3. CASE Execute
  <2>1. PICK to \in At \ {"idle"} : writer' = [writer EXCEPT !.at = to]
    BY <1>3, AfterExecAt DEF Execute, Advance, At
  <2>2. writer'.at = to
    BY <2>1, WriterMoved DEF TypeInv, TypeOK, WriterOK
  <2> QED BY <2>1, <2>2 DEF ControlAudited
<1>4. CASE Fail
  BY <1>4 DEF Fail, ControlAudited
<1>5. CASE Load \/ Peek \/ Refresh \/ LoadFails \/ Expire
  <2>1. UNCHANGED <<audit, writer, acked>>
    BY <1>5 DEF Load, Peek, Refresh, LoadFails, Expire
  <2> QED BY <2>1 DEF ControlAudited, Row
<1>6. CASE Crash
  <2>1. writer' = [writer EXCEPT !.at = "idle"] /\ audit' = audit
    BY <1>6 DEF Crash
  <2>2. /\ writer'.settles = writer.settles
        /\ writer'.status = writer.status
        /\ writer'.seq = writer.seq
    BY <2>1, WriterMoved DEF TypeInv, TypeOK, WriterOK, At
  <2> QED BY <1>6, <2>1, <2>2 DEF Crash, ControlAudited, Row
<1>7. CASE UNCHANGED vars
  BY <1>7 DEF vars, ControlAudited, Row
<1> QED BY <1>1, <1>2, <1>3, <1>4, <1>5, <1>6, <1>7 DEF Next

\* A commit of a pending batch, and a resolve_pending, that return have their
\* audit row, whatever fails or expires on the way.
THEOREM SafeControlAudited == Spec => []ControlAudited
BY AuditedInit, AuditedStep, TypeInit, TypeStep, PTL DEF Spec

-----------------------------------------------------------------------------
(* One write after the other *)

LEMMA OrderStep ==
    OneAtATime /\ TypeInv /\ [Next]_vars => OneAtATime'
<1> SUFFICES ASSUME OneAtATime, TypeInv, [Next]_vars, ~Overlap
             PROVE  writer'.at = "idle" \/ reader' = "idle"
  BY DEF OneAtATime
<1>1. writer.at = "idle" \/ reader = "idle"
  BY DEF OneAtATime
<1>2. CASE BeginCommit \/ BeginResolve
  BY <1>2 DEF BeginCommit, BeginResolve, Begin
<1>3. CASE Fetch \/ Execute
  <2>1. writer.at # "idle" /\ reader' = reader
    BY <1>3 DEF Fetch, Execute, Advance
  <2> QED BY <1>1, <2>1
<1>4. CASE Audit \/ Fail \/ Crash
  BY <1>4, WriterMoved DEF Audit, Fail, Crash, TypeInv, TypeOK, WriterOK, At
<1>5. CASE Load \/ Peek \/ Refresh \/ LoadFails
  <2>1. writer' = writer /\ (reader # "idle" \/ writer.at = "idle")
    BY <1>5 DEF Load, Peek, Refresh, LoadFails
  <2> QED BY <1>1, <2>1
<1>6. CASE Expire
  BY <1>1, <1>6 DEF Expire
<1>7. CASE UNCHANGED vars
  BY <1>1, <1>7 DEF vars
<1> QED BY <1>2, <1>3, <1>4, <1>5, <1>6, <1>7 DEF Next

LEMMA ConfigKept == [Next]_vars => config' = config
BY DEF Next, vars, BeginCommit, BeginResolve, Begin, Fetch, Execute, Advance, Audit, Fail,
       Load, Peek, Refresh, LoadFails, Crash, Expire

-----------------------------------------------------------------------------
(* A time to live exactly while the thread waits for the user *)

LEMMA PushedTtl ==
    ASSUME TypeInv, writer.at = "commit", Pushed
    PROVE  boundary'.status = writer.status /\ boundary' # NoBoundary
BY PushedType DEF Pushed, RedisOK, NoBoundary, Awaiting, TypeInv, TypeOK, Status

LEMMA TtlStep ==
    ASSUME TypeInv, OneAtATime, ~Overlap, config.ttl, TtlAccounts, [Next]_vars
    PROVE  TtlAccounts'
<1>0. /\ TypeInv' /\ OneAtATime'
      /\ WriterOK
      /\ ttl \in [messages : BOOLEAN, boundaries : BOOLEAN]
      /\ ttl' \in [messages : BOOLEAN, boundaries : BOOLEAN]
  BY TypeStep, OrderStep DEF TypeInv, TypeOK, WriterOK
<1>1. CASE BeginCommit \/ BeginResolve \/ Fetch
  <2>1. writer'.at \in {"commit", "fetch", "rewrite"}
    BY <1>1, BegunAt
  <2>2. reader' = "idle"
    BY <1>0, <2>1 DEF OneAtATime
  <2> QED BY <2>1, <2>2 DEF TtlAccounts
<1>2. CASE Execute
  <2>1. reader' = "idle"
    BY <1>2 DEF Execute, Advance, OneAtATime
  <2>2. CASE Advance("commit", AfterExec) \/ Advance("rewrite", AfterExec)
    <3>1. writer'.at = "ttl_messages" /\ writer'.status = writer.status
      BY <1>0, <2>2, WriterMoved DEF Advance, AfterExec, At
    <3>2. boundary'.status = writer.status
      <4>1. CASE writer.at = "commit"
        BY <2>2, <4>1, PushedTtl DEF Advance, Effect
      <4>2. CASE writer.at = "rewrite"
        BY <2>2, <4>2 DEF Advance, Effect, Rewritten, TypeInv, CommandAccounts
      <4> QED BY <2>2, <4>1, <4>2 DEF Advance
    <3> QED BY <2>1, <3>1, <3>2 DEF TtlAccounts
  <2>3. CASE Advance("ttl_messages", "ttl_boundaries")
    <3>1. writer'.at = "ttl_boundaries" /\ writer'.status = writer.status
      BY <1>0, <2>3, WriterMoved DEF Advance, At
    <3>2. TtlOnMessages
      BY <2>3 DEF Advance, Effect
    <3>3. ttl'.messages = (messages # <<>> /\ writer.status = "awaiting_confirmation")
      BY <1>0, <3>2 DEF TtlOnMessages
    <3>4. messages' = messages /\ boundary' = boundary
      BY <3>2 DEF TtlOnMessages
    <3>5. boundary # NoBoundary => boundary.status = writer.status
      BY <2>3 DEF Advance, TtlAccounts
    <3> QED BY <2>1, <3>1, <3>3, <3>4, <3>5 DEF TtlAccounts
  <2>4. CASE Advance("ttl_boundaries", "audit")
    <3>1. writer'.at = "audit" /\ writer'.status = writer.status
      BY <1>0, <2>4, WriterMoved DEF Advance, At
    <3>2. TtlOnBoundaries
      BY <2>4 DEF Advance, Effect
    <3>3. /\ ttl'.boundaries = (boundary # NoBoundary /\ writer.status = "awaiting_confirmation")
          /\ ttl'.messages = ttl.messages
      BY <1>0, <3>2 DEF TtlOnBoundaries
    <3>4. messages' = messages /\ boundary' = boundary
      BY <3>2 DEF TtlOnBoundaries
    <3>5. /\ boundary # NoBoundary => boundary.status = writer.status
          /\ messages # <<>> => ttl.messages = (writer.status = "awaiting_confirmation")
      BY <2>4 DEF Advance, TtlAccounts
    <3>6. messages' # <<>> /\ boundary' # NoBoundary
          => ttl'.messages = Awaiting' /\ ttl'.boundaries = Awaiting'
      BY <3>3, <3>4, <3>5 DEF Awaiting
    <3>7. messages' # <<>> /\ boundary' # NoBoundary
          => ttl' = [messages |-> Awaiting', boundaries |-> Awaiting']
      BY <1>0, <3>6
    <3> QED BY <2>1, <3>1, <3>4, <3>5, <3>7 DEF TtlAccounts
  <2> QED BY <1>2, <2>2, <2>3, <2>4 DEF Execute
<1>3. CASE Audit
  <2>1. writer'.at = "idle" /\ UNCHANGED redisVars /\ reader' = "idle"
    BY <1>0, <1>3, WriterMoved DEF Audit, At, OneAtATime
  <2>2. messages # <<>> /\ boundary # NoBoundary
        => ttl = [messages |-> Awaiting, boundaries |-> Awaiting]
    BY <1>3 DEF Audit, TtlAccounts
  <2> QED BY <2>1, <2>2 DEF TtlAccounts, redisVars, Awaiting
<1>4. CASE Fail
  <2>1. writer'.at = "idle" /\ ~acked' /\ reader' = "idle"
    BY <1>0, <1>4, WriterMoved DEF Fail, At, OneAtATime
  <2> QED BY <2>1 DEF TtlAccounts
<1>5. CASE Load \/ Peek \/ LoadFails
  <2>1. /\ UNCHANGED <<messages, boundary, ttl, writer, acked>>
        /\ reader' \in {"refresh_messages", "refresh_boundaries"} => Awaiting
    BY <1>5 DEF Load, Peek, LoadFails, redisVars
  <2> QED BY <2>1 DEF TtlAccounts, Awaiting
<1>6. CASE Refresh
  <2>1. writer.at = "idle" /\ UNCHANGED <<messages, boundary, writer, acked>>
    BY <1>6 DEF Refresh, OneAtATime
  <2>2. Awaiting \/ boundary = NoBoundary
    BY <1>6 DEF Refresh, TtlAccounts
  <2>3. reader' \in {"refresh_messages", "refresh_boundaries"} => Awaiting' \/ boundary' = NoBoundary
    BY <2>1, <2>2 DEF Awaiting
  <2>4. SUFFICES ASSUME acked, messages # <<>>, boundary # NoBoundary
                 PROVE  ttl' = [messages |-> Awaiting', boundaries |-> Awaiting']
    BY <2>1, <2>3 DEF TtlAccounts
  <2>5. Awaiting /\ Awaiting'
    BY <2>1, <2>2, <2>4 DEF Awaiting
  <2>6. ttl = [messages |-> TRUE, boundaries |-> TRUE]
    BY <2>1, <2>4, <2>5 DEF TtlAccounts
  <2>7. ttl' = [messages |-> TRUE, boundaries |-> TRUE]
    BY <1>6, <2>4, <2>6 DEF Refresh
  <2> QED BY <2>5, <2>7
<1>7. CASE Crash
  <2>1. /\ writer'.at = "idle" /\ reader' = "idle" /\ UNCHANGED redisVars
        /\ acked' = (acked /\ writer.at = "idle")
    BY <1>0, <1>7, WriterMoved DEF Crash, At
  <2> QED BY <2>1 DEF TtlAccounts, redisVars, Awaiting
<1>8. CASE Expire
  <2>1. UNCHANGED <<writer, reader, acked>>
    BY <1>8 DEF Expire
  <2>2. \/ messages' = <<>> /\ boundary' = boundary
        \/ boundary' = NoBoundary
    BY <1>8 DEF Expire
  <2>3. CASE messages' = <<>> /\ boundary' = boundary
    BY <2>1, <2>3 DEF TtlAccounts, Awaiting
  <2>4. CASE boundary' = NoBoundary /\ messages' = messages
    <3>1. ttl'.messages = ttl.messages
      BY <1>0, <1>8, <2>4 DEF Expire, TypeInv, TypeOK
    <3> QED BY <2>1, <2>4, <3>1 DEF TtlAccounts
  <2> QED BY <1>8, <2>2, <2>3, <2>4 DEF Expire
<1>9. CASE UNCHANGED vars
  BY <1>9 DEF vars, redisVars, TtlAccounts, Awaiting
<1> QED BY <1>1, <1>2, <1>3, <1>4, <1>5, <1>6, <1>7, <1>8, <1>9 DEF Next

TtlInv == OneAtATime /\ (config.ttl /\ ~Overlap => TtlAccounts)

LEMMA TtlInit == Init => TtlInv
BY DEF Init, TtlInv, OneAtATime, TtlAccounts, NoBoundary, Awaiting

LEMMA TtlInvStep == TypeInv /\ TtlInv /\ [Next]_vars => TtlInv'
BY TtlStep, OrderStep, ConfigKept DEF TtlInv

\* Where loads do not overlap writes, the EXPIRE and PERSIST that follow each
\* transaction leave a thread that waits for the user to expire as a whole,
\* and any other thread not at all (_apply_ttl_or_persist, load).
THEOREM SafeTtlFollowsStatus == ~Overlap => (Spec => []TtlFollowsStatus)
<1> SUFFICES ASSUME ~Overlap PROVE Spec => []TtlFollowsStatus
  OBVIOUS
<1>1. TtlInv => TtlFollowsStatus
  BY DEF TtlInv, TtlAccounts, TtlFollowsStatus, AtRest
<1> QED BY <1>1, TtlInit, TtlInvStep, TypeInit, TypeStep, PTL DEF Spec

-----------------------------------------------------------------------------
(* Where nothing expires *)

PlainInv == ~config.ttl => NothingExpires /\ WriteAccounts /\ AuditAccounts

LEMMA PlainInit == Init => PlainInv
<1> SUFFICES ASSUME Init PROVE NothingExpires /\ WriteAccounts /\ AuditAccounts
  BY DEF PlainInv
<1>1. NothingExpires
  BY DEF Init, NothingExpires
<1>2. writer.at = "idle"
  BY DEF Init
<1>3. WriteAccounts
  BY <1>2 DEF WriteAccounts
<1>4. AuditAccounts
  <2>1. DOMAIN audit = {}
    BY DEF Init
  <2> QED BY <2>1 DEF AuditAccounts
<1> QED BY <1>1, <1>3, <1>4

\* The facts about the write that its commands and their failures rely on.
LEMMA EffectAccounts ==
    ASSUME TypeInv, ~config.ttl, WriteAccounts, Effect
    PROVE  /\ writer.at \in {"commit", "rewrite"} => boundary'.seq = writer.seq
           /\ writer.at \notin {"commit", "rewrite"} => UNCHANGED redisVars
           /\ UNCHANGED ttl \/ ttl' = [ttl EXCEPT !.messages = FALSE]
<1>1. writer.at \notin {"ttl_messages", "ttl_boundaries"}
  BY DEF TypeInv, CommandAccounts
<1>2. CASE writer.at = "commit"
  BY <1>2 DEF Effect, Pushed
<1>3. CASE writer.at = "rewrite"
  BY <1>3 DEF Effect, Rewritten
<1>4. CASE writer.at \notin {"commit", "rewrite"}
  BY <1>1, <1>4 DEF Effect, redisVars
<1> QED BY <1>2, <1>3, <1>4

LEMMA RowsAreNumbered ==
    TypeInv => \A i \in DOMAIN audit : audit[i].seq \in Nat
<1> SUFFICES ASSUME TypeInv, NEW i \in DOMAIN audit PROVE audit[i].seq \in Nat
  OBVIOUS
<1> DEFINE R == [seq : Nat, status : Status]
<1>1. audit \in Seq(R)
  BY DEF TypeInv, TypeOK
<1> HIDE DEF R
<1>2. audit[i] \in R
  BY <1>1, LenProperties, ElementOfSeq
<1> QED BY <1>2 DEF R

\* The rows stay below the sequence number of the store when a command ends.
LEMMA RowsBelow ==
    ASSUME TypeInv, AuditAccounts, WriteAccounts, audit' = audit, WriterOK',
           writer'.seq = writer.seq, writer.at # "idle",
           boundary'.seq = boundary.seq \/ boundary'.seq = writer.seq
    PROVE  AuditAccounts'
<1>1. \A i \in DOMAIN audit : audit[i].seq \in Nat
  BY RowsAreNumbered
<1>2. \A i \in DOMAIN audit : audit[i].seq < writer.seq /\ audit[i].seq <= boundary.seq
  BY DEF AuditAccounts
<1>3. writer.seq \in Nat /\ boundary.seq \in Nat
  BY DEF TypeInv, TypeOK, Boundary
<1>4. \A i \in DOMAIN audit : audit[i].seq <= boundary'.seq
  BY <1>1, <1>2, <1>3
<1> QED BY <1>2, <1>4 DEF AuditAccounts

LEMMA PlainStep ==
    ASSUME TypeInv, ~config.ttl, NothingExpires, WriteAccounts, AuditAccounts, [Next]_vars
    PROVE  NothingExpires' /\ WriteAccounts' /\ AuditAccounts'
<1>0. /\ TypeInv' /\ WriterOK /\ WriterOK'
      /\ ttl \in [messages : BOOLEAN, boundaries : BOOLEAN]
      /\ boundary.seq \in Nat
      /\ writer.seq \in Nat
      /\ reader = "idle" /\ ~ttl.messages /\ ~ttl.boundaries
      /\ \A i \in DOMAIN audit : audit[i].seq \in Nat /\ audit[i].seq <= boundary.seq
  <2>1. \A i \in DOMAIN audit : audit[i].seq \in Nat
    BY RowsAreNumbered
  <2> QED BY <2>1, TypeStep DEF TypeInv, TypeOK, WriterOK, Boundary, NothingExpires, AuditAccounts
<1>1. CASE BeginCommit \/ BeginResolve
  <2>1. /\ UNCHANGED <<redisVars, audit, reader>>
        /\ writer'.seq = boundary.seq + 1
        /\ \/ ~Awaiting /\ writer'.at = "commit"
           \/ Awaiting /\ writer'.at = "fetch"
    <3>1. CASE BeginCommit
      <4>1. PICK w \in Write : Begin("commit", w.entries, w.status, FALSE)
        BY <3>1 DEF BeginCommit
      <4> QED BY <3>1, <4>1 DEF BeginCommit, Begin
    <3>2. CASE BeginResolve
      BY <3>2 DEF BeginResolve, Begin
    <3> QED BY <1>1, <3>1, <3>2
  <2>2. NothingExpires'
    BY <2>1, <1>0 DEF NothingExpires, redisVars
  <2>3. WriteAccounts'
    BY <2>1 DEF WriteAccounts, redisVars, Awaiting
  <2>4. \A i \in DOMAIN audit : audit[i].seq < writer'.seq
    BY <1>0, <2>1
  <2>5. AuditAccounts'
    BY <2>1, <2>4 DEF AuditAccounts, redisVars
  <2> QED BY <2>2, <2>3, <2>5
<1>2. CASE Fetch
  <2>1. /\ writer'.at = "rewrite" /\ writer'.seq = writer.seq /\ writer'.snapshot = messages
        /\ writer.at = "fetch"
        /\ UNCHANGED <<redisVars, audit, reader>>
    BY <1>0, <1>2 DEF Fetch, WriterOK
  <2>2. NothingExpires'
    BY <2>1, <1>0 DEF NothingExpires, redisVars
  <2>3. WriteAccounts'
    BY <2>1 DEF WriteAccounts, redisVars, Awaiting
  <2>4. AuditAccounts'
    BY <2>1, <1>0, RowsBelow DEF redisVars
  <2> QED BY <2>2, <2>3, <2>4
<1>3. CASE Execute
  <2>1. /\ writer.at \in {"commit", "rewrite"}
        /\ Effect
        /\ writer'.at = "audit" /\ writer'.seq = writer.seq
        /\ UNCHANGED <<audit, reader>>
    <3>1. writer.at \notin {"ttl_messages", "ttl_boundaries"}
      BY DEF TypeInv, CommandAccounts
    <3>2. Advance("commit", "audit") \/ Advance("rewrite", "audit")
      BY <1>3, <3>1 DEF Execute, Advance, AfterExec
    <3> QED BY <1>0, <3>2, WriterMoved DEF Advance, At
  <2>2. boundary'.seq = writer.seq
    BY <2>1, EffectAccounts
  <2>3. NothingExpires'
    <3>1. UNCHANGED ttl \/ ttl' = [ttl EXCEPT !.messages = FALSE]
      BY <2>1, EffectAccounts
    <3>2. ~ttl'.messages /\ ~ttl'.boundaries
      BY <1>0, <3>1
    <3> QED BY <1>0, <2>1, <3>2 DEF NothingExpires
  <2>4. WriteAccounts'
    BY <2>1, <2>2 DEF WriteAccounts
  <2>5. AuditAccounts'
    BY <1>0, <2>1, <2>2, RowsBelow
  <2> QED BY <2>3, <2>4, <2>5
<1>4. CASE Audit
  <2>1. PICK inserted \in BOOLEAN : audit' = IF inserted THEN Append(audit, Row) ELSE audit
    BY <1>4 DEF Audit
  <2>2. /\ writer.at = "audit" /\ writer'.at = "idle" /\ writer'.seq = writer.seq
        /\ UNCHANGED <<redisVars, reader>>
    BY <1>0, <1>4, WriterMoved DEF Audit, At
  <2>3. writer.seq = boundary.seq
    BY <2>2 DEF WriteAccounts
  <2>4. NothingExpires' /\ WriteAccounts'
    BY <1>0, <2>2 DEF NothingExpires, WriteAccounts, redisVars
  <2>5. CASE audit' = audit
    BY <1>0, <2>2, <2>4, <2>5, RowsBelow DEF redisVars
  <2>6. CASE audit' = Append(audit, Row)
    <3>1. /\ Len(audit) \in Nat
          /\ DOMAIN audit = 1 .. Len(audit)
          /\ DOMAIN audit' = 1 .. Len(audit) + 1
          /\ \A i \in 1 .. Len(audit) : audit'[i] = audit[i]
          /\ audit'[Len(audit) + 1] = Row
      BY <2>6, RowType, AppendProperties, LenProperties DEF TypeInv, TypeOK
    <3>2. Row.seq = writer.seq
      BY DEF Row
    <3>3. \A i \in 1 .. Len(audit) : audit'[i].seq < writer.seq
      BY <2>2, <3>1 DEF AuditAccounts
    <3>4. \A i, j \in DOMAIN audit' : i < j => audit'[i].seq < audit'[j].seq
      <4> SUFFICES ASSUME NEW i \in DOMAIN audit', NEW j \in DOMAIN audit', i < j
                   PROVE  audit'[i].seq < audit'[j].seq
        OBVIOUS
      <4>1. i \in 1 .. Len(audit)
        BY <3>1
      <4>2. CASE j \in 1 .. Len(audit)
        BY <3>1, <4>1, <4>2 DEF AuditAccounts
      <4>3. CASE j = Len(audit) + 1
        BY <3>1, <3>2, <3>3, <4>1, <4>3
      <4> QED BY <3>1, <4>2, <4>3
    <3>5. \A i \in DOMAIN audit' : audit'[i].seq <= boundary.seq
      <4> SUFFICES ASSUME NEW i \in DOMAIN audit' PROVE audit'[i].seq <= boundary.seq
        OBVIOUS
      <4>1. CASE i \in 1 .. Len(audit)
        BY <1>0, <3>1, <4>1
      <4>2. CASE i = Len(audit) + 1
        BY <1>0, <2>3, <3>1, <3>2, <4>2
      <4> QED BY <3>1, <4>1, <4>2
    <3>6. AuditAccounts'
      BY <2>2, <3>4, <3>5 DEF AuditAccounts, redisVars
    <3> QED BY <2>4, <3>6
  <2> QED BY <2>1, <2>4, <2>5, <2>6
<1>5. CASE Fail
  <2>1. /\ writer.at # "idle" /\ writer'.at = "idle" /\ writer'.seq = writer.seq
        /\ UNCHANGED <<audit, reader>>
    BY <1>0, <1>5, WriterMoved DEF Fail, At
  <2>2. /\ boundary'.seq \in {boundary.seq, writer.seq}
        /\ ttl' = ttl \/ ttl' = [ttl EXCEPT !.messages = FALSE]
    BY <1>5, EffectAccounts DEF Fail, redisVars
  <2>3. ~ttl'.messages /\ ~ttl'.boundaries
    BY <1>0, <2>2
  <2>4. NothingExpires' /\ WriteAccounts'
    BY <1>0, <2>1, <2>3 DEF NothingExpires, WriteAccounts
  <2>5. AuditAccounts'
    BY <1>0, <2>1, <2>2, RowsBelow
  <2> QED BY <2>4, <2>5
<1>6. CASE Load \/ Peek \/ Refresh \/ LoadFails \/ Expire
  <2>1. FALSE
    BY <1>0, <1>6 DEF Load, Peek, Refresh, LoadFails, Expire
  <2> QED BY <2>1
<1>7. CASE Crash
  <2>1. /\ writer'.at = "idle" /\ writer'.seq = writer.seq
        /\ UNCHANGED <<redisVars, audit>> /\ reader' = "idle"
    BY <1>0, <1>7, WriterMoved DEF Crash, At
  <2> QED BY <1>0, <2>1 DEF NothingExpires, WriteAccounts, AuditAccounts, redisVars
<1>8. CASE UNCHANGED vars
  BY <1>8 DEF vars, redisVars, NothingExpires, WriteAccounts, AuditAccounts, Awaiting
<1> QED BY <1>1, <1>2, <1>3, <1>4, <1>5, <1>6, <1>7, <1>8 DEF Next

LEMMA PlainInvStep == TypeInv /\ PlainInv /\ [Next]_vars => PlainInv'
BY PlainStep, ConfigKept DEF PlainInv

\* Where nothing expires, the audit rows are in the order of the commits, each
\* at most once, and none is ahead of the store (audit after commit, in
\* AuditedConversationStore).
THEOREM SafeAuditOrdered == Spec => []AuditOrdered
<1>1. PlainInv => AuditOrdered
  BY DEF PlainInv, AuditAccounts, AuditOrdered
<1> QED BY <1>1, PlainInit, PlainInvStep, TypeInit, TypeStep, PTL DEF Spec

-----------------------------------------------------------------------------
(* The store implements the thread *)

LEMMA ThreadInit == Init => Thread!TInit
BY DEF Init, NoBoundary, Thread!TInit

\* Both lists growing in one transaction is one transaction of the thread.
LEMMA PushedMaps ==
    ASSUME TypeInv, WriteAccounts, writer.at = "commit", Pushed
    PROVE  Thread!TNext
<1>1. /\ messages' = messages \o writer.entries
      /\ boundary'.seq = boundary.seq + 1
      /\ boundary'.batch = IF writer.status = "awaiting_confirmation" THEN Len(messages') ELSE 0
  BY DEF Pushed, WriteAccounts
<1>2. boundary.batch = 0
  BY DEF WriteAccounts, TypeInv, TypeOK
<1> DEFINE w == [entries |-> writer.entries, status |-> writer.status]
<1>3. w \in Write /\ w.entries = writer.entries /\ w.status = writer.status
  BY DEF TypeInv, CommandAccounts
<1> HIDE DEF w
<1>4. CASE w.status = "awaiting_confirmation"
  <2>1. w.entries = <<"calls", "placeholders">>
    BY <1>3, <1>4 DEF Write
  <2>2. messages' = messages \o <<"calls", "placeholders">> /\ boundary'.batch = Len(messages')
    BY <1>1, <1>3, <1>4, <2>1
  <2>3. Thread!TSuspend
    BY <1>1, <1>2, <2>2 DEF Thread!TSuspend
  <2> QED BY <2>3 DEF Thread!TNext
<1>5. CASE w.status # "awaiting_confirmation"
  <2>1. w.entries \in {<<"user">>, <<"summary">>, <<"calls", "results">>, <<"text">>}
    BY <1>3, <1>5 DEF Write
  <2>2. \A e \in {<<"user">>, <<"summary">>, <<"text">>} :
           \A i \in DOMAIN e : e[i] # "placeholders"
    OBVIOUS
  <2>3. \A i \in DOMAIN <<"calls", "results">> : <<"calls", "results">>[i] # "placeholders"
    OBVIOUS
  <2>4. writer.entries \in Thread!Additions
    BY <1>3, <2>1, Zenon DEF Thread!Additions
  <2>5. \A i \in DOMAIN writer.entries : writer.entries[i] # "placeholders"
    BY <1>3, <2>1, <2>2, <2>3, Zenon
  <2>6. boundary'.batch = 0
    BY <1>1, <1>3, <1>5
  <2>7. Thread!TExtend(writer.entries)
    BY <1>1, <1>2, <2>5, <2>6 DEF Thread!TExtend
  <2> QED BY <2>4, <2>7 DEF Thread!TNext
<1> QED BY <1>4, <1>5

\* Deleting and rewriting the list is the settlement of its batch.
LEMMA RewrittenMaps ==
    ASSUME TypeInv, WriteAccounts, writer.at = "rewrite", Rewritten
    PROVE  Thread!TNext
<1>1. /\ messages' = Replaced(messages)
      /\ boundary'.seq = boundary.seq + 1
      /\ boundary'.batch = 0
  BY DEF Rewritten, WriteAccounts
<1>2. boundary.batch # 0
  BY DEF WriteAccounts, TypeInv, TypeOK
<1>3. messages' = [messages EXCEPT ![boundary.batch] = "results"]
  <2>1. DOMAIN messages = 1 .. Len(messages) /\ messages = [i \in DOMAIN messages |-> messages[i]]
    BY LenProperties DEF TypeInv, TypeOK
  <2> QED BY <1>1, <2>1 DEF Replaced
<1>4. Thread!TSettle
  BY <1>1, <1>2, <1>3 DEF Thread!TSettle
<1> QED BY <1>4 DEF Thread!TNext

LEMMA EffectMaps ==
    ASSUME TypeInv, WriteAccounts, ~config.ttl, UNCHANGED redisVars \/ Effect
    PROVE  [Thread!TNext]_(Thread!tvars)
<1>1. CASE UNCHANGED redisVars
  BY <1>1 DEF redisVars, Thread!tvars
<1>2. CASE Effect
  <2>1. CASE writer.at = "commit"
    BY <1>2, <2>1, PushedMaps DEF Effect
  <2>2. CASE writer.at = "rewrite"
    BY <1>2, <2>2, RewrittenMaps DEF Effect
  <2>3. CASE writer.at \notin {"commit", "rewrite"}
    BY <1>1, <1>2, <2>3, EffectAccounts
  <2> QED BY <2>1, <2>2, <2>3
<1> QED BY <1>1, <1>2

LEMMA ThreadStep ==
    TypeInv /\ PlainInv /\ [Next]_vars => [config.ttl \/ Thread!TNext]_(Thread!tvars)
<1> SUFFICES ASSUME TypeInv, PlainInv, [Next]_vars, ~config.ttl
             PROVE  [Thread!TNext]_(Thread!tvars)
  OBVIOUS
<1>1. NothingExpires /\ WriteAccounts
  BY DEF PlainInv
<1>2. CASE Execute \/ Fail
  <2>1. UNCHANGED redisVars \/ Effect
    BY <1>2 DEF Execute, Advance, Fail
  <2> QED BY <1>1, <2>1, EffectMaps
<1>3. CASE BeginCommit \/ BeginResolve \/ Fetch \/ Audit \/ Crash
  <2>1. UNCHANGED redisVars
    BY <1>3 DEF BeginCommit, BeginResolve, Begin, Fetch, Audit, Crash
  <2> QED BY <2>1 DEF redisVars, Thread!tvars
<1>4. CASE Load \/ Peek \/ Refresh \/ LoadFails \/ Expire
  <2>1. FALSE
    BY <1>1, <1>4 DEF NothingExpires, Load, Peek, Refresh, LoadFails, Expire
  <2> QED BY <2>1
<1>5. CASE UNCHANGED vars
  BY <1>5 DEF vars, redisVars, Thread!tvars
<1> QED BY <1>2, <1>3, <1>4, <1>5 DEF Next

\* Without a configured TTL, every command of the Redis store, failed or
\* carried out, is a transaction of the thread or leaves it as it is: nothing
\* torn, nothing lost, and a batch is left by its settlement only.
THEOREM Refinement == Spec => ImplementsThread
BY ThreadInit, ThreadStep, TypeInit, TypeStep, PlainInit, PlainInvStep, PTL
   DEF Spec, ImplementsThread

\* The inductive invariant as a whole: it is TypeInv, TtlInv and PlainInv
\* together (the writer, the audit log and the two keys).
THEOREM StoreInvHolds == Spec => []StoreInv
<1>1. TypeInv /\ TtlInv /\ PlainInv => StoreInv
  BY DEF TypeInv, TtlInv, PlainInv, StoreInv
<1> QED BY <1>1, TypeInit, TypeStep, TtlInit, TtlInvStep, PlainInit, PlainInvStep, PTL DEF Spec
=============================================================================
