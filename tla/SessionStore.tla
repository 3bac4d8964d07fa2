---------------------------- MODULE SessionStore ----------------------------
(***************************************************************************)
(* AuditedConversationStore over RedisConversationStore: one thread.       *)
(*                                                                         *)
(* A thread is two Redis lists, its messages and its boundaries; only the  *)
(* latest boundary is ever read.  A write is one MULTI/EXEC, followed by   *)
(* an EXPIRE or a PERSIST of each key in a command of its own, followed by *)
(* an audit row.  A load refreshes the keys of a thread that waits for the *)
(* user.  Every command may raise, before or after Redis has carried it    *)
(* out; the process may crash; a key with a time to live may expire at any *)
(* moment.  Writes come one at a time, as the module's single-writer       *)
(* assumption says; loads come from the stream that watches a run.         *)
(***************************************************************************)
EXTENDS Naturals, Sequences

CONSTANTS
    Overlap,     \* may a load overlap a write?
    MaxWrites    \* bound on writes

ASSUME StoreAssumption == Overlap \in BOOLEAN /\ MaxWrites \in Nat

VARIABLES
    messages,    \* Redis: the list of messages, empty if the key is absent
    boundary,    \*   the last element of the list of boundaries, or NoBoundary
    ttl,         \*   which of the two keys has a time to live
    audit,       \* Postgres: the audit rows, in order
    writer,      \* the write under way, or the last one
    reader,      \* where the load under way stands
    acked,       \* did the last write return without raising?
    config,      \* ttl_minutes and refresh_on_read.  Chosen once.
    writes

redisVars == <<messages, boundary, ttl>>
vars == <<redisVars, audit, writer, reader, acked, config, writes>>

Entry == {"user", "text", "calls", "results", "placeholders", "summary"}
Status == {"user", "iteration", "completed", "failed", "awaiting_confirmation"}
Boundary == [status : Status \cup {"none"}, seq : Nat, batch : Nat]
NoBoundary == [status |-> "none", seq |-> 0, batch |-> 0]

\* What the engine and its caller commit, and under which status.
Write ==
    [entries : {<<"user">>}, status : {"user"}]
    \cup [entries : {<<"summary">>, <<"calls", "results">>}, status : {"iteration"}]
    \cup [entries : {<<"text">>}, status : {"completed"}]
    \cup [entries : {<<"calls", "placeholders">>}, status : {"awaiting_confirmation"}]

At == {"idle", "commit", "fetch", "rewrite", "ttl_messages", "ttl_boundaries", "audit"}
ReaderAt == {"idle", "peek", "refresh_messages", "refresh_boundaries"}

Awaiting == boundary.status = "awaiting_confirmation"

-----------------------------------------------------------------------------
(* What one command does to Redis *)

\* commit(): both lists grow in one transaction.  RPUSH leaves a TTL alone.
Pushed ==
    /\ messages' = messages \o writer.entries
    /\ boundary' = [status |-> writer.status, seq |-> writer.seq,
                    batch |-> IF writer.status = "awaiting_confirmation" THEN Len(messages') ELSE 0]
    /\ UNCHANGED ttl

ReplacedNothing(snapshot) == snapshot

\* The placeholders of the pending batch give way to the results.
Replaced(snapshot) ==
    [i \in DOMAIN snapshot |-> IF i = boundary.batch THEN "results" ELSE snapshot[i]]

RewrittenStillPending ==
    /\ messages' = Replaced(writer.snapshot)
    /\ boundary' = [status |-> "iteration", seq |-> writer.seq, batch |-> boundary.batch]
    /\ ttl' = [ttl EXCEPT !.messages = FALSE]

\* resolve_pending(): the list is deleted, its TTL with it, and written anew.
Rewritten ==
    /\ messages' = Replaced(writer.snapshot)
    /\ boundary' = [status |-> "iteration", seq |-> writer.seq, batch |-> 0]
    /\ ttl' = [ttl EXCEPT !.messages = FALSE]

\* EXPIRE of a thread that now waits for the user, PERSIST of any other;
\* neither does anything to a key that is absent.
TtlOnMessages ==
    /\ ttl' = [ttl EXCEPT !.messages =
                  messages # <<>> /\ writer.status = "awaiting_confirmation"]
    /\ UNCHANGED <<messages, boundary>>

TtlNeverTakenBack ==
    /\ ttl' = [ttl EXCEPT !.boundaries =
                  boundary # NoBoundary /\ (@ \/ writer.status = "awaiting_confirmation")]
    /\ UNCHANGED <<messages, boundary>>

TtlOnBoundaries ==
    /\ ttl' = [ttl EXCEPT !.boundaries =
                  boundary # NoBoundary /\ writer.status = "awaiting_confirmation"]
    /\ UNCHANGED <<messages, boundary>>

\* What the command at this stage of a write does.
Effect ==
    CASE writer.at = "commit"         -> Pushed
      [] writer.at = "rewrite"        -> Rewritten
      [] writer.at = "ttl_messages"   -> TtlOnMessages
      [] writer.at = "ttl_boundaries" -> TtlOnBoundaries
      [] OTHER                        -> UNCHANGED redisVars

-----------------------------------------------------------------------------
(* Writes *)

\* latest_boundary() has answered; the next sequence number is the writer's.
Begin(at, entries, status, settles) ==
    /\ writer.at = "idle"
    /\ Overlap \/ reader = "idle"
    /\ writes < MaxWrites
    /\ writes' = writes + 1
    /\ writer' = [at |-> at, entries |-> entries, status |-> status, settles |-> settles,
                  seq |-> boundary.seq + 1, snapshot |-> <<>>]
    /\ UNCHANGED <<redisVars, audit, reader, acked, config>>

\* A thread begins with the user's message.
BeginCommit ==
    /\ ~Awaiting
    /\ \E w \in Write :
          /\ messages # <<>> \/ boundary # NoBoundary \/ w.status = "user"
          /\ Begin("commit", w.entries, w.status, FALSE)

BeginResolve ==
    /\ Awaiting
    /\ Begin("fetch", <<>>, "iteration", TRUE)

\* resolve_pending() reads the whole list.
Fetch ==
    /\ writer.at = "fetch"
    /\ writer' = [writer EXCEPT !.at = "rewrite", !.snapshot = messages]
    /\ UNCHANGED <<redisVars, audit, reader, acked, config, writes>>

\* A command of the write has answered.
Advance(from, to) ==
    /\ writer.at = from
    /\ Effect
    /\ writer' = [writer EXCEPT !.at = to]
    /\ UNCHANGED <<audit, reader, acked, config, writes>>

AfterExec == IF config.ttl THEN "ttl_messages" ELSE "audit"

Execute ==
    \/ Advance("commit", AfterExec)
    \/ Advance("rewrite", AfterExec)
    \/ Advance("ttl_messages", "ttl_boundaries")
    \/ Advance("ttl_boundaries", "audit")

NeverMandatory == FALSE

\* A boundary with a pending batch, or one that settles a batch, must be audited.
Mandatory == writer.settles \/ writer.status = "awaiting_confirmation"

Row == [seq |-> writer.seq, status |-> writer.status]

\* The insertion of the row has answered or raised, carried out or not; the
\* write raises with it if the row is mandatory, and returns otherwise.
Audit ==
    /\ writer.at = "audit"
    /\ \E inserted, raised \in BOOLEAN :
          /\ inserted \/ raised
          /\ audit' = IF inserted THEN Append(audit, Row) ELSE audit
          /\ acked' = (raised => ~Mandatory)
    /\ writer' = [writer EXCEPT !.at = "idle"]
    /\ UNCHANGED <<redisVars, reader, config, writes>>

FailAudited ==
    /\ writer.at \notin {"idle", "audit"}
    /\ UNCHANGED redisVars \/ Effect
    /\ audit' = Append(audit, Row)
    /\ writer' = [writer EXCEPT !.at = "idle"]
    /\ acked' = FALSE
    /\ UNCHANGED <<reader, config, writes>>

\* A command of Redis raises, carried out or not.
Fail ==
    /\ writer.at \notin {"idle", "audit"}
    /\ UNCHANGED redisVars \/ Effect
    /\ writer' = [writer EXCEPT !.at = "idle"]
    /\ acked' = FALSE
    /\ UNCHANGED <<audit, reader, config, writes>>

-----------------------------------------------------------------------------
(* Loads *)

\* LRANGE; a load of an absent list, or without refresh, ends here.
Load ==
    /\ reader = "idle"
    /\ Overlap \/ writer.at = "idle"
    /\ messages # <<>>
    /\ config.ttl /\ config.refresh
    /\ reader' = "peek"
    /\ UNCHANGED <<redisVars, audit, writer, acked, config, writes>>

\* LINDEX of the boundaries.
Peek ==
    /\ reader = "peek"
    /\ reader' = IF Awaiting THEN "refresh_messages" ELSE "idle"
    /\ UNCHANGED <<redisVars, audit, writer, acked, config, writes>>

Refresh ==
    /\ \/ /\ reader = "refresh_messages"
          /\ ttl' = [ttl EXCEPT !.messages = messages # <<>>]
          /\ reader' = "refresh_boundaries"
       \/ /\ reader = "refresh_boundaries"
          /\ ttl' = [ttl EXCEPT !.boundaries = boundary # NoBoundary]
          /\ reader' = "idle"
    /\ UNCHANGED <<messages, boundary, audit, writer, acked, config, writes>>

\* A command of a load raises; its caller tries again later.
LoadFails ==
    /\ reader # "idle"
    /\ reader' = "idle"
    /\ UNCHANGED <<redisVars, audit, writer, acked, config, writes>>

-----------------------------------------------------------------------------
(* The environment *)

Crash ==
    /\ writer.at # "idle" \/ reader # "idle"
    /\ writer' = [writer EXCEPT !.at = "idle"]
    /\ reader' = "idle"
    /\ acked' = (acked /\ writer.at = "idle")
    /\ UNCHANGED <<redisVars, audit, config, writes>>

Expire ==
    /\ \/ /\ ttl.messages
          /\ messages' = <<>>
          /\ ttl' = [ttl EXCEPT !.messages = FALSE]
          /\ UNCHANGED boundary
       \/ /\ ttl.boundaries
          /\ boundary' = NoBoundary
          /\ ttl' = [ttl EXCEPT !.boundaries = FALSE]
          /\ UNCHANGED messages
    /\ UNCHANGED <<audit, writer, reader, acked, config, writes>>

-----------------------------------------------------------------------------
Init ==
    /\ messages = <<>>
    /\ boundary = NoBoundary
    /\ ttl = [messages |-> FALSE, boundaries |-> FALSE]
    /\ audit = <<>>
    /\ writer = [at |-> "idle", entries |-> <<>>, status |-> "user", settles |-> FALSE,
                 seq |-> 0, snapshot |-> <<>>]
    /\ reader = "idle"
    /\ acked = TRUE
    /\ config \in [ttl : BOOLEAN, refresh : BOOLEAN]
    /\ writes = 0

Next ==
    \/ BeginCommit \/ BeginResolve \/ Fetch \/ Execute \/ Audit \/ Fail
    \/ Load \/ Peek \/ Refresh \/ LoadFails
    \/ Crash \/ Expire

Spec == Init /\ [][Next]_vars

-----------------------------------------------------------------------------
(* Properties *)

\* Types, and the two facts every reader of the lists relies on: only a
\* waiting boundary carries a batch, and an absent key has no TTL.
TypeOK ==
    /\ messages \in Seq(Entry)
    /\ boundary \in Boundary
    /\ boundary.batch # 0 <=> Awaiting
    /\ ttl \in [messages : BOOLEAN, boundaries : BOOLEAN]
    /\ ttl.messages => messages # <<>>
    /\ ttl.boundaries => boundary # NoBoundary
    /\ audit \in Seq([seq : Nat, status : Status])
    /\ writer \in [at : At, entries : Seq(Entry), status : Status, settles : BOOLEAN,
                   seq : Nat, snapshot : Seq(Entry)]
    /\ reader \in ReaderAt
    /\ acked \in BOOLEAN
    /\ config \in [ttl : BOOLEAN, refresh : BOOLEAN]
    /\ writes \in Nat

AtRest == writer.at = "idle" /\ reader = "idle"

\* When a write has returned, a thread that waits for the user expires as a
\* whole, and any other thread not at all.
TtlFollowsStatus ==
    config.ttl /\ acked /\ AtRest /\ messages # <<>> /\ boundary # NoBoundary
    => ttl = [messages |-> Awaiting, boundaries |-> Awaiting]

\* When the engine has been told that a suspension or a settlement is durable,
\* the last audit row is that boundary's.
ControlAudited ==
    acked /\ writer.at = "idle" /\ (writer.settles \/ writer.status = "awaiting_confirmation")
    => audit # <<>> /\ audit[Len(audit)] = Row

\* Where nothing expires, the audit log follows the store: its rows are in the
\* order of the commits, each at most once, and none is ahead of the store.
AuditOrdered ==
    ~config.ttl =>
        /\ \A i, j \in DOMAIN audit : i < j => audit[i].seq < audit[j].seq
        /\ \A i \in DOMAIN audit : audit[i].seq <= boundary.seq

\* One write after the other, and no load in between.
OneAtATime == Overlap \/ writer.at = "idle" \/ reader = "idle"

\* Without a configured TTL no key ever gets one, and a load sends no command.
NothingExpires == reader = "idle" /\ ~ttl.messages /\ ~ttl.boundaries

\* What a write under way may rely on, where nothing expires.
WriteAccounts ==
    /\ writer.at \in {"commit", "fetch", "rewrite"} => writer.seq = boundary.seq + 1
    /\ writer.at = "commit" => ~Awaiting
    /\ writer.at \in {"fetch", "rewrite"} => Awaiting
    /\ writer.at = "rewrite" => writer.snapshot = messages
    /\ writer.at \in {"ttl_messages", "ttl_boundaries", "audit"} => writer.seq = boundary.seq

\* What is committed and how it is audited.
CommandAccounts ==
    /\ writer.at = "commit" => [entries |-> writer.entries, status |-> writer.status] \in Write
    /\ writer.at \in {"fetch", "rewrite"} => writer.status = "iteration"
    /\ writer.at \in {"ttl_messages", "ttl_boundaries"} => config.ttl

\* The rows, the write under way and the store.
AuditAccounts ==
    /\ \A i, j \in DOMAIN audit : i < j => audit[i].seq < audit[j].seq
    /\ \A i \in DOMAIN audit :
          /\ audit[i].seq <= boundary.seq
          /\ writer.at # "idle" => audit[i].seq < writer.seq

\* What the commands on the two keys have achieved so far.
TtlAccounts ==
    /\ reader \in {"refresh_messages", "refresh_boundaries"} => Awaiting \/ boundary = NoBoundary
    /\ writer.at \in {"ttl_messages", "ttl_boundaries", "audit"} /\ boundary # NoBoundary
       => boundary.status = writer.status
    /\ writer.at = "ttl_boundaries" /\ messages # <<>>
       => ttl.messages = (writer.status = "awaiting_confirmation")
    /\ (writer.at = "audit" \/ (writer.at = "idle" /\ acked)) /\ messages # <<>> /\ boundary # NoBoundary
       => ttl = [messages |-> Awaiting, boundaries |-> Awaiting]

\* The inductive invariant behind the properties above and the refinement.
StoreInv ==
    /\ OneAtATime
    /\ CommandAccounts
    /\ ~config.ttl => NothingExpires /\ WriteAccounts /\ AuditAccounts
    /\ config.ttl /\ ~Overlap => TtlAccounts

\* Where nothing expires, the store implements a conversation thread.
Thread == INSTANCE ConversationThread
              WITH log <- messages, seq <- boundary.seq, pending <- boundary.batch
ImplementsThread == Thread!TInit /\ [][config.ttl \/ Thread!TNext]_(Thread!tvars)
=============================================================================
