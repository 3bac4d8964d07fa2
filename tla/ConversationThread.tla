------------------------- MODULE ConversationThread -------------------------
(***************************************************************************)
(* What a conversation store and the engine promise of one thread: a log   *)
(* of messages that only grows, by whole transactions, each under a larger *)
(* sequence number.  A transaction may end in placeholders for actions     *)
(* that wait for the user; nothing is added after them, and nothing else   *)
(* is ever rewritten, until one transaction settles the whole batch.       *)
(* RunLoop and SessionStore implement this specification.                  *)
(***************************************************************************)
EXTENDS Naturals, Sequences

VARIABLES
    log,      \* the committed messages
    seq,      \* the sequence number of the last transaction
    pending   \* where the placeholders stand in log, or 0

tvars == <<log, seq, pending>>

\* An entry is what one commit adds for one role: a user message, a text
\* answer, an assistant message with tool calls, the results of those calls,
\* the placeholders of calls that wait for the user, or a compaction summary.
Entry == {"user", "text", "calls", "results", "placeholders", "summary"}

TInit ==
    /\ log = <<>>
    /\ seq = 0
    /\ pending = 0

\* A transaction without placeholders.
TExtend(entries) ==
    /\ pending = 0
    /\ \A i \in DOMAIN entries : entries[i] # "placeholders"
    /\ log' = log \o entries
    /\ seq' = seq + 1
    /\ UNCHANGED pending

\* A transaction that leaves a batch for the user to decide.
TSuspend ==
    /\ pending = 0
    /\ log' = log \o <<"calls", "placeholders">>
    /\ seq' = seq + 1
    /\ pending' = Len(log')

\* The batch is decided.
TSettle ==
    /\ pending # 0
    /\ log' = [log EXCEPT ![pending] = "results"]
    /\ seq' = seq + 1
    /\ pending' = 0

\* What one transaction can add.
Additions == {<<>>, <<"user">>, <<"text">>, <<"calls">>, <<"calls", "results">>, <<"summary">>}

TNext ==
    \/ \E entries \in Additions : TExtend(entries)
    \/ TSuspend
    \/ TSettle

TSpec == TInit /\ [][TNext]_tvars
=============================================================================
