---------------------------- MODULE ContextView ----------------------------
(***************************************************************************)
(* What the model is shown of a thread (agent_context): the assembler      *)
(* derives a prompt from the message log before every model call.  It      *)
(* replaces a summarised middle, drops the results of answered tasks,      *)
(* leaves out plan calls, trims old turns and repairs the sequence.  The   *)
(* run loop compacts the log when a prompt is too long.                    *)
(*                                                                         *)
(* Messages are objects: object holds them by reference, log is the list   *)
(* of the in-memory store and conv the list of the run, which share the    *)
(* objects.  A text is the set of the inputs in it.                        *)
(*                                                                         *)
(* The run loop is reduced to what it appends (RunLoop has the details).   *)
(* Whether a prompt is too long, and how many steps fit in the tail budget *)
(* of a compaction, depends on wording: both are left open.                *)
(***************************************************************************)
EXTENDS Integers, Sequences, FiniteSets, Subsequences

CONSTANTS
    Tool,         \* the tools the model is shown
    Batch,        \* the sequences of them a turn may call
    KeepFirst, KeepRecent,  \* dialogue turns the trimming keeps; KeepFirst
                            \* is also the number of steps a compaction keeps
    ThrashLimit,  \* COMPACT_THRASH_LIMIT
    MaxUsers,     \* bound: requests
    MaxObjects    \* bound: message objects

Compaction == "__compaction__"
NoTool == "none"

\* Compactions are logged under a name that no tool has (history.py:37).
ASSUME ContextAssumption ==
    /\ {Compaction, NoTool} \cap Tool = {}
    /\ Batch \subseteq Seq(Tool) \ {<<>>}
    /\ {KeepFirst, KeepRecent} \subseteq Nat \ {0}
    /\ {ThrashLimit, MaxUsers, MaxObjects} \subseteq Nat

VARIABLES
    object,    \* the message objects, by reference
    log,       \* the references in the store
    conv,      \* the references in the conversation of the run
    awaiting,  \* the references of the placeholders of an open confirmation
    prompt,    \* what the model is sent
    nudge,     \* the next prompt ends with a nudge
    compacted, \* compactions of this iteration
    users,     \* how many requests there were
    phase      \* of the run: idle, top, check or turn

vars == <<object, log, conv, awaiting, prompt, nudge, compacted, users, phase>>

Nudge == 0   \* as a text, beside the numbers of the requests
NoRef == 0   \* of a message made for one prompt

-----------------------------------------------------------------------------
(* Messages                                                                *)

Message(role, ref, text, calls, id, tool, body) ==
    [role |-> role, ref |-> ref, text |-> text, calls |-> calls,
     id |-> id, tool |-> tool, body |-> body]

UserMessage(ref, text) == Message("user", ref, text, <<>>, 0, NoTool, "text")

SystemMessage(body) == Message("system", NoRef, {}, <<>>, 0, NoTool, body)

ToolMessage(ref, id, tool, body) == Message("tool", ref, {}, <<>>, id, tool, body)

\* arg is the number of items of a plan and the recent steps of a compaction.
ToolCall(id, tool, arg) == [id |-> id, tool |-> tool, arg |-> arg]

Calls(m, tool) == \E k \in DOMAIN m.calls : m.calls[k].tool = tool

CallIds(m) == {m.calls[k].id : k \in DOMAIN m.calls}

-----------------------------------------------------------------------------
(* repair.py                                                               *)

\* The call ids a tool result at i may answer: those of the assistant message
\* before it, unless a user message is in between.
KnownToolIds(ms, i) ==
    LET before == {j \in 1..(i - 1) : ms[j].role \in {"user", "assistant"}} IN
    IF before = {} THEN {}
    ELSE CallIds(ms[CHOOSE j \in before : \A k \in before : k <= j])

WithoutOrphans(ms) ==
    Picked(ms, {i \in DOMAIN ms : ms[i].role = "tool" => ms[i].id \in KnownToolIds(ms, i)})

MergeNothing(ms) == ms

IsUser(m) == m.role = "user"

\* A user message right behind another one.
Continues(ms, i) == i > 1 /\ IsUser(ms[i]) /\ IsUser(ms[i - 1])

\* The user messages from i on with nothing between them.
RunOf(ms, i) == {j \in i..Len(ms) : \A k \in i..j : IsUser(ms[k])}

\* Adjacent user messages become one; the first one takes the text in.
MergedUsers(ms) ==
    Picked([i \in DOMAIN ms |->
               IF IsUser(ms[i])
               THEN [ms[i] EXCEPT !.text = UNION {ms[j].text : j \in RunOf(ms, i)}]
               ELSE ms[i]],
           {i \in DOMAIN ms : ~Continues(ms, i)})

RepairMessages(ms) == MergedUsers(WithoutOrphans(ms))

\* The merge writes to the message object, whoever else holds it.
MergedInPlace(heap, ms) ==
    [r \in DOMAIN heap |->
        IF \E i \in DOMAIN ms : ms[i].ref = r /\ ms[i].role = "user"
        THEN [heap[r] EXCEPT !.text =
                ms[CHOOSE i \in DOMAIN ms : ms[i].ref = r /\ ms[i].role = "user"].text]
        ELSE heap[r]]

-----------------------------------------------------------------------------
(* history.py: views of a message list                                     *)

IsTextAnswer(m) == m.role = "assistant" /\ m.text # {} /\ m.calls = <<>>

IsOrdinaryToolResult(m) ==
    m.role = "tool" /\ m.tool \notin {"plan", Compaction, "propose_control"}

\* Results of tasks that were answered; a placeholder stays.
DropAnsweredToolResults(ms) ==
    [i \in DOMAIN ms |->
        IF /\ IsOrdinaryToolResult(ms[i]) /\ ms[i].body # "pending"
           /\ \E j \in (i + 1)..Len(ms) : IsTextAnswer(ms[j])
        THEN [ms[i] EXCEPT !.body = "dropped"] ELSE ms[i]]

TurnStarts(ms) == {i \in DOMAIN ms : IsUser(ms[i])}

IsStep(m) == m.role \in {"user", "assistant"}

\* The steps before p: of a list, if p is beyond it.
StepStarts(ms, p) == {i \in DOMAIN ms : i < p /\ IsStep(ms[i])}

MustKeepInTrim(m) ==
    m.body = "pending" \/ m.role \in {"system", "tool"} \/ m.calls # <<>>

\* The dialogue of old turns goes, behind a note; calls and results stay.
TrimDialogueTurns(ms) ==
    LET starts == TurnStarts(ms)
        n == Cardinality(starts)
        lo == Nth(starts, KeepFirst + 1)
        hi == Nth(starts, n - KeepRecent + 1)
    IN
    IF n <= KeepFirst + KeepRecent THEN ms
    ELSE Picked(ms, 1..(lo - 1)) \o <<UserMessage(NoRef, {})>>
         \o Picked(ms, {i \in lo..Len(ms) : i >= hi \/ MustKeepInTrim(ms[i])})

IsCompactionCall(m) == m.role = "assistant" /\ Calls(m, Compaction)

IsCompactionMsg(m) == IsCompactionCall(m) \/ (m.role = "tool" /\ m.tool = Compaction)

\* The place of step k before p (counted from 0), or p if there are no more.
StepAt(ms, p, k) ==
    LET starts == StepStarts(ms, p) IN
    IF k < Cardinality(starts) THEN Nth(starts, k + 1) ELSE p

\* What a compaction at p summarises that leaves so many recent steps.
Middle(ms, p, recent) ==
    StepAt(ms, p, KeepFirst)..(StepAt(ms, p, Cardinality(StepStarts(ms, p)) - recent) - 1)

MayRemain(ms, p) == 1..(Cardinality(StepStarts(ms, p)) - KeepFirst - 1)

RecentStepsOfAny(ms) == MayRemain(ms, Len(ms) + 1)

\* The recent steps a compaction may leave: at least one, and a middle to
\* summarise that holds no placeholder.
RecentSteps(ms) ==
    {recent \in MayRemain(ms, Len(ms) + 1) :
       \A i \in Middle(ms, Len(ms) + 1, recent) : ms[i].body # "pending"}

Anything(m) == TRUE

NotCompaction(m) == ~IsCompactionMsg(m)

CompactionCalls(ms) == {i \in DOMAIN ms : IsCompactionCall(ms[i])}

\* The latest compaction of a list: where it is and its recent steps.
LastCompaction(ms) ==
    CHOOSE i \in CompactionCalls(ms) : \A j \in CompactionCalls(ms) : j <= i

\* The middle before the latest compaction gives way to the summary; pairs
\* of older compactions go.
ApplyCompactionView(ms) ==
    LET p == LastCompaction(ms)
        n == Cardinality(StepStarts(ms, p))
        headKeep == IF KeepFirst < n THEN KeepFirst ELSE n
        fits == n - ms[p].calls[1].arg
        recentStart == IF fits > headKeep THEN fits ELSE headKeep
        head == 1..(StepAt(ms, p, headKeep) - 1)
        recent == StepAt(ms, p, recentStart)..(p - 1)
        future == {i \in (p + 1)..Len(ms) : i = p + 1 => ms[i].role # "tool"}
    IN Picked(ms, {i \in head : NotCompaction(ms[i])})
       \o <<SystemMessage("summary")>>
       \o Picked(ms, {i \in recent \cup future : NotCompaction(ms[i])})

-----------------------------------------------------------------------------
(* plan_view.py, plan.py and assembler.py                                  *)

PlanIds(ms) ==
    UNION {{ms[i].calls[k].id : k \in {k \in DOMAIN ms[i].calls : ms[i].calls[k].tool = "plan"}}
           : i \in DOMAIN ms}

WithoutPlan(calls) == Picked(calls, {k \in DOMAIN calls : calls[k].tool # "plan"})

\* Plan calls and their results go; a message with nothing else goes too.
ExcludePlanCalls(ms) ==
    LET Emptied(m) == Calls(m, "plan") /\ m.text = {} /\ WithoutPlan(m.calls) = <<>> IN
    Picked([i \in DOMAIN ms |-> [ms[i] EXCEPT !.calls = WithoutPlan(@)]],
           {i \in DOMAIN ms :
              ~Emptied(ms[i]) /\ (ms[i].role = "tool" => ms[i].id \notin PlanIds(ms))})

PlanTurns(ms) == {i \in DOMAIN ms : Calls(ms[i], "plan")}

\* derive_plan: the number of items of the latest plan.
DerivePlan(ms) ==
    LET m == ms[CHOOSE i \in PlanTurns(ms) : \A j \in PlanTurns(ms) : j <= i]
        snapshots == {k \in DOMAIN m.calls : m.calls[k].tool = "plan"}
        latest == CHOOSE k \in snapshots : \A l \in snapshots : l <= k
    IN IF PlanTurns(ms) = {} THEN 0 ELSE m.calls[latest].arg

ReducedPlanFirst(ms) == DropAnsweredToolResults(ExcludePlanCalls(ms))

\* The order matters: an answer is told from a spoken plan call only before
\* the plan calls are left out.
Reduced(ms) == ExcludePlanCalls(DropAnsweredToolResults(ms))

\* assemble, before its final repair; over tells that a note says the
\* context is nearly full.
Unrepaired(ms, over) ==
    LET history == IF CompactionCalls(ms) # {} THEN ApplyCompactionView(ms) ELSE ms IN
    <<SystemMessage("head")>> \o TrimDialogueTurns(Reduced(history))
    \o (IF DerivePlan(ms) > 0 THEN <<SystemMessage("plan")>> ELSE <<>>)
    \o (IF over THEN <<SystemMessage("context")>> ELSE <<>>)

\* Prompt and message objects after a call of assemble.
Assemble(heap, refs, over) ==
    LET view == RepairMessages(Unrepaired([i \in DOMAIN refs |-> heap[refs[i]]], over)) IN
    [view |-> view, heap |-> MergedInPlace(heap, view)]

Refs(ms) == [i \in DOMAIN ms |-> ms[i].ref]

-----------------------------------------------------------------------------
Messages(refs) == [i \in DOMAIN refs |-> object[refs[i]]]

Conversation == Messages(conv)

Room(n) == Len(object) + n <= MaxObjects

Init ==
    /\ object = <<>>
    /\ log = <<>>
    /\ conv = <<>>
    /\ awaiting = {}
    /\ prompt = <<>>
    /\ nudge = FALSE
    /\ compacted = 0
    /\ users = 0
    /\ phase = "idle"

\* New message objects at the end of the store and the conversation.
Commit(ms) ==
    /\ object' = object \o ms
    /\ log' = log \o Refs(ms)

StartRun(refs) ==
    /\ conv' = refs
    /\ nudge' = FALSE
    /\ phase' = "top"

EndRun ==
    /\ conv' = <<>>
    /\ prompt' = <<>>
    /\ nudge' = FALSE
    /\ compacted' = 0
    /\ phase' = "idle"

\* A request: its message is committed, the thread loaded.  A confirmation
\* that is open is left as it is.
Request ==
    /\ phase = "idle"
    /\ users < MaxUsers
    /\ Room(1)
    /\ Commit(<<UserMessage(Len(object) + 1, {users + 1})>>)
    /\ StartRun(log')
    /\ users' = users + 1
    /\ awaiting' = {}
    /\ UNCHANGED <<prompt, compacted>>

SettledAsIs(r, ref) == [object[r] EXCEPT !.body = "result"]

\* A new message with the id of the placeholder.
Settled(r, ref) == [object[r] EXCEPT !.ref = ref, !.body = "result"]

\* The confirmations are resolved, all at once: results take the places of
\* the placeholders.
Confirm ==
    LET n == Cardinality(awaiting)
        RefFor(r) == Len(object) + Cardinality({open \in awaiting : open <= r})
    IN
    /\ phase = "idle"
    /\ awaiting # {}
    /\ Room(n)
    /\ object' = object \o [k \in 1..n |-> Settled(Nth(awaiting, k), Len(object) + k)]
    /\ log' = [i \in DOMAIN log |-> IF log[i] \in awaiting THEN RefFor(log[i]) ELSE log[i]]
    /\ StartRun(log')
    /\ awaiting' = {}
    /\ UNCHANGED <<prompt, compacted, users>>

\* The top of an iteration: the conversation is repaired, a prompt made.
Prepare ==
    /\ phase = "top"
    /\ \E over \in BOOLEAN :
         LET repaired == RepairMessages(Conversation)
             made == Assemble(MergedInPlace(object, repaired), Refs(repaired), over)
         IN /\ conv' = Refs(repaired)
            /\ object' = made.heap
            /\ prompt' = made.view
    /\ compacted' = 0
    /\ phase' = "check"
    /\ UNCHANGED <<log, awaiting, nudge, users>>

\* Too long: a call and a result of the summary are committed, and the
\* prompt is made again.
Compact ==
    LET a == Len(object) + 1 IN
    /\ phase = "check"
    /\ compacted <= ThrashLimit
    /\ Room(2)
    /\ \E recent \in RecentSteps(Conversation), over \in BOOLEAN :
         LET pair == <<Message("assistant", a, {}, <<ToolCall(a + 1, Compaction, recent)>>,
                               0, NoTool, "text"),
                       ToolMessage(a + 1, a + 1, Compaction, "summary")>>
             made == Assemble(object \o pair, conv \o Refs(pair), over)
         IN /\ conv' = conv \o Refs(pair)
            /\ log' = log \o Refs(pair)
            /\ object' = made.heap
            /\ prompt' = made.view
    /\ compacted' = compacted + 1
    /\ UNCHANGED <<awaiting, nudge, users, phase>>

\* Still too long after too many compactions: the run fails.
Thrash ==
    /\ phase = "check"
    /\ compacted > ThrashLimit
    /\ EndRun
    /\ UNCHANGED <<object, log, awaiting, users>>

\* The prompt goes to the model, with a nudge if the last turn only planned.
Send ==
    LET nudged == RepairMessages(Append(prompt, UserMessage(NoRef, {Nudge}))) IN
    /\ phase = "check"
    /\ prompt' = IF nudge THEN nudged ELSE prompt
    /\ object' = IF nudge THEN MergedInPlace(object, nudged) ELSE object
    /\ compacted' = 0
    /\ phase' = "turn"
    /\ UNCHANGED <<log, conv, awaiting, nudge, users>>

\* The model answers with a text.
Answer ==
    LET a == Len(object) + 1 IN
    /\ phase = "turn"
    /\ Room(1)
    /\ Commit(<<Message("assistant", a, {a}, <<>>, 0, NoTool, "text")>>)
    /\ EndRun
    /\ UNCHANGED <<awaiting, users>>

\* The model calls tools, and may say something: the results follow in
\* order; a control waits for the user.
CallTools(tools, spoken, items) ==
    LET a == Len(object) + 1
        held == {k \in DOMAIN tools : tools[k] = "execute_proposal"}
        calls == [k \in DOMAIN tools |-> ToolCall(a + k, tools[k], items)]
        batch == <<Message("assistant", a, IF spoken THEN {a} ELSE {}, calls,
                           0, NoTool, "text")>>
                 \o [k \in DOMAIN tools |->
                       ToolMessage(a + k, a + k, tools[k],
                                   IF k \in held THEN "pending" ELSE "result")]
    IN
    /\ phase = "turn"
    /\ Room(Len(batch))
    /\ Commit(batch)
    /\ IF held # {}
       THEN /\ EndRun
            /\ awaiting' = {a + k : k \in held}
       ELSE /\ conv' = conv \o Refs(batch)
            /\ prompt' = <<>>
            /\ nudge' = \A k \in DOMAIN tools : tools[k] = "plan"
            /\ phase' = "top"
            /\ UNCHANGED <<awaiting, compacted>>
    /\ UNCHANGED users

\* The last turn of a budget is committed whatever it is: a call it makes is
\* never run, and has no result.
Grace(tool, spoken) ==
    LET a == Len(object) + 1 IN
    /\ phase = "turn"
    /\ Room(1)
    /\ Commit(<<Message("assistant", a, IF spoken THEN {a} ELSE {},
                       <<ToolCall(-a, tool, 0)>>, 0, NoTool, "text")>>)
    /\ EndRun
    /\ UNCHANGED <<awaiting, users>>

\* The model, a watchdog or an interrupt ends the run; nothing of the turn is
\* kept.
GiveUp ==
    /\ phase \in {"top", "turn"}
    /\ EndRun
    /\ UNCHANGED <<object, log, awaiting, users>>

Next ==
    \/ Request \/ Confirm \/ Prepare \/ Compact \/ Thrash \/ Send \/ Answer \/ GiveUp
    \/ \E tools \in Batch, spoken \in BOOLEAN :
         \E items \in IF \E k \in DOMAIN tools : tools[k] = "plan" THEN {0, 1} ELSE {0} :
            CallTools(tools, spoken, items)
    \/ \E tool \in Tool, spoken \in BOOLEAN : Grace(tool, spoken)

Spec == Init /\ [][Next]_vars
-----------------------------------------------------------------------------
(* Properties                                                              *)

Sent == phase = "turn"

\* The messages of the conversation that the latest summary stands for.
Summarised ==
    LET ms == Conversation
        p == LastCompaction(ms)
    IN IF CompactionCalls(ms) = {} THEN {}
       ELSE {ms[i].ref : i \in Middle(ms, p, ms[p].calls[1].arg)}

InPrompt(m) == \E i \in DOMAIN prompt :
    prompt[i].role = m.role /\ prompt[i].id = m.id /\ prompt[i].body = m.body

\* Types of the variables (messages.py:13).
TypeOK ==
    /\ \A r \in DOMAIN object :
         /\ object[r].ref = r
         /\ object[r].role \in {"user", "assistant", "tool"}
         /\ object[r].body \in {"text", "result", "pending", "summary"}
    /\ {log[i] : i \in DOMAIN log} \cup {conv[i] : i \in DOMAIN conv} \cup awaiting
         \subseteq DOMAIN object
    /\ \A i \in DOMAIN prompt : prompt[i].ref \in {NoRef} \cup DOMAIN object
    /\ nudge \in BOOLEAN
    /\ compacted \in 0..(ThrashLimit + 1)
    /\ users \in 0..MaxUsers
    /\ phase \in {"idle", "top", "check", "turn"}

Answered(ms, i, id) ==
    \E j \in (i + 1)..Len(ms) :
        ms[j].role = "tool" /\ ms[j].id = id /\ id \in KnownToolIds(ms, j)

\* What goes to the provider is a legal sequence, whatever was dropped,
\* excluded, trimmed, summarised and merged: no two user messages in a row,
\* every tool result behind its call, and no call without the answer that the
\* thread has for it (repair.py:1, history.py:24).
PromptLegal ==
    Sent =>
      /\ prompt[1].role = "system"
      /\ \A i \in 2..Len(prompt) : ~(IsUser(prompt[i]) /\ IsUser(prompt[i - 1]))
      /\ \A i \in DOMAIN prompt :
           prompt[i].role = "tool" => prompt[i].id \in KnownToolIds(prompt, i)
      /\ \A i \in DOMAIN prompt : \A id \in CallIds(prompt[i]) :
           id > 0 => Answered(prompt, i, id)

\* Every call that the provider is shown has its answer behind it: what the
\* repair at the top of an iteration is for (loop.py:216).
EveryCallAnswered ==
    Sent => \A i \in DOMAIN prompt : \A id \in CallIds(prompt[i]) : Answered(prompt, i, id)

\* The results the current task has gathered are shown in full, unless they
\* are in the summary: dropping is for tasks that were answered, and talk
\* beside a plan call is no answer (history.py:10).
CurrentWorkKept ==
    Sent =>
      \A i \in DOMAIN conv :
        LET m == Conversation[i] IN
        /\ IsOrdinaryToolResult(m)
        /\ \A j \in (i + 1)..Len(conv) : ~IsTextAnswer(Conversation[j])
        /\ m.ref \notin Summarised
        => InPrompt(m)

\* A confirmation placeholder in the thread is in every prompt: it is never
\* dropped, trimmed or summarised (history.py:14).
PlaceholderKept ==
    Sent => \A i \in DOMAIN conv :
              Conversation[i].body = "pending" => InPrompt(Conversation[i])

\* At most one summary is shown, and never as the call or the result by which
\* a compaction, replaced or not, is logged (history.py:258).
OneSummary ==
    Sent => /\ \A i \in DOMAIN prompt : ~IsCompactionMsg(prompt[i])
            /\ Cardinality({i \in DOMAIN prompt : prompt[i].body = "summary"}) <= 1

\* Deriving a prompt leaves the messages of the thread as they are: after the
\* run loop's own repair nothing else is written ("only reads conversation ...
\* does not change conversation.messages", assembler.py:16).
AssembleReadsOnly ==
    [][phase = "top" /\ phase' = "check"
       => object' = MergedInPlace(object, RepairMessages(Conversation))]_vars
=============================================================================
