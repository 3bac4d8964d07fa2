------------------------------ MODULE RunLoop -------------------------------
(***************************************************************************)
(* run_loop: the transactional engine of one conversation thread.          *)
(*                                                                         *)
(* A run loads the thread, settles a pending batch if the caller brings a  *)
(* decision, and then iterates: assemble (and perhaps compact), call the   *)
(* model, run the tool batch, commit.  Each iteration is one transaction   *)
(* of the conversation store; a run that stops early rolls its in-memory   *)
(* conversation back to the last commit.  The coroutine is cut at its      *)
(* awaits.  The model, the tools, the sub-agents that share the budget     *)
(* pool, the compactor, the control capability and the store answer as     *)
(* they like; the caller runs one run_loop at a time on the thread.        *)
(*                                                                         *)
(* A run of consecutive user messages is one entry of the conversation:    *)
(* repair_messages merges it at the top of every iteration.                *)
(***************************************************************************)
EXTENDS Naturals, Sequences, FiniteSets

CONSTANTS
    Tool,             \* tool names
    PlanTool,         \* the plan meta tool
    VerdictOf,        \* VerdictOf[t]: the gate's verdict, or "unknown" if t is not registered
    Turns,            \* the batches of tool calls the model may ask for
    MaxIterations,    \* LoopBudget of the shared pool
    StepLimit,        \* max_iterations of this run's own configuration
    MaxToolFailures,
    CompactThrashLimit,
    SubagentSpend,    \* bound on what the sub-agents of one batch consume
    NoSnapshot,       \* "this boundary carries no budget snapshot"
    WithControl,      \* whether a control capability is injected: the choices checked
    ChatWhilePending, \* may the caller commit a user message over a pending batch?
    MaxUsers,         \* bound on user messages
    MaxRuns           \* bound on calls of run_loop

\* The limits written into run_loop.
MaxEmpty == 2
StallLimit == 3
NoProgressLimit == 2
UnproductiveLimit == 3

Verdicts == {"unknown", "deny", "ask", "allow"}
Pool == [iters : Nat, tokensOut : BOOLEAN, graceUsed : BOOLEAN]

ASSUME LoopAssumption ==
    /\ PlanTool \in Tool
    /\ VerdictOf \in [Tool -> Verdicts]
    /\ Turns \subseteq Seq(Tool) \ {<<>>}
    /\ MaxIterations \in Nat
    /\ StepLimit \in Nat
    /\ MaxToolFailures \in Nat \ {0}
    /\ CompactThrashLimit \in Nat
    /\ SubagentSpend \in Nat
    /\ NoSnapshot \notin Pool
    /\ WithControl \subseteq BOOLEAN
    /\ ChatWhilePending \in BOOLEAN
    /\ MaxUsers \in Nat
    /\ MaxRuns \in Nat

VARIABLES
    log,          \* the store: committed messages of the thread
    boundary,     \*   and its latest boundary
    conv,         \* the run's in-memory conversation
    pc,           \* where the run stands
    pool,         \* the caller's BudgetTracker, shared with the sub-agents
    run,          \* the local variables of run_loop
    calls,        \* the tool calls of the turn being run
    results,      \* their results
    txn,          \* what is being committed, and the reply that follows
    interrupted,  \* RunControl
    reply,        \* how the last run ended
    control,      \* is a control capability injected?  Chosen once.
    users,
    runs

storeVars == <<log, boundary>>
turnVars == <<calls, results, txn>>
envVars == <<control, users, runs>>
vars == <<storeVars, conv, pc, pool, run, turnVars, interrupted, reply, envVars>>

Entry == {"user", "text", "calls", "results", "placeholders", "summary"}
BoundaryStatus == {"none", "user", "iteration", "completed", "awaiting_confirmation", "failed"}
Boundary == [status : BoundaryStatus, seq : Nat, batch : Nat, count : Nat,
             snapshot : Pool \cup {NoSnapshot}]

\* Statuses of LoopResult, with the reason where the status is "failed"; a
\* run may also end by an exception of a collaborator, or with its process.
Reply == {"", "completed", "awaiting_confirmation", "budget_exhausted", "interrupted",
          "model_error", "empty_response", "no_progress", "stall", "tool_failures",
          "compaction_thrash", "persist_error", "raised", "lost"}

Transaction == [entries : Seq(Entry), status : BoundaryStatus, count : Nat, reply : Reply]

Decision == {"none", "cancel", "resolution"}

\* The calls of a turn without their order: each tool, and how often.
Signature == SUBSET (Tool \X Nat)

Stage == {"idle", "enter", "resolving", "settle", "top", "assembled", "commit_summary",
          "call", "tools", "commit"}

-----------------------------------------------------------------------------
(* The budget pool *)

FreshPool == [iters |-> 0, tokensOut |-> FALSE, graceUsed |-> FALSE]

Exhausted(p) == p.iters >= MaxIterations \/ p.tokensOut

\* consume(): iterations, and tokens that may reach the token budget.
Consumed(p, iterations, tokensOut) ==
    [iters |-> p.iters + iterations, tokensOut |-> p.tokensOut \/ tokensOut,
     graceUsed |-> p.graceUsed]

\* What the sub-agents of a batch may leave of the pool: they consume it, and
\* once it is exhausted one of them may take the grace iteration, which is
\* not charged if the model then fails.
PoolAfterSubagents(p) ==
    {q \in [iters : p.iters .. p.iters + SubagentSpend, tokensOut : BOOLEAN, graceUsed : BOOLEAN] :
        /\ p.tokensOut => q.tokensOut
        /\ q.tokensOut /\ ~p.tokensOut => q.iters > p.iters
        /\ p.graceUsed => q.graceUsed
        /\ q.graceUsed /\ ~p.graceUsed => Exhausted(q)}

-----------------------------------------------------------------------------
(* The conversation store *)

\* commit(): append the entries, and let the boundary be the latest.
Committed(entries, status, count) ==
    /\ log' = log \o entries
    /\ boundary' = [status |-> status, seq |-> run.seq,
                    batch |-> IF status = "awaiting_confirmation" THEN Len(log') ELSE 0,
                    count |-> count, snapshot |-> pool]

SettledWithoutBoundary ==
    /\ log' = [log EXCEPT ![boundary.batch] = "results"]
    /\ UNCHANGED boundary

\* resolve_pending(): the placeholders give way to the results of the decisions.
Settled ==
    /\ log' = [log EXCEPT ![boundary.batch] = "results"]
    /\ boundary' = [status |-> "iteration", seq |-> run.seq, batch |-> 0, count |-> 0,
                    snapshot |-> pool]

-----------------------------------------------------------------------------
(* The locals of run_loop *)

NoTxn == [entries |-> <<>>, status |-> "none", count |-> 0, reply |-> ""]

FreshRun ==
    [decision |-> "none", next |-> 0, seq |-> 0, base |-> 0, isGrace |-> FALSE, steps |-> 0,
     failures |-> 0, empties |-> 0, noProgress |-> 0, last |-> {}, repeats |-> 0,
     unproductive |-> 0, compactions |-> 0]

\* The run returns: its locals are gone.
Return(r) ==
    /\ pc' = "idle"
    /\ reply' = r
    /\ run' = FreshRun
    /\ pool' = FreshPool
    /\ calls' = <<>>
    /\ results' = <<>>
    /\ txn' = NoTxn
    /\ interrupted' = FALSE

NoRollback == conv

RolledBack == SubSeq(conv, 1, run.base)

\* A transaction is handed to the store; the answer is awaited.
Hand(entries, status, count, r) ==
    /\ pc' = "commit"
    /\ txn' = [entries |-> entries, status |-> status, count |-> count, reply |-> r]

-----------------------------------------------------------------------------
(* The caller *)

\* The caller commits the user's message; the engine does not.
Say ==
    /\ pc = "idle"
    /\ users < MaxUsers
    /\ ChatWhilePending \/ boundary.status # "awaiting_confirmation"
    /\ users' = users + 1
    /\ log' = IF log # <<>> /\ log[Len(log)] = "user" THEN log ELSE Append(log, "user")
    /\ boundary' = [status |-> "user", seq |-> boundary.seq + 1, batch |-> 0, count |-> 0,
                    snapshot |-> NoSnapshot]
    /\ conv' = log'
    /\ reply' = ""
    /\ UNCHANGED <<pc, pool, run, turnVars, interrupted, control, runs>>

\* A run on the thread as loaded, with a fresh tracker: with no decision, with
\* one for the pending batch, or with cancel, which rejects it.
Start(decision) ==
    /\ pc = "idle"
    /\ log # <<>>
    /\ runs < MaxRuns
    /\ runs' = runs + 1
    /\ pc' = "enter"
    /\ conv' = log
    /\ pool' = FreshPool
    /\ run' = [FreshRun EXCEPT !.decision = decision]
    /\ reply' = ""
    /\ UNCHANGED <<storeVars, turnVars, interrupted, control, users>>

\* request_interrupt(), at any time.
Interrupt ==
    /\ pc # "idle"
    /\ ~interrupted
    /\ interrupted' = TRUE
    /\ UNCHANGED <<storeVars, conv, pc, pool, run, turnVars, reply, envVars>>

-----------------------------------------------------------------------------
(* Entry and the modal gate *)

NotRestored(snapshot, p) == p

RestoredUnchecked(snapshot, p) == snapshot

Restored(snapshot, p) == IF snapshot = NoSnapshot THEN p ELSE snapshot

EnterWithoutGate ==
    /\ pc = "enter"
    /\ pool' = Restored(boundary.snapshot, pool)
    /\ run' = [run EXCEPT !.seq = boundary.seq, !.decision = "none"]
    /\ pc' = "top"
    /\ UNCHANGED <<storeVars, conv, turnVars, interrupted, reply, envVars>>

\* latest_boundary() has answered.
Enter ==
    /\ pc = "enter"
    /\ \/ /\ boundary.status = "awaiting_confirmation"
          /\ run.decision = "none"
          /\ Return("awaiting_confirmation")
       \/ /\ boundary.status = "awaiting_confirmation"
          /\ run.decision # "none"
          /\ pool' = Restored(boundary.snapshot, pool)
          /\ run' = [run EXCEPT !.seq = boundary.seq, !.next = 1]
          /\ pc' = "resolving"
          /\ UNCHANGED <<turnVars, interrupted, reply>>
       \/ /\ boundary.status # "awaiting_confirmation"
          /\ pool' = Restored(boundary.snapshot, pool)
          /\ run' = [run EXCEPT !.seq = boundary.seq, !.decision = "none"]
          /\ pc' = "top"
          /\ UNCHANGED <<turnVars, interrupted, reply>>
    /\ UNCHANGED <<storeVars, conv, envVars>>

\* control.resolve() has answered for one pending action; after the last the
\* placeholders of the in-memory conversation are replaced.
ControlAnswers ==
    /\ pc = "resolving"
    /\ IF run.next < boundary.count
         THEN /\ run' = [run EXCEPT !.next = @ + 1]
              /\ UNCHANGED <<pc, conv>>
         ELSE /\ run' = [run EXCEPT !.seq = @ + 1, !.next = 0]
              /\ conv' = [conv EXCEPT ![boundary.batch] = "results"]
              /\ pc' = "settle"
    /\ UNCHANGED <<storeVars, pool, turnVars, interrupted, reply, envVars>>

\* resolve_pending() has answered.
Settle ==
    /\ pc = "settle"
    /\ Settled
    /\ run' = [run EXCEPT !.decision = "none"]
    /\ pc' = "top"
    /\ UNCHANGED <<conv, pool, turnVars, interrupted, reply, envVars>>

-----------------------------------------------------------------------------
(* The top of an iteration *)

GraceForgotten(p) == p

GraceTaken(p) == [p EXCEPT !.graceUsed = TRUE]

Assemble(isGrace) ==
    /\ run' = [run EXCEPT !.isGrace = isGrace, !.compactions = 0]
    /\ pc' = "assembled"
    /\ UNCHANGED <<turnVars, interrupted, reply>>

Top ==
    /\ pc = "top"
    /\ \/ /\ interrupted
          /\ Return("interrupted")
       \/ /\ ~interrupted
          /\ Exhausted(pool)
          /\ ~pool.graceUsed
          /\ pool' = GraceTaken(pool)
          /\ Assemble(TRUE)
       \/ /\ ~interrupted
          /\ Exhausted(pool)
          /\ pool.graceUsed
          /\ Return("budget_exhausted")
       \/ /\ ~interrupted
          /\ ~Exhausted(pool)
          /\ run.steps >= StepLimit
          /\ Return("budget_exhausted")
       \/ /\ ~interrupted
          /\ ~Exhausted(pool)
          /\ run.steps < StepLimit
          /\ Assemble(FALSE)
          /\ UNCHANGED pool
    /\ UNCHANGED <<storeVars, conv, envVars>>

-----------------------------------------------------------------------------
(* Compaction *)

\* The prompt fits, or is too long and there is nothing left to summarise.
Proceed ==
    /\ pc = "assembled"
    /\ run' = [run EXCEPT !.base = Len(conv)]
    /\ pc' = "call"
    /\ UNCHANGED <<storeVars, conv, pool, turnVars, interrupted, reply, envVars>>

\* The prompt is too long.
CompactThrash ==
    /\ pc = "assembled"
    /\ run.compactions > CompactThrashLimit
    /\ Return("compaction_thrash")
    /\ UNCHANGED <<storeVars, conv, envVars>>

Compact ==
    /\ pc = "assembled"
    /\ run.compactions <= CompactThrashLimit
    /\ conv' = Append(conv, "summary")
    /\ pool' = Consumed(pool, 1, FALSE)
    /\ run' = [run EXCEPT !.seq = @ + 1]
    /\ pc' = "commit_summary"
    /\ UNCHANGED <<storeVars, turnVars, interrupted, reply, envVars>>

CommitSummary ==
    /\ pc = "commit_summary"
    /\ Committed(<<"summary">>, "iteration", 0)
    /\ run' = [run EXCEPT !.compactions = @ + 1]
    /\ pc' = "assembled"
    /\ UNCHANGED <<conv, pool, turnVars, interrupted, reply, envVars>>

-----------------------------------------------------------------------------
(* The model *)

\* All attempts failed.
ModelFails ==
    /\ pc = "call"
    /\ Return("model_error")
    /\ UNCHANGED <<storeVars, conv, envVars>>

\* The model answered: the call is charged, the message joins the conversation.
Answered(entry) ==
    /\ pc = "call"
    /\ \E tokensOut \in BOOLEAN : pool' = Consumed(pool, 1, tokensOut)
    /\ conv' = Append(conv, entry)

\* The last answer the budget allows ends the run, tool calls or not.
GraceTurn ==
    /\ run.isGrace
    /\ \E entry \in {"text", "calls"} :
          /\ Answered(entry)
          /\ Hand(<<entry>>, "completed", 0, "budget_exhausted")
    /\ run' = [run EXCEPT !.steps = @ + 1, !.seq = @ + 1]
    /\ UNCHANGED <<storeVars, calls, results, interrupted, reply, envVars>>

TextTurn ==
    /\ ~run.isGrace
    /\ Answered("text")
    /\ run' = [run EXCEPT !.steps = @ + 1, !.seq = @ + 1]
    /\ Hand(<<"text">>, "completed", 0, "completed")
    /\ UNCHANGED <<storeVars, calls, results, interrupted, reply, envVars>>

EmptyTurnUncharged ==
    /\ pc = "call"
    /\ ~run.isGrace
    /\ pc' = "top"
    /\ UNCHANGED <<storeVars, conv, pool, run, turnVars, interrupted, reply, envVars>>

\* Neither calls nor text: the message is taken back and the turn tried again.
EmptyTurn ==
    /\ pc = "call"
    /\ ~run.isGrace
    /\ conv' = RolledBack
    /\ \/ /\ run.empties = MaxEmpty
          /\ Return("empty_response")
       \/ /\ run.empties < MaxEmpty
          /\ \E tokensOut \in BOOLEAN : pool' = Consumed(pool, 1, tokensOut)
          /\ run' = [run EXCEPT !.steps = @ + 1, !.empties = @ + 1]
          /\ pc' = "top"
          /\ UNCHANGED <<turnVars, interrupted, reply>>
    /\ UNCHANGED <<storeVars, envVars>>

PlanOnly(turn) == \A i \in DOMAIN turn : turn[i] = PlanTool

SignatureOf(turn) ==
    {<<turn[i], Cardinality({j \in DOMAIN turn : turn[j] = turn[i]})>> : i \in DOMAIN turn}

\* The signatures seen last: the newest, and how often it came in a row.
Repeats(turn) == IF run.last = SignatureOf(turn) THEN run.repeats + 1 ELSE 1

\* Tool calls: the watchdogs look at the turn before anything runs.
ToolTurn(turn) ==
    LET idle == IF PlanOnly(turn) THEN run.noProgress + 1 ELSE 0
    IN  /\ pc = "call"
        /\ ~run.isGrace
        /\ \/ /\ idle > NoProgressLimit
              /\ conv' = RolledBack
              /\ Return("no_progress")
           \/ /\ idle <= NoProgressLimit
              /\ Repeats(turn) >= StallLimit
              /\ conv' = RolledBack
              /\ Return("stall")
           \/ /\ idle <= NoProgressLimit
              /\ Repeats(turn) < StallLimit
              /\ Answered("calls")
              /\ run' = [run EXCEPT !.steps = @ + 1, !.empties = 0, !.noProgress = idle,
                                    !.last = SignatureOf(turn), !.repeats = Repeats(turn)]
              /\ calls' = turn
              /\ pc' = "tools"
              /\ UNCHANGED <<results, txn, interrupted, reply>>
        /\ UNCHANGED <<storeVars, envVars>>

-----------------------------------------------------------------------------
(* The tool batch *)

\* What may become of a call.  An allowed one returns something useful,
\* nothing of use (a business error, a failed verification, no content), or
\* fails in the infrastructure.
ResultsOf(t) ==
    CASE VerdictOf[t] = "unknown" -> {"unknown"}
      [] VerdictOf[t] = "deny"    -> {"blocked"}
      [] VerdictOf[t] = "ask"     -> {IF control THEN "placeholder" ELSE "uncontrolled"}
      [] OTHER                    -> {"useful", "useless", "failed"}

Result == {"unknown", "blocked", "placeholder", "uncontrolled", "useful", "useless", "failed"}

Outcomes == {r \in [DOMAIN calls -> Result] : \A i \in DOMAIN calls : r[i] \in ResultsOf(calls[i])}

Holding(r, kinds) == {i \in DOMAIN r : r[i] \in kinds}

\* Two passes: unknown tools and uncontrolled asks count at once; then the
\* allowed calls in order, each failure counting and each execution clearing.
FailuresAfter(n, r) ==
    LET executed == Holding(r, {"useful", "useless"})
    IN  IF executed = {} THEN n + Cardinality(Holding(r, {"unknown", "uncontrolled", "failed"}))
        ELSE Cardinality({i \in Holding(r, {"failed"}) : \A j \in executed : j < i})

\* The batch is over: the calls that wait for the user first, then the
\* circuit breaker, then the watchdog for batches without a useful result.
BatchDone(r) ==
    LET failures == FailuresAfter(run.failures, r)
        asked == Holding(r, {"placeholder"})
        futile == IF Holding(r, {"useful"}) # {} THEN 0 ELSE run.unproductive + 1
        entry == IF asked # {} THEN "placeholders" ELSE "results"
        after == [run EXCEPT !.failures = failures, !.seq = @ + 1]
    IN  /\ results' = r
        /\ conv' = Append(conv, entry)
        /\ \/ /\ asked # {}
              /\ run' = after
              /\ Hand(<<"calls", entry>>, "awaiting_confirmation", Cardinality(asked),
                      "awaiting_confirmation")
           \/ /\ asked = {}
              /\ failures >= MaxToolFailures
              /\ run' = after
              /\ Hand(<<"calls", entry>>, "failed", 0, "tool_failures")
           \/ /\ asked = {}
              /\ failures < MaxToolFailures
              /\ futile < UnproductiveLimit
              /\ run' = [after EXCEPT !.unproductive = futile]
              /\ Hand(<<"calls", entry>>, "iteration", 0, "")

\* The batch is over, and the run with it.
BatchDropped(r) ==
    /\ conv' = RolledBack
    /\ \/ /\ interrupted
          /\ Return("interrupted")
       \/ /\ ~interrupted
          /\ Holding(r, {"placeholder", "useful"}) = {}
          /\ FailuresAfter(run.failures, r) < MaxToolFailures
          /\ run.unproductive + 1 >= UnproductiveLimit
          /\ Return("no_progress")

ToolsReturn ==
    /\ pc = "tools"
    /\ \E r \in Outcomes :
          \/ BatchDropped(r)
          \/ /\ ~interrupted
             /\ BatchDone(r)
             /\ \E q \in PoolAfterSubagents(pool) :
                   /\ Holding(r, {"useful", "useless", "failed"}) = {} => q = pool
                   /\ pool' = q
             /\ UNCHANGED <<calls, interrupted, reply>>
    /\ UNCHANGED <<storeVars, envVars>>

\* commit() has answered.
Commit ==
    /\ pc = "commit"
    /\ Committed(txn.entries, txn.status, txn.count)
    /\ \/ /\ txn.reply # ""
          /\ Return(txn.reply)
       \/ /\ txn.reply = ""
          /\ pc' = "top"
          /\ calls' = <<>>
          /\ results' = <<>>
          /\ txn' = NoTxn
          /\ UNCHANGED <<pool, run, interrupted, reply>>
    /\ UNCHANGED <<conv, envVars>>

-----------------------------------------------------------------------------
(* Failures *)

\* The store raises, before or after it has done its work.
PersistFails ==
    /\ pc \in {"enter", "settle", "commit_summary", "commit"}
    /\ \/ UNCHANGED storeVars
       \/ pc = "settle" /\ Settled
       \/ pc = "commit_summary" /\ Committed(<<"summary">>, "iteration", 0)
       \/ pc = "commit" /\ Committed(txn.entries, txn.status, txn.count)
    /\ Return("persist_error")
    /\ UNCHANGED <<conv, envVars>>

\* An exception that run_loop does not catch: from control.resolve, from the
\* assembler or the compactor, from the gate, freeze or the verifier.
Raises ==
    /\ pc \in {"resolving", "assembled", "tools"}
    /\ Return("raised")
    /\ UNCHANGED <<storeVars, conv, envVars>>

Crash ==
    /\ pc # "idle"
    /\ Return("lost")
    /\ UNCHANGED <<storeVars, conv, envVars>>

-----------------------------------------------------------------------------
Init ==
    /\ log = <<>>
    /\ boundary = [status |-> "none", seq |-> 0, batch |-> 0, count |-> 0,
                   snapshot |-> NoSnapshot]
    /\ conv = <<>>
    /\ pc = "idle"
    /\ pool = FreshPool
    /\ run = FreshRun
    /\ calls = <<>>
    /\ results = <<>>
    /\ txn = NoTxn
    /\ interrupted = FALSE
    /\ reply = ""
    /\ control \in WithControl
    /\ users = 0
    /\ runs = 0

\* What the event loop owes a run: its next step.
Progress ==
    \/ Enter \/ ControlAnswers \/ Settle \/ Top
    \/ Proceed \/ CompactThrash \/ Compact \/ CommitSummary
    \/ ModelFails \/ GraceTurn \/ TextTurn \/ EmptyTurn \/ (\E turn \in Turns : ToolTurn(turn))
    \/ ToolsReturn \/ Commit

Next ==
    \/ Say \/ (\E decision \in Decision : Start(decision)) \/ Interrupt
    \/ Progress
    \/ PersistFails \/ Raises \/ Crash

Spec == Init /\ [][Next]_vars

FairSpec == Spec /\ WF_vars(Progress)

-----------------------------------------------------------------------------
(* Properties *)

RunType ==
    [decision : Decision, next : Nat, seq : Nat, base : Nat, isGrace : BOOLEAN, steps : Nat,
     failures : Nat, empties : Nat, noProgress : Nat, last : Signature, repeats : Nat,
     unproductive : Nat, compactions : Nat]

TypeOK ==
    /\ log \in Seq(Entry)
    /\ boundary \in Boundary
    /\ conv \in Seq(Entry)
    /\ pc \in Stage
    /\ pool \in Pool
    /\ run \in RunType
    /\ calls \in Seq(Tool)
    /\ results \in Seq(Result)
    /\ txn \in Transaction
    /\ interrupted \in BOOLEAN
    /\ reply \in Reply
    /\ control \in BOOLEAN
    /\ users \in Nat
    /\ runs \in Nat

\* An iteration is a transaction: at the top of every iteration, and when the
\* run has returned, the conversation in memory is the committed one, however
\* the last iteration ended.  Only a failed store, an exception or a crash
\* leaves a tail.
Transactional ==
    \/ pc \in {"top", "assembled", "call"}
    \/ pc = "idle" /\ reply \notin {"persist_error", "raised", "lost"}
    => conv = log

\* The modal gate: the model never sees a conversation in which a control
\* action still waits for the user.
GateHolds ==
    pc = "call" => \A i \in DOMAIN conv : conv[i] # "placeholders"

\* A pending batch is left only by a decision the caller passed, and never
\* turns into anything but one settled iteration.
OnlyADecisionSettles ==
    [][boundary.status = "awaiting_confirmation" /\ boundary' # boundary
       => run.decision # "none" /\ boundary'.status = "iteration"]_vars

\* Resuming does not refund: what the model has added to the thread since the
\* user last spoke was paid from the pool the next run will be restored to.
Added(s) ==
    {i \in DOMAIN s :
        /\ s[i] \in {"text", "calls", "summary"}
        /\ \A j \in DOMAIN s : s[j] = "user" => j < i}

NoRefund ==
    boundary.snapshot # NoSnapshot => boundary.snapshot.iters >= Cardinality(Added(log))

\* However often a request is interrupted, suspended and resumed, its pool is
\* overdrawn by two iterations' worth at most: the one that exhausts it and
\* the grace iteration, each with all its compactions, and one batch of sub-agents.
Overdraft == 2 * (CompactThrashLimit + 2) - 1 + SubagentSpend

PoolBounded == pool.iters <= MaxIterations + Overdraft

\* Every run ends, whatever the model, the tools and the compactor answer.
Termination == pc # "idle" ~> pc = "idle"

\* The caller never commits a message over a pending batch.
NoChatWhilePending == ~ChatWhilePending

Awaiting == boundary.status = "awaiting_confirmation"

\* What the store, the conversation in memory and the sequence number owe each
\* other at each stage of a run.
StageAccounts ==
    /\ pc \in {"enter", "resolving", "top", "assembled", "call"} => conv = log
    /\ pc = "idle" /\ reply \notin {"persist_error", "raised", "lost"} => conv = log
    /\ pc = "settle" => conv = [log EXCEPT ![boundary.batch] = "results"]
    /\ pc = "commit_summary" => conv = log \o <<"summary">>
    /\ pc = "tools" => conv = Append(log, "calls")
    /\ pc = "commit" => conv = log \o txn.entries
    /\ pc \in {"call", "tools"} => run.base = Len(log)
    /\ pc \in {"resolving", "settle"} => Awaiting /\ run.decision # "none"
    /\ pc \in {"top", "assembled", "commit_summary", "call", "tools", "commit"} => ~Awaiting
    /\ pc \in {"resolving", "top", "assembled", "call", "tools"} => run.seq = boundary.seq
    /\ pc \in {"settle", "commit_summary", "commit"} => run.seq = boundary.seq + 1

\* What may be handed to the store, and how it marks a batch that waits.
TransactionAccounts ==
    /\ pc = "commit" =>
          \/ /\ txn.status = "awaiting_confirmation"
             /\ txn.entries = <<"calls", "placeholders">>
             /\ txn.reply # ""
          \/ /\ txn.status \in {"iteration", "completed", "failed"}
             /\ txn.entries \in {<<"text">>, <<"calls">>, <<"calls", "results">>}
    /\ Awaiting <=> boundary.batch # 0

\* The inductive invariant behind Transactional, OnlyADecisionSettles and the refinement.
EngineInv == StageAccounts /\ TransactionAccounts

\* A pool that was overdrawn by one iteration and its sub-agents, and, if the
\* grace iteration is gone, by that one too.
Overdrawn(p) ==
    /\ p.graceUsed => Exhausted(p)
    /\ p.iters <= MaxIterations + CompactThrashLimit + 1 + SubagentSpend
                  + IF p.graceUsed THEN CompactThrashLimit + 2 ELSE 0

\* What the iteration under way, with its k compactions, has charged.
Charged(k) ==
    /\ k <= CompactThrashLimit + 1
    /\ IF run.isGrace
         THEN /\ pool.graceUsed
              /\ pool.iters <= MaxIterations + CompactThrashLimit + 1 + SubagentSpend + k
         ELSE ~pool.graceUsed /\ pool.iters < MaxIterations + k

\* The inductive invariant behind PoolBounded.
PoolInv ==
    /\ Overdrawn(pool)
    /\ boundary.snapshot # NoSnapshot => Overdrawn(boundary.snapshot)
    /\ pc \in {"assembled", "call"} => Charged(run.compactions)
    /\ pc = "commit_summary" => Charged(run.compactions + 1)
    /\ pc = "tools" => ~pool.graceUsed /\ pool.iters <= MaxIterations + CompactThrashLimit + 1

\* The inductive invariant behind NoRefund: the pool is ahead of the thread by
\* what the transaction under way will add to it, and the batch that waits is
\* one of placeholders, whose settlement uncovers no earlier answer.
PaidInv ==
    /\ Awaiting => boundary.batch \in DOMAIN log /\ log[boundary.batch] = "placeholders"
    /\ Cardinality(Added(log)) <=
          IF boundary.snapshot = NoSnapshot THEN 0 ELSE boundary.snapshot.iters
    /\ pc \in {"resolving", "settle", "top", "assembled", "call"} =>
          Cardinality(Added(log)) <= pool.iters
    /\ pc \in {"commit_summary", "tools", "commit"} =>
          Cardinality(Added(log)) + 1 <= pool.iters

\* The engine and its store implement one conversation thread.
Thread == INSTANCE ConversationThread WITH seq <- boundary.seq, pending <- boundary.batch
ImplementsThread == Thread!TSpec
=============================================================================
