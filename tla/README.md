# Formal model of the park assistant harness

This directory keeps TLA+ specifications of the harness under `src/` (an LLM-agent
loop, the governed tools of a smart park, context assembly and retrieval), the TLC
configurations that check them, and TLAPS proofs. Paths below are relative to the
repository root (`src/...` in `PROJECT.json`).

## 1. Inventory

Everything runs in one asyncio event loop per process; several processes may share
Redis, Postgres and the park backend. "Awaits" are the only points where two
coroutines interleave.

| Component | Code | State | Operations | Talks to | Hard behaviour | What makes it correct |
|---|---|---|---|---|---|---|
| Control capability | `agent_tools/proposal_control.py`, `proposal.py` | proposals by handle, in-process result dict, ledger rows | put, freeze, resolve(approve / reject) | ledger, device backend, turn engine | concurrent confirmations, crash between send and record, ledger errors, expiry | at most one device command per proposal; truthful answers; session isolation |
| Idempotency ledger | `agent_loop/pg_store.py` | `agentloop_idem` rows | get, put_if_absent, update (CAS) | Postgres | lost answers, stale reads | a claimed row is owned by one call; done is final |
| Turn engine | `agent_loop/loop.py`, `runcontrol.py` | in-memory conversation, watchdog counters, interrupt flag | run_loop | store, model, tools, gate, control, compactor | interrupts, every collaborator failing, modal gate, rollback | iterations are transactions; the gate closes; every run ends |
| Budget pool | `agent_loop/budget.py` | iterations, tokens, grace flag | consume, exhausted, use_grace, snapshot, restore | engine and sub-agents share one instance | sharing, resumption | bounded overdraft; no refund by resuming |
| Conversation stores | `agent_loop/conversation.py`, `redis_store.py`, `audited_store.py`, `codec.py` | message log, boundaries | load, commit, latest_boundary, resolve_pending | engine, server | torn writes, TTL, audit after commit, read-modify-write | all-or-nothing transactions, monotone boundary |
| Tool dispatch | `agent_loop/dispatch.py`, `verify.py`, `tools.py`, `gate.py` | none across calls | execute_one, verify, classify | tools | timeout, retry of what already took effect | what the model is told agrees with what was done |
| Sub-agents | `agent_loop/subagent.py` | temporary store, shared pool and interrupt | handler | nested engine | depth, shared budget, result mapping | an unfinished sub-task is never reported as done |
| Repair, plan, history, compaction | `agent_loop/repair.py`, `plan.py`, `agent_context/history.py`, `compactor.py`, `plan_view.py` | pure | repair, derive_plan, trim, drop_answered, select span | engine, assembler | call/answer pairing across cuts | the prompt is a legal sequence |
| Context and memory | `agent_context/assembler.py`, `memory.py`, `knowledge.py`, `system_prompt.py` | memory items | recall, store, scrub | engine | ranking, scrubbing markers | nothing of another user is recalled |
| Grounding and proposal | `agent_tools/propose.py`, `grounding.py` | none | ground_control, door branch | backend, proposal store | ambiguous requests | no payload without one device, one parameter, one value |
| Permissions | `agent_tools/catalog.py`, `gate.py`, `identity.py`, `loader.py`, `composition.py` | login state | select_toolset, classify | engine | visibility against denial | what is invisible is also denied |
| Domain tools, backend client | `agent_tools/domains/`, `backend.py` | HTTP session | requests | park backend | several requests, some of which may fail; lookup by name in several systems | nothing is missed, nothing is mistaken for the only one |
| Postgres schema and audit | `agent_loop/pg_store.py` | pool, schema flag | ensure_schema, append, aclose | Postgres | double-checked creation | one creation; no use after close |
| Demo server | `scripts/demo_server.py`, `demo_static/app.js` | store, runtime, persona, lock; cards and side bar of the page | chat, confirm, reset, identity, token, streaming, proposal clean-up | engine | lock released before the stream, polling of a task that commits, stale cards | only what the user approved is carried out, and the page shows what happened |
| Retrieval | `harness_rag/` | none across queries | retrieve, rerank, rewrite, promote, expand, render | Milvus, model | degradation, repair round | evidence passes the filter of its caller and repeats nothing |
| Milvus client | `harness_rag/milvus/` | semaphore, threads, loaded collections, lock | run, load, search | Milvus | cancellation of a search that runs, concurrent first searches | permits balance; one load |

`PROJECT.json` lists the same components with their status, and the hazards line by line.

## 2. Modules

| Module | Models | Role |
|---|---|---|
| `Actuator` | — | abstract: a command leaves only for an approved, reversible proposal whose earlier commands are all known to have failed |
| `ControlCapability` | `ProposalControlCapability`, both proposal stores, the ledgers | detailed; implements `Actuator` |
| `ControlCapability_proofs` | — | theorems about it |
| `ConversationThread` | — | abstract: a log that grows by whole transactions, and stops at placeholders until one transaction settles them |
| `RunLoop` | `run_loop`, `BudgetTracker`, the in-memory store, `RunControl` | detailed; implements `ConversationThread` |
| `RunLoop_proofs` | — | theorems about it |
| `SessionStore` | `RedisConversationStore`, `AuditedConversationStore`, the audit insertion | detailed; implements `ConversationThread` where nothing expires |
| `SessionStore_proofs` | — | theorems about it |
| `DemoServer` | `demo_server.py` and the page | detailed, the engine reduced to what it commits |
| `DemoServer_proofs` | — | theorems about it |
| `ContextView` | `assembler.py`, `history.py`, `compactor.py`, `plan_view.py`, `plan.py`, `repair.py` | detailed, the engine reduced to what it appends |
| `ContextView_proofs` | — | theorems about it |
| `Governance` | `catalog.py`, `gate.py`, `identity.py`, `loader.py` | operators |
| `Grounding` | `grounding.py` | operators, with the reference definition `Legal` |
| `MilvusExecutor` | `milvus/executor.py`, `milvus/client.py` | detailed |
| `MilvusExecutor_proofs` | — | theorems about it |
| `KnowledgeRetrieval` | `service.py` and the modules it calls | a query as actions over `MilvusExecutor` |
| `Subsequences` | — | helper: the part of a sequence that stands at a set of places |
| `Subsequences_proofs` | — | lemmas about it, for `ContextView_proofs` and `ToolBatch_proofs` |
| `ToolBatch` | `dispatch.py`, `propose.py`, `proposal.py`, `backend.py`, the domain tools | composition of `KnowledgeRetrieval`, `Grounding` and `Governance` |
| `ToolBatch_proofs` | — | theorems about it, about `Grounding`, and about `KnowledgeRetrieval` inside it |
| `MCControlCapability`, `MCRunLoop`, `MCDemoServer`, `MCContextView`, `MCToolBatch` | — | instances for TLC; `SessionStore` needs none |

### ControlCapability

A `resolve()` call is a small program counter `pc[c]`; each action is the code between
two awaits. The stages in `AtLedger` are the awaited ledger operations, those in `Local`
the synchronous segments that follow. `Approve` runs up to the first await: with a ledger
that is the ledger read, without one the checks of the in-process dict run in the same
step and the first await is the send. `Read`, `Judge`, `Claim`, `Rejudge`, `Send`,
`Record` and `Finish` follow the code in order; `End` is a return together with the pop of
the proposal where the code pops it. `LedgerRaises` lets any ledger operation raise before
or after it took effect. `Crash` ends the calls of one instance, and takes proposals and
the dict with it where they are in-process.

* The idempotency key is a hash of handle, action and parameters; a stored proposal never
  changes, so the key is the handle.
* `deployment` is chosen by `Init`: the ledger (`memory`: none injected; `pg`:
  `PgIdempotencyLedger`, whose `get` returns no status; `status`: a ledger that returns
  the status, as `tests/test_agent_tools_control_exec.py:255` assumes), in-process or
  Redis proposals, and whether the caller serialises confirmations.
* `approved`, `attempts` and `failures` are history variables, the variables of `Actuator`.
* Not modelled: the read-back text after a send, the token, `simulated` mode (it sends
  nothing).

### RunLoop

`run_loop` is cut at its awaits; `pc` names the await or the loop position. `run` holds the
locals, `pool` the `BudgetTracker`, `txn` what is being committed and how the run ends after
it. The conversation is a sequence of entries (user message, text, calls, results,
placeholders, summary), one per role and commit; consecutive user messages are one entry
because `repair_messages` merges them. The model answers any turn of `Turns`, text or
nothing; a tool call becomes one of the kinds the watchdogs tell apart; sub-agents consume
any amount up to `SubagentSpend` and may take the grace iteration; the store may raise
before or after it has worked; `control.resolve`, the assembler, the compactor, the gate
and the verifier may raise out of the loop. The caller (`Say`, `Start`) follows the demo
server, except that it starts one run at a time on the thread: concurrent streams belong to
a later module.

* `WithControl` and `ChatWhilePending` select what is checked: with or without a control
  capability; whether the caller may commit a user message over a pending batch.
* Not modelled here: token counts (only whether the token budget is reached), the nudge
  texts, the model's retry delays, what a sub-agent's own conversation holds.

### SessionStore

One thread. The two Redis lists are `messages` and `boundary` (only the last boundary is
ever read), `ttl` says which of the two keys has a time to live, `audit` is the Postgres
log. A write is `writer.at`, one stage per command: the EXEC (`Pushed`, `Rewritten`), the
EXPIRE or PERSIST of each key, the audit row. `Fail` lets any command raise, carried out or
not; `Audit` decides whether the engine sees the error (`Mandatory`); `Crash` ends writer
and reader anywhere; `Expire` removes a key that has a time to live at any moment, since
time is not modelled. A load is `Load`, `Peek`, `Refresh`.

* Writes come one at a time, as the docstring of `resolve_pending` assumes, and each takes
  its number from the latest boundary: the server does so before a user message, and
  within a run the engine's own count is the same as long as nothing expired. What becomes
  of two writers on one thread belongs to the server module.
* The caller commits no message over a pending batch; `RunLoop` shows what happens if it
  does.
* `Overlap`: may a load run while a write does? The stream that watches a run polls the
  store. `RunLoop` needs nothing of this: it composes with the store through
  `ConversationThread`, which both implement.
* `config`: with or without a TTL and refresh on read; chosen by `Init`.
* Not modelled: the JSON codec, the plan derived by `load`, closing.

### DemoServer

Any number of pages over one server. A request handler awaits nothing that suspends, so
`ApiChat`, `ApproveCard`, `CancelCard`, `ApiReset`, `ApiIdentity` and `ApiToken` are one step
each, the code of the page (`app.js`) that decides whether the button is there included.
What a request starts is two things: the task (`run[t]`: `StartRun`, `ResolveNext`, `Settle`,
one action per kind of committed iteration) and the generator that polls the store
(`stream[t]`: `Poll`, `FlushTail`, `Close`). `generation` counts the replacements of store and
runtime by a reset; a task keeps the ones it was given, which is what
`_stream_run_loop_events` passes on.

* The engine is reduced to what it commits, with the proposals it adds and takes; `RunLoop`
  has everything else. The last boundary is read when the task starts, not when the
  request is prepared.
* Messages are records of a kind and a number (call id, number of calls or plan version).
  `PlanSignature` and `ProjectPlan` are the counting of finished and started actions of
  `_project_plan_state`.
* `clicked` is a history variable: the call ids whose card was approved.

### ContextView

Messages are objects. `object` holds them by reference, `log` is the list of the in-memory
store, `conv` the list of the run; both hold references, because `load` copies the list and
not the messages. Every operator (`RepairMessages`, `DropAnsweredToolResults`,
`TrimDialogueTurns`, `ExcludePlanCalls`, `ApplyCompactionView`, `DerivePlan`, `Assemble`)
is the function of that name; `MergedInPlace` is the assignment to `.content` in
`repair_messages`. `Prepare`, `Compact`, `Thrash` and `Send` are the stages of the top of an
iteration; the other actions are what a run can append.

* A text is the set of the inputs in it: the number of a request, the reference of an answer,
  `Nudge`. Merging takes unions; an empty set is an empty content.
* The views are what is picked of a list at a set of places (`Picked`), because every loop of
  `history.py`, `plan_view.py` and `repair.py` keeps, drops or rewrites messages in their order.
  `StepAt`, `Middle` and `MayRemain` are the arithmetic on `_step_starts`.
* How long a prompt is depends on wording, so whether it is too long is open, and the recent
  steps of a compaction are any number that the budget could leave (`RecentSteps`).
* Not modelled: knowledge blocks and the long-term memory (the demo injects neither), the
  text of the fixed layer, images.

### Governance, Grounding, ToolBatch

`ToolBatch` is one answer of the model with several tool calls, then another one, and the
confirmation of what was held back. `session` says who logged in, where proposals are kept and
what the model may ask; `permissions` is what `Login` made of the codes of the backend, or
nothing if the backend did not answer. `AskTools` is the first pass of the loop over the batch
(unknown tool, verdict of the gate, freezing), the actions of a caller are `execute_one` with
its time-out and its retry, and the handlers cut at their requests. `call[c]` is where the call
is, `todo` the requests that are left, `hits` the devices found.

* The proposal store is four variables, since Redis keeps four keys that fail and expire
  apart: every proposal ever written, those that still live, the index for `items()`, and the
  handles of the thread (a set: the latest of a list is its largest handle). `PutSome` is `put` up to
  the command that failed.
* `facility_agent` is modelled by one call of one of its leaves, which meets the gate of the
  nested loop (`LeafTaken`), and by its outcomes; its own loop is `RunLoop`.
* A tool whose arguments play no part is called without any; `Plain` are the names of such calls.
* A word is an element of `Word`; the name of a device or a parameter is the set of the words
  it contains, `Number` what `float()` makes of a word.
* `Legal` is not code: it says what a write may be, without saying how it is found, and
  `ProposalGrounded` compares what the rules of `grounding.py` found with it.
* Not modelled: argument validation, output budgets, wording, time windows, HTTP.

### MilvusExecutor, KnowledgeRetrieval

`MilvusExecutor` has the callers on the event loop (`Submit`, `Resume`, `Cancel`) and the
threads of the pool (`Take`, `Check`, `Enter`, `Load`, `LoadFails`, `Search`). A caller that is
cancelled gives its permit back, while a search that has started goes on for `Nobody`.
`KnowledgeRetrieval` cuts a query at its searches and model calls; every failure on the way has
the effect the code gives it (`Failed`): the first search ends the query, one of the repair
round gives the round up, the one for the parent blocks leaves the chunks. Scores are reduced
to what the two thresholds tell apart. Filtering, ranking, removing duplicates and rendering all
leave out some places of a sequence and keep the order of the rest, so each is one use of `Picked`
(module `Subsequences`) with the set of places it keeps; that makes them provable without
recursion.

* Not modelled: focus terms, traces, the dense-only search, closing the client.

## 3. Runs

| Run | Expectation | What it shows |
|---|---|---|
| `control_ledger` | pass | with a ledger (and in-process, one at a time): at-most-once, write-ahead, single owner, session isolation, truthful answers, finality of "done", and the refinement of `Actuator` |
| `control_pg_expired` | violation of `ExpiredMeansNotSent` | with the Postgres ledger a repeated confirmation is told to start over although the command was sent |
| `run_loop` | pass | transactions, bounded overdraft, the pending batch is left only by a decision, refinement of `ConversationThread` |
| `run_loop_ends` | pass | every run ends; resuming refunds nothing |
| `run_loop_chat` | violation of `GateHolds` | a chat message over a pending batch lets the model run past the modal gate |
| `session_store` | pass | with a failure, crash or expiry at every command: the Redis store is a conversation thread where nothing expires; acknowledged suspensions and settlements are audited, in order; a thread expires only while it waits for the user |
| `demo_server` | pass | with one page: the proposals of an open confirmation survive the clean-up, only an approved card is carried out, every committed message is shown, the side bar never steps back, every request ends |
| `context` | pass | the derived prompt is a legal sequence, shows the work of the current task, keeps placeholders, and holds one summary at most |
| `context_read_only` | violation of `AssembleReadsOnly` | assembling a prompt writes to a message of the log |
| `context_grace` | violation of `EveryCallAnswered` | after a grace turn the model is shown a call without an answer |
| `tools` | pass | controls come about only for somebody entitled, proposals are legal writes, reports agree with the proposal store, evidence passes its filter, a device is found wherever it is, the executor neither leaks nor loads twice |
| `tools_target` | violation of `UniqueTarget` | the only hit of the first system is taken, although a device of another system has exactly that name |

`CHECK_DEADLOCK FALSE` everywhere: handles, calls, users and runs are bounded, so an
instance stops when they are used up.

### Bounds

* Control: three handles (two reversible of session `a`, one irreversible without a
  session id), two sessions, two `resolve` calls (each property concerns one proposal and
  at most two calls that touch it at once; the proofs cover any number), two pending
  actions, one crash. Calls are interchangeable, hence the symmetry.
* Engine: an iteration limit of 3 reaches exhaustion both by the model and by
  compaction; `StepLimit` 3 lets the watchdogs with limit 3 fire; failures limit 2 needs two
  failures; `CompactThrashLimit` 2 is the code's value; three runs allow suspend, resume and
  one more; the batches of `MCTurns` cover each verdict alone and the pairs in which the
  order or the two passes matter. The runs with two requests use smaller limits.
* Store: five writes give user message, suspension and settlement, and two more with
  failures in between; the invariants relate one write to what is there already, and the
  proofs cover any number.
* Demo: one page, `MaxRequests` 4 (chat, confirm, and two more against a stale or a double
  card), `MaxCommits` 3 before a run of the thread has to end, one reset, one change of
  identity or token. Plans have two steps.
* Context: one dialogue turn kept at each end (`KeepFirst`, `KeepRecent`; the code has 1 and
  8, configurable), so that three requests suffice to trim; nine objects hold a compaction
  with a middle and a second one after it.
* Tools: two callers, two threads and one permit, so that a search waits, is refused, and
  outlives its caller; two batches, the second of which meets the proposals of the first; one
  retry is the code's value. `MCToolBatch` lists the sessions: searching, every way a control
  may be resolved, controlling with Redis and in memory, and two principals who may not
  control. The devices are chosen so that names contain one another within a system and
  across systems; the dictionary has a read-only double, a half-open range, a disabled state, a
  row without anything to check, and one on the denylist. The word "nan" is left out; see
  section 5.
* `MaxUsers`, `MaxRuns`, `MaxCrashes`, `MaxPending`, `SubagentSpend`, `MaxRequests`,
  `MaxCommits`, `MaxResets`, `MaxSwitches` and `MaxObjects` bound the instance, not the program.

### Fairness

`FairSpec` of `RunLoop` asks weak fairness of `Progress`, one step of the run in progress:
asyncio resumes a coroutine whose await has completed, the model call ends (its retries are
bounded), and store and tools answer or time out. Nothing is assumed of the caller, of
interrupts, or of which answer comes. The demo's in-process store and dispatcher time-outs
justify it; a store that never answers would not.

`DemoServer` asks weak fairness of each task and of the end of each generator
(`FlushTail`, `Close`), for the same reason; that a task ends at all is `Termination` of
`RunLoop`, here `MaxCommits` with `TurnGiveUp`, the exits without a commit. A round of polling
is not assumed to happen: what is committed between the last round and the end is shown by
the tail.

## 4. Proofs

`ControlCapability_proofs` proves, for every set of handles, sessions, calls and
deployments:

* `TypeCorrect`, `SafeThreadIsolation`, `SafeWriteAhead`, `SafeOneOwner` and `SafeDoneIsFinal`
  without further assumption;
* `SafeAtMostOnce`, `SafeHonestReport` and `Refinement` when a deployment without a ledger
  confirms one at a time and keeps its proposals in the same process (`DictIsAlone`). Without
  that they are false: two confirmations both read the dict before either writes it, and
  a proposal that survives a crash in Redis finds the dict empty;
* `SafeExpiredMeansNotSent` when confirmations are made one at a time only over a ledger that
  shows its status (`SerialShowsStatus`). Over the Postgres ledger it is false; this is
  finding 1.

The inductive invariant is `CapabilityInv`. `AtMostOnce` alone is not inductive: it says nothing
of a call that is about to send. For a ledger, `Accounts` has what is missing. `RowAccounts` says
what a row's status implies of the commands sent and failed; `CallAccounts` says what a call
under way may rely on (its row is in flight from claim to record, and no command is
outstanding before its own); `OneOwner` keeps two calls from relying on it at once; `PgRow` that a
row of the Postgres ledger is claimed only once, since a status is never read back. `Reports`
adds what an answer rests on: a call that has read "done" or recorded it reports a row that is
done still, which is where `DoneIsFinal` enters `HonestReport`. Without a ledger
(`DictAccounts`) the proposal itself is what is claimed: it is sent while it is in the store,
and popped before the next confirmation. `Alone` says that a serialised call has read the
status that its row still has. The refinement maps the history variables identically; only
`Approve`, `Send` and a record of failure are steps of `Actuator`.

`RunLoop_proofs` proves, for every tool set, gate, limits and number of runs and users:

* `TypeCorrect`, `SafeTransactional`, `SafePoolBounded` and `SafeNoRefund` without further
  assumption;
* `SafeOnlyADecisionSettles` and `Refinement` when the caller commits no message over a
  pending batch (`NoChatWhilePending`). With such messages both are false: the batch is
  then left by the message (finding 2).

`TypeInv` adds to the types that a rollback cuts inside the conversation. `EngineInv` says,
for each stage of a run, what the conversation in memory is in terms of the committed log
(equal to it, longer by the summary, by the calls, or by the transaction being handed over,
or equal to it with the settled batch), that the sequence number runs ahead of the boundary
by one exactly while a transaction is being committed, that stages after the gate exclude a
pending batch, and which transactions can be handed over. `Transactional` is one line of
it; the refinement needs all of them, because an abstract transaction must carry exactly
the entries and the next number. `PoolInv` counts what one iteration may have charged
(`Charged`: its compactions, then one model call), so that a pool that goes back to the top
is overdrawn by one iteration, its sub-agents and, with the grace flag gone, one more
iteration (`Overdrawn`); the snapshot of every boundary satisfies the same bound, which is
what makes it survive suspensions and resumptions. `PaidInv` is the other side of the account:
what the pool has charged covers the model messages of the request in the conversation, those of
the transaction being handed over included, and every boundary's snapshot covers those of the
log up to it; `NoRefund` is its last line.

`SessionStore_proofs` proves, for any number of writes:

* `TypeCorrect`, `SafeControlAudited`, `SafeAuditOrdered` and `Refinement` without further
  assumption (the last two speak of stores without a TTL);
* `SafeTtlFollowsStatus` when no load overlaps a write; with overlap it is false: a load that
  read the old boundary puts the TTL back (`redis_store.py:186`).

`StoreInv` is the inductive invariant. `CommandAccounts` says what can be under way, so a
commit never adds an empty list. `WriteAccounts` says that a write that has not reached its
EXEC is numbered one above the boundary and finds the batch it came for, its snapshot
included: this is what makes `Rewritten` a settlement of the thread. `AuditAccounts` keeps
every row below the number of the write under way, so an appended row is the largest.
`TtlAccounts` follows the two commands on the keys: after the first, one key is right, after
the second, both, and it stays so until the next write, whatever expires meanwhile.

`MilvusExecutor_proofs` proves `ExecutorTypeCorrect`, `SafePermitsBalanced` and
`SafeLoadedOnce` of the executor by itself, for any number of callers, threads and permits.
Neither property is inductive alone. `PermitsBalanced` needs `OneSearchEach`: a caller that waits
has one search at most, in the queue or in a thread, so the end of a search completes one
caller that still waits, and a cancelled one leaves nobody behind that would complete it later.
`LoadedOnce` needs `LockAccounts`: the lock is held exactly by the thread that loads, and while
one loads, nothing is loaded yet.

`DemoServer_proofs` proves, for every number of requests, resets, changes of identity and
commits:

* `TypeCorrect`, `SafeExecutedWasApproved`, `SafeEveryMessageShown` and the action property
  `SafePlanForward` for any number of pages;
* `SafeAwaitedKept` for one page. With two it is false: the generator of the first page, when it
  closes, collects the proposals the second page waits for (section 5).

`Typed` is `TypeOK` with one thing more: the call ids of every card, of a batch that waits or of
a page, were given out already. `ExecutedWasApproved` says nothing of a task that has not written
its outcomes yet, so `ApprovalInv` follows the decision: a task approves no card but a clicked
one, and what it reports as executed was clicked. `ShownInv` says where a message of a run is
while its stream polls: shown already, or beyond the position the stream has read to; a stream that
is closing has an ended task and nothing left, and that is `EveryMessageShown`. `PlanInv` adds
`Versions` (a version names one plan of the log) and `SideBar` (the plan a stream shows is in the
log it reads, and no more steps are shown as finished than were finished after it); what is done after
a plan stays done, because logs only grow, but for placeholders that turn into outcomes.
`WaitInv` relates a batch that waits to what is registered: a task that is past the batch finds
the thread not waiting, so that the clean-up at its end cannot remove anything the user is asked
about; and while the thread waits and nobody resolves, its proposals are there. The first half is
what a second page breaks.

`ToolBatch_proofs` begins with the rules of grounding, without any state machine: `GroundedIsLegal`, what
grounding lets through is a legal write for every dictionary, denylist and choice of
words, provided the value is not the word "nan"; and `ControllableBeforeReadOnly`, a word that
names a controllable row never means a read-only one of the same name. The least index comes
from the well-foundedness of the naturals. `SafeProposalGrounded` rests on the first.

About the turns it proves, for every catalog of users and policies, every dictionary, every number of
systems, devices, callers, threads and permits, and every sequence of batches:

* `ToolTypeCorrect`, `SafeOnlyPermitted`, `SafeReportMatchesStore`, `SafeFoundWherever` and
  `SafeEvidenceSound` without further assumption;
* `SafeProposalGrounded` where no word reads as "nan" (`NoNaN`); with one it is false (section 5), and
  the dictionary of the run has none;
* `ImplementsExecutor`: every behaviour of the turns is one of `MilvusExecutor`, hence
  `ToolsPermitsBalanced` and `ToolsLoadedOnce` follow from the theorems about the executor.

The inductive invariant is `ToolInv`. `SessionInv` fixes who is logged in: permissions are what the
login of that user can give and do not change within a turn. `CallInv` ties the place of a call to
what the gate said of it: a call that has left `told` was let through, and so was the leaf of an
agent's call; that is what a handler that registers a proposal relies on, since it asks nothing
itself, and `Entitled` follows. For `FoundWherever` it adds which systems are still to be asked:
those no longer in `todo` have been asked and have nothing. `StoreInv` adds that a proposal was
lawful when it was written (`AllLawful`, by `GroundedIsLegal`), and for `ReportMatchesStore`
that in memory a caller has a proposal of this batch only once it was told so (`ReportOK` speaks of
callers that are still under way, of which the property says nothing), that a registered handle
leaves thread and index no earlier than it expires (`Pop` happens in `Settle` only), and
that no handle is written a second time, so that what was settled stays out (`SettledOut`).
`RetrievalInv` says that of the hits, the first ranking and both tiers of every query, at every stage,
that they are within the filter and the clearance of the caller, that the two tiers together
repeat nothing, and that each is within its cut. It needs `ToolInv`, since a call that starts a
query must be where the gate let it be.

`Subsequences_proofs` states what both need of a list picked at a set of places: it has the size of
that set, comes from those places and keeps their order (`PickedFacts`; the proof enumerates a
finite set of naturals by rank), every place comes up (`PlaceRank`), and what is picked of two
lists, one behind the other, is what is picked of each (`PickedConcat`).

`ContextView_proofs` proves, for every set of tools and batches, every threshold, and threads of
every length, with any number of compactions and confirmations:

* `TypeCorrect`, `SafePromptLegal`, `SafeCurrentWorkKept`, `SafePlaceholderKept` and
  `SafeOneSummary`, from the inductive invariant `ViewInv` (`ViewInvariant`). The assumptions are
  that no tool has the name under which compactions are logged, that a turn that calls tools calls
  at least one, and that trimming keeps a turn at each end.

None of the four properties is inductive: they speak of a prompt, and a prompt is only as good as the
log it is derived from, with all the compactions and confirmations that are in it. `ViewInv` has
three parts.

* `ThreadInv`, of the log: objects fit each other (`Heap`: a message with the number of a call has
  the tool of that call, whoever holds a copy); calls and answers belong together (`Whole`: every
  result stands in the step of its call, and every call but that of a grace turn has its result);
  and the compactions of the log are `Fitting`: the number of recent steps each one recorded
  is one that may remain at its place, and what it stands for holds no placeholder. The last is
  said of `MergedLog`, the log with adjacent users merged, since that is the list on which
  `select_compaction_span` counted steps. It survives because the merged log only grows at its
  end, and a confirmation changes nothing that is counted (`SimilarMerged`).
* `RunInv`, of the run: the conversation is the log, merged or not, at the top of an iteration and
  the merged log afterwards; the prompt is `Legal` and shows everything that is `Due`.
* `CounterInv`: the ranges of the counters.

The lemmas go stage by stage. `PickedWhole` and `ConcatWhole` say when picking and joining keep
calls with their answers; `ApplySound`, `DropSound`, `ExcludeSound`, `TrimSound` and `RepairLegal`
say it of the five views, together with what each leaves of compactions, summaries and results, and
`AssembleLegal` of their composition. The order of the stages matters in one place: `DropSound`
needs the answers of the model as they were spoken (`Behind`), hence it comes before
`ExcludeSound`; in the other order the lemma is false, and so is `CurrentWorkKept` (section 5).
`InPlace` and `SameThread` account for the merge that writes to the shared objects: what is
written are texts of users, on which nothing above depends.

Model-checked only: `Termination` and `RequestsEnd` (liveness under fairness is out of the prover's
reach).

## 5. Findings

`PROJECT.json` quotes the code and the sentence it contradicts; each has a violation run.

1. `control_pg_expired`: `PgIdempotencyLedger.get` drops the status `resolve` decides on
   (`pg_store.py:124`).
2. `run_loop_chat`: a chat message over a pending confirmation bypasses the modal gate
   (`loop.py:153`).
3. `context_grace`: the grace turn may commit unanswered tool calls, which the next request
   sends to the provider (`loop.py:282`).
4. `context_read_only`: assembling a prompt writes to messages of the log (`assembler.py:132`).
5. `tools_target`: the lookup by name stops at the first system with a hit, and the check for
   an exact name is made only among several hits (`propose.py:47`).

Seen with the models, without a run of its own:

* without a ledger, two confirmations in one process both send (`proposal_control.py:100`
  reads the dict, 144 writes it, the send is between them);
* an approval that ended in a ledger error after the command, then a rejection: the answer is
  "not executed" (`proposal_control.py:86`);
* a load that overlaps a settlement puts the TTL back on an active thread
  (`redis_store.py:186`);
* with two pages open, the end of the first stream collects the proposals of the second run, so
  `AwaitedKept` fails, and commits of two runs carry the same numbers
  (`demo_server.py:717`, `801-814`); set `Tab = {t1, t2}` in `demo_server.cfg` to see it;
* a control is confirmed under whatever identity is selected at that moment
  (`demo_server.py:734`);
* the order of dropping results and excluding plan calls matters, although
  `assembler.py:13-14` and `history.py:16` say it does not: the mutant `ReducedPlanFirst` hides
  results of the current task, because talk beside a plan call becomes an answer;
* "nan" passes both comparisons with the bounds (`grounding.py:128-133`); this is the assumption of
  `GroundedIsLegal`;
* a block that several chunks share uses up slots of the first tier's cut
  (`evidence.py:214-216`) before it is skipped (233);
* the executor bounds the callers that wait, not the searches that run (`executor.py:17`): a
  cancelled caller's search still occupies a thread.

## 6. Not modelled

* Long-term memory, knowledge blocks, wording of prompts: optional or pure text.
* `PgControlCapability`, which only tests use; the double-checked creation of the schema;
  closing of pools and clients; the JSON codec.
* Argument validation, output budgets, the text of the verifier, time windows, formatting.
* A page that is reloaded or disconnects, exceptions that escape `run_loop` in the stream,
  progress lines, the cleaning of answers, the access password.
* Depth of nested sub-agents (the demo nests one level) and the wording of their results.
* Providers, settings, test doubles, HTTP: I/O without state of the program.

## 7. Plan

Worth doing next, in this order:

1. Action properties of the thread in `ContextView`: what a step may change of the log (only the
   settlement of placeholders, in place), and that a compaction never makes the log shorter.
2. The lost update of `resolve_pending` in Redis (`redis_store.py:225`): a commit between the
   read of the list and its rewriting, with the assumption under which it cannot happen.
3. The rejection after an approval that failed at the ledger (`proposal_control.py:86`), as a
   theorem about what `HonestReport` may claim there.
