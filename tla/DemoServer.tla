----------------------------- MODULE DemoServer -----------------------------
(***************************************************************************)
(* The demo: browser tabs (demo_static/app.js) over one server process     *)
(* (demo_server.py).  The server keeps one thread in an in-memory store, a *)
(* runtime with the registered proposals, and the persona and token of     *)
(* whoever talks next.  A request is prepared under a lock; what it asked  *)
(* for runs afterwards, as a task whose commits a generator polls and      *)
(* turns into events.  /api/reset replaces store and runtime: generation   *)
(* counts these replacements, and a task keeps the ones it was given.      *)
(*                                                                         *)
(* The engine is reduced to what it commits (RunLoop has the details); one *)
(* iteration is one step, since the store and the proposals are only       *)
(* touched between two awaits.  A request handler does not await anything  *)
(* that suspends, so it is one step too.                                   *)
(***************************************************************************)
EXTENDS Integers, Sequences, FiniteSets, SequencesExt

CONSTANTS
    Tab,          \* the open pages
    Persona,      \* the identities of the switch
    Operator,     \* the personas that hold device:control
    FirstPersona, \* the one the server starts with
    Token, EnvToken,  \* data tokens, and the one of the environment
    CallResult,   \* how a tool call may end: ok, error or blocked
    PlanSteps,    \* the number of steps of every plan
    MaxRequests,  \* bound: chat and confirm requests
    MaxCommits,   \* bound: commits of a thread before a run must end
    MaxResets,    \* bound: resets
    MaxSwitches   \* bound: changes of persona or token

ASSUME DemoAssumption ==
    /\ Operator \subseteq Persona
    /\ FirstPersona \in Persona
    /\ EnvToken \in Token
    /\ CallResult \subseteq {"ok", "error", "blocked"}
    /\ {PlanSteps, MaxRequests, MaxCommits, MaxResets, MaxSwitches} \subseteq Nat

VARIABLES
    generation, \* of _store, _rt and _control
    hist,       \* per generation: the messages and boundaries of the thread
    proposals,  \* per generation: the registered proposals
    ledger,     \* the proposals whose control was carried out
    principal,  \* _current_persona and _runtime_token
    run,        \* per tab: the task of its last request
    stream,     \* per tab: the generator of its last request
    page,       \* per tab: what the page shows
    clicked,    \* history: the call ids whose card was approved
    fresh,      \* a counter for call ids, handles and plan versions
    requests, switches  \* counters of the bounds

vars == <<generation, hist, proposals, ledger, principal, run, stream, page,
          clicked, fresh, requests, switches>>

NoHandle == 0

-----------------------------------------------------------------------------
(* Messages.  n is the call id of a placeholder and of what replaces it,   *)
(* the number of calls of an execute message and the version of a plan.    *)

Msg(k, n) == [k |-> k, n |-> n]

Plain(kinds) == [i \in DOMAIN kinds |-> Msg(kinds[i], 0)]

CountDoneOrPending(log) ==
    Cardinality({i \in DOMAIN log : log[i].k \in {"ok", "proposed", "executed", "hold"}})

\* Tool messages that count as an action done: neither plan results, nor
\* placeholders, nor blocked, nor flagged as an error.  The outcome of a
\* confirmation is never flagged.
CountDone(log) ==
    Cardinality({i \in DOMAIN log :
        log[i].k \in {"ok", "proposed", "executed", "rejected", "refused"}})

\* The calls of a message, the plan's excepted.
Calls(m) == 1..(IF m.k = "call" THEN 1 ELSE IF m.k = "exec" THEN m.n ELSE 0)

CountCalled(log) ==
    Cardinality(UNION {{<<i, c>> : c \in Calls(log[i])} : i \in DOMAIN log})

PlanCalls(log) == {i \in DOMAIN log : log[i].k = "plan"}

LastPlan(log) == CHOOSE i \in PlanCalls(log) : \A j \in PlanCalls(log) : j <= i

After(log, i) == SubSeq(log, i + 1, Len(log))

AfterLastPlan(log) == IF PlanCalls(log) = {} THEN log ELSE After(log, LastPlan(log))

\* What the side bar should show, and the signature by which the stream
\* decides whether it changed.
PlanSignature(log, completed) ==
    LET done == CountDone(AfterLastPlan(log)) IN
    IF completed THEN <<PlanSteps, FALSE>>
    ELSE <<done, CountCalled(AfterLastPlan(log)) > done>>

ProjectPlan(log, completed) ==
    LET sig == PlanSignature(log, completed) IN
    [version |-> log[LastPlan(log)].n,
     done |-> IF sig[1] > PlanSteps THEN PlanSteps ELSE sig[1],
     active |-> sig[2] /\ sig[1] < PlanSteps]

NoSideBar == [version |-> 0, done |-> 0, active |-> FALSE]

-----------------------------------------------------------------------------
(* The store, as the server uses it                                        *)

Log(g) == hist[g].log
Boundaries(g) == hist[g].bnds

Boundary(status, seq, pend) == [status |-> status, seq |-> seq, pend |-> pend]

LastStatus(g) == IF Boundaries(g) = <<>> THEN "none" ELSE Last(Boundaries(g)).status
LastSeq(g) == IF Boundaries(g) = <<>> THEN 0 ELSE Last(Boundaries(g)).seq
LastPending(g) == IF Boundaries(g) = <<>> THEN <<>> ELSE Last(Boundaries(g)).pend

Commit(g, msgs, boundary) ==
    hist' = [hist EXCEPT ![g].log = @ \o msgs, ![g].bnds = Append(@, boundary)]

EmptyHistory == [log |-> <<>>, bnds |-> <<>>]

NoRun == [st |-> "none", cancel |-> FALSE, confirm |-> FALSE, approved |-> 0, gen |-> 0,
          who |-> [persona |-> FirstPersona, token |-> EnvToken], seq |-> 0,
          todo |-> <<>>, settled |-> {}, mine |-> {},
          status |-> "none", pend |-> <<>>]

NoStream == [st |-> "none", seen |-> 0, shown |-> {}, sig |-> <<>>]

-----------------------------------------------------------------------------
Init ==
    /\ generation = 0
    /\ hist = [g \in 0..MaxResets |-> EmptyHistory]
    /\ proposals = [g \in 0..MaxResets |-> {}]
    /\ ledger = {}
    /\ principal = [persona |-> FirstPersona, token |-> EnvToken]
    /\ run = [t \in Tab |-> NoRun]
    /\ stream = [t \in Tab |-> NoStream]
    /\ page = [t \in Tab |-> [loading |-> FALSE, cards |-> {}, side |-> NoSideBar]]
    /\ clicked = {}
    /\ fresh = 1
    /\ requests = 0
    /\ switches = 0

-----------------------------------------------------------------------------
(* Requests.  The page sends one only when it is not loading.              *)

\* What a chat or confirm request hands to the stream: the current store,
\* control and principal, and where the log ends.
StartStream(t, confirm, approved, cancel, before) ==
    /\ run' = [run EXCEPT ![t] =
                 [NoRun EXCEPT !.st = "created", !.confirm = confirm, !.approved = approved,
                               !.cancel = cancel, !.gen = generation, !.who = principal]]
    /\ stream' = [stream EXCEPT ![t] = [NoStream EXCEPT !.st = "polling", !.seen = before]]
    /\ requests' = requests + 1

\* sendMessage and /api/chat: the user message is committed, whatever the
\* thread waits for.
ApiChat(t) ==
    /\ ~page[t].loading
    /\ requests < MaxRequests
    /\ Commit(generation, Plain(<<"user">>), Boundary("user", LastSeq(generation) + 1, <<>>))
    /\ StartStream(t, FALSE, 0, FALSE, Len(Log(generation)) + 1)
    /\ page' = [page EXCEPT ![t].loading = TRUE]
    /\ UNCHANGED <<generation, proposals, ledger, principal, clicked, fresh, switches>>

\* approveAction and /api/confirm with the decision of one card.
ApproveCard(t, card) ==
    /\ ~page[t].loading
    /\ requests < MaxRequests
    /\ card \in page[t].cards
    /\ card.handle # NoHandle
    /\ StartStream(t, TRUE, card.id, FALSE, Len(Log(generation)))
    /\ page' = [page EXCEPT ![t].loading = TRUE, ![t].cards = @ \ {card}]
    /\ clicked' = clicked \cup {card.id}
    /\ UNCHANGED <<generation, hist, proposals, ledger, principal, fresh, switches>>

\* cancelAction and /api/confirm with cancel; the only button of the card of
\* an unknown proposal.
CancelCard(t, card) ==
    /\ ~page[t].loading
    /\ requests < MaxRequests
    /\ card \in page[t].cards
    /\ StartStream(t, TRUE, 0, TRUE, Len(Log(generation)))
    /\ page' = [page EXCEPT ![t].loading = TRUE, ![t].cards = @ \ {card}]
    /\ UNCHANGED <<generation, hist, proposals, ledger, principal, clicked, fresh, switches>>

\* resetSession and /api/reset: a new store and a new runtime with its own
\* proposals (and ledger: no handle occurs in two generations); the page is
\* emptied.
ApiReset(t) ==
    /\ ~page[t].loading
    /\ generation < MaxResets
    /\ generation' = generation + 1
    /\ page' = [page EXCEPT ![t].cards = {}, ![t].side = NoSideBar]
    /\ UNCHANGED <<hist, proposals, ledger, principal, run, stream, clicked, fresh, requests, switches>>

ApiIdentityUnchecked(t, p) ==
    /\ ~page[t].loading
    /\ switches < MaxSwitches
    /\ principal' = [principal EXCEPT !.persona = "unknown"]
    /\ switches' = switches + 1
    /\ UNCHANGED <<generation, hist, proposals, ledger, run, stream, page, clicked, fresh, requests>>

\* switchPersona and /api/identity.
ApiIdentity(t, p) ==
    /\ ~page[t].loading
    /\ p # principal.persona
    /\ switches < MaxSwitches
    /\ principal' = [principal EXCEPT !.persona = p]
    /\ switches' = switches + 1
    /\ UNCHANGED <<generation, hist, proposals, ledger, run, stream, page, clicked, fresh, requests>>

\* applyToken and /api/token: also while a run is going on; an empty token
\* stands for the one of the environment.
ApiToken(token) ==
    /\ token # principal.token
    /\ switches < MaxSwitches
    /\ principal' = [principal EXCEPT !.token = token]
    /\ switches' = switches + 1
    /\ UNCHANGED <<generation, hist, proposals, ledger, run, stream, page, clicked, fresh, requests>>

-----------------------------------------------------------------------------
(* The task: run_loop on the store, control and principal of the request   *)

\* The task starts.  Only now is the last boundary read: it decides whether
\* there is a batch to resolve.  Without a decision the batch is shown again.
Entered(t) ==
    LET g == run[t].gen IN
    IF LastStatus(g) # "awaiting_confirmation"
    THEN [run[t] EXCEPT !.st = "running", !.seq = LastSeq(g)]
    ELSE IF run[t].confirm
    THEN [run[t] EXCEPT !.st = "resolving", !.seq = LastSeq(g), !.todo = LastPending(g)]
    ELSE [run[t] EXCEPT !.st = "ended", !.status = "awaiting_confirmation",
                        !.pend = LastPending(g)]

StartRun(t) ==
    /\ run[t].st = "created"
    /\ run' = [run EXCEPT ![t] = Entered(t)]
    /\ UNCHANGED <<generation, hist, proposals, ledger, principal, stream, page, clicked,
                   fresh, requests, switches>>

DecisionOrApprove(t, p) == IF run[t].cancel THEN "reject" ELSE "approve"

\* What the request says of one pending action: cancel rejects all, and an
\* action without a decision is rejected.
Decision(t, p) == IF ~run[t].cancel /\ run[t].approved = p.id THEN "approve" ELSE "reject"

\* How the control capability may resolve it: a carried out control is not
\* sent again, a proposal that is gone is never sent, and the backend may fail.
Outcomes(t, p) ==
    IF p.handle = NoHandle THEN {"refused"}
    ELSE IF Decision(t, p) = "reject" THEN {"rejected"}
    ELSE IF p.handle \in ledger THEN {"executed"}
    ELSE IF p.handle \notin proposals[run[t].gen] THEN {"refused"}
    ELSE {"executed", "refused"}

\* One pending action is resolved; its proposal is consumed.
ResolveNext(t) ==
    /\ run[t].st = "resolving"
    /\ run[t].todo # <<>>
    /\ LET p == Head(run[t].todo) IN
       \E k \in Outcomes(t, p) :
         /\ run' = [run EXCEPT ![t].todo = Tail(@), ![t].settled = @ \cup {Msg(k, p.id)}]
         /\ ledger' = IF k = "executed" THEN ledger \cup {p.handle} ELSE ledger
         /\ proposals' = [proposals EXCEPT ![run[t].gen] = @ \ {p.handle}]
    /\ UNCHANGED <<generation, hist, principal, stream, page, clicked, fresh, requests, switches>>

\* What becomes of a message when outcomes arrive: the placeholder of a call
\* gives way to its outcome, and an earlier outcome of it does, too.
OfPending == {"hold", "executed", "rejected", "refused"}

Replaced(m, outcomes) ==
    IF m.k \in OfPending /\ \E o \in outcomes : o.n = m.n
    THEN CHOOSE o \in outcomes : o.n = m.n
    ELSE m

\* resolve_pending: the outcomes take the places of the placeholders, under a
\* new boundary.
Settle(t) ==
    LET g == run[t].gen IN
    /\ run[t].st = "resolving"
    /\ run[t].todo = <<>>
    /\ hist' = [hist EXCEPT
          ![g].log = [i \in DOMAIN @ |-> Replaced(@[i], run[t].settled)],
          ![g].bnds = Append(@, Boundary("iteration", run[t].seq + 1, <<>>))]
    /\ run' = [run EXCEPT ![t].st = "running", ![t].seq = @ + 1]
    /\ UNCHANGED <<generation, proposals, ledger, principal, stream, page, clicked, fresh,
                   requests, switches>>

\* One committed iteration: msgs are appended under the next sequence number.
Iterate(t, msgs, status, pend) ==
    LET g == run[t].gen IN
    /\ Commit(g, msgs, Boundary(status, run[t].seq + 1, pend))
    /\ run' = [run EXCEPT
          ![t].seq = @ + 1,
          ![t].mine = @ \cup (Len(Log(g)) + 1)..(Len(Log(g)) + Len(msgs)),
          ![t].st = IF status = "iteration" THEN "running" ELSE "ended",
          ![t].status = IF status = "iteration" THEN "none" ELSE status,
          ![t].pend = pend]

Running(t) == run[t].st = "running" /\ Len(Boundaries(run[t].gen)) < MaxCommits

MayControl(t) == run[t].who.persona \in Operator

UnchangedByRun == UNCHANGED <<generation, ledger, principal, stream, page, clicked,
                              requests, switches>>

\* The model submits a plan.
TurnPlan(t) ==
    /\ Running(t)
    /\ Iterate(t, <<Msg("plan", fresh), Msg("planned", 0)>>, "iteration", <<>>)
    /\ fresh' = fresh + 1
    /\ UNCHANGED proposals
    /\ UnchangedByRun

\* The model calls a tool: it answers, fails, or the gate blocks it.
TurnCall(t, k) ==
    /\ Running(t)
    /\ Iterate(t, Plain(<<"call", k>>), "iteration", <<>>)
    /\ UNCHANGED <<proposals, fresh>>
    /\ UnchangedByRun

\* The model registers a proposal.
TurnPropose(t) ==
    /\ Running(t)
    /\ MayControl(t)
    /\ proposals' = [proposals EXCEPT ![run[t].gen] = @ \cup {fresh}]
    /\ fresh' = fresh + 1
    /\ Iterate(t, Plain(<<"call", "proposed">>), "iteration", <<>>)
    /\ UnchangedByRun

\* The latest proposal (handles count up), or a sentinel when there is none.
Latest(g) ==
    IF proposals[g] = {} THEN NoHandle
    ELSE CHOOSE h \in proposals[g] : \A other \in proposals[g] : other <= h

\* The model executes proposals, by one or two calls: every call freezes the
\* latest proposal of the thread, and the run ends waiting for the user.
TurnExecute(t, calls) ==
    LET pend == [i \in 1..calls |-> [id |-> fresh + i - 1, handle |-> Latest(run[t].gen)]]
    IN
    /\ Running(t)
    /\ MayControl(t)
    /\ Iterate(t, <<Msg("exec", calls)>> \o [i \in 1..calls |-> Msg("hold", pend[i].id)],
               "awaiting_confirmation", pend)
    /\ fresh' = fresh + calls
    /\ UNCHANGED proposals
    /\ UnchangedByRun

\* The run ends with a text: the answer, or the last words of the budget (the
\* stream treats the two results alike).
TurnAnswer(t) ==
    /\ Running(t)
    /\ Commit(run[t].gen, Plain(<<"say">>), Boundary("completed", run[t].seq + 1, <<>>))
    /\ run' = [run EXCEPT ![t].st = "ended", ![t].status = "completed", ![t].seq = @ + 1,
                          ![t].mine = @ \cup {Len(Log(run[t].gen)) + 1}]
    /\ UNCHANGED <<proposals, fresh>>
    /\ UnchangedByRun

\* The run ends without a commit: a failed model, a watchdog, the step limit.
TurnGiveUp(t, status) ==
    /\ run[t].st = "running"
    /\ run' = [run EXCEPT ![t].st = "ended", ![t].status = status]
    /\ UNCHANGED <<hist, proposals, fresh>>
    /\ UnchangedByRun

\* Too many tool failures: the batch is committed and the run fails.
TurnFuse(t) ==
    /\ Running(t)
    /\ Iterate(t, Plain(<<"call", "error">>), "failed", <<>>)
    /\ UNCHANGED <<proposals, fresh>>
    /\ UnchangedByRun

Turn(t) ==
    \/ TurnPlan(t)
    \/ \E k \in CallResult : TurnCall(t, k)
    \/ TurnPropose(t)
    \/ \E calls \in 1..2 : TurnExecute(t, calls)
    \/ TurnAnswer(t)
    \/ \E status \in {"failed", "budget_exhausted"} : TurnGiveUp(t, status)
    \/ TurnFuse(t)

-----------------------------------------------------------------------------
(* The generator                                                           *)

\* flush_new_messages and the plan event: the messages from seen on are
\* shown, and the side bar is sent again if its signature changed.
Flush(t, completed) ==
    LET log == Log(run[t].gen)
        new == (stream[t].seen + 1)..Len(log)
        sig == PlanSignature(log, completed)
        resend == PlanCalls(log) # {} /\ sig # stream[t].sig
    IN
    /\ stream' = [stream EXCEPT
          ![t].seen = IF Len(log) > @ THEN Len(log) ELSE @,
          ![t].shown = @ \cup new,
          ![t].sig = IF resend THEN sig ELSE @,
          ![t].st = IF run[t].st = "ended" THEN "closing" ELSE "polling"]
    /\ page' = [page EXCEPT
          ![t].side = IF resend THEN ProjectPlan(log, completed) ELSE @,
          ![t].cards = IF run[t].st = "ended" /\ run[t].status = "awaiting_confirmation"
                       THEN @ \cup ToSet(run[t].pend) ELSE @]

\* A round of the polling loop.
Poll(t) ==
    /\ stream[t].st = "polling"
    /\ run[t].st # "ended"
    /\ Flush(t, FALSE)
    /\ UNCHANGED <<generation, hist, proposals, ledger, principal, run, clicked, fresh,
                   requests, switches>>

FlushTailSkipped(t) ==
    /\ stream[t].st = "polling"
    /\ run[t].st = "ended"
    /\ stream' = [stream EXCEPT ![t].st = "closing"]
    /\ UNCHANGED <<generation, hist, proposals, ledger, principal, run, page, clicked, fresh,
                   requests, switches>>

\* The task is done: the rest of the messages, the last state of the plan
\* and the cards.
FlushTail(t) ==
    /\ stream[t].st = "polling"
    /\ run[t].st = "ended"
    /\ Flush(t, run[t].status \in {"completed", "budget_exhausted"})
    /\ UNCHANGED <<generation, hist, proposals, ledger, principal, run, clicked, fresh,
                   requests, switches>>

CollectAlways(t) == proposals' = [proposals EXCEPT ![generation] = {}]

\* _gc_abandoned_proposals: of the runtime of the moment.
CollectProposals(t) ==
    proposals' = IF run[t].status = "awaiting_confirmation" THEN proposals
                 ELSE [proposals EXCEPT ![generation] = {}]

StillLoading(t) == page

Freed(t) == [page EXCEPT ![t].loading = FALSE]

\* The clean-up, the answer and the done event; the page is free again.
Close(t) ==
    /\ stream[t].st = "closing"
    /\ CollectProposals(t)
    /\ stream' = [stream EXCEPT ![t] = NoStream]
    /\ run' = [run EXCEPT ![t] = NoRun]
    /\ page' = Freed(t)
    /\ UNCHANGED <<generation, hist, ledger, principal, clicked, fresh, requests, switches>>

-----------------------------------------------------------------------------
Request(t) ==
    \/ ApiChat(t)
    \/ \E card \in page[t].cards : ApproveCard(t, card) \/ CancelCard(t, card)
    \/ ApiReset(t)
    \/ \E p \in Persona : ApiIdentity(t, p)

Task(t) == StartRun(t) \/ ResolveNext(t) \/ Settle(t) \/ Turn(t)

Generator(t) == Poll(t) \/ FlushTail(t) \/ Close(t)

Next ==
    \/ \E t \in Tab : Request(t) \/ Task(t) \/ Generator(t)
    \/ \E token \in Token : ApiToken(token)

\* A task and its generator go on: the model and the backends answer or time
\* out, and an iteration is bounded by the budget.
Fairness == \A t \in Tab : WF_vars(Task(t)) /\ WF_vars(FlushTail(t) \/ Close(t))

Spec == Init /\ [][Next]_vars /\ Fairness
-----------------------------------------------------------------------------
(* Properties                                                              *)

Kind == {"user", "plan", "planned", "call", "ok", "error", "blocked", "proposed", "exec",
         "hold", "say", "executed", "rejected", "refused"}

Message == [k : Kind, n : Nat]

Card == [id : Nat \ {0}, handle : Nat]

Principal == [persona : Persona, token : Token]

Status == {"none", "user", "iteration", "awaiting_confirmation", "completed", "failed",
           "budget_exhausted"}

BoundaryRecord == [status : Status, seq : Nat, pend : Seq(Card)]

History == [log : Seq(Message), bnds : Seq(BoundaryRecord)]

TaskRecord ==
    [st : {"none", "created", "resolving", "running", "ended"}, cancel : BOOLEAN,
     confirm : BOOLEAN, approved : Nat, gen : 0..MaxResets, who : Principal, seq : Nat,
     todo : Seq(Card), settled : SUBSET Message, mine : SUBSET Nat, status : Status,
     pend : Seq(Card)]

Stream ==
    [st : {"none", "polling", "closing"}, seen : Nat, shown : SUBSET Nat,
     sig : {<<>>} \cup (Nat \X BOOLEAN)]

Page ==
    [loading : BOOLEAN, cards : SUBSET Card,
     side : [version : Nat, done : 0..PlanSteps, active : BOOLEAN]]

\* Types of the variables (demo_server.py:92-142, app.js:11-15); a task belongs
\* to a generation there has been, and no handle is of the future.
TypeOK ==
    /\ generation \in 0..MaxResets
    /\ hist \in [0..MaxResets -> History]
    /\ fresh \in Nat \ {0}
    /\ proposals \in [0..MaxResets -> SUBSET (1..(fresh - 1))]
    /\ ledger \subseteq 1..(fresh - 1)
    /\ clicked \subseteq 1..(fresh - 1)
    /\ principal \in Principal
    /\ run \in [Tab -> TaskRecord]
    /\ \A t \in Tab : run[t].gen <= generation
    /\ stream \in [Tab -> Stream]
    /\ page \in [Tab -> Page]
    /\ requests \in 0..MaxRequests
    /\ switches \in 0..MaxSwitches

\* While the thread waits for the user, the proposals it froze are there to be
\* carried out: the clean-up after a run leaves them alone (demo_server.py:801).
AwaitedKept ==
    \/ LastStatus(generation) # "awaiting_confirmation"
    \/ \E t \in Tab : run[t].st = "resolving" /\ run[t].gen = generation
    \/ \A i \in DOMAIN LastPending(generation) :
         LastPending(generation)[i].handle \in proposals[generation] \cup {NoHandle}

\* A control that reports an execution is one whose own card the user
\* approved, also when stale cards are clicked or a batch has two cards
\* (loop.py:168, app.js:475).
ExecutedWasApproved ==
    \A g \in 0..MaxResets : \A i \in DOMAIN Log(g) :
        Log(g)[i].k = "executed" => Log(g)[i].n \in clicked

\* When a stream is over it has shown every message its run committed, also
\* those committed between the last poll and the end (demo_server.py:600).
EveryMessageShown ==
    \A t \in Tab : stream[t].st = "closing" => run[t].mine \subseteq stream[t].shown

\* Within one stream the side bar never takes back a finished step of a plan.
PlanForward ==
    [][\A t \in Tab :
        ( /\ stream[t].st = "polling" /\ stream'[t].st # "none" /\ stream[t].sig # <<>>
          /\ page'[t].side.version = page[t].side.version )
        => page'[t].side.done >= page[t].side.done]_vars

\* Every request ends: the page can be used again.
RequestsEnd == \A t \in Tab : page[t].loading ~> ~page[t].loading
=============================================================================
