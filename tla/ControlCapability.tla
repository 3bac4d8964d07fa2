------------------------- MODULE ControlCapability --------------------------
(***************************************************************************)
(* Propose, freeze, confirm, send: the control path of the park agent.     *)
(*                                                                         *)
(* A proposal is registered in the ProposalStore under a fresh handle.     *)
(* freeze() turns an execute_proposal call into a PendingAction that names *)
(* a stored proposal of the calling session; the pending action is kept in *)
(* the conversation until the user decides.  resolve() carries out the     *)
(* decision.  It is a coroutine: it is cut here at its awaits, so that     *)
(* concurrent resolves (a double click, a second instance, a retry) are    *)
(* interleaved exactly where asyncio and the ledger's database allow it.   *)
(*                                                                         *)
(* The idempotency key is a hash of handle, action and parameters; a       *)
(* stored proposal never changes, so the key is modelled by the handle.    *)
(***************************************************************************)
EXTENDS Naturals, FiniteSets

CONSTANTS
    Handle,       \* store handles (uuids): each names one proposal
    Reversible,   \* the proposals whose grounding says "reversible"
    Thread,       \* conversation threads (sessions)
    ThreadOf,     \* ThreadOf[h]: the session that registered h, or NoThread
    NoThread,     \* a proposal registered without a session id
    NoHandle,     \* "no handle given", and the handle of the invalid sentinel
    Call,         \* resolve() calls, each made at most once
    Deployments,  \* the ways of deploying the capability that are checked
    MaxPending,   \* bound on the pending actions held at once
    MaxCrashes    \* bound on instance crashes

\* "memory": no ledger injected, the in-process dict is used.
\* "pg":     PgIdempotencyLedger, whose get() returns the stored result only.
\* "status": a ledger whose get() also returns the status column, which is
\*           what resolve() reads (the double used by the tests).
LedgerKind == {"memory", "pg", "status"}

\* durable: RedisProposalStore rather than the in-process ProposalStore.
\* serial:  the caller lets one resolve() run at a time.
Deployment == [ledger : LedgerKind, durable : BOOLEAN, serial : BOOLEAN]

ASSUME ConstantsAssumption ==
    /\ Reversible \subseteq Handle
    /\ NoHandle \notin Handle
    /\ ThreadOf \in [Handle -> Thread \cup {NoThread}]
    /\ Deployments \subseteq Deployment
    /\ MaxPending \in Nat
    /\ MaxCrashes \in Nat

VARIABLES
    deployment,  \* chosen once
    registered,  \* handles ever minted by put()
    puts,        \* how many
    regAt,       \* regAt[h]: registration number while h is in the store, else 0
    frozen,      \* pending actions held by awaiting conversations
    ledger,      \* ledger[h]: status of h's row, "none" if there is no row
    pc,          \* pc[c]: where resolve call c stands
    target,      \* target[c]: handle of the pending action c resolves
    held,        \* held[c]: c found the proposal in the store when it started
    seen,        \* seen[c]: the status c last read from the ledger
    outcome,     \* outcome[c]: what c returned
    crashes,
    approved,    \* history: handles some call was told to approve
    attempts,    \* history: device commands sent per handle
    failures     \* history: commands recorded as failed per handle

storeVars == <<registered, puts, regAt>>
callVars == <<pc, target, held, seen, outcome>>
historyVars == <<approved, attempts, failures>>
vars == <<deployment, storeVars, frozen, ledger, callVars, crashes, historyVars>>

Status == {"none", "in_flight", "done", "failed"}
AtLedger == {"read", "claim", "reread", "record_done", "record_failed"}
Local == {"judge", "send", "rejudge", "finish_done", "finish_failed"}
Stage == {"new", "ended"} \cup AtLedger \cup Local
Outcome ==
    {"", "executed", "cached", "rejected", "invalid", "expired", "refused",
     "unknown_manual", "unknown_retry", "send_failed", "raised", "lost"}
Pending == [thread : Thread, handle : Handle \cup {NoHandle}]

Durable == deployment.durable
InMemory == deployment.ledger = "memory"
Active == {c \in Call : pc[c] \notin {"new", "ended"}}
Stored(h) == h \in Handle /\ regAt[h] > 0

-----------------------------------------------------------------------------
(* The proposal store *)

\* put: a grounded proposal is registered under a fresh handle.
Put(h) ==
    /\ h \notin registered
    /\ registered' = registered \cup {h}
    /\ puts' = puts + 1
    /\ regAt' = [regAt EXCEPT ![h] = puts + 1]
    /\ UNCHANGED <<deployment, frozen, ledger, callVars, crashes, historyVars>>

Popped(h) == [regAt EXCEPT ![h] = 0]

\* The Redis keys of a proposal carry a time to live.
Expire(h) ==
    /\ Durable
    /\ Stored(h)
    /\ regAt' = Popped(h)
    /\ UNCHANGED <<deployment, registered, puts, frozen, ledger, callVars, crashes, historyVars>>

\* latest_for: the last registered proposal of exactly this session.
LatestFor(thread) ==
    {h \in Handle :
        /\ Stored(h)
        /\ ThreadOf[h] = thread
        /\ \A other \in Handle :
              Stored(other) /\ ThreadOf[other] = thread => regAt[other] <= regAt[h]}

-----------------------------------------------------------------------------
(* freeze *)

UsableByAnyone(h, thread) == Stored(h)

\* The handle given by the model counts only if it is stored and not owned by another session.
Usable(h, thread) == Stored(h) /\ ThreadOf[h] \in {thread, NoThread}

\* The proposals freeze may name; empty when it must mint the invalid sentinel.
FreezeChoice(thread, requested) ==
    IF Usable(requested, thread) THEN {requested} ELSE LatestFor(thread)

Freeze(thread, requested) ==
    LET choice == FreezeChoice(thread, requested)
    IN  /\ Cardinality(frozen) < MaxPending
        /\ \E h \in IF choice = {} THEN {NoHandle} ELSE choice :
              frozen' = frozen \cup {[thread |-> thread, handle |-> h]}
        /\ UNCHANGED <<deployment, storeVars, ledger, callVars, crashes, historyVars>>

-----------------------------------------------------------------------------
(* resolve: what it decides from what it has read *)

UnknownMislabelled(h, proposalHeld) == "in_flight"

\* The answer when a send may or may not have happened.
Unknown(h, proposalHeld) ==
    IF proposalHeld /\ h \in Reversible THEN "unknown_retry" ELSE "unknown_manual"

VerdictWithoutLatch(h, proposalHeld, status) ==
    CASE status = "done"           -> "cached"
      [] status = "in_flight"      -> Unknown(h, proposalHeld)
      [] status \in {"none", "failed"} /\ ~proposalHeld -> "expired"
      [] OTHER                     -> "proceed"

\* The checks made after the first ledger read, in their order.
Verdict(h, proposalHeld, status) ==
    CASE status = "done"           -> "cached"
      [] status = "in_flight"      -> Unknown(h, proposalHeld)
      [] status \in {"none", "failed"} /\ ~proposalHeld -> "expired"
      [] status \in {"none", "failed"} /\ proposalHeld /\ h \notin Reversible -> "refused"
      [] OTHER                     -> "proceed"

\* The outcomes after which resolve() removes the proposal.
Consuming == {"cached", "refused", "rejected", "executed", "send_failed"}

End(c, h, result) ==
    /\ pc' = [pc EXCEPT ![c] = "ended"]
    /\ outcome' = [outcome EXCEPT ![c] = result]
    /\ regAt' = IF result \in Consuming THEN Popped(h) ELSE regAt

StatusNeverRead(h) == "none"

\* What the caller of get() learns of a row's status.
StatusRead(h) == IF deployment.ledger = "pg" THEN "none" ELSE ledger[h]

MayStart(c) ==
    /\ pc[c] = "new"
    /\ deployment.serial => Active = {}

\* The sentinel of an unknown handle answers an error to either decision.
ResolveInvalid(c) ==
    /\ MayStart(c)
    /\ \E p \in frozen : p.handle = NoHandle
    /\ pc' = [pc EXCEPT ![c] = "ended"]
    /\ outcome' = [outcome EXCEPT ![c] = "invalid"]
    /\ UNCHANGED <<deployment, storeVars, frozen, ledger, target, held, seen, crashes, historyVars>>

Reject(c, p) ==
    /\ MayStart(c)
    /\ p.handle # NoHandle
    /\ target' = [target EXCEPT ![c] = p.handle]
    /\ End(c, p.handle, "rejected")
    /\ UNCHANGED <<deployment, registered, puts, frozen, ledger, held, seen, crashes, historyVars>>

\* Approval up to the first await.  Without a ledger the checks run on the
\* in-process dict in the same step, and the first await is the send.
Approve(c, p) ==
    LET h == p.handle
        verdict == Verdict(h, Stored(h), ledger[h])
    IN  /\ MayStart(c)
        /\ h # NoHandle
        /\ target' = [target EXCEPT ![c] = h]
        /\ held' = [held EXCEPT ![c] = Stored(h)]
        /\ approved' = approved \cup {h}
        /\ IF ~InMemory
             THEN /\ pc' = [pc EXCEPT ![c] = "read"]
                  /\ UNCHANGED <<outcome, regAt>>
             ELSE IF verdict = "proceed"
                    THEN /\ pc' = [pc EXCEPT ![c] = "send"]
                         /\ UNCHANGED <<outcome, regAt>>
                    ELSE End(c, h, verdict)
        /\ UNCHANGED <<deployment, registered, puts, frozen, ledger, seen, crashes, attempts, failures>>

-----------------------------------------------------------------------------
(* resolve: the steps between two awaits *)

\* get(): the database answers.
Read(c) ==
    /\ pc[c] \in {"read", "reread"}
    /\ seen' = [seen EXCEPT ![c] = StatusRead(target[c])]
    /\ pc' = [pc EXCEPT ![c] = IF pc[c] = "read" THEN "judge" ELSE "rejudge"]
    /\ UNCHANGED <<deployment, storeVars, frozen, ledger, target, held, outcome, crashes, historyVars>>

JudgeWithoutClaim(c) ==
    LET verdict == Verdict(target[c], held[c], seen[c])
    IN  /\ pc[c] = "judge"
        /\ IF verdict = "proceed"
             THEN /\ pc' = [pc EXCEPT ![c] = "send"]
                  /\ UNCHANGED <<outcome, regAt>>
             ELSE End(c, target[c], verdict)
        /\ UNCHANGED <<deployment, registered, puts, frozen, ledger, target, held, seen, crashes, historyVars>>

\* The coroutine resumes with the answer.
Judge(c) ==
    LET verdict == Verdict(target[c], held[c], seen[c])
    IN  /\ pc[c] = "judge"
        /\ IF verdict = "proceed"
             THEN /\ pc' = [pc EXCEPT ![c] = "claim"]
                  /\ UNCHANGED <<outcome, regAt>>
             ELSE End(c, target[c], verdict)
        /\ UNCHANGED <<deployment, registered, puts, frozen, ledger, target, held, seen, crashes, historyVars>>

ClaimAlways(c) == TRUE

\* put_if_absent for a row not seen, compare-and-set for a row seen "failed".
ClaimSucceeds(c) == ledger[target[c]] = seen[c]

Marked(h, status) == [ledger EXCEPT ![h] = status]

Claim(c) ==
    /\ pc[c] = "claim"
    /\ IF ClaimSucceeds(c)
         THEN /\ ledger' = Marked(target[c], "in_flight")
              /\ pc' = [pc EXCEPT ![c] = "send"]
         ELSE /\ pc' = [pc EXCEPT ![c] = "reread"]
              /\ UNCHANGED ledger
    /\ UNCHANGED <<deployment, storeVars, frozen, target, held, seen, outcome, crashes, historyVars>>

RejudgeAsDone(c) ==
    /\ pc[c] = "rejudge"
    /\ End(c, target[c], "cached")
    /\ UNCHANGED <<deployment, registered, puts, frozen, ledger, target, held, seen, crashes, historyVars>>

\* The claim was lost: whatever the other call did, do not send.
Rejudge(c) ==
    /\ pc[c] = "rejudge"
    /\ End(c, target[c], IF seen[c] = "done" THEN "cached" ELSE Unknown(target[c], held[c]))
    /\ UNCHANGED <<deployment, registered, puts, frozen, ledger, target, held, seen, crashes, historyVars>>

\* The device command goes out; it is answered, or raises.  An exception does
\* not tell whether the device acted.
Send(c) ==
    /\ pc[c] = "send"
    /\ attempts' = [attempts EXCEPT ![target[c]] = @ + 1]
    /\ \E stage \in IF InMemory THEN {"finish_done", "finish_failed"}
                    ELSE {"record_done", "record_failed"} :
          pc' = [pc EXCEPT ![c] = stage]
    /\ UNCHANGED <<deployment, storeVars, frozen, ledger, target, held, seen, outcome, crashes,
                   approved, failures>>

\* The send's row gets its final status, in the database.
Recorded(c) ==
    /\ ledger' = Marked(target[c], IF pc[c] = "record_done" THEN "done" ELSE "failed")
    /\ failures' = IF pc[c] = "record_failed"
                     THEN [failures EXCEPT ![target[c]] = @ + 1] ELSE failures

Record(c) ==
    /\ pc[c] \in {"record_done", "record_failed"}
    /\ Recorded(c)
    /\ pc' = [pc EXCEPT ![c] = IF pc[c] = "record_done" THEN "finish_done" ELSE "finish_failed"]
    /\ UNCHANGED <<deployment, storeVars, frozen, target, held, seen, outcome, crashes,
                   approved, attempts>>

\* The last segment: the in-process dict, if that is the ledger, and the pop.
Finish(c) ==
    /\ pc[c] \in {"finish_done", "finish_failed"}
    /\ End(c, target[c], IF pc[c] = "finish_done" THEN "executed" ELSE "send_failed")
    /\ ledger' = IF InMemory /\ pc[c] = "finish_done" THEN Marked(target[c], "done") ELSE ledger
    /\ failures' = IF InMemory /\ pc[c] = "finish_failed"
                     THEN [failures EXCEPT ![target[c]] = @ + 1] ELSE failures
    /\ UNCHANGED <<deployment, registered, puts, frozen, target, held, seen, crashes,
                   approved, attempts>>

-----------------------------------------------------------------------------
(* Failures *)

\* A ledger operation raises: resolve() does not catch it.  The database may
\* or may not have carried the operation out.
LedgerRaises(c) ==
    /\ pc[c] \in AtLedger
    /\ pc' = [pc EXCEPT ![c] = "ended"]
    /\ outcome' = [outcome EXCEPT ![c] = "raised"]
    /\ \/ UNCHANGED <<ledger, failures>>
       \/ /\ pc[c] = "claim" /\ ClaimSucceeds(c)
          /\ ledger' = Marked(target[c], "in_flight")
          /\ UNCHANGED failures
       \/ /\ pc[c] \in {"record_done", "record_failed"}
          /\ Recorded(c)
    /\ UNCHANGED <<deployment, storeVars, frozen, target, held, seen, crashes, approved, attempts>>

\* An instance dies with the calls it was running.  With in-process state
\* there is one instance, and its proposals and dict go with it.
Crash(dying) ==
    /\ crashes < MaxCrashes
    /\ dying \subseteq Active
    /\ ~Durable => dying = Active
    /\ crashes' = crashes + 1
    /\ pc' = [c \in Call |-> IF c \in dying THEN "ended" ELSE pc[c]]
    /\ outcome' = [c \in Call |-> IF c \in dying THEN "lost" ELSE outcome[c]]
    /\ regAt' = IF Durable THEN regAt ELSE [h \in Handle |-> 0]
    /\ ledger' = IF InMemory THEN [h \in Handle |-> "none"] ELSE ledger
    /\ UNCHANGED <<deployment, registered, puts, frozen, target, held, seen, historyVars>>

-----------------------------------------------------------------------------
Init ==
    /\ deployment \in Deployments
    /\ registered = {}
    /\ puts = 0
    /\ regAt = [h \in Handle |-> 0]
    /\ frozen = {}
    /\ ledger = [h \in Handle |-> "none"]
    /\ pc = [c \in Call |-> "new"]
    /\ target = [c \in Call |-> NoHandle]
    /\ held = [c \in Call |-> FALSE]
    /\ seen = [c \in Call |-> "none"]
    /\ outcome = [c \in Call |-> ""]
    /\ crashes = 0
    /\ approved = {}
    /\ attempts = [h \in Handle |-> 0]
    /\ failures = [h \in Handle |-> 0]

Store == \E h \in Handle : Put(h) \/ Expire(h)

FreezeCall == \E thread \in Thread, requested \in Handle \cup {NoHandle} : Freeze(thread, requested)

Decide(c) == ResolveInvalid(c) \/ \E p \in frozen : Reject(c, p) \/ Approve(c, p)

Resume(c) == Read(c) \/ Judge(c) \/ Claim(c) \/ Rejudge(c) \/ Send(c) \/ Record(c) \/ Finish(c)

Next ==
    \/ Store
    \/ FreezeCall
    \/ \E c \in Call : Decide(c) \/ Resume(c) \/ LedgerRaises(c)
    \/ \E dying \in SUBSET Active : Crash(dying)

Spec == Init /\ [][Next]_vars
-----------------------------------------------------------------------------
(* Properties *)

TypeOK ==
    /\ deployment \in Deployment
    /\ registered \subseteq Handle
    /\ puts \in Nat
    /\ regAt \in [Handle -> Nat]
    /\ frozen \subseteq Pending
    /\ ledger \in [Handle -> Status]
    /\ pc \in [Call -> Stage]
    /\ target \in [Call -> Handle \cup {NoHandle}]
    /\ held \in [Call -> BOOLEAN]
    /\ seen \in [Call -> Status]
    /\ outcome \in [Call -> Outcome]
    /\ crashes \in Nat
    /\ approved \subseteq Handle
    /\ attempts \in [Handle -> Nat]
    /\ failures \in [Handle -> Nat]

\* A call that has claimed its row and not yet settled it.
Owns(c) == pc[c] \in {"send", "record_done", "record_failed"}

\* At-most-once, across concurrent confirmations and restarts: the device is
\* commanded once per proposal.  Only a ledger that shows a row marked
\* "failed" lets a later confirmation send again, once per recorded failure.
AtMostOnce ==
    \A h \in Handle :
        attempts[h] <= 1 + IF deployment.ledger = "status" THEN failures[h] ELSE 0

\* Write-ahead: with a ledger no command is sent, or has been sent, without a
\* row that says so, and the row of a command under way says in_flight.  This
\* is what a restarted instance relies on not to send again.
WriteAhead ==
    ~InMemory =>
        /\ \A c \in Call : Owns(c) => ledger[target[c]] = "in_flight"
        /\ \A h \in Handle : attempts[h] > 0 => ledger[h] # "none"

\* With a ledger two calls never carry the same proposal through the send at once.
OneOwner ==
    ~InMemory => \A c, d \in Call : Owns(c) /\ Owns(d) /\ target[c] = target[d] => c = d

\* No session's confirmation card ever names a proposal of another session.
ThreadIsolation ==
    \A p \in frozen :
        p.handle # NoHandle => ThreadOf[p.handle] \in {p.thread, NoThread}

\* What the user is told of a settled call is true of the commands sent:
\* "executed" and the cached answer mean that some command did not fail,
\* "failed" that one did, and the irreversibility latch that none was sent.
HonestReport ==
    \A c \in Call : LET h == target[c] IN
        /\ outcome[c] \in {"executed", "cached"} => attempts[h] > failures[h]
        /\ outcome[c] = "send_failed" => failures[h] > 0
        /\ outcome[c] = "refused" => attempts[h] = 0

\* A row marked done stays done: no late writer, retry or lost answer of the
\* database turns an executed control back into one that may be sent.
DoneIsFinal ==
    [][~InMemory => \A h \in Handle : ledger[h] = "done" => ledger'[h] = "done"]_vars

\* Confirmations made one at a time with a ledger: a user told that the
\* proposal has expired and to start over is not one whose command may have
\* been carried out.
ExpiredMeansNotSent ==
    [][\A c \in Call :
          /\ deployment.serial /\ ~InMemory
          /\ outcome[c] # "expired" /\ outcome'[c] = "expired"
          => attempts[target'[c]] = failures[target'[c]]]_vars

\* The in-process dict serves one confirmation at a time and dies with the
\* in-process store, as in the demo; deployments with a ledger are free.
DictIsAlone == \A d \in Deployments : d.ledger = "memory" => d.serial /\ ~d.durable

\* Confirmations are made one at a time only over a ledger that shows its status.
SerialShowsStatus == \A d \in Deployments : d.serial => d.ledger # "pg"

\* What a row says of the commands sent for its proposal.
RowAccounts(h) ==
    /\ ledger[h] = "none" => attempts[h] = 0 /\ failures[h] = 0
    /\ ledger[h] = "in_flight" => attempts[h] \in {failures[h], failures[h] + 1}
    /\ ledger[h] = "done" => attempts[h] = failures[h] + 1
    /\ ledger[h] = "failed" => attempts[h] = failures[h]

\* A row the Postgres ledger holds was claimed once, and has never been retried.
PgRow(h) ==
    deployment.ledger = "pg" =>
        failures[h] = IF ledger[h] = "failed" THEN 1 ELSE 0

\* What a call under way knows, and what the row of its proposal owes it.
CallAccounts(c) ==
    LET h == target[c] IN
    /\ pc[c] \notin {"new", "ended"} => h \in Handle /\ h \in approved
    /\ pc[c] \notin {"new", "ended", "read", "judge"} => h \in Reversible
    /\ pc[c] = "claim" => seen[c] \in {"none", "failed"}
    /\ deployment.ledger = "pg" => seen[c] = "none"
    /\ Owns(c) => ledger[h] = "in_flight"
    /\ pc[c] = "send" => attempts[h] = failures[h]
    /\ pc[c] \in {"record_done", "record_failed"} => attempts[h] = failures[h] + 1

\* The accounts a ledger keeps.
Accounts ==
    /\ \A h \in Handle : RowAccounts(h) /\ PgRow(h)
    /\ \A c \in Call : CallAccounts(c)
    /\ OneOwner

\* What a call that has read, written or answered may rely on: a row that is
\* done stays so, and what is irreversible is never sent.
CallReports(c) ==
    LET h == target[c] IN
    /\ pc[c] \in {"judge", "rejudge"} /\ seen[c] = "done" => ledger[h] = "done"
    /\ pc[c] = "finish_done" => ledger[h] = "done"
    /\ pc[c] = "finish_failed" => failures[h] > 0
    /\ outcome[c] \in {"executed", "cached"} => h \in Handle /\ ledger[h] = "done"
    /\ outcome[c] = "send_failed" => h \in Handle /\ failures[h] > 0
    /\ outcome[c] = "refused" => h \in Handle \ Reversible

Reports ==
    /\ \A c \in Call : CallReports(c)
    /\ \A h \in Handle \ Reversible : attempts[h] = 0

\* Where confirmations are made one at a time, the one under way has read the
\* status its row still has.
Alone ==
    deployment.serial =>
        /\ \A c, d \in Active : c = d
        /\ \A c \in Active : pc[c] = "judge" /\ deployment.ledger = "status"
                               => seen[c] = ledger[target[c]]

\* A call answers at its end only.
AnsweredAtEnd == \A c \in Call : outcome[c] # "" => pc[c] = "ended"

\* Without a ledger, one call at a time and in one process: the proposal itself
\* is what is claimed.  It is sent once, while it is in the store, and a
\* proposal that left the store never comes back.
InProcess == InMemory /\ deployment.serial /\ ~Durable

Finishing(c) == pc[c] \in {"finish_done", "finish_failed"}

DictRow(h) ==
    /\ ledger[h] \in {"none", "done"}
    /\ failures[h] <= attempts[h] /\ attempts[h] <= 1
    /\ ledger[h] = "done" => attempts[h] = 1 /\ failures[h] = 0
    /\ h \notin registered \/ h \notin Reversible => attempts[h] = 0
    /\ Stored(h) => h \in registered
    /\ Stored(h) /\ attempts[h] > 0 => \E c \in Call : Finishing(c) /\ target[c] = h

DictCall(c) ==
    LET h == target[c] IN
    /\ pc[c] \in {"new", "ended", "send", "finish_done", "finish_failed"}
    /\ pc[c] = "send" \/ Finishing(c) => h \in Reversible \cap registered \cap approved
    /\ pc[c] = "send" => attempts[h] = 0
    /\ Finishing(c) => attempts[h] = 1 /\ failures[h] = 0 /\ ledger[h] = "none"
    /\ outcome[c] \in {"executed", "cached"} =>
          /\ h \in Handle /\ attempts[h] = 1 /\ failures[h] = 0
          /\ \A d \in Call : Finishing(d) => target[d] # h
    /\ outcome[c] = "send_failed" => h \in Handle /\ failures[h] > 0
    /\ outcome[c] = "refused" => h \in Handle \ Reversible

DictAccounts ==
    /\ \A h \in Handle : DictRow(h)
    /\ \A c \in Call : DictCall(c)

\* The inductive invariant behind the safety properties and the refinement.
CapabilityInv ==
    /\ deployment \in Deployments
    /\ Alone
    /\ AnsweredAtEnd
    /\ ~InMemory => Accounts /\ Reports
    /\ InProcess => DictAccounts

\* The capability implements the abstract actuator.
Abstract == INSTANCE Actuator
ImplementsActuator == Abstract!ASpec
=============================================================================
