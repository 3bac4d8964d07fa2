------------------------------ MODULE ToolBatch ------------------------------
(***************************************************************************)
(* The tool calls of one answer of the model: the gate, the concurrent     *)
(* dispatch with its timeout and its one retry, the handlers with their    *)
(* requests to the backend, the store of the control proposals, and the    *)
(* confirmation of what the gate held back.                                *)
(*                                                                         *)
(* A knowledge call is a query of KnowledgeRetrieval; Caller is the set of *)
(* the calls of a batch.  An agent is facility_agent making one call of    *)
(* its leaves; its own loop is RunLoop's business.  The ledger of the      *)
(* confirmed commands is ControlCapability's.                              *)
(***************************************************************************)
EXTENDS KnowledgeRetrieval, Grounding, Governance, SequencesExt

CONSTANTS
    Device, NoDevice,
    BadId,        \* a device id that is no number
    NoName,       \* neither a target nor a device
    SystemOf,     \* per device: its system
    Systems,      \* the configured systems, the default first
    NameOf,       \* per device: the words its name contains
    Exact,        \* per device: the whole name
    DoorDevice,   \* the devices that are doors
    TypeOf,       \* per device: its point type
    Dictionary,   \* per device: the rows of its control parameters
    SystemFor,    \* per word: the system of the device type it names, or the default
    Umbrella,     \* the words that name a system
    RegionOf, NoRegion,
    Sessions      \* who logged in, whether the proposals are kept in Redis, and what the
                  \* model may call: one set of possible batches after the other

Region == {RegionOf[d] : d \in Device} \cup {NoRegion}

\* The tools whose arguments do not matter: those of the catalog, and "unknown"
\* for a name that is not in it.  A call of facility_agent is the call that its
\* agent makes.
Plain ==
    (DOMAIN Catalog \ {"device_status", "propose_control", "facility_agent"}) \cup {"none", "unknown"}

Input ==
    [tool : {"device_status"}, agent : BOOLEAN, name : Word, region : Region]
    \cup [tool : {"propose_control"}, agent : BOOLEAN, name : Word \cup {NoName}, region : Region,
          device : Device \cup {NoDevice, BadId}, point : Device \cup {NoDevice},
          param : Word, value : Word]
    \cup [tool : Plain, agent : BOOLEAN]

ASSUME ToolAssumption ==
    /\ NoDevice \notin Device /\ BadId \notin Device
    /\ NoName \notin Word
    /\ DoorDevice \subseteq Device
    /\ Umbrella \subseteq Word
    /\ Systems \in Seq(ToSet(Systems))
    /\ \A d \in Device : Dictionary[d] \in Seq(Param)
    /\ \A s \in Sessions :
         /\ s.redis \in BOOLEAN
         /\ s.user.codes \subseteq RawCode /\ s.user.role \in Role
         /\ s.batches \in Seq(SUBSET [Caller -> Input])

VARIABLES
    session,   \* the one that is played
    permissions, \* the capabilities of its principal
    batch,     \* how many batches were asked for
    call,      \* per caller: its call
    proposals, \* every proposal written so far; a handle is a place in it
    live,      \* the handles whose proposal is in the store
    index,     \* the handles of items()
    ofThread,  \* the handles of the conversation; their order is that of the numbers
    frozen,    \* the handles waiting for the user, one per held back call
    settled    \* the results of the last confirmation, one per held back call

who == <<session, permissions>>
storeVars == <<proposals, live, index, ofThread>>
vars == <<who, batch, call, storeVars, frozen, settled, retrievalVars>>

NoInput == [tool |-> "none", agent |-> FALSE]

NoCall == [input |-> NoInput, at |-> "told", tries |-> 0, todo |-> <<>>,
           hits |-> {}, handle |-> 0, told |-> "none"]

InitTool ==
    /\ session \in Sessions
    /\ permissions \in Login(session.user)
    /\ batch = 0
    /\ call = [c \in Caller |-> NoCall]
    /\ proposals = <<>>
    /\ live = {} /\ index = {} /\ ofThread = {}
    /\ frozen = <<>>
    /\ settled = <<>>
    /\ RetrievalInit

-----------------------------------------------------------------------------
(* The proposal store (proposal.py)                                        *)

\* put: three commands in Redis.  An error leaves the first few of them, or all
\* three when it was the last answer that got lost; in memory there is none.
PutSome(proposal, done) ==
    LET h == Len(proposals) + 1 IN
    /\ proposals' = IF done = 0 THEN proposals ELSE Append(proposals, proposal)
    /\ live' = IF done >= 1 THEN live \cup {h} ELSE live
    /\ index' = IF done >= 2 THEN index \cup {h} ELSE index
    /\ ofThread' = IF done >= 3 THEN ofThread \cup {h} ELSE ofThread

Returned == 4

Puts == IF session.redis THEN 0..Returned ELSE {Returned}

\* latest_for: the last live one; the stale ones after it are dropped.
Latest ==
    IF ofThread \cap live = {} THEN 0
    ELSE CHOOSE h \in ofThread \cap live : \A other \in ofThread \cap live : other <= h

ThreadAfterLatest == {h \in ofThread : h <= Latest}

\* pop; a proposal that expired leaves its handle in the thread.
Pop(handles) ==
    /\ live' = live \ handles
    /\ index' = index \ handles
    /\ ofThread' = ofThread \ (handles \cap live)
    /\ UNCHANGED proposals

\* A key of Redis expires, whatever is going on; the indexes stay.
Expire ==
    /\ session.redis
    /\ \E h \in live : live' = live \ {h}
    /\ UNCHANGED <<who, batch, call, proposals, index, ofThread, frozen, settled, retrievalVars>>

-----------------------------------------------------------------------------
(* The gate, and the first pass over the calls                             *)

Told(c) == call[c].at = "told"

\* How the loop takes a call: the registry, then CatalogGate.classify.
Taken(input) ==
    LET tool == IF input.agent THEN "facility_agent" ELSE input.tool IN
    CASE input = NoInput -> "none"
      [] input # NoInput /\ tool \notin Registry(FALSE) -> "unknown_tool"
      [] tool \in Registry(FALSE) ->
           CASE Verdict(tool, permissions) = "deny" -> "blocked"
             [] Verdict(tool, permissions) = "ask" -> "pending"
             [] OTHER -> "start"

LeafUngated(input) == TRUE

\* The call of the agent meets the same gate with the same principal, in a
\* loop that has no control capability; otherwise it is told off.
LeafTaken(input) ==
    input.tool \in Registry(TRUE) /\ Verdict(input.tool, permissions) = "allow"

\* A held back call is frozen at once.
Entry(input) ==
    LET taken == Taken(input) IN
    [NoCall EXCEPT !.input = input,
                   !.told = IF taken = "start" THEN "none" ELSE taken,
                   !.at = CASE taken # "start" -> "told"
                            [] taken = "start" /\ input.agent /\ ~LeafTaken(input) -> "agent"
                            [] OTHER -> "start"]

AskTools ==
    /\ \A c \in Caller : Told(c)
    /\ frozen = <<>>
    /\ batch < Len(session.batches)
    /\ batch' = batch + 1
    /\ settled' = <<>>
    /\ \E inputs \in session.batches[batch + 1] :
         LET held == {c \in Caller : Taken(inputs[c]) = "pending"} IN
         /\ call' = [c \in Caller |-> Entry(inputs[c])]
         /\ frozen' = [i \in 1..Cardinality(held) |-> Latest]
         /\ ofThread' = IF held = {} THEN ofThread ELSE ThreadAfterLatest
    /\ UNCHANGED <<who, proposals, live, index, retrievalVars>>

-----------------------------------------------------------------------------
(* execute_one                                                             *)

UnchangedButCall == UNCHANGED <<who, batch, storeVars, frozen, settled, retrievalVars>>

\* The call, or the call of its agent, is over.  The result of a leaf goes
\* back to its agent.
Finished(c, how) ==
    [call[c] EXCEPT !.todo = <<>>, !.hits = {}, !.told = how,
                    !.at = IF call[c].input.agent THEN "agent" ELSE "told"]

Ends(c, how) == call' = [call EXCEPT ![c] = Finished(c, how)]

\* Any exception but BackendError: the handler is run once more, after a pause.
Crashed(c) ==
    IF call[c].tries < 2
    THEN [call[c] EXCEPT !.at = "pause", !.todo = <<>>, !.hits = {}]
    ELSE Finished(c, "failed")

AwaitingBackend(c) == call[c].at \in {"lookup", "read", "dictionary"}

\* Malformed JSON, an unexpected shape.
Crash(c) ==
    /\ AwaitingBackend(c)
    /\ call' = [call EXCEPT ![c] = Crashed(c)]
    /\ UnchangedButCall

Retry(c) ==
    /\ call[c].at = "pause"
    /\ call' = [call EXCEPT ![c].at = "start"]
    /\ UnchangedButCall

\* wait_for: the handler is cancelled where it awaits, and not run again.  The
\* pause is not timed.
TimeOutCall(c) ==
    /\ \/ AwaitingBackend(c)
       \/ call[c].at = "knowledge" /\ query[c].at \notin Over
    /\ Ends(c, "timeout")
    /\ IF call[c].at = "knowledge" THEN TimeOut(c) ELSE UNCHANGED retrievalVars
    /\ UNCHANGED <<who, batch, storeVars, frozen, settled>>

\* The agent is cancelled, wherever its own call is.
TimeOutAgent(c) ==
    /\ ~Told(c)
    /\ call[c].input.agent
    /\ call' = [call EXCEPT ![c] = [Finished(c, "timeout") EXCEPT !.at = "told"]]
    /\ UnchangedButCall

\* The agent answers, or it does not finish: subagent.py maps its status.
AgentEnds(c) ==
    /\ call[c].at = "agent"
    /\ \E how \in {"ok", "error"} :
         call' = [call EXCEPT ![c] = [Finished(c, how) EXCEPT !.at = "told"]]
    /\ UnchangedButCall

-----------------------------------------------------------------------------
(* The handlers                                                            *)

RoutePrimaryOnly(input) == <<SystemFor[input.name]>>

\* _resolve_system_no, then _candidate_systems without it.
Route(input) ==
    LET primary == SystemFor[input.name] IN
    IF input.name \in Umbrella THEN <<primary>>
    ELSE <<primary>> \o Picked(Systems, {i \in DOMAIN Systems : Systems[i] # primary})

\* _device_page: an umbrella word is no filter.
Page(system, input) ==
    {d \in Device : /\ SystemOf[d] = system
                    /\ input.name \in Umbrella \/ input.name \in NameOf[d]
                    /\ input.region # NoRegion => RegionOf[d] = input.region}

\* The device of the write, when d is the one that was found or that the
\* model gave the coordinates of: an id that the model gave stays.
DeviceId(input, d) ==
    IF input.device # NoDevice THEN input.device
    ELSE IF input.point = NoDevice THEN d ELSE NoDevice

Coordinates(c, d) ==
    [call[c] EXCEPT !.at = "dictionary", !.hits = {d}, !.todo = <<>>]

Proposal(c, d, write) ==
    [by |-> c, batch |-> batch, input |-> call[c].input,
     device |-> DeviceId(call[c].input, d), point |-> d,
     param |-> write.param, value |-> write.value, action |-> write.action]

ConfirmedAnyway(c, done) == [Finished(c, "ok") EXCEPT !.handle = Len(proposals) + 1]

Confirmed(c, done) ==
    IF done = Returned THEN [Finished(c, "ok") EXCEPT !.handle = Len(proposals) + 1] ELSE Crashed(c)

\* The proposal is put, and only then reported.
Register(c, d, write) ==
    /\ \E done \in Puts :
         /\ PutSome(Proposal(c, d, write), done)
         /\ call' = [call EXCEPT ![c] = Confirmed(c, done)]
    /\ UNCHANGED <<who, batch, frozen, settled, retrievalVars>>

\* ground_control up to its request; a door is written to at once.
GroundFor(c, d) ==
    LET input == call[c].input IN
    IF DeviceId(input, d) = BadId THEN Ends(c, "error") /\ UnchangedButCall
    ELSE IF IsDoorAction(d \in DoorDevice, input.param, input.value)
    THEN Register(c, d, DoorAction(input.param, input.value))
    ELSE call' = [call EXCEPT ![c] = Coordinates(c, d)] /\ UnchangedButCall

\* propose_control with the coordinates of a point, or without anything.
Locates(input) == input.tool = "propose_control" /\ input.point # NoDevice

Nameless(input) ==
    input.tool = "propose_control" /\ input.point = NoDevice /\ input.name = NoName

LooksUp(input) ==
    \/ input.tool = "device_status"
    \/ input.tool = "propose_control" /\ ~Locates(input) /\ ~Nameless(input)

\* The requests of the read tools: an overview of the records, the states of
\* one kind, and a list of it.  A period without records is asked about once
\* more without the period, and that may fail; so may the second request
\* about the health of the devices.
Records == {<<"must">>, <<"must", "must">>, <<"must", "must", "must">>}

RecordsAgain(plan) == plan \o [i \in DOMAIN plan |-> "may"]

RecordQuery == Records \cup {RecordsAgain(plan) : plan \in Records}

DeviceHealth == {<<"must", "may">>}

EnergyQuery == {<<"must">>}

ReadPlan == [record_query |-> RecordQuery, device_health |-> DeviceHealth,
             energy_query |-> EnergyQuery]

Start(c) ==
    /\ call[c].at = "start"
    /\ LET input == call[c].input
           Go(place, todo) ==
             call' = [call EXCEPT ![c].at = place, ![c].todo = todo, ![c].tries = @ + 1]
       IN CASE Locates(input) -> Go("coordinates", <<>>) /\ UnchangedButCall
            [] Nameless(input) -> Ends(c, "error") /\ UnchangedButCall
            [] input.tool \in LifeTools -> Ends(c, "ok") /\ UnchangedButCall
            [] LooksUp(input) -> Go("lookup", Route(input)) /\ UnchangedButCall
            [] input.tool = "knowledge_query" ->
                 /\ Go("knowledge", <<>>)
                 /\ Ask(c)
                 /\ UNCHANGED <<who, batch, storeVars, frozen, settled>>
            [] input.tool \in DOMAIN ReadPlan ->
                 \E plan \in ReadPlan[input.tool] : Go("read", plan) /\ UnchangedButCall

FirstHit(hits, name) ==
    LET exact == {d \in hits : Exact[d] = name} IN
    IF Cardinality(hits) = 1 THEN hits ELSE exact

\* What the handlers make of the hits: propose_control needs a single device,
\* or a single one of exactly that name.
Looked(c, hits) ==
    IF call[c].input.tool = "device_status" \/ hits = {}
    THEN Ends(c, IF hits = {} THEN "none_found" ELSE "ok") /\ UnchangedButCall
    ELSE LET choice == FirstHit(hits, call[c].input.name) IN
         IF Cardinality(choice) = 1 THEN \E d \in choice : GroundFor(c, d)
         ELSE Ends(c, "error") /\ UnchangedButCall

\* The model gave the coordinates itself.
Given(c) ==
    /\ call[c].at = "coordinates"
    /\ GroundFor(c, call[c].input.point)

\* One page of device_status: the next system is asked when this one has nothing.
Lookup(c) ==
    /\ call[c].at = "lookup"
    /\ LET hits == Page(Head(call[c].todo), call[c].input) IN
       IF hits = {} /\ Tail(call[c].todo) # <<>>
       THEN call' = [call EXCEPT ![c].todo = Tail(@)] /\ UnchangedButCall
       ELSE Looked(c, hits)

\* The dictionary of the device arrives.
Dictionaries(c) ==
    /\ call[c].at = "dictionary"
    /\ \E d \in call[c].hits :
         LET write == Ground(TypeOf[d], Dictionary[d], call[c].input.param, call[c].input.value)
         IN IF write.ok THEN Register(c, d, write) ELSE Ends(c, "error") /\ UnchangedButCall

\* One request of a read tool is answered; the tool is done after its last.
Reading(c) ==
    /\ call[c].at = "read"
    /\ LET left == Tail(call[c].todo) IN
       call' = [call EXCEPT ![c] = IF left = <<>> THEN Finished(c, "ok")
                                   ELSE [call[c] EXCEPT !.todo = left]]
    /\ UnchangedButCall

\* BackendError: an error of the tool, but for the requests that may fail.
Refused(c) ==
    /\ AwaitingBackend(c)
    /\ Ends(c, IF call[c].at = "read" /\ Head(call[c].todo) = "may" THEN "ok" ELSE "error")
    /\ UnchangedButCall

\* knowledge_query: a search that cannot be made is an error of the tool.
KnowledgeAnswered(c) ==
    /\ call[c].at = "knowledge"
    /\ query[c].at \in Over
    /\ Ends(c, IF query[c].at = "unavailable" THEN "error" ELSE "ok")
    /\ query' = [query EXCEPT ![c] = NoQuery]
    /\ UNCHANGED <<who, batch, storeVars, frozen, settled, executorVars>>

Retrieving(c) ==
    /\ call[c].at = "knowledge"
    /\ RetrievalStep(c)
    /\ UNCHANGED <<who, batch, call, storeVars, frozen, settled>>

-----------------------------------------------------------------------------
(* The confirmation                                                        *)

\* The calls are settled in order, and whatever is settled is popped: a handle
\* is sent if it is approved the first time it comes up, and still stored.
FirstTime(i) == \A j \in 1..(i - 1) : frozen[j] # frozen[i]

Sent(approved) == {i \in approved : FirstTime(i) /\ frozen[i] \in live}

\* What was sent once is in the ledger; a send that failed is not.
Answer(approved, i, failed) ==
    LET sent == {j \in Sent(approved) : frozen[j] = frozen[i]} IN
    CASE frozen[i] = 0 -> "no_proposal"
      [] frozen[i] # 0 /\ i \notin approved -> "not_executed"
      [] i \in approved /\ sent \ failed # {} -> "executed"
      [] i \in failed -> "error"
      [] OTHER -> "expired"

\* An approved proposal that expired is not popped.
Settle ==
    /\ frozen # <<>>
    /\ \A c \in Caller : Told(c)
    /\ \E approved \in SUBSET DOMAIN frozen :
         /\ Pop({frozen[i] : i \in Sent(approved) \cup (DOMAIN frozen \ approved)})
         /\ \E failed \in SUBSET Sent(approved) :
              settled' = [i \in DOMAIN frozen |->
                            [handle |-> frozen[i], answer |-> Answer(approved, i, failed)]]
    /\ frozen' = <<>>
    /\ UNCHANGED <<who, batch, call, retrievalVars>>

-----------------------------------------------------------------------------
Call(c) ==
    \/ Start(c) \/ Given(c) \/ Lookup(c) \/ Dictionaries(c) \/ Reading(c) \/ Refused(c)
    \/ Crash(c) \/ Retry(c) \/ TimeOutCall(c) \/ TimeOutAgent(c) \/ AgentEnds(c)
    \/ KnowledgeAnswered(c) \/ Retrieving(c)

Next ==
    \/ AskTools \/ Settle \/ Expire
    \/ \E c \in Caller : Call(c)
    \/ \E w \in Worker : Thread(w) /\ UNCHANGED <<who, batch, call, storeVars, frozen, settled, query>>

Spec == InitTool /\ [][Next]_vars

-----------------------------------------------------------------------------
(* Properties                                                              *)

Handles == 1..Len(proposals)

System == {SystemOf[d] : d \in Device} \cup ToSet(Systems) \cup {SystemFor[w] : w \in Word}

CallRecord ==
    [input : Input,
     at : {"told", "agent", "start", "pause", "coordinates", "lookup", "read", "dictionary",
           "knowledge"},
     tries : 0..2, todo : Seq(System \cup {"must", "may"}), hits : SUBSET Device,
     handle : Nat,
     told : {"none", "pending", "blocked", "unknown_tool", "ok", "none_found", "error", "timeout",
             "failed"}]

Written ==
    [by : Caller, batch : Nat, input : Input,
     device : Device \cup {NoDevice, BadId}, point : Device,
     param : Word \cup {"channelControl"}, value : Word, action : {"deviceCtrl", "doorControl"}]

Outcome == {"no_proposal", "not_executed", "executed", "error", "expired"}

\* The calls, the queries and the store are well formed: a handle is never
\* shown to a user or listed before its proposal was written
\* (proposal.py:97-104).
ToolTypeOK ==
    /\ RetrievalTypeOK
    /\ session \in Sessions
    /\ permissions \in Login(session.user)
    /\ batch \in 0..Len(session.batches)
    /\ call \in [Caller -> CallRecord]
    /\ proposals \in Seq(Written)
    /\ live \cup index \cup ofThread \subseteq Handles
    /\ frozen \in Seq(Handles \cup {0})
    /\ settled \in Seq([handle : Handles \cup {0}, answer : Outcome])

\* Nothing of a control comes about for a principal who is not entitled to it,
\* by none of the ways that lead to the handlers: no proposal is written, by
\* the agent neither, and the user is asked about none; a login that failed
\* entitles to nothing, and the policy of the organisation cannot be got round.
\* The two layers agree: the model is blocked exactly where it was not shown
\* the tool (gate.py:5-13, loader.py:3-4, subagent.py:56).
OnlyPermitted ==
    /\ proposals # <<>> \/ frozen # <<>> \/ settled # <<>> => "device:control" \in permissions
    /\ permissions \cap Withheld(session.user.role) = {}
    /\ \A c \in Caller :
         LET input == call[c].input
             tool == IF input.agent THEN "facility_agent" ELSE input.tool IN
         tool \in TopTools =>
           (call[c].told = "blocked" <=> tool \notin SelectToolset(permissions))

\* Whatever words the model used and whichever way the device was found, what
\* is registered is a legal write to the device: a controllable parameter of
\* its dictionary, off the denylist, with an enabled state or a number within
\* its bounds; or the fixed action of a door (grounding.py:3-10).
ProposalGrounded ==
    \A h \in Handles :
      LET p == proposals[h] IN
      /\ p.device # BadId
      /\ \/ Legal(TypeOf[p.point], Dictionary[p.point], p)
         \/ p.point \in DoorDevice /\ p.action = "doorControl" /\ p.value \in Opening

Answering(c) == Told(c) /\ ~call[c].input.agent

\* What the model is told agrees with the store, in spite of timeouts, crashes
\* and the retry.  A proposal that is called registered can be found in the
\* thread and in the index for as long as it is stored; in memory, a call that
\* is said to have failed has left none behind; and one that was carried out,
\* refused by the device or rejected can not be confirmed again, whatever its
\* doubles in the batch came to (dispatch.py:88-109, propose.py:78-84,
\* proposal_control.py:84-147).
ReportMatchesStore ==
    /\ \A c \in Caller :
         /\ Answering(c)
         /\ call[c].input.tool = "propose_control"
         =>
         IF call[c].told = "ok"
         THEN /\ call[c].handle \in Handles
              /\ call[c].handle \in live => call[c].handle \in index \cap ofThread
         ELSE session.redis \/ \A h \in Handles : ~(proposals[h].by = c /\ proposals[h].batch = batch)
    /\ \A i \in DOMAIN settled :
         settled[i].answer \in {"executed", "not_executed", "error"}
         => settled[i].handle \notin live \cup index

\* "No such device" is said only when no configured system has one: the
\* fallback reaches them all.  An umbrella word means its own system only
\* (backend.py:411-429).
FoundWherever ==
    \A c \in Caller :
      /\ Answering(c)
      /\ call[c].told = "none_found"
      /\ call[c].input.name \notin Umbrella
      => \A s \in ToSet(Systems) : Page(s, call[c].input) = {}

\* The devices that a name can mean: those of exactly that name, or else all
\* whose name contains it.
Meant(name) ==
    LET exactly == {d \in Device : Exact[d] = name} IN
    IF exactly # {} THEN exactly ELSE {d \in Device : name \in NameOf[d]}

\* A proposal made by name writes to the only device that the name can mean
\* (propose.py:48-49).
UniqueTarget ==
    \A h \in Handles :
      LET p == proposals[h] IN p.input.point = NoDevice => Meant(p.input.name) = {p.device}
=============================================================================
