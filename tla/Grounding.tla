------------------------------ MODULE Grounding ------------------------------
(***************************************************************************)
(* Control grounding (agent_tools/grounding.py): what a control intention  *)
(* of the model becomes, given the parameter dictionary of the device.     *)
(* The model says a parameter and a value in words; the rules look them up *)
(* and either reject or produce an absolute write.                         *)
(***************************************************************************)
EXTENDS Integers, Sequences

CONSTANTS
    Word,         \* the words for parameters and values, of the model and of the dictionary
    Number,       \* per word: what float() makes of it, or NoNumber
    NoNumber, NaN, NoBound,
    Opening,      \* the words of _door_action
    Irreversible  \* the denylist: parameter codes, and pairs of type and code

ASSUME GroundingAssumption ==
    /\ {NoNumber, NaN, NoBound} \cap Int = {}
    /\ Number \in [Word -> Int \cup {NoNumber, NaN}]
    /\ Opening \subseteq Word

\* One row of the dictionary.  A name is the set of the words it contains.
Param == [no : Word, name : SUBSET Word, ctrl : BOOLEAN, door : BOOLEAN,
          states : Seq([status : Word, value : Word, able : BOOLEAN]),
          lo : Int \cup {NoBound}, hi : Int \cup {NoBound}]

Rejected(code) == [ok |-> FALSE, code |-> code]

First(indices) == CHOOSE i \in indices : \A j \in indices : i <= j

-----------------------------------------------------------------------------
(* _match_param                                                            *)

Coded(params, key) == {i \in DOMAIN params : params[i].no = key}

Named(params, key) == {i \in DOMAIN params : key \in params[i].name}

WithState(params, key) ==
    {i \in DOMAIN params :
        \E k \in DOMAIN params[i].states : params[i].states[k].status = key}

Controllable(params, indices) == {i \in indices : params[i].ctrl}

\* The rows that match, in the order in which they are looked for: a code, a
\* controllable one by name, any by name, one by a state.
MatchParam(params, key) ==
    LET tier == << Coded(params, key), Controllable(params, Named(params, key)),
                   Named(params, key), WithState(params, key) >>
        found == {t \in DOMAIN tier : tier[t] # {}}
    IN IF found = {} THEN 0 ELSE First(tier[First(found)])

-----------------------------------------------------------------------------
(* _resolve_value                                                          *)

AnyState(p, value) ==
    {k \in DOMAIN p.states : value \in {p.states[k].status, p.states[k].value}}

Able(p, value) == {k \in AnyState(p, value) : p.states[k].able}

Bounded(p) == p.lo # NoBound \/ p.hi # NoBound

Below(n, m) == n \in Int /\ m \in Int /\ n < m

\* "nan" is a number, and neither below nor above anything.
InRange(p, value) ==
    /\ Number[value] # NoNumber
    /\ ~Below(Number[value], p.lo)
    /\ ~Below(p.hi, Number[value])

ResolveValue(p, value) ==
    IF p.states # <<>>
    THEN IF Able(p, value) = {} THEN Rejected("value_not_in_enum")
         ELSE [ok |-> TRUE, value |-> p.states[First(Able(p, value))].value]
    ELSE IF ~Bounded(p) THEN Rejected("ungroundable")
    ELSE IF ~InRange(p, value) THEN Rejected("out_of_range")
    ELSE [ok |-> TRUE, value |-> value]

-----------------------------------------------------------------------------
(* ground_control                                                          *)

Denied(type, p) == p.no \in Irreversible \/ <<type, p.no>> \in Irreversible

\* A door is opened and closed by a fixed action, without the dictionary.
IsDoorAction(isDoor, param, value) == isDoor /\ {param, value} \cap Opening # {}

DoorAction(param, value) ==
    [ok |-> TRUE, action |-> "doorControl", param |-> "channelControl",
     value |-> IF value \in Opening THEN value ELSE param]

Ground(type, params, key, value) ==
    LET i == MatchParam(params, key) IN
    IF i = 0 THEN Rejected("param_not_found")
    ELSE IF ~params[i].ctrl THEN Rejected("not_controllable")
    ELSE LET resolved == ResolveValue(params[i], value) IN
         IF ~resolved.ok THEN resolved
         ELSE IF Denied(type, params[i]) THEN Rejected("irreversible_no_idem")
         ELSE [ok |-> TRUE, value |-> resolved.value, param |-> params[i].no,
               action |-> IF params[i].door THEN "doorControl" ELSE "deviceCtrl"]

-----------------------------------------------------------------------------
\* What a write may be, whichever way it was found: the dictionary has a row
\* for it that is controllable and not on the denylist, and the value is one
\* of its enabled states or within its bounds; a door goes its own way.
Legal(type, params, write) ==
    \E i \in DOMAIN params :
      LET p == params[i] IN
      /\ p.no = write.param
      /\ p.ctrl
      /\ ~Denied(type, p)
      /\ write.action = IF p.door THEN "doorControl" ELSE "deviceCtrl"
      /\ IF p.states # <<>>
         THEN \E k \in DOMAIN p.states : p.states[k].able /\ p.states[k].value = write.value
         ELSE /\ Bounded(p)
              /\ Number[write.value] \in Int
              /\ p.lo # NoBound => p.lo <= Number[write.value]
              /\ p.hi # NoBound => Number[write.value] <= p.hi
=============================================================================
