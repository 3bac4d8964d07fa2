----------------------------- MODULE MCToolBatch -----------------------------
(* An instance of ToolBatch for TLC: two air conditioners of similar names,  *)
(* a lift whose name is part of one of theirs, and a door.                   *)
EXTENDS ToolBatch, TLC

MCParent == [c \in Chunk |-> IF c \in {"row1", "row2"} THEN "table" ELSE NoChunk]
MCLevel == [c \in Chunk |-> IF c = "secret" THEN 2 ELSE 1]
MCClearance == "c1" :> {1} @@ "c2" :> {1, 2}
MCHitList == {<<>>, <<"gist">>, <<"row1", "secret", "row2", "para">>}
MCScoring == {[c \in Chunk |-> 0], [c \in Chunk |-> IF c = "row2" THEN 2 ELSE 1],
              "para" :> 2 @@ "row1" :> 1}

MCWord == {"ac", "u", "u1", "12", "door", "lift", "lifts", "temp", "switch", "fee", "SF", "WD", "KG",
           "FEE", "MODE", "channelControl", "on", "off", "open", "1", "0", "24", "99", "nothing"}
MCNumber == [w \in MCWord |->
    CASE w = "1" -> 1 [] w = "0" -> 0 [] w = "24" -> 24 [] w = "99" -> 99 [] w = "12" -> 12
      [] OTHER -> NoNumber]

MCSystemOf == "u1" :> "kt" @@ "u12" :> "kt" @@ "l12" :> "dt" @@ "gate" :> "mj"
MCSystems == <<"kt", "dt", "mj">>
MCNameOf == "u1" :> {"u", "u1"} @@ "u12" :> {"u", "u1", "12"} @@ "l12" :> {"12", "lift"} @@ "gate" :> {"door"}
MCExact == "u1" :> "u1" @@ "u12" :> "u12" @@ "l12" :> "12" @@ "gate" :> "gate"
MCTypeOf == "u1" :> "KTJZ" @@ "u12" :> "KTJZ" @@ "l12" :> "DT" @@ "gate" :> "RLMJ"
MCRegionOf == "u1" :> "south" @@ "u12" :> "north" @@ "l12" :> "south" @@ "gate" :> "south"
MCSystemFor == [w \in MCWord |-> CASE w = "lifts" -> "dt" [] w = "door" -> "mj" [] OTHER -> "kt"]

Row(no, name, ctrl, states, lo, hi) ==
    [no |-> no, name |-> name, ctrl |-> ctrl, door |-> no = "channelControl",
     states |-> states, lo |-> lo, hi |-> hi]

MCRows == << Row("SF", {"temp"}, FALSE, <<>>, NoBound, NoBound),
             Row("WD", {"temp"}, TRUE, <<>>, 16, 30),
             Row("KG", {"switch"}, TRUE, << [status |-> "on", value |-> "1", able |-> TRUE],
                                            [status |-> "off", value |-> "0", able |-> FALSE] >>,
                 NoBound, NoBound),
             Row("FEE", {"fee"}, TRUE, <<>>, 0, NoBound),
             Row("MODE", {}, TRUE, <<>>, NoBound, NoBound) >>
MCDictionary == [d \in Device |-> IF d = "gate"
    THEN << Row("channelControl", {"door"}, TRUE,
                << [status |-> "1", value |-> "1", able |-> TRUE] >>, NoBound, NoBound) >>
    ELSE MCRows]

Simple(tool) == [tool |-> tool, agent |-> FALSE]
Look(name, region) == [tool |-> "device_status", agent |-> FALSE, name |-> name, region |-> region]
Propose(agent, name, device, point, param, value) ==
    [tool |-> "propose_control", agent |-> agent, name |-> name, region |-> NoRegion,
     device |-> device, point |-> point, param |-> param, value |-> value]
ByName(name, param, value) == Propose(FALSE, name, NoDevice, NoDevice, param, value)

Alone(inputs) == {[c \in Caller |-> IF c = "c1" THEN i ELSE NoInput] : i \in inputs}
Pairs(inputs) == [Caller -> inputs]

\* The codes of the backend carry its own names; one of them means nothing here.
MCMapping == "park:device:list" :> "device:read" @@ "park:device:ctrl" :> "device:control"
    @@ "park:record" :> "record:read" @@ "park:life" :> "life:read" @@ "park:kb" :> "knowledge:read"
MCDeniedTo == "ops" :> {} @@ "staff" :> {"device:control"} @@ "guest" :> {}
Ops == [codes |-> RawCode, role |-> "ops"]
Staff == [codes |-> RawCode, role |-> "staff"]
Guest == [codes |-> {"park:life", "park:kb", "park:unknown"}, role |-> "guest"]

MCSearches == {Simple("knowledge_query"), Simple("record_query")}
MCVariety ==
    {Simple(t) : t \in {"unknown", "device_health", "energy_query", "parking_query"}}
    \cup {Look("lifts", NoRegion), Look("door", "north"), Look("u", "south"),
          Look("lift", NoRegion), Look("nothing", NoRegion)}
    \cup {ByName("12", "switch", "on"), ByName("u", "temp", "24"), ByName("door", "door", "open"),
          ByName("door", "channelControl", "1"), ByName("nothing", "temp", "24"),
          ByName("u1", "temp", "99"), ByName("u1", "switch", "off"), ByName("u1", "SF", "24"),
          ByName("u1", "fee", "1"), ByName("u1", "MODE", "1"), ByName("u1", "nothing", "1"),
          ByName("u1", "on", "on"), ByName(NoName, "temp", "24"),
          Propose(FALSE, "u1", "u12", NoDevice, "temp", "24"),
          Propose(FALSE, "u1", BadId, NoDevice, "temp", "24"),
          Propose(FALSE, NoName, NoDevice, "u1", "WD", "24"),
          Propose(FALSE, NoName, "gate", "gate", "door", "open")}
MCControl == {Simple("execute_proposal"), ByName("u1", "temp", "24"),
              Propose(TRUE, "u1", NoDevice, NoDevice, "temp", "24")}
MCSearching == [user |-> Ops, redis |-> FALSE, batches |-> <<Pairs(MCSearches), Alone({Simple("knowledge_query")})>>]
MCResolving == [user |-> Ops, redis |-> FALSE,
                batches |-> <<Alone(MCVariety), Alone({Simple("execute_proposal")})>>]
MCShortName == {[user |-> Ops, redis |-> FALSE, batches |-> <<Alone({ByName("12", "switch", "on")})>>]}
MCAgain == {Simple("execute_proposal"), ByName("u1", "temp", "24")}
MCControlling(redis, first, again) == [user |-> Ops, redis |-> redis, batches |-> <<Pairs(first), again>>]
MCBarred == {Simple("execute_proposal"), Simple("parking_query"), Look("lift", NoRegion),
             ByName("u1", "temp", "24"), Propose(TRUE, "u1", NoDevice, NoDevice, "temp", "24"),
             [Look("lift", NoRegion) EXCEPT !.agent = TRUE],
             [Simple("knowledge_query") EXCEPT !.agent = TRUE]}
MCTrying(user) == [user |-> user, redis |-> FALSE, batches |-> <<Pairs(MCBarred)>>]
MCSessions == {MCTrying(Staff), MCTrying(Guest), MCSearching, MCResolving, MCControlling(TRUE, MCAgain, Alone(MCAgain)),
               MCControlling(FALSE, MCControl, Pairs(MCAgain))}
=============================================================================
