----------------------------- MODULE Governance -----------------------------
(***************************************************************************)
(* Who may use which tool: the catalog of the tools with the capability    *)
(* each of them needs, the login that compiles the codes of the backend    *)
(* into the capabilities of a principal, the tools that the model is shown *)
(* and the gate that every call passes, in the main loop and in the        *)
(* sub-agent alike.                                                        *)
(***************************************************************************)
CONSTANTS
    RawCode,      \* the codes of the backend
    Mapping,      \* TableMapper: from some of them to capabilities
    Role,
    DeniedTo,     \* OrgPolicy: what a role may never do
    DeniedToAll   \* and what nobody may do

ASSUME GovernanceAssumption ==
    /\ DOMAIN Mapping \subseteq RawCode
    /\ DOMAIN DeniedTo = Role

-----------------------------------------------------------------------------
(* The catalog                                                             *)

FacilityLeaves == {"device_status", "energy_query", "device_health", "propose_control"}

LifeTools == {"meeting_query", "parking_query", "restaurant_query"}

TopTools == LifeTools \cup {"facility_agent", "record_query", "knowledge_query",
                            "propose_control", "execute_proposal"}

IsControl(tool) == tool = "execute_proposal"

\* The capability a tool needs.  The leaves are in the same catalog; drafting a
\* control takes the same capability as executing it.
Catalog ==
    [tool \in TopTools \cup FacilityLeaves |->
        CASE tool \in {"propose_control", "execute_proposal"} -> "device:control"
          [] tool \in LifeTools -> "life:read"
          [] tool = "record_query" -> "record:read"
          [] tool = "knowledge_query" -> "knowledge:read"
          [] OTHER -> "device:read"]

\* The names a loop can call: all of the catalog, or the leaves of the agent.
Registry(agent) == IF agent THEN FacilityLeaves ELSE DOMAIN Catalog

-----------------------------------------------------------------------------
(* The login                                                               *)

\* A code without an entry is dropped.
Mapped(codes) == {Mapping[c] : c \in codes \cap DOMAIN Mapping}

Withheld(role) == DeniedToAll \cup DeniedTo[role]

ResolveCapabilities(codes, role) == Mapped(codes) \ Withheld(role)

\* The backend may not answer: then the principal has no capability at all.
Login(user) == {ResolveCapabilities(user.codes, user.role), ResolveCapabilities({}, user.role)}

\* ToolLoader: what the model is shown.
SelectToolset(permissions) == {tool \in TopTools : Catalog[tool] \in permissions}

-----------------------------------------------------------------------------
(* The gate                                                                *)

Permitted(tool, permissions) == tool \in DOMAIN Catalog /\ Catalog[tool] \in permissions

\* CatalogGate: deny comes before ask.
Verdict(tool, permissions) ==
    IF ~Permitted(tool, permissions) THEN "deny" ELSE IF IsControl(tool) THEN "ask" ELSE "allow"
=============================================================================
