------------------------ MODULE MCControlCapability -------------------------
(* Instances of ControlCapability for TLC. *)
EXTENDS ControlCapability, TLC

CONSTANTS h1, h2, h3, a, b, c1, c2

\* Session a registered h1 and h2; h3, irreversible, has no session id.
MCThreadOf == (h1 :> a) @@ (h2 :> a) @@ (h3 :> NoThread)

\* The production ledger with durable proposals; the ledger resolve() was written
\* against, with either proposal store; and the demo's dict, one call at a time.
MCDeployments ==
    [ledger : {"pg"}, durable : {TRUE}, serial : {FALSE}]
    \cup [ledger : {"status"}, durable : BOOLEAN, serial : {FALSE}]
    \cup [ledger : {"status"}, durable : {TRUE}, serial : {TRUE}]
    \cup [ledger : {"memory"}, durable : {FALSE}, serial : {TRUE}]

\* The production ledger, confirmations one at a time.
MCPgSerial == [ledger : {"pg"}, durable : {TRUE}, serial : {TRUE}]

CallSymmetry == Permutations(Call)
=============================================================================
