----------------------------- MODULE MCRunLoop ------------------------------
(* Instances of RunLoop for TLC. *)
EXTENDS RunLoop, TLC

CONSTANTS plan, read, door, barred, phantom

MCTool == {plan, read, door, barred, phantom}

\* door is a control tool, barred is denied to this user, phantom does not exist.
MCVerdictOf ==
    (plan :> "allow") @@ (read :> "allow") @@ (door :> "ask")
    @@ (barred :> "deny") @@ (phantom :> "unknown")

\* Single calls, and the pairs whose two passes or order matter.
MCTurns ==
    {<<plan>>, <<read>>, <<door>>, <<barred>>,
     <<read, phantom>>, <<door, door>>, <<read, read>>}

\* Few turns, for the instances with several requests.
MCFewTurns == {<<door>>, <<read, phantom>>}
=============================================================================
