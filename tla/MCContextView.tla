--------------------------- MODULE MCContextView ---------------------------
(***************************************************************************)
(* A small instance of ContextView.                                        *)
(***************************************************************************)
EXTENDS ContextView

MCTool == {"device_status", "plan", "propose_control", "execute_proposal"}

MCBatch == {<<"device_status">>, <<"plan">>, <<"plan", "device_status">>,
            <<"propose_control">>, <<"execute_proposal">>}
=============================================================================
