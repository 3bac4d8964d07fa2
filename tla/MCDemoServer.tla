---------------------------- MODULE MCDemoServer ----------------------------
(***************************************************************************)
(* The demo with one or two open pages.                                    *)
(***************************************************************************)
EXTENDS DemoServer

CONSTANTS t1, t2, ops, guest, env, own
=============================================================================
