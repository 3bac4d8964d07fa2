------------------------------ MODULE Actuator ------------------------------
(***************************************************************************)
(* What the control path of the park agent promises of each registered     *)
(* control proposal, whatever store, ledger and interleaving serve it:     *)
(* a device command leaves the harness only for a proposal a user has      *)
(* approved, only when the proposal is reversible, and only when every     *)
(* earlier command for the same proposal is known to have failed.          *)
(* ControlCapability implements this specification.                        *)
(***************************************************************************)
EXTENDS Naturals

CONSTANTS
    Handle,      \* the proposals, named by their store handle
    Reversible   \* those a grounding classified as reversible

VARIABLES
    approved,    \* the proposals a user has approved at least once
    attempts,    \* attempts[h]: commands that left the harness for h
    failures     \* failures[h]: those recorded as known to have failed

avars == <<approved, attempts, failures>>

AInit ==
    /\ approved = {}
    /\ attempts = [h \in Handle |-> 0]
    /\ failures = [h \in Handle |-> 0]

\* The user approves a proposal; approving twice is allowed and says nothing new.
AApprove(h) ==
    /\ approved' = approved \cup {h}
    /\ UNCHANGED <<attempts, failures>>

\* A command leaves the harness.
AAttempt(h) ==
    /\ h \in approved
    /\ h \in Reversible
    /\ attempts[h] = failures[h]
    /\ attempts' = [attempts EXCEPT ![h] = @ + 1]
    /\ UNCHANGED <<approved, failures>>

\* The outstanding command is recorded as failed.
AFail(h) ==
    /\ failures[h] < attempts[h]
    /\ failures' = [failures EXCEPT ![h] = @ + 1]
    /\ UNCHANGED <<approved, attempts>>

ANext == \E h \in Handle : AApprove(h) \/ AAttempt(h) \/ AFail(h)

ASpec == AInit /\ [][ANext]_avars
=============================================================================
