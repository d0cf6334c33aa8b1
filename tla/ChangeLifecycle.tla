--------------------------- MODULE ChangeLifecycle ---------------------------
(***************************************************************************)
(* What ChangeService promises of a change, seen from outside: it is       *)
(* proposed once, then either carried out on the device or expired, and    *)
(* what was carried out may be undone once.  Doing a thing and recording   *)
(* it are one step here; ChangeEngine takes several.                       *)
(***************************************************************************)
EXTENDS Naturals

CONSTANT Changes

VARIABLES
    phase,      \* where each change is in its life
    executed,   \* how often it was carried out on the device
    undone      \* how often it was undone on the device

vars == <<phase, executed, undone>>

Init ==
    /\ phase = [c \in Changes |-> "absent"]
    /\ executed = [c \in Changes |-> 0]
    /\ undone = [c \in Changes |-> 0]

Propose(c) ==
    /\ phase[c] = "absent"
    /\ phase' = [phase EXCEPT ![c] = "proposed"]
    /\ UNCHANGED <<executed, undone>>

Apply(c) ==
    /\ phase[c] = "proposed"
    /\ phase' = [phase EXCEPT ![c] = "applied"]
    /\ executed' = [executed EXCEPT ![c] = @ + 1]
    /\ UNCHANGED undone

Expire(c) ==
    /\ phase[c] = "proposed"
    /\ phase' = [phase EXCEPT ![c] = "expired"]
    /\ UNCHANGED <<executed, undone>>

Rollback(c) ==
    /\ phase[c] = "applied"
    /\ phase' = [phase EXCEPT ![c] = "rolled_back"]
    /\ undone' = [undone EXCEPT ![c] = @ + 1]
    /\ UNCHANGED executed

Next == \E c \in Changes : Propose(c) \/ Apply(c) \/ Expire(c) \/ Rollback(c)

Spec == Init /\ [][Next]_vars

=============================================================================
