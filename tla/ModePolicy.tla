----------------------------- MODULE ModePolicy -----------------------------
(***************************************************************************)
(* The operating-mode gate (services/mode_policy.py).  A server process    *)
(* reads its mode from FORTINET_MCP_MODE once, at startup; check() then    *)
(* either returns or raises ModeViolationError.                            *)
(***************************************************************************)

OperatingMode == {"read_only", "safe", "full"}

OperationType == {"create", "update", "delete"}

(* check(operation) returns without raising. *)
Permits(mode, operation) ==
    /\ mode # "read_only"
    /\ ~(mode = "safe" /\ operation = "delete")

=============================================================================
