---------------------------- MODULE ChangeClaims ----------------------------
(***************************************************************************)
(* What a test says of changes and the code does not keep: checked, and    *)
(* found violated, by a run of its own (README.md, "Findings").            *)
(***************************************************************************)
EXTENDS ChangeEngine

(* tests/test_fortinet_change_service.py:120 test_apply_twice_raises_already_ *)
(* resolved: the second apply of a change is refused, so the device carries   *)
(* a change out at most once (overlapping applies all read "proposed").       *)
AppliedAtMostOnce == \A c \in Changes : hist[c].executed < Many

=============================================================================
