---------------------------- MODULE MCInventory -----------------------------
(***************************************************************************)
(* TLC instance of Inventory and DeviceResolver: two calls that overlap    *)
(* with a migration.  The customer FW has a name with which a device name  *)
(* starts, in another case, and both customers may have devices of the     *)
(* same name.                                                              *)
(***************************************************************************)
EXTENDS DeviceResolver, TLC

CONSTANTS c1, c2

MCCalls == {c1, c2}
MCConfig == <<"fw1", "core">>

(* The overlapping calls are interchangeable. *)
Symmetry == Permutations(MCCalls)

MCTargets == {"fw", "fw1", "FW1", "core", "leg", "default", "10.0.0.1", "3"}
MCHostOf == [name \in {"fw1", "core"} |-> IF name = "fw1" THEN "10.0.0.1" ELSE "10.0.0.2"]
MCLower ==
    [text \in MCTargets \cup {"FW", "Legacy", "Default", "10.0.0.2"} |->
        CASE text = "FW1"     -> "fw1"
          [] text = "FW"      -> "fw"
          [] text = "Legacy"  -> "legacy"
          [] text = "Default" -> "default"
          [] OTHER            -> text]
MCPrefixes ==
    {<<"fw", "fw1">>, <<"leg", "legacy">>}
        \cup {<<text, text>> : text \in {"fw", "fw1", "core", "default"}}
MCIdText == [id \in 0..20 |-> ToString(id)]
=============================================================================
