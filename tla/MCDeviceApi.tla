---------------------------- MODULE MCDeviceApi -----------------------------
(***************************************************************************)
(* TLC instance of DeviceApi: every resource type and adapter method, two  *)
(* ids, two contents and two VDOMs.                                        *)
(***************************************************************************)
EXTENDS DeviceApi, TLC

CONSTANTS k1, k2, s1, s2, i1, i2, d1, d2, root, dmz

MCCallers == {k1, k2}
MCIds == {i1, i2}
MCData == {d1, d2}
MCVdoms == {root, dmz}
MCSlots == {s1, s2}
MCContended == {"firewall_policy"}

(* Callers, late requests, ids and contents are interchangeable. *)
Symmetry ==
    UNION {Permutations(set) : set \in {MCCallers, MCSlots, MCIds, MCData}}
=============================================================================
