-------------------------- MODULE MCLegacyManager --------------------------
(* Calls, device ids and clients are interchangeable. *)
EXTENDS LegacyManager, TLC

Symmetry == Permutations(Calls) \cup Permutations(Ids) \cup Permutations(Clients)

=============================================================================
