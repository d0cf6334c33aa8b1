------------------------ MODULE MCConnectionManager ------------------------
(* Calls, clients, devices and VDOMs are interchangeable. *)
EXTENDS ConnectionManager, TLC

Symmetry ==
    Permutations(Calls) \cup Permutations(Clients) \cup Permutations(Devices)
      \cup Permutations(Vdoms)

=============================================================================
