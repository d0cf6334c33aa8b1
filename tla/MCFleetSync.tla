---------------------------- MODULE MCFleetSync ----------------------------
(***************************************************************************)
(* Four devices, two of which have the same name at different sites; two   *)
(* variants of an address object, and two static routes, which have no     *)
(* name.                                                                   *)
(***************************************************************************)
EXTENDS FleetSync, TLC

CONSTANTS src, dst, twin, far, x1, x2, r1, r2

MCDeviceName == (src :> "fw" @@ twin :> "fw" @@ dst :> "fw2" @@ far :> "fw3")

MCType == (x1 :> "address_object" @@ x2 :> "address_object" @@
           r1 :> "static_route" @@ r2 :> "static_route")

MCName == (x1 :> "x" @@ x2 :> "x" @@ r1 :> Unnamed @@ r2 :> Unnamed)

MCConfigs == {src :> {x1, r1, r2} @@ dst :> {} @@ twin :> {x2} @@ far :> {r2}}

Address == <<"address_object">>
Both == <<"address_object", "static_route">>
Twice == <<"address_object", "address_object">>
NoList == <<"dns", "static_route">>

Plan == [mode |-> "read_only", confirm |-> FALSE]
Confirmation == [mode |-> "full", confirm |-> TRUE]
Cautious == [mode |-> "safe", confirm |-> TRUE]
Forbidden == [mode |-> "read_only", confirm |-> TRUE]

Ask(kind, from, to, types, ways) ==
    {[kind |-> kind, source |-> from, dests |-> to, types |-> types,
      mode |-> w.mode, confirm |-> w.confirm] : w \in ways}

MCRequests ==
    Ask("sync", src, {dst}, Address, {Plan, Confirmation, Cautious, Forbidden}) \cup
    Ask("sync", src, {dst}, <<"dns">>, {Plan}) \cup
    Ask("sync", dst, {src}, <<"static_route">>, {Confirmation}) \cup
    Ask("replicate", src, Devices, Both, {Plan, Confirmation, Forbidden}) \cup
    Ask("replicate", src, {dst}, Twice, {Cautious}) \cup
    Ask("replicate", dst, {dst, src}, NoList, {Confirmation})

Symmetry == Permutations(Calls)

=============================================================================
