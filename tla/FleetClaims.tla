---------------------------- MODULE FleetClaims ----------------------------
(* What a comment says of replicate_config, and a tool description of        *)
(* fleet_sync_objects, and the code does not keep.                           *)
EXTENDS MCFleetSync

(* services/fleet_service.py:215 "skip replicating a device onto itself if   *)
(* it's in the resolved scope": a report speaks of every other device in the *)
(* scope.                                                                    *)
SkipsOnlyItself ==
    \A k \in Calls : Returned(k) =>
        \A d \in call[k].req.dests \ {call[k].req.source} :
            d \in report[k].errors \/ \E e \in report[k].entries : e.dest = d

(* mcp/tools/fleet_tools.py:67 "Pass confirm=True to actually execute; still *)
(* blocked by READ_ONLY/SAFE mode.": what a confirmed sync wrote, it wrote   *)
(* as the call of a process in mode FULL.                                    *)
SafeModeBlocks ==
    \A k \in Calls :
        call[k].req # None /\ call[k].req.kind = "sync" /\ hist[k].wrote # {} =>
            call[k].req.mode = "full"

=============================================================================
