--------------------------- MODULE LegacyManager ---------------------------
(***************************************************************************)
(* FortiGateManager (core/fortigate.py): the devices of the configuration  *)
(* file and those added by add_device, each with a FortiGateAPI whose HTTP *)
(* client stays open.  resolve_adapter() looks here first.                 *)
(*                                                                         *)
(* Everything runs on one event loop.  aclose() marks a client closed      *)
(* before it awaits, and returns at once when it is closed already.        *)
(***************************************************************************)
EXTENDS Naturals, FiniteSets

CONSTANTS
    Calls,          \* how many calls may be in progress at once
    Ids,            \* device ids
    Clients,        \* bound: the FortiGateAPI objects that can be made
    None

ASSUME ManagerAssumption ==
    /\ IsFiniteSet(Ids)
    /\ None \notin Ids \cup Clients

VARIABLES
    devices,    \* self.devices: the client of each registered device
    client,     \* every client: not made, open or closed
    call,
    cut,        \* history: clients close_all closed, or whose removal was cancelled
    raced       \* history: calls whose removal another removal of the device overlaps

vars == <<devices, client, call, cut, raced>>

-----------------------------------------------------------------------------
PC == {"idle", "remove", "close_all"}

Call ==
    [pc : PC,
     id : Ids \cup {None},      \* the device it removes
     api : Clients \cup {None}, \* the client it closes
     size : Nat,                \* close_all: len(self.devices) when it began
     done : SUBSET Clients]     \* close_all: the clients it has come to

IdleCall == [pc |-> "idle", id |-> None, api |-> None, size |-> 0, done |-> {}]

(* What get_device() finds and list_devices() lists. *)
Registered == {id \in Ids : devices[id] # None}

TypeOK ==
    /\ devices \in [Ids -> Clients \cup {None}]
    /\ client \in [Clients -> {"unborn", "open", "closed"}]
    /\ call \in [Calls -> Call]
    /\ cut \subseteq Clients
    /\ raced \subseteq {k \in Calls : call[k].pc = "remove"}
    /\ \A k \in Calls : call[k].pc = "remove" => call[k].id # None /\ call[k].api # None

(* Configured devices get a client each, or, when making it failed, none. *)
Init ==
    /\ devices \in [Ids -> Clients \cup {None}]
    /\ \A i, j \in Registered : devices[i] = devices[j] => i = j
    /\ client = [c \in Clients |-> IF \E id \in Ids : devices[id] = c
                                   THEN "open" ELSE "unborn"]
    /\ call = [k \in Calls |-> IdleCall]
    /\ cut = {}
    /\ raced = {}

AddReplacing(id) ==
    \E c \in Clients :
        /\ client[c] = "unborn"
        /\ client' = [client EXCEPT ![c] = "open"]
        /\ devices' = [devices EXCEPT ![id] = c]
        /\ UNCHANGED <<call, cut, raced>>

(* add_device(): refused for an id it knows. *)
Add(id) ==
    /\ id \notin Registered
    /\ \E c \in Clients :
          /\ client[c] = "unborn"
          /\ client' = [client EXCEPT ![c] = "open"]
          /\ devices' = [devices EXCEPT ![id] = c]
    /\ UNCHANGED <<call, cut, raced>>

-----------------------------------------------------------------------------
Removers(id) == {k \in Calls : call[k].pc = "remove" /\ call[k].id = id}

Race(id, newcomers) ==
    raced' = IF Removers(id) = {} THEN raced ELSE raced \cup Removers(id) \cup newcomers

RemoveUnclosed(k, id) ==
    /\ call[k] = IdleCall
    /\ id \in Registered
    /\ call' = [call EXCEPT ![k] = [@ EXCEPT !.pc = "remove", !.id = id, !.api = devices[id]]]
    /\ Race(id, {k})
    /\ UNCHANGED <<devices, client, cut>>

(* remove_device(): the client is closed, and the call waits for that. *)
Remove(k, id) ==
    /\ call[k] = IdleCall
    /\ id \in Registered
    /\ client[devices[id]] = "open"
    /\ client' = [client EXCEPT ![devices[id]] = "closed"]
    /\ call' = [call EXCEPT ![k] = [@ EXCEPT !.pc = "remove", !.id = id, !.api = devices[id]]]
    /\ Race(id, {k})
    /\ UNCHANGED <<devices, cut>>

(* The client is closed already: the device is out at once, whoever else   *)
(* is removing it.                                                         *)
RemoveClosed(id) ==
    /\ id \in Registered
    /\ client[devices[id]] = "closed"
    /\ devices' = [devices EXCEPT ![id] = None]
    /\ Race(id, {})
    /\ UNCHANGED <<client, call, cut>>

RemovedKept(k) ==
    /\ call[k].pc = "remove"
    /\ call' = [call EXCEPT ![k] = IdleCall]
    /\ raced' = raced \ {k}
    /\ UNCHANGED <<devices, client, cut>>

(* The entry of that id is deleted, whatever it is by now; KeyError when   *)
(* there is none.                                                          *)
Removed(k) ==
    /\ call[k].pc = "remove"
    /\ devices' = [devices EXCEPT ![call[k].id] = None]
    /\ call' = [call EXCEPT ![k] = IdleCall]
    /\ raced' = raced \ {k}
    /\ UNCHANGED <<client, cut>>

(* close_all(), which no tool calls: it iterates over the dictionary. *)
CloseAll(k) ==
    /\ call[k] = IdleCall
    /\ call' = [call EXCEPT ![k] =
          [@ EXCEPT !.pc = "close_all", !.size = Cardinality(Registered)]]
    /\ UNCHANGED <<devices, client, cut, raced>>

(* The next entry, which may have come after the iteration began.          *)
CloseNext(k, id) ==
    /\ call[k].pc = "close_all"
    /\ Cardinality(Registered) = call[k].size
    /\ id \in Registered /\ devices[id] \notin call[k].done
    /\ client' = [client EXCEPT ![devices[id]] = "closed"]
    /\ cut' = cut \cup {devices[id]}
    /\ call' = [call EXCEPT ![k].done = @ \cup {devices[id]}]
    /\ UNCHANGED <<devices, raced>>

(* It is through, or the dictionary has changed its size: RuntimeError. *)
CloseEnds(k) ==
    /\ call[k].pc = "close_all"
    /\ \/ \A id \in Registered : devices[id] \in call[k].done
       \/ Cardinality(Registered) # call[k].size
    /\ call' = [call EXCEPT ![k] = IdleCall]
    /\ UNCHANGED <<devices, client, cut, raced>>

CancelHalfDone(k) ==
    /\ call[k].pc # "idle"
    /\ call' = [call EXCEPT ![k].id = None]
    /\ UNCHANGED <<devices, client, cut, raced>>

(* A call is cancelled at its await: a device it was removing stays, with  *)
(* a closed client.                                                        *)
Cancel(k) ==
    /\ call[k].pc # "idle"
    /\ cut' = IF call[k].pc = "remove" THEN cut \cup {call[k].api} ELSE cut
    /\ call' = [call EXCEPT ![k] = IdleCall]
    /\ raced' = raced \ {k}
    /\ UNCHANGED <<devices, client>>

Next ==
    \/ \E id \in Ids : Add(id) \/ RemoveClosed(id)
    \/ \E k \in Calls, id \in Ids : Remove(k, id) \/ CloseNext(k, id)
    \/ \E k \in Calls : Removed(k) \/ CloseAll(k) \/ CloseEnds(k) \/ Cancel(k)

Spec == Init /\ [][Next]_vars

-----------------------------------------------------------------------------
Owned(c) == \E id \in Ids : devices[id] = c

(* An open client is found in the registry until it is closed, whatever    *)
(* adds, removals, cancellations and broken-off close_alls interleave; the *)
(* one step that loses it is the end of a removal that another removal of  *)
(* the device overlapped: it deletes what was added under the id since.    *)
LostOnlyInARace ==
    [][\A c \in Clients :
        client[c] = "open" /\ Owned(c) /\ ~Owned(c)' =>
            \E k \in raced : devices[call[k].id] = c /\ call'[k] = IdleCall]_vars

(* While remove_device waits, the client it took is closed and registered  *)
(* under its own id only: when it resumes that client is out for good,     *)
(* however many removals of the device overlap.  And it takes out that     *)
(* client and not one added under the id meanwhile, unless another removal *)
(* of the device began, or took it out, while this one waited.             *)
RemovesWhatItClosed ==
    \A k \in Calls : call[k].pc = "remove" =>
        /\ client[call[k].api] = "closed"
        /\ \A id \in Ids : devices[id] = call[k].api => id = call[k].id
        /\ devices[call[k].id] = call[k].api \/ k \in raced

(* get_device() hands out a closed client only while its device is being   *)
(* removed, or after close_all or a cancelled removal.                     *)
ClosedOnlyIfCut ==
    \A id \in Registered :
        client[devices[id]] = "closed" => Removers(id) # {} \/ devices[id] \in cut

=============================================================================
