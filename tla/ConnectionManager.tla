------------------------- MODULE ConnectionManager -------------------------
(***************************************************************************)
(* ConnectionManager (infra/connection_manager.py): the cache of live      *)
(* device sessions in one server process, the tools and fleet operations   *)
(* that use it, the inventory and keyring it reads, and the credential CLI *)
(* which is another process.                                               *)
(*                                                                         *)
(* Each action is what a call does between two awaits.  httpx marks a      *)
(* client closed before it first awaits, so taking a session out of the    *)
(* cache and closing its client are one step.                              *)
(***************************************************************************)
EXTENDS Naturals

CONSTANTS
    Calls,          \* how many calls may be in progress at once
    Devices,        \* device ids of the inventory, never used again
    Vdoms,
    Clients,        \* bound: the FortiGateAPI objects that can be made
    None,
    Events          \* what else this instance has

EventKinds ==
    {"cli_set", "cli_delete",   \* the CLI stores or deletes a credential
     "cancel",                  \* a call is cancelled
     "remove",                  \* inventory_remove_device
     "evict", "all"}            \* evict_idle and disconnect_all, which nothing calls yet

ASSUME ConnectionAssumption ==
    /\ Events \subseteq EventKinds
    /\ None \notin Vdoms \cup Clients \cup (Devices \X Vdoms)

Keys == Devices \X Vdoms

VARIABLES
    inventory,  \* the devices that have a row
    keyring,    \* the devices whose credential_id has a secret
    sessions,   \* _sessions: the client of the cached session of each key
    client,     \* every client: its state and the key it was made for
    idle,       \* keys of sessions untouched for longer than the idle timeout
    call,
    evicted,    \* clients of the sessions evict_idle returned, not closed yet
    raced,      \* history: clients made while another call made one for the same key
    forsaken,   \* history: clients whose health probe was cancelled
    left        \* history: devices without a row that have a credential again, or still

histories == <<raced, forsaken, left>>

vars == <<inventory, keyring, sessions, client, idle, call, evicted, raced, forsaken, left>>

-----------------------------------------------------------------------------
ClientState == {"unborn", "open", "closed"}

PC == {"idle", "using", "secret", "probe", "disconnect", "all", "remove"}

Call ==
    [pc : PC,
     known : SUBSET Devices,        \* device rows it has loaded
     held : SUBSET Clients,         \* clients of the sessions it was given
     key : Keys \cup {None},        \* what it builds a session for
     made : Clients \cup {None},    \* the client it builds it with
     vdom : Vdoms \cup {None},      \* the VDOM it disconnects, None for all
     todo : SUBSET Keys,            \* keys it has yet to disconnect
     seen : SUBSET Clients]         \* history: clients it is to close

IdleCall ==
    [pc |-> "idle", known |-> {}, held |-> {}, key |-> None, made |-> None,
     vdom |-> None, todo |-> {}, seen |-> {}]

Cached == {key \in Keys : sessions[key] # None}

TypeOK ==
    /\ inventory \subseteq Devices
    /\ keyring \subseteq Devices
    /\ sessions \in [Keys -> Clients \cup {None}]
    /\ client \in [Clients -> [state : ClientState, key : Keys \cup {None}]]
    /\ idle \subseteq Cached
    /\ evicted \subseteq Clients /\ raced \subseteq Clients /\ forsaken \subseteq Clients
    /\ left \subseteq Devices
    /\ call \in [Calls -> Call]
    /\ \A k \in Calls :
          /\ call[k].key # None <=> call[k].pc \in {"secret", "probe"}
          /\ call[k].made # None <=> call[k].pc = "probe"

Open(c) == client[c].state = "open"

Removing(device) == \E k \in Calls : call[k].pc = "remove" /\ device \in call[k].known

(* A key is taken out of the cache, if it is there, and its client closed. *)
DropKeepingEntry(key) ==
    /\ sessions' = sessions
    /\ idle' = idle \ {key}
    /\ client' = [c \in Clients |->
                    IF c = sessions[key] THEN [client[c] EXCEPT !.state = "closed"] ELSE client[c]]

Drop(key) ==
    /\ sessions' = [sessions EXCEPT ![key] = None]
    /\ idle' = idle \ {key}
    /\ client' = [c \in Clients |->
                    IF c = sessions[key] THEN [client[c] EXCEPT !.state = "closed"] ELSE client[c]]

-----------------------------------------------------------------------------
Init ==
    /\ inventory = Devices
    /\ keyring \in SUBSET Devices
    /\ sessions = [key \in Keys |-> None]
    /\ client = [c \in Clients |-> [state |-> "unborn", key |-> None]]
    /\ idle = {}
    /\ call = [k \in Calls |-> IdleCall]
    /\ evicted = {} /\ raced = {} /\ forsaken = {} /\ left = {}

(* resolve_target, list_all_devices: rows are loaded, and kept by the call *)
(* after their database session is closed.                                 *)
Resolve(k, found) ==
    /\ call[k].pc \in {"idle", "using"}
    /\ found # {} /\ found \subseteq inventory
    /\ call' = [call EXCEPT ![k].pc = "using", ![k].known = @ \cup found]
    /\ UNCHANGED <<inventory, keyring, sessions, client, idle, evicted, histories>>

(* get_session() finds the key in the cache. *)
Reuse(k, key) ==
    /\ call[k].pc = "using"
    /\ key[1] \in call[k].known
    /\ sessions[key] # None
    /\ call' = [call EXCEPT ![k].held = @ \cup {sessions[key]}]
    /\ idle' = idle \ {key}
    /\ UNCHANGED <<inventory, keyring, sessions, client, evicted, histories>>

(* get_session() does not find it; _build_session() sees a secret for it.  *)
(* With none it raises, and nothing has changed.                           *)
BuildUncached(k, key) ==
    /\ call[k].pc = "using"
    /\ key[1] \in call[k].known
    /\ key[1] \in keyring
    /\ call' = [call EXCEPT ![k].pc = "secret", ![k].key = key]
    /\ UNCHANGED <<inventory, keyring, sessions, client, idle, evicted, histories>>

Build(k, key) ==
    /\ call[k].pc = "using"
    /\ key[1] \in call[k].known
    /\ sessions[key] = None
    /\ key[1] \in keyring
    /\ call' = [call EXCEPT ![k].pc = "secret", ![k].key = key]
    /\ UNCHANGED <<inventory, keyring, sessions, client, idle, evicted, histories>>

(* The secret is read a second time, a client made with it, and the health *)
(* probe sent.  Others may be probing for the same key.                    *)
ReadSecret(k) ==
    LET rivals == {j \in Calls \ {k} : call[j].key = call[k].key}
    IN  /\ call[k].pc = "secret"
        /\ call[k].key[1] \in keyring
        /\ \E c \in Clients :
              /\ client[c].state = "unborn"
              /\ client' = [client EXCEPT ![c] = [state |-> "open", key |-> call[k].key]]
              /\ call' = [call EXCEPT ![k].pc = "probe", ![k].made = c]
              /\ raced' = IF rivals = {} THEN raced
                          ELSE raced \cup {c} \cup {call[j].made : j \in rivals}
        /\ UNCHANGED <<inventory, keyring, sessions, idle, evicted, forsaken, left>>

(* The secret is gone since: AssertionError, which no tool expects. *)
SecretGone(k) ==
    /\ call[k].pc = "secret"
    /\ call[k].key[1] \notin keyring
    /\ call' = [call EXCEPT ![k] = IdleCall]
    /\ UNCHANGED <<inventory, keyring, sessions, client, idle, evicted, histories>>

(* The device answers: the session is cached and returned. *)
ProbeOk(k) ==
    LET c == call[k].made
    IN  /\ call[k].pc = "probe"
        /\ sessions' = [sessions EXCEPT ![call[k].key] = c]
        /\ idle' = idle \ {call[k].key}
        /\ call' = [call EXCEPT ![k] =
              [@ EXCEPT !.pc = "using", !.key = None, !.made = None,
                        !.held = call[k].held \cup {c}]]
        /\ UNCHANGED <<inventory, keyring, client, evicted, histories>>

ProbeFailedLeft(k) ==
    /\ call[k].pc = "probe"
    /\ call' = [call EXCEPT ![k] = [@ EXCEPT !.pc = "using", !.key = None, !.made = None]]
    /\ UNCHANGED <<inventory, keyring, sessions, client, idle, evicted, histories>>

(* It does not: the client is closed, DeviceConnectionError raised, and a  *)
(* fleet operation goes on to its next device.                             *)
ProbeFailed(k) ==
    /\ call[k].pc = "probe"
    /\ client' = [client EXCEPT ![call[k].made].state = "closed"]
    /\ call' = [call EXCEPT ![k] = [@ EXCEPT !.pc = "using", !.key = None, !.made = None]]
    /\ UNCHANGED <<inventory, keyring, sessions, idle, evicted, histories>>

Finish(k) ==
    /\ call[k].pc = "using"
    /\ call' = [call EXCEPT ![k] = IdleCall]
    /\ UNCHANGED <<inventory, keyring, sessions, client, idle, evicted, histories>>

-----------------------------------------------------------------------------
(* connection_disconnect, for the devices its target resolved to. *)
Disconnect(k, vdom) ==
    /\ call[k].pc = "using"
    /\ call[k].held = {}
    /\ call' = [call EXCEPT ![k] = [@ EXCEPT !.pc = "disconnect", !.vdom = vdom]]
    /\ UNCHANGED <<inventory, keyring, sessions, client, idle, evicted, histories>>

(* The keys disconnect() will take out, as of now. *)
KeysOfFirstOnly(device, vdom) ==
    IF vdom # None THEN {<<device, vdom>>}
    ELSE {CHOOSE key \in Keys : key[1] = device}

KeysOf(device, vdom) ==
    IF vdom # None THEN {<<device, vdom>>} ELSE {key \in Cached : key[1] = device}

(* The clients it is to close. *)
ClientsOf(device, vdom) ==
    {c \in Clients : \E v \in Vdoms : vdom \in {v, None} /\ sessions[<<device, v>>] = c}

(* disconnect() is called for the next of the devices.  (There is no await *)
(* here: what others do before this step they might as well have done      *)
(* before the one it follows.)                                             *)
DisconnectDevice(k, device) ==
    LET keys == KeysOf(device, call[k].vdom)
    IN  /\ call[k].pc = "disconnect"
        /\ call[k].todo = {}
        /\ device \in call[k].known
        /\ call' = [call EXCEPT ![k] =
              [@ EXCEPT !.known = call[k].known \ {device},
                        !.todo = keys,
                        !.seen = call[k].seen \cup ClientsOf(device, call[k].vdom)]]
        /\ UNCHANGED <<inventory, keyring, sessions, client, idle, evicted, histories>>

(* One key is popped, if it is still there, and its client closed. *)
DisconnectKey(k, key) ==
    /\ call[k].pc = "disconnect"
    /\ key \in call[k].todo
    /\ call' = [call EXCEPT ![k].todo = @ \ {key}]
    /\ Drop(key)
    /\ UNCHANGED <<inventory, keyring, evicted, histories>>

Disconnected(k) ==
    /\ call[k].pc = "disconnect"
    /\ call[k].known = {} /\ call[k].todo = {}
    /\ call' = [call EXCEPT ![k] = IdleCall]
    /\ UNCHANGED <<inventory, keyring, sessions, client, idle, evicted, histories>>

(* disconnect_all(): pop() without a default, over a list made beforehand. *)
DisconnectAll(k) ==
    /\ "all" \in Events
    /\ call[k] = IdleCall
    /\ call' = [call EXCEPT ![k] =
          [@ EXCEPT !.pc = "all", !.todo = Cached, !.seen = {sessions[key] : key \in Cached}]]
    /\ UNCHANGED <<inventory, keyring, sessions, client, idle, evicted, histories>>

AllKey(k, key) ==
    /\ call[k].pc = "all"
    /\ key \in call[k].todo
    /\ sessions[key] # None
    /\ call' = [call EXCEPT ![k].todo = @ \ {key}]
    /\ Drop(key)
    /\ UNCHANGED <<inventory, keyring, evicted, histories>>

(* It is through, or raises KeyError at a key no longer there. *)
AllEnds(k) ==
    /\ call[k].pc = "all"
    /\ call[k].todo = {} \/ \E key \in call[k].todo : sessions[key] = None
    /\ call' = [call EXCEPT ![k] = IdleCall]
    /\ UNCHANGED <<inventory, keyring, sessions, client, idle, evicted, histories>>

(* Time passes without get_session() being called for a key. *)
Age(key) ==
    /\ "evict" \in Events
    /\ sessions[key] # None
    /\ idle' = idle \cup {key}
    /\ UNCHANGED <<inventory, keyring, sessions, client, call, evicted, histories>>

(* evict_idle() takes them out and returns them; their clients stay open.   *)
EvictIdle ==
    /\ "evict" \in Events
    /\ idle # {}
    /\ sessions' = [key \in Keys |-> IF key \in idle THEN None ELSE sessions[key]]
    /\ evicted' = evicted \cup {sessions[key] : key \in idle}
    /\ idle' = {}
    /\ UNCHANGED <<inventory, keyring, client, call, histories>>

(* Its caller, of whom there is none in the repository, may close them.     *)
CloseEvicted(c) ==
    /\ c \in evicted
    /\ client' = [client EXCEPT ![c].state = "closed"]
    /\ evicted' = evicted \ {c}
    /\ UNCHANGED <<inventory, keyring, sessions, idle, call, histories>>

-----------------------------------------------------------------------------
(* inventory_remove_device: the row's removal is committed, ...            *)
RemoveRow(k, device) ==
    /\ "remove" \in Events
    /\ call[k] = IdleCall
    /\ device \in inventory
    /\ inventory' = inventory \ {device}
    /\ call' = [call EXCEPT ![k] = [@ EXCEPT !.pc = "remove", !.known = {device}]]
    /\ UNCHANGED <<keyring, sessions, client, idle, evicted, histories>>

RemoveSecretNever(k) ==
    /\ call[k].pc = "remove"
    /\ call' = [call EXCEPT ![k] = IdleCall]
    /\ UNCHANGED <<inventory, keyring, sessions, client, idle, evicted, histories>>

(* ... then its credential is deleted from the keyring. *)
RemoveSecret(k) ==
    /\ call[k].pc = "remove"
    /\ keyring' = keyring \ call[k].known
    /\ call' = [call EXCEPT ![k] = IdleCall]
    /\ UNCHANGED <<inventory, sessions, client, idle, evicted, histories>>

(* fortinet-mcp-cred set and delete. *)
CliSet(device) ==
    /\ "cli_set" \in Events
    /\ keyring' = keyring \cup {device}
    /\ left' = IF device \in inventory \/ Removing(device) THEN left ELSE left \cup {device}
    /\ UNCHANGED <<inventory, sessions, client, idle, call, evicted, raced, forsaken>>

CliDelete(device) ==
    /\ "cli_delete" \in Events
    /\ keyring' = keyring \ {device}
    /\ UNCHANGED <<inventory, sessions, client, idle, call, evicted, histories>>

CancelHalfDone(k) ==
    /\ "cancel" \in Events
    /\ call[k].pc \in {"using", "probe", "disconnect", "all", "remove"}
    /\ call' = [call EXCEPT ![k].pc = "idle"]
    /\ UNCHANGED <<inventory, keyring, sessions, client, idle, evicted, histories>>

(* A call is cancelled at its await; nobody closes a client it was probing *)
(* with, or deletes the credential of a device it was removing.            *)
Cancel(k) ==
    /\ "cancel" \in Events
    /\ call[k].pc \in {"using", "probe", "disconnect", "all", "remove"}
    /\ forsaken' = IF call[k].pc = "probe" THEN forsaken \cup {call[k].made} ELSE forsaken
    /\ left' = IF call[k].pc = "remove" THEN left \cup call[k].known ELSE left
    /\ call' = [call EXCEPT ![k] = IdleCall]
    /\ UNCHANGED <<inventory, keyring, sessions, client, idle, evicted, raced>>

(* What the event loop may run next at the await of a call. *)
Turn(k) ==
    \/ \E found \in SUBSET Devices : Resolve(k, found)
    \/ \E key \in Keys : Reuse(k, key) \/ Build(k, key)
    \/ ProbeOk(k) \/ ProbeFailed(k) \/ Finish(k)
    \/ \E vdom \in Vdoms \cup {None} : Disconnect(k, vdom)
    \/ \E device \in Devices : DisconnectDevice(k, device) \/ RemoveRow(k, device)
    \/ \E key \in Keys : DisconnectKey(k, key) \/ AllKey(k, key)
    \/ Disconnected(k) \/ DisconnectAll(k) \/ AllEnds(k)
    \/ RemoveSecret(k) \/ Cancel(k)

(* Between the two reads of the keyring there is no await: only the CLI,   *)
(* a process of its own, can get in between.                               *)
AtAwait == \A k \in Calls : call[k].pc # "secret"

Next ==
    \/ AtAwait /\ \E k \in Calls : Turn(k)
    \/ AtAwait /\ (EvictIdle \/ \E c \in Clients : CloseEvicted(c))
    \/ \E key \in Keys : Age(key)
    \/ \E k \in Calls : ReadSecret(k) \/ SecretGone(k)
    \/ \E device \in Devices : CliSet(device) \/ CliDelete(device)

Spec == Init /\ [][Next]_vars

-----------------------------------------------------------------------------
(* get_session() never hands out a session somebody disconnected or        *)
(* evicted: what is in the cache is open, and made for its key.            *)
CachedIsOpen ==
    \A key \in Cached : client[sessions[key]] = [state |-> "open", key |-> key]

(* A device and VDOM have two open clients only if one of them was made    *)
(* while another call made one for the same key, was returned by           *)
(* evict_idle, or lost the call that was probing with it.                  *)
Excused == raced \cup evicted \cup forsaken

OneClientPerKey ==
    \A c, d \in Clients :
        Open(c) /\ Open(d) /\ client[c].key = client[d].key /\ c # d
        => c \in Excused \/ d \in Excused

(* Nobody will ever close an open client that is neither cached nor being  *)
(* probed: that happens in overlapping connects, to what evict_idle        *)
(* returned, and when a probe is cancelled, and in no other way.           *)
NoStrays ==
    \A c \in Clients :
        Open(c) =>
            \/ sessions[client[c].key] = c
            \/ \E k \in Calls : call[k].made = c
            \/ c \in Excused

(* When connection_disconnect returns, no session it found when it was     *)
(* called is in the cache, whoever else connects, disconnects or evicts    *)
(* meanwhile; and their clients are closed, but for those evict_idle took  *)
(* from under it and those an overlapping connect replaced.                *)
DisconnectCloses ==
    [][\A k \in Calls :
        /\ call[k].pc = "disconnect" /\ call'[k].pc = "idle"
        /\ call[k].known = {} /\ call[k].todo = {}
        => \A c \in call[k].seen :
              /\ \A key \in Keys : sessions'[key] # c
              /\ client'[c].state = "closed" \/ c \in raced' \cup evicted']_vars

(* Once a device was removed and its credential deleted, no call connects  *)
(* to it, not even one that loaded its row before, unless the CLI stores   *)
(* the credential again.                                                   *)
RemovedStaysUnconnected ==
    [][\A c \in Clients :
        LET device == client'[c].key[1]
        IN  client[c].state = "unborn" /\ client'[c].state = "open"
            => device \in inventory \/ Removing(device) \/ device \in left]_vars

=============================================================================
