-------------------------- MODULE ConnectionProofs --------------------------
(***************************************************************************)
(* The invariants of ConnectionManager for any number of calls, devices,   *)
(* VDOMs and clients and any set of events.                                *)
(***************************************************************************)
EXTENDS ConnectionManager, TLAPS

(* The idle call is a call. *)
LEMMA IdleType == IdleCall \in Call
BY DEF IdleCall, Call, PC

(* Keys are made of a device and a VDOM, and None is none of them. *)
LEMMA KeyType ==
    /\ None \notin Keys /\ None \notin Clients /\ None \notin Vdoms
    /\ \A key \in Keys : key[1] \in Devices
    /\ \A device \in Devices, vdom \in Vdoms : <<device, vdom>> \in Keys
BY ConnectionAssumption DEF Keys

(* Taking a key out of the cache keeps the types of cache, clients and idle. *)
LEMMA DropType ==
    ASSUME TypeOK, NEW key \in Keys, Drop(key)
    PROVE  /\ sessions' \in [Keys -> Clients \cup {None}]
           /\ client' \in [Clients -> [state : ClientState, key : Keys \cup {None}]]
           /\ idle' \subseteq Cached'
BY DEF TypeOK, Drop, ClientState, Cached

(* What the model starts from is well typed. *)
LEMMA TypeInit == Init => TypeOK
BY IdleType, KeyType DEF Init, TypeOK, IdleCall, ClientState

(* Every step keeps the types. *)
LEMMA TypeStep == TypeOK /\ [Next]_vars => TypeOK'
<1> SUFFICES ASSUME TypeOK, [Next]_vars PROVE TypeOK'
  OBVIOUS
<1> USE IdleType, KeyType DEF TypeOK, Call, PC, ClientState, Cached, histories
<1>1. ASSUME NEW k \in Calls, NEW found \in SUBSET Devices, Resolve(k, found) PROVE TypeOK'
  <2>1. call[k].known \cup found \subseteq Devices
    OBVIOUS
  <2>2. call' = [call EXCEPT ![k] =
                   [call[k] EXCEPT !.pc = "using", !.known = call[k].known \cup found]]
    BY <1>1 DEF Resolve
  <2>3. [call[k] EXCEPT !.pc = "using", !.known = call[k].known \cup found] \in Call
    BY <2>1
  <2>4. call' \in [Calls -> Call]
    BY <2>2, <2>3
  <2>5. call[k].key = None /\ call[k].made = None
    BY <1>1 DEF Resolve
  <2>. QED  BY <1>1, <2>2, <2>4, <2>5 DEF Resolve
<1>2. ASSUME NEW k \in Calls, NEW key \in Keys, Reuse(k, key) PROVE TypeOK'
  BY <1>2 DEF Reuse
<1>3. ASSUME NEW k \in Calls, NEW key \in Keys, Build(k, key) PROVE TypeOK'
  BY <1>3 DEF Build
<1>4. ASSUME NEW k \in Calls, ProbeOk(k) PROVE TypeOK'
  <2>1. call[k].made \in Clients /\ call[k].key \in Keys
    BY <1>4 DEF ProbeOk
  <2>2. sessions' = [sessions EXCEPT ![call[k].key] = call[k].made]
    BY <1>4 DEF ProbeOk
  <2>3. [call[k] EXCEPT !.pc = "using", !.key = None, !.made = None,
                        !.held = call[k].held \cup {call[k].made}] \in Call
    BY <2>1
  <2>4. call' = [call EXCEPT ![k] =
            [call[k] EXCEPT !.pc = "using", !.key = None, !.made = None,
                            !.held = call[k].held \cup {call[k].made}]]
    BY <1>4 DEF ProbeOk
  <2>5. call' \in [Calls -> Call]
    BY <2>3, <2>4
  <2>6. \A j \in Calls :
          /\ call'[j].key # None <=> call'[j].pc \in {"secret", "probe"}
          /\ call'[j].made # None <=> call'[j].pc = "probe"
    BY <2>4
  <2>. QED  BY <1>4, <2>1, <2>2, <2>5, <2>6 DEF ProbeOk
<1>5. ASSUME NEW k \in Calls, ProbeFailed(k) PROVE TypeOK'
  <2>1. call[k].made \in Clients
    BY <1>5 DEF ProbeFailed
  <2>2. [call[k] EXCEPT !.pc = "using", !.key = None, !.made = None] \in Call
    OBVIOUS
  <2>3. client' = [client EXCEPT ![call[k].made].state = "closed"]
    BY <1>5 DEF ProbeFailed
  <2>. QED  BY <1>5, <2>1, <2>2, <2>3 DEF ProbeFailed
<1>6. ASSUME NEW k \in Calls, Finish(k) PROVE TypeOK'
  BY <1>6 DEF Finish, IdleCall
<1>7. ASSUME NEW k \in Calls, NEW vdom \in Vdoms \cup {None}, Disconnect(k, vdom) PROVE TypeOK'
  BY <1>7 DEF Disconnect
<1>8. ASSUME NEW k \in Calls, NEW device \in Devices, DisconnectDevice(k, device) PROVE TypeOK'
  <2>1. KeysOf(device, call[k].vdom) \subseteq Keys
    BY DEF KeysOf, Cached
  <2>2. ClientsOf(device, call[k].vdom) \subseteq Clients
    BY DEF ClientsOf
  <2>3. [call[k] EXCEPT !.known = call[k].known \ {device}, !.todo = KeysOf(device, call[k].vdom),
            !.seen = call[k].seen \cup ClientsOf(device, call[k].vdom)]
          \in Call
    BY <2>1, <2>2
  <2>4. call' = [call EXCEPT ![k] =
           [call[k] EXCEPT !.known = call[k].known \ {device}, !.todo = KeysOf(device, call[k].vdom),
             !.seen = call[k].seen \cup ClientsOf(device, call[k].vdom)]]
    BY <1>8 DEF DisconnectDevice
  <2>5. call' \in [Calls -> Call]
    BY <2>3, <2>4
  <2>6. \A j \in Calls : call'[j].pc = call[j].pc /\ call'[j].key = call[j].key
                        /\ call'[j].made = call[j].made
    BY <2>4
  <2>. QED  BY <1>8, <2>5, <2>6 DEF DisconnectDevice
<1>9. ASSUME NEW k \in Calls, NEW device \in Devices, RemoveRow(k, device) PROVE TypeOK'
  BY <1>9 DEF RemoveRow, IdleCall
<1>10. ASSUME NEW k \in Calls, NEW key \in Keys, DisconnectKey(k, key) PROVE TypeOK'
  BY <1>10, DropType DEF DisconnectKey
<1>11. ASSUME NEW k \in Calls, NEW key \in Keys, AllKey(k, key) PROVE TypeOK'
  BY <1>11, DropType DEF AllKey
<1>12. ASSUME NEW k \in Calls, Disconnected(k) PROVE TypeOK'
  BY <1>12 DEF Disconnected, IdleCall
<1>13. ASSUME NEW k \in Calls, DisconnectAll(k) PROVE TypeOK'
  <2>1. Cached \subseteq Keys /\ {sessions[key] : key \in Cached} \subseteq Clients
    BY DEF Cached
  <2>2. [IdleCall EXCEPT !.pc = "all", !.todo = Cached, !.seen = {sessions[key] : key \in Cached}]
          \in Call
    BY <2>1
  <2>. QED  BY <1>13, <2>2 DEF DisconnectAll, IdleCall
<1>14. ASSUME NEW k \in Calls, AllEnds(k) PROVE TypeOK'
  BY <1>14 DEF AllEnds, IdleCall
<1>15. ASSUME NEW k \in Calls, RemoveSecret(k) PROVE TypeOK'
  BY <1>15 DEF RemoveSecret, IdleCall
<1>16. ASSUME NEW k \in Calls, Cancel(k) PROVE TypeOK'
  BY <1>16 DEF Cancel, IdleCall
<1>17. ASSUME EvictIdle \/ \E c \in Clients : CloseEvicted(c) PROVE TypeOK'
  <2>1. CASE EvictIdle
    <3>1. {sessions[key] : key \in idle} \subseteq Clients
      OBVIOUS
    <3>. QED  BY <2>1, <3>1 DEF EvictIdle
  <2>2. ASSUME NEW c \in Clients, CloseEvicted(c) PROVE TypeOK'
    BY <2>2 DEF CloseEvicted
  <2>. QED  BY <1>17, <2>1, <2>2
<1>18. ASSUME NEW key \in Keys, Age(key) PROVE TypeOK'
  BY <1>18 DEF Age
<1>19. ASSUME NEW k \in Calls, ReadSecret(k) PROVE TypeOK'
  BY <1>19 DEF ReadSecret
<1>20. ASSUME NEW k \in Calls, SecretGone(k) PROVE TypeOK'
  BY <1>20 DEF SecretGone, IdleCall
<1>21. ASSUME NEW device \in Devices, CliSet(device) PROVE TypeOK'
  BY <1>21 DEF CliSet
<1>22. ASSUME NEW device \in Devices, CliDelete(device) PROVE TypeOK'
  BY <1>22 DEF CliDelete
<1>23. CASE UNCHANGED vars
  BY <1>23 DEF vars
<1>. QED
  BY <1>1, <1>2, <1>3, <1>4, <1>5, <1>6, <1>7, <1>8, <1>9, <1>10, <1>11, <1>12, <1>13, <1>14,
     <1>15, <1>16, <1>17, <1>18, <1>19, <1>20, <1>21, <1>22, <1>23 DEF Next, Turn

(* Cache, clients, calls and inventory keep their types. *)
THEOREM TypeCorrect == Spec => []TypeOK
BY TypeInit, TypeStep, PTL DEF Spec

-----------------------------------------------------------------------------
(* What makes the invariants inductive: a client being probed is open, is   *)
(* made for the key its call builds, and nobody else has it; an open client *)
(* is made for some key.                                                    *)
ProbeInv ==
    /\ \A c \in Clients : Open(c) => client[c].key \in Keys
    /\ \A k \in Calls :
          call[k].made # None =>
            /\ client[call[k].made] = [state |-> "open", key |-> call[k].key]
            /\ \A key \in Keys : sessions[key] # call[k].made
    /\ \A j, k \in Calls : call[k].made # None /\ call[j].made = call[k].made => j = k

(* A client evict_idle returned is open, and neither cached nor probed.     *)
EvictedInv ==
    \A c \in evicted :
        /\ Open(c)
        /\ \A key \in Keys : sessions[key] # c
        /\ \A k \in Calls : call[k].made # c

(* A call that has yet to make its client is alone in that, and its key is  *)
(* not cached.                                                              *)
SecretInv ==
    \A k \in Calls :
        call[k].key # None /\ call[k].made = None =>
            /\ sessions[call[k].key] = None
            /\ \A j \in Calls : call[j].key # None /\ call[j].made = None => j = k

(* Clients of one key that are probed at a time are raced; so are one that  *)
(* is probed and one that got into the cache meanwhile.                     *)
RaceInv ==
    \A k \in Calls :
        call[k].made # None =>
            /\ sessions[call[k].key] # None =>
                  call[k].made \in raced /\ sessions[call[k].key] \in raced
            /\ \A j \in Calls :
                  j # k /\ call[j].made # None /\ call[j].key = call[k].key
                  => call[k].made \in raced

(* A session that is gone: it is not cached and never will be, and its      *)
(* client is closed unless an overlapping connect or evict_idle took it.    *)
Gone(c) ==
    /\ client[c].state # "unborn"
    /\ \A key \in Keys : sessions[key] # c
    /\ \A k \in Calls : call[k].made # c
    /\ client[c].state = "closed" \/ c \in raced \cup evicted

(* A session to be disconnected is gone, or cached for a key still to go.   *)
DisconnectInv ==
    \A k \in Calls : \A c \in call[k].seen :
        Gone(c) \/ \E key \in call[k].todo : sessions[key] = c

(* Who has a credential has a row, is being removed, or is left over.       *)
CredentialInv ==
    \A device \in keyring : device \in inventory \/ Removing(device) \/ device \in left

CacheInv == CachedIsOpen /\ ProbeInv /\ EvictedInv /\ SecretInv /\ RaceInv /\ NoStrays

IInv == TypeOK /\ CacheInv /\ DisconnectInv /\ CredentialInv

(* What steps do to the sessions being built: nothing but give up (SecretGone), ... *)
Quiet ==
    /\ UNCHANGED <<sessions, client, evicted, raced, forsaken>>
    /\ \A k \in Calls : call'[k].made = call[k].made /\ call'[k].key \in {call[k].key, None}

(* ... or nothing, while a cached one is dropped. *)
Drops ==
    /\ \E key \in Keys : Drop(key)
    /\ UNCHANGED <<evicted, raced, forsaken>>
    /\ \A k \in Calls : call'[k].made = call[k].made /\ call'[k].key = call[k].key

(* Every step is one of nine kinds as far as sessions are concerned. *)
LEMMA StepKinds ==
    ASSUME TypeOK, [Next]_vars
    PROVE  \/ Quiet
           \/ Drops
           \/ EvictIdle
           \/ \E c \in Clients : CloseEvicted(c)
           \/ \E k \in Calls : \E key \in Keys : AtAwait /\ Build(k, key)
           \/ \E k \in Calls : ReadSecret(k) \/ ProbeFailed(k) \/ Cancel(k)
           \/ \E k \in Calls : AtAwait /\ ProbeOk(k)
<1> USE DEF TypeOK, histories
<1>1. ASSUME NEW k \in Calls, NEW found \in SUBSET Devices, Resolve(k, found) PROVE Quiet
  BY <1>1 DEF Resolve, Quiet
<1>2. ASSUME NEW k \in Calls, NEW key \in Keys, Reuse(k, key) PROVE Quiet
  BY <1>2 DEF Reuse, Quiet
<1>3. ASSUME NEW k \in Calls, call[k].made = None, call' = [call EXCEPT ![k] = IdleCall],
             UNCHANGED <<sessions, client, evicted, raced, forsaken>>
      PROVE  Quiet
  BY <1>3 DEF Quiet, IdleCall
<1>4. ASSUME NEW k \in Calls, Finish(k) \/ Disconnected(k) \/ AllEnds(k) \/ RemoveSecret(k)
                                \/ SecretGone(k)
      PROVE  Quiet
  BY <1>4, <1>3 DEF Finish, Disconnected, AllEnds, RemoveSecret, SecretGone
<1>5. ASSUME NEW k \in Calls, NEW vdom \in Vdoms \cup {None}, Disconnect(k, vdom) PROVE Quiet
  BY <1>5 DEF Disconnect, Quiet
<1>6. ASSUME NEW k \in Calls, NEW device \in Devices, DisconnectDevice(k, device) PROVE Quiet
  BY <1>6 DEF DisconnectDevice, Quiet
<1>7. ASSUME NEW k \in Calls, NEW device \in Devices, RemoveRow(k, device) PROVE Quiet
  BY <1>7 DEF RemoveRow, Quiet
<1>8. ASSUME NEW k \in Calls, DisconnectAll(k) PROVE Quiet
  BY <1>8 DEF DisconnectAll, Quiet
<1>9. ASSUME NEW k \in Calls, NEW key \in Keys, DisconnectKey(k, key) PROVE Drops
  BY <1>9 DEF DisconnectKey, Drops
<1>10. ASSUME NEW k \in Calls, NEW key \in Keys, AllKey(k, key) PROVE Drops
  BY <1>10 DEF AllKey, Drops
<1>11. ASSUME NEW key \in Keys, Age(key) PROVE Quiet
  BY <1>11 DEF Age, Quiet
<1>12. ASSUME NEW device \in Devices, CliSet(device) \/ CliDelete(device) PROVE Quiet
  BY <1>12 DEF CliSet, CliDelete, Quiet
<1>13. CASE UNCHANGED vars
  BY <1>13 DEF vars, Quiet
<1>. QED
  BY <1>1, <1>2, <1>4, <1>5, <1>6, <1>7, <1>8, <1>9, <1>10, <1>11, <1>12, <1>13
  DEF Next, Turn

(* Cache, clients and builds agree to begin with. *)
LEMMA CacheInit == Init => CacheInv
BY KeyType
DEF Init, CacheInv, CachedIsOpen, Cached, ProbeInv, EvictedInv, SecretInv, RaceInv, NoStrays,
    Open, IdleCall

(* A client is cached for one key at most. *)
LEMMA CachedOnce ==
    ASSUME CacheInv, NEW key \in Keys, NEW other \in Keys,
           sessions[key] # None, sessions[key] = sessions[other]
    PROVE  key = other
<1>1. client[sessions[key]] = [state |-> "open", key |-> key]
  BY DEF CacheInv, CachedIsOpen, Cached
<1>2. client[sessions[other]] = [state |-> "open", key |-> other]
  BY DEF CacheInv, CachedIsOpen, Cached
<1>. QED  BY <1>1, <1>2

(* And after every step. *)
LEMMA CacheStep == TypeOK /\ TypeOK' /\ CacheInv /\ [Next]_vars => CacheInv'
<1> SUFFICES ASSUME TypeOK, TypeOK', CacheInv, [Next]_vars PROVE CacheInv'
  OBVIOUS
<1> USE KeyType DEF CacheInv, CachedIsOpen, Cached, ProbeInv, EvictedInv, SecretInv, RaceInv,
        NoStrays, Open, Excused
<1>1. CASE Quiet
  BY <1>1 DEF Quiet, TypeOK, Call
<1>2. CASE Drops
  <2>1. PICK dropped \in Keys : Drop(dropped)
    BY <1>2 DEF Drops
  <2>2. \A k \in Calls : call'[k].made = call[k].made /\ call'[k].key = call[k].key
    BY <1>2 DEF Drops
  <2>3. /\ evicted' = evicted /\ raced' = raced /\ forsaken' = forsaken
        /\ \A key \in Keys : sessions'[key] = IF key = dropped THEN None ELSE sessions[key]
        /\ \A c \in Clients : c # sessions[dropped] => client'[c] = client[c]
        /\ \A c \in Clients : c = sessions[dropped] => client'[c].state = "closed"
    BY <1>2, <2>1 DEF Drops, Drop, TypeOK
  <2>4. \A key \in Keys : sessions'[key] # None =>
            sessions'[key] = sessions[key] /\ sessions[key] # sessions[dropped]
    BY <2>3, CachedOnce
  <2>5. CachedIsOpen'
    <3>1. SUFFICES ASSUME NEW key \in Keys, sessions'[key] # None
                   PROVE  client'[sessions'[key]] = [state |-> "open", key |-> key]
      OBVIOUS
    <3>2. sessions[key] \in Clients /\ sessions[key] # sessions[dropped]
      BY <2>4, <3>1 DEF TypeOK
    <3>. QED  BY <2>3, <2>4, <3>1, <3>2
  <2>6. ProbeInv'
    <3>1. \A k \in Calls : call[k].made # None => call[k].made \in Clients
      BY DEF TypeOK, Call
    <3>2. \A c \in Clients : client'[c].state = "open" => client'[c] = client[c]
      BY <2>3
    <3>. QED  BY <2>1, <2>2, <2>3, <3>1, <3>2
  <2>7. EvictedInv'
    BY <2>1, <2>2, <2>3 DEF TypeOK
  <2>8. SecretInv' /\ RaceInv'
    BY <2>2, <2>3 DEF TypeOK, Call
  <2>9. NoStrays'
    <3>1. SUFFICES ASSUME NEW c \in Clients, client'[c].state = "open"
                   PROVE  \/ sessions'[client'[c].key] = c
                          \/ \E k \in Calls : call'[k].made = c
                          \/ c \in (raced \cup evicted \cup forsaken)
      BY <2>3
    <3>2. client'[c] = client[c] /\ sessions[dropped] # c
      BY <2>3, <3>1
    <3>. QED  BY <2>2, <2>3, <3>1, <3>2
  <2>. QED  BY <2>5, <2>6, <2>7, <2>8, <2>9
<1>3. CASE EvictIdle
  <2>1. /\ call' = call /\ client' = client /\ raced' = raced /\ forsaken' = forsaken
        /\ evicted' = evicted \cup {sessions[key] : key \in idle}
        /\ \A key \in Keys : sessions'[key] = IF key \in idle THEN None ELSE sessions[key]
        /\ \A key \in idle : key \in Keys /\ sessions[key] # None
    BY <1>3 DEF EvictIdle, TypeOK, histories
  <2>2. CachedIsOpen' /\ ProbeInv' /\ SecretInv' /\ RaceInv'
    BY <2>1 DEF TypeOK, Call
  <2>3. EvictedInv'
    <3>1. ASSUME NEW key \in idle
          PROVE  /\ client[sessions[key]].state = "open"
                 /\ \A other \in Keys : sessions'[other] # sessions[key]
                 /\ \A k \in Calls : call[k].made # sessions[key]
      <4>1. key \in Keys /\ sessions[key] # None
        BY <2>1
      <4>2. client[sessions[key]] = [state |-> "open", key |-> key]
        BY <4>1
      <4>3. \A k \in Calls : call[k].made # sessions[key]
        BY <4>1
      <4>4. \A other \in Keys : sessions'[other] # sessions[key]
        BY <2>1, <4>1, CachedOnce
      <4>. QED  BY <4>2, <4>3, <4>4
    <3>2. \A c \in evicted : \A other \in Keys : sessions'[other] # c
      BY <2>1, KeyType DEF TypeOK
    <3>. QED  BY <2>1, <3>1, <3>2
  <2>4. NoStrays'
    <3>1. SUFFICES ASSUME NEW c \in Clients, client[c].state = "open",
                          sessions[client[c].key] = c, client[c].key \in Keys
                   PROVE  sessions'[client[c].key] = c \/ c \in evicted'
      BY <2>1
    <3>. QED  BY <2>1, <3>1
  <2>. QED  BY <2>2, <2>3, <2>4
<1>4. ASSUME NEW c \in Clients, CloseEvicted(c) PROVE CacheInv'
  <2>1. /\ call' = call /\ sessions' = sessions /\ raced' = raced /\ forsaken' = forsaken
        /\ c \in evicted /\ evicted' = evicted \ {c}
        /\ client'[c].state = "closed"
        /\ \A d \in Clients \ {c} : client'[d] = client[d]
    BY <1>4 DEF CloseEvicted, TypeOK, histories
  <2>2. /\ \A key \in Keys : sessions[key] # c
        /\ \A k \in Calls : call[k].made # c
    BY <2>1
  <2>. QED  BY <2>1, <2>2 DEF TypeOK, Call
<1>5. ASSUME NEW k \in Calls, NEW key \in Keys, AtAwait, Build(k, key) PROVE CacheInv'
  <2>1. /\ sessions' = sessions /\ client' = client /\ UNCHANGED <<evicted, raced, forsaken>>
        /\ sessions[key] = None
        /\ call'[k].key = key /\ call'[k].made = None /\ call[k].made = None
        /\ \A j \in Calls \ {k} : call'[j] = call[j]
    BY <1>5 DEF Build, TypeOK, histories
  <2>2. \A j \in Calls : call[j].key # None => call[j].made # None
    BY <1>5 DEF AtAwait, TypeOK
  <2>3. \A j \in Calls : call'[j].made # None => j # k /\ call'[j] = call[j]
    BY <2>1
  <2>4. SecretInv'
    BY <2>1, <2>2
  <2>5. \A j \in Calls : call'[j].made = call[j].made
    BY <2>1
  <2>. QED  BY <2>1, <2>3, <2>4, <2>5
<1>6. ASSUME NEW k \in Calls, ReadSecret(k) PROVE CacheInv'
  <2> DEFINE key == call[k].key
             rivals == {j \in Calls \ {k} : call[j].key = key}
  <2>1. PICK c \in Clients :
          /\ client[c].state = "unborn"
          /\ client' = [client EXCEPT ![c] = [state |-> "open", key |-> key]]
          /\ call' = [call EXCEPT ![k].pc = "probe", ![k].made = c]
          /\ raced' = IF rivals = {} THEN raced
                      ELSE raced \cup {c} \cup {call[j].made : j \in rivals}
    BY <1>6 DEF ReadSecret
  <2>2. /\ sessions' = sessions /\ evicted' = evicted /\ forsaken' = forsaken
        /\ call[k].pc = "secret" /\ key \in Keys /\ call[k].made = None
    BY <1>6 DEF ReadSecret, TypeOK, Call
  <2>3. /\ call'[k].key = key /\ call'[k].made = c
        /\ \A j \in Calls \ {k} : call'[j] = call[j]
        /\ client'[c] = [state |-> "open", key |-> key]
        /\ \A d \in Clients \ {c} : client'[d] = client[d]
    BY <2>1 DEF TypeOK
  <2>4. /\ sessions[key] = None
        /\ \A j \in Calls \ {k} : call[j].key # None => call[j].made # None
    BY <2>2
  <2>5. /\ \A other \in Keys : sessions[other] # c
        /\ \A j \in Calls : call[j].made # c
        /\ c \notin evicted
    <3>1. client[c] # [state |-> "open", key |-> None] /\ client[c].state # "open"
      BY <2>1
    <3>2. \A other \in Keys : sessions[other] # c
      <4>1. ASSUME NEW other \in Keys, sessions[other] = c PROVE FALSE
        <5>1. client[c] = [state |-> "open", key |-> other]
          BY <4>1
        <5>. QED  BY <3>1, <5>1
      <4>. QED  BY <4>1
    <3>3. \A j \in Calls : call[j].made # c
      <4>1. ASSUME NEW j \in Calls, call[j].made = c PROVE FALSE
        <5>1. client[c] = [state |-> "open", key |-> call[j].key]
          BY <4>1
        <5>. QED  BY <3>1, <5>1
      <4>. QED  BY <4>1
    <3>. QED  BY <3>1, <3>2, <3>3
  <2>6. CachedIsOpen'
    <3>1. SUFFICES ASSUME NEW other \in Keys, sessions[other] # None
                   PROVE  client'[sessions[other]] = [state |-> "open", key |-> other]
      BY <2>2
    <3>2. sessions[other] \in Clients \ {c}
      BY <2>5, <3>1 DEF TypeOK
    <3>. QED  BY <2>3, <3>1, <3>2
  <2>7. ProbeInv'
    <3>1. \A d \in Clients : client'[d].state = "open" => client'[d].key \in Keys
      BY <2>2, <2>3
    <3>2. \A j \in Calls : call'[j].made # None =>
            /\ client'[call'[j].made] = [state |-> "open", key |-> call'[j].key]
            /\ \A other \in Keys : sessions'[other] # call'[j].made
      BY <2>2, <2>3, <2>5 DEF TypeOK, Call
    <3>3. \A i, j \in Calls : call'[j].made # None /\ call'[i].made = call'[j].made => i = j
      BY <2>3, <2>5
    <3>. QED  BY <3>1, <3>2, <3>3
  <2>8. EvictedInv'
    BY <2>2, <2>3, <2>5 DEF TypeOK
  <2>9. SecretInv'
    BY <2>2, <2>3, <2>4
  <2>10. raced \subseteq raced'
    BY <2>1
  <2>11. RaceInv'
    <3>1. \A j \in rivals : c \in raced' /\ call[j].made \in raced'
      BY <2>1
    <3>2. \A j \in Calls : call'[j].made # None /\ sessions'[call'[j].key] # None =>
            call'[j].made \in raced' /\ sessions'[call'[j].key] \in raced'
      BY <2>2, <2>3, <2>4, <2>10
    <3>3. \A i, j \in Calls :
            i # j /\ call'[i].made # None /\ call'[j].made # None /\ call'[i].key = call'[j].key
            => call'[j].made \in raced'
      BY <2>3, <2>10, <3>1
    <3>. QED  BY <3>2, <3>3
  <2>12. NoStrays'
    BY <2>2, <2>3, <2>10
  <2>. QED  BY <2>6, <2>7, <2>8, <2>9, <2>11, <2>12
<1>7. ASSUME NEW k \in Calls, AtAwait, ProbeOk(k) PROVE CacheInv'
  <2> DEFINE c == call[k].made
             key == call[k].key
  <2>1. /\ c \in Clients /\ key \in Keys /\ client' = client
        /\ UNCHANGED <<evicted, raced, forsaken>>
        /\ sessions' = [sessions EXCEPT ![key] = c]
        /\ call'[k].made = None /\ call'[k].key = None
        /\ \A j \in Calls \ {k} : call'[j] = call[j]
    BY <1>7 DEF ProbeOk, TypeOK, Call, histories
  <2>2. client[c] = [state |-> "open", key |-> key] /\ c # None
    BY <2>1
  <2>3. \A j \in Calls \ {k} : call[j].made # c
    BY <2>1, <2>2
  <2>4. \A other \in Keys : sessions'[other] = IF other = key THEN c ELSE sessions[other]
    BY <2>1 DEF TypeOK
  <2>5. CachedIsOpen'
    <3>1. ASSUME NEW other \in Keys, sessions'[other] # None
          PROVE  client'[sessions'[other]] = [state |-> "open", key |-> other]
      <4>1. CASE other = key
        BY <2>1, <2>2, <2>4, <4>1
      <4>2. CASE other # key
        BY <2>1, <2>4, <3>1, <4>2
      <4>. QED  BY <4>1, <4>2
    <3>. QED  BY <3>1
  <2>6. \A j \in Calls : call'[j].key # None =>
          /\ j # k /\ call'[j].made = call[j].made /\ call'[j].key = call[j].key
          /\ call[j].made # c
    BY <2>1, <2>3
  <2>7. ProbeInv'
    <3>1. \A j \in Calls : call'[j].made # None =>
            /\ client'[call'[j].made] = [state |-> "open", key |-> call'[j].key]
            /\ \A other \in Keys : sessions'[other] # call'[j].made
      BY <2>1, <2>3, <2>4
    <3>2. \A i, j \in Calls : call'[j].made # None /\ call'[i].made = call'[j].made => i = j
      BY <2>1
    <3>. QED  BY <2>1, <3>1, <3>2
  <2>8. EvictedInv'
    <3>1. c \notin evicted /\ evicted \subseteq Clients
      BY <2>1 DEF TypeOK
    <3>2. \A d \in evicted : \A j \in Calls : call'[j].made # d
      BY <2>1, <3>1
    <3>3. \A d \in evicted : \A other \in Keys : sessions'[other] # d
      BY <2>4, <3>1
    <3>. QED  BY <2>1, <3>2, <3>3
  <2>9. \A j \in Calls : call'[j].key # None => call'[j].made # None
    <3>1. \A j \in Calls : call[j].key # None => call[j].made # None
      BY <1>7 DEF AtAwait, TypeOK
    <3>. QED  BY <2>6, <3>1
  <2>10. SecretInv'
    BY <2>9
  <2>11. RaceInv'
    <3>1. \A j \in Calls : call'[j].made # None =>
            j # k /\ call'[j].made = call[j].made /\ call'[j].key = call[j].key
      BY <2>1
    <3>2. ASSUME NEW j \in Calls, j # k, call[j].made # None, call[j].key = key
          PROVE  call[j].made \in raced /\ c \in raced
      BY <2>1, <2>2, <3>2
    <3>3. \A j \in Calls : call'[j].made # None => call'[j].key \in Keys
      BY <3>1 DEF TypeOK, Call
    <3>. QED  BY <2>1, <2>4, <3>1, <3>2, <3>3
  <2>12. NoStrays'
    <3>1. SUFFICES ASSUME NEW d \in Clients, client[d].state = "open"
                   PROVE  \/ sessions'[client[d].key] = d
                          \/ \E j \in Calls : call'[j].made = d
                          \/ d \in raced \cup evicted \cup forsaken
      BY <2>1
    <3>2. CASE d = c
      BY <2>1, <2>2, <2>4, <3>2
    <3>3. CASE d # c /\ \E j \in Calls : call[j].made = d
      BY <2>1, <3>3
    <3>4. CASE d # c /\ sessions[client[d].key] = d /\ client[d].key # key
      BY <2>4, <3>1, <3>4
    <3>5. CASE d # c /\ sessions[key] = d
      BY <2>1, <2>2, <3>1, <3>5
    <3>. QED  BY <3>1, <3>2, <3>3, <3>4, <3>5
  <2>. QED  BY <2>5, <2>7, <2>8, <2>10, <2>11, <2>12
<1>8. ASSUME NEW k \in Calls, ProbeFailed(k) PROVE CacheInv'
  <2> DEFINE c == call[k].made
  <2>1. /\ c \in Clients /\ c # None
        /\ sessions' = sessions /\ UNCHANGED <<evicted, raced, forsaken>>
        /\ client'[c].state = "closed"
        /\ \A d \in Clients \ {c} : client'[d] = client[d]
        /\ call'[k].made = None /\ call'[k].key = None
        /\ \A j \in Calls \ {k} : call'[j] = call[j]
    BY <1>8 DEF ProbeFailed, TypeOK, Call, histories
  <2>2. /\ \A key \in Keys : sessions[key] # c
        /\ \A j \in Calls \ {k} : call[j].made # c
        /\ c \notin evicted
    BY <2>1
  <2>3. \A j \in Calls : call'[j].made # None \/ call'[j].key # None =>
          j # k /\ call'[j] = call[j] /\ call[j].made # c
    BY <2>1, <2>2
  <2>4. CachedIsOpen'
    <3>1. \A key \in Keys : sessions[key] # None => sessions[key] \in Clients \ {c}
      BY <2>2 DEF TypeOK
    <3>. QED  BY <2>1, <3>1
  <2>5. ProbeInv'
    <3>1. \A j \in Calls : call'[j].made # None => call'[j].made \in Clients \ {c}
      BY <2>3 DEF TypeOK, Call
    <3>2. \A d \in Clients : client'[d].state = "open" => d # c
      BY <2>1
    <3>. QED  BY <2>1, <2>3, <3>1, <3>2
  <2>6. EvictedInv'
    <3>1. evicted \subseteq Clients \ {c}
      BY <2>2 DEF TypeOK
    <3>2. \A d \in evicted : \A j \in Calls : call'[j].made # d
      BY <2>1, <3>1, KeyType
    <3>. QED  BY <2>1, <3>1, <3>2
  <2>7. SecretInv' /\ RaceInv'
    BY <2>1, <2>3
  <2>8. NoStrays'
    <3>1. \A d \in Clients : client'[d].state = "open" => d # c /\ client'[d] = client[d]
      BY <2>1
    <3>. QED  BY <2>1, <3>1
  <2>. QED  BY <2>4, <2>5, <2>6, <2>7, <2>8
<1>9. ASSUME NEW k \in Calls, Cancel(k) PROVE CacheInv'
  <2>1. /\ sessions' = sessions /\ client' = client /\ evicted' = evicted /\ raced' = raced
        /\ forsaken' = IF call[k].pc = "probe" THEN forsaken \cup {call[k].made} ELSE forsaken
        /\ call'[k].made = None /\ call'[k].key = None
        /\ \A j \in Calls \ {k} : call'[j] = call[j]
    BY <1>9 DEF Cancel, TypeOK, IdleCall
  <2>2. call[k].made # None <=> call[k].pc = "probe"
    BY DEF TypeOK
  <2>3. \A j \in Calls : call'[j].made # None \/ call'[j].key # None =>
          j # k /\ call'[j] = call[j]
    BY <2>1
  <2>4. CachedIsOpen' /\ ProbeInv'
    BY <2>1, <2>3
  <2>5. EvictedInv'
    <3>1. evicted \subseteq Clients
      BY DEF TypeOK
    <3>. QED  BY <2>1, <3>1
  <2>6. SecretInv' /\ RaceInv'
    BY <2>1, <2>3
  <2>7. NoStrays'
    BY <2>1, <2>2
  <2>. QED  BY <2>4, <2>5, <2>6, <2>7
<1>. QED  BY <1>1, <1>2, <1>3, <1>4, <1>5, <1>6, <1>7, <1>8, <1>9, StepKinds

-----------------------------------------------------------------------------
(* A session that is gone stays gone.                                       *)
LEMMA GoneStays ==
    ASSUME TypeOK, CacheInv, [Next]_vars, NEW c \in Clients, Gone(c)
    PROVE  Gone(c)'
<1> USE DEF Gone, TypeOK
<1>1. CASE Quiet
  BY <1>1 DEF Quiet
<1>2. CASE Drops
  <2>1. PICK dropped \in Keys : Drop(dropped)
    BY <1>2 DEF Drops
  <2>2. /\ UNCHANGED <<evicted, raced>>
        /\ \A k \in Calls : call'[k].made = call[k].made
        /\ c # sessions[dropped]
    BY <1>2 DEF Drops
  <2>3. client'[c] = client[c] /\ \A key \in Keys : sessions'[key] # c
    BY <2>1, <2>2, KeyType DEF Drop
  <2>. QED  BY <2>2, <2>3
<1>3. CASE EvictIdle
  BY <1>3, KeyType DEF EvictIdle, histories
<1>4. ASSUME NEW d \in Clients, CloseEvicted(d) PROVE Gone(c)'
  BY <1>4 DEF CloseEvicted, histories
<1>5. ASSUME NEW k \in Calls, NEW key \in Keys, Build(k, key) PROVE Gone(c)'
  BY <1>5 DEF Build, histories
<1>6. ASSUME NEW k \in Calls, ReadSecret(k) PROVE Gone(c)'
  BY <1>6 DEF ReadSecret
<1>7. ASSUME NEW k \in Calls, ProbeOk(k) PROVE Gone(c)'
  BY <1>7, KeyType DEF ProbeOk, histories, Call
<1>8. ASSUME NEW k \in Calls, ProbeFailed(k) PROVE Gone(c)'
  BY <1>8, KeyType DEF ProbeFailed, histories
<1>9. ASSUME NEW k \in Calls, Cancel(k) PROVE Gone(c)'
  BY <1>9, KeyType DEF Cancel, IdleCall
<1>. QED  BY <1>1, <1>2, <1>3, <1>4, <1>5, <1>6, <1>7, <1>8, <1>9, StepKinds

(* A cached session stays cached or is gone.                                *)
LEMMA CachedGoes ==
    ASSUME TypeOK, CacheInv, [Next]_vars, NEW key \in Keys, NEW c \in Clients, sessions[key] = c
    PROVE  sessions'[key] = c \/ Gone(c)'
<1>1. /\ c # None /\ client[c] = [state |-> "open", key |-> key]
      /\ \A other \in Keys : sessions[other] = c => other = key
  BY KeyType, CachedOnce DEF CacheInv, CachedIsOpen, Cached
<1>2. \A k \in Calls : call[k].made # c
  BY <1>1 DEF CacheInv, ProbeInv
<1>3. c \notin evicted
  BY DEF CacheInv, EvictedInv
<1> USE <1>1, <1>2, <1>3 DEF Gone, TypeOK
<1>4. CASE Quiet
  BY <1>4 DEF Quiet
<1>5. CASE Drops
  BY <1>5, KeyType DEF Drops, Drop
<1>6. CASE EvictIdle
  BY <1>6, KeyType DEF EvictIdle, histories
<1>7. ASSUME NEW d \in Clients, CloseEvicted(d) PROVE sessions'[key] = c
  BY <1>7 DEF CloseEvicted
<1>8. ASSUME NEW k \in Calls, NEW other \in Keys, Build(k, other) PROVE sessions'[key] = c
  BY <1>8 DEF Build
<1>9. ASSUME NEW k \in Calls, ProbeOk(k) PROVE sessions'[key] = c \/ Gone(c)'
  <2>1. /\ sessions' = [sessions EXCEPT ![call[k].key] = call[k].made]
        /\ client' = client /\ raced' = raced
        /\ call'[k].made = None
        /\ \A j \in Calls \ {k} : call'[j] = call[j]
        /\ call[k].made \in Clients
    BY <1>9 DEF ProbeOk, histories, Call
  <2>2. CASE call[k].key # key
    BY <2>1, <2>2
  <2>3. CASE call[k].key = key
    <3>1. c \in raced
      BY <2>1, <2>3, KeyType DEF CacheInv, RaceInv
    <3>. QED  BY <2>1, <2>3, <3>1
  <2>. QED  BY <2>2, <2>3
<1>10. ASSUME NEW k \in Calls, ReadSecret(k) \/ ProbeFailed(k) \/ Cancel(k)
       PROVE  sessions'[key] = c
  BY <1>10 DEF ReadSecret, ProbeFailed, Cancel
<1>. QED  BY <1>4, <1>5, <1>6, <1>7, <1>8, <1>9, <1>10, StepKinds

(* What a step does to a call's list of sessions to disconnect. *)
LEMMA ListKinds ==
    ASSUME TypeOK, [Next]_vars, NEW k \in Calls
    PROVE  \/ call'[k].seen = call[k].seen /\ call'[k].todo = call[k].todo
           \/ call'[k].seen = {}
           \/ \E device \in Devices : DisconnectDevice(k, device)
           \/ \E key \in Keys :
                 /\ Drop(key) /\ call'[k].seen = call[k].seen
                 /\ call'[k].todo = call[k].todo \ {key}
           \/ DisconnectAll(k)
<1> USE DEF TypeOK, IdleCall
<1> DEFINE Same(j) == call'[j].seen = call[j].seen /\ call'[j].todo = call[j].todo
           Done(j) == call'[j].seen = {}
           Pops(j) == \E key \in Keys :
                 /\ Drop(key) /\ call'[j].seen = call[j].seen
                 /\ call'[j].todo = call[j].todo \ {key}
<1>1. ASSUME NEW j \in Calls,
             \/ \E found \in SUBSET Devices : Resolve(j, found)
             \/ \E key \in Keys : Reuse(j, key) \/ Build(j, key)
             \/ \E vdom \in Vdoms \cup {None} : Disconnect(j, vdom)
             \/ ReadSecret(j) \/ ProbeOk(j) \/ ProbeFailed(j)
      PROVE  Same(k)
  <2>1. CASE \E found \in SUBSET Devices : Resolve(j, found)
    BY <2>1 DEF Resolve
  <2>2. CASE \E key \in Keys : Reuse(j, key) \/ Build(j, key)
    <3>1. CASE \E key \in Keys : Reuse(j, key)
      BY <3>1 DEF Reuse
    <3>2. CASE \E key \in Keys : Build(j, key)
      BY <3>2 DEF Build
    <3>. QED  BY <2>2, <3>1, <3>2
  <2>3. CASE \E vdom \in Vdoms \cup {None} : Disconnect(j, vdom)
    BY <2>3 DEF Disconnect
  <2>4. CASE ReadSecret(j)
    BY <2>4 DEF ReadSecret
  <2>5. CASE ProbeOk(j)
    BY <2>5 DEF ProbeOk
  <2>6. CASE ProbeFailed(j)
    BY <2>6 DEF ProbeFailed
  <2>. QED  BY <1>1, <2>1, <2>2, <2>3, <2>4, <2>5, <2>6
<1>2. ASSUME NEW j \in Calls,
             \/ Finish(j) \/ SecretGone(j) \/ Disconnected(j) \/ AllEnds(j)
             \/ RemoveSecret(j) \/ Cancel(j)
             \/ \E device \in Devices : RemoveRow(j, device)
      PROVE  Same(k) \/ Done(k)
  <2>1. \/ call' = [call EXCEPT ![j] = IdleCall]
        \/ \E device \in Devices :
              call' = [call EXCEPT ![j] = [@ EXCEPT !.pc = "remove", !.known = {device}]]
    BY <1>2 DEF Finish, SecretGone, Disconnected, AllEnds, RemoveSecret, Cancel, RemoveRow
  <2>2. CASE call' = [call EXCEPT ![j] = IdleCall]
    BY <2>2
  <2>3. ASSUME NEW device \in Devices,
               call' = [call EXCEPT ![j] = [@ EXCEPT !.pc = "remove", !.known = {device}]]
        PROVE  Same(k)
    BY <2>3
  <2>. QED  BY <2>1, <2>2, <2>3
<1>3. ASSUME NEW j \in Calls, NEW device \in Devices, DisconnectDevice(j, device), j # k
      PROVE  Same(k)
  BY <1>3 DEF DisconnectDevice
<1>4. ASSUME NEW j \in Calls, NEW key \in Keys, DisconnectKey(j, key) \/ AllKey(j, key)
      PROVE  Same(k) \/ Pops(k)
  <2>1. Drop(key) /\ call' = [call EXCEPT ![j].todo = @ \ {key}]
    BY <1>4 DEF DisconnectKey, AllKey
  <2>2. CASE j = k
    <3>1. call'[k].seen = call[k].seen /\ call'[k].todo = call[k].todo \ {key}
      BY <2>1, <2>2
    <3>. QED  BY <2>1, <3>1
  <2>3. CASE j # k
    BY <2>1, <2>3
  <2>. QED  BY <2>2, <2>3
<1>5. ASSUME NEW j \in Calls, DisconnectAll(j), j # k PROVE Same(k)
  BY <1>5 DEF DisconnectAll
<1>6. CASE \/ EvictIdle \/ UNCHANGED vars
           \/ \E c \in Clients : CloseEvicted(c)
           \/ \E key \in Keys : Age(key)
           \/ \E device \in Devices : CliSet(device) \/ CliDelete(device)
  BY <1>6 DEF EvictIdle, CloseEvicted, vars, Age, CliSet, CliDelete
<1>. QED  BY <1>1, <1>2, <1>3, <1>4, <1>5, <1>6 DEF Next, Turn

(* A call's list of sessions to disconnect stays right. *)
LEMMA DisconnectStep ==
    TypeOK /\ TypeOK' /\ CacheInv /\ DisconnectInv /\ [Next]_vars => DisconnectInv'
<1> SUFFICES ASSUME TypeOK, TypeOK', CacheInv, DisconnectInv, [Next]_vars,
                    NEW k \in Calls, NEW c \in call'[k].seen
             PROVE  Gone(c)' \/ \E key \in call'[k].todo : sessions'[key] = c
  BY DEF DisconnectInv
<1> DEFINE Fine == Gone(c) \/ \E key \in call[k].todo : sessions[key] = c
           Goal == Gone(c)' \/ \E key \in call'[k].todo : sessions'[key] = c
<1>0. c \in Clients /\ c # None /\ call[k].todo \subseteq Keys /\ call'[k].todo \subseteq Keys
  BY KeyType DEF TypeOK, Call
<1>1. Fine => Gone(c)' \/ \E key \in call[k].todo : sessions'[key] = c
  BY <1>0, GoneStays, CachedGoes
<1>2. CASE Fine /\ call'[k].todo = call[k].todo
  BY <1>1, <1>2
<1>3. ASSUME NEW key \in Keys, Fine, Drop(key), call'[k].todo = call[k].todo \ {key} PROVE Goal
  <2>1. sessions'[key] # c
    BY <1>0, <1>3 DEF Drop, TypeOK
  <2>. QED  BY <1>1, <1>3, <2>1
<1>4. ASSUME NEW device \in Devices, DisconnectDevice(k, device) PROVE Goal
  <2>1. /\ call'[k].seen = call[k].seen \cup ClientsOf(device, call[k].vdom)
        /\ call'[k].todo = KeysOf(device, call[k].vdom)
        /\ call[k].todo = {}
        /\ sessions' = sessions
    BY <1>4 DEF DisconnectDevice, TypeOK
  <2>2. CASE c \in call[k].seen
    BY <1>1, <2>1, <2>2 DEF DisconnectInv
  <2>3. CASE c \in ClientsOf(device, call[k].vdom)
    <3>1. PICK v \in Vdoms : call[k].vdom \in {v, None} /\ sessions[<<device, v>>] = c
      BY <2>3 DEF ClientsOf
    <3>2. <<device, v>> \in Keys
      BY KeyType
    <3>3. <<device, v>> \in KeysOf(device, call[k].vdom)
      BY <1>0, <3>1, <3>2 DEF KeysOf, Cached
    <3>. QED  BY <2>1, <3>1, <3>3
  <2>. QED  BY <2>1, <2>2, <2>3
<1>5. ASSUME DisconnectAll(k) PROVE Goal
  <2>1. call'[k].seen = {sessions[key] : key \in Cached} /\ call'[k].todo = Cached
        /\ sessions' = sessions
    BY <1>5 DEF DisconnectAll, IdleCall, TypeOK
  <2>. QED  BY <2>1
<1>6. ASSUME c \in call[k].seen PROVE Fine
  BY <1>6 DEF DisconnectInv
<1>. QED  BY <1>2, <1>3, <1>4, <1>5, <1>6, ListKinds

-----------------------------------------------------------------------------
(* Who has a credential goes on having a row or being removed, or is left over. *)
LEMMA CredentialStep == TypeOK /\ CredentialInv /\ [Next]_vars => CredentialInv'
<1> SUFFICES ASSUME TypeOK, CredentialInv, [Next]_vars PROVE CredentialInv'
  OBVIOUS
<1> USE DEF CredentialInv, Removing, TypeOK, IdleCall, histories
<1>1. ASSUME UNCHANGED <<inventory, keyring, left>>,
             \A k \in Calls : call[k].pc = "remove" => call'[k] = call[k]
      PROVE  CredentialInv'
  BY <1>1
<1>2. ASSUME NEW j \in Calls, call[j].pc # "remove", UNCHANGED <<inventory, keyring, left>>,
             \A k \in Calls \ {j} : call'[k] = call[k]
      PROVE  CredentialInv'
  BY <1>1, <1>2
<1>3. ASSUME NEW j \in Calls,
             \/ \E found \in SUBSET Devices : Resolve(j, found)
             \/ \E key \in Keys : Reuse(j, key) \/ Build(j, key)
             \/ \E vdom \in Vdoms \cup {None} : Disconnect(j, vdom)
             \/ ReadSecret(j) \/ ProbeOk(j) \/ ProbeFailed(j)
      PROVE  CredentialInv'
  <2>1. CASE \E found \in SUBSET Devices : Resolve(j, found)
    BY <2>1, <1>2 DEF Resolve
  <2>2. CASE \E key \in Keys : Reuse(j, key) \/ Build(j, key)
    BY <2>2, <1>2 DEF Reuse, Build
  <2>3. CASE \E vdom \in Vdoms \cup {None} : Disconnect(j, vdom)
    BY <2>3, <1>2 DEF Disconnect
  <2>4. CASE ReadSecret(j)
    BY <2>4, <1>2 DEF ReadSecret
  <2>5. CASE ProbeOk(j)
    BY <2>5, <1>2 DEF ProbeOk
  <2>6. CASE ProbeFailed(j)
    BY <2>6, <1>2 DEF ProbeFailed
  <2>. QED  BY <1>3, <2>1, <2>2, <2>3, <2>4, <2>5, <2>6
<1>4. ASSUME NEW j \in Calls,
             \/ Finish(j) \/ SecretGone(j) \/ Disconnected(j) \/ AllEnds(j) \/ DisconnectAll(j)
             \/ \E device \in Devices : DisconnectDevice(j, device)
             \/ \E key \in Keys : DisconnectKey(j, key) \/ AllKey(j, key)
      PROVE  CredentialInv'
  <2>1. CASE \/ Finish(j) \/ SecretGone(j) \/ Disconnected(j) \/ AllEnds(j) \/ DisconnectAll(j)
    BY <2>1, <1>2 DEF Finish, SecretGone, Disconnected, AllEnds, DisconnectAll
  <2>2. CASE \E device \in Devices : DisconnectDevice(j, device)
    BY <2>2, <1>2 DEF DisconnectDevice
  <2>3. CASE \E key \in Keys : DisconnectKey(j, key) \/ AllKey(j, key)
    BY <2>3, <1>2 DEF DisconnectKey, AllKey
  <2>. QED  BY <1>4, <2>1, <2>2, <2>3
<1>5. CASE \/ EvictIdle \/ UNCHANGED vars \/ \E key \in Keys : Age(key)
           \/ \E c \in Clients : CloseEvicted(c)
  BY <1>5, <1>1 DEF EvictIdle, CloseEvicted, vars, Age
<1>6. ASSUME NEW j \in Calls, NEW device \in Devices, RemoveRow(j, device) PROVE CredentialInv'
  <2>1. /\ inventory' = inventory \ {device} /\ UNCHANGED <<keyring, left>>
        /\ call'[j].pc = "remove" /\ call'[j].known = {device}
        /\ call[j].pc = "idle"
        /\ \A k \in Calls \ {j} : call'[k] = call[k]
    BY <1>6 DEF RemoveRow
  <2>. QED  BY <2>1
<1>7. ASSUME NEW j \in Calls, RemoveSecret(j) PROVE CredentialInv'
  <2>1. /\ keyring' = keyring \ call[j].known /\ UNCHANGED <<inventory, left>>
        /\ \A k \in Calls \ {j} : call'[k] = call[k]
    BY <1>7 DEF RemoveSecret
  <2>. QED  BY <2>1
<1>8. ASSUME NEW j \in Calls, Cancel(j) PROVE CredentialInv'
  <2>1. /\ UNCHANGED <<inventory, keyring>>
        /\ left' = IF call[j].pc = "remove" THEN left \cup call[j].known ELSE left
        /\ \A k \in Calls \ {j} : call'[k] = call[k]
    BY <1>8 DEF Cancel
  <2>. QED  BY <2>1
<1>9. ASSUME NEW device \in Devices, CliSet(device) \/ CliDelete(device) PROVE CredentialInv'
  BY <1>9 DEF CliSet, CliDelete
<1>. QED  BY <1>3, <1>4, <1>5, <1>6, <1>7, <1>8, <1>9 DEF Next, Turn

(* The inductive invariant holds of every reachable state. *)
THEOREM Invariance == Spec => []IInv
<1>1. Init => IInv
  <2>1. Init => DisconnectInv
    BY DEF Init, DisconnectInv, IdleCall
  <2>2. Init => CredentialInv
    BY DEF Init, CredentialInv
  <2>. QED  BY <2>1, <2>2, TypeInit, CacheInit DEF IInv
<1>2. IInv /\ [Next]_vars => IInv'
  BY TypeStep, CacheStep, DisconnectStep, CredentialStep DEF IInv
<1>. QED  BY <1>1, <1>2, PTL DEF Spec

(* What get_session() finds in the cache is open and made for its key. *)
THEOREM OpenInCache == Spec => []CachedIsOpen
BY Invariance, PTL DEF IInv, CacheInv

(* Two open clients of one device and VDOM come from overlapping connects,  *)
(* from evict_idle or from a cancelled probe.                               *)
THEOREM OneClient == Spec => []OneClientPerKey
<1>1. IInv => OneClientPerKey
  <2> SUFFICES ASSUME IInv, NEW c \in Clients, NEW d \in Clients,
                      Open(c), Open(d), client[c].key = client[d].key, c # d,
                      c \notin Excused, d \notin Excused
               PROVE  FALSE
    BY DEF OneClientPerKey
  <2> DEFINE key == client[c].key
  <2>1. ASSUME NEW e \in {c, d}
        PROVE  sessions[key] = e \/ \E k \in Calls : call[k].made = e /\ call[k].key = key
    <3>1. sessions[key] = e \/ \E k \in Calls : call[k].made = e
      BY <2>1 DEF IInv, CacheInv, NoStrays
    <3>2. e # None
      BY KeyType
    <3>3. \A k \in Calls : call[k].made = e => client[e] = [state |-> "open", key |-> call[k].key]
      BY <3>2 DEF IInv, CacheInv, ProbeInv
    <3>4. client[e].key = key
      BY <2>1
    <3>5. \A k \in Calls : call[k].made = e => call[k].key = key
      <4>1. ASSUME NEW k \in Calls, call[k].made = e PROVE call[k].key = key
        <5>1. client[e] = [state |-> "open", key |-> call[k].key]
          BY <3>3, <4>1
        <5>. QED  BY <3>4, <5>1
      <4>. QED  BY <4>1
    <3>. QED  BY <3>1, <3>5
  <2>2. ASSUME NEW e \in {c, d}, NEW k \in Calls, call[k].made = e, call[k].key = key
        PROVE  sessions[key] = None
    <3>1. call[k].made # None /\ call[k].made \notin raced
      BY <2>2, KeyType DEF Excused
    <3>. QED  BY <2>2, <3>1 DEF IInv, CacheInv, RaceInv
  <2>3. sessions[key] # c /\ sessions[key] # d
    BY <2>1, <2>2, KeyType
  <2>4. PICK k \in Calls : call[k].made = c /\ call[k].key = key
    BY <2>1, <2>3
  <2>5. PICK j \in Calls : call[j].made = d /\ call[j].key = key
    BY <2>1, <2>3
  <2>6. c \in raced
    BY <2>4, <2>5, KeyType DEF IInv, CacheInv, RaceInv
  <2>. QED  BY <2>6 DEF Excused
<1>. QED  BY <1>1, Invariance, PTL

(* An open client that is neither cached nor probed comes from one of these *)
(* three.                                                                   *)
THEOREM Strays == Spec => []NoStrays
BY Invariance, PTL DEF IInv, CacheInv

(* connection_disconnect returns with no session left in the cache that it  *)
(* found there, and with every client closed that nobody took from it.      *)
THEOREM Closed == Spec => DisconnectCloses
<1> DEFINE A == \A k \in Calls :
                  /\ call[k].pc = "disconnect" /\ call'[k].pc = "idle"
                  /\ call[k].known = {} /\ call[k].todo = {}
                  => \A c \in call[k].seen :
                        /\ \A key \in Keys : sessions'[key] # c
                        /\ client'[c].state = "closed" \/ c \in raced' \cup evicted'
<1>1. IInv /\ [Next]_vars => [A]_vars
  <2> SUFFICES ASSUME IInv, [Next]_vars, NEW k \in Calls, call[k].todo = {},
                      NEW c \in call[k].seen
               PROVE  /\ \A key \in Keys : sessions'[key] # c
                      /\ client'[c].state = "closed" \/ c \in raced' \cup evicted'
    OBVIOUS
  <2>1. c \in Clients
    BY DEF IInv, TypeOK, Call
  <2>2. Gone(c)
    BY DEF IInv, DisconnectInv
  <2>3. Gone(c)'
    BY <2>1, <2>2, GoneStays DEF IInv
  <2>. QED  BY <2>3 DEF Gone
<1>2. Spec => [][A]_vars
  BY <1>1, Invariance, PTL DEF Spec
<1>. QED  BY <1>2 DEF DisconnectCloses

(* No call connects to a device that was removed together with its credential. *)
THEOREM Removed == Spec => RemovedStaysUnconnected
<1> DEFINE A == \A c \in Clients :
                  LET device == client'[c].key[1]
                  IN  client[c].state = "unborn" /\ client'[c].state = "open"
                      => device \in inventory \/ Removing(device) \/ device \in left
<1>1. IInv /\ [Next]_vars => [A]_vars
  <2> SUFFICES ASSUME IInv, [Next]_vars, NEW c \in Clients,
                      client[c].state = "unborn", client'[c].state = "open"
               PROVE  client'[c].key[1] \in keyring
    BY DEF IInv, CredentialInv
  <2> USE DEF IInv, TypeOK
  <2>1. CASE Quiet
    BY <2>1 DEF Quiet
  <2>2. CASE Drops \/ EvictIdle \/ \E d \in Clients : CloseEvicted(d)
    BY <2>2 DEF Drops, Drop, EvictIdle, CloseEvicted
  <2>3. ASSUME NEW k \in Calls, NEW key \in Keys, Build(k, key) PROVE FALSE
    BY <2>3 DEF Build
  <2>4. ASSUME NEW k \in Calls, ReadSecret(k) PROVE client'[c].key[1] \in keyring
    BY <2>4 DEF ReadSecret
  <2>5. ASSUME NEW k \in Calls, ProbeOk(k) PROVE FALSE
    BY <2>5 DEF ProbeOk
  <2>6. ASSUME NEW k \in Calls, ProbeFailed(k) PROVE FALSE
    BY <2>6 DEF ProbeFailed
  <2>7. ASSUME NEW k \in Calls, Cancel(k) PROVE FALSE
    BY <2>7 DEF Cancel
  <2>. QED  BY <2>1, <2>2, <2>3, <2>4, <2>5, <2>6, <2>7, StepKinds
<1>2. Spec => [][A]_vars
  BY <1>1, Invariance, PTL DEF Spec
<1>. QED  BY <1>2 DEF RemovedStaysUnconnected

=============================================================================
