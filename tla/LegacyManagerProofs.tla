------------------------ MODULE LegacyManagerProofs ------------------------
(***************************************************************************)
(* The invariants of LegacyManager for any number of calls, device ids and *)
(* clients.                                                                *)
(***************************************************************************)
EXTENDS LegacyManager, FiniteSetTheorems, TLAPS

(* len(self.devices) is a number. *)
LEMMA SizeType == Cardinality(Registered) \in Nat
BY ManagerAssumption, FS_Subset, FS_CardinalityType DEF Registered

(* What the model starts from is well typed. *)
LEMMA TypeInit == Init => TypeOK
BY DEF Init, TypeOK, IdleCall, Call, PC

(* Every step keeps the types. *)
LEMMA TypeStep == TypeOK /\ [Next]_vars => TypeOK'
<1> SUFFICES ASSUME TypeOK, [Next]_vars PROVE TypeOK'
  OBVIOUS
<1> USE ManagerAssumption DEF TypeOK, Call, PC, IdleCall, Registered, Race, Removers
<1>1. ASSUME NEW id \in Ids, Add(id) \/ RemoveClosed(id) PROVE TypeOK'
  BY <1>1 DEF Add, RemoveClosed
<1>2. ASSUME NEW k \in Calls, NEW id \in Ids, Remove(k, id) PROVE TypeOK'
  <2>1. /\ id \in Ids /\ devices[id] \in Clients
        /\ call' = [call EXCEPT ![k] = [call[k] EXCEPT !.pc = "remove", !.id = id, !.api = devices[id]]]
        /\ devices' = devices /\ cut' = cut
        /\ client' = [client EXCEPT ![devices[id]] = "closed"]
        /\ raced' \subseteq raced \cup Removers(id) \cup {k}
    BY <1>2 DEF Remove
  <2>2. call' \in [Calls -> Call]
    BY <2>1
  <2>3. raced' \subseteq {j \in Calls : call'[j].pc = "remove"}
    BY <2>1
  <2>4. \A j \in Calls : call'[j].pc = "remove" => call'[j].id # None /\ call'[j].api # None
    BY <2>1
  <2>. QED  BY <2>1, <2>2, <2>3, <2>4
<1>3. ASSUME NEW k \in Calls, NEW id \in Ids, CloseNext(k, id) PROVE TypeOK'
  BY <1>3 DEF CloseNext
<1>4. ASSUME NEW k \in Calls, Removed(k) PROVE TypeOK'
  BY <1>4 DEF Removed
<1>5. ASSUME NEW k \in Calls, CloseAll(k) PROVE TypeOK'
  <2>1. /\ call[k].pc = "idle" /\ UNCHANGED <<devices, client, cut, raced>>
        /\ call' = [call EXCEPT ![k] =
              [call[k] EXCEPT !.pc = "close_all", !.size = Cardinality({id \in Ids : devices[id] # None})]]
    BY <1>5 DEF CloseAll
  <2>2. call' \in [Calls -> Call]
    BY <2>1, SizeType
  <2>3. \A j \in Calls : call[j].pc = "remove" <=> call'[j] = call[j] /\ call'[j].pc = "remove"
    BY <2>1
  <2>4. raced' \subseteq {j \in Calls : call'[j].pc = "remove"}
    BY <2>1, <2>3
  <2>5. \A j \in Calls : call'[j].pc = "remove" => call'[j].id # None /\ call'[j].api # None
    BY <2>1
  <2>. QED  BY <2>1, <2>2, <2>4, <2>5
<1>6. ASSUME NEW k \in Calls, CloseEnds(k) PROVE TypeOK'
  BY <1>6 DEF CloseEnds
<1>7. ASSUME NEW k \in Calls, Cancel(k) PROVE TypeOK'
  BY <1>7 DEF Cancel
<1>8. CASE UNCHANGED vars
  BY <1>8 DEF vars
<1>. QED  BY <1>1, <1>2, <1>3, <1>4, <1>5, <1>6, <1>7, <1>8 DEF Next

-----------------------------------------------------------------------------
(* No client serves two devices, and a registered one has been made. *)
OwnInv ==
    /\ \A i, j \in Registered : devices[i] = devices[j] => i = j
    /\ \A id \in Registered : client[devices[id]] # "unborn"

(* Of two calls that remove a device both are raced. *)
RaceInv ==
    \A j, k \in Calls :
        call[j].pc = "remove" /\ call[k].pc = "remove" /\ call[j].id = call[k].id /\ j # k
        => k \in raced

(* A registered device with a closed client is being removed by the call    *)
(* that closed it, or that client is cut.                                   *)
ClosedInv ==
    \A id \in Registered :
        client[devices[id]] = "closed" =>
            \/ \E k \in Calls :
                  call[k].pc = "remove" /\ call[k].id = id /\ call[k].api = devices[id]
            \/ devices[id] \in cut

IInv == TypeOK /\ OwnInv /\ RaceInv /\ RemovesWhatItClosed /\ ClosedInv

(* The configured devices have clients of their own, all open. *)
LEMMA InvInit == Init => IInv
BY TypeInit, ManagerAssumption
DEF Init, IInv, OwnInv, RaceInv, RemovesWhatItClosed, ClosedInv, IdleCall, Registered

(* Every step keeps the inductive invariant. *)
LEMMA InvStep == IInv /\ [Next]_vars => IInv'
<1> SUFFICES ASSUME IInv, [Next]_vars PROVE IInv'
  OBVIOUS
<1>0. TypeOK'
  BY TypeStep DEF IInv
<1> USE <1>0, ManagerAssumption DEF IInv, TypeOK, Registered, OwnInv, RaceInv,
        RemovesWhatItClosed, ClosedInv
<1>1. ASSUME NEW id \in Ids, Add(id) PROVE IInv'
  BY <1>1 DEF Add, Call
<1>2. ASSUME NEW id \in Ids, RemoveClosed(id) PROVE IInv'
  <2>1. /\ devices' = [devices EXCEPT ![id] = None]
        /\ client' = client /\ call' = call /\ cut' = cut
        /\ raced \subseteq raced' /\ Removers(id) \subseteq raced'
    BY <1>2 DEF RemoveClosed, Race
  <2>2. RemovesWhatItClosed'
    BY <2>1 DEF Removers, Call
  <2>. QED  BY <2>1, <2>2
<1>3. ASSUME NEW k \in Calls, NEW id \in Ids, Remove(k, id) PROVE IInv'
  <2> DEFINE c == devices[id]
  <2>1. /\ id \in Registered /\ c \in Clients /\ client[c] = "open"
        /\ devices' = devices /\ cut' = cut
        /\ client' = [client EXCEPT ![c] = "closed"]
        /\ call'[k].pc = "remove" /\ call'[k].id = id /\ call'[k].api = c
        /\ \A j \in Calls \ {k} : call'[j] = call[j]
        /\ call[k].pc = "idle"
    BY <1>3 DEF Remove, IdleCall
  <2>2. /\ raced \subseteq raced' /\ Removers(id) \subseteq raced'
        /\ Removers(id) # {} => k \in raced'
    BY <1>3 DEF Remove, Race
  <2>3. OwnInv'
    BY <2>1
  <2>4. RaceInv'
    BY <2>1, <2>2 DEF Removers
  <2>5. RemovesWhatItClosed'
    BY <2>1, <2>2, <1>0 DEF Call
  <2>6. ClosedInv'
    <3>1. SUFFICES ASSUME NEW i \in Ids, devices[i] # None, client'[devices[i]] = "closed"
                   PROVE  \/ \E j \in Calls : call'[j].pc = "remove" /\ call'[j].id = i
                                             /\ call'[j].api = devices[i]
                          \/ devices[i] \in cut
      BY <2>1
    <3>2. CASE i = id
      BY <2>1, <3>2
    <3>3. CASE i # id
      <4>1. client[devices[i]] = "closed"
        BY <2>1, <3>1, <3>3
      <4>. QED  BY <2>1, <3>1, <4>1
    <3>. QED  BY <3>2, <3>3
  <2>. QED  BY <2>3, <2>4, <2>5, <2>6
<1>4. ASSUME NEW k \in Calls, NEW id \in Ids, CloseNext(k, id) PROVE IInv'
  BY <1>4 DEF CloseNext
<1>5. ASSUME NEW k \in Calls, Removed(k) PROVE IInv'
  BY <1>5 DEF Removed, IdleCall
<1>6. ASSUME NEW k \in Calls, CloseAll(k) PROVE IInv'
  BY <1>6 DEF CloseAll, IdleCall
<1>7. ASSUME NEW k \in Calls, CloseEnds(k) PROVE IInv'
  BY <1>7 DEF CloseEnds, IdleCall
<1>8. ASSUME NEW k \in Calls, Cancel(k) PROVE IInv'
  BY <1>8 DEF Cancel, IdleCall
<1>9. CASE UNCHANGED vars
  BY <1>9 DEF vars
<1>. QED  BY <1>1, <1>2, <1>3, <1>4, <1>5, <1>6, <1>7, <1>8, <1>9 DEF Next

(* The inductive invariant holds of every reachable state. *)
THEOREM Invariance == Spec => []IInv
BY InvInit, InvStep, PTL DEF Spec

(* Registry, clients and calls keep their types. *)
THEOREM TypeCorrect == Spec => []TypeOK
BY Invariance, PTL DEF IInv

(* Only a removal that another one overlaps takes an open client out of    *)
(* the registry.                                                            *)
THEOREM LostInARace == Spec => LostOnlyInARace
<1> DEFINE A == \A c \in Clients :
                  client[c] = "open" /\ Owned(c) /\ ~Owned(c)' =>
                      \E k \in raced : devices[call[k].id] = c /\ call'[k] = IdleCall
<1>1. IInv /\ [Next]_vars => [A]_vars
  <2> SUFFICES ASSUME IInv, [Next]_vars, NEW c \in Clients,
                      client[c] = "open", Owned(c), ~Owned(c)'
               PROVE  \E k \in raced : devices[call[k].id] = c /\ call'[k] = IdleCall
    OBVIOUS
  <2> USE ManagerAssumption DEF IInv, TypeOK, Owned, Registered
  <2>1. PICK own \in Ids : devices[own] = c /\ devices'[own] # c
    OBVIOUS
  <2>2. ASSUME NEW id \in Ids, Add(id) PROVE FALSE
    BY <2>1, <2>2 DEF Add
  <2>3. ASSUME NEW id \in Ids, RemoveClosed(id) PROVE FALSE
    BY <2>1, <2>3 DEF RemoveClosed
  <2>4. ASSUME NEW k \in Calls, Removed(k)
        PROVE  k \in raced /\ devices[call[k].id] = c /\ call'[k] = IdleCall
    <3>1. call[k].pc = "remove" /\ call[k].id = own /\ call'[k] = IdleCall
      BY <2>1, <2>4 DEF Removed, Call
    <3>. QED  BY <2>1, <3>1 DEF RemovesWhatItClosed
  <2>5. CASE devices' = devices
    BY <2>1, <2>5
  <2>. QED  BY <2>2, <2>3, <2>4, <2>5
            DEF Next, Remove, CloseNext, CloseAll, CloseEnds, Cancel, vars
<1>2. Spec => [][A]_vars
  BY <1>1, Invariance, PTL DEF Spec
<1>. QED  BY <1>2 DEF LostOnlyInARace

(* A removal rids the registry of the client it closed, and of no other    *)
(* unless another removal of the device overlaps it.                       *)
THEOREM RemovesItsOwn == Spec => []RemovesWhatItClosed
BY Invariance, PTL DEF IInv

(* get_device() hands out a closed client only during a removal, or after   *)
(* close_all or a cancelled removal.                                        *)
THEOREM ClosedOnly == Spec => []ClosedOnlyIfCut
<1>1. IInv => ClosedOnlyIfCut
  BY DEF IInv, ClosedInv, ClosedOnlyIfCut, Removers
<1>. QED  BY <1>1, Invariance, PTL

=============================================================================
