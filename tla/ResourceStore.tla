--------------------------- MODULE ResourceStore ----------------------------
(***************************************************************************)
(* What the services take a device to be: a store of resources, each named *)
(* by its type, the VDOM it lives in and its id, which answers one request *)
(* at a time.  No paths, HTTP verbs, adapter methods or status codes.      *)
(*                                                                         *)
(* A request takes effect at most once, on the one resource it names.  The *)
(* caller may learn what happened, may be told only that something went    *)
(* wrong, or may get an answer without content.                            *)
(***************************************************************************)
EXTENDS ChangeDispatch, FiniteSets, Naturals

CONSTANTS
    Callers,        \* coroutines that talk to the device
    Ids, Data,      \* ids of keyed resources, contents to write
    Empty,          \* the content {}, which says nothing
    Vdoms,          \* the device's VDOMs
    Everywhere,     \* the scope of resources no VDOM owns
    Self,           \* the id of a resource there is one of
    Factory,        \* what a setting holds until it is updated
    Blank,          \* the content of an answer without a JSON body
    None,
    Slots,          \* bound: places for requests nobody waits for any more
    MaxRows         \* bound: resources that differ from the factory state

VARIABLES
    store,          \* the resources written so far, by type, scope and id
    asked,          \* each caller's request
    late            \* by slot: requests whose caller gave up, still to take effect

vars == <<store, asked, late>>

(* Kept by the device as a whole, whatever VDOM a request names. *)
GlobalTypes ==
    {"ntp", "snmp_sysinfo", "system_global", "ha", "snmp_community", "admin",
     "vdom", "vdom_link"}

(* Types whose ids FortiOS assigns. *)
Numbered == {"firewall_policy", "static_route", "dhcp_server", "snmp_community"}

Scopes(type) == IF type \in GlobalTypes THEN {Everywhere} ELSE Vdoms

Held(loc) ==
    IF loc \in DOMAIN store THEN store[loc]
    ELSE IF loc[1] \in Singletons THEN Factory ELSE None

Present(type, scope) == {i \in Ids \cup {Self} : Held(<<type, scope, i>>) # None}

Put(loc, data) == [l \in DOMAIN store \cup {loc} |-> IF l = loc THEN data ELSE store[l]]
Drop(loc)      == [l \in DOMAIN store \ {loc} |-> store[l]]
Full           == Cardinality(DOMAIN store) >= MaxRows

Idle == [pc |-> "idle"]

Pending(op, type, scope, id, data) ==
    [pc |-> "asked", op |-> op, type |-> type, scope |-> scope, id |-> id, data |-> data]

(* What became of a request on the device, and what the caller was told. *)
Served(r, did, rows, id) ==
    [pc |-> "served", op |-> r.op, type |-> r.type, did |-> did, rows |-> rows, id |-> id]

Told(r, ok, value) ==
    [pc |-> "done", op |-> r.op, type |-> r.type, ok |-> ok, value |-> value]

Init == store = << >> /\ asked = [k \in Callers |-> Idle] /\ late = [s \in Slots |-> Idle]

(***************************************************************************)
(* Requests.  fetch_current and execute settle some without the device: a  *)
(* fetch of a type without a getter, or with no id yet, finds nothing, an  *)
(* operation a type does not have fails.                                   *)
(***************************************************************************)
Offered(op, type, id) ==
    IF op = "get" THEN Fetches(type, id # None) ELSE Supports(type, op)

(* A created resource is named by its content, unless the device does it. *)
Named(op, type, id, data) ==
    op = "create" => (id = None) = (type \in Numbered \/ data = Empty)

Operations == {"list", "get", "create", "update", "delete"}

(* A new request r: one the device will be asked, or one settled at once. *)
Asked(r) ==
    /\ r.pc = "asked"
    /\ \/ /\ r.op \in Operations
          /\ r.type \in ResourceTypes /\ r.scope \in Scopes(r.type)
          /\ Offered(r.op, r.type, r.id) /\ Named(r.op, r.type, r.id, r.data)
       \/ r.op \in {"query", "probe"} /\ r.type = None

Settled(r) ==
    /\ r.pc = "done" /\ r.op \in Operations /\ r.type \in ResourceTypes
    /\ r = Told(r, r.op = "get", None)
    /\ \E id \in Ids \cup {None} : ~Offered(r.op, r.type, id)

Request(k) ==
    /\ asked[k] = Idle
    /\ Asked(asked'[k]) \/ Settled(asked'[k])
    /\ \A j \in Callers \ {k} : asked'[j] = asked[j]
    /\ UNCHANGED <<store, late>>

(***************************************************************************)
(* The device serves a request.                                            *)
(***************************************************************************)
At(r, i) == <<r.type, r.scope, i>>
Loc(r)   == At(r, IF r.type \in Singletons THEN Self ELSE r.id)

Free(r) == {i \in (IF r.type \in Numbered THEN Ids ELSE {r.id}) : Held(At(r, i)) = None}

Outcome(after, told) == [after |-> after, told |-> told]

Refused(r)           == Outcome(store, Served(r, "refused", {}, None))
Read(r, rows)        == Outcome(store, Served(r, "read", rows, None))
Written(r, id, after) == Outcome(after, Served(r, "written", {}, id))

Effects(r) ==
    LET loc == Loc(r)
    IN  CASE r.op \in {"query", "probe"} -> {Read(r, {})}
          [] r.op = "list" ->
                {Read(r, {<<i, Held(At(r, i))>> : i \in Present(r.type, r.scope)})}
          [] r.op = "create" ->
                IF r.data = Empty \/ Full \/ Free(r) = {} THEN {Refused(r)}
                ELSE {Written(r, i, Put(At(r, i), r.data)) : i \in Free(r)}
          [] r.op = "get" ->
                {IF Held(loc) = None THEN Refused(r) ELSE Read(r, {<<loc[3], Held(loc)>>})}
          [] r.op = "delete" ->
                {IF Held(loc) = None THEN Refused(r) ELSE Written(r, loc[3], Drop(loc))}
          [] r.op = "update" ->
                IF Held(loc) = None THEN {Refused(r)}
                ELSE IF r.data = Empty THEN {Refused(r), Written(r, loc[3], store)}
                ELSE IF Full /\ loc \notin DOMAIN store THEN {Refused(r)}
                ELSE {Written(r, loc[3], Put(loc, r.data))}

Effect(k) ==
    /\ asked[k].pc = "asked"
    /\ \E outcome \in Effects(asked[k]) :
          /\ store' = outcome.after
          /\ asked' = [asked EXCEPT ![k] = outcome.told]
    /\ UNCHANGED late

LateEffect(s) ==
    /\ late[s].pc = "asked"
    /\ \E outcome \in Effects(late[s]) : store' = outcome.after
    /\ late' = [late EXCEPT ![s] = Idle]
    /\ UNCHANGED asked

(***************************************************************************)
(* The caller is told; of a query, only that it was served.  A request the *)
(* device refused is reported as failed (a fetch: as nothing found), and   *)
(* so may be any other; success is never reported of a request the device  *)
(* did not serve.                                                          *)
(***************************************************************************)
Tell(k) ==
    LET r == asked[k]
        tell(ok, value) == asked' = [asked EXCEPT ![k] = Told(r, ok, value)]
    IN  /\ r.pc = "served"
        /\ UNCHANGED <<store, late>>
        /\ IF r.did = "refused" THEN tell(r.op = "get", None)
           ELSE CASE r.op = "list"   -> \E rows \in {r.rows, {}} : tell(TRUE, rows)
                  [] r.op = "get"    -> \E value \in {row[2] : row \in r.rows} \cup {Blank} :
                                           tell(TRUE, value)
                  [] r.op = "create" -> \E id \in {r.id, None} : tell(TRUE, id)
                  [] OTHER           -> tell(TRUE, None)

(* The caller gives up, whether the request took effect or still will. *)
GiveUp(k) ==
    LET r == asked[k]
    IN  /\ r.pc \in {"asked", "served"}
        /\ asked' = [asked EXCEPT ![k] = Told(r, r.op = "get", None)]
        /\ \/ UNCHANGED late
           \/ /\ r.pc = "asked"
              /\ \E s \in Slots : late[s] = Idle /\ late' = [late EXCEPT ![s] = r]
        /\ UNCHANGED store

Return(k) ==
    /\ asked[k].pc = "done"
    /\ asked' = [asked EXCEPT ![k] = Idle]
    /\ UNCHANGED <<store, late>>

Next ==
    \/ \E s \in Slots : LateEffect(s)
    \/ \E k \in Callers : Request(k) \/ Effect(k) \/ Tell(k) \/ GiveUp(k) \/ Return(k)

Spec == Init /\ [][Next]_vars

=============================================================================
