----------------------------- MODULE DeviceApi ------------------------------
(***************************************************************************)
(* A call to a device: change_dispatch picks an adapter method, the        *)
(* adapter hands over to FortiGateAPI, which sends one HTTP request and    *)
(* reads the answer.  The device is FortiOS as the code uses it: tables    *)
(* and settings below /api/v2, addressed by path, VDOM and key.            *)
(*                                                                         *)
(* A key is the text it has in a URL; FortiOS's integer keys have their    *)
(* decimal text, which is what str(mkey) yields as well.  The code puts it *)
(* into the path as it is: Ids are texts that are one path segment as they *)
(* are, without a "/" or a "?".                                            *)
(***************************************************************************)
EXTENDS DeviceEndpoints, FiniteSets, Naturals

CONSTANTS
    Callers, Ids, Data, Empty, Vdoms, Everywhere, Self, Factory, Blank, None,
    DefaultVdom,    \* FortiGateDeviceConfig.vdom
    Slots,          \* bound: places for requests nobody waits for any more
    Contended,      \* bound: types several callers may use at the same time, and a
                    \* request of which may be served late
    MaxBusy,        \* bound: callers and late requests at the same time
    MaxRows         \* bound: rows and settings that differ from the factory state

ASSUME DeviceApiAssumption ==
    /\ DefaultVdom \in Vdoms
    /\ None \notin Ids \cup Data \cup Vdoms \cup ResourceTypes \cup {Factory}
    /\ Empty \notin Data \cup {None}
    /\ Everywhere \notin Vdoms /\ Self \notin Ids
    /\ MaxRows \in Nat /\ MaxBusy \in Nat

VARIABLES
    config,         \* the device: contents by path, VDOM and key
    call,           \* each caller's request
    late            \* by slot: requests whose caller gave up, still to be served

vars == <<config, call, late>>

IdleCall == [pc |-> "idle"]

-----------------------------------------------------------------------------
(* FortiOS: tables and settings below /api/v2.                             *)

(* One for the whole device, whatever the vdom parameter says. *)
GlobalPaths ==
    {"system/ntp", "system.snmp/sysinfo", "system/global", "system/ha",
     "system.snmp/community", "system/admin", "system/vdom", "system/vdom-link"}

SettingPaths ==
    {"system/dns", "system/ntp", "log.syslogd/setting", "system.snmp/sysinfo",
     "system/global", "system/ha"}

(* Tables whose keys the device assigns. *)
NumberedPaths ==
    {"firewall/policy", "router/static", "system.dhcp/server", "system.snmp/community"}

(* Live state and the SSL VPN settings: read, never written here, and of    *)
(* whose content nothing here depends.                                     *)
ReadPaths ==
    {"monitor/system/status", "monitor/system/interface", "monitor/router/ipv4",
     "monitor/vpn/ipsec", "monitor/vpn/ssl", "vpn.ssl/settings"}

Stored(path, vdom, key) ==
    LET cell == <<path, vdom, key>>
    IN  IF cell \in DOMAIN config THEN config[cell]
        ELSE IF path \in SettingPaths /\ key = Self THEN Factory ELSE None

Full == Cardinality(DOMAIN config) >= MaxRows

(* Where a request is directed: the VDOM, the key, a cell of the table and *)
(* what it holds.                                                          *)
Area(http)    == IF http.path \in GlobalPaths THEN Everywhere ELSE http.vdom
Key(http)     == IF http.keyed THEN http.key ELSE Self
Cell(http, i) == <<http.path, Area(http), i>>
At(http, i)   == Stored(http.path, Area(http), i)

(* The keys a created row may get. *)
Free(http) ==
    {i \in (IF http.path \in NumberedPaths THEN Ids ELSE {http.name}) : At(http, i) = None}

(* The rows there are under some keys. *)
Rows(http, keys) == {<<i, At(http, i)>> : i \in {j \in keys : At(http, j) # None}}

Written(cell, data) ==
    [c \in DOMAIN config \cup {cell} |-> IF c = cell THEN data ELSE config[c]]
Without(cell) == [c \in DOMAIN config \ {cell} |-> config[c]]

(* The device's answer, and its state after it. *)
Outcome(status, rows, mkey, after) ==
    [reply |-> [status |-> status, rows |-> rows, mkey |-> mkey], after |-> after]

Found(rows)      == Outcome(200, rows, None, config)
Done(key, after) == Outcome(200, {}, key, after)
Absent           == Outcome(404, {}, None, config)
Failed           == Outcome(500, {}, None, config)

(* What the device may do with a request.  Without a body there is nothing *)
(* to create or to change, whatever the device answers.                    *)
Outcomes(http) ==
    LET key == Key(http)
        cell == Cell(http, key)
    IN  CASE http.verb = "GET" ->
                {IF http.path \in ReadPaths THEN Found({})
                 ELSE IF ~http.keyed THEN Found(Rows(http, Ids \cup {Self}))
                 ELSE IF At(http, key) = None THEN Absent ELSE Found(Rows(http, {key}))}
          [] http.verb = "POST" ->
                IF http.data = None \/ Full \/ Free(http) = {} THEN {Failed}
                ELSE {Done(i, Written(Cell(http, i), http.data)) : i \in Free(http)}
          [] http.verb = "PUT" ->
                IF At(http, key) = None THEN {Absent}
                ELSE IF http.data = None THEN {Failed, Done(key, config)}
                ELSE IF Full /\ cell \notin DOMAIN config THEN {Failed}
                ELSE {Done(key, Written(cell, http.data))}
          [] http.verb = "DELETE" ->
                {IF At(http, key) = None THEN Absent ELSE Done(key, Without(cell))}

-----------------------------------------------------------------------------
(* The arguments fetch_current, execute and list_all call the method with. *)
Arguments(op, type) ==
    CASE op = "list" -> Vdom
      [] op = "get" -> IF type \in Singletons THEN Vdom ELSE IdVdom
      [] op = "create" -> DataVdom
      [] op = "update" -> IF type \in Singletons THEN DataVdom ELSE IdDataVdom
      [] op = "delete" -> IdVdom

(* `json=data if data else None`: an empty dict is not sent at all. *)
Body(data) == IF data = Empty THEN None ELSE data

(* Broken: the default VDOM takes precedence. *)
MakeRequestDefaultVdom(method, id, vdom, data) ==
    LET e == Endpoint[Forward[method]]
    IN  [verb |-> e.verb, path |-> e.path, keyed |-> e.keyed,
         key  |-> IF e.keyed THEN id ELSE None,
         vdom |-> DefaultVdom,
         name |-> IF e.verb = "POST" THEN id ELSE None,
         data |-> IF e.body THEN Body(data) ELSE None]

(* _make_request: `params["vdom"] = vdom or self.config.vdom`.  The key and *)
(* the body are there if the endpoint has them; name is the body's own.     *)
MakeRequest(method, id, vdom, data) ==
    LET e == Endpoint[Forward[method]]
    IN  [verb |-> e.verb, path |-> e.path, keyed |-> e.keyed,
         key  |-> IF e.keyed THEN id ELSE None,
         vdom |-> IF e.scoped /\ vdom # None THEN vdom ELSE DefaultVdom,
         name |-> IF e.verb = "POST" THEN id ELSE None,
         data |-> IF e.body THEN Body(data) ELSE None]

(* The three shapes of a call: sent, answered by the device, returned. *)
Sent(op, type, id, vdom, data, http) ==
    [pc |-> "asked", op |-> op, type |-> type, id |-> id, vdom |-> vdom,
     data |-> data, http |-> http]

Answered(c, reply) ==
    [pc |-> "served", op |-> c.op, type |-> c.type, reply |-> reply]

Returned(op, type, ok, value) ==
    [pc |-> "done", op |-> op, type |-> type, ok |-> ok, value |-> value]

Init == config = << >> /\ call = [k \in Callers |-> IdleCall] /\ late = [s \in Slots |-> IdleCall]

UnderWay == {call[k] : k \in Callers} \cup {late[s] : s \in Slots}

(* Nothing else is under way, or it is not too much, and all of it and the *)
(* new request are on contended types.                                     *)
Room(type) ==
    LET busy == {k \in Callers : call[k] # IdleCall}
        waiting == {s \in Slots : late[s] # IdleCall}
    IN  \/ busy = {} /\ waiting = {}
        \/ /\ Cardinality(busy) + Cardinality(waiting) < MaxBusy
           /\ type \in Contended
           /\ \A c \in UnderWay \ {IdleCall} : c.type \in Contended

-----------------------------------------------------------------------------
(* list_all, fetch_current and execute, up to the request they send.  What *)
(* a method raises fetch_current swallows and the others let through.      *)
Dispatch(k, op, type, id, vdom, data) ==
    LET ops == Methods[type]
        fails == call' = [call EXCEPT ![k] = Returned(op, type, op = "get", None)]
        nothing == op = "get" /\ type \notin Singletons /\ id = None
    IN  /\ IF op \notin DOMAIN ops \/ nothing THEN fails
           ELSE IF Signature[ops[op]] # Arguments(op, type) THEN fails
           ELSE call' = [call EXCEPT
                    ![k] = Sent(op, type, id, vdom, data,
                                MakeRequest(ops[op], id, vdom, data))]
        /\ UNCHANGED <<config, late>>

(* The ids and data a service passes with an operation: a created resource *)
(* has its name in the data, unless the device numbers it; no data, no     *)
(* name.                                                                   *)
Sensible(op, type, id, data) ==
    /\ data = None <=> op \notin {"create", "update"}
    /\ op = "list" \/ type \in Singletons => id = None
    /\ type \notin Singletons =>
          /\ op = "create" =>
                (id = None <=> \/ data = Empty
                               \/ Endpoint[Forward[Methods[type].create]].path \in NumberedPaths)
          /\ op \in {"update", "delete"} => id # None

(* Naming the default VDOM makes the same request as naming none. *)
Named == Vdoms \ {DefaultVdom}

Dispatched(k) ==
    /\ call[k] = IdleCall
    /\ \E type \in {t \in ResourceTypes : Room(t)},
          op \in {"list", "get", "create", "update", "delete"},
          id \in Ids \cup {None}, data \in Data \cup {Empty, None} :
          /\ Sensible(op, type, id, data)
          /\ \E vdom \in Named \cup {None} : Dispatch(k, op, type, id, vdom, data)

(* The adapter methods services call without the dispatch table. *)
DirectReads ==
    {"get_status", "list_vdoms", "get_interface_status", "get_routing_table",
     "get_ipsec_tunnel_status", "get_ssl_vpn_settings", "get_ssl_vpn_sessions"}

Query(k) ==
    /\ call[k] = IdleCall /\ Room(None)
    /\ \E method \in DirectReads, vdom \in Named \cup {None}, id \in Ids :
          call' = [call EXCEPT ![k] =
              Sent("query", None, None, None, None, MakeRequest(method, id, vdom, None))]
    /\ UNCHANGED <<config, late>>

(* FortiGateAPI.test_connection *)
Probe(k) ==
    /\ call[k] = IdleCall /\ Room(None)
    /\ call' = [call EXCEPT ![k] =
          Sent("probe", None, None, None, None, MakeRequest("get_status", None, None, None))]
    /\ UNCHANGED <<config, late>>

-----------------------------------------------------------------------------
(* The device serves the request. *)
Serve(k) ==
    /\ call[k].pc = "asked"
    /\ \E outcome \in Outcomes(call[k].http) :
          /\ config' = outcome.after
          /\ call' = [call EXCEPT ![k] = Answered(call[k], outcome.reply)]
    /\ UNCHANGED late

(* The device serves a request nobody waits for any more. *)
ServeLate(s) ==
    /\ late[s].pc = "asked"
    /\ \E outcome \in Outcomes(late[s].http) : config' = outcome.after
    /\ late' = [late EXCEPT ![s] = IdleCall]
    /\ UNCHANGED call

(* extract_created_resource_id, on an answer that may lack an mkey. *)
CreatedId(op, mkey) == IF op = "create" THEN {mkey, None} ELSE {None}

(* What the caller makes of a successful answer: unwrap_list, unwrap_single *)
(* and extract_created_resource_id.  Blank is {"status": "success"}, which  *)
(* _make_request returns for a body that is no JSON: no rows to a list, the *)
(* resource itself to a fetch.                                              *)
Values(c) ==
    LET first == IF c.reply.rows = {} THEN {None} ELSE {row[2] : row \in c.reply.rows}
    IN  CASE c.op = "list" -> {c.reply.rows, {}}
          [] c.op = "get" -> first \cup {Blank}
          [] OTHER -> CreatedId(c.op, c.reply.mkey)

(* Any status below 400 is success. *)
Receive(k) ==
    LET c == call[k]
    IN  /\ c.pc = "served"
        /\ IF c.reply.status >= 400
           THEN call' = [call EXCEPT ![k] = Returned(c.op, c.type, c.op = "get", None)]
           ELSE \E value \in Values(c) :
                    call' = [call EXCEPT ![k] = Returned(c.op, c.type, TRUE, value)]
        /\ UNCHANGED <<config, late>>

(* httpx.RequestError: no connection, or no answer in time.  The request   *)
(* is lost, was served already, or is still under way.                     *)
NetworkError(k) ==
    LET c == call[k]
    IN  /\ c.pc \in {"asked", "served"}
        /\ call' = [call EXCEPT ![k] = Returned(c.op, c.type, c.op = "get", None)]
        /\ \/ UNCHANGED late
           \/ /\ c.pc = "asked" /\ c.type \in Contended
              /\ \E s \in Slots : late[s] = IdleCall /\ late' = [late EXCEPT ![s] = c]
        /\ UNCHANGED config

Return(k) ==
    /\ call[k].pc = "done"
    /\ call' = [call EXCEPT ![k] = IdleCall]
    /\ UNCHANGED <<config, late>>

Next ==
    \/ \E s \in Slots : ServeLate(s)
    \/ \E k \in Callers :
        \/ Dispatched(k) \/ Query(k) \/ Probe(k)
        \/ Serve(k) \/ Receive(k) \/ NetworkError(k) \/ Return(k)

Spec == Init /\ [][Next]_vars

-----------------------------------------------------------------------------
Cells == {<<Endpoint[m].path, vdom, i>> :
            m \in DOMAIN Endpoint, vdom \in Vdoms \cup {Everywhere}, i \in Ids \cup {Self}}

Requests ==
    [verb : {"GET", "POST", "PUT", "DELETE"}, path : {Endpoint[m].path : m \in DOMAIN Endpoint},
     keyed : BOOLEAN, key : Ids \cup {None}, vdom : Vdoms, name : Ids \cup {None},
     data : Data \cup {None}]

ConfigOK ==
    /\ DOMAIN config \subseteq Cells
    /\ \A c \in DOMAIN config :
          /\ config[c] \in Data
          /\ c[1] \notin ReadPaths
          /\ c[1] \in GlobalPaths <=> c[2] = Everywhere
          /\ c[1] \in SettingPaths <=> c[3] = Self
    /\ Cardinality(DOMAIN config) <= MaxRows

RequestOK(http) ==
    /\ http \in Requests
    /\ http.keyed <=> http.key # None
    /\ http.data # None => http.verb \in {"POST", "PUT"}

(* Only the tables and settings the code writes are ever changed, the      *)
(* device's own ones in no VDOM, the others in one, a setting without a    *)
(* key and a row under one; requests are well formed, and have the content *)
(* that was to be written.                                                 *)
TypeOK ==
    /\ ConfigOK
    /\ DOMAIN call = Callers /\ DOMAIN late = Slots
    /\ \A k \in Callers : call[k].pc \in {"idle", "asked", "served", "done"}
    /\ \A s \in Slots : late[s].pc \in {"idle", "asked"}
    /\ \A c \in UnderWay : c.pc = "asked" =>
          RequestOK(c.http) /\ (c.data \in Data => c.http.data = c.data)

-----------------------------------------------------------------------------
(* The abstraction: which resource a path, VDOM and key hold. *)
PathOf ==
    [firewall_policy |-> "firewall/policy", address_object |-> "firewall/address",
     service_object |-> "firewall.service/custom", static_route |-> "router/static",
     virtual_ip |-> "firewall/vip", ipsec_phase1 |-> "vpn.ipsec/phase1-interface",
     ipsec_phase2 |-> "vpn.ipsec/phase2-interface", dns |-> "system/dns",
     ntp |-> "system/ntp", syslog |-> "log.syslogd/setting",
     snmp_sysinfo |-> "system.snmp/sysinfo", system_global |-> "system/global",
     ha |-> "system/ha", snmp_community |-> "system.snmp/community",
     admin |-> "system/admin", vdom |-> "system/vdom", vdom_link |-> "system/vdom-link",
     interface |-> "system/interface", zone |-> "system/zone",
     dhcp_server |-> "system.dhcp/server"]
StoreOf ==
    LET locs == {<<t, c[2], c[3]>> : t \in ResourceTypes, c \in DOMAIN config}
    IN  [l \in {m \in locs : <<PathOf[m[1]], m[2], m[3]>> \in DOMAIN config} |->
            config[<<PathOf[l[1]], l[2], l[3]>>]]

PendingOf(c) ==
    [pc |-> "asked", op |-> c.op, type |-> c.type, id |-> c.id, data |-> c.data,
     scope |-> IF c.type = None \/ PathOf[c.type] \in GlobalPaths THEN Everywhere
               ELSE IF c.vdom = None THEN DefaultVdom ELSE c.vdom]

ServedOf(c) ==
    [pc |-> "served", op |-> c.op, type |-> c.type,
     rows |-> IF c.type = None THEN {} ELSE c.reply.rows,
     id |-> c.reply.mkey,
     did |-> IF c.reply.status >= 400 THEN "refused"
             ELSE IF c.op \in {"create", "update", "delete"} THEN "written" ELSE "read"]

AskedOf(c) ==
    CASE c.pc = "asked" -> PendingOf(c)
      [] c.pc = "served" -> ServedOf(c)
      [] OTHER -> c

AskedNow == [k \in Callers |-> AskedOf(call[k])]
LateNow  == [s \in Slots |-> AskedOf(late[s])]

Store == INSTANCE ResourceStore WITH store <- StoreOf, asked <- AskedNow, late <- LateNow

(* Behind the change engine the device is a keyed store: whatever methods, *)
(* paths, VDOM parameters and status codes a call goes through, it takes   *)
(* effect at most once, on the resource of its type, VDOM and id and on no *)
(* other; success is reported only of what the device did; a list or fetch *)
(* shows that resource as it was at one moment of the call, or says        *)
(* nothing; every verb the dispatch table offers reaches the device.       *)
ImplementsStore == Store!Spec

=============================================================================
