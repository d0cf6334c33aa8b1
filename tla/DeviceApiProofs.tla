-------------------------- MODULE DeviceApiProofs ---------------------------
(***************************************************************************)
(* Proofs about DeviceApi: its type invariant, and that what a device is   *)
(* asked through dispatch table, adapter and client is what a store of     *)
(* resources is asked.                                                     *)
(***************************************************************************)
EXTENDS DeviceApi, FiniteSetTheorems, TLAPS

-----------------------------------------------------------------------------
(* The tables.  Looked up one after the other they yield, for every verb a *)
(* resource type has, the request that verb and type call for.             *)

Wire(e, op, type) ==
    /\ op \in {"list", "get"} => e.verb = "GET"
    /\ op = "create" => e.verb = "POST"
    /\ op = "update" => e.verb = "PUT"
    /\ op = "delete" => e.verb = "DELETE"
    /\ e.path = PathOf[type]
    /\ e.keyed <=> type \notin Singletons /\ op \in {"get", "update", "delete"}
    /\ e.body <=> op \in {"create", "update"}
    /\ ~e.scoped => type \in {"vdom", "vdom_link"}

Wired(type, op) ==
    LET method == Methods[type][op] IN
    /\ Signature[method] = Arguments(op, type)
    /\ Forward[method] \in DOMAIN Endpoint
    /\ Wire(Endpoint[Forward[method]], op, type)

(* The area's tables are parts of the whole ones. *)
Part(signature, forward, endpoints) ==
    /\ \A m \in DOMAIN signature :
          m \in DOMAIN Signature /\ Signature[m] = signature[m] /\ Forward[m] = forward[m]
    /\ \A m \in DOMAIN endpoints : m \in DOMAIN Endpoint /\ Endpoint[m] = endpoints[m]

LEMMA SignaturesApart ==
    /\ \A m \in DOMAIN TrafficSignature : m \notin DOMAIN SystemSignature
    /\ \A m \in DOMAIN VpnSignature : m \notin DOMAIN SystemSignature \cup DOMAIN TrafficSignature
    /\ \A m \in DOMAIN SettingsSignature :
          m \notin DOMAIN SystemSignature \cup DOMAIN TrafficSignature \cup DOMAIN VpnSignature
  BY DEF SystemSignature, TrafficSignature, VpnSignature, SettingsSignature

LEMMA EndpointsApart ==
    /\ \A m \in DOMAIN TrafficEndpoints : m \notin DOMAIN SystemEndpoints
    /\ \A m \in DOMAIN VpnEndpoints : m \notin DOMAIN SystemEndpoints \cup DOMAIN TrafficEndpoints
    /\ \A m \in DOMAIN SettingsEndpoints :
          m \notin DOMAIN SystemEndpoints \cup DOMAIN TrafficEndpoints \cup DOMAIN VpnEndpoints
  BY DEF SystemEndpoints, TrafficEndpoints, VpnEndpoints, SettingsEndpoints

LEMMA ForwardsAll ==
    /\ DOMAIN SystemForward = DOMAIN SystemSignature
    /\ DOMAIN TrafficForward = DOMAIN TrafficSignature
    /\ DOMAIN VpnForward = DOMAIN VpnSignature
    /\ DOMAIN SettingsForward = DOMAIN SettingsSignature
  <1>1. DOMAIN SystemForward = DOMAIN SystemSignature
    BY DEF Over, SystemSignature, SystemForward, Same
  <1>2. DOMAIN TrafficForward = DOMAIN TrafficSignature
    BY DEF Over, TrafficSignature, TrafficForward, Same
  <1>3. DOMAIN VpnForward = DOMAIN VpnSignature
    BY DEF Over, VpnSignature, VpnForward, Same
  <1>4. DOMAIN SettingsForward = DOMAIN SettingsSignature
    BY DEF Over, SettingsSignature, SettingsForward, Same
  <1>. QED
    BY <1>1, <1>2, <1>3, <1>4

LEMMA Parts ==
    /\ Part(SystemSignature, SystemForward, SystemEndpoints)
    /\ Part(TrafficSignature, TrafficForward, TrafficEndpoints)
    /\ Part(VpnSignature, VpnForward, VpnEndpoints)
    /\ Part(SettingsSignature, SettingsForward, SettingsEndpoints)
  BY SignaturesApart, EndpointsApart, ForwardsAll DEF Part, Over, Signature, Forward, Endpoint

(* The requests of a type, by its kind and path.                           *)
SettingCalls(p)    == Setting(Get(p), Put(p))
GetterlessCalls(p) == NoGetter(Get(p), Post(p), PutItem(p), Delete(p))
TableCalls(p)      == Table(Get(p), GetItem(p), Post(p), PutItem(p), Delete(p))
VdomCalls(p)       == [create |-> Unscoped(Post(p)), delete |-> Unscoped(Delete(p))]
LinkCalls(p)       == [list |-> Unscoped(Get(p)), get |-> Unscoped(GetItem(p)),
                       create |-> Unscoped(Post(p)), delete |-> Unscoped(Delete(p))]

LEMMA CallsAreWired ==
    /\ \A t \in Singletons, op \in {"get", "update"} :
          Wire(SettingCalls(PathOf[t])[op], op, t)
    /\ \A t \in Getterless, op \in {"list", "create", "update", "delete"} :
          Wire(GetterlessCalls(PathOf[t])[op], op, t)
    /\ \A t \in FullyKeyed, op \in {"list", "get", "create", "update", "delete"} :
          Wire(TableCalls(PathOf[t])[op], op, t)
    /\ \A op \in {"create", "delete"} : Wire(VdomCalls(PathOf["vdom"])[op], op, "vdom")
    /\ \A op \in {"list", "get", "create", "delete"} :
          Wire(LinkCalls(PathOf["vdom_link"])[op], op, "vdom_link")
  <1>. USE DEF Wire, Setting, NoGetter, Table, Get, GetItem, Put, PutItem, Post, Delete, Request,
               Singletons
  <1>1. \A t \in Singletons, op \in {"get", "update"} :
            Wire(SettingCalls(PathOf[t])[op], op, t)
    BY DEF SettingCalls
  <1>2. \A t \in Getterless, op \in {"list", "create", "update", "delete"} :
            Wire(GetterlessCalls(PathOf[t])[op], op, t)
    BY DEF GetterlessCalls, Getterless
  <1>3. \A t \in FullyKeyed, op \in {"list", "get", "create", "update", "delete"} :
            Wire(TableCalls(PathOf[t])[op], op, t)
    BY DEF TableCalls, FullyKeyed
  <1>4. \A op \in {"create", "delete"} : Wire(VdomCalls(PathOf["vdom"])[op], op, "vdom")
    BY DEF VdomCalls, Unscoped
  <1>5. \A op \in {"list", "get", "create", "delete"} :
            Wire(LinkCalls(PathOf["vdom_link"])[op], op, "vdom_link")
    BY DEF LinkCalls, Unscoped
  <1>. QED
    BY <1>1, <1>2, <1>3, <1>4, <1>5

(* Behind the dispatch table: for each type the client's methods.          *)
SystemClients ==
    [interface |-> Table("get_interfaces", "get_interface_detail",
                         "create_interface", "update_interface",
                         "delete_interface"),
     zone |-> Table("get_zones", "get_zone_detail", "create_zone",
                    "update_zone", "delete_zone"),
     dhcp_server |-> Table("get_dhcp_servers", "get_dhcp_server_detail",
                           "create_dhcp_server", "update_dhcp_server",
                           "delete_dhcp_server"),
     vdom |-> [create |-> "create_vdom", delete |-> "delete_vdom"],
     vdom_link |-> [list |-> "get_vdom_links", get |-> "get_vdom_link_detail",
                          create |-> "create_vdom_link", delete |-> "delete_vdom_link"]]

TrafficClients ==
    [firewall_policy |-> Table("get_firewall_policies",
                               "get_firewall_policy_detail",
                               "create_firewall_policy",
                               "update_firewall_policy",
                               "delete_firewall_policy"),
     static_route |-> Table("get_static_routes", "get_static_route_detail",
                            "create_static_route", "update_static_route",
                            "delete_static_route"),
     virtual_ip |-> Table("get_virtual_ips", "get_virtual_ip_detail",
                          "create_virtual_ip", "update_virtual_ip",
                          "delete_virtual_ip"),
     address_object |-> NoGetter("get_address_objects",
                                 "create_address_object",
                                 "update_address_object",
                                 "delete_address_object"),
     service_object |-> NoGetter("get_service_objects",
                                 "create_service_object",
                                 "update_service_object",
                                 "delete_service_object")]

VpnClients ==
    [ipsec_phase1 |-> Table("get_ipsec_phase1_list", "get_ipsec_phase1_detail",
                            "create_ipsec_phase1", "update_ipsec_phase1",
                            "delete_ipsec_phase1"),
     ipsec_phase2 |-> Table("get_ipsec_phase2_list", "get_ipsec_phase2_detail",
                            "create_ipsec_phase2", "update_ipsec_phase2",
                            "delete_ipsec_phase2")]

SettingsClients ==
    [dns |-> Setting("get_dns_settings", "update_dns_settings"),
     ntp |-> Setting("get_ntp_settings", "update_ntp_settings"),
     syslog |-> Setting("get_syslog_settings", "update_syslog_settings"),
     snmp_sysinfo |-> Setting("get_snmp_sysinfo", "update_snmp_sysinfo"),
     system_global |-> Setting("get_system_global", "update_system_global"),
     ha |-> Setting("get_ha_config", "update_ha_config"),
     snmp_community |-> Table("get_snmp_communities",
                              "get_snmp_community_detail",
                              "create_snmp_community",
                              "update_snmp_community",
                              "delete_snmp_community"),
     admin |-> Table("list_admins", "get_admin_detail", "create_admin",
                     "update_admin", "delete_admin")]

(* What an area's tables say of the types it has clients for.              *)
Agree(clients, signature, forward, endpoints) ==
    \A t \in DOMAIN clients : \A op \in DOMAIN Methods[t] :
        LET method == Methods[t][op] IN
        /\ method \in DOMAIN signature
        /\ signature[method] = Arguments(op, t)
        /\ forward[method] = clients[t][op]
        /\ clients[t][op] \in DOMAIN endpoints
        /\ Wire(endpoints[clients[t][op]], op, t)

LEMMA SystemAgree == Agree(SystemClients, SystemSignature, SystemForward, SystemEndpoints)
  <1>. SUFFICES ASSUME NEW t \in DOMAIN SystemClients, NEW op \in DOMAIN Methods[t]
                PROVE  /\ Methods[t][op] \in DOMAIN SystemSignature
                       /\ SystemSignature[Methods[t][op]] = Arguments(op, t)
                       /\ SystemForward[Methods[t][op]] = SystemClients[t][op]
                       /\ SystemClients[t][op] \in DOMAIN SystemEndpoints
                       /\ Wire(SystemEndpoints[SystemClients[t][op]], op, t)
    BY DEF Agree
  <1>1. /\ Methods[t][op] \in DOMAIN SystemSignature
        /\ SystemSignature[Methods[t][op]] = Arguments(op, t)
    BY DEF SystemClients, Methods, Table, SystemSignature, Arguments, Singletons
  <1>2. SystemForward[Methods[t][op]] = SystemClients[t][op]
    BY DEF SystemClients, Methods, Table, SystemForward, SystemSignature, Same, Over
  <1>3. /\ SystemClients[t][op] \in DOMAIN SystemEndpoints
        /\ t \in FullyKeyed => SystemEndpoints[SystemClients[t][op]] = TableCalls(PathOf[t])[op]
        /\ t = "vdom" => SystemEndpoints[SystemClients[t][op]] = VdomCalls(PathOf[t])[op]
        /\ t = "vdom_link" => SystemEndpoints[SystemClients[t][op]] = LinkCalls(PathOf[t])[op]
    BY DEF SystemClients, Methods, Table, SystemEndpoints, PathOf, TableCalls, VdomCalls, LinkCalls,
           Singletons, Getterless, FullyKeyed
  <1>. QED
    BY <1>1, <1>2, <1>3, CallsAreWired DEF SystemClients, Methods, Table, Singletons, Getterless, FullyKeyed

LEMMA TrafficAgree == Agree(TrafficClients, TrafficSignature, TrafficForward, TrafficEndpoints)
  <1>. SUFFICES ASSUME NEW t \in DOMAIN TrafficClients, NEW op \in DOMAIN Methods[t]
                PROVE  /\ Methods[t][op] \in DOMAIN TrafficSignature
                       /\ TrafficSignature[Methods[t][op]] = Arguments(op, t)
                       /\ TrafficForward[Methods[t][op]] = TrafficClients[t][op]
                       /\ TrafficClients[t][op] \in DOMAIN TrafficEndpoints
                       /\ Wire(TrafficEndpoints[TrafficClients[t][op]], op, t)
    BY DEF Agree
  <1>1. /\ Methods[t][op] \in DOMAIN TrafficSignature
        /\ TrafficSignature[Methods[t][op]] = Arguments(op, t)
    BY DEF TrafficClients, Methods, NoGetter, Table, TrafficSignature, Arguments, Singletons
  <1>2. TrafficForward[Methods[t][op]] = TrafficClients[t][op]
    BY DEF TrafficClients, Methods, NoGetter, Table, TrafficForward, TrafficSignature, Same, Over
  <1>3. /\ TrafficClients[t][op] \in DOMAIN TrafficEndpoints
        /\ t \in Getterless => TrafficEndpoints[TrafficClients[t][op]] = GetterlessCalls(PathOf[t])[op]
        /\ t \in FullyKeyed => TrafficEndpoints[TrafficClients[t][op]] = TableCalls(PathOf[t])[op]
    BY DEF TrafficClients, Methods, NoGetter, Table, TrafficEndpoints, PathOf, GetterlessCalls, TableCalls,
           Singletons, Getterless, FullyKeyed
  <1>. QED
    BY <1>1, <1>2, <1>3, CallsAreWired DEF TrafficClients, Methods, NoGetter, Table, Singletons, Getterless, FullyKeyed

LEMMA VpnAgree == Agree(VpnClients, VpnSignature, VpnForward, VpnEndpoints)
  <1>. SUFFICES ASSUME NEW t \in DOMAIN VpnClients, NEW op \in DOMAIN Methods[t]
                PROVE  /\ Methods[t][op] \in DOMAIN VpnSignature
                       /\ VpnSignature[Methods[t][op]] = Arguments(op, t)
                       /\ VpnForward[Methods[t][op]] = VpnClients[t][op]
                       /\ VpnClients[t][op] \in DOMAIN VpnEndpoints
                       /\ Wire(VpnEndpoints[VpnClients[t][op]], op, t)
    BY DEF Agree
  <1>1. /\ Methods[t][op] \in DOMAIN VpnSignature
        /\ VpnSignature[Methods[t][op]] = Arguments(op, t)
    BY DEF VpnClients, Methods, Table, VpnSignature, Arguments, Singletons
  <1>2. VpnForward[Methods[t][op]] = VpnClients[t][op]
    BY DEF VpnClients, Methods, Table, VpnForward, VpnSignature, Same, Over
  <1>3. /\ VpnClients[t][op] \in DOMAIN VpnEndpoints
        /\ t \in FullyKeyed => VpnEndpoints[VpnClients[t][op]] = TableCalls(PathOf[t])[op]
    BY DEF VpnClients, Methods, Table, VpnEndpoints, PathOf, TableCalls,
           Singletons, Getterless, FullyKeyed
  <1>. QED
    BY <1>1, <1>2, <1>3, CallsAreWired DEF VpnClients, Methods, Table, Singletons, Getterless, FullyKeyed

LEMMA SettingsAgree == Agree(SettingsClients, SettingsSignature, SettingsForward, SettingsEndpoints)
  <1>. SUFFICES ASSUME NEW t \in DOMAIN SettingsClients, NEW op \in DOMAIN Methods[t]
                PROVE  /\ Methods[t][op] \in DOMAIN SettingsSignature
                       /\ SettingsSignature[Methods[t][op]] = Arguments(op, t)
                       /\ SettingsForward[Methods[t][op]] = SettingsClients[t][op]
                       /\ SettingsClients[t][op] \in DOMAIN SettingsEndpoints
                       /\ Wire(SettingsEndpoints[SettingsClients[t][op]], op, t)
    BY DEF Agree
  <1>1. /\ Methods[t][op] \in DOMAIN SettingsSignature
        /\ SettingsSignature[Methods[t][op]] = Arguments(op, t)
    BY DEF SettingsClients, Methods, Setting, Table, SettingsSignature, Arguments, Singletons
  <1>2. SettingsForward[Methods[t][op]] = SettingsClients[t][op]
    <2>1. t \in Singletons \/ t \in {"snmp_community", "admin"}
      BY DEF SettingsClients, Singletons
    <2>2. CASE t \in Singletons
      BY <1>1, <2>2 DEF SettingsClients, Methods, Setting, SettingsForward, Same, Over, Singletons
    <2>3. CASE t \in {"snmp_community", "admin"}
      BY <1>1, <2>3 DEF SettingsClients, Methods, Table, SettingsForward, Same, Over
    <2>. QED
      BY <2>1, <2>2, <2>3
  <1>3. /\ SettingsClients[t][op] \in DOMAIN SettingsEndpoints
        /\ t \in Singletons => SettingsEndpoints[SettingsClients[t][op]] = SettingCalls(PathOf[t])[op]
        /\ t \in FullyKeyed => SettingsEndpoints[SettingsClients[t][op]] = TableCalls(PathOf[t])[op]
    BY DEF SettingsClients, Methods, Setting, Table, SettingsEndpoints, PathOf, SettingCalls, TableCalls,
           Singletons, Getterless, FullyKeyed
  <1>4. /\ t \in Singletons \cup FullyKeyed
        /\ t \in Singletons => op \in {"get", "update"}
        /\ t \in FullyKeyed => op \in {"list", "get", "create", "update", "delete"}
    BY DEF SettingsClients, Methods, Setting, Table, Singletons, FullyKeyed
  <1>. QED
    BY <1>1, <1>2, <1>3, <1>4, CallsAreWired

(* Whatever a resource type supports is a method that takes the arguments  *)
(* it is called with and ends in a request of the right form.              *)
THEOREM AllWired ==
    \A t \in ResourceTypes :
        /\ DOMAIN Methods[t] = ResourceOps[t]
        /\ \A op \in DOMAIN Methods[t] : Wired(t, op)
  <1>1. TAKE t \in ResourceTypes
  <1>2. DOMAIN Methods[t] = ResourceOps[t]
    BY DEF ResourceTypes, ResourceOps, Methods, Table, NoGetter, Setting, Singletons, Getterless, FullyKeyed
  <1>3. t \in DOMAIN SystemClients \cup DOMAIN TrafficClients \cup DOMAIN VpnClients
                \cup DOMAIN SettingsClients
    BY DEF ResourceTypes, SystemClients, TrafficClients, VpnClients, SettingsClients, Singletons,
           Getterless, FullyKeyed
  <1>. QED
    BY <1>2, <1>3, Parts, SystemAgree, TrafficAgree, VpnAgree, SettingsAgree DEF Agree, Part, Wired

(* A request ends in a key or does not.                                    *)
LEMMA KeyedOrNot == \A m \in DOMAIN Endpoint : Endpoint[m].keyed \in BOOLEAN
  <1>. DEFINE Keyed(endpoints) == \A m \in DOMAIN endpoints : endpoints[m].keyed \in BOOLEAN
  <1>0. \A p : /\ Get(p).keyed \in BOOLEAN /\ GetItem(p).keyed \in BOOLEAN
               /\ Put(p).keyed \in BOOLEAN /\ PutItem(p).keyed \in BOOLEAN
               /\ Post(p).keyed \in BOOLEAN /\ Delete(p).keyed \in BOOLEAN
               /\ Unscoped(Get(p)).keyed \in BOOLEAN /\ Unscoped(GetItem(p)).keyed \in BOOLEAN
               /\ Unscoped(Post(p)).keyed \in BOOLEAN /\ Unscoped(Delete(p)).keyed \in BOOLEAN
    BY DEF Get, GetItem, Put, PutItem, Post, Delete, Unscoped, Request
  <1>1. Keyed(SystemEndpoints)
    BY <1>0 DEF SystemEndpoints
  <1>2. Keyed(TrafficEndpoints)
    BY <1>0 DEF TrafficEndpoints
  <1>3. Keyed(VpnEndpoints)
    BY <1>0 DEF VpnEndpoints
  <1>4. Keyed(SettingsEndpoints)
    BY <1>0 DEF SettingsEndpoints
  <1>. QED
    BY <1>1, <1>2, <1>3, <1>4 DEF Endpoint, Over

(* The methods services call directly only read.                           *)
Reading(e) ==
    /\ e.verb = "GET" /\ e.body = FALSE
    /\ e.keyed \in BOOLEAN
    /\ e.keyed => e.path \in ReadPaths

LEMMA ReadsOnly ==
    \A method \in DirectReads :
        Forward[method] \in DOMAIN Endpoint /\ Reading(Endpoint[Forward[method]])
  <1>1. \A method \in {"get_status", "list_vdoms", "get_interface_status"} :
            /\ method \in DOMAIN SystemSignature
            /\ SystemForward[method] \in DOMAIN SystemEndpoints
            /\ SystemEndpoints[SystemForward[method]] =
                  IF method = "get_status" THEN Get("monitor/system/status")
                  ELSE IF method = "list_vdoms" THEN Unscoped(Get("system/vdom"))
                  ELSE GetItem("monitor/system/interface")
    BY DEF SystemForward, SystemSignature, SystemEndpoints, Over, Same
  <1>2. /\ "get_routing_table" \in DOMAIN TrafficSignature \cap DOMAIN TrafficEndpoints
        /\ TrafficForward["get_routing_table"] = "get_routing_table"
        /\ TrafficEndpoints["get_routing_table"] = Get("monitor/router/ipv4")
    BY DEF TrafficForward, TrafficSignature, TrafficEndpoints, Over, Same
  <1>3. \A method \in {"get_ipsec_tunnel_status", "get_ssl_vpn_settings", "get_ssl_vpn_sessions"} :
            /\ method \in DOMAIN VpnSignature \cap DOMAIN VpnEndpoints
            /\ VpnForward[method] = method
            /\ VpnEndpoints[method] =
                  IF method = "get_ipsec_tunnel_status" THEN Get("monitor/vpn/ipsec")
                  ELSE IF method = "get_ssl_vpn_settings" THEN Get("vpn.ssl/settings")
                  ELSE Get("monitor/vpn/ssl")
    BY DEF VpnForward, VpnSignature, VpnEndpoints, Over, Same
  <1>4. \A p : Reading(Get(p)) /\ Reading(Unscoped(Get(p)))
    BY DEF Reading, Get, Unscoped, Request
  <1>5. Reading(GetItem("monitor/system/interface"))
    BY DEF Reading, GetItem, Request, ReadPaths
  <1>6. TAKE method \in DirectReads
  <1>7. Forward[method] \in DOMAIN Endpoint /\ Reading(Endpoint[Forward[method]])
    <2>1. CASE method \in {"get_status", "list_vdoms", "get_interface_status"}
      <3>1. /\ Forward[method] \in DOMAIN Endpoint
            /\ Endpoint[Forward[method]] = SystemEndpoints[SystemForward[method]]
        BY <1>1, <2>1, Parts DEF Part
      <3>. QED
        BY <1>1, <1>4, <1>5, <2>1, <3>1
    <2>2. CASE method = "get_routing_table"
      BY <1>2, <1>4, <2>2, Parts DEF Part
    <2>3. CASE method \in {"get_ipsec_tunnel_status", "get_ssl_vpn_settings",
                          "get_ssl_vpn_sessions"}
      BY <1>3, <1>4, <2>3, Parts DEF Part
    <2>. QED
      BY <2>1, <2>2, <2>3 DEF DirectReads
  <1>. QED
    BY <1>7

LEMMA StatusUnkeyed == "get_status" \in DirectReads /\ ~Endpoint[Forward["get_status"]].keyed
  <1>1. /\ "get_status" \in DOMAIN SystemSignature
        /\ SystemForward["get_status"] = "get_system_status"
        /\ "get_system_status" \in DOMAIN SystemEndpoints
        /\ SystemEndpoints["get_system_status"] = Get("monitor/system/status")
    BY DEF SystemForward, SystemSignature, SystemEndpoints, Over, Same
  <1>2. Endpoint[Forward["get_status"]] = Get("monitor/system/status")
    BY <1>1, Parts DEF Part
  <1>. QED
    BY <1>2 DEF DirectReads, Get, Request

-----------------------------------------------------------------------------
(* The types and their paths.                                              *)

LEMMA StoreNames ==
    /\ Store!ResourceTypes = ResourceTypes /\ Store!Singletons = Singletons
    /\ Store!ResourceOps = ResourceOps
  <1>. USE DEF Store!ResourceTypes, ResourceTypes, Store!Singletons, Singletons,
               Store!Getterless, Getterless, Store!FullyKeyed, FullyKeyed
  <1>1. Store!ResourceTypes = ResourceTypes
    OBVIOUS
  <1>. QED
    BY <1>1 DEF Store!ResourceOps, ResourceOps

LEMMA Paths ==
    /\ \A t, u \in ResourceTypes : PathOf[t] = PathOf[u] => t = u
    /\ \A t \in ResourceTypes :
          /\ PathOf[t] \notin ReadPaths
          /\ PathOf[t] \in GlobalPaths <=> t \in Store!GlobalTypes
          /\ PathOf[t] \in SettingPaths <=> t \in Singletons
          /\ PathOf[t] \in NumberedPaths <=> t \in Store!Numbered
          /\ t \in {"vdom", "vdom_link"} => t \in Store!GlobalTypes
          /\ t # None
  <1>. USE DEF ResourceTypes, Singletons, Getterless, FullyKeyed, PathOf
  <1>1. \A t, u \in ResourceTypes : PathOf[t] = PathOf[u] => t = u
    OBVIOUS
  <1>2. \A t \in ResourceTypes : PathOf[t] \notin ReadPaths
    BY DEF ReadPaths
  <1>3. \A t \in ResourceTypes :
            /\ PathOf[t] \in GlobalPaths <=> t \in Store!GlobalTypes
            /\ t \in {"vdom", "vdom_link"} => t \in Store!GlobalTypes
    BY DEF GlobalPaths, Store!GlobalTypes
  <1>4. \A t \in ResourceTypes : PathOf[t] \in SettingPaths <=> t \in Singletons
    BY DEF SettingPaths
  <1>5. \A t \in ResourceTypes : PathOf[t] \in NumberedPaths <=> t \in Store!Numbered
    BY DEF NumberedPaths, Store!Numbered
  <1>6. \A t \in ResourceTypes : t # None
    BY DeviceApiAssumption
  <1>. QED
    BY <1>1, <1>2, <1>3, <1>4, <1>5, <1>6

LEMMA TypeOps ==
    \A t \in ResourceTypes :
        /\ ResourceOps[t] \subseteq {"list", "get", "create", "update", "delete"}
        /\ t \in Singletons => ResourceOps[t] = {"get", "update"}
        /\ t \notin Singletons => "create" \in ResourceOps[t]
        /\ t \in Store!Numbered => t \notin Singletons
  BY DEF ResourceTypes, ResourceOps, Singletons, Getterless, FullyKeyed, Store!Numbered

-----------------------------------------------------------------------------
(* The inductive invariant.                                                *)

Scope(type, vdom) ==
    IF PathOf[type] \in GlobalPaths THEN Everywhere
    ELSE IF vdom = None THEN DefaultVdom ELSE vdom

(* Where a resource of a type may be.                                      *)
Placed(type, area, id) ==
    /\ type \in ResourceTypes
    /\ area \in Vdoms \cup {Everywhere} /\ id \in Ids \cup {Self}
    /\ area = Everywhere <=> PathOf[type] \in GlobalPaths
    /\ id = Self <=> type \in Singletons

ConfigInv ==
    /\ IsFiniteSet(DOMAIN config) /\ Cardinality(DOMAIN config) <= MaxRows
    /\ \A c \in DOMAIN config :
          /\ config[c] \in Data
          /\ \E type, area, id : Placed(type, area, id) /\ c = <<PathOf[type], area, id>>

(* An operation the dispatch table has, with what it takes.                *)
Wanted(op, type, id, vdom, data) ==
    /\ type \in ResourceTypes /\ op \in ResourceOps[type]
    /\ id \in Ids \cup {None} /\ vdom \in Vdoms \cup {None} /\ data \in Data \cup {Empty, None}
    /\ Sensible(op, type, id, data)
    /\ op = "get" => type \in Singletons \/ id # None

(* A request under way is what MakeRequest makes of the call.              *)
Wants(c) ==
    /\ Wanted(c.op, c.type, c.id, c.vdom, c.data)
    /\ c.http = MakeRequest(Methods[c.type][c.op], c.id, c.vdom, c.data)

(* A request that only reads, and none of the tables by key.               *)
Looks(http) ==
    /\ RequestOK(http) /\ http.verb = "GET"
    /\ http.keyed => http.path \in ReadPaths

Asks(c) ==
    /\ c = Sent(c.op, c.type, c.id, c.vdom, c.data, c.http)
    /\ \/ Wants(c)
       \/ c.op \in {"query", "probe"} /\ c.type = None /\ c.data = None /\ Looks(c.http)

(* A fetch that succeeded has found something.                             *)
Served(c) ==
    /\ c = Answered(c, c.reply)
    /\ c.type = None => c.op \in {"query", "probe"}
    /\ c.reply.status \in {200, 404, 500}
    /\ c.op = "get" /\ c.reply.status = 200 => c.reply.rows # {}

CallInv(c) ==
    \/ c = IdleCall
    \/ Asks(c)
    \/ Served(c)
    \/ c = Returned(c.op, c.type, c.ok, c.value)

IInv ==
    /\ ConfigInv
    /\ DOMAIN call = Callers
    /\ \A k \in Callers : CallInv(call[k])
    /\ DOMAIN late = Slots
    /\ \A s \in Slots : late[s] = IdleCall \/ Asks(late[s])

(* What MakeRequest makes of a call that is wanted.                        *)
LEMMA Made ==
    ASSUME NEW c, Wants(c)
    PROVE  /\ RequestOK(c.http)
           /\ c.http.verb \in {"GET", "POST", "PUT", "DELETE"}
           /\ c.http.path = PathOf[c.type] /\ Area(c.http) = Scope(c.type, c.vdom)
           /\ c.op \in {"list", "get"} <=> c.http.verb = "GET"
           /\ c.op = "create" <=> c.http.verb = "POST"
           /\ c.op = "update" <=> c.http.verb = "PUT"
           /\ c.op = "delete" <=> c.http.verb = "DELETE"
           /\ c.http.keyed <=> c.type \notin Singletons /\ c.op \in {"get", "update", "delete"}
           /\ Key(c.http) = IF c.http.keyed THEN c.id ELSE Self
           /\ c.http.name = (IF c.op = "create" THEN c.id ELSE None)
           /\ c.http.data = Body(c.data)
           /\ c.data \in Data => c.http.data = c.data
  <1>. DEFINE op == c.op
              type == c.type
              id == c.id
              vdom == c.vdom
              data == c.data
              http == c.http
  <1>0. /\ Wanted(op, type, id, vdom, data)
        /\ http = MakeRequest(Methods[type][op], id, vdom, data)
    BY DEF Wants
  <1>. HIDE DEF op, type, id, vdom, data, http
  <1>. DEFINE e == Endpoint[Forward[Methods[type][op]]]
  <1>1. /\ type \in ResourceTypes /\ op \in {"list", "get", "create", "update", "delete"}
        /\ type \in Singletons => op \in {"get", "update"}
    BY <1>0, TypeOps DEF Wanted
  <1>2. Forward[Methods[type][op]] \in DOMAIN Endpoint /\ Wire(e, op, type)
    BY <1>0, AllWired DEF Wanted, Wired
  <1>3. http = [verb |-> e.verb, path |-> e.path, keyed |-> e.keyed,
                key  |-> IF e.keyed THEN id ELSE None,
                vdom |-> IF e.scoped /\ vdom # None THEN vdom ELSE DefaultVdom,
                name |-> IF e.verb = "POST" THEN id ELSE None,
                data |-> IF e.body THEN Body(data) ELSE None]
    BY <1>0 DEF MakeRequest
  <1>. HIDE DEF e
  <1>4. /\ op \in {"list", "get"} <=> e.verb = "GET"
        /\ op = "create" <=> e.verb = "POST"
        /\ op = "update" <=> e.verb = "PUT"
        /\ op = "delete" <=> e.verb = "DELETE"
        /\ e.verb \in {"GET", "POST", "PUT", "DELETE"}
    BY <1>0, <1>1, <1>2 DEF Wire
  <1>5. /\ http.data = Body(data) /\ http.name = (IF op = "create" THEN id ELSE None)
        /\ data \in Data => Body(data) = data
        /\ Body(data) \in Data \cup {None}
    BY <1>0, <1>2, <1>3, <1>4, DeviceApiAssumption DEF Wire, Wanted, Sensible, Body
  <1>6. /\ http.path = PathOf[type]
        /\ http.keyed <=> type \notin Singletons /\ op \in {"get", "update", "delete"}
    BY <1>0, <1>2, <1>3 DEF Wire
  <1>7. /\ http.vdom \in Vdoms /\ Area(http) = Scope(type, vdom)
    BY <1>0, <1>1, <1>2, <1>3, <1>6, Paths, DeviceApiAssumption DEF Wire, Area, Scope, Wanted
  <1>8. /\ http.keyed => http.key = id
        /\ http.keyed <=> http.key # None
        /\ Key(http) = IF http.keyed THEN id ELSE Self
    <2>1. type \notin Singletons /\ op \in {"get", "update", "delete"} => id # None
      BY <1>0 DEF Wanted, Sensible
    <2>. QED
      BY <1>0, <1>1, <1>2, <1>3, <1>6, <2>1 DEF Wire, Key, Wanted
  <1>9. http \in Requests
    <2>1. e.path \in {Endpoint[m].path : m \in DOMAIN Endpoint}
      BY <1>0, <1>2 DEF e
    <2>2. /\ (IF e.keyed THEN id ELSE None) \in Ids \cup {None}
          /\ (IF e.verb = "POST" THEN id ELSE None) \in Ids \cup {None}
          /\ (IF e.body THEN Body(data) ELSE None) \in Data \cup {None}
          /\ e.keyed \in BOOLEAN
      BY <1>0, <1>2, <1>5, KeyedOrNot DEF Wanted, e
    <2>3. (IF e.scoped /\ vdom # None THEN vdom ELSE DefaultVdom) \in Vdoms
      BY <1>0, <1>3, <1>7
    <2>. QED
      BY <1>0, <1>3, <1>4, <2>1, <2>2, <2>3 DEF Requests
  <1>10. RequestOK(http)
    <2>1. http.data # None => http.verb \in {"POST", "PUT"}
      BY <1>0, <1>1, <1>3, <1>4, <1>5 DEF Wanted, Sensible, Body
    <2>. QED
      BY <1>0, <1>8, <1>9, <2>1 DEF RequestOK
  <1>11. http.verb = e.verb
    BY <1>0, <1>3
  <1>. QED
    BY <1>4, <1>5, <1>6, <1>7, <1>8, <1>10, <1>11 DEF op, type, id, vdom, data, http

(* What is asked for has a place.                                          *)
LEMMA ScopePlaced ==
    ASSUME NEW type \in ResourceTypes, NEW vdom \in Vdoms \cup {None}
    PROVE  /\ type \in Singletons => Placed(type, Scope(type, vdom), Self)
           /\ type \notin Singletons =>
                \A i \in Ids : Placed(type, Scope(type, vdom), i)
  BY DeviceApiAssumption DEF Scope, Placed

-----------------------------------------------------------------------------
(* Every step preserves the invariant.                                     *)

LEMMA InvInit == Init => IInv
  BY FS_EmptySet, DeviceApiAssumption DEF Init, IInv, ConfigInv, CallInv, IdleCall

LEMMA WriteKeeps ==
    ASSUME ConfigInv, NEW type, NEW area, NEW id, Placed(type, area, id), NEW data \in Data,
           \/ ~Full
           \/ <<PathOf[type], area, id>> \in DOMAIN config,
           config' = Written(<<PathOf[type], area, id>>, data)
    PROVE  ConfigInv'
  <1>. DEFINE cell == <<PathOf[type], area, id>>
  <1>1. /\ DOMAIN config' = DOMAIN config \cup {cell}
        /\ \A c \in DOMAIN config' : config'[c] = IF c = cell THEN data ELSE config[c]
    BY DEF Written
  <1>2. IsFiniteSet(DOMAIN config') /\ Cardinality(DOMAIN config') <= MaxRows
    <2>1. /\ IsFiniteSet(DOMAIN config) /\ Cardinality(DOMAIN config) \in Nat
          /\ Cardinality(DOMAIN config) <= MaxRows
      BY FS_CardinalityType DEF ConfigInv
    <2>. HIDE DEF cell
    <2>2. /\ IsFiniteSet(DOMAIN config')
          /\ Cardinality(DOMAIN config') = IF cell \in DOMAIN config THEN Cardinality(DOMAIN config)
                                          ELSE Cardinality(DOMAIN config) + 1
      BY <1>1, <2>1, FS_AddElement
    <2>. QED
      BY <2>1, <2>2, DeviceApiAssumption DEF Full, cell
  <1>3. \A c \in DOMAIN config' :
            /\ config'[c] \in Data
            /\ \E t, v, i : Placed(t, v, i) /\ c = <<PathOf[t], v, i>>
    BY <1>1 DEF ConfigInv
  <1>. QED
    BY <1>2, <1>3 DEF ConfigInv, Placed

LEMMA DropKeeps ==
    ASSUME ConfigInv, NEW cell, config' = Without(cell)
    PROVE  ConfigInv'
  <1>1. /\ DOMAIN config' = DOMAIN config \ {cell}
        /\ \A c \in DOMAIN config' : config'[c] = config[c]
    BY DEF Without
  <1>2. IsFiniteSet(DOMAIN config') /\ Cardinality(DOMAIN config') <= MaxRows
    <2>1. /\ IsFiniteSet(DOMAIN config) /\ Cardinality(DOMAIN config) \in Nat
          /\ Cardinality(DOMAIN config) <= MaxRows
      BY FS_CardinalityType DEF ConfigInv
    <2>2. /\ IsFiniteSet(DOMAIN config')
          /\ Cardinality(DOMAIN config') = IF cell \in DOMAIN config THEN Cardinality(DOMAIN config) - 1
                                          ELSE Cardinality(DOMAIN config)
      BY <1>1, <2>1, FS_RemoveElement
    <2>. QED
      BY <2>1, <2>2, DeviceApiAssumption
  <1>. QED
    BY <1>1, <1>2 DEF ConfigInv, Placed

(* Serving a request keeps the device's state in order.                    *)
LEMMA OutcomeKeeps ==
    ASSUME ConfigInv, NEW c, Asks(c), NEW outcome \in Outcomes(c.http), config' = outcome.after
    PROVE  ConfigInv'
  <1>. DEFINE http == c.http
              cell == Cell(http, Key(http))
  <1>0. config' = config => ConfigInv'
    BY DEF ConfigInv, Placed
  <1>1. CASE Looks(http)
    BY <1>0, <1>1 DEF Outcomes, Looks, Outcome, Found, Absent
  <1>2. CASE Wants(c)
    <2>. DEFINE area == Scope(c.type, c.vdom)
    <2>1. /\ http.path = PathOf[c.type] /\ Area(http) = area
          /\ http.verb \in {"GET", "POST", "PUT", "DELETE"}
          /\ http.data = Body(c.data) /\ Wanted(c.op, c.type, c.id, c.vdom, c.data)
          /\ c.data \in Data => http.data = c.data
      BY <1>2, Made DEF Wants
    <2>2. CASE http.verb = "GET"
      BY <1>0, <2>2 DEF Outcomes, Outcome, Found, Absent
    <2>3. CASE http.verb = "POST"
      <3>1. /\ c.op = "create" /\ c.type \notin Singletons /\ http.name = c.id
            /\ c.data \in Data \cup {Empty}
        BY <1>2, <2>1, <2>3, Made, TypeOps DEF Wanted, Sensible
      <3>2. CASE outcome = Failed
        BY <1>0, <3>2 DEF Failed, Outcome
      <3>3. CASE /\ http.data # None /\ ~Full
                 /\ \E i \in Free(http) : outcome = Done(i, Written(Cell(http, i), http.data))
        <4>0. c.data \in Data /\ c.data # Empty
          BY <2>1, <3>1, <3>3, DeviceApiAssumption DEF Body
        <4>1. PICK i \in Free(http) : outcome = Done(i, Written(Cell(http, i), http.data))
          BY <3>3
        <4>2. i \in Ids
          <5>1. http.path \in NumberedPaths \/ c.id # None
            <6>1. Endpoint[Forward[Methods[c.type].create]].path = PathOf[c.type]
              BY <2>1, <3>1, AllWired DEF Wanted, Wired, Wire
            <6>. QED
              BY <2>1, <3>1, <4>0, <6>1 DEF Wanted, Sensible
          <5>. QED
            BY <2>1, <3>1, <5>1 DEF Free, Wanted
        <4>3. Placed(c.type, area, i) /\ config' = Written(<<PathOf[c.type], area, i>>, c.data)
          BY <1>2, <2>1, <3>1, <4>0, <4>1, <4>2, ScopePlaced DEF Wanted, Done, Outcome, Cell
        <4>. QED
          BY <3>3, <4>0, <4>3, WriteKeeps
      <3>. QED
        BY <2>3, <3>2, <3>3 DEF Outcomes
    <2>4. CASE http.verb = "PUT"
      <3>1. c.op = "update" /\ c.data \in Data \cup {Empty}
        BY <1>2, <2>1, <2>4, Made DEF Wanted, Sensible
      <3>2. Placed(c.type, area, Key(http))
        BY <1>2, <2>1, <3>1, Made, ScopePlaced DEF Wanted, Sensible
      <3>3. cell = <<PathOf[c.type], area, Key(http)>>
        BY <2>1 DEF Cell
      <3>4. \/ config' = config
            \/ /\ ~(Full /\ cell \notin DOMAIN config) /\ c.data \in Data
               /\ config' = Written(cell, c.data)
        BY <2>1, <2>4, <3>1 DEF Outcomes, Outcome, Absent, Failed, Done, Body
      <3>. QED
        BY <1>0, <3>1, <3>2, <3>3, <3>4, WriteKeeps
    <2>5. CASE http.verb = "DELETE"
      <3>1. config' = config \/ config' = Without(cell)
        BY <2>5 DEF Outcomes, Outcome, Absent, Done
      <3>. QED
        BY <1>0, <3>1, DropKeeps
    <2>. QED
      BY <2>1, <2>2, <2>3, <2>4, <2>5
  <1>. QED
    BY <1>1, <1>2 DEF Asks

(* And gives an answer of the right form.                                  *)
LEMMA OutcomeServed ==
    ASSUME ConfigInv, NEW c, Asks(c), NEW outcome \in Outcomes(c.http)
    PROVE  Served(Answered(c, outcome.reply))
  <1>1. outcome.reply.status \in {200, 404, 500}
    <2>1. c.http.verb \in {"GET", "POST", "PUT", "DELETE"}
      BY Made DEF Asks, Looks, RequestOK, Requests
    <2>. QED
      BY <2>1 DEF Outcomes, Outcome, Found, Absent, Failed, Done
  <1>2. ASSUME c.op = "get", outcome.reply.status = 200
        PROVE  outcome.reply.rows # {}
    <2>1. Wants(c) /\ Wanted(c.op, c.type, c.id, c.vdom, c.data)
      BY <1>2 DEF Asks, Wants
    <2>2. /\ c.http.verb = "GET" /\ c.http.path \notin ReadPaths
          /\ c.http.keyed <=> c.type \notin Singletons
          /\ c.http.path \in SettingPaths <=> c.type \in Singletons
      BY <1>2, <2>1, Made, Paths DEF Wanted
    <2>3. CASE c.http.keyed
      <3>. DEFINE key == Key(c.http)
      <3>1. outcome = IF At(c.http, key) = None THEN Absent ELSE Found(Rows(c.http, {key}))
        BY <2>2, <2>3 DEF Outcomes
      <3>2. At(c.http, key) # None /\ outcome.reply.rows = Rows(c.http, {key})
        BY <1>2, <3>1 DEF Absent, Found, Outcome
      <3>. QED
        BY <3>2 DEF Rows
    <2>4. CASE ~c.http.keyed
      <3>1. At(c.http, Self) # None
        BY <2>2, <2>4, DeviceApiAssumption DEF At, Stored, ConfigInv
      <3>2. outcome.reply.rows = Rows(c.http, Ids \cup {Self})
        BY <2>2, <2>4 DEF Outcomes, Outcome, Found
      <3>. QED
        BY <3>1, <3>2 DEF Rows
    <2>. QED
      BY <2>3, <2>4
  <1>3. c.type = None => c.op \in {"query", "probe"}
    BY Paths DEF Asks, Wants, Wanted
  <1>. QED
    BY <1>1, <1>2, <1>3 DEF Served, Answered

LEMMA Read ==
    ASSUME NEW method \in DirectReads, NEW id, NEW vdom \in Vdoms \cup {None},
           id \in Ids \/ (id = None /\ method = "get_status")
    PROVE  Looks(MakeRequest(method, id, vdom, None))
  <1>. DEFINE e == Endpoint[Forward[method]]
              http == MakeRequest(method, id, vdom, None)
  <1>1. Forward[method] \in DOMAIN Endpoint /\ Reading(e)
    BY ReadsOnly
  <1>2. id = None => ~e.keyed
    BY StatusUnkeyed, DeviceApiAssumption
  <1>3. http = [verb |-> e.verb, path |-> e.path, keyed |-> e.keyed,
                key  |-> IF e.keyed THEN id ELSE None,
                vdom |-> IF e.scoped /\ vdom # None THEN vdom ELSE DefaultVdom,
                name |-> IF e.verb = "POST" THEN id ELSE None,
                data |-> IF e.body THEN Body(None) ELSE None]
    BY DEF MakeRequest
  <1>4. e.path \in {Endpoint[m].path : m \in DOMAIN Endpoint}
    BY <1>1
  <1>. HIDE DEF e, http
  <1>5. /\ (IF e.keyed THEN id ELSE None) \in Ids \cup {None}
        /\ (IF e.scoped /\ vdom # None THEN vdom ELSE DefaultVdom) \in Vdoms
        /\ (IF e.verb = "POST" THEN id ELSE None) \in Ids \cup {None}
        /\ (IF e.body THEN Body(None) ELSE None) = None
        /\ e.verb = "GET" /\ e.keyed \in BOOLEAN
    BY <1>1, DeviceApiAssumption DEF Reading, Body
  <1>6. http \in Requests
    BY <1>3, <1>4, <1>5 DEF Requests
  <1>7. /\ http.verb = "GET" /\ http.data = None
        /\ http.keyed <=> e.keyed
        /\ http.key = IF e.keyed THEN id ELSE None
        /\ http.path = e.path
    BY <1>3, <1>5
  <1>8. e.keyed => id # None
    BY <1>2
  <1>9. RequestOK(http)
    BY <1>6, <1>7, <1>8 DEF RequestOK
  <1>. QED
    BY <1>1, <1>7, <1>9 DEF Looks, Reading, http

LEMMA CallsKept ==
    ASSUME IInv, NEW k \in Callers, NEW c, CallInv(c), call' = [call EXCEPT ![k] = c]
    PROVE  DOMAIN call' = Callers /\ \A j \in Callers : CallInv(call'[j])
  BY DEF IInv

LEMMA InvStep == IInv /\ [Next]_vars => IInv'
  <1>. SUFFICES ASSUME IInv, [Next]_vars PROVE IInv'
    OBVIOUS
  <1>. DEFINE LateInv == /\ DOMAIN late = Slots
                         /\ \A s \in Slots : late[s] = IdleCall \/ Asks(late[s])
  <1>1. config' = config => ConfigInv'
    BY DEF IInv, ConfigInv, Placed
  <1>2. late' = late => LateInv'
    BY DEF IInv
  <1>3. ASSUME NEW k \in Callers, NEW c, CallInv(c), call' = [call EXCEPT ![k] = c],
               config' = config, late' = late
        PROVE  IInv'
    BY <1>1, <1>2, <1>3, CallsKept DEF IInv
  <1>4. \A op, type, ok, value : CallInv(Returned(op, type, ok, value))
    BY DEF CallInv, Returned
  <1>5. ASSUME NEW s \in Slots, ServeLate(s) PROVE IInv'
    <2>1. Asks(late[s])
      BY <1>5 DEF ServeLate, IInv, IdleCall
    <2>2. ConfigInv'
      BY <1>5, <2>1, OutcomeKeeps DEF ServeLate, IInv
    <2>3. LateInv'
      BY <1>5 DEF ServeLate, IInv
    <2>. QED
      BY <1>5, <2>2, <2>3 DEF ServeLate, IInv
  <1>6. ASSUME NEW k \in Callers, Dispatched(k) PROVE IInv'
    <2>1. PICK type \in ResourceTypes, op \in {"list", "get", "create", "update", "delete"},
               id \in Ids \cup {None}, data \in Data \cup {Empty, None},
               vdom \in Named \cup {None} :
               Sensible(op, type, id, data) /\ Dispatch(k, op, type, id, vdom, data)
      BY <1>6 DEF Dispatched
    <2>. DEFINE http == MakeRequest(Methods[type][op], id, vdom, data)
                asked == Sent(op, type, id, vdom, data, http)
    <2>2. config' = config /\ late' = late
      BY <2>1 DEF Dispatch
    <2>3. CASE call' = [call EXCEPT ![k] = Returned(op, type, op = "get", None)]
      BY <1>3, <1>4, <2>2, <2>3
    <2>4. CASE /\ call' = [call EXCEPT ![k] = asked]
               /\ op \in DOMAIN Methods[type]
               /\ op = "get" => type \in Singletons \/ id # None
      <3>1. Wanted(op, type, id, vdom, data)
        BY <2>1, <2>4, AllWired DEF Wanted, Named
      <3>2. Asks(asked)
        BY <3>1 DEF Asks, Wants, Sent
      <3>. QED
        BY <1>3, <2>2, <2>4, <3>2 DEF CallInv
    <2>. QED
      BY <2>1, <2>3, <2>4 DEF Dispatch
  <1>7. ASSUME NEW k \in Callers, Query(k) PROVE IInv'
    <2>1. PICK method \in DirectReads, vdom \in Named \cup {None}, id \in Ids :
              call' = [call EXCEPT ![k] =
                  Sent("query", None, None, None, None, MakeRequest(method, id, vdom, None))]
      BY <1>7 DEF Query
    <2>2. Asks(Sent("query", None, None, None, None, MakeRequest(method, id, vdom, None)))
      BY Read DEF Asks, Sent, Named
    <2>. QED
      BY <1>3, <1>7, <2>1, <2>2 DEF CallInv, Query
  <1>8. ASSUME NEW k \in Callers, Probe(k) PROVE IInv'
    <2>. DEFINE probe == Sent("probe", None, None, None, None,
                              MakeRequest("get_status", None, None, None))
    <2>1. Asks(probe)
      BY Read DEF Asks, Sent, DirectReads
    <2>. QED
      BY <1>3, <1>8, <2>1 DEF CallInv, Probe
  <1>9. ASSUME NEW k \in Callers, Serve(k) PROVE IInv'
    <2>1. PICK outcome \in Outcomes(call[k].http) :
              /\ config' = outcome.after
              /\ call' = [call EXCEPT ![k] = Answered(call[k], outcome.reply)]
              /\ UNCHANGED late
      BY <1>9 DEF Serve
    <2>2. Asks(call[k])
      BY <1>9 DEF Serve, IInv, CallInv, IdleCall, Served, Answered, Returned
    <2>3. ConfigInv' /\ Served(Answered(call[k], outcome.reply))
      BY <2>1, <2>2, OutcomeKeeps, OutcomeServed DEF IInv
    <2>4. DOMAIN call' = Callers /\ \A j \in Callers : CallInv(call'[j])
      BY <2>1, <2>3, CallsKept DEF CallInv
    <2>. QED
      BY <1>2, <2>1, <2>3, <2>4 DEF IInv
  <1>10. ASSUME NEW k \in Callers, Receive(k) PROVE IInv'
    <2>1. PICK op, type, ok, value : call' = [call EXCEPT ![k] = Returned(op, type, ok, value)]
      <3>. DEFINE c == call[k]
      <3>1. CASE c.reply.status >= 400
        <4>1. call' = [call EXCEPT ![k] = Returned(c.op, c.type, c.op = "get", None)]
          BY <1>10, <3>1 DEF Receive
        <4>. QED
          BY <4>1, Zenon
      <3>2. CASE ~(c.reply.status >= 400)
        <4>1. PICK value \in Values(c) :
                  call' = [call EXCEPT ![k] = Returned(c.op, c.type, TRUE, value)]
          BY <1>10, <3>2 DEF Receive
        <4>. QED
          BY <4>1
      <3>. QED
        BY <3>1, <3>2
    <2>. QED
      BY <1>3, <1>4, <1>10, <2>1 DEF Receive
  <1>11. ASSUME NEW k \in Callers, NetworkError(k) PROVE IInv'
    <2>1. DOMAIN call' = Callers /\ \A j \in Callers : CallInv(call'[j])
      BY <1>4, <1>11, CallsKept DEF NetworkError
    <2>2. call[k].pc = "asked" => Asks(call[k])
      BY DEF IInv, CallInv, IdleCall, Served, Answered, Returned
    <2>3. LateInv'
      <3>1. \/ late' = late
            \/ \E s \in Slots : call[k].pc = "asked" /\ late' = [late EXCEPT ![s] = call[k]]
        BY <1>11 DEF NetworkError
      <3>. QED
        BY <1>2, <2>2, <3>1 DEF IInv
    <2>. QED
      BY <1>1, <1>11, <2>1, <2>3 DEF IInv, NetworkError
  <1>12. ASSUME NEW k \in Callers, Return(k) PROVE IInv'
    BY <1>3, <1>12 DEF Return, CallInv
  <1>13. CASE UNCHANGED vars
    BY <1>1, <1>13 DEF IInv, vars
  <1>. QED
    BY <1>5, <1>6, <1>7, <1>8, <1>9, <1>10, <1>11, <1>12, <1>13 DEF Next

(* The invariant holds of every reachable state: requests under way are    *)
(* what the tables make of a call, and the device holds resources only.    *)
THEOREM Invariance == Spec => []IInv
  BY InvInit, InvStep, PTL DEF Spec

LEMMA InvTypeOK == IInv => TypeOK
  <1>. SUFFICES ASSUME IInv PROVE TypeOK
    OBVIOUS
  <1>1. \A t \in ResourceTypes : PathOf[t] \in {Endpoint[m].path : m \in DOMAIN Endpoint}
    <2>1. \A t \in ResourceTypes : ResourceOps[t] # {}
      BY TypeOps
    <2>. QED
      BY <2>1, AllWired DEF Wired, Wire
  <1>2. ASSUME NEW c \in DOMAIN config
        PROVE  /\ c \in Cells /\ config[c] \in Data
               /\ c[1] \notin ReadPaths
               /\ c[1] \in GlobalPaths <=> c[2] = Everywhere
               /\ c[1] \in SettingPaths <=> c[3] = Self
    <2>1. PICK type, area, id : Placed(type, area, id) /\ c = <<PathOf[type], area, id>>
      BY DEF IInv, ConfigInv
    <2>2. type \in ResourceTypes /\ area \in Vdoms \cup {Everywhere} /\ id \in Ids \cup {Self}
      BY <2>1 DEF Placed
    <2>3. c \in Cells
      BY <1>1, <2>1, <2>2 DEF Cells
    <2>. QED
      BY <2>1, <2>3, Paths DEF Placed, IInv, ConfigInv
  <1>3. ConfigOK
    BY <1>2 DEF ConfigOK, IInv, ConfigInv
  <1>4. \A k \in Callers : /\ call[k].pc \in {"idle", "asked", "served", "done"}
                           /\ call[k].pc = "asked" => Asks(call[k])
    BY DEF IInv, CallInv, IdleCall, Asks, Sent, Served, Answered, Returned
  <1>5. \A s \in Slots : /\ late[s].pc \in {"idle", "asked"}
                         /\ late[s].pc = "asked" => Asks(late[s])
    BY DEF IInv, IdleCall, Asks, Sent
  <1>6. \A c : Asks(c) => RequestOK(c.http) /\ (c.data \in Data => c.http.data = c.data)
    BY Made, DeviceApiAssumption DEF Asks, Looks
  <1>7. \A c \in UnderWay : c.pc = "asked" =>
            RequestOK(c.http) /\ (c.data \in Data => c.http.data = c.data)
    BY <1>4, <1>5, <1>6 DEF UnderWay
  <1>. QED
    BY <1>3, <1>4, <1>5, <1>7 DEF TypeOK, IInv

(* Requests are well formed, and the device's state is as the code writes  *)
(* it.                                                                     *)
THEOREM TypeCorrect == Spec => []TypeOK
  BY Invariance, InvTypeOK, PTL

-----------------------------------------------------------------------------
(* The store a device's configuration stands for.                          *)

Mirrors(store) ==
    /\ store = [l \in DOMAIN store |-> store[l]]
    /\ \A l \in DOMAIN store : \E t, v, i : Placed(t, v, i) /\ l = <<t, v, i>>
    /\ \A t \in ResourceTypes : \A v, i :
          /\ <<t, v, i>> \in DOMAIN store <=> <<PathOf[t], v, i>> \in DOMAIN config
          /\ <<t, v, i>> \in DOMAIN store => store[<<t, v, i>>] = config[<<PathOf[t], v, i>>]

LEMMA StoreMirrors == ConfigInv => Mirrors(StoreOf)
  <1>. SUFFICES ASSUME ConfigInv PROVE Mirrors(StoreOf)
    OBVIOUS
  <1>. DEFINE locs == {<<t, c[2], c[3]>> : t \in ResourceTypes, c \in DOMAIN config}
              there == {m \in locs : <<PathOf[m[1]], m[2], m[3]>> \in DOMAIN config}
  <1>1. /\ StoreOf = [l \in there |-> config[<<PathOf[l[1]], l[2], l[3]>>]]
        /\ DOMAIN StoreOf = there
    BY DEF StoreOf
  <1>2. ASSUME NEW t \in ResourceTypes, NEW v, NEW i
        PROVE  <<t, v, i>> \in there <=> <<PathOf[t], v, i>> \in DOMAIN config
    <2>1. ASSUME <<PathOf[t], v, i>> \in DOMAIN config PROVE <<t, v, i>> \in locs
      <3>. DEFINE c == <<PathOf[t], v, i>>
      <3>1. <<t, v, i>> = <<t, c[2], c[3]>> /\ c \in DOMAIN config
        BY <2>1
      <3>. QED
        BY <3>1
    <2>. QED
      BY <2>1
  <1>3. ASSUME NEW l \in there
        PROVE  \E t, v, i : Placed(t, v, i) /\ l = <<t, v, i>>
    <2>1. PICK t \in ResourceTypes, c \in DOMAIN config : l = <<t, c[2], c[3]>>
      OBVIOUS
    <2>2. <<PathOf[t], c[2], c[3]>> \in DOMAIN config
      BY <2>1
    <2>3. PICK u, v, i : Placed(u, v, i) /\ <<PathOf[t], c[2], c[3]>> = <<PathOf[u], v, i>>
      BY <2>2 DEF ConfigInv
    <2>4. t = u /\ c[2] = v /\ c[3] = i
      BY <2>3, Paths DEF Placed
    <2>. QED
      BY <2>1, <2>3, <2>4
  <1>. HIDE DEF there
  <1>. QED
    BY <1>1, <1>2, <1>3 DEF Mirrors

LEMMA StoreMirrorsNext == (ConfigInv => Mirrors(StoreOf))'
  BY StoreMirrors, PTL

LEMMA StoreSize ==
    ASSUME ConfigInv
    PROVE  Cardinality(DOMAIN StoreOf) = Cardinality(DOMAIN config)
  <1>. DEFINE S == DOMAIN StoreOf
              T == DOMAIN config
              f == [c \in T |-> CHOOSE l \in S : c = <<PathOf[l[1]], l[2], l[3]>>]
  <1>1. ASSUME NEW c \in T
        PROVE  f[c] \in S /\ c = <<PathOf[f[c][1]], f[c][2], f[c][3]>>
    <2>1. PICK t, v, i : Placed(t, v, i) /\ c = <<PathOf[t], v, i>>
      BY DEF ConfigInv
    <2>2. <<t, v, i>> \in S /\ c = <<PathOf[<<t, v, i>>[1]], <<t, v, i>>[2], <<t, v, i>>[3]>>
      BY <2>1, StoreMirrors DEF Mirrors, Placed
    <2>3. \E l \in S : c = <<PathOf[l[1]], l[2], l[3]>>
      BY <2>2
    <2>. QED
      BY <2>3
  <1>2. ASSUME NEW l \in S
        PROVE  \E c \in T : f[c] = l
    <2>1. PICK t, v, i : Placed(t, v, i) /\ l = <<t, v, i>>
      BY StoreMirrors DEF Mirrors
    <2>. DEFINE c == <<PathOf[t], v, i>>
    <2>2. c \in T
      BY <2>1, StoreMirrors DEF Mirrors, Placed
    <2>3. PICK u, w, j : Placed(u, w, j) /\ f[c] = <<u, w, j>>
      BY <1>1, <2>2, StoreMirrors DEF Mirrors
    <2>4. PathOf[u] = PathOf[t] /\ w = v /\ j = i
      BY <1>1, <2>2, <2>3
    <2>5. f[c] = l
      BY <2>1, <2>3, <2>4, Paths DEF Placed
    <2>. QED
      BY <2>2, <2>5
  <1>3. \A a, b \in T : f[a] = f[b] => a = b
    BY <1>1
  <1>4. f \in [T -> S]
    BY <1>1
  <1>. HIDE DEF f, S, T
  <1>5. f \in Bijection(T, S)
    BY <1>2, <1>3, <1>4 DEF Bijection, Injection, Surjection, IsInjective
  <1>6. IsFiniteSet(T)
    BY DEF ConfigInv, T
  <1>7. Cardinality(S) = Cardinality(T)
    BY <1>5, <1>6, FS_Bijection DEF ExistsBijection
  <1>. QED
    BY <1>7 DEF S, T

LEMMA StoreFull == ASSUME ConfigInv PROVE Store!Full <=> Full
  <1>1. Store!Cardinality(DOMAIN StoreOf) = Cardinality(DOMAIN StoreOf)
    BY Zenon DEF Store!Cardinality, Cardinality
  <1>. QED
    BY <1>1, StoreSize DEF Store!Full, Full

LEMMA StoreHeld ==
    ASSUME ConfigInv, NEW t \in ResourceTypes, NEW v, NEW i, t \notin Singletons \/ i = Self
    PROVE  Store!Held(<<t, v, i>>) = Stored(PathOf[t], v, i)
  BY StoreMirrors, StoreNames, Paths DEF Mirrors, Store!Held, Stored

LEMMA StorePut ==
    ASSUME ConfigInv, ConfigInv', NEW t, NEW v, NEW i, Placed(t, v, i), NEW data,
           config' = Written(<<PathOf[t], v, i>>, data)
    PROVE  StoreOf' = Store!Put(<<t, v, i>>, data)
  <1>. DEFINE loc == <<t, v, i>>
              cell == <<PathOf[t], v, i>>
              put == Store!Put(loc, data)
  <1>1. Mirrors(StoreOf) /\ Mirrors(StoreOf)'
    BY StoreMirrors, StoreMirrorsNext
  <1>2. /\ put = [l \in DOMAIN StoreOf \cup {loc} |-> IF l = loc THEN data ELSE StoreOf[l]]
        /\ DOMAIN put = DOMAIN StoreOf \cup {loc}
    BY DEF Store!Put
  <1>3. /\ DOMAIN config' = DOMAIN config \cup {cell}
        /\ \A c \in DOMAIN config' : config'[c] = IF c = cell THEN data ELSE config[c]
    BY DEF Written
  <1>4. ASSUME NEW u, NEW w, NEW j, Placed(u, w, j)
        PROVE  /\ <<u, w, j>> \in DOMAIN StoreOf' <=> <<u, w, j>> \in DOMAIN put
               /\ <<u, w, j>> \in DOMAIN put => StoreOf'[<<u, w, j>>] = put[<<u, w, j>>]
    <2>1. <<u, w, j>> = loc <=> <<PathOf[u], w, j>> = cell
      BY <1>4, Paths DEF Placed
    <2>2. u \in ResourceTypes
      BY <1>4 DEF Placed
    <2>. DEFINE l == <<u, w, j>>
                c == <<PathOf[u], w, j>>
    <2>3. /\ l \in DOMAIN StoreOf <=> c \in DOMAIN config
          /\ l \in DOMAIN StoreOf => StoreOf[l] = config[c]
      BY <1>1, <2>2 DEF Mirrors
    <2>4. /\ l \in DOMAIN StoreOf' <=> c \in DOMAIN config'
          /\ l \in DOMAIN StoreOf' => StoreOf'[l] = config'[c]
      BY <1>1, <2>2 DEF Mirrors
    <2>. HIDE DEF l, c, put
    <2>. QED
      BY <1>2, <1>3, <2>1, <2>3, <2>4 DEF l, c
  <1>. HIDE DEF put
  <1>5. \A l : l \in DOMAIN StoreOf' \cup DOMAIN put => \E u, w, j : Placed(u, w, j) /\ l = <<u, w, j>>
    BY <1>1, <1>2 DEF Mirrors, Placed
  <1>6. /\ DOMAIN StoreOf' = DOMAIN put
        /\ \A l \in DOMAIN put : StoreOf'[l] = put[l]
    BY <1>4, <1>5
  <1>7. /\ StoreOf' = [l \in DOMAIN StoreOf' |-> StoreOf'[l]]
        /\ put = [l \in DOMAIN put |-> put[l]]
    BY <1>1, <1>2 DEF Mirrors
  <1>. QED
    BY <1>6, <1>7 DEF put

LEMMA StoreDrop ==
    ASSUME ConfigInv, ConfigInv', NEW t, NEW v, NEW i, Placed(t, v, i),
           config' = Without(<<PathOf[t], v, i>>)
    PROVE  StoreOf' = Store!Drop(<<t, v, i>>)
  <1>. DEFINE loc == <<t, v, i>>
              cell == <<PathOf[t], v, i>>
              drop == Store!Drop(loc)
  <1>1. Mirrors(StoreOf) /\ Mirrors(StoreOf)'
    BY StoreMirrors, StoreMirrorsNext
  <1>2. /\ drop = [l \in DOMAIN StoreOf \ {loc} |-> StoreOf[l]]
        /\ DOMAIN drop = DOMAIN StoreOf \ {loc}
    BY DEF Store!Drop
  <1>3. /\ DOMAIN config' = DOMAIN config \ {cell}
        /\ \A c \in DOMAIN config' : config'[c] = config[c]
    BY DEF Without
  <1>4. ASSUME NEW u, NEW w, NEW j, Placed(u, w, j)
        PROVE  /\ <<u, w, j>> \in DOMAIN StoreOf' <=> <<u, w, j>> \in DOMAIN drop
               /\ <<u, w, j>> \in DOMAIN drop => StoreOf'[<<u, w, j>>] = drop[<<u, w, j>>]
    <2>1. <<u, w, j>> = loc <=> <<PathOf[u], w, j>> = cell
      BY <1>4, Paths DEF Placed
    <2>2. u \in ResourceTypes
      BY <1>4 DEF Placed
    <2>. DEFINE l == <<u, w, j>>
                c == <<PathOf[u], w, j>>
    <2>3. /\ l \in DOMAIN StoreOf <=> c \in DOMAIN config
          /\ l \in DOMAIN StoreOf => StoreOf[l] = config[c]
      BY <1>1, <2>2 DEF Mirrors
    <2>4. /\ l \in DOMAIN StoreOf' <=> c \in DOMAIN config'
          /\ l \in DOMAIN StoreOf' => StoreOf'[l] = config'[c]
      BY <1>1, <2>2 DEF Mirrors
    <2>. HIDE DEF l, c, drop
    <2>. QED
      BY <1>2, <1>3, <2>1, <2>3, <2>4 DEF l, c
  <1>. HIDE DEF drop
  <1>5. \A l : l \in DOMAIN StoreOf' \cup DOMAIN drop => \E u, w, j : Placed(u, w, j) /\ l = <<u, w, j>>
    BY <1>1, <1>2 DEF Mirrors, Placed
  <1>6. /\ DOMAIN StoreOf' = DOMAIN drop
        /\ \A l \in DOMAIN drop : StoreOf'[l] = drop[l]
    BY <1>4, <1>5
  <1>7. /\ StoreOf' = [l \in DOMAIN StoreOf' |-> StoreOf'[l]]
        /\ drop = [l \in DOMAIN drop |-> drop[l]]
    BY <1>1, <1>2 DEF Mirrors
  <1>. QED
    BY <1>6, <1>7 DEF drop

LEMMA StoreSame == config' = config => StoreOf' = StoreOf
  BY DEF StoreOf

-----------------------------------------------------------------------------
(* Serving a request has an effect the store allows.                       *)

LEMMA Answers ==
    ASSUME NEW c, c.type # None
    PROVE  LET r == PendingOf(c)
               told(outcome) == ServedOf(Answered(c, outcome.reply))
           IN  /\ told(Absent) = Store!Served(r, "refused", {}, None)
               /\ told(Failed) = Store!Served(r, "refused", {}, None)
               /\ c.op \in {"list", "get"} =>
                    \A rows : told(Found(rows)) = Store!Served(r, "read", rows, None)
               /\ c.op \in {"create", "update", "delete"} =>
                    \A key, after : told(Done(key, after)) = Store!Served(r, "written", {}, key)
  BY DEF PendingOf, ServedOf, Answered, Absent, Failed, Found, Done, Outcome, Store!Served

(* The ids a created resource may get.                                     *)
LEMMA FreeIds ==
    ASSUME NEW c, Wants(c), c.op = "create", c.data # Empty
    PROVE  \A i \in Free(c.http) : i \in Ids
  <1>1. Wanted(c.op, c.type, c.id, c.vdom, c.data) /\ c.type \notin Singletons
    BY TypeOps DEF Wants, Wanted
  <1>2. c.http.path = PathOf[c.type] /\ c.http.name = c.id
    BY Made
  <1>3. c.http.path \in NumberedPaths \/ c.id # None
    <2>1. Endpoint[Forward[Methods[c.type].create]].path = PathOf[c.type]
      BY <1>1, AllWired DEF Wanted, Wired, Wire
    <2>. QED
      BY <1>1, <1>2, <2>1 DEF Wanted, Sensible
  <1>. QED
    BY <1>1, <1>2, <1>3 DEF Free, Wanted

LEMMA QueryEffect ==
    ASSUME NEW c, Asks(c), c.type = None, NEW outcome \in Outcomes(c.http),
           config' = outcome.after
    PROVE  \E effect \in Store!Effects(PendingOf(c)) :
               /\ StoreOf' = effect.after
               /\ effect.told = ServedOf(Answered(c, outcome.reply))
  <1>1. c.op \in {"query", "probe"} /\ Looks(c.http)
    BY Paths DEF Asks, Wants, Wanted
  <1>2. PICK rows : outcome = Found(rows)
    BY <1>1 DEF Looks, Outcomes
  <1>3. outcome.after = config /\ outcome.reply = [status |-> 200, rows |-> rows, mkey |-> None]
    BY <1>2 DEF Found, Outcome
  <1>4. StoreOf' = StoreOf
    BY <1>3, StoreSame
  <1>. DEFINE r == PendingOf(c)
  <1>5. Store!Effects(r) = {Store!Read(r, {})}
    BY <1>1 DEF PendingOf, Store!Effects
  <1>6. ServedOf(Answered(c, outcome.reply)) = Store!Served(r, "read", {}, None)
    BY <1>1, <1>3 DEF ServedOf, Answered, PendingOf, Store!Served
  <1>7. Store!Read(r, {}).after = StoreOf /\ Store!Read(r, {}).told = Store!Served(r, "read", {}, None)
    BY DEF Store!Read, Store!Outcome
  <1>. QED
    BY <1>4, <1>5, <1>6, <1>7

LEMMA WantedEffect ==
    ASSUME ConfigInv, ConfigInv', NEW c, Wants(c), NEW outcome \in Outcomes(c.http),
           config' = outcome.after
    PROVE  \E effect \in Store!Effects(PendingOf(c)) :
               /\ StoreOf' = effect.after
               /\ effect.told = ServedOf(Answered(c, outcome.reply))
  <1>. DEFINE r == PendingOf(c)
              http == c.http
              key == Key(http)
              cell == Cell(http, key)
              loc == Store!Loc(r)
              scope == Scope(c.type, c.vdom)
              told == ServedOf(Answered(c, outcome.reply))
              Allowed == \E effect \in Store!Effects(r) :
                            StoreOf' = effect.after /\ effect.told = told
  <1>. SUFFICES Allowed
    OBVIOUS
  <1>1. /\ Wanted(c.op, c.type, c.id, c.vdom, c.data)
        /\ c.type \in ResourceTypes /\ c.type # None
        /\ c.op \in {"list", "get", "create", "update", "delete"}
        /\ c.type \in Singletons => c.op \in {"get", "update"}
    BY TypeOps, Paths DEF Wants, Wanted
  <1>2. /\ r.op = c.op /\ r.type = c.type /\ r.id = c.id /\ r.data = c.data
        /\ r.scope = scope
    BY <1>1 DEF PendingOf, Scope
  <1>3. /\ http.path = PathOf[c.type] /\ Area(http) = scope
        /\ http.data = Body(c.data) /\ (c.data \in Data => http.data = c.data)
        /\ http.keyed <=> c.type \notin Singletons /\ c.op \in {"get", "update", "delete"}
        /\ key = IF http.keyed THEN c.id ELSE Self
    BY Made
  <1>4. \A i : /\ Store!At(r, i) = <<c.type, scope, i>>
               /\ Cell(http, i) = <<PathOf[c.type], scope, i>>
               /\ At(http, i) = Stored(PathOf[c.type], scope, i)
    BY <1>2, <1>3 DEF Store!At, Cell, At
  <1>5. \A i : c.type \notin Singletons \/ i = Self => Store!Held(Store!At(r, i)) = At(http, i)
    BY <1>1, <1>4, StoreHeld
  <1>6. c.op \in {"get", "update", "delete"} =>
            /\ loc = Store!At(r, key) /\ loc[3] = key
            /\ Placed(c.type, scope, key)
            /\ Store!Held(loc) = At(http, key)
    <2>1. ASSUME c.op \in {"get", "update", "delete"}
          PROVE  loc = Store!At(r, key) /\ Placed(c.type, scope, key)
      <3>1. c.type \notin Singletons => c.id \in Ids
        BY <1>1, <2>1 DEF Wanted, Sensible
      <3>2. Placed(c.type, scope, key)
        BY <1>1, <1>3, <2>1, <3>1, ScopePlaced DEF Wanted
      <3>. QED
        BY <1>2, <1>3, <2>1, <3>2, StoreNames DEF Store!Loc
    <2>. QED
      BY <1>3, <1>4, <1>5, <2>1
  <1>. HIDE DEF r, http, key, cell, loc, scope, told
  <1>body. c.op \in {"create", "update"} =>
            /\ http.data = None <=> r.data = Empty
            /\ r.data # Empty => http.data = r.data
    BY <1>1, <1>2, <1>3, DeviceApiAssumption DEF Wanted, Sensible, Body
  <1>7. ASSUME outcome \in {Absent, Failed}, Store!Refused(r) \in Store!Effects(r)
        PROVE  Allowed
    <2>1. outcome.after = config
      BY <1>7 DEF Absent, Failed, Outcome
    <2>2. told = Store!Served(r, "refused", {}, None)
      BY <1>1, <1>7, Answers DEF told, r
    <2>3. StoreOf' = Store!Refused(r).after /\ Store!Refused(r).told = told
      BY <2>1, <2>2, StoreSame DEF Store!Refused, Store!Outcome
    <2>. QED
      BY <1>7, <2>3
  <1>8. ASSUME NEW rows, outcome = Found(rows), Store!Read(r, rows) \in Store!Effects(r),
               c.op \in {"list", "get"}
        PROVE  Allowed
    <2>1. outcome.after = config
      BY <1>8 DEF Found, Outcome
    <2>2. told = Store!Served(r, "read", rows, None)
      BY <1>1, <1>8, Answers DEF told, r
    <2>3. StoreOf' = Store!Read(r, rows).after /\ Store!Read(r, rows).told = told
      BY <2>1, <2>2, StoreSame DEF Store!Read, Store!Outcome
    <2>. QED
      BY <1>8, <2>3
  <1>9. ASSUME NEW i, NEW after, NEW store, outcome = Done(i, after), StoreOf' = store,
               Store!Written(r, i, store) \in Store!Effects(r),
               c.op \in {"create", "update", "delete"}
        PROVE  Allowed
    <2>1. told = Store!Served(r, "written", {}, i)
      BY <1>1, <1>9, Answers DEF told, r
    <2>2. StoreOf' = Store!Written(r, i, store).after /\ Store!Written(r, i, store).told = told
      BY <1>9, <2>1 DEF Store!Written, Store!Outcome
    <2>. QED
      BY <1>9, <2>2
  <1>. HIDE DEF Allowed
  <1>10. CASE c.op = "list"
    <2>. DEFINE rows == Rows(http, Ids \cup {Self})
    <2>1. c.type \notin Singletons
      BY <1>1, <1>10
    <2>2. http.verb = "GET" /\ ~http.keyed /\ http.path \notin ReadPaths
      BY <1>1, <1>3, <1>10, Made, Paths DEF http
    <2>3. outcome = Found(rows)
      BY <2>2 DEF Outcomes, http
    <2>4. Store!Effects(r) =
              {Store!Read(r, {<<i, Store!Held(Store!At(r, i))>> : i \in Store!Present(r.type, r.scope)})}
      BY <1>2, <1>10 DEF Store!Effects
    <2>5. Store!Present(r.type, r.scope) = {i \in Ids \cup {Self} : At(http, i) # None}
      BY <1>2, <1>4, <1>5, <2>1 DEF Store!Present
    <2>6. {<<i, Store!Held(Store!At(r, i))>> : i \in Store!Present(r.type, r.scope)} = rows
      BY <1>5, <2>1, <2>5 DEF Rows
    <2>. QED
      BY <1>8, <1>10, <2>3, <2>4, <2>6
  <1>11. CASE c.op = "get"
    <2>1. http.verb = "GET" /\ http.path \notin ReadPaths
      BY <1>1, <1>3, <1>11, Made, Paths DEF http
    <2>2. Store!Effects(r) = {IF At(http, key) = None THEN Store!Refused(r)
                              ELSE Store!Read(r, {<<key, At(http, key)>>})}
      BY <1>2, <1>6, <1>11 DEF Store!Effects, loc
    <2>3. CASE http.keyed
      <3>1. outcome = IF At(http, key) = None THEN Absent ELSE Found(Rows(http, {key}))
        BY <2>1, <2>3 DEF Outcomes, http, key
      <3>2. At(http, key) # None => Rows(http, {key}) = {<<key, At(http, key)>>}
        BY DEF Rows
      <3>. QED
        BY <1>7, <1>8, <1>11, <2>2, <3>1, <3>2
    <2>4. CASE ~http.keyed
      <3>1. c.type \in Singletons /\ key = Self
        BY <1>3, <1>11, <2>4
      <3>2. At(http, Self) # None
        BY <1>1, <1>3, <1>4, <3>1, Paths, DeviceApiAssumption DEF At, Stored, ConfigInv
      <3>3. \A i \in Ids : At(http, i) = None
        <4>1. ASSUME NEW i \in Ids PROVE <<PathOf[c.type], scope, i>> \notin DOMAIN config
          BY <1>1, <3>1, <4>1, Paths, DeviceApiAssumption DEF ConfigInv, Placed
        <4>. QED
          BY <1>4, <4>1, DeviceApiAssumption DEF Stored
      <3>4. Rows(http, Ids \cup {Self}) = {<<key, At(http, key)>>}
        BY <3>1, <3>2, <3>3 DEF Rows
      <3>5. outcome = Found(Rows(http, Ids \cup {Self}))
        BY <2>1, <2>4 DEF Outcomes, http
      <3>. QED
        BY <1>8, <1>11, <2>2, <3>1, <3>2, <3>4, <3>5
    <2>. QED
      BY <2>3, <2>4
  <1>12. CASE c.op = "create"
    <2>1. http.verb = "POST" /\ http.name = c.id /\ c.type \notin Singletons
      BY <1>1, <1>12, Made DEF http
    <2>2. Outcomes(http) = IF http.data = None \/ Full \/ Free(http) = {} THEN {Failed}
                           ELSE {Done(i, Written(Cell(http, i), http.data)) : i \in Free(http)}
      BY <2>1 DEF Outcomes
    <2>3. Store!Free(r) = Free(http)
      BY <1>1, <1>2, <1>3, <1>5, <2>1, Paths DEF Store!Free, Free
    <2>4. Store!Effects(r) =
              IF r.data = Empty \/ Full \/ Free(http) = {} THEN {Store!Refused(r)}
              ELSE {Store!Written(r, i, Store!Put(Store!At(r, i), r.data)) : i \in Free(http)}
      BY <1>2, <1>12, <2>3, StoreFull DEF Store!Effects
    <2>5. CASE r.data = Empty \/ Full \/ Free(http) = {}
      BY <1>7, <1>12, <1>body, <2>2, <2>4, <2>5 DEF http
    <2>6. CASE ~(r.data = Empty \/ Full \/ Free(http) = {})
      <3>0. http.data = r.data /\ r.data # Empty /\ http.data # None
        BY <1>12, <1>body, <2>6
      <3>1. PICK i \in Free(http) : outcome = Done(i, Written(Cell(http, i), http.data))
        BY <2>2, <2>6, <3>0 DEF http
      <3>2. Placed(c.type, scope, i)
        BY <1>1, <1>2, <1>12, <2>1, <3>0, FreeIds, ScopePlaced DEF http, scope, Wanted
      <3>3. config' = Written(<<PathOf[c.type], scope, i>>, c.data)
        BY <1>2, <1>4, <3>0, <3>1 DEF Done, Outcome
      <3>4. StoreOf' = Store!Put(Store!At(r, i), r.data)
        BY <1>2, <1>4, <3>2, <3>3, StorePut
      <3>. QED
        BY <1>9, <1>12, <2>4, <2>6, <3>1, <3>4
    <2>. QED
      BY <2>5, <2>6
  <1>13. CASE c.op = "update"
    <2>1. http.verb = "PUT"
      BY <1>13, Made DEF http
    <2>2. outcome \in IF At(http, key) = None THEN {Absent}
                      ELSE IF http.data = None THEN {Failed, Done(key, config)}
                      ELSE IF Full /\ cell \notin DOMAIN config THEN {Failed}
                      ELSE {Done(key, Written(cell, http.data))}
      BY <2>1 DEF Outcomes, http, key, cell
    <2>3. cell = <<PathOf[c.type], scope, key>> /\ loc = <<c.type, scope, key>>
      BY <1>4, <1>6, <1>13 DEF cell
    <2>4. cell \in DOMAIN config <=> loc \in DOMAIN StoreOf
      BY <1>1, <2>3, StoreMirrors DEF Mirrors
    <2>5. Store!Effects(r) =
              IF At(http, key) = None THEN {Store!Refused(r)}
              ELSE IF r.data = Empty THEN {Store!Refused(r), Store!Written(r, key, StoreOf)}
              ELSE IF Full /\ cell \notin DOMAIN config THEN {Store!Refused(r)}
              ELSE {Store!Written(r, key, Store!Put(loc, r.data))}
      BY <1>2, <1>6, <1>13, <2>4, StoreFull DEF Store!Effects, loc
    <2>6. CASE \/ At(http, key) = None
               \/ r.data = Empty /\ outcome = Failed
               \/ r.data # Empty /\ Full /\ cell \notin DOMAIN config
      BY <1>7, <1>13, <1>body, <2>2, <2>5, <2>6
    <2>empty. CASE At(http, key) # None /\ r.data = Empty /\ outcome = Done(key, config)
      <3>1. StoreOf' = StoreOf
        BY <2>empty, StoreSame DEF Done, Outcome
      <3>. QED
        BY <1>9, <1>13, <2>5, <2>empty, <3>1
    <2>7. CASE /\ At(http, key) # None /\ r.data # Empty
               /\ ~(Full /\ cell \notin DOMAIN config)
      <3>1. config' = Written(cell, c.data) /\ outcome = Done(key, Written(cell, http.data))
        BY <1>2, <1>13, <1>body, <2>2, <2>7 DEF Done, Outcome
      <3>2. StoreOf' = Store!Put(loc, r.data)
        BY <1>2, <1>6, <1>13, <2>3, <3>1, StorePut
      <3>. QED
        BY <1>9, <1>13, <2>5, <2>7, <3>1, <3>2
    <2>. QED
      BY <1>13, <1>body, <2>2, <2>6, <2>7, <2>empty
  <1>14. CASE c.op = "delete"
    <2>1. http.verb = "DELETE"
      BY <1>14, Made DEF http
    <2>2. outcome = IF At(http, key) = None THEN Absent ELSE Done(key, Without(cell))
      BY <2>1 DEF Outcomes, http, key, cell
    <2>3. cell = <<PathOf[c.type], scope, key>> /\ loc = <<c.type, scope, key>>
      BY <1>4, <1>6, <1>14 DEF cell
    <2>4. Store!Effects(r) = {IF At(http, key) = None THEN Store!Refused(r)
                              ELSE Store!Written(r, key, Store!Drop(loc))}
      BY <1>2, <1>6, <1>14 DEF Store!Effects, loc
    <2>5. CASE At(http, key) = None
      BY <1>7, <2>2, <2>4, <2>5
    <2>6. CASE At(http, key) # None
      <3>1. config' = Without(cell) /\ outcome = Done(key, Without(cell))
        BY <2>2, <2>6 DEF Done, Outcome
      <3>2. StoreOf' = Store!Drop(loc)
        BY <1>6, <1>14, <2>3, <3>1, StoreDrop
      <3>. QED
        BY <1>9, <1>14, <2>4, <2>6, <3>1, <3>2
    <2>. QED
      BY <2>5, <2>6
  <1>. QED
    BY <1>1, <1>10, <1>11, <1>12, <1>13, <1>14

-----------------------------------------------------------------------------
(* Every step is one of the store's, or none.                              *)

LEMMA InitRefines == Init => Store!Init
  <1>. SUFFICES ASSUME Init PROVE Store!Init
    OBVIOUS
  <1>1. StoreOf = << >>
    <2>1. DOMAIN config = {}
      BY DEF Init
    <2>2. StoreOf = [l \in {} |-> config[<<PathOf[l[1]], l[2], l[3]>>]]
      BY <2>1 DEF StoreOf
    <2>. QED
      BY <2>2
  <1>2. AskedNow = [k \in Callers |-> Store!Idle]
    BY DEF AskedNow, AskedOf, Init, IdleCall, Store!Idle
  <1>3. LateNow = [s \in Slots |-> Store!Idle]
    BY DEF LateNow, AskedOf, Init, IdleCall, Store!Idle
  <1>. QED
    BY <1>1, <1>2, <1>3 DEF Store!Init

LEMMA AskedStep ==
    ASSUME IInv, NEW k \in Callers, NEW c, call' = [call EXCEPT ![k] = c]
    PROVE  /\ AskedNow' = [AskedNow EXCEPT ![k] = AskedOf(c)]
           /\ AskedNow'[k] = AskedOf(c)
           /\ \A j \in Callers \ {k} : AskedNow'[j] = AskedNow[j]
  BY DEF AskedNow, IInv

LEMMA LateStep ==
    ASSUME IInv, NEW s \in Slots, NEW c, late' = [late EXCEPT ![s] = c]
    PROVE  LateNow' = [LateNow EXCEPT ![s] = AskedOf(c)]
  BY DEF LateNow, IInv

LEMMA LateSame == late' = late => LateNow' = LateNow
  BY DEF LateNow

LEMMA DispatchRefines ==
    ASSUME IInv, NEW k \in Callers, Dispatched(k)
    PROVE  Store!Request(k)
  <1>1. PICK type \in ResourceTypes, op \in {"list", "get", "create", "update", "delete"},
             id \in Ids \cup {None}, data \in Data \cup {Empty, None},
             vdom \in Named \cup {None} :
             Sensible(op, type, id, data) /\ Dispatch(k, op, type, id, vdom, data)
    BY DEF Dispatched
  <1>2. AskedNow[k] = Store!Idle
    BY DEF Dispatched, AskedNow, AskedOf, IdleCall, Store!Idle
  <1>3. StoreOf' = StoreOf /\ LateNow' = LateNow
    BY <1>1, StoreSame, LateSame DEF Dispatch
  <1>4. op \in Store!Operations /\ type \in Store!ResourceTypes /\ vdom \in Vdoms \cup {None}
    BY <1>1, StoreNames DEF Store!Operations, Named
  <1>. DEFINE r == AskedNow'[k]
              ops == Methods[type]
              gone == op = "get" /\ type \notin Singletons /\ id = None
  <1>5. SUFFICES \/ Store!Asked(r)
                 \/ Store!Settled(r)
    <2>1. \A j \in Callers \ {k} : AskedNow'[j] = AskedNow[j]
      BY <1>1, AskedStep DEF Dispatch
    <2>. QED
      BY <1>2, <1>3, <2>1 DEF Store!Request
  <1>6. op \in DOMAIN ops <=> op \in ResourceOps[type]
    BY AllWired
  <1>7. \A i : Store!Offered(op, type, i) <=>
            /\ op \in ResourceOps[type]
            /\ op = "get" => type \in Singletons \/ i # None
    BY StoreNames DEF Store!Offered, Store!Fetches, Store!Supports
  <1>8. CASE op \notin DOMAIN ops \/ gone
    <2>1. call' = [call EXCEPT ![k] = Returned(op, type, op = "get", None)]
      BY <1>1, <1>8 DEF Dispatch
    <2>2. r = Returned(op, type, op = "get", None)
      <3>1. r = AskedOf(Returned(op, type, op = "get", None))
        BY <2>1, AskedStep, Zenon
      <3>. QED
        BY <3>1 DEF AskedOf, Returned
    <2>3. /\ r.pc = "done" /\ r.op = op /\ r.type = type
          /\ r = Store!Told(r, r.op = "get", None)
      BY <2>2 DEF Returned, Store!Told
    <2>4. ~Store!Offered(op, type, id)
      BY <1>6, <1>7, <1>8
    <2>. QED
      BY <1>4, <2>3, <2>4 DEF Store!Settled
  <1>9. CASE op \in DOMAIN ops /\ ~gone
    <2>. DEFINE c == Sent(op, type, id, vdom, data, MakeRequest(ops[op], id, vdom, data))
    <2>1. call' = [call EXCEPT ![k] = c]
      BY <1>1, <1>9, AllWired DEF Dispatch, Wired
    <2>2. r = PendingOf(c)
      <3>1. r = AskedOf(c)
        BY <2>1, AskedStep
      <3>. QED
        BY <3>1 DEF AskedOf, Sent
    <2>3. /\ r.pc = "asked" /\ r.op = op /\ r.type = type /\ r.id = id /\ r.data = data
          /\ r.scope = Scope(type, vdom)
      BY <2>2, Paths DEF PendingOf, Sent, Scope
    <2>4. Scope(type, vdom) \in Store!Scopes(type)
      BY <1>4, Paths, DeviceApiAssumption DEF Scope, Store!Scopes
    <2>5. Store!Offered(op, type, id)
      BY <1>6, <1>7, <1>9
    <2>6. Store!Named(op, type, id, data)
      <3>1. ASSUME op = "create"
            PROVE  (id = None) = (type \in Store!Numbered \/ data = Empty)
        <4>1. type \notin Singletons
          BY <1>6, <1>9, <3>1, TypeOps
        <4>2. Endpoint[Forward[Methods[type].create]].path = PathOf[type]
          BY <1>9, <3>1, AllWired DEF Wired, Wire
        <4>. QED
          BY <1>1, <3>1, <4>1, <4>2, Paths DEF Sensible
      <3>. QED
        BY <3>1 DEF Store!Named
    <2>. QED
      BY <1>4, <2>3, <2>4, <2>5, <2>6 DEF Store!Asked
  <1>. QED
    BY <1>8, <1>9

LEMMA QueryRefines ==
    ASSUME IInv, NEW k \in Callers, Query(k) \/ Probe(k)
    PROVE  Store!Request(k)
  <1>1. PICK c : /\ call' = [call EXCEPT ![k] = c]
                 /\ c.pc = "asked" /\ c.op \in {"query", "probe"} /\ c.type = None
    <2>2. \E op \in {"query", "probe"} : \E http :
              call' = [call EXCEPT ![k] = Sent(op, None, None, None, None, http)]
      BY DEF Query, Probe
    <2>3. PICK op \in {"query", "probe"} : \E http :
              call' = [call EXCEPT ![k] = Sent(op, None, None, None, None, http)]
      BY <2>2
    <2>4. PICK http : call' = [call EXCEPT ![k] = Sent(op, None, None, None, None, http)]
      BY <2>3
    <2>. DEFINE c == Sent(op, None, None, None, None, http)
    <2>5. call' = [call EXCEPT ![k] = c] /\ c.pc = "asked" /\ c.op = op /\ c.type = None
      BY <2>4 DEF Sent
    <2>. HIDE DEF c
    <2>. QED
      BY <2>5
  <1>2. call[k] = IdleCall /\ config' = config /\ late' = late
    BY DEF Query, Probe
  <1>3. AskedNow[k] = Store!Idle
    BY <1>2 DEF AskedNow, AskedOf, IdleCall, Store!Idle
  <1>4. AskedNow'[k] = PendingOf(c) /\ \A j \in Callers \ {k} : AskedNow'[j] = AskedNow[j]
    BY <1>1, AskedStep DEF AskedOf
  <1>5. Store!Asked(AskedNow'[k])
    BY <1>1, <1>4 DEF PendingOf, Store!Asked
  <1>. QED
    BY <1>2, <1>3, <1>4, <1>5, StoreSame, LateSame DEF Store!Request

LEMMA ServeRefines ==
    ASSUME IInv, IInv', NEW k \in Callers, Serve(k)
    PROVE  Store!Effect(k)
  <1>. DEFINE c == call[k]
  <1>1. PICK outcome \in Outcomes(c.http) :
            /\ config' = outcome.after
            /\ call' = [call EXCEPT ![k] = Answered(c, outcome.reply)]
            /\ UNCHANGED late
    BY DEF Serve
  <1>2. Asks(c)
    BY DEF Serve, IInv, CallInv, IdleCall, Served, Answered, Returned
  <1>3. PICK effect \in Store!Effects(PendingOf(c)) :
            /\ StoreOf' = effect.after
            /\ effect.told = ServedOf(Answered(c, outcome.reply))
    BY <1>1, <1>2, QueryEffect, WantedEffect DEF Asks, IInv
  <1>4. AskedNow[k] = PendingOf(c) /\ PendingOf(c).pc = "asked"
    BY DEF Serve, AskedNow, AskedOf, PendingOf
  <1>5. AskedNow' = [AskedNow EXCEPT ![k] = effect.told]
    <2>1. AskedOf(Answered(c, outcome.reply)) = effect.told
      BY <1>3 DEF AskedOf, Answered
    <2>. QED
      BY <1>1, <2>1, AskedStep
  <1>. QED
    BY <1>1, <1>3, <1>4, <1>5, LateSame DEF Store!Effect

LEMMA ServeLateRefines ==
    ASSUME IInv, IInv', NEW s \in Slots, ServeLate(s)
    PROVE  Store!LateEffect(s)
  <1>. DEFINE c == late[s]
  <1>1. PICK outcome \in Outcomes(c.http) : config' = outcome.after
    BY DEF ServeLate
  <1>2. c.pc = "asked" /\ Asks(c)
    BY DEF ServeLate, IInv, IdleCall
  <1>3. \E effect \in Store!Effects(PendingOf(c)) : StoreOf' = effect.after
    BY <1>1, <1>2, QueryEffect, WantedEffect DEF Asks, IInv
  <1>4. LateNow[s] = PendingOf(c) /\ PendingOf(c).pc = "asked"
    BY <1>2 DEF LateNow, AskedOf, PendingOf
  <1>5. LateNow' = [LateNow EXCEPT ![s] = Store!Idle]
    <2>1. AskedOf(IdleCall) = Store!Idle
      BY DEF AskedOf, IdleCall, Store!Idle
    <2>. QED
      BY <2>1, LateStep DEF ServeLate
  <1>6. AskedNow' = AskedNow
    BY DEF AskedNow, ServeLate
  <1>. QED
    BY <1>3, <1>4, <1>5, <1>6 DEF Store!LateEffect

LEMMA ReceiveRefines ==
    ASSUME IInv, NEW k \in Callers, Receive(k)
    PROVE  Store!Tell(k)
  <1>. DEFINE c == call[k]
              r == AskedNow[k]
              told(ok, value) == AskedNow' = [AskedNow EXCEPT ![k] = Store!Told(r, ok, value)]
  <1>1. /\ c.pc = "served" /\ Served(c)
        /\ c.reply.status \in {200, 404, 500}
        /\ c.type = None => c.op \in {"query", "probe"}
    BY DEF Receive, IInv, CallInv, IdleCall, Asks, Sent, Served, Returned
  <1>2. /\ r.pc = "served" /\ r.op = c.op /\ r.type = c.type
        /\ r.rows = (IF c.type = None THEN {} ELSE c.reply.rows) /\ r.id = c.reply.mkey
        /\ r.did = "refused" <=> c.reply.status >= 400
    BY <1>1 DEF AskedNow, AskedOf, ServedOf
  <1>3. StoreOf' = StoreOf /\ LateNow' = LateNow
    BY StoreSame, LateSame DEF Receive
  <1>4. ASSUME NEW ok, NEW value, call' = [call EXCEPT ![k] = Returned(c.op, c.type, ok, value)]
        PROVE  told(ok, value)
    <2>1. AskedOf(Returned(c.op, c.type, ok, value)) = Store!Told(r, ok, value)
      BY <1>2 DEF AskedOf, Returned, Store!Told
    <2>. QED
      BY <1>4, <2>1, AskedStep, Zenon
  <1>5. CASE c.reply.status >= 400
    <2>1. told(c.op = "get", None)
      BY <1>4, <1>5 DEF Receive
    <2>. QED
      BY <1>2, <1>3, <1>5, <2>1 DEF Store!Tell
  <1>6. CASE ~(c.reply.status >= 400)
    <2>1. PICK value \in Values(c) : call' = [call EXCEPT ![k] = Returned(c.op, c.type, TRUE, value)]
      BY <1>6 DEF Receive
    <2>2. told(TRUE, value)
      BY <1>4, <2>1
    <2>3. ASSUME c.op = "list" PROVE value \in {r.rows, {}}
      BY <1>1, <1>2, <2>1, <2>3 DEF Values
    <2>4. ASSUME c.op = "get" PROVE value \in {row[2] : row \in r.rows} \cup {Blank}
      <3>1. c.reply.rows # {} /\ r.rows = c.reply.rows
        BY <1>1, <1>2, <1>6, <2>4 DEF Served
      <3>. QED
        BY <2>1, <2>4, <3>1 DEF Values
    <2>5. ASSUME c.op = "create" PROVE value \in {r.id, None}
      BY <1>2, <2>1, <2>5 DEF Values, CreatedId
    <2>6. ASSUME c.op \notin {"list", "get", "create"} PROVE value = None
      BY <2>1, <2>6 DEF Values, CreatedId
    <2>. QED
      BY <1>2, <1>3, <1>6, <2>2, <2>3, <2>4, <2>5, <2>6 DEF Store!Tell
  <1>. QED
    BY <1>5, <1>6

LEMMA ErrorRefines ==
    ASSUME IInv, NEW k \in Callers, NetworkError(k)
    PROVE  Store!GiveUp(k)
  <1>. DEFINE c == call[k]
              r == AskedNow[k]
  <1>1. /\ r.pc = c.pc /\ r.op = c.op /\ r.type = c.type
        /\ c.pc = "asked" => r = PendingOf(c)
    BY DEF NetworkError, AskedNow, AskedOf, PendingOf, ServedOf
  <1>2. AskedNow' = [AskedNow EXCEPT ![k] = Store!Told(r, r.op = "get", None)]
    <2>1. AskedOf(Returned(c.op, c.type, c.op = "get", None)) = Store!Told(r, r.op = "get", None)
      BY <1>1 DEF AskedOf, Returned, Store!Told
    <2>2. call' = [call EXCEPT ![k] = Returned(c.op, c.type, c.op = "get", None)]
      BY DEF NetworkError
    <2>. QED
      BY <2>1, <2>2, AskedStep, Zenon
  <1>3. \/ LateNow' = LateNow
        \/ /\ r.pc = "asked"
           /\ \E s \in Slots : LateNow[s] = Store!Idle /\ LateNow' = [LateNow EXCEPT ![s] = r]
    <2>1. CASE late' = late
      BY <2>1, LateSame
    <2>2. ASSUME c.pc = "asked", NEW s \in Slots, late[s] = IdleCall,
                 late' = [late EXCEPT ![s] = c]
          PROVE  LateNow[s] = Store!Idle /\ LateNow' = [LateNow EXCEPT ![s] = r]
      <3>1. LateNow[s] = Store!Idle
        BY <2>2 DEF LateNow, AskedOf, IdleCall, Store!Idle
      <3>2. AskedOf(c) = r
        BY DEF AskedNow
      <3>. QED
        BY <2>2, <3>1, <3>2, LateStep
    <2>. QED
      BY <1>1, <2>1, <2>2 DEF NetworkError
  <1>4. r.pc \in {"asked", "served"} /\ StoreOf' = StoreOf
    BY <1>1, StoreSame DEF NetworkError
  <1>. QED
    BY <1>2, <1>3, <1>4 DEF Store!GiveUp

LEMMA ReturnRefines ==
    ASSUME IInv, NEW k \in Callers, Return(k)
    PROVE  Store!Return(k)
  <1>1. AskedNow[k].pc = "done"
    BY DEF Return, AskedNow, AskedOf
  <1>2. AskedNow' = [AskedNow EXCEPT ![k] = Store!Idle]
    <2>1. AskedOf(IdleCall) = Store!Idle
      BY DEF AskedOf, IdleCall, Store!Idle
    <2>. QED
      BY <2>1, AskedStep DEF Return
  <1>. QED
    BY <1>1, <1>2, StoreSame, LateSame DEF Return, Store!Return

LEMMA StepRefines == IInv /\ IInv' /\ [Next]_vars => [Store!Next]_(Store!vars)
  <1>. SUFFICES ASSUME IInv, IInv', [Next]_vars PROVE [Store!Next]_(Store!vars)
    OBVIOUS
  <1>1. ASSUME NEW s \in Slots, ServeLate(s)
        PROVE  Store!Next
    BY <1>1, ServeLateRefines DEF Store!Next
  <1>2. ASSUME NEW k \in Callers,
               \/ Dispatched(k) \/ Query(k) \/ Probe(k)
               \/ Serve(k) \/ Receive(k) \/ NetworkError(k) \/ Return(k)
        PROVE  Store!Next
    BY <1>2, DispatchRefines, QueryRefines, ServeRefines, ReceiveRefines, ErrorRefines,
       ReturnRefines DEF Store!Next
  <1>3. CASE UNCHANGED vars
    BY <1>3, StoreSame, LateSame DEF vars, AskedNow, Store!vars
  <1>. QED
    BY <1>1, <1>2, <1>3 DEF Next

(* Whatever goes on between dispatch table, adapter, client and device is  *)
(* what a store of resources does: each operation takes effect at most     *)
(* once, on the resource of its type, VDOM and id, and success is reported *)
(* only of what was done.                                                  *)
THEOREM DeviceIsAStore == Spec => ImplementsStore
  BY InitRefines, StepRefines, Invariance, PTL DEF Spec, ImplementsStore, Store!Spec

=============================================================================
