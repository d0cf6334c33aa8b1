---------------------------- MODULE DeviceClient ----------------------------
(***************************************************************************)
(* FortiGateAPI of core/fortigate.py: the HTTP request each of its methods *)
(* builds.  A request is its verb, the path of the table or setting below  *)
(* /api/v2/cmdb (or /api/v2, for monitor), whether it ends in a key,       *)
(* whether there is a body, and whether the caller's vdom is passed on.    *)
(***************************************************************************)

Request(verb, path, keyed, body) ==
    [verb |-> verb, path |-> path, keyed |-> keyed, body |-> body, scoped |-> TRUE]

Get(path)     == Request("GET", path, FALSE, FALSE)
GetItem(path) == Request("GET", path, TRUE, FALSE)
Post(path)    == Request("POST", path, FALSE, TRUE)
Put(path)     == Request("PUT", path, FALSE, TRUE)
(* Broken: data is not handed on. *)
PutItemBare(path) == Request("PUT", path, TRUE, FALSE)
PutItem(path) == Request("PUT", path, TRUE, TRUE)
Delete(path)  == Request("DELETE", path, TRUE, FALSE)

(* The method takes no vdom: the device's default one goes in the query. *)
Unscoped(request) == [request EXCEPT !.scoped = FALSE]

SystemEndpoints ==
    [get_system_status    |-> Get("monitor/system/status"),
     get_system_interface |-> Get("monitor/system/interface"),
     get_vdoms            |-> Unscoped(Get("system/vdom")),
     create_vdom          |-> Unscoped(Post("system/vdom")),
     delete_vdom          |-> Unscoped(Delete("system/vdom")),
     get_vdom_links       |-> Unscoped(Get("system/vdom-link")),
     get_vdom_link_detail |-> Unscoped(GetItem("system/vdom-link")),
     create_vdom_link     |-> Unscoped(Post("system/vdom-link")),
     delete_vdom_link     |-> Unscoped(Delete("system/vdom-link")),
     get_interfaces       |-> Get("system/interface"),
     get_interface_status |-> GetItem("monitor/system/interface"),
     get_interface_detail |-> GetItem("system/interface"),
     create_interface     |-> Post("system/interface"),
     update_interface     |-> PutItem("system/interface"),
     delete_interface     |-> Delete("system/interface"),
     get_zones            |-> Get("system/zone"),
     get_zone_detail      |-> GetItem("system/zone"),
     create_zone          |-> Post("system/zone"),
     update_zone          |-> PutItem("system/zone"),
     delete_zone          |-> Delete("system/zone"),
     get_dhcp_servers       |-> Get("system.dhcp/server"),
     get_dhcp_server_detail |-> GetItem("system.dhcp/server"),
     create_dhcp_server     |-> Post("system.dhcp/server"),
     update_dhcp_server     |-> PutItem("system.dhcp/server"),
     delete_dhcp_server     |-> Delete("system.dhcp/server")]

TrafficEndpoints ==
    [get_firewall_policies      |-> Get("firewall/policy"),
     create_firewall_policy     |-> Post("firewall/policy"),
     update_firewall_policy     |-> PutItem("firewall/policy"),
     get_firewall_policy_detail |-> GetItem("firewall/policy"),
     delete_firewall_policy     |-> Delete("firewall/policy"),
     get_address_objects        |-> Get("firewall/address"),
     create_address_object      |-> Post("firewall/address"),
     update_address_object      |-> PutItem("firewall/address"),
     delete_address_object      |-> Delete("firewall/address"),
     get_service_objects        |-> Get("firewall.service/custom"),
     create_service_object      |-> Post("firewall.service/custom"),
     update_service_object      |-> PutItem("firewall.service/custom"),
     delete_service_object      |-> Delete("firewall.service/custom"),
     get_static_routes          |-> Get("router/static"),
     create_static_route        |-> Post("router/static"),
     update_static_route        |-> PutItem("router/static"),
     delete_static_route        |-> Delete("router/static"),
     get_static_route_detail    |-> GetItem("router/static"),
     get_routing_table          |-> Get("monitor/router/ipv4"),
     get_virtual_ips            |-> Get("firewall/vip"),
     create_virtual_ip          |-> Post("firewall/vip"),
     update_virtual_ip          |-> PutItem("firewall/vip"),
     delete_virtual_ip          |-> Delete("firewall/vip"),
     get_virtual_ip_detail      |-> GetItem("firewall/vip")]

VpnEndpoints ==
    [get_ipsec_phase1_list   |-> Get("vpn.ipsec/phase1-interface"),
     get_ipsec_phase1_detail |-> GetItem("vpn.ipsec/phase1-interface"),
     create_ipsec_phase1     |-> Post("vpn.ipsec/phase1-interface"),
     update_ipsec_phase1     |-> PutItem("vpn.ipsec/phase1-interface"),
     delete_ipsec_phase1     |-> Delete("vpn.ipsec/phase1-interface"),
     get_ipsec_phase2_list   |-> Get("vpn.ipsec/phase2-interface"),
     get_ipsec_phase2_detail |-> GetItem("vpn.ipsec/phase2-interface"),
     create_ipsec_phase2     |-> Post("vpn.ipsec/phase2-interface"),
     update_ipsec_phase2     |-> PutItem("vpn.ipsec/phase2-interface"),
     delete_ipsec_phase2     |-> Delete("vpn.ipsec/phase2-interface"),
     get_ipsec_tunnel_status |-> Get("monitor/vpn/ipsec"),
     get_ssl_vpn_settings    |-> Get("vpn.ssl/settings"),
     update_ssl_vpn_settings |-> Put("vpn.ssl/settings"),
     get_ssl_vpn_sessions    |-> Get("monitor/vpn/ssl")]

SettingsEndpoints ==
    [get_dns_settings      |-> Get("system/dns"),
     update_dns_settings   |-> Put("system/dns"),
     get_ntp_settings      |-> Get("system/ntp"),
     update_ntp_settings   |-> Put("system/ntp"),
     get_syslog_settings   |-> Get("log.syslogd/setting"),
     update_syslog_settings |-> Put("log.syslogd/setting"),
     get_snmp_sysinfo      |-> Get("system.snmp/sysinfo"),
     update_snmp_sysinfo   |-> Put("system.snmp/sysinfo"),
     get_snmp_communities  |-> Get("system.snmp/community"),
     get_snmp_community_detail |-> GetItem("system.snmp/community"),
     create_snmp_community |-> Post("system.snmp/community"),
     update_snmp_community |-> PutItem("system.snmp/community"),
     delete_snmp_community |-> Delete("system.snmp/community"),
     get_system_global     |-> Get("system/global"),
     update_system_global  |-> Put("system/global"),
     list_admins           |-> Get("system/admin"),
     get_admin_detail      |-> GetItem("system/admin"),
     create_admin          |-> Post("system/admin"),
     update_admin          |-> PutItem("system/admin"),
     delete_admin          |-> Delete("system/admin"),
     get_ha_config         |-> Get("system/ha"),
     update_ha_config      |-> Put("system/ha")]

(* The two tables in one; where both have an entry, the first one has it.  *)
Over(f, g) ==
    [x \in DOMAIN f \cup DOMAIN g |-> IF x \in DOMAIN f THEN f[x] ELSE g[x]]

Endpoint ==
    Over(SystemEndpoints, Over(TrafficEndpoints, Over(VpnEndpoints, SettingsEndpoints)))

=============================================================================
