-------------------------- MODULE DeviceEndpoints ---------------------------
(***************************************************************************)
(* The tables a call to a device goes through, from the change       *)
(* dispatch down to the wire:                                              *)
(*   Methods    resource type and verb -> adapter method                   *)
(*              (services/change_dispatch.py),                             *)
(*   Signature  adapter method -> the arguments it takes                   *)
(*              (adapters/base.py, which FortiOSAdapter follows),          *)
(*   Forward    adapter method -> client method                            *)
(*              (adapters/fortios/adapter.py),                             *)
(*   Endpoint   client method -> HTTP request (core/fortigate.py).         *)
(***************************************************************************)
EXTENDS ChangeDispatch, DeviceClient

-----------------------------------------------------------------------------
(* _RESOURCE_OPS, with its method names. *)

Setting(get, update) == [get |-> get, update |-> update]

Table(list, get, create, update, delete) ==
    [list |-> list, get |-> get, create |-> create, update |-> update,
     delete |-> delete]

NoGetter(list, create, update, delete) ==
    [list |-> list, create |-> create, update |-> update, delete |-> delete]

Methods ==
    [firewall_policy |-> Table("list_policies", "get_policy", "create_policy",
                               "update_policy", "delete_policy"),
     address_object  |-> NoGetter("list_address_objects", "create_address_object",
                               "update_address_object", "delete_address_object"),
     service_object  |-> NoGetter("list_service_objects", "create_service_object",
                               "update_service_object", "delete_service_object"),
     static_route    |-> Table("list_static_routes", "get_static_route",
                               "create_static_route", "update_static_route",
                               "delete_static_route"),
     virtual_ip      |-> Table("list_virtual_ips", "get_virtual_ip", "create_virtual_ip",
                               "update_virtual_ip", "delete_virtual_ip"),
     ipsec_phase1    |-> Table("list_ipsec_phase1", "get_ipsec_phase1",
                               "create_ipsec_phase1", "update_ipsec_phase1",
                               "delete_ipsec_phase1"),
     ipsec_phase2    |-> Table("list_ipsec_phase2", "get_ipsec_phase2",
                               "create_ipsec_phase2", "update_ipsec_phase2",
                               "delete_ipsec_phase2"),
     dns             |-> Setting("get_dns_settings", "update_dns_settings"),
     ntp             |-> Setting("get_ntp_settings", "update_ntp_settings"),
     syslog          |-> Setting("get_syslog_settings", "update_syslog_settings"),
     snmp_sysinfo    |-> Setting("get_snmp_sysinfo", "update_snmp_sysinfo"),
     system_global   |-> Setting("get_system_global", "update_system_global"),
     ha              |-> Setting("get_ha_config", "update_ha_config"),
     snmp_community  |-> Table("list_snmp_communities", "get_snmp_community",
                               "create_snmp_community", "update_snmp_community",
                               "delete_snmp_community"),
     admin           |-> Table("list_admins", "get_admin", "create_admin",
                               "update_admin", "delete_admin"),
     vdom            |-> [create |-> "create_vdom", delete |-> "delete_vdom"],
     vdom_link       |-> [list |-> "list_vdom_links", get |-> "get_vdom_link",
                          create |-> "create_vdom_link", delete |-> "delete_vdom_link"],
     interface       |-> Table("list_interfaces", "get_interface", "create_interface",
                               "update_interface", "delete_interface"),
     zone            |-> Table("list_zones", "get_zone", "create_zone", "update_zone",
                               "delete_zone"),
     dhcp_server     |-> Table("list_dhcp_servers", "get_dhcp_server",
                               "create_dhcp_server", "update_dhcp_server",
                               "delete_dhcp_server")]

-----------------------------------------------------------------------------
(* FortinetProductAdapter: the arguments of each method, beside self. *)

Vdom       == {"vdom"}
IdVdom     == {"id", "vdom"}
DataVdom   == {"data", "vdom"}
IdDataVdom == {"id", "data", "vdom"}

SystemSignature ==
    [get_status |-> Vdom, list_vdoms |-> {}, create_vdom |-> DataVdom,
     delete_vdom |-> IdVdom, list_vdom_links |-> Vdom, get_vdom_link |-> IdVdom,
     create_vdom_link |-> DataVdom, delete_vdom_link |-> IdVdom,
     list_interfaces |-> Vdom, get_interface_status |-> IdVdom,
     get_interface |-> IdVdom, create_interface |-> DataVdom,
     update_interface |-> IdDataVdom, delete_interface |-> IdVdom,
     list_zones |-> Vdom, get_zone |-> IdVdom, create_zone |-> DataVdom,
     update_zone |-> IdDataVdom, delete_zone |-> IdVdom,
     list_dhcp_servers |-> Vdom, get_dhcp_server |-> IdVdom,
     create_dhcp_server |-> DataVdom, update_dhcp_server |-> IdDataVdom,
     delete_dhcp_server |-> IdVdom]

TrafficSignature ==
    [list_policies |-> Vdom, get_policy |-> IdVdom, create_policy |-> DataVdom,
     update_policy |-> IdDataVdom, delete_policy |-> IdVdom,
     list_address_objects |-> Vdom, create_address_object |-> DataVdom,
     update_address_object |-> IdDataVdom, delete_address_object |-> IdVdom,
     list_service_objects |-> Vdom, create_service_object |-> DataVdom,
     update_service_object |-> IdDataVdom, delete_service_object |-> IdVdom,
     list_static_routes |-> Vdom, get_static_route |-> IdVdom,
     create_static_route |-> DataVdom, update_static_route |-> IdDataVdom,
     delete_static_route |-> IdVdom, get_routing_table |-> Vdom,
     list_virtual_ips |-> Vdom, get_virtual_ip |-> IdVdom,
     create_virtual_ip |-> DataVdom, update_virtual_ip |-> IdDataVdom,
     delete_virtual_ip |-> IdVdom]

VpnSignature ==
    [list_ipsec_phase1 |-> Vdom, get_ipsec_phase1 |-> IdVdom,
     create_ipsec_phase1 |-> DataVdom, update_ipsec_phase1 |-> IdDataVdom,
     delete_ipsec_phase1 |-> IdVdom, list_ipsec_phase2 |-> Vdom,
     get_ipsec_phase2 |-> IdVdom, create_ipsec_phase2 |-> DataVdom,
     update_ipsec_phase2 |-> IdDataVdom, delete_ipsec_phase2 |-> IdVdom,
     get_ipsec_tunnel_status |-> Vdom, get_ssl_vpn_settings |-> Vdom,
     update_ssl_vpn_settings |-> DataVdom, get_ssl_vpn_sessions |-> Vdom]

SettingsSignature ==
    [get_dns_settings |-> Vdom, update_dns_settings |-> DataVdom,
     get_ntp_settings |-> Vdom, update_ntp_settings |-> DataVdom,
     get_syslog_settings |-> Vdom, update_syslog_settings |-> DataVdom,
     get_snmp_sysinfo |-> Vdom, update_snmp_sysinfo |-> DataVdom,
     list_snmp_communities |-> Vdom, get_snmp_community |-> IdVdom,
     create_snmp_community |-> DataVdom, update_snmp_community |-> IdDataVdom,
     delete_snmp_community |-> IdVdom, get_system_global |-> Vdom,
     update_system_global |-> DataVdom, list_admins |-> Vdom, get_admin |-> IdVdom,
     create_admin |-> DataVdom, update_admin |-> IdDataVdom, delete_admin |-> IdVdom,
     get_ha_config |-> Vdom, update_ha_config |-> DataVdom]

Signature ==
    Over(SystemSignature, Over(TrafficSignature, Over(VpnSignature, SettingsSignature)))

-----------------------------------------------------------------------------
(* FortiOSAdapter: the client method each adapter method hands over to,    *)
(* one of the same name unless the table says otherwise.                   *)

Same(methods) == [m \in methods |-> m]

SystemForward ==
    Over([get_status |-> "get_system_status", list_vdoms |-> "get_vdoms",
          list_vdom_links |-> "get_vdom_links", get_vdom_link |-> "get_vdom_link_detail",
          list_interfaces |-> "get_interfaces", get_interface |-> "get_interface_detail",
          list_zones |-> "get_zones", get_zone |-> "get_zone_detail",
          list_dhcp_servers |-> "get_dhcp_servers",
          get_dhcp_server |-> "get_dhcp_server_detail"],
         Same(DOMAIN SystemSignature))

TrafficForward ==
    Over([list_policies |-> "get_firewall_policies", get_policy |-> "get_firewall_policy_detail",
          create_policy |-> "create_firewall_policy", update_policy |-> "update_firewall_policy",
          delete_policy |-> "delete_firewall_policy",
          list_address_objects |-> "get_address_objects",
          list_service_objects |-> "get_service_objects",
          list_static_routes |-> "get_static_routes",
          get_static_route |-> "get_static_route_detail",
          list_virtual_ips |-> "get_virtual_ips", get_virtual_ip |-> "get_virtual_ip_detail"],
         Same(DOMAIN TrafficSignature))

VpnForward ==
    Over([list_ipsec_phase1 |-> "get_ipsec_phase1_list",
          get_ipsec_phase1 |-> "get_ipsec_phase1_detail",
          list_ipsec_phase2 |-> "get_ipsec_phase2_list",
          get_ipsec_phase2 |-> "get_ipsec_phase2_detail"],
         Same(DOMAIN VpnSignature))

SettingsForward ==
    Over([list_snmp_communities |-> "get_snmp_communities",
          get_snmp_community |-> "get_snmp_community_detail",
          get_admin |-> "get_admin_detail"],
         Same(DOMAIN SettingsSignature))

Forward ==
    Over(SystemForward, Over(TrafficForward, Over(VpnForward, SettingsForward)))

=============================================================================
