--------------------------- MODULE ChangeRequests ---------------------------
(***************************************************************************)
(* The changes that the tools can ask for.  Every mutating method of the   *)
(* thin services ends in one ChangeService.preview call with a resource    *)
(* type and an operation of its own; the sets below are those pairs.       *)
(***************************************************************************)
EXTENDS ChangeDispatch

PolicyService == {"firewall_policy"} \X OperationType

NetworkService == {"address_object", "service_object"} \X {"create"}

RoutingService == {"static_route", "interface", "zone", "dhcp_server"} \X OperationType

VipService == {"virtual_ip"} \X OperationType

VpnService == {"ipsec_phase1", "ipsec_phase2"} \X OperationType

SystemService ==
    ({"dns", "ntp", "syslog", "snmp_sysinfo", "system_global", "ha"} \X {"update"})
        \cup ({"snmp_community", "admin"} \X OperationType)

VdomService == {"vdom", "vdom_link"} \X {"create", "delete"}

Offered ==
    UNION {PolicyService, NetworkService, RoutingService, VipService, VpnService,
           SystemService, VdomService}

=============================================================================
