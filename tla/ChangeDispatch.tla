--------------------------- MODULE ChangeDispatch ---------------------------
(***************************************************************************)
(* The dispatch table of services/change_dispatch.py: which adapter calls  *)
(* each resource_type has.  A method name is abstracted to the verb it is  *)
(* filed under, so the table maps a resource type to a set of verbs.       *)
(***************************************************************************)
EXTENDS ModePolicy

(* One instance per device and VDOM, hence no identifier: _SINGLETON_RESOURCE_TYPES. *)
Singletons ==
    {"dns", "ntp", "syslog", "snmp_sysinfo", "system_global", "ha"}

(* Keyed types the adapter can list but not get one by one. *)
Getterless == {"address_object", "service_object"}

(* Keyed types with every verb. *)
FullyKeyed ==
    {"firewall_policy", "static_route", "virtual_ip", "ipsec_phase1",
     "ipsec_phase2", "snmp_community", "admin", "interface", "zone",
     "dhcp_server"}

ResourceTypes ==
    Singletons \cup Getterless \cup FullyKeyed \cup {"vdom", "vdom_link"}

(* _RESOURCE_OPS *)
ResourceOps ==
    [t \in ResourceTypes |->
        CASE t \in Singletons -> {"get", "update"}
          [] t \in Getterless -> {"list", "create", "update", "delete"}
          [] t \in FullyKeyed -> {"list", "get", "create", "update", "delete"}
          [] t = "vdom"       -> {"create", "delete"}
          [] OTHER            -> {"list", "get", "create", "delete"}]

(* execute() finds a method for the operation instead of raising ValueError. *)
Supports(type, operation) == operation \in ResourceOps[type]

(* fetch_current() issues a GET instead of returning None at once. *)
Fetches(type, hasId) ==
    /\ "get" \in ResourceOps[type]
    /\ type \in Singletons \/ hasId

(* The operation ChangeService.rollback executes to undo an applied one. *)
UndoOf(operation) ==
    CASE operation = "create" -> "delete"
      [] operation = "delete" -> "create"
      [] OTHER                -> "update"

=============================================================================
