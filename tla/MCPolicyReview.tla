--------------------------- MODULE MCPolicyReview ---------------------------
(***************************************************************************)
(* TLC instance of PolicyReview: a small office's policies, broad and      *)
(* narrow, scheduled, for internet services, and equal ones added twice.   *)
(***************************************************************************)
EXTENDS PolicyReview, TLC

Rule(name, from, src, dst, service, action, schedule) ==
    [name |-> name, srcintf |-> from, dstintf |-> {"any"}, srcaddr |-> src, dstaddr |-> dst,
     service |-> service, action |-> action, schedule |-> schedule, status |-> "enable",
     logged |-> name # "open", commented |-> name # "open"]

Open == Rule("open", {"any"}, {"all"}, {"all"}, {"ALL"}, "accept", "always")
Lan  == Rule("lan", {"port1"}, {"lan"}, {"all"}, {"ALL"}, "accept", "always")

MCBaseline == <<Lan, Open>>
MCTemplates ==
    {Open, Lan,
     Rule("web", {"any"}, {"lan", "dmz"}, {"dmz", "vip"}, {"HTTP"}, "accept", "always"),
     Rule("block", {"any"}, {"lan"}, {"dmz"}, {"HTTP"}, "deny", "always"),
     Rule("night", {"any"}, {"all"}, {"all"}, {"ALL"}, "deny", "night"),
     Rule("cloud", {"any"}, {"lan"}, {}, {"ALL"}, "accept", "always"),
     Rule("pc", {"any"}, {"pc"}, {"all"}, {"ALL"}, "deny", "always")}

MCFirstObjects == <<Subnet("lan", 3, 4), Subnet("dmz", 4, 2), Fqdn("saas")>>
MCNewObjects ==
    {IpRange("pc", 1, 2), IpRange("mixed", 3, 4), Subnet("lan2", 0, 4), Subnet("edge", 6, 2),
     Fqdn("geo"),
     IpRange("dmz", 4, 6)}
MCSiteOf == [name \in {"saas", "geo"} |-> {7}]
MCVipAddress == [name \in {"vip"} |-> 6]

Good == [dns |-> TRUE, ntp |-> TRUE, syslog |-> TRUE, snmp |-> FALSE, weakCommunities |-> 2,
         admins |-> TRUE, ha |-> TRUE, hostname |-> TRUE]
MCBundles ==
    {Good, [Good EXCEPT !.snmp = TRUE, !.ha = FALSE],
     [setting \in DOMAIN Good |-> IF setting = "weakCommunities" THEN 2 ELSE setting = "snmp"]}

MCIntents ==
    {[name |-> "i1", source |-> "PORT1", dest |-> "DMZ", service |-> "http", action |-> "accept"],
     [name |-> "i2", source |-> "dmz", dest |-> "lan", service |-> "ssh", action |-> "accept"],
     [name |-> "i3", source |-> "dmz", dest |-> "Port1", service |-> "rdp", action |-> "deny"]}

Texts == {"PORT1", "port1", "Port1", "DMZ", "dmz", "lan", "http", "HTTP", "ssh", "SSH", "rdp",
          "RDP", "saas", "pc", "mixed", "lan2", "edge", "geo"}
MCLower ==
    [text \in Texts |->
        CASE text \in {"PORT1", "Port1"} -> "port1"
          [] text = "DMZ"  -> "dmz"
          [] text = "HTTP" -> "http"
          [] text = "SSH"  -> "ssh"
          [] text = "RDP"  -> "rdp"
          [] OTHER         -> text]
MCUpper ==
    [text \in Texts |->
        CASE text = "http" -> "HTTP"
          [] text = "ssh"  -> "SSH"
          [] text = "rdp"  -> "RDP"
          [] OTHER         -> text]
=============================================================================
