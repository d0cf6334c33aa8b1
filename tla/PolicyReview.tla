---------------------------- MODULE PolicyReview ----------------------------
(***************************************************************************)
(* A device whose policy table, address objects and settings change under  *)
(* administrators and under IntentService.create_policy, and what the      *)
(* analysis, intent and fleet tools tell of it.  The analyses run on one   *)
(* consistent listing; that a listing is several requests is left out.     *)
(*                                                                         *)
(* FortiOS is the environment: it evaluates the enabled policies in the    *)
(* order of the table, the first match decides and otherwise the traffic   *)
(* is denied.  A policy with an empty dstaddr is about internet services.  *)
(* Neither the code nor this FortiOS knows the negate flags of a policy,   *)
(* nor its users and groups.                                               *)
(***************************************************************************)
EXTENDS ObjectAnalysis

CONSTANTS
    Templates,          \* policies (without ids) an administrator may add
    Baseline,           \* the policies to begin with
    Interfaces, Services, Vips,     \* names, which stay
    VipAddress,         \* virtual IP -> the address it answers at
    FirstObjects,       \* the address objects to begin with
    NewObjects,         \* those an administrator may add or put in their place
    SiteOf,             \* fqdn object -> the addresses it resolves to
    Bundles,            \* system settings, as CheckSystemConfig reads them
    Hosts, InternetHosts,
    Lower, Upper,       \* str.lower, str.upper on the texts of the model
    KnownDefaults,      \* _KNOWN_DEFAULT_SERVICES
    Intents,            \* what callers of create_policy ask for
    MaxRules, MaxEdits  \* bounds: policies in the table, edits in all

(* What a policy and an address object are.  The name is an object's key,  *)
(* and FortiOS keeps virtual IPs and addresses in one namespace.           *)
PolicyType ==
    [name : STRING, srcintf : SUBSET STRING, dstintf : SUBSET STRING,
     srcaddr : SUBSET STRING, dstaddr : SUBSET STRING, service : SUBSET STRING,
     action : {"accept", "deny"}, schedule : {"always", "day", "night"},
     status : {"enable", "disable"}, logged : BOOLEAN, commented : BOOLEAN]
RuleType ==
    [policyid : Nat \ {0}, name : STRING, srcintf : SUBSET STRING, dstintf : SUBSET STRING,
     srcaddr : SUBSET STRING, dstaddr : SUBSET STRING, service : SUBSET STRING,
     action : {"accept", "deny"}, schedule : {"always", "day", "night"},
     status : {"enable", "disable"}, logged : BOOLEAN, commented : BOOLEAN]
ObjectType ==
    [name : STRING \ Vips, type : {"ipmask"}, address : Nat, size : Nat \ {0}]
    \cup {r \in [name : STRING \ Vips, type : {"iprange"}, start : Nat, end : Nat] :
            r.start <= r.end}
    \cup [name : STRING \ Vips, type : {"fqdn"}]
SettingsType ==
    [dns : BOOLEAN, ntp : BOOLEAN, syslog : BOOLEAN, snmp : BOOLEAN, weakCommunities : Nat,
     admins : BOOLEAN, ha : BOOLEAN, hostname : BOOLEAN]

ASSUME NoneAssumption == None \notin STRING \cup RuleType \cup (Int \X Int)
ASSUME NamesAssumption ==
    /\ Interfaces \cup Services \cup Vips \cup Wildcards \subseteq STRING
    /\ IsFiniteSet(Services) /\ IsFiniteSet(Vips)
ASSUME PoliciesAssumption ==
    /\ Templates \subseteq PolicyType /\ Baseline \in Seq(PolicyType)
    /\ \A intent \in Intents : intent.name \in STRING /\ intent.action \in {"accept", "deny"}
ASSUME ObjectsAssumption ==
    /\ NewObjects \subseteq ObjectType /\ FirstObjects \in Seq(ObjectType)
    /\ \A i, j \in DOMAIN FirstObjects : FirstObjects[i].name = FirstObjects[j].name => i = j
ASSUME BundlesAssumption == Bundles \subseteq SettingsType
ASSUME BoundsAssumption == MaxRules \in Nat /\ MaxEdits \in Nat

VARIABLES
    rules,              \* the policy table, in evaluation order
    objects,            \* the address objects, in listing order
    system,             \* the settings
    edits               \* edits so far

vars == <<rules, objects, system, edits>>

-----------------------------------------------------------------------------
(* FortiOS. *)
Names(items) == {item.name : item \in ToSet(items)}

Addresses(name) ==
    LET object == CHOOSE o \in ToSet(objects) : o.name = name
    IN  IF name \in Vips THEN {VipAddress[name]}
        ELSE CASE object.type = "iprange" -> object.start..object.end
               [] object.type = "fqdn"    -> SiteOf[name]
               [] object.type = "ipmask"  ->
                    {h \in 0..(object.address + object.size) :
                        h \div object.size = object.address \div object.size}

Packets ==
    [from : Interfaces, to : Interfaces, src : Hosts, dst : Hosts,
     service : Services, at : {"day", "night"}]

Admits(names, host) ==
    IsWildcard(names) \/ \E name \in names : host \in Addresses(name)

(* Objects named all or any admit everything, in FortiOS as in the code:   *)
(* IsWildcard serves both.                                                 *)
Matches(policy, packet) ==
    /\ IsWildcard(policy.srcintf) \/ packet.from \in policy.srcintf
    /\ IsWildcard(policy.dstintf) \/ packet.to \in policy.dstintf
    /\ Admits(policy.srcaddr, packet.src)
    /\ IF policy.dstaddr = {} THEN packet.dst \in InternetHosts
       ELSE /\ Admits(policy.dstaddr, packet.dst)
            /\ IsWildcard(policy.service) \/ packet.service \in policy.service
    /\ policy.schedule \in {"always", packet.at}

(* Of the policies at these places. *)
FirstMatch(policies, places, packet) ==
    FirstOf(policies, {i \in places : IsEnabled(policies[i]) /\ Matches(policies[i], packet)})

Verdict(policies, places, packet) ==
    LET match == FirstMatch(policies, places, packet)
    IN  IF match = None THEN "deny" ELSE match.action

(* FortiOS refuses a policy that names what is not there. *)
Acceptable(policy) ==
    /\ policy.srcintf \cup policy.dstintf \subseteq Interfaces \cup Wildcards
    /\ policy.srcaddr \cup policy.dstaddr \subseteq Names(objects) \cup Vips \cup Wildcards
    /\ policy.service \subseteq Services \cup Wildcards

NextId == CHOOSE id \in 1..(Len(rules) + 1) : \A p \in ToSet(rules) : p.policyid # id
Numbered(id, policy) ==
    [field \in DOMAIN policy \cup {"policyid"} |->
        IF field = "policyid" THEN id ELSE policy[field]]

Init ==
    /\ rules = [i \in DOMAIN Baseline |-> Numbered(i, Baseline[i])]
    /\ objects = FirstObjects
    /\ system \in Bundles
    /\ edits = 0

Edit == edits < MaxEdits /\ edits' = edits + 1

Place(policy) ==
    /\ Len(rules) < MaxRules /\ Acceptable(policy)
    /\ rules' = Append(rules, Numbered(NextId, policy))
    /\ UNCHANGED <<objects, system>>

AddPolicy == Edit /\ \E policy \in Templates : Place(policy)

RemovePolicy ==
    /\ Edit
    /\ \E i \in DOMAIN rules : rules' = RemoveAt(rules, i)
    /\ UNCHANGED <<objects, system>>

MovePolicy ==
    /\ Edit
    /\ \E i \in 2..Len(rules) :
          rules' = [rules EXCEPT ![i] = rules[i - 1], ![i - 1] = rules[i]]
    /\ UNCHANGED <<objects, system>>

TogglePolicy ==
    /\ Edit
    /\ \E i \in DOMAIN rules :
          rules' = [rules EXCEPT ![i].status = IF IsEnabled(rules[i]) THEN "disable" ELSE "enable"]
    /\ UNCHANGED <<objects, system>>

AddObject ==
    /\ Edit
    /\ \E object \in NewObjects :
          object.name \notin Names(objects) /\ objects' = Append(objects, object)
    /\ UNCHANGED <<rules, system>>

RedefineObject ==
    /\ Edit
    /\ \E object \in NewObjects, i \in DOMAIN objects :
          /\ objects[i].name = object.name /\ objects[i] # object
          /\ objects' = [objects EXCEPT ![i] = object]
    /\ UNCHANGED <<rules, system>>

ChangeSettings ==
    /\ Edit
    /\ system' \in Bundles \ {system}
    /\ UNCHANGED <<rules, objects>>

-----------------------------------------------------------------------------
(* IntentService.create_policy.  A name that differs in case only will do; *)
(* of several any may come first, the code iterates over a set.            *)
Like(names, text) == {name \in names : Lower[name] = Lower[text]}

ResolveInterface(zone) ==
    IF Like(Interfaces, zone) # {} THEN Like(Interfaces, zone) ELSE {zone}

ResolveService(service) ==
    IF Like(Services, service) # {} THEN Like(Services, service)
    ELSE IF Upper[service] \in KnownDefaults THEN {Upper[service]} ELSE {service}

ResolveAddress(zone) ==
    IF Like(Names(objects), zone) # {} THEN Like(Names(objects), zone) ELSE {"all"}

(* Previewed and applied; what may come between is ChangeEngine's subject. *)
CreateByIntent ==
    /\ Edit
    /\ \E intent \in Intents :
       \E from \in ResolveInterface(intent.source), to \in ResolveInterface(intent.dest),
          src \in ResolveAddress(intent.source), dst \in ResolveAddress(intent.dest),
          service \in ResolveService(intent.service) :
          Place([name |-> intent.name, srcintf |-> {from}, dstintf |-> {to},
                   srcaddr |-> {src}, dstaddr |-> {dst}, service |-> {service},
                   action |-> intent.action, schedule |-> "always", status |-> "enable",
                   logged |-> FALSE, commented |-> FALSE])

Next ==
    \/ AddPolicy \/ RemovePolicy \/ MovePolicy \/ TogglePolicy
    \/ AddObject \/ RedefineObject \/ ChangeSettings \/ CreateByIntent

Spec == Init /\ [][Next]_vars

-----------------------------------------------------------------------------
At(id) == CHOOSE i \in DOMAIN rules : rules[i].policyid = id

Supersedes(earlier, later) ==
    /\ IsEnabled(rules[At(earlier)]) /\ rules[At(earlier)].schedule = "always"
    /\ \A f \in MatchFields : rules[At(later)][f] # {}

Shadowed == {pair[1] : pair \in {q \in FindShadowed(rules) : Supersedes(q[2], q[1])}}

Duplicate ==
    LET groups == FindDuplicates(rules)
    IN  {id \in UNION groups :
            \E group \in groups : id \in group
                /\ \E first \in group : At(first) < At(id) /\ Supersedes(first, id)}

Kept ==
    LET reported == Shadowed \cup Duplicate
    IN  {i \in DOMAIN rules : IsEnabled(rules[i]) /\ rules[i].policyid \notin reported}

(* Following the reports changes nothing.  Of the policies reported as     *)
(* shadowed and of those reported as duplicates of an earlier one, all may *)
(* be deleted at once, and all disabled ones with them: every packet is    *)
(* treated as before.  Two things the code does not look at are excepted:  *)
(* an earlier policy with a schedule, and fields that are empty; and it is *)
(* about policies without negated fields, users and groups.                *)
CleanupKeepsVerdicts ==
    LET kept == Kept
    IN  \A packet \in Packets :
            Verdict(rules, kept, packet) = Verdict(rules, DOMAIN rules, packet)

(* What names tell of addresses: a name is the one asked for, or has none  *)
(* in common with it.                                                      *)
Apart(names, name) ==
    \/ IsWildcard(names)
    \/ \A other \in names \ {name} : Addresses(other) \cap Addresses(name) = {}

Plain(p, source, dest) ==
    /\ p.schedule = "always" /\ p.dstaddr # {}
    /\ IsWildcard(p.srcintf) /\ IsWildcard(p.dstintf)
    /\ Apart(p.srcaddr, source) /\ Apart(p.dstaddr, dest)

(* find_path and explain_policy_failure agree: the policy that find_path   *)
(* names is none that the diagnosis calls disabled, shadowed or denied     *)
(* earlier.  And find_path is right where names are all there is to know - *)
(* every enabled policy in force always and on every interface, and every  *)
(* object it names the one asked for or without an address in common:      *)
(* it names the policy that decides, or none if none does.                 *)
PathAnswersTrue ==
    \A source \in Names(objects), dest \in Names(objects), service \in Services :
        LET path == FindMatchingPolicy(rules, source, dest, service)
        IN  /\ path # None => DiagnosePolicy(path.policyid, rules)
                                \cap {"disabled", "shadowed", "denied_earlier"} = {}
            /\ (\A p \in ToSet(rules) : IsEnabled(p) => Plain(p, source, dest)) =>
                  \A packet \in {q \in Packets : /\ q.src \in Addresses(source)
                                                 /\ q.dst \in Addresses(dest)
                                                 /\ q.service = service} :
                      FirstMatch(rules, DOMAIN rules, packet) = path

UnusedNow == Unused(rules, Names(objects), Services, Vips)
ScoreNow == Score(rules, Names(objects), Services, Vips, system)

(* The score moves for a reason: one more policy raises it by no more than *)
(* a point for each object that it puts to use, and a change of settings   *)
(* moves it by no more than the category's cap.  It stays within 0..100.   *)
ScoreMoves ==
    [][/\ ScoreNow' \in 0..100
       /\ Len(rules') > Len(rules) =>
            ScoreNow' - ScoreNow <= UnusedCount(UnusedNow) - UnusedCount(UnusedNow')
       /\ system' # system => ScoreNow' - ScoreNow \in -15..15]_vars

Static == {i \in DOMAIN objects : objects[i].type # "fqdn"}

RelationOf(a, b) ==
    IF a = b THEN "equal" ELSE IF b \subseteq a THEN "a_contains_b"
    ELSE IF a \subseteq b THEN "b_contains_a" ELSE "overlap"

(* find_overlapping_subnets reports two static objects exactly if they     *)
(* have an address in common, and in the relation in which they stand.     *)
OverlapIsExact ==
    LET of(i) == Addresses(objects[i].name)
    IN  FindOverlapping(objects) =
            {[object_a |-> objects[p[1]].name, object_b |-> objects[p[2]].name,
              relationship |-> RelationOf(of(p[1]), of(p[2]))] :
                p \in {q \in Static \X Static : q[1] < q[2] /\ of(q[1]) \cap of(q[2]) # {}}}

(* An item after the differences are carried out, and what it then says.   *)
Patched(item, changed) ==
    [field \in DOMAIN item \cup DOMAIN changed |->
        IF field \in DOMAIN changed THEN changed[field].after ELSE item[field]]

Bare(item) == {<<field, item[field]>> : field \in {f \in DOMAIN item : item[f] # None}}

(* A comparison is enough to rebuild the other device's list: what is only *)
(* there, what is identical, and the rest by carrying out the differences. *)
(* So nothing that differs goes unreported, whatever fields the items have *)
(* (the ones compared: this device now, and one configured as it was).     *)
Rebuilds(resourceType, a, b) ==
    LET report == CompareResourceLists(resourceType, a, b)
        key(item) == KeyFor(resourceType, item)
        common == {item \in ToSet(a) : key(item) \notin report.only_in_a}
        rebuilt(item) == IF key(item) \in report.identical THEN item
                         ELSE Patched(item, report.different[key(item)])
    IN  {Bare(rebuilt(item)) : item \in common} =
            {Bare(item) : item \in {i \in ToSet(b) : key(i) \notin report.only_in_b}}

CompareRebuilds ==
    LET first == [i \in DOMAIN Baseline |-> Numbered(i, Baseline[i])]
    IN  /\ Rebuilds("firewall_policy", rules, first) /\ Rebuilds("firewall_policy", first, rules)
        /\ Rebuilds("address_object", objects, FirstObjects)
        /\ Rebuilds("address_object", FirstObjects, objects)
=============================================================================
