--------------------------- MODULE PolicyAnalysis ---------------------------
(***************************************************************************)
(* domain/analysis: what the tools tell of a list of firewall policies.    *)
(* A policy's srcintf, dstintf, srcaddr, dstaddr and service are the sets  *)
(* of names util.names() reduces them to; logged and commented stand for   *)
(* logtraffic # "disable" and a nonempty comments.                         *)
(***************************************************************************)
EXTENDS Integers, Sequences, FiniteSets, FiniteSetsExt, SequencesExt

CONSTANTS
    Wildcards,          \* the names that str.lower turns into "all" or "any"
    None

MatchFields == {"srcintf", "dstintf", "srcaddr", "dstaddr", "service"}

IsWildcard(names) == names \cap Wildcards # {}

(* Broken: it is enough that some name is covered. *)
FieldCoversOverlapping(earlier, later) ==
    IsWildcard(earlier) \/ earlier \cap later # {}

FieldCovers(earlier, later) ==
    IsWildcard(earlier) \/ (~IsWildcard(later) /\ later \subseteq earlier)

Covers(earlier, later) == \A f \in MatchFields : FieldCovers(earlier[f], later[f])

IsEnabled(policy) == policy.status # "disable"

-----------------------------------------------------------------------------
(* Pairs of ids, <<shadowed_policy_id, shadowed_by_policy_id>>. *)
FindShadowed(policies) ==
    LET enabled == {i \in DOMAIN policies : IsEnabled(policies[i])}
    IN  {<<policies[pair[2]].policyid, policies[pair[1]].policyid>> :
            pair \in {p \in enabled \X enabled :
                        p[1] < p[2] /\ Covers(policies[p[1]], policies[p[2]])}}

FindAnyAny(policies) ==
    {p \in ToSet(policies) : \A f \in {"srcaddr", "dstaddr", "service"} : IsWildcard(p[f])}

(* The groups of ids that agree in every criterion and in the action. *)
FindDuplicates(policies) ==
    LET key(p) == [f \in MatchFields \cup {"action"} |-> p[f]]
        group(p) == {q.policyid : q \in {r \in ToSet(policies) : key(r) = key(p)}}
    IN  {g \in {group(p) : p \in ToSet(policies)} : Cardinality(g) > 1}

FindUnused(objects, policies, fields) ==
    objects \ UNION {p[f] : p \in ToSet(policies), f \in fields}

(* How many issues of each severity. *)
CheckBestPractices(policies) ==
    LET unlogged == {p \in ToSet(policies) : p.action = "accept" /\ ~p.logged}
        uncommented == {p \in ToSet(policies) : ~p.commented}
        disabled == {p \in ToSet(policies) : ~IsEnabled(p)}
    IN  [high |-> 0, medium |-> Cardinality(unlogged),
         low |-> Cardinality(uncommented) + Cardinality(disabled)]

(* bundle is what _fetch_system_config read; a read that failed counts as  *)
(* an empty answer.                                                        *)
CheckSystemConfig(bundle) ==
    LET wrong(settings) == Cardinality({s \in settings : ~bundle[s]})
    IN  [high   |-> IF bundle.snmp THEN bundle.weakCommunities ELSE 0,
         medium |-> wrong({"dns", "ntp", "syslog"}),
         low    |-> wrong({"admins", "ha", "hostname"})]

-----------------------------------------------------------------------------
(* Broken: a count over the cap costs nothing. *)
DeductWithinCap(count, perItem, cap) ==
    IF count * perItem <= cap THEN count * perItem ELSE 0

Deduct(count, perItem, cap) == Min({count * perItem, cap})

IssuePoints(issues) == Min({issues.high * 5 + issues.medium * 2 + issues.low, 15})

ScoreSecurity(anyAny, shadowed, duplicate, unused, practices, system) ==
    Max({0, 100 - Deduct(anyAny, 15, 40) - Deduct(shadowed, 5, 20)
                - Deduct(duplicate, 3, 15) - Deduct(unused, 1, 10)
                - IssuePoints(practices) - IssuePoints(system)})

Grade(score) ==
    IF score >= 90 THEN "A" ELSE IF score >= 75 THEN "B"
    ELSE IF score >= 60 THEN "C" ELSE IF score >= 40 THEN "D" ELSE "F"

(* AnalysisService._score on what _fetch_all read: policies, and the names *)
(* of the address objects, services and virtual IPs.                       *)
Unused(policies, addresses, services, vips) ==
    [addresses |-> FindUnused(addresses, policies, {"srcaddr", "dstaddr"}),
     services  |-> FindUnused(services, policies, {"service"}),
     vips      |-> FindUnused(vips, policies, {"srcaddr", "dstaddr"})]

UnusedCount(unused) ==
    Cardinality(unused.addresses) + Cardinality(unused.services) + Cardinality(unused.vips)

Score(policies, addresses, services, vips, bundle) ==
    ScoreSecurity(Cardinality(FindAnyAny(policies)), Cardinality(FindShadowed(policies)),
                  Cardinality(FindDuplicates(policies)),
                  UnusedCount(Unused(policies, addresses, services, vips)),
                  CheckBestPractices(policies), CheckSystemConfig(bundle))

-----------------------------------------------------------------------------
(* The first of the policies at these places, or None. *)
FirstOf(policies, places) == IF places = {} THEN None ELSE policies[Min(places)]

FindById(id, policies) ==
    FirstOf(policies, {i \in DOMAIN policies : policies[i].policyid = id})

EarlierDenyCovering(id, policies) ==
    LET target == FindById(id, policies)
        before == {i \in DOMAIN policies : \A j \in 1..i : policies[j].policyid # id}
        denies(p) == IsEnabled(p) /\ p.action = "deny" /\ Covers(p, target)
    IN  FirstOf(policies, {i \in before : denies(policies[i])})

DiagnosePolicy(id, policies) ==
    LET target == FindById(id, policies)
        found ==
            [disabled |-> ~IsEnabled(target),
             shadowed |-> \E pair \in FindShadowed(policies) : pair[1] = id,
             schedule_restricted |-> target.schedule # "always",
             denied_earlier |-> EarlierDenyCovering(id, policies) # None]
        issues == {issue \in DOMAIN found : found[issue]}
    IN  IF target = None THEN {"not_found"}
        ELSE IF issues = {} THEN {"no_obvious_issue"} ELSE issues

(* Broken: the status is not looked at. *)
FindMatchingAnyStatus(policies, source, destination, service) ==
    LET admits(names, name) == IsWildcard(names) \/ name \in names
        matches(p) ==
            /\ admits(p.srcaddr, source) /\ admits(p.dstaddr, destination)
            /\ service = None \/ admits(p.service, service)
    IN  FirstOf(policies, {i \in DOMAIN policies : matches(policies[i])})

FindMatchingPolicy(policies, source, destination, service) ==
    LET admits(names, name) == IsWildcard(names) \/ name \in names
        matches(p) ==
            /\ IsEnabled(p)
            /\ admits(p.srcaddr, source) /\ admits(p.dstaddr, destination)
            /\ service = None \/ admits(p.service, service)
    IN  FirstOf(policies, {i \in DOMAIN policies : matches(policies[i])})
=============================================================================
