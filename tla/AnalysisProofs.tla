--------------------------- MODULE AnalysisProofs ---------------------------
(***************************************************************************)
(* What the reports are worth.  A policy covered by an earlier one that is *)
(* in force always decides nothing, and so following the reports changes   *)
(* no verdict; find_path and the diagnosis agree; overlaps and comparisons *)
(* are exact.                                                              *)
(***************************************************************************)
EXTENDS PolicyReview, SequenceTheorems, FiniteSetTheorems, TLAPS

-----------------------------------------------------------------------------
(* Lemmas about the operators. *)

(* A nonempty finite set of integers has a least element. *)
LEMMA LeastOf ==
    ASSUME NEW S \in SUBSET Int, S # {}, IsFiniteSet(S)
    PROVE  Min(S) \in S /\ \A y \in S : Min(S) <= y
  <1>. DEFINE Below(x) == {y \in S : y <= x}
              Belows == {Below(x) : x \in S}
  <1>1. IsWellFoundedOn(StrictSubsetOrdering(S), SUBSET S)
    BY FS_StrictSubsetOrderingWellFounded, FS_FiniteSubsetsOfFinite
  <1>2. Belows \subseteq SUBSET S /\ Belows # {}
    OBVIOUS
  <1>. HIDE DEF Belows
  <1>3. PICK b \in Belows : \A y \in Belows : ~ (<<y, b>> \in StrictSubsetOrdering(S))
    BY <1>1, <1>2, WFMin
  <1>4. PICK x \in S : b = Below(x)
    BY <1>3 DEF Belows
  <1>5. ASSUME NEW y \in S, y < x PROVE FALSE
    <2>1. Below(y) \in Belows
      BY DEF Belows
    <2>2. \A z \in S : z <= y => z <= x
      BY <1>5
    <2>3. Below(y) \subseteq b
      BY <2>2, <1>4
    <2>4. y \in Below(y) /\ x \in b /\ x \notin Below(y)
      BY <1>4, <1>5
    <2>5. <<Below(y), b>> \in StrictSubsetOrdering(S)
      BY <2>1, <2>3, <2>4, <1>2, <1>3 DEF StrictSubsetOrdering
    <2>. QED
      BY <2>1, <2>5, <1>3
  <1>6. \E least \in S : \A y \in S : least <= y
    BY <1>5
  <1>. QED
    BY <1>6 DEF Min

(* FirstOf is the policy at the least of the places. *)
LEMMA First ==
    ASSUME NEW policies, NEW n \in Nat, NEW places \in SUBSET (1..n)
    PROVE  /\ places = {} => FirstOf(policies, places) = None
           /\ places # {} => /\ Min(places) \in places
                             /\ \A i \in places : Min(places) <= i
                             /\ FirstOf(policies, places) = policies[Min(places)]
  <1>1. IsFiniteSet(1..n)
    BY FS_Interval
  <1>2. places \in SUBSET Int
    OBVIOUS
  <1>3. IsFiniteSet(places)
    BY <1>1, FS_Subset
  <1>. QED
    BY <1>2, <1>3, LeastOf DEF FirstOf

(* A policy with a number is an entry of the table. *)
LEMMA NumberedRule ==
    ASSUME NEW policy \in PolicyType, NEW id \in Nat \ {0}
    PROVE  Numbered(id, policy) \in RuleType /\ Numbered(id, policy).policyid = id
  <1>. DEFINE rule ==
          [policyid |-> id, name |-> policy.name, srcintf |-> policy.srcintf,
           dstintf |-> policy.dstintf, srcaddr |-> policy.srcaddr, dstaddr |-> policy.dstaddr,
           service |-> policy.service, action |-> policy.action, schedule |-> policy.schedule,
           status |-> policy.status, logged |-> policy.logged, commented |-> policy.commented]
  <1>1. DOMAIN policy = {"name", "srcintf", "dstintf", "srcaddr", "dstaddr", "service",
                         "action", "schedule", "status", "logged", "commented"}
    BY DEF PolicyType
  <1>2. Numbered(id, policy) = rule
    BY <1>1 DEF Numbered
  <1>3. rule \in RuleType /\ rule.policyid = id
    BY DEF PolicyType, RuleType
  <1>. QED
    BY <1>2, <1>3

(* Among the first n + 1 numbers one is not used by n policies. *)
LEMMA FreshId ==
    ASSUME rules \in Seq(RuleType)
    PROVE  NextId \in Nat \ {0} /\ \A i \in DOMAIN rules : rules[i].policyid # NextId
  <1>. DEFINE n == Len(rules)
              Used == {rules[i].policyid : i \in 1..n}
              number == [i \in 1..n |-> rules[i].policyid]
  <1>1. n \in Nat /\ DOMAIN rules = 1..n
    OBVIOUS
  <1>2. number \in Surjection(1..n, Used)
    BY DEF Surjection
  <1>3. IsFiniteSet(Used) /\ Cardinality(Used) <= n
    BY <1>1, <1>2, FS_Surjection, FS_Interval
  <1>4. IsFiniteSet(1..(n + 1)) /\ Cardinality(1..(n + 1)) = n + 1
    BY <1>1, FS_Interval
  <1>5. ASSUME 1..(n + 1) \subseteq Used PROVE FALSE
    <2>1. Cardinality(1..(n + 1)) <= Cardinality(Used)
      BY <1>3, <1>5, FS_Subset
    <2>2. Cardinality(Used) \in Nat
      BY <1>3, FS_CardinalityType
    <2>. HIDE DEF Used
    <2>. QED
      BY <1>1, <1>3, <1>4, <2>1, <2>2
  <1>6. PICK id \in 1..(n + 1) : id \notin Used
    BY <1>5
  <1>7. \A p \in ToSet(rules) : p.policyid # id
    BY <1>1, <1>6 DEF ToSet
  <1>8. NextId \in 1..(n + 1) /\ \A p \in ToSet(rules) : p.policyid # NextId
    BY <1>6, <1>7 DEF NextId
  <1>. QED
    BY <1>1, <1>8 DEF ToSet

(* Taking one entry out leaves the others in their order. *)
LEMMA Removed ==
    ASSUME NEW S, NEW s \in Seq(S), NEW i \in DOMAIN s
    PROVE  /\ RemoveAt(s, i) \in Seq(S)
           /\ \A k \in DOMAIN RemoveAt(s, i) :
                 \E m \in DOMAIN s : m = (IF k < i THEN k ELSE k + 1) /\ RemoveAt(s, i)[k] = s[m]
  <1>. DEFINE front == SubSeq(s, 1, i - 1)
              back == SubSeq(s, i + 1, Len(s))
  <1>1. i \in 1..Len(s) /\ Len(s) \in Nat
    OBVIOUS
  <1>2. front \in Seq(S) /\ Len(front) = i - 1 /\ \A k \in 1..(i - 1) : front[k] = s[k]
    BY <1>1, SubSeqProperties
  <1>3. /\ back \in Seq(S) /\ Len(back) = Len(s) - i
        /\ \A k \in 1..(Len(s) - i) : back[k] = s[k + i]
    BY <1>1, SubSeqProperties
  <1>. HIDE DEF front, back
  <1>4. RemoveAt(s, i) = front \o back
    BY DEF RemoveAt, front, back
  <1>. QED
    BY <1>1, <1>2, <1>3, <1>4

-----------------------------------------------------------------------------
(* The table holds policies, each under its own number, and the listing    *)
(* objects, each under its own name.                                       *)
RulesInv ==
    /\ rules \in Seq(RuleType)
    /\ \A i, j \in DOMAIN rules : rules[i].policyid = rules[j].policyid => i = j

ObjectsInv ==
    /\ objects \in Seq(ObjectType)
    /\ \A i, j \in DOMAIN objects : objects[i].name = objects[j].name => i = j

IInv == RulesInv /\ ObjectsInv /\ system \in Bundles

LEMMA InitInv == Init => IInv
  <1>. SUFFICES ASSUME Init PROVE IInv
    OBVIOUS
  <1>1. \A i \in DOMAIN Baseline : i \in Nat \ {0} /\ Baseline[i] \in PolicyType
    BY PoliciesAssumption
  <1>2. DOMAIN Baseline = 1..Len(Baseline) /\ Len(Baseline) \in Nat
    BY PoliciesAssumption
  <1>3. \A i \in DOMAIN Baseline :
            Numbered(i, Baseline[i]) \in RuleType /\ Numbered(i, Baseline[i]).policyid = i
    BY <1>1, NumberedRule
  <1>4. RulesInv
    BY <1>2, <1>3 DEF Init, RulesInv
  <1>5. ObjectsInv
    BY ObjectsAssumption DEF Init, ObjectsInv
  <1>. QED
    BY <1>4, <1>5 DEF Init, IInv

(* Whoever adds a policy, FortiOS gives it a number of its own. *)
LEMMA PlaceKeeps ==
    ASSUME RulesInv, NEW policy \in PolicyType, Place(policy)
    PROVE  RulesInv'
  <1>1. Numbered(NextId, policy) \in RuleType /\ Numbered(NextId, policy).policyid = NextId
    BY FreshId, NumberedRule DEF RulesInv
  <1>. DEFINE rule == Numbered(NextId, policy)
  <1>2. \A i \in DOMAIN rules : rules[i].policyid # rule.policyid
    BY <1>1, FreshId DEF RulesInv
  <1>3. rules' = Append(rules, rule)
    BY DEF Place
  <1>. HIDE DEF rule
  <1>4. rule \in RuleType
    BY <1>1 DEF rule
  <1>. QED
    BY <1>2, <1>3, <1>4 DEF RulesInv

(* What create_policy asks for is a policy: the names it resolved to are   *)
(* there, or FortiOS does not take it.                                     *)
LEMMA IntentPlaces ==
    ASSUME ObjectsInv, CreateByIntent
    PROVE  \E policy \in PolicyType : Place(policy)
  <1>1. PICK intent \in Intents :
       \E from \in ResolveInterface(intent.source), to \in ResolveInterface(intent.dest),
          src \in ResolveAddress(intent.source), dst \in ResolveAddress(intent.dest),
          service \in ResolveService(intent.service) :
          Place([name |-> intent.name, srcintf |-> {from}, dstintf |-> {to},
                   srcaddr |-> {src}, dstaddr |-> {dst}, service |-> {service},
                   action |-> intent.action, schedule |-> "always", status |-> "enable",
                   logged |-> FALSE, commented |-> FALSE])
    BY DEF CreateByIntent
  <1>2. PICK from \in ResolveInterface(intent.source), to \in ResolveInterface(intent.dest),
             src \in ResolveAddress(intent.source), dst \in ResolveAddress(intent.dest),
             service \in ResolveService(intent.service) :
          Place([name |-> intent.name, srcintf |-> {from}, dstintf |-> {to},
                   srcaddr |-> {src}, dstaddr |-> {dst}, service |-> {service},
                   action |-> intent.action, schedule |-> "always", status |-> "enable",
                   logged |-> FALSE, commented |-> FALSE])
    BY <1>1
  <1>. DEFINE policy ==
          [name |-> intent.name, srcintf |-> {from}, dstintf |-> {to},
           srcaddr |-> {src}, dstaddr |-> {dst}, service |-> {service},
           action |-> intent.action, schedule |-> "always", status |-> "enable",
           logged |-> FALSE, commented |-> FALSE]
  <1>3. Place(policy) /\ Acceptable(policy)
    BY <1>2 DEF Place
  <1>4. Names(objects) \subseteq STRING
    BY DEF ObjectsInv, Names, ToSet, ObjectType
  <1>5. {from, to} \subseteq STRING /\ {src, dst} \subseteq STRING /\ service \in STRING
    BY <1>3, <1>4, NamesAssumption DEF Acceptable
  <1>6. policy \in PolicyType
    BY <1>5, PoliciesAssumption DEF PolicyType
  <1>. QED
    BY <1>3, <1>6

LEMMA RulesStep == IInv /\ [Next]_vars => RulesInv'
  <1>. SUFFICES ASSUME IInv, [Next]_vars PROVE RulesInv'
    OBVIOUS
  <1>. USE DEF IInv
  <1>1. CASE AddPolicy
    BY <1>1, PlaceKeeps, PoliciesAssumption DEF AddPolicy
  <1>2. CASE RemovePolicy
    <2>1. PICK i \in DOMAIN rules : rules' = RemoveAt(rules, i)
      BY <1>2 DEF RemovePolicy
    <2>2. rules' \in Seq(RuleType)
      BY <2>1, Removed DEF RulesInv
    <2>3. \A k \in DOMAIN rules' :
              k \in Nat /\ \E m \in DOMAIN rules : m = (IF k < i THEN k ELSE k + 1) /\ rules'[k] = rules[m]
      BY <2>1, <2>2, Removed DEF RulesInv
    <2>4. i \in Nat
      BY DEF RulesInv
    <2>5. ASSUME NEW j \in DOMAIN rules', NEW k \in DOMAIN rules',
                 rules'[j].policyid = rules'[k].policyid
          PROVE  j = k
      <3>1. PICK m \in DOMAIN rules : m = (IF j < i THEN j ELSE j + 1) /\ rules'[j] = rules[m]
        BY <2>3
      <3>2. PICK n \in DOMAIN rules : n = (IF k < i THEN k ELSE k + 1) /\ rules'[k] = rules[n]
        BY <2>3
      <3>3. m = n
        BY <2>5, <3>1, <3>2 DEF RulesInv
      <3>. QED
        BY <2>3, <2>4, <3>1, <3>2, <3>3
    <2>. QED
      BY <2>2, <2>5 DEF RulesInv
  <1>3. CASE MovePolicy
    <2>1. PICK i \in 2..Len(rules) :
              rules' = [rules EXCEPT ![i] = rules[i - 1], ![i - 1] = rules[i]]
      BY <1>3 DEF MovePolicy
    <2>2. rules' \in Seq(RuleType) /\ DOMAIN rules' = DOMAIN rules
      BY <2>1 DEF RulesInv
    <2>3. \A k \in DOMAIN rules :
              rules'[k] = rules[IF k = i THEN i - 1 ELSE IF k = i - 1 THEN i ELSE k]
      BY <2>1 DEF RulesInv
    <2>. QED
      BY <2>2, <2>3 DEF RulesInv
  <1>4. CASE TogglePolicy
    <2>1. PICK i \in DOMAIN rules :
              rules' = [rules EXCEPT ![i].status = IF IsEnabled(rules[i]) THEN "disable" ELSE "enable"]
      BY <1>4 DEF TogglePolicy
    <2>. DEFINE status == IF IsEnabled(rules[i]) THEN "disable" ELSE "enable"
                rule == [rules[i] EXCEPT !.status = status]
    <2>2. status \in {"enable", "disable"} /\ rules[i] \in RuleType
      BY DEF RulesInv
    <2>3. rule \in RuleType /\ rule.policyid = rules[i].policyid
      BY <2>2 DEF RuleType
    <2>4. rules' = [rules EXCEPT ![i] = rule]
      BY <2>1
    <2>. HIDE DEF rule
    <2>5. rules' \in Seq(RuleType) /\ DOMAIN rules' = DOMAIN rules
      BY <2>3, <2>4 DEF RulesInv
    <2>6. \A k \in DOMAIN rules : rules'[k].policyid = rules[k].policyid
      BY <2>3, <2>4 DEF RulesInv
    <2>. QED
      BY <2>5, <2>6 DEF RulesInv
  <1>5. CASE CreateByIntent
    BY <1>5, IntentPlaces, PlaceKeeps
  <1>6. CASE UNCHANGED rules
    BY <1>6 DEF RulesInv
  <1>. QED
    BY <1>1, <1>2, <1>3, <1>4, <1>5, <1>6 DEF Next, AddObject, RedefineObject, ChangeSettings, vars

LEMMA ObjectsStep == IInv /\ [Next]_vars => ObjectsInv'
  <1>. SUFFICES ASSUME IInv, [Next]_vars PROVE ObjectsInv'
    OBVIOUS
  <1>. USE DEF IInv
  <1>1. CASE AddObject
    <2>1. PICK object \in NewObjects :
              object.name \notin Names(objects) /\ objects' = Append(objects, object)
      BY <1>1 DEF AddObject
    <2>2. \A i \in DOMAIN objects : objects[i].name # object.name
      BY <2>1 DEF Names, ToSet
    <2>3. object \in ObjectType
      BY ObjectsAssumption
    <2>. QED
      BY <2>1, <2>2, <2>3 DEF ObjectsInv
  <1>2. CASE RedefineObject
    <2>1. PICK object \in NewObjects, i \in DOMAIN objects :
              objects[i].name = object.name /\ objects' = [objects EXCEPT ![i] = object]
      BY <1>2 DEF RedefineObject
    <2>2. object \in ObjectType
      BY ObjectsAssumption
    <2>. QED
      BY <2>1, <2>2 DEF ObjectsInv
  <1>3. CASE UNCHANGED objects
    BY <1>3 DEF ObjectsInv
  <1>4. AddPolicy \/ CreateByIntent => UNCHANGED objects
    BY DEF AddPolicy, CreateByIntent, Place
  <1>. QED
    BY <1>1, <1>2, <1>3, <1>4
       DEF Next, RemovePolicy, MovePolicy, TogglePolicy, ChangeSettings, vars

(* However the table and the objects are edited, numbers and names stay    *)
(* unique.                                                                 *)
THEOREM Invariance == Spec => []IInv
  <1>1. IInv /\ [Next]_vars => (system \in Bundles)'
    <2>1. AddPolicy \/ CreateByIntent => UNCHANGED system
      BY DEF AddPolicy, CreateByIntent, Place
    <2>. QED
      BY <2>1 DEF IInv, Next, RemovePolicy, MovePolicy, TogglePolicy, AddObject, RedefineObject,
                  ChangeSettings, vars
  <1>2. IInv /\ [Next]_vars => IInv'
    BY <1>1, RulesStep, ObjectsStep DEF IInv
  <1>. QED
    BY <1>2, InitInv, PTL DEF Spec

-----------------------------------------------------------------------------
(* _shadows is sound: a packet the covered policy matches, the covering    *)
(* one matches too.                                                        *)
THEOREM CoveredMatches ==
    ASSUME NEW earlier, NEW later, NEW packet,
           Covers(earlier, later), earlier.schedule = "always",
           \A f \in MatchFields : later[f] # {},
           Matches(later, packet)
    PROVE  Matches(earlier, packet)
  <1>1. IsWildcard(earlier.srcintf) \/ packet.from \in earlier.srcintf
    BY DEF Covers, MatchFields, FieldCovers, Matches
  <1>2. IsWildcard(earlier.dstintf) \/ packet.to \in earlier.dstintf
    BY DEF Covers, MatchFields, FieldCovers, Matches
  <1>3. Admits(earlier.srcaddr, packet.src)
    BY DEF Covers, MatchFields, FieldCovers, Matches, Admits
  <1>4. Admits(earlier.dstaddr, packet.dst) /\ earlier.dstaddr # {}
    BY DEF Covers, MatchFields, FieldCovers, Matches, Admits, IsWildcard
  <1>5. IsWildcard(earlier.service) \/ packet.service \in earlier.service
    BY DEF Covers, MatchFields, FieldCovers, Matches
  <1>. QED
    BY <1>1, <1>2, <1>3, <1>4, <1>5 DEF Matches

(* find_shadowed_policies: whatever lies between them, a policy that an    *)
(* earlier enabled one covers is not the first enabled one to match any    *)
(* packet.                                                                 *)
THEOREM CoveredNeverDecides ==
    ASSUME NEW policies, NEW i \in Nat, NEW j \in Nat, i < j,
           IsEnabled(policies[i]), Covers(policies[i], policies[j]),
           policies[i].schedule = "always",
           \A f \in MatchFields : policies[j][f] # {},
           NEW packet
    PROVE  ~ /\ Matches(policies[j], packet)
             /\ \A k \in Nat : k < j => ~(IsEnabled(policies[k]) /\ Matches(policies[k], packet))
  <1>1. Matches(policies[j], packet) => Matches(policies[i], packet)
    BY CoveredMatches
  <1>. QED
    BY <1>1

-----------------------------------------------------------------------------
LEMMA AtPlace ==
    ASSUME RulesInv, NEW i \in DOMAIN rules
    PROVE  At(rules[i].policyid) = i
  BY DEF RulesInv, At

(* A policy reported as shadowed, by one always in force: that one comes   *)
(* before it and matches what it matches.                                  *)
LEMMA ShadowedIsLate ==
    ASSUME RulesInv, NEW m \in DOMAIN rules, rules[m].policyid \in Shadowed,
           NEW packet, Matches(rules[m], packet)
    PROVE  \E i \in DOMAIN rules :
              i < m /\ IsEnabled(rules[i]) /\ Matches(rules[i], packet)
  <1>1. PICK q \in FindShadowed(rules) : Supersedes(q[2], q[1]) /\ q[1] = rules[m].policyid
    BY DEF Shadowed
  <1>2. PICK i \in DOMAIN rules, j \in DOMAIN rules :
            /\ IsEnabled(rules[i]) /\ i < j /\ Covers(rules[i], rules[j])
            /\ q = <<rules[j].policyid, rules[i].policyid>>
    BY <1>1 DEF FindShadowed
  <1>3. j = m
    BY <1>1, <1>2 DEF RulesInv
  <1>4. At(q[2]) = i /\ At(q[1]) = m
    BY <1>1, <1>2, AtPlace
  <1>5. rules[i].schedule = "always" /\ \A f \in MatchFields : rules[m][f] # {}
    BY <1>1, <1>4 DEF Supersedes
  <1>6. Matches(rules[i], packet)
    BY <1>2, <1>3, <1>5, CoveredMatches
  <1>. QED
    BY <1>2, <1>3, <1>6

(* And so for a duplicate of an earlier one.                               *)
LEMMA DuplicateIsLate ==
    ASSUME RulesInv, NEW m \in DOMAIN rules, rules[m].policyid \in Duplicate,
           NEW packet, Matches(rules[m], packet)
    PROVE  \E i \in DOMAIN rules :
              i < m /\ IsEnabled(rules[i]) /\ Matches(rules[i], packet)
  <1>0. PICK g \in FindDuplicates(rules) :
            /\ rules[m].policyid \in g
            /\ \E first \in g :
                  At(first) < At(rules[m].policyid) /\ Supersedes(first, rules[m].policyid)
    BY DEF Duplicate
  <1>1. PICK first \in g :
            At(first) < At(rules[m].policyid) /\ Supersedes(first, rules[m].policyid)
    BY <1>0
  <1>. DEFINE key(p) == [f \in MatchFields \cup {"action"} |-> p[f]]
              group(p) == {q.policyid : q \in {r \in ToSet(rules) : key(r) = key(p)}}
  <1>2. PICK p \in ToSet(rules) : g = group(p)
    BY <1>0 DEF FindDuplicates
  <1>3. \A id \in g : \E i \in DOMAIN rules : rules[i].policyid = id /\ key(rules[i]) = key(p)
    BY <1>2 DEF ToSet
  <1>4. PICK i \in DOMAIN rules : rules[i].policyid = first /\ key(rules[i]) = key(p)
    BY <1>1, <1>3
  <1>5. PICK j \in DOMAIN rules : rules[j].policyid = rules[m].policyid /\ key(rules[j]) = key(p)
    BY <1>0, <1>3
  <1>6. j = m
    BY <1>5 DEF RulesInv
  <1>7. At(first) = i /\ At(rules[m].policyid) = m
    BY <1>4, AtPlace
  <1>8. \A f \in MatchFields : rules[i][f] = rules[m][f]
    <2>1. key(rules[i]) = key(rules[m])
      BY <1>4, <1>5, <1>6
    <2>2. \A f \in MatchFields : key(rules[i])[f] = rules[i][f] /\ key(rules[m])[f] = rules[m][f]
      OBVIOUS
    <2>. HIDE DEF key
    <2>. QED
      BY <2>1, <2>2
  <1>9. rules[i].srcintf = rules[m].srcintf /\ rules[i].dstintf = rules[m].dstintf
        /\ rules[i].srcaddr = rules[m].srcaddr /\ rules[i].dstaddr = rules[m].dstaddr
        /\ rules[i].service = rules[m].service
    BY <1>8 DEF MatchFields
  <1>10. IsEnabled(rules[i]) /\ rules[i].schedule = "always" /\ i < m
    BY <1>1, <1>7 DEF Supersedes
  <1>11. Matches(rules[i], packet)
    BY <1>9, <1>10 DEF Matches
  <1>. QED
    BY <1>10, <1>11

(* The first enabled policy to match a packet is none of those, so         *)
(* whatever goes with them it stays the first.                             *)
LEMMA CleanupStep == IInv => CleanupKeepsVerdicts
  <1>. SUFFICES ASSUME IInv, NEW packet \in Packets
                PROVE  Verdict(rules, Kept, packet) = Verdict(rules, DOMAIN rules, packet)
    BY DEF CleanupKeepsVerdicts
  <1>. DEFINE fits(i) == IsEnabled(rules[i]) /\ Matches(rules[i], packet)
              All == {i \in DOMAIN rules : fits(i)}
              Left == {i \in Kept : fits(i)}
              n == Len(rules)
  <1>1. n \in Nat /\ DOMAIN rules = 1..n
    BY DEF IInv, RulesInv
  <1>2. All \in SUBSET (1..n) /\ Left \in SUBSET (1..n) /\ Left \subseteq All
    BY <1>1 DEF Kept
  <1>3. All # {} => Min(All) \in Left
    <2>. SUFFICES ASSUME All # {} PROVE Min(All) \in Left
      OBVIOUS
    <2>. DEFINE m == Min(All)
    <2>1. m \in All /\ \A i \in All : m <= i
      <3>. HIDE DEF All
      <3>. QED
        BY <1>1, <1>2, First
    <2>. HIDE DEF m
    <2>2. m \in DOMAIN rules /\ fits(m)
      BY <2>1
    <2>3. ASSUME NEW i \in DOMAIN rules, i < m, fits(i) PROVE FALSE
      <3>1. i \in All
        BY <2>3
      <3>. HIDE DEF All
      <3>. QED
        BY <1>1, <2>1, <2>2, <2>3, <3>1
    <2>4. rules[m].policyid \notin Shadowed \cup Duplicate
      BY <2>2, <2>3, ShadowedIsLate, DuplicateIsLate DEF IInv
    <2>5. m \in Left
      BY <2>2, <2>4 DEF Kept
    <2>. QED
      BY <2>5 DEF m
  <1>4. FirstOf(rules, Left) = FirstOf(rules, All)
    <2>. HIDE DEF All, Left, n
    <2>1. CASE All = {}
      BY <2>1, <1>2
    <2>2. CASE All # {}
      <3>1. /\ Min(Left) \in Left /\ \A i \in Left : Min(Left) <= i
            /\ FirstOf(rules, Left) = rules[Min(Left)]
        BY <2>2, <1>1, <1>2, <1>3, First
      <3>2. /\ Min(All) \in All /\ \A i \in All : Min(All) <= i
            /\ FirstOf(rules, All) = rules[Min(All)]
        BY <2>2, <1>1, <1>2, First
      <3>3. Min(Left) <= Min(All) /\ Min(All) <= Min(Left)
        BY <2>2, <1>2, <1>3, <3>1, <3>2
      <3>4. Min(Left) \in 1..n /\ Min(All) \in 1..n
        BY <1>2, <3>1, <3>2
      <3>5. Min(Left) = Min(All)
        BY <1>1, <3>3, <3>4
      <3>. QED
        BY <3>1, <3>2, <3>5
    <2>. QED
      BY <2>1, <2>2
  <1>. QED
    BY <1>4 DEF Verdict, FirstMatch

(* Deleting what the reports name changes how no packet is treated.        *)
THEOREM CleanupIsSafe == Spec => []CleanupKeepsVerdicts
  BY Invariance, CleanupStep, PTL

-----------------------------------------------------------------------------
(* What find_matching_policy looks for, with a service.                    *)
Hit(p, source, dest, service) ==
    /\ IsEnabled(p)
    /\ IsWildcard(p.srcaddr) \/ source \in p.srcaddr
    /\ IsWildcard(p.dstaddr) \/ dest \in p.dstaddr
    /\ service = None \/ IsWildcard(p.service) \/ service \in p.service

LEMMA PathIsFirst ==
    ASSUME NEW source, NEW dest, NEW service
    PROVE  FindMatchingPolicy(rules, source, dest, service)
              = FirstOf(rules, {i \in DOMAIN rules : Hit(rules[i], source, dest, service)})
  BY DEF FindMatchingPolicy, Hit

(* What the later of two policies is hit by, one that covers it is hit by. *)
LEMMA CoveringHits ==
    ASSUME NEW earlier, NEW later, NEW source, NEW dest, NEW service,
           IsEnabled(earlier), Covers(earlier, later), Hit(later, source, dest, service)
    PROVE  Hit(earlier, source, dest, service)
  <1>1. /\ FieldCovers(earlier.srcaddr, later.srcaddr)
        /\ FieldCovers(earlier.dstaddr, later.dstaddr)
        /\ FieldCovers(earlier.service, later.service)
    BY DEF Covers, MatchFields
  <1>. QED
    BY <1>1 DEF FieldCovers, Hit

(* find_path names no policy that the diagnosis finds fault with.          *)
LEMMA PathIsNotContradicted ==
    ASSUME RulesInv, NEW source, NEW dest, NEW service,
           FindMatchingPolicy(rules, source, dest, service) # None
    PROVE  DiagnosePolicy(FindMatchingPolicy(rules, source, dest, service).policyid, rules)
              \cap {"disabled", "shadowed", "denied_earlier"} = {}
  <1>. DEFINE n == Len(rules)
              Hits == {i \in DOMAIN rules : Hit(rules[i], source, dest, service)}
              m == Min(Hits)
              id == rules[m].policyid
  <1>1. n \in Nat /\ DOMAIN rules = 1..n
    BY DEF RulesInv
  <1>2. Hits \in SUBSET (1..n) /\ FindMatchingPolicy(rules, source, dest, service) = FirstOf(rules, Hits)
    BY <1>1, PathIsFirst
  <1>3. /\ m \in Hits /\ \A i \in Hits : m <= i
        /\ FindMatchingPolicy(rules, source, dest, service) = rules[m]
    <2>. HIDE DEF Hits
    <2>. QED
      BY <1>1, <1>2, First
  <1>. HIDE DEF m
  <1>4. m \in 1..n /\ m \in DOMAIN rules /\ Hit(rules[m], source, dest, service)
    BY <1>1, <1>3
  <1>5. ASSUME NEW i \in DOMAIN rules, i < m PROVE ~ Hit(rules[i], source, dest, service)
    <2>1. i \notin Hits
      <3>. HIDE DEF Hits
      <3>. QED
        BY <1>1, <1>3, <1>4, <1>5
    <2>. QED
      BY <2>1
  <1>6. \A i \in DOMAIN rules : rules[i].policyid = id => i = m
    BY <1>4 DEF RulesInv
  <1>7. FindById(id, rules) = rules[m]
    <2>1. {i \in DOMAIN rules : rules[i].policyid = id} = {m}
      BY <1>4, <1>6
    <2>2. Min({m}) = m
      <3>1. {m} \in SUBSET (1..n) /\ {m} # {}
        BY <1>4
      <3>2. Min({m}) \in {m}
        BY <1>1, <3>1, First
      <3>. QED
        BY <3>2
    <2>. QED
      BY <2>1, <2>2 DEF FindById, FirstOf
  <1>8. rules[m] # None
    BY <1>4, NoneAssumption DEF RulesInv
  <1>9. ~ (\E pair \in FindShadowed(rules) : pair[1] = id)
    <2>. SUFFICES ASSUME NEW pair \in FindShadowed(rules), pair[1] = id PROVE FALSE
      OBVIOUS
    <2>1. PICK i \in DOMAIN rules, j \in DOMAIN rules :
              /\ IsEnabled(rules[i]) /\ i < j /\ Covers(rules[i], rules[j])
              /\ pair = <<rules[j].policyid, rules[i].policyid>>
      BY DEF FindShadowed
    <2>2. j = m
      BY <2>1, <1>6
    <2>. QED
      BY <2>1, <2>2, <1>4, <1>5, CoveringHits
  <1>10. EarlierDenyCovering(id, rules) = None
    <2>. DEFINE before == {i \in DOMAIN rules : \A j \in 1..i : rules[j].policyid # id}
                denies(p) == IsEnabled(p) /\ p.action = "deny" /\ Covers(p, rules[m])
    <2>1. ASSUME NEW i \in before, denies(rules[i]) PROVE FALSE
      <3>1. i \in DOMAIN rules /\ ~ (m \in 1..i)
        BY <2>1
      <3>2. i < m
        BY <1>1, <1>4, <3>1
      <3>. QED
        BY <2>1, <3>1, <3>2, <1>4, <1>5, CoveringHits
    <2>2. {i \in before : denies(rules[i])} = {}
      BY <2>1
    <2>3. EarlierDenyCovering(id, rules) = FirstOf(rules, {i \in before : denies(rules[i])})
      BY <1>7 DEF EarlierDenyCovering
    <2>. HIDE DEF before, denies
    <2>. QED
      BY <2>2, <2>3 DEF FirstOf
  <1>11. IsEnabled(rules[m])
    BY <1>4 DEF Hit
  <1>. DEFINE found == [disabled |-> ~IsEnabled(rules[m]),
                        shadowed |-> \E pair \in FindShadowed(rules) : pair[1] = id,
                        schedule_restricted |-> rules[m].schedule # "always",
                        denied_earlier |-> EarlierDenyCovering(id, rules) # None]
              issues == {issue \in DOMAIN found : found[issue]}
  <1>12. DiagnosePolicy(id, rules) = IF issues = {} THEN {"no_obvious_issue"} ELSE issues
    BY <1>7, <1>8 DEF DiagnosePolicy
  <1>13. issues \cap {"disabled", "shadowed", "denied_earlier"} = {}
    <2>1. found["disabled"] = FALSE /\ found["shadowed"] = FALSE /\ found["denied_earlier"] = FALSE
      BY <1>9, <1>10, <1>11
    <2>. HIDE DEF found
    <2>. QED
      BY <2>1
  <1>14. DiagnosePolicy(id, rules) \cap {"disabled", "shadowed", "denied_earlier"} = {}
    <2>. HIDE DEF issues
    <2>. QED
      BY <1>12, <1>13
  <1>. QED
    BY <1>3, <1>14

(* Where names are all there is to know, it hits what matches.             *)
LEMMA PathDecides ==
    ASSUME NEW source, NEW dest, NEW service \in Services,
           \A p \in ToSet(rules) : IsEnabled(p) => Plain(p, source, dest),
           NEW packet, packet.src \in Addresses(source), packet.dst \in Addresses(dest),
           packet.service = service
    PROVE  FirstMatch(rules, DOMAIN rules, packet)
              = FindMatchingPolicy(rules, source, dest, service)
  <1>1. ASSUME NEW names, NEW name, NEW host, Apart(names, name), host \in Addresses(name)
        PROVE  Admits(names, host) <=> IsWildcard(names) \/ name \in names
    BY <1>1 DEF Apart, Admits
  <1>2. ASSUME NEW i \in DOMAIN rules
        PROVE  IsEnabled(rules[i]) /\ Matches(rules[i], packet) <=> Hit(rules[i], source, dest, service)
    <2>. DEFINE p == rules[i]
    <2>1. CASE ~ IsEnabled(p)
      BY <2>1 DEF Hit
    <2>2. CASE IsEnabled(p)
      <3>1. Plain(p, source, dest)
        BY <2>2 DEF ToSet
      <3>2. /\ Admits(p.srcaddr, packet.src) <=> IsWildcard(p.srcaddr) \/ source \in p.srcaddr
            /\ Admits(p.dstaddr, packet.dst) <=> IsWildcard(p.dstaddr) \/ dest \in p.dstaddr
        BY <3>1, <1>1 DEF Plain
      <3>3. service # None
        BY NoneAssumption, NamesAssumption
      <3>. QED
        BY <2>2, <3>1, <3>2, <3>3 DEF Plain, Matches, Hit
    <2>. QED
      BY <2>1, <2>2
  <1>3. {i \in DOMAIN rules : IsEnabled(rules[i]) /\ Matches(rules[i], packet)}
           = {i \in DOMAIN rules : Hit(rules[i], source, dest, service)}
    BY <1>2
  <1>. QED
    BY <1>3, PathIsFirst DEF FirstMatch

LEMMA PathStep == IInv => PathAnswersTrue
  BY PathIsNotContradicted, PathDecides DEF PathAnswersTrue, IInv

(* find_path tells the truth, and explain_policy_failure does not deny it. *)
THEOREM PathIsTrue == Spec => []PathAnswersTrue
  BY Invariance, PathStep, PTL

-----------------------------------------------------------------------------
(* The addresses of a subnet are those from its network's on.              *)
LEMMA SubnetAddresses ==
    ASSUME NEW a \in Nat, NEW size \in Nat \ {0}
    PROVE  /\ a - (a % size) \in Nat
           /\ {h \in 0..(a + size) : h \div size = a \div size}
                 = (a - (a % size))..(a - (a % size) + size - 1)
  <1>. DEFINE q == a \div size
  <1>1. /\ q \in Nat /\ a % size \in 0..(size - 1)
        /\ a = size * q + (a % size)
    OBVIOUS
  <1>2. ASSUME NEW h \in 0..(a + size)
        PROVE  /\ h \div size \in Nat /\ h % size \in 0..(size - 1)
               /\ h = size * (h \div size) + (h % size)
    BY <1>2
  <1>3. ASSUME NEW h \in 0..(a + size), h \div size = q
        PROVE  h \in (size * q)..(size * q + size - 1)
    BY <1>1, <1>2, <1>3
  <1>4. ASSUME NEW h \in (size * q)..(size * q + size - 1)
        PROVE  h \in 0..(a + size) /\ h \div size = q
    BY <1>1, <1>4
  <1>. QED
    BY <1>1, <1>3, <1>4

(* What _to_range makes of an object.                                      *)
LEMMA Ranges ==
    ASSUME ObjectsInv, NEW i \in DOMAIN objects
    PROVE  /\ objects[i].type = "fqdn" => ToRange(objects[i]) = None
           /\ objects[i].type # "fqdn" =>
                /\ ToRange(objects[i]) \in Nat \X Nat
                /\ ToRange(objects[i])[1] <= ToRange(objects[i])[2]
                /\ Addresses(objects[i].name) = ToRange(objects[i])[1]..ToRange(objects[i])[2]
  <1>. DEFINE o == objects[i]
  <1>1. o \in ObjectType /\ o.name \notin Vips
    BY DEF ObjectsInv, ObjectType
  <1>2. (CHOOSE x \in ToSet(objects) : x.name = o.name) = o
    <2>1. o \in ToSet(objects) /\ \A x \in ToSet(objects) : x.name = o.name => x = o
      BY DEF ObjectsInv, ToSet
    <2>. HIDE DEF o
    <2>. QED
      BY <2>1
  <1>. HIDE DEF o
  <1>3. CASE o.type = "fqdn"
    BY <1>3 DEF ToRange, o
  <1>4. CASE o.type = "iprange"
    <2>1. o.start \in Nat /\ o.end \in Nat /\ o.start <= o.end
      BY <1>1, <1>4 DEF ObjectType
    <2>2. ToRange(o) = <<o.start, o.end>>
      BY <1>4 DEF ToRange
    <2>3. Addresses(o.name) = o.start..o.end
      BY <1>1, <1>2, <1>4 DEF Addresses
    <2>. QED
      BY <1>4, <2>1, <2>2, <2>3 DEF o
  <1>5. CASE o.type = "ipmask"
    <2>. DEFINE network == o.address - (o.address % o.size)
    <2>1. o.address \in Nat /\ o.size \in Nat \ {0}
      BY <1>1, <1>5 DEF ObjectType
    <2>2. ToRange(o) = <<network, network + o.size - 1>>
      BY <1>5 DEF ToRange
    <2>3. Addresses(o.name) = {h \in 0..(o.address + o.size) :
                                  h \div o.size = o.address \div o.size}
      BY <1>1, <1>2, <1>5 DEF Addresses
    <2>4. network \in Nat /\ Addresses(o.name) = network..(network + o.size - 1)
      BY <2>1, <2>3, SubnetAddresses
    <2>. HIDE DEF network
    <2>5. network + o.size - 1 \in Nat /\ network <= network + o.size - 1
      BY <2>1, <2>4
    <2>. QED
      BY <1>5, <2>2, <2>4, <2>5 DEF o
  <1>6. o.type \in {"ipmask", "iprange", "fqdn"}
    BY <1>1 DEF ObjectType
  <1>. QED
    BY <1>3, <1>4, <1>5, <1>6 DEF o

(* How two ranges stand to each other is how their addresses do.           *)
LEMMA Relations ==
    ASSUME NEW a \in Nat \X Nat, NEW b \in Nat \X Nat, a[1] <= a[2], b[1] <= b[2]
    PROVE  /\ Relationship(a, b) # "none" <=> (a[1]..a[2]) \cap (b[1]..b[2]) # {}
           /\ Relationship(a, b) # "none" =>
                  Relationship(a, b) = RelationOf(a[1]..a[2], b[1]..b[2])
  <1>. DEFINE A == a[1]..a[2]
              B == b[1]..b[2]
              apart == a[1] > b[2] \/ b[1] > a[2]
  <1>1. a[1] \in A /\ a[2] \in A /\ b[1] \in B /\ b[2] \in B
    OBVIOUS
  <1>2. apart <=> A \cap B = {}
    <2>1. CASE apart
      BY <2>1
    <2>2. CASE ~ apart
      <3>1. a[1] \in A \cap B \/ b[1] \in A \cap B
        BY <2>2
      <3>. QED
        BY <2>2, <3>1
    <2>. QED
      BY <2>1, <2>2
  <1>3. a = b <=> A = B
    <2>1. ASSUME A = B PROVE a[1] = b[1] /\ a[2] = b[2]
      BY <2>1, <1>1
    <2>. QED
      BY <2>1
  <1>4. a[1] <= b[1] /\ a[2] >= b[2] <=> B \subseteq A
    BY <1>1
  <1>5. b[1] <= a[1] /\ b[2] >= a[2] <=> A \subseteq B
    BY <1>1
  <1>6. Relationship(a, b) # "none" <=> ~ apart
    BY DEF Relationship
  <1>. HIDE DEF A, B
  <1>7. ~ apart => Relationship(a, b) = RelationOf(A, B)
    BY <1>3, <1>4, <1>5 DEF Relationship, RelationOf
  <1>. QED
    BY <1>2, <1>6, <1>7 DEF A, B

LEMMA OverlapStep == ObjectsInv => OverlapIsExact
  <1>. SUFFICES ASSUME ObjectsInv PROVE OverlapIsExact
    OBVIOUS
  <1>. DEFINE parsed == {i \in DOMAIN objects : ToRange(objects[i]) # None}
              of(i) == Addresses(objects[i].name)
              related(i, j) == Relationship(ToRange(objects[i]), ToRange(objects[j]))
  <1>1. parsed = Static
    BY Ranges, NoneAssumption DEF Static
  <1>2. ASSUME NEW i \in Static, NEW j \in Static
        PROVE  /\ related(i, j) # "none" <=> of(i) \cap of(j) # {}
               /\ related(i, j) # "none" => related(i, j) = RelationOf(of(i), of(j))
    <2>1. /\ ToRange(objects[i]) \in Nat \X Nat /\ ToRange(objects[j]) \in Nat \X Nat
          /\ ToRange(objects[i])[1] <= ToRange(objects[i])[2]
          /\ ToRange(objects[j])[1] <= ToRange(objects[j])[2]
          /\ of(i) = ToRange(objects[i])[1]..ToRange(objects[i])[2]
          /\ of(j) = ToRange(objects[j])[1]..ToRange(objects[j])[2]
      BY Ranges DEF Static
    <2>. QED
      BY <2>1, Relations
  <1>. DEFINE found == {q \in parsed \X parsed : q[1] < q[2] /\ related(q[1], q[2]) # "none"}
              real == {q \in Static \X Static : q[1] < q[2] /\ of(q[1]) \cap of(q[2]) # {}}
              told(p) == [object_a |-> objects[p[1]].name, object_b |-> objects[p[2]].name,
                          relationship |-> related(p[1], p[2])]
              true(p) == [object_a |-> objects[p[1]].name, object_b |-> objects[p[2]].name,
                          relationship |-> RelationOf(of(p[1]), of(p[2]))]
  <1>3. FindOverlapping(objects) = {told(p) : p \in found}
    BY DEF FindOverlapping
  <1>. HIDE DEF parsed, related, of
  <1>4. found = real /\ \A p \in found : told(p) = true(p)
    BY <1>1, <1>2
  <1>5. {told(p) : p \in found} = {true(p) : p \in real}
    <2>. HIDE DEF found, real, told, true
    <2>. QED
      BY <1>4
  <1>. QED
    BY <1>3, <1>5 DEF OverlapIsExact, of

(* Every pair of objects that share an address is reported, as what it is, *)
(* and no other.                                                           *)
THEOREM OverlapsAreExact == Spec => []OverlapIsExact
  <1>1. IInv => OverlapIsExact
    BY OverlapStep DEF IInv
  <1>. QED
    BY <1>1, Invariance, PTL

-----------------------------------------------------------------------------
(* compute_diff is complete: carried out, it gives what was compared with. *)
LEMMA DiffRestores ==
    ASSUME NEW x, NEW y
    PROVE  Bare(Patched(x, ComputeDiff(x, y))) = Bare(y)
  <1>. DEFINE changed == ComputeDiff(x, y)
              p == Patched(x, changed)
  <1>1. /\ DOMAIN changed = {f \in DOMAIN x \cup DOMAIN y : Get(x, f) # Get(y, f)}
        /\ \A f \in DOMAIN changed : changed[f].after = Get(y, f)
    BY DEF ComputeDiff
  <1>. HIDE DEF changed
  <1>2. /\ DOMAIN p = DOMAIN x \cup DOMAIN changed
        /\ \A f \in DOMAIN p :
              p[f] = IF f \in DOMAIN changed THEN changed[f].after ELSE x[f]
    BY DEF Patched
  <1>. HIDE DEF p
  <1>3. ASSUME NEW f \in DOMAIN p, p[f] # None
        PROVE  f \in DOMAIN y /\ y[f] = p[f]
    <2>1. p[f] = Get(y, f)
      BY <1>1, <1>2, <1>3 DEF Get
    <2>. QED
      BY <2>1, <1>3 DEF Get
  <1>4. ASSUME NEW f \in DOMAIN y, y[f] # None
        PROVE  f \in DOMAIN p /\ p[f] = y[f]
    <2>1. CASE f \in DOMAIN changed
      BY <2>1, <1>1, <1>2 DEF Get
    <2>2. CASE f \notin DOMAIN changed
      <3>1. Get(x, f) = y[f]
        BY <2>2, <1>1 DEF Get
      <3>2. f \in DOMAIN x /\ x[f] = y[f]
        BY <3>1, <1>4 DEF Get
      <3>. QED
        BY <2>2, <3>2, <1>2
    <2>. QED
      BY <2>1, <2>2
  <1>5. Bare(p) = Bare(y)
    BY <1>3, <1>4 DEF Bare
  <1>. QED
    BY <1>5 DEF p, changed

(* A list in which every item has a key of its own.                        *)
Keyed(resourceType, items) ==
    /\ DOMAIN items \subseteq Int
    /\ \A i, j \in DOMAIN items :
          KeyFor(resourceType, items[i]) = KeyFor(resourceType, items[j]) => i = j

LEMMA KeyedRebuilds ==
    ASSUME NEW type, NEW a, NEW b, Keyed(type, a), Keyed(type, b)
    PROVE  Rebuilds(type, a, b)
  <1>. DEFINE key(item) == KeyFor(type, item)
              keys(items) == {key(item) : item \in ToSet(items)}
              at(items, k) == items[CHOOSE i \in DOMAIN items :
                              /\ KeyFor(type, items[i]) = k
                              /\ \A j \in DOMAIN items : KeyFor(type, items[j]) = k => j <= i]
              report == CompareResourceLists(type, a, b)
              rebuilt(item) == IF key(item) \in report.identical THEN item
                               ELSE Patched(item, report.different[key(item)])
              common == {item \in ToSet(a) : key(item) \notin report.only_in_a}
              theirs == {item \in ToSet(b) : key(item) \notin report.only_in_b}
  <1>1. ASSUME NEW items, Keyed(type, items), NEW item \in ToSet(items)
        PROVE  at(items, key(item)) = item
    <2>1. PICK i \in DOMAIN items : items[i] = item
      BY DEF ToSet
    <2>2. \A j \in DOMAIN items : KeyFor(type, items[j]) = key(item) => j = i
      BY <1>1, <2>1 DEF Keyed
    <2>3. i <= i
      BY <1>1 DEF Keyed
    <2>. QED
      BY <2>1, <2>2, <2>3
  <1>2. /\ report.only_in_a = keys(a) \ keys(b) /\ report.only_in_b = keys(b) \ keys(a)
        /\ report.identical = {k \in keys(a) \cap keys(b) : at(a, k) = at(b, k)}
        /\ \A k \in keys(a) \cap keys(b) :
              at(a, k) # at(b, k) => report.different[k] = ComputeDiff(at(a, k), at(b, k))
    BY DEF CompareResourceLists
  <1>. HIDE DEF at, report, key
  <1>3. ASSUME NEW x \in ToSet(a), NEW y \in ToSet(b), key(x) = key(y)
        PROVE  Bare(rebuilt(x)) = Bare(y)
    <2>1. at(a, key(x)) = x /\ at(b, key(x)) = y
      BY <1>1, <1>3
    <2>2. key(x) \in keys(a) \cap keys(b)
      BY <1>3
    <2>3. CASE x = y
      BY <2>1, <2>2, <2>3, <1>2
    <2>4. CASE x # y
      <3>1. rebuilt(x) = Patched(x, ComputeDiff(x, y))
        BY <2>1, <2>2, <2>4, <1>2
      <3>. QED
        BY <3>1, DiffRestores
    <2>. QED
      BY <2>3, <2>4
  <1>4. ASSUME NEW x \in common
        PROVE  \E y \in theirs : Bare(rebuilt(x)) = Bare(y)
    <2>1. PICK y \in ToSet(b) : key(x) = key(y)
      BY <1>2, <1>4
    <2>2. y \in theirs
      BY <1>2, <1>4, <2>1
    <2>. QED
      BY <1>3, <1>4, <2>1, <2>2
  <1>5. ASSUME NEW y \in theirs
        PROVE  \E x \in common : Bare(rebuilt(x)) = Bare(y)
    <2>1. PICK x \in ToSet(a) : key(x) = key(y)
      BY <1>2, <1>5
    <2>2. x \in common
      BY <1>2, <1>5, <2>1
    <2>. QED
      BY <1>3, <1>5, <2>1, <2>2
  <1>6. {Bare(rebuilt(item)) : item \in common} = {Bare(item) : item \in theirs}
    <2>. HIDE DEF rebuilt, common, theirs
    <2>. QED
      BY <1>4, <1>5
  <1>. QED
    BY <1>6 DEF Rebuilds, report, key

LEMMA CompareStep == IInv => CompareRebuilds
  <1>. SUFFICES ASSUME IInv PROVE CompareRebuilds
    OBVIOUS
  <1>. DEFINE first == [i \in DOMAIN Baseline |-> Numbered(i, Baseline[i])]
  <1>1. \A i \in DOMAIN Baseline : i \in Nat \ {0} /\ Baseline[i] \in PolicyType
    BY PoliciesAssumption
  <1>2. \A i \in DOMAIN first : first[i] \in RuleType /\ first[i].policyid = i
    BY <1>1, NumberedRule
  <1>3. \A rule \in RuleType : KeyFor("firewall_policy", rule) = rule.policyid
    BY DEF RuleType, KeyFor, Get
  <1>4. \A object \in ObjectType : KeyFor("address_object", object) = object.name
    BY DEF ObjectType, KeyFor, Get
  <1>5. DOMAIN first \subseteq Int
    BY <1>1
  <1>. HIDE DEF first
  <1>6. Keyed("firewall_policy", first)
    BY <1>2, <1>3, <1>5 DEF Keyed
  <1>7. Keyed("firewall_policy", rules)
    BY <1>3 DEF Keyed, IInv, RulesInv
  <1>8. Keyed("address_object", objects)
    BY <1>4 DEF Keyed, IInv, ObjectsInv
  <1>9. Keyed("address_object", FirstObjects)
    BY <1>4, ObjectsAssumption DEF Keyed
  <1>. QED
    BY <1>6, <1>7, <1>8, <1>9, KeyedRebuilds DEF CompareRebuilds, first

(* Nothing that differs between two devices goes unreported.               *)
THEOREM ComparisonsAreComplete == Spec => []CompareRebuilds
  BY Invariance, CompareStep, PTL

-----------------------------------------------------------------------------
(* The score's arithmetic.                                                 *)
LEMMA OfTwo ==
    ASSUME NEW x \in Int, NEW y \in Int
    PROVE  /\ Min({x, y}) = IF x <= y THEN x ELSE y
           /\ Max({x, y}) = IF x >= y THEN x ELSE y
  <1>1. \E m \in {x, y} : \A z \in {x, y} : m <= z
    OBVIOUS
  <1>2. \E m \in {x, y} : \A z \in {x, y} : m >= z
    OBVIOUS
  <1>3. Min({x, y}) \in {x, y} /\ \A z \in {x, y} : Min({x, y}) <= z
    BY <1>1 DEF Min
  <1>4. Max({x, y}) \in {x, y} /\ \A z \in {x, y} : Max({x, y}) >= z
    BY <1>2 DEF Max
  <1>. QED
    BY <1>3, <1>4

(* A deduction stays within its cap and grows with what is counted.        *)
LEMMA Deductions ==
    ASSUME NEW perItem \in {15, 5, 3, 1}, NEW cap \in Nat, NEW few \in Nat, NEW many \in Nat,
           few <= many
    PROVE  /\ Deduct(few, perItem, cap) \in 0..cap
           /\ Deduct(many, perItem, cap) \in 0..cap
           /\ Deduct(few, perItem, cap) <= Deduct(many, perItem, cap)
           /\ perItem = 1 => Deduct(many, perItem, cap) - Deduct(few, perItem, cap) <= many - few
  <1>1. /\ few * perItem \in Nat /\ many * perItem \in Nat /\ few * perItem <= many * perItem
        /\ perItem = 1 => many * perItem - few * perItem = many - few
    OBVIOUS
  <1>. DEFINE x == few * perItem
              y == many * perItem
  <1>2. /\ Deduct(few, perItem, cap) = IF x <= cap THEN x ELSE cap
        /\ Deduct(many, perItem, cap) = IF y <= cap THEN y ELSE cap
    BY <1>1, OfTwo DEF Deduct
  <1>. HIDE DEF x, y
  <1>3. x \in Nat /\ y \in Nat /\ x <= y /\ (perItem = 1 => y - x = many - few)
    BY <1>1 DEF x, y
  <1>. QED
    BY <1>2, <1>3

IssuesType == [high : Nat, medium : Nat, low : Nat]

LEMMA Points ==
    ASSUME NEW few \in IssuesType, NEW many \in IssuesType
    PROVE  /\ IssuePoints(few) \in 0..15
           /\ few.high <= many.high /\ few.medium <= many.medium /\ few.low <= many.low =>
                  IssuePoints(few) <= IssuePoints(many)
  <1>. DEFINE of(issues) == issues.high * 5 + issues.medium * 2 + issues.low
  <1>1. of(few) \in Nat /\ of(many) \in Nat
    BY DEF IssuesType
  <1>2. few.high <= many.high /\ few.medium <= many.medium /\ few.low <= many.low =>
            of(few) <= of(many)
    BY DEF IssuesType
  <1>3. /\ IssuePoints(few) = Min({of(few), 15})
        /\ IssuePoints(many) = Min({of(many), 15})
    BY DEF IssuePoints
  <1>. HIDE DEF of
  <1>. QED
    BY <1>1, <1>2, <1>3, OfTwo

(* It is within 0..100, more findings do not raise it, fewer unused        *)
(* objects raise it by one each at most, and the settings by 15 at most.   *)
LEMMA ScoreArithmetic ==
    ASSUME NEW a \in Nat, NEW s \in Nat, NEW d \in Nat, NEW u \in Nat, NEW p \in IssuesType,
           NEW y \in IssuesType,
           NEW a2 \in Nat, NEW s2 \in Nat, NEW d2 \in Nat, NEW u2 \in Nat, NEW p2 \in IssuesType,
           NEW y2 \in IssuesType
    PROVE  /\ ScoreSecurity(a, s, d, u, p, y) \in 0..100
           /\ /\ a <= a2 /\ s <= s2 /\ d <= d2 /\ u2 <= u
              /\ p.high <= p2.high /\ p.medium <= p2.medium /\ p.low <= p2.low
              => ScoreSecurity(a2, s2, d2, u2, p2, y) - ScoreSecurity(a, s, d, u, p, y) <= u - u2
           /\ ScoreSecurity(a, s, d, u, p, y2) - ScoreSecurity(a, s, d, u, p, y) \in -15..15
  <1>1. ASSUME NEW n \in Nat
        PROVE  /\ Deduct(n, 15, 40) \in 0..40 /\ Deduct(n, 5, 20) \in 0..20
               /\ Deduct(n, 3, 15) \in 0..15 /\ Deduct(n, 1, 10) \in 0..10
    <2>1. ASSUME NEW perItem \in {15, 5, 3, 1}, NEW cap \in Nat
          PROVE  Deduct(n, perItem, cap) \in 0..cap
      <3>1. n <= n
        OBVIOUS
      <3>. QED
        BY <3>1, Deductions
    <2>. QED
      BY <2>1
  <1>. DEFINE da == Deduct(a, 15, 40)
              ds == Deduct(s, 5, 20)
              dd == Deduct(d, 3, 15)
              du == Deduct(u, 1, 10)
              ip == IssuePoints(p)
              iy == IssuePoints(y)
              da2 == Deduct(a2, 15, 40)
              ds2 == Deduct(s2, 5, 20)
              dd2 == Deduct(d2, 3, 15)
              du2 == Deduct(u2, 1, 10)
              ip2 == IssuePoints(p2)
              iy2 == IssuePoints(y2)
  <1>2. /\ da \in 0..40 /\ ds \in 0..20 /\ dd \in 0..15 /\ du \in 0..10
        /\ da2 \in 0..40 /\ ds2 \in 0..20 /\ dd2 \in 0..15 /\ du2 \in 0..10
    BY <1>1
  <1>3. ip \in 0..15 /\ iy \in 0..15 /\ ip2 \in 0..15 /\ iy2 \in 0..15
    BY Points
  <1>4. /\ a <= a2 => da <= da2
        /\ s <= s2 => ds <= ds2
        /\ d <= d2 => dd <= dd2
        /\ u2 <= u => du - du2 <= u - u2
        /\ p.high <= p2.high /\ p.medium <= p2.medium /\ p.low <= p2.low => ip <= ip2
    BY Deductions, Points
  <1>. DEFINE r == 100 - da - ds - dd - du - ip - iy
              r2 == 100 - da2 - ds2 - dd2 - du2 - ip2 - iy
              ry == 100 - da - ds - dd - du - ip - iy2
  <1>5. /\ ScoreSecurity(a, s, d, u, p, y) = Max({0, r})
        /\ ScoreSecurity(a2, s2, d2, u2, p2, y) = Max({0, r2})
        /\ ScoreSecurity(a, s, d, u, p, y2) = Max({0, ry})
    BY DEF ScoreSecurity
  <1>. HIDE DEF da, ds, dd, du, ip, iy, da2, ds2, dd2, du2, ip2, iy2
  <1>6. /\ ScoreSecurity(a, s, d, u, p, y) = IF 0 >= r THEN 0 ELSE r
        /\ ScoreSecurity(a2, s2, d2, u2, p2, y) = IF 0 >= r2 THEN 0 ELSE r2
        /\ ScoreSecurity(a, s, d, u, p, y2) = IF 0 >= ry THEN 0 ELSE ry
    <2>1. r \in Int /\ r2 \in Int /\ ry \in Int
      BY <1>2, <1>3
    <2>. HIDE DEF r, r2, ry
    <2>. QED
      BY <1>5, <2>1, OfTwo
  <1>7. ScoreSecurity(a, s, d, u, p, y) \in 0..100
    BY <1>2, <1>3, <1>6
  <1>8. ASSUME a <= a2, s <= s2, d <= d2, u2 <= u,
               p.high <= p2.high, p.medium <= p2.medium, p.low <= p2.low
        PROVE  ScoreSecurity(a2, s2, d2, u2, p2, y) - ScoreSecurity(a, s, d, u, p, y) <= u - u2
    <2>1. da <= da2 /\ ds <= ds2 /\ dd <= dd2 /\ du - du2 <= u - u2 /\ ip <= ip2 /\ 0 <= u - u2
      BY <1>4, <1>8
    <2>. QED
      BY <1>2, <1>3, <1>6, <2>1
  <1>9. ScoreSecurity(a, s, d, u, p, y2) - ScoreSecurity(a, s, d, u, p, y) \in -15..15
    BY <1>2, <1>3, <1>6
  <1>. QED
    BY <1>7, <1>8, <1>9

-----------------------------------------------------------------------------
(* What is counted is finite, ...                                          *)
LEMMA Finite ==
    ASSUME NEW policies \in Seq(RuleType)
    PROVE  /\ IsFiniteSet(ToSet(policies))
           /\ IsFiniteSet(FindAnyAny(policies))
           /\ IsFiniteSet(FindShadowed(policies))
           /\ IsFiniteSet(FindDuplicates(policies))
  <1>. DEFINE n == Len(policies)
              Ids == {policies[i].policyid : i \in 1..n}
  <1>1. n \in Nat /\ DOMAIN policies = 1..n /\ IsFiniteSet(1..n)
    <2>1. n \in Nat /\ DOMAIN policies = 1..n
      OBVIOUS
    <2>. QED
      BY <2>1, FS_Interval
  <1>2. IsFiniteSet(ToSet(policies))
    <2>1. [i \in 1..n |-> policies[i]] \in Surjection(1..n, ToSet(policies))
      BY <1>1 DEF Surjection, ToSet
    <2>. QED
      BY <1>1, <2>1, FS_Surjection
  <1>3. IsFiniteSet(Ids)
    <2>1. [i \in 1..n |-> policies[i].policyid] \in Surjection(1..n, Ids)
      BY DEF Surjection
    <2>. QED
      BY <1>1, <2>1, FS_Surjection
  <1>4. FindAnyAny(policies) \in SUBSET ToSet(policies)
    BY DEF FindAnyAny
  <1>5. FindShadowed(policies) \in SUBSET (Ids \X Ids)
    BY <1>1 DEF FindShadowed
  <1>6. IsFiniteSet(FindDuplicates(policies))
    <2>. DEFINE key(p) == [f \in MatchFields \cup {"action"} |-> p[f]]
                group(p) == {q.policyid : q \in {r \in ToSet(policies) : key(r) = key(p)}}
                groups == {group(p) : p \in ToSet(policies)}
    <2>1. FindDuplicates(policies) = {g \in groups : Cardinality(g) > 1}
      BY DEF FindDuplicates
    <2>. HIDE DEF group
    <2>2. [p \in ToSet(policies) |-> group(p)] \in Surjection(ToSet(policies), groups)
      BY DEF Surjection
    <2>3. IsFiniteSet(groups)
      BY <1>2, <2>2, FS_Surjection
    <2>4. FindDuplicates(policies) \in SUBSET groups
      BY <2>1
    <2>. QED
      BY <2>3, <2>4, FS_Subset
  <1>7. IsFiniteSet(Ids \X Ids)
    BY <1>3, FS_Product
  <1>. QED
    BY <1>2, <1>4, <1>5, <1>6, <1>7, FS_Subset

LEMMA PracticesType ==
    ASSUME NEW policies \in Seq(RuleType)
    PROVE  CheckBestPractices(policies) \in IssuesType
  <1>. DEFINE unlogged == {p \in ToSet(policies) : p.action = "accept" /\ ~p.logged}
              uncommented == {p \in ToSet(policies) : ~p.commented}
              disabled == {p \in ToSet(policies) : ~IsEnabled(p)}
  <1>1. /\ unlogged \in SUBSET ToSet(policies) /\ uncommented \in SUBSET ToSet(policies)
        /\ disabled \in SUBSET ToSet(policies)
    OBVIOUS
  <1>2. CheckBestPractices(policies) =
          [high |-> 0, medium |-> Cardinality(unlogged),
           low |-> Cardinality(uncommented) + Cardinality(disabled)]
    BY DEF CheckBestPractices
  <1>. HIDE DEF unlogged, uncommented, disabled
  <1>3. IsFiniteSet(unlogged) /\ IsFiniteSet(uncommented) /\ IsFiniteSet(disabled)
    BY <1>1, Finite, FS_Subset
  <1>4. /\ Cardinality(unlogged) \in Nat /\ Cardinality(uncommented) \in Nat
        /\ Cardinality(disabled) \in Nat
    BY <1>3, FS_CardinalityType
  <1>. QED
    BY <1>2, <1>4 DEF IssuesType

LEMMA SystemType ==
    ASSUME NEW bundle \in SettingsType
    PROVE  CheckSystemConfig(bundle) \in IssuesType
  <1>1. ASSUME NEW x, NEW y, NEW z, NEW S \in SUBSET {x, y, z}
        PROVE  Cardinality(S) \in Nat
    <2>1. IsFiniteSet({x} \cup {y} \cup {z})
      BY FS_Singleton, FS_AddElement
    <2>2. S \in SUBSET ({x} \cup {y} \cup {z})
      OBVIOUS
    <2>. QED
      BY <2>1, <2>2, FS_Subset, FS_CardinalityType
  <1>. DEFINE medium == {s \in {"dns", "ntp", "syslog"} : ~bundle[s]}
              low == {s \in {"admins", "ha", "hostname"} : ~bundle[s]}
  <1>2. medium \in SUBSET {"dns", "ntp", "syslog"} /\ low \in SUBSET {"admins", "ha", "hostname"}
    OBVIOUS
  <1>3. CheckSystemConfig(bundle) =
          [high |-> IF bundle.snmp THEN bundle.weakCommunities ELSE 0,
           medium |-> Cardinality(medium), low |-> Cardinality(low)]
    BY DEF CheckSystemConfig
  <1>. HIDE DEF medium, low
  <1>4. Cardinality(medium) \in Nat /\ Cardinality(low) \in Nat
    BY <1>1, <1>2
  <1>5. (IF bundle.snmp THEN bundle.weakCommunities ELSE 0) \in Nat
    BY DEF SettingsType
  <1>. QED
    BY <1>3, <1>4, <1>5 DEF IssuesType

(* ... and a longer table has no less to count and no more unused objects. *)
LEMMA Larger ==
    ASSUME NEW S, NEW T, IsFiniteSet(T), S \subseteq T
    PROVE  Cardinality(S) \in Nat /\ Cardinality(T) \in Nat /\ Cardinality(S) <= Cardinality(T)
  BY FS_Subset, FS_CardinalityType

(* more is policies and one policy or more behind them.                    *)
Extends(more, policies) ==
    /\ policies \in Seq(RuleType) /\ more \in Seq(RuleType)
    /\ \A i, j \in DOMAIN more : more[i].policyid = more[j].policyid => i = j
    /\ DOMAIN policies \subseteq DOMAIN more
    /\ \A i \in DOMAIN policies : more[i] = policies[i]

LEMMA MoreFound ==
    ASSUME NEW policies, NEW more, Extends(more, policies)
    PROVE  /\ ToSet(policies) \subseteq ToSet(more)
           /\ FindAnyAny(policies) \subseteq FindAnyAny(more)
           /\ FindShadowed(policies) \subseteq FindShadowed(more)
  <1>1. ToSet(policies) \subseteq ToSet(more)
    BY DEF Extends, ToSet
  <1>2. FindAnyAny(policies) \subseteq FindAnyAny(more)
    BY <1>1 DEF FindAnyAny
  <1>3. FindShadowed(policies) \subseteq FindShadowed(more)
    BY DEF FindShadowed, Extends
  <1>. QED
    BY <1>1, <1>2, <1>3

(* Groups of duplicates grow and never become one.                         *)
LEMMA MoreDuplicates ==
    ASSUME NEW policies, NEW more, Extends(more, policies)
    PROVE  Cardinality(FindDuplicates(policies)) <= Cardinality(FindDuplicates(more))
  <1>. DEFINE key(p) == [f \in MatchFields \cup {"action"} |-> p[f]]
              group(t, p) == {q.policyid : q \in {r \in ToSet(t) : key(r) = key(p)}}
              into == [g \in FindDuplicates(policies) |->
                          CHOOSE h \in FindDuplicates(more) : g \subseteq h]
  <1>1. FindDuplicates(policies)
           = {g \in {group(policies, p) : p \in ToSet(policies)} : Cardinality(g) > 1}
    BY DEF FindDuplicates
  <1>2. FindDuplicates(more) = {g \in {group(more, p) : p \in ToSet(more)} : Cardinality(g) > 1}
    BY DEF FindDuplicates
  <1>3. /\ ToSet(policies) \subseteq ToSet(more)
        /\ \A p, q \in ToSet(more) : p.policyid = q.policyid => p = q
    BY DEF Extends, ToSet
  <1>4. IsFiniteSet(ToSet(more)) /\ IsFiniteSet(FindDuplicates(more))
    BY Finite DEF Extends
  <1>. HIDE DEF key
  <1>5. ASSUME NEW g \in FindDuplicates(policies)
        PROVE  \E h \in FindDuplicates(more) : g \subseteq h
    <2>1. PICK p \in ToSet(policies) : g = group(policies, p) /\ Cardinality(g) > 1
      BY <1>1
    <2>2. g \subseteq group(more, p) /\ p \in ToSet(more)
      BY <2>1, <1>3
    <2>3. IsFiniteSet(group(more, p))
      <3>. DEFINE like == {r \in ToSet(more) : key(r) = key(p)}
      <3>1. IsFiniteSet(like)
        BY <1>4, FS_Subset
      <3>2. [r \in like |-> r.policyid] \in Surjection(like, group(more, p))
        BY DEF Surjection
      <3>. QED
        BY <3>1, <3>2, FS_Surjection
    <2>4. Cardinality(group(more, p)) > 1
      <3>. DEFINE h == group(more, p)
      <3>. HIDE DEF h
      <3>1. Cardinality(g) \in Nat /\ Cardinality(h) \in Nat /\ Cardinality(g) <= Cardinality(h)
        BY <2>2, <2>3, Larger DEF h
      <3>2. Cardinality(h) > 1
        BY <3>1, <2>1
      <3>. QED
        BY <3>2 DEF h
    <2>. QED
      BY <2>2, <2>4, <1>2
  <1>6. ASSUME NEW g1 \in FindDuplicates(policies), NEW g2 \in FindDuplicates(policies),
               NEW h \in FindDuplicates(more), g1 \subseteq h, g2 \subseteq h
        PROVE  g1 = g2
    <2>1. PICK p1 \in ToSet(policies) : g1 = group(policies, p1)
      BY <1>1
    <2>2. PICK p2 \in ToSet(policies) : g2 = group(policies, p2)
      BY <1>1
    <2>3. PICK p \in ToSet(more) : h = group(more, p)
      BY <1>2
    <2>4. \A q \in ToSet(more) : q.policyid \in h => key(q) = key(p)
      BY <2>3, <1>3
    <2>5. p1.policyid \in h /\ p2.policyid \in h
      BY <2>1, <2>2, <1>6
    <2>6. key(p1) = key(p2)
      BY <2>4, <2>5, <1>3
    <2>. QED
      BY <2>1, <2>2, <2>6
  <1>7. into \in Injection(FindDuplicates(policies), FindDuplicates(more))
    <2>1. \A g \in FindDuplicates(policies) :
              into[g] \in FindDuplicates(more) /\ g \subseteq into[g]
      BY <1>5
    <2>2. DOMAIN into = FindDuplicates(policies) /\ into = [g \in DOMAIN into |-> into[g]]
      OBVIOUS
    <2>. HIDE DEF into
    <2>3. into \in [FindDuplicates(policies) -> FindDuplicates(more)]
      BY <2>1, <2>2
    <2>4. ASSUME NEW g1 \in FindDuplicates(policies), NEW g2 \in FindDuplicates(policies),
                 into[g1] = into[g2]
          PROVE  g1 = g2
      BY <1>6, <2>1, <2>4
    <2>. QED
      BY <2>3, <2>4 DEF Injection, IsInjective
  <1>. HIDE DEF into
  <1>. QED
    BY <1>4, <1>7, FS_Injection

LEMMA MorePractices ==
    ASSUME NEW policies, NEW more, Extends(more, policies)
    PROVE  /\ CheckBestPractices(policies).high <= CheckBestPractices(more).high
           /\ CheckBestPractices(policies).medium <= CheckBestPractices(more).medium
           /\ CheckBestPractices(policies).low <= CheckBestPractices(more).low
  <1>. DEFINE unlogged(t) == {p \in ToSet(t) : p.action = "accept" /\ ~p.logged}
              uncommented(t) == {p \in ToSet(t) : ~p.commented}
              disabled(t) == {p \in ToSet(t) : ~IsEnabled(p)}
  <1>1. /\ unlogged(policies) \subseteq unlogged(more)
        /\ uncommented(policies) \subseteq uncommented(more)
        /\ disabled(policies) \subseteq disabled(more)
    BY MoreFound
  <1>2. IsFiniteSet(ToSet(more))
    BY Finite DEF Extends
  <1>3. /\ unlogged(more) \in SUBSET ToSet(more) /\ uncommented(more) \in SUBSET ToSet(more)
        /\ disabled(more) \in SUBSET ToSet(more)
    OBVIOUS
  <1>4. \A t \in {policies, more} : CheckBestPractices(t) =
            [high |-> 0, medium |-> Cardinality(unlogged(t)),
             low |-> Cardinality(uncommented(t)) + Cardinality(disabled(t))]
    BY DEF CheckBestPractices
  <1>. HIDE DEF unlogged, uncommented, disabled
  <1>5. IsFiniteSet(unlogged(more)) /\ IsFiniteSet(uncommented(more)) /\ IsFiniteSet(disabled(more))
    BY <1>2, <1>3, FS_Subset
  <1>6. /\ Cardinality(unlogged(policies)) <= Cardinality(unlogged(more))
        /\ Cardinality(uncommented(policies)) \in Nat /\ Cardinality(uncommented(more)) \in Nat
        /\ Cardinality(uncommented(policies)) <= Cardinality(uncommented(more))
        /\ Cardinality(disabled(policies)) \in Nat /\ Cardinality(disabled(more)) \in Nat
        /\ Cardinality(disabled(policies)) <= Cardinality(disabled(more))
    BY <1>1, <1>5, Larger
  <1>. QED
    BY <1>4, <1>6

LEMMA UnusedType ==
    ASSUME NEW policies, NEW names, IsFiniteSet(names)
    PROVE  UnusedCount(Unused(policies, names, Services, Vips)) \in Nat
  <1>1. ASSUME NEW S, IsFiniteSet(S), NEW fields
        PROVE  Cardinality(FindUnused(S, policies, fields)) \in Nat
    <2>1. FindUnused(S, policies, fields) \subseteq S
      BY DEF FindUnused
    <2>. QED
      BY <1>1, <2>1, Larger
  <1>. QED
    BY <1>1, NamesAssumption DEF UnusedCount, Unused

LEMMA FewerUnused ==
    ASSUME NEW policies, NEW more, Extends(more, policies), NEW names, IsFiniteSet(names)
    PROVE  UnusedCount(Unused(more, names, Services, Vips))
              <= UnusedCount(Unused(policies, names, Services, Vips))
  <1>1. ASSUME NEW S, IsFiniteSet(S), NEW fields
        PROVE  /\ Cardinality(FindUnused(S, more, fields)) \in Nat
               /\ Cardinality(FindUnused(S, policies, fields)) \in Nat
               /\ Cardinality(FindUnused(S, more, fields)) <= Cardinality(FindUnused(S, policies, fields))
    <2>1. ToSet(policies) \subseteq ToSet(more)
      BY MoreFound
    <2>2. FindUnused(S, more, fields) \subseteq FindUnused(S, policies, fields)
      BY <2>1 DEF FindUnused
    <2>3. FindUnused(S, policies, fields) \in SUBSET S
      BY DEF FindUnused
    <2>4. IsFiniteSet(FindUnused(S, policies, fields))
      BY <1>1, <2>3, FS_Subset
    <2>. QED
      BY <2>2, <2>4, Larger
  <1>. DEFINE both == {"srcaddr", "dstaddr"}
              one == {"service"}
  <1>. HIDE DEF both, one
  <1>2. \A t \in {policies, more} : UnusedCount(Unused(t, names, Services, Vips)) =
            Cardinality(FindUnused(names, t, both)) + Cardinality(FindUnused(Services, t, one))
              + Cardinality(FindUnused(Vips, t, both))
    BY DEF UnusedCount, Unused, both, one
  <1>3. /\ Cardinality(FindUnused(names, more, both)) <= Cardinality(FindUnused(names, policies, both))
        /\ Cardinality(FindUnused(Services, more, one)) <= Cardinality(FindUnused(Services, policies, one))
        /\ Cardinality(FindUnused(Vips, more, both)) <= Cardinality(FindUnused(Vips, policies, both))
        /\ \A t \in {policies, more} :
              /\ Cardinality(FindUnused(names, t, both)) \in Nat
              /\ Cardinality(FindUnused(Services, t, one)) \in Nat
              /\ Cardinality(FindUnused(Vips, t, both)) \in Nat
    BY <1>1, NamesAssumption
  <1>. QED
    BY <1>2, <1>3

(* What a score is made of.                                                *)
LEMMA ScoreType ==
    ASSUME NEW policies \in Seq(RuleType), NEW names, IsFiniteSet(names), NEW bundle \in SettingsType
    PROVE  /\ Cardinality(FindAnyAny(policies)) \in Nat
           /\ Cardinality(FindShadowed(policies)) \in Nat
           /\ Cardinality(FindDuplicates(policies)) \in Nat
           /\ UnusedCount(Unused(policies, names, Services, Vips)) \in Nat
           /\ CheckBestPractices(policies) \in IssuesType
           /\ CheckSystemConfig(bundle) \in IssuesType
           /\ Score(policies, names, Services, Vips, bundle) \in 0..100
  <1>1. /\ Cardinality(FindAnyAny(policies)) \in Nat
        /\ Cardinality(FindShadowed(policies)) \in Nat
        /\ Cardinality(FindDuplicates(policies)) \in Nat
    BY Finite, FS_CardinalityType
  <1>2. /\ UnusedCount(Unused(policies, names, Services, Vips)) \in Nat
        /\ CheckBestPractices(policies) \in IssuesType
        /\ CheckSystemConfig(bundle) \in IssuesType
    BY UnusedType, PracticesType, SystemType
  <1>. QED
    BY <1>1, <1>2, ScoreArithmetic DEF Score

(* A longer table scores higher by what it puts to use at most.            *)
LEMMA ScoreOfMore ==
    ASSUME NEW policies, NEW more, Extends(more, policies), NEW names, IsFiniteSet(names),
           NEW bundle \in SettingsType
    PROVE  Score(more, names, Services, Vips, bundle) - Score(policies, names, Services, Vips, bundle)
              <= UnusedCount(Unused(policies, names, Services, Vips))
                  - UnusedCount(Unused(more, names, Services, Vips))
  <1>1. policies \in Seq(RuleType) /\ more \in Seq(RuleType)
    BY DEF Extends
  <1>2. IsFiniteSet(FindAnyAny(more)) /\ IsFiniteSet(FindShadowed(more))
    BY <1>1, Finite
  <1>3. /\ Cardinality(FindAnyAny(policies)) <= Cardinality(FindAnyAny(more))
        /\ Cardinality(FindShadowed(policies)) <= Cardinality(FindShadowed(more))
    BY <1>2, MoreFound, Larger
  <1>4. \A t \in {policies, more} :
           /\ Cardinality(FindAnyAny(t)) \in Nat
           /\ Cardinality(FindShadowed(t)) \in Nat
           /\ Cardinality(FindDuplicates(t)) \in Nat
           /\ UnusedCount(Unused(t, names, Services, Vips)) \in Nat
           /\ CheckBestPractices(t) \in IssuesType
    BY <1>1, ScoreType
  <1>5. CheckSystemConfig(bundle) \in IssuesType
    BY SystemType
  <1>. QED
    BY <1>3, <1>4, <1>5, MoreDuplicates, MorePractices, FewerUnused, ScoreArithmetic DEF Score

LEMMA ScoreOfSettings ==
    ASSUME NEW policies \in Seq(RuleType), NEW names, IsFiniteSet(names),
           NEW before \in SettingsType, NEW after \in SettingsType
    PROVE  Score(policies, names, Services, Vips, after) - Score(policies, names, Services, Vips, before)
              \in -15..15
  <1>1. /\ Cardinality(FindAnyAny(policies)) \in Nat
        /\ Cardinality(FindShadowed(policies)) \in Nat
        /\ Cardinality(FindDuplicates(policies)) \in Nat
        /\ UnusedCount(Unused(policies, names, Services, Vips)) \in Nat
        /\ CheckBestPractices(policies) \in IssuesType
    BY ScoreType
  <1>2. CheckSystemConfig(before) \in IssuesType /\ CheckSystemConfig(after) \in IssuesType
    BY SystemType
  <1>. QED
    BY <1>1, <1>2, ScoreArithmetic DEF Score

-----------------------------------------------------------------------------
(* Only where a policy is placed does the table grow.                      *)
LEMMA Growth ==
    ASSUME IInv, IInv', [Next]_vars, Len(rules') > Len(rules)
    PROVE  Extends(rules', rules) /\ UNCHANGED <<objects, system>>
  <1>. USE DEF IInv, RulesInv
  <1>1. ASSUME NEW policy, Place(policy)
        PROVE  Extends(rules', rules) /\ UNCHANGED <<objects, system>>
    <2>. DEFINE rule == Numbered(NextId, policy)
    <2>1. rules' = Append(rules, rule) /\ UNCHANGED <<objects, system>>
      BY <1>1 DEF Place
    <2>. HIDE DEF rule
    <2>2. DOMAIN rules \subseteq DOMAIN rules' /\ \A i \in DOMAIN rules : rules'[i] = rules[i]
      BY <2>1
    <2>. QED
      BY <2>1, <2>2 DEF Extends
  <1>2. CASE AddPolicy
    BY <1>1, <1>2 DEF AddPolicy
  <1>3. CASE CreateByIntent
    BY <1>1, <1>3, IntentPlaces
  <1>4. ASSUME UNCHANGED rules PROVE FALSE
    BY <1>4
  <1>5. CASE RemovePolicy
    <2>1. PICK i \in DOMAIN rules : rules' = RemoveAt(rules, i)
      BY <1>5 DEF RemovePolicy
    <2>2. rules' \in Seq(RuleType) /\ Len(rules') = Len(rules) - 1
      <3>1. i \in 1..Len(rules) /\ Len(rules) \in Nat
        OBVIOUS
      <3>2. /\ SubSeq(rules, 1, i - 1) \in Seq(RuleType) /\ Len(SubSeq(rules, 1, i - 1)) = i - 1
            /\ SubSeq(rules, i + 1, Len(rules)) \in Seq(RuleType)
            /\ Len(SubSeq(rules, i + 1, Len(rules))) = Len(rules) - i
        BY <3>1, SubSeqProperties
      <3>. QED
        BY <2>1, <3>1, <3>2 DEF RemoveAt
    <2>. QED
      BY <2>2
  <1>6. CASE MovePolicy \/ TogglePolicy
    <2>1. DOMAIN rules' = DOMAIN rules
      BY <1>6 DEF MovePolicy, TogglePolicy
    <2>2. Len(rules') = Len(rules)
      BY <2>1
    <2>. QED
      BY <2>2
  <1>. QED
    BY <1>2, <1>3, <1>4, <1>5, <1>6 DEF Next, AddObject, RedefineObject, ChangeSettings, vars

LEMMA ScoreStep ==
    ASSUME IInv, IInv', [Next]_vars
    PROVE  /\ ScoreNow' \in 0..100
           /\ Len(rules') > Len(rules) =>
                ScoreNow' - ScoreNow <= UnusedCount(UnusedNow) - UnusedCount(UnusedNow')
           /\ system' # system => ScoreNow' - ScoreNow \in -15..15
  <1>1. ASSUME NEW S, NEW s \in Seq(S) PROVE IsFiniteSet({o.name : o \in ToSet(s)})
    <2>1. Len(s) \in Nat /\ DOMAIN s = 1..Len(s)
      OBVIOUS
    <2>2. [i \in 1..Len(s) |-> s[i].name] \in Surjection(1..Len(s), {o.name : o \in ToSet(s)})
      BY <2>1 DEF Surjection, ToSet
    <2>3. IsFiniteSet(1..Len(s))
      BY <2>1, FS_Interval
    <2>. QED
      BY <2>2, <2>3, FS_Surjection
  <1>2. IsFiniteSet(Names(objects)) /\ IsFiniteSet(Names(objects)')
    BY <1>1 DEF IInv, ObjectsInv, Names
  <1>3. /\ rules \in Seq(RuleType) /\ rules' \in Seq(RuleType)
        /\ system \in SettingsType /\ system' \in SettingsType
    BY BundlesAssumption DEF IInv, RulesInv
  <1>4. /\ ScoreNow = Score(rules, Names(objects), Services, Vips, system)
        /\ ScoreNow' = Score(rules', Names(objects)', Services, Vips, system')
        /\ UnusedNow = Unused(rules, Names(objects), Services, Vips)
        /\ UnusedNow' = Unused(rules', Names(objects)', Services, Vips)
    BY DEF ScoreNow, UnusedNow, Score
  <1>5. ScoreNow' \in 0..100
    BY <1>2, <1>3, <1>4, ScoreType
  <1>6. ASSUME Len(rules') > Len(rules)
        PROVE  ScoreNow' - ScoreNow <= UnusedCount(UnusedNow) - UnusedCount(UnusedNow')
    <2>1. Extends(rules', rules) /\ system' = system /\ Names(objects)' = Names(objects)
      BY <1>6, Growth DEF Names
    <2>. QED
      BY <1>2, <1>3, <1>4, <2>1, ScoreOfMore
  <1>7. ASSUME system' # system
        PROVE  ScoreNow' - ScoreNow \in -15..15
    <2>1. AddPolicy \/ CreateByIntent => UNCHANGED system
      BY DEF AddPolicy, CreateByIntent, Place
    <2>2. rules' = rules /\ Names(objects)' = Names(objects)
      BY <1>7, <2>1 DEF Next, RemovePolicy, MovePolicy, TogglePolicy, AddObject, RedefineObject,
                        ChangeSettings, Names, vars
    <2>. QED
      BY <1>2, <1>3, <1>4, <2>2, ScoreOfSettings
  <1>. QED
    BY <1>5, <1>6, <1>7

(* The score moves for a reason.                                           *)
THEOREM ScoreMovesForAReason == Spec => ScoreMoves
  <1>1. IInv /\ IInv' /\ [Next]_vars =>
            [/\ ScoreNow' \in 0..100
             /\ Len(rules') > Len(rules) =>
                  ScoreNow' - ScoreNow <= UnusedCount(UnusedNow) - UnusedCount(UnusedNow')
             /\ system' # system => ScoreNow' - ScoreNow \in -15..15]_vars
    BY ScoreStep
  <1>. QED
    BY <1>1, Invariance, PTL DEF Spec, ScoreMoves
=============================================================================
