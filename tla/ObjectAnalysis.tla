--------------------------- MODULE ObjectAnalysis ---------------------------
(***************************************************************************)
(* Overlapping address objects (domain/analysis/overlap.py) and the        *)
(* comparison of two devices' lists (domain/fleet_compare.py, diff.py).    *)
(* Addresses are numbers; a subnet is an address of it, host bits and all, *)
(* and its size, a power of two.                                           *)
(***************************************************************************)
EXTENDS PolicyAnalysis

Subnet(name, address, size) ==
    [name |-> name, type |-> "ipmask", address |-> address, size |-> size]
IpRange(name, start, end) ==
    [name |-> name, type |-> "iprange", start |-> start, end |-> end]
Fqdn(name) == [name |-> name, type |-> "fqdn"]

(* Broken: host bits are taken for the network's address. *)
ToRangeFromHost(object) ==
    CASE object.type = "iprange" -> <<object.start, object.end>>
      [] object.type = "ipmask"  -> <<object.address, object.address + object.size - 1>>
      [] OTHER -> None

ToRange(object) ==
    CASE object.type = "iprange" -> <<object.start, object.end>>
      [] object.type = "ipmask"  ->
            LET network == object.address - (object.address % object.size)
            IN  <<network, network + object.size - 1>>
      [] OTHER -> None

Relationship(a, b) ==
    IF a[1] > b[2] \/ b[1] > a[2] THEN "none"
    ELSE IF a = b THEN "equal"
    ELSE IF a[1] <= b[1] /\ a[2] >= b[2] THEN "a_contains_b"
    ELSE IF b[1] <= a[1] /\ b[2] >= a[2] THEN "b_contains_a" ELSE "overlap"

FindOverlapping(objects) ==
    LET parsed == {i \in DOMAIN objects : ToRange(objects[i]) # None}
        related(i, j) == Relationship(ToRange(objects[i]), ToRange(objects[j]))
    IN  {[object_a |-> objects[p[1]].name, object_b |-> objects[p[2]].name,
          relationship |-> related(p[1], p[2])] :
            p \in {q \in parsed \X parsed : q[1] < q[2] /\ related(q[1], q[2]) # "none"}}

-----------------------------------------------------------------------------
(* dict.get: a missing field is None. *)
Get(item, field) == IF field \in DOMAIN item THEN item[field] ELSE None

(* Broken: fields that are new are overlooked. *)
ComputeDiffOfBefore(before, after) ==
    [field \in {f \in DOMAIN before : Get(before, f) # Get(after, f)} |->
        [before |-> Get(before, field), after |-> Get(after, field)]]

(* The changed_fields of an update. *)
ComputeDiff(before, after) ==
    [field \in {f \in DOMAIN before \cup DOMAIN after : Get(before, f) # Get(after, f)} |->
        [before |-> Get(before, field), after |-> Get(after, field)]]

KeyFor(resourceType, item) ==
    CASE resourceType = "firewall_policy" -> Get(item, "policyid")
      [] resourceType = "static_route" ->
            IF "seq-num" \in DOMAIN item THEN item["seq-num"] ELSE Get(item, "dst")
      [] OTHER -> Get(item, "name")

CompareResourceLists(resourceType, a, b) ==
    LET keys(items) == {KeyFor(resourceType, item) : item \in ToSet(items)}
        (* A dict comprehension: of items with one key the last stays. *)
        at(items, key) == items[CHOOSE i \in DOMAIN items :
                              /\ KeyFor(resourceType, items[i]) = key
                              /\ \A j \in DOMAIN items :
                                    KeyFor(resourceType, items[j]) = key => j <= i]
        both == keys(a) \cap keys(b)
        same == {key \in both : at(a, key) = at(b, key)}
    IN  [only_in_a |-> keys(a) \ keys(b),
         only_in_b |-> keys(b) \ keys(a),
         identical |-> same,
         different |-> [key \in both \ same |-> ComputeDiff(at(a, key), at(b, key))]]
=============================================================================
