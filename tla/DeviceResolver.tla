--------------------------- MODULE DeviceResolver ---------------------------
(***************************************************************************)
(* infra/device_resolver.py over the inventory's committed rows: which     *)
(* devices a free-form target stands for.  A text is a member of a small   *)
(* set; str.lower and str.startswith are given on it by tables.  That an   *)
(* empty target raises at once is left out.                                *)
(***************************************************************************)
EXTENDS Inventory

CONSTANTS
    Targets,            \* what a caller may ask for
    Lower,              \* text -> text
    Prefixes,           \* pairs of lower-case texts, the first starting the second
    HostOf,             \* device name -> mgmt_host; a bound: names fix hosts
    IdText              \* device number -> its id as a text

(* The texts of a device a target is compared with. *)
NameOf(d, of) ==
    LET site == CHOOSE s \in sites : d.site = s.id
        customer == CHOOSE c \in customers : site.customer = c.id
    IN  CASE of = "host"     -> HostOf[d.name]
          [] of = "device"   -> d.name
          [] of = "site"     -> site.name
          [] of = "customer" -> customer.name

Exact(of, target)  == {d \in devices : Lower[NameOf(d, of)] = Lower[target]}
Prefix(of, target) == {d \in devices : <<Lower[target], Lower[NameOf(d, of)]>> \in Prefixes}
WithId(target)     == {d \in devices : IdText[d.id] = target}

(* Broken: prefixes of device names come before exact names of sites and   *)
(* customers.                                                              *)
StagesByKind(target) ==
    <<[found |-> Exact("host", target),      single |-> FALSE],
      [found |-> WithId(target),             single |-> FALSE],
      [found |-> Exact("device", target),    single |-> TRUE],
      [found |-> Prefix("device", target),   single |-> TRUE],
      [found |-> Exact("site", target),      single |-> FALSE],
      [found |-> Exact("customer", target),  single |-> FALSE],
      [found |-> Prefix("site", target),     single |-> FALSE],
      [found |-> Prefix("customer", target), single |-> FALSE]>>

(* The cascade: the first stage with a match decides.  Several matches of  *)
(* a device name are ambiguous; of a site or a customer they are the       *)
(* answer.                                                                 *)
Stages(target) ==
    <<[found |-> Exact("host", target),      single |-> FALSE],
      [found |-> WithId(target),             single |-> FALSE],
      [found |-> Exact("device", target),    single |-> TRUE],
      [found |-> Exact("site", target),      single |-> FALSE],
      [found |-> Exact("customer", target),  single |-> FALSE],
      [found |-> Prefix("device", target),   single |-> TRUE],
      [found |-> Prefix("site", target),     single |-> FALSE],
      [found |-> Prefix("customer", target), single |-> FALSE]>>

(* An ambiguity names its candidates: by device name alone. *)
NotFound         == [error |-> "not_found", found |-> {}]
Ambiguous(found) == [error |-> "ambiguous", found |-> {d.name : d \in found}]
Answer(found)    == [error |-> "none", found |-> found]

Resolve(target) ==
    LET stages == Stages(target)
        hits == {i \in 1..Len(stages) : stages[i].found # {}}
        first == stages[CHOOSE i \in hits : \A j \in hits : i <= j]
    IN  IF hits = {} THEN NotFound
        ELSE IF first.single /\ Cardinality(first.found) > 1 THEN Ambiguous(first.found)
        ELSE Answer(first.found)

ResolveOne(target) ==
    LET answer == Resolve(target)
    IN  IF answer.error = "none" /\ Cardinality(answer.found) > 1
        THEN Ambiguous(answer.found) ELSE answer

-----------------------------------------------------------------------------
(* resolve_one does not guess, whatever names customers, sites and devices *)
(* share or come to share as rows are added: an answer is one device; it   *)
(* is the one so named if any device is, and one reached through a full    *)
(* name if there is such a name; and a name of several devices is always   *)
(* reported as ambiguous.                                                  *)
NeverGuesses ==
    \A target \in Targets :
        LET answer == ResolveOne(target)
            direct == Exact("host", target) \cup WithId(target)
            named  == Exact("device", target)
            called == direct \cup named \cup Exact("site", target)
                        \cup Exact("customer", target)
        IN  /\ answer.error = "none" =>
                  /\ Cardinality(answer.found) = 1
                  /\ called # {} => answer.found \subseteq called
            /\ direct = {} /\ Cardinality(named) = 1 => answer = Answer(named)
            /\ direct = {} /\ Cardinality(named) > 1 => answer.error = "ambiguous"
=============================================================================
