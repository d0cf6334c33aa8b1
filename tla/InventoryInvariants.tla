------------------------ MODULE InventoryInvariants -------------------------
(***************************************************************************)
(* What is true between any two statements of Inventory's sessions, and    *)
(* makes its invariants inductive: a session in progress remembers ids it  *)
(* has read or was given, and the rows it has not committed yet are the    *)
(* lock holder's.                                                          *)
(***************************************************************************)
EXTENDS Inventory

CustomerRows == [id : Nat, name : Customers]
SiteRows     == [id : Nat, customer : Nat, name : Sites]
DeviceRows   == [id : Nat, site : Nat, name : Names]

Places ==
    {"idle", "customer", "customer_insert", "site", "site_insert", "find",
     "device_insert", "commit", "rm_check", "rm_flush", "rm_commit",
     "rm_keyring", "list", "next", "secret", "done"}

Claims == [id : Nat, customer : Customers, site : Sites, name : Names]

Drafts == [customers : SUBSET CustomerRows, sites : SUBSET SiteRows,
           devices : SUBSET DeviceRows]

Sessions ==
    [pc : Places, customer : Customers \cup {None}, site : Sites \cup {None},
     name : Names \cup {None}, cid : Nat \cup {None}, sid : Nat \cup {None},
     did : Nat \cup {None}]

Histories ==
    [registered : SUBSET Claims, removed : SUBSET Nat, cut : SUBSET Nat,
     undone : SUBSET Nat, belated : SUBSET Nat, erased : SUBSET Nat,
     peopled : SUBSET Nat, migrated : SUBSET DeviceRows]

RowTypes ==
    /\ customers \in SUBSET CustomerRows
    /\ sites \in SUBSET SiteRows
    /\ devices \in SUBSET DeviceRows
    /\ draft \in [Actors -> Drafts]
    /\ writer \in Actors \cup {None}
    /\ ids \in Nat \ {NoRow}

SessionTypes == session \in [Actors -> Sessions]

ImportTypes ==
    /\ imported \in [todo : Seq(Names), known : SUBSET DeviceRows]
    /\ secrets \in SUBSET Nat
    /\ calls \in 0..MaxCalls /\ runs \in 0..MaxRuns

HistoryTypes == hist \in Histories

TypeInv == RowTypes /\ SessionTypes /\ ImportTypes /\ HistoryTypes

(* Uncommitted rows are the lock holder's. *)
LockInv == \A a \in Actors : draft[a] # NoDraft => writer = a

(* What a session sees is a sound inventory, and so is what is committed:  *)
(* ids are given once, references lead somewhere, names are unique.        *)
IdsOnce(next, cs, ss, ds) ==
    /\ \A r \in cs \cup ss \cup ds : r.id < next
    /\ \A c, b \in cs : c.id = b.id => c = b
    /\ \A s, t \in ss : s.id = t.id => s = t
    /\ \A d, e \in ds : d.id = e.id => d = e
    /\ \A c \in cs, s \in ss : c.id # s.id
    /\ \A c \in cs, d \in ds : c.id # d.id
    /\ \A s \in ss, d \in ds : s.id # d.id

Linked(cs, ss, ds) ==
    /\ \A s \in ss : \E c \in cs : s.customer = c.id
    /\ \A d \in ds : \E s \in ss : d.site = s.id

NamedOnce(cs, ss, ds) ==
    /\ \A c, b \in cs : c.name = b.name => c = b
    /\ \A s, t \in ss : s.customer = t.customer /\ s.name = t.name => s = t
    /\ \A d, e \in ds : d.site = e.site /\ d.name = e.name => d = e

Sound(next, cs, ss, ds) ==
    IdsOnce(next, cs, ss, ds) /\ Linked(cs, ss, ds) /\ NamedOnce(cs, ss, ds)

RowsInv ==
    /\ Linked(customers, sites, devices)
    /\ \A a \in Actors : Sound(ids, CustomersSeenBy(a), SitesSeenBy(a), DevicesSeenBy(a))

(* What a has written by the time it is at its place, and what it knows.   *)
BeforeSite   == {"idle", "done", "customer", "customer_insert",
                 "rm_check", "rm_flush", "rm_commit", "rm_keyring"}
AtSite       == {"site", "site_insert"}
AfterSite    == {"find", "device_insert", "commit", "list", "next", "secret"}
OfCalls      == {"commit", "rm_check", "rm_flush", "rm_commit", "rm_keyring"}
OfMigration  == {"list", "next", "secret", "done"}
Removing     == {"rm_check", "rm_flush", "rm_commit", "rm_keyring"}

HasCustomer(a) ==
    \E c \in CustomersSeenBy(a) : c.id = session[a].cid /\ c.name = session[a].customer

HasSite(a) ==
    \E s \in SitesSeenBy(a) : /\ s.id = session[a].sid /\ s.name = session[a].site
                              /\ s.customer = session[a].cid

SessionInv(a) ==
    LET s == session[a]
    IN  /\ s.pc \in OfCalls => a \in Calls
        /\ s.pc \in OfMigration => a = Migration
        /\ s.pc \in {"commit", "rm_commit"} => writer = a
        /\ s.pc \in BeforeSite => draft[a] = NoDraft
        /\ s.pc \in AtSite => draft[a].sites = {}
        /\ s.pc \in AtSite => draft[a].devices = {}
        /\ s.pc \in AtSite \cup AfterSite =>
              HasCustomer(a) /\ \A c \in draft[a].customers : c.id = s.cid
        /\ s.pc \in AfterSite => HasSite(a) /\ \A t \in draft[a].sites : t.id = s.sid
        /\ \A d \in draft[a].devices : d.site = s.sid
        /\ s.pc \in {"find", "device_insert"} /\ a \in Calls => draft[a].devices = {}
        /\ s.pc = "list" => draft[a].devices = {}
        /\ s.pc = "device_insert" => \A d \in draft[a].devices : d.name # s.name
        /\ s.pc = "commit" => draft[a].devices = {DeviceRow(s.did, s.sid, s.name)}
        /\ s.pc \in {"customer", "customer_insert"} \cup AtSite \cup AfterSite =>
              s.customer \in Customers /\ s.site \in Sites
        /\ s.pc \in {"commit", "secret", "find", "device_insert"} => s.name \in Names
        /\ s.pc \in {"customer", "customer_insert"} \cup AtSite /\ a \in Calls => s.name \in Names
        /\ s.pc \in {"commit", "secret"} \cup Removing => s.did \in Nat

(* Uncommitted devices are not among the committed ones.  A device being   *)
(* removed was committed, and is gone at the end.  Ids of removed devices  *)
(* are not used again.                                                     *)
Gone(id) == id < ids /\ \A a \in Actors : \A d \in DevicesSeenBy(a) : d.id # id

RemovalInv ==
    /\ \A a \in Actors : \A d \in draft[a].devices : d \notin devices
    /\ \A id \in hist.removed : Gone(id)
    /\ \A c \in Calls : session[c].pc \in Removing =>
          /\ session[c].did < ids
          /\ \A a \in Actors : \A d \in draft[a].devices : d.id # session[c].did
    /\ \A c \in Calls : At(c, "rm_keyring") => session[c].did \in hist.removed

(* A device the migration has seen to, unless it was removed, has its row  *)
(* and its secret; if it was removed, its site is not a new one.           *)
NamesIn(seq) == {seq[i] : i \in 1..Len(seq)}

Settled(d, present) ==
    \/ d.id \in hist.removed
    \/ d \in present /\ (d.name \in WithSecret => d.id \in secrets \cup hist.erased)

LoopInv ==
    LET sid == session[Migration].sid
        present == DevicesSeenBy(Migration)
    IN  /\ NamesIn(imported.todo) \subseteq Configured
        /\ \A d \in imported.known :
              /\ d.site = sid /\ d.id < ids
              /\ d \in present \/ (d.id \in hist.removed /\ sid \in hist.peopled)
        /\ \A d, e \in imported.known : d.name = e.name => d = e
        /\ \A name \in Configured \ NamesIn(imported.todo) :
              \E d \in imported.known : d.name = name /\ Settled(d, present)

ImportInv ==
    LET s == session[Migration]
    IN  /\ s.pc \in {"customer", "customer_insert"} \cup AtSite \cup AfterSite =>
              s.customer = LegacyCustomer /\ s.site = LegacySite /\ Config # << >>
        /\ s.pc \in {"find", "device_insert", "next", "secret"} => LoopInv
        /\ s.pc \in {"find", "device_insert", "secret"} =>
              imported.todo # << >> /\ s.name = Head(imported.todo)
        /\ s.pc \in {"find", "device_insert"} => \A d \in imported.known : d.name # s.name
        /\ s.pc = "secret" =>
              /\ s.did < ids
              /\ \A d \in imported.known : d.name = s.name => d.id = s.did
              /\ \/ DeviceRow(s.did, s.sid, s.name) \in DevicesSeenBy(Migration)
                 \/ s.did \in hist.removed /\ s.sid \in hist.peopled

HistoryInv ==
    /\ \A claim \in hist.registered : claim.id < ids
    /\ \A d \in devices : d.site \in hist.peopled
    /\ \A id \in secrets \cup hist.belated \cup hist.undone \cup hist.cut : id < ids

IInv ==
    /\ TypeInv /\ LockInv /\ RowsInv /\ RemovalInv /\ ImportInv /\ HistoryInv
    /\ \A a \in Actors : SessionInv(a)
    /\ RegisteredIsFound /\ NothingHalfRegistered /\ OrphansExplained /\ MigratedIsThere

=============================================================================
