----------------------------- MODULE Inventory ------------------------------
(***************************************************************************)
(* The inventory: customers, their sites, the devices of a site, and the   *)
(* devices' secrets in the operating system's keyring.  Three kinds of     *)
(* actor share it:                                                         *)
(*   - the MCP tools inventory_register_device_pending and                 *)
(*     inventory_remove_device, calls that overlap in the server,          *)
(*   - infra/migration.py, a process that imports config.json,             *)
(*   - cli/cred.py, a process in which a human sets and deletes secrets.   *)
(* Every statement to SQLite is a step of its own.  A SELECT runs outside  *)
(* a transaction; the first INSERT or DELETE of a session takes the write  *)
(* lock, which the session keeps until it commits or rolls back.           *)
(*                                                                         *)
(* A device's number stands for its id and its credential_id, which        *)
(* create_device mints together and nothing changes; NoRow for the texts   *)
(* that are no row's id.                                                   *)
(***************************************************************************)
EXTENDS Naturals, Sequences, FiniteSets

CONSTANTS
    Calls,              \* MCP calls that may overlap
    Migration,          \* the migration process
    Customers, Sites, Names,    \* names of customers, sites, devices
    LegacyCustomer, LegacySite, \* migration's --customer and --site
    Config,             \* the device names in config.json, in its order
    WithSecret,         \* those for which it has a secret
    None,
    MaxCalls,           \* bound: calls made
    MaxRuns             \* bound: runs of the migration

Configured == {Config[i] : i \in 1..Len(Config)}

ASSUME InventoryAssumption ==
    /\ Migration \notin Calls
    /\ LegacyCustomer \in Customers /\ LegacySite \in Sites
    /\ Config \in Seq(Names) /\ WithSecret \subseteq Configured
    /\ None \notin Calls \cup {Migration} \cup Nat
    /\ MaxCalls \in Nat /\ MaxRuns \in Nat

VARIABLES
    customers, sites, devices,  \* the committed rows
    writer,             \* the session with SQLite's write lock
    draft,              \* each session's rows not committed yet
    session,            \* each session's place in its handler
    imported,           \* the migration's loop
    secrets,            \* the devices with a secret in the keyring
    ids,                \* rows created so far; ids are never used twice
    calls,              \* calls made so far
    runs,               \* migrations started
    hist                \* history, read by the properties only

rows == <<customers, sites, devices>>
vars == <<rows, writer, draft, session, imported, secrets, ids, calls, runs, hist>>

Actors == Calls \cup {Migration}

NoRow == 0

-----------------------------------------------------------------------------
CustomerRow(id, name)   == [id |-> id, name |-> name]
SiteRow(id, cid, name)  == [id |-> id, customer |-> cid, name |-> name]
DeviceRow(id, sid, name) == [id |-> id, site |-> sid, name |-> name]

NoDraft == [customers |-> {}, sites |-> {}, devices |-> {}]
Asleep  == [pc |-> "idle", customer |-> None, site |-> None, name |-> None,
            cid |-> None, sid |-> None, did |-> None]
NoImport == [todo |-> << >>, known |-> {}]

(* registered: what a registration returned, with the names it was given;  *)
(* removed: devices whose removal was committed; cut: those whose removal  *)
(* ended before it reached the keyring; undone: devices of rolled back     *)
(* migrations; belated: ids whose secret was written when they had no row; *)
(* erased: devices whose secret the CLI deleted; peopled: sites that once  *)
(* had a device; migrated: the rows the last finished migration saw to.    *)
NoHistory ==
    [registered |-> {}, removed |-> {}, cut |-> {}, undone |-> {}, belated |-> {},
     erased |-> {}, peopled |-> {}, migrated |-> {}]

Init ==
    /\ customers = {} /\ sites = {} /\ devices = {}
    /\ writer = None
    /\ draft = [a \in Actors |-> NoDraft]
    /\ session = [a \in Actors |-> Asleep]
    /\ imported = NoImport
    /\ secrets = {} /\ ids = 1 /\ calls = 0 /\ runs = 0
    /\ hist = NoHistory

(* What a's statements see. *)
CustomersSeenBy(a) == customers \cup draft[a].customers
SitesSeenBy(a)     == sites \cup draft[a].sites
DevicesSeenBy(a)   == devices \cup draft[a].devices

(* The queries of InventoryRepository. *)
CustomerNamed(a, name)  == {c \in CustomersSeenBy(a) : c.name = name}
(* Broken: the customer is left out of the query. *)
SiteNamedAnywhere(a, cid, name) == {s \in SitesSeenBy(a) : s.name = name}
SiteNamed(a, cid, name) == {s \in SitesSeenBy(a) : s.customer = cid /\ s.name = name}
DeviceNamed(a, sid, name) == {d \in DevicesSeenBy(a) : d.site = sid /\ d.name = name}
(* Broken: list_devices without its site_id. *)
DevicesAnywhere(sid)    == devices
DevicesAt(sid)          == {d \in devices : d.site = sid}

At(a, pc) == session[a].pc = pc

(* The session moves on, with one more thing found out. *)
Goto(a, pc) == session' = [session EXCEPT ![a].pc = pc]
Found(a, pc, field, id) == session' = [session EXCEPT ![a].pc = pc, ![a][field] = id]

(* Broken: nothing is rolled back. *)
AbortKeepingDraft(a) ==
    /\ writer' = IF writer = a THEN None ELSE writer
    /\ session' = [session EXCEPT ![a] = Asleep]
    /\ imported' = IF a = Migration THEN NoImport ELSE imported
    /\ UNCHANGED <<rows, draft, secrets, ids, calls, runs, hist>>

(* The session ends without a commit: an exception, or the process dies.   *)
(* SQLite rolls back.                                                      *)
Abort(a) ==
    /\ draft' = [draft EXCEPT ![a] = NoDraft]
    /\ writer' = IF writer = a THEN None ELSE writer
    /\ session' = [session EXCEPT ![a] = Asleep]
    /\ imported' = IF a = Migration THEN NoImport ELSE imported
    /\ hist' = [hist EXCEPT
          !.cut = IF At(a, "rm_keyring") THEN hist.cut \cup {session[a].did} ELSE hist.cut,
          !.undone = hist.undone \cup {d.id : d \in draft[a].devices}]
    /\ UNCHANGED <<rows, secrets, ids, calls, runs>>

-----------------------------------------------------------------------------
(* The tools are called. *)
Call(c) ==
    /\ At(c, "idle")
    /\ calls < MaxCalls /\ calls' = calls + 1

(* inventory_register_device_pending and register_device_pending. *)
Register(c) ==
    /\ Call(c)
    /\ \E customer \in Customers, site \in Sites, name \in Names :
          session' = [session EXCEPT ![c] = [Asleep EXCEPT !.pc = "customer",
              !.customer = customer, !.site = site, !.name = name]]
    /\ UNCHANGED <<rows, writer, draft, imported, secrets, ids, runs, hist>>

(* get_or_create_customer and get_or_create_site: the SELECT. *)
FindCustomer(a) ==
    /\ At(a, "customer")
    /\ LET found == CustomerNamed(a, session[a].customer)
       IN  \/ found = {} /\ Goto(a, "customer_insert")
           \/ \E c \in found : Found(a, "site", "cid", c.id)
    /\ UNCHANGED <<rows, writer, draft, imported, secrets, ids, calls, runs, hist>>

FindSite(a) ==
    /\ At(a, "site")
    /\ LET found == SiteNamed(a, session[a].cid, session[a].site)
           after == IF a = Migration THEN "list" ELSE "find"
       IN  \/ found = {} /\ Goto(a, "site_insert")
           \/ \E s \in found : Found(a, after, "sid", s.id)
    /\ UNCHANGED <<rows, writer, draft, imported, secrets, ids, calls, runs, hist>>

(* Broken: uq_device_site_name is missing. *)
TakenButDevices(a) ==
    CASE At(a, "customer_insert") -> \E c \in customers : c.name = session[a].customer
      [] At(a, "site_insert") ->
            \E s \in sites : s.customer = session[a].cid /\ s.name = session[a].site
      [] OTHER -> FALSE

(* The unique constraints of models_orm.py. *)
Taken(a) ==
    CASE At(a, "customer_insert") -> \E c \in customers : c.name = session[a].customer
      [] At(a, "site_insert") ->
            \E s \in sites : s.customer = session[a].cid /\ s.name = session[a].site
      [] At(a, "device_insert") ->
            \E d \in devices : d.site = session[a].sid /\ d.name = session[a].name
      [] OTHER -> FALSE

Writes(a) == session[a].pc \in {"customer_insert", "site_insert", "device_insert", "rm_flush"}

(* flush(): the INSERT, which finds the write lock free or its own. *)
Flush(a) ==
    /\ Writes(a) /\ writer \in {None, a} /\ ~Taken(a)
    /\ writer' = a

Insert(a, table, row, pc, field) ==
    /\ Flush(a)
    /\ ids' = ids + 1
    /\ draft' = [draft EXCEPT ![a][table] = draft[a][table] \cup {row}]
    /\ Found(a, pc, field, ids)
    /\ UNCHANGED <<rows, imported, secrets, calls, runs, hist>>

(* Broken: get_or_create_customer commits. *)
InsertCustomerCommitting(a) ==
    /\ At(a, "customer_insert")
    /\ writer = None /\ ~Taken(a)
    /\ ids' = ids + 1
    /\ customers' = customers \cup {CustomerRow(ids, session[a].customer)}
    /\ Found(a, "site", "cid", ids)
    /\ UNCHANGED <<sites, devices, writer, draft, imported, secrets, calls, runs, hist>>

InsertCustomer(a) ==
    /\ At(a, "customer_insert")
    /\ Insert(a, "customers", CustomerRow(ids, session[a].customer), "site", "cid")

InsertSite(a) ==
    /\ At(a, "site_insert")
    /\ Insert(a, "sites", SiteRow(ids, session[a].cid, session[a].site),
              IF a = Migration THEN "list" ELSE "find", "sid")

(* create_device: the check for a device of that name.  DuplicateNameError *)
(* ends the session, the customer and site it created with it.             *)
FindDevice(a) ==
    /\ At(a, "find")
    /\ IF DeviceNamed(a, session[a].sid, session[a].name) # {} THEN Abort(a)
       ELSE /\ Goto(a, "device_insert")
            /\ UNCHANGED <<rows, writer, draft, imported, secrets, ids, calls, runs, hist>>

InsertDevice(a) ==
    /\ At(a, "device_insert")
    /\ Insert(a, "devices", DeviceRow(ids, session[a].sid, session[a].name),
              IF a = Migration THEN "secret" ELSE "commit", "did")

(* An INSERT or DELETE fails: IntegrityError, or "database is locked" once *)
(* the busy timeout has passed.                                            *)
FlushFails(a) ==
    /\ Writes(a)
    /\ writer \in {None, a} => Taken(a)
    /\ Abort(a)

(* The rows of the draft, and the write lock given up. *)
Publish(a) ==
    /\ customers' = customers \cup draft[a].customers
    /\ sites' = sites \cup draft[a].sites
    /\ devices' = devices \cup draft[a].devices
    /\ draft' = [draft EXCEPT ![a] = NoDraft]
    /\ writer' = IF writer = a THEN None ELSE writer

Peopled == hist.peopled \cup {d.site : d \in devices'}

CommitRegistration(c) ==
    LET s == session[c]
        claim == [id |-> s.did, customer |-> s.customer, site |-> s.site, name |-> s.name]
    IN  /\ At(c, "commit")
        /\ Publish(c)
        /\ session' = [session EXCEPT ![c] = Asleep]
        /\ hist' = [hist EXCEPT !.registered = hist.registered \cup {claim}, !.peopled = Peopled]
        /\ UNCHANGED <<imported, secrets, ids, calls, runs>>

-----------------------------------------------------------------------------
(* inventory_remove_device: the tool looks the device up, the repository   *)
(* does so again, deletes the row; after the commit the secret goes.       *)
Remove(c) ==
    /\ Call(c)
    /\ \E d \in devices : Found(c, "rm_check", "did", d.id)
    /\ UNCHANGED <<rows, writer, draft, imported, secrets, ids, runs, hist>>

(* Broken: the secret goes first. *)
RemoveCheckSecretFirst(c) ==
    /\ At(c, "rm_check")
    /\ secrets' = secrets \ {session[c].did}
    /\ Goto(c, "rm_flush")
    /\ UNCHANGED <<rows, writer, draft, imported, ids, calls, runs, hist>>

RemoveCheck(c) ==
    /\ At(c, "rm_check")
    /\ IF \E d \in devices : d.id = session[c].did
       THEN /\ Goto(c, "rm_flush")
            /\ UNCHANGED <<rows, writer, draft, imported, secrets, ids, calls, runs, hist>>
       ELSE Abort(c)

RemoveFlush(c) ==
    /\ At(c, "rm_flush")
    /\ Flush(c)
    /\ Goto(c, "rm_commit")
    /\ UNCHANGED <<rows, draft, imported, secrets, ids, calls, runs, hist>>

RemoveCommit(c) ==
    /\ At(c, "rm_commit")
    /\ devices' = {d \in devices : d.id # session[c].did}
    /\ writer' = None
    /\ Goto(c, "rm_keyring")
    /\ hist' = [hist EXCEPT !.removed = hist.removed \cup {session[c].did}]
    /\ UNCHANGED <<customers, sites, draft, imported, secrets, ids, calls, runs>>

(* Broken: the credential is forgotten. *)
RemoveSecretNever(c) ==
    /\ At(c, "rm_keyring")
    /\ session' = [session EXCEPT ![c] = Asleep]
    /\ UNCHANGED <<rows, writer, draft, imported, secrets, ids, calls, runs, hist>>

RemoveSecret(c) ==
    /\ At(c, "rm_keyring")
    /\ secrets' = secrets \ {session[c].did}
    /\ session' = [session EXCEPT ![c] = Asleep]
    /\ UNCHANGED <<rows, writer, draft, imported, ids, calls, runs, hist>>

-----------------------------------------------------------------------------
(* migrate_config: get or create the customer and the site as above, list  *)
(* the site's devices once, then for each device of config.json create the *)
(* row unless it was listed and write the secret; one commit at the end.   *)
(* With no devices in config.json it returns at once.                      *)
Migrate ==
    /\ Config # << >>
    /\ session[Migration].pc \in {"idle", "done"} /\ runs < MaxRuns
    /\ runs' = runs + 1
    /\ session' = [session EXCEPT ![Migration] = [Asleep EXCEPT !.pc = "customer",
          !.customer = LegacyCustomer, !.site = LegacySite]]
    /\ UNCHANGED <<rows, writer, draft, imported, secrets, ids, calls, hist>>

ListExisting ==
    /\ At(Migration, "list")
    /\ imported' = [todo |-> Config, known |-> DevicesAt(session[Migration].sid)]
    /\ Goto(Migration, "next")
    /\ UNCHANGED <<rows, writer, draft, secrets, ids, calls, runs, hist>>

ImportNext ==
    LET name == Head(imported.todo)
        known == {d \in imported.known : d.name = name}
        turn(pc, did) == session' = [session EXCEPT ![Migration].pc = pc,
                            ![Migration].name = name, ![Migration].did = did]
    IN  /\ At(Migration, "next") /\ imported.todo # << >>
        /\ \/ known = {} /\ turn("find", None)
           \/ \E d \in known : turn("secret", d.id)
        /\ UNCHANGED <<rows, writer, draft, imported, secrets, ids, calls, runs, hist>>

HasRow(id) == id \in {d.id : d \in devices \cup draft[Migration].devices}

(* credential_manager.set_secret, outside the database's transaction.  known *)
(* keeps the new row for the properties: a name is in config.json once.      *)
ImportSecret ==
    LET s == session[Migration]
        sets == s.name \in WithSecret
    IN  /\ At(Migration, "secret")
        /\ secrets' = IF sets THEN secrets \cup {s.did} ELSE secrets
        /\ imported' = [todo |-> Tail(imported.todo),
                        known |-> imported.known \cup {DeviceRow(s.did, s.sid, s.name)}]
        /\ hist' = IF sets THEN [hist EXCEPT
                        !.erased = hist.erased \ {s.did},
                        !.belated = IF HasRow(s.did) THEN hist.belated
                                    ELSE hist.belated \cup {s.did}]
                   ELSE hist
        /\ Goto(Migration, "next")
        /\ UNCHANGED <<rows, writer, draft, ids, calls, runs>>

CommitMigration ==
    LET seen == {d \in imported.known : d.name \in Configured}
    IN  /\ At(Migration, "next") /\ imported.todo = << >>
        /\ Publish(Migration)
        /\ session' = [session EXCEPT ![Migration] = [Asleep EXCEPT !.pc = "done"]]
        /\ imported' = NoImport
        /\ hist' = [hist EXCEPT !.migrated = seen, !.peopled = Peopled]
        /\ UNCHANGED <<secrets, ids, calls, runs>>

-----------------------------------------------------------------------------
(* fortinet-mcp-cred set and delete, for the id of a device there is or    *)
(* once was, or one mistyped: the CLI takes any text.                      *)
Given ==
    {claim.id : claim \in hist.registered} \cup {d.id : d \in devices}
        \cup hist.removed \cup {NoRow}

CliSet ==
    \E id \in Given :
        /\ secrets' = secrets \cup {id}
        /\ hist' = [hist EXCEPT
              !.erased = hist.erased \ {id},
              !.belated = IF HasRow(id) THEN hist.belated ELSE hist.belated \cup {id}]
        /\ UNCHANGED <<rows, writer, draft, session, imported, ids, calls, runs>>

CliDelete ==
    \E id \in Given \cap secrets :
        /\ secrets' = secrets \ {id}
        /\ hist' = [hist EXCEPT
              !.erased = IF HasRow(id) THEN hist.erased \cup {id} ELSE hist.erased,
              !.belated = hist.belated \ {id}]
        /\ UNCHANGED <<rows, writer, draft, session, imported, ids, calls, runs>>

(* A call is cancelled, the server or the migration dies, the keyring      *)
(* refuses.                                                                *)
Cut(a) == session[a].pc \notin {"idle", "done"} /\ Abort(a)

Next ==
    \/ \E c \in Calls : Register(c) \/ CommitRegistration(c)
    \/ \E c \in Calls :
          Remove(c) \/ RemoveCheck(c) \/ RemoveFlush(c) \/ RemoveCommit(c) \/ RemoveSecret(c)
    \/ \E a \in Actors :
          \/ FindCustomer(a) \/ InsertCustomer(a) \/ FindSite(a) \/ InsertSite(a)
          \/ FindDevice(a) \/ InsertDevice(a) \/ FlushFails(a) \/ Cut(a)
    \/ Migrate \/ ListExisting \/ ImportNext \/ ImportSecret \/ CommitMigration
    \/ CliSet \/ CliDelete

Spec == Init /\ [][Next]_vars

-----------------------------------------------------------------------------
(* Rows have ids of their own and refer to committed rows; uncommitted     *)
(* rows are the lock holder's.                                             *)
TypeOK ==
    LET all == customers \cup sites \cup devices
    IN  /\ ids \in Nat /\ calls \in 0..MaxCalls /\ runs \in 0..MaxRuns
        /\ writer \in Actors \cup {None}
        /\ \A r \in all : r.id < ids
        /\ \A r, q \in all : r.id = q.id => r = q
        /\ \A s \in sites : \E c \in customers : s.customer = c.id
        /\ \A d \in devices : \E s \in sites : d.site = s.id
        /\ \A a \in Actors : draft[a] # NoDraft => writer = a
        /\ \A id \in secrets : id < ids
        /\ \A a \in Actors : session[a].pc \in
              {"idle", "customer", "customer_insert", "site", "site_insert", "find",
               "device_insert", "commit", "rm_check", "rm_flush", "rm_commit",
               "rm_keyring", "list", "next", "secret", "done"}

(* However registrations and a migration overlap, no two customers share a *)
(* name, no two sites of a customer, no two devices of a site: what        *)
(* get_or_create_* and create_device look up has at most one answer.       *)
NamesUnique ==
    /\ \A c, b \in customers : c.name = b.name => c = b
    /\ \A s, t \in sites : s.customer = t.customer /\ s.name = t.name => s = t
    /\ \A d, e \in devices : d.site = e.site /\ d.name = e.name => d = e

(* The device d is at the named site of the named customer. *)
Located(d, site, customer) ==
    \E s \in sites, c \in customers :
        d.site = s.id /\ s.name = site /\ s.customer = c.id /\ c.name = customer

(* A device_id that inventory_register_device_pending returned is the id   *)
(* of a row, with the name asked for, at the site and customer asked for,  *)
(* until the device is removed.                                            *)
RegisteredIsFound ==
    \A claim \in hist.registered :
        \/ claim.id \in hist.removed
        \/ \E d \in devices : /\ d.id = claim.id /\ d.name = claim.name
                              /\ Located(d, claim.site, claim.customer)

(* A registration or migration that fails leaves nothing behind: every     *)
(* customer has a site, and every site has, or once had, a device.         *)
NothingHalfRegistered ==
    /\ \A c \in customers : \E s \in sites : s.customer = c.id
    /\ \A s \in sites : s.id \in hist.peopled

(* A secret in the keyring belongs to a device with a row, to one a        *)
(* running migration is about to commit, or to one whose removal is about  *)
(* to get to it.  There are three ways to leave one behind and no other: a *)
(* removal that ends between its commit and the keyring, a migration that  *)
(* rolls back after writing secrets, and a secret written under an id that *)
(* had no row: its device was already gone, or the id was mistyped.        *)
OrphansExplained ==
    \A id \in secrets :
        \/ HasRow(id)
        \/ \E c \in Calls : At(c, "rm_keyring") /\ session[c].did = id
        \/ id \in hist.cut \cup hist.undone \cup hist.belated

(* After a migration that finished, each device of config.json has its row *)
(* at the migration's customer and site and, if the file has a secret for  *)
(* it, the secret is in the keyring - except for devices removed, and      *)
(* secrets deleted by hand, in the meantime.                               *)
MigratedIsThere ==
    hist.migrated # {} =>
        \A name \in Configured :
            \E d \in hist.migrated :
                /\ d.name = name
                /\ \/ d.id \in hist.removed
                   \/ /\ d \in devices /\ Located(d, LegacySite, LegacyCustomer)
                      /\ name \in WithSecret => d.id \in secrets \cup hist.erased

(* inventory_remove_device deletes a secret only once its device's row is  *)
(* gone: a removal that fails leaves the device usable.                    *)
SecretOutlivesRow ==
    [][\A id \in secrets \ secrets' :
          id \in hist'.erased \/ ~\E d \in devices : d.id = id]_vars

=============================================================================
