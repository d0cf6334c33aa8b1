-------------------------- MODULE InventoryProofs ---------------------------
(***************************************************************************)
(* Proofs about Inventory and DeviceResolver.  IInv (InventoryInvariants)  *)
(* is inductive: the types, then the lock, then what every session sees,   *)
(* then what each session knows at its place, then removals, the           *)
(* migration's loop and the history.  Every step moves one session and     *)
(* takes nothing the others rely on (OneMoves, OthersKeep), so that each   *)
(* action has to be looked at for its own session only.                    *)
(***************************************************************************)
EXTENDS InventoryInvariants, DeviceResolver, SequenceTheorems, FiniteSetTheorems, TLAPS

(* No actor is None, and the migration is none of the calls. *)
LEMMA ActorsFact ==
    /\ Calls \subseteq Actors /\ Migration \in Actors /\ Migration \notin Calls
    /\ None \notin Actors /\ None \notin Nat
    /\ LegacyCustomer \in Customers /\ LegacySite \in Sites /\ Config \in Seq(Names)
    /\ Configured \subseteq Names
<1>1. \A i \in 1..Len(Config) : Config[i] \in Names
  BY InventoryAssumption, ElementOfSeq
<1> QED BY <1>1, InventoryAssumption DEF Actors, Configured

(* The types hold at first. *)
LEMMA TypeInit == Init => TypeInv
BY InventoryAssumption, ActorsFact DEF Init, TypeInv, RowTypes, SessionTypes, ImportTypes, HistoryTypes, Drafts, Sessions, Histories, NoDraft, Asleep, NoImport, NoHistory, Places, NoRow

(* The ids the CLI is given are numbers. *)
LEMMA GivenIds == TypeInv => Given \in SUBSET Nat
<1> SUFFICES ASSUME TypeInv, NEW id \in Given PROVE id \in Nat
  OBVIOUS
<1>1. ASSUME NEW claim \in hist.registered PROVE claim.id \in Nat
  BY DEF TypeInv, HistoryTypes, Histories, Claims
<1>2. ASSUME NEW d \in devices PROVE d.id \in Nat
  BY DEF TypeInv, RowTypes, DeviceRows
<1>3. hist.removed \in SUBSET Nat
  BY DEF TypeInv, HistoryTypes, Histories
<1> QED BY <1>1, <1>2, <1>3 DEF Given, NoRow

(* InsertCustomer(a) spelled out: the guard and the new values. *)
LEMMA InsertCustomerEffect ==
    ASSUME TypeInv, NEW a \in Actors, InsertCustomer(a)
    PROVE  /\ session[a].pc = "customer_insert" /\ writer \in {None, a} /\ writer' = a
           /\ \A c \in customers : c.name # session[a].customer
           /\ draft' = [draft EXCEPT ![a] = [draft[a] EXCEPT !.customers =
                            draft[a].customers \cup {CustomerRow(ids, session[a].customer)}]]
           /\ session' = [session EXCEPT ![a] = [session[a] EXCEPT !.pc = "site", !.cid = ids]]
           /\ Found(a, "site", "cid", ids)
           /\ ids' = ids + 1
           /\ UNCHANGED <<rows, imported, secrets, calls, runs, hist>>
BY DEF InsertCustomer, Insert, Flush, Taken, At, Found, TypeInv, RowTypes, SessionTypes, ImportTypes, HistoryTypes, Drafts, Sessions, rows


(* The same for InsertSite(a). *)
LEMMA InsertSiteEffect ==
    ASSUME TypeInv, NEW a \in Actors, InsertSite(a)
    PROVE  /\ session[a].pc = "site_insert" /\ writer \in {None, a} /\ writer' = a
           /\ \A s \in sites : ~(s.customer = session[a].cid /\ s.name = session[a].site)
           /\ draft' = [draft EXCEPT ![a] = [draft[a] EXCEPT !.sites =
                  draft[a].sites \cup {SiteRow(ids, session[a].cid, session[a].site)}]]
           /\ session' = [session EXCEPT ![a] = [session[a] EXCEPT
                  !.pc = IF a = Migration THEN "list" ELSE "find", !.sid = ids]]
           /\ Found(a, IF a = Migration THEN "list" ELSE "find", "sid", ids)
           /\ ids' = ids + 1
           /\ UNCHANGED <<rows, imported, secrets, calls, runs, hist>>
BY DEF InsertSite, Insert, Flush, Taken, At, Found, TypeInv, RowTypes, SessionTypes, ImportTypes, HistoryTypes, Drafts, Sessions, rows

(* The same for InsertDevice(a). *)
LEMMA InsertDeviceEffect ==
    ASSUME TypeInv, NEW a \in Actors, InsertDevice(a)
    PROVE  /\ session[a].pc = "device_insert" /\ writer \in {None, a} /\ writer' = a
           /\ \A d \in devices : ~(d.site = session[a].sid /\ d.name = session[a].name)
           /\ draft' = [draft EXCEPT ![a] = [draft[a] EXCEPT !.devices =
                  draft[a].devices \cup {DeviceRow(ids, session[a].sid, session[a].name)}]]
           /\ session' = [session EXCEPT ![a] = [session[a] EXCEPT
                  !.pc = IF a = Migration THEN "secret" ELSE "commit", !.did = ids]]
           /\ Found(a, IF a = Migration THEN "secret" ELSE "commit", "did", ids)
           /\ ids' = ids + 1
           /\ UNCHANGED <<rows, imported, secrets, calls, runs, hist>>
BY DEF InsertDevice, Insert, Flush, Taken, At, Found, TypeInv, RowTypes, SessionTypes, ImportTypes, HistoryTypes, Drafts, Sessions, rows

(* The SELECTs spelled out: nothing but the session changes. *)
LEMMA FindCustomerEffect ==
    ASSUME TypeInv, NEW a \in Actors, FindCustomer(a)
    PROVE  /\ session[a].pc = "customer"
           /\ \/ /\ session' = [session EXCEPT ![a] = [session[a] EXCEPT !.pc = "customer_insert"]]
                 /\ Goto(a, "customer_insert")
              \/ \E c \in CustomersSeenBy(a) :
                    /\ c.name = session[a].customer
                    /\ session' = [session EXCEPT ![a] =
                                      [session[a] EXCEPT !.pc = "site", !.cid = c.id]]
                    /\ Found(a, "site", "cid", c.id)
           /\ UNCHANGED <<rows, writer, draft, imported, secrets, ids, calls, runs, hist>>
BY DEF FindCustomer, CustomerNamed, At, Goto, Found, TypeInv, RowTypes, SessionTypes, ImportTypes, HistoryTypes, Drafts, Sessions, rows

(* The same for FindSite(a). *)
LEMMA FindSiteEffect ==
    ASSUME TypeInv, NEW a \in Actors, FindSite(a)
    PROVE  /\ session[a].pc = "site"
           /\ \/ /\ session' = [session EXCEPT ![a] = [session[a] EXCEPT !.pc = "site_insert"]]
                 /\ Goto(a, "site_insert")
              \/ \E s \in SitesSeenBy(a) :
                    /\ s.customer = session[a].cid /\ s.name = session[a].site
                    /\ session' = [session EXCEPT ![a] = [session[a] EXCEPT
                          !.pc = IF a = Migration THEN "list" ELSE "find", !.sid = s.id]]
                    /\ Found(a, IF a = Migration THEN "list" ELSE "find", "sid", s.id)
           /\ UNCHANGED <<rows, writer, draft, imported, secrets, ids, calls, runs, hist>>
BY DEF FindSite, SiteNamed, At, Goto, Found, TypeInv, RowTypes, SessionTypes, ImportTypes, HistoryTypes, Drafts, Sessions, rows

(* A removal begins with the id of a committed device. *)
LEMMA RemoveEffect ==
    ASSUME TypeInv, NEW c \in Calls, Remove(c)
    PROVE  /\ session[c].pc = "idle"
           /\ \E d \in devices :
                     /\ session' = [session EXCEPT ![c] =
                                [session[c] EXCEPT !.pc = "rm_check", !.did = d.id]]
                     /\ Found(c, "rm_check", "did", d.id)
           /\ calls < MaxCalls /\ calls' = calls + 1
           /\ UNCHANGED <<rows, writer, draft, imported, secrets, ids, runs, hist>>
<1>1. DOMAIN session = Actors /\ session[c] \in Sessions
  BY ActorsFact DEF TypeInv, SessionTypes
<1>2. ASSUME NEW d \in devices, Found(c, "rm_check", "did", d.id)
      PROVE  session' = [session EXCEPT ![c] = [session[c] EXCEPT !.pc = "rm_check", !.did = d.id]]
  BY <1>1, <1>2, ActorsFact DEF Found, Sessions
<1> QED BY <1>2 DEF Remove, Call, At, rows

(* The loop's turn: the next name, listed or not. *)
LEMMA ImportNextEffect ==
    ASSUME TypeInv, ImportNext
    PROVE  /\ session[Migration].pc = "next" /\ imported.todo # << >>
           /\ \/ /\ \A d \in imported.known : d.name # Head(imported.todo)
                 /\ session' = [session EXCEPT ![Migration] = [session[Migration] EXCEPT
                       !.pc = "find", !.name = Head(imported.todo), !.did = None]]
              \/ \E d \in imported.known :
                    /\ d.name = Head(imported.todo)
                    /\ session' = [session EXCEPT ![Migration] = [session[Migration] EXCEPT
                          !.pc = "secret", !.name = Head(imported.todo), !.did = d.id]]
           /\ UNCHANGED <<rows, writer, draft, imported, secrets, ids, calls, runs, hist>>
BY ActorsFact DEF ImportNext, At, TypeInv, RowTypes, SessionTypes, ImportTypes, HistoryTypes, Drafts, Sessions, rows

(* The rest of config.json's names are names. *)
LEMMA TodoNames ==
    ASSUME TypeInv, imported.todo # << >>
    PROVE  /\ Head(imported.todo) \in Names /\ Tail(imported.todo) \in Seq(Names)
           /\ NamesIn(imported.todo) = {Head(imported.todo)} \cup NamesIn(Tail(imported.todo))
<1> DEFINE t == imported.todo
<1>1. t \in Seq(Names) /\ t # << >>
  BY DEF TypeInv, RowTypes, SessionTypes, ImportTypes, HistoryTypes, Drafts, Sessions
<1>2. Head(t) \in Names /\ Tail(t) \in Seq(Names)
  BY <1>1
<1>3. /\ Len(t) \in Nat /\ Len(t) > 0 /\ Len(Tail(t)) = Len(t) - 1 /\ Head(t) = t[1]
      /\ \A i \in 1..Len(Tail(t)) : Tail(t)[i] = t[i + 1]
  BY <1>1
<1>4. ASSUME NEW i \in 1..Len(t) PROVE t[i] = Head(t) \/ \E j \in 1..Len(Tail(t)) : t[i] = Tail(t)[j]
  <2>1. CASE i = 1
    BY <1>3, <2>1
  <2>2. CASE i # 1
    <3>1. i - 1 \in 1..Len(Tail(t)) /\ (i - 1) + 1 = i
      BY <1>3, <2>2
    <3> QED BY <1>3, <3>1
  <2> QED BY <2>1, <2>2
<1>5. ASSUME NEW j \in 1..Len(Tail(t)) PROVE \E i \in 1..Len(t) : Tail(t)[j] = t[i]
  <2>1. j + 1 \in 1..Len(t)
    BY <1>3
  <2> QED BY <2>1, <1>3
<1>6. 1 \in 1..Len(t)
  BY <1>3
<1>7. NamesIn(t) \subseteq {Head(t)} \cup NamesIn(Tail(t))
  BY <1>4 DEF NamesIn
<1>8. NamesIn(Tail(t)) \subseteq NamesIn(t)
  BY <1>5 DEF NamesIn
<1>9. Head(t) \in NamesIn(t)
  BY <1>3, <1>6 DEF NamesIn
<1> QED BY <1>2, <1>7, <1>8, <1>9

(* What a session has found out by the time it is somewhere. *)
LEMMA Knows ==
    ASSUME TypeInv, NEW a \in Actors, SessionInv(a)
    PROVE  /\ session[a].pc \in Places /\ session[a] \in Sessions /\ draft[a] \in Drafts
           /\ session[a].pc \in AtSite \cup AfterSite =>
                 /\ session[a].cid \in Nat
                 /\ \A c \in draft[a].customers : c.id = session[a].cid
           /\ session[a].pc \in AfterSite => session[a].sid \in Nat
           /\ session[a].pc \in {"customer", "customer_insert"} \cup AtSite \cup AfterSite =>
                 session[a].customer \in Customers /\ session[a].site \in Sites
           /\ session[a].pc \in {"commit", "secret", "find", "device_insert"} =>
                 session[a].name \in Names
           /\ session[a].pc \in {"commit", "secret"} \cup Removing => session[a].did \in Nat
<1>1. session[a] \in Sessions /\ draft[a] \in Drafts
  BY DEF TypeInv, SessionTypes, RowTypes
<1>2. \A c \in CustomersSeenBy(a) : c.id \in Nat
  BY <1>1 DEF CustomersSeenBy, TypeInv, RowTypes, Drafts, CustomerRows
<1>3. \A s \in SitesSeenBy(a) : s.id \in Nat
  BY <1>1 DEF SitesSeenBy, TypeInv, RowTypes, Drafts, SiteRows
<1>4. session[a].pc \in Places
  BY <1>1 DEF Sessions
<1>5. session[a].pc \in AtSite \cup AfterSite => session[a].cid \in Nat
  BY <1>2 DEF SessionInv, HasCustomer
<1>6. session[a].pc \in AfterSite => session[a].sid \in Nat
  BY <1>3 DEF SessionInv, HasSite
<1> QED
  BY <1>1, <1>4, <1>5, <1>6 DEF SessionInv

(* Rows, drafts and the lock keep their types. *)
LEMMA RowTypeStep ==
    ASSUME TypeInv, \A a \in Actors : SessionInv(a), Next PROVE RowTypes'
<1> USE ActorsFact, InventoryAssumption DEF rows
<1>1. ASSUME UNCHANGED <<rows, writer, draft, ids>> PROVE RowTypes'
  BY <1>1 DEF TypeInv, RowTypes
<1>2. ASSUME NEW a \in Actors, Abort(a) PROVE RowTypes'
  BY <1>2 DEF Abort, NoDraft, Drafts, TypeInv, RowTypes
<1>3. ASSUME NEW a \in Actors, Publish(a), UNCHANGED ids PROVE RowTypes'
  <2>1. NoDraft \in Drafts
    BY DEF NoDraft, Drafts
  <2>2. draft[a] \in Drafts
    BY DEF TypeInv, RowTypes
  <2>3. /\ draft[a].customers \subseteq CustomerRows /\ draft[a].sites \subseteq SiteRows
        /\ draft[a].devices \subseteq DeviceRows
    BY <2>2 DEF Drafts
  <2> QED BY <1>3, <2>1, <2>3 DEF Publish, TypeInv, RowTypes
<1>4. ASSUME NEW c \in Calls, RemoveFlush(c) PROVE RowTypes'
  BY <1>4 DEF RemoveFlush, Flush, TypeInv, RowTypes
<1>5. ASSUME NEW c \in Calls, RemoveCommit(c) PROVE RowTypes'
  BY <1>5 DEF RemoveCommit, TypeInv, RowTypes
<1>6. ASSUME NEW a \in Actors, InsertCustomer(a) PROVE RowTypes'
  <2>1. ids \in Nat /\ draft[a] \in Drafts /\ session[a].customer \in Customers
    BY <1>6, Knows, InsertCustomerEffect DEF TypeInv, RowTypes
  <2>2. CustomerRow(ids, session[a].customer) \in CustomerRows
    BY <2>1 DEF CustomerRow, CustomerRows
  <2> DEFINE new == [draft[a] EXCEPT !.customers = draft[a].customers \cup {CustomerRow(ids, session[a].customer)}]
  <2>3. new \in Drafts
    BY <2>1, <2>2 DEF Drafts
  <2>4. /\ draft' = [draft EXCEPT ![a] = new] /\ writer' = a /\ ids' = ids + 1
        /\ UNCHANGED rows
    BY <1>6, InsertCustomerEffect
  <2>5. ids + 1 \in Nat \ {NoRow}
    BY <2>1 DEF NoRow
  <2> HIDE DEF new
  <2> QED
    BY <2>3, <2>4, <2>5 DEF TypeInv, RowTypes
<1>7. ASSUME NEW a \in Actors, InsertSite(a) PROVE RowTypes'
  <2>1. ids \in Nat /\ draft[a] \in Drafts /\ session[a].cid \in Nat /\ session[a].site \in Sites
    BY <1>7, Knows, InsertSiteEffect DEF TypeInv, RowTypes, AtSite
  <2>2. SiteRow(ids, session[a].cid, session[a].site) \in SiteRows
    BY <2>1 DEF SiteRow, SiteRows
  <2> DEFINE new == [draft[a] EXCEPT !.sites = draft[a].sites \cup {SiteRow(ids, session[a].cid, session[a].site)}]
  <2>3. new \in Drafts
    BY <2>1, <2>2 DEF Drafts
  <2>4. /\ draft' = [draft EXCEPT ![a] = new] /\ writer' = a /\ ids' = ids + 1
        /\ UNCHANGED rows
    BY <1>7, InsertSiteEffect
  <2>5. ids + 1 \in Nat \ {NoRow}
    BY <2>1 DEF NoRow
  <2> HIDE DEF new
  <2> QED
    BY <2>3, <2>4, <2>5 DEF TypeInv, RowTypes
<1>8. ASSUME NEW a \in Actors, InsertDevice(a) PROVE RowTypes'
  <2>1. ids \in Nat /\ draft[a] \in Drafts /\ session[a].sid \in Nat /\ session[a].name \in Names
    BY <1>8, Knows, InsertDeviceEffect DEF TypeInv, RowTypes, AfterSite
  <2>2. DeviceRow(ids, session[a].sid, session[a].name) \in DeviceRows
    BY <2>1 DEF DeviceRow, DeviceRows
  <2> DEFINE new == [draft[a] EXCEPT !.devices = draft[a].devices \cup {DeviceRow(ids, session[a].sid, session[a].name)}]
  <2>3. new \in Drafts
    BY <2>1, <2>2 DEF Drafts
  <2>4. /\ draft' = [draft EXCEPT ![a] = new] /\ writer' = a /\ ids' = ids + 1
        /\ UNCHANGED rows
    BY <1>8, InsertDeviceEffect
  <2>5. ids + 1 \in Nat \ {NoRow}
    BY <2>1 DEF NoRow
  <2> HIDE DEF new
  <2> QED
    BY <2>3, <2>4, <2>5 DEF TypeInv, RowTypes
<1>9. ASSUME NEW c \in Calls, Register(c) \/ Remove(c) \/ RemoveSecret(c) PROVE RowTypes'
  BY <1>9, <1>1 DEF Register, Remove, RemoveSecret
<1>10. ASSUME NEW a \in Actors, FindCustomer(a) \/ FindSite(a) PROVE RowTypes'
  BY <1>10, <1>1 DEF FindCustomer, FindSite
<1>11. ASSUME Migrate \/ ListExisting \/ ImportNext \/ ImportSecret \/ CliSet \/ CliDelete
       PROVE RowTypes'
  BY <1>11, <1>1 DEF Migrate, ListExisting, ImportNext, ImportSecret, CliSet, CliDelete
<1>12. ASSUME NEW c \in Calls, RemoveCheck(c) PROVE RowTypes'
  BY <1>12, <1>1, <1>2 DEF RemoveCheck
<1>13. ASSUME NEW a \in Actors, FindDevice(a) \/ FlushFails(a) \/ Cut(a) PROVE RowTypes'
  BY <1>13, <1>1, <1>2 DEF FindDevice, FlushFails, Cut
<1>14. ASSUME NEW c \in Calls, CommitRegistration(c) PROVE RowTypes'
  BY <1>14, <1>3 DEF CommitRegistration
<1>15. ASSUME CommitMigration PROVE RowTypes'
  BY <1>15, <1>3 DEF CommitMigration
<1> QED
  BY <1>4, <1>5, <1>6, <1>7, <1>8, <1>9, <1>10, <1>11, <1>12, <1>13, <1>14, <1>15 DEF Next

(* Only one session moves at a time. *)
LEMMA SessionMoved ==
    ASSUME SessionTypes, NEW a \in Actors, NEW s \in Sessions,
           session' = [session EXCEPT ![a] = s]
    PROVE  SessionTypes' /\ session'[a] = s /\ \A b \in Actors \ {a} : session'[b] = session[b]
BY DEF SessionTypes

(* The records sessions become are sessions. *)
LEMMA SessionMoves ==
    /\ Asleep \in Sessions
    /\ \A s \in Sessions, pc \in Places : [s EXCEPT !.pc = pc] \in Sessions
    /\ \A s \in Sessions, pc \in Places, id \in Nat :
          /\ [s EXCEPT !.pc = pc, !.cid = id] \in Sessions
          /\ [s EXCEPT !.pc = pc, !.sid = id] \in Sessions
          /\ [s EXCEPT !.pc = pc, !.did = id] \in Sessions
    /\ \A s \in Sessions, pc \in Places, name \in Names, id \in Nat \cup {None} :
          [s EXCEPT !.pc = pc, !.name = name, !.did = id] \in Sessions
    /\ \A pc \in Places, customer \in Customers, site \in Sites, name \in Names \cup {None} :
          [Asleep EXCEPT !.pc = pc, !.customer = customer, !.site = site, !.name = name]
              \in Sessions
    /\ \A pc \in Places, customer \in Customers, site \in Sites :
          [Asleep EXCEPT !.pc = pc, !.customer = customer, !.site = site] \in Sessions
    /\ [Asleep EXCEPT !.pc = "done"] \in Sessions
<1> "idle" \in Places /\ "done" \in Places
  BY DEF Places
<1> QED BY DEF Asleep, Sessions

(* Sessions keep their types. *)
LEMMA SessionTypeStep ==
    ASSUME TypeInv, Next PROVE SessionTypes'
<1> USE ActorsFact, SessionMoves DEF rows
<1>0. SessionTypes /\ RowTypes /\ \A a \in Actors : session[a] \in Sessions /\ draft[a] \in Drafts
  BY DEF TypeInv, SessionTypes, RowTypes
<1>1. /\ \A c \in customers : c.id \in Nat
      /\ \A s \in sites : s.id \in Nat
      /\ \A d \in devices : d.id \in Nat
      /\ \A a \in Actors : \A c \in CustomersSeenBy(a) : c.id \in Nat
      /\ \A a \in Actors : \A s \in SitesSeenBy(a) : s.id \in Nat
  BY <1>0 DEF RowTypes, Drafts, CustomerRows, SiteRows, DeviceRows, CustomersSeenBy, SitesSeenBy
<1>2. ASSUME NEW a \in Actors, NEW pc \in Places, Goto(a, pc) PROVE SessionTypes'
  <2>1. session' = [session EXCEPT ![a] = [session[a] EXCEPT !.pc = pc]]
    BY <1>0, <1>2 DEF Goto
  <2> QED BY <1>0, <2>1, SessionMoved
<1>3. ASSUME NEW a \in Actors, Abort(a) PROVE SessionTypes'
  BY <1>0, <1>3, SessionMoved DEF Abort
<1>4. ASSUME NEW c \in Calls, Register(c) PROVE SessionTypes'
  BY <1>0, <1>4, SessionMoved DEF Register, Places
<1>5. ASSUME NEW c \in Calls, CommitRegistration(c) \/ RemoveSecret(c) PROVE SessionTypes'
  BY <1>0, <1>5, SessionMoved DEF CommitRegistration, RemoveSecret
<1>6. ASSUME NEW c \in Calls, Remove(c) PROVE SessionTypes'
  <2>1. PICK d \in devices : session' = [session EXCEPT ![c] =
                                [session[c] EXCEPT !.pc = "rm_check", !.did = d.id]]
    BY <1>6, RemoveEffect
  <2>2. [session[c] EXCEPT !.pc = "rm_check", !.did = d.id] \in Sessions
    BY <1>0, <1>1 DEF Places
  <2> QED BY <1>0, <2>1, <2>2, SessionMoved
<1>7. ASSUME NEW c \in Calls, RemoveCheck(c) \/ RemoveFlush(c) \/ RemoveCommit(c) PROVE SessionTypes'
  BY <1>2, <1>3, <1>7 DEF RemoveCheck, RemoveFlush, RemoveCommit, Places
<1>8. ASSUME NEW a \in Actors, FindCustomer(a) PROVE SessionTypes'
  <2>1. /\ [session[a] EXCEPT !.pc = "customer_insert"] \in Sessions
        /\ \A c \in CustomersSeenBy(a) : [session[a] EXCEPT !.pc = "site", !.cid = c.id] \in Sessions
    BY <1>0, <1>1 DEF Places
  <2> QED BY <1>0, <1>8, <2>1, FindCustomerEffect, SessionMoved
<1>9. ASSUME NEW a \in Actors, FindSite(a) PROVE SessionTypes'
  <2> DEFINE pc == IF a = Migration THEN "list" ELSE "find"
  <2>1. /\ [session[a] EXCEPT !.pc = "site_insert"] \in Sessions
        /\ \A s \in SitesSeenBy(a) : [session[a] EXCEPT !.pc = pc, !.sid = s.id] \in Sessions
    BY <1>0, <1>1 DEF Places
  <2> QED BY <1>0, <1>9, <2>1, FindSiteEffect, SessionMoved
<1>10. ASSUME NEW a \in Actors, InsertCustomer(a) PROVE SessionTypes'
  <2>1. [session[a] EXCEPT !.pc = "site", !.cid = ids] \in Sessions
    BY <1>0 DEF Places, RowTypes
  <2> QED BY <1>0, <1>10, <2>1, InsertCustomerEffect, SessionMoved
<1>11. ASSUME NEW a \in Actors, InsertSite(a) PROVE SessionTypes'
  <2>1. [session[a] EXCEPT !.pc = IF a = Migration THEN "list" ELSE "find", !.sid = ids] \in Sessions
    BY <1>0 DEF Places, RowTypes
  <2> QED BY <1>0, <1>11, <2>1, InsertSiteEffect, SessionMoved
<1>12. ASSUME NEW a \in Actors, InsertDevice(a) PROVE SessionTypes'
  <2>1. [session[a] EXCEPT !.pc = IF a = Migration THEN "secret" ELSE "commit", !.did = ids]
            \in Sessions
    BY <1>0 DEF Places, RowTypes
  <2> QED BY <1>0, <1>12, <2>1, InsertDeviceEffect, SessionMoved
<1>13. ASSUME NEW a \in Actors, FindDevice(a) \/ FlushFails(a) \/ Cut(a) PROVE SessionTypes'
  BY <1>2, <1>3, <1>13 DEF FindDevice, FlushFails, Cut, Places
<1>14. CASE Migrate
  BY <1>0, <1>14, SessionMoved DEF Migrate, Places
<1>15. CASE ListExisting \/ ImportSecret
  BY <1>2, <1>15 DEF ListExisting, ImportSecret, Places
<1>16. CASE ImportNext
  <2>1. Head(imported.todo) \in Names
    BY <1>16, ImportNextEffect, TodoNames
  <2>2. \A d \in imported.known : d.id \in Nat
    BY DEF TypeInv, ImportTypes, DeviceRows
  <2>3. /\ [session[Migration] EXCEPT !.pc = "find", !.name = Head(imported.todo), !.did = None]
              \in Sessions
        /\ \A d \in imported.known :
              [session[Migration] EXCEPT !.pc = "secret", !.name = Head(imported.todo), !.did = d.id]
              \in Sessions
    BY <1>0, <2>1, <2>2 DEF Places
  <2> QED BY <1>0, <1>16, <2>3, ImportNextEffect, SessionMoved
<1>17. CASE CommitMigration
  BY <1>0, <1>17, SessionMoved DEF CommitMigration
<1>18. CASE CliSet \/ CliDelete
  BY <1>0, <1>18 DEF CliSet, CliDelete, SessionTypes
<1> QED
  BY <1>4, <1>5, <1>6, <1>7, <1>8, <1>9, <1>10, <1>11, <1>12, <1>13, <1>14, <1>15, <1>16, <1>17,
     <1>18 DEF Next

(* The migration's loop, the keyring and the counters keep their types. *)
LEMMA ImportTypeStep ==
    ASSUME TypeInv, \A a \in Actors : SessionInv(a), ImportInv, Next PROVE ImportTypes'
<1> USE ActorsFact, InventoryAssumption DEF rows
<1>0. /\ imported \in [todo : Seq(Names), known : SUBSET DeviceRows] /\ secrets \in SUBSET Nat
      /\ calls \in 0..MaxCalls /\ runs \in 0..MaxRuns
  BY DEF TypeInv, ImportTypes
<1>1. ASSUME UNCHANGED <<imported, secrets, calls, runs>> PROVE ImportTypes'
  BY <1>0, <1>1 DEF ImportTypes
<1>2. NoImport \in [todo : Seq(Names), known : SUBSET DeviceRows]
  BY DEF NoImport
<1>3. ASSUME NEW a \in Actors, Abort(a) PROVE ImportTypes'
  BY <1>0, <1>2, <1>3 DEF Abort, ImportTypes
<1>4. ASSUME NEW c \in Calls, Register(c) PROVE ImportTypes'
  BY <1>0, <1>4 DEF Register, Call, ImportTypes
<1>5. ASSUME NEW c \in Calls, CommitRegistration(c) PROVE ImportTypes'
  BY <1>1, <1>5 DEF CommitRegistration
<1>6. ASSUME NEW c \in Calls, Remove(c) PROVE ImportTypes'
  <2>1. calls < MaxCalls /\ calls' = calls + 1 /\ UNCHANGED <<imported, secrets, runs>>
    BY <1>6, RemoveEffect
  <2> QED BY <1>0, <2>1 DEF ImportTypes
<1>7. ASSUME NEW c \in Calls, RemoveCheck(c) \/ RemoveFlush(c) \/ RemoveCommit(c) PROVE ImportTypes'
  BY <1>1, <1>3, <1>7 DEF RemoveCheck, RemoveFlush, RemoveCommit
<1>8. ASSUME NEW c \in Calls, RemoveSecret(c) PROVE ImportTypes'
  BY <1>0, <1>8 DEF RemoveSecret, ImportTypes
<1>9. ASSUME NEW a \in Actors, FindCustomer(a) \/ FindSite(a) PROVE ImportTypes'
  BY <1>1, <1>9 DEF FindCustomer, FindSite
<1>10. ASSUME NEW a \in Actors, InsertCustomer(a) \/ InsertSite(a) \/ InsertDevice(a)
       PROVE ImportTypes'
  BY <1>1, <1>10 DEF InsertCustomer, InsertSite, InsertDevice, Insert
<1>11. ASSUME NEW a \in Actors, FindDevice(a) \/ FlushFails(a) \/ Cut(a) PROVE ImportTypes'
  BY <1>1, <1>3, <1>11 DEF FindDevice, FlushFails, Cut
<1>12. CASE Migrate
  BY <1>0, <1>12 DEF Migrate, ImportTypes
<1>13. CASE ListExisting
  <2>1. DevicesAt(session[Migration].sid) \in SUBSET DeviceRows
    BY DEF DevicesAt, TypeInv, RowTypes
  <2> QED BY <1>0, <1>13, <2>1 DEF ListExisting, ImportTypes
<1>14. CASE ImportNext
  BY <1>1, <1>14 DEF ImportNext
<1>15. CASE ImportSecret
  <2>1. /\ session[Migration].did \in Nat /\ session[Migration].sid \in Nat
        /\ session[Migration].name \in Names
    BY <1>15, Knows DEF ImportSecret, At, AfterSite
  <2>2. DeviceRow(session[Migration].did, session[Migration].sid, session[Migration].name)
            \in DeviceRows
    BY <2>1 DEF DeviceRow, DeviceRows
  <2>3. Tail(imported.todo) \in Seq(Names)
    BY <1>15, TodoNames DEF ImportInv, ImportSecret, At
  <2>4. /\ imported'.todo = Tail(imported.todo)
        /\ imported' \in [todo : Seq(Names), known : SUBSET DeviceRows]
    BY <1>0, <1>15, <2>2, <2>3 DEF ImportSecret
  <2>5. secrets' \in SUBSET Nat /\ calls' = calls /\ runs' = runs
    BY <1>0, <1>15, <2>1 DEF ImportSecret
  <2> QED BY <1>0, <2>4, <2>5 DEF ImportTypes
<1>16. CASE CommitMigration
  BY <1>0, <1>2, <1>16 DEF CommitMigration, ImportTypes
<1>17. CASE CliSet \/ CliDelete
  <2>1. Given \in SUBSET Nat
    BY GivenIds
  <2> QED BY <1>0, <1>17, <2>1 DEF CliSet, CliDelete, ImportTypes
<1> QED
  BY <1>4, <1>5, <1>6, <1>7, <1>8, <1>9, <1>10, <1>11, <1>12, <1>13, <1>14, <1>15, <1>16, <1>17
  DEF Next

(* The history keeps its type. *)
LEMMA HistoryTypeStep ==
    ASSUME TypeInv, \A a \in Actors : SessionInv(a), Next PROVE HistoryTypes'
<1> USE ActorsFact, InventoryAssumption DEF rows
<1>0. hist \in Histories
  BY DEF TypeInv, HistoryTypes
<1>1. ASSUME UNCHANGED hist PROVE HistoryTypes'
  BY <1>0, <1>1 DEF HistoryTypes
<1>2. ASSUME NEW a \in Actors, NEW d \in draft[a].devices PROVE d.id \in Nat /\ d.site \in Nat
  <2>1. draft[a].devices \in SUBSET DeviceRows
    BY DEF TypeInv, RowTypes, Drafts
  <2> QED BY <1>2, <2>1 DEF DeviceRows
<1>3. ASSUME NEW a \in Actors, Abort(a) PROVE HistoryTypes'
  <2>1. {d.id : d \in draft[a].devices} \in SUBSET Nat
    BY <1>2
  <2>2. At(a, "rm_keyring") => session[a].did \in Nat
    BY Knows DEF At, Removing
  <2>3. hist' = [hist EXCEPT
          !.cut = IF At(a, "rm_keyring") THEN hist.cut \cup {session[a].did} ELSE hist.cut,
          !.undone = hist.undone \cup {d.id : d \in draft[a].devices}]
    BY <1>3 DEF Abort
  <2> QED BY <1>0, <2>1, <2>2, <2>3 DEF HistoryTypes, Histories
<1>4. ASSUME NEW c \in Calls, Register(c) \/ Remove(c) \/ RemoveFlush(c) \/ RemoveSecret(c)
      PROVE HistoryTypes'
  BY <1>1, <1>4 DEF Register, Remove, RemoveFlush, RemoveSecret
<1>5. Peopled \in SUBSET Nat
  BY <1>0, RowTypeStep DEF Peopled, RowTypes, DeviceRows, Histories
<1>6. ASSUME NEW c \in Calls, CommitRegistration(c) PROVE HistoryTypes'
  <2> DEFINE claim == [id |-> session[c].did, customer |-> session[c].customer,
                       site |-> session[c].site, name |-> session[c].name]
  <2>1. claim \in Claims
    BY <1>6, Knows DEF CommitRegistration, At, AfterSite, Claims
  <2>2. hist' = [hist EXCEPT !.registered = hist.registered \cup {claim}, !.peopled = Peopled]
    BY <1>6 DEF CommitRegistration
  <2> HIDE DEF claim
  <2> QED BY <1>0, <1>5, <2>1, <2>2 DEF HistoryTypes, Histories
<1>7. ASSUME NEW c \in Calls, RemoveCheck(c) PROVE HistoryTypes'
  BY <1>1, <1>3, <1>7 DEF RemoveCheck
<1>8. ASSUME NEW c \in Calls, RemoveCommit(c) PROVE HistoryTypes'
  <2>1. session[c].did \in Nat
    BY <1>8, Knows DEF RemoveCommit, At, Removing
  <2> QED BY <1>0, <1>8, <2>1 DEF RemoveCommit, HistoryTypes, Histories
<1>9. ASSUME NEW a \in Actors, FindCustomer(a) \/ FindSite(a) \/ InsertCustomer(a)
                                  \/ InsertSite(a) \/ InsertDevice(a)
      PROVE HistoryTypes'
  BY <1>1, <1>9 DEF FindCustomer, FindSite, InsertCustomer, InsertSite, InsertDevice, Insert
<1>10. ASSUME NEW a \in Actors, FindDevice(a) \/ FlushFails(a) \/ Cut(a) PROVE HistoryTypes'
  BY <1>1, <1>3, <1>10 DEF FindDevice, FlushFails, Cut
<1>11. CASE Migrate \/ ListExisting \/ ImportNext
  BY <1>1, <1>11 DEF Migrate, ListExisting, ImportNext
<1>12. CASE ImportSecret
  <2>1. session[Migration].did \in Nat
    BY <1>12, Knows DEF ImportSecret, At
  <2> QED BY <1>0, <1>12, <2>1 DEF ImportSecret, HistoryTypes, Histories
<1>13. CASE CommitMigration
  <2>1. {d \in imported.known : d.name \in Configured} \in SUBSET DeviceRows
    BY DEF TypeInv, ImportTypes
  <2> QED BY <1>0, <1>5, <1>13, <2>1 DEF CommitMigration, HistoryTypes, Histories
<1>14. CASE CliSet \/ CliDelete
  <2>1. Given \in SUBSET Nat
    BY GivenIds
  <2>2. CASE CliSet
    <3>1. PICK id \in Given :
              hist' = [hist EXCEPT !.erased = hist.erased \ {id},
                  !.belated = IF HasRow(id) THEN hist.belated ELSE hist.belated \cup {id}]
      BY <2>2 DEF CliSet
    <3> QED BY <1>0, <2>1, <3>1 DEF HistoryTypes, Histories
  <2>3. CASE CliDelete
    <3>1. PICK id \in Given :
              hist' = [hist EXCEPT
                  !.erased = IF HasRow(id) THEN hist.erased \cup {id} ELSE hist.erased,
                  !.belated = hist.belated \ {id}]
      BY <2>3 DEF CliDelete
    <3> QED BY <1>0, <2>1, <3>1 DEF HistoryTypes, Histories
  <2> QED BY <1>14, <2>2, <2>3
<1> QED
  BY <1>4, <1>6, <1>7, <1>8, <1>9, <1>10, <1>11, <1>12, <1>13, <1>14 DEF Next

(* Every step keeps the types. *)
LEMMA TypeStep ==
    ASSUME TypeInv, \A a \in Actors : SessionInv(a), ImportInv, Next PROVE TypeInv'
BY RowTypeStep, SessionTypeStep, ImportTypeStep, HistoryTypeStep DEF TypeInv

-----------------------------------------------------------------------------
(* What a step does to the rows. *)
RowsKept == UNCHANGED <<rows, draft, ids>>

Inserts(a) == InsertCustomer(a) \/ InsertSite(a) \/ InsertDevice(a)

(* The steps, by what they do to the rows and the drafts. *)
LEMMA RowKinds ==
    ASSUME Next
    PROVE  \/ RowsKept /\ UNCHANGED writer
           \/ \E c \in Calls : RemoveFlush(c) /\ RowsKept
           \/ \E a \in Actors : Inserts(a)
           \/ \E a \in Actors : Abort(a)
           \/ \E a \in Actors : Publish(a) /\ UNCHANGED ids
           \/ \E c \in Calls : RemoveCommit(c)
<1>1. ASSUME NEW c \in Calls, Register(c) \/ Remove(c) \/ RemoveSecret(c)
      PROVE  RowsKept /\ UNCHANGED writer
  BY <1>1 DEF Register, Remove, RemoveSecret, RowsKept
<1>2. ASSUME NEW c \in Calls, RemoveCheck(c) PROVE (RowsKept /\ UNCHANGED writer) \/ Abort(c)
  BY <1>2 DEF RemoveCheck, RowsKept
<1>3. ASSUME NEW c \in Calls, RemoveFlush(c) PROVE RowsKept
  BY <1>3 DEF RemoveFlush, RowsKept
<1>4. ASSUME NEW c \in Calls, CommitRegistration(c) PROVE Publish(c) /\ UNCHANGED ids
  BY <1>4 DEF CommitRegistration
<1>5. ASSUME NEW a \in Actors, FindCustomer(a) \/ FindSite(a) PROVE RowsKept /\ UNCHANGED writer
  BY <1>5 DEF FindCustomer, FindSite, RowsKept
<1>6. ASSUME NEW a \in Actors, FindDevice(a) \/ FlushFails(a) \/ Cut(a)
      PROVE  (RowsKept /\ UNCHANGED writer) \/ Abort(a)
  BY <1>6 DEF FindDevice, FlushFails, Cut, RowsKept
<1>7. ASSUME Migrate \/ ListExisting \/ ImportNext \/ ImportSecret \/ CliSet \/ CliDelete
      PROVE  RowsKept /\ UNCHANGED writer
  BY <1>7 DEF Migrate, ListExisting, ImportNext, ImportSecret, CliSet, CliDelete, RowsKept
<1>8. CommitMigration => Publish(Migration) /\ UNCHANGED ids
  BY DEF CommitMigration
<1> QED
  BY <1>1, <1>2, <1>3, <1>4, <1>5, <1>6, <1>7, <1>8, ActorsFact DEF Next, Inserts

(* An insertion takes the lock and leaves the drafts of the others alone. *)
LEMMA InsertsLock ==
    ASSUME TypeInv, NEW a \in Actors, Inserts(a)
    PROVE  /\ writer \in {None, a} /\ writer' = a /\ ids' = ids + 1 /\ UNCHANGED rows
           /\ \A b \in Actors \ {a} : draft'[b] = draft[b]
BY InsertCustomerEffect, InsertSiteEffect, InsertDeviceEffect DEF Inserts, TypeInv, RowTypes, rows

(* Uncommitted rows stay the lock holder's. *)
LEMMA LockStep ==
    ASSUME TypeInv, LockInv, \A a \in Actors : SessionInv(a), Next PROVE LockInv'
<1> USE ActorsFact
<1>0. DOMAIN draft = Actors
  BY DEF TypeInv, RowTypes
<1>1. ASSUME RowsKept, UNCHANGED writer PROVE LockInv'
  BY <1>1 DEF LockInv, RowsKept
<1>2. ASSUME NEW c \in Calls, RemoveFlush(c), RowsKept PROVE LockInv'
  BY <1>2 DEF RemoveFlush, Flush, LockInv, RowsKept
<1>3. ASSUME NEW a \in Actors, Inserts(a) PROVE LockInv'
  BY <1>3, InsertsLock DEF LockInv
<1>4. ASSUME NEW a \in Actors, Abort(a) PROVE LockInv'
  BY <1>0, <1>4 DEF Abort, LockInv
<1>5. ASSUME NEW a \in Actors, Publish(a) PROVE LockInv'
  BY <1>0, <1>5 DEF Publish, LockInv
<1>6. ASSUME NEW c \in Calls, RemoveCommit(c) PROVE LockInv'
  <2>1. writer = c /\ draft[c] = NoDraft
    BY <1>6 DEF RemoveCommit, At, SessionInv, BeforeSite
  <2> QED BY <1>6, <2>1 DEF RemoveCommit, LockInv
<1> QED BY <1>1, <1>2, <1>3, <1>4, <1>5, <1>6, RowKinds

-----------------------------------------------------------------------------
(* A customer with a new id and a new name keeps an inventory sound. *)
LEMMA AddCustomer ==
    ASSUME NEW n \in Nat, NEW cs, NEW ss, NEW ds, NEW name,
           \A r \in cs \cup ss \cup ds : r.id \in Nat, Sound(n, cs, ss, ds),
           \A c \in cs : c.name # name
    PROVE  Sound(n + 1, cs \cup {CustomerRow(n, name)}, ss, ds)
<1> DEFINE r == CustomerRow(n, name)
<1>1. r.id = n /\ r.name = name
  BY DEF CustomerRow
<1> HIDE DEF r
<1>2. IdsOnce(n + 1, cs \cup {r}, ss, ds)
  BY <1>1 DEF Sound, IdsOnce
<1>3. Linked(cs \cup {r}, ss, ds)
  BY DEF Sound, Linked
<1>4. NamedOnce(cs \cup {r}, ss, ds)
  BY <1>1 DEF Sound, NamedOnce
<1> QED BY <1>2, <1>3, <1>4 DEF Sound, r

(* So does a site of a customer that is there. *)
LEMMA AddSite ==
    ASSUME NEW n \in Nat, NEW cs, NEW ss, NEW ds, NEW cid, NEW name,
           \A r \in cs \cup ss \cup ds : r.id \in Nat, Sound(n, cs, ss, ds),
           \E c \in cs : c.id = cid,
           \A s \in ss : ~(s.customer = cid /\ s.name = name)
    PROVE  Sound(n + 1, cs, ss \cup {SiteRow(n, cid, name)}, ds)
<1> DEFINE r == SiteRow(n, cid, name)
<1>1. r.id = n /\ r.customer = cid /\ r.name = name
  BY DEF SiteRow
<1> HIDE DEF r
<1>2. IdsOnce(n + 1, cs, ss \cup {r}, ds)
  BY <1>1 DEF Sound, IdsOnce
<1>3. Linked(cs, ss \cup {r}, ds)
  BY <1>1 DEF Sound, Linked
<1>4. NamedOnce(cs, ss \cup {r}, ds)
  BY <1>1 DEF Sound, NamedOnce
<1> QED BY <1>2, <1>3, <1>4 DEF Sound, r

(* So does a device of a site that is there. *)
LEMMA AddDevice ==
    ASSUME NEW n \in Nat, NEW cs, NEW ss, NEW ds, NEW sid, NEW name,
           \A r \in cs \cup ss \cup ds : r.id \in Nat, Sound(n, cs, ss, ds),
           \E s \in ss : s.id = sid,
           \A d \in ds : ~(d.site = sid /\ d.name = name)
    PROVE  Sound(n + 1, cs, ss, ds \cup {DeviceRow(n, sid, name)})
<1> DEFINE r == DeviceRow(n, sid, name)
<1>1. r.id = n /\ r.site = sid /\ r.name = name
  BY DEF DeviceRow
<1> HIDE DEF r
<1>2. IdsOnce(n + 1, cs, ss, ds \cup {r})
  BY <1>1 DEF Sound, IdsOnce
<1>3. Linked(cs, ss, ds \cup {r})
  BY <1>1 DEF Sound, Linked
<1>4. NamedOnce(cs, ss, ds \cup {r})
  BY <1>1 DEF Sound, NamedOnce
<1> QED BY <1>2, <1>3, <1>4 DEF Sound, r

(* Fewer rows and ids to come are as sound, if references still lead       *)
(* somewhere.                                                              *)
LEMMA FewerRows ==
    ASSUME NEW n \in Nat, NEW m \in Nat, n <= m, NEW cs, NEW ss, NEW ds,
           \A r \in cs \cup ss \cup ds : r.id \in Nat, Sound(n, cs, ss, ds),
           NEW cs1 \in SUBSET cs, NEW ss1 \in SUBSET ss, NEW ds1 \in SUBSET ds,
           Linked(cs1, ss1, ds1)
    PROVE  Sound(m, cs1, ss1, ds1)
BY DEF Sound, IdsOnce, NamedOnce

(* Every row has a number for an id. *)
LEMMA RowsTyped ==
    ASSUME TypeInv, NEW a \in Actors
    PROVE  /\ \A r \in CustomersSeenBy(a) \cup SitesSeenBy(a) \cup DevicesSeenBy(a) : r.id \in Nat
           /\ \A r \in customers \cup sites \cup devices : r.id \in Nat
BY DEF TypeInv, RowTypes, Drafts, CustomerRows, SiteRows, DeviceRows, CustomersSeenBy,
       SitesSeenBy, DevicesSeenBy

(* What the session sees, and its draft, gain the row inserted. *)
LEMMA InsertCustomerSeen ==
    ASSUME TypeInv, NEW a \in Actors, InsertCustomer(a)
    PROVE  /\ draft'[a].customers = draft[a].customers \cup {CustomerRow(ids, session[a].customer)}
           /\ draft'[a].sites = draft[a].sites /\ draft'[a].devices = draft[a].devices
           /\ CustomersSeenBy(a)' = CustomersSeenBy(a) \cup {CustomerRow(ids, session[a].customer)}
           /\ SitesSeenBy(a)' = SitesSeenBy(a) /\ DevicesSeenBy(a)' = DevicesSeenBy(a)
           /\ ids' = ids + 1
<1> DEFINE new == [draft[a] EXCEPT !.customers = draft[a].customers \cup {CustomerRow(ids, session[a].customer)}]
<1>1. draft' = [draft EXCEPT ![a] = new] /\ ids' = ids + 1 /\ UNCHANGED <<customers, sites, devices>>
  BY InsertCustomerEffect DEF rows
<1>2. /\ new.customers = draft[a].customers \cup {CustomerRow(ids, session[a].customer)}
      /\ new.sites = draft[a].sites /\ new.devices = draft[a].devices
  BY DEF TypeInv, RowTypes, Drafts
<1> HIDE DEF new
<1>3. draft'[a] = new
  BY <1>1 DEF TypeInv, RowTypes
<1> QED BY <1>1, <1>2, <1>3 DEF CustomersSeenBy, SitesSeenBy, DevicesSeenBy

(* What the session sees, and its draft, gain the row inserted. *)
LEMMA InsertSiteSeen ==
    ASSUME TypeInv, NEW a \in Actors, InsertSite(a)
    PROVE  /\ draft'[a].sites = draft[a].sites \cup {SiteRow(ids, session[a].cid, session[a].site)}
           /\ draft'[a].customers = draft[a].customers /\ draft'[a].devices = draft[a].devices
           /\ SitesSeenBy(a)' = SitesSeenBy(a) \cup {SiteRow(ids, session[a].cid, session[a].site)}
           /\ CustomersSeenBy(a)' = CustomersSeenBy(a) /\ DevicesSeenBy(a)' = DevicesSeenBy(a)
           /\ ids' = ids + 1
<1> DEFINE new == [draft[a] EXCEPT !.sites = draft[a].sites \cup {SiteRow(ids, session[a].cid, session[a].site)}]
<1>1. draft' = [draft EXCEPT ![a] = new] /\ ids' = ids + 1 /\ UNCHANGED <<customers, sites, devices>>
  BY InsertSiteEffect DEF rows
<1>2. /\ new.sites = draft[a].sites \cup {SiteRow(ids, session[a].cid, session[a].site)}
      /\ new.customers = draft[a].customers /\ new.devices = draft[a].devices
  BY DEF TypeInv, RowTypes, Drafts
<1> HIDE DEF new
<1>3. draft'[a] = new
  BY <1>1 DEF TypeInv, RowTypes
<1> QED BY <1>1, <1>2, <1>3 DEF CustomersSeenBy, SitesSeenBy, DevicesSeenBy

(* What the session sees, and its draft, gain the row inserted. *)
LEMMA InsertDeviceSeen ==
    ASSUME TypeInv, NEW a \in Actors, InsertDevice(a)
    PROVE  /\ draft'[a].devices = draft[a].devices \cup {DeviceRow(ids, session[a].sid, session[a].name)}
           /\ draft'[a].customers = draft[a].customers /\ draft'[a].sites = draft[a].sites
           /\ DevicesSeenBy(a)' = DevicesSeenBy(a) \cup {DeviceRow(ids, session[a].sid, session[a].name)}
           /\ CustomersSeenBy(a)' = CustomersSeenBy(a) /\ SitesSeenBy(a)' = SitesSeenBy(a)
           /\ ids' = ids + 1
<1> DEFINE new == [draft[a] EXCEPT !.devices = draft[a].devices \cup {DeviceRow(ids, session[a].sid, session[a].name)}]
<1>1. draft' = [draft EXCEPT ![a] = new] /\ ids' = ids + 1 /\ UNCHANGED <<customers, sites, devices>>
  BY InsertDeviceEffect DEF rows
<1>2. /\ new.devices = draft[a].devices \cup {DeviceRow(ids, session[a].sid, session[a].name)}
      /\ new.customers = draft[a].customers /\ new.sites = draft[a].sites
  BY DEF TypeInv, RowTypes, Drafts
<1> HIDE DEF new
<1>3. draft'[a] = new
  BY <1>1 DEF TypeInv, RowTypes
<1> QED BY <1>1, <1>2, <1>3 DEF CustomersSeenBy, SitesSeenBy, DevicesSeenBy

(* What each session sees, and what is committed, stays sound. *)
LEMMA RowsStep ==
    ASSUME TypeInv, LockInv, RowsInv, \A a \in Actors : SessionInv(a), Next PROVE RowsInv'
<1> USE ActorsFact
<1>0. DOMAIN draft = Actors /\ ids \in Nat /\ \A a \in Actors : draft[a] \in Drafts
  BY DEF TypeInv, RowTypes
<1>1. ASSUME RowsKept PROVE RowsInv'
  BY <1>1 DEF RowsKept, RowsInv, CustomersSeenBy, SitesSeenBy, DevicesSeenBy, rows
<1>2. ASSUME NEW a \in Actors, Inserts(a), Sound(ids, CustomersSeenBy(a), SitesSeenBy(a), DevicesSeenBy(a))'
      PROVE  RowsInv'
  <2>1. \A b \in Actors \ {a} : Sound(ids, CustomersSeenBy(b), SitesSeenBy(b), DevicesSeenBy(b))'
    <3>1. TAKE b \in Actors \ {a}
    <3>2. /\ CustomersSeenBy(b)' = CustomersSeenBy(b) /\ SitesSeenBy(b)' = SitesSeenBy(b)
          /\ DevicesSeenBy(b)' = DevicesSeenBy(b) /\ ids' = ids + 1
      BY <1>2, InsertsLock DEF CustomersSeenBy, SitesSeenBy, DevicesSeenBy, rows
    <3>3. Sound(ids, CustomersSeenBy(b), SitesSeenBy(b), DevicesSeenBy(b))
      BY DEF RowsInv
    <3>4. Linked(CustomersSeenBy(b), SitesSeenBy(b), DevicesSeenBy(b))
      BY <3>3 DEF Sound
    <3>5. Sound(ids + 1, CustomersSeenBy(b), SitesSeenBy(b), DevicesSeenBy(b))
      BY <1>0, <3>3, <3>4, RowsTyped, FewerRows
    <3> QED BY <3>2, <3>5
  <2>2. Linked(customers, sites, devices)'
    BY <1>2, InsertsLock DEF RowsInv, rows
  <2> QED BY <1>2, <2>1, <2>2 DEF RowsInv
<1>3. ASSUME NEW a \in Actors, InsertCustomer(a) PROVE RowsInv'
  <2>1. draft[a] = NoDraft
    BY <1>3, InsertCustomerEffect DEF SessionInv, BeforeSite
  <2>2. \A c \in CustomersSeenBy(a) : c.name # session[a].customer
    <3>1. \A c \in customers : c.name # session[a].customer
      BY <1>3, InsertCustomerEffect
    <3>2. CustomersSeenBy(a) = customers
      BY <2>1 DEF CustomersSeenBy, NoDraft
    <3> QED BY <3>1, <3>2
  <2> QED
    BY <1>0, <1>2, <1>3, <2>2, InsertCustomerSeen, RowsTyped, AddCustomer DEF RowsInv, Inserts
<1>4. ASSUME NEW a \in Actors, InsertSite(a) PROVE RowsInv'
  <2>1. draft[a].sites = {} /\ HasCustomer(a)
    BY <1>4, InsertSiteEffect DEF SessionInv, AtSite
  <2>2. \A s \in SitesSeenBy(a) : ~(s.customer = session[a].cid /\ s.name = session[a].site)
    BY <1>4, <2>1, InsertSiteEffect DEF SitesSeenBy
  <2>3. \E c \in CustomersSeenBy(a) : c.id = session[a].cid
    BY <2>1 DEF HasCustomer
  <2> QED
    BY <1>0, <1>2, <1>4, <2>2, <2>3, InsertSiteSeen, RowsTyped, AddSite DEF RowsInv, Inserts
<1>5. ASSUME NEW a \in Actors, InsertDevice(a) PROVE RowsInv'
  <2>1. HasSite(a) /\ \A d \in draft[a].devices : d.name # session[a].name
    BY <1>5, InsertDeviceEffect DEF SessionInv, AfterSite
  <2>2. \A d \in DevicesSeenBy(a) : ~(d.site = session[a].sid /\ d.name = session[a].name)
    BY <1>5, <2>1, InsertDeviceEffect DEF DevicesSeenBy
  <2>3. \E s \in SitesSeenBy(a) : s.id = session[a].sid
    BY <2>1 DEF HasSite
  <2> QED
    BY <1>0, <1>2, <1>5, <2>2, <2>3, InsertDeviceSeen, RowsTyped, AddDevice DEF RowsInv, Inserts
<1>6. ASSUME NEW a \in Actors, Abort(a) PROVE RowsInv'
  <2>1. UNCHANGED <<customers, sites, devices, ids>> /\ draft' = [draft EXCEPT ![a] = NoDraft]
    BY <1>6 DEF Abort, rows
  <2>2. Linked(customers, sites, devices)'
    BY <2>1 DEF RowsInv
  <2>3. ASSUME NEW b \in Actors, b # a
        PROVE  Sound(ids, CustomersSeenBy(b), SitesSeenBy(b), DevicesSeenBy(b))'
    <3>1. draft'[b] = draft[b]
      BY <2>1, <2>3
    <3> QED BY <2>1, <3>1 DEF RowsInv, CustomersSeenBy, SitesSeenBy, DevicesSeenBy
  <2>4. /\ CustomersSeenBy(a)' = customers /\ SitesSeenBy(a)' = sites /\ DevicesSeenBy(a)' = devices
        /\ ids' = ids
    BY <1>0, <2>1 DEF CustomersSeenBy, SitesSeenBy, DevicesSeenBy, NoDraft
  <2>5. Sound(ids, customers, sites, devices)
    <3>1. /\ customers \in SUBSET CustomersSeenBy(a) /\ sites \in SUBSET SitesSeenBy(a)
          /\ devices \in SUBSET DevicesSeenBy(a)
      BY DEF CustomersSeenBy, SitesSeenBy, DevicesSeenBy
    <3> QED BY <1>0, <3>1, RowsTyped, FewerRows DEF RowsInv
  <2> QED BY <2>2, <2>3, <2>4, <2>5 DEF RowsInv
<1>7. ASSUME NEW a \in Actors, Publish(a), UNCHANGED ids PROVE RowsInv'
  <2>1. CASE draft[a] = NoDraft
    <3>1. draft' = draft /\ customers' = customers /\ sites' = sites /\ devices' = devices
      BY <1>0, <1>7, <2>1 DEF Publish, NoDraft, TypeInv, RowTypes
    <3> QED BY <1>1, <1>7, <3>1 DEF RowsKept, rows
  <2>2. CASE draft[a] # NoDraft
    <3>1. \A b \in Actors : draft'[b] = NoDraft
      BY <1>0, <1>7, <2>2 DEF Publish, LockInv
    <3>2. /\ customers' = CustomersSeenBy(a) /\ sites' = SitesSeenBy(a)
          /\ devices' = DevicesSeenBy(a)
      BY <1>7 DEF Publish, CustomersSeenBy, SitesSeenBy, DevicesSeenBy
    <3>3. ASSUME NEW b \in Actors
          PROVE  /\ CustomersSeenBy(b)' = CustomersSeenBy(a) /\ SitesSeenBy(b)' = SitesSeenBy(a)
                 /\ DevicesSeenBy(b)' = DevicesSeenBy(a)
      BY <3>1, <3>2 DEF NoDraft, CustomersSeenBy, SitesSeenBy, DevicesSeenBy
    <3>4. Sound(ids, CustomersSeenBy(a), SitesSeenBy(a), DevicesSeenBy(a))
      BY DEF RowsInv
    <3> QED BY <1>7, <3>2, <3>3, <3>4 DEF RowsInv, Sound
  <2> QED BY <2>1, <2>2
<1>8. ASSUME NEW c \in Calls, RemoveCommit(c) PROVE RowsInv'
  <2>1. /\ UNCHANGED <<customers, sites, draft, ids>> /\ devices' \subseteq devices
    BY <1>8 DEF RemoveCommit
  <2>2. Linked(customers, sites, devices)'
    BY <2>1 DEF RowsInv, Linked
  <2>3. ASSUME NEW a \in Actors
        PROVE  Sound(ids, CustomersSeenBy(a), SitesSeenBy(a), DevicesSeenBy(a))'
    <3>1. /\ CustomersSeenBy(a)' = CustomersSeenBy(a) /\ SitesSeenBy(a)' = SitesSeenBy(a)
          /\ DevicesSeenBy(a)' \in SUBSET DevicesSeenBy(a)
      BY <2>1 DEF CustomersSeenBy, SitesSeenBy, DevicesSeenBy
    <3>2. Linked(CustomersSeenBy(a), SitesSeenBy(a), DevicesSeenBy(a)')
      BY <3>1 DEF RowsInv, Sound, Linked
    <3>3. Sound(ids, CustomersSeenBy(a), SitesSeenBy(a), DevicesSeenBy(a)')
      BY <1>0, <3>1, <3>2, RowsTyped, FewerRows DEF RowsInv
    <3> QED BY <2>1, <3>1, <3>3
  <2> QED BY <2>2, <2>3 DEF RowsInv
<1> QED BY <1>1, <1>3, <1>4, <1>5, <1>6, <1>7, <1>8, RowKinds DEF Inserts
-----------------------------------------------------------------------------
(* A step of another session takes nothing from b: what b sees only grows, *)
(* and the lock stays b's.                                                 *)
Leaves(b) ==
    /\ session'[b] = session[b] /\ draft'[b] = draft[b]
    /\ customers \subseteq customers' /\ sites \subseteq sites'
    /\ writer = b => writer' = b

(* A session that is left alone knows what it knew. *)
LEMMA OthersKeep ==
    ASSUME NEW b \in Actors, SessionInv(b), Leaves(b) PROVE SessionInv(b)'
<1>1. CustomersSeenBy(b) \subseteq CustomersSeenBy(b)' /\ SitesSeenBy(b) \subseteq SitesSeenBy(b)'
  BY DEF Leaves, CustomersSeenBy, SitesSeenBy
<1>2. HasCustomer(b) => HasCustomer(b)'
  BY <1>1 DEF Leaves, HasCustomer
<1>3. HasSite(b) => HasSite(b)'
  BY <1>1 DEF Leaves, HasSite
<1> QED BY <1>2, <1>3 DEF SessionInv, Leaves

(* What a session that moves on has at its new place. *)
LEMMA MovedOn ==
    ASSUME SessionTypes, NEW a \in Actors, NEW pc, Goto(a, pc)
    PROVE  /\ session'[a].pc = pc
           /\ \A b \in Actors \ {a} : session'[b] = session[b]
           /\ session'[a].customer = session[a].customer
           /\ session'[a].site = session[a].site
           /\ session'[a].name = session[a].name
           /\ session'[a].cid = session[a].cid
           /\ session'[a].sid = session[a].sid
           /\ session'[a].did = session[a].did
<1>1. session[a] \in Sessions /\ DOMAIN session = Actors
  BY DEF SessionTypes
<1>2. ASSUME NEW new, session' = [session EXCEPT ![a] = new]
      PROVE  session'[a] = new /\ \A b \in Actors \ {a} : session'[b] = session[b]
  BY <1>1, <1>2
<1> DEFINE new == [session[a] EXCEPT !.pc = pc]
<1>3. session' = [session EXCEPT ![a] = new]
  BY <1>1 DEF Goto
<1>4. /\ new.pc = pc /\ new.did = session[a].did
      /\ new.customer = session[a].customer /\ new.site = session[a].site
      /\ new.name = session[a].name /\ new.cid = session[a].cid /\ new.sid = session[a].sid
  BY <1>1 DEF Sessions
<1> HIDE DEF new
<1> QED BY <1>2, <1>3, <1>4

(* The same, when it has found an id out. *)
LEMMA MovedFields ==
    ASSUME SessionTypes, NEW a \in Actors, NEW pc, NEW id
    PROVE  /\ Found(a, pc, "cid", id) =>
                 /\ session'[a].pc = pc /\ session'[a].cid = id
                 /\ \A b \in Actors \ {a} : session'[b] = session[b]
                 /\ session'[a].customer = session[a].customer
                 /\ session'[a].site = session[a].site
                 /\ session'[a].name = session[a].name
                 /\ session'[a].sid = session[a].sid
                 /\ session'[a].did = session[a].did
           /\ Found(a, pc, "sid", id) =>
                 /\ session'[a].pc = pc /\ session'[a].sid = id
                 /\ \A b \in Actors \ {a} : session'[b] = session[b]
                 /\ session'[a].customer = session[a].customer
                 /\ session'[a].site = session[a].site
                 /\ session'[a].name = session[a].name
                 /\ session'[a].cid = session[a].cid
                 /\ session'[a].did = session[a].did
           /\ Found(a, pc, "did", id) =>
                 /\ session'[a].pc = pc /\ session'[a].did = id
                 /\ \A b \in Actors \ {a} : session'[b] = session[b]
                 /\ session'[a].customer = session[a].customer
                 /\ session'[a].site = session[a].site
                 /\ session'[a].name = session[a].name
                 /\ session'[a].cid = session[a].cid
                 /\ session'[a].sid = session[a].sid
<1>1. session[a] \in Sessions /\ DOMAIN session = Actors
  BY DEF SessionTypes
<1>2. ASSUME NEW new, session' = [session EXCEPT ![a] = new]
      PROVE  session'[a] = new /\ \A b \in Actors \ {a} : session'[b] = session[b]
  BY <1>1, <1>2
<1>4. Found(a, pc, "cid", id) =>
        /\ session'[a].pc = pc /\ session'[a].cid = id
        /\ \A b \in Actors \ {a} : session'[b] = session[b]
        /\ session'[a].customer = session[a].customer
        /\ session'[a].site = session[a].site
        /\ session'[a].name = session[a].name
        /\ session'[a].sid = session[a].sid
        /\ session'[a].did = session[a].did
  <2> DEFINE new == [session[a] EXCEPT !.pc = pc, !.cid = id]
  <2>0. Found(a, pc, "cid", id) => session' = [session EXCEPT ![a] = new]
    BY <1>1 DEF Found
  <2>1. /\ new.pc = pc /\ new.cid = id
        /\ new.customer = session[a].customer
        /\ new.site = session[a].site
        /\ new.name = session[a].name
        /\ new.sid = session[a].sid
        /\ new.did = session[a].did
    BY <1>1 DEF Sessions
  <2> SUFFICES ASSUME session' = [session EXCEPT ![a] = new] PROVE /\ session'[a] = new
                 /\ \A b \in Actors \ {a} : session'[b] = session[b]
    BY <2>0, <2>1
  <2> HIDE DEF new
  <2> QED BY <1>2
<1>5. Found(a, pc, "sid", id) =>
        /\ session'[a].pc = pc /\ session'[a].sid = id
        /\ \A b \in Actors \ {a} : session'[b] = session[b]
        /\ session'[a].customer = session[a].customer
        /\ session'[a].site = session[a].site
        /\ session'[a].name = session[a].name
        /\ session'[a].cid = session[a].cid
        /\ session'[a].did = session[a].did
  <2> DEFINE new == [session[a] EXCEPT !.pc = pc, !.sid = id]
  <2>0. Found(a, pc, "sid", id) => session' = [session EXCEPT ![a] = new]
    BY <1>1 DEF Found
  <2>1. /\ new.pc = pc /\ new.sid = id
        /\ new.customer = session[a].customer
        /\ new.site = session[a].site
        /\ new.name = session[a].name
        /\ new.cid = session[a].cid
        /\ new.did = session[a].did
    BY <1>1 DEF Sessions
  <2> SUFFICES ASSUME session' = [session EXCEPT ![a] = new] PROVE /\ session'[a] = new
                 /\ \A b \in Actors \ {a} : session'[b] = session[b]
    BY <2>0, <2>1
  <2> HIDE DEF new
  <2> QED BY <1>2
<1>6. Found(a, pc, "did", id) =>
        /\ session'[a].pc = pc /\ session'[a].did = id
        /\ \A b \in Actors \ {a} : session'[b] = session[b]
        /\ session'[a].customer = session[a].customer
        /\ session'[a].site = session[a].site
        /\ session'[a].name = session[a].name
        /\ session'[a].cid = session[a].cid
        /\ session'[a].sid = session[a].sid
  <2> DEFINE new == [session[a] EXCEPT !.pc = pc, !.did = id]
  <2>0. Found(a, pc, "did", id) => session' = [session EXCEPT ![a] = new]
    BY <1>1 DEF Found
  <2>1. /\ new.pc = pc /\ new.did = id
        /\ new.customer = session[a].customer
        /\ new.site = session[a].site
        /\ new.name = session[a].name
        /\ new.cid = session[a].cid
        /\ new.sid = session[a].sid
    BY <1>1 DEF Sessions
  <2> SUFFICES ASSUME session' = [session EXCEPT ![a] = new] PROVE /\ session'[a] = new
                 /\ \A b \in Actors \ {a} : session'[b] = session[b]
    BY <2>0, <2>1
  <2> HIDE DEF new
  <2> QED BY <1>2
<1> QED BY <1>4, <1>5, <1>6

(* Every step leaves all sessions but one alone. *)
LEMMA OneMoves ==
    ASSUME TypeInv, \A a \in Actors : SessionInv(a)
    PROVE  /\ \A a \in Actors :
                 FindCustomer(a) \/ FindSite(a) \/ FindDevice(a) \/ Inserts(a)
                     \/ FlushFails(a) \/ Cut(a) => \A b \in Actors \ {a} : Leaves(b)
           /\ \A c \in Calls :
                 Register(c) \/ CommitRegistration(c) \/ Remove(c) \/ RemoveCheck(c)
                     \/ RemoveFlush(c) \/ RemoveCommit(c) \/ RemoveSecret(c)
                     => \A b \in Actors \ {c} : Leaves(b)
           /\ Migrate \/ ListExisting \/ ImportNext \/ ImportSecret \/ CommitMigration
                 => \A b \in Actors \ {Migration} : Leaves(b)
           /\ CliSet \/ CliDelete => \A b \in Actors : Leaves(b)
<1> USE ActorsFact DEF rows
<1>0. DOMAIN session = Actors /\ DOMAIN draft = Actors
  BY DEF TypeInv, SessionTypes, RowTypes
<1>1. ASSUME NEW a \in Actors, NEW pc, Goto(a, pc), UNCHANGED <<rows, draft>>, writer = a \/ writer \in {None, writer'}
      PROVE  \A b \in Actors \ {a} : Leaves(b)
  BY <1>0, <1>1 DEF Goto, Leaves
<1>2. ASSUME NEW a \in Actors, Abort(a) PROVE \A b \in Actors \ {a} : Leaves(b)
  BY <1>0, <1>2 DEF Abort, Leaves
<1>3. ASSUME NEW a \in Actors, Publish(a), NEW s, session' = [session EXCEPT ![a] = s]
      PROVE  \A b \in Actors \ {a} : Leaves(b)
  BY <1>0, <1>3 DEF Publish, Leaves
<1>4. ASSUME NEW a \in Actors, FindCustomer(a) PROVE \A b \in Actors \ {a} : Leaves(b)
  <2>1. UNCHANGED <<rows, draft, writer>> /\ \A b \in Actors \ {a} : session'[b] = session[b]
    BY <1>0, <1>4, FindCustomerEffect
  <2> QED BY <2>1 DEF Leaves
<1>5. ASSUME NEW a \in Actors, FindSite(a) PROVE \A b \in Actors \ {a} : Leaves(b)
  <2>1. UNCHANGED <<rows, draft, writer>> /\ \A b \in Actors \ {a} : session'[b] = session[b]
    BY <1>0, <1>5, FindSiteEffect
  <2> QED BY <2>1 DEF Leaves
<1>6. ASSUME NEW a \in Actors, Inserts(a) PROVE \A b \in Actors \ {a} : Leaves(b)
  <2>1. \A b \in Actors \ {a} : session'[b] = session[b]
    BY <1>6, InsertCustomerEffect, InsertSiteEffect, InsertDeviceEffect, MovedOn, MovedFields DEF Inserts, TypeInv
  <2> QED BY <1>6, <2>1, InsertsLock DEF Leaves
<1>7. ASSUME NEW a \in Actors, FindDevice(a) \/ FlushFails(a) \/ Cut(a)
      PROVE  \A b \in Actors \ {a} : Leaves(b)
  BY <1>1, <1>2, <1>7 DEF FindDevice, FlushFails, Cut
<1>8. ASSUME NEW c \in Calls, Register(c) \/ RemoveSecret(c) PROVE \A b \in Actors \ {c} : Leaves(b)
  BY <1>0, <1>8 DEF Register, RemoveSecret, Leaves
<1>9. ASSUME NEW c \in Calls, CommitRegistration(c) PROVE \A b \in Actors \ {c} : Leaves(b)
  BY <1>3, <1>9 DEF CommitRegistration
<1>10. ASSUME NEW c \in Calls, Remove(c) PROVE \A b \in Actors \ {c} : Leaves(b)
  BY <1>0, <1>10, RemoveEffect DEF Leaves
<1>11. ASSUME NEW c \in Calls, RemoveCheck(c) PROVE \A b \in Actors \ {c} : Leaves(b)
  BY <1>1, <1>2, <1>11 DEF RemoveCheck
<1>12. ASSUME NEW c \in Calls, RemoveFlush(c) PROVE \A b \in Actors \ {c} : Leaves(b)
  <2>1. Goto(c, "rm_commit") /\ UNCHANGED <<rows, draft>> /\ writer \in {None, c}
    BY <1>12 DEF RemoveFlush, Flush
  <2> QED BY <1>1, <2>1
<1>13. ASSUME NEW c \in Calls, RemoveCommit(c) PROVE \A b \in Actors \ {c} : Leaves(b)
  <2>1. writer = c
    BY <1>13 DEF RemoveCommit, At, SessionInv
  <2> QED BY <1>0, <1>13, <2>1 DEF RemoveCommit, Goto, Leaves
<1>14. Migrate => \A b \in Actors \ {Migration} : Leaves(b)
  BY <1>0 DEF Migrate, Leaves
<1>15. ListExisting \/ ImportSecret => \A b \in Actors \ {Migration} : Leaves(b)
  BY <1>1 DEF ListExisting, ImportSecret
<1>16. ImportNext => \A b \in Actors \ {Migration} : Leaves(b)
  BY <1>0, ImportNextEffect DEF Leaves
<1>17. CommitMigration => \A b \in Actors \ {Migration} : Leaves(b)
  BY <1>3 DEF CommitMigration
<1>18. CliSet \/ CliDelete => \A b \in Actors : Leaves(b)
  BY DEF CliSet, CliDelete, Leaves
<1> QED
  BY <1>4, <1>5, <1>6, <1>7, <1>8, <1>9, <1>10, <1>11, <1>12, <1>13, <1>14, <1>15, <1>16, <1>17, <1>18

(* A session that went back to sleep, or ended well, has nothing left.     *)
LEMMA AtRest ==
    ASSUME TypeInv, NEW a \in Actors, NEW s \in Sessions,
           session' = [session EXCEPT ![a] = s], draft'[a] = NoDraft,
           s.pc = "idle" \/ (s.pc = "done" /\ a = Migration)
    PROVE  SessionInv(a)'
<1>1. session'[a] = s /\ session'[a].pc = s.pc
  BY SessionMoved DEF TypeInv
<1> QED BY <1>1 DEF NoDraft, SessionInv, BeforeSite, AtSite, AfterSite, OfCalls, OfMigration, Removing

(* The mover knows what it has to, wherever it goes. *)
LEMMA RegisterMoves ==
    ASSUME TypeInv, \A a \in Actors : SessionInv(a), NEW a \in Actors,
           (a \in Calls /\ Register(a)) \/ (a = Migration /\ Migrate)
    PROVE  SessionInv(a)'
<1> USE ActorsFact
<1>1. session[a].pc \in {"idle", "done"} /\ draft'[a] = draft[a]
  BY DEF Register, Call, Migrate, At
<1>2. draft'[a] = NoDraft
  BY <1>1 DEF SessionInv, BeforeSite
<1>3. /\ session'[a].pc = "customer" /\ session'[a].customer \in Customers
      /\ session'[a].site \in Sites /\ (a \in Calls => session'[a].name \in Names)
  BY DEF TypeInv, SessionTypes, Register, Migrate, Asleep
<1> QED BY <1>2, <1>3 DEF NoDraft, SessionInv, BeforeSite, AtSite, AfterSite, OfCalls, OfMigration, Removing

(* A customer found is one the session sees. *)
LEMMA FindCustomerMoves ==
    ASSUME TypeInv, \A a \in Actors : SessionInv(a), NEW a \in Actors, FindCustomer(a)
    PROVE  SessionInv(a)'
<1>1. /\ session[a].pc = "customer" /\ draft' = draft /\ customers' = customers
      /\ session[a] \in Sessions
  BY FindCustomerEffect, Knows DEF rows
<1>2. /\ draft'[a] = NoDraft /\ session[a].customer \in Customers /\ session[a].site \in Sites
      /\ (a \in Calls => session[a].name \in Names)
  BY <1>1 DEF SessionInv, BeforeSite
<1>3. /\ session'[a].customer = session[a].customer /\ session'[a].site = session[a].site
      /\ session'[a].name = session[a].name
  BY FindCustomerEffect, MovedOn, MovedFields DEF TypeInv
<1>4. \/ session'[a].pc = "customer_insert"
      \/ session'[a].pc = "site" /\ HasCustomer(a)'
  <2>1. CASE Goto(a, "customer_insert")
    BY <2>1, MovedOn, MovedFields DEF TypeInv
  <2>2. ASSUME NEW c \in CustomersSeenBy(a), c.name = session[a].customer,
               Found(a, "site", "cid", c.id)
        PROVE  session'[a].pc = "site" /\ HasCustomer(a)'
    <3>1. session'[a].pc = "site" /\ session'[a].cid = c.id
      BY <2>2, MovedOn, MovedFields DEF TypeInv
    <3>2. c \in CustomersSeenBy(a)'
      BY <1>1 DEF CustomersSeenBy
    <3> QED BY <1>3, <2>2, <3>1, <3>2 DEF HasCustomer
  <2> QED BY <2>1, <2>2, FindCustomerEffect
<1> QED BY <1>2, <1>3, <1>4 DEF NoDraft, SessionInv, BeforeSite, AtSite, AfterSite, OfCalls, OfMigration, Removing

(* A customer inserted is the one the session goes on with. *)
LEMMA InsertCustomerMoves ==
    ASSUME TypeInv, \A a \in Actors : SessionInv(a), NEW a \in Actors, InsertCustomer(a)
    PROVE  SessionInv(a)'
<1> DEFINE row == CustomerRow(ids, session[a].customer)
<1>1. session[a].pc = "customer_insert" /\ session[a] \in Sessions
  BY InsertCustomerEffect, Knows
<1>2. /\ draft[a] = NoDraft /\ session[a].customer \in Customers /\ session[a].site \in Sites
      /\ (a \in Calls => session[a].name \in Names)
  BY <1>1 DEF SessionInv, BeforeSite
<1>3. /\ session'[a].pc = "site" /\ session'[a].cid = ids
      /\ session'[a].customer = session[a].customer /\ session'[a].site = session[a].site
      /\ session'[a].name = session[a].name
  <2>1. Found(a, "site", "cid", ids)
    BY InsertCustomerEffect
  <2> QED BY <2>1, MovedOn, MovedFields DEF TypeInv
<1>4. row.id = ids /\ row.name = session[a].customer
  BY DEF CustomerRow
<1> HIDE DEF row
<1>5. draft'[a].customers = {row} /\ draft'[a].sites = {} /\ draft'[a].devices = {} /\ row \in CustomersSeenBy(a)'
  BY <1>2, InsertCustomerSeen DEF NoDraft, row
<1>6. HasCustomer(a)'
  BY <1>3, <1>4, <1>5 DEF HasCustomer
<1> QED BY <1>2, <1>3, <1>4, <1>5, <1>6 DEF SessionInv, BeforeSite, AtSite, AfterSite, OfCalls, OfMigration, Removing

(* A site found is the customer's. *)
LEMMA FindSiteMoves ==
    ASSUME TypeInv, \A a \in Actors : SessionInv(a), NEW a \in Actors, FindSite(a)
    PROVE  SessionInv(a)'
<1> DEFINE after == IF a = Migration THEN "list" ELSE "find"
<1>1. /\ session[a].pc = "site" /\ draft' = draft /\ customers' = customers /\ sites' = sites
      /\ session[a] \in Sessions
  BY FindSiteEffect, Knows DEF rows
<1>2. /\ session[a].customer \in Customers /\ session[a].site \in Sites /\ HasCustomer(a)
      /\ (a \in Calls => session[a].name \in Names)
      /\ draft[a].sites = {} /\ draft[a].devices = {}
      /\ \A c \in draft[a].customers : c.id = session[a].cid
  BY <1>1 DEF SessionInv, AtSite
<1>3. /\ session'[a].customer = session[a].customer /\ session'[a].site = session[a].site
      /\ session'[a].name = session[a].name
      /\ session'[a].cid = session[a].cid
  BY FindSiteEffect, MovedOn, MovedFields DEF TypeInv
<1>4. HasCustomer(a)'
  BY <1>1, <1>2, <1>3 DEF HasCustomer, CustomersSeenBy
<1>5. \/ session'[a].pc = "site_insert"
      \/ session'[a].pc = after /\ HasSite(a)'
  <2>1. CASE Goto(a, "site_insert")
    BY <2>1, MovedOn, MovedFields DEF TypeInv
  <2>2. ASSUME NEW s \in SitesSeenBy(a), s.customer = session[a].cid, s.name = session[a].site,
               Found(a, after, "sid", s.id)
        PROVE  session'[a].pc = after /\ HasSite(a)'
    <3>1. session'[a].pc = after /\ session'[a].sid = s.id
      BY <2>2, MovedOn, MovedFields DEF TypeInv
    <3>2. s \in SitesSeenBy(a)'
      BY <1>1 DEF SitesSeenBy
    <3> QED BY <1>3, <2>2, <3>1, <3>2 DEF HasSite
  <2> QED BY <2>1, <2>2, FindSiteEffect
<1>6. CASE session'[a].pc = "site_insert"
  BY <1>1, <1>2, <1>3, <1>4, <1>6 DEF SessionInv, BeforeSite, AtSite, AfterSite, OfCalls, OfMigration, Removing
<1>7. CASE session'[a].pc = "list" /\ a = Migration /\ HasSite(a)'
  BY <1>1, <1>2, <1>3, <1>4, <1>7 DEF SessionInv, BeforeSite, AtSite, AfterSite, OfCalls, OfMigration, Removing
<1>8. CASE session'[a].pc = "find" /\ a \in Calls /\ HasSite(a)'
  BY <1>1, <1>2, <1>3, <1>4, <1>8 DEF SessionInv, BeforeSite, AtSite, AfterSite, OfCalls, OfMigration, Removing
<1> QED BY <1>5, <1>6, <1>7, <1>8 DEF Actors

(* A site inserted is the one the session goes on with. *)
LEMMA InsertSiteMoves ==
    ASSUME TypeInv, \A a \in Actors : SessionInv(a), NEW a \in Actors, InsertSite(a)
    PROVE  SessionInv(a)'
<1> DEFINE row == SiteRow(ids, session[a].cid, session[a].site)
           after == IF a = Migration THEN "list" ELSE "find"
<1>1. session[a].pc = "site_insert" /\ session[a] \in Sessions
  BY InsertSiteEffect, Knows
<1>2. /\ session[a].customer \in Customers /\ session[a].site \in Sites /\ HasCustomer(a)
      /\ (a \in Calls => session[a].name \in Names)
      /\ draft[a].sites = {} /\ draft[a].devices = {}
      /\ \A c \in draft[a].customers : c.id = session[a].cid
  BY <1>1 DEF SessionInv, AtSite
<1>3. /\ session'[a].pc = after /\ session'[a].sid = ids /\ session'[a].cid = session[a].cid
      /\ session'[a].customer = session[a].customer /\ session'[a].site = session[a].site
      /\ session'[a].name = session[a].name
  <2>1. Found(a, after, "sid", ids)
    BY InsertSiteEffect
  <2> QED BY <2>1, MovedOn, MovedFields DEF TypeInv
<1>4. row.id = ids /\ row.customer = session[a].cid /\ row.name = session[a].site
  BY DEF SiteRow
<1> HIDE DEF row
<1>5. /\ draft'[a].customers = draft[a].customers /\ draft'[a].sites = {row}
      /\ draft'[a].devices = {} /\ row \in SitesSeenBy(a)'
      /\ CustomersSeenBy(a)' = CustomersSeenBy(a)
  BY <1>2, InsertSiteSeen DEF row
<1>6. HasCustomer(a)' /\ HasSite(a)'
  BY <1>2, <1>3, <1>4, <1>5 DEF HasCustomer, HasSite
<1>7. CASE session'[a].pc = "list" /\ a = Migration
  BY <1>2, <1>3, <1>4, <1>5, <1>6, <1>7 DEF SessionInv, BeforeSite, AtSite, AfterSite, OfCalls, OfMigration, Removing
<1>8. CASE session'[a].pc = "find" /\ a \in Calls
  BY <1>2, <1>3, <1>4, <1>5, <1>6, <1>8 DEF SessionInv, BeforeSite, AtSite, AfterSite, OfCalls, OfMigration, Removing
<1> QED BY <1>3, <1>7, <1>8 DEF Actors

(* A session that ends without a commit has no draft. *)
LEMMA AbortMoves ==
    ASSUME TypeInv, NEW a \in Actors, Abort(a) PROVE SessionInv(a)'
<1>1. draft'[a] = NoDraft
  BY DEF Abort, TypeInv, RowTypes
<1>2. session' = [session EXCEPT ![a] = Asleep] /\ Asleep \in Sessions /\ Asleep.pc = "idle"
  BY SessionMoves DEF Abort, Asleep
<1> QED BY <1>1, <1>2, AtRest

(* A session that commits has no draft. *)
LEMMA CommitMoves ==
    ASSUME TypeInv, NEW a \in Actors,
           (a \in Calls /\ CommitRegistration(a)) \/ (a = Migration /\ CommitMigration)
    PROVE  SessionInv(a)'
<1>1. draft'[a] = NoDraft
  BY DEF CommitRegistration, CommitMigration, Publish, TypeInv, RowTypes
<1>2. CASE a \in Calls /\ CommitRegistration(a)
  <2>1. session' = [session EXCEPT ![a] = Asleep] /\ Asleep \in Sessions /\ Asleep.pc = "idle"
    BY <1>2, SessionMoves DEF CommitRegistration, Asleep
  <2> QED BY <1>1, <2>1, AtRest
<1>3. CASE a = Migration /\ CommitMigration
  <2> DEFINE done == [Asleep EXCEPT !.pc = "done"]
  <2>1. session' = [session EXCEPT ![a] = done] /\ done \in Sessions /\ done.pc = "done"
    BY <1>3, SessionMoves DEF CommitMigration, Asleep
  <2> HIDE DEF done
  <2> QED BY <1>1, <1>3, <2>1, AtRest
<1> QED BY <1>2, <1>3

(* No device of that name is seen by a session that inserts one. *)
LEMMA FindDeviceMoves ==
    ASSUME TypeInv, \A a \in Actors : SessionInv(a), NEW a \in Actors, FindDevice(a)
    PROVE  SessionInv(a)'
<1>1. CASE Abort(a)
  BY <1>1, AbortMoves
<1>2. CASE ~Abort(a)
  <2>1. /\ session[a].pc = "find" /\ draft' = draft /\ customers' = customers /\ sites' = sites
        /\ DeviceNamed(a, session[a].sid, session[a].name) = {} /\ Goto(a, "device_insert")
    BY <1>2 DEF FindDevice, At, rows
  <2>2. /\ session'[a].customer = session[a].customer /\ session'[a].site = session[a].site
        /\ session'[a].name = session[a].name /\ session'[a].cid = session[a].cid
        /\ session'[a].sid = session[a].sid /\ session'[a].pc = "device_insert"
    BY <2>1, MovedOn, MovedFields DEF TypeInv
  <2>3. HasCustomer(a)' /\ HasSite(a)'
    BY <2>1, <2>2 DEF SessionInv, AfterSite, HasCustomer, HasSite, CustomersSeenBy, SitesSeenBy
  <2>4. \A d \in draft[a].devices : d.name # session[a].name
    BY <2>1 DEF SessionInv, DeviceNamed, DevicesSeenBy
  <2> QED
    BY <2>1, <2>2, <2>3, <2>4
    DEF SessionInv, BeforeSite, AtSite, AfterSite, OfCalls, OfMigration, Removing
<1> QED BY <1>1, <1>2

(* A registration about to commit has written the one device it is for. *)
LEMMA InsertDeviceMoves ==
    ASSUME TypeInv, \A a \in Actors : SessionInv(a), NEW a \in Actors, InsertDevice(a)
    PROVE  SessionInv(a)'
<1> DEFINE row == DeviceRow(ids, session[a].sid, session[a].name)
           after == IF a = Migration THEN "secret" ELSE "commit"
<1>1. session[a].pc = "device_insert" /\ writer' = a /\ ids \in Nat
  BY InsertDeviceEffect DEF TypeInv, RowTypes
<1>2. /\ session'[a].customer = session[a].customer /\ session'[a].site = session[a].site
      /\ session'[a].name = session[a].name /\ session'[a].cid = session[a].cid
      /\ session'[a].sid = session[a].sid /\ session'[a].did = ids /\ session'[a].pc = after
  <2>1. Found(a, after, "did", ids)
    BY InsertDeviceEffect
  <2> QED BY <2>1, MovedOn, MovedFields DEF TypeInv
<1>3. row.site = session[a].sid
  BY DEF DeviceRow
<1>4. row = DeviceRow(session'[a].did, session'[a].sid, session'[a].name)
  BY <1>2
<1> HIDE DEF row
<1>5. /\ draft'[a].customers = draft[a].customers /\ draft'[a].sites = draft[a].sites
      /\ draft'[a].devices = draft[a].devices \cup {row}
      /\ CustomersSeenBy(a)' = CustomersSeenBy(a) /\ SitesSeenBy(a)' = SitesSeenBy(a)
  BY InsertDeviceSeen DEF row
<1>6. HasCustomer(a)' /\ HasSite(a)'
  BY <1>1, <1>2, <1>5 DEF SessionInv, AfterSite, HasCustomer, HasSite
<1>7. CASE session'[a].pc = "secret" /\ a = Migration
  BY <1>1, <1>2, <1>3, <1>5, <1>6, <1>7
  DEF SessionInv, BeforeSite, AtSite, AfterSite, OfCalls, OfMigration, Removing
<1>8. CASE session'[a].pc = "commit" /\ a \in Calls
  <2>1. draft[a].devices = {}
    BY <1>1, <1>8 DEF SessionInv
  <2>2. draft'[a].devices = {DeviceRow(session'[a].did, session'[a].sid, session'[a].name)}
    BY <1>4, <1>5, <2>1
  <2> QED
    BY <1>1, <1>2, <1>3, <1>5, <1>6, <1>8, <2>2
    DEF SessionInv, BeforeSite, AtSite, AfterSite, OfCalls, OfMigration, Removing
<1> QED BY <1>2, <1>7, <1>8 DEF Actors

(* A removal writes no row. *)
LEMMA RemovalMoves ==
    ASSUME TypeInv, \A a \in Actors : SessionInv(a), NEW c \in Calls,
           Remove(c) \/ RemoveCheck(c) \/ RemoveFlush(c) \/ RemoveCommit(c) \/ RemoveSecret(c)
    PROVE  SessionInv(c)'
<1> USE ActorsFact
<1>1. ASSUME NEW pc \in Removing, session'[c].pc = pc, draft'[c] = draft[c],
             session[c].pc \in BeforeSite, session'[c].did \in Nat,
             pc = "rm_commit" => writer' = c
      PROVE  SessionInv(c)'
  <2>1. draft'[c] = NoDraft
    BY <1>1 DEF SessionInv
  <2> QED
    BY <1>1, <2>1
    DEF NoDraft, SessionInv, BeforeSite, AtSite, AfterSite, OfCalls, OfMigration, Removing
<1>2. CASE Remove(c)
  <2>1. PICK d \in devices : Found(c, "rm_check", "did", d.id)
    BY <1>2, RemoveEffect
  <2>2. session'[c].pc = "rm_check" /\ session'[c].did = d.id
    BY <2>1, MovedOn, MovedFields DEF TypeInv
  <2>3. d.id \in Nat
    BY DEF TypeInv, RowTypes, DeviceRows
  <2>4. session[c].pc = "idle" /\ draft' = draft
    BY <1>2, RemoveEffect
  <2> QED BY <1>1, <2>2, <2>3, <2>4 DEF BeforeSite, Removing
<1>3. ASSUME NEW pc \in Removing, Goto(c, pc), draft' = draft, session[c].pc \in Removing,
             pc = "rm_commit" => writer' = c
      PROVE  SessionInv(c)'
  <2>1. session'[c].pc = pc /\ session'[c].did = session[c].did
    BY <1>3, MovedOn, MovedFields DEF TypeInv
  <2>2. session[c].did \in Nat
    BY <1>3 DEF SessionInv
  <2> QED BY <1>1, <1>3, <2>1, <2>2 DEF BeforeSite, Removing
<1>4. CASE RemoveCheck(c)
  BY <1>3, <1>4, AbortMoves DEF RemoveCheck, At, Removing
<1>5. CASE RemoveFlush(c)
  BY <1>3, <1>5 DEF RemoveFlush, Flush, At, Removing
<1>6. CASE RemoveCommit(c)
  BY <1>3, <1>6 DEF RemoveCommit, At, Removing
<1>7. CASE RemoveSecret(c)
  <2>1. draft'[c] = NoDraft
    BY <1>7 DEF RemoveSecret, At, SessionInv, BeforeSite
  <2>2. session' = [session EXCEPT ![c] = Asleep] /\ Asleep \in Sessions /\ Asleep.pc = "idle"
    BY <1>7, SessionMoves DEF RemoveSecret, Asleep
  <2> QED BY <2>1, <2>2, AtRest
<1> QED BY <1>2, <1>4, <1>5, <1>6, <1>7

(* The migration's loop keeps its customer and site. *)
LEMMA ImportMoves ==
    ASSUME TypeInv, SessionInv(Migration), ListExisting \/ ImportNext \/ ImportSecret
    PROVE  SessionInv(Migration)'
<1> USE ActorsFact DEF rows
<1> DEFINE m == Migration
<1>1. /\ session[m].pc \in {"list", "next", "secret"} /\ draft' = draft
      /\ customers' = customers /\ sites' = sites
  BY DEF ListExisting, ImportNext, ImportSecret, At
<1>2. /\ session'[m].pc \in {"next", "find", "secret"}
      /\ session'[m].customer = session[m].customer /\ session'[m].site = session[m].site
      /\ session'[m].cid = session[m].cid /\ session'[m].sid = session[m].sid
      /\ session'[m].pc \in {"find", "secret"} => session'[m].name \in Names
      /\ session'[m].pc = "secret" => session'[m].did \in Nat
  <2>1. CASE ListExisting \/ ImportSecret
    <3>1. Goto(m, "next")
      BY <2>1 DEF ListExisting, ImportSecret
    <3> QED BY <3>1, MovedOn, MovedFields DEF TypeInv
  <2>2. CASE ImportNext
    <3>1. Head(imported.todo) \in Names
      BY <2>2, ImportNextEffect, TodoNames
    <3>2. \A d \in imported.known : d.id \in Nat
      BY DEF TypeInv, ImportTypes, DeviceRows
    <3>3. session[m] \in Sessions /\ DOMAIN session = Actors
      BY DEF TypeInv, SessionTypes
    <3>4. CASE session' = [session EXCEPT ![m] = [session[m] EXCEPT
                       !.pc = "find", !.name = Head(imported.todo), !.did = None]]
      BY <3>1, <3>3, <3>4 DEF Sessions
    <3>5. ASSUME NEW d \in imported.known, session' = [session EXCEPT ![m] = [session[m] EXCEPT
                          !.pc = "secret", !.name = Head(imported.todo), !.did = d.id]]
          PROVE  /\ session'[m].pc = "secret" /\ session'[m].did \in Nat
                 /\ session'[m].customer = session[m].customer /\ session'[m].site = session[m].site
                 /\ session'[m].cid = session[m].cid /\ session'[m].sid = session[m].sid
                 /\ session'[m].name \in Names
      BY <3>1, <3>2, <3>3, <3>5 DEF Sessions
    <3> QED BY <2>2, <3>4, <3>5, ImportNextEffect
  <2> QED BY <2>1, <2>2
<1>3. HasCustomer(m)' /\ HasSite(m)'
  BY <1>1, <1>2 DEF SessionInv, AfterSite, HasCustomer, HasSite, CustomersSeenBy, SitesSeenBy
<1> QED
  BY <1>1, <1>2, <1>3 DEF SessionInv, BeforeSite, AtSite, AfterSite, OfCalls, OfMigration, Removing

(* Every session, after every step, knows what it has to. *)
LEMMA SessionStep ==
    ASSUME TypeInv, \A a \in Actors : SessionInv(a), Next PROVE \A a \in Actors : SessionInv(a)'
<1> USE ActorsFact
<1>1. ASSUME NEW a \in Actors, SessionInv(a)', \A b \in Actors \ {a} : Leaves(b)
      PROVE  \A b \in Actors : SessionInv(b)'
  BY <1>1, OthersKeep
<1>2. ASSUME NEW a \in Actors, FindCustomer(a) \/ FindSite(a) \/ FindDevice(a) \/ Inserts(a)
                                  \/ FlushFails(a) \/ Cut(a)
      PROVE  \A b \in Actors : SessionInv(b)'
  <2>1. SessionInv(a)'
    BY <1>2, FindCustomerMoves, InsertCustomerMoves, FindSiteMoves, InsertSiteMoves,
       FindDeviceMoves, InsertDeviceMoves, AbortMoves DEF Inserts, FlushFails, Cut
  <2> QED BY <1>1, <1>2, <2>1, OneMoves
<1>3. ASSUME NEW c \in Calls,
             Register(c) \/ CommitRegistration(c) \/ Remove(c) \/ RemoveCheck(c)
                 \/ RemoveFlush(c) \/ RemoveCommit(c) \/ RemoveSecret(c)
      PROVE  \A b \in Actors : SessionInv(b)'
  <2>1. SessionInv(c)'
    <3>1. CASE Register(c)
      BY <3>1, RegisterMoves
    <3>2. CASE CommitRegistration(c)
      BY <3>2, CommitMoves
    <3> QED BY <1>3, <3>1, <3>2, RemovalMoves
  <2> QED BY <1>1, <1>3, <2>1, OneMoves
<1>4. ASSUME Migrate \/ ListExisting \/ ImportNext \/ ImportSecret \/ CommitMigration
      PROVE  \A b \in Actors : SessionInv(b)'
  <2>1. SessionInv(Migration)'
    BY <1>4, RegisterMoves, CommitMoves, ImportMoves
  <2> QED BY <1>1, <1>4, <2>1, OneMoves
<1>5. CliSet \/ CliDelete => \A b \in Actors : SessionInv(b)'
  BY OthersKeep, OneMoves
<1> QED BY <1>2, <1>3, <1>4, <1>5 DEF Next, Inserts

-----------------------------------------------------------------------------
(* What each step adds to the history and does to the keyring. *)
LEMMA HistoryEffects ==
    ASSUME TypeInv
    PROVE  /\ \A a \in Actors : Abort(a) =>
                 /\ hist'.cut = IF At(a, "rm_keyring") THEN hist.cut \cup {session[a].did} ELSE hist.cut
                 /\ hist'.undone = hist.undone \cup {d.id : d \in draft[a].devices}
                 /\ hist'.registered = hist.registered /\ hist'.removed = hist.removed
                 /\ hist'.belated = hist.belated /\ hist'.erased = hist.erased
                 /\ hist'.peopled = hist.peopled /\ hist'.migrated = hist.migrated
                 /\ secrets' = secrets
           /\ \A c \in Calls : CommitRegistration(c) =>
                 /\ hist'.registered = hist.registered \cup
                       {[id |-> session[c].did, customer |-> session[c].customer,
                         site |-> session[c].site, name |-> session[c].name]}
                 /\ hist'.peopled = Peopled
                 /\ hist'.cut = hist.cut /\ hist'.undone = hist.undone /\ hist'.removed = hist.removed
                 /\ hist'.belated = hist.belated /\ hist'.erased = hist.erased
                 /\ hist'.migrated = hist.migrated
                 /\ secrets' = secrets
           /\ \A c \in Calls : RemoveCommit(c) =>
                 /\ hist'.removed = hist.removed \cup {session[c].did}
                 /\ hist'.registered = hist.registered
                 /\ hist'.cut = hist.cut /\ hist'.undone = hist.undone
                 /\ hist'.belated = hist.belated /\ hist'.erased = hist.erased
                 /\ hist'.peopled = hist.peopled /\ hist'.migrated = hist.migrated
                 /\ secrets' = secrets
           /\ CommitMigration =>
                 /\ hist'.migrated = {d \in imported.known : d.name \in Configured}
                 /\ hist'.peopled = Peopled
                 /\ hist'.registered = hist.registered /\ hist'.removed = hist.removed
                 /\ hist'.cut = hist.cut /\ hist'.undone = hist.undone
                 /\ hist'.belated = hist.belated /\ hist'.erased = hist.erased
                 /\ secrets' = secrets
<1>0. hist \in Histories
  BY DEF TypeInv, HistoryTypes
<1>1. ASSUME NEW a \in Actors, Abort(a)
      PROVE  /\ hist'.cut = IF At(a, "rm_keyring") THEN hist.cut \cup {session[a].did} ELSE hist.cut
             /\ hist'.undone = hist.undone \cup {d.id : d \in draft[a].devices}
             /\ hist'.registered = hist.registered /\ hist'.removed = hist.removed
             /\ hist'.belated = hist.belated /\ hist'.erased = hist.erased
             /\ hist'.peopled = hist.peopled /\ hist'.migrated = hist.migrated
             /\ secrets' = secrets
  BY <1>0, <1>1 DEF Abort, Histories
<1>2. ASSUME NEW c \in Calls, CommitRegistration(c)
      PROVE  /\ hist'.registered = hist.registered \cup
                   {[id |-> session[c].did, customer |-> session[c].customer,
                     site |-> session[c].site, name |-> session[c].name]}
             /\ hist'.peopled = Peopled
             /\ hist'.cut = hist.cut /\ hist'.undone = hist.undone /\ hist'.removed = hist.removed
             /\ hist'.belated = hist.belated /\ hist'.erased = hist.erased
             /\ hist'.migrated = hist.migrated
             /\ secrets' = secrets
  BY <1>0, <1>2 DEF CommitRegistration, Histories
<1>3. ASSUME NEW c \in Calls, RemoveCommit(c)
      PROVE  /\ hist'.removed = hist.removed \cup {session[c].did}
             /\ hist'.registered = hist.registered
             /\ hist'.cut = hist.cut /\ hist'.undone = hist.undone
             /\ hist'.belated = hist.belated /\ hist'.erased = hist.erased
             /\ hist'.peopled = hist.peopled /\ hist'.migrated = hist.migrated
             /\ secrets' = secrets
  BY <1>0, <1>3 DEF RemoveCommit, Histories
<1>4. CommitMigration =>
             /\ hist'.migrated = {d \in imported.known : d.name \in Configured}
             /\ hist'.peopled = Peopled
             /\ hist'.registered = hist.registered /\ hist'.removed = hist.removed
             /\ hist'.cut = hist.cut /\ hist'.undone = hist.undone
             /\ hist'.belated = hist.belated /\ hist'.erased = hist.erased
             /\ secrets' = secrets
  BY <1>0 DEF CommitMigration, Histories
<1> QED BY <1>1, <1>2, <1>3, <1>4

(* The secret of id is written, or deleted by hand. *)
Sets(id) ==
    /\ secrets' = secrets \cup {id}
    /\ hist' = [hist EXCEPT
          !.erased = hist.erased \ {id},
          !.belated = IF HasRow(id) THEN hist.belated ELSE hist.belated \cup {id}]

Erases(id) ==
    /\ secrets' = secrets \ {id}
    /\ hist' = [hist EXCEPT
          !.erased = IF HasRow(id) THEN hist.erased \cup {id} ELSE hist.erased,
          !.belated = hist.belated \ {id}]

(* What that adds to the history. *)
LEMMA SecretEffects ==
    ASSUME TypeInv, NEW id
    PROVE  /\ Sets(id) =>
                 /\ secrets' = secrets \cup {id}
                 /\ hist'.erased = hist.erased \ {id}
                 /\ hist'.belated = IF HasRow(id) THEN hist.belated ELSE hist.belated \cup {id}
                 /\ hist'.registered = hist.registered /\ hist'.removed = hist.removed
                 /\ hist'.cut = hist.cut /\ hist'.undone = hist.undone
                 /\ hist'.peopled = hist.peopled /\ hist'.migrated = hist.migrated
           /\ Erases(id) =>
                 /\ secrets' = secrets \ {id}
                 /\ hist'.erased = IF HasRow(id) THEN hist.erased \cup {id} ELSE hist.erased
                 /\ hist'.belated = hist.belated \ {id}
                 /\ hist'.registered = hist.registered /\ hist'.removed = hist.removed
                 /\ hist'.cut = hist.cut /\ hist'.undone = hist.undone
                 /\ hist'.peopled = hist.peopled /\ hist'.migrated = hist.migrated
<1>0. hist \in Histories
  BY DEF TypeInv, HistoryTypes
<1> QED BY <1>0 DEF Sets, Erases, Histories

(* The steps, by what they do to the history and the keyring. *)
LEMMA HistoryKinds ==
    ASSUME Next
    PROVE  \/ UNCHANGED <<hist, secrets>>
           \/ \E c \in Calls : RemoveSecret(c)
           \/ \E a \in Actors : Abort(a)
           \/ \E c \in Calls : CommitRegistration(c) \/ RemoveCommit(c)
           \/ CommitMigration
           \/ ImportSecret /\ Sets(session[Migration].did)
           \/ CliSet /\ \E id \in Given : Sets(id)
           \/ CliDelete /\ \E id \in Given : Erases(id)
<1> USE ActorsFact
<1>1. ASSUME NEW a \in Actors,
             FindCustomer(a) \/ FindSite(a) \/ FindDevice(a) \/ Inserts(a) \/ FlushFails(a) \/ Cut(a)
      PROVE  UNCHANGED <<hist, secrets>> \/ Abort(a)
  BY <1>1 DEF FindCustomer, FindSite, FindDevice, Inserts, InsertCustomer, InsertSite,
              InsertDevice, Insert, FlushFails, Cut
<1>2. ASSUME NEW c \in Calls, Register(c) \/ Remove(c) \/ RemoveCheck(c) \/ RemoveFlush(c)
      PROVE  UNCHANGED <<hist, secrets>> \/ Abort(c)
  BY <1>2 DEF Register, Remove, RemoveCheck, RemoveFlush
<1>3. Migrate \/ ListExisting \/ ImportNext => UNCHANGED <<hist, secrets>>
  BY DEF Migrate, ListExisting, ImportNext
<1>4. ImportSecret => UNCHANGED <<hist, secrets>> \/ Sets(session[Migration].did)
  BY DEF ImportSecret, Sets
<1>5. CliSet => \E id \in Given : Sets(id)
  BY DEF CliSet, Sets
<1>6. CliDelete => \E id \in Given : Erases(id)
  BY DEF CliDelete, Erases
<1> QED BY <1>1, <1>2, <1>3, <1>4, <1>5, <1>6 DEF Next, Inserts

(* What has happened, has happened; and a row or a secret that is lost is  *)
(* accounted for.                                                          *)
LEMMA Keeps ==
    ASSUME TypeInv, RemovalInv, \A a \in Actors : SessionInv(a), Next
    PROVE  /\ hist.removed \subseteq hist'.removed /\ hist.registered \subseteq hist'.registered
           /\ hist.peopled \subseteq hist'.peopled /\ hist.cut \subseteq hist'.cut
           /\ hist.undone \subseteq hist'.undone
           /\ \A id \in hist.belated : id \in hist'.belated \/ id \notin secrets'
           /\ hist'.migrated = hist.migrated \/ CommitMigration
           /\ \A id \in secrets \cup hist.erased : HasRow(id) =>
                 id \in secrets' \cup hist'.erased \/ id \in hist'.removed
           /\ customers \subseteq customers' /\ sites \subseteq sites'
           /\ \A d \in devices : d \in devices' \/ d.id \in hist'.removed
           /\ ids' = ids \/ ids' = ids + 1
<1> USE ActorsFact
<1>1. hist.peopled \subseteq Peopled
  BY DEF Peopled
<1>2. \A c \in Calls : RemoveSecret(c) =>
          hist' = hist /\ secrets' = secrets \ {session[c].did} /\ session[c].did \in hist.removed
  BY DEF RemoveSecret, RemovalInv
<1>3. /\ hist.removed \subseteq hist'.removed /\ hist.registered \subseteq hist'.registered
      /\ hist.peopled \subseteq hist'.peopled /\ hist.cut \subseteq hist'.cut
      /\ hist.undone \subseteq hist'.undone
      /\ \A id \in hist.belated : id \in hist'.belated \/ id \notin secrets'
      /\ hist'.migrated = hist.migrated \/ CommitMigration
  BY <1>1, <1>2, HistoryKinds, HistoryEffects, SecretEffects
<1>4. \A id \in secrets \cup hist.erased : HasRow(id) =>
                 id \in secrets' \cup hist'.erased \/ id \in hist'.removed
  BY <1>2, HistoryKinds, HistoryEffects, SecretEffects
<1>5. customers \subseteq customers' /\ sites \subseteq sites' /\ (ids' = ids \/ ids' = ids + 1)
  BY RowKinds, InsertsLock DEF RowsKept, Abort, Publish, RemoveCommit, RemoveFlush, rows
<1>6. \A d \in devices : d \in devices' \/ d.id \in hist'.removed
  <2>1. CASE devices \subseteq devices'
    BY <2>1
  <2>2. ASSUME NEW c \in Calls, RemoveCommit(c) PROVE \A d \in devices : d \in devices' \/ d.id \in hist'.removed
    BY <2>2, HistoryEffects DEF RemoveCommit
  <2>3. (\E c \in Calls : RemoveCommit(c)) \/ devices \subseteq devices'
    BY RowKinds, InsertsLock DEF RowsKept, Abort, Publish, RemoveFlush, rows
  <2> QED BY <2>1, <2>2, <2>3
<1> QED BY <1>3, <1>4, <1>5, <1>6

-----------------------------------------------------------------------------
(* Where devices come from: an insertion, with an id never used before, or *)
(* the draft of the session that commits.                                  *)
LEMMA DevicesComeFrom ==
    ASSUME TypeInv, LockInv, Next
    PROVE  /\ \A b \in Actors : \A d \in draft'[b].devices :
                 d \in draft[b].devices \/ (d.id = ids /\ ids' = ids + 1 /\ devices' = devices)
           /\ \A d \in devices' : d \in devices \/
                 \E a \in Actors : Publish(a) /\ UNCHANGED ids /\ d \in draft[a].devices
                                       /\ \A b \in Actors : draft'[b] = NoDraft
<1> USE ActorsFact
<1>0. DOMAIN draft = Actors
  BY DEF TypeInv, RowTypes
<1>1. CASE RowsKept
  BY <1>1 DEF RowsKept, rows
<1>2. ASSUME NEW a \in Actors, Inserts(a)
      PROVE  /\ \A b \in Actors : \A d \in draft'[b].devices :
                   d \in draft[b].devices \/ (d.id = ids /\ ids' = ids + 1 /\ devices' = devices)
             /\ devices' = devices
  <2>1. ids' = ids + 1 /\ devices' = devices /\ \A b \in Actors \ {a} : draft'[b] = draft[b]
    BY <1>2, InsertsLock DEF rows
  <2>2. draft'[a].devices = draft[a].devices
            \/ draft'[a].devices = draft[a].devices \cup {DeviceRow(ids, session[a].sid, session[a].name)}
    BY <1>2, InsertCustomerSeen, InsertSiteSeen, InsertDeviceSeen DEF Inserts
  <2>3. DeviceRow(ids, session[a].sid, session[a].name).id = ids
    BY DEF DeviceRow
  <2> QED BY <2>1, <2>2, <2>3
<1>3. ASSUME NEW a \in Actors, Abort(a)
      PROVE  /\ \A b \in Actors : \A d \in draft'[b].devices : d \in draft[b].devices
             /\ devices' = devices
  BY <1>0, <1>3 DEF Abort, NoDraft, rows
<1>4. ASSUME NEW a \in Actors, Publish(a), UNCHANGED ids
      PROVE  /\ \A b \in Actors : \A d \in draft'[b].devices : d \in draft[b].devices
             /\ \A d \in devices' : d \in devices \/
                 (Publish(a) /\ UNCHANGED ids /\ d \in draft[a].devices /\ \A b \in Actors : draft'[b] = NoDraft)
  <2>1. \A b \in Actors : draft'[b] = draft[b] \/ draft'[b] = NoDraft
    BY <1>0, <1>4 DEF Publish
  <2>2. draft[a] = NoDraft \/ \A b \in Actors : draft'[b] = NoDraft
    BY <1>0, <1>4 DEF Publish, LockInv
  <2>3. devices' = devices \cup draft[a].devices
    BY <1>4 DEF Publish
  <2> QED BY <1>4, <2>1, <2>2, <2>3 DEF NoDraft
<1>5. ASSUME NEW c \in Calls, RemoveCommit(c) PROVE draft' = draft /\ devices' \subseteq devices
  BY <1>5 DEF RemoveCommit
<1> QED BY <1>1, <1>2, <1>3, <1>4, <1>5, RowKinds

(* A device that is gone stays gone: its id is not given again. *)
LEMMA GoneStays ==
    ASSUME TypeInv, LockInv, Next, NEW id \in Nat, Gone(id) PROVE Gone(id)'
<1>0. ids' = ids \/ ids' = ids + 1
  BY RowKinds, InsertsLock DEF RowsKept, Abort, RemoveCommit
<1>1. id < ids /\ ids \in Nat /\ id < ids'
  BY <1>0 DEF Gone, TypeInv, RowTypes
<1>2. \A a \in Actors : \A d \in draft'[a].devices : d.id # id
  BY <1>1, DevicesComeFrom DEF Gone, DevicesSeenBy
<1>3. \A d \in devices' : d.id # id
  BY <1>1, DevicesComeFrom, ActorsFact DEF Gone, DevicesSeenBy
<1> QED BY <1>1, <1>2, <1>3 DEF Gone, DevicesSeenBy

(* Where each step takes its session. *)
LEMMA GoesOn ==
    ASSUME TypeInv, NEW a \in Actors
    PROVE  /\ FindCustomer(a) => session'[a].pc \in {"site", "customer_insert"}
           /\ FindSite(a) => session'[a].pc \in {"find", "list", "site_insert"}
           /\ InsertCustomer(a) => session'[a].pc = "site"
           /\ InsertSite(a) => session'[a].pc \in {"find", "list"}
           /\ InsertDevice(a) => session'[a].pc \in {"secret", "commit"}
           /\ Abort(a) \/ (a \in Calls /\ CommitRegistration(a))
                 \/ (a \in Calls /\ RemoveSecret(a)) => session'[a].pc = "idle"
           /\ (a \in Calls /\ Register(a)) => session'[a].pc = "customer"
<1>0. SessionTypes
  BY DEF TypeInv
<1>1. ASSUME NEW pc, Goto(a, pc) PROVE session'[a].pc = pc
  BY <1>0, <1>1, MovedOn
<1>2. ASSUME NEW pc, NEW id, Found(a, pc, "cid", id) PROVE session'[a].pc = pc
  BY <1>0, <1>2, MovedFields
<1>3. ASSUME NEW pc, NEW id, Found(a, pc, "sid", id) PROVE session'[a].pc = pc
  BY <1>0, <1>3, MovedFields
<1>4. ASSUME NEW pc, NEW id, Found(a, pc, "did", id) PROVE session'[a].pc = pc
  BY <1>0, <1>4, MovedFields
<1>5. FindCustomer(a) => session'[a].pc \in {"site", "customer_insert"}
  BY <1>1, <1>2, FindCustomerEffect
<1>6. FindSite(a) => session'[a].pc \in {"find", "list", "site_insert"}
  BY <1>1, <1>3, FindSiteEffect
<1>7. InsertCustomer(a) => session'[a].pc = "site"
  BY <1>2, InsertCustomerEffect
<1>8. InsertSite(a) => session'[a].pc \in {"find", "list"}
  BY <1>3, InsertSiteEffect
<1>9. InsertDevice(a) => session'[a].pc \in {"secret", "commit"}
  BY <1>4, InsertDeviceEffect
<1>10. Abort(a) \/ (a \in Calls /\ CommitRegistration(a)) \/ (a \in Calls /\ RemoveSecret(a))
           => session'[a].pc = "idle"
  <2>1. Asleep.pc = "idle"
    BY DEF Asleep
  <2> QED BY <1>0, <2>1 DEF SessionTypes, Abort, CommitRegistration, RemoveSecret
<1>11. (a \in Calls /\ Register(a)) => session'[a].pc = "customer"
  BY <1>0 DEF SessionTypes, Register, Asleep
<1> QED BY <1>5, <1>6, <1>7, <1>8, <1>9, <1>10, <1>11

(* A removal begins with a committed row, and gets to the keyring by       *)
(* committing; it keeps to its device.                                     *)
LEMMA RemovalPlaces ==
    ASSUME TypeInv, \A a \in Actors : SessionInv(a), Next,
           NEW c \in Calls, session'[c].pc \in Removing
    PROVE  \/ Remove(c) /\ session'[c].pc = "rm_check" /\ \E d \in devices : session'[c].did = d.id
           \/ /\ session[c].pc \in Removing /\ session'[c].did = session[c].did
              /\ \/ RemoveCommit(c) \/ session'[c].pc # "rm_keyring"
                 \/ session[c].pc = "rm_keyring"
<1> USE ActorsFact
<1>1. CASE Leaves(c)
  BY <1>1 DEF Leaves
<1>2. ~Abort(c) /\ ~CommitRegistration(c) /\ ~RemoveSecret(c) /\ ~Register(c)
  BY GoesOn DEF Removing
<1>3. ~FindCustomer(c) /\ ~FindSite(c) /\ ~Inserts(c) /\ ~FindDevice(c)
  <2>1. FindDevice(c) => session'[c].pc = "device_insert"
    BY <1>2, MovedOn DEF FindDevice, TypeInv
  <2> QED BY <2>1, GoesOn DEF Removing, Inserts
<1>4. CASE Remove(c)
  <2>1. PICK d \in devices : Found(c, "rm_check", "did", d.id)
    BY <1>4, RemoveEffect
  <2> QED BY <1>4, <2>1, MovedFields DEF TypeInv
<1>5. CASE RemoveCheck(c) \/ RemoveFlush(c) \/ RemoveCommit(c)
  <2>1. PICK pc \in Removing : /\ Goto(c, pc) /\ session[c].pc \in Removing
                               /\ RemoveCommit(c) \/ pc # "rm_keyring"
    BY <1>2, <1>5 DEF RemoveCheck, RemoveFlush, RemoveCommit, At, Removing
  <2> QED BY <2>1, MovedOn DEF TypeInv
<1>6. FlushFails(c) \/ Cut(c) => Abort(c)
  BY DEF FlushFails, Cut
<1> QED BY <1>1, <1>2, <1>3, <1>4, <1>5, <1>6, OneMoves DEF Next, Inserts

(* Removals keep to what RemovalInv says. *)
LEMMA RemovalStep ==
    ASSUME TypeInv, LockInv, RowsInv, RemovalInv, \A a \in Actors : SessionInv(a), Next
    PROVE  RemovalInv'
<1> USE ActorsFact
<1>0. /\ ids \in Nat /\ hist.removed \in SUBSET Nat
      /\ \A d \in devices : d.id < ids
      /\ \A a \in Actors : \A d \in DevicesSeenBy(a) : d.id \in Nat /\ d.id < ids
  BY RowsTyped DEF TypeInv, RowTypes, HistoryTypes, Histories, RowsInv, Sound, IdsOnce, DevicesSeenBy
<1>1. ids' = ids \/ ids' = ids + 1
  BY Keeps
<1>2. \A a \in Actors : \A d \in draft'[a].devices : d \notin devices'
  BY <1>0, DevicesComeFrom DEF RemovalInv, NoDraft
<1>3. ASSUME NEW c \in Calls, session'[c].pc \in Removing
      PROVE  /\ session'[c].did < ids'
             /\ \A a \in Actors : \A d \in draft'[a].devices : d.id # session'[c].did
  <2>1. /\ session'[c].did < ids /\ session'[c].did \in Nat
        /\ \A a \in Actors : \A d \in draft[a].devices : d.id # session'[c].did
    <3>1. CASE session[c].pc \in Removing /\ session'[c].did = session[c].did
      BY <3>1 DEF RemovalInv, SessionInv
    <3>2. ASSUME NEW d \in devices, session'[c].did = d.id
          PROVE  \A a \in Actors : \A e \in draft[a].devices : e.id # d.id
      <4> SUFFICES ASSUME NEW a \in Actors, NEW e \in draft[a].devices, e.id = d.id PROVE FALSE
        OBVIOUS
      <4>1. d \in DevicesSeenBy(a) /\ e \in DevicesSeenBy(a)
        BY DEF DevicesSeenBy
      <4>2. e = d
        BY <4>1 DEF RowsInv, Sound, IdsOnce
      <4> QED BY <4>2 DEF RemovalInv
    <3> QED BY <1>0, <1>3, <3>1, <3>2, RemovalPlaces, RowsTyped
  <2> QED BY <1>0, <1>1, <2>1, DevicesComeFrom
<1>4. ASSUME NEW c \in Calls, RemoveCommit(c), NEW id, id = session[c].did
      PROVE  Gone(id)'
  <2>1. session[c].pc \in Removing
    BY <1>4 DEF RemoveCommit, At, Removing
  <2>2. id < ids /\ \A a \in Actors : \A d \in draft[a].devices : d.id # id
    BY <1>4, <2>1 DEF RemovalInv
  <2>3. draft' = draft /\ ids' = ids /\ \A d \in devices' : d.id # id
    BY <1>4 DEF RemoveCommit
  <2> QED BY <2>2, <2>3 DEF Gone, DevicesSeenBy
<1>5. \A id \in hist'.removed : Gone(id)'
  <2>1. ASSUME NEW id \in hist.removed PROVE Gone(id)'
    BY <1>0, <2>1, GoneStays DEF RemovalInv
  <2>2. ASSUME NEW id \in hist'.removed, id \notin hist.removed
        PROVE  \E c \in Calls : RemoveCommit(c) /\ id = session[c].did
    BY <2>2, HistoryKinds, HistoryEffects, SecretEffects DEF RemoveSecret
  <2> QED BY <1>4, <2>1, <2>2
<1>6. \A c \in Calls : session'[c].pc = "rm_keyring" => session'[c].did \in hist'.removed
  <2> SUFFICES ASSUME NEW c \in Calls, session'[c].pc = "rm_keyring"
               PROVE  session'[c].did \in hist'.removed
    OBVIOUS
  <2>1. session'[c].pc \in Removing
    BY DEF Removing
  <2>2. CASE RemoveCommit(c) /\ session'[c].did = session[c].did
    BY <2>2, HistoryEffects
  <2>3. CASE session[c].pc = "rm_keyring" /\ session'[c].did = session[c].did
    BY <2>3, Keeps DEF RemovalInv, At
  <2> QED BY <2>1, <2>2, <2>3, RemovalPlaces
<1> QED BY <1>2, <1>3, <1>5, <1>6 DEF RemovalInv, At

-----------------------------------------------------------------------------
(* What a registration in progress is about to commit. *)
LEMMA AboutToCommit ==
    ASSUME TypeInv, RowsInv, NEW a \in Actors, SessionInv(a), Publish(a),
           session[a].pc \in AfterSite
    PROVE  /\ \E s \in sites', c \in customers' :
                 /\ s.id = session[a].sid /\ s.name = session[a].site
                 /\ s.customer = session[a].cid
                 /\ c.id = session[a].cid /\ c.name = session[a].customer
           /\ \A c \in customers' : c \in customers \/ c.id = session[a].cid
           /\ \A s \in sites' : s \in sites \/ s.id = session[a].sid
           /\ devices' = DevicesSeenBy(a)
           /\ \A d \in DevicesSeenBy(a) : d.id < ids
<1>1. /\ customers' = CustomersSeenBy(a) /\ sites' = SitesSeenBy(a)
      /\ devices' = DevicesSeenBy(a)
  BY DEF Publish, CustomersSeenBy, SitesSeenBy, DevicesSeenBy
<1>2. HasCustomer(a) /\ HasSite(a)
  BY DEF SessionInv
<1>3. /\ \A c \in draft[a].customers : c.id = session[a].cid
      /\ \A s \in draft[a].sites : s.id = session[a].sid
  BY DEF SessionInv
<1>4. \A d \in DevicesSeenBy(a) : d.id < ids
  BY DEF RowsInv, Sound, IdsOnce
<1> QED BY <1>1, <1>2, <1>3, <1>4 DEF HasCustomer, HasSite, CustomersSeenBy, SitesSeenBy

(* Only a commit publishes rows. *)
LEMMA OnlyCommits ==
    ASSUME TypeInv, Next
    PROVE  \/ customers' = customers /\ sites' = sites /\ devices' \subseteq devices
           \/ CommitMigration \/ \E c \in Calls : CommitRegistration(c)
<1> DEFINE Kept == customers' = customers /\ sites' = sites /\ devices' \subseteq devices
<1>1. \A a \in Actors : Inserts(a) => Kept
  BY InsertsLock DEF rows
<1>2. \A a \in Actors : Abort(a) => Kept
  BY DEF Abort, rows
<1>3. \A a \in Actors : FindCustomer(a) \/ FindSite(a) \/ FindDevice(a) \/ FlushFails(a) \/ Cut(a)
         => Kept
  BY <1>2 DEF FindCustomer, FindSite, FindDevice, FlushFails, Cut, rows
<1>4. \A c \in Calls : Register(c) \/ Remove(c) \/ RemoveCheck(c) \/ RemoveFlush(c) \/ RemoveSecret(c)
         => Kept
  BY <1>2, ActorsFact DEF Register, Remove, RemoveCheck, RemoveFlush, RemoveSecret, rows
<1>5. \A c \in Calls : RemoveCommit(c) => Kept
  BY DEF RemoveCommit
<1>6. Migrate \/ ListExisting \/ ImportNext \/ ImportSecret \/ CliSet \/ CliDelete => Kept
  BY DEF Migrate, ListExisting, ImportNext, ImportSecret, CliSet, CliDelete, rows
<1> QED BY <1>1, <1>3, <1>4, <1>5, <1>6 DEF Next, Inserts

(* A claim is made by the registration that commits. *)
LEMMA NewClaims ==
    ASSUME TypeInv, Next, NEW claim \in hist'.registered, claim \notin hist.registered
    PROVE  \E c \in Calls :
              /\ CommitRegistration(c)
              /\ claim = [id |-> session[c].did, customer |-> session[c].customer,
                          site |-> session[c].site, name |-> session[c].name]
BY HistoryKinds, HistoryEffects, SecretEffects DEF RemoveSecret

(* The history is about ids that were given. *)
LEMMA HistoryStep ==
    ASSUME TypeInv, LockInv, RowsInv, RemovalInv, ImportInv, HistoryInv,
           \A a \in Actors : SessionInv(a), Next
    PROVE  HistoryInv'
<1> USE ActorsFact
<1>0. /\ ids \in Nat /\ (ids' = ids \/ ids' = ids + 1)
      /\ \A id \in Nat : id < ids => id < ids'
  BY Keeps DEF TypeInv, RowTypes
<1>t. /\ hist.registered \in SUBSET Claims /\ secrets \in SUBSET Nat
      /\ hist.belated \in SUBSET Nat /\ hist.undone \in SUBSET Nat /\ hist.cut \in SUBSET Nat
  BY DEF TypeInv, ImportTypes, HistoryTypes, Histories
<1>1. \A claim \in hist'.registered : claim.id < ids'
  <2>1. \A claim \in hist.registered : claim.id \in Nat /\ claim.id < ids
    BY <1>t DEF HistoryInv, Claims
  <2>2. ASSUME NEW c \in Calls, CommitRegistration(c)
        PROVE  session[c].did \in Nat /\ session[c].did < ids
    <3>1. session[c].pc = "commit"
      BY <2>2 DEF CommitRegistration, At
    <3>2. DeviceRow(session[c].did, session[c].sid, session[c].name) \in DevicesSeenBy(c)
      BY <3>1 DEF SessionInv, DevicesSeenBy
    <3>3. DeviceRow(session[c].did, session[c].sid, session[c].name).id = session[c].did
      BY DEF DeviceRow
    <3> QED BY <3>2, <3>3, RowsTyped DEF RowsInv, Sound, IdsOnce
  <2>3. \A claim \in hist'.registered : claim \in hist.registered \/
           \E c \in Calls : CommitRegistration(c) /\ claim.id = session[c].did
    <3> SUFFICES ASSUME NEW claim \in hist'.registered, claim \notin hist.registered
                 PROVE  \E c \in Calls : CommitRegistration(c) /\ claim.id = session[c].did
      OBVIOUS
    <3>1. PICK c \in Calls :
              /\ CommitRegistration(c)
              /\ claim = [id |-> session[c].did, customer |-> session[c].customer,
                          site |-> session[c].site, name |-> session[c].name]
      BY NewClaims
    <3> QED BY <3>1
  <2> QED BY <1>0, <2>1, <2>2, <2>3
<1>2. \A d \in devices' : d.site \in hist'.peopled
  <2>1. CASE devices' \subseteq devices
    BY <2>1, Keeps DEF HistoryInv
  <2>2. ASSUME NEW c \in Calls, CommitRegistration(c) PROVE \A d \in devices' : d.site \in hist'.peopled
    BY <2>2, HistoryEffects DEF Peopled
  <2>3. CASE CommitMigration
    BY <2>3, HistoryEffects DEF Peopled
  <2> QED BY <2>1, <2>2, <2>3, OnlyCommits
<1>3. \A id \in secrets \cup hist.belated \cup hist.undone \cup hist.cut : id \in Nat /\ id < ids
  BY <1>t DEF HistoryInv
<1>4. \A id \in Given : id \in Nat /\ id < ids
  <2> SUFFICES ASSUME NEW id \in Given PROVE id < ids
    BY GivenIds
  <2>1. \A claim \in hist.registered : claim.id < ids
    BY DEF HistoryInv
  <2>2. \A d \in devices : d.id < ids
    BY DEF RowsInv, Sound, IdsOnce, DevicesSeenBy
  <2>3. \A i \in hist.removed : i < ids
    BY DEF RemovalInv, Gone
  <2>4. NoRow < ids
    BY DEF TypeInv, RowTypes, NoRow
  <2> QED BY <2>1, <2>2, <2>3, <2>4 DEF Given
<1>5. ASSUME ImportSecret PROVE session[Migration].did \in Nat /\ session[Migration].did < ids
  BY <1>5 DEF ImportSecret, At, ImportInv, SessionInv
<1>6. ASSUME NEW a \in Actors, Abort(a)
      PROVE  /\ At(a, "rm_keyring") => session[a].did \in Nat /\ session[a].did < ids
             /\ \A d \in draft[a].devices : d.id \in Nat /\ d.id < ids
  <2>1. At(a, "rm_keyring") => a \in Calls /\ session[a].pc \in Removing
    BY DEF SessionInv, At, OfCalls, Removing
  <2>2. At(a, "rm_keyring") => session[a].did \in Nat /\ session[a].did < ids
    BY <2>1 DEF SessionInv, RemovalInv
  <2>3. \A d \in draft[a].devices : d.id \in Nat /\ d.id < ids
    BY RowsTyped DEF RowsInv, Sound, IdsOnce, DevicesSeenBy
  <2> QED BY <2>2, <2>3
<1>7. \A id \in secrets' \cup hist'.belated \cup hist'.undone \cup hist'.cut : id \in Nat /\ id < ids
  <2>1. CASE UNCHANGED <<hist, secrets>> \/ \E c \in Calls : RemoveSecret(c)
    BY <1>3, <2>1 DEF RemoveSecret
  <2>2. ASSUME NEW a \in Actors, Abort(a)
        PROVE  \A id \in secrets' \cup hist'.belated \cup hist'.undone \cup hist'.cut : id \in Nat /\ id < ids
    <3>1. /\ secrets' = secrets /\ hist'.belated = hist.belated
          /\ hist'.undone = hist.undone \cup {d.id : d \in draft[a].devices}
          /\ hist'.cut = hist.cut \/ (At(a, "rm_keyring") /\ hist'.cut = hist.cut \cup {session[a].did})
      BY <2>2, HistoryEffects
    <3>2. \A id \in hist'.cut : id \in Nat /\ id < ids
      BY <1>3, <1>6, <2>2, <3>1
    <3>3. \A id \in hist'.undone : id \in Nat /\ id < ids
      BY <1>3, <1>6, <2>2, <3>1
    <3> QED BY <1>3, <3>1, <3>2, <3>3
  <2>3. CASE CommitMigration \/ \E c \in Calls : CommitRegistration(c) \/ RemoveCommit(c)
    BY <1>3, <2>3, HistoryEffects
  <2>4. ASSUME NEW id, id \in Nat /\ id < ids, Sets(id) \/ Erases(id)
        PROVE  \A i \in secrets' \cup hist'.belated \cup hist'.undone \cup hist'.cut : i \in Nat /\ i < ids
    <3>1. /\ secrets' \subseteq secrets \cup {id} /\ hist'.belated \subseteq hist.belated \cup {id}
          /\ hist'.undone = hist.undone /\ hist'.cut = hist.cut
      BY <2>4, SecretEffects
    <3> QED BY <1>3, <2>4, <3>1
  <2> QED BY <1>4, <1>5, <2>1, <2>2, <2>3, <2>4, HistoryKinds
<1> QED BY <1>0, <1>1, <1>2, <1>7 DEF HistoryInv

(* A registered device stays where it was asked for, or was removed. *)
LEMMA RegisteredStep ==
    ASSUME TypeInv, RowsInv, RemovalInv, RegisteredIsFound,
           \A a \in Actors : SessionInv(a), Next
    PROVE  RegisteredIsFound'
<1> USE ActorsFact
<1>1. ASSUME NEW claim \in hist.registered
      PROVE  \/ claim.id \in hist'.removed
             \/ \E d \in devices' : /\ d.id = claim.id /\ d.name = claim.name
                                    /\ Located(d, claim.site, claim.customer)'
  <2>1. CASE claim.id \in hist.removed
    BY <2>1, Keeps
  <2>2. ASSUME NEW d \in devices, d.id = claim.id, d.name = claim.name,
               Located(d, claim.site, claim.customer)
        PROVE  \/ claim.id \in hist'.removed
               \/ d \in devices' /\ Located(d, claim.site, claim.customer)'
    BY <2>2, Keeps DEF Located
  <2> QED BY <2>1, <2>2 DEF RegisteredIsFound
<1>2. ASSUME NEW c \in Calls, CommitRegistration(c)
      PROVE  \E d \in devices' : /\ d.id = session[c].did /\ d.name = session[c].name
                                 /\ \E s \in sites', b \in customers' :
                                       /\ d.site = s.id /\ s.name = session[c].site
                                       /\ s.customer = b.id /\ b.name = session[c].customer
  <2> DEFINE d == DeviceRow(session[c].did, session[c].sid, session[c].name)
  <2>1. session[c].pc = "commit" /\ Publish(c)
    BY <1>2 DEF CommitRegistration, At
  <2>2. d \in devices'
    BY <2>1 DEF SessionInv, Publish
  <2>3. d.id = session[c].did /\ d.site = session[c].sid /\ d.name = session[c].name
    BY DEF DeviceRow
  <2> HIDE DEF d
  <2> QED BY <2>1, <2>2, <2>3, AboutToCommit DEF AfterSite
<1>4. ASSUME NEW claim \in hist'.registered, claim \notin hist.registered
      PROVE  \E d \in devices' : /\ d.id = claim.id /\ d.name = claim.name
                                 /\ Located(d, claim.site, claim.customer)'
  <2>1. PICK c \in Calls : CommitRegistration(c) /\ claim =
               [id |-> session[c].did, customer |-> session[c].customer,
                         site |-> session[c].site, name |-> session[c].name]
    BY <1>4, NewClaims
  <2>2. /\ claim.id = session[c].did /\ claim.customer = session[c].customer
        /\ claim.site = session[c].site /\ claim.name = session[c].name
    BY <2>1
  <2> QED BY <1>2, <2>1, <2>2 DEF Located
<1> QED BY <1>1, <1>4 DEF RegisteredIsFound

(* A secret whose device loses its row is accounted for. *)
LEMMA OrphansStep ==
    ASSUME TypeInv, LockInv, RemovalInv, OrphansExplained, \A a \in Actors : SessionInv(a), Next
    PROVE  OrphansExplained'
<1> USE ActorsFact
<1>0. DOMAIN session = Actors /\ DOMAIN draft = Actors
  BY DEF TypeInv, SessionTypes, RowTypes
<1>1. ASSUME NEW id, HasRow(id)
      PROVE  \/ HasRow(id)' \/ id \in hist'.undone
             \/ \E c \in Calls : session'[c].pc = "rm_keyring" /\ session'[c].did = id
  <2>1. PICK d \in devices \cup draft[Migration].devices : d.id = id
    BY <1>1 DEF HasRow
  <2>2. CASE d \in devices
    <3>1. CASE d \in devices'
      BY <2>1, <3>1 DEF HasRow
    <3>2. ASSUME NEW c \in Calls, RemoveCommit(c), d \notin devices'
          PROVE  session'[c].pc = "rm_keyring" /\ session'[c].did = id
      <4>1. session[c].did = id /\ Goto(c, "rm_keyring")
        BY <2>1, <2>2, <3>2 DEF RemoveCommit
      <4> QED BY <4>1, MovedOn DEF TypeInv
    <3>3. d \in devices' \/ \E c \in Calls : RemoveCommit(c)
      BY <2>2, RowKinds, InsertsLock DEF RowsKept, Abort, Publish, RemoveFlush, rows
    <3> QED BY <3>1, <3>2, <3>3
  <2>3. CASE d \in draft[Migration].devices
    <3>1. CASE Abort(Migration)
      <4>1. hist'.undone = hist.undone \cup {e.id : e \in draft[Migration].devices}
        BY <3>1, HistoryEffects
      <4> QED BY <2>1, <2>3, <4>1
    <3>2. CASE Publish(Migration)
      BY <2>1, <2>3, <3>2 DEF Publish, HasRow
    <3>3. CASE draft[Migration].devices \subseteq draft'[Migration].devices
      BY <2>1, <2>3, <3>3 DEF HasRow
    <3>4. ASSUME NEW a \in Actors, Inserts(a)
          PROVE  draft[Migration].devices \subseteq draft'[Migration].devices
      <4>1. CASE a = Migration
        BY <3>4, <4>1, InsertCustomerSeen, InsertSiteSeen, InsertDeviceSeen DEF Inserts
      <4> QED BY <3>4, <4>1, InsertsLock
    <3>5. ASSUME NEW a \in Actors \ {Migration}, Abort(a) \/ Publish(a)
          PROVE  draft'[Migration] = draft[Migration]
      BY <1>0, <3>5 DEF Abort, Publish
    <3> QED BY <3>1, <3>2, <3>3, <3>4, <3>5, RowKinds DEF RowsKept, RemoveCommit
  <2> QED BY <2>1, <2>2, <2>3
<1>2. ASSUME NEW id \in secrets', NEW c \in Calls, At(c, "rm_keyring"), session[c].did = id
      PROVE  \/ session'[c].pc = "rm_keyring" /\ session'[c].did = id
             \/ id \in hist'.cut
  <2>1. CASE Leaves(c)
    BY <1>2, <2>1 DEF Leaves, At
  <2>2. CASE Abort(c)
    BY <1>2, <2>2, HistoryEffects
  <2>3. ~RemoveSecret(c)
    BY <1>2 DEF RemoveSecret
  <2>4. /\ ~Register(c) /\ ~CommitRegistration(c) /\ ~Remove(c) /\ ~RemoveCheck(c)
        /\ ~RemoveFlush(c) /\ ~RemoveCommit(c)
        /\ ~FindCustomer(c) /\ ~FindSite(c) /\ ~Inserts(c) /\ ~FindDevice(c)
    BY <1>2 DEF Register, Call, CommitRegistration, Remove, RemoveCheck, RemoveFlush,
        RemoveCommit, FindCustomer, FindSite, Inserts, InsertCustomer, InsertSite,
        InsertDevice, FindDevice, At
  <2>5. FlushFails(c) \/ Cut(c) => Abort(c)
    BY DEF FlushFails, Cut
  <2> QED BY <2>1, <2>2, <2>3, <2>4, <2>5, OneMoves DEF Next, Inserts
<1>3. ASSUME NEW id \in secrets PROVE id \in secrets' =>
             \/ HasRow(id)'
             \/ \E c \in Calls : session'[c].pc = "rm_keyring" /\ session'[c].did = id
             \/ id \in hist'.cut \cup hist'.undone \cup hist'.belated
  BY <1>1, <1>2, Keeps DEF OrphansExplained
<1>4. ASSUME NEW id \in secrets', id \notin secrets
      PROVE  HasRow(id)' \/ id \in hist'.belated
  <2>1. /\ \/ ImportSecret /\ Sets(session[Migration].did) /\ id = session[Migration].did
           \/ CliSet /\ \E i \in Given : Sets(i) /\ id = i
    <3>1. ~(UNCHANGED <<hist, secrets>>) /\ ~(\E c \in Calls : RemoveSecret(c))
      BY <1>4 DEF RemoveSecret
    <3>2. /\ ~(\E a \in Actors : Abort(a)) /\ ~CommitMigration
          /\ ~(\E c \in Calls : CommitRegistration(c) \/ RemoveCommit(c))
      BY <1>4, HistoryEffects
    <3>3. \A i : Sets(i) => i = id
      BY <1>4 DEF Sets
    <3>4. \A i : ~Erases(i)
      BY <1>4 DEF Erases
    <3> QED BY <3>1, <3>2, <3>3, <3>4, HistoryKinds
  <2>2. Sets(id) /\ devices' = devices /\ draft' = draft
    BY <2>1 DEF ImportSecret, CliSet, rows
  <2>3. HasRow(id)' <=> HasRow(id)
    BY <2>2 DEF HasRow
  <2>4. HasRow(id) \/ id \in hist'.belated
    <3>1. hist'.belated = IF HasRow(id) THEN hist.belated ELSE hist.belated \cup {id}
      BY <2>2, SecretEffects
    <3> QED BY <3>1
  <2> QED BY <2>3, <2>4
<1> QED BY <1>3, <1>4 DEF OrphansExplained, At

-----------------------------------------------------------------------------
(* A commit brings a site for its customer and a device for its site. *)
LEMMA NothingHalfStep ==
    ASSUME TypeInv, LockInv, RowsInv, RemovalInv, ImportInv, HistoryInv, NothingHalfRegistered,
           \A a \in Actors : SessionInv(a), Next
    PROVE  NothingHalfRegistered'
<1> USE ActorsFact
<1>1. \A c \in customers : \E s \in sites' : s.customer = c.id
  BY Keeps DEF NothingHalfRegistered
<1>2. \A s \in sites : s.id \in hist'.peopled
  BY Keeps DEF NothingHalfRegistered
<1>3. ASSUME NEW a \in Actors, Publish(a), session[a].pc \in AfterSite, session[a].sid \in hist'.peopled
      PROVE  NothingHalfRegistered'
  BY <1>1, <1>2, <1>3, AboutToCommit DEF NothingHalfRegistered
<1>4. ASSUME NEW c \in Calls, CommitRegistration(c) PROVE NothingHalfRegistered'
  <2> DEFINE d == DeviceRow(session[c].did, session[c].sid, session[c].name)
  <2>1. session[c].pc = "commit" /\ Publish(c)
    BY <1>4 DEF CommitRegistration, At
  <2>2. d \in devices'
    BY <2>1 DEF SessionInv, Publish
  <2>3. d.site = session[c].sid
    BY DEF DeviceRow
  <2> HIDE DEF d
  <2>4. session[c].sid \in hist'.peopled
    BY <1>4, <2>2, <2>3, HistoryEffects DEF Peopled
  <2> QED BY <1>3, <2>1, <2>4 DEF AfterSite
<1>5. CASE CommitMigration
  <2>1. /\ session[Migration].pc = "next" /\ Publish(Migration) /\ imported.todo = << >>
    BY <1>5 DEF CommitMigration, At
  <2>2. Config # << >> /\ LoopInv
    BY <2>1 DEF ImportInv, AfterSite
  <2>3. PICK name : name \in Configured
    <3>1. Len(Config) \in Nat /\ Len(Config) # 0
      BY <2>2
    <3>2. Config[1] \in Configured
      BY <3>1 DEF Configured
    <3> QED BY <3>2
  <2>4. name \notin NamesIn(imported.todo)
    BY <2>1 DEF NamesIn
  <2>5. PICK d \in imported.known : d.name = name
    BY <2>2, <2>3, <2>4 DEF LoopInv
  <2>6. d.site = session[Migration].sid /\ (d \in devices' \/ session[Migration].sid \in hist.peopled)
    BY <2>1, <2>2, <2>5 DEF LoopInv, Publish, DevicesSeenBy
  <2>7. session[Migration].sid \in hist'.peopled
    BY <1>5, <2>6, HistoryEffects DEF Peopled
  <2> QED BY <1>3, <2>1, <2>7 DEF AfterSite
<1>6. CASE customers' = customers /\ sites' = sites
  BY <1>1, <1>2, <1>6 DEF NothingHalfRegistered
<1> QED BY <1>4, <1>5, <1>6, OnlyCommits

(* A migration's commit leaves every device of config.json there. *)
LEMMA MigratedStep ==
    ASSUME TypeInv, LockInv, RowsInv, RemovalInv, ImportInv, MigratedIsThere,
           \A a \in Actors : SessionInv(a), Next
    PROVE  MigratedIsThere'
<1> USE ActorsFact
<1>1. CASE CommitMigration
  <2> DEFINE m == session[Migration]
  <2>1. /\ m.pc = "next" /\ Publish(Migration) /\ imported.todo = << >>
    BY <1>1 DEF CommitMigration, At
  <2>2. /\ m.customer = LegacyCustomer /\ m.site = LegacySite /\ LoopInv
    BY <2>1 DEF ImportInv, AfterSite
  <2>3. /\ hist'.migrated = {d \in imported.known : d.name \in Configured}
        /\ hist'.removed = hist.removed /\ hist'.erased = hist.erased /\ secrets' = secrets
    BY <1>1, HistoryEffects
  <2>4. /\ devices' = DevicesSeenBy(Migration)
        /\ \E s \in sites', c \in customers' :
              s.id = m.sid /\ s.name = m.site /\ s.customer = c.id /\ c.name = m.customer
    BY <2>1, AboutToCommit DEF AfterSite
  <2>5. ASSUME NEW name \in Configured
        PROVE  \E d \in hist'.migrated :
                /\ d.name = name
                /\ \/ d.id \in hist'.removed
                   \/ /\ d \in devices' /\ Located(d, LegacySite, LegacyCustomer)'
                      /\ name \in WithSecret => d.id \in secrets' \cup hist'.erased
    <3>1. name \notin NamesIn(imported.todo)
      BY <2>1 DEF NamesIn
    <3>2. PICK d \in imported.known : d.name = name /\ Settled(d, DevicesSeenBy(Migration))
      BY <2>2, <3>1 DEF LoopInv
    <3>3. d \in hist'.migrated /\ d.site = m.sid
      BY <2>2, <2>3, <3>2 DEF LoopInv
    <3>4. Located(d, LegacySite, LegacyCustomer)'
      BY <2>2, <2>4, <3>3 DEF Located
    <3> QED BY <2>3, <2>4, <3>2, <3>3, <3>4 DEF Settled
  <2> QED BY <2>5 DEF MigratedIsThere
<1>2. CASE ~CommitMigration
  <2>1. hist'.migrated = hist.migrated
    BY <1>2, Keeps
  <2>2. ASSUME NEW d \in hist.migrated,
               \/ d.id \in hist.removed
               \/ /\ d \in devices /\ Located(d, LegacySite, LegacyCustomer)
                  /\ d.name \in WithSecret => d.id \in secrets \cup hist.erased
        PROVE  \/ d.id \in hist'.removed
               \/ /\ d \in devices' /\ Located(d, LegacySite, LegacyCustomer)'
                  /\ d.name \in WithSecret => d.id \in secrets' \cup hist'.erased
    <3>1. CASE d.id \in hist.removed
      BY <3>1, Keeps
    <3>2. CASE /\ d \in devices /\ Located(d, LegacySite, LegacyCustomer)
               /\ d.name \in WithSecret => d.id \in secrets \cup hist.erased
      <4>1. Located(d, LegacySite, LegacyCustomer)'
        BY <3>2, Keeps DEF Located
      <4>2. HasRow(d.id)
        BY <3>2 DEF HasRow
      <4> QED BY <3>2, <4>1, <4>2, Keeps
    <3> QED BY <2>2, <3>1, <3>2
  <2> QED BY <2>1, <2>2 DEF MigratedIsThere
<1> QED BY <1>1, <1>2

-----------------------------------------------------------------------------
(* A device the migration sees has a row. *)
LEMMA SeenHasRow == \A d \in DevicesSeenBy(Migration) : HasRow(d.id)
BY DEF DevicesSeenBy, HasRow

(* The migration's loop knows as much after a step that leaves it where it *)
(* is in config.json, and does not roll its rows back.                     *)
LEMMA LoopStays ==
    ASSUME TypeInv, RemovalInv, HistoryInv, \A a \in Actors : SessionInv(a), Next, LoopInv,
           imported' = imported, session'[Migration].sid = session[Migration].sid,
           draft[Migration].devices \subseteq draft'[Migration].devices
    PROVE  LoopInv'
<1> USE ActorsFact
<1>0. /\ ids \in Nat /\ (ids' = ids \/ ids' = ids + 1) /\ \A d \in imported.known : d.id \in Nat
  BY Keeps DEF TypeInv, RowTypes, ImportTypes, DeviceRows
<1>1. \A d \in DevicesSeenBy(Migration) :
          d \in DevicesSeenBy(Migration)' \/ (d.id \in hist'.removed /\ d.site \in hist'.peopled)
  BY Keeps DEF DevicesSeenBy, HistoryInv
<1>2. \A d \in imported.known : Settled(d, DevicesSeenBy(Migration)) => Settled(d, DevicesSeenBy(Migration))'
  BY <1>1, SeenHasRow, Keeps DEF Settled
<1>3. ASSUME NEW d \in imported.known
      PROVE  /\ d.site = session'[Migration].sid /\ d.id < ids'
             /\ \/ d \in DevicesSeenBy(Migration)'
                \/ d.id \in hist'.removed /\ session'[Migration].sid \in hist'.peopled
  <2>1. /\ d.site = session[Migration].sid /\ d.id < ids
        /\ \/ d \in DevicesSeenBy(Migration)
           \/ d.id \in hist.removed /\ session[Migration].sid \in hist.peopled
    BY DEF LoopInv
  <2> QED BY <1>0, <1>1, <2>1, Keeps
<1> QED BY <1>2, <1>3 DEF LoopInv

(* A step that leaves the migration alone leaves what it knows true. *)
LEMMA ImportStays ==
    ASSUME TypeInv, RemovalInv, HistoryInv, ImportInv, \A a \in Actors : SessionInv(a), Next,
           Leaves(Migration), imported' = imported
    PROVE  ImportInv'
<1> USE ActorsFact
<1>0. session'[Migration] = session[Migration] /\ draft'[Migration] = draft[Migration]
  BY DEF Leaves
<1>1. LoopInv => LoopInv'
  BY <1>0, LoopStays
<1>2. session[Migration].pc = "secret" => session[Migration].did \in Nat
  BY DEF SessionInv
<1>3. ASSUME session[Migration].pc = "secret"
      PROVE  LET s == session[Migration] IN
             /\ s.did < ids'
             /\ \/ DeviceRow(s.did, s.sid, s.name) \in DevicesSeenBy(Migration)'
                \/ s.did \in hist'.removed /\ s.sid \in hist'.peopled
  <2> DEFINE s == session[Migration]
             d == DeviceRow(s.did, s.sid, s.name)
  <2>1. d.id = s.did /\ d.site = s.sid
    BY DEF DeviceRow
  <2>2. s.did < ids /\ (d \in DevicesSeenBy(Migration) \/ (s.did \in hist.removed /\ s.sid \in hist.peopled))
    BY <1>3 DEF ImportInv
  <2>3. s.did < ids'
    BY <1>2, <1>3, <2>2, Keeps DEF TypeInv, RowTypes
  <2> HIDE DEF d
  <2>4. d \in DevicesSeenBy(Migration)' \/ (s.did \in hist'.removed /\ s.sid \in hist'.peopled)
    BY <1>0, <2>1, <2>2, Keeps DEF DevicesSeenBy, HistoryInv
  <2> QED BY <2>3, <2>4 DEF d
<1> QED BY <1>0, <1>1, <1>3 DEF ImportInv

(* The migration on its way to the loop. *)
LEMMA ImportBegins ==
    ASSUME TypeInv, ImportInv,
           \/ Migrate \/ Abort(Migration) \/ CommitMigration
           \/ FindCustomer(Migration) \/ InsertCustomer(Migration)
           \/ FindSite(Migration) \/ InsertSite(Migration)
    PROVE  ImportInv'
<1> USE ActorsFact
<1> DEFINE Early == {"idle", "done", "customer", "customer_insert", "site", "site_insert", "list"}
<1>0. SessionTypes
  BY DEF TypeInv
<1>1. ASSUME session'[Migration].pc \in Early,
             session'[Migration].pc \notin {"idle", "done"} =>
                 /\ session'[Migration].customer = LegacyCustomer
                 /\ session'[Migration].site = LegacySite /\ Config # << >>
      PROVE  ImportInv'
  BY <1>1 DEF ImportInv, AtSite, AfterSite
<1>2. CASE Migrate
  <2>1. /\ session'[Migration].pc = "customer" /\ session'[Migration].customer = LegacyCustomer
        /\ session'[Migration].site = LegacySite /\ Config # << >>
    BY <1>0, <1>2 DEF Migrate, SessionTypes, Asleep
  <2> QED BY <1>1, <2>1
<1>3. CASE Abort(Migration)
  BY <1>1, <1>3, GoesOn
<1>4. CASE CommitMigration
  <2>1. session'[Migration].pc = "done"
    BY <1>0, <1>4 DEF CommitMigration, SessionTypes, Asleep
  <2> QED BY <1>1, <2>1
<1>5. ASSUME session[Migration].pc \in {"customer", "customer_insert"} \cup AtSite,
             session'[Migration].pc \in Early,
             session'[Migration].customer = session[Migration].customer,
             session'[Migration].site = session[Migration].site
      PROVE  ImportInv'
  BY <1>1, <1>5 DEF ImportInv
<1>6. CASE FindCustomer(Migration)
  <2>1. /\ session[Migration].pc = "customer"
        /\ \/ Goto(Migration, "customer_insert")
           \/ \E c \in CustomersSeenBy(Migration) : Found(Migration, "site", "cid", c.id)
    BY <1>6, FindCustomerEffect
  <2> QED BY <1>0, <1>5, <2>1, MovedOn, MovedFields
<1>7. CASE InsertCustomer(Migration)
  <2>1. session[Migration].pc = "customer_insert" /\ Found(Migration, "site", "cid", ids)
    BY <1>7, InsertCustomerEffect
  <2> QED BY <1>0, <1>5, <2>1, MovedFields
<1>8. CASE FindSite(Migration)
  <2>1. /\ session[Migration].pc = "site"
        /\ \/ Goto(Migration, "site_insert")
           \/ \E s \in SitesSeenBy(Migration) : Found(Migration, "list", "sid", s.id)
    BY <1>8, FindSiteEffect
  <2> QED BY <1>0, <1>5, <2>1, MovedOn, MovedFields DEF AtSite
<1>9. CASE InsertSite(Migration)
  <2>1. session[Migration].pc = "site_insert" /\ Found(Migration, "list", "sid", ids)
    BY <1>9, InsertSiteEffect
  <2> QED BY <1>0, <1>5, <2>1, MovedFields DEF AtSite
<1> QED BY <1>2, <1>3, <1>4, <1>6, <1>7, <1>8, <1>9

(* The list of the devices already there is where the loop starts. *)
LEMMA ListStep ==
    ASSUME TypeInv, RowsInv, ImportInv, ListExisting PROVE ImportInv'
<1> USE ActorsFact
<1> DEFINE m == session[Migration]
<1>1. /\ m.pc = "list" /\ imported' = [todo |-> Config, known |-> DevicesAt(m.sid)]
      /\ Goto(Migration, "next") /\ UNCHANGED <<rows, draft, ids, hist, secrets>>
  BY DEF ListExisting, At
<1>2. /\ session'[Migration].pc = "next" /\ session'[Migration].sid = m.sid
      /\ session'[Migration].customer = m.customer /\ session'[Migration].site = m.site
  BY <1>1, MovedOn DEF TypeInv
<1>3. /\ imported'.todo = Config
      /\ imported'.known = {d \in devices : d.site = m.sid}
  BY <1>1 DEF DevicesAt
<1>4. NamesIn(Config) = Configured
  BY DEF NamesIn, Configured
<1>5. \A d \in devices : d.id < ids /\ d \in DevicesSeenBy(Migration)'
  BY <1>1 DEF RowsInv, Sound, IdsOnce, DevicesSeenBy, rows
<1>6. \A d, e \in devices : d.site = e.site /\ d.name = e.name => d = e
  BY DEF RowsInv, Sound, NamedOnce, DevicesSeenBy
<1>7. LoopInv'
  BY <1>1, <1>2, <1>3, <1>4, <1>5, <1>6 DEF LoopInv
<1> QED BY <1>1, <1>2, <1>7 DEF ImportInv, AtSite, AfterSite

(* A device listed is taken as it is; one that was not is looked for. *)
LEMMA ImportNextStep ==
    ASSUME TypeInv, RemovalInv, HistoryInv, ImportInv, \A a \in Actors : SessionInv(a), Next,
           ImportNext
    PROVE  ImportInv'
<1> USE ActorsFact
<1> DEFINE m == session[Migration]
           name == Head(imported.todo)
<1>1. /\ m.pc = "next" /\ imported.todo # << >>
      /\ UNCHANGED <<rows, draft, imported, ids, hist, secrets>>
  BY ImportNextEffect
<1>2. m \in Sessions /\ DOMAIN session = Actors
  BY DEF TypeInv, SessionTypes
<1>3. LoopInv /\ m.customer = LegacyCustomer /\ m.site = LegacySite /\ Config # << >>
  BY <1>1 DEF ImportInv, AfterSite
<1>4. CASE /\ \A d \in imported.known : d.name # name
           /\ session' = [session EXCEPT ![Migration] = [m EXCEPT
                       !.pc = "find", !.name = name, !.did = None]]
  <2>1. /\ session'[Migration].pc = "find" /\ session'[Migration].sid = m.sid
        /\ session'[Migration].customer = m.customer /\ session'[Migration].site = m.site
        /\ session'[Migration].name = name
    BY <1>2, <1>4 DEF Sessions
  <2>2. LoopInv'
    BY <1>1, <1>3, <2>1, LoopStays
  <2> QED BY <1>1, <1>3, <1>4, <2>1, <2>2 DEF ImportInv, AtSite, AfterSite
<1>5. ASSUME NEW d \in imported.known, d.name = name,
             session' = [session EXCEPT ![Migration] = [m EXCEPT
                          !.pc = "secret", !.name = name, !.did = d.id]]
      PROVE  ImportInv'
  <2>1. /\ session'[Migration].pc = "secret" /\ session'[Migration].sid = m.sid
        /\ session'[Migration].customer = m.customer /\ session'[Migration].site = m.site
        /\ session'[Migration].name = name /\ session'[Migration].did = d.id
    BY <1>2, <1>5 DEF Sessions
  <2>2. LoopInv'
    BY <1>1, <1>3, <2>1, LoopStays
  <2>3. d \in DeviceRows /\ d.site = m.sid
    BY <1>3 DEF TypeInv, ImportTypes, LoopInv
  <2>4. d = DeviceRow(d.id, m.sid, name)
    BY <1>5, <2>3 DEF DeviceRow, DeviceRows
  <2>5. /\ d.id < ids
        /\ d \in DevicesSeenBy(Migration) \/ (d.id \in hist.removed /\ m.sid \in hist.peopled)
    BY <1>3 DEF LoopInv
  <2>6. DevicesSeenBy(Migration)' = DevicesSeenBy(Migration)
    BY <1>1 DEF DevicesSeenBy, rows
  <2>7. \A e \in imported.known : e.name = name => e.id = d.id
    BY <1>3, <1>5 DEF LoopInv
  <2> QED
    BY <1>1, <1>3, <2>1, <2>2, <2>4, <2>5, <2>6, <2>7 DEF ImportInv, AtSite, AfterSite
<1> QED BY <1>4, <1>5, ImportNextEffect

(* A device the migration inserts is the one its secret is for. *)
LEMMA ImportDeviceStep ==
    ASSUME TypeInv, RemovalInv, HistoryInv, ImportInv, \A a \in Actors : SessionInv(a), Next,
           FindDevice(Migration) \/ InsertDevice(Migration)
    PROVE  ImportInv'
<1> USE ActorsFact
<1> DEFINE m == session[Migration]
<1>0. ids \in Nat /\ SessionTypes
  BY DEF TypeInv, RowTypes
<1>1. CASE Abort(Migration)
  BY <1>1, ImportBegins
<1>2. ASSUME m.pc \in {"find", "device_insert"}
      PROVE  /\ LoopInv /\ m.customer = LegacyCustomer /\ m.site = LegacySite /\ Config # << >>
             /\ imported.todo # << >> /\ m.name = Head(imported.todo)
             /\ \A d \in imported.known : d.name # m.name
  BY <1>2 DEF ImportInv, AfterSite
<1>3. CASE FindDevice(Migration) /\ ~Abort(Migration)
  <2>1. m.pc = "find" /\ Goto(Migration, "device_insert") /\ UNCHANGED <<draft, imported>>
    BY <1>3 DEF FindDevice, At
  <2>2. /\ session'[Migration].pc = "device_insert" /\ session'[Migration].sid = m.sid
        /\ session'[Migration].customer = m.customer /\ session'[Migration].site = m.site
        /\ session'[Migration].name = m.name
    BY <1>0, <2>1, MovedOn
  <2>3. LoopInv'
    BY <1>2, <2>1, <2>2, LoopStays
  <2> QED BY <1>2, <2>1, <2>2, <2>3 DEF ImportInv, AtSite, AfterSite
<1>4. CASE InsertDevice(Migration)
  <2> DEFINE d == DeviceRow(ids, m.sid, m.name)
  <2>1. /\ m.pc = "device_insert" /\ Found(Migration, "secret", "did", ids) /\ ids' = ids + 1
        /\ imported' = imported
    BY <1>4, InsertDeviceEffect
  <2>2. /\ session'[Migration].pc = "secret" /\ session'[Migration].sid = m.sid
        /\ session'[Migration].customer = m.customer /\ session'[Migration].site = m.site
        /\ session'[Migration].name = m.name /\ session'[Migration].did = ids
    BY <1>0, <2>1, MovedFields
  <2>3. /\ draft[Migration].devices \subseteq draft'[Migration].devices
        /\ d \in DevicesSeenBy(Migration)'
    BY <1>4, InsertDeviceSeen
  <2>4. LoopInv'
    BY <1>2, <2>1, <2>2, <2>3, LoopStays
  <2>5. d = DeviceRow(session'[Migration].did, session'[Migration].sid, session'[Migration].name)
    BY <2>2
  <2> HIDE DEF d
  <2> QED BY <1>0, <1>2, <2>1, <2>2, <2>3, <2>4, <2>5 DEF ImportInv, AtSite, AfterSite
<1> QED BY <1>1, <1>3, <1>4

(* After its secret, a device is settled. *)
LEMMA ImportSecretStep ==
    ASSUME TypeInv, RemovalInv, HistoryInv, ImportInv, \A a \in Actors : SessionInv(a), Next,
           ImportSecret
    PROVE  ImportInv'
<1> USE ActorsFact
<1> DEFINE m == session[Migration]
           row == DeviceRow(m.did, m.sid, m.name)
<1>1. /\ m.pc = "secret" /\ Goto(Migration, "next") /\ UNCHANGED <<rows, draft, ids>>
      /\ imported'.todo = Tail(imported.todo) /\ imported'.known = imported.known \cup {row}
  BY DEF ImportSecret, At
<1>2. /\ session'[Migration].pc = "next" /\ session'[Migration].sid = m.sid
      /\ session'[Migration].customer = m.customer /\ session'[Migration].site = m.site
  BY <1>1, MovedOn DEF TypeInv
<1>3. /\ LoopInv /\ m.customer = LegacyCustomer /\ m.site = LegacySite /\ Config # << >>
      /\ imported.todo # << >> /\ m.name = Head(imported.todo) /\ m.did < ids
      /\ \A d \in imported.known : d.name = m.name => d.id = m.did
      /\ row \in DevicesSeenBy(Migration) \/ (m.did \in hist.removed /\ m.sid \in hist.peopled)
  BY <1>1 DEF ImportInv, AfterSite
<1>4. DevicesSeenBy(Migration)' = DevicesSeenBy(Migration)
  BY <1>1 DEF DevicesSeenBy, rows
<1>5. NamesIn(imported.todo) = {m.name} \cup NamesIn(Tail(imported.todo))
  BY <1>3, TodoNames
<1>6. row.id = m.did /\ row.site = m.sid /\ row.name = m.name
  BY DEF DeviceRow
<1>7. \A d \in imported.known : d.name = m.name => d = row
  <2> SUFFICES ASSUME NEW d \in imported.known, d.name = m.name PROVE d = row
    OBVIOUS
  <2>1. d \in DeviceRows /\ d.site = m.sid /\ d.id = m.did
    BY <1>3 DEF TypeInv, ImportTypes, LoopInv
  <2> QED BY <2>1 DEF DeviceRow, DeviceRows
<1>8. m.name \in WithSecret => m.did \in secrets'
  BY DEF ImportSecret
<1>9. \A d \in imported.known : Settled(d, DevicesSeenBy(Migration)) => Settled(d, DevicesSeenBy(Migration))'
  BY <1>4, SeenHasRow, Keeps DEF Settled
<1> HIDE DEF row
<1>10. ASSUME NEW d, d = row PROVE Settled(d, DevicesSeenBy(Migration))'
  BY <1>3, <1>4, <1>6, <1>8, <1>10, Keeps DEF Settled
<1>11. \A d \in imported'.known :
          /\ d.site = m.sid /\ d.id < ids
          /\ d \in DevicesSeenBy(Migration)' \/ (d.id \in hist'.removed /\ m.sid \in hist'.peopled)
  BY <1>1, <1>3, <1>4, <1>6, Keeps DEF LoopInv
<1>12. \A d, e \in imported'.known : d.name = e.name => d = e
  BY <1>1, <1>3, <1>6, <1>7 DEF LoopInv
<1>13. ASSUME NEW name \in Configured \ NamesIn(imported'.todo)
       PROVE  \E d \in imported'.known : d.name = name /\ Settled(d, DevicesSeenBy(Migration))'
  <2>1. CASE name = m.name
    BY <1>1, <1>6, <1>10, <2>1
  <2>2. CASE name # m.name
    <3>1. name \in Configured \ NamesIn(imported.todo)
      BY <1>1, <1>5, <1>13, <2>2
    <3>2. PICK d \in imported.known : d.name = name /\ Settled(d, DevicesSeenBy(Migration))
      BY <1>3, <3>1 DEF LoopInv
    <3> QED BY <1>1, <1>9, <3>2
  <2> QED BY <2>1, <2>2
<1>14. NamesIn(imported'.todo) \subseteq Configured
  BY <1>1, <1>3, <1>5 DEF LoopInv
<1>15. LoopInv'
  BY <1>1, <1>2, <1>11, <1>12, <1>13, <1>14 DEF LoopInv
<1> QED BY <1>2, <1>3, <1>15 DEF ImportInv, AtSite, AfterSite

(* The migration knows what it has seen to, whoever steps. *)
LEMMA ImportStep ==
    ASSUME TypeInv, LockInv, RowsInv, RemovalInv, HistoryInv, ImportInv,
           \A a \in Actors : SessionInv(a), Next
    PROVE  ImportInv'
<1> USE ActorsFact
<1>1. ASSUME NEW a \in Actors, a # Migration, Abort(a) PROVE imported' = imported
  BY <1>1 DEF Abort
<1>2. ASSUME NEW a \in Actors, FindCustomer(a) \/ FindSite(a) \/ FindDevice(a) \/ Inserts(a)
                                  \/ FlushFails(a) \/ Cut(a)
      PROVE  ImportInv'
  <2>1. CASE a = Migration
    BY <1>2, <2>1, ImportBegins, ImportDeviceStep DEF Inserts, FlushFails, Cut
  <2>2. CASE a # Migration
    <3>1. imported' = imported
      BY <1>1, <1>2, <2>2 DEF FindCustomer, FindSite, FindDevice, Inserts, InsertCustomer,
         InsertSite, InsertDevice, Insert, FlushFails, Cut
    <3>2. Leaves(Migration)
      BY <1>2, <2>2, OneMoves
    <3> QED BY <3>1, <3>2, ImportStays
  <2> QED BY <2>1, <2>2
<1>3. ASSUME NEW c \in Calls,
             Register(c) \/ CommitRegistration(c) \/ Remove(c) \/ RemoveCheck(c)
                 \/ RemoveFlush(c) \/ RemoveCommit(c) \/ RemoveSecret(c)
      PROVE  ImportInv'
  <2>1. imported' = imported
    BY <1>1, <1>3 DEF Register, CommitRegistration, Remove, RemoveCheck, RemoveFlush,
       RemoveCommit, RemoveSecret
  <2>2. Leaves(Migration)
    BY <1>3, OneMoves
  <2> QED BY <2>1, <2>2, ImportStays
<1>4. CliSet \/ CliDelete => ImportInv'
  <2>1. CliSet \/ CliDelete => imported' = imported
    BY DEF CliSet, CliDelete
  <2> QED BY <2>1, OneMoves, ImportStays
<1> QED
  BY <1>2, <1>3, <1>4, ImportBegins, ListStep, ImportNextStep, ImportSecretStep DEF Next, Inserts

-----------------------------------------------------------------------------
(* The inductive invariant holds at first, *)
LEMMA InvInit == Init => IInv
<1> SUFFICES ASSUME Init PROVE IInv
  OBVIOUS
<1> USE ActorsFact
<1>0. TypeInv
  BY TypeInit
<1>1. /\ customers = {} /\ sites = {} /\ devices = {} /\ writer = None /\ ids = 1
      /\ \A a \in Actors : draft[a] = NoDraft /\ session[a].pc = "idle"
      /\ imported = NoImport /\ secrets = {}
      /\ hist.registered = {} /\ hist.removed = {} /\ hist.cut = {} /\ hist.undone = {}
      /\ hist.belated = {} /\ hist.peopled = {} /\ hist.migrated = {}
  BY DEF Init, NoHistory, Asleep
<1>2. \A a \in Actors : CustomersSeenBy(a) = {} /\ SitesSeenBy(a) = {} /\ DevicesSeenBy(a) = {}
  BY <1>1 DEF CustomersSeenBy, SitesSeenBy, DevicesSeenBy, NoDraft
<1>3. LockInv
  BY <1>1 DEF LockInv
<1>4. RowsInv
  BY <1>1, <1>2 DEF RowsInv, Sound, IdsOnce, Linked, NamedOnce
<1>5. RemovalInv
  BY <1>1 DEF RemovalInv, NoDraft, At, Removing
<1>6. ImportInv
  BY <1>1 DEF ImportInv, AtSite, AfterSite
<1>7. HistoryInv
  BY <1>1 DEF HistoryInv
<1>8. \A a \in Actors : SessionInv(a)
  BY <1>1 DEF SessionInv, NoDraft, BeforeSite, AtSite, AfterSite, OfCalls, OfMigration, Removing
<1>9. RegisteredIsFound /\ NothingHalfRegistered /\ OrphansExplained /\ MigratedIsThere
  BY <1>1 DEF RegisteredIsFound, NothingHalfRegistered, OrphansExplained, MigratedIsThere
<1> QED BY <1>0, <1>3, <1>4, <1>5, <1>6, <1>7, <1>8, <1>9 DEF IInv

(* and every step keeps it. *)
LEMMA InvNext == IInv /\ [Next]_vars => IInv'
<1> SUFFICES ASSUME IInv, [Next]_vars PROVE IInv'
  OBVIOUS
<1>1. CASE Next
  BY <1>1, TypeStep, LockStep, RowsStep, RemovalStep, ImportStep, HistoryStep, SessionStep,
     RegisteredStep, NothingHalfStep, OrphansStep, MigratedStep DEF IInv
<1>2. CASE UNCHANGED vars
  BY <1>2 DEF vars, rows, IInv, TypeInv, RowTypes, SessionTypes, ImportTypes, HistoryTypes, LockInv,
     RowsInv, RemovalInv, Gone, ImportInv, LoopInv, Settled, HistoryInv, SessionInv, HasCustomer,
     HasSite, CustomersSeenBy, SitesSeenBy, DevicesSeenBy, At, HasRow, Located,
     RegisteredIsFound, NothingHalfRegistered, OrphansExplained, MigratedIsThere
<1> QED BY <1>1, <1>2

(* The inductive invariant holds of every reachable state. *)
THEOREM Invariance == Spec => []IInv
<1> QED BY InvInit, InvNext, PTL DEF Spec

(* Rows have ids of their own and refer to committed rows, and uncommitted *)
(* rows are the lock holder's: with any number of overlapping calls.       *)
THEOREM InventoryTypeCorrect == Spec => []TypeOK
<1>1. IInv => TypeOK
  <2> SUFFICES ASSUME IInv PROVE TypeOK
    OBVIOUS
  <2> USE ActorsFact
  <2>1. /\ TypeInv /\ LockInv /\ RowsInv /\ HistoryInv
    BY DEF IInv
  <2>2. PICK a \in Actors : Sound(ids, CustomersSeenBy(a), SitesSeenBy(a), DevicesSeenBy(a))
    BY <2>1 DEF RowsInv
  <2>3. /\ customers \subseteq CustomersSeenBy(a) /\ sites \subseteq SitesSeenBy(a)
        /\ devices \subseteq DevicesSeenBy(a)
    BY DEF CustomersSeenBy, SitesSeenBy, DevicesSeenBy
  <2>4. \A r \in customers \cup sites \cup devices : r.id < ids
    BY <2>2, <2>3 DEF Sound, IdsOnce
  <2>5. \A r, q \in customers \cup sites \cup devices : r.id = q.id => r = q
    BY <2>2, <2>3 DEF Sound, IdsOnce
  <2>6. /\ ids \in Nat /\ calls \in 0..MaxCalls /\ runs \in 0..MaxRuns /\ writer \in Actors \cup {None}
        /\ \A b \in Actors : session[b].pc \in Places
    BY <2>1 DEF TypeInv, RowTypes, ImportTypes, SessionTypes, Sessions
  <2>7. /\ \A s \in sites : \E c \in customers : s.customer = c.id
        /\ \A d \in devices : \E s \in sites : d.site = s.id
    BY <2>1 DEF RowsInv, Linked
  <2>8. \A id \in secrets : id < ids
    BY <2>1 DEF HistoryInv
  <2> QED BY <2>1, <2>4, <2>5, <2>6, <2>7, <2>8 DEF TypeOK, LockInv, Places
<1> QED BY Invariance, <1>1, PTL

(* What any session sees has unique names, so what is committed has. *)
LEMMA CommittedNames == IInv => NamesUnique
<1> SUFFICES ASSUME IInv PROVE NamesUnique
  OBVIOUS
<1>1. PICK a \in Actors : NamedOnce(CustomersSeenBy(a), SitesSeenBy(a), DevicesSeenBy(a))
  BY ActorsFact DEF IInv, RowsInv, Sound
<1>2. /\ customers \subseteq CustomersSeenBy(a) /\ sites \subseteq SitesSeenBy(a)
      /\ devices \subseteq DevicesSeenBy(a)
  BY DEF CustomersSeenBy, SitesSeenBy, DevicesSeenBy
<1> QED BY <1>1, <1>2 DEF NamesUnique, NamedOnce

(* No two customers share a name, no two sites of a customer, no two       *)
(* devices of a site: however many registrations overlap a migration.      *)
THEOREM NamesStayUnique == Spec => []NamesUnique
<1> QED BY Invariance, CommittedNames, PTL

(* An id that a registration returned is found, as asked for, until the    *)
(* device is removed.                                                      *)
THEOREM RegistrationsAreFound == Spec => []RegisteredIsFound
<1>1. IInv => RegisteredIsFound
  BY DEF IInv
<1> QED BY Invariance, <1>1, PTL

(* A registration or migration that fails leaves no customer or site.      *)
THEOREM NothingStaysHalfRegistered == Spec => []NothingHalfRegistered
<1>1. IInv => NothingHalfRegistered
  BY DEF IInv
<1> QED BY Invariance, <1>1, PTL

(* The three ways to leave a secret behind are the only ones.              *)
THEOREM OrphansAreExplained == Spec => []OrphansExplained
<1>1. IInv => OrphansExplained
  BY DEF IInv
<1> QED BY Invariance, <1>1, PTL

(* What a finished migration imported is there, whatever overlapped it.    *)
THEOREM MigrationsLast == Spec => []MigratedIsThere
<1>1. IInv => MigratedIsThere
  BY DEF IInv
<1> QED BY Invariance, <1>1, PTL

(* A secret is deleted by hand or once its device's row is gone.           *)
THEOREM SecretsOutliveRows == Spec => SecretOutlivesRow
<1>1. ASSUME IInv, [Next]_vars
      PROVE  [\A id \in secrets \ secrets' :
                id \in hist'.erased \/ ~\E d \in devices : d.id = id]_vars
  <2> SUFFICES ASSUME Next, NEW id \in secrets, id \notin secrets'
               PROVE  id \in hist'.erased \/ ~\E d \in devices : d.id = id
    BY <1>1
  <2>0. TypeInv /\ RemovalInv /\ \A a \in Actors : SessionInv(a)
    BY <1>1 DEF IInv
  <2>1. CASE \E c \in Calls : RemoveSecret(c)
    <3>1. id \in hist.removed
      BY <2>0, <2>1 DEF RemoveSecret, RemovalInv
    <3> QED BY <2>0, <3>1, ActorsFact DEF RemovalInv, Gone, DevicesSeenBy
  <2>2. ASSUME NEW i, Erases(i) PROVE id \in hist'.erased \/ ~\E d \in devices : d.id = id
    <3>1. i = id
      BY <2>2 DEF Erases
    <3>2. (\E d \in devices : d.id = id) => HasRow(id)
      BY DEF HasRow
    <3> QED BY <2>0, <2>2, <3>1, <3>2, SecretEffects
  <2>3. \A i : ~Sets(i)
    BY DEF Sets
  <2>4. /\ ~(\E a \in Actors : Abort(a)) /\ ~CommitMigration
        /\ ~(\E c \in Calls : CommitRegistration(c) \/ RemoveCommit(c))
    BY <2>0, HistoryEffects
  <2> QED BY <2>1, <2>2, <2>3, <2>4, HistoryKinds
<1> QED BY Invariance, <1>1, PTL DEF Spec, SecretOutlivesRow

-----------------------------------------------------------------------------
(* Ids are below a bound and are not shared: there are finitely many       *)
(* committed devices, and a set of them has a size.                        *)
LEMMA DevicesFinite == IInv => IsFiniteSet(devices)
<1> SUFFICES ASSUME IInv PROVE IsFiniteSet(devices)
  OBVIOUS
<1> DEFINE idOf == [d \in devices |-> d.id]
<1>1. PICK a \in Actors : Sound(ids, CustomersSeenBy(a), SitesSeenBy(a), DevicesSeenBy(a))
  BY ActorsFact DEF IInv, RowsInv
<1>2. ids \in Nat /\ \A d \in devices : d.id \in Nat /\ d.id < ids
  BY <1>1, RowsTyped DEF IInv, TypeInv, RowTypes, Sound, IdsOnce, DevicesSeenBy
<1>3. \A d, e \in devices : d.id = e.id => d = e
  BY <1>1 DEF Sound, IdsOnce, DevicesSeenBy
<1>4. idOf \in Injection(devices, 0..ids)
  BY <1>2, <1>3 DEF Injection, IsInjective
<1>5. IsFiniteSet(0..ids)
  BY <1>2, FS_Interval
<1> HIDE DEF idOf
<1> QED BY <1>4, <1>5, FS_Injection

(* The first of the eight stages with a match. *)
LEMMA FirstStage ==
    ASSUME NEW hits \in SUBSET (1..8), hits # {}
    PROVE  /\ (CHOOSE i \in hits : \A j \in hits : i <= j) \in hits
           /\ \A j \in hits : (CHOOSE i \in hits : \A k \in hits : i <= k) <= j
<1>1. \E i \in hits : \A j \in hits : i <= j
  <2>1. CASE 1 \in hits
    BY <2>1
  <2>2. CASE 2 \in hits /\ 1 \notin hits
    BY <2>2
  <2>3. CASE 3 \in hits /\ 1 \notin hits /\ 2 \notin hits
    BY <2>3
  <2>4. CASE 4 \in hits /\ 1 \notin hits /\ 2 \notin hits /\ 3 \notin hits
    BY <2>4
  <2>5. CASE 5 \in hits /\ 1 \notin hits /\ 2 \notin hits /\ 3 \notin hits /\ 4 \notin hits
    BY <2>5
  <2>6. CASE 6 \in hits /\ 1 \notin hits /\ 2 \notin hits /\ 3 \notin hits /\ 4 \notin hits /\ 5 \notin hits
    BY <2>6
  <2>7. CASE 7 \in hits /\ 1 \notin hits /\ 2 \notin hits /\ 3 \notin hits /\ 4 \notin hits /\ 5 \notin hits /\ 6 \notin hits
    BY <2>7
  <2>8. CASE 8 \in hits /\ 1 \notin hits /\ 2 \notin hits /\ 3 \notin hits /\ 4 \notin hits /\ 5 \notin hits /\ 6 \notin hits /\ 7 \notin hits
    BY <2>8
  <2>9. \/ 1 \in hits \/ 2 \in hits \/ 3 \in hits \/ 4 \in hits
        \/ 5 \in hits \/ 6 \in hits \/ 7 \in hits \/ 8 \in hits
    <3>1. PICK h \in 1..8 : h \in hits
      OBVIOUS
    <3> QED BY <3>1
  <2> QED BY <2>1, <2>2, <2>3, <2>4, <2>5, <2>6, <2>7, <2>8, <2>9
<1> QED BY <1>1

(* Whatever shares a name, the resolver's one answer is the device meant,  *)
(* or it says that there is none or more than one.                         *)
THEOREM ResolverNeverGuesses == Spec => []NeverGuesses
<1>1. ASSUME IInv PROVE NeverGuesses
  <2>1. IsFiniteSet(devices)
    BY <1>1, DevicesFinite
  <2>2. \A S \in SUBSET devices : IsFiniteSet(S) /\ Cardinality(S) \in Nat /\ (Cardinality(S) = 0 <=> S = {})
    BY <2>1, FS_Subset, FS_CardinalityType, FS_EmptySet
  <2> SUFFICES ASSUME NEW target \in Targets
               PROVE  LET answer == ResolveOne(target)
                          direct == Exact("host", target) \cup WithId(target)
                          named  == Exact("device", target)
                          called == direct \cup named \cup Exact("site", target)
                                      \cup Exact("customer", target)
                      IN  /\ answer.error = "none" =>
                                /\ Cardinality(answer.found) = 1
                                /\ called # {} => answer.found \subseteq called
                          /\ direct = {} /\ Cardinality(named) = 1 => answer = Answer(named)
                          /\ direct = {} /\ Cardinality(named) > 1 => answer.error = "ambiguous"
    BY DEF NeverGuesses
  <2> DEFINE stages == Stages(target)
             hits == {i \in 1..Len(stages) : stages[i].found # {}}
             at == CHOOSE i \in hits : \A j \in hits : i <= j
             direct == Exact("host", target) \cup WithId(target)
             named  == Exact("device", target)
             called == direct \cup named \cup Exact("site", target) \cup Exact("customer", target)
  <2>3. /\ Len(stages) = 8
        /\ stages[1] = [found |-> Exact("host", target), single |-> FALSE]
        /\ stages[2] = [found |-> WithId(target), single |-> FALSE]
        /\ stages[3] = [found |-> Exact("device", target), single |-> TRUE]
        /\ stages[4] = [found |-> Exact("site", target), single |-> FALSE]
        /\ stages[5] = [found |-> Exact("customer", target), single |-> FALSE]
        /\ stages[6] = [found |-> Prefix("device", target), single |-> TRUE]
        /\ stages[7] = [found |-> Prefix("site", target), single |-> FALSE]
        /\ stages[8] = [found |-> Prefix("customer", target), single |-> FALSE]
    BY DEF Stages
  <2>4. \A of : Exact(of, target) \subseteq devices /\ Prefix(of, target) \subseteq devices
    BY DEF Exact, Prefix
  <2>5. WithId(target) \subseteq devices
    BY DEF WithId
  <2>6. Resolve(target) =
            IF hits = {} THEN NotFound
            ELSE IF stages[at].single /\ Cardinality(stages[at].found) > 1
                 THEN Ambiguous(stages[at].found) ELSE Answer(stages[at].found)
    BY DEF Resolve
  <2> HIDE DEF stages
  <2>7. \A i \in 1..8 : stages[i].found \subseteq devices
    BY <2>3, <2>4, <2>5
  <2>8. hits \in SUBSET (1..8)
    BY <2>3
  <2> DEFINE found == stages[at].found
  <2>9. hits # {} => /\ at \in 1..8 /\ found # {} /\ found \subseteq devices
                     /\ \A j \in 1..8 : stages[j].found # {} => at <= j
    <3> HIDE DEF at
    <3>1. hits # {} => at \in hits /\ \A j \in hits : at <= j
      BY <2>8, FirstStage DEF at
    <3> QED BY <2>3, <2>7, <3>1
  <2> HIDE DEF hits, at
  <2>10. ASSUME ResolveOne(target).error = "none"
         PROVE  /\ hits # {} /\ Cardinality(found) = 1
                /\ ResolveOne(target) = Answer(found)
    <3>1. /\ NotFound.error = "not_found" /\ Ambiguous(found).error = "ambiguous"
          /\ Answer(found).error = "none" /\ Answer(found).found = found
      BY DEF NotFound, Ambiguous, Answer
    <3>2. Ambiguous(Resolve(target).found).error = "ambiguous"
      BY DEF Ambiguous
    <3>3. ResolveOne(target) = Resolve(target) /\ ~(Cardinality(Resolve(target).found) > 1)
              /\ Resolve(target).error = "none"
      BY <2>10, <3>2 DEF ResolveOne
    <3>4. hits # {} /\ Resolve(target) = Answer(found)
      BY <2>6, <3>1, <3>3
    <3>5. Cardinality(found) \in Nat /\ Cardinality(found) # 0
      BY <2>2, <2>9, <3>4
    <3> QED BY <3>1, <3>3, <3>4, <3>5
  <2>11. hits # {} /\ called # {} => found \subseteq called
    <3>1. ASSUME called # {}, hits # {} PROVE at \in 1..5
      <4>1. \E j \in 1..5 : stages[j].found # {}
        BY <2>3, <3>1
      <4> QED BY <2>9, <3>1, <4>1
    <3> QED BY <2>3, <3>1
  <2>12. ASSUME direct = {}, named # {} PROVE found = named /\ hits # {} /\ stages[at].single
    <3>1. hits # {}
      BY <2>3, <2>12 DEF hits
    <3>2. at <= 3
      BY <2>3, <2>9, <2>12, <3>1
    <3>3. at = 3
      BY <2>3, <2>9, <2>12, <3>1, <3>2
    <3> QED BY <2>3, <3>1, <3>3
  <2>13. named # {} <=> Cardinality(named) # 0
    BY <2>2, <2>4
  <2>14. ASSUME direct = {}, Cardinality(named) = 1 PROVE ResolveOne(target) = Answer(named)
    <3>1. Resolve(target) = Answer(named)
      BY <2>6, <2>12, <2>13, <2>14
    <3>2. Answer(named).found = named
      BY DEF Answer
    <3> QED BY <2>14, <3>1, <3>2 DEF ResolveOne
  <2>15. ASSUME direct = {}, Cardinality(named) > 1 PROVE ResolveOne(target).error = "ambiguous"
    <3>1. Resolve(target) = Ambiguous(named)
      BY <2>2, <2>4, <2>6, <2>12, <2>13, <2>15
    <3>2. Ambiguous(named).error = "ambiguous"
      BY DEF Ambiguous
    <3> QED BY <3>1, <3>2 DEF ResolveOne
  <2>16. \A f : Answer(f).found = f
    BY DEF Answer
  <2> HIDE DEF found
  <2> QED BY <2>10, <2>11, <2>14, <2>15, <2>16
<1> QED BY Invariance, <1>1, PTL

=============================================================================
