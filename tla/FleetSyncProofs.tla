-------------------------- MODULE FleetSyncProofs --------------------------
(***************************************************************************)
(* The invariants of FleetSync for any number of calls, devices, objects   *)
(* and types, whatever the clients ask for.                                *)
(***************************************************************************)
EXTENDS FleetSync, TLAPS

(* The current type and the types after it. *)
LEMMA HeadTail ==
    \A s \in Seq(Types) : s # <<>> => Head(s) \in Types /\ Tail(s) \in Seq(Types)
OBVIOUS

(* What a call in one of its loops works on. *)
LEMMA Working ==
    ASSUME TypeOK, NEW k \in Calls, call[k].pc \in {"source", "dest", "create"}
    PROVE  /\ call[k] \in Call /\ call[k].dest \in Devices
           /\ call[k].types \in Seq(Types) /\ call[k].types # <<>>
           /\ Head(call[k].types) \in Types /\ Tail(call[k].types) \in Seq(Types)
           /\ call[k].req \in Requests /\ call[k].req # None
<1>1. /\ call[k] \in Call /\ call[k].dest \in Devices
      /\ call[k].types \in Seq(Types) /\ call[k].types # <<>>
      /\ call[k].req \in Requests /\ call[k].req # None
  BY DEF TypeOK, Call, Sound
<1>. QED  BY <1>1, HeadTail

(* A request is not None and names devices and types. *)
LEMMA RequestType ==
    ASSUME NEW r \in Requests
    PROVE  /\ r # None /\ r.source \in Devices /\ r.dests \subseteq Devices
           /\ r.types \in Seq(Types) /\ r.types # <<>>
BY FleetAssumption DEF Request

(* An entry of the report is well typed. *)
LEMMA BlankType ==
    ASSUME TypeOK, NEW k \in Calls, call[k].pc \in {"source", "dest", "create"}
    PROVE  Blank(k) \in Entry
BY Working DEF Blank, Entry, Call

(* Publishing a well typed entry leaves the reports well typed. *)
LEMMA PublishType ==
    ASSUME TypeOK, NEW k \in Calls, NEW e \in Entry, Publish(k, e)
    PROVE  report' \in [Calls -> Report]
<1>1. report \in [Calls -> Report] /\ report[k] \in Report
  BY DEF TypeOK
<1>2. Put(report[k].entries, e) \subseteq Entry
  BY <1>1 DEF Put, Report
<1>3. [report[k] EXCEPT !.entries = Put(report[k].entries, e)] \in Report
  BY <1>1, <1>2 DEF Report
<1>4. report' = [report EXCEPT ![k] = [report[k] EXCEPT !.entries = Put(report[k].entries, e)]]
  BY DEF Publish
<1>. QED  BY <1>1, <1>3, <1>4

(* Giving one call a well typed value keeps the calls well typed. *)
LEMMA CallStep ==
    ASSUME TypeOK, NEW k \in Calls, NEW c \in Call, Sound(c), call' = [call EXCEPT ![k] = c]
    PROVE  call' \in [Calls -> Call] /\ \A j \in Calls : Sound(call'[j])
BY DEF TypeOK

(* A call that goes on with its loop is well typed. *)
LEMMA AdvanceType ==
    ASSUME TypeOK, NEW k \in Calls, call[k].pc \in {"source", "dest", "create"}, Advance(k)
    PROVE  call' \in [Calls -> Call] /\ \A j \in Calls : Sound(call'[j])
<1> DEFINE rest == Tail(call[k].types)
           pc == IF rest # <<>> THEN "source"
                 ELSE IF call[k].req.kind = "sync" THEN "returned" ELSE "device"
           c == [call[k] EXCEPT !.pc = pc, !.types = rest, !.items = {}, !.missing = {},
                                !.created = {}, !.failed = {}]
<1>1. pc \in PC
  BY DEF PC
<1>2. c \in Call
  BY <1>1, Working DEF Call
<1>3. c.pc = pc /\ c.req = call[k].req /\ c.dest = call[k].dest /\ c.types = rest
  BY Working DEF Call
<1>4. Sound(c)
  BY <1>3, Working, FleetAssumption DEF Sound
<1>5. call' = [call EXCEPT ![k] = c]
  BY Working DEF Advance, Onward, Call
<1> HIDE DEF c
<1>. QED  BY <1>2, <1>4, <1>5, CallStep

(* What the model starts from is well typed. *)
LEMMA TypeInit == Init => TypeOK
<1>1. NewCall \in Call /\ Sound(NewCall)
  BY DEF NewCall, Call, PC, Sound
<1>. QED  BY <1>1, FleetAssumption DEF Init, TypeOK, Report, History

(* What is noted of a configuration changing is well typed. *)
LEMMA MeddledType ==
    ASSUME TypeOK, NEW k \in Calls \cup {None}
    PROVE  Meddled(k) \in [Calls -> History]
BY DEF TypeOK, Meddled, History

(* What is noted of a call that begins is well typed. *)
LEMMA BeginType ==
    ASSUME TypeOK, NEW k \in Calls, NEW r, Begin(k, r)
    PROVE  hist' \in [Calls -> History]
<1> DEFINE h == [hist[k] EXCEPT !.plans = PlansFor(r)]
<1>1. PlansFor(r) \subseteq Calls
  BY DEF PlansFor
<1>2. hist \in [Calls -> History] /\ h \in History
  BY <1>1 DEF TypeOK, History
<1>3. hist' = [hist EXCEPT ![k] = h]
  BY DEF Begin
<1> HIDE DEF h
<1>. QED  BY <1>2, <1>3

(* A create keeps configurations, deletions and history well typed. *)
LEMMA CreatesType ==
    ASSUME TypeOK, NEW k \in Calls, NEW o \in Objects, Tried(k, o), DeviceCreates(k, o)
    PROVE  /\ config' \in [Devices -> SUBSET Objects]
           /\ report' \in [Calls -> Report]
           /\ deleted' \subseteq Devices \X Objects
           /\ hist' \in [Calls -> History]
<1>1. call[k].dest \in Devices
  BY Working DEF Tried
<1>2. Meddled(k) \in [Calls -> History] /\ Meddled(k)[k] \in History
  BY MeddledType
<1>3. [Meddled(k)[k] EXCEPT !.wrote = @ \cup {<<call[k].dest, o>>}] \in History
  BY <1>1, <1>2 DEF History
<1>4. hist' = [Meddled(k) EXCEPT ![k] = [Meddled(k)[k] EXCEPT !.wrote = @ \cup {<<call[k].dest, o>>}]]
  BY DEF DeviceCreates
<1>5. hist' \in [Calls -> History]
  BY <1>2, <1>3, <1>4
<1>. QED  BY <1>1, <1>5 DEF TypeOK, DeviceCreates

(* A listing, whether or not it came through, keeps the history well typed. *)
LEMMA ListedType ==
    ASSUME TypeOK, NEW k \in Calls, NEW d \in Devices, NEW listing, Listed(k, d, listing)
    PROVE  hist' \in [Calls -> History] /\ mishaps' \in Nat
<1> DEFINE h == [hist[k] EXCEPT !.meddled = @ \cup {None}]
<1>1. hist \in [Calls -> History] /\ h \in History
  BY DEF TypeOK, History
<1>2. hist' = hist \/ hist' = [hist EXCEPT ![k] = h]
  BY DEF Listed
<1>3. mishaps' \in Nat
  BY DEF TypeOK, Listed, Mishap
<1> HIDE DEF h
<1>. QED  BY <1>1, <1>2, <1>3

(* Every step keeps the types. *)
LEMMA TypeStep == TypeOK /\ [Next]_vars => TypeOK'
<1> SUFFICES ASSUME TypeOK, [Next]_vars PROVE TypeOK'
  OBVIOUS
<1> DEFINE CallsOK == call' \in [Calls -> Call] /\ \A j \in Calls : Sound(call'[j])
<1>1. ASSUME NEW k \in Calls, NEW r \in Requests, Sync(k, r) PROVE TypeOK'
  <2>1. PICK dest \in r.dests :
           call' = [call EXCEPT ![k] =
              [@ EXCEPT !.pc = "source", !.req = r, !.dest = dest, !.types = r.types]]
    BY <1>1 DEF Sync
  <2> DEFINE c == [call[k] EXCEPT !.pc = "source", !.req = r, !.dest = dest, !.types = r.types]
  <2>2. dest \in Devices /\ dest # None
    BY RequestType, FleetAssumption
  <2>3. call[k] \in Call /\ r \in Requests /\ r.types \in Seq(Types) /\ r.types # <<>> /\ r # None
    BY RequestType DEF TypeOK
  <2>4. c \in Call
    BY <2>2, <2>3 DEF Call, PC
  <2>5. Sound(c)
    BY <2>2, <2>3 DEF Call, Sound
  <2>6. CallsOK
    BY <2>1, <2>4, <2>5, CallStep
  <2>. QED  BY <1>1, <2>6, BeginType DEF Sync, Begin, TypeOK
<1>2. ASSUME NEW k \in Calls, NEW r \in Requests, Replicate(k, r) PROVE TypeOK'
  <2> DEFINE c == [call[k] EXCEPT !.pc = "device", !.req = r, !.todo = Others(r)]
  <2>1. call[k] \in Call /\ Others(r) \subseteq Devices /\ r \in Requests /\ r # None
    BY RequestType DEF TypeOK, Others
  <2>2. c \in Call
    BY <2>1 DEF Call, PC
  <2>3. Sound(c)
    BY <2>1 DEF Call, Sound
  <2>4. call' = [call EXCEPT ![k] = c]
    BY <1>2 DEF Replicate
  <2>5. CallsOK
    BY <2>2, <2>3, <2>4, CallStep
  <2>. QED  BY <1>2, <2>5, BeginType DEF Replicate, Begin, TypeOK
<1>3. ASSUME NEW k \in Calls, NEW d \in Devices, NextDevice(k, d) PROVE TypeOK'
  <2> DEFINE c == [call[k] EXCEPT !.pc = "source", !.todo = @ \ {d}, !.dest = d,
                                  !.types = call[k].req.types]
  <2>1. call[k] \in Call /\ call[k].req \in Requests /\ d # None
    BY <1>3, FleetAssumption DEF NextDevice, TypeOK, Call, Sound
  <2>2. c \in Call /\ Sound(c)
    BY <2>1, RequestType DEF Call, PC, Sound
  <2>3. call' = [call EXCEPT ![k] = c]
    BY <1>3 DEF NextDevice
  <2>4. CallsOK
    BY <2>2, <2>3, CallStep
  <2>. QED  BY <1>3, <2>4 DEF NextDevice, TypeOK
<1>4. ASSUME NEW k \in Calls, NEW d \in Devices, Unreachable(k, d) PROVE TypeOK'
  <2> DEFINE c == [call[k] EXCEPT !.todo = @ \ {d}]
  <2>1. c \in Call /\ Sound(c)
    BY DEF TypeOK, Call, Sound
  <2>2. call' = [call EXCEPT ![k] = c]
    BY <1>4 DEF Unreachable
  <2>3. CallsOK
    BY <2>1, <2>2, CallStep
  <2>4. [report[k] EXCEPT !.errors = @ \cup {d}] \in Report
    BY DEF TypeOK, Report
  <2>5. report' = [report EXCEPT ![k] = [report[k] EXCEPT !.errors = @ \cup {d}]]
    BY <1>4 DEF Unreachable
  <2>6. report' \in [Calls -> Report]
    BY <2>4, <2>5 DEF TypeOK
  <2>7. mishaps' \in Nat /\ UNCHANGED <<config, deleted, hist>>
    BY <1>4 DEF Unreachable, TypeOK, Mishap
  <2>. QED  BY <2>3, <2>6, <2>7 DEF TypeOK
<1>5. ASSUME NEW k \in Calls, ListFails(k) PROVE TypeOK'
  <2>0. call[k].pc = "source"
    BY <1>5 DEF ListFails
  <2>1. CASE call[k].req.kind = "sync"
    <3> DEFINE c == [call[k] EXCEPT !.pc = "error"]
    <3>1. c \in Call /\ Sound(c)
      BY <2>0, Working DEF Call, PC, Sound
    <3>2. call' = [call EXCEPT ![k] = c]
      BY <1>5, <2>1 DEF ListFails
    <3>3. CallsOK
      BY <3>1, <3>2, CallStep
    <3>. QED  BY <1>5, <2>1, <3>3 DEF ListFails, TypeOK
  <2>2. CASE call[k].req.kind # "sync"
    <3>1. [Blank(k) EXCEPT !.error = TRUE] \in Entry
      BY <2>0, BlankType DEF Entry
    <3>2. report' \in [Calls -> Report]
      BY <1>5, <2>2, <3>1, PublishType DEF ListFails
    <3>3. CallsOK
      BY <1>5, <2>0, <2>2, AdvanceType DEF ListFails
    <3>. QED  BY <1>5, <3>2, <3>3 DEF ListFails, TypeOK
  <2>. QED  BY <2>1, <2>2
<1>6. ASSUME NEW k \in Calls, ListSource(k) PROVE TypeOK'
  <2>1. PICK listing \in Listings(k, call[k].req.source) :
           /\ Listed(k, call[k].req.source, listing)
           /\ call' = [call EXCEPT ![k] = [@ EXCEPT !.pc = "dest", !.items = listing]]
    BY <1>6 DEF ListSource
  <2>2. call[k].pc = "source" /\ call[k].req.source \in Devices
    BY <1>6, Working, RequestType DEF ListSource
  <2>3. listing \subseteq Objects
    BY <2>1, <2>2 DEF Listings, OfType, TypeOK
  <2> DEFINE c == [call[k] EXCEPT !.pc = "dest", !.items = listing]
  <2>4. c \in Call /\ Sound(c)
    BY <2>2, <2>3, Working, FleetAssumption DEF Call, PC, Sound
  <2>5. CallsOK
    BY <2>1, <2>4, CallStep
  <2>6. hist' \in [Calls -> History] /\ mishaps' \in Nat
    BY <2>1, <2>2, ListedType
  <2>. QED  BY <1>6, <2>5, <2>6 DEF ListSource, TypeOK
<1>7. ASSUME NEW k \in Calls, ListDest(k) PROVE TypeOK'
  <2> DEFINE r == call[k].req
  <2>0. call[k].pc = "dest" /\ call[k].dest \in Devices
    BY <1>7, Working DEF ListDest
  <2>1. PICK listing \in Listings(k, call[k].dest) :
           /\ Listed(k, call[k].dest, listing)
           /\ \/ /\ ~r.confirm
                 /\ Advance(k)
                 /\ Publish(k, [Blank(k) EXCEPT !.plan = Missing(call[k].items, listing)])
              \/ /\ r.confirm
                 /\ call' = [call EXCEPT ![k] =
                       IF r.kind = "sync" /\ ~Permits(r.mode, "create")
                       THEN [@ EXCEPT !.pc = "error"]
                       ELSE [@ EXCEPT !.pc = "create", !.missing = Missing(call[k].items, listing)]]
                 /\ UNCHANGED report
    BY <1>7 DEF ListDest
  <2> DEFINE missing == Missing(call[k].items, listing)
  <2>2. hist' \in [Calls -> History] /\ mishaps' \in Nat
    BY <2>0, <2>1, ListedType
  <2>3. missing \subseteq Objects
    BY DEF Missing, TypeOK, Call
  <2> HIDE DEF missing
  <2>4. CASE ~r.confirm
    <3>1. [Blank(k) EXCEPT !.plan = missing] \in Entry
      BY <2>0, <2>3, BlankType DEF Entry
    <3>2. report' \in [Calls -> Report]
      BY <2>1, <2>4, <3>1, PublishType DEF missing
    <3>3. CallsOK
      BY <2>0, <2>1, <2>4, AdvanceType
    <3>. QED  BY <1>7, <2>2, <3>2, <3>3 DEF ListDest, TypeOK
  <2>5. CASE r.confirm
    <3> DEFINE c == IF r.kind = "sync" /\ ~Permits(r.mode, "create")
                    THEN [call[k] EXCEPT !.pc = "error"]
                    ELSE [call[k] EXCEPT !.pc = "create", !.missing = missing]
    <3>0. call[k] \in Call /\ call[k].req # None /\ call[k].dest # None /\ call[k].types # <<>>
      BY <2>0, Working DEF TypeOK, Sound
    <3>1. c \in Call /\ Sound(c)
      <4> DEFINE c1 == [call[k] EXCEPT !.pc = "error"]
                 c2 == [call[k] EXCEPT !.pc = "create", !.missing = missing]
      <4>1. c1 \in Call /\ Sound(c1)
        BY <3>0 DEF Call, PC, Sound
      <4>2. c2 \in Call /\ Sound(c2)
        BY <3>0, <2>3 DEF Call, PC, Sound
      <4>. QED  BY <4>1, <4>2
    <3>2. call' = [call EXCEPT ![k] = c] /\ report' = report
      BY <2>1, <2>5 DEF missing
    <3> HIDE DEF c
    <3>3. CallsOK
      BY <3>1, <3>2, CallStep
    <3>. QED  BY <1>7, <2>2, <3>2, <3>3 DEF ListDest, TypeOK
  <2>. QED  BY <2>4, <2>5
<1>8. ASSUME NEW k \in Calls, TypeDone(k) PROVE TypeOK'
  <2>1. report' \in [Calls -> Report]
    BY <1>8, BlankType, PublishType DEF TypeDone
  <2>2. CallsOK
    BY <1>8, AdvanceType DEF TypeDone
  <2>. QED  BY <1>8, <2>1, <2>2 DEF TypeDone, TypeOK
<1>9. ASSUME NEW k \in Calls, NEW pc \in {"returned", "aborted"},
             call[k].pc # "new", call' = [call EXCEPT ![k].pc = pc]
      PROVE  CallsOK
  <2> DEFINE c == [call[k] EXCEPT !.pc = pc]
  <2>1. c \in Call /\ Sound(c)
    BY <1>9 DEF TypeOK, Call, PC, Sound
  <2>. QED  BY <1>9, <2>1, CallStep
<1>10. ASSUME NEW k \in Calls, DevicesDone(k) \/ Abort(k) PROVE TypeOK'
  <2>1. CallsOK
    BY <1>9, <1>10 DEF DevicesDone, Abort
  <2>. QED  BY <1>10, <2>1 DEF DevicesDone, Abort, TypeOK, Mishap
<1>11. ASSUME NEW k \in Calls, NEW o \in Objects, Tried(k, o),
              \/ call' = [call EXCEPT ![k].missing = @ \ {o}, ![k].created = @ \cup {o}]
              \/ call' = [call EXCEPT ![k].missing = @ \ {o}, ![k].failed = @ \cup {o}]
       PROVE  CallsOK
  <2> DEFINE c1 == [call[k] EXCEPT !.missing = @ \ {o}, !.created = @ \cup {o}]
             c2 == [call[k] EXCEPT !.missing = @ \ {o}, !.failed = @ \cup {o}]
  <2>1. c1 \in Call /\ Sound(c1) /\ c2 \in Call /\ Sound(c2)
    <3>1. call[k] \in Call /\ Sound(call[k]) /\ call[k].pc = "create"
      BY <1>11 DEF Tried, TypeOK
    <3>2. c1 \in Call /\ c2 \in Call
      BY <3>1 DEF Call
    <3>3. Sound(c1) /\ Sound(c2)
      BY <3>1 DEF Call, Sound
    <3>. QED  BY <3>2, <3>3
  <2>2. call' = [call EXCEPT ![k] = c1] \/ call' = [call EXCEPT ![k] = c2]
    BY <1>11 DEF TypeOK
  <2> HIDE DEF c1, c2
  <2>. QED  BY <2>1, <2>2, CallStep
<1>12. ASSUME NEW k \in Calls, NEW o \in Objects, Created(k, o) \/ CreatedUnheard(k, o)
       PROVE  TypeOK'
  <2>1. CallsOK
    BY <1>11, <1>12 DEF Created, CreatedUnheard
  <2>. QED  BY <1>12, <2>1, CreatesType DEF Created, CreatedUnheard, TypeOK, Mishap
<1>13. ASSUME NEW k \in Calls, NEW o \in Objects, AbortCreated(k, o) PROVE TypeOK'
  <2>1. CallsOK
    BY <1>9, <1>13 DEF AbortCreated, Tried
  <2>. QED  BY <1>13, <2>1, CreatesType DEF AbortCreated, TypeOK, Mishap
<1>14. ASSUME NEW k \in Calls, NEW o \in Objects, CreateFails(k, o) PROVE TypeOK'
  <2>1. CallsOK
    BY <1>11, <1>14 DEF CreateFails
  <2>. QED  BY <1>14, <2>1 DEF CreateFails, TypeOK, Mishap
<1>15. ASSUME NEW d \in Devices, NEW o \in Objects, Edit(d, o) PROVE TypeOK'
  <2>1. hist' \in [Calls -> History]
    BY <1>15, MeddledType DEF Edit
  <2>. QED  BY <1>15, <2>1 DEF Edit, TypeOK, Mishap
<1>16. CASE UNCHANGED vars
  BY <1>16 DEF vars, TypeOK
<1>. QED  BY <1>1, <1>2, <1>3, <1>4, <1>5, <1>6, <1>7, <1>8, <1>10, <1>12, <1>13, <1>14, <1>15,
             <1>16 DEF Next

(* Configurations, calls, reports and history keep their types. *)
THEOREM TypeCorrect == Spec => []TypeOK
BY TypeInit, TypeStep, PTL DEF Spec

-----------------------------------------------------------------------------
(* What each call remembers, and what it has reported so far. *)

Looping == {"source", "dest", "create"}

(* It works for its request, and creates only as the request allows. *)
AskInv(k) ==
    LET c == call[k] IN
    /\ c.pc = "new" => hist[k].wrote = {} /\ report[k].entries = {} /\ c.todo = {}
    /\ c.pc # "new" =>
          /\ c.todo \subseteq Others(c.req)
          /\ c.req.kind = "replicate" /\ c.req.confirm => Permits(c.req.mode, "create")
          /\ c.pc \in Looping =>
                /\ c.dest \in c.req.dests
                /\ c.req.kind = "replicate" => c.dest # c.req.source
          /\ c.pc = "create" => c.req.confirm /\ Permits(c.req.mode, "create")

Asked(k) ==
    \A w \in hist[k].wrote :
        LET r == call[k].req IN
        /\ r.confirm /\ r.mode # "read_only"
        /\ w[1] \in r.dests
        /\ r.kind = "replicate" => w[1] # r.source

AskedFor(k, t) == \E i \in DOMAIN call[k].req.types : t = call[k].req.types[i]

(* It works for types it was asked for, and has written only such objects. *)
ScopeInv(k) ==
    LET c == call[k] IN
    /\ c.pc \in Looping => \A i \in DOMAIN c.types : AskedFor(k, c.types[i])
    /\ c.pc = "create" => \A o \in c.missing : Type[o] = Head(c.types)
    /\ \A w \in hist[k].wrote : AskedFor(k, Type[w[2]])

(* Nothing is left over from the type before. *)
CleanInv(k) ==
    LET c == call[k] IN
    /\ c.pc \in {"new", "device", "source", "dest"} => c.created = {} /\ c.failed = {}
    /\ c.pc \in {"new", "device", "source"} => c.items = {}
    /\ c.pc \in {"dest", "create"} => \A o \in c.items : Type[o] = Head(c.types)

(* What counts as created was. *)
CreatedInv(k) ==
    /\ \A e \in report[k].entries : \A o \in e.created : <<e.dest, o>> \in hist[k].wrote
    /\ \A o \in call[k].created : <<call[k].dest, o>> \in hist[k].wrote

(* No entry stands where another is still to be put. *)
FreshInv(k) ==
    LET c == call[k] IN
    /\ c.pc \in Looping \cup {"device"} =>
          /\ \A e \in report[k].entries : e.dest \notin c.todo
          /\ c.pc \in Looping => c.dest \notin c.todo
    /\ c.pc \in Looping /\ ~Repeats(c.req.types) =>
          /\ ~Repeats(c.types)
          /\ \A e \in report[k].entries : e.dest = c.dest =>
                \A i \in DOMAIN c.types : e.type # c.types[i]

(* What was created is in an entry, or will be in the current one. *)
ReportedInv(k) ==
    LET c == call[k] IN
    c.pc \notin {"new", "error", "aborted"} /\ ~Repeats(c.req.types) =>
        \A w \in hist[k].wrote :
            \/ \E e \in report[k].entries : e.dest = w[1] /\ w[2] \in e.created \cup e.failed
            \/ c.pc = "create" /\ w[1] = c.dest /\ w[2] \in c.created \cup c.failed

(* The device has the object's name, or had it until somebody deleted it. *)
Held(d, o) ==
    \/ Name[o] = Unnamed
    \/ \E p \in Objects :
          /\ Type[p] = Type[o] /\ Name[p] = Name[o]
          /\ p \in config[d] \/ <<d, p>> \in deleted

(* What was listed is held, reported as failed, or still to be tried. *)
CopyInv(k) ==
    LET c == call[k] IN
    /\ c.pc # "new" /\ c.req.confirm =>
          \A e \in report[k].entries : \A o \in e.items : o \in e.failed \/ Held(e.dest, o)
    /\ c.pc = "create" =>
          \A o \in c.items : o \in c.missing \cup c.failed \/ Held(c.dest, o)

CallInv(k) ==
    /\ AskInv(k) /\ Asked(k) /\ ScopeInv(k) /\ CleanInv(k) /\ CreatedInv(k)
    /\ FreshInv(k) /\ ReportedInv(k) /\ CopyInv(k)

IInv == TypeOK /\ \A k \in Calls : CallInv(k)

(* The types after the current one are other types, if none is repeated. *)
LEMMA TailRepeats ==
    ASSUME NEW s \in Seq(Types), s # <<>>
    PROVE  /\ 1 \in DOMAIN s /\ Head(s) = s[1]
           /\ \A i \in DOMAIN Tail(s) : i + 1 \in DOMAIN s /\ Tail(s)[i] = s[i + 1] /\ i + 1 # 1
           /\ ~Repeats(s) => ~Repeats(Tail(s)) /\ \A i \in DOMAIN Tail(s) : Tail(s)[i] # Head(s)
<1>1. 1 \in DOMAIN s /\ Head(s) = s[1]
  OBVIOUS
<1>2. \A i \in DOMAIN Tail(s) : i + 1 \in DOMAIN s /\ Tail(s)[i] = s[i + 1] /\ i + 1 # 1 /\ i \in Nat
  OBVIOUS
<1>3. ASSUME ~Repeats(s) PROVE ~Repeats(Tail(s)) /\ \A i \in DOMAIN Tail(s) : Tail(s)[i] # Head(s)
  <2>1. \A i, j \in DOMAIN s : s[i] = s[j] => i = j
    BY <1>3 DEF Repeats
  <2>2. ASSUME NEW i \in DOMAIN Tail(s), NEW j \in DOMAIN Tail(s), Tail(s)[i] = Tail(s)[j]
        PROVE  i = j
    BY <1>2, <2>1, <2>2
  <2>3. \A i \in DOMAIN Tail(s) : Tail(s)[i] # Head(s)
    BY <1>1, <1>2, <2>1
  <2>. QED  BY <2>2, <2>3 DEF Repeats
<1>. QED  BY <1>1, <1>2, <1>3

(* Nobody but k has moved, and k's writes stand. *)
Apart(k) ==
    \A j \in Calls \ {k} :
        call'[j] = call[j] /\ report'[j] = report[j] /\ hist'[j].wrote = hist[j].wrote

Stable == \A d \in Devices, o \in Objects : Held(d, o) => Held(d, o)'

(* A call that does not move keeps its invariants. *)
LEMMA Frame ==
    ASSUME TypeOK, Stable, NEW j \in Calls, CallInv(j),
           call'[j] = call[j], report'[j] = report[j], hist'[j].wrote = hist[j].wrote
    PROVE  CallInv(j)'
<1>1. AskInv(j)' /\ Asked(j)' /\ ScopeInv(j)' /\ CleanInv(j)' /\ CreatedInv(j)' /\ FreshInv(j)' /\ ReportedInv(j)'
  BY DEF CallInv, AskInv, Asked, ScopeInv, AskedFor, CleanInv, CreatedInv, FreshInv, ReportedInv
<1>2. /\ call[j].items \subseteq Objects
      /\ call[j].pc = "create" => call[j].dest \in Devices
      /\ \A e \in report[j].entries : e.dest \in Devices /\ e.items \subseteq Objects
  BY Working DEF TypeOK, Call, Report, Entry
<1>3. CopyInv(j)'
  BY <1>2 DEF CallInv, CopyInv, Stable
<1>. QED  BY <1>1, <1>3 DEF CallInv

(* An edit or a create leaves held what was. *)
LEMMA HeldStable ==
    ASSUME TypeOK,
           \/ UNCHANGED <<config, deleted>>
           \/ \E d \in Devices, o \in Objects :
                \/ /\ config' = [config EXCEPT ![d] = @ \cup {o}]
                   /\ deleted' = deleted \ {<<d, o>>}
                \/ /\ config' = [config EXCEPT ![d] = @ \ {o}]
                   /\ deleted' = deleted \cup {<<d, o>>}
    PROVE  Stable
<1>1. \A d \in Devices, p \in Objects :
        p \in config[d] \/ <<d, p>> \in deleted => p \in config'[d] \/ <<d, p>> \in deleted'
  BY DEF TypeOK
<1>. QED  BY <1>1 DEF Stable, Held

(* A call that publishes an entry which tells what it did keeps its invariants. *)
LEMMA PublishInv ==
    ASSUME TypeOK, NEW k \in Calls, CallInv(k), call[k].pc \in Looping, Stable,
           NEW e \in Entry, Advance(k), Publish(k, e),
           hist'[k].wrote = hist[k].wrote,
           e.dest = call[k].dest, e.type = Head(call[k].types),
           e.created = call[k].created, e.failed = call[k].failed,
           call[k].req.confirm => \A o \in e.items : o \in e.failed \/ Held(e.dest, o)
    PROVE  CallInv(k)' /\ \A j \in Calls \ {k} : call'[j] = call[j] /\ report'[j] = report[j]
<1> DEFINE c == call[k]
           c1 == call'[k]
<1>1. /\ c1.req = c.req /\ c1.todo = c.todo /\ c1.dest = c.dest /\ c1.types = Tail(c.types)
      /\ c1.items = {} /\ c1.missing = {} /\ c1.created = {} /\ c1.failed = {}
      /\ c1.pc \in {"source", "returned", "device"}
      /\ c1.pc = "source" => Tail(c.types) # <<>>
      /\ c1.pc = "device" => c.req.kind # "sync"
  BY DEF Advance, Onward, TypeOK, Call
<1>2. /\ report'[k].entries = Put(report[k].entries, e)
      /\ \A j \in Calls \ {k} : call'[j] = call[j] /\ report'[j] = report[j]
  BY DEF Advance, Publish, TypeOK, Report
<1>3. c.types \in Seq(Types) /\ c.types # <<>> /\ c.dest \in Devices
  BY Working DEF Looping
<1> USE DEF Looping
<1>4. AskInv(k)' /\ Asked(k)' /\ ScopeInv(k)' /\ CleanInv(k)'
  <2>1. AskInv(k)' /\ Asked(k)' /\ CleanInv(k)'
    BY <1>1 DEF CallInv, AskInv, Asked, CleanInv
  <2>2. \A i \in DOMAIN Tail(c.types) : AskedFor(k, Tail(c.types)[i])
    BY <1>3, TailRepeats DEF CallInv, ScopeInv
  <2>. QED  BY <1>1, <2>1, <2>2 DEF CallInv, ScopeInv, AskedFor
<1>5. CreatedInv(k)'
  BY <1>1, <1>2 DEF CallInv, CreatedInv, Put
<1>6. FreshInv(k)'
  <2>1. \A f \in report'[k].entries : f.dest \notin c.todo
    BY <1>2 DEF CallInv, FreshInv, Put
  <2>2. ASSUME ~Repeats(c.req.types)
        PROVE  /\ ~Repeats(Tail(c.types))
               /\ \A f \in report'[k].entries : f.dest = c.dest =>
                     \A i \in DOMAIN Tail(c.types) : f.type # Tail(c.types)[i]
    <3>1. ~Repeats(c.types)
      BY <2>2 DEF CallInv, FreshInv
    <3>2. ASSUME NEW f \in report'[k].entries, f.dest = c.dest, NEW i \in DOMAIN Tail(c.types)
          PROVE  f.type # Tail(c.types)[i]
      <4>1. CASE f = e
        BY <1>3, <3>1, <4>1, TailRepeats
      <4>2. CASE f \in report[k].entries
        BY <1>3, <2>2, <3>2, <4>2, TailRepeats DEF CallInv, FreshInv
      <4>. QED  BY <1>2, <4>1, <4>2 DEF Put
    <3>. QED  BY <1>3, <3>1, <3>2, TailRepeats
  <2>. QED  BY <1>1, <2>1, <2>2 DEF CallInv, FreshInv
<1>7. ReportedInv(k)'
  <2>1. SUFFICES ASSUME ~Repeats(c.req.types), NEW w \in hist[k].wrote
                 PROVE  \E f \in report'[k].entries :
                            f.dest = w[1] /\ w[2] \in f.created \cup f.failed
    BY <1>1 DEF ReportedInv
  <2>2. CASE w[1] = c.dest /\ w[2] \in c.created \cup c.failed
    BY <1>2, <2>2 DEF Put
  <2>3. ASSUME NEW f \in report[k].entries, f.dest = w[1], w[2] \in f.created \cup f.failed
        PROVE  f \in report'[k].entries
    <3>1. f.dest # e.dest \/ f.type # e.type
      BY <1>3, <2>1, TailRepeats DEF CallInv, FreshInv
    <3>. QED  BY <1>2, <3>1 DEF Put
  <2>. QED  BY <2>1, <2>2, <2>3 DEF CallInv, ReportedInv
<1>8. CopyInv(k)'
  <2>1. e.items \subseteq Objects /\ e.dest \in Devices
    BY DEF Entry
  <2>2. \A f \in report[k].entries : f.dest \in Devices /\ f.items \subseteq Objects
    BY DEF TypeOK, Report, Entry
  <2>3. SUFFICES ASSUME c.req.confirm, NEW f \in report'[k].entries, NEW o \in f.items
                 PROVE  o \in f.failed \/ Held(f.dest, o)'
    BY <1>1 DEF CopyInv
  <2>4. o \in f.failed \/ Held(f.dest, o)
    BY <1>2, <2>3 DEF CallInv, CopyInv, Put, AskInv
  <2>5. f.dest \in Devices /\ o \in Objects
    BY <1>2, <2>1, <2>2, <2>3 DEF Put
  <2>. QED  BY <2>4, <2>5 DEF Stable
<1>. QED  BY <1>2, <1>4, <1>5, <1>6, <1>7, <1>8 DEF CallInv

(* When one call moves and keeps its invariants, all do. *)
LEMMA OneMoves ==
    ASSUME IInv, Stable, NEW k \in Calls, CallInv(k)', Apart(k)
    PROVE  \A j \in Calls : CallInv(j)'
BY Frame DEF IInv, Apart

(* A call that begins. *)
LEMMA BeginInv ==
    ASSUME IInv, NEW k \in Calls, NEW r \in Requests, Sync(k, r) \/ Replicate(k, r)
    PROVE  CallInv(k)' /\ Apart(k)
<1>1. TypeOK /\ CallInv(k) /\ call[k].pc = "new"
  BY DEF IInv, Sync, Replicate, Begin
<1>2. /\ hist[k].wrote = {} /\ report[k].entries = {} /\ call[k].todo = {}
      /\ call[k].created = {} /\ call[k].failed = {} /\ call[k].items = {}
  BY <1>1 DEF CallInv, AskInv, CleanInv
<1>3. /\ report' = report /\ hist'[k].wrote = hist[k].wrote
      /\ \A j \in Calls \ {k} : hist'[j] = hist[j] /\ call'[j] = call[j]
  BY <1>1 DEF Sync, Replicate, Begin, TypeOK, History
<1>4. /\ call'[k].req = r
      /\ call'[k].created = {} /\ call'[k].failed = {} /\ call'[k].items = {}
      /\ \/ /\ r.kind = "sync" /\ call'[k].pc = "source" /\ call'[k].todo = {}
            /\ call'[k].dest \in r.dests /\ call'[k].types = r.types
         \/ /\ r.kind = "replicate" /\ call'[k].pc = "device" /\ call'[k].todo = Others(r)
            /\ r.confirm => Permits(r.mode, "create")
  <2>1. CASE Sync(k, r)
    <3>1. PICK dest \in r.dests :
             call' = [call EXCEPT ![k] =
                [@ EXCEPT !.pc = "source", !.req = r, !.dest = dest, !.types = r.types]]
      BY <2>1 DEF Sync
    <3>2. call[k] \in Call /\ call'[k] = [call[k] EXCEPT !.pc = "source", !.req = r, !.dest = dest,
                                                        !.types = r.types]
      BY <1>1, <3>1 DEF TypeOK
    <3>3. r.kind = "sync"
      BY <2>1 DEF Sync
    <3>4. /\ call'[k].pc = "source" /\ call'[k].req = r /\ call'[k].dest = dest
          /\ call'[k].types = r.types /\ call'[k].todo = call[k].todo
          /\ call'[k].created = call[k].created /\ call'[k].failed = call[k].failed
          /\ call'[k].items = call[k].items
      BY <3>2 DEF Call
    <3>. QED  BY <1>2, <3>1, <3>3, <3>4
  <2>2. CASE Replicate(k, r)
    BY <1>1, <1>2, <2>2 DEF Replicate, TypeOK, Call
  <2>. QED  BY <2>1, <2>2
<1>5. CallInv(k)'
  BY <1>2, <1>3, <1>4
  DEF CallInv, AskInv, Asked, ScopeInv, AskedFor, CleanInv, CreatedInv, FreshInv, ReportedInv,
      CopyInv, Looping
<1>. QED  BY <1>3, <1>5 DEF Apart

(* The next destination. *)
LEMMA DeviceInv ==
    ASSUME IInv, NEW k \in Calls, NEW d \in Devices, NextDevice(k, d) \/ Unreachable(k, d)
    PROVE  CallInv(k)' /\ Apart(k)
<1>1. TypeOK /\ CallInv(k) /\ call[k].pc = "device" /\ d \in call[k].todo
  BY DEF IInv, NextDevice, Unreachable
<1>2. /\ report'[k].entries = report[k].entries /\ UNCHANGED <<config, deleted, hist>>
      /\ \A j \in Calls \ {k} : report'[j] = report[j] /\ call'[j] = call[j]
  BY <1>1 DEF NextDevice, Unreachable, TypeOK, Report
<1>3. /\ call'[k].req = call[k].req /\ call'[k].todo = call[k].todo \ {d}
      /\ call'[k].created = call[k].created /\ call'[k].failed = call[k].failed
      /\ call'[k].items = call[k].items
      /\ \/ call'[k].pc = "device"
         \/ /\ call'[k].pc = "source" /\ call'[k].dest = d
            /\ call'[k].types = call[k].req.types
  <2>1. CASE NextDevice(k, d)
    BY <1>1, <2>1 DEF NextDevice, TypeOK, Call
  <2>2. CASE Unreachable(k, d)
    BY <1>1, <2>2 DEF Unreachable, TypeOK, Call
  <2>. QED  BY <2>1, <2>2
<1>4. call[k].todo \subseteq Others(call[k].req)
  BY <1>1 DEF CallInv, AskInv
<1>5. AskInv(k)' /\ Asked(k)' /\ ScopeInv(k)' /\ CleanInv(k)' /\ CreatedInv(k)'
  BY <1>1, <1>2, <1>3, <1>4
  DEF CallInv, AskInv, Asked, ScopeInv, AskedFor, CleanInv, CreatedInv, Looping, Others
<1>6. FreshInv(k)' /\ ReportedInv(k)'
  BY <1>1, <1>2, <1>3 DEF CallInv, FreshInv, ReportedInv, Looping
<1>7. CopyInv(k)'
  BY <1>1, <1>2, <1>3 DEF CallInv, CopyInv, Held
<1>. QED  BY <1>2, <1>5, <1>6, <1>7 DEF CallInv, Apart

(* The call ends, or fails; what it wrote stands. *)
LEMMA EndInv ==
    ASSUME IInv, NEW k \in Calls, NEW pc \in {"returned", "error", "aborted"},
           call[k].pc # "new", pc = "returned" => call[k].pc = "device",
           call' = [call EXCEPT ![k].pc = pc], UNCHANGED <<config, deleted, report>>,
           \A j \in Calls : hist'[j].wrote = hist[j].wrote
    PROVE  CallInv(k)' /\ Apart(k)
<1>1. TypeOK /\ CallInv(k)
  BY DEF IInv
<1>2. /\ call'[k] = [call[k] EXCEPT !.pc = pc] /\ call'[k].pc = pc
      /\ call'[k].req = call[k].req /\ call'[k].todo = call[k].todo
      /\ call'[k].dest = call[k].dest /\ call'[k].created = call[k].created
      /\ \A j \in Calls \ {k} : call'[j] = call[j]
  BY <1>1 DEF TypeOK, Call
<1>3. /\ AskInv(k)' /\ Asked(k)' /\ ScopeInv(k)' /\ CleanInv(k)'
      /\ CreatedInv(k)' /\ FreshInv(k)'
  BY <1>1, <1>2
  DEF CallInv, AskInv, Asked, ScopeInv, AskedFor, CleanInv, CreatedInv, FreshInv, Looping
<1>4. ReportedInv(k)' /\ CopyInv(k)'
  BY <1>1, <1>2 DEF CallInv, ReportedInv, CopyInv, Held
<1>. QED  BY <1>2, <1>3, <1>4 DEF CallInv, Apart

(* A type that cannot be listed. *)
LEMMA ListFailsInv ==
    ASSUME IInv, NEW k \in Calls, ListFails(k)
    PROVE  CallInv(k)' /\ Apart(k)
<1>1. /\ TypeOK /\ CallInv(k) /\ call[k].pc = "source" /\ call[k].items = {}
      /\ UNCHANGED <<config, deleted, hist>>
  BY DEF IInv, ListFails, CallInv, CleanInv
<1>2. CASE call[k].req.kind = "sync"
  BY <1>1, <1>2, EndInv DEF ListFails
<1>3. CASE call[k].req.kind # "sync"
  <2> DEFINE e == [Blank(k) EXCEPT !.error = TRUE]
  <2>1. /\ e \in Entry /\ e.dest = call[k].dest /\ e.type = Head(call[k].types)
        /\ e.items = {} /\ e.created = call[k].created /\ e.failed = call[k].failed
    BY <1>1, BlankType DEF Entry, Blank
  <2>2. Advance(k) /\ Publish(k, e)
    BY <1>3 DEF ListFails
  <2>3. Stable
    BY <1>1, HeldStable
  <2> HIDE DEF e
  <2>. QED  BY <1>1, <2>1, <2>2, <2>3, PublishInv DEF Looping, Apart
<1>. QED  BY <1>2, <1>3

(* The source is listed. *)
LEMMA ListSourceInv ==
    ASSUME IInv, NEW k \in Calls, ListSource(k)
    PROVE  CallInv(k)' /\ Apart(k)
<1>1. TypeOK /\ CallInv(k) /\ call[k].pc = "source" /\ UNCHANGED <<config, report, deleted>>
  BY DEF IInv, ListSource
<1>2. PICK listing \in Listings(k, call[k].req.source) :
         /\ Listed(k, call[k].req.source, listing)
         /\ call' = [call EXCEPT ![k] = [@ EXCEPT !.pc = "dest", !.items = listing]]
  BY DEF ListSource
<1>3. \A j \in Calls : hist'[j].wrote = hist[j].wrote
  BY <1>1, <1>2 DEF Listed, TypeOK, History
<1>4. /\ call'[k].pc = "dest" /\ call'[k].items = listing
      /\ call'[k].req = call[k].req /\ call'[k].todo = call[k].todo
      /\ call'[k].dest = call[k].dest /\ call'[k].types = call[k].types
      /\ call'[k].created = call[k].created /\ call'[k].failed = call[k].failed
      /\ \A j \in Calls \ {k} : call'[j] = call[j]
  BY <1>1, <1>2 DEF TypeOK, Call
<1>5. \A o \in listing : Type[o] = Head(call[k].types)
  BY DEF Listings, OfType
<1>6. /\ AskInv(k)' /\ Asked(k)' /\ ScopeInv(k)' /\ CleanInv(k)'
      /\ CreatedInv(k)' /\ FreshInv(k)'
  BY <1>1, <1>3, <1>4, <1>5
  DEF CallInv, AskInv, Asked, ScopeInv, AskedFor, CleanInv, CreatedInv, FreshInv, Looping
<1>7. ReportedInv(k)' /\ CopyInv(k)'
  BY <1>1, <1>3, <1>4 DEF CallInv, ReportedInv, CopyInv, Held
<1>. QED  BY <1>1, <1>3, <1>4, <1>6, <1>7 DEF CallInv, Apart

(* The destination is listed. *)
LEMMA ListDestInv ==
    ASSUME IInv, NEW k \in Calls, ListDest(k)
    PROVE  CallInv(k)' /\ Apart(k)
<1> DEFINE c == call[k]
           r == call[k].req
<1>1. /\ TypeOK /\ CallInv(k) /\ c.pc = "dest" /\ UNCHANGED <<config, deleted>>
      /\ c.dest \in Devices /\ c.items \subseteq Objects /\ c \in Call
  BY Working DEF IInv, ListDest, TypeOK, Call
<1>2. PICK listing \in Listings(k, c.dest) :
         /\ Listed(k, c.dest, listing)
         /\ \/ /\ ~r.confirm
               /\ Advance(k)
               /\ Publish(k, [Blank(k) EXCEPT !.plan = Missing(c.items, listing)])
            \/ /\ r.confirm
               /\ call' = [call EXCEPT ![k] =
                     IF r.kind = "sync" /\ ~Permits(r.mode, "create")
                     THEN [@ EXCEPT !.pc = "error"]
                     ELSE [@ EXCEPT !.pc = "create", !.missing = Missing(c.items, listing)]]
               /\ UNCHANGED report
  BY DEF ListDest
<1> DEFINE missing == Missing(c.items, listing)
<1>3. \A j \in Calls : hist'[j].wrote = hist[j].wrote
  BY <1>1, <1>2 DEF Listed, TypeOK, History
<1>4. \A o \in c.items : o \in missing \/ Held(c.dest, o)
  <2>1. SUFFICES ASSUME NEW o \in c.items, o \notin missing PROVE Held(c.dest, o)
    OBVIOUS
  <2>2. PICK p \in listing : Name[p] = Name[o]
    BY <2>1 DEF Missing, Named
  <2>3. p \in config[c.dest] /\ Type[p] = Head(c.types) /\ p \in Objects
    BY <1>1, <2>2 DEF Listings, OfType, TypeOK
  <2>4. Type[o] = Head(c.types)
    BY <1>1 DEF CallInv, CleanInv
  <2>. QED  BY <2>2, <2>3, <2>4 DEF Held
<1>5. missing \subseteq Objects
  BY <1>1 DEF Missing
<1>6. CASE ~r.confirm
  <2> DEFINE e == [Blank(k) EXCEPT !.plan = missing]
  <2>1. /\ e \in Entry /\ e.dest = c.dest /\ e.type = Head(c.types)
        /\ e.created = c.created /\ e.failed = c.failed
    BY <1>1, <1>5, BlankType DEF Entry, Blank
  <2>2. Advance(k) /\ Publish(k, e)
    BY <1>2, <1>6
  <2>3. Stable
    BY <1>1, HeldStable
  <2> HIDE DEF e
  <2>. QED  BY <1>1, <1>3, <1>6, <2>1, <2>2, <2>3, PublishInv DEF Looping, Apart
<1>7. CASE r.confirm /\ r.kind = "sync" /\ ~Permits(r.mode, "create")
  <2>1. call' = [call EXCEPT ![k].pc = "error"] /\ report' = report
    BY <1>2, <1>7
  <2>. QED  BY <1>1, <1>3, <2>1, EndInv
<1>8. CASE r.confirm /\ ~(r.kind = "sync" /\ ~Permits(r.mode, "create"))
  <2>0. call' = [call EXCEPT ![k] = [c EXCEPT !.pc = "create", !.missing = missing]] /\ report' = report
    BY <1>2, <1>8
  <2>1. /\ call'[k].pc = "create" /\ call'[k].missing = missing /\ call'[k].items = c.items
        /\ call'[k].req = r /\ call'[k].todo = c.todo
        /\ call'[k].dest = c.dest /\ call'[k].types = c.types
        /\ call'[k].created = c.created /\ call'[k].failed = c.failed
        /\ \A j \in Calls \ {k} : call'[j] = call[j]
    BY <1>1, <2>0 DEF TypeOK, Call
  <2>2. r.kind = "sync" \/ r.kind = "replicate"
    BY <1>1, Working, FleetAssumption DEF Request
  <2> HIDE DEF missing
  <2>3. /\ AskInv(k)' /\ Asked(k)' /\ CleanInv(k)'
        /\ CreatedInv(k)' /\ FreshInv(k)'
    BY <1>1, <1>3, <1>8, <2>0, <2>1, <2>2
    DEF CallInv, AskInv, Asked, CleanInv, CreatedInv, FreshInv, Looping
  <2>4. ReportedInv(k)' /\ CopyInv(k)'
    BY <1>1, <1>3, <1>4, <2>0, <2>1 DEF CallInv, ReportedInv, CopyInv, Held
  <2>5. ScopeInv(k)'
    <3>1. \A o \in missing : Type[o] = Head(c.types)
      BY <1>1 DEF missing, Missing, CallInv, CleanInv
    <3>. QED  BY <1>1, <1>3, <2>1, <3>1 DEF CallInv, ScopeInv, AskedFor, Looping
  <2>. QED  BY <1>3, <2>0, <2>1, <2>3, <2>4, <2>5 DEF CallInv, Apart
<1>. QED  BY <1>6, <1>7, <1>8

(* An object is tried: created or not, its answer heard or not. *)
LEMMA TriedInv ==
    ASSUME IInv, NEW k \in Calls, NEW o \in Objects,
           Created(k, o) \/ CreatedUnheard(k, o) \/ CreateFails(k, o) \/ AbortCreated(k, o)
    PROVE  CallInv(k)' /\ Apart(k) /\ Stable
<1> DEFINE c == call[k]
           d == call[k].dest
           w == <<d, o>>
<1>1. /\ TypeOK /\ CallInv(k) /\ c.pc = "create" /\ o \in c.missing /\ report' = report
      /\ c \in Call /\ d \in Devices
  BY Working DEF IInv, Created, CreatedUnheard, CreateFails, AbortCreated, Tried, DeviceCreates, TypeOK
<1>2. Stable
  BY <1>1, HeldStable
  DEF Created, CreatedUnheard, CreateFails, AbortCreated, DeviceCreates
<1>3. \A j \in Calls \ {k} : hist'[j].wrote = hist[j].wrote
  <2>1. CASE DeviceCreates(k, o)
    <3>1. \A j \in Calls \ {k} : Meddled(k)[j].wrote = hist[j].wrote
      BY <1>1 DEF Meddled, TypeOK, History
    <3>2. \A j \in Calls \ {k} : hist'[j] = Meddled(k)[j]
      BY <2>1 DEF DeviceCreates, Meddled
    <3>. QED  BY <3>1, <3>2
  <2>2. CASE CreateFails(k, o)
    BY <2>2 DEF CreateFails
  <2>. QED  BY <2>1, <2>2 DEF Created, CreatedUnheard, AbortCreated
<1>4. /\ DeviceCreates(k, o) => hist'[k].wrote = hist[k].wrote \cup {w}
      /\ CreateFails(k, o) => hist'[k].wrote = hist[k].wrote
  BY <1>1 DEF CreateFails, DeviceCreates, Meddled, TypeOK, History
<1>5. /\ call'[k].req = c.req /\ call'[k].todo = c.todo /\ call'[k].dest = d
      /\ call'[k].types = c.types /\ call'[k].items = c.items
      /\ \A j \in Calls \ {k} : call'[j] = call[j]
      /\ \/ /\ AbortCreated(k, o) /\ call'[k].pc = "aborted" /\ call'[k].created = c.created
         \/ /\ Created(k, o) /\ call'[k].pc = "create" /\ call'[k].missing = c.missing \ {o}
            /\ call'[k].created = c.created \cup {o} /\ call'[k].failed = c.failed
         \/ /\ CreatedUnheard(k, o) \/ CreateFails(k, o)
            /\ call'[k].pc = "create" /\ call'[k].missing = c.missing \ {o}
            /\ call'[k].created = c.created /\ call'[k].failed = c.failed \cup {o}
  <2>0. call \in [Calls -> Call]
    BY <1>1 DEF TypeOK
  <2>1. CASE AbortCreated(k, o)
    BY <1>1, <2>0, <2>1 DEF AbortCreated, Call
  <2>2. CASE Created(k, o)
    BY <1>1, <2>0, <2>2 DEF Created, Call
  <2>3. CASE CreatedUnheard(k, o) \/ CreateFails(k, o)
    <3>1. call' = [call EXCEPT ![k].missing = @ \ {o}, ![k].failed = @ \cup {o}]
      BY <2>3 DEF CreatedUnheard, CreateFails
    <3>. QED  BY <1>1, <2>0, <2>3, <3>1 DEF Call
  <2>. QED  BY <2>1, <2>2, <2>3
<1>6. /\ hist'[k].wrote \subseteq hist[k].wrote \cup {w} /\ hist[k].wrote \subseteq hist'[k].wrote
      /\ Created(k, o) \/ CreatedUnheard(k, o) => w \in hist'[k].wrote
      /\ CreateFails(k, o) => hist'[k].wrote = hist[k].wrote
  BY <1>4, <1>5 DEF Created, CreatedUnheard, AbortCreated
<1>7. AskInv(k)' /\ Asked(k)' /\ ScopeInv(k)'
  <2>1. AskInv(k)' /\ Asked(k)'
    BY <1>1, <1>5, <1>6 DEF CallInv, AskInv, Asked, Looping, Permits
  <2>2. AskedFor(k, Type[o])
    <3>1. c.types \in Seq(Types) /\ c.types # <<>>
      BY <1>1, Working
    <3>. QED  BY <1>1, <3>1, TailRepeats DEF CallInv, ScopeInv, Looping
  <2>. QED  BY <1>1, <1>5, <1>6, <2>1, <2>2 DEF CallInv, ScopeInv, AskedFor, Looping
<1>8. CleanInv(k)' /\ FreshInv(k)'
  BY <1>1, <1>5 DEF CallInv, CleanInv, FreshInv, Looping
<1>9. CreatedInv(k)'
  BY <1>1, <1>5, <1>6 DEF CallInv, CreatedInv
<1>10. ReportedInv(k)'
  BY <1>1, <1>5, <1>6 DEF CallInv, ReportedInv
<1>11. CopyInv(k)'
  <2>1. c.items \subseteq Objects
    BY <1>1 DEF Call
  <2>2. \A e \in report[k].entries : e.dest \in Devices /\ e.items \subseteq Objects
    BY <1>1 DEF TypeOK, Report, Entry
  <2>3. /\ c.req.confirm =>
             \A e \in report[k].entries : \A p \in e.items : p \in e.failed \/ Held(e.dest, p)'
        /\ \A p \in c.items : p \in c.missing \cup c.failed \/ Held(d, p)'
    BY <1>1, <1>2, <1>5, <2>1, <2>2 DEF CallInv, CopyInv, Stable
  <2>4. Created(k, o) => Held(d, o)'
    <3>1. Created(k, o) => o \in config'[d]
      BY <1>1 DEF Created, DeviceCreates, TypeOK
    <3>. QED  BY <1>5, <3>1 DEF Held
  <2>. QED  BY <1>1, <1>5, <2>3, <2>4 DEF CopyInv
<1>. QED  BY <1>1, <1>2, <1>3, <1>5, <1>7, <1>8, <1>9, <1>10, <1>11 DEF CallInv, Apart

(* All objects of a type have been tried. *)
LEMMA TypeDoneInv ==
    ASSUME IInv, NEW k \in Calls, TypeDone(k)
    PROVE  CallInv(k)' /\ Apart(k)
<1>1. /\ TypeOK /\ CallInv(k) /\ call[k].pc = "create" /\ call[k].missing = {}
      /\ UNCHANGED <<config, deleted, hist>> /\ Advance(k) /\ Publish(k, Blank(k))
  BY DEF IInv, TypeDone
<1>2. /\ Blank(k) \in Entry /\ Blank(k).dest = call[k].dest
      /\ Blank(k).type = Head(call[k].types) /\ Blank(k).items = call[k].items
      /\ Blank(k).created = call[k].created /\ Blank(k).failed = call[k].failed
  BY <1>1, BlankType DEF Blank
<1>3. \A o \in Blank(k).items : o \in Blank(k).failed \/ Held(Blank(k).dest, o)
  BY <1>1, <1>2 DEF CallInv, CopyInv
<1>4. Stable
  BY <1>1, HeldStable
<1>. QED  BY <1>1, <1>2, <1>3, <1>4, PublishInv DEF Looping, Apart

(* What the model starts from satisfies the invariant. *)
LEMMA InvInit == Init => IInv
<1> SUFFICES ASSUME Init PROVE IInv
  OBVIOUS
<1>1. \A k \in Calls : CallInv(k)
  BY DEF Init, NewCall, CallInv, AskInv, Asked, ScopeInv, CleanInv, CreatedInv, FreshInv, ReportedInv,
         CopyInv, Looping
<1>. QED  BY <1>1, TypeInit DEF IInv

(* Every step keeps the inductive invariant. *)
LEMMA InvStep == IInv /\ [Next]_vars => IInv'
<1> SUFFICES ASSUME IInv, [Next]_vars PROVE IInv'
  OBVIOUS
<1>1. TypeOK /\ TypeOK'
  BY TypeStep DEF IInv
<1> SUFFICES \A k \in Calls : CallInv(k)'
  BY <1>1 DEF IInv
<1>2. UNCHANGED <<config, deleted>> => Stable
  BY <1>1, HeldStable
<1>3. ASSUME NEW k \in Calls, NEW r \in Requests, Sync(k, r) \/ Replicate(k, r)
      PROVE  \A j \in Calls : CallInv(j)'
  BY <1>2, <1>3, BeginInv, OneMoves DEF Sync, Replicate, Begin
<1>4. ASSUME NEW k \in Calls, NEW d \in Devices, NextDevice(k, d) \/ Unreachable(k, d)
      PROVE  \A j \in Calls : CallInv(j)'
  BY <1>2, <1>4, DeviceInv, OneMoves DEF NextDevice, Unreachable
<1>5. ASSUME NEW k \in Calls, ListFails(k) PROVE \A j \in Calls : CallInv(j)'
  BY <1>2, <1>5, ListFailsInv, OneMoves DEF ListFails
<1>6. ASSUME NEW k \in Calls, ListSource(k) PROVE \A j \in Calls : CallInv(j)'
  BY <1>2, <1>6, ListSourceInv, OneMoves DEF ListSource
<1>7. ASSUME NEW k \in Calls, ListDest(k) PROVE \A j \in Calls : CallInv(j)'
  BY <1>2, <1>7, ListDestInv, OneMoves DEF ListDest
<1>8. ASSUME NEW k \in Calls, TypeDone(k) PROVE \A j \in Calls : CallInv(j)'
  BY <1>2, <1>8, TypeDoneInv, OneMoves DEF TypeDone
<1>9. ASSUME NEW k \in Calls, DevicesDone(k) PROVE \A j \in Calls : CallInv(j)'
  <2>1. CallInv(k)' /\ Apart(k)
    BY <1>9, EndInv DEF DevicesDone
  <2>. QED  BY <1>2, <1>9, <2>1, OneMoves DEF DevicesDone
<1>10. ASSUME NEW k \in Calls, Abort(k) PROVE \A j \in Calls : CallInv(j)'
  <2>1. CallInv(k)' /\ Apart(k)
    BY <1>10, EndInv DEF Abort
  <2>. QED  BY <1>2, <1>10, <2>1, OneMoves DEF Abort
<1>11. ASSUME NEW k \in Calls, NEW o \in Objects,
              Created(k, o) \/ CreatedUnheard(k, o) \/ CreateFails(k, o) \/ AbortCreated(k, o)
       PROVE  \A j \in Calls : CallInv(j)'
  BY <1>11, TriedInv, OneMoves
<1>12. ASSUME NEW d \in Devices, NEW o \in Objects, Edit(d, o)
       PROVE  \A j \in Calls : CallInv(j)'
  <2>1. Stable
    BY <1>1, <1>12, HeldStable DEF Edit
  <2>2. \A j \in Calls : hist'[j].wrote = hist[j].wrote
    BY <1>1, <1>12 DEF Edit, Meddled, TypeOK, History
  <2>. QED  BY <1>1, <1>12, <2>1, <2>2, Frame DEF Edit, IInv
<1>13. CASE UNCHANGED vars
  BY <1>1, <1>2, <1>13, Frame DEF vars, IInv
<1>. QED  BY <1>3, <1>4, <1>5, <1>6, <1>7, <1>8, <1>9, <1>10, <1>11, <1>12, <1>13 DEF Next

(* The inductive invariant holds of every reachable state. *)
THEOREM Invariance == Spec => []IInv
BY InvInit, InvStep, PTL DEF Spec

(* Only a confirmed call of a process that is not in READ_ONLY mode writes, *)
(* only to its destinations and only what is of a type it was asked for,    *)
(* and replicate_config never to its source.                                *)
THEOREM OnlyAsAsked == Spec => []WritesOnlyAsAsked
<1>1. IInv => WritesOnlyAsAsked
  BY DEF IInv, CallInv, Asked, ScopeInv, AskedFor, WritesOnlyAsAsked
<1>. QED  BY <1>1, Invariance, PTL

(* A returned report tells what was created, all of it unless a type was    *)
(* asked for twice.                                                         *)
THEOREM ReportMatches == Spec => []ReportMatchesDevices
<1>1. IInv => ReportMatchesDevices
  BY DEF IInv, CallInv, CreatedInv, ReportedInv, ReportMatchesDevices, Returned
<1>. QED  BY <1>1, Invariance, PTL

(* After a confirmed call the destinations have what the source was seen to *)
(* have, by name, but for failures it reports and deletions by others.      *)
THEOREM Complete == Spec => []CopyComplete
<1>1. IInv => CopyComplete
  BY DEF IInv, CallInv, CopyInv, Held, CopyComplete, Returned
<1>. QED  BY <1>1, Invariance, PTL

-----------------------------------------------------------------------------
(* What a plan and its confirmation have to do with each other.            *)

(* The objects of type t that s has and d has nothing by that name for.    *)
Lacks(s, d, t) == Missing(OfType(config[s], t), OfType(config[d], t))

Members(types) == {types[i] : i \in DOMAIN types}

(* The call has still to compare this type on this device.                 *)
ToCome(k, d, t) ==
    LET c == call[k] IN
    \/ c.pc \in Looping \cup {"device"} /\ d \in c.todo
    \/ c.pc \in {"source", "dest"} /\ d = c.dest /\ t \in Members(c.types)
    \/ c.pc = "create" /\ d = c.dest /\ t \in Members(Tail(c.types))

(* Types that cannot be listed, and only those, are reported as errors; an *)
(* error says nothing else.                                                *)
Noted(e) == (e.error <=> ~Listable(e.type)) /\ (e.error => e.plan = {})

ErrorInv(k) ==
    LET c == call[k] IN
    /\ \A e \in report[k].entries : Noted(e) /\ (e.error => e.created = {} /\ e.failed = {})
    /\ c.pc \in {"dest", "create"} => Listable(Head(c.types))
    /\ c.pc = "create" => \A o \in c.missing : Type[o] = Head(c.types)

(* Who meddles has begun; the plans shown are of the same request.         *)
PlansInv(k) ==
    /\ \A j \in Calls : j \in hist[k].meddled => call[j].pc # "new"
    /\ call[k].pc = "new" => hist[k].plans = {}
    /\ \A j \in hist[k].plans :
          /\ call[j].pc = "returned" /\ ~call[j].req.confirm /\ call[k].req.confirm
          /\ call[k].req.source = call[j].req.source

(* As long as nobody meddles with it, a plan describes the configurations. *)
PlanInv(k) ==
    LET c == call[k] IN
    c.pc # "new" /\ hist[k].meddled = {} =>
        /\ c.pc = "dest" => c.items = OfType(config[c.req.source], Head(c.types))
        /\ ~c.req.confirm =>
              \A f \in report[k].entries :
                  f.error \/ f.plan = Lacks(c.req.source, f.dest, f.type)

(* What a call has done agrees with the plan's entry f, and what it has    *)
(* still to do will.                                                       *)
Agrees(k, f) ==
    LET c == call[k] IN
    /\ ToCome(k, f.dest, f.type) => f.error \/ f.plan = Lacks(c.req.source, f.dest, f.type)
    /\ c.pc = "create" /\ f.dest = c.dest /\ f.type = Head(c.types) =>
          f.plan = c.missing \cup c.created \cup c.failed
    /\ \A e \in report[k].entries :
          e.dest = f.dest /\ e.type = f.type => f.plan = e.created \cup e.failed

(* That is so as long as nobody but the call itself has meddled.           *)
AgreeInv(k) ==
    LET c == call[k] IN
    c.pc # "new" /\ ~Repeats(c.req.types) /\ hist[k].meddled = {} =>
        \A j \in hist[k].plans : hist[j].meddled \subseteq {k} =>
            \A f \in report[j].entries : Agrees(k, f)

KeepInv(k) == ErrorInv(k) /\ PlansInv(k) /\ PlanInv(k) /\ AgreeInv(k)

(* The current type is among the types, and not among the later ones if    *)
(* none is repeated.                                                       *)
LEMMA MembersTail ==
    ASSUME NEW s \in Seq(Types), s # <<>>
    PROVE  /\ Head(s) \in Members(s) /\ Members(Tail(s)) \subseteq Members(s)
           /\ ~Repeats(s) => Head(s) \notin Members(Tail(s))
BY TailRepeats DEF Members

(* Call k takes a step; if a configuration changes, that goes on record.   *)
Moves(k) ==
    /\ call[k].pc # "returned" /\ call'[k].pc # "new"
    /\ hist[k].meddled \subseteq hist'[k].meddled
    /\ hist'[k].meddled \subseteq hist[k].meddled \cup {None}
    /\ \A j \in Calls \ {k} :
          /\ call'[j] = call[j] /\ report'[j] = report[j]
          /\ hist'[j].plans = hist[j].plans
          /\ \/ hist'[j].meddled = hist[j].meddled /\ (config' = config \/ call[j].pc = "new")
             \/ hist'[j].meddled = hist[j].meddled \cup {k}

(* What stays as it is, and what is meddled with, keep their invariants.   *)
LEMMA KeepFrame ==
    ASSUME IInv, NEW j \in Calls, KeepInv(j),
           call'[j] = call[j], report'[j] = report[j], hist'[j].plans = hist[j].plans,
           hist[j].meddled \subseteq hist'[j].meddled,
           \A i \in hist[j].plans : call'[i] = call[i] /\ report'[i] = report[i]
                                    /\ hist[i].meddled \subseteq hist'[i].meddled,
           \A i \in Calls : i \in hist'[j].meddled => call'[i].pc # "new",
           config' = config \/ hist'[j].meddled # {} \/ call[j].pc = "new"
    PROVE  KeepInv(j)'
<1>1. ErrorInv(j)'
  BY DEF KeepInv, ErrorInv
<1>2. PlansInv(j)'
  BY DEF KeepInv, PlansInv
<1>3. PlanInv(j)'
  BY DEF KeepInv, PlanInv, Lacks
<1>4. AgreeInv(j)'
  <2>1. SUFFICES ASSUME call[j].pc # "new", ~Repeats(call[j].req.types), hist'[j].meddled = {},
                        NEW i \in hist[j].plans, hist'[i].meddled \subseteq {j},
                        NEW f \in report[i].entries
                 PROVE  Agrees(j, f)'
    BY DEF AgreeInv
  <2>2. Agrees(j, f)
    BY <2>1 DEF KeepInv, AgreeInv
  <2> QED BY <2>1, <2>2 DEF Agrees, ToCome, Lacks
<1> QED BY <1>1, <1>2, <1>3, <1>4 DEF KeepInv

(* A step of one call leaves the other calls' invariants standing.         *)
LEMMA OthersKeep ==
    ASSUME IInv, \A j \in Calls : KeepInv(j), NEW k \in Calls, Moves(k)
    PROVE  \A j \in Calls \ {k} : KeepInv(j)'
<1> SUFFICES ASSUME NEW j \in Calls \ {k} PROVE KeepInv(j)'
  OBVIOUS
<1>1. hist[j].plans \subseteq Calls
  BY DEF IInv, TypeOK, History
<1>2. \A i \in hist[j].plans : call[i].pc = "returned"
  BY DEF KeepInv, PlansInv
<1>3. \A i \in hist[j].plans : i \in Calls \ {k}
  BY <1>1, <1>2 DEF Moves
<1>4. \A i \in Calls : i \in hist'[j].meddled => call'[i].pc # "new"
  BY DEF KeepInv, PlansInv, Moves
<1>5. config' = config \/ hist'[j].meddled # {} \/ call[j].pc = "new"
  BY DEF Moves
<1> QED BY <1>3, <1>4, <1>5, KeepFrame DEF Moves

(* What the mover's own plans are, and how its agreement carries over.     *)
LEMMA MoverKeeps ==
    ASSUME IInv, \A j \in Calls : KeepInv(j), NEW k \in Calls, Moves(k), call[k].pc # "new",
           call'[k].req = call[k].req, hist'[k].plans = hist[k].plans,
           hist'[k].meddled = {} /\ ~Repeats(call[k].req.types) /\ call[k].req.confirm =>
               \A f \in Entry : Noted(f) /\ Agrees(k, f) => Agrees(k, f)'
    PROVE  PlansInv(k)' /\ AgreeInv(k)'
<1>1. hist[k].plans \subseteq Calls
  BY DEF IInv, TypeOK, History
<1>2. \A i \in hist[k].plans : call[i].pc = "returned" /\ call[k].req.confirm
  BY DEF KeepInv, PlansInv
<1>3. \A i \in hist[k].plans : i \in Calls \ {k}
  BY <1>1, <1>2 DEF Moves
<1>4. PlansInv(k)'
  <2>1. None \notin Calls
    BY FleetAssumption
  <2>2. \A j \in Calls : j \in hist'[k].meddled => call'[j].pc # "new"
    BY <2>1 DEF KeepInv, PlansInv, Moves
  <2> QED BY <1>3, <2>2 DEF KeepInv, PlansInv, Moves
<1>5. AgreeInv(k)'
  <2>1. SUFFICES ASSUME ~Repeats(call[k].req.types), hist'[k].meddled = {},
                        NEW i \in hist[k].plans, hist'[i].meddled \subseteq {k},
                        NEW f \in report'[i].entries
                 PROVE  Agrees(k, f)'
    BY DEF AgreeInv
  <2>2. i \in Calls \ {k} /\ f \in report[i].entries /\ hist[i].meddled \subseteq {k}
    BY <1>3, <2>1 DEF Moves
  <2>3. hist[k].meddled = {}
    BY <2>1 DEF Moves
  <2>4. Agrees(k, f)
    BY <2>1, <2>2, <2>3 DEF KeepInv, AgreeInv
  <2>5. Noted(f)
    BY <2>2 DEF KeepInv, ErrorInv
  <2>6. f \in Entry
    BY <2>2 DEF IInv, TypeOK, Report
  <2> QED BY <1>2, <2>1, <2>4, <2>5, <2>6
<1> QED BY <1>4, <1>5

(* A step that changes no configuration and starts nothing over.           *)
LEMMA CalmAgrees ==
    ASSUME NEW k, config' = config, call'[k].req = call[k].req,
           \A d, t : ToCome(k, d, t)' => ToCome(k, d, t),
           call'[k].pc # "create", report'[k].entries = report[k].entries,
           NEW f, Agrees(k, f)
    PROVE  Agrees(k, f)'
BY DEF Agrees, Lacks

(* Publishing the entry e that agrees with the plan.                       *)
LEMMA PublishKeeps ==
    ASSUME IInv, \A j \in Calls : KeepInv(j), NEW k \in Calls, Moves(k),
           call[k].pc \in Looping, config' = config, hist'[k].plans = hist[k].plans,
           NEW e \in Entry, Advance(k), Publish(k, e),
           e.dest = call[k].dest, e.type = Head(call[k].types),
           Noted(e), e.error => e.created = {} /\ e.failed = {},
           hist'[k].meddled = {} /\ ~call[k].req.confirm =>
               e.error \/ e.plan = Lacks(call[k].req.source, e.dest, e.type),
           call[k].req.confirm =>
               \A f \in Entry : Noted(f) /\ Agrees(k, f) /\ f.dest = e.dest /\ f.type = e.type =>
                   f.plan = e.created \cup e.failed
    PROVE  KeepInv(k)'
<1> DEFINE c == call[k]
           c1 == call'[k]
<1>1. /\ c1.req = c.req /\ c1.todo = c.todo /\ c1.dest = c.dest /\ c1.types = Tail(c.types)
      /\ c1.pc \in {"source", "returned", "device"}
  BY DEF Advance, Onward, IInv, TypeOK, Call
<1>2. report'[k].entries = Put(report[k].entries, e)
  BY DEF Publish, IInv, TypeOK, Report
<1>3. \A f \in report'[k].entries : f = e \/ f \in report[k].entries
  BY <1>2 DEF Put
<1>4. c.types \in Seq(Types) /\ c.types # <<>>
  BY Working DEF Looping, IInv
<1>5. \A d, t : ToCome(k, d, t)' => ToCome(k, d, t)
  BY <1>1, <1>4, MembersTail DEF ToCome, Looping
<1>6. ErrorInv(k)'
  BY <1>1, <1>3 DEF KeepInv, ErrorInv
<1>7. PlanInv(k)'
  BY <1>1, <1>3 DEF KeepInv, PlanInv, Lacks, Moves, Looping
<1>8. ASSUME c.req.confirm, NEW f \in Entry, Noted(f), Agrees(k, f) PROVE Agrees(k, f)'
  <2>1. ToCome(k, f.dest, f.type)' => f.error \/ f.plan = Lacks(c.req.source, f.dest, f.type)
    BY <1>5, <1>8 DEF Agrees
  <2>2. \A g \in report'[k].entries :
           g.dest = f.dest /\ g.type = f.type => f.plan = g.created \cup g.failed
    BY <1>3, <1>8 DEF Agrees
  <2> QED BY <1>1, <2>1, <2>2 DEF Agrees, Lacks
<1> QED BY <1>1, <1>6, <1>7, <1>8, MoverKeeps DEF KeepInv, Looping

(* A call that begins: its plans describe the configurations it finds.     *)
LEMMA BeginKeeps ==
    ASSUME IInv, \A j \in Calls : KeepInv(j), NEW k \in Calls, NEW r \in Requests,
           Sync(k, r) \/ Replicate(k, r)
    PROVE  Moves(k) /\ KeepInv(k)'
<1>1. /\ call[k].pc = "new" /\ report[k].entries = {} /\ UNCHANGED <<config, report>>
      /\ hist' = [hist EXCEPT ![k].plans = PlansFor(r)]
      /\ hist \in [Calls -> History] /\ call \in [Calls -> Call]
  BY DEF IInv, CallInv, AskInv, Sync, Replicate, Begin, TypeOK
<1>2. /\ hist'[k].plans = PlansFor(r) /\ hist'[k].meddled = hist[k].meddled
      /\ \A j \in Calls \ {k} : hist'[j] = hist[j]
  BY <1>1 DEF History
<1>3. /\ \A j \in Calls \ {k} : call'[j] = call[j]
      /\ call'[k].req = r /\ call'[k].pc \in {"source", "device"}
  BY <1>1 DEF Sync, Replicate, Call
<1>4. Moves(k)
  BY <1>1, <1>2, <1>3 DEF Moves
<1>5. ErrorInv(k)' /\ PlanInv(k)'
  BY <1>1, <1>3 DEF ErrorInv, PlanInv
<1>6. ASSUME NEW j \in PlansFor(r)
      PROVE  /\ j \in Calls \ {k} /\ call[j].pc = "returned" /\ ~call[j].req.confirm
             /\ r.confirm /\ r.source = call[j].req.source
  <2>1. j \in Calls /\ call[j].pc = "returned" /\ ~call[j].req.confirm
        /\ r = [call[j].req EXCEPT !.confirm = TRUE, !.mode = r.mode]
    BY DEF PlansFor
  <2>2. call[j].req \in Request
    BY <2>1, FleetAssumption DEF IInv, TypeOK, Sound, Call
  <2> QED BY <1>1, <2>1, <2>2 DEF Request
<1>7. PlansInv(k)'
  <2>1. \A j \in Calls : j \in hist'[k].meddled => call'[j].pc # "new"
    BY <1>2, <1>3 DEF KeepInv, PlansInv
  <2> QED BY <1>2, <1>3, <1>6, <2>1 DEF PlansInv
<1>8. AgreeInv(k)'
  <2>1. SUFFICES ASSUME NEW j \in PlansFor(r), hist'[j].meddled \subseteq {k},
                        NEW f \in report'[j].entries
                 PROVE  Agrees(k, f)'
    BY <1>2 DEF AgreeInv
  <2>2. hist[j].meddled = {}
    BY <1>1, <1>2, <1>6, <2>1 DEF KeepInv, PlansInv
  <2>3. f.error \/ f.plan = Lacks(r.source, f.dest, f.type)
    BY <1>1, <1>6, <2>2 DEF KeepInv, PlanInv
  <2> QED BY <1>1, <1>3, <2>3 DEF Agrees, Lacks
<1> QED BY <1>4, <1>5, <1>7, <1>8 DEF KeepInv

(* The loop goes on, or the call ends: nothing is done yet that the plan   *)
(* did not foresee.                                                        *)
LEMMA WalkKeeps ==
    ASSUME IInv, \A j \in Calls : KeepInv(j), NEW k \in Calls, Moves(k),
           call[k].pc # "new", call'[k].req = call[k].req, UNCHANGED <<config, hist>>,
           report'[k].entries = report[k].entries,
           call'[k].pc \notin {"dest", "create"},
           \A d, t : ToCome(k, d, t)' => ToCome(k, d, t)
    PROVE  KeepInv(k)'
<1>1. ErrorInv(k)' /\ PlanInv(k)'
  BY DEF KeepInv, ErrorInv, PlanInv, Lacks
<1>2. PlansInv(k)' /\ AgreeInv(k)'
  BY CalmAgrees, MoverKeeps
<1> QED BY <1>1, <1>2 DEF KeepInv

(* The loop goes on to the next destination, or reports it unreachable. *)
LEMMA DeviceKeeps ==
    ASSUME IInv, \A j \in Calls : KeepInv(j), NEW k \in Calls, NEW d \in Devices,
           NextDevice(k, d) \/ Unreachable(k, d)
    PROVE  Moves(k) /\ KeepInv(k)'
<1>1. call[k].pc = "device" /\ d \in call[k].todo /\ UNCHANGED <<config, hist>>
  BY DEF NextDevice, Unreachable
<1>2. /\ report'[k].entries = report[k].entries
      /\ \A j \in Calls \ {k} : report'[j] = report[j] /\ call'[j] = call[j]
  BY DEF IInv, NextDevice, Unreachable, TypeOK, Report
<1>3. /\ call'[k].req = call[k].req /\ call'[k].todo = call[k].todo \ {d}
      /\ call'[k].pc = "device" \/ (call'[k].pc = "source" /\ call'[k].dest = d)
  <2>1. CASE NextDevice(k, d)
    BY <2>1 DEF IInv, NextDevice, TypeOK, Call
  <2>2. CASE Unreachable(k, d)
    BY <1>1, <2>2 DEF IInv, Unreachable, TypeOK, Call
  <2> QED BY <2>1, <2>2
<1>4. Moves(k)
  BY <1>1, <1>2, <1>3 DEF Moves
<1>5. \A x, t : ToCome(k, x, t)' => ToCome(k, x, t)
  BY <1>1, <1>3 DEF ToCome, Looping
<1> QED BY <1>1, <1>2, <1>3, <1>4, <1>5, WalkKeeps

(* The call ends. *)
LEMMA EndKeeps ==
    ASSUME IInv, \A j \in Calls : KeepInv(j), NEW k \in Calls,
           NEW pc \in {"returned", "error", "aborted"}, call[k].pc \notin {"new", "returned"},
           call' = [call EXCEPT ![k].pc = pc], UNCHANGED <<config, report, hist>>
    PROVE  Moves(k) /\ KeepInv(k)'
<1>1. /\ call'[k].req = call[k].req /\ call'[k].pc = pc
      /\ \A j \in Calls \ {k} : call'[j] = call[j]
  BY DEF IInv, TypeOK, Call
<1>2. Moves(k)
  BY <1>1 DEF Moves
<1>3. \A d, t : ToCome(k, d, t)' => ToCome(k, d, t)
  BY <1>1 DEF ToCome, Looping
<1> QED BY <1>1, <1>2, <1>3, WalkKeeps

(* An entry of a call that has not created anything yet.                   *)
LEMMA PublishMoves ==
    ASSUME TypeOK, NEW k \in Calls, call[k].pc \in Looping, Advance(k), NEW e, Publish(k, e),
           config' = config, \A j \in Calls \ {k} : hist'[j] = hist[j],
           hist[k].meddled \subseteq hist'[k].meddled,
           hist'[k].meddled \subseteq hist[k].meddled \cup {None}
    PROVE  Moves(k)
<1>1. /\ call'[k].pc \in {"source", "returned", "device"}
      /\ \A j \in Calls \ {k} : call'[j] = call[j] /\ report'[j] = report[j]
  BY DEF Advance, Onward, TypeOK, Call, Publish, Report
<1> QED BY <1>1 DEF Moves, Looping

(* An error is in the plan and in the report of its confirmation alike. *)
LEMMA ListFailsKeeps ==
    ASSUME IInv, \A j \in Calls : KeepInv(j), NEW k \in Calls, ListFails(k)
    PROVE  Moves(k) /\ KeepInv(k)'
<1>1. /\ TypeOK /\ call[k].pc = "source" /\ ~Listable(Head(call[k].types))
      /\ UNCHANGED <<config, hist>>
      /\ call[k].created = {} /\ call[k].failed = {}
  BY DEF IInv, ListFails, CallInv, CleanInv
<1>2. CASE call[k].req.kind = "sync"
  BY <1>1, <1>2, EndKeeps DEF ListFails
<1>3. CASE call[k].req.kind # "sync"
  <2> DEFINE e == [Blank(k) EXCEPT !.error = TRUE]
  <2>1. /\ e \in Entry /\ e.dest = call[k].dest /\ e.type = Head(call[k].types)
        /\ e.error = TRUE /\ e.plan = {} /\ e.created = {} /\ e.failed = {}
    BY <1>1, BlankType DEF Entry, Blank
  <2>2. Advance(k) /\ Publish(k, e)
    BY <1>3 DEF ListFails
  <2> HIDE DEF e
  <2>3. Moves(k)
    BY <1>1, <2>2, PublishMoves DEF Looping
  <2>4. Noted(e)
    BY <1>1, <2>1 DEF Noted
  <2>5. \A f \in Entry : Noted(f) /\ f.type = e.type => f.plan = e.created \cup e.failed
    BY <1>1, <2>1 DEF Noted
  <2>6. KeepInv(k)'
    BY <1>1, <2>1, <2>2, <2>3, <2>4, <2>5, PublishKeeps DEF Looping
  <2> QED BY <2>3, <2>6
<1> QED BY <1>2, <1>3

(* A listing that did not come through goes on record.                     *)
LEMMA ListedMoves ==
    ASSUME TypeOK, NEW k \in Calls, NEW d, NEW listing, Listed(k, d, listing)
    PROVE  /\ \A j \in Calls \ {k} : hist'[j] = hist[j]
           /\ hist'[k].plans = hist[k].plans
           /\ hist[k].meddled \subseteq hist'[k].meddled
           /\ hist'[k].meddled \subseteq hist[k].meddled \cup {None}
           /\ hist'[k].meddled = {} => listing = OfType(config[d], Head(call[k].types))
BY DEF Listed, TypeOK, History

(* The source is listed as it was for the plan. *)
LEMMA ListSourceKeeps ==
    ASSUME IInv, \A j \in Calls : KeepInv(j), NEW k \in Calls, ListSource(k)
    PROVE  Moves(k) /\ KeepInv(k)'
<1>1. /\ TypeOK /\ call[k].pc = "source" /\ UNCHANGED <<config, report>>
      /\ Listable(Head(call[k].types))
  BY DEF IInv, ListSource
<1>2. PICK listing \in Listings(k, call[k].req.source) :
         /\ Listed(k, call[k].req.source, listing)
         /\ call' = [call EXCEPT ![k] = [@ EXCEPT !.pc = "dest", !.items = listing]]
  BY DEF ListSource
<1>3. /\ call'[k].pc = "dest" /\ call'[k].items = listing
      /\ call'[k].req = call[k].req /\ call'[k].todo = call[k].todo
      /\ call'[k].dest = call[k].dest /\ call'[k].types = call[k].types
      /\ \A j \in Calls \ {k} : call'[j] = call[j]
  BY <1>1, <1>2 DEF TypeOK, Call
<1>4. /\ \A j \in Calls \ {k} : hist'[j] = hist[j]
      /\ hist'[k].plans = hist[k].plans
      /\ hist[k].meddled \subseteq hist'[k].meddled
      /\ hist'[k].meddled \subseteq hist[k].meddled \cup {None}
      /\ hist'[k].meddled = {} =>
            listing = OfType(config[call[k].req.source], Head(call[k].types))
  BY <1>1, <1>2, ListedMoves
<1>5. Moves(k)
  BY <1>1, <1>3, <1>4 DEF Moves
<1>6. ErrorInv(k)'
  BY <1>1, <1>3 DEF KeepInv, ErrorInv
<1>7. PlanInv(k)'
  BY <1>1, <1>3, <1>4 DEF KeepInv, PlanInv, Lacks
<1>8. \A d, t : ToCome(k, d, t)' => ToCome(k, d, t)
  BY <1>1, <1>3 DEF ToCome, Looping
<1>9. PlansInv(k)' /\ AgreeInv(k)'
  BY <1>1, <1>3, <1>4, <1>5, <1>8, CalmAgrees, MoverKeeps
<1> QED BY <1>5, <1>6, <1>7, <1>9 DEF KeepInv

(* The comparison finds what the plan says.                                *)
LEMMA ListDestKeeps ==
    ASSUME IInv, \A j \in Calls : KeepInv(j), NEW k \in Calls, ListDest(k)
    PROVE  Moves(k) /\ KeepInv(k)'
<1> DEFINE c == call[k]
           r == call[k].req
<1>1. /\ TypeOK /\ c.pc = "dest" /\ config' = config
      /\ c.dest \in Devices /\ c.items \subseteq Objects /\ c \in Call
      /\ c.types \in Seq(Types) /\ c.types # <<>>
      /\ c.created = {} /\ c.failed = {} /\ Listable(Head(c.types))
      /\ \A o \in c.items : Type[o] = Head(c.types)
  BY Working DEF IInv, ListDest, TypeOK, Call, CallInv, CleanInv, KeepInv, ErrorInv
<1>2. PICK listing \in Listings(k, c.dest) :
         /\ Listed(k, c.dest, listing)
         /\ \/ /\ ~r.confirm
               /\ Advance(k)
               /\ Publish(k, [Blank(k) EXCEPT !.plan = Missing(c.items, listing)])
            \/ /\ r.confirm
               /\ call' = [call EXCEPT ![k] =
                     IF r.kind = "sync" /\ ~Permits(r.mode, "create")
                     THEN [@ EXCEPT !.pc = "error"]
                     ELSE [@ EXCEPT !.pc = "create", !.missing = Missing(c.items, listing)]]
               /\ UNCHANGED report
  BY DEF ListDest
<1> DEFINE missing == Missing(c.items, listing)
<1>3. /\ \A j \in Calls \ {k} : hist'[j] = hist[j]
      /\ hist'[k].plans = hist[k].plans
      /\ hist[k].meddled \subseteq hist'[k].meddled
      /\ hist'[k].meddled \subseteq hist[k].meddled \cup {None}
      /\ hist'[k].meddled = {} => listing = OfType(config[c.dest], Head(c.types))
  BY <1>1, <1>2, ListedMoves
<1>4. hist'[k].meddled = {} => missing = Lacks(r.source, c.dest, Head(c.types))
  <2>1. hist'[k].meddled = {} => c.items = OfType(config[r.source], Head(c.types))
    BY <1>1, <1>3 DEF KeepInv, PlanInv
  <2> QED BY <1>3, <2>1 DEF Lacks
<1>5. missing \subseteq c.items
  BY DEF Missing
<1>6. CASE ~r.confirm
  <2> DEFINE e == [Blank(k) EXCEPT !.plan = missing]
  <2>1. /\ e \in Entry /\ e.dest = c.dest /\ e.type = Head(c.types)
        /\ e.error = FALSE /\ e.plan = missing
    BY <1>1, <1>5, BlankType DEF Entry, Blank
  <2>2. Advance(k) /\ Publish(k, e)
    BY <1>2, <1>6
  <2> HIDE DEF e, missing
  <2>3. Moves(k)
    BY <1>1, <1>3, <2>2, PublishMoves DEF Looping
  <2>4. Noted(e)
    BY <1>1, <2>1 DEF Noted
  <2>5. KeepInv(k)'
    BY <1>1, <1>3, <1>4, <1>6, <2>1, <2>2, <2>3, <2>4, PublishKeeps DEF Looping
  <2> QED BY <2>3, <2>5
<1>7. CASE r.confirm
  <2> HIDE DEF missing
  <2>1. /\ call'[k].req = r /\ call'[k].todo = c.todo /\ call'[k].dest = c.dest
        /\ call'[k].types = c.types /\ call'[k].created = {} /\ call'[k].failed = {}
        /\ \/ call'[k].pc = "error"
           \/ call'[k].pc = "create" /\ call'[k].missing = missing
        /\ \A j \in Calls \ {k} : call'[j] = call[j]
        /\ report' = report
    <3>1. report' = report /\ call \in [Calls -> Call]
      BY <1>1, <1>2, <1>7 DEF TypeOK
    <3>2. \/ call' = [call EXCEPT ![k] = [c EXCEPT !.pc = "error"]]
          \/ call' = [call EXCEPT ![k] = [c EXCEPT !.pc = "create", !.missing = missing]]
      BY <1>2, <1>7 DEF missing
    <3>3. CASE call' = [call EXCEPT ![k] = [c EXCEPT !.pc = "error"]]
      BY <1>1, <3>1, <3>3 DEF Call
    <3>4. CASE call' = [call EXCEPT ![k] = [c EXCEPT !.pc = "create", !.missing = missing]]
      BY <1>1, <3>1, <3>4 DEF Call
    <3> QED BY <3>2, <3>3, <3>4
  <2>2. Moves(k)
    BY <1>1, <1>3, <2>1 DEF Moves
  <2>3. ErrorInv(k)'
    BY <1>1, <1>5, <2>1 DEF KeepInv, ErrorInv
  <2>4. PlanInv(k)'
    BY <1>7, <2>1 DEF PlanInv
  <2>5. \A d, t : ToCome(k, d, t)' => ToCome(k, d, t)
    BY <1>1, <2>1, MembersTail DEF ToCome, Looping
  <2>6. ToCome(k, c.dest, Head(c.types))
    BY <1>1, MembersTail DEF ToCome
  <2>7. ASSUME hist'[k].meddled = {}, NEW f \in Entry, Noted(f), Agrees(k, f)
        PROVE  Agrees(k, f)'
    <3>1. f.dest = c.dest /\ f.type = Head(c.types) => f.plan = missing
      BY <1>1, <1>4, <2>6, <2>7 DEF Agrees, Noted
    <3> QED BY <1>1, <2>1, <2>5, <2>7, <3>1 DEF Agrees, Lacks
  <2>8. PlansInv(k)' /\ AgreeInv(k)'
    BY <1>1, <1>3, <2>1, <2>2, <2>7, MoverKeeps
  <2> QED BY <2>2, <2>3, <2>4, <2>8 DEF KeepInv
<1> QED BY <1>6, <1>7

(* What was created or failed is what was missing at first. *)
LEMMA TypeDoneKeeps ==
    ASSUME IInv, \A j \in Calls : KeepInv(j), NEW k \in Calls, TypeDone(k)
    PROVE  Moves(k) /\ KeepInv(k)'
<1>1. /\ TypeOK /\ call[k].pc = "create" /\ call[k].missing = {}
      /\ UNCHANGED <<config, hist>> /\ Advance(k) /\ Publish(k, Blank(k))
      /\ Listable(Head(call[k].types)) /\ call[k].req.confirm
  BY DEF IInv, TypeDone, KeepInv, ErrorInv, CallInv, AskInv
<1> DEFINE e == Blank(k)
<1>2. /\ e \in Entry /\ e.dest = call[k].dest /\ e.type = Head(call[k].types)
      /\ e.error = FALSE /\ e.created = call[k].created /\ e.failed = call[k].failed
  BY <1>1, BlankType DEF Blank
<1>3. Advance(k) /\ Publish(k, e)
  BY <1>1
<1> HIDE DEF e
<1>4. Moves(k)
  BY <1>1, <1>3, PublishMoves DEF Looping
<1>5. Noted(e)
  BY <1>1, <1>2 DEF Noted
<1>6. \A f \in Entry : Agrees(k, f) /\ f.dest = e.dest /\ f.type = e.type =>
         f.plan = e.created \cup e.failed
  BY <1>1, <1>2 DEF Agrees
<1>7. KeepInv(k)'
  BY <1>1, <1>2, <1>3, <1>4, <1>5, <1>6, PublishKeeps DEF Looping
<1> QED BY <1>4, <1>7

(* What a create changes is nothing the call has still to compare.         *)
LEMMA CreateElsewhere ==
    ASSUME IInv, NEW k \in Calls, call[k].pc = "create", NEW o \in Objects,
           Type[o] = Head(call[k].types), ~Repeats(call[k].req.types),
           config' = [config EXCEPT ![call[k].dest] = @ \cup {o}],
           NEW d \in Devices, NEW t, ToCome(k, d, t),
           NEW s \in Devices, s = call[k].req.source
    PROVE  OfType(config'[s], t) = OfType(config[s], t) /\ OfType(config'[d], t) = OfType(config[d], t)
<1> DEFINE c == call[k]
<1>1. /\ TypeOK /\ CallInv(k) /\ c.dest \in Devices /\ c.types \in Seq(Types) /\ c.types # <<>>
      /\ c.req \in Requests
  BY Working DEF IInv
<1>2. /\ c.dest \notin c.todo /\ ~Repeats(c.types) /\ c.todo \subseteq Others(c.req)
      /\ c.dest \in c.req.dests /\ (c.req.kind = "replicate" => c.dest # s)
  BY <1>1 DEF CallInv, FreshInv, AskInv, Looping
<1>3. CASE t # Head(c.types)
  BY <1>1, <1>3 DEF OfType, TypeOK
<1>4. CASE t = Head(c.types)
  <2>1. d \in c.todo
    BY <1>1, <1>2, <1>4, MembersTail DEF ToCome
  <2>2. c.req.kind = "replicate"
    <3>1. d \in c.req.dests /\ d # c.dest
      BY <1>2, <2>1 DEF Others
    <3> QED BY <1>1, <1>2, <3>1, FleetAssumption DEF Request
  <2>3. d # c.dest /\ s # c.dest
    BY <1>2, <2>1, <2>2
  <2> QED BY <1>1, <2>3 DEF TypeOK
<1> QED BY <1>3, <1>4

(* An object that was tried is no longer missing, but accounted for.       *)
LEMMA TriedKeeps ==
    ASSUME IInv, \A j \in Calls : KeepInv(j), NEW k \in Calls, NEW o \in Objects,
           Created(k, o) \/ CreatedUnheard(k, o) \/ CreateFails(k, o) \/ AbortCreated(k, o)
    PROVE  Moves(k) /\ KeepInv(k)'
<1> DEFINE c == call[k]
<1>1. /\ TypeOK /\ c.pc = "create" /\ o \in c.missing /\ report' = report
      /\ c \in Call /\ c.dest \in Devices /\ c.req \in Requests /\ c.req.source \in Devices
      /\ c.types \in Seq(Types) /\ c.types # <<>>
      /\ Type[o] = Head(c.types) /\ c.req.confirm
  <2>1. TypeOK /\ c.pc = "create" /\ o \in c.missing /\ report' = report
    BY DEF IInv, Created, CreatedUnheard, CreateFails, AbortCreated, Tried, DeviceCreates
  <2> QED BY <2>1, Working, RequestType DEF IInv, CallInv, AskInv, KeepInv, ErrorInv, TypeOK
<1>2. /\ call'[k].req = c.req /\ call'[k].todo = c.todo /\ call'[k].dest = c.dest
      /\ call'[k].types = c.types
      /\ \A j \in Calls \ {k} : call'[j] = call[j]
      /\ \/ call'[k].pc = "aborted"
         \/ /\ call'[k].pc = "create" /\ call'[k].missing \subseteq c.missing
            /\ call'[k].missing \cup call'[k].created \cup call'[k].failed
                  = c.missing \cup c.created \cup c.failed
  <2>0. call \in [Calls -> Call]
    BY <1>1 DEF TypeOK
  <2>1. CASE AbortCreated(k, o)
    BY <1>1, <2>0, <2>1 DEF AbortCreated, Call
  <2>2. CASE Created(k, o)
    <3>1. /\ call'[k].missing = c.missing \ {o} /\ call'[k].created = c.created \cup {o}
          /\ call'[k].failed = c.failed /\ call'[k].pc = c.pc
          /\ call'[k].req = c.req /\ call'[k].todo = c.todo /\ call'[k].dest = c.dest
          /\ call'[k].types = c.types
          /\ \A j \in Calls \ {k} : call'[j] = call[j]
      BY <1>1, <2>0, <2>2 DEF Created, Call
    <3> QED BY <1>1, <3>1
  <2>3. CASE CreatedUnheard(k, o) \/ CreateFails(k, o)
    <3>0. call' = [call EXCEPT ![k].missing = @ \ {o}, ![k].failed = @ \cup {o}]
      BY <2>3 DEF CreatedUnheard, CreateFails
    <3>1. /\ call'[k].missing = c.missing \ {o} /\ call'[k].failed = c.failed \cup {o}
          /\ call'[k].created = c.created /\ call'[k].pc = c.pc
          /\ call'[k].req = c.req /\ call'[k].todo = c.todo /\ call'[k].dest = c.dest
          /\ call'[k].types = c.types
          /\ \A j \in Calls \ {k} : call'[j] = call[j]
      BY <1>1, <2>0, <3>0 DEF Call
    <3> QED BY <1>1, <3>1
  <2> QED BY <2>1, <2>2, <2>3
<1>3. CASE config' = config /\ hist' = hist
  <2>1. Moves(k)
    BY <1>1, <1>2, <1>3 DEF Moves
  <2>2. ASSUME NEW f, Agrees(k, f) PROVE Agrees(k, f)'
    <3>1. ToCome(k, f.dest, f.type)' => ToCome(k, f.dest, f.type)
      BY <1>1, <1>2 DEF ToCome, Looping
    <3> QED BY <1>1, <1>2, <1>3, <2>2, <3>1 DEF Agrees, Lacks
  <2>3. PlansInv(k)' /\ AgreeInv(k)'
    BY <1>1, <1>2, <1>3, <2>1, <2>2, MoverKeeps
  <2>4. ErrorInv(k)' /\ PlanInv(k)'
    BY <1>1, <1>2 DEF KeepInv, ErrorInv, PlanInv
  <2> QED BY <2>1, <2>3, <2>4 DEF KeepInv
<1>4. CASE DeviceCreates(k, o)
  <2>1. /\ config' = [config EXCEPT ![c.dest] = @ \cup {o}]
        /\ hist' = [Meddled(k) EXCEPT ![k].wrote = @ \cup {<<c.dest, o>>}]
    BY <1>4 DEF DeviceCreates
  <2>2. Meddled(k) \in [Calls -> History] /\ hist \in [Calls -> History] /\ Meddled(k)[k] = hist[k]
    BY <1>1, MeddledType DEF Meddled, TypeOK
  <2>3. /\ hist'[k].plans = hist[k].plans /\ hist'[k].meddled = hist[k].meddled
        /\ \A j \in Calls \ {k} : hist'[j] = Meddled(k)[j]
    BY <2>1, <2>2 DEF History
  <2>4. \A j \in Calls \ {k} :
           /\ hist'[j].plans = hist[j].plans
           /\ \/ hist'[j].meddled = hist[j].meddled /\ call[j].pc = "new"
              \/ hist'[j].meddled = hist[j].meddled \cup {k}
    BY <2>2, <2>3 DEF Meddled, History
  <2>5. Moves(k)
    BY <1>1, <1>2, <2>3, <2>4 DEF Moves
  <2>6. ASSUME ~Repeats(c.req.types), NEW f \in Entry, Agrees(k, f) PROVE Agrees(k, f)'
    <3>1. ToCome(k, f.dest, f.type)' => ToCome(k, f.dest, f.type)
      BY <1>1, <1>2 DEF ToCome, Looping
    <3>2. f.dest \in Devices
      BY DEF Entry
    <3>3. ToCome(k, f.dest, f.type) =>
            /\ OfType(config'[c.req.source], f.type) = OfType(config[c.req.source], f.type)
            /\ OfType(config'[f.dest], f.type) = OfType(config[f.dest], f.type)
      BY <1>1, <2>1, <2>6, <3>2, CreateElsewhere
    <3> QED BY <1>1, <1>2, <2>6, <3>1, <3>3 DEF Agrees, Lacks
  <2>7. PlansInv(k)' /\ AgreeInv(k)'
    BY <1>1, <1>2, <2>3, <2>5, <2>6, MoverKeeps
  <2>8. ErrorInv(k)' /\ PlanInv(k)'
    BY <1>1, <1>2 DEF KeepInv, ErrorInv, PlanInv
  <2> QED BY <2>5, <2>7, <2>8 DEF KeepInv
<1> QED BY <1>3, <1>4 DEF Created, CreatedUnheard, CreateFails, AbortCreated

(* Every step keeps what ties calls to the plans shown before them.        *)
LEMMA KeepStep ==
    ASSUME IInv, \A k \in Calls : KeepInv(k), [Next]_vars
    PROVE  \A k \in Calls : KeepInv(k)'
<1>1. ASSUME NEW k \in Calls, Moves(k), KeepInv(k)' PROVE \A j \in Calls : KeepInv(j)'
  BY <1>1, OthersKeep
<1>2. ASSUME NEW k \in Calls, DevicesDone(k) \/ Abort(k) PROVE Moves(k) /\ KeepInv(k)'
  BY <1>2, EndKeeps DEF DevicesDone, Abort
<1>3. ASSUME NEW d \in Devices, NEW o \in Objects, Edit(d, o), NEW j \in Calls
      PROVE  KeepInv(j)'
  <2>1. UNCHANGED <<call, report>> /\ hist' = Meddled(None) /\ hist \in [Calls -> History]
        /\ None \notin Calls
    BY <1>3, FleetAssumption DEF Edit, IInv, TypeOK
  <2>2. \A i \in Calls :
           /\ hist'[i].plans = hist[i].plans
           /\ \/ hist'[i].meddled = hist[i].meddled /\ call[i].pc = "new"
              \/ hist'[i].meddled = hist[i].meddled \cup {None}
    BY <2>1 DEF Meddled, History
  <2>3. hist[j].plans \subseteq Calls
    BY <2>1 DEF History
  <2>4. \A i \in Calls : i \in hist'[j].meddled => call'[i].pc # "new"
    BY <2>1, <2>2 DEF KeepInv, PlansInv
  <2> QED BY <2>1, <2>2, <2>3, <2>4, KeepFrame
<1>4. ASSUME UNCHANGED vars, NEW j \in Calls PROVE KeepInv(j)'
  BY <1>4, KeepFrame DEF vars, KeepInv, PlansInv
<1> QED
  BY <1>1, <1>2, <1>3, <1>4, BeginKeeps, DeviceKeeps, ListFailsKeeps, ListSourceKeeps,
     ListDestKeeps, TypeDoneKeeps, TriedKeeps DEF Next

(* A confirmed call tries to create exactly what the plan its client saw   *)
(* announced, unless somebody else wrote to a device or a listing failed   *)
(* since the plan was begun.                                               *)
THEOREM PlansAreKept == Spec => []PlanKept
<1> DEFINE Inv == IInv /\ \A k \in Calls : KeepInv(k)
<1>1. Init => Inv
  <2> SUFFICES ASSUME Init, NEW k \in Calls PROVE KeepInv(k)
    BY InvInit
  <2>1. /\ call[k].pc = "new" /\ report[k].entries = {}
        /\ hist[k].plans = {} /\ hist[k].meddled = {}
    BY DEF Init, NewCall
  <2> QED BY <2>1 DEF KeepInv, ErrorInv, PlansInv, PlanInv, AgreeInv
<1>2. Inv /\ [Next]_vars => Inv'
  BY InvStep, KeepStep
<1>3. Inv => PlanKept
  <2> SUFFICES ASSUME Inv, NEW k \in Calls, Returned(k), ~Repeats(call[k].req.types),
                      NEW j \in hist[k].plans,
                      hist[k].meddled = {}, hist[j].meddled \subseteq {k},
                      NEW e \in report[k].entries, NEW f \in report[j].entries,
                      e.dest = f.dest, e.type = f.type
               PROVE  e.created \cup e.failed = f.plan
    BY DEF PlanKept
  <2>1. Agrees(k, f)
    BY DEF KeepInv, AgreeInv, Returned
  <2> QED BY <2>1 DEF Agrees
<1> QED BY <1>1, <1>2, <1>3, PTL DEF Spec

=============================================================================
