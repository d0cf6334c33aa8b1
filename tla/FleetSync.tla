----------------------------- MODULE FleetSync -----------------------------
(***************************************************************************)
(* fleet_sync_objects and fleet_replicate_config (services/fleet_service). *)
(* Both list the objects of one type on the source and on a destination    *)
(* and create on the destination what it has no object of that name for;   *)
(* replicate does so for several types and devices.  Without confirm they  *)
(* only report the plan.  Nothing is kept between calls: the plan a client *)
(* saw is made anew when it confirms.                                      *)
(***************************************************************************)
EXTENDS ChangeDispatch, Naturals, Sequences

CONSTANTS
    Calls,      \* the fleet calls that are made, by any server process
    Devices,
    Objects,    \* with their content; those of one type and name are variants
    Types,      \* resource types, and other strings
    Type,       \* the resource type of each object
    Name,       \* what item.get("name") gives for it
    Unnamed,    \* None: static routes have no name
    DeviceName, \* unique within a site only
    Configs,    \* the configurations the devices may start with
    None,
    Requests,   \* what clients ask for
    MaxMishaps  \* bound: edits by others, lost requests and answers

(* The arguments of a call, after targets were resolved. *)
Request ==
    [kind : {"sync", "replicate"},
     source : Devices,
     dests : SUBSET Devices,
     types : Seq(Types),
     mode : OperatingMode,      \* of the process that serves the call
     confirm : BOOLEAN]

ASSUME FleetAssumption ==
    /\ Type \in [Objects -> Types]
    /\ Requests \subseteq Request
    /\ \A r \in Requests :
          /\ r.types # <<>>
          /\ r.kind = "sync" => (\E d \in Devices : r.dests = {d}) /\ Len(r.types) = 1
    /\ Configs \subseteq [Devices -> SUBSET Objects]
    /\ None \notin Devices \cup Calls \cup Request

VARIABLES
    config,     \* the objects each device holds
    call,
    report,     \* what each call will return
    deleted,    \* history: which object was deleted by hand from which device
    hist,
    mishaps

vars == <<config, call, report, deleted, hist, mishaps>>

-----------------------------------------------------------------------------
PC == {"new", "device", "source", "dest", "create", "returned", "error", "aborted"}

Call ==
    [pc : PC,
     req : Requests \cup {None},
     todo : SUBSET Devices,         \* the devices still to come
     dest : Devices \cup {None},
     types : Seq(Types),            \* the types still to come, the current one first
     items : SUBSET Objects,        \* source_items
     missing : SUBSET Objects,
     created : SUBSET Objects,      \* results
     failed : SUBSET Objects]

(* per_resource[type] of a device.  Entries are told apart by the device;   *)
(* in the report stands its name, which devices of two sites may share, and *)
(* for each object its name.  items is history and not in the report.       *)
Entry ==
    [dest : Devices,
     type : Types,
     error : BOOLEAN,
     items : SUBSET Objects,
     plan : SUBSET Objects,         \* objects_to_create
     created : SUBSET Objects,
     failed : SUBSET Objects]

Report == [entries : SUBSET Entry, errors : SUBSET Devices]

(* History of a call: what it created where, the plans shown before it, and *)
(* who has changed a configuration meanwhile.                               *)
History ==
    [wrote : SUBSET (Devices \X Objects),
     plans : SUBSET Calls,
     meddled : SUBSET (Calls \cup {None})]

NewCall ==
    [pc |-> "new", req |-> None, todo |-> {}, dest |-> None, types |-> <<>>,
     items |-> {}, missing |-> {}, created |-> {}, failed |-> {}]

Sound(c) ==
    /\ c.pc # "new" => c.req # None
    /\ c.pc \in {"source", "dest", "create"} => c.dest # None /\ c.types # <<>>

TypeOK ==
    /\ config \in [Devices -> SUBSET Objects]
    /\ call \in [Calls -> Call]
    /\ report \in [Calls -> Report]
    /\ deleted \subseteq Devices \X Objects
    /\ hist \in [Calls -> History]
    /\ mishaps \in Nat
    /\ \A k \in Calls : Sound(call[k])

Init ==
    /\ config \in Configs
    /\ call = [k \in Calls |-> NewCall]
    /\ report = [k \in Calls |-> [entries |-> {}, errors |-> {}]]
    /\ deleted = {}
    /\ hist = [k \in Calls |-> [wrote |-> {}, plans |-> {}, meddled |-> {}]]
    /\ mishaps = 0

-----------------------------------------------------------------------------
Named(objects) == {Name[o] : o \in objects}

OfType(objects, t) == {o \in objects : Type[o] = t}

(* list_all() finds a method for the type instead of raising ValueError. *)
Listable(t) == t \in ResourceTypes /\ "list" \in ResourceOps[t]

Mishap == mishaps < MaxMishaps /\ mishaps' = mishaps + 1

(* list_all() returns the objects of the current type, or nothing, when the *)
(* answer of the device is no JSON.                                        *)
Listings(k, d) == {OfType(config[d], Head(call[k].types)), {}}

Listed(k, d, listing) ==
    \/ /\ listing = OfType(config[d], Head(call[k].types))
       /\ UNCHANGED <<hist, mishaps>>
    \/ /\ listing # OfType(config[d], Head(call[k].types)) /\ Mishap
       /\ hist' = [hist EXCEPT ![k].meddled = @ \cup {None}]

(* What the source has and the destination has nothing of that name for. *)
Missing(items, listing) == {o \in items : Name[o] \notin Named(listing)}

(* The device has an object of that type and name, or the object itself. *)
Taken(d, o) ==
    \E p \in config[d] :
        \/ p = o
        \/ Type[p] = Type[o] /\ Name[p] = Name[o] /\ Name[o] # Unnamed

(* History: k changes a configuration behind the back of all other calls. *)
Meddled(k) ==
    [j \in Calls |->
        IF j # k /\ call[j].pc # "new"
        THEN [hist[j] EXCEPT !.meddled = @ \cup {k}] ELSE hist[j]]

(* The plans a client has been shown for the very request r. *)
PlansFor(r) ==
    {j \in Calls : /\ call[j].pc = "returned"
                   /\ ~call[j].req.confirm
                   /\ r = [call[j].req EXCEPT !.confirm = TRUE, !.mode = r.mode]}

Begin(k, r) ==
    /\ call[k].pc = "new"
    /\ hist' = [hist EXCEPT ![k].plans = PlansFor(r)]
    /\ UNCHANGED <<config, report, deleted, mishaps>>

(* sync_objects(): both devices are connected. *)
Sync(k, r) ==
    /\ r.kind = "sync"
    /\ Begin(k, r)
    /\ \E dest \in r.dests :
          call' = [call EXCEPT ![k] =
              [@ EXCEPT !.pc = "source", !.req = r, !.dest = dest, !.types = r.types]]

AllOfThem(r) == r.dests

(* Devices with the name of the source are left out. *)
Others(r) == {d \in r.dests : DeviceName[d] # DeviceName[r.source]}

(* replicate_config(): the source is connected, the destinations resolved; *)
(* the mode is checked before anything is listed.                          *)
Replicate(k, r) ==
    /\ r.kind = "replicate"
    /\ r.confirm => Permits(r.mode, "create")
    /\ Begin(k, r)
    /\ call' = [call EXCEPT ![k] = [@ EXCEPT !.pc = "device", !.req = r, !.todo = Others(r)]]

-----------------------------------------------------------------------------
NextDeviceSpent(k, d) ==
    /\ call[k].pc = "device" /\ d \in call[k].todo
    /\ call' = [call EXCEPT ![k] =
          [@ EXCEPT !.pc = "source", !.todo = call[k].todo \ {d}, !.dest = d,
                    !.types = IF call[k].dest = None THEN call[k].req.types ELSE <<>>]]
    /\ UNCHANGED <<config, report, deleted, hist, mishaps>>

(* get_session() returns a session for the next destination. *)
NextDevice(k, d) ==
    /\ call[k].pc = "device" /\ d \in call[k].todo
    /\ call' = [call EXCEPT ![k] =
          [@ EXCEPT !.pc = "source", !.todo = call[k].todo \ {d},
                    !.dest = d, !.types = call[k].req.types]]
    /\ UNCHANGED <<config, report, deleted, hist, mishaps>>

(* Or it cannot connect, which is reported. *)
Unreachable(k, d) ==
    /\ call[k].pc = "device" /\ d \in call[k].todo
    /\ Mishap
    /\ report' = [report EXCEPT ![k].errors = @ \cup {d}]
    /\ call' = [call EXCEPT ![k].todo = @ \ {d}]
    /\ UNCHANGED <<config, deleted, hist>>

PutDevice(entries, e) == {f \in entries : f.dest # e.dest} \cup {e}

(* per_resource[type] = ...: an earlier entry for the type is replaced. *)
Put(entries, e) ==
    {f \in entries : f.dest # e.dest \/ f.type # e.type} \cup {e}

(* The loop goes on with the next type, the next device, or is done; a     *)
(* sync has only one of each.                                              *)
Onward(k) ==
    LET rest == Tail(call[k].types)
    IN  [call[k] EXCEPT
          !.pc = IF rest # <<>> THEN "source"
                 ELSE IF call[k].req.kind = "sync" THEN "returned" ELSE "device",
          !.types = rest, !.items = {}, !.missing = {}]

AdvanceKeepingResults(k) == call' = [call EXCEPT ![k] = Onward(k)]

Advance(k) ==
    call' = [call EXCEPT ![k] = [Onward(k) EXCEPT !.created = {}, !.failed = {}]]

Blank(k) ==
    [dest |-> call[k].dest, type |-> Head(call[k].types), error |-> FALSE,
     items |-> call[k].items, plan |-> {},
     created |-> call[k].created, failed |-> call[k].failed]

Publish(k, e) == report' = [report EXCEPT ![k].entries = Put(@, e)]

(* The type cannot be listed: an error for the type, or of the whole sync. *)
ListFails(k) ==
    /\ call[k].pc = "source" /\ ~Listable(Head(call[k].types))
    /\ IF call[k].req.kind = "sync"
       THEN call' = [call EXCEPT ![k].pc = "error"] /\ UNCHANGED report
       ELSE Advance(k) /\ Publish(k, [Blank(k) EXCEPT !.error = TRUE])
    /\ UNCHANGED <<config, deleted, hist, mishaps>>

ListSource(k) ==
    /\ call[k].pc = "source" /\ Listable(Head(call[k].types))
    /\ \E listing \in Listings(k, call[k].req.source) :
          /\ Listed(k, call[k].req.source, listing)
          /\ call' = [call EXCEPT ![k] = [@ EXCEPT !.pc = "dest", !.items = listing]]
    /\ UNCHANGED <<config, report, deleted>>

(* The destination is listed.  A plan ends here; a sync that is to be      *)
(* executed asks for the mode only now.                                    *)
ListDest(k) ==
    /\ call[k].pc = "dest"
    /\ \E listing \in Listings(k, call[k].dest) :
          LET missing == Missing(call[k].items, listing)
              r == call[k].req
          IN  /\ Listed(k, call[k].dest, listing)
              /\ \/ /\ ~r.confirm
                    /\ Advance(k)
                    /\ Publish(k, [Blank(k) EXCEPT !.plan = missing])
                 \/ /\ r.confirm
                    /\ call' = [call EXCEPT ![k] =
                          IF r.kind = "sync" /\ ~Permits(r.mode, "create")
                          THEN [@ EXCEPT !.pc = "error"]
                          ELSE [@ EXCEPT !.pc = "create", !.missing = missing]]
                    /\ UNCHANGED report
    /\ UNCHANGED <<config, deleted>>

-----------------------------------------------------------------------------
(* The device carries the create out.  What is written is kept by device    *)
(* and object; the report of the code has only their names.                *)
DeviceCreates(k, o) ==
    /\ ~Taken(call[k].dest, o)
    /\ config' = [config EXCEPT ![call[k].dest] = @ \cup {o}]
    /\ deleted' = deleted \ {<<call[k].dest, o>>}
    /\ hist' = [Meddled(k) EXCEPT ![k].wrote = @ \cup {<<call[k].dest, o>>}]
    /\ UNCHANGED report

Tried(k, o) == call[k].pc = "create" /\ o \in call[k].missing

Created(k, o) ==
    /\ Tried(k, o)
    /\ DeviceCreates(k, o)
    /\ call' = [call EXCEPT ![k].missing = @ \ {o}, ![k].created = @ \cup {o}]
    /\ UNCHANGED mishaps

(* It does, but its answer is lost. *)
CreatedUnheard(k, o) ==
    /\ Tried(k, o) /\ Mishap
    /\ DeviceCreates(k, o)
    /\ call' = [call EXCEPT ![k].missing = @ \ {o}, ![k].failed = @ \cup {o}]

CreateFailureUnnoted(k, o) ==
    /\ Tried(k, o)
    /\ call' = [call EXCEPT ![k].missing = @ \ {o}]
    /\ IF Taken(call[k].dest, o) THEN UNCHANGED mishaps ELSE Mishap
    /\ UNCHANGED <<config, report, deleted, hist>>

(* The device refuses, or is never reached: the others are still tried. *)
CreateFails(k, o) ==
    /\ Tried(k, o)
    /\ call' = [call EXCEPT ![k].missing = @ \ {o}, ![k].failed = @ \cup {o}]
    /\ IF Taken(call[k].dest, o) THEN UNCHANGED mishaps ELSE Mishap
    /\ UNCHANGED <<config, report, deleted, hist>>

(* All have been tried. *)
TypeDone(k) ==
    /\ call[k].pc = "create" /\ call[k].missing = {}
    /\ Advance(k)
    /\ Publish(k, Blank(k))
    /\ UNCHANGED <<config, deleted, hist, mishaps>>

DevicesDone(k) ==
    /\ call[k].pc = "device" /\ call[k].todo = {}
    /\ call' = [call EXCEPT ![k].pc = "returned"]
    /\ UNCHANGED <<config, report, deleted, hist, mishaps>>

(* Any other exception of get_session() or list_all(), or a cancellation:  *)
(* the call ends without a report.                                         *)
Abort(k) ==
    /\ call[k].pc \in {"device", "source", "dest", "create"} /\ Mishap
    /\ call' = [call EXCEPT ![k].pc = "aborted"]
    /\ UNCHANGED <<config, report, deleted, hist>>

(* A cancellation while a create is under way that the device carries out. *)
AbortCreated(k, o) ==
    /\ Tried(k, o) /\ Mishap
    /\ DeviceCreates(k, o)
    /\ call' = [call EXCEPT ![k].pc = "aborted"]

(* An administrator, or ChangeService, creates or deletes an object. *)
Edit(d, o) ==
    /\ Mishap
    /\ \/ /\ ~Taken(d, o)
          /\ config' = [config EXCEPT ![d] = @ \cup {o}]
          /\ deleted' = deleted \ {<<d, o>>}
       \/ /\ o \in config[d]
          /\ config' = [config EXCEPT ![d] = @ \ {o}]
          /\ deleted' = deleted \cup {<<d, o>>}
    /\ hist' = Meddled(None)
    /\ UNCHANGED <<call, report>>

Next ==
    \/ \E k \in Calls, r \in Requests : Sync(k, r) \/ Replicate(k, r)
    \/ \E k \in Calls, d \in Devices :
          NextDevice(k, d) \/ Unreachable(k, d)
    \/ \E k \in Calls :
          \/ ListFails(k) \/ ListSource(k) \/ ListDest(k)
          \/ TypeDone(k) \/ DevicesDone(k) \/ Abort(k)
    \/ \E k \in Calls, o \in Objects :
          \/ Created(k, o) \/ CreatedUnheard(k, o) \/ CreateFails(k, o) \/ AbortCreated(k, o)
    \/ \E d \in Devices, o \in Objects : Edit(d, o)

Spec == Init /\ [][Next]_vars

-----------------------------------------------------------------------------
Returned(k) == call[k].pc = "returned"

Repeats(types) == \E i, j \in DOMAIN types : i # j /\ types[i] = types[j]

(* Of the two modes that fleet_sync_objects says block a confirmed call,   *)
(* READ_ONLY does: a plan, or a call of a READ_ONLY process, writes        *)
(* nothing.  (In SAFE it writes: see FleetClaims.)  A call writes only to  *)
(* its destinations, only objects of a type asked for, and                 *)
(* replicate_config never to its own source.                               *)
WritesOnlyAsAsked ==
    \A k \in Calls : \A w \in hist[k].wrote :
        LET r == call[k].req IN
        /\ r.confirm /\ r.mode # "read_only"
        /\ w[1] \in r.dests
        /\ r.kind = "replicate" => w[1] # r.source
        /\ \E i \in DOMAIN r.types : Type[w[2]] = r.types[i]

(* A returned report lists every object the call created, as created or,   *)
(* if the answer was lost, as failed, unless a type was asked for twice;   *)
(* and what it lists as created it did create.                             *)
ReportMatchesDevices ==
    \A k \in Calls : Returned(k) =>
        /\ \A e \in report[k].entries : \A o \in e.created : <<e.dest, o>> \in hist[k].wrote
        /\ ~Repeats(call[k].req.types) =>
              \A w \in hist[k].wrote :
                  \E e \in report[k].entries : e.dest = w[1] /\ w[2] \in e.created \cup e.failed

(* After a confirmed call each destination it reports on without error has *)
(* an object by the name of each named one that was listed on the source,  *)
(* unless creating it is reported failed or it was deleted by hand.        *)
CopyComplete ==
    \A k \in Calls : Returned(k) /\ call[k].req.confirm =>
        \A e \in report[k].entries : \A o \in e.items :
            \/ Name[o] = Unnamed \/ o \in e.failed
            \/ \E p \in Objects :
                  /\ Type[p] = Type[o] /\ Name[p] = Name[o]
                  /\ p \in config[e.dest] \/ <<e.dest, p>> \in deleted

(* What a confirmed call tries to create is what the plan the client saw   *)
(* announced, if nobody else wrote to a device since the plan was begun    *)
(* and all listings came through.                                          *)
PlanKept ==
    \A k \in Calls : Returned(k) /\ ~Repeats(call[k].req.types) =>
        \A j \in hist[k].plans :
            hist[k].meddled = {} /\ hist[j].meddled \subseteq {k} =>
                \A e \in report[k].entries, f \in report[j].entries :
                    e.dest = f.dest /\ e.type = f.type =>
                        e.created \cup e.failed = f.plan

=============================================================================
