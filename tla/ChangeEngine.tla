---------------------------- MODULE ChangeEngine ----------------------------
(***************************************************************************)
(* ChangeService (services/change_service.py): preview, apply and rollback *)
(* of a change, with the ChangeRecord and PolicySnapshot tables that all   *)
(* server processes share, the device the change is for, and everything    *)
(* that can happen between two awaits of a call.                           *)
(*                                                                         *)
(* A call is a coroutine.  It runs without interruption from one await to  *)
(* the next, so each action below is the code between two awaits; the      *)
(* resolution of device_id to an adapter is joined to the request it is    *)
(* made for.  None stands for Python's None.                               *)
(***************************************************************************)
EXTENDS ChangeRequests, Integers

CONSTANTS
    Servers,        \* server processes on one inventory database
    Calls,          \* how many tool calls may be in progress at once
    Changes,        \* the change ids uuid4 will produce
    Devices,        \* devices the free-form device_id may resolve to
    Types,          \* the resource types the clients use
    Ids,            \* identifiers of keyed resources
    Data,           \* resource contents, as far as the properties tell them apart
    None,
    TTL,            \* PREVIEW_TTL_SECONDS, in ticks
    MaxTime,        \* bound: the clock stops here, pending changes permitting
    Faults,         \* which faults and outside events this instance has
    SerialCallers   \* a client awaits each answer before calling again on that change

FaultKinds ==
    {"edit",        \* somebody configures the device directly
     "get_fail",    \* a GET raises, fetch_current swallows it
     "lost",        \* a request is carried out, its response never arrives
     "cancel",      \* a call is cancelled, or its commit raises
     "crash",       \* a process dies and is started again, in any mode
     "rebind"}      \* device_id comes to resolve to another device or to none

ASSUME EngineAssumption ==
    /\ Types \subseteq ResourceTypes
    /\ TTL \in Nat /\ MaxTime \in Nat
    /\ Faults \subseteq FaultKinds
    /\ SerialCallers \in BOOLEAN
    /\ None \notin Servers \cup Changes \cup Devices \cup Ids \cup Data \cup Nat

VARIABLES
    mode,           \* the ModePolicy each process was started with
    now,
    binding,        \* the device resolve_adapter finds, None when it raises
    store,          \* the configuration of every device
    record,         \* ChangeRecord rows; "draft" is built but not committed
    snapshots,      \* PolicySnapshot rows of each change
    call,           \* the calls in progress, each with its ORM session's view
    hist            \* history: what was really done to the device

vars == <<mode, now, binding, store, record, snapshots, call, hist>>

-----------------------------------------------------------------------------
(* Counters saturate: none, one, more than one. *)
Many == 2
Count == 0..Many
Bump(n) == IF n < Many THEN n + 1 ELSE Many

Locs == Devices \X Types \X (Ids \cup {None})

Status == {"absent", "draft", "proposed", "applied", "rolled_back", "expired"}

ChangeRecord ==
    [status : Status,
     type : Types \cup {None},
     op : OperationType \cup {None},
     rid : Ids \cup {None},
     before : Data \cup {None},
     after : Data \cup {None},
     expires : Nat,
     applied_at : Nat \cup {None}]

NoRecord ==
    [status |-> "absent", type |-> None, op |-> None, rid |-> None,
     before |-> None, after |-> None, expires |-> 0, applied_at |-> None]

PC == {"idle", "pv_insert", "ap_fetch", "ap_execute", "ap_commit", "ex_commit",
       "rb_execute", "rb_commit"}

Call ==
    [pc : PC,
     srv : Servers \cup {None},
     change : Changes \cup {None},
     at : Nat,                  \* utcnow_naive() when the record was loaded
     dev : Devices \cup {None}, \* the adapter in use
     rid : Ids \cup {None},     \* resource_id as this session sees it
     raced : BOOLEAN]           \* history: its resource was written since the fetch

IdleCall ==
    [pc |-> "idle", srv |-> None, change |-> None, at |-> 0, dev |-> None,
     rid |-> None, raced |-> FALSE]

History ==
    [executed : Count,              \* times the device carried the change out
     undone : Count,                \* times it carried the undo out
     seen : Data \cup {None},       \* what the resource was at the preview
     preimage : Data \cup {None},   \* what it was just before the last execution
     raced : BOOLEAN,               \* it was written between drift check and execution
     unsure : BOOLEAN]              \* it was carried out or undone and no commit followed

NoHistory ==
    [executed |-> 0, undone |-> 0, seen |-> None, preimage |-> None,
     raced |-> FALSE, unsure |-> FALSE]

TypeOK ==
    /\ mode \in [Servers -> OperatingMode]
    /\ now \in Nat
    /\ binding \in Devices \cup {None}
    /\ store \in [Locs -> Data \cup {None}]
    /\ record \in [Changes -> ChangeRecord]
    /\ snapshots \in [Changes -> Count]
    /\ call \in [Calls -> Call]
    /\ hist \in [Changes -> History]

-----------------------------------------------------------------------------
(* The requests the services send to preview(): a create and a singleton   *)
(* have no identifier, a delete has no data.                               *)
Request ==
    [type : Types, op : OperationType, rid : Ids \cup {None}, after : Data \cup {None}]

Requests ==
    {q \in Request :
        /\ <<q.type, q.op>> \in Offered
        /\ (q.rid = None) <=> (q.op = "create" \/ q.type \in Singletons)
        /\ (q.after = None) <=> (q.op = "delete")}

(* What fetch_current may return for a resource of device d. *)
FetchCurrent(d, type, rid) ==
    IF Fetches(type, rid # None)
    THEN {store[<<d, type, rid>>]} \cup (IF "get_fail" \in Faults THEN {None} ELSE {})
    ELSE {None}

(* What the device may do with an accepted request: the place it writes    *)
(* and the new value.  A create gets any unused key; a request without a   *)
(* body creates nothing and, as an update, changes nothing.                *)
DeviceWrites(d, type, op, rid, data) ==
    LET held(i) == store[<<d, type, i>>]
        write(i, v) == [loc |-> <<d, type, i>>, val |-> v]
    IN  CASE op = "create" ->
                {write(i, data) : i \in {j \in Ids : data # None /\ held(j) = None}}
          [] op # "create" /\ held(rid) = None -> {}
          [] op = "delete" /\ held(rid) # None -> {write(rid, None)}
          [] OTHER -> {write(rid, IF data = None THEN held(rid) ELSE data)}

(* History: calls past their drift check whose resource is written now. *)
Touch(calls, loc) ==
    [k \in Calls |->
        IF /\ calls[k].pc = "ap_execute"
           /\ <<calls[k].dev, record[calls[k].change].type, calls[k].rid>> = loc
        THEN [calls[k] EXCEPT !.raced = TRUE]
        ELSE calls[k]]

(* The coroutines in ks end here: their sessions roll back, and records    *)
(* not yet committed are gone.                                             *)
Abort(ks) ==
    LET at(pc) == {call[k].change : k \in {j \in ks : call[j].pc = pc}}
    IN  /\ call' = [k \in Calls |-> IF k \in ks THEN IdleCall ELSE call[k]]
        /\ record' = [c \in Changes |->
                        IF c \in at("pv_insert") THEN NoRecord ELSE record[c]]
        /\ hist' = [c \in Changes |->
                        IF c \in at("pv_insert") THEN NoHistory
                        ELSE [hist[c] EXCEPT !.unsure =
                                hist[c].unsure \/ c \in at("ap_commit") \cup at("rb_commit")]]

Free(k, c) ==
    /\ call[k] = IdleCall
    /\ SerialCallers => \A j \in Calls : call[j].change # c

Begin(s, c, pc) ==
    [IdleCall EXCEPT !.pc = pc, !.srv = s, !.change = c, !.at = now, !.rid = record[c].rid]

NewRecordNoExpiry(q, current) ==
    [NoRecord EXCEPT !.status = "draft", !.type = q.type, !.op = q.op, !.rid = q.rid,
                     !.before = current, !.after = q.after, !.expires = None]

(* The ChangeRecord that preview() builds, its TTL starting from now. *)
NewRecord(q, current) ==
    [NoRecord EXCEPT !.status = "draft", !.type = q.type, !.op = q.op, !.rid = q.rid,
                     !.before = current, !.after = q.after, !.expires = now + TTL]

-----------------------------------------------------------------------------
Init ==
    /\ mode \in [Servers -> OperatingMode]
    /\ now = 0
    /\ binding \in Devices
    /\ store \in [Locs -> Data \cup {None}]
    /\ \A l \in Locs : l[3] = None => (store[l] # None <=> l[2] \in Singletons)
    /\ \A l \in Locs : l[3] # None /\ l[2] \in Singletons => store[l] = None
    /\ record = [c \in Changes |-> NoRecord]
    /\ snapshots = [c \in Changes |-> 0]
    /\ call = [k \in Calls |-> IdleCall]
    /\ hist = [c \in Changes |-> NoHistory]

(* preview(), up to its commit: mode check, adapter, GET, the new record. *)
PreviewFetch(k, s, c, q) ==
    /\ call[k] = IdleCall
    /\ record[c].status = "absent"
    /\ Permits(mode[s], q.op)
    /\ binding # None
    /\ \E current \in FetchCurrent(binding, q.type, q.rid) :
          record' = [record EXCEPT ![c] = NewRecord(q, current)]
    /\ hist' = [hist EXCEPT ![c].seen = store[<<binding, q.type, q.rid>>]]
    /\ call' = [call EXCEPT ![k] =
          [IdleCall EXCEPT !.pc = "pv_insert", !.srv = s, !.change = c]]
    /\ UNCHANGED <<mode, now, binding, store, snapshots>>

(* The ChangeRecord row is committed. *)
PreviewInsert(k) ==
    /\ call[k].pc = "pv_insert"
    /\ record' = [record EXCEPT ![call[k].change].status = "proposed"]
    /\ call' = [call EXCEPT ![k] = IdleCall]
    /\ UNCHANGED <<mode, now, binding, store, snapshots, hist>>

-----------------------------------------------------------------------------
(* The checks of apply() and rollback(), each raising when it fails.  The  *)
(* operators named after a bug are what the code would be with it: runs    *)
(* with one of them in place show that the properties notice.              *)

OpenEvenIfApplied(c) == record[c].status \in {"proposed", "applied"}

Open(c) == record[c].status = "proposed"             \* else ChangeAlreadyResolvedError

LapsedNever(c) == FALSE

Lapsed(c) == now > record[c].expires                 \* then ChangeExpiredError

AllowedAsPreviewed(s, c) == TRUE

Allowed(s, c) == Permits(mode[s], record[c].op)      \* else ModeViolationError

DriftedNever(current, c) == FALSE

Drifted(current, c) == current # record[c].before    \* then ChangeDriftError

UndoableAgain(c) == record[c].status \in {"applied", "rolled_back"}

Undoable(c) == record[c].status = "applied"          \* else ChangeAlreadyResolvedError

UndoDataAfter(c) == record[c].after

UndoData(c) == record[c].before                      \* before_data

(* apply(): the record is loaded, its status, TTL and mode are checked.  A *)
(* call refused here raises and changes nothing, so it is no step.         *)
ApplyLoad(k, s, c) ==
    /\ Free(k, c)
    /\ Open(c)
    /\ ~Lapsed(c)
    /\ Allowed(s, c)
    /\ call' = [call EXCEPT ![k] = Begin(s, c, "ap_fetch")]
    /\ UNCHANGED <<mode, now, binding, store, record, snapshots, hist>>

(* apply() finds the TTL elapsed: it will commit "expired", then raise. *)
ApplyExpired(k, s, c) ==
    /\ Free(k, c)
    /\ Open(c)
    /\ Lapsed(c)
    /\ call' = [call EXCEPT ![k] = Begin(s, c, "ex_commit")]
    /\ UNCHANGED <<mode, now, binding, store, record, snapshots, hist>>

ExpireCommit(k) ==
    /\ call[k].pc = "ex_commit"
    /\ record' = [record EXCEPT ![call[k].change].status = "expired"]
    /\ call' = [call EXCEPT ![k] = IdleCall]
    /\ UNCHANGED <<mode, now, binding, store, snapshots, hist>>

(* The adapter is resolved and the live state compared with before_json. *)
ApplyFetch(k) ==
    LET rec == record[call[k].change]
    IN  /\ call[k].pc = "ap_fetch"
        /\ \/ /\ binding = None                  \* ValueError
              /\ call' = [call EXCEPT ![k] = IdleCall]
           \/ /\ binding # None
              /\ \E current \in FetchCurrent(binding, rec.type, call[k].rid) :
                    call' = [call EXCEPT ![k] =
                        IF Drifted(current, call[k].change)
                        THEN IdleCall
                        ELSE [@ EXCEPT !.pc = "ap_execute", !.dev = binding]]
        /\ UNCHANGED <<mode, now, binding, store, record, snapshots, hist>>

(* The device carries the change out.  Its answer may carry the key of a   *)
(* created resource, or not; or it may get lost.                           *)
ApplyExecute(k) ==
    LET c   == call[k].change
        rec == record[c]
    IN  /\ call[k].pc = "ap_execute"
        /\ Supports(rec.type, rec.op)
        /\ \E w \in DeviceWrites(call[k].dev, rec.type, rec.op, call[k].rid, rec.after),
              answered \in (IF "lost" \in Faults THEN BOOLEAN ELSE {TRUE}) :
              /\ store' = [store EXCEPT ![w.loc] = w.val]
              /\ hist' = [hist EXCEPT ![c] =
                    [hist[c] EXCEPT !.executed = Bump(hist[c].executed),
                              !.preimage = store[w.loc],
                              !.raced = call[k].raced,
                              !.unsure = hist[c].unsure \/ ~answered]]
              /\ \E mkey \in {w.loc[3], None} :
                    call' = Touch([call EXCEPT ![k] =
                        IF ~answered THEN IdleCall
                        ELSE [@ EXCEPT !.pc = "ap_commit",
                                       !.rid = IF rec.op = "create" /\ call[k].rid = None
                                               THEN mkey ELSE call[k].rid]], w.loc)
        /\ UNCHANGED <<mode, now, binding, record, snapshots>>

ApplyCommitNoSnapshot(k) ==
    LET c == call[k].change
    IN  /\ call[k].pc = "ap_commit"
        /\ record' = [record EXCEPT ![c] =
              [record[c] EXCEPT !.status = "applied", !.applied_at = call[k].at]]
        /\ call' = [call EXCEPT ![k] = IdleCall]
        /\ UNCHANGED <<mode, now, binding, store, snapshots, hist>>

(* The dirty columns of the row and the snapshot are committed together. *)
ApplyCommit(k) ==
    LET c == call[k].change
    IN  /\ call[k].pc = "ap_commit"
        /\ record' = [record EXCEPT ![c] =
              [record[c] EXCEPT !.status = "applied",
                        !.applied_at = call[k].at,
                        !.rid = IF call[k].rid = None THEN record[c].rid ELSE call[k].rid]]
        /\ snapshots' = [snapshots EXCEPT ![c] = Bump(@)]
        /\ call' = [call EXCEPT ![k] = IdleCall]
        /\ UNCHANGED <<mode, now, binding, store, hist>>

-----------------------------------------------------------------------------
(* rollback(): the record is loaded.  The mode is not looked at, and a     *)
(* create whose key was never captured is refused.                         *)
RollbackLoad(k, s, c) ==
    /\ Free(k, c)
    /\ Undoable(c)
    /\ ~(record[c].op = "create" /\ record[c].rid = None)
    /\ call' = [call EXCEPT ![k] = Begin(s, c, "rb_execute")]
    /\ UNCHANGED <<mode, now, binding, store, record, snapshots, hist>>

(* The adapter is resolved and the inverse operation executed: a created   *)
(* resource is deleted, an updated one gets before_json, a deleted one is  *)
(* created from before_json under a key the device picks.                  *)
RollbackExecute(k) ==
    LET c   == call[k].change
        rec == record[c]
    IN  /\ call[k].pc = "rb_execute"
        /\ binding # None
        /\ Supports(rec.type, UndoOf(rec.op))
        /\ \E w \in DeviceWrites(binding, rec.type, UndoOf(rec.op), call[k].rid, UndoData(c)),
              answered \in (IF "lost" \in Faults THEN BOOLEAN ELSE {TRUE}) :
              /\ store' = [store EXCEPT ![w.loc] = w.val]
              /\ hist' = [hist EXCEPT ![c] =
                    [hist[c] EXCEPT !.undone = Bump(hist[c].undone), !.unsure = hist[c].unsure \/ ~answered]]
              /\ call' = Touch([call EXCEPT ![k] =
                    IF answered THEN [@ EXCEPT !.pc = "rb_commit", !.dev = binding]
                                ELSE IdleCall], w.loc)
        /\ UNCHANGED <<mode, now, binding, record, snapshots>>

RollbackCommit(k) ==
    /\ call[k].pc = "rb_commit"
    /\ record' = [record EXCEPT ![call[k].change].status = "rolled_back"]
    /\ call' = [call EXCEPT ![k] = IdleCall]
    /\ UNCHANGED <<mode, now, binding, store, snapshots, hist>>

(* execute() has no method for the operation, the device refuses the       *)
(* request or cannot be reached, or (on rollback) device_id resolves to    *)
(* nothing: the exception ends the call.                                   *)
Rejected(k) ==
    /\ call[k].pc \in {"ap_execute", "rb_execute"}
    /\ call' = [call EXCEPT ![k] = IdleCall]
    /\ UNCHANGED <<mode, now, binding, store, record, snapshots, hist>>

-----------------------------------------------------------------------------
(* Time passes while there is something its passing could change: until    *)
(* MaxTime, and until every proposed change has outlived its TTL.          *)
Tick ==
    /\ \/ now < MaxTime
       \/ \E c \in Changes : record[c].status = "proposed" /\ now <= record[c].expires
    /\ now' = now + 1
    /\ UNCHANGED <<mode, binding, store, record, snapshots, call, hist>>

(* Somebody works on the device directly: a resource appears, changes or   *)
(* goes.  A singleton can only change.                                     *)
Edit ==
    /\ "edit" \in Faults
    /\ \E d \in Devices, t \in Types, i \in Ids \cup {None}, v \in Data \cup {None} :
          /\ IF t \in Singletons THEN i = None /\ v # None ELSE i # None
          /\ store[<<d, t, i>>] # v
          /\ store' = [store EXCEPT ![<<d, t, i>>] = v]
          /\ call' = Touch(call, <<d, t, i>>)
    /\ UNCHANGED <<mode, now, binding, record, snapshots, hist>>

Rebind ==
    /\ "rebind" \in Faults
    /\ binding' \in (Devices \cup {None}) \ {binding}
    /\ UNCHANGED <<mode, now, store, record, snapshots, call, hist>>

Cancel(k) ==
    /\ "cancel" \in Faults
    /\ call[k] # IdleCall
    /\ Abort({k})
    /\ UNCHANGED <<mode, now, binding, store, snapshots>>

(* A process dies with all its calls; the mode is read again at startup. *)
Crash(s) ==
    /\ "crash" \in Faults
    /\ \E m \in OperatingMode : mode' = [mode EXCEPT ![s] = m]
    /\ Abort({k \in Calls : call[k].srv = s})
    /\ UNCHANGED <<now, binding, store, snapshots>>

(* The steps a call takes once it has begun. *)
Proceed(k) ==
    \/ PreviewInsert(k)
    \/ ApplyFetch(k)    \/ ApplyExecute(k)    \/ ApplyCommit(k)
    \/ ExpireCommit(k)
    \/ RollbackExecute(k) \/ RollbackCommit(k)
    \/ Rejected(k)

Apply(c) == \E k \in Calls, s \in Servers : ApplyLoad(k, s, c) \/ ApplyExpired(k, s, c)

Next ==
    \/ \E k \in Calls, s \in Servers, c \in Changes :
          \/ \E q \in Requests : PreviewFetch(k, s, c, q)
          \/ ApplyLoad(k, s, c)
          \/ ApplyExpired(k, s, c)
          \/ RollbackLoad(k, s, c)
    \/ \E k \in Calls : Proceed(k) \/ Cancel(k)
    \/ \E s \in Servers : Crash(s)
    \/ Tick
    \/ Edit
    \/ Rebind

Spec == Init /\ [][Next]_vars

(* A request in progress ends (httpx has a timeout, SQLite answers), the   *)
(* clock runs, and a client keeps calling change_apply on a pending change. *)
FairSpec ==
    /\ Spec
    /\ WF_vars(Tick)
    /\ \A k \in Calls : WF_vars(Proceed(k))
    /\ \A c \in Changes : WF_vars(Apply(c))

-----------------------------------------------------------------------------
Guarded(c) == record[c].op \in {"update", "delete"} /\ record[c].before # None

(* An apply in progress runs in a process whose mode permits the change's  *)
(* operation, although the change may have been previewed in another       *)
(* process, under another mode, and a process that restarts may come back  *)
(* stricter (mode_policy.py: "the single READ_ONLY/SAFE/FULL gate").       *)
ApplyPermitted ==
    \A k \in Calls :
        call[k].pc \in {"ap_fetch", "ap_execute", "ap_commit"} =>
            Permits(mode[call[k].srv], record[call[k].change].op)

(* The audit trail never claims what did not happen: a change recorded as  *)
(* applied was carried out on the device and has its snapshot, and one     *)
(* recorded as rolled back was undone there too, whatever calls overlapped,*)
(* were lost or died.                                                      *)
ResolvedIsBacked ==
    \A c \in Changes :
        /\ record[c].status \in {"applied", "rolled_back"} =>
              hist[c].executed > 0 /\ snapshots[c] > 0
        /\ record[c].status = "rolled_back" => hist[c].undone > 0

(* The recorded application time lies within the TTL, even when the answer *)
(* of the device came after it or another call expired the change          *)
(* meanwhile.                                                              *)
AppliedInTime ==
    \A c \in Changes :
        record[c].applied_at # None => record[c].applied_at <= record[c].expires

(* A change is carried out twice, or undone twice, only when a client did  *)
(* not wait for an answer or an answer never came: with serial callers     *)
(* every repetition follows a lost answer, a cancelled call or a crash.    *)
RepeatedOnlyIfUnsure ==
    SerialCallers =>
        \A c \in Changes :
            ~hist[c].unsure =>
                hist[c].executed < Many /\ hist[c].undone < Many /\ snapshots[c] < Many

(* The drift check at apply time: an update or delete whose previous state *)
(* was read at the preview is carried out on exactly that state, so        *)
(* before_json is what a rollback must restore -- unless somebody writes   *)
(* between the check and the execution.                                    *)
ExecutesWhatWasPreviewed ==
    \A c \in Changes :
        Guarded(c) /\ hist[c].executed > 0 /\ ~hist[c].raced =>
            hist[c].preimage = hist[c].seen /\ hist[c].preimage = record[c].before

(* Once rolled back, an update that nothing else disturbed leaves the      *)
(* resource as it was before the change was applied.                       *)
RollbackRestores ==
    [][\A k \in Calls :
        LET c == call[k].change
            l == <<binding, record[c].type, call[k].rid>>
        IN  /\ call[k].pc = "rb_execute" /\ call'[k].pc = "rb_commit"
            /\ record[c].op = "update" /\ Guarded(c) /\ ~hist[c].raced
            => store'[l] = hist[c].preimage]_vars

(* The commit of an expiry is cut off by a cancellation or a crash. *)
ExpiryCut ==
    \E k \in Calls :
        /\ call[k].pc = "ex_commit" /\ call'[k] = IdleCall
        /\ record'[call[k].change].status = "proposed"

(* With a client that keeps applying, no change stays proposed: it is      *)
(* carried out or, however often it drifts, is refused, fails, is cut off  *)
(* or meets a stricter mode, in the end expires, because the TTL is looked *)
(* at before anything else.  Only the commit of the expiry itself must not *)
(* be cut off for ever.                                                    *)
EventuallyResolved ==
    <>[][~ExpiryCut]_vars =>
        \A c \in Changes : record[c].status = "proposed" ~> record[c].status # "proposed"

(* ChangeLifecycle is what a client sees: a change whose request was       *)
(* answered counts as resolved, its commit still being on its way.         *)
InCommit(c, pc) == \E k \in Calls : call[k].change = c /\ call[k].pc = pc

PhaseOf(c) ==
    IF InCommit(c, "ap_commit") THEN "applied"
    ELSE IF InCommit(c, "rb_commit") THEN "rolled_back"
    ELSE IF record[c].status = "draft" THEN "absent"
    ELSE record[c].status

Lifecycle ==
    INSTANCE ChangeLifecycle WITH
        phase    <- [c \in Changes |-> PhaseOf(c)],
        executed <- [c \in Changes |-> hist[c].executed],
        undone   <- [c \in Changes |-> hist[c].undone]

(* With serial callers and every answer arriving, a change lives the life  *)
(* ChangeLifecycle describes.                                              *)
RefinesLifecycle == Lifecycle!Spec

=============================================================================
