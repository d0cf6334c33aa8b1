------------------------- MODULE ChangeEngineProofs -------------------------
(***************************************************************************)
(* The invariants of ChangeEngine for every number of servers, calls,      *)
(* changes, devices and resources and every set of faults.                 *)
(***************************************************************************)
EXTENDS ChangeInvariants, TLAPS

(* A counter that was bumped is a counter, and not none. *)
LEMMA BumpType == \A n \in Count : Bump(n) \in Count /\ Bump(n) > 0
BY DEF Bump, Count, Many

(* What the model starts from has the types of what comes after. *)
LEMMA BlankTypes ==
    /\ IdleCall \in Call
    /\ NoRecord \in ChangeRecord
    /\ NoHistory \in History
BY DEF IdleCall, NoRecord, NoHistory, Call, ChangeRecord, History, PC, Status, Count, Many

(* Marking calls as raced keeps them calls. *)
LEMMA TouchType ==
    ASSUME NEW calls \in [Calls -> Call], NEW loc
    PROVE  Touch(calls, loc) \in [Calls -> Call]
BY DEF Touch, Call

(* A device writes a place it has, and a value or nothing. *)
LEMMA WritesType ==
    ASSUME TypeOK, NEW d \in Devices, NEW type \in Types, NEW op,
           NEW rid \in Ids \cup {None}, NEW data \in Data \cup {None},
           NEW w \in DeviceWrites(d, type, op, rid, data)
    PROVE  /\ w.loc \in Locs
           /\ w.loc[3] \in Ids \cup {None}
           /\ w.val \in Data \cup {None}
<1>1. CASE op = "create"
  <2>1. PICK i \in Ids : w = [loc |-> <<d, type, i>>, val |-> data]
    BY <1>1 DEF DeviceWrites
  <2>. QED  BY <2>1 DEF Locs
<1>2. CASE op # "create" /\ store[<<d, type, rid>>] = None
  BY <1>2 DEF DeviceWrites
<1>3. CASE op = "delete" /\ store[<<d, type, rid>>] # None
  BY <1>3 DEF DeviceWrites, Locs
<1>4. CASE op \notin {"create", "delete"} /\ store[<<d, type, rid>>] # None
  <2>1. w = [loc |-> <<d, type, rid>>,
             val |-> IF data = None THEN store[<<d, type, rid>>] ELSE data]
    BY <1>4 DEF DeviceWrites
  <2>. QED  BY <2>1 DEF Locs, TypeOK
<1>. QED  BY <1>1, <1>2, <1>3, <1>4

(* What fetch_current returns is a value or None. *)
LEMMA FetchType ==
    ASSUME TypeOK, NEW d \in Devices, NEW type \in Types, NEW rid \in Ids \cup {None},
           NEW v \in FetchCurrent(d, type, rid)
    PROVE  v \in Data \cup {None}
BY DEF FetchCurrent, Locs, TypeOK

(* A call in progress is about a change, and that one's record has a type and an
   operation as soon as it was begun. *)
LEMMA CallChange ==
    ASSUME CallsInv, NEW k \in Calls, call[k].pc # "idle"
    PROVE  /\ call[k].change \in Changes
           /\ call[k].srv \in Servers
           /\ record[call[k].change].status # "absent" =>
                /\ record[call[k].change].type \in Types
                /\ record[call[k].change].op \in OperationType
BY DEF CallsInv

(* A row keeps its type when its status changes. *)
LEMMA StatusType ==
    ASSUME NEW rows \in [Changes -> ChangeRecord], NEW c \in Changes, NEW st \in Status
    PROVE  [rows EXCEPT ![c].status = st] \in [Changes -> ChangeRecord]
<1>1. [rows[c] EXCEPT !.status = st] \in ChangeRecord
  BY DEF ChangeRecord
<1>. QED  BY <1>1

(* What the server starts with has the types of TypeOK. *)
LEMMA TypeInit == Init => TypeOK
BY BlankTypes, EngineAssumption DEF Init, TypeOK, Count, Many

(* Every step keeps the types; a call's change is needed for it to be an index. *)
LEMMA TypeStep == TypeOK /\ CallsInv /\ [Next]_vars => TypeOK'
<1> SUFFICES ASSUME TypeOK, CallsInv, [Next]_vars PROVE TypeOK'
  OBVIOUS
<1> USE BlankTypes DEF TypeOK
<1>1. ASSUME NEW k \in Calls, NEW s \in Servers, NEW c \in Changes, NEW q \in Requests,
             PreviewFetch(k, s, c, q)
      PROVE  TypeOK'
  <2>1. q \in Request /\ binding \in Devices
    BY <1>1 DEF Requests, PreviewFetch
  <2>2. record' \in [Changes -> ChangeRecord]
    <3>1. binding # None /\ binding \in Devices
      BY <1>1 DEF PreviewFetch
    <3>2. PICK current \in FetchCurrent(binding, q.type, q.rid) :
             record' = [record EXCEPT ![c] = NewRecord(q, current)]
      BY <1>1 DEF PreviewFetch
    <3>3. current \in Data \cup {None} /\ now + TTL \in Nat
      BY <3>1, <2>1, FetchType, EngineAssumption DEF Request
    <3>4. NewRecord(q, current) \in ChangeRecord
      BY <2>1, <3>3 DEF NewRecord, ChangeRecord, Request, NoRecord, Status
    <3>. QED  BY <3>2, <3>4
  <2>3. <<binding, q.type, q.rid>> \in Locs
    BY <2>1 DEF Locs, Request
  <2>4. hist' \in [Changes -> History]
    BY <1>1, <2>3 DEF PreviewFetch, History
  <2>5. call' \in [Calls -> Call]
    BY <1>1 DEF PreviewFetch, Call, IdleCall, PC
  <2>. QED  BY <1>1, <2>2, <2>4, <2>5 DEF PreviewFetch
<1>2. ASSUME NEW k \in Calls, NEW s \in Servers, NEW c \in Changes, NEW pc \in PC,
             call' = [call EXCEPT ![k] = Begin(s, c, pc)],
             UNCHANGED <<mode, now, binding, store, record, snapshots, hist>>
      PROVE  TypeOK'
  BY <1>2 DEF Begin, Call, IdleCall, ChangeRecord
<1>3. ASSUME NEW k \in Calls, PreviewInsert(k) PROVE TypeOK'
  <2>1. call[k].change \in Changes
    BY <1>3, CallChange DEF PreviewInsert
  <2>2. record' \in [Changes -> ChangeRecord]
    BY <1>3, <2>1, StatusType DEF PreviewInsert, Status
  <2>. QED  BY <1>3, <2>2 DEF PreviewInsert
<1>4. ASSUME NEW k \in Calls, ExpireCommit(k) PROVE TypeOK'
  <2>1. call[k].change \in Changes
    BY <1>4, CallChange DEF ExpireCommit
  <2>2. record' \in [Changes -> ChangeRecord]
    BY <1>4, <2>1, StatusType DEF ExpireCommit, Status
  <2>. QED  BY <1>4, <2>2 DEF ExpireCommit
<1>5. ASSUME NEW k \in Calls, ApplyFetch(k) PROVE TypeOK'
  <2>1. CASE binding = None
    BY <1>5, <2>1 DEF ApplyFetch
  <2>2. CASE binding # None
    <3>1. [call[k] EXCEPT !.pc = "ap_execute", !.dev = binding] \in Call
      BY DEF Call, PC
    <3>2. \/ call' = [call EXCEPT ![k] = IdleCall]
          \/ call' = [call EXCEPT ![k] = [@ EXCEPT !.pc = "ap_execute", !.dev = binding]]
      BY <1>5, <2>2 DEF ApplyFetch
    <3>. QED  BY <1>5, <3>1, <3>2 DEF ApplyFetch
  <2>. QED  BY <2>1, <2>2
<1>6. ASSUME NEW k \in Calls, ApplyExecute(k) PROVE TypeOK'
  <2> DEFINE c == call[k].change
             rec == record[c]
  <2>1. /\ c \in Changes /\ rec.type \in Types /\ call[k].dev \in Devices
        /\ call[k].rid \in Ids \cup {None} /\ rec.after \in Data \cup {None}
    BY <1>6 DEF ApplyExecute, CallsInv, OnRecord, Applying, Call, ChangeRecord
  <2>2. PICK w \in DeviceWrites(call[k].dev, rec.type, rec.op, call[k].rid, rec.after),
             answered \in BOOLEAN :
          /\ store' = [store EXCEPT ![w.loc] = w.val]
          /\ hist' = [hist EXCEPT ![c] =
                [hist[c] EXCEPT !.executed = Bump(hist[c].executed), !.preimage = store[w.loc],
                          !.raced = call[k].raced, !.unsure = hist[c].unsure \/ ~answered]]
          /\ \E mkey \in {w.loc[3], None} :
                call' = Touch([call EXCEPT ![k] =
                    IF ~answered THEN IdleCall
                    ELSE [@ EXCEPT !.pc = "ap_commit",
                                   !.rid = IF rec.op = "create" /\ call[k].rid = None
                                           THEN mkey ELSE call[k].rid]], w.loc)
    BY <1>6 DEF ApplyExecute
  <2>3. w.loc \in Locs /\ w.loc[3] \in Ids \cup {None} /\ w.val \in Data \cup {None}
    BY <2>1, WritesType
  <2>4. [hist[c] EXCEPT !.executed = Bump(hist[c].executed), !.preimage = store[w.loc],
                        !.raced = call[k].raced, !.unsure = hist[c].unsure \/ ~answered] \in History
    BY <2>1, <2>3, BumpType DEF History, Call
  <2>5. ASSUME NEW mkey \in {w.loc[3], None}
        PROVE  [call[k] EXCEPT !.pc = "ap_commit",
                               !.rid = IF rec.op = "create" /\ call[k].rid = None THEN mkey ELSE call[k].rid]
                 \in Call
    BY <2>3 DEF Call, PC
  <2>6. call' \in [Calls -> Call]
    <3> DEFINE done(mkey) ==
                [call[k] EXCEPT !.pc = "ap_commit",
                                !.rid = IF rec.op = "create" /\ call[k].rid = None THEN mkey ELSE call[k].rid]
    <3>1. PICK mkey \in {w.loc[3], None} :
             call' = Touch([call EXCEPT ![k] = IF ~answered THEN IdleCall ELSE done(mkey)],
                           w.loc)
      BY <2>2
    <3>2. done(mkey) \in Call
      BY <2>5
    <3> HIDE DEF done
    <3>. QED  BY <3>1, <3>2, TouchType
  <2>7. hist' \in [Changes -> History]
    <3> DEFINE h == [hist[c] EXCEPT !.executed = Bump(hist[c].executed), !.preimage = store[w.loc],
                                    !.raced = call[k].raced, !.unsure = hist[c].unsure \/ ~answered]
    <3>1. hist' = [hist EXCEPT ![c] = h] /\ h \in History
      BY <2>2, <2>4
    <3> HIDE DEF h
    <3>. QED  BY <3>1
  <2>8. store' \in [Locs -> Data \cup {None}]
    BY <2>2, <2>3
  <2>. QED  BY <1>6, <2>6, <2>7, <2>8 DEF ApplyExecute
<1>7. ASSUME NEW k \in Calls, ApplyCommit(k) PROVE TypeOK'
  <2> DEFINE c == call[k].change
  <2>1. c \in Changes
    BY <1>7, CallChange DEF ApplyCommit
  <2>2. [record[c] EXCEPT !.status = "applied", !.applied_at = call[k].at,
                          !.rid = IF call[k].rid = None THEN record[c].rid ELSE call[k].rid]
            \in ChangeRecord
    BY <2>1 DEF ChangeRecord, Status, Call
  <2>3. record' \in [Changes -> ChangeRecord]
    <3> DEFINE r == [record[c] EXCEPT !.status = "applied", !.applied_at = call[k].at,
                                      !.rid = IF call[k].rid = None THEN record[c].rid ELSE call[k].rid]
    <3>1. record' = [record EXCEPT ![c] = r] /\ r \in ChangeRecord
      BY <1>7, <2>2 DEF ApplyCommit
    <3> HIDE DEF r
    <3>. QED  BY <3>1
  <2>4. snapshots' \in [Changes -> Count]
    BY <1>7, <2>1, BumpType DEF ApplyCommit
  <2>. QED  BY <1>7, <2>3, <2>4 DEF ApplyCommit
<1>8. ASSUME NEW k \in Calls, RollbackExecute(k) PROVE TypeOK'
  <2> DEFINE c == call[k].change
             rec == record[c]
  <2>1. /\ c \in Changes /\ rec.type \in Types /\ binding \in Devices
        /\ call[k].rid \in Ids \cup {None} /\ UndoData(c) \in Data \cup {None}
    BY <1>8 DEF RollbackExecute, CallsInv, OnRecord, Applying, Call, ChangeRecord, UndoData
  <2>2. PICK w \in DeviceWrites(binding, rec.type, UndoOf(rec.op), call[k].rid, UndoData(c)),
             answered \in BOOLEAN :
          /\ store' = [store EXCEPT ![w.loc] = w.val]
          /\ hist' = [hist EXCEPT ![c] =
                [hist[c] EXCEPT !.undone = Bump(hist[c].undone), !.unsure = hist[c].unsure \/ ~answered]]
          /\ call' = Touch([call EXCEPT ![k] =
                IF answered THEN [@ EXCEPT !.pc = "rb_commit", !.dev = binding]
                            ELSE IdleCall], w.loc)
    BY <1>8 DEF RollbackExecute
  <2>3. w.loc \in Locs /\ w.val \in Data \cup {None}
    BY <2>1, WritesType
  <2>4. [hist[c] EXCEPT !.undone = Bump(hist[c].undone), !.unsure = hist[c].unsure \/ ~answered] \in History
    BY <2>1, BumpType DEF History
  <2>5. [call[k] EXCEPT !.pc = "rb_commit", !.dev = binding] \in Call
    BY DEF Call, PC
  <2>6. call' \in [Calls -> Call]
    BY <2>2, <2>5, TouchType
  <2>7. hist' \in [Changes -> History]
    <3> DEFINE h == [hist[c] EXCEPT !.undone = Bump(hist[c].undone), !.unsure = hist[c].unsure \/ ~answered]
    <3>1. hist' = [hist EXCEPT ![c] = h] /\ h \in History
      BY <2>2, <2>4
    <3> HIDE DEF h
    <3>. QED  BY <3>1
  <2>8. store' \in [Locs -> Data \cup {None}]
    BY <2>2, <2>3
  <2>. QED  BY <1>8, <2>6, <2>7, <2>8 DEF RollbackExecute
<1>9. ASSUME NEW k \in Calls, RollbackCommit(k) PROVE TypeOK'
  <2>1. call[k].change \in Changes
    BY <1>9, CallChange DEF RollbackCommit
  <2>2. record' \in [Changes -> ChangeRecord]
    BY <1>9, <2>1, StatusType DEF RollbackCommit, Status
  <2>. QED  BY <1>9, <2>2 DEF RollbackCommit
<1>10. ASSUME NEW k \in Calls, Rejected(k) PROVE TypeOK'
  BY <1>10 DEF Rejected
<1>11. ASSUME NEW ks \in SUBSET Calls, Abort(ks) ,
             UNCHANGED <<now, binding, store, snapshots>>,
             mode' \in [Servers -> OperatingMode]
       PROVE TypeOK'
  BY <1>11 DEF Abort, History
<1>12. CASE Tick
  BY <1>12 DEF Tick
<1>13. CASE Edit
  BY <1>13, TouchType DEF Edit, Locs
<1>14. CASE Rebind
  BY <1>14 DEF Rebind
<1>15. CASE UNCHANGED vars
  BY <1>15 DEF vars
<1>. QED
  <2>1. ASSUME NEW k \in Calls, NEW s \in Servers, NEW c \in Changes,
               ApplyLoad(k, s, c) \/ ApplyExpired(k, s, c) \/ RollbackLoad(k, s, c)
        PROVE  TypeOK'
    BY <2>1, <1>2 DEF ApplyLoad, ApplyExpired, RollbackLoad, PC
  <2>2. ASSUME NEW k \in Calls, Cancel(k) PROVE TypeOK'
    BY <2>2, <1>11 DEF Cancel
  <2>3. ASSUME NEW s \in Servers, Crash(s) PROVE TypeOK'
    BY <2>3, <1>11 DEF Crash
  <2>. QED
    BY <1>1, <1>3, <1>4, <1>5, <1>6, <1>7, <1>8, <1>9, <1>10, <1>12, <1>13, <1>14, <1>15,
       <2>1, <2>2, <2>3 DEF Next, Proceed

-----------------------------------------------------------------------------
(* What the steps do, as far as the other invariants are concerned.        *)

Kept(j) ==
    /\ call'[j].pc = call[j].pc /\ call'[j].srv = call[j].srv
    /\ call'[j].change = call[j].change /\ call'[j].at = call[j].at
    /\ call'[j].dev = call[j].dev

Ended(k) == call'[k].pc = "idle" /\ call'[k].change = None

Moved(k, pc) ==
    /\ call'[k].pc = pc /\ call'[k].srv = call[k].srv
    /\ call'[k].change = call[k].change /\ call'[k].at = call[k].at

OthersKept(k) == \A j \in Calls \ {k} : Kept(j)

(* Marking a call as raced changes nothing else of it. *)
LEMMA TouchKeeps ==
    ASSUME NEW calls \in [Calls -> Call], NEW loc, NEW j \in Calls
    PROVE  LET t == Touch(calls, loc)[j]
           IN  /\ t.pc = calls[j].pc /\ t.srv = calls[j].srv
               /\ t.change = calls[j].change /\ t.at = calls[j].at /\ t.dev = calls[j].dev
BY DEF Touch, Call

(* A step that rewrites call k and marks raced calls leaves the others where they
   are. *)
LEMMA TouchStep ==
    ASSUME TypeOK, NEW k \in Calls, NEW v \in Call, NEW loc,
           call' = Touch([call EXCEPT ![k] = v], loc)
    PROVE  /\ OthersKept(k)
           /\ call'[k].pc = v.pc /\ call'[k].srv = v.srv /\ call'[k].change = v.change
           /\ call'[k].at = v.at /\ call'[k].dev = v.dev
<1> DEFINE cs == [call EXCEPT ![k] = v]
<1>1. cs \in [Calls -> Call] /\ cs[k] = v /\ \A j \in Calls \ {k} : cs[j] = call[j]
  BY DEF TypeOK
<1>2. call' = Touch(cs, loc)
  OBVIOUS
<1> HIDE DEF cs
<1>3. ASSUME NEW j \in Calls
      PROVE  /\ call'[j].pc = cs[j].pc /\ call'[j].srv = cs[j].srv
             /\ call'[j].change = cs[j].change /\ call'[j].at = cs[j].at
             /\ call'[j].dev = cs[j].dev
  BY <1>1, <1>2, TouchKeeps
<1>. QED  BY <1>1, <1>3 DEF OthersKept, Kept

(* The device executes: the call moves on to its commit, or the answer is lost. *)
LEMMA ApplyExecuteEffect ==
    ASSUME TypeOK, CallsInv, NEW k \in Calls, ApplyExecute(k)
    PROVE  LET c == call[k].change
           IN  /\ c \in Changes /\ call[k].pc = "ap_execute" /\ OthersKept(k)
               /\ \/ "lost" \in Faults /\ Ended(k) /\ hist'[c].unsure
                  \/ /\ Moved(k, "ap_commit") /\ call'[k].dev = call[k].dev
                     /\ hist'[c].unsure = hist[c].unsure
               /\ hist'[c].executed = Bump(hist[c].executed)
               /\ hist'[c].undone = hist[c].undone
               /\ hist[c].unsure => hist'[c].unsure
               /\ \A d \in Changes \ {c} : hist'[d] = hist[d]
               /\ UNCHANGED <<mode, now, record, snapshots>>
<1> DEFINE c == call[k].change
           rec == record[c]
<1>1. /\ c \in Changes /\ rec.type \in Types /\ call[k].dev \in Devices
      /\ call[k].rid \in Ids \cup {None} /\ rec.after \in Data \cup {None}
      /\ call[k].pc = "ap_execute" /\ call[k] \in Call /\ hist \in [Changes -> History]
  BY DEF ApplyExecute, CallsInv, OnRecord, Applying, Call, ChangeRecord, TypeOK
<1>2. PICK w \in DeviceWrites(call[k].dev, rec.type, rec.op, call[k].rid, rec.after),
           answered \in BOOLEAN :
        /\ "lost" \in Faults \/ answered
        /\ hist' = [hist EXCEPT ![c] =
              [hist[c] EXCEPT !.executed = Bump(hist[c].executed),
                              !.preimage = store[w.loc],
                              !.raced = call[k].raced,
                              !.unsure = hist[c].unsure \/ ~answered]]
        /\ \E mkey \in {w.loc[3], None} :
              call' = Touch([call EXCEPT ![k] =
                  IF ~answered THEN IdleCall
                  ELSE [@ EXCEPT !.pc = "ap_commit",
                                 !.rid = IF rec.op = "create" /\ call[k].rid = None
                                         THEN mkey ELSE call[k].rid]], w.loc)
  BY DEF ApplyExecute
<1>m. PICK mkey \in {w.loc[3], None} :
        call' = Touch([call EXCEPT ![k] =
            IF ~answered THEN IdleCall
            ELSE [@ EXCEPT !.pc = "ap_commit",
                           !.rid = IF rec.op = "create" /\ call[k].rid = None
                                   THEN mkey ELSE call[k].rid]], w.loc)
  BY <1>2
<1>3. mkey \in Ids \cup {None}
  BY <1>1, <1>2, <1>m, WritesType
<1>4. CASE ~answered
  <2>1. OthersKept(k) /\ Ended(k)
    BY <1>m, <1>4, TouchStep, BlankTypes DEF Ended, IdleCall
  <2>2. /\ hist'[c].executed = Bump(hist[c].executed) /\ hist'[c].undone = hist[c].undone
        /\ hist'[c].unsure
        /\ \A d \in Changes \ {c} : hist'[d] = hist[d]
    BY <1>1, <1>2, <1>4 DEF History
  <2>. QED  BY <1>1, <1>2, <1>4, <2>1, <2>2 DEF ApplyExecute
<1>5. CASE answered
  <2> DEFINE v == [call[k] EXCEPT !.pc = "ap_commit",
                        !.rid = IF rec.op = "create" /\ call[k].rid = None
                                THEN mkey ELSE call[k].rid]
  <2>1. /\ v \in Call /\ v.pc = "ap_commit" /\ v.srv = call[k].srv /\ v.at = call[k].at
        /\ v.change = call[k].change /\ v.dev = call[k].dev
    BY <1>1, <1>3 DEF Call, PC
  <2>2. call' = Touch([call EXCEPT ![k] = v], w.loc)
    BY <1>m, <1>5
  <2> HIDE DEF v
  <2>3. OthersKept(k) /\ Moved(k, "ap_commit") /\ call'[k].dev = call[k].dev
    BY <2>1, <2>2, TouchStep DEF Moved
  <2>4. /\ hist'[c].executed = Bump(hist[c].executed) /\ hist'[c].undone = hist[c].undone
        /\ hist'[c].unsure = hist[c].unsure
        /\ \A d \in Changes \ {c} : hist'[d] = hist[d]
    <3>1. hist[c].unsure \in BOOLEAN /\ hist[c].unsure = (hist[c].unsure \/ ~answered)
      BY <1>1, <1>5 DEF History
    <3>. QED  BY <1>1, <1>2, <3>1 DEF History
  <2>. QED  BY <1>1, <2>3, <2>4 DEF ApplyExecute
<1>. QED  BY <1>4, <1>5

(* The device undoes: the call moves on to its commit, or the answer is lost. *)
LEMMA RollbackExecuteEffect ==
    ASSUME TypeOK, CallsInv, NEW k \in Calls, RollbackExecute(k)
    PROVE  LET c == call[k].change
           IN  /\ c \in Changes /\ call[k].pc = "rb_execute" /\ OthersKept(k)
               /\ \/ "lost" \in Faults /\ Ended(k) /\ hist'[c].unsure
                  \/ Moved(k, "rb_commit") /\ hist'[c].unsure = hist[c].unsure
               /\ hist'[c].undone = Bump(hist[c].undone)
               /\ hist'[c].executed = hist[c].executed
               /\ hist[c].unsure => hist'[c].unsure
               /\ \A d \in Changes \ {c} : hist'[d] = hist[d]
               /\ UNCHANGED <<mode, now, record, snapshots>>
<1> DEFINE c == call[k].change
           rec == record[c]
<1>1. /\ c \in Changes /\ binding \in Devices /\ call[k].pc = "rb_execute"
      /\ call[k] \in Call /\ hist \in [Changes -> History]
  BY DEF RollbackExecute, CallsInv, OnRecord, Applying, TypeOK
<1>2. PICK w \in DeviceWrites(binding, rec.type, UndoOf(rec.op), call[k].rid, UndoData(c)),
           answered \in BOOLEAN :
        /\ "lost" \in Faults \/ answered
        /\ hist' = [hist EXCEPT ![c] =
              [hist[c] EXCEPT !.undone = Bump(hist[c].undone),
                              !.unsure = hist[c].unsure \/ ~answered]]
        /\ call' = Touch([call EXCEPT ![k] =
              IF answered THEN [@ EXCEPT !.pc = "rb_commit", !.dev = binding]
              ELSE IdleCall], w.loc)
  BY DEF RollbackExecute
<1>4. CASE ~answered
  <2>1. OthersKept(k) /\ Ended(k)
    BY <1>2, <1>4, TouchStep, BlankTypes DEF Ended, IdleCall
  <2>2. /\ hist'[c].undone = Bump(hist[c].undone) /\ hist'[c].executed = hist[c].executed
        /\ hist'[c].unsure
        /\ \A d \in Changes \ {c} : hist'[d] = hist[d]
    BY <1>1, <1>2, <1>4 DEF History
  <2>. QED  BY <1>1, <1>2, <1>4, <2>1, <2>2 DEF RollbackExecute
<1>5. CASE answered
  <2> DEFINE v == [call[k] EXCEPT !.pc = "rb_commit", !.dev = binding]
  <2>1. /\ v \in Call /\ v.pc = "rb_commit" /\ v.srv = call[k].srv /\ v.at = call[k].at
        /\ v.change = call[k].change
    BY <1>1 DEF Call, PC
  <2>2. call' = Touch([call EXCEPT ![k] = v], w.loc)
    BY <1>2, <1>5
  <2> HIDE DEF v
  <2>3. OthersKept(k) /\ Moved(k, "rb_commit")
    BY <2>1, <2>2, TouchStep DEF Moved
  <2>4. /\ hist'[c].undone = Bump(hist[c].undone) /\ hist'[c].executed = hist[c].executed
        /\ hist'[c].unsure = hist[c].unsure
        /\ \A d \in Changes \ {c} : hist'[d] = hist[d]
    <3>1. hist[c].unsure \in BOOLEAN /\ hist[c].unsure = (hist[c].unsure \/ ~answered)
      BY <1>1, <1>5 DEF History
    <3>. QED  BY <1>1, <1>2, <3>1 DEF History
  <2>. QED  BY <1>1, <2>3, <2>4 DEF RollbackExecute
<1>. QED  BY <1>4, <1>5

(* Work on the device directly leaves calls and records alone. *)
LEMMA EditEffect ==
    ASSUME TypeOK, Edit
    PROVE  /\ \A j \in Calls : Kept(j)
           /\ UNCHANGED <<mode, now, record, snapshots, hist>>
BY TouchKeeps DEF Edit, TypeOK, Kept

(* apply() and rollback() load a record and check its status. *)
LEMMA LoadEffect ==
    ASSUME TypeOK, NEW k \in Calls, NEW s \in Servers, NEW c \in Changes,
           ApplyLoad(k, s, c) \/ ApplyExpired(k, s, c) \/ RollbackLoad(k, s, c)
    PROVE  /\ OthersKept(k) /\ call[k].pc = "idle"
           /\ call'[k].srv = s /\ call'[k].change = c /\ call'[k].at = now
           /\ \/ /\ call'[k].pc = "ap_fetch"
                 /\ record[c].status = "proposed"
                 /\ now <= record[c].expires
                 /\ Permits(mode[s], record[c].op)
              \/ call'[k].pc = "ex_commit" /\ record[c].status = "proposed"
              \/ call'[k].pc = "rb_execute" /\ record[c].status = "applied"
           /\ SerialCallers => \A j \in Calls : call[j].change # c
           /\ UNCHANGED <<mode, now, record, snapshots, hist>>
<1> DEFINE begun(pc) == call' = [call EXCEPT ![k] = Begin(s, c, pc)]
<1>1. ASSUME NEW pc, begun(pc)
      PROVE  /\ OthersKept(k)
             /\ call'[k].srv = s /\ call'[k].change = c /\ call'[k].at = now
             /\ call'[k].pc = pc
  BY <1>1 DEF Begin, IdleCall, TypeOK, OthersKept, Kept
<1>2. now \in Nat /\ record[c].expires \in Nat
  BY DEF TypeOK, ChangeRecord
<1>3. CASE ApplyLoad(k, s, c)
  <2>1. begun("ap_fetch")
    BY <1>3 DEF ApplyLoad
  <2>2. /\ record[c].status = "proposed" /\ now <= record[c].expires
        /\ Permits(mode[s], record[c].op)
    BY <1>2, <1>3 DEF ApplyLoad, Open, Lapsed, Allowed
  <2> HIDE DEF begun
  <2>. QED  BY <1>1, <1>3, <2>1, <2>2 DEF ApplyLoad, Free, IdleCall
<1>4. CASE ApplyExpired(k, s, c)
  <2>1. begun("ex_commit")
    BY <1>4 DEF ApplyExpired
  <2> HIDE DEF begun
  <2>. QED  BY <1>1, <1>4, <2>1 DEF ApplyExpired, Free, IdleCall, Open
<1>5. CASE RollbackLoad(k, s, c)
  <2>1. begun("rb_execute")
    BY <1>5 DEF RollbackLoad
  <2> HIDE DEF begun
  <2>. QED  BY <1>1, <1>5, <2>1 DEF RollbackLoad, Free, IdleCall, Undoable
<1>. QED  BY <1>3, <1>4, <1>5

(* preview() builds the draft of a change that was absent. *)
LEMMA PreviewFetchEffect ==
    ASSUME TypeOK, NEW k \in Calls, NEW s \in Servers, NEW c \in Changes, NEW q \in Requests,
           PreviewFetch(k, s, c, q)
    PROVE  /\ OthersKept(k) /\ call[k].pc = "idle"
           /\ call'[k].pc = "pv_insert" /\ call'[k].srv = s /\ call'[k].change = c
           /\ record[c].status = "absent" /\ record'[c].status = "draft"
           /\ record'[c].op \in OperationType /\ record'[c].type \in Types
           /\ record'[c].applied_at = None
           /\ \A d \in Changes \ {c} : record'[d] = record[d]
           /\ \A d \in Changes : /\ hist'[d].executed = hist[d].executed
                                 /\ hist'[d].undone = hist[d].undone
                                 /\ hist'[d].unsure = hist[d].unsure
           /\ UNCHANGED <<mode, now, snapshots>>
<1>1. PICK current : record' = [record EXCEPT ![c] = NewRecord(q, current)]
  BY DEF PreviewFetch
<1>2. /\ record'[c].status = "draft" /\ record'[c].applied_at = None
      /\ record'[c].op \in OperationType /\ record'[c].type \in Types
      /\ \A d \in Changes \ {c} : record'[d] = record[d]
  BY <1>1 DEF NewRecord, NoRecord, Requests, Request, TypeOK
<1>3. OthersKept(k) /\ call'[k].pc = "pv_insert" /\ call'[k].srv = s /\ call'[k].change = c
  BY DEF PreviewFetch, IdleCall, TypeOK, OthersKept, Kept
<1>4. \A d \in Changes : /\ hist'[d].executed = hist[d].executed
                         /\ hist'[d].undone = hist[d].undone
                         /\ hist'[d].unsure = hist[d].unsure
  BY DEF PreviewFetch, TypeOK, History
<1>. QED  BY <1>2, <1>3, <1>4 DEF PreviewFetch, IdleCall

(* Calls that are cut short take their drafts with them. *)
LEMMA AbortEffect ==
    ASSUME TypeOK, NEW ks \in SUBSET Calls, Abort(ks)
    PROVE  /\ \A k \in ks : Ended(k)
           /\ \A j \in Calls \ ks : Kept(j)
           /\ \A c \in Changes :
                \/ /\ \E k \in ks : call[k].pc = "pv_insert" /\ call[k].change = c
                   /\ record'[c] = NoRecord /\ hist'[c] = NoHistory
                \/ /\ ~ \E k \in ks : call[k].pc = "pv_insert" /\ call[k].change = c
                   /\ record'[c] = record[c]
                   /\ hist'[c].executed = hist[c].executed
                   /\ hist'[c].undone = hist[c].undone
                   /\ hist'[c].unsure <=>
                        \/ hist[c].unsure
                        \/ \E k \in ks : call[k].pc \in {"ap_commit", "rb_commit"} /\ call[k].change = c
<1>1. \A k \in ks : Ended(k)
  BY DEF Abort, Ended, IdleCall
<1>2. \A j \in Calls \ ks : Kept(j)
  BY DEF Abort, Kept
<1>3. ASSUME NEW c \in Changes
      PROVE  \/ /\ \E k \in ks : call[k].pc = "pv_insert" /\ call[k].change = c
                /\ record'[c] = NoRecord /\ hist'[c] = NoHistory
             \/ /\ ~ \E k \in ks : call[k].pc = "pv_insert" /\ call[k].change = c
                /\ record'[c] = record[c]
                /\ hist'[c].executed = hist[c].executed
                /\ hist'[c].undone = hist[c].undone
                /\ hist'[c].unsure <=>
                     \/ hist[c].unsure
                     \/ \E k \in ks : call[k].pc \in {"ap_commit", "rb_commit"} /\ call[k].change = c
  <2> DEFINE at(pc) == {call[k].change : k \in {j \in ks : call[j].pc = pc}}
  <2>1. /\ record'[c] = IF c \in at("pv_insert") THEN NoRecord ELSE record[c]
        /\ hist'[c] = IF c \in at("pv_insert") THEN NoHistory
                      ELSE [hist[c] EXCEPT !.unsure =
                                hist[c].unsure \/ c \in at("ap_commit") \cup at("rb_commit")]
    BY DEF Abort
  <2>2. ASSUME NEW pc
        PROVE  c \in at(pc) <=> \E k \in ks : call[k].pc = pc /\ call[k].change = c
    OBVIOUS
  <2>3. hist[c] \in History
    BY DEF TypeOK
  <2> DEFINE gone == c \in at("ap_commit") \cup at("rb_commit")
  <2>4. gone <=> \E k \in ks : call[k].pc \in {"ap_commit", "rb_commit"} /\ call[k].change = c
    BY <2>2
  <2> HIDE DEF at
  <2>5. CASE c \in at("pv_insert")
    BY <2>1, <2>2, <2>5
  <2>6. CASE c \notin at("pv_insert")
    <3>1. /\ hist'[c].executed = hist[c].executed /\ hist'[c].undone = hist[c].undone
          /\ hist'[c].unsure = (hist[c].unsure \/ gone)
      BY <2>1, <2>3, <2>6 DEF History
    <3>. QED  BY <2>1, <2>2, <2>4, <2>6, <3>1
  <2>. QED  BY <2>5, <2>6
<1>. QED  BY <1>1, <1>2, <1>3

(* The one record a commit changes, and what it keeps of it. *)
SameRecord(c) ==
    /\ record'[c].type = record[c].type /\ record'[c].op = record[c].op

OtherRecordsKept(c) == \A d \in Changes \ {c} : record'[d] = record[d]

(* The draft becomes a proposed change. *)
LEMMA PreviewInsertEffect ==
    ASSUME TypeOK, CallsInv, NEW k \in Calls, PreviewInsert(k)
    PROVE  LET c == call[k].change
           IN  /\ c \in Changes /\ call[k].pc = "pv_insert" /\ OthersKept(k) /\ Ended(k)
               /\ record'[c].status = "proposed" /\ SameRecord(c) /\ OtherRecordsKept(c)
               /\ record'[c].applied_at = record[c].applied_at
               /\ record'[c].expires = record[c].expires
               /\ UNCHANGED <<mode, now, snapshots, hist>>
<1>1. call[k].change \in Changes /\ record[call[k].change] \in ChangeRecord
  BY CallChange DEF PreviewInsert, TypeOK
<1>. QED
  BY <1>1 DEF PreviewInsert, TypeOK, ChangeRecord, IdleCall, OthersKept, Kept, Ended, SameRecord,
              OtherRecordsKept

(* The drift check lets the call go on or ends it. *)
LEMMA ApplyFetchEffect ==
    ASSUME TypeOK, NEW k \in Calls, ApplyFetch(k)
    PROVE  /\ call[k].pc = "ap_fetch" /\ OthersKept(k)
           /\ \/ Ended(k)
              \/ Moved(k, "ap_execute") /\ call'[k].dev \in Devices
           /\ UNCHANGED <<mode, now, record, snapshots, hist>>
<1>1. call \in [Calls -> Call] /\ binding \in Devices \cup {None}
  BY DEF TypeOK
<1>2. \/ call' = [call EXCEPT ![k] = IdleCall]
      \/ /\ call' = [call EXCEPT ![k] = [@ EXCEPT !.pc = "ap_execute", !.dev = binding]]
         /\ binding # None
  BY DEF ApplyFetch
<1>3. CASE call' = [call EXCEPT ![k] = IdleCall]
  <2>1. call'[k] = IdleCall /\ OthersKept(k)
    BY <1>1, <1>3 DEF OthersKept, Kept
  <2>2. Ended(k)
    BY <2>1 DEF IdleCall, Ended
  <2>3. call[k].pc = "ap_fetch" /\ UNCHANGED <<mode, now, record, snapshots, hist>>
    BY DEF ApplyFetch
  <2>. QED  BY <2>1, <2>2, <2>3
<1>4. CASE /\ call' = [call EXCEPT ![k] = [@ EXCEPT !.pc = "ap_execute", !.dev = binding]]
           /\ binding # None
  <2>1. call[k] \in Call
    BY <1>1
  <2>2. /\ call'[k] = [call[k] EXCEPT !.pc = "ap_execute", !.dev = binding]
        /\ OthersKept(k)
    BY <1>1, <1>4 DEF OthersKept, Kept
  <2>3. Moved(k, "ap_execute") /\ call'[k].dev \in Devices
    BY <1>1, <1>4, <2>1, <2>2 DEF Moved, Call
  <2>. QED  BY <2>2, <2>3 DEF ApplyFetch
<1>. QED  BY <1>2, <1>3, <1>4

(* The commit of apply(). *)
LEMMA ApplyCommitEffect ==
    ASSUME TypeOK, CallsInv, NEW k \in Calls, ApplyCommit(k)
    PROVE  LET c == call[k].change
           IN  /\ c \in Changes /\ call[k].pc = "ap_commit" /\ OthersKept(k) /\ Ended(k)
               /\ record'[c].status = "applied" /\ SameRecord(c) /\ OtherRecordsKept(c)
               /\ record'[c].applied_at = call[k].at
               /\ record'[c].expires = record[c].expires
               /\ snapshots'[c] = Bump(snapshots[c])
               /\ \A d \in Changes \ {c} : snapshots'[d] = snapshots[d]
               /\ UNCHANGED <<mode, now, hist>>
<1> DEFINE c == call[k].change
<1>1. c \in Changes /\ record[c] \in ChangeRecord
  BY CallChange DEF ApplyCommit, TypeOK
<1>2. OthersKept(k) /\ Ended(k)
  BY DEF ApplyCommit, TypeOK, IdleCall, OthersKept, Kept, Ended
<1>3. /\ snapshots'[c] = Bump(snapshots[c])
      /\ \A d \in Changes \ {c} : snapshots'[d] = snapshots[d]
  BY <1>1 DEF ApplyCommit, TypeOK
<1>. QED
  BY <1>1, <1>2, <1>3 DEF ApplyCommit, TypeOK, ChangeRecord, SameRecord, OtherRecordsKept

(* The commit of an expiry, or of rollback(). *)
LEMMA StatusCommitEffect ==
    ASSUME TypeOK, CallsInv, NEW k \in Calls, ExpireCommit(k) \/ RollbackCommit(k)
    PROVE  LET c == call[k].change
           IN  /\ c \in Changes /\ OthersKept(k) /\ Ended(k)
               /\ \/ ExpireCommit(k) /\ call[k].pc = "ex_commit"
                     /\ record'[c].status = "expired"
                  \/ RollbackCommit(k) /\ call[k].pc = "rb_commit"
                     /\ record'[c].status = "rolled_back"
               /\ SameRecord(c) /\ OtherRecordsKept(c)
               /\ record'[c].applied_at = record[c].applied_at
               /\ record'[c].expires = record[c].expires
               /\ UNCHANGED <<mode, now, snapshots, hist>>
<1>1. call[k].change \in Changes /\ record[call[k].change] \in ChangeRecord
  BY CallChange DEF ExpireCommit, RollbackCommit, TypeOK
<1>. QED
  BY <1>1 DEF ExpireCommit, RollbackCommit, TypeOK, ChangeRecord, IdleCall, OthersKept, Kept,
              Ended, SameRecord, OtherRecordsKept

(* A refused request ends its call. *)
LEMMA RejectedEffect ==
    ASSUME TypeOK, NEW k \in Calls, Rejected(k)
    PROVE  /\ call[k].pc \in {"ap_execute", "rb_execute"} /\ OthersKept(k) /\ Ended(k)
           /\ UNCHANGED <<mode, now, record, snapshots, hist>>
BY DEF Rejected, TypeOK, IdleCall, OthersKept, Kept, Ended

(* Every step is one of these. *)
LEMMA StepCases ==
    ASSUME TypeOK, [Next]_vars
    PROVE  \/ \E k \in Calls, s \in Servers, c \in Changes, q \in Requests : PreviewFetch(k, s, c, q)
           \/ \E k \in Calls, s \in Servers, c \in Changes :
                 ApplyLoad(k, s, c) \/ ApplyExpired(k, s, c) \/ RollbackLoad(k, s, c)
           \/ \E k \in Calls : PreviewInsert(k) \/ ApplyFetch(k) \/ ApplyExecute(k)
                 \/ ApplyCommit(k) \/ ExpireCommit(k) \/ RollbackExecute(k)
                 \/ RollbackCommit(k) \/ Rejected(k)
           \/ \E ks \in SUBSET Calls : Abort(ks) /\ UNCHANGED <<now, snapshots>>
                 /\ \A s \in Servers : mode'[s] = mode[s] \/ \A k \in Calls : call[k].srv = s => k \in ks
                 /\ Faults \cap {"cancel", "crash"} # {}
           \/ /\ \A j \in Calls : Kept(j)
              /\ UNCHANGED <<mode, record, snapshots, hist>>
<1>1. CASE Tick \/ Rebind \/ UNCHANGED vars
  BY <1>1 DEF Tick, Rebind, vars, Kept
<1>2. CASE Edit
  BY <1>2, EditEffect
<1>3. ASSUME NEW k \in Calls, Cancel(k)
      PROVE  \E ks \in SUBSET Calls : Abort(ks) /\ UNCHANGED <<now, snapshots>>
                 /\ \A s \in Servers :
                      mode'[s] = mode[s] \/ \A j \in Calls : call[j].srv = s => j \in ks
                 /\ Faults \cap {"cancel", "crash"} # {}
  <2>1. {k} \in SUBSET Calls /\ Abort({k})
    BY <1>3 DEF Cancel
  <2>. QED  BY <1>3, <2>1 DEF Cancel
<1>4. ASSUME NEW s \in Servers, Crash(s)
      PROVE  \E ks \in SUBSET Calls : Abort(ks) /\ UNCHANGED <<now, snapshots>>
                 /\ \A r \in Servers :
                      mode'[r] = mode[r] \/ \A k \in Calls : call[k].srv = r => k \in ks
                 /\ Faults \cap {"cancel", "crash"} # {}
  <2> DEFINE ks == {k \in Calls : call[k].srv = s}
  <2>1. ks \in SUBSET Calls /\ Abort(ks) /\ UNCHANGED <<now, snapshots>>
    BY <1>4 DEF Crash
  <2>2. \A r \in Servers : mode'[r] = mode[r] \/ \A k \in Calls : call[k].srv = r => k \in ks
    BY <1>4 DEF Crash, TypeOK
  <2> HIDE DEF ks
  <2>3. "crash" \in Faults
    BY <1>4 DEF Crash
  <2>. QED  BY <2>1, <2>2, <2>3
<1>5. CASE \E k \in Calls, s \in Servers, c \in Changes :
            \/ \E q \in Requests : PreviewFetch(k, s, c, q)
            \/ ApplyLoad(k, s, c) \/ ApplyExpired(k, s, c) \/ RollbackLoad(k, s, c)
  BY <1>5
<1>6. CASE \E k \in Calls : Proceed(k)
  BY <1>6 DEF Proceed
<1>. QED  BY <1>1, <1>2, <1>3, <1>4, <1>5, <1>6 DEF Next

(* Every step keeps calls and records together (CallsInv). *)
LEMMA CallsStep ==
    ASSUME TypeOK, CallsInv, [Next]_vars
    PROVE  CallsInv'
<1> USE DEF CallsInv, OnRecord, Applying
<1>1. ASSUME NEW k \in Calls, NEW s \in Servers, NEW c \in Changes, NEW q \in Requests,
             PreviewFetch(k, s, c, q)
      PROVE  CallsInv'
  BY <1>1, PreviewFetchEffect, EngineAssumption DEF OthersKept, Kept
<1>2. ASSUME NEW k \in Calls, NEW s \in Servers, NEW c \in Changes,
             ApplyLoad(k, s, c) \/ ApplyExpired(k, s, c) \/ RollbackLoad(k, s, c)
      PROVE  CallsInv'
  BY <1>2, LoadEffect, EngineAssumption DEF OthersKept, Kept
<1>3. ASSUME NEW k \in Calls, PreviewInsert(k) PROVE CallsInv'
  BY <1>3, PreviewInsertEffect, EngineAssumption
     DEF OthersKept, Kept, Ended, SameRecord, OtherRecordsKept
<1>4. ASSUME NEW k \in Calls, ApplyFetch(k) PROVE CallsInv'
  BY <1>4, ApplyFetchEffect, EngineAssumption DEF OthersKept, Kept, Ended, Moved
<1>5. ASSUME NEW k \in Calls, ApplyExecute(k) PROVE CallsInv'
  BY <1>5, ApplyExecuteEffect, EngineAssumption DEF OthersKept, Kept, Ended, Moved
<1>6. ASSUME NEW k \in Calls, ApplyCommit(k) PROVE CallsInv'
  BY <1>6, ApplyCommitEffect, EngineAssumption
     DEF OthersKept, Kept, Ended, SameRecord, OtherRecordsKept
<1>7. ASSUME NEW k \in Calls, ExpireCommit(k) \/ RollbackCommit(k) PROVE CallsInv'
  BY <1>7, StatusCommitEffect, EngineAssumption
     DEF OthersKept, Kept, Ended, SameRecord, OtherRecordsKept
<1>8. ASSUME NEW k \in Calls, RollbackExecute(k) PROVE CallsInv'
  BY <1>8, RollbackExecuteEffect, EngineAssumption DEF OthersKept, Kept, Ended, Moved
<1>9. ASSUME NEW k \in Calls, Rejected(k) PROVE CallsInv'
  BY <1>9, RejectedEffect, EngineAssumption DEF OthersKept, Kept, Ended
<1>10. ASSUME NEW ks \in SUBSET Calls, Abort(ks) PROVE CallsInv'
  BY <1>10, AbortEffect, EngineAssumption DEF Kept, Ended, NoRecord
<1>11. CASE (\A j \in Calls : Kept(j)) /\ record' = record
  BY <1>11 DEF Kept
<1>. QED
  BY <1>1, <1>2, <1>3, <1>4, <1>5, <1>6, <1>7, <1>8, <1>9, <1>10, <1>11, StepCases

-----------------------------------------------------------------------------
(* A call past the mode check stays in a process of that mode: only a restart
   changes the mode, and it ends the process's calls. *)
LEMMA PermittedStep ==
    ASSUME TypeOK, CallsInv, ApplyPermitted, [Next]_vars
    PROVE  ApplyPermitted'
<1> USE DEF CallsInv, OnRecord, Applying, ApplyPermitted, Permits
<1>1. ASSUME NEW k \in Calls, NEW s \in Servers, NEW c \in Changes, NEW q \in Requests,
             PreviewFetch(k, s, c, q)
      PROVE  ApplyPermitted'
  BY <1>1, PreviewFetchEffect DEF OthersKept, Kept
<1>2. ASSUME NEW k \in Calls, NEW s \in Servers, NEW c \in Changes,
             ApplyLoad(k, s, c) \/ ApplyExpired(k, s, c) \/ RollbackLoad(k, s, c)
      PROVE  ApplyPermitted'
  BY <1>2, LoadEffect DEF OthersKept, Kept
<1>3. ASSUME NEW k \in Calls, PreviewInsert(k) PROVE ApplyPermitted'
  BY <1>3, PreviewInsertEffect DEF OthersKept, Kept, Ended, SameRecord, OtherRecordsKept
<1>4. ASSUME NEW k \in Calls, ApplyFetch(k) PROVE ApplyPermitted'
  BY <1>4, ApplyFetchEffect DEF OthersKept, Kept, Ended, Moved
<1>5. ASSUME NEW k \in Calls, ApplyExecute(k) PROVE ApplyPermitted'
  BY <1>5, ApplyExecuteEffect DEF OthersKept, Kept, Ended, Moved
<1>6. ASSUME NEW k \in Calls, ApplyCommit(k) PROVE ApplyPermitted'
  BY <1>6, ApplyCommitEffect DEF OthersKept, Kept, Ended, SameRecord, OtherRecordsKept
<1>7. ASSUME NEW k \in Calls, ExpireCommit(k) \/ RollbackCommit(k) PROVE ApplyPermitted'
  BY <1>7, StatusCommitEffect DEF OthersKept, Kept, Ended, SameRecord, OtherRecordsKept
<1>8. ASSUME NEW k \in Calls, RollbackExecute(k) PROVE ApplyPermitted'
  BY <1>8, RollbackExecuteEffect DEF OthersKept, Kept, Ended, Moved
<1>9. ASSUME NEW k \in Calls, Rejected(k) PROVE ApplyPermitted'
  BY <1>9, RejectedEffect DEF OthersKept, Kept, Ended
<1>10. ASSUME NEW ks \in SUBSET Calls, Abort(ks),
              \A s \in Servers : mode'[s] = mode[s] \/ \A k \in Calls : call[k].srv = s => k \in ks
       PROVE  ApplyPermitted'
  BY <1>10, AbortEffect DEF Kept, Ended
<1>11. CASE (\A j \in Calls : Kept(j)) /\ record' = record /\ mode' = mode
  BY <1>11 DEF Kept
<1>. QED
  BY <1>1, <1>2, <1>3, <1>4, <1>5, <1>6, <1>7, <1>8, <1>9, <1>10, <1>11, StepCases

(* Only a call begun within the TTL sets applied_at, and to its beginning. *)
LEMMA TimeStep ==
    ASSUME TypeOK, CallsInv, TimeInv, [Next]_vars
    PROVE  TimeInv'
<1> USE DEF CallsInv, OnRecord, Applying, TimeInv, AppliedInTime
<1>1. ASSUME NEW k \in Calls, NEW s \in Servers, NEW c \in Changes, NEW q \in Requests,
             PreviewFetch(k, s, c, q)
      PROVE  TimeInv'
  BY <1>1, PreviewFetchEffect DEF OthersKept, Kept
<1>2. ASSUME NEW k \in Calls, NEW s \in Servers, NEW c \in Changes,
             ApplyLoad(k, s, c) \/ ApplyExpired(k, s, c) \/ RollbackLoad(k, s, c)
      PROVE  TimeInv'
  BY <1>2, LoadEffect DEF OthersKept, Kept
<1>3. ASSUME NEW k \in Calls, PreviewInsert(k) PROVE TimeInv'
  BY <1>3, PreviewInsertEffect DEF OthersKept, Kept, Ended, OtherRecordsKept
<1>4. ASSUME NEW k \in Calls, ApplyFetch(k) PROVE TimeInv'
  BY <1>4, ApplyFetchEffect DEF OthersKept, Kept, Ended, Moved
<1>5. ASSUME NEW k \in Calls, ApplyExecute(k) PROVE TimeInv'
  BY <1>5, ApplyExecuteEffect DEF OthersKept, Kept, Ended, Moved
<1>6. ASSUME NEW k \in Calls, ApplyCommit(k) PROVE TimeInv'
  BY <1>6, ApplyCommitEffect DEF OthersKept, Kept, Ended, OtherRecordsKept
<1>7. ASSUME NEW k \in Calls, ExpireCommit(k) \/ RollbackCommit(k) PROVE TimeInv'
  BY <1>7, StatusCommitEffect DEF OthersKept, Kept, Ended, OtherRecordsKept
<1>8. ASSUME NEW k \in Calls, RollbackExecute(k) PROVE TimeInv'
  BY <1>8, RollbackExecuteEffect DEF OthersKept, Kept, Ended, Moved
<1>9. ASSUME NEW k \in Calls, Rejected(k) PROVE TimeInv'
  BY <1>9, RejectedEffect DEF OthersKept, Kept, Ended
<1>10. ASSUME NEW ks \in SUBSET Calls, Abort(ks) PROVE TimeInv'
  BY <1>10, AbortEffect DEF Kept, Ended, NoRecord
<1>11. CASE (\A j \in Calls : Kept(j)) /\ record' = record
  BY <1>11 DEF Kept
<1>. QED
  BY <1>1, <1>2, <1>3, <1>4, <1>5, <1>6, <1>7, <1>8, <1>9, <1>10, <1>11, StepCases


(* Nothing that was done is forgotten, except with a draft. *)
LEMMA BackedStep ==
    ASSUME TypeOK, CallsInv, BackedInv, [Next]_vars
    PROVE  BackedInv'
<1> USE DEF CallsInv, OnRecord, Applying, BackedInv, ResolvedIsBacked
<1>0. \A c \in Changes : /\ hist[c].executed \in Count /\ hist[c].undone \in Count
                         /\ snapshots[c] \in Count
  BY DEF TypeOK, History
<1>1. ASSUME NEW k \in Calls, NEW s \in Servers, NEW c \in Changes, NEW q \in Requests,
             PreviewFetch(k, s, c, q)
      PROVE  BackedInv'
  BY <1>1, PreviewFetchEffect DEF OthersKept, Kept
<1>2. ASSUME NEW k \in Calls, NEW s \in Servers, NEW c \in Changes,
             ApplyLoad(k, s, c) \/ ApplyExpired(k, s, c) \/ RollbackLoad(k, s, c)
      PROVE  BackedInv'
  BY <1>2, LoadEffect DEF OthersKept, Kept
<1>3. ASSUME NEW k \in Calls, PreviewInsert(k) PROVE BackedInv'
  BY <1>3, PreviewInsertEffect DEF OthersKept, Kept, Ended, OtherRecordsKept
<1>4. ASSUME NEW k \in Calls, ApplyFetch(k) PROVE BackedInv'
  BY <1>4, ApplyFetchEffect DEF OthersKept, Kept, Ended, Moved
<1>5. ASSUME NEW k \in Calls, ApplyExecute(k) PROVE BackedInv'
  BY <1>0, <1>5, ApplyExecuteEffect, BumpType DEF OthersKept, Kept, Ended, Moved
<1>6. ASSUME NEW k \in Calls, ApplyCommit(k) PROVE BackedInv'
  BY <1>0, <1>6, ApplyCommitEffect, BumpType DEF OthersKept, Kept, Ended, OtherRecordsKept
<1>7. ASSUME NEW k \in Calls, ExpireCommit(k) \/ RollbackCommit(k) PROVE BackedInv'
  BY <1>7, StatusCommitEffect DEF OthersKept, Kept, Ended, OtherRecordsKept
<1>8. ASSUME NEW k \in Calls, RollbackExecute(k) PROVE BackedInv'
  BY <1>0, <1>8, RollbackExecuteEffect, BumpType DEF OthersKept, Kept, Ended, Moved
<1>9. ASSUME NEW k \in Calls, Rejected(k) PROVE BackedInv'
  BY <1>9, RejectedEffect DEF OthersKept, Kept, Ended
<1>10. ASSUME NEW ks \in SUBSET Calls, Abort(ks), snapshots' = snapshots PROVE BackedInv'
  BY <1>10, AbortEffect DEF Kept, Ended, NoRecord
<1>11. CASE (\A j \in Calls : Kept(j)) /\ UNCHANGED <<record, snapshots, hist>>
  BY <1>11 DEF Kept
<1>. QED
  BY <1>1, <1>2, <1>3, <1>4, <1>5, <1>6, <1>7, <1>8, <1>9, <1>10, <1>11, StepCases

(* With serial callers the status a call has read stands until its own commit. *)
LEMMA SerialStep ==
    ASSUME TypeOK, CallsInv, SerialInv, [Next]_vars
    PROVE  SerialInv'
<1> SUFFICES ASSUME SerialCallers PROVE SerialInv'
  BY DEF SerialInv
<1> USE DEF CallsInv, OnRecord, Applying, SerialInv, Deeds, InCommit
<1>0. Bump(0) = 1
  BY DEF Bump, Many
<1>1. ASSUME NEW k \in Calls, NEW s \in Servers, NEW c \in Changes, NEW q \in Requests,
             PreviewFetch(k, s, c, q)
      PROVE  SerialInv'
  <2>1. \A j \in Calls : call[j].change = c => call[j].pc = "idle"
    BY <1>1, PreviewFetchEffect DEF TypeOK, Call, PC
  <2>2. ASSUME NEW d \in Changes, ~hist'[d].unsure PROVE Deeds(d)'
    BY <1>1, <2>1, <2>2, PreviewFetchEffect DEF OthersKept, Kept
  <2>3. \A i, j \in Calls : call'[i].change = call'[j].change => i = j \/ call'[i].pc = "idle"
    BY <1>1, <2>1, PreviewFetchEffect, EngineAssumption DEF OthersKept, Kept
  <2>4. ASSUME NEW j \in Calls
        PROVE  /\ call'[j].pc \in Applying \cup {"ex_commit"} =>
                     record'[call'[j].change].status = "proposed"
               /\ call'[j].pc \in {"rb_execute", "rb_commit"} =>
                     record'[call'[j].change].status = "applied"
    BY <1>1, <2>1, PreviewFetchEffect DEF OthersKept, Kept
  <2>5. \A d \in Changes : record'[d].status \in {"absent", "draft"} => ~hist'[d].unsure
    BY <1>1, PreviewFetchEffect
  <2>. QED  BY <2>2, <2>3, <2>4, <2>5
<1>2. ASSUME NEW k \in Calls, NEW s \in Servers, NEW c \in Changes,
             ApplyLoad(k, s, c) \/ ApplyExpired(k, s, c) \/ RollbackLoad(k, s, c)
      PROVE  SerialInv'
  BY <1>2, LoadEffect DEF OthersKept, Kept
<1>3. ASSUME NEW k \in Calls, PreviewInsert(k) PROVE SerialInv'
  BY <1>3, PreviewInsertEffect DEF OthersKept, Kept, Ended, OtherRecordsKept
<1>4. ASSUME NEW k \in Calls, ApplyFetch(k) PROVE SerialInv'
  BY <1>4, ApplyFetchEffect DEF OthersKept, Kept, Ended, Moved
<1>5. ASSUME NEW k \in Calls, ApplyExecute(k) PROVE SerialInv'
  BY <1>0, <1>5, ApplyExecuteEffect DEF OthersKept, Kept, Ended, Moved
<1>6. ASSUME NEW k \in Calls, ApplyCommit(k) PROVE SerialInv'
  BY <1>0, <1>6, ApplyCommitEffect DEF OthersKept, Kept, Ended, OtherRecordsKept
<1>7. ASSUME NEW k \in Calls, ExpireCommit(k) \/ RollbackCommit(k) PROVE SerialInv'
  BY <1>7, StatusCommitEffect DEF OthersKept, Kept, Ended, OtherRecordsKept
<1>8. ASSUME NEW k \in Calls, RollbackExecute(k) PROVE SerialInv'
  BY <1>0, <1>8, RollbackExecuteEffect DEF OthersKept, Kept, Ended, Moved
<1>9. ASSUME NEW k \in Calls, Rejected(k) PROVE SerialInv'
  BY <1>9, RejectedEffect DEF OthersKept, Kept, Ended
<1>10. ASSUME NEW ks \in SUBSET Calls, Abort(ks), snapshots' = snapshots PROVE SerialInv'
  <2>1. \A j \in Calls \ ks : Kept(j)
    BY <1>10, AbortEffect
  <2>2. \A j \in ks : Ended(j)
    BY <1>10, AbortEffect
  <2>3. \A i, j \in Calls : call'[i].change = call'[j].change => i = j \/ call'[i].pc = "idle"
    BY <2>1, <2>2 DEF Kept, Ended
  <2>4. ASSUME NEW j \in Calls
        PROVE  /\ call'[j].pc \in Applying \cup {"ex_commit"} =>
                     record'[call'[j].change].status = "proposed"
               /\ call'[j].pc \in {"rb_execute", "rb_commit"} =>
                     record'[call'[j].change].status = "applied"
    BY <1>10, <2>1, <2>2, AbortEffect DEF Kept, Ended, NoRecord
  <2>5. ASSUME NEW c \in Changes
        PROVE  record'[c].status \in {"absent", "draft"} => ~hist'[c].unsure
    BY <1>10, AbortEffect DEF NoRecord, NoHistory
  <2>6. ASSUME NEW c \in Changes, ~hist'[c].unsure PROVE Deeds(c)'
    BY <1>10, <2>1, <2>2, <2>6, AbortEffect DEF Kept, Ended, NoRecord, NoHistory
  <2>. QED  BY <2>3, <2>4, <2>5, <2>6
<1>11. CASE (\A j \in Calls : Kept(j)) /\ UNCHANGED <<record, snapshots, hist>>
  BY <1>11 DEF Kept
<1>. QED
  BY <1>1, <1>2, <1>3, <1>4, <1>5, <1>6, <1>7, <1>8, <1>9, <1>10, <1>11, StepCases


-----------------------------------------------------------------------------
(* What the steps do to the contents the drift check compares.             *)

(* Call j goes on with the target and the record it had, and if its target
   was written, it is marked. *)
StaysPut(j) ==
    call'[j].pc = "ap_execute" =>
        /\ call[j].pc = "ap_execute" /\ call'[j].change = call[j].change
        /\ record'[call[j].change].op = record[call[j].change].op
        /\ record'[call[j].change].before = record[call[j].change].before
        /\ \/ call'[j].raced
           \/ /\ Target(j)' = Target(j) /\ store'[Target(j)] = store[Target(j)]
              /\ call'[j].raced = call[j].raced

(* The record and the history of change c are as before, its status aside. *)
SameStory(c) ==
    /\ record'[c].op = record[c].op /\ record'[c].before = record[c].before
    /\ hist'[c].executed = hist[c].executed /\ hist'[c].seen = hist[c].seen
    /\ hist'[c].preimage = hist[c].preimage /\ hist'[c].raced = hist[c].raced
    /\ record'[c].status \in {"absent", "draft"} => record[c].status \in {"absent", "draft"}

(* A write to the device marks the calls it concerns and leaves the others
   as they are. *)
LEMMA TouchPuts ==
    ASSUME TypeOK, NEW cs \in [Calls -> Call], NEW loc \in Locs, NEW val, NEW j \in Calls,
           cs[j] = call[j], call' = Touch(cs, loc), store' = [store EXCEPT ![loc] = val],
           record' = record
    PROVE  StaysPut(j)
<1> DEFINE here == /\ call[j].pc = "ap_execute"
                   /\ <<call[j].dev, record[call[j].change].type, call[j].rid>> = loc
<1>1. call'[j] = IF here THEN [call[j] EXCEPT !.raced = TRUE] ELSE call[j]
  BY DEF Touch
<1>2. call[j] \in Call
  BY DEF TypeOK
<1>3. CASE here
  BY <1>1, <1>2, <1>3 DEF StaysPut, Call
<1>4. CASE ~here
  <2>1. call'[j] = call[j] /\ (call[j].pc = "ap_execute" => Target(j) # loc)
    BY <1>1, <1>4 DEF Target
  <2>2. Target(j) # loc => store'[Target(j)] = store[Target(j)]
    BY DEF TypeOK
  <2>3. Target(j)' = Target(j)
    BY <2>1 DEF Target
  <2> QED BY <2>1, <2>2, <2>3 DEF StaysPut
<1> QED BY <1>3, <1>4

(* A call that is left alone, while the device and its record are too.     *)
LEMMA QuietPuts ==
    ASSUME NEW j \in Calls, call'[j] = call[j], store' = store,
           call[j].pc = "ap_execute" =>
               /\ record'[call[j].change].op = record[call[j].change].op
               /\ record'[call[j].change].before = record[call[j].change].before
               /\ record'[call[j].change].type = record[call[j].change].type
    PROVE  StaysPut(j)
BY DEF StaysPut, Target

(* An accepted update or delete writes the resource it names.              *)
LEMMA WritesTarget ==
    ASSUME NEW d, NEW type, NEW op, op \in {"update", "delete"}, NEW rid, NEW data,
           NEW w \in DeviceWrites(d, type, op, rid, data)
    PROVE  /\ w.loc = <<d, type, rid>>
           /\ op = "update" /\ data # None => w.val = data
<1>1. CASE store[<<d, type, rid>>] = None
  BY <1>1 DEF DeviceWrites
<1>2. CASE op = "delete" /\ store[<<d, type, rid>>] # None
  BY <1>2 DEF DeviceWrites
<1>3. CASE op = "update" /\ store[<<d, type, rid>>] # None
  BY <1>3 DEF DeviceWrites
<1> QED BY <1>1, <1>2, <1>3

(* apply()'s request writes one place; its caller is told, or gives up.    *)
LEMMA ApplyWrites ==
    ASSUME TypeOK, CallsInv, NEW k \in Calls, ApplyExecute(k)
    PROVE  \E loc \in Locs, v \in Call :
              /\ call' = Touch([call EXCEPT ![k] = v], loc)
              /\ \E val : store' = [store EXCEPT ![loc] = val]
<1> DEFINE c == call[k].change
           rec == record[c]
<1>1. /\ c \in Changes /\ rec.type \in Types /\ call[k].dev \in Devices
      /\ call[k].rid \in Ids \cup {None} /\ rec.after \in Data \cup {None}
      /\ call[k] \in Call
  BY DEF ApplyExecute, CallsInv, OnRecord, Applying, Call, ChangeRecord, TypeOK
<1>2. PICK w \in DeviceWrites(call[k].dev, rec.type, rec.op, call[k].rid, rec.after),
           answered \in BOOLEAN :
        /\ store' = [store EXCEPT ![w.loc] = w.val]
        /\ \E mkey \in {w.loc[3], None} :
              call' = Touch([call EXCEPT ![k] =
                  IF ~answered THEN IdleCall
                  ELSE [@ EXCEPT !.pc = "ap_commit",
                                 !.rid = IF rec.op = "create" /\ call[k].rid = None
                                         THEN mkey ELSE call[k].rid]], w.loc)
  BY DEF ApplyExecute
<1>3. w.loc \in Locs /\ w.loc[3] \in Ids \cup {None}
  BY <1>1, WritesType
<1>4. PICK mkey \in Ids \cup {None} :
        call' = Touch([call EXCEPT ![k] =
            IF ~answered THEN IdleCall
            ELSE [@ EXCEPT !.pc = "ap_commit",
                           !.rid = IF rec.op = "create" /\ call[k].rid = None
                                   THEN mkey ELSE call[k].rid]], w.loc)
  BY <1>2, <1>3
<1> DEFINE v == IF ~answered THEN IdleCall
                ELSE [call[k] EXCEPT !.pc = "ap_commit",
                           !.rid = IF rec.op = "create" /\ call[k].rid = None
                                   THEN mkey ELSE call[k].rid]
<1>5. v \in Call
  BY <1>1, BlankTypes DEF Call, PC
<1>6. call' = Touch([call EXCEPT ![k] = v], w.loc)
  BY <1>4
<1> HIDE DEF v
<1> QED BY <1>2, <1>3, <1>5, <1>6

(* So does rollback()'s.                                                   *)
LEMMA RollbackWrites ==
    ASSUME TypeOK, CallsInv, NEW k \in Calls, RollbackExecute(k)
    PROVE  \E loc \in Locs, v \in Call :
              /\ call' = Touch([call EXCEPT ![k] = v], loc)
              /\ \E val : store' = [store EXCEPT ![loc] = val]
<1> DEFINE c == call[k].change
           rec == record[c]
<1>1. /\ c \in Changes /\ rec.type \in Types /\ binding \in Devices
      /\ call[k].rid \in Ids \cup {None} /\ UndoData(c) \in Data \cup {None}
      /\ call[k] \in Call
  BY DEF RollbackExecute, CallsInv, OnRecord, Applying, Call, ChangeRecord, UndoData, TypeOK
<1>2. PICK w \in DeviceWrites(binding, rec.type, UndoOf(rec.op), call[k].rid, UndoData(c)),
           answered \in BOOLEAN :
        /\ store' = [store EXCEPT ![w.loc] = w.val]
        /\ call' = Touch([call EXCEPT ![k] =
              IF answered THEN [@ EXCEPT !.pc = "rb_commit", !.dev = binding]
                          ELSE IdleCall], w.loc)
  BY DEF RollbackExecute
<1>3. w.loc \in Locs
  BY <1>1, WritesType
<1> DEFINE v == IF answered THEN [call[k] EXCEPT !.pc = "rb_commit", !.dev = binding]
                ELSE IdleCall
<1>5. v \in Call
  BY <1>1, BlankTypes DEF Call, PC
<1>6. call' = Touch([call EXCEPT ![k] = v], w.loc)
  BY <1>2
<1> HIDE DEF v
<1> QED BY <1>2, <1>3, <1>5, <1>6

(* Every step lets a call stay put, except the drift check that sends it on. *)
LEMMA PutStep ==
    ASSUME TypeOK, CallsInv, [Next]_vars, NEW j \in Calls
    PROVE  StaysPut(j) \/ ApplyFetch(j)
<1>t. /\ call \in [Calls -> Call] /\ record \in [Changes -> ChangeRecord]
      /\ call[j].pc = "ap_execute" =>
            /\ call[j].change \in Changes
            /\ record[call[j].change].status \notin {"absent", "draft"}
  BY DEF TypeOK, CallsInv, OnRecord, Applying
<1>1. ASSUME NEW k \in Calls, NEW s \in Servers, NEW c \in Changes, NEW q \in Requests,
             PreviewFetch(k, s, c, q)
      PROVE  StaysPut(j)
  <2>1. CASE j = k
    BY <1>1, <2>1, PreviewFetchEffect DEF StaysPut
  <2>2. CASE j # k
    <3>1. call'[j] = call[j] /\ store' = store
      BY <1>1, <1>t, <2>2 DEF PreviewFetch
    <3>2. record[c].status = "absent" /\ \A d \in Changes \ {c} : record'[d] = record[d]
      BY <1>1, PreviewFetchEffect
    <3> QED BY <1>t, <3>1, <3>2, QuietPuts
  <2> QED BY <2>1, <2>2
<1>2. ASSUME NEW k \in Calls, NEW s \in Servers, NEW c \in Changes,
             ApplyLoad(k, s, c) \/ ApplyExpired(k, s, c) \/ RollbackLoad(k, s, c)
      PROVE  StaysPut(j)
  <2>1. CASE j = k
    BY <1>2, <2>1, LoadEffect DEF StaysPut
  <2>2. CASE j # k
    <3>1. call'[j] = call[j] /\ UNCHANGED <<store, record>>
      BY <1>2, <1>t, <2>2 DEF ApplyLoad, ApplyExpired, RollbackLoad
    <3> QED BY <3>1, QuietPuts
  <2> QED BY <2>1, <2>2
<1>3. ASSUME NEW k \in Calls,
             \/ PreviewInsert(k) \/ ApplyCommit(k) \/ ExpireCommit(k) \/ RollbackCommit(k)
             \/ Rejected(k) \/ (ApplyFetch(k) /\ j # k)
      PROVE  StaysPut(j)
  <2>1. CASE j = k
    <3>1. call' = [call EXCEPT ![k] = IdleCall]
      BY <1>3, <2>1 DEF PreviewInsert, ApplyCommit, ExpireCommit, RollbackCommit, Rejected
    <3>2. call'[j].pc = "idle"
      BY <2>1, <1>t, <3>1 DEF IdleCall
    <3> QED BY <3>2 DEF StaysPut
  <2>2. CASE j # k
    <3>1. store' = store
      BY <1>3 DEF PreviewInsert, ApplyCommit, ExpireCommit, RollbackCommit, Rejected, ApplyFetch
    <3>2. call'[j] = call[j]
      BY <1>3, <1>t, <2>2
         DEF PreviewInsert, ApplyCommit, ExpireCommit, RollbackCommit, Rejected, ApplyFetch
    <3>3. ASSUME NEW c \in Changes
          PROVE  /\ record'[c].op = record[c].op /\ record'[c].before = record[c].before
                 /\ record'[c].type = record[c].type
      <4> DEFINE same == /\ record'[c].op = record[c].op /\ record'[c].before = record[c].before
                         /\ record'[c].type = record[c].type
      <4>1. PreviewInsert(k) => same
        BY <1>t DEF PreviewInsert, ChangeRecord
      <4>2. ApplyCommit(k) => same
        BY <1>t DEF ApplyCommit, ChangeRecord
      <4>3. ExpireCommit(k) \/ RollbackCommit(k) => same
        BY <1>t DEF ExpireCommit, RollbackCommit, ChangeRecord
      <4>4. Rejected(k) \/ ApplyFetch(k) => same
        BY DEF Rejected, ApplyFetch
      <4> QED BY <1>3, <4>1, <4>2, <4>3, <4>4
    <3> QED BY <1>t, <3>1, <3>2, <3>3, QuietPuts
  <2> QED BY <2>1, <2>2
<1>4. ASSUME NEW k \in Calls, ApplyExecute(k) \/ RollbackExecute(k)
      PROVE  StaysPut(j)
  <2>1. CASE j = k
    BY <1>4, <2>1, ApplyExecuteEffect, RollbackExecuteEffect DEF StaysPut, Ended, Moved
  <2>2. CASE j # k
    <3>1. /\ call[k].change \in Changes /\ record[call[k].change].type \in Types
          /\ ApplyExecute(k) => call[k].dev \in Devices
          /\ RollbackExecute(k) => binding \in Devices
      BY <1>4 DEF CallsInv, OnRecord, Applying, ApplyExecute, RollbackExecute, TypeOK
    <3>2. PICK loc \in Locs, v \in Call :
             /\ call' = Touch([call EXCEPT ![k] = v], loc)
             /\ \E val : store' = [store EXCEPT ![loc] = val]
      <4>1. CASE ApplyExecute(k)
        BY <1>t, <3>1, <4>1, ApplyWrites
      <4>2. CASE RollbackExecute(k)
        BY <1>t, <3>1, <4>2, RollbackWrites
      <4> QED BY <1>4, <4>1, <4>2
    <3> DEFINE cs == [call EXCEPT ![k] = v]
    <3>3. cs \in [Calls -> Call] /\ cs[j] = call[j] /\ call' = Touch(cs, loc)
      BY <1>t, <2>2, <3>2
    <3>4. record' = record
      BY <1>4 DEF ApplyExecute, RollbackExecute
    <3> HIDE DEF cs
    <3> QED BY <3>2, <3>3, <3>4, TouchPuts
  <2> QED BY <2>1, <2>2
<1>5. CASE Edit
  <2>1. PICK d \in Devices, t \in Types, i \in Ids \cup {None}, v \in Data \cup {None} :
           /\ store' = [store EXCEPT ![<<d, t, i>>] = v]
           /\ call' = Touch(call, <<d, t, i>>)
    BY <1>5 DEF Edit
  <2>2. <<d, t, i>> \in Locs /\ record' = record
    BY <1>5 DEF Locs, Edit
  <2> QED BY <1>t, <2>1, <2>2, TouchPuts
<1>6. CASE Tick \/ Rebind \/ UNCHANGED vars
  BY <1>6, QuietPuts DEF Tick, Rebind, vars
<1>7. ASSUME NEW ks \in SUBSET Calls, Abort(ks), store' = store
      PROVE  StaysPut(j)
  <2>1. CASE j \in ks
    BY <1>7, <2>1, AbortEffect DEF StaysPut, Ended
  <2>2. CASE j \notin ks
    <3>1. call'[j] = call[j]
      BY <1>7, <2>2 DEF Abort
    <3>2. call[j].pc = "ap_execute" => record'[call[j].change] = record[call[j].change]
      BY <1>t, <1>7, AbortEffect DEF CallsInv
    <3> QED BY <1>7, <3>1, <3>2, QuietPuts
  <2> QED BY <2>1, <2>2
<1>8. ASSUME NEW k \in Calls, Cancel(k) PROVE StaysPut(j)
  BY <1>7, <1>8 DEF Cancel
<1>9. ASSUME NEW s \in Servers, Crash(s) PROVE StaysPut(j)
  BY <1>7, <1>9 DEF Crash
<1> QED
  BY <1>1, <1>2, <1>3, <1>4, <1>5, <1>6, <1>8, <1>9 DEF Next, Proceed

(* Every step leaves a change's story alone, begins it, ends it without a
   trace, or carries the change out. *)
LEMMA StoryStep ==
    ASSUME TypeOK, CallsInv, [Next]_vars, NEW c \in Changes
    PROVE  \/ SameStory(c)
           \/ record'[c] = NoRecord /\ hist'[c] = NoHistory
           \/ \E k \in Calls, s \in Servers, q \in Requests : PreviewFetch(k, s, c, q)
           \/ \E k \in Calls : ApplyExecute(k) /\ call[k].change = c
<1>t. /\ record \in [Changes -> ChangeRecord] /\ hist \in [Changes -> History]
      /\ record[c] \in ChangeRecord /\ hist[c] \in History
  BY DEF TypeOK
<1>1. ASSUME NEW k \in Calls, NEW s \in Servers, NEW d \in Changes, NEW q \in Requests,
             PreviewFetch(k, s, d, q), d # c
      PROVE  SameStory(c)
  BY <1>1, <1>t DEF PreviewFetch, SameStory
<1>2. ASSUME UNCHANGED <<record, hist>>
      PROVE  SameStory(c)
  BY <1>2 DEF SameStory
<1>3. ASSUME NEW k \in Calls,
             PreviewInsert(k) \/ ApplyCommit(k) \/ ExpireCommit(k) \/ RollbackCommit(k)
      PROVE  SameStory(c)
  <2>1. CASE PreviewInsert(k)
    BY <1>t, <2>1 DEF PreviewInsert, SameStory, ChangeRecord
  <2>2. CASE ApplyCommit(k)
    BY <1>t, <2>2 DEF ApplyCommit, SameStory, ChangeRecord
  <2>3. CASE ExpireCommit(k) \/ RollbackCommit(k)
    BY <1>t, <2>3 DEF ExpireCommit, RollbackCommit, SameStory, ChangeRecord
  <2> QED BY <1>3, <2>1, <2>2, <2>3
<1>4. ASSUME NEW k \in Calls, ApplyExecute(k), call[k].change # c
      PROVE  SameStory(c)
  BY <1>4, <1>t DEF ApplyExecute, SameStory
<1>5. ASSUME NEW k \in Calls, RollbackExecute(k)
      PROVE  SameStory(c)
  BY <1>5, <1>t DEF RollbackExecute, SameStory, History
<1>6. ASSUME NEW ks \in SUBSET Calls, Abort(ks)
      PROVE  SameStory(c) \/ (record'[c] = NoRecord /\ hist'[c] = NoHistory)
  <2> DEFINE gone == \E k \in ks : call[k].pc = "pv_insert" /\ call[k].change = c
  <2>1. gone => record'[c] = NoRecord /\ hist'[c] = NoHistory
    BY <1>6, AbortEffect
  <2>2. CASE ~gone
    <3>1. record'[c] = record[c]
      BY <1>6, <2>2, AbortEffect
    <3>2. PICK unsure : hist'[c] = [hist[c] EXCEPT !.unsure = unsure]
      BY <1>6, <2>2 DEF Abort
    <3> QED BY <1>t, <3>1, <3>2 DEF SameStory, History
  <2> QED BY <2>1, <2>2
<1>7. CASE Tick \/ Edit \/ Rebind \/ UNCHANGED vars
  BY <1>2, <1>7 DEF Tick, Edit, Rebind, vars
<1>8. ASSUME NEW k \in Calls, NEW s \in Servers, NEW d \in Changes,
             ApplyLoad(k, s, d) \/ ApplyExpired(k, s, d) \/ RollbackLoad(k, s, d)
      PROVE  SameStory(c)
  BY <1>2, <1>8 DEF ApplyLoad, ApplyExpired, RollbackLoad
<1>9. ASSUME NEW k \in Calls, ApplyFetch(k) \/ Rejected(k)
      PROVE  SameStory(c)
  BY <1>2, <1>9 DEF ApplyFetch, Rejected
<1>10. ASSUME NEW k \in Calls, Cancel(k)
       PROVE  SameStory(c) \/ (record'[c] = NoRecord /\ hist'[c] = NoHistory)
  BY <1>6, <1>10 DEF Cancel
<1>11. ASSUME NEW s \in Servers, Crash(s)
       PROVE  SameStory(c) \/ (record'[c] = NoRecord /\ hist'[c] = NoHistory)
  BY <1>6, <1>11 DEF Crash
<1> QED
  BY <1>1, <1>3, <1>4, <1>5, <1>7, <1>8, <1>9, <1>10, <1>11 DEF Next, Proceed

(* What a change's story must be for DriftInv.                             *)
Told(c) ==
    /\ Guarded(c) /\ hist[c].executed > 0 /\ ~hist[c].raced =>
          hist[c].preimage = hist[c].seen /\ hist[c].preimage = record[c].before
    /\ record[c].status \in {"absent", "draft"} => hist[c].executed = 0
    /\ Guarded(c) => record[c].before = hist[c].seen

(* An apply past its drift check has in front of it what was previewed.    *)
Undisturbed(k) ==
    call[k].pc = "ap_execute" /\ Guarded(call[k].change) /\ ~call[k].raced =>
        store[Target(k)] = record[call[k].change].before

LEMMA DriftParts == DriftInv <=> (\A c \in Changes : Told(c)) /\ (\A k \in Calls : Undisturbed(k))
BY DEF DriftInv, Told, Undisturbed, ExecutesWhatWasPreviewed

(* What the preview read is what the change starts from.                   *)
LEMMA PreviewTold ==
    ASSUME TypeOK, NEW k \in Calls, NEW s \in Servers, NEW c \in Changes, NEW q \in Requests,
           PreviewFetch(k, s, c, q), Told(c)
    PROVE  Told(c)'
<1>1. PICK current \in FetchCurrent(binding, q.type, q.rid) :
         record' = [record EXCEPT ![c] = NewRecord(q, current)]
  BY DEF PreviewFetch
<1>2. hist'[c].executed = 0
  BY PreviewFetchEffect DEF Told
<1>3. hist'[c].seen = store[<<binding, q.type, q.rid>>]
  BY DEF PreviewFetch, TypeOK, History
<1>4. record'[c].before = current
  BY <1>1 DEF TypeOK, NewRecord, NoRecord
<1>5. current # None => current = store[<<binding, q.type, q.rid>>]
  BY DEF FetchCurrent
<1>6. Guarded(c)' => record'[c].before = hist'[c].seen
  BY <1>3, <1>4, <1>5 DEF Guarded
<1> QED BY <1>2, <1>6 DEF Told

(* What the request replaces is what the preview read, unless somebody     *)
(* wrote since the drift check.                                            *)
LEMMA ExecuteTold ==
    ASSUME TypeOK, CallsInv, NEW k \in Calls, NEW c \in Changes, call[k].change = c,
           ApplyExecute(k), Undisturbed(k), Told(c)
    PROVE  Told(c)'
<1> DEFINE rec == record[call[k].change]
<1>1. /\ call[k].pc = "ap_execute" /\ record' = record
      /\ rec.status \notin {"absent", "draft"} /\ hist \in [Changes -> History]
  BY DEF ApplyExecute, CallsInv, OnRecord, Applying, TypeOK
<1>2. PICK w \in DeviceWrites(call[k].dev, rec.type, rec.op, call[k].rid, rec.after) :
        \E unsure : hist' = [hist EXCEPT ![call[k].change] =
            [hist[call[k].change] EXCEPT !.executed = Bump(hist[call[k].change].executed),
                            !.preimage = store[w.loc],
                            !.raced = call[k].raced, !.unsure = unsure]]
  BY DEF ApplyExecute
<1>3. hist'[c].preimage = store[w.loc] /\ hist'[c].raced = call[k].raced
      /\ hist'[c].seen = hist[c].seen
  BY <1>1, <1>2 DEF History
<1>4. Guarded(c) => w.loc = Target(k)
  <2>1. SUFFICES ASSUME rec.op \in {"update", "delete"} PROVE w.loc = Target(k)
    BY DEF Guarded
  <2>2. w.loc = <<call[k].dev, rec.type, call[k].rid>>
    <3>1. CASE rec.op = "update"
      BY <3>1, <1>2, WritesTarget
    <3>2. CASE rec.op = "delete"
      BY <3>2, <1>2, WritesTarget
    <3> QED BY <2>1, <3>1, <3>2
  <2> QED BY <2>2 DEF Target
<1>5. Guarded(c)' = Guarded(c)
  BY <1>1 DEF Guarded
<1>6. Guarded(c) /\ ~hist'[c].raced => hist'[c].preimage = rec.before
  BY <1>1, <1>3, <1>4 DEF Undisturbed
<1>7. Guarded(c) => rec.before = hist'[c].seen
  BY <1>3 DEF Told
<1> QED BY <1>1, <1>5, <1>6, <1>7 DEF Told

(* A call passes its drift check on what is there, if it could look.       *)
LEMMA FetchFinds ==
    ASSUME TypeOK, CallsInv, NEW k \in Calls, ApplyFetch(k)
    PROVE  Undisturbed(k)'
<1>1. /\ call[k] \in Call /\ record' = record /\ store' = store /\ call \in [Calls -> Call]
  BY DEF ApplyFetch, TypeOK
<1>2. CASE call' = [call EXCEPT ![k] = IdleCall]
  BY <1>1, <1>2 DEF Undisturbed, IdleCall
<1>3. CASE ~(call' = [call EXCEPT ![k] = IdleCall])
  <2>1. PICK current \in FetchCurrent(binding, record[call[k].change].type, call[k].rid) :
           /\ ~Drifted(current, call[k].change)
           /\ call' = [call EXCEPT ![k] = [@ EXCEPT !.pc = "ap_execute", !.dev = binding]]
    BY <1>3 DEF ApplyFetch
  <2>2. /\ call'[k].change = call[k].change /\ call'[k].dev = binding
        /\ call'[k].rid = call[k].rid
    BY <1>1, <2>1 DEF Call
  <2>3. current = record[call[k].change].before
    BY <2>1 DEF Drifted
  <2>4. current # None =>
           current = store[<<binding, record[call[k].change].type, call[k].rid>>]
    BY <2>1 DEF FetchCurrent
  <2> QED BY <1>1, <2>2, <2>3, <2>4 DEF Undisturbed, Target, Guarded
<1> QED BY <1>2, <1>3

(* Every step keeps what DriftInv says.                                    *)
LEMMA DriftStep == TypeOK /\ CallsInv /\ DriftInv /\ [Next]_vars => DriftInv'
<1> SUFFICES ASSUME TypeOK, CallsInv, DriftInv, [Next]_vars PROVE DriftInv'
  OBVIOUS
<1>1. ASSUME NEW c \in Changes PROVE Told(c)'
  <2>0. Told(c)
    BY DriftParts
  <2>1. CASE SameStory(c)
    BY <2>0, <2>1 DEF Told, SameStory, Guarded
  <2>2. CASE record'[c] = NoRecord /\ hist'[c] = NoHistory
    BY <2>2 DEF Told, Guarded, NoRecord, NoHistory
  <2>3. ASSUME NEW k \in Calls, ApplyExecute(k), call[k].change = c PROVE Told(c)'
    <3>1. Undisturbed(k)
      BY DriftParts
    <3> QED BY <2>0, <2>3, <3>1, ExecuteTold
  <2> QED BY <2>0, <2>1, <2>2, <2>3, StoryStep, PreviewTold
<1>2. ASSUME NEW j \in Calls PROVE Undisturbed(j)'
  <2>1. CASE ApplyFetch(j)
    BY <2>1, FetchFinds
  <2>2. CASE StaysPut(j)
    <3>1. Undisturbed(j)
      BY DriftParts
    <3> QED BY <2>2, <3>1 DEF StaysPut, Undisturbed, Guarded
  <2> QED BY <2>1, <2>2, PutStep
<1>3. DriftInv' <=> (\A c \in Changes : Told(c)') /\ (\A k \in Calls : Undisturbed(k)')
  BY DEF DriftInv, Told, Undisturbed, ExecutesWhatWasPreviewed
<1> QED BY <1>1, <1>2, <1>3

-----------------------------------------------------------------------------
(* In a system just started nothing is in progress and nothing on record.  *)
LEMMA InvariantInit == Init => IInv
<1> SUFFICES ASSUME Init PROVE IInv
  OBVIOUS
<1>1. TypeOK
  BY TypeInit
<1>2. /\ \A c \in Changes : record[c] = NoRecord /\ hist[c] = NoHistory /\ snapshots[c] = 0
      /\ \A k \in Calls : call[k] = IdleCall
  BY DEF Init
<1>3. CallsInv /\ ApplyPermitted /\ TimeInv /\ BackedInv
  BY <1>2 DEF CallsInv, ApplyPermitted, TimeInv, AppliedInTime, BackedInv, ResolvedIsBacked,
              OnRecord, Applying, NoRecord, IdleCall
<1>4. SerialInv
  BY <1>2 DEF SerialInv, Deeds, InCommit, Applying, NoRecord, NoHistory, IdleCall
<1>5. DriftInv
  BY <1>2 DEF DriftInv, ExecutesWhatWasPreviewed, Guarded, NoRecord, NoHistory, IdleCall
<1>. QED  BY <1>1, <1>3, <1>4, <1>5 DEF IInv

(* Every step keeps all of what ChangeInvariants says.                     *)
LEMMA InvariantStep == IInv /\ [Next]_vars => IInv'
<1> SUFFICES ASSUME IInv, [Next]_vars PROVE IInv'
  OBVIOUS
<1>. QED
  BY TypeStep, CallsStep, PermittedStep, TimeStep, BackedStep, SerialStep, DriftStep DEF IInv

(* All of what ChangeInvariants says is true at every await of every call. *)
THEOREM Invariance == Spec => []IInv
<1>1. Init => IInv
  BY InvariantInit
<1>2. IInv /\ [Next]_vars => IInv'
  BY InvariantStep
<1>. QED  BY <1>1, <1>2, PTL DEF Spec

(* The rows, the calls and the history keep their types.                   *)
THEOREM TypeCorrect == Spec => []TypeOK
<1>1. IInv => TypeOK
  BY DEF IInv
<1>. QED  BY <1>1, Invariance, PTL

(* ChangeService.apply works on a change only in a process whose           *)
(* OPERATING_MODE permits it, whatever mode it was previewed under.        *)
THEOREM PermittedOnly == Spec => []ApplyPermitted
<1>1. IInv => ApplyPermitted
  BY DEF IInv
<1>. QED  BY <1>1, Invariance, PTL

(* applied_at never lies after expires_at, however slow the device and     *)
(* whichever calls overlapped.                                             *)
THEOREM InTime == Spec => []AppliedInTime
<1>1. IInv => AppliedInTime
  BY DEF IInv, TimeInv
<1>. QED  BY <1>1, Invariance, PTL

(* A ChangeRecord says applied, or rolled back, only of what the device    *)
(* did, with the snapshot to show for it, despite overlapping calls, lost  *)
(* answers, cancellations and crashes.                                     *)
THEOREM Backed == Spec => []ResolvedIsBacked
<1>1. IInv => ResolvedIsBacked
  BY DEF IInv, BackedInv
<1>. QED  BY <1>1, Invariance, PTL

(* With clients that await each answer, the device repeats a change or its *)
(* undoing only after an answer, or the commit following it, was lost.     *)
THEOREM OnceUnlessUnsure == Spec => []RepeatedOnlyIfUnsure
<1>1. IInv => RepeatedOnlyIfUnsure
  BY DEF IInv, SerialInv, Deeds, RepeatedOnlyIfUnsure, Many
<1>. QED  BY <1>1, Invariance, PTL

(* An update or delete is carried out on the state that was read at the    *)
(* preview, unless somebody wrote between drift check and request, and     *)
(* that state is in before_json.                                           *)
THEOREM DriftIsNoticed == Spec => []ExecutesWhatWasPreviewed
<1>1. IInv => ExecutesWhatWasPreviewed
  BY DEF IInv, DriftInv
<1>. QED  BY <1>1, Invariance, PTL

(* A call comes to the commit of a rollback by executing it only.          *)
LEMMA UndoSteps ==
    ASSUME TypeOK, CallsInv, [Next]_vars, NEW k \in Calls,
           call[k].pc = "rb_execute", call'[k].pc = "rb_commit"
    PROVE  RollbackExecute(k)
<1>1. ~Kept(k)
  BY DEF Kept
<1>2. ASSUME NEW j \in Calls, OthersKept(j) PROVE j = k
  BY <1>1, <1>2 DEF OthersKept
<1>3. ASSUME NEW j \in Calls, NEW s \in Servers, NEW c \in Changes, NEW q \in Requests,
             PreviewFetch(j, s, c, q)
      PROVE  FALSE
  BY <1>2, <1>3, PreviewFetchEffect
<1>4. ASSUME NEW j \in Calls, NEW s \in Servers, NEW c \in Changes,
             ApplyLoad(j, s, c) \/ ApplyExpired(j, s, c) \/ RollbackLoad(j, s, c)
      PROVE  FALSE
  BY <1>2, <1>4, LoadEffect
<1>5. ASSUME NEW j \in Calls,
             \/ PreviewInsert(j) \/ ApplyFetch(j) \/ ApplyExecute(j) \/ ApplyCommit(j)
             \/ ExpireCommit(j) \/ RollbackCommit(j) \/ Rejected(j)
      PROVE  FALSE
  <2>1. OthersKept(j) /\ (Ended(j) \/ call[j].pc # "rb_execute")
    BY <1>5, PreviewInsertEffect, ApplyFetchEffect, ApplyExecuteEffect, ApplyCommitEffect,
       StatusCommitEffect, RejectedEffect
  <2> QED BY <1>2, <2>1 DEF Ended
<1>6. ASSUME NEW ks \in SUBSET Calls, Abort(ks) PROVE FALSE
  BY <1>1, <1>6, AbortEffect DEF Ended
<1>7. ASSUME NEW j \in Calls, RollbackExecute(j) PROVE j = k
  BY <1>2, <1>7, RollbackExecuteEffect
<1> QED BY <1>1, <1>3, <1>4, <1>5, <1>6, <1>7, StepCases

(* Rolling an undisturbed update back puts what it replaced back where it  *)
(* was.                                                                    *)
THEOREM RollbackPutsBack == Spec => RollbackRestores
<1>1. ASSUME IInv, [Next]_vars
      PROVE  [\A k \in Calls :
                LET c == call[k].change
                    l == <<binding, record[c].type, call[k].rid>>
                IN  /\ call[k].pc = "rb_execute" /\ call'[k].pc = "rb_commit"
                    /\ record[c].op = "update" /\ Guarded(c) /\ ~hist[c].raced
                    => store'[l] = hist[c].preimage]_vars
  <2> USE <1>1 DEF IInv
  <2>1. ASSUME NEW k \in Calls, call[k].pc = "rb_execute", call'[k].pc = "rb_commit",
               record[call[k].change].op = "update", Guarded(call[k].change),
               ~hist[call[k].change].raced
        PROVE  store'[<<binding, record[call[k].change].type, call[k].rid>>]
                   = hist[call[k].change].preimage
    <3> DEFINE c == call[k].change
               l == <<binding, record[c].type, call[k].rid>>
    <3>1. RollbackExecute(k)
      BY <2>1, UndoSteps
    <3>2. c \in Changes /\ hist[c].executed > 0 /\ record[c].type \in Types
      BY <2>1 DEF BackedInv, CallsInv, OnRecord
    <3>3. hist[c].preimage = record[c].before /\ record[c].before # None
      BY <2>1, <3>2 DEF DriftInv, ExecutesWhatWasPreviewed, Guarded
    <3>4. PICK w \in DeviceWrites(binding, record[c].type, "update", call[k].rid, record[c].before) :
             store' = [store EXCEPT ![w.loc] = w.val]
      BY <2>1, <3>1 DEF RollbackExecute, UndoOf, UndoData
    <3>5. w.loc = l /\ w.val = record[c].before
      BY <3>3, <3>4, WritesTarget
    <3>6. l \in Locs /\ store \in [Locs -> Data \cup {None}]
      BY <3>1, <3>2 DEF RollbackExecute, TypeOK, Locs, Call
    <3> QED BY <3>3, <3>4, <3>5, <3>6
  <2> QED BY <2>1
<1> QED BY <1>1, Invariance, PTL DEF Spec, RollbackRestores


(* No service offers a change that execute() would refuse once it is       *)
(* approved, or that rollback() would find no method to undo.              *)
THEOREM OfferedIsDoable ==
    \A o \in Offered : Supports(o[1], o[2]) /\ Supports(o[1], UndoOf(o[2]))
<1> SUFFICES ASSUME NEW o \in Offered
             PROVE  Supports(o[1], o[2]) /\ Supports(o[1], UndoOf(o[2]))
  OBVIOUS
<1> USE DEF OperationType, ResourceOps, ResourceTypes, Singletons, Getterless, FullyKeyed,
            Supports, UndoOf
<1>1. CASE o \in PolicyService
  BY <1>1 DEF PolicyService
<1>2. CASE o \in NetworkService
  BY <1>2 DEF NetworkService
<1>3. CASE o \in RoutingService
  BY <1>3 DEF RoutingService
<1>4. CASE o \in VipService
  BY <1>4 DEF VipService
<1>5. CASE o \in VpnService
  BY <1>5 DEF VpnService
<1>6. CASE o \in SystemService
  BY <1>6 DEF SystemService
<1>7. CASE o \in VdomService
  BY <1>7 DEF VdomService
<1>. QED  BY <1>1, <1>2, <1>3, <1>4, <1>5, <1>6, <1>7 DEF Offered

=============================================================================
