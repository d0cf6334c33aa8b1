----------------------- MODULE ChangeRefinementProofs -----------------------
(***************************************************************************)
(* ChangeEngine implements ChangeLifecycle when clients await each answer  *)
(* and every answer arrives.                                               *)
(***************************************************************************)
EXTENDS ChangeEngineProofs

Reliable == SerialCallers /\ Faults \cap {"lost", "cancel", "crash"} = {}

(* No answer and no commit is ever missing. *)
Sure == \A c \in Changes : ~hist[c].unsure

(* A step of ChangeEngine, seen as what it does to one change. *)
Same(c) ==
    /\ PhaseOf(c)' = PhaseOf(c)
    /\ hist'[c].executed = hist[c].executed
    /\ hist'[c].undone = hist[c].undone

Becomes(c, from, to, executions, undoings) ==
    /\ PhaseOf(c) = from /\ PhaseOf(c)' = to
    /\ hist'[c].executed = hist[c].executed + executions
    /\ hist'[c].undone = hist[c].undone + undoings
    /\ \A d \in Changes \ {c} : Same(d)

OneChange ==
    \/ \A c \in Changes : Same(c)
    \/ \E c \in Changes :
          \/ Becomes(c, "absent", "proposed", 0, 0)
          \/ Becomes(c, "proposed", "applied", 1, 0)
          \/ Becomes(c, "proposed", "expired", 0, 0)
          \/ Becomes(c, "applied", "rolled_back", 0, 1)

(* The steps of a system in which no call is cut short.                    *)
LEMMA ReliableCases ==
    ASSUME Reliable, IInv, [Next]_vars
    PROVE  \/ \E k \in Calls, s \in Servers, c \in Changes, q \in Requests : PreviewFetch(k, s, c, q)
           \/ \E k \in Calls, s \in Servers, c \in Changes :
                 ApplyLoad(k, s, c) \/ ApplyExpired(k, s, c) \/ RollbackLoad(k, s, c)
           \/ \E k \in Calls : Proceed(k)
           \/ (\A j \in Calls : Kept(j)) /\ UNCHANGED <<record, hist>>
<1>1. TypeOK /\ "cancel" \notin Faults /\ "crash" \notin Faults
  BY DEF Reliable, IInv
<1>2. CASE Tick \/ Rebind \/ UNCHANGED vars
  BY <1>2 DEF Tick, Rebind, vars, Kept
<1>3. CASE Edit
  BY <1>1, <1>3, EditEffect
<1>4. ~ (\E k \in Calls : Cancel(k)) /\ ~ (\E s \in Servers : Crash(s))
  BY <1>1 DEF Cancel, Crash
<1>. QED  BY <1>2, <1>3, <1>4 DEF Next

(* Reliable calls leave nothing unsure.                                    *)
LEMMA SureStep ==
    ASSUME Reliable, IInv, Sure, [Next]_vars
    PROVE  Sure'
<1>a. TypeOK /\ CallsInv
  BY DEF IInv
<1>b. Faults \cap {"cancel", "crash"} = {} /\ "lost" \notin Faults
  BY DEF Reliable
<1>1. ASSUME NEW k \in Calls, NEW s \in Servers, NEW c \in Changes, NEW q \in Requests,
             PreviewFetch(k, s, c, q)
      PROVE  Sure'
  BY <1>1, <1>a, PreviewFetchEffect DEF Sure
<1>2. ASSUME NEW k \in Calls, NEW s \in Servers, NEW c \in Changes,
             ApplyLoad(k, s, c) \/ ApplyExpired(k, s, c) \/ RollbackLoad(k, s, c)
      PROVE  Sure'
  BY <1>2, <1>a, LoadEffect DEF Sure
<1>3. ASSUME NEW k \in Calls, PreviewInsert(k) PROVE Sure'
  BY <1>3, <1>a, PreviewInsertEffect DEF Sure
<1>4. ASSUME NEW k \in Calls, ApplyFetch(k) PROVE Sure'
  BY <1>4, <1>a, ApplyFetchEffect DEF Sure
<1>5. ASSUME NEW k \in Calls, ApplyExecute(k) PROVE Sure'
  BY <1>5, <1>a, <1>b, ApplyExecuteEffect DEF Sure
<1>6. ASSUME NEW k \in Calls, ApplyCommit(k) PROVE Sure'
  BY <1>6, <1>a, ApplyCommitEffect DEF Sure
<1>7. ASSUME NEW k \in Calls, ExpireCommit(k) \/ RollbackCommit(k) PROVE Sure'
  BY <1>7, <1>a, StatusCommitEffect DEF Sure
<1>8. ASSUME NEW k \in Calls, RollbackExecute(k) PROVE Sure'
  BY <1>8, <1>a, <1>b, RollbackExecuteEffect DEF Sure
<1>9. ASSUME NEW k \in Calls, Rejected(k) PROVE Sure'
  BY <1>9, <1>a, RejectedEffect DEF Sure
<1>10. CASE UNCHANGED hist
  BY <1>10 DEF Sure
<1>12. ASSUME NEW k \in Calls, Proceed(k) PROVE Sure'
  BY <1>12, <1>3, <1>4, <1>5, <1>6, <1>7, <1>8, <1>9 DEF Proceed
<1>. QED  BY <1>1, <1>2, <1>10, <1>12, ReliableCases

(* The phase of a change only one call is about.                           *)
LEMMA PhaseOfCall ==
    ASSUME Reliable, IInv, NEW k \in Calls, call[k].pc # "idle"
    PROVE  PhaseOf(call[k].change) =
              IF call[k].pc = "ap_commit" THEN "applied"
              ELSE IF call[k].pc = "rb_commit" THEN "rolled_back"
              ELSE IF call[k].pc = "pv_insert" THEN "absent"
              ELSE record[call[k].change].status
<1> DEFINE c == call[k].change
<1>1. \A j \in Calls : call[j].change = c => j = k \/ call[j].pc = "idle"
  BY DEF Reliable, IInv, SerialInv
<1>2. \A pc \in {"ap_commit", "rb_commit"} : InCommit(c, pc) <=> call[k].pc = pc
  BY <1>1 DEF InCommit
<1>3. call[k].pc \in OnRecord \/ call[k].pc = "pv_insert"
  BY DEF IInv, TypeOK, Call, PC, OnRecord, Applying
<1>4. record[c].status = "draft" <=> call[k].pc = "pv_insert"
  BY <1>3 DEF IInv, CallsInv
<1> HIDE DEF c
<1>. QED  BY <1>2, <1>4 DEF PhaseOf, c


(* A change nothing happens to keeps its phase.                            *)
LEMMA PhaseKept ==
    ASSUME NEW c \in Changes, record'[c] = record[c],
           \A j \in Calls : \A pc \in {"ap_commit", "rb_commit"} :
              (call'[j].change = c /\ call'[j].pc = pc) <=> (call[j].change = c /\ call[j].pc = pc)
    PROVE  PhaseOf(c)' = PhaseOf(c)
<1>1. \A pc \in {"ap_commit", "rb_commit"} : InCommit(c, pc)' <=> InCommit(c, pc)
  BY DEF InCommit
<1>. QED  BY <1>1 DEF PhaseOf

(* Other changes than the one a call is about keep their phase.            *)
LEMMA OthersSame ==
    ASSUME NEW k \in Calls, OthersKept(k), Ended(k) \/ call'[k].change = call[k].change,
           NEW d \in Changes, d # call[k].change, None \notin Changes,
           record'[d] = record[d], hist'[d] = hist[d]
    PROVE  Same(d)
<1>1. \A j \in Calls : call'[j].change = d \/ call[j].change = d =>
          call'[j].change = call[j].change /\ call'[j].pc = call[j].pc
  BY DEF OthersKept, Kept, Ended
<1>. QED  BY <1>1, PhaseKept DEF Same

(* No other call is about the change a call is about.                      *)
LEMMA NobodyElse ==
    ASSUME Reliable, IInv, NEW k \in Calls, call[k].pc # "idle", OthersKept(k),
           NEW j \in Calls \ {k}
    PROVE  /\ call[j].change = call[k].change => call[j].pc = "idle"
           /\ call'[j].change = call[k].change => call'[j].pc = "idle"
BY DEF Reliable, IInv, SerialInv, OthersKept, Kept

(* Executions and undoings are numbers.                                    *)
LEMMA HistType ==
    ASSUME TypeOK, NEW c \in Changes
    PROVE  hist[c].executed + 0 = hist[c].executed /\ hist[c].undone + 0 = hist[c].undone
BY DEF TypeOK, History, Count

(* Every step changes at most one change, and that the way ChangeLifecycle *)
(* allows.                                                                 *)
LEMMA LifeStep ==
    ASSUME Reliable, IInv, Sure, [Next]_vars
    PROVE  OneChange
<1>0. IInv' /\ Faults \cap {"cancel", "crash"} = {} /\ "lost" \notin Faults
  BY InvariantStep DEF Reliable
<1>a. TypeOK /\ CallsInv /\ None \notin Changes
  BY EngineAssumption DEF IInv
<1>1. ASSUME NEW k \in Calls, NEW s \in Servers, NEW c \in Changes, NEW q \in Requests,
             PreviewFetch(k, s, c, q)
      PROVE  \A d \in Changes : Same(d)
  <2>1. \A d \in Changes \ {c} : PhaseOf(d)' = PhaseOf(d)
    BY <1>1, <1>a, PreviewFetchEffect, PhaseKept DEF OthersKept, Kept
  <2>2. PhaseOf(c) = "absent"
    <3>1. \A j \in Calls : call[j].change = c => call[j].pc \notin {"ap_commit", "rb_commit"}
      BY <1>1, <1>a DEF PreviewFetch, CallsInv, OnRecord, Applying
    <3>. QED  BY <1>1, <3>1 DEF PreviewFetch, PhaseOf, InCommit
  <2>3. PhaseOf(c)' = "absent"
    <3>1. call'[k].pc = "pv_insert" /\ call'[k].change = c
      BY <1>1, <1>a, PreviewFetchEffect
    <3>2. record'[c].status = "draft"
      BY <1>1, <1>a, PreviewFetchEffect
    <3>3. \A j \in Calls : call'[j].change = c => call'[j].pc \notin {"ap_commit", "rb_commit"}
      BY <1>0, <3>2 DEF IInv, CallsInv, OnRecord, Applying
    <3>. QED  BY <3>2, <3>3 DEF PhaseOf, InCommit
  <2>. QED  BY <1>1, <1>a, <2>1, <2>2, <2>3, PreviewFetchEffect DEF Same
<1>2. ASSUME NEW k \in Calls, NEW s \in Servers, NEW c \in Changes,
             ApplyLoad(k, s, c) \/ ApplyExpired(k, s, c) \/ RollbackLoad(k, s, c)
      PROVE  \A d \in Changes : Same(d)
  BY <1>2, <1>a, LoadEffect, PhaseKept DEF Same, OthersKept, Kept
<1>3. ASSUME NEW k \in Calls, NEW c \in Changes, c = call[k].change, PreviewInsert(k)
      PROVE  Becomes(c, "absent", "proposed", 0, 0)
  <2>1. /\ c = call[k].change /\ c \in Changes /\ call[k].pc = "pv_insert" /\ OthersKept(k) /\ Ended(k)
        /\ record'[c].status = "proposed" /\ OtherRecordsKept(c) /\ UNCHANGED hist
    BY <1>3, <1>a, PreviewInsertEffect
  <2>2. PhaseOf(c) = "absent"
    BY <2>1, PhaseOfCall
  <2>3. PhaseOf(c)' = "proposed"
    BY <2>1, NobodyElse DEF PhaseOf, InCommit, Ended
  <2>4. \A d \in Changes \ {c} : Same(d)
    BY <2>1, <1>a, OthersSame DEF OtherRecordsKept
  <2>. QED  BY <2>1, <2>2, <2>3, <2>4, <1>a, HistType DEF Becomes
<1>4. ASSUME NEW k \in Calls, ApplyFetch(k) \/ Rejected(k)
      PROVE  \A d \in Changes : Same(d)
  <2>1. /\ OthersKept(k) /\ UNCHANGED <<record, hist>>
        /\ call[k].pc \notin {"ap_commit", "rb_commit"}
        /\ call'[k].pc \notin {"ap_commit", "rb_commit"}
    BY <1>4, <1>a, ApplyFetchEffect, RejectedEffect DEF Ended, Moved
  <2>. QED  BY <2>1, PhaseKept DEF Same, OthersKept, Kept
<1>5. ASSUME NEW k \in Calls, NEW c \in Changes, c = call[k].change, ApplyExecute(k)
      PROVE  Becomes(c, "proposed", "applied", 1, 0)
  <2>1. /\ c = call[k].change /\ c \in Changes /\ call[k].pc = "ap_execute" /\ OthersKept(k)
        /\ Moved(k, "ap_commit")
        /\ hist'[c].executed = Bump(hist[c].executed) /\ hist'[c].undone = hist[c].undone
        /\ \A d \in Changes \ {c} : hist'[d] = hist[d]
        /\ UNCHANGED record
    BY <1>5, <1>a, <1>0, ApplyExecuteEffect
  <2>2. record[c].status = "proposed"
    BY <2>1 DEF IInv, SerialInv, Reliable, Applying
  <2>3. PhaseOf(c) = "proposed" /\ ~InCommit(c, "ap_commit")
    BY <2>1, <2>2, PhaseOfCall, NobodyElse DEF InCommit
  <2>4. PhaseOf(c)' = "applied"
    BY <2>1 DEF PhaseOf, InCommit, Moved
  <2>5. hist[c].executed = 0
    BY <2>1, <2>2, <2>3 DEF IInv, SerialInv, Reliable, Sure, Deeds
  <2>6. hist'[c].executed = hist[c].executed + 1
    BY <2>1, <2>5 DEF Bump, Many
  <2>7. \A d \in Changes \ {c} : Same(d)
    BY <2>1, <1>a, OthersSame DEF Moved
  <2>. QED  BY <2>1, <2>3, <2>4, <2>6, <2>7, <1>a, HistType DEF Becomes
<1>6. ASSUME NEW k \in Calls, NEW c \in Changes, c = call[k].change, ApplyCommit(k) \/ RollbackCommit(k)
      PROVE  \A d \in Changes : Same(d)
  <2>1. /\ c = call[k].change /\ c \in Changes /\ call[k].pc \in {"ap_commit", "rb_commit"} /\ OthersKept(k) /\ Ended(k)
        /\ record'[c].status = IF call[k].pc = "ap_commit" THEN "applied" ELSE "rolled_back"
        /\ OtherRecordsKept(c) /\ UNCHANGED hist
    <3>1. RollbackCommit(k) => call[k].pc = "rb_commit"
      BY DEF RollbackCommit
    <3>. QED  BY <3>1, <1>6, <1>a, ApplyCommitEffect, StatusCommitEffect
  <2>2. PhaseOf(c) = record'[c].status
    BY <2>1, PhaseOfCall
  <2>3. PhaseOf(c)' = record'[c].status
    BY <2>1, NobodyElse DEF PhaseOf, InCommit, Ended
  <2>4. \A d \in Changes \ {c} : Same(d)
    BY <2>1, <1>a, OthersSame DEF OtherRecordsKept
  <2>. QED  BY <2>1, <2>2, <2>3, <2>4 DEF Same
<1>7. ASSUME NEW k \in Calls, NEW c \in Changes, c = call[k].change, ExpireCommit(k)
      PROVE  Becomes(c, "proposed", "expired", 0, 0)
  <2>1. /\ c = call[k].change /\ c \in Changes /\ call[k].pc = "ex_commit" /\ OthersKept(k) /\ Ended(k)
        /\ record'[c].status = "expired" /\ OtherRecordsKept(c) /\ UNCHANGED hist
    BY <1>7, <1>a, StatusCommitEffect DEF ExpireCommit
  <2>2. PhaseOf(c) = "proposed"
    BY <2>1, PhaseOfCall DEF IInv, SerialInv, Reliable
  <2>3. PhaseOf(c)' = "expired"
    BY <2>1, NobodyElse DEF PhaseOf, InCommit, Ended
  <2>4. \A d \in Changes \ {c} : Same(d)
    BY <2>1, <1>a, OthersSame DEF OtherRecordsKept
  <2>. QED  BY <2>1, <2>2, <2>3, <2>4, <1>a, HistType DEF Becomes
<1>8. ASSUME NEW k \in Calls, NEW c \in Changes, c = call[k].change, RollbackExecute(k)
      PROVE  Becomes(c, "applied", "rolled_back", 0, 1)
  <2>1. /\ c = call[k].change /\ c \in Changes /\ call[k].pc = "rb_execute" /\ OthersKept(k)
        /\ Moved(k, "rb_commit")
        /\ hist'[c].undone = Bump(hist[c].undone) /\ hist'[c].executed = hist[c].executed
        /\ \A d \in Changes \ {c} : hist'[d] = hist[d]
        /\ UNCHANGED record
    BY <1>8, <1>a, <1>0, RollbackExecuteEffect
  <2>2. record[c].status = "applied"
    BY <2>1 DEF IInv, SerialInv, Reliable
  <2>3. PhaseOf(c) = "applied" /\ ~InCommit(c, "rb_commit")
    BY <2>1, <2>2, PhaseOfCall, NobodyElse DEF InCommit
  <2>4. PhaseOf(c)' = "rolled_back"
    <3>1. ~InCommit(c, "ap_commit")'
      BY <2>1, NobodyElse DEF InCommit, Moved
    <3>. QED  BY <2>1, <3>1 DEF PhaseOf, InCommit, Moved
  <2>5. hist[c].undone = 0
    BY <2>1, <2>2, <2>3 DEF IInv, SerialInv, Reliable, Sure, Deeds
  <2>6. hist'[c].undone = hist[c].undone + 1
    BY <2>1, <2>5 DEF Bump, Many
  <2>7. \A d \in Changes \ {c} : Same(d)
    BY <2>1, <1>a, OthersSame DEF Moved
  <2>. QED  BY <2>1, <2>3, <2>4, <2>6, <2>7, <1>a, HistType DEF Becomes
<1>9. ASSUME \A j \in Calls : Kept(j), UNCHANGED <<record, hist>>
      PROVE  \A d \in Changes : Same(d)
  <2> SUFFICES ASSUME NEW d \in Changes PROVE Same(d)
    OBVIOUS
  <2>1. PhaseOf(d)' = PhaseOf(d)
    BY <1>9, PhaseKept DEF Kept
  <2>. QED  BY <1>9, <2>1 DEF Same
<1>10. ASSUME NEW k \in Calls, Proceed(k) PROVE OneChange
  <2>1. ASSUME ~ApplyFetch(k), ~Rejected(k)
        PROVE  \E c \in Changes : c = call[k].change
    BY <1>10, <2>1, <1>a, CallChange DEF Proceed, PreviewInsert, ApplyExecute, ApplyCommit,
       ExpireCommit, RollbackExecute, RollbackCommit
  <2>. QED  BY <1>3, <1>4, <1>5, <1>6, <1>7, <1>8, <1>10, <2>1 DEF Proceed, OneChange
<1>11. (\A d \in Changes : Same(d)) => OneChange
  BY DEF OneChange
<1>. QED  BY <1>1, <1>2, <1>9, <1>10, <1>11, ReliableCases

-----------------------------------------------------------------------------
(* What a step does to one change is a step of ChangeLifecycle.            *)
LEMMA MappedStep ==
    ASSUME TypeOK, OneChange
    PROVE  [Lifecycle!Next]_(Lifecycle!vars)
<1> DEFINE phase == [c \in Changes |-> PhaseOf(c)]
           executed == [c \in Changes |-> hist[c].executed]
           undone == [c \in Changes |-> hist[c].undone]
<1>1. CASE \A c \in Changes : Same(c)
  <2>1. phase' = phase /\ executed' = executed /\ undone' = undone
    BY <1>1 DEF Same
  <2>. QED  BY <2>1 DEF Lifecycle!vars
<1>2. ASSUME NEW c \in Changes, Becomes(c, "absent", "proposed", 0, 0)
      PROVE  Lifecycle!Propose(c)
  <2>1. /\ phase[c] = "absent" /\ phase' = [phase EXCEPT ![c] = "proposed"]
        /\ executed' = executed /\ undone' = undone
    BY <1>2, HistType DEF Becomes, Same
  <2>. QED  BY <2>1 DEF Lifecycle!Propose
<1>3. ASSUME NEW c \in Changes, Becomes(c, "proposed", "applied", 1, 0)
      PROVE  Lifecycle!Apply(c)
  <2>1. /\ phase[c] = "proposed" /\ phase' = [phase EXCEPT ![c] = "applied"]
        /\ executed' = [executed EXCEPT ![c] = @ + 1] /\ undone' = undone
    BY <1>3, HistType DEF Becomes, Same
  <2>. QED  BY <2>1 DEF Lifecycle!Apply
<1>4. ASSUME NEW c \in Changes, Becomes(c, "proposed", "expired", 0, 0)
      PROVE  Lifecycle!Expire(c)
  <2>1. /\ phase[c] = "proposed" /\ phase' = [phase EXCEPT ![c] = "expired"]
        /\ executed' = executed /\ undone' = undone
    BY <1>4, HistType DEF Becomes, Same
  <2>. QED  BY <2>1 DEF Lifecycle!Expire
<1>5. ASSUME NEW c \in Changes, Becomes(c, "applied", "rolled_back", 0, 1)
      PROVE  Lifecycle!Rollback(c)
  <2>1. /\ phase[c] = "applied" /\ phase' = [phase EXCEPT ![c] = "rolled_back"]
        /\ executed' = executed /\ undone' = [undone EXCEPT ![c] = @ + 1]
    BY <1>5, HistType DEF Becomes, Same
  <2>. QED  BY <2>1 DEF Lifecycle!Rollback
<1>. QED  BY <1>1, <1>2, <1>3, <1>4, <1>5 DEF OneChange, Lifecycle!Next

(* ChangeService lives up to ChangeLifecycle for every number of servers,  *)
(* calls and changes: with clients that await each answer, and answers     *)
(* that always come, a change is carried out at most once, only while it   *)
(* is proposed, and undone at most once, only after it was carried out.    *)
THEOREM Refinement == Reliable => (Spec => RefinesLifecycle)
<1> SUFFICES ASSUME Reliable PROVE Spec => RefinesLifecycle
  OBVIOUS
<1>1. Init => Sure /\ Lifecycle!Init
  <2> SUFFICES ASSUME Init PROVE Sure /\ Lifecycle!Init
    OBVIOUS
  <2>1. \A c \in Changes : record[c] = NoRecord /\ hist[c] = NoHistory
    BY DEF Init
  <2>2. \A k \in Calls : call[k].pc = "idle"
    BY DEF Init, IdleCall
  <2>3. \A c \in Changes : PhaseOf(c) = "absent"
    BY <2>1, <2>2 DEF PhaseOf, InCommit, NoRecord
  <2>. QED  BY <2>1, <2>3 DEF Sure, Lifecycle!Init, NoHistory
<1>2. IInv /\ Sure /\ [Next]_vars => Sure'
  BY SureStep
<1>3. IInv /\ Sure /\ [Next]_vars => [Lifecycle!Next]_(Lifecycle!vars)
  BY LifeStep, MappedStep DEF IInv
<1>. QED  BY <1>1, <1>2, <1>3, Invariance, PTL DEF Spec, RefinesLifecycle, Lifecycle!Spec

=============================================================================
