-------------------------- MODULE ChangeInvariants --------------------------
(***************************************************************************)
(* What is true between any two awaits of ChangeEngine's calls, and makes  *)
(* its invariants inductive.                                               *)
(***************************************************************************)
EXTENDS ChangeEngine

Applying == {"ap_fetch", "ap_execute", "ap_commit"}

OnRecord == Applying \cup {"ex_commit", "rb_execute", "rb_commit"}

(* A record that was begun has an operation on a type.  Only the preview   *)
(* that builds it knows a draft; all other calls are about committed rows. *)
CallsInv ==
    /\ \A c \in Changes :
          record[c].status # "absent" =>
              record[c].op \in OperationType /\ record[c].type \in Types
    /\ \A k \in Calls :
          /\ call[k].pc = "idle" <=> call[k].change = None
          /\ call[k].pc # "idle" => call[k].change \in Changes /\ call[k].srv \in Servers
          /\ call[k].pc \in {"ap_execute", "ap_commit"} => call[k].dev \in Devices
          /\ call[k].pc = "pv_insert" => record[call[k].change].status = "draft"
          /\ call[k].pc \in OnRecord =>
                record[call[k].change].status \notin {"absent", "draft"}
    /\ \A j, k \in Calls :
          call[j].pc = "pv_insert" /\ call[k].pc = "pv_insert"
            /\ call[j].change = call[k].change => j = k

(* An apply in progress was begun within the TTL. *)
TimeInv ==
    /\ AppliedInTime
    /\ \A k \in Calls : call[k].pc \in Applying => call[k].at <= record[call[k].change].expires

(* Each call has the deeds behind it that its commit will put on record. *)
BackedInv ==
    /\ ResolvedIsBacked
    /\ \A k \in Calls :
          LET c == call[k].change
          IN  /\ call[k].pc = "ap_commit" => hist[c].executed > 0
              /\ call[k].pc \in {"rb_execute", "rb_commit"} =>
                    hist[c].executed > 0 /\ snapshots[c] > 0
              /\ call[k].pc = "rb_commit" => hist[c].undone > 0

(* What the device did for a change of which no answer was lost, given its *)
(* status and the call that is about it.                                   *)

Deeds(c) ==
    /\ hist[c].executed =
          IF record[c].status \in {"applied", "rolled_back"} \/ InCommit(c, "ap_commit")
          THEN 1 ELSE 0
    /\ snapshots[c] = IF record[c].status \in {"applied", "rolled_back"} THEN 1 ELSE 0
    /\ hist[c].undone =
          IF record[c].status = "rolled_back" \/ InCommit(c, "rb_commit") THEN 1 ELSE 0

(* With serial callers one call at a time is about a change, the status it *)
(* read still stands, and the deeds can be counted.                        *)
SerialInv ==
    SerialCallers =>
        /\ \A j, k \in Calls : call[j].change = call[k].change => j = k \/ call[j].pc = "idle"
        /\ \A k \in Calls :
              /\ call[k].pc \in Applying \cup {"ex_commit"} =>
                    record[call[k].change].status = "proposed"
              /\ call[k].pc \in {"rb_execute", "rb_commit"} =>
                    record[call[k].change].status = "applied"
        /\ \A c \in Changes :
              /\ record[c].status \in {"absent", "draft"} => ~hist[c].unsure
              /\ ~hist[c].unsure => Deeds(c)

(* The place on the device an apply past its drift check is going to write. *)
Target(k) == <<call[k].dev, record[call[k].change].type, call[k].rid>>

(* What was read at the preview is what was there; what an apply found at  *)
(* its drift check is still there unless somebody wrote it since.          *)
DriftInv ==
    /\ ExecutesWhatWasPreviewed
    /\ \A c \in Changes :
          /\ record[c].status \in {"absent", "draft"} => hist[c].executed = 0
          /\ Guarded(c) => record[c].before = hist[c].seen
    /\ \A k \in Calls :
          call[k].pc = "ap_execute" /\ Guarded(call[k].change) /\ ~call[k].raced =>
              store[Target(k)] = record[call[k].change].before

IInv ==
    /\ TypeOK /\ CallsInv /\ ApplyPermitted /\ TimeInv /\ BackedInv /\ SerialInv
    /\ DriftInv

=============================================================================
