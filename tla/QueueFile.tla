----------------------------- MODULE QueueFile -----------------------------
(***************************************************************************)
(* queue.jsonl, the rows history.jsonl holds per batch, and the media      *)
(* snapshots under queue_media/, with the pure operations backend/queue.py *)
(* and backend/scheduler.py perform on them.                               *)
(*                                                                         *)
(* A batch is a model value: its uuid.  Its queue line is its status and   *)
(* whether its fire_time has passed; captions, slots and sizes are left    *)
(* out.  "absent" is a batch with no line, "unreadable" a batch whose line *)
(* is in the file but cannot be parsed.                                    *)
(***************************************************************************)
EXTENDS Naturals, FiniteSets

CONSTANT Batches   \* the batch ids that may ever be scheduled

Statuses == {"pending", "running", "interrupted", "done", "partial", "failed"}

Outcomes == {"done", "partial", "failed"}   \* the terminal statuses

Lines == [status : Statuses \cup {"absent", "unreadable"}, due : BOOLEAN]

NoLine == [status |-> "absent", due |-> FALSE]

EmptyQueue == [b \in Batches |-> NoLine]

RowKinds == {"clean", "unclean"}  \* a history row without, or with, real errors

Tails == {"whole", "torn", "scarred"}
   \* "whole":   every line of history.jsonl can be read
   \* "torn":    its last line stops in the middle
   \* "scarred": an unreadable line lies behind readable ones

-----------------------------------------------------------------------------
(* Reading and rewriting queue.jsonl.                                      *)

Readable(q, b) == q[b].status \in Statuses

(* What load_queue returns: the malformed lines are skipped.               *)
Loaded(q) == [b \in Batches |-> IF Readable(q, b) THEN q[b] ELSE NoLine]

MalformedLines(q) == {b \in Batches : q[b].status = "unreadable"}

(* The poll's selection and the sweep's: pending, and fire_time reached.   *)
DueBatchesMutant(q) == {b \in Batches : q[b].status = "pending" /\ ~q[b].due}
DueBatches(q) == {b \in Batches : q[b].status = "pending" /\ q[b].due}

(* _abort_reason, the verdict None: still on disk, pending and due.        *)
ClaimableMutant(q, b) == TRUE
Claimable(q, b) == q[b].status = "pending" /\ q[b].due

(* cancel_batch takes a pending batch, dismiss_batch an interrupted one.   *)
WithdrawableMutant(q, b) == q[b].status \in {"pending", "running", "interrupted"}
Withdrawable(q, b) == q[b].status \in {"pending", "interrupted"}

(* _update_status: no rewrite at all when the batch is not in the file.    *)
UpdateStatus(q, b, s) ==
  IF Readable(q, b) THEN [Loaded(q) EXCEPT ![b].status = s] ELSE q

(* _prune_batch: always a rewrite.                                         *)
PruneBatch(q, b) == [Loaded(q) EXCEPT ![b] = NoLine]

(* startup_sweep: stale 'running' becomes 'interrupted'.                   *)
SweptMutantReruns(q) == [b \in Batches |->
               IF q[b].status = "running"
               THEN [q[b] EXCEPT !.status = "pending"] ELSE q[b]]
SweptMutantForgets(q) == q
SweptMutantStatus(q) == [b \in Batches |->
               IF q[b].status = "running"
               THEN [q[b] EXCEPT !.status = "aborted"] ELSE q[b]]
Swept(q) == [b \in Batches |->
               IF q[b].status = "running"
               THEN [q[b] EXCEPT !.status = "interrupted"] ELSE q[b]]

-----------------------------------------------------------------------------
(* History rows a finished run appends, one per slot.                      *)

RowsOf(outcome) ==
  CASE outcome = "done"    -> {"clean"}
    [] outcome = "partial" -> {"clean", "unclean"}
    [] outcome = "failed"  -> {"unclean"}

-----------------------------------------------------------------------------
(* classify_snapshots: h is the readable history, tail the state of its    *)
(* file, old the batches whose snapshot has passed ORPHAN_MIN_AGE_S.       *)

EvidenceComplete(q, tail) == MalformedLines(q) = {} /\ tail = "whole"

Active(q) == {b \in Batches : Readable(q, b)}

OrphansMutant(q, h, tail, old) ==
  IF EvidenceComplete(q, tail)
  THEN {b \in Batches \ Active(q) : h[b] # {} \/ b \in old}
  ELSE {}
Orphans(q, h, tail, old) ==
  IF EvidenceComplete(q, tail)
  THEN {b \in Batches \ Active(q) : h[b] = {"clean"} \/ (h[b] = {} /\ b \in old)}
  ELSE {}

(* remove_snapshot: anything but an active batch's media.                  *)
DeletableMutant(q) == Batches
Deletable(q) == Batches \ Active(q)
=============================================================================
