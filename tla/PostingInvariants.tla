-------------------------- MODULE PostingInvariants --------------------------
(***************************************************************************)
(* The inductive invariants behind the properties of ScheduledPosting: what *)
(* the program counters say of the files and of the ghosts.  The proofs are *)
(* in PostingProofs and PostingEvidenceProofs.                              *)
(***************************************************************************)
EXTENDS ScheduledPosting

(* Where the control stands: what the program counters say of the           *)
(* variables their sections use.                                            *)
Control ==
  /\ at \in RunStates => batch \in Batches
  /\ at \in {"recording", "sealing", "pruning", "cleaning", "unrecorded"}
       => result \in Outcomes
  /\ apiOp # "idle" => apiBatch \in Batches
  /\ at \notin {"reporting", "sweeping"} => copy = EmptyQueue

TypedControl == TypeOK /\ Control

(* The run guard: the two properties are inductive together, for a release  *)
(* is right only because the other kind of run is not going on.             *)
GuardInv == GuardMatchesRuns /\ SingleRun

-----------------------------------------------------------------------------
(* At most one post.  A batch can be posted again only through a pending    *)
(* line, on disk or in the sweep's stale copy, so none of a posted batch    *)
(* may exist; and a batch between its claim and its post has none either,   *)
(* whatever happens to its line meanwhile.                                  *)
(* An id is never given to a second batch, so what is not yet accepted has  *)
(* no line at all.                                                          *)
Unlisted(b) ==
  queue[b].status = "absent" /\ copy[b].status = "absent" /\ runs[b] = 0

Claimed(b) ==
  runs[b] = 0 /\ queue[b].status # "pending" /\ answer[b] \notin {"none", "refused"}

OnceInv ==
  /\ \A b \in Batches : runs[b] \in {0, 1}
  /\ \A b \in Batches : queue[b].status = "pending" => runs[b] = 0
  /\ \A b \in Batches : copy[b].status = "pending" => runs[b] = 0
  /\ \A b \in Batches : answer[b] \in {"none", "refused"} => Unlisted(b)
  /\ at = "checking" => Claimed(batch)
  /\ apiOp = "saving" => answer[apiBatch] = "refused"

-----------------------------------------------------------------------------
(* While no line is damaged: every line can be read, the sweep never waits  *)
(* between its read and its write, and the line of the batch being run      *)
(* shows how far the run is.  An endpoint's section keeps the loop.         *)
Legible(q) == \A b \in Batches : q[b] = NoLine \/ Readable(q, b)

SteadyInv ==
  /\ Legible(queue)
  /\ apiOp # "idle" => at \in Awaits \cup {"dead"}
  /\ at # "reporting" /\ (at = "sweeping" => copy = queue)
  /\ \A b \in Batches : Readable(queue, b) => answer[b] = "accepted"
  /\ \A b \in todo : queue[b].status \notin {"running", "interrupted"}
  /\ at \in {"checking", "posting", "recording", "sealing", "unrecorded"}
       => queue[batch].status = "running" /\ queue[batch].due
  /\ at = "pruning" => queue[batch].status = result
  /\ at = "cleaning" => queue[batch] = NoLine
  /\ at \in {"crashed", "crashPruning"} => queue[batch].status # "interrupted"

(* The evidence that keeps media: what was not posted in full, and is no    *)
(* longer in the queue, has an "unclean" row, or the history is known to be *)
(* incomplete.                                                              *)
Doubtful(b) == "unclean" \in history[b] \/ tail # "whole"

BatchMedia ==
  /\ MediaSurvives
  /\ \A b \in Batches : Readable(queue, b) => b \in snap
  /\ \A b \in Batches :
       answer[b] = "accepted" /\ ~Readable(queue, b) /\ outcome[b] # "done"
         => Doubtful(b)

(* How far the evidence is when the run, or an endpoint, gives media up.   *)
TaskMedia ==
  /\ at \in {"recording", "sealing", "pruning", "unrecorded"}
       => (result = "done" => outcome[batch] = "done")
  /\ at \in {"sealing", "pruning"}
       => outcome[batch] = "done" \/ Doubtful(batch)
  /\ at = "cleaning" => outcome[batch] = "done"
  /\ at = "crashPruning" => Doubtful(batch)

ApiMedia ==
  /\ apiOp = "saving" => apiBatch \in snap
  /\ apiOp = "deleting" => answer[apiBatch] = "withdrawn"

MediaInv == BatchMedia /\ TaskMedia /\ ApiMedia

(* While no append is torn either: what was posted in full and is no longer *)
(* in the queue has a "clean" row, and a run that is recorded as failed or  *)
(* crashed did not post everything.                                         *)
RecordInv ==
  /\ tail = "whole"
  /\ \A b \in Batches : runs[b] = 0 => outcome[b] = "none"
  /\ \A b \in todo : outcome[b] # "done"
  /\ \A b \in Batches :
       answer[b] = "accepted" /\ ~Readable(queue, b) /\ outcome[b] = "done"
         => "clean" \in history[b]
  /\ at = "posting" => runs[batch] > 0
  /\ at \in {"checking", "posting", "crashed", "crashPruning"}
       => outcome[batch] # "done"
  /\ at \in {"recording", "unrecorded"} /\ outcome[batch] = "done"
       => result = "done"
  /\ at \in {"sealing", "pruning"} /\ outcome[batch] = "done"
       => "clean" \in history[batch]
=============================================================================
