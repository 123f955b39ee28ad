---------------------------- MODULE PostingClaims ----------------------------
(* Statements of the repository's comments and docs about scheduled         *)
(* batches that the code does not keep; TLC refutes each of them.           *)
EXTENDS ScheduledPosting

(* "queue.jsonl holds only pending/running/interrupted batches; terminal    *)
(* states are pruned after results land in history.jsonl"                   *)
(* (backend/queue.py:3): between two polls no line is terminal.             *)
TerminalLinesPruned ==
  at = "sleeping" => \A b \in Batches : queue[b].status \notin Outcomes

(* "a read racing an atomic rewrite, a disk or permissions hiccup [...] the *)
(* right response is to log it and take the next cycle"                     *)
(* (backend/scheduler.py:484): a pending batch leaves the queue only by     *)
(* being started or withdrawn.                                              *)
PendingSurvivesHiccup ==
  [][\A b \in Batches :
       queue[b].status = "pending" =>
         \/ queue'[b].status \in {"pending", "running"}
         \/ answer'[b] = "withdrawn"]_vars

(* "A batch must never complete without leaving a history row"              *)
(* (backend/scheduler.py:223).                                              *)
CompletionLeavesRow ==
  \A b \in Batches :
    answer[b] = "accepted" /\ runs[b] > 0 /\ ~Readable(queue, b)
      => history[b] # {}

(* "is this directory the only surviving copy of media for a batch that may *)
(* have posted? Whenever the answer is "maybe", the directory is kept"      *)
(* (backend/queue.py:364).                                                  *)
MaybePostedMediaKept ==
  \A b \in Batches :
    /\ answer[b] = "accepted" /\ b \notin discarded
    /\ runs[b] > 0 /\ outcome[b] # "done"
    => b \in snap

(* "Scheduled batches now honour cancellation and rescheduling"             *)
(* (CHANGELOG.md:641, and _abort_reason, backend/scheduler.py:392):         *)
(* cancellation is final.                                                   *)
CancelledNeverPosted ==
  [][\A b \in Batches : runs'[b] > runs[b] => answer[b] # "withdrawn"]_vars
=============================================================================
