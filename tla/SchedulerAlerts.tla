--------------------------- MODULE SchedulerAlerts ---------------------------
(***************************************************************************)
(* What the absent maintainer is told of the scheduler itself: queue lines *)
(* that cannot be parsed, batches a death interrupted, polls that keep     *)
(* failing (backend/scheduler.py, with the reports that load_queue leaves  *)
(* in backend/queue.py and the pushes of backend/notifier.py).  Every push *)
(* is an await at which endpoints read and rewrite the queue.  What the    *)
(* batches go through is the subject of ScheduledPosting.                  *)
(***************************************************************************)
EXTENDS Integers, FiniteSets

CONSTANTS
  Lines,      \* the texts a malformed queue line may have
  Batches,    \* the batches that may run when the process dies
  Threshold,  \* POLL_FAILURES_BEFORE_ALERT
  MaxStreak   \* bound on the failed polls in a row

ASSUME ThresholdAssumption == Threshold \in Nat \ {0} /\ MaxStreak \in Nat

VARIABLES
  bad,          \* the malformed lines in queue.jsonl
  running,      \* the batches with status running in it, of a dead process
  interrupted,  \* the batches with status interrupted in it
  at,           \* where the task stands
  known,        \* _REPORTED_FINGERPRINTS
  pending,      \* _PENDING_MALFORMED
  toAnnounce,   \* the interrupted batches the sweep has yet to announce
  failures,     \* consecutive_failures
  alerted,      \* alerted
  pushed,       \* (ghost) how often this process put each line into a push
  alerts,       \* (ghost) the alerts since the last good poll
  streak,       \* (ghost) the failed polls since the last good one
  dropped,      \* (ghost) the malformed lines a rewrite has dropped
  told,         \* (ghost) the lines whose push reached the phone
  announced     \* (ghost) the batches whose announcement was sent

file == <<bad, running, interrupted>>
reports == <<known, pending, pushed>>
counts == <<failures, alerted, alerts, streak>>
phone == <<told, announced>>
vars == <<file, at, reports, toAnnounce, counts, dropped, phone>>

NoPush == [l \in Lines |-> 0]

Init ==
  /\ bad \in SUBSET Lines /\ running \in SUBSET Batches /\ interrupted = {}
  /\ at = "down" /\ known = {} /\ pending = {} /\ toAnnounce = {}
  /\ failures = 0 /\ alerted = FALSE
  /\ pushed = NoPush /\ alerts = 0 /\ streak = 0
  /\ dropped = {} /\ told = {} /\ announced = {}
-----------------------------------------------------------------------------
(* load_queue: each distinct line is reported once in a process.           *)
UnreportedMutant == bad
Unreported == bad \ known
Recorded == known' = known \cup bad /\ pending' = pending \cup Unreported

(* drain_malformed_reports right after a read, and the push of what there  *)
(* is, which may not arrive; nothing is kept to be sent again.             *)
ReadAndDrained ==
  LET batch == pending \cup Unreported IN
  /\ known' = known \cup bad /\ pending' = {}
  /\ pushed' = [l \in Lines |-> IF l \in batch THEN pushed[l] + 1 ELSE pushed[l]]
  /\ told' \in {told, told \cup batch}

(* save_queue drops what the read before it could not parse.               *)
Rewritten == bad' = {} /\ dropped' = dropped \cup bad

(* The boot reads the queue to reconcile the media.                        *)
Boot ==
  /\ at = "down" /\ at' = "sweep"
  /\ Recorded \/ UNCHANGED <<known, pending>>
  /\ UNCHANGED <<file, pushed, toAnnounce, counts, dropped, phone>>

(* startup_sweep: a read that fails ends the task.                         *)
SweepReads ==
  /\ at = "sweep" /\ at' = "sweeping"
  /\ ReadAndDrained
  /\ UNCHANGED <<file, toAnnounce, counts, dropped, announced>>

SweepSavesMutant ==
  /\ at = "sweeping" /\ at' = "announcing"
  /\ IF running = {} THEN UNCHANGED <<file, dropped>>
     ELSE /\ interrupted' = interrupted \cup running /\ running' = {}
          /\ Rewritten
  /\ toAnnounce' = running /\ pending' = {}
  /\ UNCHANGED <<known, pushed, counts, phone>>
SweepSaves ==
  /\ at = "sweeping" /\ at' = "announcing"
  /\ IF running = {} THEN UNCHANGED <<file, dropped>>
     ELSE /\ interrupted' = interrupted \cup running /\ running' = {}
          /\ Rewritten
  /\ toAnnounce' = running
  /\ UNCHANGED <<reports, counts, phone>>

(* Each announcement is sent once, whether it arrives or not.              *)
Announce(b) ==
  /\ at = "announcing" /\ b \in toAnnounce
  /\ toAnnounce' = toAnnounce \ {b} /\ announced' = announced \cup {b}
  /\ UNCHANGED <<file, at, reports, counts, dropped, told>>

SweepEnds ==
  /\ at = "announcing" /\ toAnnounce = {} /\ at' = "poll"
  /\ UNCHANGED <<file, reports, toAnnounce, counts, dropped, phone>>

TaskDies ==
  /\ at \in {"sweep", "sweeping"} /\ at' = "ended"
  /\ UNCHANGED <<file, reports, toAnnounce, counts, dropped, phone>>
-----------------------------------------------------------------------------
(* scheduler_loop.  A poll reads and drains, pushes, and runs what is due. *)
Poll ==
  /\ at = "poll" /\ at' = "working"
  /\ ReadAndDrained
  /\ UNCHANGED <<file, toAnnounce, counts, dropped, announced>>

(* The runs rewrite the queue and read it again and again.                 *)
GoodPollMutant ==
  /\ at = "working" /\ at' = "sleep"
  /\ failures' = 0 /\ alerts' = 0 /\ streak' = 0 /\ UNCHANGED alerted
  /\ Recorded
  /\ Rewritten \/ UNCHANGED <<bad, dropped>>
  /\ UNCHANGED <<running, interrupted, pushed, toAnnounce, phone>>
GoodPoll ==
  /\ at = "working" /\ at' = "sleep"
  /\ failures' = 0 /\ alerted' = FALSE /\ alerts' = 0 /\ streak' = 0
  /\ Recorded
  /\ Rewritten \/ UNCHANGED <<bad, dropped>>
  /\ UNCHANGED <<running, interrupted, pushed, toAnnounce, phone>>

(* The read fails, or a run raises.  The flag is set before the push.      *)
BadPoll ==
  /\ at \in {"poll", "working"} /\ streak < MaxStreak
  /\ failures' = failures + 1 /\ streak' = streak + 1
  /\ IF failures' >= Threshold /\ ~alerted
       THEN alerted' = TRUE /\ alerts' = alerts + 1 /\ at' = "alerting"
       ELSE UNCHANGED <<alerted, alerts>> /\ at' = "sleep"
  /\ UNCHANGED <<file, reports, toAnnounce, dropped, phone>>

AlertSent ==
  /\ at = "alerting" /\ at' = "sleep"
  /\ UNCHANGED <<file, reports, toAnnounce, counts, dropped, phone>>

Wake ==
  /\ at = "sleep" /\ at' = "poll"
  /\ UNCHANGED <<file, reports, toAnnounce, counts, dropped, phone>>
-----------------------------------------------------------------------------
(* An endpoint, while the task is at an await or has ended: it reads, and  *)
(* may rewrite.                                                            *)
Endpoint ==
  /\ at \in {"sweeping", "announcing", "working", "alerting", "sleep", "ended"}
  /\ Recorded
  /\ Rewritten \/ UNCHANGED <<bad, dropped>>
  /\ UNCHANGED <<running, interrupted, at, pushed, toAnnounce, counts, phone>>

(* A line is damaged by hand or by another program.                        *)
Damage(l) ==
  /\ bad' = bad \cup {l}
  /\ UNCHANGED <<running, interrupted, at, reports, toAnnounce, counts, dropped, phone>>

(* The process dies, in the middle of a run perhaps, and with it all that  *)
(* was not in the file.                                                    *)
Kill ==
  /\ at # "down" /\ at' = "down"
  /\ \/ UNCHANGED running
     \/ at = "working" /\ \E b \in Batches \ interrupted : running' = running \cup {b}
  /\ known' = {} /\ pending' = {} /\ pushed' = NoPush /\ toAnnounce' = {}
  /\ failures' = 0 /\ alerted' = FALSE /\ alerts' = 0 /\ streak' = 0
  /\ UNCHANGED <<bad, interrupted, dropped, phone>>

Next ==
  \/ Boot \/ SweepReads \/ SweepSaves \/ SweepEnds \/ TaskDies
  \/ Poll \/ GoodPoll \/ BadPoll \/ AlertSent \/ Wake
  \/ Endpoint \/ Kill
  \/ \E b \in Batches : Announce(b)
  \/ \E l \in Lines : Damage(l)

Spec == Init /\ [][Next]_vars
-----------------------------------------------------------------------------
(* Every variable keeps its type.                                          *)
TypeOK ==
  /\ bad \subseteq Lines /\ running \subseteq Batches /\ interrupted \subseteq Batches
  /\ at \in {"down", "sweep", "sweeping", "announcing", "poll", "working",
             "alerting", "sleep", "ended"}
  /\ known \subseteq Lines /\ pending \subseteq Lines /\ toAnnounce \subseteq Batches
  /\ failures \in Nat /\ streak \in Nat /\ alerted \in BOOLEAN
  /\ alerts \in 0..1 /\ pushed \in [Lines -> Nat]
  /\ dropped \subseteq Lines /\ told \subseteq Lines /\ announced \subseteq Batches

(* An alert goes out for a streak of failed polls if and only if it is     *)
(* long enough, and only one; a good poll arms it for the next streak      *)
(* (scheduler.py:504-546).                                                 *)
AlertFollowsStreak == alerts = IF streak >= Threshold THEN 1 ELSE 0

(* A malformed line is in one push of the process at most, however often   *)
(* the task and the endpoints read it, drop it and find it again           *)
(* (queue.py:185-205, 220-229).                                            *)
ReportedOnce == \A l \in Lines : pushed[l] <= 1

(* No report is lost between the read that made it and the drain, though   *)
(* endpoints read while a push is awaited: what the process knows of is    *)
(* waiting to be pushed or was put into a push (scheduler.py:29-59).       *)
NoReportLost == known = pending \cup {l \in Lines : pushed[l] > 0}
-----------------------------------------------------------------------------
(* Claims that the code does not keep.                                     *)

(* scheduler.py:35: "the gap was that nobody was told. This closes it."    *)
(* The reports are drained before the push, and a push that fails is not   *)
(* sent again: the line is dropped and nobody was told.                    *)
DroppedIsTold == at = "sleep" => dropped \subseteq told \cup pending

(* scheduler.py:73: "Stale 'running' -> 'interrupted' + notification".     *)
(* The queue is saved first; a death before the push leaves a batch that   *)
(* the next sweep takes for one already announced.                         *)
InterruptedIsAnnounced == at = "poll" => interrupted \subseteq announced
=============================================================================
