-------------------------- MODULE ScheduledPosting --------------------------
(***************************************************************************)
(* The life of scheduled batches in one RicePoster server: the scheduler   *)
(* task (backend/scheduler.py), the queue endpoints (backend/main.py over  *)
(* backend/queue.py), the single-run guard (backend/run_guard.py) that     *)
(* manual runs share with it, the startup reconciliation of snapshots, and *)
(* the files that survive the process.                                     *)
(*                                                                         *)
(* Everything runs on one event loop.  Code between two awaits is not      *)
(* interleaved with other coroutines, but the process can die, and a file  *)
(* operation can fail, between any two file writes; so a synchronous       *)
(* section is a chain of steps during which `LoopFree' is false, one step  *)
(* per write of a file.                                                    *)
(***************************************************************************)
EXTENDS QueueFile

CONSTANTS
  NoBatch,      \* not a batch
  Faults,       \* the kinds of fault the environment may produce
  MaxFaults,    \* how many of them it may produce
  MaxManual     \* how many manual runs may be started

FaultKinds == {"kill",     \* the process dies (or is shut down)
               "io",       \* one file operation raises
               "tear",     \* an interrupted append stops in mid-line
               "damage"}   \* a queue line becomes unreadable (an edit by hand)

ASSUME NoBatchAssumption == NoBatch \notin Batches
ASSUME FaultsAssumption == Faults \subseteq FaultKinds
ASSUME BoundsAssumption == MaxFaults \in Nat /\ MaxManual \in Nat

VARIABLES
  queue,      \* queue.jsonl: the line of each batch
  history,    \* history.jsonl: the kinds of readable row each batch has
  tail,       \* whether history.jsonl has an unreadable line, and where
  snap,       \* the batches that have a directory under queue_media/
  guard,      \* run_guard._post_running
  manual,     \* a manual /api/post run is in progress
  at,         \* where the scheduler task stands
  startup,    \* the task is still in its catch-up phase, outside the try
  copy,       \* startup_sweep's in-memory batches
  todo,       \* the rest of the in-memory list of due batches
  batch,      \* the batch execute_batch was called with
  result,     \* the final_status it computed
  apiOp,      \* the queue endpoint section in progress
  apiBatch,   \* the batch that endpoint is about
  faults,     \* faults so far
  manuals,    \* manual runs so far
  answer,     \* (ghost) what the API has told the maintainer of each batch
  runs,       \* (ghost) how often post_fn was called for each batch
  outcome,    \* (ghost) what those calls really did
  discarded   \* (ghost) snapshots the maintainer removed explicitly

disk == <<queue, history, tail, snap>>
task == <<at, startup, copy, todo, batch, result>>
api == <<apiOp, apiBatch>>
ghosts == <<answer, runs, outcome, discarded>>
vars == <<queue, history, tail, snap, guard, manual, at, startup, copy, todo,
          batch, result, apiOp, apiBatch, faults, manuals, answer, runs,
          outcome, discarded>>

(* The points of execute_batch, all inside its try/finally.                *)
RunStates == {"checking", "posting", "recording", "sealing", "pruning",
              "cleaning", "unrecorded", "crashed", "crashPruning", "notifying"}

(* The points where the task is suspended at an await.                     *)
Awaits == {"reporting", "announcing", "sleeping", "draining", "checking",
           "posting", "notifying"}

TaskStates == RunStates \cup Awaits \cup
              {"off", "booting", "sweeping", "polling", "picking", "dead"}

Init ==
  /\ queue = EmptyQueue
  /\ history = [b \in Batches |-> {}]
  /\ tail = "whole"
  /\ snap = {}
  /\ guard = FALSE /\ manual = FALSE
  /\ at = "off" /\ startup = FALSE
  /\ copy = EmptyQueue /\ todo = {}
  /\ batch = NoBatch /\ result = "none"
  /\ apiOp = "idle" /\ apiBatch = NoBatch
  /\ faults = 0 /\ manuals = 0
  /\ answer = [b \in Batches |-> "none"]
  /\ runs = [b \in Batches |-> 0]
  /\ outcome = [b \in Batches |-> "none"]
  /\ discarded = {}

(* No synchronous section is running: another coroutine may be scheduled.  *)
LoopFree == at \in Awaits \cup {"dead"} /\ apiOp = "idle"

(* The scheduler task may take its next step.                              *)
TaskTurn == apiOp = "idle"

Fault(kind) ==
  /\ kind \in Faults /\ faults < MaxFaults
  /\ faults' = faults + 1

-----------------------------------------------------------------------------
(* The server comes up and goes down.                                      *)

(* lifespan: _reconcile_media_at_startup, then the scheduler task.  rmtree *)
(* ignores its errors and a failing reconciliation is skipped, so any part *)
(* of the orphans may stay.                                                *)
Boot ==
  /\ at = "off"
  /\ \E old \in SUBSET snap :
       \E gone \in SUBSET (snap \cap Orphans(queue, history, tail, old)) :
          snap' = snap \ gone
  /\ at' = "booting" /\ startup' = TRUE
  /\ UNCHANGED <<queue, history, tail, guard, manual, copy, todo, batch,
                 result, api, faults, manuals, ghosts>>

(* Everything the process holds in memory is gone.                         *)
ProcessEnds ==
  /\ at' = "off" /\ startup' = FALSE
  /\ copy' = EmptyQueue /\ todo' = {}
  /\ batch' = NoBatch /\ result' = "none"
  /\ apiOp' = "idle" /\ apiBatch' = NoBatch
  /\ guard' = FALSE /\ manual' = FALSE
  /\ UNCHANGED <<queue, snap, manuals, ghosts>>

(* A manual run may be cut off in the middle of its own history append.    *)
Kill ==
  /\ at # "off"
  /\ Fault("kill")
  /\ ProcessEnds
  /\ tail' \in {tail} \cup (IF manual /\ "tear" \in Faults THEN {"torn"} ELSE {})
  /\ UNCHANGED history

(* _scheduler_died pushed an alert: the maintainer restarts the server.    *)
RestartAfterDeath ==
  /\ at = "dead" /\ apiOp = "idle"
  /\ ProcessEnds
  /\ UNCHANGED <<history, tail, faults>>

(* Outside the program a line of queue.jsonl becomes unreadable.           *)
DamageLine(b) ==
  /\ LoopFree \/ at = "off"
  /\ Readable(queue, b)
  /\ Fault("damage")
  /\ queue' = [queue EXCEPT ![b].status = "unreadable"]
  /\ UNCHANGED <<history, tail, snap, guard, manual, task, api, manuals, ghosts>>

(* A fire_time passes, for the line on disk or for the copy in memory.     *)
FireTimePasses(b) ==
  /\ LoopFree \/ at = "off"
  /\ \/ /\ queue[b].status = "pending" /\ ~queue[b].due
        /\ queue' = [queue EXCEPT ![b].due = TRUE]
        /\ UNCHANGED copy
     \/ /\ copy[b].status = "pending" /\ ~copy[b].due
        /\ copy' = [copy EXCEPT ![b].due = TRUE]
        /\ UNCHANGED queue
  /\ UNCHANGED <<history, tail, snap, guard, manual, at, startup, todo, batch,
                 result, api, faults, manuals, ghosts>>

-----------------------------------------------------------------------------
(* scheduler_loop: the startup sweep and the poll cycles.                  *)

Dies ==
  /\ at' = "dead" /\ copy' = EmptyQueue /\ todo' = {}
  /\ UNCHANGED <<queue, startup>>

(* startup_sweep reads the queue.  When the file has malformed lines it    *)
(* awaits their notification with the batches it read in memory.           *)
SweepReads ==
  /\ at = "booting"
  /\ \/ /\ copy' = Loaded(queue)
        /\ at' = IF MalformedLines(queue) = {} THEN "sweeping" ELSE "reporting"
        /\ UNCHANGED <<queue, startup, todo, faults>>
     \/ Fault("io") /\ Dies
  /\ UNCHANGED <<history, tail, snap, guard, manual, batch, result, api,
                 manuals, ghosts>>

MalformedReported ==
  /\ TaskTurn
  /\ \/ at = "reporting" /\ at' = "sweeping"
     \/ at = "draining" /\ at' = "picking"
  /\ UNCHANGED <<disk, guard, manual, startup, copy, todo, batch, result, api,
                 faults, manuals, ghosts>>

(* It saves that copy if it had a stale 'running' batch, and returns the   *)
(* overdue ones.  Each interrupted batch is then announced (an await).     *)
SweepWrites ==
  /\ at = "sweeping"
  /\ LET stale == {b \in Batches : copy[b].status = "running"}
     IN  \/ /\ queue' = IF stale = {} THEN queue ELSE Swept(copy)
            /\ at' = IF stale = {} THEN "picking" ELSE "announcing"
            /\ todo' = DueBatches(copy)
            /\ copy' = EmptyQueue
            /\ UNCHANGED <<startup, faults>>
         \/ stale # {} /\ Fault("io") /\ Dies
  /\ UNCHANGED <<history, tail, snap, guard, manual, batch, result, api,
                 manuals, ghosts>>

InterruptedAnnounced ==
  /\ at = "announcing" /\ TaskTurn
  /\ at' = "picking"
  /\ UNCHANGED <<disk, guard, manual, startup, copy, todo, batch, result, api,
                 faults, manuals, ghosts>>

(* One poll: load the queue and collect what is due, awaiting in between   *)
(* the report of malformed lines that this or an earlier read met.  A      *)
(* failing read is logged and the next cycle taken.                        *)
Poll ==
  /\ at \in {"polling", "sleeping"} /\ TaskTurn
  /\ \/ /\ todo' = DueBatches(queue)
        /\ at' \in {"picking"} \cup
                  (IF "damage" \in Faults THEN {"draining"} ELSE {})
        /\ UNCHANGED faults
     \/ /\ Fault("io")
        /\ at' = "sleeping"
        /\ UNCHANGED todo
  /\ UNCHANGED <<disk, guard, manual, startup, copy, batch, result, api,
                 manuals, ghosts>>

(* After the catch-up the first poll follows at once, later ones after a   *)
(* sleep.                                                                  *)
ListExhausted ==
  /\ at = "picking" /\ todo = {}
  /\ at' = IF startup THEN "polling" ELSE "sleeping"
  /\ startup' = FALSE
  /\ UNCHANGED <<disk, guard, manual, copy, todo, batch, result, api, faults,
                 manuals, ghosts>>

-----------------------------------------------------------------------------
(* execute_batch.                                                          *)

(* try_acquire refused: a manual run holds the guard.  The batch stays     *)
(* pending for a later cycle.                                              *)
SkipBusy(b) ==
  /\ at = "picking" /\ b \in todo /\ guard
  /\ todo' = todo \ {b}
  /\ UNCHANGED <<disk, guard, manual, at, startup, copy, batch, result, api,
                 faults, manuals, ghosts>>

(* run_guard.try_acquire, when it succeeds, and release.                   *)
AcquireMutant == guard' = TRUE
TryAcquire == ~guard /\ guard' = TRUE

ReleaseMutant == UNCHANGED guard
ReleaseGuard == guard' = FALSE

(* The guard is taken, the batch is re-validated against the file and      *)
(* flipped to 'running'; or it is no longer pending and due, and only a    *)
(* notification remains; or a read or the save fails.  The reload that     *)
(* follows the flip may fail after it.                                     *)
Claim(b) ==
  LET valid == Claimable(queue, b)
      claimed == UpdateStatus(queue, b, "running")
  IN  /\ at = "picking" /\ b \in todo
      /\ TryAcquire
      /\ todo' = todo \ {b} /\ batch' = b
      /\ \/ /\ queue' = IF valid THEN claimed ELSE queue
            /\ at' = IF valid THEN "checking" ELSE "notifying"
            /\ UNCHANGED faults
         \/ /\ Fault("io")
            /\ queue' \in IF valid THEN {queue, claimed} ELSE {queue}
            /\ at' = "crashed"
      /\ UNCHANGED <<history, tail, snap, manual, startup, copy, result, api,
                     manuals, ghosts>>

(* The pre-flight checks: something proceeds and post_fn is called, every  *)
(* slot is skipped and the run is failed, or a check raises.               *)
PreflightEnds ==
  /\ at = "checking" /\ TaskTurn
  /\ \/ /\ at' = "posting"
        /\ runs' = [runs EXCEPT ![batch] = @ + 1]
        /\ outcome' = [outcome EXCEPT ![batch] = "unknown"]
        /\ UNCHANGED result
     \/ /\ at' = "recording" /\ result' = "failed"
        /\ UNCHANGED <<runs, outcome>>
     \/ /\ at' = "crashed"
        /\ UNCHANGED <<result, runs, outcome>>
  /\ UNCHANGED <<disk, guard, manual, startup, copy, todo, batch, api, faults,
                 manuals, answer, discarded>>

(* post_fn returns its results, or raises.                                 *)
PostingEnds ==
  /\ at = "posting" /\ TaskTurn
  /\ \/ \E o \in Outcomes :
          /\ at' = "recording" /\ result' = o
          /\ outcome' = [outcome EXCEPT ![batch] = o]
     \/ /\ at' = "crashed"
        /\ UNCHANGED <<result, outcome>>
  /\ UNCHANGED <<disk, guard, manual, startup, copy, todo, batch, api, faults,
                 manuals, answer, runs, discarded>>

(* _append_scheduled_history to the end: after a torn line the first row   *)
(* is glued to it and cannot be read.                                      *)
AppendCompletes(rows) ==
  \/ /\ tail # "torn"
     /\ history' = [history EXCEPT ![batch] = @ \cup rows]
     /\ UNCHANGED tail
  \/ /\ tail = "torn" /\ tail' = "scarred"
     /\ \E kept \in SUBSET rows :
          history' = [history EXCEPT ![batch] = @ \cup kept]

(* It stops early, by an error or because the process dies.                *)
AppendStops(rows) ==
  /\ \E written \in SUBSET rows :
       history' = [history EXCEPT ![batch] = @ \cup written]
  /\ tail' \in {tail} \cup (IF tail = "torn" THEN {"scarred"} ELSE {})
                      \cup (IF "tear" \in Faults THEN {"torn"} ELSE {})

(* The rows the task is about to append, on either path.                   *)
RowsDueMutant == IF at = "crashed" THEN {} ELSE RowsOf(result)
RowsDue == IF at = "crashed" THEN {"unclean"} ELSE RowsOf(result)

RecordHistory ==
  /\ at = "recording"
  /\ \/ AppendCompletes(RowsDue) /\ at' = "sealing" /\ UNCHANGED faults
     \/ Fault("io") /\ AppendStops(RowsDue) /\ at' = "unrecorded"
  /\ UNCHANGED <<queue, snap, guard, manual, startup, copy, todo, batch, result,
                 api, manuals, ghosts>>

KillMidAppend ==
  /\ at \in {"recording", "crashed"}
  /\ Fault("kill")
  /\ AppendStops(RowsDue)
  /\ ProcessEnds

(* The terminal status is saved before the prune; a failure of either is   *)
(* contained and announced.                                                *)
SealStatus ==
  /\ at = "sealing"
  /\ \/ /\ queue' = UpdateStatus(queue, batch, result)
        /\ at' = "pruning"
        /\ UNCHANGED faults
     \/ /\ Fault("io")
        /\ at' = "notifying"
        /\ UNCHANGED queue
  /\ UNCHANGED <<history, tail, snap, guard, manual, startup, copy, todo, batch,
                 result, api, manuals, ghosts>>

(* finally: release, and on to the next due batch.                         *)
Release ==
  /\ ReleaseGuard
  /\ batch' = NoBatch /\ result' = "none"

(* Only 'done' loses its media and only 'failed' is announced.             *)
PruneRecorded ==
  /\ at = "pruning"
  /\ \/ /\ queue' = PruneBatch(queue, batch)
        /\ UNCHANGED faults
        /\ \/ result = "done" /\ at' = "cleaning" /\ UNCHANGED <<guard, batch, result>>
           \/ result = "failed" /\ at' = "notifying" /\ UNCHANGED <<guard, batch, result>>
           \/ result = "partial" /\ at' = "picking" /\ Release
     \/ /\ Fault("io")
        /\ at' = "notifying"
        /\ UNCHANGED <<queue, guard, batch, result>>
  /\ UNCHANGED <<history, tail, snap, manual, startup, copy, todo, api, manuals,
                 ghosts>>

DeletePostedMedia ==
  /\ at = "cleaning"
  /\ snap' \in {snap \ {batch}, snap}
  /\ at' = "picking" /\ Release
  /\ UNCHANGED <<queue, history, tail, manual, startup, copy, todo, api, faults,
                 manuals, ghosts>>

(* The history write failed: the queue line is the only evidence, and its  *)
(* status may not be writable either.                                      *)
KeepUnrecorded ==
  /\ at = "unrecorded"
  /\ \/ queue' = UpdateStatus(queue, batch, result) /\ UNCHANGED faults
     \/ Fault("io") /\ UNCHANGED queue
  /\ at' = "notifying"
  /\ UNCHANGED <<history, tail, snap, guard, manual, startup, copy, todo, batch,
                 result, api, manuals, ghosts>>

(* The except clause: record every slot as a crash, and prune only if that *)
(* was recorded.                                                           *)
RecordCrash ==
  /\ at = "crashed"
  /\ \/ AppendCompletes(RowsDue) /\ at' = "crashPruning" /\ UNCHANGED faults
     \/ Fault("io") /\ AppendStops(RowsDue) /\ at' = "notifying"
  /\ UNCHANGED <<queue, snap, guard, manual, startup, copy, todo, batch, result,
                 api, manuals, ghosts>>

(* A prune that raises here escapes execute_batch: a poll cycle ends with  *)
(* it, the catch-up phase takes the task down.                             *)
PruneCrashed ==
  /\ at = "crashPruning"
  /\ \/ /\ queue' = PruneBatch(queue, batch)
        /\ at' = "notifying"
        /\ UNCHANGED <<guard, batch, result, todo, faults>>
     \/ /\ Fault("io")
        /\ at' = IF startup THEN "dead" ELSE "sleeping"
        /\ todo' = {} /\ Release
        /\ UNCHANGED queue
  /\ UNCHANGED <<history, tail, snap, manual, startup, copy, api, manuals, ghosts>>

(* The last notification of the run has been sent.                         *)
RunNotified ==
  /\ at = "notifying" /\ TaskTurn
  /\ at' = "picking" /\ Release
  /\ UNCHANGED <<disk, manual, startup, copy, todo, api, faults, manuals, ghosts>>

-----------------------------------------------------------------------------
(* Manual runs and the queue endpoints.                                    *)

(* /api/post: 409 unless the guard is free, released in its finally.       *)
ManualRunStarts ==
  /\ LoopFree /\ manuals < MaxManual
  /\ TryAcquire
  /\ manual' = TRUE /\ manuals' = manuals + 1
  /\ UNCHANGED <<disk, task, api, faults, ghosts>>

(* _run_post returns, having appended rows without a batch id (or having   *)
(* failed to, which is swallowed), or it raises before that.               *)
ManualRunEnds ==
  /\ LoopFree /\ manual
  /\ ReleaseGuard /\ manual' = FALSE
  /\ \/ tail' \in {tail, IF tail = "torn" THEN "scarred" ELSE tail}
        /\ UNCHANGED faults
     \/ "tear" \in Faults /\ Fault("io") /\ tail' = "torn"
  /\ UNCHANGED <<queue, history, snap, task, api, manuals, ghosts>>

(* add_batch copies the media under a fresh id; an error while copying     *)
(* leaves the directory behind.                                            *)
AddSnapshots(b) ==
  /\ LoopFree /\ answer[b] = "none"
  /\ snap' = snap \cup {b}
  /\ answer' = [answer EXCEPT ![b] = "refused"]
  /\ \/ apiOp' = "saving" /\ apiBatch' = b /\ UNCHANGED faults
     \/ Fault("io") /\ UNCHANGED api
  /\ UNCHANGED <<queue, history, tail, guard, manual, task, manuals, runs,
                 outcome, discarded>>

(* ... then rewrites the queue with the new pending line.                  *)
AddSaves ==
  /\ apiOp = "saving"
  /\ apiOp' = "idle" /\ apiBatch' = NoBatch
  /\ \/ /\ queue' = [Loaded(queue) EXCEPT
                       ![apiBatch] = [status |-> "pending", due |-> FALSE]]
        /\ answer' = [answer EXCEPT ![apiBatch] = "accepted"]
        /\ UNCHANGED faults
     \/ Fault("io") /\ UNCHANGED <<queue, answer>>
  /\ UNCHANGED <<history, tail, snap, guard, manual, task, manuals, runs,
                 outcome, discarded>>

(* DELETE /api/queue/{id}: cancel_batch removes a pending line, and        *)
(* dismiss_batch an interrupted one; anything else is a 404, and a rewrite *)
(* that fails changes nothing.                                             *)
CancelOrDismiss(b) ==
  /\ LoopFree
  /\ Withdrawable(queue, b)
  /\ queue' = PruneBatch(queue, b)
  /\ answer' = [answer EXCEPT ![b] = "withdrawn"]
  /\ apiOp' = "deleting" /\ apiBatch' = b
  /\ UNCHANGED <<history, tail, snap, guard, manual, task, faults, manuals,
                 runs, outcome, discarded>>

DeleteWithdrawnMedia ==
  /\ apiOp = "deleting"
  /\ snap' \in {snap \ {apiBatch}, snap}
  /\ apiOp' = "idle" /\ apiBatch' = NoBatch
  /\ UNCHANGED <<queue, history, tail, guard, manual, task, faults, manuals,
                 ghosts>>

(* PATCH /api/queue/{id}: only a pending batch moves, and into the future. *)
UpdateFireTime(b) ==
  /\ LoopFree
  /\ queue[b].status = "pending"
  /\ queue' = [Loaded(queue) EXCEPT ![b].due = FALSE]
  /\ UNCHANGED <<history, tail, snap, guard, manual, task, api, faults, manuals,
                 ghosts>>

(* DELETE /api/queue/media/{id}: refused for an active batch.              *)
RemoveSnapshot(b) ==
  /\ LoopFree
  /\ b \in snap \cap Deletable(queue)
  /\ snap' = snap \ {b}
  /\ discarded' = discarded \cup {b}
  /\ UNCHANGED <<queue, history, tail, guard, manual, task, api, faults,
                 manuals, answer, runs, outcome>>

-----------------------------------------------------------------------------
SchedulerStep ==
  \/ SweepReads \/ MalformedReported \/ SweepWrites \/ InterruptedAnnounced
  \/ Poll \/ ListExhausted
  \/ \E b \in Batches : SkipBusy(b) \/ Claim(b)
  \/ PreflightEnds \/ PostingEnds
  \/ RecordHistory \/ SealStatus \/ PruneRecorded \/ DeletePostedMedia
  \/ KeepUnrecorded \/ RecordCrash \/ PruneCrashed \/ RunNotified

EndpointStep ==
  \/ AddSaves \/ DeleteWithdrawnMedia
  \/ \E b \in Batches : AddSnapshots(b) \/ CancelOrDismiss(b)
                        \/ UpdateFireTime(b) \/ RemoveSnapshot(b)

Environment ==
  \/ Boot \/ Kill \/ KillMidAppend \/ RestartAfterDeath
  \/ ManualRunStarts \/ ManualRunEnds
  \/ \E b \in Batches : DamageLine(b) \/ FireTimePasses(b)

Next == SchedulerStep \/ EndpointStep \/ Environment

Spec == Init /\ [][Next]_vars

(* The event loop runs every ready coroutine, a request that was admitted  *)
(* runs to its end, and the maintainer restarts a server that is down or   *)
(* whose scheduler died.  A manual run that is over resumes once the loop  *)
(* keeps coming free (its queue of ready callbacks is first in, first      *)
(* out), and time passes whatever the loop does: both are strong.  Nothing *)
(* obliges the maintainer to send requests, nor a fault to happen.         *)
Fairness ==
  /\ WF_vars(SchedulerStep)
  /\ WF_vars(AddSaves \/ DeleteWithdrawnMedia)
  /\ WF_vars(Boot) /\ WF_vars(RestartAfterDeath)
  /\ SF_vars(ManualRunEnds)
  /\ \A b \in Batches : SF_vars(FireTimePasses(b))

FairSpec == Spec /\ Fairness

-----------------------------------------------------------------------------
(* Every variable has its type.                                            *)
TypeOK ==
  /\ queue \in [Batches -> Lines] /\ copy \in [Batches -> Lines]
  /\ history \in [Batches -> SUBSET RowKinds] /\ tail \in Tails
  /\ snap \subseteq Batches /\ todo \subseteq Batches
  /\ discarded \subseteq Batches
  /\ guard \in BOOLEAN /\ manual \in BOOLEAN /\ startup \in BOOLEAN
  /\ at \in TaskStates
  /\ batch \in Batches \cup {NoBatch}
  /\ result \in Outcomes \cup {"none"}
  /\ apiOp \in {"idle", "saving", "deleting"}
  /\ apiBatch \in Batches \cup {NoBatch}
  /\ faults \in Nat /\ manuals \in Nat
  /\ answer \in [Batches -> {"none", "refused", "accepted", "withdrawn"}]
  /\ runs \in [Batches -> Nat]
  /\ outcome \in [Batches -> Outcomes \cup {"none", "unknown"}]

InRun == at \in RunStates

(* At most one posting run: a manual run and a scheduled one never overlap *)
(* (run_guard), whatever fails and wherever the process dies.              *)
SingleRun == ~(manual /\ InRun)

(* The guard is held exactly while a run is: no path out of execute_batch  *)
(* leaks it, and none releases the guard of a manual run.                  *)
GuardMatchesRuns == guard <=> (manual \/ InRun)

(* post_fn is called at most once for a batch, across retries, crashes,    *)
(* restarts and failed writes ("Retrying cannot double-post",              *)
(* scheduler_loop; startup_sweep "never re-executed").                     *)
PostedAtMostOnce == \A b \in Batches : runs[b] <= 1

(* A batch whose cancellation was done, or that was never accepted, is     *)
(* not posted afterwards, and none is posted before its fire time          *)
(* (_abort_reason, against the stale due list).                            *)
PostsOnlyWhatIsWanted ==
  [][\A b \in Batches :
       runs'[b] > runs[b] => answer[b] = "accepted" /\ queue[b].due]_vars

(* A batch that is accepted and not withdrawn is in the queue, or else     *)
(* history tells how it ended: "clean" rows if all of it was posted, at    *)
(* least one "unclean" row if anything failed or is in doubt.              *)
LeavesWithRecord ==
  \A b \in Batches :
    answer[b] = "accepted" /\ ~Readable(queue, b) =>
      IF outcome[b] = "done" THEN "clean" \in history[b]
                             ELSE "unclean" \in history[b]

(* The media of an accepted batch exist until it was posted in full, or    *)
(* the maintainer withdrew the batch or removed the snapshot explicitly.   *)
MediaSurvives ==
  \A b \in Batches :
    answer[b] = "accepted" /\ outcome[b] # "done" /\ b \notin discarded
      => b \in snap

(* No batch that may still run, or is evidence of a run, is without media. *)
ActiveMediaPresent ==
  \A b \in Batches :
    queue[b].status \in {"pending", "running", "interrupted"} => b \in snap

(* A due batch does not stay pending and due for ever.                     *)
DueBatchResolves ==
  \A b \in Batches :
    queue[b].status = "pending" /\ queue[b].due
      ~> ~(queue[b].status = "pending" /\ queue[b].due)

(* No run holds the guard for ever.                                        *)
GuardComesFree == []<>(~guard)

(* A batch an earlier process left 'running' does not outlive the next     *)
(* start-up sweep.                                                         *)
StaleRunIsFlagged ==
  \A b \in Batches :
    at = "booting" /\ queue[b].status = "running"
      ~> queue[b].status # "running"

-----------------------------------------------------------------------------
(* The run of batch b is in progress, and its line says so.                *)
LiveRun(b) ==
  b = batch /\ at \in RunStates \ {"notifying"} /\ queue[b].status = "running"

StageOf(b) ==
  CASE answer[b] \in {"none", "refused"}                    -> "unborn"
    [] answer[b] = "withdrawn"                              -> "withdrawn"
    [] answer[b] = "accepted" /\ queue[b].status = "pending" -> "scheduled"
    [] answer[b] = "accepted" /\ LiveRun(b)                 -> "live"
    [] answer[b] = "accepted" /\ ~LiveRun(b)
         /\ queue[b].status \in {"running", "interrupted"}  -> "stranded"
    [] OTHER                                                -> "settled"

stageMap == [b \in Batches |-> StageOf(b)]

Lifecycle == INSTANCE BatchLifecycle WITH stage <- stageMap, posts <- runs

(* The files and tasks of the server implement the life of a batch that    *)
(* BatchLifecycle describes, whatever dies or fails.                       *)
ImplementsLifecycle == Lifecycle!Spec
=============================================================================
