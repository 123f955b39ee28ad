---------------------------- MODULE PostingProofs ----------------------------
(***************************************************************************)
(* Proofs about ScheduledPosting, for every set of batches and every       *)
(* bound.  First, for every choice of faults: the types, the guard, and    *)
(* that a batch is posted at most once.  Then, as long as no queue line is *)
(* damaged: the steady invariant, what may be posted, the fate of media,   *)
(* and that the server implements BatchLifecycle.                          *)
(***************************************************************************)
EXTENDS PostingInvariants, TLAPS


-----------------------------------------------------------------------------
(* Facts about the operations on queue.jsonl.                              *)

(* A queue read or rewritten is a queue.                                   *)
LEMMA QueueOperations ==
  ASSUME NEW q \in [Batches -> Lines], NEW b \in Batches, NEW s \in Statuses
  PROVE  /\ Loaded(q) \in [Batches -> Lines]
         /\ UpdateStatus(q, b, s) \in [Batches -> Lines]
         /\ PruneBatch(q, b) \in [Batches -> Lines]
         /\ Swept(q) \in [Batches -> Lines]
         /\ EmptyQueue \in [Batches -> Lines]
<1>1. NoLine \in Lines
  BY DEF NoLine, Lines
<1>2. Loaded(q) \in [Batches -> Lines]
  BY <1>1 DEF Loaded
<1>3. UpdateStatus(q, b, s) \in [Batches -> Lines]
  BY <1>2 DEF UpdateStatus, Lines
<1>4. PruneBatch(q, b) \in [Batches -> Lines]
  BY <1>1, <1>2 DEF PruneBatch
<1>5. Swept(q) \in [Batches -> Lines]
  BY DEF Swept, Lines, Statuses
<1>6. EmptyQueue \in [Batches -> Lines]
  BY <1>1 DEF EmptyQueue
<1> QED
  BY <1>2, <1>3, <1>4, <1>5, <1>6

(* A rewrite makes no line pending and creates none: the lines it yields   *)
(* come from the ones it read.                                             *)
ComesFrom(r, q) ==
  \A c \in Batches :
    /\ r[c].status = "pending" => q[c].status = "pending"
    /\ q[c].status = "absent" => r[c].status = "absent"

LEMMA RewritesCreateNothing ==
  ASSUME NEW q \in [Batches -> Lines]
  PROVE  /\ ComesFrom(q, q) /\ ComesFrom(EmptyQueue, q)
         /\ ComesFrom(Loaded(q), q)
         /\ ComesFrom(Swept(q), q)
         /\ \A b \in Batches : ComesFrom(PruneBatch(q, b), q)
         /\ \A b \in Batches, s \in Statuses \ {"pending"} :
              ComesFrom(UpdateStatus(q, b, s), q)
<1> USE DEF ComesFrom, NoLine, Statuses, Lines
<1>1. ComesFrom(q, q) /\ ComesFrom(EmptyQueue, q)
  BY DEF EmptyQueue
<1>2. ComesFrom(Loaded(q), q)
  BY DEF Loaded, Readable
<1>3. ComesFrom(Swept(q), q)
  BY DEF Swept
<1>4. ASSUME NEW b \in Batches
      PROVE  ComesFrom(PruneBatch(q, b), q)
  BY DEF PruneBatch, Loaded, Readable
<1>5. ASSUME NEW b \in Batches, NEW s \in Statuses \ {"pending"}
      PROVE  ComesFrom(UpdateStatus(q, b, s), q)
  BY DEF UpdateStatus, Loaded, Readable
<1> QED
  BY <1>1, <1>2, <1>3, <1>4, <1>5

-----------------------------------------------------------------------------
(* Types and control.                                                       *)

LEMMA TypedInit == Init => TypedControl
<1> SUFFICES ASSUME Init PROVE TypedControl
  OBVIOUS
<1>1. NoLine \in Lines
  BY DEF NoLine, Lines
<1>2. queue \in [Batches -> Lines] /\ copy \in [Batches -> Lines]
  BY <1>1 DEF Init, EmptyQueue
<1> QED
  BY <1>2 DEF Init, TypedControl, TypeOK, Control, Tails, TaskStates, RunStates,
     Awaits

LEMMA TypedStep == TypedControl /\ [Next]_vars => TypedControl'
<1> SUFFICES ASSUME TypedControl, [Next]_vars PROVE TypedControl'
  OBVIOUS
<1> USE DEF TypedControl, TypeOK, Control, TaskStates, RunStates, Awaits,
        disk, task, api, ghosts, Fault
<1>e. NoLine \in Lines /\ EmptyQueue \in [Batches -> Lines]
  BY DEF EmptyQueue, NoLine, Lines
<1>q. ASSUME NEW q \in [Batches -> Lines], NEW b \in Batches
      PROVE  /\ Loaded(q) \in [Batches -> Lines]
             /\ Swept(q) \in [Batches -> Lines]
             /\ PruneBatch(q, b) \in [Batches -> Lines]
  BY <1>q, QueueOperations, "running" \in Statuses DEF Statuses
<1>s. ASSUME NEW b \in Batches, NEW s \in Outcomes \cup {"running"}
      PROVE  UpdateStatus(queue, b, s) \in [Batches -> Lines]
  BY <1>s, QueueOperations DEF Outcomes, Statuses
<1>d. ASSUME NEW q \in [Batches -> Lines], NEW b \in Batches,
             NEW s \in Statuses \cup {"unreadable"}, NEW d \in BOOLEAN
      PROVE  /\ [status |-> s, due |-> d] \in Lines
             /\ [q EXCEPT ![b] = [status |-> s, due |-> d]] \in [Batches -> Lines]
             /\ [q EXCEPT ![b].status = s] \in [Batches -> Lines]
             /\ [q EXCEPT ![b].due = d] \in [Batches -> Lines]
  BY <1>d DEF Lines
<1>1. CASE SweepReads
  <2>1. Loaded(queue) \in [Batches -> Lines]
    BY DEF Loaded, Lines, NoLine
  <2> QED
    BY <1>1, <1>e, <2>1 DEF SweepReads, Dies
<1>2. CASE MalformedReported
  BY <1>2 DEF MalformedReported
<1>3. CASE SweepWrites
  <2>1. Swept(copy) \in [Batches -> Lines]
    BY DEF Swept, Lines, Statuses
  <2> QED
    BY <1>3, <1>e, <2>1 DEF SweepWrites, Dies, DueBatches
<1>4. CASE InterruptedAnnounced
  BY <1>4 DEF InterruptedAnnounced
<1>5. CASE Poll
  BY <1>5 DEF Poll, DueBatches
<1>6. CASE ListExhausted
  BY <1>6 DEF ListExhausted
<1>7. ASSUME NEW b \in Batches, SkipBusy(b) PROVE TypedControl'
  BY <1>7 DEF SkipBusy
<1>8. ASSUME NEW b \in Batches, Claim(b) PROVE TypedControl'
  <2>1. UpdateStatus(queue, b, "running") \in [Batches -> Lines]
    BY <1>s
  <2> QED
    BY <1>8, <2>1 DEF Claim, TryAcquire
<1>9. CASE PreflightEnds
  BY <1>9 DEF PreflightEnds, Outcomes
<1>10. CASE PostingEnds
  BY <1>10 DEF PostingEnds
<1>11. CASE RecordHistory \/ RecordCrash
  <2>1. RowsDue \subseteq RowKinds
    BY <1>11 DEF RecordHistory, RecordCrash, RowsDue, RowsOf, RowKinds, Outcomes
  <2>2. history' \in [Batches -> SUBSET RowKinds] /\ tail' \in Tails
    BY <1>11, <2>1 DEF RecordHistory, RecordCrash, AppendCompletes, AppendStops,
       Tails
  <2> QED
    BY <1>11, <2>2 DEF RecordHistory, RecordCrash
<1>12. CASE SealStatus \/ KeepUnrecorded
  <2>1. queue' \in [Batches -> Lines]
    BY <1>12, <1>s DEF SealStatus, KeepUnrecorded
  <2> QED
    BY <1>12, <2>1 DEF SealStatus, KeepUnrecorded
<1>13. CASE PruneRecorded \/ PruneCrashed
  <2>1. PruneBatch(queue, batch) \in [Batches -> Lines]
    BY <1>13, <1>q DEF PruneRecorded, PruneCrashed
  <2>2. guard' \in BOOLEAN /\ faults' \in Nat
    <3>1. guard' \in BOOLEAN
      BY <1>13 DEF PruneRecorded, PruneCrashed, Release, ReleaseGuard
    <3>2. faults' \in Nat
      BY <1>13 DEF PruneRecorded, PruneCrashed, Release, ReleaseGuard
    <3> QED BY <3>1, <3>2
  <2> QED
    BY <1>13, <2>1, <2>2 DEF PruneRecorded, PruneCrashed, Release, ReleaseGuard
<1>14. CASE DeletePostedMedia
  BY <1>14 DEF DeletePostedMedia, Release, ReleaseGuard
<1>15. CASE RunNotified
  BY <1>15 DEF RunNotified, Release, ReleaseGuard
<1>16. CASE AddSaves
  <2>1. queue' \in [Batches -> Lines]
    <3>1. [Loaded(queue) EXCEPT ![apiBatch] = [status |-> "pending", due |-> FALSE]]
             \in [Batches -> Lines]
      BY <1>16, <1>q, <1>d DEF AddSaves, Statuses
    <3> QED BY <1>16, <3>1 DEF AddSaves
  <2>2. answer' \in [Batches -> {"none", "refused", "accepted", "withdrawn"}]
    BY <1>16 DEF AddSaves
  <2>3. faults' \in Nat
    BY <1>16 DEF AddSaves
  <2> QED
    BY <1>16, <2>1, <2>2, <2>3 DEF AddSaves
<1>17. CASE DeleteWithdrawnMedia
  BY <1>17 DEF DeleteWithdrawnMedia
<1>18. ASSUME NEW b \in Batches, AddSnapshots(b) PROVE TypedControl'
  BY <1>18 DEF AddSnapshots
<1>19. ASSUME NEW b \in Batches, CancelOrDismiss(b) PROVE TypedControl'
  <2>1. PruneBatch(queue, b) \in [Batches -> Lines]
    BY <1>q
  <2> QED
    BY <1>19, <2>1 DEF CancelOrDismiss
<1>20. ASSUME NEW b \in Batches, UpdateFireTime(b) PROVE TypedControl'
  <2>1. [Loaded(queue) EXCEPT ![b].due = FALSE] \in [Batches -> Lines]
    BY <1>q, <1>d DEF Statuses
  <2> QED
    BY <1>20, <2>1 DEF UpdateFireTime
<1>21. ASSUME NEW b \in Batches, RemoveSnapshot(b) PROVE TypedControl'
  BY <1>21 DEF RemoveSnapshot
<1>22. CASE Boot
  BY <1>22 DEF Boot
<1>23. CASE Kill \/ RestartAfterDeath
  <2>1. guard' \in BOOLEAN /\ manual' \in BOOLEAN /\ startup' \in BOOLEAN
    BY <1>23 DEF Kill, RestartAfterDeath, ProcessEnds
  <2>2. faults' \in Nat
    BY <1>23 DEF Kill, RestartAfterDeath
  <2> QED
    BY <1>23, <1>e, <2>1, <2>2 DEF Kill, RestartAfterDeath, ProcessEnds, Tails
<1>24. CASE KillMidAppend
  <2>1. RowsDue \subseteq RowKinds
    BY <1>24 DEF KillMidAppend, RowsDue, RowsOf, RowKinds, Outcomes
  <2>2. history' \in [Batches -> SUBSET RowKinds] /\ tail' \in Tails
    BY <1>24, <2>1 DEF KillMidAppend, AppendStops, Tails
  <2>3. guard' \in BOOLEAN /\ manual' \in BOOLEAN /\ startup' \in BOOLEAN
    BY <1>24 DEF KillMidAppend, ProcessEnds
  <2>4. faults' \in Nat
    BY <1>24 DEF KillMidAppend
  <2> QED
    BY <1>24, <1>e, <2>2, <2>3, <2>4 DEF KillMidAppend, ProcessEnds
<1>25. CASE ManualRunStarts \/ ManualRunEnds
  <2>1. guard' \in BOOLEAN /\ manual' \in BOOLEAN
    BY <1>25 DEF ManualRunStarts, ManualRunEnds, TryAcquire, ReleaseGuard
  <2>2. manuals' \in Nat /\ faults' \in Nat
    BY <1>25 DEF ManualRunStarts, ManualRunEnds
  <2>3. tail' \in Tails
    BY <1>25 DEF ManualRunStarts, ManualRunEnds, Tails
  <2> QED
    BY <1>25, <2>1, <2>2, <2>3 DEF ManualRunStarts, ManualRunEnds
<1>26. ASSUME NEW b \in Batches, DamageLine(b) PROVE TypedControl'
  <2>1. [queue EXCEPT ![b].status = "unreadable"] \in [Batches -> Lines]
    BY <1>d
  <2> QED
    BY <1>26, <2>1 DEF DamageLine
<1>27. ASSUME NEW b \in Batches, FireTimePasses(b) PROVE TypedControl'
  <2>1. /\ [queue EXCEPT ![b].due = TRUE] \in [Batches -> Lines]
        /\ [copy EXCEPT ![b].due = TRUE] \in [Batches -> Lines]
    BY <1>d DEF Statuses
  <2>2. copy'  # copy => at \in {"reporting", "sweeping"}
    BY <1>27 DEF FireTimePasses, EmptyQueue, NoLine
  <2>3. queue' \in [Batches -> Lines] /\ copy' \in [Batches -> Lines]
    BY <1>27, <2>1 DEF FireTimePasses
  <2> QED
    BY <1>27, <2>2, <2>3 DEF FireTimePasses
<1>28. CASE UNCHANGED vars
  BY <1>28 DEF vars
<1> QED
  BY <1>1, <1>2, <1>3, <1>4, <1>5, <1>6, <1>7, <1>8, <1>9, <1>10, <1>11, <1>12,
     <1>13, <1>14, <1>15, <1>16, <1>17, <1>18, <1>19, <1>20, <1>21, <1>22,
     <1>23, <1>24, <1>25, <1>26, <1>27, <1>28
     DEF Next, SchedulerStep, EndpointStep, Environment

(* Every variable of the server keeps its type, and the program counters   *)
(* keep their meaning, whatever fails.                                     *)
THEOREM TypeCorrect == Spec => []TypeOK
<1>1. TypedControl => TypeOK
  BY DEF TypedControl
<1> QED
  BY TypedInit, TypedStep, <1>1, PTL DEF Spec

-----------------------------------------------------------------------------
(* The run guard.                                                          *)

LEMMA GuardStep == GuardInv /\ [Next]_vars => GuardInv'
<1> SUFFICES ASSUME GuardInv, [Next]_vars PROVE GuardInv'
  OBVIOUS
<1> USE DEF GuardInv, GuardMatchesRuns, SingleRun, InRun, RunStates, Awaits,
        TryAcquire, ReleaseGuard, Release, disk, task, api, ghosts
<1>1. CASE \/ SweepReads \/ MalformedReported \/ SweepWrites
           \/ InterruptedAnnounced \/ Poll \/ ListExhausted \/ Boot
  BY <1>1 DEF SweepReads, MalformedReported, SweepWrites, InterruptedAnnounced,
     Poll, ListExhausted, Boot, Dies
<1>2. ASSUME NEW b \in Batches, SkipBusy(b) PROVE GuardInv'
  BY <1>2 DEF SkipBusy
<1>3. ASSUME NEW b \in Batches, Claim(b) PROVE GuardInv'
  BY <1>3 DEF Claim
<1>4. CASE PreflightEnds \/ PostingEnds \/ RecordHistory \/ SealStatus
           \/ KeepUnrecorded \/ RecordCrash
  BY <1>4 DEF PreflightEnds, PostingEnds, RecordHistory, SealStatus,
     KeepUnrecorded, RecordCrash
<1>5. CASE PruneRecorded
  BY <1>5 DEF PruneRecorded
<1>6. CASE PruneCrashed
  BY <1>6 DEF PruneCrashed
<1>7. CASE DeletePostedMedia \/ RunNotified
  BY <1>7 DEF DeletePostedMedia, RunNotified
<1>8. CASE AddSaves \/ DeleteWithdrawnMedia
  BY <1>8 DEF AddSaves, DeleteWithdrawnMedia
<1>9. ASSUME NEW b \in Batches,
             \/ AddSnapshots(b) \/ CancelOrDismiss(b) \/ UpdateFireTime(b)
             \/ RemoveSnapshot(b) \/ DamageLine(b) \/ FireTimePasses(b)
      PROVE GuardInv'
  BY <1>9 DEF AddSnapshots, CancelOrDismiss, UpdateFireTime, RemoveSnapshot,
     DamageLine, FireTimePasses
<1>10. CASE Kill \/ KillMidAppend \/ RestartAfterDeath
  BY <1>10 DEF Kill, KillMidAppend, RestartAfterDeath, ProcessEnds
<1>11. CASE ManualRunStarts \/ ManualRunEnds
  BY <1>11 DEF ManualRunStarts, ManualRunEnds
<1>12. CASE UNCHANGED vars
  BY <1>12 DEF vars
<1> QED
  BY <1>1, <1>2, <1>3, <1>4, <1>5, <1>6, <1>7, <1>8, <1>9, <1>10, <1>11, <1>12
     DEF Next, SchedulerStep, EndpointStep, Environment

(* run_guard: a manual and a scheduled posting run never overlap, the      *)
(* guard is held exactly while one of them is in progress, on every path   *)
(* out of execute_batch and through every crash.                           *)
THEOREM GuardCorrect == Spec => [](GuardMatchesRuns /\ SingleRun)
<1>1. Init => GuardInv
  BY DEF Init, GuardInv, GuardMatchesRuns, SingleRun, InRun, RunStates
<1> QED
  BY <1>1, GuardStep, PTL DEF Spec, GuardInv

(* run_guard.py: the guard is held exactly while a run is in progress, so  *)
(* that it is neither left behind by a crash nor given away in a run.      *)
THEOREM GuardMatchesRunsCorrect == Spec => []GuardMatchesRuns
BY GuardCorrect, PTL

-----------------------------------------------------------------------------
(* A step that posts nothing, accepts nothing and only rewrites the queue  *)
(* from itself or from the sweep's copy.                                   *)
LEMMA QuietStep ==
  ASSUME TypedControl, OnceInv,
         ComesFrom(queue', queue) \/ ComesFrom(queue', copy),
         ComesFrom(copy', copy) \/ ComesFrom(copy', queue),
         UNCHANGED <<runs, answer>>,
         at' = "checking" => at = "checking" /\ UNCHANGED batch,
         apiOp' = "saving" => UNCHANGED <<apiOp, apiBatch>>
  PROVE  OnceInv'
<1>1. at' = "checking" => Claimed(batch)'
  BY DEF TypedControl, TypeOK, Control, RunStates, OnceInv, Claimed, ComesFrom,
     EmptyQueue, NoLine
<1> QED
  BY <1>1 DEF TypedControl, TypeOK, OnceInv, Unlisted, ComesFrom

LEMMA OnceStep == TypedControl /\ OnceInv /\ [Next]_vars => OnceInv'
<1> SUFFICES ASSUME TypedControl, OnceInv, [Next]_vars PROVE OnceInv'
  OBVIOUS
<1> USE DEF TypedControl, TypeOK, Control, RunStates, Awaits, disk, task, api,
        ghosts
<1>q. /\ ComesFrom(queue, queue) /\ ComesFrom(copy, copy)
      /\ ComesFrom(Swept(copy), copy) /\ ComesFrom(EmptyQueue, copy)
      /\ ComesFrom(Loaded(queue), queue)
      /\ \A b \in Batches : ComesFrom(PruneBatch(queue, b), queue)
      /\ \A b \in Batches, s \in Statuses \ {"pending"} :
           ComesFrom(UpdateStatus(queue, b, s), queue)
  BY RewritesCreateNothing
<1>s. Outcomes \cup {"running"} \subseteq Statuses \ {"pending"}
  BY DEF Outcomes, Statuses
<1>c. at = "checking" => batch \in Batches /\ Claimed(batch)
  BY DEF OnceInv
<1>1. CASE SweepReads
  BY <1>1, <1>q, QuietStep DEF SweepReads, Dies
<1>2. CASE \/ MalformedReported \/ InterruptedAnnounced \/ Poll \/ ListExhausted
           \/ Boot \/ DeletePostedMedia \/ RunNotified \/ PostingEnds
           \/ RecordHistory \/ RecordCrash
  BY <1>2, <1>q, QuietStep DEF MalformedReported, InterruptedAnnounced, Poll,
     ListExhausted, Boot, DeletePostedMedia, RunNotified, PostingEnds,
     RecordHistory, RecordCrash
<1>3. CASE SweepWrites
  BY <1>3, <1>q, QuietStep DEF SweepWrites, Dies
<1>4. ASSUME NEW b \in Batches, SkipBusy(b) PROVE OnceInv'
  BY <1>4, <1>q, QuietStep DEF SkipBusy
<1>5. ASSUME NEW b \in Batches, Claim(b) PROVE OnceInv'
  <2>1. CASE ~Claimable(queue, b) \/ at' # "checking"
    BY <1>5, <1>q, <1>s, <2>1, QuietStep DEF Claim
  <2>2. CASE Claimable(queue, b) /\ at' = "checking"
    <3>1. /\ runs[b] = 0 /\ answer[b] \notin {"none", "refused"}
          /\ UpdateStatus(queue, b, "running")[b].status = "running"
      BY <2>2 DEF Claimable, UpdateStatus, Loaded, Readable, Statuses, Lines,
         OnceInv, Unlisted
    <3>2. ComesFrom(queue', queue) /\ queue'[b].status = "running"
      BY <1>5, <1>q, <1>s, <2>2, <3>1 DEF Claim
    <3>3. UNCHANGED <<runs, answer, copy, apiOp, apiBatch>> /\ batch' = b
      BY <1>5 DEF Claim
    <3> QED
      BY <3>1, <3>2, <3>3 DEF OnceInv, Unlisted, Claimed, ComesFrom
  <2> QED
    BY <2>1, <2>2
<1>6. CASE PreflightEnds
  <2>1. /\ batch \in Batches /\ runs[batch] = 0 /\ queue[batch].status # "pending"
        /\ \A c \in Batches : copy[c].status = "absent"
    BY <1>6, <1>c DEF PreflightEnds, EmptyQueue, NoLine, Claimed
  <2>2. answer[batch] \notin {"none", "refused"}
    BY <1>6, <1>c DEF PreflightEnds, Claimed
  <2>3. runs' \in {runs, [runs EXCEPT ![batch] = 1]}
    BY <1>6, <2>1 DEF PreflightEnds
  <2>4. UNCHANGED <<queue, copy, answer, apiOp, apiBatch>> /\ at' # "checking"
    BY <1>6 DEF PreflightEnds
  <2> QED
    BY <2>1, <2>2, <2>3, <2>4 DEF OnceInv, Unlisted
<1>7. CASE SealStatus \/ KeepUnrecorded
  BY <1>7, <1>q, <1>s, QuietStep DEF SealStatus, KeepUnrecorded
<1>8. CASE PruneRecorded \/ PruneCrashed
  BY <1>8, <1>q, QuietStep DEF PruneRecorded, PruneCrashed
<1>9. CASE AddSaves
  <2>1. CASE UNCHANGED <<queue, answer>>
    BY <1>9, <1>q, <1>c, <2>1, QuietStep DEF AddSaves
  <2>2. CASE /\ queue' = [Loaded(queue) EXCEPT
                            ![apiBatch] = [status |-> "pending", due |-> FALSE]]
             /\ answer' = [answer EXCEPT ![apiBatch] = "accepted"]
    <3>1. /\ apiBatch \in Batches /\ Unlisted(apiBatch)
          /\ answer[apiBatch] = "refused"
          /\ at = "checking" => Claimed(batch) /\ apiBatch # batch
      BY <1>9, <1>c DEF AddSaves, OnceInv, Unlisted, Claimed
    <3>2. UNCHANGED <<runs, copy, at, batch>> /\ apiOp' = "idle"
      BY <1>9 DEF AddSaves
    <3>3. \A c \in Batches \ {apiBatch} :
            /\ queue'[c].status = "pending" => queue[c].status = "pending"
            /\ queue[c].status = "absent" => queue'[c].status = "absent"
      BY <2>2, <3>1 DEF Loaded, Readable, NoLine, Statuses
    <3> QED
      BY <2>2, <3>1, <3>2, <3>3 DEF OnceInv, Unlisted, Claimed
  <2> QED
    BY <1>9, <2>1, <2>2 DEF AddSaves
<1>10. CASE DeleteWithdrawnMedia \/ ManualRunStarts \/ ManualRunEnds
  BY <1>10, <1>q, <1>c, QuietStep DEF DeleteWithdrawnMedia, ManualRunStarts,
     ManualRunEnds
<1>11. ASSUME NEW b \in Batches, AddSnapshots(b) PROVE OnceInv'
  BY <1>11, <1>c DEF AddSnapshots, OnceInv, Unlisted, Claimed
<1>12. ASSUME NEW b \in Batches, CancelOrDismiss(b) PROVE OnceInv'
  <2>1. answer[b] \notin {"none", "refused"}
    BY <1>12 DEF CancelOrDismiss, Withdrawable, OnceInv, Unlisted
  <2> QED
    BY <1>12, <1>q, <1>c, <2>1
       DEF CancelOrDismiss, OnceInv, Unlisted, ComesFrom, Claimed
<1>13. ASSUME NEW b \in Batches, UpdateFireTime(b) PROVE OnceInv'
  <2>1. ComesFrom(queue', queue)
    BY <1>13, <1>q DEF UpdateFireTime, ComesFrom, Loaded, Lines, NoLine
  <2> QED
    BY <1>13, <1>q, <2>1, QuietStep DEF UpdateFireTime
<1>14. ASSUME NEW b \in Batches, RemoveSnapshot(b) PROVE OnceInv'
  BY <1>14, <1>q, <1>c, QuietStep DEF RemoveSnapshot
<1>15. ASSUME NEW b \in Batches, DamageLine(b) PROVE OnceInv'
  <2>1. ComesFrom(queue', queue)
    BY <1>15 DEF DamageLine, ComesFrom, Readable, Statuses
  <2> QED
    BY <1>15, <1>q, <2>1, QuietStep DEF DamageLine
<1>16. ASSUME NEW b \in Batches, FireTimePasses(b) PROVE OnceInv'
  <2>1. ComesFrom(queue', queue) /\ ComesFrom(copy', copy)
    BY <1>16, <1>q DEF FireTimePasses, ComesFrom
  <2> QED
    BY <1>16, <2>1, QuietStep DEF FireTimePasses
<1>17. CASE Kill \/ KillMidAppend \/ RestartAfterDeath
  BY <1>17, <1>q, QuietStep DEF Kill, KillMidAppend, RestartAfterDeath, ProcessEnds
<1>18. CASE UNCHANGED vars
  BY <1>18, <1>q, <1>c, QuietStep DEF vars
<1> QED
  BY <1>1, <1>2, <1>3, <1>4, <1>5, <1>6, <1>7, <1>8, <1>9, <1>10, <1>11, <1>12,
     <1>13, <1>14, <1>15, <1>16, <1>17, <1>18
     DEF Next, SchedulerStep, EndpointStep, Environment

(* scheduler_loop: "Retrying cannot double-post".  Whatever fails, however *)
(* often the process dies, and even when queue lines are damaged and the   *)
(* sweep writes a stale copy back, post_fn is called at most once for each *)
(* batch.                                                                  *)
THEOREM PostedAtMostOnceCorrect == Spec => []PostedAtMostOnce
<1>1. Init => OnceInv
  BY DEF Init, OnceInv, Unlisted, EmptyQueue, NoLine
<1>2. TypedControl /\ OnceInv => PostedAtMostOnce
  BY DEF TypedControl, OnceInv, PostedAtMostOnce
<1> QED
  BY TypedInit, TypedStep, OnceStep, <1>1, <1>2, PTL DEF Spec
-----------------------------------------------------------------------------
(* From here on, for the choices of faults without damaged lines.          *)

NoDamage == "damage" \notin Faults

(* Rewriting a queue whose lines can all be read changes one line only.    *)
LEMMA LegibleRewrites ==
  ASSUME NEW q \in [Batches -> Lines], Legible(q), NEW b \in Batches
  PROVE  /\ Loaded(q) = q /\ MalformedLines(q) = {}
         /\ PruneBatch(q, b) = [q EXCEPT ![b] = NoLine]
         /\ \A s \in Statuses :
              UpdateStatus(q, b, s) = IF Readable(q, b)
                                      THEN [q EXCEPT ![b].status = s] ELSE q
<1>1. Loaded(q) = q
  BY DEF Loaded, Legible
<1>2. MalformedLines(q) = {}
  BY DEF MalformedLines, Legible, Readable, NoLine, Statuses
<1> QED
  BY <1>1, <1>2 DEF PruneBatch, UpdateStatus

(* It also stays such a queue, whichever way the code rewrites it.         *)
LEMMA LegibleKept ==
  ASSUME NEW q \in [Batches -> Lines], Legible(q), NEW b \in Batches
  PROVE  /\ Legible([q EXCEPT ![b] = NoLine])
         /\ \A l \in Lines : l.status \in Statuses => Legible([q EXCEPT ![b] = l])
         /\ \A s \in Statuses : Legible([q EXCEPT ![b].status = s])
         /\ \A d \in BOOLEAN : Readable(q, b) => Legible([q EXCEPT ![b].due = d])
         /\ Legible(Swept(q)) /\ Legible(EmptyQueue)
<1> USE DEF Legible, Readable
<1>1. Legible([q EXCEPT ![b] = NoLine])
  OBVIOUS
<1>2. \A l \in Lines : l.status \in Statuses => Legible([q EXCEPT ![b] = l])
  OBVIOUS
<1>3. \A s \in Statuses : Legible([q EXCEPT ![b].status = s])
  BY DEF Lines
<1>4. \A d \in BOOLEAN : Readable(q, b) => Legible([q EXCEPT ![b].due = d])
  BY DEF Lines
<1>5. Legible(Swept(q))
  BY DEF Swept, Lines, Statuses, NoLine
<1>6. Legible(EmptyQueue)
  BY DEF EmptyQueue
<1> QED
  BY <1>1, <1>2, <1>3, <1>4, <1>5, <1>6

-----------------------------------------------------------------------------
(* The steady invariant.                                                    *)

(* The steady invariant holds at first, and each step keeps it.            *)
LEMMA SteadyInit == Init => SteadyInv
  BY DEF Init, SteadyInv, Legible, EmptyQueue, NoLine, Readable, Statuses, Awaits

(* No step breaks it: an endpoint only interrupts the task at an await, so *)
(* what the task read of its batch's line still holds when it writes it.   *)
LEMMA SteadyStep ==
  ASSUME NoDamage, TypedControl, OnceInv, SteadyInv, [Next]_vars
  PROVE  SteadyInv'
<1> USE DEF TypedControl, TypeOK, Control, RunStates, Awaits, disk, task, api,
        ghosts
<1>r. /\ Loaded(queue) = queue /\ MalformedLines(queue) = {}
      /\ \A b \in Batches : PruneBatch(queue, b) = [queue EXCEPT ![b] = NoLine]
      /\ \A b \in Batches, s \in Statuses :
           UpdateStatus(queue, b, s) =
             IF Readable(queue, b) THEN [queue EXCEPT ![b].status = s] ELSE queue
  <2>1. CASE Batches = {}
    BY <2>1 DEF Loaded, MalformedLines
  <2>2. CASE Batches # {}
    BY <2>2, LegibleRewrites DEF SteadyInv
  <2> QED
    BY <2>1, <2>2
<1>s. Outcomes \cup {"running"} \subseteq Statuses \ {"pending"}
  BY DEF Outcomes, Statuses
<1>1. CASE SweepReads
  BY <1>1, <1>r DEF SweepReads, Dies, SteadyInv
<1>2. CASE MalformedReported \/ InterruptedAnnounced \/ Boot \/ ListExhausted
           \/ ManualRunStarts \/ ManualRunEnds \/ DeleteWithdrawnMedia
  BY <1>2 DEF MalformedReported, InterruptedAnnounced, ListExhausted, Boot,
     ManualRunStarts, ManualRunEnds, DeleteWithdrawnMedia, TaskTurn, SteadyInv
<1>3. CASE SweepWrites
  <2>1. Legible(Swept(queue))
    <3>1. ASSUME NEW b \in Batches
          PROVE  Swept(queue)[b] = NoLine \/ Readable(Swept(queue), b)
      <4>1. queue[b] = NoLine \/ Readable(queue, b)
        BY DEF SteadyInv, Legible
      <4> QED
        BY <4>1 DEF Readable, Swept, Lines, Statuses, NoLine
    <3> QED
      BY <3>1 DEF Legible
  <2>2. \A b \in Batches :
          /\ Readable(Swept(queue), b) => Readable(queue, b)
          /\ b \in DueBatches(queue)
               => Swept(queue)[b].status \notin {"running", "interrupted"}
               /\ queue[b].status \notin {"running", "interrupted"}
    BY DEF Readable, Swept, DueBatches, Lines, Statuses
  <2>3. copy = queue
    BY <1>3 DEF SweepWrites, SteadyInv
  <2>4. queue' \in {queue, Swept(queue)} /\ todo' \in {{}, DueBatches(queue)}
    BY <1>3, <2>3 DEF SweepWrites, Dies
  <2> QED
    BY <1>3, <2>1, <2>2, <2>4 DEF SweepWrites, Dies, SteadyInv, DueBatches,
       Legible, Readable
<1>4. CASE Poll
  BY <1>4 DEF Poll, TaskTurn, SteadyInv, DueBatches, NoDamage
<1>5. ASSUME NEW b \in Batches, SkipBusy(b) PROVE SteadyInv'
  BY <1>5 DEF SkipBusy, SteadyInv
<1>6. ASSUME NEW b \in Batches, Claim(b) PROVE SteadyInv'
  <2> DEFINE claimed == [queue EXCEPT ![b].status = "running"]
  <2>1. Claimable(queue, b) => UpdateStatus(queue, b, "running") = claimed
    BY <1>r, <1>s DEF Claimable, Readable, Statuses
  <2>2. Claimable(queue, b) => Legible(claimed) /\ Readable(queue, b)
    BY <1>s DEF Claimable, Readable, Legible, SteadyInv, Statuses, Lines
  <2>3. queue[b].status \notin {"running", "interrupted"} /\ b \notin todo'
    BY <1>6 DEF Claim, SteadyInv
  <2>4. /\ claimed[b].status = "running" /\ claimed[b].due = queue[b].due
        /\ \A c \in Batches \ {b} : claimed[c] = queue[c]
    BY DEF Lines
  <2>5. \/ queue' = queue /\ at' \in {"notifying", "crashed"}
        \/ /\ Claimable(queue, b) /\ queue' = claimed
           /\ at' \in {"checking", "crashed"}
    BY <1>6, <2>1 DEF Claim
  <2>6. /\ todo' \subseteq todo /\ batch' = b
        /\ UNCHANGED <<answer, apiOp, copy>> /\ apiOp = "idle"
    BY <1>6 DEF Claim, SteadyInv
  <2> HIDE DEF claimed
  <2>7. CASE queue' = queue /\ at' \in {"notifying", "crashed"}
    BY <2>3, <2>6, <2>7 DEF SteadyInv
  <2>8. CASE /\ Claimable(queue, b) /\ queue' = claimed
             /\ at' \in {"checking", "crashed"}
    BY <2>2, <2>3, <2>4, <2>6, <2>8 DEF SteadyInv, Claimable, Readable, Legible
  <2> QED
    BY <2>5, <2>7, <2>8
<1>7. CASE PreflightEnds \/ PostingEnds
  BY <1>7 DEF PreflightEnds, PostingEnds, TaskTurn, SteadyInv
<1>8. CASE RecordHistory \/ RecordCrash
  BY <1>8 DEF RecordHistory, RecordCrash, SteadyInv
<1>9. CASE SealStatus \/ KeepUnrecorded
  <2> DEFINE marked == [queue EXCEPT ![batch].status = result]
  <2>1. /\ queue[batch].status = "running" /\ batch \in Batches
        /\ result \in Outcomes
    BY <1>9 DEF SealStatus, KeepUnrecorded, SteadyInv
  <2>2. UpdateStatus(queue, batch, result) = marked
    BY <1>r, <1>s, <2>1 DEF Readable, Statuses
  <2>3. Legible(marked) /\ Readable(queue, batch)
    BY <1>s, <2>1 DEF Readable, Legible, SteadyInv, Statuses, Lines
  <2>4. /\ marked[batch].status = result
        /\ \A c \in Batches \ {batch} : marked[c] = queue[c]
    BY <2>1 DEF Lines
  <2>5. queue' = marked \/ (queue' = queue /\ at' = "notifying")
    BY <1>9, <2>2 DEF SealStatus, KeepUnrecorded
  <2>6. UNCHANGED <<todo, batch, result, answer, apiOp, copy>>
        /\ at' \in {"pruning", "notifying"} /\ apiOp = "idle"
        /\ result \notin {"running", "interrupted"}
    BY <1>9, <2>1 DEF SealStatus, KeepUnrecorded, SteadyInv, Outcomes
  <2> HIDE DEF marked
  <2> QED
    BY <2>1, <2>3, <2>4, <2>5, <2>6 DEF SteadyInv, Legible, Readable
<1>10. CASE PruneRecorded \/ PruneCrashed
  <2> DEFINE pruned == [queue EXCEPT ![batch] = NoLine]
  <2>1. batch \in Batches /\ PruneBatch(queue, batch) = pruned
    BY <1>10, <1>r DEF PruneRecorded, PruneCrashed
  <2>2. Legible(pruned)
    BY <2>1 DEF Legible, SteadyInv, Readable
  <2>3. /\ pruned[batch] = NoLine
        /\ \A c \in Batches \ {batch} : pruned[c] = queue[c]
    BY <2>1
  <2>4. /\ queue' \in {pruned, queue} /\ todo' \subseteq todo
        /\ UNCHANGED <<answer, apiOp, copy>> /\ apiOp = "idle"
        /\ at' \in {"cleaning", "notifying", "picking", "dead", "sleeping"}
        /\ at' = "cleaning" => queue' = pruned /\ UNCHANGED batch
    BY <1>10, <2>1 DEF PruneRecorded, PruneCrashed, Release, SteadyInv
  <2>5. \A c \in Batches :
          /\ Readable(pruned, c) => Readable(queue, c)
          /\ pruned[c].status \in {"running", "interrupted"}
               => pruned[c] = queue[c]
    BY <2>3 DEF Readable, NoLine, Statuses
  <2> HIDE DEF pruned
  <2>6. CASE queue' = pruned
    BY <2>1, <2>2, <2>3, <2>4, <2>5, <2>6 DEF SteadyInv
  <2>7. CASE queue' = queue
    BY <2>1, <2>3, <2>4, <2>7 DEF SteadyInv
  <2> QED
    BY <2>4, <2>6, <2>7
<1>11. CASE DeletePostedMedia \/ RunNotified
  BY <1>11 DEF DeletePostedMedia, RunNotified, Release, TaskTurn, SteadyInv
<1>12. CASE AddSaves
  <2>1. CASE UNCHANGED <<queue, answer>>
    BY <1>12, <2>1 DEF AddSaves, SteadyInv
  <2>2. CASE /\ queue' = [Loaded(queue) EXCEPT
                            ![apiBatch] = [status |-> "pending", due |-> FALSE]]
             /\ answer' = [answer EXCEPT ![apiBatch] = "accepted"]
    <3>1. /\ apiBatch \in Batches /\ at \in Awaits \cup {"dead"}
          /\ queue[apiBatch].status = "absent"
          /\ apiOp' = "idle" /\ UNCHANGED <<at, batch, todo, copy, result>>
      BY <1>12 DEF AddSaves, OnceInv, Unlisted, SteadyInv
    <3>2. /\ queue'[apiBatch] = [status |-> "pending", due |-> FALSE]
          /\ \A c \in Batches \ {apiBatch} :
               queue'[c] = queue[c] /\ answer'[c] = answer[c]
          /\ answer'[apiBatch] = "accepted"
      BY <1>r, <2>2, <3>1
    <3>3. Legible(queue')
      BY <3>1, <3>2 DEF SteadyInv, Legible, Readable, Statuses
    <3> QED
      BY <3>1, <3>2, <3>3 DEF SteadyInv, Readable
  <2> QED
    BY <1>12, <2>1, <2>2 DEF AddSaves
<1>13. ASSUME NEW b \in Batches, AddSnapshots(b) PROVE SteadyInv'
  <2>1. queue[b].status = "absent"
    BY <1>13 DEF AddSnapshots, OnceInv, Unlisted
  <2> QED
    BY <1>13, <2>1 DEF AddSnapshots, LoopFree, SteadyInv, Readable, Statuses
<1>14. ASSUME NEW b \in Batches, CancelOrDismiss(b) PROVE SteadyInv'
  <2>1. /\ queue' = [queue EXCEPT ![b] = NoLine]
        /\ queue[b].status \in {"pending", "interrupted"}
        /\ at \in Awaits \cup {"dead"} /\ UNCHANGED <<at, batch, todo, copy, result>>
        /\ answer' = [answer EXCEPT ![b] = "withdrawn"]
    BY <1>14, <1>r DEF CancelOrDismiss, Withdrawable, LoopFree
  <2>2. /\ queue'[b] = NoLine
        /\ \A c \in Batches \ {b} :
             queue'[c] = queue[c] /\ answer'[c] = answer[c]
    BY <2>1
  <2>3. Legible(queue')
    BY <2>2 DEF SteadyInv, Legible, Readable
  <2> QED
    BY <1>14, <2>1, <2>2, <2>3 DEF CancelOrDismiss, SteadyInv, Readable, NoLine,
       Statuses
<1>15. ASSUME NEW b \in Batches, UpdateFireTime(b) PROVE SteadyInv'
  <2>1. /\ queue' = [queue EXCEPT ![b].due = FALSE]
        /\ queue[b].status = "pending"
        /\ at \in Awaits \cup {"dead"} /\ apiOp = "idle"
        /\ UNCHANGED <<at, batch, todo, copy, result, apiOp, answer>>
    BY <1>15, <1>r DEF UpdateFireTime, LoopFree
  <2>2. /\ queue'[b].status = "pending"
        /\ \A c \in Batches \ {b} : queue'[c] = queue[c]
    BY <2>1 DEF Lines
  <2> QED
    BY <2>1, <2>2 DEF SteadyInv, Legible, Readable, Statuses
<1>16. ASSUME NEW b \in Batches, RemoveSnapshot(b) PROVE SteadyInv'
  BY <1>16 DEF RemoveSnapshot, SteadyInv
<1>17. ASSUME NEW b \in Batches, DamageLine(b) PROVE SteadyInv'
  BY <1>17 DEF DamageLine, Fault, NoDamage
<1>18. ASSUME NEW b \in Batches, FireTimePasses(b) PROVE SteadyInv'
  <2>1. CASE UNCHANGED queue
    <3>1. at \notin {"reporting", "sweeping"} /\ UNCHANGED at
      BY <1>18, <2>1 DEF FireTimePasses, LoopFree, SteadyInv
    <3> QED
      BY <1>18, <2>1, <3>1 DEF FireTimePasses, SteadyInv
  <2>2. CASE /\ queue' = [queue EXCEPT ![b].due = TRUE]
             /\ queue[b].status = "pending"
    <3>1. /\ at \in Awaits \cup {"dead", "off"}
          /\ UNCHANGED <<at, batch, todo, result, apiOp, answer>>
      BY <1>18 DEF FireTimePasses, LoopFree
    <3>2. /\ queue'[b].status = "pending"
          /\ \A c \in Batches \ {b} : queue'[c] = queue[c]
      BY <2>2 DEF Lines
    <3> QED
      BY <2>2, <3>1, <3>2 DEF SteadyInv, Legible, Readable, Statuses
  <2> QED
    BY <1>18, <2>1, <2>2 DEF FireTimePasses
<1>19. CASE Kill \/ KillMidAppend \/ RestartAfterDeath
  BY <1>19 DEF Kill, KillMidAppend, RestartAfterDeath, ProcessEnds, SteadyInv
<1>20. CASE UNCHANGED vars
  BY <1>20 DEF vars, SteadyInv
<1> QED
  BY <1>1, <1>2, <1>3, <1>4, <1>5, <1>6, <1>7, <1>8, <1>9, <1>10, <1>11, <1>12,
     <1>13, <1>14, <1>15, <1>16, <1>17, <1>18, <1>19, <1>20
     DEF Next, SchedulerStep, EndpointStep, Environment

-----------------------------------------------------------------------------
(* What may be posted.                                                      *)

(* Only the end of the pre-flight checks starts a post, and it starts one. *)
LEMMA OnlyPreflightPosts ==
  ASSUME [Next]_vars
  PROVE  UNCHANGED runs \/ PreflightEnds
<1> USE DEF disk, task, api, ghosts
<1>1. CASE \/ SweepReads \/ MalformedReported \/ SweepWrites
           \/ InterruptedAnnounced \/ Poll \/ ListExhausted \/ Boot
           \/ PostingEnds \/ RecordHistory \/ RecordCrash \/ SealStatus
           \/ KeepUnrecorded \/ PruneRecorded \/ PruneCrashed
  BY <1>1 DEF SweepReads, MalformedReported, SweepWrites, InterruptedAnnounced,
     Poll, ListExhausted, Boot, PostingEnds, RecordHistory, RecordCrash,
     SealStatus, KeepUnrecorded, PruneRecorded, PruneCrashed
<1>2. CASE \/ DeletePostedMedia \/ RunNotified \/ AddSaves
           \/ DeleteWithdrawnMedia \/ ManualRunStarts \/ ManualRunEnds
           \/ Kill \/ KillMidAppend \/ RestartAfterDeath \/ UNCHANGED vars
  BY <1>2 DEF DeletePostedMedia, RunNotified, AddSaves, DeleteWithdrawnMedia,
     ManualRunStarts, ManualRunEnds, Kill, KillMidAppend, RestartAfterDeath,
     ProcessEnds, vars
<1>3. ASSUME NEW b \in Batches,
             \/ SkipBusy(b) \/ Claim(b) \/ AddSnapshots(b) \/ CancelOrDismiss(b)
             \/ UpdateFireTime(b) \/ RemoveSnapshot(b) \/ DamageLine(b)
             \/ FireTimePasses(b)
      PROVE UNCHANGED runs
  BY <1>3 DEF SkipBusy, Claim, AddSnapshots, CancelOrDismiss, UpdateFireTime,
     RemoveSnapshot, DamageLine, FireTimePasses
<1> QED
  BY <1>1, <1>2, <1>3 DEF Next, SchedulerStep, EndpointStep, Environment

(* _abort_reason: as long as no queue line is damaged, only a batch that   *)
(* was accepted, has not been withdrawn and is due is ever posted, however *)
(* stale the list of due batches was, whatever fails and wherever the      *)
(* process dies.                                                           *)
THEOREM PostsOnlyWhatIsWantedCorrect ==
  ASSUME NoDamage
  PROVE  Spec => PostsOnlyWhatIsWanted
<1>1. ASSUME TypedControl, SteadyInv, [Next]_vars
      PROVE  [\A b \in Batches :
                runs'[b] > runs[b] => answer[b] = "accepted" /\ queue[b].due]_vars
  <2>1. CASE UNCHANGED runs
    BY <1>1, <2>1 DEF TypedControl, TypeOK
  <2>2. CASE PreflightEnds
    <3>1. /\ batch \in Batches /\ queue[batch].due
          /\ answer[batch] = "accepted"
      BY <1>1, <2>2 DEF PreflightEnds, TypedControl, Control, RunStates,
         SteadyInv, Readable, Statuses
    <3>2. \A c \in Batches \ {batch} : runs'[c] = runs[c] /\ runs[c] \in Nat
      BY <1>1, <2>2 DEF PreflightEnds, TypedControl, TypeOK
    <3> QED
      BY <3>1, <3>2
  <2> QED
    BY <1>1, <2>1, <2>2, OnlyPreflightPosts
<1>2. TypedControl /\ OnceInv /\ SteadyInv /\ [Next]_vars => SteadyInv'
  BY SteadyStep
<1>3. Init => OnceInv
  BY DEF Init, OnceInv, Unlisted, EmptyQueue, NoLine
<1> QED
  BY TypedInit, TypedStep, OnceStep, SteadyInit, <1>1, <1>2, <1>3, PTL
     DEF Spec, PostsOnlyWhatIsWanted

-----------------------------------------------------------------------------
(* The server implements BatchLifecycle.                                    *)

LiveStates == RunStates \ {"notifying"}

(* A batch the step does not touch keeps its stage.                        *)
Untouched(c) ==
  /\ queue'[c].status = queue[c].status
  /\ answer'[c] = answer[c]
  /\ LiveRun(c)' <=> LiveRun(c)

LEMMA StageUntouched ==
  ASSUME NEW c \in Batches, Untouched(c)
  PROVE  StageOf(c)' = StageOf(c)
BY DEF Untouched, StageOf

(* A step that touches one batch moves that one, or nothing.               *)
LEMMA StageMoves ==
  ASSUME NEW b \in Batches, UNCHANGED runs,
         \A c \in Batches \ {b} : Untouched(c)
  PROVE  /\ \A from, to : StageOf(b) \in from /\ StageOf(b)' = to
                          => Lifecycle!Move(b, from, to)
         /\ StageOf(b)' = StageOf(b) => UNCHANGED <<stageMap, runs>>
<1>1. stageMap' = [stageMap EXCEPT ![b] = StageOf(b)']
  BY StageUntouched DEF stageMap
<1>2. stageMap[b] = StageOf(b)
  BY DEF stageMap
<1>3. stageMap = [stageMap EXCEPT ![b] = StageOf(b)]
  BY <1>2 DEF stageMap
<1>4. ASSUME NEW from, NEW to, StageOf(b) \in from, StageOf(b)' = to
      PROVE  Lifecycle!Move(b, from, to)
  BY <1>1, <1>2, <1>4 DEF Lifecycle!Move
<1> QED
  BY <1>1, <1>3, <1>4

(* A step that touches none stutters.                                      *)
LEMMA StageStutters ==
  ASSUME UNCHANGED runs, \A c \in Batches : Untouched(c)
  PROVE  UNCHANGED <<stageMap, runs>>
BY StageUntouched DEF stageMap

(* The stage of a batch, read off its line and its answer.                 *)
StageFacts(c) ==
  /\ answer[c] \in {"none", "refused"} => StageOf(c) = "unborn"
  /\ answer[c] = "withdrawn" => StageOf(c) = "withdrawn"
  /\ ~LiveRun(c) => StageOf(c) # "live"
  /\ answer[c] = "accepted" =>
       /\ queue[c].status = "pending" => StageOf(c) = "scheduled"
       /\ LiveRun(c) => StageOf(c) = "live"
       /\ queue[c].status \in {"running", "interrupted"} /\ ~LiveRun(c)
            => StageOf(c) = "stranded"
       /\ queue[c].status \notin {"pending", "running", "interrupted"}
            => StageOf(c) = "settled"

(* It is one of these in each state, before a step and after it.           *)
LEMMA StageCases ==
  ASSUME NEW c
  PROVE  StageFacts(c) /\ StageFacts(c)'
<1>1. StageFacts(c)
  BY Zenon DEF StageFacts, StageOf, LiveRun
<1>2. StageFacts(c)'
  BY Zenon DEF StageFacts, StageOf, LiveRun
<1> QED
  BY <1>1, <1>2

Simulates == [Lifecycle!Next]_<<stageMap, runs>>

(* The moves BatchLifecycle allows for the one batch a step touches.       *)
Allowed(b) ==
  \/ StageOf(b)' = StageOf(b)
  \/ StageOf(b) = "unborn" /\ StageOf(b)' = "scheduled"
  \/ /\ StageOf(b) = "scheduled" /\ StageOf(b)' = "live"
     /\ \A c \in Batches : StageOf(c) # "live"
  \/ StageOf(b) \in {"scheduled", "live"} /\ StageOf(b)' = "settled"
  \/ StageOf(b) = "live" /\ StageOf(b)' = "stranded"
  \/ StageOf(b) \in {"scheduled", "stranded"} /\ StageOf(b)' = "withdrawn"

LEMMA AllowedSimulates ==
  ASSUME NEW b \in Batches, UNCHANGED runs,
         \A c \in Batches \ {b} : Untouched(c), Allowed(b)
  PROVE  Simulates
<1>1. \A from, to : StageOf(b) \in from /\ StageOf(b)' = to
                     => Lifecycle!Move(b, from, to)
  BY StageMoves
<1>2. StageOf(b)' = StageOf(b) => Simulates
  BY StageMoves DEF Simulates
<1>3. (StageOf(b) = "unborn" /\ StageOf(b)' = "scheduled") => Lifecycle!Schedule(b)
  BY <1>1 DEF Lifecycle!Schedule
<1>4. (/\ StageOf(b) = "scheduled" /\ StageOf(b)' = "live"
       /\ \A c \in Batches : StageOf(c) # "live") => Lifecycle!Claim(b)
  BY <1>1 DEF Lifecycle!Claim, stageMap
<1>5. (StageOf(b) \in {"scheduled", "live"} /\ StageOf(b)' = "settled")
        => Lifecycle!Settle(b)
  BY <1>1 DEF Lifecycle!Settle
<1>6. (StageOf(b) = "live" /\ StageOf(b)' = "stranded") => Lifecycle!Strand(b)
  BY <1>1 DEF Lifecycle!Strand
<1>7. (StageOf(b) \in {"scheduled", "stranded"} /\ StageOf(b)' = "withdrawn")
        => Lifecycle!Withdraw(b)
  BY <1>1 DEF Lifecycle!Withdraw
<1>8. Lifecycle!Schedule(b) \/ Lifecycle!Claim(b) \/ Lifecycle!Settle(b)
        \/ Lifecycle!Strand(b) \/ Lifecycle!Withdraw(b) => Simulates
  BY DEF Simulates, Lifecycle!Next
<1> QED
  BY <1>2, <1>3, <1>4, <1>5, <1>6, <1>7, <1>8 DEF Allowed

LEMMA QuietSimulates ==
  ASSUME UNCHANGED <<queue, answer, runs>>,
         \/ UNCHANGED batch /\ (at \in LiveStates <=> at' \in LiveStates)
         \/ at \notin LiveStates /\ at' \notin LiveStates
  PROVE  Simulates
<1>1. \A c \in Batches : Untouched(c)
  BY DEF Untouched, LiveRun, LiveStates
<1> QED
  BY <1>1, StageStutters DEF Simulates

(* Every step of the server is one of BatchLifecycle, or stutters there.   *)
LEMMA LifecycleStep ==
  ASSUME NoDamage, TypedControl, OnceInv, SteadyInv, [Next]_vars
  PROVE  Simulates
<1> USE DEF RunStates, LiveStates, Awaits, disk, task, api, ghosts
<1>t. /\ queue \in [Batches -> Lines] /\ todo \subseteq Batches
      /\ answer \in [Batches -> {"none", "refused", "accepted", "withdrawn"}]
      /\ runs \in [Batches -> Nat]
      /\ at \in RunStates => batch \in Batches
      /\ apiOp # "idle" => apiBatch \in Batches
      /\ at \in {"recording", "sealing", "pruning", "cleaning", "unrecorded"}
           => result \in Outcomes
  BY DEF TypedControl, TypeOK, Control
<1>a. \A c \in Batches :
        queue[c].status \in Statuses => answer[c] = "accepted"
  BY DEF SteadyInv, Readable
<1>f. \A c \in Batches : StageFacts(c) /\ StageFacts(c)'
  BY StageCases
<1>r. ASSUME NEW b \in Batches
      PROVE  /\ Loaded(queue) = queue
             /\ PruneBatch(queue, b) = [queue EXCEPT ![b] = NoLine]
             /\ \A s \in Statuses :
                  UpdateStatus(queue, b, s) =
                    IF Readable(queue, b) THEN [queue EXCEPT ![b].status = s]
                    ELSE queue
  BY <1>t, LegibleRewrites DEF SteadyInv
<1>n. at \notin LiveStates => \A c \in Batches : ~LiveRun(c)
  BY DEF LiveRun
<1>1. CASE \/ SweepReads \/ MalformedReported \/ InterruptedAnnounced \/ Poll
           \/ ListExhausted \/ Boot \/ DeleteWithdrawnMedia \/ PostingEnds
           \/ RecordHistory \/ ManualRunStarts \/ ManualRunEnds
  BY <1>1, QuietSimulates DEF SweepReads, Dies, MalformedReported,
     InterruptedAnnounced, Poll, ListExhausted, Boot, DeleteWithdrawnMedia,
     PostingEnds, RecordHistory, ManualRunStarts, ManualRunEnds
<1>2. ASSUME NEW b \in Batches, SkipBusy(b) \/ RemoveSnapshot(b)
      PROVE  Simulates
  BY <1>2, QuietSimulates DEF SkipBusy, RemoveSnapshot
<1>3. CASE SweepWrites
  <2>1. copy = queue /\ at = "sweeping" /\ at' \notin LiveStates
    BY <1>3 DEF SweepWrites, Dies, SteadyInv
  <2>2. UNCHANGED <<answer, runs>> /\ queue' \in {queue, Swept(queue)}
    BY <1>3, <2>1 DEF SweepWrites, Dies
  <2>3. ASSUME NEW c \in Batches
        PROVE  StageOf(c)' = StageOf(c)
    <3>1. ~LiveRun(c) /\ ~LiveRun(c)'
      BY <2>1 DEF LiveRun
    <3>2. CASE queue'[c].status = queue[c].status
      BY <3>1, <3>2, <2>2, StageUntouched DEF Untouched
    <3>3. CASE queue[c].status = "running" /\ queue'[c].status = "interrupted"
      BY <3>1, <3>3, <2>2, <1>a, <1>f DEF StageFacts, Statuses
    <3> QED
      BY <1>t, <2>2, <3>2, <3>3 DEF Swept, Lines
  <2> QED
    BY <2>2, <2>3 DEF Simulates, stageMap
<1>4. ASSUME NEW b \in Batches, Claim(b) PROVE Simulates
  <2>1. /\ UNCHANGED <<answer, runs>> /\ batch' = b /\ at = "picking"
        /\ queue[b].status # "running"
    BY <1>4 DEF Claim, SteadyInv
  <2>2. CASE UNCHANGED queue
    <3>1. \A c \in Batches : ~LiveRun(c) /\ ~LiveRun(c)'
      BY <2>1, <2>2 DEF LiveRun
    <3> QED
      BY <2>1, <2>2, <3>1, StageStutters DEF Untouched, Simulates
  <2>3. CASE /\ Claimable(queue, b) /\ queue' = UpdateStatus(queue, b, "running")
             /\ at' \in {"checking", "crashed"}
    <3>1. queue[b].status = "pending"
      BY <2>3 DEF Claimable
    <3>2. queue' = [queue EXCEPT ![b].status = "running"]
      BY <1>r, <2>3, <3>1 DEF Readable, Statuses
    <3>3. /\ queue'[b].status = "running"
          /\ \A c \in Batches \ {b} : queue'[c] = queue[c]
      BY <1>t, <3>2 DEF Lines
    <3>4. \A c \in Batches \ {b} : Untouched(c)
      BY <2>1, <3>3 DEF Untouched, LiveRun
    <3>5. LiveRun(b)'
      BY <2>1, <2>3, <3>3 DEF LiveRun
    <3>6. answer[b] = "accepted" /\ answer'[b] = "accepted"
      BY <1>a, <2>1, <3>1 DEF Statuses
    <3>7. StageOf(b) = "scheduled" /\ StageOf(b)' = "live"
      BY <1>f, <3>1, <3>5, <3>6 DEF StageFacts
    <3>8. \A c \in Batches : StageOf(c) # "live"
      BY <1>f, <1>n, <2>1 DEF StageFacts
    <3> QED
      BY <2>1, <3>4, <3>7, <3>8, AllowedSimulates DEF Allowed
  <2> QED
    BY <1>4, <2>2, <2>3 DEF Claim
<1>5. CASE PreflightEnds
  <2>1. CASE UNCHANGED runs
    BY <1>5, <2>1, QuietSimulates DEF PreflightEnds
  <2>2. CASE at' = "posting" /\ runs' = [runs EXCEPT ![batch] = @ + 1]
    <3>1. /\ batch \in Batches /\ queue[batch].status = "running"
          /\ runs[batch] = 0 /\ at = "checking"
      BY <1>5, <1>t DEF PreflightEnds, SteadyInv, OnceInv, Claimed
    <3>2. UNCHANGED stageMap
      BY <1>5, <2>2, StageUntouched
         DEF PreflightEnds, Untouched, LiveRun, stageMap
    <3>3. StageOf(batch) = "live"
      BY <1>a, <1>f, <3>1 DEF StageFacts, LiveRun, Statuses
    <3>4. Lifecycle!Post(batch)
      BY <2>2, <3>1, <3>2, <3>3 DEF Lifecycle!Post, stageMap
    <3> QED
      BY <3>1, <3>4 DEF Simulates, Lifecycle!Next
  <2> QED
    BY <1>5, <2>1, <2>2 DEF PreflightEnds
<1>6. CASE SealStatus \/ KeepUnrecorded
  <2>1. /\ batch \in Batches /\ queue[batch].status = "running"
        /\ result \in Outcomes /\ at \in {"sealing", "unrecorded"}
        /\ UNCHANGED <<answer, runs, batch>>
    BY <1>6, <1>t DEF SealStatus, KeepUnrecorded, SteadyInv
  <2>2. answer[batch] = "accepted" /\ StageOf(batch) = "live"
    BY <1>a, <1>f, <2>1 DEF StageFacts, LiveRun, Statuses
  <2>3. UpdateStatus(queue, batch, result) = [queue EXCEPT ![batch].status = result]
    BY <1>r, <2>1 DEF Readable, Statuses, Outcomes
  <2>4. \/ queue' = [queue EXCEPT ![batch].status = result]
        \/ UNCHANGED queue /\ at' = "notifying"
    BY <1>6, <2>3 DEF SealStatus, KeepUnrecorded
  <2>5. \A c \in Batches \ {batch} : Untouched(c)
    BY <1>t, <2>1, <2>4 DEF Untouched, LiveRun
  <2>6. CASE queue' = [queue EXCEPT ![batch].status = result]
    <3>1. queue'[batch].status = result
      BY <1>t, <2>1, <2>6 DEF Lines
    <3>2. StageOf(batch)' = "settled"
      BY <1>f, <2>1, <2>2, <3>1 DEF StageFacts, Outcomes
    <3> QED
      BY <2>1, <2>2, <2>5, <3>2, AllowedSimulates DEF Allowed
  <2>7. CASE UNCHANGED queue /\ at' = "notifying"
    <3>1. ~LiveRun(batch)'
      BY <2>7 DEF LiveRun
    <3>2. StageOf(batch)' = "stranded"
      BY <1>f, <2>1, <2>2, <2>7, <3>1 DEF StageFacts
    <3> QED
      BY <2>1, <2>2, <2>5, <3>2, AllowedSimulates DEF Allowed
  <2> QED
    BY <2>4, <2>6, <2>7
<1>7. ASSUME NEW b \in Batches, b = batch, PruneRecorded \/ PruneCrashed
      PROVE  Simulates
  <2>1. /\ UNCHANGED <<answer, runs>> /\ queue[b].status # "interrupted"
        /\ at \in {"pruning", "crashPruning"}
        /\ at' \notin LiveStates \ {"cleaning"}
        /\ queue' \in {queue, [queue EXCEPT ![b] = NoLine]}
    BY <1>7, <1>t, <1>r DEF PruneRecorded, PruneCrashed, SteadyInv, Outcomes
  <2>2. \A c \in Batches \ {b} : queue'[c] = queue[c]
    BY <1>t, <2>1
  <2>3. at' = "cleaning" => batch' = b /\ queue'[b] = NoLine
    BY <1>7, <1>r, <1>t DEF PruneRecorded, PruneCrashed
  <2>4. \A c \in Batches \ {b} : Untouched(c)
    BY <1>7, <2>1, <2>2, <2>3 DEF Untouched, LiveRun
  <2>5. ~LiveRun(b)'
    BY <2>1, <2>3 DEF LiveRun, NoLine
  <2>6. CASE LiveRun(b)
    <3>1. queue[b].status = "running" /\ answer[b] = "accepted"
      BY <1>a, <2>6 DEF LiveRun, Statuses
    <3>2. queue'[b].status \in {"running", "absent"}
      BY <1>t, <2>1, <3>1 DEF NoLine
    <3>3. StageOf(b) = "live" /\ StageOf(b)' \in {"stranded", "settled"}
      BY <1>f, <2>1, <2>5, <2>6, <3>1, <3>2 DEF StageFacts
    <3> QED
      BY <2>1, <2>4, <3>3, AllowedSimulates DEF Allowed
  <2>7. CASE ~LiveRun(b) /\ UNCHANGED queue
    <3>1. Untouched(b)
      BY <2>1, <2>5, <2>7 DEF Untouched
    <3> QED
      BY <2>1, <2>4, <3>1, StageStutters DEF Simulates
  <2>8. CASE ~LiveRun(b) /\ queue' = [queue EXCEPT ![b] = NoLine]
    <3>1. queue[b].status # "running"
      BY <1>7, <2>1, <2>8 DEF LiveRun
    <3>2. queue'[b].status = "absent"
      BY <1>t, <2>8 DEF NoLine
    <3>3. CASE queue[b].status = "pending"
      <4>1. answer[b] = "accepted"
        BY <1>a, <3>3 DEF Statuses
      <4>2. StageOf(b) = "scheduled" /\ StageOf(b)' = "settled"
        BY <1>f, <2>1, <3>2, <3>3, <4>1 DEF StageFacts
      <4> QED
        BY <2>1, <2>4, <4>2, AllowedSimulates DEF Allowed
    <3>4. CASE queue[b].status # "pending"
      <4>1. StageOf(b)' = StageOf(b)
        BY <1>f, <1>t, <2>1, <3>1, <3>2, <3>4 DEF StageFacts
      <4> QED
        BY <2>1, <2>4, <4>1, AllowedSimulates DEF Allowed
    <3> QED
      BY <3>3, <3>4
  <2> QED
    BY <2>1, <2>6, <2>7, <2>8
<1>8. CASE DeletePostedMedia \/ RunNotified
  <2>1. /\ UNCHANGED <<queue, answer, runs>> /\ at' = "picking"
        /\ at = "notifying" \/ (at = "cleaning" /\ queue[batch] = NoLine)
    BY <1>8 DEF DeletePostedMedia, RunNotified, SteadyInv
  <2>2. \A c \in Batches : ~LiveRun(c) /\ ~LiveRun(c)'
    BY <2>1 DEF LiveRun, NoLine
  <2> QED
    BY <2>1, <2>2, StageStutters DEF Untouched, Simulates
<1>9. CASE RecordCrash \/ Kill \/ KillMidAppend \/ RestartAfterDeath
  <2>1. /\ UNCHANGED <<queue, answer, runs>>
        /\ at' = "crashPruning" => at = "crashed" /\ UNCHANGED batch
        /\ at' \in {"crashPruning", "notifying", "off"}
        /\ at' = "notifying" => at = "crashed"
    BY <1>9 DEF RecordCrash, Kill, KillMidAppend, RestartAfterDeath, ProcessEnds
  <2>2. CASE at' = "crashPruning"
    BY <2>1, <2>2, QuietSimulates
  <2>3. CASE at' # "crashPruning" /\ \E c \in Batches : LiveRun(c)
    <3>1. PICK b \in Batches : LiveRun(b)
      BY <2>3
    <3>2. \A c \in Batches : ~LiveRun(c)'
      BY <2>1, <2>3 DEF LiveRun
    <3>3. \A c \in Batches \ {b} : Untouched(c)
      BY <2>1, <3>1, <3>2 DEF Untouched, LiveRun
    <3>4. queue[b].status = "running" /\ answer[b] = "accepted"
      BY <1>a, <3>1 DEF LiveRun, Statuses
    <3>5. StageOf(b) = "live" /\ StageOf(b)' = "stranded"
      BY <1>f, <2>1, <3>1, <3>2, <3>4 DEF StageFacts
    <3> QED
      BY <2>1, <3>1, <3>3, <3>5, AllowedSimulates DEF Allowed
  <2>4. CASE at' # "crashPruning" /\ \A c \in Batches : ~LiveRun(c)
    <3>1. \A c \in Batches : ~LiveRun(c)'
      BY <2>1, <2>4 DEF LiveRun
    <3> QED
      BY <2>1, <2>4, <3>1, StageStutters DEF Untouched, Simulates
  <2> QED
    BY <2>2, <2>3, <2>4
<1>10. ASSUME NEW b \in Batches, b = apiBatch, AddSaves PROVE Simulates
  <2>1. CASE UNCHANGED <<queue, answer>>
    BY <1>10, <2>1, QuietSimulates DEF AddSaves
  <2>2. CASE /\ queue' = [Loaded(queue) EXCEPT
                            ![b] = [status |-> "pending", due |-> FALSE]]
             /\ answer' = [answer EXCEPT ![b] = "accepted"]
    <3>1. /\ answer[b] = "refused" /\ UNCHANGED <<runs, at, batch>>
      BY <1>10, <1>t DEF AddSaves, OnceInv
    <3>2. /\ queue'[b].status = "pending" /\ answer'[b] = "accepted"
          /\ \A c \in Batches \ {b} :
               queue'[c] = queue[c] /\ answer'[c] = answer[c]
      BY <1>r, <1>t, <2>2, <3>1
    <3>3. \A c \in Batches \ {b} : Untouched(c)
      BY <3>1, <3>2 DEF Untouched, LiveRun
    <3>4. StageOf(b) = "unborn" /\ StageOf(b)' = "scheduled"
      BY <1>f, <3>1, <3>2 DEF StageFacts
    <3> QED
      BY <3>1, <3>3, <3>4, AllowedSimulates DEF Allowed
  <2> QED
    BY <1>10, <2>1, <2>2 DEF AddSaves
<1>11. ASSUME NEW b \in Batches, AddSnapshots(b) PROVE Simulates
  <2>1. /\ UNCHANGED <<queue, runs, at, batch>> /\ answer[b] = "none"
        /\ answer' = [answer EXCEPT ![b] = "refused"]
    BY <1>11 DEF AddSnapshots
  <2>2. \A c \in Batches \ {b} : Untouched(c)
    BY <1>t, <2>1 DEF Untouched, LiveRun
  <2>3. StageOf(b) = "unborn" /\ StageOf(b)' = "unborn"
    BY <1>f, <1>t, <2>1 DEF StageFacts
  <2> QED
    BY <2>1, <2>2, <2>3, AllowedSimulates DEF Allowed
<1>12. ASSUME NEW b \in Batches, CancelOrDismiss(b) PROVE Simulates
  <2>1. /\ UNCHANGED <<runs, at, batch>>
        /\ queue[b].status \in {"pending", "interrupted"}
        /\ answer' = [answer EXCEPT ![b] = "withdrawn"]
        /\ queue' = [queue EXCEPT ![b] = NoLine]
    BY <1>12, <1>r DEF CancelOrDismiss, Withdrawable
  <2>2. /\ answer'[b] = "withdrawn"
        /\ \A c \in Batches \ {b} :
             queue'[c] = queue[c] /\ answer'[c] = answer[c]
    BY <1>t, <2>1
  <2>3. \A c \in Batches \ {b} : Untouched(c)
    BY <2>1, <2>2 DEF Untouched, LiveRun
  <2>4. answer[b] = "accepted" /\ ~LiveRun(b)
    BY <1>a, <2>1 DEF Statuses, LiveRun
  <2>5. StageOf(b) \in {"scheduled", "stranded"} /\ StageOf(b)' = "withdrawn"
    BY <1>f, <2>1, <2>2, <2>4 DEF StageFacts
  <2> QED
    BY <2>1, <2>3, <2>5, AllowedSimulates DEF Allowed
<1>13. ASSUME NEW b \in Batches, UpdateFireTime(b) \/ FireTimePasses(b)
       PROVE  Simulates
  <2>1. UNCHANGED <<answer, runs, at, batch>>
    BY <1>13 DEF UpdateFireTime, FireTimePasses
  <2>2. queue' \in {queue, [queue EXCEPT ![b].due = FALSE],
                    [queue EXCEPT ![b].due = TRUE]}
    BY <1>13, <1>r DEF UpdateFireTime, FireTimePasses
  <2>3. \A c \in Batches : queue'[c].status = queue[c].status
    BY <1>t, <2>2 DEF Lines
  <2> QED
    BY <2>1, <2>3, StageStutters DEF Untouched, LiveRun, Simulates
<1>14. ASSUME NEW b \in Batches, DamageLine(b) PROVE Simulates
  BY <1>14 DEF DamageLine, Fault, NoDamage
<1>15. CASE UNCHANGED vars
  BY <1>15, QuietSimulates DEF vars
<1> QED
  <2>1. PruneRecorded \/ PruneCrashed => Simulates
    BY <1>t, <1>7 DEF PruneRecorded, PruneCrashed
  <2>2. AddSaves => Simulates
    BY <1>t, <1>10 DEF AddSaves
  <2> QED
    BY <1>1, <1>2, <1>3, <1>4, <1>5, <1>6, <2>1, <1>8, <1>9, <2>2, <1>11, <1>12,
       <1>13, <1>14, <1>15
       DEF Next, SchedulerStep, EndpointStep, Environment

(* The server, with all its files, faults and restarts, implements the     *)
(* life of a batch that BatchLifecycle describes: posted at most once, one *)
(* at a time, taken back only before its run or after it was cut off.      *)
THEOREM ImplementsLifecycleCorrect ==
  ASSUME NoDamage
  PROVE  Spec => ImplementsLifecycle
<1>1. Init => Lifecycle!Init
  <2>1. ASSUME Init, NEW c \in Batches
        PROVE  StageOf(c) = "unborn"
    BY <2>1, StageCases DEF Init, StageFacts
  <2> QED
    BY <2>1 DEF Init, Lifecycle!Init, stageMap
<1>2. TypedControl /\ OnceInv /\ SteadyInv /\ [Next]_vars
        => SteadyInv' /\ [Lifecycle!Next]_<<stageMap, runs>>
  BY SteadyStep, LifecycleStep DEF Simulates
<1>3. Init => OnceInv
  BY DEF Init, OnceInv, Unlisted, EmptyQueue, NoLine
<1> QED
  BY TypedInit, TypedStep, OnceStep, SteadyInit, <1>1, <1>2, <1>3, PTL
     DEF Spec, ImplementsLifecycle, Lifecycle!Spec
=============================================================================
