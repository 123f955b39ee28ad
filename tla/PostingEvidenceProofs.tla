------------------------ MODULE PostingEvidenceProofs ------------------------
(***************************************************************************)
(* Proofs about the evidence a run leaves, as long as no queue line is     *)
(* damaged: the media of a batch outlive every run that did not post all   *)
(* of it, and, if no append is torn either, a batch leaves the queue with  *)
(* the rows that tell how it ended.                                        *)
(***************************************************************************)
EXTENDS PostingProofs

(* History only grows, and an unreadable line stays in it.                 *)
HistoryGrows ==
  /\ \A c \in Batches : history[c] \subseteq history'[c]
  /\ tail # "whole" => tail' # "whole"

(* What raised doubts about a batch keeps raising them.                    *)
LEMMA DoubtsRemain ==
  ASSUME HistoryGrows, NEW c \in Batches, Doubtful(c)
  PROVE  Doubtful(c)'
BY DEF HistoryGrows, Doubtful

(* An append, finished or not, only adds rows.                             *)
LEMMA AppendsGrow ==
  ASSUME TypedControl, batch \in Batches, NEW rows,
         AppendCompletes(rows) \/ AppendStops(rows)
  PROVE  HistoryGrows
<1>1. history \in [Batches -> SUBSET RowKinds]
  BY DEF TypedControl, TypeOK
<1>2. \A c \in Batches : history[c] \subseteq history'[c]
  BY <1>1 DEF AppendCompletes, AppendStops
<1>3. tail # "whole" => tail' # "whole"
  BY DEF AppendCompletes, AppendStops
<1> QED
  BY <1>2, <1>3 DEF HistoryGrows

(* A finished append of an "unclean" row leaves doubts: the row, or the    *)
(* line that swallowed it.                                                 *)
LEMMA AppendRaisesDoubts ==
  ASSUME TypedControl, NEW b \in Batches, b = batch, NEW rows,
         AppendCompletes(rows), "unclean" \in rows
  PROVE  Doubtful(b)'
<1>1. history \in [Batches -> SUBSET RowKinds]
  BY DEF TypedControl, TypeOK
<1>2. CASE tail # "torn" /\ history' = [history EXCEPT ![batch] = @ \cup rows]
  BY <1>1, <1>2 DEF Doubtful
<1>3. CASE tail' = "scarred"
  BY <1>3 DEF Doubtful
<1> QED
  BY <1>2, <1>3 DEF AppendCompletes

(* As long as media stay and the same lines can be read, so does BatchMedia.*)
LEMMA BatchMediaKept ==
  ASSUME BatchMedia, HistoryGrows, snap \subseteq snap',
         UNCHANGED <<answer, outcome, discarded>>,
         \A c \in Batches : Readable(queue', c) <=> Readable(queue, c)
  PROVE  BatchMedia'
<1>1. \A c \in Batches : Doubtful(c) => Doubtful(c)'
  BY DoubtsRemain
<1> QED
  BY <1>1 DEF BatchMedia, MediaSurvives

(* The line of one batch leaves the queue: its run left doubts, or posted  *)
(* all of it, or the maintainer withdrew it.                               *)
LEMMA BatchMediaPruned ==
  ASSUME BatchMedia, NEW b \in Batches,
         UNCHANGED <<history, tail, snap, outcome, discarded>>,
         queue \in [Batches -> Lines], queue' = [queue EXCEPT ![b] = NoLine],
         \A c \in Batches \ {b} : answer'[c] = answer[c],
         \/ answer'[b] = "withdrawn"
         \/ answer'[b] = answer[b] /\ (outcome[b] = "done" \/ Doubtful(b))
  PROVE  BatchMedia'
<1>1. \A c \in Batches : Doubtful(c)' <=> Doubtful(c)
  BY DEF Doubtful
<1>2. \A c \in Batches \ {b} : Readable(queue', c) <=> Readable(queue, c)
  BY DEF Readable
<1>3. ~Readable(queue', b)
  BY DEF Readable, NoLine, Statuses
<1> QED
  BY <1>1, <1>2, <1>3 DEF BatchMedia, MediaSurvives

(* classify_snapshots: no orphan is the media of a batch that is in doubt. *)
LEMMA OrphansNotDoubtful ==
  ASSUME NEW b \in Batches, NEW old, b \in Orphans(queue, history, tail, old)
  PROVE  ~Readable(queue, b) /\ ~Doubtful(b)
BY DEF Orphans, EvidenceComplete, Active, Doubtful

-----------------------------------------------------------------------------
(* The fate of media.                                                       *)

(* At first there are no media and nothing that should have some.          *)
LEMMA MediaInit == Init => MediaInv
BY DEF Init, MediaInv, BatchMedia, TaskMedia, ApiMedia, MediaSurvives, EmptyQueue,
   NoLine, Readable, Statuses

(* No step gives up media that are in doubt.                               *)
LEMMA MediaStep ==
  ASSUME NoDamage, TypedControl, OnceInv, SteadyInv, MediaInv, [Next]_vars
  PROVE  MediaInv'
<1> USE DEF RunStates, Awaits, disk, task, api, ghosts, MediaInv
<1>t. /\ queue \in [Batches -> Lines]
      /\ answer \in [Batches -> {"none", "refused", "accepted", "withdrawn"}]
      /\ outcome \in [Batches -> Outcomes \cup {"none", "unknown"}]
      /\ history \in [Batches -> SUBSET RowKinds]
      /\ at \in RunStates => batch \in Batches
      /\ apiOp # "idle" => apiBatch \in Batches
      /\ at \in {"recording", "sealing", "pruning", "cleaning", "unrecorded"}
           => result \in Outcomes
      /\ apiOp \in {"idle", "saving", "deleting"}
  BY DEF TypedControl, TypeOK, Control
<1>a. \A c \in Batches : Readable(queue, c) => answer[c] = "accepted"
  BY DEF SteadyInv
<1>i. apiOp # "idle" => at \in Awaits \cup {"dead"}
  BY DEF SteadyInv
<1>r. ASSUME NEW b \in Batches
      PROVE  /\ Loaded(queue) = queue
             /\ PruneBatch(queue, b) = [queue EXCEPT ![b] = NoLine]
             /\ \A s \in Statuses :
                  UpdateStatus(queue, b, s) =
                    IF Readable(queue, b) THEN [queue EXCEPT ![b].status = s]
                    ELSE queue
  BY <1>t, LegibleRewrites DEF SteadyInv
<1>u. ASSUME NEW b \in Batches, NEW s \in Statuses, NEW c \in Batches
      PROVE  Readable(UpdateStatus(queue, b, s), c) <=> Readable(queue, c)
  BY <1>r, <1>t DEF Readable, Lines
<1>g. UNCHANGED <<history, tail>> => HistoryGrows
  BY DEF HistoryGrows
<1>1. CASE \/ SweepReads \/ MalformedReported \/ InterruptedAnnounced \/ Poll
           \/ ListExhausted \/ ManualRunStarts \/ UNCHANGED vars
  <2>1. UNCHANGED <<disk, api, ghosts>>
    BY <1>1 DEF SweepReads, Dies, MalformedReported, InterruptedAnnounced, Poll,
       ListExhausted, ManualRunStarts, vars
  <2>2. BatchMedia'
    BY <1>g, <2>1, BatchMediaKept
  <2>3. ApiMedia'
    BY <2>1 DEF ApiMedia
  <2>4. TaskMedia'
    BY <1>1 DEF SweepReads, Dies, MalformedReported, InterruptedAnnounced, Poll,
       ListExhausted, ManualRunStarts, vars, TaskMedia, Doubtful
  <2> QED
    BY <2>2, <2>3, <2>4
<1>2. ASSUME NEW b \in Batches, SkipBusy(b) PROVE MediaInv'
  <2>1. BatchMedia'
    BY <1>2, <1>g, BatchMediaKept DEF SkipBusy
  <2> QED
    BY <1>2, <2>1 DEF SkipBusy, ApiMedia, TaskMedia
<1>3. CASE SweepWrites
  <2>1. copy = queue
    BY <1>3 DEF SweepWrites, SteadyInv
  <2>2. queue' \in {queue, Swept(queue)}
    BY <1>3, <2>1 DEF SweepWrites, Dies
  <2>3. \A c \in Batches : Readable(queue', c) <=> Readable(queue, c)
    BY <1>t, <2>2 DEF Swept, Readable, Lines, Statuses
  <2>4. BatchMedia'
    BY <1>3, <1>g, <2>3, BatchMediaKept DEF SweepWrites
  <2> QED
    BY <1>3, <2>4 DEF SweepWrites, Dies, ApiMedia, TaskMedia
<1>4. ASSUME NEW b \in Batches, Claim(b) PROVE MediaInv'
  <2>1. queue' \in {queue, UpdateStatus(queue, b, "running")}
    BY <1>4 DEF Claim
  <2>2. \A c \in Batches : Readable(queue', c) <=> Readable(queue, c)
    BY <1>u, <2>1 DEF Statuses
  <2>3. BatchMedia'
    BY <1>4, <1>g, <2>2, BatchMediaKept DEF Claim
  <2> QED
    BY <1>4, <2>3 DEF Claim, ApiMedia, TaskMedia
<1>5. CASE PreflightEnds \/ PostingEnds
  <2>1. /\ batch \in Batches /\ Readable(queue, batch) /\ apiOp = "idle"
        /\ UNCHANGED <<queue, history, tail, snap, batch, apiOp, apiBatch,
                       answer, discarded>>
        /\ \A c \in Batches \ {batch} : outcome'[c] = outcome[c]
    BY <1>5, <1>t DEF PreflightEnds, PostingEnds, TaskTurn, SteadyInv, Readable,
       Statuses
  <2>2. \A c \in Batches : Doubtful(c)' <=> Doubtful(c)
    BY <2>1 DEF Doubtful
  <2>3. BatchMedia'
    BY <2>1, <2>2 DEF BatchMedia, MediaSurvives
  <2>4. TaskMedia'
    BY <1>5, <1>t, <2>1 DEF PreflightEnds, PostingEnds, TaskMedia
  <2>5. ApiMedia'
    BY <2>1 DEF ApiMedia
  <2> QED
    BY <2>3, <2>4, <2>5
<1>6. CASE RecordHistory
  <2>1. /\ batch \in Batches /\ at = "recording" /\ apiOp = "idle"
        /\ UNCHANGED <<queue, snap, batch, result, apiOp, apiBatch, answer,
                       outcome, discarded>>
        /\ RowsDue = RowsOf(result)
    BY <1>6, <1>t, <1>i DEF RecordHistory, RowsDue
  <2>2. HistoryGrows
    BY <1>6, <2>1, AppendsGrow DEF RecordHistory
  <2>3. BatchMedia'
    BY <2>1, <2>2, BatchMediaKept
  <2>4. at' = "sealing" => outcome[batch] = "done" \/ Doubtful(batch)'
    <3>1. SUFFICES ASSUME at' = "sealing", outcome[batch] # "done"
                   PROVE  Doubtful(batch)'
      OBVIOUS
    <3>2. result \in {"partial", "failed"}
      BY <1>t, <2>1, <3>1 DEF TaskMedia, Outcomes
    <3>3. "unclean" \in RowsDue
      BY <2>1, <3>2 DEF RowsOf
    <3>4. AppendCompletes(RowsDue)
      BY <1>6, <3>1 DEF RecordHistory
    <3>5. ASSUME NEW b \in Batches, b = batch PROVE Doubtful(b)'
      BY <3>3, <3>4, <3>5, AppendRaisesDoubts
    <3> QED
      BY <2>1, <3>5 DEF Doubtful
  <2>5. at' \in {"sealing", "unrecorded"}
    BY <1>6 DEF RecordHistory
  <2>6. TaskMedia'
    BY <2>1, <2>4, <2>5 DEF TaskMedia
  <2>7. ApiMedia'
    BY <2>1 DEF ApiMedia
  <2> QED
    BY <2>3, <2>6, <2>7
<1>7. CASE RecordCrash
  <2>1. /\ batch \in Batches /\ at = "crashed" /\ apiOp = "idle"
        /\ UNCHANGED <<queue, snap, batch, result, apiOp, apiBatch, answer,
                       outcome, discarded>>
        /\ RowsDue = {"unclean"}
    BY <1>7, <1>t, <1>i DEF RecordCrash, RowsDue
  <2>2. HistoryGrows
    BY <1>7, <2>1, AppendsGrow DEF RecordCrash
  <2>3. BatchMedia'
    BY <2>1, <2>2, BatchMediaKept
  <2>4. at' = "crashPruning" => Doubtful(batch)'
    <3>1. SUFFICES ASSUME at' = "crashPruning"
                   PROVE  Doubtful(batch)'
      OBVIOUS
    <3>2. AppendCompletes(RowsDue)
      BY <1>7, <3>1 DEF RecordCrash
    <3>3. ASSUME NEW b \in Batches, b = batch PROVE Doubtful(b)'
      BY <2>1, <3>2, <3>3, AppendRaisesDoubts
    <3> QED
      BY <2>1, <3>3 DEF Doubtful
  <2>5. at' \in {"crashPruning", "notifying"}
    BY <1>7 DEF RecordCrash
  <2>6. TaskMedia'
    BY <2>4, <2>5 DEF TaskMedia
  <2>7. ApiMedia'
    BY <2>1 DEF ApiMedia
  <2> QED
    BY <2>3, <2>6, <2>7
<1>8. CASE SealStatus \/ KeepUnrecorded
  <2>1. /\ batch \in Batches /\ at \in {"sealing", "unrecorded"} /\ apiOp = "idle"
        /\ queue' \in {queue, UpdateStatus(queue, batch, result)}
        /\ UNCHANGED <<history, tail, snap, batch, result, apiOp, apiBatch,
                       answer, outcome, discarded>>
        /\ result \in Statuses
    BY <1>8, <1>t, <1>i DEF SealStatus, KeepUnrecorded, Outcomes, Statuses
  <2>2. \A c \in Batches : Readable(queue', c) <=> Readable(queue, c)
    BY <1>u, <2>1
  <2>3. BatchMedia'
    BY <1>g, <2>1, <2>2, BatchMediaKept
  <2>4. TaskMedia'
    BY <1>8, <2>1 DEF SealStatus, KeepUnrecorded, TaskMedia, Doubtful
  <2>5. ApiMedia'
    BY <2>1 DEF ApiMedia
  <2> QED
    BY <2>3, <2>4, <2>5
<1>9. CASE PruneRecorded \/ PruneCrashed
  <2>1. /\ batch \in Batches /\ apiOp = "idle"
        /\ at \in {"pruning", "crashPruning"}
        /\ queue' \in {queue, [queue EXCEPT ![batch] = NoLine]}
        /\ UNCHANGED <<history, tail, snap, apiOp, apiBatch, answer, outcome,
                       discarded>>
    BY <1>9, <1>t, <1>i, <1>r DEF PruneRecorded, PruneCrashed
  <2>2. outcome[batch] = "done" \/ Doubtful(batch)
    BY <2>1 DEF TaskMedia
  <2>3. UNCHANGED queue => BatchMedia'
    BY <1>g, <2>1, BatchMediaKept
  <2>4. queue' = [queue EXCEPT ![batch] = NoLine] => BatchMedia'
    BY <1>t, <2>1, <2>2, BatchMediaPruned
  <2>5. /\ at' \in {"cleaning", "notifying", "picking", "dead", "sleeping"}
        /\ at' = "cleaning" => outcome[batch] = "done" /\ UNCHANGED batch
    BY <1>9 DEF PruneRecorded, PruneCrashed, TaskMedia
  <2>6. TaskMedia'
    BY <2>1, <2>5 DEF TaskMedia
  <2>7. ApiMedia'
    BY <2>1 DEF ApiMedia
  <2> QED
    BY <2>1, <2>3, <2>4, <2>6, <2>7
<1>10. CASE DeletePostedMedia
  <2>1. /\ batch \in Batches /\ apiOp = "idle" /\ outcome[batch] = "done"
        /\ ~Readable(queue, batch) /\ snap' \in {snap \ {batch}, snap}
        /\ UNCHANGED <<queue, history, tail, apiOp, apiBatch, answer, outcome,
                       discarded>>
        /\ at' = "picking"
    BY <1>10, <1>t, <1>i DEF DeletePostedMedia, TaskMedia, SteadyInv, Readable,
       NoLine, Statuses
  <2>2. \A c \in Batches : Doubtful(c)' <=> Doubtful(c)
    BY <2>1 DEF Doubtful
  <2>3. BatchMedia'
    BY <2>1, <2>2 DEF BatchMedia, MediaSurvives
  <2> QED
    BY <2>1, <2>3 DEF TaskMedia, ApiMedia
<1>11. CASE RunNotified
  <2>1. UNCHANGED <<disk, api, ghosts>> /\ at' = "picking"
    BY <1>11 DEF RunNotified
  <2>2. BatchMedia'
    BY <1>g, <2>1, BatchMediaKept
  <2> QED
    BY <2>1, <2>2 DEF TaskMedia, ApiMedia
<1>12. CASE AddSaves
  <2>1. /\ apiBatch \in Batches /\ apiBatch \in snap
        /\ at \in Awaits \cup {"dead"} /\ apiOp' = "idle"
        /\ UNCHANGED <<history, tail, snap, at, outcome, discarded>>
    BY <1>12, <1>t, <1>i DEF AddSaves, ApiMedia
  <2>2. TaskMedia'
    BY <2>1 DEF TaskMedia
  <2>3. ApiMedia'
    BY <2>1 DEF ApiMedia
  <2>4. UNCHANGED <<queue, answer>> => BatchMedia'
    BY <1>g, <2>1, BatchMediaKept
  <2>5. ASSUME queue' = [Loaded(queue) EXCEPT
                           ![apiBatch] = [status |-> "pending", due |-> FALSE]],
               answer' = [answer EXCEPT ![apiBatch] = "accepted"]
        PROVE  BatchMedia'
    <3>1. /\ Readable(queue', apiBatch)
          /\ \A c \in Batches \ {apiBatch} :
               queue'[c] = queue[c] /\ answer'[c] = answer[c]
      BY <1>r, <1>t, <2>1, <2>5 DEF Readable, Statuses
    <3>2. \A c \in Batches : Doubtful(c)' <=> Doubtful(c)
      BY <2>1 DEF Doubtful
    <3> QED
      BY <2>1, <3>1, <3>2 DEF BatchMedia, MediaSurvives, Readable
  <2> QED
    BY <1>12, <2>2, <2>3, <2>4, <2>5 DEF AddSaves
<1>13. CASE DeleteWithdrawnMedia
  <2>1. /\ apiBatch \in Batches /\ answer[apiBatch] = "withdrawn"
        /\ snap' \in {snap \ {apiBatch}, snap} /\ apiOp' = "idle"
        /\ UNCHANGED <<queue, history, tail, at, batch, result, answer, outcome,
                       discarded>>
    BY <1>13, <1>t DEF DeleteWithdrawnMedia, ApiMedia
  <2>2. \A c \in Batches : Doubtful(c)' <=> Doubtful(c)
    BY <2>1 DEF Doubtful
  <2>3. BatchMedia'
    BY <1>a, <2>1, <2>2 DEF BatchMedia, MediaSurvives
  <2>4. TaskMedia'
    BY <2>1 DEF TaskMedia, Doubtful
  <2> QED
    BY <2>1, <2>3, <2>4 DEF ApiMedia
<1>14. ASSUME NEW b \in Batches, AddSnapshots(b) PROVE MediaInv'
  <2>1. /\ answer[b] = "none" /\ answer' = [answer EXCEPT ![b] = "refused"]
        /\ snap' = snap \cup {b}
        /\ UNCHANGED <<queue, history, tail, at, batch, result, outcome, discarded>>
        /\ apiOp' \in {"saving", "idle"}
        /\ apiOp' = "saving" => apiBatch' = b
    BY <1>14 DEF AddSnapshots, LoopFree
  <2>2. \A c \in Batches : Doubtful(c)' <=> Doubtful(c)
    BY <2>1 DEF Doubtful
  <2>3. BatchMedia'
    BY <1>t, <2>1, <2>2 DEF BatchMedia, MediaSurvives
  <2>4. TaskMedia'
    BY <2>1 DEF TaskMedia, Doubtful
  <2>5. ApiMedia'
    BY <2>1 DEF ApiMedia
  <2> QED
    BY <2>3, <2>4, <2>5
<1>15. ASSUME NEW b \in Batches, CancelOrDismiss(b) PROVE MediaInv'
  <2>1. /\ answer' = [answer EXCEPT ![b] = "withdrawn"]
        /\ queue' = [queue EXCEPT ![b] = NoLine]
        /\ UNCHANGED <<history, tail, snap, at, batch, result, outcome, discarded>>
        /\ apiOp' = "deleting" /\ apiBatch' = b
    BY <1>15, <1>r DEF CancelOrDismiss
  <2>2. /\ answer'[b] = "withdrawn"
        /\ \A c \in Batches \ {b} : answer'[c] = answer[c]
    BY <1>t, <2>1
  <2>3. BatchMedia'
    BY <1>t, <2>1, <2>2, BatchMediaPruned
  <2>4. TaskMedia'
    BY <2>1 DEF TaskMedia, Doubtful
  <2>5. ApiMedia'
    BY <2>1, <2>2 DEF ApiMedia
  <2> QED
    BY <2>3, <2>4, <2>5
<1>16. ASSUME NEW b \in Batches, UpdateFireTime(b) \/ FireTimePasses(b)
       PROVE  MediaInv'
  <2>1. /\ queue' \in {queue, [queue EXCEPT ![b].due = FALSE],
                       [queue EXCEPT ![b].due = TRUE]}
        /\ UNCHANGED <<history, tail, snap, at, batch, result, apiOp, apiBatch,
                       answer, outcome, discarded>>
    BY <1>16, <1>r DEF UpdateFireTime, FireTimePasses
  <2>2. \A c \in Batches : Readable(queue', c) <=> Readable(queue, c)
    BY <1>t, <2>1 DEF Readable, Lines
  <2>3. BatchMedia'
    BY <1>g, <2>1, <2>2, BatchMediaKept
  <2> QED
    BY <2>1, <2>3 DEF TaskMedia, ApiMedia, Doubtful
<1>17. ASSUME NEW b \in Batches, RemoveSnapshot(b) PROVE MediaInv'
  <2>1. /\ ~Readable(queue, b) /\ snap' = snap \ {b} /\ apiOp = "idle"
        /\ discarded' = discarded \cup {b}
        /\ UNCHANGED <<queue, history, tail, at, batch, result, apiOp, apiBatch,
                       answer, outcome>>
    BY <1>17 DEF RemoveSnapshot, LoopFree, Deletable, Active
  <2>2. \A c \in Batches : Doubtful(c)' <=> Doubtful(c)
    BY <2>1 DEF Doubtful
  <2>3. BatchMedia'
    BY <2>1, <2>2 DEF BatchMedia, MediaSurvives
  <2>4. TaskMedia'
    BY <2>1 DEF TaskMedia, Doubtful
  <2>5. ApiMedia'
    BY <2>1 DEF ApiMedia
  <2> QED
    BY <2>3, <2>4, <2>5
<1>18. CASE Boot
  <2>1. /\ at = "off" /\ at' = "booting" /\ apiOp = "idle"
        /\ UNCHANGED <<queue, history, tail, apiOp, apiBatch, answer, outcome,
                       discarded>>
    BY <1>18, <1>i DEF Boot
  <2>2. PICK old \in SUBSET snap :
          \E gone \in SUBSET (snap \cap Orphans(queue, history, tail, old)) :
            snap' = snap \ gone
    BY <1>18 DEF Boot
  <2>3. \A c \in Batches : Readable(queue, c) \/ Doubtful(c) =>
          (c \in snap => c \in snap')
    BY <2>2, OrphansNotDoubtful
  <2>4. \A c \in Batches : Doubtful(c)' <=> Doubtful(c)
    BY <2>1 DEF Doubtful
  <2>5. BatchMedia'
    BY <2>1, <2>3, <2>4 DEF BatchMedia, MediaSurvives
  <2> QED
    BY <2>1, <2>5 DEF TaskMedia, ApiMedia
<1>19. CASE Kill \/ KillMidAppend \/ RestartAfterDeath
  <2>1. /\ UNCHANGED <<queue, snap, answer, outcome, discarded>>
        /\ at' = "off" /\ apiOp' = "idle"
    BY <1>19 DEF Kill, KillMidAppend, RestartAfterDeath, ProcessEnds
  <2>2. HistoryGrows
    <3>1. CASE Kill \/ RestartAfterDeath
      BY <3>1 DEF Kill, RestartAfterDeath, HistoryGrows
    <3>2. CASE KillMidAppend
      BY <1>t, <3>2, AppendsGrow DEF KillMidAppend
    <3> QED
      BY <1>19, <3>1, <3>2
  <2>3. BatchMedia'
    BY <2>1, <2>2, BatchMediaKept
  <2> QED
    BY <2>1, <2>3 DEF TaskMedia, ApiMedia
<1>20. CASE ManualRunEnds
  <2>1. /\ UNCHANGED <<queue, history, snap, at, batch, result, apiOp, apiBatch,
                       answer, outcome, discarded>>
        /\ tail # "whole" => tail' # "whole"
    BY <1>20 DEF ManualRunEnds
  <2>2. HistoryGrows
    BY <2>1 DEF HistoryGrows
  <2>3. BatchMedia'
    BY <2>1, <2>2, BatchMediaKept
  <2>4. TaskMedia'
    BY <2>1 DEF TaskMedia, Doubtful
  <2> QED
    BY <2>1, <2>3, <2>4 DEF ApiMedia
<1>21. ASSUME NEW b \in Batches, DamageLine(b) PROVE MediaInv'
  BY <1>21 DEF DamageLine, Fault, NoDamage
<1> QED
  BY <1>1, <1>2, <1>3, <1>4, <1>5, <1>6, <1>7, <1>8, <1>9, <1>10, <1>11, <1>12,
     <1>13, <1>14, <1>15, <1>16, <1>17, <1>18, <1>19, <1>20, <1>21
     DEF Next, SchedulerStep, EndpointStep, Environment

(* classify_snapshots: "is this directory the only surviving copy of media *)
(* for a batch that may have posted?"  As long as no queue line is         *)
(* damaged, the media of an accepted batch exist until all of it was       *)
(* posted or the maintainer gave it up, and those of every batch in the    *)
(* queue do, whatever is torn, fails or dies.                              *)
THEOREM MediaCorrect ==
  ASSUME NoDamage
  PROVE  Spec => [](MediaSurvives /\ ActiveMediaPresent)
<1>1. TypedControl /\ OnceInv /\ SteadyInv /\ MediaInv /\ [Next]_vars
        => SteadyInv' /\ MediaInv'
  BY SteadyStep, MediaStep
<1>2. MediaInv => MediaSurvives /\ ActiveMediaPresent
  BY DEF MediaInv, BatchMedia, ActiveMediaPresent, Readable, Statuses
<1>3. Init => OnceInv
  BY DEF Init, OnceInv, Unlisted, EmptyQueue, NoLine
<1> QED
  BY TypedInit, TypedStep, OnceStep, SteadyInit, MediaInit, <1>1, <1>2, <1>3, PTL
     DEF Spec

(* No batch that may still be posted is without its media, whatever        *)
(* removal, reconciliation or withdrawal comes in between (queue.py:635).  *)
THEOREM ActiveMediaPresentCorrect ==
  ASSUME NoDamage
  PROVE  Spec => []ActiveMediaPresent
BY MediaCorrect, PTL

-----------------------------------------------------------------------------
(* The rows a batch leaves.                                                 *)

NoTear == "tear" \notin Faults

(* While history.jsonl is whole, an append leaves it whole, and a finished *)
(* one is read back row by row.                                            *)
LEMMA AppendsStayWhole ==
  ASSUME NoTear, TypedControl, batch \in Batches, tail = "whole", NEW rows,
         AppendCompletes(rows) \/ AppendStops(rows)
  PROVE  /\ tail' = "whole"
         /\ AppendCompletes(rows)
              => history' = [history EXCEPT ![batch] = @ \cup rows]
BY DEF AppendCompletes, AppendStops, NoTear

(* A step that posts nothing, takes no line out and loses no row.          *)
LEMMA RecordKept ==
  ASSUME RecordInv, tail' = "whole", HistoryGrows,
         UNCHANGED <<answer, runs, outcome>>, todo' \subseteq todo,
         \A c \in Batches : Readable(queue', c) <=> Readable(queue, c),
         \/ UNCHANGED <<at, batch, result>> /\ batch \in Batches \cup {NoBatch}
            /\ (at \in RunStates => batch \in Batches)
         \/ at' \in TaskStates \ (RunStates \ {"cleaning", "notifying"})
  PROVE  RecordInv'
<1>1. \A c \in Batches : history[c] \subseteq history'[c]
  BY DEF HistoryGrows
<1> QED
  BY <1>1 DEF RecordInv, RunStates, TaskStates, Awaits

(* Before anything was posted there is nothing to record.                  *)
LEMMA RecordInit == Init => RecordInv
BY DEF Init, RecordInv

(* No step lets a batch go before the rows of its run are written.         *)
LEMMA RecordStep ==
  ASSUME NoDamage, NoTear, TypedControl, OnceInv, SteadyInv, RecordInv, [Next]_vars
  PROVE  RecordInv'
<1> USE DEF RunStates, Awaits, TaskStates, disk, task, api, ghosts
<1>t. /\ queue \in [Batches -> Lines] /\ todo \subseteq Batches
      /\ answer \in [Batches -> {"none", "refused", "accepted", "withdrawn"}]
      /\ outcome \in [Batches -> Outcomes \cup {"none", "unknown"}]
      /\ runs \in [Batches -> Nat] /\ at \in TaskStates
      /\ history \in [Batches -> SUBSET RowKinds]
      /\ at \in RunStates => batch \in Batches
      /\ batch \in Batches \cup {NoBatch}
      /\ apiOp # "idle" => apiBatch \in Batches
      /\ at \in {"recording", "sealing", "pruning", "cleaning", "unrecorded"}
           => result \in Outcomes
  BY DEF TypedControl, TypeOK, Control
<1>q. queue \in [Batches -> Lines]
  BY <1>t
<1>i. apiOp # "idle" => at \in Awaits \cup {"dead"}
  BY DEF SteadyInv
<1>w. tail = "whole"
  BY DEF RecordInv
<1>r. ASSUME NEW b \in Batches
      PROVE  /\ Loaded(queue) = queue
             /\ PruneBatch(queue, b) = [queue EXCEPT ![b] = NoLine]
             /\ \A s \in Statuses :
                  UpdateStatus(queue, b, s) =
                    IF Readable(queue, b) THEN [queue EXCEPT ![b].status = s]
                    ELSE queue
  BY <1>t, LegibleRewrites DEF SteadyInv
<1>u. ASSUME NEW b \in Batches, NEW s \in Statuses, NEW c \in Batches
      PROVE  Readable(UpdateStatus(queue, b, s), c) <=> Readable(queue, c)
  BY <1>r, <1>q DEF Readable, Lines
<1>g. UNCHANGED <<history, tail>> => HistoryGrows /\ tail' = "whole"
  BY <1>w DEF HistoryGrows
<1>1. CASE \/ SweepReads \/ MalformedReported \/ InterruptedAnnounced
           \/ ListExhausted \/ Boot \/ RunNotified \/ DeletePostedMedia
  <2>1. /\ UNCHANGED <<queue, history, tail, ghosts>> /\ todo' \subseteq todo
        /\ at' \in TaskStates \ (RunStates \ {"cleaning", "notifying"})
    BY <1>1 DEF SweepReads, Dies, MalformedReported, InterruptedAnnounced,
       ListExhausted, Boot, RunNotified, DeletePostedMedia
  <2> QED
    BY <1>g, <2>1, RecordKept
<1>2. CASE ManualRunStarts \/ ManualRunEnds \/ DeleteWithdrawnMedia \/ UNCHANGED vars
  <2>1. /\ UNCHANGED <<queue, history, todo, at, batch, result, answer, runs, outcome>>
        /\ tail' = "whole"
    BY <1>2, <1>w DEF ManualRunStarts, ManualRunEnds, DeleteWithdrawnMedia, vars,
       NoTear
  <2>2. HistoryGrows
    BY <2>1, <1>w DEF HistoryGrows
  <2> QED
    BY <1>t, <2>1, <2>2, RecordKept
<1>3. ASSUME NEW b \in Batches, SkipBusy(b) \/ RemoveSnapshot(b) PROVE RecordInv'
  <2>1. /\ UNCHANGED <<queue, history, tail, at, batch, result, answer, runs, outcome>>
        /\ todo' \subseteq todo
    BY <1>3 DEF SkipBusy, RemoveSnapshot
  <2> QED
    BY <1>g, <1>t, <2>1, RecordKept
<1>4. CASE SweepWrites
  <2>1. copy = queue
    BY <1>4 DEF SweepWrites, SteadyInv
  <2>2. /\ queue' \in {queue, Swept(queue)}
        /\ todo' \in {{}, DueBatches(queue)}
        /\ UNCHANGED <<history, tail, answer, runs, outcome>>
        /\ at' \in {"picking", "announcing", "dead"}
    BY <1>4, <2>1 DEF SweepWrites, Dies
  <2>3. \A c \in Batches : Readable(queue', c) <=> Readable(queue, c)
    BY <1>t, <2>2 DEF Swept, Readable, Lines, Statuses
  <2>4. \A c \in todo' : c \in Batches /\ outcome[c] # "done"
    BY <2>2 DEF DueBatches, OnceInv, RecordInv
  <2> QED
    BY <2>2, <2>3, <2>4 DEF RecordInv
<1>5. CASE Poll
  <2>1. /\ UNCHANGED <<queue, history, tail, answer, runs, outcome>>
        /\ todo' \in {todo, DueBatches(queue)}
        /\ at' \in {"picking", "draining", "sleeping"}
    BY <1>5 DEF Poll
  <2>2. \A c \in todo' : outcome[c] # "done"
    BY <2>1 DEF DueBatches, OnceInv, RecordInv
  <2> QED
    BY <2>1, <2>2 DEF RecordInv
<1>6. ASSUME NEW b \in Batches, Claim(b) PROVE RecordInv'
  <2>1. /\ queue' \in {queue, UpdateStatus(queue, b, "running")}
        /\ UNCHANGED <<history, tail, answer, runs, outcome>>
        /\ at' \in {"checking", "notifying", "crashed"} /\ batch' = b
        /\ b \in todo /\ todo' \subseteq todo
    BY <1>6 DEF Claim
  <2>2. \A c \in Batches : Readable(queue', c) <=> Readable(queue, c)
    BY <1>u, <2>1 DEF Statuses
  <2> QED
    BY <2>1, <2>2 DEF RecordInv
<1>7. ASSUME NEW b \in Batches, b = batch, PreflightEnds \/ PostingEnds
      PROVE  RecordInv'
  <2>1. /\ Readable(queue, b) /\ b \notin todo /\ outcome[b] # "done"
        /\ UNCHANGED <<queue, history, tail, todo, batch, answer>>
    BY <1>7, <1>t DEF PreflightEnds, PostingEnds, SteadyInv, Readable, Statuses,
       RecordInv
  <2>2. \A c \in Batches \ {b} : runs'[c] = runs[c] /\ outcome'[c] = outcome[c]
    BY <1>7, <1>t DEF PreflightEnds, PostingEnds
  <2>3. /\ runs'[b] = 0 => outcome'[b] = "none"
        /\ at' = "posting" => runs'[b] > 0
    <3>1. CASE PreflightEnds
      BY <1>7, <1>t, <3>1 DEF PreflightEnds, RecordInv
    <3>2. CASE PostingEnds
      BY <1>7, <1>t, <3>2 DEF PostingEnds, RecordInv
    <3> QED
      BY <1>7, <3>1, <3>2
  <2>4. at' \in {"posting", "crashed", "recording"}
    BY <1>7 DEF PreflightEnds, PostingEnds
  <2>5. /\ at' \in {"posting", "crashed"} => outcome'[b] # "done"
        /\ at' = "recording" /\ outcome'[b] = "done" => result' = "done"
    BY <1>7, <1>t, <2>1 DEF PreflightEnds, PostingEnds
  <2> QED
    BY <1>7, <1>t, <2>1, <2>2, <2>3, <2>4, <2>5 DEF RecordInv
<1>8. ASSUME NEW b \in Batches, b = batch, RecordHistory \/ RecordCrash
      PROVE  RecordInv'
  <2>1. /\ UNCHANGED <<queue, todo, batch, result, answer, runs, outcome>>
        /\ AppendCompletes(RowsDue) \/ AppendStops(RowsDue)
    BY <1>8 DEF RecordHistory, RecordCrash
  <2>2. HistoryGrows /\ tail' = "whole"
    BY <1>8, <1>w, <2>1, AppendsGrow, AppendsStayWhole
  <2>3. \A c \in Batches : history[c] \subseteq history'[c]
    BY <2>2 DEF HistoryGrows
  <2>4. /\ at' \in {"sealing", "unrecorded", "crashPruning", "notifying"}
        /\ at' = "crashPruning" => at = "crashed"
        /\ at' = "unrecorded" => at = "recording"
        /\ at' = "sealing" => at = "recording" /\ AppendCompletes(RowsDue)
    BY <1>8 DEF RecordHistory, RecordCrash
  <2>5. at' = "sealing" /\ outcome[b] = "done" => "clean" \in history'[b]
    <3>1. SUFFICES ASSUME at' = "sealing", outcome[b] = "done"
                   PROVE  "clean" \in history'[b]
      OBVIOUS
    <3>2. "clean" \in RowsDue
      BY <1>8, <2>4, <3>1 DEF RecordInv, RowsDue, RowsOf
    <3>3. history' = [history EXCEPT ![batch] = @ \cup RowsDue]
      BY <1>8, <1>w, <2>4, <3>1, AppendsStayWhole
    <3> QED
      BY <1>8, <1>t, <3>2, <3>3
  <2> QED
    BY <1>8, <2>1, <2>2, <2>3, <2>4, <2>5 DEF RecordInv
<1>9. CASE SealStatus \/ KeepUnrecorded
  <2>1. /\ batch \in Batches /\ result \in Statuses
        /\ queue' \in {queue, UpdateStatus(queue, batch, result)}
        /\ UNCHANGED <<history, tail, todo, batch, result, answer, runs, outcome>>
        /\ at' \in {"pruning", "notifying"}
        /\ at' = "pruning" => at = "sealing"
    BY <1>9, <1>t DEF SealStatus, KeepUnrecorded, Outcomes, Statuses
  <2>2. \A c \in Batches : Readable(queue', c) <=> Readable(queue, c)
    BY <1>u, <2>1
  <2> QED
    BY <2>1, <2>2 DEF RecordInv
<1>10. CASE PruneRecorded \/ PruneCrashed
  <2>1. /\ batch \in Batches
        /\ queue' \in {queue, [queue EXCEPT ![batch] = NoLine]}
        /\ UNCHANGED <<history, tail, answer, runs, outcome>>
        /\ todo' \subseteq todo /\ at \in {"pruning", "crashPruning"}
        /\ at' \in {"cleaning", "notifying", "picking", "dead", "sleeping"}
    BY <1>10, <1>t, <1>r DEF PruneRecorded, PruneCrashed
  <2>2. outcome[batch] = "done" => "clean" \in history[batch]
    BY <2>1 DEF RecordInv
  <2>3. \A c \in Batches \ {batch} : Readable(queue', c) <=> Readable(queue, c)
    BY <1>q, <2>1 DEF Readable
  <2> QED
    BY <2>1, <2>2, <2>3 DEF RecordInv
<1>11. CASE AddSaves
  <2>1. CASE UNCHANGED <<queue, answer>>
    BY <1>11, <1>g, <1>t, <2>1, RecordKept DEF AddSaves
  <2>2. CASE /\ queue' = [Loaded(queue) EXCEPT
                            ![apiBatch] = [status |-> "pending", due |-> FALSE]]
             /\ answer' = [answer EXCEPT ![apiBatch] = "accepted"]
    <3>1. /\ apiBatch \in Batches /\ at \in Awaits \cup {"dead"}
          /\ UNCHANGED <<history, tail, todo, at, batch, result, runs, outcome>>
      BY <1>11, <1>i, <1>t DEF AddSaves
    <3>2. /\ Readable(queue', apiBatch)
          /\ \A c \in Batches \ {apiBatch} :
               queue'[c] = queue[c] /\ answer'[c] = answer[c]
      BY <1>r, <1>t, <2>2, <3>1 DEF Readable, Statuses
    <3> QED
      BY <3>1, <3>2 DEF RecordInv, Readable
  <2> QED
    BY <1>11, <2>1, <2>2 DEF AddSaves
<1>12. ASSUME NEW b \in Batches, AddSnapshots(b) \/ CancelOrDismiss(b)
       PROVE  RecordInv'
  <2>1. /\ UNCHANGED <<history, tail, todo, at, batch, result, runs, outcome>>
        /\ queue' \in {queue, [queue EXCEPT ![b] = NoLine]}
        /\ answer' \in {[answer EXCEPT ![b] = "refused"],
                        [answer EXCEPT ![b] = "withdrawn"]}
    BY <1>12, <1>r DEF AddSnapshots, CancelOrDismiss
  <2>2. /\ answer'[b] # "accepted"
        /\ \A c \in Batches \ {b} :
             queue'[c] = queue[c] /\ answer'[c] = answer[c]
    BY <1>t, <2>1
  <2> QED
    BY <1>t, <2>1, <2>2 DEF RecordInv, Readable
<1>13. ASSUME NEW b \in Batches, UpdateFireTime(b) \/ FireTimePasses(b)
       PROVE  RecordInv'
  <2>1. /\ queue' \in {queue, [queue EXCEPT ![b].due = FALSE],
                       [queue EXCEPT ![b].due = TRUE]}
        /\ UNCHANGED <<history, tail, todo, at, batch, result, answer, runs, outcome>>
    BY <1>13, <1>r DEF UpdateFireTime, FireTimePasses
  <2>2. \A c \in Batches : Readable(queue', c) <=> Readable(queue, c)
    BY <1>t, <2>1 DEF Readable, Lines
  <2> QED
    BY <1>g, <1>t, <2>1, <2>2, RecordKept
<1>14. ASSUME NEW b \in Batches, DamageLine(b) PROVE RecordInv'
  BY <1>14 DEF DamageLine, Fault, NoDamage
<1>15. CASE Kill \/ KillMidAppend \/ RestartAfterDeath
  <2>1. /\ UNCHANGED <<queue, answer, runs, outcome>>
        /\ todo' \subseteq todo /\ at' = "off"
    BY <1>15 DEF Kill, KillMidAppend, RestartAfterDeath, ProcessEnds
  <2>2. HistoryGrows /\ tail' = "whole"
    <3>1. CASE Kill \/ RestartAfterDeath
      BY <1>w, <3>1 DEF Kill, RestartAfterDeath, HistoryGrows, NoTear
    <3>2. CASE KillMidAppend
      BY <1>t, <1>w, <3>2, AppendsGrow, AppendsStayWhole DEF KillMidAppend
    <3> QED
      BY <1>15, <3>1, <3>2
  <2> QED
    BY <2>1, <2>2, RecordKept
<1> QED
  <2>1. PreflightEnds \/ PostingEnds => RecordInv'
    BY <1>t, <1>7 DEF PreflightEnds, PostingEnds
  <2>2. RecordHistory \/ RecordCrash => RecordInv'
    BY <1>t, <1>8 DEF RecordHistory, RecordCrash
  <2> QED
    BY <1>1, <1>2, <1>3, <1>4, <1>5, <1>6, <2>1, <2>2, <1>9, <1>10, <1>11, <1>12,
       <1>13, <1>14, <1>15
       DEF Next, SchedulerStep, EndpointStep, Environment

(* As long as neither a queue line is damaged nor an append torn, a batch  *)
(* leaves the queue with the rows that tell how it ended, whatever fails   *)
(* and wherever the process dies.                                          *)
THEOREM LeavesWithRecordCorrect ==
  ASSUME NoDamage, NoTear
  PROVE  Spec => []LeavesWithRecord
<1>1. TypedControl /\ OnceInv /\ SteadyInv /\ MediaInv /\ RecordInv /\ [Next]_vars
        => SteadyInv' /\ MediaInv' /\ RecordInv'
  BY SteadyStep, MediaStep, RecordStep
<1>2. MediaInv /\ RecordInv => LeavesWithRecord
  BY DEF MediaInv, BatchMedia, RecordInv, LeavesWithRecord, Doubtful
<1>3. Init => OnceInv
  BY DEF Init, OnceInv, Unlisted, EmptyQueue, NoLine
<1> QED
  BY TypedInit, TypedStep, OnceStep, SteadyInit, MediaInit, RecordInit,
     <1>1, <1>2, <1>3, PTL DEF Spec
=============================================================================
