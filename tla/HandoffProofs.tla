---------------------------- MODULE HandoffProofs ----------------------------
(***************************************************************************)
(* Proofs about HandoffPickup, for every set of batches, accounts, rosters *)
(* and faults, any number of clips and every bound.                        *)
(***************************************************************************)
EXTENDS HandoffInvariants, SequenceTheorems, TLAPS

-----------------------------------------------------------------------------
(* A roster that is long enough gives each clip an account of its own.     *)
LEMMA AssignedFits ==
  ASSUME TypeOK, NEW b \in Batches, Clips[b] <= Len(roster)
  PROVE  /\ Assigned(b) \in Seq(Accounts)
         /\ Len(Assigned(b)) = Clips[b]
         /\ \A i \in 1..Clips[b] : Assigned(b)[i] = roster[i]
<1>1. roster \in Seq(Accounts) /\ Clips[b] \in Nat \ {0}
  BY RostersAssumption, ClipsAssumption DEF TypeOK
<1>2. \A i \in 1..Clips[b] : roster[i] \in Accounts
  BY <1>1
<1> QED
  BY <1>1, <1>2, SubSeqProperties DEF Assigned

(* A pickup starts in the invariant.                                      *)
LEMMA HandoffInit == Init => HandoffInv
<1> SUFFICES ASSUME Init PROVE HandoffInv
  OBVIOUS
<1>1. TypeOK
  BY MaxFaultsAssumption DEF Init, TypeOK, Places, Receipts, Points
<1>2. Stages /\ OneOutstanding
  BY DEF Init, Stages, Stage, OneOutstanding, Unacknowledged
<1> QED
  BY <1>1, <1>2 DEF Init, HandoffInv, PullPoints, Points, Inbound, Staging,
                    Assigning, Clearing

-----------------------------------------------------------------------------
(* Each action keeps the invariant.                                        *)
LEMMA PullReplaysKeeps ==
  ASSUME HandoffInv, NEW b \in Batches, PullReplays(b)
  PROVE  HandoffInv'
<1> USE DEF HandoffInv, PullReplays, BeginPull, batches, media, browser
<1>1. TypeOK'
  BY DEF TypeOK, Points
<1>2. (at \in PullPoints => cur \in Batches)'
  OBVIOUS
<1>3. Stages'
  BY DEF Stages, Stage
<1>4. OneOutstanding'
  BY DEF OneOutstanding, Unacknowledged
<1>5. Inbound'
  BY DEF Inbound
<1>6. Staging'
  BY DEF Staging
<1>7. Assigning'
  BY ClipsAssumption
     DEF Assigning, StagedUpTo, SameTargets, IsOldest, Unacknowledged
<1>8. Clearing'
  BY DEF Clearing
<1> QED
  BY <1>1, <1>2, <1>3, <1>4, <1>5, <1>6, <1>7, <1>8

LEMMA PullResumesKeeps ==
  ASSUME HandoffInv, NEW b \in Batches, PullResumes(b)
  PROVE  HandoffInv'
<1> USE DEF HandoffInv, PullResumes, BeginPull, batches, media, browser,
            NextInbound
<1>1. TypeOK'
  BY DEF TypeOK, Points
<1>2. (at \in PullPoints => cur \in Batches)'
  OBVIOUS
<1>3. Stages'
  BY DEF Stages, Stage
<1>4. OneOutstanding'
  BY DEF OneOutstanding, Unacknowledged
<1>5. Inbound'
  BY DEF Inbound, Unacknowledged, IsOldest, Ready
<1>6. Staging'
  BY DEF Staging
<1>7. Assigning'
  BY DEF Assigning, Stages, Stage, Validated, SameTargets, IsOldest, Ready,
         Receipts, TypeOK
<1>8. Clearing'
  BY DEF Clearing
<1> QED
  BY <1>1, <1>2, <1>3, <1>4, <1>5, <1>6, <1>7, <1>8

LEMMA PullStagesKeeps ==
  ASSUME HandoffInv, NEW b \in Batches, PullStages(b)
  PROVE  HandoffInv'
<1> USE DEF HandoffInv, PullStages, BeginPull, batches, media, browser,
            NextInbound
<1>1. TypeOK'
  BY DEF TypeOK, Points
<1>2. (at \in PullPoints => cur \in Batches)'
  OBVIOUS
<1>3. Stages'
  BY DEF Stages, Stage
<1>4. OneOutstanding'
  BY DEF OneOutstanding, Unacknowledged
<1>5. Inbound'
  BY DEF Inbound, Unacknowledged, IsOldest, Ready
<1>6. Staging'
  BY ClipsAssumption DEF Staging, StagedUpTo
<1>7. Assigning'
  BY DEF Assigning
<1>8. Clearing'
  BY DEF Clearing
<1> QED
  BY <1>1, <1>2, <1>3, <1>4, <1>5, <1>6, <1>7, <1>8

LEMMA StageClipKeeps ==
  ASSUME HandoffInv, StageClip
  PROVE  HandoffInv'
<1> USE DEF HandoffInv, StageClip, Proceed, Fault, NoFault, batches, media,
            browser
<1>0. cur \in Batches /\ Clips[cur] \in Nat \ {0}
  BY ClipsAssumption DEF PullPoints, Points
<1>a. Assigned(cur) \in Seq(Accounts) /\ Len(Assigned(cur)) = Clips[cur]
  BY <1>0, AssignedFits DEF Staging
<1>b. done + 1 \in 1..Clips[cur]
  BY <1>0 DEF Staging, TypeOK
<1>c. File(Assigned(cur), cur, done + 1) \in Accounts \X Batches \X Nat
  BY <1>0, <1>a, <1>b DEF File
<1>d. Assigned(cur)' = Assigned(cur)
  BY DEF Assigned
<1>1. TypeOK'
  BY <1>c, MaxFaultsAssumption DEF TypeOK, Points
<1>2. (at \in PullPoints => cur \in Batches)'
  BY DEF PullPoints, Points
<1>3. Stages'
  BY DEF Stages, Stage
<1>4. OneOutstanding'
  BY DEF OneOutstanding, Unacknowledged
<1>5. Inbound'
  BY DEF Inbound, Unacknowledged
<1>6. Staging'
  BY <1>0, <1>b, <1>d DEF Staging, StagedUpTo, File, TypeOK
<1>7. Assigning'
  BY DEF Assigning
<1>8. Clearing'
  BY DEF Clearing
<1> QED
  BY <1>1, <1>2, <1>3, <1>4, <1>5, <1>6, <1>7, <1>8

LEMMA UndoStagingKeeps ==
  ASSUME HandoffInv, UndoStaging
  PROVE  HandoffInv'
<1> USE DEF HandoffInv, UndoStaging, EndRequest, Fault, NoFault, batches,
            browser
<1>1. TypeOK'
  BY MaxFaultsAssumption DEF TypeOK, Points
<1>2. (at \in PullPoints => cur \in Batches)'
  BY DEF PullPoints
<1>3. Stages'
  BY DEF Stages, Stage
<1>4. OneOutstanding'
  BY DEF OneOutstanding, Unacknowledged
<1>5. Inbound'
  BY DEF Inbound
<1>6. Staging'
  BY DEF Staging
<1>7. Assigning'
  BY DEF Assigning
<1>8. Clearing'
  BY DEF Clearing
<1> QED
  BY <1>1, <1>2, <1>3, <1>4, <1>5, <1>6, <1>7, <1>8

LEMMA WriteReceiptKeeps ==
  ASSUME HandoffInv, WriteReceipt
  PROVE  HandoffInv'
<1> USE DEF HandoffInv, WriteReceipt, Proceed, Fault, NoFault, media, browser
<1>0. cur \in Batches /\ Clips[cur] \in Nat \ {0}
  BY ClipsAssumption DEF PullPoints, Points
<1>a. /\ Assigned(cur) \in Seq(Accounts) /\ Len(Assigned(cur)) = Clips[cur]
      /\ \A i \in 1..Clips[cur] : Assigned(cur)[i] = roster[i]
  BY <1>0, AssignedFits DEF Staging
<1>1. TypeOK'
  <2>1. /\ receipt' \in [Batches -> Receipts]
        /\ frozen' \in [Batches -> Seq(Accounts)]
    BY <1>0, <1>a DEF TypeOK, Receipts
  <2>2. at' \in Points /\ faults' \in 0..MaxFaults
    BY MaxFaultsAssumption DEF TypeOK, Points
  <2> QED
    BY <2>1, <2>2 DEF TypeOK
<1>2. (at \in PullPoints => cur \in Batches)'
  BY DEF PullPoints, Points
<1>3. Stages'
  BY <1>0, <1>a DEF Stages, Stage, Inbound, TypeOK
<1>4. OneOutstanding'
  BY <1>0 DEF OneOutstanding, Unacknowledged, Inbound, TypeOK
<1>5. Inbound'
  BY DEF Inbound, Unacknowledged, TypeOK
<1>6. Staging'
  BY DEF Staging
<1>7. Assigning'
  BY <1>0, <1>a DEF Assigning, Staging, StagedUpTo, SameTargets, TypeOK
<1>8. Clearing'
  BY DEF Clearing
<1> QED
  BY <1>1, <1>2, <1>3, <1>4, <1>5, <1>6, <1>7, <1>8

LEMMA ArchiveKeeps ==
  ASSUME HandoffInv, Archive
  PROVE  HandoffInv'
<1> USE DEF HandoffInv, Archive, Proceed, EndRequest, RequestFails, Fault,
            NoFault, batches, media, browser, AfterArchive
<1>0. cur \in Batches
  BY DEF PullPoints, Points
<1>1. TypeOK'
  <2>1. place' \in [Batches -> Places]
    BY <1>0 DEF TypeOK, Places
  <2>2. at' \in Points /\ faults' \in 0..MaxFaults
    BY MaxFaultsAssumption DEF TypeOK, Points
  <2> QED
    BY <2>1, <2>2 DEF TypeOK
<1>2. (at \in PullPoints => cur \in Batches)'
  BY DEF PullPoints, Points
<1>3. Stages'
  BY <1>0 DEF Stages, Stage, Assigning, TypeOK
<1>4. OneOutstanding'
  BY <1>0 DEF OneOutstanding, Unacknowledged, Inbound, TypeOK
<1>5. Inbound'
  BY DEF Inbound
<1>6. Staging'
  BY DEF Staging
<1>7. Assigning'
  <2>1. CASE at' = "idle"
    BY <2>1 DEF Assigning
  <2>2. CASE at = "resuming" /\ at' = "restoring"
    <3>1. /\ done' = 0 /\ 0 < Clips[cur]
          /\ UNCHANGED <<cur, receipt, frozen, roster, good>>
      BY <1>0, <2>2, ClipsAssumption DEF Assigning
    <3>2. place'[cur]  = "archive"
      BY <1>0, <2>2 DEF TypeOK
    <3> QED
      BY <2>2, <3>1, <3>2 DEF Assigning, StagedUpTo, SameTargets
  <2>3. CASE at = "archiving" /\ at' = "replying"
    BY <1>0, <2>3 DEF Assigning, StagedUpTo, SameTargets, TypeOK
  <2> QED
    BY <2>1, <2>2, <2>3
<1>8. Clearing'
  BY DEF Clearing
<1> QED
  BY <1>1, <1>2, <1>3, <1>4, <1>5, <1>6, <1>7, <1>8

LEMMA RestoreClipKeeps ==
  ASSUME HandoffInv, RestoreClip
  PROVE  HandoffInv'
<1> USE DEF HandoffInv, RestoreClip, Proceed, EndRequest, RequestFails, Fault,
            NoFault, batches, media, browser
<1>0. cur \in Batches /\ Clips[cur] \in Nat \ {0}
  BY ClipsAssumption DEF PullPoints, Points
<1>a. frozen[cur] \in Seq(Accounts) /\ Len(frozen[cur]) = Clips[cur]
  BY <1>0 DEF Assigning, Stages, Stage, TypeOK
<1>b. done + 1 \in 1..Clips[cur]
  BY <1>0 DEF Assigning, TypeOK
<1>c. File(frozen[cur], cur, done + 1) \in Accounts \X Batches \X Nat
  BY <1>0, <1>a, <1>b DEF File
<1>1. TypeOK'
  BY <1>c, MaxFaultsAssumption DEF TypeOK, Points
<1>2. (at \in PullPoints => cur \in Batches)'
  BY DEF PullPoints, Points
<1>3. Stages'
  BY DEF Stages, Stage
<1>4. OneOutstanding'
  BY DEF OneOutstanding, Unacknowledged
<1>5. Inbound'
  BY DEF Inbound
<1>6. Staging'
  BY DEF Staging
<1>7. Assigning'
  <2>1. CASE at' = "idle"
    BY <2>1 DEF Assigning
  <2>2. CASE done' = done + 1
    <3>1. /\ UNCHANGED <<cur, place, receipt, frozen, roster>>
          /\ good' = good \cup {File(frozen[cur], cur, done + 1)}
      BY <2>2 DEF TypeOK
    <3>2. StagedUpTo(frozen[cur], done)'
      BY <1>b, <2>2, <3>1 DEF Assigning, StagedUpTo, TypeOK
    <3> QED
      BY <1>0, <1>b, <2>2, <3>1, <3>2 DEF Assigning, SameTargets
  <2> QED
    BY <2>1, <2>2
<1>8. Clearing'
  BY DEF Clearing
<1> QED
  BY <1>1, <1>2, <1>3, <1>4, <1>5, <1>6, <1>7, <1>8

LEMMA ReplyKeeps ==
  ASSUME HandoffInv, Reply
  PROVE  HandoffInv'
<1> USE DEF HandoffInv, Reply, EndRequest, Fault, NoFault, batches, media
<1>0. cur \in Batches
  BY DEF PullPoints, Points
<1>1. TypeOK'
  BY <1>0, MaxFaultsAssumption DEF TypeOK, Points
<1>2. (at \in PullPoints => cur \in Batches)'
  BY DEF PullPoints
<1>3. Stages'
  BY <1>0 DEF Stages, Stage, Assigning, TypeOK
<1>4. OneOutstanding'
  BY DEF OneOutstanding, Unacknowledged
<1>5. Inbound'
  BY DEF Inbound
<1>6. Staging'
  BY DEF Staging
<1>7. Assigning'
  BY DEF Assigning
<1>8. Clearing'
  BY DEF Clearing
<1> QED
  BY <1>1, <1>2, <1>3, <1>4, <1>5, <1>6, <1>7, <1>8

LEMMA AcknowledgeKeeps ==
  ASSUME HandoffInv, NEW b \in Batches, Acknowledge(b)
  PROVE  HandoffInv'
<1> USE DEF HandoffInv, Acknowledge, media, request
<1>1. TypeOK'
  BY DEF TypeOK, Receipts
<1>2. (at \in PullPoints => cur \in Batches)'
  OBVIOUS
<1>3. Stages'
  BY DEF Stages, Stage
<1>4. OneOutstanding'
  BY DEF OneOutstanding, Unacknowledged
<1>5. Inbound'
  BY DEF Inbound
<1>6. Staging'
  BY DEF Staging
<1>7. Assigning'
  BY DEF Assigning
<1>8. Clearing'
  BY DEF Clearing
<1> QED
  BY <1>1, <1>2, <1>3, <1>4, <1>5, <1>6, <1>7, <1>8

LEMMA GiveUpKeeps ==
  ASSUME HandoffInv, NEW b \in Batches, GiveUp(b)
  PROVE  HandoffInv'
<1> USE DEF HandoffInv, GiveUp, batches, media, request
<1>1. TypeOK'
  BY DEF TypeOK
<1>2. (at \in PullPoints => cur \in Batches)'
  OBVIOUS
<1>3. Stages'
  BY DEF Stages, Stage
<1>4. OneOutstanding'
  BY DEF OneOutstanding, Unacknowledged
<1>5. Inbound'
  BY DEF Inbound, Unacknowledged
<1>6. Staging'
  BY DEF Staging, StagedUpTo, Assigned
<1>7. Assigning'
  BY DEF Assigning, StagedUpTo, SameTargets
<1>8. Clearing'
  BY DEF Clearing
<1> QED
  BY <1>1, <1>2, <1>3, <1>4, <1>5, <1>6, <1>7, <1>8

LEMMA ClearBeginsKeeps ==
  ASSUME HandoffInv, ClearBegins
  PROVE  HandoffInv'
<1> USE DEF HandoffInv, ClearBegins, batches, media, browser, Clearable
<1>1. TypeOK'
  BY DEF TypeOK, Points
<1>2. (at \in PullPoints => cur \in Batches)'
  BY DEF PullPoints
<1>3. Stages'
  BY DEF Stages, Stage
<1>4. OneOutstanding'
  BY DEF OneOutstanding, Unacknowledged
<1>5. Inbound'
  BY DEF Inbound
<1>6. Staging'
  BY DEF Staging
<1>7. Assigning'
  BY DEF Assigning
<1>8. Clearing'
  BY DEF Clearing
<1> QED
  BY <1>1, <1>2, <1>3, <1>4, <1>5, <1>6, <1>7, <1>8

LEMMA RemoveEntryKeeps ==
  ASSUME HandoffInv, NEW b \in Batches, RemoveEntry(b)
  PROVE  HandoffInv'
<1> USE DEF HandoffInv, RemoveEntry, NextCandidate, media, request, browser
<1>0. place[b] = "archive" /\ receipt[b] # "staged"
  BY DEF Clearing, IsOldest
<1>1. TypeOK'
  BY BatchesAssumption, ClipsAssumption, MaxFaultsAssumption
     DEF TypeOK, Points, Places, Receipts, Positions
<1>2. (at \in PullPoints => cur \in Batches)'
  BY DEF PullPoints
<1>3. Stages'
  BY <1>0 DEF Stages, Stage, TypeOK
<1>4. OneOutstanding'
  BY DEF OneOutstanding, Unacknowledged, TypeOK
<1>5. Inbound'
  BY DEF Inbound
<1>6. Staging'
  BY DEF Staging
<1>7. Assigning'
  BY DEF Assigning
<1>8. Clearing'
  BY DEF Clearing, TypeOK
<1> QED
  BY <1>1, <1>2, <1>3, <1>4, <1>5, <1>6, <1>7, <1>8

LEMMA RemovalFailsKeeps ==
  ASSUME HandoffInv, NEW b \in Batches, RemovalFails(b)
  PROVE  HandoffInv'
<1> USE DEF HandoffInv, RemovalFails, NextCandidate, Fault, batches, media,
            browser
<1>1. TypeOK'
  BY MaxFaultsAssumption DEF TypeOK, Points
<1>2. (at \in PullPoints => cur \in Batches)'
  BY DEF PullPoints
<1>3. Stages'
  BY DEF Stages, Stage
<1>4. OneOutstanding'
  BY DEF OneOutstanding, Unacknowledged
<1>5. Inbound'
  BY DEF Inbound
<1>6. Staging'
  BY DEF Staging
<1>7. Assigning'
  BY DEF Assigning
<1>8. Clearing'
  BY DEF Clearing
<1> QED
  BY <1>1, <1>2, <1>3, <1>4, <1>5, <1>6, <1>7, <1>8

LEMMA ClearMediaKeeps ==
  ASSUME HandoffInv, ClearMedia
  PROVE  HandoffInv'
<1> USE DEF HandoffInv, ClearMedia, Fault, NoFault, batches, request, browser
<1>1. TypeOK'
  BY MaxFaultsAssumption DEF TypeOK
<1>2. (at \in PullPoints => cur \in Batches)'
  OBVIOUS
<1>3. Stages'
  BY DEF Stages, Stage
<1>4. OneOutstanding'
  BY DEF OneOutstanding, Unacknowledged
<1>5. Inbound'
  BY DEF Inbound
<1>6. Staging'
  BY DEF Staging
<1>7. Assigning'
  BY DEF Assigning
<1>8. Clearing'
  BY DEF Clearing
<1> QED
  BY <1>1, <1>2, <1>3, <1>4, <1>5, <1>6, <1>7, <1>8

LEMMA SwitchRosterKeeps ==
  ASSUME HandoffInv, SwitchRoster
  PROVE  HandoffInv'
<1> USE DEF HandoffInv, SwitchRoster, Fault, batches, media, request, browser
<1>1. TypeOK'
  BY MaxFaultsAssumption DEF TypeOK
<1>2. (at \in PullPoints => cur \in Batches)'
  OBVIOUS
<1>3. Stages'
  BY DEF Stages, Stage
<1>4. OneOutstanding'
  BY DEF OneOutstanding, Unacknowledged
<1>5. Inbound'
  BY DEF Inbound
<1>6. Staging'
  BY DEF Staging
<1>7. Assigning'
  BY DEF Assigning
<1>8. Clearing'
  BY DEF Clearing
<1> QED
  BY <1>1, <1>2, <1>3, <1>4, <1>5, <1>6, <1>7, <1>8

LEMMA DeliverKeeps ==
  ASSUME HandoffInv, NEW b \in Batches, Deliver(b)
  PROVE  HandoffInv'
<1> USE DEF HandoffInv, Deliver, media, request, browser
<1>1. TypeOK'
  BY DEF TypeOK, Places
<1>2. (at \in PullPoints => cur \in Batches)'
  OBVIOUS
<1>3. Stages'
  BY DEF Stages, Stage, TypeOK
<1>4. OneOutstanding'
  BY DEF OneOutstanding, Unacknowledged
<1>5. Inbound'
  BY DEF Inbound, Unacknowledged
<1>6. Staging'
  BY DEF Staging, StagedUpTo, Assigned
<1>7. Assigning'
  BY DEF Assigning, StagedUpTo, SameTargets
<1>8. Clearing'
  BY DEF Clearing
<1> QED
  BY <1>1, <1>2, <1>3, <1>4, <1>5, <1>6, <1>7, <1>8

LEMMA KillKeeps ==
  ASSUME HandoffInv, Kill
  PROVE  HandoffInv'
<1> USE DEF HandoffInv, Kill, EndRequest, Fault, batches, media, browser
<1>1. TypeOK'
  BY MaxFaultsAssumption DEF TypeOK, Points
<1>2. (at \in PullPoints => cur \in Batches)'
  BY DEF PullPoints
<1>3. Stages'
  BY DEF Stages, Stage
<1>4. OneOutstanding'
  BY DEF OneOutstanding, Unacknowledged
<1>5. Inbound'
  BY DEF Inbound
<1>6. Staging'
  BY DEF Staging
<1>7. Assigning'
  BY DEF Assigning
<1>8. Clearing'
  BY DEF Clearing
<1> QED
  BY <1>1, <1>2, <1>3, <1>4, <1>5, <1>6, <1>7, <1>8

LEMMA AlterMediaKeeps ==
  ASSUME HandoffInv, NEW f \in good, AlterMedia(f)
  PROVE  HandoffInv'
<1> USE DEF HandoffInv, AlterMedia, Fault, batches, request, browser
<1>1. TypeOK'
  BY MaxFaultsAssumption DEF TypeOK
<1>2. (at \in PullPoints => cur \in Batches)'
  OBVIOUS
<1>3. Stages'
  BY DEF Stages, Stage
<1>4. OneOutstanding'
  BY DEF OneOutstanding, Unacknowledged
<1>5. Inbound'
  BY DEF Inbound
<1>6. Staging'
  BY DEF Staging
<1>7. Assigning'
  BY DEF Assigning
<1>8. Clearing'
  BY DEF Clearing
<1> QED
  BY <1>1, <1>2, <1>3, <1>4, <1>5, <1>6, <1>7, <1>8

LEMMA UnchangedKeeps ==
  ASSUME HandoffInv, UNCHANGED vars
  PROVE  HandoffInv'
<1> USE DEF HandoffInv, vars
<1>1. TypeOK' /\ Stages' /\ OneOutstanding'
  BY DEF TypeOK, Stages, Stage, OneOutstanding, Unacknowledged
<1>2. Inbound' /\ Staging' /\ Assigning' /\ Clearing'
  BY DEF Inbound, Staging, Assigning, Clearing, StagedUpTo, File, Assigned,
         SameTargets, Unacknowledged
<1> QED
  BY <1>1, <1>2

-----------------------------------------------------------------------------
LEMMA HandoffStep == HandoffInv /\ [Next]_vars => HandoffInv'
<1> SUFFICES ASSUME HandoffInv, [Next]_vars PROVE HandoffInv'
  OBVIOUS
<1>1. CASE \/ StageClip \/ UndoStaging \/ WriteReceipt
           \/ Archive \/ RestoreClip \/ Reply
  BY <1>1, StageClipKeeps, UndoStagingKeeps, WriteReceiptKeeps, ArchiveKeeps,
     RestoreClipKeeps, ReplyKeeps
<1>2. CASE ClearBegins \/ ClearMedia \/ SwitchRoster \/ Kill
  BY <1>2, ClearBeginsKeeps, ClearMediaKeeps, SwitchRosterKeeps, KillKeeps
<1>3. ASSUME NEW b \in Batches,
             PullBegins(b) \/ Acknowledge(b) \/ GiveUp(b) \/ Deliver(b)
      PROVE  HandoffInv'
  BY <1>3, PullReplaysKeeps, PullResumesKeeps, PullStagesKeeps,
     AcknowledgeKeeps, GiveUpKeeps, DeliverKeeps DEF PullBegins
<1>4. ASSUME NEW b \in Batches, RemoveEntry(b) \/ RemovalFails(b)
      PROVE  HandoffInv'
  BY <1>4, RemoveEntryKeeps, RemovalFailsKeeps
<1>5. ASSUME NEW f \in good, AlterMedia(f) PROVE HandoffInv'
  BY <1>5, AlterMediaKeeps
<1>6. CASE UNCHANGED vars
  BY <1>6, UnchangedKeeps
<1> QED
  BY <1>1, <1>2, <1>3, <1>4, <1>5, <1>6 DEF Next, RequestStep

LEMMA HandoffInvariant == Spec => []HandoffInv
<1> QED
  BY HandoffInit, HandoffStep, PTL DEF Spec

(* The variables of a pickup always have their types.                      *)
THEOREM HandoffTypeCorrect == Spec => []TypeOK
<1>1. HandoffInv => TypeOK
  BY DEF HandoffInv
<1> QED
  BY <1>1, HandoffInvariant, PTL

(* No clip is lost before its batch was applied, whatever dies or fails    *)
(* (ingest_oldest, clear_consumed_batches).                                *)
THEOREM SourceSafeCorrect == Spec => []SourceSafe
<1>1. HandoffInv => SourceSafe
  BY DEF HandoffInv, TypeOK, Places, Stages, Stage, SourceSafe
<1> QED
  BY <1>1, HandoffInvariant, PTL

(* One archived batch at most waits for its acknowledgement                *)
(* (ingest_oldest).                                                        *)
THEOREM OneOutstandingCorrect == Spec => []OneOutstanding
<1>1. HandoffInv => OneOutstanding
  BY DEF HandoffInv
<1> QED
  BY <1>1, HandoffInvariant, PTL

(* Whoever is answered finds every assigned file staged, for the accounts  *)
(* of the active roster (ingest_oldest, _restore_staged_media).            *)
THEOREM ReplyReadyCorrect == Spec => []ReplyReady
<1>1. ASSUME HandoffInv, at = "replying"
      PROVE  /\ cur \in Unacknowledged /\ Validated(cur)
             /\ SameTargets(cur)
             /\ Files(frozen[cur], cur) \subseteq good
  <2>1. cur \in Batches /\ Stage(cur) /\ Assigning
    BY <1>1 DEF HandoffInv, PullPoints, Points, Stages
  <2> QED
    BY <1>1, <2>1 DEF Assigning, Stage, Unacknowledged, Validated, Files,
                      Positions, StagedUpTo
<1>2. HandoffInv => ReplyReady
  BY <1>1 DEF ReplyReady
<1> QED
  BY <1>2, HandoffInvariant, PTL

-----------------------------------------------------------------------------
(* The contract.                                                           *)

LEMMA ContractInit == Init => Contract!Init
<1> QED
  BY DEF Init, Contract!Init, Phase

(* A batch is where the contract has it because of its directory and its   *)
(* receipt: a step that changes neither, and tells nobody, is a stutter.   *)
LEMMA ContractStutters ==
  ASSUME UNCHANGED <<batches, told>>
  PROVE  UNCHANGED Contract!vars
<1>1. \A b \in Batches : Phase(b)' = Phase(b)
  BY DEF Phase, batches, Positions
<1> QED
  BY <1>1 DEF Contract!vars, batches

(* A step that takes batch b alone from one phase to another is that move. *)
LEMMA ContractMoves ==
  ASSUME NEW b \in Batches, NEW from, NEW to,
         Phase(b) = from, Phase(b)' = to,
         \A c \in Batches \ {b} : Phase(c)' = Phase(c)
  PROVE  Contract!Move(b, from, to)
<1> QED
  BY DEF Contract!Move

LEMMA ContractStep ==
  HandoffInv /\ HandoffInv' /\ [Next]_vars => [Contract!Next]_Contract!vars
<1> SUFFICES ASSUME HandoffInv, HandoffInv', [Next]_vars
             PROVE  [Contract!Next]_Contract!vars
  OBVIOUS
<1>1. CASE UNCHANGED <<batches, told>>
  BY <1>1, ContractStutters
<1>2. CASE WriteReceipt /\ at' = "archiving"
  <2>0. PICK b \in Batches : b = cur
    BY <1>2 DEF WriteReceipt, HandoffInv, PullPoints, Points
  <2>1. place[b] = "inbox" /\ receipt[b] = "none"
    BY <1>2, <2>0 DEF WriteReceipt, HandoffInv, Inbound, Staging
  <2>2. /\ receipt' = [receipt EXCEPT ![b] = "staged"]
        /\ frozen' = [frozen EXCEPT ![b] = Assigned(cur)]
        /\ UNCHANGED <<place, source, told>>
    BY <1>2, <2>0 DEF WriteReceipt, Proceed, browser
  <2>3. Phase(b) = "waiting" /\ Phase(b)' = "frozen"
    <3>1. place'[b] = "inbox" /\ receipt'[b] = "staged"
      BY <2>1, <2>2 DEF HandoffInv, TypeOK
    <3> QED
      BY <2>1, <3>1 DEF Phase
  <2>4. \A c \in Batches \ {b} : Phase(c)' = Phase(c)
    BY <2>1, <2>2 DEF Phase, Positions, HandoffInv, TypeOK
  <2>5. /\ frozen'[b] \in Seq(Accounts)
        /\ frozen' = [frozen EXCEPT ![b] = frozen'[b]]
    BY <2>1, <2>2 DEF HandoffInv, TypeOK
  <2>6. Contract!Move(b, "waiting", "frozen")
    BY <2>1, <2>3, <2>4, ContractMoves
  <2>7. Contract!Freeze(b)
    BY <2>2, <2>5, <2>6 DEF Contract!Freeze
  <2> QED
    BY <2>7 DEF Contract!Next
<1>3. CASE Archive /\ at' # "idle"
  <2>1. cur \in Batches /\ place[cur] = "inbox" /\ receipt[cur] = "staged"
    BY <1>3
       DEF Archive, HandoffInv, PullPoints, Points, Inbound, Assigning
  <2>2. /\ place' = [place EXCEPT ![cur] = "archive"]
        /\ UNCHANGED <<receipt, source, frozen, told>>
    BY <1>3 DEF Archive, RequestFails, EndRequest, browser
  <2>3. \A c \in Batches : Phase(c)' = Phase(c)
    BY <2>1, <2>2 DEF Phase, Positions, HandoffInv, TypeOK
  <2> QED
    BY <2>2, <2>3 DEF Contract!vars
<1>4. CASE Reply
  <2>1. cur \in Batches /\ receipt[cur] = "staged" /\ place[cur] = "archive"
    BY <1>4 DEF Reply, HandoffInv, PullPoints, Points, Assigning
  <2>2. Phase(cur) = "frozen"
    BY <2>1 DEF Phase
  <2>3. \A c \in Batches : Phase(c)' = Phase(c)
    BY <1>4 DEF Reply, Phase, Positions, batches
  <2>4. Contract!Tell(cur)
    BY <1>4, <2>1, <2>2, <2>3 DEF Contract!Tell, Reply, batches
  <2> QED
    BY <2>1, <2>4 DEF Contract!Next
<1>5. ASSUME NEW b \in Batches, Acknowledge(b)
      PROVE  [Contract!Next]_Contract!vars
  <2>1. /\ told[b] # {} /\ place[b] = "archive"
        /\ receipt[b] \in {"staged", "applied"}
    BY <1>5
       DEF Acknowledge, Validated, HandoffInv, TypeOK, Receipts, Stages, Stage
  <2>2. /\ receipt' = [receipt EXCEPT ![b] = "applied"]
        /\ UNCHANGED <<place, source, frozen, told>>
        /\ source[b] = Positions(b)
    BY <1>5 DEF Acknowledge, Validated
  <2>3. \A c \in Batches \ {b} : Phase(c)' = Phase(c)
    BY <2>2 DEF Phase, Positions, HandoffInv, TypeOK
  <2>4. Phase(b)' = "applied"
    BY <2>1, <2>2 DEF Phase, Positions, HandoffInv, TypeOK
  <2>5. CASE receipt[b] = "staged"
    <3>1. Phase(b) = "frozen"
      BY <2>1, <2>5 DEF Phase
    <3>2. Contract!Apply(b)
      BY <2>1, <2>2, <2>3, <2>4, <3>1, ContractMoves DEF Contract!Apply
    <3> QED
      BY <3>2 DEF Contract!Next
  <2>6. CASE receipt[b] = "applied"
    <3>1. Phase(b) = "applied"
      BY <2>1, <2>2, <2>6 DEF Phase
    <3> QED
      BY <2>2, <2>3, <2>4, <3>1 DEF Contract!vars
  <2> QED
    BY <2>1, <2>5, <2>6
<1>6. ASSUME NEW b \in Batches, Deliver(b)
      PROVE  [Contract!Next]_Contract!vars
  <2>1. Phase(b) = "unborn" /\ receipt[b] = "none"
    BY <1>6 DEF Deliver, Phase, HandoffInv, Stages, Stage
  <2>2. Phase(b)' = "waiting" /\ \A c \in Batches \ {b} : Phase(c)' = Phase(c)
    BY <1>6, <2>1 DEF Deliver, Phase, Positions, HandoffInv, TypeOK
  <2>3. Contract!Arrive(b)
    BY <1>6, <2>1, <2>2, ContractMoves DEF Contract!Arrive, Deliver, browser
  <2> QED
    BY <2>3 DEF Contract!Next
<1>7. ASSUME NEW b \in Batches, RemoveEntry(b)
      PROVE  [Contract!Next]_Contract!vars
  <2>1. place[b] = "archive" /\ receipt[b] # "staged"
    BY <1>7 DEF RemoveEntry, IsOldest, HandoffInv, Clearing
  <2>2. Phase(b) \in {"applied", "discarded"}
    BY <2>1 DEF Phase
  <2>3. place'[b] \in {"archive", "gone"} /\ receipt'[b] # "staged"
    BY <1>7, <2>1 DEF RemoveEntry, HandoffInv, TypeOK
  <2>4. receipt'[b] = "none" \/ source'[b] # Positions(b)
    BY <1>7 DEF RemoveEntry, HandoffInv, TypeOK
  <2>5. Phase(b)' = "discarded"
    BY <2>3, <2>4 DEF Phase, Positions
  <2>6. /\ UNCHANGED <<frozen, told>>
        /\ \A c \in Batches \ {b} : Phase(c)' = Phase(c)
    BY <1>7 DEF RemoveEntry, browser, Phase, Positions, HandoffInv, TypeOK
  <2>7. CASE Phase(b) = "applied"
    <3>1. Contract!Discard(b)
      BY <2>5, <2>6, <2>7, ContractMoves DEF Contract!Discard
    <3> QED
      BY <3>1 DEF Contract!Next
  <2>8. CASE Phase(b) = "discarded"
    BY <2>5, <2>6, <2>8 DEF Contract!vars
  <2> QED
    BY <2>2, <2>7, <2>8
<1>8. CASE \/ StageClip \/ UndoStaging \/ RestoreClip
           \/ WriteReceipt /\ at' # "archiving"
           \/ Archive /\ at' = "idle"
           \/ ClearBegins \/ ClearMedia \/ SwitchRoster \/ Kill
  <2>1. UNCHANGED <<batches, told>>
    BY <1>8
       DEF StageClip, UndoStaging, RestoreClip, WriteReceipt, Archive,
           AfterArchive,
      ClearBegins, ClearMedia, SwitchRoster, Kill, RequestFails, Proceed,
      batches, browser
  <2> QED
    BY <2>1, ContractStutters
<1>9. ASSUME NEW b \in Batches, PullBegins(b) \/ GiveUp(b) \/ RemovalFails(b)
      PROVE  [Contract!Next]_Contract!vars
  <2>1. UNCHANGED <<batches, told>>
    BY <1>9 DEF PullBegins, PullReplays, PullResumes, PullStages, BeginPull,
      GiveUp, RemovalFails, batches, browser
  <2> QED
    BY <2>1, ContractStutters
<1>10. ASSUME NEW f \in good, AlterMedia(f) PROVE UNCHANGED <<batches, told>>
  BY <1>10 DEF AlterMedia, batches, browser
<1>11. CASE UNCHANGED vars
  BY <1>1, <1>11 DEF vars, batches
<1> QED
  BY <1>1, <1>2, <1>3, <1>4, <1>5, <1>6, <1>7, <1>8, <1>9, <1>10, <1>11
     DEF Next, RequestStep

(* Picking up batches implements the contract: one frozen assignment per   *)
(* batch, applied only after it was told, discarded only after it was      *)
(* applied (handoff_pickup.py).                                            *)
THEOREM ImplementsContractCorrect == Spec => ImplementsContract
<1> QED
  BY ContractInit, ContractStep, HandoffInvariant, PTL
     DEF Spec, ImplementsContract, Contract!Spec
==============================================================================
