---------------------------- MODULE HandoffPickup ----------------------------
(***************************************************************************)
(* Pull from Clipper (backend/handoff_pickup.py and its endpoints in       *)
(* backend/main.py): batches of clips that RiceClipper leaves in the       *)
(* handoff directory are staged into the media directory for the accounts  *)
(* of the active roster, archived with a receipt, replayed until a browser *)
(* acknowledges them, and cleared on request.                              *)
(*                                                                         *)
(* The endpoints never await, so requests exclude each other.  The process *)
(* can die and an operation can fail between two changes of files: a       *)
(* request is a chain of steps, one for each file it changes, during which *)
(* `at' is not "idle".                                                     *)
(***************************************************************************)
EXTENDS Naturals, Sequences, FiniteSets

CONSTANTS
  Batches,      \* batches, numbered in the order of their names
  Accounts,     \* account ids
  Rosters,      \* the rosters the maintainer activates
  Clips,        \* how many clips each batch has
  Faults,       \* the kinds of fault the environment may produce
  MaxFaults     \* how many of them it may produce

FaultKinds == {"kill",     \* the server dies
               "io",       \* one file operation raises
               "drop",     \* a reply does not reach the browser
               "alter",    \* a staged file is changed by hand
               "switch"}   \* the maintainer activates another roster

ASSUME BatchesAssumption == Batches \subseteq Nat \ {0}
ASSUME RostersAssumption == Rosters # {} /\ Rosters \subseteq Seq(Accounts)
ASSUME ClipsAssumption == Clips \in [Batches -> Nat \ {0}]
ASSUME FaultsAssumption == Faults \subseteq FaultKinds
ASSUME MaxFaultsAssumption == MaxFaults \in Nat

VARIABLES
  place,        \* where the directory of each batch is
  receipt,      \* the status in its receipt file
  frozen,       \* target_account_ids of its receipt
  source,       \* which of its clips are in its directory
  good,         \* staged files that are what was staged
  altered,      \* staged files that are not
  roster,       \* account_state.active_account_ids
  at,           \* where the request in progress stands
  cur,          \* the batch it is about (0: none)
  done,         \* how many of its clips were staged or restored
  candidates,   \* the archives clear_consumed_batches is going to remove
  inHand,       \* the batches browsers are preparing for review
  told,         \* (ghost) the assignments sent for each batch
  faults        \* faults so far

batches == <<place, receipt, frozen, source>>
media == <<good, altered>>
request == <<at, cur, done, candidates>>
browser == <<inHand, told>>
vars == <<place, receipt, frozen, source, good, altered, roster, at, cur,
          done, candidates, inHand, told, faults>>

Places == {"unborn", "inbox", "archive", "gone"}
Receipts == {"none", "staged", "applied"}
Points == {"idle", "staging", "undoing", "signing", "archiving", "resuming",
           "restoring", "replying", "clearing"}

Positions(b) == 1..Clips[b]

(* The staged file of the i-th clip: {account_id}_{batch}_{file}.          *)
File(t, b, i) == <<t[i], b, i>>
Files(t, b) == {File(t, b, i) : i \in Positions(b)}

(* Each active account receives one clip, as far as there are clips.       *)
Assigned(b) == SubSeq(roster, 1, Clips[b])

IsOldest(b, S) == b \in S /\ \A c \in S : b <= c

Ready == {b \in Batches : place[b] = "inbox"}

Unacknowledged ==
  {b \in Batches : place[b] = "archive" /\ receipt[b] = "staged"}

(* _validate_receipt: every source file is there.                          *)
Validated(b) == receipt[b] # "none" /\ source[b] = Positions(b)

(* _require_same_targets: the frozen targets are a prefix of the roster.   *)
SameTargets(b) ==
  /\ Len(frozen[b]) <= Len(roster)
  /\ \A i \in 1..Len(frozen[b]) : frozen[b][i] = roster[i]

Init ==
  /\ place = [b \in Batches |-> "unborn"]
  /\ receipt = [b \in Batches |-> "none"]
  /\ frozen = [b \in Batches |-> <<>>]
  /\ source = [b \in Batches |-> {}]
  /\ good = {} /\ altered = {}
  /\ roster \in Rosters
  /\ at = "idle" /\ cur = 0 /\ done = 0 /\ candidates = {}
  /\ inHand = {} /\ told = [b \in Batches |-> {}]
  /\ faults = 0

Fault(kind) ==
  /\ kind \in Faults /\ faults < MaxFaults
  /\ faults' = faults + 1

NoFault == UNCHANGED faults

(* A request proceeds to a point, or begins one about a batch, or ends.    *)
Proceed(point) ==
  /\ at' = point
  /\ UNCHANGED <<cur, candidates>>

BeginPull(b, point) ==
  /\ at' = point /\ cur' = b /\ done' = 0
  /\ UNCHANGED <<batches, media, roster, candidates, browser, faults>>

EndRequest ==
  /\ at' = "idle" /\ cur' = 0 /\ done' = 0 /\ candidates' = {}

(* A file operation raised and the request is answered with an error.      *)
RequestFails ==
  /\ Fault("io")
  /\ EndRequest
  /\ UNCHANGED <<batches, media, roster, browser>>

-----------------------------------------------------------------------------
(* POST /api/pull-from-clipper: ingest_oldest.  Every refusal leaves all   *)
(* files alone and is not a step.                                          *)

(* An archived batch that was not acknowledged comes before all others.    *)
PullReplays(b) ==
  /\ at = "idle"
  /\ IsOldest(b, Unacknowledged)
  /\ Validated(b) /\ SameTargets(b)
  /\ BeginPull(b, "restoring")

(* Otherwise the oldest ready batch is next, if the roster has an account  *)
(* for each of its clips.                                                  *)
NextInboundMutant(b) == IsOldest(b, Ready) /\ Clips[b] <= Len(roster)
NextInbound(b) ==
  Unacknowledged = {} /\ IsOldest(b, Ready) /\ Clips[b] <= Len(roster)

(* The oldest batch has a receipt: its move to the archive did not happen. *)
PullResumesMutant(b) == FALSE
PullResumes(b) ==
  /\ at = "idle" /\ NextInbound(b)
  /\ Validated(b) /\ SameTargets(b)
  /\ BeginPull(b, "resuming")

PullStagesMutant(b) == at = "idle" /\ NextInbound(b) /\ BeginPull(b, "staging")
PullStages(b) ==
  /\ at = "idle" /\ NextInbound(b)
  /\ receipt[b] = "none"
  /\ BeginPull(b, "staging")

(* _copy_atomic of one clip; a failure rolls back the clips before it.     *)
StageClip ==
  /\ at = "staging"
  /\ LET f == File(Assigned(cur), cur, done + 1)
     IN  \/ /\ good' = good \cup {f} /\ altered' = altered \ {f}
            /\ done' = done + 1
            /\ Proceed(IF done + 1 = Clips[cur] THEN "signing" ELSE "staging")
            /\ NoFault
         \/ /\ Fault("io")
            /\ Proceed("undoing") /\ UNCHANGED <<media, done>>
  /\ UNCHANGED <<batches, roster, browser>>

(* The roll back removes the staged files, or fails at one of them.        *)
UndoStaging ==
  /\ at = "undoing"
  /\ \E k \in 0..done :
       /\ \/ k = done /\ NoFault
          \/ k < done /\ Fault("io")
       /\ LET removed == {File(Assigned(cur), cur, i) : i \in 1..k}
          IN  good' = good \ removed /\ altered' = altered \ removed
  /\ EndRequest
  /\ UNCHANGED <<batches, roster, browser>>

(* _atomic_json of the receipt, which freezes the assignment.              *)
WriteReceipt ==
  /\ at = "signing"
  /\ \/ /\ receipt' = [receipt EXCEPT ![cur] = "staged"]
        /\ frozen' = [frozen EXCEPT ![cur] = Assigned(cur)]
        /\ Proceed("archiving") /\ NoFault
     \/ /\ Fault("io")
        /\ Proceed("undoing") /\ UNCHANGED <<receipt, frozen>>
  /\ UNCHANGED <<place, source, media, roster, done, browser>>

(* A resumed pull restores its media before it answers.                    *)
AfterArchiveMutant == "replying"
AfterArchive == IF at = "resuming" THEN "restoring" ELSE "replying"

(* os.replace of the directory.                                            *)
Archive ==
  /\ at \in {"archiving", "resuming"}
  /\ \/ /\ place' = [place EXCEPT ![cur] = "archive"]
        /\ Proceed(AfterArchive)
        /\ NoFault
        /\ UNCHANGED <<receipt, frozen, source, media, roster, done, browser>>
     \/ RequestFails

(* _restore_staged_media, one clip a step: a file that is there must be    *)
(* what was staged, and one that is not is copied from the archive.        *)
RestoreClip ==
  /\ at = "restoring"
  /\ LET f == File(frozen[cur], cur, done + 1)
     IN  \/ /\ f \notin altered
            /\ good' = good \cup {f}
            /\ done' = done + 1
            /\ Proceed(IF done + 1 = Clips[cur] THEN "replying" ELSE "restoring")
            /\ NoFault
            /\ UNCHANGED <<batches, altered, roster, browser>>
         \/ /\ f \in altered
            /\ EndRequest
            /\ UNCHANGED <<batches, media, roster, browser, faults>>
         \/ f \notin good \cup altered /\ RequestFails

(* The browser gets the assignment, or the reply is lost on the way.       *)
Reply ==
  /\ at = "replying"
  /\ told' = [told EXCEPT ![cur] = @ \cup {frozen[cur]}]
  /\ \/ inHand' = inHand \cup {cur} /\ NoFault
     \/ Fault("drop") /\ UNCHANGED inHand
  /\ EndRequest
  /\ UNCHANGED <<batches, media, roster>>

-----------------------------------------------------------------------------
(* POST /api/pull-from-clipper/{batch_id}/ack: acknowledge, called by a    *)
(* browser that has prepared the review of the batch.                      *)

Acknowledge(b) ==
  /\ at = "idle"
  /\ b \in inHand
  /\ place[b] = "archive" /\ Validated(b) /\ SameTargets(b)
  /\ receipt' = [receipt EXCEPT ![b] = "applied"]
  /\ inHand' = inHand \ {b}
  /\ UNCHANGED <<place, frozen, source, media, roster, request, told, faults>>

(* Captions are missing, the acknowledgement failed or was refused, or the *)
(* page was closed.                                                        *)
GiveUp(b) ==
  /\ b \in inHand
  /\ inHand' = inHand \ {b}
  /\ UNCHANGED <<batches, media, roster, request, told, faults>>

-----------------------------------------------------------------------------
(* POST /api/handoff/consumed/clear: clear_consumed_batches.               *)

ClearableMutant == {b \in Batches : place[b] = "archive" /\ Validated(b)}
Clearable == {b \in Batches :
  place[b] = "archive" /\ receipt[b] = "applied" /\ Validated(b)}

ClearBegins ==
  /\ at = "idle"
  /\ Clearable # {} /\ candidates' = Clearable
  /\ at' = "clearing"
  /\ UNCHANGED <<batches, media, roster, cur, done, browser, faults>>

(* The rest of the candidates when b is dealt with.                        *)
NextCandidate(b) ==
  /\ candidates' = candidates \ {b}
  /\ at' = IF candidates = {b} THEN "idle" ELSE "clearing"
  /\ UNCHANGED <<cur, done>>

(* rmtree removes one entry, in an order of its own; the directory goes    *)
(* with its last entry.                                                    *)
RemoveEntry(b) ==
  /\ at = "clearing" /\ IsOldest(b, candidates)
  /\ \/ \E i \in source[b] :
          source' = [source EXCEPT ![b] = @ \ {i}] /\ UNCHANGED receipt
     \/ /\ receipt[b] # "none"
        /\ receipt' = [receipt EXCEPT ![b] = "none"] /\ UNCHANGED source
  /\ IF source'[b] = {} /\ receipt'[b] = "none"
     THEN place' = [place EXCEPT ![b] = "gone"] /\ NextCandidate(b)
     ELSE UNCHANGED <<place, request>>
  /\ UNCHANGED <<frozen, media, roster, browser, faults>>

(* rmtree raises: the archive is counted as failed and left as it is.      *)
RemovalFails(b) ==
  /\ at = "clearing" /\ IsOldest(b, candidates)
  /\ Fault("io")
  /\ NextCandidate(b)
  /\ UNCHANGED <<batches, media, roster, browser>>

-----------------------------------------------------------------------------
(* POST /api/media/clear, or a part of it when a removal fails.            *)
ClearMedia ==
  /\ at = "idle"
  /\ \/ good' = {} /\ altered' = {} /\ NoFault
     \/ /\ Fault("io")
        /\ good' \in SUBSET good /\ altered' \in SUBSET altered
  /\ UNCHANGED <<batches, roster, request, browser>>

(* The maintainer activates another roster.                                *)
SwitchRoster ==
  /\ at = "idle"
  /\ Fault("switch")
  /\ roster' \in Rosters \ {roster}
  /\ UNCHANGED <<batches, media, request, browser>>

(* RiceClipper completes a batch: its manifest is written last.            *)
DeliverMutant(b) ==
  /\ place[b] = "unborn"
  /\ place' = [place EXCEPT ![b] = "inbox"]
  /\ source' = [source EXCEPT ![b] = 0..Clips[b]]
  /\ UNCHANGED <<receipt, frozen, media, roster, request, browser, faults>>
Deliver(b) ==
  /\ place[b] = "unborn"
  /\ place' = [place EXCEPT ![b] = "inbox"]
  /\ source' = [source EXCEPT ![b] = Positions(b)]
  /\ UNCHANGED <<receipt, frozen, media, roster, request, browser, faults>>

(* Between requests somebody changes a staged file.                        *)
AlterMedia(f) ==
  /\ at = "idle"
  /\ Fault("alter")
  /\ f \in good
  /\ good' = good \ {f} /\ altered' = altered \cup {f}
  /\ UNCHANGED <<batches, roster, request, browser>>

(* The server dies in the middle of a request.                             *)
Kill ==
  /\ at # "idle"
  /\ Fault("kill")
  /\ EndRequest
  /\ UNCHANGED <<batches, media, roster, browser>>

-----------------------------------------------------------------------------
PullBegins(b) == PullReplays(b) \/ PullResumes(b) \/ PullStages(b)

RequestStep ==
  \/ StageClip \/ UndoStaging \/ WriteReceipt \/ Archive
  \/ RestoreClip \/ Reply
  \/ \E b \in Batches : RemoveEntry(b) \/ RemovalFails(b)

Next ==
  \/ RequestStep
  \/ \E b \in Batches : PullBegins(b) \/ Acknowledge(b) \/ GiveUp(b) \/ Deliver(b)
  \/ ClearBegins \/ ClearMedia \/ SwitchRoster \/ Kill
  \/ \E f \in good : AlterMedia(f)

Spec == Init /\ [][Next]_vars

(* A request that runs goes on, and the maintainer follows the advice of   *)
(* the page: pull again until a review is prepared and acknowledged, and   *)
(* clear the media that a pull finds changed.                              *)
FairSpec ==
  /\ Spec
  /\ WF_vars(RequestStep)
  /\ SF_vars(\E b \in Batches : PullBegins(b))
  /\ SF_vars(\E b \in Batches : Acknowledge(b))
  /\ SF_vars(altered # {} /\ ClearMedia)

-----------------------------------------------------------------------------
(* Types of the variables.                                                 *)
TypeOK ==
  /\ place \in [Batches -> Places]
  /\ receipt \in [Batches -> Receipts]
  /\ frozen \in [Batches -> Seq(Accounts)]
  /\ \A b \in Batches : source[b] \subseteq Positions(b)
  /\ DOMAIN source = Batches
  /\ good \subseteq Accounts \X Batches \X Nat
  /\ altered \subseteq Accounts \X Batches \X Nat
  /\ roster \in Rosters
  /\ at \in Points /\ cur \in Batches \cup {0} /\ done \in Nat
  /\ candidates \subseteq Batches
  /\ inHand \subseteq Batches
  /\ told \in [Batches -> SUBSET Seq(Accounts)]
  /\ faults \in 0..MaxFaults

(* No clip of a batch is lost before the batch was applied: until then     *)
(* every clip is in the directory of the batch, in the inbox or in the     *)
(* archive, whatever died, failed, was retried or was cleared (ingest_     *)
(* oldest keeps the batch, clear_consumed_batches retains it).             *)
SourceSafe ==
  \A b \in Batches :
    place[b] # "unborn" /\ (told[b] = {} \/ receipt[b] = "staged") =>
      place[b] \in {"inbox", "archive"} /\ source[b] = Positions(b)

(* At most one archived batch waits for its acknowledgement: a pull        *)
(* replays it instead of staging another one (ingest_oldest).              *)
OneOutstanding == \A b, c \in Unacknowledged : b = c

(* A reply promises what the browser needs: an archived source, a receipt  *)
(* that is not applied, targets that are the head of the active roster,    *)
(* and every assigned file staged and unchanged, whether the pull staged,  *)
(* resumed or replayed it (ingest_oldest, _restore_staged_media).          *)
ReplyReady ==
  at = "replying" =>
    /\ cur \in Unacknowledged /\ Validated(cur)
    /\ SameTargets(cur)
    /\ Files(frozen[cur], cur) \subseteq good

(* The contract that the files, requests and browsers implement.           *)
Phase(b) ==
  CASE place[b] = "unborn" -> "unborn"
    [] place[b] = "inbox" /\ receipt[b] = "none" -> "waiting"
    [] receipt[b] = "staged" -> "frozen"
    [] receipt[b] = "applied" /\ source[b] = Positions(b) -> "applied"
    [] OTHER -> "discarded"

Contract == INSTANCE HandoffContract
              WITH phase <- [b \in Batches |-> Phase(b)], targets <- frozen

(* Picking up batches implements the contract: an assignment is frozen     *)
(* once and never changed by a replay, a roster switch or a retry after a  *)
(* death; only what somebody was told is applied; only what was applied is *)
(* thrown away (the receipt's whole purpose, handoff_pickup.py).           *)
ImplementsContract == Contract!Spec

(* A delivered batch is applied in the end if the maintainer goes on       *)
(* pulling and, from some time on, the roster is one that has room for the *)
(* waiting batches and begins with the targets of the frozen ones: no      *)
(* death, error, lost reply, changed file, clearing or roster switch in    *)
(* between leaves a batch that every later pull refuses (ingest_oldest,    *)
(* acknowledge).                                                           *)
Accommodated(b) ==
  CASE receipt[b] = "none" -> Clips[b] <= Len(roster)
    [] receipt[b] = "staged" -> SameTargets(b)
    [] receipt[b] = "applied" -> TRUE

DeliveredIsApplied ==
  <>[](\A b \in Batches : Accommodated(b)) =>
    \A b \in Batches : place[b] = "inbox" ~> receipt[b] = "applied"
=============================================================================
