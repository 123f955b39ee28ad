-------------------------- MODULE HandoffInvariants --------------------------
(***************************************************************************)
(* The inductive invariant of HandoffPickup.                               *)
(***************************************************************************)
EXTENDS HandoffPickup

(* What the files and browsers say of a batch, whatever request runs.      *)
Stage(b) ==
  /\ place[b] = "unborn" => receipt[b] = "none" /\ told[b] = {}
  /\ place[b] = "inbox" =>
       receipt[b] # "applied" /\ source[b] = Positions(b) /\ told[b] = {}
  /\ place[b] = "archive" /\ receipt[b] # "staged" => told[b] # {}
  /\ place[b] = "gone" => receipt[b] = "none" /\ told[b] # {}
  /\ receipt[b] = "staged" =>
       source[b] = Positions(b) /\ Len(frozen[b]) = Clips[b]
  /\ b \in inHand => told[b] # {}

Stages == \A b \in Batches : Stage(b)

PullPoints == Points \ {"idle", "clearing"}

(* The first n files of the assignment are staged and good.                *)
StagedUpTo(t, n) == \A i \in 1..n : File(t, cur, i) \in good

(* A pull that has not reached the archive.                                *)
Inbound ==
  at \in {"staging", "undoing", "signing", "archiving", "resuming"} =>
    place[cur] = "inbox" /\ Unacknowledged = {}

(* A pull without a receipt: it fits the roster, and what it copied is     *)
(* staged.                                                                 *)
Staging ==
  at \in {"staging", "undoing", "signing"} =>
    /\ receipt[cur] = "none"
    /\ Clips[cur] <= Len(roster)
    /\ done <= Clips[cur]
    /\ at = "staging" => done < Clips[cur] /\ StagedUpTo(Assigned(cur), done)
    /\ at = "signing" => StagedUpTo(Assigned(cur), Clips[cur])

(* A pull with a receipt: it names the accounts of the roster.             *)
Assigning ==
  at \in {"archiving", "resuming", "restoring", "replying"} =>
    /\ receipt[cur] = "staged" /\ SameTargets(cur)
    /\ at \in {"archiving", "replying"} => StagedUpTo(frozen[cur], Clips[cur])
    /\ at \in {"restoring", "replying"} => place[cur] = "archive"
    /\ at = "resuming" => done = 0
    /\ at = "restoring" => done < Clips[cur] /\ StagedUpTo(frozen[cur], done)

(* Candidates for removal were applied.                                    *)
Clearing ==
  /\ candidates # {} => at = "clearing"
  /\ \A b \in candidates : place[b] = "archive" /\ receipt[b] # "staged"

HandoffInv ==
  /\ TypeOK
  /\ at \in PullPoints => cur \in Batches
  /\ Stages /\ OneOutstanding
  /\ Inbound /\ Staging /\ Assigning /\ Clearing
=============================================================================
