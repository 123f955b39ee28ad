--------------------------- MODULE BatchLifecycle ---------------------------
(***************************************************************************)
(* What the scheduler promises about a scheduled batch, without files,     *)
(* tasks or faults: it is posted at most once, one batch at a time, only   *)
(* while it is the live one, and the maintainer can take it back before    *)
(* it starts or after its run was cut off, never in the middle.            *)
(***************************************************************************)
EXTENDS Naturals

CONSTANT Batches

VARIABLES
  stage,   \* where each batch stands
  posts    \* how often posting it was started

Stages == {"unborn", "scheduled", "live", "stranded", "settled", "withdrawn"}

Init ==
  /\ stage = [b \in Batches |-> "unborn"]
  /\ posts = [b \in Batches |-> 0]

Move(b, from, to) ==
  /\ stage[b] \in from
  /\ stage' = [stage EXCEPT ![b] = to]
  /\ UNCHANGED posts

Schedule(b) == Move(b, {"unborn"}, "scheduled")

Claim(b) ==
  /\ \A c \in Batches : stage[c] # "live"
  /\ Move(b, {"scheduled"}, "live")

Post(b) ==
  /\ stage[b] = "live" /\ posts[b] = 0
  /\ posts' = [posts EXCEPT ![b] = 1]
  /\ UNCHANGED stage

Settle(b) == Move(b, {"scheduled", "live"}, "settled")

Strand(b) == Move(b, {"live"}, "stranded")

Withdraw(b) == Move(b, {"scheduled", "stranded"}, "withdrawn")

Next == \E b \in Batches :
  Schedule(b) \/ Claim(b) \/ Post(b) \/ Settle(b) \/ Strand(b) \/ Withdraw(b)

Spec == Init /\ [][Next]_<<stage, posts>>
=============================================================================
