--------------------------- MODULE HandoffContract ---------------------------
(***************************************************************************)
(* What picking up clips from RiceClipper promises, without files, crashes *)
(* or browsers: a batch is assigned to accounts once, whatever is told of  *)
(* it later is that assignment, it counts as applied only after somebody   *)
(* was told, and only an applied batch may be thrown away.                 *)
(***************************************************************************)
EXTENDS Sequences

CONSTANTS Batches, Accounts

VARIABLES
  phase,     \* where each batch stands
  targets,   \* the accounts its clips are assigned to, in order
  told       \* the assignments a browser was told of

vars == <<phase, targets, told>>

Phases == {"unborn", "waiting", "frozen", "applied", "discarded"}

Init ==
  /\ phase = [b \in Batches |-> "unborn"]
  /\ targets = [b \in Batches |-> <<>>]
  /\ told = [b \in Batches |-> {}]

Move(b, from, to) ==
  /\ phase[b] = from
  /\ phase' = [phase EXCEPT ![b] = to]

Arrive(b) == Move(b, "unborn", "waiting") /\ UNCHANGED <<targets, told>>

Freeze(b) ==
  /\ Move(b, "waiting", "frozen")
  /\ targets'[b] \in Seq(Accounts)
  /\ targets' = [targets EXCEPT ![b] = targets'[b]]
  /\ UNCHANGED told

Tell(b) ==
  /\ phase[b] = "frozen"
  /\ told' = [told EXCEPT ![b] = @ \cup {targets[b]}]
  /\ UNCHANGED <<phase, targets>>

Apply(b) ==
  /\ told[b] # {}
  /\ Move(b, "frozen", "applied")
  /\ UNCHANGED <<targets, told>>

Discard(b) == Move(b, "applied", "discarded") /\ UNCHANGED <<targets, told>>

Next == \E b \in Batches :
  Arrive(b) \/ Freeze(b) \/ Tell(b) \/ Apply(b) \/ Discard(b)

Spec == Init /\ [][Next]_vars
=============================================================================
