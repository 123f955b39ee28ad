--------------------------- MODULE MCHandoffPickup ---------------------------
(* Small instances of HandoffPickup for TLC.                               *)
EXTENDS HandoffInvariants

CONSTANTS A, B, C

TwoBatches == 1..2
ThreeAccounts == {A, B, C}

(* A prefix of another roster, a reordering, and a different account.      *)
FourRosters == {<<A, B>>, <<A>>, <<B, A>>, <<A, C>>}
OneThenTwo == <<1, 2>>
=============================================================================
