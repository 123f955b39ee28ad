------------------------- MODULE MCScheduledPosting -------------------------
(* Small instances of ScheduledPosting for TLC.                            *)
EXTENDS PostingClaims, PostingInvariants, TLC

Symmetry == Permutations(Batches)
=============================================================================
