----------------------------- MODULE MCPostingRun -----------------------------
(* One run over up to two accounts, a request naming one twice included.   *)
EXTENDS PostingRunProperties

CONSTANTS a1, a2

TwoAccounts == {<<>>, <<a1>>, <<a1, a2>>, <<a1, a1>>}
=============================================================================
