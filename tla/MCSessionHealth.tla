--------------------------- MODULE MCSessionHealth ---------------------------
(* A small instance of SessionHealth for TLC: the server and the           *)
(* command-line tool, which the model does not tell apart, and one TikTok  *)
(* session.                                                                *)
EXTENDS SessionHealth, TLC

CONSTANTS server, tool, tt

TwoProcesses == {server, tool}
Alike == Permutations(TwoProcesses)
NoSession == {}
TheTikTok == {tt}
=============================================================================
