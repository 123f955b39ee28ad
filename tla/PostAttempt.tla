----------------------------- MODULE PostAttempt -----------------------------
(***************************************************************************)
(* What a platform's post_media promises to the run that calls it          *)
(* (instagram_browser.py:593, tiktok_browser.py:728): the media is handed  *)
(* to the platform at most once, with the caption that was asked for and   *)
(* before the verdict; there is one verdict; and it comes.  Two things it  *)
(* cannot promise for the page: that the platform does not take a post     *)
(* from the same editor again, and that the first text box is the right    *)
(* one.                                                                    *)
(***************************************************************************)
CONSTANTS
  Captions,       \* the captions there may be
  GoodCaptions    \* those that pass for the one asked for

VARIABLES
  submitted,  \* the captions under which the media was handed over
  again,      \* whether it was handed over a second time
  told,       \* the verdict, once there is one
  repeats,    \* (rigid) whether the platform may take a post twice
  strays      \* (rigid) whether the caption may go into another text box

vars == <<submitted, again, told, repeats, strays>>

Rigid == repeats' = repeats /\ strays' = strays

Verdicts == {"confirmed", "unconfirmed", "failed"}

Init ==
  /\ submitted = {} /\ again = FALSE /\ told = "none"
  /\ repeats \in BOOLEAN /\ strays \in BOOLEAN

Passing == IF strays THEN Captions ELSE GoodCaptions

Submit ==
  /\ told = "none" /\ submitted = {}
  /\ \E text \in Passing : submitted' = {text}
  /\ told' = told /\ again' = again /\ Rigid

Repeat ==
  /\ told = "none" /\ submitted # {} /\ repeats /\ ~again
  /\ again' = TRUE
  /\ submitted' = submitted /\ told' = told /\ Rigid

Tell ==
  /\ told = "none"
  /\ told' \in Verdicts
  /\ submitted' = submitted /\ again' = again /\ Rigid

Spec == Init /\ [][Submit \/ Repeat \/ Tell]_vars /\ WF_vars(Tell)
=============================================================================
