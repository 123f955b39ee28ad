----------------------------- MODULE BrowserFlow -----------------------------
(***************************************************************************)
(* What the flows of the two platforms have in common: a sequence of steps *)
(* on a page nobody controls.  Any call on the page may fail; some steps   *)
(* swallow that, most raise it.  The page decides what a click does and    *)
(* what the editor shows.                                                  *)
(*                                                                         *)
(* Two facts about a page are no step of the program but decide what its   *)
(* steps can promise.  They are rigid variables, of any value: whether the *)
(* platform may take the post of one editor a second time, and whether     *)
(* there may be text boxes that are taken for the caption's.               *)
(***************************************************************************)
EXTENDS Integers

VARIABLES
  step,       \* the step post_media is at
  own,        \* whether the text box that was found is the caption's
  editor,     \* what the caption holds
  tries,      \* how often the caption was entered and read back wrong
  submitted,  \* (ghost) the captions under which the platform took the post
  again,      \* (ghost) whether it took the post a second time
  seen,       \* (ghost) whether an element that announces success appeared
  broken,     \* (ghost) whether a click that had reached the page raised
  told,       \* what post_media returned or raised
  repeats,    \* (rigid) whether an editor's post may be taken twice
  strays      \* (rigid) whether another text box may be found first

entry == <<own, editor, tries>>
taken == <<submitted, again>>
page == <<repeats, strays>>
flow == <<step, entry, taken, seen, broken, told, page>>

(* The intended caption, or one whose white space, composition or padding  *)
(* the editor changed: _captions_match takes them for the same.            *)
Matching == {"intended", "rerendered"}
Texts == Matching \cup {"empty", "filename", "garbled"}

Start(first, text) ==
  /\ step = first /\ own = FALSE /\ editor = text /\ tries = 0
  /\ submitted = {} /\ again = FALSE
  /\ seen = FALSE /\ broken = FALSE /\ told = "none"
  /\ repeats \in BOOLEAN /\ strays \in BOOLEAN

GoesTo(next) == step' = next /\ UNCHANGED <<entry, taken, seen, broken, told, page>>

(* A step that raises when the page does not do as it should.              *)
Must(here, next) ==
  step = here /\ (GoesTo(next) \/ GoesTo("failing"))

(* A step that swallows what goes wrong.                                   *)
May(here, next) == step = here /\ GoesTo(next)

(* One attempt at the caption: what was typed is read back; a mismatch is  *)
(* tried again once, and is the end of the post the second time.           *)
Mismatch(here, next) ==
  IF tries = 0 THEN step' = here /\ tries' = 1
               ELSE step' = "failing" /\ UNCHANGED tries

Entered(text) == editor' = IF own THEN text ELSE editor

Enter(here, next) ==
  /\ step = here
  /\ \/ /\ \E text \in Matching : Entered(text)
        /\ step' = next /\ UNCHANGED tries
     \/ Entered("garbled") /\ Mismatch(here, next)
     \/ step' = "failing" /\ UNCHANGED <<editor, tries>>
  /\ UNCHANGED <<own, taken, seen, broken, told, page>>

(* The first text box that a chain of selectors finds, or none: that of    *)
(* the caption if it is there.                                             *)
FindField(here, next, there) ==
  /\ step = here
  /\ \/ step' = next /\ own' \in {there} \cup {b \in {FALSE} : strays}
     \/ step' = "failing" /\ UNCHANGED own
  /\ UNCHANGED <<editor, tries, taken, seen, broken, told, page>>

(* A click: it may not reach the button, reach it and raise all the same,  *)
(* or return; and the platform may take the post, if it can, or not.       *)
Click(here, next, afterRaise, can) ==
  /\ step = here
  /\ \E takes \in {FALSE, can}, raises \in BOOLEAN :
       /\ submitted' = IF takes THEN submitted \cup {editor} ELSE submitted
       /\ again' = (again \/ (takes /\ submitted # {}))
       /\ broken' = (broken \/ (takes /\ raises))
       /\ step' = IF raises THEN afterRaise ELSE next
  /\ UNCHANGED <<entry, seen, told, page>>

(* _post_id, and the exception every other path ends in.                   *)
Tells(v) ==
  /\ step' = "done" /\ told' = v
  /\ UNCHANGED <<entry, taken, seen, broken, page>>
=============================================================================
