---------------------------- MODULE InstagramFlow ----------------------------
(***************************************************************************)
(* instagram_browser.post_media: from opening the profile to the verdict.  *)
(***************************************************************************)
EXTENDS BrowserFlow

VARIABLES
  session,   \* whether Instagram accepts the profile
  screens,   \* the edit screens between the upload and the caption
  nexts,     \* how often Next was looked for
  file       \* whether the composer has the media

vars == <<flow, session, screens, nexts, file>>
composer == <<session, screens, nexts, file>>

MaxNext == 3      \* range(3) in _advance_past_edit_screens
EditScreens == 2  \* crop and filter

Init ==
  /\ Start("context", "empty")
  /\ session \in {"live", "expired"}
  /\ screens = EditScreens /\ nexts = 0 /\ file = FALSE

(* async_playwright, _get_context and the first page, before the try.      *)
GetContext == Must("context", "open") /\ UNCHANGED composer

(* A login page in place of the feed ends the attempt; one that Instagram  *)
(* does not redirect to is only found when Create is missing.              *)
OpenInstagram == Must("open", "popups") /\ UNCHANGED composer

DismissPopups == May("popups", "feed") /\ UNCHANGED composer

(* Wheel events and pauses; the mouse call may raise.                      *)
BrowseFeed == Must("feed", "create") /\ UNCHANGED composer

(* The Create control, which only a live session has, opens the composer   *)
(* at once in the narrow layout and a menu otherwise.                      *)
OpenCreatePost ==
  /\ step = "create"
  /\ \/ session = "live" /\ GoesTo("upload")
     \/ session = "live" /\ GoesTo("menu")
     \/ GoesTo("failing")
  /\ UNCHANGED composer

FindPostMenuItem == Must("menu", "upload") /\ UNCHANGED composer

(* set_input_files, then the first Next as the sign that it is through.    *)
UploadMediaFileMutant ==
  /\ step = "upload"
  /\ GoesTo("ratio") /\ file' \in {file, TRUE}
  /\ UNCHANGED <<session, screens, nexts>>
UploadMediaFile ==
  /\ step = "upload"
  /\ \/ GoesTo("ratio") /\ file' = TRUE
     \/ GoesTo("failing") /\ file' \in {file, TRUE}
  /\ UNCHANGED <<session, screens, nexts>>

DismissAspectRatioWarning == May("ratio", "crop") /\ UNCHANGED composer

SelectOriginalCrop == May("crop", "next") /\ UNCHANGED composer

(* A click on what is found as Next takes the composer to the next screen  *)
(* or leaves it where it is.  If none shows in time, or the click raises,  *)
(* before or after it had its effect, the loop ends on whatever screen     *)
(* that is.                                                                *)
AdvancePastEditScreens ==
  /\ step = "next"
  /\ \/ /\ nexts < MaxNext
        /\ GoesTo("next") \/ GoesTo("field")
        /\ nexts' = nexts + 1
        /\ screens' \in {screens, screens - 1} \cap (0..EditScreens)
     \/ /\ nexts = MaxNext
        /\ GoesTo("field") /\ UNCHANGED <<nexts, screens>>
  /\ UNCHANGED <<session, file>>

(* The caption's box is on the last screen; the last selector of the chain *)
(* takes any text box of any screen.                                       *)
FindCaptionField == FindField("field", "caption", screens = 0) /\ UNCHANGED composer

EnterCaption == Enter("caption", "share") /\ UNCHANGED composer

(* The composer can be shared from its last screen only; on another one    *)
(* the click is on a Share of the feed.                                    *)
SharePostMutant == Click("share", "confirm", "share", screens = 0) /\ UNCHANGED composer
SharePost == Click("share", "confirm", "failing", screens = 0) /\ UNCHANGED composer

(* Not to see the element is no failure.  It may be there without a post:  *)
(* `shared' is looked for on the whole page.                               *)
AwaitPostConfirmationMutant ==
  /\ step = "confirm"
  /\ \/ seen' = TRUE /\ step' = "return"
     \/ seen' = FALSE /\ step' = "failing"
  /\ UNCHANGED <<entry, taken, broken, told, page, composer>>
AwaitPostConfirmation ==
  /\ step = "confirm"
  /\ seen' \in BOOLEAN /\ step' = "return"
  /\ UNCHANGED <<entry, taken, broken, told, page, composer>>

(* The end: _post_id, or the screenshot and the exception; and the close,  *)
(* whose failure is swallowed.                                             *)
Finish ==
  /\ \/ step = "return" /\ Tells(IF seen THEN "confirmed" ELSE "unconfirmed")
     \/ step = "failing" /\ Tells("failed")
  /\ UNCHANGED composer

(* Instagram ends the session.                                             *)
Expire ==
  /\ step # "done" /\ session = "live"
  /\ session' = "expired"
  /\ UNCHANGED <<flow, screens, nexts, file>>

Steps ==
  \/ GetContext \/ OpenInstagram \/ DismissPopups \/ BrowseFeed
  \/ OpenCreatePost \/ FindPostMenuItem \/ UploadMediaFile
  \/ DismissAspectRatioWarning \/ SelectOriginalCrop
  \/ AdvancePastEditScreens \/ FindCaptionField \/ EnterCaption \/ SharePost
  \/ AwaitPostConfirmation \/ Finish

Next == Steps \/ Expire
-----------------------------------------------------------------------------
(* A claim that the code does not keep.                                    *)

(* frontend/index.html:1079: "For a Failed result, read the error reason,  *)
(* fix, then retry": only Unconfirmed ones are to be checked first.        *)
FailedIsNotOut == told = "failed" => submitted = {}
=============================================================================
