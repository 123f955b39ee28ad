------------------------------ MODULE TikTokFlow ------------------------------
(***************************************************************************)
(* tiktok_browser.post_media: the session it loads, the copy it uploads,   *)
(* the steps on the page, and the cookies it writes back.  The maintainer  *)
(* may export cookies or clear the session at any time.                    *)
(***************************************************************************)
EXTENDS BrowserFlow

VARIABLES
  file,      \* the cookie file of the account's folder and the flat one
  bak,       \* the backup beside each
  profile,   \* whether the folder holds more than cookies.json
  used,      \* which kind of session the browser was started with
  copy,      \* the short-named copy of the media: none, partial or whole
  target,    \* the file the write-back has chosen
  backedUp,  \* whether it is past the backup
  owed,      \* (ghost) whether an export is neither cleared nor too late
  url        \* whether the page is still on /upload

material == <<file, bak, profile>>
back == <<target, backedUp>>
vars == <<flow, material, used, copy, back, owed, url>>

Places == {"folder", "flat"}
(* A file is missing, unusable, older than the run, exported during the    *)
(* run, or written back by it.                                             *)
Contents == {"none", "bad", "old", "export", "refreshed"}

Usable(place) == file[place] \notin {"none", "bad"}
(* _cookies_file: a bad file in the folder does not hide a usable flat one.*)
CookiesFile ==
  IF Usable("folder") THEN "folder"
  ELSE IF Usable("flat") THEN "flat"
  ELSE IF file["folder"] # "none" THEN "folder" ELSE "flat"
HasCookieSession == Usable(CookiesFile)
HasSession == HasCookieSession \/ profile

Init ==
  /\ Start("context", "filename")
  /\ file \in [Places -> {"none", "bad", "old"}]
  /\ profile \in BOOLEAN /\ HasSession
  /\ bak = [p \in Places |-> "none"]
  /\ target = "none" /\ backedUp = FALSE /\ owed = FALSE
  /\ used = "none" /\ copy = "none" /\ url = "elsewhere"

(* The session, cookies first; a failure is raised before the try.  The    *)
(* persistent profile makes the folder it is in.                           *)
GetContext ==
  /\ step = "context"
  /\ \/ /\ HasCookieSession
        /\ used' = "cookies" /\ UNCHANGED profile
     \/ /\ ~HasCookieSession
        /\ used' = "profile" /\ profile' = TRUE
  /\ \/ GoesTo("copy")
     \/ GoesTo("raised")
  /\ UNCHANGED <<file, bak, copy, back, owed, url>>

(* copyfile, also before the try.                                          *)
CopyMedia ==
  /\ step = "copy"
  /\ \/ GoesTo("open") /\ copy' = "whole"
     \/ GoesTo("raised") /\ copy' \in {"none", "partial"}
  /\ UNCHANGED <<material, used, back, owed, url>>

OpenUploadPage ==
  /\ Must("open", "frame")
  /\ url' = IF step' = "frame" THEN "upload" ELSE url
  /\ UNCHANGED <<material, used, copy, back, owed>>

quiet == <<material, used, copy, back, owed, url>>

ResolveUploadTarget == May("frame", "upload") /\ UNCHANGED quiet
UploadMediaFile == Must("upload", "overlay") /\ UNCHANGED quiet
DismissOneTimeOverlay == May("overlay", "field") /\ UNCHANGED quiet
FindCaptionField == FindField("field", "caption", TRUE) /\ UNCHANGED quiet
EnterAndVerifyCaption == Enter("caption", "post") /\ UNCHANGED quiet
ClickPostButton == Click("post", "modal", "failing", TRUE) /\ UNCHANGED quiet

(* The Post button of a modal, or the last one of the page, is clicked     *)
(* whatever the first click did; what goes wrong here is swallowed.  The   *)
(* platform may take the post again if it repeats.                         *)
ConfirmPostModal ==
  /\ Click("modal", "await", "await", repeats \/ submitted = {})
  /\ UNCHANGED quiet

(* The page may leave /upload, because the post is out or because TikTok   *)
(* wants a login.                                                          *)
Redirect ==
  /\ url = "upload" /\ step \notin {"done", "open", "context", "copy"}
  /\ url' = "elsewhere"
  /\ UNCHANGED <<flow, material, used, copy, back, owed>>

(* An element, a banner, or failing both a page that has left /upload.     *)
AwaitUploadConfirmation ==
  /\ step = "await"
  /\ seen' \in BOOLEAN
  /\ step' = IF seen' \/ url # "upload" THEN "confirmed" ELSE "unconfirmed"
  /\ UNCHANGED <<entry, taken, broken, told, page, quiet>>
-----------------------------------------------------------------------------
(* _write_back_cookies: the file is chosen, copied to its backup and       *)
(* replaced, and other processes may write between these.  Whatever fails  *)
(* ends it and is swallowed: a copy may stop in the middle of the backup,  *)
(* and the replacement is all or nothing.                                  *)
WritesBack == used = "cookies"

AfterWriteBackMutant ==
  GoesTo("failing") \/ GoesTo(IF step = "confirmed" THEN "return" ELSE "return_unconfirmed")
AfterWriteBack ==
  GoesTo(IF step = "confirmed" THEN "return" ELSE "return_unconfirmed")

WritingBack == step \in {"confirmed", "unconfirmed"}

ChooseFile ==
  /\ WritingBack /\ target = "none"
  /\ \/ WritesBack /\ target' = CookiesFile /\ UNCHANGED flow
     \/ AfterWriteBack /\ UNCHANGED target
  /\ UNCHANGED <<material, used, copy, backedUp, owed, url>>

BackedUpMutant(place) == bak' = bak
BackedUp(place) ==
  bak' = IF file[place] # "none" THEN [bak EXCEPT ![place] = file[place]] ELSE bak

BackUpFile ==
  /\ WritingBack /\ target # "none" /\ ~backedUp
  /\ \/ BackedUp(target) /\ backedUp' = TRUE /\ UNCHANGED flow
     \/ bak' \in {bak, [bak EXCEPT ![target] = "bad"]} /\ AfterWriteBack /\ UNCHANGED backedUp
  /\ UNCHANGED <<file, profile, used, copy, target, owed, url>>

ReplacedMutant(place) ==
  file' \in {[file EXCEPT ![place] = "refreshed"],
             [file EXCEPT ![place] = "bad"]}
Replaced(place) == file' \in {file, [file EXCEPT ![place] = "refreshed"]}

ReplaceFile ==
  /\ WritingBack /\ backedUp
  /\ Replaced(target) /\ AfterWriteBack
  /\ UNCHANGED <<bak, profile, used, copy, back, owed, url>>

(* The verdict, and the finally: the copy is removed unless that fails,    *)
(* and both handles are closed.  What was raised before the try has none.  *)
Finish ==
  /\ \/ step = "return" /\ Tells("confirmed")
     \/ step = "return_unconfirmed" /\ Tells("unconfirmed")
     \/ step \in {"failing", "raised"} /\ Tells("failed")
  /\ \/ step # "raised" /\ copy' = "none"
     \/ UNCHANGED copy
  /\ UNCHANGED <<material, used, back, owed, url>>
-----------------------------------------------------------------------------
(* The maintainer's work.  An export that comes after the backup and       *)
(* before the replacement is in neither, and is not owed.                  *)
TooLate == WritingBack /\ backedUp /\ target = "folder"

ExportCookies ==
  /\ file' = [file EXCEPT !["folder"] = "export"]
  /\ owed' = ~TooLate
  /\ UNCHANGED <<flow, bak, profile, used, copy, back, url>>

(* `clear' removes the account's folder and what is in it.                 *)
ClearSession ==
  /\ file' = [file EXCEPT !["folder"] = "none"]
  /\ bak' = [bak EXCEPT !["folder"] = "none"]
  /\ profile' = FALSE /\ owed' = FALSE
  /\ UNCHANGED <<flow, used, copy, back, url>>

Steps ==
  \/ GetContext \/ CopyMedia \/ OpenUploadPage \/ ResolveUploadTarget
  \/ UploadMediaFile \/ DismissOneTimeOverlay \/ FindCaptionField
  \/ EnterAndVerifyCaption \/ ClickPostButton \/ ConfirmPostModal
  \/ AwaitUploadConfirmation \/ ChooseFile \/ BackUpFile \/ ReplaceFile
  \/ Finish

Next == Steps \/ Redirect \/ ExportCookies \/ ClearSession
-----------------------------------------------------------------------------
(* Claims that the code does not keep.                                     *)

(* README.md:179: a post is "unconfirmed (the success element never        *)
(* appeared" - a page that has left /upload counts as confirmed.           *)
ConfirmedWasSeen == told = "confirmed" => seen

(* CHANGELOG.md:562: "`.bak` of the previous file" - an export between the *)
(* backup and the replacement is the previous file, and is in no backup.   *)
PreviousIsBackedUp ==
  [][\A p \in Places :
       file[p] \notin {"none", "refreshed"} /\ file'[p] = "refreshed" => bak[p] = file[p]]_vars
=============================================================================
