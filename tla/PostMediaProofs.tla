--------------------------- MODULE PostMediaProofs ---------------------------
(***************************************************************************)
(* Proofs about one call of post_media: either flow hands the media over   *)
(* under a caption that passes and before its one verdict, Instagram's     *)
(* once and TikTok's once more only if the platform takes it; a failure    *)
(* hides a post only when the click itself raised; and the cookies a run   *)
(* writes back never spoil what was there.                                 *)
(***************************************************************************)
EXTENDS PostMedia, TLAPS

(* The steps of Instagram before the click, and among them those from the  *)
(* first that needs the media in the composer; and those that a post which *)
(* went out may be followed by.                                            *)
IgLoaded == {"ratio", "crop", "next", "field", "caption", "share"}
IgAfter == {"confirm", "return"}
IgBefore == {"context", "open", "popups", "feed", "create", "menu", "upload"} \cup IgLoaded

(* The steps of TikTok before the click, those of them with a copy of the  *)
(* media; and those after it, from the wait on and from the write-back on. *)
TtCopied == {"open", "frame", "upload", "overlay", "field", "caption", "post"}
TtBefore == {"context", "copy"} \cup TtCopied
TtBack == {"confirmed", "unconfirmed", "return", "return_unconfirmed"}
TtAfter == {"modal", "await"} \cup TtBack

(* The verdict comes last.  What was handed over is one caption that       *)
(* passes; what is about to be is what the caption's box was seen to hold, *)
(* or whatever it holds if another box was taken for it; and on the way to *)
(* the verdict failed it was handed over by a click that raised.           *)
CommonInv ==
  /\ told \in {"none"} \cup Attempt!Verdicts
  /\ told = "none" <=> step # "done"
  /\ editor \in Texts
  /\ step \in {"share", "post", "modal"} /\ own => editor \in Matching
  /\ submitted = {} \/ \E text \in Attempt!Passing : submitted = {text}
  /\ step \in {"failing", "raised"} \/ told = "failed" => submitted = {} \/ broken

(* Instagram: another box is only found among strays, or on a screen that  *)
(* cannot be shared.                                                       *)
IgInv ==
  /\ step \in IgBefore \cup IgAfter \cup {"failing", "done"}
  /\ step \in IgBefore => submitted = {}
  /\ again = FALSE
  /\ step \in {"caption", "share"} => own \/ strays \/ screens # 0
  /\ step \in IgLoaded => composer
  /\ submitted # {} => composer

(* TikTok: the second click meets the editor of the first.                 *)
TtInv ==
  /\ step \in TtBefore \cup TtAfter \cup {"failing", "raised", "done"}
  /\ step \in TtBefore \cup {"raised"} => submitted = {}
  /\ step \in TtBefore \cup {"modal"} => again = FALSE
  /\ step = "modal" => submitted \in {{}, {editor}}
  /\ step \in {"caption", "post", "modal"} => own \/ strays
  /\ step # "context" => used # "none"
  /\ step \in TtCopied \cup TtAfter \cup {"failing"} => copy = "whole"

(* The files of TikTok: an export is in the file until this is backed up   *)
(* to be replaced, and in the backup when it is replaced.                  *)
BackInv ==
  /\ DOMAIN file = TikTok!Places /\ DOMAIN bak = TikTok!Places
  /\ backedUp => target # "none" /\ step \in TtBack \cup {"done"}
  /\ owed => "export" \in {file["folder"], bak["folder"]}
  /\ owed /\ ~(backedUp /\ target = "folder") => file["folder"] = "export"
  /\ owed /\ TikTok!TooLate => bak["folder"] = "export"

FlowInv ==
  /\ platform \in {"instagram", "tiktok"}
  /\ CommonInv
  /\ platform = "instagram" => IgInv /\ backedUp = FALSE /\ owed = FALSE
  /\ platform = "tiktok" => TtInv
  /\ BackInv
-----------------------------------------------------------------------------
LEMMA FlowInit == Init => FlowInv
<1> USE DEF Init, Instagram!Init, Instagram!Start, TikTok!Init, TikTok!Start
<1>1. Init => CommonInv /\ platform \in {"instagram", "tiktok"}
  BY DEF CommonInv, Texts, Attempt!Verdicts
<1>2. Init /\ platform = "instagram" => IgInv /\ backedUp = FALSE /\ owed = FALSE
  BY DEF IgInv, IgBefore, IgLoaded
<1>3. Init /\ platform = "tiktok" => TtInv
  BY DEF TtInv, TtBefore, TtCopied, TtAfter, TtBack
<1>4. Init => BackInv
  BY DEF BackInv, TikTok!TooLate, TikTok!Places
<1> QED BY <1>1, <1>2, <1>3, <1>4 DEF FlowInv

(* What a step of a flow is to the run: a hand-over, a second one, a       *)
(* verdict, or none of the attempt's business.                             *)
AttemptStep == [Attempt!Submit \/ Attempt!Repeat \/ Attempt!Tell]_(Attempt!vars)

(* A step of Instagram's flow that only goes on, or that goes on or fails, *)
(* by what the page does; or that moves the media into the composer, the   *)
(* composer to a screen, or looks for a text box.                          *)
LEMMA IgPage ==
  ASSUME CommonInv, IgInv, UNCHANGED platform,
         \/ Instagram!GetContext \/ Instagram!OpenInstagram
         \/ Instagram!DismissPopups \/ Instagram!BrowseFeed
         \/ Instagram!OpenCreatePost \/ Instagram!FindPostMenuItem
         \/ Instagram!UploadMediaFile \/ Instagram!DismissAspectRatioWarning
         \/ Instagram!SelectOriginalCrop \/ Instagram!AdvancePastEditScreens
         \/ Instagram!FindCaptionField
  PROVE  CommonInv' /\ IgInv' /\ UNCHANGED Attempt!vars
<1> USE DEF CommonInv, IgInv, IgBefore, IgLoaded, IgAfter, Attempt!vars, Attempt!Passing,
            Instagram!GoesTo, Instagram!Must, Instagram!May,
            Instagram!entry, Instagram!taken, Instagram!page, Instagram!composer
<1>1. CASE Instagram!GetContext \/ Instagram!OpenInstagram \/ Instagram!BrowseFeed
           \/ Instagram!FindPostMenuItem \/ Instagram!OpenCreatePost
  BY <1>1 DEF Instagram!GetContext, Instagram!OpenInstagram, Instagram!BrowseFeed,
              Instagram!FindPostMenuItem, Instagram!OpenCreatePost
<1>2. CASE Instagram!DismissPopups \/ Instagram!DismissAspectRatioWarning
           \/ Instagram!SelectOriginalCrop
  BY <1>2 DEF Instagram!DismissPopups, Instagram!DismissAspectRatioWarning,
              Instagram!SelectOriginalCrop
<1>3. CASE Instagram!UploadMediaFile
  <2>1. \/ step' = "ratio" /\ composer' = TRUE
        \/ step' = "failing"
    BY <1>3 DEF Instagram!UploadMediaFile
  <2>2. step = "upload" /\ UNCHANGED <<own, editor, submitted, again, broken, told,
                                      repeats, strays, screens>>
    BY <1>3 DEF Instagram!UploadMediaFile
  <2> QED BY <2>1, <2>2
<1>4. CASE Instagram!AdvancePastEditScreens
  BY <1>4 DEF Instagram!AdvancePastEditScreens
<1>5. CASE Instagram!FindCaptionField
  BY <1>5 DEF Instagram!FindCaptionField, Instagram!FindField
<1> QED BY <1>1, <1>2, <1>3, <1>4, <1>5

(* The click hands over what the editor holds, and there is one.           *)
LEMMA IgClick ==
  ASSUME CommonInv, IgInv, UNCHANGED platform, Instagram!SharePost
  PROVE  CommonInv' /\ IgInv' /\ AttemptStep
<1> USE DEF CommonInv, IgInv, IgBefore, IgLoaded, IgAfter
<1>1. /\ step = "share" /\ submitted = {} /\ told = "none" /\ editor \in Texts
      /\ own => editor \in Matching
      /\ own \/ strays \/ screens # 0
      /\ composer
  BY DEF Instagram!SharePost, Instagram!Click
<1>2. PICK takes \in {FALSE, screens = 0}, raises \in BOOLEAN :
        /\ submitted' = IF takes THEN submitted \cup {editor} ELSE submitted
        /\ again' = (again \/ (takes /\ submitted # {}))
        /\ broken' = (broken \/ (takes /\ raises))
        /\ step' = IF raises THEN "failing" ELSE "confirm"
  BY DEF Instagram!SharePost, Instagram!Click
<1>3. UNCHANGED <<own, editor, told, repeats, strays, composer, screens>>
  BY DEF Instagram!SharePost, Instagram!Click, Instagram!entry, Instagram!page, Instagram!composer
<1>4. again' = FALSE
  BY <1>1, <1>2
<1>5. CASE takes
  <2>1. editor \in Attempt!Passing
    BY <1>1, <1>2, <1>5 DEF Attempt!Passing
  <2>2. submitted' = {editor} /\ Attempt!Passing' = Attempt!Passing
    BY <1>1, <1>2, <1>3, <1>5 DEF Attempt!Passing, Texts, Matching
  <2>3. Attempt!Submit
    BY <1>1, <1>3, <1>4, <2>1, <2>2 DEF Attempt!Submit, Attempt!Rigid
  <2> QED BY <1>1, <1>2, <1>3, <1>4, <1>5, <2>1, <2>2, <2>3 DEF AttemptStep
<1>6. CASE ~takes
  BY <1>1, <1>2, <1>3, <1>4, <1>6 DEF AttemptStep, Attempt!vars
<1> QED BY <1>5, <1>6

LEMMA IgStep ==
  ASSUME CommonInv, IgInv, UNCHANGED platform, Instagram!Next
  PROVE  CommonInv' /\ IgInv' /\ AttemptStep
<1> USE DEF CommonInv, IgInv, IgBefore, IgLoaded, IgAfter, Attempt!vars, Attempt!Passing,
            Attempt!Verdicts, AttemptStep,
            Instagram!entry, Instagram!taken, Instagram!page, Instagram!composer
<1>1. CASE Instagram!EnterCaption
  BY <1>1 DEF Instagram!EnterCaption, Instagram!Enter, Instagram!Entered,
              Instagram!Mismatch, Instagram!Matching, Matching, Texts
<1>2. CASE Instagram!AwaitPostConfirmation
  BY <1>2 DEF Instagram!AwaitPostConfirmation
<1>3. CASE Instagram!Finish
  BY <1>3 DEF Instagram!Finish, Instagram!Tells, Attempt!Tell, Attempt!Rigid
<1>4. CASE Instagram!Expire
  BY <1>4 DEF Instagram!Expire, Instagram!flow
<1> QED
  BY IgPage, IgClick, <1>1, <1>2, <1>3, <1>4 DEF Instagram!Next, Instagram!Steps
-----------------------------------------------------------------------------
(* The steps of TikTok's flow up to the click, and what goes on beside it. *)
LEMMA TtPage ==
  ASSUME CommonInv, TtInv, UNCHANGED platform,
         \/ TikTok!GetContext \/ TikTok!CopyMedia \/ TikTok!OpenUploadPage
         \/ TikTok!ResolveUploadTarget \/ TikTok!UploadMediaFile
         \/ TikTok!DismissOneTimeOverlay \/ TikTok!FindCaptionField
         \/ TikTok!Redirect \/ TikTok!ExportCookies \/ TikTok!ClearSession
  PROVE  CommonInv' /\ TtInv' /\ UNCHANGED Attempt!vars
<1> USE DEF CommonInv, TtInv, TtBefore, TtCopied, TtAfter, TtBack, Attempt!vars, Attempt!Passing,
            TikTok!GoesTo, TikTok!Must, TikTok!May, TikTok!quiet, TikTok!material,
            TikTok!entry, TikTok!taken, TikTok!page
<1>1. CASE TikTok!GetContext
  BY <1>1 DEF TikTok!GetContext
<1>2. CASE TikTok!CopyMedia
  BY <1>2 DEF TikTok!CopyMedia
<1>3. CASE TikTok!OpenUploadPage
  BY <1>3 DEF TikTok!OpenUploadPage
<1>4. CASE TikTok!ResolveUploadTarget \/ TikTok!UploadMediaFile
           \/ TikTok!DismissOneTimeOverlay
  BY <1>4 DEF TikTok!ResolveUploadTarget, TikTok!UploadMediaFile,
              TikTok!DismissOneTimeOverlay
<1>5. CASE TikTok!FindCaptionField
  BY <1>5 DEF TikTok!FindCaptionField, TikTok!FindField
<1>6. CASE TikTok!Redirect \/ TikTok!ExportCookies \/ TikTok!ClearSession
  BY <1>6 DEF TikTok!Redirect, TikTok!ExportCookies, TikTok!ClearSession, TikTok!flow
<1> QED BY <1>1, <1>2, <1>3, <1>4, <1>5, <1>6

(* Either of the two clicks hands over what the editor holds; the second   *)
(* one does so again only if the platform takes it again.                  *)
LEMMA TtClick ==
  ASSUME platform = "tiktok", UNCHANGED platform, CommonInv, TtInv,
         TikTok!ClickPostButton \/ TikTok!ConfirmPostModal
  PROVE  CommonInv' /\ TtInv' /\ AttemptStep
<1> USE DEF CommonInv, TtInv, TtBefore, TtCopied, TtAfter, TtBack
<1>1. /\ step \in {"post", "modal"} /\ submitted \in {{}, {editor}} /\ again = FALSE
      /\ told = "none" /\ used # "none" /\ copy = "whole"
      /\ editor \in Attempt!Passing
      /\ step = "post" => submitted = {}
  BY DEF TikTok!ClickPostButton, TikTok!ConfirmPostModal, TikTok!Click, Attempt!Passing
<1>2. PICK takes \in BOOLEAN, raises \in BOOLEAN :
        /\ takes => submitted = {} \/ repeats
        /\ submitted' = IF takes THEN submitted \cup {editor} ELSE submitted
        /\ again' = (again \/ (takes /\ submitted # {}))
        /\ broken' = (broken \/ (takes /\ raises))
        /\ step' = IF step = "modal" THEN "await" ELSE IF raises THEN "failing" ELSE "modal"
  BY <1>1 DEF TikTok!ClickPostButton, TikTok!ConfirmPostModal, TikTok!Click
<1>3. /\ UNCHANGED <<own, editor, told, repeats, strays, used, copy>>
      /\ Attempt!Passing' = Attempt!Passing
  BY DEF TikTok!ClickPostButton, TikTok!ConfirmPostModal, TikTok!Click, TikTok!quiet,
         TikTok!entry, TikTok!page, Attempt!Passing, Texts, Matching
<1>4. CommonInv' /\ TtInv'
  BY <1>1, <1>2, <1>3
<1>5. CASE takes /\ submitted = {}
  <2>1. submitted' = {editor} /\ again' = again
    BY <1>1, <1>2, <1>5
  <2>2. \E text \in Attempt!Passing : submitted' = {text}
    BY <1>1, <2>1
  <2>3. Attempt!Submit
    BY <1>1, <1>3, <1>5, <2>1, <2>2 DEF Attempt!Submit, Attempt!Rigid
  <2> QED BY <1>4, <2>3 DEF AttemptStep
<1>6. CASE takes /\ submitted # {}
  <2>1. submitted' = submitted /\ again' = TRUE /\ repeats
    BY <1>1, <1>2, <1>6
  <2> QED BY <1>1, <1>3, <1>4, <1>6, <2>1 DEF AttemptStep, Attempt!Repeat, Attempt!Rigid
<1>7. CASE ~takes
  BY <1>1, <1>2, <1>3, <1>4, <1>7 DEF AttemptStep, Attempt!vars
<1> QED BY <1>4, <1>5, <1>6, <1>7

LEMMA TtStep ==
  ASSUME platform = "tiktok", UNCHANGED platform, CommonInv, TtInv, TikTok!Next
  PROVE  CommonInv' /\ TtInv' /\ AttemptStep
<1> USE DEF CommonInv, TtInv, TtBefore, TtCopied, TtAfter, TtBack, Attempt!vars, Attempt!Passing,
            Attempt!Verdicts, AttemptStep, TikTok!quiet, TikTok!material, TikTok!back,
            TikTok!entry, TikTok!taken, TikTok!page
<1>1. CASE TikTok!EnterAndVerifyCaption
  BY <1>1 DEF TikTok!EnterAndVerifyCaption, TikTok!Enter, TikTok!Entered,
              TikTok!Mismatch, TikTok!Matching, Matching, Texts
<1>2. CASE TikTok!AwaitUploadConfirmation
  BY <1>2 DEF TikTok!AwaitUploadConfirmation
<1>3. CASE TikTok!ChooseFile \/ TikTok!BackUpFile \/ TikTok!ReplaceFile
  BY <1>3 DEF TikTok!ChooseFile, TikTok!BackUpFile, TikTok!ReplaceFile, TikTok!WritingBack,
              TikTok!AfterWriteBack, TikTok!GoesTo, TikTok!flow
<1>4. CASE TikTok!Finish
  BY <1>4 DEF TikTok!Finish, TikTok!Tells, Attempt!Tell, Attempt!Rigid
<1> QED
  BY TtPage, TtClick, <1>1, <1>2, <1>3, <1>4 DEF TikTok!Next, TikTok!Steps
-----------------------------------------------------------------------------
(* The steps of TikTok's flow that touch neither a file nor a backup, and  *)
(* where they lead.                                                        *)
OffTheFiles ==
  /\ UNCHANGED <<file, bak, target, backedUp, owed>>
  /\ step \in TtBack => step' \in {"done", step}
  /\ step = "done" => step' = "done"

LEMMA TtOffTheFiles ==
  ASSUME TtInv, TikTok!Next,
         ~TikTok!ChooseFile, ~TikTok!BackUpFile, ~TikTok!ReplaceFile,
         ~TikTok!ExportCookies, ~TikTok!ClearSession
  PROVE  OffTheFiles
<1> USE DEF OffTheFiles, TtBack, TikTok!quiet, TikTok!material, TikTok!back,
            TikTok!GoesTo, TikTok!Must, TikTok!May
<1>1. CASE TikTok!GetContext \/ TikTok!CopyMedia \/ TikTok!OpenUploadPage
  BY <1>1 DEF TikTok!GetContext, TikTok!CopyMedia, TikTok!OpenUploadPage
<1>2. CASE TikTok!ResolveUploadTarget \/ TikTok!UploadMediaFile
           \/ TikTok!DismissOneTimeOverlay
  BY <1>2 DEF TikTok!ResolveUploadTarget, TikTok!UploadMediaFile, TikTok!DismissOneTimeOverlay
<1>3. CASE TikTok!FindCaptionField \/ TikTok!EnterAndVerifyCaption
  BY <1>3 DEF TikTok!FindCaptionField, TikTok!FindField, TikTok!EnterAndVerifyCaption,
              TikTok!Enter, TikTok!Mismatch
<1>4. CASE TikTok!ClickPostButton \/ TikTok!ConfirmPostModal
  BY <1>4 DEF TikTok!ClickPostButton, TikTok!ConfirmPostModal, TikTok!Click
<1>5. CASE TikTok!AwaitUploadConfirmation
  BY <1>5 DEF TikTok!AwaitUploadConfirmation
<1>6. CASE TikTok!Finish
  BY <1>6 DEF TikTok!Finish, TikTok!Tells
<1>7. CASE TikTok!Redirect
  BY <1>7 DEF TikTok!Redirect, TikTok!flow
<1> QED
  BY <1>1, <1>2, <1>3, <1>4, <1>5, <1>6, <1>7 DEF TikTok!Next, TikTok!Steps

(* An export that is owed survives the write-back: what is backed up is    *)
(* the export, and one that comes later is not owed.                       *)
LEMMA BackStep ==
  ASSUME BackInv, TtInv, TikTok!Next
  PROVE  BackInv'
<1> USE DEF BackInv, TtInv, TtBack, TikTok!TooLate, TikTok!WritingBack, TikTok!Places,
            TikTok!material, TikTok!back
<1>1. CASE TikTok!ChooseFile
  BY <1>1 DEF TikTok!ChooseFile, TikTok!AfterWriteBack, TikTok!GoesTo, TikTok!flow,
              TikTok!CookiesFile
<1>2. CASE TikTok!BackUpFile
  BY <1>2 DEF TikTok!BackUpFile, TikTok!BackedUp, TikTok!AfterWriteBack, TikTok!GoesTo, TikTok!flow
<1>3. CASE TikTok!ReplaceFile
  BY <1>3 DEF TikTok!ReplaceFile, TikTok!Replaced, TikTok!AfterWriteBack, TikTok!GoesTo
<1>4. CASE TikTok!ExportCookies
  BY <1>4 DEF TikTok!ExportCookies, TikTok!flow
<1>5. CASE TikTok!ClearSession
  BY <1>5 DEF TikTok!ClearSession, TikTok!flow
<1>6. CASE OffTheFiles
  BY <1>6 DEF OffTheFiles
<1> QED BY TtOffTheFiles, <1>1, <1>2, <1>3, <1>4, <1>5, <1>6

(* What becomes of the two files in one step.                              *)
FilesStep ==
  \/ UNCHANGED file
  \/ TikTok!Replaced(target)
  \/ file' = [file EXCEPT !["folder"] = "export"]
  \/ file' = [file EXCEPT !["folder"] = "none"]

LEMMA FilesChange ==
  ASSUME FlowInv, [OnInstagram \/ OnTikTok]_vars
  PROVE  FilesStep
<1>1. CASE OnInstagram \/ UNCHANGED vars
  BY <1>1 DEF OnInstagram, ttState, vars, FilesStep
<1>2. CASE OnTikTok
  <2>1. CASE TikTok!ChooseFile \/ TikTok!BackUpFile \/ TikTok!ReplaceFile
             \/ TikTok!ExportCookies \/ TikTok!ClearSession
    BY <2>1 DEF TikTok!ChooseFile, TikTok!BackUpFile, TikTok!ReplaceFile,
                TikTok!ExportCookies, TikTok!ClearSession, TikTok!material, FilesStep
  <2>2. CASE OffTheFiles
    BY <2>2 DEF OffTheFiles, FilesStep
  <2> QED BY <1>2, <2>1, <2>2, TtOffTheFiles DEF OnTikTok, FlowInv
<1> QED BY <1>1, <1>2

LEMMA FlowStep ==
  ASSUME FlowInv, [OnInstagram \/ OnTikTok]_vars
  PROVE  FlowInv' /\ AttemptStep
<1>1. CASE OnInstagram
  <2>1. CommonInv' /\ IgInv' /\ AttemptStep
    BY <1>1, IgStep DEF OnInstagram, FlowInv
  <2>2. BackInv'
    BY <1>1 DEF OnInstagram, ttState, FlowInv, BackInv, TikTok!TooLate, TikTok!Places
  <2> QED BY <1>1, <2>1, <2>2 DEF OnInstagram, ttState, FlowInv
<1>2. CASE OnTikTok
  BY <1>2, TtStep, BackStep DEF OnTikTok, FlowInv
<1>3. CASE UNCHANGED vars
  BY <1>3 DEF vars, flow, entry, taken, page, igPage, ttState, FlowInv, CommonInv, IgInv,
              TtInv, BackInv, TikTok!TooLate, TikTok!WritingBack, TikTok!Places,
              Attempt!Passing, AttemptStep, Attempt!vars
<1> QED BY <1>1, <1>2, <1>3

(* Whatever the pages do, a call of post_media has its media where its     *)
(* next step needs it, hands it over under a caption that passes, and      *)
(* tells one verdict.                                                      *)
THEOREM FlowCorrect == Spec => []FlowInv
BY FlowInit, FlowStep, PTL DEF Spec
-----------------------------------------------------------------------------
(* post_media of both platforms: a post that went out is reported failed   *)
(* only when the click that made it raised; nothing that goes wrong        *)
(* afterwards, a modal, the wait, the cookies, hides it.                   *)
THEOREM OnlyTheClickHidesCorrect == Spec => []OnlyTheClickHides
<1>1. FlowInv => OnlyTheClickHides
  BY DEF FlowInv, CommonInv, OnlyTheClickHides
<1> QED BY FlowCorrect, <1>1, PTL

(* _upload_media_file, copyfile: what is posted is the whole media, from a *)
(* composer that has it or from a complete copy.                           *)
THEOREM SharedWholeCorrect == Spec => []SharedWhole
<1>1. FlowInv => SharedWhole
  BY DEF FlowInv, CommonInv, IgInv, TtInv, TtBefore, TtCopied, TtAfter, TtBack, SharedWhole
<1> QED BY FlowCorrect, <1>1, PTL

(* _write_back_cookies replaces a file in one go: a usable session stays   *)
(* usable, whatever fails and whatever the maintainer exports meanwhile.   *)
THEOREM SessionNeverBrokenCorrect == Spec => SessionNeverBroken
<1>1. FlowInv /\ [OnInstagram \/ OnTikTok]_vars =>
        [\A p \in TikTok!Places :
           TikTok!Usable(p) => \/ TikTok!Usable(p)'
                               \/ p = "folder" /\ file'[p] = "none"]_vars
  BY FilesChange DEF FlowInv, BackInv, FilesStep, TikTok!Replaced, TikTok!Usable, TikTok!Places
<1> QED BY FlowCorrect, <1>1, PTL DEF Spec, SessionNeverBroken

(* _write_back_cookies keeps a backup: what the maintainer exports while a *)
(* run posts, up to the backup or once the replacement is through, is not  *)
(* lost to the cookies that the run writes back.                           *)
THEOREM ExportKeptCorrect == Spec => []ExportKept
<1>1. FlowInv => ExportKept
  BY DEF FlowInv, BackInv, ExportKept
<1> QED BY FlowCorrect, <1>1, PTL

(* Either flow implements the attempt that a run counts on, but for the    *)
(* verdict coming at last: every step of it is the hand-over, a second one *)
(* that only TikTok can see, and only if it takes an editor's post again,  *)
(* a verdict, or none of the attempt's business.                           *)
THEOREM ImplementsAttempt ==
  Spec => Attempt!Init /\ [][Attempt!Submit \/ Attempt!Repeat \/ Attempt!Tell]_(Attempt!vars)
<1>1. Init => Attempt!Init
  BY DEF Init, Instagram!Init, Instagram!Start, TikTok!Init, TikTok!Start, Attempt!Init
<1>2. FlowInv /\ [OnInstagram \/ OnTikTok]_vars =>
        [Attempt!Submit \/ Attempt!Repeat \/ Attempt!Tell]_(Attempt!vars)
  BY FlowStep DEF AttemptStep
<1> QED BY FlowCorrect, <1>1, <1>2, PTL DEF Spec
=============================================================================
