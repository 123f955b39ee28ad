------------------------------ MODULE PostMedia ------------------------------
(***************************************************************************)
(* One call of post_media, as post_slot makes it: the flow of Instagram or *)
(* that of TikTok (poster_browser.py:253-268, 281-296).                    *)
(***************************************************************************)
EXTENDS BrowserFlow

VARIABLES
  platform,                          \* whose flow it is
  session, screens, nexts, composer, \* those of Instagram
  file, bak, profile, used, copy,    \* those of TikTok
  target, backedUp, owed, url

Instagram == INSTANCE InstagramFlow WITH file <- composer
TikTok == INSTANCE TikTokFlow

igPage == <<session, screens, nexts, composer>>
ttState == <<file, bak, profile, used, copy, target, backedUp, owed, url>>
vars == <<flow, platform, igPage, ttState>>

Init ==
  \/ /\ platform = "instagram" /\ Instagram!Init
     /\ file = [p \in TikTok!Places |-> "none"] /\ bak = file
     /\ profile = FALSE /\ used = "none" /\ copy = "none"
     /\ target = "none" /\ backedUp = FALSE /\ owed = FALSE /\ url = "elsewhere"
  \/ /\ platform = "tiktok" /\ TikTok!Init
     /\ session = "expired" /\ screens = 0 /\ nexts = 0 /\ composer = FALSE

OnInstagram == platform = "instagram" /\ Instagram!Next /\ UNCHANGED <<platform, ttState>>
OnTikTok == platform = "tiktok" /\ TikTok!Next /\ UNCHANGED <<platform, igPage>>

(* Every call on the page has a timeout and every sleep ends.              *)
Spec ==
  /\ Init /\ [][OnInstagram \/ OnTikTok]_vars
  /\ WF_vars(OnInstagram /\ Instagram!Steps)
  /\ WF_vars(OnTikTok /\ TikTok!Steps)
-----------------------------------------------------------------------------
(* A post that went out and is reported failed is one whose click on Share *)
(* or Post raised: no later step, modal, wait, or write-back of cookies    *)
(* turns a post into a failure (instagram_browser.py:575-640,              *)
(* tiktok_browser.py:639-785).                                             *)
OnlyTheClickHides == told = "failed" /\ submitted # {} => broken

(* The post is made of the whole media, by an attempt that found a session:*)
(* a composer that is shared has the media (instagram_browser.py:234-406), *)
(* and TikTok's copy is complete and not removed before the verdict        *)
(* (tiktok_browser.py:755-760, 803-807).                                   *)
SharedWhole ==
  submitted # {} /\ told = "none" =>
    IF platform = "instagram" THEN composer ELSE used # "none" /\ copy = "whole"

(* The write-back never takes a usable session away: a file that was       *)
(* usable stays so unless it is cleared (tiktok_browser.py:261-276).       *)
SessionNeverBroken ==
  [][\A p \in TikTok!Places :
       TikTok!Usable(p) => \/ TikTok!Usable(p)'
                           \/ p = "folder" /\ file'[p] = "none"]_vars

(* What the maintainer exports while a run posts, before or after the file *)
(* is chosen, is in the file or in its backup until it is exported anew or *)
(* cleared, unless it came between backup and replacement                  *)
(* (tiktok_browser.py:253-269).                                            *)
ExportKept == owed => "export" \in {file["folder"], bak["folder"]}

(* Either flow keeps the promise of a post attempt: one hand-over at most, *)
(* by TikTok two if it takes an editor's post again; with the caption that *)
(* was asked for, unless another text box is taken for it; before the      *)
(* verdict; and one verdict, that comes (instagram_browser.py:593-640,     *)
(* tiktok_browser.py:728-817).                                             *)
Attempt == INSTANCE PostAttempt
  WITH Captions <- Texts, GoodCaptions <- Matching,
       repeats <- repeats /\ platform = "tiktok"
KeepsPromise == Attempt!Spec
=============================================================================
