------------------------ MODULE PostingRunProperties ------------------------
(***************************************************************************)
(* What one posting run owes to the accounts, to the media and to its      *)
(* audiences: the page, the phone, history.                                *)
(***************************************************************************)
EXTENDS PostingRun

Scheduler == INSTANCE QueueFile WITH Batches <- {"batch"}

Pairs == Accounts \X Platforms
ResultOf(rs, a) == {r \in rs : r.slot = a}
ClassOf(rs, pair) == {Classify(r, pair[2]) : r \in ResultOf(rs, pair[1])}

(* Where a manual run stands, as the page shows it: the present platform   *)
(* while it is posted to and no longer, the next account while the run     *)
(* waits and no longer, and nothing of this after the end.                 *)
ProgressFollows ==
  /\ progress.active = (kind = "manual" /\ Running)
  /\ progress.current = IF at = "posting" /\ kind = "manual" THEN {<<Present, turn>>} ELSE {}
  /\ at = "gap" /\ kind = "manual" => progress.waiting = {Present}
  /\ at \notin {"gap", "look", "turn"} => progress.waiting = {}

(* The uploaded files of the accounts a manual run has still to post for   *)
(* are not cleared away under it, not even between accounts (clear_media). *)
RunKeepsMedia ==
  kind = "manual" /\ Running => Named(todo) \subseteq media

(* The page follows a manual run while it lasts, and then it, the summary  *)
(* and history tell the same, the one from its events, the others from the *)
(* results: how every platform went, and for how many accounts something   *)
(* was posted and nothing failed (_record_progress, PostProgress,          *)
(* _notify_run_summary, classify_platform).                                *)
Shown(pair) ==
  {progress.events[i][3] : i \in {j \in DOMAIN progress.events :
                                    <<progress.events[j][1], progress.events[j][2]>> = pair}}
    \ {"started"}
Word == [confirmed |-> "ok", unconfirmed |-> "unconfirmed",
         failed |-> "error", skipped |-> "skipped"]
ShownWell(a) ==
  /\ \E p \in Platforms : Shown(<<a, p>>) \cap {"ok", "unconfirmed"} # {}
  /\ \A p \in Platforms : "error" \notin Shown(<<a, p>>)

PageAgrees ==
  /\ ProgressFollows
  /\ kind = "manual" /\ summary # NoSummary /\ progress.events # <<>> =>
       /\ \A pair \in Pairs : \A class \in ClassOf(results, pair) :
            Shown(pair) = IF class = "disabled" THEN {} ELSE {Word[class]}
       /\ summary.posted = Cardinality({a \in Accounts : ShownWell(a)})

(* The phone agrees with history about both kinds of run: a push for each  *)
(* failed or unconfirmed platform and for no other, and a summary that     *)
(* names what was left out except what was switched off; it is pressing    *)
(* unless something was posted and nothing failed (_platform_events,       *)
(* _notify_run_summary).                                                   *)
PhoneAgrees ==
  summary # NoSummary =>
    LET Of(class) == {pair \in Pairs : class \in ClassOf(InPostAll, pair)} IN
    /\ {<<push[1], push[2]>> : push \in pushes} = Of("failed") \cup Of("unconfirmed")
    /\ summary.failed = Of("failed") /\ summary.unconfirmed = Of("unconfirmed")
    /\ summary.skipped = Of("skipped")
    /\ summary.urgent = (Of("failed") # {} \/ Of("confirmed") \cup Of("unconfirmed") = {})

(* A platform the maintainer switched off, or the pre-flight check ruled   *)
(* out, is not handed a post whatever session is found later, and history  *)
(* says why (post_slot, execute_batch).                                    *)
LeftOutStaysOut ==
  \A pair \in Pairs :
    LET a == pair[1]  p == pair[2] IN
    a \in {r.slot : r \in results} /\ (p \notin enabled[a] \/ p \in ruledOut[a]) =>
      /\ pair \notin out
      /\ ClassOf(results, pair) = {IF p \in enabled[a] THEN "skipped" ELSE "disabled"}

(* The media of a batch are let go only when every platform that was       *)
(* switched on was posted to, confirmed or not: a skip keeps them          *)
(* (PostResult.success, execute_batch).                                    *)
MediaOutlastTrouble ==
  ~snapshot =>
    \A a \in Accounts : \A r \in ResultOf(rows, a) : \A p \in enabled[a] :
      Classify(r, p) \in {"confirmed", "unconfirmed"}

(* No platform of an account is handed two posts in a run, though its      *)
(* attempt fails (post_slot tries once; duplicates are refused), if it     *)
(* takes what one attempt's editor holds once (TakesTwice).                *)
PostedOnce ==
  [][\A pair \in Pairs : handed' # handed /\ handed' # {} /\ pair = <<Present, turn>>
       => pair \notin out]_vars

(* When nothing is wrong with recording, every account of a batch has one  *)
(* row in history, whether the run came to its end or an exception cut it  *)
(* short: its result or a crash; and a batch without accounts has a row    *)
(* that says so.  The rows are those ScheduledPosting supposes of the      *)
(* status of the batch, and none of a run cut short tells a success: were  *)
(* they all of successes, the copy could be cleared as an orphan           *)
(* (execute_batch, _history_index).                                        *)
RowKind(r) == IF Success(r) THEN "clean" ELSE "unclean"
InBatch == Named(todo) \cup {r.slot : r \in results}
EveryAccountAnswered ==
  at = "over" /\ kind = "scheduled" =>
    /\ {r.slot : r \in rows} = IF InBatch = {} THEN {"(none)"} ELSE InBatch
    /\ \A a \in Accounts : Cardinality(ResultOf(rows, a)) <= 1
    /\ {RowKind(r) : r \in rows} =
         IF todo = <<>> THEN Scheduler!RowsOf(FinalStatus) ELSE {"unclean"}

(* A run that began comes to an end, whatever is skipped, fails or raises  *)
(* (post_all, post_all_endpoint, execute_batch).                           *)
RunEnds == at # "idle" ~> Ended
-----------------------------------------------------------------------------
(* What the documents say and the code does not keep.                      *)

(* main.py:621: history is the record of every posting run.  An exception  *)
(* from the look-up of the sessions ends a manual run with no line written.*)
EveryRunIsRecorded ==
  at = "over" /\ kind = "manual" /\ out # {} => rows # {}

(* scheduler.py:133: the exception path records whatever landed before the *)
(* crash.  What landed is still in post_all, and its list is lost.         *)
LandedIsRecorded ==
  at = "over" /\ kind = "scheduled" => results \subseteq rows

(* README.md:255: the copy of a batch is deleted only when every slot      *)
(* posts successfully.  A post nobody saw confirmed counts as one, though  *)
(* it may never have gone out.                                             *)
DeletedIsOut ==
  ~snapshot =>
    \A pair \in Pairs : "unconfirmed" \in ClassOf(rows, pair) => pair \in out

(* main.py:608: the progress of the active or most recent posting run.  A  *)
(* refused request starts and finishes the progress and wipes it.          *)
RecentRunStaysShown ==
  [][at = "over" => progress'.events = progress.events]_vars
=============================================================================
