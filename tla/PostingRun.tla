------------------------------ MODULE PostingRun ------------------------------
(***************************************************************************)
(* One posting run, manual or scheduled: the accounts of the request one   *)
(* after the other, Instagram before TikTok (poster_browser.py), with the  *)
(* live progress of a manual run (PostProgress in main.py), the pushes to  *)
(* the phone, the summary, and what is recorded of it.  The posting of one *)
(* account to one platform is a PostAttempt.                               *)
(***************************************************************************)
EXTENDS Outcomes, Sequences

CONSTANTS
  Accounts,     \* the accounts
  Orders,       \* the sequences of accounts a request may name
  Paced,        \* whether there is a gap between accounts
  LookFails,    \* whether looking up the sessions may raise
  RecordFails   \* whether writing history may fail

ASSUME OrdersAssumption == Orders \subseteq Seq(Accounts)
ASSUME SettingsAssumption ==
  Paced \in BOOLEAN /\ LookFails \in BOOLEAN /\ RecordFails \in BOOLEAN

VARIABLES
  kind,       \* manual or scheduled
  at,         \* where the run stands
  todo,       \* the accounts to come, the present one first
  enabled,    \* the platforms switched on, by account
  ruledOut,   \* the platforms the pre-flight check ruled out, by account
  has,        \* the sessions the present account was seen to have
  turn,       \* the platform whose turn it is
  result,     \* the result of the present account
  results,    \* the results so far
  handed,     \* the attempt under way: what was handed to the platform,
  verdict,    \* and its verdict
  pushes,     \* the pushes about single platforms
  summary,    \* the pushed summary, if any
  progress,   \* PostProgress
  rows,       \* the results in history
  snapshot,   \* whether the media of the scheduled batch are kept
  media,      \* the accounts whose uploaded file is in media/
  out         \* (ghost) the account-platform pairs with a post handed over

run == <<kind, at, todo, enabled, ruledOut, has, turn, result, results>>
attempt == <<handed, verdict>>
records == <<pushes, summary, rows, snapshot>>
vars == <<run, attempt, records, progress, media, out>>

(* Assumed of the platforms: what one editor holds is taken once, and the  *)
(* caption is typed where it belongs (see PostAttempt).                    *)
TakesTwice == FALSE
StrayBoxes == FALSE

Attempt == INSTANCE PostAttempt
  WITH Captions <- {"caption"}, GoodCaptions <- {"caption"},
       submitted <- handed, again <- FALSE, told <- verdict,
       repeats <- TakesTwice, strays <- StrayBoxes

Idle == [active |-> FALSE, current |-> {}, waiting |-> {}, events |-> <<>>]
NoSummary == [total |-> 0]
NoResult == [slot |-> "none", ids |-> NoIds, errors |-> {}]
Fresh(a) == [slot |-> a, ids |-> NoIds, errors |-> {}]
Present == Head(todo)
Named(order) == {order[i] : i \in DOMAIN order}

Init ==
  /\ kind = "none" /\ at = "idle" /\ todo = <<>>
  /\ enabled = [a \in Accounts |-> Platforms]
  /\ ruledOut = [a \in Accounts |-> {}]
  /\ has = {} /\ turn = "none" /\ result = NoResult /\ results = {}
  /\ handed = {} /\ verdict = "none"
  /\ pushes = {} /\ summary = NoSummary /\ rows = {} /\ snapshot = TRUE
  /\ progress = Idle /\ media = {} /\ out = {}

(* _record_progress, for a manual run; a scheduled one reports nowhere.    *)
Reported(status) ==
  IF kind # "manual" THEN progress
  ELSE [progress EXCEPT
          !.waiting = {},
          !.current = IF status = "started" THEN {<<Present, turn>>} ELSE {},
          !.events = Append(@, <<Present, turn, status>>)]
ReportsWaiting(a) ==
  progress' = IF kind # "manual" THEN progress
              ELSE [progress EXCEPT !.waiting = {a}]

(* PostProgress.start and finish.                                          *)
Started == [Idle EXCEPT !.active = TRUE]
Finished ==
  IF kind # "manual" THEN progress
  ELSE [progress EXCEPT !.active = FALSE, !.current = {}, !.waiting = {}]
-----------------------------------------------------------------------------
(* upload_media, while nothing or something runs; clear_media asks the     *)
(* guard, which the run of either kind holds.                              *)
Ended == at \in {"over", "unrecorded"}
Running == at # "idle" /\ ~Ended

UploadMedia(a) ==
  /\ media' = media \cup {a}
  /\ UNCHANGED <<run, attempt, records, progress, out>>

MayClearMutant == progress.current = {}
MayClear == ~Running
ClearMedia ==
  /\ MayClear /\ media' = {}
  /\ UNCHANGED <<run, attempt, records, progress, out>>

(* A refused request, of duplicates, unknown accounts or missing files,    *)
(* has started and finished the progress all the same.                     *)
RefusedPost ==
  /\ ~Running
  /\ progress' = Idle
  /\ UNCHANGED <<run, attempt, records, media, out>>

(* /api/post: the guard, the checks, the slots.                            *)
Distinct(order) == \A i, j \in DOMAIN order : order[i] = order[j] => i = j

PostAll(order, en) ==
  /\ at = "idle" /\ Distinct(order)
  /\ \A i \in DOMAIN order : order[i] \in media
  /\ kind' = "manual" /\ todo' = order /\ enabled' = en
  /\ at' = IF order = <<>> THEN "record" ELSE "look"
  /\ progress' = Started
  /\ UNCHANGED <<ruledOut, has, turn, result, results, attempt, records, media, out>>

(* execute_batch after its pre-flight checks: an account of which every    *)
(* platform was ruled out gets its result here and does not take part.     *)
PreflightErrors(a, en, ro) ==
  {Error(p, "preflight") : p \in ro[a]} \cup {Error(p, "disabled") : p \in Platforms \ en[a]}

Excluded(order, en, ro) == {a \in Named(order) : ro[a] = en[a]}
Proceeding(order, excluded) ==
  {s \in UNION {[1..n -> Named(order)] : n \in 0..Len(order)} :
     /\ Named(s) = Named(order) \ excluded /\ Distinct(s)
     /\ \A i, j \in DOMAIN s : i < j =>
          \E k, l \in DOMAIN order : k < l /\ order[k] = s[i] /\ order[l] = s[j]}

PostBatch(order, en, ro) ==
  /\ at = "idle" /\ Distinct(order)
  /\ \A a \in Accounts : ro[a] \subseteq en[a]
  /\ kind' = "scheduled" /\ enabled' = en /\ ruledOut' = ro
  /\ todo' \in Proceeding(order, Excluded(order, en, ro))
  /\ results' = {[Fresh(a) EXCEPT !.errors = PreflightErrors(a, en, ro)] :
                   a \in Excluded(order, en, ro)}
  /\ at' = IF todo' = <<>> THEN "record" ELSE "look"
  /\ UNCHANGED <<has, turn, result, attempt, records, progress, media, out>>
-----------------------------------------------------------------------------
(* post_slot.  Both sessions are looked up before the first post.          *)
LookUp ==
  /\ at = "look"
  /\ has' \in SUBSET Platforms
  /\ result' = Fresh(Present)
  /\ turn' = "instagram" /\ at' = "turn"
  /\ UNCHANGED <<kind, todo, enabled, ruledOut, results, attempt, records, progress, media, out>>

(* The next platform, or the end of the account.                           *)
Advance ==
  IF turn = "instagram" THEN turn' = "tiktok" /\ at' = "turn"
                        ELSE turn' = "none" /\ at' = "notify"

(* Disabled, to be posted to, ruled out, or without a session.             *)
LeaveOutMutant(kindOfSkip) ==
  /\ result' = [result EXCEPT !.errors = @ \cup {Error(turn, kindOfSkip)}]
  /\ progress' = IF kindOfSkip = "disabled" THEN progress ELSE Reported("skipped")
  /\ IF kindOfSkip = "disabled" THEN UNCHANGED <<turn, at>> ELSE Advance
LeaveOut(kindOfSkip) ==
  /\ result' = [result EXCEPT !.errors = @ \cup {Error(turn, kindOfSkip)}]
  /\ progress' = IF kindOfSkip = "disabled" THEN progress ELSE Reported("skipped")
  /\ Advance

TakeTurnMutant ==
  /\ at = "turn"
  /\ \/ turn \notin enabled[Present] /\ LeaveOut("disabled") /\ UNCHANGED attempt
     \/ /\ turn \in enabled[Present] /\ turn \in has
        /\ progress' = Reported("started")
        /\ handed' = {} /\ verdict' = "none"
        /\ at' = "posting" /\ UNCHANGED <<turn, result>>
     \/ /\ turn \in enabled[Present] /\ turn \notin has
        /\ LeaveOut("no_session") /\ UNCHANGED attempt
  /\ UNCHANGED <<kind, todo, enabled, ruledOut, has, results, records, media, out>>
TakeTurn ==
  /\ at = "turn"
  /\ \/ turn \notin enabled[Present] /\ LeaveOut("disabled") /\ UNCHANGED attempt
     \/ /\ turn \in enabled[Present] /\ turn \in has \ ruledOut[Present]
        /\ progress' = Reported("started")
        /\ handed' = {} /\ verdict' = "none"
        /\ at' = "posting" /\ UNCHANGED <<turn, result>>
     \/ /\ turn \in enabled[Present] /\ turn \in ruledOut[Present]
        /\ LeaveOut("preflight") /\ UNCHANGED attempt
     \/ /\ turn \in enabled[Present] /\ turn \notin has \cup ruledOut[Present]
        /\ LeaveOut("no_session") /\ UNCHANGED attempt
  /\ UNCHANGED <<kind, todo, enabled, ruledOut, has, results, records, media, out>>

(* post_media of the platform, which promises what PostAttempt says.       *)
HandOver ==
  /\ at = "posting" /\ Attempt!Submit
  /\ out' = out \cup {<<Present, turn>>}
  /\ UNCHANGED <<run, records, progress, media>>

Answer ==
  /\ at = "posting" /\ Attempt!Tell
  /\ UNCHANGED <<run, records, progress, media, out>>

ReturnedMutant ==
  /\ at = "posting" /\ verdict # "none"
  /\ result' =
       CASE verdict = "confirmed" -> [result EXCEPT !.ids[turn] = "ok"]
         [] verdict = "unconfirmed" -> [result EXCEPT !.ids[turn] = "unconfirmed"]
         [] verdict = "failed" -> result
  /\ progress' = Reported(CASE verdict = "confirmed" -> "ok"
                            [] verdict = "unconfirmed" -> "unconfirmed"
                            [] verdict = "failed" -> "error")
  /\ handed' = {} /\ verdict' = "none"
  /\ IF verdict = "failed" THEN at' = "turn" /\ UNCHANGED turn ELSE Advance
  /\ UNCHANGED <<kind, todo, enabled, ruledOut, has, results, records, media, out>>
Returned ==
  /\ at = "posting" /\ verdict # "none"
  /\ result' =
       CASE verdict = "confirmed" -> [result EXCEPT !.ids[turn] = "ok"]
         [] verdict = "unconfirmed" -> [result EXCEPT !.ids[turn] = "unconfirmed"]
         [] verdict = "failed" ->
              [result EXCEPT !.errors = @ \cup {Error(turn, "real")}]
  /\ progress' = Reported(CASE verdict = "confirmed" -> "ok"
                            [] verdict = "unconfirmed" -> "unconfirmed"
                            [] verdict = "failed" -> "error")
  /\ handed' = {} /\ verdict' = "none"
  /\ Advance
  /\ UNCHANGED <<kind, todo, enabled, ruledOut, has, results, records, media, out>>

(* _notify_slot_result; then the gap, or the summary.                      *)
NotifySlot ==
  /\ at = "notify"
  /\ results' = results \cup {result}
  /\ pushes' = pushes \cup
       {<<Present, p, Event(result, p)>> :
          p \in {q \in Platforms : Event(result, q) \in {"error", "unconfirmed"}}}
  /\ todo' = Tail(todo)
  /\ result' = NoResult /\ has' = {}
  /\ at' = CASE todo' = <<>> -> "summary"
             [] todo' # <<>> /\ Paced -> "gap"
             [] todo' # <<>> /\ ~Paced -> "look"
  /\ IF at' = "gap" THEN ReportsWaiting(Head(todo')) ELSE UNCHANGED progress
  /\ UNCHANGED <<kind, enabled, ruledOut, turn, attempt, summary, rows, snapshot, media, out>>

EndGap ==
  /\ at = "gap" /\ at' = "look"
  /\ UNCHANGED <<kind, todo, enabled, ruledOut, has, turn, result, results, attempt,
                 records, progress, media, out>>

(* _notify_run_summary, over the accounts post_all posted for.             *)
InPostAll == {r \in results : ruledOut[r.slot] # enabled[r.slot]}

Summarise ==
  /\ at = "summary"
  /\ summary' = Summary(InPostAll)
  /\ at' = "record"
  /\ UNCHANGED <<kind, todo, enabled, ruledOut, has, turn, result, results, attempt,
                 pushes, rows, snapshot, progress, media, out>>
-----------------------------------------------------------------------------
(* The end: history, and for a batch whose slots all succeeded, the media. *)
(* Recording may fail; a manual run swallows it and a batch keeps its line.*)
(* A batch that had nothing to execute leaves a line of no account.        *)
FinalStatus ==
  CASE \A r \in results : ~Success(r) -> "failed"
    [] results # {} /\ \A r \in results : Success(r) -> "done"
    [] OTHER -> "partial"

NothingExecuted ==
  [slot |-> "(none)", ids |-> NoIds,
   errors |-> {[platform |-> "none", kind |-> "no_slots"]}]
ToRecord ==
  IF kind = "scheduled" /\ results = {} THEN {NothingExecuted} ELSE results

Record ==
  /\ at = "record"
  /\ \/ /\ at' = "over" /\ rows' = ToRecord
        /\ snapshot' = ~(kind = "scheduled" /\ FinalStatus = "done")
     \/ /\ RecordFails /\ at' = "unrecorded"
        /\ rows' \in SUBSET ToRecord /\ UNCHANGED snapshot
  /\ progress' = Finished
  /\ UNCHANGED <<kind, todo, enabled, ruledOut, has, turn, result, results, attempt,
                 pushes, summary, media, out>>

(* An exception out of post_slot, of the look-up of the sessions, ends the *)
(* run: the results so far are lost.  The scheduler then records a crash   *)
(* for every account that it has no result for.                            *)
CrashRowsMutant ==
  {[Fresh(a) EXCEPT !.errors = {[platform |-> "none", kind |-> "crash"]}] : a \in Named(todo)}
CrashRows ==
  {[Fresh(a) EXCEPT !.errors = {[platform |-> "none", kind |-> "crash"]}] :
     a \in Named(todo) \cup {r.slot : r \in InPostAll}}

Escape ==
  /\ at = "look" /\ LookFails
  /\ \/ kind = "manual" /\ at' = "over" /\ rows' = {}
     \/ kind = "scheduled" /\ at' = "over" /\ rows' = (results \ InPostAll) \cup CrashRows
     \/ /\ kind = "scheduled" /\ RecordFails /\ at' = "unrecorded"
        /\ rows' \in SUBSET ((results \ InPostAll) \cup CrashRows)
  /\ progress' = Finished
  /\ UNCHANGED <<kind, todo, enabled, ruledOut, has, turn, result, results, attempt,
                 pushes, summary, snapshot, media, out>>
-----------------------------------------------------------------------------
RunStep ==
  \/ LookUp \/ TakeTurn \/ HandOver \/ Answer \/ Returned \/ NotifySlot
  \/ EndGap \/ Summarise \/ Record \/ Escape

(* At least one platform of an account of the request is switched on.      *)
Choices(order) ==
  {c \in [Accounts -> SUBSET Platforms] :
     \A a \in Accounts \ Named(order) : c[a] = Platforms}
Rulings(order) == {[a \in Accounts |-> Platforms \ c[a]] : c \in Choices(order)}

Next ==
  \/ RunStep
  \/ \E a \in Accounts : UploadMedia(a)
  \/ ClearMedia \/ RefusedPost
  \/ \E order \in Orders : \E en \in Choices(order) :
       /\ \A a \in Accounts : en[a] # {}
       /\ \/ PostAll(order, en)
          \/ \E ro \in Rulings(order) : PostBatch(order, en, ro)

(* A gap is bounded, a push has a timeout, and an attempt answers.         *)
Spec == Init /\ [][Next]_vars /\ WF_vars(RunStep) /\ WF_vars(Answer)
=============================================================================
