---------------------------- MODULE SessionHealth ----------------------------
(***************************************************************************)
(* The saved sessions of the accounts and the health check that looks at   *)
(* them before a scheduled batch (backend/session_manager.py), with the    *)
(* session material each platform keeps on disk (instagram_browser.py,     *)
(* tiktok_browser.py) and the cache of successful checks.  The server and  *)
(* the command-line tool are processes of their own that run the same      *)
(* check over the same files; the maintainer logs in, clears sessions and  *)
(* exports cookies meanwhile.                                              *)
(***************************************************************************)
EXTENDS Integers, FiniteSets

CONSTANTS
  Instagram,   \* the Instagram sessions that are looked at, by account
  TikTok,      \* the TikTok sessions
  Preflight,   \* PREFLIGHT_CHECK_PLATFORMS, as the sessions it covers
  Procs,       \* the processes that check sessions
  Ttl,         \* SESSION_CHECK_TTL_S
  MaxTime,     \* the clock runs from 1 to MaxTime
  WritesFail   \* whether a write of the cache may fail

Sessions == Instagram \cup TikTok
Material == {"profile", "cookies", "legacy"}
Times == 1..MaxTime
Never == 0

ASSUME SessionsAssumption ==
  Instagram \cap TikTok = {} /\ Preflight \subseteq Sessions
ASSUME TimesAssumption ==
  Ttl \in Nat /\ MaxTime \in Nat \ {0} /\ WritesFail \in BOOLEAN

VARIABLES
  stored,    \* the session material on disk
  alive,     \* the material the platform would accept
  cache,     \* .health_cache.json: when each session was seen live
  now,       \* the clock
  at,        \* where each process stands
  about,     \* the session it checks
  looked,    \* what the platform would say of the material it set out with
  status,    \* the verdict it is recording
  copy,      \* the cache it has read and changed
  answer,    \* (ghost) the last answer of a check, and when
  seen,      \* (ghost) when a browser really found each session live
  dead       \* (ghost) the sessions a check evicted, not found live since

disk == <<stored, alive>>
check == <<at, about, looked, status, copy>>
vars == <<stored, alive, cache, now, at, about, looked, status, copy, answer,
          seen, dead>>

Status == {"live", "expired", "no_session", "check_error"}
EmptyCache == [s \in Sessions |-> Never]
NoAnswer == [about |-> {}, status |-> "none", time |-> Never]

-----------------------------------------------------------------------------
(* The material of a session that is used: an Instagram profile; for       *)
(* TikTok the cookies of the account's folder, then the flat legacy file,  *)
(* then the profile.                                                       *)
InUse(s) ==
  CASE s \in TikTok /\ "cookies" \in stored[s] -> {"cookies"}
    [] s \in TikTok /\ "cookies" \notin stored[s] /\ "legacy" \in stored[s] ->
         {"legacy"}
    [] OTHER -> stored[s] \cap {"profile"}
Exists(s) == InUse(s) # {}
Welcome(s) == IF Exists(s) /\ InUse(s) \subseteq alive[s] THEN "live" ELSE "expired"

(* get_cached_check: an entry from the future is of no use.                *)
FreshMutant(ts) == ts # Never /\ now - ts <= Ttl
Fresh(ts) == ts # Never /\ ts <= now /\ now - ts <= Ttl
Cached(s) == Ttl > 0 /\ Fresh(cache[s])

(* record_check_result, on the cache that was read.                        *)
UpdatedMutant(c, s, v) ==
  IF v = "live" THEN [c EXCEPT ![s] = now] ELSE c
Updated(c, s, v) == [c EXCEPT ![s] = IF v = "live" THEN now ELSE Never]
-----------------------------------------------------------------------------
Init ==
  /\ stored \in [Sessions -> SUBSET Material]
  /\ \A s \in Instagram : stored[s] \subseteq {"profile"}
  /\ alive = stored
  /\ cache = EmptyCache /\ now = 1
  /\ at = [p \in Procs |-> "idle"]
  /\ about = [p \in Procs |-> {}]
  /\ looked = [p \in Procs |-> {}]
  /\ status = [p \in Procs |-> "none"]
  /\ copy = [p \in Procs |-> EmptyCache]
  /\ answer = NoAnswer
  /\ seen = [s \in Sessions |-> {}]
  /\ dead = {}

Answers(s, v) == answer' = [about |-> {s}, status |-> v, time |-> now]

Goes(p, point, s, v) ==
  /\ at' = [at EXCEPT ![p] = point]
  /\ about' = [about EXCEPT ![p] = s]
  /\ status' = [status EXCEPT ![p] = v]

(* check_session up to its first await: no session, answered from the      *)
(* cache, or on to the browser.  A saved session that is not to be checked *)
(* is answered with that, and no step.                                     *)
Start(p, s) ==
  /\ at[p] = "idle"
  /\ \/ /\ ~Exists(s)
        /\ Goes(p, "loading", {s}, "no_session")
        /\ UNCHANGED <<looked, answer>>
     \/ /\ Exists(s) /\ s \in Preflight /\ Cached(s)
        /\ Answers(s, "live")
        /\ UNCHANGED <<at, about, status, looked>>
     \/ /\ Exists(s) /\ s \in Preflight /\ ~Cached(s)
        /\ Goes(p, "probing", {s}, "none")
        /\ looked' = [looked EXCEPT ![p] = {Welcome(s)}]
        /\ UNCHANGED answer
  /\ UNCHANGED <<disk, cache, now, copy, seen, dead>>

(* _run_session_check under wait_for: the home page shows whether the      *)
(* material that was loaded, somewhere between the start and now, is       *)
(* accepted, or the check fails or runs out of time.                       *)
Verdicts(p, s) == looked[p] \cup {Welcome(s), "check_error"}

Probe(p) ==
  /\ at[p] = "probing"
  /\ \E s \in about[p] : \E v \in Verdicts(p, s) :
       /\ Goes(p, "loading", {s}, v)
       /\ seen' = IF v = "live" THEN [seen EXCEPT ![s] = @ \cup {now}] ELSE seen
  /\ UNCHANGED <<disk, cache, now, looked, copy, answer, dead>>

(* record_check_result: read, change, write a temporary file, replace.  It *)
(* is one piece of code for its process, and is read here in one moment    *)
(* and written in another for the sake of the other process.               *)
Load(p) ==
  /\ at[p] = "loading"
  /\ \E s \in about[p] :
       /\ copy' = [copy EXCEPT ![p] = Updated(cache, s, status[p])]
       /\ Goes(p, "writing", {s}, status[p])
       /\ dead' = IF status[p] = "live" THEN dead \ {s} ELSE dead
  /\ UNCHANGED <<disk, cache, now, looked, answer, seen>>

(* All processes use one temporary name: when two of them write at once,   *)
(* what is published may be the other's text or no readable text at all.   *)
Writers == {p \in Procs : at[p] = "writing"}
Published(p) ==
  {copy[p]}
    \cup (IF Writers # {p} THEN {copy[q] : q \in Writers} \cup {EmptyCache}
                           ELSE {})
    \cup (IF WritesFail \/ Writers # {p} THEN {cache} ELSE {})

Write(p) ==
  /\ at[p] = "writing"
  /\ cache' \in Published(p)
  /\ \E s \in about[p] : Answers(s, status[p])
  /\ dead' = IF status[p] # "live" /\ cache' = copy[p] /\ Writers = {p}
             THEN dead \cup about[p] ELSE dead
  /\ Goes(p, "idle", {}, "none")
  /\ looked' = [looked EXCEPT ![p] = {}]
  /\ copy' = [copy EXCEPT ![p] = EmptyCache]
  /\ UNCHANGED <<disk, now, seen>>
-----------------------------------------------------------------------------
(* Outside the two processes.                                              *)

(* The clock, which may also be set back.  It counts in parts of the TTL,  *)
(* hours next to which recording a verdict takes no time.                  *)
Clock ==
  /\ \A p \in Procs : at[p] \notin {"loading", "writing"}
  /\ now' \in Times
  /\ UNCHANGED <<disk, cache, check, answer, seen, dead>>

(* The platform stops accepting some material.                             *)
Expire(s, m) ==
  /\ m \in alive[s]
  /\ alive' = [alive EXCEPT ![s] = @ \ {m}]
  /\ UNCHANGED <<stored, cache, now, check, answer, seen, dead>>

(* `login' fills the profile; Enter keeps it, logged in or not, and `abort'*)
(* removes the account's folder only if the attempt created it.            *)
Folder(s) == stored[s] \cap {"profile", "cookies"}

Login(s, success) ==
  /\ \/ /\ stored' = [stored EXCEPT ![s] = @ \cup {"profile"}]
        /\ alive' = [alive EXCEPT ![s] = IF success THEN @ \cup {"profile"} ELSE @]
     \/ ~success /\ Folder(s) = {} /\ UNCHANGED disk
  /\ UNCHANGED <<cache, now, check, answer, seen, dead>>

(* `clear' removes the account's folder.                                   *)
Remains(s) == stored[s] \ {"profile", "cookies"}

Clear(s) ==
  /\ stored' = [stored EXCEPT ![s] = Remains(s)]
  /\ alive' = [alive EXCEPT ![s] = @ \cap Remains(s)]
  /\ UNCHANGED <<cache, now, check, answer, seen, dead>>

(* The maintainer saves an export of the cookies of a logged-in browser.   *)
ExportCookies(s) ==
  /\ s \in TikTok
  /\ stored' = [stored EXCEPT ![s] = @ \cup {"cookies"}]
  /\ alive' = [alive EXCEPT ![s] = @ \cup {"cookies"}]
  /\ UNCHANGED <<cache, now, check, answer, seen, dead>>

Next ==
  \/ \E p \in Procs :
       (\E s \in Sessions : Start(p, s)) \/ Probe(p) \/ Load(p) \/ Write(p)
  \/ Clock
  \/ \E s \in Sessions :
       \/ \E m \in Material : Expire(s, m)
       \/ \E success \in BOOLEAN : Login(s, success)
       \/ Clear(s) \/ ExportCookies(s)

Spec == Init /\ [][Next]_vars
-----------------------------------------------------------------------------
(* Whoever says "live" has a browser behind it that really found that      *)
(* session live within the TTL, whatever the processes overwrite of each   *)
(* other's cache (session_manager.py:155-194).                             *)
LiveIsBacked ==
  answer.status = "live" =>
    \A s \in answer.about :
      \E t \in seen[s] : t <= answer.time /\ answer.time - t <= Ttl

(* A session found dead, or not found out, is looked at again: nothing in  *)
(* the cache answers for it until a browser has found it live, though both *)
(* processes rewrite the whole cache - unless the eviction could not be    *)
(* written or the other process was recording a verdict at that moment     *)
(* (session_manager.py:175-194).                                           *)
DeadStaysOut == \A s \in dead : cache[s] = Never
=============================================================================
