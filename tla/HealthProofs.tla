----------------------------- MODULE HealthProofs -----------------------------
(***************************************************************************)
(* For every set of sessions, every number of processes and every TTL:     *)
(* whoever answers "live" has a browser behind it.  The cache may lose     *)
(* what another process wrote, but nothing gets into it, or into the copy  *)
(* a process is about to write, that no browser has seen.                  *)
(***************************************************************************)
EXTENDS SessionHealth, TLAPS

Backed(c) == \A s \in Sessions : c[s] = Never \/ c[s] \in seen[s]

Typed ==
  /\ cache \in [Sessions -> {Never} \cup Times] /\ now \in Times
  /\ about \in [Procs -> SUBSET Sessions]
  /\ at \in [Procs -> {"idle", "probing", "loading", "writing"}]
  /\ status \in [Procs -> Status \cup {"none"}]
  /\ copy \in [Procs -> [Sessions -> {Never} \cup Times]]
  /\ seen \in [Sessions -> SUBSET Times]

Evidence ==
  /\ Backed(cache)
  /\ \A p \in Procs : Backed(copy[p])
  /\ \A p \in Procs :
       at[p] \in {"loading", "writing"} /\ status[p] = "live" =>
         \A s \in about[p] : now \in seen[s]

Inv == Typed /\ Evidence /\ LiveIsBacked

(* The initial states.                                                     *)
LEMMA InitHolds == Init => Inv
<1>1. SUFFICES ASSUME Init PROVE Inv  OBVIOUS
<1>2. 1 \in Times  BY TimesAssumption DEF Times
<1>3. EmptyCache \in [Sessions -> {Never} \cup Times]  BY DEF EmptyCache
<1>4. Backed(EmptyCache)  BY DEF Backed, EmptyCache
<1>5. Typed  BY <1>1, <1>2, <1>3 DEF Init, Typed, Status
<1>6. Evidence  BY <1>1, <1>4 DEF Init, Evidence
<1>7. LiveIsBacked  BY <1>1 DEF Init, LiveIsBacked, NoAnswer
<1> QED  BY <1>5, <1>6, <1>7 DEF Inv

(* Steps that touch neither the checks nor the cache.                      *)
LEMMA QuietSteps ==
  ASSUME Inv, UNCHANGED <<cache, now, check, answer, seen>>
  PROVE  Inv'
BY DEF Inv, Typed, Evidence, Backed, LiveIsBacked, check

(* The clock moves only while no verdict is being recorded.                *)
LEMMA ClockStep ==
  ASSUME Inv, Clock
  PROVE  Inv'
<1>1. Typed'  BY DEF Inv, Typed, Clock, check
<1>2. Evidence'  BY DEF Inv, Evidence, Backed, Clock, check
<1>3. LiveIsBacked'  BY DEF Inv, LiveIsBacked, Clock, check
<1> QED  BY <1>1, <1>2, <1>3 DEF Inv

(* A check that starts answers "live" only from an entry that is fresh.    *)
LEMMA StartStep ==
  ASSUME Inv, NEW p \in Procs, NEW s \in Sessions, Start(p, s)
  PROVE  Inv'
<1>0. /\ UNCHANGED <<cache, now, copy, seen>>
      /\ \/ UNCHANGED <<at, about, status>>
         \/ Goes(p, "loading", {s}, "no_session")
         \/ Goes(p, "probing", {s}, "none")
  BY DEF Start
<1>1. Typed'
  <2>1. at' \in [Procs -> {"idle", "probing", "loading", "writing"}]
    BY <1>0 DEF Inv, Typed, Goes
  <2>2. about' \in [Procs -> SUBSET Sessions]
    BY <1>0 DEF Inv, Typed, Goes
  <2>3. status' \in [Procs -> Status \cup {"none"}]
    <3>1. {"no_session", "none"} \subseteq Status \cup {"none"}  BY DEF Status
    <3> QED  BY <1>0, <3>1 DEF Inv, Typed, Goes
  <2> QED  BY <1>0, <2>1, <2>2, <2>3 DEF Inv, Typed
<1>2. Evidence'
  BY <1>0 DEF Inv, Typed, Evidence, Backed, Goes
<1>3. LiveIsBacked'
  <2>1. CASE answer' = answer
    BY <2>1 DEF Inv, LiveIsBacked, Start
  <2>3. CASE Cached(s) /\ Answers(s, "live")
    <3>1. cache[s] \in seen[s]
      BY <2>3 DEF Inv, Evidence, Backed, Cached, Fresh
    <3>2. cache[s] <= now /\ now - cache[s] <= Ttl
      BY <2>3 DEF Cached, Fresh
    <3>3. answer' = [about |-> {s}, status |-> "live", time |-> now]
      BY <2>3 DEF Answers
    <3>4. seen' = seen  BY DEF Start
    <3> QED  BY <3>1, <3>2, <3>3, <3>4 DEF LiveIsBacked
  <2> QED  BY <2>1, <2>3 DEF Start
<1> QED  BY <1>1, <1>2, <1>3 DEF Inv

(* A browser that finds the session live is the evidence.                  *)
LEMMA ProbeStep ==
  ASSUME Inv, NEW p \in Procs, Probe(p), looked[p] \subseteq Status
  PROVE  Inv'
<1>0. PICK s \in about[p] : \E v \in Verdicts(p, s) :
        /\ Goes(p, "loading", {s}, v)
        /\ seen' = IF v = "live" THEN [seen EXCEPT ![s] = @ \cup {now}]
                                 ELSE seen
  BY Zenon DEF Probe
<1>1. PICK v \in Verdicts(p, s) :
        /\ Goes(p, "loading", {s}, v)
        /\ seen' = IF v = "live" THEN [seen EXCEPT ![s] = @ \cup {now}]
                                 ELSE seen
  BY <1>0
<1>2. s \in Sessions /\ v \in Status
  BY <1>1 DEF Inv, Typed, Verdicts, Welcome, Status
<1>3. \A q \in Sessions : seen[q] \subseteq seen'[q]
  BY <1>1, <1>2 DEF Inv, Typed
<1>4. Typed'
  BY <1>1, <1>2 DEF Inv, Typed, Probe, Goes, disk
<1>5. Evidence'
  <2>1. Backed(cache)' /\ \A q \in Procs : Backed(copy[q])'
    BY <1>3 DEF Inv, Evidence, Backed, Probe
  <2>2. ASSUME NEW q \in Procs, at'[q] \in {"loading", "writing"},
               status'[q] = "live", NEW r \in about'[q]
        PROVE  now' \in seen'[r]
    BY <1>1, <1>2, <1>3, <2>2 DEF Inv, Typed, Evidence, Probe, Goes
  <2> QED  BY <2>1, <2>2 DEF Evidence
<1>6. LiveIsBacked'
  BY <1>1, <1>2, <1>3 DEF Inv, Typed, LiveIsBacked, Probe
<1> QED  BY <1>4, <1>5, <1>6 DEF Inv

(* The copy gains what the browser saw, or loses the entry.                *)
LEMMA LoadStep ==
  ASSUME Inv, NEW p \in Procs, Load(p)
  PROVE  Inv'
<1>1. PICK s \in about[p] :
        /\ copy' = [copy EXCEPT ![p] = Updated(cache, s, status[p])]
        /\ Goes(p, "writing", {s}, status[p])
  BY DEF Load
<1>2. s \in Sessions  BY DEF Inv, Typed
<1>3. at[p] = "loading" /\ UNCHANGED <<disk, cache, now, answer, seen>>
  BY DEF Load
<1>4. Typed'
  BY <1>1, <1>2, <1>3 DEF Inv, Typed, Goes, Updated
<1>5. Backed(Updated(cache, s, status[p]))
  BY <1>2, <1>3 DEF Inv, Typed, Evidence, Backed, Updated
<1>6. Evidence'
  BY <1>1, <1>2, <1>3, <1>5 DEF Inv, Typed, Evidence, Backed, Goes
<1>7. LiveIsBacked'  BY <1>3 DEF Inv, LiveIsBacked
<1> QED  BY <1>4, <1>6, <1>7 DEF Inv

(* Whatever of the copies is published, browsers have seen it.             *)
LEMMA WriteStep ==
  ASSUME Inv, NEW p \in Procs, Write(p)
  PROVE  Inv'
<1>1. PICK s \in about[p] : Answers(s, status[p])
  BY DEF Write
<1>2. s \in Sessions  BY DEF Inv, Typed
<1>3. EmptyCache \in [Sessions -> {Never} \cup Times] /\ Backed(EmptyCache)
  BY DEF EmptyCache, Backed
<1>4. /\ at[p] = "writing" /\ Goes(p, "idle", {}, "none")
      /\ copy' = [copy EXCEPT ![p] = EmptyCache]
      /\ cache' \in Published(p)
      /\ UNCHANGED <<now, seen>>
  BY DEF Write
<1>5. cache' \in [Sessions -> {Never} \cup Times] /\ Backed(cache')
  BY <1>3, <1>4 DEF Inv, Typed, Evidence, Published, Writers
<1>6. Typed'
  BY <1>3, <1>4, <1>5 DEF Inv, Typed, Goes
<1>7. Evidence'
  BY <1>3, <1>4, <1>5 DEF Inv, Typed, Evidence, Backed, Goes
<1>8. LiveIsBacked'
  <2>1. answer' = [about |-> {s}, status |-> status[p], time |-> now]
    BY <1>1 DEF Answers
  <2>2. status[p] = "live" => now \in seen'[s]
    BY <1>1, <1>4 DEF Inv, Evidence
  <2>3. now <= now /\ now - now <= Ttl
    BY TimesAssumption DEF Inv, Typed, Times
  <2> QED  BY <2>1, <2>2, <2>3 DEF LiveIsBacked
<1> QED  BY <1>6, <1>7, <1>8 DEF Inv

(* What a browser set out with is live or expired.                         *)
Outlook == looked \in [Procs -> SUBSET {"live", "expired"}]

LEMMA OutlookKept == Init => Outlook
BY DEF Init, Outlook

LEMMA OutlookStep ==
  ASSUME Outlook, [Next]_vars
  PROVE  Outlook'
<1>1. ASSUME NEW p \in Procs, NEW s \in Sessions, Start(p, s)
      PROVE  Outlook'
  BY <1>1 DEF Outlook, Start, Welcome
<1>2. ASSUME NEW p \in Procs, Probe(p) \/ Load(p) \/ Write(p)
      PROVE  Outlook'
  BY <1>2 DEF Outlook, Probe, Load, Write
<1>3. CASE Clock \/ UNCHANGED vars
  BY <1>3 DEF Outlook, Clock, check, vars
<1>4. ASSUME NEW s \in Sessions,
             \/ \E m \in Material : Expire(s, m)
             \/ \E success \in BOOLEAN : Login(s, success)
             \/ Clear(s) \/ ExportCookies(s)
      PROVE  Outlook'
  BY <1>4 DEF Outlook, Expire, Login, Clear, ExportCookies, check
<1> QED  BY <1>1, <1>2, <1>3, <1>4 DEF Next

(* Every step keeps the invariant.                                         *)
LEMMA InvStep ==
  ASSUME Inv, Outlook, [Next]_vars
  PROVE  Inv'
<1>1. ASSUME NEW p \in Procs, NEW s \in Sessions, Start(p, s)
      PROVE  Inv'
  BY <1>1, StartStep
<1>2. ASSUME NEW p \in Procs, Probe(p) \/ Load(p) \/ Write(p)
      PROVE  Inv'
  <2>1. looked[p] \subseteq Status  BY DEF Outlook, Status
  <2> QED  BY <1>2, <2>1, ProbeStep, LoadStep, WriteStep
<1>3. CASE Clock  BY <1>3, ClockStep
<1>4. ASSUME NEW s \in Sessions,
             \/ \E m \in Material : Expire(s, m)
             \/ \E success \in BOOLEAN : Login(s, success)
             \/ Clear(s) \/ ExportCookies(s)
      PROVE  Inv'
  <2>1. UNCHANGED <<cache, now, check, answer, seen>>
    BY <1>4 DEF Expire, Login, Clear, ExportCookies
  <2> QED  BY <2>1, QuietSteps
<1>5. CASE UNCHANGED vars
  BY <1>5, QuietSteps DEF vars, check
<1> QED  BY <1>1, <1>2, <1>3, <1>4, <1>5 DEF Next

(* Whoever says "live" has a browser behind it that really found that      *)
(* session live within the TTL, however many processes rewrite the cache   *)
(* (session_manager.py:155-194).                                           *)
THEOREM LiveIsBackedCorrect == Spec => []LiveIsBacked
<1>1. Init => Inv /\ Outlook  BY InitHolds, OutlookKept
<1>2. Inv /\ Outlook /\ [Next]_vars => (Inv /\ Outlook)'
  BY InvStep, OutlookStep
<1>3. Inv => LiveIsBacked  BY DEF Inv
<1> QED  BY <1>1, <1>2, <1>3, PTL DEF Spec

-----------------------------------------------------------------------------
(* Why a session found dead stays out of the cache: when it is evicted by  *)
(* a process that records alone, no copy of the cache is left that could   *)
(* bring it back, and the copies made later are made without it.           *)
Evicted ==
  /\ dead \subseteq Sessions
  /\ DeadStaysOut
  /\ \A p \in Procs : at[p] # "writing" => copy[p] = EmptyCache
  /\ \A p \in Procs : at[p] = "writing" /\ status[p] # "live" =>
       \A s \in about[p] : copy[p][s] = Never
  /\ \A p \in Procs : \A s \in dead : copy[p][s] = Never

LEMMA EvictedInit == Init => Evicted
BY DEF Init, Evicted, DeadStaysOut, EmptyCache

(* Steps that do not touch what is recorded.                               *)
LEMMA EvictedQuiet ==
  ASSUME Evicted, UNCHANGED <<dead, cache, at, about, status, copy>>
  PROVE  Evicted'
BY DEF Evicted, DeadStaysOut

(* A check that starts, or hears from the browser, writes nothing yet.     *)
LEMMA EvictedGoes ==
  ASSUME Inv, Evicted, NEW p \in Procs, at[p] # "writing",
         NEW point, point # "writing", NEW S, NEW v, Goes(p, point, S, v),
         UNCHANGED <<dead, cache, copy>>
  PROVE  Evicted'
<1>1. \A q \in Procs : q # p => at'[q] = at[q] /\ about'[q] = about[q] /\ status'[q] = status[q]
  BY DEF Inv, Typed, Goes
<1>2. at'[p] = point  BY DEF Inv, Typed, Goes
<1> QED  BY <1>1, <1>2 DEF Evicted, DeadStaysOut

LEMMA EvictedLoad ==
  ASSUME Inv, Evicted, NEW p \in Procs, Load(p)
  PROVE  Evicted'
<1>1. PICK s \in about[p] :
        /\ copy' = [copy EXCEPT ![p] = Updated(cache, s, status[p])]
        /\ Goes(p, "writing", {s}, status[p])
        /\ dead' = IF status[p] = "live" THEN dead \ {s} ELSE dead
  BY DEF Load
<1>2. s \in Sessions /\ cache' = cache  BY DEF Inv, Typed, Load
<1>3. /\ \A q \in Procs : q # p => /\ at'[q] = at[q] /\ about'[q] = about[q]
                                 /\ status'[q] = status[q] /\ copy'[q] = copy[q]
      /\ at'[p] = "writing" /\ about'[p] = {s} /\ status'[p] = status[p]
      /\ copy'[p] = Updated(cache, s, status[p])
  BY <1>1 DEF Inv, Typed, Goes
<1>4. status[p] # "live" => Updated(cache, s, status[p])[s] = Never
  BY <1>2 DEF Inv, Typed, Updated
<1>5. \A r \in dead' : Updated(cache, s, status[p])[r] = Never
  BY <1>1, <1>2 DEF Inv, Typed, Evicted, DeadStaysOut, Updated
<1>6. dead' \subseteq dead  BY <1>1
<1> QED  BY <1>2, <1>3, <1>4, <1>5, <1>6 DEF Evicted, DeadStaysOut

LEMMA EvictedWrite ==
  ASSUME Inv, Evicted, NEW p \in Procs, Write(p)
  PROVE  Evicted'
<1>1. /\ at[p] = "writing" /\ Goes(p, "idle", {}, "none")
      /\ copy' = [copy EXCEPT ![p] = EmptyCache]
      /\ cache' \in Published(p)
      /\ dead' = IF status[p] # "live" /\ cache' = copy[p] /\ Writers = {p}
                 THEN dead \cup about[p] ELSE dead
  BY DEF Write
<1>2. /\ \A q \in Procs : q # p => /\ at'[q] = at[q] /\ about'[q] = about[q]
                                 /\ status'[q] = status[q] /\ copy'[q] = copy[q]
      /\ at'[p] = "idle" /\ copy'[p] = EmptyCache
  BY <1>1 DEF Inv, Typed, Goes
<1>3. dead' \subseteq Sessions  BY <1>1 DEF Inv, Typed, Evicted
<1>4. \A r \in dead : cache'[r] = Never
  BY <1>1 DEF Published, Writers, Evicted, DeadStaysOut, EmptyCache
<1>5. \A r \in dead' : cache'[r] = Never
  BY <1>1, <1>4 DEF Evicted
<1>6. \A q \in Procs : \A r \in dead' : copy'[q][r] = Never
  <2> SUFFICES ASSUME NEW q \in Procs, NEW r \in dead' PROVE copy'[q][r] = Never
    OBVIOUS
  <2>1. CASE q = p  BY <2>1, <1>2, <1>3 DEF EmptyCache
  <2>2. CASE q # p /\ r \in dead  BY <2>2, <1>2 DEF Evicted
  <2>3. CASE q # p /\ r \notin dead
    <3>1. Writers = {p}  BY <2>3, <1>1
    <3>2. copy[q] = EmptyCache  BY <2>3, <3>1 DEF Writers, Evicted
    <3> QED  BY <2>3, <3>2, <1>2, <1>3 DEF EmptyCache
  <2> QED  BY <2>1, <2>2, <2>3
<1> QED  BY <1>2, <1>3, <1>5, <1>6 DEF Evicted, DeadStaysOut

LEMMA EvictedStep ==
  ASSUME Inv, Evicted, [Next]_vars
  PROVE  Evicted'
<1>1. ASSUME NEW p \in Procs, NEW s \in Sessions, Start(p, s)
      PROVE  Evicted'
  <2>1. at[p] # "writing" /\ UNCHANGED <<dead, cache, copy>>
    BY <1>1 DEF Start
  <2>2. CASE Goes(p, "loading", {s}, "no_session")
    BY <2>1, <2>2, EvictedGoes
  <2>3. CASE UNCHANGED <<at, about, status>>
    BY <2>1, <2>3, EvictedQuiet
  <2>4. CASE Goes(p, "probing", {s}, "none")
    BY <2>1, <2>4, EvictedGoes
  <2> QED  BY <1>1, <2>2, <2>3, <2>4 DEF Start
<1>2. ASSUME NEW p \in Procs, Probe(p)
      PROVE  Evicted'
  <2>1. PICK s \in about[p], v \in UNION {Verdicts(p, r) : r \in about[p]} :
          Goes(p, "loading", {s}, v)
    BY <1>2 DEF Probe
  <2>2. at[p] # "writing" /\ UNCHANGED <<dead, cache, copy>>
    BY <1>2 DEF Probe, disk
  <2> QED  BY <2>1, <2>2, EvictedGoes
<1>3. ASSUME NEW p \in Procs, Load(p) PROVE Evicted'
  BY <1>3, EvictedLoad
<1>4. ASSUME NEW p \in Procs, Write(p) PROVE Evicted'
  BY <1>4, EvictedWrite
<1>5. CASE Clock  BY <1>5, EvictedQuiet DEF Clock, check
<1>6. ASSUME NEW s \in Sessions,
             \/ \E m \in Material : Expire(s, m)
             \/ \E success \in BOOLEAN : Login(s, success)
             \/ Clear(s) \/ ExportCookies(s)
      PROVE  Evicted'
  <2>1. UNCHANGED <<dead, cache, at, about, status, copy>>
    BY <1>6 DEF Expire, Login, Clear, ExportCookies, check
  <2> QED  BY <2>1, EvictedQuiet
<1>7. CASE UNCHANGED vars  BY <1>7, EvictedQuiet DEF vars
<1> QED  BY <1>1, <1>2, <1>3, <1>4, <1>5, <1>6, <1>7 DEF Next

(* A session found dead stays out of the cache until it is found live, for *)
(* any number of processes and sessions that share the file, if its        *)
(* eviction was written by a process that recorded alone                   *)
(* (session_manager.py:175-194).                                           *)
THEOREM DeadStaysOutCorrect == Spec => []DeadStaysOut
<1>1. Init => Inv /\ Outlook /\ Evicted
  BY InitHolds, OutlookKept, EvictedInit
<1>2. Inv /\ Outlook /\ Evicted /\ [Next]_vars => (Inv /\ Outlook /\ Evicted)'
  BY InvStep, OutlookStep, EvictedStep
<1>3. Evicted => DeadStaysOut  BY DEF Evicted
<1> QED  BY <1>1, <1>2, <1>3, PTL DEF Spec
=============================================================================
