-------------------------- MODULE PostingRunProofs --------------------------
(***************************************************************************)
(* For any accounts and any requests: nothing is posted twice in a run, no *)
(* media is cleared away under a manual run, what is left out stays out,   *)
(* and the media of a batch are let go only when all was posted; every     *)
(* account of a batch has one row in history, of the kinds the scheduler   *)
(* supposes; and the page, the phone and history tell the same of a run.   *)
(***************************************************************************)
EXTENDS PostingRunProperties, SequenceTheorems, FiniteSetTheorems, TLAPS

(* The accounts to come are distinct, and there is one while the run is    *)
(* about an account.                                                       *)
ControlInv ==
  /\ todo \in Seq(Accounts) /\ Distinct(todo)
  /\ at \in {"look", "turn", "posting", "notify", "gap"} => todo # <<>>
  /\ at \in {"turn", "posting"} => turn \in Platforms
  /\ at = "idle" => out = {}
  /\ out \subseteq Pairs

(* Posts were handed over for the accounts that are done, and for the      *)
(* present one for the platforms that are done or under way.               *)
Past(a, p) ==
  CASE at \in {"look", "gap"} -> a \notin Named(todo)
    [] at = "turn" ->
         /\ a \notin Named(Tail(todo))
         /\ a = Present => p = "instagram" /\ turn = "tiktok"
    [] at = "posting" ->
         /\ a \notin Named(Tail(todo))
         /\ a = Present => (p = "instagram" /\ turn = "tiktok") \/ (p = turn /\ handed # {})
    [] at = "notify" -> a \notin Named(Tail(todo))
    [] OTHER -> TRUE
OutInv == \A a \in Accounts, p \in Platforms : <<a, p>> \in out => Past(a, p)

RunInv == ControlInv /\ OutInv
-----------------------------------------------------------------------------
(* A sequence of distinct accounts is its first one and others.            *)
LEMMA HeadApart ==
  ASSUME NEW s \in Seq(Accounts), Distinct(s), s # <<>>
  PROVE  /\ Head(s) \in Accounts
         /\ Tail(s) \in Seq(Accounts)
         /\ Distinct(Tail(s))
         /\ Head(s) \notin Named(Tail(s))
         /\ Named(Tail(s)) \subseteq Named(s)
         /\ Named(s) = {Head(s)} \cup Named(Tail(s))
<1>1. /\ Len(s) \in Nat /\ Len(s) # 0 /\ DOMAIN s = 1..Len(s)
      /\ \A i \in 1..Len(s) : s[i] \in Accounts
  BY LenProperties, EmptySeq, ElementOfSeq
<1>2. /\ Head(s) = s[1] /\ Tail(s) \in Seq(Accounts)
      /\ Len(Tail(s)) = Len(s) - 1
      /\ \A i \in 1..Len(Tail(s)) : Tail(s)[i] = s[i + 1]
  BY HeadTailProperties
<1>3. DOMAIN Tail(s) = 1..(Len(s) - 1)
  BY <1>2, LenProperties
<1>4. Head(s) \in Accounts
  BY <1>1, <1>2
<1>5. Distinct(Tail(s))
  BY <1>1, <1>2, <1>3 DEF Distinct
<1>6. Head(s) \notin Named(Tail(s))
  BY <1>1, <1>2, <1>3 DEF Distinct, Named
<1>7. Named(Tail(s)) \subseteq Named(s)
  BY <1>1, <1>2, <1>3 DEF Named
<1>8. Named(s) \subseteq {Head(s)} \cup Named(Tail(s))
  <2> SUFFICES ASSUME NEW i \in 1..Len(s), i # 1
               PROVE  s[i] \in Named(Tail(s))
    BY <1>1, <1>2 DEF Named
  <2>1. i - 1 \in 1..(Len(s) - 1) /\ Tail(s)[i - 1] = s[i]
    BY <1>1, <1>2
  <2> QED
    BY <2>1, <1>3 DEF Named
<1>9. Head(s) \in Named(s)
  BY <1>1, <1>2 DEF Named
<1> QED
  BY <1>2, <1>4, <1>5, <1>6, <1>7, <1>8, <1>9

(* The accounts that take part in a batch are distinct ones of it.         *)
LEMMA ProceedingSound ==
  ASSUME NEW order \in Seq(Accounts), NEW excluded, NEW s \in Proceeding(order, excluded)
  PROVE  s \in Seq(Accounts) /\ Distinct(s)
<1>1. PICK n \in 0..Len(order) : s \in [1..n -> Named(order)]
  BY DEF Proceeding
<1>2. n \in Nat
  BY LenProperties
<1>3. Named(order) \subseteq Accounts
  BY ElementOfSeq, LenProperties DEF Named
<1>4. s \in [1..n -> Accounts]
  BY <1>1, <1>3
<1> QED
  BY <1>2, <1>4, IsASeq DEF Proceeding
-----------------------------------------------------------------------------
LEMMA RunInit == Init => RunInv
BY EmptySeq DEF Init, RunInv, ControlInv, OutInv, Past, Distinct, Pairs

(* Steps that leave the run and the attempt alone.                         *)
LEMMA AsideKeeps ==
  ASSUME RunInv, UNCHANGED <<run, attempt, out>>
  PROVE  RunInv'
BY DEF RunInv, ControlInv, OutInv, Past, run, attempt, Present, Named, Distinct, Pairs

LEMMA StartKeeps ==
  ASSUME RunInv, NEW order \in Orders, NEW en \in Choices(order),
         \/ PostAll(order, en)
         \/ \E ro \in Rulings(order) : PostBatch(order, en, ro)
  PROVE  RunInv'
<1>1. order \in Seq(Accounts) /\ at = "idle" /\ out = {} /\ out' = {}
  BY OrdersAssumption DEF RunInv, ControlInv, PostAll, PostBatch
<1>2. todo' \in Seq(Accounts) /\ Distinct(todo')
  BY <1>1, ProceedingSound DEF PostAll, PostBatch
<1>3. at' \in {"record", "look"} /\ (at' = "look" => todo' # <<>>)
  BY DEF PostAll, PostBatch
<1> QED
  BY <1>1, <1>2, <1>3 DEF RunInv, ControlInv, OutInv, Distinct

LEMMA RunStepKeeps == RunInv /\ [Next]_vars => RunInv'
<1> SUFFICES ASSUME RunInv, [Next]_vars PROVE RunInv'
  OBVIOUS
<1> USE DEF RunInv, Platforms
<1>a. at \in {"look", "turn", "posting", "notify", "gap"} =>
        /\ Present \in Accounts /\ Present \notin Named(Tail(todo))
        /\ Tail(todo) \in Seq(Accounts) /\ Distinct(Tail(todo))
        /\ Named(todo) = {Present} \cup Named(Tail(todo))
  BY HeadApart DEF ControlInv, Present
<1>1. ASSUME \/ \E a \in Accounts : UploadMedia(a)
             \/ ClearMedia \/ RefusedPost \/ UNCHANGED vars
      PROVE  RunInv'
  BY <1>1, AsideKeeps DEF UploadMedia, ClearMedia, RefusedPost, vars
<1>2. ASSUME NEW order \in Orders, NEW en \in Choices(order),
             \/ PostAll(order, en)
             \/ \E ro \in Rulings(order) : PostBatch(order, en, ro)
      PROVE  RunInv'
  BY <1>2, StartKeeps
<1>3. CASE LookUp
  <2>1. ControlInv'
    BY <1>3 DEF LookUp, ControlInv, Distinct, Pairs
  <2>2. OutInv'
    BY <1>3, <1>a DEF LookUp, OutInv, Past, Present, Named
  <2> QED BY <2>1, <2>2
<1>4. CASE TakeTurn
  <2>1. /\ at = "turn" /\ turn \in {"instagram", "tiktok"}
        /\ UNCHANGED <<todo, out>>
    BY <1>4 DEF TakeTurn, ControlInv
  <2>2. \/ at' = "turn" /\ turn = "instagram" /\ turn' = "tiktok"
        \/ at' = "notify"
        \/ at' = "posting" /\ turn' = turn
    BY <1>4, <2>1 DEF TakeTurn, LeaveOut, Advance
  <2>3. ControlInv'
    BY <2>1, <2>2 DEF ControlInv, Distinct, Pairs
  <2>4. OutInv'
    BY <2>1, <2>2 DEF OutInv, Past, Present, Named
  <2> QED BY <2>3, <2>4
<1>5. CASE HandOver
  <2>1. /\ at = "posting" /\ at' = at /\ turn' = turn /\ UNCHANGED todo
        /\ handed' # {} /\ out' = out \cup {<<Present, turn>>}
    BY <1>5 DEF HandOver, Attempt!Submit, run
  <2>2. ControlInv'
    BY <1>a, <2>1 DEF ControlInv, Distinct, Pairs
  <2>3. OutInv'
    BY <1>a, <2>1 DEF OutInv, Past, Present, Named
  <2> QED BY <2>2, <2>3
<1>6. CASE Answer
  <2>1. UNCHANGED <<run, handed, out>>
    BY <1>6 DEF Answer, Attempt!Tell
  <2>2. ControlInv'
    BY <2>1 DEF ControlInv, run, Distinct, Pairs
  <2>3. OutInv'
    BY <2>1 DEF OutInv, run, Past, Present, Named
  <2> QED BY <2>2, <2>3
<1>7. CASE Returned
  <2>1. /\ at = "posting" /\ turn \in {"instagram", "tiktok"}
        /\ UNCHANGED <<todo, out>>
    BY <1>7 DEF Returned, ControlInv
  <2>2. \/ at' = "turn" /\ turn = "instagram" /\ turn' = "tiktok"
        \/ at' = "notify"
    BY <1>7, <2>1 DEF Returned, Advance
  <2>3. ControlInv'
    BY <2>1, <2>2 DEF ControlInv, Distinct, Pairs
  <2>4. OutInv'
    BY <2>1, <2>2 DEF OutInv, Past, Present, Named
  <2> QED BY <2>3, <2>4
<1>8. CASE NotifySlot
  <2>1. /\ at = "notify" /\ todo' = Tail(todo) /\ UNCHANGED out
        /\ at' \in {"summary", "gap", "look"}
        /\ at' # "summary" => todo' # <<>>
    BY <1>8, SettingsAssumption DEF NotifySlot
  <2>2. ControlInv'
    BY <1>a, <2>1 DEF ControlInv, Distinct, Pairs
  <2>3. OutInv'
    BY <1>a, <2>1 DEF OutInv, Past, Named
  <2> QED BY <2>2, <2>3
<1>9. CASE EndGap
  <2>1. ControlInv'
    BY <1>9 DEF EndGap, ControlInv, Distinct, Pairs
  <2>2. OutInv'
    BY <1>9 DEF EndGap, OutInv, Past, Named
  <2> QED BY <2>1, <2>2
<1>10. ASSUME Summarise \/ Record \/ Escape PROVE RunInv'
  <2>1. UNCHANGED <<todo, out>> /\ at' \in {"record", "over", "unrecorded"}
    BY <1>10 DEF Summarise, Record, Escape
  <2>2. ControlInv'
    BY <2>1 DEF ControlInv, Distinct, Pairs
  <2>3. OutInv'
    BY <2>1 DEF OutInv, Past
  <2> QED BY <2>2, <2>3
<1> QED
  BY <1>1, <1>2, <1>3, <1>4, <1>5, <1>6, <1>7, <1>8, <1>9, <1>10 DEF Next, RunStep
-----------------------------------------------------------------------------
(* post_slot: each platform of each account of a run is handed one post at *)
(* most, even when its attempt fails and whatever order is asked for.      *)
THEOREM PostedOnceCorrect == Spec => PostedOnce
<1> DEFINE Once ==
      \A pair \in Pairs :
        handed' # handed /\ handed' # {} /\ pair = <<Present, turn>> => pair \notin out
<1>1. RunInv /\ [Next]_vars => [Once]_vars
  <2> SUFFICES ASSUME RunInv, [Next]_vars, handed' # handed, handed' # {},
                      <<Present, turn>> \in Pairs, <<Present, turn>> \in out
               PROVE  FALSE
    OBVIOUS
  <2>1. HandOver
    BY DEF Next, RunStep, vars, attempt, UploadMedia, ClearMedia, RefusedPost,
           PostAll, PostBatch, LookUp, TakeTurn, Answer, Returned, NotifySlot,
           EndGap, Summarise, Record, Escape, Attempt!Tell
  <2>2. at = "posting" /\ handed = {}
    BY <2>1 DEF HandOver, Attempt!Submit
  <2> QED
    BY <2>2 DEF RunInv, OutInv, Past, Pairs
<1> QED
  BY RunInit, RunStepKeeps, <1>1, PTL DEF Spec, PostedOnce

(* clear_media: while a manual run has accounts to post for, their files   *)
(* stay.                                                                   *)
THEOREM RunKeepsMediaCorrect == Spec => []RunKeepsMedia
<1>1. Init => RunKeepsMedia
  BY DEF Init, RunKeepsMedia, Running
<1>2. RunInv /\ RunKeepsMedia /\ [Next]_vars => RunKeepsMedia'
  <2> SUFFICES ASSUME RunInv, RunKeepsMedia, [Next]_vars, kind' = "manual", Running'
               PROVE  Named(todo)' \subseteq media'
    BY DEF RunKeepsMedia
  <2>1. ASSUME NEW a \in Accounts, UploadMedia(a) PROVE Named(todo)' \subseteq media'
    BY <2>1 DEF UploadMedia, run, RunKeepsMedia, Running, Ended, Named
  <2>2. CASE ClearMedia \/ RefusedPost
    BY <2>2 DEF ClearMedia, MayClear, RefusedPost, run, Running, Ended
  <2>3. ASSUME NEW order \in Orders, NEW en \in Choices(order),
               \/ PostAll(order, en)
               \/ \E ro \in Rulings(order) : PostBatch(order, en, ro)
        PROVE  Named(todo)' \subseteq media'
    BY <2>3 DEF PostAll, PostBatch, Named
  <2>4. CASE NotifySlot
    <3>1. Named(Tail(todo)) \subseteq Named(todo)
      BY <2>4, HeadApart DEF NotifySlot, RunInv, ControlInv
    <3>2. at = "notify" /\ todo' = Tail(todo) /\ media' = media /\ kind' = kind
      BY <2>4 DEF NotifySlot
    <3> QED
      BY <3>1, <3>2 DEF RunKeepsMedia, Running, Ended, Named
  <2>5. ASSUME \/ LookUp \/ TakeTurn \/ HandOver \/ Answer \/ Returned
               \/ EndGap \/ Summarise \/ Record \/ Escape
        PROVE  Named(todo)' \subseteq media'
    <3>1. Running /\ UNCHANGED <<kind, todo, media>>
      BY <2>5 DEF LookUp, TakeTurn, HandOver, Answer, Returned, EndGap, Summarise,
                  Record, Escape, run, Running, Ended
    <3> QED
      BY <3>1 DEF RunKeepsMedia, Running, Ended, Named
  <2>6. CASE UNCHANGED vars
    BY <2>6 DEF vars, run, RunKeepsMedia, Running, Ended, Named
  <2> QED
    BY <2>1, <2>2, <2>3, <2>4, <2>5, <2>6 DEF Next, RunStep
<1> QED
  BY RunInit, RunStepKeeps, <1>1, <1>2, PTL DEF Spec
-----------------------------------------------------------------------------
(* How a platform is dealt with in the result of an account: switched off, *)
(* ruled out, without a session or failed, or posted to.                   *)
IsResult(r) ==
  /\ r = [slot |-> r.slot, ids |-> r.ids, errors |-> r.errors]
  /\ r.ids = [p \in Platforms |-> r.ids[p]]

Handled(r, p) ==
  LET a == r.slot IN
  \/ /\ p \notin enabled[a] /\ r.ids[p] = ""
     /\ ErrorsOf(r, p) = {Error(p, "disabled")}
  \/ /\ p \in enabled[a] /\ p \in ruledOut[a] /\ r.ids[p] = ""
     /\ ErrorsOf(r, p) = {Error(p, "preflight")}
  \/ /\ p \in enabled[a] /\ p \notin ruledOut[a] /\ r.ids[p] = ""
     /\ \E k \in {"no_session", "real"} : ErrorsOf(r, p) = {Error(p, k)}
  \/ /\ p \in enabled[a] /\ p \notin ruledOut[a]
     /\ ErrorsOf(r, p) = {} /\ r.ids[p] \in {"ok", "unconfirmed"}

(* The results are complete; the present one is, up to the present turn.   *)
Whole(r) == IsResult(r) /\ \A p \in Platforms : Handled(r, p)
InTurn ==
  /\ IsResult(result) /\ result.slot = Present
  /\ turn \in Platforms /\ ErrorsOf(result, turn) = {} /\ result.ids[turn] = ""
  /\ turn = "instagram" => ErrorsOf(result, "tiktok") = {} /\ result.ids["tiktok"] = ""
  /\ turn = "tiktok" => Handled(result, "instagram")

ResultInv ==
  /\ \A a \in Accounts : enabled[a] \subseteq Platforms
  /\ at = "idle" => results = {}
  /\ verdict \in {"none", "confirmed", "unconfirmed", "failed"}
  /\ \A r \in results : Whole(r)
  /\ at \in {"turn", "posting"} => InTurn
  /\ at = "posting" => turn \in enabled[Present] /\ turn \notin ruledOut[Present]
  /\ at = "notify" => Whole(result) /\ result.slot = Present

(* A post is handed over where it was wanted, and the media of a batch are *)
(* let go with all results recorded.                                       *)
WantedInv ==
  \A a \in Accounts, p \in Platforms :
    <<a, p>> \in out => p \in enabled[a] /\ p \notin ruledOut[a]
LetGoInv ==
  ~snapshot => Ended /\ rows = results /\ \A r \in results : Success(r)

StoryInv == ResultInv /\ WantedInv /\ LetGoInv

LEMMA StoryInit == Init => StoryInv
BY DEF Init, StoryInv, ResultInv, WantedInv, LetGoInv

(* An error more concerns its own platform only, and so does an id.        *)
LEMMA OneErrorMore ==
  ASSUME NEW r, IsResult(r), NEW q \in Platforms, NEW k,
         NEW t, t = [r EXCEPT !.errors = @ \cup {Error(q, k)}]
  PROVE  /\ IsResult(t) /\ t.slot = r.slot /\ t.ids = r.ids
         /\ ErrorsOf(t, q) = ErrorsOf(r, q) \cup {Error(q, k)}
         /\ \A p \in Platforms \ {q} : ErrorsOf(t, p) = ErrorsOf(r, p)
<1>1. t = [slot |-> r.slot, ids |-> r.ids, errors |-> r.errors \cup {Error(q, k)}]
  BY DEF IsResult
<1>2. Error(q, k).platform = q
  BY DEF Error
<1> QED BY <1>1, <1>2 DEF IsResult, ErrorsOf

LEMMA OneIdMore ==
  ASSUME NEW r, IsResult(r), NEW q \in Platforms, NEW v,
         NEW t, t = [r EXCEPT !.ids[q] = v]
  PROVE  /\ IsResult(t) /\ t.slot = r.slot /\ t.ids[q] = v
         /\ \A p \in Platforms \ {q} : t.ids[p] = r.ids[p]
         /\ \A p \in Platforms : ErrorsOf(t, p) = ErrorsOf(r, p)
<1>1. t = [slot |-> r.slot, ids |-> [r.ids EXCEPT ![q] = v], errors |-> r.errors]
  BY DEF IsResult
<1> QED BY <1>1 DEF IsResult, ErrorsOf

(* The end of a turn: the present platform has been dealt with, the other  *)
(* one was before or is next.                                              *)
LEMMA TurnEnds ==
  ASSUME NEW q \in Platforms, turn = q, InTurn, Advance,
         IsResult(result)', result'.slot = result.slot, Handled(result, q)',
         UNCHANGED <<todo, enabled, ruledOut>>,
         \A p \in Platforms \ {q} :
           ErrorsOf(result', p) = ErrorsOf(result, p) /\ result'.ids[p] = result.ids[p]
  PROVE  /\ at' \in {"turn", "notify"}
         /\ at' = "turn" => InTurn'
         /\ at' = "notify" => (Whole(result) /\ result.slot = Present)'
<1>1. q \in {"instagram", "tiktok"} /\ Platforms = {"instagram", "tiktok"}
  BY DEF Platforms
<1>2. (result.slot = Present)'
  BY DEF InTurn, Present
<1>3. CASE q = "instagram"
  <2>1. at' = "turn" /\ turn' = "tiktok"
    BY <1>3 DEF Advance
  <2>2. ErrorsOf(result', "tiktok") = {} /\ result'.ids["tiktok"] = ""
    BY <1>1, <1>3 DEF InTurn
  <2> QED
    BY <1>1, <1>2, <1>3, <2>1, <2>2 DEF InTurn
<1>4. CASE q = "tiktok"
  <2>1. at' = "notify"
    BY <1>4 DEF Advance
  <2>2. /\ Handled(result, "instagram")
        /\ ErrorsOf(result', "instagram") = ErrorsOf(result, "instagram")
        /\ result'.ids["instagram"] = result.ids["instagram"]
    BY <1>1, <1>4 DEF InTurn
  <2>3. Handled(result, "instagram")'
    BY <2>2 DEF Handled
  <2> QED
    BY <1>1, <1>2, <1>4, <2>1, <2>3 DEF Whole
<1> QED BY <1>1, <1>3, <1>4
-----------------------------------------------------------------------------
LEMMA StoryAside ==
  ASSUME StoryInv, UNCHANGED <<run, verdict, rows, snapshot, out>>
  PROVE  StoryInv'
<1> USE DEF run, Present
<1>1. ResultInv'
  BY DEF StoryInv, ResultInv, InTurn, Whole, Handled, IsResult
<1>2. WantedInv'
  BY DEF StoryInv, WantedInv
<1>3. LetGoInv'
  BY DEF StoryInv, LetGoInv, Ended
<1> QED BY <1>1, <1>2, <1>3 DEF StoryInv

(* What the batch is told of the accounts that do not take part.           *)
LEMMA ExcludedWhole ==
  ASSUME NEW order, NEW en, NEW ro, PostBatch(order, en, ro), NEW r \in results'
  PROVE  Whole(r)'
<1>1. PICK a \in Excluded(order, en, ro) :
        r = [Fresh(a) EXCEPT !.errors = PreflightErrors(a, en, ro)]
  BY DEF PostBatch
<1>2. /\ r = [slot |-> a, ids |-> NoIds, errors |-> PreflightErrors(a, en, ro)]
      /\ ro[a] = en[a] /\ enabled' = en /\ ruledOut' = ro
  BY <1>1 DEF Fresh, Excluded, PostBatch
<1>3. IsResult(r)
  BY <1>2 DEF IsResult, NoIds
<1>4. ASSUME NEW p \in Platforms PROVE Handled(r, p)'
  <2>1. \A q, k : Error(q, k).platform = q
    BY DEF Error
  <2>2. CASE p \in en[a]
    <3>1. ErrorsOf(r, p) = {Error(p, "preflight")}
      BY <1>2, <2>1, <2>2 DEF ErrorsOf, PreflightErrors
    <3> QED BY <1>2, <2>2, <3>1 DEF Handled, NoIds
  <2>3. CASE p \notin en[a]
    <3>1. ErrorsOf(r, p) = {Error(p, "disabled")}
      BY <1>2, <2>1, <2>3 DEF ErrorsOf, PreflightErrors
    <3> QED BY <1>2, <2>3, <3>1 DEF Handled, NoIds
  <2> QED BY <2>2, <2>3
<1> QED BY <1>3, <1>4 DEF Whole, IsResult

LEMMA StoryStart ==
  ASSUME RunInv, StoryInv, NEW order, NEW en \in Choices(order),
         PostAll(order, en) \/ \E ro : PostBatch(order, en, ro)
  PROVE  StoryInv'
<1>1. /\ at = "idle" /\ at' \in {"record", "look"} /\ results = {}
      /\ out' = {} /\ snapshot' = snapshot /\ verdict' = verdict
  BY DEF PostAll, PostBatch, RunInv, ControlInv, StoryInv, ResultInv, attempt, records
<1>2. \A r \in results' : Whole(r)'
  BY <1>1, ExcludedWhole DEF PostAll
<1>3. ResultInv'
  BY <1>1, <1>2 DEF StoryInv, ResultInv, Choices, PostAll, PostBatch
<1>4. WantedInv' /\ LetGoInv'
  BY <1>1 DEF WantedInv, LetGoInv, StoryInv, Ended
<1> QED BY <1>3, <1>4 DEF StoryInv

(* A turn that ends without a post, or with one.                           *)
LEMMA LeaveOutEnds ==
  ASSUME NEW k, InTurn, LeaveOut(k), UNCHANGED <<todo, enabled, ruledOut>>,
         \/ k = "disabled" /\ turn \notin enabled[Present]
         \/ k = "preflight" /\ turn \in enabled[Present] \cap ruledOut[Present]
         \/ k \in {"no_session", "real"} /\ turn \in enabled[Present] \ ruledOut[Present]
  PROVE  /\ at' \in {"turn", "notify"}
         /\ at' = "turn" => InTurn'
         /\ at' = "notify" => (Whole(result) /\ result.slot = Present)'
<1>1. PICK q \in Platforms : turn = q
  BY DEF InTurn
<1>2. /\ IsResult(result) /\ Advance /\ ErrorsOf(result, q) = {}
      /\ result' = [result EXCEPT !.errors = @ \cup {Error(q, k)}]
  BY <1>1 DEF InTurn, LeaveOut
<1>a. result.ids[q] = ""
  BY <1>1 DEF InTurn
<1>3. /\ IsResult(result') /\ result'.slot = result.slot /\ result'.ids = result.ids
      /\ ErrorsOf(result', q) = {Error(q, k)}
      /\ \A p \in Platforms \ {q} : ErrorsOf(result', p) = ErrorsOf(result, p)
  BY <1>2, OneErrorMore
<1>4. Handled(result, q)'
  BY <1>1, <1>3, <1>a DEF Handled, InTurn
<1> QED BY <1>1, <1>2, <1>3, <1>4, TurnEnds DEF IsResult

LEMMA PostEnds ==
  ASSUME StoryInv, Returned
  PROVE  /\ at' \in {"turn", "notify"}
         /\ at' = "turn" => InTurn'
         /\ at' = "notify" => (Whole(result) /\ result.slot = Present)'
<1>1. /\ at = "posting" /\ InTurn /\ Advance /\ UNCHANGED <<todo, enabled, ruledOut>>
      /\ turn \in enabled[Present] /\ turn \notin ruledOut[Present]
      /\ verdict \in {"confirmed", "unconfirmed", "failed"}
  BY DEF StoryInv, ResultInv, Returned
<1>2. PICK q \in Platforms : turn = q
  BY <1>1 DEF InTurn
<1>3. IsResult(result) /\ ErrorsOf(result, q) = {} /\ result.slot = Present
  BY <1>1, <1>2 DEF InTurn
<1>a. result.ids[q] = ""
  BY <1>1, <1>2 DEF InTurn
<1>4. CASE verdict = "failed"
  <2>1. result' = [result EXCEPT !.errors = @ \cup {Error(q, "real")}]
    BY <1>2, <1>4 DEF Returned
  <2>2. /\ IsResult(result') /\ result'.slot = result.slot /\ result'.ids = result.ids
        /\ ErrorsOf(result', q) = {Error(q, "real")}
        /\ \A p \in Platforms \ {q} : ErrorsOf(result', p) = ErrorsOf(result, p)
    BY <1>3, <2>1, OneErrorMore
  <2>3. Handled(result, q)'
    BY <1>1, <1>2, <1>3, <1>a, <2>2 DEF Handled
  <2> QED BY <1>1, <1>2, <2>2, <2>3, TurnEnds DEF IsResult
<1>5. CASE verdict \in {"confirmed", "unconfirmed"}
  <2>1. PICK v \in {"ok", "unconfirmed"} : result' = [result EXCEPT !.ids[q] = v]
    BY <1>2, <1>5 DEF Returned
  <2>2. /\ IsResult(result') /\ result'.slot = result.slot /\ result'.ids[q] = v
        /\ \A p \in Platforms \ {q} : result'.ids[p] = result.ids[p]
        /\ \A p \in Platforms : ErrorsOf(result', p) = ErrorsOf(result, p)
    BY <1>3, <2>1, OneIdMore
  <2>3. Handled(result, q)'
    BY <1>1, <1>2, <1>3, <2>2 DEF Handled
  <2> QED BY <1>1, <1>2, <2>2, <2>3, TurnEnds DEF IsResult
<1> QED BY <1>1, <1>4, <1>5
-----------------------------------------------------------------------------
LEMMA StoryKeeps == RunInv /\ StoryInv /\ [Next]_vars => StoryInv'
<1> SUFFICES ASSUME RunInv, StoryInv, [Next]_vars PROVE StoryInv'
  OBVIOUS
<1> USE DEF StoryInv
<1>a. at \notin {"over", "unrecorded"} => snapshot
  BY DEF LetGoInv, Ended
<1>1. ASSUME \/ \E a \in Accounts : UploadMedia(a)
             \/ ClearMedia \/ RefusedPost \/ UNCHANGED vars
      PROVE  StoryInv'
  BY <1>1, StoryAside DEF UploadMedia, ClearMedia, RefusedPost, vars, attempt, records
<1>2. ASSUME NEW order \in Orders, NEW en \in Choices(order),
             \/ PostAll(order, en)
             \/ \E ro \in Rulings(order) : PostBatch(order, en, ro)
      PROVE  StoryInv'
  BY <1>2, StoryStart
(* The results so far stay whole, and posts are where they were wanted.    *)
<1>b. ASSUME UNCHANGED <<enabled, ruledOut, out>> PROVE WantedInv'
  BY <1>b DEF WantedInv
<1>c. ASSUME UNCHANGED <<enabled, ruledOut>>, NEW r, Whole(r) PROVE Whole(r)'
  BY <1>c DEF Whole, Handled, IsResult
<1>d. ASSUME snapshot' = snapshot, at \notin {"over", "unrecorded"} PROVE LetGoInv'
  BY <1>d, <1>a DEF LetGoInv
<1>3. CASE LookUp
  <2>1. InTurn'
    BY <1>3 DEF LookUp, InTurn, Fresh, IsResult, ErrorsOf, NoIds, Platforms, Present
  <2>2. ResultInv'
    BY <1>3, <1>c, <2>1 DEF LookUp, ResultInv, attempt
  <2> QED BY <1>3, <1>b, <1>d, <2>2 DEF LookUp, records
<1>4. CASE TakeTurn
  <2>1. /\ at = "turn" /\ InTurn /\ turn \in Platforms
        /\ UNCHANGED <<todo, enabled, ruledOut, results, snapshot, out>>
    BY <1>4 DEF TakeTurn, ResultInv, InTurn, records
  <2>2. CASE at' = "posting"
    <3>1. /\ turn \in enabled[Present] /\ turn \notin ruledOut[Present]
          /\ UNCHANGED <<turn, result>> /\ verdict' = "none"
      BY <1>4, <2>2 DEF TakeTurn, LeaveOut, Advance
    <3>2. InTurn'
      BY <2>1, <3>1 DEF InTurn, IsResult, Handled, Present
    <3>3. ResultInv'
      BY <1>c, <2>1, <2>2, <3>1, <3>2 DEF ResultInv, Present
    <3> QED BY <1>b, <1>d, <2>1, <3>3
  <2>3. CASE at' # "posting"
    <3>1. PICK k \in {"disabled", "preflight", "no_session"} :
            /\ LeaveOut(k) /\ UNCHANGED attempt
            /\ \/ k = "disabled" /\ turn \notin enabled[Present]
               \/ k = "preflight" /\ turn \in enabled[Present] \cap ruledOut[Present]
               \/ k = "no_session" /\ turn \in enabled[Present] \ ruledOut[Present]
      BY <1>4, <2>3 DEF TakeTurn
    <3>2. /\ at' \in {"turn", "notify"}
          /\ at' = "turn" => InTurn'
          /\ at' = "notify" => (Whole(result) /\ result.slot = Present)'
      BY <2>1, <3>1, LeaveOutEnds
    <3>3. ResultInv'
      BY <1>c, <2>1, <3>1, <3>2 DEF ResultInv, attempt
    <3> QED BY <1>b, <1>d, <2>1, <3>3
  <2> QED BY <2>2, <2>3
<1>5. CASE HandOver
  <2>1. /\ at = "posting" /\ UNCHANGED <<run, verdict, rows, snapshot>>
        /\ out' = out \cup {<<Present, turn>>}
        /\ turn \in enabled[Present] /\ turn \notin ruledOut[Present]
    BY <1>5 DEF HandOver, Attempt!Submit, records, ResultInv
  <2>2. WantedInv'
    BY <2>1 DEF WantedInv, run
  <2>3. ResultInv'
    BY <2>1 DEF run, Present, ResultInv, InTurn, Whole, Handled, IsResult
  <2> QED BY <1>d, <2>1, <2>2, <2>3
<1>6. CASE Answer
  <2>1. /\ at = "posting" /\ UNCHANGED <<run, rows, snapshot, out>>
        /\ verdict' \in {"confirmed", "unconfirmed", "failed"}
    BY <1>6 DEF Answer, Attempt!Tell, Attempt!Verdicts, records
  <2>2. ResultInv'
    BY <2>1 DEF run, Present, ResultInv, InTurn, Whole, Handled, IsResult
  <2> QED BY <1>b, <1>d, <2>1, <2>2 DEF run
<1>7. CASE Returned
  <2>1. /\ at = "posting" /\ verdict' = "none"
        /\ UNCHANGED <<enabled, ruledOut, results, snapshot, out>>
    BY <1>7 DEF Returned, records
  <2>2. /\ at' \in {"turn", "notify"}
        /\ at' = "turn" => InTurn'
        /\ at' = "notify" => (Whole(result) /\ result.slot = Present)'
    BY <1>7, PostEnds
  <2>3. ResultInv'
    BY <1>c, <2>1, <2>2 DEF ResultInv
  <2> QED BY <1>b, <1>d, <2>1, <2>3
<1>8. CASE NotifySlot
  <2>1. /\ at = "notify" /\ at' \in {"summary", "gap", "look"}
        /\ results' = results \cup {result} /\ Whole(result)
        /\ UNCHANGED <<enabled, ruledOut, verdict, snapshot, out>>
    BY <1>8, SettingsAssumption DEF NotifySlot, ResultInv, attempt
  <2>2. ResultInv'
    BY <1>c, <2>1 DEF ResultInv
  <2> QED BY <1>b, <1>d, <2>1, <2>2
<1>9. ASSUME EndGap \/ Summarise \/ Escape PROVE StoryInv'
  <2>1. /\ at \in {"gap", "summary", "look"}
        /\ at' \in {"look", "record", "over", "unrecorded"}
        /\ UNCHANGED <<enabled, ruledOut, results, verdict, snapshot, out>>
    BY <1>9 DEF EndGap, Summarise, Escape, attempt, records
  <2>2. ResultInv'
    BY <1>c, <2>1 DEF ResultInv
  <2> QED BY <1>b, <1>d, <2>1, <2>2
<1>10. CASE Record
  <2>1. /\ at = "record" /\ at' \in {"over", "unrecorded"}
        /\ UNCHANGED <<enabled, ruledOut, results, verdict, out>>
    BY <1>10 DEF Record, attempt
  <2>2. ASSUME ~snapshot'
        PROVE  /\ at' = "over" /\ rows' = results
               /\ \A r \in results : Success(r)
    <3>1. CASE snapshot' = snapshot
      BY <2>1, <2>2, <3>1, <1>a
    <3>2. CASE /\ at' = "over" /\ rows' = ToRecord
               /\ snapshot' = ~(kind = "scheduled" /\ FinalStatus = "done")
      <4>1. results # {} /\ \A r \in results : Success(r)
        <5>1. FinalStatus = "done"
          BY <2>2, <3>2, Zenon
        <5> QED BY <5>1 DEF FinalStatus
      <4>2. ToRecord = results
        BY <4>1 DEF ToRecord
      <4> QED BY <3>2, <4>1, <4>2
    <3> QED
      BY <1>10, <3>1, <3>2, Zenon DEF Record
  <2>3. ResultInv'
    BY <1>c, <2>1 DEF ResultInv
  <2>4. LetGoInv'
    BY <2>1, <2>2 DEF LetGoInv, Ended
  <2> QED BY <1>b, <2>1, <2>3, <2>4
<1> QED
  BY <1>1, <1>2, <1>3, <1>4, <1>5, <1>6, <1>7, <1>8, <1>9, <1>10 DEF Next, RunStep

(* How a platform with one error is classified, and what is noted of it.   *)
LEMMA ErrorClass ==
  ASSUME NEW r, NEW p, NEW k \in {"disabled", "preflight", "no_session", "real"},
         ErrorsOf(r, p) = {Error(p, k)}, r.ids[p] = ""
  PROVE  /\ Classify(r, p) = IF k = "disabled" THEN "disabled"
                             ELSE IF k = "real" THEN "failed" ELSE "skipped"
         /\ Event(r, p) = IF k = "disabled" THEN "none"
                          ELSE IF k = "real" THEN "error" ELSE "skipped"
<1> DEFINE errors == ErrorsOf(r, p)
           noted == {e \in errors : ~IsDisabled(e)}
           kept == IF k = "disabled" THEN {} ELSE errors
<1>1. Error(p, k).kind = k
  BY DEF Error
<1>2. /\ IsSkip(Error(p, k)) <=> k # "real"
      /\ IsDisabled(Error(p, k)) <=> k = "disabled"
  BY <1>1 DEF IsSkip, IsDisabled, SkipKinds
<1>3. /\ errors # {}
      /\ (\A e \in errors : IsSkip(e)) <=> k # "real"
      /\ (\E e \in errors : ~IsSkip(e)) <=> k = "real"
      /\ (\A e \in errors : IsDisabled(e)) <=> k = "disabled"
      /\ (\E e \in errors : ~IsDisabled(e)) <=> k # "disabled"
  BY <1>2
<1>4. noted = kept
  BY <1>2
<1>5. /\ kept = {} <=> k = "disabled"
      /\ (\A e \in kept : IsSkip(e)) <=> k # "real"
      /\ (\E e \in kept : ~IsSkip(e)) <=> k = "real"
  BY <1>3
<1> HIDE DEF errors, kept
<1>6. Classify(r, p) =
        CASE \E e \in errors : ~IsSkip(e) -> "failed"
          [] errors # {} /\ \A e \in errors : IsDisabled(e) -> "disabled"
          [] (\A e \in errors : IsSkip(e)) /\ (\E e \in errors : ~IsDisabled(e)) -> "skipped"
          [] errors = {} /\ r.ids[p] = "unconfirmed" -> "unconfirmed"
          [] errors = {} /\ r.ids[p] = "ok" -> "confirmed"
          [] OTHER -> "not_attempted"
  BY DEF Classify, errors
<1>7. Event(r, p) =
        CASE \E e \in kept : ~IsSkip(e) -> "error"
          [] kept # {} /\ (\A e \in kept : IsSkip(e)) -> "skipped"
          [] kept = {} /\ r.ids[p] = "unconfirmed" -> "unconfirmed"
          [] OTHER -> "none"
  BY <1>4 DEF Event, errors
<1>8. CASE k = "disabled"
  <2>1. Classify(r, p) = "disabled"
    BY <1>3, <1>6, <1>8
  <2>2. kept = {}
    BY <1>5, <1>8
  <2>3. Event(r, p) = "none"
    BY <1>7, <2>2
  <2> QED BY <1>8, <2>1, <2>3
<1>9. CASE k = "real"
  BY <1>3, <1>5, <1>6, <1>7, <1>9
<1>10. CASE k \in {"preflight", "no_session"}
  BY <1>3, <1>5, <1>6, <1>7, <1>10
<1> QED BY <1>8, <1>9, <1>10

(* What history says of a platform that was dealt with, what is noted of   *)
(* it for the phone, and whether it has a post id, go together.            *)
LEMMA HandledClass ==
  ASSUME NEW r, NEW p, Handled(r, p)
  PROVE  /\ Classify(r, p) \in {"disabled", "skipped", "failed", "confirmed", "unconfirmed"}
         /\ Event(r, p) = "error" <=> Classify(r, p) = "failed"
         /\ Event(r, p) = "skipped" <=> Classify(r, p) = "skipped"
         /\ Event(r, p) = "unconfirmed" <=> Classify(r, p) = "unconfirmed"
         /\ r.ids[p] # "" <=> Classify(r, p) \in {"confirmed", "unconfirmed"}
<1>1. \/ \E k \in {"disabled", "preflight", "no_session", "real"} :
           ErrorsOf(r, p) = {Error(p, k)} /\ r.ids[p] = ""
      \/ ErrorsOf(r, p) = {} /\ r.ids[p] \in {"ok", "unconfirmed"}
  BY DEF Handled
<1>2. ASSUME NEW k \in {"disabled", "preflight", "no_session", "real"},
             ErrorsOf(r, p) = {Error(p, k)}, r.ids[p] = ""
      PROVE  /\ Classify(r, p) \in {"disabled", "skipped", "failed"}
             /\ Event(r, p) = "error" <=> Classify(r, p) = "failed"
             /\ Event(r, p) = "skipped" <=> Classify(r, p) = "skipped"
             /\ Event(r, p) # "unconfirmed"
  BY <1>2, ErrorClass
<1>3. CASE ErrorsOf(r, p) = {} /\ r.ids[p] \in {"ok", "unconfirmed"}
  <2>1. Classify(r, p) = IF r.ids[p] = "ok" THEN "confirmed" ELSE "unconfirmed"
    BY <1>3 DEF Classify
  <2>2. {e \in ErrorsOf(r, p) : ~IsDisabled(e)} = {}
    BY <1>3
  <2>3. Event(r, p) = IF r.ids[p] = "ok" THEN "none" ELSE "unconfirmed"
    BY <1>3, <2>2 DEF Event
  <2> QED BY <1>3, <2>1, <2>3
<1> QED BY <1>1, <1>2, <1>3

(* post_slot, execute_batch: a platform that was switched off or ruled out *)
(* is handed no post, whatever session is found, and the result says why.  *)
THEOREM LeftOutStaysOutCorrect == Spec => []LeftOutStaysOut
<1>1. RunInv /\ StoryInv => LeftOutStaysOut
  <2> SUFFICES ASSUME RunInv, StoryInv, NEW a \in Accounts, NEW p \in Platforms,
                      a \in {r.slot : r \in results},
                      p \notin enabled[a] \/ p \in ruledOut[a]
               PROVE  /\ <<a, p>> \notin out
                      /\ ClassOf(results, <<a, p>>) =
                            {IF p \in enabled[a] THEN "skipped" ELSE "disabled"}
    BY DEF LeftOutStaysOut, Pairs
  <2>1. <<a, p>> \notin out
    BY DEF StoryInv, WantedInv
  <2>2. ASSUME NEW r \in results, r.slot = a
        PROVE  Classify(r, p) = IF p \in enabled[a] THEN "skipped" ELSE "disabled"
    <3>1. Handled(r, p)
      BY DEF StoryInv, ResultInv, Whole
    <3>2. CASE p \notin enabled[a]
      <4>1. ErrorsOf(r, p) = {Error(p, "disabled")} /\ r.ids[p] = ""
        BY <2>2, <3>1, <3>2 DEF Handled
      <4> QED BY <3>2, <4>1, ErrorClass
    <3>3. CASE p \in enabled[a]
      <4>1. ErrorsOf(r, p) = {Error(p, "preflight")} /\ r.ids[p] = ""
        BY <2>2, <3>1, <3>3 DEF Handled
      <4> QED BY <3>3, <4>1, ErrorClass
    <3> QED BY <3>2, <3>3
  <2> QED
    BY <2>1, <2>2 DEF ClassOf, ResultOf
<1> QED
  BY RunInit, RunStepKeeps, StoryInit, StoryKeeps, <1>1, PTL DEF Spec

(* PostResult.success, execute_batch: as long as one platform that was     *)
(* switched on is not posted to, the media of the batch are kept.          *)
THEOREM MediaOutlastTroubleCorrect == Spec => []MediaOutlastTrouble
<1>1. RunInv /\ StoryInv => MediaOutlastTrouble
  <2> SUFFICES ASSUME RunInv, StoryInv, ~snapshot, NEW r \in rows,
                      r.slot \in Accounts, NEW p \in enabled[r.slot]
               PROVE  Classify(r, p) \in {"confirmed", "unconfirmed"}
    BY DEF MediaOutlastTrouble, ResultOf
  <2>1. r \in results /\ Success(r) /\ p \in Platforms
    BY DEF StoryInv, LetGoInv, ResultInv
  <2>2. Handled(r, p)
    BY <2>1 DEF StoryInv, ResultInv, Whole
  <2>3. ASSUME NEW k \in {"preflight", "no_session", "real"},
               ErrorsOf(r, p) = {Error(p, k)}
        PROVE  FALSE
    <3>1. Error(p, k) \in r.errors /\ Error(p, k).kind = k
      BY <2>3 DEF ErrorsOf, Error
    <3> QED BY <2>1, <3>1 DEF Success, IsDisabled
  <2>4. ErrorsOf(r, p) = {} /\ r.ids[p] \in {"ok", "unconfirmed"}
    BY <2>2, <2>3 DEF Handled
  <2> QED
    BY <2>4 DEF Classify
<1> QED
  BY RunInit, RunStepKeeps, StoryInit, StoryKeeps, <1>1, PTL DEF Spec
-----------------------------------------------------------------------------
(* Each account has one result, and none while it is to come: the results  *)
(* of a batch begin with those of the accounts that do not take part.      *)
SlotInv ==
  /\ IsFiniteSet(results)
  /\ \A r \in results : r.slot \in Accounts \ Named(todo)
  /\ \A r, s \in results : r.slot = s.slot => r = s
  /\ at \in {"summary", "record"} => todo = <<>>
  /\ \A a \in Named(todo) : ruledOut[a] # enabled[a]
  /\ \A a \in Accounts : enabled[a] # {} /\ (at = "idle" => ruledOut[a] = {})

(* The pushes are those the results so far call for, of the accounts that  *)
(* take part, and the summary is of these.                                 *)
DuePushes(r) ==
  {<<r.slot, p, Event(r, p)>> :
     p \in {q \in Platforms : Event(r, q) \in {"error", "unconfirmed"}}}

PhoneInv ==
  /\ at = "idle" => pushes = {} /\ summary = NoSummary
  /\ pushes = UNION {DuePushes(r) : r \in InPostAll}
  /\ \/ summary = NoSummary
     \/ at \in {"record", "over", "unrecorded"} /\ summary = Summary(InPostAll)

(* The events of a manual run show, of every account, the platforms that   *)
(* were dealt with, and nothing of those to come.  A refused request after *)
(* the run may wipe them.                                                  *)
Words(r, p) ==
  IF Classify(r, p) = "disabled" THEN {} ELSE {Word[Classify(r, p)]}
Begun == IF at \in {"turn", "posting", "notify"} THEN {Present} ELSE {}

ShownInv ==
  /\ \A r \in results, p \in Platforms : Shown(<<r.slot, p>>) = Words(r, p)
  /\ \A a \in Accounts \ Begun, p \in Platforms :
       a \notin {r.slot : r \in results} => Shown(<<a, p>>) = {}
  /\ at \in {"turn", "posting"} =>
       /\ Shown(<<Present, turn>>) = {}
       /\ turn = "instagram" => Shown(<<Present, "tiktok">>) = {}
       /\ turn = "tiktok" => Shown(<<Present, "instagram">>) = Words(result, "instagram")
  /\ at = "notify" => \A p \in Platforms : Shown(<<Present, p>>) = Words(result, p)

Statuses == {"started", "skipped", "ok", "unconfirmed", "error"}

(* The rest of the progress: who it is about, and whose turn is announced  *)
(* while the run waits.  The wait is over once a platform was dealt with.  *)
ReportInv ==
  /\ at = "idle" => kind = "none"
  /\ kind = "manual" => \A a \in Accounts : ruledOut[a] = {} /\ enabled[a] # {}
  /\ kind # "manual" => progress.waiting = {}
  /\ progress = [active |-> progress.active, current |-> progress.current,
                 waiting |-> progress.waiting, events |-> progress.events]
  /\ progress.events \in Seq(Accounts \X Platforms \X Statuses)
  /\ ProgressFollows
  /\ (at = "turn" /\ turn = "tiktok" /\ "instagram" \in enabled[Present])
       => progress.waiting = {}

PageInv ==
  /\ ReportInv
  /\ kind = "manual" /\ (~Ended \/ progress.events # <<>>) => ShownInv

LEMMA SlotInit == Init => SlotInv
BY EmptySeq, FS_EmptySet DEF Init, SlotInv, Named, Platforms

(* The accounts of a request are finitely many, and so are the results of  *)
(* those that do not take part.                                            *)
LEMMA FewNamed ==
  ASSUME NEW order \in Seq(Accounts)
  PROVE  IsFiniteSet(Named(order)) /\ Named(order) \subseteq Accounts
<1>1. DOMAIN order = 1..Len(order) /\ Len(order) \in Nat
      /\ \A i \in 1..Len(order) : order[i] \in Accounts
  BY LenProperties, ElementOfSeq
<1>2. IsFiniteSet(1..Len(order))
  BY <1>1, FS_Interval
<1> DEFINE f == [i \in 1..Len(order) |-> order[i]]
<1>3. f \in Surjection(1..Len(order), Named(order))
  BY <1>1 DEF Surjection, Named
<1> HIDE DEF f
<1>4. IsFiniteSet(Named(order))
  BY <1>2, <1>3, FS_Surjection
<1> QED BY <1>1, <1>4 DEF Named

LEMMA FewExcluded ==
  ASSUME NEW order \in Seq(Accounts), NEW en, NEW ro
  PROVE  IsFiniteSet({[Fresh(a) EXCEPT !.errors = PreflightErrors(a, en, ro)] :
                        a \in Excluded(order, en, ro)})
<1> DEFINE E == Excluded(order, en, ro)
           answer(a) == [Fresh(a) EXCEPT !.errors = PreflightErrors(a, en, ro)]
           f == [a \in E |-> answer(a)]
<1>1. E \in SUBSET Named(order)
  BY DEF Excluded
<1>2. f \in Surjection(E, {answer(a) : a \in E})
  <2> HIDE DEF answer
  <2> QED BY DEF Surjection
<1> HIDE DEF E, f, answer
<1>3. IsFiniteSet(E)
  BY <1>1, FewNamed, FS_Subset
<1>4. IsFiniteSet({answer(a) : a \in E})
  BY <1>2, <1>3, FS_Surjection
<1> QED BY <1>4 DEF E, answer

LEMMA SlotStart ==
  ASSUME RunInv, StoryInv, SlotInv, NEW order \in Orders, NEW en \in Choices(order),
         \A a \in Accounts : en[a] # {},
         \/ PostAll(order, en)
         \/ \E ro \in Rulings(order) : PostBatch(order, en, ro)
  PROVE  SlotInv'
<1>1. order \in Seq(Accounts) /\ at = "idle" /\ results = {}
  BY OrdersAssumption DEF StoryInv, ResultInv, PostAll, PostBatch
<1>2. Named(order) \subseteq Accounts
  BY <1>1, FewNamed
<1>3. CASE PostAll(order, en)
  <2>1. /\ results' = {} /\ todo' = order /\ enabled' = en /\ ruledOut' = ruledOut
        /\ at' = IF order = <<>> THEN "record" ELSE "look"
    BY <1>1, <1>3 DEF PostAll
  <2> QED
    BY <1>1, <1>2, <2>1, FS_EmptySet DEF SlotInv, Named
<1>4. ASSUME NEW ro \in Rulings(order), PostBatch(order, en, ro)
      PROVE  SlotInv'
  <2> DEFINE excluded == Excluded(order, en, ro)
  <2>1. /\ todo' \in Proceeding(order, excluded) /\ enabled' = en /\ ruledOut' = ro
        /\ results' = {[Fresh(a) EXCEPT !.errors = PreflightErrors(a, en, ro)] :
                         a \in excluded}
        /\ at' = IF todo' = <<>> THEN "record" ELSE "look"
    BY <1>4 DEF PostBatch
  <2>2. IsFiniteSet(results')
    BY <1>1, <2>1, FewExcluded
  <2>3. Named(todo') = Named(order) \ excluded
    BY <2>1 DEF Proceeding
  <2>4. excluded \subseteq Named(order)
    BY DEF Excluded
  <2>5. \A a \in Named(order) \ excluded : ro[a] # en[a]
    BY DEF Excluded
  <2> HIDE DEF excluded
  <2>6. \A a : [Fresh(a) EXCEPT !.errors = PreflightErrors(a, en, ro)].slot = a
    BY DEF Fresh
  <2>7. \A r \in results' :
          /\ r.slot \in excluded
          /\ r = [Fresh(r.slot) EXCEPT !.errors = PreflightErrors(r.slot, en, ro)]
    BY <2>1, <2>6, Zenon
  <2>8. \A r \in results' : r.slot \in Accounts \ Named(todo')
    BY <1>2, <2>3, <2>4, <2>7
  <2>9. \A r, s \in results' : r.slot = s.slot => r = s
    BY <2>7, Zenon
  <2> QED
    BY <2>1, <2>2, <2>3, <2>5, <2>8, <2>9 DEF SlotInv, Named
<1> QED BY <1>3, <1>4

LEMMA SlotAside ==
  ASSUME SlotInv, UNCHANGED <<todo, enabled, ruledOut, results>>, at' # "idle",
         at' \in {"summary", "record"} => todo = <<>>
  PROVE  SlotInv'
BY DEF SlotInv, Named

LEMMA SlotKeeps == RunInv /\ StoryInv /\ SlotInv /\ [Next]_vars => SlotInv'
<1> SUFFICES ASSUME RunInv, StoryInv, SlotInv, [Next]_vars PROVE SlotInv'
  OBVIOUS
<1>1. ASSUME \/ \E a \in Accounts : UploadMedia(a)
             \/ ClearMedia \/ RefusedPost \/ UNCHANGED vars
      PROVE  SlotInv'
  BY <1>1 DEF UploadMedia, ClearMedia, RefusedPost, vars, run, SlotInv, Named
<1>2. ASSUME NEW order \in Orders, NEW en \in Choices(order),
             \A a \in Accounts : en[a] # {},
             \/ PostAll(order, en)
             \/ \E ro \in Rulings(order) : PostBatch(order, en, ro)
      PROVE  SlotInv'
  BY <1>2, SlotStart
<1>3. ASSUME \/ LookUp \/ TakeTurn \/ HandOver \/ Answer \/ Returned
             \/ EndGap \/ Summarise \/ Record \/ Escape
      PROVE  SlotInv'
  <2>1. /\ UNCHANGED <<todo, enabled, ruledOut, results>> /\ at' # "idle"
        /\ at' \in {"summary", "record"} => at \in {"summary", "record"}
    BY <1>3 DEF LookUp, TakeTurn, HandOver, Answer, Returned, EndGap, Summarise,
                Record, Escape, LeaveOut, Advance, run
  <2> QED BY <2>1, SlotAside DEF SlotInv
<1>4. CASE NotifySlot
  <2>1. /\ at = "notify" /\ at' \in {"summary", "gap", "look"}
        /\ todo' = Tail(todo) /\ results' = results \cup {result}
        /\ UNCHANGED <<enabled, ruledOut>>
        /\ at' = "summary" => todo' = <<>>
    BY <1>4, SettingsAssumption DEF NotifySlot
  <2>2. /\ Present \in Accounts /\ Present \in Named(todo) /\ Present \notin Named(Tail(todo))
        /\ Named(Tail(todo)) \subseteq Named(todo)
    BY <2>1, HeadApart DEF RunInv, ControlInv, Present
  <2>3. result.slot = Present
    BY <2>1 DEF StoryInv, ResultInv
  <2>4. IsFiniteSet(results')
    BY <2>1, FS_AddElement DEF SlotInv
  <2> QED
    BY <2>1, <2>2, <2>3, <2>4 DEF SlotInv, Named
<1> QED
  BY <1>1, <1>2, <1>3, <1>4 DEF Next, RunStep
-----------------------------------------------------------------------------
(* Rows of distinct accounts: no account has two.                          *)
LEMMA OneRowEach ==
  ASSUME NEW rs, NEW a, \A r, s \in rs : r.slot = s.slot => r = s
  PROVE  Cardinality(ResultOf(rs, a)) <= 1
<1>1. CASE ResultOf(rs, a) = {}
  BY <1>1, FS_EmptySet
<1>2. CASE ResultOf(rs, a) # {}
  <2>1. PICK r : ResultOf(rs, a) = {r}
    BY <1>2 DEF ResultOf
  <2> QED BY <2>1, FS_Singleton
<1> QED BY <1>1, <1>2

(* What the scheduler supposes of the rows of a batch with that status.    *)
LEMMA KindsOfStatus ==
  ASSUME results # {}
  PROVE  {RowKind(r) : r \in results} = Scheduler!RowsOf(FinalStatus)
<1>1. CASE \A r \in results : ~Success(r)
  BY <1>1 DEF RowKind, FinalStatus, Scheduler!RowsOf
<1>2. CASE \A r \in results : Success(r)
  BY <1>2 DEF RowKind, FinalStatus, Scheduler!RowsOf
<1>3. ASSUME NEW r \in results, Success(r), NEW s \in results, ~Success(s)
      PROVE  {RowKind(t) : t \in results} = Scheduler!RowsOf(FinalStatus)
  <2>1. FinalStatus = "partial"
    BY <1>3 DEF FinalStatus
  <2>2. RowKind(r) = "clean" /\ RowKind(s) = "unclean"
    BY <1>3 DEF RowKind
  <2> QED BY <2>1, <2>2 DEF RowKind, Scheduler!RowsOf
<1> QED BY <1>1, <1>2, <1>3

(* An account that was ruled out altogether is no success: something was   *)
(* switched on.                                                            *)
LEMMA RuledOutFails ==
  ASSUME StoryInv, SlotInv
  PROVE  \A r \in results \ InPostAll : ~Success(r)
<1> SUFFICES ASSUME NEW r \in results, ruledOut[r.slot] = enabled[r.slot]
             PROVE  ~Success(r)
  BY DEF InPostAll
<1>1. PICK p \in enabled[r.slot] : p \in Platforms
  BY DEF SlotInv, StoryInv, ResultInv
<1>2. ErrorsOf(r, p) = {Error(p, "preflight")}
  BY <1>1 DEF StoryInv, ResultInv, Whole, Handled
<1>3. Error(p, "preflight") \in r.errors /\ Error(p, "preflight").kind = "preflight"
  BY <1>2 DEF ErrorsOf, Error
<1> QED BY <1>3 DEF Success, IsDisabled

(* execute_batch: when nothing is wrong with recording, every account of a *)
(* batch has one row in history: the result it got from the pre-flight     *)
(* check, from its posts, or the crash that cut the run short.  The rows   *)
(* are those of the status the scheduler gives the batch, and a run cut    *)
(* short has no row of a success.                                          *)
THEOREM EveryAccountAnsweredCorrect == Spec => []EveryAccountAnswered
<1> DEFINE Inv == RunInv /\ StoryInv /\ SlotInv
           Kinds == IF todo = <<>> THEN Scheduler!RowsOf(FinalStatus) ELSE {"unclean"}
<1>1. Init => EveryAccountAnswered
  BY DEF Init, EveryAccountAnswered
<1>2. Inv /\ EveryAccountAnswered /\ [Next]_vars => EveryAccountAnswered'
  <2> SUFFICES ASSUME Inv, EveryAccountAnswered, [Next]_vars,
                      at' = "over", kind' = "scheduled"
               PROVE  /\ {r.slot : r \in rows'} = IF InBatch' = {} THEN {"(none)"} ELSE InBatch'
                      /\ \A a \in Accounts : Cardinality(ResultOf(rows', a)) <= 1
                      /\ {RowKind(r) : r \in rows'} = Kinds'
    BY DEF EveryAccountAnswered
  <2>1. ASSUME UNCHANGED <<at, kind, rows, todo, results>>
        PROVE  /\ {r.slot : r \in rows'} = IF InBatch' = {} THEN {"(none)"} ELSE InBatch'
               /\ \A a \in Accounts : Cardinality(ResultOf(rows', a)) <= 1
               /\ {RowKind(r) : r \in rows'} = Kinds'
    <3>1. InBatch' = InBatch
      BY <2>1 DEF InBatch, Named
    <3>2. FinalStatus' = FinalStatus
      BY <2>1 DEF FinalStatus
    <3>3. Kinds' = Kinds
      BY <2>1, <3>2
    <3>4. /\ {r.slot : r \in rows} = IF InBatch = {} THEN {"(none)"} ELSE InBatch
          /\ \A a \in Accounts : Cardinality(ResultOf(rows, a)) <= 1
          /\ {RowKind(r) : r \in rows} = Kinds
      BY <2>1 DEF EveryAccountAnswered
    <3> HIDE DEF Kinds
    <3> QED BY <2>1, <3>1, <3>3, <3>4
  <2>2. CASE Record
    <3>1. /\ rows' = ToRecord /\ UNCHANGED <<kind, todo, results>>
          /\ todo = <<>> /\ kind = "scheduled"
      BY <2>2 DEF Record, SlotInv
    <3>2. InBatch' = {r.slot : r \in results}
      BY <3>1, EmptySeq DEF InBatch, Named
    <3>3. CASE results = {}
      <4>1. rows' = {NothingExecuted} /\ NothingExecuted.slot = "(none)"
        BY <3>1, <3>3 DEF ToRecord, NothingExecuted
      <4>2. \A a \in Accounts : Cardinality(ResultOf(rows', a)) <= 1
        BY <4>1, OneRowEach
      <4>3. ~Success(NothingExecuted)
        BY DEF NothingExecuted, Success, IsDisabled
      <4>4. {RowKind(r) : r \in rows'} = {"unclean"}
        BY <4>1, <4>3 DEF RowKind
      <4>5. FinalStatus = "failed" /\ FinalStatus' = FinalStatus
        BY <3>1, <3>3 DEF FinalStatus
      <4>6. Kinds' = {"unclean"}
        BY <3>1, <4>5 DEF Scheduler!RowsOf
      <4> QED BY <3>2, <3>3, <4>1, <4>2, <4>4, <4>6
    <3>4. CASE results # {}
      <4>1. rows' = results /\ InBatch' # {}
        BY <3>1, <3>2, <3>4 DEF ToRecord
      <4>2. \A a \in Accounts : Cardinality(ResultOf(rows', a)) <= 1
        BY <4>1, OneRowEach DEF SlotInv
      <4>3. {RowKind(r) : r \in results} = Scheduler!RowsOf(FinalStatus)
        BY <3>4, KindsOfStatus
      <4>4. Kinds' = Scheduler!RowsOf(FinalStatus)
        BY <3>1 DEF FinalStatus
      <4> QED BY <3>2, <4>1, <4>2, <4>3, <4>4
    <3> QED BY <3>3, <3>4
  <2>3. CASE Escape
    <3> DEFINE answered == results \ InPostAll
               lost == Named(todo) \cup {r.slot : r \in InPostAll}
               crash(a) == [Fresh(a) EXCEPT !.errors = {[platform |-> "none", kind |-> "crash"]}]
    <3>1. rows' = answered \cup {crash(a) : a \in lost} /\ UNCHANGED <<todo, results>>
      BY <2>3 DEF Escape, CrashRows
    <3>2. \A a : crash(a).slot = a
      BY DEF Fresh
    <3>3. \A r \in answered : r.slot \notin lost
      BY DEF SlotInv, InPostAll
    <3>4. results = answered \cup InPostAll
      BY DEF InPostAll
    <3> HIDE DEF answered, crash
    <3>5. \A r \in rows' : r \in answered \/ (r.slot \in lost /\ r = crash(r.slot))
      BY <3>1, <3>2, Zenon
    <3>6. \A r, s \in rows' : r.slot = s.slot => r = s
      <4>1. ASSUME NEW r \in rows', NEW s \in rows', r.slot = s.slot, r \in answered
            PROVE  r = s
        <5>1. s \in answered
          BY <3>3, <3>5, <4>1
        <5> QED BY <4>1, <5>1, <3>4 DEF SlotInv
      <4>2. ASSUME NEW r \in rows', NEW s \in rows', r.slot = s.slot, r \notin answered
            PROVE  r = s
        <5>1. s \notin answered
          BY <3>3, <3>5, <4>2
        <5> QED BY <3>5, <4>2, <5>1
      <4> QED BY <4>1, <4>2
    <3>7. {r.slot : r \in rows'} = {r.slot : r \in answered} \cup lost
      <4>1. \A r \in rows' : r.slot \in {t.slot : t \in answered} \cup lost
        BY <3>5
      <4>2. \A r \in answered : r \in rows'
        BY <3>1
      <4>3. \A a \in lost : crash(a) \in rows' /\ crash(a).slot = a
        BY <3>1, <3>2
      <4> HIDE DEF lost
      <4>4. lost \subseteq {r.slot : r \in rows'}
        BY <4>3, Zenon
      <4> QED BY <4>1, <4>2, <4>4
    <3>8. \A a \in Accounts : Cardinality(ResultOf(rows', a)) <= 1
      BY <3>6, OneRowEach
    <3>9. {r.slot : r \in results} = {r.slot : r \in answered} \cup {r.slot : r \in InPostAll}
      BY <3>4
    <3>10. InBatch' = Named(todo) \cup {r.slot : r \in results}
      BY <3>1 DEF InBatch, Named
    <3>11. Head(todo) \in Named(todo)
      BY <2>3, HeadApart DEF Escape, RunInv, ControlInv
    <3>12. \A r \in answered : ~Success(r)
      BY RuledOutFails DEF answered
    <3>13. \A r \in rows' : ~Success(r)
      <4>1. \A a : ~Success(crash(a))
        BY DEF crash, Fresh, Success, IsDisabled
      <4> QED BY <3>1, <3>12, <4>1
    <3>14. {RowKind(r) : r \in rows'} = {"unclean"} /\ Kinds' = {"unclean"}
      <4>1. todo' # <<>>
        BY <2>3 DEF Escape, RunInv, ControlInv
      <4>2. crash(Head(todo)) \in rows'
        BY <3>1, <3>11
      <4>3. {RowKind(r) : r \in rows'} = {"unclean"}
        BY <3>13, <4>2 DEF RowKind
      <4> QED BY <4>1, <4>3
    <3> QED BY <3>1, <3>7, <3>8, <3>9, <3>10, <3>11, <3>14
  <2>4. ASSUME \/ \E a \in Accounts : UploadMedia(a)
               \/ ClearMedia \/ RefusedPost \/ UNCHANGED vars
        PROVE  UNCHANGED <<at, kind, rows, todo, results>>
    BY <2>4 DEF UploadMedia, ClearMedia, RefusedPost, vars, run, records
  <2>5. ASSUME \/ LookUp \/ TakeTurn \/ HandOver \/ Answer \/ Returned
               \/ NotifySlot \/ EndGap \/ Summarise
               \/ \E order, en : PostAll(order, en)
               \/ \E order, en, ro : PostBatch(order, en, ro)
        PROVE  FALSE
    <3>1. ASSUME LookUp \/ EndGap \/ Summarise PROVE FALSE
      BY <3>1 DEF LookUp, EndGap, Summarise
    <3>2. ASSUME TakeTurn \/ Returned PROVE FALSE
      BY <3>2 DEF TakeTurn, LeaveOut, Advance, Returned
    <3>3. ASSUME HandOver \/ Answer PROVE FALSE
      BY <3>3 DEF HandOver, Answer, run
    <3>4. CASE NotifySlot
      BY <3>4, SettingsAssumption DEF NotifySlot
    <3>5. ASSUME \/ \E order, en : PostAll(order, en)
                 \/ \E order, en, ro : PostBatch(order, en, ro)
          PROVE  FALSE
      BY <3>5 DEF PostAll, PostBatch
    <3> QED BY <2>5, <3>1, <3>2, <3>3, <3>4, <3>5
  <2> QED
    BY <2>1, <2>2, <2>3, <2>4, <2>5 DEF Next, RunStep
<1> QED
  BY RunInit, RunStepKeeps, StoryInit, StoryKeeps, SlotInit, SlotKeeps, <1>1, <1>2, PTL
     DEF Spec
-----------------------------------------------------------------------------
LEMMA PhoneInit == Init => PhoneInv
BY DEF Init, PhoneInv, InPostAll

LEMMA PhoneAside ==
  ASSUME PhoneInv,
         UNCHANGED <<results, enabled, ruledOut, pushes, summary>>, at' # "idle",
         summary = NoSummary \/ at' \in {"record", "over", "unrecorded"}
  PROVE  PhoneInv'
BY DEF PhoneInv, InPostAll

LEMMA PhoneKeeps == RunInv /\ StoryInv /\ SlotInv /\ PhoneInv /\ [Next]_vars => PhoneInv'
<1> SUFFICES ASSUME RunInv, StoryInv, SlotInv, PhoneInv, [Next]_vars PROVE PhoneInv'
  OBVIOUS
<1>1. ASSUME \/ \E a \in Accounts : UploadMedia(a)
             \/ ClearMedia \/ RefusedPost \/ UNCHANGED vars
      PROVE  PhoneInv'
  BY <1>1 DEF UploadMedia, ClearMedia, RefusedPost, vars, run, records, PhoneInv, InPostAll
(* A run begins with no result of an account that takes part.              *)
<1>2. ASSUME NEW order, NEW en,
             PostAll(order, en) \/ \E ro : PostBatch(order, en, ro)
      PROVE  PhoneInv'
  <2>1. /\ at = "idle" /\ at' # "idle" /\ results = {}
        /\ pushes' = {} /\ summary' = NoSummary
    BY <1>2 DEF PostAll, PostBatch, records, PhoneInv, StoryInv, ResultInv
  <2>2. InPostAll' = {}
    <3>1. CASE PostAll(order, en)
      BY <2>1, <3>1 DEF PostAll, InPostAll
    <3>2. ASSUME NEW ro, PostBatch(order, en, ro), NEW r \in results'
          PROVE  ruledOut'[r.slot] = enabled'[r.slot]
      <4>1. PICK a \in Excluded(order, en, ro) :
              r = [Fresh(a) EXCEPT !.errors = PreflightErrors(a, en, ro)]
        BY <3>2 DEF PostBatch
      <4>2. r.slot = a /\ ro[a] = en[a]
        BY <4>1 DEF Fresh, Excluded
      <4> QED BY <3>2, <4>2 DEF PostBatch
    <3> QED BY <1>2, <3>1, <3>2 DEF InPostAll
  <2> QED BY <2>1, <2>2 DEF PhoneInv
<1>3. ASSUME \/ LookUp \/ TakeTurn \/ HandOver \/ Answer \/ Returned
             \/ EndGap \/ Record \/ Escape
      PROVE  PhoneInv'
  <2>1. /\ UNCHANGED <<results, enabled, ruledOut, pushes, summary>> /\ at' # "idle"
        /\ at \in {"record", "over", "unrecorded"} => at' \in {"over", "unrecorded"}
    BY <1>3 DEF LookUp, TakeTurn, HandOver, Answer, Returned, EndGap, Record,
                Escape, LeaveOut, Advance, run, records
  <2> QED BY <2>1, PhoneAside DEF PhoneInv
<1>4. CASE Summarise
  <2>1. /\ summary' = Summary(InPostAll) /\ at' = "record"
        /\ UNCHANGED <<results, enabled, ruledOut, pushes>>
    BY <1>4 DEF Summarise
  <2> QED BY <2>1 DEF PhoneInv, InPostAll
<1>5. CASE NotifySlot
  <2>1. /\ at = "notify" /\ at' \in {"summary", "gap", "look"}
        /\ results' = results \cup {result}
        /\ pushes' = pushes \cup
             {<<Present, p, Event(result, p)>> :
                p \in {q \in Platforms : Event(result, q) \in {"error", "unconfirmed"}}}
        /\ UNCHANGED <<enabled, ruledOut, summary>>
    BY <1>5, SettingsAssumption DEF NotifySlot
  <2>2. result.slot = Present
    BY <2>1 DEF StoryInv, ResultInv
  <2>3. ruledOut[Present] # enabled[Present]
    BY <2>1, HeadApart DEF RunInv, ControlInv, SlotInv, Present
  <2>4. InPostAll' = InPostAll \cup {result}
    BY <2>1, <2>2, <2>3 DEF InPostAll
  <2>5. pushes' = pushes \cup DuePushes(result)
    BY <2>1, <2>2 DEF DuePushes
  <2>6. pushes' = UNION {DuePushes(r) : r \in InPostAll'}
    <3>1. pushes = UNION {DuePushes(r) : r \in InPostAll}
      BY DEF PhoneInv
    <3> QED BY <2>4, <2>5, <3>1
  <2>7. summary' = NoSummary
    BY <2>1 DEF PhoneInv
  <2> QED BY <2>1, <2>6, <2>7 DEF PhoneInv
<1> QED
  BY <1>1, <1>2, <1>3, <1>4, <1>5 DEF Next, RunStep

(* The summary of results that were dealt with: the run is pressing unless *)
(* something was posted and nothing failed.                                *)
LEMMA PostedCount ==
  ASSUME NEW rs, IsFiniteSet(rs)
  PROVE  LET well == {r \in rs \ FailedSlots(rs) : r.ids # NoIds} IN
         IsFiniteSet(well) /\ Posted(rs) = Cardinality(well)
<1> DEFINE failed == FailedSlots(rs)
           empty == EmptySlots(rs)
           well == {r \in rs \ failed : r.ids # NoIds}
<1>1. /\ failed \subseteq rs /\ empty \subseteq rs \ failed
      /\ well = (rs \ failed) \ empty
  BY DEF FailedSlots, EmptySlots
<1> HIDE DEF failed, empty, well
<1>2. /\ IsFiniteSet(failed) /\ IsFiniteSet(rs \ failed)
      /\ Cardinality(rs \ failed) = Cardinality(rs) - Cardinality(rs \cap failed)
  BY <1>1, FS_Difference, FS_Subset
<1>3. /\ IsFiniteSet(well)
      /\ Cardinality(well) = Cardinality(rs \ failed) - Cardinality((rs \ failed) \cap empty)
  BY <1>1, <1>2, FS_Difference
<1>4. rs \cap failed = failed /\ (rs \ failed) \cap empty = empty
  BY <1>1
<1>5. Cardinality(well) = Cardinality(rs) - Cardinality(failed) - Cardinality(empty)
  BY <1>2, <1>3, <1>4
<1> QED BY <1>3, <1>5 DEF Posted, failed, empty, well

LEMMA HowItWent ==
  ASSUME NEW r, Whole(r)
  PROVE  /\ (\E p \in Platforms : Event(r, p) = "error")
              <=> \E p \in Platforms : Classify(r, p) = "failed"
         /\ r.ids # NoIds
              <=> \E p \in Platforms : Classify(r, p) \in {"confirmed", "unconfirmed"}
<1>1. \A p \in Platforms : Handled(r, p)
  BY DEF Whole
<1>2. \A p \in Platforms : Event(r, p) = "error" <=> Classify(r, p) = "failed"
  BY <1>1, HandledClass
<1>3. \A p \in Platforms : r.ids[p] # "" <=> Classify(r, p) \in {"confirmed", "unconfirmed"}
  BY <1>1, HandledClass
<1>4. r.ids # NoIds <=> \E p \in Platforms : r.ids[p] # ""
  BY DEF Whole, IsResult, NoIds
<1> QED BY <1>2, <1>3, <1>4

(* The platforms an event is noted of are those history classes alike.     *)
LEMMA NotedAlike ==
  ASSUME NEW rs, \A r \in rs : r.slot \in Accounts, NEW event, NEW class,
         \A r \in rs, p \in Platforms : Event(r, p) = event <=> Classify(r, p) = class
  PROVE  Noted(rs, event) = {pair \in Pairs : class \in ClassOf(rs, pair)}
<1>1. ASSUME NEW pair \in Noted(rs, event)
      PROVE  pair \in Pairs /\ class \in ClassOf(rs, pair)
  <2>1. PICK r \in rs, p \in Platforms : pair = <<r.slot, p>> /\ Event(r, p) = event
    BY DEF Noted
  <2> QED BY <2>1 DEF Pairs, ClassOf, ResultOf
<1>2. ASSUME NEW pair \in Pairs, class \in ClassOf(rs, pair)
      PROVE  pair \in Noted(rs, event)
  <2>1. PICK r \in rs : r.slot = pair[1] /\ Classify(r, pair[2]) = class
    BY <1>2 DEF ClassOf, ResultOf
  <2>2. pair[2] \in Platforms /\ pair = <<r.slot, pair[2]>>
    BY <1>2, <2>1 DEF Pairs
  <2>3. Event(r, pair[2]) = event
    BY <2>1, <2>2
  <2> QED BY <2>2, <2>3 DEF Noted
<1> QED BY <1>1, <1>2

(* _platform_events, _notify_run_summary: the phone is pushed what failed  *)
(* or is unconfirmed and nothing else, and its summary tells what history  *)
(* tells; it is pressing unless something was posted and nothing failed.   *)
THEOREM PhoneAgreesCorrect == Spec => []PhoneAgrees
<1>1. RunInv /\ StoryInv /\ SlotInv /\ PhoneInv => PhoneAgrees
  <2> DEFINE rs == InPostAll
             Of(class) == {pair \in Pairs : class \in ClassOf(rs, pair)}
  <2> SUFFICES ASSUME RunInv, StoryInv, SlotInv, PhoneInv, summary # NoSummary
               PROVE  /\ {<<push[1], push[2]>> : push \in pushes}
                            = Of("failed") \cup Of("unconfirmed")
                      /\ summary.failed = Of("failed")
                      /\ summary.unconfirmed = Of("unconfirmed")
                      /\ summary.skipped = Of("skipped")
                      /\ summary.urgent = (\/ Of("failed") # {}
                                           \/ Of("confirmed") \cup Of("unconfirmed") = {})
    BY DEF PhoneAgrees
  <2>1. /\ summary = Summary(rs) /\ pushes = UNION {DuePushes(r) : r \in rs}
        /\ rs \subseteq results
    BY DEF PhoneInv, InPostAll
  <2>2. IsFiniteSet(rs)
    BY <2>1, FS_Subset DEF SlotInv
  <2>3. \A r \in rs : r.slot \in Accounts /\ Whole(r)
    BY <2>1 DEF SlotInv, StoryInv, ResultInv
  <2>4. \A r \in rs, p \in Platforms : Handled(r, p)
    BY <2>3 DEF Whole
  <2> HIDE DEF rs
  <2>5. \A r \in rs, p \in Platforms :
          /\ Event(r, p) = "error" <=> Classify(r, p) = "failed"
          /\ Event(r, p) = "skipped" <=> Classify(r, p) = "skipped"
          /\ Event(r, p) = "unconfirmed" <=> Classify(r, p) = "unconfirmed"
    BY <2>4, HandledClass
  <2>6. Noted(rs, "error") = Of("failed")
    <3>1. \A r \in rs, p \in Platforms : Event(r, p) = "error" <=> Classify(r, p) = "failed"
      BY <2>5
    <3> QED BY <2>3, <3>1, NotedAlike
  <2>7. Noted(rs, "skipped") = Of("skipped")
    <3>1. \A r \in rs, p \in Platforms : Event(r, p) = "skipped" <=> Classify(r, p) = "skipped"
      BY <2>5
    <3> QED BY <2>3, <3>1, NotedAlike
  <2>8. Noted(rs, "unconfirmed") = Of("unconfirmed")
    <3>1. \A r \in rs, p \in Platforms :
            Event(r, p) = "unconfirmed" <=> Classify(r, p) = "unconfirmed"
      BY <2>5
    <3> QED BY <2>3, <3>1, NotedAlike
  <2>9. {<<push[1], push[2]>> : push \in pushes} = Noted(rs, "error") \cup Noted(rs, "unconfirmed")
    <3>1. ASSUME NEW push \in pushes
          PROVE  <<push[1], push[2]>> \in Noted(rs, "error") \cup Noted(rs, "unconfirmed")
      <4>1. PICK r \in rs : push \in DuePushes(r)
        BY <2>1, <3>1
      <4>2. PICK p \in Platforms : /\ push = <<r.slot, p, Event(r, p)>>
                                   /\ Event(r, p) \in {"error", "unconfirmed"}
        BY <4>1 DEF DuePushes
      <4>3. <<push[1], push[2]>> = <<r.slot, p>>
        BY <4>2
      <4> QED BY <4>2, <4>3 DEF Noted
    <3>2. ASSUME NEW event \in {"error", "unconfirmed"}, NEW pair \in Noted(rs, event)
          PROVE  \E push \in pushes : pair = <<push[1], push[2]>>
      <4>1. PICK r \in rs, p \in Platforms : pair = <<r.slot, p>> /\ Event(r, p) = event
        BY <3>2 DEF Noted
      <4>2. <<r.slot, p, Event(r, p)>> \in DuePushes(r)
        BY <4>1 DEF DuePushes
      <4>3. <<r.slot, p, Event(r, p)>> \in pushes
        BY <2>1, <4>2
      <4> QED BY <4>1, <4>3
    <3> QED BY <3>1, <3>2
  <2>10. FailedSlots(rs) # {} <=> Of("failed") # {}
    <3>1. ASSUME NEW r \in FailedSlots(rs) PROVE Noted(rs, "error") # {}
      <4>1. PICK p \in Platforms : r \in rs /\ Event(r, p) = "error"
        BY DEF FailedSlots
      <4>2. <<r.slot, p>> \in Noted(rs, "error")
        BY <4>1 DEF Noted
      <4> QED BY <4>2
    <3>2. ASSUME NEW pair \in Noted(rs, "error") PROVE FailedSlots(rs) # {}
      <4>1. PICK r \in rs : \E p \in Platforms : Event(r, p) = "error"
        BY DEF Noted
      <4> QED BY <4>1 DEF FailedSlots
    <3> QED BY <2>6, <3>1, <3>2
  <2>11. Of("failed") = {} =>
           (Posted(rs) = 0 <=> Of("confirmed") \cup Of("unconfirmed") = {})
    <3> SUFFICES ASSUME Of("failed") = {}
                 PROVE  Posted(rs) = 0 <=> Of("confirmed") \cup Of("unconfirmed") = {}
      OBVIOUS
    <3> DEFINE well == {r \in rs \ FailedSlots(rs) : r.ids # NoIds}
    <3>1. IsFiniteSet(well) /\ Posted(rs) = Cardinality(well)
      BY <2>2, PostedCount
    <3>2. well = {r \in rs : r.ids # NoIds}
      BY <2>10
    <3>3. \A r \in rs : r.ids # NoIds
            <=> \E p \in Platforms : Classify(r, p) \in {"confirmed", "unconfirmed"}
      BY <2>3, HowItWent
    <3>4. \A class : Of(class) # {} <=>
            \E r \in rs, p \in Platforms : Classify(r, p) = class
      <4>1. ASSUME NEW class, NEW r \in rs, NEW p \in Platforms, Classify(r, p) = class
            PROVE  <<r.slot, p>> \in Of(class)
        BY <2>3, <4>1 DEF Pairs, ClassOf, ResultOf
      <4>2. ASSUME NEW class, NEW pair \in Of(class)
            PROVE  \E r \in rs, p \in Platforms : Classify(r, p) = class
        BY <4>2 DEF Pairs, ClassOf, ResultOf
      <4> QED BY <4>1, <4>2
    <3> HIDE DEF Of, well
    <3>5. well = {} <=> (Of("confirmed") = {} /\ Of("unconfirmed") = {})
      BY <3>2, <3>3, <3>4
    <3> QED BY <3>1, <3>5, FS_EmptySet
  <2>12. /\ summary.failed = Noted(rs, "error") /\ summary.skipped = Noted(rs, "skipped")
         /\ summary.unconfirmed = Noted(rs, "unconfirmed")
         /\ summary.urgent = (FailedSlots(rs) # {} \/ Posted(rs) = 0)
    BY <2>1 DEF Summary
  <2> HIDE DEF Of
  <2>13. summary.urgent = (\/ Of("failed") # {}
                           \/ Of("confirmed") \cup Of("unconfirmed") = {})
    BY <2>10, <2>11, <2>12
  <2> QED
    BY <2>6, <2>7, <2>8, <2>9, <2>12, <2>13
<1> QED
  BY RunInit, RunStepKeeps, StoryInit, StoryKeeps, SlotInit, SlotKeeps, PhoneInit,
     PhoneKeeps, <1>1, PTL DEF Spec
-----------------------------------------------------------------------------
(* What an event adds to what is shown.                                    *)
LEMMA ShownMore ==
  ASSUME NEW T, progress.events \in Seq(T),
         NEW a, NEW q, NEW status, <<a, q, status>> \in T, NEW pair,
         progress'.events = Append(progress.events, <<a, q, status>>)
  PROVE  Shown(pair)' = Shown(pair) \cup
           (IF pair = <<a, q>> /\ status # "started" THEN {status} ELSE {})
<1> DEFINE old == progress.events
           new == progress'.events
           n == Len(old)
           event == <<a, q, status>>
<1>1. /\ n \in Nat /\ DOMAIN old = 1..n /\ DOMAIN new = 1..(n + 1)
      /\ \A i \in 1..n : new[i] = old[i]
      /\ new[n + 1] = event
  <2>1. /\ new \in Seq(T) /\ Len(new) = n + 1
        /\ \A i \in 1..n : new[i] = old[i]
        /\ new[n + 1] = event
    BY AppendProperties
  <2>2. n \in Nat /\ DOMAIN old = 1..n /\ DOMAIN new = 1..Len(new)
    BY <2>1, LenProperties
  <2> QED BY <2>1, <2>2
<1>2. event[1] = a /\ event[2] = q /\ event[3] = status
  OBVIOUS
<1>3. Shown(pair) = {old[i][3] : i \in {j \in 1..n : <<old[j][1], old[j][2]>> = pair}} \ {"started"}
  BY <1>1 DEF Shown
<1>4. Shown(pair)' = {new[i][3] : i \in {j \in 1..(n + 1) : <<new[j][1], new[j][2]>> = pair}} \ {"started"}
  BY <1>1 DEF Shown
<1> HIDE DEF old, new, n, event
<1> QED BY <1>1, <1>2, <1>3, <1>4

LEMMA ShownSame ==
  ASSUME progress'.events = progress.events, NEW pair
  PROVE  Shown(pair)' = Shown(pair)
BY DEF Shown

LEMMA SameClass ==
  ASSUME NEW r, NEW t, NEW p, ErrorsOf(r, p) = ErrorsOf(t, p), r.ids[p] = t.ids[p]
  PROVE  Words(r, p) = Words(t, p)
BY DEF Words, Classify

LEMMA OneIdWords ==
  ASSUME NEW r, IsResult(r), NEW q \in Platforms, ErrorsOf(r, q) = {},
         NEW v \in {"ok", "unconfirmed"}, NEW t, t = [r EXCEPT !.ids[q] = v]
  PROVE  /\ Words(t, q) = {v}
         /\ \A p \in Platforms \ {q} : Words(t, p) = Words(r, p)
<1>1. /\ t.ids[q] = v
      /\ \A p \in Platforms \ {q} : t.ids[p] = r.ids[p]
      /\ \A p \in Platforms : ErrorsOf(t, p) = ErrorsOf(r, p)
  BY OneIdMore
<1>2. Classify(t, q) = IF v = "ok" THEN "confirmed" ELSE "unconfirmed"
  BY <1>1 DEF Classify
<1>3. Words(t, q) = {v}
  BY <1>2 DEF Words, Word
<1> QED BY <1>1, <1>3, SameClass

LEMMA WordsOf ==
  ASSUME NEW r, NEW p, Handled(r, p)
  PROVE  /\ Words(r, p) \cap {"ok", "unconfirmed"} # {}
              <=> Classify(r, p) \in {"confirmed", "unconfirmed"}
         /\ "error" \in Words(r, p) <=> Classify(r, p) = "failed"
<1>1. Classify(r, p) \in {"disabled", "skipped", "failed", "confirmed", "unconfirmed"}
  BY HandledClass
<1> DEFINE class == Classify(r, p)
<1>2. Words(r, p) = IF class = "disabled" THEN {} ELSE {Word[class]}
  BY DEF Words
<1> HIDE DEF class
<1> QED BY <1>1, <1>2 DEF Word, class

(* _record_progress, and the finish, of either kind of run.                *)
LEMMA ReportedIs ==
  ASSUME ReportInv, NEW status, progress' = Reported(status)
  PROVE  /\ kind # "manual" => progress' = progress
         /\ kind = "manual" =>
              /\ progress' = [active |-> progress.active,
                              current |-> IF status = "started" THEN {<<Present, turn>>} ELSE {},
                              waiting |-> {},
                              events |-> Append(progress.events, <<Present, turn, status>>)]
BY DEF ReportInv, Reported

LEMMA FinishedIs ==
  ASSUME ReportInv, progress' = Finished
  PROVE  /\ kind # "manual" => progress' = progress
         /\ kind = "manual" =>
              progress' = [active |-> FALSE, current |-> {}, waiting |-> {},
                           events |-> progress.events]
BY DEF ReportInv, Finished
-----------------------------------------------------------------------------
LEMMA PageInit == Init => PageInv
<1> SUFFICES ASSUME Init PROVE PageInv
  OBVIOUS
<1>1. /\ at = "idle" /\ kind = "none"
      /\ progress = [active |-> FALSE, current |-> {}, waiting |-> {}, events |-> <<>>]
  BY DEF Init, Idle
<1>2. ProgressFollows
  BY <1>1 DEF ProgressFollows, Running, Ended
<1>3. ReportInv
  BY <1>1, <1>2, EmptySeq DEF ReportInv
<1> QED BY <1>1, <1>3 DEF PageInv

(* Where a run stands after each of its steps, and what is reported.       *)
LEMMA ReportKeeps == RunInv /\ StoryInv /\ SlotInv /\ ReportInv /\ [Next]_vars => ReportInv'
<1> SUFFICES ASSUME RunInv, StoryInv, SlotInv, ReportInv, [Next]_vars PROVE ReportInv'
  OBVIOUS
<1> USE DEF ReportInv, ProgressFollows, Running, Ended, Present
<1>1. ASSUME (\E a \in Accounts : UploadMedia(a)) \/ ClearMedia \/ UNCHANGED vars
      PROVE  ReportInv'
  BY <1>1 DEF UploadMedia, ClearMedia, vars, run
<1>2. CASE RefusedPost
  <2>1. UNCHANGED run /\ progress' = [active |-> FALSE, current |-> {}, waiting |-> {},
                                      events |-> <<>>] /\ ~Running
    BY <1>2 DEF RefusedPost, Idle
  <2> QED BY <2>1, EmptySeq DEF run
<1>3. ASSUME NEW order, NEW en, \A a \in Accounts : en[a] # {}, PostAll(order, en)
      PROVE  ReportInv'
  <2>1. /\ at = "idle" /\ kind' = "manual" /\ enabled' = en /\ ruledOut' = ruledOut
        /\ at' \in {"record", "look"}
        /\ progress' = [active |-> TRUE, current |-> {}, waiting |-> {}, events |-> <<>>]
    BY <1>3 DEF PostAll, Started, Idle
  <2> QED BY <1>3, <2>1, EmptySeq DEF SlotInv
<1>4. ASSUME NEW order, NEW en, NEW ro, PostBatch(order, en, ro)
      PROVE  ReportInv'
  <2>1. at = "idle" /\ kind' = "scheduled" /\ progress' = progress /\ at' \in {"record", "look"}
    BY <1>4 DEF PostBatch
  <2> QED BY <2>1
<1>5. CASE LookUp
  <2>1. /\ at = "look" /\ at' = "turn" /\ turn' = "instagram"
        /\ UNCHANGED <<kind, todo, enabled, ruledOut, progress>>
    BY <1>5 DEF LookUp
  <2> QED BY <2>1
(* The end of a turn that is reported.                                     *)
<1>a. ASSUME NEW status \in Statuses, status # "started", progress' = Reported(status),
             at \in {"turn", "posting"}, Advance,
             UNCHANGED <<kind, todo, enabled, ruledOut>>
      PROVE  ReportInv'
  <2>1. /\ at' \in {"turn", "notify"} /\ Present \in Accounts /\ turn \in Platforms
    BY <1>a, HeadApart DEF Advance, RunInv, ControlInv
  <2>2. CASE kind # "manual"
    BY <1>a, <2>1, <2>2, ReportedIs
  <2>3. CASE kind = "manual"
    <3>1. progress' = [active |-> progress.active, current |-> {}, waiting |-> {},
                       events |-> Append(progress.events, <<Present, turn, status>>)]
      BY <1>a, <2>3, ReportedIs
    <3>2. progress'.events \in Seq(Accounts \X Platforms \X Statuses)
      BY <2>1, <3>1, AppendProperties
    <3>3. Running /\ Running'
      BY <1>a, <2>1
    <3>4. progress'.active = TRUE
      BY <2>3, <3>1, <3>3
    <3>5. ProgressFollows'
      BY <1>a, <2>1, <2>3, <3>1, <3>3, <3>4
    <3> QED BY <1>a, <2>1, <2>3, <3>1, <3>2, <3>5
  <2> QED BY <2>2, <2>3
<1>6. CASE TakeTurn
  <2>1. at = "turn" /\ UNCHANGED <<kind, todo, enabled, ruledOut>>
    BY <1>6 DEF TakeTurn
  <2>2. Present \in Accounts /\ turn \in Platforms
    BY <2>1, HeadApart DEF RunInv, ControlInv
  <2>3. CASE turn \notin enabled[Present]
    <3>1. progress' = progress /\ Advance
      BY <1>6, <2>3 DEF TakeTurn, LeaveOut
    <3>2. enabled[Present] \subseteq Platforms
      BY <2>2 DEF StoryInv, ResultInv
    <3>3. CASE turn = "instagram"
      <4>1. at' = "turn" /\ turn' = "tiktok"
        BY <3>1, <3>3 DEF Advance
      <4> QED BY <2>1, <2>3, <3>1, <3>3, <4>1
    <3>4. CASE turn = "tiktok"
      <4>1. at' = "notify"
        BY <3>1, <3>4 DEF Advance
      <4>2. progress.waiting = {}
        <5>1. CASE kind # "manual"
          BY <5>1
        <5>2. CASE kind = "manual"
          <6>1. enabled[Present] # {}
            BY <2>2, <5>2
          <6>2. "instagram" \in enabled[Present]
            BY <2>3, <3>2, <3>4, <6>1 DEF Platforms
          <6> QED BY <2>1, <3>4, <6>2
        <5> QED BY <5>1, <5>2
      <4> QED BY <2>1, <3>1, <4>1, <4>2
    <3> QED BY <2>2, <3>3, <3>4 DEF Platforms
  <2>4. CASE turn \in enabled[Present] /\ at' = "posting"
    <3>1. progress' = Reported("started") /\ turn' = turn
      BY <1>6, <2>4 DEF TakeTurn, LeaveOut, Advance
    <3>2. CASE kind # "manual"
      BY <2>1, <2>4, <3>1, <3>2, ReportedIs
    <3>3. CASE kind = "manual"
      <4>1. progress' = [active |-> progress.active, current |-> {<<Present, turn>>},
                         waiting |-> {},
                         events |-> Append(progress.events, <<Present, turn, "started">>)]
        BY <3>1, <3>3, ReportedIs
      <4>2. <<Present, turn, "started">> \in Accounts \X Platforms \X Statuses
        BY <2>2 DEF Statuses
      <4>3. progress'.events \in Seq(Accounts \X Platforms \X Statuses)
        BY <4>1, <4>2, AppendProperties
      <4> QED BY <2>1, <2>4, <3>1, <3>3, <4>1, <4>3
    <3> QED BY <3>2, <3>3
  <2>5. CASE turn \in enabled[Present] /\ at' # "posting"
    <3>1. progress' = Reported("skipped") /\ Advance
      BY <1>6, <2>5 DEF TakeTurn, LeaveOut
    <3>2. "skipped" \in Statuses /\ "skipped" # "started"
      BY DEF Statuses
    <3> QED BY <1>a, <2>1, <3>1, <3>2
  <2> QED BY <2>3, <2>4, <2>5
<1>7. ASSUME HandOver \/ Answer PROVE ReportInv'
  BY <1>7 DEF HandOver, Answer, run
<1>8. CASE Returned
  <2>1. /\ at = "posting" /\ Advance /\ UNCHANGED <<kind, todo, enabled, ruledOut>>
        /\ verdict \in {"confirmed", "unconfirmed", "failed"}
    BY <1>8 DEF Returned, StoryInv, ResultInv
  <2>2. PICK status \in {"ok", "unconfirmed", "error"} : progress' = Reported(status)
    BY <1>8, <2>1 DEF Returned
  <2>3. status \in Statuses /\ status # "started"
    BY DEF Statuses
  <2>4. at \in {"turn", "posting"}
    BY <2>1
  <2> HIDE DEF ReportInv
  <2> QED BY <1>a, <2>1, <2>2, <2>3, <2>4
<1>9. CASE NotifySlot
  <2>1. /\ at = "notify" /\ at' \in {"summary", "gap", "look"}
        /\ UNCHANGED <<kind, enabled, ruledOut>>
    BY <1>9, SettingsAssumption DEF NotifySlot
  <2>2. CASE at' # "gap" \/ kind # "manual"
    <3>1. progress' = progress
      BY <1>9, <2>2 DEF NotifySlot, ReportsWaiting
    <3> QED BY <2>1, <2>2, <3>1
  <2>3. CASE at' = "gap" /\ kind = "manual"
    <3>1. progress' = [active |-> progress.active, current |-> progress.current,
                       waiting |-> {Head(todo')}, events |-> progress.events]
      BY <1>9, <2>3 DEF NotifySlot, ReportsWaiting
    <3>2. Running /\ Running' /\ progress.current = {}
      BY <2>1, <2>3
    <3>3. ProgressFollows'
      BY <2>1, <2>3, <3>1, <3>2
    <3> QED BY <2>1, <2>3, <3>1, <3>3
  <2> QED BY <2>2, <2>3
<1>10. ASSUME EndGap \/ Summarise PROVE ReportInv'
  <2>1. /\ UNCHANGED <<kind, todo, enabled, ruledOut, progress>>
        /\ \/ at = "gap" /\ at' = "look"
           \/ at = "summary" /\ at' = "record"
    BY <1>10 DEF EndGap, Summarise
  <2> QED BY <2>1
<1>11. ASSUME Record \/ Escape PROVE ReportInv'
  <2>1. /\ at \in {"record", "look"} /\ at' \in {"over", "unrecorded"}
        /\ UNCHANGED <<kind, enabled, ruledOut>> /\ progress' = Finished
    BY <1>11 DEF Record, Escape
  <2>2. CASE kind # "manual"
    <3>1. progress' = progress
      BY <2>1, <2>2, FinishedIs
    <3>2. progress.waiting = {} /\ progress.current = {} /\ progress.active = FALSE
      BY <2>1, <2>2
    <3> QED BY <2>1, <2>2, <3>1, <3>2
  <2>3. CASE kind = "manual"
    <3>1. progress' = [active |-> FALSE, current |-> {}, waiting |-> {},
                       events |-> progress.events]
      BY <2>1, <2>3, FinishedIs
    <3>2. ~Running' /\ progress'.active = FALSE
      BY <2>1, <3>1
    <3>3. ProgressFollows'
      <4>1. progress'.current = {} /\ progress'.waiting = {}
        BY <3>1
      <4>2. (progress.active = (kind = "manual" /\ Running))'
        <5> HIDE DEF Running
        <5> QED BY <3>2, Zenon
      <4> QED BY <2>1, <4>1, <4>2
    <3>4. ~(at = "turn" \/ at = "idle")'
      BY <2>1
    <3>5. progress'.events = progress.events
      BY <3>1
    <3> HIDE DEF ProgressFollows, Running
    <3> QED BY <2>1, <2>3, <3>1, <3>3, <3>4, <3>5
  <2> QED BY <2>2, <2>3
<1> QED
  BY <1>1, <1>2, <1>3, <1>4, <1>5, <1>6, <1>7, <1>8, <1>9, <1>10, <1>11 DEF Next, RunStep
-----------------------------------------------------------------------------
(* The end of a turn, as it is shown: the present platform in its words,   *)
(* nothing else changed.                                                   *)
LEMMA ShownTurnEnds ==
  ASSUME RunInv, SlotInv, ShownInv, NEW q \in Platforms, turn = q,
         at \in {"turn", "posting"}, Advance, UNCHANGED <<todo, results>>,
         Shown(<<Present, q>>)' = Words(result', q),
         \A pair \in Pairs : pair # <<Present, q>> => Shown(pair)' = Shown(pair),
         \A p \in Platforms \ {q} : Words(result', p) = Words(result, p)
  PROVE  ShownInv'
<1>1. /\ Present' = Present /\ Present \in Accounts
      /\ Present \notin {r.slot : r \in results} /\ Begun = {Present}
  <2>1. todo # <<>> /\ Present \in Accounts /\ Present \in Named(todo)
    BY HeadApart DEF RunInv, ControlInv, Present
  <2> QED BY <2>1 DEF SlotInv, Present, Begun
<1>2. /\ at' \in {"turn", "notify"} /\ Begun' = {Present}
      /\ at' = "turn" <=> q = "instagram"
      /\ at' = "turn" => turn' = "tiktok"
      /\ q = "instagram" \/ q = "tiktok"
  BY <1>1 DEF Advance, Begun, Platforms
<1>3. \A r \in results', p \in Platforms : Shown(<<r.slot, p>>)' = Words(r, p)
  <2> SUFFICES ASSUME NEW r \in results, NEW p \in Platforms
               PROVE  Shown(<<r.slot, p>>)' = Words(r, p)
    OBVIOUS
  <2>1. r.slot \in Accounts /\ r.slot # Present
    BY <1>1 DEF SlotInv
  <2>2. Shown(<<r.slot, p>>)' = Shown(<<r.slot, p>>)
    BY <2>1 DEF Pairs
  <2> QED BY <2>2 DEF ShownInv
<1>4. \A a \in Accounts \ Begun', p \in Platforms :
        a \notin {r.slot : r \in results'} => Shown(<<a, p>>)' = {}
  <2> SUFFICES ASSUME NEW a \in Accounts \ Begun', NEW p \in Platforms,
                      a \notin {r.slot : r \in results}
               PROVE  Shown(<<a, p>>)' = {}
    OBVIOUS
  <2>1. a # Present /\ a \in Accounts \ Begun
    BY <1>1, <1>2
  <2>2. Shown(<<a, p>>)' = Shown(<<a, p>>)
    BY <2>1 DEF Pairs
  <2> QED BY <2>1, <2>2 DEF ShownInv
<1>5. CASE q = "instagram"
  <2>1. "tiktok" \in Platforms /\ "tiktok" # q
    BY <1>5 DEF Platforms
  <2>2. Shown(<<Present, "tiktok">>)' = {}
    BY <1>1, <1>5, <2>1 DEF ShownInv, Pairs
  <2> QED BY <1>1, <1>2, <1>3, <1>4, <1>5, <2>2 DEF ShownInv
<1>6. CASE q = "tiktok"
  <2>1. "instagram" \in Platforms /\ "instagram" # q
    BY <1>6 DEF Platforms
  <2>2. Shown(<<Present, "instagram">>)' = Words(result', "instagram")
    BY <1>1, <1>6, <2>1 DEF ShownInv, Pairs
  <2>3. \A p \in Platforms : Shown(<<Present, p>>)' = Words(result', p)
    BY <1>6, <2>2 DEF Platforms
  <2> QED BY <1>1, <1>2, <1>3, <1>4, <1>6, <2>3 DEF ShownInv
<1> QED BY <1>2, <1>5, <1>6

(* One event of the present platform adds its word.                        *)
LEMMA ShownReported ==
  ASSUME RunInv, ReportInv, kind = "manual", at \in {"turn", "posting"},
         NEW status \in Statuses, progress' = Reported(status)
  PROVE  \A pair : Shown(pair)' = Shown(pair) \cup
           (IF pair = <<Present, turn>> /\ status # "started" THEN {status} ELSE {})
<1>1. <<Present, turn, status>> \in Accounts \X Platforms \X Statuses
  BY HeadApart DEF RunInv, ControlInv, Present
<1>2. progress'.events = Append(progress.events, <<Present, turn, status>>)
  BY ReportedIs
<1>3. progress.events \in Seq(Accounts \X Platforms \X Statuses)
  BY DEF ReportInv
<1> DEFINE T == Accounts \X Platforms \X Statuses
<1> HIDE DEF T
<1> SUFFICES ASSUME NEW pair
             PROVE  Shown(pair)' = Shown(pair) \cup
               (IF pair = <<Present, turn>> /\ status # "started" THEN {status} ELSE {})
  OBVIOUS
<1>4. <<Present, turn, status>> \in T /\ progress.events \in Seq(T)
  BY <1>1, <1>3 DEF T
<1> QED BY <1>2, <1>4, ShownMore

(* The words of a platform that was left out, or posted to.                *)
LEMMA LeaveOutShown ==
  ASSUME RunInv, SlotInv, ReportInv, ShownInv, kind = "manual", at = "turn", InTurn,
         NEW k \in {"disabled", "preflight", "no_session"}, LeaveOut(k),
         UNCHANGED <<todo, results>>
  PROVE  ShownInv'
<1>1. PICK q \in Platforms : turn = q
  BY DEF InTurn
<1>2. /\ IsResult(result) /\ Advance /\ ErrorsOf(result, q) = {}
      /\ result' = [result EXCEPT !.errors = @ \cup {Error(q, k)}]
  BY <1>1 DEF InTurn, LeaveOut
<1>3. /\ result'.ids = result.ids /\ ErrorsOf(result', q) = {Error(q, k)}
      /\ \A p \in Platforms \ {q} : ErrorsOf(result', p) = ErrorsOf(result, p)
  BY <1>2, OneErrorMore
<1>4. result'.ids[q] = ""
  BY <1>1, <1>3 DEF InTurn
<1>5. Words(result', q) = IF k = "disabled" THEN {} ELSE {"skipped"}
  <2>1. Classify(result', q) = IF k = "disabled" THEN "disabled" ELSE "skipped"
    BY <1>3, <1>4, ErrorClass
  <2> QED BY <2>1 DEF Words, Word
<1>6. \A p \in Platforms \ {q} : Words(result', p) = Words(result, p)
  BY <1>3, SameClass
<1>7. Shown(<<Present, q>>) = {} /\ Present' = Present
  BY <1>1 DEF ShownInv, Present
<1>8. /\ Shown(<<Present, q>>)' = Words(result', q)
      /\ \A pair \in Pairs : pair # <<Present, q>> => Shown(pair)' = Shown(pair)
  <2>1. CASE k = "disabled"
    <3>1. progress' = progress
      BY <2>1 DEF LeaveOut
    <3> QED BY <1>5, <1>7, <2>1, <3>1, ShownSame
  <2>2. CASE k # "disabled"
    <3>1. progress' = Reported("skipped")
      BY <2>2 DEF LeaveOut
    <3>2. "skipped" \in Statuses /\ "skipped" # "started"
      BY DEF Statuses
    <3>3. \A pair : Shown(pair)' = Shown(pair) \cup
            (IF pair = <<Present, q>> THEN {"skipped"} ELSE {})
      BY <1>1, <3>1, <3>2, ShownReported
    <3> QED BY <1>5, <1>7, <2>2, <3>3
  <2> QED BY <2>1, <2>2
<1> QED BY <1>1, <1>2, <1>6, <1>8, ShownTurnEnds

LEMMA ReturnedShown ==
  ASSUME RunInv, StoryInv, SlotInv, ReportInv, ShownInv, kind = "manual", Returned
  PROVE  ShownInv'
<1>1. /\ at = "posting" /\ InTurn /\ Advance /\ UNCHANGED <<todo, results>>
      /\ verdict \in {"confirmed", "unconfirmed", "failed"}
  BY DEF StoryInv, ResultInv, Returned
<1>2. PICK q \in Platforms : turn = q
  BY <1>1 DEF InTurn
<1>3. IsResult(result) /\ ErrorsOf(result, q) = {}
  BY <1>1, <1>2 DEF InTurn
<1>4. result.ids[q] = ""
  BY <1>1, <1>2 DEF InTurn
<1> DEFINE word == CASE verdict = "confirmed" -> "ok"
                     [] verdict = "unconfirmed" -> "unconfirmed"
                     [] verdict = "failed" -> "error"
<1>5. /\ Words(result', q) = {word}
      /\ \A p \in Platforms \ {q} : Words(result', p) = Words(result, p)
  <2>1. CASE verdict = "failed"
    <3>1. result' = [result EXCEPT !.errors = @ \cup {Error(q, "real")}]
      BY <1>2, <2>1 DEF Returned
    <3>2. /\ result'.ids = result.ids /\ ErrorsOf(result', q) = {Error(q, "real")}
          /\ \A p \in Platforms \ {q} : ErrorsOf(result', p) = ErrorsOf(result, p)
      BY <1>3, <3>1, OneErrorMore
    <3>3. Classify(result', q) = "failed"
      BY <1>4, <3>2, ErrorClass
    <3> QED BY <2>1, <3>2, <3>3, SameClass DEF Words, Word
  <2>2. CASE verdict \in {"confirmed", "unconfirmed"}
    <3>1. result' = [result EXCEPT !.ids[q] = word]
      BY <1>2, <2>2 DEF Returned
    <3>2. word \in {"ok", "unconfirmed"}
      BY <2>2
    <3>3. IsResult(result) /\ ErrorsOf(result, q) = {}
      BY <1>3
    <3> HIDE DEF word
    <3> QED BY <3>1, <3>2, <3>3, OneIdWords
  <2> QED BY <1>1, <2>1, <2>2
<1>6. progress' = Reported(word)
  BY DEF Returned
<1>7. word \in Statuses /\ word # "started"
  BY <1>1 DEF Statuses
<1> HIDE DEF word
<1>8. \A pair : Shown(pair)' = Shown(pair) \cup
        (IF pair = <<Present, q>> THEN {word} ELSE {})
  BY <1>1, <1>2, <1>6, <1>7, ShownReported
<1>9. Shown(<<Present, q>>) = {} /\ Present' = Present
  BY <1>1, <1>2 DEF ShownInv, Present
<1>10. /\ Shown(<<Present, q>>)' = Words(result', q)
       /\ \A pair \in Pairs : pair # <<Present, q>> => Shown(pair)' = Shown(pair)
  BY <1>5, <1>8, <1>9
<1> QED BY <1>1, <1>2, <1>5, <1>10, ShownTurnEnds

LEMMA PageKeeps == RunInv /\ StoryInv /\ SlotInv /\ PageInv /\ [Next]_vars => PageInv'
<1> SUFFICES ASSUME RunInv, StoryInv, SlotInv, PageInv, [Next]_vars PROVE PageInv'
  OBVIOUS
<1>a. ReportInv /\ ReportInv'
  BY ReportKeeps DEF PageInv
<1>b. SUFFICES ASSUME (kind = "manual" /\ (~Ended \/ progress.events # <<>>))'
               PROVE  ShownInv'
  BY <1>a DEF PageInv
(* Steps that report nothing and leave the results alone.                  *)
<1>c. ASSUME ShownInv, UNCHANGED <<turn, result, results, todo>>,
             progress'.events = progress.events, Begun' \in {Begun, {}}, Begun' = {} => Begun = {},
             at' = "notify" => at = "notify",
             at' \in {"turn", "posting"} => at \in {"turn", "posting"}
      PROVE  ShownInv'
  <2>1. \A pair : Shown(pair)' = Shown(pair)
    BY <1>c, ShownSame
  <2>2. Begun' = Begun
    BY <1>c
  <2> QED BY <1>c, <2>1, <2>2 DEF ShownInv, Present
<1>1. ASSUME (\E a \in Accounts : UploadMedia(a)) \/ ClearMedia \/ UNCHANGED vars
      PROVE  ShownInv'
  <2>1. UNCHANGED <<run, progress>>
    BY <1>1 DEF UploadMedia, ClearMedia, vars
  <2>2. ShownInv
    BY <1>b, <2>1 DEF PageInv, run, Ended
  <2>3. Begun' = Begun
    BY <2>1 DEF run, Begun, Present
  <2> QED BY <1>c, <2>1, <2>2, <2>3 DEF run
<1>2. CASE RefusedPost
  <2>1. UNCHANGED run /\ progress'.events = <<>> /\ (at = "idle" \/ Ended)
    BY <1>2 DEF RefusedPost, Idle, Running
  <2>2. at # "idle"
    BY <1>a, <1>b, <2>1 DEF ReportInv, run
  <2> QED BY <1>b, <2>1, <2>2 DEF run, Ended
<1>3. ASSUME NEW order, NEW en, PostAll(order, en) PROVE ShownInv'
  <2>1. /\ at = "idle" /\ at' \in {"record", "look"} /\ results' = {}
        /\ progress'.events = <<>>
    BY <1>3 DEF PostAll, Started, Idle, StoryInv, ResultInv
  <2>2. DOMAIN progress'.events = {}
    BY <2>1
  <2>3. \A pair : Shown(pair)' = {}
    BY <2>2 DEF Shown
  <2> QED BY <2>1, <2>3 DEF ShownInv
<1>4. ASSUME NEW order, NEW en, NEW ro, PostBatch(order, en, ro) PROVE ShownInv'
  BY <1>b, <1>4 DEF PostBatch
(* Within the run, all has been shown so far.                              *)
<1>d. ASSUME kind' = kind, ~Ended PROVE ShownInv /\ kind = "manual"
  BY <1>b, <1>d DEF PageInv
<1>5. CASE LookUp
  <2>1. /\ at = "look" /\ at' = "turn" /\ turn' = "instagram"
        /\ UNCHANGED <<kind, todo, results, progress>>
    BY <1>5 DEF LookUp
  <2>2. ShownInv
    BY <1>d, <2>1 DEF Ended
  <2>3. \A pair : Shown(pair)' = Shown(pair)
    BY <2>1, ShownSame
  <2>4. Present \in Accounts /\ Present \notin {r.slot : r \in results} /\ Present' = Present
    BY <2>1, HeadApart DEF RunInv, ControlInv, SlotInv, Present
  <2>5. Begun = {} /\ Begun' = {Present}
    BY <2>1, <2>4 DEF Begun
  <2>6. \A p \in Platforms : Shown(<<Present, p>>) = {}
    BY <2>2, <2>4, <2>5 DEF ShownInv
  <2>7. "tiktok" \in Platforms /\ "instagram" \in Platforms
    BY DEF Platforms
  <2> QED BY <2>1, <2>2, <2>3, <2>4, <2>5, <2>6, <2>7 DEF ShownInv
<1>6. CASE TakeTurn
  <2>1. at = "turn" /\ UNCHANGED <<kind, todo, results>>
    BY <1>6 DEF TakeTurn
  <2>2. ShownInv /\ kind = "manual" /\ InTurn
    BY <1>d, <2>1 DEF Ended, StoryInv, ResultInv
  <2>3. CASE at' = "posting"
    <3>1. progress' = Reported("started") /\ UNCHANGED <<turn, result>>
      BY <1>6, <2>3 DEF TakeTurn, LeaveOut, Advance
    <3>2. \A pair : Shown(pair)' = Shown(pair)
      <4>1. "started" \in Statuses
        BY DEF Statuses
      <4> QED BY <1>a, <2>1, <2>2, <3>1, <4>1, ShownReported
    <3>3. Begun' = Begun /\ Present' = Present
      BY <2>1, <2>3 DEF Begun, Present
    <3> QED BY <2>1, <2>2, <2>3, <3>1, <3>2, <3>3 DEF ShownInv
  <2>4. CASE at' # "posting"
    <3>1. PICK k \in {"disabled", "preflight", "no_session"} : LeaveOut(k)
      BY <1>6, <2>4 DEF TakeTurn
    <3> QED BY <1>a, <2>1, <2>2, <3>1, LeaveOutShown
  <2> QED BY <2>3, <2>4
<1>7. ASSUME HandOver \/ Answer PROVE ShownInv'
  <2>1. UNCHANGED <<run, progress>> /\ at = "posting"
    BY <1>7 DEF HandOver, Answer
  <2>2. ShownInv
    BY <1>d, <2>1 DEF Ended, run
  <2>3. Begun' = Begun
    BY <2>1 DEF run, Begun, Present
  <2> QED BY <1>c, <2>1, <2>2, <2>3 DEF run
<1>8. CASE Returned
  <2>1. at = "posting" /\ kind' = kind
    BY <1>8 DEF Returned
  <2> QED BY <1>8, <1>a, <1>d, <2>1, ReturnedShown DEF Ended
<1>9. CASE NotifySlot
  <2>1. /\ at = "notify" /\ at' \in {"summary", "gap", "look"} /\ kind' = kind
        /\ results' = results \cup {result}
    BY <1>9, SettingsAssumption DEF NotifySlot
  <2>2. ShownInv
    BY <1>d, <2>1 DEF Ended
  <2>3. progress'.events = progress.events
    BY <1>9, <1>a DEF NotifySlot, ReportsWaiting, ReportInv
  <2>4. \A pair : Shown(pair)' = Shown(pair)
    BY <2>3, ShownSame
  <2>5. result.slot = Present
    BY <2>1 DEF StoryInv, ResultInv
  <2>6. Begun = {Present} /\ Begun' = {}
    BY <2>1 DEF Begun
  <2>7. \A p \in Platforms : Shown(<<result.slot, p>>) = Words(result, p)
    BY <2>1, <2>2, <2>5 DEF ShownInv
  <2>8. \A r \in results', p \in Platforms : Shown(<<r.slot, p>>)' = Words(r, p)
    BY <2>1, <2>2, <2>4, <2>7 DEF ShownInv
  <2>9. \A a \in Accounts \ Begun', p \in Platforms :
          a \notin {r.slot : r \in results'} => Shown(<<a, p>>)' = {}
    BY <2>1, <2>2, <2>4, <2>5, <2>6 DEF ShownInv
  <2> QED BY <2>1, <2>8, <2>9 DEF ShownInv
<1>10. ASSUME EndGap \/ Summarise \/ Record \/ Escape PROVE ShownInv'
  <2>1. /\ UNCHANGED <<kind, turn, result, results, todo>>
        /\ at \in {"gap", "summary", "record", "look"}
        /\ at' \in {"look", "record", "over", "unrecorded"}
    BY <1>10 DEF EndGap, Summarise, Record, Escape
  <2>2. progress'.events = progress.events
    <3>1. ASSUME EndGap \/ Summarise PROVE progress' = progress
      BY <3>1 DEF EndGap, Summarise
    <3>2. ASSUME Record \/ Escape PROVE progress' = Finished
      BY <3>2 DEF Record, Escape
    <3> QED BY <1>10, <1>a, <3>1, <3>2, FinishedIs
  <2>3. ShownInv
    BY <1>d, <2>1 DEF Ended
  <2>4. Begun' = {} /\ Begun = {}
    BY <2>1 DEF Begun
  <2> QED BY <1>c, <2>1, <2>2, <2>3, <2>4
<1> QED
  BY <1>1, <1>2, <1>3, <1>4, <1>5, <1>6, <1>7, <1>8, <1>9, <1>10 DEF Next, RunStep

(* An account is shown well exactly when it counts as posted.              *)
LEMMA ShownWellIs ==
  ASSUME NEW r, Whole(r), \A p \in Platforms : Shown(<<r.slot, p>>) = Words(r, p)
  PROVE  ShownWell(r.slot) <=>
           r.ids # NoIds /\ ~\E p \in Platforms : Event(r, p) = "error"
<1>1. \A p \in Platforms : Handled(r, p)
  BY DEF Whole
<1>2. \A p \in Platforms :
        /\ Words(r, p) \cap {"ok", "unconfirmed"} # {}
              <=> Classify(r, p) \in {"confirmed", "unconfirmed"}
        /\ "error" \in Words(r, p) <=> Classify(r, p) = "failed"
  BY <1>1, WordsOf
<1> QED BY <1>2, HowItWent DEF ShownWell

(* _record_progress, PostProgress, _notify_run_summary: the page follows a *)
(* manual run, and in the end it, the summary on the phone and history     *)
(* tell the same of every platform and of the number posted.               *)
THEOREM PageAgreesCorrect == Spec => []PageAgrees
<1>1. RunInv /\ StoryInv /\ SlotInv /\ PhoneInv /\ PageInv => PageAgrees
  <2> SUFFICES ASSUME RunInv, StoryInv, SlotInv, PhoneInv, PageInv,
                      kind = "manual", summary # NoSummary, progress.events # <<>>
               PROVE  /\ \A pair \in Pairs : \A class \in ClassOf(results, pair) :
                           Shown(pair) = IF class = "disabled" THEN {} ELSE {Word[class]}
                      /\ summary.posted = Cardinality({a \in Accounts : ShownWell(a)})
    BY DEF PageAgrees, PageInv, ReportInv
  <2>1. /\ ShownInv /\ at \in {"record", "over", "unrecorded"}
        /\ summary = Summary(InPostAll)
    BY DEF PageInv, PhoneInv
  <2>2. \A r \in results : r.slot \in Accounts /\ Whole(r)
    BY DEF SlotInv, StoryInv, ResultInv
  <2>3. InPostAll = results
    <3>1. \A a \in Accounts : ruledOut[a] # enabled[a]
      BY DEF PageInv, ReportInv
    <3> QED BY <2>2, <3>1 DEF InPostAll
  <2>4. ASSUME NEW pair \in Pairs, NEW class \in ClassOf(results, pair)
        PROVE  Shown(pair) = IF class = "disabled" THEN {} ELSE {Word[class]}
    <3>1. PICK r \in results : r.slot = pair[1] /\ class = Classify(r, pair[2])
      BY DEF ClassOf, ResultOf
    <3>2. pair = <<r.slot, pair[2]>> /\ pair[2] \in Platforms
      BY <3>1 DEF Pairs
    <3>3. Shown(<<r.slot, pair[2]>>) = Words(r, pair[2])
      BY <2>1, <3>2 DEF ShownInv
    <3> QED BY <3>1, <3>2, <3>3 DEF Words
  <2> DEFINE well == {r \in results \ FailedSlots(results) : r.ids # NoIds}
             shown == {a \in Accounts : ShownWell(a)}
  <2>5. IsFiniteSet(well) /\ Posted(results) = Cardinality(well)
    BY PostedCount DEF SlotInv
  <2>6. \A r \in results : r \in well <=> ShownWell(r.slot)
    <3>1. \A r \in results : ShownWell(r.slot) <=>
            r.ids # NoIds /\ ~\E p \in Platforms : Event(r, p) = "error"
      BY <2>1, <2>2, ShownWellIs DEF ShownInv
    <3> QED BY <3>1 DEF FailedSlots
  <2>7. \A a \in shown : \E r \in results : r.slot = a
    <3>1. Begun = {}
      BY <2>1 DEF Begun
    <3> QED BY <2>1, <3>1 DEF ShownInv, ShownWell
  <2>8. Cardinality(shown) = Cardinality(well)
    <3> DEFINE f == [r \in well |-> r.slot]
    <3>1. \A r \in well : r \in results /\ r.slot \in shown
      BY <2>2, <2>6
    <3>2. \A r, s \in well : r.slot = s.slot => r = s
      BY DEF SlotInv
    <3>3. \A a \in shown : \E r \in well : r.slot = a
      BY <2>6, <2>7
    <3> HIDE DEF well, shown
    <3>4. f \in Bijection(well, shown)
      BY <3>1, <3>2, <3>3 DEF Bijection, Injection, Surjection, IsInjective
    <3>5. ExistsBijection(well, shown)
      BY <3>4 DEF ExistsBijection
    <3> QED BY <2>5, <3>5, FS_Bijection
  <2>9. summary.posted = Posted(results)
    BY <2>1, <2>3 DEF Summary
  <2> QED BY <2>4, <2>5, <2>8, <2>9
<1> QED
  BY RunInit, RunStepKeeps, StoryInit, StoryKeeps, SlotInit, SlotKeeps, PhoneInit,
     PhoneKeeps, PageInit, PageKeeps, <1>1, PTL DEF Spec
=============================================================================
