------------------------------ MODULE Outcomes ------------------------------
(***************************************************************************)
(* What is read off the result of one account: PostResult.success for the  *)
(* scheduler, the notable events and the summary for the phone, and the    *)
(* outcome per platform for history and Stats.  A result holds a post id   *)
(* per platform, if there is one, and errors: of a platform, or of none    *)
(* when the scheduler crashed or a batch had no slots.                     *)
(***************************************************************************)
EXTENDS Integers, FiniteSets

Platforms == {"instagram", "tiktok"}
Ids == {"", "ok", "unconfirmed"}
SkipKinds == {"preflight", "no_session", "disabled"}
Errors == [platform : Platforms, kind : SkipKinds \cup {"real"}]
            \cup [platform : {"none"}, kind : {"crash", "no_slots"}]
NoIds == [p \in Platforms |-> ""]

Error(p, kind) == [platform |-> p, kind |-> kind]
ErrorsOf(r, p) == {e \in r.errors : e.platform = p}

(* is_skip_error, is_disabled_skip.                                        *)
IsSkip(e) == e.kind \in SkipKinds
IsDisabled(e) == e.kind = "disabled"

SuccessMutant(r) == \A e \in r.errors : IsSkip(e)
Success(r) == \A e \in r.errors : IsDisabled(e)

(* classify_platform: a failure before a skip, a skip before an id.        *)
Classify(r, p) ==
  LET errors == ErrorsOf(r, p) IN
  CASE \E e \in errors : ~IsSkip(e) -> "failed"
    [] errors # {} /\ \A e \in errors : IsDisabled(e) -> "disabled"
    [] (\A e \in errors : IsSkip(e)) /\ (\E e \in errors : ~IsDisabled(e)) -> "skipped"
    [] errors = {} /\ r.ids[p] = "unconfirmed" -> "unconfirmed"
    [] errors = {} /\ r.ids[p] = "ok" -> "confirmed"
    [] OTHER -> "not_attempted"

(* _platform_events: a disabled platform is never noted.                   *)
EventMutant(r, p) ==
  LET errors == ErrorsOf(r, p) IN
  CASE \E e \in errors : ~IsSkip(e) -> "error"
    [] errors # {} /\ (\A e \in errors : IsSkip(e)) -> "skipped"
    [] errors = {} /\ r.ids[p] = "unconfirmed" -> "unconfirmed"
    [] OTHER -> "none"
Event(r, p) ==
  LET errors == {e \in ErrorsOf(r, p) : ~IsDisabled(e)} IN
  CASE \E e \in errors : ~IsSkip(e) -> "error"
    [] errors # {} /\ (\A e \in errors : IsSkip(e)) -> "skipped"
    [] errors = {} /\ r.ids[p] = "unconfirmed" -> "unconfirmed"
    [] OTHER -> "none"

(* _notify_run_summary, over the results of one run.                       *)
FailedSlots(rs) == {r \in rs : \E p \in Platforms : Event(r, p) = "error"}
EmptySlots(rs) == {r \in rs \ FailedSlots(rs) : r.ids = NoIds}
PostedMutant(rs) == Cardinality(rs) - Cardinality(FailedSlots(rs))
Posted(rs) ==
  Cardinality(rs) - Cardinality(FailedSlots(rs)) - Cardinality(EmptySlots(rs))

(* The platforms of the run an event is noted of.                          *)
Noted(rs, event) ==
  UNION {{<<r.slot, p>> : p \in {q \in Platforms : Event(r, q) = event}} : r \in rs}

Summary(rs) ==
  [total |-> Cardinality(rs), posted |-> Posted(rs),
   failed |-> Noted(rs, "error"), skipped |-> Noted(rs, "skipped"),
   unconfirmed |-> Noted(rs, "unconfirmed"),
   urgent |-> FailedSlots(rs) # {} \/ Posted(rs) = 0]
=============================================================================
