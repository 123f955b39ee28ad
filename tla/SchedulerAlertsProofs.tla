------------------------ MODULE SchedulerAlertsProofs ------------------------
(***************************************************************************)
(* The alert follows the streak of failed polls, and every malformed line  *)
(* is reported once and not lost, for any lines, batches and threshold.    *)
(***************************************************************************)
EXTENDS SchedulerAlerts, TLAPS

(* The flag agrees with the alerts sent, and the counter with the streak.  *)
AlertInv ==
  /\ failures = streak
  /\ alerted <=> streak >= Threshold
  /\ AlertFollowsStreak

(* What waits was not pushed yet.                                          *)
Pushed == {l \in Lines : pushed[l] > 0}
ReportInv ==
  /\ ReportedOnce
  /\ NoReportLost
  /\ pending \cap Pushed = {}

(* TypeOK but for the flag.                                                *)
OthersOK ==
  /\ bad \subseteq Lines /\ running \subseteq Batches /\ interrupted \subseteq Batches
  /\ at \in {"down", "sweep", "sweeping", "announcing", "poll", "working",
             "alerting", "sleep", "ended"}
  /\ known \subseteq Lines /\ pending \subseteq Lines /\ toAnnounce \subseteq Batches
  /\ failures \in Nat /\ streak \in Nat
  /\ alerts \in 0..1 /\ pushed \in [Lines -> Nat]
  /\ dropped \subseteq Lines /\ told \subseteq Lines /\ announced \subseteq Batches

Inv == TypeOK /\ AlertInv /\ ReportInv

LEMMA InitInv == Init => Inv
<1> USE ThresholdAssumption
<1> SUFFICES ASSUME Init PROVE Inv
  OBVIOUS
<1>1. TypeOK
  <2>1. OthersOK
    BY DEF Init, OthersOK, NoPush
  <2>2. alerted \in BOOLEAN
    BY DEF Init
  <2> QED
    BY <2>1, <2>2 DEF OthersOK, TypeOK
<1>2. AlertInv
  BY DEF Init, AlertInv, AlertFollowsStreak
<1>3. ReportInv
  BY DEF Init, ReportInv, ReportedOnce, NoReportLost, Pushed, NoPush
<1> QED
  BY <1>1, <1>2, <1>3 DEF Inv

-----------------------------------------------------------------------------
(* What a read does to the reports.                                        *)
LEMMA RecordedKeeps ==
  ASSUME TypeOK, ReportInv, Recorded, UNCHANGED pushed
  PROVE  ReportInv' /\ known' \subseteq Lines /\ pending' \subseteq Lines
BY DEF TypeOK, ReportInv, ReportedOnce, NoReportLost, Pushed, Recorded, Unreported

LEMMA DrainedKeeps ==
  ASSUME TypeOK, ReportInv, ReadAndDrained
  PROVE  /\ ReportInv' /\ known' \subseteq Lines /\ pending' \subseteq Lines
         /\ pushed' \in [Lines -> Nat] /\ told' \subseteq Lines
<1> DEFINE batch == pending \cup Unreported
<1>1. batch \subseteq Lines /\ batch \cap Pushed = {}
  BY DEF TypeOK, ReportInv, NoReportLost, Pushed, Unreported
<1>2. pushed' = [l \in Lines |-> IF l \in batch THEN pushed[l] + 1 ELSE pushed[l]]
  BY DEF ReadAndDrained
<1>3. pushed' \in [Lines -> Nat]
  BY <1>2 DEF TypeOK
<1>4. \A l \in Lines : l \in batch => pushed[l] = 0
  BY <1>1 DEF TypeOK, Pushed
<1>5. ReportedOnce'
  BY <1>2, <1>4 DEF ReportInv, ReportedOnce, TypeOK
<1>6. Pushed' = Pushed \cup batch
  BY <1>1, <1>2, <1>4 DEF Pushed, TypeOK
<1>7. NoReportLost'
  <2>1. known = pending \cup Pushed
    BY DEF ReportInv, NoReportLost, Pushed
  <2>2. known' = pending' \cup Pushed'
    BY <1>6, <2>1 DEF ReadAndDrained, Unreported
  <2> QED
    BY <2>2 DEF NoReportLost, Pushed
<1>8. (pending \cap Pushed = {})'
  BY DEF ReadAndDrained
<1>9. told' \subseteq Lines /\ known' \subseteq Lines /\ pending' \subseteq Lines
  BY <1>1 DEF ReadAndDrained, TypeOK
<1> QED
  BY <1>3, <1>5, <1>7, <1>8, <1>9 DEF ReportInv

(* A step that leaves the reports alone.                                   *)
LEMMA QuietKeeps ==
  ASSUME ReportInv, UNCHANGED reports
  PROVE  ReportInv'
BY DEF ReportInv, ReportedOnce, NoReportLost, Pushed, reports

(* A step that leaves the counts alone.                                    *)
LEMMA CountsKeep ==
  ASSUME AlertInv, UNCHANGED counts
  PROVE  AlertInv'
BY DEF AlertInv, AlertFollowsStreak, counts

LEMMA StepInv == Inv /\ [Next]_vars => Inv'
<1> SUFFICES ASSUME Inv, [Next]_vars PROVE Inv'
  OBVIOUS
<1> USE ThresholdAssumption
<1>0. TypeOK /\ AlertInv /\ ReportInv
  BY DEF Inv
<1>1. CASE Boot
  <2>1. ReportInv' /\ known' \subseteq Lines /\ pending' \subseteq Lines
    BY <1>0, <1>1, RecordedKeeps, QuietKeeps DEF Boot, reports, TypeOK
  <2>2. AlertInv'
    BY <1>0, <1>1, CountsKeep DEF Boot
  <2>3. TypeOK'
    BY <1>0, <1>1, <2>1 DEF Boot, TypeOK, file, counts, phone
  <2> QED
    BY <2>1, <2>2, <2>3 DEF Inv
<1>2. CASE SweepReads
  <2>1. AlertInv'
    BY <1>0, <1>2, CountsKeep DEF SweepReads
  <2>2. ReportInv' /\ TypeOK'
    BY <1>0, <1>2, DrainedKeeps DEF SweepReads, TypeOK, file, counts
  <2> QED
    BY <2>1, <2>2 DEF Inv
<1>3. CASE SweepSaves
  <2>1. AlertInv' /\ ReportInv'
    BY <1>0, <1>3, CountsKeep, QuietKeeps DEF SweepSaves
  <2>2. TypeOK'
    BY <1>0, <1>3 DEF SweepSaves, Rewritten, TypeOK, file, reports, counts, phone
  <2> QED
    BY <2>1, <2>2 DEF Inv
<1>4. ASSUME SweepEnds \/ TaskDies \/ AlertSent \/ Wake PROVE Inv'
  <2>1. AlertInv' /\ ReportInv'
    BY <1>0, <1>4, CountsKeep, QuietKeeps DEF SweepEnds, TaskDies, AlertSent, Wake
  <2>2. TypeOK'
    BY <1>0, <1>4
    DEF SweepEnds, TaskDies, AlertSent, Wake, TypeOK, file, reports, counts, phone
  <2> QED
    BY <2>1, <2>2 DEF Inv
<1>5. CASE Poll
  <2>1. AlertInv'
    BY <1>0, <1>5, CountsKeep DEF Poll
  <2>2. ReportInv' /\ TypeOK'
    BY <1>0, <1>5, DrainedKeeps DEF Poll, TypeOK, file, counts
  <2> QED
    BY <2>1, <2>2 DEF Inv
<1>6. CASE GoodPoll
  <2>1. ReportInv' /\ known' \subseteq Lines /\ pending' \subseteq Lines
    BY <1>0, <1>6, RecordedKeeps DEF GoodPoll
  <2>2. AlertInv'
    BY <1>6 DEF GoodPoll, AlertInv, AlertFollowsStreak
  <2>3. TypeOK'
    <3>1. OthersOK'
      BY <1>0, <1>6, <2>1 DEF GoodPoll, Rewritten, TypeOK, phone, OthersOK
    <3>2. alerted' \in BOOLEAN
      BY <1>0, <1>6 DEF GoodPoll, TypeOK
    <3> QED
      BY <3>1, <3>2 DEF OthersOK, TypeOK
  <2> QED
    BY <2>1, <2>2, <2>3 DEF Inv
<1>7. CASE BadPoll
  <2>1. ReportInv'
    BY <1>0, <1>7, QuietKeeps DEF BadPoll
  <2>2. AlertInv'
    BY <1>0, <1>7 DEF BadPoll, AlertInv, AlertFollowsStreak, TypeOK
  <2>3. alerts' \in 0..1
    BY <2>2 DEF AlertInv, AlertFollowsStreak
  <2>4. TypeOK'
    <3>1. OthersOK'
      BY <1>0, <1>7, <2>3 DEF BadPoll, TypeOK, file, reports, phone, OthersOK
    <3>2. alerted' \in BOOLEAN
      BY <1>0, <1>7 DEF BadPoll, TypeOK
    <3> QED
      BY <3>1, <3>2 DEF OthersOK, TypeOK
  <2> QED
    BY <2>1, <2>2, <2>4 DEF Inv
<1>8. CASE Endpoint
  <2>1. ReportInv' /\ known' \subseteq Lines /\ pending' \subseteq Lines
    BY <1>0, <1>8, RecordedKeeps DEF Endpoint
  <2>2. AlertInv'
    BY <1>0, <1>8, CountsKeep DEF Endpoint
  <2>3. TypeOK'
    BY <1>0, <1>8, <2>1 DEF Endpoint, Rewritten, TypeOK, counts, phone
  <2> QED
    BY <2>1, <2>2, <2>3 DEF Inv
<1>9. CASE Kill
  <2>1. AlertInv'
    BY <1>9 DEF Kill, AlertInv, AlertFollowsStreak
  <2>2. ReportInv'
    BY <1>9 DEF Kill, ReportInv, ReportedOnce, NoReportLost, Pushed, NoPush
  <2>3. TypeOK'
    <3>1. OthersOK'
      BY <1>0, <1>9 DEF Kill, TypeOK, NoPush, phone, OthersOK
    <3>2. alerted' \in BOOLEAN
      BY <1>0, <1>9 DEF Kill, TypeOK
    <3> QED
      BY <3>1, <3>2 DEF OthersOK, TypeOK
  <2> QED
    BY <2>1, <2>2, <2>3 DEF Inv
<1>10. ASSUME NEW b \in Batches, Announce(b) PROVE Inv'
  <2>1. AlertInv' /\ ReportInv'
    BY <1>0, <1>10, CountsKeep, QuietKeeps DEF Announce
  <2>2. TypeOK'
    BY <1>0, <1>10 DEF Announce, TypeOK, file, reports, counts
  <2> QED
    BY <2>1, <2>2 DEF Inv
<1>11. ASSUME NEW l \in Lines, Damage(l) PROVE Inv'
  <2>1. AlertInv' /\ ReportInv'
    BY <1>0, <1>11, CountsKeep, QuietKeeps DEF Damage
  <2>2. TypeOK'
    BY <1>0, <1>11 DEF Damage, TypeOK, reports, counts, phone
  <2> QED
    BY <2>1, <2>2 DEF Inv
<1>12. CASE UNCHANGED vars
  <2>1. AlertInv' /\ ReportInv'
    BY <1>0, <1>12, CountsKeep, QuietKeeps DEF vars
  <2>2. TypeOK'
    BY <1>0, <1>12 DEF vars, TypeOK, file, reports, counts, phone
  <2> QED
    BY <2>1, <2>2 DEF Inv
<1> QED
  BY <1>1, <1>2, <1>3, <1>4, <1>5, <1>6, <1>7, <1>8, <1>9, <1>10, <1>11, <1>12
  DEF Next
-----------------------------------------------------------------------------
LEMMA InvCorrect == Spec => []Inv
BY InitInv, StepInv, PTL DEF Spec

(* The variables keep their types, with one alert at most on the way.      *)
THEOREM AlertTypeCorrect == Spec => []TypeOK
<1>1. Inv => TypeOK
  BY DEF Inv
<1> QED
  BY InvCorrect, <1>1, PTL

(* The maintainer is alerted exactly once in every streak of failed polls  *)
(* that reaches the threshold (scheduler.py:504-546).                      *)
THEOREM AlertFollowsStreakCorrect == Spec => []AlertFollowsStreak
<1>1. Inv => AlertFollowsStreak
  BY DEF Inv, AlertInv
<1> QED
  BY InvCorrect, <1>1, PTL

(* A malformed line is pushed once in the life of a process                *)
(* (queue.py:185-205).                                                     *)
THEOREM ReportedOnceCorrect == Spec => []ReportedOnce
<1>1. Inv => ReportedOnce
  BY DEF Inv, ReportInv
<1> QED
  BY InvCorrect, <1>1, PTL

(* No report falls between a read and a drain (scheduler.py:29-59).        *)
THEOREM NoReportLostCorrect == Spec => []NoReportLost
<1>1. Inv => NoReportLost
  BY DEF Inv, ReportInv
<1> QED
  BY InvCorrect, <1>1, PTL
=============================================================================
