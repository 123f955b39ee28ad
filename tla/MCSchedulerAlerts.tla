-------------------------- MODULE MCSchedulerAlerts --------------------------
(* Two malformed lines, one batch that may be cut off, and the alert at    *)
(* the second of up to four failed polls.                                  *)
EXTENDS SchedulerAlerts

CONSTANTS lineA, lineB, b1
=============================================================================
