---------------------------- MODULE MCAutomation ----------------------------
(* Two rules and two workflows at most; readings on both sides of the       *)
(* threshold, within and outside the hysteresis band.                       *)
EXTENDS Automation

MCValue == {0, 1, 3, 4}
=============================================================================
