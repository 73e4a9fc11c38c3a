---------------------------- MODULE MCTimerWheel ----------------------------
(* The instance of the timer for TLC: everything is set in the cfg.         *)
EXTENDS ClockDriver
=============================================================================
