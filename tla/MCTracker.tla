----------------------------- MODULE MCTracker -----------------------------
(* The instances of Tracker that TLC checks; the configurations give the   *)
(* constants.                                                              *)
EXTENDS Tracker
=============================================================================
