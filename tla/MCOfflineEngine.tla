-------------------------- MODULE MCOfflineEngine --------------------------
(* Instances of OfflineEngine for TLC.  "extract" listens to events from   *)
(* outside, "profile" to those that strategies emit, through a Counter.    *)
EXTENDS OfflineEngine

TwoStrategies == {"extract", "profile"}
Outside == {"extract"}
Inside == {"profile"}
=============================================================================
