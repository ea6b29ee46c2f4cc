--------------------------- MODULE MCTrafficView ----------------------------
(* Instances of TrafficView for TLC; the .cfg files give the bounds.       *)
EXTENDS TrafficView
=============================================================================
