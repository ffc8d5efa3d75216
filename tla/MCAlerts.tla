------------------------------ MODULE MCAlerts ------------------------------
(* Small instances of Alerts: a group of one alert, or of three in order.   *)
EXTENDS Alerts, TLC

CONSTANTS f1, f2, f3

OneAlert    == <<f1>>
ThreeAlerts == <<f1, f2, f3>>

RequestSymmetry == Permutations(Request) \cup Permutations(Patcher)
=============================================================================
