----------------------------- MODULE MCTraffic -----------------------------
(* Small calendars for TLC: days of one or two hours, months of two days.    *)
EXTENDS Traffic

OneTarget == {1}
TwoTargets == {1, 2}
=============================================================================
