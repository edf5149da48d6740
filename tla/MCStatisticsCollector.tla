----------------------- MODULE MCStatisticsCollector -----------------------
(* Bounds for TLC: two blocks of different sizes.                          *)
EXTENDS StatisticsCollector

CONSTANTS b1, b2
MCRequested == [b \in Blocks |-> IF b = b1 THEN 1 ELSE 3]
MCReserved == [b \in Blocks |-> IF b = b1 THEN 2 ELSE 3]
=============================================================================
