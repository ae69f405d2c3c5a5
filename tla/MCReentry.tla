------------------------------ MODULE MCReentry ------------------------------
(* Instances of Reentry for TLC.                                           *)
EXTENDS Reentry

CONSTANTS s1, s2

\* s1 buys at 3, 2 and 1 with its stop at 0; s2 sells at 1, 2 and 3, stop at 4.
MCSide == [s \in Signals |-> IF s = s1 THEN "BUY" ELSE "SELL"]
MCLevelPrice ==
    [s \in Signals |-> [l \in Levels |-> IF s = s1 THEN 3 - l ELSE 1 + l]]
MCStopLoss == [s \in Signals |-> IF s = s1 THEN 0 ELSE 4]
MCImmediate == [s \in Signals |-> {0}]
MCPrices == 0..4
=============================================================================
