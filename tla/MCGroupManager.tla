--------------------------- MODULE MCGroupManager ---------------------------
(* Instances of GroupManager for TLC.                                      *)
EXTENDS GroupManager

CONSTANTS g1, g2

Of(x) == [g \in Groups |-> x]
Mixed(x, y) == [g \in Groups |-> IF g = g1 THEN x ELSE y]

\* Stops of the signal and of its zone.
OneStop == Of(1)
ZoneStops == Of(0)
Target == Of(4)
Yes == Of(TRUE)

\* A group with a common trailing stop, breakeven and selective closing.
SignalMode == Of("signal")
TrailOne == Of(1)
TrailTwo == Of(2)
CloseHighest == Of("highest_entry")

\* A group whose positions are managed one by one.
Off == Of(0)

\* One of each kind.
MixedMode == Mixed("zone", "fixed")
MixedTrailing == Mixed(1, 0)
MixedStrategy == Mixed("oldest", "lowest_entry")
=============================================================================
