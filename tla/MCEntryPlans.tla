---------------------------- MODULE MCEntryPlans ----------------------------
(***************************************************************************)
(* Instances of EntryPlans: both sides, with and without an entry or a     *)
(* zone, quotes inside, outside and at the edge of the tolerance.          *)
(***************************************************************************)
EXTENDS EntryPlans

MCSignals ==
    {[side |-> "BUY", entry |-> <<100>>, zone |-> <<90, 100>>, sl |-> 80, isNow |-> TRUE],
     [side |-> "SELL", entry |-> <<90>>, zone |-> <<90, 100>>, sl |-> 110, isNow |-> FALSE],
     [side |-> "BUY", entry |-> <<>>, zone |-> <<>>, sl |-> 80, isNow |-> TRUE],
     [side |-> "SELL", entry |-> <<95>>, zone |-> <<>>, sl |-> 110, isNow |-> FALSE]}

Strategy(mode, entries, step, split) ==
    [mode |-> mode, entries |-> entries, step |-> step, split |-> split,
     all |-> FALSE, noStop |-> FALSE, minSl |-> 0, maxDistance |-> 0]

MCChannels ==
    {Strategy("single", 1, 0, "equal")}
    \cup {Strategy(mode, n, 4, split) : mode \in {"range", "scale_in"}, n \in {3, 4},
             split \in {"equal", "pyramid", "risk_based", "per_entry"}}
    \cup {Strategy("range", 3, 0, split) : split \in {"equal", "risk_based"}}
    \cup {[Strategy("range", 3, 0, "pyramid") EXCEPT !.noStop = TRUE],
          [Strategy("range", 3, 0, "equal") EXCEPT !.all = TRUE],
          [Strategy("scale_in", 4, 10, "risk_based") EXCEPT !.minSl = 12, !.maxDistance = 15]}
=============================================================================
