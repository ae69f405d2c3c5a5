---------------------------- MODULE MCAdmission ----------------------------
(***************************************************************************)
(* Instances of Admission: two messages, two texts of correlated symbols.  *)
(***************************************************************************)
EXTENDS Admission, TLC

CONSTANTS m1, m2, gold, silver

MCMessages == {m1, m2}
MCTexts == {gold, silver}
MCSymbol == [t \in MCTexts |-> t]
MCPeers == [s \in MCTexts |-> MCTexts]
MCSymmetry == Permutations(MCMessages) \cup Permutations(MCTexts)
=============================================================================
