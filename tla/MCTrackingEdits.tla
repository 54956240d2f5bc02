--------------------------- MODULE MCTrackingEdits ---------------------------
(* One request at a time, for rules of which the last two are one change     *)
(* away from their neighbours.                                               *)
EXTENDS TrackingEdits

CONSTANTS one

Rule(d, t) == [family |-> 1, distance |-> d, template |-> t]
MCRules == {Rule(0, 0), Rule(1, 0), Rule(1, 1)}
MCAskable == {<<r>> : r \in MCRules}
=============================================================================
