------------------------- MODULE MC_MobileRecorder -------------------------
(* Two visits on one phone: the second may begin before the first upload ended. *)
EXTENDS MobileRecorder

CONSTANTS u1, u2, f1, f2

OneVisit == {u1}
TwoVisits == {u1, u2}
OneFlow == {f1}
TwoFlows == {f1, f2}
=============================================================================
