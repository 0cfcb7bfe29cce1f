------------------------- MODULE MC_CompanyKnowledge -------------------------
(* A call with two minutes on one desktop, one with a single minute on the  *)
(* other, and two handlers.                                                 *)
EXTENDS CompanyKnowledge, TLC

CONSTANTS d1, d2, k1, k2, t1, t2, h1, h2

TwoDesktops == {d1, d2}
OneCall == {k1}
TwoCalls == {k1, k2}
OneText == {t1}
HomeOne == [k \in OneCall |-> d1]
HomeTwo == [k \in TwoCalls |-> IF k = k1 THEN d1 ELSE d2]
TwoHandlers == {h1, h2}
OneHandler == {h1}

\* The same text in both minutes of k1 and in the minute of k2.
SameText == {[call |-> k1, minute |-> 1, text |-> t1], [call |-> k1, minute |-> 2, text |-> t1],
             [call |-> k2, minute |-> 1, text |-> t1]}
OneCallText == {c \in SameText : c.call = k1}
Nothing == {}
FirstBlocked == {[call |-> k1, minute |-> 1, text |-> t1]}

HandlerSymmetry == Permutations(Handlers)
=============================================================================
