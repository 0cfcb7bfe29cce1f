--------------------------- MODULE MC_DesktopCloud ---------------------------
(* Small instances of DesktopCloud: two operations at a time, two accounts. *)
EXTENDS DesktopCloud, TLC

CONSTANTS s1, s2, a1, a2, a3, old, alice, bob, j1

TwoSlots == {s1, s2}
ThreeAssets == {a1, a2, a3}
TwoAccounts == {alice, bob}
FourAssets == ThreeAssets \cup {old}
OneLegacy == {old}
OneJob == {j1}

Symmetry == Permutations(TwoSlots) \cup Permutations(ThreeAssets) \cup Permutations(TwoAccounts)
=============================================================================
