---------------------------- MODULE MC_RuleSets ----------------------------
(* One set created later besides the agency's own, or two. *)
EXTENDS RuleSets, TLC

CONSTANTS base, s1, s2, r1, r2, r3, r4

OneSet == {s1}
TwoSets == {s1, s2}
TwoRequests == {r1, r2}
ThreeRequests == {r1, r2, r3}
FourRequests == {r1, r2, r3, r4}
TwoTexts == {1, 2}
OneText == {1}

With(set) == [DefaultRules EXCEPT ![s1] = set]
Pending == With([NoSet EXCEPT !.status = "pending", !.root = s1, !.text = 1, !.submitted = 1])
EarlierFiles == {Broken, Pending}
PendingFile == {Pending}

RequestSymmetry == Permutations(Requests)
=============================================================================
