-------------------------- MODULE MC_CloudAccounts --------------------------
(* Small instances of CloudAccounts: two administrators.                    *)
EXTENDS CloudAccounts, TLC

CONSTANTS ann, bob, t1, t2, q1, q2

Ann == {ann}
AnnAndBob == {ann, bob}
TwoTokens == {t1, t2}
TwoRequests == {q1, q2}
Email == {"email"}
AnyMode == {"email", "manual"}

AccountSymmetry == Permutations(Tokens) \cup Permutations(Requests)
=============================================================================
