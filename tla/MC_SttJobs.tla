---------------------------- MODULE MC_SttJobs ----------------------------
(* Small instances of SttJobs: two or three jobs of one call, two runs.    *)
EXTENDS SttJobs, TLC

CONSTANTS j1, j2, j3, r1, r2, r3, u1, u2, w1

OneJob == {j1}
TwoJobs == {j1, j2}
ThreeJobs == {j1, j2, j3}
OneRun == {r1}
TwoRuns == {r1, r2}
ThreeRuns == {r1, r2, r3}
OneUser == {u1}
TwoUsers == {u1, u2}
OneWriter == {w1}
Nobody == {}

AllFaults == {"jobs", "transcripts", "activity", "crash"}
ActivityAndCrash == {"activity", "crash"}
NoFaults == {}

JobSymmetry == Permutations(Jobs) \cup Permutations(Runs)
=============================================================================
