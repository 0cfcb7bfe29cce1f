SPECIFICATION Spec
CONSTANTS
    j1 = j1  j2 = j2  j3 = j3
    r1 = r1  r2 = r2  r3 = r3
    u1 = u1  u2 = u2  w1 = w1
    Jobs <- TwoJobs
    Runs <- TwoRuns
    Users <- OneUser
    Writers <- Nobody
    Faults <- ActivityAndCrash
    Live = Live
    None = None
SYMMETRY JobSymmetry
INVARIANTS FailedIsNotLeftActive
CHECK_DEADLOCK FALSE
