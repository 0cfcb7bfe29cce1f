SPECIFICATION Spec
CONSTANTS
    base = base  s1 = s1  s2 = s2
    r1 = r1  r2 = r2  r3 = r3  r4 = r4
    Base = base
    Sets <- OneSet
    Texts <- OneText
    StartFiles <- EarlierFiles
    Requests <- ThreeRequests
    MaxBusy = 2
    MaxFailures = 1
    MaxRestarts = 1
    Broken = Broken
    None = None
SYMMETRY RequestSymmetry
INVARIANTS InForceWasReviewed AnsweredIsAudited
CHECK_DEADLOCK FALSE
