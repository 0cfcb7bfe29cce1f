SPECIFICATION Spec
CONSTANTS
    j1 = j1  j2 = j2  j3 = j3
    r1 = r1  r2 = r2  r3 = r3
    u1 = u1  u2 = u2  w1 = w1
    Jobs <- ThreeJobs
    Runs <- TwoRuns
    Users <- Nobody
    Writers <- OneWriter
    Faults <- AllFaults
    Live = Live
    None = None
SYMMETRY JobSymmetry
INVARIANTS NoDoubleRun CompletedIsPublished PublishedSiblingsExclude
PROPERTIES TerminalIsFinal
CHECK_DEADLOCK FALSE
