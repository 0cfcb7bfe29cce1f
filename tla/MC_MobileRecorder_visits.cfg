SPECIFICATION RecorderSpec
CONSTANTS
    u1 = u1  u2 = u2
    f1 = f1  f2 = f2
    Visits <- TwoVisits
    Flows <- TwoFlows
    MaxAsks = 2
    MaxRuns = 2
    MaxTexts = 1
    None = None
INVARIANT ShownWasTranscribed
PROPERTY UploadEnds
CHECK_DEADLOCK FALSE
