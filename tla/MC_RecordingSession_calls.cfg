SPECIFICATION FairSpec
CONSTANTS
    c1 = c1  c2 = c2
    s1 = s1  s2 = s2  e1 = e1  e2 = e2  d1 = d1  x1 = x1  x2 = x2
    Calls <- TwoCalls
    Starters <- TwoStarters
    Enders <- TwoEnders
    DiagStarters <- OneDiagStarter
    DiagStoppers <- OneDiagStopper
    Faults <- AllFaults
    Diag = Diag
    None = None
INVARIANTS NothingRunsWhenQuiet CaptureIsCovered OneOpenCall AudioSurvives UpdaterIsSound
PROPERTIES HandlersReturn
CHECK_DEADLOCK FALSE
