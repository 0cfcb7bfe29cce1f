SPECIFICATION Spec
CONSTANTS
    d1 = d1  d2 = d2
    k1 = k1  k2 = k2
    t1 = t1  t2 = t2
    h1 = h1  h2 = h2
    Desktops <- TwoDesktops
    Calls <- TwoCalls
    Texts <- OneText
    Candidates <- SameText
    Blocked <- FirstBlocked
    Home <- HomeTwo
    Handlers <- TwoHandlers
    MaxRequests = 5
    None = None
SYMMETRY HandlerSymmetry
INVARIANTS ReviewIsWhole LocalFollowsCloud
PROPERTY DecisionIsFinal
CHECK_DEADLOCK FALSE
