SPECIFICATION Spec
CONSTANTS
    ann = ann  bob = bob
    t1 = t1  t2 = t2
    q1 = q1  q2 = q2
    Members <- AnnAndBob
    Admins <- AnnAndBob
    Seeded <- Ann
    Tokens <- TwoTokens
    Requests <- TwoRequests
    Modes <- AnyMode
    MaxAudit = 4
    MaxVersion = 3
    None = None
SYMMETRY AccountSymmetry
INVARIANTS ChainIsLinear ActiveAdminRemains TokensMatchAccounts EndedStaysEnded
PROPERTIES CompletedMeansRotated
CHECK_DEADLOCK FALSE
