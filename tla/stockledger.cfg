SPECIFICATION FairSpec
CONSTANTS
    None = None
    r1 = r1
    r2 = r2
    r3 = r3
    c1 = c1
    c2 = c2
    Cells <- TwoCells
    Requests <- ThreeRequests
    Jobs <- MixedJobs
INVARIANTS
    BalanceMatchesLedger
    NeverOversold
PROPERTIES
    AdjustSettlesCount
    RecomputeRepairs
    EveryRequestEnds
