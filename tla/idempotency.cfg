SPECIFICATION KeyFairSpec
CONSTANTS
    r1 = r1
    r2 = r2
    r3 = r3
    sale = sale
    refund = refund
    Requests = {r1, r2, r3}
    Payloads = {sale, refund}
    HandlerCommits = 2
    None = None
INVARIANTS
    EffectOnce
PROPERTIES ReplayIsTheAnswer FailureFreesTheKey
