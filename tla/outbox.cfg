SPECIFICATION FairSpec
CONSTANTS
    j1 = j1
    t1 = t1
    p1 = p1
    p2 = p2
    Jobs = {j1}
    Tenants = {t1}
    Passes = {p1, p2}
    TenantOf <- Single
    BatchSize = 1
    MaxAttempts = 2
    Tries = 2
    Suspendable = {t1}
    MaxCrashes = 1
    MaxCommands = 1
INVARIANTS
    StoresAgree
    RedeliveryIsOneJob
PROPERTIES EveryRowSettles
