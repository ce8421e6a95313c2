SPECIFICATION Spec
CONSTANTS
    None = None
    Same = Same
    r1 = r1
    r2 = r2
    assets = assets
    cash = cash
    till = till
    sales = sales
    bank = bank
    n1 = n1
    n2 = n2
    Requests = {r1, r2}
    MaxRequests = 3
    Accounts = {assets, cash, till, sales, bank}
    Natures = {n1, n2}
    FirstChart <- MCChart
    Jobs <- MCJobs
INVARIANTS
    ChartIsATree
PROPERTIES
    PostedIdentityFrozen
