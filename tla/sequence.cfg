SPECIFICATION FairSpec
CONSTANTS
    r1 = r1
    r2 = r2
    r3 = r3
    invoice = invoice
    journal = journal
    Transactions = {r1, r2, r3}
    Scopes = {invoice, journal}
    Prefixes <- MCPrefixes
    Jobs <- MCJobs
    Nobody = Nobody
    NoPrefix = NoPrefix
    MaxSafe = 4
INVARIANT NumbersInOrder
PROPERTIES BookSpec EveryRequestEnds
