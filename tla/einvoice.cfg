SPECIFICATION Spec
CONSTANTS
    None = None
    r1 = r1
    r2 = r2
    i1 = i1
    i2 = i2
    simulation = simulation
    production = production
    Requests <- TwoRequests
    MaxRequests = 3
    MaxSubs = 2
    Invoices <- TwoInvoices
    Environments <- BothEnvironments
    Gates <- SomeGates
    Ops <- ClerkOps
SYMMETRY Slots2
CHECK_DEADLOCK FALSE
INVARIANTS
    FiledOnce
PROPERTIES
    ChainSpec
    AcceptedStays
