SPECIFICATION CardSpec
CONSTANTS
    None = None
    r1 = r1
    r2 = r2
    cash = cash
    card = card
    Requests <- TwoRequests
    MaxRequests = 4
    MaxDocs = 3
    Opening <- FirstDrafts
    Bodies <- PlainBodies
    Keys <- PaymentKeys
    Ops <- CounterOps
    References <- Cards
    Amount = 1
CHECK_DEADLOCK FALSE
INVARIANTS
    StatusTellsEffects
    PaidTellsPayments
    VoidedStandsAlone
    ReturnsWithinSale
    CardMoneyOnce
