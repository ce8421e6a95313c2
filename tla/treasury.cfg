SPECIFICATION Spec
CONSTANTS
    None = None
    r1 = r1
    r2 = r2
    receipt = receipt
    payment = payment
    moved = moved
    till = till
    bank = bank
    ann = ann
    bob = bob
    Requests <- TwoRequests
    MaxRequests = 4
    Vouchers <- TwoVouchers
    Transfers <- OneTransfer
    MaxShifts = 2
    Users <- TwoUsers
    Safes <- TwoSafes
    Card <- Cards
    Drafts <- CashOrCheque
    Accounts <- Apart
    Charts <- TwoCharts
    Bodies <- OneBody
    Ops <- TreasuryOps
SYMMETRY Alike
CHECK_DEADLOCK FALSE
INVARIANTS
    BalanceTellsDocuments
    LedgerTellsDocuments
    MoneyInOnePlace
    TakingsTellShifts
