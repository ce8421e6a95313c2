SPECIFICATION TransferSpec
CONSTANTS
    NoOp = NoOp
    r1 = r1
    r2 = r2
    l1 = l1
    l2 = l2
    Slots <- TwoRequests
    MaxRequests = 5
    Lines <- TwoLines
    Qty <- OneThenTwo
    Cost <- Priced
    Stock <- OneThenTwo
    Ops <- ClerkOps
INVARIANTS
    DocumentTellsGoods
    TransitTellsGoods
    SubmittedTwiceDoneOnce
