SPECIFICATION DocSpec
CONSTANTS
    NoOp = NoOp
    r1 = r1
    r2 = r2
    i1 = i1
    i2 = i2
    receipt = receipt
    issue = issue
    count = count
    Slots = {r1, r2}
    MaxRequests = 5
    Items = {i1, i2}
    Prices <- DearAndFree
    Untyped = Untyped
    OnHand <- OneEach
    Docs = {receipt, issue, count}
    Kind <- MCKind
    Lines <- MCLines
INVARIANTS
    StatusTellsStock
    AccountTellsStock
PROPERTIES
    CountLeavesCounted
