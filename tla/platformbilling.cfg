SPECIFICATION Spec
CONSTANTS
    r1 = r1
    r2 = r2
    l1 = l1
    l2 = l2
    d1 = d1
    d2 = d2
    Requests = {r1, r2}
    MaxRequests = 6
    Licences = {l1, l2}
    Documents = {d1, d2}
    Periods = {1}
    Total = 2
    MaxAttempts = 2
    Jobs <- MCJobs
    None = None
SYMMETRY Symmetry
INVARIANTS
    DocumentsTellMoney
    OneLiveLicence
