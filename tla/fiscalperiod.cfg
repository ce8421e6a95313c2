SPECIFICATION PeriodSpec
CONSTANTS
    p1 = p1
    p2 = p2
    p3 = p3
    r1 = r1
    r2 = r2
    r3 = r3
    Calls = {r1, r2, r3}
    Periods <- MCPeriods
    Dates <- MCDates
    Tasks <- TwoPeriodJobs
    FirstPeriods <- TwoPeriods
    Drafts <- SecondDraft
    Absent = Absent
    Unset = Unset
    MaxInFlight = 3
SYMMETRY Symmetry
INVARIANTS
    PeriodsConsistent
    ReversedOnce
PROPERTIES CheckedPostIntoOpenPeriod ClosedPeriodFrozen
