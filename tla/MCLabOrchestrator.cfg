CONSTANTS
    TrialCount = 2
    Interval = 6
    MaxSamples = 2
    Budget = 7
    Overrun = 1
    d1 = d1
    d2 = d2
    d3 = d3
    d4 = d4
    bad = bad
    Digests = {d1, d2, d3, d4, bad}
    Fit = {d1, d2, d3, d4}
    WellNamed = {d1, d2, d3, bad}
    ContextOf <- MCContextOf
    Series = {s1, s2}
    MaxSeries = 1
SPECIFICATION Spec
INVARIANTS
    PublishedIsEvidence
    SealNotRefused
    SharesBudget
PROPERTY
    RunEnds
CHECK_DEADLOCK FALSE
