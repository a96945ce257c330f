SPECIFICATION Spec
CONSTANTS
    Base = 4
    OverflowChecks = TRUE
    Cases <- TwoRegions
    Sizes = {0, 2, 4, 7, 12}
    Fills = {0, 3}
    FirstCap = 1
    LastCap = 4
INVARIANTS
    RoundTrip
CHECK_DEADLOCK FALSE
