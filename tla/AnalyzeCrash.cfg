SPECIFICATION Spec
CONSTANTS
    MaxDay = 2
    Lookback = 0
    Keep = 4
    Actions <- OneSplit
    Adjusters = {a1}
    Overlap = FALSE
    Relists = FALSE
    MaxFaults = 1
INVARIANT NeverTwice
CHECK_DEADLOCK FALSE
