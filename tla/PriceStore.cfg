SPECIFICATION Spec
CONSTANTS
    Symbols = {s1, s2}
    Ids = {1, 2, 3}
    Masters = {m1, m2}
    MaxDay = 2
    FirstDay = 1
    Window = 2
    Keep = 2
    Span = 1
    Closed <- OneHoliday
    MaxClock = 1
    MaxRuns = 4
    MaxFaults = 1
    NoId = NoId
    NoDay = NoDay
INVARIANTS StoreIsWellFormed OrphansOnlyFromRaces BackfillIsComplete AnalyzeMirrorsPrices
PROPERTIES MasterSparesListed RefinesMarket
SYMMETRY StoreSymmetry
CHECK_DEADLOCK FALSE
