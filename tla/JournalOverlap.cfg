SPECIFICATION BothSpec
CONSTANTS
    MaxDay = 3
    Lookback = 1
    Keep = 2
    Actions <- SplitAndConsolidation
    Adjusters = {a1}
    Overlap = TRUE
    Relists = TRUE
    MaxFaults = 1
    Executions <- ThreeLines LiveBrands <- OneBrandLive NoteContents <- ThreeContents
    FileLines <- LinesOfFiles MaxOccurrence = 1 MaxImports = 2 MaxNotes = 2
INVARIANTS TypeOK OncePerCrash JournalIsExact
CHECK_DEADLOCK FALSE
