SPECIFICATION MCSpec
CONSTANTS
    MaxLen = 4
    MaxCalls = 3
    MAX_LINE_SIZE = 1
    WordNgrams = 2
    NThreads = 2
    Epoch = 2
    NTokens = 2
    LrUpdateRate = 1
    MaxLine = 2
    MaxAborts = 1
    MaxRuns = 2
    Scores = {1, 2}
    SizeLimited = TRUE
    NaN = NaN
    Unknown = Unknown
INVARIANTS
    LinesRead
    StopsAsAsked
    BestKept
PROPERTIES
    PromiseKept
    SearchEnds
CHECK_DEADLOCK FALSE
