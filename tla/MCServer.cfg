SPECIFICATION MCSpec
CONSTANTS
    Workers = {w1, w2}
    Requests = {r1, r2, r3}
    Nobody = Nobody
    MaxRender = 1
    MaxPages = 4
    MaxRows = 2
    Labels <- ThreeLabels
    LangToLang <- Names
    SupportLang <- TrainedData
    English = "eng"
    Unknown = "XXX"
    Words <- SomeWords
    Sizes = 64
    Asked <- Strings
    Absent = Absent
INVARIANTS
    UsedWhileAlive
    RenderedWhole
    UploadsRead
PROPERTIES
    ServerEnds
CHECK_DEADLOCK FALSE
