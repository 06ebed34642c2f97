\* Two callers and three workers; nothing fails.
CONSTANTS
    report = report
    letter = letter
    Docs <- MCDocs
    Keys = {"k1", "k2"}
    Hash <- TwoKeys
    Pages <- MCPages
    Blank <- MCBlank
    LangOf <- MCLangOf
    Langs = {"", "eng", "XXX"}
    NoLang = ""
    Requests <- Mixed
    Workers = {w1, w2, w3}
    Callers = {c1, c2}
    MaxRequests = 3
    PollLimit = 0
    RedisFails = FALSE
    Crashes = FALSE
    TaskFails = FALSE
SPECIFICATION Spec
SYMMETRY Symmetric
INVARIANTS
    TypeOK
    SomeWorkerFree
