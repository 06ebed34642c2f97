\* Two callers and three workers; two documents of one key; tasks may throw.
CONSTANTS
    report = report
    letter = letter
    Docs <- MCDocs
    Keys = {"k1"}
    Hash <- OneKey
    Pages <- MCPages
    Blank <- MCBlank
    LangOf <- MCLangOf
    Langs = {"", "eng", "XXX"}
    NoLang = ""
    Requests <- Colliding
    Workers = {w1, w2, w3}
    Callers = {c1, c2}
    MaxRequests = 2
    PollLimit = 0
    RedisFails = FALSE
    Crashes = FALSE
    TaskFails = TRUE
SPECIFICATION FairSpec
PROPERTIES
    UsesCacheProtocol
