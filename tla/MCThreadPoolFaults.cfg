\* One caller and two workers; anything may fail.
CONSTANTS
    report = report
    letter = letter
    Docs <- MCDocs
    Keys = {"k1"}
    Hash <- OneKey
    Pages <- MCPages
    Blank <- MCBlank
    LangOf <- MCLangOf
    Langs = {"", "eng", "XXX"}
    NoLang = ""
    Requests <- AnyRequest
    Workers = {w1, w2}
    Callers = {c1}
    MaxRequests = 2
    PollLimit = 0
    RedisFails = TRUE
    Crashes = TRUE
    TaskFails = TRUE
SPECIFICATION FairSpec
INVARIANTS
    EachTaskOnce
PROPERTIES
    ImplementsService
