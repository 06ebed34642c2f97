\* Two threads on one key, with errors and crashes.
CONSTANTS
    Threads = {t1, t2}
    Keys = {k1}
    Filled = Filled
    Scan = Scan
    Data <- MCData
    Langs <- MCLangs
    NoData = ""
    NoLang = ""
    Outcome <- MCOutcome
    PollLimit = 3
    RedisFails = TRUE
    Crashes = TRUE
SPECIFICATION FairSpec
INVARIANTS
    TypeOK
    CacheProvenance
PROPERTIES
    CallsReturn
