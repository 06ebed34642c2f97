\* Three threads on one key; no command throws and the process does not die.
CONSTANTS
    Threads = {t1, t2, t3}
    Keys = {k1}
    Filled = Filled
    Scan = Scan
    Data <- MCData
    Langs <- MCLangs
    NoData = ""
    NoLang = ""
    Outcome <- MCOutcome
    PollLimit = 1
    RedisFails = FALSE
    Crashes = FALSE
SPECIFICATION Spec
SYMMETRY Symmetric
INVARIANTS
    NoImmortalRecord
