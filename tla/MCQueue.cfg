SPECIFICATION MCSpec
CONSTANTS
    Ids = {t1, t2, t3}
    Hash <- AllCollide
    FirstSize = 2
    MaxThreads = 3
    MaxFailures = 0
    Takers = {p1, p2}
    Width = 32
    BlockSize = 2
    Start = 28
    MaxCall = 3
    MaxSent = 4
    MaxMissed = 1
    FirstCapacity = 1
    MaxHeaders = 3
    Throws = TRUE
    None = None
    Blocks = {t1, t2, t3}
    Threads = {t1, t2, t3}
    Nodes = {n1, n2}
    Nil = Nil
    Consumers = {c1, c2}
    Offset <- OneByOne
    Calls = {"one", "bulk", "token", "tokenBulk"}
    Quota = 1
    MaxProducers = 3
    MaxBulk = 2
    MaxItems = 3
    c1 = c1
    c2 = c2
    Null = Null
    Wild = Wild
    Free = Free
    Gone = Gone
SYMMETRY Alike
INVARIANTS
    CountsSettled
    ElementsFound
    BlocksHandedOutOnce
    SingleWriter
    ElementsPermitted
    SpreadOut
PROPERTIES
    SameProducer
    NothingOverlooked
CHECK_DEADLOCK FALSE
