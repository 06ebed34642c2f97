SPECIFICATION MCSpec
CONSTANTS
    Threads = {t1, t2, t3}
    MaxWant = 2
    MaxSignals = 3
    Waits = {"timed", "forever"}
    t1 = t1
    t2 = t2
    Users = {t1, t2}
    Queues = {q1, q2}
    Listeners = {p1, p2, p3}
    QueueOf <- Owners
    DeleteAnytime = FALSE
    Nodes = {b1, b2}
    q1 = q1
    q2 = q2
    p1 = p1
    p2 = p2
    p3 = p3
    Null = Null
    Free = Free
    Gone = Gone
INVARIANTS
    PermitsSettled
    ExitClean
PROPERTIES
    ImplementsSemaphore
    CallsEnd
CHECK_DEADLOCK FALSE
