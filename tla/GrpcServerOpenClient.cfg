\* One request; a client that keeps its stream open.
CONSTANT
    MaxSends = 1
SPECIFICATION FairSpec
CHECK_DEADLOCK FALSE
PROPERTIES
    ShutdownCompletes
