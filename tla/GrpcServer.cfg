\* Three requests; push may throw, and the close may drop what waits in the channel.
CONSTANT
    MaxSends = 3
SPECIFICATION FairSpec
CHECK_DEADLOCK FALSE
INVARIANTS
    AnswersInOrder
    FinishedMeansAnswered
PROPERTIES
    RequestsAnswered
    StreamEnds
    OnlyClientHoldsShutdown
