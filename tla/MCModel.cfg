SPECIFICATION MCSpec
CONSTANTS
    MaxTrainings = 4
    LoadsAgain = FALSE
    MaxEpoch = 2
    MaxWordNgrams = 2
    MaxExponent = 2
    MaxBucket = 2
    MaxTrials = 4
    KSub = 3
    IntHalf = 128
    Dims = {1, 2, 3}
    DsubValues = {2, 4}
    Sizes <- SomeSizes
    MaxWords = 4
    MaxBuckets = 4
    MaxLabels = 4
    Lengths = {0, 5}
    MaxItems = 4
    MaxScore = 2
    MaxBytes = 4
    MaxN = 3
    EOS = EOS
    w1 = w1
    w2 = w2
    w3 = w3
    l1 = l1
    l2 = l2
    all = all
INVARIANTS
    LibraryHolds
    HoldsBest
    SubwordsRight
    ChosenAsAsked
    FileHolds
CHECK_DEADLOCK FALSE
