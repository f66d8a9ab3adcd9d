SPECIFICATION FairSpec
CONSTANTS
    nthreads = 2
    BUCKET_SIZE = 2
    OVERFLOW_BUF_SIZE = 1
    Inputs <- MCInputs
    Timing = TRUE
INVARIANTS ChainShape TableComplete NoUseAfterFree FlatResult
PROPERTIES JoinEnds
