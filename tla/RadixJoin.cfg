SPECIFICATION FairSpec
CONSTANTS
    nthreads = 2
    NUM_RADIX_BITS = 2
    SMALL_PADDING_TUPLES = 1
    L1_CACHE_TUPLES = 1
    Inputs <- MCInputs
INVARIANTS MatchesConserved RangesDisjoint TasksHeldOnce
PROPERTIES JoinEnds
