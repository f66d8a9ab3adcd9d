SPECIFICATION FairSpec
CONSTANTS
    nthreads = 3
    MAX_KEY = 4
    NUM_BUCKETS = 2
    MAX_ITERATIONS = 2
    Inputs <- MCInputs
INVARIANTS RanksExact SortExact
