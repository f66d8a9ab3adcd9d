SPECIFICATION FairSpec
CONSTANTS
    Threads = {t1, t2}
    Inputs <- MCInputs
    local_size = 1
    kBitsPerWord = 2
    ChunkSize = 2
INVARIANTS TreeExact FrontierExact EnqueuedOnce
PROPERTIES SearchEnds
