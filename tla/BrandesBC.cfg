SPECIFICATION FairSpec
CONSTANTS
    Threads = {t1, t2}
    Inputs <- MCInputs
    local_size = 1
    Unit = 12
INVARIANTS PathsCounted ScoresExact
PROPERTIES ScoresReturned
