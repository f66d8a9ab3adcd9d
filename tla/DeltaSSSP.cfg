SPECIFICATION FairSpec
CONSTANTS
    Threads = {t1, t2}
    Inputs <- MCInputs
    kDistInf = 12
    kMaxBin = 13
    kBinSizeThreshold = 3
INVARIANTS NothingForgotten DistancesExact FrontierFits
PROPERTIES SearchEnds
