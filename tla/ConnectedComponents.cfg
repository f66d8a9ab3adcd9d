SPECIFICATION FairSpec
CONSTANTS
    Threads = {t1, t2}
    Inputs <- MCInputs
    neighbor_rounds = 1
INVARIANTS ForestSound RegionsDeliver
PROPERTIES OnlyMerges LabellingEnds
