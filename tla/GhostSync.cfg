SPECIFICATION FairSpec
CONSTANTS
    NumIters = 7
    Passes = 2
    sync_frequency = 2
    skip_offset = 1
    serialize_threshold = 3
    unserialize_threshold = 2
    Resets = {"before", "after", "never"}
    FirstValues <- MCFirstValues
INVARIANTS SkipsGrounded KeepsDistance
PROPERTIES PassesEnd
