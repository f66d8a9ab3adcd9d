SPECIFICATION Spec
CONSTANTS
    t1 = t1  t2 = t2
    Threads = {t1, t2}
    block_size = 2
    min_degree = 1
    Inputs <- MCInputs
INVARIANTS GraphExact InPlaceSound TrianglesExact
