SPECIFICATION FairSpec
CONSTANTS
    w1 = w1  w2 = w2  c1 = c1  c2 = c2  j1 = j1  j2 = j2  j3 = j3
    nojob = nojob  nothread = nothread
    Workers = {w1, w2}
    Clients = {c1, c2}
    Owner = c1
    Adders = {c1, c2}
    Waiters = {c2}
    Jobs = {j1, j2, j3}
    NoJob = nojob
    NoThread = nothread
INVARIANTS WaitSound CountsExact NoStrandedJob EachJobOnce PoolInv
PROPERTIES ImplementsJobPool
