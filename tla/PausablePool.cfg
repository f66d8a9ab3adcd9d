SPECIFICATION PSpec
CONSTANTS
    w1 = w1  w2 = w2  c1 = c1  c2 = c2  j1 = j1  j2 = j2
    nojob = nojob  nothread = nothread
    Workers = {w1, w2}
    Clients = {c1, c2}
    Owner = c1
    Adders = {c1}
    Waiters = {c1}
    Pausers = {c2}
    Jobs = {j1, j2}
    NoJob = nojob
    NoThread = nothread
PROPERTIES PauseLosesNothing WorkCanBeAdded
CHECK_DEADLOCK FALSE
