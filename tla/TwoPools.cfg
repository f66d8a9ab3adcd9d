SPECIFICATION FairSpec
CONSTANTS
    w1 = w1  w2 = w2  c1 = c1  c2 = c2  j1 = j1  j2 = j2
    nojob = nojob  nothread = nothread
    Workers1 = {w1}
    Clients1 = {c1}
    Owner1 = c1
    Jobs1 = {j1}
    Workers2 = {w2}
    Clients2 = {c2}
    Owner2 = c2
    Jobs2 = {j2}
    NoJob = nojob
    NoThread = nothread
PROPERTIES SecondPoolServes
