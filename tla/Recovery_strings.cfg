SPECIFICATION Spec
CONSTANTS
    x = x
    y = y
    a = a
    b = b
    Keys = {x, y}
    Values = {a, b}
    Commands <- MCStrings
    MaxMemory = 3
    EvictLRU = TRUE
    MaxBatch = 2
    MaxTime = 3
    MaxLog = 3
INVARIANT
    ReplayAgrees
