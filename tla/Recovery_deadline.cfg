SPECIFICATION Spec
CONSTANTS
    x = x
    y = y
    a = a
    b = b
    Keys = {x, y}
    Values = {a, b}
    Commands <- MCStrings
    MaxMemory = 0
    EvictLRU = FALSE
    MaxBatch = 1
    MaxTime = 4
    MaxLog = 4
INVARIANT
    ReplayEqualsLive
