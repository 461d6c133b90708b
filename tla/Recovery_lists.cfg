SPECIFICATION Spec
CONSTANTS
    x = x
    y = y
    a = a
    b = b
    Keys = {x, y}
    Values = {a, b}
    Commands <- MCLists
    MaxMemory = 5
    EvictLRU = FALSE
    MaxBatch = 1
    MaxTime = 3
    MaxLog = 3
INVARIANTS
    TypeOK
    ReplayAgrees
    ErrorsChangeNothing
