SPECIFICATION FairSpec
CONSTANTS
    None = 0
    Requests = {1, 2, 3, 4}
    Calls = {4}
INVARIANT
    TypeOK
PROPERTIES
    StatusSettles
    AcceptedIsSettled
CHECK_DEADLOCK FALSE
