SPECIFICATION Spec
CONSTANTS
    None = 0
    Requests = {1, 2}
    Calls = {}
INVARIANT
    StatusOfRunning
CHECK_DEADLOCK FALSE
