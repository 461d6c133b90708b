SPECIFICATION FairSpec
CONSTANTS
    c1 = c1
    c2 = c2
    l1 = l1
    l2 = l2
    Clients = {c1, c2}
    Rewriters = {}
    Expiry = Expiry
    Loops = {l1, l2}
    Capacity = 1
    BatchLimit = 2
    Delay = TRUE
    MaxRounds = 1
    MaxExpiries = 0
PROPERTIES
    EveryRequestAnswered
CHECK_DEADLOCK FALSE
