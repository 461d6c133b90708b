SPECIFICATION FairSpec
CONSTANTS
    c1 = c1
    w1 = w1
    l1 = l1
    Clients = {c1, w1}
    Rewriters = {w1}
    Expiry = Expiry
    Loops = {l1}
    Capacity = 3
    BatchLimit = 2
    Delay = TRUE
    MaxRounds = 2
    MaxExpiries = 1
PROPERTIES
    EveryRequestAnswered
CHECK_DEADLOCK FALSE
