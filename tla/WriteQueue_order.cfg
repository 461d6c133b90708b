SPECIFICATION Spec
CONSTANTS
    c1 = c1
    c2 = c2
    w1 = w1
    l1 = l1
    l2 = l2
    Clients = {c1, c2, w1}
    Rewriters = {w1}
    Expiry = Expiry
    Loops = {l1, l2}
    Capacity = 2
    BatchLimit = 2
    Delay = FALSE
    MaxRounds = 2
    MaxExpiries = 1
INVARIANTS
    TypeOK
    OneDispatcher
    ServedInOrder
    StoreFollowsJournal
    EffectsInQueueOrder
    AnswersAreTrue
SYMMETRY Symmetry
CHECK_DEADLOCK FALSE
