SPECIFICATION Spec
CONSTANTS
    a = a
    b = b
    k1 = k1
    k2 = k2
    Keys = {k1, k2}
    Values = {a, b}
    Bytes <- MCBytes
    Empty = Empty
    InitialCapacity = 2
    MaxItems = 4
    Offsets <- MCOffsets
PROPERTY
    ImplementsListSpec
SYMMETRY MCSymmetry
VIEW MCView
INVARIANTS
    TypeOK
    BytesAreExact
    FreeSlotsCleared
    QueriesAgree
