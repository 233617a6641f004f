SPECIFICATION Spec
CONSTANTS
    a1 = a1
    a2 = a2
    a3 = a3
    a4 = a4
    Appends <- MCAppends
    Genesis = Genesis
    Null = Null
    MaxLives = 3
INVARIANTS
    ReceiptRecorded
    ChainIntact
PROPERTY
    VerifySound
SYMMETRY Symmetry
CHECK_DEADLOCK FALSE
