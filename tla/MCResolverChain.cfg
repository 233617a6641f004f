SPECIFICATION SafetySpec
CONSTANTS
    r1 = r1
    r2 = r2
    r3 = r3
    h1 = h1
    h2 = h2
    h3 = h3
    Null = Null
    Requests <- MCRequests
    Handles <- MCHandles
    Resolvable <- MCResolvable
    Droppable <- MCRequests
    Capacity = 1
    MaxVersion = 2
INVARIANTS
    SingleFlight
    SlotOwned
    NeverBackwards
SYMMETRY Symmetry
CHECK_DEADLOCK FALSE
