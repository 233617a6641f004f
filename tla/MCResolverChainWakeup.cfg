SPECIFICATION Spec
CONSTANTS
    r1 = r1
    r2 = r2
    r3 = r3
    h1 = h1
    h2 = h2
    h3 = h3
    Null = Null
    Requests <- MCTwoRequests
    Handles <- MCOneHandle
    Resolvable <- MCOneHandle
    Droppable = {}
    Capacity = 1
    MaxVersion = 0
PROPERTIES
    WaitersAnswered
CHECK_DEADLOCK FALSE
