SPECIFICATION Spec
CONSTANTS
    r1 = r1
    r2 = r2
    r3 = r3
    r4 = r4
    a1 = a1
    a2 = a2
    k1 = k1
    k2 = k2
    k1lower = k1lower
    k1upper = k1upper
    k2lower = k2lower
    n1 = n1
    n2 = n2
    Null = Null
    Requests <- MCRequests
    Agents <- MCAgents
    Keys <- MCKeys
    Hexes <- MCHexes
    KeyOf <- MCKeyOf
    Canonical <- MCCanonical
    Registrations <- MCRegistrations
    Nonces <- MCNonces
    Grace = 4
    Skew = 1
    Timeout = 1
    MaxTime = 5
INVARIANTS
    OneCurrentKey
    NoLockout
    GraceEnforced
PROPERTY
    RotatedByCurrent
SYMMETRY Symmetry
CHECK_DEADLOCK FALSE
