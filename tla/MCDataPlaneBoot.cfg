SPECIFICATION BootSpec
CONSTANTS
    ReadinessTimeout = 2
    Environments <- MCEnvironments
INVARIANTS
    ReadyIsServed
    PortalNotMissed
PROPERTY
    StopIsFollowed
CHECK_DEADLOCK FALSE
