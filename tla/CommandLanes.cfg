\* One shared lane with one or two slots.
SPECIFICATION Spec
CONSTANTS
    Lanes = {main}
    SharedLanes = {main}
    Entries = {e1, e2, e3}
    LaneOf <- MCLaneOf
    PriorityOf <- MCPriorityOf
    TimedEntries = {e2}
    Limits = {1, 2}
    Waiters = {w1}
    MaxResets = 1
    main = main
    e1 = e1
    e2 = e2
    e3 = e3
INVARIANTS
    NoStrandedWork
    NothingIsLost
    WaitersAreWoken
PROPERTIES
    StartsWithinLimit
    StartsInOrder
    StartsOnce
    EveryPromiseSettles
CHECK_DEADLOCK FALSE
