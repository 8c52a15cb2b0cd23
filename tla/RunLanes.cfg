\* Three runs of one session; a restart does not wait for tasks.
SPECIFICATION RunSpec
CONSTANTS
    Runs = {r1, r2, r3}
    SessionLaneOf <- MCSessionLaneOf
    GlobalLane = main
    Lanes = {main, sa}
    SharedLanes = {main}
    Entries <- MCEntries
    LaneOf <- MCLaneOf
    PriorityOf <- MCPriorityOf
    TimedEntries <- MCTimedEntries
    Limits = {2}
    Waiters = {}
    MaxResets = 1
    main = main
    sa = sa
SYMMETRY MCSymmetry
INVARIANTS
    OneLiveRunPerSession
    NoCircularWait
CHECK_DEADLOCK FALSE
