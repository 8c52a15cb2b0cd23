\* Two runs of one session; the global lane has one slot or two.
SPECIFICATION RunSpec
CONSTANTS
    Runs = {r1, r2}
    SessionLaneOf <- MCSessionLaneOf
    GlobalLane = main
    Lanes = {main, sa}
    SharedLanes = {main}
    Entries <- MCEntries
    LaneOf <- MCLaneOf
    PriorityOf <- MCPriorityOf
    TimedEntries <- MCTimedEntries
    Limits = {1, 2}
    Waiters = {w1}
    MaxResets = 1
    main = main
    sa = sa
PROPERTIES
    EveryRunIsAnswered
CHECK_DEADLOCK FALSE
