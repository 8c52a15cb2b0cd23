\* Two agents; heartbeats are disabled and enabled again.
SPECIFICATION Spec
CONSTANTS
    Agents = {a1, a2}
    Targeted = {a1}
    Configurations <- MCConfigurations
    All = all
    NoTarget = none
    MaxRunners = 1
    MaxRequests = 0
    MaxChanges = 2
INVARIANT
    EnabledHeartIsArmed
CHECK_DEADLOCK FALSE
