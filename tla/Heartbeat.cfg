\* One agent, that wakes may name; one restart in the process, one change of the
\* configuration or the switch, one wake besides those of the interval timer.
SPECIFICATION Spec
CONSTANTS
    Agents = {a1}
    Targeted = {a1}
    Configurations <- MCConfigurations
    All = all
    NoTarget = none
    MaxRunners = 2
    MaxRequests = 1
    MaxChanges = 1
INVARIANTS
    WakeIsScheduled
    WakeIsKept
    OneBatch
    HeartIsArmed
PROPERTIES
    EveryWakeIsHeard
    EveryDueAgentBeats
\* The last runner may have stopped.
CHECK_DEADLOCK FALSE
