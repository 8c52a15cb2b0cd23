\* One strict delivery of a channel with a time limit of its own; no faults.
SPECIFICATION Spec
CONSTANTS
    Deliveries = {1}
    PayloadCount = 2
    BestEffort = {}
    Required = {1}
    Reconciles = {1}
    TimesOut = {1}
    Passes <- MCPasses
    Startup = "startup"
    Matches <- MCMatches
    Bypass = {"drain"}
    MaxRetries = 2
    MaxCrashes = 0
    MaxFaults = 0
    Nothing = 0
INVARIANT
    RemovedAfterSuccess
CHECK_DEADLOCK FALSE
