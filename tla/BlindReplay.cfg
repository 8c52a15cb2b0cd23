\* One required delivery, the pass at startup, and one crash.
SPECIFICATION Spec
CONSTANTS
    Deliveries = {1}
    PayloadCount = 1
    BestEffort = {}
    Required = {1}
    Reconciles = {1}
    TimesOut = {}
    Passes = {"startup"}
    Startup = "startup"
    Matches <- MCMatches
    Bypass = {}
    MaxRetries = 2
    MaxCrashes = 1
    MaxFaults = 0
    Nothing = 0
INVARIANT
    NoBlindReplay
CHECK_DEADLOCK FALSE
