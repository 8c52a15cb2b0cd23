\* A required delivery of a channel that reconciles, and a best-effort one; one
\* crash and one failing write.
SPECIFICATION Spec
CONSTANTS
    Deliveries = {1, 2}
    PayloadCount = 2
    BestEffort = {2}
    Required = {1}
    Reconciles = {1}
    TimesOut = {1}
    Passes <- MCPasses
    Startup = "startup"
    Matches <- MCMatches
    Bypass = {"drain"}
    MaxRetries = 2
    MaxCrashes = 1
    MaxFaults = 1
    Nothing = 0
INVARIANTS
    OneSender
    ClaimsAreHeld
    AckedWasSent
    FirstSendIsNotRepeated
PROPERTIES
    EveryRowSettles
    IsDeliveryIntent
\* Every delivery may have come to its end; then no pass has anything to do.
CHECK_DEADLOCK FALSE
