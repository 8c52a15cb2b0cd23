\* Two requests that give the same id, one caller of waitDecision, and two
\* invocations that may ask for the same approval.
SPECIFICATION Spec
CONSTANTS
    Requests = {r1, r2}
    Ids = {i1}
    IdOf <- MCIdOf
    AllowedBy <- MCAllowedBy
    Waiters = {w1}
    Invocations = {v1, v2}
    NoRequest = NoRequest
    i1 = i1
    r1 = r1
    r2 = r2
INVARIANTS
    OneOutcome
    AllowOnceForwardsOnce
    FallbackNeedsSilence
    OpenApprovalIsReachable
PROPERTIES
    EveryCallerIsAnswered
    IsApproval
\* Every request is answered and every record expires; nothing is left to do.
CHECK_DEADLOCK FALSE
