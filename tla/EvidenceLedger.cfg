\* Four calls.
SPECIFICATION Spec
CONSTANTS
    Commits = {c1, c2, c3, c4}
INVARIANTS
    LedgerVerifies
    TamperingIsFound
    LossIsMalformed
PROPERTIES
    ChainGrowsAtItsEnd
