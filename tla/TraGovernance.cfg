\* Two calls that share a session, with every fault.
SPECIFICATION Spec
CONSTANTS
    Calls = {c1, c2}
    Sessions = {s1}
    Packs <- MCPacks
    WritePacks <- MCWritePacks
    AlwaysPacks <- MCAlwaysPacks
    RulePacks <- MCRulePacks
    LedgerPacks <- MCLedgerPacks
    AlwaysWritePacks = {}
    SuggestedPack <- MCSuggestedPack
    DefaultPack = glp1
    LegacyEntries <- MCLegacyEntries
    NoPack = NoPack
    NoFile = NoFile
    Faults = {"write", "crash"}
    MaxOps = 2
    glp1 = glp1
    reader = reader
    s1 = s1
SYMMETRY MCSymmetry
INVARIANTS
    ReceiptsTraceToAudit
    TrailIsStagePrefix
    BlockedTrailStops
    StandingConsentIsAudited
    WrittenRowsAreAudited
PROPERTIES
    AnsweredIsAudited
    LockMovesOnlyByChoice
    KeepsTrails
CHECK_DEADLOCK FALSE
