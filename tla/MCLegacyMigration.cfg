SPECIFICATION FairSpec
CONSTANTS
    Operator = {1, 2}
    Path <- MCPath
    NoPath = 0
    Snapshot = {full, mailless, other, broken}
    full = full
    mailless = mailless
    other = other
    broken = broken
    Nothing = Nothing
    Source <- MCSource
    PanelRows <- MCPanelRows
    Scopes <- MCScopes
INVARIANTS
    TargetConsistent
    WayBack
PROPERTIES
    UndoesOneSlice
    OrderCompletes
CHECK_DEADLOCK FALSE
