SPECIFICATION Spec
CONSTANTS
    Ids = {1, 2}
    Articles = {1}
    Parts = {1}
    Editors = {e1}
    MaxCrashes = 1
    Files = {f1}
    Shelves = {"a", "b"}
    Clerks = {"c1", "c2"}
    SealKeys = {k1}
    MaxChanges = 1
    Edges = {"gateway"}
    NewestImage = 2
    MaxWrites = 1
    MaxArchives = 2
    MaxRestores = 1
INVARIANTS AttachmentsKept RestoredWhole LifecycleSafe
CHECK_DEADLOCK FALSE
