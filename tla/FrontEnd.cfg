SPECIFICATION FairFrontSpec
CHECK_DEADLOCK FALSE
CONSTANTS
    None = None
    NoScript = NoScript
    Pages = {"init", "tags"}
    Css = 1
    InitScripts <- TheInitScripts
    TagScripts <- TheTagScripts
    Needs <- TheNeeds
    App = "app"
    Faults = {"config", "style", "script"}
    Chunks = {0, 1}
    Views = {"main", "submenu", "unknown"}
    ChunksOf <- TheChunksOf
    MaxAttempts = 2
    ChunkFaults = {"fail", "slow"}
INVARIANTS
    InOrderOfNeed
    StartedOnce
    NoOrphan
    NothingMissing
PROPERTIES
    StaysLoaded
    Starts
    Appears
    ViewsEnd
