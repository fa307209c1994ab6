SPECIFICATION Spec
CONSTANTS
    Source = {"rain", "met", "context"}
    SourceOf <- SourceOfDef
    StaticSites <- StaticSitesDef
    Context = 3
    Week = 1
    Month = 2
    Spinup = 1
    Smooth = 2
    Day = 1
    Retention = 6
    PruneEvery = 2
    MaxHours = 7
    MaxGaps = 2
    MaxExtra = 1
    MaxWet = 1
    MaxResets = 1
    Rain = {2}
CHECK_DEADLOCK FALSE
INVARIANTS WindowTypeOK WindowMatchesReference RainIsNeverInvented
