SPECIFICATION LinuxSpec
CONSTANTS
    Pod = {p1}
    Nbr = {1, 2}
    Self = 9
    Position <- PositionDef
    MaxNeighbours = 1
    Periods = 1
    Window = 1
    Cadence <- CadenceDef
    DefaultCadence = 3
    Retention = 4
    PruneEvery = 2
    Skews <- SkewsDef
    MaxClock = 8
    MaxLines = 2
    MaxEvents = 3
    SweepReports = 2
    MaxOthers = 1
    MaxQueue = 3
    BridgeSweeps = 2
CHECK_DEADLOCK FALSE
INVARIANTS NodeTypeOK CycleNeverOverdue NeighboursAreCurrent NearestAreUsed CadenceAgrees HandedOnInOrder
