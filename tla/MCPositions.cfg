CONSTANTS
    Vehicle = {v1}
    Driver = {d1}
    NoDriver = NoDriver
    Unborn = Unborn
    Gone = Gone
    Place <- Places
    Area <- Areas
    MaxFixes = 3
    MaxSets = 2
    MaxWriting = 2
    MaxSetting = 2
SPECIFICATION Spec
INVARIANTS
    CrossingsReported
    StoredBeforeSeen
    NoOrphans
PROPERTIES
    LoneSetRepairs
    ImplementsPositionLog
