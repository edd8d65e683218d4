CONSTANTS
    Vehicle = {v1}
    Driver = {d1}
    NoDriver = NoDriver
    Unborn = Unborn
    Gone = Gone
    Place <- Places
    Area <- Areas
    MaxFixes = 0
    MaxSets = 2
    MaxWriting = 0
    MaxSetting = 2
SPECIFICATION Spec
INVARIANT AtMostOneFence
