SPECIFICATION Spec
CONSTANTS
    Migrations = 2
    Statements = 2
    Environments <- MCEnvironments
    Requests = {r1, r2}
    Deadline = 3
    Grace = 3
    MaxFaults = 3
INVARIANTS
    RecordedMeansApplied
    ServesComplete
    CutOnlyAtDeadline
PROPERTIES
    ImplementsSchemaHistory
    TornForGood
    StartAdvances
    Served
