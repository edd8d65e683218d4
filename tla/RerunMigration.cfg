SPECIFICATION Spec
CONSTANTS
    Migrations = 1
    Statements = 2
    Environments <- MCEnvironments
    Requests = {r1}
    Deadline = 1
    Grace = 1
    MaxFaults = 1
PROPERTY
    RerunSucceeds
