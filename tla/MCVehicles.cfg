CONSTANTS
    Person = {p1, p2}
    Address = {a1}
    Driver = {d1, d2}
    Unborn = Unborn
    NoSession = NoSession
    Vehicle = {v1, v2}
    NoDriver = NoDriver
    Gone = Gone
    Plate = {n1, n2}
    Req = {r1, r2}
    Keep = Keep
    NoVehicle = NoVehicle
SYMMETRY Symmetry
SPECIFICATION Spec
CHECK_DEADLOCK FALSE
INVARIANTS
    PlatesUnique
    EmailsUnique
    SessionsTrue
    ManagersOnly
    AnswersTrue
PROPERTIES
    LonePatchIsExact
    ImplementsVehicleTable
