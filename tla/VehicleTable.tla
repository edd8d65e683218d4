----------------------------- MODULE VehicleTable -----------------------------
(***************************************************************************)
(* What the vehicles table promises to the rest of the API: a vehicle is   *)
(* created once, under an id never used before, may change hands while it  *)
(* exists, and never comes back once deleted.  Vehicles.tla implements it; *)
(* Positions.tla, which looks vehicles up and hangs rows off them, runs    *)
(* over it.                                                                *)
(***************************************************************************)
CONSTANTS
    Vehicle,    \* the ids NewID can give to vehicles
    Driver,     \* registered drivers
    NoDriver,   \* driver_id NULL
    Unborn,     \* state of an id not used yet
    Gone        \* state of an id whose row was deleted

ASSUME TableAssumption ==
    /\ NoDriver \notin Driver /\ Unborn \notin Driver /\ Gone \notin Driver
    /\ Unborn # NoDriver /\ Gone # NoDriver /\ Unborn # Gone

VARIABLE driverOf   \* driverOf[v]: its driver_id, or the state of an absent row

DriverId == Driver \cup {NoDriver}

TableTypeOK == driverOf \in [Vehicle -> DriverId \cup {Unborn, Gone}]

Exists(v) == driverOf[v] \in DriverId

TableInit == driverOf = [v \in Vehicle |-> Unborn]

Add(v, d) ==
    /\ driverOf[v] = Unborn
    /\ driverOf' = [driverOf EXCEPT ![v] = d]

Reassign(v, d) ==
    /\ Exists(v)
    /\ driverOf' = [driverOf EXCEPT ![v] = d]

Drop(v) ==
    /\ Exists(v)
    /\ driverOf' = [driverOf EXCEPT ![v] = Gone]

TableNext ==
    \E v \in Vehicle :
        \/ \E d \in DriverId : Add(v, d) \/ Reassign(v, d)
        \/ Drop(v)

TableSpec == TableInit /\ [][TableNext]_driverOf
=============================================================================
