------------------------------- MODULE Vehicles -------------------------------
(***************************************************************************)
(* /api/vehicles (handler/vehicle_handler.go, usecase/vehicle_usecase.go,  *)
(* repository/d1/vehicle_repo.go) over the vehicles table, for the people  *)
(* Accounts.tla logs in.  D1 has no transactions over HTTP: PATCH is a     *)
(* read, an existence probe and an UPDATE of the whole row; DELETE is a    *)
(* probe and a DELETE; anything may happen in between, and the answer to   *)
(* any of them may be lost or nonsense.                                    *)
(*                                                                         *)
(* model is left out: it is read and written exactly as driver_id is.  So  *)
(* are the time stamps, which nothing here reads, and field validation,    *)
(* which is over before the first statement.                               *)
(***************************************************************************)
EXTENDS Accounts

CONSTANTS
    Vehicle,    \* the ids NewID can give to vehicles
    NoDriver,   \* driver_id NULL, and the domain's empty string for it
    Gone,       \* state of an id whose row was deleted
    Plate,      \* plate numbers
    Req,        \* requests the container handles at once
    Keep,       \* a nil field of UpdateVehicleInput
    NoVehicle   \* the vehicle of an idle request slot

DriverId == Driver \cup {NoDriver}

Row == [plate : Plate, driver : DriverId]

Patch == [plate : Plate \cup {Keep}, driver : DriverId \cup {Keep}]

ASSUME VehiclesAssumption ==
    /\ Unborn \notin Row /\ Gone \notin Row /\ Unborn # Gone
    /\ Keep \notin Plate \cup DriverId
    /\ NoVehicle \notin Vehicle
    /\ NoDriver \notin Driver /\ "nil" \notin Driver
    /\ IsFiniteSet(Vehicle)

VARIABLES
    row,        \* the vehicles table: a row, Unborn or Gone for each id
    call        \* the request in each slot

vehicleVars == <<row, call>>
vars == <<accountVars, vehicleVars, answer>>

Everything == [plate |-> Keep, driver |-> Keep]

\* merged is the whole row a PATCH will write; alone is history: no other
\* request changed the row since it was read.
Idle == [pc |-> "idle", v |-> NoVehicle, patch |-> Everything, merged |-> Unborn, alone |-> TRUE]

TypeOK ==
    /\ AccountsTypeOK
    /\ row \in [Vehicle -> Row \cup {Unborn, Gone}]
    /\ call \in [Req -> [pc     : {"idle", "loaded", "probed", "deleting"},
                         v      : Vehicle \cup {NoVehicle},
                         patch  : Patch,
                         merged : Row \cup {Unborn},
                         alone  : BOOLEAN]]

Init ==
    /\ AccountsInit
    /\ row = [v \in Vehicle |-> Unborn]
    /\ call = [r \in Req |-> Idle]

-----------------------------------------------------------------------------
(* The table, and the rows D1 answers from it.                             *)

Exists(v) == row[v] \in Row

Stored == {v \in Vehicle : Exists(v)}

\* plate_number UNIQUE: no row but v's has the plate.
PlateFree(p, v) == \A u \in Stored \ {v} : row[u].plate # p

\* driver_id REFERENCES drivers(id).
DriverKnown(d) == d \in Registered \cup {NoDriver}

\* What D1 answers to a write of `new` that it refuses.
Refusals(new, v) ==
    (IF PlateFree(new.plate, v) THEN {} ELSE Refused("vehicles.plate_number"))
    \cup (IF DriverKnown(new.driver) THEN {} ELSE Refused("foreign key"))

\* nullableString, and the row as JSON.
VehicleLine(v) ==
    [id |-> Text(v), plate_number |-> Text(row[v].plate),
     driver_id |-> IF row[v].driver = NoDriver THEN Null ELSE Text(row[v].driver),
     model |-> Null, created_at |-> Number(0), updated_at |-> Number(0)]

Selected(vs) == SetToSeq({VehicleLine(v) : v \in vs})

Probed(v) == IF Exists(v) THEN <<[id |-> Text(v)]>> ELSE <<>>

\* The destinations of scanVehicle and scanVehicleRows, in the order of
\* vehicleColumnList.
VehicleDests == <<"int64", "*string", "string", "*string", "string", "int64">>

ScannedRow_KeepsNull(s) == [plate |-> s[5], driver |-> s[2]]

\* NULL collapses to the domain's "".
ScannedRow(s) == [plate |-> s[5], driver |-> IF s[2] = "nil" THEN NoDriver ELSE s[2]]

ScanVehicle(line) == ScannedRow(Scanned(line, VehicleDests))

\* Repo.Get: the vehicle, or an error.
VehicleRow(a) ==
    IF QueryRow(a) # "ok" THEN NotFoundOr(QueryRow(a))
    ELSE IF ~Scans(Query(a)[1], VehicleDests) THEN NotFoundOr("scan")
    ELSE [error |-> "none", vehicle |-> ScanVehicle(Query(a)[1])]

\* What may come back from a Get of v.
Gets(v) == {VehicleRow(a) : a \in Ran(Selected({v} \cap Stored)) \cup Garbled}

Missing(error, v) == IF error = "not found" THEN Says(404, "vehicle", v) ELSE Silent

\* An Exec under mapDomainError: `done` is what its success claims.
WriteAnswer(a, done, plate, v) ==
    IF Exec(a) = "ok" THEN done
    ELSE IF Violates(a, "vehicles.plate_number") THEN Says(409, "plate", <<plate, v>>)
    ELSE Silent

-----------------------------------------------------------------------------
(* The gate and the requests of one call.                                  *)

Manager_AnySession(p) == session[p] # NoSession

\* denyIfNotManager, on the claims NewAuth read from p's token.
Manager(p) == session[p] # NoSession /\ session[p].role = "manager"

SomeManager == \E p \in Person : Manager(p)

\* 401 or 403.
Deny(p) == ~Manager(p) /\ answer' = Silent /\ UNCHANGED <<accountVars, vehicleVars>>

\* GET /api/vehicles/:id.
Get(v) ==
    /\ SomeManager
    /\ \E got \in Gets(v) :
          answer' = IF got.error = "none" THEN Says(200, "vehicle", <<v, got.vehicle>>)
                    ELSE Missing(got.error, v)
    /\ UNCHANGED <<accountVars, vehicleVars>>

\* GET /api/vehicles: one row that does not scan fails all.
Listing(a) ==
    LET lines == Range(Query(a)) IN
    IF DoQuery(a) = "ok" /\ \A l \in lines : Scans(l, VehicleDests)
    THEN Says(200, "list", {ScanVehicle(l) : l \in lines})
    ELSE Silent

List ==
    /\ SomeManager
    /\ answer' \in {Listing(a) : a \in Ran(Selected(Stored)) \cup Garbled}
    /\ UNCHANGED <<accountVars, vehicleVars>>

\* POST /api/vehicles: one INSERT under a fresh id, which runs,
Create(v, p, d) ==
    LET new == [plate |-> p, driver |-> d] IN
    /\ SomeManager
    /\ row[v] = Unborn
    /\ PlateFree(p, v) /\ DriverKnown(d)
    /\ row' = [row EXCEPT ![v] = new]
    /\ answer' \in {WriteAnswer(a, Says(201, "vehicle", <<v, new>>), p, v) :
                       a \in Ran(<<>>) \cup Garbled}
    /\ UNCHANGED <<accountVars, call>>

\* or violates a constraint: 409 for the plate, 500 for the driver.
CreateRefused(v, p, d) ==
    LET new == [plate |-> p, driver |-> d] IN
    /\ SomeManager
    /\ row[v] = Unborn
    /\ answer' \in {WriteAnswer(a, Says(201, "vehicle", <<v, new>>), p, v) :
                       a \in Refusals(new, v) \cup Garbled}
    /\ UNCHANGED <<accountVars, vehicleVars>>

-----------------------------------------------------------------------------
(* PATCH and DELETE.                                                       *)

Merge_ClearsUnset(old, patch) ==
    [plate  |-> IF patch.plate = Keep THEN old.plate ELSE patch.plate,
     driver |-> IF patch.driver = Keep THEN NoDriver ELSE patch.driver]

\* Update's patch: a nil field keeps the value that was read.
Merge(old, patch) ==
    [plate  |-> IF patch.plate = Keep THEN old.plate ELSE patch.plate,
     driver |-> IF patch.driver = Keep THEN old.driver ELSE patch.driver]

\* The slots after r's statement changed v's row and r was answered.
Answered(r, v) ==
    [q \in Req |-> IF q = r THEN Idle
                   ELSE IF call[q].v = v THEN [call[q] EXCEPT !.alone = FALSE]
                   ELSE call[q]]

\* r is answered and the row stays as it is.
Drop(r) == call' = [call EXCEPT ![r] = Idle] /\ UNCHANGED row

\* Update: Get, then the patch applied to what was read.
PatchLoad(r, v, patch) ==
    /\ SomeManager
    /\ call[r].pc = "idle"
    /\ \E got \in Gets(v) :
          IF got.error = "none"
          THEN /\ call' = [call EXCEPT ![r] =
                             [pc |-> "loaded", v |-> v, patch |-> patch, alone |-> TRUE,
                              merged |-> Merge(got.vehicle, patch)]]
               /\ answer' = Silent
          ELSE answer' = Missing(got.error, v) /\ UNCHANGED call
    /\ UNCHANGED <<accountVars, row>>

\* The probe of VehicleRepo.Update and Delete: on with `next`, or 404, or 500.
Probe(r, v, next) ==
    \E error \in {QueryRow(a) : a \in Ran(Probed(v)) \cup Garbled} :
        IF error = "ok"
        THEN call' = next /\ answer' = Silent
        ELSE /\ call' = [call EXCEPT ![r] = Idle]
             /\ answer' = Missing(NotFoundOr(error).error, v)

PatchProbe(r) ==
    /\ call[r].pc = "loaded"
    /\ Probe(r, call[r].v, [call EXCEPT ![r].pc = "probed"])
    /\ UNCHANGED <<accountVars, row>>

\* Update's answer to a PATCH: its success is a 200 with the merged vehicle,
\* whatever the UPDATE touched.
PatchAnswers(r, told) ==
    LET v == call[r].v
        merged == call[r].merged
    IN  {WriteAnswer(a, Says(200, "patched", <<v, merged>>), merged.plate, v) : a \in told}

PatchWrite_Upsert(r) ==
    /\ call[r].pc = "probed"
    /\ PlateFree(call[r].merged.plate, call[r].v) /\ DriverKnown(call[r].merged.driver)
    /\ row' = [row EXCEPT ![call[r].v] = call[r].merged]
    /\ call' = Answered(r, call[r].v)
    /\ answer' \in PatchAnswers(r, Ran(<<>>) \cup Garbled)
    /\ UNCHANGED accountVars

PatchWrite_NotUnique(r) ==
    /\ call[r].pc = "probed"
    /\ Exists(call[r].v)
    /\ row' = [row EXCEPT ![call[r].v] = call[r].merged]
    /\ call' = Answered(r, call[r].v)
    /\ answer' \in PatchAnswers(r, Ran(<<>>) \cup Garbled)
    /\ UNCHANGED accountVars

\* UPDATE of the whole row, answered 200, or 500 if D1's answer is lost,
PatchWrite(r) ==
    /\ call[r].pc = "probed"
    /\ Exists(call[r].v)
    /\ PlateFree(call[r].merged.plate, call[r].v) /\ DriverKnown(call[r].merged.driver)
    /\ row' = [row EXCEPT ![call[r].v] = call[r].merged]
    /\ call' = Answered(r, call[r].v)
    /\ answer' \in PatchAnswers(r, Ran(<<>>) \cup Garbled)
    /\ UNCHANGED accountVars

\* which touches nothing when the row has gone, and is answered the same,
PatchWriteMissing(r) ==
    /\ call[r].pc = "probed"
    /\ ~Exists(call[r].v)
    /\ Drop(r)
    /\ answer' \in PatchAnswers(r, Ran(<<>>) \cup Garbled)
    /\ UNCHANGED accountVars

\* or violates a constraint.
PatchRefused(r) ==
    /\ call[r].pc = "probed"
    /\ Exists(call[r].v)
    /\ answer' \in PatchAnswers(r, Refusals(call[r].merged, call[r].v))
    /\ Drop(r)
    /\ UNCHANGED accountVars

\* Delete's probe, and the DELETE, answered 204; of a row already gone,
\* nothing, answered the same.
DeleteProbe(r, v) ==
    /\ SomeManager
    /\ call[r].pc = "idle"
    /\ Probe(r, v, [call EXCEPT ![r] = [pc |-> "deleting", v |-> v, patch |-> Everything,
                                       merged |-> Unborn, alone |-> TRUE]])
    /\ UNCHANGED <<accountVars, row>>

DeleteWrite(r) ==
    /\ call[r].pc = "deleting"
    /\ row' = [row EXCEPT ![call[r].v] = Gone]
    /\ call' = Answered(r, call[r].v)
    /\ answer' \in {IF Exec(a) = "ok" THEN Says(204, "vehicle", call[r].v) ELSE Silent :
                       a \in Ran(<<>>) \cup Garbled}
    /\ UNCHANGED accountVars

\* A statement never reaches D1, or the container stops.
CallFails(r) ==
    /\ call[r].pc # "idle"
    /\ Drop(r)
    /\ answer' = Silent
    /\ UNCHANGED accountVars

CallStep(r) ==
    \/ PatchProbe(r)
    \/ PatchWrite(r)
    \/ PatchWriteMissing(r)
    \/ PatchRefused(r)
    \/ DeleteWrite(r)
    \/ CallFails(r)

AccountStep == AccountsNext /\ UNCHANGED vehicleVars

Next ==
    \/ AccountStep
    \/ List
    \/ \E p \in Person : Deny(p)
    \/ \E v \in Vehicle : Get(v)
    \/ \E v \in Vehicle, p \in Plate, d \in DriverId : Create(v, p, d) \/ CreateRefused(v, p, d)
    \/ \E r \in Req, v \in Vehicle, patch \in Patch : PatchLoad(r, v, patch)
    \/ \E r \in Req, v \in Vehicle : DeleteProbe(r, v)
    \/ \E r \in Req : CallStep(r)

Spec == Init /\ [][Next]_vars

-----------------------------------------------------------------------------
\* Two vehicles never have the same plate, whatever creations and patches
\* overlap (the schema's UNIQUE, which the repository maps to 409).
PlatesUnique ==
    \A u, v \in Stored : u # v => row[u].plate # row[v].plate

\* Only a registered manager ever brings a vehicle into being: the role the
\* gate trusts has come from the drivers table through a scan by position, a
\* token and NewAuth.
ManagersOnly ==
    (\E v \in Vehicle : row[v] # Unborn) => \E d \in Registered : account[d].role = "manager"

\* A PATCH is answered 200 with a vehicle that is not there: a DELETE took its
\* row after the probe, so that its UPDATE found none.  The probe is there so
\* that "a missing row must surface as ErrNotFound, not silently succeed with
\* zero rows updated" (vehicle_repo.go:204-205), but is a call of its own.
GhostPatch == answer.of = "patched" /\ row[answer.about[1]] = Gone

\* What the API claims holds of the tables, although D1's answers may be lost,
\* garbled, or a success that only the failed result denies: nothing is called
\* created, patched, deleted, missing or taken that is not, and a listing shows
\* every row as stored.  GhostPatch is the exception, and the only one.
AnswersTrue ==
    /\ AccountAnswersTrue
    /\ answer.of = "vehicle" /\ answer.status \in {200, 201} =>
            row[answer.about[1]] = answer.about[2]
    /\ answer.of = "vehicle" /\ answer.status \in {204, 404} => ~Exists(answer.about)
    /\ answer.of = "patched" => GhostPatch \/ row[answer.about[1]] = answer.about[2]
    /\ answer.of = "list" => answer.about = {row[v] : v \in Stored}
    /\ answer.of = "plate" => ~PlateFree(answer.about[1], answer.about[2])

\* A PATCH whose row nobody else changed since it was read changes exactly the
\* fields it names, to the values it names.
LonePatchIsExact ==
    [][\A r \in Req :
          LET v == call[r].v IN
          call[r].pc = "probed" /\ call[r].alone /\ row' # row /\ call'[r].pc = "idle"
          => \A f \in {"plate", "driver"} :
                row'[v][f] = IF call[r].patch[f] = Keep THEN row[v][f] ELSE call[r].patch[f]]_vars

\* What the rest of the API relies on: see VehicleTable.
Table == INSTANCE VehicleTable WITH
            driverOf <- [v \in Vehicle |-> IF Exists(v) THEN row[v].driver ELSE row[v]]

\* The table never brings a deleted vehicle back, and creates each only once:
\* a PATCH that lost its row between the probe and the UPDATE in particular.
ImplementsVehicleTable == Table!TableSpec
=============================================================================
