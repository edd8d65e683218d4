------------------------------ MODULE Positions ------------------------------
(***************************************************************************)
(* POST /api/positions and PUT /api/vehicles/:id/geofence                  *)
(* (usecase/position_usecase.go, usecase/geofence_usecase.go) over the     *)
(* positions and geofences tables of D1.                                   *)
(*                                                                         *)
(* Every D1 statement and every publish is an HTTP call: a step of its     *)
(* own, atomic in the database, that may fail whether or not it was        *)
(* applied.  Requests overlap freely, and the container may stop with any  *)
(* number of them half done.  The vehicles table moves by itself, as       *)
(* VehicleTable lets it.                                                   *)
(***************************************************************************)
EXTENDS VehicleTable, Naturals, FiniteSets

CONSTANTS
    Place,      \* where a vehicle can be
    Area,       \* the places some circle contains: sets of places
    MaxFixes,   \* bound on the positions drivers send
    MaxSets,    \* bound on the geofence requests
    MaxWriting, \* bound on the position requests in progress at once
    MaxSetting  \* bound on the geofence requests in progress at once

ASSUME PositionsAssumption ==
    /\ Area \subseteq (SUBSET Place) \ {{}}  \* a circle contains its centre
    /\ MaxFixes \in Nat /\ MaxSets \in Nat
    /\ MaxWriting \in Nat /\ MaxSetting \in Nat

VARIABLES
    rows,       \* the positions table
    lastId,     \* its AUTOINCREMENT counter, which outlives deleted rows
    fixes,      \* how many positions drivers have sent; numbers recorded_at
    writing,    \* Write requests in progress
    fences,     \* the geofences table
    sets,       \* how many geofence requests were made; numbers NewID
    setting,    \* Set requests in progress
    shown,      \* shown[v]: recorded_at of the marker on a dashboard that has
                \* been connected all along; 0 for none
    answered    \* history: the writes answered 201, with the fence each one
                \* read (NoFence when none) and the alert it broadcast

positionVars == <<rows, lastId, fixes, writing, shown, answered>>
fenceVars == <<fences, sets, setting>>
vars == <<driverOf, positionVars, fenceVars>>

NoFence == {}

Row == [id : 0..MaxFixes, v : Vehicle, at : Place, rec : 1..MaxFixes]

FenceRow == [id : 1..MaxSets, v : Vehicle, area : Area]

Alert == {"enter", "exit", "quiet", "failed"}

TypeOK ==
    /\ TableTypeOK
    /\ rows \in SUBSET Row
    /\ lastId \in 0..MaxFixes
    /\ fixes \in 0..MaxFixes
    /\ writing \in SUBSET [pc    : {"owned", "stored", "sent", "fenced", "crossed"},
                           row   : Row,
                           area  : Area \cup {NoFence},
                           alert : Alert]
    /\ fences \in SUBSET FenceRow
    /\ sets \in 0..MaxSets
    /\ setting \in SUBSET [pc : {"checked", "cleared"}, fence : FenceRow, alone : BOOLEAN]
    /\ shown \in [Vehicle -> 0..MaxFixes]
    /\ answered \in SUBSET [row : Row, area : Area \cup {NoFence}, alert : Alert]

Init ==
    /\ TableInit
    /\ rows = {}
    /\ lastId = 0
    /\ fixes = 0
    /\ writing = {}
    /\ fences = {}
    /\ sets = 0
    /\ setting = {}
    /\ shown = [v \in Vehicle |-> 0]
    /\ answered = {}

-----------------------------------------------------------------------------
Become(w, x) == writing' = (writing \ {w}) \cup {x}

Done(w) == writing' = writing \ {w}

Answer201(w, alert) ==
    answered' = answered \cup {[row |-> w.row, area |-> w.area, alert |-> alert]}

\* IsInsideCircle of the two ends, compared.
Crossing(from, to, area) ==
    IF (from \in area) = (to \in area) THEN "quiet"
    ELSE IF to \in area THEN "enter" ELSE "exit"

Previous_Newest(row) ==
    {q \in rows : /\ q.v = row.v /\ q.id # row.id
                  /\ \A r \in rows : r.v = row.v /\ r.id # row.id => r.id <= q.id}

\* GetMostRecentByVehicleBeforeID: at most one row.
Previous(row) ==
    {q \in rows : /\ q.v = row.v /\ q.id < row.id
                  /\ \A r \in rows : r.v = row.v /\ r.id < row.id => r.id <= q.id}

\* Write with good fields, up to the owner check that passes.
WriteLookup(v, d, at) ==
    /\ fixes < MaxFixes
    /\ Cardinality(writing) < MaxWriting
    /\ driverOf[v] = d
    /\ fixes' = fixes + 1
    /\ writing' = writing \cup
           {[pc |-> "owned", row |-> [id |-> 0, v |-> v, at |-> at, rec |-> fixes + 1],
             area |-> NoFence, alert |-> "quiet"]}
    /\ UNCHANGED <<driverOf, rows, lastId, shown, answered, fenceVars>>

\* 404 or 403.
WriteRefused(v, d) ==
    /\ driverOf[v] # d
    /\ UNCHANGED vars

WriteInsert_Retried(w) ==
    /\ w.pc = "owned"
    /\ Exists(w.row.v)
    /\ \E again \in 0..1 :
          /\ rows' = rows \cup {[w.row EXCEPT !.id = lastId + 1 + i] : i \in 0..again}
          /\ lastId' = lastId + 1 + again
          /\ Become(w, [w EXCEPT !.pc = "stored", !.row.id = lastId + 1 + again])
    /\ UNCHANGED <<driverOf, fixes, shown, answered, fenceVars>>

WriteInsert_IgnoresError(w) ==
    /\ w.pc = "owned"
    /\ \/ rows' = rows \cup {[w.row EXCEPT !.id = lastId + 1]}
       \/ UNCHANGED rows
    /\ lastId' = lastId + 1
    /\ Become(w, [w EXCEPT !.pc = "stored", !.row.id = lastId + 1])
    /\ UNCHANGED <<driverOf, fixes, shown, answered, fenceVars>>

\* INSERT ... RETURNING id; the foreign key wants the vehicle still there.
WriteInsert(w) ==
    /\ w.pc = "owned"
    /\ Exists(w.row.v)
    /\ rows' = rows \cup {[w.row EXCEPT !.id = lastId + 1]}
    /\ lastId' = lastId + 1
    /\ Become(w, [w EXCEPT !.pc = "stored", !.row.id = lastId + 1])
    /\ UNCHANGED <<driverOf, fixes, shown, answered, fenceVars>>

\* 500: not applied (the vehicle is gone, or D1 failed), or applied unseen.
WriteInsertFails(w) ==
    /\ w.pc = "owned"
    /\ \/ UNCHANGED <<rows, lastId>>
       \/ /\ Exists(w.row.v)
          /\ rows' = rows \cup {[w.row EXCEPT !.id = lastId + 1]}
          /\ lastId' = lastId + 1
    /\ Done(w)
    /\ UNCHANGED <<driverOf, fixes, shown, answered, fenceVars>>

\* PublishPositionUpdate: delivered or not, the request goes on.
PublishPosition(w) ==
    /\ w.pc = "stored"
    /\ \/ shown' = [shown EXCEPT ![w.row.v] = w.row.rec]
       \/ UNCHANGED shown
    /\ Become(w, [w EXCEPT !.pc = "sent"])
    /\ UNCHANGED <<driverOf, rows, lastId, fixes, answered, fenceVars>>

\* maybeEmitGeofenceAlert: a fence of the vehicle (the query has no ORDER BY),
ReadFence(w) ==
    /\ w.pc = "sent"
    /\ \E f \in fences :
          /\ f.v = w.row.v
          /\ Become(w, [w EXCEPT !.pc = "fenced", !.area = f.area])
    /\ UNCHANGED <<driverOf, rows, lastId, fixes, shown, answered, fenceVars>>

\* or none;
ReadNoFence(w) ==
    /\ w.pc = "sent"
    /\ \A f \in fences : f.v # w.row.v
    /\ Done(w)
    /\ Answer201(w, "quiet")
    /\ UNCHANGED <<driverOf, rows, lastId, fixes, shown, fenceVars>>

\* the position before this one, on the other side of the circle,
ReadCrossing(w) ==
    /\ w.pc = "fenced"
    /\ \E q \in Previous(w.row) :
          /\ Crossing(q.at, w.row.at, w.area) # "quiet"
          /\ Become(w, [w EXCEPT !.pc = "crossed",
                                 !.alert = Crossing(q.at, w.row.at, w.area)])
    /\ UNCHANGED <<driverOf, rows, lastId, fixes, shown, answered, fenceVars>>

\* or on the same side, or none;
ReadNoCrossing(w) ==
    /\ w.pc = "fenced"
    /\ \A q \in Previous(w.row) : Crossing(q.at, w.row.at, w.area) = "quiet"
    /\ Done(w)
    /\ Answer201(w, "quiet")
    /\ UNCHANGED <<driverOf, rows, lastId, fixes, shown, fenceVars>>

\* either lookup failing is logged and skipped;
LookupFails(w) ==
    /\ w.pc \in {"sent", "fenced"}
    /\ Done(w)
    /\ Answer201(w, "failed")
    /\ UNCHANGED <<driverOf, rows, lastId, fixes, shown, fenceVars>>

\* and so is the alert's own publish.
PublishAlert(w) ==
    /\ w.pc = "crossed"
    /\ Done(w)
    /\ Answer201(w, w.alert) \/ Answer201(w, "failed")
    /\ UNCHANGED <<driverOf, rows, lastId, fixes, shown, fenceVars>>

-----------------------------------------------------------------------------
FencesOf(v) == {f \in fences : f.v = v}

\* History: a change to v's fences while another request stands between its
\* two statements.
Disturbed(v, rest) ==
    {IF s.fence.v = v THEN [s EXCEPT !.alone = FALSE] ELSE s : s \in rest}

\* GeofenceUsecase.Set with good fields, up to the lookup that passes.
SetLookup(v, area) ==
    /\ sets < MaxSets
    /\ Cardinality(setting) < MaxSetting
    /\ Exists(v)
    /\ sets' = sets + 1
    /\ setting' = setting \cup
           {[pc |-> "checked", fence |-> [id |-> sets + 1, v |-> v, area |-> area],
             alone |-> TRUE]}
    /\ UNCHANGED <<driverOf, positionVars, fences>>

\* 404.
SetRefused(v) ==
    /\ ~Exists(v)
    /\ UNCHANGED vars

ClearFence_Nothing(s) ==
    /\ s.pc = "checked"
    /\ setting' = Disturbed(s.fence.v, setting \ {s}) \cup
                      {[s EXCEPT !.pc = "cleared", !.alone = TRUE]}
    /\ UNCHANGED <<driverOf, positionVars, fences, sets>>

\* GeofenceRepo.Upsert: DELETE WHERE vehicle_id = ?,
ClearFence(s) ==
    /\ s.pc = "checked"
    /\ fences' = fences \ FencesOf(s.fence.v)
    /\ setting' = Disturbed(s.fence.v, setting \ {s}) \cup
                      {[s EXCEPT !.pc = "cleared", !.alone = TRUE]}
    /\ UNCHANGED <<driverOf, positionVars, sets>>

\* (500: not applied, or applied unseen)
ClearFenceFails(s) ==
    /\ s.pc = "checked"
    /\ \/ fences' = fences /\ setting' = setting \ {s}
       \/ /\ fences' = fences \ FencesOf(s.fence.v)
          /\ setting' = Disturbed(s.fence.v, setting \ {s})
    /\ UNCHANGED <<driverOf, positionVars, sets>>

\* then INSERT, which the foreign key refuses for a deleted vehicle.
InstallFence(s) ==
    /\ s.pc = "cleared"
    /\ Exists(s.fence.v)
    /\ fences' = fences \cup {s.fence}
    /\ setting' = Disturbed(s.fence.v, setting \ {s})
    /\ UNCHANGED <<driverOf, positionVars, sets>>

InstallFenceFails(s) ==
    /\ s.pc = "cleared"
    /\ \/ fences' = fences /\ setting' = setting \ {s}
       \/ /\ Exists(s.fence.v)
          /\ fences' = fences \cup {s.fence}
          /\ setting' = Disturbed(s.fence.v, setting \ {s})
    /\ UNCHANGED <<driverOf, positionVars, sets>>

-----------------------------------------------------------------------------
Hire(v, d) ==
    /\ Add(v, d) \/ Reassign(v, d)
    /\ UNCHANGED <<positionVars, fenceVars>>

DropCascade_FencesStay(v) ==
    /\ Drop(v)
    /\ rows' = {r \in rows : r.v # v}
    /\ UNCHANGED <<lastId, fixes, writing, shown, answered, fenceVars>>

\* DELETE FROM vehicles, ON DELETE CASCADE.
DropCascade(v) ==
    /\ Drop(v)
    /\ rows' = {r \in rows : r.v # v}
    /\ fences' = fences \ FencesOf(v)
    /\ setting' = Disturbed(v, setting)
    /\ UNCHANGED <<lastId, fixes, writing, shown, answered, sets>>

\* The container is stopped or replaced: what it was doing is never finished.
ContainerStop ==
    /\ writing # {} \/ setting # {}
    /\ writing' = {}
    /\ setting' = {}
    /\ UNCHANGED <<driverOf, rows, lastId, fixes, shown, answered, fences, sets>>

WriteStep(w) ==
    \/ WriteInsert(w)
    \/ WriteInsertFails(w)
    \/ PublishPosition(w)
    \/ ReadFence(w)
    \/ ReadNoFence(w)
    \/ ReadCrossing(w)
    \/ ReadNoCrossing(w)
    \/ LookupFails(w)
    \/ PublishAlert(w)

SetStep(s) ==
    \/ ClearFence(s)
    \/ ClearFenceFails(s)
    \/ InstallFence(s)
    \/ InstallFenceFails(s)

Next ==
    \/ \E v \in Vehicle, d \in Driver, at \in Place : WriteLookup(v, d, at)
    \/ \E v \in Vehicle, d \in Driver : WriteRefused(v, d)
    \/ \E w \in writing : WriteStep(w)
    \/ \E v \in Vehicle, area \in Area : SetLookup(v, area)
    \/ \E v \in Vehicle : SetRefused(v)
    \/ \E s \in setting : SetStep(s)
    \/ \E v \in Vehicle, d \in DriverId : Hire(v, d)
    \/ \E v \in Vehicle : DropCascade(v)
    \/ ContainerStop

Spec == Init /\ [][Next]_vars

-----------------------------------------------------------------------------
Consecutive(q, r) ==
    /\ q.v = r.v /\ q.id < r.id
    /\ ~ \E m \in rows : m.v = r.v /\ q.id < m.id /\ m.id < r.id

\* An answered write that met no failure reported exactly the crossing between
\* its position and the one stored before it, if any, of the fence it read:
\* no crossing is missed, invented or reported by two writes, however many
\* writes of the vehicle overlap.
CrossingsReported ==
    \A e \in answered :
        e.row \in rows /\ e.area # NoFence /\ e.alert # "failed" =>
            /\ \A q \in rows :
                  Consecutive(q, e.row) => e.alert = Crossing(q.at, e.row.at, e.area)
            /\ e.alert # "quiet" => \E q \in rows : Consecutive(q, e.row)

\* What was answered 201, and what a dashboard shows, is in the positions table
\* for as long as the vehicle exists (Write's "durably written before the
\* publisher is called").
StoredBeforeSeen ==
    /\ \A e \in answered : Exists(e.row.v) => e.row \in rows
    /\ \A v \in Vehicle : Exists(v) /\ shown[v] # 0 =>
          \E r \in rows : r.v = v /\ r.rec = shown[v]

\* A vehicle deleted under a request that already looked it up leaves neither
\* positions nor fences behind.
NoOrphans == \A x \in rows \cup fences : Exists(x.v)

\* A Set that nobody overlapped between its statements leaves exactly its own
\* fence, whatever failed, interrupted or overlapping Sets left before it
\* (Upsert's "re-running is safe and produces the intended end state").
LoneSetRepairs ==
    [][\A s \in setting :
          s.pc = "cleared" /\ s.alone /\ s.fence \in fences'
          => {f \in fences' : f.v = s.fence.v} = {s.fence}]_vars

\* The promise of PositionUsecase.Write over PositionRepo.Insert: see PositionLog.
Log == INSTANCE PositionLog WITH
          sent <- fixes,
          waiting <- {w.row : w \in {x \in writing : x.pc = "owned"}},
          log <- rows,
          last <- lastId,
          acked <- {e.row : e \in answered}

\* Whatever overlaps, fails, is killed or deleted, a position is stored once or
\* not at all, keeps its place in the order of storing, is answered 201 and shown
\* only after that, and goes only with its vehicle.
ImplementsPositionLog == Log!LogSpec

\* GetByVehicle's comment: "at most one fence per vehicle" is enforced by
\* Upsert.  Two overlapping Upserts break it.
AtMostOneFence == \A v \in Vehicle : Cardinality(FencesOf(v)) <= 1
=============================================================================
