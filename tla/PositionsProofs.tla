--------------------------- MODULE PositionsProofs ---------------------------
(***************************************************************************)
(* Position writes and geofence replacements, for any vehicles, places,    *)
(* circles and any number of overlapping requests.                         *)
(*                                                                         *)
(* Neither half of Positions writes the variables of the other, so the     *)
(* inductive invariant is one part for each; only the vehicles table and   *)
(* the container's stop move both.                                         *)
(***************************************************************************)
EXTENDS Positions, FiniteSetTheorems, TLAPS

-----------------------------------------------------------------------------
(* Position writes.                                                        *)

WriteTypes ==
    /\ rows \in SUBSET Row
    /\ lastId \in 0..MaxFixes
    /\ fixes \in 0..MaxFixes
    /\ writing \in SUBSET [pc    : {"owned", "stored", "sent", "fenced", "crossed"},
                           row   : Row,
                           area  : Area \cup {NoFence},
                           alert : Alert]
    /\ shown \in [Vehicle -> 0..MaxFixes]
    /\ answered \in SUBSET [row : Row, area : Area \cup {NoFence}, alert : Alert]

Owned == {w \in writing : w.pc = "owned"}

\* The requests about to INSERT have been sent, and not stored: ids stay below
\* the number of positions sent.
OwnedCounted == IsFiniteSet(Owned) /\ lastId + Cardinality(Owned) <= fixes

\* AUTOINCREMENT: ids are never above the counter, nor shared.
RowIds == \A r \in rows : r.id <= lastId /\ \A q \in rows : q.id = r.id => q = r

\* What a request has inserted is there as long as its vehicle.
WritesStored ==
    \A w \in writing :
        /\ driverOf[w.row.v] # Unborn
        /\ w.pc # "owned" => w.row.id <= lastId /\ (Exists(w.row.v) => w.row \in rows)
        /\ w.pc \in {"owned", "stored", "sent"} => w.area = NoFence

\* What was answered or shown is of a vehicle that was born, so that Exists is
\* false of it for good once it is false.
SeenKnown ==
    /\ \A e \in answered : driverOf[e.row.v] # Unborn /\ e.row.id <= lastId
    /\ \A v \in Vehicle : shown[v] # 0 => driverOf[v] # Unborn

\* alert is the crossing between row and the row before it, if there is one.
Reported(row, area, alert) ==
    row \in rows =>
        /\ \A q \in rows : Consecutive(q, row) => alert = Crossing(q.at, row.at, area)
        /\ alert # "quiet" => \E q \in rows : Consecutive(q, row)

CrossedReported ==
    \A w \in writing : w.pc = "crossed" => Reported(w.row, w.area, w.alert)

RowsOwned == \A r \in rows : Exists(r.v)

WInv ==
    /\ TableTypeOK
    /\ WriteTypes
    /\ OwnedCounted
    /\ RowIds
    /\ RowsOwned
    /\ WritesStored
    /\ SeenKnown
    /\ StoredBeforeSeen
    /\ CrossedReported
    /\ CrossingsReported

LEMMA InitWInv == Init => WInv
<1> SUFFICES ASSUME Init PROVE WInv
  OBVIOUS
<1>1. Owned = {}
  BY DEF Init, Owned
<1>2. OwnedCounted
  BY <1>1, FS_EmptySet DEF OwnedCounted, Init
<1>3. QED
  BY <1>2, PositionsAssumption
     DEF Init, TableInit, WInv, TableTypeOK, WriteTypes, RowIds, RowsOwned, WritesStored, SeenKnown,
         StoredBeforeSeen, CrossedReported, CrossingsReported

\* The comparison of a row with the one before it does not change when another
\* row is inserted, because that one gets a higher id than both.
LEMMA ReportedAfterInsert ==
    ASSUME WriteTypes, NEW row \in Row, NEW area, NEW alert, NEW new \in Row,
           Reported(row, area, alert), row.id <= lastId,
           new.id = lastId + 1, rows' = rows \cup {new}
    PROVE  Reported(row, area, alert)'
<1>1. new.id > row.id
  BY PositionsAssumption DEF WriteTypes, Row
<1>2. \A q \in rows' : q.id < row.id => q \in rows
  BY <1>1 DEF Row
<1>3. row \in rows' => row \in rows
  BY <1>1 DEF Row
<1>4. \A q \in rows : Consecutive(q, row)' <=> Consecutive(q, row)
  BY <1>2 DEF Consecutive
<1>5. \A q \in rows' : Consecutive(q, row)' => q \in rows
  BY <1>2 DEF Consecutive
<1>6. QED
  BY <1>3, <1>4, <1>5 DEF Reported

\* Nor when another vehicle's rows vanish.
LEMMA ReportedAfterCascade ==
    ASSUME NEW row, NEW area, NEW alert, NEW v, Reported(row, area, alert),
           rows' = {r \in rows : r.v # v}
    PROVE  Reported(row, area, alert)'
<1> SUFFICES ASSUME row \in rows' PROVE Reported(row, area, alert)'
  BY DEF Reported
<1>1. row \in rows /\ row.v # v
  OBVIOUS
<1>2. \A q \in rows : Consecutive(q, row) => q \in rows'
  BY <1>1 DEF Consecutive
<1>3. \A q \in rows' : Consecutive(q, row)' <=> Consecutive(q, row)
  BY <1>1 DEF Consecutive
<1>4. QED
  BY <1>1, <1>2, <1>3 DEF Reported

-----------------------------------------------------------------------------
\* The owner check passes: a request with a position of its own.
LEMMA WriteLookupStep ==
    ASSUME WInv, NEW v \in Vehicle, NEW d \in Driver, NEW at \in Place, WriteLookup(v, d, at)
    PROVE  WInv'
<1> DEFINE w == [pc |-> "owned", row |-> [id |-> 0, v |-> v, at |-> at, rec |-> fixes + 1],
                 area |-> NoFence, alert |-> "quiet"]
<1>1. /\ writing' = writing \cup {w}
      /\ fixes' = fixes + 1 /\ fixes < MaxFixes
      /\ driverOf[v] = d
      /\ UNCHANGED <<driverOf, rows, lastId, shown, answered>>
  BY DEF WriteLookup
<1>2. w.pc = "owned" /\ w.row.v = v /\ w.area = NoFence
  OBVIOUS
<1>3. WriteTypes'
  BY <1>1, PositionsAssumption DEF WInv, WriteTypes, Row, Alert
<1>4. OwnedCounted'
  <2>1. Owned' = Owned \cup {w}
    BY <1>1, <1>2 DEF Owned
  <2>2. IsFiniteSet(Owned) /\ lastId + Cardinality(Owned) <= fixes
    BY DEF WInv, OwnedCounted
  <2>3. /\ IsFiniteSet(Owned')
        /\ Cardinality(Owned') \in {Cardinality(Owned), Cardinality(Owned) + 1}
    BY <2>1, <2>2, FS_AddElement
  <2>4. Cardinality(Owned) \in Nat
    BY <2>2, FS_CardinalityType
  <2>5. lastId \in Nat /\ fixes \in Nat
    BY PositionsAssumption DEF WInv, WriteTypes
  <2>6. QED
    BY <1>1, <2>2, <2>3, <2>4, <2>5 DEF OwnedCounted
<1>5. WritesStored'
  <2>1. driverOf[v] # Unborn
    BY <1>1, TableAssumption
  <2>2. QED
    BY <1>1, <1>2, <2>1 DEF WInv, WritesStored, Exists
<1>6. CrossedReported'
  BY <1>1, <1>2 DEF WInv, CrossedReported, Reported, Consecutive
<1>7. /\ TableTypeOK' /\ RowIds' /\ RowsOwned' /\ SeenKnown' /\ StoredBeforeSeen'
      /\ CrossingsReported'
  BY <1>1 DEF WInv, TableTypeOK, RowIds, RowsOwned, SeenKnown, StoredBeforeSeen,
              CrossingsReported, Consecutive, Exists
<1>8. QED
  BY <1>3, <1>4, <1>5, <1>6, <1>7 DEF WInv

\* The INSERT runs, and the request goes on or never learns of it.
LEMMA InsertedStep ==
    ASSUME WInv, NEW w \in writing, w.pc = "owned", Exists(w.row.v),
           rows' = rows \cup {[w.row EXCEPT !.id = lastId + 1]},
           lastId' = lastId + 1,
           \/ Become(w, [w EXCEPT !.pc = "stored", !.row.id = lastId + 1])
           \/ Done(w),
           UNCHANGED <<driverOf, fixes, shown, answered>>
    PROVE  WInv'
<1> DEFINE new == [w.row EXCEPT !.id = lastId + 1]
           next == [w EXCEPT !.pc = "stored", !.row.id = lastId + 1]
<1>1. /\ w \in [pc    : {"owned", "stored", "sent", "fenced", "crossed"},
                row   : Row, area  : Area \cup {NoFence}, alert : Alert]
      /\ w.row \in Row
      /\ lastId \in Nat /\ fixes \in 0..MaxFixes /\ MaxFixes \in Nat
  BY PositionsAssumption DEF WInv, WriteTypes
<1>2. /\ IsFiniteSet(Owned) /\ w \in Owned
      /\ Owned' = Owned \ {w}
  <2>1. next.pc = "stored"
    BY <1>1
  <2>2. QED
    BY <2>1 DEF WInv, OwnedCounted, Owned, Become, Done
<1>3. /\ IsFiniteSet(Owned') /\ Cardinality(Owned') = Cardinality(Owned) - 1
      /\ Cardinality(Owned) \in Nat /\ Cardinality(Owned') \in Nat
  BY <1>2, FS_RemoveElement, FS_CardinalityType
<1>4. lastId + 1 <= fixes /\ OwnedCounted'
  BY <1>1, <1>3 DEF WInv, OwnedCounted
<1>5. /\ new \in Row /\ new.id = lastId + 1 /\ new.v = w.row.v
      /\ new.rec = w.row.rec /\ new.at = w.row.at
  BY <1>1, <1>4 DEF Row
<1>6. /\ next \in [pc    : {"owned", "stored", "sent", "fenced", "crossed"},
                   row   : Row, area  : Area \cup {NoFence}, alert : Alert]
      /\ next.row = new /\ next.pc = "stored" /\ next.area = w.area
  BY <1>1, <1>5
<1>7. writing' \subseteq (writing \ {w}) \cup {next}
  BY DEF Become, Done
<1> rows' = rows \cup {new}
  OBVIOUS
<1> HIDE DEF new, next
<1>8. WriteTypes'
  <2>1. lastId' \in 0..MaxFixes
    BY <1>1, <1>4
  <2>2. rows' \in SUBSET Row
    BY <1>5 DEF WInv, WriteTypes
  <2>3. QED
    BY <1>6, <1>7, <2>1, <2>2 DEF WInv, WriteTypes
<1>9. RowIds'
  BY <1>1, <1>5 DEF WInv, RowIds, WriteTypes, Row
<1>10. RowsOwned' /\ TableTypeOK'
  BY <1>5 DEF WInv, RowsOwned, TableTypeOK, Exists
<1>11. WritesStored'
  <2> SUFFICES ASSUME NEW x \in writing'
               PROVE  /\ driverOf'[x.row.v] # Unborn
                      /\ x.pc # "owned" => x.row.id <= lastId' /\ (Exists(x.row.v)' => x.row \in rows')
                      /\ x.pc \in {"owned", "stored", "sent"} => x.area = NoFence
    BY DEF WritesStored
  <2>1. CASE x = next
    BY <2>1, <1>1, <1>5, <1>6 DEF WInv, WritesStored
  <2>2. CASE x \in writing
    <3>1. x.row.id \in Nat
      BY <2>2 DEF WInv, WriteTypes, Row
    <3>2. QED
      BY <2>2, <3>1, <1>1 DEF WInv, WritesStored, Exists
  <2>3. QED
    BY <1>7, <2>1, <2>2
<1>12. SeenKnown' /\ StoredBeforeSeen'
  <2>1. \A e \in answered : e.row.id \in Nat
    BY DEF WInv, WriteTypes, Row
  <2>2. QED
    BY <2>1, <1>1 DEF WInv, SeenKnown, StoredBeforeSeen, Exists
<1>13. CrossedReported'
  <2> SUFFICES ASSUME NEW x \in writing', x.pc = "crossed"
               PROVE  Reported(x.row, x.area, x.alert)'
    BY DEF CrossedReported
  <2>1. x \in writing
    BY <1>6, <1>7
  <2>2. x.row \in Row /\ x.row.id <= lastId /\ Reported(x.row, x.area, x.alert)
    BY <2>1 DEF WInv, WriteTypes, WritesStored, CrossedReported
  <2>3. QED
    BY <2>2, <1>5, ReportedAfterInsert DEF WInv
<1>14. CrossingsReported'
  <2> SUFFICES ASSUME NEW e \in answered, e.area # NoFence, e.alert # "failed"
               PROVE  Reported(e.row, e.area, e.alert)'
    BY DEF CrossingsReported, Reported
  <2>1. e.row \in Row /\ e.row.id <= lastId /\ Reported(e.row, e.area, e.alert)
    BY DEF WInv, WriteTypes, SeenKnown, CrossingsReported, Reported
  <2>2. QED
    BY <2>1, <1>5, ReportedAfterInsert DEF WInv
<1>15. QED
  BY <1>4, <1>8, <1>9, <1>10, <1>11, <1>12, <1>13, <1>14 DEF WInv

\* A request that has inserted goes on, or one that has not gives up; its row
\* stays what it was.
LEMMA MovedStep ==
    ASSUME WInv, NEW w \in writing,
           UNCHANGED <<driverOf, rows, lastId, fixes, shown, answered>>,
           NEW x \in [pc    : {"stored", "sent", "fenced", "crossed"},
                      row   : {w.row},
                      area  : Area \cup {NoFence},
                      alert : Alert],
           Done(w) \/ (w.pc # "owned" /\ Become(w, x)),
           x.pc \in {"stored", "sent"} => x.area = NoFence,
           x.pc = "crossed" => Reported(x.row, x.area, x.alert)
    PROVE  WInv'
<1>1. writing' \subseteq (writing \ {w}) \cup {x}
  BY DEF Done, Become
<1>2. x.row = w.row /\ x.pc # "owned"
  OBVIOUS
<1>3. WriteTypes'
  BY <1>1, <1>2 DEF WInv, WriteTypes
<1>4. OwnedCounted'
  <2>1. Owned' \subseteq Owned
    BY <1>1, <1>2 DEF Owned
  <2>2. IsFiniteSet(Owned') /\ Cardinality(Owned') <= Cardinality(Owned)
    BY <2>1, FS_Subset DEF WInv, OwnedCounted
  <2>3. Cardinality(Owned) \in Nat /\ Cardinality(Owned') \in Nat
    BY <2>2, FS_CardinalityType DEF WInv, OwnedCounted
  <2>4. QED
    BY <2>2, <2>3 DEF WInv, WriteTypes, OwnedCounted
<1>5. WritesStored'
  <2>1. x \in writing' => w.pc # "owned" \/ x \in writing
    BY DEF Done, Become
  <2>2. QED
    BY <1>1, <1>2, <2>1 DEF WInv, WritesStored, Exists
<1>6. CrossedReported'
  BY <1>1 DEF WInv, CrossedReported, Reported, Consecutive
<1>7. /\ TableTypeOK' /\ RowIds' /\ RowsOwned' /\ SeenKnown' /\ StoredBeforeSeen'
      /\ CrossingsReported'
  BY DEF WInv, TableTypeOK, RowIds, RowsOwned, SeenKnown, StoredBeforeSeen,
         CrossingsReported, Consecutive, Exists
<1>8. QED
  BY <1>3, <1>4, <1>5, <1>6, <1>7 DEF WInv

\* Once inserted, the position is broadcast.
LEMMA PublishStep ==
    ASSUME WInv, NEW w \in writing, PublishPosition(w)
    PROVE  WInv'
<1> DEFINE x == [w EXCEPT !.pc = "sent"]
<1>1. /\ w \in [pc    : {"owned", "stored", "sent", "fenced", "crossed"},
                row   : Row, area  : Area \cup {NoFence}, alert : Alert]
      /\ w.row \in Row /\ w.row.v \in Vehicle /\ w.row.rec \in 0..MaxFixes
      /\ w.pc = "stored" /\ w.area = NoFence
  BY PositionsAssumption DEF WInv, WriteTypes, Row, PublishPosition, WritesStored
<1>2. /\ x \in [pc    : {"owned", "stored", "sent", "fenced", "crossed"},
                row   : Row, area  : Area \cup {NoFence}, alert : Alert]
      /\ x.row = w.row /\ x.pc = "sent" /\ x.area = NoFence
  BY <1>1
<1>3. /\ writing' = (writing \ {w}) \cup {x}
      /\ shown' = [shown EXCEPT ![w.row.v] = w.row.rec] \/ shown' = shown
      /\ UNCHANGED <<driverOf, rows, lastId, fixes, answered>>
  BY DEF PublishPosition, Become
<1> HIDE DEF x
<1>4. shown' \in [Vehicle -> 0..MaxFixes]
  BY <1>1, <1>3 DEF WInv, WriteTypes
<1>5. WriteTypes'
  BY <1>2, <1>3, <1>4 DEF WInv, WriteTypes
<1>6. OwnedCounted'
  <2>1. Owned' = Owned
    BY <1>1, <1>2, <1>3 DEF Owned
  <2>2. QED
    BY <1>3, <2>1 DEF WInv, OwnedCounted
<1>7. WritesStored' /\ CrossedReported'
  BY <1>1, <1>2, <1>3 DEF WInv, WritesStored, CrossedReported, Reported, Consecutive, Exists
<1>8. \A v \in Vehicle : shown'[v] = shown[v] \/ (v = w.row.v /\ shown'[v] = w.row.rec)
  BY <1>1, <1>3 DEF WInv, WriteTypes
<1>9. driverOf[w.row.v] # Unborn /\ (Exists(w.row.v) => w.row \in rows)
  BY <1>1 DEF WInv, WritesStored
<1>10. SeenKnown' /\ StoredBeforeSeen'
  BY <1>3, <1>8, <1>9 DEF WInv, SeenKnown, StoredBeforeSeen, Exists
<1>11. TableTypeOK' /\ RowIds' /\ RowsOwned' /\ CrossingsReported'
  BY <1>3 DEF WInv, TableTypeOK, RowIds, RowsOwned, CrossingsReported, Consecutive, Exists
<1>12. QED
  BY <1>5, <1>6, <1>7, <1>10, <1>11 DEF WInv

\* A request that has inserted is answered 201, reporting the crossing of the
\* fence it read, if it read one.
LEMMA AnswerStep ==
    ASSUME WInv, NEW w \in writing, w.pc # "owned", NEW alert \in Alert,
           Done(w), Answer201(w, alert),
           w.area # NoFence /\ alert # "failed" => Reported(w.row, w.area, alert),
           UNCHANGED <<driverOf, rows, lastId, fixes, shown>>
    PROVE  WInv'
<1> DEFINE e == [row |-> w.row, area |-> w.area, alert |-> alert]
<1>1. /\ w.row \in Row /\ w.area \in Area \cup {NoFence}
      /\ driverOf[w.row.v] # Unborn
      /\ w.row.id <= lastId /\ (Exists(w.row.v) => w.row \in rows)
  BY DEF WInv, WriteTypes, WritesStored
<1>2. writing' = writing \ {w} /\ answered' = answered \cup {e}
  BY DEF Done, Answer201
<1>3. e \in [row : Row, area : Area \cup {NoFence}, alert : Alert]
  BY <1>1
<1>4. WriteTypes'
  BY <1>2, <1>3 DEF WInv, WriteTypes
<1>5. OwnedCounted'
  <2>1. Owned' = Owned
    BY <1>2 DEF Owned
  <2>2. QED
    BY <2>1 DEF WInv, OwnedCounted
<1>6. WritesStored' /\ CrossedReported'
  BY <1>2 DEF WInv, WritesStored, CrossedReported, Reported, Consecutive, Exists
<1>7. SeenKnown' /\ StoredBeforeSeen'
  BY <1>1, <1>2 DEF WInv, SeenKnown, StoredBeforeSeen, Exists
<1>8. CrossingsReported'
  <2> SUFFICES ASSUME NEW a \in answered', a.row \in rows, a.area # NoFence, a.alert # "failed"
               PROVE  /\ \A q \in rows :
                            Consecutive(q, a.row) => a.alert = Crossing(q.at, a.row.at, a.area)
                      /\ a.alert # "quiet" => \E q \in rows : Consecutive(q, a.row)
    BY DEF CrossingsReported, Consecutive
  <2>1. CASE a \in answered
    BY <2>1 DEF WInv, CrossingsReported
  <2>2. CASE a = e
    BY <2>2 DEF Reported
  <2>3. QED
    BY <1>2, <2>1, <2>2
<1>9. TableTypeOK' /\ RowIds' /\ RowsOwned'
  BY DEF WInv, TableTypeOK, RowIds, RowsOwned, Exists
<1>10. QED
  BY <1>4, <1>5, <1>6, <1>7, <1>8, <1>9 DEF WInv

\* The row GetMostRecentByVehicleBeforeID finds is the one before, and there is
\* only one such row.
LEMMA PreviousIsConsecutive ==
    ASSUME WInv, NEW row \in rows
    PROVE  /\ \A q \in rows : q \in Previous(row) <=> Consecutive(q, row)
           /\ \A q, r \in Previous(row) : q = r
<1>1. \A q \in rows : q.id \in Nat
  BY DEF WInv, WriteTypes, Row
<1>2. \A q \in rows : q \in Previous(row) <=> Consecutive(q, row)
  BY <1>1 DEF Previous, Consecutive
<1>3. ASSUME NEW q \in Previous(row), NEW r \in Previous(row)
      PROVE  q = r
  <2>1. q \in rows /\ r \in rows /\ q.id <= r.id /\ r.id <= q.id
    BY DEF Previous
  <2>2. q.id = r.id
    BY <1>1, <2>1
  <2>3. QED
    BY <2>1, <2>2 DEF WInv, RowIds
<1>4. QED
  BY <1>2, <1>3

LEMMA WriteRequestStep ==
    ASSUME WInv, NEW w \in writing, WriteStep(w), fences \subseteq FenceRow
    PROVE  WInv'
<1>1. /\ w \in [pc    : {"owned", "stored", "sent", "fenced", "crossed"},
                row   : Row, area  : Area \cup {NoFence}, alert : Alert]
      /\ w.pc \in {"owned", "stored", "sent"} => w.area = NoFence
  BY DEF WInv, WriteTypes, WritesStored
<1>2. CASE WriteInsert(w)
  BY <1>2, InsertedStep DEF WriteInsert
<1>3. CASE WriteInsertFails(w)
  <2>1. CASE UNCHANGED <<rows, lastId>>
    <3> DEFINE x == [pc |-> "stored", row |-> w.row, area |-> NoFence, alert |-> w.alert]
    <3>1. /\ x \in [pc    : {"stored", "sent", "fenced", "crossed"},
                    row   : {w.row}, area  : Area \cup {NoFence}, alert : Alert]
          /\ x.area = NoFence /\ x.pc = "stored"
      BY <1>1
    <3>2. Done(w) /\ UNCHANGED <<driverOf, rows, lastId, fixes, shown, answered>>
      BY <1>3, <2>1 DEF WriteInsertFails
    <3> HIDE DEF x
    <3>3. QED
      BY <3>1, <3>2, MovedStep
  <2>2. CASE ~ UNCHANGED <<rows, lastId>>
    BY <1>3, <2>2, InsertedStep DEF WriteInsertFails
  <2>3. QED
    BY <2>1, <2>2
<1>4. CASE PublishPosition(w)
  BY <1>4, PublishStep
<1>5. CASE ReadFence(w)
  <2>1. PICK f \in fences : Become(w, [w EXCEPT !.pc = "fenced", !.area = f.area])
    BY <1>5 DEF ReadFence
  <2> DEFINE x == [w EXCEPT !.pc = "fenced", !.area = f.area]
  <2>2. f.area \in Area
    BY DEF FenceRow
  <2>3. /\ x \in [pc    : {"stored", "sent", "fenced", "crossed"},
                  row   : {w.row}, area  : Area \cup {NoFence}, alert : Alert]
        /\ x.pc = "fenced"
    BY <1>1, <2>2
  <2>4. /\ w.pc # "owned" /\ Become(w, x)
        /\ UNCHANGED <<driverOf, rows, lastId, fixes, shown, answered>>
    BY <1>5, <2>1 DEF ReadFence
  <2> HIDE DEF x
  <2>5. QED
    BY <2>3, <2>4, MovedStep
<1>6. CASE ReadNoFence(w)
  BY <1>1, <1>6, AnswerStep DEF ReadNoFence, Alert
<1>7. CASE ReadCrossing(w)
  <2>1. PICK q \in Previous(w.row) :
          /\ Crossing(q.at, w.row.at, w.area) # "quiet"
          /\ Become(w, [w EXCEPT !.pc = "crossed", !.alert = Crossing(q.at, w.row.at, w.area)])
    BY <1>7 DEF ReadCrossing
  <2> DEFINE x == [w EXCEPT !.pc = "crossed", !.alert = Crossing(q.at, w.row.at, w.area)]
  <2>2. Crossing(q.at, w.row.at, w.area) \in Alert
    BY DEF Crossing, Alert
  <2>3. /\ x \in [pc    : {"stored", "sent", "fenced", "crossed"},
                  row   : {w.row}, area  : Area \cup {NoFence}, alert : Alert]
        /\ x.pc = "crossed" /\ x.row = w.row /\ x.area = w.area
        /\ x.alert = Crossing(q.at, w.row.at, w.area)
    BY <1>1, <2>2
  <2>4. /\ w.pc # "owned" /\ Become(w, x)
        /\ UNCHANGED <<driverOf, rows, lastId, fixes, shown, answered>>
    BY <1>7, <2>1 DEF ReadCrossing
  <2> HIDE DEF x
  <2>5. Reported(x.row, x.area, x.alert)
    <3> SUFFICES ASSUME w.row \in rows
                 PROVE  Reported(w.row, w.area, x.alert)
      BY <2>3 DEF Reported
    <3>1. \A p \in rows : Consecutive(p, w.row) => p = q
      BY PreviousIsConsecutive
    <3>2. q \in rows /\ Consecutive(q, w.row)
      BY PreviousIsConsecutive DEF Previous
    <3>3. QED
      BY <2>3, <3>1, <3>2 DEF Reported
  <2>6. QED
    BY <2>3, <2>4, <2>5, MovedStep
<1>8. CASE ReadNoCrossing(w)
  <2>1. Reported(w.row, w.area, "quiet")
    BY <1>8, PreviousIsConsecutive DEF ReadNoCrossing, Reported
  <2>2. QED
    BY <1>8, <2>1, AnswerStep DEF ReadNoCrossing, Alert
<1>9. CASE LookupFails(w)
  BY <1>9, AnswerStep DEF LookupFails, Alert
<1>10. CASE PublishAlert(w)
  <2>1. w.pc = "crossed" /\ Reported(w.row, w.area, w.alert) /\ w.alert \in Alert
    BY <1>1, <1>10 DEF PublishAlert, WInv, CrossedReported
  <2>2. QED
    BY <1>10, <2>1, AnswerStep DEF PublishAlert, Alert
<1>11. QED
  BY <1>2, <1>3, <1>4, <1>5, <1>6, <1>7, <1>8, <1>9, <1>10 DEF WriteStep

-----------------------------------------------------------------------------
(* Geofence replacements.                                                  *)

FenceTypes ==
    /\ fences \in SUBSET FenceRow
    /\ sets \in 0..MaxSets
    /\ setting \in SUBSET [pc : {"checked", "cleared"}, fence : FenceRow, alone : BOOLEAN]

FencesOwned == \A f \in fences : Exists(f.v)

\* Between its two statements a replacement that nobody disturbed finds the
\* vehicle without fences.
ClearedEmpty ==
    \A s \in setting : s.pc = "cleared" /\ s.alone => FencesOf(s.fence.v) = {}

FInv ==
    /\ FenceTypes
    /\ FencesOwned
    /\ ClearedEmpty

LEMMA InitFInv == Init => FInv
  BY PositionsAssumption DEF Init, FInv, FenceTypes, FencesOwned, ClearedEmpty

\* Disturbed only takes `alone` away, and from every request of the vehicle.
LEMMA DisturbedFacts ==
    ASSUME NEW v,
           NEW rest \in SUBSET [pc : {"checked", "cleared"}, fence : FenceRow, alone : BOOLEAN]
    PROVE  /\ Disturbed(v, rest) \in SUBSET [pc : {"checked", "cleared"}, fence : FenceRow,
                                             alone : BOOLEAN]
           /\ \A s \in Disturbed(v, rest) : s.alone => s \in rest /\ s.fence.v # v
<1>1. ASSUME NEW s \in Disturbed(v, rest)
      PROVE  /\ s \in [pc : {"checked", "cleared"}, fence : FenceRow, alone : BOOLEAN]
             /\ s.alone => s \in rest /\ s.fence.v # v
  <2>1. PICK t \in rest : s = IF t.fence.v = v THEN [t EXCEPT !.alone = FALSE] ELSE t
    BY DEF Disturbed
  <2>2. CASE t.fence.v = v
    <3>1. s = [t EXCEPT !.alone = FALSE]
      BY <2>1, <2>2
    <3>2. s.alone = FALSE /\ s \in [pc : {"checked", "cleared"}, fence : FenceRow, alone : BOOLEAN]
      BY <3>1
    <3>3. QED
      BY <3>2
  <2>3. CASE t.fence.v # v
    BY <2>1, <2>3
  <2>4. QED
    BY <2>2, <2>3
<1>2. QED
  BY <1>1

\* A replacement begins.
LEMMA SetLookupStep ==
    ASSUME FInv, NEW v \in Vehicle, NEW area \in Area, SetLookup(v, area)
    PROVE  FInv'
<1> DEFINE s == [pc |-> "checked", fence |-> [id |-> sets + 1, v |-> v, area |-> area],
                 alone |-> TRUE]
<1>1. /\ setting' = setting \cup {s} /\ sets' = sets + 1 /\ sets < MaxSets
      /\ UNCHANGED <<driverOf, fences>>
  BY DEF SetLookup
<1>2. FenceTypes'
  <2>1. sets + 1 \in 1..MaxSets
    BY <1>1, PositionsAssumption DEF FInv, FenceTypes
  <2>2. s \in [pc : {"checked", "cleared"}, fence : FenceRow, alone : BOOLEAN]
    BY <2>1 DEF FenceRow
  <2>3. sets' \in 0..MaxSets
    BY <1>1, <2>1
  <2>4. QED
    BY <1>1, <2>2, <2>3 DEF FInv, FenceTypes
<1>3. FencesOwned' /\ ClearedEmpty'
  BY <1>1 DEF FInv, FencesOwned, ClearedEmpty, FencesOf, Exists
<1>4. QED
  BY <1>2, <1>3 DEF FInv

\* A request of v that disturbs the others removes v's fences or adds its own.
LEMMA FencesChangedStep ==
    ASSUME FInv, NEW v \in Vehicle, NEW rest \in SUBSET setting,
           NEW new \in SUBSET [pc : {"cleared"}, fence : FenceRow, alone : {TRUE}],
           \A s \in new : s.fence.v = v /\ fences' = fences \ FencesOf(v),
           setting' = Disturbed(v, rest) \cup new,
           NEW added \in SUBSET FenceRow,
           \A f \in added : f.v = v /\ Exists(v),
           fences' = fences \ FencesOf(v) \/ fences' = fences \cup added,
           UNCHANGED <<driverOf, sets>>
    PROVE  FInv'
<1>1. rest \in SUBSET [pc : {"checked", "cleared"}, fence : FenceRow, alone : BOOLEAN]
  BY DEF FInv, FenceTypes
<1>2. FenceTypes'
  BY <1>1, DisturbedFacts DEF FInv, FenceTypes
<1>3. FencesOwned'
  <2>1. \A f \in fences' : f \in fences \/ f \in added
    OBVIOUS
  <2>2. \A f \in fences' : Exists(f.v)
    BY <2>1 DEF FInv, FencesOwned
  <2>3. QED
    BY <2>2 DEF FencesOwned, Exists
<1>4. ClearedEmpty'
  <2> SUFFICES ASSUME NEW s \in setting', s.pc = "cleared", s.alone
               PROVE  FencesOf(s.fence.v)' = {}
    BY DEF ClearedEmpty
  <2>1. CASE s \in new
    BY <2>1 DEF FencesOf
  <2>2. CASE s \in Disturbed(v, rest)
    <3>1. s \in setting /\ s.fence.v # v
      BY <1>1, <2>2, DisturbedFacts
    <3>2. FencesOf(s.fence.v) = {}
      BY <3>1 DEF FInv, ClearedEmpty
    <3>3. QED
      BY <3>1, <3>2 DEF FencesOf
  <2>3. QED
    BY <2>1, <2>2
<1>5. QED
  BY <1>2, <1>3, <1>4 DEF FInv

\* A request is given up without having touched the table.
LEMMA SetDroppedStep ==
    ASSUME FInv, NEW s \in setting, setting' = setting \ {s}, UNCHANGED <<driverOf, fences, sets>>
    PROVE  FInv'
  BY DEF FInv, FenceTypes, FencesOwned, ClearedEmpty, FencesOf, Exists

LEMMA SetRequestStep ==
    ASSUME FInv, NEW s \in setting, SetStep(s)
    PROVE  FInv'
<1> DEFINE v == s.fence.v
           rest == setting \ {s}
           cleared == [s EXCEPT !.pc = "cleared", !.alone = TRUE]
<1>1. /\ s \in [pc : {"checked", "cleared"}, fence : FenceRow, alone : BOOLEAN]
      /\ s.fence \in FenceRow /\ v \in Vehicle
  BY DEF FInv, FenceTypes, FenceRow
<1>2. cleared \in [pc : {"cleared"}, fence : FenceRow, alone : {TRUE}] /\ cleared.fence = s.fence
  BY <1>1
<1>3. rest \in SUBSET setting
  OBVIOUS
<1>4. CASE ClearFence(s)
  <2>1. /\ fences' = fences \ FencesOf(v) /\ setting' = Disturbed(v, rest) \cup {cleared}
        /\ UNCHANGED <<driverOf, sets>>
    BY <1>4 DEF ClearFence
  <2> HIDE DEF v, rest, cleared
  <2>2. cleared.fence.v = v
    BY <1>2 DEF v
  <2>3. {cleared} \in SUBSET [pc : {"cleared"}, fence : FenceRow, alone : {TRUE}]
    BY <1>2
  <2>4. \A x \in {cleared} : x.fence.v = v /\ fences' = fences \ FencesOf(v)
    BY <2>1, <2>2
  <2>5. \A f \in {} : f.v = v /\ Exists(v)
    OBVIOUS
  <2>6. {} \in SUBSET FenceRow
    OBVIOUS
  <2>7. QED
    BY <1>1, <1>3, <2>1, <2>3, <2>4, <2>5, <2>6, FencesChangedStep
<1>5. ASSUME fences' = fences \ FencesOf(v), setting' = Disturbed(v, rest),
             UNCHANGED <<driverOf, sets>>
      PROVE  FInv'
  <2>1. setting' = Disturbed(v, rest) \cup {}
    BY <1>5
  <2> HIDE DEF v, rest
  <2>2. \A x \in {} : x.fence.v = v /\ fences' = fences \ FencesOf(v)
    OBVIOUS
  <2>3. \A f \in {} : f.v = v /\ Exists(v)
    OBVIOUS
  <2>4. /\ {} \in SUBSET [pc : {"cleared"}, fence : FenceRow, alone : {TRUE}]
        /\ {} \in SUBSET FenceRow
    OBVIOUS
  <2>5. QED
    BY <1>1, <1>3, <1>5, <2>1, <2>2, <2>3, <2>4, FencesChangedStep
<1>6. ASSUME fences' = fences \cup {s.fence}, Exists(v), setting' = Disturbed(v, rest),
             UNCHANGED <<driverOf, sets>>
      PROVE  FInv'
  <2>1. setting' = Disturbed(v, rest) \cup {}
    BY <1>6
  <2>2. \A f \in {s.fence} : f.v = v /\ Exists(v)
    BY <1>6
  <2>3. {s.fence} \in SUBSET FenceRow
    BY <1>1
  <2> HIDE DEF v, rest
  <2>4. \A x \in {} : x.fence.v = v /\ fences' = fences \ FencesOf(v)
    OBVIOUS
  <2>5. {} \in SUBSET [pc : {"cleared"}, fence : FenceRow, alone : {TRUE}]
    OBVIOUS
  <2>6. QED
    BY <1>1, <1>3, <1>6, <2>1, <2>2, <2>3, <2>4, <2>5, FencesChangedStep
<1>7. CASE ClearFenceFails(s)
  BY <1>5, <1>7, SetDroppedStep DEF ClearFenceFails
<1>8. CASE InstallFence(s)
  BY <1>6, <1>8 DEF InstallFence
<1>9. CASE InstallFenceFails(s)
  BY <1>6, <1>9, SetDroppedStep DEF InstallFenceFails
<1>10. QED
  BY <1>4, <1>7, <1>8, <1>9 DEF SetStep

-----------------------------------------------------------------------------
(* Both halves.                                                            *)

IInv == WInv /\ FInv

\* The table gains a vehicle, or one changes hands: no vehicle that existed
\* stops to, and one just born has no rows, no requests and no marker.
LEMMA HireStep ==
    ASSUME IInv, NEW v \in Vehicle, NEW d \in DriverId, Hire(v, d)
    PROVE  IInv'
<1>1. /\ driverOf' = [driverOf EXCEPT ![v] = d]
      /\ UNCHANGED <<rows, lastId, fixes, writing, shown, answered, fences, sets, setting>>
  BY DEF Hire, Add, Reassign, positionVars, fenceVars
<1>2. driverOf[v] = Unborn \/ Exists(v)
  BY DEF Hire, Add, Reassign
<1>3. d # Unborn
  BY TableAssumption DEF DriverId
<1>4. TableTypeOK'
  BY <1>1 DEF IInv, WInv, TableTypeOK
<1>5. \A u \in Vehicle : driverOf[u] # Unborn => driverOf'[u] # Unborn /\ (Exists(u)' <=> Exists(u))
  BY <1>1, <1>2 , <1>3 DEF IInv, WInv, TableTypeOK, Exists
<1>6. \A u \in Vehicle : Exists(u) => driverOf[u] # Unborn
  BY TableAssumption DEF Exists, DriverId
<1>7. WriteTypes' /\ OwnedCounted' /\ RowIds' /\ CrossedReported' /\ CrossingsReported'
  BY <1>1 DEF IInv, WInv, WriteTypes, OwnedCounted, Owned, RowIds, CrossedReported, Reported,
              CrossingsReported, Consecutive
<1>8. (\A w \in writing : w.row.v \in Vehicle) /\ (\A e \in answered : e.row.v \in Vehicle)
      /\ (\A r \in rows : r.v \in Vehicle) /\ (\A f \in fences : f.v \in Vehicle)
  BY DEF IInv, WInv, FInv, WriteTypes, FenceTypes, Row, FenceRow
<1>9. RowsOwned'
  BY <1>1, <1>5, <1>6, <1>8 DEF IInv, WInv, RowsOwned
<1>10. WritesStored'
  BY <1>1, <1>5, <1>8 DEF IInv, WInv, WritesStored
<1>11. SeenKnown'
  BY <1>1, <1>5, <1>8 DEF IInv, WInv, SeenKnown
<1>12. StoredBeforeSeen'
  BY <1>1, <1>5, <1>8 DEF IInv, WInv, StoredBeforeSeen, SeenKnown
<1>13. FInv'
  <2>1. FencesOwned'
    BY <1>1, <1>5, <1>6, <1>8 DEF IInv, FInv, FencesOwned
  <2>2. QED
    BY <1>1, <2>1 DEF IInv, FInv, FenceTypes, ClearedEmpty, FencesOf
<1>14. QED
  BY <1>4, <1>7, <1>9, <1>10, <1>11, <1>12, <1>13 DEF IInv, WInv

\* A vehicle goes, and its rows with it.
LEMMA DropCascadeStep ==
    ASSUME IInv, NEW v \in Vehicle, DropCascade(v)
    PROVE  IInv'
<1>1. /\ driverOf' = [driverOf EXCEPT ![v] = Gone]
      /\ rows' = {r \in rows : r.v # v}
      /\ fences' = fences \ FencesOf(v)
      /\ setting' = Disturbed(v, setting)
      /\ UNCHANGED <<lastId, fixes, writing, shown, answered, sets>>
  BY DEF DropCascade, Drop
<1>2. TableTypeOK'
  BY <1>1 DEF IInv, WInv, TableTypeOK
<1>3. ~Exists(v)'
  BY <1>1, TableAssumption DEF IInv, WInv, TableTypeOK, Exists, DriverId
<1>4. \A u \in Vehicle : u # v => driverOf'[u] = driverOf[u]
  BY <1>1 DEF IInv, WInv, TableTypeOK
<1>5. driverOf'[v] # Unborn
  BY <1>1, TableAssumption DEF IInv, WInv, TableTypeOK
<1>6. (\A w \in writing : w.row.v \in Vehicle) /\ (\A e \in answered : e.row.v \in Vehicle)
      /\ (\A r \in rows : r.v \in Vehicle) /\ (\A f \in fences : f.v \in Vehicle)
  BY DEF IInv, WInv, FInv, WriteTypes, FenceTypes, Row, FenceRow
<1>7. WriteTypes' /\ OwnedCounted' /\ RowIds'
  BY <1>1 DEF IInv, WInv, WriteTypes, OwnedCounted, Owned, RowIds
<1>8. RowsOwned'
  BY <1>1, <1>4, <1>6 DEF IInv, WInv, RowsOwned, Exists
<1>9. WritesStored'
  BY <1>1, <1>3, <1>4, <1>5, <1>6 DEF IInv, WInv, WritesStored, Exists
<1>10. SeenKnown'
  BY <1>1, <1>4, <1>5, <1>6 DEF IInv, WInv, SeenKnown
<1>11. StoredBeforeSeen'
  BY <1>1, <1>3, <1>4, <1>6 DEF IInv, WInv, StoredBeforeSeen, Exists
<1>12. CrossedReported'
  BY <1>1, ReportedAfterCascade DEF IInv, WInv, CrossedReported
<1>13. CrossingsReported'
  <2> SUFFICES ASSUME NEW e \in answered, e.area # NoFence, e.alert # "failed"
               PROVE  Reported(e.row, e.area, e.alert)'
    BY <1>1 DEF CrossingsReported, Reported
  <2>1. Reported(e.row, e.area, e.alert)
    BY DEF IInv, WInv, CrossingsReported, Reported
  <2>2. QED
    BY <1>1, <2>1, ReportedAfterCascade
<1>14. FInv'
  <2>1. FenceTypes'
    BY <1>1, DisturbedFacts DEF IInv, FInv, FenceTypes
  <2>2. FencesOwned'
    BY <1>1, <1>4, <1>6 DEF IInv, FInv, FencesOwned, FencesOf, Exists
  <2>3. \A s \in setting' : s.alone => s \in setting /\ s.fence.v # v
    BY <1>1, DisturbedFacts DEF IInv, FInv, FenceTypes
  <2>4. ClearedEmpty'
    BY <1>1, <2>3 DEF IInv, FInv, ClearedEmpty, FencesOf
  <2>5. QED
    BY <2>1, <2>2, <2>4 DEF FInv
<1>15. QED
  BY <1>2, <1>7, <1>8, <1>9, <1>10, <1>11, <1>12, <1>13, <1>14 DEF IInv, WInv

\* Requests are forgotten; the tables stay.
LEMMA ContainerStopStep ==
    ASSUME IInv, ContainerStop
    PROVE  IInv'
<1>1. Owned' = {}
  BY DEF ContainerStop, Owned
<1>2. OwnedCounted'
  <2>1. Cardinality(Owned) \in Nat
    BY FS_CardinalityType DEF IInv, WInv, OwnedCounted
  <2>2. QED
    BY <1>1, <2>1, FS_EmptySet DEF ContainerStop, IInv, WInv, WriteTypes, OwnedCounted
<1>3. QED
  BY <1>2 DEF ContainerStop, IInv, WInv, FInv, TableTypeOK, WriteTypes, RowIds, RowsOwned,
              WritesStored, SeenKnown, StoredBeforeSeen, CrossedReported, CrossingsReported,
              Consecutive, Exists, FenceTypes, FencesOwned, ClearedEmpty, FencesOf

\* A step of one half leaves the other alone.
LEMMA OtherHalf ==
    /\ IInv /\ UNCHANGED <<driverOf, positionVars>> => WInv'
    /\ IInv /\ UNCHANGED <<driverOf, fenceVars>> => FInv'
<1>1. IInv /\ UNCHANGED <<driverOf, positionVars>> => WInv'
  BY DEF IInv, WInv, positionVars, TableTypeOK, WriteTypes, OwnedCounted, Owned, RowIds,
         RowsOwned, WritesStored, SeenKnown, StoredBeforeSeen, CrossedReported, Reported,
         CrossingsReported, Consecutive, Exists
<1>2. IInv /\ UNCHANGED <<driverOf, fenceVars>> => FInv'
  BY DEF IInv, FInv, fenceVars, FenceTypes, FencesOwned, ClearedEmpty, FencesOf, Exists
<1>3. QED
  BY <1>1, <1>2

LEMMA WriteSteps ==
    ASSUME NEW w, WriteStep(w)
    PROVE  UNCHANGED <<driverOf, fenceVars>>
  BY DEF WriteStep, WriteInsert, WriteInsertFails, PublishPosition, ReadFence, ReadNoFence,
         ReadCrossing, ReadNoCrossing, LookupFails, PublishAlert

LEMMA SetSteps ==
    ASSUME NEW s, SetStep(s)
    PROVE  UNCHANGED <<driverOf, positionVars>>
  BY DEF SetStep, ClearFence, ClearFenceFails, InstallFence, InstallFenceFails

LEMMA StepIInv == IInv /\ [Next]_vars => IInv'
<1> SUFFICES ASSUME IInv, [Next]_vars PROVE IInv'
  OBVIOUS
<1>1. ASSUME NEW v \in Vehicle, NEW d \in Driver, NEW at \in Place, WriteLookup(v, d, at)
      PROVE  IInv'
  <2>1. UNCHANGED <<driverOf, fenceVars>>
    BY <1>1 DEF WriteLookup
  <2>2. QED
    BY <1>1, <2>1, WriteLookupStep, OtherHalf DEF IInv
<1>2. ASSUME NEW w \in writing, WriteStep(w)
      PROVE  IInv'
  BY <1>2, WriteRequestStep, WriteSteps, OtherHalf DEF IInv, FInv, FenceTypes
<1>3. ASSUME NEW v \in Vehicle, NEW area \in Area, SetLookup(v, area)
      PROVE  IInv'
  <2>1. UNCHANGED <<driverOf, positionVars>>
    BY <1>3 DEF SetLookup
  <2>2. QED
    BY <1>3, <2>1, SetLookupStep, OtherHalf DEF IInv
<1>4. ASSUME NEW s \in setting, SetStep(s)
      PROVE  IInv'
  BY <1>4, SetRequestStep, SetSteps, OtherHalf DEF IInv
<1>5. CASE UNCHANGED vars
  BY <1>5, OtherHalf DEF IInv, vars
<1>6. ASSUME NEW v \in Vehicle, NEW d \in Driver, WriteRefused(v, d) \/ SetRefused(v)
      PROVE  IInv'
  BY <1>5, <1>6 DEF WriteRefused, SetRefused
<1>7. ASSUME NEW v \in Vehicle, SetRefused(v)
      PROVE  IInv'
  BY <1>5, <1>7 DEF SetRefused
<1>8. QED
  BY <1>1, <1>2, <1>3, <1>4, <1>5, <1>6, <1>7, HireStep, DropCascadeStep, ContainerStopStep
     DEF Next

LEMMA Invariance == Spec => []IInv
<1>1. Init => IInv
  BY InitWInv, InitFInv DEF IInv
<1>2. QED
  BY <1>1, StepIInv, PTL DEF Spec

-----------------------------------------------------------------------------
\* The variables keep their types; in particular no AUTOINCREMENT id exceeds
\* the number of positions that drivers sent (PositionRepo.Insert).
THEOREM PositionsTypeCorrect == Spec => []TypeOK
<1>1. IInv => TypeOK
  BY DEF IInv, WInv, FInv, WriteTypes, FenceTypes, TypeOK
<1>2. QED
  BY <1>1, Invariance, PTL

\* No position and no fence outlives its vehicle (ON DELETE CASCADE and the
\* foreign keys, against requests that looked the vehicle up before).
THEOREM NothingOrphaned == Spec => []NoOrphans
<1>1. IInv => NoOrphans
  BY DEF IInv, WInv, FInv, RowsOwned, FencesOwned, NoOrphans
<1>2. QED
  BY <1>1, Invariance, PTL

\* What was answered 201 or broadcast is stored as long as its vehicle exists
\* (PositionUsecase.Write).
THEOREM SeenIsStored == Spec => []StoredBeforeSeen
<1>1. IInv => StoredBeforeSeen
  BY DEF IInv, WInv
<1>2. QED
  BY <1>1, Invariance, PTL

\* Every answered write reported exactly the crossing from the position before
\* its own, however many writes overlap (maybeEmitGeofenceAlert).
THEOREM CrossingsAreReported == Spec => []CrossingsReported
<1>1. IInv => CrossingsReported
  BY DEF IInv, WInv
<1>2. QED
  BY <1>1, Invariance, PTL

\* An undisturbed replacement leaves one fence, its own (GeofenceRepo.Upsert).
LEMMA LoneSetStep ==
    ASSUME IInv, [Next]_vars, NEW s \in setting, s.pc = "cleared", s.alone, s.fence \in fences'
    PROVE  {f \in fences' : f.v = s.fence.v} = {s.fence}
<1> DEFINE v == s.fence.v
<1>1. \A f \in fences : f.v # v
  BY DEF IInv, FInv, ClearedEmpty, FencesOf
<1>2. PICK added : /\ fences' \subseteq fences \cup {added}
  <2>1. CASE fences' \subseteq fences
    BY <2>1
  <2>2. ASSUME NEW t \in setting, SetStep(t)
        PROVE  fences' \subseteq fences \cup {t.fence}
    BY <2>2 DEF SetStep, ClearFence, ClearFenceFails, InstallFence, InstallFenceFails
  <2>3. ASSUME NEW w \in writing, WriteStep(w)
        PROVE  fences' \subseteq fences
    BY <2>3, WriteSteps DEF fenceVars
  <2>4. (\E t \in setting : SetStep(t)) \/ fences' \subseteq fences
    BY <2>3 DEF Next, WriteLookup, WriteRefused, SetLookup, SetRefused, Hire, DropCascade,
                ContainerStop, vars, fenceVars
  <2>5. QED
    BY <2>1, <2>2, <2>4
<1>3. s.fence \notin fences
  BY <1>1
<1>4. s.fence = added
  BY <1>2, <1>3
<1>5. \A f \in fences' : f.v = v => f = s.fence
  BY <1>1, <1>2, <1>4
<1>6. QED
  BY <1>5

\* The same of every step: an undisturbed replacement leaves exactly its own
\* fence, whatever others left before it (Upsert's "re-running is safe").
THEOREM LoneSetsRepair == Spec => LoneSetRepairs
<1>1. IInv /\ [Next]_vars =>
        [\A s \in setting :
            s.pc = "cleared" /\ s.alone /\ s.fence \in fences'
            => {f \in fences' : f.v = s.fence.v} = {s.fence}]_vars
  BY LoneSetStep
<1>2. QED
  BY <1>1, Invariance, PTL DEF Spec, LoneSetRepairs

-----------------------------------------------------------------------------
(* The promise of PositionLog.                                             *)

\* One request for each position sent, numbered once it is stored.
OneRequestEach ==
    \A w \in writing :
        /\ w.row.rec <= fixes
        /\ w.pc # "owned" => w.row.id >= 1
        /\ \A x \in writing : x.row.rec = w.row.rec => x = w

Waiting == {w.row : w \in {x \in writing : x.pc = "owned"}}

\* A request that goes on keeps its position; one that is dropped frees it.
LEMMA MovedAlone ==
    ASSUME WriteTypes, OneRequestEach, NEW w \in writing, NEW x, x.row.rec = w.row.rec,
           x.pc # "owned", x.row.id >= 1,
           Done(w) \/ Become(w, x), fixes' = fixes
    PROVE  OneRequestEach'
<1>1. \A y \in writing' : y \in writing \ {w} \/ y = x
  BY DEF Done, Become
<1>2. \A y \in writing \ {w} : y.row.rec # x.row.rec
  BY DEF OneRequestEach
<1>3. w.row.rec <= fixes
  BY DEF OneRequestEach
<1>4. QED
  BY <1>1, <1>2, <1>3 DEF OneRequestEach

\* Every request step is of that kind.
LEMMA WriteStepAlone ==
    ASSUME WriteTypes, WritesStored, OneRequestEach, NEW w \in writing, WriteStep(w)
    PROVE  OneRequestEach'
<1>1. /\ w \in [pc : {"owned", "stored", "sent", "fenced", "crossed"}, row : Row,
                area : Area \cup {NoFence}, alert : Alert]
      /\ lastId \in Nat
      /\ w.pc # "owned" => w.row.id >= 1
  BY PositionsAssumption DEF WriteTypes, OneRequestEach
<1>2. fixes' = fixes
  BY DEF WriteStep, WriteInsert, WriteInsertFails, PublishPosition, ReadFence, ReadNoFence,
         ReadCrossing, ReadNoCrossing, LookupFails, PublishAlert
<1>3. CASE WriteInsert(w)
  <2> DEFINE x == [w EXCEPT !.pc = "stored", !.row.id = lastId + 1]
  <2>1. x.row.rec = w.row.rec /\ x.pc = "stored" /\ x.row.id = lastId + 1
    BY <1>1 DEF Row
  <2>2. Become(w, x)
    BY <1>3 DEF WriteInsert
  <2> HIDE DEF x
  <2>3. QED
    BY <1>1, <1>2, <2>1, <2>2, MovedAlone
<1>4. ASSUME NEW x, x.row = w.row, x.pc # "owned", w.pc # "owned", Become(w, x)
      PROVE  OneRequestEach'
  BY <1>1, <1>2, <1>4, MovedAlone
<1>5. CASE PublishPosition(w)
  <2> DEFINE x == [w EXCEPT !.pc = "sent"]
  <2>1. x.row = w.row /\ x.pc = "sent"
    BY <1>1
  <2>2. w.pc = "stored" /\ Become(w, x)
    BY <1>5 DEF PublishPosition
  <2> HIDE DEF x
  <2>3. QED
    BY <1>4, <2>1, <2>2
<1>6. CASE ReadFence(w)
  <2>1. PICK f \in fences : Become(w, [w EXCEPT !.pc = "fenced", !.area = f.area])
    BY <1>6 DEF ReadFence
  <2> DEFINE x == [w EXCEPT !.pc = "fenced", !.area = f.area]
  <2>2. x.row = w.row /\ x.pc = "fenced"
    BY <1>1
  <2>3. w.pc = "sent" /\ Become(w, x)
    BY <1>6, <2>1 DEF ReadFence
  <2> HIDE DEF x
  <2>4. QED
    BY <1>4, <2>2, <2>3
<1>7. CASE ReadCrossing(w)
  <2>1. PICK q \in Previous(w.row) :
          Become(w, [w EXCEPT !.pc = "crossed", !.alert = Crossing(q.at, w.row.at, w.area)])
    BY <1>7 DEF ReadCrossing
  <2> DEFINE x == [w EXCEPT !.pc = "crossed", !.alert = Crossing(q.at, w.row.at, w.area)]
  <2>2. x.row = w.row /\ x.pc = "crossed"
    BY <1>1
  <2>3. w.pc = "fenced" /\ Become(w, x)
    BY <1>7, <2>1 DEF ReadCrossing
  <2> HIDE DEF x
  <2>4. QED
    BY <1>4, <2>2, <2>3
<1>8. CASE Done(w)
  BY <1>2, <1>8 DEF Done, OneRequestEach
<1>9. QED
  BY <1>3, <1>5, <1>6, <1>7, <1>8 DEF WriteStep, WriteInsertFails, ReadNoFence, ReadNoCrossing,
                                      LookupFails, PublishAlert

\* Only sending adds a request, with a number of its own.
LEMMA OneRequestStep == IInv /\ OneRequestEach /\ [Next]_vars => OneRequestEach'
<1> SUFFICES ASSUME IInv, OneRequestEach, [Next]_vars PROVE OneRequestEach'
  OBVIOUS
<1>1. WriteTypes /\ WritesStored
  BY DEF IInv, WInv
<1>2. CASE UNCHANGED <<writing, fixes>>
  BY <1>2 DEF OneRequestEach
<1>3. ASSUME NEW v \in Vehicle, NEW d \in Driver, NEW at \in Place, WriteLookup(v, d, at)
      PROVE  OneRequestEach'
  <2> DEFINE w == [pc |-> "owned", row |-> [id |-> 0, v |-> v, at |-> at, rec |-> fixes + 1],
                   area |-> NoFence, alert |-> "quiet"]
  <2>1. writing' = writing \cup {w} /\ fixes' = fixes + 1
    BY <1>3 DEF WriteLookup
  <2>2. w.pc = "owned" /\ w.row.rec = fixes + 1
    OBVIOUS
  <2> HIDE DEF w
  <2>3. fixes \in Nat /\ \A x \in writing : x.row.rec \in Nat /\ x.row.rec <= fixes
    BY <1>1, PositionsAssumption DEF WriteTypes, OneRequestEach, Row
  <2>4. QED
    BY <2>1, <2>2, <2>3 DEF OneRequestEach
<1>4. ASSUME NEW w \in writing, WriteStep(w)
      PROVE  OneRequestEach'
  BY <1>1, <1>4, WriteStepAlone
<1>5. CASE ContainerStop
  BY <1>5 DEF ContainerStop, OneRequestEach
<1>6. ASSUME NEW s \in setting, SetStep(s)
      PROVE  UNCHANGED <<writing, fixes>>
  BY <1>6, SetSteps DEF positionVars
<1>7. QED
  BY <1>2, <1>3, <1>4, <1>5, <1>6
     DEF Next, vars, positionVars, WriteRefused, SetRefused, SetLookup, Hire, DropCascade

\* What a request past its INSERT has stored is in the log, or went with its
\* vehicle.
LEMMA PastInsertStored ==
    ASSUME IInv, OneRequestEach, NEW w \in writing, w.pc # "owned"
    PROVE  w.row \in Row /\ Log!Stored(w.row)
<1>1. /\ w.row \in Row /\ w.row.v \in Vehicle /\ w.row.id \in Nat /\ lastId \in Nat
      /\ w.row.id >= 1 /\ w.row.id <= lastId
      /\ driverOf[w.row.v] # Unborn /\ (Exists(w.row.v) => w.row \in rows)
      /\ TableTypeOK
  BY PositionsAssumption DEF IInv, WInv, WriteTypes, WritesStored, OneRequestEach, Row
<1>2. w.row.id \in 1..lastId
  BY <1>1
<1>3. w.row \in rows \/ driverOf[w.row.v] = Gone
  BY <1>1 DEF TableTypeOK, Exists
<1>4. QED
  BY <1>1, <1>2, <1>3 DEF Log!Stored

\* Acked and Waiting are the sets the refinement mapping gives PositionLog.
Acked == {e.row : e \in answered}

LogUnchanged ==
    UNCHANGED <<driverOf, fixes, Waiting, rows, lastId, Acked, shown>>

\* A request past its INSERT is none of those that wait,
LEMMA WaitingKept ==
    ASSUME NEW w \in writing, w.pc # "owned",
           Done(w) \/ \E x : x.pc # "owned" /\ Become(w, x)
    PROVE  Waiting' = Waiting
<1>1. {x \in writing' : x.pc = "owned"} = {x \in writing : x.pc = "owned"}
  BY DEF Done, Become
<1>2. QED
  BY <1>1 DEF Waiting

\* and one that inserts or gives up frees its own place alone.
LEMMA WaitingLeft ==
    ASSUME IInv, OneRequestEach, NEW w \in writing, w.pc = "owned",
           Done(w) \/ \E x : x.pc # "owned" /\ Become(w, x)
    PROVE  Waiting' = Waiting \ {w.row} /\ w.row \in Waiting
<1>1. {x \in writing' : x.pc = "owned"} = {x \in writing : x.pc = "owned"} \ {w}
  BY DEF Done, Become
<1>2. \A x \in writing : x.row = w.row => x = w
  BY DEF OneRequestEach
<1>3. QED
  BY <1>1, <1>2 DEF Waiting

\* An answer is an acknowledgement of what is stored.
LEMMA AnswerAcknowledges ==
    ASSUME IInv, OneRequestEach, NEW w \in writing, w.pc # "owned", Done(w), NEW alert,
           Answer201(w, alert), UNCHANGED <<driverOf, fixes, rows, lastId, shown>>
    PROVE  Log!LogNext
<1>1. Waiting' = Waiting
  BY WaitingKept
<1>2. Acked' = Acked \cup {w.row}
  <2> DEFINE a == [row |-> w.row, area |-> w.area, alert |-> alert]
  <2>1. answered' = answered \cup {a} /\ a.row = w.row
    BY DEF Answer201
  <2> HIDE DEF a
  <2>2. QED
    BY <2>1 DEF Acked
<1>3. w.row \in Log!Fix /\ Log!Stored(w.row)
  BY PastInsertStored DEF Row, Log!Fix
<1>4. Log!Acknowledge(w.row)
  BY <1>1, <1>2, <1>3 DEF Log!Acknowledge, Waiting, Acked
<1>5. QED
  BY <1>3, <1>4 DEF Log!LogNext

\* Each step of a write is a step of the log, or none of its business.
LEMMA WriteStepLogs ==
    ASSUME IInv, OneRequestEach, NEW w \in writing, WriteStep(w)
    PROVE  Log!LogNext \/ LogUnchanged
<1>1. /\ w \in [pc : {"owned", "stored", "sent", "fenced", "crossed"}, row : Row,
                area : Area \cup {NoFence}, alert : Alert]
      /\ w.pc = "owned" => w.row \in Waiting
  BY DEF IInv, WInv, WriteTypes, Waiting
<1>2. CASE WriteInsert(w)
  <2> DEFINE x == [w EXCEPT !.pc = "stored", !.row.id = lastId + 1]
  <2>1. w.pc = "owned" /\ x.pc = "stored" /\ Become(w, x)
    BY <1>1, <1>2 DEF WriteInsert
  <2> HIDE DEF x
  <2>2. Waiting' = Waiting \ {w.row} /\ w.row \in Waiting
    BY <2>1, WaitingLeft
  <2>3. Acked' = Acked
    BY <1>2 DEF Acked, WriteInsert
  <2>4. Log!Store(w.row)
    BY <1>2, <2>2, <2>3 DEF WriteInsert, Log!Store, Waiting, Acked, Exists, Log!Exists, DriverId, Log!DriverId
  <2>5. QED
    BY <2>2, <2>4 DEF Log!LogNext, Waiting
<1>3. CASE WriteInsertFails(w)
  <2>1. w.pc = "owned" /\ Done(w) /\ UNCHANGED <<driverOf, fixes, shown, answered>>
    BY <1>3 DEF WriteInsertFails
  <2>2. Waiting' = Waiting \ {w.row} /\ w.row \in Waiting /\ Acked' = Acked
    BY <2>1, WaitingLeft DEF Acked
  <2>3. CASE UNCHANGED <<rows, lastId>>
    <3>1. Log!GiveUp({w.row})
      BY <2>1, <2>2, <2>3 DEF Log!GiveUp, Waiting, Acked
    <3>2. {w.row} \in SUBSET Waiting
      BY <2>2
    <3>3. QED
      BY <3>1, <3>2 DEF Log!LogNext, Waiting
  <2>4. CASE ~UNCHANGED <<rows, lastId>>
    <3>1. Log!Store(w.row)
      BY <1>3, <2>1, <2>2, <2>4
         DEF WriteInsertFails, Log!Store, Waiting, Acked, Exists, Log!Exists, DriverId, Log!DriverId
    <3>2. QED
      BY <2>2, <3>1 DEF Log!LogNext, Waiting
  <2>5. QED
    BY <2>3, <2>4
<1>4. CASE PublishPosition(w)
  <2> DEFINE x == [w EXCEPT !.pc = "sent"]
  <2>1. w.pc # "owned" /\ x.pc = "sent" /\ Become(w, x)
    BY <1>1, <1>4 DEF PublishPosition
  <2> HIDE DEF x
  <2>2. Waiting' = Waiting /\ Acked' = Acked
    BY <1>4, <2>1, WaitingKept DEF Acked, PublishPosition
  <2>3. CASE UNCHANGED shown
    BY <1>4, <2>2, <2>3 DEF PublishPosition, LogUnchanged
  <2>4. CASE shown' = [shown EXCEPT ![w.row.v] = w.row.rec]
    <3>1. w.row \in Log!Fix /\ Log!Stored(w.row)
      BY <2>1, PastInsertStored DEF Row, Log!Fix
    <3>2. Log!Show(w.row)
      BY <1>4, <2>2, <2>4, <3>1 DEF PublishPosition, Log!Show, Waiting, Acked
    <3>3. QED
      BY <3>1, <3>2 DEF Log!LogNext
  <2>5. QED
    BY <1>4, <2>3, <2>4 DEF PublishPosition
<1>5. ASSUME NEW x, w.pc # "owned", x.pc # "owned", Become(w, x),
             UNCHANGED <<driverOf, rows, lastId, fixes, shown, answered>>
      PROVE  LogUnchanged
  BY <1>5, WaitingKept DEF LogUnchanged, Acked
<1>6. CASE ReadFence(w)
  <2>1. PICK f \in fences : Become(w, [w EXCEPT !.pc = "fenced", !.area = f.area])
    BY <1>6 DEF ReadFence
  <2> DEFINE x == [w EXCEPT !.pc = "fenced", !.area = f.area]
  <2>2. x.pc = "fenced" /\ w.pc = "sent" /\ Become(w, x)
        /\ UNCHANGED <<driverOf, rows, lastId, fixes, shown, answered>>
    BY <1>1, <1>6, <2>1 DEF ReadFence
  <2> HIDE DEF x
  <2>3. QED
    BY <1>5, <2>2
<1>7. CASE ReadCrossing(w)
  <2>1. PICK q \in Previous(w.row) :
          Become(w, [w EXCEPT !.pc = "crossed", !.alert = Crossing(q.at, w.row.at, w.area)])
    BY <1>7 DEF ReadCrossing
  <2> DEFINE x == [w EXCEPT !.pc = "crossed", !.alert = Crossing(q.at, w.row.at, w.area)]
  <2>2. x.pc = "crossed" /\ w.pc = "fenced" /\ Become(w, x)
        /\ UNCHANGED <<driverOf, rows, lastId, fixes, shown, answered>>
    BY <1>1, <1>7, <2>1 DEF ReadCrossing
  <2> HIDE DEF x
  <2>3. QED
    BY <1>5, <2>2
<1>8. CASE ReadNoFence(w) \/ ReadNoCrossing(w) \/ LookupFails(w) \/ PublishAlert(w)
  <2>1. /\ w.pc # "owned" /\ Done(w) /\ UNCHANGED <<driverOf, fixes, rows, lastId, shown>>
        /\ \E alert : Answer201(w, alert)
    BY <1>8 DEF ReadNoFence, ReadNoCrossing, LookupFails, PublishAlert
  <2>2. QED
    BY <2>1, AnswerAcknowledges
<1>9. QED
  BY <1>2, <1>3, <1>4, <1>6, <1>7, <1>8 DEF WriteStep

\* Every step of Positions is one of the log, or leaves it as it is.
LEMMA StepLogs == IInv /\ OneRequestEach /\ [Next]_vars => Log!LogNext \/ LogUnchanged
<1> SUFFICES ASSUME IInv, OneRequestEach, [Next]_vars PROVE Log!LogNext \/ LogUnchanged
  OBVIOUS
<1>1. CASE UNCHANGED <<driverOf, positionVars>>
  BY <1>1 DEF positionVars, LogUnchanged, Waiting, Acked
<1>2. ASSUME NEW v \in Vehicle, NEW d \in Driver, NEW at \in Place, WriteLookup(v, d, at)
      PROVE  Log!LogNext
  <2> DEFINE x == [id |-> 0, v |-> v, at |-> at, rec |-> fixes + 1]
  <2> DEFINE w == [pc |-> "owned", row |-> x, area |-> NoFence, alert |-> "quiet"]
  <2>1. /\ driverOf[v] \in Driver
        /\ fixes' = fixes + 1
        /\ writing' = writing \cup {w}
        /\ UNCHANGED <<driverOf, rows, lastId, shown, answered>>
    BY <1>2 DEF WriteLookup
  <2>2. w.pc = "owned" /\ w.row = x
    OBVIOUS
  <2> HIDE DEF w
  <2>3. Waiting' = Waiting \cup {x}
    BY <2>1, <2>2 DEF Waiting
  <2>4. Log!Send(v, at)
    BY <2>1, <2>3 DEF Log!Send, Waiting
  <2>5. QED
    BY <2>4 DEF Log!LogNext
<1>3. ASSUME NEW w \in writing, WriteStep(w)
      PROVE  Log!LogNext \/ LogUnchanged
  BY <1>3, WriteStepLogs
<1>4. ASSUME NEW v \in Vehicle, NEW d \in DriverId, Hire(v, d)
      PROVE  Log!LogNext
  <2>1. Log!HandOver(v, d)
    BY <1>4 DEF Hire, Log!HandOver, Add, Log!Add, Reassign, Log!Reassign, Exists, Log!Exists, DriverId, Log!DriverId, positionVars
  <2>2. QED
    BY <2>1 DEF Log!LogNext, DriverId, Log!DriverId
<1>5. ASSUME NEW v \in Vehicle, DropCascade(v)
      PROVE  Log!LogNext
  <2>1. Log!Delete(v)
    BY <1>5 DEF DropCascade, Log!Delete, Drop, Log!Drop, Exists, Log!Exists, DriverId, Log!DriverId
  <2>2. QED
    BY <2>1 DEF Log!LogNext
<1>6. CASE ContainerStop
  <2>1. Waiting' = {} /\ Acked' = Acked
    BY <1>6 DEF ContainerStop, Waiting, Acked
  <2>2. \E lost : lost = Waiting
    OBVIOUS
  <2>3. PICK lost : lost = Waiting
    BY <2>2
  <2>4. lost \in SUBSET Waiting /\ Log!GiveUp(lost)
    BY <1>6, <2>1, <2>3 DEF ContainerStop, Log!GiveUp, Waiting, Acked
  <2>5. QED
    BY <2>4 DEF Log!LogNext, Waiting
<1>7. ASSUME NEW s \in setting, SetStep(s)
      PROVE  UNCHANGED <<driverOf, positionVars>>
  BY <1>7, SetSteps
<1>8. QED
  BY <1>1, <1>2, <1>3, <1>4, <1>5, <1>6, <1>7
     DEF Next, vars, WriteRefused, SetRefused, SetLookup

\* POST /api/positions keeps the promise of PositionLog: stored once or not at
\* all, in order, acknowledged and shown only when stored, gone only with the
\* vehicle, for any number of overlapping requests, failures and stops.
THEOREM PositionsKeepLog == Spec => ImplementsPositionLog
<1>1. Init => OneRequestEach
  BY DEF Init, OneRequestEach
<1>2. Init => Log!LogInit
  BY DEF Init, Log!LogInit, TableInit, Log!TableInit
<1>3. IInv /\ OneRequestEach /\ [Next]_vars => [Log!LogNext]_(Log!logVars)
  BY StepLogs DEF LogUnchanged, Log!logVars, Waiting, Acked
<1>4. QED
  BY <1>1, <1>2, <1>3, OneRequestStep, Invariance, PTL DEF Spec, ImplementsPositionLog, Log!LogSpec
=============================================================================
