---------------------------- MODULE VehiclesProofs ----------------------------
EXTENDS Vehicles, FiniteSetTheorems, FunctionTheorems, TLAPS

-----------------------------------------------------------------------------
(* The D1 client: columns.                                                 *)

LEMMA AddOne ==
    ASSUME NEW S, NEW n \in Nat, NEW x, IsFiniteSet(S), Cardinality(S) = n, x \notin S
    PROVE  IsFiniteSet(S \cup {x}) /\ Cardinality(S \cup {x}) = n + 1
BY FS_AddElement

LEMMA Up ==
    ASSUME NEW S, NEW n \in Nat, NEW x \in Int, NEW T,
           IsFiniteSet(S), Cardinality(S) = n, x \notin S, T = S \cup {x}
    PROVE  IsFiniteSet(T) /\ Cardinality(T) = n + 1
BY AddOne

\* The columns of a vehicle in the order they are bound.
LEMMA VehicleOrder ==
    ASSUME NEW line,
           DOMAIN line = {"id", "plate_number", "driver_id", "model", "created_at", "updated_at"}
    PROVE  /\ ColumnOrder(line)[1] = "created_at" /\ ColumnOrder(line)[2] = "driver_id"
           /\ ColumnOrder(line)[3] = "id" /\ ColumnOrder(line)[4] = "model"
           /\ ColumnOrder(line)[5] = "plate_number" /\ ColumnOrder(line)[6] = "updated_at"
           /\ ColumnOrder(line) \in Seq(DOMAIN line) /\ Len(ColumnOrder(line)) = 6
<1> DEFINE S == {1, 2, 4, 5, 8, 10}
           N(i) == Cardinality({j \in S : j <= i})
           P(n) == CHOOSE i \in S : N(i) = n
           At(n) == Alphabet[P(n)]
<1>1. Columns(line) = S
  BY DEF Columns, Alphabet
<1>2. /\ {j \in S : j <= 1} = {1}
      /\ {j \in S : j <= 2} = {1} \cup {2}
      /\ {j \in S : j <= 4} = {1, 2} \cup {4}
      /\ {j \in S : j <= 5} = {1, 2, 4} \cup {5}
      /\ {j \in S : j <= 8} = {1, 2, 4, 5} \cup {8}
      /\ {j \in S : j <= 10} = {1, 2, 4, 5, 8} \cup {10}
  OBVIOUS
<1>3. IsFiniteSet({1}) /\ Cardinality({1}) = 1
  BY FS_Singleton
<1>4. IsFiniteSet({1, 2}) /\ Cardinality({1, 2}) = 2
  BY <1>3, Up
<1>5. IsFiniteSet({1, 2, 4}) /\ Cardinality({1, 2, 4}) = 3
  BY <1>4, Up
<1>6. IsFiniteSet({1, 2, 4, 5}) /\ Cardinality({1, 2, 4, 5}) = 4
  BY <1>5, Up
<1>7. IsFiniteSet({1, 2, 4, 5, 8}) /\ Cardinality({1, 2, 4, 5, 8}) = 5
  BY <1>6, Up
<1>8. IsFiniteSet(S) /\ Cardinality(S) = 6
  BY <1>7, Up
<1>9. N(1) = 1 /\ N(2) = 2 /\ N(4) = 3 /\ N(5) = 4 /\ N(8) = 5 /\ N(10) = 6
  BY <1>2, <1>3, <1>4, <1>5, <1>6, <1>7, <1>8
<1>10. ColumnOrder(line) = [n \in 1..6 |-> At(n)]
  BY <1>1, <1>8 DEF ColumnOrder
<1> HIDE DEF N
<1>11. P(1) = 1 /\ P(2) = 2 /\ P(3) = 4 /\ P(4) = 5 /\ P(5) = 8 /\ P(6) = 10
  BY <1>9
<1> HIDE DEF P
<1>12. /\ At(1) = "created_at" /\ At(2) = "driver_id" /\ At(3) = "id" /\ At(4) = "model"
       /\ At(5) = "plate_number" /\ At(6) = "updated_at"
  BY <1>11 DEF Alphabet
<1> HIDE DEF At
<1>13. \A n \in 1..6 : At(n) \in DOMAIN line
  <2>1. ASSUME NEW n \in 1..6 PROVE At(n) \in DOMAIN line
    <3>1. n \in {1, 2, 3, 4, 5, 6}
      OBVIOUS
    <3> QED BY <1>12, <3>1
  <2> QED BY <2>1
<1>14. [n \in 1..6 |-> At(n)] \in Seq(DOMAIN line) /\ Len([n \in 1..6 |-> At(n)]) = 6
  BY <1>13
<1>15. \A n \in 1..6 : ColumnOrder(line)[n] = At(n)
  BY <1>10
<1> QED BY <1>10, <1>12, <1>14, <1>15

\* And of a driver.
LEMMA DriverOrder ==
    ASSUME NEW line,
           DOMAIN line = {"id", "email", "password_hash", "name", "role", "created_at", "updated_at"}
    PROVE  /\ ColumnOrder(line)[1] = "created_at" /\ ColumnOrder(line)[2] = "email"
           /\ ColumnOrder(line)[3] = "id" /\ ColumnOrder(line)[4] = "name"
           /\ ColumnOrder(line)[5] = "password_hash" /\ ColumnOrder(line)[6] = "role"
           /\ ColumnOrder(line)[7] = "updated_at"
           /\ ColumnOrder(line) \in Seq(DOMAIN line) /\ Len(ColumnOrder(line)) = 7
<1> DEFINE S == {1, 3, 4, 6, 7, 9, 10}
           N(i) == Cardinality({j \in S : j <= i})
           P(n) == CHOOSE i \in S : N(i) = n
           At(n) == Alphabet[P(n)]
<1>1. Columns(line) = S
  BY DEF Columns, Alphabet
<1>2. /\ {j \in S : j <= 1} = {1}
      /\ {j \in S : j <= 3} = {1} \cup {3}
      /\ {j \in S : j <= 4} = {1, 3} \cup {4}
      /\ {j \in S : j <= 6} = {1, 3, 4} \cup {6}
      /\ {j \in S : j <= 7} = {1, 3, 4, 6} \cup {7}
      /\ {j \in S : j <= 9} = {1, 3, 4, 6, 7} \cup {9}
      /\ {j \in S : j <= 10} = {1, 3, 4, 6, 7, 9} \cup {10}
  OBVIOUS
<1>3. IsFiniteSet({1}) /\ Cardinality({1}) = 1
  BY FS_Singleton
<1>4. IsFiniteSet({1, 3}) /\ Cardinality({1, 3}) = 2
  BY <1>3, Up
<1>5. IsFiniteSet({1, 3, 4}) /\ Cardinality({1, 3, 4}) = 3
  BY <1>4, Up
<1>6. IsFiniteSet({1, 3, 4, 6}) /\ Cardinality({1, 3, 4, 6}) = 4
  BY <1>5, Up
<1>7. IsFiniteSet({1, 3, 4, 6, 7}) /\ Cardinality({1, 3, 4, 6, 7}) = 5
  BY <1>6, Up
<1>8. IsFiniteSet({1, 3, 4, 6, 7, 9}) /\ Cardinality({1, 3, 4, 6, 7, 9}) = 6
  BY <1>7, Up
<1>9. IsFiniteSet(S) /\ Cardinality(S) = 7
  BY <1>8, Up
<1>10. N(1) = 1 /\ N(3) = 2 /\ N(4) = 3 /\ N(6) = 4 /\ N(7) = 5 /\ N(9) = 6 /\ N(10) = 7
  BY <1>2, <1>3, <1>4, <1>5, <1>6, <1>7, <1>8, <1>9
<1>11. ColumnOrder(line) = [n \in 1..7 |-> At(n)]
  BY <1>1, <1>9 DEF ColumnOrder
<1> HIDE DEF N
<1>12. P(1) = 1 /\ P(2) = 3 /\ P(3) = 4 /\ P(4) = 6 /\ P(5) = 7 /\ P(6) = 9 /\ P(7) = 10
  BY <1>10
<1> HIDE DEF P
<1>13. /\ At(1) = "created_at" /\ At(2) = "email" /\ At(3) = "id" /\ At(4) = "name"
       /\ At(5) = "password_hash" /\ At(6) = "role" /\ At(7) = "updated_at"
  BY <1>12 DEF Alphabet
<1> HIDE DEF At
<1>14. \A n \in 1..7 : At(n) \in DOMAIN line
  <2>1. ASSUME NEW n \in 1..7 PROVE At(n) \in DOMAIN line
    <3>1. n \in {1, 2, 3, 4, 5, 6, 7}
      OBVIOUS
    <3> QED BY <1>13, <3>1
  <2> QED BY <2>1
<1>15. [n \in 1..7 |-> At(n)] \in Seq(DOMAIN line) /\ Len([n \in 1..7 |-> At(n)]) = 7
  BY <1>14
<1>16. \A n \in 1..7 : ColumnOrder(line)[n] = At(n)
  BY <1>11
<1> QED BY <1>11, <1>13, <1>15, <1>16

LEMMA JSONValues ==
    /\ \A x : Text(x).type = "string" /\ Text(x).is = x
    /\ \A n : Number(n).type = "float64"
    /\ Null.type = "nil"
    /\ Assignable("int64", Number(0)) /\ \A x : Assignable("string", Text(x))
    /\ \A x : Assigned("string", Text(x)) = x
BY DEF Text, Number, Null, Assignable, Assigned

\* A row reaches the variables it was stored from.
LEMMA VehicleScans ==
    ASSUME VehiclesAssumption, NEW v, row[v] \in Row
    PROVE  Scans(VehicleLine(v), VehicleDests) /\ ScanVehicle(VehicleLine(v)) = row[v]
<1> DEFINE line == VehicleLine(v)
           columns == ColumnOrder(line)
<1>1. DOMAIN line = {"id", "plate_number", "driver_id", "model", "created_at", "updated_at"}
  BY DEF VehicleLine
<1>2. /\ columns[1] = "created_at" /\ columns[2] = "driver_id" /\ columns[3] = "id"
      /\ columns[4] = "model" /\ columns[5] = "plate_number" /\ columns[6] = "updated_at"
      /\ Len(columns) = 6
  BY <1>1, VehicleOrder
<1>3. /\ line["created_at"] = Number(0) /\ line["id"] = Text(v) /\ line["model"] = Null
      /\ line["driver_id"] = (IF row[v].driver = NoDriver THEN Null ELSE Text(row[v].driver))
      /\ line["plate_number"] = Text(row[v].plate) /\ line["updated_at"] = Number(0)
  BY DEF VehicleLine
<1>4. /\ DOMAIN VehicleDests = 1..6 /\ Len(VehicleDests) = 6
      /\ VehicleDests[1] = "int64" /\ VehicleDests[2] = "*string" /\ VehicleDests[3] = "string"
      /\ VehicleDests[4] = "*string" /\ VehicleDests[5] = "string" /\ VehicleDests[6] = "int64"
  BY DEF VehicleDests
<1> HIDE DEF line, columns
<1>5. \A i \in 1..6 : Assignable(VehicleDests[i], line[columns[i]])
  <2>1. ASSUME NEW i \in 1..6 PROVE Assignable(VehicleDests[i], line[columns[i]])
    <3>1. i \in {1, 2, 3, 4, 5, 6}
      OBVIOUS
    <3> QED BY <1>2, <1>3, <1>4, <3>1, JSONValues DEF Assignable
  <2> QED BY <2>1
<1>6. Scans(line, VehicleDests)
  BY <1>2, <1>4, <1>5 DEF Scans, columns
<1>7. Scanned(line, VehicleDests) =
        [i \in 1..6 |-> Assigned(VehicleDests[i], line[columns[i]])]
  BY <1>4 DEF Scanned, columns
<1>8. Scanned(line, VehicleDests)[5] = row[v].plate
  <2>1. Scanned(line, VehicleDests)[5] = Assigned("string", Text(row[v].plate))
    BY <1>2, <1>3, <1>4, <1>7
  <2> QED BY <2>1, JSONValues DEF Assigned
<1>9. Scanned(line, VehicleDests)[2] = IF row[v].driver = NoDriver THEN "nil" ELSE row[v].driver
  <2>1. Scanned(line, VehicleDests)[2] =
          Assigned("*string", IF row[v].driver = NoDriver THEN Null ELSE Text(row[v].driver))
    BY <1>2, <1>3, <1>4, <1>7
  <2> QED BY <2>1, JSONValues DEF Assigned
<1>10. row[v].driver \in Driver \cup {NoDriver} /\ row[v] = [plate |-> row[v].plate, driver |-> row[v].driver]
  BY DEF Row, DriverId
<1>11. ScanVehicle(line) = row[v]
  BY <1>8, <1>9, <1>10 DEF ScanVehicle, ScannedRow, VehiclesAssumption
<1> QED BY <1>6, <1>11 DEF line

LEMMA DriverScans ==
    ASSUME NEW d, account[d] \in Account
    PROVE  LET line == DriverLine(account[d])
               s == Scanned(line, DriverDests)
           IN  /\ Scans(line, DriverDests)
               /\ [id |-> s[3], email |-> s[2], password |-> s[5], role |-> s[6]] = account[d]
<1> DEFINE line == DriverLine(account[d])
           columns == ColumnOrder(line)
           s == Scanned(line, DriverDests)
           name == "a name"
<1>1. DOMAIN line = {"id", "email", "password_hash", "name", "role", "created_at", "updated_at"}
  BY DEF DriverLine
<1>2. /\ columns[1] = "created_at" /\ columns[2] = "email" /\ columns[3] = "id"
      /\ columns[4] = "name" /\ columns[5] = "password_hash" /\ columns[6] = "role"
      /\ columns[7] = "updated_at" /\ Len(columns) = 7
  BY <1>1, DriverOrder
<1>3. /\ line["created_at"] = Number(0) /\ line["email"] = Text(account[d].email)
      /\ line["id"] = Text(account[d].id) /\ line["name"] = Text(name)
      /\ line["password_hash"] = Text(account[d].password)
      /\ line["role"] = Text(account[d].role) /\ line["updated_at"] = Number(0)
  BY DEF DriverLine
<1>4. /\ DOMAIN DriverDests = 1..7 /\ Len(DriverDests) = 7
      /\ DriverDests[1] = "int64" /\ DriverDests[2] = "string" /\ DriverDests[3] = "string"
      /\ DriverDests[4] = "string" /\ DriverDests[5] = "string" /\ DriverDests[6] = "string"
      /\ DriverDests[7] = "int64"
  BY DEF DriverDests
<1> HIDE DEF line, columns, s, name
<1>5. \A i \in 1..7 : Assignable(DriverDests[i], line[columns[i]])
  <2>1. Assignable(DriverDests[1], line[columns[1]]) /\ Assignable(DriverDests[7], line[columns[7]])
    BY <1>2, <1>3, <1>4, JSONValues
  <2>2. /\ Assignable(DriverDests[2], line[columns[2]])
        /\ Assignable(DriverDests[3], line[columns[3]])
    BY <1>2, <1>3, <1>4, JSONValues
  <2>3. /\ Assignable(DriverDests[4], line[columns[4]])
        /\ Assignable(DriverDests[5], line[columns[5]])
    BY <1>2, <1>3, <1>4, JSONValues
  <2>4. Assignable(DriverDests[6], line[columns[6]])
    BY <1>2, <1>3, <1>4, JSONValues
  <2>5. \A i \in 1..7 : i = 1 \/ i = 2 \/ i = 3 \/ i = 4 \/ i = 5 \/ i = 6 \/ i = 7
    OBVIOUS
  <2> QED BY <2>1, <2>2, <2>3, <2>4, <2>5
<1>6. Scans(line, DriverDests)
  BY <1>2, <1>4, <1>5 DEF Scans, columns
<1>7. s = [i \in 1..7 |-> Assigned(DriverDests[i], line[columns[i]])]
  BY <1>4 DEF Scanned, columns, s
<1>8. /\ s[2] = account[d].email /\ s[3] = account[d].id
      /\ s[5] = account[d].password /\ s[6] = account[d].role
  <2>1. s[2] = Assigned("string", Text(account[d].email))
    BY <1>2, <1>3, <1>4, <1>7
  <2>2. s[3] = Assigned("string", Text(account[d].id))
    BY <1>2, <1>3, <1>4, <1>7
  <2>3. s[5] = Assigned("string", Text(account[d].password))
    BY <1>2, <1>3, <1>4, <1>7
  <2>4. s[6] = Assigned("string", Text(account[d].role))
    BY <1>2, <1>3, <1>4, <1>7
  <2> QED BY <2>1, <2>2, <2>3, <2>4, JSONValues
<1>9. [id |-> s[3], email |-> s[2], password |-> s[5], role |-> s[6]] = account[d]
  BY <1>8 DEF Account
<1> QED BY <1>6, <1>9 DEF line, s

-----------------------------------------------------------------------------
(* The D1 client: answers.                                                 *)

LEMMA RanAnswer ==
    ASSUME NEW rows, NEW a \in Ran(rows)
    PROVE  /\ DoQuery(a) = "ok" /\ Query(a) = rows
           /\ QueryRow(a) = IF rows = <<>> THEN "no rows" ELSE "ok"
<1> DEFINE results == <<[success |-> TRUE, rows |-> rows]>>
<1>1. Whole(results)
  BY DEF Whole
<1>2. results # <<>> /\ results[1].rows = rows
  OBVIOUS
<1>3. \/ a = Reply(200, TRUE, TRUE, results)
      \/ a = Reply(200, TRUE, TRUE, <<>>) /\ rows = <<>>
  <2>1. 1 \in DOMAIN results
    OBVIOUS
  <2> QED BY <1>1, <1>2, <2>1 DEF Ran, Told
<1>4. Whole(<<>>)
  BY DEF Whole
<1> HIDE DEF results
<1>5. /\ DoQuery(a) = "ok"
      /\ a.results = results \/ (a.results = <<>> /\ rows = <<>>)
  <2>1. CASE a = Reply(200, TRUE, TRUE, results)
    BY <1>1, <2>1 DEF Reply, DoQuery
  <2>2. CASE a = Reply(200, TRUE, TRUE, <<>>) /\ rows = <<>>
    BY <1>4, <2>2 DEF Reply, DoQuery
  <2> QED BY <1>3, <2>1, <2>2
<1>6. CASE a.results = results
  <2>1. Query(a) = rows /\ QueryRow(a) = IF rows = <<>> THEN "no rows" ELSE "ok"
    BY <1>2, <1>5, <1>6 DEF Query, QueryRow
  <2> QED BY <1>5, <2>1
<1>7. CASE a.results = <<>> /\ rows = <<>>
  <2>1. Query(a) = <<>> /\ QueryRow(a) = "no rows"
    BY <1>5, <1>7 DEF Query, QueryRow
  <2> QED BY <1>5, <1>7, <2>1
<1> QED BY <1>5, <1>6, <1>7

LEMMA GarbledAnswer ==
    ASSUME NEW a \in Garbled
    PROVE  /\ DoQuery(a) \notin {"ok", "no rows"} /\ QueryRow(a) \notin {"ok", "no rows"}
           /\ a.error = "none"
BY DEF Garbled, Reply, DoQuery, QueryRow

LEMMA RefusedAnswer ==
    ASSUME NEW constraint, NEW a \in Refused(constraint)
    PROVE  DoQuery(a) # "ok" /\ a.error \in {constraint, "none"}
<1> DEFINE results == <<[success |-> FALSE, rows |-> <<>>]>>
<1>1. ~Whole(results) /\ ~Whole(<<>>) = FALSE
  BY DEF Whole
<1>2. PICK b \in Told(results), e \in {constraint, "none"} : a = [b EXCEPT !.error = e]
  BY DEF Refused
<1>3. b \in {Reply(400, TRUE, FALSE, <<>>), Reply(200, TRUE, FALSE, results),
             Reply(200, TRUE, TRUE, results)}
  BY <1>1, <1>2 DEF Told
<1> HIDE DEF results
<1>4. /\ a.error = e /\ a.status = b.status /\ a.decodes = b.decodes
      /\ a.success = b.success /\ a.results = b.results
  BY <1>2, <1>3 DEF Reply
<1>5. DoQuery(a) # "ok"
  BY <1>1, <1>3, <1>4 DEF Reply, DoQuery
<1> QED BY <1>4, <1>5

LEMMA SeqOfNone == SetToSeq({}) = <<>>
<1>1. Cardinality({}) = 0
  BY FS_EmptySet
<1>2. <<>> \in [1..0 -> {}] /\ IsInjective(<<>>)
  BY DEF IsInjective
<1>3. \A f \in [1..0 -> {}] : f = <<>>
  OBVIOUS
<1> QED BY <1>1, <1>2, <1>3 DEF SetToSeq

LEMMA SeqOfAll ==
    ASSUME NEW S, IsFiniteSet(S)
    PROVE  Range(SetToSeq(S)) = S /\ (S # {} => SetToSeq(S) # <<>> /\ SetToSeq(S)[1] \in S)
<1> DEFINE n == Cardinality(S)
<1>1. n \in Nat /\ (n = 0 <=> S = {}) /\ ExistsBijection(1..n, S)
  BY FS_CardinalityType, FS_EmptySet
<1>2. IsFiniteSet(1..n) /\ Cardinality(1..n) = n
  BY <1>1, FS_Interval
<1> HIDE DEF n
<1>3. \E f \in [1..n -> S] : IsInjective(f)
  <2>1. PICK f \in Bijection(1..n, S) : TRUE
    BY <1>1 DEF ExistsBijection
  <2>2. f \in [1..n -> S] /\ IsInjective(f)
    BY <2>1 DEF Bijection, Injection, IsInjective
  <2> QED BY <2>2
<1> DEFINE s == SetToSeq(S)
<1>4. s \in [1..n -> S] /\ IsInjective(s)
  BY <1>3 DEF SetToSeq, n
<1> HIDE DEF s
<1>5. s \in Injection(1..n, S)
  BY <1>4 DEF Injection
<1>6. s \in Surjection(1..n, S)
  BY <1>2, <1>5, FS_Injection DEF n
<1>7. Range(s) = S
  BY <1>4, <1>6 DEF Range, Surjection
<1>8. ASSUME S # {} PROVE s # <<>> /\ s[1] \in S
  <2>1. n \in Nat /\ n # 0
    BY <1>1, <1>8
  <2>2. 1 \in 1..n
    BY <2>1
  <2>3. DOMAIN s = 1..n /\ s[1] \in S
    BY <1>4, <2>2
  <2>4. DOMAIN <<>> = {}
    OBVIOUS
  <2>5. s # <<>>
    BY <2>2, <2>3, <2>4
  <2> QED BY <2>3, <2>5
<1>9. Range(SetToSeq(S)) = S
  BY <1>7 DEF s
<1>10. S # {} => SetToSeq(S) # <<>> /\ SetToSeq(S)[1] \in S
  BY <1>8 DEF s
<1> QED BY <1>9, <1>10

-----------------------------------------------------------------------------
(* The repositories' answers.                                              *)

LEMMA OneField ==
    ASSUME NEW x, NEW e, x = [error |-> e]
    PROVE  x.error = e
OBVIOUS

\* A SELECT of at most one account tells it as stored, or that there is none.
LEMMA DriverRowAnswer ==
    ASSUME NEW ids, NEW a \in Ran(Lines(ids)) \cup Garbled,
           \A e \in ids : account[e] \in Account,
           ids = {} \/ \E e \in ids : ids = {e}
    PROVE  /\ DriverRow(a).error \in {"none", "not found", "internal"}
           /\ DriverRow(a).error = "none" => \E e \in ids : DriverRow(a).account = account[e]
           /\ DriverRow(a).error = "not found" => ids = {}
<1> SUFFICES ASSUME NEW got, got = DriverRow(a)
             PROVE  /\ got.error \in {"none", "not found", "internal"}
                    /\ got.error = "none" => \E e \in ids : got.account = account[e]
                    /\ got.error = "not found" => ids = {}
  OBVIOUS
<1>0. got = DriverRow(a)
  OBVIOUS
<1>1. CASE a \in Garbled
  <2>1. got = [error |-> "internal"]
    BY <1>0, <1>1, GarbledAnswer DEF DriverRow, NotFoundOr
  <2> QED BY <2>1
<1>2. CASE a \in Ran(Lines(ids)) /\ ids = {}
  <2>1. Lines(ids) = <<>>
    <3>1. {DriverLine(account[d]) : d \in ids} = {}
      BY <1>2
    <3> QED BY <3>1, SeqOfNone DEF Lines
  <2>2. QueryRow(a) = "no rows"
    BY <1>2, <2>1, RanAnswer
  <2>3. got = [error |-> "not found"]
    BY <1>0, <2>2 DEF DriverRow, NotFoundOr
  <2> QED BY <1>2, <2>3, OneField
<1>3. ASSUME NEW e \in ids, a \in Ran(Lines(ids)), ids = {e}
      PROVE  got = [error |-> "none", account |-> account[e]]
  <2> DEFINE line == DriverLine(account[e])
             s == Scanned(line, DriverDests)
  <2>1. {DriverLine(account[d]) : d \in ids} = {line}
    BY <1>3
  <2> HIDE DEF line
  <2>2. IsFiniteSet({line}) /\ {line} # {}
    BY FS_Singleton
  <2>3. Lines(ids) # <<>> /\ Lines(ids)[1] = line
    BY <2>1, <2>2, SeqOfAll DEF Lines
  <2>4. QueryRow(a) = "ok" /\ Query(a)[1] = line
    BY <1>3, <2>3, RanAnswer
  <2>5. Scans(line, DriverDests)
        /\ [id |-> s[3], email |-> s[2], password |-> s[5], role |-> s[6]] = account[e]
    BY DriverScans DEF line
  <2> HIDE DEF s
  <2>6. got = [error |-> "none",
                        account |-> [id |-> s[3], email |-> s[2], password |-> s[5], role |-> s[6]]]
    BY <1>0, <2>4, <2>5 DEF DriverRow, s
  <2> QED BY <2>5, <2>6
<1>4. ASSUME NEW e \in ids, a \in Ran(Lines(ids)), ids = {e}
      PROVE  /\ got.error = "none"
             /\ \E c \in ids : got.account = account[c]
  <2>1. got = [error |-> "none", account |-> account[e]]
    BY <1>3, <1>4
  <2>2. got.error = "none" /\ got.account = account[e]
    BY <2>1
  <2> QED BY <2>2
<1> QED BY <1>0, <1>1, <1>2, <1>4

\* A Get tells the vehicle as stored, or that there is none.
LEMMA GetsAnswer ==
    ASSUME VehiclesAssumption, NEW v \in Vehicle, NEW got \in Gets(v)
    PROVE  /\ got.error \in {"none", "not found", "internal"}
           /\ got.error = "none" => Exists(v) /\ got.vehicle = row[v]
           /\ got.error = "not found" => ~Exists(v)
<1> DEFINE rows == Selected({v} \cap Stored)
<1>0. PICK a \in Ran(rows) \cup Garbled : got = VehicleRow(a)
  BY DEF Gets
<1>1. CASE a \in Garbled
  <2>1. got = [error |-> "internal"]
    BY <1>0, <1>1, GarbledAnswer DEF VehicleRow, NotFoundOr
  <2> QED BY <2>1
<1>2. CASE a \in Ran(rows) /\ ~Exists(v)
  <2>1. {VehicleLine(u) : u \in {v} \cap Stored} = {}
    BY <1>2 DEF Stored
  <2>2. rows = <<>>
    BY <2>1, SeqOfNone DEF Selected
  <2>3. QueryRow(a) = "no rows"
    BY <1>2, <2>2, RanAnswer
  <2>4. got = [error |-> "not found"]
    BY <1>0, <2>3 DEF VehicleRow, NotFoundOr
  <2> QED BY <1>2, <2>4
<1>3. CASE a \in Ran(rows) /\ Exists(v)
  <2> DEFINE line == VehicleLine(v)
  <2>1. {VehicleLine(u) : u \in {v} \cap Stored} = {line}
    BY <1>3 DEF Stored
  <2>2. Scans(line, VehicleDests) /\ ScanVehicle(line) = row[v]
    BY <1>3, VehicleScans DEF Exists
  <2> HIDE DEF line
  <2>3. IsFiniteSet({line}) /\ {line} # {}
    BY FS_Singleton
  <2>4. rows # <<>> /\ rows[1] = line
    BY <2>1, <2>3, SeqOfAll DEF Selected
  <2>5. QueryRow(a) = "ok" /\ Query(a)[1] = line
    BY <1>3, <2>4, RanAnswer
  <2>6. got = [error |-> "none", vehicle |-> row[v]]
    BY <1>0, <2>2, <2>5 DEF VehicleRow
  <2> QED BY <1>3, <2>6
<1> QED BY <1>0, <1>1, <1>2, <1>3

\* A listing that is not an error is every row as stored.
LEMMA ListAnswer ==
    ASSUME VehiclesAssumption, NEW a \in Ran(Selected(Stored)) \cup Garbled
    PROVE  \/ Listing(a) = Silent
           \/ Listing(a) = Says(200, "list", {row[v] : v \in Stored})
<1>1. CASE a \in Garbled
  BY <1>1, GarbledAnswer DEF Listing
<1>2. CASE a \in Ran(Selected(Stored))
  <2> DEFINE lines == {VehicleLine(v) : v \in Stored}
  <2>1. IsFiniteSet(Stored)
    BY FS_Subset DEF VehiclesAssumption, Stored
  <2>2. IsFiniteSet(lines)
    <3> DEFINE line == [v \in Stored |-> VehicleLine(v)]
    <3>1. line \in [Stored -> lines] /\ \A l \in lines : \E v \in Stored : line[v] = l
      OBVIOUS
    <3> HIDE DEF line, lines
    <3>2. line \in Surjection(Stored, lines)
      BY <3>1, Fun_IsSurj
    <3> QED BY <2>1, <3>2, FS_Surjection
  <2>3. Range(Query(a)) = lines
    <3>1. Query(a) = Selected(Stored)
      BY <1>2, RanAnswer
    <3>2. Selected(Stored) = SetToSeq(lines)
      BY DEF Selected
    <3> HIDE DEF lines
    <3> QED BY <2>2, <3>1, <3>2, SeqOfAll
  <2>4. \A v \in Stored : ScanVehicle(VehicleLine(v)) = row[v]
    BY VehicleScans DEF Stored, Exists
  <2>5. {ScanVehicle(l) : l \in lines} = {row[v] : v \in Stored}
    BY <2>4
  <2> QED BY <2>3, <2>5 DEF Listing
<1> QED BY <1>1, <1>2

-----------------------------------------------------------------------------
(* Accounts.                                                               *)

\* Rows are stored under their ids, with their addresses in one spelling.
StoredSo ==
    \A d \in Registered : account[d].id = d /\ account[d].email[2] = "as stored"

AccountsInv ==
    AccountsTypeOK /\ StoredSo /\ EmailsUnique /\ SessionsTrue /\ AccountAnswersTrue

AccountSilence == answer.of \notin {"account", "email", "credentials"}

LEMMA Emails ==
    ASSUME NEW c \in Email, NEW e \in Email
    PROVE  /\ Canonical(c) \in Email /\ Canonical(c)[1] = c[1] /\ Canonical(c)[2] = "as stored"
           /\ c[1] = e[1] /\ c[2] = e[2] => c = e
<1>1. c = <<c[1], c[2]>> /\ e = <<e[1], e[2]>> /\ c[1] \in Address
  BY DEF Email
<1>2. Canonical(c) \in Email
  BY <1>1 DEF Canonical, Email, Spelling
<1>3. Canonical(c)[1] = c[1] /\ Canonical(c)[2] = "as stored"
  BY DEF Canonical
<1> QED BY <1>1, <1>2, <1>3

LEMMA RegisteredRows ==
    ASSUME AccountsTypeOK, AccountsAssumption
    PROVE  /\ \A d \in Registered : account[d] \in Account /\ account[d].email \in Email
           /\ \A d \in Driver : account[d] \in Account => d \in Registered
BY DEF AccountsTypeOK, Registered, Account, AccountsAssumption

\* At most one account answers to an address.
LEMMA Holder ==
    ASSUME AccountsInv, AccountsAssumption, NEW e \in Email
    PROVE  LET held == {d \in Registered : account[d].email = e}
           IN  held = {} \/ \E d \in held : held = {d}
<1> SUFFICES ASSUME NEW c \in Registered, NEW d \in Registered,
                    account[c].email = e, account[d].email = e
             PROVE  c = d
  OBVIOUS
<1> QED BY DEF AccountsInv, EmailsUnique

\* No step of anyone's takes an account back.
Grows == \A d \in Registered : d \in Registered' /\ account'[d] = account[d]

LEMMA AccountsKept ==
    ASSUME AccountsInv, UNCHANGED accountVars
    PROVE  AccountsTypeOK' /\ StoredSo' /\ EmailsUnique' /\ SessionsTrue' /\ Grows
<1>1. account' = account /\ session' = session
  BY DEF accountVars
<1>2. Registered' = Registered
  BY <1>1 DEF Registered
<1>3. AccountsTypeOK'
  BY <1>1 DEF AccountsInv, AccountsTypeOK
<1>4. StoredSo'
  BY <1>1, <1>2 DEF AccountsInv, StoredSo
<1>5. EmailsUnique'
  BY <1>1, <1>2 DEF AccountsInv, EmailsUnique
<1>6. SessionsTrue'
  BY <1>1, <1>2 DEF AccountsInv, SessionsTrue
<1> QED BY <1>1, <1>2, <1>3, <1>4, <1>5, <1>6 DEF Grows

LEMMA AnswersAlone ==
    ASSUME AccountsInv, UNCHANGED accountVars, AccountSilence'
    PROVE  AccountsInv' /\ Grows
<1>1. AccountAnswersTrue'
  BY DEF AccountSilence, AccountAnswersTrue
<1> QED BY <1>1, AccountsKept DEF AccountsInv

LEMMA AnswersTold ==
    ASSUME AccountsInv, UNCHANGED accountVars, AccountAnswersTrue'
    PROVE  AccountsInv' /\ Grows
BY AccountsKept DEF AccountsInv

LEMMA RegisterSafe ==
    ASSUME AccountsInv, AccountsAssumption,
           NEW p \in Person, NEW d \in Driver, NEW email \in Email, NEW role \in Role,
           Register(p, d, email, role)
    PROVE  AccountsInv' /\ Grows
<1> DEFINE new == New(p, d, email, role)
<1>1. /\ new \in Account /\ new.id = d /\ new.email = Canonical(email)
      /\ new.email[2] = "as stored" /\ new.email \in Email
  BY Emails DEF New, Account
<1>2. /\ account[d] = Unborn /\ EmailFree(new.email)
      /\ account' = [account EXCEPT ![d] = new]
      /\ answer' \in {RegisterAnswer(a, new) : a \in Ran(<<>>) \cup Garbled}
      /\ session' = session
  BY DEF Register
<1> HIDE DEF new
<1>3. d \notin Registered
  BY <1>2 DEF Registered
<1>4. AccountsTypeOK'
  BY <1>1, <1>2 DEF AccountsInv, AccountsTypeOK
<1>5. account'[d] = new /\ \A c \in Driver : c # d => account'[c] = account[c]
  BY <1>2 DEF AccountsInv, AccountsTypeOK
<1>6. Registered' = Registered \cup {d}
  BY <1>1, <1>5 DEF Registered, AccountsAssumption
<1>7. Registered \subseteq Driver
  BY DEF Registered
<1>8. Grows
  BY <1>3, <1>5, <1>6, <1>7 DEF Grows
<1>9. StoredSo'
  <2>1. ASSUME NEW c \in Registered'
        PROVE  account'[c].id = c /\ account'[c].email[2] = "as stored"
    <3>1. CASE c = d
      BY <1>1, <1>5, <3>1
    <3>2. CASE c \in Registered
      BY <1>8, <3>2 DEF Grows, AccountsInv, StoredSo
    <3> QED BY <1>6, <2>1, <3>1, <3>2
  <2> QED BY <2>1 DEF StoredSo
<1>10. \A c \in Registered : account[c].email[1] # new.email[1]
  <2>1. ASSUME NEW c \in Registered, account[c].email[1] = new.email[1] PROVE FALSE
    <3>1. account[c].email \in Email /\ account[c].email[2] = "as stored"
      BY RegisteredRows DEF AccountsInv, StoredSo
    <3>2. account[c].email = new.email
      BY <1>1, <2>1, <3>1, Emails
    <3> QED BY <1>2, <3>2 DEF EmailFree
  <2> QED BY <2>1
<1>11. EmailsUnique'
  <2>1. ASSUME NEW b \in Registered', NEW c \in Registered', b # c
        PROVE  account'[b].email[1] # account'[c].email[1]
    <3>1. CASE b = d
      BY <1>5, <1>6, <1>8, <1>10, <2>1, <3>1 DEF Grows
    <3>2. CASE c = d
      BY <1>5, <1>6, <1>8, <1>10, <2>1, <3>2 DEF Grows
    <3>3. CASE b # d /\ c # d
      BY <1>6, <1>8, <2>1, <3>3 DEF Grows, AccountsInv, EmailsUnique
    <3> QED BY <3>1, <3>2, <3>3
  <2> QED BY <2>1 DEF EmailsUnique
<1>12. SessionsTrue'
  <2>1. ASSUME NEW q \in Person, session'[q] # NoSession
        PROVE  \E c \in Registered' : /\ account'[c].password = q
                                      /\ session'[q] = [sub |-> c, role |-> account'[c].role]
    <3>1. PICK c \in Registered : /\ account[c].password = q
                                  /\ session[q] = [sub |-> c, role |-> account[c].role]
      BY <1>2, <2>1 DEF AccountsInv, SessionsTrue
    <3>2. c \in Registered' /\ account'[c] = account[c]
      BY <1>8 DEF Grows
    <3> QED BY <1>2, <3>1, <3>2
  <2> QED BY <2>1 DEF SessionsTrue
<1>13. AccountAnswersTrue'
  <2>1. PICK a \in Ran(<<>>) \cup Garbled : answer' = RegisterAnswer(a, new)
    BY <1>2
  <2>2. answer' = Says(201, "account", new) \/ answer' = Silent
    <3>1. CASE a \in Ran(<<>>)
      BY <2>1, <3>1, RanAnswer DEF RegisterAnswer, Exec
    <3>2. CASE a \in Garbled
      BY <2>1, <3>2, GarbledAnswer DEF RegisterAnswer, Exec, Violates
    <3> QED BY <2>1, <3>1, <3>2
  <2>3. new \in {account'[c] : c \in Registered'}
    BY <1>5, <1>6
  <2>4. CASE answer' = Silent
    BY <2>4 DEF Silent, AccountAnswersTrue
  <2>5. CASE answer' = Says(201, "account", new)
    BY <2>3, <2>5 DEF Says, AccountAnswersTrue
  <2> QED BY <2>2, <2>4, <2>5
<1> QED BY <1>4, <1>8, <1>9, <1>11, <1>12, <1>13 DEF AccountsInv

LEMMA RegisterConflictSafe ==
    ASSUME AccountsInv,
           NEW p \in Person, NEW d \in Driver, NEW email \in Email, NEW role \in Role,
           RegisterConflict(p, d, email, role)
    PROVE  AccountsInv' /\ Grows
<1> DEFINE new == New(p, d, email, role)
<1>1. /\ ~EmailFree(new.email)
      /\ answer' \in {RegisterAnswer(a, new) : a \in Refused("drivers.email") \cup Garbled}
      /\ UNCHANGED accountVars
  BY DEF RegisterConflict
<1> HIDE DEF new
<1>2. answer' = Says(409, "email", new.email) \/ answer' = Silent
  BY <1>1, RefusedAnswer, GarbledAnswer DEF RegisterAnswer, Exec, Violates
<1>3. CASE answer' = Silent
  BY <1>1, <1>3, AnswersAlone DEF Silent, AccountSilence
<1>4. CASE answer' = Says(409, "email", new.email)
  <2>1. account' = account /\ Registered' = Registered
    BY <1>1 DEF Registered, accountVars
  <2>2. answer'.of = "email" /\ answer'.about = new.email
    BY <1>4 DEF Says
  <2>3. ~\A c \in Registered' : account'[c].email # answer'.about
    BY <1>1, <2>1, <2>2 DEF EmailFree
  <2>4. AccountAnswersTrue'
    BY <2>2, <2>3 DEF AccountAnswersTrue, EmailFree
  <2> QED BY <1>1, <2>4, AnswersTold
<1> QED BY <1>2, <1>3, <1>4

LEMMA RegisterLostSafe ==
    ASSUME AccountsInv,
           NEW p \in Person, NEW d \in Driver, NEW email \in Email, NEW role \in Role,
           RegisterLost(p, d, email, role)
    PROVE  AccountsInv' /\ Grows
<1>1. answer' = Silent /\ UNCHANGED accountVars
  BY GarbledAnswer DEF RegisterLost, RegisterAnswer, Exec, Violates
<1> QED BY <1>1, AnswersAlone DEF Silent, AccountSilence

LEMMA MeSafe ==
    ASSUME AccountsInv, AccountsAssumption, NEW p \in Person, Me(p)
    PROVE  AccountsInv' /\ Grows
<1> DEFINE ids == Registered \cap {session[p].sub}
<1>1. PICK a \in Ran(Lines(ids)) \cup Garbled :
         answer' = CASE DriverRow(a).error = "none" -> Says(200, "account", DriverRow(a).account)
                     [] DriverRow(a).error = "not found" -> Says(404, "account", session[p].sub)
                     [] OTHER -> Silent
  BY DEF Me
<1>2. UNCHANGED accountVars
  BY DEF Me
<1>3. \A e \in ids : account[e] \in Account
  BY RegisteredRows DEF AccountsInv
<1>4. ids = {} \/ \E e \in ids : ids = {e}
  OBVIOUS
<1>5. Registered' = Registered /\ account' = account
  BY <1>2 DEF Registered, accountVars
<1> HIDE DEF ids
<1>6. CASE DriverRow(a).error = "none"
  <2>1. PICK e \in ids : DriverRow(a).account = account[e]
    BY <1>3, <1>4, <1>6, DriverRowAnswer
  <2>2. answer' = Says(200, "account", account[e])
    BY <1>1, <1>6, <2>1
  <2>3. e \in Registered
    BY DEF ids
  <2>4. AccountAnswersTrue'
    BY <1>5, <2>2, <2>3 DEF Says, AccountAnswersTrue
  <2> QED BY <1>2, <2>4, AnswersTold
<1>7. CASE DriverRow(a).error = "not found"
  <2>1. answer' = Says(404, "account", session[p].sub)
    BY <1>1, <1>7
  <2>2. session[p].sub \notin Registered
    BY <1>3, <1>4, <1>7, DriverRowAnswer DEF ids
  <2>3. AccountAnswersTrue'
    BY <1>5, <2>1, <2>2 DEF Says, AccountAnswersTrue
  <2> QED BY <1>2, <2>3, AnswersTold
<1>8. CASE DriverRow(a).error \notin {"none", "not found"}
  <2>1. answer' = Silent
    BY <1>1, <1>8
  <2> QED BY <1>2, <2>1, AnswersAlone DEF Silent, AccountSilence
<1> QED BY <1>6, <1>7, <1>8

LEMMA LeaveSafe ==
    ASSUME AccountsInv, NEW p \in Person, Leave(p)
    PROVE  AccountsInv' /\ Grows
<1>1. /\ session' = [session EXCEPT ![p] = NoSession]
      /\ answer' = Silent /\ account' = account
  BY DEF Leave
<1>2. Registered' = Registered
  BY <1>1 DEF Registered
<1>3. AccountsTypeOK'
  BY <1>1 DEF AccountsInv, AccountsTypeOK
<1>4. StoredSo' /\ EmailsUnique'
  BY <1>1, <1>2 DEF AccountsInv, StoredSo, EmailsUnique
<1>5. SessionsTrue'
  BY <1>1, <1>2 DEF AccountsInv, AccountsTypeOK, SessionsTrue
<1>6. AccountAnswersTrue'
  BY <1>1 DEF Silent, AccountAnswersTrue
<1> QED BY <1>1, <1>2, <1>3, <1>4, <1>5, <1>6 DEF AccountsInv, Grows

LEMMA LoginSafe ==
    ASSUME AccountsInv, AccountsAssumption, NEW p \in Person, NEW email \in Email, Login(p, email)
    PROVE  AccountsInv' /\ Grows
<1> DEFINE typed == Canonical(email)
           held == {d \in Registered : account[d].email = typed}
<1>1. PICK a \in Ran(Lines(held)) \cup Garbled :
         /\ answer' = LoginAnswer(DriverRow(a), p, email)
         /\ session' = IF answer'.status = 200
                       THEN [session EXCEPT ![p] = [sub  |-> DriverRow(a).account.id,
                                                    role |-> DriverRow(a).account.role]]
                       ELSE session
         /\ UNCHANGED account
  BY DEF Login
<1>2. typed \in Email /\ typed[2] = "as stored"
  BY Emails
<1>3. account' = account /\ Registered' = Registered
  BY <1>1 DEF Registered
<1>4. Grows
  BY <1>3 DEF Grows
<1>5. AccountsTypeOK /\ StoredSo /\ SessionsTrue
  BY DEF AccountsInv
<1>6. StoredSo' /\ EmailsUnique'
  BY <1>3 DEF AccountsInv, StoredSo, EmailsUnique
<1>7. held = {} \/ \E e \in held : held = {e}
  BY <1>2, Holder
<1>8. \A e \in held : account[e] \in Account /\ e \in Registered /\ account[e].id = e
  BY <1>5, RegisteredRows DEF StoredSo
<1>9. \A d \in Registered : d \in held \/ account[d].email[1] # typed[1]
  <2>1. ASSUME NEW d \in Registered, account[d].email[1] = typed[1] PROVE d \in held
    <3>1. account[d].email \in Email /\ account[d].email[2] = "as stored"
      BY <1>5, RegisteredRows DEF StoredSo
    <3> QED BY <1>2, <2>1, <3>1, Emails
  <2> QED BY <2>1
<1> HIDE DEF held, typed
<1>10. /\ DriverRow(a).error \in {"none", "not found", "internal"}
       /\ DriverRow(a).error = "none" => \E e \in held : DriverRow(a).account = account[e]
       /\ DriverRow(a).error = "not found" => held = {}
  BY <1>7, <1>8, DriverRowAnswer
<1>11. CASE DriverRow(a).error = "none" /\ DriverRow(a).account.password = p
  <2>1. PICK e \in held : DriverRow(a).account = account[e]
    BY <1>10, <1>11
  <2>2. answer' = Says(200, "account", account[e])
    BY <1>1, <1>11, <2>1 DEF LoginAnswer
  <2>3. answer'.status = 200
    BY <2>2 DEF Says
  <2>4. e \in Registered /\ account[e].id = e /\ account[e].role \in Role
        /\ account[e].password = p
    BY <1>8, <1>11, <2>1 DEF Account
  <2>5. session' = [session EXCEPT ![p] = [sub |-> e, role |-> account[e].role]]
    BY <1>1, <2>1, <2>3, <2>4
  <2>6. [sub |-> e, role |-> account[e].role] \in Token
    BY <2>4 DEF Token, Registered
  <2> DEFINE token == [sub |-> e, role |-> account[e].role]
  <2> HIDE DEF token
  <2>7. session' = [session EXCEPT ![p] = token] /\ token \in Token
    BY <2>5, <2>6 DEF token
  <2>8. AccountsTypeOK'
    BY <1>3, <1>5, <2>7 DEF AccountsTypeOK
  <2>9. session'[p] = token /\ \A q \in Person : q # p => session'[q] = session[q]
    BY <1>5, <2>7 DEF AccountsTypeOK
  <2>10. SessionsTrue'
    <3>1. ASSUME NEW q \in Person, session'[q] # NoSession
          PROVE  \E c \in Registered : /\ account[c].password = q
                                       /\ session'[q] = [sub |-> c, role |-> account[c].role]
      <4>1. CASE q = p
        BY <2>4, <2>9, <4>1 DEF token
      <4>2. CASE q # p
        BY <1>5, <2>9, <3>1, <4>2 DEF SessionsTrue
      <4> QED BY <4>1, <4>2
    <3> QED BY <1>3, <3>1 DEF SessionsTrue
  <2>11. AccountAnswersTrue'
    BY <1>3, <2>2, <2>4 DEF Says, AccountAnswersTrue
  <2> QED BY <1>4, <1>6, <2>8, <2>10, <2>11 DEF AccountsInv
<1>12. ASSUME answer'.status # 200, AccountAnswersTrue' PROVE AccountsInv' /\ Grows
  <2>1. UNCHANGED accountVars
    BY <1>1, <1>12 DEF accountVars
  <2> QED BY <1>12, <2>1, AnswersTold
<1>13. CASE DriverRow(a).error = "internal"
  <2>1. answer' = Silent
    BY <1>1, <1>13 DEF LoginAnswer
  <2>2. answer'.status # 200 /\ AccountAnswersTrue'
    BY <2>1 DEF Silent, AccountAnswersTrue
  <2> QED BY <1>12, <2>2
<1>14. CASE \/ DriverRow(a).error = "none" /\ DriverRow(a).account.password # p
            \/ DriverRow(a).error = "not found"
  <2>1. answer' = Says(401, "credentials", [password |-> p, email |-> typed])
    BY <1>1, <1>14 DEF LoginAnswer, typed
  <2>2. /\ answer'.status # 200 /\ answer'.of = "credentials"
        /\ answer'.about.password = p /\ answer'.about.email = typed
    BY <2>1 DEF Says
  <2>3. \A d \in Registered : account[d].password # p \/ account[d].email[1] # typed[1]
    BY <1>7, <1>9, <1>10, <1>14
  <2>4. AccountAnswersTrue'
    BY <1>3, <2>2, <2>3 DEF AccountAnswersTrue
  <2> QED BY <1>12, <2>2, <2>4
<1> QED BY <1>10, <1>11, <1>13, <1>14

LEMMA AccountsSafe ==
    ASSUME AccountsInv, AccountsAssumption, AccountsNext
    PROVE  AccountsInv' /\ Grows
<1>1. \A p \in Person, d \in Driver, email \in Email, role \in Role :
         Register(p, d, email, role) => AccountsInv' /\ Grows
  BY RegisterSafe
<1>2. \A p \in Person, d \in Driver, email \in Email, role \in Role :
         RegisterConflict(p, d, email, role) => AccountsInv' /\ Grows
  BY RegisterConflictSafe
<1>3. \A p \in Person, d \in Driver, email \in Email, role \in Role :
         RegisterLost(p, d, email, role) => AccountsInv' /\ Grows
  BY RegisterLostSafe
<1>4. \A p \in Person, email \in Email : Login(p, email) => AccountsInv' /\ Grows
  BY LoginSafe
<1>5. \A p \in Person : Me(p) \/ Leave(p) => AccountsInv' /\ Grows
  BY MeSafe, LeaveSafe
<1> QED BY <1>1, <1>2, <1>3, <1>4, <1>5 DEF AccountsNext

\* What an account step may say is not about vehicles.
LEMMA AccountsSpeakOfAccounts ==
    ASSUME AccountsNext
    PROVE  answer'.of \in {"nothing", "account", "email", "credentials"}
<1> DEFINE P == answer'.of \in {"nothing", "account", "email", "credentials"}
<1>1. \A x, s : /\ Says(s, "account", x).of = "account" /\ Says(s, "email", x).of = "email"
                /\ Says(s, "credentials", x).of = "credentials" /\ Silent.of = "nothing"
  BY DEF Says, Silent
<1>2. ASSUME NEW p \in Person, NEW d \in Driver, NEW email \in Email, NEW role \in Role,
             Register(p, d, email, role) \/ RegisterConflict(p, d, email, role)
             \/ RegisterLost(p, d, email, role)
      PROVE  P
  <2>1. \E a : answer' = RegisterAnswer(a, New(p, d, email, role))
    BY <1>2 DEF Register, RegisterConflict, RegisterLost
  <2> QED BY <1>1, <2>1 DEF RegisterAnswer
<1>3. ASSUME NEW p \in Person, NEW email \in Email, Login(p, email) PROVE P
  <2>1. \E d : answer' = LoginAnswer(d, p, email)
    BY <1>3 DEF Login
  <2> QED BY <1>1, <2>1 DEF LoginAnswer
<1>4. ASSUME NEW p \in Person, Me(p) PROVE P
  <2>1. PICK d :
           answer' = CASE d.error = "none" -> Says(200, "account", d.account)
                       [] d.error = "not found" -> Says(404, "account", session[p].sub)
                       [] OTHER -> Silent
    BY <1>4 DEF Me
  <2>2. CASE d.error = "none"
    BY <1>1, <2>1, <2>2
  <2>3. CASE d.error = "not found"
    BY <1>1, <2>1, <2>3
  <2>4. CASE d.error \notin {"none", "not found"}
    BY <1>1, <2>1, <2>4
  <2> QED BY <2>2, <2>3, <2>4
<1>5. ASSUME NEW p \in Person, Leave(p) PROVE P
  BY <1>1, <1>5 DEF Leave
<1> HIDE DEF P
<1>6. P
  BY <1>2, <1>3, <1>4, <1>5 DEF AccountsNext
<1> QED BY <1>6 DEF P

-----------------------------------------------------------------------------
(* Vehicles: what a step says.                                             *)

VehicleAnswers ==
    /\ answer.of = "vehicle" /\ answer.status \in {200, 201} =>
            row[answer.about[1]] = answer.about[2]
    /\ answer.of = "vehicle" /\ answer.status \in {204, 404} => ~Exists(answer.about)
    /\ answer.of = "patched" => GhostPatch \/ row[answer.about[1]] = answer.about[2]
    /\ answer.of = "list" => answer.about = {row[v] : v \in Stored}
    /\ answer.of = "plate" => ~PlateFree(answer.about[1], answer.about[2])

Truthful == VehicleAnswers /\ AccountSilence

LEMMA SilentIsTrue ==
    ASSUME answer' = Silent
    PROVE  Truthful'
<1>1. answer'.of = "nothing"
  BY DEF Silent
<1> QED BY <1>1 DEF Truthful, VehicleAnswers, AccountSilence

LEMMA ShownIsTrue ==
    ASSUME NEW s \in {200, 201}, NEW v, NEW x, answer' = Says(s, "vehicle", <<v, x>>), row'[v] = x
    PROVE  Truthful'
<1>1. answer'.of = "vehicle" /\ answer'.status = s /\ answer'.about = <<v, x>>
  BY DEF Says
<1>2. answer'.about[1] = v /\ answer'.about[2] = x
  BY <1>1
<1>3. answer'.of = "vehicle" /\ answer'.status \notin {204, 404}
  BY <1>1
<1> QED BY <1>2, <1>3 DEF Truthful, VehicleAnswers, AccountSilence

LEMMA Saying ==
    ASSUME NEW s, NEW o, NEW x
    PROVE  Says(s, o, x).status = s /\ Says(s, o, x).of = o /\ Says(s, o, x).about = x
BY DEF Says

LEMMA AbsentIsTrue ==
    ASSUME NEW s \in {204, 404}, NEW v, answer' = Says(s, "vehicle", v), row'[v] \notin Row
    PROVE  Truthful'
<1>1. answer'.of = "vehicle" /\ answer'.about = v
  BY Saying
<1>2. answer'.status = s
  BY Saying
<1>3. answer'.status \notin {200, 201}
  BY <1>2
<1> QED BY <1>1, <1>3 DEF Truthful, VehicleAnswers, AccountSilence, Exists

LEMMA MissingIsTrue ==
    ASSUME NEW error, NEW v, answer' = Missing(error, v), row' = row,
           error = "not found" => ~Exists(v)
    PROVE  Truthful'
<1>1. CASE error # "not found"
  BY <1>1, SilentIsTrue DEF Missing
<1>2. CASE error = "not found"
  <2>1. answer' = Says(404, "vehicle", v)
    BY <1>2 DEF Missing
  <2>2. row'[v] \notin Row
    BY <1>2 DEF Exists
  <2> QED BY <2>1, <2>2, AbsentIsTrue
<1> QED BY <1>1, <1>2

LEMMA PatchedIsTrue ==
    ASSUME NEW v, NEW x, answer' = Says(200, "patched", <<v, x>>), row'[v] \in {x, Gone}
    PROVE  Truthful'
<1>1. answer'.of = "patched" /\ answer'.about = <<v, x>>
  BY Saying
<1>2. answer'.about[1] = v /\ answer'.about[2] = x
  BY <1>1
<1> QED BY <1>1, <1>2 DEF Truthful, VehicleAnswers, AccountSilence, GhostPatch

LEMMA ListIsTrue ==
    ASSUME row' = row, answer' = Says(200, "list", {row[v] : v \in Stored})
    PROVE  Truthful'
<1> DEFINE rows == {row[v] : v \in Stored}
<1>1. answer'.of = "list" /\ answer'.about = rows
  BY DEF Says
<1>2. rows = {row'[v] : v \in Stored'}
  BY DEF Stored, Exists
<1> HIDE DEF rows
<1> QED BY <1>1, <1>2 DEF Truthful, VehicleAnswers, AccountSilence

LEMMA TakenIsTrue ==
    ASSUME NEW p, NEW v, row' = row, answer' = Says(409, "plate", <<p, v>>), ~PlateFree(p, v)
    PROVE  Truthful'
<1>1. answer'.of = "plate" /\ answer'.about = <<p, v>>
  BY DEF Says
<1>2. answer'.about[1] = p /\ answer'.about[2] = v
  BY <1>1
<1>3. Stored' = Stored
  BY DEF Stored, Exists
<1>4. ~\A u \in Stored' \ {v} : row'[u].plate # p
  BY <1>3 DEF PlateFree
<1> QED BY <1>1, <1>2, <1>4 DEF Truthful, VehicleAnswers, AccountSilence, PlateFree

\* A refused write is answered 409 only for a plate that is taken.
LEMMA RefusalAnswer ==
    ASSUME NEW new, NEW v, NEW done, NEW a \in Refusals(new, v) \cup Garbled
    PROVE  \/ WriteAnswer(a, done, new.plate, v) = Silent
           \/ /\ WriteAnswer(a, done, new.plate, v) = Says(409, "plate", <<new.plate, v>>)
              /\ ~PlateFree(new.plate, v)
<1>1. DoQuery(a) # "ok"
  BY RefusedAnswer, GarbledAnswer DEF Refusals
<1>2. a.error = "vehicles.plate_number" => ~PlateFree(new.plate, v)
  <2>1. CASE a \in Garbled
    BY <2>1, GarbledAnswer
  <2>2. CASE a \in Refused("foreign key")
    <3>1. a.error \in {"foreign key", "none"}
      BY <2>2, RefusedAnswer
    <3> QED BY <3>1
  <2>3. PlateFree(new.plate, v) => a \in Refused("foreign key") \cup Garbled
    BY DEF Refusals
  <2> QED BY <2>1, <2>2, <2>3
<1> QED BY <1>1, <1>2 DEF WriteAnswer, Exec, Violates

LEMMA ProbeAnswer ==
    ASSUME NEW r, NEW v, NEW next, Probe(r, v, next)
    PROVE  \/ call' = next /\ answer' = Silent /\ Exists(v)
           \/ /\ call' = [call EXCEPT ![r] = Idle]
              /\ \E error : /\ answer' = Missing(error, v)
                            /\ error = "not found" => ~Exists(v)
<1>1. PICK a \in Ran(Probed(v)) \cup Garbled :
         IF QueryRow(a) = "ok"
         THEN call' = next /\ answer' = Silent
         ELSE /\ call' = [call EXCEPT ![r] = Idle]
              /\ answer' = Missing(NotFoundOr(QueryRow(a)).error, v)
  BY DEF Probe
<1>2. CASE a \in Ran(Probed(v)) /\ Exists(v)
  <2>1. Probed(v) # <<>>
    BY <1>2 DEF Probed
  <2> QED BY <1>1, <1>2, <2>1, RanAnswer
<1>3. CASE a \in Ran(Probed(v)) /\ ~Exists(v)
  <2>1. Probed(v) = <<>>
    BY <1>3 DEF Probed
  <2>2. QueryRow(a) = "no rows"
    BY <1>3, <2>1, RanAnswer
  <2> QED BY <1>1, <1>3, <2>2
<1>4. CASE a \in Garbled
  <2>1. QueryRow(a) \notin {"ok", "no rows"}
    BY <1>4, GarbledAnswer
  <2>2. NotFoundOr(QueryRow(a)) = [error |-> "internal"]
    BY <2>1 DEF NotFoundOr
  <2>3. NotFoundOr(QueryRow(a)).error # "not found"
    BY <2>2
  <2> QED BY <1>1, <2>1, <2>3
<1> QED BY <1>2, <1>3, <1>4

-----------------------------------------------------------------------------
(* Vehicles: the invariant.                                                *)

CallRec == [pc : {"idle", "loaded", "probed", "deleting"}, v : Vehicle \cup {NoVehicle},
            patch : Patch, merged : Row \cup {Unborn}, alone : BOOLEAN]

VehiclesTypeOK == row \in [Vehicle -> Row \cup {Unborn, Gone}] /\ call \in [Req -> CallRec]

\* A request in flight is about a vehicle that exists or existed; a PATCH that
\* nobody raced still holds what the row says, changed as it was asked.
SlotOK(c, rows) ==
    /\ c.pc # "idle" => c.v \in Vehicle /\ rows[c.v] # Unborn
    /\ c.pc \in {"loaded", "probed"} => c.merged \in Row
    /\ c.pc \in {"loaded", "probed"} /\ c.alone =>
            rows[c.v] \in Row /\ c.merged = Merge(rows[c.v], c.patch)

SlotsOK == \A r \in Req : SlotOK(call[r], row)

IInv ==
    AccountsInv /\ VehiclesTypeOK /\ PlatesUnique /\ ManagersOnly /\ VehicleAnswers /\ SlotsOK

LEMMA IdleOK == Idle \in CallRec /\ Idle.pc = "idle" /\ \A rows : SlotOK(Idle, rows)
BY DEF Idle, CallRec, SlotOK, Patch, Everything

LEMMA InitOK ==
    ASSUME AccountsAssumption, VehiclesAssumption, Init
    PROVE  IInv
<1>1. /\ account = [d \in Driver |-> Unborn] /\ session = [p \in Person |-> NoSession]
      /\ answer = Silent /\ row = [v \in Vehicle |-> Unborn] /\ call = [r \in Req |-> Idle]
  BY DEF Init, AccountsInit
<1>2. Registered = {} /\ Stored = {}
  BY <1>1 DEF Registered, Stored, Exists, VehiclesAssumption
<1>3. answer.of = "nothing"
  BY <1>1 DEF Silent
<1>4. AccountsTypeOK /\ VehiclesTypeOK
  BY <1>1, IdleOK DEF AccountsTypeOK, VehiclesTypeOK
<1>5. StoredSo /\ EmailsUnique /\ PlatesUnique
  BY <1>2 DEF StoredSo, EmailsUnique, PlatesUnique
<1>6. SessionsTrue
  BY <1>1 DEF SessionsTrue
<1>7. AccountAnswersTrue /\ VehicleAnswers
  BY <1>3 DEF AccountAnswersTrue, VehicleAnswers
<1>8. ManagersOnly
  BY <1>1 DEF ManagersOnly
<1>9. SlotsOK
  BY <1>1, IdleOK DEF SlotsOK
<1> QED BY <1>4, <1>5, <1>6, <1>7, <1>8, <1>9 DEF IInv, AccountsInv

LEMMA AccountStepOK ==
    ASSUME AccountsAssumption, IInv, AccountStep
    PROVE  IInv'
<1>1. AccountsNext /\ row' = row /\ call' = call
  BY DEF AccountStep, vehicleVars
<1>2. AccountsInv' /\ Grows
  BY <1>1, AccountsSafe DEF IInv
<1>3. VehiclesTypeOK' /\ PlatesUnique' /\ SlotsOK'
  BY <1>1 DEF IInv, VehiclesTypeOK, PlatesUnique, Stored, Exists, SlotsOK, SlotOK
<1>4. ManagersOnly'
  BY <1>1, <1>2 DEF IInv, ManagersOnly, Grows
<1>5. answer'.of \in {"nothing", "account", "email", "credentials"}
  BY <1>1, AccountsSpeakOfAccounts
<1>6. VehicleAnswers'
  BY <1>5 DEF VehicleAnswers
<1> QED BY <1>2, <1>3, <1>4, <1>6 DEF IInv

\* Steps that leave the tables as they are.
LEMMA RowKept ==
    ASSUME IInv, UNCHANGED <<accountVars, row>>, Truthful', call' \in [Req -> CallRec],
           \A r \in Req : SlotOK(call'[r], row)
    PROVE  IInv'
<1>1. row' = row /\ account' = account
  BY DEF accountVars
<1>2. AccountsInv'
  BY AnswersAlone DEF IInv, Truthful
<1>3. VehiclesTypeOK' /\ PlatesUnique'
  BY <1>1 DEF IInv, VehiclesTypeOK, PlatesUnique, Stored, Exists
<1>4. ManagersOnly'
  BY <1>1 DEF IInv, ManagersOnly, Registered
<1>5. SlotsOK'
  BY <1>1 DEF SlotsOK, SlotOK, Exists
<1> QED BY <1>2, <1>3, <1>4, <1>5 DEF IInv, Truthful

\* Those that change at most r's slot.
LEMMA SlotChanged ==
    ASSUME IInv, UNCHANGED <<accountVars, row>>, Truthful', NEW r \in Req, NEW c \in CallRec,
           SlotOK(c, row), call' = [call EXCEPT ![r] = c]
    PROVE  IInv'
<1>1. call' \in [Req -> CallRec]
  BY DEF IInv, VehiclesTypeOK
<1>2. \A q \in Req : call'[q] = IF q = r THEN c ELSE call[q]
  BY DEF IInv, VehiclesTypeOK
<1>3. \A q \in Req : SlotOK(call'[q], row)
  BY <1>2 DEF IInv, SlotsOK
<1> QED BY <1>1, <1>3, RowKept

LEMMA OnlyAnswered ==
    ASSUME IInv, UNCHANGED <<accountVars, vehicleVars>>, Truthful'
    PROVE  IInv'
<1>1. row' = row /\ call' = call
  BY DEF vehicleVars
<1>2. call' \in [Req -> CallRec] /\ \A r \in Req : SlotOK(call'[r], row)
  BY <1>1 DEF IInv, VehiclesTypeOK, SlotsOK
<1> QED BY <1>1, <1>2, RowKept

-----------------------------------------------------------------------------
(* Vehicles: the steps that leave the table as it is.                      *)

LEMMA DenyOK ==
    ASSUME IInv, NEW p \in Person, Deny(p)
    PROVE  IInv'
BY SilentIsTrue, OnlyAnswered DEF Deny

LEMMA GetOK ==
    ASSUME VehiclesAssumption, IInv, NEW v \in Vehicle, Get(v)
    PROVE  IInv'
<1>1. PICK got \in Gets(v) :
         answer' = IF got.error = "none" THEN Says(200, "vehicle", <<v, got.vehicle>>)
                   ELSE Missing(got.error, v)
  BY DEF Get
<1>2. UNCHANGED <<accountVars, vehicleVars>> /\ row' = row
  BY DEF Get, vehicleVars
<1>3. Truthful'
  <2>1. CASE got.error = "none"
    <3>1. answer' = Says(200, "vehicle", <<v, row[v]>>)
      BY <1>1, <2>1, GetsAnswer
    <3> QED BY <1>2, <3>1, ShownIsTrue
  <2>2. CASE got.error # "none"
    BY <1>1, <1>2, <2>2, GetsAnswer, MissingIsTrue
  <2> QED BY <2>1, <2>2
<1> QED BY <1>2, <1>3, OnlyAnswered

LEMMA ListOK ==
    ASSUME VehiclesAssumption, IInv, List
    PROVE  IInv'
<1>1. UNCHANGED <<accountVars, vehicleVars>> /\ row' = row
  BY DEF List, vehicleVars
<1>2. answer' = Silent \/ answer' = Says(200, "list", {row[v] : v \in Stored})
  BY ListAnswer DEF List
<1>3. Truthful'
  BY <1>1, <1>2, SilentIsTrue, ListIsTrue
<1> QED BY <1>1, <1>3, OnlyAnswered

LEMMA CreateRefusedOK ==
    ASSUME IInv, NEW v \in Vehicle, NEW p \in Plate, NEW d \in DriverId, CreateRefused(v, p, d)
    PROVE  IInv'
<1> DEFINE new == [plate |-> p, driver |-> d]
           done == Says(201, "vehicle", <<v, new>>)
<1>1. PICK a \in Refusals(new, v) \cup Garbled : answer' = WriteAnswer(a, done, p, v)
  BY DEF CreateRefused
<1>2. UNCHANGED <<accountVars, vehicleVars>> /\ row' = row
  BY DEF CreateRefused, vehicleVars
<1>3. new.plate = p
  OBVIOUS
<1> HIDE DEF new, done
<1>4. \/ answer' = Silent
      \/ answer' = Says(409, "plate", <<p, v>>) /\ ~PlateFree(p, v)
  BY <1>1, <1>3, RefusalAnswer
<1>5. Truthful'
  BY <1>2, <1>4, SilentIsTrue, TakenIsTrue
<1> QED BY <1>2, <1>5, OnlyAnswered

LEMMA PatchLoadOK ==
    ASSUME VehiclesAssumption, IInv,
           NEW r \in Req, NEW v \in Vehicle, NEW patch \in Patch, PatchLoad(r, v, patch)
    PROVE  IInv'
<1>1. PICK got \in Gets(v) :
         IF got.error = "none"
         THEN /\ call' = [call EXCEPT ![r] =
                            [pc |-> "loaded", v |-> v, patch |-> patch, alone |-> TRUE,
                             merged |-> Merge(got.vehicle, patch)]]
              /\ answer' = Silent
         ELSE answer' = Missing(got.error, v) /\ UNCHANGED call
  BY DEF PatchLoad
<1>2. UNCHANGED <<accountVars, row>>
  BY DEF PatchLoad
<1>3. CASE got.error = "none"
  <2> DEFINE merged == Merge(row[v], patch)
             c == [pc |-> "loaded", v |-> v, patch |-> patch, alone |-> TRUE, merged |-> merged]
  <2>1. row[v] \in Row
    BY <1>3, GetsAnswer DEF Exists
  <2>2. merged \in Row
    BY <2>1 DEF Merge, Row, Patch
  <2>3. merged = Merge(row[v], patch)
    OBVIOUS
  <2>4. call' = [call EXCEPT ![r] = c] /\ answer' = Silent
    BY <1>1, <1>3, GetsAnswer
  <2> HIDE DEF merged
  <2>5. c \in CallRec
    BY <2>2 DEF CallRec
  <2>6. SlotOK(c, row)
    BY <2>1, <2>2, <2>3 DEF SlotOK, Exists, VehiclesAssumption
  <2> HIDE DEF c
  <2> QED BY <1>2, <2>4, <2>5, <2>6, SilentIsTrue, SlotChanged
<1>4. CASE got.error # "none"
  <2>1. Truthful'
    BY <1>1, <1>2, <1>4, GetsAnswer, MissingIsTrue
  <2>2. UNCHANGED <<accountVars, vehicleVars>>
    BY <1>1, <1>2, <1>4 DEF vehicleVars
  <2> QED BY <2>1, <2>2, OnlyAnswered
<1> QED BY <1>3, <1>4

\* A probe that finds its row sends the request on.
LEMMA ProbeOK ==
    ASSUME IInv, NEW r \in Req, NEW v \in Vehicle, NEW next \in CallRec,
           Probe(r, v, [call EXCEPT ![r] = next]), UNCHANGED <<accountVars, row>>,
           Exists(v) => SlotOK(next, row)
    PROVE  IInv'
<1> DEFINE onward == [call EXCEPT ![r] = next]
<1>1. onward = [call EXCEPT ![r] = next]
  OBVIOUS
<1> HIDE DEF onward
<1>2. \/ call' = onward /\ answer' = Silent /\ Exists(v)
      \/ /\ call' = [call EXCEPT ![r] = Idle]
         /\ \E error : answer' = Missing(error, v) /\ (error = "not found" => ~Exists(v))
  BY <1>1, ProbeAnswer
<1>3. CASE call' = onward /\ answer' = Silent /\ Exists(v)
  BY <1>1, <1>3, SilentIsTrue, SlotChanged
<1>4. CASE /\ call' = [call EXCEPT ![r] = Idle]
           /\ \E error : answer' = Missing(error, v) /\ (error = "not found" => ~Exists(v))
  <2>1. Truthful'
    BY <1>4, MissingIsTrue
  <2> QED BY <1>4, <2>1, IdleOK, SlotChanged
<1> QED BY <1>2, <1>3, <1>4

LEMMA AfterProbe ==
    ASSUME NEW c \in CallRec
    PROVE  [c EXCEPT !.pc = "probed"] =
             [pc |-> "probed", v |-> c.v, patch |-> c.patch, merged |-> c.merged,
              alone |-> c.alone]
BY DEF CallRec

LEMMA PatchProbeOK ==
    ASSUME IInv, NEW r \in Req, PatchProbe(r)
    PROVE  IInv'
<1> DEFINE c == call[r]
           next == [pc |-> "probed", v |-> c.v, patch |-> c.patch, merged |-> c.merged,
                    alone |-> c.alone]
<1>1. c \in CallRec /\ c.pc = "loaded" /\ SlotOK(c, row)
  BY DEF PatchProbe, IInv, VehiclesTypeOK, SlotsOK
<1>2. [call EXCEPT ![r].pc = "probed"] = [call EXCEPT ![r] = next]
  <2>1. [c EXCEPT !.pc = "probed"] = next
    BY <1>1, AfterProbe
  <2>2. [call EXCEPT ![r].pc = "probed"] = [call EXCEPT ![r] = [c EXCEPT !.pc = "probed"]]
    OBVIOUS
  <2> QED BY <2>1, <2>2
<1>3. Probe(r, c.v, [call EXCEPT ![r].pc = "probed"])
  BY DEF PatchProbe
<1>4. Probe(r, c.v, [call EXCEPT ![r] = next]) /\ UNCHANGED <<accountVars, row>>
  BY <1>2, <1>3 DEF PatchProbe
<1> HIDE DEF c
<1>5. next \in CallRec
  BY <1>1 DEF CallRec
<1>6. SlotOK(next, row) /\ c.v \in Vehicle
  BY <1>1 DEF SlotOK
<1> HIDE DEF next
<1> QED BY <1>4, <1>5, <1>6, ProbeOK

LEMMA DeleteProbeOK ==
    ASSUME VehiclesAssumption, IInv, NEW r \in Req, NEW v \in Vehicle, DeleteProbe(r, v)
    PROVE  IInv'
<1> DEFINE next == [pc |-> "deleting", v |-> v, patch |-> Everything, merged |-> Unborn,
                    alone |-> TRUE]
<1>1. Probe(r, v, [call EXCEPT ![r] = next]) /\ UNCHANGED <<accountVars, row>>
  BY DEF DeleteProbe
<1>2. next \in CallRec
  BY DEF CallRec, Patch, Everything
<1>3. Exists(v) => SlotOK(next, row)
  BY DEF SlotOK, Exists, VehiclesAssumption
<1> HIDE DEF next
<1> QED BY <1>1, <1>2, <1>3, ProbeOK

LEMMA DropOK ==
    ASSUME IInv, NEW r \in Req, Drop(r), UNCHANGED accountVars, Truthful'
    PROVE  IInv'
BY IdleOK, SlotChanged DEF Drop

LEMMA PatchRefusedOK ==
    ASSUME IInv, NEW r \in Req, PatchRefused(r)
    PROVE  IInv'
<1> DEFINE v == call[r].v
           merged == call[r].merged
           done == Says(200, "patched", <<v, merged>>)
<1>1. PICK a \in Refusals(merged, v) : answer' = WriteAnswer(a, done, merged.plate, v)
  BY DEF PatchRefused, PatchAnswers
<1>2. Drop(r) /\ UNCHANGED accountVars /\ row' = row
  BY DEF PatchRefused, Drop
<1> HIDE DEF v, merged, done
<1>3. \/ answer' = Silent
      \/ answer' = Says(409, "plate", <<merged.plate, v>>) /\ ~PlateFree(merged.plate, v)
  BY <1>1, RefusalAnswer
<1>4. Truthful'
  BY <1>2, <1>3, SilentIsTrue, TakenIsTrue
<1> QED BY <1>2, <1>4, DropOK

\* An UPDATE that ran is answered 200 with what it wrote, or should have.
LEMMA PatchAnswer ==
    ASSUME NEW r \in Req, NEW x \in PatchAnswers(r, Ran(<<>>) \cup Garbled)
    PROVE  x = Says(200, "patched", <<call[r].v, call[r].merged>>) \/ x = Silent
<1> DEFINE v == call[r].v
           plate == call[r].merged.plate
           done == Says(200, "patched", <<v, call[r].merged>>)
<1>1. PICK a \in Ran(<<>>) \cup Garbled : x = WriteAnswer(a, done, plate, v)
  BY DEF PatchAnswers
<1> HIDE DEF done, plate, v
<1>2. x = done \/ x = Silent
  <2>1. CASE a \in Ran(<<>>)
    BY <1>1, <2>1, RanAnswer DEF WriteAnswer, Exec
  <2>2. CASE a \in Garbled
    BY <1>1, <2>2, GarbledAnswer DEF WriteAnswer, Exec, Violates
  <2> QED BY <1>1, <2>1, <2>2
<1> QED BY <1>2 DEF done, v

LEMMA MissedOK ==
    ASSUME IInv, NEW r \in Req, PatchWriteMissing(r) \/ CallFails(r)
    PROVE  IInv'
<1>1. CASE CallFails(r)
  BY <1>1, SilentIsTrue, DropOK DEF CallFails
<1>2. CASE PatchWriteMissing(r)
  <2> DEFINE v == call[r].v
             merged == call[r].merged
  <2>1. /\ call[r].pc = "probed" /\ ~Exists(v) /\ Drop(r) /\ UNCHANGED accountVars
        /\ answer' = Says(200, "patched", <<v, merged>>) \/ answer' = Silent
    BY <1>2, PatchAnswer DEF PatchWriteMissing
  <2>2. v \in Vehicle /\ row[v] # Unborn
    BY <2>1 DEF IInv, SlotsOK, SlotOK
  <2>3. row'[v] = Gone
    BY <2>1, <2>2 DEF IInv, VehiclesTypeOK, Exists, Drop
  <2> HIDE DEF v, merged
  <2>4. Truthful'
    BY <2>1, <2>3, SilentIsTrue, PatchedIsTrue
  <2> QED BY <2>1, <2>4, DropOK
<1> QED BY <1>1, <1>2

-----------------------------------------------------------------------------
(* Vehicles: the steps that change a row.                                  *)

LEMMA Unraced ==
    ASSUME NEW c \in CallRec, NEW d, d = [c EXCEPT !.alone = FALSE]
    PROVE  /\ d.pc = c.pc /\ d.v = c.v /\ d.patch = c.patch /\ d.merged = c.merged
           /\ d \in CallRec /\ ~d.alone
<1>1. d.pc = c.pc /\ d.v = c.v /\ d.patch = c.patch /\ d.merged = c.merged
  BY DEF CallRec
<1>2. d \in CallRec
  BY DEF CallRec
<1>3. ~d.alone
  BY DEF CallRec
<1> QED BY <1>1, <1>2, <1>3

LEMMA AnsweredOK ==
    ASSUME VehiclesAssumption, IInv, NEW r \in Req, NEW v \in Vehicle, NEW x,
           x # Unborn, row' = [row EXCEPT ![v] = x], call' = Answered(r, v)
    PROVE  call' \in [Req -> CallRec] /\ SlotsOK'
<1>1. row'[v] = x /\ \A u \in Vehicle : u # v => row'[u] = row[u]
  BY DEF IInv, VehiclesTypeOK
<1>2. ASSUME NEW q \in Req PROVE call'[q] \in CallRec /\ SlotOK(call'[q], row')
  <2>1. call[q] \in CallRec /\ SlotOK(call[q], row)
    BY DEF IInv, VehiclesTypeOK, SlotsOK
  <2>2. CASE q = r
    <3>1. call'[q] = Idle
      BY <2>2 DEF Answered
    <3>2. Idle \in CallRec /\ Idle.pc = "idle"
      BY IdleOK
    <3> QED BY <3>1, <3>2 DEF SlotOK
  <2>3. CASE q # r /\ call[q].v = v
    <3> DEFINE c == call[q]
               d == call'[q]
    <3>1. d = [c EXCEPT !.alone = FALSE]
      BY <2>3 DEF Answered
    <3>2. c \in CallRec /\ SlotOK(c, row) /\ c.v = v
      BY <2>1, <2>3
    <3> HIDE DEF c, d
    <3>3. /\ d.pc = c.pc /\ d.v = c.v /\ d.merged = c.merged
          /\ d \in CallRec /\ ~d.alone
      BY <3>1, <3>2, Unraced
    <3>4. SlotOK(d, row')
      BY <1>1, <3>2, <3>3 DEF SlotOK
    <3> QED BY <3>3, <3>4 DEF d
  <2>4. CASE q # r /\ call[q].v # v
    <3> DEFINE c == call[q]
    <3>1. call'[q] = c
      BY <2>4 DEF Answered
    <3>2. c \in CallRec /\ SlotOK(c, row) /\ c.v # v
      BY <2>1, <2>4
    <3> HIDE DEF c
    <3>3. CASE c.pc = "idle"
      BY <3>1, <3>2, <3>3 DEF SlotOK
    <3>4. CASE c.pc # "idle"
      <4>1. row'[c.v] = row[c.v]
        BY <1>1, <3>2, <3>4 DEF SlotOK
      <4> QED BY <3>1, <3>2, <4>1 DEF SlotOK, Exists
    <3> QED BY <3>3, <3>4
  <2> QED BY <2>2, <2>3, <2>4
<1>3. call' = [q \in Req |-> call'[q]]
  BY DEF Answered
<1> QED BY <1>2, <1>3 DEF SlotsOK

\* A row with a plate that nobody else has.
LEMMA PlatesKept ==
    ASSUME IInv, NEW v \in Vehicle, NEW x \in Row, PlateFree(x.plate, v),
           row' = [row EXCEPT ![v] = x]
    PROVE  PlatesUnique'
<1>1. row'[v] = x /\ \A u \in Vehicle : u # v => row'[u] = row[u]
  BY DEF IInv, VehiclesTypeOK
<1>2. ASSUME NEW u \in Stored', u # v PROVE u \in Stored \ {v} /\ row'[u] = row[u]
  <2>1. u \in Vehicle /\ row'[u] \in Row
    BY DEF Stored, Exists
  <2>2. row'[u] = row[u]
    BY <1>1, <1>2, <2>1
  <2> QED BY <1>2, <2>1, <2>2 DEF Stored, Exists
<1>3. ASSUME NEW u \in Stored', NEW w \in Stored', u # w
      PROVE  row'[u].plate # row'[w].plate
  <2>1. CASE u = v
    BY <1>1, <1>2, <1>3, <2>1 DEF PlateFree
  <2>2. CASE w = v
    BY <1>1, <1>2, <1>3, <2>2 DEF PlateFree
  <2>3. CASE u # v /\ w # v
    BY <1>2, <1>3, <2>3 DEF IInv, PlatesUnique
  <2> QED BY <2>1, <2>2, <2>3
<1> QED BY <1>3 DEF PlatesUnique

LEMMA CreateOK ==
    ASSUME VehiclesAssumption, IInv, NEW v \in Vehicle, NEW p \in Plate, NEW d \in DriverId,
           Create(v, p, d)
    PROVE  IInv'
<1> DEFINE new == [plate |-> p, driver |-> d]
           done == Says(201, "vehicle", <<v, new>>)
<1>1. PICK a \in Ran(<<>>) \cup Garbled : answer' = WriteAnswer(a, done, p, v)
  BY DEF Create
<1>2. /\ SomeManager /\ row[v] = Unborn /\ PlateFree(p, v)
      /\ row' = [row EXCEPT ![v] = new] /\ UNCHANGED accountVars /\ call' = call
  BY DEF Create
<1>3. new \in Row /\ new.plate = p
  BY DEF Row
<1> HIDE DEF new
<1>4. row'[v] = new /\ \A u \in Vehicle : u # v => row'[u] = row[u]
  BY <1>2 DEF IInv, VehiclesTypeOK
<1>5. answer' = done \/ answer' = Silent
  <2>1. CASE a \in Ran(<<>>)
    BY <1>1, <2>1, RanAnswer DEF WriteAnswer, Exec
  <2>2. CASE a \in Garbled
    BY <1>1, <2>2, GarbledAnswer DEF WriteAnswer, Exec, Violates
  <2> QED BY <1>1, <2>1, <2>2
<1>6. Truthful'
  <2>1. CASE answer' = done
    BY <1>4, <2>1, ShownIsTrue
  <2>2. CASE answer' = Silent
    BY <2>2, SilentIsTrue
  <2> QED BY <1>5, <2>1, <2>2
<1>7. AccountsInv' /\ Grows
  BY <1>2, <1>6, AnswersAlone DEF IInv, Truthful
<1>8. VehiclesTypeOK'
  BY <1>2, <1>3 DEF IInv, VehiclesTypeOK
<1>9. PlatesUnique'
  BY <1>2, <1>3, PlatesKept
<1>10. ManagersOnly'
  <2>1. PICK m \in Person : session[m] # NoSession /\ session[m].role = "manager"
    BY <1>2 DEF SomeManager, Manager
  <2>2. PICK e \in Registered : session[m] = [sub |-> e, role |-> account[e].role]
    BY <2>1 DEF IInv, AccountsInv, SessionsTrue
  <2>3. account[e].role = "manager"
    BY <2>1, <2>2
  <2>4. e \in Registered' /\ account'[e].role = "manager"
    BY <1>7, <2>3 DEF Grows
  <2> QED BY <2>4 DEF ManagersOnly
<1>11. SlotsOK'
  <2>1. ASSUME NEW r \in Req PROVE SlotOK(call'[r], row')
    <3> DEFINE c == call[r]
    <3>1. call'[r] = c /\ SlotOK(c, row)
      BY <1>2 DEF IInv, SlotsOK
    <3> HIDE DEF c
    <3>2. CASE c.pc = "idle"
      BY <3>1, <3>2 DEF SlotOK
    <3>3. CASE c.pc # "idle"
      <4>1. row'[c.v] = row[c.v]
        BY <1>2, <1>4, <3>1, <3>3 DEF SlotOK
      <4> QED BY <3>1, <4>1 DEF SlotOK, Exists
    <3> QED BY <3>2, <3>3
  <2> QED BY <2>1 DEF SlotsOK
<1> QED BY <1>6, <1>7, <1>8, <1>9, <1>10, <1>11 DEF IInv, Truthful

\* Someone who manages already let v in.
LEMMA StillManaged ==
    ASSUME IInv, NEW v \in Vehicle, row[v] # Unborn, Grows
    PROVE  ManagersOnly'
BY DEF IInv, ManagersOnly, Grows

LEMMA PatchWriteOK ==
    ASSUME VehiclesAssumption, IInv, NEW r \in Req, PatchWrite(r)
    PROVE  IInv'
<1> DEFINE v == call[r].v
           merged == call[r].merged
<1>1. /\ call[r].pc = "probed" /\ PlateFree(merged.plate, v)
      /\ row' = [row EXCEPT ![v] = merged] /\ call' = Answered(r, v)
      /\ answer' = Says(200, "patched", <<v, merged>>) \/ answer' = Silent
      /\ UNCHANGED accountVars
  BY PatchAnswer DEF PatchWrite
<1>2. SlotOK(call[r], row)
  BY DEF IInv, SlotsOK
<1>3. v \in Vehicle /\ row[v] # Unborn /\ merged \in Row
  BY <1>1, <1>2 DEF SlotOK
<1> HIDE DEF v, merged
<1>4. merged # Unborn
  BY <1>3 DEF VehiclesAssumption
<1>5. Truthful'
  <2>1. row'[v] = merged
    BY <1>1, <1>3 DEF IInv, VehiclesTypeOK
  <2> QED BY <1>1, <2>1, SilentIsTrue, PatchedIsTrue
<1>6. AccountsInv' /\ Grows
  BY <1>1, <1>5, AnswersAlone DEF IInv, Truthful
<1>7. call' \in [Req -> CallRec] /\ SlotsOK'
  BY <1>1, <1>3, <1>4, AnsweredOK
<1>8. VehiclesTypeOK'
  BY <1>1, <1>3, <1>7 DEF IInv, VehiclesTypeOK
<1>9. PlatesUnique'
  BY <1>1, <1>3, PlatesKept
<1>10. ManagersOnly'
  BY <1>3, <1>6, StillManaged
<1> QED BY <1>5, <1>6, <1>7, <1>8, <1>9, <1>10 DEF IInv, Truthful

LEMMA DeleteWriteOK ==
    ASSUME VehiclesAssumption, IInv, NEW r \in Req, DeleteWrite(r)
    PROVE  IInv'
<1> DEFINE v == call[r].v
<1>1. /\ call[r].pc = "deleting" /\ row' = [row EXCEPT ![v] = Gone] /\ call' = Answered(r, v)
      /\ answer' = Says(204, "vehicle", v) \/ answer' = Silent
      /\ UNCHANGED accountVars
  BY DEF DeleteWrite
<1>2. SlotOK(call[r], row)
  BY DEF IInv, SlotsOK
<1>3. v \in Vehicle /\ row[v] # Unborn
  BY <1>1, <1>2 DEF SlotOK
<1> HIDE DEF v
<1>4. Gone # Unborn /\ Gone \notin Row
  BY DEF VehiclesAssumption
<1>5. Truthful'
  <2>1. row'[v] \notin Row
    BY <1>1, <1>3, <1>4 DEF IInv, VehiclesTypeOK
  <2> QED BY <1>1, <2>1, SilentIsTrue, AbsentIsTrue
<1>6. AccountsInv' /\ Grows
  BY <1>1, <1>5, AnswersAlone DEF IInv, Truthful
<1>7. call' \in [Req -> CallRec] /\ SlotsOK'
  BY <1>1, <1>3, <1>4, AnsweredOK
<1>8. VehiclesTypeOK'
  BY <1>1, <1>3, <1>7 DEF IInv, VehiclesTypeOK
<1>9. \A u \in Stored' : u \in Stored /\ row'[u] = row[u]
  BY <1>1, <1>3, <1>4 DEF IInv, VehiclesTypeOK, Stored, Exists
<1>10. PlatesUnique'
  BY <1>9 DEF IInv, PlatesUnique
<1>11. ManagersOnly'
  BY <1>3, <1>6, StillManaged
<1> QED BY <1>5, <1>6, <1>7, <1>8, <1>10, <1>11 DEF IInv, Truthful

-----------------------------------------------------------------------------
LEMMA NextOK ==
    ASSUME AccountsAssumption, VehiclesAssumption, IInv, [Next]_vars
    PROVE  IInv'
<1>1. CASE AccountStep
  BY <1>1, AccountStepOK
<1>2. CASE List
  BY <1>2, ListOK
<1>3. ASSUME NEW p \in Person, Deny(p) PROVE IInv'
  BY <1>3, DenyOK
<1>4. ASSUME NEW v \in Vehicle, Get(v) PROVE IInv'
  BY <1>4, GetOK
<1>5. ASSUME NEW v \in Vehicle, NEW p \in Plate, NEW d \in DriverId,
             Create(v, p, d) \/ CreateRefused(v, p, d)
      PROVE  IInv'
  BY <1>5, CreateOK, CreateRefusedOK
<1>6. ASSUME NEW r \in Req, NEW v \in Vehicle, NEW patch \in Patch, PatchLoad(r, v, patch)
      PROVE  IInv'
  BY <1>6, PatchLoadOK
<1>7. ASSUME NEW r \in Req, NEW v \in Vehicle, DeleteProbe(r, v) PROVE IInv'
  BY <1>7, DeleteProbeOK
<1>8. ASSUME NEW r \in Req, CallStep(r) PROVE IInv'
  BY <1>8, PatchProbeOK, PatchWriteOK, MissedOK, PatchRefusedOK, DeleteWriteOK DEF CallStep
<1>9. CASE UNCHANGED vars
  <2>1. account' = account /\ session' = session /\ row' = row /\ call' = call /\ answer' = answer
    BY <1>9 DEF vars, accountVars, vehicleVars
  <2>2. Registered' = Registered /\ Stored' = Stored
    BY <2>1 DEF Registered, Stored, Exists
  <2>3. AccountsInv'
    <3>1. UNCHANGED accountVars
      BY <2>1 DEF accountVars
    <3>2. AccountAnswersTrue'
      BY <2>1, <2>2 DEF IInv, AccountsInv, AccountAnswersTrue, EmailFree
    <3> QED BY <3>1, <3>2, AnswersTold DEF IInv
  <2>4. VehiclesTypeOK' /\ PlatesUnique' /\ ManagersOnly'
    BY <2>1, <2>2 DEF IInv, VehiclesTypeOK, PlatesUnique, ManagersOnly
  <2>5. VehicleAnswers'
    BY <2>1, <2>2 DEF IInv, VehicleAnswers, GhostPatch, Exists, PlateFree
  <2>6. SlotsOK'
    BY <2>1 DEF IInv, SlotsOK, SlotOK, Exists
  <2> QED BY <2>3, <2>4, <2>5, <2>6 DEF IInv
<1> QED BY <1>1, <1>2, <1>3, <1>4, <1>5, <1>6, <1>7, <1>8, <1>9 DEF Next

\* The inductive invariant holds of every behaviour.
THEOREM VehiclesInvariant == Spec => []IInv
<1>1. Init => IInv
  BY InitOK, AccountsAssumption, VehiclesAssumption
<1>2. IInv /\ [Next]_vars => IInv'
  BY NextOK, AccountsAssumption, VehiclesAssumption
<1> QED BY <1>1, <1>2, PTL DEF Spec

\* The tables and the requests in flight keep their shape, whatever D1 answers.
THEOREM VehiclesTypeCorrect == Spec => []TypeOK
<1>1. IInv => TypeOK
  BY DEF IInv, AccountsInv, VehiclesTypeOK, TypeOK, CallRec
<1> QED BY <1>1, VehiclesInvariant, PTL

\* One address has one account, in whatever case each was typed (driver_repo's
\* Create lowers it, the schema's UNIQUE compares bytes).
THEOREM AddressesAreUnique == Spec => []EmailsUnique
<1>1. IInv => EmailsUnique
  BY DEF IInv, AccountsInv
<1> QED BY <1>1, VehiclesInvariant, PTL

\* A session speaks for the account whose password opened it, after a row has
\* crossed JSON and a scan by position.
THEOREM SessionsAreTrue == Spec => []SessionsTrue
<1>1. IInv => SessionsTrue
  BY DEF IInv, AccountsInv
<1> QED BY <1>1, VehiclesInvariant, PTL

\* No interleaving of creations, patches and deletions duplicates a plate.
THEOREM PlatesAreUnique == Spec => []PlatesUnique
<1>1. IInv => PlatesUnique
  BY DEF IInv
<1> QED BY <1>1, VehiclesInvariant, PTL

\* Vehicles come from managers only (denyIfNotManager on the token's role).
THEOREM VehiclesAreManaged == Spec => []ManagersOnly
<1>1. IInv => ManagersOnly
  BY DEF IInv
<1> QED BY <1>1, VehiclesInvariant, PTL

\* The answers of /api/auth and /api/vehicles are true when they are given, for
\* all that D1's own may be lost or nonsense, but for one: the 200 of a PATCH
\* whose row was deleted between its probe and its UPDATE (GhostPatch).
THEOREM AnswersAreTrue == Spec => []AnswersTrue
<1>1. IInv => AnswersTrue
  BY DEF IInv, AccountsInv, VehicleAnswers, AnswersTrue
<1> QED BY <1>1, VehiclesInvariant, PTL

-----------------------------------------------------------------------------
(* Steps.                                                                  *)

\* Which step answers a PATCH and changes a row: its own UPDATE.
LEMMA OwnWrite ==
    ASSUME IInv, Next, NEW r \in Req, call[r].pc = "probed", row' # row, call'[r].pc = "idle"
    PROVE  PatchWrite(r)
<1>1. ASSUME NEW q \in Req, NEW v, q # r, call' = Answered(q, v) PROVE FALSE
  <2>1. call[r] \in CallRec
    BY DEF IInv, VehiclesTypeOK
  <2>2. call'[r] = call[r] \/ call'[r] = [call[r] EXCEPT !.alone = FALSE]
    BY <1>1 DEF Answered
  <2>3. call'[r].pc = "probed"
    BY <2>1, <2>2, Unraced
  <2> QED BY <2>3
<1>2. ~AccountStep /\ ~List
  BY DEF AccountStep, List, vehicleVars
<1>3. /\ \A p \in Person : ~Deny(p)
      /\ \A v \in Vehicle : ~Get(v)
      /\ \A v \in Vehicle, p \in Plate, d \in DriverId : ~CreateRefused(v, p, d)
      /\ \A q \in Req, v \in Vehicle, patch \in Patch : ~PatchLoad(q, v, patch)
      /\ \A q \in Req, v \in Vehicle : ~DeleteProbe(q, v)
  BY DEF Deny, Get, CreateRefused, PatchLoad, DeleteProbe, vehicleVars
<1>4. \A v \in Vehicle, p \in Plate, d \in DriverId : ~Create(v, p, d)
  BY DEF Create
<1>5. PICK q \in Req : CallStep(q)
  BY <1>2, <1>3, <1>4 DEF Next
<1>6. ~PatchProbe(q) /\ ~PatchWriteMissing(q) /\ ~PatchRefused(q) /\ ~CallFails(q)
  BY DEF PatchProbe, PatchWriteMissing, PatchRefused, CallFails, Drop
<1>7. PatchWrite(q) \/ DeleteWrite(q)
  BY <1>5, <1>6 DEF CallStep
<1>8. q = r
  BY <1>1, <1>7 DEF PatchWrite, DeleteWrite
<1>9. ~DeleteWrite(r)
  BY DEF DeleteWrite
<1> QED BY <1>7, <1>8, <1>9

\* A PATCH that nobody raced changes the fields it names, to what it names, and
\* no other (Update writes the whole row that Get read).
THEOREM LonePatchesAreExact == Spec => LonePatchIsExact
<1>1. IInv /\ [Next]_vars =>
         [\A r \in Req :
             LET v == call[r].v IN
             call[r].pc = "probed" /\ call[r].alone /\ row' # row /\ call'[r].pc = "idle"
             => \A f \in {"plate", "driver"} :
                   row'[v][f] = IF call[r].patch[f] = Keep THEN row[v][f]
                                ELSE call[r].patch[f]]_vars
  <2> SUFFICES ASSUME IInv, [Next]_vars, NEW r \in Req,
                      call[r].pc = "probed", call[r].alone, row' # row, call'[r].pc = "idle",
                      NEW f \in {"plate", "driver"}
               PROVE  row'[call[r].v][f] = IF call[r].patch[f] = Keep THEN row[call[r].v][f]
                                           ELSE call[r].patch[f]
    OBVIOUS
  <2>1. Next
    BY DEF vars, vehicleVars
  <2>2. row' = [row EXCEPT ![call[r].v] = call[r].merged]
    BY <2>1, OwnWrite DEF PatchWrite
  <2>3. SlotOK(call[r], row)
    BY DEF IInv, SlotsOK
  <2>4. call[r].v \in Vehicle /\ call[r].merged = Merge(row[call[r].v], call[r].patch)
    BY <2>3 DEF SlotOK
  <2>5. row'[call[r].v] = Merge(row[call[r].v], call[r].patch)
    BY <2>2, <2>4 DEF IInv, VehiclesTypeOK
  <2> QED BY <2>5 DEF Merge
<1> QED BY <1>1, VehiclesInvariant, PTL DEF Spec, LonePatchIsExact

LEMMA Reassigned ==
    ASSUME IInv, NEW v \in Vehicle, NEW new \in Row, Exists(v), row' = [row EXCEPT ![v] = new]
    PROVE  Table!TableNext
<1> DEFINE driverOf == [u \in Vehicle |-> IF Exists(u) THEN row[u].driver ELSE row[u]]
<1>1. new.driver \in DriverId /\ driverOf[v] \in DriverId
  BY DEF Row, Exists
<1>2. driverOf' = [driverOf EXCEPT ![v] = new.driver]
  BY DEF Exists, IInv, VehiclesTypeOK
<1>3. Table!Reassign(v, new.driver)
  BY <1>1, <1>2 DEF Table!Reassign, Table!Exists, Table!DriverId, DriverId
<1> QED BY <1>1, <1>3 DEF Table!TableNext, Table!DriverId, DriverId

LEMMA Dropped ==
    ASSUME VehiclesAssumption, IInv, NEW v \in Vehicle, Exists(v), row' = [row EXCEPT ![v] = Gone]
    PROVE  Table!TableNext
<1> DEFINE driverOf == [u \in Vehicle |-> IF Exists(u) THEN row[u].driver ELSE row[u]]
<1>1. driverOf[v] \in DriverId
  BY DEF Row, Exists
<1>2. driverOf' = [driverOf EXCEPT ![v] = Gone]
  BY DEF Exists, IInv, VehiclesTypeOK, VehiclesAssumption
<1>3. Table!Drop(v)
  BY <1>1, <1>2 DEF Table!Drop, Table!Exists, Table!DriverId, DriverId
<1> QED BY <1>3 DEF Table!TableNext

LEMMA TableStep ==
    ASSUME VehiclesAssumption, IInv, [Next]_vars
    PROVE  [Table!TableNext]_([v \in Vehicle |-> IF Exists(v) THEN row[v].driver ELSE row[v]])
<1> DEFINE driverOf == [v \in Vehicle |-> IF Exists(v) THEN row[v].driver ELSE row[v]]
<1>1. CASE row' = row
  <2>1. driverOf' = driverOf
    BY <1>1 DEF Exists
  <2> QED BY <2>1
<1>2. ASSUME NEW v \in Vehicle, NEW p \in Plate, NEW d \in DriverId, Create(v, p, d)
      PROVE  Table!TableNext
  <2> DEFINE new == [plate |-> p, driver |-> d]
  <2>1. row[v] = Unborn /\ row' = [row EXCEPT ![v] = new]
    BY <1>2 DEF Create
  <2>2. new \in Row /\ new.driver = d
    BY DEF Row
  <2> HIDE DEF new
  <2>3. driverOf[v] = Unborn
    BY <2>1 DEF Exists, VehiclesAssumption
  <2>4. driverOf' = [driverOf EXCEPT ![v] = d]
    BY <2>1, <2>2 DEF Exists, IInv, VehiclesTypeOK
  <2>5. Table!Add(v, d)
    BY <2>3, <2>4 DEF Table!Add
  <2> QED BY <2>5 DEF Table!TableNext, Table!DriverId, DriverId
<1>3. ASSUME NEW r \in Req, PatchWrite(r) PROVE Table!TableNext
  <2>1. /\ call[r].pc = "probed" /\ Exists(call[r].v)
        /\ row' = [row EXCEPT ![call[r].v] = call[r].merged]
    BY <1>3 DEF PatchWrite
  <2>2. SlotOK(call[r], row)
    BY DEF IInv, SlotsOK
  <2>3. call[r].v \in Vehicle /\ call[r].merged \in Row
    BY <2>1, <2>2 DEF SlotOK
  <2> QED BY <2>1, <2>3, Reassigned
<1>4. ASSUME NEW r \in Req, DeleteWrite(r), row' # row PROVE Table!TableNext
  <2>1. call[r].pc = "deleting" /\ row' = [row EXCEPT ![call[r].v] = Gone]
    BY <1>4 DEF DeleteWrite
  <2>2. SlotOK(call[r], row)
    BY DEF IInv, SlotsOK
  <2>3. call[r].v \in Vehicle /\ row[call[r].v] # Unborn
    BY <2>1, <2>2 DEF SlotOK
  <2>4. row[call[r].v] # Gone
    BY <1>4, <2>1, <2>3 DEF IInv, VehiclesTypeOK
  <2>5. Exists(call[r].v)
    BY <2>3, <2>4 DEF IInv, VehiclesTypeOK, Exists
  <2> QED BY <2>1, <2>3, <2>5, Dropped
<1>5. CASE Next /\ row' # row
  <2>1. ~AccountStep /\ ~List
    BY <1>5 DEF AccountStep, List, vehicleVars
  <2>2. /\ \A p \in Person : ~Deny(p)
        /\ \A v \in Vehicle : ~Get(v)
        /\ \A v \in Vehicle, p \in Plate, d \in DriverId : ~CreateRefused(v, p, d)
        /\ \A q \in Req, v \in Vehicle, patch \in Patch : ~PatchLoad(q, v, patch)
        /\ \A q \in Req, v \in Vehicle : ~DeleteProbe(q, v)
    BY <1>5 DEF Deny, Get, CreateRefused, PatchLoad, DeleteProbe, vehicleVars
  <2>3. \A q \in Req : CallStep(q) => PatchWrite(q) \/ DeleteWrite(q)
    BY <1>5 DEF CallStep, PatchProbe, PatchWriteMissing, PatchRefused, CallFails, Drop
  <2>4. Table!TableNext
    BY <1>2, <1>3, <1>4, <1>5, <2>1, <2>2, <2>3 DEF Next
  <2> QED BY <2>4
<1> QED BY <1>1, <1>5 DEF vars, vehicleVars

\* /api/vehicles over D1 keeps VehicleTable's promise: no vehicle is created
\* twice or comes back.
THEOREM VehiclesKeepTable == Spec => ImplementsVehicleTable
<1> DEFINE driverOf == [v \in Vehicle |-> IF Exists(v) THEN row[v].driver ELSE row[v]]
<1>1. Init => Table!TableInit
  BY VehiclesAssumption DEF Init, Exists, Table!TableInit, VehiclesAssumption
<1>2. IInv /\ [Next]_vars => [Table!TableNext]_driverOf
  BY TableStep, VehiclesAssumption
<1> QED BY <1>1, <1>2, VehiclesInvariant, PTL DEF Spec, ImplementsVehicleTable, Table!TableSpec
=============================================================================
