------------------------------ MODULE BootProofs ------------------------------
(***************************************************************************)
(* The container's life and its migrations, for any number of migrations,  *)
(* of statements in each, of requests, restarts and faults.                *)
(*                                                                         *)
(* Every step either ends the process, which leaves of the invariant only  *)
(* what it says of the database (DownKeeps), or goes on with the answer of *)
(* one D1 call: then an answer taken for success is the truth (OkMeansWhole)*)
(* and the loops know which rows there are.                                *)
(***************************************************************************)
EXTENDS Boot, WellFoundedInduction, TLAPS

-----------------------------------------------------------------------------
(* The operators.                                                          *)

LEMMA FirstIsLeast ==
    ASSUME NEW versions \in SUBSET Version, versions # {}
    PROVE  First(versions) \in versions /\ \A u \in versions : First(versions) <= u
<1> DEFINE Less == {p \in Nat \X Nat : p[1] < p[2]}
<1>1. IsWellFoundedOn(Less, Nat)
  BY NatLessThanWellFounded DEF OpToRel
<1>2. versions \subseteq Nat
  BY DEF Version
<1> HIDE DEF Less
<1>3. PICK v \in versions : \A u \in versions : ~(<<u, v>> \in Less)
  BY <1>1, <1>2, WFMin
<1>4. \A u \in versions : v <= u
  <2>1. \A u \in versions : ~(u < v)
    BY <1>2, <1>3 DEF Less
  <2> QED BY <1>2, <2>1
<1> QED BY <1>4 DEF First

\* An answer that the client takes for success tells of a body that was
\* carried out whole; one that tells of such a body is taken for success.
LEMMA OkMeansWhole ==
    ASSUME NEW results, NEW a \in Told(results)
    PROVE  DoQuery(a) = "ok" <=> Whole(results)
BY DEF Told, Reply, DoQuery, Whole

LEMMA GarbledFails ==
    ASSUME NEW a \in Garbled
    PROVE  DoQuery(a) # "ok" /\ DoQuery(a) # "no rows"
BY DEF Garbled, Reply, DoQuery

LEMMA RowAnswer ==
    ASSUME NEW rows, NEW a \in Told(Row(rows))
    PROVE  /\ DoQuery(a) = "ok"
           /\ a.results = Row(rows) \/ (a.results = <<>> /\ rows = <<>>)
<1> DEFINE results == Row(rows)
<1>1. Whole(results) /\ 1 \in DOMAIN results /\ results[1].rows = rows
  BY DEF Whole, Row
<1> HIDE DEF results
<1>2. a \in Told(results)
  BY DEF results
<1>3. a = Reply(200, TRUE, TRUE, results) \/ (a = Reply(200, TRUE, TRUE, <<>>) /\ rows = <<>>)
  BY <1>1, <1>2 DEF Told
<1>4. DoQuery(a) = "ok"
  BY <1>1, <1>2, OkMeansWhole
<1>5. a.results = results \/ (a.results = <<>> /\ rows = <<>>)
  BY <1>3 DEF Reply
<1> QED BY <1>4, <1>5 DEF results

LEMMA RowRows ==
    ASSUME NEW rows
    PROVE  Row(rows) # <<>> /\ Row(rows)[1].rows = rows
BY DEF Row

LEMMA OutcomeWhole ==
    ASSUME BootAssumption, NEW k \in 0..Statements, Whole(Outcome(k))
    PROVE  k = Statements
<1>0. Statements \in Nat
  BY DEF BootAssumption
<1> SUFFICES ASSUME k # Statements PROVE FALSE
  OBVIOUS
<1>1. k + 1 \in DOMAIN Outcome(k) /\ Outcome(k)[k + 1].success # TRUE
  <2> DEFINE n == IF k = Statements THEN k ELSE k + 1
  <2>1. n = k + 1 /\ k \in Int /\ k >= 0
    BY <1>0
  <2>2. Outcome(k) = [i \in 1..n |-> [success |-> i <= k, rows |-> <<>>]]
    BY DEF Outcome
  <2>3. k + 1 \in 1..n /\ ~(k + 1 <= k)
    BY <2>1
  <2> HIDE DEF n
  <2>4. Outcome(k)[k + 1] = [success |-> k + 1 <= k, rows |-> <<>>]
    BY <2>2, <2>3
  <2>5. Outcome(k)[k + 1].success = (k + 1 <= k)
    BY <2>4
  <2>6. k + 1 \in DOMAIN Outcome(k)
    BY <2>2, <2>3
  <2> QED BY <2>3, <2>5, <2>6
<1> QED BY <1>1 DEF Whole

LEMMA WholeOutcome ==
    ASSUME BootAssumption
    PROVE  Whole(Outcome(Statements))
<1>1. Outcome(Statements) = [i \in 1..Statements |-> [success |-> i <= Statements, rows |-> <<>>]]
  BY DEF Outcome
<1>2. \A i \in 1..Statements : i <= Statements
  BY DEF BootAssumption
<1>3. DOMAIN Outcome(Statements) = 1..Statements
  BY <1>1
<1>4. ASSUME NEW i \in 1..Statements PROVE Outcome(Statements)[i].success
  <2>1. Outcome(Statements)[i].success = (i <= Statements)
    BY <1>1
  <2> QED BY <1>2, <2>1
<1> QED BY <1>3, <1>4 DEF Whole

LEMMA BootConstants ==
    ASSUME BootAssumption
    PROVE  /\ Migrations \in Nat /\ Migrations > 0
           /\ Statements \in Nat /\ Statements > 0
           /\ Deadline \in Nat /\ Deadline > 0
           /\ Grace \in Nat /\ Grace >= Deadline
           /\ MaxFaults \in Nat
           /\ \A e \in Environments : e.dev \in BOOLEAN
BY DEF BootAssumption

-----------------------------------------------------------------------------
(* The inductive invariant.                                                *)

\* What the loops of Apply know of the database, and what follows them.
Migrating ==
    /\ pc = "check" =>
        todo # {} /\ todo \subseteq 1..image /\ seen = recorded \cap ((1..image) \ todo)
    /\ pc \in {"apply", "record"} => todo # {} /\ todo = (1..image) \ recorded
    /\ pc = "record" => created[First(todo)] = Statements
    /\ pc \in {"wire", "listening"} /\ ~env.dev => 1..image \subseteq recorded

\* A process that runs has its configuration, and routes that follow from it.
Configured ==
    /\ pc # "down" => ConfigLoads /\ ClientsBuilt
    /\ pc = "listening" /\ ~env.dev => routes = [photos |-> TRUE, publisher |-> "signed"]

\* Since the listener closed, every request still handled has aged as long.
Draining ==
    /\ pc # "draining" => drain = 0
    /\ pc = "draining" => \A r \in Handled : age[r] >= drain

IInv ==
    /\ TypeOK
    /\ RecordedMeansApplied
    /\ InOrder
    /\ Migrating
    /\ Configured
    /\ Draining
    /\ CutOnlyAtDeadline

\* The whole of it follows from its parts about the database when the process
\* ends.
LEMMA DownKeeps ==
    ASSUME TypeOK, CutOnlyAtDeadline, BootAssumption, Down,
           UNCHANGED <<env, image>>,
           created' \in [Version -> 0..Statements], tracking' \in BOOLEAN,
           recorded' \in SUBSET Version, cut' \subseteq {Deadline},
           faults' \in 0..MaxFaults,
           RecordedMeansApplied', InOrder'
    PROVE  IInv'
<1> USE BootConstants
<1>1. TypeOK'
  BY DEF TypeOK, Down, Nothing
<1>2. Migrating' /\ Configured' /\ Draining'
  BY DEF Migrating, Configured, Draining, Down
<1>3. CutOnlyAtDeadline'
  BY DEF CutOnlyAtDeadline
<1> QED BY <1>1, <1>2, <1>3 DEF IInv

LEMMA FaultTyped ==
    ASSUME BootAssumption, faults \in 0..MaxFaults, Fault \/ UNCHANGED faults
    PROVE  faults' \in 0..MaxFaults
BY BootConstants DEF Fault

LEMMA AnswersTyped ==
    ASSUME BootAssumption, faults \in 0..MaxFaults, NEW a, NEW results, Answers(a, results)
    PROVE  faults' \in 0..MaxFaults
BY FaultTyped DEF Answers

LEMMA InitIInv ==
    ASSUME BootAssumption, Init
    PROVE  IInv
<1> USE BootConstants
<1>1. TypeOK
  <2>1. 1 \in Version /\ 0 \in 0..Statements /\ 0 \in 0..Deadline
    BY DEF Version
  <2>2. 0 \in 0..Grace /\ 0 \in 0..MaxFaults
    OBVIOUS
  <2> QED BY <2>1, <2>2 DEF Init, TypeOK, Nothing
<1>2. RecordedMeansApplied /\ InOrder /\ CutOnlyAtDeadline
  BY DEF Init, RecordedMeansApplied, InOrder, CutOnlyAtDeadline
<1>3. Migrating /\ Configured /\ Draining
  BY DEF Init, Migrating, Configured, Draining
<1> QED BY <1>1, <1>2, <1>3 DEF IInv

-----------------------------------------------------------------------------
(* The migrator.                                                           *)

LEMMA EnsureTableKeeps ==
    ASSUME BootAssumption, IInv, EnsureTable
    PROVE  IInv'
<1> USE BootConstants
<1>1. PICK a \in Told(Row(<<>>)) \cup Garbled :
        /\ Answers(a, Row(<<>>))
        /\ IF Exec(a) = "ok" THEN Go("check", 1..image, {}) ELSE Down
  BY DEF EnsureTable
<1>2. /\ pc = "ensure" /\ tracking' = TRUE
      /\ UNCHANGED <<env, image, created, recorded, cut>>
  BY DEF EnsureTable
<1>3. faults' \in 0..MaxFaults
  BY <1>1, AnswersTyped DEF IInv, TypeOK
<1>4. RecordedMeansApplied' /\ InOrder'
  BY <1>2 DEF IInv, RecordedMeansApplied, InOrder
<1>5. CASE Down
  BY <1>2, <1>3, <1>4, <1>5, DownKeeps DEF IInv, TypeOK, CutOnlyAtDeadline
<1>6. CASE Go("check", 1..image, {})
  <2>1. image \in Nat /\ image > 0 /\ 1..image \subseteq Version
    BY DEF IInv, TypeOK, Version
  <2>2. TypeOK'
    BY <1>2, <1>3, <1>6, <2>1 DEF IInv, TypeOK, Go
  <2>3. 1 \in 1..image /\ (1..image) \ (1..image) = {}
    BY <2>1
  <2>4. Migrating'
    BY <1>2, <1>6, <2>3 DEF Migrating, Go
  <2>5. Configured' /\ Draining' /\ CutOnlyAtDeadline'
    BY <1>2, <1>6 DEF IInv, Configured, Draining, Go, CutOnlyAtDeadline,
       ConfigLoads, ClientsBuilt, Has
  <2> QED BY <1>4, <2>2, <2>4, <2>5 DEF IInv
<1> QED BY <1>1, <1>5, <1>6

LEMMA CheckVersionKeeps ==
    ASSUME BootAssumption, IInv, CheckVersion
    PROVE  IInv'
<1> USE BootConstants
<1> DEFINE v == First(todo)
           rest == todo \ {v}
           rows == IF v \in recorded THEN <<v>> ELSE <<>>
<1>1. PICK a \in Told(Row(rows)) \cup Garbled :
        /\ Answers(a, Row(rows))
        /\ LET error == QueryRow(a)
               found == IF error = "ok" THEN seen \cup {v} ELSE seen
           IN  IF error # "ok" /\ ~NoRows(error) THEN Down
               ELSE IF rest # {} THEN Go("check", rest, found)
               ELSE Go(IF Pending(found) = {} THEN "wire" ELSE "apply",
                       Pending(found), found)
  BY DEF CheckVersion
<1>2. pc = "check" /\ UNCHANGED <<env, image, database, cut>>
  BY DEF CheckVersion
<1>3. faults' \in 0..MaxFaults
  BY <1>1, AnswersTyped DEF IInv, TypeOK
<1>4. RecordedMeansApplied' /\ InOrder'
  BY <1>2 DEF IInv, RecordedMeansApplied, InOrder, database
<1>5. /\ image \in Nat /\ 1..image \subseteq Version
      /\ todo # {} /\ todo \subseteq 1..image /\ todo \in SUBSET Version
      /\ seen = recorded \cap ((1..image) \ todo)
  BY <1>2 DEF IInv, TypeOK, Version, Migrating
<1>6. v \in todo
  BY <1>5, FirstIsLeast
<1>7. CASE Down
  BY <1>2, <1>3, <1>4, <1>7, DownKeeps DEF IInv, TypeOK, CutOnlyAtDeadline, database
<1>8. CASE ~Down
  \* The answer is D1's: the version is recorded if and only if it was found.
  <2> DEFINE found == IF QueryRow(a) = "ok" THEN seen \cup {v} ELSE seen
  <2>1. QueryRow(a) \in {"ok", "no rows"}
    BY <1>1, <1>8 DEF NoRows
  <2>2. a \in Told(Row(rows))
    BY <1>1, <2>1, GarbledFails DEF QueryRow
  <2>3. DoQuery(a) = "ok" /\ (a.results = Row(rows) \/ (a.results = <<>> /\ rows = <<>>))
    BY <2>2, RowAnswer
  <2>4. QueryRow(a) = IF rows = <<>> THEN "no rows" ELSE "ok"
    <3> HIDE DEF rows
    <3> QED BY <2>3, RowRows DEF QueryRow
  <2>5. QueryRow(a) = "ok" <=> v \in recorded
    BY <2>4
  <2>6. found = recorded \cap ((1..image) \ rest)
    BY <1>5, <1>6, <2>5
  <2>7. found \in SUBSET Version /\ rest \in SUBSET Version
    BY <1>5, <2>6
  <2>8. \/ rest # {} /\ Go("check", rest, found)
        \/ rest = {} /\ Go(IF Pending(found) = {} THEN "wire" ELSE "apply", Pending(found), found)
    BY <1>1, <2>1 DEF NoRows
  <2> HIDE DEF found, rest, rows, v
  <2>9. rest = {} => Pending(found) = (1..image) \ recorded
    BY <2>6 DEF Pending
  <2>10. Pending(found) \in SUBSET Version
    BY <1>5 DEF Pending
  <2>11. TypeOK'
    BY <1>2, <1>3, <2>7, <2>8, <2>10 DEF IInv, TypeOK, Go, database
  <2>12. Migrating'
    <3>1. CASE rest # {} /\ Go("check", rest, found)
      BY <1>2, <1>5, <2>6, <3>1 DEF Migrating, Go, database, rest
    <3>2. CASE rest = {} /\ Pending(found) = {} /\ Go("wire", Pending(found), found)
      <4>1. 1..image \subseteq recorded
        BY <2>9, <3>2
      <4> QED BY <1>2, <3>2, <4>1 DEF Migrating, Go, database
    <3>3. CASE rest = {} /\ Pending(found) # {} /\ Go("apply", Pending(found), found)
      BY <1>2, <2>9, <3>3 DEF Migrating, Go, database
    <3> QED BY <2>8, <3>1, <3>2, <3>3
  <2>13. Configured' /\ Draining' /\ CutOnlyAtDeadline'
    BY <1>2, <2>8 DEF IInv, Configured, Draining, Go, CutOnlyAtDeadline,
       ConfigLoads, ClientsBuilt, Has
  <2> QED BY <1>4, <2>11, <2>12, <2>13 DEF IInv
<1> QED BY <1>7, <1>8

LEMMA ApplyBodyKeeps ==
    ASSUME BootAssumption, IInv, ApplyBody
    PROVE  IInv'
<1> USE BootConstants
<1> DEFINE v == First(todo)
           fresh == created[v] = 0
<1>0. PICK k \in 0..Statements : \E a \in Told(Outcome(k)) \cup Garbled :
        /\ ~fresh => k = 0
        /\ IF fresh /\ k < Statements THEN Fault ELSE Answers(a, Outcome(k))
        /\ created' = [created EXCEPT ![v] = @ + k]
        /\ IF Exec(a) = "ok" THEN Go("record", todo, seen) ELSE Down
  BY DEF ApplyBody
<1>1. PICK a \in Told(Outcome(k)) \cup Garbled :
        /\ ~fresh => k = 0
        /\ IF fresh /\ k < Statements THEN Fault ELSE Answers(a, Outcome(k))
        /\ created' = [created EXCEPT ![v] = @ + k]
        /\ IF Exec(a) = "ok" THEN Go("record", todo, seen) ELSE Down
  BY <1>0
<1>2. pc = "apply" /\ UNCHANGED <<env, image, tracking, recorded, cut>>
  BY DEF ApplyBody
<1>3. faults' \in 0..MaxFaults
  BY <1>1, AnswersTyped, FaultTyped DEF IInv, TypeOK
<1>4. /\ todo \in SUBSET Version /\ todo # {} /\ todo = (1..image) \ recorded
      /\ created \in [Version -> 0..Statements]
  BY <1>2 DEF IInv, TypeOK, Migrating
<1>5. v \in Version /\ v \notin recorded
  BY <1>4, FirstIsLeast
<1> HIDE DEF v
<1>6. created' \in [Version -> 0..Statements]
  <2>1. created[v] \in 0..Statements /\ created[v] + k \in 0..Statements
    BY <1>1, <1>4, <1>5
  <2> QED BY <1>1, <1>4, <2>1
<1>7. RecordedMeansApplied' /\ InOrder'
  BY <1>1, <1>2, <1>4, <1>5 DEF IInv, TypeOK, RecordedMeansApplied, InOrder
<1>8. CASE Down
  BY <1>2, <1>3, <1>6, <1>7, <1>8, DownKeeps DEF IInv, TypeOK, CutOnlyAtDeadline
<1>9. CASE Exec(a) = "ok" /\ Go("record", todo, seen)
  \* Only a body that ran whole is answered with success: it was fresh.
  <2>1. Whole(Outcome(k))
    BY <1>1, <1>9, OkMeansWhole, GarbledFails DEF Exec
  <2>2. k = Statements
    BY <2>1, OutcomeWhole
  <2>3. created[v] = 0 /\ created'[v] = Statements
    BY <1>1, <1>4, <1>5, <2>2
  <2>4. TypeOK'
    BY <1>2, <1>3, <1>6, <1>9 DEF IInv, TypeOK, Go
  <2>5. Migrating'
    BY <1>2, <1>4, <1>9, <2>3 DEF Migrating, Go, v
  <2>6. Configured' /\ Draining' /\ CutOnlyAtDeadline'
    BY <1>2, <1>9 DEF IInv, Configured, Draining, Go, CutOnlyAtDeadline,
       ConfigLoads, ClientsBuilt, Has
  <2> QED BY <1>7, <2>4, <2>5, <2>6 DEF IInv
<1> QED BY <1>1, <1>8, <1>9

LEMMA RecordKeeps ==
    ASSUME BootAssumption, IInv, Record
    PROVE  IInv'
<1> USE BootConstants
<1> DEFINE v == First(todo)
           rest == todo \ {v}
<1>1. PICK a \in Told(Row(<<>>)) \cup Garbled :
        /\ Answers(a, Row(<<>>))
        /\ IF Exec(a) = "ok"
           THEN Go(IF rest = {} THEN "wire" ELSE "apply", rest, seen)
           ELSE Down
  BY DEF Record
<1>2. /\ pc = "record" /\ recorded' = recorded \cup {v}
      /\ UNCHANGED <<env, image, created, tracking, cut>>
  BY DEF Record
<1>3. faults' \in 0..MaxFaults
  BY <1>1, AnswersTyped DEF IInv, TypeOK
<1>4. /\ todo \in SUBSET Version /\ todo # {} /\ todo = (1..image) \ recorded
      /\ recorded \in SUBSET Version /\ image \in Nat
      /\ created[v] = Statements
  BY <1>2 DEF IInv, TypeOK, Migrating, Version
<1>5. v \in todo /\ \A u \in todo : v <= u
  BY <1>4, FirstIsLeast
<1> HIDE DEF v
<1>6. recorded' \in SUBSET Version
  BY <1>2, <1>4, <1>5
<1>7. RecordedMeansApplied'
  BY <1>2, <1>4 DEF IInv, RecordedMeansApplied
\* The migrations before v are recorded: it is the least of those that are not.
<1>8. InOrder'
  <2>1. v \in Nat /\ v <= image
    BY <1>4, <1>5
  <2>2. ASSUME NEW u \in 1..v PROVE u \in recorded'
    BY <1>2, <1>4, <1>5, <2>1, <2>2
  <2>3. \A w \in recorded : 1..w \subseteq recorded'
    BY <1>2 DEF IInv, InOrder
  <2> QED BY <1>2, <2>2, <2>3 DEF InOrder
<1>9. CASE Down
  BY <1>2, <1>3, <1>6, <1>7, <1>8, <1>9, DownKeeps DEF IInv, TypeOK, CutOnlyAtDeadline
<1>10. CASE Go(IF rest = {} THEN "wire" ELSE "apply", rest, seen)
  <2>1. rest \in SUBSET Version /\ rest = (1..image) \ recorded'
    BY <1>2, <1>4
  <2>2. rest = {} => 1..image \subseteq recorded'
    BY <2>1
  <2> HIDE DEF rest
  <2>3. TypeOK'
    BY <1>2, <1>3, <1>6, <1>10, <2>1 DEF IInv, TypeOK, Go
  <2>4. Migrating'
    BY <1>2, <1>10, <2>1, <2>2 DEF Migrating, Go
  <2>5. Configured' /\ Draining' /\ CutOnlyAtDeadline'
    BY <1>2, <1>10 DEF IInv, Configured, Draining, Go, CutOnlyAtDeadline,
       ConfigLoads, ClientsBuilt, Has
  <2> QED BY <1>7, <1>8, <2>3, <2>4, <2>5 DEF IInv
<1> QED BY <1>1, <1>9, <1>10

LEMMA BootStepKeeps ==
    ASSUME BootAssumption, IInv, BootStep
    PROVE  IInv'
<1> USE BootConstants
<1>1. CASE CallUnseen
  <2>1. /\ UNCHANGED <<env, image, created, tracking, recorded, cut>>
        /\ RecordedMeansApplied' /\ InOrder'
    BY <1>1 DEF CallUnseen, database, IInv, RecordedMeansApplied, InOrder
  <2>2. faults' \in 0..MaxFaults /\ Down
    BY <1>1, FaultTyped DEF CallUnseen, IInv, TypeOK
  <2> QED BY <2>1, <2>2, DownKeeps DEF IInv, TypeOK, CutOnlyAtDeadline
<1>2. CASE Wire
  <2>1. /\ UNCHANGED <<env, image, created, tracking, recorded, cut, faults>>
        /\ RecordedMeansApplied' /\ InOrder' /\ pc = "wire"
    BY <1>2 DEF Wire, database, IInv, RecordedMeansApplied, InOrder
  <2>2. CASE Down
    BY <2>1, <2>2, DownKeeps DEF IInv, TypeOK, CutOnlyAtDeadline
  <2>3. CASE ~Down
    <3>1. /\ pc' = "listening"
          /\ routes' = [photos    |-> Has("r2") /\ Has("quotas"),
                        publisher |-> IF Has("publish") THEN "signed" ELSE "noop"]
          /\ UNCHANGED <<todo, seen, req, age, drain>>
      BY <1>2, <2>3 DEF Wire
    <3>2. (Has("r2") /\ Has("quotas")) \in BOOLEAN
      OBVIOUS
    <3>3. TypeOK'
      BY <2>1, <3>1, <3>2 DEF IInv, TypeOK
    <3>4. Migrating' /\ Draining' /\ CutOnlyAtDeadline'
      BY <2>1, <3>1 DEF IInv, Migrating, Draining, CutOnlyAtDeadline
    <3>5. Configured'
      <4>1. ConfigLoads' /\ ClientsBuilt'
        BY <2>1 DEF IInv, Configured, ConfigLoads, ClientsBuilt, Has
      <4>2. ASSUME ~env'.dev PROVE Has("r2") /\ Has("quotas") /\ Has("publish")
        BY <2>1, <4>1, <4>2 DEF ConfigLoads, Settings, Has
      <4> QED BY <3>1, <4>1, <4>2 DEF Configured
    <3> QED BY <2>1, <3>3, <3>4, <3>5 DEF IInv
  <2> QED BY <2>2, <2>3
<1> QED BY <1>1, <1>2, EnsureTableKeeps, CheckVersionKeeps, ApplyBodyKeeps, RecordKeeps
       DEF BootStep

-----------------------------------------------------------------------------
(* Everything else.                                                        *)

\* These steps leave the database alone.
LEMMA StartKeeps ==
    ASSUME BootAssumption, IInv, Start
    PROVE  IInv'
<1> USE BootConstants
<1>1. /\ pc = "down" /\ pc' = (IF env.dev THEN "wire" ELSE "ensure")
      /\ ConfigLoads /\ ClientsBuilt
      /\ UNCHANGED <<env, image, created, tracking, recorded, todo, seen, routes,
                     req, age, drain, cut, faults>>
  BY DEF Start, database, traffic
<1>2. TypeOK'
  BY <1>1 DEF IInv, TypeOK
<1>3. RecordedMeansApplied' /\ InOrder' /\ Draining' /\ CutOnlyAtDeadline'
  BY <1>1 DEF IInv, RecordedMeansApplied, InOrder, Draining, CutOnlyAtDeadline
<1>4. Migrating' /\ Configured'
  BY <1>1 DEF IInv, Migrating, Configured, ConfigLoads, ClientsBuilt, Has
<1> QED BY <1>2, <1>3, <1>4 DEF IInv

LEMMA RequestKeeps ==
    ASSUME BootAssumption, IInv, NEW r \in Requests, Ask(r) \/ Handle(r) \/ Respond(r)
    PROVE  IInv'
<1> USE BootConstants
<1>1. /\ UNCHANGED <<env, image, created, tracking, recorded, pc, todo, seen, routes,
                     drain, cut, faults>>
      /\ \E s \in {"none", "waiting", "handled"} : req' = [req EXCEPT ![r] = s]
      /\ age' = age \/ age' = [age EXCEPT ![r] = 0]
  BY DEF Ask, Handle, Respond, database, process
<1>2. TypeOK'
  BY <1>1 DEF IInv, TypeOK
<1>3. RecordedMeansApplied' /\ InOrder' /\ CutOnlyAtDeadline'
  BY <1>1 DEF IInv, RecordedMeansApplied, InOrder, CutOnlyAtDeadline
<1>4. Migrating' /\ Configured'
  BY <1>1 DEF IInv, Migrating, Configured, ConfigLoads, ClientsBuilt, Has
\* No request is taken in while draining.
<1>5. Draining'
  <2>1. pc = "draining" => Handled' \subseteq Handled /\ \A s \in Handled' : age'[s] = age[s]
    BY DEF Ask, Handle, Respond, Handled, IInv, TypeOK
  <2> QED BY <1>1, <2>1 DEF IInv, Draining
<1> QED BY <1>2, <1>3, <1>4, <1>5 DEF IInv

LEMMA SecondKeeps ==
    ASSUME BootAssumption, IInv, Second
    PROVE  IInv'
<1> USE BootConstants
<1>1. /\ UNCHANGED <<env, image, created, tracking, recorded, pc, todo, seen, routes,
                     req, cut, faults>>
      /\ \A r \in Handled : age[r] < Deadline
      /\ pc = "draining" => drain < Grace
      /\ age' = [r \in Requests |-> IF r \in Handled THEN age[r] + 1 ELSE age[r]]
      /\ drain' = IF pc = "draining" THEN drain + 1 ELSE drain
  BY DEF Second, database, process
<1>2. age \in [Requests -> 0..Deadline] /\ drain \in 0..Grace
  BY DEF IInv, TypeOK
<1>3. age' \in [Requests -> 0..Deadline]
  BY <1>1, <1>2
<1>4. drain' \in 0..Grace
  BY <1>1, <1>2
<1>5. TypeOK'
  BY <1>1, <1>3, <1>4 DEF IInv, TypeOK
<1>6. RecordedMeansApplied' /\ InOrder' /\ CutOnlyAtDeadline'
  BY <1>1 DEF IInv, RecordedMeansApplied, InOrder, CutOnlyAtDeadline
<1>7. Migrating' /\ Configured'
  BY <1>1 DEF IInv, Migrating, Configured, ConfigLoads, ClientsBuilt, Has
<1>8. Draining'
  <2>1. Handled' = Handled
    BY <1>1 DEF Handled
  <2>2. ASSUME pc = "draining", NEW r \in Handled PROVE age'[r] >= drain'
    <3>1. r \in Requests /\ age[r] >= drain /\ age'[r] = age[r] + 1
      BY <1>1, <2>2 DEF IInv, Draining, Handled
    <3>2. age[r] \in 0..Deadline
      BY <1>2, <3>1
    <3> QED BY <1>1, <1>2, <2>2, <3>1, <3>2
  <2> QED BY <1>1, <2>1, <2>2 DEF IInv, Draining
<1> QED BY <1>5, <1>6, <1>7, <1>8 DEF IInv

\* The listener closes: nothing has aged since.
LEMMA DrainKeeps ==
    ASSUME BootAssumption, IInv, pc = "listening", Drain,
           UNCHANGED <<env, created, tracking, recorded, req, age, drain, cut>>,
           image' \in Version, faults' \in 0..MaxFaults
    PROVE  IInv'
<1> USE BootConstants
<1>1. TypeOK'
  BY DEF IInv, TypeOK, Drain
<1>2. RecordedMeansApplied' /\ InOrder' /\ CutOnlyAtDeadline'
  BY DEF IInv, RecordedMeansApplied, InOrder, CutOnlyAtDeadline
<1>3. Migrating' /\ Configured'
  BY DEF IInv, Migrating, Configured, ConfigLoads, ClientsBuilt, Has, Drain
<1>4. Draining'
  <2>1. drain = 0 /\ pc' = "draining" /\ Handled' = Handled
    BY DEF IInv, Draining, Drain, Handled
  <2>2. \A r \in Handled : age[r] >= 0
    BY DEF IInv, TypeOK, Handled
  <2> QED BY <2>1, <2>2 DEF Draining
<1> QED BY <1>1, <1>2, <1>3, <1>4 DEF IInv

LEMMA StopKeeps ==
    ASSUME BootAssumption, IInv,
           Terminate \/ Sleep \/ ShutdownDone \/ ShutdownTimesOut \/ Kill \/ Deploy
    PROVE  IInv'
<1> USE BootConstants
<1>1. CASE Terminate
  <2>1. faults' \in 0..MaxFaults
    BY <1>1, FaultTyped DEF Terminate, IInv, TypeOK
  <2> QED BY <1>1, <2>1, DrainKeeps DEF Terminate, database, traffic, IInv, TypeOK
<1>2. CASE Sleep
  BY <1>2, DrainKeeps DEF Sleep, database, traffic, IInv, TypeOK
<1>3. CASE ShutdownDone
  <2>1. /\ UNCHANGED <<env, image, created, tracking, recorded, cut, faults>>
        /\ RecordedMeansApplied' /\ InOrder' /\ Down
    BY <1>3 DEF ShutdownDone, database, IInv, RecordedMeansApplied, InOrder
  <2> QED BY <2>1, DownKeeps DEF IInv, TypeOK, CutOnlyAtDeadline
<1>4. CASE ShutdownTimesOut
  <2>1. /\ UNCHANGED <<env, image, created, tracking, recorded, faults>>
        /\ RecordedMeansApplied' /\ InOrder' /\ Down
        /\ pc = "draining" /\ drain = Grace
        /\ cut' = cut \cup {age[r] : r \in Handled}
    BY <1>4 DEF ShutdownTimesOut, database, IInv, RecordedMeansApplied, InOrder
  \* They have aged at least the grace, and at most the deadline.
  <2>2. ASSUME NEW r \in Handled PROVE age[r] = Deadline
    BY <2>1 DEF IInv, Draining, TypeOK, Handled
  <2>3. cut' \subseteq {Deadline}
    BY <2>1, <2>2 DEF IInv, CutOnlyAtDeadline
  <2> QED BY <2>1, <2>3, DownKeeps DEF IInv, TypeOK
<1>5. CASE Kill
  <2>1. /\ UNCHANGED <<env, image, created, tracking, recorded, cut>>
        /\ RecordedMeansApplied' /\ InOrder' /\ Down
    BY <1>5 DEF Kill, database, IInv, RecordedMeansApplied, InOrder
  <2>2. faults' \in 0..MaxFaults
    BY <1>5, FaultTyped DEF Kill, IInv, TypeOK
  <2> QED BY <2>1, <2>2, DownKeeps DEF IInv, TypeOK, CutOnlyAtDeadline
<1>6. CASE Deploy
  <2>1. image' \in Version
    BY <1>6 DEF Deploy, IInv, TypeOK, Version
  <2>2. CASE pc = "listening"
    BY <1>6, <2>1, <2>2, DrainKeeps DEF Deploy, database, traffic, IInv, TypeOK
  <2>3. CASE pc = "down"
    <3>1. UNCHANGED <<env, created, tracking, recorded, pc, todo, seen, routes,
                      req, age, drain, cut, faults>>
      BY <1>6, <2>3 DEF Deploy, database, process, traffic
    <3>2. TypeOK'
      BY <2>1, <3>1 DEF IInv, TypeOK
    <3>3. RecordedMeansApplied' /\ InOrder' /\ CutOnlyAtDeadline' /\ Draining'
      BY <2>3, <3>1 DEF IInv, RecordedMeansApplied, InOrder, CutOnlyAtDeadline, Draining
    <3>4. Migrating' /\ Configured'
      BY <2>3, <3>1 DEF IInv, Migrating, Configured
    <3> QED BY <3>2, <3>3, <3>4 DEF IInv
  <2> QED BY <1>6, <2>2, <2>3 DEF Deploy
<1> QED BY <1>1, <1>2, <1>3, <1>4, <1>5, <1>6

LEMMA StutterKeeps ==
    ASSUME IInv, UNCHANGED vars
    PROVE  IInv'
<1>1. UNCHANGED <<env, image, created, tracking, recorded, pc, todo, seen, routes,
                  req, age, drain, cut, faults>>
  BY DEF vars, database, process, traffic
<1>2. TypeOK' /\ RecordedMeansApplied' /\ InOrder' /\ CutOnlyAtDeadline'
  BY <1>1 DEF IInv, TypeOK, RecordedMeansApplied, InOrder, CutOnlyAtDeadline
<1>3. Migrating' /\ Configured' /\ Draining'
  BY <1>1 DEF IInv, Migrating, Configured, Draining, Handled, ConfigLoads, ClientsBuilt, Has
<1> QED BY <1>2, <1>3 DEF IInv

LEMMA NextKeeps ==
    ASSUME BootAssumption, IInv, [Next]_vars
    PROVE  IInv'
<1>1. CASE Refuse
  BY <1>1, StutterKeeps DEF Refuse
<1> QED BY <1>1, StutterKeeps, StartKeeps, BootStepKeeps, RequestKeeps, SecondKeeps, StopKeeps
       DEF Next

\* Every reachable state satisfies the inductive invariant: boots, migrations,
\* requests and shutdowns in any order.
THEOREM BootInvariant == Spec => []IInv
<1>1. Init => IInv
  BY BootAssumption, InitIInv
<1>2. IInv /\ [Next]_vars => IInv'
  BY BootAssumption, NextKeeps
<1> QED BY <1>1, <1>2, PTL DEF Spec

-----------------------------------------------------------------------------

(* The process, the database and the requests keep their types.            *)
THEOREM BootTypeCorrect == Spec => []TypeOK
<1>1. IInv => TypeOK
  BY DEF IInv
<1> QED BY <1>1, BootInvariant, PTL

(* A recorded migration is in the database whole, however many kills,      *)
(* restarts and failing calls came between (Apply over doQuery).           *)
THEOREM RecordsAreTrue == Spec => []RecordedMeansApplied
<1>1. IInv => RecordedMeansApplied
  BY DEF IInv
<1> QED BY <1>1, BootInvariant, PTL

(* Migrations are recorded in the order of their names                     *)
(* (discoverMigrations, loadAppliedVersions, Apply).                       *)
THEOREM RecordsAreOrdered == Spec => []InOrder
<1>1. IInv => InOrder
  BY DEF IInv
<1> QED BY <1>1, BootInvariant, PTL

(* In production the API listens over its image's whole schema and with    *)
(* every optional part (setupApp, Listen).                                 *)
THEOREM ListensComplete == Spec => []ServesComplete
<1>1. IInv => ServesComplete
  BY DEF IInv, Migrating, Configured, ServesComplete
<1> QED BY <1>1, BootInvariant, PTL

(* A shutdown cuts off only requests whose deadline has passed (main,      *)
(* RequestDeadline).                                                       *)
THEOREM ShutdownIsGraceful == Spec => []CutOnlyAtDeadline
<1>1. IInv => CutOnlyAtDeadline
  BY DEF IInv
<1> QED BY <1>1, BootInvariant, PTL

-----------------------------------------------------------------------------
(* Torn migrations, and how a start advances.                              *)

Migrates == {"ensure", "check", "apply", "record"}

\* The database is never ahead by more than one unrecorded migration, the next
\* one; development does not migrate at all.
OneAhead ==
    /\ env.dev => pc \notin Migrates /\ \A v \in Version : created[v] = 0
    /\ \A v \in Version : created[v] > 0 => v <= image /\ 1..(v - 1) \subseteq recorded
    /\ pc = "draining" => \A v \in Version : created[v] > 0 => v \in recorded

\* The body of the next migration runs: whole, on a fresh schema, or the
\* process ends, for a fault or over a table that exists.
LEMMA ApplyBodyOutcome ==
    ASSUME BootAssumption, IInv, ApplyBody
    PROVE  LET v == First(todo) IN
           /\ \A u \in Version : u # v => created'[u] = created[u]
           /\ created'[v] >= created[v]
           /\ \/ Down /\ (Fault \/ created[v] > 0)
              \/ Go("record", todo, seen) /\ created[v] = 0
<1> USE BootConstants
<1> DEFINE v == First(todo)
           fresh == created[v] = 0
<1>0. PICK k \in 0..Statements : \E a \in Told(Outcome(k)) \cup Garbled :
        /\ ~fresh => k = 0
        /\ IF fresh /\ k < Statements THEN Fault ELSE Answers(a, Outcome(k))
        /\ created' = [created EXCEPT ![v] = @ + k]
        /\ IF Exec(a) = "ok" THEN Go("record", todo, seen) ELSE Down
  BY DEF ApplyBody
<1>1. PICK a \in Told(Outcome(k)) \cup Garbled :
        /\ ~fresh => k = 0
        /\ IF fresh /\ k < Statements THEN Fault ELSE Answers(a, Outcome(k))
        /\ created' = [created EXCEPT ![v] = @ + k]
        /\ IF Exec(a) = "ok" THEN Go("record", todo, seen) ELSE Down
  BY <1>0
<1>2. /\ todo \in SUBSET Version /\ todo # {} /\ created \in [Version -> 0..Statements]
      /\ v \in Version
  BY FirstIsLeast DEF ApplyBody, IInv, TypeOK, Migrating
<1> HIDE DEF v
<1>3. /\ \A u \in Version : u # v => created'[u] = created[u]
      /\ created'[v] = created[v] + k /\ created[v] \in 0..Statements
  BY <1>1, <1>2
<1>4. CASE Exec(a) = "ok"
  <2>1. k = Statements
    BY <1>1, <1>4, OkMeansWhole, GarbledFails, OutcomeWhole DEF Exec
  <2> QED BY <1>1, <1>3, <1>4, <2>1 DEF v
<1>5. CASE Exec(a) # "ok"
  <2>1. CASE fresh /\ k < Statements
    BY <1>1, <1>3, <1>5, <2>1 DEF v
  <2>2. CASE fresh /\ k = Statements
    \* What D1 did whole and tells of is taken for success.
    <3>1. Whole(Outcome(k))
      BY <2>2, WholeOutcome
    <3>2. a \notin Told(Outcome(k))
      BY <1>5, <3>1, OkMeansWhole DEF Exec
    <3> QED BY <1>1, <1>3, <1>5, <2>2, <3>2 DEF Answers, v
  <2>3. CASE ~fresh
    BY <1>1, <1>3, <1>5, <2>3 DEF v
  <2> QED BY <1>3, <2>1, <2>2, <2>3
<1> QED BY <1>4, <1>5

\* loadAppliedVersions goes on unless its call fails.
LEMMA CheckVersionOutcome ==
    ASSUME BootAssumption, IInv, CheckVersion
    PROVE  \/ Down /\ Fault
           \/ \E found : todo \ {First(todo)} # {} /\ Go("check", todo \ {First(todo)}, found)
           \/ \E left, found : Go("wire", left, found) \/ Go("apply", left, found)
<1> DEFINE v == First(todo)
           rows == IF v \in recorded THEN <<v>> ELSE <<>>
<1>1. PICK a \in Told(Row(rows)) \cup Garbled :
        /\ Answers(a, Row(rows))
        /\ LET error == QueryRow(a)
               found == IF error = "ok" THEN seen \cup {v} ELSE seen
           IN  IF error # "ok" /\ ~NoRows(error) THEN Down
               ELSE IF todo \ {v} # {} THEN Go("check", todo \ {v}, found)
               ELSE Go(IF Pending(found) = {} THEN "wire" ELSE "apply",
                       Pending(found), found)
  BY DEF CheckVersion
<1>2. CASE a \in Told(Row(rows))
  <2>1. QueryRow(a) \in {"ok", "no rows"}
    <3>1. DoQuery(a) = "ok"
      BY <1>2, RowAnswer
    <3> QED BY <3>1 DEF QueryRow
  <2> QED BY <1>1, <2>1 DEF NoRows
<1>3. CASE a \notin Told(Row(rows))
  <2>1. Fault /\ a \in Garbled
    BY <1>1, <1>3 DEF Answers
  <2>2. QueryRow(a) # "ok" /\ QueryRow(a) # "no rows"
    BY <2>1, GarbledFails DEF QueryRow
  <2> QED BY <1>1, <2>1, <2>2 DEF NoRows
<1> QED BY <1>2, <1>3

\* CREATE TABLE IF NOT EXISTS and the INSERT of a row succeed unless their call
\* fails.
LEMMA RowCallOutcome ==
    ASSUME NEW rows, NEW a \in Told(Row(rows)) \cup Garbled, Answers(a, Row(rows)),
           Exec(a) # "ok"
    PROVE  Fault
BY RowAnswer DEF Answers, Exec

\* What OneAhead needs of a step that leaves the bodies alone.
LEMMA OneAheadAlone ==
    ASSUME BootAssumption, IInv, OneAhead,
           UNCHANGED <<env, created>>, recorded \subseteq recorded',
           image' \in Version, image <= image',
           env.dev => pc' \notin Migrates,
           pc' = "draining" => pc \in {"listening", "draining"}
    PROVE  OneAhead'
<1> USE BootConstants
<1>1. /\ image \in Nat /\ image' \in Nat /\ Version \subseteq Nat
      /\ created \in [Version -> 0..Statements] /\ env.dev \in BOOLEAN
  BY DEF IInv, TypeOK, Version
<1>2. ASSUME pc' = "draining", NEW v \in Version, created[v] > 0
      PROVE  v \in recorded'
  <2>1. CASE pc = "draining"
    BY <1>2, <2>1 DEF OneAhead
  <2>2. CASE pc = "listening"
    <3>1. v <= image /\ ~env.dev
      BY <1>1, <1>2 DEF OneAhead
    <3>2. 1..image \subseteq recorded
      BY <2>2, <3>1 DEF IInv, Migrating
    <3> QED BY <1>1, <3>1, <3>2 DEF Version
  <2> QED BY <1>2, <2>1, <2>2
<1>3. ASSUME NEW v \in Version, created[v] > 0
      PROVE  v <= image' /\ 1..(v - 1) \subseteq recorded'
  <2>1. v <= image /\ 1..(v - 1) \subseteq recorded
    BY <1>3 DEF OneAhead
  <2> QED BY <1>1, <2>1
<1> QED BY <1>2, <1>3 DEF OneAhead

LEMMA OneAheadKeeps ==
    ASSUME BootAssumption, IInv, OneAhead, [Next]_vars
    PROVE  OneAhead'
<1> USE BootConstants
<1>1. image \in Version /\ image <= image
  BY DEF IInv, TypeOK, Version
<1>2. CASE ApplyBody
  <2> DEFINE v == First(todo)
  <2>1. /\ todo \in SUBSET Version /\ todo # {} /\ todo = (1..image) \ recorded
        /\ image \in Nat /\ Version \subseteq Nat
    BY <1>2 DEF ApplyBody, IInv, TypeOK, Migrating, Version
  <2>2. v \in todo /\ v \in Version /\ \A u \in todo : v <= u
    BY <2>1, FirstIsLeast
  <2>3. /\ \A u \in Version : u # v => created'[u] = created[u]
        /\ pc' \in {"down", "record"}
    BY <1>2, ApplyBodyOutcome DEF Go, Down
  <2> HIDE DEF v
  <2>4. v <= image /\ 1..(v - 1) \subseteq recorded
    <3>1. ASSUME NEW u \in 1..(v - 1) PROVE u \in recorded
      BY <2>1, <2>2
    <3> QED BY <2>1, <2>2, <3>1
  <2>5. ~env.dev /\ UNCHANGED <<env, image, recorded>>
    BY <1>2 DEF ApplyBody, OneAhead, Migrates
  <2> QED BY <2>2, <2>3, <2>4, <2>5 DEF OneAhead
<1>3. CASE Record
  <2>1. /\ pc' \in {"wire", "apply", "down"} /\ recorded \subseteq recorded' /\ ~env.dev
        /\ UNCHANGED <<env, image, created>>
    BY <1>3 DEF Record, Go, Down, OneAhead, Migrates
  <2> QED BY <1>1, <2>1, OneAheadAlone
<1>4. CASE EnsureTable \/ CheckVersion \/ CallUnseen \/ Wire
  <2>1. UNCHANGED <<env, image, created, recorded>> /\ pc' # "draining"
    BY <1>4, CheckVersionOutcome
       DEF EnsureTable, CheckVersion, CallUnseen, Wire, Go, Down, database
  <2>2. env.dev => pc' \notin Migrates
    BY <1>4 DEF EnsureTable, CheckVersion, CallUnseen, Wire, Go, Down, OneAhead, Migrates
  <2> QED BY <1>1, <2>1, <2>2, OneAheadAlone
<1>5. CASE Start
  BY <1>1, <1>5, OneAheadAlone DEF Start, database, Migrates
<1>6. CASE ShutdownDone \/ ShutdownTimesOut \/ Kill
  <2>1. UNCHANGED <<env, image, created, recorded>> /\ pc' = "down"
    BY <1>6 DEF ShutdownDone, ShutdownTimesOut, Kill, Down, database
  <2> QED BY <1>1, <2>1, OneAheadAlone DEF Migrates
<1>7. CASE Terminate \/ Sleep
  <2>1. UNCHANGED <<env, image, created, recorded>> /\ pc = "listening" /\ pc' = "draining"
    BY <1>7 DEF Terminate, Sleep, Drain, database
  <2> QED BY <1>1, <2>1, OneAheadAlone DEF Migrates
<1>8. CASE Deploy
  <2>1. /\ UNCHANGED <<env, created, recorded>> /\ image' = image + 1 /\ image < Migrations
        /\ \/ pc = "listening" /\ pc' = "draining"
           \/ pc = "down" /\ pc' = "down"
    BY <1>8 DEF Deploy, Drain, database, process
  <2>2. image' \in Version /\ image <= image'
    BY <2>1 DEF IInv, TypeOK, Version
  <2> QED BY <2>1, <2>2, OneAheadAlone DEF Migrates
<1>9. CASE Refuse \/ Second \/ UNCHANGED vars \/ \E r \in Requests : Ask(r) \/ Handle(r) \/ Respond(r)
  <2>1. UNCHANGED <<env, image, created, recorded, pc>>
    BY <1>9 DEF Refuse, Second, Ask, Handle, Respond, vars, database, process
  <2>2. env.dev => pc' \notin Migrates
    BY <2>1 DEF OneAhead
  <2> QED BY <1>1, <2>1, <2>2, OneAheadAlone
<1> QED BY <1>2, <1>3, <1>4, <1>5, <1>6, <1>7, <1>8, <1>9 DEF Next, BootStep

LEMMA OneAheadInvariant == Spec => []OneAhead
<1>1. Init => OneAhead
  BY DEF Init, OneAhead, Migrates
<1>2. IInv /\ OneAhead /\ [Next]_vars => OneAhead'
  BY BootAssumption, OneAheadKeeps
<1> QED BY <1>1, <1>2, BootInvariant, PTL DEF Spec

(* With a torn migration nothing more is recorded and nobody listens, for  *)
(* any schema: it is the next one of every later start (Apply, setupApp).  *)
THEOREM TornIsFatal == Spec => []TornStaysDown
<1>1. ASSUME BootAssumption, IInv, OneAhead, NEW v \in Version, Torn(v)
      PROVE  pc \in {"down", "ensure", "check", "apply"}
  <2> USE BootConstants
  <2>1. /\ v <= image /\ 1..(v - 1) \subseteq recorded /\ v \notin recorded
        /\ image \in Nat /\ v \in Nat /\ v > 0 /\ created[v] > 0
    BY <1>1 DEF Torn, OneAhead, IInv, TypeOK, Version
  <2>2. ~env.dev
    BY <1>1, <2>1 DEF OneAhead, IInv, TypeOK
  <2>3. pc \notin {"wire", "listening", "draining"}
    BY <1>1, <2>1, <2>2 DEF OneAhead, IInv, Migrating
  <2>4. pc # "record"
    <3> SUFFICES ASSUME pc = "record" PROVE FALSE
      OBVIOUS
    <3>1. todo \in SUBSET Version /\ todo = (1..image) \ recorded /\ v \in todo
      BY <1>1, <2>1 DEF IInv, TypeOK, Migrating
    <3>2. First(todo) \in todo /\ First(todo) <= v
      BY <3>1, FirstIsLeast
    <3>3. First(todo) # v
      BY <1>1 DEF Torn
    <3>4. First(todo) \in 1..(v - 1)
      BY <2>1, <3>1, <3>2, <3>3
    <3> QED BY <2>1, <3>1, <3>2, <3>4
  <2> QED BY <1>1, <2>3, <2>4 DEF IInv, TypeOK
<1>2. IInv /\ OneAhead => TornStaysDown
  BY <1>1, BootAssumption DEF TornStaysDown
<1> QED BY <1>2, BootInvariant, OneAheadInvariant, PTL

(* A migration whose body stands without its row stays so, whatever is     *)
(* started, deployed or retried afterwards (Apply).                        *)
THEOREM TornIsForGood == Spec => TornForGood
<1>1. ASSUME BootAssumption, IInv, Next, NEW v \in Version, Torn(v)
      PROVE  Torn(v)'
  <2> USE BootConstants
  <2>1. created[v] > 0 /\ v \notin recorded /\ created \in [Version -> 0..Statements]
    BY <1>1 DEF Torn, IInv, TypeOK
  <2>2. CASE ApplyBody
    <3>1. recorded' = recorded /\ pc = "apply"
      BY <2>2 DEF ApplyBody
    <3>2. created'[v] > 0
      <4>1. created'[v] >= created[v]
        BY <1>1, <2>1, <2>2, ApplyBodyOutcome
      <4>2. created'[v] \in Nat
        BY <1>1, <2>2, ApplyBodyKeeps DEF IInv, TypeOK
      <4> QED BY <2>1, <4>1, <4>2
    <3>3. ~(pc' = "record" /\ First(todo') = v)
      BY <1>1, <2>1, <2>2, ApplyBodyOutcome DEF Down, Go
    <3> QED BY <2>1, <3>1, <3>2, <3>3 DEF Torn
  <2>3. CASE Record
    BY <1>1, <2>1, <2>3 DEF Record, Torn, Go, Down
  <2>4. CASE EnsureTable \/ CheckVersion \/ CallUnseen \/ Wire
    <3>1. UNCHANGED <<created, recorded>> /\ pc' # "record"
      BY <1>1, <2>4, CheckVersionOutcome
         DEF EnsureTable, CheckVersion, CallUnseen, Wire, Go, Down, database
    <3> QED BY <2>1, <3>1 DEF Torn
  <2>5. CASE Start \/ Terminate \/ Sleep \/ ShutdownDone \/ ShutdownTimesOut \/ Kill \/ Deploy
    <3>1. UNCHANGED <<created, recorded>> /\ pc' # "record"
      BY <2>5 DEF Start, Terminate, Sleep, ShutdownDone, ShutdownTimesOut, Kill, Deploy,
                  Drain, Down, database, process
    <3> QED BY <2>1, <3>1 DEF Torn
  <2>6. CASE Refuse \/ Second \/ \E r \in Requests : Ask(r) \/ Handle(r) \/ Respond(r)
    <3>1. UNCHANGED <<created, recorded, pc, todo>>
      BY <2>6 DEF Refuse, Second, Ask, Handle, Respond, vars, database, process
    <3> QED BY <1>1, <3>1 DEF Torn
  <2> QED BY <1>1, <2>2, <2>3, <2>4, <2>5, <2>6 DEF Next, BootStep
<1>2. IInv /\ [Next]_vars => [\A v \in Version : Torn(v) => Torn(v)']_vars
  BY <1>1, BootAssumption
<1> QED BY <1>2, BootInvariant, PTL DEF Spec, TornForGood

(* Every step of a start brings it nearer to Listen, except for a reason   *)
(* that fairness cannot remove: what Served rests on, for any schema and   *)
(* whatever earlier processes left behind (setupApp, Apply).               *)
THEOREM StartMakesProgress == Spec => StartAdvances
<1>1. ASSUME BootAssumption, IInv, Next, Starting, process' # process
      PROVE  \/ Nearer
             \/ faults' # faults
             \/ \E v \in Version : Torn(v)
             \/ pc = "wire" /\ ~Has("jwt")
  <2> DEFINE Goal == \/ Nearer
                     \/ faults' # faults
                     \/ \E v \in Version : Torn(v)
                     \/ pc = "wire" /\ ~Has("jwt")
  <2>1. Fault => Goal
    BY <1>1 DEF Fault, IInv, TypeOK
  <2>2. CASE EnsureTable
    <3>1. PICK a \in Told(Row(<<>>)) \cup Garbled :
            /\ Answers(a, Row(<<>>))
            /\ IF Exec(a) = "ok" THEN Go("check", 1..image, {}) ELSE Down
      BY <2>2 DEF EnsureTable
    <3>2. CASE Exec(a) = "ok"
      BY <2>2, <3>1, <3>2 DEF EnsureTable, Go, Nearer, Stage
    <3> QED BY <2>1, <3>1, <3>2, RowCallOutcome
  <2>3. CASE CheckVersion
    <3>1. pc = "check" /\ todo # {} /\ todo \in SUBSET Version
      BY <1>1, <2>3 DEF CheckVersion, IInv, Migrating, TypeOK
    <3>2. First(todo) \in todo
      BY <3>1, FirstIsLeast
    <3>3. ASSUME NEW found, Go("check", todo \ {First(todo)}, found)
          PROVE  Nearer
      BY <3>1, <3>2, <3>3 DEF Go, Nearer, Stage
    <3>4. ASSUME NEW left, NEW found, Go("wire", left, found) \/ Go("apply", left, found)
          PROVE  Nearer
      BY <3>1, <3>4 DEF Go, Nearer, Stage
    <3> QED BY <1>1, <2>1, <2>3, <3>3, <3>4, CheckVersionOutcome
  <2>4. CASE ApplyBody
    <3>1. pc = "apply" /\ todo # {} /\ todo \in SUBSET Version /\ todo = (1..image) \ recorded
      BY <1>1, <2>4 DEF ApplyBody, IInv, Migrating, TypeOK
    <3>2. First(todo) \in Version /\ First(todo) \notin recorded
      BY <3>1, FirstIsLeast
    <3>3. CASE created[First(todo)] > 0
      BY <3>1, <3>2, <3>3 DEF Torn
    <3>4. CASE Go("record", todo, seen)
      BY <3>1, <3>4 DEF Go, Nearer
    <3> QED BY <1>1, <2>1, <2>4, <3>3, <3>4, ApplyBodyOutcome
  <2>5. CASE Record
    <3> DEFINE rest == todo \ {First(todo)}
    <3>1. pc = "record" /\ todo # {} /\ todo \in SUBSET Version
      BY <1>1, <2>5 DEF Record, IInv, Migrating, TypeOK
    <3>2. PICK a \in Told(Row(<<>>)) \cup Garbled :
            /\ Answers(a, Row(<<>>))
            /\ IF Exec(a) = "ok"
               THEN Go(IF rest = {} THEN "wire" ELSE "apply", rest, seen)
               ELSE Down
      BY <2>5 DEF Record
    <3>3. rest \subseteq todo /\ rest # todo
      BY <3>1, FirstIsLeast
    <3> HIDE DEF rest
    <3>4. CASE Exec(a) = "ok"
      BY <3>1, <3>2, <3>3, <3>4 DEF Go, Nearer, Stage
    <3> QED BY <2>1, <3>2, <3>4, RowCallOutcome
  <2>6. CASE Wire
    BY <1>1, <2>6 DEF Wire, Nearer, Stage
  <2>7. CASE CallUnseen \/ Kill \/ Terminate
    BY <2>1, <2>7 DEF CallUnseen, Kill, Terminate
  <2>8. CASE Start \/ Sleep \/ ShutdownDone \/ ShutdownTimesOut \/ Deploy
    BY <1>1, <2>8 DEF Start, Sleep, ShutdownDone, ShutdownTimesOut, Deploy, Starting
  <2>9. CASE Refuse \/ Second \/ \E r \in Requests : Ask(r) \/ Handle(r) \/ Respond(r)
    BY <1>1, <2>9 DEF Refuse, Second, Ask, Handle, Respond, vars, process
  <2> QED BY <1>1, <2>2, <2>3, <2>4, <2>5, <2>6, <2>7, <2>8, <2>9 DEF Next, BootStep
<1>2. IInv /\ [Next]_vars =>
          [Starting /\ process' # process =>
              \/ Nearer
              \/ faults' # faults
              \/ \E v \in Version : Torn(v)
              \/ pc = "wire" /\ ~Has("jwt")]_vars
  BY <1>1, BootAssumption
<1> QED BY <1>2, BootInvariant, PTL DEF Spec, StartAdvances

-----------------------------------------------------------------------------
(* The process and its database implement SchemaHistory.                   *)

\* The values SchemaHistory's variables have here.
Begun == {v \in Version : created[v] > 0}
Owed == IF pc = "record" THEN First(todo) ELSE 0
Opened == pc = "listening" /\ ~env.dev

HistoryUnchanged == UNCHANGED <<image, Begun, recorded, Owed, Opened>>

\* What has begun is recorded or the next one, and a row can only be owed for a
\* migration that exists.
LEMMA HistoryTypes ==
    ASSUME BootAssumption, IInv, OneAhead
    PROVE  /\ recorded \subseteq Begun /\ Begun \subseteq 1..image
           /\ \A v \in Begun : 1..(v - 1) \subseteq recorded
           /\ pc = "record" => First(todo) \in todo /\ Owed = First(todo) /\ Owed # 0
           /\ pc # "record" => Owed = 0
           /\ pc # "listening" => Opened = FALSE
           /\ env.dev \in BOOLEAN /\ image \in Nat
<1> USE BootConstants
<1>1. /\ Version \subseteq Nat /\ 0 \notin Version /\ image \in Nat
      /\ todo \in SUBSET Version /\ recorded \in SUBSET Version /\ env.dev \in BOOLEAN
  BY DEF IInv, TypeOK, Version
<1>2. recorded \subseteq Begun
  BY <1>1 DEF IInv, RecordedMeansApplied, Begun
<1>3. \A v \in Begun : v \in 1..image /\ 1..(v - 1) \subseteq recorded
  BY DEF OneAhead, Begun, Version
<1>4. pc = "record" => First(todo) \in todo
  BY <1>1, FirstIsLeast DEF IInv, Migrating
<1> QED BY <1>1, <1>2, <1>3, <1>4 DEF Owed, Opened

\* A step that leaves the database alone, and nobody listening, closes at most.
LEMMA HistoryCloses ==
    ASSUME UNCHANGED <<image, created, recorded>>,
           pc # "record", pc' \notin {"record", "listening"}
    PROVE  History!HistoryNext
<1>1. Begun' = Begun
  BY DEF Begun
<1>2. (pc' = "listening" /\ ~env'.dev) = FALSE
  OBVIOUS
<1>3. History!Close
  BY <1>1, <1>2 DEF History!Close, Begun
<1> QED BY <1>3 DEF History!HistoryNext

\* A step that leaves database and process alone shows nothing.
LEMMA HistoryKept ==
    ASSUME UNCHANGED <<env, image, created, recorded, pc, todo>>
    PROVE  HistoryUnchanged
BY DEF HistoryUnchanged, Begun, Owed, Opened

\* A row that is owed and will not be written: its call failed, or a kill came.
LEMMA HistoryAbandons ==
    ASSUME BootAssumption, IInv, OneAhead, pc = "record", pc' = "down",
           UNCHANGED <<image, created, recorded>>
    PROVE  History!HistoryNext
<1>1. Owed # 0 /\ Owed' = 0 /\ Begun' = Begun
  BY HistoryTypes DEF Owed, Begun
<1>2. (pc = "listening" /\ ~env.dev) = FALSE /\ (pc' = "listening" /\ ~env'.dev) = FALSE
  OBVIOUS
<1>3. History!Abandon
  BY <1>1, <1>2 DEF History!Abandon, Owed, Begun
<1> QED BY <1>3 DEF History!HistoryNext

\* The body of a migration begins it, on a schema without it; over one that has
\* it, or if nothing of it ran, the process just ends.
LEMMA ApplyBodyBegins ==
    ASSUME BootAssumption, IInv, OneAhead, ApplyBody
    PROVE  History!HistoryNext
<1> DEFINE v == First(todo)
<1> USE BootConstants
<1>1. /\ pc = "apply" /\ todo = (1..image) \ recorded /\ v \in todo
      /\ \A u \in todo : v <= u
      /\ todo \in SUBSET Version
  BY FirstIsLeast DEF ApplyBody, IInv, TypeOK, Migrating
<1>2. /\ UNCHANGED <<image, recorded>>
      /\ \A u \in Version : u # v => created'[u] = created[u]
      /\ created'[v] >= created[v] /\ created[v] \in Nat /\ created'[v] \in Nat
      /\ \/ pc' = "down"
         \/ pc' = "record" /\ todo' = todo /\ created[v] = 0
  <2>1. UNCHANGED <<image, recorded>> /\ created \in [Version -> 0..Statements]
    BY DEF ApplyBody, IInv, TypeOK
  <2>2. created' \in [Version -> 0..Statements]
    BY ApplyBodyKeeps DEF IInv, TypeOK
  <2> QED BY <1>1, <2>1, <2>2, ApplyBodyOutcome DEF Go, Down
<1>3. (pc = "listening" /\ ~env.dev) = FALSE /\ (pc' = "listening" /\ ~env'.dev) = FALSE
  BY <1>1, <1>2
<1>4. pc' = "record" => created'[v] > 0
  <2>1. IInv'
    BY ApplyBodyKeeps
  <2> QED BY <1>2, <2>1 DEF IInv, Migrating
<1>5. v \in Version /\ v \in 1..image /\ image \in Nat
  BY <1>1, HistoryTypes
<1>6. CASE created[v] > 0 \/ created'[v] = 0
  <2>1. Begun' = Begun /\ pc' = "down"
    BY <1>2, <1>4, <1>5, <1>6 DEF Begun
  <2>2. History!Close
    BY <1>1, <1>2, <1>3, <2>1 DEF History!Close, Begun
  <2> QED BY <2>2 DEF History!HistoryNext
<1>7. CASE created[v] = 0 /\ created'[v] > 0
  <2> HIDE DEF v
  <2>1. Begun' = Begun \cup {v} /\ v \notin Begun
    <3>1. \A u \in Version : created'[u] > 0 <=> u = v \/ created[u] > 0
      BY <1>2, <1>7
    <3>2. ~(created[v] > 0)
      BY <1>7
    <3> QED BY <1>5, <3>1, <3>2 DEF Begun
  <2>2. Begun = recorded
    <3>1. ASSUME NEW u \in Begun, u \notin recorded PROVE FALSE
      <4>1. u \in todo /\ 1..(u - 1) \subseteq recorded
        BY <1>1, <3>1, HistoryTypes
      <4>2. u # v /\ v <= u /\ v \in 1..(u - 1)
        BY <1>1, <1>5, <2>1, <3>1, <4>1 DEF Version
      <4> QED BY <1>1, <4>1, <4>2
    <3> QED BY <3>1, HistoryTypes
  <2>3. 1..(v - 1) \subseteq recorded
    <3>1. ASSUME NEW u \in 1..(v - 1), u \notin recorded PROVE FALSE
      <4>1. u < v /\ v <= image /\ u \in 1..image
        BY <1>5, <3>1
      <4>2. u \in todo /\ ~(v <= u)
        BY <1>1, <1>5, <3>1, <4>1
      <4> QED BY <1>1, <4>2
    <3> QED BY <3>1
  <2>4. Owed = 0 /\ Owed' \in {v, 0}
    BY <1>1, <1>2 DEF Owed, v
  <2>5. PICK w : w = v
    OBVIOUS
  <2>6. History!Begin(w)
    BY <1>2, <1>3, <2>1, <2>2, <2>3, <2>4, <2>5 DEF History!Begin, Begun, Owed
  <2> QED BY <1>5, <2>5, <2>6 DEF History!HistoryNext
<1> QED BY <1>2, <1>6, <1>7

\* The row of the migration whose body ran.
LEMMA RecordNotes ==
    ASSUME BootAssumption, IInv, OneAhead, Record
    PROVE  History!HistoryNext
<1>1. /\ pc = "record" /\ pc' \in {"wire", "apply", "down"}
      /\ recorded' = recorded \cup {First(todo)} /\ UNCHANGED <<image, created>>
  BY DEF Record, Go, Down
<1>2. Owed # 0 /\ Owed = First(todo) /\ Owed' = 0 /\ Begun' = Begun
  BY <1>1, HistoryTypes DEF Owed, Begun
<1>3. (pc = "listening" /\ ~env.dev) = FALSE /\ (pc' = "listening" /\ ~env'.dev) = FALSE
  BY <1>1
<1>4. History!Note
  BY <1>1, <1>2, <1>3 DEF History!Note, Owed, Begun
<1> QED BY <1>4 DEF History!HistoryNext

\* Listening, which development does over no schema at all.
LEMMA WireOpens ==
    ASSUME BootAssumption, IInv, OneAhead, Wire
    PROVE  History!HistoryNext \/ HistoryUnchanged
<1>1. pc = "wire" /\ UNCHANGED <<env, image, created, recorded>>
  BY DEF Wire, database
<1>2. CASE ~Has("jwt")
  <2>1. pc' = "down"
    BY <1>2 DEF Wire, Down
  <2> QED BY <1>1, <2>1, HistoryCloses
<1>3. CASE Has("jwt")
  <2>1. pc' = "listening"
    BY <1>3 DEF Wire
  <2>2. Owed = 0 /\ Owed' = 0 /\ Begun' = Begun
    BY <1>1, <2>1 DEF Owed, Begun
  <2>3. CASE env.dev
    BY <1>1, <2>1, <2>2, <2>3 DEF HistoryUnchanged, Opened
  <2>4. CASE ~env.dev
    <3>1. 1..image \subseteq recorded
      BY <1>1, <2>4 DEF IInv, Migrating
    <3>2. Begun = 1..image /\ recorded = 1..image
      BY <3>1, HistoryTypes
    <3>3. (pc' = "listening" /\ ~env'.dev) = TRUE
      BY <1>1, <2>1, <2>4
    <3>4. History!Open
      BY <1>1, <2>2, <3>2, <3>3 DEF History!Open, Begun, Owed
    <3> QED BY <3>4 DEF History!HistoryNext
  <2> QED BY <2>3, <2>4
<1> QED BY <1>2, <1>3

\* A deployment, which finds no migration under way.
LEMMA DeployReleases ==
    ASSUME Deploy
    PROVE  History!HistoryNext
<1>1. /\ image' = image + 1 /\ image < Migrations /\ UNCHANGED <<created, recorded>>
      /\ pc # "record" /\ pc' \notin {"record", "listening"}
  BY DEF Deploy, Drain, database, process
<1>2. Owed = 0 /\ Owed' = 0 /\ Begun' = Begun
  BY <1>1 DEF Owed, Begun
<1>3. (pc' = "listening" /\ ~env'.dev) = FALSE
  BY <1>1
<1>4. History!Release
  BY <1>1, <1>2, <1>3 DEF History!Release, Owed, Begun
<1> QED BY <1>4 DEF History!HistoryNext

LEMMA StepIsHistory ==
    ASSUME BootAssumption, IInv, OneAhead, [Next]_vars
    PROVE  History!HistoryNext \/ HistoryUnchanged
<1>1. CASE EnsureTable \/ CheckVersion
  <2>1. /\ UNCHANGED <<image, created, recorded>>
        /\ pc # "record" /\ pc' \notin {"record", "listening"}
    BY <1>1, CheckVersionOutcome DEF EnsureTable, CheckVersion, Go, Down, database
  <2> QED BY <2>1, HistoryCloses
<1>2. CASE CallUnseen \/ Kill \/ ShutdownDone \/ ShutdownTimesOut
  <2>1. UNCHANGED <<image, created, recorded>> /\ pc' = "down"
    BY <1>2 DEF CallUnseen, Kill, ShutdownDone, ShutdownTimesOut, Down, database
  <2> QED BY <2>1, HistoryCloses, HistoryAbandons
<1>3. CASE Start \/ Terminate \/ Sleep
  <2>1. /\ UNCHANGED <<image, created, recorded>>
        /\ pc # "record" /\ pc' \notin {"record", "listening"}
    BY <1>3 DEF Start, Terminate, Sleep, Drain, database
  <2> QED BY <2>1, HistoryCloses
<1>4. CASE Refuse \/ Second \/ UNCHANGED vars \/ \E r \in Requests : Ask(r) \/ Handle(r) \/ Respond(r)
  <2>1. UNCHANGED <<env, image, created, recorded, pc, todo>>
    BY <1>4 DEF Refuse, Second, Ask, Handle, Respond, vars, database, process
  <2> QED BY <2>1, HistoryKept
<1> QED BY <1>1, <1>2, <1>3, <1>4, ApplyBodyBegins, RecordNotes, WireOpens, DeployReleases
        DEF Next, BootStep

(* The migrator over D1 keeps the history of the schema (Apply, setupApp): *)
(* each migration is begun once, in order and behind recorded ones only,   *)
(* recorded by the process that ran it, and production listens only over   *)
(* all of them, for any list of migrations and any failures and kills.     *)
THEOREM BootKeepsHistory == Spec => ImplementsSchemaHistory
<1>1. Init => History!HistoryInit
  <2> SUFFICES ASSUME Init PROVE History!HistoryInit
    OBVIOUS
  <2>1. Begun = {} /\ Owed = 0 /\ image = 1 /\ recorded = {}
    BY DEF Init, Begun, Owed
  <2>2. (pc = "listening" /\ ~env.dev) = FALSE
    BY DEF Init
  <2> QED BY <2>1, <2>2 DEF History!HistoryInit, Begun, Owed
<1>2. IInv /\ OneAhead /\ [Next]_vars => [History!HistoryNext]_(History!historyVars)
  BY BootAssumption, StepIsHistory
     DEF HistoryUnchanged, History!historyVars, Begun, Owed, Opened
<1> QED BY <1>1, <1>2, BootInvariant, OneAheadInvariant, PTL
        DEF Spec, ImplementsSchemaHistory, History!HistorySpec
=============================================================================
