--------------------------------- MODULE Boot ---------------------------------
(***************************************************************************)
(* The life of the API container: cmd/api/main.go, setupApp of             *)
(* cmd/api/bootstrap.go, config.Load, and the migrator that brings the     *)
(* database up to the image's schema (repository/d1/migrator.go).  The     *)
(* platform starts the one container when a request waits for it, puts it  *)
(* to sleep when idle, replaces its image, and may kill it at any moment;  *)
(* D1 may fail any call, before or after carrying it out.                  *)
(*                                                                         *)
(* Migrations are numbered in the order of their file names.  Each is one  *)
(* body of CREATE statements without IF NOT EXISTS.  The clock of requests *)
(* and of the shutdown counts seconds.                                     *)
(***************************************************************************)
EXTENDS D1Client, Integers, FiniteSets

CONSTANTS
    Migrations,     \* migrations in the newest image
    Statements,     \* CREATE statements in each
    Environments,   \* the deployments considered, each [dev, set]
    Requests,       \* clients of the API
    Deadline,       \* requestDeadline
    Grace,          \* the timeout of ShutdownWithContext
    MaxFaults       \* bound on kills, signals and failed D1 calls

\* What config.Load requires outside development, grouped by who uses it.
Settings == {"cloudflare", "jwt", "quotas", "r2", "publish"}

ASSUME BootAssumption ==
    /\ Migrations \in Nat \ {0} /\ Statements \in Nat \ {0}
    /\ Environments \subseteq [dev : BOOLEAN, set : SUBSET Settings]
    /\ Deadline \in Nat \ {0} /\ Grace \in Nat /\ Grace >= Deadline
    /\ MaxFaults \in Nat

VARIABLES
    env,        \* the environment variables of this deployment
    image,      \* how many migrations the deployed image embeds
    created,    \* created[v]: how many statements of v the database has seen
    tracking,   \* the table schema_migrations exists
    recorded,   \* its rows
    pc,         \* where the process is
    todo,       \* the versions the loop of the moment has still to do
    seen,       \* loadAppliedVersions: the versions found recorded so far
    routes,     \* the optional parts of the wired app
    req,        \* req[r]: the state of r's request
    age,        \* age[r]: seconds since its handler started
    drain,      \* seconds since the shutdown began
    cut,        \* history: the ages of requests a shutdown cut off
    faults

database == <<created, tracking, recorded>>
process == <<pc, todo, seen, routes>>
traffic == <<req, age, drain, cut>>
vars == <<env, image, database, process, traffic, faults>>

Version == 1..Migrations
Nothing == [photos |-> FALSE, publisher |-> "none"]

TypeOK ==
    /\ env \in Environments
    /\ image \in Version
    /\ created \in [Version -> 0..Statements]
    /\ tracking \in BOOLEAN
    /\ recorded \in SUBSET Version
    /\ pc \in {"down", "ensure", "check", "apply", "record", "wire", "listening", "draining"}
    /\ todo \in SUBSET Version
    /\ seen \in SUBSET Version
    /\ routes \in [photos : BOOLEAN, publisher : {"none", "noop", "signed"}]
    /\ req \in [Requests -> {"none", "waiting", "handled"}]
    /\ age \in [Requests -> 0..Deadline]
    /\ drain \in 0..Grace
    /\ cut \in SUBSET (0..Deadline)
    /\ faults \in 0..MaxFaults

Init ==
    /\ env \in Environments
    /\ image = 1
    /\ created = [v \in Version |-> 0]
    /\ tracking = FALSE
    /\ recorded = {}
    /\ pc = "down" /\ todo = {} /\ seen = {} /\ routes = Nothing
    /\ req = [r \in Requests |-> "none"]
    /\ age = [r \in Requests |-> 0]
    /\ drain = 0
    /\ cut = {}
    /\ faults = 0

-----------------------------------------------------------------------------
(* The process ends: log.Fatal, os.Exit, the end of main, or a kill.       *)

Handled == {r \in Requests : req[r] = "handled"}

\* Clients in the middle of a request see the connection drop.
Down ==
    /\ pc' = "down" /\ todo' = {} /\ seen' = {} /\ routes' = Nothing
    /\ req' = [r \in Requests |-> IF r \in Handled THEN "none" ELSE req[r]]
    /\ age' = [r \in Requests |-> 0]
    /\ drain' = 0

Fault == faults < MaxFaults /\ faults' = faults + 1

\* a answers a body whose statements went as `results`.  An answer that tells
\* nothing is a fault.
Answers(a, results) ==
    \/ a \in Told(results) /\ UNCHANGED faults
    \/ a \in Garbled /\ Fault

Row(rows) == <<[success |-> TRUE, rows |-> rows]>>

\* The call succeeded: on with it.
Go(next, left, found) ==
    pc' = next /\ todo' = left /\ seen' = found /\ UNCHANGED <<routes, req, age, drain>>

-----------------------------------------------------------------------------
(* setupApp and config.Load.                                               *)

Has(setting) == setting \in env.set

\* config.Load: outside development every setting must be there.
ConfigLoads == env.dev \/ Settings \subseteq env.set

\* NewD1Client and the two KV clients need the account in development too.
ClientsBuilt == Has("cloudflare")

\* The platform starts the container for a waiting request.  Up to its first
\* D1 call the process only reads its environment.
Start ==
    /\ pc = "down"
    /\ \E r \in Requests : req[r] = "waiting"
    /\ ConfigLoads /\ ClientsBuilt
    /\ pc' = IF env.dev THEN "wire" ELSE "ensure"
    /\ UNCHANGED <<env, image, database, todo, seen, routes, traffic, faults>>

\* It exits with an error, and will again.
Refuse ==
    /\ pc = "down"
    /\ \E r \in Requests : req[r] = "waiting"
    /\ ~(ConfigLoads /\ ClientsBuilt)
    /\ UNCHANGED vars

First_Newest(versions) == CHOOSE v \in versions : \A u \in versions : v >= u

\* discoverMigrations sorts by name.
First(versions) == CHOOSE v \in versions : \A u \in versions : v <= u

EnsureTable_NotIdempotent ==
    /\ pc = "ensure"
    /\ tracking' = TRUE
    /\ LET results == <<[success |-> ~tracking, rows |-> <<>>]>>
       IN  \E a \in Told(results) \cup Garbled :
            /\ Answers(a, results)
            /\ IF Exec(a) = "ok" THEN Go("check", 1..image, {}) ELSE Down
    /\ UNCHANGED <<env, image, created, recorded, cut>>

\* ensureTrackingTable: CREATE TABLE IF NOT EXISTS.
EnsureTable ==
    /\ pc = "ensure"
    /\ tracking' = TRUE
    /\ \E a \in Told(Row(<<>>)) \cup Garbled :
        /\ Answers(a, Row(<<>>))
        /\ IF Exec(a) = "ok" THEN Go("check", 1..image, {}) ELSE Down
    /\ UNCHANGED <<env, image, created, recorded, cut>>

\* What Apply has left to do: the versions found recorded are skipped.
Pending(found) == (1..image) \ found

\* isNoRowsErr
NoRows(error) == error = "no rows"

\* loadAppliedVersions: one SELECT a version.  With the last of them the loop
\* of Apply begins.
CheckVersion ==
    /\ pc = "check"
    /\ LET v == First(todo)
           rest == todo \ {v}
           results == Row(IF v \in recorded THEN <<v>> ELSE <<>>)
       IN  \E a \in Told(results) \cup Garbled :
            /\ Answers(a, results)
            /\ LET error == QueryRow(a)
                   found == IF error = "ok" THEN seen \cup {v} ELSE seen
               IN  IF error # "ok" /\ ~NoRows(error) THEN Down
                   ELSE IF rest # {} THEN Go("check", rest, found)
                   ELSE Go(IF Pending(found) = {} THEN "wire" ELSE "apply",
                           Pending(found), found)
    /\ UNCHANGED <<env, image, database, cut>>

\* D1 ran the first k statements of a body.
Outcome(k) ==
    [i \in 1..(IF k = Statements THEN k ELSE k + 1) |->
        [success |-> i <= k, rows |-> <<>>]]

ApplyBody_Repeatable ==
    /\ pc = "apply"
    /\ \E k \in 0..Statements :
        /\ created' = [created EXCEPT ![First(todo)] = @ + k]
        /\ IF k = Statements THEN Go("record", todo, seen) /\ UNCHANGED faults
                             ELSE Down /\ Fault
    /\ UNCHANGED <<env, image, tracking, recorded, cut>>

\* Apply: the body of the next pending version.  CREATE TABLE fails where the
\* table exists; on a fresh schema D1 stops half way only if it breaks.
ApplyBody ==
    /\ pc = "apply"
    /\ LET v == First(todo)
           fresh == created[v] = 0
       IN  \E k \in 0..Statements : \E a \in Told(Outcome(k)) \cup Garbled :
            /\ ~fresh => k = 0
            /\ IF fresh /\ k < Statements THEN Fault ELSE Answers(a, Outcome(k))
            /\ created' = [created EXCEPT ![v] = @ + k]
            /\ IF Exec(a) = "ok" THEN Go("record", todo, seen) ELSE Down
    /\ UNCHANGED <<env, image, tracking, recorded, cut>>

\* Apply: its row in schema_migrations, by a call of its own.
Record ==
    /\ pc = "record"
    /\ LET rest == todo \ {First(todo)} IN
       /\ recorded' = recorded \cup {First(todo)}
       /\ \E a \in Told(Row(<<>>)) \cup Garbled :
            /\ Answers(a, Row(<<>>))
            /\ IF Exec(a) = "ok"
               THEN Go(IF rest = {} THEN "wire" ELSE "apply", rest, seen)
               ELSE Down
    /\ UNCHANGED <<env, image, created, tracking, cut>>

CallUnseen_LoggedOnly ==
    /\ pc \in {"ensure", "check", "apply", "record"}
    /\ Fault
    /\ Go("wire", {}, seen)
    /\ UNCHANGED <<env, image, database, cut>>

\* Any of these calls may fail before D1 saw it.
CallUnseen ==
    /\ pc \in {"ensure", "check", "apply", "record"}
    /\ Fault
    /\ Down
    /\ UNCHANGED <<env, image, database, cut>>

\* The rest of setupApp, and Listen.  No call leaves the process.  The photo
\* routes exist only if both their clients were built.
Wire ==
    /\ pc = "wire"
    /\ IF Has("jwt")
       THEN /\ pc' = "listening"
            /\ routes' = [photos    |-> Has("r2") /\ Has("quotas"),
                          publisher |-> IF Has("publish") THEN "signed" ELSE "noop"]
            /\ UNCHANGED <<todo, seen, req, age, drain>>
       ELSE Down
    /\ UNCHANGED <<env, image, database, cut, faults>>

BootStep ==
    \/ EnsureTable \/ CheckVersion \/ ApplyBody \/ Record \/ CallUnseen \/ Wire

-----------------------------------------------------------------------------
(* Requests, under RequestDeadline, and the shutdown.                      *)

\* The client asks, and asks again until it is served.
Ask(r) ==
    /\ req[r] = "none"
    /\ req' = [req EXCEPT ![r] = "waiting"]
    /\ UNCHANGED <<env, image, database, process, age, drain, cut, faults>>

Handle(r) ==
    /\ pc = "listening"
    /\ req[r] = "waiting"
    /\ req' = [req EXCEPT ![r] = "handled"]
    /\ age' = [age EXCEPT ![r] = 0]
    /\ UNCHANGED <<env, image, database, process, drain, cut, faults>>

\* Every outbound call carries the deadline: the handler is done by then.
Respond(r) ==
    /\ req[r] = "handled"
    /\ req' = [req EXCEPT ![r] = "none"]
    /\ age' = [age EXCEPT ![r] = 0]
    /\ UNCHANGED <<env, image, database, process, drain, cut, faults>>

Second ==
    /\ Handled # {}
    /\ \A r \in Handled : age[r] < Deadline
    /\ pc = "draining" => drain < Grace
    /\ age' = [r \in Requests |-> IF r \in Handled THEN age[r] + 1 ELSE age[r]]
    /\ drain' = IF pc = "draining" THEN drain + 1 ELSE drain
    /\ UNCHANGED <<env, image, database, process, req, cut, faults>>

\* SIGTERM while listening: ShutdownWithContext closes the listener.
Drain == pc' = "draining" /\ UNCHANGED <<todo, seen, routes>>

Terminate_AtOnce ==
    /\ pc = "listening"
    /\ Fault
    /\ cut' = cut \cup {age[r] : r \in Handled}
    /\ Down
    /\ UNCHANGED <<env, image, database>>

\* The platform moves the container.
Terminate ==
    /\ pc = "listening"
    /\ Fault
    /\ Drain
    /\ UNCHANGED <<env, image, database, traffic>>

\* sleepAfter: nobody asked for a while.
Sleep ==
    /\ pc = "listening"
    /\ \A r \in Requests : req[r] = "none"
    /\ Drain
    /\ UNCHANGED <<env, image, database, traffic, faults>>

ShutdownDone ==
    /\ pc = "draining"
    /\ Handled = {}
    /\ Down
    /\ UNCHANGED <<env, image, database, cut, faults>>

\* The context of the shutdown ends first: exit 1.
ShutdownTimesOut ==
    /\ pc = "draining"
    /\ drain = Grace
    /\ Handled # {}
    /\ cut' = cut \cup {age[r] : r \in Handled}
    /\ Down
    /\ UNCHANGED <<env, image, database, faults>>

\* A crash, or a SIGTERM before signal.Notify.
Kill ==
    /\ pc # "down"
    /\ Fault
    /\ Down
    /\ UNCHANGED <<env, image, database, cut>>

\* A deployment: new image, and the running container is told to go.
Deploy ==
    /\ image < Migrations
    /\ pc \in {"down", "listening"}
    /\ image' = image + 1
    /\ IF pc = "listening" THEN Drain ELSE UNCHANGED process
    /\ UNCHANGED <<env, database, traffic, faults>>

Next ==
    \/ Start \/ Refuse \/ BootStep
    \/ \E r \in Requests : Ask(r) \/ Handle(r) \/ Respond(r)
    \/ Second \/ Terminate \/ Sleep \/ ShutdownDone \/ ShutdownTimesOut
    \/ Kill \/ Deploy

\* The process runs, handlers return, and the platform starts the container
\* for whoever waits.  Nothing makes clients ask, or the platform stop it.
Fairness ==
    /\ WF_vars(Start) /\ WF_vars(BootStep)
    /\ WF_vars(ShutdownDone) /\ WF_vars(ShutdownTimesOut)
    /\ \A r \in Requests : WF_vars(Handle(r)) /\ WF_vars(Respond(r))

Spec == Init /\ [][Next]_vars /\ Fairness

-----------------------------------------------------------------------------
(* A row of schema_migrations says that the whole migration is in the      *)
(* database, whatever D1 reported and wherever the process stopped (Apply  *)
(* over doQuery).                                                          *)
RecordedMeansApplied == \A v \in recorded : created[v] = Statements

(* No migration is recorded before an earlier one (discoverMigrations).    *)
InOrder == \A v \in recorded : 1..v \subseteq recorded

(* In production the API listens only over the schema of its own image,    *)
(* across restarts, deployments and failing calls, and with every optional *)
(* part: the photo routes and a publisher that signs (setupApp, Listen).   *)
ServesComplete ==
    pc = "listening" /\ ~env.dev =>
        /\ 1..image \subseteq recorded
        /\ routes = [photos |-> TRUE, publisher |-> "signed"]

(* A shutdown cuts off no request that had any of its deadline left        *)
(* (main's ten seconds against requestDeadline).                           *)
CutOnlyAtDeadline == cut \subseteq {Deadline}

\* Nothing happened between the body of a migration and its row.
Torn(v) == created[v] > 0 /\ v \notin recorded /\ ~(pc = "record" /\ First(todo) = v)

(* Nothing ever mends such a migration: CREATE TABLE fails on what the      *)
(* first attempt made, and Record is only reached behind a body that ran   *)
(* (Apply).                                                                *)
TornForGood == [][\A v \in Version : Torn(v) => Torn(v)']_vars

(* And no process gets past it: with a torn migration in the database      *)
(* nothing is recorded any more, and nobody listens (setupApp, Apply).     *)
TornStaysDown ==
    (\E v \in Version : Torn(v)) => pc \in {"down", "ensure", "check", "apply"}

Starting == pc \in {"ensure", "check", "apply", "record", "wire"}

\* The part of the start a process is in, from the last.
Stage ==
    IF pc = "ensure" THEN 4
    ELSE IF pc = "check" THEN 3
    ELSE IF pc \in {"apply", "record"} THEN 2
    ELSE IF pc = "wire" THEN 1
    ELSE 0

\* A step towards Listen: the next part, or the same with less to do.
Nearer ==
    /\ pc' # "down"
    /\ \/ Stage' < Stage
       \/ Stage' = Stage /\ todo' \subseteq todo /\ todo' # todo
       \/ pc = "apply" /\ pc' = "record" /\ todo' = todo

(* A start comes nearer to Listen with every step, or there is a reason:   *)
(* a kill or a D1 call that failed, a torn migration, no signing key.  What*)
(* an earlier process left half done is otherwise no obstacle: tables that *)
(* exist, rows that are missing or there (setupApp, Apply).                *)
StartAdvances ==
    [][Starting /\ process' # process =>
          \/ Nearer
          \/ faults' # faults
          \/ \E v \in Version : Torn(v)
          \/ pc = "wire" /\ ~Has("jwt")]_vars

History == INSTANCE SchemaHistory WITH
              begun <- {v \in Version : created[v] > 0},
              owed <- IF pc = "record" THEN First(todo) ELSE 0,
              open <- pc = "listening" /\ ~env.dev

(* Through kills, failing calls, deployments and restarts, migrations are  *)
(* begun once each and in order, recorded only by the process that ran     *)
(* them, and production listens only with all of its image's and nothing   *)
(* half done (Apply, setupApp): see SchemaHistory.                         *)
ImplementsSchemaHistory == History!HistorySpec

Servable == ConfigLoads /\ ClientsBuilt /\ Has("jwt")

(* Whoever waits is served in the end, through kills, sleeps, deployments  *)
(* and failing calls, if none of them falls between the body of a          *)
(* migration and its row (Apply).                                          *)
Served ==
    [](Servable /\ \A v \in Version : ~Torn(v)) =>
        \A r \in Requests : req[r] = "waiting" ~> req[r] = "handled"

(* "The operator should fix the SQL and re-run" (migrator.go:106-110):     *)
(* without the last condition.                                             *)
RerunSucceeds ==
    []Servable => \A r \in Requests : req[r] = "waiting" ~> req[r] = "handled"
=============================================================================
