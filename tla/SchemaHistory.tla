---------------------------- MODULE SchemaHistory ----------------------------
(***************************************************************************)
(* What the migrator promises the database: migrations are begun one at a  *)
(* time, each once, in order, and recorded only by whoever ran the whole   *)
(* body; the API is open only over the schema of its image.  A migration   *)
(* begun and not recorded, and owed no record any more, is the end: nothing*)
(* is begun behind it and nothing opens.  Boot.tla implements it over D1.  *)
(***************************************************************************)
EXTENDS Integers

CONSTANT Migrations \* migrations in the newest image

VARIABLES
    image,      \* how many migrations the deployed image embeds
    begun,      \* the versions whose body has touched the database
    recorded,   \* the rows of schema_migrations
    owed,       \* the version whose body ran, its row to be written next; or 0
    open        \* the API listens in production

historyVars == <<image, begun, recorded, owed, open>>

HistoryInit ==
    /\ image = 1
    /\ begun = {}
    /\ recorded = {}
    /\ owed = 0
    /\ open = FALSE

\* The body of v runs; its process sees to the row, or is gone by then.
Begin(v) ==
    /\ ~open
    /\ begun = recorded
    /\ v \notin begun /\ 1..(v - 1) \subseteq recorded
    /\ begun' = begun \cup {v}
    /\ owed' \in {v, 0}
    /\ UNCHANGED <<image, recorded, open>>

Note ==
    /\ owed # 0
    /\ recorded' = recorded \cup {owed}
    /\ owed' = 0
    /\ UNCHANGED <<image, begun, open>>

Abandon ==
    /\ owed # 0
    /\ owed' = 0
    /\ UNCHANGED <<image, begun, recorded, open>>

Open ==
    /\ begun = 1..image /\ recorded = 1..image
    /\ open' = TRUE
    /\ UNCHANGED <<image, begun, recorded, owed>>

Close ==
    /\ open' = FALSE
    /\ UNCHANGED <<image, begun, recorded, owed>>

Release ==
    /\ image < Migrations
    /\ owed = 0
    /\ image' = image + 1
    /\ open' = FALSE
    /\ UNCHANGED <<begun, recorded, owed>>

HistoryNext ==
    \/ \E v \in 1..image : Begin(v)
    \/ Note \/ Abandon \/ Open \/ Close \/ Release

HistorySpec == HistoryInit /\ [][HistoryNext]_historyVars
=============================================================================
