----------------------------- MODULE PositionLog -----------------------------
(***************************************************************************)
(* What POST /api/positions promises: every position a driver sends enters *)
(* the log of its vehicle at most once, in the order the database numbers  *)
(* them, and is acknowledged and shown only then; it leaves the log only   *)
(* with its vehicle.  Positions.tla implements it with overlapping         *)
(* requests, each several D1 calls and publishes that may fail.            *)
(***************************************************************************)
EXTENDS VehicleTable, Naturals

CONSTANTS
    Place,      \* where a vehicle can be
    MaxFixes    \* bound on the positions drivers send

VARIABLES
    sent,       \* how many positions were sent; numbers recorded_at
    waiting,    \* those not in the log, which may still enter it
    log,        \* the positions stored, with their numbers
    last,       \* the highest number given
    acked,      \* the positions whose senders were answered 201
    shown       \* shown[v]: recorded_at of the last position broadcast

logVars == <<driverOf, sent, waiting, log, last, acked, shown>>

Fix == [id : 0..MaxFixes, v : Vehicle, at : Place, rec : 1..MaxFixes]

LogInit ==
    /\ TableInit
    /\ sent = 0
    /\ waiting = {}
    /\ log = {}
    /\ last = 0
    /\ acked = {}
    /\ shown = [v \in Vehicle |-> 0]

\* In the log, or its vehicle was deleted and took it along.
Stored(x) == x \in log \/ (x.id \in 1..last /\ driverOf[x.v] = Gone)

Send(v, at) ==
    /\ driverOf[v] \in Driver
    /\ sent' = sent + 1
    /\ waiting' = waiting \cup {[id |-> 0, v |-> v, at |-> at, rec |-> sent + 1]}
    /\ UNCHANGED <<driverOf, log, last, acked, shown>>

Store(x) ==
    /\ x \in waiting
    /\ Exists(x.v)
    /\ waiting' = waiting \ {x}
    /\ log' = log \cup {[x EXCEPT !.id = last + 1]}
    /\ last' = last + 1
    /\ UNCHANGED <<driverOf, sent, acked, shown>>

GiveUp(lost) ==
    /\ lost \subseteq waiting
    /\ waiting' = waiting \ lost
    /\ UNCHANGED <<driverOf, sent, log, last, acked, shown>>

Acknowledge(x) ==
    /\ Stored(x)
    /\ acked' = acked \cup {x}
    /\ UNCHANGED <<driverOf, sent, waiting, log, last, shown>>

Show(x) ==
    /\ Stored(x)
    /\ shown' = [shown EXCEPT ![x.v] = x.rec]
    /\ UNCHANGED <<driverOf, sent, waiting, log, last, acked>>

HandOver(v, d) ==
    /\ Add(v, d) \/ Reassign(v, d)
    /\ UNCHANGED <<sent, waiting, log, last, acked, shown>>

Delete(v) ==
    /\ Drop(v)
    /\ log' = {x \in log : x.v # v}
    /\ UNCHANGED <<sent, waiting, last, acked, shown>>

LogNext ==
    \/ \E v \in Vehicle, at \in Place : Send(v, at)
    \/ \E x \in waiting : Store(x)
    \/ \E lost \in SUBSET waiting : GiveUp(lost)
    \/ \E x \in Fix : Acknowledge(x) \/ Show(x)
    \/ \E v \in Vehicle, d \in DriverId : HandOver(v, d)
    \/ \E v \in Vehicle : Delete(v)

LogSpec == LogInit /\ [][LogNext]_logVars
=============================================================================
