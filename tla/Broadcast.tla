------------------------------ MODULE Broadcast ------------------------------
(***************************************************************************)
(* What the FleetHub promises the dashboards: a connection joins once, is  *)
(* sent every event from then on, at the moment all the others are, and    *)
(* leaves once, of itself or because a send to it failed; nobody else      *)
(* misses an event for it.  FleetHub.tla implements it.                    *)
(***************************************************************************)
EXTENDS Naturals

CONSTANT Sock       \* connection attempts

VARIABLES
    joined,         \* the connections that were ever members
    members,        \* those that are
    published,      \* the number of events
    sent            \* sent[s]: the events the member s was sent

broadcastVars == <<joined, members, published, sent>>

BroadcastInit ==
    /\ joined = {}
    /\ members = {}
    /\ published = 0
    /\ sent = [s \in Sock |-> {}]

Join(s) ==
    /\ s \notin joined
    /\ joined' = joined \cup {s}
    /\ members' = members \cup {s}
    /\ UNCHANGED <<published, sent>>

Leave(s) ==
    /\ s \in members
    /\ members' = members \ {s}
    /\ sent' = [sent EXCEPT ![s] = {}]
    /\ UNCHANGED <<joined, published>>

Announce(failing) ==
    /\ failing \subseteq members
    /\ published' = published + 1
    /\ members' = members \ failing
    /\ sent' = [s \in Sock |->
                   IF s \in members' THEN sent[s] \cup {published'} ELSE {}]
    /\ UNCHANGED joined

BroadcastNext ==
    \/ \E s \in Sock : Join(s) \/ Leave(s)
    \/ \E failing \in SUBSET members : Announce(failing)

BroadcastSpec == BroadcastInit /\ [][BroadcastNext]_broadcastVars
=============================================================================
