------------------------------ MODULE LiveStore ------------------------------
(***************************************************************************)
(* The live channel of one browser tab: stores/fleet.ts over VueUse's      *)
(* useWebSocket, and the dashboard page that connects when it is mounted   *)
(* and disconnects before it unmounts.  Each connect makes a handle of its *)
(* own; the close event of an old handle may come at any time after the    *)
(* next one was made.                                                      *)
(*                                                                         *)
(* What the frames carry is Positions.tla's.                               *)
(***************************************************************************)
EXTENDS Naturals

CONSTANTS
    Handle,     \* useWebSocket handles, reused once their socket is closed
    None

ASSUME LiveStoreAssumption == None \notin Handle

VARIABLES
    wsBase,     \* the tab was built with a NUXT_PUBLIC_WS_BASE that makes a URL
    mounted,    \* the dashboard is on screen
    up,         \* the gateway can be reached and accepts the upgrade
    sock,       \* sock[h]: h's socket, or its wait for a retry
    ws,         \* the store's handle
    status,     \* what the badge shows
    heartbeat   \* the handle whose socket the interval pings

vars == <<wsBase, mounted, up, sock, ws, status, heartbeat>>

TypeOK ==
    /\ wsBase \in BOOLEAN /\ mounted \in BOOLEAN /\ up \in BOOLEAN
    /\ sock \in [Handle -> {"closed", "connecting", "open", "waiting", "closing"}]
    /\ ws \in Handle \cup {None}
    /\ status \in {"idle", "connecting", "open", "reconnecting", "closed"}
    /\ heartbeat \in Handle \cup {None}

Init ==
    /\ wsBase \in BOOLEAN
    /\ mounted = FALSE /\ up = TRUE
    /\ sock = [h \in Handle |-> "closed"]
    /\ ws = None
    /\ status = "idle"
    /\ heartbeat = None

-----------------------------------------------------------------------------
\* onMounted calls connect: a new handle, which opens a socket at once, unless
\* the store has one, or there is no URL and connect catches what is thrown.
Mount(h) ==
    /\ ~mounted
    /\ mounted' = TRUE
    /\ IF ws # None THEN UNCHANGED <<sock, ws, status>>
       ELSE IF ~wsBase THEN status' = "closed" /\ UNCHANGED <<sock, ws>>
       ELSE /\ sock[h] = "closed"
            /\ sock' = [sock EXCEPT ![h] = "connecting"]
            /\ ws' = h
            /\ status' = "connecting"
    /\ UNCHANGED <<wsBase, up, heartbeat>>

\* useWebSocket's close: an open socket begins its closing handshake, a socket
\* not yet open is given up, and a retry is called off.
Closed(h) ==
    [sock EXCEPT ![h] = IF sock[h] = "waiting" THEN "closed" ELSE "closing"]

Unmount_ForgetsSocket ==
    /\ mounted
    /\ mounted' = FALSE
    /\ heartbeat' = None /\ ws' = None /\ status' = "closed"
    /\ UNCHANGED <<wsBase, up, sock>>

\* onBeforeUnmount calls disconnect.
Unmount ==
    /\ mounted
    /\ mounted' = FALSE
    /\ heartbeat' = None
    /\ sock' = IF ws # None THEN Closed(ws) ELSE sock
    /\ ws' = None
    /\ status' = "closed"
    /\ UNCHANGED <<wsBase, up>>

Opens_WithoutHeartbeat(h) ==
    /\ up
    /\ sock[h] = "connecting"
    /\ sock' = [sock EXCEPT ![h] = "open"]
    /\ status' = "open"
    /\ UNCHANGED <<wsBase, mounted, up, ws, heartbeat>>

\* onConnected.
Opens(h) ==
    /\ up
    /\ sock[h] = "connecting"
    /\ sock' = [sock EXCEPT ![h] = "open"]
    /\ status' = "open"
    /\ heartbeat' = h
    /\ UNCHANGED <<wsBase, mounted, up, ws>>

OnDisconnected_KeepsStatus == heartbeat' = None /\ UNCHANGED status

OnDisconnected == status' = "reconnecting" /\ heartbeat' = None

\* autoReconnect: the next attempt is due after a delay, however many failed.
Retry_Never(h) == FALSE

Retry(h) ==
    /\ sock[h] = "waiting"
    /\ sock' = [sock EXCEPT ![h] = "connecting"]
    /\ UNCHANGED <<wsBase, mounted, up, ws, status, heartbeat>>

\* A socket or an attempt fails: the close event, and a retry unless the handle
\* was closed.
Fails(h) ==
    /\ sock[h] \in {"connecting", "open"}
    /\ sock' = [sock EXCEPT ![h] = "waiting"]
    /\ OnDisconnected
    /\ UNCHANGED <<wsBase, mounted, up, ws>>

Drop(h) == ~up /\ Fails(h)

\* The edge closes a socket that nothing was sent on for 100 seconds.
IdleClose(h) == sock[h] = "open" /\ heartbeat # h /\ Fails(h)

\* The close event of a handle that was closed.
LateClose(h) ==
    /\ sock[h] = "closing"
    /\ sock' = [sock EXCEPT ![h] = "closed"]
    /\ OnDisconnected
    /\ UNCHANGED <<wsBase, mounted, up, ws>>

\* The network, or the hub, goes and comes back.
Network ==
    /\ up' = ~up
    /\ UNCHANGED <<wsBase, mounted, sock, ws, status, heartbeat>>

SocketStep(h) == Opens(h) \/ Retry(h) \/ Drop(h) \/ LateClose(h)

Next ==
    \/ Unmount \/ Network
    \/ \E h \in Handle : Mount(h) \/ SocketStep(h) \/ IdleClose(h)

\* The browser's timers fire and its sockets report; people, the network and
\* the edge's patience promise nothing.
Fairness == \A h \in Handle : WF_vars(SocketStep(h))

Spec == Init /\ [][Next]_vars /\ Fairness

-----------------------------------------------------------------------------
\* The badge says Live only of the current handle's open socket, and only while
\* its heartbeat runs: the late close event of an earlier handle, which stops
\* the heartbeat whoever's it is, takes Live away too.
LiveIsLive ==
    status = "open" => ws # None /\ sock[ws] = "open" /\ heartbeat = ws

\* One socket at most is open, being opened or waiting to be: a page left
\* behind does not come back to life, and visits do not pile up sockets.
OneChannel ==
    \A h \in Handle : sock[h] \in {"connecting", "open", "waiting"} => h = ws /\ mounted

\* Sockets of earlier visits whose close event is still to come.
Closing == {h \in Handle : sock[h] = "closing"}

\* How many events the store's socket is away from Live.  One that is open
\* without a heartbeat has to be closed as idle first.
ToGo ==
    CASE sock[ws] = "connecting" -> 1
      [] sock[ws] = "waiting" -> 2
      [] OTHER -> IF heartbeat = ws THEN 0 ELSE 3

\* A page on screen is never left without a socket that is open, being opened
\* or waiting for its retry, unless there is no URL to open; a page left behind
\* keeps none; and a heartbeat pings that one socket, open.
NeverStranded ==
    /\ mounted /\ wsBase => ws # None /\ sock[ws] \in {"connecting", "open", "waiting"}
    /\ ~(mounted /\ wsBase) => ws = None
    /\ heartbeat # None => heartbeat = ws /\ sock[ws] = "open"

\* While page and network stay, whatever happens brings the channel nearer to
\* Live, or uses up one of the close events that set it back: retries lead
\* nowhere else, and no two events undo each other for ever.
ChannelProgress ==
    [][mounted /\ mounted' /\ up /\ up' =>
          \/ Closing' \subseteq Closing /\ Closing' # Closing
          \/ Closing' = Closing /\ ToGo' < ToGo]_vars

\* Once the page stays and the network stays, so in the end does the channel,
\* after any drops, remounts and late events before that.
ChannelReturns == <>[](wsBase /\ mounted /\ up) => <>[](ws # None /\ sock[ws] = "open")
=============================================================================
