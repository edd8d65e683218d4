------------------------------ MODULE Revocation ------------------------------
(***************************************************************************)
(* The Go API and the FleetHub Durable Object over the one sessions KV     *)
(* they share: what a logout does to the WebSockets of its token.          *)
(***************************************************************************)
EXTENDS Session

CONSTANTS Sock, NoJti, EveryN, CacheTTL, MaxFrames, MaxPending, MaxEvents

VARIABLES
    sock, pending, cache, published, inbox, hist,
    outAt       \* history: msgCount of s when its token's logout was answered

Hub == INSTANCE FleetHub

hubVars == <<sock, pending, cache, published, inbox, hist>>
revocationVars == <<vars, hubVars, outAt>>

RevocationInit ==
    /\ Init
    /\ Hub!HubInit
    /\ outAt = [s \in Sock |-> 0]

\* The Go API moves: the hub does not, and a logout answered now is remembered.
ApiStep ==
    /\ SessionNext
    /\ outAt' = [s \in Sock |->
                    IF sock[s].jti \in signedOut' \ signedOut THEN sock[s].cnt ELSE outAt[s]]
    /\ UNCHANGED hubVars

SocketStep ==
    /\ Hub!HubNext
    /\ UNCHANGED <<req, signedOut, outAt>>

TimeStep == ClockStep /\ UNCHANGED <<hubVars, outAt>>

RevocationNext == ApiStep \/ SocketStep \/ TimeStep

RevocationSpec == RevocationInit /\ [][RevocationNext]_revocationVars

-----------------------------------------------------------------------------
\* fleet-hub.ts (Env and "Blocklist check parameters"): the backend writes the
\* jti on logout, the object reads it "to close revoked WS connections
\* promptly", and a token used after logout "still loses fan-out within
\* seconds of their next ping burst".  So no socket of a live, logged-out token
\* is still open N frames after the logout was answered, unless a re-check is
\* waiting or met a KV failure.
LogoutClosesSockets ==
    \A s \in Hub!Open :
        /\ sock[s].jti \in signedOut
        /\ now < exp[sock[s].jti]
        /\ ~hist[s].excused
        /\ sock[s].cnt >= outAt[s] + EveryN
        => \E c \in pending : c.s = s /\ c.n > outAt[s]

\* What the two key families make of it: auth_usecase.go writes "bl:" + jti and
\* fleet-hub.ts reads the bare jti, so neither the upgrade's check nor the
\* re-check of frames ever finds an entry, and no socket is refused or closed
\* for a logout, however the two interleave.
RecheckNeverFires ==
    \A s \in Sock : sock[s].st \notin {"refused", "kicked"}
=============================================================================
