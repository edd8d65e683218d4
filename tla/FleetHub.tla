------------------------------ MODULE FleetHub ------------------------------
(***************************************************************************)
(* The FleetHub Durable Object (workers/fleet-hub/src/fleet-hub.ts): every *)
(* dashboard's WebSocket, the fan-out of published events to them, and the *)
(* sampled re-check of the sessions blocklist.                             *)
(*                                                                         *)
(* A Durable Object runs one event at a time, but each await on KV lets    *)
(* other events in: an upgrade or a frame that waits for KV is a record in *)
(* pending, asked first, answered later, finished later still.  The clock, *)
(* the KV and the tokens' expiries belong to the environment.              *)
(***************************************************************************)
EXTENDS SessionsKV, FiniteSets

CONSTANTS
    Sock,       \* connection attempts
    NoJti,      \* the jti of an attempt not made yet
    EveryN,     \* BLOCKLIST_CHECK_EVERY_N
    CacheTTL,   \* BLOCKLIST_CACHE_TTL_MS, in ticks
    MaxFrames,  \* bound on the frames of one socket
    MaxPending, \* bound on the checks that wait for KV at once
    MaxEvents   \* bound on the events published

ASSUME HubAssumption ==
    /\ EveryN \in Nat /\ EveryN >= 2
    /\ CacheTTL \in Nat
    /\ MaxFrames \in Nat
    /\ MaxPending \in Nat
    /\ MaxEvents \in Nat
    /\ NoJti \notin Token

VARIABLES
    exp,        \* exp[j]: the exp claim of the token j; 0 before it is minted
    sock,       \* sock[s]: its state, its token and msgCount of its attachment
    pending,    \* the upgrades (n = 0) and frames (n > 0) waiting for KV
    cache,      \* blocklistCache: expiresAt of a cached "revoked"; 0 when absent
    published,  \* the number of events accepted by /publish
    inbox,      \* inbox[s]: the events sent on the connected socket s
    hist        \* history of a connected socket s: published when it was
                \* accepted, msgCount when its token's entry was written, and
                \* whether one of its re-checks met a KV failure

hubOwn == <<sock, pending, cache, published, inbox>>
vars == <<now, kv, exp, hubOwn, hist>>

\* kicked: close(4001) called; closing: close(1011) called; closed: the close
\* or error hook has run.
SockState == {"none", "checking", "refused", "open", "kicked", "closing", "closed"}

Unconnected(st) == [st |-> st, jti |-> NoJti, cnt |-> 0]

NoHistory == [since |-> 0, revokedAt |-> 0, excused |-> FALSE]

Check == [s : Sock, jti : Token, n : 0..MaxFrames, t0 : 0..MaxTime,
          answer : {"asked", "revoked", "clear"}]

TypeOK ==
    /\ now \in 0..MaxTime
    /\ kv \in [Key -> Nat]
    /\ exp \in [Token -> Nat]
    /\ sock \in [Sock -> [st : SockState, jti : Token \cup {NoJti}, cnt : 0..MaxFrames]]
    /\ pending \in SUBSET Check
    /\ cache \in [Token -> 0..(MaxTime + CacheTTL)]
    /\ published \in 0..MaxEvents
    /\ inbox \in [Sock -> SUBSET (1..MaxEvents)]
    /\ hist \in [Sock -> [since : 0..MaxEvents, revokedAt : 0..MaxFrames, excused : BOOLEAN]]

HubInit ==
    /\ sock = [s \in Sock |-> Unconnected("none")]
    /\ pending = {}
    /\ cache = [j \in Token |-> 0]
    /\ published = 0
    /\ inbox = [s \in Sock |-> {}]
    /\ hist = [s \in Sock |-> NoHistory]

\* Standing alone, the hub meets tokens minted earlier, of any lifetime left.
Init ==
    /\ now = 0
    /\ kv = [k \in Key |-> 0]
    /\ exp \in [Token -> 1..MaxTime]
    /\ HubInit

-----------------------------------------------------------------------------
HubKey(j) == <<"jti", j>>

Open == {s \in Sock : sock[s].st = "open"}

Cached(j) == cache[j] > now

SampledAtN(n) == n % EveryN = 0
SampledOnce(n) == n = 1

\* Frames 1, N + 1, 2N + 1, ... of a socket are re-checked.
Sampled(n) == n % EveryN = 1

\* checkBlocklist's question to KV, with the time read before the await.
Ask(s, j, n) ==
    /\ Cardinality(pending) < MaxPending
    /\ pending' = pending \cup 
        {[s |-> s, jti |-> j, n |-> n, t0 |-> now, answer |-> "asked"]}

CacheRevoked_AnyAnswer(c) ==
    cache' = [cache EXCEPT ![c.jti] = c.t0 + CacheTTL]

\* Only a hit is cached, from the time read before the await.
CacheRevoked(c) ==
    cache' = IF c.answer = "revoked"
             THEN [cache EXCEPT ![c.jti] = c.t0 + CacheTTL]
             ELSE cache

\* handleUpgrade for a request with an allowed Origin and a good token, up to
\* KV's answer.
UpgradeAsk(s, j) ==
    /\ sock[s].st = "none"
    /\ now < exp[j]
    /\ ~Cached(j)
    /\ sock' = [sock EXCEPT ![s] = [st |-> "checking", jti |-> j, cnt |-> 0]]
    /\ Ask(s, j, 0)
    /\ UNCHANGED <<cache, published, inbox, hist>>

UpgradeRefusedByCache(s, j) ==
    /\ sock[s].st = "none"
    /\ now < exp[j]
    /\ Cached(j)
    /\ sock' = [sock EXCEPT ![s] = [st |-> "refused", jti |-> j, cnt |-> 0]]
    /\ UNCHANGED <<pending, cache, published, inbox, hist>>

\* KV answers.
KVAnswer(c) ==
    /\ c.answer = "asked"
    /\ pending' = (pending \ {c}) \cup
           {[c EXCEPT !.answer = IF Found(HubKey(c.jti)) THEN "revoked" ELSE "clear"]}
    /\ UNCHANGED <<sock, cache, published, inbox, hist>>

\* A failure counts as "not revoked".
KVFails(c) ==
    /\ c.answer = "asked"
    /\ pending' = (pending \ {c}) \cup {[c EXCEPT !.answer = "clear"]}
    /\ hist' = IF c.s \in Open THEN [hist EXCEPT ![c.s].excused = TRUE] ELSE hist
    /\ UNCHANGED <<sock, cache, published, inbox>>

\* handleUpgrade after the await: 401 on a hit, otherwise the socket is
\* accepted with msgCount 0.
UpgradeFinish(c) ==
    /\ c.n = 0
    /\ c.answer # "asked"
    /\ pending' = pending \ {c}
    /\ CacheRevoked(c)
    /\ sock' = [sock EXCEPT ![c.s].st = IF c.answer = "revoked" THEN "refused" ELSE "open"]
    /\ hist' = [hist EXCEPT ![c.s].since = published]
    /\ UNCHANGED <<published, inbox>>

\* webSocketMessage, up to KV's answer where it asks: msgCount is bumped and
\* persisted before anything else.
Frame(s) ==
    /\ sock[s].st = "open"
    /\ sock[s].cnt < MaxFrames
    /\ LET n == sock[s].cnt + 1
           known == Sampled(n) /\ Cached(sock[s].jti)
       IN  /\ sock' = [sock EXCEPT ![s].cnt = n,
                                   ![s].st = IF known THEN "kicked" ELSE "open"]
           /\ IF Sampled(n) /\ ~known THEN Ask(s, sock[s].jti, n) ELSE UNCHANGED pending
    /\ UNCHANGED <<cache, published, inbox, hist>>

FrameFinish_Reopens(c) ==
    /\ c.n > 0
    /\ c.answer # "asked"
    /\ pending' = pending \ {c}
    /\ CacheRevoked(c)
    /\ sock' = [sock EXCEPT ![c.s] =
                   [st |-> IF c.answer = "revoked" THEN "kicked" ELSE "open", jti |-> c.jti, cnt |-> c.n]]
    /\ UNCHANGED <<published, inbox, hist>>

\* webSocketMessage after the await: a hit closes the socket with 4001.
FrameFinish(c) ==
    /\ c.n > 0
    /\ c.answer # "asked"
    /\ pending' = pending \ {c}
    /\ CacheRevoked(c)
    /\ sock' = IF c.answer = "revoked" /\ sock[c.s].st = "open"
               THEN [sock EXCEPT ![c.s].st = "kicked"] ELSE sock
    /\ UNCHANGED <<published, inbox, hist>>

\* webSocketClose and webSocketError: the token's cached verdict is dropped,
\* though another socket may hold the same token.  The runtime drops the
\* socket's attachment.
SocketGone(s) ==
    /\ sock[s].st \in {"open", "kicked", "closing"}
    /\ sock' = [sock EXCEPT ![s] = Unconnected("closed")]
    /\ cache' = [cache EXCEPT ![sock[s].jti] = 0]
    /\ inbox' = [inbox EXCEPT ![s] = {}]
    /\ hist' = [hist EXCEPT ![s] = NoHistory]
    /\ UNCHANGED <<pending, published>>

Publish_StopAtFirstFailure(dead) ==
    /\ published < MaxEvents
    /\ dead \subseteq Open
    /\ published' = published + 1
    /\ inbox' = [s \in Sock |->
                    IF s \in Open /\ dead = {} THEN inbox[s] \cup {published + 1} ELSE inbox[s]]
    /\ sock' = [s \in Sock |-> IF s \in dead THEN [sock[s] EXCEPT !.st = "closing"] ELSE sock[s]]
    /\ UNCHANGED <<pending, cache, hist>>

\* handlePublish on a good envelope: every open socket is sent the event; one
\* whose send throws is closed with 1011 and the loop goes on.
Publish(dead) ==
    /\ published < MaxEvents
    /\ dead \subseteq Open
    /\ published' = published + 1
    /\ inbox' = [s \in Sock |->
                    IF s \in Open \ dead THEN inbox[s] \cup {published + 1} ELSE inbox[s]]
    /\ sock' = [s \in Sock |-> IF s \in dead THEN [sock[s] EXCEPT !.st = "closing"] ELSE sock[s]]
    /\ UNCHANGED <<pending, cache, hist>>

\* The runtime evicts an idle object: the Map is gone, sockets and their
\* attachments stay.
Hibernate ==
    /\ pending = {}
    /\ cache' = [j \in Token |-> 0]
    /\ UNCHANGED <<sock, pending, published, inbox, hist>>

HubStep ==
    \/ \E s \in Sock, j \in Token : UpgradeAsk(s, j)
    \/ \E s \in Sock, j \in Token : UpgradeRefusedByCache(s, j)
    \/ \E c \in pending : KVAnswer(c)
    \/ \E c \in pending : KVFails(c)
    \/ \E c \in pending : UpgradeFinish(c)
    \/ \E s \in Sock : Frame(s)
    \/ \E c \in pending : FrameFinish(c)
    \/ \E s \in Sock : SocketGone(s)
    \/ \E dead \in SUBSET Open : Publish(dead)
    \/ Hibernate

HubNext == HubStep /\ UNCHANGED <<now, kv, exp>>

\* The environment writes the blocklist entry of a live token, once.
Revoke(j) ==
    /\ now < exp[j]
    /\ kv[HubKey(j)] = 0
    /\ Put(HubKey(j), exp[j] - now)
    /\ hist' = [s \in Sock |->
                    IF sock[s].jti = j THEN [hist[s] EXCEPT !.revokedAt = sock[s].cnt] ELSE hist[s]]
    /\ UNCHANGED <<now, exp, hubOwn>>

ClockStep == Tick /\ UNCHANGED <<kv, exp, hubOwn, hist>>

Next == HubNext \/ (\E j \in Token : Revoke(j)) \/ ClockStep

Spec == Init /\ [][Next]_vars

-----------------------------------------------------------------------------
RevokedIn(s) == sock[s].jti # NoJti /\ Found(HubKey(sock[s].jti))

CheckUnderWay(s) == \E c \in pending : c.s = s /\ c.n > hist[s].revokedAt

\* An open socket whose token is in the blocklist sends at most N - 1 more
\* frames without a re-check that saw the entry: hibernation, dropped cache
\* entries and other sockets do not postpone it.  A KV failure does.
RecheckWithinN ==
    \A s \in Open : RevokedIn(s) /\ ~hist[s].excused
                    /\ sock[s].cnt >= hist[s].revokedAt + EveryN
                    => CheckUnderWay(s)

\* A socket accepted in the same moment as its token was revoked (KV had been
\* read, the socket not accepted yet) is caught by its very first frame.
FirstFrameCatchesRace ==
    \A s \in Open : RevokedIn(s) /\ ~hist[s].excused
                    /\ hist[s].revokedAt = 0 /\ sock[s].cnt >= 1
                    => CheckUnderWay(s)

\* Nobody is refused or closed as revoked unless the token's entry was
\* written; in particular a failing KV disconnects nobody, and no other
\* token's verdict is applied.
ClosedOnlyIfRevoked ==
    \A s \in Sock : sock[s].st \in {"refused", "kicked"} => kv[HubKey(sock[s].jti)] # 0

\* An open socket has been sent every event published since it was accepted,
\* whichever other sockets failed in between.
OpenMissesNothing ==
    \A s \in Open : inbox[s] = (hist[s].since + 1)..published

\* See Broadcast: who is sent what, without the blocklist, KV and the clock.
Fan == INSTANCE Broadcast WITH
          joined <- {s \in Sock : sock[s].st \in {"open", "kicked", "closing", "closed"}},
          members <- Open,
          sent <- [s \in Sock |-> IF s \in Open THEN inbox[s] ELSE {}]

\* An accepted socket stays a member of the fan-out until it closes, fails or is
\* kicked, and then never is one again: an answer of KV that arrives after the
\* socket has gone, a hibernation or a dead peer changes neither that nor what
\* the others are sent.
ImplementsBroadcast == Fan!BroadcastSpec
=============================================================================
