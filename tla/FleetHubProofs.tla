---------------------------- MODULE FleetHubProofs ----------------------------
(***************************************************************************)
(* What the hub does to open sockets, for any number of sockets, tokens,   *)
(* frames, events and checks under way, and any re-check period.           *)
(***************************************************************************)
EXTENDS FleetHub, TLAPS

\* Every socket past its upgrade has a token; nothing is sent to one before.
SockOK ==
    \A s \in Sock :
        /\ sock[s].st \notin {"none", "closed"} => sock[s].jti \in Token
        /\ sock[s].st \in {"none", "checking", "refused"} => inbox[s] = {}
        /\ sock[s].st \in {"none", "checking", "refused", "closed"} => sock[s].cnt = 0
        /\ hist[s].since <= published
        /\ hist[s].revokedAt <= sock[s].cnt

\* A check under way belongs to its socket's upgrade, alone, or to a frame the
\* socket has sent, and asked about the socket's token.
PendingOK ==
    \A c \in pending :
        /\ c.n = 0 => /\ sock[c.s].st = "checking"
                      /\ \A d \in pending : d.s = c.s => d = c
        /\ c.n > 0 => sock[c.s].st \in {"open", "kicked", "closing", "closed"}
        /\ sock[c.s].st # "closed" => sock[c.s].jti = c.jti /\ c.n <= sock[c.s].cnt

\* A verdict, cached or about to be, is about an entry that was written.
VerdictsOK ==
    /\ \A j \in Token : cache[j] # 0 => kv[HubKey(j)] # 0
    /\ \A c \in pending : c.answer = "revoked" => kv[HubKey(c.jti)] # 0

\* The sockets the re-check owes something to.
Watched(s) == s \in Open /\ RevokedIn(s) /\ ~hist[s].excused

\* A check asked after the entry was written saw it,
ChecksSee ==
    \A c \in pending :
        Watched(c.s) /\ c.n > hist[c.s].revokedAt => c.answer # "clear"

\* and one is under way as soon as a sampled frame came after the entry.
Rechecked ==
    \A s \in Sock : Watched(s) /\ (\E n \in (hist[s].revokedAt + 1)..sock[s].cnt : Sampled(n))
                    => CheckUnderWay(s)

IInv ==
    /\ TypeOK
    /\ SockOK
    /\ PendingOK
    /\ VerdictsOK
    /\ ChecksSee
    /\ Rechecked
    /\ OpenMissesNothing
    /\ ClosedOnlyIfRevoked

-----------------------------------------------------------------------------
\* Any EveryN consecutive frames hold a sampled one.
LEMMA SampledHit ==
    ASSUME NEW a \in Nat
    PROVE  \E n \in (a + 1)..(a + EveryN) : Sampled(n)
<1> DEFINE N == EveryN
<1>1. N \in Nat /\ N >= 2
  BY HubAssumption
<1> HIDE DEF N
<1> DEFINE q == a \div N
<1> DEFINE r == a % N
<1>2. q \in Nat /\ r \in 0..(N - 1) /\ a = N * q + r
  BY <1>1
<1>3. ASSUME NEW k \in Nat
      PROVE  (N * k + 1) % N = 1
  <2> DEFINE b == N * k + 1
  <2> DEFINE u == b \div N
  <2> DEFINE t == b % N
  <2>1. b \in Nat
    BY <1>1
  <2> HIDE DEF b
  <2>2. u \in Int /\ t \in 0..(N - 1) /\ b = N * u + t
    BY <1>1, <2>1
  <2> HIDE DEF u, t
  <2>3. N * k + 1 = N * u + t
    BY <2>2 DEF b
  <2>4. u < k + 1
    <3> SUFFICES ASSUME u >= k + 1 PROVE FALSE
      BY <2>2
    <3>1. N * u >= N * (k + 1)
      BY <1>1, <2>2
    <3>2. N * (k + 1) = N * k + N
      BY <1>1
    <3>3. QED
      BY <1>1, <2>2, <2>3, <3>1, <3>2
  <2>5. u > k - 1
    <3> SUFFICES ASSUME u <= k - 1 PROVE FALSE
      BY <2>2
    <3>1. N * u <= N * (k - 1)
      BY <1>1, <2>2
    <3>2. N * (k - 1) = N * k - N
      BY <1>1
    <3>3. QED
      BY <1>1, <2>2, <2>3, <3>1, <3>2
  <2>6. u = k
    BY <2>2, <2>4, <2>5
  <2>7. t = 1
    BY <1>1, <2>2, <2>3, <2>6
  <2>8. QED
    BY <2>7 DEF t, b
<1> HIDE DEF q, r
<1>4. CASE r = 0
  <2>1. a + 1 = N * q + 1
    BY <1>1, <1>2, <1>4
  <2>2. (a + 1) % N = 1
    BY <1>2, <1>3, <2>1
  <2>3. QED
    BY <1>1, <2>2 DEF Sampled, N
<1>5. CASE r # 0
  <2>1. N * (q + 1) = N * q + N
    BY <1>1, <1>2
  <2>2. N * (q + 1) + 1 \in (a + 1)..(a + N)
    BY <1>1, <1>2, <1>5, <2>1
  <2>3. (N * (q + 1) + 1) % N = 1
    BY <1>2, <1>3
  <2>4. QED
    BY <2>2, <2>3 DEF Sampled, N
<1>6. QED
  BY <1>4, <1>5

\* A hub without sockets, checks and cached verdicts.
LEMMA InitIInv == Init => IInv
  BY KVAssumption, HubAssumption
     DEF Init, HubInit, IInv, TypeOK, SockOK, PendingOK, VerdictsOK, ChecksSee, Rechecked,
         OpenMissesNothing, ClosedOnlyIfRevoked, Unconnected, NoHistory, SockState, Watched,
         Open, Key

\* KV's entries never go back to "never written", and a found one was written.
LEMMA FoundWritten ==
    ASSUME TypeOK, NEW k \in Key, Found(k)
    PROVE  kv[k] # 0
  BY KVAssumption DEF TypeOK, Found

-----------------------------------------------------------------------------
\* One lemma per action.

\* handleUpgrade asks KV about a token the cache has no verdict on.
LEMMA UpgradeAskStep ==
    ASSUME IInv, NEW s \in Sock, NEW j \in Token, UpgradeAsk(s, j), UNCHANGED <<now, kv, exp>>
    PROVE  IInv'
<1> DEFINE c == [s |-> s, jti |-> j, n |-> 0, t0 |-> now, answer |-> "asked"]
<1>1. /\ sock[s].st = "none"
      /\ sock' = [sock EXCEPT ![s] = [st |-> "checking", jti |-> j, cnt |-> 0]]
      /\ pending' = pending \cup {c}
      /\ UNCHANGED <<cache, published, inbox, hist, now, kv, exp>>
  BY DEF UpgradeAsk, Ask
<1>2. c \in Check /\ c.s = s /\ c.jti = j /\ c.n = 0 /\ c.answer = "asked"
  BY HubAssumption, KVAssumption DEF Check, IInv, TypeOK
<1> HIDE DEF c
<1>3. \A d \in pending : d \in Check /\ d.s # s
  BY <1>1 DEF IInv, PendingOK, TypeOK, Check
<1>4. TypeOK'
  BY <1>1, <1>2, HubAssumption DEF IInv, TypeOK, SockState
<1>5. \A i \in Sock \ {s} : sock'[i] = sock[i]
  BY <1>1 DEF IInv, TypeOK
<1>6. sock'[s] = [st |-> "checking", jti |-> j, cnt |-> 0]
  BY <1>1 DEF IInv, TypeOK
<1>7. SockOK'
  BY <1>1, <1>5, <1>6 DEF IInv, SockOK, TypeOK
<1>8. PendingOK'
  BY <1>1, <1>2, <1>3, <1>5, <1>6 DEF IInv, PendingOK, Check
<1>9. VerdictsOK'
  BY <1>1, <1>2 DEF IInv, VerdictsOK, HubKey
<1>10. Open' = Open
  BY <1>1, <1>5, <1>6 DEF Open
<1>11. \A i \in Open : i # s
  BY <1>1 DEF Open
<1>12. ChecksSee' /\ Rechecked'
  BY <1>1, <1>2, <1>3, <1>5, <1>10, <1>11
     DEF IInv, ChecksSee, Rechecked, Watched, RevokedIn, HubKey, Found, CheckUnderWay, Check, Open
<1>13. OpenMissesNothing'
  BY <1>1, <1>10 DEF IInv, OpenMissesNothing
<1>14. ClosedOnlyIfRevoked'
  BY <1>1, <1>5, <1>6 DEF IInv, ClosedOnlyIfRevoked, HubKey
<1>15. QED
  BY <1>4, <1>7, <1>8, <1>9, <1>12, <1>13, <1>14 DEF IInv

\* The refusals that need no answer from KV.
LEMMA UpgradeRefusedByCacheStep ==
    ASSUME IInv, NEW s \in Sock, NEW j \in Token,
           UpgradeRefusedByCache(s, j), UNCHANGED <<now, kv, exp>>
    PROVE  IInv'
<1>1. /\ sock[s].st = "none"
      /\ sock' = [sock EXCEPT ![s] = [st |-> "refused", jti |-> j, cnt |-> 0]]
      /\ UNCHANGED <<pending, cache, published, inbox, hist, now, kv, exp>>
      /\ Cached(j)
  BY DEF UpgradeRefusedByCache
<1>2. \A i \in Sock \ {s} : sock'[i] = sock[i]
  BY <1>1 DEF IInv, TypeOK
<1>3. sock'[s] = [st |-> "refused", jti |-> j, cnt |-> 0]
  BY <1>1 DEF IInv, TypeOK
<1>4. \A d \in pending : d \in Check /\ d.s # s
  BY <1>1 DEF IInv, PendingOK, TypeOK, Check
<1>5. TypeOK'
  BY <1>1, HubAssumption DEF IInv, TypeOK, SockState
<1>6. SockOK'
  BY <1>1, <1>2, <1>3 DEF IInv, SockOK, TypeOK
<1>7. PendingOK'
  BY <1>1, <1>2, <1>4 DEF IInv, PendingOK, Check
<1>8. VerdictsOK'
  BY <1>1 DEF IInv, VerdictsOK, HubKey
<1>9. Open' = Open /\ s \notin Open
  BY <1>1, <1>2, <1>3 DEF Open
<1>10. ChecksSee' /\ Rechecked'
  BY <1>1, <1>2, <1>4, <1>9
     DEF IInv, ChecksSee, Rechecked, Watched, RevokedIn, HubKey, Found, CheckUnderWay, Check, Open
<1>11. OpenMissesNothing'
  BY <1>1, <1>9 DEF IInv, OpenMissesNothing
<1>12. cache[j] # 0
  BY <1>1, KVAssumption DEF Cached, IInv, TypeOK
<1>13. ClosedOnlyIfRevoked'
  BY <1>1, <1>2, <1>3, <1>12 DEF IInv, ClosedOnlyIfRevoked, HubKey, VerdictsOK
<1>14. QED
  BY <1>5, <1>6, <1>7, <1>8, <1>10, <1>11, <1>13 DEF IInv

\* An answer or a failure of KV replaces a question by itself, answered.
LEMMA AnsweredStep ==
    ASSUME IInv, NEW c \in pending, c.answer = "asked",
           NEW e, e \in Check, e.s = c.s, e.jti = c.jti, e.n = c.n,
           e.answer \in {"revoked", "clear"},
           e.answer = "revoked" => kv[HubKey(c.jti)] # 0,
           pending' = (pending \ {c}) \cup {e},
           UNCHANGED <<sock, cache, published, inbox, now, kv, exp>>,
           \/ UNCHANGED hist /\ (c.s \in Open => (e.answer = "clear" => ~Found(HubKey(c.jti))))
           \/ c.s \in Open /\ hist' = [hist EXCEPT ![c.s].excused = TRUE]
    PROVE  IInv'
<1>1. c \in Check
  BY DEF IInv, TypeOK
<1>2. /\ hist' \in [Sock -> [since : 0..MaxEvents, revokedAt : 0..MaxFrames, excused : BOOLEAN]]
      /\ \A i \in Sock : /\ hist'[i].since = hist[i].since
                         /\ hist'[i].revokedAt = hist[i].revokedAt
                         /\ i # c.s => hist'[i] = hist[i]
      /\ hist' = hist \/ hist'[c.s].excused
  <2>1. c.s \in Sock /\ hist \in [Sock -> [since : 0..MaxEvents, revokedAt : 0..MaxFrames, excused : BOOLEAN]]
    BY <1>1 DEF IInv, TypeOK, Check
  <2>2. CASE UNCHANGED hist
    BY <2>1, <2>2
  <2>3. CASE hist' = [hist EXCEPT ![c.s].excused = TRUE]
    <3>1. hist' \in [Sock -> [since : 0..MaxEvents, revokedAt : 0..MaxFrames, excused : BOOLEAN]]
      BY <2>1, <2>3
    <3>2. \A i \in Sock : /\ hist'[i].since = hist[i].since
                          /\ hist'[i].revokedAt = hist[i].revokedAt
                          /\ i # c.s => hist'[i] = hist[i]
      BY <2>1, <2>3
    <3>3. hist'[c.s].excused
      BY <2>1, <2>3
    <3>4. QED
      BY <3>1, <3>2, <3>3
  <2>4. QED
    BY <2>2, <2>3
<1>3. TypeOK'
  BY <1>1, <1>2 DEF IInv, TypeOK
<1>4. SockOK'
  BY <1>2 DEF IInv, SockOK
<1>5. PendingOK'
  BY <1>1 DEF IInv, PendingOK, TypeOK, Check
<1>6. VerdictsOK'
  BY DEF IInv, VerdictsOK, HubKey
<1>7. Open' = Open
  BY DEF Open
<1>8. \A i \in Sock : CheckUnderWay(i) => CheckUnderWay(i)'
  BY <1>2 DEF CheckUnderWay
<1>9. \A i \in Sock : RevokedIn(i)' = RevokedIn(i)
  BY DEF RevokedIn, Found, HubKey
<1>10. \A i \in Sock : Watched(i)' => Watched(i)
  BY <1>2, <1>7, <1>9 DEF Watched
<1>11. Rechecked'
  BY <1>2, <1>8, <1>10 DEF IInv, Rechecked, Sampled
<1>12. OpenMissesNothing'
  BY <1>2, <1>7 DEF IInv, OpenMissesNothing, Open
<1>13. ClosedOnlyIfRevoked'
  BY DEF IInv, ClosedOnlyIfRevoked, HubKey
<1>14. ASSUME Watched(e.s)', e.answer = "clear"
       PROVE  FALSE
  <2>1. Watched(c.s) /\ hist' = hist
    BY <1>1, <1>2, <1>10, <1>14 DEF Watched, Check
  <2>2. c.s \in Open /\ sock[c.s].jti = c.jti /\ Found(HubKey(c.jti))
    BY <1>1, <2>1 DEF IInv, PendingOK, RevokedIn, Watched, Open
  <2>3. hist' = [hist EXCEPT ![c.s].excused = TRUE]
    BY <1>14, <2>2
  <2>4. hist[c.s].excused
    BY <1>1, <2>1, <2>3 DEF IInv, TypeOK, Check
  <2>5. QED
    BY <2>1, <2>4 DEF Watched
<1>15. ChecksSee'
  BY <1>1, <1>2, <1>10, <1>14 DEF IInv, ChecksSee, TypeOK, Check
<1>16. QED
  BY <1>3, <1>4, <1>5, <1>6, <1>11, <1>12, <1>13, <1>15 DEF IInv

\* KV answers: what it found was once written.
LEMMA KVAnswerStep ==
    ASSUME IInv, NEW c \in pending, KVAnswer(c), UNCHANGED <<now, kv, exp>>
    PROVE  IInv'
<1> DEFINE e == [c EXCEPT !.answer = IF Found(HubKey(c.jti)) THEN "revoked" ELSE "clear"]
<1>1. c \in Check /\ c.answer = "asked"
  BY DEF IInv, TypeOK, KVAnswer
<1>2. /\ e \in Check /\ e.s = c.s /\ e.jti = c.jti /\ e.n = c.n
      /\ e.answer \in {"revoked", "clear"}
      /\ e.answer = "revoked" <=> Found(HubKey(c.jti))
  BY <1>1 DEF Check
<1>3. Found(HubKey(c.jti)) => kv[HubKey(c.jti)] # 0
  BY <1>1, FoundWritten DEF IInv, HubKey, Key, Check
<1>4. /\ pending' = (pending \ {c}) \cup {e}
      /\ UNCHANGED <<sock, cache, published, inbox, hist>>
  BY DEF KVAnswer
<1> HIDE DEF e
<1>5. QED
  BY <1>1, <1>2, <1>3, <1>4, AnsweredStep

\* KV fails: the check counts as not revoked (checkBlocklist fails open).
LEMMA KVFailsStep ==
    ASSUME IInv, NEW c \in pending, KVFails(c), UNCHANGED <<now, kv, exp>>
    PROVE  IInv'
<1> DEFINE e == [c EXCEPT !.answer = "clear"]
<1>1. c \in Check /\ c.answer = "asked"
  BY DEF IInv, TypeOK, KVFails
<1>2. /\ e \in Check /\ e.s = c.s /\ e.jti = c.jti /\ e.n = c.n
      /\ e.answer = "clear"
  BY <1>1 DEF Check
<1>3. /\ pending' = (pending \ {c}) \cup {e}
      /\ UNCHANGED <<sock, cache, published, inbox>>
      /\ \/ UNCHANGED hist /\ c.s \notin Open
         \/ c.s \in Open /\ hist' = [hist EXCEPT ![c.s].excused = TRUE]
  BY DEF KVFails
<1> HIDE DEF e
<1>4. QED
  BY <1>1, <1>2, <1>3, AnsweredStep

\* What both finishing actions do to the cache keeps it truthful and typed.
LEMMA CacheRevokedStep ==
    ASSUME IInv, NEW c \in pending, CacheRevoked(c), pending' = pending \ {c},
           UNCHANGED <<now, kv, exp>>
    PROVE  /\ VerdictsOK'
           /\ cache' \in [Token -> 0..(MaxTime + CacheTTL)]
<1>1. c \in Check /\ cache \in [Token -> 0..(MaxTime + CacheTTL)]
  BY DEF IInv, TypeOK
<1>2. c.t0 + CacheTTL \in 0..(MaxTime + CacheTTL)
  BY <1>1, KVAssumption, HubAssumption DEF Check
<1>3. cache' \in [Token -> 0..(MaxTime + CacheTTL)]
  BY <1>1, <1>2 DEF CacheRevoked
<1>4. VerdictsOK'
  <2>1. \A j \in Token : cache'[j] # 0 => kv[HubKey(j)] # 0
    BY <1>1 DEF IInv, VerdictsOK, CacheRevoked, Check
  <2>2. QED
    BY <2>1 DEF IInv, VerdictsOK, HubKey
<1>5. QED
  BY <1>3, <1>4

\* An upgrade ends with a 401 or a new socket whose counter is 0.
LEMMA UpgradeFinishStep ==
    ASSUME IInv, NEW c \in pending, UpgradeFinish(c), UNCHANGED <<now, kv, exp>>
    PROVE  IInv'
<1> DEFINE s == c.s
<1>1. /\ c \in Check /\ c.n = 0 /\ s \in Sock /\ c.jti \in Token
      /\ c.answer \in {"revoked", "clear"}
  BY DEF IInv, TypeOK, Check, UpgradeFinish
<1>2. /\ sock[s].st = "checking" /\ sock[s].jti = c.jti /\ sock[s].cnt = 0 /\ inbox[s] = {}
      /\ \A d \in pending \ {c} : d.s # s
  BY <1>1 DEF IInv, PendingOK, SockOK
<1>3. /\ pending' = pending \ {c}
      /\ CacheRevoked(c)
      /\ UNCHANGED <<published, inbox>>
      /\ hist' = [hist EXCEPT ![s].since = published]
      /\ sock' = [sock EXCEPT ![s].st = IF c.answer = "revoked" THEN "refused" ELSE "open"]
  BY DEF UpgradeFinish
<1>4. /\ sock'[s].st = (IF c.answer = "revoked" THEN "refused" ELSE "open")
      /\ sock'[s].jti = sock[s].jti /\ sock'[s].cnt = sock[s].cnt
      /\ \A i \in Sock \ {s} : sock'[i] = sock[i]
  BY <1>1, <1>3 DEF IInv, TypeOK
<1>5. /\ hist'[s].since = published /\ hist'[s].revokedAt = hist[s].revokedAt
      /\ \A i \in Sock \ {s} : hist'[i] = hist[i]
  BY <1>1, <1>3 DEF IInv, TypeOK
<1>6. /\ VerdictsOK'
      /\ cache' \in [Token -> 0..(MaxTime + CacheTTL)]
  BY <1>3, CacheRevokedStep
<1>7. TypeOK'
  <2>1. sock' \in [Sock -> [st : SockState, jti : Token \cup {NoJti}, cnt : 0..MaxFrames]]
    <3>1. PICK st \in SockState : sock' = [sock EXCEPT ![s].st = st]
      BY <1>3 DEF SockState
    <3>2. QED
      BY <1>1, <3>1 DEF IInv, TypeOK
  <2>2. hist' \in [Sock -> [since : 0..MaxEvents, revokedAt : 0..MaxFrames, excused : BOOLEAN]]
    BY <1>1, <1>3 DEF IInv, TypeOK
  <2>3. QED
    BY <1>3, <1>6, <2>1, <2>2 DEF IInv, TypeOK
<1>8. SockOK'
  BY <1>1, <1>2, <1>3, <1>4, <1>5 DEF IInv, SockOK, TypeOK
<1>9. PendingOK'
  BY <1>1, <1>2, <1>3, <1>4 DEF IInv, PendingOK, TypeOK, Check
<1>10. \A i \in Sock \ {s} : (Watched(i)' <=> Watched(i)) /\ (CheckUnderWay(i)' <=> CheckUnderWay(i))
  BY <1>2, <1>3, <1>4, <1>5 DEF Watched, Open, RevokedIn, HubKey, Found, CheckUnderWay
<1>11. ChecksSee'
  BY <1>2, <1>3, <1>5, <1>10 DEF IInv, ChecksSee, TypeOK, Check
<1>12. Rechecked'
  <2>1. hist[s].revokedAt \in Nat /\ sock'[s].cnt = 0
    BY <1>1, <1>2, <1>4, HubAssumption DEF IInv, TypeOK
  <2>2. (hist'[s].revokedAt + 1)..sock'[s].cnt = {}
    BY <1>5, <2>1
  <2>3. QED
    BY <1>4, <1>5, <1>10, <2>2 DEF IInv, Rechecked, Sampled
<1>13. OpenMissesNothing'
  <2>1. (published + 1)..published = {}
    BY HubAssumption DEF IInv, TypeOK
  <2>2. QED
    BY <1>2, <1>3, <1>4, <1>5, <2>1 DEF IInv, OpenMissesNothing, Open
<1>14. ClosedOnlyIfRevoked'
  BY <1>1, <1>2, <1>4 DEF IInv, ClosedOnlyIfRevoked, HubKey, VerdictsOK
<1>15. QED
  BY <1>6, <1>7, <1>8, <1>9, <1>11, <1>12, <1>13, <1>14 DEF IInv

\* webSocketMessage up to KV: either the frame asks, or it finds a cached
\* verdict, or it is not sampled.
LEMMA FrameStep ==
    ASSUME IInv, NEW s \in Sock, Frame(s), UNCHANGED <<now, kv, exp>>
    PROVE  IInv'
<1> DEFINE n == sock[s].cnt + 1
<1> DEFINE j == sock[s].jti
<1> DEFINE known == Sampled(n) /\ Cached(j)
<1> DEFINE c == [s |-> s, jti |-> j, n |-> n, t0 |-> now, answer |-> "asked"]
<1>1. /\ sock[s].st = "open" /\ j \in Token
      /\ n \in 1..MaxFrames /\ sock[s].cnt \in Nat /\ hist[s].revokedAt \in Nat
      /\ hist[s].revokedAt < n
  BY HubAssumption DEF Frame, IInv, TypeOK, SockOK
<1>2. PICK st \in {"open", "kicked"} :
          /\ sock' = [sock EXCEPT ![s].cnt = n, ![s].st = st]
          /\ st = "kicked" <=> known
  BY DEF Frame
<1>3. /\ sock'[s].st = st /\ sock'[s].cnt = n /\ sock'[s].jti = j
      /\ \A i \in Sock \ {s} : sock'[i] = sock[i]
  BY <1>1, <1>2 DEF IInv, TypeOK
<1>4. /\ UNCHANGED <<cache, published, inbox, hist>>
      /\ IF Sampled(n) /\ ~known THEN pending' = pending \cup {c} ELSE UNCHANGED pending
  BY DEF Frame, Ask
<1>5. c \in Check /\ c.s = s /\ c.jti = j /\ c.n = n /\ c.answer = "asked"
  BY <1>1, HubAssumption, KVAssumption DEF Check, IInv, TypeOK
<1> HIDE DEF c
<1>6. \A d \in pending : d \in Check /\ (d.s = s => d.n > 0 /\ d.jti = j /\ d.n < n)
  <2> SUFFICES ASSUME NEW d \in pending
               PROVE  d \in Check /\ (d.s = s => d.n > 0 /\ d.jti = j /\ d.n < n)
    OBVIOUS
  <2>1. d \in Check /\ d.n \in Nat
    BY HubAssumption DEF IInv, TypeOK, Check
  <2>2. QED
    BY <1>1, <2>1 DEF IInv, PendingOK
<1>7. TypeOK'
  <2>1. sock' \in [Sock -> [st : SockState, jti : Token \cup {NoJti}, cnt : 0..MaxFrames]]
    <3>1. /\ sock \in [Sock -> [st : SockState, jti : Token \cup {NoJti}, cnt : 0..MaxFrames]]
          /\ n \in 0..MaxFrames /\ st \in SockState
      BY <1>1, HubAssumption DEF IInv, TypeOK, SockState
    <3> HIDE DEF n
    <3>2. QED
      BY <1>2, <3>1
  <2>2. pending' \in SUBSET Check
    BY <1>4, <1>5 DEF IInv, TypeOK
  <2>3. QED
    BY <1>4, <2>1, <2>2 DEF IInv, TypeOK
<1>8. SockOK'
  BY <1>1, <1>2, <1>3, <1>4 DEF IInv, SockOK, TypeOK
<1>9. PendingOK'
  <2> SUFFICES ASSUME NEW d \in pending'
               PROVE  /\ d.n = 0 => /\ sock'[d.s].st = "checking"
                                    /\ \A e \in pending' : e.s = d.s => e = d
                      /\ d.n > 0 => sock'[d.s].st \in {"open", "kicked", "closing", "closed"}
                      /\ sock'[d.s].st # "closed" =>
                            sock'[d.s].jti = d.jti /\ d.n <= sock'[d.s].cnt
    BY DEF PendingOK
  <2>1. d = c \/ d \in pending
    BY <1>4
  <2>2. CASE d.s = s
    <3>1. d.n > 0 /\ d.jti = j /\ d.n <= n /\ d.n \in Nat
      BY <1>1, <1>5, <1>6, <2>1, <2>2, HubAssumption DEF Check
    <3> HIDE DEF n, j
    <3>2. QED
      BY <1>3, <2>2, <3>1
  <2>3. CASE d.s # s
    <3>1. d \in pending /\ d.s \in Sock
      BY <1>5, <1>6, <2>1, <2>3 DEF Check
    <3>2. sock'[d.s] = sock[d.s]
      BY <1>3, <2>3, <3>1
    <3>3. \A e \in pending' : e.s = d.s => e \in pending
      BY <1>4, <1>5, <2>3
    <3>4. QED
      BY <3>1, <3>2, <3>3 DEF IInv, PendingOK
  <2>4. QED
    BY <2>2, <2>3
<1>10. VerdictsOK'
  BY <1>4, <1>5 DEF IInv, VerdictsOK, HubKey
<1>11. \A i \in Sock \ {s} : (Watched(i)' <=> Watched(i)) /\ (CheckUnderWay(i) => CheckUnderWay(i)')
  BY <1>3, <1>4 DEF Watched, Open, RevokedIn, HubKey, Found, CheckUnderWay
<1>12. Watched(s)' => Watched(s) /\ st = "open"
  BY <1>1, <1>3, <1>4 DEF Watched, Open, RevokedIn, HubKey, Found
<1>13. ChecksSee'
  BY <1>4, <1>5, <1>6, <1>11, <1>12 DEF IInv, ChecksSee, Check
<1>14. Rechecked'
  <2>1. ASSUME Watched(s)', NEW m \in (hist[s].revokedAt + 1)..n, Sampled(m)
        PROVE  CheckUnderWay(s)'
    <3>1. CASE m = n
      BY <1>1, <1>2, <1>4, <1>5, <1>12, <2>1, <3>1 DEF CheckUnderWay
    <3>2. CASE m # n
      <4>1. m \in (hist[s].revokedAt + 1)..sock[s].cnt
        BY <1>1, <2>1, <3>2
      <4>2. CheckUnderWay(s)
        BY <1>12, <2>1, <4>1 DEF IInv, Rechecked
      <4>3. QED
        BY <1>4, <4>2 DEF CheckUnderWay
    <3>3. QED
      BY <3>1, <3>2
  <2>2. QED
    BY <1>3, <1>4, <1>11, <2>1 DEF IInv, Rechecked, Sampled
<1>15. OpenMissesNothing'
  BY <1>1, <1>3, <1>4 DEF IInv, OpenMissesNothing, Open
<1>16. ClosedOnlyIfRevoked'
  <2>1. known => kv[HubKey(j)] # 0
    <3> SUFFICES ASSUME Cached(j) PROVE kv[HubKey(j)] # 0
      OBVIOUS
    <3>1. cache[j] # 0
      BY <1>1, KVAssumption DEF Cached, IInv, TypeOK
    <3>2. QED
      BY <1>1, <3>1 DEF IInv, VerdictsOK
  <2>2. QED
    BY <1>2, <1>3, <2>1 DEF IInv, ClosedOnlyIfRevoked, HubKey
<1>17. QED
  BY <1>7, <1>8, <1>9, <1>10, <1>13, <1>14, <1>15, <1>16 DEF IInv

\* A frame's recheck ends: the socket stays or is closed as revoked.
LEMMA FrameFinishStep ==
    ASSUME IInv, NEW c \in pending, FrameFinish(c), UNCHANGED <<now, kv, exp>>
    PROVE  IInv'
<1> DEFINE s == c.s
<1>1. /\ c \in Check /\ c.n > 0 /\ s \in Sock /\ c.jti \in Token
      /\ c.answer \in {"revoked", "clear"}
      /\ sock[s].st \in {"open", "kicked", "closing", "closed"}
  BY DEF IInv, TypeOK, Check, FrameFinish, PendingOK
<1>2. /\ pending' = pending \ {c}
      /\ CacheRevoked(c)
      /\ UNCHANGED <<published, inbox, hist>>
      /\ sock' = IF c.answer = "revoked" /\ sock[s].st = "open"
                 THEN [sock EXCEPT ![s].st = "kicked"] ELSE sock
  BY DEF FrameFinish
<1>3. /\ \A i \in Sock : sock'[i].jti = sock[i].jti /\ sock'[i].cnt = sock[i].cnt
      /\ \A i \in Sock \ {s} : sock'[i] = sock[i]
      /\ sock'[s].st = IF c.answer = "revoked" /\ sock[s].st = "open"
                       THEN "kicked" ELSE sock[s].st
  BY <1>1, <1>2 DEF IInv, TypeOK
<1>4. /\ VerdictsOK'
      /\ cache' \in [Token -> 0..(MaxTime + CacheTTL)]
  BY <1>2, CacheRevokedStep
<1>5. TypeOK'
  <2>1. sock' \in [Sock -> [st : SockState, jti : Token \cup {NoJti}, cnt : 0..MaxFrames]]
    BY <1>1, <1>2 DEF IInv, TypeOK, SockState
  <2>2. QED
    BY <1>2, <1>4, <2>1 DEF IInv, TypeOK
<1>6. SockOK'
  BY <1>1, <1>2, <1>3 DEF IInv, SockOK
<1>7. PendingOK'
  BY <1>1, <1>2, <1>3 DEF IInv, PendingOK, TypeOK, Check
<1>8. \A i \in Sock : Watched(i)' => Watched(i)
  BY <1>1, <1>2, <1>3 DEF Watched, Open, RevokedIn, HubKey, Found
<1>9. ChecksSee'
  BY <1>2, <1>8 DEF IInv, ChecksSee, TypeOK, Check
<1>10. \A i \in Sock : Watched(i)' /\ CheckUnderWay(i) => CheckUnderWay(i)'
  <2> SUFFICES ASSUME NEW i \in Sock, Watched(i)', CheckUnderWay(i)
               PROVE  CheckUnderWay(i)'
    OBVIOUS
  <2>1. PICK d \in pending : d.s = i /\ d.n > hist[i].revokedAt
    BY DEF CheckUnderWay
  <2>2. CASE d # c
    BY <1>2, <2>1, <2>2 DEF CheckUnderWay
  <2>3. CASE d = c
    <3>1. c.answer = "revoked"
      BY <1>1, <1>8, <2>1, <2>3 DEF IInv, ChecksSee
    <3>2. sock'[s].st # "open"
      BY <1>3, <3>1
    <3>3. QED
      BY <2>1, <2>3, <3>2 DEF Watched, Open
  <2>4. QED
    BY <2>2, <2>3
<1>11. Rechecked'
  BY <1>2, <1>3, <1>8, <1>10 DEF IInv, Rechecked, Sampled
<1>12. OpenMissesNothing'
  BY <1>2, <1>3 DEF IInv, OpenMissesNothing, Open
<1>13. ClosedOnlyIfRevoked'
  <2>1. c.answer = "revoked" => kv[HubKey(c.jti)] # 0
    BY DEF IInv, VerdictsOK
  <2>2. sock[s].st = "open" => sock[s].jti = c.jti
    BY DEF IInv, PendingOK
  <2>3. QED
    BY <1>1, <1>3, <2>1, <2>2 DEF IInv, ClosedOnlyIfRevoked, HubKey
<1>14. QED
  BY <1>4, <1>5, <1>6, <1>7, <1>9, <1>11, <1>12, <1>13 DEF IInv

\* A closed socket leaves nothing to count.
LEMMA SocketGoneStep ==
    ASSUME IInv, NEW s \in Sock, SocketGone(s), UNCHANGED <<now, kv, exp>>
    PROVE  IInv'
<1>1. /\ sock[s].st \in {"open", "kicked", "closing"} /\ sock[s].jti \in Token
      /\ sock' = [sock EXCEPT ![s] = Unconnected("closed")]
      /\ cache' = [cache EXCEPT ![sock[s].jti] = 0]
      /\ inbox' = [inbox EXCEPT ![s] = {}]
      /\ hist' = [hist EXCEPT ![s] = NoHistory]
      /\ UNCHANGED <<pending, published>>
  BY DEF SocketGone, IInv, SockOK
<1>2. /\ sock'[s] = Unconnected("closed") /\ hist'[s] = NoHistory /\ inbox'[s] = {}
      /\ \A i \in Sock \ {s} : sock'[i] = sock[i] /\ hist'[i] = hist[i] /\ inbox'[i] = inbox[i]
  BY <1>1 DEF IInv, TypeOK
<1>3. 0 \in 0..MaxEvents /\ 0 \in 0..MaxFrames /\ 0 \in 0..(MaxTime + CacheTTL)
  BY HubAssumption, KVAssumption
<1>4. TypeOK'
  BY <1>1, <1>3 DEF IInv, TypeOK, Unconnected, NoHistory, SockState
<1>5. SockOK'
  BY <1>1, <1>2, HubAssumption DEF IInv, SockOK, TypeOK, Unconnected, NoHistory
<1>6. PendingOK'
  BY <1>1, <1>2 DEF IInv, PendingOK, TypeOK, Check, Unconnected
<1>7. VerdictsOK'
  BY <1>1 DEF IInv, VerdictsOK, TypeOK, HubKey
<1>8. \A i \in Sock : /\ Watched(i)' => Watched(i) /\ i # s
                      /\ i # s => (CheckUnderWay(i)' <=> CheckUnderWay(i))
  BY <1>1, <1>2 DEF Watched, Open, RevokedIn, HubKey, Found, CheckUnderWay, Unconnected
<1>9. ChecksSee' /\ Rechecked'
  BY <1>1, <1>2, <1>8 DEF IInv, ChecksSee, Rechecked, Sampled, TypeOK, Check
<1>10. OpenMissesNothing'
  BY <1>1, <1>2 DEF IInv, OpenMissesNothing, Open, Unconnected
<1>11. ClosedOnlyIfRevoked'
  BY <1>1, <1>2 DEF IInv, ClosedOnlyIfRevoked, HubKey, Unconnected
<1>12. QED
  BY <1>4, <1>5, <1>6, <1>7, <1>9, <1>10, <1>11 DEF IInv

\* A broadcast reaches every open socket or closes the one that throws.
LEMMA PublishStep ==
    ASSUME IInv, NEW dead \in SUBSET Open, Publish(dead), UNCHANGED <<now, kv, exp>>
    PROVE  IInv'
<1>1. /\ published \in Nat /\ published' = published + 1 /\ published' \in 0..MaxEvents
      /\ published + 1 \in 1..MaxEvents
  BY HubAssumption DEF Publish, IInv, TypeOK
<1>2. /\ UNCHANGED <<pending, cache, hist>>
      /\ sock' = [s \in Sock |-> IF s \in dead THEN [sock[s] EXCEPT !.st = "closing"] ELSE sock[s]]
      /\ inbox' = [s \in Sock |->
                      IF s \in Open \ dead THEN inbox[s] \cup {published + 1} ELSE inbox[s]]
  BY DEF Publish
<1>3. /\ \A s \in Sock : sock'[s].jti = sock[s].jti /\ sock'[s].cnt = sock[s].cnt
      /\ \A s \in Sock \ dead : sock'[s] = sock[s]
      /\ \A s \in dead : s \in Sock /\ sock[s].st = "open" /\ sock'[s].st = "closing"
  BY <1>2 DEF IInv, TypeOK, Open
<1>4. TypeOK'
  <2>1. sock' \in [Sock -> [st : SockState, jti : Token \cup {NoJti}, cnt : 0..MaxFrames]]
    BY <1>2 DEF IInv, TypeOK, SockState
  <2>2. inbox' \in [Sock -> SUBSET (1..MaxEvents)]
    BY <1>1, <1>2 DEF IInv, TypeOK
  <2>3. QED
    BY <1>1, <1>2, <2>1, <2>2 DEF IInv, TypeOK
<1>5. SockOK'
  <2> SUFFICES ASSUME NEW s \in Sock
               PROVE  /\ sock'[s].st \notin {"none", "closed"} => sock'[s].jti \in Token
                      /\ sock'[s].st \in {"none", "checking", "refused"} => inbox'[s] = {}
                      /\ sock'[s].st \in {"none", "checking", "refused", "closed"} => sock'[s].cnt = 0
                      /\ hist'[s].since <= published'
                      /\ hist'[s].revokedAt <= sock'[s].cnt
    BY DEF SockOK
  <2>1. hist[s].since \in Nat /\ hist[s].since <= published
    BY HubAssumption DEF IInv, TypeOK, SockOK
  <2>2. hist'[s].since <= published'
    BY <1>1, <1>2, <2>1
  <2>3. QED
    BY <1>2, <1>3, <2>2 DEF IInv, SockOK, Open
<1>6. PendingOK'
  <2> SUFFICES ASSUME NEW d \in pending
               PROVE  /\ d.n = 0 => /\ sock'[d.s].st = "checking"
                                    /\ \A e \in pending : e.s = d.s => e = d
                      /\ d.n > 0 => sock'[d.s].st \in {"open", "kicked", "closing", "closed"}
                      /\ sock'[d.s].st # "closed" =>
                            sock'[d.s].jti = d.jti /\ d.n <= sock'[d.s].cnt
    BY <1>2 DEF PendingOK
  <2>1. d.s \in Sock
    BY DEF IInv, TypeOK, Check
  <2>2. CASE d.s \in dead
    BY <1>3, <2>1, <2>2 DEF IInv, PendingOK
  <2>3. CASE d.s \notin dead
    BY <1>3, <2>1, <2>3 DEF IInv, PendingOK
  <2>4. QED
    BY <2>2, <2>3
<1>7. VerdictsOK'
  BY <1>2 DEF IInv, VerdictsOK, HubKey
<1>8. \A s \in Sock : /\ Watched(s)' => Watched(s)
                      /\ CheckUnderWay(s)' <=> CheckUnderWay(s)
  BY <1>2, <1>3 DEF Watched, Open, RevokedIn, HubKey, Found, CheckUnderWay
<1>9. ChecksSee' /\ Rechecked'
  BY <1>2, <1>3, <1>8 DEF IInv, ChecksSee, Rechecked, Sampled, TypeOK, Check
<1>10. OpenMissesNothing'
  <2> SUFFICES ASSUME NEW s \in Open'
               PROVE  inbox'[s] = (hist'[s].since + 1)..published'
    BY DEF OpenMissesNothing
  <2>1. s \in Open \ dead
    BY <1>3 DEF Open
  <2>2. inbox[s] = (hist[s].since + 1)..published /\ hist[s].since \in Nat /\ hist[s].since <= published
    BY <2>1, HubAssumption DEF IInv, OpenMissesNothing, SockOK, TypeOK, Open
  <2>3. inbox'[s] = inbox[s] \cup {published + 1}
    BY <1>2, <2>1 DEF Open
  <2>4. ((hist[s].since + 1)..published) \cup {published + 1} = (hist[s].since + 1)..(published + 1)
    BY <1>1, <2>2
  <2>5. QED
    BY <1>1, <1>2, <2>2, <2>3, <2>4
<1>11. ClosedOnlyIfRevoked'
  BY <1>3 DEF IInv, ClosedOnlyIfRevoked, HubKey
<1>12. QED
  BY <1>4, <1>5, <1>6, <1>7, <1>9, <1>10, <1>11 DEF IInv

\* Hibernation drops the cache and keeps the sockets' attachments.
LEMMA HibernateStep ==
    ASSUME IInv, Hibernate, UNCHANGED <<now, kv, exp>>
    PROVE  IInv'
<1>1. cache' = [j \in Token |-> 0] /\ UNCHANGED <<sock, pending, published, inbox, hist>>
  BY DEF Hibernate
<1>2. 0 \in 0..(MaxTime + CacheTTL)
  BY HubAssumption, KVAssumption
<1>3. TypeOK'
  BY <1>1, <1>2 DEF IInv, TypeOK
<1>4. VerdictsOK'
  BY <1>1 DEF IInv, VerdictsOK, HubKey
<1>5. SockOK' /\ PendingOK'
  BY <1>1 DEF IInv, SockOK, PendingOK
<1>6. ChecksSee' /\ Rechecked'
  BY <1>1 DEF IInv, ChecksSee, Rechecked, Watched, Open, RevokedIn, HubKey, Found, CheckUnderWay,
              Sampled
<1>7. OpenMissesNothing' /\ ClosedOnlyIfRevoked'
  BY <1>1 DEF IInv, OpenMissesNothing, ClosedOnlyIfRevoked, HubKey, Open
<1>8. QED
  BY <1>3, <1>4, <1>5, <1>6, <1>7 DEF IInv

\* What KV is asked to keep is kept for a while.
LEMMA StoredTTLPositive ==
    ASSUME NEW ttl \in Nat
    PROVE  StoredTTL(ttl) \in Nat /\ StoredTTL(ttl) > 0
<1>1. KVMinTTL \in Nat /\ Second \in Nat /\ Second > 0 /\ KVMinTTL >= Second
  BY KVAssumption
<1>2. ASSUME NEW t \in Nat, t >= Second
      PROVE  FloorSecond(t) \in Nat /\ FloorSecond(t) > 0
  <2>1. t % Second \in 0..(Second - 1)
    BY <1>1
  <2>2. QED
    BY <1>1, <1>2, <2>1 DEF FloorSecond
<1>3. CASE ttl < KVMinTTL
  BY <1>1, <1>2, <1>3 DEF StoredTTL
<1>4. CASE ~(ttl < KVMinTTL)
  BY <1>1, <1>2, <1>4 DEF StoredTTL
<1>5. QED
  BY <1>3, <1>4

\* The entry appears: from here on the frames of j's sockets are counted.
LEMMA RevokeStep ==
    ASSUME IInv, NEW j \in Token, Revoke(j)
    PROVE  IInv'
<1> DEFINE k == HubKey(j)
<1> DEFINE until == now + StoredTTL(exp[j] - now)
<1>1. /\ k \in Key /\ now \in Nat /\ exp[j] - now \in Nat
      /\ kv[k] = 0
  BY KVAssumption DEF Revoke, IInv, TypeOK, HubKey, Key
<1>2. until \in Nat /\ until > 0
  BY <1>1, StoredTTLPositive
<1>3. /\ kv' = [kv EXCEPT ![k] = until]
      /\ hist' = [s \in Sock |->
                     IF sock[s].jti = j THEN [hist[s] EXCEPT !.revokedAt = sock[s].cnt] ELSE hist[s]]
      /\ UNCHANGED <<now, exp, sock, pending, cache, published, inbox>>
  BY DEF Revoke, Put, hubOwn
<1> HIDE DEF until
<1>4. /\ kv'[k] = until
      /\ \A i \in Token \ {j} : kv'[HubKey(i)] = kv[HubKey(i)]
  BY <1>1, <1>3 DEF IInv, TypeOK, HubKey, Key
<1>5. /\ \A s \in Sock : hist'[s].since = hist[s].since
      /\ \A s \in Sock : sock[s].jti # j => hist'[s] = hist[s]
      /\ \A s \in Sock : sock[s].jti = j => hist'[s].revokedAt = sock[s].cnt
  BY <1>3 DEF IInv, TypeOK
<1>6. TypeOK'
  <2>1. kv' \in [Key -> Nat]
    BY <1>1, <1>2, <1>3 DEF IInv, TypeOK
  <2>2. hist' \in [Sock -> [since : 0..MaxEvents, revokedAt : 0..MaxFrames, excused : BOOLEAN]]
    BY <1>3 DEF IInv, TypeOK
  <2>3. QED
    BY <1>3, <2>1, <2>2 DEF IInv, TypeOK
<1>7. SockOK'
  <2>1. \A s \in Sock : sock[s].cnt \in Nat
    BY HubAssumption DEF IInv, TypeOK
  <2>2. QED
    BY <1>3, <1>5, <2>1 DEF IInv, SockOK
<1>8. PendingOK'
  BY <1>3 DEF IInv, PendingOK
<1>9. \A i \in Token : kv[HubKey(i)] # 0 => kv'[HubKey(i)] # 0
  BY <1>1, <1>4
<1>10. VerdictsOK'
  BY <1>3, <1>9 DEF IInv, VerdictsOK, HubKey, TypeOK, Check
<1>11. \A s \in Sock : sock[s].jti # j /\ Watched(s)' => Watched(s) /\ hist'[s] = hist[s]
  <2> SUFFICES ASSUME NEW s \in Sock, sock[s].jti # j, Watched(s)'
               PROVE  Watched(s)
    BY <1>5
  <2>1. sock[s].jti \in Token \ {j} /\ sock[s].st = "open"
    BY <1>3 DEF IInv, SockOK, Watched, Open
  <2>2. QED
    BY <1>3, <1>4, <1>5, <2>1 DEF Watched, Open, RevokedIn, Found, HubKey
<1>12. ChecksSee'
  <2> SUFFICES ASSUME NEW c \in pending, Watched(c.s)', c.n > hist'[c.s].revokedAt
               PROVE  c.answer # "clear"
    BY <1>3 DEF ChecksSee
  <2>1. c.s \in Sock /\ c.n \in Nat /\ sock[c.s].st = "open" /\ sock[c.s].cnt \in Nat
    BY <1>3, HubAssumption DEF IInv, TypeOK, Check, Watched, Open
  <2>2. c.n <= sock[c.s].cnt
    BY <2>1 DEF IInv, PendingOK
  <2>3. CASE sock[c.s].jti = j
    BY <1>5, <2>1, <2>2, <2>3
  <2>4. CASE sock[c.s].jti # j
    BY <1>11, <2>1, <2>4 DEF IInv, ChecksSee
  <2>5. QED
    BY <2>3, <2>4
<1>13. Rechecked'
  <2> SUFFICES ASSUME NEW s \in Sock, Watched(s)',
                      NEW n \in (hist'[s].revokedAt + 1)..sock[s].cnt, Sampled(n)
               PROVE  CheckUnderWay(s)'
    BY <1>3 DEF Rechecked, Sampled
  <2>1. CASE sock[s].jti = j
    <3>1. sock[s].cnt \in Nat /\ hist'[s].revokedAt = sock[s].cnt
      BY <1>5, <2>1, HubAssumption DEF IInv, TypeOK
    <3>2. QED
      BY <3>1
  <2>2. CASE sock[s].jti # j
    BY <1>3, <1>11, <2>2 DEF IInv, Rechecked, CheckUnderWay
  <2>3. QED
    BY <2>1, <2>2
<1>14. OpenMissesNothing'
  BY <1>3, <1>5 DEF IInv, OpenMissesNothing, Open
<1>15. ClosedOnlyIfRevoked'
  BY <1>3, <1>9 DEF IInv, ClosedOnlyIfRevoked, HubKey, SockOK
<1>16. QED
  BY <1>6, <1>7, <1>8, <1>10, <1>12, <1>13, <1>14, <1>15 DEF IInv

\* The clock touches no socket, counter or history.
LEMMA ClockStepIInv ==
    ASSUME IInv, ClockStep
    PROVE  IInv'
<1>1. /\ now \in Nat /\ now' = now + 1 /\ now' \in 0..MaxTime
      /\ UNCHANGED <<kv, exp, sock, pending, cache, published, inbox, hist>>
  BY KVAssumption DEF IInv, TypeOK, ClockStep, Tick, hubOwn
<1>2. TypeOK'
  BY <1>1 DEF IInv, TypeOK
<1>3. SockOK' /\ PendingOK' /\ VerdictsOK'
  BY <1>1 DEF IInv, SockOK, PendingOK, VerdictsOK, HubKey
<1>4. \A s \in Sock : Watched(s)' => Watched(s)
  <2> SUFFICES ASSUME NEW s \in Sock, Watched(s)'
               PROVE  Watched(s)
    OBVIOUS
  <2>1. sock[s].jti \in Token
    BY <1>1 DEF IInv, SockOK, Watched, Open
  <2>2. kv[HubKey(sock[s].jti)] \in Nat
    BY <2>1 DEF IInv, TypeOK, HubKey, Key
  <2>3. QED
    BY <1>1, <2>2 DEF Watched, Open, RevokedIn, Found, HubKey
<1>5. ChecksSee' /\ Rechecked'
  BY <1>1, <1>4 DEF IInv, ChecksSee, Rechecked, CheckUnderWay, Sampled, TypeOK, Check
<1>6. OpenMissesNothing' /\ ClosedOnlyIfRevoked'
  BY <1>1 DEF IInv, OpenMissesNothing, ClosedOnlyIfRevoked, HubKey, Open
<1>7. QED
  BY <1>2, <1>3, <1>5, <1>6 DEF IInv

-----------------------------------------------------------------------------
\* Every step preserves the invariant.
LEMMA NextIInv == IInv /\ [Next]_vars => IInv'
<1> SUFFICES ASSUME IInv, [Next]_vars
             PROVE  IInv'
  OBVIOUS
<1>1. CASE HubNext
  <2>1. UNCHANGED <<now, kv, exp>> /\ HubStep
    BY <1>1 DEF HubNext
  <2>2. ASSUME NEW s \in Sock, NEW j \in Token, UpgradeAsk(s, j)
        PROVE  IInv'
    BY <2>1, <2>2, UpgradeAskStep
  <2>3. ASSUME NEW s \in Sock, NEW j \in Token, UpgradeRefusedByCache(s, j)
        PROVE  IInv'
    BY <2>1, <2>3, UpgradeRefusedByCacheStep
  <2>4. ASSUME NEW c \in pending, KVAnswer(c)
        PROVE  IInv'
    BY <2>1, <2>4, KVAnswerStep
  <2>5. ASSUME NEW c \in pending, KVFails(c)
        PROVE  IInv'
    BY <2>1, <2>5, KVFailsStep
  <2>6. ASSUME NEW c \in pending, UpgradeFinish(c)
        PROVE  IInv'
    BY <2>1, <2>6, UpgradeFinishStep
  <2>7. ASSUME NEW s \in Sock, Frame(s)
        PROVE  IInv'
    BY <2>1, <2>7, FrameStep
  <2>8. ASSUME NEW c \in pending, FrameFinish(c)
        PROVE  IInv'
    BY <2>1, <2>8, FrameFinishStep
  <2>9. ASSUME NEW s \in Sock, SocketGone(s)
        PROVE  IInv'
    BY <2>1, <2>9, SocketGoneStep
  <2>10. ASSUME NEW dead \in SUBSET Open, Publish(dead)
         PROVE  IInv'
    BY <2>1, <2>10, PublishStep
  <2>11. CASE Hibernate
    BY <2>1, <2>11, HibernateStep
  <2>12. QED
    BY <2>1, <2>2, <2>3, <2>4, <2>5, <2>6, <2>7, <2>8, <2>9, <2>10, <2>11 DEF HubStep
<1>2. ASSUME NEW j \in Token, Revoke(j)
      PROVE  IInv'
  BY <1>2, RevokeStep
<1>3. CASE ClockStep
  BY <1>3, ClockStepIInv
<1>4. CASE UNCHANGED vars
  <2>1. UNCHANGED <<now, kv, exp, sock, pending, cache, published, inbox, hist>>
    BY <1>4 DEF vars, hubOwn
  <2>2. TypeOK' /\ SockOK' /\ PendingOK' /\ VerdictsOK'
    BY <2>1 DEF IInv, TypeOK, SockOK, PendingOK, VerdictsOK, HubKey
  <2>3. ChecksSee' /\ Rechecked'
    BY <2>1 DEF IInv, ChecksSee, Rechecked, Watched, Open, RevokedIn, HubKey, Found,
                CheckUnderWay, Sampled
  <2>4. OpenMissesNothing' /\ ClosedOnlyIfRevoked'
    BY <2>1 DEF IInv, OpenMissesNothing, ClosedOnlyIfRevoked, HubKey, Open
  <2>5. QED
    BY <2>2, <2>3, <2>4 DEF IInv
<1>5. QED
  BY <1>1, <1>2, <1>3, <1>4 DEF Next

\* Every socket, check, cached verdict and counter of the hub stays in range.
THEOREM HubTypeCorrect == Spec => []TypeOK
<1>1. IInv => TypeOK
  BY DEF IInv
<1>2. QED
  BY InitIInv, NextIInv, <1>1, PTL DEF Spec

\* No socket is refused or closed with 4001 unless the blocklist entry of its
\* own token was written (checkBlocklist's fail-open, the cache keyed by jti).
THEOREM NobodyClosedUnrevoked == Spec => []ClosedOnlyIfRevoked
<1>1. IInv => ClosedOnlyIfRevoked
  BY DEF IInv
<1>2. QED
  BY InitIInv, NextIInv, <1>1, PTL DEF Spec

\* An open socket has been sent every event published since it was accepted
\* (handlePublish goes on after a send that throws).
THEOREM FanOutIsComplete == Spec => []OpenMissesNothing
<1>1. IInv => OpenMissesNothing
  BY DEF IInv
<1>2. QED
  BY InitIInv, NextIInv, <1>1, PTL DEF Spec

\* A socket whose token is in the blocklist is re-checked within EveryN frames
\* (webSocketMessage's sampling, whatever hibernates, fails or closes around it).
THEOREM RevokedSocketsAreRechecked == Spec => []RecheckWithinN
<1>1. IInv => RecheckWithinN
  <2> SUFFICES ASSUME IInv, NEW s \in Open, RevokedIn(s), ~hist[s].excused,
                      sock[s].cnt >= hist[s].revokedAt + EveryN
               PROVE  CheckUnderWay(s)
    BY DEF RecheckWithinN
  <2>1. s \in Sock /\ Watched(s)
    BY DEF Watched, Open
  <2>2. hist[s].revokedAt \in Nat /\ sock[s].cnt \in Nat /\ EveryN \in Nat
    BY <2>1, HubAssumption DEF IInv, TypeOK
  <2>3. PICK n \in (hist[s].revokedAt + 1)..(hist[s].revokedAt + EveryN) : Sampled(n)
    BY <2>2, SampledHit
  <2>4. n \in (hist[s].revokedAt + 1)..sock[s].cnt
    BY <2>2, <2>3
  <2>5. QED
    BY <2>1, <2>3, <2>4 DEF IInv, Rechecked
<1>2. QED
  BY InitIInv, NextIInv, <1>1, PTL DEF Spec

\* A socket accepted just as its token was revoked is caught by its first frame
\* (fleet-hub.ts samples frame 1, not frame N).
THEOREM FirstFrameIsRechecked == Spec => []FirstFrameCatchesRace
<1>1. IInv => FirstFrameCatchesRace
  <2> SUFFICES ASSUME IInv, NEW s \in Open, RevokedIn(s), ~hist[s].excused,
                      hist[s].revokedAt = 0, sock[s].cnt >= 1
               PROVE  CheckUnderWay(s)
    BY DEF FirstFrameCatchesRace
  <2>1. s \in Sock /\ Watched(s)
    BY DEF Watched, Open
  <2>2. sock[s].cnt \in Nat /\ EveryN \in Nat /\ EveryN >= 2
    BY <2>1, HubAssumption DEF IInv, TypeOK
  <2>3. Sampled(1)
    BY <2>2 DEF Sampled
  <2>4. 1 \in (hist[s].revokedAt + 1)..sock[s].cnt
    BY <2>2
  <2>5. QED
    BY <2>1, <2>3, <2>4 DEF IInv, Rechecked
<1>2. QED
  BY InitIInv, NextIInv, <1>1, PTL DEF Spec

-----------------------------------------------------------------------------
(***************************************************************************)
(* The hub implements Broadcast.                                           *)
(***************************************************************************)

\* The values Broadcast's variables have in the hub.
Joined == {s \in Sock : sock[s].st \in {"open", "kicked", "closing", "closed"}}

Sent == [s \in Sock |-> IF s \in Open THEN inbox[s] ELSE {}]

FanUnchanged == UNCHANGED <<Joined, Open, published, Sent>>

\* A step of a socket that neither opens nor closes it, with what it was sent.
LEMMA FanKept ==
    ASSUME UNCHANGED <<published, inbox>>,
           \A s \in Sock : \/ sock'[s].st = sock[s].st
                           \/ /\ sock[s].st \in {"none", "checking"}
                              /\ sock'[s].st \in {"checking", "refused"}
    PROVE  FanUnchanged
<1>1. Open' = Open /\ Joined' = Joined
  BY DEF Open, Joined
<1>2. Sent' = Sent
  BY <1>1 DEF Sent
<1>3. QED
  BY <1>1, <1>2 DEF FanUnchanged

\* An open socket that gets another state leaves.
LEMMA FanLeave ==
    ASSUME NEW s \in Open, UNCHANGED published,
           sock'[s].st \in {"kicked", "closed"},
           \A i \in Sock \ {s} : sock'[i] = sock[i] /\ inbox'[i] = inbox[i]
    PROVE  Fan!BroadcastNext
<1>1. s \in Sock /\ sock[s].st = "open"
  BY DEF Open
<1>2. Open' = Open \ {s} /\ Joined' = Joined
  BY <1>1 DEF Open, Joined
<1>3. Sent' = [Sent EXCEPT ![s] = {}]
  BY <1>2 DEF Sent
<1>4. Fan!Leave(s)
  BY <1>2, <1>3 DEF Fan!Leave, Joined, Sent
<1>5. QED
  BY <1>1, <1>4 DEF Fan!BroadcastNext

\* An accepted socket joins, for the first time and having been sent nothing.
LEMMA FanJoin ==
    ASSUME NEW s \in Sock, sock[s].st = "checking", inbox[s] = {},
           sock'[s].st = "open", UNCHANGED <<published, inbox>>,
           \A i \in Sock \ {s} : sock'[i] = sock[i]
    PROVE  Fan!BroadcastNext
<1>1. Open' = Open \cup {s} /\ s \notin Open /\ Joined' = Joined \cup {s} /\ s \notin Joined
  BY DEF Open, Joined
<1>2. Sent' = Sent
  BY <1>1 DEF Sent
<1>3. Fan!Join(s)
  BY <1>1, <1>2 DEF Fan!Join, Joined, Sent
<1>4. QED
  BY <1>3 DEF Fan!BroadcastNext

\* A publish reaches every open socket but the dead ones, which leave.
LEMMA FanAnnounce ==
    ASSUME TypeOK, NEW dead \in SUBSET Open, Publish(dead)
    PROVE  Fan!BroadcastNext
<1>1. /\ published' = published + 1
      /\ \A s \in Open \ dead : inbox'[s] = inbox[s] \cup {published + 1}
      /\ \A s \in dead : s \in Sock /\ sock[s].st = "open" /\ sock'[s].st = "closing"
      /\ \A s \in Sock \ dead : sock'[s] = sock[s]
  BY DEF Publish, Open, TypeOK
<1>2. Open' = Open \ dead
  BY <1>1 DEF Open
<1>3. Joined' = Joined
  BY <1>1 DEF Joined
<1>4. Sent' = [s \in Sock |-> IF s \in Open' THEN Sent[s] \cup {published'} ELSE {}]
  <2> SUFFICES ASSUME NEW s \in Sock
               PROVE  (IF s \in Open' THEN inbox'[s] ELSE {})
                        = (IF s \in Open' THEN Sent[s] \cup {published'} ELSE {})
    BY DEF Sent
  <2>1. CASE s \in Open'
    BY <1>1, <1>2, <2>1 DEF Sent
  <2>2. CASE s \notin Open'
    BY <2>2
  <2>3. QED
    BY <2>1, <2>2
<1>5. Fan!Announce(dead)
  BY <1>1, <1>2, <1>3, <1>4 DEF Fan!Announce, Joined, Sent
<1>6. QED
  BY <1>5 DEF Fan!BroadcastNext

\* Every action of the hub moves the fan-out as Broadcast lets it, or not at all.
LEMMA HubStepFans ==
    ASSUME IInv, HubStep
    PROVE  Fan!BroadcastNext \/ FanUnchanged
<1>1. /\ sock \in [Sock -> [st : SockState, jti : Token \cup {NoJti}, cnt : 0..MaxFrames]]
      /\ \A c \in pending : c.s \in Sock
      /\ TypeOK
  BY DEF IInv, TypeOK, Check
<1>2. ASSUME NEW s \in Sock, NEW j \in Token, UpgradeAsk(s, j) \/ UpgradeRefusedByCache(s, j)
      PROVE  FanUnchanged
  BY <1>1, <1>2, FanKept DEF UpgradeAsk, UpgradeRefusedByCache
<1>3. ASSUME NEW c \in pending, KVAnswer(c) \/ KVFails(c)
      PROVE  FanUnchanged
  BY <1>3, FanKept DEF KVAnswer, KVFails
<1>4. ASSUME NEW c \in pending, UpgradeFinish(c)
      PROVE  Fan!BroadcastNext \/ FanUnchanged
  <2>1. /\ sock[c.s].st = "checking" /\ inbox[c.s] = {}
        /\ UNCHANGED <<published, inbox>>
        /\ sock' = [sock EXCEPT ![c.s].st = IF c.answer = "revoked" THEN "refused" ELSE "open"]
    BY <1>1, <1>4 DEF UpgradeFinish, IInv, PendingOK, SockOK
  <2>2. /\ sock'[c.s].st = IF c.answer = "revoked" THEN "refused" ELSE "open"
        /\ \A i \in Sock \ {c.s} : sock'[i] = sock[i]
    BY <1>1, <2>1
  <2>3. CASE c.answer = "revoked"
    BY <1>1, <2>1, <2>2, <2>3, FanKept
  <2>4. CASE c.answer # "revoked"
    BY <1>1, <2>1, <2>2, <2>4, FanJoin
  <2>5. QED
    BY <2>3, <2>4
<1>5. ASSUME NEW s \in Sock, Frame(s)
      PROVE  Fan!BroadcastNext \/ FanUnchanged
  <2> DEFINE n == sock[s].cnt + 1
  <2>1. /\ sock[s].st = "open"
        /\ \/ sock' = [sock EXCEPT ![s].cnt = n, ![s].st = "kicked"]
           \/ sock' = [sock EXCEPT ![s].cnt = n, ![s].st = "open"]
        /\ UNCHANGED <<published, inbox>>
    BY <1>5 DEF Frame
  <2> HIDE DEF n
  <2>2. /\ sock'[s].st \in {"kicked", "open"}
        /\ \A i \in Sock \ {s} : sock'[i] = sock[i]
    BY <1>1, <2>1
  <2>3. CASE sock'[s].st = "kicked"
    BY <2>1, <2>2, <2>3, FanLeave DEF Open
  <2>4. CASE sock'[s].st = "open"
    BY <2>1, <2>2, <2>4, FanKept
  <2>5. QED
    BY <2>2, <2>3, <2>4
<1>6. ASSUME NEW c \in pending, FrameFinish(c)
      PROVE  Fan!BroadcastNext \/ FanUnchanged
  <2>1. CASE c.answer = "revoked" /\ sock[c.s].st = "open"
    <3>1. sock' = [sock EXCEPT ![c.s].st = "kicked"] /\ UNCHANGED <<published, inbox>>
      BY <1>6, <2>1 DEF FrameFinish
    <3>2. sock'[c.s].st = "kicked" /\ \A i \in Sock \ {c.s} : sock'[i] = sock[i]
      BY <1>1, <3>1
    <3>3. QED
      BY <1>1, <2>1, <3>1, <3>2, FanLeave DEF Open
  <2>2. CASE ~(c.answer = "revoked" /\ sock[c.s].st = "open")
    BY <1>6, <2>2, FanKept DEF FrameFinish
  <2>3. QED
    BY <2>1, <2>2
<1>7. ASSUME NEW s \in Sock, SocketGone(s)
      PROVE  Fan!BroadcastNext \/ FanUnchanged
  <2>1. /\ sock[s].st \in {"open", "kicked", "closing"}
        /\ sock'[s].st = "closed"
        /\ \A i \in Sock \ {s} : sock'[i] = sock[i] /\ inbox'[i] = inbox[i]
        /\ UNCHANGED published
    BY <1>1, <1>7 DEF SocketGone, Unconnected, TypeOK
  <2>2. CASE sock[s].st = "open"
    BY <2>1, <2>2, FanLeave DEF Open
  <2>3. CASE sock[s].st # "open"
    <3>1. Open' = Open /\ s \notin Open /\ Joined' = Joined
      BY <2>1, <2>3 DEF Open, Joined
    <3>2. Sent' = Sent
      BY <2>1, <3>1 DEF Sent
    <3>3. QED
      BY <2>1, <3>1, <3>2 DEF FanUnchanged
  <2>4. QED
    BY <2>2, <2>3
<1>8. ASSUME NEW dead \in SUBSET Open, Publish(dead)
      PROVE  Fan!BroadcastNext
  BY <1>1, <1>8, FanAnnounce
<1>9. CASE Hibernate
  BY <1>9, FanKept DEF Hibernate
<1>10. QED
  BY <1>2, <1>3, <1>4, <1>5, <1>6, <1>7, <1>8, <1>9 DEF HubStep

\* The hub implements Broadcast: a socket that was accepted is a member until it
\* closes, fails or is kicked, is sent every event in between at once with all
\* the others, and never joins again, for any number of sockets, checks under
\* way and hibernations.
THEOREM HubBroadcasts == Spec => ImplementsBroadcast
<1>1. Init => Fan!BroadcastInit
  <2> SUFFICES ASSUME Init PROVE Fan!BroadcastInit
    OBVIOUS
  <2>1. \A s \in Sock : sock[s].st = "none" /\ inbox[s] = {}
    BY DEF Init, HubInit, Unconnected
  <2>2. published = 0
    BY DEF Init, HubInit
  <2>3. QED
    BY <2>1, <2>2 DEF Fan!BroadcastInit, Open
<1>2. IInv /\ [Next]_vars => [Fan!BroadcastNext]_(Fan!broadcastVars)
  <2> SUFFICES ASSUME IInv, [Next]_vars PROVE Fan!BroadcastNext \/ FanUnchanged
    BY DEF FanUnchanged, Fan!broadcastVars, Joined, Sent
  <2>1. CASE HubNext
    BY <2>1, HubStepFans DEF HubNext
  <2>2. CASE UNCHANGED <<sock, published, inbox>>
    BY <2>2, FanKept
  <2>3. QED
    BY <2>1, <2>2 DEF Next, Revoke, ClockStep, hubOwn, vars
<1>3. QED
  BY <1>1, <1>2, InitIInv, NextIInv, PTL DEF Spec, ImplementsBroadcast, Fan!BroadcastSpec
=============================================================================
