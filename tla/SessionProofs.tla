---------------------------- MODULE SessionProofs ----------------------------
(***************************************************************************)
(* The blocklist keeps a logged-out token out of the API, for any number   *)
(* of tokens and concurrent requests, any lifetimes and any clock bound;   *)
(* and what the API and the hub are to each other when they share the KV.  *)
(***************************************************************************)
EXTENDS Revocation, TLAPS

\* What a request in progress remembers is about a minted token, and the
\* lifetime a logout computed still reaches the token's expiry.
InFlight ==
    \A r \in Req :
        req[r].pc # "idle" =>
            /\ req[r].tok \in Token
            /\ Minted(req[r].tok)
            /\ req[r].pc = "putting" =>
                  req[r].rem > 0 /\ now + req[r].rem >= exp[req[r].tok]

\* Tokens expire at most one lifetime from now, and only minted ones were
\* logged out.
ExpiryBound == \A j \in Token : exp[j] <= now + TokenTTL

SignedOutMinted == \A j \in signedOut : Minted(j)

IInv ==
    /\ TypeOK
    /\ InFlight
    /\ ExpiryBound
    /\ SignedOutMinted
    /\ BlocklistCovers

-----------------------------------------------------------------------------
\* Truncation to whole seconds (kv.go, jwt.NewNumericDate) loses less than one.
LEMMA FloorSecondBounds ==
    ASSUME NEW t \in Nat
    PROVE  /\ FloorSecond(t) \in Nat
           /\ FloorSecond(t) <= t
           /\ FloorSecond(t) + Second > t
<1>1. Second \in Nat /\ Second > 0
  BY KVAssumption
<1>2. t % Second \in 0..(Second - 1)
  BY <1>1
<1>3. t % Second <= t
  BY <1>1
<1>4. QED
  BY <1>1, <1>2, <1>3 DEF FloorSecond

\* A stored lifetime is never more than a second short of the one asked for,
\* nor longer than the larger of it and kvMinTTL.
LEMMA StoredTTLBounds ==
    ASSUME NEW ttl \in Nat
    PROVE  /\ StoredTTL(ttl) \in Nat
           /\ StoredTTL(ttl) + Second > ttl
           /\ StoredTTL(ttl) <= ttl + KVMinTTL
<1>1. KVMinTTL \in Nat /\ Second \in Nat
  BY KVAssumption
<1>2. CASE ttl < KVMinTTL
  BY <1>1, <1>2, FloorSecondBounds DEF StoredTTL
<1>3. CASE ~(ttl < KVMinTTL)
  BY <1>1, <1>3, FloorSecondBounds DEF StoredTTL
<1>4. QED
  BY <1>2, <1>3


\* Nothing is minted, stored or logged out at first.
LEMMA InitIInv == Init => IInv
  BY KVAssumption, SessionAssumption
     DEF Init, IInv, TypeOK, InFlight, ExpiryBound, SignedOutMinted, BlocklistCovers,
         Idle, Horizon, Key

-----------------------------------------------------------------------------
\* One lemma per kind of step.

\* Login mints a token; no token signed out before changes its expiry.
LEMMA LoginStep ==
    ASSUME IInv, NEW j \in Token, Login(j)
    PROVE  IInv'
<1> USE DEF IInv, Login, Minted
<1>1. /\ now \in Nat /\ TokenTTL \in Nat /\ now + TokenTTL \in Nat /\ now <= MaxTime
      /\ MaxTime \in Nat /\ KVMinTTL \in Nat
  BY KVAssumption, SessionAssumption DEF TypeOK
<1>2. exp'[j] \in Nat /\ exp'[j] <= now + TokenTTL
  BY <1>1, FloorSecondBounds DEF TypeOK
<1>3. \A i \in Token \ {j} : exp'[i] = exp[i]
  BY DEF TypeOK
<1>4. TypeOK'
  BY <1>1, <1>2 DEF TypeOK, Horizon
<1>5. \A i \in Token : Minted(i) => i # j
  OBVIOUS
<1>6. InFlight'
  BY <1>3, <1>5 DEF InFlight, TypeOK
<1>7. ExpiryBound'
  BY <1>1, <1>2, <1>3 DEF ExpiryBound
<1>8. SignedOutMinted' /\ BlocklistCovers'
  BY <1>3, <1>5 DEF SignedOutMinted, BlocklistCovers, TypeOK
<1>9. QED
  BY <1>4, <1>6, <1>7, <1>8

\* Steps that only move a request forward or drop it.
LEMMA RequestOnlyStep ==
    ASSUME IInv, NEW r \in Req,
           UNCHANGED <<now, kv, exp, signedOut>>,
           NEW q \in [pc  : {"idle", "verified", "admitted", "putting"},
                      tok : Token \cup {NoToken},
                      op  : {"none", "call", "logout"},
                      rem : 0..TokenTTL],
           req' = [req EXCEPT ![r] = q],
           q.pc # "idle" =>
               /\ q.tok \in Token
               /\ Minted(q.tok)
               /\ q.pc = "putting" => q.rem > 0 /\ now + q.rem >= exp[q.tok]
    PROVE  IInv'
<1>1. TypeOK'
  BY DEF IInv, TypeOK
<1>2. InFlight'
  BY DEF IInv, InFlight, TypeOK, Minted
<1>3. ExpiryBound' /\ SignedOutMinted' /\ BlocklistCovers'
  BY DEF IInv, ExpiryBound, SignedOutMinted, BlocklistCovers, Minted
<1>4. QED
  BY <1>1, <1>2, <1>3 DEF IInv

\* A logout's Put, answered (whole) or lost.
LEMMA PutStep ==
    ASSUME IInv, NEW r \in Req,
           req[r].pc = "putting",
           Put(GoKey(req[r].tok), req[r].rem),
           req' = [req EXCEPT ![r] = Idle],
           UNCHANGED <<now, exp>>,
           \/ signedOut' = signedOut
           \/ signedOut' = signedOut \cup {req[r].tok}
    PROVE  IInv'
<1> DEFINE j == req[r].tok
<1> DEFINE ttl == req[r].rem
<1>1. /\ j \in Token /\ Minted(j) /\ now + ttl >= exp[j]
      /\ ttl \in 0..TokenTTL /\ ttl \in Nat
  BY SessionAssumption DEF IInv, InFlight, TypeOK
<1>2. /\ StoredTTL(ttl) \in Nat
      /\ StoredTTL(ttl) + Second > ttl
      /\ StoredTTL(ttl) <= ttl + KVMinTTL
  BY <1>1, StoredTTLBounds
<1>3. /\ now \in Nat /\ now <= MaxTime /\ Second \in Nat /\ KVMinTTL \in Nat
      /\ TokenTTL \in Nat /\ MaxTime \in Nat /\ exp[j] \in Nat
  BY <1>1, KVAssumption, SessionAssumption DEF IInv, TypeOK
<1>4. GoKey(j) \in Key
  BY <1>1 DEF GoKey, Key
<1>5. kv' = [kv EXCEPT ![GoKey(j)] = now + StoredTTL(ttl)]
  BY DEF Put
<1>6. kv'[GoKey(j)] = now + StoredTTL(ttl)
  BY <1>4, <1>5 DEF IInv, TypeOK
<1>7. kv'[GoKey(j)] + Second > exp[j]
  BY <1>1, <1>2, <1>3, <1>6
<1>8. \A i \in Token : i # j => kv'[GoKey(i)] = kv[GoKey(i)]
  BY <1>4, <1>5 DEF IInv, TypeOK, GoKey, Key
<1>9. now + StoredTTL(ttl) \in 0..Horizon
  BY <1>1, <1>2, <1>3 DEF Horizon
<1>10. TypeOK'
  <2>1. kv' \in [Key -> 0..Horizon]
    BY <1>5, <1>9 DEF IInv, TypeOK
  <2>2. signedOut' \in SUBSET Token
    BY <1>1 DEF IInv, TypeOK
  <2>3. Idle \in [pc  : {"idle", "verified", "admitted", "putting"},
                  tok : Token \cup {NoToken},
                  op  : {"none", "call", "logout"},
                  rem : 0..TokenTTL]
    BY <1>3 DEF Idle
  <2>4. QED
    BY <2>1, <2>2, <2>3 DEF IInv, TypeOK
<1>11. InFlight'
  BY DEF IInv, InFlight, TypeOK, Idle, Minted
<1>12. ExpiryBound' /\ SignedOutMinted'
  BY <1>1 DEF IInv, ExpiryBound, SignedOutMinted, Minted
<1>13. BlocklistCovers'
  <2> SUFFICES ASSUME NEW i \in signedOut', now < exp[i]
               PROVE  kv'[GoKey(i)] + Second > exp[i]
    BY DEF BlocklistCovers
  <2>1. CASE i = j
    BY <2>1, <1>7
  <2>2. CASE i # j
    BY <2>2, <1>8 DEF IInv, BlocklistCovers, TypeOK
  <2>3. QED
    BY <2>1, <2>2
<1>14. QED
  BY <1>10, <1>11, <1>12, <1>13 DEF IInv

\* A logout that writes nothing because the token has expired.
LEMMA LogoutExpiredStep ==
    ASSUME IInv, NEW r \in Req, LogoutExpired(r)
    PROVE  IInv'
<1> DEFINE j == req[r].tok
<1>1. j \in Token /\ Minted(j) /\ exp[j] \in Nat /\ now \in Nat /\ TokenTTL \in Nat
  BY SessionAssumption DEF IInv, InFlight, TypeOK, LogoutExpired
<1>2. exp[j] <= now
  BY <1>1 DEF LogoutExpired, Remaining
<1>3. TypeOK'
  BY <1>1 DEF IInv, TypeOK, LogoutExpired, Idle
<1>4. InFlight'
  BY DEF IInv, InFlight, TypeOK, LogoutExpired, Idle, Minted
<1>5. ExpiryBound' /\ SignedOutMinted'
  BY <1>1 DEF IInv, ExpiryBound, SignedOutMinted, LogoutExpired, Minted
<1>6. BlocklistCovers'
  BY <1>1, <1>2 DEF IInv, BlocklistCovers, LogoutExpired, GoKey
<1>7. QED
  BY <1>3, <1>4, <1>5, <1>6 DEF IInv

\* Time only makes the implications of the invariant weaker.
LEMMA ClockStepIInv ==
    ASSUME IInv, ClockStep
    PROVE  IInv'
<1>1. now \in Nat /\ now' = now + 1 /\ now < MaxTime /\ MaxTime \in Nat /\ TokenTTL \in Nat
  BY KVAssumption, SessionAssumption DEF IInv, TypeOK, ClockStep, Tick
<1>2. /\ UNCHANGED <<kv, exp, req, signedOut>>
      /\ TypeOK
  BY DEF ClockStep, sessionVars, IInv
<1>3. TypeOK'
  BY <1>1, <1>2 DEF TypeOK
<1>4. InFlight'
  <2> SUFFICES ASSUME NEW r \in Req, req[r].pc # "idle"
               PROVE  /\ req[r].tok \in Token
                      /\ Minted(req[r].tok)
                      /\ req[r].pc = "putting" =>
                            req[r].rem > 0 /\ now' + req[r].rem >= exp[req[r].tok]
    BY <1>2 DEF InFlight, Minted
  <2>1. /\ req[r].tok \in Token
        /\ Minted(req[r].tok)
        /\ req[r].pc = "putting" =>
              req[r].rem > 0 /\ now + req[r].rem >= exp[req[r].tok]
    BY DEF IInv, InFlight
  <2>2. req[r].rem \in Nat /\ exp[req[r].tok] \in Nat
    BY <1>1, <1>2, <2>1 DEF TypeOK
  <2>3. QED
    BY <1>1, <2>1, <2>2
<1>5. ExpiryBound'
  BY <1>1, <1>2 DEF IInv, ExpiryBound, TypeOK
<1>6. SignedOutMinted'
  BY <1>2 DEF IInv, SignedOutMinted, Minted
<1>7. BlocklistCovers'
  BY <1>1, <1>2 DEF IInv, BlocklistCovers, TypeOK, GoKey
<1>8. QED
  BY <1>3, <1>4, <1>5, <1>6, <1>7 DEF IInv

-----------------------------------------------------------------------------
\* The induction step: every request step is one of the kinds above.
LEMMA NextIInv == IInv /\ [Next]_vars => IInv'
<1> SUFFICES ASSUME IInv, [Next]_vars
             PROVE  IInv'
  OBVIOUS
<1> USE DEF RequestStep
<1>1. /\ TokenTTL \in Nat
      /\ Idle \in [pc  : {"idle", "verified", "admitted", "putting"},
                   tok : Token \cup {NoToken},
                   op  : {"none", "call", "logout"},
                   rem : 0..TokenTTL]
      /\ Idle.pc = "idle"
  BY SessionAssumption DEF Idle
<1>2. ASSUME NEW j \in Token, Login(j)
      PROVE  IInv'
  BY <1>2, LoginStep
<1>3. ASSUME NEW r \in Req, NEW j \in Token, NEW op \in {"call", "logout"}, AuthVerify(r, j, op)
      PROVE  IInv'
  <2> DEFINE q == [pc |-> "verified", tok |-> j, op |-> op, rem |-> 0]
  <2>1. /\ q \in [pc  : {"idle", "verified", "admitted", "putting"},
                  tok : Token \cup {NoToken},
                  op  : {"none", "call", "logout"},
                  rem : 0..TokenTTL]
        /\ q.tok = j /\ q.pc = "verified"
    BY <1>1
  <2>2. Minted(j)
    BY <1>3 DEF AuthVerify, Valid
  <2>3. UNCHANGED <<now, kv, exp, signedOut>> /\ req' = [req EXCEPT ![r] = q]
    BY <1>3 DEF AuthVerify
  <2> HIDE DEF q
  <2>4. QED
    BY <2>1, <2>2, <2>3, RequestOnlyStep
<1>4. ASSUME NEW r \in Req,
             BlocklistHit(r) \/ BlocklistError(r) \/ HandlerReturn(r)
      PROVE  IInv'
  <2>1. UNCHANGED <<now, kv, exp, signedOut>> /\ req' = [req EXCEPT ![r] = Idle]
    BY <1>4 DEF BlocklistHit, BlocklistError, HandlerReturn
  <2>2. QED
    BY <1>1, <2>1, RequestOnlyStep
<1>5. ASSUME NEW r \in Req, BlocklistMiss(r)
      PROVE  IInv'
  <2> DEFINE q == [req[r] EXCEPT !.pc = "admitted"]
  <2>1. /\ q \in [pc  : {"idle", "verified", "admitted", "putting"},
                  tok : Token \cup {NoToken},
                  op  : {"none", "call", "logout"},
                  rem : 0..TokenTTL]
        /\ q.tok = req[r].tok /\ q.pc = "admitted"
    BY DEF IInv, TypeOK
  <2>2. q.tok \in Token /\ Minted(q.tok)
    BY <1>5, <2>1 DEF IInv, InFlight, BlocklistMiss
  <2>3. UNCHANGED <<now, kv, exp, signedOut>> /\ req' = [req EXCEPT ![r] = q]
    BY <1>5 DEF BlocklistMiss, IInv, TypeOK
  <2> HIDE DEF q
  <2>4. QED
    BY <2>1, <2>2, <2>3, RequestOnlyStep
<1>6. ASSUME NEW r \in Req, LogoutBegin(r)
      PROVE  IInv'
  <2> DEFINE q == [req[r] EXCEPT !.pc = "putting", !.rem = Remaining(req[r].tok)]
  <2>1. req[r].tok \in Token /\ Minted(req[r].tok) /\ exp[req[r].tok] \in Nat /\ now \in Nat
    BY <1>6 DEF IInv, InFlight, LogoutBegin, TypeOK
  <2>2. /\ Remaining(req[r].tok) \in 0..TokenTTL
        /\ Remaining(req[r].tok) > 0
        /\ now + Remaining(req[r].tok) >= exp[req[r].tok]
    BY <1>1, <1>6, <2>1 DEF LogoutBegin, Remaining, IInv, ExpiryBound
  <2>3. /\ q \in [pc  : {"idle", "verified", "admitted", "putting"},
                  tok : Token \cup {NoToken},
                  op  : {"none", "call", "logout"},
                  rem : 0..TokenTTL]
        /\ q.tok = req[r].tok /\ q.rem = Remaining(req[r].tok)
    BY <2>2 DEF IInv, TypeOK
  <2>4. UNCHANGED <<now, kv, exp, signedOut>> /\ req' = [req EXCEPT ![r] = q]
    BY <1>6 DEF LogoutBegin, IInv, TypeOK
  <2> HIDE DEF q
  <2>5. QED
    BY <2>1, <2>2, <2>3, <2>4, RequestOnlyStep
<1>7. ASSUME NEW r \in Req, LogoutDone(r)
      PROVE  IInv'
  BY <1>7, PutStep DEF LogoutDone
<1>8. ASSUME NEW r \in Req, LogoutError(r)
      PROVE  IInv'
  <2>1. CASE UNCHANGED kv
    BY <1>1, <1>8, <2>1, RequestOnlyStep DEF LogoutError
  <2>2. CASE Put(GoKey(req[r].tok), req[r].rem)
    BY <1>8, <2>2, PutStep DEF LogoutError
  <2>3. QED
    BY <1>8, <2>1, <2>2 DEF LogoutError
<1>9. ASSUME NEW r \in Req, LogoutExpired(r)
      PROVE  IInv'
  BY <1>9, LogoutExpiredStep
<1>10. CASE ClockStep
  BY <1>10, ClockStepIInv
<1>11. CASE UNCHANGED vars
  BY <1>11 DEF vars, sessionVars, IInv, TypeOK, InFlight, ExpiryBound, SignedOutMinted,
               BlocklistCovers, Minted
<1>12. ASSUME NEW r \in Req, NEW j \in Token, AuthReject(r, j)
      PROVE  IInv'
  BY <1>11, <1>12 DEF AuthReject
<1>13. QED
  BY <1>2, <1>3, <1>4, <1>5, <1>6, <1>7, <1>8, <1>9, <1>10, <1>11, <1>12
     DEF Next, SessionNext

\* Type correctness of the session protocol: every lifetime and every request
\* stays in range, whatever the interleaving.
THEOREM SessionTypeCorrect == Spec => []TypeOK
<1>1. IInv => TypeOK
  BY DEF IInv
<1>2. QED
  BY InitIInv, NextIInv, <1>1, PTL DEF Spec

\* The blocklist entry of a token whose logout was answered 200 lasts until
\* less than a second before the token's expiry (auth_usecase.go, Logout).
THEOREM BlocklistCoversToken == Spec => []BlocklistCovers
<1>1. IInv => BlocklistCovers
  BY DEF IInv
<1>2. QED
  BY InitIInv, NextIInv, <1>1, PTL DEF Spec

\* No request is admitted on a logged-out token except in that last fraction
\* of a second (middleware/auth.go, NewAuth).
THEOREM RevokedTokenStaysOut == Spec => RevokedStaysOut
<1>1. IInv /\ [Next]_vars =>
         [\A r \in Req :
             /\ req[r].pc = "verified" /\ req'[r].pc = "admitted"
             /\ req[r].tok \in signedOut
             => now + Second > exp[req[r].tok]]_vars
  <2> SUFFICES ASSUME IInv, Next, NEW r \in Req,
                      req[r].pc = "verified", req'[r].pc = "admitted",
                      req[r].tok \in signedOut
               PROVE  now + Second > exp[req[r].tok]
    OBVIOUS
  <2>1. ~ UNCHANGED req
    OBVIOUS
  <2>2. PICK r2 \in Req :
            \/ RequestStep(r2)
            \/ \E j \in Token, op \in {"call", "logout"} : AuthVerify(r2, j, op)
    BY <2>1 DEF Next, SessionNext, Login, AuthReject, ClockStep, vars, sessionVars
  <2>3. r2 = r
    BY <2>2 DEF RequestStep, AuthVerify, BlocklistMiss, BlocklistHit, BlocklistError,
           HandlerReturn, LogoutExpired, LogoutBegin, LogoutDone, LogoutError, IInv, TypeOK
  <2>4. BlocklistMiss(r)
    BY <2>2, <2>3 DEF RequestStep, AuthVerify, BlocklistMiss, BlocklistHit, BlocklistError,
           HandlerReturn, LogoutExpired, LogoutBegin, LogoutDone, LogoutError, IInv, TypeOK, Idle
  <2>5. kv[GoKey(req[r].tok)] <= now
    BY <2>4, KVAssumption DEF BlocklistMiss, Found, IInv, InFlight, TypeOK, GoKey, Key
  <2>6. Horizon \in Nat
    BY KVAssumption, SessionAssumption DEF Horizon
  <2>7. /\ now \in Nat
        /\ exp[req[r].tok] \in Nat
        /\ kv[GoKey(req[r].tok)] \in Nat
    <3>1. signedOut \subseteq Token
      BY DEF IInv, TypeOK
    <3>2. req[r].tok \in Token
      BY <3>1
    <3>3. GoKey(req[r].tok) \in Key
      BY <3>2 DEF GoKey, Key
    <3>4. /\ now \in 0..MaxTime
          /\ exp \in [Token -> 0..Horizon]
          /\ kv \in [Key -> 0..Horizon]
      BY DEF IInv, TypeOK
    <3>5. QED
      BY <2>6, <3>2, <3>3, <3>4, KVAssumption
  <2>8. now < exp[req[r].tok] => kv[GoKey(req[r].tok)] + Second > exp[req[r].tok]
    BY DEF IInv, BlocklistCovers
  <2>9. QED
    BY <2>5, <2>7, <2>8, KVAssumption
<1>2. QED
  BY InitIInv, NextIInv, <1>1, PTL DEF Spec, RevokedStaysOut

-----------------------------------------------------------------------------
(***************************************************************************)
(* The API and the hub over one KV (Revocation).                           *)
(***************************************************************************)

\* Seen from the API, a step of the composition is a step of the API or none.
LEMMA RevocationStepIsApiStep == [RevocationNext]_revocationVars => [Next]_vars
<1>1. ApiStep => Next
  BY DEF ApiStep, Next
<1>2. SocketStep => UNCHANGED vars
  BY DEF SocketStep, Hub!HubNext, vars, sessionVars
<1>3. TimeStep => Next
  BY DEF TimeStep, Next
<1>4. UNCHANGED revocationVars => UNCHANGED vars
  BY DEF revocationVars
<1>5. QED
  BY <1>1, <1>2, <1>3, <1>4 DEF RevocationNext

\* The Durable Object only reads the sessions KV, so the API with the hub
\* beside it is the API alone: what is proved of Spec holds of the composition.
THEOREM HubLeavesApiAlone == RevocationSpec => Spec
<1>1. RevocationInit => Init
  BY DEF RevocationInit
<1>2. QED
  BY <1>1, RevocationStepIsApiStep, PTL DEF RevocationSpec, Spec

\* A logged-out token stays out of the API whatever its sockets do: the entry
\* outlives the token (auth_usecase.go, Logout) and no request is admitted on
\* it (middleware/auth.go, NewAuth).
THEOREM LogoutHoldsBesideHub ==
    RevocationSpec => []BlocklistCovers /\ RevokedStaysOut
  BY HubLeavesApiAlone, BlocklistCoversToken, RevokedTokenStaysOut, PTL

\* A check belongs to its socket's upgrade, alone, or to a frame it sent, and
\* was never answered "revoked".
ChecksOfSockets ==
    \A c \in pending :
        /\ c.s \in Sock /\ c.jti \in Token /\ c.n \in Nat
        /\ c.answer # "revoked"
        /\ c.n = 0 => /\ sock[c.s].st = "checking"
                      /\ \A d \in pending : d.s = c.s => d = c
        /\ c.n > 0 => sock[c.s].st \notin {"none", "checking"}

SocketTypes == [st : Hub!SockState, jti : Token \cup {NoJti}, cnt : Nat]

\* The hub has never seen an entry: none was written under a key it reads, no
\* check was answered "revoked", and nothing of the kind is cached.
HubIsDeaf ==
    /\ sock \in [Sock -> SocketTypes]
    /\ \A s \in Sock : sock[s].st \notin {"none", "closed"} => sock[s].jti \in Token
    /\ ChecksOfSockets
    /\ cache = [j \in Token |-> 0]
    /\ \A j \in Token : kv[Hub!HubKey(j)] = 0
    /\ RecheckNeverFires

\* The one write of the API to KV is under its own family of keys.
LEMMA ApiLeavesHubKeys ==
    ASSUME IInv, SessionNext
    PROVE  \A j \in Token : kv'[Hub!HubKey(j)] = kv[Hub!HubKey(j)]
<1>1. CASE UNCHANGED kv
  BY <1>1 DEF Hub!HubKey
<1>2. ASSUME NEW r \in Req, Put(GoKey(req[r].tok), req[r].rem)
      PROVE  \A j \in Token : kv'[Hub!HubKey(j)] = kv[Hub!HubKey(j)]
  <2>1. \A j \in Token : Hub!HubKey(j) \in Key /\ Hub!HubKey(j) # GoKey(req[r].tok)
    BY DEF Hub!HubKey, GoKey, Key
  <2>2. QED
    BY <1>2, <2>1 DEF Put, IInv, TypeOK
<1>3. UNCHANGED kv \/ \E r \in Req : Put(GoKey(req[r].tok), req[r].rem)
  BY DEF SessionNext, Login, AuthReject, AuthVerify, RequestStep, BlocklistMiss, BlocklistHit,
         BlocklistError, HandlerReturn, LogoutExpired, LogoutBegin, LogoutDone, LogoutError, vars
<1>4. QED
  BY <1>1, <1>2, <1>3

\* An entry expiring at tick 0 is never found, and nothing is cached until then.
LEMMA NothingFound ==
    ASSUME now \in Nat
    PROVE  /\ \A k : kv[k] = 0 => ~Hub!Found(k)
           /\ \A j \in Token : cache[j] = 0 => ~Hub!Cached(j)
<1>1. ASSUME NEW k, kv[k] = 0
      PROVE  ~Hub!Found(k)
  BY <1>1 DEF Hub!Found
<1>2. ASSUME NEW j \in Token, cache[j] = 0
      PROVE  ~Hub!Cached(j)
  BY <1>2 DEF Hub!Cached
<1>3. QED
  BY <1>1, <1>2

\* Nothing the hub does before it is told "revoked" makes it hear one.
LEMMA SocketStepDeaf ==
    ASSUME IInv, HubIsDeaf, SocketStep
    PROVE  HubIsDeaf'
<1>1. UNCHANGED <<now, kv>> /\ Hub!HubStep
  BY DEF SocketStep, Hub!HubNext
<1>2. /\ sock \in [Sock -> SocketTypes]
      /\ \A s \in Sock : sock[s].st \notin {"none", "closed"} => sock[s].jti \in Token
      /\ \A s \in Sock : sock[s].st \notin {"refused", "kicked"}
      /\ cache = [j \in Token |-> 0]
  BY DEF HubIsDeaf, RecheckNeverFires
<1>3. ChecksOfSockets
  BY DEF HubIsDeaf
<1>4. now \in Nat
  BY KVAssumption DEF IInv, TypeOK
<1>5. \A j \in Token : ~Hub!Cached(j)
  BY <1>2, <1>4, NothingFound
<1>6. \A j \in Token : ~Hub!Found(Hub!HubKey(j))
  BY <1>4, NothingFound DEF HubIsDeaf
<1> DEFINE Goal == /\ sock' \in [Sock -> SocketTypes]
                   /\ \A s \in Sock : sock'[s].st \notin {"none", "closed"} => sock'[s].jti \in Token
                   /\ \A s \in Sock : sock'[s].st \notin {"refused", "kicked"}
                   /\ cache' = cache
                   /\ ChecksOfSockets'
<1>7. SUFFICES Goal
  BY <1>1, <1>2 DEF HubIsDeaf, RecheckNeverFires, Hub!HubKey
<1>8. ASSUME NEW s \in Sock, NEW j \in Token, Hub!UpgradeAsk(s, j)
      PROVE  Goal
  <2> DEFINE c == [s |-> s, jti |-> j, n |-> 0, t0 |-> now, answer |-> "asked"]
  <2>1. /\ sock[s].st = "none"
        /\ sock' = [sock EXCEPT ![s] = [st |-> "checking", jti |-> j, cnt |-> 0]]
        /\ pending' = pending \cup {c}
        /\ cache' = cache
    BY <1>8 DEF Hub!UpgradeAsk, Hub!Ask
  <2>2. /\ c.s = s /\ c.jti = j /\ c.n = 0 /\ c.answer = "asked"
        /\ \A d \in pending : d.s # s
    BY <1>3, <2>1 DEF ChecksOfSockets
  <2> HIDE DEF c
  <2>3. /\ sock'[s] = [st |-> "checking", jti |-> j, cnt |-> 0]
        /\ \A i \in Sock \ {s} : sock'[i] = sock[i]
    BY <1>2, <2>1
  <2>4. sock' \in [Sock -> SocketTypes]
    BY <1>2, <2>1 DEF SocketTypes, Hub!SockState
  <2>5. ChecksOfSockets'
    BY <1>3, <2>1, <2>2, <2>3 DEF ChecksOfSockets
  <2>6. QED
    BY <1>2, <2>1, <2>3, <2>4, <2>5
<1>9. ASSUME NEW s \in Sock, NEW j \in Token, Hub!UpgradeRefusedByCache(s, j)
      PROVE  FALSE
  BY <1>5, <1>9 DEF Hub!UpgradeRefusedByCache
<1>10. ASSUME NEW c \in pending, Hub!KVAnswer(c) \/ Hub!KVFails(c)
       PROVE  Goal
  <2> DEFINE e == [c EXCEPT !.answer = "clear"]
  <2>1. c.jti \in Token /\ c.s \in Sock /\ c.answer = "asked"
    BY <1>3, <1>10 DEF ChecksOfSockets, Hub!KVAnswer, Hub!KVFails
  <2>2. UNCHANGED <<sock, cache>> /\ pending' = (pending \ {c}) \cup {e}
    BY <1>6, <1>10, <2>1 DEF Hub!KVAnswer, Hub!KVFails
  <2>3. e.s = c.s /\ e.jti = c.jti /\ e.n = c.n /\ e.answer = "clear"
    OBVIOUS
  <2> HIDE DEF e
  <2>4. ChecksOfSockets'
    BY <1>3, <2>2, <2>3 DEF ChecksOfSockets
  <2>5. QED
    BY <1>2, <2>2, <2>4
<1>11. ASSUME NEW c \in pending, Hub!UpgradeFinish(c)
       PROVE  Goal
  <2>1. /\ c.s \in Sock /\ c.n = 0 /\ c.answer # "revoked" /\ sock[c.s].st = "checking"
        /\ \A d \in pending : d.s = c.s => d = c
    BY <1>3, <1>11 DEF ChecksOfSockets, Hub!UpgradeFinish
  <2>2. cache' = cache /\ pending' = pending \ {c} /\ sock' = [sock EXCEPT ![c.s].st = "open"]
    BY <1>11, <2>1 DEF Hub!UpgradeFinish, Hub!CacheRevoked
  <2>3. /\ sock'[c.s].st = "open" /\ sock'[c.s].jti = sock[c.s].jti
        /\ \A i \in Sock \ {c.s} : sock'[i] = sock[i]
    BY <1>2, <2>1, <2>2 DEF SocketTypes
  <2>4. sock' \in [Sock -> SocketTypes]
    BY <1>2, <2>2 DEF SocketTypes, Hub!SockState
  <2>5. ChecksOfSockets'
    BY <1>3, <2>1, <2>2, <2>3 DEF ChecksOfSockets
  <2>6. QED
    BY <1>2, <2>1, <2>2, <2>3, <2>4, <2>5
<1>12. ASSUME NEW s \in Sock, Hub!Frame(s)
       PROVE  Goal
  <2> DEFINE n == sock[s].cnt + 1
  <2> DEFINE c == [s |-> s, jti |-> sock[s].jti, n |-> n, t0 |-> now, answer |-> "asked"]
  <2>1. sock[s].st = "open" /\ sock[s].jti \in Token /\ n \in Nat /\ n > 0
    BY <1>2, <1>12 DEF Hub!Frame, SocketTypes
  <2>2. ~Hub!Cached(sock[s].jti)
    BY <1>5, <2>1
  <2>3. /\ sock' = [sock EXCEPT ![s].cnt = n, ![s].st = "open"]
        /\ cache' = cache
        /\ pending' = pending \/ pending' = pending \cup {c}
    BY <1>12, <2>2 DEF Hub!Frame, Hub!Ask
  <2>4. c.s = s /\ c.jti = sock[s].jti /\ c.n = n /\ c.answer = "asked"
    OBVIOUS
  <2> HIDE DEF n, c
  <2>5. /\ sock'[s].st = "open" /\ sock'[s].jti = sock[s].jti
        /\ \A i \in Sock \ {s} : sock'[i] = sock[i]
    BY <1>2, <2>1, <2>3 DEF SocketTypes
  <2>6. sock' \in [Sock -> SocketTypes]
    BY <1>2, <2>1, <2>3 DEF SocketTypes, Hub!SockState
  <2>7. \A d \in pending : d.n = 0 => d.s # s
    BY <1>3, <2>1 DEF ChecksOfSockets
  <2>8. ASSUME NEW d \in pending', d.n = 0, NEW b \in pending', b.s = d.s
        PROVE  b = d
    BY <1>3, <2>1, <2>3, <2>4, <2>7, <2>8 DEF ChecksOfSockets
  <2>9. ASSUME NEW d \in pending'
        PROVE  /\ d.s \in Sock /\ d.jti \in Token /\ d.n \in Nat
               /\ d.answer # "revoked"
               /\ d.n = 0 => sock'[d.s].st = "checking"
               /\ d.n > 0 => sock'[d.s].st \notin {"none", "checking"}
    <3>1. CASE d = c
      BY <2>1, <2>4, <2>5, <3>1
    <3>2. CASE d \in pending /\ d.s = s
      BY <1>3, <2>5, <2>7, <3>2 DEF ChecksOfSockets
    <3>3. CASE d \in pending /\ d.s # s
      BY <1>3, <2>5, <3>3 DEF ChecksOfSockets
    <3>4. QED
      BY <2>3, <3>1, <3>2, <3>3
  <2>10. ChecksOfSockets'
    BY <2>8, <2>9 DEF ChecksOfSockets
  <2>11. QED
    BY <1>2, <2>1, <2>3, <2>5, <2>6, <2>10
<1>13. ASSUME NEW c \in pending, Hub!FrameFinish(c)
       PROVE  Goal
  <2>1. c.answer # "revoked"
    BY <1>3 DEF ChecksOfSockets
  <2>2. UNCHANGED <<sock, cache>> /\ pending' = pending \ {c}
    BY <1>13, <2>1 DEF Hub!FrameFinish, Hub!CacheRevoked
  <2>3. ChecksOfSockets'
    BY <1>3, <2>2 DEF ChecksOfSockets
  <2>4. QED
    BY <1>2, <2>2, <2>3
<1>14. ASSUME NEW s \in Sock, Hub!SocketGone(s)
       PROVE  Goal
  <2>1. /\ sock[s].st \in {"open", "kicked", "closing"}
        /\ sock' = [sock EXCEPT ![s] = [st |-> "closed", jti |-> NoJti, cnt |-> 0]]
        /\ pending' = pending
        /\ cache' = [cache EXCEPT ![sock[s].jti] = 0]
    BY <1>14 DEF Hub!SocketGone, Hub!Unconnected
  <2>2. cache' = cache
    BY <1>2, <2>1
  <2>3. /\ sock'[s] = [st |-> "closed", jti |-> NoJti, cnt |-> 0]
        /\ \A i \in Sock \ {s} : sock'[i] = sock[i]
    BY <1>2, <2>1
  <2>4. sock' \in [Sock -> SocketTypes]
    BY <1>2, <2>1 DEF SocketTypes, Hub!SockState
  <2>5. ChecksOfSockets'
    BY <1>3, <2>1, <2>3 DEF ChecksOfSockets
  <2>6. QED
    BY <1>2, <2>2, <2>3, <2>4, <2>5
<1>15. ASSUME NEW dead \in SUBSET Hub!Open, Hub!Publish(dead)
       PROVE  Goal
  <2>1. /\ UNCHANGED <<pending, cache>>
        /\ sock' = [s \in Sock |-> IF s \in dead THEN [sock[s] EXCEPT !.st = "closing"] ELSE sock[s]]
    BY <1>15 DEF Hub!Publish
  <2>2. \A s \in dead : s \in Sock /\ sock[s].st = "open"
    BY DEF Hub!Open
  <2>3. /\ \A s \in dead : sock'[s].st = "closing" /\ sock'[s].jti = sock[s].jti
        /\ \A s \in Sock \ dead : sock'[s] = sock[s]
    BY <1>2, <2>1, <2>2 DEF SocketTypes
  <2>4. sock' \in [Sock -> SocketTypes]
    BY <1>2, <2>1 DEF SocketTypes, Hub!SockState
  <2>5. ChecksOfSockets'
    BY <1>3, <2>1, <2>2, <2>3 DEF ChecksOfSockets
  <2>6. QED
    BY <1>2, <2>1, <2>2, <2>3, <2>4, <2>5
<1>16. CASE Hub!Hibernate
  <2>1. UNCHANGED <<sock, pending, cache>>
    BY <1>2, <1>16 DEF Hub!Hibernate
  <2>2. QED
    BY <1>2, <1>3, <2>1 DEF ChecksOfSockets
<1>17. QED
  BY <1>1, <1>8, <1>9, <1>10, <1>11, <1>12, <1>13, <1>14, <1>15, <1>16 DEF Hub!HubStep

\* With the keys written as they are (auth_usecase.go:260) and read as they are
\* (fleet-hub.ts, checkBlocklist), a logout never closes or refuses a socket, in any
\* interleaving of requests, upgrades, frames, hibernations and KV failures:
\* why LogoutClosesSockets fails, and not only in the instance that shows it.
THEOREM LogoutReachesNoSocket == RevocationSpec => []RecheckNeverFires
<1>1. RevocationInit => IInv /\ HubIsDeaf
  <2>1. RevocationInit => HubIsDeaf
    BY DEF RevocationInit, Init, Hub!HubInit, Hub!Unconnected, HubIsDeaf, SocketTypes, RecheckNeverFires,
           Hub!SockState, Hub!HubKey, Key, ChecksOfSockets
  <2>2. QED
    BY <2>1, InitIInv DEF RevocationInit
<1>2. IInv /\ HubIsDeaf /\ [RevocationNext]_revocationVars => (IInv /\ HubIsDeaf)'
  <2> SUFFICES ASSUME IInv, HubIsDeaf, [RevocationNext]_revocationVars
               PROVE  HubIsDeaf'
    BY RevocationStepIsApiStep, NextIInv
  <2>1. ASSUME UNCHANGED hubVars, \A j \in Token : kv'[Hub!HubKey(j)] = kv[Hub!HubKey(j)]
        PROVE  HubIsDeaf'
    BY <2>1 DEF hubVars, HubIsDeaf, RecheckNeverFires, ChecksOfSockets
  <2>2. CASE ApiStep
    BY <2>1, <2>2, ApiLeavesHubKeys DEF ApiStep
  <2>3. CASE SocketStep
    BY <2>3, SocketStepDeaf
  <2>4. CASE TimeStep \/ UNCHANGED revocationVars
    BY <2>1, <2>4 DEF TimeStep, ClockStep, revocationVars, vars, Hub!HubKey
  <2>5. QED
    BY <2>2, <2>3, <2>4 DEF RevocationNext
<1>3. HubIsDeaf => RecheckNeverFires
  BY DEF HubIsDeaf
<1>4. QED
  BY <1>1, <1>2, <1>3, PTL DEF RevocationSpec
=============================================================================
