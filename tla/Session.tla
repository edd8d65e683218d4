------------------------------- MODULE Session -------------------------------
(***************************************************************************)
(* Login, the auth middleware and logout of the Go API, over the sessions  *)
(* KV.  Requests are handled concurrently, and each call to KV is a step   *)
(* of its own: between a handler's steps the clock moves, another request  *)
(* of the same token runs, or KV fails.                                    *)
(***************************************************************************)
EXTENDS SessionsKV

CONSTANTS
    Req,        \* requests the container handles at once
    TokenTTL,   \* the signer's accessTTL, in ticks
    NoToken     \* the token of an idle request slot

ASSUME SessionAssumption ==
    /\ TokenTTL \in Nat \ {0}
    /\ TokenTTL % Second = 0
    /\ NoToken \notin Token

VARIABLES
    exp,        \* exp[j]: the exp claim of the token j; 0 before it is minted
    req,        \* req[r]: where request r is
    signedOut   \* history: tokens whose logout was answered 200

sessionVars == <<exp, req, signedOut>>
vars == <<now, kv, sessionVars>>

Idle == [pc |-> "idle", tok |-> NoToken, op |-> "none", rem |-> 0]

Horizon == MaxTime + TokenTTL + KVMinTTL

TypeOK ==
    /\ now \in 0..MaxTime
    /\ kv \in [Key -> 0..Horizon]
    /\ exp \in [Token -> 0..Horizon]
    /\ req \in [Req -> [pc  : {"idle", "verified", "admitted", "putting"},
                        tok : Token \cup {NoToken},
                        op  : {"none", "call", "logout"},
                        rem : 0..TokenTTL]]
    /\ signedOut \in SUBSET Token

Init ==
    /\ now = 0
    /\ kv = [k \in Key |-> 0]
    /\ exp = [j \in Token |-> 0]
    /\ req = [r \in Req |-> Idle]
    /\ signedOut = {}

-----------------------------------------------------------------------------
GoKey(j) == <<"bl", j>>

Minted(j) == exp[j] # 0

\* Signer.Verify's time check; signature, algorithm and issuer hold for every
\* minted token, and nbf = iat is never in the future of the clock that set it.
Valid(j) == Minted(j) /\ now < exp[j]

\* Signer.Remaining, clamped at zero.
Remaining(j) == IF exp[j] < now THEN 0 ELSE exp[j] - now

\* Signer.Issue under Login: jwt.NewNumericDate drops the fraction of a second.
Login(j) ==
    /\ ~Minted(j)
    /\ exp' = [exp EXCEPT ![j] = FloorSecond(now + TokenTTL)]
    /\ UNCHANGED <<now, kv, req, signedOut>>

\* NewAuth, up to the blocklist call: an invalid token is refused at once ...
AuthReject(r, j) ==
    /\ req[r] = Idle
    /\ ~Valid(j)
    /\ UNCHANGED vars

\* ... a valid one waits for KV.
AuthVerify(r, j, op) ==
    /\ req[r] = Idle
    /\ Valid(j)
    /\ req' = [req EXCEPT ![r] = [pc |-> "verified", tok |-> j, op |-> op, rem |-> 0]]
    /\ UNCHANGED <<now, kv, exp, signedOut>>

\* NewAuth after IsRevoked answers: not found lets the handler run.
BlocklistMiss(r) ==
    /\ req[r].pc = "verified"
    /\ ~Found(GoKey(req[r].tok))
    /\ req' = [req EXCEPT ![r].pc = "admitted"]
    /\ UNCHANGED <<now, kv, exp, signedOut>>

\* 401 on a hit.
BlocklistHit(r) ==
    /\ req[r].pc = "verified"
    /\ Found(GoKey(req[r].tok))
    /\ req' = [req EXCEPT ![r] = Idle]
    /\ UNCHANGED <<now, kv, exp, signedOut>>

BlocklistError_FailOpen(r) ==
    /\ req[r].pc = "verified"
    /\ req' = [req EXCEPT ![r].pc = "admitted"]
    /\ UNCHANGED <<now, kv, exp, signedOut>>

\* 500 when the lookup itself fails or the request's deadline passes.
BlocklistError(r) ==
    /\ req[r].pc = "verified"
    /\ req' = [req EXCEPT ![r] = Idle]
    /\ UNCHANGED <<now, kv, exp, signedOut>>

\* Any authenticated handler but logout: its effects are other modules'.
HandlerReturn(r) ==
    /\ req[r].pc = "admitted"
    /\ req[r].op = "call"
    /\ req' = [req EXCEPT ![r] = Idle]
    /\ UNCHANGED <<now, kv, exp, signedOut>>

\* AuthUsecase.Logout on a token that expired since it was verified: 200, and
\* nothing is written.
LogoutExpired(r) ==
    /\ req[r].pc = "admitted"
    /\ req[r].op = "logout"
    /\ Remaining(req[r].tok) <= 0
    /\ req' = [req EXCEPT ![r] = Idle]
    /\ signedOut' = signedOut \cup {req[r].tok}
    /\ UNCHANGED <<now, kv, exp>>

\* The lifetime is computed here and used when the Put reaches KV.
LogoutBegin(r) ==
    /\ req[r].pc = "admitted"
    /\ req[r].op = "logout"
    /\ Remaining(req[r].tok) > 0
    /\ req' = [req EXCEPT ![r].pc = "putting", ![r].rem = Remaining(req[r].tok)]
    /\ UNCHANGED <<now, kv, exp, signedOut>>

\* Put succeeds: 200 and both cookies cleared.
LogoutDone(r) ==
    /\ req[r].pc = "putting"
    /\ Put(GoKey(req[r].tok), req[r].rem)
    /\ req' = [req EXCEPT ![r] = Idle]
    /\ signedOut' = signedOut \cup {req[r].tok}
    /\ UNCHANGED <<now, exp>>

LogoutError_ClearsCookies(r) ==
    /\ req[r].pc = "putting"
    /\ req' = [req EXCEPT ![r] = Idle]
    /\ signedOut' = signedOut \cup {req[r].tok}
    /\ UNCHANGED <<now, kv, exp>>

\* Put fails: 500, the cookies stay.  The write may have been applied before
\* its answer was lost.
LogoutError(r) ==
    /\ req[r].pc = "putting"
    /\ \/ UNCHANGED kv
       \/ Put(GoKey(req[r].tok), req[r].rem)
    /\ req' = [req EXCEPT ![r] = Idle]
    /\ UNCHANGED <<now, exp, signedOut>>

\* One step of a request in progress.
RequestStep(r) ==
    \/ BlocklistMiss(r)
    \/ BlocklistHit(r)
    \/ BlocklistError(r)
    \/ HandlerReturn(r)
    \/ LogoutExpired(r)
    \/ LogoutBegin(r)
    \/ LogoutDone(r)
    \/ LogoutError(r)

SessionNext ==
    \/ \E j \in Token : Login(j)
    \/ \E r \in Req, j \in Token : AuthReject(r, j)
    \/ \E r \in Req, j \in Token, op \in {"call", "logout"} : AuthVerify(r, j, op)
    \/ \E r \in Req : RequestStep(r)

ClockStep == Tick /\ UNCHANGED <<kv, sessionVars>>

Next == SessionNext \/ ClockStep

Spec == Init /\ [][Next]_vars

-----------------------------------------------------------------------------
\* Once a logout was answered 200, the blocklist holds the token until less
\* than a second before its expiry, whatever a second logout of the same token,
\* a failed Put or a slow one does to the entry.
BlocklistCovers ==
    \A j \in signedOut : now < exp[j] => kv[GoKey(j)] + Second > exp[j]

\* NewAuth lets no request through on a token whose logout was already
\* answered 200 when KV was asked, KV failures included, except in the last
\* fraction of a second of a token's life that Put's truncation gives away.
RevokedStaysOut ==
    [][\A r \in Req :
          /\ req[r].pc = "verified" /\ req'[r].pc = "admitted"
          /\ req[r].tok \in signedOut
          => now + Second > exp[req[r].tok]]_vars
=============================================================================
