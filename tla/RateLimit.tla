------------------------------ MODULE RateLimit ------------------------------
(***************************************************************************)
(* The token bucket of the per-route limits                                *)
(* (backend/internal/middleware/ratelimit.go), for one key.  A request     *)
(* reads the wall clock, then reads the bucket from KV, then writes it     *)
(* back and is answered: requests of the same client overlap in between,   *)
(* KV fails, and the entry expires.                                        *)
(*                                                                         *)
(* A token is Period units and one unit flows in with every tick, so that  *)
(* tokens are integers here; the code keeps a float and counts             *)
(* milliseconds.  A bucket with t units at time `last' is full again at    *)
(* last + Full - t, and the properties compare such moments: they need no  *)
(* bucket of their own that refills.                                       *)
(***************************************************************************)
EXTENDS Integers

CONSTANTS
    Req,        \* requests of the client in progress at once
    Capacity,   \* Bucket.Capacity
    Period,     \* 1 / Bucket.RefillRate, in ticks
    TTL,        \* the TTL the limit is configured with
    Deadline,   \* requestDeadline, after which a request reads KV no more
    Second,     \* ticks in a second
    MaxTime,    \* bound on the clock, for model checking
    MaxCalls    \* bound on the requests the client makes

Full == Capacity * Period

\* bootstrap.go: 300 s of refill against 10 min, 600 s against 15, 60 s against
\* 2; and a deadline of 10 s.
ASSUME RateLimitAssumption ==
    /\ Capacity \in Nat \ {0} /\ Period \in Nat \ {0} /\ Second \in Nat \ {0}
    /\ Deadline \in Nat /\ TTL \in Nat
    /\ TTL >= Full + Deadline
    /\ MaxTime \in Nat /\ MaxCalls \in Nat

VARIABLES
    now,        \* the container's clock
    failClosed, \* which middleware guards the route; never changes
    entry,      \* the KV entry: bucketState and when it expires
    call,       \* call[r]: where request r is
    calls,      \* how many requests the client has made
    due,        \* history: when the bucket would be full again, had it been
                \* charged for the undisturbed admissions that KV recorded,
    dueAll,     \* and for all admissions
    setback,    \* history: by how much late readers turned LastRefillMs back
    promise     \* history: when the last 429's Retry-After runs out; 0 once
                \* the client did not keep quiet or came back

history == <<due, dueAll, setback, promise>>
vars == <<now, failClosed, entry, call, calls, history>>

Absent == [tokens |-> Full, last |-> 0, until |-> 0]

\* alone: no other request of the key was in progress since this one arrived.
Idle == [pc |-> "idle", at |-> 0, tokens |-> 0, alone |-> TRUE]

TypeOK ==
    /\ now \in 0..MaxTime
    /\ failClosed \in BOOLEAN
    /\ entry \in [tokens : 0..Full, last : 0..MaxTime, until : 0..(MaxTime + TTL)]
    /\ call \in [Req -> [pc     : {"idle", "reading", "deciding"},
                         at     : 0..MaxTime,
                         tokens : 0..Full,
                         alone  : BOOLEAN]]
    /\ due \in Nat /\ dueAll \in Nat /\ setback \in Nat
    /\ calls \in 0..MaxCalls
    /\ promise \in Nat

Init ==
    /\ now = 0
    /\ failClosed \in BOOLEAN
    /\ entry = Absent
    /\ call = [r \in Req |-> Idle]
    /\ calls = 0
    /\ due = 0 /\ dueAll = 0 /\ setback = 0 /\ promise = 0

-----------------------------------------------------------------------------
Larger(a, b) == IF a > b THEN a ELSE b
Smaller(a, b) == IF a < b THEN a ELSE b

Found == entry.until > now

\* elapsedMs where it is positive: a bucket stamped later than `at' gets nothing.
Elapsed(at) == Larger(at - entry.last, 0)

Refilled_Uncapped(at) ==
    IF Found THEN entry.tokens + Elapsed(at) ELSE Full

\* The tokens of a request that arrived at `at': none lost, none beyond Capacity,
\* a full bucket where there is no entry.
Refilled(at) ==
    IF Found THEN Smaller(Full, entry.tokens + Elapsed(at)) ELSE Full

RetryAfter_Floor(tokens) == Second * Larger(1, (Period - tokens) \div Second)

\* math.Ceil to whole seconds, at least one.
RetryAfter(tokens) == Second * Larger(1, (Period - tokens + Second - 1) \div Second)

InProgress == {r \in Req : call[r].pc # "idle"}

Charge(t, at) == Larger(t, at) + Period

\* History: r is let through, recorded by KV
Granted(r) ==
    /\ due' = IF call[r].alone THEN Charge(due, call[r].at) ELSE due
    /\ dueAll' = Charge(dueAll, call[r].at)

\* or thanks to its failure.
GrantedUnrecorded(r) ==
    /\ dueAll' = Charge(dueAll, call[r].at)
    /\ UNCHANGED due

Persisted_KeepsStamp(r, tokens) ==
    entry' = [tokens |-> tokens, last |-> entry.last, until |-> now + TTL]

\* persistBucket reaching KV.
Persisted(r, tokens) ==
    entry' = [tokens |-> tokens, last |-> call[r].at, until |-> now + TTL]

Answered(r) == call' = [call EXCEPT ![r] = Idle]

\* now() is read before the bucket is.
Arrive(r) ==
    /\ call[r].pc = "idle"
    /\ calls < MaxCalls
    /\ calls' = calls + 1
    /\ call' = [q \in Req |->
                   IF q = r THEN [pc |-> "reading", at |-> now, tokens |-> 0,
                                  alone |-> InProgress = {}]
                   ELSE IF q \in InProgress THEN [call[q] EXCEPT !.alone = FALSE]
                   ELSE call[q]]
    /\ promise' = IF now < promise THEN 0 ELSE promise
    /\ UNCHANGED <<now, failClosed, entry, due, dueAll, setback>>

\* storage.Read and the refill.
ReadBucket(r) ==
    /\ call[r].pc = "reading"
    /\ now <= call[r].at + Deadline
    /\ call' = [call EXCEPT ![r].pc = "deciding", ![r].tokens = Refilled(call[r].at)]
    /\ setback' = IF Found THEN setback + Larger(entry.last - call[r].at, 0) ELSE setback
    /\ promise' = 0
    /\ UNCHANGED <<now, failClosed, entry, calls, due, dueAll>>

\* storage.Read fails on a critical route: 503.
ReadFailsClosed(r) ==
    /\ call[r].pc = "reading"
    /\ failClosed
    /\ Answered(r)
    /\ UNCHANGED <<now, failClosed, entry, calls, history>>

\* It fails on another route: the request is let through.
ReadFailsOpen(r) ==
    /\ call[r].pc = "reading"
    /\ ~failClosed
    /\ Answered(r)
    /\ GrantedUnrecorded(r)
    /\ UNCHANGED <<now, failClosed, entry, calls, setback, promise>>

\* A whole token is taken, the bucket persisted, the request let through.
Admit(r) ==
    /\ call[r].pc = "deciding"
    /\ call[r].tokens >= Period
    /\ Persisted(r, call[r].tokens - Period)
    /\ Answered(r)
    /\ Granted(r)
    /\ UNCHANGED <<now, failClosed, calls, setback, promise>>

\* The write fails, applied or not: let through all the same.
AdmitUnpersisted(r) ==
    /\ call[r].pc = "deciding"
    /\ call[r].tokens >= Period
    /\ UNCHANGED entry \/ Persisted(r, call[r].tokens - Period)
    /\ Answered(r)
    /\ GrantedUnrecorded(r)
    /\ UNCHANGED <<now, failClosed, calls, setback, promise>>

Deny_Unrefilled(r) ==
    /\ call[r].pc = "deciding"
    /\ call[r].tokens < Period
    /\ Persisted(r, 0)
    /\ Answered(r)
    /\ promise' = IF InProgress = {r} THEN now + RetryAfter(call[r].tokens) ELSE 0
    /\ UNCHANGED <<now, failClosed, calls, due, dueAll, setback>>

\* 429, with the refilled bucket persisted.
Deny(r) ==
    /\ call[r].pc = "deciding"
    /\ call[r].tokens < Period
    /\ Persisted(r, call[r].tokens)
    /\ Answered(r)
    /\ promise' = IF InProgress = {r} THEN now + RetryAfter(call[r].tokens) ELSE 0
    /\ UNCHANGED <<now, failClosed, calls, due, dueAll, setback>>

\* The write fails, applied or not: 429 all the same.
DenyUnpersisted(r) ==
    /\ call[r].pc = "deciding"
    /\ call[r].tokens < Period
    /\ UNCHANGED entry \/ Persisted(r, call[r].tokens)
    /\ Answered(r)
    /\ promise' = IF call[r].alone THEN now + RetryAfter(call[r].tokens) ELSE 0
    /\ UNCHANGED <<now, failClosed, calls, due, dueAll, setback>>

RequestStep(r) ==
    \/ Arrive(r)
    \/ ReadBucket(r)
    \/ ReadFailsClosed(r)
    \/ ReadFailsOpen(r)
    \/ Admit(r)
    \/ AdmitUnpersisted(r)
    \/ Deny(r)
    \/ DenyUnpersisted(r)

Tick ==
    /\ now < MaxTime
    /\ now' = now + 1
    /\ UNCHANGED <<failClosed, entry, call, calls, history>>

Next == Tick \/ \E r \in Req : RequestStep(r)

Spec == Init /\ [][Next]_vars
-----------------------------------------------------------------------------
Decides(r) == call[r].pc = "reading" /\ call'[r].pc = "deciding"

\* No window of time lets through more undisturbed requests than Capacity and
\* what flows in meanwhile, expiring entries, failed writes and overlapping
\* requests notwithstanding: each moves the bucket's full moment Period ahead,
\* and it never lies more than Full ahead of the request.  Requests that a KV
\* failure lets through come on top, one each; so does, once, the time by which
\* a late reader turned LastRefillMs back.
NeverLooser ==
    [][\A r \in Req :
          call[r].pc # "idle" /\ call'[r].pc = "idle" /\ due' # due
          => due' <= call[r].at + Full + setback]_vars

\* Bucket's comment: "we never want to be more strict than the configuration".
\* A request is refused only if the configured bucket, charged with all
\* admissions so far, has no whole token either, whatever overlaps or fails.
NeverStricter ==
    [][\A r \in Req :
          Decides(r) /\ call'[r].tokens < Period
          => dueAll + Period > call[r].at + Full]_vars

\* A client that is alone, waits out its 429's Retry-After and asks again alone
\* finds a whole token, though the refusal may not have been written.
RetryAfterHonest ==
    [][\A r \in Req :
          Decides(r) /\ call[r].alone /\ promise # 0
          => call'[r].tokens >= Period]_vars
=============================================================================
