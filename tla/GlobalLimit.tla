----------------------------- MODULE GlobalLimit -----------------------------
(***************************************************************************)
(* The limiter in front of every route                                     *)
(* (backend/internal/middleware/ratelimit_global.go), for one address.  A  *)
(* request reads the counters of its minute and of its day, is refused if  *)
(* either is at its limit, else writes both back, one higher, and goes on  *)
(* to its handler.  Four KV calls: others come in between, each may fail,  *)
(* and a failure lets the request through.                                 *)
(***************************************************************************)
EXTENDS CounterKV

CONSTANTS
    Req,            \* requests of the address in progress at once
    MinuteLimit,    \* GlobalPerMinuteLimit
    DayLimit,       \* GlobalPerDayLimit
    MinuteTTL,      \* globalMinuteTTL
    DayTTL,         \* globalDayTTL
    MaxCalls,       \* bound on the requests made
    MaxFaults       \* bound on the KV failures and stops

\* An entry outlives the last request that may read it: 2 min, 25 h.
ASSUME LimitAssumption ==
    /\ MinuteLimit \in Nat \ {0} /\ DayLimit \in Nat \ {0}
    /\ MinuteTTL \in Nat /\ MinuteTTL >= 2
    /\ DayTTL \in Nat /\ DayTTL >= MinutesPerDay + 1
    /\ MaxCalls \in Nat /\ MaxFaults \in Nat

VARIABLES
    call,       \* call[r]: where request r is in the chain of handlers
    calls,      \* how many requests were made
    faults,     \* how many failures and stops there were
    let,        \* history: let[k], the requests window k let through
    disturbed   \* history: windows in which a KV failure or a stop lost a
                \* count, or a request read the counter before another wrote it

limitVars == <<now, kv, call, calls, faults, let, disturbed>>

Begun(pc, at) == [pc |-> pc, at |-> at, minute |-> 0, day |-> 0]
Idle == Begun("idle", 0)

LimitTypeOK ==
    /\ now \in 0..MaxTime
    /\ kv \in [Key -> [n : Nat, until : Nat]]
    /\ call \in [Req -> [pc     : {"idle", "minute", "day", "bumpMinute",
                                   "bumpDay", "handler", "refused"},
                         at     : 0..MaxTime,
                         minute : Nat,
                         day    : Nat]]
    /\ calls \in 0..MaxCalls
    /\ faults \in 0..MaxFaults
    /\ let \in [Key -> Nat]
    /\ disturbed \in SUBSET Key

LimitInit ==
    /\ now = 0
    /\ kv = [k \in Key |-> Absent]
    /\ call = [r \in Req |-> Idle]
    /\ calls = 0
    /\ faults = 0
    /\ let = [k \in Key |-> 0]
    /\ disturbed = {}

-----------------------------------------------------------------------------
KMin(r) == MinuteKey(call[r].at)
KDay(r) == DayKey(call[r].at)

InTime(r) == now <= call[r].at + 1

\* r has read window k and will write it back.
Holds(r, k) ==
    \/ call[r].pc \in {"day", "bumpMinute"} /\ k = KMin(r)
    \/ call[r].pc \in {"bumpMinute", "bumpDay"} /\ k = KDay(r)

\* History: a read of k, of which others have yet to write what they read.
Shared(k) == IF \E q \in Req : Holds(q, k) THEN {k} ELSE {}

Fault == faults < MaxFaults /\ faults' = faults + 1

Leave(r) == call' = [call EXCEPT ![r] = Idle]

\* now() is read once, and names both keys.
Arrive(r) ==
    /\ call[r].pc = "idle"
    /\ calls < MaxCalls
    /\ calls' = calls + 1
    /\ call' = [call EXCEPT ![r] = Begun("minute", now)]
    /\ UNCHANGED <<now, kv, faults, let, disturbed>>

\* readCounter of the minute.
ReadMinute(r) ==
    /\ call[r].pc = "minute"
    /\ InTime(r)
    /\ call' = [call EXCEPT ![r].pc = "day", ![r].minute = Count(KMin(r))]
    /\ disturbed' = disturbed \cup Shared(KMin(r))
    /\ UNCHANGED <<now, kv, calls, faults, let>>

\* It fails: zero, and what the minute counted so far is about to be overwritten.
ReadMinuteFails(r) ==
    /\ call[r].pc = "minute"
    /\ call' = [call EXCEPT ![r].pc = "day", ![r].minute = 0]
    /\ disturbed' = disturbed \cup {KMin(r)}
    /\ Fault
    /\ UNCHANGED <<now, kv, calls, let>>

Exceeded_Exclusive(m, d) == m > MinuteLimit \/ d > DayLimit

\* Checked before incrementing: the request after the limit is refused.
Exceeded(m, d) == m >= MinuteLimit \/ d >= DayLimit

\* With both counters read, the request is refused or let through.
Decide(r, d) ==
    \/ /\ Exceeded(call[r].minute, d)
       /\ call' = [call EXCEPT ![r].pc = "refused", ![r].minute = 0]
       /\ UNCHANGED let
    \/ /\ ~Exceeded(call[r].minute, d)
       /\ call' = [call EXCEPT ![r].pc = "bumpMinute", ![r].day = d]
       /\ let' = [let EXCEPT ![KMin(r)] = @ + 1, ![KDay(r)] = @ + 1]

ReadDay(r) ==
    /\ call[r].pc = "day"
    /\ InTime(r)
    /\ Decide(r, Count(KDay(r)))
    /\ disturbed' = disturbed \cup Shared(KDay(r))
    /\ UNCHANGED <<now, kv, calls, faults>>

ReadDayFails(r) ==
    /\ call[r].pc = "day"
    /\ Decide(r, 0)
    /\ disturbed' = disturbed \cup {KDay(r)}
    /\ Fault
    /\ UNCHANGED <<now, kv, calls>>

BumpMinute_Twice(r) ==
    /\ call[r].pc = "bumpMinute"
    /\ InTime(r)
    /\ Put(KMin(r), call[r].minute + 2, MinuteTTL)
    /\ call' = [call EXCEPT ![r].pc = "bumpDay"]
    /\ UNCHANGED <<now, calls, faults, let, disturbed>>

\* writeCounter of the minute, then of the day,
BumpMinute(r) ==
    /\ call[r].pc = "bumpMinute"
    /\ InTime(r)
    /\ Put(KMin(r), call[r].minute + 1, MinuteTTL)
    /\ call' = [call EXCEPT ![r].pc = "bumpDay", ![r].minute = 0]
    /\ UNCHANGED <<now, calls, faults, let, disturbed>>

BumpDay(r) ==
    /\ call[r].pc = "bumpDay"
    /\ InTime(r)
    /\ Put(KDay(r), call[r].day + 1, DayTTL)
    /\ call' = [call EXCEPT ![r].pc = "handler", ![r].day = 0]
    /\ UNCHANGED <<now, calls, faults, let, disturbed>>

\* and either may fail unapplied (applied, it is as above): logged, and on.
BumpMinuteFails(r) ==
    /\ call[r].pc = "bumpMinute"
    /\ call' = [call EXCEPT ![r].pc = "bumpDay", ![r].minute = 0]
    /\ disturbed' = disturbed \cup {KMin(r)}
    /\ Fault
    /\ UNCHANGED <<now, kv, calls, let>>

BumpDayFails(r) ==
    /\ call[r].pc = "bumpDay"
    /\ call' = [call EXCEPT ![r].pc = "handler", ![r].day = 0]
    /\ disturbed' = disturbed \cup {KDay(r)}
    /\ Fault
    /\ UNCHANGED <<now, kv, calls, let>>

\* 429, Retry-After: 60.
Answer429(r) ==
    /\ call[r].pc = "refused"
    /\ Leave(r)
    /\ UNCHANGED <<now, kv, calls, faults, let, disturbed>>

LimitStep(r) ==
    \/ Arrive(r)
    \/ ReadMinute(r)
    \/ ReadMinuteFails(r)
    \/ ReadDay(r)
    \/ ReadDayFails(r)
    \/ BumpMinute(r)
    \/ BumpMinuteFails(r)
    \/ BumpDay(r)
    \/ BumpDayFails(r)
    \/ Answer429(r)

\* The container stops: the requests in it are lost, and so are the counts they
\* were about to write.
LimitStop ==
    /\ \E r \in Req : call[r].pc # "idle"
    /\ call' = [r \in Req |-> Idle]
    /\ disturbed' = disturbed \cup {k \in Key : \E r \in Req : Holds(r, k)}
    /\ Fault
    /\ UNCHANGED <<now, kv, calls, let>>

LimitTick ==
    /\ Tick
    /\ UNCHANGED <<kv, call, calls, faults, let, disturbed>>

-----------------------------------------------------------------------------
Limit(k) == IF k[1] = "minute" THEN MinuteLimit ELSE DayLimit

\* A window in which no count was lost lets no more requests through than its
\* limit: neither the lifetime of an entry, nor a request that crosses into the
\* next window, nor what the other counter does, opens it.
WindowHolds ==
    \A k \in Key : k[1] # "quota" /\ k \notin disturbed => let[k] <= Limit(k)

\* Nobody is refused before the minute or the day has let its limit through,
\* whatever fails, overlaps or stops: counts are lost, never invented.
RefusedAtLimit ==
    \A r \in Req : call[r].pc = "refused" =>
        let[KMin(r)] >= MinuteLimit \/ let[KDay(r)] >= DayLimit
=============================================================================
