----------------------------- MODULE PhotosProofs -----------------------------
(***************************************************************************)
(* The global limiter and the photo quota behind it, for any limits, quota,*)
(* lengths of the day, lifetimes that the assumptions allow, numbers of    *)
(* overlapping requests, failures and stops.                               *)
(*                                                                         *)
(* The invariant has a part for each.  Both say of an undisturbed window   *)
(* that its counter is exact but for the one request that has it read, and *)
(* of any window that its counter never says too much.  Lasting makes a    *)
(* read find what is stored: no entry expires while its window is read.    *)
(***************************************************************************)
EXTENDS Photos, TLAPS

-----------------------------------------------------------------------------
(* Windows and the lifetime of their entries.                              *)

\* The last minute at which a request of window k may still read its counter.
Last(k) == IF k[1] = "minute" THEN k[2] + 1 ELSE (k[2] + 1) * MinutesPerDay

Assumptions == CounterAssumption /\ LimitAssumption /\ PhotosAssumption

LEMMA Constants ==
    ASSUME Assumptions
    PROVE  /\ MinutesPerDay \in Nat /\ MinutesPerDay > 0 /\ MaxTime \in Nat
           /\ MinuteLimit \in Nat /\ MinuteLimit > 0 /\ DayLimit \in Nat /\ DayLimit > 0
           /\ MinuteTTL \in Nat /\ MinuteTTL >= 2
           /\ DayTTL \in Nat /\ DayTTL >= MinutesPerDay + 1
           /\ QuotaTTL \in Nat /\ QuotaTTL >= MinutesPerDay + 1
           /\ MaxCalls \in Nat /\ MaxFaults \in Nat
           /\ Quota \in Nat /\ Quota > 0
BY DEF Assumptions, CounterAssumption, LimitAssumption, PhotosAssumption

LEMMA DayOf ==
    ASSUME NEW M \in Nat, M > 0, NEW t \in Nat
    PROVE  /\ t \div M \in Nat /\ t \div M <= t
           /\ (t \div M) * M <= t /\ t < (t \div M + 1) * M
           /\ (t \div M + 1) * M <= t + M
<1> DEFINE d == t \div M
<1>1. d \in Nat /\ d * M <= t /\ t < d * M + M
  OBVIOUS
<1> HIDE DEF d
<1>2. d * M \in Nat /\ (d + 1) * M = d * M + M
  BY <1>1
<1>3. d <= d * M
  BY <1>1
<1> QED BY <1>1, <1>2, <1>3 DEF d

TTL(k) ==
    CASE k[1] = "minute" -> MinuteTTL [] k[1] = "day" -> DayTTL [] k[1] = "quota" -> QuotaTTL

\* A request that read the clock at t is done with t's windows by Last, and
\* what it, or a later one, writes lasts longer.
LEMMA WindowOf ==
    ASSUME Assumptions, NEW t \in 0..MaxTime, NEW k \in {MinuteKey(t), DayKey(t), QuotaKey(t)}
    PROVE  /\ k \in Key
           /\ Last(k) \in Nat /\ t + 1 <= Last(k)
           /\ TTL(k) \in Nat
           /\ \A w \in Nat : w >= t => w + TTL(k) > Last(k)
<1> USE Constants
<1> DEFINE d == t \div MinutesPerDay
<1>1. /\ d \in 0..MaxTime
      /\ d * MinutesPerDay <= t /\ t < (d + 1) * MinutesPerDay
      /\ (d + 1) * MinutesPerDay <= t + MinutesPerDay
      /\ (d + 1) * MinutesPerDay \in Nat
  BY DayOf
<1>2. CASE k = MinuteKey(t)
  BY <1>2 DEF MinuteKey, Key, Last, TTL
<1>3. CASE k = DayKey(t)
  <2>1. k = <<"day", d>>
    BY <1>3 DEF DayKey
  <2> HIDE DEF d
  <2> QED BY <1>1, <2>1 DEF Key, Last, TTL
<1>4. CASE k = QuotaKey(t)
  <2>1. k = <<"quota", d>>
    BY <1>4 DEF QuotaKey
  <2> HIDE DEF d
  <2> QED BY <1>1, <2>1 DEF Key, Last, TTL
<1> QED BY <1>2, <1>3, <1>4

-----------------------------------------------------------------------------
(* The limiter's part of the inductive invariant.                          *)

\* No entry expires while its window may still be read.
Lasting == \A k \in Key : kv[k].n # 0 => kv[k].until > Last(k)

\* Counts are lost, never invented: each stored count, and each count about to
\* be stored, is of requests that were let through.
NeverInvented ==
    /\ \A k \in Key : k[1] # "quota" => kv[k].n <= let[k]
    /\ \A r \in Req :
          /\ call[r].pc = "day" => call[r].minute <= let[KMin(r)]
          /\ call[r].pc = "bumpMinute" =>
                call[r].minute < let[KMin(r)] /\ call[r].day < let[KDay(r)]
          /\ call[r].pc = "bumpDay" => call[r].day < let[KDay(r)]

\* The count that r has read of window k.
ReadBy(r, k) == IF k[1] = "minute" THEN call[r].minute ELSE call[r].day

\* r was let through, and window k is not told yet.
Uncounted(r, k) ==
    \/ call[r].pc = "bumpMinute" /\ k = KMin(r)
    \/ call[r].pc \in {"bumpMinute", "bumpDay"} /\ k = KDay(r)

\* What an undisturbed window counts: at most one request has it read, and all
\* that it let through are in the counter but that one.
Exact(k) ==
    /\ \A q, r \in Req : Holds(q, k) /\ Holds(r, k) => q = r
    /\ \A r \in Req : Holds(r, k) => ReadBy(r, k) = kv[k].n
    /\ kv[k].n <= Limit(k)
    /\ \A r \in Req : Uncounted(r, k) => kv[k].n < Limit(k) /\ let[k] = kv[k].n + 1
    /\ (\A r \in Req : ~Uncounted(r, k)) => let[k] = kv[k].n

AllExact == \A k \in Key : k[1] # "quota" /\ k \notin disturbed => Exact(k)

LInv ==
    /\ LimitTypeOK
    /\ Lasting
    /\ \A r \in Req : call[r].at <= now
    /\ NeverInvented
    /\ RefusedAtLimit
    /\ AllExact

LEMMA CallWindows ==
    ASSUME Assumptions, LInv, NEW r \in Req
    PROVE  /\ KMin(r) \in Key /\ KDay(r) \in Key
           /\ KMin(r) = <<"minute", KMin(r)[2]>> /\ KDay(r) = <<"day", KDay(r)[2]>>
           /\ InTime(r) => now <= Last(KMin(r)) /\ now <= Last(KDay(r))
           /\ now + MinuteTTL > Last(KMin(r)) /\ now + DayTTL > Last(KDay(r))
           /\ Last(KMin(r)) \in Nat /\ Last(KDay(r)) \in Nat
<1> USE Constants
<1>1. call[r].at \in 0..MaxTime /\ call[r].at <= now /\ now \in Nat
  BY DEF LInv, LimitTypeOK
<1>2. /\ KMin(r) \in {MinuteKey(call[r].at), DayKey(call[r].at), QuotaKey(call[r].at)}
      /\ KDay(r) \in {MinuteKey(call[r].at), DayKey(call[r].at), QuotaKey(call[r].at)}
  BY DEF KMin, KDay
<1>3. /\ KMin(r) = <<"minute", KMin(r)[2]>> /\ KDay(r) = <<"day", KDay(r)[2]>>
  BY DEF KMin, KDay, MinuteKey, DayKey
<1>4. TTL(KMin(r)) = MinuteTTL /\ TTL(KDay(r)) = DayTTL
  BY <1>3 DEF TTL
<1>5. /\ KMin(r) \in Key /\ Last(KMin(r)) \in Nat /\ call[r].at + 1 <= Last(KMin(r))
      /\ now + TTL(KMin(r)) > Last(KMin(r))
  BY <1>1, <1>2, WindowOf
<1>6. /\ KDay(r) \in Key /\ Last(KDay(r)) \in Nat /\ call[r].at + 1 <= Last(KDay(r))
      /\ now + TTL(KDay(r)) > Last(KDay(r))
  BY <1>1, <1>2, WindowOf
<1> QED BY <1>1, <1>3, <1>4, <1>5, <1>6 DEF InTime

LEMMA CountIsStored ==
    ASSUME LInv, NEW k \in Key, Last(k) \in Nat, now <= Last(k)
    PROVE  Count(k) = kv[k].n
BY DEF Count, LInv, Lasting, LimitTypeOK

-----------------------------------------------------------------------------
(* The quota's part.                                                       *)

Counted(r) == presign[r].pc = "counted"

\* Attempts to count are as many as the counter says at least.
TriedEnough ==
    /\ \A k \in Key : k[1] = "quota" => kv[k].n <= tried[k]
    /\ \A r \in Req :
          Counted(r) => presign[r].used < Quota /\ presign[r].used <= tried[QKey(r)]

\* On a day without overlaps one request at most has the counter read, and no
\* URL was handed out that the counter does not hold.
ExactQuota(k) ==
    /\ \A q, r \in Req : Counted(q) /\ QKey(q) = k /\ Counted(r) /\ QKey(r) = k => q = r
    /\ \A r \in Req : Counted(r) /\ QKey(r) = k => presign[r].used = kv[k].n
    /\ minted[k] <= kv[k].n /\ kv[k].n <= Quota

AllExactQuota == \A k \in Key : k[1] = "quota" /\ k \notin raced => ExactQuota(k)

\* The quota_remaining of the last answer is the counter's.
ToldTrue ==
    told.day # -1 =>
        /\ told.day \in 0..MaxTime
        /\ \A r \in Req : ~Counted(r)
        /\ kv[<<"quota", told.day>>].n = Quota - told.left

\* A request is in the handler behind the limiter.
InHandler ==
    \A r \in Req :
        /\ presign[r].at <= now
        /\ presign[r].pc \in {"looked", "counted", "over"} =>
              call[r].pc = "handler" /\ call[r].at <= presign[r].at

PInv ==
    /\ TypeOK
    /\ InHandler
    /\ TriedEnough
    /\ ExceededAtQuota
    /\ AllExactQuota
    /\ ToldTrue

IInv == LInv /\ PInv

-----------------------------------------------------------------------------
(* The limiter's steps.                                                    *)

\* r has nothing to tell window k, before or after.
LEMMA ExactOfOthers ==
    ASSUME NEW r \in Req, NEW k \in Key, Exact(k),
           kv'[k] = kv[k], let'[k] = let[k],
           \A q \in Req \ {r} : call'[q] = call[q],
           ~Uncounted(r, k), ~Holds(r, k)'
    PROVE  Exact(k)'
<1>1. ~Uncounted(r, k)'
  BY DEF Uncounted, Holds
<1>2. \A q \in Req \ {r} :
        /\ Holds(q, k)' <=> Holds(q, k)
        /\ Uncounted(q, k)' <=> Uncounted(q, k)
        /\ ReadBy(q, k)' = ReadBy(q, k)
  BY DEF Holds, Uncounted, ReadBy, KMin, KDay
<1> QED BY <1>1, <1>2 DEF Exact, Limit

LEMMA UncountedHolds ==
    ASSUME NEW r \in Req, NEW k, Uncounted(r, k)
    PROVE  Holds(r, k)
BY DEF Uncounted, Holds

\* Lasting, after a write of window k by a request of its time.
LEMMA PutLasts ==
    ASSUME LInv, NEW k \in Key, NEW n \in Nat, NEW ttl \in Nat, Last(k) \in Nat,
           now + ttl > Last(k), Put(k, n, ttl)
    PROVE  /\ Lasting' /\ kv' \in [Key -> [n : Nat, until : Nat]]
           /\ kv'[k].n = n /\ \A l \in Key : l # k => kv'[l] = kv[l]
<1>1. kv \in [Key -> [n : Nat, until : Nat]] /\ now \in Nat
  BY DEF LInv, LimitTypeOK, Assumptions, CounterAssumption
<1>2. kv' = [kv EXCEPT ![k] = [n |-> n, until |-> now + ttl]] /\ now + ttl \in Nat
  BY <1>1 DEF Put
<1>3. kv'[k] = [n |-> n, until |-> now + ttl] /\ \A l \in Key : l # k => kv'[l] = kv[l]
  BY <1>1, <1>2
<1>4. kv' \in [Key -> [n : Nat, until : Nat]]
  BY <1>1, <1>2
<1>5. ASSUME NEW l \in Key, kv'[l].n # 0 PROVE kv'[l].until > Last(l)
  <2>1. CASE l = k
    BY <1>3, <2>1
  <2>2. CASE l # k
    BY <1>3, <1>5, <2>2 DEF LInv, Lasting
  <2> QED BY <2>1, <2>2
<1>6. Lasting'
  BY <1>5 DEF Lasting, Last
<1> QED BY <1>3, <1>4, <1>6

LEMMA FaultTyped ==
    ASSUME Assumptions, LInv, Fault
    PROVE  faults' \in 0..MaxFaults
BY Constants DEF Fault, LInv, LimitTypeOK

\* A request arrives, or leaves: it has nothing to tell any window.
LEMMA IdleKeeps ==
    ASSUME Assumptions, LInv, NEW r \in Req, NEW c \in {"idle", "minute"}, NEW t \in 0..now,
           call[r].pc \in {"idle", "refused", "handler"},
           call' = [call EXCEPT ![r] = Begun(c, t)],
           calls' \in 0..MaxCalls,
           UNCHANGED <<now, kv, let, disturbed>>, faults' \in 0..MaxFaults
    PROVE  LInv'
<1> USE Constants
<1>1. /\ call' \in [Req -> [pc     : {"idle", "minute", "day", "bumpMinute",
                                     "bumpDay", "handler", "refused"},
                           at     : 0..MaxTime,
                           minute : Nat,
                           day    : Nat]]
      /\ call'[r].pc = c /\ call'[r].at = t
      /\ \A q \in Req \ {r} : call'[q] = call[q]
  BY DEF LInv, LimitTypeOK, Begun
<1>2. LimitTypeOK'
  BY <1>1 DEF LInv, LimitTypeOK
<1>9. Lasting' /\ (\A q \in Req : call[q].at <= now)'
  <2>1. Lasting'
    BY DEF LInv, Lasting, Last
  <2>2. call'[r].at <= now'
    BY <1>1 DEF LInv, LimitTypeOK
  <2> QED BY <1>1, <2>1, <2>2 DEF LInv
<1>3. NeverInvented' /\ RefusedAtLimit'
  BY <1>1 DEF LInv, NeverInvented, RefusedAtLimit, KMin, KDay
<1>4. ASSUME NEW k \in Key, k[1] # "quota", k \notin disturbed' PROVE Exact(k)'
  <2>1. ~Uncounted(r, k) /\ ~Holds(r, k)'
    BY <1>1 DEF Uncounted, Holds
  <2> QED BY <1>1, <1>4, <2>1, ExactOfOthers DEF LInv, AllExact
<1> QED BY <1>2, <1>3, <1>4, <1>9 DEF LInv, AllExact

LEMMA ReadMinuteKeeps ==
    ASSUME Assumptions, LInv, NEW r \in Req, ReadMinute(r) \/ ReadMinuteFails(r)
    PROVE  LInv'
<1> USE Constants
<1>1. /\ call[r].pc = "minute"
      /\ UNCHANGED <<now, kv, calls, let>> /\ faults' \in 0..MaxFaults
      /\ disturbed' \in SUBSET Key /\ disturbed \subseteq disturbed'
  BY FaultTyped, CallWindows DEF ReadMinute, ReadMinuteFails, LInv, LimitTypeOK, Shared
\* A read that fails disturbs the window; one that does not finds its counter.
<1> DEFINE Reads(n) == call' = [call EXCEPT ![r].pc = "day", ![r].minute = n]
<1>2. PICK n \in Nat :
        /\ Reads(n)
        /\ n <= kv[KMin(r)].n
        /\ KMin(r) \notin disturbed' =>
              n = kv[KMin(r)].n /\ \A q \in Req : ~Holds(q, KMin(r))
  <2>1. KMin(r) \in Key /\ kv[KMin(r)].n \in Nat
    BY CallWindows DEF LInv, LimitTypeOK
  <2>2. CASE ReadMinute(r)
    <3>1. Count(KMin(r)) = kv[KMin(r)].n
      BY <2>2, CallWindows, CountIsStored DEF ReadMinute
    <3>2. Reads(kv[KMin(r)].n)
      BY <2>2, <3>1 DEF ReadMinute
    <3>3. KMin(r) \notin disturbed' => \A q \in Req : ~Holds(q, KMin(r))
      BY <2>2 DEF ReadMinute, Shared
    <3> HIDE DEF Reads
    <3> QED BY <2>1, <3>2, <3>3
  <2>3. CASE ReadMinuteFails(r)
    <3>1. Reads(0) /\ KMin(r) \in disturbed'
      BY <2>3 DEF ReadMinuteFails
    <3> HIDE DEF Reads
    <3> QED BY <2>1, <3>1
  <2> QED BY <2>2, <2>3
<1>3. /\ call'[r] = [call[r] EXCEPT !.pc = "day", !.minute = n]
      /\ call'[r].pc = "day" /\ call'[r].minute = n /\ call'[r].at = call[r].at
      /\ \A q \in Req \ {r} : call'[q] = call[q]
      /\ \A q \in Req : KMin(q)' = KMin(q) /\ KDay(q)' = KDay(q)
  BY <1>2 DEF LInv, LimitTypeOK, KMin, KDay
<1>4. LimitTypeOK'
  BY <1>1, <1>2 DEF LInv, LimitTypeOK
<1>5. Lasting' /\ (\A q \in Req : call[q].at <= now)'
  BY <1>1, <1>3 DEF LInv, Lasting, Last
<1>6. NeverInvented'
  <2>1. n <= let[KMin(r)]
    BY <1>2, CallWindows DEF LInv, NeverInvented, LimitTypeOK
  <2> QED BY <1>1, <1>3, <2>1 DEF LInv, NeverInvented
<1>7. RefusedAtLimit'
  BY <1>1, <1>3 DEF LInv, RefusedAtLimit
<1>8. ASSUME NEW k \in Key, k[1] # "quota", k \notin disturbed' PROVE Exact(k)'
  <2>1. Exact(k)
    BY <1>1, <1>8 DEF LInv, AllExact
  <2>2. ~Uncounted(r, k)
    BY <1>1 DEF Uncounted
  <2>3. CASE k # KMin(r)
    <3>1. ~Holds(r, k)'
      BY <1>3, <2>3 DEF Holds
    <3> QED BY <1>1, <1>3, <2>1, <2>2, <3>1, ExactOfOthers
  <2>4. CASE k = KMin(r)
    <3>1. \A q \in Req : ~Holds(q, k) /\ ~Uncounted(q, k)
      BY <1>2, <1>8, <2>4, UncountedHolds
    <3>2. \A q \in Req \ {r} : ~Holds(q, k)' /\ ~Uncounted(q, k)'
      BY <1>3, <3>1 DEF Holds, Uncounted
    <3>3. ~Uncounted(r, k)' /\ ReadBy(r, k)' = kv[k].n
      BY <1>2, <1>3, <1>8, <2>4, CallWindows DEF Uncounted, ReadBy
    <3> QED BY <1>1, <2>1, <3>1, <3>2, <3>3 DEF Exact, Limit
  <2> QED BY <2>3, <2>4
<1> QED BY <1>4, <1>5, <1>6, <1>7, <1>8 DEF LInv, AllExact

LEMMA DecideKeeps ==
    ASSUME Assumptions, LInv, NEW r \in Req, ReadDay(r) \/ ReadDayFails(r)
    PROVE  LInv'
<1> USE Constants
<1> DEFINE m == KMin(r)
           d == KDay(r)
<1>1. /\ call[r].pc = "day"
      /\ UNCHANGED <<now, kv, calls>> /\ faults' \in 0..MaxFaults
      /\ disturbed' \in SUBSET Key /\ disturbed \subseteq disturbed'
  BY FaultTyped, CallWindows DEF ReadDay, ReadDayFails, LInv, LimitTypeOK, Shared
<1>2. /\ m \in Key /\ d \in Key /\ m # d /\ m[1] = "minute" /\ d[1] = "day"
      /\ call[r].minute \in Nat /\ call[r].at \in 0..MaxTime /\ call[r].at <= now
      /\ let[m] \in Nat /\ let[d] \in Nat /\ kv[m].n \in Nat /\ kv[d].n \in Nat
      /\ let \in [Key -> Nat]
  BY CallWindows DEF LInv, LimitTypeOK
<1>3. PICK n \in Nat :
        /\ Decide(r, n)
        /\ n <= kv[d].n
        /\ d \notin disturbed' => n = kv[d].n /\ \A q \in Req : ~Holds(q, d)
  <2>1. CASE ReadDay(r)
    <3>1. Count(d) = kv[d].n
      BY <2>1, CallWindows, CountIsStored DEF ReadDay
    <3>2. d \notin disturbed' => \A q \in Req : ~Holds(q, d)
      BY <2>1 DEF ReadDay, Shared
    <3> QED BY <1>2, <2>1, <3>1, <3>2 DEF ReadDay
  <2>2. CASE ReadDayFails(r)
    BY <1>2, <2>2 DEF ReadDayFails
  <2> QED BY <2>1, <2>2
<1> HIDE DEF m, d
<1>4. \A q \in Req : KMin(q)' = KMin(q) /\ KDay(q)' = KDay(q)
  BY <1>3 DEF Decide, LInv, LimitTypeOK, KMin, KDay
<1>5. Lasting'
  BY <1>1 DEF LInv, Lasting, Last
<1>6. call[r].minute <= let[m]
  BY <1>1 DEF LInv, NeverInvented, m
<1>7. CASE /\ Exceeded(call[r].minute, n)
           /\ call' = [call EXCEPT ![r].pc = "refused", ![r].minute = 0]
           /\ UNCHANGED let
  <2>1. /\ call'[r].pc = "refused" /\ call'[r].at = call[r].at
        /\ \A q \in Req \ {r} : call'[q] = call[q]
        /\ LimitTypeOK'
    BY <1>1, <1>7 DEF LInv, LimitTypeOK
  <2>2. (\A q \in Req : call[q].at <= now)'
    BY <1>1, <2>1 DEF LInv
  <2>3. NeverInvented'
    BY <1>1, <1>4, <1>7, <2>1 DEF LInv, NeverInvented
  \* The counters that refuse are of requests let through.
  <2>4. let[m] >= MinuteLimit \/ let[d] >= DayLimit
    <3>1. n <= let[d]
      BY <1>2, <1>3 DEF LInv, NeverInvented
    <3> QED BY <1>2, <1>6, <1>7, <3>1 DEF Exceeded
  <2>5. RefusedAtLimit'
    BY <1>4, <1>7, <2>1, <2>4 DEF LInv, RefusedAtLimit, m, d
  <2>6. ASSUME NEW k \in Key, k[1] # "quota", k \notin disturbed' PROVE Exact(k)'
    <3>1. ~Uncounted(r, k) /\ ~Holds(r, k)'
      BY <1>1, <2>1 DEF Uncounted, Holds
    <3> QED BY <1>1, <1>7, <2>1, <2>6, <3>1, ExactOfOthers DEF LInv, AllExact
  <2> QED BY <1>5, <2>1, <2>2, <2>3, <2>5, <2>6 DEF LInv, AllExact
<1>8. CASE /\ ~Exceeded(call[r].minute, n)
           /\ call' = [call EXCEPT ![r].pc = "bumpMinute", ![r].day = n]
           /\ let' = [let EXCEPT ![m] = @ + 1, ![d] = @ + 1]
  <2>1. /\ call'[r].pc = "bumpMinute" /\ call'[r].at = call[r].at
        /\ call'[r].minute = call[r].minute /\ call'[r].day = n
        /\ \A q \in Req \ {r} : call'[q] = call[q]
    BY <1>8 DEF LInv, LimitTypeOK
  <2>2. /\ let' \in [Key -> Nat]
        /\ let'[m] = let[m] + 1 /\ let'[d] = let[d] + 1
        /\ \A k \in Key : k # m /\ k # d => let'[k] = let[k]
        /\ \A k \in Key : let'[k] >= let[k] /\ let[k] \in Nat
    BY <1>2, <1>8
  <2>3. LimitTypeOK'
    <3>1. call' \in [Req -> [pc     : {"idle", "minute", "day", "bumpMinute",
                                      "bumpDay", "handler", "refused"},
                            at     : 0..MaxTime,
                            minute : Nat,
                            day    : Nat]]
      BY <1>8 DEF LInv, LimitTypeOK
    <3> QED BY <1>1, <2>2, <3>1 DEF LInv, LimitTypeOK
  <2>4. (\A q \in Req : call[q].at <= now)'
    BY <1>1, <2>1 DEF LInv
  <2>5. NeverInvented'
    <3>1. n <= let[d]
      BY <1>2, <1>3 DEF LInv, NeverInvented
    <3>2. call'[r].minute < let'[m] /\ call'[r].day < let'[d]
      BY <1>2, <1>6, <2>1, <2>2, <3>1
    <3>3. \A k \in Key : k[1] # "quota" => kv'[k].n <= let'[k]
      BY <1>1, <2>2 DEF LInv, NeverInvented, LimitTypeOK
    <3>4. ASSUME NEW q \in Req \ {r}
          PROVE  /\ call'[q].pc = "day" => call'[q].minute <= let'[KMin(q)]
                 /\ call'[q].pc = "bumpMinute" =>
                      call'[q].minute < let'[KMin(q)] /\ call'[q].day < let'[KDay(q)]
                 /\ call'[q].pc = "bumpDay" => call'[q].day < let'[KDay(q)]
      <4>1. /\ KMin(q) \in Key /\ KDay(q) \in Key /\ call'[q] = call[q]
            /\ call[q].minute \in Nat /\ call[q].day \in Nat
        BY <2>1, CallWindows DEF LInv, LimitTypeOK
      <4>2. /\ let'[KMin(q)] >= let[KMin(q)] /\ let[KMin(q)] \in Nat
            /\ let'[KDay(q)] >= let[KDay(q)] /\ let[KDay(q)] \in Nat
            /\ let'[KMin(q)] \in Nat /\ let'[KDay(q)] \in Nat
        BY <2>2, <4>1
      <4> QED BY <4>1, <4>2 DEF LInv, NeverInvented
    <3> QED BY <1>4, <2>1, <3>2, <3>3, <3>4 DEF NeverInvented, m, d
  <2>6. RefusedAtLimit'
    <3>1. ASSUME NEW q \in Req, call'[q].pc = "refused"
          PROVE  let'[KMin(q)] >= MinuteLimit \/ let'[KDay(q)] >= DayLimit
      <4>1. q # r /\ call[q].pc = "refused" /\ KMin(q) \in Key /\ KDay(q) \in Key
        BY <2>1, <3>1, CallWindows
      <4>2. /\ let'[KMin(q)] >= let[KMin(q)] /\ let[KMin(q)] \in Nat
            /\ let'[KDay(q)] >= let[KDay(q)] /\ let[KDay(q)] \in Nat
            /\ let'[KMin(q)] \in Nat /\ let'[KDay(q)] \in Nat
        BY <2>2, <4>1
      <4> QED BY <4>1, <4>2 DEF LInv, RefusedAtLimit
    <3> QED BY <1>4, <3>1 DEF RefusedAtLimit
  <2>7. ASSUME NEW k \in Key, k[1] # "quota", k \notin disturbed' PROVE Exact(k)'
    <3>1. Exact(k)
      BY <1>1, <2>7 DEF LInv, AllExact
    <3>2. \A q \in Req \ {r} :
            /\ Holds(q, k)' <=> Holds(q, k)
            /\ Uncounted(q, k)' <=> Uncounted(q, k)
            /\ ReadBy(q, k)' = ReadBy(q, k)
      BY <2>1 DEF Holds, Uncounted, ReadBy, KMin, KDay
    <3>3. ~Uncounted(r, k)
      BY <1>1 DEF Uncounted
    <3>4. CASE k = m
      \* r alone has read the minute, and it was below the limit.
      <4>1. Holds(r, k) /\ ReadBy(r, k) = call[r].minute
        BY <1>1, <1>2, <3>4 DEF Holds, ReadBy, m
      <4>2. \A q \in Req \ {r} : ~Holds(q, k) /\ ~Uncounted(q, k)
        BY <3>1, <4>1, UncountedHolds DEF Exact
      <4>3. call[r].minute = kv[k].n /\ let[k] = kv[k].n
        BY <3>1, <3>3, <4>1, <4>2 DEF Exact
      <4>4. call[r].minute < MinuteLimit /\ Limit(k) = MinuteLimit
        BY <1>2, <1>8, <3>4 DEF Exceeded, Limit
      <4>5. Uncounted(r, k)' /\ ReadBy(r, k)' = call[r].minute
        BY <1>2, <1>4, <2>1, <3>4 DEF Uncounted, ReadBy, m
      <4>6. Limit(k)' = Limit(k)
        BY DEF Limit
      <4> QED BY <1>1, <1>2, <2>2, <3>1, <3>2, <3>4, <4>2, <4>3, <4>4, <4>5, <4>6 DEF Exact
    <3>5. CASE k = d
      <4>1. \A q \in Req : ~Holds(q, k) /\ ~Uncounted(q, k)
        BY <1>3, <2>7, <3>5, UncountedHolds
      <4>2. n = kv[k].n /\ let[k] = kv[k].n
        BY <1>3, <2>7, <3>1, <3>5, <4>1 DEF Exact
      <4>3. n < DayLimit /\ Limit(k) = DayLimit
        BY <1>2, <1>8, <3>5 DEF Exceeded, Limit
      <4>4. Uncounted(r, k)' /\ ReadBy(r, k)' = n
        BY <1>2, <1>4, <2>1, <3>5 DEF Uncounted, ReadBy, d
      <4>5. Limit(k)' = Limit(k)
        BY DEF Limit
      <4> QED BY <1>1, <1>2, <2>2, <3>1, <3>2, <3>5, <4>1, <4>2, <4>3, <4>4, <4>5 DEF Exact
    <3>6. CASE k # m /\ k # d
      <4>1. ~Holds(r, k)'
        BY <1>4, <2>1, <3>6 DEF Holds, m, d
      <4> QED BY <1>1, <2>1, <2>2, <3>1, <3>3, <3>6, <4>1, ExactOfOthers
    <3> QED BY <3>4, <3>5, <3>6
  <2> QED BY <1>5, <2>3, <2>4, <2>5, <2>6, <2>7 DEF LInv, AllExact
<1> QED BY <1>3, <1>7, <1>8 DEF Decide, m, d

\* A counter is written back, or is not and the window counts as disturbed.
LEMMA BumpMinuteKeeps ==
    ASSUME Assumptions, LInv, NEW r \in Req, BumpMinute(r) \/ BumpMinuteFails(r)
    PROVE  LInv'
<1> USE Constants
<1> DEFINE m == KMin(r)
<1>1. /\ call[r].pc = "bumpMinute"
      /\ UNCHANGED <<now, calls, let>> /\ faults' \in 0..MaxFaults
      /\ disturbed' \in SUBSET Key /\ disturbed \subseteq disturbed'
      /\ call' = [call EXCEPT ![r].pc = "bumpDay", ![r].minute = 0]
  BY FaultTyped, CallWindows DEF BumpMinute, BumpMinuteFails, LInv, LimitTypeOK
<1>2. /\ m \in Key /\ m[1] = "minute" /\ m # KDay(r)
      /\ call[r].minute \in Nat /\ call[r].minute < let[m] /\ let[m] \in Nat
  BY <1>1, CallWindows DEF LInv, LimitTypeOK, NeverInvented
<1>3. /\ Lasting' /\ kv' \in [Key -> [n : Nat, until : Nat]]
      /\ \A k \in Key : k # m => kv'[k] = kv[k]
      /\ kv'[m].n <= let[m]
      /\ m \notin disturbed' => kv'[m].n = call[r].minute + 1
  <2>1. CASE BumpMinute(r)
    <3>1. Put(m, call[r].minute + 1, MinuteTTL) /\ call[r].minute + 1 \in Nat
      BY <1>2, <2>1 DEF BumpMinute
    <3>2. now + MinuteTTL > Last(m) /\ Last(m) \in Nat
      BY CallWindows
    <3> HIDE DEF m
    <3>3. /\ Lasting' /\ kv' \in [Key -> [n : Nat, until : Nat]]
          /\ kv'[m].n = call[r].minute + 1 /\ \A l \in Key : l # m => kv'[l] = kv[l]
      BY <1>2, <3>1, <3>2, PutLasts
    <3> QED BY <1>2, <3>3
  <2>2. CASE BumpMinuteFails(r)
    BY <1>2, <2>2 DEF BumpMinuteFails, LInv, LimitTypeOK, Lasting, Last, NeverInvented
  <2> QED BY <2>1, <2>2
<1>4. /\ call'[r].pc = "bumpDay" /\ call'[r].at = call[r].at /\ call'[r].day = call[r].day
      /\ \A q \in Req \ {r} : call'[q] = call[q]
      /\ LimitTypeOK'
  BY <1>1, <1>3 DEF LInv, LimitTypeOK
<1>5. \A q \in Req : KMin(q)' = KMin(q) /\ KDay(q)' = KDay(q)
  BY <1>4 DEF KMin, KDay
<1>6. (\A q \in Req : call[q].at <= now)'
  BY <1>1, <1>4 DEF LInv
<1> HIDE DEF m
<1>7. NeverInvented'
  BY <1>1, <1>3, <1>4, <1>5 DEF LInv, NeverInvented
<1>8. RefusedAtLimit'
  BY <1>1, <1>4, <1>5 DEF LInv, RefusedAtLimit
<1>9. ASSUME NEW k \in Key, k[1] # "quota", k \notin disturbed' PROVE Exact(k)'
  <2>1. Exact(k)
    BY <1>1, <1>9 DEF LInv, AllExact
  <2>2. \A q \in Req \ {r} :
          /\ Holds(q, k)' <=> Holds(q, k)
          /\ Uncounted(q, k)' <=> Uncounted(q, k)
          /\ ReadBy(q, k)' = ReadBy(q, k)
    BY <1>4 DEF Holds, Uncounted, ReadBy, KMin, KDay
  <2>3. Limit(k)' = Limit(k)
    BY DEF Limit
  <2>4. CASE k = m
    <3>1. Holds(r, k) /\ Uncounted(r, k) /\ ReadBy(r, k) = call[r].minute
      BY <1>1, <1>2, <2>4 DEF Holds, Uncounted, ReadBy, m
    <3>2. \A q \in Req \ {r} : ~Holds(q, k) /\ ~Uncounted(q, k)
      BY <2>1, <3>1, UncountedHolds DEF Exact
    <3>3. /\ kv[k].n = call[r].minute /\ kv[k].n < Limit(k) /\ let[k] = kv[k].n + 1
          /\ Limit(k) \in Nat
      BY <2>1, <3>1 DEF Exact, Limit
    <3>4. ~Holds(r, k)' /\ ~Uncounted(r, k)'
      BY <1>2, <1>4, <1>5, <2>4 DEF Holds, Uncounted, m
    <3>5. kv'[k].n = call[r].minute + 1
      BY <1>3, <1>9, <2>4
    <3> QED BY <1>1, <1>2, <2>2, <2>3, <2>4, <3>2, <3>3, <3>4, <3>5 DEF Exact
  <2>5. CASE k # m
    <3>1. /\ Holds(r, k)' <=> Holds(r, k)
          /\ Uncounted(r, k)' <=> Uncounted(r, k)
          /\ Holds(r, k) => ReadBy(r, k)' = ReadBy(r, k)
      BY <1>1, <1>4, <1>5, <2>5, CallWindows DEF Holds, Uncounted, ReadBy, m
    <3> QED BY <1>1, <1>3, <2>1, <2>2, <2>3, <2>5, <3>1 DEF Exact
  <2> QED BY <2>4, <2>5
<1> QED BY <1>3, <1>4, <1>6, <1>7, <1>8, <1>9 DEF LInv, AllExact

LEMMA BumpDayKeeps ==
    ASSUME Assumptions, LInv, NEW r \in Req, BumpDay(r) \/ BumpDayFails(r)
    PROVE  LInv'
<1> USE Constants
<1> DEFINE d == KDay(r)
<1>1. /\ call[r].pc = "bumpDay"
      /\ UNCHANGED <<now, calls, let>> /\ faults' \in 0..MaxFaults
      /\ disturbed' \in SUBSET Key /\ disturbed \subseteq disturbed'
      /\ call' = [call EXCEPT ![r].pc = "handler", ![r].day = 0]
  BY FaultTyped, CallWindows DEF BumpDay, BumpDayFails, LInv, LimitTypeOK
<1>2. /\ d \in Key /\ d[1] = "day"
      /\ call[r].day \in Nat /\ call[r].day < let[d] /\ let[d] \in Nat
  BY <1>1, CallWindows DEF LInv, LimitTypeOK, NeverInvented
<1>3. /\ Lasting' /\ kv' \in [Key -> [n : Nat, until : Nat]]
      /\ \A k \in Key : k # d => kv'[k] = kv[k]
      /\ kv'[d].n <= let[d]
      /\ d \notin disturbed' => kv'[d].n = call[r].day + 1
  <2>1. CASE BumpDay(r)
    <3>1. Put(d, call[r].day + 1, DayTTL) /\ call[r].day + 1 \in Nat
      BY <1>2, <2>1 DEF BumpDay
    <3>2. now + DayTTL > Last(d) /\ Last(d) \in Nat
      BY CallWindows
    <3> HIDE DEF d
    <3>3. /\ Lasting' /\ kv' \in [Key -> [n : Nat, until : Nat]]
          /\ kv'[d].n = call[r].day + 1 /\ \A l \in Key : l # d => kv'[l] = kv[l]
      BY <1>2, <3>1, <3>2, PutLasts
    <3> QED BY <1>2, <3>3
  <2>2. CASE BumpDayFails(r)
    BY <1>2, <2>2 DEF BumpDayFails, LInv, LimitTypeOK, Lasting, Last, NeverInvented
  <2> QED BY <2>1, <2>2
<1>4. /\ call'[r].pc = "handler" /\ call'[r].at = call[r].at
      /\ \A q \in Req \ {r} : call'[q] = call[q]
      /\ LimitTypeOK'
  BY <1>1, <1>3 DEF LInv, LimitTypeOK
<1>5. \A q \in Req : KMin(q)' = KMin(q) /\ KDay(q)' = KDay(q)
  BY <1>4 DEF KMin, KDay
<1>6. (\A q \in Req : call[q].at <= now)'
  BY <1>1, <1>4 DEF LInv
<1> HIDE DEF d
<1>7. NeverInvented'
  BY <1>1, <1>3, <1>4, <1>5 DEF LInv, NeverInvented
<1>8. RefusedAtLimit'
  BY <1>1, <1>4, <1>5 DEF LInv, RefusedAtLimit
<1>9. ASSUME NEW k \in Key, k[1] # "quota", k \notin disturbed' PROVE Exact(k)'
  <2>1. Exact(k)
    BY <1>1, <1>9 DEF LInv, AllExact
  <2>2. ~Holds(r, k)' /\ ~Uncounted(r, k)'
    BY <1>4 DEF Holds, Uncounted
  <2>3. CASE k = d
    <3>1. Holds(r, k) /\ Uncounted(r, k) /\ ReadBy(r, k) = call[r].day
      BY <1>1, <1>2, <2>3 DEF Holds, Uncounted, ReadBy, d
    <3>2. \A q \in Req \ {r} : ~Holds(q, k) /\ ~Uncounted(q, k)
      BY <2>1, <3>1, UncountedHolds DEF Exact
    <3>3. \A q \in Req \ {r} : ~Holds(q, k)' /\ ~Uncounted(q, k)'
      BY <1>4, <3>2 DEF Holds, Uncounted, KMin, KDay
    <3>4. /\ kv[k].n = call[r].day /\ kv[k].n < Limit(k) /\ let[k] = kv[k].n + 1
          /\ Limit(k) \in Nat /\ Limit(k)' = Limit(k)
      BY <2>1, <3>1 DEF Exact, Limit
    <3>5. kv'[k].n = call[r].day + 1
      BY <1>3, <1>9, <2>3
    <3> QED BY <1>1, <1>2, <2>2, <2>3, <3>3, <3>4, <3>5 DEF Exact
  <2>4. CASE k # d
    <3>1. ~Uncounted(r, k)
      BY <1>1, <2>4 DEF Uncounted, d
    <3> QED BY <1>1, <1>3, <1>4, <2>1, <2>2, <2>4, <3>1, ExactOfOthers
  <2> QED BY <2>3, <2>4
<1> QED BY <1>3, <1>4, <1>6, <1>7, <1>8, <1>9 DEF LInv, AllExact

LEMMA LimitStepKeeps ==
    ASSUME Assumptions, LInv, NEW r \in Req, LimitStep(r)
    PROVE  LInv'
<1> USE Constants
<1>1. CASE Arrive(r)
  <2>1. now \in 0..now /\ calls' \in 0..MaxCalls /\ faults' \in 0..MaxFaults
    BY <1>1 DEF Arrive, LInv, LimitTypeOK
  <2> QED BY <1>1, <2>1, IdleKeeps DEF Arrive
<1>2. CASE Answer429(r)
  <2>1. 0 \in 0..now /\ calls' \in 0..MaxCalls /\ faults' \in 0..MaxFaults
    BY <1>2 DEF Answer429, LInv, LimitTypeOK
  <2> QED BY <1>2, <2>1, IdleKeeps DEF Answer429, Leave, Idle
<1> QED BY <1>1, <1>2, ReadMinuteKeeps, DecideKeeps, BumpMinuteKeeps, BumpDayKeeps
       DEF LimitStep

LEMMA LimitStopKeeps ==
    ASSUME Assumptions, LInv, LimitStop
    PROVE  LInv'
<1> USE Constants
<1>1. /\ call' = [r \in Req |-> [pc |-> "idle", at |-> 0, minute |-> 0, day |-> 0]]
      /\ disturbed' = disturbed \cup {k \in Key : \E r \in Req : Holds(r, k)}
      /\ UNCHANGED <<now, kv, calls, let>> /\ faults' \in 0..MaxFaults
  BY FaultTyped DEF LimitStop, Idle, Begun
<1>2. LimitTypeOK' /\ Lasting' /\ (\A r \in Req : call[r].at <= now)'
  BY <1>1 DEF LInv, LimitTypeOK, Lasting, Last
<1>3. NeverInvented' /\ RefusedAtLimit'
  BY <1>1 DEF LInv, NeverInvented, RefusedAtLimit
<1>4. ASSUME NEW k \in Key, k[1] # "quota", k \notin disturbed' PROVE Exact(k)'
  <2>1. Exact(k) /\ \A r \in Req : ~Holds(r, k)
    BY <1>1, <1>4 DEF LInv, AllExact
  <2>2. let[k] = kv[k].n
    BY <2>1, UncountedHolds DEF Exact
  <2>3. \A r \in Req : ~Holds(r, k)' /\ ~Uncounted(r, k)'
    BY <1>1 DEF Holds, Uncounted
  <2> QED BY <1>1, <2>1, <2>2, <2>3 DEF Exact, Limit
<1> QED BY <1>2, <1>3, <1>4 DEF LInv, AllExact

\* The limiter's part, when its counters, its requests' windows and its history
\* stay: a tick.
LEMMA LimitFrame ==
    ASSUME Assumptions, LInv, now' \in 0..MaxTime, now' >= now,
           UNCHANGED <<kv, call, calls, faults, let, disturbed>>
    PROVE  LInv'
<1> USE Constants
<1>1. LimitTypeOK' /\ Lasting' /\ (\A r \in Req : call[r].at <= now)'
  BY DEF LInv, LimitTypeOK, Lasting, Last
<1>2. NeverInvented' /\ RefusedAtLimit'
  BY DEF LInv, NeverInvented, RefusedAtLimit, KMin, KDay
<1>3. AllExact'
  BY DEF LInv, AllExact, Exact, Holds, Uncounted, ReadBy, KMin, KDay, Limit
<1> QED BY <1>1, <1>2, <1>3 DEF LInv

-----------------------------------------------------------------------------
(* The steps of a presign.                                                 *)

LEMMA PhotoWindow ==
    ASSUME Assumptions, LInv, PInv, NEW r \in Req
    PROVE  /\ QKey(r) \in Key /\ QKey(r)[1] = "quota"
           /\ QKey(r) = <<"quota", QKey(r)[2]>> /\ QKey(r)[2] \in 0..MaxTime
           /\ Last(QKey(r)) \in Nat /\ now + QuotaTTL > Last(QKey(r))
           /\ presign[r].pc \in {"looked", "counted"} /\ InTime(r) => now <= Last(QKey(r))
<1> USE Constants
<1>1. /\ presign[r].at \in 0..MaxTime /\ presign[r].at <= now /\ now \in Nat
      /\ call[r].at \in Nat
  BY DEF LInv, LimitTypeOK, PInv, TypeOK, InHandler
<1>2. /\ QKey(r) \in {MinuteKey(presign[r].at), DayKey(presign[r].at), QuotaKey(presign[r].at)}
      /\ QKey(r) = <<"quota", presign[r].at \div MinutesPerDay>>
  BY DEF QKey, QuotaKey
<1>3. TTL(QKey(r)) = QuotaTTL
  BY <1>2 DEF TTL
<1>4. /\ QKey(r) \in Key /\ Last(QKey(r)) \in Nat /\ presign[r].at + 1 <= Last(QKey(r))
      /\ now + QuotaTTL > Last(QKey(r))
  BY <1>1, <1>2, <1>3, WindowOf
<1>5. QKey(r)[2] \in 0..MaxTime /\ QKey(r)[1] = "quota" /\ QKey(r) = <<"quota", QKey(r)[2]>>
  BY <1>2, <1>4 DEF Key
<1>6. presign[r].pc \in {"looked", "counted"} /\ InTime(r) => now <= presign[r].at + 1
  BY <1>1 DEF PInv, InHandler, InTime
<1> QED BY <1>1, <1>4, <1>5, <1>6

\* Only the counters of the quota, and r, which is done with the limiter, move.
LEMMA LimiterUntouched ==
    ASSUME Assumptions, LInv, NEW r \in Req, call[r].pc \in {"idle", "handler"},
           UNCHANGED call \/ Leave(r),
           UNCHANGED <<now, calls, let, disturbed>>, faults' \in 0..MaxFaults,
           kv' \in [Key -> [n : Nat, until : Nat]], Lasting',
           \A k \in Key : k[1] # "quota" => kv'[k] = kv[k]
    PROVE  LInv'
<1> USE Constants
<1>1. /\ call' \in [Req -> [pc     : {"idle", "minute", "day", "bumpMinute",
                                     "bumpDay", "handler", "refused"},
                           at     : 0..MaxTime,
                           minute : Nat,
                           day    : Nat]]
      /\ call'[r].pc \in {"idle", "handler"} /\ call'[r].at <= now
      /\ \A q \in Req \ {r} : call'[q] = call[q]
  BY DEF LInv, LimitTypeOK, Leave, Idle, Begun
<1>2. LimitTypeOK'
  BY <1>1 DEF LInv, LimitTypeOK
<1>3. (\A q \in Req : call[q].at <= now)'
  BY <1>1 DEF LInv
<1>4. NeverInvented' /\ RefusedAtLimit'
  BY <1>1 DEF LInv, NeverInvented, RefusedAtLimit, KMin, KDay
<1>5. ASSUME NEW k \in Key, k[1] # "quota", k \notin disturbed' PROVE Exact(k)'
  <2>1. ~Uncounted(r, k) /\ ~Holds(r, k)'
    BY <1>1 DEF Uncounted, Holds
  <2> QED BY <1>1, <1>5, <2>1, ExactOfOthers DEF LInv, AllExact
<1> QED BY <1>2, <1>3, <1>4, <1>5 DEF LInv, AllExact

\* The quota's part, when no request begins to count and no counter moves.
LEMMA QuotaFrame ==
    ASSUME Assumptions, PInv, TypeOK', InHandler',
           \A k \in Key : k[1] = "quota" => kv'[k] = kv[k],
           UNCHANGED <<minted, tried, raced, told>>,
           \A r \in Req : presign'[r] = presign[r] \/ presign'[r].pc \in {"none", "looked", "url"}
    PROVE  PInv'
<1>1. \A r \in Req : Counted(r)' => Counted(r) /\ presign'[r] = presign[r] /\ QKey(r)' = QKey(r)
  BY DEF Counted, QKey
<1>2. TriedEnough'
  BY <1>1 DEF PInv, TriedEnough
<1>3. ExceededAtQuota'
  BY DEF PInv, ExceededAtQuota, QKey
<1>4. ASSUME NEW k \in Key, k[1] = "quota", k \notin raced' PROVE ExactQuota(k)'
  <2>1. ExactQuota(k) /\ kv'[k] = kv[k]
    BY <1>4 DEF PInv, AllExactQuota
  <2> QED BY <1>1, <2>1 DEF ExactQuota
<1>5. ToldTrue'
  <2>1. told.day \in 0..MaxTime =>
          <<"quota", told.day>> \in Key /\ kv'[<<"quota", told.day>>] = kv[<<"quota", told.day>>]
    BY DEF Key
  <2> QED BY <1>1, <2>1 DEF PInv, ToldTrue
<1> QED BY <1>2, <1>3, <1>4, <1>5 DEF PInv, AllExactQuota

\* A step of the limiter by a request that is not in the handler.
LEMMA LimitStepKeepsQuota ==
    ASSUME Assumptions, LInv, PInv, NEW r \in Req,
           presign[r].pc = "none", LimitStep(r), UNCHANGED photoVars
    PROVE  IInv'
<1> USE Constants
<1>1. LInv'
  BY LimitStepKeeps
<1>2. UNCHANGED <<presign, minted, tried, raced, told, rebuffed, now>>
  BY DEF photoVars, LimitStep, Arrive, ReadMinute, ReadMinuteFails, ReadDay, ReadDayFails,
     BumpMinute, BumpMinuteFails, BumpDay, BumpDayFails, Answer429
<1>3. TypeOK'
  BY <1>1, <1>2 DEF LInv, PInv, TypeOK
<1>4. \A q \in Req \ {r} : call'[q] = call[q]
  BY DEF LimitStep, Arrive, ReadMinute, ReadMinuteFails, ReadDay, ReadDayFails, Decide,
     BumpMinute, BumpMinuteFails, BumpDay, BumpDayFails, Answer429, Leave, LInv, LimitTypeOK
<1>5. InHandler'
  BY <1>2, <1>4 DEF PInv, InHandler
<1>6. \A k \in Key : k[1] = "quota" => kv'[k] = kv[k]
  <2>1. UNCHANGED kv \/ \E n, ttl : Put(KMin(r), n, ttl) \/ Put(KDay(r), n, ttl)
    BY DEF LimitStep, Arrive, ReadMinute, ReadMinuteFails, ReadDay, ReadDayFails,
       BumpMinute, BumpMinuteFails, BumpDay, BumpDayFails, Answer429
  <2>2. KMin(r)[1] = "minute" /\ KDay(r)[1] = "day"
    BY DEF KMin, KDay, MinuteKey, DayKey
  <2> QED BY <2>1, <2>2 DEF Put, LInv, LimitTypeOK
<1>7. PInv'
  BY <1>2, <1>3, <1>5, <1>6, QuotaFrame
<1> QED BY <1>1, <1>7 DEF IInv

LEMMA TickKeeps ==
    ASSUME Assumptions, LInv, PInv, LimitTick, UNCHANGED photoVars
    PROVE  IInv'
<1> USE Constants
<1>1. /\ UNCHANGED <<kv, call, calls, faults, let, disturbed>>
      /\ UNCHANGED <<presign, minted, tried, raced, told, rebuffed>>
      /\ now' \in 0..MaxTime /\ now' >= now /\ now \in Nat
  BY DEF LimitTick, Tick, photoVars, LInv, LimitTypeOK
<1>2. LInv'
  BY <1>1, LimitFrame
<1>3. TypeOK'
  BY <1>1, <1>2 DEF LInv, PInv, TypeOK
<1>4. InHandler'
  BY <1>1 DEF PInv, InHandler, TypeOK
<1> QED BY <1>1, <1>2, <1>3, <1>4, QuotaFrame DEF IInv

LEMMA StopKeeps ==
    ASSUME Assumptions, LInv, PInv, ContainerStop
    PROVE  IInv'
<1> USE Constants
<1>1. /\ UNCHANGED <<now, kv, minted, tried, raced, told, rebuffed>>
      /\ presign' = [r \in Req |-> IF presign[r].pc = "url" THEN presign[r] ELSE NotBegun]
  BY DEF ContainerStop, LimitStop
<1>2. LInv'
  BY LimitStopKeeps DEF ContainerStop
<1>3. TypeOK' /\ InHandler'
  BY <1>1, <1>2 DEF LInv, LimitTypeOK, PInv, TypeOK, InHandler, NotBegun
<1>4. \A r \in Req : presign'[r] = presign[r] \/ presign'[r].pc \in {"none", "looked", "url"}
  BY <1>1 DEF NotBegun
<1> QED BY <1>1, <1>2, <1>3, <1>4, QuotaFrame DEF IInv

\* Steps that count nothing: r begins, is answered without a URL, or uploads.
LEMMA PlainStepKeeps ==
    ASSUME Assumptions, LInv, PInv, NEW r \in Req,
           \/ Look(r) \/ LookRefused(r) \/ ReadQuotaFails(r) \/ AnswerExceeded(r) \/ Upload(r)
    PROVE  IInv'
<1> USE Constants
<1>1. /\ UNCHANGED <<now, kv, calls, let, disturbed, minted, tried, raced, told>>
      /\ UNCHANGED call \/ Leave(r)
      /\ rebuffed' \in BOOLEAN
  BY DEF Look, LookRefused, ReadQuotaFails, AnswerExceeded, Upload, GiveUp, limitVars, photoVars,
     PInv, TypeOK
<1>2. faults' \in 0..MaxFaults
  BY FaultTyped DEF Look, LookRefused, ReadQuotaFails, AnswerExceeded, Upload, limitVars,
     LInv, LimitTypeOK
<1>3. /\ call[r].pc \in {"idle", "handler"} \/ UNCHANGED <<call, faults>>
      /\ Leave(r) => presign'[r].pc = "none"
  <2>1. CASE Look(r)
    <3>1. call'[r].pc = "handler"
      BY <2>1 DEF Look, limitVars
    <3>2. ~Leave(r)
      BY <3>1 DEF Leave, Idle, Begun, LInv, LimitTypeOK
    <3> QED BY <2>1, <3>2 DEF Look
  <2>2. CASE LookRefused(r)
    BY <2>2 DEF LookRefused, photoVars
  <2>3. CASE ReadQuotaFails(r) \/ AnswerExceeded(r)
    BY <2>3 DEF ReadQuotaFails, AnswerExceeded, GiveUp, PInv, InHandler, TypeOK, NotBegun
  <2>4. CASE Upload(r)
    BY <2>4 DEF Upload, limitVars, PInv, TypeOK, NotBegun
  <2> QED BY <2>1, <2>2, <2>3, <2>4
<1>4. LInv'
  <2>1. kv' \in [Key -> [n : Nat, until : Nat]] /\ Lasting'
    BY <1>1 DEF LInv, LimitTypeOK, Lasting, Last
  <2>2. CASE call[r].pc \in {"idle", "handler"}
    BY <1>1, <1>2, <2>1, <2>2, LimiterUntouched
  <2>3. CASE UNCHANGED <<call, faults>>
    <3>1. now' \in 0..MaxTime /\ now' >= now
      BY <1>1 DEF LInv, LimitTypeOK
    <3> QED BY <1>1, <2>3, <3>1, LimitFrame
  <2> QED BY <1>3, <2>2, <2>3
<1>5. /\ presign' \in [Req -> [pc   : {"none", "looked", "counted", "over", "url"},
                              at   : 0..MaxTime,
                              used : Nat]]
      /\ presign'[r].at <= now
      /\ presign'[r].pc \in {"none", "looked"} \/ presign'[r] = presign[r]
      /\ presign'[r].pc = "looked" =>
            call[r].pc = "handler" /\ call[r].at <= presign'[r].at /\ UNCHANGED call
      /\ \A q \in Req \ {r} : presign'[q] = presign[q]
  BY DEF Look, LookRefused, ReadQuotaFails, AnswerExceeded, Upload, GiveUp, limitVars, photoVars,
     PInv, InHandler, TypeOK, NotBegun, LInv, LimitTypeOK
<1>6. TypeOK'
  BY <1>1, <1>4, <1>5 DEF LInv, PInv, TypeOK
<1>7. InHandler'
  <2>1. \A q \in Req \ {r} : call'[q] = call[q]
    BY <1>1 DEF Leave, LInv, LimitTypeOK
  <2>2. Leave(r) \/ UNCHANGED call
    BY <1>1
  <2> QED BY <1>1, <1>3, <1>5, <2>1, <2>2 DEF PInv, InHandler
<1>8. PInv'
  BY <1>1, <1>5, <1>6, <1>7, QuotaFrame
<1> QED BY <1>4, <1>8 DEF IInv

LEMMA ReadQuotaKeeps ==
    ASSUME Assumptions, LInv, PInv, NEW r \in Req, ReadQuota(r)
    PROVE  IInv'
<1> USE Constants
<1> DEFINE k == QKey(r)
           used == kv[k].n
<1>1. /\ presign[r].pc = "looked" /\ InTime(r)
      /\ UNCHANGED <<now, kv, call, calls, faults, let, disturbed, minted, tried, rebuffed>>
      /\ told' = NothingTold /\ raced \subseteq raced' /\ raced' \in SUBSET Key
      /\ k \notin raced' => \A q \in Req : ~(Counted(q) /\ QKey(q) = k)
  BY PhotoWindow DEF ReadQuota, limitVars, PInv, TypeOK, Counted
<1>2. k \in Key /\ k[1] = "quota" /\ used \in Nat /\ Count(k) = used
  BY <1>1, PhotoWindow, CountIsStored DEF LInv, LimitTypeOK
<1>3. presign' = [presign EXCEPT ![r].pc = IF Exhausted(used) THEN "over" ELSE "counted",
                                 ![r].used = used]
  BY <1>2 DEF ReadQuota
<1>4. /\ presign'[r].pc = (IF Exhausted(used) THEN "over" ELSE "counted")
      /\ presign'[r].used = used /\ presign'[r].at = presign[r].at
      /\ \A q \in Req \ {r} : presign'[q] = presign[q]
  BY <1>3 DEF PInv, TypeOK
<1>5. \A q \in Req : QKey(q)' = QKey(q)
  BY <1>4 DEF QKey
<1>6. LInv'
  <2>1. now' \in 0..MaxTime /\ now' >= now
    BY <1>1 DEF LInv, LimitTypeOK
  <2> QED BY <1>1, <2>1, LimitFrame
<1> HIDE DEF used, k
<1>7. TypeOK'
  <2>1. presign' \in [Req -> [pc   : {"none", "looked", "counted", "over", "url"},
                             at   : 0..MaxTime,
                             used : Nat]]
    BY <1>2, <1>3 DEF PInv, TypeOK
  <2>2. told' \in [day : -1..MaxTime, left : 0..(Quota - 1)]
    BY <1>1 DEF NothingTold
  <2> QED BY <1>1, <1>6, <2>1, <2>2 DEF LInv, PInv, TypeOK
<1>8. InHandler'
  BY <1>1, <1>4 DEF PInv, InHandler
<1>9. used <= tried[k]
  BY <1>2 DEF PInv, TriedEnough, used
<1>10. TriedEnough'
  <2>1. Counted(r)' => used < Quota
    BY <1>2, <1>4 DEF Counted, Exhausted
  <2>2. \A q \in Req \ {r} : Counted(q)' <=> Counted(q)
    BY <1>4 DEF Counted
  <2> QED BY <1>1, <1>4, <1>5, <1>9, <2>1, <2>2 DEF PInv, TriedEnough, k
<1>11. ExceededAtQuota'
  <2>1. presign'[r].pc = "over" => used >= Quota
    BY <1>4 DEF Exhausted
  <2>2. presign'[r].pc = "over" => tried[k] >= Quota
    BY <1>2, <1>9, <2>1 DEF PInv, TypeOK
  <2> QED BY <1>1, <1>4, <1>5, <2>2 DEF PInv, ExceededAtQuota, k
<1>12. ASSUME NEW l \in Key, l[1] = "quota", l \notin raced' PROVE ExactQuota(l)'
  <2>1. ExactQuota(l)
    BY <1>1, <1>12 DEF PInv, AllExactQuota
  <2>2. \A q \in Req \ {r} : Counted(q)' <=> Counted(q)
    BY <1>4 DEF Counted
  <2>3. l = k => \A q \in Req : ~(Counted(q) /\ QKey(q) = l)
    BY <1>1, <1>12
  <2> QED BY <1>1, <1>4, <1>5, <2>1, <2>2, <2>3 DEF ExactQuota, k, used
<1>13. ToldTrue'
  BY <1>1 DEF ToldTrue, NothingTold
<1> QED BY <1>6, <1>7, <1>8, <1>10, <1>11, <1>12, <1>13 DEF IInv, PInv, AllExactQuota

\* The count is stored and the URL handed out, or the call fails, stored or not.
LEMMA WriteQuotaKeeps ==
    ASSUME Assumptions, LInv, PInv, NEW r \in Req, WriteQuota(r) \/ WriteQuotaFails(r)
    PROVE  IInv'
<1> USE Constants
<1> DEFINE k == QKey(r)
           used == presign[r].used
<1>1. /\ presign[r].pc = "counted" /\ Leave(r) /\ Tried(r)
      /\ UNCHANGED <<now, calls, let, disturbed, raced, rebuffed>>
  BY DEF WriteQuota, WriteQuotaFails, GiveUp
<1>2. /\ k \in Key /\ k[1] = "quota" /\ used \in Nat /\ used < Quota /\ used <= tried[k]
      /\ call[r].pc = "handler" /\ tried \in [Key -> Nat] /\ minted \in [Key -> Nat]
      /\ kv \in [Key -> [n : Nat, until : Nat]]
  BY <1>1, PhotoWindow DEF PInv, TypeOK, TriedEnough, Counted, LInv, LimitTypeOK, InHandler
<1>3. faults' \in 0..MaxFaults
  BY FaultTyped DEF WriteQuota, WriteQuotaFails, LInv, LimitTypeOK
\* The counter has moved if the URL was handed out.
<1>4. /\ Lasting' /\ kv' \in [Key -> [n : Nat, until : Nat]]
      /\ \A l \in Key : l # k => kv'[l] = kv[l]
      /\ kv'[k].n \in {kv[k].n, used + 1}
      /\ minted' # minted => kv'[k].n = used + 1
      /\ told' # NothingTold => kv'[k].n = used + 1
  <2>1. CASE Put(k, used + 1, QuotaTTL)
    <3>1. now + QuotaTTL > Last(k) /\ Last(k) \in Nat
      BY PhotoWindow
    <3>2. used + 1 \in Nat
      BY <1>2
    <3> HIDE DEF k, used
    <3>3. /\ Lasting' /\ kv' \in [Key -> [n : Nat, until : Nat]]
          /\ kv'[k].n = used + 1 /\ \A l \in Key : l # k => kv'[l] = kv[l]
      BY <1>2, <2>1, <3>1, <3>2, PutLasts
    <3> QED BY <3>3
  <2>2. CASE UNCHANGED kv /\ WriteQuotaFails(r)
    BY <1>2, <2>2 DEF LInv, Lasting, Last, WriteQuotaFails
  <2> QED BY <2>1, <2>2 DEF WriteQuota, WriteQuotaFails
<1>5. LInv'
  BY <1>1, <1>2, <1>3, <1>4, LimiterUntouched
<1>6. /\ presign' \in [Req -> [pc   : {"none", "looked", "counted", "over", "url"},
                              at   : 0..MaxTime,
                              used : Nat]]
      /\ presign'[r].pc \in {"none", "url"} /\ presign'[r].at <= now
      /\ \A q \in Req \ {r} : presign'[q] = presign[q]
  BY <1>2 DEF WriteQuota, WriteQuotaFails, HandOut, GiveUp, NotBegun, PInv, TypeOK, InHandler,
     LInv, LimitTypeOK
<1>7. /\ minted' \in [Key -> Nat] /\ \A l \in Key : l # k => minted'[l] = minted[l]
      /\ minted'[k] = minted[k] \/ (minted'[k] = minted[k] + 1 /\ minted' # minted)
  <2>1. CASE minted' = [minted EXCEPT ![k] = @ + 1]
    <3> HIDE DEF k
    <3>1. /\ minted' \in [Key -> Nat] /\ \A l \in Key : l # k => minted'[l] = minted[l]
          /\ minted'[k] = minted[k] + 1 /\ minted[k] \in Nat
      BY <1>2, <2>1
    <3>2. minted'[k] # minted[k]
      BY <3>1
    <3> QED BY <3>1, <3>2
  <2>2. CASE UNCHANGED minted
    BY <1>2, <2>2
  <2> QED BY <2>1, <2>2 DEF WriteQuota, WriteQuotaFails
<1>8. /\ tried' \in [Key -> Nat] /\ \A l \in Key : l # k => tried'[l] = tried[l]
      /\ tried'[k] = tried[k] + 1
  BY <1>1, <1>2 DEF Tried
<1>9. /\ told' = NothingTold \/ (told'.day = k[2] /\ told'.left = Remaining(used)
                                   /\ \A q \in Req \ {r} : ~Counted(q))
      /\ told' \in [day : -1..MaxTime, left : 0..(Quota - 1)]
  <2>1. NothingTold \in [day : -1..MaxTime, left : 0..(Quota - 1)]
    BY DEF NothingTold
  <2>2. /\ k[2] \in -1..MaxTime
        /\ Remaining(used) \in 0..(Quota - 1)
    BY <1>2, PhotoWindow DEF Remaining
  <2> HIDE DEF k, used
  <2>3. \/ told' = NothingTold
        \/ told' = [day |-> k[2], left |-> Remaining(used)] /\ \A q \in Req \ {r} : ~Counted(q)
    BY DEF WriteQuota, WriteQuotaFails, Tell, Counted, k, used
  <2> QED BY <2>1, <2>2, <2>3
<1>10. \A q \in Req \ {r} : Counted(q)' <=> Counted(q)
  BY <1>6 DEF Counted
<1>11. ~Counted(r)'
  BY <1>6 DEF Counted
<1>12. \A q \in Req \ {r} : QKey(q)' = QKey(q)
  BY <1>6 DEF QKey
<1>13. TypeOK'
  BY <1>1, <1>5, <1>6, <1>7, <1>8, <1>9 DEF LInv, PInv, TypeOK
<1>14. InHandler'
  <2>1. \A q \in Req \ {r} : call'[q] = call[q]
    BY <1>1 DEF Leave, LInv, LimitTypeOK
  <2> QED BY <1>1, <1>6, <2>1 DEF PInv, InHandler
<1> HIDE DEF k, used
<1>15. \A l \in Key : tried'[l] >= tried[l] /\ tried[l] \in Nat /\ tried'[l] \in Nat
  BY <1>2, <1>8
<1>16. TriedEnough'
  <2>1. \A l \in Key : l[1] = "quota" => kv'[l].n <= tried'[l]
    <3>1. kv[k].n <= tried[k] /\ kv[k].n \in Nat /\ tried[k] \in Nat
      BY <1>2 DEF PInv, TriedEnough
    <3>2. kv'[k].n <= tried'[k]
      BY <1>2, <1>4, <1>8, <3>1
    <3> QED BY <1>4, <1>8, <3>2 DEF PInv, TriedEnough
  <2>2. ASSUME NEW q \in Req, Counted(q)'
        PROVE  presign'[q].used < Quota /\ presign'[q].used <= tried'[QKey(q)']
    <3>1. /\ q # r /\ Counted(q) /\ QKey(q) \in Key /\ presign[q].used \in Nat
          /\ presign'[q] = presign[q] /\ QKey(q)' = QKey(q)
      BY <1>6, <1>10, <1>11, <1>12, <2>2, PhotoWindow DEF PInv, TypeOK
    <3> QED BY <1>15, <3>1 DEF PInv, TriedEnough
  <2> QED BY <2>1, <2>2 DEF TriedEnough
<1>17. ExceededAtQuota'
  <2>1. ASSUME NEW q \in Req, presign'[q].pc = "over" PROVE tried'[QKey(q)'] >= Quota
    <3>1. q # r /\ presign[q].pc = "over" /\ QKey(q)' = QKey(q) /\ QKey(q) \in Key
      BY <1>6, <1>12, <2>1, PhotoWindow
    <3>2. tried[QKey(q)] >= Quota
      BY <3>1 DEF PInv, ExceededAtQuota
    <3> QED BY <1>15, <3>1, <3>2
  <2> QED BY <2>1 DEF ExceededAtQuota
<1>18. ASSUME NEW l \in Key, l[1] = "quota", l \notin raced' PROVE ExactQuota(l)'
  <2>1. ExactQuota(l)
    BY <1>1, <1>18 DEF PInv, AllExactQuota
  <2>2. CASE l # k
    BY <1>4, <1>6, <1>7, <1>10, <1>11, <1>12, <2>1, <2>2 DEF ExactQuota
  <2>3. CASE l = k
    \* r alone had read the counter.
    <3>1. /\ \A q \in Req \ {r} : ~(Counted(q) /\ QKey(q) = l)
          /\ used = kv[l].n /\ minted[l] <= kv[l].n
      BY <1>1, <2>1, <2>3 DEF ExactQuota, Counted, k, used
    <3>2. minted'[l] <= kv'[l].n /\ kv'[l].n <= Quota
      BY <1>2, <1>4, <1>7, <2>3, <3>1
    <3> QED BY <1>10, <1>11, <1>12, <3>1, <3>2 DEF ExactQuota
  <2> QED BY <2>2, <2>3
<1>19. ToldTrue'
  <2>1. CASE told' = NothingTold
    BY <2>1 DEF ToldTrue, NothingTold
  <2>2. CASE told' # NothingTold
    <3>1. /\ told'.day = k[2] /\ told'.left = Quota - (used + 1) /\ kv'[k].n = used + 1
          /\ \A q \in Req \ {r} : ~Counted(q)
      BY <1>4, <1>9, <2>2 DEF Remaining
    <3>2. k = <<"quota", k[2]>> /\ k[2] \in 0..MaxTime
      BY PhotoWindow DEF k
    <3>3. kv'[k].n = Quota - told'.left
      BY <1>2, <3>1
    <3> QED BY <1>10, <1>11, <3>1, <3>2, <3>3 DEF ToldTrue
  <2> QED BY <2>1, <2>2
<1> QED BY <1>5, <1>13, <1>14, <1>16, <1>17, <1>18, <1>19 DEF IInv, PInv, AllExactQuota

-----------------------------------------------------------------------------
(* The theorems.                                                           *)

LEMMA InitIInv ==
    ASSUME Assumptions, Init
    PROVE  IInv
<1> USE Constants
<1>1. /\ now = 0 /\ kv = [k \in Key |-> [n |-> 0, until |-> 0]]
      /\ call = [r \in Req |-> [pc |-> "idle", at |-> 0, minute |-> 0, day |-> 0]]
      /\ calls = 0 /\ faults = 0 /\ let = [k \in Key |-> 0] /\ disturbed = {}
      /\ presign = [r \in Req |-> [pc |-> "none", at |-> 0, used |-> 0]]
      /\ minted = [k \in Key |-> 0] /\ tried = [k \in Key |-> 0] /\ raced = {}
      /\ told = [day |-> -1, left |-> 0] /\ rebuffed = FALSE
  BY DEF Init, LimitInit, Absent, Idle, Begun, NotBegun, NothingTold
<1>2. LimitTypeOK
  BY <1>1 DEF LimitTypeOK
<1>3. Lasting /\ NeverInvented /\ RefusedAtLimit /\ \A r \in Req : call[r].at <= now
  BY <1>1 DEF Lasting, NeverInvented, RefusedAtLimit
<1>4. ASSUME NEW k \in Key, k[1] # "quota" PROVE Exact(k)
  <2>1. \A r \in Req : ~Holds(r, k) /\ ~Uncounted(r, k)
    BY <1>1 DEF Holds, Uncounted
  <2> QED BY <1>1, <2>1 DEF Exact, Limit
<1>5. TypeOK
  <2>1. told \in [day : -1..MaxTime, left : 0..(Quota - 1)]
    BY <1>1
  <2>2. presign \in [Req -> [pc   : {"none", "looked", "counted", "over", "url"},
                            at   : 0..MaxTime,
                            used : Nat]]
    BY <1>1
  <2>3. minted \in [Key -> Nat] /\ tried \in [Key -> Nat]
    BY <1>1
  <2> QED BY <1>1, <1>2, <2>1, <2>2, <2>3 DEF TypeOK
<1>6. \A r \in Req : ~Counted(r)
  BY <1>1 DEF Counted
<1>7. InHandler /\ TriedEnough /\ ExceededAtQuota /\ AllExactQuota /\ ToldTrue
  BY <1>1, <1>6 DEF InHandler, TriedEnough, ExceededAtQuota, AllExactQuota, ExactQuota, ToldTrue
<1> QED BY <1>2, <1>3, <1>4, <1>5, <1>7 DEF IInv, LInv, PInv, AllExact

LEMMA StutterKeeps ==
    ASSUME Assumptions, IInv, UNCHANGED vars
    PROVE  IInv'
<1> USE Constants
<1>1. UNCHANGED <<now, kv, call, calls, faults, let, disturbed,
                  presign, minted, tried, raced, told, rebuffed>>
  BY DEF vars, limitVars, photoVars
<1>2. LInv'
  <2>1. now' \in 0..MaxTime /\ now' >= now
    BY <1>1 DEF IInv, LInv, LimitTypeOK
  <2> QED BY <1>1, <2>1, LimitFrame DEF IInv
<1>3. TypeOK' /\ InHandler'
  BY <1>1, <1>2 DEF IInv, LInv, PInv, TypeOK, InHandler
<1> QED BY <1>1, <1>2, <1>3, QuotaFrame DEF IInv

LEMMA NextKeeps ==
    ASSUME Assumptions, IInv, [Next]_vars
    PROVE  IInv'
<1>1. LInv /\ PInv
  BY DEF IInv
<1>2. CASE \E r \in Req : PresignStep(r)
  BY <1>1, <1>2, LimitStepKeepsQuota, PlainStepKeeps, ReadQuotaKeeps, WriteQuotaKeeps
     DEF PresignStep, PhotoStep
<1>3. CASE ContainerStop
  BY <1>1, <1>3, StopKeeps
<1>4. CASE LimitTick /\ UNCHANGED photoVars
  BY <1>1, <1>4, TickKeeps
<1>5. CASE UNCHANGED vars
  BY <1>5, StutterKeeps
<1> QED BY <1>2, <1>3, <1>4, <1>5 DEF Next

LEMMA AssumptionsHold == Assumptions
BY CounterAssumption, LimitAssumption, PhotosAssumption DEF Assumptions

\* Every reachable state of the limiter and of the quota behind it satisfies
\* the inductive invariant.
THEOREM PhotosInvariant == Spec => []IInv
<1>1. Init => IInv
  BY AssumptionsHold, InitIInv
<1>2. IInv /\ [Next]_vars => IInv'
  BY AssumptionsHold, NextKeeps
<1> QED BY <1>1, <1>2, PTL DEF Spec

(* Requests, counters and histories keep their types.                      *)
THEOREM PhotosTypeCorrect == Spec => []TypeOK
<1>1. IInv => TypeOK
  BY DEF IInv, PInv
<1> QED BY <1>1, PhotosInvariant, PTL

(* A window of the global limiter in which no count was lost lets no more  *)
(* requests through than its limit (ratelimit_global.go).                  *)
THEOREM LimiterHolds == Spec => []WindowHolds
<1>1. ASSUME IInv PROVE WindowHolds
  <2>1. ASSUME NEW k \in Key, k[1] # "quota", k \notin disturbed PROVE let[k] <= Limit(k)
    <3>1. Exact(k) /\ kv[k].n \in Nat /\ Limit(k) \in Nat
      BY <1>1, <2>1, AssumptionsHold, Constants
         DEF IInv, LInv, AllExact, LimitTypeOK, Limit
    <3> QED BY <3>1 DEF Exact
  <2> QED BY <2>1 DEF WindowHolds
<1> QED BY <1>1, PhotosInvariant, PTL

(* The global limiter refuses nobody before a window of theirs has let its *)
(* limit through, whatever fails or overlaps (ratelimit_global.go).        *)
THEOREM LimiterIsFair == Spec => []RefusedAtLimit
<1>1. IInv => RefusedAtLimit
  BY DEF IInv, LInv
<1> QED BY <1>1, PhotosInvariant, PTL

(* On a day without overlapping presigns no more URLs are handed out than  *)
(* the quota (photo_usecase.go, Presign).                                  *)
THEOREM QuotaIsKept == Spec => []QuotaHolds
<1>1. ASSUME IInv PROVE QuotaHolds
  <2>1. ASSUME NEW k \in Key, k[1] = "quota", k \notin raced PROVE minted[k] <= Quota
    <3>1. ExactQuota(k) /\ kv[k].n \in Nat /\ minted[k] \in Nat /\ Quota \in Nat
      BY <1>1, <2>1, AssumptionsHold, Constants
         DEF IInv, LInv, LimitTypeOK, PInv, AllExactQuota, TypeOK
    <3> QED BY <3>1 DEF ExactQuota
  <2> QED BY <2>1 DEF QuotaHolds
<1> QED BY <1>1, PhotosInvariant, PTL

(* quota_exceeded is answered only after Quota attempts to count that day, *)
(* whatever overlaps (photo_usecase.go, Presign).                          *)
THEOREM QuotaIsFair == Spec => []ExceededAtQuota
<1>1. IInv => ExceededAtQuota
  BY DEF IInv, PInv
<1> QED BY <1>1, PhotosInvariant, PTL

LEMMA OnlyReadQuotaReads ==
    ASSUME Assumptions, IInv, [Next]_vars, NEW r \in Req,
           presign[r].pc = "looked", presign'[r].pc \in {"counted", "over"}
    PROVE  ReadQuota(r)
<1>1. presign'[r] # presign[r]
  OBVIOUS
<1>2. presign \in [Req -> [pc   : {"none", "looked", "counted", "over", "url"},
                          at   : 0..MaxTime,
                          used : Nat]]
  BY DEF IInv, PInv, TypeOK
<1>3. ~UNCHANGED presign
  BY <1>1
<1>4. ~ContainerStop
  BY DEF ContainerStop, NotBegun
<1>5. PICK q \in Req : PhotoStep(q)
  BY <1>3, <1>4 DEF Next, PresignStep, vars, photoVars
<1>6. q = r
  BY <1>1, <1>2, <1>5 DEF PhotoStep, Look, LookRefused, ReadQuota, ReadQuotaFails,
     AnswerExceeded, WriteQuota, WriteQuotaFails, Upload, GiveUp, HandOut, photoVars
<1> QED BY <1>2, <1>3, <1>5, <1>6 DEF PhotoStep, Look, LookRefused, ReadQuotaFails,
     AnswerExceeded, WriteQuota, WriteQuotaFails, Upload, GiveUp, photoVars, NotBegun

(* The next request of the day finds the quota_remaining that the last     *)
(* answer promised (photo_usecase.go, Presign).                            *)
THEOREM RemainingIsTrue == Spec => RemainingHonest
<1> DEFINE Honest ==
      \A r \in Req :
          /\ presign[r].pc = "looked" /\ presign'[r].pc \in {"counted", "over"}
          /\ told.day = QKey(r)[2]
          => presign'[r].used = Quota - told.left
<1>1. ASSUME IInv, [Next]_vars PROVE [Honest]_vars
  <2>1. ASSUME NEW r \in Req, presign[r].pc = "looked",
               presign'[r].pc \in {"counted", "over"}, told.day = QKey(r)[2]
        PROVE  presign'[r].used = Quota - told.left
    <3>1. ReadQuota(r)
      BY <1>1, <2>1, AssumptionsHold, OnlyReadQuotaReads
    <3>2. /\ QKey(r) = <<"quota", told.day>> /\ told.day \in 0..MaxTime
          /\ Count(QKey(r)) = kv[QKey(r)].n
      BY <1>1, <2>1, <3>1, AssumptionsHold, PhotoWindow, CountIsStored DEF IInv, ReadQuota
    <3>3. presign'[r].used = Count(QKey(r))
      BY <1>1, <3>1 DEF ReadQuota, IInv, PInv, TypeOK
    <3>4. told.day # -1
      BY <3>2
    <3> QED BY <1>1, <3>2, <3>3, <3>4 DEF IInv, PInv, ToldTrue
  <2> QED BY <2>1
<1> QED BY <1>1, PhotosInvariant, PTL DEF Spec, RemainingHonest
=============================================================================
