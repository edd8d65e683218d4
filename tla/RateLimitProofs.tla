--------------------------- MODULE RateLimitProofs ---------------------------
(***************************************************************************)
(* The configured rate bounds the undisturbed admissions, for every bucket,*)
(* lifetime, deadline and number of overlapping requests.                  *)
(*                                                                         *)
(* The bucket stored in KV is compared with the ideal one by the moment    *)
(* each is full again.  Covered says that the stored one is never full     *)
(* earlier than the ideal one, except for the time that late readers gave  *)
(* it twice; it has a part for a request about to read and a part for one  *)
(* that has read, because other requests write in between.  A request that *)
(* finds the entry expired starts from a full bucket: EntryOK says that    *)
(* the entry's own bucket was full by then, even at the time the request   *)
(* took from its clock up to Deadline earlier, and that is where           *)
(* TTL >= Full + Deadline is needed.                                       *)
(***************************************************************************)
EXTENDS RateLimit, TLAPS

\* The moment at which the bucket of KV is full.
FullAt(e) == e.last + Full - e.tokens

\* An entry holds a bucket that is full before a request can miss it.
EntryOK ==
    /\ entry.last <= now
    /\ entry = Absent \/ FullAt(entry) + Deadline <= entry.until

\* An undisturbed request has the slots to itself, and its clock is past every
\* stamp.
CallsOK ==
    \A r \in InProgress :
        /\ call[r].at <= now
        /\ call[r].alone => InProgress = {r} /\ entry.last <= call[r].at

\* due, less what was given twice, is at most the full moment of the bucket that
\* the next request reads, or that r is about to read or has read.
Covered ==
    /\ due <= Larger(FullAt(entry), now) + setback
    /\ \A r \in InProgress :
          /\ call[r].pc = "reading" =>
                due <= Larger(FullAt(entry), call[r].at) + setback
          /\ call[r].pc = "deciding" =>
                due <= call[r].at + Full - call[r].tokens + setback

IInv == TypeOK /\ EntryOK /\ CallsOK /\ Covered

-----------------------------------------------------------------------------
\* A bucket holds at least one token, and Retry-After is a time.
LEMMA FullNat == Full \in Nat /\ Full >= Period
  <1>1. Capacity \in Nat /\ Period \in Nat /\ Capacity >= 1
    BY RateLimitAssumption
  <1>2. Capacity * Period \in Nat /\ Capacity * Period >= 1 * Period
    BY <1>1
  <1> QED BY <1>1, <1>2 DEF Full

\* The refill keeps the bucket between empty and full.
LEMMA RefilledType ==
    ASSUME TypeOK, NEW at \in 0..MaxTime
    PROVE  Refilled(at) \in 0..Full
  <1>1. entry.tokens \in 0..Full /\ entry.last \in 0..MaxTime /\ MaxTime \in Nat
    BY RateLimitAssumption DEF TypeOK
  <1> QED BY <1>1, FullNat DEF Refilled, Elapsed, Larger, Smaller

\* The moment a 429 promises is a time.
LEMMA PromiseType ==
    ASSUME TypeOK, NEW tokens \in 0..Full
    PROVE  now + RetryAfter(tokens) \in Nat
  <1>1. now \in Nat /\ Second \in Nat \ {0} /\ Period \in Nat /\ tokens \in Int
    BY RateLimitAssumption, FullNat DEF TypeOK
  <1> DEFINE q == (Period - tokens + Second - 1) \div Second
  <1>2. q \in Int
    BY <1>1
  <1>3. Larger(1, q) \in Nat
    BY <1>2 DEF Larger
  <1>4. Second * Larger(1, q) \in Nat
    BY <1>1, <1>3
  <1> QED BY <1>1, <1>4 DEF RetryAfter

\* Requests that were in progress stay so, but for r.
LEMMA AnsweredProgress ==
    ASSUME TypeOK, NEW r \in Req, Answered(r)
    PROVE  /\ InProgress' = InProgress \ {r}
           /\ \A q \in InProgress \ {r} : call'[q] = call[q]
           /\ call' \in [Req -> [pc : {"idle", "reading", "deciding"}, at : 0..MaxTime,
                                 tokens : 0..Full, alone : BOOLEAN]]
  <1>1. Idle \in [pc : {"idle", "reading", "deciding"}, at : 0..MaxTime,
                  tokens : 0..Full, alone : BOOLEAN]
    BY RateLimitAssumption, FullNat DEF Idle
  <1> QED BY <1>1 DEF TypeOK, Answered, InProgress, Idle

\* A request that has read writes back no earlier a full moment than its own,
\* which covers what is due.
LEMMA WriteCovers ==
    ASSUME IInv, NEW r \in Req, call[r].pc = "deciding",
           NEW t \in 0..Full, Persisted(r, t), Answered(r),
           UNCHANGED <<now, setback>>,
           due' \in Nat,
           due' = due \/ call[r].alone,
           due' <= call[r].at + Full - t + setback
    PROVE  EntryOK' /\ CallsOK' /\ Covered'
  <1> USE FullNat, RateLimitAssumption
  <1>1. r \in InProgress
    BY DEF InProgress
  <1>2. /\ InProgress' = InProgress \ {r}
        /\ \A q \in InProgress \ {r} : call'[q] = call[q]
    BY AnsweredProgress DEF IInv
  <1>3. /\ now \in Nat /\ due \in Nat /\ setback \in Nat
        /\ call[r].at \in Nat /\ call[r].at <= now
    BY <1>1 DEF IInv, TypeOK, CallsOK
  <1>4. entry'.tokens = t /\ entry'.last = call[r].at /\ entry'.until = now + TTL
    BY DEF Persisted
  <1>5. FullAt(entry)' = call[r].at + Full - t
    BY <1>4 DEF FullAt
  <1>6. EntryOK'
    BY <1>3, <1>4, <1>5 DEF EntryOK
  <1>7. ASSUME NEW q \in InProgress \ {r}
        PROVE  ~call[q].alone /\ due' = due
    BY <1>1, <1>7 DEF IInv, CallsOK
  <1>8. CallsOK'
    BY <1>2, <1>7 DEF IInv, CallsOK
  <1>9. due' <= FullAt(entry)' + setback'
    BY <1>3, <1>5
  <1>10. ASSUME NEW q \in InProgress \ {r}
         PROVE  /\ call[q].at \in Nat
                /\ call[q].pc = "deciding" => due <= call[q].at + Full - call[q].tokens + setback
    BY <1>10 DEF IInv, TypeOK, Covered, InProgress
  <1>11. FullAt(entry)' \in Int
    BY <1>3, <1>5
  <1>12. due' <= Larger(FullAt(entry)', now') + setback'
    BY <1>3, <1>9, <1>11 DEF Larger
  <1>13. ASSUME NEW q \in InProgress \ {r}
         PROVE  /\ call'[q].pc = "reading" =>
                      due' <= Larger(FullAt(entry)', call'[q].at) + setback'
                /\ call'[q].pc = "deciding" =>
                      due' <= call'[q].at + Full - call'[q].tokens + setback'
    BY <1>2, <1>3, <1>7, <1>9, <1>10, <1>11, <1>13 DEF Larger
  <1>14. Covered'
    BY <1>2, <1>12, <1>13 DEF Covered
  <1> QED BY <1>6, <1>8, <1>14

\* A request answered without a write leaves the rest as it was.
LEMMA AnswerKeeps ==
    ASSUME IInv, NEW r \in Req, Answered(r), UNCHANGED <<now, entry, setback, due>>
    PROVE  EntryOK' /\ CallsOK' /\ Covered'
  <1>1. /\ InProgress' = InProgress \ {r}
        /\ \A q \in InProgress \ {r} : call'[q] = call[q]
    BY AnsweredProgress DEF IInv
  <1>2. EntryOK'
    BY DEF IInv, EntryOK, FullAt
  <1>3. CallsOK'
    <2> SUFFICES ASSUME NEW q \in InProgress \ {r}
                 PROVE  /\ call[q].at <= now
                        /\ call[q].alone => InProgress \ {r} = {q} /\ entry.last <= call[q].at
      BY <1>1 DEF CallsOK
    <2> QED BY DEF IInv, CallsOK
  <1>4. Covered'
    BY <1>1 DEF IInv, Covered, FullAt
  <1> QED BY <1>2, <1>3, <1>4

\* Types of what a grant counts.
LEMMA GrantType ==
    ASSUME TypeOK, NEW r \in Req, Granted(r) \/ GrantedUnrecorded(r)
    PROVE  due' \in Nat /\ dueAll' \in Nat
  <1>1. call[r].at \in Nat /\ due \in Nat /\ dueAll \in Nat /\ Period \in Nat
    BY RateLimitAssumption DEF TypeOK
  <1>2. Charge(due, call[r].at) \in Nat /\ Charge(dueAll, call[r].at) \in Nat
    BY <1>1 DEF Charge, Larger
  <1> QED BY <1>1, <1>2 DEF Granted, GrantedUnrecorded

\* What a write stores is an entry.
LEMMA EntryType ==
    ASSUME TypeOK, NEW r \in Req, NEW t \in 0..Full, Persisted(r, t)
    PROVE  entry' \in [tokens : 0..Full, last : 0..MaxTime, until : 0..(MaxTime + TTL)]
  <1>1. now + TTL \in 0..(MaxTime + TTL) /\ call[r].at \in 0..MaxTime
    BY RateLimitAssumption DEF TypeOK
  <1> QED BY <1>1 DEF Persisted

-----------------------------------------------------------------------------
\* The initial state: nothing is due and the bucket is full.
LEMMA InitIInv == Init => IInv
  <1> SUFFICES ASSUME Init PROVE IInv
    OBVIOUS
  <1> USE FullNat, RateLimitAssumption
  <1>1. InProgress = {}
    BY DEF Init, InProgress, Idle
  <1>2. TypeOK
    <2>1. entry \in [tokens : 0..Full, last : 0..MaxTime, until : 0..(MaxTime + TTL)]
      BY DEF Init, Absent
    <2>2. call \in [Req -> [pc : {"idle", "reading", "deciding"}, at : 0..MaxTime,
                            tokens : 0..Full, alone : BOOLEAN]]
      BY DEF Init, Idle
    <2>3. failClosed \in BOOLEAN
      BY DEF Init
    <2>4. now = 0 /\ calls = 0 /\ due = 0 /\ dueAll = 0 /\ setback = 0 /\ promise = 0
      BY DEF Init
    <2> QED BY <2>1, <2>2, <2>3, <2>4 DEF TypeOK
  <1>3. EntryOK
    BY DEF Init, EntryOK, Absent
  <1>4. Covered
    BY <1>1 DEF Init, Covered, FullAt, Absent, Larger
  <1> QED BY <1>1, <1>2, <1>3, <1>4 DEF IInv, CallsOK

\* Time passes: what is due ages with the entry.
LEMMA TickIInv == IInv /\ Tick => IInv'
  <1> SUFFICES ASSUME IInv, Tick PROVE IInv'
    OBVIOUS
  <1> USE FullNat, RateLimitAssumption
  <1>1. now \in Nat /\ now' = now + 1 /\ now' \in 0..MaxTime
    BY DEF IInv, TypeOK, Tick
  <1>2. UNCHANGED <<entry, call, due, setback>> /\ InProgress' = InProgress
    BY DEF Tick, history, InProgress
  <1>3. TypeOK'
    BY <1>1 DEF IInv, TypeOK, Tick, history
  <1>4. FullAt(entry) \in Int /\ due \in Nat /\ setback \in Nat /\ entry.last \in Nat
    BY DEF IInv, TypeOK, FullAt
  <1>5. EntryOK'
    BY <1>1, <1>2, <1>4 DEF IInv, EntryOK, FullAt
  <1>6. CallsOK'
    <2> SUFFICES ASSUME NEW r \in InProgress PROVE call[r].at <= now + 1
      BY <1>1, <1>2 DEF IInv, CallsOK
    <2>1. call[r].at \in Nat /\ call[r].at <= now
      BY DEF IInv, CallsOK, TypeOK, InProgress
    <2> QED BY <1>1, <2>1
  <1>7. FullAt(entry)' = FullAt(entry)
    BY <1>2 DEF FullAt
  <1>8. due' <= Larger(FullAt(entry)', now') + setback'
    BY <1>1, <1>2, <1>4, <1>7 DEF IInv, Covered, Larger
  <1>9. Covered'
    BY <1>2, <1>7, <1>8 DEF IInv, Covered
  <1> QED BY <1>3, <1>5, <1>6, <1>9 DEF IInv

\* A request that arrives may disturb others, and finds due covered at its time.
LEMMA ArriveIInv == ASSUME IInv, NEW r \in Req, Arrive(r) PROVE IInv'
  <1> USE FullNat, RateLimitAssumption
  <1> DEFINE quiet == InProgress = {}
             new == [pc |-> "reading", at |-> now, tokens |-> 0, alone |-> quiet]
  <1>1. \A q \in Req :
          call'[q] = IF q = r THEN new
                     ELSE IF q \in InProgress THEN [call[q] EXCEPT !.alone = FALSE]
                     ELSE call[q]
    BY DEF Arrive
  <1>2. call'[r] = new
    BY <1>1
  <1>3. new.pc = "reading" /\ new.at = now /\ (new.alone <=> quiet)
    OBVIOUS
  <1>4. ASSUME NEW q \in InProgress
        PROVE  /\ call'[q].pc = call[q].pc /\ call'[q].at = call[q].at
               /\ call'[q].tokens = call[q].tokens /\ ~call'[q].alone
    <2>1. q # r /\ q \in Req
      BY DEF Arrive, InProgress
    <2>2. call'[q] = [call[q] EXCEPT !.alone = FALSE]
      BY <1>1, <2>1
    <2> QED BY <2>1, <2>2 DEF IInv, TypeOK
  <1>5. InProgress' = InProgress \cup {r} /\ r \notin InProgress
    <2>1. r \notin InProgress
      BY DEF Arrive, InProgress
    <2>2. ASSUME NEW q \in Req PROVE call'[q].pc # "idle" <=> q \in InProgress \cup {r}
      <3>1. CASE q = r
        BY <3>1, <1>2, <1>3
      <3>2. CASE q # r
        BY <3>2, <1>1, <1>4 DEF InProgress
      <3> QED BY <3>1, <3>2
    <2> QED BY <2>1, <2>2 DEF InProgress
  <1>6. TypeOK'
    <2>1. ASSUME NEW q \in Req
          PROVE  call'[q] \in [pc : {"idle", "reading", "deciding"}, at : 0..MaxTime,
                               tokens : 0..Full, alone : BOOLEAN]
      <3>1. CASE q = r
        <4>1. now \in 0..MaxTime /\ 0 \in 0..Full /\ quiet \in BOOLEAN
          BY DEF IInv, TypeOK
        <4> HIDE DEF quiet
        <4> QED BY <3>1, <4>1, <1>2
      <3>2. CASE q # r
        BY <3>2, <1>1 DEF IInv, TypeOK
      <3> QED BY <3>1, <3>2
    <2>2. call' \in [Req -> [pc : {"idle", "reading", "deciding"}, at : 0..MaxTime,
                             tokens : 0..Full, alone : BOOLEAN]]
      BY <2>1 DEF Arrive
    <2>3. promise' \in Nat /\ calls' \in 0..MaxCalls
      BY DEF IInv, TypeOK, Arrive
    <2> QED BY <2>2, <2>3 DEF IInv, TypeOK, Arrive
  <1>7. UNCHANGED <<now, entry, due, setback>>
    BY DEF Arrive
  <1>8. EntryOK'
    BY <1>7 DEF IInv, EntryOK, FullAt
  <1>9. CallsOK'
    <2>1. now <= now /\ entry.last <= now
      BY DEF IInv, EntryOK, TypeOK
    <2>2. call'[r].at = now /\ (call'[r].alone => InProgress = {})
      BY <1>2, <1>3
    <2> QED BY <1>5, <1>7, <1>4, <2>1, <2>2 DEF IInv, CallsOK
  <1>10. FullAt(entry)' = FullAt(entry)
    BY <1>7 DEF FullAt
  <1>11. Covered'
    BY <1>2, <1>3, <1>5, <1>7, <1>4, <1>10 DEF IInv, Covered
  <1> QED BY <1>6, <1>8, <1>9, <1>11 DEF IInv

\* What r reads is full no earlier than what is due, wherever its clock stands
\* against the entry's stamp and expiry.
LEMMA ReadCovers ==
    ASSUME IInv, NEW r \in Req, ReadBucket(r)
    PROVE  due <= call[r].at + Full - Refilled(call[r].at) + setback'
  <1> USE FullNat, RateLimitAssumption
  <1>1. r \in InProgress /\ call[r].pc = "reading"
    BY DEF ReadBucket, InProgress
  <1>2. /\ call[r].at \in Nat /\ now \in Nat /\ due \in Nat /\ setback \in Nat
        /\ entry.last \in Nat /\ entry.tokens \in 0..Full /\ entry.until \in Nat
    BY DEF IInv, TypeOK
  <1>3. due <= Larger(FullAt(entry), call[r].at) + setback
    BY <1>1 DEF IInv, Covered
  <1>4. now <= call[r].at + Deadline
    BY DEF ReadBucket
  <1>5. CASE Found
    <2>1. setback' = setback + Larger(entry.last - call[r].at, 0)
      BY <1>5 DEF ReadBucket
    <2>2. Refilled(call[r].at) = Smaller(Full, entry.tokens + Larger(call[r].at - entry.last, 0))
      BY <1>5 DEF Refilled, Elapsed
    <2> QED BY <1>2, <1>3, <2>1, <2>2 DEF FullAt, Larger, Smaller
  <1>6. CASE ~Found
    <2>1. setback' = setback /\ Refilled(call[r].at) = Full
      BY <1>6 DEF ReadBucket, Refilled
    <2>2. FullAt(entry) <= call[r].at
      <3>1. CASE entry = Absent
        BY <3>1, <1>2 DEF Absent, FullAt
      <3>2. CASE FullAt(entry) + Deadline <= entry.until
        BY <3>2, <1>2, <1>4, <1>6 DEF Found, FullAt
      <3> QED BY <3>1, <3>2 DEF IInv, EntryOK
    <2> QED BY <1>2, <1>3, <2>1, <2>2 DEF FullAt, Larger
  <1> QED BY <1>5, <1>6

\* A read copies the entry refilled, or finds none and starts from a full bucket.
LEMMA ReadBucketIInv == ASSUME IInv, NEW r \in Req, ReadBucket(r) PROVE IInv'
  <1> USE FullNat, RateLimitAssumption
  <1>1. /\ InProgress' = InProgress /\ r \in InProgress
        /\ call'[r] = [call[r] EXCEPT !.pc = "deciding", !.tokens = Refilled(call[r].at)]
        /\ \A q \in InProgress \ {r} : call'[q] = call[q]
    BY DEF IInv, TypeOK, ReadBucket, InProgress
  <1>2. UNCHANGED <<now, entry, due>> /\ promise' = 0
    BY DEF ReadBucket
  <1>3. setback' \in Nat /\ setback' >= setback /\ setback \in Nat
    BY DEF IInv, TypeOK, ReadBucket, Larger
  <1>4. Refilled(call[r].at) \in 0..Full
    BY RefilledType DEF IInv, TypeOK
  <1>5. /\ call'[r].pc = "deciding" /\ call'[r].at = call[r].at
        /\ call'[r].tokens = Refilled(call[r].at) /\ call'[r].alone = call[r].alone
    BY <1>1 DEF IInv, TypeOK
  <1>6. TypeOK'
    <2>1. call' \in [Req -> [pc : {"idle", "reading", "deciding"}, at : 0..MaxTime,
                             tokens : 0..Full, alone : BOOLEAN]]
      BY <1>4 DEF IInv, TypeOK, ReadBucket
    <2> QED BY <1>2, <1>3, <2>1 DEF IInv, TypeOK, ReadBucket
  <1>7. EntryOK'
    BY <1>2 DEF IInv, EntryOK, FullAt
  <1>8. CallsOK'
    BY <1>1, <1>2, <1>5 DEF IInv, CallsOK
  <1>9. FullAt(entry)' = FullAt(entry) /\ FullAt(entry) \in Int /\ now \in Nat /\ due \in Nat
    BY <1>2 DEF FullAt, IInv, TypeOK
  <1>10. due' <= Larger(FullAt(entry)', now') + setback'
    <2>1. due <= Larger(FullAt(entry), now) + setback
      BY DEF IInv, Covered
    <2>2. Larger(FullAt(entry), now) \in Int
      BY <1>9 DEF Larger
    <2>3. due <= Larger(FullAt(entry), now) + setback'
      BY <2>1, <2>2, <1>3, <1>9
    <2> QED BY <2>3, <1>2, <1>9
  <1>11. due' <= call'[r].at + Full - call'[r].tokens + setback'
    BY <1>2, <1>5, ReadCovers
  <1>12. ASSUME NEW q \in InProgress \ {r}
         PROVE  /\ call[q].pc = "reading" =>
                      due <= Larger(FullAt(entry), call[q].at) + setback'
                /\ call[q].pc = "deciding" =>
                      due <= call[q].at + Full - call[q].tokens + setback'
    <2>1. call[q].at \in Nat /\ call[q].tokens \in Nat
      BY DEF IInv, TypeOK, InProgress
    <2>2. /\ call[q].pc = "reading" =>
                due <= Larger(FullAt(entry), call[q].at) + setback
          /\ call[q].pc = "deciding" =>
                due <= call[q].at + Full - call[q].tokens + setback
      BY DEF IInv, Covered
    <2> QED BY <1>3, <1>9, <2>1, <2>2 DEF Larger
  <1>13. Covered'
    BY <1>1, <1>2, <1>5, <1>9, <1>10, <1>11, <1>12 DEF Covered
  <1> QED BY <1>6, <1>7, <1>8, <1>13 DEF IInv

\* A failed read ends the request or admits it unlimited.
LEMMA ReadFailsIInv ==
    ASSUME IInv, NEW r \in Req, ReadFailsClosed(r) \/ ReadFailsOpen(r) PROVE IInv'
  <1>1. Answered(r) /\ UNCHANGED <<now, entry, setback, due>>
    BY DEF ReadFailsClosed, ReadFailsOpen, GrantedUnrecorded, history
  <1>2. EntryOK' /\ CallsOK' /\ Covered'
    BY <1>1, AnswerKeeps
  <1>3. TypeOK'
    <2>1. due' \in Nat /\ dueAll' \in Nat
      BY GrantType DEF ReadFailsClosed, ReadFailsOpen, history, IInv, TypeOK
    <2> QED BY <1>1, <2>1, AnsweredProgress
            DEF IInv, TypeOK, ReadFailsClosed, ReadFailsOpen, history
  <1> QED BY <1>2, <1>3 DEF IInv

\* What an undisturbed admission charges is covered by the bucket it writes, and
\* lies within Full of its own time.
LEMMA GrantCovers ==
    ASSUME IInv, NEW r \in Req, call[r].pc = "deciding", call[r].tokens >= Period, Granted(r)
    PROVE  /\ due' \in Nat
           /\ due' <= call[r].at + Full - (call[r].tokens - Period) + setback
           /\ due' # due => call[r].alone /\ due' <= call[r].at + Full + setback
  <1> USE FullNat, RateLimitAssumption
  <1>1. r \in InProgress
    BY DEF InProgress
  <1>2. due <= call[r].at + Full - call[r].tokens + setback
    BY <1>1 DEF IInv, Covered
  <1>3. call[r].at \in Nat /\ call[r].tokens \in 0..Full /\ due \in Nat /\ setback \in Nat
    BY DEF IInv, TypeOK
  <1>4. CASE call[r].alone
    <2>1. due' = Larger(due, call[r].at) + Period
      BY <1>4 DEF Granted, Charge
    <2> QED BY <1>2, <1>3, <1>4, <2>1 DEF Larger
  <1>5. CASE ~call[r].alone
    <2>1. due' = due
      BY <1>5 DEF Granted
    <2> QED BY <1>2, <1>3, <2>1
  <1> QED BY <1>4, <1>5

\* A grant that is written.
LEMMA AdmitIInv == ASSUME IInv, NEW r \in Req, Admit(r) PROVE IInv'
  <1>1. /\ call[r].pc = "deciding" /\ call[r].tokens >= Period /\ Granted(r) /\ Answered(r)
        /\ Persisted(r, call[r].tokens - Period) /\ UNCHANGED <<now, setback>>
    BY DEF Admit
  <1>2. call[r].tokens - Period \in 0..Full
    BY <1>1, FullNat, RateLimitAssumption DEF IInv, TypeOK
  <1>3. due' = due \/ call[r].alone
    BY <1>1, GrantCovers
  <1>4. EntryOK' /\ CallsOK' /\ Covered'
    BY <1>1, <1>2, <1>3, GrantCovers, WriteCovers
  <1>5. TypeOK'
    <2>1. due' \in Nat /\ dueAll' \in Nat
      BY <1>1, GrantType DEF IInv
    <2>2. entry' \in [tokens : 0..Full, last : 0..MaxTime, until : 0..(MaxTime + TTL)]
      BY <1>1, <1>2, EntryType DEF IInv
    <2> QED BY <1>1, <2>1, <2>2, AnsweredProgress DEF IInv, TypeOK, Admit
  <1> QED BY <1>4, <1>5 DEF IInv

\* A grant whose write fails: the entry stays behind.
LEMMA AdmitUnpersistedIInv == ASSUME IInv, NEW r \in Req, AdmitUnpersisted(r) PROVE IInv'
  <1> USE FullNat, RateLimitAssumption
  <1>1. /\ call[r].pc = "deciding" /\ call[r].tokens >= Period
        /\ GrantedUnrecorded(r) /\ Answered(r) /\ UNCHANGED <<now, setback, due>>
        /\ UNCHANGED entry \/ Persisted(r, call[r].tokens - Period)
    BY DEF AdmitUnpersisted, GrantedUnrecorded
  <1>2. /\ call[r].tokens - Period \in 0..Full /\ call[r].tokens \in 0..Full
        /\ call[r].at \in Nat /\ due \in Nat /\ setback \in Nat
    BY <1>1 DEF IInv, TypeOK
  <1>3. due <= call[r].at + Full - call[r].tokens + setback
    BY <1>1 DEF IInv, Covered, InProgress
  <1>4. due' <= call[r].at + Full - (call[r].tokens - Period) + setback
    BY <1>1, <1>2, <1>3
  <1>5. EntryOK' /\ CallsOK' /\ Covered'
    BY <1>1, <1>2, <1>4, AnswerKeeps, WriteCovers
  <1>6. TypeOK'
    <2>1. due' \in Nat /\ dueAll' \in Nat
      BY <1>1, GrantType DEF IInv
    <2>2. entry' \in [tokens : 0..Full, last : 0..MaxTime, until : 0..(MaxTime + TTL)]
      BY <1>1, <1>2, EntryType DEF IInv, TypeOK
    <2> QED BY <1>1, <2>1, <2>2, AnsweredProgress DEF IInv, TypeOK, AdmitUnpersisted
  <1> QED BY <1>5, <1>6 DEF IInv

\* A refusal, written or not, takes no token.
LEMMA DenyIInv ==
    ASSUME IInv, NEW r \in Req, Deny(r) \/ DenyUnpersisted(r) PROVE IInv'
  <1>1. /\ call[r].pc = "deciding" /\ Answered(r) /\ UNCHANGED <<now, setback, due>>
        /\ UNCHANGED entry \/ Persisted(r, call[r].tokens)
    BY DEF Deny, DenyUnpersisted
  <1>2. call[r].tokens \in 0..Full
    BY DEF IInv, TypeOK
  <1>3. due' \in Nat /\ due' <= call[r].at + Full - call[r].tokens + setback
    BY <1>1 DEF IInv, TypeOK, Covered, InProgress
  <1>4. EntryOK' /\ CallsOK' /\ Covered'
    BY <1>1, <1>2, <1>3, AnswerKeeps, WriteCovers
  <1>5. TypeOK'
    <2>1. entry' \in [tokens : 0..Full, last : 0..MaxTime, until : 0..(MaxTime + TTL)]
      BY <1>1, <1>2, EntryType DEF IInv, TypeOK
    <2>2. promise' \in Nat
      BY <1>2, PromiseType DEF Deny, DenyUnpersisted, IInv
    <2> QED BY <1>1, <2>1, <2>2, AnsweredProgress DEF IInv, TypeOK, Deny, DenyUnpersisted
  <1> QED BY <1>4, <1>5 DEF IInv

\* Every step preserves the invariant.
LEMMA NextIInv == IInv /\ [Next]_vars => IInv'
  <1> SUFFICES ASSUME IInv, [Next]_vars PROVE IInv'
    OBVIOUS
  <1>1. CASE Tick
    BY <1>1, TickIInv
  <1>2. CASE \E r \in Req : RequestStep(r)
    <2> PICK r \in Req : RequestStep(r)
      BY <1>2
    <2> QED BY ArriveIInv, ReadBucketIInv, ReadFailsIInv, AdmitIInv, AdmitUnpersistedIInv, DenyIInv
            DEF RequestStep
  <1>3. CASE UNCHANGED vars
    BY <1>3 DEF vars, history, IInv, TypeOK, EntryOK, CallsOK, Covered, InProgress, FullAt
  <1> QED BY <1>1, <1>2, <1>3 DEF Next

\* The invariant holds in every reachable state.
LEMMA Invariance == Spec => []IInv
  BY InitIInv, NextIInv, PTL DEF Spec

\* The limiter's variables keep their types.
THEOREM RateLimitTypeCorrect == Spec => []TypeOK
  <1>1. IInv => TypeOK
    BY DEF IInv
  <1> QED BY <1>1, Invariance, PTL

\* The step property of NeverLooser, from the invariant.
LEMMA GrantWithinBucket ==
    IInv /\ [Next]_vars =>
        [\A r \in Req :
            call[r].pc # "idle" /\ call'[r].pc = "idle" /\ due' # due
            => due' <= call[r].at + Full + setback]_vars
  <1> SUFFICES ASSUME IInv, [Next]_vars, NEW r \in Req,
                      call[r].pc # "idle", call'[r].pc = "idle", due' # due
               PROVE  due' <= call[r].at + Full + setback
    OBVIOUS
  <1>1. PICK q \in Req : Admit(q)
    BY DEF Next, Tick, RequestStep, Arrive, ReadBucket, ReadFailsClosed, ReadFailsOpen,
           AdmitUnpersisted, Deny, DenyUnpersisted, GrantedUnrecorded, vars, history
  <1>2. q = r
    BY <1>1 DEF Admit, Answered, IInv, TypeOK
  <1> QED BY <1>1, <1>2, GrantCovers DEF Admit

\* Undisturbed requests never get more than the configured rate, for any bucket,
\* deadline, number of requests, and any lifetime that outlasts a full refill
\* by the deadline (enforceBucket and enforceBucketFailClosed).
THEOREM ConfiguredRateHolds == Spec => NeverLooser
  BY Invariance, GrantWithinBucket, PTL DEF Spec, NeverLooser

-----------------------------------------------------------------------------
(***************************************************************************)
(* The other direction: the stored bucket is never full later than one that*)
(* is charged with every admission.                                        *)
(***************************************************************************)
Charged ==
    /\ FullAt(entry) <= Larger(dueAll, entry.last)
    /\ \A r \in InProgress : call[r].pc = "deciding" =>
          call[r].at + Full - call[r].tokens <= Larger(dueAll, call[r].at)

\* What r reads lacks no more than all admissions took.
LEMMA ReadCharged ==
    ASSUME TypeOK, Charged, NEW r \in Req, ReadBucket(r)
    PROVE  call[r].at + Full - Refilled(call[r].at) <= Larger(dueAll, call[r].at)
  <1> USE FullNat
  <1>1. /\ call[r].at \in Nat /\ dueAll \in Nat
        /\ entry.last \in Nat /\ entry.tokens \in 0..Full
    BY DEF TypeOK
  <1>2. entry.last + Full - entry.tokens <= Larger(dueAll, entry.last)
    BY DEF Charged, FullAt
  <1>3. CASE Found
    <2>1. Refilled(call[r].at) = Smaller(Full, entry.tokens + Larger(call[r].at - entry.last, 0))
      BY <1>3 DEF Refilled, Elapsed
    <2> QED BY <1>1, <1>2, <2>1 DEF Larger, Smaller
  <1>4. CASE ~Found
    BY <1>1, <1>4 DEF Refilled, Larger
  <1> QED BY <1>3, <1>4

\* A write after the read: admitted, the token is charged; refused, nothing is.
LEMMA WriteCharged ==
    ASSUME TypeOK, Charged, NEW r \in Req, call[r].pc = "deciding", Answered(r),
           NEW t \in Nat, UNCHANGED entry \/ Persisted(r, t),
           \/ t = call[r].tokens /\ dueAll' = dueAll
           \/ t = call[r].tokens - Period /\ dueAll' = Charge(dueAll, call[r].at)
    PROVE  Charged'
  <1> USE FullNat, RateLimitAssumption
  <1>1. /\ InProgress' = InProgress \ {r} /\ r \in InProgress
        /\ \A q \in InProgress \ {r} : call'[q] = call[q]
    BY AnsweredProgress DEF InProgress
  <1>2. /\ call[r].at \in Nat /\ call[r].tokens \in 0..Full /\ dueAll \in Nat /\ Period \in Nat
        /\ entry.last \in Nat /\ entry.tokens \in 0..Full
    BY DEF TypeOK
  <1>3. dueAll' \in Nat /\ dueAll' >= dueAll
    BY <1>2 DEF Charge, Larger
  <1>4. call[r].at + Full - call[r].tokens <= Larger(dueAll, call[r].at)
    BY <1>1 DEF Charged
  <1>5. FullAt(entry)' <= Larger(dueAll', entry'.last)
    <2>1. CASE UNCHANGED entry
      <3>1. entry.last + Full - entry.tokens <= Larger(dueAll, entry.last)
        BY DEF Charged, FullAt
      <3> QED BY <1>2, <1>3, <2>1, <3>1 DEF FullAt, Larger
    <2>2. CASE Persisted(r, t)
      <3>1. entry'.last = call[r].at /\ entry'.tokens = t
        BY <2>2 DEF Persisted
      <3>2. FullAt(entry)' = call[r].at + Full - t
        BY <3>1 DEF FullAt
      <3>3. CASE t = call[r].tokens /\ dueAll' = dueAll
        BY <1>2, <1>4, <3>1, <3>2, <3>3
      <3>4. CASE t = call[r].tokens - Period /\ dueAll' = Charge(dueAll, call[r].at)
        BY <1>2, <1>4, <3>1, <3>2, <3>4 DEF Charge, Larger
      <3> QED BY <3>3, <3>4
    <2> QED BY <2>1, <2>2
  <1>6. ASSUME NEW q \in InProgress \ {r}, call[q].pc = "deciding"
        PROVE  call[q].at + Full - call[q].tokens <= Larger(dueAll', call[q].at)
    <2>1. call[q].at \in Nat /\ call[q].tokens \in 0..Full
      BY DEF TypeOK, InProgress
    <2>2. call[q].at + Full - call[q].tokens <= Larger(dueAll, call[q].at)
      BY <1>6 DEF Charged
    <2> QED BY <1>2, <1>3, <2>1, <2>2 DEF Larger
  <1> QED BY <1>1, <1>5, <1>6 DEF Charged

\* Every step preserves it.
LEMMA NextCharged == TypeOK /\ Charged /\ [Next]_vars => Charged'
  <1> SUFFICES ASSUME TypeOK, Charged, [Next]_vars PROVE Charged'
    OBVIOUS
  <1> USE FullNat, RateLimitAssumption
  <1>1. CASE Tick \/ UNCHANGED vars
    BY <1>1 DEF Tick, vars, history, Charged, FullAt, InProgress
  <1>2. ASSUME NEW r \in Req, RequestStep(r)
        PROVE  Charged'
    <2>1. CASE Arrive(r)
      <3>1. /\ \A q \in Req : call'[q].pc = "deciding" =>
                  /\ q \in InProgress /\ call[q].pc = "deciding"
                  /\ call'[q].at = call[q].at /\ call'[q].tokens = call[q].tokens
            /\ UNCHANGED <<entry, dueAll>>
        BY <2>1 DEF Arrive, TypeOK, InProgress
      <3> QED BY <3>1 DEF Charged, FullAt, InProgress
    <2>2. CASE ReadBucket(r)
      <3>1. /\ InProgress' = InProgress
            /\ call'[r].at = call[r].at /\ call'[r].tokens = Refilled(call[r].at)
            /\ \A q \in InProgress \ {r} : call'[q] = call[q]
            /\ UNCHANGED <<entry, dueAll>>
        BY <2>2 DEF ReadBucket, TypeOK, InProgress
      <3>2. call[r].at + Full - Refilled(call[r].at) <= Larger(dueAll, call[r].at)
        BY <2>2, ReadCharged
      <3> QED BY <3>1, <3>2 DEF Charged, FullAt
    <2>3. CASE ReadFailsClosed(r) \/ ReadFailsOpen(r)
      <3>1. Answered(r) /\ UNCHANGED entry
        BY <2>3 DEF ReadFailsClosed, ReadFailsOpen
      <3>2. /\ InProgress' = InProgress \ {r}
            /\ \A q \in InProgress \ {r} : call'[q] = call[q]
        BY <3>1, AnsweredProgress
      <3>3. call[r].at \in Nat /\ dueAll \in Nat /\ Period \in Nat
        BY DEF TypeOK
      <3>4. dueAll' \in Nat /\ dueAll' >= dueAll
        BY <2>3, <3>3
           DEF ReadFailsClosed, ReadFailsOpen, GrantedUnrecorded, Charge, Larger, history
      <3>5. entry.last \in Nat /\ FullAt(entry) \in Int
        BY DEF TypeOK, FullAt
      <3>6. FullAt(entry)' <= Larger(dueAll', entry'.last)
        BY <3>1, <3>3, <3>4, <3>5 DEF Charged, FullAt, Larger
      <3>7. ASSUME NEW q \in InProgress \ {r}, call[q].pc = "deciding"
            PROVE  call[q].at + Full - call[q].tokens <= Larger(dueAll', call[q].at)
        <4>1. call[q].at \in Nat /\ call[q].tokens \in 0..Full
          BY DEF TypeOK, InProgress
        <4>2. call[q].at + Full - call[q].tokens <= Larger(dueAll, call[q].at)
          BY <3>7 DEF Charged
        <4> QED BY <3>3, <3>4, <4>1, <4>2 DEF Larger
      <3> QED BY <3>2, <3>6, <3>7 DEF Charged
    <2>4. CASE Admit(r) \/ AdmitUnpersisted(r)
      <3>1. call[r].tokens - Period \in Nat
        BY <2>4 DEF Admit, AdmitUnpersisted, TypeOK
      <3> QED BY <2>4, <3>1, WriteCharged
              DEF Admit, AdmitUnpersisted, Granted, GrantedUnrecorded
    <2>5. CASE Deny(r) \/ DenyUnpersisted(r)
      <3>1. call[r].tokens \in Nat
        BY DEF TypeOK
      <3> QED BY <2>5, <3>1, WriteCharged DEF Deny, DenyUnpersisted
    <2> QED BY <1>2, <2>1, <2>2, <2>3, <2>4, <2>5 DEF RequestStep
  <1> QED BY <1>1, <1>2 DEF Next

\* A full bucket is charged nothing.
LEMMA InitCharged == Init => Charged
  <1> SUFFICES ASSUME Init PROVE Charged
    OBVIOUS
  <1>1. InProgress = {}
    BY DEF Init, InProgress, Idle
  <1> QED BY <1>1, FullNat DEF Init, Charged, FullAt, Absent, Larger

\* Nobody is refused while the configured bucket, charged with every admission,
\* still has a token, whatever overlaps, fails or expires.
THEOREM NobodyRefusedBelowRate == Spec => NeverStricter
  <1>1. TypeOK /\ Charged /\ [Next]_vars =>
          [\A r \in Req :
              Decides(r) /\ call'[r].tokens < Period
              => dueAll + Period > call[r].at + Full]_vars
    <2> SUFFICES ASSUME TypeOK, Charged, [Next]_vars, NEW r \in Req,
                        Decides(r), call'[r].tokens < Period
                 PROVE  dueAll + Period > call[r].at + Full
      OBVIOUS
    <2>1. PICK q \in Req : ReadBucket(q)
      BY DEF Decides, Next, Tick, RequestStep, Arrive, ReadFailsClosed, ReadFailsOpen, Admit,
             AdmitUnpersisted, Deny, DenyUnpersisted, Answered, Idle, vars, history, TypeOK,
             InProgress
    <2>2. q = r /\ call'[r].tokens = Refilled(call[r].at)
      BY <2>1 DEF ReadBucket, Decides, TypeOK
    <2>3. call[r].at + Full - Refilled(call[r].at) <= Larger(dueAll, call[r].at)
      BY <2>1, <2>2, ReadCharged
    <2>4. /\ call[r].at \in 0..MaxTime /\ call[r].at \in Nat /\ dueAll \in Nat
          /\ Period \in Nat /\ Full \in Nat /\ Full >= Period
      BY FullNat, RateLimitAssumption DEF TypeOK
    <2>5. Refilled(call[r].at) \in 0..Full
      BY <2>4, RefilledType
    <2> QED BY <2>2, <2>3, <2>4, <2>5 DEF Larger
  <1> QED BY <1>1, InitCharged, NextCharged, RateLimitTypeCorrect, PTL DEF Spec, NeverStricter

-----------------------------------------------------------------------------
(***************************************************************************)
(* Retry-After.                                                            *)
(***************************************************************************)
\* An undisturbed request that has read the bucket still stands for it, and a
\* promise holds of the bucket and of every request that came after it.
Promised ==
    /\ \A r \in InProgress :
          call[r].pc = "deciding" /\ call[r].alone /\ call[r].tokens < Full
          => FullAt(entry) <= call[r].at + Full - call[r].tokens
    /\ promise # 0 =>
          /\ FullAt(entry) <= promise + Full - Period
          /\ \A r \in InProgress : call[r].pc = "reading" /\ call[r].at >= promise

\* Retry-After is rounded up: it covers what is missing to a whole token.
LEMMA RetryAfterCovers ==
    ASSUME NEW tokens \in Nat
    PROVE  RetryAfter(tokens) \in Int /\ RetryAfter(tokens) >= Period - tokens
  <1> DEFINE x == Period - tokens + Second - 1
             q == x \div Second
             m == Larger(1, q)
  <1>1. x \in Int /\ Second \in Nat /\ Second > 0 /\ Period \in Nat
    BY RateLimitAssumption
  <1>2. q \in Int /\ x = Second * q + (x % Second) /\ x % Second \in 0..(Second - 1)
    BY <1>1
  <1>3. m \in Int /\ m >= q
    BY <1>2 DEF Larger
  <1>4. Second * m >= Second * q
    BY <1>1, <1>2, <1>3
  <1>5. x - (Second - 1) <= Second * q
    <2> HIDE DEF x, q
    <2> QED BY <1>1, <1>2
  <1>6. Second * m \in Int /\ Second * q \in Int
    BY <1>1, <1>2, <1>3
  <1>7. Second * m >= Period - tokens
    <2> HIDE DEF q, m
    <2> QED BY <1>1, <1>4, <1>5, <1>6
  <1> QED BY <1>6, <1>7 DEF RetryAfter

\* An arrival before the promised time drops the promise, a later one keeps it.
LEMMA ArrivePromised ==
    ASSUME IInv, Promised, NEW r \in Req, Arrive(r) PROVE Promised'
  <1>1. /\ UNCHANGED <<now, entry>>
        /\ promise' = IF now < promise THEN 0 ELSE promise
        /\ now \in Nat /\ promise \in Nat
    BY DEF Arrive, IInv, TypeOK
  <1>2. \A q \in InProgress' :
          /\ call'[q].pc = "deciding" => ~call'[q].alone
          /\ \/ q = r /\ call'[q].pc = "reading" /\ call'[q].at = now
             \/ q \in InProgress /\ call'[q].pc = call[q].pc /\ call'[q].at = call[q].at
    BY DEF Arrive, IInv, TypeOK, InProgress
  <1>3. FullAt(entry)' = FullAt(entry)
    BY <1>1 DEF FullAt
  <1> QED BY <1>1, <1>2, <1>3 DEF Promised

\* A read sees the bucket the promise was made about.
LEMMA ReadBucketPromised ==
    ASSUME IInv, Promised, NEW r \in Req, ReadBucket(r) PROVE Promised'
  <1> USE FullNat
  <1>1. /\ InProgress' = InProgress /\ r \in InProgress
        /\ call'[r].pc = "deciding" /\ call'[r].at = call[r].at
        /\ call'[r].tokens = Refilled(call[r].at) /\ call'[r].alone = call[r].alone
        /\ \A q \in InProgress \ {r} : call'[q] = call[q]
        /\ UNCHANGED entry /\ promise' = 0
    BY DEF ReadBucket, IInv, TypeOK, InProgress
  <1>2. ASSUME call[r].alone, Refilled(call[r].at) < Full
        PROVE  FullAt(entry) <= call[r].at + Full - Refilled(call[r].at)
    <2>1. entry.last <= call[r].at
      BY <1>1, <1>2 DEF IInv, CallsOK
    <2>2. entry.last \in Nat /\ entry.tokens \in 0..Full /\ call[r].at \in Nat
      BY DEF IInv, TypeOK
    <2>3. Refilled(call[r].at) = Smaller(Full, entry.tokens + Larger(call[r].at - entry.last, 0))
      BY <1>2, FullNat DEF Refilled, Elapsed
    <2> QED BY <1>2, <2>1, <2>2, <2>3 DEF FullAt, Larger, Smaller
  <1>3. FullAt(entry)' = FullAt(entry)
    BY <1>1 DEF FullAt
  <1> QED BY <1>1, <1>2, <1>3 DEF Promised

\* Steps that answer r and leave promise alone; only a read failure, which
\* leaves the entry alone too, can meet a promise.
LEMMA AnswerPromised ==
    ASSUME IInv, Promised, NEW r \in Req, Answered(r), r \in InProgress, promise' = promise,
           UNCHANGED entry \/ call[r].pc = "deciding"
    PROVE  Promised'
  <1>1. /\ InProgress' = InProgress \ {r}
        /\ \A q \in InProgress \ {r} : call'[q] = call[q]
    BY AnsweredProgress DEF IInv
  <1>2. ASSUME NEW q \in InProgress \ {r} PROVE ~call[q].alone
    BY <1>2 DEF IInv, CallsOK
  <1>3. promise # 0 => UNCHANGED entry
    BY DEF Promised
  <1>4. UNCHANGED entry => FullAt(entry)' = FullAt(entry)
    BY DEF FullAt
  <1> QED BY <1>1, <1>2, <1>3, <1>4 DEF Promised

\* A refusal makes a new promise, long enough for the bucket it saw.
LEMMA DenyPromised ==
    ASSUME IInv, Promised, NEW r \in Req, Deny(r) \/ DenyUnpersisted(r) PROVE Promised'
  <1> USE FullNat, RateLimitAssumption
  <1>1. /\ call[r].pc = "deciding" /\ call[r].tokens < Period /\ Answered(r)
        /\ UNCHANGED entry \/ Persisted(r, call[r].tokens)
        /\ r \in InProgress
    BY DEF Deny, DenyUnpersisted, InProgress
  <1>2. /\ InProgress' = InProgress \ {r}
        /\ \A q \in InProgress \ {r} : call'[q] = call[q] /\ ~call[q].alone
    BY <1>1, AnsweredProgress DEF IInv, CallsOK
  <1>3. CASE promise' = 0
    BY <1>2, <1>3 DEF Promised
  <1>4. CASE promise' # 0
    <2>1. promise' = now + RetryAfter(call[r].tokens) /\ InProgress = {r}
      BY <1>1, <1>4 DEF Deny, DenyUnpersisted, IInv, CallsOK
    <2>2. /\ call[r].at \in Nat /\ call[r].tokens \in Nat /\ now \in Nat
          /\ call[r].at <= now
      BY <1>1 DEF IInv, TypeOK, CallsOK
    <2>3. FullAt(entry)' <= call[r].at + Full - call[r].tokens
      <3>1. CASE Persisted(r, call[r].tokens)
        <4>1. FullAt(entry)' = call[r].at + Full - call[r].tokens
          BY <3>1 DEF Persisted, FullAt
        <4> QED BY <2>2, <4>1
      <3>2. CASE UNCHANGED entry /\ ~Persisted(r, call[r].tokens)
        <4>1. call[r].alone
          BY <1>4, <3>2 DEF Deny, DenyUnpersisted
        <4>2. FullAt(entry)' = FullAt(entry)
          BY <3>2 DEF FullAt
        <4> QED BY <1>1, <2>2, <4>1, <4>2 DEF Promised
      <3> QED BY <1>1, <3>1, <3>2
    <2>4. RetryAfter(call[r].tokens) \in Int /\ RetryAfter(call[r].tokens) >= Period - call[r].tokens
      BY <2>2, RetryAfterCovers
    <2>5. FullAt(entry)' \in Int
      BY <1>1, <2>2 DEF FullAt, Persisted, IInv, TypeOK
    <2>6. FullAt(entry)' <= promise' + Full - Period
      BY <2>1, <2>2, <2>3, <2>4, <2>5
    <2> QED BY <1>2, <2>1, <2>6 DEF Promised
  <1> QED BY <1>3, <1>4

\* Every step keeps the promises.
LEMMA NextPromised == IInv /\ Promised /\ [Next]_vars => Promised'
  <1> SUFFICES ASSUME IInv, Promised, [Next]_vars PROVE Promised'
    OBVIOUS
  <1>1. CASE Tick \/ UNCHANGED vars
    BY <1>1 DEF Tick, vars, history, Promised, FullAt, InProgress
  <1>2. ASSUME NEW r \in Req, RequestStep(r)
        PROVE  Promised'
    <2>1. CASE \/ ReadFailsClosed(r) \/ ReadFailsOpen(r)
               \/ Admit(r) \/ AdmitUnpersisted(r)
      BY <2>1, AnswerPromised
         DEF ReadFailsClosed, ReadFailsOpen, Admit, AdmitUnpersisted, InProgress, history
    <2> QED BY <1>2, <2>1, ArrivePromised, ReadBucketPromised, DenyPromised DEF RequestStep
  <1> QED BY <1>1, <1>2 DEF Next

\* Nothing is promised at first.
LEMMA InitPromised == Init => Promised
  BY DEF Init, Promised, InProgress, Idle

\* A client that is alone, waits out its Retry-After and asks again alone finds a
\* token, though its refusal may never have been written.
THEOREM RetryAfterIsEnough == Spec => RetryAfterHonest
  <1>1. IInv /\ Promised /\ [Next]_vars =>
          [\A r \in Req :
              Decides(r) /\ call[r].alone /\ promise # 0
              => call'[r].tokens >= Period]_vars
    <2> SUFFICES ASSUME IInv, Promised, [Next]_vars, NEW r \in Req,
                        Decides(r), call[r].alone, promise # 0
                 PROVE  call'[r].tokens >= Period
      OBVIOUS
    <2>1. PICK q \in Req : ReadBucket(q)
      BY DEF Decides, Next, Tick, RequestStep, Arrive, ReadFailsClosed, ReadFailsOpen, Admit,
             AdmitUnpersisted, Deny, DenyUnpersisted, Answered, Idle, vars, history, IInv,
             TypeOK, InProgress
    <2>2. q = r /\ call'[r].tokens = Refilled(call[r].at)
      BY <2>1 DEF ReadBucket, Decides, IInv, TypeOK
    <2>3. entry.last <= call[r].at /\ call[r].at >= promise
      BY DEF Decides, InProgress, IInv, CallsOK, Promised
    <2>4. entry.last + Full - entry.tokens <= promise + Full - Period
      BY DEF Promised, FullAt
    <2>5. /\ call[r].at \in Nat /\ entry.last \in Nat /\ entry.tokens \in 0..Full
          /\ promise \in Nat /\ Period \in Nat
      BY RateLimitAssumption DEF IInv, TypeOK
    <2>6. Refilled(call[r].at) =
            IF Found THEN Smaller(Full, entry.tokens + Larger(call[r].at - entry.last, 0)) ELSE Full
      BY DEF Refilled, Elapsed
    <2> QED BY <2>2, <2>3, <2>4, <2>5, <2>6, FullNat DEF Larger, Smaller
  <1> QED BY <1>1, InitPromised, NextPromised, Invariance, PTL DEF Spec, RetryAfterHonest
=============================================================================
