------------------------------ MODULE CounterKV ------------------------------
(***************************************************************************)
(* Counters in Workers KV, one per window of UTC time: what the global     *)
(* limiter (middleware/ratelimit_global.go over middleware/kvstorage.go)   *)
(* and the photo quota (usecase/photo_usecase.go) keep.  KV has no         *)
(* increment: a counter is read, and written back by a later call, with a  *)
(* lifetime.                                                               *)
(*                                                                         *)
(* The clock counts minutes.  A request lives at most requestDeadline      *)
(* (10 s), so it sees at most one minute turn.                             *)
(***************************************************************************)
EXTENDS Integers

CONSTANTS
    MinutesPerDay,
    MaxTime     \* bound on the clock, for model checking

ASSUME CounterAssumption ==
    /\ MinutesPerDay \in Nat \ {0}
    /\ MaxTime \in Nat

VARIABLES
    now,        \* the container's clock
    kv          \* kv[k]: the count under key k and when the entry expires

\* rl-global-min:{ip}:{minute}, rl-global-day:{ip}:{date}, quota:{vehicle}:{date},
\* for one address and one vehicle.
Key == {"minute", "day", "quota"} \X (0..MaxTime)

MinuteKey(t) == <<"minute", t>>
DayKey(t) == <<"day", t \div MinutesPerDay>>
QuotaKey(t) == <<"quota", t \div MinutesPerDay>>

Absent == [n |-> 0, until |-> 0]

\* KVClient.Get: no entry, or an expired one, counts as zero for every reader.
Count(k) == IF kv[k].until > now THEN kv[k].n ELSE 0

\* KVClient.Put reaching the store.
Put(k, n, ttl) == kv' = [kv EXCEPT ![k] = [n |-> n, until |-> now + ttl]]

Tick == now < MaxTime /\ now' = now + 1
=============================================================================
