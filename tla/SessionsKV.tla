----------------------------- MODULE SessionsKV -----------------------------
(***************************************************************************)
(* The KV namespace "fleet-kv-sessions" as backend/pkg/cfclient/kv.go      *)
(* writes it and as the Go API and the FleetHub Durable Object read it.    *)
(* Only presence matters to either reader (the value is always "1"), so an *)
(* entry is the tick at which it expires.                                  *)
(*                                                                         *)
(* Time is counted in ticks, Second of them to a second: token lifetimes   *)
(* end on whole seconds and KV lifetimes last whole seconds, but requests  *)
(* happen in between, which is where a truncated lifetime shows.           *)
(***************************************************************************)
EXTENDS Integers

CONSTANTS
    Token,      \* the jti values Issue can mint
    Second,     \* ticks in a second
    KVMinTTL,   \* kvMinTTL: the shortest lifetime KV accepts, in ticks
    MaxTime     \* bound on the clock, for model checking

ASSUME KVAssumption ==
    /\ Second \in Nat \ {0}
    /\ KVMinTTL \in Nat /\ KVMinTTL >= Second     \* a minute
    /\ MaxTime \in Nat

VARIABLES
    now,        \* the wall clock every process shares
    kv          \* kv[k]: when entry k expires; 0 when it was never written

\* The Go API prefixes its keys (auth_usecase.go), the Durable Object reads
\* bare ones (fleet-hub.ts): two families of keys in one namespace.
Key == {"bl", "jti"} \X Token

\* KVClient.Get and KVNamespace.get: an entry past its expiry is not found.
Found(k) == kv[k] > now

FloorSecond(t) == t - (t % Second)

StoredTTL_Milliseconds(ttl) == 1000 * FloorSecond(IF ttl < KVMinTTL THEN KVMinTTL ELSE ttl)

\* Put's lifetime: raised to kvMinTTL, then truncated to whole seconds.
StoredTTL(ttl) == FloorSecond(IF ttl < KVMinTTL THEN KVMinTTL ELSE ttl)

\* Put(key, "1", ttl) reaching the store; every caller passes ttl > 0.
Put(k, ttl) == kv' = [kv EXCEPT ![k] = now + StoredTTL(ttl)]

Tick == now < MaxTime /\ now' = now + 1
=============================================================================
