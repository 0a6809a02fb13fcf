------------------------------ MODULE HotStore ------------------------------
(***************************************************************************)
(* The key-value store, twice. The program runs on one of two              *)
(* implementations, Redis or a map in its own process; here every call is  *)
(* made on both. `redis' is what RedisStore gets from the server: a key    *)
(* is gone when its time comes. `entries' is the map of MemoryStore: an    *)
(* expired entry stays until somebody looks at it.                         *)
(*                                                                         *)
(* A key holds at most one record, and a set of at most one is how an      *)
(* absent one is told. The calls the program makes on values are here (the *)
(* sorted sets are KeyPool's); locks, patterns and flushes are in the      *)
(* interface and nobody calls them. The clock counts whole seconds, which  *)
(* is what the program's times to live are: how a part of a second is      *)
(* rounded, by ttl on both sides and by Redis alone, is not told apart.    *)
(***************************************************************************)
EXTENDS Integers

CONSTANTS Keys, MaxTime  \* bound: the clock

ASSUME ClockAssumption == MaxTime \in Nat

VARIABLES now, entries, redis

stores == <<now, entries, redis>>

\* expiresAtMs = null.
Never == -1

Alive(entry, time) == entry.expires = Never \/ entry.expires > time

\* Slip: alive at the very millisecond it expires.
liveTooLong(key) == {entry \in entries[key] : Alive(entry, now - 1)}

\* MemoryStore.live.
live(key) == {entry \in entries[key] : Alive(entry, now)}

\* What a read returns: no value or one.
Values(key) == {entry.value : entry \in redis[key]}

StoresInit(found) ==
  /\ now = 0 /\ entries = found /\ redis = found

\* The server expires keys by itself.
Tick ==
  /\ now < MaxTime
  /\ now' = now + 1
  /\ redis' = [key \in Keys |-> {entry \in redis[key] : Alive(entry, now')}]
  /\ entries' = entries

\* get, exists, ttl: the map drops what it finds expired.
Touch(key) ==
  /\ entries' = [entries EXCEPT ![key] = live(key)]
  /\ UNCHANGED <<now, redis>>

\* setex: Redis refuses a time to live below one second.
Setex(key, ttl, value) ==
  /\ entries' = [entries EXCEPT ![key] = {[value |-> value, expires |-> now + ttl]}]
  /\ redis' = [redis EXCEPT
       ![key] = {[value |-> value, expires |-> now + (IF ttl < 1 THEN 1 ELSE ttl)]}]
  /\ now' = now

\* The expiry a call finds under a key.
Expiries(found) == IF found = {} THEN {Never} ELSE {entry.expires : entry \in found}

\* set: the map keeps the time to live it finds, and Redis drops it.
Set(key, value) ==
  /\ entries' = [entries EXCEPT
       ![key] = {[value |-> value, expires |-> expiry] : expiry \in Expiries(live(key))}]
  /\ redis' = [redis EXCEPT ![key] = {[value |-> value, expires |-> Never]}]
  /\ now' = now

\* incrby: an absent key counts from zero and has no expiry; a live one keeps
\* its own.
Counted(found) ==
  IF found = {} THEN {[value |-> 1, expires |-> Never]}
  ELSE {[value |-> entry.value + 1, expires |-> entry.expires] : entry \in found}

Incrby(key) ==
  /\ entries' = [entries EXCEPT ![key] = Counted(live(key))]
  /\ redis' = [redis EXCEPT ![key] = Counted(redis[key])]
  /\ now' = now

\* expire: only what is live gets a new time.
Renewed(found, ttl) == {[value |-> entry.value, expires |-> now + ttl] : entry \in found}

Expire(key, ttl) ==
  /\ entries' = [entries EXCEPT ![key] =
       Renewed(live(key), ttl)]
  /\ redis' = [redis EXCEPT ![key] = Renewed(@, ttl)]
  /\ now' = now

-----------------------------------------------------------------------------
(* A caller that uses every key in every way. The bounds on times and      *)
(* counts are the clock's.                                                 *)

AnyCall ==
  \/ Tick
  \/ \E key \in Keys :
       \/ Touch(key)
       \/ Set(key, 0)
       \/ Values(key) \subseteq 0..MaxTime /\ Incrby(key)
       \/ \E ttl \in 1..MaxTime : Setex(key, ttl, 0) \/ Expire(key, ttl)

AnyCaller == StoresInit([key \in Keys |-> {}]) /\ [][AnyCall]_stores

-----------------------------------------------------------------------------
(* Properties. *)

\* The process's map or Redis, the program cannot tell (store.ts:5): as it uses its
\* keys, none both with `set' and with a time to live, they hold the same at any time.
StoresAgree == \A key \in Keys : live(key) = redis[key]

\* "An in-process implementation with identical semantics" (store.ts:5): whatever
\* was called, what the map returns is what Redis returns.
IdenticalSemantics ==
  \A key \in Keys : {entry.value : entry \in live(key)} = Values(key)
=============================================================================
