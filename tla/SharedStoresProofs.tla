------------------------- MODULE SharedStoresProofs -------------------------
(***************************************************************************)
(* Proofs about HotStore and SharedStores, for any requests and runs, any  *)
(* limits, windows and times to live, and any clock.                       *)
(***************************************************************************)
EXTENDS SharedStores, FiniteSetTheorems, TLAPS

-----------------------------------------------------------------------------
(* The two implementations of the key-value store under the calls the      *)
(* program makes.                                                          *)

\* What the calls read: a clock, and per key entries with a time to expire.
StoreShape ==
  /\ now \in Nat
  /\ entries = [key \in Keys |-> entries[key]]
  /\ redis = [key \in Keys |-> redis[key]]
  /\ \A key \in Keys : \A e \in entries[key] : e.expires \in Int

\* The key that is written with `set' has no time to live, the keys that get
\* one are not written with `set': what the two would do with it is no question.
KeysApart == \A e \in entries[Health] : e.expires = Never

StoreInv == StoreShape /\ StoresAgree /\ KeysApart

\* A read drops from the map what Redis has dropped already.
LEMMA TouchAgrees ==
  ASSUME NEW key \in Keys, StoreInv, Touch(key) PROVE StoreInv'
<1>1. live(key) = {e \in live(key) : Alive(e, now)}
  BY DEF live
<1>2. QED BY <1>1 DEF StoreInv, StoreShape, StoresAgree, KeysApart, Touch, live, Alive

\* What is alive a second from now is alive now.
LEMMA TickAgrees ==
  ASSUME StoreInv, Tick PROVE StoreInv'
<1>1. now' = now + 1 /\ now' \in Nat /\ entries' = entries
  BY DEF StoreInv, StoreShape, Tick
<1>2. ASSUME NEW key \in Keys, NEW e \in entries[key], Alive(e, now') PROVE Alive(e, now)
  BY <1>1, <1>2 DEF StoreInv, StoreShape, Alive, Never
<1>3. ASSUME NEW key \in Keys PROVE live(key)' = redis'[key]
  BY <1>1, <1>2 DEF StoreInv, StoreShape, StoresAgree, Tick, live, Alive
<1>4. QED BY <1>1, <1>3 DEF StoreInv, StoreShape, StoresAgree, KeysApart, Tick

\* A value with a second or more to live is alive in both.
LEMMA SetexAgrees ==
  ASSUME NEW key \in Keys \ {Health}, NEW ttl \in Nat \ {0}, NEW value, StoreInv,
         Setex(key, ttl, value)
  PROVE  StoreInv'
<1> DEFINE entry == [value |-> value, expires |-> now + ttl]
<1>0. (IF ttl < 1 THEN 1 ELSE ttl) = ttl
  OBVIOUS
<1>1. /\ entries' = [entries EXCEPT ![key] = {entry}]
      /\ redis' = [redis EXCEPT ![key] = {entry}]
      /\ now' = now
  BY <1>0, Zenon DEF Setex
<1>2. entry.expires \in Int /\ Alive(entry, now)
  BY DEF StoreInv, StoreShape, Alive
<1> HIDE DEF entry
<1>3. ASSUME NEW k \in Keys PROVE live(k)' = redis'[k]
  BY <1>1, <1>2 DEF StoreInv, StoreShape, StoresAgree, live, Alive
<1>4. entries'[Health] = entries[Health]
  BY <1>1, SharedAssumption DEF StoreInv, StoreShape
<1>5. QED BY <1>1, <1>2, <1>3, <1>4 DEF StoreInv, StoreShape, StoresAgree, KeysApart

\* A call that replaces what is alive under a key by the same thing in both,
\* all of it alive.
LEMMA ReplacedAgrees ==
  ASSUME NEW key \in Keys, NEW found, StoreInv,
         \A e \in found : e.expires \in Int /\ Alive(e, now) /\ (key = Health => e.expires = Never),
         entries' = [entries EXCEPT ![key] = found],
         redis' = [redis EXCEPT ![key] = found], now' = now
  PROVE  StoreInv'
<1>1. (StoreShape /\ StoresAgree)'
  BY DEF StoreInv, StoreShape, StoresAgree, live, Alive
<1>2. entries'[Health] = IF key = Health THEN found ELSE entries[Health]
  BY SharedAssumption DEF StoreInv, StoreShape
<1>3. KeysApart'
  BY <1>2 DEF StoreInv, KeysApart
<1>4. QED BY <1>1, <1>3 DEF StoreInv

\* Under the key of the outcomes there is no time to live to keep or to drop.
LEMMA SetAgrees ==
  ASSUME NEW value, Health \in Keys, StoreInv, Set(Health, value) PROVE StoreInv'
<1> DEFINE found == {[value |-> value, expires |-> Never]}
<1>1. Expiries(live(Health)) = {Never}
  BY DEF StoreInv, KeysApart, Expiries, live
<1>2. /\ entries' = [entries EXCEPT ![Health] = found]
      /\ redis' = [redis EXCEPT ![Health] = found]
      /\ now' = now
  BY <1>1 DEF Set
<1>3. \A e \in found : e.expires \in Int /\ Alive(e, now) /\ e.expires = Never
  BY DEF Alive, Never
<1> HIDE DEF found
<1>4. QED BY <1>2, <1>3, ReplacedAgrees

LEMMA IncrbyAgrees ==
  ASSUME NEW key \in Keys \ {Health}, StoreInv, Incrby(key) PROVE StoreInv'
<1>1. live(key) = redis[key] /\ \A e \in live(key) : e.expires \in Int /\ Alive(e, now)
  BY DEF StoreInv, StoreShape, StoresAgree, live
<1>2. \A e \in Counted(live(key)) : e.expires \in Int /\ Alive(e, now)
  BY <1>1 DEF Counted, Alive, Never
<1>3. QED BY <1>1, <1>2, ReplacedAgrees DEF Incrby

LEMMA ExpireAgrees ==
  ASSUME NEW key \in Keys \ {Health}, NEW ttl \in Nat \ {0}, StoreInv, Expire(key, ttl) PROVE StoreInv'
<1>1. live(key) = redis[key]
  BY DEF StoreInv, StoresAgree
<1>2. \A e \in Renewed(live(key), ttl) : e.expires \in Int /\ Alive(e, now)
  BY DEF Renewed, Alive, StoreInv, StoreShape
<1>3. redis' = [redis EXCEPT ![key] = Renewed(live(key), ttl)]
  BY <1>1 DEF Expire
<1>4. QED BY <1>2, <1>3, ReplacedAgrees DEF Expire

-----------------------------------------------------------------------------
(* The callers.                                                            *)

\* What the steps read of a caller and of the rows: the routed model, and for
\* a row that is to be warmed a second or more to live.
CallerInv ==
  /\ at \in [Callers -> Labels]
  /\ held = [c \in Callers |-> held[c]]
  /\ model \in [Runs -> Models]
  /\ rows = [key \in Answer |-> rows[key]]
  /\ \A key \in Answer : \A row \in rows[key] : row.expires \in Int
  /\ \A c \in Runs : at[c] = "warm" => held[c].ttl \in Nat \ {0}

IInv == StoreInv /\ CallerInv

\* The keys the program uses.
LEMMA KeysUsed ==
  /\ Health \in Keys /\ {Counter, Session} \subseteq Keys \ {Health}
  /\ \A c \in Runs : model \in [Runs -> Models] =>
       CacheKey(c) \in Keys \ {Health} /\ CacheKey(c) \in Answer
BY SharedAssumption DEF CacheKey, Prompt, Answer

\* Where a caller may go next.
LEMMA GoesKeeps ==
  ASSUME NEW c \in Callers, NEW label \in Labels, NEW value, CallerInv, Goes(c, label, value),
         model' \in [Runs -> Models], rows' = rows,
         label = "warm" => value.ttl \in Nat \ {0}
  PROVE  CallerInv'
BY DEF CallerInv, Goes, Callers

LEMMA AfterRunKeeps ==
  ASSUME NEW c \in Callers, NEW got, CallerInv, AfterRun(c, got), rows' = rows PROVE CallerInv'
<1>1. CASE Second(c, got)
  <2>1. PICK other \in Models : model' = [model EXCEPT ![c] = other]
    BY <1>1 DEF Second
  <2>2. model' \in [Runs -> Models]
    BY <2>1 DEF CallerInv
  <2>3. QED BY <1>1, <2>2, GoesKeeps DEF Second, Labels
<1>2. CASE Goes(c, "read", Nothing) /\ UNCHANGED model
  BY <1>2, GoesKeeps DEF CallerInv, Labels
<1>3. QED BY <1>1, <1>2 DEF AfterRun

\* A rejected call leaves the stores alone, wherever the caller goes.
LEMMA RejectKeeps ==
  ASSUME NEW c \in Callers, IInv, Reject(c) PROVE IInv'
<1>1. UNCHANGED stores /\ rows' = rows
  BY DEF Reject, tables
<1>2. StoreInv'
  BY <1>1 DEF IInv, StoreInv, StoreShape, StoresAgree, KeysApart, live, stores
<1>3. CASE at[c] \in {"health", "window", "hot"} /\ Goes(c, "get", Nothing)
            /\ \E other \in Models : model' = [model EXCEPT ![c] = other]
  <2>1. PICK other \in Models : model' = [model EXCEPT ![c] = other]
    BY <1>3
  <2>2. model' \in [Runs -> Models]
    BY <2>1 DEF IInv, CallerInv
  <2>3. QED BY <1>1, <1>2, <1>3, <2>2, GoesKeeps DEF IInv, Labels
<1>4. CASE AfterRun(c, answers[c])
  BY <1>1, <1>2, <1>4, AfterRunKeeps DEF IInv
<1>5. CASE (Goes(c, "read", Nothing) \/ Goes(c, "failed", Nothing)) /\ UNCHANGED model
  BY <1>1, <1>2, <1>5, GoesKeeps DEF IInv, CallerInv, Labels
<1>6. QED BY <1>3, <1>4, <1>5 DEF Reject, Rejected

\* The limiter: one counter, counted, capped and read.
LEMMA RequestKeeps ==
  ASSUME NEW c \in Requests, IInv, Request(c) PROVE IInv'
<1>1. c \in Callers /\ Counter \in Keys \ {Health} /\ Window \in Nat \ {0}
  BY KeysUsed, SharedAssumption DEF Callers
<1>2. CASE Count(c)
  <2>1. AfterCount(NextCount) \in Labels \ {"warm"}
    BY DEF AfterCount, Labels
  <2>2. CallerInv'
    BY <1>1, <1>2, <2>1, GoesKeeps DEF IInv, CallerInv, Count, task, tables
  <2>3. QED BY <1>1, <1>2, <2>2, IncrbyAgrees DEF IInv, Count
<1>3. CASE Cap(c)
  <2>1. CallerInv'
    BY <1>1, <1>3, GoesKeeps DEF IInv, CallerInv, Cap, task, tables, Labels
  <2>2. QED BY <1>1, <1>3, <2>1, ExpireAgrees DEF IInv, Cap
<1>4. CASE Decide(c)
  <2>1. (IF Allowed(held[c]) THEN "done" ELSE "refused") \in Labels \ {"warm"}
    BY DEF Labels
  <2>2. CallerInv'
    BY <1>1, <1>4, <2>1, GoesKeeps DEF IInv, CallerInv, Decide, task, tables
  <2>3. QED BY <1>1, <1>4, <2>2, TouchAgrees DEF IInv, Decide
<1>5. QED BY <1>1, <1>2, <1>3, <1>4, RejectKeeps DEF Request

\* Serving an answer moves the caller, and nothing else of CallerInv.
LEMMA ServedKeeps ==
  ASSUME NEW c \in Runs, NEW answer, CallerInv, rows' = rows,
         ServeCached(c, answer) \/ ServeBought(c, answer)
  PROVE  CallerInv'
<1>1. c \in Callers
  BY DEF Callers
<1>2. CASE ServeCached(c, answer)
  BY <1>1, <1>2, AfterRunKeeps DEF ServeCached
<1>3. CASE ServeBought(c, answer)
  BY <1>1, <1>3, GoesKeeps DEF ServeBought, CallerInv, Labels
<1>4. QED BY <1>2, <1>3

\* Nothing of the stores' invariant changes when they do not.
LEMMA StoresUntouched ==
  ASSUME StoreInv, UNCHANGED stores PROVE StoreInv'
BY DEF StoreInv, StoreShape, StoresAgree, KeysApart, live, stores

\* The cache: what is warmed was fresh a step before, which is why it has a
\* second to live (semantic.ts:92-97).
LEMMA CacheKeeps ==
  ASSUME NEW c \in Runs, IInv,
         \/ Lookup(c) \/ LookupDurable(c) \/ Warm(c) \/ FindSimilar(c)
         \/ ReadHealth(c) \/ PushHealth(c) \/ Put(c) \/ PutHot(c)
  PROVE  IInv'
<1> DEFINE key == CacheKey(c)
<1>1. c \in Callers /\ key \in Keys \ {Health} /\ key \in Answer /\ Health \in Keys /\ CacheTtl \in Nat \ {0}
  BY KeysUsed, SharedAssumption DEF Callers, IInv, CallerInv
<1>2. CASE Lookup(c)
  <2>1. rows' = rows /\ Touch(key)
    BY <1>2 DEF Lookup, tables
  <2>2. CASE \E hot \in Values(key) : ServeCached(c, hot)
    BY <2>1, <2>2, <1>1, ServedKeeps, TouchAgrees DEF IInv
  <2>3. CASE Goes(c, "durable", Nothing) /\ UNCHANGED <<model, answers>>
    <3>1. CallerInv'
      BY <1>1, <2>1, <2>3, GoesKeeps DEF IInv, CallerInv, Labels
    <3>2. QED BY <1>1, <2>1, <3>1, TouchAgrees DEF IInv
  <2>4. QED BY <1>2, <2>2, <2>3 DEF Lookup
<1>3. CASE LookupDurable(c)
  <2>1. StoreInv' /\ rows' = rows /\ model' = model
    BY <1>3, StoresUntouched DEF LookupDurable, IInv, tables, task
  <2>2. ASSUME NEW row \in Fresh(key) PROVE row.expires - now \in Nat \ {0}
    BY <1>1, <2>2 DEF Fresh, IInv, CallerInv, StoreInv, StoreShape
  <2>3. CASE \E row \in Fresh(key) :
               Goes(c, "warm", [answer |-> row.answer, ttl |-> row.expires - now])
    <3>1. PICK row \in Fresh(key) :
            Goes(c, "warm", [answer |-> row.answer, ttl |-> row.expires - now])
      BY <2>3
    <3>2. [answer |-> row.answer, ttl |-> row.expires - now].ttl \in Nat \ {0}
      BY <2>2
    <3>3. CallerInv'
      BY <1>1, <2>1, <3>1, <3>2, GoesKeeps DEF IInv, CallerInv, Labels
    <3>4. QED BY <2>1, <3>3 DEF IInv
  <2>4. CASE Goes(c, "scan", Nothing)
    <3>1. CallerInv'
      BY <1>1, <2>1, <2>4, GoesKeeps DEF IInv, CallerInv, Labels
    <3>2. QED BY <2>1, <3>1 DEF IInv
  <2>5. QED BY <1>3, <2>3, <2>4 DEF LookupDurable
<1>4. CASE Warm(c)
  <2>1. held[c].ttl \in Nat \ {0}
    BY <1>4 DEF Warm, IInv, CallerInv
  <2>2. CallerInv'
    BY <1>4, ServedKeeps DEF Warm, IInv, tables
  <2>3. QED BY <1>1, <1>4, <2>1, <2>2, SetexAgrees DEF Warm, IInv
<1>5. CASE FindSimilar(c)
  <2>1. StoreInv' /\ rows' = rows
    BY <1>5, StoresUntouched DEF FindSimilar, IInv, tables
  <2>2. CASE \E k \in Best(c) : \E row \in Fresh(k) : ServeCached(c, row.answer)
    BY <2>1, <2>2, ServedKeeps DEF IInv
  <2>3. CASE Goes(c, "health", CacheKey(c)) /\ UNCHANGED <<model, answers>>
    <3>1. CallerInv'
      BY <1>1, <2>1, <2>3, GoesKeeps DEF IInv, CallerInv, Labels
    <3>2. QED BY <2>1, <3>1 DEF IInv
  <2>4. QED BY <1>5, <2>2, <2>3 DEF FindSimilar
<1>6. CASE Put(c)
  <2>1. StoreInv' /\ model' = model /\ Goes(c, "hot", held[c])
    BY <1>6, StoresUntouched DEF Put, IInv, task
  <2>2. /\ rows' = [k \in Answer |-> rows'[k]]
        /\ \A k \in Answer : \A row \in rows'[k] : row.expires \in Int
    BY <1>1, <1>6 DEF Put, IInv, CallerInv, StoreInv, StoreShape
  <2>3. QED BY <1>1, <2>1, <2>2 DEF IInv, CallerInv, Goes, Labels
<1>7. CASE PutHot(c)
  <2>1. CallerInv'
    BY <1>7, ServedKeeps DEF PutHot, IInv, tables
  <2>2. QED BY <1>1, <1>7, <2>1, SetexAgrees DEF PutHot, IInv
<1>8. CASE ReadHealth(c)
  <2>1. CallerInv'
    BY <1>1, <1>8, GoesKeeps DEF ReadHealth, IInv, CallerInv, task, tables, Labels
  <2>2. QED BY <1>1, <1>8, <2>1, TouchAgrees DEF ReadHealth, IInv
<1>9. CASE PushHealth(c)
  <2>1. CallerInv'
    BY <1>1, <1>9, GoesKeeps DEF PushHealth, IInv, CallerInv, task, tables, Labels
  <2>2. QED BY <1>1, <1>9, <2>1, SetAgrees DEF PushHealth, IInv
<1>10. QED BY <1>2, <1>3, <1>4, <1>5, <1>6, <1>7, <1>8, <1>9

\* Calibration and session memory.
LEMMA TaskKeeps ==
  ASSUME NEW c \in Runs, IInv,
         ReadSample(c) \/ Upsert(c) \/ ReadMemory(c) \/ Remember(c)
  PROVE  IInv'
<1>1. c \in Callers /\ Session \in Keys \ {Health} /\ MemoryTtl \in Nat \ {0}
  BY KeysUsed, SharedAssumption DEF Callers
<1>2. CASE ReadSample(c)
  <2>1. StoreInv' /\ CallerInv'
    BY <1>1, <1>2, GoesKeeps, StoresUntouched DEF ReadSample, IInv, CallerInv, task, tables, Labels
  <2>2. QED BY <2>1 DEF IInv
<1>3. CASE Upsert(c)
  <2>1. StoreInv' /\ CallerInv'
    BY <1>1, <1>3, AfterRunKeeps, StoresUntouched DEF Upsert, IInv
  <2>2. QED BY <2>1 DEF IInv
<1>4. CASE ReadMemory(c)
  <2>1. CallerInv'
    BY <1>1, <1>4, GoesKeeps DEF ReadMemory, IInv, CallerInv, task, tables, Labels
  <2>2. QED BY <1>1, <1>4, <2>1, TouchAgrees DEF ReadMemory, IInv
<1>5. CASE Remember(c)
  <2>1. CallerInv'
    BY <1>1, <1>5, GoesKeeps DEF Remember, IInv, CallerInv, task, tables, Labels
  <2>2. QED BY <1>1, <1>5, <2>1, SetexAgrees DEF Remember, IInv
<1>6. QED BY <1>2, <1>3, <1>4, <1>5

LEMMA RunKeeps ==
  ASSUME NEW c \in Runs, IInv, Run(c) PROVE IInv'
BY CacheKeeps, TaskKeeps, RejectKeeps DEF Run, Callers

LEMMA PassKeeps ==
  ASSUME IInv, Pass PROVE IInv'
BY TickAgrees DEF IInv, CallerInv, Pass, task, tables

LEMMA InitStores ==
  ASSUME Init PROVE StoreInv
<1> DEFINE found == [key \in Keys |->
             IF key = Session THEN {[value |-> <<Former>>, expires |-> MemoryTtl]} ELSE {}]
<1>1. now = 0 /\ entries = found /\ redis = found
  BY DEF Init, StoresInit
<1>2. /\ \A key \in Keys : \A e \in found[key] : e.expires \in Int /\ Alive(e, 0)
      /\ found[Health] = {}
  BY SharedAssumption DEF Alive
<1>3. found = [key \in Keys |-> found[key]]
  OBVIOUS
<1> HIDE DEF found
<1>4. QED BY <1>1, <1>2, <1>3 DEF StoreInv, StoreShape, StoresAgree, KeysApart, live, Alive

LEMMA InitCallers ==
  ASSUME Init PROVE CallerInv /\ \A c \in Callers : at[c] \in {"count", "get", "done"}
<1>1. PICK active \in {Requests, Runs} :
        at = [c \in Callers |->
          IF c \notin active THEN "done" ELSE IF c \in Requests THEN "count" ELSE "get"]
  BY DEF Init
<1>2. at \in [Callers -> Labels] /\ \A c \in Callers : at[c] \in {"count", "get", "done"}
  BY <1>1 DEF Labels
<1>3. PICK old \in SUBSET Earlier :
        rows = [key \in Answer |->
          IF key \in old THEN {[answer |-> key, expires |-> CacheTtl]} ELSE {}]
  BY DEF Init
<1>4. /\ rows = [key \in Answer |-> rows[key]]
      /\ \A key \in Answer : \A row \in rows[key] : row.expires \in Int
  BY <1>3, SharedAssumption
<1>5. held = [c \in Callers |-> held[c]] /\ model \in [Runs -> Models]
  BY DEF Init
<1>6. QED BY <1>2, <1>4, <1>5 DEF CallerInv, Callers

LEMMA StepKeeps ==
  ASSUME IInv, [Next]_vars PROVE IInv'
<1>1. CASE UNCHANGED vars
  BY <1>1, StoresUntouched DEF IInv, CallerInv, vars, task, tables
<1>2. CASE Next
  BY <1>2, PassKeeps, RequestKeeps, RunKeeps DEF Next
<1>3. QED BY <1>1, <1>2

LEMMA Invariance == Spec => []IInv
<1>1. Init => IInv
  BY InitStores, InitCallers DEF IInv
<1>2. IInv /\ [Next]_vars => IInv'
  BY StepKeeps
<1>3. QED BY <1>1, <1>2, PTL DEF Spec

\* Whatever requests and runs do, at any time, the map in the process and Redis
\* hold the same under every key they use (store.ts:5, 47-97, 158-188): of the times
\* to live the program passes none is below the second Redis asks for, and no key is
\* written both with `set' (manager.ts:234) and with a time to live.
THEOREM StoresAlwaysAgree == Spec => []StoresAgree
<1>1. IInv => StoresAgree
  BY DEF IInv, StoreInv
<1>2. QED BY <1>1, Invariance, PTL

-----------------------------------------------------------------------------
(* What a step of one caller leaves to the others.                         *)

LEMMA GoesAlone ==
  ASSUME NEW c \in Callers, NEW label, NEW value, CallerInv, Goes(c, label, value),
         NEW d \in Callers \ {c}
  PROVE  at'[d] = at[d] /\ held'[d] = held[d]
BY DEF CallerInv, Goes

LEMMA AfterRunAlone ==
  ASSUME NEW c \in Callers, NEW got, CallerInv, AfterRun(c, got), NEW d \in Callers \ {c}
  PROVE  at'[d] = at[d] /\ held'[d] = held[d]
BY GoesAlone DEF AfterRun, Second

LEMMA StepAlone ==
  ASSUME NEW c \in Callers, CallerInv, Request(c) \/ Run(c), NEW d \in Callers \ {c}
  PROVE  at'[d] = at[d] /\ held'[d] = held[d]
<1>1. CASE Count(c) \/ Cap(c) \/ Decide(c)
  BY <1>1, GoesAlone DEF Count, Cap, Decide
<1>2. CASE Lookup(c) \/ LookupDurable(c) \/ Warm(c) \/ FindSimilar(c) \/ PutHot(c)
  BY <1>2, GoesAlone, AfterRunAlone
     DEF Lookup, LookupDurable, Warm, FindSimilar, PutHot, ServeCached, ServeBought
<1>3. CASE ReadHealth(c) \/ PushHealth(c) \/ Put(c) \/ ReadSample(c) \/ ReadMemory(c) \/ Remember(c)
  BY <1>3, GoesAlone DEF ReadHealth, PushHealth, Put, ReadSample, ReadMemory, Remember
<1>4. CASE Upsert(c) \/ Reject(c)
  BY <1>4, GoesAlone, AfterRunAlone DEF Upsert, Reject, Rejected
<1>5. QED BY <1>1, <1>2, <1>3, <1>4 DEF Request, Run

-----------------------------------------------------------------------------
(* The counter. *)

\* Runs use other keys than the counter, and no run is a request.
LEMMA RunLeavesCounter ==
  ASSUME NEW c \in Runs, IInv, Run(c)
  PROVE  /\ \A d \in Requests : at'[d] = at[d] /\ held'[d] = held[d]
         /\ redis'[Counter] = redis[Counter] /\ (uncapped => uncapped')
         /\ UNCHANGED <<now, admitted, countedAt>>
<1>1. \A d \in Requests : at'[d] = at[d] /\ held'[d] = held[d]
  BY StepAlone, SharedAssumption DEF IInv, Callers
<1>2. /\ Counter \in Keys /\ CacheKey(c) \in Keys /\ CacheKey(c) # Counter
      /\ Session \in Keys /\ Session # Counter /\ Health \in Keys /\ Health # Counter
  BY KeysUsed, SharedAssumption DEF IInv, CallerInv, Answer
<1>3. redis = [key \in Keys |-> redis[key]]
  BY DEF IInv, StoreInv, StoreShape
<1>4. CASE Lookup(c) \/ ReadHealth(c) \/ ReadMemory(c)
  BY <1>1, <1>4 DEF Lookup, ReadHealth, ReadMemory, Touch, history
<1>5. CASE Warm(c) \/ PutHot(c) \/ Remember(c) \/ PushHealth(c)
  <2>1. PICK key \in {CacheKey(c), Session, Health} : \E entry : redis' = [redis EXCEPT ![key] = entry]
    BY <1>5 DEF Warm, PutHot, Remember, PushHealth, Setex, Set
  <2>2. UNCHANGED <<now, uncapped, admitted, countedAt>>
    BY <1>5 DEF Warm, PutHot, Remember, PushHealth, Setex, Set, history
  <2>3. QED BY <1>1, <1>2, <1>3, <2>1, <2>2
<1>6. CASE LookupDurable(c) \/ FindSimilar(c) \/ Put(c) \/ ReadSample(c) \/ Upsert(c)
  BY <1>1, <1>6 DEF LookupDurable, FindSimilar, Put, ReadSample, Upsert, stores, history
<1>7. CASE Reject(c)
  <2>1. UNCHANGED <<redis, now, admitted, countedAt>>
    BY <1>7 DEF Reject, stores
  <2>2. uncapped => uncapped'
    BY <1>7, Zenon DEF Reject
  <2>3. QED BY <1>1, <2>1, <2>2
<1>8. QED BY <1>4, <1>5, <1>6, <1>7 DEF Run

LEMMA RunSparesCounter ==
  ASSUME NEW c \in Runs, IInv, Run(c), CounterExpires PROVE CounterExpires'
BY RunLeavesCounter DEF CounterExpires

\* A count either finds a counter, and leaves its expiry alone, or makes one
\* and goes on to cap it.
LEMMA RequestCapsCounter ==
  ASSUME NEW c \in Requests, IInv, Request(c), CounterExpires PROVE CounterExpires'
<1>1. /\ c \in Callers /\ Counter \in Keys
      /\ \A d \in Requests \ {c} : at'[d] = at[d]
  BY StepAlone, KeysUsed DEF IInv, Callers
<1>2. CASE Count(c)
  <2>1. /\ at[c] = "count" /\ at'[c] = AfterCount(NextCount)
        /\ redis'[Counter] = Counted(redis[Counter]) /\ uncapped' = uncapped
    BY <1>1, <1>2 DEF Count, Goes, Incrby, IInv, CallerInv, StoreInv, StoreShape
  <2>2. CASE redis[Counter] = {}
    BY <2>1, <2>2 DEF NextCount, AfterCount, CounterExpires
  <2>3. CASE redis[Counter] # {}
    <3>1. \A e \in redis'[Counter] : \E f \in redis[Counter] : e.expires = f.expires
      BY <2>1, <2>3 DEF Counted
    <3>2. QED BY <1>1, <2>1, <3>1 DEF CounterExpires
  <2>4. QED BY <2>2, <2>3
<1>3. CASE Cap(c)
  <2>1. \A e \in redis'[Counter] : e.expires = now + Window
    BY <1>1, <1>3 DEF Cap, Expire, Renewed, IInv, StoreInv, StoreShape
  <2>2. now + Window # Never
    BY SharedAssumption DEF IInv, StoreInv, StoreShape, Never
  <2>3. QED BY <2>1, <2>2 DEF CounterExpires
<1>4. CASE Decide(c)
  <2>1. redis' = redis /\ uncapped' = uncapped /\ at[c] = "ttl"
    BY <1>4 DEF Decide, Touch
  <2>2. QED BY <1>1, <2>1 DEF CounterExpires
<1>5. CASE Reject(c)
  <2>1. redis' = redis /\ uncapped' = (uncapped \/ at[c] = "expire")
    BY <1>5 DEF Reject, stores
  <2>2. QED BY <1>1, <2>1 DEF CounterExpires
<1>6. QED BY <1>2, <1>3, <1>4, <1>5 DEF Request

\* The counter of an identity has an expiry, is about to get one, or a call
\* failed exactly between its count and its expiry (rate-limit.ts:28-30): no
\* interleaving of requests leaves one that refuses its caller for ever.
THEOREM CounterAlwaysExpires == Spec => []CounterExpires
<1>1. Init => CounterExpires
  <2>1. Init => redis[Counter] = {}
    BY KeysUsed, SharedAssumption DEF Init, StoresInit
  <2>2. QED BY <2>1 DEF CounterExpires
<1>2. IInv /\ CounterExpires /\ [Next]_vars => CounterExpires'
  <2> SUFFICES ASSUME IInv, CounterExpires, [Next]_vars PROVE CounterExpires'
    OBVIOUS
  <2>1. CASE UNCHANGED vars
    BY <2>1 DEF CounterExpires, vars, stores, history
  <2>2. CASE Pass
    <3>1. redis'[Counter] \subseteq redis[Counter] /\ at' = at /\ uncapped' = uncapped
      BY <2>2, KeysUsed DEF Pass, Tick, history
    <3>2. QED BY <3>1 DEF CounterExpires
  <2>3. QED BY <2>1, <2>2, RunSparesCounter, RequestCapsCounter DEF Next
<1>3. QED BY <1>1, <1>2, Invariance, PTL DEF Spec

-----------------------------------------------------------------------------
(* The calibration row. *)

\* What a run that is about to write read: no more than was ingested and, while
\* no two were at it at once, what the row still holds, and it is alone.
Writing == {c \in Runs : at[c] = "upsert"}

SampleInv ==
  /\ samples \in Nat /\ ingested \in Nat /\ samples <= ingested
  /\ \A c \in Writing : held[c] \in Nat /\ held[c] <= ingested
  /\ "samples" \notin raced =>
       /\ samples = ingested
       /\ \A c \in Writing : held[c] = samples
       /\ \A c, d \in Writing : c = d

\* A step that neither begins nor ends a write leaves the writers as they are.
LEMMA WritersAlone ==
  ASSUME NEW c \in Callers, CallerInv, SampleInv, Request(c) \/ Run(c),
         UNCHANGED <<samples, ingested>>, raced \subseteq raced', at'[c] # "upsert"
  PROVE  SampleInv'
<1>1. \A d \in Writing' : d \in Writing /\ held'[d] = held[d]
  BY StepAlone DEF Writing, Callers
<1>2. QED BY <1>1 DEF SampleInv

LEMMA StepKeepsSamples ==
  ASSUME NEW c \in Callers, IInv, SampleInv, (c \in Requests /\ Request(c)) \/ (c \in Runs /\ Run(c))
  PROVE  SampleInv'
<1>1. \A d \in Callers \ {c} : at'[d] = at[d] /\ held'[d] = held[d]
  BY StepAlone DEF IInv
<1>2. CASE ReadSample(c) /\ c \in Runs
  <2>1. /\ at'[c] = "upsert" /\ held'[c] = samples
        /\ UNCHANGED <<samples, ingested>>
        /\ raced \subseteq raced' /\ ("samples" \notin raced' => ~Overlaps(c, "upsert"))
    BY <1>2 DEF ReadSample, Goes, IInv, CallerInv, tables
  <2>2. Writing' = Writing \cup {c}
    BY <1>1, <1>2, <2>1 DEF Writing, Callers
  <2>3. "samples" \notin raced' => Writing \subseteq {c}
    BY <2>1 DEF Overlaps, Writing
  <2>4. QED BY <1>1, <2>1, <2>2, <2>3 DEF SampleInv, Writing, Callers
<1>3. CASE Upsert(c) /\ c \in Runs
  <2>1. /\ c \in Writing /\ at'[c] # "upsert"
        /\ samples' = held[c] + 1 /\ ingested' = ingested + 1 /\ raced' = raced
    BY <1>3 DEF Upsert, Writing, AfterRun, Second, Goes, IInv, CallerInv
  <2>2. Writing' = Writing \ {c}
    BY <1>1, <2>1 DEF Writing, Callers
  <2>3. QED BY <1>1, <2>1, <2>2 DEF SampleInv, Writing, Callers
<1>4. ASSUME UNCHANGED <<samples, ingested>>, raced \subseteq raced', at'[c] # "upsert"
      PROVE  SampleInv'
  BY <1>4, WritersAlone DEF IInv
<1>5. CASE Count(c) \/ Cap(c) \/ Decide(c)
  BY <1>4, <1>5 DEF Count, Cap, Decide, Goes, AfterCount, IInv, CallerInv, tables, history
<1>6. CASE Lookup(c) \/ LookupDurable(c) \/ Warm(c) \/ FindSimilar(c) \/ PutHot(c)
  <2>1. UNCHANGED <<samples, ingested, raced>>
    BY <1>6 DEF Lookup, LookupDurable, Warm, FindSimilar, PutHot, tables, history
  <2>2. at'[c] # "upsert"
    BY <1>6 DEF Lookup, LookupDurable, Warm, FindSimilar, PutHot, ServeCached, ServeBought,
                AfterRun, Second, Goes, IInv, CallerInv
  <2>3. QED BY <1>4, <2>1, <2>2
<1>7. CASE ReadHealth(c) \/ PushHealth(c) \/ Put(c) \/ ReadMemory(c) \/ Remember(c)
  BY <1>4, <1>7 DEF ReadHealth, PushHealth, Put, ReadMemory, Remember, Goes, IInv, CallerInv, tables, history
<1>8. CASE Reject(c)
  <2>1. UNCHANGED <<samples, ingested, raced>>
    BY <1>8 DEF Reject, tables
  <2>2. at'[c] # "upsert"
    BY <1>8 DEF Reject, Rejected, AfterRun, Second, Goes, IInv, CallerInv
  <2>3. QED BY <1>4, <2>1, <2>2
<1>9. QED BY <1>2, <1>3, <1>5, <1>6, <1>7, <1>8 DEF Request, Run

\* However the subtasks of a batch end together, no sample is counted twice, and
\* one is lost only to another that read the row before it was written
\* (calibration.ts:36-77).
THEOREM SamplesAlwaysCounted == Spec => []SamplesCounted
<1>1. Init => SampleInv
  <2> SUFFICES ASSUME Init PROVE SampleInv
    OBVIOUS
  <2>1. Writing = {}
    BY InitCallers DEF Writing, Callers
  <2>2. QED BY <2>1 DEF Init, SampleInv
<1>2. IInv /\ SampleInv /\ [Next]_vars => SampleInv'
  <2> SUFFICES ASSUME IInv, SampleInv, [Next]_vars PROVE SampleInv'
    OBVIOUS
  <2>1. CASE UNCHANGED vars
    BY <2>1 DEF SampleInv, Writing, vars, tables, history
  <2>2. CASE Pass
    BY <2>2 DEF SampleInv, Writing, Pass, tables, history
  <2>3. ASSUME NEW c \in Requests, Request(c) PROVE SampleInv'
    <3>1. c \in Callers
      BY DEF Callers
    <3>2. QED BY <2>3, <3>1, StepKeepsSamples
  <2>4. ASSUME NEW c \in Runs, Run(c) PROVE SampleInv'
    <3>1. c \in Callers
      BY DEF Callers
    <3>2. QED BY <2>4, <3>1, StepKeepsSamples
  <2>5. QED BY <2>1, <2>2, <2>3, <2>4 DEF Next
<1>3. SampleInv => SamplesCounted
  BY DEF SampleInv, SamplesCounted
<1>4. QED BY <1>1, <1>2, <1>3, Invariance, PTL DEF Spec

-----------------------------------------------------------------------------
(* The session's memory. *)

Remembering == {c \in Runs : at[c] = "write"}

Tasks == Runs \cup {Former}

\* IsSuffix without the reversals.
Ends(list, whole) ==
  /\ Len(list) <= Len(whole)
  /\ \A i \in 1..Len(list) : list[i] = whole[Len(whole) - Len(list) + i]

\* What a run is about to write back it read alone, and the list it read was
\* the end of what was remembered, unless two were at it at once.
MemoryInv ==
  /\ written \in Seq(Tasks)
  /\ \A list \in Values(Session) : list \in Seq(Tasks)
  /\ \A c \in Remembering : held[c] \in Seq(Tasks)
  /\ "session" \notin raced =>
       /\ \A list \in Values(Session) : Ends(list, written)
       /\ \A c \in Remembering : Ends(held[c], written)
       /\ \A c, d \in Remembering : c = d

LEMMA EndsIsSuffix ==
  ASSUME NEW list \in Seq(Tasks), NEW whole \in Seq(Tasks), Ends(list, whole)
  PROVE  IsSuffix(list, whole)
<1>1. /\ Len(list) \in Nat /\ Len(whole) \in Nat
      /\ Reverse(list) \in Seq(Tasks) /\ Reverse(whole) \in Seq(Tasks)
      /\ Len(Reverse(list)) = Len(list) /\ Len(Reverse(whole)) = Len(whole)
  BY DEF Reverse
<1>2. ASSUME NEW i \in 1..Len(list) PROVE Reverse(list)[i] = Reverse(whole)[i]
  <2>1. Len(list) - i + 1 \in 1..Len(list)
    BY <1>1
  <2>2. Reverse(list)[i] = list[Len(list) - i + 1] /\ Reverse(whole)[i] = whole[Len(whole) - i + 1]
    BY <1>1 DEF Reverse, Ends
  <2>3. Len(whole) - i + 1 = Len(whole) - Len(list) + (Len(list) - i + 1)
    BY <1>1
  <2>4. QED BY <2>1, <2>2, <2>3 DEF Ends
<1>3. SubSeq(Reverse(list), 1, Len(list)) = SubSeq(Reverse(whole), 1, Len(list))
  BY <1>1, <1>2 DEF Ends
<1>4. QED BY <1>1, <1>3 DEF IsSuffix, IsPrefix, Ends

\* Appending to both, and dropping the oldest of the list.
LEMMA AppendedEnds ==
  ASSUME NEW list \in Seq(Tasks), NEW whole \in Seq(Tasks), NEW c \in Tasks, Ends(list, whole)
  PROVE  Ends(Append(list, c), Append(whole, c))
<1>1. ASSUME NEW i \in 1..Len(Append(list, c))
      PROVE  Append(list, c)[i] = Append(whole, c)[Len(Append(whole, c)) - Len(Append(list, c)) + i]
  <2>1. /\ Len(Append(list, c)) = Len(list) + 1 /\ Len(Append(whole, c)) = Len(whole) + 1
        /\ Len(list) \in Nat /\ Len(whole) \in Nat /\ Len(list) <= Len(whole)
    BY DEF Ends
  <2> DEFINE j == Len(whole) - Len(list) + i
  <2>2. j \in 1..Len(Append(whole, c))
    BY <2>1
  <2>3. CASE i = Len(list) + 1
    BY <2>1, <2>3
  <2>4. CASE i \in 1..Len(list)
    <3>1. j \in 1..Len(whole) /\ list[i] = whole[j]
      BY <2>1, <2>4 DEF Ends
    <3>2. Append(list, c)[i] = list[i] /\ Append(whole, c)[j] = whole[j]
      BY <2>4, <3>1
    <3>3. QED BY <2>1, <3>1, <3>2
  <2>5. QED BY <2>1, <2>3, <2>4
<1>2. Len(Append(list, c)) <= Len(Append(whole, c))
  BY DEF Ends
<1>3. QED BY <1>1, <1>2 DEF Ends

LEMMA TrimmedEnds ==
  ASSUME NEW list \in Seq(Tasks), NEW whole \in Seq(Tasks)
  PROVE  /\ Trimmed(list) \in Seq(Tasks)
         /\ Ends(list, whole) => Ends(Trimmed(list), whole)
<1>1. MaxEntries \in Nat \ {0}
  BY SharedAssumption
<1>2. CASE Len(list) > MaxEntries
  <2> DEFINE from == Len(list) - MaxEntries + 1
  <2>1. /\ from \in 1..Len(list) /\ Trimmed(list) = SubSeq(list, from, Len(list))
        /\ Trimmed(list) \in Seq(Tasks) /\ Len(Trimmed(list)) = MaxEntries
    BY <1>1, <1>2 DEF Trimmed
  <2>2. ASSUME NEW i \in 1..MaxEntries PROVE Trimmed(list)[i] = list[Len(list) - MaxEntries + i]
    BY <1>1, <1>2, <2>1
  <2>3. QED BY <1>1, <1>2, <2>1, <2>2 DEF Ends
<1>3. CASE ~(Len(list) > MaxEntries)
  BY <1>3 DEF Trimmed
<1>4. QED BY <1>2, <1>3

\* Only Remember writes the session's list.
LEMMA StepSparesSession ==
  ASSUME NEW c \in Callers, IInv,
         (c \in Requests /\ Request(c)) \/ (c \in Runs /\ Run(c) /\ ~Remember(c))
  PROVE  UNCHANGED <<redis[Session], written>>
<1>1. /\ Session \in Keys /\ Counter # Session /\ Counter \in Keys
      /\ Health # Session /\ Health \in Keys
      /\ redis = [key \in Keys |-> redis[key]]
  BY KeysUsed, SharedAssumption DEF IInv, StoreInv, StoreShape
<1>2. CASE Count(c) \/ Cap(c)
  BY <1>1, <1>2 DEF Count, Cap, Incrby, Expire, history
<1>3. CASE Decide(c) \/ Lookup(c) \/ ReadHealth(c) \/ ReadMemory(c)
  BY <1>3 DEF Decide, Lookup, ReadHealth, ReadMemory, Touch, history
<1>4. CASE c \in Runs /\ (Warm(c) \/ PutHot(c))
  <2>1. CacheKey(c) \in Keys /\ CacheKey(c) # Session
    BY <1>4, KeysUsed, SharedAssumption DEF IInv, CallerInv, Answer
  <2>2. \E entry : redis' = [redis EXCEPT ![CacheKey(c)] = entry]
    BY <1>4 DEF Warm, PutHot, Setex
  <2>3. QED BY <1>1, <1>4, <2>1, <2>2 DEF Warm, PutHot, history
<1>5. CASE LookupDurable(c) \/ FindSimilar(c) \/ Put(c) \/ ReadSample(c) \/ Upsert(c)
  BY <1>5 DEF LookupDurable, FindSimilar, Put, ReadSample, Upsert, stores, history
<1>6. CASE Reject(c)
  BY <1>6 DEF Reject, stores
<1>7. CASE PushHealth(c)
  BY <1>1, <1>7 DEF PushHealth, Set, history
<1>8. QED BY <1>2, <1>3, <1>4, <1>5, <1>6, <1>7 DEF Request, Run

\* Only ReadMemory makes a caller hold a list to write back.
LEMMA OthersRememberNothing ==
  ASSUME NEW c \in Callers, IInv,
         (c \in Requests /\ Request(c)) \/ (c \in Runs /\ Run(c) /\ ~ReadMemory(c))
  PROVE  at'[c] # "write" /\ raced \subseteq raced'
<1>1. CASE Count(c) \/ Cap(c) \/ Decide(c)
  BY <1>1 DEF Count, Cap, Decide, Goes, AfterCount, IInv, CallerInv, history
<1>2. CASE Lookup(c) \/ LookupDurable(c) \/ Warm(c) \/ FindSimilar(c) \/ PutHot(c)
  <2>1. raced' = raced
    BY <1>2 DEF Lookup, LookupDurable, Warm, FindSimilar, PutHot, history
  <2>2. at'[c] # "write"
    BY <1>2 DEF Lookup, LookupDurable, Warm, FindSimilar, PutHot, ServeCached, ServeBought,
                AfterRun, Second, Goes, IInv, CallerInv
  <2>3. QED BY <2>1, <2>2
<1>3. CASE ReadHealth(c) \/ PushHealth(c) \/ Put(c) \/ ReadSample(c) \/ Remember(c)
  BY <1>3 DEF ReadHealth, PushHealth, Put, ReadSample, Remember, Goes, IInv, CallerInv, history
<1>4. CASE Upsert(c) \/ Reject(c)
  <2>1. raced' = raced
    BY <1>4 DEF Upsert, Reject
  <2>2. at'[c] # "write"
    BY <1>4 DEF Upsert, Reject, Rejected, AfterRun, Second, Goes, IInv, CallerInv
  <2>3. QED BY <2>1, <2>2
<1>5. QED BY <1>1, <1>2, <1>3, <1>4 DEF Request, Run

LEMMA StepKeepsMemory ==
  ASSUME NEW c \in Callers, IInv, MemoryInv,
         (c \in Requests /\ Request(c)) \/ (c \in Runs /\ Run(c))
  PROVE  MemoryInv'
<1>1. \A d \in Callers \ {c} : at'[d] = at[d] /\ held'[d] = held[d]
  BY StepAlone DEF IInv
<1>2. CASE ReadMemory(c) /\ c \in Runs
  <2>1. /\ at[c] = "read" /\ at'[c] = "write" /\ held'[c] = Remembered
        /\ raced \subseteq raced' /\ ("session" \notin raced' => ~Overlaps(c, "write"))
    BY <1>2 DEF ReadMemory, Goes, IInv, CallerInv
  <2>2. UNCHANGED <<redis[Session], written>>
    <3>1. ~Remember(c)
      BY <2>1 DEF Remember
    <3>2. QED BY <1>2, <3>1, StepSparesSession DEF Run
  <2>3. Remembering' = Remembering \cup {c}
    BY <1>1, <1>2, <2>1 DEF Remembering, Callers
  <2>4. "session" \notin raced' => Remembering \subseteq {c}
    BY <2>1 DEF Overlaps, Remembering
  <2>5. Remembered \in Values(Session) \cup {<<>>}
    BY DEF Remembered, Values
  <2>6. <<>> \in Seq(Tasks) /\ Ends(<<>>, written)
    BY DEF MemoryInv, Ends
  <2>7. Values(Session)' = Values(Session)
    BY <2>2 DEF Values
  <2>8. QED BY <1>1, <2>1, <2>2, <2>3, <2>4, <2>5, <2>6, <2>7 DEF MemoryInv, Remembering, Callers
<1>3. CASE Remember(c) /\ c \in Runs
  <2> DEFINE list == Trimmed(Append(held[c], c))
  <2>1. /\ c \in Remembering /\ at'[c] # "write"
        /\ written' = Append(written, c) /\ raced' = raced
        /\ Setex(Session, MemoryTtl, list)
    BY <1>3 DEF Remember, Remembering, Goes, IInv, CallerInv
  <2>2. Values(Session)' = {list}
    <3>1. \E e : redis' = [redis EXCEPT ![Session] = {[value |-> list, expires |-> e]}]
      BY <2>1 DEF Setex
    <3>2. Session \in Keys /\ redis = [key \in Keys |-> redis[key]]
      BY KeysUsed DEF IInv, StoreInv, StoreShape
    <3>3. PICK e : redis'[Session] = {[value |-> list, expires |-> e]}
      BY <3>1, <3>2
    <3> HIDE DEF list
    <3>4. QED BY <3>3 DEF Values
  <2>3. Remembering' = Remembering \ {c}
    BY <1>1, <2>1 DEF Remembering, Callers
  <2>4. c \in Tasks /\ held[c] \in Seq(Tasks) /\ Append(held[c], c) \in Seq(Tasks)
        /\ Append(written, c) \in Seq(Tasks)
    BY <1>3, <2>1 DEF Tasks, MemoryInv
  <2>5. list \in Seq(Tasks) /\ ("session" \notin raced => Ends(list, written'))
    BY <2>1, <2>4, AppendedEnds, TrimmedEnds DEF MemoryInv
  <2> HIDE DEF list
  <2>6. QED BY <1>1, <2>1, <2>2, <2>3, <2>4, <2>5 DEF MemoryInv, Remembering, Callers
<1>4. CASE \/ c \in Requests /\ Request(c)
           \/ c \in Runs /\ Run(c) /\ ~ReadMemory(c) /\ ~Remember(c)
  <2>1. UNCHANGED <<redis[Session], written>> /\ raced \subseteq raced' /\ at'[c] # "write"
    BY <1>4, StepSparesSession, OthersRememberNothing
  <2>2. Values(Session)' = Values(Session)
    BY <2>1 DEF Values
  <2>3. \A d \in Remembering' : d \in Remembering /\ held'[d] = held[d]
    BY <1>1, <2>1 DEF Remembering, Callers
  <2>4. QED BY <2>1, <2>2, <2>3 DEF MemoryInv
<1>5. QED BY <1>2, <1>3, <1>4

\* Whichever tasks of a session finish together, and whatever calls are rejected
\* or lists expire, what is remembered is the end of the conversation in order;
\* it is not only when two tasks read the list before either wrote it back
\* (context-memory.ts:29-34).
THEOREM ConversationAlwaysKept == Spec => []ConversationKept
<1>1. Init => MemoryInv
  <2> SUFFICES ASSUME Init PROVE MemoryInv
    OBVIOUS
  <2>1. Remembering = {}
    BY InitCallers DEF Remembering, Callers
  <2>2. written = <<Former>> /\ Values(Session) = {<<Former>>}
    <3>1. redis[Session] = {[value |-> <<Former>>, expires |-> MemoryTtl]} /\ written = <<Former>>
      BY KeysUsed DEF Init, StoresInit
    <3>2. QED BY <3>1 DEF Values
  <2>3. <<Former>> \in Seq(Tasks) /\ Ends(<<Former>>, <<Former>>)
    BY DEF Tasks, Ends
  <2>4. QED BY <2>1, <2>2, <2>3 DEF MemoryInv
<1>2. IInv /\ MemoryInv /\ [Next]_vars => MemoryInv'
  <2> SUFFICES ASSUME IInv, MemoryInv, [Next]_vars PROVE MemoryInv'
    OBVIOUS
  <2>1. CASE UNCHANGED vars
    BY <2>1 DEF MemoryInv, Remembering, Values, vars, stores, history
  <2>2. CASE Pass
    <3>1. redis'[Session] \subseteq redis[Session] /\ UNCHANGED <<at, held, written, raced>>
      BY <2>2, KeysUsed DEF Pass, Tick, history
    <3>2. Values(Session)' \subseteq Values(Session)
      BY <3>1 DEF Values
    <3>3. QED BY <3>1, <3>2 DEF MemoryInv, Remembering
  <2>3. ASSUME NEW c \in Requests, Request(c) PROVE MemoryInv'
    <3>1. c \in Callers
      BY DEF Callers
    <3>2. QED BY <2>3, <3>1, StepKeepsMemory
  <2>4. ASSUME NEW c \in Runs, Run(c) PROVE MemoryInv'
    <3>1. c \in Callers
      BY DEF Callers
    <3>2. QED BY <2>4, <3>1, StepKeepsMemory
  <2>5. QED BY <2>1, <2>2, <2>3, <2>4 DEF Next
<1>3. MemoryInv => ConversationKept
  BY EndsIsSuffix DEF MemoryInv, ConversationKept
<1>4. QED BY <1>1, <1>2, <1>3, Invariance, PTL DEF Spec

-----------------------------------------------------------------------------
(* How many pass the limiter. *)

\* Whoever has passed, or will when the counter's answer is looked at.
Passers ==
  {c \in Requests : c \in admitted \/ (at[c] \in {"expire", "ttl"} /\ Allowed(held[c]))}

Since(time) == {c \in Passers : time <= countedAt[c]}
Between(from, to) == {c \in Passers : from <= countedAt[c] /\ countedAt[c] < to}

\* The counter found at `begun' bounds who has passed since; those a window
\* before passed on the counter before it. It lives for a window or more.
CountedFrom(begun) ==
  /\ begun \in Int /\ begun <= now
  /\ Cardinality(Since(begun)) <= Limit
  /\ Cardinality(Between(begun - Window + 1, begun)) <= Limit
  /\ redis[Counter] = {} => begun + Window <= now /\ \A c \in Passers : countedAt[c] < now
  /\ \A e \in redis[Counter] :
       /\ Cardinality(Since(begun)) <= e.value
       /\ e.expires # Never => begun + Window <= e.expires

RequestTypes ==
  /\ countedAt \in [Requests -> Int] /\ admitted \subseteq Requests
  /\ \A c \in Requests : at[c] \in {"expire", "ttl"} => held[c] \in Nat
  /\ \A c \in admitted : at[c] = "done"
  /\ \/ redis[Counter] = {}
     \/ \E e : redis[Counter] = {e} /\ e.value \in Nat /\ e.expires \in Int

PassersInv ==
  /\ IsFiniteSet(Passers) /\ \A c \in Passers : countedAt[c] <= now
  /\ \A start \in Int : Cardinality(Between(start, start + Window)) <= 2 * Limit
  /\ \E begun \in Int : CountedFrom(begun)

LimiterInv == RequestTypes /\ PassersInv

LEMMA SpansFinite ==
  ASSUME PassersInv, NEW a, NEW b
  PROVE  /\ IsFiniteSet(Since(a)) /\ Cardinality(Since(a)) \in Nat
         /\ IsFiniteSet(Between(a, b)) /\ Cardinality(Between(a, b)) \in Nat
<1>1. Since(a) \subseteq Passers /\ Between(a, b) \subseteq Passers
  BY DEF Since, Between
<1>2. QED BY <1>1, FS_Subset, FS_CardinalityType DEF PassersInv

\* Where nobody is added, nothing gets larger.
LEMMA SpansShrink ==
  ASSUME PassersInv, Passers' \subseteq Passers,
         \A c \in Passers' : countedAt'[c] = countedAt[c], NEW a, NEW b
  PROVE  /\ Cardinality(Since(a)') <= Cardinality(Since(a)) /\ Cardinality(Since(a)') \in Nat
         /\ Cardinality(Between(a, b)') <= Cardinality(Between(a, b))
         /\ Cardinality(Between(a, b)') \in Nat
<1>1. Since(a)' \subseteq Since(a) /\ Between(a, b)' \subseteq Between(a, b)
  BY DEF Since, Between
<1>2. QED BY <1>1, SpansFinite, FS_Subset, FS_CardinalityType

\* A step that adds nobody and keeps the counter.
LEMMA NobodyAdded ==
  ASSUME LimiterInv, StoreShape, StoreShape', now <= now',
         Passers' \subseteq Passers, \A c \in Passers' : countedAt'[c] = countedAt[c],
         redis'[Counter] = {} =>
           \/ redis[Counter] = {}
           \/ now < now' /\ \A e \in redis[Counter] : e.expires # Never /\ e.expires <= now',
         \A e \in redis'[Counter] : \E f \in redis[Counter] :
           e.value = f.value /\ (e.expires = f.expires \/ e.expires = now + Window)
  PROVE  PassersInv'
<1>1. Window \in Nat \ {0} /\ Limit \in Nat \ {0} /\ now \in Nat /\ now' \in Nat
      /\ countedAt \in [Requests -> Int] /\ Passers \subseteq Requests
  BY SharedAssumption DEF StoreShape, LimiterInv, RequestTypes, Passers
<1>2. IsFiniteSet(Passers')
  BY FS_Subset DEF LimiterInv, PassersInv
<1>3. \A c \in Passers' : countedAt'[c] <= now'
  BY <1>1 DEF LimiterInv, PassersInv
<1>4. ASSUME NEW start \in Int PROVE Cardinality(Between(start, start + Window)') <= 2 * Limit
  BY <1>1, SpansShrink, SpansFinite DEF LimiterInv, PassersInv
<1>5. PICK begun \in Int : CountedFrom(begun)
  BY DEF LimiterInv, PassersInv
<1>6. /\ Cardinality(Since(begun)') <= Cardinality(Since(begun))
      /\ Cardinality(Since(begun)') \in Nat /\ Cardinality(Since(begun)) \in Nat
      /\ Cardinality(Between(begun - Window + 1, begun)')
           <= Cardinality(Between(begun - Window + 1, begun))
      /\ Cardinality(Between(begun - Window + 1, begun)') \in Nat
      /\ Cardinality(Between(begun - Window + 1, begun)) \in Nat
  BY SpansShrink, SpansFinite DEF LimiterInv
<1>7. ASSUME redis'[Counter] = {}
      PROVE  begun + Window <= now' /\ \A c \in Passers' : countedAt'[c] < now'
  <2>1. CASE redis[Counter] = {}
    BY <1>1, <1>5, <2>1 DEF CountedFrom
  <2>2. CASE redis[Counter] # {}
    <3>1. PICK e \in redis[Counter] : e.expires \in Int /\ e.expires # Never /\ e.expires <= now'
      BY <1>7, <2>2 DEF LimiterInv, RequestTypes
    <3>2. now < now'
      BY <1>7, <2>2
    <3>3. begun + Window <= now'
      BY <1>1, <1>5, <3>1 DEF CountedFrom
    <3>4. QED BY <1>1, <3>2, <3>3 DEF LimiterInv, PassersInv
  <2>3. QED BY <2>1, <2>2
<1>8. ASSUME NEW e \in redis'[Counter]
      PROVE  /\ Cardinality(Since(begun)') <= e.value
             /\ e.expires # Never => begun + Window <= e.expires
  <2>1. PICK f \in redis[Counter] :
          e.value = f.value /\ (e.expires = f.expires \/ e.expires = now + Window)
    BY <1>8
  <2>2. f.value \in Nat
    BY DEF LimiterInv, RequestTypes
  <2>3. QED BY <1>1, <1>5, <1>6, <2>1, <2>2 DEF CountedFrom
<1>9. CountedFrom(begun)'
  BY <1>1, <1>5, <1>6, <1>7, <1>8 DEF CountedFrom
<1>10. QED BY <1>2, <1>3, <1>4, <1>9 DEF PassersInv

\* A count adds its request, now, if its number is allowed.
LEMMA CountAddsOne ==
  ASSUME NEW c \in Requests, IInv, LimiterInv, Count(c)
  PROVE  /\ c \notin Passers /\ now' = now /\ RequestTypes' /\ NextCount \in Nat
         /\ Passers' = IF Allowed(NextCount) THEN Passers \cup {c} ELSE Passers
         /\ countedAt' = [countedAt EXCEPT ![c] = now]
         /\ redis'[Counter] = Counted(redis[Counter])
         /\ \A e \in redis[Counter] : NextCount = e.value + 1
         /\ redis[Counter] = {} => NextCount = 1
<1>1. /\ at[c] = "count" /\ at'[c] = AfterCount(NextCount) /\ held'[c] = NextCount
      /\ countedAt' = [countedAt EXCEPT ![c] = now] /\ admitted' = admitted /\ now' = now
      /\ redis'[Counter] = Counted(redis[Counter])
      /\ \A d \in Requests \ {c} : at'[d] = at[d] /\ held'[d] = held[d]
  BY KeysUsed, StepAlone
     DEF Count, Goes, Incrby, IInv, CallerInv, StoreInv, StoreShape, Callers, Request
<1>2. c \notin admitted /\ c \notin Passers
  BY <1>1 DEF LimiterInv, RequestTypes, Passers
<1>3. /\ NextCount \in Nat /\ \A e \in redis[Counter] : NextCount = e.value + 1
      /\ redis[Counter] = {} => NextCount = 1
  <2>1. CASE redis[Counter] = {}
    BY <2>1 DEF NextCount
  <2>2. CASE redis[Counter] # {}
    <3>1. PICK e : redis[Counter] = {e} /\ e.value \in Nat
      BY <2>2 DEF LimiterInv, RequestTypes
    <3>2. (CHOOSE f \in redis[Counter] : TRUE) = e
      BY <3>1
    <3>3. QED BY <2>2, <3>1, <3>2 DEF NextCount
  <2>3. QED BY <2>1, <2>2
<1>4. at'[c] \in {"expire", "ttl"}
  BY <1>1 DEF AfterCount
<1>5. Passers' = IF Allowed(NextCount) THEN Passers \cup {c} ELSE Passers
  <2>1. \A d \in Requests \ {c} : d \in Passers' <=> d \in Passers
    BY <1>1 DEF Passers
  <2>2. c \in Passers' <=> Allowed(NextCount)
    BY <1>1, <1>2, <1>4 DEF Passers, Allowed
  <2>3. Passers \subseteq Requests /\ Passers' \subseteq Requests
    BY DEF Passers
  <2>4. QED BY <1>2, <2>1, <2>2, <2>3
<1>6. \E e : Counted(redis[Counter]) = {e} /\ e.value \in Nat /\ e.expires \in Int
  <2>1. CASE redis[Counter] = {}
    <3> DEFINE f == [value |-> 1, expires |-> Never]
    <3>1. Counted(redis[Counter]) = {f} /\ f.value \in Nat /\ f.expires \in Int
      BY <2>1 DEF Counted, Never
    <3> HIDE DEF f
    <3>2. QED BY <3>1
  <2>2. CASE redis[Counter] # {}
    <3>1. PICK e : redis[Counter] = {e} /\ e.value \in Nat /\ e.expires \in Int
      BY <2>2 DEF LimiterInv, RequestTypes
    <3> DEFINE f == [value |-> e.value + 1, expires |-> e.expires]
    <3>2. Counted(redis[Counter]) = {f}
      BY <2>2, <3>1 DEF Counted
    <3>3. f.value \in Nat /\ f.expires \in Int
      BY <3>1
    <3> HIDE DEF f
    <3>4. QED BY <3>2, <3>3
  <2>3. QED BY <2>1, <2>2
<1>7. RequestTypes'
  <2>1. now \in Int /\ countedAt' \in [Requests -> Int] /\ admitted' \subseteq Requests
    BY <1>1 DEF LimiterInv, RequestTypes, IInv, StoreInv, StoreShape
  <2>2. \A d \in Requests : at'[d] \in {"expire", "ttl"} => held'[d] \in Nat
    BY <1>1, <1>3 DEF LimiterInv, RequestTypes
  <2>3. \A d \in admitted' : at'[d] = "done"
    BY <1>1, <1>2 DEF LimiterInv, RequestTypes
  <2>4. \E e : redis'[Counter] = {e} /\ e.value \in Nat /\ e.expires \in Int
    BY <1>1, <1>6
  <2>5. QED BY <2>1, <2>2, <2>3, <2>4 DEF RequestTypes
<1>8. QED BY <1>1, <1>2, <1>3, <1>5, <1>7

\* The counter of now bounds the windows that contain now.
LEMMA WindowsBounded ==
  ASSUME NEW c \in Requests, IInv, LimiterInv, Count(c), IsFiniteSet(Passers'),
         NEW begun \in Int, CountedFrom(begun)'
  PROVE  PassersInv'
<1>1. /\ now' = now /\ now \in Nat /\ Window \in Nat \ {0} /\ Limit \in Nat \ {0}
      /\ countedAt \in [Requests -> Int] /\ Passers \subseteq Requests
      /\ Passers' \subseteq Passers \cup {c} /\ countedAt' = [countedAt EXCEPT ![c] = now]
  BY CountAddsOne, SharedAssumption
     DEF LimiterInv, RequestTypes, Passers, IInv, StoreInv, StoreShape
<1>2. \A d \in Passers' : countedAt'[d] \in Int /\ countedAt'[d] <= now'
  BY <1>1 DEF LimiterInv, PassersInv
<1>3. ASSUME NEW start \in Int PROVE Cardinality(Between(start, start + Window)') <= 2 * Limit
  <2>1. CASE start + Window <= now
    <3>1. Between(start, start + Window)' \subseteq Between(start, start + Window)
      BY <1>1, <2>1 DEF Between
    <3>2. /\ Cardinality(Between(start, start + Window)') <= Cardinality(Between(start, start + Window))
          /\ Cardinality(Between(start, start + Window)') \in Nat
      BY <3>1, SpansFinite, FS_Subset, FS_CardinalityType DEF LimiterInv
    <3>3. QED BY <1>1, <3>2, SpansFinite DEF LimiterInv, PassersInv
  <2>2. CASE ~(start + Window <= now)
    <3> DEFINE older == Between(begun - Window + 1, begun)'
               newer == Since(begun)'
    <3>1. Between(start, start + Window)' \subseteq older \cup newer
      BY <1>1, <1>2, <2>2 DEF CountedFrom, Between, Since
    <3>2. older \subseteq Passers' /\ newer \subseteq Passers'
      BY DEF Between, Since
    <3>3. Cardinality(older) <= Limit /\ Cardinality(newer) <= Limit
      BY DEF CountedFrom
    <3> HIDE DEF older, newer
    <3>4. IsFiniteSet(older) /\ IsFiniteSet(newer)
      BY <3>2, FS_Subset
    <3>5. /\ IsFiniteSet(older \cup newer) /\ IsFiniteSet(older \cap newer)
          /\ Cardinality(older \cup newer) =
               Cardinality(older) + Cardinality(newer) - Cardinality(older \cap newer)
      BY <3>4, FS_Union, FS_Subset
    <3>6. /\ Cardinality(Between(start, start + Window)') <= Cardinality(older \cup newer)
          /\ Cardinality(Between(start, start + Window)') \in Nat
      BY <3>1, <3>5, FS_Subset, FS_CardinalityType
    <3>7. /\ Cardinality(older) \in Nat /\ Cardinality(newer) \in Nat
          /\ Cardinality(older \cap newer) \in Nat
      BY <3>4, <3>5, FS_CardinalityType
    <3>8. QED BY <1>1, <3>3, <3>5, <3>6, <3>7
  <2>3. QED BY <2>1, <2>2
<1>4. QED BY <1>2, <1>3 DEF PassersInv

LEMMA CountKeepsLimit ==
  ASSUME NEW c \in Requests, IInv, LimiterInv, Count(c) PROVE LimiterInv'
<1>1. /\ now' = now /\ now \in Nat /\ Window \in Nat \ {0} /\ Limit \in Nat \ {0}
      /\ countedAt \in [Requests -> Int] /\ Passers \subseteq Requests /\ c \notin Passers
      /\ countedAt' = [countedAt EXCEPT ![c] = now] /\ NextCount \in Nat
      /\ IsFiniteSet(Passers) /\ \A d \in Passers : countedAt[d] <= now
      /\ Passers' = IF Allowed(NextCount) THEN Passers \cup {c} ELSE Passers
  BY CountAddsOne, SharedAssumption
     DEF LimiterInv, PassersInv, RequestTypes, Passers, IInv, StoreInv, StoreShape
<1>2. IsFiniteSet(Passers')
  BY <1>1, FS_AddElement
<1>3. PICK begun \in Int : CountedFrom(begun)
  BY DEF LimiterInv, PassersInv
<1>4. /\ IsFiniteSet(Since(begun)) /\ Cardinality(Since(begun)) \in Nat
      /\ IsFiniteSet(Since(begun) \cup {c})
      /\ c \notin Since(begun) /\ Cardinality(Since(begun) \cup {c}) = Cardinality(Since(begun)) + 1
  BY <1>1, SpansFinite, FS_AddElement DEF LimiterInv, Since
<1>5. CASE redis[Counter] = {}
  <2>1. redis'[Counter] = {[value |-> 1, expires |-> Never]} /\ Passers' = Passers \cup {c}
    BY <1>1, <1>5, CountAddsOne DEF Counted, Allowed
  <2>2. begun + Window <= now /\ \A d \in Passers : countedAt[d] < now
    BY <1>3, <1>5 DEF CountedFrom
  <2>3. Since(now)' = {c}
    BY <1>1, <2>1, <2>2 DEF Since
  <2>4. Between(now - Window + 1, now)' \subseteq Since(begun)
    BY <1>1, <2>1, <2>2 DEF Since, Between
  <2>5. Cardinality(Since(now)') = 1
    BY <2>3, FS_Singleton
  <2>6. Cardinality(Between(now - Window + 1, now)') <= Limit
    <3>1. /\ Cardinality(Between(now - Window + 1, now)') <= Cardinality(Since(begun))
          /\ Cardinality(Between(now - Window + 1, now)') \in Nat
      BY <1>4, <2>4, FS_Subset, FS_CardinalityType
    <3>2. QED BY <1>1, <1>3, <1>4, <3>1 DEF CountedFrom
  <2>7. \E b \in Int : CountedFrom(b)'
    <3>1. PICK b \in Int : b = now
      BY <1>1
    <3>2. Since(b)' = Since(now)' /\ Between(b - Window + 1, b)' = Between(now - Window + 1, now)'
      BY <1>1, <3>1 DEF Since, Between
    <3>3. Cardinality(Since(b)') = 1 /\ Cardinality(Between(b - Window + 1, b)') <= Limit
      BY <2>5, <2>6, <3>2
    <3>4. redis'[Counter] # {} /\ \A e \in redis'[Counter] : e.value = 1 /\ e.expires = Never
      BY <2>1
    <3>5. CountedFrom(b)'
      BY <1>1, <3>1, <3>3, <3>4 DEF CountedFrom
    <3>6. QED BY <3>5
  <2>8. QED BY <1>2, <2>7, CountAddsOne, WindowsBounded DEF LimiterInv
<1>6. CASE redis[Counter] # {}
  <2>1. PICK e : redis[Counter] = {e} /\ e.value \in Nat /\ e.expires \in Int
    BY <1>6 DEF LimiterInv, RequestTypes
  <2>2. /\ NextCount = e.value + 1
        /\ redis'[Counter] = {[value |-> e.value + 1, expires |-> e.expires]}
    <3>1. NextCount = e.value + 1 /\ redis'[Counter] = Counted(redis[Counter])
      BY <2>1, CountAddsOne
    <3>2. QED BY <2>1, <3>1 DEF Counted
  <2>3. /\ Cardinality(Since(begun)) <= e.value /\ Cardinality(Since(begun)) <= Limit
        /\ e.expires # Never => begun + Window <= e.expires
        /\ begun <= now
    BY <1>3, <2>1 DEF CountedFrom
  <2>4. Cardinality(Since(begun)') <= Limit /\ Cardinality(Since(begun)') <= e.value + 1
    <3>1. CASE Allowed(NextCount)
      <4>1. Since(begun)' = Since(begun) \cup {c}
        BY <1>1, <2>3, <3>1 DEF Since
      <4>2. QED BY <1>1, <1>4, <2>1, <2>2, <2>3, <3>1, <4>1 DEF Allowed
    <3>2. CASE ~Allowed(NextCount)
      <4>1. Since(begun)' = Since(begun)
        BY <1>1, <3>2 DEF Since
      <4>2. QED BY <1>1, <1>4, <2>1, <2>3, <4>1
    <3>3. QED BY <3>1, <3>2
  <2>5. Between(begun - Window + 1, begun)' = Between(begun - Window + 1, begun)
    BY <1>1, <2>3 DEF Between
  <2>6. CountedFrom(begun)'
    <3>1. /\ redis'[Counter] # {}
          /\ \A f \in redis'[Counter] : f.value = e.value + 1 /\ f.expires = e.expires
      BY <2>2
    <3>2. Cardinality(Between(begun - Window + 1, begun)') <= Limit
      BY <1>3, <2>5 DEF CountedFrom
    <3>3. QED BY <1>1, <2>3, <2>4, <3>1, <3>2 DEF CountedFrom
  <2>7. QED BY <1>2, <2>6, CountAddsOne, WindowsBounded DEF LimiterInv
<1>7. QED BY <1>5, <1>6

\* The other steps of a request add nobody: a count that is looked at makes
\* a passer of one that was to be.
LEMMA RequestKeepsLimit ==
  ASSUME NEW c \in Requests, IInv, LimiterInv, Cap(c) \/ Decide(c) \/ Reject(c)
  PROVE  LimiterInv'
<1>1. /\ c \in Callers /\ Counter \in Keys /\ redis = [key \in Keys |-> redis[key]]
      /\ \A d \in Requests \ {c} : at'[d] = at[d] /\ held'[d] = held[d]
      /\ c \notin Runs /\ Window \in Nat /\ now \in Nat
  BY KeysUsed, StepAlone, SharedAssumption DEF IInv, Callers, Request, StoreInv, StoreShape
<1>2. StoreShape /\ StoreShape'
  BY RequestKeeps DEF IInv, StoreInv, Request
<1>3. CASE Cap(c)
  <2>1. /\ at[c] = "expire" /\ at'[c] = "ttl" /\ held'[c] = held[c]
        /\ UNCHANGED <<now, admitted, countedAt>>
        /\ redis'[Counter] = Renewed(redis[Counter], Window)
    BY <1>1, <1>3 DEF Cap, Goes, Expire, history, IInv, CallerInv
  <2>2. Passers' = Passers
    BY <1>1, <2>1 DEF Passers
  <2>3. /\ redis'[Counter] = {} => redis[Counter] = {}
        /\ \A e \in redis'[Counter] : \E f \in redis[Counter] :
             e.value = f.value /\ e.expires = now + Window
    <3>1. redis'[Counter] =
            {[value |-> f.value, expires |-> now + Window] : f \in redis[Counter]}
      BY <2>1 DEF Renewed
    <3>2. redis'[Counter] = {} => redis[Counter] = {}
      BY <3>1
    <3>3. ASSUME NEW e \in redis'[Counter]
          PROVE  \E f \in redis[Counter] : e.value = f.value /\ e.expires = now + Window
      <4>1. PICK f \in redis[Counter] : e = [value |-> f.value, expires |-> now + Window]
        BY <3>1
      <4>2. QED BY <4>1
    <3>4. QED BY <3>2, <3>3
  <2>4. \/ redis'[Counter] = {}
        \/ \E e : redis'[Counter] = {e} /\ e.value \in Nat /\ e.expires \in Int
    <3>1. CASE redis[Counter] = {}
      BY <2>1, <3>1 DEF Renewed
    <3>2. CASE redis[Counter] # {}
      <4>1. PICK e : redis[Counter] = {e} /\ e.value \in Nat
        BY <3>2 DEF LimiterInv, RequestTypes
      <4> DEFINE f == [value |-> e.value, expires |-> now + Window]
      <4>2. redis'[Counter] = {f} /\ f.value \in Nat /\ f.expires \in Int
        BY <1>1, <2>1, <4>1 DEF Renewed
      <4> HIDE DEF f
      <4>3. QED BY <4>2
    <3>3. QED BY <3>1, <3>2
  <2>5. RequestTypes'
    BY <1>1, <2>1, <2>4 DEF LimiterInv, RequestTypes
  <2>6. PassersInv'
    BY <1>1, <1>2, <2>1, <2>2, <2>3, NobodyAdded
  <2>7. QED BY <2>5, <2>6 DEF LimiterInv
<1>4. CASE Decide(c)
  <2>1. /\ at[c] = "ttl" /\ at'[c] \in {"done", "refused"} /\ UNCHANGED <<now, redis, countedAt>>
        /\ at'[c] = "done" <=> Allowed(held[c])
        /\ admitted' = IF Allowed(held[c]) THEN admitted \cup {c} ELSE admitted
    BY <1>1, <1>4 DEF Decide, Goes, Touch, IInv, CallerInv
  <2>2. Passers' = Passers
    BY <1>1, <2>1 DEF Passers, LimiterInv, RequestTypes
  <2>3. RequestTypes'
    BY <1>1, <2>1 DEF LimiterInv, RequestTypes
  <2>4. PassersInv'
    BY <1>1, <1>2, <2>1, <2>2, NobodyAdded
  <2>5. QED BY <2>3, <2>4 DEF LimiterInv
<1>5. CASE Reject(c)
  <2>1. /\ at[c] # "done" /\ at'[c] \notin {"expire", "ttl"}
        /\ UNCHANGED <<now, redis, countedAt, admitted>>
    BY <1>1, <1>5 DEF Reject, Rejected, AfterRun, Second, Goes, stores, IInv, CallerInv
  <2>2. Passers' \subseteq Passers
    BY <1>1, <2>1 DEF Passers
  <2>3. RequestTypes'
    BY <1>1, <2>1 DEF LimiterInv, RequestTypes
  <2>4. PassersInv'
    BY <1>1, <1>2, <2>1, <2>2, NobodyAdded
  <2>5. QED BY <2>3, <2>4 DEF LimiterInv
<1>6. QED BY <1>3, <1>4, <1>5

\* A clock tick drops the counter when its time has come.
LEMMA PassKeepsLimit ==
  ASSUME IInv, LimiterInv, Pass PROVE LimiterInv'
<1>1. /\ UNCHANGED <<at, held, admitted, countedAt>> /\ now' = now + 1 /\ now \in Nat
      /\ redis'[Counter] = {e \in redis[Counter] : Alive(e, now')}
  BY KeysUsed DEF Pass, Tick, history, IInv, StoreInv, StoreShape
<1>2. Passers' = Passers
  BY <1>1 DEF Passers
<1>3. RequestTypes'
  BY <1>1 DEF LimiterInv, RequestTypes
<1>4. ASSUME redis'[Counter] = {}, NEW e \in redis[Counter] PROVE e.expires # Never /\ e.expires <= now'
  <2>1. e.expires \in Int
    BY DEF LimiterInv, RequestTypes
  <2>2. QED BY <1>1, <1>4, <2>1 DEF Alive
<1>5. StoreShape /\ StoreShape'
  BY PassKeeps DEF IInv, StoreInv
<1>6. now < now' /\ \A e \in redis'[Counter] : e \in redis[Counter]
  BY <1>1
<1>7. PassersInv'
  BY <1>1, <1>2, <1>4, <1>5, <1>6, NobodyAdded
<1>8. QED BY <1>3, <1>7 DEF LimiterInv

LEMMA RunKeepsLimit ==
  ASSUME NEW c \in Runs, IInv, LimiterInv, Run(c) PROVE LimiterInv'
<1>1. /\ \A d \in Requests : at'[d] = at[d] /\ held'[d] = held[d]
      /\ redis'[Counter] = redis[Counter] /\ UNCHANGED <<now, admitted, countedAt>>
  BY RunLeavesCounter
<1>2. Passers' = Passers
  BY <1>1 DEF Passers
<1>3. RequestTypes'
  BY <1>1 DEF LimiterInv, RequestTypes
<1>4. StoreShape /\ StoreShape' /\ now \in Nat
  BY RunKeeps DEF IInv, StoreInv, StoreShape
<1>5. PassersInv'
  BY <1>1, <1>2, <1>4, NobodyAdded
<1>6. QED BY <1>3, <1>5 DEF LimiterInv

LEMMA InitLimiter ==
  ASSUME Init PROVE LimiterInv
<1>1. /\ admitted = {} /\ countedAt = [c \in Requests |-> Never] /\ now = 0 /\ redis[Counter] = {}
      /\ Window \in Nat \ {0} /\ Limit \in Nat \ {0}
  BY KeysUsed, SharedAssumption DEF Init, StoresInit
<1>2. \A c \in Requests : at[c] \notin {"expire", "ttl"}
  BY InitCallers DEF Callers
<1>3. RequestTypes
  BY <1>1, <1>2 DEF RequestTypes, Never
<1>4. Passers = {}
  BY <1>1, <1>2 DEF Passers
<1>5. \A a, b : Since(a) = {} /\ Between(a, b) = {}
  BY <1>4 DEF Since, Between
<1>6. IsFiniteSet({}) /\ Cardinality({}) = 0
  BY FS_EmptySet
<1>7. \E begun \in Int : CountedFrom(begun)
  <2>1. PICK begun \in Int : begun = 0 - Window
    BY <1>1
  <2>2. Cardinality(Since(begun)) = 0 /\ Cardinality(Between(begun - Window + 1, begun)) = 0
    BY <1>5, <1>6
  <2>3. CountedFrom(begun)
    BY <1>1, <1>4, <2>1, <2>2 DEF CountedFrom
  <2>4. QED BY <2>3
<1>8. PassersInv
  <2>1. \A start \in Int : Cardinality(Between(start, start + Window)) <= 2 * Limit
    BY <1>1, <1>5, <1>6
  <2>2. QED BY <1>4, <1>6, <1>7, <2>1 DEF PassersInv
<1>9. QED BY <1>3, <1>8 DEF LimiterInv

\* However many requests come, however their counts, expiries and readings of
\* the counter interleave or fail, and whatever the limit and the window, no
\* span of a window's length has more than twice the limit admitted
\* (rate-limit.ts:28-53).
THEOREM BurstsAlwaysBounded == Spec => []BurstBounded
<1>1. Init => LimiterInv
  BY InitLimiter
<1>2. IInv /\ LimiterInv /\ [Next]_vars => LimiterInv'
  <2> SUFFICES ASSUME IInv, LimiterInv, [Next]_vars PROVE LimiterInv'
    OBVIOUS
  <2>1. CASE UNCHANGED vars
    BY <2>1 DEF LimiterInv, RequestTypes, PassersInv, CountedFrom, Since, Between, Passers,
                vars, stores, history
  <2>2. CASE Pass
    BY <2>2, PassKeepsLimit
  <2>3. ASSUME NEW c \in Requests, Request(c) PROVE LimiterInv'
    BY <2>3, CountKeepsLimit, RequestKeepsLimit DEF Request
  <2>4. ASSUME NEW c \in Runs, Run(c) PROVE LimiterInv'
    BY <2>4, RunKeepsLimit
  <2>5. QED BY <2>1, <2>2, <2>3, <2>4 DEF Next
<1>3. IInv /\ LimiterInv => BurstBounded
  <2> SUFFICES ASSUME IInv, LimiterInv, NEW start \in 0..MaxTime
               PROVE  Cardinality({c \in admitted : countedAt[c] \in start..(start + Window - 1)})
                        <= 2 * Limit
    BY DEF BurstBounded
  <2> DEFINE counted == {c \in admitted : countedAt[c] \in start..(start + Window - 1)}
  <2>1. counted \subseteq Between(start, start + Window)
    BY SharedAssumption, ClockAssumption DEF Between, Passers, LimiterInv, RequestTypes
  <2>2. /\ Cardinality(counted) <= Cardinality(Between(start, start + Window))
        /\ Cardinality(counted) \in Nat
    BY <2>1, SpansFinite, FS_Subset, FS_CardinalityType DEF LimiterInv
  <2>3. Cardinality(Between(start, start + Window)) <= 2 * Limit
    BY DEF LimiterInv, PassersInv
  <2>4. QED BY <2>2, <2>3, SpansFinite, SharedAssumption DEF LimiterInv
<1>4. QED BY <1>1, <1>2, <1>3, Invariance, PTL DEF Spec
=============================================================================
