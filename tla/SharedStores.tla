---------------------------- MODULE SharedStores ----------------------------
(***************************************************************************)
(* What tasks that know nothing of each other share: the counter that      *)
(* limits an identity, the answer cache with its hot and durable copies,   *)
(* the outcomes of a provider key, the calibration row of a (task type,    *)
(* role), and the memory of a session. A request is counted and let        *)
(* through or refused. The run of a task runs a subtask - on two models    *)
(* when it is an ensemble - records it, and is remembered. A step is what  *)
(* happens between two awaits.                                             *)
(***************************************************************************)
EXTENDS HotStore, FiniteSets, SequencesExt

CONSTANTS
  Requests,        \* requests of one identity to one bucket
  Runs,            \* task runs of one session
  Ensembles,       \* runs whose subtask is an ensemble
  Models, Prompts,
  PromptOf,        \* the prompt of the run's subtask; it names the role
  Similar,         \* pairs of prompts above the similarity threshold
  Counter,         \* the key of the identity's bucket
  Session,         \* the key of the session's memory
  Health,          \* the key of the provider key's outcomes
  Former,          \* a task of the session that was remembered before
  Limit, Window,   \* the rule of the bucket
  MaxEntries, MemoryTtl, CacheTtl, HealthWindow,
  MaxFaults,       \* bound: rejected calls
  Nothing          \* nothing is held across the await

ASSUME SharedAssumption ==
  /\ Requests \cap Runs = {}
  /\ Ensembles \subseteq Runs /\ PromptOf \in [Runs -> Prompts]
  /\ \A p \in Prompts : <<p, p>> \in Similar
  /\ {Limit, Window, MaxEntries, MemoryTtl, CacheTtl, HealthWindow} \subseteq Nat \ {0}
  /\ MaxFaults \in Nat
  /\ Keys = {Counter, Session, Health} \cup Models \X Prompts
  /\ Counter # Session /\ Health \notin {Counter, Session}
  /\ {Counter, Session, Health} \cap (Models \X Prompts) = {}

VARIABLES
  at,          \* per request and run: what it does next
  held,        \* what it holds across the await
  model,       \* the model its current run is routed to
  answers,     \* the answers it got, one per run
  rows,        \* the SemanticCache table, per key
  samples,     \* sampleCount of the calibration row
  faults,
  countedAt,   \* history: when the caller was counted
  admitted,    \* history: who passed the limiter
  written,     \* history: who was remembered, in order
  ingested,    \* history: samples written
  raced,       \* history: rows and lists read while another write was under way
  uncapped     \* history: a call failed between the count and its expiry

vars == <<stores, at, held, model, answers, rows, samples, faults,
          countedAt, admitted, written, ingested, raced, uncapped>>
task == <<model, answers>>
tables == <<rows, samples>>
history == <<countedAt, admitted, written, ingested, raced, uncapped>>

Callers == Requests \cup Runs

\* An answer is told by the model and the prompt it was bought for.
Answer == Models \X Prompts

\* Rows of earlier tasks are of prompts that no run here asks.
Earlier == {key \in Answer : key[2] \notin Range(PromptOf)}

Labels == {"count", "expire", "ttl", "get", "durable", "warm", "scan", "health", "window",
           "put", "hot", "sample", "upsert", "read", "write", "done", "refused", "failed"}

\* Requests and runs share nothing but the clock: either is under way.
Init ==
  /\ StoresInit([key \in Keys |->
       IF key = Session THEN {[value |-> <<Former>>, expires |-> MemoryTtl]} ELSE {}])
  /\ \E active \in {Requests, Runs} :
       at = [c \in Callers |->
         IF c \notin active THEN "done" ELSE IF c \in Requests THEN "count" ELSE "get"]
  /\ held = [c \in Callers |-> Nothing]
  /\ model \in [Runs -> Models]
  /\ answers = [c \in Runs |-> <<>>]
  /\ \E old \in SUBSET Earlier :
       rows = [key \in Answer |->
         IF key \in old THEN {[answer |-> key, expires |-> CacheTtl]} ELSE {}]
  /\ samples = 0 /\ faults = 0
  /\ countedAt = [c \in Requests |-> Never]
  /\ admitted = {} /\ written = <<Former>> /\ ingested = 0 /\ raced = {} /\ uncapped = FALSE

Goes(c, label, value) ==
  /\ at' = [at EXCEPT ![c] = label]
  /\ held' = [held EXCEPT ![c] = value]

-----------------------------------------------------------------------------
(* checkRateLimit. *)

NextCount == IF redis[Counter] = {} THEN 1 ELSE (CHOOSE e \in redis[Counter] : TRUE).value + 1

\* Slip: the expiry is set by the second call.
AfterCountLate(count) == IF count = 2 THEN "expire" ELSE "ttl"

AfterCount(count) == IF count = 1 THEN "expire" ELSE "ttl"

Count(c) ==
  /\ at[c] = "count"
  /\ Incrby(Counter)
  /\ Goes(c, AfterCount(NextCount), NextCount)
  /\ countedAt' = [countedAt EXCEPT ![c] = now]
  /\ UNCHANGED <<task, tables, faults, admitted, written, ingested, raced, uncapped>>

Cap(c) ==
  /\ at[c] = "expire"
  /\ Expire(Counter, Window)
  /\ Goes(c, "ttl", held[c])
  /\ UNCHANGED <<task, tables, faults, history>>

\* Slip: one too many.
AllowedOneMore(count) == count <= Limit + 1

Allowed(count) == count <= Limit

\* The hook: 429, or on to the route.
Decide(c) ==
  /\ at[c] = "ttl"
  /\ Touch(Counter)
  /\ Goes(c, IF Allowed(held[c]) THEN "done" ELSE "refused", Nothing)
  /\ admitted' = IF Allowed(held[c]) THEN admitted \cup {c} ELSE admitted
  /\ UNCHANGED <<task, tables, faults, countedAt, written, ingested, raced, uncapped>>

-----------------------------------------------------------------------------
(* SemanticCache inside invoke.                                            *)

Prompt(c) == PromptOf[c]
CacheKey(c) == <<model[c], Prompt(c)>>

\* executeEnsemble: after the first of two runs once more, on a model other
\* than the one that answered; then the task is remembered.
Second(c, got) ==
  /\ c \in Ensembles /\ Len(got) = 1
  /\ \E other \in Models \ {got[1][1]} : model' = [model EXCEPT ![c] = other]
  /\ Goes(c, "get", Nothing)

AfterRun(c, got) ==
  \/ Second(c, got)
  \/ /\ c \in Ensembles => Len(got) = 2 \/ Models \subseteq {got[1][1]}
     /\ Goes(c, "read", Nothing) /\ UNCHANGED model

\* executeSubTask: a cached answer teaches the calibration nothing.
ServeCached(c, answer) ==
  /\ answers' = [answers EXCEPT ![c] = Append(@, answer)]
  /\ AfterRun(c, answers'[c])

ServeBought(c, answer) ==
  /\ answers' = [answers EXCEPT ![c] = Append(@, answer)]
  /\ Goes(c, "sample", Nothing) /\ UNCHANGED model

Lookup(c) ==
  /\ at[c] = "get"
  /\ Touch(CacheKey(c))
  /\ \/ \E hot \in Values(CacheKey(c)) : ServeCached(c, hot)
     \/ Values(CacheKey(c)) = {} /\ Goes(c, "durable", Nothing) /\ UNCHANGED <<model, answers>>
  /\ UNCHANGED <<tables, faults, history>>

Fresh(key) == {row \in rows[key] : row.expires > now}

LookupDurable(c) ==
  /\ at[c] = "durable"
  /\ \/ \E row \in Fresh(CacheKey(c)) :
          Goes(c, "warm", [answer |-> row.answer, ttl |-> row.expires - now])
     \/ Fresh(CacheKey(c)) = {} /\ Goes(c, "scan", Nothing)
  /\ UNCHANGED <<stores, task, tables, faults, history>>

\* warm with what is left of the row's life.
Warm(c) ==
  /\ at[c] = "warm"
  /\ Setex(CacheKey(c), held[c].ttl, held[c].answer)
  /\ ServeCached(c, held[c].answer)
  /\ UNCHANGED <<tables, faults, history>>

\* findSimilar: rows of the role, whatever provider and model they are of. An
\* equal prompt scores 1 and no other scores more. Without one the provider is
\* asked, and answers (KeyPool has its failures).
Candidates(c) == {key \in DOMAIN rows : Fresh(key) # {} /\ <<key[2], Prompt(c)>> \in Similar}
Best(c) ==
  LET equal == {key \in Candidates(c) : key[2] = Prompt(c)}
  IN  IF equal # {} THEN equal ELSE Candidates(c)

FindSimilar(c) ==
  /\ at[c] = "scan"
  /\ \/ \E key \in Best(c) : \E row \in Fresh(key) : ServeCached(c, row.answer)
     \/ Best(c) = {} /\ Goes(c, "health", CacheKey(c)) /\ UNCHANGED <<model, answers>>
  /\ UNCHANGED <<stores, tables, faults, history>>

\* recordSuccess: the outcomes of the key are read and written back, the last
\* HealthWindow of them (they are counted here; KeyPool has the score, and the
\* quota and the latency that are written before).
Outcomes == IF redis[Health] = {} THEN 0 ELSE (CHOOSE e \in redis[Health] : TRUE).value

ReadHealth(c) ==
  /\ at[c] = "health"
  /\ Touch(Health)
  /\ Goes(c, "window", [answer |-> held[c], outcomes |-> Outcomes])
  /\ UNCHANGED <<task, tables, faults, history>>

PushHealth(c) ==
  /\ at[c] = "window"
  /\ Set(Health, IF held[c].outcomes < HealthWindow THEN held[c].outcomes + 1 ELSE HealthWindow)
  /\ Goes(c, "put", held[c].answer)
  /\ UNCHANGED <<task, tables, faults, history>>

\* set: the durable row, whose failure is logged and forgotten, then the hot one.
Put(c) ==
  /\ at[c] = "put"
  /\ \/ /\ rows' = [rows EXCEPT
              ![CacheKey(c)] = {[answer |-> held[c], expires |-> now + CacheTtl]}]
        /\ faults' = faults
     \/ faults < MaxFaults /\ faults' = faults + 1 /\ rows' = rows
  /\ Goes(c, "hot", held[c])
  /\ UNCHANGED <<stores, task, samples, history>>

PutHot(c) ==
  /\ at[c] = "hot"
  /\ Setex(CacheKey(c), CacheTtl, held[c])
  /\ ServeBought(c, held[c])
  /\ UNCHANGED <<tables, faults, history>>

-----------------------------------------------------------------------------
(* CalibrationEngine.ingest and ContextMemory.remember: read, then write.  *)

\* Another caller is between its read and its write.
Overlaps(c, writing) == \E d \in Runs \ {c} : at[d] = writing

ReadSample(c) ==
  /\ at[c] = "sample"
  /\ Goes(c, "upsert", samples)
  /\ raced' = IF Overlaps(c, "upsert") THEN raced \cup {"samples"} ELSE raced
  /\ UNCHANGED <<stores, task, tables, faults, countedAt, admitted, written, ingested, uncapped>>

\* Slip: one sample for each answer so far.
UpsertPerAnswer(c) ==
  /\ at[c] = "upsert"
  /\ AfterRun(c, answers[c])
  /\ samples' = held[c] + Len(answers[c]) /\ ingested' = ingested + 1
  /\ UNCHANGED <<stores, answers, rows, faults, countedAt, admitted, written, raced, uncapped>>

Upsert(c) ==
  /\ at[c] = "upsert"
  /\ AfterRun(c, answers[c])
  /\ samples' = held[c] + 1 /\ ingested' = ingested + 1
  /\ UNCHANGED <<stores, answers, rows, faults, countedAt, admitted, written, raced, uncapped>>

Remembered == IF redis[Session] = {} THEN <<>> ELSE (CHOOSE e \in redis[Session] : TRUE).value

ReadMemory(c) ==
  /\ at[c] = "read"
  /\ Touch(Session)
  /\ Goes(c, "write", Remembered)
  /\ raced' = IF Overlaps(c, "write") THEN raced \cup {"session"} ELSE raced
  /\ UNCHANGED <<task, tables, faults, countedAt, admitted, written, ingested, uncapped>>

\* Slip: the oldest entries are kept.
TrimmedTail(list) == IF Len(list) > MaxEntries THEN SubSeq(list, 1, MaxEntries) ELSE list

\* entries.slice(-MAX_ENTRIES)
Trimmed(list) ==
  IF Len(list) > MaxEntries THEN SubSeq(list, Len(list) - MaxEntries + 1, Len(list)) ELSE list

Remember(c) ==
  /\ at[c] = "write"
  /\ Setex(Session, MemoryTtl, Trimmed(Append(held[c], c)))
  /\ Goes(c, "done", Nothing)
  /\ written' = Append(written, c)
  /\ UNCHANGED <<task, tables, faults, countedAt, admitted, ingested, raced, uncapped>>

-----------------------------------------------------------------------------
(* A call to a store or a provider is rejected. recordSubtask swallows it; *)
(* one after the answer, of the key's outcomes or of the hot copy, is      *)
(* taken for a failed attempt; the second run of an ensemble may fail      *)
(* without the first; anywhere else the request or the task fails.         *)

Rejected(c) ==
  \/ /\ at[c] \in {"health", "window", "hot"} /\ Goes(c, "get", Nothing)
     /\ \E other \in Models : model' = [model EXCEPT ![c] = other]
  \/ at[c] \in {"sample", "upsert"} /\ AfterRun(c, answers[c])
  \/ /\ at[c] \in {"get", "durable", "warm", "scan"} /\ answers[c] # <<>>
     /\ Goes(c, "read", Nothing) /\ UNCHANGED model
  \/ /\ at[c] \in {"get", "durable", "warm", "scan"} => answers[c] = <<>>
     /\ at[c] \notin {"health", "window", "hot", "sample", "upsert"}
     /\ Goes(c, "failed", Nothing) /\ UNCHANGED model

Reject(c) ==
  /\ at[c] \notin {"put", "done", "refused", "failed"} /\ faults < MaxFaults
  /\ faults' = faults + 1
  /\ Rejected(c)
  /\ uncapped' = (uncapped \/ at[c] = "expire")
  /\ UNCHANGED <<stores, answers, tables, countedAt, admitted, written, ingested, raced>>

Request(c) == Count(c) \/ Cap(c) \/ Decide(c) \/ Reject(c)

Run(c) ==
  \/ Lookup(c) \/ LookupDurable(c) \/ Warm(c) \/ FindSimilar(c)
  \/ ReadHealth(c) \/ PushHealth(c)
  \/ Put(c) \/ PutHot(c) \/ ReadSample(c) \/ Upsert(c)
  \/ ReadMemory(c) \/ Remember(c) \/ Reject(c)

Pass == Tick /\ UNCHANGED <<at, held, task, tables, faults, history>>

Next == Pass \/ (\E c \in Requests : Request(c)) \/ (\E c \in Runs : Run(c))

Spec == Init /\ [][Next]_vars

-----------------------------------------------------------------------------
(* Properties. *)

TypeOK ==
  /\ at \in [Callers -> Labels]
  /\ model \in [Runs -> Models]
  /\ \A c \in Runs : answers[c] \in BoundedSeq(Answer, 2)
  /\ \A c \in Callers :
       /\ at[c] \in {"expire", "ttl", "upsert"} => held[c] \in Nat
       /\ at[c] = "warm" => held[c].answer \in Answer /\ held[c].ttl \in 1..CacheTtl
       /\ at[c] \in {"health", "put", "hot"} => held[c] \in Answer
       /\ at[c] = "window" => held[c].answer \in Answer /\ held[c].outcomes \in 0..HealthWindow
       /\ at[c] = "write" => Range(held[c]) \subseteq Runs \cup {Former} /\ Len(held[c]) <= MaxEntries
  /\ now \in 0..MaxTime /\ faults \in 0..MaxFaults /\ samples \in Nat

\* The header of rate-limit.ts speaks of a sliding window; the counter starts a
\* fixed one (30). What that gives: in no span as long as the window are more
\* than twice the limit admitted, however count, expiry and reading of the
\* counter interleave.
BurstBounded ==
  \A start \in 0..MaxTime :
    Cardinality({c \in admitted : countedAt[c] \in start..(start + Window - 1)}) <= 2 * Limit

\* count and expiry are two calls (rate-limit.ts:28-30): the counter of an
\* identity lives for ever only if a call failed exactly between them.
CounterExpires ==
  \A e \in redis[Counter] :
    e.expires = Never => uncapped \/ \E c \in Requests : at[c] = "expire"

\* remember reads the list and writes it back (context-memory.ts:29-34): unless
\* two did so at once, the list is the end of what was remembered, in order.
ConversationKept ==
  "session" \notin raced => \A list \in Values(Session) : IsSuffix(list, written)

\* ingest reads the row and upserts it (calibration.ts:36-77): a sample is lost
\* only to one ingested at the same time, and none is counted twice.
SamplesCounted == samples <= ingested /\ ("samples" \notin raced => samples = ingested)

\* "run the node on two different models and keep the more confident answer"
\* (scheduler.ts:212-213): the two answers of an ensemble are of two models.
EnsembleAsksTwoModels ==
  \A c \in Runs : Len(answers[c]) = 2 => answers[c][1][1] # answers[c][2][1]
=============================================================================
