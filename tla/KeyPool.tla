------------------------------ MODULE KeyPool ------------------------------
(***************************************************************************)
(* The provider keys (keys/manager.ts, keys/rotator.ts), shared by every   *)
(* invocation in flight, and the attempt loop of SubTaskExecutor.invoke    *)
(* with its router (core/agents/router.ts, core/providers/registry.ts).    *)
(*                                                                         *)
(* What is known of a key lives in two stores no transaction spans: its    *)
(* row in the database and, in the KV store, its place in the health       *)
(* index, its cooldown and its recent outcomes.  Every update reads the    *)
(* row, awaits, and writes back, so updates of one key interleave.         *)
(*                                                                         *)
(* The scan that hands out a key asks for the cooldown and then for the    *)
(* row, each an await.  The scans that only survey the providers are one   *)
(* step: their answer is used only after those awaits.                     *)
(***************************************************************************)
EXTENDS Integers, FiniteSets, SequencesExt

CONSTANTS
  Callers,        \* concurrent invocations
  Keys,           \* provider keys, registered or not
  EnvKeys,        \* those of the environment, imported at the first boot
  Provider,       \* [Keys -> provider]
  Priority,       \* [Keys -> 1..100]
  QuotaLimit,     \* [Keys -> Nat], in answered calls; Unlimited for null
  ModelProvider,  \* [model -> provider], Mock among them
  Fit, Relaxed,   \* models by score: with all, with one required capability
  Mock, MockKey,  \* the keyless provider and its lease
  HealthWindow,   \* HEALTH_WINDOW
  MaxAttempts,    \* [Callers -> Nat], options.maxAttempts or the configured default
  MaxTroubles     \* bound on registrations, restarts and store faults together

Models == DOMAIN ModelProvider
Providers == { ModelProvider[m] : m \in Models }
Full == 20                        \* health in twentieths
Absent == -1                      \* not in the index
Unlimited == -1

ASSUME KeysAssumption ==
  /\ IsFiniteSet(Callers) /\ IsFiniteSet(Keys) /\ EnvKeys \subseteq Keys /\ MockKey \notin Keys
  /\ Provider \in [Keys -> Providers \ {Mock}]
  /\ Priority \in [Keys -> 1..100]
  /\ QuotaLimit \in [Keys -> Nat \cup {Unlimited}]
ASSUME KeyBoundsAssumption ==
  /\ HealthWindow \in Nat \ {0} /\ MaxTroubles \in Nat
  /\ MaxAttempts \in [Callers -> Nat \ {0}]

VARIABLES
  known,     \* keys with a row
  active, quotaUsed, health,  \* columns of the rows
  index,     \* sorted set key:manager:*, Absent where zrem
  cooling,   \* keys with a live key:ratelimit entry
  history,   \* key:health:*, the latest outcomes
  caller,    \* per invocation, where invoke stands
  admin,     \* where addKey stands
  standing,  \* per key: "fresh", "rejected" (by its provider, or not to be
             \* decrypted), "readded"
  answered,  \* per key, the calls it really answered
  troubles   \* registrations, restarts and store faults so far

rows == <<known, active, quotaUsed, health>>
store == <<index, cooling, history>>
vars == <<rows, store, caller, admin, standing, answered, troubles>>

ErrorKinds == {"RATE_LIMIT", "AUTH", "SERVER_ERROR", "TIMEOUT", "BAD_REQUEST", "UNKNOWN"}
Scanning == {"lease", "scan", "fetch", "drop"}
Settling == {"read", "write", "index", "store"}

\* The latest outcomes of a key, at most HEALTH_WINDOW of them.
Outcomes == UNION { [1..n -> BOOLEAN] : n \in 0..HealthWindow }

Invocation ==
  [stage : {"idle", "route", "call", "done", "failed"} \cup Scanning \cup Settling,
   attempt : Nat,
   triedKeys : SUBSET (Keys \cup {MockKey}), triedModels : SUBSET Models,
   available : SUBSET Providers,      \* getAvailableProviders
   turn : Nat, ranked : Seq(Keys),    \* the candidate, and what is left of its scan
   key : Keys \cup {MockKey, "none"}, model : Models \cup {"none"},
   kind : ErrorKinds \cup {"none", "OK"},
   seen : [active : BOOLEAN, quotaUsed : Nat, health : 0..Full,  \* the row read
           history : Outcomes]]

TypeOK ==
  /\ known \in SUBSET Keys
  /\ active \in [Keys -> BOOLEAN]
  /\ quotaUsed \in [Keys -> Nat]
  /\ health \in [Keys -> 0..Full]
  /\ index \in [Keys -> Int]
  /\ cooling \in SUBSET known
  /\ history \in [Keys -> Outcomes]
  /\ \A c \in Callers : caller[c] \in Invocation /\ caller[c].attempt <= MaxAttempts[c]
  /\ admin \in [stage : {"idle", "index"}, key : Keys \cup {"none"}, active : BOOLEAN,
               health : 0..Full]
  /\ standing \in [Keys -> {"fresh", "rejected", "readded"}]
  /\ answered \in [Keys -> Nat]
  /\ troubles \in 0..MaxTroubles

Nothing == [active |-> FALSE, quotaUsed |-> 0, health |-> 0, history |-> <<>>]
At(stage, attempt, triedKeys, triedModels) ==
  [stage |-> stage, attempt |-> attempt, triedKeys |-> triedKeys,
   triedModels |-> triedModels, available |-> {}, turn |-> 0, ranked |-> <<>>,
   key |-> "none", model |-> "none", kind |-> "none", seen |-> Nothing]
Over(stage) == At(stage, 0, {}, {})
NoAdmin == [stage |-> "idle", key |-> "none", active |-> FALSE, health |-> 0]

Trouble == troubles < MaxTroubles /\ troubles' = troubles + 1

\* indexKey: priority breaks ties of health and outweighs none.
Score(k, h) == 101 * h + (101 - Priority[k])

Indexed(k, isActive, h) == IF isActive THEN Score(k, h) ELSE Absent

Init ==
  /\ known = EnvKeys
  /\ active = [k \in Keys |-> k \in EnvKeys]
  /\ quotaUsed = [k \in Keys |-> 0]
  /\ health = [k \in Keys |-> Full]
  /\ index = [k \in Keys |-> Indexed(k, k \in EnvKeys, Full)]
  /\ cooling = {}
  /\ history = [k \in Keys |-> <<>>]
  /\ caller = [c \in Callers |-> Over("idle")]
  /\ admin = NoAdmin
  /\ standing = [k \in Keys |-> "fresh"]
  /\ answered = [k \in Keys |-> 0]
  /\ troubles = 0

-----------------------------------------------------------------------------
(* getBestKey.                                                             *)

Exhausted(k) == QuotaLimit[k] # Unlimited /\ quotaUsed[k] >= QuotaLimit[k]

Usable(k) == index[k] # Absent /\ k \notin cooling /\ active[k] /\ ~Exhausted(k)

Available(p) == p = Mock \/ \E k \in Keys : Provider[k] = p /\ Usable(k)

\* Inactive keys a scan comes across before a usable one are dropped.
Passed(p) ==
  { k \in Keys \ cooling :
      /\ Provider[k] = p /\ index[k] # Absent /\ ~active[k]
      /\ \A j \in Keys : Provider[j] = p /\ Usable(j) => index[j] < index[k] }

DropPassed ==
  index' = [k \in Keys |-> IF \E p \in Providers : k \in Passed(p) THEN Absent ELSE index[k]]

\* zrevrange, without what is excluded: the best key first.
Rankings(p, excluded) ==
  LET offered == { k \in Keys \ excluded : Provider[k] = p /\ index[k] # Absent }
  IN  { ranked \in SetToSeqs(offered) :
          \A i, j \in DOMAIN ranked : i < j => index[ranked[i]] >= index[ranked[j]] }

-----------------------------------------------------------------------------
(* The attempt loop.                                                       *)

Becomes(c, invocation) == caller' = [caller EXCEPT ![c] = invocation]

Leased(i, k, model) ==
  [i EXCEPT !.stage = "call", !.key = k, !.model = model, !.available = {}, !.turn = 0,
            !.ranked = <<>>]

BeginInvoke(c) ==
  /\ caller[c].stage = "idle"
  /\ Becomes(c, At("route", 1, {}, {}))
  /\ UNCHANGED <<rows, store, admin, standing, answered, troubles>>

\* route, first half: getAvailableProviders.
Survey(c) ==
  /\ caller[c].stage = "route"
  /\ LET available == { p \in Providers : Available(p) }
     IN  Becomes(c, IF available = {} THEN Over("failed")
                    ELSE [caller[c] EXCEPT !.stage = "lease", !.available = available])
  /\ DropPassed
  /\ UNCHANGED <<rows, cooling, history, admin, standing, answered, troubles>>

\* rank: Mock is considered only when it stands alone.
Rank(c, models) ==
  LET keyed == caller[c].available \ {Mock}
      considered == IF keyed # {} THEN keyed ELSE caller[c].available
  IN  SelectSeq(models, LAMBDA m : /\ ModelProvider[m] \in considered
                                   /\ m \notin caller[c].triedModels)

Candidates(c) == IF Rank(c, Fit) # <<>> THEN Rank(c, Fit) ELSE Rank(c, Relaxed)

\* The scan of a candidate's keys goes on, or is over without a key.
GoesOn(i, ranked) ==
  [i EXCEPT !.stage = IF ranked = <<>> THEN "lease" ELSE "scan", !.ranked = ranked]

\* route, second half: each candidate in turn, until getBestKey has a key.
NextCandidate(c) ==
  LET i == caller[c]
      turn == i.turn + 1
      p == ModelProvider[Candidates(c)[turn]] IN
  /\ i.stage = "lease"
  /\ \/ /\ turn > Len(Candidates(c))
        /\ Becomes(c, Over("failed"))
     \/ /\ turn <= Len(Candidates(c)) /\ p = Mock
        /\ Becomes(c, IF MockKey \in i.triedKeys THEN [i EXCEPT !.turn = turn]
                      ELSE Leased(i, MockKey, Candidates(c)[turn]))
     \/ /\ turn <= Len(Candidates(c)) /\ p # Mock
        /\ \E ranked \in Rankings(p, i.triedKeys) :
             Becomes(c, GoesOn([i EXCEPT !.turn = turn], ranked))
  /\ UNCHANGED <<rows, store, admin, standing, answered, troubles>>

\* exists: is the next key cooling down?
LookAtCooldown(c) ==
  LET i == caller[c] IN
  /\ i.stage = "scan"
  /\ Becomes(c, IF Head(i.ranked) \in cooling THEN GoesOn(i, Tail(i.ranked))
                ELSE [i EXCEPT !.stage = "fetch"])
  /\ UNCHANGED <<rows, store, admin, standing, answered, troubles>>

\* Slip: the index is trusted to hold active keys only.
LookAtRowIndexed(c) ==
  LET i == caller[c] IN
  /\ i.stage = "fetch"
  /\ Becomes(c, IF Exhausted(Head(i.ranked))
                THEN GoesOn(i, Tail(i.ranked))
                ELSE Leased(i, Head(i.ranked), Candidates(c)[i.turn]))
  /\ UNCHANGED <<rows, store, admin, standing, answered, troubles>>

\* getProviderKey, and what its answer decides before the next await.
LookAtRow(c) ==
  LET i == caller[c]
      k == Head(i.ranked) IN
  /\ i.stage = "fetch"
  /\ Becomes(c, IF ~active[k] THEN [i EXCEPT !.stage = "drop"]
                ELSE IF Exhausted(k) THEN GoesOn(i, Tail(i.ranked))
                ELSE Leased(i, k, Candidates(c)[i.turn]))
  /\ UNCHANGED <<rows, store, admin, standing, answered, troubles>>

\* What cannot be decrypted is deactivated.
Deactivate(c) ==
  LET i == caller[c]
      k == Head(i.ranked) IN
  /\ i.stage = "fetch" /\ active[k] /\ ~Exhausted(k) /\ Trouble
  /\ active' = [active EXCEPT ![k] = FALSE]
  /\ standing' = [standing EXCEPT ![k] = "rejected"]
  /\ Becomes(c, [i EXCEPT !.stage = "drop"])
  /\ UNCHANGED <<known, quotaUsed, health, store, admin, answered>>

\* zrem, whatever the row has become.
Drop(c) ==
  LET i == caller[c] IN
  /\ i.stage = "drop"
  /\ index' = [index EXCEPT ![Head(i.ranked)] = Absent]
  /\ Becomes(c, GoesOn(i, Tail(i.ranked)))
  /\ UNCHANGED <<rows, cooling, history, admin, standing, answered, troubles>>

HitCache(c) ==
  /\ caller[c].stage = "call"
  /\ Becomes(c, Over("done"))
  /\ UNCHANGED <<rows, store, admin, standing, answered, troubles>>

AnswerCall(c) ==
  /\ caller[c].stage = "call"
  /\ Becomes(c, [caller[c] EXCEPT !.stage = "read", !.kind = "OK"])
  /\ answered' = [k \in Keys |-> IF k = caller[c].key THEN answered[k] + 1 ELSE answered[k]]
  /\ UNCHANGED <<rows, store, admin, standing, troubles>>

FailCall(c, kind) ==
  /\ caller[c].stage = "call"
  /\ Becomes(c, [caller[c] EXCEPT !.stage = "read", !.kind = kind])
  /\ UNCHANGED <<rows, store, admin, standing, answered, troubles>>

-----------------------------------------------------------------------------
(* After a failure: the rotator's decision.                                *)

RetrySameKey(kind, attempt) ==
  \/ kind = "SERVER_ERROR" /\ attempt < 3
  \/ kind = "TIMEOUT" /\ attempt < 2

RotateKey(kind, attempt) ==
  \/ kind \in {"RATE_LIMIT", "AUTH"}
  \/ kind = "UNKNOWN" /\ attempt < 2

\* Slip: a retry on the same key is not counted.
AfterFailureUncounted(c) ==
  LET i == caller[c]
      retry == RetrySameKey(i.kind, i.attempt)
  IN  IF i.attempt >= MaxAttempts[c] THEN Over("failed")
      ELSE At("route", IF retry THEN i.attempt ELSE i.attempt + 1,
              IF retry THEN i.triedKeys ELSE i.triedKeys \cup {i.key},
              IF retry \/ RotateKey(i.kind, i.attempt) THEN i.triedModels
              ELSE i.triedModels \cup {i.model})

AfterFailure(c) ==
  LET i == caller[c]
      retry == RetrySameKey(i.kind, i.attempt)
  IN  IF i.attempt >= MaxAttempts[c] THEN Over("failed")
      ELSE At("route", i.attempt + 1,
              IF retry THEN i.triedKeys ELSE i.triedKeys \cup {i.key},
              IF retry \/ RotateKey(i.kind, i.attempt) THEN i.triedModels
              ELSE i.triedModels \cup {i.model})

-----------------------------------------------------------------------------
(* Recording an outcome: recordSuccess, recordFailure, decrementHealth and *)
(* markRateLimited.                                                        *)

\* The mock key keeps no record.
SkipRecord(c) ==
  /\ caller[c].stage = "read" /\ caller[c].key = MockKey
  /\ Becomes(c, IF caller[c].kind = "OK" THEN [caller[c] EXCEPT !.stage = "store"]
                ELSE AfterFailure(c))
  /\ UNCHANGED <<rows, store, admin, standing, answered, troubles>>

CoolDown(c) ==
  /\ caller[c].stage = "read" /\ caller[c].key # MockKey
  /\ caller[c].kind = "RATE_LIMIT"
  /\ cooling' = cooling \cup {caller[c].key}
  /\ Becomes(c, AfterFailure(c))
  /\ UNCHANGED <<rows, index, history, admin, standing, answered, troubles>>

ReadRecord(c) ==
  /\ caller[c].stage = "read" /\ caller[c].key # MockKey
  /\ caller[c].kind # "RATE_LIMIT"
  /\ LET k == caller[c].key
     IN  Becomes(c, [caller[c] EXCEPT !.stage = "write",
                       !.seen = [active |-> active[k], quotaUsed |-> quotaUsed[k],
                                 health |-> health[k], history |-> history[k]]])
  /\ UNCHANGED <<rows, store, admin, standing, answered, troubles>>

\* pushHealthOutcome: the last HealthWindow outcomes and their success rate.
Window(outcomes) ==
  SubSeq(outcomes, IF Len(outcomes) > HealthWindow THEN Len(outcomes) - HealthWindow + 1 ELSE 1,
         Len(outcomes))
SuccessRate(outcomes) ==
  (Full * Cardinality({ i \in DOMAIN outcomes : outcomes[i] })) \div Len(outcomes)

Shaved(h, amount) == IF h > amount THEN h - amount ELSE 0

\* Health is the success rate, or what it was less a shave (0.1, 0.05).
WriteRecord(c) ==
  /\ caller[c].stage = "write"
  /\ LET i == caller[c]
         k == i.key
         shaves == i.kind \in {"SERVER_ERROR", "TIMEOUT"}
         window == Window(Append(i.seen.history, i.kind = "OK"))
         h == IF shaves THEN Shaved(i.seen.health, IF i.kind = "TIMEOUT" THEN 1 ELSE 2)
              ELSE SuccessRate(window)
         rejected == i.kind = "AUTH"
     IN  /\ history' = IF shaves THEN history ELSE [history EXCEPT ![k] = window]
         /\ health' = [health EXCEPT ![k] = h]
         /\ quotaUsed' = IF i.kind = "OK" THEN [quotaUsed EXCEPT ![k] = i.seen.quotaUsed + 1]
                         ELSE quotaUsed
         /\ active' = IF rejected THEN [active EXCEPT ![k] = FALSE] ELSE active
         /\ standing' = IF rejected THEN [standing EXCEPT ![k] = "rejected"] ELSE standing
         /\ Becomes(c, [i EXCEPT !.stage = "index", !.seen.health = h,
                                 !.seen.active = @ /\ ~rejected])
  /\ UNCHANGED <<known, index, cooling, admin, answered, troubles>>

\* indexKey by the row as it was read.
IndexRecord(c) ==
  /\ caller[c].stage = "index"
  /\ LET i == caller[c]
     IN  /\ index' = [index EXCEPT ![i.key] = Indexed(i.key, i.seen.active, i.seen.health)]
         /\ Becomes(c, IF i.kind = "OK" THEN [i EXCEPT !.stage = "store", !.seen = Nothing]
                       ELSE AfterFailure(c))
  /\ UNCHANGED <<rows, cooling, history, admin, standing, answered, troubles>>

\* cache.set, the last await of the try.
ReturnAnswer(c) ==
  /\ caller[c].stage = "store"
  /\ Becomes(c, Over("done"))
  /\ UNCHANGED <<rows, store, admin, standing, answered, troubles>>

\* Slip: what rejected is tried again.
RejectRecordingAgain(c) ==
  /\ caller[c].stage \in {"route"} \cup Scanning \cup Settling
  /\ Trouble
  /\ Becomes(c, IF caller[c].kind = "OK"
                THEN [caller[c] EXCEPT !.stage = "read", !.seen = Nothing]
                ELSE Over("failed"))
  /\ UNCHANGED <<rows, store, admin, standing, answered>>

\* A store or the database rejects.  In the try that makes the answered call
\* an UNKNOWN failure; while routing or recording a failure it ends invoke.
Reject(c) ==
  /\ caller[c].stage \in {"route"} \cup Scanning \cup Settling
  /\ Trouble
  /\ Becomes(c, IF caller[c].kind = "OK"
                THEN [caller[c] EXCEPT !.stage = "read", !.kind = "UNKNOWN", !.seen = Nothing]
                ELSE Over("failed"))
  /\ UNCHANGED <<rows, store, admin, standing, answered>>

-----------------------------------------------------------------------------
(* addKey, the passing of time, and restarts.                              *)

AddKey(k) ==
  /\ admin.stage = "idle" /\ k \notin known
  /\ Trouble
  /\ known' = known \cup {k}
  /\ active' = [active EXCEPT ![k] = TRUE]
  /\ admin' = [stage |-> "index", key |-> k, active |-> TRUE, health |-> health[k]]
  /\ UNCHANGED <<quotaUsed, health, store, caller, standing, answered>>

\* The row found by its hash is activated; what is indexed is that row as it
\* was before.
ReAddKey(k) ==
  /\ admin.stage = "idle" /\ k \in known
  /\ Trouble
  /\ active' = [active EXCEPT ![k] = TRUE]
  /\ standing' = [standing EXCEPT ![k] = "readded"]
  /\ admin' = [stage |-> "index", key |-> k, active |-> active[k], health |-> health[k]]
  /\ UNCHANGED <<known, quotaUsed, health, store, caller, answered>>

IndexAdded ==
  /\ admin.stage = "index"
  /\ index' = [index EXCEPT ![admin.key] = Indexed(admin.key, admin.active, admin.health)]
  /\ admin' = NoAdmin
  /\ UNCHANGED <<rows, cooling, history, caller, standing, answered, troubles>>

CooldownEnds(k) ==
  /\ k \in cooling
  /\ cooling' = cooling \ {k}
  /\ UNCHANGED <<rows, index, history, caller, admin, standing, answered, troubles>>

\* Slip: only the keys of the environment are indexed again.
BootstrappedEnvOnly(old) ==
  [k \in Keys |-> IF k \in EnvKeys THEN Indexed(k, active[k], health[k]) ELSE old[k]]

Bootstrapped(old) ==
  [k \in Keys |-> IF k \in known THEN Indexed(k, active[k], health[k]) ELSE old[k]]

\* The process dies, with or without the KV store (MemoryStore dies with it),
\* and bootstrap runs before anything is served.
Restart ==
  /\ Trouble
  /\ caller' = [c \in Callers |-> IF caller[c].stage \in {"idle", "done"}
                                  THEN caller[c] ELSE Over("failed")]
  /\ admin' = NoAdmin
  /\ \/ index' = Bootstrapped(index) /\ UNCHANGED <<cooling, history>>
     \/ /\ index' = Bootstrapped([k \in Keys |-> Absent])
        /\ cooling' = {}
        /\ history' = [k \in Keys |-> <<>>]
  /\ UNCHANGED <<rows, standing, answered>>

-----------------------------------------------------------------------------
InvokeStep(c) ==
  \/ Survey(c) \/ NextCandidate(c) \/ LookAtCooldown(c) \/ LookAtRow(c) \/ Deactivate(c)
  \/ Drop(c) \/ HitCache(c) \/ AnswerCall(c)
  \/ \E kind \in ErrorKinds : FailCall(c, kind)
  \/ SkipRecord(c) \/ CoolDown(c) \/ ReadRecord(c) \/ WriteRecord(c)
  \/ IndexRecord(c) \/ ReturnAnswer(c) \/ Reject(c)

Next ==
  \/ \E c \in Callers : BeginInvoke(c) \/ InvokeStep(c)
  \/ \E k \in Keys : AddKey(k) \/ ReAddKey(k) \/ CooldownEnds(k)
  \/ IndexAdded \/ Restart

(***************************************************************************)
(* Each await of an invocation ends (withTimeout bounds the provider       *)
(* call), so an invocation under way keeps taking steps.                   *)
(***************************************************************************)
Spec == Init /\ [][Next]_vars /\ \A c \in Callers : WF_vars(InvokeStep(c))

-----------------------------------------------------------------------------
(* Properties.                                                             *)

Holders(k) == { c \in Callers : caller[c].stage = "call" /\ caller[c].key = k }

\* Who has found k not cooling down and awaits its row (manager.ts:123-125).
Past(k) == { c \in Callers : caller[c].stage = "fetch" /\ Head(caller[c].ranked) = k }

\* A key its provider rejected, or that is out of quota, is given to no further
\* invocation, although the index may still hold it: an update that read the row
\* earlier puts it back (indexKey in recordSuccess), and a crash can come between
\* the row and the index.  A key that is cooling down is given to those only that
\* had looked before it was: the scan awaits the row after it has asked.
Barred(k) == standing[k] = "rejected" \/ Exhausted(k)
BarredKeyRests ==
  [][ \A k \in Keys :
        /\ Barred(k) /\ Barred(k)' => Holders(k)' \subseteq Holders(k)
        /\ k \in cooling /\ k \in cooling'
             => (Holders(k) \cup Past(k))' \subseteq Holders(k) \cup Past(k) ]_vars

\* However updates interleave, fail half way or are repeated as failures, a row
\* never claims more use than the key had: no quota is closed early.
QuotaNeverOverstated == \A k \in Keys : quotaUsed[k] <= answered[k]

\* An active key is in the index, unless addKey is still at it or its
\* registration was cut short and the next boot has not come: nothing that
\* removes keys from the index removes a usable one, and bootstrap restores
\* what a lost store forgot.  Keys registered twice are KeyReAdded's matter.
ActiveKeysIndexed ==
  \A k \in known :
    active[k] /\ standing[k] = "fresh" /\ admin.key # k => index[k] # Absent

\* No invocation goes on for ever: each returns or throws, whatever the answers
\* and the keys, since every failure counts against its attempts.
InvocationsEnd == \A c \in Callers : []<>(caller[c].stage \in {"idle", "done", "failed"})

(* What the repository says of the code and the code does not do.          *)

Quiet == admin = NoAdmin /\ \A c \in Callers : caller[c].stage \notin Settling

\* manager.ts:112, getBestKey returns the "Highest-health key that is not
\* rate-limited, quota-exhausted, or excluded": there is one to return
\* whenever an active key is neither.
ActiveKeyOffered ==
  Quiet => \A k \in known : active[k] /\ k \notin cooling /\ ~Exhausted(k)
                              => Available(Provider[k])

\* The same line says of a key that is cooling down that it is not returned.
CoolingKeyRests ==
  [][ \A k \in cooling : k \in cooling' => Holders(k)' \subseteq Holders(k) ]_vars

\* keys.test.ts:114, "stops handing out a key that has exhausted its quota":
\* a key whose recorded answers reach its limit is handed out no more.
Recorded(k) ==
  answered[k] - Cardinality({ c \in Callers : /\ caller[c].key = k /\ caller[c].kind = "OK"
                                              /\ caller[c].stage \in {"read", "write"} })
QuotaStopsKey ==
  [][ \A k \in Keys : QuotaLimit[k] # Unlimited /\ Recorded(k) >= QuotaLimit[k]
                         => Holders(k)' \subseteq Holders(k) ]_vars
=============================================================================
