--------------------------- MODULE KeyPoolProofs ---------------------------
(* Proofs about KeyPool, for any set of keys, any number of concurrent     *)
(* invocations and any number of registrations, restarts and store faults. *)
EXTENDS KeyPool, FiniteSetTheorems, SequenceTheorems, TLAPS

-----------------------------------------------------------------------------
(* What is known of the keys.                                              *)

Fresh == { k \in Keys : standing[k] = "fresh" }

RowTypes ==
  /\ known \subseteq Keys
  /\ active \in [Keys -> BOOLEAN]
  /\ quotaUsed \in [Keys -> Nat] /\ answered \in [Keys -> Nat]
  /\ health \in [Keys -> Nat]
  /\ history \in [Keys -> Outcomes]
  /\ standing \in [Keys -> {"fresh", "rejected", "readded"}]
  /\ index = [k \in Keys |-> index[k]]

\* Only known keys are active, a rejected one is not, and a key nobody has
\* rejected or registered again is as its row was made.
Standings ==
  \A k \in Keys :
    /\ active[k] => k \in known /\ standing[k] # "rejected"
    /\ k \notin known => standing[k] = "fresh"
    /\ k \in known /\ standing[k] = "fresh" => active[k]

AtAdmin(k) == admin.stage = "index" /\ admin.key = k

\* What addKey holds to index is a row, and an active one when it is new.
AdminHolds ==
  admin.stage = "index" =>
    /\ admin.key \in known /\ admin.health \in Nat
    /\ admin.key \in Fresh => admin.active

FreshIndexed == \A k \in known \cap Fresh : ~AtAdmin(k) => index[k] # Absent

\* Only keys with a row are in the index.
IndexKnown == \A k \in Keys : index[k] # Absent => k \in known

KeysInv == RowTypes /\ Standings /\ AdminHolds /\ FreshIndexed /\ IndexKnown

-----------------------------------------------------------------------------
(* What an invocation holds.                                               *)

Fields ==
  {"stage", "attempt", "triedKeys", "triedModels", "available", "turn", "ranked", "key", "model",
   "kind", "seen"}
SeenFields == {"active", "quotaUsed", "health", "history"}
IsInvocation(i) ==
  /\ i = [f \in Fields |-> i[f]]
  /\ i.seen = [f \in SeenFields |-> i.seen[f]]

\* An answered call is being recorded; a key in hand has a row or is the
\* mock's; a row that was read is not older than the key's standing tells.  What
\* is left of a scan has rows, and what it is about to drop is not fresh.
Sound(i, rowKeys, freshKeys) ==
  /\ IsInvocation(i)
  /\ i.ranked \in Seq(rowKeys)
  /\ i.stage \in {"scan", "fetch", "drop"} => i.ranked # <<>>
  /\ i.stage = "drop" => Head(i.ranked) \notin freshKeys
  /\ i.kind = "OK" => i.stage \in Settling
  /\ i.stage \in {"call"} \cup Settling => i.key \in rowKeys \cup {MockKey}
  /\ i.stage \in {"write", "index"} =>
       /\ i.key \in rowKeys
       /\ i.seen.health \in Nat /\ i.seen.quotaUsed \in Nat /\ i.seen.history \in Outcomes
       /\ i.key \in freshKeys => i.seen.active

CallersInv ==
  /\ caller = [c \in Callers |-> caller[c]]
  /\ \A c \in Callers : Sound(caller[c], known, Fresh)

\* What is known of an invocation stays true as keys are registered and rejected.
LEMMA StaysSound ==
  ASSUME NEW i, NEW rowKeys, NEW freshKeys, NEW moreRows, NEW fewerFresh,
         Sound(i, rowKeys, freshKeys), rowKeys \subseteq moreRows, fewerFresh \subseteq freshKeys
  PROVE  Sound(i, moreRows, fewerFresh)
<1>1. i.ranked \in Seq(moreRows)
  BY DEF Sound
<1>2. QED BY <1>1 DEF Sound

LEMMA Became ==
  ASSUME NEW c \in Callers, NEW next, CallersInv, Becomes(c, next),
         Sound(next, known', Fresh'), known \subseteq known', Fresh' \subseteq Fresh
  PROVE  CallersInv'
<1>1. \A d \in Callers : caller'[d] = IF d = c THEN next ELSE caller[d]
  BY DEF Becomes, CallersInv
<1>2. caller' = [d \in Callers |-> caller'[d]]
  BY DEF Becomes, CallersInv
<1>3. \A d \in Callers : Sound(caller[d], known', Fresh')
  BY StaysSound DEF CallersInv
<1>4. QED BY <1>1, <1>2, <1>3 DEF CallersInv

\* An invocation that starts over, or is over, holds nothing.
LEMMA StartsOver ==
  ASSUME NEW stage \in {"idle", "route", "done", "failed"}, NEW attempt, NEW keys, NEW models,
         NEW rowKeys, NEW freshKeys
  PROVE  Sound(At(stage, attempt, keys, models), rowKeys, freshKeys)
         /\ At(stage, attempt, keys, models).kind # "OK"
<1>1. <<>> \in Seq(rowKeys)
  OBVIOUS
<1>2. QED BY <1>1 DEF Sound, At, IsInvocation, Fields, SeenFields, Nothing, Settling

LEMMA FailureStartsOver ==
  ASSUME NEW c \in Callers, NEW rowKeys, NEW freshKeys
  PROVE  Sound(AfterFailure(c), rowKeys, freshKeys) /\ AfterFailure(c).kind # "OK"
BY StartsOver DEF AfterFailure, Over

-----------------------------------------------------------------------------
(* Health and the index.                                                   *)

LEMMA ScoreIsIndexed ==
  ASSUME NEW k \in Keys, NEW h \in Nat
  PROVE  Score(k, h) # Absent
<1>1. Priority[k] \in 1..100
  BY KeysAssumption
<1>2. QED BY <1>1 DEF Score, Absent

LEMMA ShavedIsNat ==
  ASSUME NEW h \in Nat, NEW amount \in Nat PROVE Shaved(h, amount) \in Nat
BY DEF Shaved

LEMMA RateIsNat ==
  ASSUME NEW outcomes \in Outcomes, Len(outcomes) > 0 PROVE SuccessRate(outcomes) \in Nat
<1>1. PICK n \in 0..HealthWindow : outcomes \in [1..n -> BOOLEAN]
  BY DEF Outcomes
<1>2. Len(outcomes) \in Nat \ {0} /\ DOMAIN outcomes = 1..n /\ n \in Nat
  BY <1>1, KeyBoundsAssumption
<1>3. IsFiniteSet(1..n)
  BY <1>2, FS_Interval
<1>4. Cardinality({ i \in DOMAIN outcomes : outcomes[i] }) \in Nat
  BY <1>2, <1>3, FS_Subset, FS_CardinalityType
<1>5. QED BY <1>2, <1>4 DEF SuccessRate, Full

LEMMA WindowIsOutcomes ==
  ASSUME NEW outcomes \in Outcomes, NEW ok \in BOOLEAN
  PROVE  Window(Append(outcomes, ok)) \in Outcomes /\ Len(Window(Append(outcomes, ok))) > 0
<1>1. PICK n \in 0..HealthWindow : outcomes \in [1..n -> BOOLEAN]
  BY DEF Outcomes
<1>2. n \in Nat /\ HealthWindow \in Nat \ {0}
  BY <1>1, KeyBoundsAssumption
<1>3. outcomes \in Seq(BOOLEAN) /\ Len(outcomes) = n
  BY <1>1, <1>2
<1> DEFINE longer == Append(outcomes, ok)
           first == IF n + 1 > HealthWindow THEN (n + 1) - HealthWindow + 1 ELSE 1
           window == SubSeq(longer, first, n + 1)
<1>4. longer \in Seq(BOOLEAN) /\ Len(longer) = n + 1
  BY <1>3
<1>5. Window(longer) = window /\ first \in 1..(n + 1) /\ n + 1 - first + 1 \in 1..HealthWindow
  BY <1>2, <1>4 DEF Window
<1> HIDE DEF longer, first
<1>6. window \in Seq(BOOLEAN) /\ Len(window) = n + 1 - first + 1
  BY <1>2, <1>4, <1>5
<1>7. window \in [1..(n + 1 - first + 1) -> BOOLEAN]
  BY <1>6, LenProperties
<1>8. QED BY <1>5, <1>6, <1>7 DEF Outcomes, longer
-----------------------------------------------------------------------------
(* The index through the steps.                                            *)

KeepsKeys == UNCHANGED <<known, active, quotaUsed, answered, health, history, standing, admin>>

\* What a scan drops from the index is inactive.
LEMMA ScanKeepsIndex ==
  ASSUME KeysInv, DropPassed, KeepsKeys
  PROVE  KeysInv'
<1>1. \A k \in Keys : active[k] => index'[k] = index[k]
  BY DEF DropPassed, Passed
<1>2. index' = [k \in Keys |-> index'[k]]
  BY DEF DropPassed
<1>3. Fresh' = Fresh /\ RowTypes' /\ Standings' /\ AdminHolds'
  BY <1>2 DEF KeysInv, RowTypes, Standings, AdminHolds, KeepsKeys, Fresh
<1>4. FreshIndexed'
  BY <1>1, <1>3 DEF KeysInv, RowTypes, Standings, FreshIndexed, KeepsKeys, Fresh, AtAdmin
<1>5. IndexKnown'
  BY DEF KeysInv, IndexKnown, DropPassed, KeepsKeys
<1>6. QED BY <1>3, <1>4, <1>5 DEF KeysInv

LEMMA RestKeepsIndex ==
  ASSUME KeysInv, KeepsKeys, UNCHANGED index
  PROVE  KeysInv'
BY DEF KeysInv, RowTypes, Standings, AdminHolds, FreshIndexed, IndexKnown, KeepsKeys, Fresh, AtAdmin

\* The steps that look for a key.  A survey, and a scan as it goes on, may drop
\* a key from the index, never a fresh one.
LEMMA SurveySound ==
  ASSUME NEW c \in Callers, KeysInv, CallersInv, Survey(c)
  PROVE  KeysInv' /\ CallersInv'
<1>1. Sound(caller[c], known, Fresh) /\ UNCHANGED <<known, Fresh>> /\ KeepsKeys
  BY DEF CallersInv, Survey, rows, KeepsKeys, Fresh
<1>2. PICK available : Becomes(c, IF available = {} THEN Over("failed")
                                  ELSE [caller[c] EXCEPT !.stage = "lease", !.available = available])
  BY DEF Survey
<1> DEFINE next == [caller[c] EXCEPT !.stage = "lease", !.available = available]
<1>3. Sound(next, known, Fresh)
  BY <1>1 DEF Survey, Sound, IsInvocation, Fields, Settling
<1>4. Sound(Over("failed"), known, Fresh)
  BY StartsOver DEF Over
<1>5. CallersInv'
  BY <1>1, <1>2, <1>3, <1>4, Became
<1>6. QED BY <1>1, <1>5, ScanKeepsIndex DEF Survey

\* A ranking lists keys that have rows.
LEMMA RankingKnown ==
  ASSUME KeysInv, NEW p, NEW excluded, NEW ranked \in Rankings(p, excluded)
  PROVE  ranked \in Seq(known)
<1> DEFINE offered == { k \in Keys \ excluded : Provider[k] = p /\ index[k] # Absent }
<1>1. offered \subseteq known /\ IsFiniteSet(offered)
  BY KeysAssumption, FS_Subset DEF KeysInv, IndexKnown
<1>2. ranked \in [1..Cardinality(offered) -> offered]
  BY DEF Rankings, SetToSeqs
<1>3. Cardinality(offered) \in Nat
  BY <1>1, FS_CardinalityType
<1> HIDE DEF offered
<1>4. QED BY <1>1, <1>2, <1>3

LEMMA GoesOnSound ==
  ASSUME NEW i, NEW rowKeys, NEW freshKeys, Sound(i, rowKeys, freshKeys), i.kind # "OK",
         NEW ranked \in Seq(rowKeys)
  PROVE  Sound(GoesOn(i, ranked), rowKeys, freshKeys) /\ GoesOn(i, ranked).kind = i.kind
BY DEF GoesOn, Sound, IsInvocation, Fields, Settling

LEMMA LeasedSound ==
  ASSUME NEW i, Sound(i, known, Fresh), i.kind # "OK", NEW k \in known \cup {MockKey}, NEW model
  PROVE  /\ Sound(Leased(i, k, model), known, Fresh)
         /\ Leased(i, k, model).kind = i.kind /\ Leased(i, k, model).stage = "call"
         /\ Leased(i, k, model).key = k
<1>1. <<>> \in Seq(known)
  OBVIOUS
<1>2. QED BY <1>1 DEF Leased, Sound, IsInvocation, Fields, Settling

LEMMA CandidateSound ==
  ASSUME NEW c \in Callers, KeysInv, CallersInv, NextCandidate(c)
  PROVE  KeysInv' /\ CallersInv'
<1> DEFINE i == caller[c]
           turn == i.turn + 1
<1>1. Sound(i, known, Fresh) /\ UNCHANGED <<known, Fresh>> /\ i.stage = "lease" /\ i.kind # "OK"
  BY DEF CallersInv, NextCandidate, rows, Fresh, Sound, Settling
<1>2. KeysInv'
  BY RestKeepsIndex DEF NextCandidate, KeepsKeys, rows, store
<1>3. CASE Becomes(c, Over("failed"))
  BY <1>1, <1>2, <1>3, StartsOver, Became DEF Over
<1>4. CASE Becomes(c, [i EXCEPT !.turn = turn])
  <2> DEFINE next == [i EXCEPT !.turn = turn]
  <2>1. Sound(next, known, Fresh)
    BY <1>1 DEF Sound, IsInvocation, Fields, Settling
  <2>2. QED BY <1>1, <1>2, <1>4, <2>1, Became
<1>5. CASE \E model : Becomes(c, Leased(i, MockKey, model))
  BY <1>1, <1>2, <1>5, LeasedSound, Became
<1>6. ASSUME NEW p, NEW ranked \in Rankings(p, i.triedKeys),
             Becomes(c, GoesOn([i EXCEPT !.turn = turn], ranked))
      PROVE  CallersInv'
  <2> DEFINE next == [i EXCEPT !.turn = turn]
  <2>1. ranked \in Seq(known)
    BY <1>6, RankingKnown
  <2>2. Sound(next, known, Fresh) /\ next.kind # "OK"
    BY <1>1 DEF Sound, IsInvocation, Fields, Settling
  <2> HIDE DEF next
  <2>3. Sound(GoesOn(next, ranked), known, Fresh)
    BY <2>1, <2>2, GoesOnSound
  <2>4. QED BY <1>1, <1>6, <2>3, Became DEF next
<1>7. QED BY <1>2, <1>3, <1>4, <1>5, <1>6 DEF NextCandidate

\* A scan that goes on: with this key's row, or with the next key.
LEMMA ScanGoesOn ==
  ASSUME NEW c \in Callers, CallersInv, caller[c].stage \in {"scan", "fetch", "drop"},
         NEW stage \in {"scan", "fetch", "drop"}, Fresh' \subseteq Fresh,
         stage = "drop" => Head(caller[c].ranked) \notin Fresh'
  PROVE  /\ Head(caller[c].ranked) \in known
         /\ Sound([caller[c] EXCEPT !.stage = stage], known, Fresh')
         /\ Sound(GoesOn(caller[c], Tail(caller[c].ranked)), known, Fresh')
<1> DEFINE i == caller[c]
<1>1. Sound(i, known, Fresh) /\ i.ranked \in Seq(known) /\ i.ranked # <<>> /\ i.kind # "OK"
  BY DEF CallersInv, Sound, Settling
<1>2. Tail(i.ranked) \in Seq(known) /\ Head(i.ranked) \in known
  BY <1>1
<1>3. Sound([i EXCEPT !.stage = stage], known, Fresh')
  BY <1>1 DEF Sound, IsInvocation, Fields, Settling
<1>4. Sound(i, known, Fresh')
  BY <1>1, StaysSound
<1>5. QED BY <1>1, <1>2, <1>3, <1>4, GoesOnSound

LEMMA CooldownLookSound ==
  ASSUME NEW c \in Callers, KeysInv, CallersInv, LookAtCooldown(c)
  PROVE  KeysInv' /\ CallersInv'
<1> DEFINE i == caller[c]
<1>1. UNCHANGED <<known, Fresh>> /\ i.stage = "scan"
  BY DEF LookAtCooldown, rows, Fresh
<1>2. KeysInv'
  BY RestKeepsIndex DEF LookAtCooldown, KeepsKeys, rows, store
<1>3. Sound(GoesOn(i, Tail(i.ranked)), known, Fresh') /\ Sound([i EXCEPT !.stage = "fetch"], known, Fresh')
  BY <1>1, ScanGoesOn
<1>4. Becomes(c, GoesOn(i, Tail(i.ranked))) \/ Becomes(c, [i EXCEPT !.stage = "fetch"])
  BY DEF LookAtCooldown
<1>5. QED BY <1>1, <1>2, <1>3, <1>4, Became

LEMMA RowLookSound ==
  ASSUME NEW c \in Callers, KeysInv, CallersInv, LookAtRow(c)
  PROVE  KeysInv' /\ CallersInv'
<1> DEFINE i == caller[c]
           k == Head(i.ranked)
<1>1. /\ Sound(i, known, Fresh) /\ UNCHANGED <<known, Fresh>> /\ i.stage = "fetch"
      /\ i.kind # "OK" /\ i.ranked # <<>>
  BY DEF CallersInv, LookAtRow, rows, Fresh, Sound, Settling
<1>2. KeysInv'
  BY RestKeepsIndex DEF LookAtRow, KeepsKeys, rows, store
<1>3. k \in known /\ Sound(GoesOn(i, Tail(i.ranked)), known, Fresh')
  BY <1>1, ScanGoesOn
<1>4. CASE ~active[k]
  <2>1. k \notin Fresh'
    BY <1>1, <1>3, <1>4 DEF KeysInv, Standings, Fresh
  <2>2. Sound([i EXCEPT !.stage = "drop"], known, Fresh')
    BY <1>1, <2>1, ScanGoesOn
  <2>3. QED BY <1>1, <1>2, <1>4, <2>2, Became DEF LookAtRow
<1>5. CASE active[k]
  <2>1. \/ Becomes(c, GoesOn(i, Tail(i.ranked)))
        \/ \E model : Becomes(c, Leased(i, k, model))
    BY <1>5 DEF LookAtRow
  <2>2. \A model : Sound(Leased(i, k, model), known, Fresh)
    BY <1>1, <1>3, LeasedSound
  <2>3. QED BY <1>1, <1>2, <1>3, <2>1, <2>2, Became
<1>6. QED BY <1>4, <1>5

\* A key that cannot be decrypted is fresh no more.
LEMMA DeactivateSound ==
  ASSUME NEW c \in Callers, KeysInv, CallersInv, Deactivate(c)
  PROVE  KeysInv' /\ CallersInv'
<1> DEFINE i == caller[c]
           k == Head(i.ranked)
<1>1. Sound(i, known, Fresh) /\ i.stage = "fetch" /\ i.ranked # <<>>
  BY DEF CallersInv, Deactivate, Sound
<1>2. /\ active' = [active EXCEPT ![k] = FALSE] /\ standing' = [standing EXCEPT ![k] = "rejected"]
      /\ UNCHANGED <<known, quotaUsed, health, index, history, admin, answered>>
      /\ Becomes(c, [i EXCEPT !.stage = "drop"])
  BY DEF Deactivate, store
<1>3. k \in known /\ k \in Keys
  BY <1>1 DEF Sound, KeysInv, RowTypes
<1>4. Fresh' = Fresh \ {k}
  BY <1>2, <1>3 DEF Fresh, KeysInv, RowTypes
<1>5. Sound([i EXCEPT !.stage = "drop"], known, Fresh')
  BY <1>1, <1>4, ScanGoesOn
<1>6. RowTypes'
  BY <1>2, <1>3 DEF KeysInv, RowTypes
<1>7. Standings' /\ AdminHolds' /\ FreshIndexed' /\ IndexKnown'
  BY <1>2, <1>3, <1>4
     DEF KeysInv, RowTypes, Standings, AdminHolds, FreshIndexed, IndexKnown, AtAdmin
<1>8. QED BY <1>2, <1>4, <1>5, <1>6, <1>7, Became DEF KeysInv

\* The row that was read was not fresh, and none becomes so again.
LEMMA DropSound ==
  ASSUME NEW c \in Callers, KeysInv, CallersInv, Drop(c)
  PROVE  KeysInv' /\ CallersInv'
<1> DEFINE i == caller[c]
           k == Head(i.ranked)
<1>1. /\ Sound(i, known, Fresh) /\ i.stage = "drop" /\ i.ranked # <<>>
      /\ KeepsKeys /\ UNCHANGED Fresh
      /\ index' = [index EXCEPT ![k] = Absent]
      /\ Becomes(c, GoesOn(i, Tail(i.ranked)))
  BY DEF CallersInv, Drop, Sound, rows, KeepsKeys, Fresh
<1>2. k \in known /\ k \in Keys /\ Sound(GoesOn(i, Tail(i.ranked)), known, Fresh')
  BY <1>1, ScanGoesOn DEF KeysInv, RowTypes
<1>3. k \notin Fresh
  BY <1>1 DEF Sound
<1>4. RowTypes' /\ Standings' /\ AdminHolds' /\ IndexKnown'
  BY <1>1, <1>2 DEF KeysInv, RowTypes, Standings, AdminHolds, IndexKnown, KeepsKeys
<1>5. FreshIndexed'
  BY <1>1, <1>2, <1>3 DEF KeysInv, RowTypes, FreshIndexed, KeepsKeys, AtAdmin
<1>6. QED BY <1>1, <1>2, <1>4, <1>5, Became DEF KeysInv, KeepsKeys

LEMMA RoutingSound ==
  ASSUME NEW c \in Callers, KeysInv, CallersInv,
         \/ Survey(c) \/ NextCandidate(c) \/ LookAtCooldown(c) \/ LookAtRow(c) \/ Deactivate(c)
         \/ Drop(c)
  PROVE  KeysInv' /\ CallersInv'
BY SurveySound, CandidateSound, CooldownLookSound, RowLookSound, DeactivateSound, DropSound

\* The steps that write no row and no index.
LEMMA CallSound ==
  ASSUME NEW c \in Callers, KeysInv, CallersInv,
         HitCache(c) \/ AnswerCall(c) \/ (\E kind \in ErrorKinds : FailCall(c, kind))
  PROVE  CallersInv'
<1>1. Sound(caller[c], known, Fresh) /\ UNCHANGED <<known, Fresh>>
  BY DEF CallersInv, HitCache, AnswerCall, FailCall, rows, Fresh
<1>2. CASE HitCache(c)
  BY <1>1, <1>2, StartsOver, Became DEF HitCache, Over
<1>3. ASSUME NEW kind, caller[c].stage = "call",
             Becomes(c, [caller[c] EXCEPT !.stage = "read", !.kind = kind])
      PROVE  CallersInv'
  <2> DEFINE next == [caller[c] EXCEPT !.stage = "read", !.kind = kind]
  <2>1. Sound(next, known, Fresh)
    BY <1>1, <1>3 DEF Sound, IsInvocation, Fields, Settling
  <2>2. QED BY <1>1, <1>3, <2>1, Became
<1>4. QED BY <1>2, <1>3 DEF AnswerCall, FailCall

LEMMA AnswerKeepsKeys ==
  ASSUME NEW c \in Callers, KeysInv, AnswerCall(c)
  PROVE  KeysInv'
BY DEF AnswerCall, KeysInv, RowTypes, Standings, AdminHolds, FreshIndexed, IndexKnown, rows, store,
       Fresh, AtAdmin

LEMMA ReadingSound ==
  ASSUME NEW c \in Callers, KeysInv, CallersInv,
         SkipRecord(c) \/ CoolDown(c) \/ ReadRecord(c) \/ ReturnAnswer(c) \/ Reject(c)
  PROVE  CallersInv'
<1>1. Sound(caller[c], known, Fresh) /\ UNCHANGED <<known, Fresh>>
  BY DEF CallersInv, SkipRecord, CoolDown, ReadRecord, ReturnAnswer, Reject, rows, Fresh
<1>2. CASE Becomes(c, AfterFailure(c)) \/ Becomes(c, Over("done")) \/ Becomes(c, Over("failed"))
  BY <1>1, <1>2, StartsOver, FailureStartsOver, Became DEF Over
<1>3. CASE SkipRecord(c) /\ Becomes(c, [caller[c] EXCEPT !.stage = "store"])
  <2> DEFINE next == [caller[c] EXCEPT !.stage = "store"]
  <2>1. Sound(next, known, Fresh)
    BY <1>1, <1>3 DEF SkipRecord, Sound, IsInvocation, Fields, Settling
  <2>2. QED BY <1>1, <1>3, <2>1, Became
<1>4. CASE ReadRecord(c)
  <2> DEFINE k == caller[c].key
             seen == [active |-> active[k], quotaUsed |-> quotaUsed[k],
                      health |-> health[k], history |-> history[k]]
             next == [caller[c] EXCEPT !.stage = "write", !.seen = seen]
  <2>1. k \in known /\ k \in Keys
    BY <1>1, <1>4 DEF ReadRecord, Sound, Settling, KeysInv, RowTypes
  <2>2. /\ seen = [f \in SeenFields |-> seen[f]]
        /\ seen.health \in Nat /\ seen.quotaUsed \in Nat /\ seen.history \in Outcomes
        /\ k \in Fresh => seen.active
    BY <2>1 DEF SeenFields, KeysInv, RowTypes, Standings, Fresh
  <2>3. Becomes(c, next)
    BY <1>4 DEF ReadRecord
  <2> HIDE DEF seen
  <2>4. Sound(next, known, Fresh)
    BY <1>1, <1>4, <2>1, <2>2 DEF ReadRecord, Sound, IsInvocation, Fields, Settling
  <2>5. QED BY <1>1, <2>3, <2>4, Became
<1>5. CASE Reject(c) /\ caller[c].kind = "OK"
  <2> DEFINE next == [caller[c] EXCEPT !.stage = "read", !.kind = "UNKNOWN", !.seen = Nothing]
  <2>1. Sound(next, known, Fresh)
    BY <1>1, <1>5 DEF Reject, Sound, IsInvocation, Fields, SeenFields, Settling, Nothing
  <2>2. QED BY <1>1, <1>5, <2>1, Became DEF Reject
<1>6. QED BY <1>2, <1>3, <1>4, <1>5 DEF SkipRecord, CoolDown, ReadRecord, ReturnAnswer, Reject

\* An outcome is written over whatever the row has become; an AUTH failure
\* takes the key out of the fresh ones as it deactivates it.
LEMMA WritingSound ==
  ASSUME NEW c \in Callers, KeysInv, CallersInv, WriteRecord(c)
  PROVE  KeysInv' /\ CallersInv'
<1> DEFINE i == caller[c]
           shaves == i.kind \in {"SERVER_ERROR", "TIMEOUT"}
           window == Window(Append(i.seen.history, i.kind = "OK"))
           h == IF shaves THEN Shaved(i.seen.health, IF i.kind = "TIMEOUT" THEN 1 ELSE 2)
                ELSE SuccessRate(window)
           rejected == i.kind = "AUTH"
           next == [i EXCEPT !.stage = "index", !.seen.health = h, !.seen.active = @ /\ ~rejected]
<1>1. Sound(i, known, Fresh) /\ i.key \in known /\ i.key \in Keys /\ i.stage = "write"
  BY DEF CallersInv, WriteRecord, Sound, KeysInv, RowTypes
<1>2. window \in Outcomes /\ Len(window) > 0
  BY <1>1, WindowIsOutcomes DEF Sound
<1>3. h \in Nat
  BY <1>1, <1>2, ShavedIsNat, RateIsNat DEF Sound
<1>4. /\ history' = IF shaves THEN history ELSE [history EXCEPT ![i.key] = window]
      /\ health' = [health EXCEPT ![i.key] = h]
      /\ quotaUsed' = IF i.kind = "OK" THEN [quotaUsed EXCEPT ![i.key] = i.seen.quotaUsed + 1]
                      ELSE quotaUsed
      /\ active' = IF rejected THEN [active EXCEPT ![i.key] = FALSE] ELSE active
      /\ standing' = IF rejected THEN [standing EXCEPT ![i.key] = "rejected"] ELSE standing
      /\ Becomes(c, next)
      /\ UNCHANGED <<known, index, admin, answered>>
  BY DEF WriteRecord
<1> HIDE DEF window, h
<1>5. Fresh' = Fresh \ (IF rejected THEN {i.key} ELSE {})
  BY <1>1, <1>4 DEF Fresh, KeysInv, RowTypes
<1>6. RowTypes'
  <2>1. active' \in [Keys -> BOOLEAN] /\ standing' \in [Keys -> {"fresh", "rejected", "readded"}]
    BY <1>1, <1>4 DEF KeysInv, RowTypes
  <2>2. i.seen.quotaUsed + 1 \in Nat
    BY <1>1 DEF Sound
  <2>3. quotaUsed' \in [Keys -> Nat] /\ health' \in [Keys -> Nat] /\ history' \in [Keys -> Outcomes]
    BY <1>1, <1>2, <1>3, <1>4, <2>2 DEF KeysInv, RowTypes
  <2>4. QED BY <1>4, <2>1, <2>3 DEF KeysInv, RowTypes
<1>7. Standings' /\ AdminHolds' /\ FreshIndexed' /\ IndexKnown'
  BY <1>1, <1>4, <1>5 DEF KeysInv, RowTypes, Standings, AdminHolds, FreshIndexed, IndexKnown, AtAdmin
<1>8. Sound(next, known, Fresh')
  <2>1. /\ next = [f \in Fields |-> next[f]]
        /\ next.seen = [f \in SeenFields |-> next.seen[f]]
        /\ next.stage = "index" /\ next.key = i.key /\ next.kind = i.kind
        /\ next.seen.health = h /\ next.seen.quotaUsed = i.seen.quotaUsed
        /\ next.seen.history = i.seen.history
        /\ next.seen.active = (i.seen.active /\ ~rejected)
        /\ next.ranked = i.ranked
    BY <1>1 DEF Sound, IsInvocation, Fields, SeenFields
  <2> HIDE DEF next
  <2>2. QED BY <1>1, <1>3, <1>5, <2>1 DEF Sound, IsInvocation, Settling
<1>9. QED BY <1>4, <1>5, <1>6, <1>7, <1>8, Became DEF KeysInv

\* The index gets the row as it was read: of a fresh key, an active one.
LEMMA IndexingSound ==
  ASSUME NEW c \in Callers, KeysInv, CallersInv, IndexRecord(c)
  PROVE  KeysInv' /\ CallersInv'
<1> DEFINE i == caller[c]
<1>1. Sound(i, known, Fresh) /\ i.key \in known /\ i.key \in Keys /\ i.seen.health \in Nat
  BY DEF CallersInv, IndexRecord, Sound, KeysInv, RowTypes
<1>2. /\ index' = [index EXCEPT ![i.key] = Indexed(i.key, i.seen.active, i.seen.health)]
      /\ KeepsKeys /\ Fresh' = Fresh
  BY DEF IndexRecord, rows, KeepsKeys, Fresh
<1>3. i.key \in Fresh => Indexed(i.key, i.seen.active, i.seen.health) # Absent
  BY <1>1, ScoreIsIndexed DEF Sound, Indexed, IndexRecord
<1>4. RowTypes' /\ Standings' /\ AdminHolds'
  BY <1>2 DEF KeysInv, RowTypes, Standings, AdminHolds, KeepsKeys
<1>5. FreshIndexed' /\ IndexKnown'
  BY <1>1, <1>2, <1>3 DEF KeysInv, RowTypes, FreshIndexed, IndexKnown, KeepsKeys, AtAdmin
<1>6. CASE i.kind = "OK"
  <2> DEFINE next == [i EXCEPT !.stage = "store", !.seen = Nothing]
  <2>1. Sound(next, known, Fresh) /\ Becomes(c, next)
    BY <1>1, <1>6 DEF IndexRecord, Sound, IsInvocation, Fields, SeenFields, Settling, Nothing
  <2>2. QED BY <1>2, <1>4, <1>5, <2>1, Became DEF KeysInv, KeepsKeys
<1>7. CASE i.kind # "OK"
  BY <1>2, <1>4, <1>5, <1>7, FailureStartsOver, Became DEF IndexRecord, KeysInv, KeepsKeys
<1>8. QED BY <1>6, <1>7

-----------------------------------------------------------------------------
(* addKey and restarts.                                                    *)

LEMMA AdminSound ==
  ASSUME KeysInv, CallersInv, IndexAdded \/ \E k \in Keys : AddKey(k) \/ ReAddKey(k)
  PROVE  KeysInv' /\ CallersInv'
<1>1. caller' = caller
  BY DEF IndexAdded, AddKey, ReAddKey
<1>2. ASSUME known \subseteq known', Fresh' \subseteq Fresh PROVE CallersInv'
  BY <1>1, <1>2, StaysSound DEF CallersInv
<1>3. CASE IndexAdded
  <2>1. /\ index' = [index EXCEPT ![admin.key] = Indexed(admin.key, admin.active, admin.health)]
        /\ admin' = NoAdmin /\ admin.stage = "index"
        /\ UNCHANGED <<known, active, quotaUsed, answered, health, history, standing, Fresh>>
    BY <1>3 DEF IndexAdded, rows, Fresh
  <2>2. admin.key \in known /\ admin.key \in Keys
    BY <2>1 DEF KeysInv, RowTypes, AdminHolds
  <2>3. admin.key \in Fresh => Indexed(admin.key, admin.active, admin.health) # Absent
    BY <2>1, <2>2, ScoreIsIndexed DEF KeysInv, AdminHolds, Indexed
  <2>4. RowTypes' /\ Standings' /\ AdminHolds'
    BY <2>1 DEF KeysInv, RowTypes, Standings, AdminHolds, NoAdmin
  <2>5. FreshIndexed' /\ IndexKnown'
    BY <2>1, <2>2, <2>3 DEF KeysInv, RowTypes, FreshIndexed, IndexKnown, AtAdmin
  <2>6. QED BY <1>2, <2>1, <2>4, <2>5 DEF KeysInv
<1>4. ASSUME NEW k \in Keys, AddKey(k) PROVE KeysInv' /\ CallersInv'
  <2>1. /\ known' = known \cup {k} /\ active' = [active EXCEPT ![k] = TRUE]
        /\ admin' = [stage |-> "index", key |-> k, active |-> TRUE, health |-> health[k]]
        /\ UNCHANGED <<quotaUsed, answered, health, history, standing, index, Fresh>>
    BY <1>4 DEF AddKey, store, Fresh
  <2>2. RowTypes' /\ Standings' /\ AdminHolds'
    BY <1>4, <2>1 DEF AddKey, KeysInv, RowTypes, Standings, AdminHolds
  <2>3. FreshIndexed' /\ IndexKnown'
    BY <1>4, <2>1 DEF AddKey, KeysInv, FreshIndexed, IndexKnown, AtAdmin
  <2>4. QED BY <1>2, <2>1, <2>2, <2>3 DEF KeysInv
<1>5. ASSUME NEW k \in Keys, ReAddKey(k) PROVE KeysInv' /\ CallersInv'
  <2>1. /\ active' = [active EXCEPT ![k] = TRUE] /\ standing' = [standing EXCEPT ![k] = "readded"]
        /\ admin' = [stage |-> "index", key |-> k, active |-> active[k], health |-> health[k]]
        /\ UNCHANGED <<known, quotaUsed, answered, health, history, index>> /\ k \in known
    BY <1>5 DEF ReAddKey, store
  <2>2. Fresh' = Fresh \ {k}
    BY <2>1 DEF Fresh, KeysInv, RowTypes
  <2>3. RowTypes' /\ Standings' /\ AdminHolds'
    BY <2>1, <2>2 DEF KeysInv, RowTypes, Standings, AdminHolds
  <2>4. FreshIndexed' /\ IndexKnown'
    BY <1>5, <2>1, <2>2 DEF ReAddKey, KeysInv, FreshIndexed, IndexKnown, AtAdmin
  <2>5. QED BY <1>2, <2>1, <2>2, <2>3, <2>4 DEF KeysInv
<1>6. QED BY <1>3, <1>4, <1>5

\* bootstrap indexes every row again.
LEMMA RestartSound ==
  ASSUME KeysInv, CallersInv, Restart
  PROVE  KeysInv' /\ CallersInv'
<1>1. UNCHANGED <<known, active, quotaUsed, answered, health, standing, Fresh>> /\ admin' = NoAdmin
  BY DEF Restart, rows, Fresh
<1>2. \A c \in Callers : Sound(caller'[c], known, Fresh)
  BY StartsOver DEF Restart, CallersInv, Over
<1>3. CallersInv'
  BY <1>1, <1>2 DEF Restart, CallersInv
<1>4. PICK old : index' = Bootstrapped(old) /\ (old = index \/ old = [k \in Keys |-> Absent])
  BY DEF Restart
<1>5. <<>> \in Outcomes
  <2>1. <<>> \in [1..0 -> BOOLEAN] /\ 0 \in 0..HealthWindow
    BY KeyBoundsAssumption
  <2>2. QED BY <2>1 DEF Outcomes
<1>6. RowTypes' /\ Standings' /\ AdminHolds'
  BY <1>1, <1>4, <1>5 DEF Restart, KeysInv, RowTypes, Standings, AdminHolds, NoAdmin, Bootstrapped
<1>7. FreshIndexed'
  <2>1. ASSUME NEW k \in known, k \in Fresh PROVE index'[k] # Absent
    <3>1. k \in Keys /\ active[k] /\ health[k] \in Nat
      BY <2>1 DEF KeysInv, RowTypes, Standings, Fresh
    <3>2. QED BY <1>4, <3>1, ScoreIsIndexed DEF Bootstrapped, Indexed
  <2>2. QED BY <1>1, <2>1 DEF FreshIndexed
<1>8. IndexKnown'
  BY <1>1, <1>4 DEF KeysInv, IndexKnown, Bootstrapped
<1>9. QED BY <1>3, <1>6, <1>7, <1>8 DEF KeysInv
-----------------------------------------------------------------------------
(* The inductive invariant and what follows from it.                       *)

LEMMA StepSound ==
  ASSUME KeysInv, CallersInv, [Next]_vars
  PROVE  KeysInv' /\ CallersInv'
<1>1. CASE UNCHANGED vars
  BY <1>1 DEF vars, rows, store, KeysInv, RowTypes, Standings, AdminHolds, FreshIndexed, IndexKnown,
              Fresh, AtAdmin, CallersInv
<1>2. ASSUME NEW c \in Callers, BeginInvoke(c) PROVE KeysInv' /\ CallersInv'
  <2>1. KeepsKeys /\ UNCHANGED <<index, Fresh>>
    BY <1>2 DEF BeginInvoke, rows, store, KeepsKeys, Fresh
  <2>2. QED BY <1>2, <2>1, RestKeepsIndex, StartsOver, Became DEF BeginInvoke, KeepsKeys
<1>3. ASSUME NEW c \in Callers, InvokeStep(c) PROVE KeysInv' /\ CallersInv'
  <2>1. CASE \/ HitCache(c) \/ (\E kind \in ErrorKinds : FailCall(c, kind)) \/ SkipRecord(c)
             \/ CoolDown(c) \/ ReadRecord(c) \/ ReturnAnswer(c) \/ Reject(c)
    <3>1. KeepsKeys /\ index' = index
      BY <2>1 DEF HitCache, FailCall, SkipRecord, CoolDown, ReadRecord, ReturnAnswer, Reject,
                  rows, store, KeepsKeys
    <3>2. QED BY <2>1, <3>1, RestKeepsIndex, CallSound, ReadingSound
  <2>2. QED BY <1>3, <2>1, RoutingSound, CallSound, AnswerKeepsKeys, WritingSound, IndexingSound
            DEF InvokeStep
<1>4. ASSUME NEW k \in Keys, CooldownEnds(k) PROVE KeysInv' /\ CallersInv'
  <2>1. KeysInv' /\ UNCHANGED <<caller, known, Fresh>>
    BY <1>4, RestKeepsIndex DEF CooldownEnds, rows, KeepsKeys, Fresh
  <2>2. QED BY <2>1 DEF CallersInv
<1>5. QED BY <1>1, <1>2, <1>3, <1>4, AdminSound, RestartSound DEF Next

LEMMA InitSound == Init => KeysInv /\ CallersInv
<1> SUFFICES ASSUME Init PROVE KeysInv /\ CallersInv
  OBVIOUS
<1>1. <<>> \in Outcomes
  <2>1. <<>> \in [1..0 -> BOOLEAN] /\ 0 \in 0..HealthWindow
    BY KeyBoundsAssumption
  <2>2. QED BY <2>1 DEF Outcomes
<1>2. EnvKeys \subseteq Keys /\ Full \in Nat
  BY KeysAssumption DEF Full
<1>3. RowTypes
  BY <1>1, <1>2 DEF Init, RowTypes
<1>4. Standings /\ AdminHolds
  BY <1>2 DEF Init, Standings, AdminHolds, NoAdmin
<1>5. FreshIndexed /\ IndexKnown
  BY <1>2, ScoreIsIndexed DEF Init, FreshIndexed, IndexKnown, Indexed
<1>6. CallersInv
  BY StartsOver DEF Init, CallersInv, Over
<1>7. QED BY <1>3, <1>4, <1>5, <1>6 DEF KeysInv

LEMMA Soundness == Spec => [](KeysInv /\ CallersInv)
<1>1. KeysInv /\ CallersInv /\ [Next]_vars => (KeysInv /\ CallersInv)'
  BY StepSound
<1>2. QED BY <1>1, InitSound, PTL DEF Spec

\* However outcomes, registrations and restarts interleave, a key that is
\* active and was never rejected is in the index (manager.ts:63-64, 101-109, 190-213).
THEOREM ActiveKeysStayIndexed == Spec => []ActiveKeysIndexed
<1>1. KeysInv => ActiveKeysIndexed
  BY DEF KeysInv, RowTypes, FreshIndexed, ActiveKeysIndexed, AtAdmin, Fresh
<1>2. QED BY <1>1, Soundness, PTL

\* Only the row just read puts a key into a call, and the mock its own.
LEMMA OthersStay ==
  ASSUME NEW d \in Callers, CallersInv, InvokeStep(d) \/ BeginInvoke(d)
  PROVE  \A c \in Callers \ {d} : caller'[c] = caller[c]
<1>1. PICK next : caller' = [caller EXCEPT ![d] = next]
  BY DEF InvokeStep, BeginInvoke, Survey, NextCandidate, LookAtCooldown, LookAtRow, Deactivate, Drop,
         HitCache, AnswerCall, FailCall, SkipRecord, CoolDown, ReadRecord, WriteRecord, IndexRecord,
         ReturnAnswer, Reject, Becomes
<1>2. QED BY <1>1 DEF CallersInv

LEMMA NoCall ==
  ASSUME NEW d \in Callers, CallersInv, NEW next, Becomes(d, next), next.stage # "call"
  PROVE  caller'[d].stage # "call"
BY DEF CallersInv, Becomes

LEMMA FailureHasNoCall ==
  /\ \A stage, attempt, keys, models : At(stage, attempt, keys, models).stage = stage
  /\ \A c : AfterFailure(c).stage # "call"
BY DEF AfterFailure, Over, At

LEMMA OnlyLookingCalls ==
  ASSUME NEW d \in Callers, CallersInv, InvokeStep(d) \/ BeginInvoke(d),
         ~LookAtRow(d), ~NextCandidate(d)
  PROVE  caller'[d].stage # "call"
<1>1. IsInvocation(caller[d])
  BY DEF CallersInv, Sound
<1>2. ASSUME NEW next, Becomes(d, next),
             \/ next = AfterFailure(d)
             \/ \E stage, attempt, keys, models :
                  stage # "call" /\ next = At(stage, attempt, keys, models)
      PROVE  caller'[d].stage # "call"
  BY <1>2, NoCall, FailureHasNoCall
<1>3. CASE Becomes(d, At("route", 1, {}, {})) \/ Becomes(d, Over("done"))
             \/ Becomes(d, Over("failed")) \/ Becomes(d, AfterFailure(d))
  BY <1>2, <1>3 DEF Over
<1>4. CASE \E available : Becomes(d, [caller[d] EXCEPT !.stage = "lease", !.available = available])
  BY <1>1, <1>4, NoCall DEF IsInvocation, Fields
<1>5. CASE \E kind : Becomes(d, [caller[d] EXCEPT !.stage = "read", !.kind = kind])
  BY <1>1, <1>5, NoCall DEF IsInvocation, Fields
<1>6. CASE Becomes(d, [caller[d] EXCEPT !.stage = "store"])
  BY <1>1, <1>6, NoCall DEF IsInvocation, Fields
<1>7. CASE ReadRecord(d)
  <2>1. PICK seen : Becomes(d, [caller[d] EXCEPT !.stage = "write", !.seen = seen])
    BY <1>7 DEF ReadRecord
  <2>2. QED BY <1>1, <2>1, NoCall DEF IsInvocation, Fields
<1>8. CASE WriteRecord(d)
  <2>1. PICK h, stays : Becomes(d, [caller[d] EXCEPT !.stage = "index", !.seen.health = h,
                                                    !.seen.active = @ /\ stays])
    BY <1>8 DEF WriteRecord
  <2>2. QED BY <1>1, <2>1, NoCall DEF IsInvocation, Fields
<1>9. CASE Becomes(d, [caller[d] EXCEPT !.stage = "store", !.seen = Nothing])
  BY <1>1, <1>9, NoCall DEF IsInvocation, Fields
<1>10. CASE Becomes(d, [caller[d] EXCEPT !.stage = "read", !.kind = "UNKNOWN", !.seen = Nothing])
  BY <1>1, <1>10, NoCall DEF IsInvocation, Fields
<1>11. CASE LookAtCooldown(d) \/ Deactivate(d) \/ Drop(d)
  <2> DEFINE i == caller[d]
             rest == Tail(i.ranked)
  <2>1. PICK next : /\ Becomes(d, next)
                    /\ \/ next = [i EXCEPT !.stage = "fetch"] \/ next = [i EXCEPT !.stage = "drop"]
                       \/ next = GoesOn(i, rest)
    <3>1. CASE LookAtCooldown(d)
      BY <3>1 DEF LookAtCooldown
    <3>2. CASE Deactivate(d)
      BY <3>2 DEF Deactivate
    <3>3. CASE Drop(d)
      BY <3>3 DEF Drop
    <3>4. QED BY <1>11, <3>1, <3>2, <3>3
  <2> HIDE DEF rest
  <2>2. next.stage # "call"
    BY <1>1, <2>1 DEF GoesOn, IsInvocation, Fields
  <2>3. QED BY <2>1, <2>2, NoCall
<1>12. QED BY <1>3, <1>4, <1>5, <1>6, <1>7, <1>8, <1>9, <1>10, <1>11
           DEF InvokeStep, BeginInvoke, Survey, HitCache, AnswerCall, FailCall, SkipRecord, CoolDown,
               IndexRecord, ReturnAnswer, Reject

\* Who is handed a key had it at the head of its scan and its row at hand, and
\* that row was active and not used up.
LEMMA LeasesUsable ==
  ASSUME NEW d \in Callers, NEW k \in Keys, CallersInv, NextCandidate(d) \/ LookAtRow(d),
         caller'[d].stage = "call", caller'[d].key = k
  PROVE  d \in Past(k) /\ active[k] /\ ~Exhausted(k)
<1> DEFINE i == caller[d]
<1>1. Sound(i, known, Fresh) /\ IsInvocation(i)
  BY DEF CallersInv, Sound
<1>2. \A next : Becomes(d, next) => caller'[d] = next
  BY DEF Becomes, CallersInv
<1>3. \A key, model : Leased(i, key, model).key = key
  BY <1>1 DEF Leased, IsInvocation, Fields
<1>4. ~NextCandidate(d)
  <2>1. SUFFICES ASSUME NextCandidate(d) PROVE FALSE
    OBVIOUS
  <2>2. i.stage = "lease"
    BY <2>1 DEF NextCandidate
  <2>3. ~Becomes(d, Over("failed"))
    BY <1>2 DEF Over, At
  <2>4. \A n : ~Becomes(d, [i EXCEPT !.turn = n])
    BY <1>1, <1>2, <2>2 DEF IsInvocation, Fields
  <2>5. \A n, ranked : ~Becomes(d, GoesOn([i EXCEPT !.turn = n], ranked))
    BY <1>1, <1>2 DEF GoesOn, IsInvocation, Fields
  <2>6. \A model : ~Becomes(d, Leased(i, MockKey, model))
    BY <1>2, <1>3, KeysAssumption
  <2>7. QED BY <2>1, <2>3, <2>4, <2>5, <2>6 DEF NextCandidate
<1>5. LookAtRow(d) /\ i.stage = "fetch"
  BY <1>4 DEF LookAtRow
<1> DEFINE head == Head(i.ranked)
           rest == Tail(i.ranked)
<1>6. /\ active[head] /\ ~Exhausted(head)
      /\ \E model : Becomes(d, Leased(i, head, model))
  <2>1. ~Becomes(d, [i EXCEPT !.stage = "drop"])
    BY <1>1, <1>2 DEF IsInvocation, Fields
  <2>2. GoesOn(i, rest).stage # "call"
    BY <1>1 DEF GoesOn, IsInvocation, Fields
  <2>3. ~Becomes(d, GoesOn(i, rest))
    BY <1>2, <2>2
  <2>4. QED BY <1>5, <2>1, <2>3 DEF LookAtRow
<1>7. head = k
  BY <1>2, <1>3, <1>6
<1>8. QED BY <1>5, <1>6, <1>7 DEF Past

\* Who passes the cooldown check of a key finds it not cooling down.
LEMMA PassesUncooled ==
  ASSUME NEW d \in Callers, NEW k \in Keys, CallersInv, InvokeStep(d) \/ BeginInvoke(d),
         caller'[d].stage = "fetch", Head(caller'[d].ranked) = k
  PROVE  k \notin cooling
<1> DEFINE i == caller[d]
<1>1. IsInvocation(i)
  BY DEF CallersInv, Sound
<1>2. \A next : Becomes(d, next) => caller'[d] = next
  BY DEF Becomes, CallersInv
<1>3. \A stage, attempt, keys, models :
        stage # "fetch" => ~Becomes(d, At(stage, attempt, keys, models))
  BY <1>2 DEF At
<1>4. ~Becomes(d, Over("failed")) /\ ~Becomes(d, Over("done")) /\ ~Becomes(d, AfterFailure(d))
  BY <1>3 DEF Over, AfterFailure
<1>5. LookAtCooldown(d)
  <2>1. ~BeginInvoke(d) /\ ~HitCache(d) /\ ~ReturnAnswer(d) /\ ~CoolDown(d)
    BY <1>3, <1>4 DEF BeginInvoke, HitCache, ReturnAnswer, CoolDown
  <2>2. ~Survey(d)
    <3>1. \A available : ~Becomes(d, [i EXCEPT !.stage = "lease", !.available = available])
      BY <1>1, <1>2 DEF IsInvocation, Fields
    <3>2. QED BY <1>4, <3>1 DEF Survey
  <2>3. \A key, model : ~Becomes(d, Leased(i, key, model))
    BY <1>1, <1>2 DEF Leased, IsInvocation, Fields
  <2>4. ~NextCandidate(d)
    <3>1. i.stage = "lease" => \A n : ~Becomes(d, [i EXCEPT !.turn = n])
      BY <1>1, <1>2 DEF IsInvocation, Fields
    <3>2. \A n, ranked : ~Becomes(d, GoesOn([i EXCEPT !.turn = n], ranked))
      BY <1>1, <1>2 DEF GoesOn, IsInvocation, Fields
    <3>3. QED BY <1>4, <2>3, <3>1, <3>2 DEF NextCandidate
  <2>5. ~LookAtRow(d) /\ ~Deactivate(d) /\ ~Drop(d)
    <3>1. ~Becomes(d, [i EXCEPT !.stage = "drop"])
      BY <1>1, <1>2 DEF IsInvocation, Fields
    <3>2. \A ranked : ~Becomes(d, GoesOn(i, ranked))
      BY <1>1, <1>2 DEF GoesOn, IsInvocation, Fields
    <3>3. QED BY <2>3, <3>1, <3>2 DEF LookAtRow, Deactivate, Drop
  <2>6. \A kind : ~Becomes(d, [i EXCEPT !.stage = "read", !.kind = kind])
    BY <1>1, <1>2 DEF IsInvocation, Fields
  <2>7. ~AnswerCall(d) /\ \A kind : ~FailCall(d, kind)
    BY <2>6 DEF AnswerCall, FailCall
  <2>8. ~SkipRecord(d) /\ ~IndexRecord(d) /\ ~Reject(d)
    <3>1. /\ ~Becomes(d, [i EXCEPT !.stage = "store"])
          /\ ~Becomes(d, [i EXCEPT !.stage = "store", !.seen = Nothing])
          /\ ~Becomes(d, [i EXCEPT !.stage = "read", !.kind = "UNKNOWN", !.seen = Nothing])
      BY <1>1, <1>2 DEF IsInvocation, Fields
    <3>2. QED BY <1>4, <3>1 DEF SkipRecord, IndexRecord, Reject
  <2>9. ~ReadRecord(d)
    <3>1. \A seen : ~Becomes(d, [i EXCEPT !.stage = "write", !.seen = seen])
      BY <1>1, <1>2 DEF IsInvocation, Fields
    <3>2. QED BY <3>1 DEF ReadRecord
  <2>10. ~WriteRecord(d)
    <3>1. \A h, stays : ~Becomes(d, [i EXCEPT !.stage = "index", !.seen.health = h,
                                              !.seen.active = @ /\ stays])
      BY <1>1, <1>2 DEF IsInvocation, Fields
    <3>2. QED BY <3>1 DEF WriteRecord
  <2>11. QED BY <2>1, <2>2, <2>4, <2>5, <2>7, <2>8, <2>9, <2>10 DEF InvokeStep
<1>6. i.stage = "scan"
  BY <1>5 DEF LookAtCooldown
<1>7. \A ranked : ~Becomes(d, GoesOn(i, ranked))
  BY <1>1, <1>2 DEF GoesOn, IsInvocation, Fields
<1>8. Becomes(d, [i EXCEPT !.stage = "fetch"]) /\ Head(i.ranked) \notin cooling
  BY <1>5, <1>7 DEF LookAtCooldown
<1>9. caller'[d].ranked = i.ranked
  BY <1>1, <1>2, <1>8 DEF IsInvocation, Fields
<1>10. QED BY <1>8, <1>9

\* A rejected or exhausted key is handed to nobody, whatever the index holds, and
\* a cooling one only to who had looked for its cooldown before (manager.ts:121-133).
THEOREM BarredKeysRest == Spec => BarredKeyRests
<1>1. ASSUME KeysInv, CallersInv, [Next]_vars, NEW c \in Callers, caller'[c] # caller[c],
             caller'[c].stage \in {"call", "fetch"}
      PROVE  InvokeStep(c) \/ BeginInvoke(c)
  <2>1. ASSUME NEW d \in Callers \ {c}, InvokeStep(d) \/ BeginInvoke(d) PROVE FALSE
    BY <1>1, <2>1, OthersStay
  <2>2. CASE Restart
    BY <1>1, <2>2 DEF Restart, Over, At
  <2>3. UNCHANGED vars \/ IndexAdded \/ (\E j \in Keys : AddKey(j) \/ ReAddKey(j) \/ CooldownEnds(j))
          => caller' = caller
    BY DEF vars, IndexAdded, AddKey, ReAddKey, CooldownEnds
  <2>4. QED BY <1>1, <2>1, <2>2, <2>3 DEF Next
<1>2. ASSUME KeysInv, CallersInv, [Next]_vars, NEW k \in Keys, NEW c \in Holders(k)'
      PROVE  c \in Holders(k) \/ (c \in Past(k) /\ ~Barred(k))
  <2>1. c \in Callers /\ caller'[c].stage = "call" /\ caller'[c].key = k
    BY <1>2 DEF Holders
  <2>2. CASE caller'[c] = caller[c]
    BY <2>1, <2>2 DEF Holders
  <2>3. CASE caller'[c] # caller[c]
    <3>1. NextCandidate(c) \/ LookAtRow(c)
      BY <1>1, <1>2, <2>1, <2>3, OnlyLookingCalls
    <3>2. c \in Past(k) /\ active[k] /\ ~Exhausted(k)
      BY <1>2, <2>1, <3>1, LeasesUsable
    <3>3. QED BY <1>2, <3>2 DEF Barred, KeysInv, Standings
  <2>4. QED BY <2>2, <2>3
<1>3. ASSUME KeysInv, CallersInv, [Next]_vars, NEW k \in Keys, k \in cooling, NEW c \in Past(k)'
      PROVE  c \in Past(k)
  <2>1. c \in Callers /\ caller'[c].stage = "fetch" /\ Head(caller'[c].ranked) = k
    BY <1>3 DEF Past
  <2>2. caller'[c] = caller[c]
    BY <1>1, <1>3, <2>1, PassesUncooled
  <2>3. QED BY <2>1, <2>2 DEF Past
<1>4. KeysInv /\ CallersInv /\ [Next]_vars
        => [\A k \in Keys :
              /\ Barred(k) /\ Barred(k)' => Holders(k)' \subseteq Holders(k)
              /\ k \in cooling /\ k \in cooling'
                   => (Holders(k) \cup Past(k))' \subseteq Holders(k) \cup Past(k)]_vars
  BY <1>2, <1>3
<1>5. QED BY <1>4, Soundness, PTL DEF Spec, BarredKeyRests

-----------------------------------------------------------------------------
(* Quotas: the answers not recorded yet are counted with the recorded use. *)

Counts(i, k) == i.key = k /\ i.kind = "OK" /\ i.stage \in {"read", "write"}
Pending(k) == { c \in Callers : Counts(caller[c], k) }

QuotaInv ==
  \A k \in Keys :
    /\ quotaUsed[k] + Cardinality(Pending(k)) <= answered[k]
    /\ \A c \in Pending(k) :
         caller[c].stage = "write"
           => caller[c].seen.quotaUsed + Cardinality(Pending(k)) <= answered[k]

LEMMA PendingIsFinite == \A k : IsFiniteSet(Pending(k)) /\ Cardinality(Pending(k)) \in Nat
<1>1. \A k : Pending(k) \subseteq Callers
  BY DEF Pending
<1>2. QED BY <1>1, KeysAssumption, FS_Subset, FS_CardinalityType

\* A step of one invocation that answers nothing and records no use.
LEMMA QuotaQuiet ==
  ASSUME NEW d \in Callers, NEW next, KeysInv, CallersInv, QuotaInv, Becomes(d, next),
         UNCHANGED <<quotaUsed, answered>>,
         \A k \in Keys : Counts(next, k) =>
           /\ Counts(caller[d], k)
           /\ next.stage = "write" => next.seen.quotaUsed = quotaUsed[k]
  PROVE  QuotaInv'
<1>1. \A c \in Callers : caller'[c] = IF c = d THEN next ELSE caller[c]
  BY DEF Becomes, CallersInv
<1>2. SUFFICES ASSUME NEW k \in Keys
               PROVE  /\ quotaUsed[k] + Cardinality(Pending(k)') <= answered[k]
                      /\ \A c \in Pending(k)' :
                           caller'[c].stage = "write"
                             => caller'[c].seen.quotaUsed + Cardinality(Pending(k)') <= answered[k]
  BY DEF QuotaInv
<1>3. Pending(k)' \subseteq Pending(k)
  BY <1>1 DEF Pending
<1>4. Cardinality(Pending(k)') <= Cardinality(Pending(k)) /\ Cardinality(Pending(k)') \in Nat
  BY <1>3, PendingIsFinite, FS_Subset, FS_CardinalityType
<1>5. quotaUsed[k] \in Nat /\ answered[k] \in Nat /\ Cardinality(Pending(k)) \in Nat
  BY PendingIsFinite DEF KeysInv, RowTypes
<1>6. quotaUsed[k] + Cardinality(Pending(k)') <= answered[k]
  BY <1>4, <1>5 DEF QuotaInv
<1>7. ASSUME NEW c \in Pending(k)', caller'[c].stage = "write"
      PROVE  caller'[c].seen.quotaUsed + Cardinality(Pending(k)') <= answered[k]
  <2>1. CASE c = d
    BY <1>1, <1>6, <1>7, <2>1 DEF Pending
  <2>2. CASE c # d
    <3>1. caller'[c] = caller[c] /\ c \in Pending(k) /\ caller[c].seen.quotaUsed \in Nat
      BY <1>1, <1>3, <1>7, <2>2 DEF CallersInv, Sound, Pending
    <3>2. QED BY <1>4, <1>5, <1>7, <3>1 DEF QuotaInv
  <2>3. QED BY <2>1, <2>2
<1>8. QED BY <1>6, <1>7

\* An answer is one more, recorded or not.
LEMMA QuotaAnswered ==
  ASSUME NEW d \in Callers, KeysInv, CallersInv, QuotaInv, AnswerCall(d)
  PROVE  QuotaInv'
<1> DEFINE next == [caller[d] EXCEPT !.stage = "read", !.kind = "OK"]
<1>1. \A c \in Callers : caller'[c] = IF c = d THEN next ELSE caller[c]
  BY DEF AnswerCall, Becomes, CallersInv
<1>2. next.stage = "read" /\ next.kind = "OK" /\ next.key = caller[d].key
  BY DEF CallersInv, Sound, IsInvocation, Fields
<1> HIDE DEF next
<1>3. quotaUsed' = quotaUsed /\ caller[d].stage = "call"
  BY DEF AnswerCall, rows
<1>4. SUFFICES ASSUME NEW k \in Keys
               PROVE  /\ quotaUsed[k] + Cardinality(Pending(k)') <= answered'[k]
                      /\ \A c \in Pending(k)' :
                           caller'[c].stage = "write"
                             => caller'[c].seen.quotaUsed + Cardinality(Pending(k)') <= answered'[k]
  BY <1>3 DEF QuotaInv
<1>5. quotaUsed[k] \in Nat /\ answered[k] \in Nat /\ Cardinality(Pending(k)) \in Nat
  BY PendingIsFinite DEF KeysInv, RowTypes
<1>6. \A c \in Pending(k)' : caller'[c].stage = "write" =>
        c \in Pending(k) /\ caller'[c] = caller[c] /\ caller[c].seen.quotaUsed \in Nat
  BY <1>1, <1>2 DEF Pending, CallersInv, Sound
<1>7. CASE k = caller[d].key
  <2>1. Pending(k)' = Pending(k) \cup {d} /\ d \notin Pending(k)
    BY <1>1, <1>2, <1>3, <1>7 DEF Pending, Counts
  <2>2. Cardinality(Pending(k)') = Cardinality(Pending(k)) + 1
    BY <2>1, PendingIsFinite, FS_AddElement
  <2>3. answered'[k] = answered[k] + 1
    BY <1>7 DEF AnswerCall
  <2>4. QED BY <1>5, <1>6, <2>2, <2>3 DEF QuotaInv
<1>8. CASE k # caller[d].key
  <2>1. Pending(k)' = Pending(k) /\ answered'[k] = answered[k]
    BY <1>1, <1>2, <1>3, <1>8 DEF Pending, Counts, AnswerCall
  <2>2. QED BY <1>5, <1>6, <2>1 DEF QuotaInv
<1>9. QED BY <1>7, <1>8

\* A use is recorded over what the row was when it was read: other uses may be
\* lost, none is counted that was not answered.
LEMMA QuotaRecorded ==
  ASSUME NEW d \in Callers, KeysInv, CallersInv, QuotaInv, WriteRecord(d)
  PROVE  QuotaInv'
<1>1. PICK h, stays : Becomes(d, [caller[d] EXCEPT !.stage = "index", !.seen.health = h,
                                                   !.seen.active = @ /\ stays])
  BY DEF WriteRecord
<1> DEFINE next == [caller[d] EXCEPT !.stage = "index", !.seen.health = h,
                                     !.seen.active = @ /\ stays]
           j == caller[d].key
<1>2. next.stage = "index"
  BY DEF CallersInv, Sound, IsInvocation, Fields
<1> HIDE DEF next
<1>3. \A c \in Callers : caller'[c] = IF c = d THEN next ELSE caller[c]
  BY <1>1 DEF Becomes, CallersInv, next
<1>4. /\ answered' = answered /\ caller[d].stage = "write"
      /\ j \in Keys /\ caller[d].seen.quotaUsed \in Nat
      /\ quotaUsed' = IF caller[d].kind = "OK"
                      THEN [quotaUsed EXCEPT ![j] = caller[d].seen.quotaUsed + 1] ELSE quotaUsed
  BY DEF WriteRecord, CallersInv, Sound, KeysInv, RowTypes
<1>5. SUFFICES ASSUME NEW k \in Keys
               PROVE  /\ quotaUsed'[k] + Cardinality(Pending(k)') <= answered[k]
                      /\ \A c \in Pending(k)' :
                           caller'[c].stage = "write"
                             => caller'[c].seen.quotaUsed + Cardinality(Pending(k)') <= answered[k]
  BY <1>4 DEF QuotaInv
<1>6. quotaUsed[k] \in Nat /\ answered[k] \in Nat /\ Cardinality(Pending(k)) \in Nat
  BY PendingIsFinite DEF KeysInv, RowTypes
<1>7. Pending(k)' = Pending(k) \ {d}
  BY <1>2, <1>3 DEF Pending, Counts
<1>8. Cardinality(Pending(k)') = Cardinality(Pending(k)) - (IF d \in Pending(k) THEN 1 ELSE 0)
  <2>1. CASE d \in Pending(k)
    BY <1>7, <2>1, PendingIsFinite, FS_RemoveElement
  <2>2. CASE d \notin Pending(k)
    <3>1. Pending(k)' = Pending(k)
      BY <1>7, <2>2
    <3>2. QED BY <1>6, <2>2, <3>1
  <2>3. QED BY <2>1, <2>2
<1>9. quotaUsed'[k] + Cardinality(Pending(k)') <= answered[k]
  <2>1. CASE k = j /\ caller[d].kind = "OK"
    <3>1. d \in Pending(k) /\ quotaUsed'[k] = caller[d].seen.quotaUsed + 1
      BY <1>4, <2>1 DEF Pending, Counts, KeysInv, RowTypes
    <3>2. caller[d].seen.quotaUsed + Cardinality(Pending(k)) <= answered[k]
      BY <1>4, <3>1 DEF QuotaInv
    <3>3. QED BY <1>4, <1>6, <1>8, <3>1, <3>2
  <2>2. CASE ~(k = j /\ caller[d].kind = "OK")
    <3>1. quotaUsed'[k] = quotaUsed[k]
      BY <1>4, <2>2 DEF KeysInv, RowTypes
    <3>2. QED BY <1>6, <1>8, <3>1 DEF QuotaInv
  <2>3. QED BY <2>1, <2>2
<1>10. ASSUME NEW c \in Pending(k)', caller'[c].stage = "write"
       PROVE  caller'[c].seen.quotaUsed + Cardinality(Pending(k)') <= answered[k]
  <2>1. caller'[c] = caller[c] /\ c \in Pending(k) /\ caller[c].seen.quotaUsed \in Nat
    BY <1>3, <1>7, <1>10 DEF Pending, CallersInv, Sound
  <2>2. QED BY <1>6, <1>8, <1>10, <2>1 DEF QuotaInv
<1>11. QED BY <1>9, <1>10

LEMMA StepKeepsQuota ==
  ASSUME KeysInv, CallersInv, QuotaInv, [Next]_vars
  PROVE  QuotaInv'
<1>1. CASE UNCHANGED <<caller, quotaUsed, answered>>
  BY <1>1 DEF QuotaInv, Pending
<1>2. ASSUME NEW d \in Callers, InvokeStep(d) \/ BeginInvoke(d) PROVE QuotaInv'
  <2>1. ASSUME NEW next, Becomes(d, next), UNCHANGED <<quotaUsed, answered>>, next.kind # "OK"
        PROVE  QuotaInv'
    BY <2>1, QuotaQuiet DEF Counts
  <2>2. ASSUME NEW next, Becomes(d, next), UNCHANGED <<quotaUsed, answered>>,
               next.stage \notin {"read", "write"}
        PROVE  QuotaInv'
    BY <2>2, QuotaQuiet DEF Counts
  <2>3. IsInvocation(caller[d]) /\ Sound(caller[d], known, Fresh)
    BY DEF CallersInv, Sound
  <2>4. CASE BeginInvoke(d) \/ HitCache(d) \/ CoolDown(d) \/ ReturnAnswer(d)
    BY <2>1, <2>4, StartsOver, FailureStartsOver
       DEF BeginInvoke, HitCache, CoolDown, ReturnAnswer, Over, rows
  <2>5. CASE \/ Survey(d) \/ NextCandidate(d) \/ LookAtCooldown(d) \/ LookAtRow(d) \/ Deactivate(d)
             \/ Drop(d)
    <3> DEFINE i == caller[d]
               rest == Tail(i.ranked)
    <3>1. UNCHANGED <<quotaUsed, answered>> /\ i.kind # "OK"
      BY <2>3, <2>5 DEF Survey, NextCandidate, LookAtCooldown, LookAtRow, Deactivate, Drop, rows,
                        Sound, Settling
    <3>2. /\ \A turn : [i EXCEPT !.turn = turn].kind # "OK"
          /\ \A turn, ranked : GoesOn([i EXCEPT !.turn = turn], ranked).kind # "OK"
          /\ \A stage : [i EXCEPT !.stage = stage].kind # "OK"
          /\ \A ranked : GoesOn(i, ranked).kind # "OK"
      BY <2>3, <3>1 DEF GoesOn, IsInvocation, Fields
    <3>3. \A k, model : Leased(i, k, model).kind # "OK"
      BY <2>3, <3>1 DEF Leased, IsInvocation, Fields
    <3>4. Over("failed").kind # "OK"
      BY StartsOver DEF Over
    <3>5. CASE Survey(d)
      <4>1. PICK available : Becomes(d, IF available = {} THEN Over("failed")
               ELSE [i EXCEPT !.stage = "lease", !.available = available])
        BY <3>5 DEF Survey
      <4>2. [i EXCEPT !.stage = "lease", !.available = available].kind # "OK"
        BY <2>3, <3>1 DEF IsInvocation, Fields
      <4>3. QED BY <2>1, <3>1, <3>4, <4>1, <4>2
    <3>6. CASE NextCandidate(d)
      <4>1. \/ Becomes(d, Over("failed")) \/ Becomes(d, [i EXCEPT !.turn = i.turn + 1])
            \/ \E model : Becomes(d, Leased(i, MockKey, model))
            \/ \E ranked : Becomes(d, GoesOn([i EXCEPT !.turn = i.turn + 1], ranked))
        BY <3>6 DEF NextCandidate
      <4>2. QED BY <2>1, <3>1, <3>2, <3>3, <3>4, <4>1
    <3>7. CASE LookAtCooldown(d) \/ Deactivate(d) \/ Drop(d)
      <4>1. \/ \E stage : Becomes(d, [i EXCEPT !.stage = stage])
            \/ Becomes(d, GoesOn(i, rest))
        BY <3>7 DEF LookAtCooldown, Deactivate, Drop
      <4>2. QED BY <2>1, <3>1, <3>2, <4>1
    <3>8. CASE LookAtRow(d)
      <4>1. \/ Becomes(d, [i EXCEPT !.stage = "drop"])
            \/ Becomes(d, GoesOn(i, rest))
            \/ Becomes(d, Leased(i, Head(i.ranked), Candidates(d)[i.turn]))
        BY <3>8 DEF LookAtRow
      <4>2. QED BY <2>1, <3>1, <3>2, <3>3, <4>1
    <3>9. QED BY <2>5, <3>5, <3>6, <3>7, <3>8
  <2>6. CASE \E kind \in ErrorKinds : FailCall(d, kind)
    <3>1. PICK kind \in ErrorKinds : FailCall(d, kind)
      BY <2>6
    <3>2. [caller[d] EXCEPT !.stage = "read", !.kind = kind].kind # "OK"
      BY <2>3 DEF IsInvocation, Fields, ErrorKinds
    <3>3. QED BY <2>1, <3>1, <3>2 DEF FailCall, rows
  <2>7. CASE SkipRecord(d)
    <3>1. [caller[d] EXCEPT !.stage = "store"].stage = "store"
      BY <2>3 DEF IsInvocation, Fields
    <3>2. QED BY <2>1, <2>2, <2>7, <3>1, FailureStartsOver DEF SkipRecord, rows
  <2>8. CASE ReadRecord(d)
    <3> DEFINE k == caller[d].key
               seen == [active |-> active[k], quotaUsed |-> quotaUsed[k],
                        health |-> health[k], history |-> history[k]]
               next == [caller[d] EXCEPT !.stage = "write", !.seen = seen]
    <3>1. Becomes(d, next) /\ UNCHANGED <<quotaUsed, answered>> /\ caller[d].stage = "read"
      BY <2>8 DEF ReadRecord, rows
    <3>2. next.stage = "write" /\ next.key = k /\ next.kind = caller[d].kind
          /\ next.seen.quotaUsed = quotaUsed[k]
      BY <2>3 DEF IsInvocation, Fields
    <3> HIDE DEF next
    <3>3. QED BY <3>1, <3>2, QuotaQuiet DEF Counts
  <2>9. CASE IndexRecord(d)
    <3>1. [caller[d] EXCEPT !.stage = "store", !.seen = Nothing].stage = "store"
      BY <2>3 DEF IsInvocation, Fields
    <3>2. QED BY <2>1, <2>2, <2>9, <3>1, FailureStartsOver DEF IndexRecord, rows
  <2>10. CASE Reject(d)
    <3>1. [caller[d] EXCEPT !.stage = "read", !.kind = "UNKNOWN", !.seen = Nothing].kind = "UNKNOWN"
      BY <2>3 DEF IsInvocation, Fields
    <3>2. QED BY <2>1, <2>10, <3>1, StartsOver DEF Reject, Over, rows
  <2>11. QED BY <1>2, <2>4, <2>5, <2>6, <2>7, <2>8, <2>9, <2>10, QuotaAnswered, QuotaRecorded
             DEF InvokeStep
<1>3. CASE Restart
  <2>1. UNCHANGED <<quotaUsed, answered>> /\ \A k \in Keys : Pending(k)' = {}
    <3>1. \A c \in Callers : caller'[c].stage \notin {"read", "write"}
      BY <1>3, FailureHasNoCall DEF Restart, Over
    <3>2. QED BY <1>3, <3>1 DEF Restart, rows, Pending, Counts
  <2>2. \A k \in Keys : quotaUsed[k] <= answered[k]
    BY PendingIsFinite DEF KeysInv, RowTypes, QuotaInv
  <2>3. \A k \in Keys : quotaUsed[k] \in Nat /\ Cardinality(Pending(k)') = 0
    BY <2>1, FS_EmptySet DEF KeysInv, RowTypes
  <2>4. QED BY <2>1, <2>2, <2>3 DEF QuotaInv
<1>4. UNCHANGED vars \/ IndexAdded \/ (\E j \in Keys : AddKey(j) \/ ReAddKey(j) \/ CooldownEnds(j))
        => UNCHANGED <<caller, quotaUsed, answered>>
  BY DEF vars, rows, IndexAdded, AddKey, ReAddKey, CooldownEnds
<1>5. QED BY <1>1, <1>2, <1>3, <1>4 DEF Next

\* Updates of one row interleave, fail half way or are repeated as failures: it
\* never claims more use than the key had (manager.ts:176-186).
THEOREM QuotasNeverOverstated == Spec => []QuotaNeverOverstated
<1>1. Init => QuotaInv
  <2> SUFFICES ASSUME Init PROVE QuotaInv
    OBVIOUS
  <2>1. \A k \in Keys : Pending(k) = {}
    BY DEF Init, Pending, Counts, Over, At
  <2>2. \A k \in Keys : Cardinality(Pending(k)) = 0
    BY <2>1, FS_EmptySet
  <2>3. QED BY <2>1, <2>2 DEF Init, QuotaInv
<1>2. KeysInv /\ CallersInv /\ QuotaInv /\ [Next]_vars => QuotaInv'
  BY StepKeepsQuota
<1>3. KeysInv /\ QuotaInv => QuotaNeverOverstated
  BY PendingIsFinite DEF KeysInv, RowTypes, QuotaInv, QuotaNeverOverstated
<1>4. QED BY <1>1, <1>2, <1>3, Soundness, PTL DEF Spec
=============================================================================
