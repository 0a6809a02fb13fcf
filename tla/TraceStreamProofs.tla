------------------------- MODULE TraceStreamProofs -------------------------
(* Proofs about TraceStream, for any number of phones and viewers, any     *)
(* limit of connections and any length of the trace.                       *)
EXTENDS TraceStream, FiniteSetTheorems, TLAPS

\* The sockets the server counts and the phone still holds.
On == {w \in Watchers : watcher[w].link = "on"}

\* A phone has its five fields, whatever is in them.
Fields == {"link", "asks", "errors", "poll", "seen"}
IsPhone(p) == p = [f \in Fields |-> p[f]]

LEMMA FieldSet ==
  ASSUME NEW p, IsPhone(p), NEW f \in Fields, NEW value
  PROVE  /\ IsPhone([p EXCEPT ![f] = value])
         /\ [p EXCEPT ![f] = value][f] = value
         /\ \A g \in Fields \ {f} : [p EXCEPT ![f] = value][g] = p[g]
BY DEF IsPhone

Phones == watcher = [w \in Watchers |-> watcher[w]] /\ \A w \in Watchers : IsPhone(watcher[w])

\* The slots as they are held, and a poll ends only with a task that is over.
SlotsInv ==
  /\ Phones
  /\ slots \in Nat /\ ghosts \in Nat
  /\ slots = Cardinality(On) + ghosts
  /\ \A w \in Watchers : watcher[w].poll = "ended" => over

\* The sockets are finitely many.
LEMMA OnIsFinite == IsFiniteSet(On) /\ Cardinality(On) \in Nat
<1>1. On \subseteq Watchers
  BY DEF On
<1>2. QED BY <1>1, StreamAssumption, FS_Subset, FS_CardinalityType

\* What a step does to one phone: its row is replaced, and with it possibly the
\* set of sockets.
LEMMA Replaced ==
  ASSUME NEW w \in Watchers, NEW phone, SlotsInv, IsPhone(phone),
         watcher' = [watcher EXCEPT ![w] = phone], over' = over,
         phone.poll = "ended" => over
  PROVE  /\ Phones'
         /\ \A u \in Watchers : watcher'[u].poll = "ended" => over'
         /\ On' = IF phone.link = "on" THEN On \cup {w} ELSE On \ {w}
<1>1. watcher'[w] = phone /\ \A u \in Watchers \ {w} : watcher'[u] = watcher[u]
  BY DEF SlotsInv, Phones
<1>2. watcher' = [u \in Watchers |-> watcher'[u]]
  BY DEF SlotsInv, Phones
<1>3. Phones'
  BY <1>1, <1>2 DEF SlotsInv, Phones
<1>4. \A u \in Watchers : watcher'[u].poll = "ended" => over'
  BY <1>1 DEF SlotsInv
<1>5. On' = IF phone.link = "on" THEN On \cup {w} ELSE On \ {w}
  BY <1>1 DEF On
<1>6. QED BY <1>3, <1>4, <1>5

\* A step of a phone that neither opens nor closes a socket.
LEMMA ReplacedQuietly ==
  ASSUME NEW w \in Watchers, NEW phone, SlotsInv, IsPhone(phone),
         watcher' = [watcher EXCEPT ![w] = phone], UNCHANGED <<over, slots, ghosts>>,
         phone.link = "on" <=> watcher[w].link = "on", phone.poll = "ended" => over
  PROVE  SlotsInv'
<1>1. On' = On
  BY Replaced DEF On
<1>2. QED BY <1>1, Replaced DEF SlotsInv

\* A socket that is connected takes a slot, one that is cut becomes a ghost.
LEMMA ConnectCounts ==
  ASSUME NEW w \in Watchers, SlotsInv, Connect(w) PROVE SlotsInv'
<1> DEFINE phone == [watcher[w] EXCEPT !.link = "on", !.asks = 2, !.errors = 0, !.poll = "off"]
<1>1. watcher' = [watcher EXCEPT ![w] = phone] /\ w \notin On
  BY DEF Connect, On
<1>2. IsPhone(phone) /\ phone.link = "on" /\ phone.poll = "off"
  BY DEF SlotsInv, Phones, IsPhone, Fields
<1> HIDE DEF phone
<1>3. On' = On \cup {w} /\ Phones' /\ \A u \in Watchers : watcher'[u].poll = "ended" => over'
  BY <1>1, <1>2, Replaced DEF Connect, server
<1>4. Cardinality(On') = Cardinality(On) + 1
  BY <1>1, <1>3, OnIsFinite, FS_AddElement
<1>5. QED BY <1>3, <1>4, OnIsFinite DEF SlotsInv, Connect

LEMMA CutCounts ==
  ASSUME NEW w \in Watchers, SlotsInv, Cut(w) PROVE SlotsInv'
<1> DEFINE phone == [watcher[w] EXCEPT !.link = "away", !.asks = 0]
<1>1. watcher' = [watcher EXCEPT ![w] = phone] /\ w \in On
  BY DEF Cut, On, SlotsInv, Phones
<1>2. IsPhone(phone) /\ phone.link = "away" /\ phone.poll = watcher[w].poll
  BY DEF SlotsInv, Phones, IsPhone, Fields
<1> HIDE DEF phone
<1>3. On' = On \ {w} /\ Phones' /\ \A u \in Watchers : watcher'[u].poll = "ended" => over'
  BY <1>1, <1>2, Replaced DEF Cut, server, SlotsInv
<1>4. Cardinality(On') = Cardinality(On) - 1
  BY <1>1, <1>3, OnIsFinite, FS_RemoveElement
<1>5. slots' = slots /\ ghosts' = ghosts + 1
  BY DEF Cut
<1>6. slots' = Cardinality(On') + ghosts' /\ slots' \in Nat /\ ghosts' \in Nat
  BY <1>4, <1>5, OnIsFinite DEF SlotsInv
<1>7. QED BY <1>3, <1>6 DEF SlotsInv

\* A ghost that is found gives one slot back, never less and never more.
LEMMA DisconnectCounts ==
  ASSUME SlotsInv, Disconnect PROVE SlotsInv'
<1>1. slots > 0 /\ Released = slots - 1
  BY OnIsFinite DEF SlotsInv, Disconnect, Released
<1>2. UNCHANGED <<watcher, On, over>>
  BY DEF Disconnect, On, server
<1>3. QED BY <1>1, <1>2, OnIsFinite DEF SlotsInv, Phones, Disconnect

\* An error is counted and may start the polling; the socket stays as it is.
LEMMA ErredPhone ==
  ASSUME NEW p, IsPhone(p)
  PROVE  /\ IsPhone(Erred(p)) /\ Erred(p).link = p.link
         /\ Erred(p).poll = "ended" => p.poll = "ended"
         /\ Erred(p).poll = "off" => p.poll = "off"
BY DEF IsPhone, Fields, Erred

LEMMA SocketKeepsSlots ==
  ASSUME NEW w \in Watchers, SlotsInv,
         Refuse(w) \/ ConnectError(w) \/ SocketUnusable(w) \/ Replay(w)
  PROVE  SlotsInv'
<1>1. IsPhone(watcher[w]) /\ UNCHANGED <<over, slots, ghosts>>
  BY DEF SlotsInv, Phones, Refuse, ConnectError, SocketUnusable, Replay, server
<1>2. CASE Refuse(w)
  <2> DEFINE refused == [watcher[w] EXCEPT !.link = "refused"]
  <2>1. watcher' = [watcher EXCEPT ![w] = Erred(refused)] /\ watcher[w].link = "away"
    BY <1>2 DEF Refuse
  <2>2. IsPhone(refused) /\ refused.link = "refused" /\ refused.poll = watcher[w].poll
    BY <1>1 DEF IsPhone, Fields
  <2> HIDE DEF refused
  <2>3. QED BY <1>1, <2>1, <2>2, ErredPhone, ReplacedQuietly DEF SlotsInv
<1>3. CASE ConnectError(w)
  BY <1>1, <1>3, ErredPhone, ReplacedQuietly DEF ConnectError, SlotsInv
<1>4. CASE SocketUnusable(w)
  <2> DEFINE unusable == [watcher[w] EXCEPT !.link = "unusable", !.poll = "ask"]
  <2>1. watcher' = [watcher EXCEPT ![w] = unusable] /\ watcher[w].link = "away"
    BY <1>4 DEF SocketUnusable, SlotsInv, Phones
  <2>2. IsPhone(unusable) /\ unusable.link = "unusable" /\ unusable.poll = "ask"
    BY <1>1 DEF IsPhone, Fields
  <2> HIDE DEF unusable
  <2>3. QED BY <1>1, <2>1, <2>2, ReplacedQuietly
<1>5. CASE Replay(w)
  <2> DEFINE replayed == [watcher[w] EXCEPT !.asks = @ - 1, !.seen = withEvents(@, table)]
  <2>1. watcher' = [watcher EXCEPT ![w] = replayed]
    BY <1>5 DEF Replay, SlotsInv, Phones
  <2>2. IsPhone(replayed) /\ replayed.link = watcher[w].link /\ replayed.poll = watcher[w].poll
    BY <1>1 DEF IsPhone, Fields
  <2> HIDE DEF replayed
  <2>3. QED BY <1>1, <2>1, <2>2, ReplacedQuietly DEF SlotsInv
<1>6. QED BY <1>2, <1>3, <1>4, <1>5

LEMMA PollingKeepsSlots ==
  ASSUME NEW w \in Watchers, SlotsInv, Polling(w) PROVE SlotsInv'
<1>1. IsPhone(watcher[w]) /\ UNCHANGED <<over, slots, ghosts>>
  BY DEF SlotsInv, Phones, Polling, PollStatus, PollUnknown, PollEvents, PollFails, server
<1>2. CASE PollStatus(w) \/ PollUnknown(w) \/ PollFails(w)
  <2>1. PICK phone : /\ watcher' = [watcher EXCEPT ![w] = phone]
                    /\ \E poll \in Polls : /\ phone = [watcher[w] EXCEPT !.poll = poll]
                                           /\ poll = "ended" => over
    BY <1>2 DEF PollStatus, PollUnknown, PollFails, SlotsInv, Phones, Polls
  <2>2. IsPhone(phone) /\ phone.link = watcher[w].link /\ (phone.poll = "ended" => over)
    BY <1>1, <2>1 DEF IsPhone, Fields
  <2>3. QED BY <1>1, <2>1, <2>2, ReplacedQuietly
<1>3. CASE PollEvents(w)
  <2> DEFINE poll == IF watcher[w].poll = "ended" THEN "off" ELSE "ask"
             polled == [watcher[w] EXCEPT !.poll = poll, !.seen = withEvents(@, table)]
  <2>1. watcher' = [watcher EXCEPT ![w] = polled]
    BY <1>3 DEF PollEvents, SlotsInv, Phones
  <2>2. IsPhone(polled) /\ polled.link = watcher[w].link /\ polled.poll # "ended"
    BY <1>1 DEF IsPhone, Fields
  <2> HIDE DEF polled
  <2>3. QED BY <1>1, <2>1, <2>2, ReplacedQuietly
<1>4. QED BY <1>2, <1>3 DEF Polling

\* An event is appended to the timelines of those who hold a socket.
LEMMA EmitKeepsSlots ==
  ASSUME SlotsInv, Emit PROVE SlotsInv'
<1>1. ASSUME NEW w \in Watchers
      PROVE  IsPhone(watcher'[w]) /\ watcher'[w].link = watcher[w].link
             /\ watcher'[w].poll = watcher[w].poll
  BY DEF SlotsInv, Phones, Emit, Broadcast, IsPhone, Fields
<1>2. watcher' = [w \in Watchers |-> watcher'[w]]
  BY DEF Emit, Broadcast
<1>3. On' = On
  BY <1>1 DEF On
<1>4. QED BY <1>1, <1>2, <1>3 DEF SlotsInv, Phones, Emit

LEMMA StepKeepsSlots ==
  ASSUME SlotsInv, [Next]_vars PROVE SlotsInv'
<1>1. ASSUME UNCHANGED <<watcher, slots, ghosts>>, over => over' PROVE SlotsInv'
  BY <1>1 DEF SlotsInv, Phones, On
<1>2. CASE UNCHANGED vars
  BY <1>1, <1>2 DEF vars
<1>3. CASE EndTask \/ \E event \in 1..LastEvent : Insert(event)
  BY <1>1, <1>3 DEF EndTask, Insert
<1>4. ASSUME NEW v \in Viewers, View(v) PROVE SlotsInv'
  BY <1>1, <1>4 DEF View, ReadHistory, AddListener, CloseView, server
<1>5. ASSUME NEW w \in Watchers, Socket(w) PROVE SlotsInv'
  BY <1>5, ConnectCounts, CutCounts, SocketKeepsSlots DEF Socket
<1>6. QED BY <1>2, <1>3, <1>4, <1>5, EmitKeepsSlots, DisconnectCounts, PollingKeepsSlots DEF Next

LEMMA SlotsInvariance == Spec => []SlotsInv
<1>1. Init => SlotsInv
  <2> SUFFICES ASSUME Init PROVE SlotsInv
    OBVIOUS
  <2>1. Phones
    BY DEF Init, Phones, IsPhone, Fields
  <2>2. On = {} /\ \A w \in Watchers : watcher[w].poll = "off"
    BY DEF Init, On
  <2>3. Cardinality(On) = 0
    BY <2>2, FS_EmptySet
  <2>4. QED BY <2>1, <2>2, <2>3 DEF Init, SlotsInv
<1>2. SlotsInv /\ [Next]_vars => SlotsInv'
  BY StepKeepsSlots
<1>3. QED BY <1>1, <1>2, PTL DEF Spec

\* However many phones connect, are refused, break off and come back, the count
\* of connections is the sockets held and the broken ones not yet found
\* (stream.ts:56-63, 97-102).
THEOREM SlotsAlwaysCounted == Spec => []SlotsCounted
<1>1. SlotsInv => SlotsCounted
  BY DEF SlotsInv, SlotsCounted, On
<1>2. QED BY <1>1, SlotsInvariance, PTL

\* A step of a phone replaces its row, and its polling goes on unless the socket
\* is connected, the task is over or the server does not know it.
StoppedOff(p, q) == p.poll # "off" /\ q.poll = "off"

LEMMA StepOfAPhone ==
  ASSUME NEW u \in Watchers, SlotsInv, Socket(u) \/ Polling(u)
  PROVE  \E phone : /\ watcher' = [watcher EXCEPT ![u] = phone]
                    /\ StoppedOff(watcher[u], phone) => phone.link = "on" \/ over \/ ~known
<1>1. IsPhone(watcher[u])
  BY DEF SlotsInv, Phones
<1>2. CASE Connect(u)
  <2> DEFINE phone == [watcher[u] EXCEPT !.link = "on", !.asks = 2, !.errors = 0, !.poll = "off"]
  <2>1. watcher' = [watcher EXCEPT ![u] = phone] /\ phone.link = "on"
    BY <1>1, <1>2 DEF Connect, IsPhone, Fields
  <2>2. QED BY <2>1
<1>3. CASE Refuse(u)
  <2> DEFINE refused == [watcher[u] EXCEPT !.link = "refused"]
  <2>1. watcher' = [watcher EXCEPT ![u] = Erred(refused)]
    BY <1>3 DEF Refuse
  <2>2. IsPhone(refused) /\ refused.poll = watcher[u].poll
    BY <1>1 DEF IsPhone, Fields
  <2> HIDE DEF refused
  <2>3. ~StoppedOff(watcher[u], Erred(refused))
    BY <2>2, ErredPhone DEF StoppedOff
  <2>4. QED BY <2>1, <2>3
<1>4. CASE ConnectError(u)
  <2>1. watcher' = [watcher EXCEPT ![u] = Erred(watcher[u])]
    BY <1>4 DEF ConnectError
  <2>2. ~StoppedOff(watcher[u], Erred(watcher[u]))
    BY <1>1, ErredPhone DEF StoppedOff
  <2>3. QED BY <2>1, <2>2
<1>5. CASE SocketUnusable(u)
  <2> DEFINE phone == [watcher[u] EXCEPT !.link = "unusable", !.poll = "ask"]
  <2>1. watcher' = [watcher EXCEPT ![u] = phone]
    BY <1>5 DEF SocketUnusable, SlotsInv, Phones
  <2>2. ~StoppedOff(watcher[u], phone)
    BY <1>1 DEF IsPhone, Fields, StoppedOff
  <2>3. QED BY <2>1, <2>2
<1>6. CASE Replay(u)
  <2> DEFINE phone == [watcher[u] EXCEPT !.asks = @ - 1, !.seen = withEvents(@, table)]
  <2>1. watcher' = [watcher EXCEPT ![u] = phone]
    BY <1>6 DEF Replay, SlotsInv, Phones
  <2>2. ~StoppedOff(watcher[u], phone)
    BY <1>1 DEF IsPhone, Fields, StoppedOff
  <2>3. QED BY <2>1, <2>2
<1>7. CASE Cut(u)
  <2> DEFINE phone == [watcher[u] EXCEPT !.link = "away", !.asks = 0]
  <2>1. watcher' = [watcher EXCEPT ![u] = phone]
    BY <1>7 DEF Cut, SlotsInv, Phones
  <2>2. ~StoppedOff(watcher[u], phone)
    BY <1>1 DEF IsPhone, Fields, StoppedOff
  <2>3. QED BY <2>1, <2>2
<1>8. CASE PollStatus(u) \/ PollFails(u)
  <2>1. PICK poll \in Polls : /\ watcher' = [watcher EXCEPT ![u] = [watcher[u] EXCEPT !.poll = poll]]
                             /\ poll # "off"
    BY <1>8 DEF PollStatus, PollFails, SlotsInv, Phones, Polls
  <2>2. ~StoppedOff(watcher[u], [watcher[u] EXCEPT !.poll = poll])
    BY <1>1, <2>1 DEF IsPhone, Fields, StoppedOff
  <2>3. QED BY <2>1, <2>2
<1>9. CASE PollEvents(u)
  <2> DEFINE poll == IF watcher[u].poll = "ended" THEN "off" ELSE "ask"
             phone == [watcher[u] EXCEPT !.poll = poll, !.seen = withEvents(@, table)]
  <2>1. watcher' = [watcher EXCEPT ![u] = phone]
    BY <1>9 DEF PollEvents, SlotsInv, Phones
  <2>2. phone.poll = "off" => watcher[u].poll = "ended"
    BY <1>1 DEF IsPhone, Fields
  <2>3. QED BY <2>1, <2>2 DEF StoppedOff, SlotsInv
<1>10. CASE PollUnknown(u)
  BY <1>10 DEF PollUnknown
<1>11. QED BY <1>2, <1>3, <1>4, <1>5, <1>6, <1>7, <1>8, <1>9, <1>10 DEF Socket, Polling

\* No step but one that connects the socket, one of a task that is over, or the
\* answer that there is no such task ends a phone's polling
\* (TaskRepositoryImpl.kt:153-158, 189-205).
THEOREM PollingAlwaysStopsForAReason == Spec => PollingStopsForAReason
<1>1. ASSUME SlotsInv, [Next]_vars, NEW w \in Watchers, StoppedOff(watcher[w], watcher'[w])
      PROVE  watcher'[w].link = "on" \/ over \/ ~known
  <2>1. ASSUME NEW u \in Watchers, Socket(u) \/ Polling(u) PROVE watcher'[w].link = "on" \/ over \/ ~known
    <3>1. PICK phone : /\ watcher' = [watcher EXCEPT ![u] = phone]
                       /\ StoppedOff(watcher[u], phone) => phone.link = "on" \/ over \/ ~known
      BY <1>1, <2>1, StepOfAPhone
    <3>2. watcher'[w] = IF w = u THEN phone ELSE watcher[w]
      BY <1>1, <3>1 DEF SlotsInv, Phones
    <3>3. QED BY <1>1, <3>1, <3>2 DEF StoppedOff
  <2>2. CASE Emit
    <3>1. watcher'[w].poll = watcher[w].poll
      BY <1>1, <2>2 DEF SlotsInv, Phones, IsPhone, Fields, Emit, Broadcast
    <3>2. QED BY <1>1, <3>1 DEF StoppedOff
  <2>3. CASE watcher' = watcher
    BY <1>1, <2>3 DEF StoppedOff
  <2>4. UNCHANGED vars \/ EndTask \/ Disconnect \/ (\E event \in 1..LastEvent : Insert(event))
          \/ (\E v \in Viewers : View(v)) => watcher' = watcher
    BY DEF vars, EndTask, Disconnect, Insert, View, ReadHistory, AddListener, CloseView
  <2>5. QED BY <1>1, <2>1, <2>2, <2>3, <2>4 DEF Next
<1>2. SlotsInv /\ [Next]_vars => [\A w \in Watchers :
        watcher[w].poll # "off" /\ watcher'[w].poll = "off" => watcher'[w].link = "on" \/ over \/ ~known]_vars
  BY <1>1 DEF StoppedOff
<1>3. QED BY <1>2, SlotsInvariance, PTL DEF Spec, PollingStopsForAReason

-----------------------------------------------------------------------------
(* What a client lacks. *)

\* The place of a row: how many rows there are up to it.
Place(rows, row) == Cardinality({earlier \in rows : earlier <= row})

LEMMA PlacesApart ==
  ASSUME NEW rows \in SUBSET Int, IsFiniteSet(rows)
  PROVE  /\ Cardinality(rows) \in Nat
         /\ \A row \in rows : Place(rows, row) \in 1..Cardinality(rows)
         /\ \A r, s \in rows : r < s => Place(rows, r) < Place(rows, s)
<1> DEFINE Upto(row) == {earlier \in rows : earlier <= row}
<1>1. ASSUME NEW row \in rows
      PROVE  /\ IsFiniteSet(Upto(row)) /\ Cardinality(Upto(row)) \in Nat
             /\ Cardinality(Upto(row)) <= Cardinality(rows) /\ Cardinality(Upto(row)) # 0
  <2>1. Upto(row) \subseteq rows /\ row \in Upto(row)
    OBVIOUS
  <2> HIDE DEF Upto
  <2>2. QED BY <2>1, FS_Subset, FS_CardinalityType, FS_EmptySet
<1>2. ASSUME NEW r \in rows, NEW s \in rows, r < s
      PROVE  Cardinality(Upto(r)) < Cardinality(Upto(s))
  <2>1. /\ \A x \in rows : x <= r => x <= s
        /\ s <= s /\ ~(s <= r)
    BY <1>2
  <2>2. Upto(r) \subseteq Upto(s) /\ s \in Upto(s) /\ s \notin Upto(r)
    BY <2>1
  <2> HIDE DEF Upto
  <2>3. Cardinality(Upto(r)) <= Cardinality(Upto(s)) /\ Cardinality(Upto(r)) # Cardinality(Upto(s))
    BY <1>1, <2>2, FS_Subset
  <2>4. QED BY <1>1, <2>3
<1>3. Cardinality(rows) \in Nat
  BY FS_CardinalityType
<1> HIDE DEF Upto
<1>4. \A row : Place(rows, row) = Cardinality(Upto(row))
  BY DEF Place, Upto
<1>5. QED BY <1>1, <1>2, <1>3, <1>4

\* Every place is taken, by one row.
LEMMA PlacesTaken ==
  ASSUME NEW rows \in SUBSET Int, IsFiniteSet(rows)
  PROVE  /\ \A r, s \in rows : Place(rows, r) = Place(rows, s) => r = s
         /\ \A i \in 1..Cardinality(rows) : \E row \in rows : Place(rows, row) = i
<1> DEFINE n == Cardinality(rows)
           places == [row \in rows |-> Place(rows, row)]
<1>1. n \in Nat /\ places \in [rows -> 1..n]
  BY PlacesApart
<1>2. ASSUME NEW r \in rows, NEW s \in rows, places[r] = places[s] PROVE r = s
  <2>1. ~(r < s) /\ ~(s < r)
    BY <1>1, <1>2, PlacesApart
  <2>2. QED BY <2>1
<1>3. IsFiniteSet(1..n) /\ Cardinality(1..n) = n
  BY <1>1, FS_Interval
<1>4. places \in Injection(rows, 1..n)
  BY <1>1, <1>2 DEF Injection, IsInjective
<1>5. places \in Surjection(rows, 1..n)
  BY <1>3, <1>4, FS_Injection
<1>6. \A i \in 1..n : \E row \in rows : places[row] = i
  BY <1>5 DEF Surjection
<1>7. \A row \in rows : places[row] = Place(rows, row)
  OBVIOUS
<1> HIDE DEF places
<1>8. QED BY <1>2, <1>6, <1>7

\* Rows put in order are those rows, each at its place.
LEMMA InOrderLists ==
  ASSUME NEW rows \in SUBSET Int, IsFiniteSet(rows)
  PROVE  /\ InOrder(rows) \in Seq(rows)
         /\ Range(InOrder(rows)) = rows
<1> DEFINE n == Cardinality(rows)
           at(i) == CHOOSE row \in rows : Place(rows, row) = i
<1>1. n \in Nat /\ \A row \in rows : Place(rows, row) \in 1..n
  BY PlacesApart
<1>2. ASSUME NEW i \in 1..n PROVE at(i) \in rows /\ Place(rows, at(i)) = i
  BY PlacesTaken
<1>3. InOrder(rows) = [i \in 1..n |-> at(i)]
  BY DEF InOrder, Place
<1> HIDE DEF n, at
<1>4. InOrder(rows) \in Seq(rows)
  BY <1>1, <1>2, <1>3
<1>5. ASSUME NEW row \in rows PROVE InOrder(rows)[Place(rows, row)] = row
  <2>1. Place(rows, row) \in 1..n
    BY <1>1
  <2>2. PICK place \in 1..n : place = Place(rows, row)
    BY <2>1
  <2>3. at(place) \in rows /\ Place(rows, at(place)) = Place(rows, row)
    BY <1>2, <2>2
  <2>4. \A r, s \in rows : Place(rows, r) = Place(rows, s) => r = s
    BY PlacesTaken
  <2>5. at(place) = row
    BY <2>3, <2>4
  <2>6. QED BY <1>3, <2>2, <2>5
<1>6. DOMAIN InOrder(rows) = 1..n /\ \A i \in 1..n : InOrder(rows)[i] \in rows
  BY <1>2, <1>3
<1>7. Range(InOrder(rows)) = {InOrder(rows)[i] : i \in 1..n}
  BY <1>6 DEF Range
<1>8. Range(InOrder(rows)) = rows
  BY <1>1, <1>5, <1>6, <1>7
<1>9. QED BY <1>4, <1>8

\* Of finitely many rows one is the first.
LEMMA FirstRow ==
  ASSUME NEW rows \in SUBSET Int, IsFiniteSet(rows), rows # {}
  PROVE  \E row \in rows : \A other \in rows : row <= other
<1>1. 1 \in 1..Cardinality(rows)
  BY PlacesApart, FS_EmptySet
<1>2. PICK row \in rows : Place(rows, row) = 1
  BY <1>1, PlacesTaken
<1>3. ASSUME NEW other \in rows PROVE ~(other < row)
  <2>1. Place(rows, other) \in 1..Cardinality(rows) /\ Cardinality(rows) \in Nat
    BY PlacesApart
  <2>2. other < row => Place(rows, other) < 1
    BY <1>2, PlacesApart
  <2>3. QED BY <2>1, <2>2
<1>4. QED BY <1>3

\* What two sets of events look like is what each looks like.
LEMMA IdentitiesJoin ==
  ASSUME NEW A, NEW B
  PROVE  /\ Identities(A \cup B) = Identities(A) \cup Identities(B)
         /\ A \subseteq B => Identities(A) \subseteq Identities(B)
BY DEF Identities

\* A timeline is a sequence, whatever its events are.
IsTimeline(timeline) == timeline \in Seq(Range(timeline))

\* An event that is taken, or one that looks the same, is on the timeline.
LEMMA EventTaken ==
  ASSUME NEW timeline, IsTimeline(timeline), NEW event
  PROVE  /\ IsTimeline(withEvent(timeline, event))
         /\ Identities(Range(withEvent(timeline, event))) = Identities(Range(timeline) \cup {event})
<1>1. CASE Identity[event] \in Identities(Range(timeline))
  <2>1. withEvent(timeline, event) = timeline
    BY <1>1 DEF withEvent
  <2>2. Identities({event}) = {Identity[event]}
    BY DEF Identities
  <2>3. QED BY <1>1, <2>1, <2>2, IdentitiesJoin
<1>2. CASE Identity[event] \notin Identities(Range(timeline))
  <2> DEFINE all == Range(timeline) \cup {event}
  <2>1. timeline \in Seq(all) /\ event \in all
    BY DEF IsTimeline
  <2>2. withEvent(timeline, event) = Append(timeline, event)
    BY <1>2 DEF withEvent
  <2>3. Append(timeline, event) \in Seq(all) /\ Range(Append(timeline, event)) = all
    <3>1. Range(timeline) = {timeline[i] : i \in DOMAIN timeline}
      BY DEF Range
    <3>2. /\ DOMAIN Append(timeline, event) = 1..(Len(timeline) + 1)
          /\ DOMAIN timeline = 1..Len(timeline) /\ Len(timeline) \in Nat
          /\ Append(timeline, event)[Len(timeline) + 1] = event
          /\ \A i \in 1..Len(timeline) : Append(timeline, event)[i] = timeline[i]
      BY <2>1
    <3>3. QED BY <2>1, <3>1, <3>2 DEF Range
  <2>4. QED BY <2>2, <2>3 DEF IsTimeline
<1>3. QED BY <1>1, <1>2

\* Of the rows that look like one, the first is new to a timeline, or the
\* timeline shows something that looks like it.
LEMMA NewToTimeline ==
  ASSUME NEW timeline, NEW rows \in SUBSET Int, IsFiniteSet(rows)
  PROVE  Identities(Range(timeline) \cup NewTo(timeline, rows)) = Identities(Range(timeline) \cup rows)
<1> DEFINE new == NewTo(timeline, rows)
           shown == Identities(Range(timeline))
<1>1. ASSUME NEW row \in rows, Identity[row] \notin shown
      PROVE  \E first \in new : Identity[first] = Identity[row]
  <2> DEFINE alike == {other \in rows : Identity[other] = Identity[row]}
  <2>1. alike \in SUBSET Int /\ IsFiniteSet(alike) /\ row \in alike
    BY FS_Subset
  <2>2. PICK first \in alike : \A other \in alike : first <= other
    BY <2>1, FirstRow
  <2>3. first \in new
    BY <1>1, <2>2 DEF NewTo
  <2>4. QED BY <2>2, <2>3
<1>2. new \subseteq rows
  BY DEF NewTo
<1> HIDE DEF new
<1>3. Identities(rows) \subseteq shown \cup Identities(new)
  BY <1>1 DEF Identities
<1>4. QED BY <1>2, <1>3, IdentitiesJoin DEF new

LEMMA EventsTaken ==
  ASSUME NEW timeline, IsTimeline(timeline), NEW rows \in SUBSET Int, IsFiniteSet(rows)
  PROVE  /\ IsTimeline(withEvents(timeline, rows))
         /\ Identities(Range(withEvents(timeline, rows))) = Identities(Range(timeline) \cup rows)
<1> DEFINE new == NewTo(timeline, rows)
           tail == InOrder(new)
           all == Range(timeline) \cup new
<1>1. new \subseteq rows
  BY DEF NewTo
<1>2. IsFiniteSet(new) /\ new \in SUBSET Int
  BY <1>1, FS_Subset
<1>3. tail \in Seq(new) /\ Range(tail) = new
  BY <1>2, InOrderLists
<1> HIDE DEF tail, new
<1>4. timeline \in Seq(all) /\ tail \in Seq(all)
  BY <1>3 DEF IsTimeline
<1>5. withEvents(timeline, rows) = timeline \o tail
  BY DEF withEvents, tail, new
<1>6. /\ DOMAIN (timeline \o tail) = 1..(Len(timeline) + Len(tail))
      /\ Len(timeline) \in Nat /\ Len(tail) \in Nat
      /\ DOMAIN timeline = 1..Len(timeline) /\ DOMAIN tail = 1..Len(tail)
      /\ \A i \in 1..Len(timeline) : (timeline \o tail)[i] = timeline[i]
      /\ \A i \in 1..Len(tail) : (timeline \o tail)[Len(timeline) + i] = tail[i]
  BY <1>4
<1>7. Range(timeline \o tail) = all /\ timeline \o tail \in Seq(all)
  <2>1. timeline \o tail \in Seq(all)
    BY <1>4
  <2>2. Range(timeline \o tail) \subseteq all
    BY <1>6, <2>1 DEF Range
  <2>3. Range(timeline) \subseteq Range(timeline \o tail)
    BY <1>6 DEF Range
  <2>4. Range(tail) \subseteq Range(timeline \o tail)
    BY <1>6 DEF Range
  <2>5. QED BY <1>3, <2>1, <2>2, <2>3, <2>4
<1>8. Identities(all) = Identities(Range(timeline) \cup rows)
  BY NewToTimeline DEF new
<1>9. QED BY <1>5, <1>7, <1>8 DEF IsTimeline

\* The phone shows everything but what it is excused from, or what looks the
\* same, once it was sent a history on this socket; the viewer holds it once it
\* listens.
PhoneExcused(w) ==
  watcher[w].link = "on" /\ watcher[w].asks < 2 =>
    Identities(Emitted \ excused[w]) \subseteq Identities(Range(watcher[w].seen))

ViewExcused(v) ==
  viewer[v].at = "listening" => Emitted \ viewer[v].seen \subseteq excused[v]

ViewFields == {"at", "history", "seen"}
IsView(view) == view = [f \in ViewFields |-> view[f]]

Shapes ==
  /\ excused = [c \in Clients |-> excused[c]]
  /\ viewer = [v \in Viewers |-> viewer[v]] /\ \A v \in Viewers : IsView(viewer[v])

LackInv ==
  /\ emitted \in 0..LastEvent /\ table \subseteq Emitted /\ flight \subseteq Emitted
  /\ Shapes
  /\ \A w \in Watchers : IsTimeline(watcher[w].seen) /\ PhoneExcused(w)
  /\ \A v \in Viewers : ViewExcused(v)

LEMMA TableFinite ==
  ASSUME LackInv PROVE table \in SUBSET Int /\ IsFiniteSet(table)
<1>1. IsFiniteSet(1..LastEvent) /\ 1..LastEvent \subseteq Int
  BY StreamAssumption, FS_Interval
<1>2. table \subseteq 1..LastEvent
  <2>1. \A i \in 1..emitted : Order[i] \in 1..LastEvent
    BY StreamAssumption DEF LackInv
  <2>2. QED BY <2>1 DEF LackInv, Emitted
<1>3. QED BY <1>1, <1>2, FS_Subset

\* A step of a phone that sends it no history on its socket leaves its excuses,
\* and its timeline loses nothing.
LEMMA QuietlyExcused ==
  ASSUME NEW w \in Watchers, NEW phone, Phones, LackInv,
         watcher' = [watcher EXCEPT ![w] = phone], UNCHANGED <<server, viewer>>,
         excused' = excused \/ excused' = [excused EXCEPT ![w] = {}],
         IsTimeline(phone.seen),
         Identities(Range(watcher[w].seen)) \subseteq Identities(Range(phone.seen)),
         phone.link = "on" /\ phone.asks < 2 =>
           watcher[w].link = "on" /\ watcher[w].asks < 2 /\ excused' = excused
  PROVE  LackInv'
<1>1. watcher'[w] = phone /\ \A u \in Watchers \ {w} : watcher'[u] = watcher[u]
  BY DEF Phones
<1>2. Emitted' = Emitted
  BY DEF server, Emitted
<1>3. Shapes' /\ \A c \in Clients \ {w} : excused'[c] = excused[c]
  BY DEF LackInv, Shapes
<1>4. ASSUME NEW u \in Watchers PROVE IsTimeline(watcher'[u].seen) /\ PhoneExcused(u)'
  <2>1. CASE u = w
    BY <1>1, <1>2, <2>1 DEF LackInv, PhoneExcused
  <2>2. CASE u # w
    BY <1>1, <1>2, <1>3, <2>2 DEF LackInv, PhoneExcused, Clients
  <2>3. QED BY <2>1, <2>2
<1>5. \A v \in Viewers : ViewExcused(v)'
  BY <1>2, <1>3, StreamAssumption DEF LackInv, ViewExcused, Clients
<1>6. QED BY <1>2, <1>3, <1>4, <1>5 DEF LackInv, server

\* A step that brings a phone the table excuses it from the rest.
LEMMA TableBrought ==
  ASSUME NEW w \in Watchers, NEW phone, Phones, LackInv,
         watcher' = [watcher EXCEPT ![w] = phone], UNCHANGED <<server, viewer>>,
         phone.seen = withEvents(watcher[w].seen, table),
         excused' = [excused EXCEPT ![w] = Emitted \ table]
  PROVE  LackInv'
<1>1. watcher'[w] = phone /\ \A u \in Watchers \ {w} : watcher'[u] = watcher[u]
  BY DEF Phones
<1>2. Emitted' = Emitted
  BY DEF server, Emitted
<1>3. w \in Clients /\ Shapes'
  BY DEF Clients, LackInv, Shapes
<1>4. /\ excused'[w] = Emitted \ table
      /\ \A c \in Clients \ {w} : excused'[c] = excused[c]
  BY <1>3 DEF LackInv, Shapes
<1>5. /\ IsTimeline(phone.seen)
      /\ Identities(Emitted \ (Emitted \ table)) \subseteq Identities(Range(phone.seen))
  <2>1. IsTimeline(watcher[w].seen)
    BY DEF LackInv
  <2>2. /\ IsTimeline(phone.seen)
        /\ Identities(Range(phone.seen)) = Identities(Range(watcher[w].seen) \cup table)
    BY <2>1, TableFinite, EventsTaken
  <2>3. Emitted \ (Emitted \ table) \subseteq Range(watcher[w].seen) \cup table
    OBVIOUS
  <2>4. QED BY <2>2, <2>3, IdentitiesJoin
<1>6. \A u \in Watchers : IsTimeline(watcher'[u].seen) /\ PhoneExcused(u)'
  BY <1>1, <1>2, <1>4, <1>5 DEF LackInv, PhoneExcused, Clients
<1>7. \A v \in Viewers : ViewExcused(v)'
  BY <1>2, <1>4, StreamAssumption DEF LackInv, ViewExcused, Clients
<1>8. QED BY <1>2, <1>3, <1>6, <1>7 DEF LackInv, server

LEMMA ErredSees ==
  ASSUME NEW p, IsPhone(p)
  PROVE  Erred(p).seen = p.seen /\ Erred(p).asks = p.asks
BY DEF IsPhone, Fields, Erred

LEMMA PhoneKeepsLack ==
  ASSUME NEW w \in Watchers, Phones, LackInv, Socket(w) \/ Polling(w)
  PROVE  LackInv'
<1>1. /\ IsPhone(watcher[w]) /\ watcher = [u \in Watchers |-> watcher[u]]
      /\ IsTimeline(watcher[w].seen)
  BY DEF Phones, LackInv
<1>2. CASE Connect(w)
  <2> DEFINE phone == [watcher[w] EXCEPT !.link = "on", !.asks = 2, !.errors = 0, !.poll = "off"]
  <2>1. watcher' = [watcher EXCEPT ![w] = phone] /\ UNCHANGED <<server, viewer, excused>>
    BY <1>2 DEF Connect
  <2>2. phone.seen = watcher[w].seen /\ ~(phone.asks < 2)
    BY <1>1 DEF IsPhone, Fields
  <2> HIDE DEF phone
  <2>3. QED BY <1>1, <2>1, <2>2, QuietlyExcused
<1>3. CASE Refuse(w)
  <2> DEFINE refused == [watcher[w] EXCEPT !.link = "refused"]
  <2>1. watcher' = [watcher EXCEPT ![w] = Erred(refused)] /\ UNCHANGED <<server, viewer, excused>>
    BY <1>3 DEF Refuse
  <2>2. IsPhone(refused) /\ refused.link = "refused" /\ refused.seen = watcher[w].seen
    BY <1>1 DEF IsPhone, Fields
  <2> HIDE DEF refused
  <2>3. QED BY <1>1, <2>1, <2>2, ErredPhone, ErredSees, QuietlyExcused
<1>4. CASE ConnectError(w)
  BY <1>1, <1>4, ErredPhone, ErredSees, QuietlyExcused DEF ConnectError
<1>5. CASE SocketUnusable(w)
  <2> DEFINE phone == [watcher[w] EXCEPT !.link = "unusable", !.poll = "ask"]
  <2>1. watcher' = [watcher EXCEPT ![w] = phone] /\ UNCHANGED <<server, viewer, excused>>
    BY <1>1, <1>5 DEF SocketUnusable
  <2>2. phone.seen = watcher[w].seen /\ phone.link = "unusable"
    BY <1>1 DEF IsPhone, Fields
  <2> HIDE DEF phone
  <2>3. QED BY <1>1, <2>1, <2>2, QuietlyExcused
<1>6. CASE Cut(w)
  <2> DEFINE phone == [watcher[w] EXCEPT !.link = "away", !.asks = 0]
  <2>1. /\ watcher' = [watcher EXCEPT ![w] = phone] /\ UNCHANGED <<server, viewer>>
        /\ excused' = [excused EXCEPT ![w] = {}]
    BY <1>1, <1>6 DEF Cut
  <2>2. phone.seen = watcher[w].seen /\ phone.link = "away"
    BY <1>1 DEF IsPhone, Fields
  <2> HIDE DEF phone
  <2>3. QED BY <1>1, <2>1, <2>2, QuietlyExcused
<1>7. CASE PollStatus(w) \/ PollUnknown(w) \/ PollFails(w)
  <2>1. PICK poll : watcher' = [watcher EXCEPT ![w] = [watcher[w] EXCEPT !.poll = poll]]
    BY <1>1, <1>7 DEF PollStatus, PollUnknown, PollFails
  <2> DEFINE phone == [watcher[w] EXCEPT !.poll = poll]
  <2>2. watcher' = [watcher EXCEPT ![w] = phone] /\ UNCHANGED <<server, viewer, excused>>
    BY <1>7, <2>1 DEF PollStatus, PollUnknown, PollFails
  <2>3. phone.seen = watcher[w].seen /\ phone.link = watcher[w].link /\ phone.asks = watcher[w].asks
    BY <1>1 DEF IsPhone, Fields
  <2> HIDE DEF phone
  <2>4. QED BY <1>1, <2>2, <2>3, QuietlyExcused
<1>8. CASE Replay(w)
  <2> DEFINE phone == [watcher[w] EXCEPT !.asks = @ - 1, !.seen = withEvents(@, table)]
  <2>1. watcher' = [watcher EXCEPT ![w] = phone] /\ UNCHANGED <<server, viewer>>
    BY <1>1, <1>8 DEF Replay
  <2>2. phone.seen = withEvents(watcher[w].seen, table)
    BY <1>1 DEF IsPhone, Fields
  <2> HIDE DEF phone
  <2>3. QED BY <1>8, <2>1, <2>2, TableBrought DEF Replay
<1>9. CASE PollEvents(w)
  <2> DEFINE poll == IF watcher[w].poll = "ended" THEN "off" ELSE "ask"
             phone == [watcher[w] EXCEPT !.poll = poll, !.seen = withEvents(@, table)]
  <2>1. watcher' = [watcher EXCEPT ![w] = phone] /\ UNCHANGED <<server, viewer, excused>>
    BY <1>1, <1>9 DEF PollEvents
  <2>2. /\ phone.seen = withEvents(watcher[w].seen, table)
        /\ phone.link = watcher[w].link /\ phone.asks = watcher[w].asks
    BY <1>1 DEF IsPhone, Fields
  <2>3. /\ IsTimeline(phone.seen)
        /\ Identities(Range(watcher[w].seen)) \subseteq Identities(Range(phone.seen))
    <3>1. /\ IsTimeline(withEvents(watcher[w].seen, table))
          /\ Identities(Range(withEvents(watcher[w].seen, table)))
               = Identities(Range(watcher[w].seen) \cup table)
      BY <1>1, TableFinite, EventsTaken
    <3>2. QED BY <2>2, <3>1, IdentitiesJoin
  <2> HIDE DEF phone
  <2>4. QED BY <2>1, <2>2, <2>3, QuietlyExcused
<1>10. QED BY <1>2, <1>3, <1>4, <1>5, <1>6, <1>7, <1>8, <1>9 DEF Socket, Polling

\* Who is connected or listening gets an event as it is emitted.
LEMMA EmitKeepsLack ==
  ASSUME Phones, LackInv, Emit PROVE LackInv'
<1> DEFINE event == Order[emitted']
<1>1. /\ emitted' \in 0..LastEvent /\ UNCHANGED <<table, excused>>
      /\ flight' = flight \cup {event}
  BY StreamAssumption DEF Emit, LackInv
<1>2. Emitted' = Emitted \cup {event}
  BY StreamAssumption DEF Emit, LackInv, Emitted
<1>3. ASSUME NEW w \in Watchers
      PROVE  /\ watcher'[w].link = watcher[w].link /\ watcher'[w].asks = watcher[w].asks
             /\ watcher'[w].seen = IF watcher[w].link = "on"
                                   THEN withEvent(watcher[w].seen, event) ELSE watcher[w].seen
  BY DEF Phones, IsPhone, Fields, Emit, Broadcast
<1>4. ASSUME NEW v \in Viewers
      PROVE  /\ IsView(viewer'[v]) /\ viewer'[v].at = viewer[v].at
             /\ viewer[v].at = "listening" => viewer'[v].seen = viewer[v].seen \cup {event}
  BY DEF LackInv, Shapes, IsView, ViewFields, Emit, Broadcast
<1>5. Shapes'
  <2>1. viewer' = [v \in Viewers |-> viewer'[v]]
    BY DEF Emit, Broadcast
  <2>2. QED BY <1>1, <1>4, <2>1 DEF LackInv, Shapes
<1> HIDE DEF event
<1>6. ASSUME NEW w \in Watchers PROVE IsTimeline(watcher'[w].seen) /\ PhoneExcused(w)'
  <2>1. IsTimeline(watcher[w].seen) /\ PhoneExcused(w)
    BY DEF LackInv
  <2>2. CASE watcher[w].link = "on"
    <3>1. /\ IsTimeline(watcher'[w].seen)
          /\ Identities(Range(watcher'[w].seen)) = Identities(Range(watcher[w].seen) \cup {event})
      BY <1>3, <2>1, <2>2, EventTaken
    <3>2. Emitted' \ excused[w] \subseteq (Emitted \ excused[w]) \cup {event}
      BY <1>2
    <3>3. Identities(Emitted' \ excused[w])
            \subseteq Identities(Emitted \ excused[w]) \cup Identities({event})
      <4>1. Identities(Emitted' \ excused[w]) \subseteq Identities((Emitted \ excused[w]) \cup {event})
        BY <3>2 DEF Identities
      <4>2. QED BY <4>1, IdentitiesJoin
    <3>4. Identities(Range(watcher'[w].seen)) = Identities(Range(watcher[w].seen)) \cup Identities({event})
      BY <3>1, IdentitiesJoin
    <3>5. QED BY <1>1, <1>3, <2>1, <3>1, <3>3, <3>4 DEF PhoneExcused
  <2>3. CASE watcher[w].link # "on"
    BY <1>3, <2>1, <2>3 DEF PhoneExcused
  <2>4. QED BY <2>2, <2>3
<1>7. \A v \in Viewers : ViewExcused(v)'
  BY <1>1, <1>2, <1>4 DEF LackInv, ViewExcused
<1>8. QED BY <1>1, <1>2, <1>5, <1>6, <1>7 DEF LackInv

LEMMA ViewKeepsLack ==
  ASSUME NEW v \in Viewers, Phones, LackInv, View(v) PROVE LackInv'
<1>1. /\ IsView(viewer[v]) /\ viewer = [u \in Viewers |-> viewer[u]]
      /\ v \in Clients /\ v \notin Watchers
  BY StreamAssumption DEF LackInv, Shapes, Clients
<1>2. UNCHANGED <<server, watcher>> /\ Emitted' = Emitted
  BY DEF View, ReadHistory, AddListener, CloseView, server, Emitted
<1>3. ASSUME NEW view, IsView(view), viewer' = [viewer EXCEPT ![v] = view],
             \/ excused' = excused /\ view.at # "listening"
             \/ excused' = [excused EXCEPT ![v] = {}] /\ view.at # "listening"
             \/ excused' = [excused EXCEPT ![v] = Emitted \ view.seen]
      PROVE  LackInv'
  <2>1. viewer'[v] = view /\ \A u \in Viewers \ {v} : viewer'[u] = viewer[u]
    BY <1>1, <1>3
  <2>2. \A c \in Clients \ {v} : excused'[c] = excused[c]
    BY <1>1, <1>3 DEF LackInv, Shapes
  <2>3. Shapes'
    BY <1>1, <1>3, <2>1 DEF LackInv, Shapes
  <2>4. view.at = "listening" => excused'[v] = Emitted \ view.seen
    BY <1>1, <1>3 DEF LackInv, Shapes
  <2>5. \A u \in Viewers : ViewExcused(u)'
    BY <1>2, <2>1, <2>2, <2>4 DEF LackInv, ViewExcused, Clients
  <2>6. \A w \in Watchers : IsTimeline(watcher'[w].seen) /\ PhoneExcused(w)'
    BY <1>1, <1>2, <2>2 DEF LackInv, PhoneExcused, Clients
  <2>7. QED BY <1>2, <2>3, <2>5, <2>6 DEF LackInv, server
<1>4. CASE ReadHistory(v)
  <2> DEFINE view == [viewer[v] EXCEPT !.at = "read", !.history = table]
  <2>1. viewer' = [viewer EXCEPT ![v] = view] /\ excused' = excused
    BY <1>1, <1>4 DEF ReadHistory
  <2>2. IsView(view) /\ view.at = "read"
    BY <1>1 DEF IsView, ViewFields
  <2> HIDE DEF view
  <2>3. QED BY <1>3, <2>1, <2>2
<1>5. CASE AddListener(v)
  <2> DEFINE view == [at |-> "listening", history |-> {}, seen |-> viewer[v].history]
  <2>1. /\ viewer' = [viewer EXCEPT ![v] = view]
        /\ excused' = [excused EXCEPT ![v] = Emitted \ viewer[v].history]
    BY <1>1, <1>5 DEF AddListener
  <2>2. IsView(view) /\ view.seen = viewer[v].history
    BY <1>1 DEF IsView, ViewFields
  <2> HIDE DEF view
  <2>3. QED BY <1>3, <2>1, <2>2
<1>6. CASE CloseView(v)
  <2> DEFINE view == [at |-> "gone", history |-> {}, seen |-> {}]
  <2>1. viewer' = [viewer EXCEPT ![v] = view] /\ excused' = [excused EXCEPT ![v] = {}]
    BY <1>1, <1>6 DEF CloseView
  <2>2. IsView(view) /\ view.at = "gone"
    BY <1>1 DEF IsView, ViewFields
  <2> HIDE DEF view
  <2>3. QED BY <1>3, <2>1, <2>2
<1>7. QED BY <1>4, <1>5, <1>6 DEF View

LEMMA StepKeepsLack ==
  ASSUME SlotsInv, LackInv, [Next]_vars PROVE LackInv'
<1>1. ASSUME UNCHANGED <<emitted, watcher, viewer, excused>>,
             table' \subseteq Emitted, flight' \subseteq Emitted
      PROVE  LackInv'
  BY <1>1 DEF LackInv, Shapes, PhoneExcused, ViewExcused, Emitted
<1>2. CASE EndTask \/ Disconnect \/ UNCHANGED vars
  BY <1>1, <1>2 DEF EndTask, Disconnect, vars, server, LackInv
<1>3. CASE \E event \in 1..LastEvent : Insert(event)
  BY <1>1, <1>3 DEF Insert, LackInv
<1>4. Phones
  BY DEF SlotsInv
<1>5. QED BY <1>2, <1>3, <1>4, EmitKeepsLack, PhoneKeepsLack, ViewKeepsLack DEF Next

\* Whatever order events, inserts, replays and polls come in, and whichever events
\* look alike, a connected phone that was sent a history shows all but what was
\* in no table when it was read, or an event that looks the same; a listening
\* viewer lacks only what came before its listener (stream.ts:74-77).
THEOREM MissingWasAlwaysUnwritten == Spec => []MissingWasUnwritten
<1>1. Init => LackInv
  <2> SUFFICES ASSUME Init PROVE LackInv
    OBVIOUS
  <2>1. Shapes
    BY DEF Init, Shapes, IsView, ViewFields
  <2>2. \A w \in Watchers : watcher[w].seen = <<>> /\ watcher[w].link = "away"
    BY DEF Init
  <2>3. IsTimeline(<<>>)
    BY DEF IsTimeline
  <2>4. \A v \in Viewers : ViewExcused(v)
    BY DEF Init, ViewExcused
  <2>5. emitted \in 0..LastEvent
    BY StreamAssumption DEF Init
  <2>6. QED BY <2>1, <2>2, <2>3, <2>4, <2>5 DEF Init, LackInv, PhoneExcused
<1>2. SlotsInv /\ LackInv /\ [Next]_vars => LackInv'
  BY StepKeepsLack
<1>3. LackInv => MissingWasUnwritten
  BY DEF LackInv, MissingWasUnwritten, PhoneExcused, ViewExcused
<1>4. QED BY <1>1, <1>2, <1>3, SlotsInvariance, PTL DEF Spec
=============================================================================
