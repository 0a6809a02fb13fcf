---------------------------- MODULE TraceStream ----------------------------
(***************************************************************************)
(* The execution trace of one task and those who watch it. The emitter     *)
(* broadcasts an event at once and inserts it without waiting; a phone     *)
(* joins the socket room, has the table replayed, and falls back to        *)
(* polling; a viewer reads the same trace over server-sent events.         *)
(*                                                                         *)
(* Events are numbered 1..LastEvent by their offset, which is the order of *)
(* the table. They are emitted in that order too, unless the task is run   *)
(* again: its second run counts from zero. The last one is `completed'.    *)
(***************************************************************************)
EXTENDS Integers, FiniteSets, SequencesExt

CONSTANTS
  Watchers,         \* phones with the trace of the task open
  Viewers,          \* clients of GET /tasks/:taskId/events
  LastEvent,
  Order,            \* [1..LastEvent -> 1..LastEvent], the events as they are emitted
  Identity,         \* [1..LastEvent -> name, offset and subtask of the event]
  MaxConnections,   \* MAX_CONNECTIONS_PER_KEY; all clients share the API secret
  MaxSocketErrors,  \* MAX_SOCKET_ERRORS
  MaxCuts,          \* bound: broken connections the server has not noticed
  MaxLost           \* bound: inserts that are rejected

ASSUME StreamAssumption ==
  /\ IsFiniteSet(Watchers) /\ Watchers \cap Viewers = {}
  /\ {LastEvent, MaxConnections, MaxSocketErrors} \subseteq Nat \ {0}
  /\ {MaxCuts, MaxLost} \subseteq Nat
  /\ Order \in [1..LastEvent -> 1..LastEvent] /\ IsInjective(Order)

VARIABLES
  known,     \* the server has the task; not one that it lost with its memory
  over,      \* the task row has its terminal status
  emitted,   \* events emitted so far
  table,     \* events in the TraceEvent table
  flight,    \* inserts on their way
  lost,      \* inserts rejected, logged at debug level
  slots,     \* connectionsByKey of the API secret
  ghosts,    \* connections the phone has lost and the server still counts
  watcher,   \* per phone: its socket, its polling and its timeline
  viewer,    \* per viewer: its request and what it was written
  excused    \* history: what was not in the table when a client that is
             \* connected or listening was last sent it

vars == <<known, over, emitted, table, flight, lost, slots, ghosts, watcher, viewer, excused>>
server == <<known, over, emitted, table, flight, lost>>

Emitted == {Order[i] : i \in 1..emitted}
Clients == Watchers \cup Viewers

Links == {"away", "on", "refused", "unusable"}
Polls == {"off", "ask", "running", "ended"}

\* The four stages of a viewer's request: not made, the table read, the
\* listener added, gone.
Requests == {"none", "read", "listening", "gone"}

Timeline == BoundedSeq(1..LastEvent, LastEvent)

\* asks: subscriptions whose history is not sent yet. seen: the timeline.
Watcher == [link : Links, asks : 0..2, errors : 0..MaxSocketErrors, poll : Polls, seen : Timeline]
Viewer == [at : Requests, history : SUBSET (1..LastEvent), seen : SUBSET (1..LastEvent)]

Init ==
  /\ known \in BOOLEAN
  /\ over = FALSE /\ emitted = 0 /\ table = {} /\ flight = {} /\ lost = {}
  /\ slots = 0 /\ ghosts = 0
  /\ watcher = [w \in Watchers |->
       [link |-> "away", asks |-> 0, errors |-> 0, poll |-> "off", seen |-> <<>>]]
  /\ viewer = [v \in Viewers |-> [at |-> "none", history |-> {}, seen |-> {}]]
  /\ excused = [c \in Clients |-> {}]

-----------------------------------------------------------------------------
(* The timeline of a phone. *)

\* What is on a timeline as the phone tells events apart.
Identities(events) == {Identity[event] : event \in events}

\* withEvent: an event is known by its name, offset and subtask. A second event
\* that agrees in all three is dropped like a copy of the first.
withEvent(timeline, event) ==
  IF Identity[event] \in Identities(Range(timeline))
  THEN timeline ELSE Append(timeline, event)

\* Rows in the order of their offsets: the i-th is the one with i rows up to it.
InOrder(rows) ==
  [i \in 1..Cardinality(rows) |->
     CHOOSE row \in rows : Cardinality({earlier \in rows : earlier <= row}) = i]

\* Slip: only what is newer than the timeline.
withEventsNewer(timeline, rows) ==
  timeline \o InOrder({row \in rows : \A seen \in Range(timeline) : seen < row})

\* The rows that are new to a timeline: of those that look the same, the first.
NewTo(timeline, rows) ==
  {row \in rows : /\ Identity[row] \notin Identities(Range(timeline))
                  /\ \A other \in rows : Identity[other] = Identity[row] => row <= other}

\* withEvents over a replay: rows come sorted by offset and are folded in.
withEvents(timeline, rows) == timeline \o InOrder(NewTo(timeline, rows))

-----------------------------------------------------------------------------
(* The task. *)

\* The row gets its terminal status before `completed' is emitted.
EndTask ==
  /\ known /\ ~over /\ emitted = LastEvent - 1
  /\ over' = TRUE
  /\ UNCHANGED <<known, emitted, table, flight, lost, slots, ghosts, watcher, viewer, excused>>

\* broadcast: to the sockets in the room and the listeners of the task.
Broadcast(event) ==
  /\ watcher' = [w \in Watchers |->
       IF watcher[w].link = "on"
       THEN [watcher[w] EXCEPT !.seen = withEvent(@, event)] ELSE watcher[w]]
  /\ viewer' = [v \in Viewers |->
       IF viewer[v].at = "listening"
       THEN [viewer[v] EXCEPT !.seen = @ \cup {event}] ELSE viewer[v]]

\* createEmitter: the broadcast first, then an insert nobody waits for.
Emit ==
  /\ known /\ emitted < LastEvent
  /\ emitted + 1 = LastEvent => over
  /\ emitted' = emitted + 1
  /\ Broadcast(Order[emitted'])
  /\ flight' = flight \cup {Order[emitted']}
  /\ UNCHANGED <<known, over, table, lost, slots, ghosts, excused>>

\* appendTrace settles, in any order.
Insert(event) ==
  /\ event \in flight
  /\ flight' = flight \ {event}
  /\ \/ table' = table \cup {event} /\ lost' = lost
     \/ Cardinality(lost) < MaxLost /\ lost' = lost \cup {event} /\ table' = table
  /\ UNCHANGED <<known, over, emitted, slots, ghosts, watcher, viewer, excused>>

-----------------------------------------------------------------------------
(* The socket of a phone. *)

\* One socket error as traceSignals counts it.
Erred(phone) ==
  LET errors == IF phone.errors < MaxSocketErrors THEN phone.errors + 1 ELSE MaxSocketErrors
  IN  [phone EXCEPT !.errors = errors,
                    !.poll = IF errors = MaxSocketErrors /\ @ = "off" THEN "ask" ELSE @]

\* The middleware takes a slot; the handler joins the room named in the
\* query, and the phone subscribes again as soon as it is connected. Connected
\* stops the polling.
Connect(w) ==
  /\ watcher[w].link = "away" /\ slots < MaxConnections
  /\ slots' = slots + 1
  /\ watcher' = [watcher EXCEPT
       ![w] = [@ EXCEPT !.link = "on", !.asks = 2, !.errors = 0, !.poll = "off"]]
  /\ UNCHANGED <<server, ghosts, viewer, excused>>

\* TOO_MANY_CONNECTIONS: one error. A refused socket is not retried by the
\* client library, which reconnects only lost transports (external).
Refuse(w) ==
  /\ watcher[w].link = "away" /\ slots >= MaxConnections
  /\ watcher' = [watcher EXCEPT ![w] = Erred([@ EXCEPT !.link = "refused"])]
  /\ UNCHANGED <<server, slots, ghosts, viewer, excused>>

\* An attempt to reach the server fails; the library tries again.
ConnectError(w) ==
  /\ watcher[w].link = "away" /\ Erred(watcher[w]) # watcher[w]
  /\ watcher' = [watcher EXCEPT ![w] = Erred(@)]
  /\ UNCHANGED <<server, slots, ghosts, viewer, excused>>

\* The transport itself throws: polling is the whole fallback.
SocketUnusable(w) ==
  /\ watcher[w].link = "away" /\ watcher[w].poll = "off"
  /\ watcher' = [watcher EXCEPT ![w].link = "unusable", ![w].poll = "ask"]
  /\ UNCHANGED <<server, slots, ghosts, viewer, excused>>

\* subscribe after its join: the table as it is goes out as trace_history.
Replay(w) ==
  /\ watcher[w].link = "on" /\ watcher[w].asks > 0
  /\ watcher' = [watcher EXCEPT ![w].asks = @ - 1, ![w].seen = withEvents(@, table)]
  /\ excused' = [excused EXCEPT ![w] = Emitted \ table]
  /\ UNCHANGED <<server, slots, ghosts, viewer>>

\* The phone loses the connection; the server finds out by its ping timeout.
Cut(w) ==
  /\ watcher[w].link = "on" /\ ghosts < MaxCuts
  /\ watcher' = [watcher EXCEPT ![w].link = "away", ![w].asks = 0]
  /\ ghosts' = ghosts + 1
  /\ excused' = [excused EXCEPT ![w] = {}]
  /\ UNCHANGED <<server, slots, viewer>>

\* Slip: the count is dropped with one connection left.
ReleasedAll == IF slots <= 2 THEN 0 ELSE slots - 1

\* `disconnect' gives the slot back.
Released == IF slots <= 1 THEN 0 ELSE slots - 1

Disconnect ==
  /\ ghosts > 0
  /\ ghosts' = ghosts - 1 /\ slots' = Released
  /\ UNCHANGED <<server, watcher, viewer, excused>>

-----------------------------------------------------------------------------
(* Polling: GET /tasks/:taskId/trace reads the status, then the events. *)

PollStatus(w) ==
  /\ watcher[w].poll = "ask" /\ known
  /\ watcher' = [watcher EXCEPT ![w].poll = IF over THEN "ended" ELSE "running"]
  /\ UNCHANGED <<server, slots, ghosts, viewer, excused>>

\* A terminal status ends the loop with this answer.
PollEvents(w) ==
  /\ watcher[w].poll \in {"running", "ended"}
  /\ watcher' = [watcher EXCEPT
       ![w].poll = IF @ = "ended" THEN "off" ELSE "ask",
       ![w].seen = withEvents(@, table)]
  /\ UNCHANGED <<server, slots, ghosts, viewer, excused>>

\* TASK_NOT_FOUND: "a task the backend does not know will never appear".
PollUnknown(w) ==
  /\ watcher[w].poll = "ask" /\ ~known
  /\ watcher' = [watcher EXCEPT ![w].poll = "off"]
  /\ UNCHANGED <<server, slots, ghosts, viewer, excused>>

\* Slip: a failed poll ends the loop.
PollFailsForGood(w) ==
  /\ watcher[w].poll \in {"running", "ended"}
  /\ watcher' = [watcher EXCEPT ![w].poll = "off"]
  /\ UNCHANGED <<server, slots, ghosts, viewer, excused>>

\* Any other failure of the request: asked again after the interval.
PollFails(w) ==
  /\ watcher[w].poll \in {"running", "ended"}
  /\ watcher' = [watcher EXCEPT ![w].poll = "ask"]
  /\ UNCHANGED <<server, slots, ghosts, viewer, excused>>

-----------------------------------------------------------------------------
(* Server-sent events: the history is read, written, and then a listener   *)
(* is added.                                                               *)

ReadHistory(v) ==
  /\ viewer[v].at = "none" /\ known
  /\ viewer' = [viewer EXCEPT ![v].at = "read", ![v].history = table]
  /\ UNCHANGED <<server, slots, ghosts, watcher, excused>>

AddListener(v) ==
  /\ viewer[v].at = "read"
  /\ viewer' = [viewer EXCEPT
       ![v] = [at |-> "listening", history |-> {}, seen |-> viewer[v].history]]
  /\ excused' = [excused EXCEPT ![v] = Emitted \ viewer[v].history]
  /\ UNCHANGED <<server, slots, ghosts, watcher>>

CloseView(v) ==
  /\ viewer[v].at = "listening"
  /\ viewer' = [viewer EXCEPT ![v] = [at |-> "gone", history |-> {}, seen |-> {}]]
  /\ excused' = [excused EXCEPT ![v] = {}]
  /\ UNCHANGED <<server, slots, ghosts, watcher>>

-----------------------------------------------------------------------------
Polling(w) == PollStatus(w) \/ PollUnknown(w) \/ PollEvents(w) \/ PollFails(w)
Socket(w) ==
  \/ Connect(w) \/ Refuse(w) \/ ConnectError(w) \/ SocketUnusable(w)
  \/ Replay(w) \/ Cut(w)
View(v) == ReadHistory(v) \/ AddListener(v) \/ CloseView(v)

Next ==
  \/ EndTask \/ Emit \/ Disconnect
  \/ \E event \in 1..LastEvent : Insert(event)
  \/ \E w \in Watchers : Socket(w) \/ Polling(w)
  \/ \E v \in Viewers : View(v)

Spec == Init /\ [][Next]_vars

-----------------------------------------------------------------------------
(* Properties. *)

TypeOK ==
  /\ {known, over} \subseteq BOOLEAN /\ emitted \in 0..LastEvent
  /\ {table, flight, lost} \subseteq SUBSET Emitted
  /\ slots \in 0..MaxConnections /\ ghosts \in 0..MaxCuts
  /\ watcher \in [Watchers -> Watcher]
  /\ viewer \in [Viewers -> Viewer]
  /\ excused \in [Clients -> SUBSET Emitted]

\* The room is joined before the table is read (stream.ts:74-77), and an
\* event is broadcast before it is inserted: of all that was emitted a phone that
\* was sent a history lacks only what was in no table when it was read, and what
\* it cannot tell from an event it shows (ExecutionTimeline.kt:77-84). A viewer of
\* the SSE route may lack what was emitted between its read and its listener, too.
MissingWasUnwritten ==
  /\ \A w \in Watchers :
       watcher[w].link = "on" /\ watcher[w].asks < 2 =>
         Identities(Emitted \ excused[w]) \subseteq Identities(Range(watcher[w].seen))
  /\ \A v \in Viewers :
       viewer[v].at = "listening" => Emitted \ viewer[v].seen \subseteq excused[v]

\* The middleware counts up and another handler counts down (stream.ts:63,
\* 97-102): refusals, broken connections and reconnects leave the count at
\* exactly the connections the server holds, so nobody is refused too early.
SlotsCounted ==
  slots = Cardinality({w \in Watchers : watcher[w].link = "on"}) + ghosts

\* A phone stops polling only because its socket took over, because the task was
\* over when it asked, or because the server does not know the task: no other
\* failure ends it (TaskRepositoryImpl.kt:153-158, 189-205).
PollingStopsForAReason ==
  [][\A w \in Watchers : watcher[w].poll # "off" /\ watcher'[w].poll = "off" =>
       watcher'[w].link = "on" \/ over \/ ~known]_vars

\* "An event can legitimately arrive twice" (ExecutionTimeline.kt:78), but what looks
\* like an event that arrived before is the same event: none that was written is left out.
EveryWrittenEventShown ==
  \A w \in Watchers :
    watcher[w].link = "on" /\ watcher[w].asks < 2 =>
      Emitted \ Range(watcher[w].seen) \subseteq excused[w]

\* "Replay what already happened, then live events continue in order."
\* (stream.ts:76): a timeline lists events by offset.
LiveContinuesInOrder ==
  \A w \in Watchers : \A i \in 1..(Len(watcher[w].seen) - 1) :
    watcher[w].seen[i] < watcher[w].seen[i + 1]

\* "Nothing more will arrive for a finished task." (TaskRepositoryImpl.kt:193):
\* a poll that saw a terminal status has brought the last event.
LastPollIsComplete ==
  [][\A w \in Watchers :
       watcher[w].poll = "ended" /\ watcher'[w].poll = "off" /\ watcher'[w].link # "on"
         => Order[LastEvent] \in Range(watcher'[w].seen)]_vars
=============================================================================
