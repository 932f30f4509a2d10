------------------------- MODULE DeliveryScheduler -------------------------
(***************************************************************************)
(* src/src/relay/delivery_scheduler.ts: the deliveries that a relay delays,*)
(* kept in one list behind one timer, with the sockets they go to and the  *)
(* tasks of disconnectAfter that share the timer.                          *)
(*                                                                         *)
(* A flush takes the due entries out of the list and then hands them over  *)
(* one at a time; each message runs handlers of the client, which may send,*)
(* close sockets or reset the relay before the flush goes on. While it     *)
(* lasts, neither a microtask nor the timer runs.                          *)
(*                                                                         *)
(* #timer and #nextDueAt are always set and cleared together: `timer' is   *)
(* the set with the due time the timer was armed for, or empty. Payloads,  *)
(* the random numbers (any outcome is possible) and the profile counters   *)
(* are left out.                                                           *)
(***************************************************************************)
EXTENDS Naturals, Sequences, FiniteSets

CONSTANTS
  Sockets,        \* the sockets of the relay
  Delays,         \* the delays a delivery can get: latency, message delay, jitter
  TaskDelays,     \* the arguments of disconnectAfter
  OutOfOrder,     \* network.outOfOrderRate is positive
  Early,          \* by how much setTimeout may run ahead of Date.now()
  Resets,         \* the test calls reset()
  HandlersThrow,  \* an onmessage or onclose handler may throw in a flush
  MaxClock,       \* bound: the time modelled
  MaxSent         \* bound: deliveries and tasks

ASSUME SchedulerAssumption ==
  /\ Delays \subseteq Nat
  /\ TaskDelays \subseteq Nat
  /\ OutOfOrder \in BOOLEAN /\ Resets \in BOOLEAN /\ HandlersThrow \in BOOLEAN
  /\ Early \in Nat /\ MaxClock \in Nat /\ MaxSent \in Nat

VARIABLES
  entries,       \* #entries
  timer,         \* #timer and #nextDueAt
  nextSequence,  \* #nextSequence; immediate deliveries are numbered as well
  microtasks,    \* the immediate deliveries in the microtask queue
  flush,         \* #flushDueEntries: "idle", "running", or suspended in a
                 \* "handler" that a message or a close it made has called
  due,           \* dueEntries of that call, from the next one on
  targets,       \* sockets that a running disconnectAfter has yet to close
  socketState,   \* "open", "closing" (close() was called) or "closed"
  clock,         \* wallClockNow()
  received,      \* history: the deliveries each client was handed, in order
  sent,          \* history: the socket and the delay of each delivery; {} for a task
  disturbed      \* history: whether a flush was shuffled or left by an exception

schedulerVars == <<entries, timer, nextSequence>>
flushVars == <<flush, due, targets>>
historyVars == <<received, sent, disturbed>>
vars == <<schedulerVars, flushVars, historyVars, microtasks, socketState, clock>>

Delivery == [kind : {"delivery"}, dueAt : Nat, sequence : Nat, socket : Sockets]
DisconnectTask == [kind : {"task"}, dueAt : Nat, sequence : Nat]
Entry == Delivery \cup DisconnectTask

TypeOK ==
  /\ entries \subseteq Entry
  /\ timer \in SUBSET Nat /\ Cardinality(timer) <= 1
  /\ nextSequence \in 0..MaxSent
  /\ microtasks \in Seq([socket : Sockets, sequence : Nat])
  /\ flush \in {"idle", "running", "handler"}
  /\ due \in Seq(Entry)
  /\ targets \subseteq Sockets
  /\ flush = "idle" => due = <<>> /\ targets = {}
  /\ socketState \in [Sockets -> {"open", "closing", "closed"}]
  /\ clock \in 0..MaxClock
  /\ received \in [Sockets -> Seq(Nat)]
  /\ sent \in [0..(MaxSent - 1) -> SUBSET [socket : Sockets, delay : Nat]]
  /\ disturbed \subseteq {"shuffled", "thrown"}

Init ==
  /\ entries = {}
  /\ timer = {}
  /\ nextSequence = 0
  /\ microtasks = <<>>
  /\ flush = "idle"
  /\ due = <<>>
  /\ targets = {}
  /\ socketState = [ws \in Sockets |-> "open"]
  /\ clock = 0
  /\ received = [ws \in Sockets |-> <<>>]
  /\ sent = [n \in 0..(MaxSent - 1) |-> {}]
  /\ disturbed = {}

-----------------------------------------------------------------------------
(***************************************************************************)
(* The list and its timer.                                                 *)
(***************************************************************************)

\* #findEarliestDueAt, as the due time to arm the timer for
Earliest(es) == {e.dueAt : e \in {x \in es : \A y \in es : x.dueAt <= y.dueAt}}

\* (mutant) An armed timer is left as it is.
FirstComeTimer(es, dueAt) == IF timer = {} THEN Earliest(es) ELSE timer

\* What #enqueue does to the timer: armed if it is not, armed anew if the entry
\* is due before what it was armed for.
TimerFor(es, dueAt) ==
  IF timer = {} \/ \E t \in timer : dueAt < t THEN Earliest(es) ELSE timer

Enqueue(entry) ==
  /\ entries' = entries \cup {entry}
  /\ timer' = TimerFor(entries', entry.dueAt)
  /\ nextSequence' = nextSequence + 1

IsFor(e, ws) == e.kind = "delivery" /\ e.socket = ws

\* (mutant) The deliveries of the other sockets go as well.
CancelDeliveries(ws) ==
  /\ entries' = {e \in entries : e.kind = "task" /\ ws \in Sockets}
  /\ timer' = IF entries' = entries THEN timer ELSE Earliest(entries')

\* cancelSocket. It arms the timer even in a flush.
CancelSocket(ws) ==
  /\ entries' = {e \in entries : ~IsFor(e, ws)}
  /\ timer' = IF entries' = entries THEN timer ELSE Earliest(entries')

-----------------------------------------------------------------------------
(***************************************************************************)
(* Calls, from the test or from a handler.                                 *)
(***************************************************************************)

\* Code of the client runs in a handler, or when no call is in progress.
ClientRuns == flush # "running"

\* History only.
Note(ws, delay) ==
  /\ sent' = [sent EXCEPT ![nextSequence] = {[socket |-> ws, delay |-> delay]}]
  /\ UNCHANGED <<received, disturbed>>

\* deliver and deliverWithJitter, to any socket: an awaited REQ handler may answer
\* a socket that is gone.
DeliverNow(ws) ==
  /\ ClientRuns
  /\ 0 \in Delays
  /\ nextSequence < MaxSent
  /\ microtasks' = Append(microtasks, [socket |-> ws, sequence |-> nextSequence])
  /\ nextSequence' = nextSequence + 1
  /\ Note(ws, 0)
  /\ UNCHANGED <<entries, timer, flushVars, socketState, clock>>

DeliverLater(ws, delay) ==
  /\ ClientRuns
  /\ delay > 0
  /\ nextSequence < MaxSent
  /\ clock + delay <= MaxClock
  /\ Enqueue([kind |-> "delivery", dueAt |-> clock + delay,
              sequence |-> nextSequence, socket |-> ws])
  /\ Note(ws, delay)
  /\ UNCHANGED <<flushVars, microtasks, socketState, clock>>

\* disconnectAfter
Schedule(delay) ==
  /\ ClientRuns
  /\ nextSequence < MaxSent
  /\ clock + delay <= MaxClock
  /\ Enqueue([kind |-> "task", dueAt |-> clock + delay, sequence |-> nextSequence])
  /\ UNCHANGED <<flushVars, historyVars, microtasks, socketState, clock>>

\* close() of a socket; the relay hears of it in a microtask.
StartClosing(ws) ==
  /\ ClientRuns
  /\ socketState[ws] = "open"
  /\ socketState' = [socketState EXCEPT ![ws] = "closing"]
  /\ UNCHANGED <<schedulerVars, flushVars, historyVars, microtasks, clock>>

FinishClosing(ws) ==
  /\ flush = "idle"
  /\ socketState[ws] = "closing"
  /\ socketState' = [socketState EXCEPT ![ws] = "closed"]
  /\ CancelSocket(ws)
  /\ UNCHANGED <<nextSequence, flushVars, historyVars, microtasks, clock>>

\* _forceClose, by a call of the relay
ForceClose(ws) ==
  /\ ClientRuns
  /\ socketState[ws] = "open"
  /\ socketState' = [socketState EXCEPT ![ws] = "closed"]
  /\ CancelSocket(ws)
  /\ UNCHANGED <<nextSequence, flushVars, historyVars, microtasks, clock>>

\* clear(), by reset(). What it drops is not counted as sent.
Clear ==
  /\ ClientRuns
  /\ Resets
  /\ entries' = {}
  /\ timer' = {}
  /\ sent' = [n \in DOMAIN sent |-> IF \E e \in entries : e.sequence = n THEN {} ELSE sent[n]]
  /\ UNCHANGED <<nextSequence, flushVars, received, disturbed, microtasks, socketState, clock>>

-----------------------------------------------------------------------------
(***************************************************************************)
(* Callbacks.                                                              *)
(***************************************************************************)

\* _receiveMessage
HandOver(ws, sequence) ==
  received' = IF socketState[ws] = "open"
                THEN [received EXCEPT ![ws] = Append(@, sequence)]
                ELSE received

RunMicrotask ==
  /\ flush = "idle"
  /\ microtasks # <<>>
  /\ microtasks' = Tail(microtasks)
  /\ HandOver(Head(microtasks).socket, Head(microtasks).sequence)
  /\ UNCHANGED <<schedulerVars, flushVars, sent, disturbed, socketState, clock>>

\* (mutant) Of two entries due together, the later one goes first.
BeforeReversed(d, e) == d.dueAt < e.dueAt \/ (d.dueAt = e.dueAt /\ d.sequence > e.sequence)

Before(d, e) == d.dueAt < e.dueAt \/ (d.dueAt = e.dueAt /\ d.sequence < e.sequence)

Rank(S, e) == 1 + Cardinality({d \in S : Before(d, e)})

\* The orders a flush can put the due entries in: by due time and then sequence,
\* and with outOfOrderRate the deliveries shuffled among their places.
Orders(S) ==
  {s \in [1..Cardinality(S) -> S] :
     /\ \A i, j \in DOMAIN s : s[i] = s[j] => i = j
     /\ \A i \in DOMAIN s : s[i].kind = "task" \/ ~OutOfOrder => i = Rank(S, s[i])}

\* (mutant) What a flush finds is not taken out of the list.
NothingTaken(now) == entries

NotYetDue(now) == {e \in entries : e.dueAt > now}

DueBy(now) == {e \in entries : e.dueAt <= now}

\* #flushDueEntries up to its loop. The timer can fire a little before Date.now()
\* has reached the due time, and then finds nothing. The microtask of a close() has
\* run before any timer does.
TimerFires ==
  /\ flush = "idle"
  /\ microtasks = <<>> /\ \A ws \in Sockets : socketState[ws] # "closing"
  /\ \E t \in timer : clock + Early >= t
  /\ timer' = {}
  /\ flush' = "running"
  /\ entries' = NotYetDue(clock)
  /\ due' \in Orders(DueBy(clock))
  /\ disturbed' = disturbed \cup {"shuffled" : i \in {j \in DOMAIN due' : j # Rank(DueBy(clock), due'[j])}}
  /\ UNCHANGED <<nextSequence, targets, received, sent, microtasks, socketState, clock>>

\* A handler runs only for a socket that is open.
HandlerOf(ws) == IF socketState[ws] = "open" THEN "handler" ELSE "running"

FlushDelivery ==
  /\ due # <<>> /\ targets = {}
  /\ Head(due).kind = "delivery"
  /\ due' = Tail(due)
  /\ HandOver(Head(due).socket, Head(due).sequence)
  /\ flush' = HandlerOf(Head(due).socket)
  /\ UNCHANGED <<schedulerVars, targets, sent, disturbed, microtasks, socketState, clock>>

\* A disconnectAfter task takes its copy of the registry ...
FlushTask ==
  /\ due # <<>> /\ targets = {}
  /\ Head(due).kind = "task"
  /\ due' = Tail(due)
  /\ targets' = {ws \in Sockets : socketState[ws] # "closed"}
  /\ flush' = "running"
  /\ UNCHANGED <<schedulerVars, historyVars, microtasks, socketState, clock>>

\* ... and closes each socket that is still open when its turn comes.
DisconnectNext ==
  /\ \E ws \in targets :
       /\ targets' = targets \ {ws}
       /\ flush' = HandlerOf(ws)
       /\ IF socketState[ws] = "open"
            THEN /\ socketState' = [socketState EXCEPT ![ws] = "closed"]
                 /\ CancelSocket(ws)
            ELSE UNCHANGED <<socketState, entries, timer>>
  /\ UNCHANGED <<nextSequence, due, historyVars, microtasks, clock>>

\* (mutant) The timer is armed only by the next delivery.
RearmLater == timer

\* The end of #flushDueEntries arms the timer unless a handler's call has done so.
Rearmed == IF timer = {} THEN Earliest(entries) ELSE timer

FlushEnds ==
  /\ flush # "idle" /\ due = <<>> /\ targets = {}
  /\ flush' = "idle"
  /\ timer' = Rearmed
  /\ UNCHANGED <<entries, nextSequence, due, targets, historyVars, microtasks, socketState, clock>>

\* An exception of a handler ends the flush: the due entries left are lost, and
\* the timer is not armed.
FlushThrows ==
  /\ HandlersThrow
  /\ flush = "handler"
  /\ flush' = "idle"
  /\ due' = <<>>
  /\ targets' = {}
  /\ disturbed' = disturbed \cup {"thrown"}
  /\ UNCHANGED <<schedulerVars, received, sent, microtasks, socketState, clock>>

Tick ==
  /\ clock < MaxClock
  /\ clock' = clock + 1
  /\ UNCHANGED <<schedulerVars, flushVars, historyVars, microtasks, socketState>>

FlushStep == FlushDelivery \/ FlushTask \/ DisconnectNext \/ FlushEnds

Next ==
  \/ \E ws \in Sockets :
       \/ DeliverNow(ws) \/ StartClosing(ws) \/ FinishClosing(ws) \/ ForceClose(ws)
       \/ \E delay \in Delays : DeliverLater(ws, delay)
  \/ \E delay \in TaskDelays : Schedule(delay)
  \/ Clear
  \/ RunMicrotask \/ TimerFires \/ FlushStep \/ FlushThrows
  \/ Tick

SafetySpec == Init /\ [][Next]_vars

\* The clock goes on, the event loop runs the timer and the microtasks, and
\* handlers return. Clients need not do anything.
Spec ==
  /\ SafetySpec
  /\ WF_vars(Tick)
  /\ WF_vars(RunMicrotask)
  /\ WF_vars(TimerFires)
  /\ WF_vars(FlushStep)
  /\ \A ws \in Sockets : WF_vars(FinishClosing(ws))

-----------------------------------------------------------------------------
(***************************************************************************)
(* Properties.                                                             *)
(***************************************************************************)

\* The one timer always stands for the whole list: outside a flush it is armed
\* exactly when there are entries (until an exception ends a flush before it is
\* armed), and whenever it is armed, in a flush too, it is armed for the earliest.
TimerCoversEntries ==
  /\ flush = "idle" /\ "thrown" \notin disturbed => (timer = {} <=> entries = {})
  /\ timer # {} => timer = Earliest(entries)

\* No delivery is handed over twice, however flushes, shuffles, exceptions and
\* closes interleave.
DeliveredOnce ==
  \A ws \in Sockets :
    \A i, j \in DOMAIN received[ws] : received[ws][i] = received[ws][j] => i = j

\* Unless deliveries are shuffled, a client is handed the messages of one delay in
\* the order in which the relay sent them, whatever flushes, messages of other delays
\* and early timers come in between. (So a fixed latency keeps all of them in order.)
SameDelayKeepsOrder ==
  "shuffled" \notin disturbed =>
    \A ws \in Sockets : \A i, j \in DOMAIN received[ws] :
      i < j /\ sent[received[ws][i]] = sent[received[ws][j]] => received[ws][i] < received[ws][j]

Waiting(n) ==
  \/ \E e \in entries : e.sequence = n
  \/ \E i \in DOMAIN due : due[i].sequence = n
  \/ \E i \in DOMAIN microtasks : microtasks[i].sequence = n

\* Until a handler throws in a flush, a delivery to a socket that is still open is
\* waiting or has been handed over, unless reset() dropped it: closing one socket,
\* the flushes and the timer of the whole list never lose another socket's message.
NothingIsLost ==
  "thrown" \notin disturbed =>
    \A n \in DOMAIN sent : \A d \in sent[n] :
      socketState[d.socket] = "open" =>
        Waiting(n) \/ \E i \in DOMAIN received[d.socket] : received[d.socket][i] = n

\* Nothing stays in the scheduler: with the timer armed anew after every flush and
\* every cancellation, each entry gets its turn or goes with its socket. (After an
\* exception in a flush, the timer waits for the next entry.)
NothingIsForgotten ==
  \A n \in 0..(MaxSent - 1) : Waiting(n) ~> ~Waiting(n) \/ "thrown" \in disturbed

=============================================================================
