--------------------------- MODULE MockWebSocket ---------------------------
(***************************************************************************)
(* The life cycle of the mock sockets of one relay: src/src/websocket.ts   *)
(* together with the connection registry of                                *)
(* src/src/relay/connection_runtime.ts.                                    *)
(*                                                                         *)
(* JavaScript runs one call at a time.  Three places hold work to come:    *)
(*   - microtasks: the queueMicrotask queue, run in FIFO order whenever no *)
(*     call is in progress;                                                *)
(*   - the timers, which fire only when the microtask queue is empty;      *)
(*   - stack: the library calls that are suspended because an event        *)
(*     handler of the client is running inside them.  The handler may call *)
(*     back into the library; when it returns, the innermost suspended     *)
(*     call goes on (action Return).                                       *)
(* A client operation can therefore happen in any state: from a handler    *)
(* when stack is not empty, from the client's own continuation otherwise.  *)
(*                                                                         *)
(* A definition marked (mutant) is wrong on purpose: put in the place of   *)
(* the definition that follows it, it shows that a property notices.       *)
(*                                                                         *)
(* relay.options is an object of the test, read by every constructor:      *)
(* ConnectDelays has both values if the test changes it in between.        *)
(* Close codes and reasons, the URL, the sub-protocol and the payloads are *)
(* left out.  Iteration over a Set of sockets takes them in any order.     *)
(***************************************************************************)
EXTENDS Naturals, Sequences, FiniteSets

CONSTANTS
  Sockets,          \* the MockWebSocket objects the client may construct
  ConnectDelays,    \* is options.connectionDelay or network.connectDelay positive?
  HasTimeout,       \* options.connectionTimeout is positive
  Unstable,         \* disconnectRate / transientDisconnect may cut a sender off
  HandlersThrow     \* an on... handler may throw, and the client survives it

ASSUME SocketAssumption ==
  /\ IsFiniteSet(Sockets)
  /\ ConnectDelays \subseteq BOOLEAN
  /\ HasTimeout \in BOOLEAN
  /\ Unstable \in BOOLEAN
  /\ HandlersThrow \in BOOLEAN

VARIABLES
  readyState,       \* readyState of each object; "NEW" before it is constructed
  openTimer,        \* sockets with #openTimer armed
  connectionTimer,  \* sockets with #connectionTimer armed
  connections,      \* RelayConnectionRuntime.#connections
  refused,          \* RelayConnectionRuntime.#refused
  cooldown,         \* #disconnectCooldownUntil > clock.now()
  microtasks,       \* the microtask queue
  stack,            \* suspended library calls, innermost first
  closeEvents,      \* number of close events each socket has fired
  errorEvents       \* sockets that have fired an error event

socketVars == <<readyState, openTimer, connectionTimer, connections, refused,
                cooldown, closeEvents, errorEvents>>
vars == <<socketVars, microtasks, stack>>

ReadyStates == {"NEW", "CONNECTING", "OPEN", "CLOSING", "CLOSED"}

\* The callbacks this component queues as microtasks.
SocketTask == [kind : {"reject", "cooldownClose", "doOpen", "finishClose"}, ws : Sockets]

\* What is left of a suspended call: the rest of doOpen, of an error-then-close
\* sequence, or of the loop of disconnect() over its copy of the registry.
SocketFrame == [kind : {"handleOpen", "fireClose"}, ws : Sockets]
                 \cup [kind : {"disconnect"}, rest : SUBSET Sockets]

Task(kind, ws) == [kind |-> kind, ws |-> ws]
Frame(kind, ws) == [kind |-> kind, ws |-> ws]

SocketTypeOK ==
  /\ readyState \in [Sockets -> ReadyStates]
  /\ openTimer \subseteq Sockets
  /\ connectionTimer \subseteq Sockets
  /\ connections \subseteq Sockets
  /\ refused \in BOOLEAN
  /\ cooldown \in BOOLEAN
  /\ closeEvents \in [Sockets -> Nat]
  /\ errorEvents \subseteq Sockets

TypeOK ==
  /\ SocketTypeOK
  /\ microtasks \in Seq(SocketTask)
  /\ stack \in Seq(SocketFrame)

SocketInit ==
  /\ readyState = [ws \in Sockets |-> "NEW"]
  /\ openTimer = {}
  /\ connectionTimer = {}
  /\ connections = {}
  /\ refused = FALSE
  /\ cooldown = FALSE
  /\ closeEvents = [ws \in Sockets |-> 0]
  /\ errorEvents = {}

Init ==
  /\ SocketInit
  /\ microtasks = <<>>
  /\ stack = <<>>

-----------------------------------------------------------------------------
(***************************************************************************)
(* The event loop.                                                         *)
(***************************************************************************)

\* A microtask runs when no call is in progress, a timer when in addition no
\* microtask is left.
NextTask(kind, ws) ==
  /\ stack = <<>>
  /\ microtasks # <<>>
  /\ Head(microtasks) = Task(kind, ws)

TimersMayFire == stack = <<>> /\ microtasks = <<>>

Suspend(frame) == stack' = <<frame>> \o stack

-----------------------------------------------------------------------------
(***************************************************************************)
(* The private methods of MockWebSocket.                                   *)
(***************************************************************************)

\* (mutant) The connection timer is forgotten.
ClearOpenTimerOnly(ws) ==
  /\ openTimer' = openTimer \ {ws}
  /\ UNCHANGED connectionTimer

ClearTimers(ws) ==
  /\ openTimer' = openTimer \ {ws}
  /\ connectionTimer' = connectionTimer \ {ws}

\* #fireClose: CLOSED whatever the state was, then the close event. The event's
\* handler runs next; it suspends the caller only if the caller has more to do.
FireClose(ws) ==
  /\ readyState' = [readyState EXCEPT ![ws] = "CLOSED"]
  /\ closeEvents' = [closeEvents EXCEPT ![ws] = @ + 1]

Unregister(ws) == connections' = connections \ {ws}

\* (mutant) _forceClose also takes a socket whose close() is under way.
LiveOrClosing(ws) == readyState[ws] \in {"CONNECTING", "OPEN", "CLOSING"}

\* _forceClose does nothing to a socket that is CLOSING or CLOSED.
IsLive(ws) == readyState[ws] \in {"CONNECTING", "OPEN"}

ForceClose(ws) ==
  /\ ClearTimers(ws)
  /\ Unregister(ws)
  /\ FireClose(ws)

-----------------------------------------------------------------------------
(***************************************************************************)
(* What the client calls.                                                  *)
(***************************************************************************)

\* The constructor when the URL has no relay, or its relay refuses.
ConstructRejected(ws) ==
  /\ readyState[ws] = "NEW"
  /\ readyState' = [readyState EXCEPT ![ws] = "CONNECTING"]
  /\ microtasks' = Append(microtasks, Task("reject", ws))
  /\ UNCHANGED <<openTimer, connectionTimer, connections, refused, cooldown,
                 closeEvents, errorEvents, stack>>

\* (mutant) The constructor schedules the opening before it registers.
OpenBeforeCooldownClose(ws, delayed) ==
  (IF delayed THEN <<>> ELSE <<Task("doOpen", ws)>>)
    \o (IF cooldown THEN <<Task("cooldownClose", ws)>> ELSE <<>>)

\* The microtasks of a constructor that reaches a relay, in the order in which
\* _registerConnection and #scheduleOpen queue them.
ConstructorTasks(ws, delayed) ==
  (IF cooldown THEN <<Task("cooldownClose", ws)>> ELSE <<>>)
    \o (IF delayed THEN <<>> ELSE <<Task("doOpen", ws)>>)

ConstructAccepted(ws) ==
  /\ readyState[ws] = "NEW"
  /\ ~refused
  /\ readyState' = [readyState EXCEPT ![ws] = "CONNECTING"]
  /\ connections' = IF cooldown THEN connections ELSE connections \cup {ws}
  /\ connectionTimer' = IF HasTimeout THEN connectionTimer \cup {ws} ELSE connectionTimer
  /\ \E delayed \in ConnectDelays :
       /\ openTimer' = IF delayed THEN openTimer \cup {ws} ELSE openTimer
       /\ microtasks' = microtasks \o ConstructorTasks(ws, delayed)
  /\ UNCHANGED <<refused, cooldown, closeEvents, errorEvents, stack>>

Close(ws) ==
  /\ IsLive(ws)
  /\ readyState' = [readyState EXCEPT ![ws] = "CLOSING"]
  /\ ClearTimers(ws)
  /\ microtasks' = Append(microtasks, Task("finishClose", ws))
  /\ UNCHANGED <<connections, refused, cooldown, closeEvents, errorEvents, stack>>

Refuse ==
  /\ refused' = TRUE
  /\ UNCHANGED <<readyState, openTimer, connectionTimer, connections, cooldown,
                 closeEvents, errorEvents, microtasks, stack>>

\* The connection runtime's part of reset(): the connections stay.
Reset ==
  /\ refused' = FALSE
  /\ cooldown' = FALSE
  /\ UNCHANGED <<readyState, openTimer, connectionTimer, connections,
                 closeEvents, errorEvents, microtasks, stack>>

\* One turn of the loop of disconnect(): the sockets of its copy of the registry
\* that are CLOSING or CLOSED are passed over, the next live one is closed, and
\* its close handler suspends the loop.
DisconnectNext(targets, below) ==
  \E ws \in targets :
    /\ IsLive(ws)
    /\ ForceClose(ws)
    /\ stack' = <<[kind |-> "disconnect", rest |-> targets \ {ws}]>> \o below
    /\ UNCHANGED <<refused, cooldown, errorEvents, microtasks>>

Disconnect == DisconnectNext(connections, stack)

\* send() on an OPEN socket, answered by #shouldRandomDisconnect ...
RandomDisconnect(ws) ==
  /\ Unstable
  /\ readyState[ws] = "OPEN"
  /\ ForceClose(ws)
  /\ UNCHANGED <<refused, cooldown, errorEvents, microtasks, stack>>

\* ... or by #shouldTransientDisconnect, which also starts the cooldown.
TransientDisconnect(ws) ==
  /\ Unstable
  /\ readyState[ws] = "OPEN"
  /\ cooldown' = TRUE
  /\ ForceClose(ws)
  /\ UNCHANGED <<refused, errorEvents, microtasks, stack>>

\* The clock passes #disconnectCooldownUntil.
CooldownExpires ==
  /\ cooldown
  /\ cooldown' = FALSE
  /\ UNCHANGED <<readyState, openTimer, connectionTimer, connections, refused,
                 closeEvents, errorEvents, microtasks, stack>>

-----------------------------------------------------------------------------
(***************************************************************************)
(* The callbacks.                                                          *)
(***************************************************************************)

\* (mutant) The error event is not followed by a close.
FireErrorOnly(ws) ==
  /\ errorEvents' = errorEvents \cup {ws}
  /\ UNCHANGED <<readyState, closeEvents, stack>>

\* #fireError, whose handler suspends the #fireClose that follows it.
FireErrorThenClose(ws) ==
  /\ errorEvents' = errorEvents \cup {ws}
  /\ Suspend(Frame("fireClose", ws))
  /\ UNCHANGED <<readyState, closeEvents>>

RejectTask(ws) ==
  /\ NextTask("reject", ws)
  /\ microtasks' = Tail(microtasks)
  /\ FireErrorThenClose(ws)
  /\ UNCHANGED <<openTimer, connectionTimer, connections, refused, cooldown>>

CooldownCloseTask(ws) ==
  /\ NextTask("cooldownClose", ws)
  /\ microtasks' = Tail(microtasks)
  /\ IF IsLive(ws)
       THEN ForceClose(ws)
       ELSE UNCHANGED <<readyState, openTimer, connectionTimer, connections, closeEvents>>
  /\ UNCHANGED <<refused, cooldown, errorEvents, stack>>

\* (mutant) doOpen overlooks a close() that has not finished.
NotYetClosed(ws) == readyState[ws] # "CLOSED"

StillConnecting(ws) == readyState[ws] = "CONNECTING"

\* doOpen: nothing but the lost timer unless the socket is still CONNECTING;
\* otherwise OPEN, and the open handler suspends the call before _handleOpen.
DoOpen(ws) ==
  /\ IF StillConnecting(ws)
       THEN /\ readyState' = [readyState EXCEPT ![ws] = "OPEN"]
            /\ ClearTimers(ws)
            /\ Suspend(Frame("handleOpen", ws))
       ELSE /\ openTimer' = openTimer \ {ws}
            /\ UNCHANGED <<readyState, connectionTimer, stack>>
  /\ UNCHANGED <<connections, refused, cooldown, closeEvents, errorEvents>>

DoOpenTask(ws) ==
  /\ NextTask("doOpen", ws)
  /\ microtasks' = Tail(microtasks)
  /\ DoOpen(ws)

OpenTimerFires(ws) ==
  /\ TimersMayFire
  /\ ws \in openTimer
  /\ DoOpen(ws)
  /\ UNCHANGED microtasks

\* connectionTimeout: a socket that is still CONNECTING leaves the registry
\* before its error handler runs.
ConnectionTimerFires(ws) ==
  /\ TimersMayFire
  /\ ws \in connectionTimer
  /\ IF readyState[ws] = "CONNECTING"
       THEN /\ ClearTimers(ws)
            /\ Unregister(ws)
            /\ FireErrorThenClose(ws)
       ELSE /\ connectionTimer' = connectionTimer \ {ws}
            /\ UNCHANGED <<readyState, openTimer, connections, closeEvents, errorEvents, stack>>
  /\ UNCHANGED <<refused, cooldown, microtasks>>

\* The microtask of close(). It closes whatever another callback did before it.
Finish(ws) == Unregister(ws) /\ FireClose(ws)

FinishCloseTask(ws) ==
  /\ NextTask("finishClose", ws)
  /\ microtasks' = Tail(microtasks)
  /\ Finish(ws)
  /\ UNCHANGED <<openTimer, connectionTimer, refused, cooldown, errorEvents, stack>>

-----------------------------------------------------------------------------
(***************************************************************************)
(* A handler ends, and the call it suspended goes on.                      *)
(***************************************************************************)

ReturnTo(kind, ws) == stack # <<>> /\ Head(stack) = Frame(kind, ws)

\* The rest of doOpen: relay._handleOpen, which does nothing to the sockets.
ReturnToDoOpen(ws) ==
  /\ ReturnTo("handleOpen", ws)
  /\ stack' = Tail(stack)
  /\ UNCHANGED <<socketVars, microtasks>>

ReturnToFireClose(ws) ==
  /\ ReturnTo("fireClose", ws)
  /\ stack' = Tail(stack)
  /\ FireClose(ws)
  /\ UNCHANGED <<openTimer, connectionTimer, connections, refused, cooldown,
                 errorEvents, microtasks>>

ReturnToDisconnect ==
  /\ stack # <<>>
  /\ Head(stack).kind = "disconnect"
  /\ \/ DisconnectNext(Head(stack).rest, Tail(stack))
     \/ /\ ~\E ws \in Head(stack).rest : IsLive(ws)
        /\ stack' = Tail(stack)
        /\ UNCHANGED <<socketVars, microtasks>>

\* An exception of the handler ends the suspended call as well. What called that
\* is the client (or the event loop), which goes on.
HandlerThrows ==
  /\ HandlersThrow
  /\ stack # <<>>
  /\ stack' = Tail(stack)
  /\ UNCHANGED <<socketVars, microtasks>>

-----------------------------------------------------------------------------

Client ==
  \/ \E ws \in Sockets :
       ConstructRejected(ws) \/ ConstructAccepted(ws) \/ Close(ws)
         \/ RandomDisconnect(ws) \/ TransientDisconnect(ws)
  \/ Refuse \/ Reset \/ Disconnect

Microtask ==
  \E ws \in Sockets :
    RejectTask(ws) \/ CooldownCloseTask(ws) \/ DoOpenTask(ws) \/ FinishCloseTask(ws)

Return ==
  \/ \E ws \in Sockets : ReturnToDoOpen(ws) \/ ReturnToFireClose(ws)
  \/ ReturnToDisconnect

TimerFires(ws) == OpenTimerFires(ws) \/ ConnectionTimerFires(ws)

Next ==
  \/ Client
  \/ CooldownExpires
  \/ Microtask
  \/ \E ws \in Sockets : TimerFires(ws)
  \/ Return
  \/ HandlerThrows

\* The event loop runs every microtask and every timer, and handlers return.
\* Nothing is assumed of the client or of the clock.
Fairness ==
  /\ WF_vars(Microtask)
  /\ WF_vars(Return)
  /\ \A ws \in Sockets : WF_vars(TimerFires(ws))

SafetySpec == Init /\ [][Next]_vars

Spec == SafetySpec /\ Fairness

-----------------------------------------------------------------------------
(***************************************************************************)
(* Properties.                                                             *)
(***************************************************************************)

\* The registry and readyState agree: an OPEN socket is registered (it receives
\* broadcasts and disconnect() finds it), a CLOSED one is not. It rests on the
\* order in which the constructor queues the cooldown's close and doOpen, and on
\* every path to CLOSED leaving the registry first.
RegistryMatchesState ==
  \A ws \in Sockets :
    /\ readyState[ws] = "OPEN" => ws \in connections
    /\ readyState[ws] \in {"NEW", "CLOSED"} => ws \notin connections

\* A timer is never left armed behind a socket that has opened or closed.
TimersOnlyWhileConnecting ==
  \A ws \in openTimer \cup connectionTimer : readyState[ws] = "CONNECTING"

\* A second close event takes a connection that failed with an error event
\* (close() queued its own close before #fireError was followed by #fireClose);
\* relay-side and client-side closes never add up.
SecondCloseNeedsError ==
  \A ws \in Sockets : closeEvents[ws] <= (IF ws \in errorEvents THEN 2 ELSE 1)

-----------------------------------------------------------------------------
\* The event loop below this module, seen through readyState and the registry
\* alone, is the life cycle of SocketLifecycle. With a handler that throws, or
\* without fairness, its safety part is what remains.
Lifecycle == INSTANCE SocketLifecycle WITH phase <- readyState, reachable <- connections

\* Every step of a socket is a step of the abstract life cycle or leaves it alone.
ImplementsLifecycleSafety == Lifecycle!LifecycleSafety

\* ... and under the event loop's fairness, connections settle as it promises: no
\* socket stays CONNECTING or CLOSING, registered or not.
ImplementsLifecycle == Lifecycle!LifecycleSpec

=============================================================================
