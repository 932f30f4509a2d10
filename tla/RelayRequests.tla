--------------------------- MODULE RelayRequests ----------------------------
(***************************************************************************)
(* What a relay does with the messages of its clients: handleMessage of    *)
(* src/src/relay/connection_runtime.ts, router.ts, #handleEvent,           *)
(* #handleReq, #handleClose, #handleCount, broadcast and the test's calls  *)
(* of src/src/relay.ts, subscription_registry.ts, and the logs of          *)
(* relay_inspector.ts. It composes the store and its queries               *)
(* (EventQueries) with the checks on a message (MessageCodec).             *)
(*                                                                         *)
(* Handling is synchronous up to an await of the verifier or of a handler  *)
(* of the test, whose promise settles at any later moment; what is read    *)
(* after the await is read then. Every message is delivered by a microtask *)
(* (latency 0; DeliveryScheduler models delays) and dropped unless its     *)
(* socket is OPEN. Sockets start OPEN and registered (MockWebSocket models *)
(* how they get there), and no client has to authenticate (RelayAuth       *)
(* models the gate). The n-th message sent by a client is called n, and    *)
(* what the relay says in answer to it carries n, broadcasts carry 0.      *)
(***************************************************************************)
EXTENDS EventQueries, MessageCodec

CONSTANTS
  Sockets,        \* the connections
  RawMessages,    \* what each client sends (see MessageCodec); a filter that is an
                  \* object has `filter' and `compiles', FALSE if compileFilter throws
  Limitations,    \* the values of info.limitation the test sets
  SetUp,          \* the sets of handlers the test sets before clients come
  HandlerResults, \* the lists of events a REQ handler returns
  Unreliable,     \* errorRate, disconnectRate or transientDisconnect is set
  Ops,            \* the calls of the test, close() of a client included
  MaxMessages,    \* bound: how many messages clients send
  MaxOps          \* bound: how many of these are made

VARIABLES
  sockets,        \* OPEN, CLOSING (still registered) or CLOSED
  subscriptions,  \* <<socket, subscription id>> -> list of filters
  handlers,       \* which of verifier, event, req and count handler are set
  info,           \* #info.limitation
  received,       \* the inspector's #received
  remembered,     \* its #errors and #authResults, by message
  calls,          \* the handlings that await something
  queue,          \* the microtasks that deliver messages
  inbox,          \* what each client has been given
  archive,        \* received and info of the last relay.snapshot()
  sent,           \* history: the messages sent, and by whom
  quiet,          \* history: those that get no answer
  resetAt,        \* history: how many had been sent at the last reset
  ops             \* number of calls of Ops made

\* What clients send and the test sets is JSON as the codec reads it, with an event
\* of Events or filters as the store takes them; handlers return lists of events.
ASSUME RelayAssumption ==
  /\ IsFiniteSet(Sockets)
  /\ \A ws \in Sockets : \A raw \in RawMessages[ws] :
       /\ IsRawMessage(raw)
       /\ \A i \in DOMAIN raw.items :
            LET value == raw.items[i]
            IN /\ IsEventShape(value) => value.event \in Events
               /\ i > 2 /\ IsFilterShape(value) =>
                    value.compiles \in BOOLEAN /\ IsFilter(value.filter)
  /\ \A limitation \in Limitations : IsLimitation(limitation)
  /\ HandlerResults \subseteq Seq(Events)

config == <<handlers, info, archive>>
history == <<sent, quiet, resetAt, ops>>
relayVars == <<vars, sockets, subscriptions, config, received, remembered, calls,
               queue, inbox, history>>

Verifier == "verifier"
None == [k \in {} |-> {}]

Type(raw) ==
  IF raw.items # <<>> /\ IsString(Head(raw.items)) THEN Head(raw.items).text ELSE "none"
SubId(raw) == raw.items[2].text
EventOf(raw) == raw.items[2].event
FiltersOf(raw) == SubSeq(raw.items, 3, Len(raw.items))

Call == [n : 1..MaxMessages, stage : {"verify", "event", "req", "count", "auth"}]
WsOf(call) == sent[call.n].ws
RawOf(call) == sent[call.n].raw

RelayInit ==
  /\ Init
  /\ sockets = [ws \in Sockets |-> "OPEN"]
  /\ subscriptions = None
  /\ handlers \in SetUp
  /\ info = None
  /\ received = <<>>
  /\ remembered = {}
  /\ calls = {}
  /\ queue = <<>>
  /\ inbox = [ws \in Sockets |-> <<>>]
  /\ archive = [received |-> <<>>, info |-> None]
  /\ sent = <<>>
  /\ quiet = {}
  /\ resetAt = 0
  /\ ops = 0

-----------------------------------------------------------------------------
(***************************************************************************)
(* Sending: the messages of response_builders.ts and the queue.            *)
(***************************************************************************)

Notice(n) == [type |-> "NOTICE", n |-> n]
Ok(e, accepted, n) == [type |-> "OK", event |-> e.id, accepted |-> accepted, n |-> n]
Closed(subId, n) == [type |-> "CLOSED", subId |-> subId, n |-> n]
EventMessage(subId, e, n) == [type |-> "EVENT", subId |-> subId, event |-> e, n |-> n]
Eose(subId, n) == [type |-> "EOSE", subId |-> subId, n |-> n]
CountMessage(subId, count, n) == [type |-> "COUNT", subId |-> subId, count |-> count, n |-> n]

Tasks(ws, messages) ==
  [i \in DOMAIN messages |-> [ws |-> ws, message |-> messages[i]]]

SendMessage(ws, message) == queue' = Append(queue, [ws |-> ws, message |-> message])

\* sendErrorNotice, sendErrorOk, sendErrorClosed
SendError(ws, message) ==
  /\ SendMessage(ws, message)
  /\ remembered' = remembered \cup {message.n}

\* _receiveMessage, from the microtask of deliver().
Deliver ==
  /\ queue # <<>>
  /\ queue' = Tail(queue)
  /\ LET task == Head(queue)
     IN inbox' = IF sockets[task.ws] = "OPEN"
                   THEN [inbox EXCEPT ![task.ws] = Append(@, task.message)]
                   ELSE inbox
  /\ UNCHANGED <<vars, sockets, subscriptions, config, received, remembered, calls, history>>

-----------------------------------------------------------------------------
(***************************************************************************)
(* Subscriptions.                                                          *)
(***************************************************************************)

SubscriptionsOf(S) == {key \in DOMAIN subscriptions : key[1] \in S}

Without(keys) == [key \in DOMAIN subscriptions \ keys |-> subscriptions[key]]

\* set: the filters of an id are replaced.
Subscribe(ws, subId, filters) ==
  subscriptions' = [key \in DOMAIN subscriptions \cup {<<ws, subId>>} |->
                      IF key = <<ws, subId>> THEN filters ELSE subscriptions[key]]

\* matchFilters goes on to the first filter that matches; one before it that does
\* not compile throws.
MatchesOne(e, filters) ==
  \E i \in DOMAIN filters : filters[i].compiles /\ Matches(e, filters[i].filter)

Breaks(e, filters) ==
  \E i \in DOMAIN filters :
    ~filters[i].compiles /\ ~MatchesOne(e, SubSeq(filters, 1, i - 1))

\* (mutant) Only the first filter of a subscription is looked at.
MatchingFirst(e) ==
  {key \in DOMAIN subscriptions : MatchesOne(e, SubSeq(subscriptions[key], 1, 1))}

MatchingSubscriptions(e) ==
  {key \in DOMAIN subscriptions : MatchesOne(e, subscriptions[key])}

\* matchingSubscriptions collects the matches before broadcast sends to the first
\* one, so that one that throws leaves nothing sent.
BroadcastThrows(e) == \E key \in DOMAIN subscriptions : Breaks(e, subscriptions[key])

\* What broadcast sends, in the order of the Maps: any, as far as the model knows.
Broadcasts(e) ==
  {[i \in DOMAIN order |-> [ws |-> order[i][1], message |-> EventMessage(order[i][2], e, 0)]] :
     order \in SetToSeqs(MatchingSubscriptions(e))}

-----------------------------------------------------------------------------
(***************************************************************************)
(* A message arrives.                                                      *)
(***************************************************************************)

N == Len(sent) + 1

\* send() throws unless the socket is OPEN.
Arrives(ws, raw) ==
  /\ Len(sent) < MaxMessages
  /\ sockets[ws] = "OPEN"
  /\ sent' = Append(sent, [ws |-> ws, raw |-> raw])

RefuseMessage(ws, raw) ==
  /\ Arrives(ws, raw)
  /\ ParseClientMessage(raw, info) # Accepted
  /\ SendError(ws, Notice(N))
  /\ UNCHANGED <<vars, sockets, subscriptions, config, received, calls, inbox, quiet, resetAt, ops>>

\* Everything parsed is recorded, whatever becomes of it.
Record(ws, raw) ==
  /\ Arrives(ws, raw)
  /\ ParseClientMessage(raw, info) = Accepted
  /\ received' = Append(received, N)

\* (mutant) The subscriptions of a socket that goes stay behind.
LeaveSubscribed(S) ==
  /\ sockets' = [ws \in Sockets |-> IF ws \in S THEN "CLOSED" ELSE sockets[ws]]
  /\ UNCHANGED subscriptions

\* A socket leaves the relay: _forceClose, or the end of close().
Leave(S) ==
  /\ sockets' = [ws \in Sockets |-> IF ws \in S THEN "CLOSED" ELSE sockets[ws]]
  /\ subscriptions' = Without(SubscriptionsOf(S))

\* #shouldRandomDisconnect, #shouldTransientDisconnect
DropConnection(ws, raw) ==
  /\ Unreliable
  /\ Record(ws, raw)
  /\ Leave({ws})
  /\ UNCHANGED <<vars, config, remembered, calls, queue, inbox, quiet, resetAt, ops>>

\* #shouldError
SimulateError(ws, raw) ==
  /\ Unreliable
  /\ Record(ws, raw)
  /\ SendError(ws, Notice(N))
  /\ UNCHANGED <<vars, sockets, subscriptions, config, calls, inbox, quiet, resetAt, ops>>

RefuseType(ws, raw) ==
  /\ Record(ws, raw)
  /\ Type(raw) \notin {"EVENT", "REQ", "CLOSE", "AUTH", "COUNT"}
  /\ SendError(ws, Notice(N))
  /\ UNCHANGED <<vars, sockets, subscriptions, config, calls, inbox, quiet, resetAt, ops>>

-----------------------------------------------------------------------------
(***************************************************************************)
(* EVENT.                                                                  *)
(***************************************************************************)

\* The default: publish, broadcast, OK. An exception of broadcast comes too late
\* to keep the event out of the store.
PublishAndAnswer(ws, n, e) ==
  /\ Publish(e)
  /\ IF Deleted(e) THEN SendError(ws, Ok(e, FALSE, n))
     ELSE IF nextOrder' = nextOrder /\ e.kind # "ephemeral"
       THEN SendMessage(ws, Ok(e, TRUE, n)) /\ UNCHANGED remembered
     ELSE IF BroadcastThrows(e) THEN SendError(ws, Ok(e, FALSE, n))
     ELSE /\ \E tasks \in Broadcasts(e) :
               queue' = queue \o tasks \o Tasks(ws, <<Ok(e, TRUE, n)>>)
          /\ UNCHANGED remembered

\* What follows the verifier, with the handler that is set by then.
HandleEvent(ws, n, e, others) ==
  IF "event" \in handlers
    THEN calls' = others \cup {[n |-> n, stage |-> "event"]} /\ UNCHANGED <<vars, queue, remembered>>
    ELSE calls' = others /\ PublishAndAnswer(ws, n, e)

ReceiveEvent(ws, raw) ==
  /\ Record(ws, raw)
  /\ Type(raw) = "EVENT"
  /\ IF Verifier \in handlers
       THEN /\ calls' = calls \cup {[n |-> N, stage |-> "verify"]}
            /\ UNCHANGED <<vars, queue, remembered>>
       ELSE HandleEvent(ws, N, EventOf(raw), calls)
  /\ UNCHANGED <<sockets, subscriptions, config, inbox, quiet, resetAt, ops>>

SignatureValid(call) ==
  /\ call.stage = "verify"
  /\ HandleEvent(WsOf(call), call.n, EventOf(RawOf(call)), calls \ {call})
  /\ UNCHANGED <<sockets, subscriptions, config, received, inbox, history>>

\* (mutant) The handling goes on after the refusal.
RefuseAndHandle(call) ==
  /\ call.stage = "verify"
  /\ calls' = (calls \ {call}) \cup {[n |-> call.n, stage |-> "event"]}
  /\ SendError(WsOf(call), Ok(EventOf(RawOf(call)), FALSE, call.n))
  /\ UNCHANGED <<vars, sockets, subscriptions, config, received, inbox, history>>

SignatureInvalid(call) ==
  /\ call.stage = "verify"
  /\ calls' = calls \ {call}
  /\ SendError(WsOf(call), Ok(EventOf(RawOf(call)), FALSE, call.n))
  /\ UNCHANGED <<vars, sockets, subscriptions, config, received, inbox, history>>

\* The verifier is awaited outside the try: onAsyncError notes the rejection, and
\* the client gets no answer.
VerifierRejects(call) ==
  /\ call.stage = "verify"
  /\ calls' = calls \ {call}
  /\ remembered' = remembered \cup {call.n}
  /\ quiet' = quiet \cup {call.n}
  /\ UNCHANGED <<vars, sockets, subscriptions, config, received, queue, inbox, sent, resetAt, ops>>

\* A handler of the test answers for itself; nothing is stored or broadcast.
EventHandled(call, accepted) ==
  /\ call.stage = "event"
  /\ calls' = calls \ {call}
  /\ LET answer == Ok(EventOf(RawOf(call)), accepted, call.n)
     IN IF accepted THEN SendMessage(WsOf(call), answer) /\ UNCHANGED remembered
                    ELSE SendError(WsOf(call), answer)
  /\ UNCHANGED <<vars, sockets, subscriptions, config, received, inbox, history>>

-----------------------------------------------------------------------------
(***************************************************************************)
(* REQ and CLOSE.                                                          *)
(***************************************************************************)

Compile(filters) == \A i \in DOMAIN filters : filters[i].compiles

Compiled(filters) == [i \in DOMAIN filters |-> filters[i].filter]

\* The stored events and EOSE.
SendEvents(ws, subId, es, n) ==
  queue' = queue \o Tasks(ws, [i \in DOMAIN es |-> EventMessage(subId, es[i], n)]
                                \o <<Eose(subId, n)>>)

\* The subscription is registered first, outside the try.
ReceiveReq(ws, raw) ==
  /\ Record(ws, raw)
  /\ Type(raw) = "REQ"
  /\ Subscribe(ws, SubId(raw), FiltersOf(raw))
  /\ IF "req" \in handlers
       THEN /\ calls' = calls \cup {[n |-> N, stage |-> "req"]}
            /\ UNCHANGED <<queue, remembered>>
       ELSE /\ IF Compile(FiltersOf(raw))
                 THEN LET found == QueryMany(Compiled(FiltersOf(raw)))
                      IN /\ SendEvents(ws, SubId(raw), [i \in DOMAIN found |-> found[i].event], N)
                         /\ UNCHANGED remembered
                 ELSE SendError(ws, Closed(SubId(raw), N))
            /\ UNCHANGED calls
  /\ UNCHANGED <<vars, sockets, config, inbox, quiet, resetAt, ops>>

ReqHandled(call, result) ==
  /\ call.stage = "req"
  /\ calls' = calls \ {call}
  /\ SendEvents(WsOf(call), SubId(RawOf(call)), result, call.n)
  /\ UNCHANGED <<vars, sockets, subscriptions, config, received, remembered, inbox, history>>

ReceiveClose(ws, raw) ==
  /\ Record(ws, raw)
  /\ Type(raw) = "CLOSE"
  /\ subscriptions' = Without({<<ws, SubId(raw)>>})
  /\ quiet' = quiet \cup {N}
  /\ UNCHANGED <<vars, sockets, config, remembered, calls, queue, inbox, resetAt, ops>>

-----------------------------------------------------------------------------
(***************************************************************************)
(* COUNT and AUTH, and handlers that throw.                                *)
(***************************************************************************)

ReceiveCount(ws, raw) ==
  /\ Record(ws, raw)
  /\ Type(raw) = "COUNT"
  /\ IF "count" \in handlers
       THEN /\ calls' = calls \cup {[n |-> N, stage |-> "count"]}
            /\ UNCHANGED <<queue, remembered>>
       ELSE /\ IF Compile(FiltersOf(raw))
                 THEN /\ SendMessage(ws, CountMessage(SubId(raw), Count(Compiled(FiltersOf(raw))), N))
                      /\ UNCHANGED remembered
                 ELSE SendError(ws, Notice(N))
            /\ UNCHANGED calls
  /\ UNCHANGED <<vars, sockets, subscriptions, config, inbox, quiet, resetAt, ops>>

\* The count a handler gives is written 0.
CountHandled(call) ==
  /\ call.stage = "count"
  /\ calls' = calls \ {call}
  /\ SendMessage(WsOf(call), CountMessage(SubId(RawOf(call)), 0, call.n))
  /\ UNCHANGED <<vars, sockets, subscriptions, config, received, remembered, inbox, history>>

\* #handleAuth awaits handleAuthResponse, which finds no challenge.
ReceiveAuth(ws, raw) ==
  /\ Record(ws, raw)
  /\ Type(raw) = "AUTH"
  /\ calls' = calls \cup {[n |-> N, stage |-> "auth"]}
  /\ UNCHANGED <<vars, sockets, subscriptions, config, remembered, queue, inbox, quiet, resetAt, ops>>

AuthHandled(call) ==
  /\ call.stage = "auth"
  /\ calls' = calls \ {call}
  /\ SendMessage(WsOf(call), Ok(EventOf(RawOf(call)), FALSE, call.n))
  /\ remembered' = remembered \cup {call.n}
  /\ UNCHANGED <<vars, sockets, subscriptions, config, received, inbox, history>>

Failure(call) ==
  CASE call.stage = "event" -> Ok(EventOf(RawOf(call)), FALSE, call.n)
    [] call.stage = "req" -> Closed(SubId(RawOf(call)), call.n)
    [] call.stage = "count" -> Notice(call.n)

\* The catch of #handleEvent, #handleReq and #handleCount. The subscription of a REQ
\* stays.
HandlerThrows(call) ==
  /\ call.stage \in {"event", "req", "count"}
  /\ calls' = calls \ {call}
  /\ SendError(WsOf(call), Failure(call))
  /\ UNCHANGED <<vars, sockets, subscriptions, config, received, inbox, history>>

-----------------------------------------------------------------------------
(***************************************************************************)
(* The test's calls, and the end of connections.                           *)
(***************************************************************************)

TestCalls(op) ==
  /\ op \in Ops
  /\ ops < MaxOps
  /\ ops' = ops + 1
  /\ resetAt' = IF op = "reset" THEN Len(sent) ELSE resetAt
  /\ UNCHANGED <<sent, quiet, calls, inbox>>

CloseSocket(ws) ==
  /\ TestCalls("close")
  /\ sockets[ws] = "OPEN"
  /\ sockets' = [sockets EXCEPT ![ws] = "CLOSING"]
  /\ UNCHANGED <<vars, subscriptions, config, received, remembered, queue>>

\* The microtask of close(), with unregisterConnection: onConnectionClosed.
FinishClose(ws) ==
  /\ sockets[ws] = "CLOSING"
  /\ Leave({ws})
  /\ UNCHANGED <<vars, config, received, remembered, calls, queue, inbox, history>>

\* onREQ, onEVENT, onCOUNT and setVerifier
SetHandler(handler) ==
  /\ TestCalls("handler")
  /\ handlers' = handlers \cup {handler}
  /\ UNCHANGED <<vars, sockets, subscriptions, info, archive, received, remembered, queue>>

\* setInfo replaces the limitation as a whole.
SetInfo(limitation) ==
  /\ TestCalls("info")
  /\ info' = limitation
  /\ UNCHANGED <<vars, sockets, subscriptions, handlers, archive, received, remembered, queue>>

RelayStore(e) ==
  /\ TestCalls("store")
  /\ Store(e)
  /\ UNCHANGED <<sockets, subscriptions, config, received, remembered, queue>>

\* An exception of matchFilters goes to the test.
Broadcast(e) ==
  /\ TestCalls("broadcast")
  /\ IF BroadcastThrows(e) THEN UNCHANGED queue
     ELSE \E tasks \in Broadcasts(e) : queue' = queue \o tasks
  /\ UNCHANGED <<vars, sockets, subscriptions, config, received, remembered>>

\* sendNotice, and sendRaw: to each connection of the registry.
SendNotice ==
  /\ TestCalls("notice")
  /\ \E order \in SetToSeqs({ws \in Sockets : sockets[ws] # "CLOSED"}) :
       queue' = queue \o [i \in DOMAIN order |-> [ws |-> order[i], message |-> Notice(0)]]
  /\ UNCHANGED <<vars, sockets, subscriptions, config, received, remembered>>

Disconnect ==
  /\ TestCalls("disconnect")
  /\ Leave({ws \in Sockets : sockets[ws] = "OPEN"})
  /\ UNCHANGED <<vars, config, received, remembered, queue>>

RelaySnapshot ==
  /\ TestCalls("snapshot")
  /\ Snapshot
  /\ archive' = [received |-> received, info |-> info]
  /\ UNCHANGED <<sockets, subscriptions, handlers, info, received, remembered, queue>>

RelayRestore ==
  /\ TestCalls("restore")
  /\ RestoreSnapshot
  /\ received' = archive.received
  /\ info' = archive.info
  /\ UNCHANGED <<sockets, subscriptions, handlers, archive, remembered, queue>>

\* (mutant) The subscriptions stay.
SubscriptionsStay == subscriptions

NoSubscriptions == None

\* The messages on their way and the calls that await go on.
RelayReset ==
  /\ TestCalls("reset")
  /\ Reset
  /\ received' = <<>>
  /\ remembered' = {}
  /\ subscriptions' = NoSubscriptions
  /\ handlers' = {}
  /\ info' = None
  /\ UNCHANGED <<sockets, archive, queue>>

-----------------------------------------------------------------------------

Receive(ws, raw) ==
  \/ RefuseMessage(ws, raw) \/ DropConnection(ws, raw) \/ SimulateError(ws, raw)
  \/ ReceiveEvent(ws, raw) \/ ReceiveReq(ws, raw) \/ ReceiveClose(ws, raw)
  \/ ReceiveCount(ws, raw) \/ ReceiveAuth(ws, raw) \/ RefuseType(ws, raw)

Settle(call) ==
  \/ SignatureValid(call) \/ SignatureInvalid(call) \/ VerifierRejects(call)
  \/ \E accepted \in BOOLEAN : EventHandled(call, accepted)
  \/ \E result \in HandlerResults : ReqHandled(call, result)
  \/ CountHandled(call) \/ AuthHandled(call) \/ HandlerThrows(call)

Test ==
  \/ \E handler \in {Verifier, "event", "req", "count"} : SetHandler(handler)
  \/ \E limitation \in Limitations : SetInfo(limitation)
  \/ \E e \in Events : RelayStore(e) \/ Broadcast(e)
  \/ SendNotice \/ Disconnect \/ RelaySnapshot \/ RelayRestore \/ RelayReset

RelayNext ==
  \/ \E ws \in Sockets : \E raw \in RawMessages[ws] : Receive(ws, raw)
  \/ \E ws \in Sockets : CloseSocket(ws) \/ FinishClose(ws)
  \/ \E call \in calls : Settle(call)
  \/ Deliver
  \/ Test

RelaySpec == RelayInit /\ [][RelayNext]_relayVars

-----------------------------------------------------------------------------
(***************************************************************************)
(* Properties.                                                             *)
(***************************************************************************)

MessageTypes == {"NOTICE", "OK", "CLOSED", "EVENT", "EOSE", "COUNT"}

RelayTypeOK ==
  /\ TypeOK
  /\ sockets \in [Sockets -> {"OPEN", "CLOSING", "CLOSED"}]
  /\ \A key \in DOMAIN subscriptions :
       key[1] \in Sockets /\ \A i \in DOMAIN subscriptions[key] : IsFilterShape(subscriptions[key][i])
  /\ handlers \subseteq {Verifier, "event", "req", "count"}
  /\ info \in Limitations \cup {None}
  /\ ToSet(received) \cup remembered \cup quiet \subseteq DOMAIN sent
  /\ calls \subseteq Call /\ \A call \in calls : call.n \in DOMAIN sent
  /\ \A i \in DOMAIN queue : queue[i].ws \in Sockets /\ queue[i].message.type \in MessageTypes
  /\ \A ws \in Sockets : \A i \in DOMAIN inbox[ws] : inbox[ws][i].type \in MessageTypes
  /\ Len(sent) <= MaxMessages /\ ops <= MaxOps

\* Where the messages are that the client of ws has been given or is about to be.
Places(ws) ==
  ({"inbox"} \X DOMAIN inbox[ws]) \cup ({"queue"} \X {i \in DOMAIN queue : queue[i].ws = ws})

MessageAt(ws, place) ==
  IF place[1] = "inbox" THEN inbox[ws][place[2]] ELSE queue[place[2]].message

Answers(n) ==
  LET ws == sent[n].ws
  IN {place \in Places(ws) : MessageAt(ws, place).n = n /\ MessageAt(ws, place).type # "EVENT"}

\* Whatever the verifier and the handlers do, with reset, restore and new handlers
\* in between, a message of a client that stays is answered once (OK, EOSE, CLOSED,
\* COUNT or NOTICE), or is still being handled, or is one of those that get none.
AnsweredOnce ==
  \A n \in DOMAIN sent :
    sockets[sent[n].ws] = "OPEN" =>
      Cardinality(Answers(n)) + Cardinality({call \in calls : call.n = n})
        + (IF n \in quiet THEN 1 ELSE 0) = 1

\* A socket that has gone leaves no subscription behind, although handlers awaited
\* for it end later: registering comes before the await, and leaving removes all.
SubscriptionsAreConnected ==
  \A key \in DOMAIN subscriptions : sockets[key[1]] # "CLOSED"

\* Only what meets every limit of the relay information in force is recorded and
\* handled; the rest changes neither the store nor the subscriptions.
OnlyAcceptableIsHandled ==
  [][\A ws \in Sockets : \A raw \in RawMessages[ws] :
       sent' = Append(sent, [ws |-> ws, raw |-> raw]) =>
         IF Acceptable(raw, info) THEN received' = Append(received, N)
         ELSE UNCHANGED <<events, deletedIds, subscriptions, received>>]_relayVars

\* The messages that asked for a subscription or ended it since the last reset;
\* one that was answered by a NOTICE did neither.
Asked(ws, subId) ==
  {n \in (resetAt + 1)..Len(sent) :
     /\ sent[n].ws = ws
     /\ Type(sent[n].raw) \in {"REQ", "CLOSE"}
     /\ Len(sent[n].raw.items) >= 2 /\ IsString(sent[n].raw.items[2])
     /\ SubId(sent[n].raw) = subId
     /\ \A place \in Answers(n) : MessageAt(ws, place).type # "NOTICE"}

\* A broadcast goes to a client only for a REQ it has made since the last reset,
\* with the filters of the latest one of its id, and not after its CLOSE.
BroadcastsAreWanted ==
  [][\A i \in (Len(queue) + 1)..Len(queue') :
       LET ws == queue'[i].ws  message == queue'[i].message
           last == Max(Asked(ws, message.subId))
       IN message.type = "EVENT" /\ message.n = 0 /\ sockets[ws] = "OPEN" =>
            /\ Asked(ws, message.subId) # {}
            /\ Type(sent[last].raw) = "REQ"
            /\ MatchesOne(message.event, FiltersOf(sent[last].raw))]_relayVars

\* There is no gap between the stored events a REQ finds and the broadcasts after
\* it: each published event that is still stored and matches an open subscription
\* has been sent to it, one way or the other. (Without a REQ handler, without limit
\* and with searches for whole words only, for the indexes know no parts of words, and
\* while nothing came from a snapshot, whose events are not broadcast.)
LiveEventsAreNotMissed ==
  "req" \notin handlers /\ saved.nextOrder = 0 =>
    \A key \in DOMAIN subscriptions, o \in Stored(events) :
      /\ sockets[key[1]] = "OPEN"
      /\ \A i \in DOMAIN subscriptions[key] :
           LET f == subscriptions[key][i].filter IN f.limit = {} /\ WholeWords(f)
      /\ MatchesOne(o.event, subscriptions[key])
      /\ o # TestObject(o.event)
      => \E place \in Places(key[1]) :
           LET message == MessageAt(key[1], place)
           IN message.type = "EVENT" /\ message.subId = key[2] /\ message.event = o.event

\* The same if every filter compiles. With one that does not, its own subscription
\* makes broadcast throw for everybody.
SoundFiltersMissNothing ==
  (\A n \in DOMAIN sent : Compile(FiltersOf(sent[n].raw))) => LiveEventsAreNotMissed

=============================================================================
