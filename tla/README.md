# A TLA+ model of 繋ぎ屋 (tsunagiya)

tsunagiya replaces `globalThis.WebSocket` by a mock and plays one or more Nostr
relays behind it, so that a test can run an unchanged Nostr client. It is a
single-threaded TypeScript library, but its behaviour is concurrent all the
same: microtasks, timers, awaited callbacks and, above all, the client's own
event handlers, which run in the middle of the library's calls and call back
into it. The modules here model that, TLC checks them on small instances, and
TLAPS proves the main results about the sockets, AUTH, the store and its queries,
the relay's answers and broadcasts, the scheduler, the pool and the test streams for any
number of them.

Source paths below are relative to `src/` of the repository, so
`src/websocket.ts` is the file `src/src/websocket.ts` of `PROJECT.json`.

## 1. Inventory

### Components

| component | source | state | operations |
|---|---|---|---|
| Mock sockets and the connection registry | `src/websocket.ts`, `src/relay/connection_runtime.ts` | `readyState`, `#openTimer`, `#connectionTimer` per socket; `#connections`, `#refused`, `#disconnectCooldownUntil` per relay | constructor, `close`, `_forceClose`, `_receiveMessage`, open and timeout timers; `refuse`, `disconnect`, `disconnectAfter`, random and transient disconnection, `reset` |
| NIP-42 authentication | `src/relay/auth_service.ts`, `src/relay/connection_runtime.ts`, `src/relay.ts` (`#handleAuth`, `requireAuth`, ...), `src/auth.ts` | `#challenges`, `#authenticated`, `#validator`, `#verifier` | challenge on open, on demand and by `requireAuth`; gate before EVENT, REQ, COUNT; AUTH response with awaited verifier and validator; `removeConnection`, `reset` |
| Event store: contents and indexes | `src/relay/event_store.ts`, `src/event_kind.ts` | `#events`, `#deletedIds`, six indexes, order numbers | `store`, `publish`, replacement, deletion (NIP-09), `clearOlderThan`, `snapshot`, `restore`, `reset` |
| Event queries and filters | `src/relay/event_store.ts` (`query`, `count`), `src/relay/filter_compiler.ts`, `src/filter.ts`, `src/internal/search.ts` | none of its own | candidate narrowing, compiled matching, top-k with limit |
| Delivery scheduler | `src/relay/delivery_scheduler.ts` | `#entries`, `#timer`, `#nextDueAt`, `#nextSequence` | `deliver`, `deliverWithJitter`, `schedule`, `cancelSocket`, `clear`, `#flushDueEntries` |
| Relay message handling and subscriptions | `src/relay.ts`, `src/relay/router.ts`, `src/relay/subscription_registry.ts`, `src/relay/connection_runtime.ts` | `#subscriptions`, handlers, logs | EVENT, REQ, CLOSE, COUNT, `broadcast`, `sendClosed`, `reset` |
| Message codec and validation | `src/relay/message_codec.ts`, `src/internal/validation.ts` | none | parse, validate, limits |
| Pool and platform hooks | `src/pool.ts`, `src/platform/*.ts`, `src/internal/url.ts` | registry of relays, the installation of each pool, the resolver of `MockWebSocket`, two globals | `relay`, `install` with its rollback, `uninstall`, `connections`, NIP-11 `fetch` |
| Relay inspector and snapshots | `src/relay/relay_inspector.ts`, `src/internal/clone.ts`, `src/testing/snapshot.ts` | logs of messages | record, read, clear; deep copies |
| Testing streams and waiting | `src/testing/stream.ts`, `src/testing/wait.ts` | a timer, an index, a stop flag | start, stop, wait for a condition |
| Testing builders and assertions | `src/testing/event_builder.ts`, `filter_builder.ts`, `assertions.ts` | none | construct data, compare, report |
| Logger, clock and types | `src/logger.ts`, `src/internal/runtime.ts`, `src/types/*` | none | output, declarations |
| Examples | `examples/*/client.ts` (beside the package) | none of the mock's | clients of other libraries |

### Interactions

- A socket *calls* its relay (`_registerConnection`, `_handleOpen`,
  `_handleMessage`, `_unregisterConnection`) and the relay *calls* the socket
  (`_receiveMessage`, `_forceClose`). Both directions run synchronously, so a
  client handler started by either runs inside the other's call.
- The connection runtime sits between `MockRelay` and its sockets: it owns the
  registry, asks `AuthService` whether a connection has authenticated, hands
  replies to the `DeliveryScheduler`, and on unregistering tells the scheduler,
  the auth service and the subscriptions.
- The scheduler hands a message to `_receiveMessage` from a microtask (delay 0)
  or from the one timer all its entries share.
- `MockRelay` awaits user code (event verifier, AUTH verifier and validator,
  custom handlers) and then goes on with state that may have changed.
- `MockPool` puts the hooks in place and resolves a URL to a relay.

### What is hard

| behaviour | where it bites | what would be wrong |
|---|---|---|
| handlers run inside library calls | `src/websocket.ts:72-99`, `:205-216`, `delivery_scheduler.ts:194` | a second close path for the same socket; messages to a closed client |
| order of microtasks | `connection_runtime.ts:114`, `:214` | an unregistered socket opens; a challenge is sent twice or never |
| timers racing each other and `close()` | `src/websocket.ts:94`, `:126` | a timer that closes a socket already open |
| state read before an `await` | `auth_service.ts:116` to `:155` | a used, replaced or cleared challenge is accepted |
| loops over a live or copied registry while handlers change it | `connection_runtime.ts:130`, `:203` | a socket skipped, or closed twice |
| one timer for a whole list | `delivery_scheduler.ts:158`, `:202` | entries left behind for ever |
| indexes beside an array | `event_store.ts:298`, `:335`, `:428`, `:642` | two versions of a replaceable event side by side; a query that misses or doubles an event |
| one step of several failing | `relay.ts:595`, `subscription_registry.ts:58`, `pool_hooks.ts:69` | a REQ answered CLOSED that stays subscribed; a pool half installed |
| code of others in between | `global_hooks.ts:47`, `stream.ts:49` | another library's wrapping lost or left; a stopped stream that goes on |

`PROJECT.json` lists each hazard at its line with the properties that cover it,
or says why none does.

### What makes each component correct

- *Sockets*: forward through the WebSocket states only; registered exactly while
  reachable; timers gone once connected or closed; every CONNECTING or CLOSING
  socket settles; a second close event only after a failed connection.
- *Authentication*: the client knows the challenge the relay waits for; what an
  open connection authenticates with is what is outstanding, unless `requireAuth` or
  a reset has overtaken it; every open connection that must authenticate is challenged.
- *Store*: indexes and array agree; one version for each address; what was deleted
  stays out; the whole is the set the NIPs describe.
- *Queries*: narrowing and top-k return what plain filtering and sorting would, and
  COUNT counts what REQ sends.
- *Scheduler*: the timer covers the earliest entry; nothing is lost or doubled;
  equal delays keep the order; nothing is forgotten.
- *Requests*: each message gets one answer; broadcasts reach the subscriptions that
  are open, and no others; subscriptions do not outlive their connections; only what
  the codec accepts is handled.
- *Hooks*: one pool at most is installed; its relays are the ones reached; after
  `uninstall` nothing of it is left.
- *Streams*: events in order and no more than there are; a stopped stream is silent;
  a wait settles and leaves no timer.

## 2. Plan

In this order, the behaviour that everything else rests on first; the last point says
what is left.

1. `SocketLifecycle` (abstract), `MockWebSocket`: sockets, registry, event loop.
2. `RelayAuth`, on top of `MockWebSocket` (it EXTENDS it and conjoins each socket
   step with its effect on AUTH).
3. `StoreContents` (abstract) and `EventStore`, which implements it.
4. `DeliveryScheduler`.
5. `EventQueries`, on top of `EventStore`: compiled filters and `queryMany` against
   "filter, sort, take", in every state the store reaches.
6. `MessageCodec`, and `RelayRequests`, which composes store, queries and codec with
   subscriptions, handlers and connections.
7. `MockPool` and `TestingStreams`.
8. Proofs: `MockWebSocket_proofs`, `MockPool_proofs`, `EventStore_proofs`,
   `TestingStreams_proofs`, `DeliveryScheduler_proofs`, `RelayAuth_proofs`,
   `RelayRequests_proofs`.
9. Left: proofs of the type invariants of the pool, the streams and the requests. Every safety
   property of the passing runs has a theorem.

The modules with proofs, and those they extend, are free of RECURSIVE operators,
have named assumptions on their constants and one action per operation.

## 3. Modules and their correspondence to the code

### Event loop

`MockWebSocket` models JavaScript's run-to-completion with three variables.
`microtasks` is the `queueMicrotask` queue, run in FIFO order when no call is in
progress. The timers fire only when that queue is empty. `stack` holds the
library calls that are suspended *because a client handler is running inside
them*: after `this.onerror?.(event)` in `#fireError` the handler may construct,
close and send, and when it returns, the frame on top of `stack` says how the
library goes on (`Return...` actions). A call whose handler is its last act
leaves no frame, since nothing of it remains. So client operations are enabled
in every state, which is just what re-entrancy means.

### `SocketLifecycle`: what a socket promises

Two variables, the phase of each connection and the set the relay can reach.
Connections begin, open (only if reachable), start closing, and end, becoming
unreachable in the same step. `LifecycleSpec` adds that CONNECTING and CLOSING
do not last.

### `MockWebSocket`: sockets and registry

| TLA+ | code |
|---|---|
| `ConstructRejected`, `RejectTask`, `ReturnToFireClose` | constructor without a relay or with a refusing one, and its microtask: `#fireError`, then `#fireClose` |
| `ConstructAccepted`, `ConstructorTasks` | constructor, `_registerConnection` with the cooldown, timeout timer, `#scheduleOpen` |
| `DoOpen` (`DoOpenTask`, `OpenTimerFires`), `ReturnToDoOpen` | `doOpen`, around its handler |
| `ConnectionTimerFires` | the callback of `connectionTimeout` |
| `Close`, `FinishCloseTask` | `close()` and its microtask |
| `ForceClose`, `Disconnect`, `ReturnToDisconnect` | `_forceClose`; the loop of `disconnect()` over its copy of the registry |
| `RandomDisconnect`, `TransientDisconnect`, `CooldownExpires` | `#shouldRandomDisconnect`, `#shouldTransientDisconnect`, the clock |
| `Refuse`, `Reset` | `refuse()`, the connection part of `reset()` |
| `HandlerThrows` | an exception of a handler, which ends the suspended call too |

### `RelayAuth`: NIP-42

It EXTENDS `MockWebSocket`: each socket step is taken with its effect on the
AUTH state (`KeepAuth`, `ForgetOnly`). `Issue` is `sendChallenge` followed by
`_receiveMessage`, which drops the message unless the socket is OPEN. `seen`, a
history variable, records which challenges a client was given.
`ReturnToHandleOpen`, `DeferChallengeTask` and `EnsureChallengeTask` are the two
microtasks of `handleOpen`. `SendGated` and `ReturnToGate` are the gate, with the
AUTH handler running between challenge and reply. `Authenticate`,
`SignatureVerified`, `Validated` and `AuthRejected` are `handleAuthResponse`, cut at
its awaits; `since`, history too, records in each call the reconfigurations it has
seen. `RequireAuth` and `ReturnToIssueAll` are the loop of
`issueAuthChallenges` over the live registry.

### `StoreContents` and `EventStore`

`StoreContents` is the set of events kept and the ids deleted, with rules that
look at the whole set. `EventStore` has the array (positions to objects), the
indexes and the order numbers, and keeps object identity: `publish()` brings a new
object for each message, `store()` may bring an object the store already holds,
and `#unindexEvent` compares by identity. Every method is synchronous and calls
no user code, so each is one action, with the index maintenance inside it.

### `DeliveryScheduler`

The list, the timer with the due time it was armed for, the microtasks of the
immediate deliveries and `#flushDueEntries`, cut where a message or a close runs a
handler. In a handler the client may send, close, disconnect or reset before the
flush goes on with its local `dueEntries` (`due`). `Early` lets `setTimeout` fire
before `Date.now()` has reached the due time. The sockets are reduced to open,
closing and closed. `disturbed`, a history variable, records that a flush was
shuffled or left by an exception, which some properties have to except. The profile
counters are left out.

### `EventQueries`

It EXTENDS `EventStore`: the store's actions stay, and the queries are operators on
its state. `Matches` is the compiled predicate of `compileFilter`; `Selections` are the
indexes a filter can use, and `Narrowed` is what `#collectCandidateEvents` leaves after
intersecting them until few enough remain; `Query`, `QueryMany` and `Count` are the methods with
their shortcuts. Texts are model values: `TokensOf` gives the words of a
text and `Includes` its parts, since the token index knows the former and the
predicate the latter. `Answer` is the reference: filter, sort, take. The code's
constants of the early stop (64 and 4) are parameters, so that small stores reach it.

A candidate is a position in the array (the code gives each event an order number, and
the array is in their order), and a sort is `Arranged`: the elements of a finite set by the
number of those before them. The loops (keeping the best so far, narrowing, putting
results together) are recursive functions on their number of turns. Both forms say
the same as the code and can be proved about.

### `MessageCodec` and `RelayRequests`

`MessageCodec` is `parseClientMessage` as an operator from a raw message and the
relay information to a verdict: the checks in the code's order, the first that
fails decides. A raw message is a record of what the checks look at.

`RelayRequests` EXTENDS both. `Receive` is `handleMessage` up to the first await;
`calls` holds the EVENT, REQ, COUNT and AUTH calls that wait for a verifier or a
handler, and `Settle` goes on with one of them; `queue` holds the microtasks that deliver
messages, and `inbox` what each client has been given. `HandlerResults` are what a REQ handler may
return; each may throw instead. The test may change handlers and information, store,
broadcast, send notices, disconnect, take and restore snapshots, and reset.
A message to a client carries the number of the message it answers, so `Answers` can be
counted; the histories record which messages get no answer, and when the relay was reset. Time is left to `DeliveryScheduler`
and the AUTH gate to `RelayAuth`.

### `MockPool`

The two globals (`WebSocket`, `fetch`) with what they hold and of which kind they
are: a plain value, an accessor, absent, or one that cannot be replaced. A value is
a sequence of tokens, one for each library that has wrapped it. `Install` and
`InstallFails` are `install()` with its rollback, `Uninstall` puts the snapshot
back; `Wrap` and `Unwrap` are another library's doing, before or after. `Connect` and
`GetRelay` go through `normalizeUrl`; `InstalledPoolAnswers` evaluates the fetch
handler on the forms a request can have.

### `TestingStreams`

Streams of lists and of generators, with the timer of each, and one `waitFor`. An
`eventGenerator` is code of the test: between `Generate` and `NextOfGenerator` or
`GeneratorThrows` it may stop streams and reset the relay. Which timer fires
next is open.

### MC modules

Each `MC...` module gives one module its small instance: the symmetry of model values
(used in safety runs only), the events, filters, raw messages and request forms.

Each module has a type invariant. Those of `MockWebSocket` and `EventStore` are proved
(`TypeCorrect`, `StoreIsTyped`); `AuthTypeOK` is part of the invariant that
the proofs about `RelayAuth` rest on, and `RelayShape`, which has the place of `RelayTypeOK`
in the proofs about `RelayRequests`, of theirs; the others were model-checked with the same
bounds and stay as documentation of the state.

## 4. Runs

| run | what it asks | what it shows | distinct states |
|---|---|---|---|
| `Socket` | Do registry, timers and `readyState` agree whatever the order, re-entrancy and exceptions? | They do, a second close event takes a failed connection, and each step is a step of `SocketLifecycle`. | 14.7 thousand |
| `Auth` | Are challenges known and answerable, and is what an awaited verifier or validator accepts the challenge outstanding, with resets and verifiers set at any moment, two responses at once and handlers that throw? | Yes; only a `reset()` after the response came overtakes it (finding 2). | 1.72 million |
| `AuthSettles` | Do CONNECTING and CLOSING end, does `requireAuth` pass over an OPEN socket, its live loop included, and what is accepted when it replaces challenges? | They end, the full `LifecycleSpec` holds, none is passed over, and nothing but `requireAuth` replaces a challenge (observation 13). | 325 thousand |
| `AuthRequireWhileConnecting` | Is each outstanding challenge known if `requireAuth` may come at any time? | No: finding 1. | |
| `AuthAcceptedAfterReset` | Is what is accepted outstanding if `reset()` may come during a verification? | No: finding 2. | |
| `Store` | Do array, indexes and Maps agree, is one version kept, do deleted events stay out? | Yes, and the store is the set of `StoreContents`. | 1.14 million |
| `Queries` | Does every filter get the reference answer in every state of the store? | Yes, but for a search by a part of a word (observation 7); COUNT counts what REQ sends. | 45 thousand |
| `Delivery` | Does the timer cover the list, is each delivery handed over once, in order and at last, with closes, resets, shuffling and exceptions inside a flush? | Yes; after an exception the entries left may wait or be lost, as the code has it. | 682 thousand |
| `Requests` | Is each message answered once, are broadcasts wanted and complete, is only the acceptable handled, with awaited handlers, lost connections and reconfigurations? | Yes; a rejected verifier is excepted (observation 8). | 3.66 million |
| `RequestsBrokenFilter` | Does every subscriber get the events of its filters? | Not beside a filter that does not compile: finding 3. | |
| `Pool` | Is one pool at most in place, reached, and gone afterwards, over globals of any kind and beside another library? | Yes, but for globals that cannot be put back (observation 9). | 43 thousand |
| `Streams` | Do streams publish in order, end, and fall silent when stopped; does a wait settle? | Yes. | 98 thousand |

### Bounds

- *Sockets*: three in `Socket`, so that one can be in a suspended `disconnect`
  loop, another in a handler, and a third act in between; two elsewhere, since
  AUTH state, deliveries and subscriptions of different sockets meet only in the
  registry, in the list and in a broadcast. One in `Auth`, whose state is kept for each socket by
  itself: this leaves room for all options of the socket, two responses, two replies
  and three reconfigurations at once. `AuthSettles` checks the same property of
  accepted responses with two sockets, and the theorems hold for any number. `Sockets` bounds the queue and the stack
  too; a socket object is never used again, as in the API.
- *`ConnectDelays`*: both values where possible. `relay.options` is the test's own
  object and read by every constructor, so sockets that open by timer and sockets
  that open by microtask can meet at one relay.
- *`MaxReplies`, `MaxCalls`, `MaxReconfigs`*: replies under way to a socket, AUTH
  responses being checked, reconfigurations. In `Auth` there are two responses, so that
  one uses up the challenge of the other, and three reconfigurations, so that a reset
  comes before a response, while it waits for the verifier and while it waits for the
  validator, with a verifier set again in between. `HasValidator` says whether
  `requireAuth` was called before the clients came; both are checked. In `AuthSettles`
  one `requireAuth` meets every point of two connections' lives; in
  `AuthAcceptedAfterReset` two reconfigurations are needed (`setAuthVerifier`, then `reset`).
- *Events*: three versions of one addressable event, two in the same second; a
  regular one; a deletion by address older than two of the versions, one by id
  which also reaches that deletion, one by a stranger; an ephemeral one. `MaxOrder`
  (four objects between resets) allows stored, replaced, deleted and stored again;
  `MaxSnapshot` limits what a snapshot holds, not when it is restored.
- *Filters*: by id, author, kind, tag, time and search, alone and together, with and
  without a limit, limits of zero and below the number of matches, several in one
  REQ; one that matches nothing and one that does not compile. `StopFloor` and `StopFactor` are 1 in
  `Queries`, so that the early stop is met with four objects, and the code's own 64
  and 4 in `Requests`, which is not about it.
- *`MaxMessages`, `MaxOps`*: two messages under way beside two operations of the
  test: enough for an operation between a call's await and its end, while another
  message is in the same place. `RequestsBrokenFilter` needs three messages (two REQs
  and an EVENT).
- *`MaxClock`, `MaxSent`, `Delays`*: delays 0, 1 and 2 around `Early` = 1, so that
  the timer is early, on time and late, with entries before, at and after it; three
  deliveries, so that one is handed over, one due and one not.
- *Pools*: two, with three installs, two wrappings of another library and every kind of global: each
  order of install, wrap, uninstall and unwrap occurs.
- *Streams*: a list, a counted and an endless generator, of two events each; one reset.

### Deadlock

Deadlock is checked for sockets, AUTH, store, queries and pool (a test may always
call something). `Delivery`, `Requests`, `RequestsBrokenFilter` and `Streams` turn it
off: once their bounds are reached and everything is closed or ended, nothing is left
to happen.

### Fairness

Weak fairness of microtasks, of timers that may fire, and of the return of
handlers: the host's event loop runs every queued callback, and a handler is
finite code. In `DeliveryScheduler` time goes on as well; in `TestingStreams` a
generator returns or throws. Nothing is assumed of the
client, of the test, of awaited verifiers and validators, or of the cooldown.

Exceptions: `AuthSettles` has `HandlersThrow = FALSE`, since a socket whose `onerror`
throws stays CONNECTING. `NothingIsForgotten` holds until an exception ends a flush: the
rest of its entries are lost, and those in the list wait for the next `enqueue`.
`StreamsEnd` excepts streams that an exception has ended. That is what the code does.

## 5. Proofs

`QueueFacts` has the facts about sequences that both queues need: what is in a
sequence after taking its head, appending, or pushing.

`MockWebSocket_proofs` proves, for any finite set of sockets and any options
(`SocketAssumption`), of `SafetySpec`:

- **`TypeCorrect`**: `[]TypeOK`. One case per action; the queue and the stack need
  the lemmas about sequences.
- **`RegistryIsCorrect`**: `[]RegistryMatchesState`.
- **`TimersAreCleared`**: `[]TimersOnlyWhileConnecting`.
- **`LifecycleIsImplemented`**: `ImplementsLifecycleSafety`, step by step: each action
  maps to `Begin`, `Open`, `StartClosing`, `GiveUp` or `End` of one socket, or to
  none. A socket that is closed a second time stutters.
- **`SecondCloseFollowsError`**: `[]SecondCloseNeedsError`.

The registry invariant is not inductive: whether an unregistered socket will
open depends on what is still queued. The strengthening `SocketInv` says, of each
socket:

- `NewIsUntouched`: nothing is queued for a socket not yet constructed;
- `FailingIsUnregistered`: a socket with a `reject` task or a suspended `fireClose`
  has no timer, is not registered and not OPEN, so that `#fireClose`, which does not
  unregister, is safe;
- `ClosingStaysClosing`: with a `finishClose` task it is CLOSING or CLOSED;
- `UnregisteredCannotOpen`: for a CONNECTING socket that is not registered, a
  `cooldownClose` is ahead of every `doOpen` in the queue, and is queued if the open
  timer is armed. This is the invariant that the order inside the constructor
  establishes (the mutant `OpenBeforeCooldownClose` breaks it).

The proof of a step splits into "left alone" (`Kept`), "closed" (`Closed`) and the
few sockets that do something else. `SocketInv` was model-checked before it was
proved.

`SecondCloseNeedsError` needs `CloseInv`, which keeps account of close events to come: a socket
that is not CLOSED has one ahead of it, a suspended `fireClose` is another, and each is there
once (`ClosesAreBudgeted`, `NothingTwice`); and a socket fails once (`FailsOnce`), since
whatever may make it fail is gone afterwards. So a second close event takes the frame that
only `#fireError` leaves.

`MockPool_proofs` proves, for any pools, kinds of globals, hosts and numbers of installs and
wrappings, **`HooksAreInStep`** (`HooksInv`: installation records, the module variable
and the resolver agree), **`FailedInstallIsUndone`**
and **`GlobalsAreGivenBack`**. The last one is not inductive: `CleanInv` adds what may be put
back later, namely what the snapshots of the pools hold and what the other library
found when no pool was installed. The lemmas `RestoreGivesValues` and `RestoreTyped` say what restoring a snapshot does to the globals.

**`FetchIsAnswered`** (`[]InstalledPoolAnswers`) rests on `FetchInv`, which says where the fetch
handler of a pool may be, in the globals and in snapshots, and on lemmas about the
handler itself (`InfoIsRecognised`, which relay a URL names). It assumes `AcceptNamedOnce`: no
list of headers names `accept` twice. An array may, and then the code reads the first
where `fetch` sends both (observation 10). `MCMockPool` evaluates the assumption.

`EventStore_proofs` proves, for any finite or infinite set of events and any bounds,
**`StoreIsTyped`**, **`IndexesAreRight`**, **`OneVersionIsKept`**,
**`LatestIsTheOneStored`**, **`DeletedEventsStayOut`** and **`ContentsAreImplemented`**.
The inductive invariant `StoreInv` has `Coherent` (array, indexes and Map agree, one
version each), `KeptOut` (deleted ids), and `SavedInv`: a snapshot, which may be restored
at any time, has the same properties. The lemmas are about arrays made from arrays
(one object appended, some removed, renumbered); the refinement then maps each
method on the array to `Add`, `Delete`, `Expire`, `Save`, `Load` or `Clear` of
`StoreContents` on its set of events.

The same module proves the queries, for any filters, words and stop sizes (`QueryAssumption`):
**`QueriesAreSound`**, **`QueriesAreExact`** and **`CountsAreRight`** (`[]QueryIsSound`,
`[]QueryIsExact`, `[]CountIsQueryLength`). The argument goes by what every way of answering
has in common:

- `Listed(S, R)` arranges a finite set by a strict total order; it is the only list with
  that order (`ListedInOrder`), so the code's sort, the reference `Answer` and the best-so-far
  list are compared with it.
- Inserting into the `n` best of a set gives the `n` best of the set with one more, so
  the walk of `Top` ends with the `n` best of all.
- A selection (`IsSelection`) is a part of the indexed objects that has every matching one,
  where searches are for whole words. Sorting selections by size, intersecting them and stopping
  at any point keep this (`NarrowedIsRight`): what is left out cannot match.
- Each candidate has a position of its own unless an object is stored twice.
- `queryMany` keeps the first of each id, so it has as many as there are ids, which is what
  COUNT counts.

The loops are recursive functions; that they exist and keep an invariant is proved by
induction, with the set of the numbers it holds for in place of a predicate
(`NatSetInduction`, `LoopExists`, `LoopKeeps`).

`TestingStreams_proofs` proves, for any streams and lengths, **`StreamsPublishInOrder`**,
**`StoppedStreamsAreSilent`** and **`WaitLeavesNoTimer`**. `StreamInv` says what an armed
timer or a running generator stands for: a stream that was started, has neither ended nor been
broken off, and whose log is as long as its index.

`DeliveryScheduler_proofs` proves, for any sockets, delays and bounds, of `SafetySpec`:
**`TimerCoversTheList`** (`[]TimerCoversEntries`), **`HandedOverOnce`** (`[]DeliveredOnce`),
**`MessagesAreKept`** (`[]NothingIsLost`) and **`EqualDelaysKeepOrder`**
(`[]SameDelayKeepsOrder`). The first needs only types and facts about the earliest of a
finite set. For the others `StepShapes` sorts the actions by what they do to the messages
under way. `OnceInv` then says that each number is in one place only (list, flush, queue or
handed over); `KeptInv` that a number noted as sent to an open socket is in some place. Order
is the hardest: `Dated` ties each entry to the delay it was sent with and bounds its due time by
the clock, so that of two entries of one delay the later is never due earlier, and `Sorted` carries
this order through the flush (which goes by rank in the list) to what is handed over.

`RelayAuth_proofs` proves, of `AuthSafetySpec` and for any sockets, options and bounds,
**`AcceptedAnswersOutstanding`** (`AcceptedUnlessOvertaken`): the challenge an OPEN connection
authenticates with, after verifier and validator, is the one outstanding, unless a `reset()` came
after the response or `requireAuth` has issued a newer one. `AuthInv` says what each queued task and
each suspended call stands for: a challenge, a deferred challenge or a gate that waits belongs to a
socket that has opened; a reply under way to a client that can answer it; a suspended loop of
`issueAuthChallenges` to a `requireAuth`; and a failing or closing socket has no timer, so no
timeout can forget the challenge of an OPEN one. `CallsInv` says of each response being checked
what the theorem says of it when it is accepted, as long as its client is OPEN and not authenticated.
It survives the steps of the sockets because one that has opened never opens again and keeps its
challenge while it is OPEN (`SocketsStay`); those of AUTH because only accepting uses a challenge up,
and one that is there is replaced only by `requireAuth`, with a number larger than any before
(`AuthStays`); and a reset because it is the last of the reconfigurations, after those the response
has seen (`HistoryGrows`).

Two more theorems, **`OutstandingChallengesAreKnown`** (`[]OutstandingIsKnown`) and
**`AuthRequiredCanBeAnswered`** (`[]AuthRequiredIsAnswerable`), assume `"requireAuth" \notin Ops`,
for finding 1 shows that they fail otherwise: `AuthInv` says that, without `requireAuth`,
challenges are issued to sockets that have opened, so that no AUTH message is dropped.

`RelayRequests_proofs` proves of `RelaySpec`, for any finite set of clients, any messages,
limits, handlers and calls of the test (`RelayAssumption`):

- **`RelayUsesTheStore`**: `RelaySpec => Spec`. A step of the relay is a step of the store or
  leaves it alone, so the theorems about store and queries hold of the relay.
- **`NoneIsLeftBehind`**: `[]SubscriptionsAreConnected`.
- **`EachIsAnsweredOnce`**: `[]AnsweredOnce`.
- **`BroadcastsAreAskedFor`**: `BroadcastsAreWanted`.
- **`OnlyAcceptableArrive`**: `OnlyAcceptableIsHandled`. Its core is `AcceptedIsAcceptable`: the
  codec's checks, of which the first to fail decides, accept just what `Acceptable` describes
  without an order.

`RelayInv` is inductive: the invariant of the store; `RelayShape`, which says that what is recorded
is what clients can have sent; the subscriptions connected; `AllAccounted`; and `AllWanted`. Each
step *speaks* of one message at most (`IsSpeech`): what it appends to the queue carries that
number, or 0 for broadcasts and notices of the test. `Fate` lists what may become of that
message (answered, awaiting, or quiet), and a delivery moves one message from the queue to its
client and disturbs nothing else (`Delivered`); so each message stays accounted for
(`Accounted`). `AllWanted` says that the latest message about a subscription that has
not been answered by a NOTICE (`AskedLast`) is the REQ with its filters. It needs `Accounted`: a NOTICE
cannot come later to a REQ that was handled, for it has its one answer or awaits it.

**`NoEventIsMissed`** (`[]SoundFiltersMissNothing`) is the theorem that composes them all. Its
invariant is `RelayInv` with `FromClients` (a subscription has the filters of some message) and
`NoneMissed`: each subscription of an open client has got, in its inbox or in the queue, every
stored event that it asks for. The property speaks of filters without limit whose searches are
for whole words, for observation 7 shows what happens to others. The argument: a REQ is answered
with everything (`ReqFindsAll`, from `QueryFindsAll` of the store's proofs: neither indexes nor
the early stop of the intersections lose a match, and `queryMany` drops only what has the same
id); a step that adds an event to the store broadcasts it to all that match, unless it is the
test's `store()` or a snapshot's (`StepsAnnounce`); no broadcast throws, since every filter in a
subscription comes from a message and compiles (`NoneBreaks`); and what was given or queued for a
client that stays is never lost (`GotIsKept`). Finding 3 shows that the hypothesis on
filters is needed.

Assumptions are those named in the modules (`SocketAssumption`, `AuthAssumption`,
`EventAssumption`, `SchedulerAssumption`, ...): types of the constants, and finite sets of sockets.

Only model-checked: the type invariants named in section 3, and liveness
(`ImplementsLifecycle`, `OpenIsIssuedChallenge`, `NothingIsForgotten`, `StreamsEnd`,
`WaitSettles`), since fairness and ENABLED are out of the prover's reach. What is proved of
`ImplementsLifecycle` is its safety part (`LifecycleIsImplemented`).

## 6. Findings

Shown by a run that finds the property violated:

1. `AuthRequireWhileConnecting`: `requireAuth` stores a challenge for a CONNECTING
   socket, whose AUTH message is dropped; since a challenge is "outstanding", none
   is sent when it opens (`src/relay/connection_runtime.ts:203`).
2. `AuthAcceptedAfterReset`: a verification under way at `reset()` authenticates
   its connection afterwards (`src/relay/auth_service.ts:155`).
3. `RequestsBrokenFilter`: a REQ whose filter does not compile is answered CLOSED but
   stays subscribed; from then on `broadcast` throws before it has sent anything, so
   other subscribers miss events that were stored (`src/relay/subscription_registry.ts:58`).

Met while modelling, and part of the modules' behaviour, without a run of their own:

4. An `onerror` handler that calls `close()` gives its client two close events
   (`src/websocket.ts:98`); `SecondCloseNeedsError` shows that it takes that.
5. The AUTH message of the gate is handed over inside `send()`
   (`src/relay/connection_runtime.ts:319`), while `docs/en/reference/architecture.md:478-480`
   says that responses are always asynchronous. `SendGated` models it, and
   `AuthRequiredIsAnswerable` holds in spite of it.
6. `close()` in `onopen` does not drop the challenge but only its message: the
   deferred `#ensureAuthChallenge` stores one for a socket already forgotten
   (`src/relay/connection_runtime.ts:215`; `tests/auth_test.ts:395`).
7. The README promises partial matches for `search` (`README.md:559`), but candidates come
   from an index of whole words (`src/relay/event_store.ts:642-675`): a search for a part of a
   word finds nothing. `QueryIsExact` and `SoundFiltersMissNothing` except such filters;
   `QueryIsSound` does not.
8. An event verifier that rejects leaves its EVENT without an answer
   (`src/relay/connection_runtime.ts:299`).
9. A global that is an accessor cannot be put back by the snapshot: `uninstall` throws,
   and the pool stays installed (`src/platform/global_hooks.ts:47`); in the rollback of `install`
   the mock stays in place.
10. Of several `Accept` entries in an array of headers only the first counts
   (`src/platform/nip11_fetch.ts`).
11. `store()` takes a kind 5 event whose own id was deleted
   (`src/relay/event_store.ts:127`; `publish()` does not). `DeletedStayOut` therefore
   speaks of the other kinds.
12. `reset()` in a message handler does not stop the flush that is running
   (`src/relay/delivery_scheduler.ts:140`), while `architecture.md:115` says pending
   timers are cleared.

13. A response to a challenge that `requireAuth` has replaced while verifier or validator
   were awaited is accepted, and uses up the new challenge
   (`src/relay/auth_service.ts:116` to `:155`). No document says otherwise;
   `AcceptedUnlessOvertaken` names the case.

## 7. Not modelled

- *Payloads*: close codes and reasons, URLs beyond their normal form, sub-protocols,
  message texts, tags that no rule looks at. No property is about them.
- *AUTH responses turned down* for their form (kind, tags, relay URL, age): they
  change nothing.
- *The inspector's* find, count and has methods and its clones only read the logs that
  `RelayRequests` keeps.
- *Builders, assertions, logger, types*: data construction, comparison, output;
  no state outlives one call, and nothing runs beside it.
- *Examples*: clients of other libraries that show the mock in use; no part of it.
- *Random numbers*: every outcome is possible in the model, whatever its probability.
