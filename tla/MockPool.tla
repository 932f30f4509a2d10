------------------------------ MODULE MockPool ------------------------------
(***************************************************************************)
(* The pools of a test run and the two globals they replace:               *)
(* src/src/pool.ts, src/src/platform/pool_hooks.ts, global_hooks.ts and    *)
(* nip11_fetch.ts, src/src/internal/url.ts, and the relay resolver of      *)
(* src/src/websocket.ts. Between the calls of the test another library     *)
(* (a second mocking tool, an instrumentation) may wrap a global itself    *)
(* and put back what it found.                                             *)
(*                                                                         *)
(* The value of a global is what a call passes through, from the outside   *)
(* in: <<"native">>, <<"mock">> for MockWebSocket, <<"other">> \o v for a  *)
(* wrapper of the other library around v, and <<p>> \o v for the fetch     *)
(* handler of pool p with v to fall back on. All calls are synchronous.    *)
(***************************************************************************)
EXTENDS Naturals, Sequences, FiniteSets, Functions

CONSTANTS
  Pools,        \* the pools of the test
  Hosts,        \* what URLs are told apart by, but for scheme and final slashes
  Requests,     \* what is passed to fetch: [url, headers, init], where headers are those
                \* of a Request object, and init is {} or the headers of the second argument
  Kinds,        \* the property descriptors of the globals: "data", "accessor", "none"
                \* (inherited) or "frozen" (not configurable)
  MaxInstalls,  \* bound: attempts to install
  MaxWraps,     \* bound: wrappings by the other library
  MaxSockets    \* bound: sockets

ASSUME PoolAssumption ==
  /\ Pools \cap {"native", "mock", "other", "nobody"} = {}
  /\ Kinds \subseteq {"data", "accessor", "none", "frozen"}
  /\ MaxInstalls \in Nat /\ MaxWraps \in Nat /\ MaxSockets \in Nat

\* What the arguments of fetch look like: init has at most one list of headers.
ASSUME RequestAssumption ==
  \A request \in Requests :
    /\ request.url \in [scheme : {"wss", "ws", "https", "http"}, host : Hosts, slashes : Nat]
    /\ \A headers \in request.init \cup {request.headers} :
         headers \in Seq([name : STRING, value : STRING])
    /\ \A first, second \in request.init : first = second

VARIABLES
  globals,       \* the properties WebSocket and fetch of globalThis
  resolver,      \* MockWebSocket.#resolveRelay: of a pool, or of nobody
  current,       \* currentInstallation: of a pool, or of nobody
  installation,  \* #installation of each pool, as its #snapshot; {} if null
  relays,        \* #relays of each pool: the URLs it has a relay for
  sockets,       \* how many sockets each relay has
  wrapped,       \* the other library: what it found, and how many installs there were
  wraps,         \* number of wrappings
  installs,      \* number of attempts to install
  misplaced,     \* history: the globals it has put back after a pool came or went
  stuck          \* history: a restore has thrown

hooks == <<globals, resolver, current, installation>>
other == <<wrapped, wraps, misplaced>>
poolVars == <<hooks, relays, sockets, other, installs, stuck>>

Nobody == "nobody"
Globals == {"WebSocket", "fetch"}
Property == [kind : {"data", "accessor", "none", "frozen"}, value : Seq(Pools \cup {"native", "mock", "other"})]

\* The URLs that relays are registered under.
RelayUrl == [scheme : {"wss", "ws"}, host : Hosts, slashes : {0}]
Relay == Pools \X RelayUrl

PoolInit ==
  /\ globals \in [Globals -> [kind : Kinds, value : {<<"native">>}]]
  /\ resolver = Nobody
  /\ current = Nobody
  /\ installation = [p \in Pools |-> {}]
  /\ relays = [p \in Pools |-> {}]
  /\ sockets = [r \in Relay |-> 0]
  /\ wrapped = [key \in Globals |-> <<>>]
  /\ wraps = 0
  /\ installs = 0
  /\ misplaced = {}
  /\ stuck = FALSE

-----------------------------------------------------------------------------
(***************************************************************************)
(* URLs and requests.                                                      *)
(***************************************************************************)

normalizeUrl(url) == [url EXCEPT !.slashes = 0]

httpToWsUrl(url) ==
  [url EXCEPT !.scheme = CASE @ = "https" -> "wss" [] @ = "http" -> "ws" [] OTHER -> @]

\* getHeaderValue: the first entry of that name, whatever the case of its letters.
\* Header lists are sequences of [name, value], names in lower case.
getHeaderValue(headers, name) ==
  {headers[i].value : i \in {j \in DOMAIN headers :
     headers[j].name = name /\ \A k \in 1..(j - 1) : headers[k].name # name}}

\* (mutant) The headers of a Request object come first.
RequestHeadersFirst(request) ==
  "nostr" \in getHeaderValue(IF request.headers # <<>> THEN request.headers
                             ELSE IF request.init = {} THEN <<>>
                             ELSE CHOOSE h \in request.init : TRUE, "accept")

\* isNip11Request. The headers of init, if it has any, hide those of the Request;
\* "nostr" is a value that includes application/nostr+json.
isNip11Request(request) ==
  "nostr" \in getHeaderValue(IF request.init # {} THEN CHOOSE h \in request.init : TRUE
                             ELSE request.headers, "accept")

\* createNip11FetchHandler, through all that fetch passes a request to: the relay of
\* the first pool that knows the URL gives its info, or the request goes out.
Answer(value, request) ==
  LET url == normalizeUrl(httpToWsUrl(request.url))
      knowing == {i \in DOMAIN value : value[i] \in Pools /\ url \in relays[value[i]]}
  IN IF isNip11Request(request) /\ knowing # {}
       THEN {<<value[i], url>> : i \in {j \in knowing : \A k \in knowing : j <= k}}
       ELSE {}

-----------------------------------------------------------------------------
(***************************************************************************)
(* Descriptors: setGlobalValue and restoreGlobalHookSnapshot. What         *)
(* Object.defineProperty refuses throws.                                   *)
(***************************************************************************)

SetThrows(property) == property.kind = "frozen"

Set(value) == [kind |-> "data", value |-> value]

\* The descriptor of an accessor has get and set, which cannot go with a value; a
\* frozen property can only be given the value it has.
RestoreThrows(saved) == saved.kind = "accessor"

Restored(saved) == IF saved.kind = "none" THEN Set(saved.value) ELSE saved

\* WebSocket first; if that throws, fetch is left as it is.
Restore(snapshot, now) ==
  [WebSocket |-> IF RestoreThrows(snapshot["WebSocket"]) THEN now["WebSocket"]
                 ELSE Restored(snapshot["WebSocket"]),
   fetch |-> IF \E key \in Globals : RestoreThrows(snapshot[key]) THEN now["fetch"]
             ELSE Restored(snapshot["fetch"])]

-----------------------------------------------------------------------------
(***************************************************************************)
(* install and uninstall.                                                  *)
(***************************************************************************)

\* pool.install and installPoolHooks, which throw if this pool or another one is
\* installed.
Installs(p) ==
  /\ installs < MaxInstalls
  /\ installation[p] = {}
  /\ current = Nobody
  /\ installs' = installs + 1
  /\ UNCHANGED <<relays, sockets, other>>

WithMock == [globals EXCEPT !["WebSocket"] = Set(<<"mock">>)]

\* (mutant) The snapshot is taken after WebSocket has been replaced.
CapturedLate == WithMock

Captured == globals

Install(p) ==
  /\ Installs(p)
  /\ \A key \in Globals : ~SetThrows(globals[key])
  /\ globals' = [WithMock EXCEPT !["fetch"] = Set(<<p>> \o @.value)]
  /\ resolver' = p
  /\ current' = p
  /\ installation' = [installation EXCEPT ![p] = {Captured}]
  /\ UNCHANGED stuck

\* (mutant) What had been replaced by then stays.
NotRolledBack(now) == now

RolledBack(now) == Restore(globals, now)

\* One of the globals cannot be replaced: the other one is put back.
InstallFails(p) ==
  /\ Installs(p)
  /\ \E key \in Globals : SetThrows(globals[key])
  /\ globals' = RolledBack(IF SetThrows(globals["WebSocket"]) THEN globals ELSE WithMock)
  /\ resolver' = Nobody
  /\ stuck' = (stuck \/ \E key \in Globals : RestoreThrows(globals[key]))
  /\ UNCHANGED <<current, installation>>

\* (mutant) The resolver stays.
UninstallHalfway(p) ==
  /\ \E snapshot \in installation[p] :
       /\ globals' = Restore(snapshot, globals)
       /\ \A key \in Globals : ~RestoreThrows(snapshot[key])
  /\ installation' = [installation EXCEPT ![p] = {}]
  /\ current' = Nobody
  /\ UNCHANGED <<resolver, relays, sockets, other, installs, stuck>>

\* pool.uninstall, and the two disposers of a pool that is installed. An exception
\* of the restore leaves the pool installed.
Uninstall(p) ==
  /\ \E snapshot \in installation[p] :
       LET throws == \E key \in Globals : RestoreThrows(snapshot[key])
       IN /\ globals' = Restore(snapshot, globals)
          /\ IF throws
               THEN /\ stuck' = TRUE
                    /\ UNCHANGED <<resolver, current, installation>>
               ELSE /\ installation' = [installation EXCEPT ![p] = {}]
                    /\ resolver' = Nobody
                    /\ current' = IF current = p THEN Nobody ELSE current
                    /\ UNCHANGED stuck
  /\ UNCHANGED <<relays, sockets, other, installs>>

-----------------------------------------------------------------------------
(***************************************************************************)
(* Relays and their sockets.                                               *)
(***************************************************************************)

\* pool.relay: one relay for each normalised URL.
GetRelay(p, url) ==
  /\ relays' = [relays EXCEPT ![p] = @ \cup {normalizeUrl(url)}]
  /\ UNCHANGED <<hooks, sockets, other, installs, stuck>>

\* A socket of a client that has seen MockWebSocket, perhaps long ago; the resolver
\* finds its relay, or nothing registers it.
Connect(url) ==
  /\ installs > 0
  /\ resolver # Nobody /\ normalizeUrl(url) \in relays[resolver]
  /\ \A r \in Relay : sockets[r] < MaxSockets
  /\ sockets' = [sockets EXCEPT ![<<resolver, normalizeUrl(url)>>] = @ + 1]
  /\ UNCHANGED <<hooks, relays, other, installs, stuck>>

Leave(r) ==
  /\ sockets[r] > 0
  /\ sockets' = [sockets EXCEPT ![r] = @ - 1]
  /\ UNCHANGED <<hooks, relays, other, installs, stuck>>

\* pool.connections: the URLs that have sockets.
Connections(p) == {url \in relays[p] : sockets[<<p, url>>] > 0}

-----------------------------------------------------------------------------
(***************************************************************************)
(* The other library.                                                      *)
(***************************************************************************)

Wrap(key) ==
  /\ wraps < MaxWraps
  /\ wrapped[key] = <<>>
  /\ globals[key].kind # "frozen"
  /\ wraps' = wraps + 1
  /\ wrapped' = [wrapped EXCEPT ![key] =
       <<[value |-> globals[key].value, by |-> current, installs |-> installs]>>]
  /\ globals' = [globals EXCEPT ![key] = Set(<<"other">> \o @.value)]
  /\ UNCHANGED <<resolver, current, installation, relays, sockets, misplaced, installs, stuck>>

Unwrap(key) ==
  /\ wrapped[key] # <<>>
  /\ LET found == Head(wrapped[key])
     IN /\ globals' = [globals EXCEPT ![key] = Set(found.value)]
        /\ misplaced' = IF found.by = current /\ found.installs = installs
                          THEN misplaced ELSE misplaced \cup {key}
  /\ wrapped' = [wrapped EXCEPT ![key] = <<>>]
  /\ UNCHANGED <<resolver, current, installation, relays, sockets, wraps, installs, stuck>>

-----------------------------------------------------------------------------

\* What clients and tests write.
Url == [scheme : {"wss", "ws"}, host : Hosts, slashes : {0, 1}]

PoolNext ==
  \/ \E p \in Pools :
       \/ Install(p) \/ InstallFails(p) \/ Uninstall(p)
       \/ \E url \in Url : GetRelay(p, url)
  \/ \E r \in Relay : Leave(r)
  \/ \E url \in Url : Connect(url)
  \/ \E key \in Globals : Wrap(key) \/ Unwrap(key)

PoolSpec == PoolInit /\ [][PoolNext]_poolVars

-----------------------------------------------------------------------------
(***************************************************************************)
(* Properties.                                                             *)
(***************************************************************************)

PoolTypeOK ==
  /\ globals \in [Globals -> Property]
  /\ resolver \in Pools \cup {Nobody}
  /\ current \in Pools \cup {Nobody}
  /\ \A p \in Pools : installation[p] \subseteq [Globals -> Property]
  /\ relays \in [Pools -> SUBSET RelayUrl]
  /\ sockets \in [Relay -> 0..MaxSockets]
  /\ \A r \in Relay : sockets[r] > 0 => r[2] \in Connections(r[1])
  /\ misplaced \subseteq Globals
  /\ stuck \in BOOLEAN

\* At most one pool is installed, and what the pools, the module variable and
\* MockWebSocket say of it is the same, also after installs and uninstalls that threw.
HooksAgree ==
  /\ \A p \in Pools : installation[p] # {} <=> current = p
  /\ resolver = current

\* An install that throws leaves both globals as they were, whatever wrapped them.
\* (Unless an accessor, which cannot be put back, has been replaced.)
FailedInstallChangesNothing ==
  [][installs' # installs /\ current' = Nobody /\ ~stuck'
       => \A key \in Globals : globals'[key].value = globals[key].value]_poolVars

\* When no pool is installed, nothing of one is left in the globals, whatever pools
\* and the other library did in whatever order; unless the library has put back what
\* it found while a pool was installed.
NothingIsLeftBehind ==
  current = Nobody /\ ~stuck =>
    \A key \in Globals \ misplaced :
      Range(globals[key].value) \cap (Pools \cup {"mock"}) = {}

\* The headers that fetch sends: those of init replace those of the Request.
AsksForInfo(request) ==
  \E headers \in request.init \cup {h \in {request.headers} : request.init = {}} :
    [name |-> "accept", value |-> "nostr"] \in Range(headers)

\* No list of headers has two entries for accept. A Headers object never has; an
\* array may, and then getHeaderValue reads the first where fetch sends both.
AcceptNamedOnce ==
  \A request \in Requests :
    \A headers \in request.init \cup {request.headers} :
      \A i, j \in DOMAIN headers :
        headers[i].name = "accept" /\ headers[j].name = "accept" => i = j

\* While a pool is installed, fetch answers for the relays it has by now, however
\* their URLs are written, and passes on every other request.
InstalledPoolAnswers ==
  current # Nobody /\ "fetch" \notin misplaced =>
    \A request \in Requests :
      Answer(globals["fetch"].value, request) =
        {<<current, url>> : url \in {u \in relays[current] :
           /\ AsksForInfo(request)
           /\ u.host = request.url.host
           /\ u.scheme = "wss" <=> request.url.scheme \in {"wss", "https"}}}

=============================================================================
