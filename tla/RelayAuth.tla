----------------------------- MODULE RelayAuth -----------------------------
(***************************************************************************)
(* NIP-42 authentication of the connections of one relay:                  *)
(* src/src/relay/auth_service.ts, the challenges that                      *)
(* src/src/relay/connection_runtime.ts issues and the gate it puts before  *)
(* EVENT, REQ and COUNT, and requireAuth, setAuthVerifier, reset and       *)
(* #handleAuth of src/src/relay.ts, on top of the sockets and the event    *)
(* loop of MockWebSocket.                                                  *)
(*                                                                         *)
(* A challenge is a random string, so no two are equal: the n-th challenge *)
(* of a socket is written n here. AUTH events whose kind, challenge tag or *)
(* relay tag is wrong are turned down without changing anything, and so    *)
(* are left out, as are the OK false replies. The replies are sent with no *)
(* latency (DeliveryScheduler models the delays). The continuation of an   *)
(* await and the microtask of the reply it sends are one microtask.        *)
(***************************************************************************)
EXTENDS MockWebSocket, Functions

CONSTANTS
  RequiresAuth,    \* options.requiresAuth
  HasAuthVerifier, \* options.authVerifier is set
  HasValidator,    \* whether requireAuth was called before clients come: TRUE, FALSE or either
  Ops,             \* the reconfigurations the test makes while clients run
  MaxReconfigs,    \* bound: how many of them
  MaxReplies,      \* bound: auth-required replies under way to one socket
  MaxCalls         \* bound: AUTH responses of one socket being checked

ASSUME AuthAssumption ==
  /\ RequiresAuth \in BOOLEAN
  /\ HasAuthVerifier \in BOOLEAN
  /\ HasValidator \subseteq BOOLEAN
  /\ Ops \subseteq {"requireAuth", "setAuthVerifier", "reset"}
  /\ MaxReconfigs \in Nat
  /\ MaxReplies \in Nat
  /\ MaxCalls \in Nat

VARIABLES
  validator,       \* AuthService.#validator is set
  verifier,        \* AuthService.#verifier is set
  challenges,      \* AuthService.#challenges; 0 when the socket has none
  authenticated,   \* AuthService.#authenticated
  calls,           \* handleAuthResponse calls that wait for verifier or validator
  issued,          \* number of challenges made for each socket
  seen,            \* history: the challenges each socket's client was given
  reconfigs        \* the reconfigurations so far, in order

authVars == <<validator, verifier, challenges, authenticated, calls, issued, seen>>
allVars == <<vars, authVars, reconfigs>>

\* The microtasks of handleOpen, the auth-required replies and the OK true replies.
AuthTask == [kind : {"deferChallenge", "ensureChallenge", "authRequired", "authOk"}, ws : Sockets]

\* The rest of the gate, and of the loop of issueAuthChallenges, while the
\* client handles an AUTH message.
AuthFrame == [kind : {"gate"}, ws : Sockets] \cup [kind : {"issueAll"}, done : SUBSET Sockets]

\* The calls of one socket are told apart by a number: a client may send the same
\* response twice. since is history: the reconfigurations when the response came.
Call == [ws : Sockets, number : 1..MaxCalls, challenge : Nat \ {0},
         stage : {"verify", "validate"}, since : 0..MaxReconfigs]

AuthTypeOK ==
  /\ SocketTypeOK
  /\ microtasks \in Seq(SocketTask \cup AuthTask)
  /\ stack \in Seq(SocketFrame \cup AuthFrame)
  /\ validator \in BOOLEAN
  /\ verifier \in BOOLEAN
  /\ challenges \in [Sockets -> Nat]
  /\ authenticated \subseteq Sockets
  /\ calls \subseteq Call
  /\ issued \in [Sockets -> Nat]
  /\ seen \in [Sockets -> SUBSET (Nat \ {0})]
  /\ reconfigs \in Seq(Ops) /\ Len(reconfigs) <= MaxReconfigs

AuthInit ==
  /\ Init
  /\ validator \in HasValidator
  /\ verifier = HasAuthVerifier
  /\ challenges = [ws \in Sockets |-> 0]
  /\ authenticated = {}
  /\ calls = {}
  /\ issued = [ws \in Sockets |-> 0]
  /\ seen = [ws \in Sockets |-> {}]
  /\ reconfigs = <<>>

RequiresAuthentication == RequiresAuth \/ validator

-----------------------------------------------------------------------------
(***************************************************************************)
(* Issuing challenges.                                                     *)
(***************************************************************************)

\* (mutant) An AUTH message is lost when a handler of the client is running.
IssueWhenIdle(S) ==
  /\ issued' = [ws \in Sockets |-> IF ws \in S THEN issued[ws] + 1 ELSE issued[ws]]
  /\ challenges' = [ws \in Sockets |-> IF ws \in S THEN issued[ws] + 1 ELSE challenges[ws]]
  /\ seen' = [ws \in Sockets |-> IF ws \in S /\ readyState[ws] = "OPEN" /\ stack = <<>>
                                   THEN seen[ws] \cup {issued[ws] + 1}
                                   ELSE seen[ws]]

\* sendChallenge for each socket of S, each AUTH message going straight to
\* _receiveMessage, which drops it unless the socket is OPEN.
Issue(S) ==
  /\ issued' = [ws \in Sockets |-> IF ws \in S THEN issued[ws] + 1 ELSE issued[ws]]
  /\ challenges' = [ws \in Sockets |-> IF ws \in S THEN issued[ws] + 1 ELSE challenges[ws]]
  /\ seen' = [ws \in Sockets |-> IF ws \in S /\ readyState[ws] = "OPEN"
                                   THEN seen[ws] \cup {issued[ws] + 1}
                                   ELSE seen[ws]]

\* (mutant) A challenge is issued whether or not one is outstanding.
AlwaysMissing(ws) == challenges[ws] \in Nat

\* issueChallengeIfMissing makes a challenge only then.
ChallengeMissing(ws) == challenges[ws] = 0

\* (mutant) A missing challenge is left to the client to ask for.
NoChallenge(ws) == UNCHANGED <<issued, challenges, seen>> /\ ws \in Sockets

\* (mutant) The missing challenge is sent as requireAuth does it: to every connection.
ChallengeEveryone(ws) ==
  IF ChallengeMissing(ws) THEN Issue(connections) ELSE UNCHANGED <<issued, challenges, seen>>

EnsureChallenge(ws) ==
  IF ChallengeMissing(ws) THEN Issue({ws}) ELSE UNCHANGED <<issued, challenges, seen>>

KeepAuth == UNCHANGED <<authVars, reconfigs>>

\* The rest of doOpen: _handleOpen puts the challenge off by two microtasks, so
\* that the continuations and listeners of the open handler come first.
ReturnToHandleOpen(ws) ==
  /\ ReturnTo("handleOpen", ws)
  /\ stack' = Tail(stack)
  /\ microtasks' = IF RequiresAuthentication
                     THEN Append(microtasks, Task("deferChallenge", ws))
                     ELSE microtasks
  /\ UNCHANGED socketVars
  /\ KeepAuth

DeferChallengeTask(ws) ==
  /\ NextTask("deferChallenge", ws)
  /\ microtasks' = Append(Tail(microtasks), Task("ensureChallenge", ws))
  /\ UNCHANGED <<socketVars, stack>>
  /\ KeepAuth

EnsureChallengeTask(ws) ==
  /\ NextTask("ensureChallenge", ws)
  /\ microtasks' = Tail(microtasks)
  /\ EnsureChallenge(ws)
  /\ UNCHANGED <<socketVars, stack, validator, verifier, authenticated, calls, reconfigs>>

-----------------------------------------------------------------------------
(***************************************************************************)
(* The gate: EVENT, REQ or COUNT on a connection that must authenticate.   *)
(***************************************************************************)

PendingReplies(ws) ==
  Cardinality({i \in DOMAIN microtasks : microtasks[i] = Task("authRequired", ws)})
    + Cardinality({i \in DOMAIN stack : stack[i] = Frame("gate", ws)})

\* A missing challenge is issued inside send(), and its handler suspends the
\* reply; a challenge issued before is not repeated.
SendGated(ws) ==
  /\ readyState[ws] = "OPEN"
  /\ RequiresAuthentication
  /\ ws \notin authenticated
  /\ PendingReplies(ws) < MaxReplies
  /\ EnsureChallenge(ws)
  /\ IF ChallengeMissing(ws)
       THEN Suspend(Frame("gate", ws)) /\ UNCHANGED microtasks
       ELSE microtasks' = Append(microtasks, Task("authRequired", ws)) /\ UNCHANGED stack
  /\ UNCHANGED <<socketVars, validator, verifier, authenticated, calls, reconfigs>>

ReturnToGate(ws) ==
  /\ ReturnTo("gate", ws)
  /\ stack' = Tail(stack)
  /\ microtasks' = Append(microtasks, Task("authRequired", ws))
  /\ UNCHANGED socketVars
  /\ KeepAuth

\* A reply reaches its socket, or is dropped by a socket that is not OPEN.
DeliverReply(ws) ==
  /\ NextTask("authRequired", ws) \/ NextTask("authOk", ws)
  /\ microtasks' = Tail(microtasks)
  /\ UNCHANGED <<socketVars, stack>>
  /\ KeepAuth

-----------------------------------------------------------------------------
(***************************************************************************)
(* AUTH messages.                                                          *)
(***************************************************************************)

\* handleAuthResponse has found the event valid.
AcceptAuth(ws) ==
  /\ challenges' = [challenges EXCEPT ![ws] = 0]
  /\ authenticated' = authenticated \cup {ws}
  /\ microtasks' = Append(microtasks, Task("authOk", ws))

FreeNumbers(ws) == 1..MaxCalls \ {call.number : call \in {c \in calls : c.ws = ws}}

\* The client answers the challenge outstanding for this socket, which it must
\* know. The verifier and the validator are awaited; without either, the relay
\* tag is checked at once and the call ends in send().
Authenticate(ws) ==
  /\ readyState[ws] = "OPEN"
  /\ challenges[ws] \in seen[ws]
  /\ IF verifier \/ validator
       THEN /\ \E number \in FreeNumbers(ws) :
                 /\ \A n \in FreeNumbers(ws) : number <= n
                 /\ calls' = calls \cup {[ws |-> ws, number |-> number,
                                          challenge |-> challenges[ws],
                                          stage |-> IF verifier THEN "verify" ELSE "validate",
                                          since |-> Len(reconfigs)]}
            /\ UNCHANGED <<challenges, authenticated, microtasks>>
       ELSE /\ AcceptAuth(ws)
            /\ UNCHANGED calls
  /\ UNCHANGED <<socketVars, stack, validator, verifier, issued, seen, reconfigs>>

\* An awaited verifier finds the signature valid: the validator set by now is
\* awaited next, or the relay tag is checked and the call ends.
SignatureVerified(call) ==
  /\ stack = <<>>
  /\ call.stage = "verify"
  /\ IF validator
       THEN /\ calls' = (calls \ {call}) \cup {[call EXCEPT !.stage = "validate"]}
            /\ UNCHANGED <<challenges, authenticated, microtasks>>
       ELSE /\ calls' = calls \ {call}
            /\ AcceptAuth(call.ws)
  /\ UNCHANGED <<socketVars, stack, validator, verifier, issued, seen, reconfigs>>

\* An awaited validator accepts.
Validated(call) ==
  /\ stack = <<>>
  /\ call.stage = "validate"
  /\ calls' = calls \ {call}
  /\ AcceptAuth(call.ws)
  /\ UNCHANGED <<socketVars, stack, validator, verifier, issued, seen, reconfigs>>

\* Verifier, validator or the relay tag's check turns the event down.
AuthRejected(call) ==
  /\ stack = <<>>
  /\ calls' = calls \ {call}
  /\ UNCHANGED <<socketVars, microtasks, stack, validator, verifier, challenges,
                 authenticated, issued, seen, reconfigs>>

-----------------------------------------------------------------------------
(***************************************************************************)
(* Reconfiguration by the test.                                            *)
(***************************************************************************)

Reconfigure(op) ==
  /\ op \in Ops
  /\ Len(reconfigs) < MaxReconfigs
  /\ reconfigs' = Append(reconfigs, op)

\* One turn of the loop of issueAuthChallenges over the registry itself: the
\* sockets that are not OPEN get a challenge nobody hears of; the handler of the
\* next OPEN one suspends the loop, which ends when no socket is left.
IssueNext(done, below) ==
  LET left == connections \ done
      quiet == {ws \in left : readyState[ws] # "OPEN"}
  IN \/ \E ws \in left \ quiet, Q \in SUBSET quiet :
          /\ Issue(Q \cup {ws})
          /\ stack' = <<[kind |-> "issueAll", done |-> done \cup Q \cup {ws}]>> \o below
     \/ /\ left = quiet
        /\ Issue(left)
        /\ stack' = below

RequireAuth ==
  /\ Reconfigure("requireAuth")
  /\ validator' = TRUE
  /\ IssueNext({}, stack)
  /\ UNCHANGED <<socketVars, microtasks, verifier, authenticated, calls>>

ReturnToIssueAll ==
  /\ stack # <<>>
  /\ Head(stack).kind = "issueAll"
  /\ IssueNext(Head(stack).done, Tail(stack))
  /\ UNCHANGED <<socketVars, microtasks, validator, verifier, authenticated, calls, reconfigs>>

SetAuthVerifier ==
  /\ Reconfigure("setAuthVerifier")
  /\ verifier' = TRUE
  /\ UNCHANGED <<vars, validator, challenges, authenticated, calls, issued, seen>>

\* relay.reset() for the connections: AuthService.reset, then the runtime's.
ResetRelay ==
  /\ Reconfigure("reset")
  /\ Reset
  /\ validator' = FALSE
  /\ verifier' = FALSE
  /\ challenges' = [ws \in Sockets |-> 0]
  /\ authenticated' = {}
  /\ UNCHANGED <<calls, issued, seen>>

-----------------------------------------------------------------------------
(***************************************************************************)
(* The steps of the sockets, with what leaving the registry does to AUTH.  *)
(***************************************************************************)

\* removeConnection
Forget(S) ==
  /\ challenges' = [ws \in Sockets |-> IF ws \in S THEN 0 ELSE challenges[ws]]
  /\ authenticated' = authenticated \ S

ForgetOnly(S) ==
  /\ Forget(S)
  /\ UNCHANGED <<validator, verifier, calls, issued, seen, reconfigs>>

SocketCall ==
  \/ \E ws \in Sockets :
       \/ (ConstructRejected(ws) \/ ConstructAccepted(ws) \/ Close(ws)) /\ KeepAuth
       \/ (RandomDisconnect(ws) \/ TransientDisconnect(ws)) /\ ForgetOnly({ws})
  \/ (Refuse \/ CooldownExpires \/ HandlerThrows) /\ KeepAuth
  \/ Disconnect /\ ForgetOnly(connections \ connections')

SocketMicrotask ==
  \E ws \in Sockets :
    \/ (RejectTask(ws) \/ DoOpenTask(ws)) /\ KeepAuth
    \/ (CooldownCloseTask(ws) \/ FinishCloseTask(ws)) /\ ForgetOnly({ws})

SocketTimer(ws) ==
  \/ OpenTimerFires(ws) /\ KeepAuth
  \/ ConnectionTimerFires(ws) /\ ForgetOnly({ws})

SocketReturn ==
  \/ \E ws \in Sockets : ReturnToFireClose(ws) /\ KeepAuth
  \/ ReturnToDisconnect /\ ForgetOnly(connections \ connections')

-----------------------------------------------------------------------------

AuthMicrotask ==
  \/ SocketMicrotask
  \/ \E ws \in Sockets :
       DeferChallengeTask(ws) \/ EnsureChallengeTask(ws) \/ DeliverReply(ws)

AuthReturn ==
  \/ SocketReturn
  \/ \E ws \in Sockets : ReturnToHandleOpen(ws) \/ ReturnToGate(ws)
  \/ ReturnToIssueAll

AuthNext ==
  \/ SocketCall
  \/ AuthMicrotask
  \/ \E ws \in Sockets : SocketTimer(ws) \/ SendGated(ws) \/ Authenticate(ws)
  \/ AuthReturn
  \/ \E call \in calls : SignatureVerified(call) \/ Validated(call) \/ AuthRejected(call)
  \/ RequireAuth \/ SetAuthVerifier \/ ResetRelay

AuthSafetySpec == AuthInit /\ [][AuthNext]_allVars

\* The event loop is fair; the client, the verifier and the validator need not be.
AuthSpec ==
  /\ AuthSafetySpec
  /\ WF_allVars(AuthMicrotask)
  /\ WF_allVars(AuthReturn)
  /\ \A ws \in Sockets : WF_allVars(SocketTimer(ws))

-----------------------------------------------------------------------------
(***************************************************************************)
(* Properties.                                                             *)
(***************************************************************************)

\* The challenge outstanding for an OPEN socket is one its client was given, so
\* the client can answer it: no AUTH message was dropped, and none was overtaken
\* by a challenge of another code path (open, the gate, requireAuth). The comment
\* of requireAuth says as much of connections that exist when it is called.
OutstandingIsKnown ==
  \A ws \in Sockets :
    readyState[ws] = "OPEN" /\ challenges[ws] # 0 => challenges[ws] \in seen[ws]

\* Whenever an auth-required reply is on its way to an OPEN socket, its client has
\* a challenge to answer, or has authenticated in the meantime. (Only reset() takes
\* the challenge away before the reply arrives.)
AuthRequiredIsAnswerable ==
  "reset" \notin Range(reconfigs) =>
    \A i \in DOMAIN microtasks :
      LET ws == microtasks[i].ws
      IN microtasks[i].kind = "authRequired" /\ readyState[ws] = "OPEN"
           => ws \in authenticated \/ challenges[ws] \in seen[ws]

\* An OPEN connection is authenticated by the answer to the challenge outstanding at
\* that moment. (A comment of reset says its authentications are gone, but a response
\* still being checked when it comes authenticates all the same.)
AcceptedIsOutstanding ==
  [][\A call \in calls :
       /\ call \notin calls'
       /\ call.ws \in authenticated' \ authenticated
       /\ readyState[call.ws] = "OPEN"
       => call.challenge = challenges[call.ws]]_allVars

ResetSince(call) == \E i \in (call.since + 1)..Len(reconfigs) : reconfigs[i] = "reset"

\* requireAuth has given the socket a newer challenge.
Superseded(call) == "requireAuth" \in Range(reconfigs) /\ call.challenge < challenges[call.ws]

\* handleAuthResponse compares the challenge before it awaits verifier and validator,
\* and accepts after them. What comes in between (other responses of the client, the
\* challenges of its opening and of the gate, replies, closes, a verifier set in the
\* meantime) neither replaces nor uses up the challenge of an OPEN socket that is not
\* authenticated yet; only requireAuth replaces it, and only a reset() after the
\* response came, not one before, takes it away.
AcceptedUnlessOvertaken ==
  [][\A call \in calls :
       /\ call \notin calls'
       /\ call.ws \in authenticated' \ authenticated
       /\ readyState[call.ws] = "OPEN"
       => call.challenge = challenges[call.ws] \/ ResetSince(call) \/ Superseded(call)]_allVars

\* With requireAuth called at any time, no OPEN connection is passed over: it has
\* a challenge issued for it by the loop of requireAuth or by its own opening.
OpenIsIssuedChallenge ==
  \A ws \in Sockets :
    readyState[ws] = "OPEN" /\ RequiresAuthentication
      ~> readyState[ws] # "OPEN" \/ issued[ws] > 0

=============================================================================
