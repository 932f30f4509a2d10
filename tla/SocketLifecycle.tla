-------------------------- MODULE SocketLifecycle --------------------------
(***************************************************************************)
(* What a mock socket promises its client and its relay, with no event     *)
(* loop, timers or handlers: each connection goes forward through the      *)
(* states of the WebSocket API, the relay can reach it whenever it is      *)
(* open, and it can no longer be reached from the very step that closes    *)
(* it. MockWebSocket implements it.                                        *)
(***************************************************************************)
CONSTANT Sockets

VARIABLES
  phase,      \* where each connection is
  reachable   \* the connections the relay sends to and disconnects

lifecycleVars == <<phase, reachable>>

Phases == {"NEW", "CONNECTING", "OPEN", "CLOSING", "CLOSED"}

LifecycleInit ==
  /\ phase = [ws \in Sockets |-> "NEW"]
  /\ reachable = {}

Move(ws, from, to) ==
  /\ phase[ws] \in from
  /\ phase' = [phase EXCEPT ![ws] = to]

\* The relay takes the connection, or does not (refused, cooling down, no relay).
Begin(ws) ==
  /\ Move(ws, {"NEW"}, "CONNECTING")
  /\ reachable' \in {reachable, reachable \cup {ws}}

\* Only a connection the relay can reach opens.
Open(ws) ==
  /\ ws \in reachable
  /\ Move(ws, {"CONNECTING"}, "OPEN")
  /\ UNCHANGED reachable

StartClosing(ws) ==
  /\ Move(ws, {"CONNECTING", "OPEN"}, "CLOSING")
  /\ UNCHANGED reachable

\* An attempt that times out is given up before it is closed.
GiveUp(ws) ==
  /\ phase[ws] = "CONNECTING"
  /\ reachable' = reachable \ {ws}
  /\ UNCHANGED phase

End(ws) ==
  /\ Move(ws, {"CONNECTING", "OPEN", "CLOSING"}, "CLOSED")
  /\ reachable' = reachable \ {ws}

LifecycleNext ==
  \E ws \in Sockets : Begin(ws) \/ Open(ws) \/ StartClosing(ws) \/ GiveUp(ws) \/ End(ws)

\* A connection that was begun leaves CONNECTING, one being closed ends; an open
\* one may stay open for ever.
Settle(ws) == phase[ws] = "CONNECTING" /\ (Open(ws) \/ StartClosing(ws) \/ End(ws))
FinishClosing(ws) == phase[ws] = "CLOSING" /\ End(ws)

LifecycleSafety == LifecycleInit /\ [][LifecycleNext]_lifecycleVars

LifecycleSpec ==
  /\ LifecycleSafety
  /\ \A ws \in Sockets :
       WF_lifecycleVars(Settle(ws)) /\ WF_lifecycleVars(FinishClosing(ws))
=============================================================================
