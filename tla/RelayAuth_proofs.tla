-------------------------- MODULE RelayAuth_proofs --------------------------
(***************************************************************************)
(* Proofs about RelayAuth, for any sockets, options and bounds. What an    *)
(* OPEN connection authenticates with, however long its response is        *)
(* checked, is the challenge outstanding unless requireAuth or a reset has *)
(* overtaken it; and as long as the test does not call requireAuth while   *)
(* clients run, every challenge outstanding is known to its client, and is *)
(* there when an auth-required reply arrives.                              *)
(***************************************************************************)
EXTENDS RelayAuth, QueueFacts

-----------------------------------------------------------------------------
(***************************************************************************)
(* The invariant behind the challenges. What is queued or suspended for a  *)
(* socket says how far it has come, whatever else has happened since.      *)
(***************************************************************************)

AnyTask == SocketTask \cup AuthTask
AnyFrame == SocketFrame \cup AuthFrame

HasOpened(ws) == readyState[ws] \notin {"NEW", "CONNECTING"}
Timed(ws) == ws \in openTimer \/ ws \in connectionTimer
WasReset == \E i \in DOMAIN reconfigs : reconfigs[i] = "reset"
WasRequired == \E i \in DOMAIN reconfigs : reconfigs[i] = "requireAuth"

\* An auth-required reply may reach ws.
Answerable(ws) ==
  readyState[ws] = "OPEN" /\ ~WasReset => ws \in authenticated \/ challenges[ws] # 0

\* Only requireAuth issues challenges that their clients do not hear of.
SocketOK(ws) ==
  /\ Timed(ws) => readyState[ws] = "CONNECTING"
  /\ challenges[ws] <= issued[ws]
  /\ "requireAuth" \notin Ops /\ challenges[ws] # 0 => HasOpened(ws)
  /\ "requireAuth" \notin Ops /\ readyState[ws] = "OPEN" /\ challenges[ws] # 0 =>
       challenges[ws] \in seen[ws]

TaskOK(t) ==
  /\ t.kind = "reject" => readyState[t.ws] # "NEW" /\ ~Timed(t.ws)
  /\ t.kind = "finishClose" => readyState[t.ws] \in {"CLOSING", "CLOSED"}
  /\ t.kind \in {"deferChallenge", "ensureChallenge", "authRequired"} => HasOpened(t.ws)
  /\ t.kind = "authRequired" => Answerable(t.ws)

FrameOK(f) ==
  /\ f.kind = "fireClose" => readyState[f.ws] # "NEW" /\ ~Timed(f.ws)
  /\ f.kind \in {"handleOpen", "gate"} => HasOpened(f.ws)
  /\ f.kind = "gate" => Answerable(f.ws)
  /\ f.kind = "issueAll" => WasRequired

AuthInv ==
  /\ AuthTypeOK
  /\ \A ws \in Sockets : SocketOK(ws)
  /\ \A t : In(t, microtasks) => TaskOK(t)
  /\ \A f : In(f, stack) => FrameOK(f)

\* A step of AUTH or of the sockets takes none of this back.
Advances(ws) ==
  /\ readyState[ws] # "NEW" => readyState'[ws] # "NEW" /\ (Timed(ws)' => Timed(ws))
  /\ readyState[ws] \in {"CLOSING", "CLOSED"} => readyState'[ws] \in {"CLOSING", "CLOSED"}
  /\ HasOpened(ws) => HasOpened(ws)' /\ (Answerable(ws) => Answerable(ws)')

\* The queue and the stack lose elements, or get some of those named.
Queues(tasks) ==
  /\ microtasks' \in Seq(AnyTask)
  /\ \A t : In(t, microtasks') => In(t, microtasks) \/ t \in tasks

Stacks(frames) ==
  /\ stack' \in Seq(AnyFrame)
  /\ \A f : In(f, stack') => In(f, stack) \/ f \in frames

AuthTyped ==
  /\ validator \in BOOLEAN
  /\ verifier \in BOOLEAN
  /\ challenges \in [Sockets -> Nat]
  /\ authenticated \subseteq Sockets
  /\ calls \subseteq Call
  /\ issued \in [Sockets -> Nat]
  /\ seen \in [Sockets -> SUBSET (Nat \ {0})]
  /\ reconfigs \in Seq(Ops) /\ Len(reconfigs) <= MaxReconfigs

LEMMA TaskFacts ==
  /\ \A ws \in Sockets :
       \A kind \in {"reject", "cooldownClose", "doOpen", "finishClose",
                    "deferChallenge", "ensureChallenge", "authRequired", "authOk"} :
         /\ Task(kind, ws) \in AnyTask
         /\ Task(kind, ws).kind = kind /\ Task(kind, ws).ws = ws
  /\ \A t \in AnyTask : t.ws \in Sockets
BY DEF AnyTask, SocketTask, AuthTask, Task

LEMMA FrameFacts ==
  /\ \A ws \in Sockets : \A kind \in {"handleOpen", "fireClose", "gate"} :
       /\ Frame(kind, ws) \in AnyFrame
       /\ Frame(kind, ws).kind = kind /\ Frame(kind, ws).ws = ws
  /\ \A rest \in SUBSET Sockets : [kind |-> "disconnect", rest |-> rest] \in AnyFrame
  /\ \A done \in SUBSET Sockets : [kind |-> "issueAll", done |-> done] \in AnyFrame
  /\ \A f \in AnyFrame : /\ f.kind \in {"handleOpen", "fireClose", "gate"} => f.ws \in Sockets
                         /\ f.kind = "disconnect" => f.rest \in SUBSET Sockets
                         /\ f.kind = "issueAll" => f.done \in SUBSET Sockets
BY DEF AnyFrame, SocketFrame, AuthFrame, Frame

LEMMA Preserved ==
  ASSUME AuthInv, SocketTypeOK', AuthTyped', WasRequired => WasRequired', NEW tasks, Queues(tasks), NEW frames, Stacks(frames),
         \A ws \in Sockets : Advances(ws) /\ SocketOK(ws)',
         \A t \in tasks : TaskOK(t)', \A f \in frames : FrameOK(f)'
  PROVE  AuthInv'
<1>1. AuthTypeOK'
  BY DEF AuthTypeOK, AuthTyped, Queues, Stacks, AnyTask, AnyFrame
<1>2. ASSUME NEW seq, NEW S, seq \in Seq(S), NEW e, In(e, seq) PROVE e \in S
  BY <1>2 DEF In
<1>3. ASSUME NEW t, In(t, microtasks) PROVE TaskOK(t)'
  <2>1. t \in AnyTask /\ TaskOK(t)
    BY <1>2, <1>3 DEF AuthInv, AuthTypeOK, AnyTask
  <2>2. Advances(t.ws)
    BY <2>1, TaskFacts
  <2> QED BY <2>1, <2>2 DEF TaskOK, Advances
<1>4. ASSUME NEW f, In(f, stack) PROVE FrameOK(f)'
  <2>1. f \in AnyFrame /\ FrameOK(f)
    BY <1>2, <1>4 DEF AuthInv, AuthTypeOK, AnyFrame
  <2>2. f.kind \in {"handleOpen", "fireClose", "gate"} => Advances(f.ws)
    BY <2>1, FrameFacts
  <2> QED BY <2>1, <2>2 DEF FrameOK, Advances
<1> QED BY <1>1, <1>3, <1>4 DEF AuthInv, Queues, Stacks

LEMMA QueueSteps ==
  ASSUME AuthTypeOK
  PROVE  /\ UNCHANGED microtasks => Queues({})
         /\ microtasks # <<>> /\ microtasks' = Tail(microtasks) => Queues({})
         /\ \A t \in AnyTask : microtasks' = Append(microtasks, t) => Queues({t})
         /\ \A t \in AnyTask : microtasks # <<>> /\ microtasks' = Append(Tail(microtasks), t) => Queues({t})
<1>1. microtasks \in Seq(AnyTask)
  BY DEF AuthTypeOK, AnyTask
<1>2. microtasks # <<>> => /\ Tail(microtasks) \in Seq(AnyTask)
                           /\ \A t : In(t, Tail(microtasks)) => In(t, microtasks)
  BY <1>1, HeadTailProperties, InTail
<1>3. ASSUME NEW seq \in Seq(AnyTask), NEW t \in AnyTask
      PROVE  /\ Append(seq, t) \in Seq(AnyTask)
             /\ \A u : In(u, Append(seq, t)) => In(u, seq) \/ u = t
  BY AppendProperties, InAppend
<1> QED BY <1>1, <1>2, <1>3 DEF Queues

LEMMA StackSteps ==
  ASSUME AuthTypeOK
  PROVE  /\ UNCHANGED stack => Stacks({})
         /\ stack # <<>> => Head(stack) \in AnyFrame /\ In(Head(stack), stack)
         /\ stack # <<>> /\ stack' = Tail(stack) => Stacks({})
         /\ \A f \in AnyFrame : Suspend(f) => Stacks({f})
         /\ \A f \in AnyFrame : stack # <<>> /\ stack' = <<f>> \o Tail(stack) => Stacks({f})
<1>1. stack \in Seq(AnyFrame)
  BY DEF AuthTypeOK, AnyFrame
<1>2. stack # <<>> => /\ Tail(stack) \in Seq(AnyFrame)
                      /\ \A f : In(f, Tail(stack)) => In(f, stack)
  BY <1>1, HeadTailProperties, InTail
<1>3. stack # <<>> => Head(stack) \in AnyFrame /\ In(Head(stack), stack)
  BY <1>1, HeadTailProperties DEF In
<1>4. ASSUME NEW seq \in Seq(AnyFrame), NEW f \in AnyFrame
      PROVE  /\ <<f>> \o seq \in Seq(AnyFrame)
             /\ \A g : In(g, <<f>> \o seq) => In(g, seq) \/ g = f
  BY InPush
<1> QED BY <1>1, <1>2, <1>3, <1>4 DEF Stacks, Suspend

\* The task about to run is one of the queue, so what the invariant says of it holds.
LEMMA RunningTask ==
  ASSUME AuthInv, NEW kind, NEW ws, NextTask(kind, ws)
  PROVE  microtasks # <<>> /\ TaskOK(Task(kind, ws)) /\ Task(kind, ws).kind = kind /\ Task(kind, ws).ws = ws
<1>1. microtasks \in Seq(AnyTask) /\ microtasks # <<>> /\ Head(microtasks) = Task(kind, ws)
  BY DEF AuthInv, AuthTypeOK, AnyTask, NextTask
<1>2. In(Task(kind, ws), microtasks)
  BY <1>1, HeadTailProperties DEF In
<1> QED BY <1>1, <1>2 DEF AuthInv, Task

-----------------------------------------------------------------------------
(***************************************************************************)
(* What the steps do to the sockets and to AUTH, queue and stack apart.    *)
(***************************************************************************)

Good ==
  /\ SocketTypeOK' /\ AuthTyped' /\ (WasRequired => WasRequired')
  /\ \A ws \in Sockets : Advances(ws) /\ SocketOK(ws)'

LEMMA NothingForgotten == AuthTypeOK /\ KeepAuth => ForgetOnly({})
BY DEF AuthTypeOK, KeepAuth, authVars, ForgetOnly, Forget

LEMMA ForgettingIsTyped ==
  ASSUME AuthTypeOK, NEW S, ForgetOnly(S)
  PROVE  AuthTyped' /\ (WasReset' <=> WasReset) /\ (WasRequired' <=> WasRequired)
BY DEF AuthTypeOK, AuthTyped, ForgetOnly, Forget, WasReset, WasRequired

\* A socket is closed, and at most its own AUTH state is forgotten.
LEMMA ClosedStep ==
  ASSUME AuthInv, NEW closed \in Sockets, FireClose(closed),
         cooldown' \in BOOLEAN, UNCHANGED <<refused, errorEvents>>,
         connections' \subseteq connections,
         openTimer' \subseteq openTimer, connectionTimer' \subseteq connectionTimer,
         ~Timed(closed)', NEW S \in SUBSET {closed}, ForgetOnly(S)
  PROVE  Good
<1> USE DEF AuthInv, AuthTypeOK, SocketTypeOK, ReadyStates
<1>1. SocketTypeOK' /\ readyState' = [readyState EXCEPT ![closed] = "CLOSED"]
  BY DEF FireClose
<1>2. AuthTyped' /\ (WasReset' <=> WasReset) /\ (WasRequired' <=> WasRequired)
  BY ForgettingIsTyped
<1>3. ASSUME NEW ws \in Sockets PROVE Advances(ws) /\ SocketOK(ws)'
  <2>1. /\ challenges'[ws] \in {0, challenges[ws]} /\ UNCHANGED <<seen, issued>>
        /\ ws # closed => challenges'[ws] = challenges[ws]
                          /\ (ws \in authenticated' <=> ws \in authenticated)
    BY DEF ForgetOnly, Forget
  <2>2. SocketOK(ws)
    OBVIOUS
  <2> QED BY <1>1, <1>2, <2>1, <2>2 DEF Advances, SocketOK, HasOpened, Answerable, Timed
<1> QED BY <1>1, <1>2, <1>3 DEF Good

\* No socket changes its state, and timers are at most cleared; what is forgotten is not
\* of an OPEN socket.
LEMMA StillStep ==
  ASSUME AuthInv, UNCHANGED <<readyState, closeEvents>>,
         refused' \in BOOLEAN, cooldown' \in BOOLEAN, errorEvents' \subseteq Sockets,
         connections' \subseteq connections,
         openTimer' \subseteq openTimer, connectionTimer' \subseteq connectionTimer,
         NEW S \in SUBSET Sockets, \A ws \in S : readyState[ws] # "OPEN", ForgetOnly(S)
  PROVE  Good
<1> USE DEF AuthInv, AuthTypeOK, SocketTypeOK
<1>1. AuthTyped' /\ (WasReset' <=> WasReset) /\ (WasRequired' <=> WasRequired)
  BY ForgettingIsTyped
<1>2. ASSUME NEW ws \in Sockets PROVE Advances(ws) /\ SocketOK(ws)'
  <2>1. /\ challenges'[ws] \in {0, challenges[ws]} /\ UNCHANGED <<seen, issued>>
        /\ ws \notin S => challenges'[ws] = challenges[ws]
                          /\ (ws \in authenticated' <=> ws \in authenticated)
    BY DEF ForgetOnly, Forget
  <2>2. SocketOK(ws)
    OBVIOUS
  <2> QED BY <1>1, <2>1, <2>2 DEF Advances, SocketOK, HasOpened, Answerable, Timed
<1> QED BY <1>1, <1>2 DEF Good

\* One socket goes from one state to another and loses its timers, or is constructed.
LEMMA MovedStep ==
  ASSUME AuthInv, NEW ws \in Sockets, NEW state \in {"CONNECTING", "CLOSING", "OPEN"}, KeepAuth,
         readyState' = [readyState EXCEPT ![ws] = state],
         \/ state = "CONNECTING" /\ readyState[ws] = "NEW"
         \/ state = "OPEN" /\ readyState[ws] = "CONNECTING" /\ ~Timed(ws)'
         \/ state = "CLOSING" /\ IsLive(ws) /\ ~Timed(ws)',
         openTimer' \subseteq openTimer \cup {ws}, connectionTimer' \subseteq connectionTimer \cup {ws},
         connections' \subseteq connections \cup {ws},
         UNCHANGED <<refused, cooldown, errorEvents, closeEvents>>
  PROVE  Good
<1> USE DEF AuthInv, AuthTypeOK, SocketTypeOK, ReadyStates
<1>1. SocketTypeOK'
  OBVIOUS
<1>2. AuthTyped' /\ (WasRequired => WasRequired')
  BY DEF KeepAuth, authVars, AuthTyped, WasRequired
<1>3. ASSUME NEW w \in Sockets PROVE Advances(w) /\ SocketOK(w)'
  <2>1. SocketOK(w) /\ UNCHANGED <<challenges, authenticated, issued, seen, reconfigs>>
    BY DEF KeepAuth, authVars
  <2>2. w # ws => readyState'[w] = readyState[w] /\ (Timed(w)' => Timed(w))
    BY DEF Timed
  <2>3. readyState'[ws] = state
    OBVIOUS
  <2> QED BY <2>1, <2>2, <2>3 DEF Advances, SocketOK, HasOpened, Answerable, Timed, WasReset, IsLive
<1> QED BY <1>1, <1>2, <1>3 DEF Good

LEMMA EnsureStep ==
  ASSUME AuthInv, NEW ws \in Sockets, HasOpened(ws), EnsureChallenge(ws),
         UNCHANGED <<socketVars, validator, verifier, authenticated, calls, reconfigs>>
  PROVE  Good /\ challenges'[ws] # 0
<1> USE DEF AuthInv, AuthTypeOK
<1>1. SocketTypeOK' /\ UNCHANGED <<readyState, openTimer, connectionTimer>>
  BY DEF SocketTypeOK, socketVars
<1>2. CASE Issue({ws}) /\ challenges[ws] = 0
  <2>1. AuthTyped' /\ (WasRequired => WasRequired')
    BY <1>2 DEF Issue, AuthTyped, WasRequired
  <2>2. ASSUME NEW w \in Sockets PROVE Advances(w) /\ SocketOK(w)'
    <3>1. /\ challenges'[w] = IF w = ws THEN issued[w] + 1 ELSE challenges[w]
          /\ issued'[w] = IF w = ws THEN issued[w] + 1 ELSE issued[w]
          /\ seen'[w] = IF w = ws /\ readyState[w] = "OPEN" THEN seen[w] \cup {issued[w] + 1} ELSE seen[w]
      BY <1>2 DEF Issue
    <3>2. SocketOK(w) /\ issued[w] \in Nat
      OBVIOUS
    <3> QED BY <1>1, <3>1, <3>2 DEF Advances, SocketOK, HasOpened, Answerable, Timed, WasReset
  <2>3. challenges'[ws] # 0
    BY <1>2 DEF Issue
  <2> QED BY <1>1, <2>1, <2>2, <2>3 DEF Good
<1>3. CASE UNCHANGED <<issued, challenges, seen>> /\ challenges[ws] # 0
  <2>1. AuthTyped' /\ (WasRequired => WasRequired')
    BY <1>3 DEF AuthTyped, WasRequired
  <2>2. ASSUME NEW w \in Sockets PROVE Advances(w) /\ SocketOK(w)'
    BY <1>1, <1>3 DEF Advances, SocketOK, HasOpened, Answerable, Timed, WasReset
  <2> QED BY <1>1, <1>3, <2>1, <2>2 DEF Good
<1> QED BY <1>2, <1>3 DEF EnsureChallenge, ChallengeMissing

LEMMA AcceptStep ==
  ASSUME AuthInv, NEW ws \in Sockets, AcceptAuth(ws), calls' \subseteq calls,
         UNCHANGED <<socketVars, validator, verifier, issued, seen, reconfigs>>
  PROVE  Good
<1> USE DEF AuthInv, AuthTypeOK
<1>1. SocketTypeOK' /\ UNCHANGED <<readyState, openTimer, connectionTimer>>
  BY DEF SocketTypeOK, socketVars
<1>2. AuthTyped' /\ (WasRequired => WasRequired')
  BY DEF AcceptAuth, AuthTyped, WasRequired
<1>3. ASSUME NEW w \in Sockets PROVE Advances(w) /\ SocketOK(w)'
  <2>1. /\ challenges'[w] = IF w = ws THEN 0 ELSE challenges[w]
        /\ authenticated' = authenticated \cup {ws}
    BY DEF AcceptAuth
  <2>2. SocketOK(w)
    OBVIOUS
  <2> QED BY <1>1, <2>1, <2>2 DEF Advances, SocketOK, HasOpened, Answerable, Timed, WasReset
<1> QED BY <1>1, <1>2, <1>3 DEF Good

LEMMA QueueConstructed ==
  ASSUME AuthTypeOK, NEW ws \in Sockets, NEW delayed,
         microtasks' = microtasks \o ConstructorTasks(ws, delayed)
  PROVE  Queues({Task("cooldownClose", ws), Task("doOpen", ws)})
<1> DEFINE a == Task("cooldownClose", ws)
           b == Task("doOpen", ws)
           new == ConstructorTasks(ws, delayed)
<1>1. microtasks \in Seq(AnyTask) /\ a \in AnyTask /\ b \in AnyTask
  BY TaskFacts DEF AuthTypeOK, AnyTask
<1>2. \E first \in {<<>>, <<a>>}, second \in {<<>>, <<b>>} : new = first \o second
  BY DEF ConstructorTasks
<1> HIDE DEF a, b
<1>3. new \in Seq(AnyTask) /\ \A i \in 1..Len(new) : new[i] \in {a, b}
  <2>1. PICK first \in {<<>>, <<a>>}, second \in {<<>>, <<b>>} : new = first \o second
    BY <1>2
  <2> HIDE DEF new
  <2>2. /\ first \in Seq(AnyTask) /\ Len(first) \in Nat /\ \A i \in 1..Len(first) : first[i] = a
        /\ second \in Seq(AnyTask) /\ Len(second) \in Nat /\ \A i \in 1..Len(second) : second[i] = b
    <3>1. ASSUME NEW x \in AnyTask, NEW seq, seq = <<>> \/ seq = <<x>>
          PROVE  seq \in Seq(AnyTask) /\ Len(seq) \in Nat /\ \A i \in 1..Len(seq) : seq[i] = x
      <4>1. CASE seq = <<>>
        BY <4>1
      <4>2. CASE seq = <<x>>
        BY <4>2
      <4> QED BY <3>1, <4>1, <4>2
    <3> QED BY <1>1, <3>1
  <2>3. /\ first \o second \in Seq(AnyTask) /\ Len(first \o second) = Len(first) + Len(second)
        /\ \A i \in 1..(Len(first) + Len(second)) :
             (first \o second)[i] = IF i <= Len(first) THEN first[i] ELSE second[i - Len(first)]
    BY <2>2, ConcatProperties
  <2> QED BY <2>1, <2>2, <2>3
<1> HIDE DEF new
<1>4. /\ microtasks' = microtasks \o new /\ Len(microtasks) \in Nat /\ Len(new) \in Nat
      /\ microtasks' \in Seq(AnyTask) /\ Len(microtasks') = Len(microtasks) + Len(new)
      /\ \A i \in 1..(Len(microtasks) + Len(new)) :
           microtasks'[i] = IF i <= Len(microtasks) THEN microtasks[i] ELSE new[i - Len(microtasks)]
  BY <1>1, <1>3, ConcatProperties, LenProperties DEF new
<1>5. ASSUME NEW t, In(t, microtasks') PROVE In(t, microtasks) \/ t \in {a, b}
  <2>1. PICK i \in 1..(Len(microtasks) + Len(new)) : microtasks'[i] = t
    BY <1>4, <1>5 DEF In
  <2>2. CASE i <= Len(microtasks)
    BY <1>4, <2>1, <2>2 DEF In
  <2>3. CASE ~(i <= Len(microtasks))
    BY <1>3, <1>4, <2>1, <2>3
  <2> QED BY <2>2, <2>3
<1> QED BY <1>4, <1>5 DEF Queues, a, b

LEMMA DisconnectStep ==
  ASSUME AuthInv, NEW targets \in SUBSET Sockets, NEW below,
         below = stack \/ (stack # <<>> /\ below = Tail(stack)),
         DisconnectNext(targets, below), ForgetOnly(connections \ connections')
  PROVE  AuthInv'
<1>1. PICK ws \in targets :
        /\ ForceClose(ws)
        /\ stack' = <<[kind |-> "disconnect", rest |-> targets \ {ws}]>> \o below
        /\ UNCHANGED <<refused, cooldown, errorEvents, microtasks>>
  BY DEF DisconnectNext
<1> DEFINE frame == [kind |-> "disconnect", rest |-> targets \ {ws}]
<1>2. frame \in AnyFrame /\ frame.kind = "disconnect"
  BY FrameFacts
<1> HIDE DEF frame
<1>3. Stacks({frame})
  BY <1>1, <1>2, StackSteps DEF AuthInv, Suspend, frame
<1>4. Queues({})
  BY <1>1, QueueSteps DEF AuthInv
<1>5. connections \ connections' \in SUBSET {ws}
  BY <1>1 DEF ForceClose, Unregister
<1>6. Good
  BY <1>1, <1>5, ClosedStep DEF ForceClose, ClearTimers, Unregister, Timed, AuthInv, AuthTypeOK, SocketTypeOK
<1>7. FrameOK(frame)'
  BY <1>2 DEF FrameOK
<1> QED BY <1>3, <1>4, <1>6, <1>7, Preserved DEF Good

LEMMA DoOpenStep ==
  ASSUME AuthInv, NEW ws \in Sockets, DoOpen(ws), KeepAuth, Queues({})
  PROVE  AuthInv'
<1>1. CASE StillConnecting(ws)
  <2>1. readyState' = [readyState EXCEPT ![ws] = "OPEN"] /\ Suspend(Frame("handleOpen", ws))
    BY <1>1 DEF DoOpen
  <2>2. Stacks({Frame("handleOpen", ws)})
    BY <2>1, FrameFacts, StackSteps DEF AuthInv
  <2>3. Good
    BY <1>1, <2>1, MovedStep DEF DoOpen, StillConnecting, ClearTimers, Timed
  <2>4. FrameOK(Frame("handleOpen", ws))'
    BY <2>1, FrameFacts DEF FrameOK, HasOpened, AuthInv, AuthTypeOK, SocketTypeOK
  <2> QED BY <2>2, <2>3, <2>4, Preserved DEF Good
<1>2. CASE ~StillConnecting(ws)
  <2>1. Stacks({})
    BY <1>2, StackSteps DEF DoOpen, AuthInv
  <2>2. Good
    BY <1>2, NothingForgotten, StillStep DEF DoOpen, AuthInv, AuthTypeOK, SocketTypeOK
  <2> QED BY <2>1, <2>2, Preserved DEF Good
<1> QED BY <1>1, <1>2

LEMMA CallStep == AuthInv /\ SocketCall => AuthInv'
<1> SUFFICES ASSUME AuthInv, SocketCall PROVE AuthInv'
  OBVIOUS
<1> USE DEF AuthInv
<1>1. ASSUME NEW ws \in Sockets, ConstructRejected(ws), KeepAuth PROVE AuthInv'
  <2>1. Queues({Task("reject", ws)}) /\ Stacks({})
    BY <1>1, TaskFacts, QueueSteps, StackSteps DEF ConstructRejected
  <2>2. Good
    BY <1>1, MovedStep DEF ConstructRejected
  <2>3. TaskOK(Task("reject", ws))'
    <3>1. readyState'[ws] = "CONNECTING" /\ ~Timed(ws)'
      BY <1>1 DEF ConstructRejected, SocketOK, Timed, AuthTypeOK, SocketTypeOK
    <3> QED BY <3>1, TaskFacts DEF TaskOK
  <2> QED BY <2>1, <2>2, <2>3, Preserved DEF Good
<1>2. ASSUME NEW ws \in Sockets, ConstructAccepted(ws), KeepAuth PROVE AuthInv'
  <2>1. Queues({Task("cooldownClose", ws), Task("doOpen", ws)}) /\ Stacks({})
    BY <1>2, QueueConstructed, StackSteps DEF ConstructAccepted
  <2>2. Good
    BY <1>2, MovedStep DEF ConstructAccepted
  <2>3. TaskOK(Task("cooldownClose", ws))' /\ TaskOK(Task("doOpen", ws))'
    BY TaskFacts DEF TaskOK
  <2> QED BY <2>1, <2>2, <2>3, Preserved DEF Good
<1>3. ASSUME NEW ws \in Sockets, Close(ws), KeepAuth PROVE AuthInv'
  <2>1. Queues({Task("finishClose", ws)}) /\ Stacks({})
    BY <1>3, TaskFacts, QueueSteps, StackSteps DEF Close
  <2>2. Good
    BY <1>3, MovedStep DEF Close, ClearTimers, Timed
  <2>3. TaskOK(Task("finishClose", ws))'
    BY <1>3, TaskFacts DEF TaskOK, Close, AuthTypeOK, SocketTypeOK
  <2> QED BY <2>1, <2>2, <2>3, Preserved DEF Good
<1>4. ASSUME NEW ws \in Sockets, RandomDisconnect(ws) \/ TransientDisconnect(ws), ForgetOnly({ws})
      PROVE  AuthInv'
  <2>1. Queues({}) /\ Stacks({})
    BY <1>4, QueueSteps, StackSteps DEF RandomDisconnect, TransientDisconnect
  <2>2. Good
    BY <1>4, ClosedStep DEF RandomDisconnect, TransientDisconnect, ForceClose, ClearTimers, Unregister,
                            Timed, AuthTypeOK, SocketTypeOK
  <2> QED BY <2>1, <2>2, Preserved DEF Good
<1>5. CASE (Refuse \/ CooldownExpires \/ HandlerThrows) /\ KeepAuth
  <2>1. Queues({}) /\ Stacks({})
    BY <1>5, QueueSteps, StackSteps DEF Refuse, CooldownExpires, HandlerThrows
  <2>2. Good
    BY <1>5, NothingForgotten, StillStep DEF Refuse, CooldownExpires, HandlerThrows, socketVars,
                                             AuthTypeOK, SocketTypeOK
  <2> QED BY <2>1, <2>2, Preserved DEF Good
<1>6. CASE Disconnect /\ ForgetOnly(connections \ connections')
  BY <1>6, DisconnectStep DEF Disconnect, AuthTypeOK, SocketTypeOK
<1> QED BY <1>1, <1>2, <1>3, <1>4, <1>5, <1>6 DEF SocketCall

LEMMA CallbackStep ==
  ASSUME AuthInv, SocketMicrotask \/ SocketReturn \/ \E ws \in Sockets : SocketTimer(ws)
  PROVE  AuthInv'
<1> USE DEF AuthInv
<1>t. AuthTypeOK /\ SocketTypeOK /\ \A ws \in Sockets : SocketOK(ws)
  BY DEF AuthTypeOK
<1>1. ASSUME NEW ws \in Sockets, RejectTask(ws), KeepAuth PROVE AuthInv'
  <2>1. Queues({}) /\ Stacks({Frame("fireClose", ws)})
    BY <1>1, <1>t, FrameFacts, QueueSteps, StackSteps DEF RejectTask, NextTask, FireErrorThenClose
  <2>2. Good
    BY <1>1, <1>t, NothingForgotten, StillStep DEF RejectTask, FireErrorThenClose, SocketTypeOK
  <2>3. FrameOK(Frame("fireClose", ws))'
    <3>1. readyState[ws] # "NEW" /\ ~Timed(ws)
      BY <1>1, RunningTask DEF RejectTask, TaskOK
    <3> QED BY <1>1, <3>1, FrameFacts DEF FrameOK, RejectTask, FireErrorThenClose, Timed
  <2> QED BY <2>1, <2>2, <2>3, Preserved DEF Good
<1>2. ASSUME NEW ws \in Sockets, DoOpenTask(ws), KeepAuth PROVE AuthInv'
  <2>1. Queues({})
    BY <1>2, <1>t, QueueSteps DEF DoOpenTask, NextTask
  <2> QED BY <1>2, <2>1, DoOpenStep DEF DoOpenTask
<1>3. ASSUME NEW ws \in Sockets, CooldownCloseTask(ws), ForgetOnly({ws}) PROVE AuthInv'
  <2>1. Queues({}) /\ Stacks({})
    BY <1>3, <1>t, QueueSteps, StackSteps DEF CooldownCloseTask, NextTask
  <2>2. CASE IsLive(ws)
    <3>1. Good
      BY <1>3, <1>t, <2>2, ClosedStep DEF CooldownCloseTask, ForceClose, ClearTimers, Unregister, Timed, SocketTypeOK
    <3> QED BY <2>1, <3>1, Preserved DEF Good
  <2>3. CASE ~IsLive(ws)
    <3>1. Good
      BY <1>3, <1>t, <2>3, StillStep DEF CooldownCloseTask, IsLive, SocketTypeOK
    <3> QED BY <2>1, <3>1, Preserved DEF Good
  <2> QED BY <2>2, <2>3
<1>4. ASSUME NEW ws \in Sockets, FinishCloseTask(ws), ForgetOnly({ws}) PROVE AuthInv'
  <2>1. Queues({}) /\ Stacks({})
    BY <1>4, <1>t, QueueSteps, StackSteps DEF FinishCloseTask, NextTask
  <2>2. ~Timed(ws)
    BY <1>4, <1>t, RunningTask DEF FinishCloseTask, TaskOK, SocketOK
  <2>3. Good
    BY <1>4, <1>t, <2>2, ClosedStep DEF FinishCloseTask, Finish, Unregister, Timed, SocketTypeOK
  <2> QED BY <2>1, <2>3, Preserved DEF Good
<1>5. ASSUME NEW ws \in Sockets, OpenTimerFires(ws), KeepAuth PROVE AuthInv'
  BY <1>5, <1>t, QueueSteps, DoOpenStep DEF OpenTimerFires
\* a timer is armed only while its socket is CONNECTING, so nothing is forgotten of an OPEN one
<1>6. ASSUME NEW ws \in Sockets, ConnectionTimerFires(ws), ForgetOnly({ws}) PROVE AuthInv'
  <2>1. readyState[ws] = "CONNECTING"
    BY <1>6, <1>t DEF ConnectionTimerFires, SocketOK, Timed
  <2>2. Queues({}) /\ Stacks({Frame("fireClose", ws)})
    BY <1>6, <1>t, <2>1, FrameFacts, QueueSteps, StackSteps DEF ConnectionTimerFires, FireErrorThenClose
  <2>3. Good
    BY <1>6, <1>t, <2>1, StillStep
    DEF ConnectionTimerFires, FireErrorThenClose, ClearTimers, Unregister, SocketTypeOK
  <2>4. FrameOK(Frame("fireClose", ws))'
    BY <1>6, <2>1, FrameFacts DEF FrameOK, ConnectionTimerFires, FireErrorThenClose, ClearTimers, Timed
  <2> QED BY <2>2, <2>3, <2>4, Preserved DEF Good
<1>7. ASSUME NEW ws \in Sockets, ReturnToFireClose(ws), KeepAuth PROVE AuthInv'
  <2>1. Queues({}) /\ Stacks({})
    BY <1>7, <1>t, QueueSteps, StackSteps DEF ReturnToFireClose, ReturnTo
  <2>2. ~Timed(ws)
    BY <1>7, <1>t, StackSteps, FrameFacts DEF ReturnToFireClose, ReturnTo, FrameOK
  <2>3. Good
    BY <1>7, <1>t, <2>2, NothingForgotten, ClosedStep DEF ReturnToFireClose, Timed, SocketTypeOK
  <2> QED BY <2>1, <2>3, Preserved DEF Good
<1>8. CASE ReturnToDisconnect /\ ForgetOnly(connections \ connections')
  <2>1. Head(stack).rest \in SUBSET Sockets
    BY <1>8, <1>t, StackSteps, FrameFacts DEF ReturnToDisconnect
  <2>2. CASE DisconnectNext(Head(stack).rest, Tail(stack))
    BY <1>8, <2>1, <2>2, DisconnectStep DEF ReturnToDisconnect
  <2>3. CASE stack' = Tail(stack) /\ UNCHANGED <<socketVars, microtasks>>
    <3>1. Queues({}) /\ Stacks({})
      BY <1>8, <1>t, <2>3, QueueSteps, StackSteps DEF ReturnToDisconnect
    <3>2. connections \ connections' = {}
      BY <2>3 DEF socketVars
    <3>3. Good
      BY <1>8, <1>t, <2>3, <3>2, StillStep DEF socketVars, SocketTypeOK
    <3> QED BY <3>1, <3>3, Preserved DEF Good
  <2> QED BY <1>8, <2>2, <2>3 DEF ReturnToDisconnect
<1> QED BY <1>1, <1>2, <1>3, <1>4, <1>5, <1>6, <1>7, <1>8 DEF SocketMicrotask, SocketTimer, SocketReturn

\* What the steps of AUTH leave alone: the sockets, and what no case below mentions.
LEMMA AuthKept ==
  ASSUME AuthInv, UNCHANGED <<socketVars, challenges, authenticated, issued, seen>>,
         validator' \in BOOLEAN, verifier' \in BOOLEAN, calls' \subseteq Call,
         reconfigs' \in Seq(Ops), Len(reconfigs') <= MaxReconfigs,
         WasReset => WasReset', WasRequired => WasRequired'
  PROVE  Good
<1> USE DEF AuthInv, AuthTypeOK
<1>1. SocketTypeOK' /\ UNCHANGED <<readyState, openTimer, connectionTimer>>
  BY DEF SocketTypeOK, socketVars
<1>2. ASSUME NEW w \in Sockets PROVE Advances(w) /\ SocketOK(w)'
  BY <1>1 DEF Advances, SocketOK, HasOpened, Answerable, Timed
<1> QED BY <1>1, <1>2 DEF Good, AuthTyped

LEMMA AuthTaskStep ==
  ASSUME AuthInv, AuthMicrotask, ~SocketMicrotask
  PROVE  AuthInv'
<1> USE DEF AuthInv
<1>t. AuthTypeOK
  OBVIOUS
<1>1. ASSUME NEW ws \in Sockets, DeferChallengeTask(ws) PROVE AuthInv'
  <2>1. Queues({Task("ensureChallenge", ws)}) /\ Stacks({})
    BY <1>1, <1>t, TaskFacts, QueueSteps, StackSteps DEF DeferChallengeTask, NextTask
  <2>2. Good
    BY <1>1, AuthKept DEF DeferChallengeTask, KeepAuth, authVars, AuthTypeOK, WasReset, WasRequired
  <2>3. HasOpened(ws)
    BY <1>1, RunningTask DEF DeferChallengeTask, TaskOK
  <2>4. TaskOK(Task("ensureChallenge", ws))'
    BY <1>1, <2>3, TaskFacts DEF TaskOK, HasOpened, DeferChallengeTask, socketVars
  <2> QED BY <2>1, <2>2, <2>4, Preserved DEF Good
<1>2. ASSUME NEW ws \in Sockets, EnsureChallengeTask(ws) PROVE AuthInv'
  <2>1. Queues({}) /\ Stacks({})
    BY <1>2, <1>t, QueueSteps, StackSteps DEF EnsureChallengeTask, NextTask
  <2>2. HasOpened(ws)
    BY <1>2, RunningTask DEF EnsureChallengeTask, TaskOK
  <2>3. Good
    BY <1>2, <2>2, EnsureStep DEF EnsureChallengeTask
  <2> QED BY <2>1, <2>3, Preserved DEF Good
<1>3. ASSUME NEW ws \in Sockets, DeliverReply(ws) PROVE AuthInv'
  <2>1. Queues({}) /\ Stacks({})
    BY <1>3, <1>t, QueueSteps, StackSteps DEF DeliverReply, NextTask
  <2>2. Good
    BY <1>3, AuthKept DEF DeliverReply, KeepAuth, authVars, AuthTypeOK, WasReset, WasRequired
  <2> QED BY <2>1, <2>2, Preserved DEF Good
<1> QED BY <1>1, <1>2, <1>3 DEF AuthMicrotask

\* A turn of the loop of requireAuth.
LEMMA IssueStep ==
  ASSUME AuthInv, NEW done \in SUBSET Sockets, NEW below,
         below = stack \/ (stack # <<>> /\ below = Tail(stack)), IssueNext(done, below),
         UNCHANGED <<socketVars, microtasks, verifier, authenticated, calls>>,
         validator' \in BOOLEAN, reconfigs' \in Seq(Ops), Len(reconfigs') <= MaxReconfigs,
         WasReset => WasReset', WasRequired'
  PROVE  AuthInv'
<1> USE DEF AuthInv
<1>t. AuthTypeOK /\ connections \in SUBSET Sockets
  BY DEF AuthTypeOK, SocketTypeOK
<1>1. PICK S \in SUBSET Sockets, frame \in AnyFrame :
        /\ Issue(S)
        /\ frame.kind = "issueAll"
        /\ stack' = below \/ stack' = <<frame>> \o below
  <2>1. CASE \E ws \in connections \ done, Q \in SUBSET connections :
               /\ Issue(Q \cup {ws})
               /\ stack' = <<[kind |-> "issueAll", done |-> done \cup Q \cup {ws}]>> \o below
    <3>1. PICK ws \in connections \ done, Q \in SUBSET connections :
               /\ Issue(Q \cup {ws})
               /\ stack' = <<[kind |-> "issueAll", done |-> done \cup Q \cup {ws}]>> \o below
      BY <2>1
    <3>2. done \cup Q \cup {ws} \in SUBSET Sockets /\ Q \cup {ws} \in SUBSET Sockets
      BY <1>t
    <3> QED BY <3>1, <3>2, FrameFacts
  <2>2. CASE Issue(connections \ done) /\ stack' = below
    BY <1>t, <2>2, FrameFacts
  <2> QED BY <2>1, <2>2 DEF IssueNext
<1>2. "requireAuth" \in Ops
  BY DEF WasRequired
<1>3. SocketTypeOK' /\ UNCHANGED <<readyState, openTimer, connectionTimer>>
  BY <1>t DEF AuthTypeOK, SocketTypeOK, socketVars
<1>4. AuthTyped'
  <2>1. challenges' \in [Sockets -> Nat] /\ issued' \in [Sockets -> Nat]
    BY <1>t, <1>1 DEF Issue, AuthTypeOK
  <2>2. seen' \in [Sockets -> SUBSET (Nat \ {0})]
    BY <1>t, <1>1 DEF Issue, AuthTypeOK
  <2> QED BY <1>t, <2>1, <2>2 DEF AuthTyped, AuthTypeOK
<1>5. ASSUME NEW ws \in Sockets PROVE Advances(ws) /\ SocketOK(ws)'
  <2>1. /\ challenges'[ws] = IF ws \in S THEN issued[ws] + 1 ELSE challenges[ws]
        /\ issued'[ws] = IF ws \in S THEN issued[ws] + 1 ELSE issued[ws]
        /\ issued[ws] \in Nat /\ challenges[ws] \in Nat /\ SocketOK(ws)
    BY <1>t, <1>1 DEF Issue, AuthTypeOK
  <2> QED BY <1>2, <1>3, <2>1 DEF Advances, SocketOK, HasOpened, Answerable, Timed
<1>6. Queues({})
  BY <1>t, QueueSteps
<1>7. Stacks({}) \/ Stacks({frame})
  BY <1>t, <1>1, StackSteps DEF Suspend
<1>8. FrameOK(frame)'
  BY <1>1 DEF FrameOK
<1> QED BY <1>3, <1>4, <1>5, <1>6, <1>7, <1>8, Preserved

LEMMA AuthReturnStep ==
  ASSUME AuthInv, AuthReturn, ~SocketReturn
  PROVE  AuthInv'
<1> USE DEF AuthInv
<1>t. AuthTypeOK
  OBVIOUS
<1>1. ASSUME NEW kind \in {"handleOpen", "gate"}, NEW ws \in Sockets, ReturnTo(kind, ws)
      PROVE  FrameOK(Frame(kind, ws)) /\ stack # <<>>
  BY <1>1, <1>t, StackSteps DEF ReturnTo
<1>2. ASSUME NEW ws \in Sockets, ReturnToHandleOpen(ws) PROVE AuthInv'
  <2>1. Queues({Task("deferChallenge", ws)}) /\ Stacks({})
    <3>1. microtasks' = Append(microtasks, Task("deferChallenge", ws)) \/ UNCHANGED microtasks
      BY <1>2 DEF ReturnToHandleOpen
    <3>2. Queues({}) => Queues({Task("deferChallenge", ws)})
      BY DEF Queues
    <3> QED BY <1>2, <1>t, <3>1, <3>2, TaskFacts, QueueSteps, StackSteps DEF ReturnToHandleOpen, ReturnTo
  <2>2. Good
    BY <1>2, AuthKept DEF ReturnToHandleOpen, KeepAuth, authVars, AuthTypeOK, WasReset, WasRequired
  <2>3. HasOpened(ws)
    BY <1>1, <1>2, FrameFacts DEF ReturnToHandleOpen, FrameOK
  <2>4. TaskOK(Task("deferChallenge", ws))'
    BY <1>2, <2>3, TaskFacts DEF TaskOK, HasOpened, ReturnToHandleOpen, socketVars
  <2> QED BY <2>1, <2>2, <2>4, Preserved DEF Good
<1>3. ASSUME NEW ws \in Sockets, ReturnToGate(ws) PROVE AuthInv'
  <2>1. Queues({Task("authRequired", ws)}) /\ Stacks({})
    BY <1>3, <1>t, TaskFacts, QueueSteps, StackSteps DEF ReturnToGate, ReturnTo
  <2>2. Good
    BY <1>3, AuthKept DEF ReturnToGate, KeepAuth, authVars, AuthTypeOK, WasReset, WasRequired
  <2>3. HasOpened(ws) /\ Answerable(ws)
    BY <1>1, <1>3, FrameFacts DEF ReturnToGate, FrameOK
  <2>4. TaskOK(Task("authRequired", ws))'
    BY <2>2, <2>3, TaskFacts DEF TaskOK, Good, Advances
  <2> QED BY <2>1, <2>2, <2>4, Preserved DEF Good
<1>4. CASE ReturnToIssueAll
  <2>1. /\ Head(stack).done \in SUBSET Sockets /\ WasRequired /\ stack # <<>>
        /\ IssueNext(Head(stack).done, Tail(stack))
    BY <1>t, <1>4, StackSteps, FrameFacts DEF ReturnToIssueAll, FrameOK
  <2> QED BY <1>4, <2>1, IssueStep DEF ReturnToIssueAll, AuthTypeOK, WasReset, WasRequired
<1> QED BY <1>2, <1>3, <1>4 DEF AuthReturn

LEMMA ClientStep ==
  ASSUME AuthInv, NEW ws \in Sockets, SendGated(ws) \/ Authenticate(ws)
  PROVE  AuthInv'
<1> USE DEF AuthInv
<1>t. AuthTypeOK
  OBVIOUS
<1>1. CASE SendGated(ws)
  <2>1. HasOpened(ws)
    BY <1>1 DEF SendGated, HasOpened
  <2>2. Good /\ challenges'[ws] # 0
    BY <1>1, <2>1, EnsureStep DEF SendGated
  <2>3. HasOpened(ws)' /\ Answerable(ws)'
    BY <2>1, <2>2 DEF Good, Advances, Answerable
  <2>4. CASE Suspend(Frame("gate", ws)) /\ UNCHANGED microtasks
    <3>1. Queues({}) /\ Stacks({Frame("gate", ws)})
      BY <1>t, <2>4, FrameFacts, QueueSteps, StackSteps
    <3>2. FrameOK(Frame("gate", ws))'
      BY <2>3, FrameFacts DEF FrameOK
    <3> QED BY <2>2, <3>1, <3>2, Preserved DEF Good
  <2>5. CASE microtasks' = Append(microtasks, Task("authRequired", ws)) /\ UNCHANGED stack
    <3>1. Queues({Task("authRequired", ws)}) /\ Stacks({})
      BY <1>t, <2>5, TaskFacts, QueueSteps, StackSteps
    <3>2. TaskOK(Task("authRequired", ws))'
      BY <2>3, TaskFacts DEF TaskOK
    <3> QED BY <2>2, <3>1, <3>2, Preserved DEF Good
  <2> QED BY <1>1, <2>4, <2>5 DEF SendGated
<1>2. CASE Authenticate(ws)
  <2>1. CASE verifier \/ validator
    <3>1. PICK number \in FreeNumbers(ws) :
            calls' = calls \cup {[ws |-> ws, number |-> number, challenge |-> challenges[ws],
                                  stage |-> IF verifier THEN "verify" ELSE "validate",
                                  since |-> Len(reconfigs)]}
      BY <1>2, <2>1 DEF Authenticate
    <3>2. /\ number \in 1..MaxCalls /\ challenges[ws] \in Nat \ {0}
          /\ Len(reconfigs) \in 0..MaxReconfigs
      BY <1>2, <3>1, AuthAssumption, LenProperties DEF FreeNumbers, Authenticate, AuthTypeOK
    <3>3. calls' \subseteq Call
      BY <3>1, <3>2 DEF Call, AuthTypeOK
    <3>4. Good
      BY <1>2, <2>1, <3>3, AuthKept DEF Authenticate, AuthTypeOK, WasReset, WasRequired
    <3>5. Queues({}) /\ Stacks({})
      BY <1>2, <1>t, <2>1, QueueSteps, StackSteps DEF Authenticate
    <3> QED BY <3>4, <3>5, Preserved DEF Good
  <2>2. CASE ~(verifier \/ validator)
    <3>1. AcceptAuth(ws) /\ UNCHANGED calls
      BY <1>2, <2>2 DEF Authenticate
    <3>2. Good
      BY <1>2, <3>1, AcceptStep DEF Authenticate
    <3>3. Queues({Task("authOk", ws)}) /\ Stacks({})
      BY <1>2, <1>t, <3>1, TaskFacts, QueueSteps, StackSteps DEF Authenticate, AcceptAuth
    <3>4. TaskOK(Task("authOk", ws))'
      BY TaskFacts DEF TaskOK
    <3> QED BY <3>2, <3>3, <3>4, Preserved DEF Good
  <2> QED BY <2>1, <2>2
<1> QED BY <1>1, <1>2

LEMMA CheckStep ==
  ASSUME AuthInv, NEW call \in calls, SignatureVerified(call) \/ Validated(call) \/ AuthRejected(call)
  PROVE  AuthInv'
<1> USE DEF AuthInv
<1>t. AuthTypeOK /\ call.ws \in Sockets
  BY DEF AuthTypeOK, Call
<1>1. ASSUME AcceptAuth(call.ws), calls' = calls \ {call},
             UNCHANGED <<socketVars, stack, validator, verifier, issued, seen, reconfigs>>
      PROVE  AuthInv'
  <2>1. Good
    BY <1>1, <1>t, AcceptStep
  <2>2. Queues({Task("authOk", call.ws)}) /\ Stacks({})
    BY <1>1, <1>t, TaskFacts, QueueSteps, StackSteps DEF AcceptAuth
  <2>3. TaskOK(Task("authOk", call.ws))'
    BY <1>t, TaskFacts DEF TaskOK
  <2> QED BY <2>1, <2>2, <2>3, Preserved DEF Good
<1>2. ASSUME calls' \subseteq Call,
             UNCHANGED <<socketVars, microtasks, stack, validator, verifier, challenges,
                         authenticated, issued, seen, reconfigs>>
      PROVE  AuthInv'
  <2>1. Good
    BY <1>2, AuthKept DEF AuthTypeOK, WasReset, WasRequired
  <2>2. Queues({}) /\ Stacks({})
    BY <1>2, <1>t, QueueSteps, StackSteps
  <2> QED BY <2>1, <2>2, Preserved DEF Good
<1>3. CASE SignatureVerified(call)
  <2>1. CASE validator
    <3>1. [call EXCEPT !.stage = "validate"] \in Call
      BY DEF AuthTypeOK, Call
    <3> QED BY <1>2, <1>3, <2>1, <3>1 DEF SignatureVerified, AuthTypeOK
  <2>2. CASE ~validator
    BY <1>1, <1>3, <2>2 DEF SignatureVerified
  <2> QED BY <2>1, <2>2
<1>4. CASE Validated(call)
  BY <1>1, <1>4 DEF Validated
<1>5. CASE AuthRejected(call)
  BY <1>2, <1>5 DEF AuthRejected, AuthTypeOK
<1> QED BY <1>3, <1>4, <1>5

LEMMA ReconfigureStep ==
  ASSUME AuthInv, RequireAuth \/ SetAuthVerifier \/ ResetRelay
  PROVE  AuthInv'
<1> USE DEF AuthInv
<1>t. AuthTypeOK
  OBVIOUS
<1>2. ASSUME NEW op, Reconfigure(op)
      PROVE  /\ reconfigs' \in Seq(Ops) /\ Len(reconfigs') <= MaxReconfigs /\ op \in Ops
             /\ WasReset => WasReset'
             /\ WasRequired => WasRequired'
             /\ op = "reset" => WasReset'
             /\ op = "requireAuth" => WasRequired'
  <2>1. /\ op \in Ops /\ reconfigs' = Append(reconfigs, op) /\ Len(reconfigs) < MaxReconfigs
        /\ reconfigs \in Seq(Ops) /\ Len(reconfigs) \in Nat /\ MaxReconfigs \in Nat
    BY <1>2, <1>t, AuthAssumption, LenProperties DEF Reconfigure, AuthTypeOK
  <2>2. /\ reconfigs' \in Seq(Ops) /\ Len(reconfigs') = Len(reconfigs) + 1
        /\ DOMAIN reconfigs = 1..Len(reconfigs) /\ DOMAIN reconfigs' = 1..(Len(reconfigs) + 1)
        /\ \A i \in 1..Len(reconfigs) : reconfigs'[i] = reconfigs[i]
        /\ reconfigs'[Len(reconfigs) + 1] = op
    BY <2>1, AppendProperties, LenProperties
  <2> QED BY <2>1, <2>2 DEF WasReset, WasRequired
<1>1. CASE RequireAuth
  <2>1. validator' \in BOOLEAN /\ {} \in SUBSET Sockets
    BY <1>1 DEF RequireAuth
  <2> QED BY <1>1, <1>2, <2>1, IssueStep DEF RequireAuth
<1>3. CASE SetAuthVerifier
  <2>1. Good
    BY <1>2, <1>3, AuthKept DEF SetAuthVerifier, AuthTypeOK, vars
  <2>2. Queues({}) /\ Stacks({})
    BY <1>3, <1>t, QueueSteps, StackSteps DEF SetAuthVerifier, vars
  <2> QED BY <2>1, <2>2, Preserved DEF Good
<1>4. CASE ResetRelay
  <2>1. /\ UNCHANGED <<readyState, openTimer, connectionTimer>> /\ SocketTypeOK'
        /\ challenges' = [ws \in Sockets |-> 0] /\ issued' = issued /\ issued \in [Sockets -> Nat]
    BY <1>4, <1>t DEF ResetRelay, Reset, AuthTypeOK, SocketTypeOK
  <2>2. AuthTyped' /\ WasReset' /\ (WasRequired => WasRequired')
    BY <1>2, <1>4, <1>t DEF ResetRelay, AuthTyped, AuthTypeOK
  <2>3. ASSUME NEW ws \in Sockets PROVE Advances(ws) /\ SocketOK(ws)'
    BY <2>1, <2>2 DEF Advances, SocketOK, HasOpened, Answerable, Timed
  <2>4. Queues({}) /\ Stacks({})
    BY <1>4, <1>t, QueueSteps, StackSteps DEF ResetRelay, Reset
  <2> QED BY <2>1, <2>2, <2>3, <2>4, Preserved
<1> QED BY <1>1, <1>3, <1>4

LEMMA AuthStep ==
  ASSUME AuthInv, [AuthNext]_allVars
  PROVE  AuthInv'
<1>1. CASE UNCHANGED allVars
  <2>1. Queues({}) /\ Stacks({}) /\ AuthTypeOK
    BY <1>1, QueueSteps, StackSteps DEF AuthInv, allVars, vars
  <2>2. Good
    BY <1>1, <2>1, AuthKept DEF allVars, vars, authVars, AuthTypeOK, WasReset, WasRequired
  <2> QED BY <2>1, <2>2, Preserved DEF Good
<1> QED BY <1>1, CallStep, CallbackStep, AuthTaskStep, AuthReturnStep, ClientStep, CheckStep, ReconfigureStep
        DEF AuthNext, AuthMicrotask, AuthReturn

LEMMA AuthInitial == AuthInit => AuthInv
<1> SUFFICES ASSUME AuthInit PROVE AuthInv
  OBVIOUS
<1> USE AuthAssumption DEF AuthInit, Init, SocketInit
<1>1. AuthTypeOK
  <2>1. SocketTypeOK
    BY DEF SocketTypeOK, ReadyStates
  <2>2. <<>> \in Seq(SocketTask \cup AuthTask) /\ <<>> \in Seq(SocketFrame \cup AuthFrame)
        /\ <<>> \in Seq(Ops) /\ Len(<<>>) = 0
    OBVIOUS
  <2>3. AuthTyped
    <3>1. validator \in BOOLEAN /\ verifier \in BOOLEAN
      BY Zenon
    <3>2. challenges \in [Sockets -> Nat] /\ issued \in [Sockets -> Nat]
      OBVIOUS
    <3>3. seen \in [Sockets -> SUBSET (Nat \ {0})]
      OBVIOUS
    <3>4. reconfigs \in Seq(Ops) /\ Len(reconfigs) <= MaxReconfigs
      BY <2>2
    <3> QED BY <3>1, <3>2, <3>3, <3>4 DEF AuthTyped
  <2> QED BY <2>1, <2>2, <2>3 DEF AuthTypeOK, AuthTyped
<1>2. \A e : ~In(e, <<>>)
  BY DEF In
<1> QED BY <1>1, <1>2 DEF AuthInv, SocketOK, Timed

LEMMA AuthInvariant == AuthSafetySpec => []AuthInv
<1>1. AuthInv /\ [AuthNext]_allVars => AuthInv'
  BY AuthStep
<1> QED BY <1>1, AuthInitial, PTL DEF AuthSafetySpec

\* For any sockets, verifications and resets: as long as requireAuth is not called while
\* clients run (finding 1 of the README), a client knows the challenge it must answer.
THEOREM OutstandingChallengesAreKnown ==
  ASSUME "requireAuth" \notin Ops
  PROVE  AuthSafetySpec => []OutstandingIsKnown
<1>1. AuthInv => OutstandingIsKnown
  BY DEF AuthInv, SocketOK, OutstandingIsKnown
<1> QED BY <1>1, AuthInvariant, PTL

\* ... whenever an auth-required reply arrives, there is one it can answer, or it has
\* authenticated, unless a reset came in between,
THEOREM AuthRequiredCanBeAnswered ==
  ASSUME "requireAuth" \notin Ops
  PROVE  AuthSafetySpec => []AuthRequiredIsAnswerable
<1>1. ASSUME AuthInv, "reset" \notin Range(reconfigs), NEW i \in DOMAIN microtasks,
             microtasks[i].kind = "authRequired", readyState[microtasks[i].ws] = "OPEN"
      PROVE  \/ microtasks[i].ws \in authenticated
             \/ challenges[microtasks[i].ws] \in seen[microtasks[i].ws]
  <2>1. microtasks[i] \in AnyTask /\ In(microtasks[i], microtasks)
    BY <1>1 DEF AuthInv, AuthTypeOK, AnyTask, In
  <2>2. Answerable(microtasks[i].ws) /\ SocketOK(microtasks[i].ws)
    BY <1>1, <2>1, TaskFacts DEF AuthInv, TaskOK
  <2>3. ~WasReset
    BY <1>1 DEF WasReset, Range
  <2> QED BY <1>1, <2>2, <2>3 DEF Answerable, SocketOK
<1>2. AuthInv => AuthRequiredIsAnswerable
  BY <1>1 DEF AuthRequiredIsAnswerable
<1> QED BY <1>2, AuthInvariant, PTL

-----------------------------------------------------------------------------
(***************************************************************************)
(* What is accepted, however long verifier and validator take.             *)
(***************************************************************************)

\* A response that is checked answers the challenge outstanding, unless its client
\* has gone, another response has authenticated it, a reset has come since, or
\* requireAuth has issued a newer challenge.
CallOK(call) ==
  /\ HasOpened(call.ws)
  /\ call.challenge <= issued[call.ws]
  /\ call.since <= Len(reconfigs)
  /\ readyState[call.ws] = "OPEN" /\ call.ws \notin authenticated =>
       \/ call.challenge = challenges[call.ws]
       \/ ResetSince(call)
       \/ WasRequired /\ call.challenge < challenges[call.ws]

CallsInv == \A call \in calls : CallOK(call)

\* A socket that has opened does not open again, and while it is OPEN it keeps its
\* challenge and its authentication.
Stays(ws) ==
  /\ readyState'[ws] \notin {"NEW", "CONNECTING"}
  /\ readyState'[ws] = "OPEN" =>
       /\ readyState[ws] = "OPEN"
       /\ challenges'[ws] = challenges[ws]
       /\ ws \in authenticated => ws \in authenticated'

\* No call of handleAuthResponse begins or ends, and no challenge is made.
Rests == UNCHANGED <<calls, issued, reconfigs>>

\* Leaving a socket, or closing it, is staying in this sense.
LEMMA LeavingStays ==
  ASSUME AuthInv, NEW ws \in Sockets, HasOpened(ws), NEW S, ForgetOnly(S),
         \/ UNCHANGED readyState /\ (ws \in S => readyState[ws] # "OPEN")
         \/ \E w : readyState' = [readyState EXCEPT ![w] = "CLOSED"] /\ S \subseteq {w}
  PROVE  Stays(ws) /\ Rests
<1>1. /\ ws \notin S => challenges'[ws] = challenges[ws]
      /\ ws \notin S => (ws \in authenticated => ws \in authenticated')
      /\ Rests
  BY DEF ForgetOnly, Forget, Rests
<1>2. readyState \in [Sockets -> ReadyStates]
  BY DEF AuthInv, AuthTypeOK, SocketTypeOK
<1> QED BY <1>1, <1>2 DEF Stays, HasOpened

\* Of the steps of the sockets none opens one again, and those that forget a challenge
\* close its socket.
LEMMA SocketsStay ==
  ASSUME AuthInv, SocketCall \/ SocketMicrotask \/ SocketReturn \/ \E w \in Sockets : SocketTimer(w),
         NEW ws \in Sockets, HasOpened(ws)
  PROVE  Stays(ws) /\ Rests
<1>t. /\ readyState \in [Sockets -> ReadyStates]
      /\ \A w \in Sockets : SocketOK(w)
  BY DEF AuthInv, AuthTypeOK, SocketTypeOK
<1>k. ASSUME KeepAuth, NEW w, NEW state, readyState' = [readyState EXCEPT ![w] = state],
             \/ state \in {"CLOSING", "CLOSED"}
             \/ readyState[w] \in {"NEW", "CONNECTING"}
      PROVE  Stays(ws) /\ Rests
  BY <1>t, <1>k DEF Stays, HasOpened, KeepAuth, authVars, Rests
<1>u. ASSUME KeepAuth, UNCHANGED readyState
      PROVE  Stays(ws) /\ Rests
  BY <1>u DEF Stays, HasOpened, KeepAuth, authVars, Rests
<1>1. ASSUME NEW w \in Sockets, ConstructRejected(w) \/ ConstructAccepted(w) \/ Close(w), KeepAuth
      PROVE  Stays(ws) /\ Rests
  BY <1>1, <1>k DEF ConstructRejected, ConstructAccepted, Close
<1>2. ASSUME NEW w \in Sockets, RandomDisconnect(w) \/ TransientDisconnect(w), ForgetOnly({w})
      PROVE  Stays(ws) /\ Rests
  BY <1>2, LeavingStays DEF RandomDisconnect, TransientDisconnect, ForceClose, FireClose
<1>3. CASE (Refuse \/ CooldownExpires \/ HandlerThrows) /\ KeepAuth
  BY <1>3, <1>u DEF Refuse, CooldownExpires, HandlerThrows, socketVars
<1>4. ASSUME NEW targets, NEW below, DisconnectNext(targets, below), ForgetOnly(connections \ connections')
      PROVE  Stays(ws) /\ Rests
  BY <1>4, LeavingStays DEF DisconnectNext, ForceClose, FireClose, Unregister
<1>5. ASSUME NEW w \in Sockets, RejectTask(w) /\ KeepAuth
      PROVE  Stays(ws) /\ Rests
  BY <1>5, <1>u DEF RejectTask, FireErrorThenClose
<1>6. ASSUME NEW w, DoOpen(w), KeepAuth
      PROVE  Stays(ws) /\ Rests
  BY <1>6, <1>k, <1>u DEF DoOpen, StillConnecting
<1>7. ASSUME NEW w \in Sockets, CooldownCloseTask(w), ForgetOnly({w})
      PROVE  Stays(ws) /\ Rests
  BY <1>7, LeavingStays DEF CooldownCloseTask, IsLive, ForceClose, FireClose
<1>8. ASSUME NEW w \in Sockets, FinishCloseTask(w), ForgetOnly({w})
      PROVE  Stays(ws) /\ Rests
  BY <1>8, LeavingStays DEF FinishCloseTask, Finish, FireClose
\* A timer is armed only while its socket is CONNECTING.
<1>9. ASSUME NEW w \in Sockets, ConnectionTimerFires(w), ForgetOnly({w})
      PROVE  Stays(ws) /\ Rests
  <2>1. readyState[w] = "CONNECTING" /\ UNCHANGED readyState
    BY <1>9, <1>t DEF ConnectionTimerFires, FireErrorThenClose, SocketOK, Timed
  <2> QED BY <1>9, <2>1, LeavingStays
<1>10. ASSUME NEW w \in Sockets, ReturnToFireClose(w), KeepAuth
       PROVE  Stays(ws) /\ Rests
  BY <1>10, <1>k DEF ReturnToFireClose, FireClose
<1>11. ASSUME UNCHANGED <<socketVars, microtasks>>, ForgetOnly(connections \ connections')
       PROVE  Stays(ws) /\ Rests
  BY <1>11, LeavingStays DEF socketVars
<1>12. CASE SocketCall
  BY <1>12, <1>1, <1>2, <1>3, <1>4 DEF SocketCall, Disconnect
<1>13. CASE SocketMicrotask
  BY <1>13, <1>5, <1>6, <1>7, <1>8 DEF SocketMicrotask, DoOpenTask
<1>14. CASE SocketReturn
  BY <1>14, <1>4, <1>10, <1>11 DEF SocketReturn, ReturnToDisconnect
<1>15. ASSUME NEW w \in Sockets, SocketTimer(w) PROVE Stays(ws) /\ Rests
  BY <1>15, <1>6, <1>9 DEF SocketTimer, OpenTimerFires
<1> QED BY <1>12, <1>13, <1>14, <1>15

\* One more reconfiguration.
LEMMA AppendFacts ==
  ASSUME AuthInv, NEW op, Reconfigure(op)
  PROVE  /\ Len(reconfigs) \in Nat /\ Len(reconfigs') = Len(reconfigs) + 1
         /\ DOMAIN reconfigs = 1..Len(reconfigs) /\ DOMAIN reconfigs' = 1..(Len(reconfigs) + 1)
         /\ \A i \in 1..Len(reconfigs) : reconfigs'[i] = reconfigs[i]
         /\ reconfigs'[Len(reconfigs) + 1] = op
<1>1. reconfigs \in Seq(Ops) /\ op \in Ops /\ reconfigs' = Append(reconfigs, op)
  BY DEF AuthInv, AuthTypeOK, Reconfigure
<1> QED BY <1>1, AppendProperties, LenProperties

\* What has been reconfigured stays so, and a reset is the last of the list.
LEMMA HistoryGrows ==
  ASSUME AuthInv, [AuthNext]_allVars
  PROVE  /\ WasRequired => WasRequired'
         /\ Len(reconfigs) \in Nat /\ Len(reconfigs') \in Nat /\ Len(reconfigs) <= Len(reconfigs')
         /\ \A i \in 1..Len(reconfigs) : reconfigs'[i] = reconfigs[i]
         /\ ResetRelay => Len(reconfigs) < Len(reconfigs') /\ reconfigs'[Len(reconfigs')] = "reset"
<1>t. reconfigs \in Seq(Ops) /\ Len(reconfigs) \in Nat
  BY LenProperties DEF AuthInv, AuthTypeOK
<1>1. CASE UNCHANGED reconfigs /\ ~ResetRelay
  BY <1>t, <1>1 DEF WasRequired
<1>2. ASSUME NEW op, Reconfigure(op), ResetRelay => op = "reset"
      PROVE  /\ WasRequired => WasRequired'
             /\ Len(reconfigs') \in Nat /\ Len(reconfigs) <= Len(reconfigs')
             /\ \A i \in 1..Len(reconfigs) : reconfigs'[i] = reconfigs[i]
             /\ ResetRelay => Len(reconfigs) < Len(reconfigs') /\ reconfigs'[Len(reconfigs')] = "reset"
  BY <1>2, AppendFacts DEF WasRequired
<1>3. UNCHANGED reconfigs \/ RequireAuth \/ SetAuthVerifier \/ ResetRelay
  <2>1. SocketCall \/ SocketMicrotask \/ SocketReturn \/ (\E w \in Sockets : SocketTimer(w))
          => UNCHANGED reconfigs
    BY DEF SocketCall, SocketMicrotask, SocketReturn, SocketTimer, KeepAuth, ForgetOnly
  <2>2. ASSUME NEW w \in Sockets,
               \/ DeferChallengeTask(w) \/ DeliverReply(w) \/ ReturnToHandleOpen(w) \/ ReturnToGate(w)
               \/ EnsureChallengeTask(w) \/ SendGated(w) \/ Authenticate(w)
        PROVE  UNCHANGED reconfigs
    BY <2>2 DEF DeferChallengeTask, DeliverReply, ReturnToHandleOpen, ReturnToGate, KeepAuth,
                EnsureChallengeTask, SendGated, Authenticate
  <2>3. ASSUME NEW c \in calls, SignatureVerified(c) \/ Validated(c) \/ AuthRejected(c)
        PROVE  UNCHANGED reconfigs
    BY <2>3 DEF SignatureVerified, Validated, AuthRejected
  <2>4. ReturnToIssueAll \/ UNCHANGED allVars => UNCHANGED reconfigs
    BY DEF ReturnToIssueAll, allVars
  <2> QED BY <2>1, <2>2, <2>3, <2>4 DEF AuthNext, AuthMicrotask, AuthReturn
<1>4. CASE RequireAuth \/ SetAuthVerifier \/ ResetRelay
  <2>1. \E op : Reconfigure(op) /\ (ResetRelay => op = "reset")
    <3>1. CASE ResetRelay
      BY <3>1 DEF ResetRelay
    <3>2. CASE ~ResetRelay
      BY <1>4, <3>2 DEF RequireAuth, SetAuthVerifier
    <3> QED BY <3>1, <3>2
  <2> QED BY <1>t, <1>2, <2>1
<1> QED BY <1>1, <1>3, <1>4

\* The steps of AUTH close no socket, use up a challenge only to accept it, and replace
\* one only for requireAuth.
Persists(ws) ==
  /\ readyState' = readyState /\ authenticated \subseteq authenticated'
  /\ issued[ws] <= issued'[ws]
  /\ challenges[ws] # 0 /\ ws \notin authenticated' =>
       \/ challenges'[ws] = challenges[ws]
       \/ WasRequired' /\ issued[ws] < challenges'[ws]

LEMMA AuthStays ==
  ASSUME AuthInv, NEW ws \in Sockets, AuthNext,
         ~(SocketCall \/ SocketMicrotask \/ SocketReturn \/ \E w \in Sockets : SocketTimer(w)),
         ~ResetRelay
  PROVE  Persists(ws)
<1>t. /\ challenges \in [Sockets -> Nat] /\ issued \in [Sockets -> Nat]
      /\ connections \subseteq Sockets
  BY DEF AuthInv, AuthTypeOK, SocketTypeOK
<1>n. issued[ws] \in Nat /\ challenges[ws] \in Nat
  BY <1>t
<1>1. ASSUME NEW w \in Sockets,
             \/ DeferChallengeTask(w) \/ DeliverReply(w) \/ ReturnToHandleOpen(w) \/ ReturnToGate(w)
      PROVE  Persists(ws)
  <2>1. UNCHANGED <<readyState, authenticated, challenges, issued>>
    BY <1>1 DEF DeferChallengeTask, DeliverReply, ReturnToHandleOpen, ReturnToGate, KeepAuth, authVars,
                socketVars
  <2> QED BY <1>n, <2>1 DEF Persists
<1>2. ASSUME NEW w \in Sockets, EnsureChallengeTask(w) \/ SendGated(w)
      PROVE  Persists(ws)
  <2>1. /\ UNCHANGED <<readyState, authenticated>> /\ EnsureChallenge(w)
    BY <1>2 DEF EnsureChallengeTask, SendGated, socketVars
  <2>2. CASE UNCHANGED <<issued, challenges>>
    BY <1>n, <2>1, <2>2 DEF Persists
  <2>3. CASE challenges[w] = 0 /\ Issue({w})
    <3>1. /\ issued'[ws] = IF ws = w THEN issued[ws] + 1 ELSE issued[ws]
          /\ ws # w => challenges'[ws] = challenges[ws]
      BY <2>3 DEF Issue
    <3> QED BY <1>n, <2>1, <2>3, <3>1 DEF Persists
  <2> QED BY <2>1, <2>2, <2>3 DEF EnsureChallenge, ChallengeMissing
<1>3. ASSUME NEW done, NEW below, IssueNext(done, below), WasRequired',
             UNCHANGED <<readyState, authenticated>>
      PROVE  Persists(ws)
  <2>1. PICK S : Issue(S)
    BY <1>3 DEF IssueNext
  <2>2. /\ issued'[ws] = IF ws \in S THEN issued[ws] + 1 ELSE issued[ws]
        /\ challenges'[ws] = IF ws \in S THEN issued[ws] + 1 ELSE challenges[ws]
    BY <2>1 DEF Issue
  <2> QED BY <1>3, <1>n, <2>2 DEF Persists
<1>4. CASE ReturnToIssueAll
  <2>1. WasRequired
    BY <1>4, StackSteps DEF ReturnToIssueAll, AuthInv, FrameOK
  <2>2. WasRequired' /\ UNCHANGED <<readyState, authenticated>>
    BY <1>4, <2>1 DEF ReturnToIssueAll, WasRequired, socketVars
  <2> QED BY <1>3, <1>4, <2>2 DEF ReturnToIssueAll
<1>5. CASE RequireAuth
  <2>1. WasRequired'
    BY <1>5, AppendFacts DEF RequireAuth, Reconfigure, WasRequired
  <2> QED BY <1>3, <1>5, <2>1 DEF RequireAuth, socketVars
<1>6. ASSUME NEW w, AcceptAuth(w)
      PROVE  authenticated \subseteq authenticated'
             /\ (ws \notin authenticated' => challenges'[ws] = challenges[ws])
  BY <1>6, <1>t DEF AcceptAuth
<1>7. ASSUME NEW w \in Sockets, Authenticate(w) PROVE Persists(ws)
  <2>1. UNCHANGED <<readyState, issued>>
    BY <1>7 DEF Authenticate, socketVars
  <2>2. /\ authenticated \subseteq authenticated'
        /\ ws \notin authenticated' => challenges'[ws] = challenges[ws]
    BY <1>6, <1>7 DEF Authenticate
  <2> QED BY <1>n, <2>1, <2>2 DEF Persists
<1>8. ASSUME NEW call \in calls, SignatureVerified(call) \/ Validated(call) \/ AuthRejected(call)
      PROVE  Persists(ws)
  <2>1. UNCHANGED <<readyState, issued>>
    BY <1>8 DEF SignatureVerified, Validated, AuthRejected, socketVars
  <2>2. /\ authenticated \subseteq authenticated'
        /\ ws \notin authenticated' => challenges'[ws] = challenges[ws]
    BY <1>6, <1>8 DEF SignatureVerified, Validated, AuthRejected
  <2> QED BY <1>n, <2>1, <2>2 DEF Persists
<1>9. CASE SetAuthVerifier
  <2>1. UNCHANGED <<readyState, authenticated, challenges, issued>>
    BY <1>9 DEF SetAuthVerifier, vars, socketVars
  <2> QED BY <1>n, <2>1 DEF Persists
<1> QED BY <1>1, <1>2, <1>4, <1>5, <1>7, <1>8, <1>9 DEF AuthNext, AuthMicrotask, AuthReturn

\* A response that begins to be checked answers the challenge outstanding; one whose
\* check goes on stays the same response.
Same(c, call) == c.ws = call.ws /\ c.challenge = call.challenge /\ c.since = call.since

Begins(call) ==
  /\ call.ws \in Sockets /\ readyState[call.ws] = "OPEN"
  /\ call.challenge = challenges[call.ws] /\ call.since = Len(reconfigs)
  /\ UNCHANGED <<readyState, challenges, issued, reconfigs>>

LEMMA CallsBegin ==
  ASSUME AuthInv, [AuthNext]_allVars, NEW call \in calls'
  PROVE  (\E c \in calls : Same(c, call)) \/ Begins(call)
<1>s. call \in calls => \E c \in calls : Same(c, call)
  BY DEF Same
<1>1. CASE SocketCall \/ SocketMicrotask \/ SocketReturn \/ \E w \in Sockets : SocketTimer(w)
  <2>1. KeepAuth \/ \E S : ForgetOnly(S)
    BY <1>1 DEF SocketCall, SocketMicrotask, SocketReturn, SocketTimer
  <2> QED BY <1>s, <2>1 DEF KeepAuth, authVars, ForgetOnly
<1>2. ASSUME NEW w \in Sockets,
             \/ DeferChallengeTask(w) \/ DeliverReply(w) \/ ReturnToHandleOpen(w) \/ ReturnToGate(w)
             \/ EnsureChallengeTask(w) \/ SendGated(w)
      PROVE  calls' = calls
  BY <1>2 DEF DeferChallengeTask, DeliverReply, ReturnToHandleOpen, ReturnToGate, KeepAuth, authVars,
              EnsureChallengeTask, SendGated
<1>3. ASSUME NEW w \in Sockets, Authenticate(w), call \notin calls
      PROVE  Begins(call)
  BY <1>3 DEF Authenticate, socketVars, Begins
<1>4. ASSUME NEW c \in calls, SignatureVerified(c) \/ Validated(c) \/ AuthRejected(c)
      PROVE  call \in calls \/ Same(c, call)
  <2>1. c \in Call
    BY DEF AuthInv, AuthTypeOK
  <2>2. call \in calls \/ call = [c EXCEPT !.stage = "validate"]
    BY <1>4 DEF SignatureVerified, Validated, AuthRejected
  <2> QED BY <2>1, <2>2 DEF Call, Same
<1>5. ReturnToIssueAll \/ RequireAuth \/ SetAuthVerifier \/ ResetRelay => calls' = calls
  BY DEF ReturnToIssueAll, RequireAuth, SetAuthVerifier, ResetRelay
<1>6. CASE UNCHANGED allVars
  BY <1>s, <1>6 DEF allVars, authVars
<1> QED BY <1>s, <1>1, <1>2, <1>3, <1>4, <1>5, <1>6 DEF AuthNext, AuthMicrotask, AuthReturn

\* What holds of a response being checked still holds after any step.
LEMMA CallStays ==
  ASSUME AuthInv, [AuthNext]_allVars, NEW c \in calls, CallOK(c)
  PROVE  CallOK(c)'
<1>1. /\ c.ws \in Sockets /\ c.challenge \in Nat \ {0} /\ c.since \in Nat
      /\ challenges[c.ws] \in Nat /\ issued[c.ws] \in Nat
  BY AuthAssumption DEF AuthInv, AuthTypeOK, Call
<1>2. /\ HasOpened(c.ws) /\ c.challenge <= issued[c.ws] /\ c.since <= Len(reconfigs)
      /\ readyState[c.ws] = "OPEN" /\ c.ws \notin authenticated =>
           \/ c.challenge = challenges[c.ws]
           \/ ResetSince(c)
           \/ WasRequired /\ c.challenge < challenges[c.ws]
  BY DEF CallOK
<1>3. /\ c.since <= Len(reconfigs')
      /\ ResetSince(c) \/ ResetRelay => ResetSince(c)'
      /\ WasRequired => WasRequired'
  <2>1. /\ WasRequired => WasRequired'
        /\ Len(reconfigs) \in Nat /\ Len(reconfigs') \in Nat /\ Len(reconfigs) <= Len(reconfigs')
        /\ \A i \in 1..Len(reconfigs) : reconfigs'[i] = reconfigs[i]
        /\ ResetRelay => Len(reconfigs) < Len(reconfigs') /\ reconfigs'[Len(reconfigs')] = "reset"
    BY HistoryGrows
  <2> QED BY <1>1, <1>2, <2>1 DEF ResetSince
<1>4. CASE SocketCall \/ SocketMicrotask \/ SocketReturn \/ \E w \in Sockets : SocketTimer(w)
  <2>1. Stays(c.ws) /\ Rests
    BY <1>1, <1>2, <1>4, SocketsStay
  <2> QED BY <1>2, <1>3, <2>1 DEF CallOK, HasOpened, Stays, Rests
<1>5. CASE UNCHANGED allVars
  <2>1. UNCHANGED <<readyState, challenges, authenticated, issued>>
    BY <1>5 DEF allVars, vars, socketVars, authVars
  <2> QED BY <1>2, <1>3, <2>1 DEF CallOK, HasOpened
<1>6. CASE ResetRelay
  <2>1. UNCHANGED <<readyState, issued>>
    BY <1>6 DEF ResetRelay, Reset
  <2> QED BY <1>2, <1>3, <1>6, <2>1 DEF CallOK, HasOpened
<1>7. CASE /\ AuthNext /\ ~UNCHANGED allVars /\ ~ResetRelay
           /\ ~(SocketCall \/ SocketMicrotask \/ SocketReturn \/ \E w \in Sockets : SocketTimer(w))
  <2>1. /\ readyState' = readyState /\ authenticated \subseteq authenticated'
        /\ issued[c.ws] <= issued'[c.ws]
        /\ challenges[c.ws] # 0 /\ c.ws \notin authenticated' =>
             \/ challenges'[c.ws] = challenges[c.ws]
             \/ WasRequired' /\ issued[c.ws] < challenges'[c.ws]
    BY <1>1, <1>2, <1>7, AuthStays DEF Persists
  <2>2. issued'[c.ws] \in Nat /\ challenges'[c.ws] \in Nat
    BY <1>1, AuthStep DEF AuthInv, AuthTypeOK
  <2>3. HasOpened(c.ws)' /\ c.challenge <= issued'[c.ws]
    BY <1>1, <1>2, <2>1, <2>2 DEF HasOpened
  <2>4. ASSUME readyState'[c.ws] = "OPEN", c.ws \notin authenticated'
        PROVE  \/ c.challenge = challenges'[c.ws]
               \/ ResetSince(c)'
               \/ WasRequired' /\ c.challenge < challenges'[c.ws]
    BY <1>1, <1>2, <1>3, <2>1, <2>2, <2>4
  <2> QED BY <1>3, <2>3, <2>4 DEF CallOK
<1> QED BY <1>4, <1>5, <1>6, <1>7

LEMMA CallsStep ==
  ASSUME AuthInv, CallsInv, [AuthNext]_allVars
  PROVE  CallsInv'
<1> SUFFICES ASSUME NEW call \in calls' PROVE CallOK(call)'
  BY DEF CallsInv
<1>1. CASE Begins(call)
  <2>1. /\ HasOpened(call.ws)' /\ challenges[call.ws] <= issued[call.ws]
        /\ Len(reconfigs) \in Nat
    BY <1>1, LenProperties DEF Begins, HasOpened, AuthInv, AuthTypeOK, SocketOK
  <2> QED BY <1>1, <2>1 DEF Begins, CallOK
<1>2. ASSUME NEW c \in calls, Same(c, call) PROVE CallOK(call)'
  <2>1. CallOK(c)'
    BY CallStays DEF CallsInv
  <2> QED BY <1>2, <2>1 DEF Same, CallOK, HasOpened, ResetSince
<1> QED BY <1>1, <1>2, CallsBegin

\* For any sockets, verifiers and validators that take as long as they will, and
\* whatever the test reconfigures meanwhile: what an OPEN connection authenticates with
\* is the challenge outstanding, unless a reset() came after the response (finding 2) or
\* requireAuth has replaced it.
THEOREM AcceptedAnswersOutstanding == AuthSafetySpec => AcceptedUnlessOvertaken
<1> DEFINE Accepted ==
      \A call \in calls :
        /\ call \notin calls'
        /\ call.ws \in authenticated' \ authenticated
        /\ readyState[call.ws] = "OPEN"
        => call.challenge = challenges[call.ws] \/ ResetSince(call) \/ Superseded(call)
<1>1. AuthInit => CallsInv
  BY DEF AuthInit, CallsInv
<1>2. AuthInv /\ CallsInv /\ [AuthNext]_allVars => CallsInv'
  BY CallsStep
<1>3. CallsInv => Accepted
  BY DEF CallsInv, CallOK, Superseded, WasRequired, Range
<1> QED BY <1>1, <1>2, <1>3, AuthInvariant, PTL DEF AuthSafetySpec, AcceptedUnlessOvertaken

=============================================================================
