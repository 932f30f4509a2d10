------------------------ MODULE MockWebSocket_proofs ------------------------
(***************************************************************************)
(* Proofs about MockWebSocket, for every set of sockets, every setting of  *)
(* the options and every interleaving of client, handlers, microtasks and  *)
(* timers.                                                                 *)
(***************************************************************************)
EXTENDS MockWebSocket, QueueFacts

-----------------------------------------------------------------------------
\* The frames of the stack are of two shapes; both are frames.
LEMMA FrameTypes ==
  /\ \A ws \in Sockets : /\ Frame("handleOpen", ws) \in SocketFrame
                         /\ Frame("fireClose", ws) \in SocketFrame
  /\ \A rest \in SUBSET Sockets : [kind |-> "disconnect", rest |-> rest] \in SocketFrame
  /\ \A frame \in SocketFrame :
       frame.kind = "disconnect" => frame.rest \in SUBSET Sockets
  BY DEF SocketFrame, Frame

LEMMA TaskTypes ==
  \A ws \in Sockets : \A kind \in {"reject", "cooldownClose", "doOpen", "finishClose"} :
    Task(kind, ws) \in SocketTask
  BY DEF SocketTask, Task

\* The constructor queues tasks of the queue's type.
LEMMA ConstructorTasksType ==
  ASSUME NEW ws \in Sockets, NEW delayed
  PROVE  ConstructorTasks(ws, delayed) \in Seq(SocketTask)
<1> DEFINE first == IF cooldown THEN <<Task("cooldownClose", ws)>> ELSE <<>>
           second == IF delayed THEN <<>> ELSE <<Task("doOpen", ws)>>
<1>1. first \in Seq(SocketTask) /\ second \in Seq(SocketTask)
  BY TaskTypes
<1>2. first \o second \in Seq(SocketTask)
  BY <1>1, ConcatProperties
<1> QED BY <1>2 DEF ConstructorTasks

\* Every step keeps every variable within its type: the tasks and frames queued
\* are of the kinds the event loop knows how to go on with.
LEMMA TypeStep ==
  ASSUME TypeOK, [Next]_vars
  PROVE  TypeOK'
<1> USE DEF TypeOK, SocketTypeOK, ReadyStates
<1>c. ASSUME NEW ws \in Sockets, NEW below \in Seq(SocketFrame),
             NEW targets \in SUBSET Sockets, DisconnectNext(targets, below)
      PROVE  TypeOK'
  <2>1. PICK closed \in targets :
          /\ ForceClose(closed)
          /\ stack' = <<[kind |-> "disconnect", rest |-> targets \ {closed}]>> \o below
          /\ UNCHANGED <<refused, cooldown, errorEvents, microtasks>>
    BY <1>c DEF DisconnectNext
  <2>2. stack' \in Seq(SocketFrame)
    BY <2>1, FrameTypes, InPush
  <2> QED BY <2>1, <2>2 DEF ForceClose, ClearTimers, Unregister, FireClose
<1>pop. stack # <<>> => Head(stack) \in SocketFrame /\ Tail(stack) \in Seq(SocketFrame)
  BY HeadTailProperties
<1>run. microtasks # <<>> => Tail(microtasks) \in Seq(SocketTask)
  BY HeadTailProperties
<1>push. ASSUME NEW frame \in SocketFrame, Suspend(frame)
         PROVE  stack' \in Seq(SocketFrame)
  BY <1>push, InPush DEF Suspend
<1>1. ASSUME NEW ws \in Sockets, ConstructRejected(ws) PROVE TypeOK'
  BY <1>1, TaskTypes, AppendProperties DEF ConstructRejected
<1>2. ASSUME NEW ws \in Sockets, ConstructAccepted(ws) PROVE TypeOK'
  <2>1. microtasks' \in Seq(SocketTask)
    BY <1>2, ConstructorTasksType, ConcatProperties DEF ConstructAccepted
  <2> QED BY <1>2, <2>1 DEF ConstructAccepted
<1>3. ASSUME NEW ws \in Sockets, Close(ws) PROVE TypeOK'
  BY <1>3, TaskTypes, AppendProperties DEF Close, ClearTimers
<1>4. ASSUME NEW ws \in Sockets, RandomDisconnect(ws) PROVE TypeOK'
  BY <1>4 DEF RandomDisconnect, ForceClose, ClearTimers, Unregister, FireClose
<1>5. ASSUME NEW ws \in Sockets, TransientDisconnect(ws) PROVE TypeOK'
  BY <1>5 DEF TransientDisconnect, ForceClose, ClearTimers, Unregister, FireClose
<1>6. CASE Refuse
  BY <1>6 DEF Refuse
<1>7. CASE Reset
  BY <1>7 DEF Reset
<1>8. CASE Disconnect
  BY <1>8, <1>c DEF Disconnect, DisconnectNext
<1>9. CASE CooldownExpires
  BY <1>9 DEF CooldownExpires
<1>10. ASSUME NEW ws \in Sockets, RejectTask(ws) PROVE TypeOK'
  BY <1>10, <1>run, <1>push, FrameTypes DEF RejectTask, NextTask, FireErrorThenClose
<1>11. ASSUME NEW ws \in Sockets, CooldownCloseTask(ws) PROVE TypeOK'
  <2>1. microtasks' \in Seq(SocketTask)
    BY <1>11, <1>run DEF CooldownCloseTask, NextTask
  <2>2. ForceClose(ws) \/ UNCHANGED <<readyState, openTimer, connectionTimer, connections, closeEvents>>
    BY <1>11 DEF CooldownCloseTask
  <2>3. UNCHANGED <<refused, cooldown, errorEvents, stack>>
    BY <1>11 DEF CooldownCloseTask
  <2>4. CASE ForceClose(ws)
    BY <2>1, <2>3, <2>4 DEF ForceClose, ClearTimers, Unregister, FireClose
  <2> QED BY <2>1, <2>2, <2>3, <2>4
<1>12. ASSUME NEW ws \in Sockets, DoOpen(ws), microtasks' \in Seq(SocketTask) PROVE TypeOK'
  BY <1>12, <1>push, FrameTypes DEF DoOpen, ClearTimers
<1>13. ASSUME NEW ws \in Sockets, DoOpenTask(ws) PROVE TypeOK'
  BY <1>12, <1>13, <1>run DEF DoOpenTask, NextTask
<1>14. ASSUME NEW ws \in Sockets, OpenTimerFires(ws) PROVE TypeOK'
  BY <1>12, <1>14 DEF OpenTimerFires
<1>15. ASSUME NEW ws \in Sockets, ConnectionTimerFires(ws) PROVE TypeOK'
  BY <1>15, <1>push, FrameTypes DEF ConnectionTimerFires, ClearTimers, Unregister, FireErrorThenClose
<1>16. ASSUME NEW ws \in Sockets, FinishCloseTask(ws) PROVE TypeOK'
  BY <1>16, <1>run DEF FinishCloseTask, NextTask, Finish, Unregister, FireClose
<1>17. ASSUME NEW ws \in Sockets, ReturnToDoOpen(ws) PROVE TypeOK'
  BY <1>17, <1>pop DEF ReturnToDoOpen, ReturnTo, socketVars
<1>18. ASSUME NEW ws \in Sockets, ReturnToFireClose(ws) PROVE TypeOK'
  BY <1>18, <1>pop DEF ReturnToFireClose, ReturnTo, FireClose
<1>19. CASE ReturnToDisconnect
  <2>1. CASE DisconnectNext(Head(stack).rest, Tail(stack))
    <3>1. Head(stack).rest \in SUBSET Sockets
      BY <1>19, <1>pop, FrameTypes DEF ReturnToDisconnect
    <3>2. Tail(stack) \in Seq(SocketFrame)
      BY <1>19, <1>pop DEF ReturnToDisconnect
    <3> QED BY <2>1, <3>1, <3>2, <1>c DEF DisconnectNext
  <2>2. CASE stack' = Tail(stack) /\ UNCHANGED <<socketVars, microtasks>>
    BY <2>2, <1>19, <1>pop DEF ReturnToDisconnect, socketVars
  <2> QED BY <1>19, <2>1, <2>2 DEF ReturnToDisconnect
<1>20. CASE HandlerThrows
  BY <1>20, <1>pop DEF HandlerThrows, socketVars
<1>21. CASE UNCHANGED vars
  BY <1>21 DEF vars, socketVars
<1> QED
  BY <1>1, <1>2, <1>3, <1>4, <1>5, <1>6, <1>7, <1>8, <1>9, <1>10, <1>11, <1>13,
     <1>14, <1>15, <1>16, <1>17, <1>18, <1>19, <1>20, <1>21
     DEF Next, Client, Microtask, Return, TimerFires

\* The type invariant: no call is ever suspended with, and no microtask queued
\* with, something the event loop of this library would not go on with.
THEOREM TypeCorrect == SafetySpec => []TypeOK
<1>1. Init => TypeOK
  <2>1. Init => SocketTypeOK
    <3> SUFFICES ASSUME Init PROVE SocketTypeOK
      OBVIOUS
    <3>1. readyState \in [Sockets -> ReadyStates]
      BY DEF Init, SocketInit, ReadyStates
    <3>2. closeEvents \in [Sockets -> Nat]
      BY DEF Init, SocketInit
    <3>3. refused \in BOOLEAN /\ cooldown \in BOOLEAN
      BY Zenon DEF Init, SocketInit
    <3> QED BY <3>1, <3>2, <3>3 DEF Init, SocketInit, SocketTypeOK
  <2>2. Init => microtasks \in Seq(SocketTask) /\ stack \in Seq(SocketFrame)
    BY EmptySeq DEF Init
  <2> QED BY <2>1, <2>2 DEF TypeOK
<1>2. TypeOK /\ [Next]_vars => TypeOK'
  BY TypeStep
<1> QED BY <1>1, <1>2, PTL DEF SafetySpec

-----------------------------------------------------------------------------
(***************************************************************************)
(* RegistryMatchesState is not inductive: of a socket that doOpen finds    *)
(* CONNECTING it does not say that the relay knows it. What makes it true  *)
(* is in the two queues, and SocketInv says it.                            *)
(***************************************************************************)
Queued(kind, ws) == In(Task(kind, ws), microtasks)
Suspended(kind, ws) == In(Frame(kind, ws), stack)

\* In the queue seq, every doOpen of ws has the close of the cooldown before it.
OpensAfterClose(ws, seq) ==
  \A i \in 1..Len(seq) :
    seq[i] = Task("doOpen", ws) =>
      \E j \in 1..(i - 1) : seq[j] = Task("cooldownClose", ws)

\* Nothing is queued for a socket that has not been constructed.
NewIsUntouched(ws) ==
  readyState[ws] = "NEW" =>
    \A kind \in {"reject", "cooldownClose", "doOpen", "finishClose"} : ~Queued(kind, ws)

\* A socket that is about to fail has no timers, is not registered and not OPEN.
FailingIsUnregistered(ws) ==
  Queued("reject", ws) \/ Suspended("fireClose", ws) =>
    /\ ws \notin connections \cup openTimer \cup connectionTimer
    /\ readyState[ws] \in {"CONNECTING", "CLOSING", "CLOSED"}

\* close() has made it CLOSING, and it never goes back.
ClosingStaysClosing(ws) ==
  Queued("finishClose", ws) => readyState[ws] \in {"CLOSING", "CLOSED"}

\* A CONNECTING socket the relay does not know is closed before it could open.
UnregisteredCannotOpen(ws) ==
  readyState[ws] = "CONNECTING" /\ ws \notin connections =>
    /\ OpensAfterClose(ws, microtasks)
    /\ ws \in openTimer => Queued("cooldownClose", ws)

\* The two invariants for one socket, and what they rest on.
SocketInvOf(ws) ==
  /\ readyState[ws] = "OPEN" => ws \in connections
  /\ readyState[ws] \in {"NEW", "CLOSED"} => ws \notin connections
  /\ ws \in openTimer \cup connectionTimer => readyState[ws] = "CONNECTING"
  /\ NewIsUntouched(ws)
  /\ FailingIsUnregistered(ws)
  /\ ClosingStaysClosing(ws)
  /\ UnregisteredCannotOpen(ws)

SocketInv == \A ws \in Sockets : SocketInvOf(ws)

-----------------------------------------------------------------------------
(***************************************************************************)
(* What a step may do to the queues without disturbing a socket.           *)
(***************************************************************************)
TaskKinds == {"reject", "cooldownClose", "doOpen", "finishClose"}

\* Nothing new is queued for ws, and while it is CONNECTING the cooldown's close
\* keeps its place.
QueueKept(ws) ==
  /\ \A kind \in TaskKinds : Queued(kind, ws)' => Queued(kind, ws)
  /\ readyState[ws] = "CONNECTING" =>
       /\ Queued("cooldownClose", ws) => Queued("cooldownClose", ws)'
       /\ OpensAfterClose(ws, microtasks) => OpensAfterClose(ws, microtasks)'

\* A failure of ws is under way only if it was.
StackKept(ws) ==
  Suspended("fireClose", ws)' => Suspended("fireClose", ws) \/ Queued("reject", ws)

SocketKept(ws) ==
  /\ readyState'[ws] = readyState[ws]
  /\ ws \in connections' <=> ws \in connections
  /\ ws \in openTimer' <=> ws \in openTimer
  /\ ws \in connectionTimer' <=> ws \in connectionTimer

LEMMA TasksDiffer ==
  ASSUME NEW k1, NEW k2, NEW w1, NEW w2, Task(k1, w1) = Task(k2, w2)
  PROVE  k1 = k2 /\ w1 = w2
  BY DEF Task

LEMMA FramesDiffer ==
  /\ \A k1, k2, w1, w2 : Frame(k1, w1) = Frame(k2, w2) => k1 = k2 /\ w1 = w2
  /\ \A ws, rest : Frame("fireClose", ws) # [kind |-> "disconnect", rest |-> rest]
<1>1. ASSUME NEW k1, NEW k2, NEW w1, NEW w2, Frame(k1, w1) = Frame(k2, w2)
      PROVE  k1 = k2 /\ w1 = w2
  BY <1>1 DEF Frame
<1>2. ASSUME NEW ws, NEW rest,
             Frame("fireClose", ws) = [kind |-> "disconnect", rest |-> rest]
      PROVE  FALSE
  <2>1. Frame("fireClose", ws).kind = "fireClose"
    BY DEF Frame
  <2>2. [kind |-> "disconnect", rest |-> rest].kind = "disconnect"
    OBVIOUS
  <2> QED BY <1>2, <2>1, <2>2
<1> QED BY <1>1, <1>2

LEMMA QueueUnchanged ==
  ASSUME NEW ws \in Sockets, UNCHANGED microtasks
  PROVE  QueueKept(ws)
  BY DEF QueueKept, Queued, OpensAfterClose, In

\* Only the run of its own cooldown close disturbs a CONNECTING socket.
LEMMA QueuePopped ==
  ASSUME NEW ws \in Sockets, TypeOK, microtasks # <<>>, microtasks' = Tail(microtasks),
         Head(microtasks) = Task("cooldownClose", ws) => readyState[ws] # "CONNECTING"
  PROVE  QueueKept(ws)
<1> USE DEF TypeOK
<1>1. /\ Len(microtasks) \in Nat \ {0}
      /\ Len(Tail(microtasks)) = Len(microtasks) - 1
      /\ \A i \in 1..Len(Tail(microtasks)) : Tail(microtasks)[i] = microtasks[i + 1]
      /\ Head(microtasks) = microtasks[1]
  BY HeadTailProperties, EmptySeq
<1>2. ASSUME NEW kind \in TaskKinds, Queued(kind, ws)' PROVE Queued(kind, ws)
  BY <1>2, InTail DEF Queued
<1>3. ASSUME readyState[ws] = "CONNECTING", NEW i \in 1..Len(microtasks),
             microtasks[i] = Task("cooldownClose", ws)
      PROVE  i - 1 \in 1..Len(microtasks') /\ microtasks'[i - 1] = microtasks[i]
  <2>1. i # 1
    BY <1>1, <1>3
  <2>2. i - 1 \in 1..Len(microtasks') /\ (i - 1) + 1 = i
    BY <2>1, <1>1
  <2> QED BY <2>2, <1>1
<1>4. ASSUME readyState[ws] = "CONNECTING", Queued("cooldownClose", ws)
      PROVE  Queued("cooldownClose", ws)'
  BY <1>3, <1>4 DEF Queued, In
<1>5. ASSUME readyState[ws] = "CONNECTING", OpensAfterClose(ws, microtasks),
             NEW i \in 1..Len(microtasks'), microtasks'[i] = Task("doOpen", ws)
      PROVE  \E j \in 1..(i - 1) : microtasks'[j] = Task("cooldownClose", ws)
  <2>1. i + 1 \in 1..Len(microtasks) /\ microtasks[i + 1] = Task("doOpen", ws)
    BY <1>1, <1>5
  <2>2. PICK j \in 1..((i + 1) - 1) : microtasks[j] = Task("cooldownClose", ws)
    BY <2>1, <1>5 DEF OpensAfterClose
  <2>3. j \in 1..Len(microtasks)
    BY <2>1, <2>2, <1>1
  <2>4. microtasks'[j - 1] = Task("cooldownClose", ws) /\ j - 1 \in 1..(i - 1)
    BY <2>2, <2>3, <1>3, <1>5, <1>1
  <2> QED BY <2>4
<1> QED BY <1>2, <1>4, <1>5 DEF QueueKept, OpensAfterClose

\* What is queued for one socket leaves the others alone, and comes last.
LEMMA QueueGrown ==
  ASSUME NEW ws \in Sockets, NEW seq \in Seq(SocketTask),
         NEW kind \in TaskKinds, NEW other \in Sockets
  PROVE  LET grown == Append(seq, Task(kind, other)) IN
         /\ grown \in Seq(SocketTask)
         /\ \A k \in TaskKinds :
              In(Task(k, ws), grown) <=> In(Task(k, ws), seq) \/ (k = kind /\ ws = other)
         /\ (kind # "doOpen" \/ other # ws \/ In(Task("cooldownClose", ws), seq)) =>
              (OpensAfterClose(ws, seq) => OpensAfterClose(ws, grown))
<1> DEFINE grown == Append(seq, Task(kind, other))
<1>1. Task(kind, other) \in SocketTask
  BY TaskTypes DEF TaskKinds
<1>2. /\ grown \in Seq(SocketTask)
      /\ Len(grown) = Len(seq) + 1
      /\ \A i \in 1..Len(seq) : grown[i] = seq[i]
      /\ grown[Len(seq) + 1] = Task(kind, other)
      /\ Len(seq) \in Nat
  BY <1>1, AppendProperties, LenProperties
<1>3. ASSUME NEW k \in TaskKinds
      PROVE  In(Task(k, ws), grown) <=> In(Task(k, ws), seq) \/ (k = kind /\ ws = other)
  BY <1>1, InAppend, TasksDiffer
<1>4. ASSUME kind # "doOpen" \/ other # ws \/ In(Task("cooldownClose", ws), seq),
             OpensAfterClose(ws, seq),
             NEW i \in 1..Len(grown), grown[i] = Task("doOpen", ws)
      PROVE  \E j \in 1..(i - 1) : grown[j] = Task("cooldownClose", ws)
  <2> HIDE DEF grown
  <2>1. CASE i = Len(seq) + 1
    <3>1. In(Task("cooldownClose", ws), seq)
      BY <2>1, <1>2, <1>4, TasksDiffer
    <3>2. PICK j \in 1..Len(seq) : seq[j] = Task("cooldownClose", ws)
      BY <3>1 DEF In
    <3>3. j \in 1..(i - 1) /\ grown[j] = Task("cooldownClose", ws)
      BY <2>1, <3>2, <1>2
    <3> QED BY <3>3
  <2>2. CASE i \in 1..Len(seq)
    <3>1. PICK j \in 1..(i - 1) : seq[j] = Task("cooldownClose", ws)
      BY <2>2, <1>2, <1>4 DEF OpensAfterClose
    <3>2. grown[j] = seq[j]
      BY <3>1, <2>2, <1>2
    <3> QED BY <3>1, <3>2
  <2> QED BY <2>1, <2>2, <1>2
<1> QED BY <1>2, <1>3, <1>4 DEF OpensAfterClose

LEMMA QueueOfOther ==
  ASSUME NEW ws \in Sockets, TypeOK, NEW kind \in TaskKinds,
         NEW other \in Sockets, other # ws,
         microtasks' = Append(microtasks, Task(kind, other))
  PROVE  QueueKept(ws)
  BY QueueGrown DEF QueueKept, Queued, TypeOK, TaskKinds

\* The constructor queues the cooldown's close, the opening, both or nothing.
LEMMA ConstructorQueues ==
  ASSUME NEW seq \in Seq(SocketTask), NEW ws \in Sockets, NEW delayed
  PROVE  LET closing == Append(seq, Task("cooldownClose", ws))
             after == IF cooldown THEN closing ELSE seq
         IN  seq \o ConstructorTasks(ws, delayed)
               = IF delayed THEN after ELSE Append(after, Task("doOpen", ws))
<1> DEFINE closing == Append(seq, Task("cooldownClose", ws))
<1>1. /\ Task("cooldownClose", ws) \in SocketTask
      /\ Task("doOpen", ws) \in SocketTask
  BY TaskTypes
<1>2. closing \in Seq(SocketTask)
  BY <1>1, AppendProperties
<1>3. /\ seq \o <<>> = seq
      /\ <<>> \o <<>> = <<>>
      /\ <<>> \o <<Task("doOpen", ws)>> = <<Task("doOpen", ws)>>
      /\ <<Task("cooldownClose", ws)>> \o <<>> = <<Task("cooldownClose", ws)>>
      /\ seq \o <<Task("doOpen", ws)>> = Append(seq, Task("doOpen", ws))
      /\ seq \o <<Task("cooldownClose", ws)>> = closing
      /\ closing \o <<Task("doOpen", ws)>> = Append(closing, Task("doOpen", ws))
      /\ seq \o (<<Task("cooldownClose", ws)>> \o <<Task("doOpen", ws)>>)
           = (seq \o <<Task("cooldownClose", ws)>>) \o <<Task("doOpen", ws)>>
  BY <1>1, <1>2, ConcatEmptySeq, AppendIsConcat, ConcatAssociative
<1> HIDE DEF closing
<1> QED BY <1>3 DEF ConstructorTasks, closing

\* What the constructor queues: an opening with nothing before it only if the
\* socket is registered.
LEMMA QueueConstructed ==
  ASSUME NEW ws \in Sockets, NEW other \in Sockets, TypeOK, other # ws \/ NewIsUntouched(ws),
         readyState[other] = "NEW", NEW delayed \in ConnectDelays,
         microtasks' = microtasks \o ConstructorTasks(other, delayed)
  PROVE  /\ other # ws => QueueKept(ws)
         /\ other = ws => /\ ~Queued("reject", ws)' /\ ~Queued("finishClose", ws)'
                          /\ cooldown => /\ Queued("cooldownClose", ws)'
                                         /\ OpensAfterClose(ws, microtasks)'
<1> DEFINE closing == Append(microtasks, Task("cooldownClose", other))
           after == IF cooldown THEN closing ELSE microtasks
           opening == Append(after, Task("doOpen", other))
<1>1. microtasks \in Seq(SocketTask) /\ closing \in Seq(SocketTask)
  BY QueueGrown DEF TypeOK, TaskKinds
<1>2. after \in Seq(SocketTask) /\ opening \in Seq(SocketTask)
  BY <1>1, QueueGrown DEF TaskKinds
<1>3. microtasks' = IF delayed THEN after ELSE opening
  BY ConstructorQueues DEF TypeOK
<1>4. ASSUME NEW k \in TaskKinds, Queued(k, ws)'
      PROVE  Queued(k, ws) \/ (ws = other /\ k \in {"cooldownClose", "doOpen"})
  <2> HIDE DEF after
  <2>1. In(Task(k, ws), after) \/ (ws = other /\ k = "doOpen")
    BY <1>2, <1>3, <1>4, QueueGrown DEF Queued, TaskKinds
  <2> USE DEF after
  <2>2. In(Task(k, ws), after) => Queued(k, ws) \/ (ws = other /\ k = "cooldownClose")
    BY <1>1, QueueGrown DEF Queued, TaskKinds
  <2> QED BY <2>1, <2>2
<1>5. ASSUME other # ws PROVE QueueKept(ws)
  <2>1. /\ Queued("cooldownClose", ws) => In(Task("cooldownClose", ws), after)
        /\ OpensAfterClose(ws, microtasks) => OpensAfterClose(ws, after)
    BY <1>1, <1>5, QueueGrown DEF Queued, TaskKinds
  <2> HIDE DEF after
  <2>2. /\ In(Task("cooldownClose", ws), after) => Queued("cooldownClose", ws)'
        /\ OpensAfterClose(ws, after) => OpensAfterClose(ws, microtasks)'
    BY <1>2, <1>3, <1>5, QueueGrown DEF Queued, TaskKinds
  <2> QED BY <1>4, <1>5, <2>1, <2>2 DEF QueueKept
<1>6. ASSUME other = ws
      PROVE  ~Queued("reject", ws)' /\ ~Queued("finishClose", ws)'
  BY <1>4, <1>6 DEF NewIsUntouched, TaskKinds
<1>7. ASSUME other = ws, cooldown
      PROVE  Queued("cooldownClose", ws)' /\ OpensAfterClose(ws, microtasks)'
  <2>1. ~In(Task("doOpen", ws), microtasks)
    BY <1>7 DEF NewIsUntouched, Queued
  <2>2. In(Task("cooldownClose", ws), closing) /\ ~In(Task("doOpen", ws), closing)
    BY <1>1, <1>7, <2>1, QueueGrown DEF TaskKinds
  <2>3. OpensAfterClose(ws, closing)
    BY <2>2 DEF OpensAfterClose, In
  <2> HIDE DEF closing
  <2>4. /\ In(Task("cooldownClose", ws), opening)
        /\ OpensAfterClose(ws, opening)
    BY <1>1, <1>2, <1>7, <2>2, <2>3, QueueGrown DEF TaskKinds
  <2> QED BY <1>3, <1>7, <2>2, <2>3, <2>4 DEF Queued
<1> QED BY <1>5, <1>6, <1>7

-----------------------------------------------------------------------------
\* A step that leaves a socket alone keeps its invariant ...
LEMMA Kept ==
  ASSUME NEW ws \in Sockets, SocketInvOf(ws), SocketKept(ws), QueueKept(ws), StackKept(ws)
  PROVE  SocketInvOf(ws)'
  BY DEF SocketInvOf, SocketKept, QueueKept, StackKept, TaskKinds, NewIsUntouched,
         FailingIsUnregistered, ClosingStaysClosing, UnregisteredCannotOpen

\* ... and so does one that closes it, takes it out of the registry and leaves
\* no timer behind.
LEMMA Closed ==
  ASSUME NEW ws \in Sockets, readyState'[ws] = "CLOSED",
         ws \notin connections' \cup openTimer' \cup connectionTimer'
  PROVE  SocketInvOf(ws)'
  BY DEF SocketInvOf, NewIsUntouched, FailingIsUnregistered, ClosingStaysClosing,
         UnregisteredCannotOpen

\* _forceClose disturbs one socket.
LEMMA ForceCloseStep ==
  ASSUME TypeOK, SocketInv, NEW closed \in Sockets, ForceClose(closed),
         \A ws \in Sockets : QueueKept(ws) \/ ws = closed,
         \A ws \in Sockets : StackKept(ws)
  PROVE  SocketInv'
<1> SUFFICES ASSUME NEW ws \in Sockets PROVE SocketInvOf(ws)'
  BY DEF SocketInv
<1> USE DEF ForceClose, ClearTimers, Unregister, FireClose, TypeOK, SocketTypeOK
<1>1. CASE ws = closed
  BY <1>1, Closed
<1>2. CASE ws # closed
  BY <1>2, Kept DEF SocketInv, SocketKept
<1> QED BY <1>1, <1>2

LEMMA StackUnchanged ==
  ASSUME NEW ws \in Sockets, UNCHANGED stack
  PROVE  StackKept(ws)
  BY DEF StackKept, Suspended, In

LEMMA StackPopped ==
  ASSUME NEW ws \in Sockets, TypeOK, stack # <<>>, stack' = Tail(stack)
  PROVE  StackKept(ws)
  BY InTail DEF StackKept, Suspended, TypeOK

LEMMA StackPushed ==
  ASSUME NEW ws \in Sockets, TypeOK, NEW other \in Sockets,
         NEW kind \in {"handleOpen", "fireClose"},
         Suspend(Frame(kind, other))
  PROVE  Suspended("fireClose", ws)' =>
           Suspended("fireClose", ws) \/ (kind = "fireClose" /\ ws = other)
  BY FrameTypes, FramesDiffer, InPush DEF Suspended, Suspend, TypeOK

LEMMA DisconnectStep ==
  ASSUME TypeOK, SocketInv, NEW targets \in SUBSET Sockets,
         NEW below \in Seq(SocketFrame), below = stack \/ (stack # <<>> /\ below = Tail(stack)),
         DisconnectNext(targets, below)
  PROVE  SocketInv'
<1>1. PICK closed \in targets :
        /\ ForceClose(closed)
        /\ stack' = <<[kind |-> "disconnect", rest |-> targets \ {closed}]>> \o below
        /\ UNCHANGED microtasks
  BY DEF DisconnectNext
<1>2. ASSUME NEW ws \in Sockets PROVE StackKept(ws)
  <2>1. [kind |-> "disconnect", rest |-> targets \ {closed}] \in SocketFrame
    BY FrameTypes
  <2>2. Suspended("fireClose", ws)' => In(Frame("fireClose", ws), below)
    BY <1>1, <2>1, InPush, FramesDiffer DEF Suspended
  <2>3. In(Frame("fireClose", ws), below) => Suspended("fireClose", ws)
    BY InTail DEF Suspended, TypeOK
  <2> QED BY <2>2, <2>3 DEF StackKept
<1> QED BY <1>1, <1>2, QueueUnchanged, ForceCloseStep

\* doOpen finds a CONNECTING socket only if it is registered.
LEMMA DoOpenStep ==
  ASSUME TypeOK, SocketInv, NEW ws \in Sockets, DoOpen(ws),
         StillConnecting(ws) => ws \in connections,
         \A w \in Sockets : QueueKept(w)
  PROVE  SocketInv'
<1> SUFFICES ASSUME NEW w \in Sockets PROVE SocketInvOf(w)'
  BY DEF SocketInv
<1> USE DEF DoOpen, ClearTimers, StillConnecting, TypeOK, SocketTypeOK
<1>1. SocketInvOf(w)
  BY DEF SocketInv
<1>2. CASE StillConnecting(ws) /\ w = ws
  <2>1. Suspended("fireClose", ws)' => Suspended("fireClose", ws)
    BY <1>2, StackPushed
  <2>2. ~Suspended("fireClose", ws) /\ ~Queued("reject", ws) /\ ~Queued("finishClose", ws)
    BY <1>1, <1>2 DEF SocketInvOf, FailingIsUnregistered, ClosingStaysClosing
  <2>3. ~Queued("reject", ws)' /\ ~Queued("finishClose", ws)'
    BY <2>2 DEF QueueKept, TaskKinds
  <2>4. readyState'[ws] = "OPEN" /\ ws \in connections'
    BY <1>2
  <2>5. ws \notin openTimer' \cup connectionTimer'
    BY <1>2
  <2> QED
    BY <1>2, <2>1, <2>2, <2>3, <2>4, <2>5
       DEF SocketInvOf, NewIsUntouched, FailingIsUnregistered, ClosingStaysClosing,
           UnregisteredCannotOpen
<1>3. CASE StillConnecting(ws) /\ w # ws
  <2>1. SocketKept(w)
    BY <1>3 DEF SocketKept
  <2>2. StackKept(w)
    BY <1>3, StackPushed DEF StackKept
  <2> QED BY <1>1, <2>1, <2>2, Kept
<1>4. CASE ~StillConnecting(ws)
  <2>1. ws \notin openTimer
    BY <1>4 DEF SocketInv, SocketInvOf
  <2>2. SocketKept(w)
    BY <1>4, <2>1 DEF SocketKept
  <2>3. StackKept(w)
    BY <1>4, StackUnchanged
  <2> QED BY <1>1, <2>2, <2>3, Kept
<1> QED BY <1>2, <1>3, <1>4

LEMMA ConstructStep ==
  ASSUME TypeOK, SocketInv, NEW ws \in Sockets,
         ConstructRejected(ws) \/ ConstructAccepted(ws)
  PROVE  SocketInv'
<1> SUFFICES ASSUME NEW w \in Sockets PROVE SocketInvOf(w)'
  BY DEF SocketInv
<1> USE DEF TypeOK, SocketTypeOK
<1>1. SocketInvOf(w) /\ SocketInvOf(ws) /\ readyState[ws] = "NEW"
  BY DEF SocketInv, ConstructRejected, ConstructAccepted
<1>2. NewIsUntouched(ws)
  BY <1>1 DEF SocketInvOf
<1>3. StackKept(w)
  BY StackUnchanged DEF ConstructRejected, ConstructAccepted
<1>4. CASE w # ws
  <2>1. SocketKept(w)
    BY <1>4 DEF SocketKept, ConstructRejected, ConstructAccepted
  <2>2. QueueKept(w)
    BY <1>1, <1>2, <1>4, QueueOfOther, QueueConstructed
       DEF ConstructRejected, ConstructAccepted, TaskKinds
  <2> QED BY <1>1, <1>3, <2>1, <2>2, Kept
<1>5. CASE w = ws
  <2>1. ~Suspended("fireClose", ws)'
    BY <1>1, <1>2, <1>3, <1>5
       DEF StackKept, SocketInvOf, FailingIsUnregistered, NewIsUntouched
  <2>2. ws \notin connections \cup openTimer \cup connectionTimer
    BY <1>1 DEF SocketInvOf
  <2>3. readyState'[ws] = "CONNECTING"
    BY DEF ConstructRejected, ConstructAccepted
  <2>4. CASE ConstructRejected(ws)
    <3>1. ~Queued("doOpen", ws)' /\ ~Queued("finishClose", ws)'
      BY <1>2, <1>1, <2>4, QueueGrown
         DEF ConstructRejected, Queued, TaskKinds, NewIsUntouched
    <3>2. OpensAfterClose(ws, microtasks)'
      BY <3>1 DEF OpensAfterClose, Queued, In
    <3>3. ws \notin connections' \cup openTimer' \cup connectionTimer'
      BY <2>2, <2>4 DEF ConstructRejected
    <3> QED
      BY <1>5, <2>3, <3>1, <3>2, <3>3
         DEF SocketInvOf, NewIsUntouched, FailingIsUnregistered, ClosingStaysClosing,
             UnregisteredCannotOpen
  <2>5. CASE ConstructAccepted(ws)
    <3>1. /\ ~Queued("reject", ws)' /\ ~Queued("finishClose", ws)'
          /\ cooldown => Queued("cooldownClose", ws)' /\ OpensAfterClose(ws, microtasks)'
      BY <1>1, <1>2, <2>5, QueueConstructed DEF ConstructAccepted
    <3>2. ws \notin connections' => cooldown
      BY <2>5 DEF ConstructAccepted
    <3> QED
      BY <1>5, <2>1, <2>3, <3>1, <3>2
         DEF SocketInvOf, NewIsUntouched, FailingIsUnregistered, ClosingStaysClosing,
             UnregisteredCannotOpen
  <2> QED BY <2>4, <2>5
<1> QED BY <1>4, <1>5

LEMMA CloseStep ==
  ASSUME TypeOK, SocketInv, NEW ws \in Sockets, Close(ws)
  PROVE  SocketInv'
<1> SUFFICES ASSUME NEW w \in Sockets PROVE SocketInvOf(w)'
  BY DEF SocketInv
<1> USE DEF Close, ClearTimers, TypeOK, SocketTypeOK
<1>1. SocketInvOf(w)
  BY DEF SocketInv
<1>2. StackKept(w)
  BY StackUnchanged
<1>3. CASE w # ws
  <2>1. SocketKept(w)
    BY <1>3 DEF SocketKept
  <2>2. QueueKept(w)
    BY <1>3, QueueOfOther DEF TaskKinds
  <2> QED BY <1>1, <1>2, <2>1, <2>2, Kept
<1>4. CASE w = ws
  <2>1. Queued("reject", w)' => Queued("reject", w)
    BY QueueGrown DEF Queued, TaskKinds
  <2>2. readyState'[w] = "CLOSING"
    BY <1>4
  <2>3. /\ connections' = connections
        /\ w \notin openTimer' \cup connectionTimer'
    BY <1>4
  <2> QED
    BY <1>1, <1>2, <2>1, <2>2, <2>3
       DEF SocketInvOf, StackKept, NewIsUntouched, FailingIsUnregistered,
           ClosingStaysClosing, UnregisteredCannotOpen
<1> QED BY <1>3, <1>4

LEMMA ConnectionTimerStep ==
  ASSUME TypeOK, SocketInv, NEW ws \in Sockets, ConnectionTimerFires(ws)
  PROVE  SocketInv'
<1> SUFFICES ASSUME NEW w \in Sockets PROVE SocketInvOf(w)'
  BY DEF SocketInv
<1> USE DEF ConnectionTimerFires, TypeOK, SocketTypeOK
<1>1. SocketInvOf(w) /\ SocketInvOf(ws) /\ readyState[ws] = "CONNECTING"
  BY DEF SocketInv, SocketInvOf
<1>2. /\ Unregister(ws) /\ ClearTimers(ws) /\ FireErrorThenClose(ws)
      /\ UNCHANGED microtasks /\ microtasks = <<>>
  BY <1>1 DEF TimersMayFire
<1>3. QueueKept(w)
  BY <1>2, QueueUnchanged
<1>4. CASE w # ws
  <2>1. SocketKept(w)
    BY <1>2, <1>4 DEF SocketKept, Unregister, ClearTimers, FireErrorThenClose
  <2>2. StackKept(w)
    BY <1>2, <1>4, StackPushed DEF StackKept, FireErrorThenClose
  <2> QED BY <1>1, <1>3, <2>1, <2>2, Kept
<1>5. CASE w = ws
  <2>1. /\ \A kind : ~Queued(kind, w)'
        /\ OpensAfterClose(w, microtasks)'
    <3>1. microtasks' = <<>> /\ 1..Len(<<>>) = {}
      BY <1>2
    <3> QED BY <3>1 DEF Queued, In, OpensAfterClose
  <2>2. /\ readyState'[w] = "CONNECTING"
        /\ w \notin connections' \cup openTimer' \cup connectionTimer'
    BY <1>1, <1>2, <1>5 DEF Unregister, ClearTimers, FireErrorThenClose
  <2> QED
    BY <2>1, <2>2 DEF SocketInvOf, NewIsUntouched, FailingIsUnregistered,
                      ClosingStaysClosing, UnregisteredCannotOpen
<1> QED BY <1>4, <1>5

-----------------------------------------------------------------------------
\* Every step keeps the registry and the timers in agreement with readyState.
LEMMA SocketInvStep ==
  ASSUME TypeOK, SocketInv, [Next]_vars
  PROVE  SocketInv'
<1>types. SocketTypeOK /\ microtasks \in Seq(SocketTask) /\ stack \in Seq(SocketFrame)
  BY DEF TypeOK
<1>kept. ASSUME \A ws \in Sockets : SocketKept(ws) /\ QueueKept(ws) /\ StackKept(ws)
         PROVE  SocketInv'
  BY <1>kept, Kept DEF SocketInv
<1>same. UNCHANGED <<readyState, connections, openTimer, connectionTimer>>
           => \A ws \in Sockets : SocketKept(ws)
  BY DEF SocketKept
<1>run. ASSUME NEW kind \in TaskKinds, NEW ws \in Sockets, NextTask(kind, ws),
               kind # "cooldownClose" \/ ~IsLive(ws), microtasks' = Tail(microtasks)
        PROVE  \A w \in Sockets : QueueKept(w)
  BY <1>run, QueuePopped, TasksDiffer DEF NextTask, IsLive, TaskKinds
<1>pop. ASSUME stack # <<>>, stack' = Tail(stack)
        PROVE  \A w \in Sockets : StackKept(w)
  BY <1>pop, StackPopped
<1>1. ASSUME NEW ws \in Sockets, ConstructRejected(ws) \/ ConstructAccepted(ws)
      PROVE  SocketInv'
  BY <1>1, ConstructStep
<1>2. ASSUME NEW ws \in Sockets, Close(ws) PROVE SocketInv'
  BY <1>2, CloseStep
<1>3. ASSUME NEW ws \in Sockets, RandomDisconnect(ws) \/ TransientDisconnect(ws)
      PROVE  SocketInv'
  BY <1>3, ForceCloseStep, QueueUnchanged, StackUnchanged
     DEF RandomDisconnect, TransientDisconnect
<1>4. CASE Refuse \/ Reset \/ CooldownExpires
  BY <1>4, <1>kept, <1>same, QueueUnchanged, StackUnchanged
     DEF Refuse, Reset, CooldownExpires
<1>5. CASE Disconnect
  BY <1>5, <1>types, DisconnectStep DEF Disconnect, SocketTypeOK
<1>6. ASSUME NEW ws \in Sockets, RejectTask(ws) PROVE SocketInv'
  <2>1. \A w \in Sockets : SocketKept(w)
    BY <1>6, <1>same DEF RejectTask, FireErrorThenClose
  <2>2. \A w \in Sockets : QueueKept(w)
    BY <1>6, <1>run DEF RejectTask, TaskKinds
  <2>3. Queued("reject", ws)
    <3>1. microtasks[1] = Task("reject", ws) /\ 1 \in 1..Len(microtasks)
      BY <1>6, <1>types, EmptySeq DEF RejectTask, NextTask
    <3> QED BY <3>1 DEF Queued, In
  <2>4. \A w \in Sockets : StackKept(w)
    BY <1>6, <2>3, StackPushed DEF RejectTask, FireErrorThenClose, StackKept
  <2> QED BY <2>1, <2>2, <2>4, <1>kept
<1>7. ASSUME NEW ws \in Sockets, CooldownCloseTask(ws) PROVE SocketInv'
  <2>1. \A w \in Sockets : StackKept(w)
    BY <1>7, StackUnchanged DEF CooldownCloseTask
  <2>2. CASE IsLive(ws)
    <3>1. \A w \in Sockets : QueueKept(w) \/ w = ws
      BY <1>7, QueuePopped, TasksDiffer DEF CooldownCloseTask, NextTask
    <3> QED BY <1>7, <2>1, <2>2, <3>1, ForceCloseStep DEF CooldownCloseTask
  <2>3. CASE ~IsLive(ws)
    <3>1. \A w \in Sockets : QueueKept(w)
      BY <1>7, <2>3, <1>run DEF CooldownCloseTask, TaskKinds
    <3> QED BY <1>7, <2>1, <2>3, <3>1, <1>kept, <1>same DEF CooldownCloseTask
  <2> QED BY <2>2, <2>3
<1>8. ASSUME NEW ws \in Sockets, DoOpenTask(ws) PROVE SocketInv'
  <2>1. \A w \in Sockets : QueueKept(w)
    BY <1>8, <1>run DEF DoOpenTask, TaskKinds
  <2>2. ~OpensAfterClose(ws, microtasks)
    <3>1. /\ 1 \in 1..Len(microtasks) /\ microtasks[1] = Task("doOpen", ws)
          /\ 1..(1 - 1) = {}
      BY <1>8, <1>types, EmptySeq DEF DoOpenTask, NextTask
    <3> QED BY <3>1 DEF OpensAfterClose
  <2>3. StillConnecting(ws) => ws \in connections
    BY <2>2 DEF SocketInv, SocketInvOf, UnregisteredCannotOpen, StillConnecting
  <2> QED BY <1>8, <2>1, <2>3, DoOpenStep DEF DoOpenTask
<1>9. ASSUME NEW ws \in Sockets, OpenTimerFires(ws) PROVE SocketInv'
  <2>1. \A w \in Sockets : QueueKept(w)
    BY <1>9, QueueUnchanged DEF OpenTimerFires
  <2>2. ~Queued("cooldownClose", ws)
    BY <1>9 DEF OpenTimerFires, TimersMayFire, Queued, In
  <2>3. StillConnecting(ws) => ws \in connections
    BY <1>9, <2>2
       DEF SocketInv, SocketInvOf, UnregisteredCannotOpen, StillConnecting, OpenTimerFires
  <2> QED BY <1>9, <2>1, <2>3, DoOpenStep DEF OpenTimerFires
<1>10. ASSUME NEW ws \in Sockets, ConnectionTimerFires(ws) PROVE SocketInv'
  BY <1>10, ConnectionTimerStep
<1>11. ASSUME NEW ws \in Sockets, FinishCloseTask(ws) PROVE SocketInv'
  <2>1. Queued("finishClose", ws)
    <3>1. microtasks[1] = Task("finishClose", ws) /\ 1 \in 1..Len(microtasks)
      BY <1>11, <1>types, EmptySeq DEF FinishCloseTask, NextTask
    <3> QED BY <3>1 DEF Queued, In
  <2>2. ws \notin openTimer \cup connectionTimer
    BY <2>1 DEF SocketInv, SocketInvOf, ClosingStaysClosing
  <2>3. ASSUME NEW w \in Sockets PROVE SocketInvOf(w)'
    <3>1. QueueKept(w) /\ StackKept(w)
      BY <1>11, <1>run, StackUnchanged DEF FinishCloseTask, TaskKinds
    <3>2. CASE w = ws
      BY <1>11, <1>types, <2>2, <3>2, Closed
         DEF FinishCloseTask, Finish, Unregister, FireClose, SocketTypeOK
    <3>3. CASE w # ws
      <4>1. SocketKept(w)
        BY <1>11, <1>types, <3>3
           DEF FinishCloseTask, Finish, Unregister, FireClose, SocketTypeOK, SocketKept
      <4> QED BY <3>1, <4>1, Kept DEF SocketInv
    <3> QED BY <3>2, <3>3
  <2> QED BY <2>3 DEF SocketInv
<1>12. ASSUME NEW ws \in Sockets, ReturnToDoOpen(ws) PROVE SocketInv'
  BY <1>12, <1>kept, <1>same, <1>pop, QueueUnchanged
     DEF ReturnToDoOpen, ReturnTo, socketVars
<1>13. ASSUME NEW ws \in Sockets, ReturnToFireClose(ws) PROVE SocketInv'
  <2>1. Suspended("fireClose", ws)
    <3>1. stack[1] = Frame("fireClose", ws) /\ 1 \in 1..Len(stack)
      BY <1>13, <1>types, EmptySeq DEF ReturnToFireClose, ReturnTo
    <3> QED BY <3>1 DEF Suspended, In
  <2>2. ws \notin connections \cup openTimer \cup connectionTimer
    BY <2>1 DEF SocketInv, SocketInvOf, FailingIsUnregistered
  <2>3. ASSUME NEW w \in Sockets PROVE SocketInvOf(w)'
    <3>1. CASE w = ws
      BY <1>13, <1>types, <2>2, <3>1, Closed DEF ReturnToFireClose, FireClose, SocketTypeOK
    <3>2. CASE w # ws
      <4>1. SocketKept(w)
        BY <1>13, <1>types, <3>2 DEF ReturnToFireClose, FireClose, SocketTypeOK, SocketKept
      <4>2. QueueKept(w) /\ StackKept(w)
        BY <1>13, <1>pop, QueueUnchanged DEF ReturnToFireClose, ReturnTo
      <4> QED BY <4>1, <4>2, Kept DEF SocketInv
    <3> QED BY <3>1, <3>2
  <2> QED BY <2>3 DEF SocketInv
<1>14. CASE ReturnToDisconnect
  <2>1. stack # <<>> /\ Head(stack) \in SocketFrame /\ Tail(stack) \in Seq(SocketFrame)
    BY <1>14, <1>types, HeadTailProperties DEF ReturnToDisconnect
  <2>2. Head(stack).rest \in SUBSET Sockets
    BY <1>14, <2>1, FrameTypes DEF ReturnToDisconnect
  <2>3. CASE DisconnectNext(Head(stack).rest, Tail(stack))
    BY <2>1, <2>2, <2>3, DisconnectStep
  <2>4. CASE stack' = Tail(stack) /\ UNCHANGED <<socketVars, microtasks>>
    BY <2>1, <2>4, <1>kept, <1>same, <1>pop, QueueUnchanged DEF socketVars
  <2> QED BY <1>14, <2>3, <2>4 DEF ReturnToDisconnect
<1>15. CASE HandlerThrows
  BY <1>15, <1>kept, <1>same, <1>pop, QueueUnchanged DEF HandlerThrows, socketVars
<1>16. CASE UNCHANGED vars
  BY <1>16, <1>kept, <1>same, QueueUnchanged, StackUnchanged DEF vars, socketVars
<1> QED
  BY <1>1, <1>2, <1>3, <1>4, <1>5, <1>6, <1>7, <1>8, <1>9, <1>10, <1>11, <1>12,
     <1>13, <1>14, <1>15, <1>16 DEF Next, Client, Microtask, Return, TimerFires

LEMMA SocketInvariant == SafetySpec => [](TypeOK /\ SocketInv)
<1>1. Init => SocketInv
  <2> SUFFICES ASSUME Init, NEW ws \in Sockets PROVE SocketInvOf(ws)
    BY DEF SocketInv
  <2>1. readyState[ws] = "NEW" /\ connections = {} /\ openTimer = {} /\ connectionTimer = {}
    BY DEF Init, SocketInit
  <2>2. \A e : ~In(e, microtasks) /\ ~In(e, stack)
    BY DEF Init, In
  <2> QED
    BY <2>1, <2>2 DEF SocketInvOf, NewIsUntouched, FailingIsUnregistered,
         ClosingStaysClosing, UnregisteredCannotOpen, Queued, Suspended
<1>2. TypeOK /\ SocketInv /\ [Next]_vars => SocketInv'
  BY SocketInvStep
<1> QED BY <1>1, <1>2, TypeCorrect, PTL DEF SafetySpec

\* Whatever the client, its handlers, the microtasks and the timers do in whatever
\* order, an OPEN socket is in the relay's registry and a CLOSED one is not.
THEOREM RegistryIsCorrect == SafetySpec => []RegistryMatchesState
<1>1. SocketInv => RegistryMatchesState
  BY DEF SocketInv, SocketInvOf, RegistryMatchesState
<1> QED BY <1>1, SocketInvariant, PTL

\* ... and no timer outlives the attempt to connect that armed it.
THEOREM TimersAreCleared == SafetySpec => []TimersOnlyWhileConnecting
<1>1. TypeOK /\ SocketInv => TimersOnlyWhileConnecting
  BY DEF TypeOK, SocketTypeOK, SocketInv, SocketInvOf, TimersOnlyWhileConnecting
<1> QED BY <1>1, SocketInvariant, PTL

-----------------------------------------------------------------------------
(***************************************************************************)
(* How often a socket closes. SecondCloseNeedsError counts events; what    *)
(* bounds them is how many closes can still come: one as long as the       *)
(* socket is not past OPEN or its finishClose is queued, and one more as   *)
(* long as a failure is under way.                                         *)
(***************************************************************************)
MayBeClosed(ws) ==
  readyState[ws] \in {"NEW", "CONNECTING", "OPEN"} \/ Queued("finishClose", ws)

ClosesAreBudgeted(ws) ==
  closeEvents[ws] + (IF MayBeClosed(ws) THEN 1 ELSE 0)
                  + (IF Suspended("fireClose", ws) THEN 1 ELSE 0)
    <= IF ws \in errorEvents THEN 2 ELSE 1

\* A socket is rejected, finishes closing and fails once at most.
NothingTwice(ws) ==
  /\ Once(Task("reject", ws), microtasks)
  /\ Once(Task("finishClose", ws), microtasks)
  /\ Once(Frame("fireClose", ws), stack)

\* Whatever may make a socket fail is gone once it has failed.
FailsOnce(ws) ==
  /\ Queued("reject", ws) \/ ws \in connectionTimer \/ readyState[ws] = "NEW"
       => ws \notin errorEvents
  /\ Suspended("fireClose", ws) => ws \in errorEvents

CloseInvOf(ws) == NothingTwice(ws) /\ FailsOnce(ws) /\ ClosesAreBudgeted(ws)

CloseInv == \A ws \in Sockets : CloseInvOf(ws)

\* What a step may do to the queue and to the stack without bringing a close of ws
\* nearer.
NoNewClose(ws) ==
  /\ \A kind \in {"reject", "finishClose"} :
       /\ Queued(kind, ws)' => Queued(kind, ws)
       /\ Once(Task(kind, ws), microtasks) => Once(Task(kind, ws), microtasks)'

NoNewFailure(ws) ==
  /\ Suspended("fireClose", ws)' => Suspended("fireClose", ws)
  /\ Once(Frame("fireClose", ws), stack) => Once(Frame("fireClose", ws), stack)'

\* ... and to the rest of its state.
CountKept(ws) ==
  /\ readyState'[ws] = readyState[ws]
  /\ closeEvents'[ws] = closeEvents[ws]
  /\ ws \in errorEvents' <=> ws \in errorEvents
  /\ ws \in connectionTimer' => ws \in connectionTimer

LEMMA CloseInvKept ==
  ASSUME TypeOK, NEW ws \in Sockets, CloseInvOf(ws), CountKept(ws), NoNewClose(ws),
         NoNewFailure(ws)
  PROVE  CloseInvOf(ws)'
<1>1. NothingTwice(ws)'
  BY DEF CloseInvOf, NothingTwice, NoNewClose, NoNewFailure
<1>2. FailsOnce(ws)'
  BY DEF CloseInvOf, FailsOnce, NoNewClose, NoNewFailure, CountKept
<1>3. ClosesAreBudgeted(ws)'
  <2>1. MayBeClosed(ws)' => MayBeClosed(ws)
    BY DEF MayBeClosed, CountKept, NoNewClose
  <2>2. Suspended("fireClose", ws)' => Suspended("fireClose", ws)
    BY DEF NoNewFailure
  <2>3. closeEvents[ws] \in Nat /\ closeEvents'[ws] = closeEvents[ws]
    BY DEF TypeOK, SocketTypeOK, CountKept
  <2>4. ws \in errorEvents' <=> ws \in errorEvents
    BY DEF CountKept
  <2> QED BY <2>1, <2>2, <2>3, <2>4 DEF CloseInvOf, ClosesAreBudgeted
<1> QED BY <1>1, <1>2, <1>3 DEF CloseInvOf

LEMMA NoNewCloseUnchanged ==
  ASSUME NEW ws \in Sockets, UNCHANGED microtasks
  PROVE  NoNewClose(ws)
  BY DEF NoNewClose, Queued, In, Once

LEMMA NoNewClosePopped ==
  ASSUME NEW ws \in Sockets, TypeOK, microtasks # <<>>, microtasks' = Tail(microtasks)
  PROVE  NoNewClose(ws)
  BY InTail, OnceTail DEF NoNewClose, Queued, TypeOK

\* A reject or a finishClose that is queued for a socket that has none.
LEMMA CloseQueued ==
  ASSUME NEW ws \in Sockets, TypeOK, NEW kind \in TaskKinds, NEW other \in Sockets,
         microtasks' = Append(microtasks, Task(kind, other)),
         kind \in {"reject", "finishClose"} => ~Queued(kind, other)
  PROVE  \A k \in {"reject", "finishClose"} :
           /\ Queued(k, ws)' => Queued(k, ws) \/ (k = kind /\ ws = other)
           /\ Once(Task(k, ws), microtasks) => Once(Task(k, ws), microtasks)'
<1> SUFFICES ASSUME NEW k \in {"reject", "finishClose"}
             PROVE  /\ Queued(k, ws)' => Queued(k, ws) \/ (k = kind /\ ws = other)
                    /\ Once(Task(k, ws), microtasks) => Once(Task(k, ws), microtasks)'
  OBVIOUS
<1>1. Task(kind, other) \in SocketTask /\ microtasks \in Seq(SocketTask)
  BY TaskTypes DEF TaskKinds, TypeOK
<1>2. Queued(k, ws)' <=> Queued(k, ws) \/ Task(k, ws) = Task(kind, other)
  BY <1>1, InAppend DEF Queued
<1>3. Task(k, ws) = Task(kind, other) => k = kind /\ ws = other
  BY TasksDiffer
<1>4. Task(k, ws) # Task(kind, other) \/ ~In(Task(k, ws), microtasks)
  BY <1>3 DEF Queued
<1>5. Once(Task(k, ws), microtasks) => Once(Task(k, ws), microtasks')
  BY <1>1, <1>4, OnceAppend
<1> QED BY <1>2, <1>3, <1>5 DEF Once

\* The constructor's own tasks close nothing.
LEMMA NoNewCloseConstructed ==
  ASSUME NEW ws \in Sockets, NEW other \in Sockets, TypeOK, NEW delayed,
         microtasks' = microtasks \o ConstructorTasks(other, delayed)
  PROVE  NoNewClose(ws)
<1> DEFINE closing == Append(microtasks, Task("cooldownClose", other))
           after == IF cooldown THEN closing ELSE microtasks
           opening == Append(after, Task("doOpen", other))
<1>1. microtasks \in Seq(SocketTask) /\ closing \in Seq(SocketTask)
  BY QueueGrown DEF TypeOK, TaskKinds
<1>2. after \in Seq(SocketTask) /\ opening \in Seq(SocketTask)
  BY <1>1, QueueGrown DEF TaskKinds
<1>3. microtasks' = IF delayed THEN after ELSE opening
  BY ConstructorQueues DEF TypeOK
<1> SUFFICES ASSUME NEW k \in {"reject", "finishClose"}
             PROVE  /\ Queued(k, ws)' => Queued(k, ws)
                    /\ Once(Task(k, ws), microtasks) => Once(Task(k, ws), microtasks')
  BY DEF NoNewClose, Once
<1>4. /\ Task(k, ws) # Task("cooldownClose", other)
      /\ Task(k, ws) # Task("doOpen", other)
  BY TasksDiffer
<1>5. /\ In(Task(k, ws), closing) => In(Task(k, ws), microtasks)
      /\ Once(Task(k, ws), microtasks) => Once(Task(k, ws), closing)
  BY <1>1, <1>4, TaskTypes, InAppend, OnceAppend
<1>6. /\ In(Task(k, ws), after) => In(Task(k, ws), microtasks)
      /\ Once(Task(k, ws), microtasks) => Once(Task(k, ws), after)
  <2> HIDE DEF closing
  <2> QED BY <1>5
<1>7. /\ In(Task(k, ws), opening) => In(Task(k, ws), after)
      /\ Once(Task(k, ws), after) => Once(Task(k, ws), opening)
  <2> HIDE DEF after
  <2> QED BY <1>2, <1>4, TaskTypes, InAppend, OnceAppend
<1> HIDE DEF after, opening
<1> QED BY <1>3, <1>6, <1>7 DEF Queued

LEMMA NoNewFailureUnchanged ==
  ASSUME NEW ws \in Sockets, UNCHANGED stack
  PROVE  NoNewFailure(ws)
  BY DEF NoNewFailure, Suspended, In, Once

LEMMA NoNewFailurePopped ==
  ASSUME NEW ws \in Sockets, TypeOK, stack # <<>>, stack' = Tail(stack)
  PROVE  NoNewFailure(ws)
  BY InTail, OnceTail DEF NoNewFailure, Suspended, TypeOK

\* Any frame but its own fireClose.
LEMMA NoNewFailurePushed ==
  ASSUME NEW ws \in Sockets, TypeOK, NEW below \in Seq(SocketFrame),
         below = stack \/ (stack # <<>> /\ below = Tail(stack)),
         NEW frame \in SocketFrame, frame # Frame("fireClose", ws),
         stack' = <<frame>> \o below
  PROVE  NoNewFailure(ws)
<1>1. /\ In(Frame("fireClose", ws), below) => Suspended("fireClose", ws)
      /\ Once(Frame("fireClose", ws), stack) => Once(Frame("fireClose", ws), below)
  <2>1. CASE below = stack
    BY <2>1 DEF Suspended
  <2>2. CASE stack # <<>> /\ below = Tail(stack)
    BY <2>2, InTail, OnceTail DEF Suspended, TypeOK
  <2> QED BY <2>1, <2>2
<1>2. In(Frame("fireClose", ws), stack') => In(Frame("fireClose", ws), below)
  BY InPush
<1>3. Once(Frame("fireClose", ws), below) => Once(Frame("fireClose", ws), stack')
  BY OncePush
<1>4. Suspended("fireClose", ws)' <=> In(Frame("fireClose", ws), stack')
  BY DEF Suspended, In
<1>5. Once(Frame("fireClose", ws), stack)' <=> Once(Frame("fireClose", ws), stack')
  BY DEF Once
<1> QED BY <1>1, <1>2, <1>3, <1>4, <1>5 DEF NoNewFailure

-----------------------------------------------------------------------------
\* One close event of a live socket spends the one close it may have.
LEMMA CloseCounted ==
  ASSUME TypeOK, SocketInv, CloseInv, NEW closed \in Sockets, IsLive(closed),
         ForceClose(closed), UNCHANGED errorEvents,
         \A ws \in Sockets : NoNewClose(ws) /\ NoNewFailure(ws)
  PROVE  CloseInv'
<1> SUFFICES ASSUME NEW ws \in Sockets PROVE CloseInvOf(ws)'
  BY DEF CloseInv
<1> USE DEF ForceClose, ClearTimers, Unregister, FireClose
<1>1. CloseInvOf(ws) /\ NoNewClose(ws) /\ NoNewFailure(ws)
  BY DEF CloseInv
<1>2. CASE ws # closed
  <2>1. CountKept(ws)
    BY <1>2 DEF CountKept, TypeOK, SocketTypeOK
  <2> QED BY <1>1, <2>1, CloseInvKept
<1>3. CASE ws = closed
  <2>1. /\ closeEvents[ws] \in Nat /\ closeEvents'[ws] = closeEvents[ws] + 1
        /\ readyState'[ws] = "CLOSED" /\ connectionTimer' \subseteq connectionTimer
    BY <1>3 DEF TypeOK, SocketTypeOK
  <2>2. MayBeClosed(ws) /\ ~Queued("finishClose", ws)
    BY <1>3 DEF MayBeClosed, IsLive, SocketInv, SocketInvOf, ClosingStaysClosing
  <2>3. ~MayBeClosed(ws)'
    BY <1>1, <2>1, <2>2 DEF MayBeClosed, NoNewClose
  <2>4. ClosesAreBudgeted(ws)'
    BY <1>1, <2>1, <2>2, <2>3 DEF CloseInvOf, ClosesAreBudgeted, NoNewFailure
  <2>5. FailsOnce(ws)'
    BY <1>1, <2>1 DEF CloseInvOf, FailsOnce, NoNewClose, NoNewFailure
  <2>6. NothingTwice(ws)'
    BY <1>1 DEF CloseInvOf, NothingTwice, NoNewClose, NoNewFailure
  <2> QED BY <2>4, <2>5, <2>6 DEF CloseInvOf
<1> QED BY <1>2, <1>3

\* An error event opens the budget for the close that follows it.
LEMMA FailureCounted ==
  ASSUME TypeOK, CloseInv, NEW failed \in Sockets, FireErrorThenClose(failed),
         failed \notin errorEvents, readyState[failed] # "NEW",
         ~Queued("reject", failed)', failed \notin connectionTimer',
         connectionTimer' \subseteq connectionTimer,
         \A ws \in Sockets : NoNewClose(ws)
  PROVE  CloseInv'
<1> SUFFICES ASSUME NEW ws \in Sockets PROVE CloseInvOf(ws)'
  BY DEF CloseInv
<1>1. CloseInvOf(ws) /\ NoNewClose(ws)
  BY DEF CloseInv
<1>2. /\ stack' = <<Frame("fireClose", failed)>> \o stack
      /\ errorEvents' = errorEvents \cup {failed}
      /\ UNCHANGED <<readyState, closeEvents>>
  BY DEF FireErrorThenClose, Suspend
<1>3. stack \in Seq(SocketFrame) /\ Frame("fireClose", failed) \in SocketFrame
  BY FrameTypes DEF TypeOK
<1>4. CASE ws # failed
  <2>1. NoNewFailure(ws)
    BY <1>2, <1>3, <1>4, FramesDiffer, NoNewFailurePushed
  <2>2. CountKept(ws)
    BY <1>2, <1>4 DEF CountKept
  <2> QED BY <1>1, <2>1, <2>2, CloseInvKept
<1>5. CASE ws = failed
  <2>1. ~Suspended("fireClose", ws)
    BY <1>1, <1>5 DEF CloseInvOf, FailsOnce
  <2>2. Once(Frame("fireClose", ws), stack)'
    <3>1. Once(Frame("fireClose", ws), stack')
      BY <1>1, <1>2, <1>3, <1>5, <2>1, OncePush DEF CloseInvOf, NothingTwice, Suspended
    <3> QED BY <3>1 DEF Once
  <2>3. NothingTwice(ws)'
    BY <1>1, <2>2 DEF CloseInvOf, NothingTwice, NoNewClose
  <2>4. FailsOnce(ws)'
    BY <1>2, <1>5 DEF FailsOnce
  <2>5. MayBeClosed(ws)' => MayBeClosed(ws)
    BY <1>1, <1>2 DEF MayBeClosed, NoNewClose
  <2>6. closeEvents[ws] \in Nat /\ closeEvents'[ws] = closeEvents[ws]
    BY <1>2 DEF TypeOK, SocketTypeOK
  <2>7. ws \notin errorEvents /\ ws \in errorEvents'
    BY <1>2, <1>5
  <2>8. ClosesAreBudgeted(ws)'
    BY <1>1, <2>1, <2>5, <2>6, <2>7 DEF CloseInvOf, ClosesAreBudgeted
  <2> QED BY <2>3, <2>4, <2>8 DEF CloseInvOf
<1> QED BY <1>4, <1>5

LEMMA CloseInvStep ==
  ASSUME TypeOK, SocketInv, CloseInv, [Next]_vars
  PROVE  CloseInv'
<1>types. SocketTypeOK /\ microtasks \in Seq(SocketTask) /\ stack \in Seq(SocketFrame)
  BY DEF TypeOK
<1>kept. ASSUME \A ws \in Sockets : CountKept(ws) /\ NoNewClose(ws) /\ NoNewFailure(ws)
         PROVE  CloseInv'
  BY <1>kept, CloseInvKept DEF CloseInv
<1>same. ASSUME UNCHANGED <<readyState, closeEvents, errorEvents>>,
                connectionTimer' \subseteq connectionTimer
         PROVE  \A ws \in Sockets : CountKept(ws)
  BY <1>same DEF CountKept
<1>idle. UNCHANGED microtasks => \A ws \in Sockets : NoNewClose(ws)
  BY NoNewCloseUnchanged
<1>quiet. UNCHANGED stack => \A ws \in Sockets : NoNewFailure(ws)
  BY NoNewFailureUnchanged
<1>run. ASSUME NEW kind, NEW ws, NextTask(kind, ws), microtasks' = Tail(microtasks)
        PROVE  \A w \in Sockets : NoNewClose(w)
  BY <1>run, NoNewClosePopped DEF NextTask
<1>pop. ASSUME stack # <<>>, stack' = Tail(stack)
        PROVE  \A w \in Sockets : NoNewFailure(w)
  BY <1>pop, NoNewFailurePopped
<1>1. ASSUME NEW ws \in Sockets, ConstructRejected(ws) PROVE CloseInv'
  <2>1. /\ readyState[ws] = "NEW" /\ ~Queued("reject", ws)
        /\ microtasks' = Append(microtasks, Task("reject", ws))
        /\ readyState' = [readyState EXCEPT ![ws] = "CONNECTING"]
        /\ UNCHANGED <<connectionTimer, closeEvents, errorEvents, stack>>
    BY <1>1 DEF ConstructRejected, SocketInv, SocketInvOf, NewIsUntouched
  <2> SUFFICES ASSUME NEW w \in Sockets PROVE CloseInvOf(w)'
    BY DEF CloseInv
  <2>2. CloseInvOf(w) /\ NoNewFailure(w)
    BY <2>1, <1>quiet DEF CloseInv
  <2>3. \A k \in {"reject", "finishClose"} :
          /\ Queued(k, w)' => Queued(k, w) \/ (k = "reject" /\ w = ws)
          /\ Once(Task(k, w), microtasks) => Once(Task(k, w), microtasks)'
    BY <2>1, CloseQueued DEF TaskKinds
  <2>4. CASE w # ws
    BY <2>1, <2>2, <2>3, <2>4, CloseInvKept DEF CountKept, NoNewClose, TypeOK, SocketTypeOK
  <2>5. CASE w = ws
    <3>1. NothingTwice(w)'
      BY <2>2, <2>3 DEF CloseInvOf, NothingTwice, NoNewFailure
    <3>2. FailsOnce(w)'
      BY <2>1, <2>2, <2>5 DEF CloseInvOf, FailsOnce, NoNewFailure
    <3>3. MayBeClosed(w) /\ closeEvents'[w] = closeEvents[w] /\ closeEvents[w] \in Nat
      BY <2>1, <2>5 DEF MayBeClosed, TypeOK, SocketTypeOK
    <3>4. ClosesAreBudgeted(w)'
      BY <2>1, <2>2, <3>3 DEF CloseInvOf, ClosesAreBudgeted, NoNewFailure
    <3> QED BY <3>1, <3>2, <3>4 DEF CloseInvOf
  <2> QED BY <2>4, <2>5
<1>2. ASSUME NEW ws \in Sockets, ConstructAccepted(ws) PROVE CloseInv'
  <2>1. /\ readyState[ws] = "NEW"
        /\ readyState' = [readyState EXCEPT ![ws] = "CONNECTING"]
        /\ connectionTimer' \subseteq connectionTimer \cup {ws}
        /\ UNCHANGED <<closeEvents, errorEvents, stack>>
        /\ \E delayed \in ConnectDelays :
             microtasks' = microtasks \o ConstructorTasks(ws, delayed)
    BY <1>2 DEF ConstructAccepted
  <2> SUFFICES ASSUME NEW w \in Sockets PROVE CloseInvOf(w)'
    BY DEF CloseInv
  <2>2. CloseInvOf(w) /\ NoNewFailure(w) /\ NoNewClose(w)
    BY <2>1, <1>quiet, NoNewCloseConstructed DEF CloseInv
  <2>3. CASE w # ws
    <3>1. CountKept(w)
      BY <2>1, <2>3 DEF CountKept, TypeOK, SocketTypeOK
    <3> QED BY <2>2, <3>1, CloseInvKept
  <2>4. CASE w = ws
    <3>1. NothingTwice(w)'
      BY <2>2 DEF CloseInvOf, NothingTwice, NoNewFailure, NoNewClose
    <3>2. FailsOnce(w)'
      BY <2>1, <2>2, <2>4 DEF CloseInvOf, FailsOnce, NoNewFailure
    <3>3. MayBeClosed(w) /\ closeEvents'[w] = closeEvents[w] /\ closeEvents[w] \in Nat
      BY <2>1, <2>4 DEF MayBeClosed, TypeOK, SocketTypeOK
    <3>4. ClosesAreBudgeted(w)'
      BY <2>1, <2>2, <3>3 DEF CloseInvOf, ClosesAreBudgeted, NoNewFailure
    <3> QED BY <3>1, <3>2, <3>4 DEF CloseInvOf
  <2> QED BY <2>3, <2>4
<1>3. ASSUME NEW ws \in Sockets, Close(ws) PROVE CloseInv'
  <2>1. /\ IsLive(ws) /\ ~Queued("finishClose", ws)
        /\ microtasks' = Append(microtasks, Task("finishClose", ws))
        /\ readyState' = [readyState EXCEPT ![ws] = "CLOSING"]
        /\ connectionTimer' \subseteq connectionTimer
        /\ UNCHANGED <<closeEvents, errorEvents, stack>>
    BY <1>3 DEF Close, ClearTimers, SocketInv, SocketInvOf, ClosingStaysClosing, IsLive
  <2> SUFFICES ASSUME NEW w \in Sockets PROVE CloseInvOf(w)'
    BY DEF CloseInv
  <2>2. CloseInvOf(w) /\ NoNewFailure(w)
    BY <2>1, <1>quiet DEF CloseInv
  <2>3. \A k \in {"reject", "finishClose"} :
          /\ Queued(k, w)' => Queued(k, w) \/ (k = "finishClose" /\ w = ws)
          /\ Once(Task(k, w), microtasks) => Once(Task(k, w), microtasks)'
    BY <2>1, CloseQueued DEF TaskKinds
  <2>4. CASE w # ws
    BY <2>1, <2>2, <2>3, <2>4, CloseInvKept DEF CountKept, NoNewClose, TypeOK, SocketTypeOK
  <2>5. CASE w = ws
    <3>1. NothingTwice(w)'
      BY <2>2, <2>3 DEF CloseInvOf, NothingTwice, NoNewFailure
    <3>2. FailsOnce(w)'
      BY <2>1, <2>2, <2>3, <2>5
         DEF CloseInvOf, FailsOnce, NoNewFailure, TypeOK, SocketTypeOK
    <3>3. MayBeClosed(w) /\ closeEvents'[w] = closeEvents[w] /\ closeEvents[w] \in Nat
      BY <2>1, <2>5 DEF MayBeClosed, IsLive, TypeOK, SocketTypeOK
    <3>4. ClosesAreBudgeted(w)'
      BY <2>1, <2>2, <3>3 DEF CloseInvOf, ClosesAreBudgeted, NoNewFailure
    <3> QED BY <3>1, <3>2, <3>4 DEF CloseInvOf
  <2> QED BY <2>4, <2>5
<1>4. ASSUME NEW ws \in Sockets, RandomDisconnect(ws) \/ TransientDisconnect(ws)
      PROVE  CloseInv'
  BY <1>4, <1>idle, <1>quiet, CloseCounted DEF RandomDisconnect, TransientDisconnect, IsLive
<1>5. CASE Refuse \/ Reset \/ CooldownExpires
  BY <1>5, <1>kept, <1>same, <1>idle, <1>quiet DEF Refuse, Reset, CooldownExpires
<1>disconnect. ASSUME NEW targets \in SUBSET Sockets, NEW below \in Seq(SocketFrame),
                      below = stack \/ (stack # <<>> /\ below = Tail(stack)),
                      DisconnectNext(targets, below)
               PROVE  CloseInv'
  <2>1. PICK closed \in targets :
          /\ IsLive(closed) /\ ForceClose(closed)
          /\ stack' = <<[kind |-> "disconnect", rest |-> targets \ {closed}]>> \o below
          /\ UNCHANGED <<errorEvents, microtasks>>
    BY <1>disconnect DEF DisconnectNext
  <2>2. [kind |-> "disconnect", rest |-> targets \ {closed}] \in SocketFrame
    BY FrameTypes
  <2>3. \A ws \in Sockets : NoNewFailure(ws)
    BY <1>disconnect, <2>1, <2>2, FramesDiffer, NoNewFailurePushed
  <2> QED BY <2>1, <2>3, <1>idle, CloseCounted
<1>6. CASE Disconnect
  BY <1>6, <1>types, <1>disconnect DEF Disconnect, SocketTypeOK
<1>7. ASSUME NEW ws \in Sockets, RejectTask(ws) PROVE CloseInv'
  <2>1. /\ Head(microtasks) = Task("reject", ws) /\ microtasks # <<>>
        /\ microtasks' = Tail(microtasks) /\ FireErrorThenClose(ws)
        /\ UNCHANGED connectionTimer
    BY <1>7 DEF RejectTask, NextTask
  <2>2. Queued("reject", ws)
    <3>1. microtasks[1] = Task("reject", ws) /\ 1 \in 1..Len(microtasks)
      BY <2>1, <1>types, EmptySeq
    <3> QED BY <3>1 DEF Queued, In
  <2>3. /\ ws \notin errorEvents /\ Once(Task("reject", ws), microtasks)
        /\ ws \notin connectionTimer /\ readyState[ws] # "NEW"
    BY <2>2 DEF CloseInv, CloseInvOf, FailsOnce, NothingTwice, SocketInv, SocketInvOf,
                FailingIsUnregistered
  <2>4. ~Queued("reject", ws)'
    BY <2>1, <2>3, <1>types, OnceTail DEF Queued
  <2>5. \A w \in Sockets : NoNewClose(w)
    BY <1>7, <1>run DEF RejectTask
  <2> QED BY <2>1, <2>3, <2>4, <2>5, FailureCounted
<1>8. ASSUME NEW ws \in Sockets, CooldownCloseTask(ws) PROVE CloseInv'
  <2>1. \A w \in Sockets : NoNewClose(w) /\ NoNewFailure(w)
    BY <1>8, <1>run, <1>quiet DEF CooldownCloseTask
  <2>2. CASE IsLive(ws)
    BY <1>8, <2>1, <2>2, CloseCounted DEF CooldownCloseTask
  <2>3. CASE ~IsLive(ws)
    BY <1>8, <2>1, <2>3, <1>kept, <1>same DEF CooldownCloseTask
  <2> QED BY <2>2, <2>3
<1>open. ASSUME NEW ws \in Sockets, DoOpen(ws), \A w \in Sockets : NoNewClose(w)
         PROVE  CloseInv'
  <2>1. CASE StillConnecting(ws)
    <3>1. /\ readyState[ws] = "CONNECTING"
          /\ readyState' = [readyState EXCEPT ![ws] = "OPEN"]
          /\ connectionTimer' \subseteq connectionTimer
          /\ stack' = <<Frame("handleOpen", ws)>> \o stack
          /\ UNCHANGED <<closeEvents, errorEvents>>
      BY <1>open, <2>1 DEF DoOpen, ClearTimers, Suspend, StillConnecting
    <3> SUFFICES ASSUME NEW w \in Sockets PROVE CloseInvOf(w)'
      BY DEF CloseInv
    <3>2. CloseInvOf(w) /\ NoNewFailure(w) /\ NoNewClose(w)
      BY <1>open, <3>1, <1>types, FrameTypes, FramesDiffer, NoNewFailurePushed DEF CloseInv
    <3>3. CASE w # ws
      <4>1. CountKept(w)
        BY <3>1, <3>3 DEF CountKept, TypeOK, SocketTypeOK
      <4> QED BY <3>2, <4>1, CloseInvKept
    <3>4. CASE w = ws
      <4>1. NothingTwice(w)'
        BY <3>2 DEF CloseInvOf, NothingTwice, NoNewFailure, NoNewClose
      <4>2. FailsOnce(w)'
        BY <3>1, <3>2, <3>4
           DEF CloseInvOf, FailsOnce, NoNewFailure, NoNewClose, TypeOK, SocketTypeOK
      <4>3. MayBeClosed(w) /\ closeEvents'[w] = closeEvents[w] /\ closeEvents[w] \in Nat
        BY <3>1, <3>4 DEF MayBeClosed, TypeOK, SocketTypeOK
      <4>4. ClosesAreBudgeted(w)'
        BY <3>1, <3>2, <4>3 DEF CloseInvOf, ClosesAreBudgeted, NoNewFailure
      <4> QED BY <4>1, <4>2, <4>4 DEF CloseInvOf
    <3> QED BY <3>3, <3>4
  <2>2. CASE ~StillConnecting(ws)
    BY <1>open, <2>2, <1>kept, <1>same, <1>quiet DEF DoOpen
  <2> QED BY <2>1, <2>2
<1>9. ASSUME NEW ws \in Sockets, DoOpenTask(ws) \/ OpenTimerFires(ws) PROVE CloseInv'
  BY <1>9, <1>open, <1>run, <1>idle DEF DoOpenTask, OpenTimerFires
<1>10. ASSUME NEW ws \in Sockets, ConnectionTimerFires(ws) PROVE CloseInv'
  <2>1. \A w \in Sockets : NoNewClose(w)
    BY <1>10, <1>idle DEF ConnectionTimerFires
  <2>2. CASE readyState[ws] = "CONNECTING"
    <3>1. /\ FireErrorThenClose(ws) /\ ws \in connectionTimer
          /\ connectionTimer' = connectionTimer \ {ws}
          /\ microtasks' = <<>>
      BY <1>10, <2>2 DEF ConnectionTimerFires, ClearTimers, TimersMayFire
    <3>2. ws \notin errorEvents
      BY <3>1 DEF CloseInv, CloseInvOf, FailsOnce
    <3>3. ~Queued("reject", ws)'
      BY <3>1 DEF Queued, In
    <3> QED BY <2>1, <2>2, <3>1, <3>2, <3>3, FailureCounted
  <2>3. CASE readyState[ws] # "CONNECTING"
    BY <1>10, <2>1, <2>3, <1>kept, <1>same, <1>quiet DEF ConnectionTimerFires
  <2> QED BY <2>2, <2>3
<1>11. ASSUME NEW ws \in Sockets, FinishCloseTask(ws) PROVE CloseInv'
  <2>1. /\ Head(microtasks) = Task("finishClose", ws) /\ microtasks # <<>>
        /\ microtasks' = Tail(microtasks) /\ FireClose(ws)
        /\ UNCHANGED <<connectionTimer, errorEvents, stack>>
    BY <1>11 DEF FinishCloseTask, NextTask, Finish
  <2>2. Queued("finishClose", ws)
    <3>1. microtasks[1] = Task("finishClose", ws) /\ 1 \in 1..Len(microtasks)
      BY <2>1, <1>types, EmptySeq
    <3> QED BY <3>1 DEF Queued, In
  <2>3. ~Queued("finishClose", ws)'
    BY <2>1, <1>types, OnceTail DEF Queued, CloseInv, CloseInvOf, NothingTwice
  <2> SUFFICES ASSUME NEW w \in Sockets PROVE CloseInvOf(w)'
    BY DEF CloseInv
  <2>4. CloseInvOf(w) /\ NoNewFailure(w) /\ NoNewClose(w)
    BY <1>11, <2>1, <1>run, <1>quiet DEF CloseInv, FinishCloseTask
  <2>5. CASE w # ws
    <3>1. CountKept(w)
      BY <2>1, <2>5 DEF CountKept, FireClose, TypeOK, SocketTypeOK
    <3> QED BY <2>4, <3>1, CloseInvKept
  <2>6. CASE w = ws
    <3>1. /\ closeEvents[w] \in Nat /\ closeEvents'[w] = closeEvents[w] + 1
          /\ readyState'[w] = "CLOSED"
      BY <2>1, <2>6 DEF FireClose, TypeOK, SocketTypeOK
    <3>2. MayBeClosed(w) /\ ~MayBeClosed(w)'
      BY <2>2, <2>3, <2>6, <3>1 DEF MayBeClosed
    <3>3. ClosesAreBudgeted(w)'
      BY <2>1, <2>4, <3>1, <3>2 DEF CloseInvOf, ClosesAreBudgeted, NoNewFailure
    <3>4. FailsOnce(w)'
      BY <2>1, <2>4, <3>1 DEF CloseInvOf, FailsOnce, NoNewClose, NoNewFailure
    <3>5. NothingTwice(w)'
      BY <2>4 DEF CloseInvOf, NothingTwice, NoNewClose, NoNewFailure
    <3> QED BY <3>3, <3>4, <3>5 DEF CloseInvOf
  <2> QED BY <2>5, <2>6
<1>12. ASSUME NEW ws \in Sockets, ReturnToDoOpen(ws) PROVE CloseInv'
  BY <1>12, <1>kept, <1>same, <1>idle, <1>pop DEF ReturnToDoOpen, ReturnTo, socketVars
<1>13. ASSUME NEW ws \in Sockets, ReturnToFireClose(ws) PROVE CloseInv'
  <2>1. /\ Head(stack) = Frame("fireClose", ws) /\ stack # <<>>
        /\ stack' = Tail(stack) /\ FireClose(ws)
        /\ UNCHANGED <<connectionTimer, errorEvents, microtasks>>
    BY <1>13 DEF ReturnToFireClose, ReturnTo
  <2>2. Suspended("fireClose", ws)
    <3>1. stack[1] = Frame("fireClose", ws) /\ 1 \in 1..Len(stack)
      BY <2>1, <1>types, EmptySeq
    <3> QED BY <3>1 DEF Suspended, In
  <2>3. ~Suspended("fireClose", ws)'
    BY <2>1, <1>types, OnceTail DEF Suspended, CloseInv, CloseInvOf, NothingTwice
  <2> SUFFICES ASSUME NEW w \in Sockets PROVE CloseInvOf(w)'
    BY DEF CloseInv
  <2>4. CloseInvOf(w) /\ NoNewFailure(w) /\ NoNewClose(w)
    BY <2>1, <1>pop, <1>idle DEF CloseInv
  <2>5. CASE w # ws
    <3>1. CountKept(w)
      BY <2>1, <2>5 DEF CountKept, FireClose, TypeOK, SocketTypeOK
    <3> QED BY <2>4, <3>1, CloseInvKept
  <2>6. CASE w = ws
    <3>1. /\ closeEvents[w] \in Nat /\ closeEvents'[w] = closeEvents[w] + 1
          /\ readyState'[w] = "CLOSED"
      BY <2>1, <2>6 DEF FireClose, TypeOK, SocketTypeOK
    <3>2. MayBeClosed(w)' => MayBeClosed(w)
      BY <2>4, <3>1 DEF MayBeClosed, NoNewClose
    <3>3. ClosesAreBudgeted(w)'
      BY <2>1, <2>2, <2>3, <2>4, <2>6, <3>1, <3>2 DEF CloseInvOf, ClosesAreBudgeted
    <3>4. FailsOnce(w)'
      BY <2>1, <2>4, <3>1 DEF CloseInvOf, FailsOnce, NoNewClose, NoNewFailure
    <3>5. NothingTwice(w)'
      BY <2>4 DEF CloseInvOf, NothingTwice, NoNewClose, NoNewFailure
    <3> QED BY <3>3, <3>4, <3>5 DEF CloseInvOf
  <2> QED BY <2>5, <2>6
<1>14. CASE ReturnToDisconnect
  <2>1. stack # <<>> /\ Head(stack) \in SocketFrame /\ Tail(stack) \in Seq(SocketFrame)
    BY <1>14, <1>types, HeadTailProperties DEF ReturnToDisconnect
  <2>2. Head(stack).rest \in SUBSET Sockets
    BY <1>14, <2>1, FrameTypes DEF ReturnToDisconnect
  <2>3. CASE DisconnectNext(Head(stack).rest, Tail(stack))
    BY <2>1, <2>2, <2>3, <1>disconnect
  <2>4. CASE stack' = Tail(stack) /\ UNCHANGED <<socketVars, microtasks>>
    BY <2>1, <2>4, <1>kept, <1>same, <1>idle, <1>pop DEF socketVars
  <2> QED BY <1>14, <2>3, <2>4 DEF ReturnToDisconnect
<1>15. CASE HandlerThrows
  BY <1>15, <1>kept, <1>same, <1>idle, <1>pop DEF HandlerThrows, socketVars
<1>16. CASE UNCHANGED vars
  BY <1>16, <1>kept, <1>same, <1>idle, <1>quiet DEF vars, socketVars
<1> QED
  BY <1>1, <1>2, <1>3, <1>4, <1>5, <1>6, <1>7, <1>8, <1>9, <1>10, <1>11, <1>12,
     <1>13, <1>14, <1>15, <1>16 DEF Next, Client, Microtask, Return, TimerFires

\* However often the relay, the timeout, the cooldown and the client each close a
\* socket, it fires one close event, or two when an error event came before.
THEOREM SecondCloseFollowsError == SafetySpec => []SecondCloseNeedsError
<1>1. Init => CloseInv
  <2> SUFFICES ASSUME Init, NEW ws \in Sockets PROVE CloseInvOf(ws)
    BY DEF CloseInv
  <2>1. closeEvents[ws] = 0 /\ errorEvents = {}
    BY DEF Init, SocketInit
  <2>2. /\ \A e : ~In(e, microtasks) /\ ~In(e, stack)
        /\ \A e : Once(e, microtasks) /\ Once(e, stack)
    BY DEF Init, In, Once
  <2> QED
    BY <2>1, <2>2
       DEF CloseInvOf, NothingTwice, FailsOnce, ClosesAreBudgeted, Queued, Suspended
<1>2. TypeOK /\ SocketInv /\ CloseInv /\ [Next]_vars => CloseInv'
  BY CloseInvStep
<1>3. TypeOK /\ CloseInv => SecondCloseNeedsError
  <2> SUFFICES ASSUME TypeOK, CloseInv, NEW ws \in Sockets
               PROVE  closeEvents[ws] <= IF ws \in errorEvents THEN 2 ELSE 1
    BY DEF SecondCloseNeedsError
  <2>1. closeEvents[ws] \in Nat /\ ClosesAreBudgeted(ws)
    BY DEF TypeOK, SocketTypeOK, CloseInv, CloseInvOf
  <2> QED BY <2>1 DEF ClosesAreBudgeted
<1> QED BY <1>1, <1>2, <1>3, SocketInvariant, PTL DEF SafetySpec

-----------------------------------------------------------------------------
(***************************************************************************)
(* The safety half of the refinement: each step of the event loop is a     *)
(* step of the life cycle of one socket, or none.                          *)
(***************************************************************************)
LifecycleStep == Lifecycle!LifecycleNext \/ UNCHANGED <<readyState, connections>>

LEMMA NoLifecycleStep ==
  ASSUME UNCHANGED <<readyState, connections>>
  PROVE  LifecycleStep
  BY DEF LifecycleStep

\* Closing a socket that may be reached ends it; closing a CLOSED one again changes
\* nothing the life cycle sees.
LEMMA ClosingEnds ==
  ASSUME TypeOK, SocketInv, NEW ws \in Sockets, FireClose(ws), readyState[ws] # "NEW",
         Unregister(ws) \/ (ws \notin connections /\ UNCHANGED connections)
  PROVE  LifecycleStep
<1> USE DEF TypeOK, SocketTypeOK, ReadyStates
<1>1. connections' = connections \ {ws}
  BY DEF Unregister
<1>2. CASE readyState[ws] = "CLOSED"
  <2>1. UNCHANGED readyState
    BY <1>2 DEF FireClose
  <2>2. UNCHANGED connections
    BY <1>1, <1>2 DEF SocketInv, SocketInvOf
  <2> QED BY <2>1, <2>2, NoLifecycleStep
<1>3. CASE readyState[ws] # "CLOSED"
  <2>1. Lifecycle!End(ws)
    BY <1>1, <1>3 DEF Lifecycle!End, Lifecycle!Move, FireClose
  <2> QED BY <2>1 DEF LifecycleStep, Lifecycle!LifecycleNext
<1> QED BY <1>2, <1>3

LEMMA RefinementStep ==
  ASSUME TypeOK, SocketInv, [Next]_vars
  PROVE  LifecycleStep
<1> USE DEF TypeOK, SocketTypeOK
<1>abstract. ASSUME NEW ws \in Sockets,
                    \/ Lifecycle!Begin(ws) \/ Lifecycle!Open(ws)
                    \/ Lifecycle!StartClosing(ws) \/ Lifecycle!GiveUp(ws)
             PROVE  LifecycleStep
  BY <1>abstract DEF LifecycleStep, Lifecycle!LifecycleNext
<1>live. ASSUME NEW ws \in Sockets, IsLive(ws), ForceClose(ws) PROVE LifecycleStep
  BY <1>live, ClosingEnds DEF ForceClose, IsLive
<1>1. ASSUME NEW ws \in Sockets, ConstructRejected(ws) \/ ConstructAccepted(ws)
      PROVE  LifecycleStep
  <2>1. Lifecycle!Begin(ws)
    BY <1>1 DEF ConstructRejected, ConstructAccepted, Lifecycle!Begin, Lifecycle!Move
  <2> QED BY <2>1, <1>abstract
<1>2. ASSUME NEW ws \in Sockets, Close(ws) PROVE LifecycleStep
  <2>1. Lifecycle!StartClosing(ws)
    BY <1>2 DEF Close, IsLive, Lifecycle!StartClosing, Lifecycle!Move
  <2> QED BY <2>1, <1>abstract
<1>3. ASSUME NEW ws \in Sockets, RandomDisconnect(ws) \/ TransientDisconnect(ws)
      PROVE  LifecycleStep
  BY <1>3, <1>live DEF RandomDisconnect, TransientDisconnect, IsLive
<1>4. CASE Refuse \/ Reset \/ CooldownExpires
  BY <1>4, NoLifecycleStep DEF Refuse, Reset, CooldownExpires
<1>disconnect. ASSUME NEW targets \in SUBSET Sockets, NEW below,
                      DisconnectNext(targets, below)
               PROVE  LifecycleStep
  BY <1>disconnect, <1>live DEF DisconnectNext
<1>5. CASE Disconnect
  BY <1>5, <1>disconnect DEF Disconnect
<1>6. ASSUME NEW ws \in Sockets, RejectTask(ws) PROVE LifecycleStep
  BY <1>6, NoLifecycleStep DEF RejectTask, FireErrorThenClose
<1>7. ASSUME NEW ws \in Sockets, CooldownCloseTask(ws) PROVE LifecycleStep
  BY <1>7, <1>live, NoLifecycleStep DEF CooldownCloseTask
<1>open. ASSUME NEW ws \in Sockets, DoOpen(ws), StillConnecting(ws) => ws \in connections
         PROVE  LifecycleStep
  <2>1. CASE StillConnecting(ws)
    <3>1. Lifecycle!Open(ws)
      BY <1>open, <2>1 DEF DoOpen, StillConnecting, Lifecycle!Open, Lifecycle!Move
    <3> QED BY <3>1, <1>abstract
  <2>2. CASE ~StillConnecting(ws)
    BY <1>open, <2>2, NoLifecycleStep DEF DoOpen
  <2> QED BY <2>1, <2>2
<1>8. ASSUME NEW ws \in Sockets, DoOpenTask(ws) PROVE LifecycleStep
  <2>1. ~OpensAfterClose(ws, microtasks)
    <3>1. /\ 1 \in 1..Len(microtasks) /\ microtasks[1] = Task("doOpen", ws)
          /\ 1..(1 - 1) = {}
      BY <1>8, EmptySeq DEF DoOpenTask, NextTask
    <3> QED BY <3>1 DEF OpensAfterClose
  <2>2. StillConnecting(ws) => ws \in connections
    BY <2>1 DEF SocketInv, SocketInvOf, UnregisteredCannotOpen, StillConnecting
  <2> QED BY <1>8, <2>2, <1>open DEF DoOpenTask
<1>9. ASSUME NEW ws \in Sockets, OpenTimerFires(ws) PROVE LifecycleStep
  <2>1. ~Queued("cooldownClose", ws)
    BY <1>9 DEF OpenTimerFires, TimersMayFire, Queued, In
  <2>2. StillConnecting(ws) => ws \in connections
    BY <1>9, <2>1
       DEF SocketInv, SocketInvOf, UnregisteredCannotOpen, StillConnecting, OpenTimerFires
  <2> QED BY <1>9, <2>2, <1>open DEF OpenTimerFires
<1>10. ASSUME NEW ws \in Sockets, ConnectionTimerFires(ws) PROVE LifecycleStep
  <2>1. CASE readyState[ws] = "CONNECTING"
    <3>1. Lifecycle!GiveUp(ws)
      BY <1>10, <2>1
         DEF ConnectionTimerFires, Unregister, FireErrorThenClose, Lifecycle!GiveUp
    <3> QED BY <3>1, <1>abstract
  <2>2. CASE readyState[ws] # "CONNECTING"
    BY <1>10, <2>2, NoLifecycleStep DEF ConnectionTimerFires
  <2> QED BY <2>1, <2>2
<1>11. ASSUME NEW ws \in Sockets, FinishCloseTask(ws) PROVE LifecycleStep
  <2>1. Queued("finishClose", ws)
    <3>1. microtasks[1] = Task("finishClose", ws) /\ 1 \in 1..Len(microtasks)
      BY <1>11, EmptySeq DEF FinishCloseTask, NextTask
    <3> QED BY <3>1 DEF Queued, In
  <2>2. readyState[ws] # "NEW"
    BY <2>1 DEF SocketInv, SocketInvOf, ClosingStaysClosing
  <2> QED BY <1>11, <2>2, ClosingEnds DEF FinishCloseTask, Finish
<1>12. ASSUME NEW ws \in Sockets, ReturnToDoOpen(ws) PROVE LifecycleStep
  BY <1>12, NoLifecycleStep DEF ReturnToDoOpen, socketVars
<1>13. ASSUME NEW ws \in Sockets, ReturnToFireClose(ws) PROVE LifecycleStep
  <2>1. Suspended("fireClose", ws)
    <3>1. stack[1] = Frame("fireClose", ws) /\ 1 \in 1..Len(stack)
      BY <1>13, EmptySeq DEF ReturnToFireClose, ReturnTo
    <3> QED BY <3>1 DEF Suspended, In
  <2>2. readyState[ws] # "NEW" /\ ws \notin connections
    BY <2>1 DEF SocketInv, SocketInvOf, FailingIsUnregistered
  <2> QED BY <1>13, <2>2, ClosingEnds DEF ReturnToFireClose
<1>14. CASE ReturnToDisconnect
  <2>1. Head(stack) \in SocketFrame
    BY <1>14, HeadTailProperties DEF ReturnToDisconnect
  <2>2. Head(stack).rest \in SUBSET Sockets
    BY <1>14, <2>1, FrameTypes DEF ReturnToDisconnect
  <2>3. CASE DisconnectNext(Head(stack).rest, Tail(stack))
    BY <2>2, <2>3, <1>disconnect
  <2>4. CASE UNCHANGED <<socketVars, microtasks>>
    BY <2>4, NoLifecycleStep DEF socketVars
  <2> QED BY <1>14, <2>3, <2>4 DEF ReturnToDisconnect
<1>15. CASE HandlerThrows
  BY <1>15, NoLifecycleStep DEF HandlerThrows, socketVars
<1>16. CASE UNCHANGED vars
  BY <1>16, NoLifecycleStep DEF vars, socketVars
<1> QED
  BY <1>1, <1>2, <1>3, <1>4, <1>5, <1>6, <1>7, <1>8, <1>9, <1>10, <1>11, <1>12,
     <1>13, <1>14, <1>15, <1>16 DEF Next, Client, Microtask, Return, TimerFires

\* Through every interleaving, each socket goes forward through the states of the
\* WebSocket API, opens only when the relay can reach it, and is out of reach from
\* the step that closes it.
THEOREM LifecycleIsImplemented == SafetySpec => ImplementsLifecycleSafety
<1>1. Init => Lifecycle!LifecycleInit
  BY DEF Init, SocketInit, Lifecycle!LifecycleInit
<1>2. TypeOK /\ SocketInv /\ [Next]_vars
        => [Lifecycle!LifecycleNext]_(Lifecycle!lifecycleVars)
  BY RefinementStep DEF LifecycleStep, Lifecycle!lifecycleVars
<1> QED
  BY <1>1, <1>2, SocketInvariant, PTL
     DEF SafetySpec, ImplementsLifecycleSafety, Lifecycle!LifecycleSafety

=============================================================================
