---------------------- MODULE DeliveryScheduler_proofs ----------------------
(***************************************************************************)
(* Proofs about DeliveryScheduler, for any sockets, delays and bounds: the *)
(* timer covers the list, and no message is lost, doubled or overtaken.    *)
(***************************************************************************)
EXTENDS DeliveryScheduler, FiniteSetTheorems, SequenceTheorems, WellFoundedInduction, TLAPS

Queued == [socket : Sockets, sequence : Nat]

Typed ==
  /\ entries \subseteq Entry /\ IsFiniteSet(entries)
  /\ timer \subseteq Nat
  /\ nextSequence \in 0..MaxSent
  /\ microtasks \in Seq(Queued)
  /\ flush \in {"idle", "running", "handler"}
  /\ due \in Seq(Entry)
  /\ flush = "idle" => due = <<>>
  /\ socketState \in [Sockets -> {"open", "closing", "closed"}]
  /\ clock \in Nat
  /\ received \in [Sockets -> Seq(Nat)]
  /\ sent \in [0..(MaxSent - 1) -> SUBSET [socket : Sockets, delay : Nat]]

-----------------------------------------------------------------------------
(***************************************************************************)
(* Types.                                                                  *)
(***************************************************************************)

LEMMA OrdersAreSequences ==
  ASSUME NEW S, IsFiniteSet(S), NEW s \in Orders(S)
  PROVE  s \in Seq(S) /\ Len(s) = Cardinality(S) /\ DOMAIN s = 1..Cardinality(S)
BY FS_CardinalityType DEF Orders

LEMMA TypedStep == Typed /\ [Next]_vars => Typed'
<1> SUFFICES ASSUME Typed, [Next]_vars PROVE Typed'
  OBVIOUS
<1> USE SchedulerAssumption DEF Typed, schedulerVars, flushVars, historyVars
<1>1. ASSUME NEW ws \in Sockets, DeliverNow(ws) PROVE Typed'
  <2>1. [socket |-> ws, sequence |-> nextSequence] \in Queued
    BY DEF Queued
  <2>2. microtasks' \in Seq(Queued)
    BY <1>1, <2>1 DEF DeliverNow
  <2> QED BY <1>1, <2>2 DEF DeliverNow, Note
<1>2. ASSUME NEW entry \in Entry, Enqueue(entry) PROVE entries' \subseteq Entry /\ IsFiniteSet(entries') /\ timer' \subseteq Nat
  <2>1. IsFiniteSet(entries')
    BY <1>2, FS_AddElement DEF Enqueue
  <2>2. entries' \subseteq Entry
    BY <1>2 DEF Enqueue
  <2>3. timer' \subseteq Nat
    BY <1>2, <2>2 DEF Enqueue, TimerFor, Earliest, Entry, Delivery, DisconnectTask
  <2> QED BY <2>1, <2>2, <2>3
<1>3. ASSUME NEW ws \in Sockets, NEW delay \in Delays, DeliverLater(ws, delay) PROVE Typed'
  <2> DEFINE entry == [kind |-> "delivery", dueAt |-> clock + delay, sequence |-> nextSequence, socket |-> ws]
  <2>1. entry \in Entry
    BY DEF Entry, Delivery
  <2>2. Enqueue(entry)
    BY <1>3 DEF DeliverLater
  <2> HIDE DEF entry
  <2>3. sent' \in [0..(MaxSent - 1) -> SUBSET [socket : Sockets, delay : Nat]]
    BY <1>3 DEF DeliverLater, Note
  <2>4. nextSequence' \in 0..MaxSent
    BY <1>3 DEF DeliverLater, Enqueue
  <2> QED BY <1>2, <1>3, <2>1, <2>2, <2>3, <2>4 DEF DeliverLater, Note
<1>4. ASSUME NEW delay \in TaskDelays, Schedule(delay) PROVE Typed'
  <2> DEFINE entry == [kind |-> "task", dueAt |-> clock + delay, sequence |-> nextSequence]
  <2>1. entry \in Entry
    BY DEF Entry, DisconnectTask
  <2>2. Enqueue(entry)
    BY <1>4 DEF Schedule
  <2> HIDE DEF entry
  <2>3. nextSequence' \in 0..MaxSent
    BY <1>4 DEF Schedule, Enqueue
  <2> QED BY <1>2, <1>4, <2>1, <2>2, <2>3 DEF Schedule
<1>5. ASSUME NEW ws, CancelSocket(ws)
      PROVE  entries' \subseteq Entry /\ IsFiniteSet(entries') /\ timer' \subseteq Nat
  <2>1. entries' \subseteq entries
    BY <1>5 DEF CancelSocket
  <2>2. IsFiniteSet(entries')
    BY <2>1, FS_Subset
  <2>3. timer' \subseteq Nat
    BY <1>5, <2>1 DEF CancelSocket, Earliest, Entry, Delivery, DisconnectTask
  <2> QED BY <2>1, <2>2, <2>3
<1>6. ASSUME NEW ws \in Sockets, StartClosing(ws) \/ FinishClosing(ws) \/ ForceClose(ws) PROVE Typed'
  BY <1>5, <1>6 DEF StartClosing, FinishClosing, ForceClose
<1>7. CASE Clear
  BY <1>7, FS_EmptySet DEF Clear
<1>8. ASSUME NEW ws \in Sockets, NEW n \in Nat, HandOver(ws, n) PROVE received' \in [Sockets -> Seq(Nat)]
  BY <1>8 DEF HandOver
<1>9. CASE RunMicrotask
  <2>1. Head(microtasks) \in Queued /\ Tail(microtasks) \in Seq(Queued)
    BY <1>9 DEF RunMicrotask
  <2>2. received' \in [Sockets -> Seq(Nat)]
    BY <1>8, <1>9, <2>1 DEF RunMicrotask, Queued
  <2> QED BY <1>9, <2>1, <2>2 DEF RunMicrotask
<1>10. CASE TimerFires
  <2>1. entries' \subseteq entries /\ DueBy(clock) \subseteq entries
    BY <1>10 DEF TimerFires, NotYetDue, DueBy
  <2>2. IsFiniteSet(entries') /\ IsFiniteSet(DueBy(clock))
    BY <2>1, FS_Subset
  <2>3. due' \in Seq(DueBy(clock))
    BY <1>10, <2>2, OrdersAreSequences DEF TimerFires
  <2>4. due' \in Seq(Entry)
    BY <2>1, <2>3
  <2> QED BY <1>10, <2>1, <2>2, <2>4 DEF TimerFires
<1>11. CASE FlushDelivery
  <2>1. Head(due) \in Entry /\ Tail(due) \in Seq(Entry) /\ flush # "idle"
    BY <1>11 DEF FlushDelivery
  <2>2. Head(due).socket \in Sockets /\ Head(due).sequence \in Nat
    BY <1>11, <2>1 DEF FlushDelivery, Entry, Delivery, DisconnectTask
  <2>3. received' \in [Sockets -> Seq(Nat)]
    BY <1>8, <1>11, <2>2 DEF FlushDelivery
  <2> QED BY <1>11, <2>1, <2>3 DEF FlushDelivery, HandlerOf
<1>12. CASE FlushTask
  BY <1>12 DEF FlushTask
<1>13. CASE DisconnectNext
  <2>1. PICK ws \in targets :
          /\ flush' = HandlerOf(ws)
          /\ IF socketState[ws] = "open"
               THEN /\ socketState' = [socketState EXCEPT ![ws] = "closed"]
                    /\ CancelSocket(ws)
               ELSE UNCHANGED <<socketState, entries, timer>>
    BY <1>13 DEF DisconnectNext
  <2> QED BY <1>5, <1>13, <2>1 DEF DisconnectNext, HandlerOf
<1>14. CASE FlushEnds
  BY <1>14 DEF FlushEnds, Rearmed, Earliest, Entry, Delivery, DisconnectTask
<1>15. CASE FlushThrows
  BY <1>15 DEF FlushThrows
<1>16. CASE Tick
  BY <1>16 DEF Tick
<1>17. CASE UNCHANGED vars
  BY <1>17 DEF vars
<1> QED
  BY <1>1, <1>3, <1>4, <1>6, <1>7, <1>9, <1>10, <1>11, <1>12, <1>13, <1>14, <1>15, <1>16, <1>17 DEF Next, FlushStep

-----------------------------------------------------------------------------
(***************************************************************************)
(* The timer.                                                              *)
(***************************************************************************)

LEMMA EarliestOfSome ==
  ASSUME NEW es \in SUBSET Entry, es # {}
  PROVE  \E e \in es : (\A d \in es : e.dueAt <= d.dueAt) /\ Earliest(es) = {e.dueAt}
<1> DEFINE T == {e.dueAt : e \in es}
<1>1. T \subseteq Nat /\ T # {}
  BY DEF Entry, Delivery, DisconnectTask
<1>2. PICK t \in T : \A u \in T : ~(<<u, t>> \in OpToRel(<, Nat))
  BY <1>1, NatLessThanWellFounded, WFMin
<1>3. \A u \in T : t <= u
  <2>1. ASSUME NEW u \in Nat, u < t PROVE <<u, t>> \in OpToRel(<, Nat)
    BY <1>1, <2>1, Zenon DEF OpToRel
  <2>2. \A u \in T : ~(u < t)
    BY <1>1, <1>2, <2>1, Zenon
  <2> QED BY <1>1, <2>2
<1>4. PICK e \in es : e.dueAt = t
  OBVIOUS
<1>5. \A d \in es : e.dueAt <= d.dueAt
  BY <1>3, <1>4
<1>6. \A d \in es : d.dueAt \in Nat
  BY <1>1
<1> QED BY <1>5, <1>6 DEF Earliest

LEMMA EarliestOfNone == Earliest({}) = {}
  BY DEF Earliest

\* A new entry counts for the timer only when it is due before the others.
LEMMA EarliestOfMore ==
  ASSUME NEW es \in SUBSET Entry, NEW e \in Entry, NEW t \in Earliest(es), ~(e.dueAt < t)
  PROVE  Earliest(es \cup {e}) = Earliest(es)
<1>1. es # {}
  BY DEF Earliest
<1>2. PICK d \in es : (\A c \in es : d.dueAt <= c.dueAt) /\ Earliest(es) = {d.dueAt}
  BY <1>1, EarliestOfSome
<1>3. PICK f \in es \cup {e} :
        (\A c \in es \cup {e} : f.dueAt <= c.dueAt) /\ Earliest(es \cup {e}) = {f.dueAt}
  BY <1>1, EarliestOfSome
<1>4. \A c \in es \cup {e} : c.dueAt \in Nat
  BY DEF Entry, Delivery, DisconnectTask
<1>5. d.dueAt = f.dueAt
  BY <1>2, <1>3, <1>4
<1> QED BY <1>2, <1>3, <1>5

TimerInv == Typed /\ TimerCoversEntries

LEMMA TimerStep == TimerInv /\ [Next]_vars => TimerCoversEntries'
<1> SUFFICES ASSUME TimerInv, [Next]_vars PROVE TimerCoversEntries'
  OBVIOUS
<1>0. Typed'
  BY TypedStep DEF TimerInv
<1>a. entries = {} <=> Earliest(entries) = {}
  BY EarliestOfSome, EarliestOfNone DEF TimerInv, Typed
<1>b. entries' = {} <=> Earliest(entries') = {}
  BY <1>0, EarliestOfSome, EarliestOfNone DEF Typed
<1>1. ASSUME NEW entry \in Entry, Enqueue(entry)
      PROVE  timer' = Earliest(entries') /\ timer' # {}
  <2>1. entries' = entries \cup {entry} /\ timer' = TimerFor(entries', entry.dueAt)
    BY <1>1 DEF Enqueue
  <2>2. CASE timer = {} \/ \E t \in timer : entry.dueAt < t
    BY <1>b, <2>1, <2>2 DEF TimerFor
  <2>3. CASE timer # {} /\ ~\E t \in timer : entry.dueAt < t
    <3>1. timer = Earliest(entries) /\ timer' = timer
      BY <2>1, <2>3 DEF TimerInv, TimerCoversEntries, TimerFor
    <3> QED BY <2>1, <2>3, <3>1, EarliestOfMore DEF TimerInv, Typed
  <2> QED BY <2>2, <2>3
<1>2. ASSUME NEW ws, CancelSocket(ws), UNCHANGED disturbed,
             flush' = "idle" => flush = "idle"
      PROVE  TimerCoversEntries'
  BY <1>2, <1>b DEF CancelSocket, TimerInv, TimerCoversEntries
<1>3. ASSUME NEW ws \in Sockets, NEW delay \in Delays, DeliverLater(ws, delay)
      PROVE  TimerCoversEntries'
  <2> DEFINE entry == [kind |-> "delivery", dueAt |-> clock + delay, sequence |-> nextSequence, socket |-> ws]
  <2>1. entry \in Entry
    BY SchedulerAssumption DEF Entry, Delivery, TimerInv, Typed
  <2>2. Enqueue(entry)
    BY <1>3 DEF DeliverLater
  <2> HIDE DEF entry
  <2> QED BY <1>1, <2>1, <2>2, <1>b DEF TimerCoversEntries
<1>4. ASSUME NEW delay \in TaskDelays, Schedule(delay) PROVE TimerCoversEntries'
  <2> DEFINE entry == [kind |-> "task", dueAt |-> clock + delay, sequence |-> nextSequence]
  <2>1. entry \in Entry
    BY SchedulerAssumption DEF Entry, DisconnectTask, TimerInv, Typed
  <2>2. Enqueue(entry)
    BY <1>4 DEF Schedule
  <2> HIDE DEF entry
  <2> QED BY <1>1, <2>1, <2>2, <1>b DEF TimerCoversEntries
<1>5. ASSUME NEW ws \in Sockets, FinishClosing(ws) \/ ForceClose(ws) PROVE TimerCoversEntries'
  BY <1>2, <1>5 DEF FinishClosing, ForceClose, flushVars, historyVars
<1>6. CASE DisconnectNext
  <2>1. PICK ws \in targets :
          /\ flush' = HandlerOf(ws)
          /\ CancelSocket(ws) \/ UNCHANGED <<entries, timer>>
    BY <1>6 DEF DisconnectNext
  <2>2. flush' # "idle" /\ UNCHANGED disturbed
    BY <1>6, <2>1 DEF HandlerOf, DisconnectNext, historyVars
  <2> QED BY <1>2, <2>1, <2>2 DEF TimerInv, TimerCoversEntries
<1>7. CASE Clear \/ TimerFires
  BY <1>7, <1>b DEF Clear, TimerFires, TimerCoversEntries
<1>8. CASE FlushEnds
  BY <1>8, <1>a, <1>b DEF FlushEnds, Rearmed, TimerInv, TimerCoversEntries, historyVars
<1>9. CASE FlushThrows
  BY <1>9 DEF FlushThrows, TimerInv, TimerCoversEntries, schedulerVars
<1>10. CASE FlushDelivery \/ FlushTask
  BY <1>10 DEF FlushDelivery, FlushTask, HandlerOf, TimerInv, TimerCoversEntries, schedulerVars
<1>11. ASSUME UNCHANGED <<entries, timer, flush, disturbed>> PROVE TimerCoversEntries'
  BY <1>11 DEF TimerInv, TimerCoversEntries
<1> QED
  BY <1>3, <1>4, <1>5, <1>6, <1>7, <1>8, <1>9, <1>10, <1>11
  DEF Next, FlushStep, DeliverNow, StartClosing, RunMicrotask, Tick, Note, vars,
      schedulerVars, flushVars, historyVars

LEMMA TimerInvariant == SafetySpec => []TimerInv
<1>1. Init => TimerInv
  BY SchedulerAssumption, FS_EmptySet, EarliestOfNone
  DEF Init, TimerInv, Typed, TimerCoversEntries
<1>2. TimerInv /\ [Next]_vars => TimerInv'
  BY TypedStep, TimerStep DEF TimerInv
<1> QED BY <1>1, <1>2, PTL DEF SafetySpec

\* For any delays and any number of entries, the one timer stands for the whole list.
THEOREM TimerCoversTheList == SafetySpec => []TimerCoversEntries
BY TimerInvariant, PTL DEF TimerInv

-----------------------------------------------------------------------------
(***************************************************************************)
(* What a step does to the messages under way, whichever action it is: one *)
(* is put in the list or queued, some are dropped, the due ones are taken  *)
(* out, one is handed over, or a flush passes over what is left to it.     *)
(***************************************************************************)

Lists(e) ==
  /\ e \in Entry /\ e.sequence = nextSequence
  /\ nextSequence < MaxSent /\ nextSequence' = nextSequence + 1
  /\ entries' = entries \cup {e}
  /\ e.kind = "delivery" =>
       \E delay \in Nat \ {0} :
         /\ e.dueAt = clock + delay
         /\ sent' = [sent EXCEPT ![nextSequence] = {[socket |-> e.socket, delay |-> delay]}]
  /\ e.kind = "task" => sent' = sent
  /\ UNCHANGED <<due, microtasks, received, socketState, disturbed, clock>>

Drops ==
  /\ entries' \subseteq entries
  /\ \A n \in DOMAIN sent :
       \/ sent'[n] = sent[n]
       \/ sent'[n] = {} /\ (\E e \in entries : e.sequence = n) /\ entries' = {}
  /\ \A ws \in Sockets : socketState'[ws] = "open" => socketState[ws] = "open"
  /\ \A e \in entries \ entries' :
       e.kind = "delivery" /\ e.sequence \in DOMAIN sent =>
         sent'[e.sequence] = {} \/ socketState'[e.socket] # "open"
  /\ clock <= clock'
  /\ UNCHANGED <<due, microtasks, received, nextSequence, disturbed>>

PassesOver ==
  /\ \/ due # <<>> /\ Head(due).kind = "task" /\ due' = Tail(due) /\ UNCHANGED disturbed
     \/ due' = <<>> /\ disturbed' = disturbed \cup {"thrown"}
  /\ UNCHANGED <<entries, microtasks, received, nextSequence, sent, socketState, clock>>

LEMMA EntryFields ==
  \A e \in Entry : /\ e.sequence \in Nat /\ e.dueAt \in Nat /\ e.kind \in {"delivery", "task"}
                   /\ e.kind = "delivery" => e.socket \in Sockets
BY DEF Entry, Delivery, DisconnectTask

LEMMA StepShapes ==
  ASSUME Typed, [Next]_vars
  PROVE  \/ \E e \in Entry : Lists(e)
         \/ \E ws \in Sockets : DeliverNow(ws)
         \/ Drops \/ PassesOver
         \/ RunMicrotask \/ FlushDelivery \/ TimerFires
<1> USE SchedulerAssumption DEF Typed
<1>1. ASSUME NEW ws \in Sockets, NEW delay \in Delays, DeliverLater(ws, delay)
      PROVE  \E e \in Entry : Lists(e)
  <2> DEFINE entry == [kind |-> "delivery", dueAt |-> clock + delay, sequence |-> nextSequence, socket |-> ws]
  <2>1. entry \in Entry /\ entry.kind = "delivery" /\ entry.dueAt = clock + delay
        /\ entry.sequence = nextSequence /\ entry.socket = ws /\ delay \in Nat \ {0}
    BY <1>1 DEF Entry, Delivery, DeliverLater
  <2>2. Enqueue(entry)
    BY <1>1 DEF DeliverLater
  <2> HIDE DEF entry
  <2> QED BY <1>1, <2>1, <2>2 DEF Lists, Enqueue, DeliverLater, Note, flushVars
<1>2. ASSUME NEW delay \in TaskDelays, Schedule(delay) PROVE \E e \in Entry : Lists(e)
  <2> DEFINE entry == [kind |-> "task", dueAt |-> clock + delay, sequence |-> nextSequence]
  <2>1. entry \in Entry /\ entry.kind = "task" /\ entry.sequence = nextSequence
    BY DEF Entry, DisconnectTask
  <2>2. Enqueue(entry)
    BY <1>2 DEF Schedule
  <2> HIDE DEF entry
  <2> QED BY <1>2, <2>1, <2>2 DEF Lists, Enqueue, Schedule, flushVars, historyVars
<1>3. ASSUME NEW ws \in Sockets, CancelSocket(ws), socketState' = [socketState EXCEPT ![ws] = "closed"],
             UNCHANGED <<sent, clock, due, microtasks, received, nextSequence, disturbed>>
      PROVE  Drops
  BY <1>3 DEF CancelSocket, IsFor, Drops
<1>4. ASSUME NEW ws \in Sockets, FinishClosing(ws) \/ ForceClose(ws) PROVE Drops
  BY <1>3, <1>4 DEF FinishClosing, ForceClose, flushVars, historyVars
<1>5. ASSUME UNCHANGED <<entries, sent, due, microtasks, received, nextSequence, disturbed>>,
             clock <= clock',
             \A ws \in Sockets : socketState'[ws] = "open" => socketState[ws] = "open"
      PROVE  Drops
  BY <1>5 DEF Drops
<1>6. CASE DisconnectNext
  <2>1. PICK ws \in targets :
          IF socketState[ws] = "open"
            THEN /\ socketState' = [socketState EXCEPT ![ws] = "closed"]
                 /\ CancelSocket(ws)
            ELSE UNCHANGED <<socketState, entries, timer>>
    BY <1>6 DEF DisconnectNext
  <2>2. CASE ws \in Sockets
    BY <1>3, <1>5, <1>6, <2>1, <2>2 DEF DisconnectNext, historyVars
  <2>3. CASE ws \notin Sockets
    <3>1. \A e \in entries : ~IsFor(e, ws)
      BY <2>3, EntryFields DEF IsFor
    <3>2. entries' = entries
      BY <2>1, <3>1 DEF CancelSocket
    <3>3. socketState' = socketState
      BY <2>1, <2>3
    <3> QED BY <1>5, <1>6, <3>2, <3>3 DEF DisconnectNext, historyVars
  <2> QED BY <2>2, <2>3
<1>7. CASE Clear
  BY <1>7 DEF Clear, Drops, flushVars
<1>8. ASSUME NEW ws \in Sockets, StartClosing(ws) PROVE Drops
  BY <1>5, <1>8 DEF StartClosing, schedulerVars, flushVars, historyVars
<1>9. CASE Tick
  BY <1>5, <1>9 DEF Tick, schedulerVars, flushVars, historyVars
<1>10. CASE FlushEnds \/ UNCHANGED vars
  BY <1>5, <1>10 DEF FlushEnds, vars, schedulerVars, flushVars, historyVars
<1>11. CASE FlushTask \/ FlushThrows
  BY <1>11 DEF FlushTask, FlushThrows, PassesOver, schedulerVars, historyVars
<1> QED
  BY <1>1, <1>2, <1>4, <1>6, <1>7, <1>8, <1>9, <1>10, <1>11 DEF Next, FlushStep

-----------------------------------------------------------------------------
(***************************************************************************)
(* Nothing is handed over twice.                                           *)
(***************************************************************************)

\* The numbers that Waiting is true of.
Waits == {e.sequence : e \in entries} \cup {due[i].sequence : i \in DOMAIN due}
           \cup {microtasks[i].sequence : i \in DOMAIN microtasks}

Distinct(seq) == \A i, j \in DOMAIN seq : seq[i].sequence = seq[j].sequence => i = j

\* Each number is in one place only.
OnceInv ==
  /\ \A e, f \in entries : e.sequence = f.sequence => e = f
  /\ Distinct(due) /\ Distinct(microtasks)
  /\ \A e \in entries :
       /\ \A i \in DOMAIN due : due[i].sequence # e.sequence
       /\ \A i \in DOMAIN microtasks : microtasks[i].sequence # e.sequence
  /\ \A i \in DOMAIN due : \A j \in DOMAIN microtasks : due[i].sequence # microtasks[j].sequence
  /\ \A ws \in Sockets : \A i \in DOMAIN received[ws] :
       received[ws][i] < nextSequence /\ received[ws][i] \notin Waits
  /\ \A n \in Waits : n < nextSequence
  /\ DeliveredOnce

\* A flush hands over what the list held, each entry once.
LEMMA FlushTakesDue ==
  ASSUME Typed, TimerFires
  PROVE  /\ DOMAIN due' = 1..Cardinality(DueBy(clock))
         /\ due' \in Orders(DueBy(clock))
         /\ \A i \in DOMAIN due' : due'[i] \in DueBy(clock)
         /\ \A i, j \in DOMAIN due' : due'[i] = due'[j] => i = j
         /\ \A e \in DueBy(clock) : \E i \in DOMAIN due' : due'[i] = e
         /\ due = <<>> /\ microtasks = <<>> /\ UNCHANGED <<microtasks, received, sent, nextSequence, socketState, clock>>
         /\ entries' = NotYetDue(clock)
<1> DEFINE S == DueBy(clock)
<1>1. IsFiniteSet(S)
  BY FS_Subset DEF Typed, DueBy
<1>2. due' \in Orders(S) /\ DOMAIN due' = 1..Cardinality(S) /\ Cardinality(S) \in Nat
  BY <1>1, OrdersAreSequences, FS_CardinalityType DEF TimerFires
<1>3. due' \in [1..Cardinality(S) -> S] /\ \A i, j \in DOMAIN due' : due'[i] = due'[j] => i = j
  BY <1>2 DEF Orders
<1>4. \A e \in S : \E i \in DOMAIN due' : due'[i] = e
  <2> DEFINE R == {due'[i] : i \in 1..Cardinality(S)}
  <2>1. due' \in Bijection(1..Cardinality(S), R)
    <3>1. due' \in [1..Cardinality(S) -> R] /\ \A e \in R : \E i \in 1..Cardinality(S) : due'[i] = e
      BY <1>3
    <3> QED BY <1>2, <1>3, <3>1 DEF Bijection, Injection, Surjection, IsInjective
  <2>2. IsFiniteSet(R) /\ Cardinality(R) = Cardinality(S)
    <3>1. ExistsBijection(1..Cardinality(S), R)
      BY <2>1 DEF ExistsBijection
    <3>2. IsFiniteSet(1..Cardinality(S)) /\ Cardinality(1..Cardinality(S)) = Cardinality(S)
      BY <1>2, FS_Interval
    <3> QED BY <3>1, <3>2, FS_Bijection
  <2>3. R \subseteq S
    BY <1>2, <1>3
  <2>4. R = S
    BY <1>1, <2>2, <2>3, FS_Subset
  <2> QED BY <1>2, <2>4
<1> QED BY <1>2, <1>3, <1>4 DEF TimerFires, Typed

\* Taking the first element of a sequence moves the others up by one.
LEMMA TailFacts ==
  ASSUME NEW S, NEW seq \in Seq(S), seq # <<>>
  PROVE  /\ 1 \in DOMAIN seq /\ Head(seq) = seq[1]
         /\ \A i \in DOMAIN Tail(seq) : i \in Nat \ {0} /\ i + 1 \in DOMAIN seq /\ Tail(seq)[i] = seq[i + 1]
         /\ \A i \in DOMAIN seq : i \in Nat \ {0} /\ (i # 1 => i - 1 \in DOMAIN Tail(seq) /\ Tail(seq)[i - 1] = seq[i])
OBVIOUS

LEMMA WaitsAreNumbers == Typed => Waits \subseteq Nat
<1> SUFFICES ASSUME Typed PROVE Waits \subseteq Nat
  OBVIOUS
<1>1. \A e \in entries : e.sequence \in Nat
  BY EntryFields DEF Typed
<1>2. \A i \in DOMAIN due : due[i].sequence \in Nat
  BY EntryFields DEF Typed
<1>3. \A i \in DOMAIN microtasks : microtasks[i].sequence \in Nat
  <2>1. \A i \in DOMAIN microtasks : microtasks[i] \in Queued
    BY DEF Typed
  <2> QED BY <2>1 DEF Queued
<1> QED BY <1>1, <1>2, <1>3 DEF Waits

LEMMA OnceStep ==
  ASSUME Typed, OnceInv, [Next]_vars
  PROVE  OnceInv'
<1> USE DEF Typed
<1>0. Typed'
  BY TypedStep
<1>1. ASSUME NEW e \in Entry, Lists(e) PROVE OnceInv'
  <2>1. /\ Waits' = Waits \cup {nextSequence} /\ e.sequence = nextSequence /\ nextSequence' = nextSequence + 1
        /\ entries' = entries \cup {e} /\ UNCHANGED <<due, microtasks, received>>
    BY <1>1 DEF Lists, Waits
  <2>2. nextSequence \notin Waits
    BY DEF OnceInv
  <2>3. /\ \A f \in entries : f.sequence # nextSequence
        /\ \A i \in DOMAIN due : due[i].sequence # nextSequence
        /\ \A i \in DOMAIN microtasks : microtasks[i].sequence # nextSequence
    BY <2>2 DEF Waits
  <2>4. \A n \in Waits' : n < nextSequence'
    BY <2>1, WaitsAreNumbers DEF OnceInv
  <2>5. \A ws \in Sockets : \A i \in DOMAIN received'[ws] :
          received'[ws][i] < nextSequence' /\ received'[ws][i] \notin Waits'
    BY <2>1 DEF OnceInv
  <2> QED BY <2>1, <2>3, <2>4, <2>5 DEF OnceInv, Distinct, DeliveredOnce
<1>2. ASSUME NEW ws \in Sockets, DeliverNow(ws) PROVE OnceInv'
  <2>1. /\ microtasks' = Append(microtasks, [socket |-> ws, sequence |-> nextSequence])
        /\ nextSequence' = nextSequence + 1 /\ UNCHANGED <<entries, due, received>>
    BY <1>2 DEF DeliverNow, flushVars, Note
  <2>2. \A i \in DOMAIN microtasks' :
          \/ i \in DOMAIN microtasks /\ microtasks'[i] = microtasks[i]
          \/ i = Len(microtasks) + 1 /\ microtasks'[i].sequence = nextSequence
    BY <2>1
  <2>3. nextSequence \notin Waits
    BY DEF OnceInv
  <2>4. Waits' \subseteq Waits \cup {nextSequence}
    BY <2>1, <2>2 DEF Waits
  <2>5. /\ \A f \in entries : f.sequence # nextSequence
        /\ \A i \in DOMAIN due : due[i].sequence # nextSequence
        /\ \A i \in DOMAIN microtasks : microtasks[i].sequence # nextSequence
    BY <2>3 DEF Waits
  <2>6. \A n \in Waits : n \in Nat
    BY WaitsAreNumbers
  <2>7. /\ \A n \in Waits' : n < nextSequence'
        /\ \A r \in Sockets : \A i \in DOMAIN received'[r] :
             received'[r][i] < nextSequence' /\ received'[r][i] \notin Waits'
    <3>1. \A r \in Sockets : \A i \in DOMAIN received[r] :
            received[r][i] \in Nat /\ received[r][i] < nextSequence /\ received[r][i] \notin Waits
      BY DEF OnceInv
    <3>2. \A n \in Waits : n < nextSequence
      BY DEF OnceInv
    <3>3. nextSequence' = nextSequence + 1 /\ UNCHANGED received
      BY <2>1
    <3>4. nextSequence \in Nat
      OBVIOUS
    <3> HIDE DEF Typed
    <3>5. \A n \in Waits' : n \in Nat /\ n < nextSequence'
      BY <2>4, <2>6, <3>2, <3>3, <3>4
    <3>6. \A r \in Sockets : \A i \in DOMAIN received'[r] :
            received'[r][i] < nextSequence' /\ received'[r][i] \notin Waits'
      BY <2>4, <3>1, <3>3, <3>4
    <3> QED BY <3>5, <3>6
  <2> QED BY <2>1, <2>2, <2>5, <2>7 DEF OnceInv, Distinct, DeliveredOnce
<1>3. CASE Drops
  BY <1>3 DEF Drops, OnceInv, Distinct, Waits, DeliveredOnce
<1>4. CASE PassesOver
  <2>1. \A i \in DOMAIN due' : i \in Nat /\ i + 1 \in DOMAIN due /\ due'[i] = due[i + 1]
    <3>1. due \in Seq(Entry) /\ (due' = <<>> \/ (due # <<>> /\ due' = Tail(due)))
      BY <1>4 DEF PassesOver
    <3> HIDE DEF Typed
    <3> QED BY <3>1, TailFacts
  <2>2. \A i, j \in DOMAIN due' : due'[i].sequence = due'[j].sequence => i = j
    BY <2>1 DEF OnceInv, Distinct
  <2>3. \A i \in DOMAIN due' : \E j \in DOMAIN due : due'[i] = due[j]
    BY <2>1
  <2>4. UNCHANGED <<entries, microtasks, received, nextSequence>>
    BY <1>4 DEF PassesOver
  <2>5. Waits' \subseteq Waits
    BY <2>3, <2>4 DEF Waits
  <2> QED BY <2>2, <2>3, <2>4, <2>5 DEF OnceInv, Distinct, DeliveredOnce
<1>5. CASE TimerFires
  <2>1. Waits' \subseteq Waits
    BY <1>5, FlushTakesDue DEF DueBy, NotYetDue, Waits
  <2>2. entries' \subseteq entries /\ \A i \in DOMAIN due' : due'[i] \in entries \ entries'
    BY <1>5, FlushTakesDue, EntryFields DEF DueBy, NotYetDue
  <2>3. \A i, j \in DOMAIN due' : due'[i].sequence = due'[j].sequence => i = j
    BY <1>5, <2>2, FlushTakesDue DEF OnceInv
  <2> QED BY <1>5, <2>1, <2>2, <2>3, FlushTakesDue DEF OnceInv, Distinct, DeliveredOnce
<1>6. ASSUME NEW ws \in Sockets, NEW n \in Nat, HandOver(ws, n), n \in Waits, n \notin Waits',
             Waits' \subseteq Waits, UNCHANGED nextSequence
      PROVE  /\ \A r \in Sockets : \A i \in DOMAIN received'[r] :
                  received'[r][i] < nextSequence' /\ received'[r][i] \notin Waits'
             /\ DeliveredOnce'
  <2>1. n < nextSequence /\ \A r \in Sockets : \A i \in DOMAIN received[r] : received[r][i] # n
    BY <1>6 DEF OnceInv
  <2>2. CASE UNCHANGED received
    BY <1>6, <2>2 DEF OnceInv, DeliveredOnce
  <2>3. CASE received' = [received EXCEPT ![ws] = Append(@, n)]
    <3>1. \A r \in Sockets : \A i \in DOMAIN received'[r] :
            \/ i \in DOMAIN received[r] /\ received'[r][i] = received[r][i]
            \/ r = ws /\ i = Len(received[r]) + 1 /\ received'[r][i] = n
      BY <2>3
    <3>2. \A r \in Sockets : \A i, j \in DOMAIN received'[r] :
            received'[r][i] = received'[r][j] => i = j
      <4>1. \A r \in Sockets : \A i, j \in DOMAIN received[r] :
              received[r][i] = received[r][j] => i = j
        BY DEF OnceInv, DeliveredOnce
      <4> HIDE DEF Typed
      <4> QED BY <2>1, <3>1, <4>1
    <3>3. \A r \in Sockets : \A i \in DOMAIN received'[r] :
            received'[r][i] < nextSequence' /\ received'[r][i] \notin Waits'
      <4>1. \A r \in Sockets : \A i \in DOMAIN received[r] :
              received[r][i] < nextSequence /\ received[r][i] \notin Waits
        BY DEF OnceInv
      <4> HIDE DEF Typed
      <4> QED BY <1>6, <2>1, <3>1, <4>1
    <3> QED BY <3>2, <3>3 DEF DeliveredOnce
  <2> QED BY <1>6, <2>2, <2>3 DEF HandOver
<1>7. CASE RunMicrotask
  <2> DEFINE task == Head(microtasks)
  <2>1. /\ microtasks # <<>> /\ microtasks' = Tail(microtasks) /\ HandOver(task.socket, task.sequence)
        /\ UNCHANGED <<entries, nextSequence, due>>
    BY <1>7 DEF RunMicrotask, schedulerVars, flushVars
  <2>2. /\ 1 \in DOMAIN microtasks /\ task = microtasks[1]
        /\ \A i \in DOMAIN microtasks' : i \in Nat \ {0} /\ i + 1 \in DOMAIN microtasks /\ microtasks'[i] = microtasks[i + 1]
    BY <2>1, TailFacts
  <2>3. task.socket \in Sockets /\ task.sequence \in Nat
    <3>1. microtasks[1] \in Queued
      BY <2>2, ElementOfSeq
    <3> QED BY <2>2, <3>1 DEF Queued
  <2> HIDE DEF task
  <2>4. Distinct(microtasks)'
    BY <2>2 DEF OnceInv, Distinct
  <2>5. \A i \in DOMAIN microtasks' : \E j \in DOMAIN microtasks : j # 1 /\ microtasks'[i] = microtasks[j]
    BY <2>2
  <2>6. task.sequence \in Waits /\ task.sequence \notin Waits' /\ Waits' \subseteq Waits
    BY <2>1, <2>2, <2>5 DEF OnceInv, Distinct, Waits
  <2> QED BY <1>6, <2>1, <2>3, <2>4, <2>5, <2>6 DEF OnceInv, Distinct
<1>8. CASE FlushDelivery
  <2> DEFINE e == Head(due)
  <2>1. /\ due # <<>> /\ due' = Tail(due) /\ e.kind = "delivery" /\ HandOver(e.socket, e.sequence)
        /\ UNCHANGED <<entries, nextSequence, microtasks>>
    BY <1>8 DEF FlushDelivery, schedulerVars
  <2>2. /\ 1 \in DOMAIN due /\ e = due[1]
        /\ \A i \in DOMAIN due' : i \in Nat \ {0} /\ i + 1 \in DOMAIN due /\ due'[i] = due[i + 1]
    BY <2>1, TailFacts
  <2>3. e.socket \in Sockets /\ e.sequence \in Nat
    BY <2>1, <2>2, ElementOfSeq DEF Entry, Delivery, DisconnectTask
  <2> HIDE DEF e
  <2>4. Distinct(due)'
    BY <2>2 DEF OnceInv, Distinct
  <2>5. \A i \in DOMAIN due' : \E j \in DOMAIN due : j # 1 /\ due'[i] = due[j]
    BY <2>2
  <2>6. e.sequence \in Waits /\ e.sequence \notin Waits' /\ Waits' \subseteq Waits
    BY <2>1, <2>2, <2>5 DEF OnceInv, Distinct, Waits
  <2> QED BY <1>6, <2>1, <2>3, <2>4, <2>5, <2>6 DEF OnceInv, Distinct
<1> QED BY <1>1, <1>2, <1>3, <1>4, <1>5, <1>7, <1>8, StepShapes

LEMMA OnceInvariant == SafetySpec => [](Typed /\ OnceInv)
<1>1. Init => OnceInv
  BY DEF Init, OnceInv, Distinct, Waits, DeliveredOnce
<1>2. Init => Typed
  BY SchedulerAssumption, FS_EmptySet DEF Init, Typed
<1>3. Typed /\ OnceInv /\ [Next]_vars => (Typed /\ OnceInv)'
  BY TypedStep, OnceStep
<1> QED BY <1>1, <1>2, <1>3, PTL DEF SafetySpec

\* However flushes, shuffles, exceptions and closes interleave, no client is handed a
\* delivery twice.
THEOREM HandedOverOnce == SafetySpec => []DeliveredOnce
<1>1. OnceInv => DeliveredOnce
  BY DEF OnceInv
<1> QED BY <1>1, OnceInvariant, PTL

-----------------------------------------------------------------------------
(***************************************************************************)
(* Nothing is lost.                                                        *)
(***************************************************************************)

\* The delivery n to ws is under way or has been handed over.
HeldFor(n, ws) ==
  \/ \E e \in entries : IsFor(e, ws) /\ e.sequence = n
  \/ \E i \in DOMAIN due : IsFor(due[i], ws) /\ due[i].sequence = n
  \/ \E i \in DOMAIN microtasks : microtasks[i].socket = ws /\ microtasks[i].sequence = n
  \/ \E i \in DOMAIN received[ws] : received[ws][i] = n

KeptInv ==
  "thrown" \notin disturbed =>
    \A n \in DOMAIN sent : \A d \in sent[n] :
      socketState[d.socket] = "open" => HeldFor(n, d.socket)

LEMMA KeptStep ==
  ASSUME Typed, KeptInv, [Next]_vars
  PROVE  KeptInv'
<1> SUFFICES ASSUME NEW n \in DOMAIN sent', NEW d \in sent'[n], "thrown" \notin disturbed',
                    socketState'[d.socket] = "open"
             PROVE  HeldFor(n, d.socket)'
  BY DEF KeptInv
<1>0. Typed' /\ d.socket \in Sockets /\ n \in DOMAIN sent /\ n \in Nat
  <2>1. Typed'
    BY TypedStep
  <2>2. d \in [socket : Sockets, delay : Nat] /\ n \in 0..(MaxSent - 1)
    BY <2>1 DEF Typed
  <2> QED BY <2>1, <2>2, SchedulerAssumption DEF Typed
<1> SUFFICES ASSUME NEW ws \in Sockets, ws = d.socket PROVE HeldFor(n, ws)'
  BY <1>0
<1>a. ASSUME d \in sent[n], "thrown" \notin disturbed, socketState[ws] = "open" PROVE HeldFor(n, ws)
  BY <1>0, <1>a DEF KeptInv
<1>1. ASSUME NEW e \in Entry, Lists(e) PROVE HeldFor(n, ws)'
  <2>1. HeldFor(n, ws) => HeldFor(n, ws)'
    BY <1>1 DEF Lists, HeldFor
  <2>2. CASE n = nextSequence /\ e.kind = "delivery"
    <3>1. PICK delay \in Nat : sent' = [sent EXCEPT ![n] = {[socket |-> e.socket, delay |-> delay]}]
      BY <1>1, <2>2 DEF Lists
    <3>2. e.socket = ws
      BY <1>0, <3>1
    <3> QED BY <1>1, <2>2, <3>2 DEF Lists, HeldFor, IsFor
  <2>3. CASE sent'[n] = sent[n]
    BY <1>1, <1>a, <2>1, <2>3 DEF Lists
  <2> QED BY <1>0, <1>1, <2>2, <2>3, EntryFields DEF Lists, Typed
<1>2. ASSUME NEW r \in Sockets, DeliverNow(r) PROVE HeldFor(n, ws)'
  <2>1. /\ microtasks' = Append(microtasks, [socket |-> r, sequence |-> nextSequence])
        /\ UNCHANGED <<entries, due, received, disturbed, socketState>>
        /\ sent' = [sent EXCEPT ![nextSequence] = {[socket |-> r, delay |-> 0]}]
    BY <1>2 DEF DeliverNow, flushVars, Note
  <2>2. /\ \A i \in DOMAIN microtasks : i \in DOMAIN microtasks' /\ microtasks'[i] = microtasks[i]
        /\ \E i \in DOMAIN microtasks' : microtasks'[i] = [socket |-> r, sequence |-> nextSequence]
    <3>1. microtasks \in Seq(Queued)
      BY DEF Typed
    <3> QED BY <2>1, <3>1
  <2>3. HeldFor(n, ws) => HeldFor(n, ws)'
    BY <2>1, <2>2 DEF HeldFor
  <2>4. CASE n = nextSequence
    <3>1. r = ws
      BY <1>0, <2>1, <2>4
    <3> QED BY <2>2, <2>4, <3>1 DEF HeldFor
  <2>5. CASE n # nextSequence
    BY <1>0, <1>a, <2>1, <2>3, <2>5 DEF Typed
  <2> QED BY <2>4, <2>5
<1>3. CASE Drops
  <2>1. sent'[n] = sent[n]
    BY <1>0, <1>3 DEF Drops
  <2>2. HeldFor(n, ws)
    BY <1>0, <1>3, <1>a, <2>1 DEF Drops
  <2>3. ASSUME NEW e \in entries, IsFor(e, ws), e.sequence = n PROVE e \in entries'
    BY <1>0, <1>3, <2>3 DEF Drops, IsFor
  <2>4. UNCHANGED <<due, microtasks, received>>
    BY <1>3 DEF Drops
  <2> QED BY <2>2, <2>3, <2>4 DEF HeldFor
<1>4. CASE PassesOver
  <2>1. HeldFor(n, ws)
    BY <1>0, <1>4, <1>a DEF PassesOver
  <2>2. due # <<>> /\ Head(due).kind = "task" /\ due' = Tail(due)
    BY <1>4 DEF PassesOver
  <2>3. \A i \in DOMAIN due : IsFor(due[i], ws) => \E j \in DOMAIN due' : due'[j] = due[i]
    <3>1. due \in Seq(Entry)
      BY DEF Typed
    <3>2. \A i \in DOMAIN due : i # 1 => i - 1 \in DOMAIN due' /\ due'[i - 1] = due[i]
      BY <2>2, <3>1, TailFacts
    <3>3. due[1].kind = "task"
      BY <2>2, <3>1, TailFacts
    <3> QED BY <3>2, <3>3 DEF IsFor
  <2>4. UNCHANGED <<entries, microtasks, received>>
    BY <1>4 DEF PassesOver
  <2>5. ASSUME NEW i \in DOMAIN due, IsFor(due[i], ws), due[i].sequence = n
        PROVE  \E j \in DOMAIN due' : IsFor(due'[j], ws) /\ due'[j].sequence = n
    BY <2>3, <2>5
  <2> QED BY <2>1, <2>4, <2>5 DEF HeldFor
<1>5. CASE TimerFires
  <2>1. \A e \in entries : e \in entries' \/ \E i \in DOMAIN due' : due'[i] = e
    <3>1. \A e \in entries : e.dueAt <= clock \/ e.dueAt > clock
      BY EntryFields DEF Typed
    <3> QED BY <1>5, <3>1, FlushTakesDue DEF DueBy, NotYetDue
  <2>2. due = <<>> /\ UNCHANGED <<microtasks, received, sent, socketState>>
    BY <1>5, FlushTakesDue
  <2>3. HeldFor(n, ws) => HeldFor(n, ws)'
    BY <2>1, <2>2 DEF HeldFor
  <2>4. "thrown" \notin disturbed
    BY <1>5 DEF TimerFires
  <2> QED BY <1>a, <2>2, <2>3, <2>4
<1>6. ASSUME NEW r \in Sockets, NEW m \in Nat, HandOver(r, m), UNCHANGED socketState
      PROVE  /\ \A i \in DOMAIN received[ws] : \E j \in DOMAIN received'[ws] : received'[ws][j] = received[ws][i]
             /\ r = ws => \E j \in DOMAIN received'[ws] : received'[ws][j] = m
  <2>1. CASE r = ws
    <3>1. received' = [received EXCEPT ![ws] = Append(@, m)]
      BY <1>6, <2>1 DEF HandOver
    <3>2. received[ws] \in Seq(Nat) /\ received'[ws] = Append(received[ws], m)
      BY <1>0, <3>1 DEF Typed
    <3>3. \A i \in DOMAIN received[ws] :
            i \in DOMAIN received'[ws] /\ received'[ws][i] = received[ws][i]
      BY <3>2
    <3>4. Len(received[ws]) + 1 \in DOMAIN received'[ws] /\ received'[ws][Len(received[ws]) + 1] = m
      BY <3>2
    <3> QED BY <3>3, <3>4
  <2>2. CASE r # ws
    <3>1. received'[ws] = received[ws]
      BY <1>0, <1>6, <2>2 DEF HandOver, Typed
    <3> QED BY <2>2, <3>1
  <2> QED BY <2>1, <2>2
<1>7. CASE RunMicrotask
  <2> DEFINE task == Head(microtasks)
  <2>1. /\ microtasks # <<>> /\ microtasks' = Tail(microtasks) /\ HandOver(task.socket, task.sequence)
        /\ UNCHANGED <<entries, due, socketState, sent, disturbed>>
    BY <1>7 DEF RunMicrotask, schedulerVars, flushVars
  <2>2. /\ 1 \in DOMAIN microtasks /\ task = microtasks[1]
        /\ \A i \in DOMAIN microtasks : i # 1 => \E j \in DOMAIN microtasks' : microtasks'[j] = microtasks[i]
    <3>1. microtasks \in Seq(Queued)
      BY DEF Typed
    <3>2. \A i \in DOMAIN microtasks : i # 1 => i - 1 \in DOMAIN microtasks' /\ microtasks'[i - 1] = microtasks[i]
      BY <2>1, <3>1, TailFacts
    <3> QED BY <2>1, <3>1, <3>2, TailFacts
  <2>3. task.socket \in Sockets /\ task.sequence \in Nat
    <3>1. microtasks[1] \in Queued
      BY <2>2, ElementOfSeq DEF Typed
    <3> QED BY <2>2, <3>1 DEF Queued
  <2>4. HeldFor(n, ws)
    BY <1>a, <2>1
  <2> HIDE DEF task
  <2>5. /\ \A i \in DOMAIN received[ws] : \E j \in DOMAIN received'[ws] : received'[ws][j] = received[ws][i]
        /\ task.socket = ws => \E j \in DOMAIN received'[ws] : received'[ws][j] = task.sequence
    BY <1>6, <2>1, <2>3
  <2>6. UNCHANGED <<entries, due>>
    BY <2>1
  <2> QED BY <2>2, <2>4, <2>5, <2>6 DEF HeldFor
<1>8. CASE FlushDelivery
  <2> DEFINE e == Head(due)
  <2>1. /\ due # <<>> /\ due' = Tail(due) /\ e.kind = "delivery" /\ HandOver(e.socket, e.sequence)
        /\ UNCHANGED <<entries, microtasks, socketState, sent, disturbed>>
    BY <1>8 DEF FlushDelivery, schedulerVars
  <2>2. /\ 1 \in DOMAIN due /\ e = due[1]
        /\ \A i \in DOMAIN due : i # 1 => \E j \in DOMAIN due' : due'[j] = due[i]
    <3>1. due \in Seq(Entry)
      BY DEF Typed
    <3>2. \A i \in DOMAIN due : i # 1 => i - 1 \in DOMAIN due' /\ due'[i - 1] = due[i]
      BY <2>1, <3>1, TailFacts
    <3> QED BY <2>1, <3>1, <3>2, TailFacts
  <2>3. e.socket \in Sockets /\ e.sequence \in Nat
    <3>1. due[1] \in Entry
      BY <2>2, ElementOfSeq DEF Typed
    <3> QED BY <2>1, <2>2, <3>1, EntryFields
  <2>4. HeldFor(n, ws)
    BY <1>a, <2>1
  <2> HIDE DEF e
  <2>5. /\ \A i \in DOMAIN received[ws] : \E j \in DOMAIN received'[ws] : received'[ws][j] = received[ws][i]
        /\ e.socket = ws => \E j \in DOMAIN received'[ws] : received'[ws][j] = e.sequence
    BY <1>6, <2>1, <2>3
  <2>6. UNCHANGED <<entries, microtasks>>
    BY <2>1
  <2> QED BY <2>2, <2>4, <2>5, <2>6 DEF HeldFor, IsFor
<1> QED BY <1>1, <1>2, <1>3, <1>4, <1>5, <1>7, <1>8, StepShapes

\* For any number of sockets and deliveries: closing one socket, flushing and arming the
\* timer anew never lose the message of another.
THEOREM MessagesAreKept == SafetySpec => []NothingIsLost
<1>1. Init => KeptInv
  BY DEF Init, KeptInv
<1>2. Typed /\ KeptInv /\ [Next]_vars => KeptInv'
  BY KeptStep
<1>3. KeptInv => NothingIsLost
  BY DEF KeptInv, NothingIsLost, HeldFor, Waiting
<1> QED BY <1>1, <1>2, <1>3, OnceInvariant, PTL DEF SafetySpec

-----------------------------------------------------------------------------
(***************************************************************************)
(* Equal delays keep their order.                                          *)
(***************************************************************************)

IsDelivery(e) == e.kind = "delivery"

\* What was noted of the deliveries under way when they were sent: those of the list
\* have a delay, which the clock has not outrun; those of the queue have none.
Dated ==
  /\ \A e \in entries : IsDelivery(e) =>
       \E delay \in Nat \ {0} :
         sent[e.sequence] = {[socket |-> e.socket, delay |-> delay]} /\ e.dueAt <= clock + delay
  /\ \A i \in DOMAIN due : IsDelivery(due[i]) =>
       \E delay \in Nat \ {0} :
         sent[due[i].sequence] = {[socket |-> due[i].socket, delay |-> delay]}
  /\ \A i \in DOMAIN microtasks :
       sent[microtasks[i].sequence] = {[socket |-> microtasks[i].socket, delay |-> 0]}

\* Of two deliveries with the same socket and delay, the one sent first is ahead: in due
\* time, in the flush, in the queue, and what was handed over before what waits.
Sorted ==
  /\ \A e, f \in entries :
       IsDelivery(e) /\ IsDelivery(f) /\ sent[e.sequence] = sent[f.sequence]
         /\ e.sequence < f.sequence => e.dueAt <= f.dueAt
  /\ \A i \in DOMAIN due : \A e \in entries :
       IsDelivery(due[i]) /\ IsDelivery(e) /\ sent[due[i].sequence] = sent[e.sequence]
         => due[i].sequence < e.sequence
  /\ \A i, j \in DOMAIN due :
       i < j /\ IsDelivery(due[i]) /\ IsDelivery(due[j])
         /\ sent[due[i].sequence] = sent[due[j].sequence]
         => due[i].sequence < due[j].sequence
  /\ \A i, j \in DOMAIN microtasks : i < j => microtasks[i].sequence < microtasks[j].sequence
  /\ \A ws \in Sockets : \A i \in DOMAIN received[ws] :
       /\ \A e \in entries : IsDelivery(e) /\ sent[received[ws][i]] = sent[e.sequence]
            => received[ws][i] < e.sequence
       /\ \A j \in DOMAIN due : IsDelivery(due[j]) /\ sent[received[ws][i]] = sent[due[j].sequence]
            => received[ws][i] < due[j].sequence
       /\ \A j \in DOMAIN microtasks : sent[received[ws][i]] = sent[microtasks[j].sequence]
            => received[ws][i] < microtasks[j].sequence

SortedInv == "shuffled" \notin disturbed => Sorted /\ SameDelayKeepsOrder

\* The place of an entry in the flush counts those before it.
LEMMA RankIsMonotone ==
  ASSUME NEW S \in SUBSET Entry, IsFiniteSet(S), NEW d \in S, NEW e \in S, Before(d, e)
  PROVE  Rank(S, d) < Rank(S, e)
<1> DEFINE D == {c \in S : Before(c, d)}
           E == {c \in S : Before(c, e)}
<1>1. D \subseteq E /\ d \in E /\ d \notin D
  BY EntryFields DEF Before
<1>2. IsFiniteSet(E) /\ IsFiniteSet(D)
  BY FS_Subset
<1>3. Cardinality(D) \in Nat /\ Cardinality(E) \in Nat /\ Cardinality(D) < Cardinality(E)
  BY <1>1, <1>2, FS_Subset, FS_CardinalityType
<1> QED BY <1>3 DEF Rank

\* What is under way has a number that has been given out.
Numbered ==
  /\ nextSequence \in Nat /\ clock \in Nat
  /\ nextSequence < MaxSent => nextSequence \in DOMAIN sent
  /\ \A n \in Nat : n < nextSequence => n \in DOMAIN sent
  /\ \A e \in entries : e \in Entry /\ e.sequence \in Nat /\ e.sequence < nextSequence /\ e.dueAt \in Nat
  /\ \A i \in DOMAIN due : due[i] \in Entry /\ due[i].sequence \in Nat /\ due[i].sequence < nextSequence
  /\ \A i \in DOMAIN microtasks : microtasks[i].sequence \in Nat /\ microtasks[i].sequence < nextSequence
  /\ \A ws \in Sockets : \A i \in DOMAIN received[ws] :
       received[ws][i] \in Nat /\ received[ws][i] < nextSequence

LEMMA NumbersInRange == ASSUME Typed, OnceInv PROVE Numbered
<1>1. \A e \in entries : e \in Entry
  BY DEF Typed
<1>2. \A i \in DOMAIN due : due[i] \in Entry
  BY DEF Typed
<1>3. \A n \in Waits : n \in Nat /\ n < nextSequence
  BY WaitsAreNumbers DEF OnceInv
<1>4. /\ nextSequence \in Nat /\ clock \in Nat
      /\ nextSequence < MaxSent => nextSequence \in DOMAIN sent
      /\ \A n \in Nat : n < nextSequence => n \in DOMAIN sent
  BY SchedulerAssumption DEF Typed
<1>5. \A ws \in Sockets : \A i \in DOMAIN received[ws] :
        received[ws][i] \in Nat /\ received[ws][i] < nextSequence
  BY DEF Typed, OnceInv
<1> QED BY <1>1, <1>2, <1>3, <1>4, <1>5, EntryFields DEF Waits, Numbered

LEMMA DatedStep ==
  ASSUME Typed, OnceInv, Dated, [Next]_vars
  PROVE  Dated'
<1>0. Numbered
  BY NumbersInRange
<1> USE DEF Numbered
<1>1. ASSUME NEW e \in Entry, Lists(e) PROVE Dated'
  <2>1. /\ entries' = entries \cup {e} /\ UNCHANGED <<due, microtasks, clock>> /\ e.sequence = nextSequence
    BY <1>1 DEF Lists
  <2>2. \A n : n \in Nat /\ n < nextSequence => sent'[n] = sent[n]
    <3>1. sent' = sent \/ \E x : sent' = [sent EXCEPT ![nextSequence] = x]
      BY <1>1, EntryFields DEF Lists
    <3> QED BY <1>0, <3>1
  <2>3. IsDelivery(e) =>
          \E delay \in Nat \ {0} :
            sent'[e.sequence] = {[socket |-> e.socket, delay |-> delay]} /\ e.dueAt <= clock + delay
    <3>1. SUFFICES ASSUME IsDelivery(e)
                   PROVE  \E delay \in Nat \ {0} :
                            sent'[e.sequence] = {[socket |-> e.socket, delay |-> delay]} /\ e.dueAt <= clock + delay
      OBVIOUS
    <3>2. PICK delay \in Nat \ {0} :
            /\ e.dueAt = clock + delay
            /\ sent' = [sent EXCEPT ![nextSequence] = {[socket |-> e.socket, delay |-> delay]}]
      BY <1>1, <3>1 DEF Lists, IsDelivery
    <3>3. sent'[e.sequence] = {[socket |-> e.socket, delay |-> delay]}
      BY <1>0, <1>1, <2>1, <3>2 DEF Lists
    <3> QED BY <1>0, <3>2, <3>3
  <2> QED BY <1>0, <2>1, <2>2, <2>3 DEF Dated
<1>2. ASSUME NEW ws \in Sockets, DeliverNow(ws) PROVE Dated'
  <2>1. /\ microtasks' = Append(microtasks, [socket |-> ws, sequence |-> nextSequence])
        /\ UNCHANGED <<entries, due, clock>> /\ nextSequence < MaxSent
        /\ sent' = [sent EXCEPT ![nextSequence] = {[socket |-> ws, delay |-> 0]}]
    BY <1>2 DEF DeliverNow, flushVars, Note
  <2>2. \A n : n \in Nat /\ n < nextSequence => sent'[n] = sent[n]
    BY <1>0, <2>1
  <2>3. \A i \in DOMAIN microtasks' :
          \/ i \in DOMAIN microtasks /\ microtasks'[i] = microtasks[i]
          \/ microtasks'[i] = [socket |-> ws, sequence |-> nextSequence]
    <3>1. microtasks \in Seq(Queued)
      BY DEF Typed
    <3> QED BY <2>1, <3>1
  <2>4. sent'[nextSequence] = {[socket |-> ws, delay |-> 0]}
    BY <1>0, <2>1
  <2>5. \A i \in DOMAIN microtasks' :
          sent'[microtasks'[i].sequence] = {[socket |-> microtasks'[i].socket, delay |-> 0]}
    BY <1>0, <2>2, <2>3, <2>4 DEF Dated
  <2>6. \A e \in entries : sent'[e.sequence] = sent[e.sequence]
    BY <1>0, <2>2
  <2>7. \A i \in DOMAIN due : sent'[due[i].sequence] = sent[due[i].sequence]
    BY <1>0, <2>2
  <2> QED BY <2>1, <2>5, <2>6, <2>7 DEF Dated
<1>3. CASE Drops
  <2>1. /\ entries' \subseteq entries /\ UNCHANGED <<due, microtasks, nextSequence>> /\ clock <= clock' /\ clock' \in Nat
    BY <1>3, TypedStep DEF Drops, Typed
  <2>2. /\ \A e \in entries' : sent'[e.sequence] = sent[e.sequence]
        /\ \A i \in DOMAIN due : sent'[due[i].sequence] = sent[due[i].sequence]
        /\ \A i \in DOMAIN microtasks : sent'[microtasks[i].sequence] = sent[microtasks[i].sequence]
    <3>1. \A n \in DOMAIN sent : sent'[n] = sent[n] \/ ((\E e \in entries : e.sequence = n) /\ entries' = {})
      BY <1>3 DEF Drops
    <3>2. \A e \in entries : e.sequence \in DOMAIN sent
      BY <1>0
    <3>3. \A i \in DOMAIN due : due[i].sequence \in DOMAIN sent
      BY <1>0
    <3>4. \A i \in DOMAIN microtasks : microtasks[i].sequence \in DOMAIN sent
      BY <1>0
    <3> QED BY <2>1, <3>1, <3>2, <3>3, <3>4 DEF OnceInv
  <2> QED BY <1>0, <2>1, <2>2 DEF Dated
<1>4. CASE PassesOver
  <2>1. UNCHANGED <<entries, microtasks, sent, clock>>
    BY <1>4 DEF PassesOver
  <2>2. \A i \in DOMAIN due' : \E j \in DOMAIN due : due'[i] = due[j]
    <3>1. due \in Seq(Entry)
      BY DEF Typed
    <3> QED BY <1>4, <3>1, TailFacts DEF PassesOver
  <2> QED BY <2>1, <2>2 DEF Dated
<1>5. CASE TimerFires
  <2>1. entries' \subseteq entries /\ \A i \in DOMAIN due' : due'[i] \in entries
    BY <1>5, FlushTakesDue DEF DueBy, NotYetDue
  <2>2. UNCHANGED <<microtasks, sent, clock>>
    BY <1>5, FlushTakesDue
  <2> QED BY <2>1, <2>2 DEF Dated
<1>6. CASE RunMicrotask
  <2>1. UNCHANGED <<entries, due, sent, clock>>
    BY <1>6 DEF RunMicrotask, schedulerVars, flushVars
  <2>2. \A i \in DOMAIN microtasks' : \E j \in DOMAIN microtasks : microtasks'[i] = microtasks[j]
    BY <1>6, TailFacts DEF RunMicrotask, Typed
  <2> QED BY <2>1, <2>2 DEF Dated
<1>7. CASE FlushDelivery
  <2>1. UNCHANGED <<entries, microtasks, sent, clock>>
    BY <1>7 DEF FlushDelivery, schedulerVars
  <2>2. \A i \in DOMAIN due' : \E j \in DOMAIN due : due'[i] = due[j]
    BY <1>7, TailFacts DEF FlushDelivery, Typed
  <2> QED BY <2>1, <2>2 DEF Dated
<1> QED BY <1>1, <1>2, <1>3, <1>4, <1>5, <1>6, <1>7, StepShapes

LEMMA SortedStep ==
  ASSUME Typed, OnceInv, Dated, SortedInv, [Next]_vars
  PROVE  SortedInv'
<1> SUFFICES ASSUME "shuffled" \notin disturbed' PROVE (Sorted /\ SameDelayKeepsOrder)'
  BY DEF SortedInv
<1>0. Numbered /\ OnceInv' /\ Dated'
  BY NumbersInRange, OnceStep, DatedStep
<1>a. ASSUME "shuffled" \notin disturbed
      PROVE  /\ Sorted
             /\ \A ws \in Sockets : \A i, j \in DOMAIN received[ws] :
                  i < j /\ sent[received[ws][i]] = sent[received[ws][j]] => received[ws][i] < received[ws][j]
  BY <1>a DEF SortedInv, SameDelayKeepsOrder
<1>1. ASSUME NEW e \in Entry, Lists(e) PROVE (Sorted /\ SameDelayKeepsOrder)'
  <2>1. /\ entries' = entries \cup {e} /\ UNCHANGED <<due, microtasks, received, disturbed, clock>>
        /\ e.sequence = nextSequence
    BY <1>1 DEF Lists
  <2>2. \A n \in Nat : n < nextSequence => sent'[n] = sent[n]
    <3>1. sent' = sent \/ \E x : sent' = [sent EXCEPT ![nextSequence] = x]
      BY <1>1, EntryFields DEF Lists
    <3> QED BY <1>0, <3>1 DEF Numbered
  <2>3. ASSUME NEW f \in entries, IsDelivery(e), IsDelivery(f), sent'[f.sequence] = sent'[e.sequence]
        PROVE  f.dueAt <= e.dueAt
    <3>1. PICK delay \in Nat \ {0} :
            /\ e.dueAt = clock + delay
            /\ sent' = [sent EXCEPT ![nextSequence] = {[socket |-> e.socket, delay |-> delay]}]
      BY <1>1, <2>3 DEF Lists, IsDelivery
    <3>2. sent'[e.sequence] = {[socket |-> e.socket, delay |-> delay]}
      BY <1>0, <1>1, <2>1, <3>1 DEF Lists, Numbered
    <3>3. PICK other \in Nat \ {0} :
            sent[f.sequence] = {[socket |-> f.socket, delay |-> other]} /\ f.dueAt <= clock + other
      BY <2>3 DEF Dated
    <3>4. sent'[f.sequence] = {[socket |-> f.socket, delay |-> other]}
      BY <1>0, <2>2, <3>3 DEF Numbered
    <3>5. [socket |-> f.socket, delay |-> other] = [socket |-> e.socket, delay |-> delay]
      BY <2>3, <3>2, <3>4
    <3>6. other = delay
      BY <3>5
    <3> QED BY <3>1, <3>3, <3>6
  <2>4. Sorted'
    BY <1>0, <1>a, <2>1, <2>2, <2>3 DEF Sorted, Numbered
  <2> QED BY <1>0, <1>a, <2>1, <2>2, <2>4 DEF SameDelayKeepsOrder, Numbered
<1>2. ASSUME NEW ws \in Sockets, DeliverNow(ws) PROVE (Sorted /\ SameDelayKeepsOrder)'
  <2>1. /\ microtasks' = Append(microtasks, [socket |-> ws, sequence |-> nextSequence])
        /\ UNCHANGED <<entries, due, received, disturbed>> /\ nextSequence < MaxSent
        /\ sent' = [sent EXCEPT ![nextSequence] = {[socket |-> ws, delay |-> 0]}]
    BY <1>2 DEF DeliverNow, flushVars, Note
  <2>2. \A n \in Nat : n < nextSequence => sent'[n] = sent[n]
    BY <1>0, <2>1 DEF Numbered
  <2>3. \A i \in DOMAIN microtasks' :
          \/ i \in DOMAIN microtasks /\ microtasks'[i] = microtasks[i]
          \/ i = Len(microtasks) + 1 /\ microtasks'[i].sequence = nextSequence
    <3>1. microtasks \in Seq(Queued)
      BY DEF Typed
    <3> QED BY <2>1, <3>1
  <2>4. Len(microtasks) \in Nat /\ \A i \in DOMAIN microtasks : i \in Nat /\ i <= Len(microtasks)
    BY DEF Typed
  <2>5. \A i, j \in DOMAIN microtasks' : i < j => microtasks'[i].sequence < microtasks'[j].sequence
    BY <1>0, <1>a, <2>1, <2>3, <2>4 DEF Sorted, Numbered
  <2>6. Sorted'
    BY <1>0, <1>a, <2>1, <2>2, <2>3, <2>5 DEF Sorted, Numbered
  <2> QED BY <1>0, <1>a, <2>1, <2>2, <2>6 DEF SameDelayKeepsOrder, Numbered
<1>3. CASE Drops
  <2>1. entries' \subseteq entries /\ UNCHANGED <<due, microtasks, received, disturbed>>
    BY <1>3 DEF Drops
  <2>2. \A n \in DOMAIN sent : sent'[n] = sent[n] \/ ((\E e \in entries : e.sequence = n) /\ entries' = {})
    BY <1>3 DEF Drops
  <2>3. /\ \A e \in entries' : sent'[e.sequence] = sent[e.sequence]
        /\ \A i \in DOMAIN due : sent'[due[i].sequence] = sent[due[i].sequence]
        /\ \A i \in DOMAIN microtasks : sent'[microtasks[i].sequence] = sent[microtasks[i].sequence]
    BY <1>0, <2>1, <2>2 DEF OnceInv, Numbered
  <2>4. \A ws \in Sockets : \A i \in DOMAIN received[ws] : sent'[received[ws][i]] = sent[received[ws][i]]
    BY <1>0, <2>2 DEF OnceInv, Numbered, Waits
  <2>5. Sorted'
    BY <1>a, <2>1, <2>3, <2>4 DEF Sorted
  <2> QED BY <1>a, <2>1, <2>4, <2>5 DEF SameDelayKeepsOrder
<1>4. CASE PassesOver
  <2>1. UNCHANGED <<entries, microtasks, received, sent>> /\ "shuffled" \notin disturbed
    BY <1>4 DEF PassesOver
  <2>2. \A i \in DOMAIN due' : i \in Nat /\ i + 1 \in DOMAIN due /\ due'[i] = due[i + 1]
    <3>1. due \in Seq(Entry) /\ (due' = <<>> \/ (due # <<>> /\ due' = Tail(due)))
      BY <1>4 DEF PassesOver, Typed
    <3> QED BY <3>1, TailFacts
  <2>3. Sorted'
    BY <1>a, <2>1, <2>2 DEF Sorted
  <2> QED BY <1>a, <2>1, <2>3 DEF SameDelayKeepsOrder
<1>5. CASE TimerFires
  <2>1. /\ entries' \subseteq entries /\ microtasks' = <<>> /\ UNCHANGED <<received, sent>>
        /\ "shuffled" \notin disturbed /\ \A i \in DOMAIN due' : i = Rank(DueBy(clock), due'[i])
    <3>1. \A i \in DOMAIN due' : i = Rank(DueBy(clock), due'[i])
      BY <1>5 DEF TimerFires
    <3>2. "shuffled" \notin disturbed
      BY <1>5 DEF TimerFires
    <3> QED BY <1>5, <3>1, <3>2, FlushTakesDue DEF NotYetDue
  <2>2. /\ \A i \in DOMAIN due' : due'[i] \in entries /\ due'[i].dueAt <= clock /\ due'[i] \in DueBy(clock)
        /\ \A e \in entries' : e.dueAt > clock
    BY <1>5, FlushTakesDue DEF DueBy, NotYetDue
  <2>3. DueBy(clock) \in SUBSET Entry /\ IsFiniteSet(DueBy(clock))
    BY FS_Subset DEF DueBy, Typed
  <2>4. ASSUME NEW i \in DOMAIN due', NEW j \in DOMAIN due', i < j,
               IsDelivery(due'[i]), IsDelivery(due'[j]), sent[due'[i].sequence] = sent[due'[j].sequence]
        PROVE  due'[i].sequence < due'[j].sequence
    <3>1. due'[i] # due'[j]
      BY <2>1, <2>4, <1>5, FlushTakesDue
    <3>2. due'[i].sequence # due'[j].sequence
      BY <2>2, <3>1 DEF OnceInv
    <3>3. ASSUME due'[j].sequence < due'[i].sequence PROVE FALSE
      <4>1. due'[j].dueAt <= due'[i].dueAt
        BY <1>a, <2>1, <2>2, <2>4, <3>3 DEF Sorted
      <4>2. Before(due'[j], due'[i])
        BY <1>0, <2>2, <3>3, <4>1 DEF Before, Numbered
      <4>3. Rank(DueBy(clock), due'[j]) < Rank(DueBy(clock), due'[i])
        BY <2>2, <2>3, <4>2, RankIsMonotone
      <4>4. i \in Nat /\ j \in Nat
        BY <1>5, <2>3, FlushTakesDue, FS_CardinalityType
      <4> QED BY <2>1, <2>4, <4>3, <4>4
    <3> QED BY <1>0, <2>2, <3>2, <3>3 DEF Numbered
  <2>5. ASSUME NEW i \in DOMAIN due', NEW e \in entries', IsDelivery(due'[i]), IsDelivery(e),
               sent[due'[i].sequence] = sent[e.sequence]
        PROVE  due'[i].sequence < e.sequence
    <3>1. due'[i].sequence # e.sequence
      BY <1>0, <2>1, <2>2 DEF OnceInv, Numbered
    <3>2. ~(e.sequence < due'[i].sequence)
      BY <1>0, <1>a, <2>1, <2>2, <2>5 DEF Sorted, Numbered
    <3> QED BY <1>0, <2>1, <2>2, <3>1, <3>2 DEF Numbered
  <2>6. Sorted'
    BY <1>a, <2>1, <2>2, <2>4, <2>5 DEF Sorted
  <2> QED BY <1>a, <2>1, <2>6 DEF SameDelayKeepsOrder
\* the message handed over is the first of its delay
<1>6. ASSUME NEW ws \in Sockets, NEW n \in Nat, HandOver(ws, n), UNCHANGED sent, "shuffled" \notin disturbed,
             \A i \in DOMAIN received[ws] : sent[received[ws][i]] = sent[n] => received[ws][i] < n
      PROVE  /\ SameDelayKeepsOrder'
             /\ \A r \in Sockets : \A i \in DOMAIN received'[r] :
                  (\E j \in DOMAIN received[r] : received'[r][i] = received[r][j]) \/ received'[r][i] = n
  <2>1. CASE UNCHANGED received
    BY <1>6, <1>a, <2>1 DEF SameDelayKeepsOrder
  <2>2. CASE received' = [received EXCEPT ![ws] = Append(@, n)]
    <3>1. \A r \in Sockets : \A i \in DOMAIN received'[r] :
            \/ i \in DOMAIN received[r] /\ received'[r][i] = received[r][i]
            \/ r = ws /\ i = Len(received[r]) + 1 /\ received'[r][i] = n
      BY <2>2 DEF Typed
    <3>2. \A r \in Sockets : Len(received[r]) \in Nat /\ \A i \in DOMAIN received[r] : i \in Nat /\ i <= Len(received[r])
      BY DEF Typed
    <3> QED BY <1>6, <1>a, <3>1, <3>2 DEF SameDelayKeepsOrder
  <2> QED BY <1>6, <2>1, <2>2 DEF HandOver
<1>7. CASE RunMicrotask
  <2> DEFINE task == Head(microtasks)
  <2>1. /\ microtasks # <<>> /\ microtasks' = Tail(microtasks) /\ HandOver(task.socket, task.sequence)
        /\ due = <<>> /\ UNCHANGED <<entries, due, sent, disturbed>>
    BY <1>7 DEF RunMicrotask, schedulerVars, flushVars, Typed
  <2>2. /\ 1 \in DOMAIN microtasks /\ task = microtasks[1] /\ task \in Queued
        /\ \A i \in DOMAIN microtasks' : i \in Nat \ {0} /\ i + 1 \in DOMAIN microtasks /\ microtasks'[i] = microtasks[i + 1]
    <3>1. microtasks \in Seq(Queued)
      BY DEF Typed
    <3> QED BY <2>1, <3>1, TailFacts
  <2>3. task.socket \in Sockets /\ task.sequence \in Nat
    BY <2>2 DEF Queued
  <2>4. sent[task.sequence] = {[socket |-> task.socket, delay |-> 0]}
    BY <2>2 DEF Dated
  <2> HIDE DEF task
  <2>5. \A e \in entries : IsDelivery(e) => sent[e.sequence] # sent[task.sequence]
    <3>1. ASSUME NEW e \in entries, IsDelivery(e), sent[e.sequence] = sent[task.sequence] PROVE FALSE
      <4>1. PICK delay \in Nat \ {0} : sent[e.sequence] = {[socket |-> e.socket, delay |-> delay]}
        BY <3>1 DEF Dated
      <4>2. [socket |-> e.socket, delay |-> delay] = [socket |-> task.socket, delay |-> 0]
        BY <2>4, <3>1, <4>1
      <4> QED BY <4>2
    <3> QED BY <3>1
  <2>6. /\ SameDelayKeepsOrder'
        /\ \A r \in Sockets : \A i \in DOMAIN received'[r] :
             (\E j \in DOMAIN received[r] : received'[r][i] = received[r][j]) \/ received'[r][i] = task.sequence
    BY <1>6, <1>a, <2>1, <2>2, <2>3 DEF Sorted
  <2>7. \A i \in DOMAIN microtasks' : task.sequence < microtasks'[i].sequence
    BY <1>a, <2>1, <2>2 DEF Sorted
  <2>8. \A i \in DOMAIN microtasks' : \E j \in DOMAIN microtasks : microtasks'[i] = microtasks[j]
    BY <2>2
  <2>9. \A i, j \in DOMAIN microtasks' : i < j => microtasks'[i].sequence < microtasks'[j].sequence
    BY <1>a, <2>1, <2>2 DEF Sorted
  <2>10. Sorted'
    BY <1>a, <2>1, <2>5, <2>6, <2>7, <2>8, <2>9 DEF Sorted
  <2> QED BY <2>6, <2>10
<1>8. CASE FlushDelivery
  <2> DEFINE e == Head(due)
  <2>1. /\ due # <<>> /\ due' = Tail(due) /\ IsDelivery(e) /\ HandOver(e.socket, e.sequence)
        /\ UNCHANGED <<entries, microtasks, sent, disturbed>>
    BY <1>8 DEF FlushDelivery, schedulerVars, IsDelivery
  <2>2. /\ 1 \in DOMAIN due /\ e = due[1] /\ e \in Entry
        /\ \A i \in DOMAIN due' : i \in Nat \ {0} /\ i + 1 \in DOMAIN due /\ due'[i] = due[i + 1]
    <3>1. due \in Seq(Entry)
      BY DEF Typed
    <3> QED BY <2>1, <3>1, TailFacts
  <2>3. e.socket \in Sockets /\ e.sequence \in Nat
    BY <2>1, <2>2, EntryFields DEF IsDelivery
  <2> HIDE DEF e
  <2>4. \A i \in DOMAIN microtasks : sent[microtasks[i].sequence] # sent[e.sequence]
    <3>1. ASSUME NEW i \in DOMAIN microtasks, sent[microtasks[i].sequence] = sent[e.sequence] PROVE FALSE
      <4>1. PICK delay \in Nat \ {0} : sent[e.sequence] = {[socket |-> e.socket, delay |-> delay]}
        BY <2>1, <2>2 DEF Dated
      <4>2. [socket |-> e.socket, delay |-> delay] = [socket |-> microtasks[i].socket, delay |-> 0]
        BY <3>1, <4>1 DEF Dated
      <4> QED BY <4>2
    <3> QED BY <3>1
  <2>5. /\ SameDelayKeepsOrder'
        /\ \A r \in Sockets : \A i \in DOMAIN received'[r] :
             (\E j \in DOMAIN received[r] : received'[r][i] = received[r][j]) \/ received'[r][i] = e.sequence
    BY <1>6, <1>a, <2>1, <2>2, <2>3 DEF Sorted
  <2>6. \A i \in DOMAIN due' : IsDelivery(due'[i]) /\ sent[e.sequence] = sent[due'[i].sequence]
          => e.sequence < due'[i].sequence
    BY <1>a, <2>1, <2>2 DEF Sorted
  <2>7. \A f \in entries : IsDelivery(f) /\ sent[e.sequence] = sent[f.sequence] => e.sequence < f.sequence
    BY <1>a, <2>1, <2>2 DEF Sorted
  <2>8. \A i \in DOMAIN due' : \E j \in DOMAIN due : due'[i] = due[j]
    BY <2>2
  <2>9. \A i, j \in DOMAIN due' :
          i < j /\ IsDelivery(due'[i]) /\ IsDelivery(due'[j]) /\ sent[due'[i].sequence] = sent[due'[j].sequence]
            => due'[i].sequence < due'[j].sequence
    BY <1>a, <2>1, <2>2 DEF Sorted
  <2>10. Sorted'
    BY <1>a, <2>1, <2>4, <2>5, <2>6, <2>7, <2>8, <2>9 DEF Sorted
  <2> QED BY <2>5, <2>10
<1> QED BY <1>1, <1>2, <1>3, <1>4, <1>5, <1>7, <1>8, StepShapes

\* For any delays, early timers and flushes: unless a flush is shuffled, a client gets the
\* messages of one delay in the order in which they were sent.
THEOREM EqualDelaysKeepOrder == SafetySpec => []SameDelayKeepsOrder
<1>1. Init => Dated /\ SortedInv
  BY DEF Init, Dated, Sorted, SortedInv, SameDelayKeepsOrder
<1>2. Typed /\ OnceInv /\ Dated /\ SortedInv /\ [Next]_vars => (Dated /\ SortedInv)'
  BY DatedStep, SortedStep
<1>3. SortedInv => SameDelayKeepsOrder
  BY DEF SortedInv, SameDelayKeepsOrder
<1> QED BY <1>1, <1>2, <1>3, OnceInvariant, PTL DEF SafetySpec

=============================================================================
