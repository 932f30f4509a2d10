------------------------ MODULE TestingStreams_proofs ------------------------
(***************************************************************************)
(* Proofs about TestingStreams, for any number of streams and any length.  *)
(*                                                                         *)
(* What a stream publishes is right because of what an armed timer, or a   *)
(* running generator, stands for: a stream that has neither ended nor been *)
(* broken off by an exception, whose log is as long as its index.          *)
(***************************************************************************)
EXTENDS TestingStreams, TLAPS

Limited(s) == s \in Lists \cup Counted

\* A stream that goes on.
Active(s) ==
  /\ s \in started /\ s \notin failed
  /\ Limited(s) => index[s] < Length

InOrder(l) == l \in Seq(Nat) /\ \A i \in 1..Len(l) : l[i] = i

StreamTyped ==
  /\ started \subseteq Handles
  /\ stopped \subseteq started
  /\ generating \in Generators \cup {Nobody}
  /\ index \in [Handles -> Nat]
  /\ log \in [Handles -> Seq(Nat)]

StreamInv ==
  /\ StreamTyped
  /\ \A s \in timer : s \in Handles /\ Active(s) /\ s \notin stopped
  /\ generating # Nobody => Active(generating) /\ generating \notin timer
  /\ \A s \in Handles : s \notin started => index[s] = 0 /\ s \notin failed
  /\ \A s \in Handles :
       /\ InOrder(log[s])
       /\ Len(log[s]) = index[s] \/ (s \in failed /\ Len(log[s]) = index[s] + 1)
       /\ Limited(s) => Len(log[s]) <= Length

LEMMA NobodyIsNoHandle == Nobody \notin Generators
  BY StreamAssumption DEF Nobody

LEMMA NextInOrder ==
  ASSUME NEW l, InOrder(l), NEW n, n = Len(l) + 1
  PROVE  InOrder(Append(l, n)) /\ Len(Append(l, n)) = n
  BY DEF InOrder

\* What ScheduleNext leaves of the other streams, and of the one it is called for.
LEMMA ScheduleNextFacts ==
  ASSUME NEW s, NEW n \in Nat, ScheduleNext(s, n)
  PROVE  /\ timer' \subseteq timer \cup {s} /\ stopped \subseteq stopped'
         /\ stopped' \subseteq stopped \cup {s}
         /\ s \in timer' => s \notin stopped' /\ (Limited(s) => n < Length)
  BY StreamAssumption DEF ScheduleNext, AtEnd, Limited

LEMMA StreamStep == StreamInv /\ [Next]_vars => StreamInv'
<1> SUFFICES ASSUME StreamInv, [Next]_vars PROVE StreamInv'
  OBVIOUS
<1> USE NobodyIsNoHandle, StreamAssumption
<1>1. ASSUME NEW s \in Handles, Start(s) PROVE StreamInv'
  <2>1. ScheduleNext(s, 0)
    BY <1>1 DEF Start
  <2>2. index[s] = 0 /\ s \notin failed /\ s \notin timer /\ s \notin started
    BY <1>1 DEF Start, StreamInv, Active
  <2>3. generating # Nobody => generating # s
    BY <2>2 DEF StreamInv, Active
  <2> QED BY <1>1, <2>1, <2>2, <2>3, ScheduleNextFacts DEF Start, StreamInv, StreamTyped, Active, Limited, waitVars
\* a stream that publishes and goes on
<1>2. ASSUME NEW s \in Handles, Active(s), generating \in {s, Nobody}, Publish(s),
             index' = [index EXCEPT ![s] = @ + 1], ScheduleNext(s, index'[s]),
             generating' = Nobody, UNCHANGED <<started, failed>>
      PROVE  StreamInv'
  <2>1. /\ Len(log[s]) = index[s] /\ InOrder(log[s]) /\ index[s] \in Nat
        /\ log' = [log EXCEPT ![s] = Append(@, index[s] + 1)]
    BY <1>2 DEF StreamInv, StreamTyped, Active, Publish
  <2>2. /\ InOrder(log'[s]) /\ Len(log'[s]) = index'[s] /\ index'[s] = index[s] + 1
        /\ \A r \in Handles \ {s} : log'[r] = log[r] /\ index'[r] = index[r]
    BY <1>2, <2>1, NextInOrder DEF StreamInv, StreamTyped
  <2>3. StreamTyped'
    BY <1>2, <2>1, ScheduleNextFacts DEF StreamInv, StreamTyped, Active
  <2>4. \A r \in timer' : r \in Handles /\ Active(r)' /\ r \notin stopped'
    BY <1>2, <2>1, <2>2, ScheduleNextFacts DEF StreamInv, Active, Limited
  <2>5. \A r \in Handles :
          /\ InOrder(log'[r])
          /\ Len(log'[r]) = index'[r] \/ (r \in failed' /\ Len(log'[r]) = index'[r] + 1)
          /\ Limited(r) => Len(log'[r]) <= Length
    BY <1>2, <2>1, <2>2 DEF StreamInv, Active
  <2> QED BY <1>2, <2>2, <2>3, <2>4, <2>5 DEF StreamInv, Limited, Active
<1>3. ASSUME NEW s \in Handles, NextOfList(s) PROVE StreamInv'
  BY <1>2, <1>3 DEF NextOfList, Idle, StreamInv
<1>4. ASSUME NEW s \in Generators, NextOfGenerator(s) PROVE StreamInv'
  BY <1>2, <1>4 DEF NextOfGenerator, StreamInv, Handles
\* a stream that is broken off, before or after it has published
<1>5. ASSUME NEW s \in Handles, Active(s), generating \in {s, Nobody}, generating' = Nobody,
             Publish(s) \/ UNCHANGED log,
             index' \in {index, [index EXCEPT ![s] = @ + 1]},
             UNCHANGED log => UNCHANGED index,
             timer' = timer \ {s}, failed' = failed \cup {s}, UNCHANGED <<started, stopped>>
      PROVE  StreamInv'
  <2>1. Len(log[s]) = index[s] /\ InOrder(log[s]) /\ index[s] \in Nat
    BY <1>5 DEF StreamInv, StreamTyped, Active
  <2>2. log' \in {log, [log EXCEPT ![s] = Append(@, index[s] + 1)]}
    BY <1>5 DEF Publish
  <2>3. /\ InOrder(log'[s])
        /\ index'[s] \in Nat /\ Len(log'[s]) \in {index'[s], index'[s] + 1}
        /\ Len(log'[s]) <= index[s] + 1
        /\ \A r \in Handles \ {s} : log'[r] = log[r] /\ index'[r] = index[r]
    <3>1. CASE UNCHANGED log
      BY <1>5, <2>1, <3>1
    <3>2. CASE Publish(s)
      <4>1. log' = [log EXCEPT ![s] = Append(@, index[s] + 1)]
        BY <3>2 DEF Publish
      <4>2. /\ log'[s] = Append(log[s], index[s] + 1)
            /\ \A r \in Handles \ {s} : log'[r] = log[r]
        BY <4>1, <1>5 DEF StreamInv, StreamTyped
      <4>3. InOrder(log'[s]) /\ Len(log'[s]) = index[s] + 1
        <5> DEFINE l == log[s]
                   n == index[s] + 1
        <5>1. InOrder(l) /\ n = Len(l) + 1 /\ log'[s] = Append(l, n)
          BY <2>1, <4>2
        <5> HIDE DEF l, n
        <5>2. InOrder(log'[s]) /\ Len(log'[s]) = n
          BY <5>1, NextInOrder
        <5> QED BY <5>2 DEF n
      <4>4. /\ index'[s] \in {index[s], index[s] + 1}
            /\ \A r \in Handles \ {s} : index'[r] = index[r]
        BY <1>5 DEF StreamInv, StreamTyped
      <4> QED BY <2>1, <4>2, <4>3, <4>4
    <3> QED BY <1>5, <3>1, <3>2
  <2>4. StreamTyped'
    <3>1. index' \in [Handles -> Nat] /\ started' \subseteq Handles /\ stopped' \subseteq started'
      BY <1>5, <2>1 DEF StreamInv, StreamTyped
    <3>2. log' \in [Handles -> Seq(Nat)]
      BY <1>5, <2>1, <2>2, <2>3 DEF StreamInv, StreamTyped, InOrder
    <3> QED BY <1>5, <3>1, <3>2 DEF StreamTyped
  <2>5. \A r \in timer' : r \in Handles /\ Active(r)' /\ r \notin stopped'
    BY <1>5, <2>3 DEF StreamInv, Active
  <2>6. \A r \in Handles :
          /\ InOrder(log'[r])
          /\ Len(log'[r]) = index'[r] \/ (r \in failed' /\ Len(log'[r]) = index'[r] + 1)
          /\ Limited(r) => Len(log'[r]) <= Length
    BY <1>5, <2>1, <2>3 DEF StreamInv, Active, InOrder
  <2> QED BY <1>5, <2>3, <2>4, <2>5, <2>6 DEF StreamInv, Limited, Active
<1>6. ASSUME NEW s \in Handles, ListThrows(s) PROVE StreamInv'
  <2>1. Active(s) /\ generating = Nobody /\ generating' = Nobody
    BY <1>6 DEF ListThrows, Idle, StreamInv
  <2>2. /\ Publish(s) /\ timer' = timer \ {s} /\ failed' = failed \cup {s}
        /\ index' = [index EXCEPT ![s] = @ + 1] /\ UNCHANGED <<started, stopped>>
    BY <1>6 DEF ListThrows
  <2>3. ~ UNCHANGED log
    <3>1. Len(log[s]) = index[s] /\ log[s] \in Seq(Nat) /\ index[s] \in Nat /\ s \in DOMAIN log
      BY <2>1 DEF StreamInv, StreamTyped, Active, InOrder
    <3>2. log'[s] = Append(log[s], index[s] + 1)
      BY <2>2, <3>1 DEF Publish
    <3>3. Len(log'[s]) # Len(log[s])
      BY <3>1, <3>2
    <3> QED BY <3>3
  <2> QED BY <1>5, <2>1, <2>2, <2>3
<1>7. ASSUME NEW s \in Generators, GeneratorThrows(s) PROVE StreamInv'
  BY <1>5, <1>7 DEF GeneratorThrows, StreamInv, Handles
<1>8. ASSUME NEW s \in Handles, Generate(s) PROVE StreamInv'
  BY <1>8 DEF Generate, Idle, StreamInv, StreamTyped, Active, Limited
<1>9. ASSUME NEW s \in Handles, Stop(s) PROVE StreamInv'
  BY <1>9 DEF Stop, StreamInv, StreamTyped, Active, Limited
<1>10. CASE UNCHANGED <<streamVars, log, failed>>
  BY <1>10 DEF streamVars, StreamInv, StreamTyped, Active, Limited
<1> QED
  BY <1>1, <1>3, <1>4, <1>6, <1>7, <1>8, <1>9, <1>10
  DEF Next, Callback, ResetRelay, WaitFor, PollSucceeds, DeadlineFires, vars

LEMMA StreamInvariant == Spec => []StreamInv
<1>1. Init => StreamInv
  BY StreamAssumption DEF Init, StreamInv, StreamTyped, InOrder, Active, Limited
<1> QED BY <1>1, StreamStep, PTL DEF Spec

\* For any number of streams: each publishes its events one by one in their order,
\* and no more than it has or was asked for, whatever stops, resets and exceptions
\* come in between.
THEOREM StreamsPublishInOrder == Spec => []PublishesInOrder
<1>1. StreamInv => PublishesInOrder
  BY DEF StreamInv, InOrder, Limited, PublishesInOrder
<1> QED BY <1>1, StreamInvariant, PTL

\* ... and a stopped stream is silent, apart from the event its generator is making.
THEOREM StoppedStreamsAreSilent == Spec => StoppedIsSilent
<1>1. ASSUME StreamInv, Next, NEW s \in stopped
      PROVE  s \notin timer /\ (log'[s] # log[s] => generating = s)
  <2>1. s \notin timer
    BY <1>1 DEF StreamInv
  <2>2. ASSUME NEW r \in Handles, r # s, Publish(r) PROVE log'[s] = log[s]
    BY <1>1, <2>2 DEF StreamInv, StreamTyped, Publish
  <2> QED
    BY <1>1, <2>1, <2>2
    DEF Next, Handles, Start, Stop, Callback, NextOfList, Generate, ListThrows, NextOfGenerator,
        GeneratorThrows, ResetRelay, WaitFor, PollSucceeds, DeadlineFires
<1>2. ASSUME StreamInv
      PROVE  [Next]_vars
               => [\A s \in stopped :
                     /\ s \notin timer
                     /\ log'[s] # log[s] => generating = s]_vars
  BY <1>1, <1>2
<1> QED BY <1>2, StreamInvariant, PTL DEF Spec, StoppedIsSilent

\* A wait that is over, in whatever way, has no timer left.
THEOREM WaitLeavesNoTimer == Spec => []WaitIsOver
<1>1. Init => WaitIsOver
  BY DEF Init, WaitIsOver
<1>2. WaitIsOver /\ [Next]_vars => WaitIsOver'
  BY DEF WaitIsOver, Next, Start, Stop, Callback, NextOfList, Generate, ListThrows, NextOfGenerator,
         GeneratorThrows, ResetRelay, WaitFor, PollSucceeds, DeadlineFires, vars, waitVars
<1> QED BY <1>1, <1>2, PTL DEF Spec

=============================================================================
