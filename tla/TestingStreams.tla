--------------------------- MODULE TestingStreams ---------------------------
(***************************************************************************)
(* src/src/testing/stream.ts and wait.ts: streams that publish to a relay  *)
(* from timers, and a waitFor that polls for what they publish, while the  *)
(* test stops streams and resets the relay.                                *)
(*                                                                         *)
(* A timer's callback runs to its end, but for the call of eventGenerator, *)
(* which is code of the test and may stop streams, reset the relay or      *)
(* throw. Which timer fires next is open, so intervals and jitter are left *)
(* out. Of the relay, the model keeps how many events it has stored.       *)
(***************************************************************************)
EXTENDS Naturals, Sequences, FiniteSets

CONSTANTS
  Lists,       \* the handles of streamEvents
  Generators,  \* the handles of startStream
  Counted,     \* those of them with options.count
  Length,      \* how many events the lists have, and the value of options.count
  Goal,        \* waitFor waits until the relay has stored so many
  MaxEvents,   \* bound: events of a generator without count
  MaxResets    \* bound: resets

ASSUME StreamAssumption ==
  /\ Lists \cap Generators = {}
  /\ Counted \subseteq Generators
  /\ "nobody" \notin Generators
  /\ Length \in Nat /\ Goal \in Nat /\ MaxEvents \in Nat /\ MaxResets \in Nat

VARIABLES
  started,     \* the streams that were started
  stopped,     \* those whose `stopped' is set
  timer,       \* those whose timer is armed
  index,       \* index or count of each
  generating,  \* the one whose eventGenerator is running
  stored,      \* number of events in the relay
  waiting,     \* the promise of waitFor: none, pending, resolved, rejected
  timers,      \* the timers of waitFor: poller, deadline
  log,         \* history: the events each stream has given to the relay
  failed,      \* history: those ended by an exception
  resets       \* number of resets

streamVars == <<started, stopped, timer, index, generating>>
waitVars == <<waiting, timers>>
vars == <<streamVars, stored, waitVars, log, failed, resets>>

Handles == Lists \cup Generators
Nobody == "nobody"

Init ==
  /\ started = {} /\ stopped = {} /\ timer = {}
  /\ index = [s \in Handles |-> 0]
  /\ generating = Nobody
  /\ stored = 0
  /\ waiting = "none"
  /\ timers = {}
  /\ log = [s \in Handles |-> <<>>]
  /\ failed = {}
  /\ resets = 0

\* No timer fires while eventGenerator runs.
Idle == generating = Nobody

-----------------------------------------------------------------------------
(***************************************************************************)
(* Streams.                                                                *)
(***************************************************************************)

\* (mutant) The count is compared one too late.
OneMore(s, n) == s \in Lists \cup Counted /\ n > Length

AtEnd(s, n) == s \in Lists \cup Counted /\ n >= Length

\* (mutant) A stream that its generator has stopped goes on.
ScheduleAnyway(s, n) ==
  IF AtEnd(s, n)
    THEN timer' = timer \ {s} /\ stopped' = stopped \cup ({s} \cap Generators)
    ELSE timer' = timer \cup {s} /\ UNCHANGED stopped

\* (mutant) A timer that has fired is taken for one that is armed.
ScheduleOnce(s, n) ==
  timer' = (IF n = 0 THEN timer \cup {s} ELSE timer \ {s}) /\ UNCHANGED stopped

\* A counted generator that has reached its count is stopped; a list just ends. (The
\* callbacks look at `stopped' again, which StoppedIsSilent shows to be idle.)
ScheduleNext(s, n) ==
  IF s \in stopped
    THEN timer' = timer \ {s} /\ UNCHANGED stopped
    ELSE IF AtEnd(s, n)
      THEN timer' = timer \ {s} /\ stopped' = stopped \cup ({s} \cap Generators)
      ELSE timer' = timer \cup {s} /\ UNCHANGED stopped

Start(s) ==
  /\ s \notin started
  /\ started' = started \cup {s}
  /\ ScheduleNext(s, 0)
  /\ UNCHANGED <<index, generating, stored, waitVars, log, failed, resets>>

\* relay.store takes the event, or turns it down as a duplicate, an older version,
\* a deleted or an ephemeral event.
Publish(s) ==
  /\ stored' \in {stored, stored + 1}
  /\ log' = [log EXCEPT ![s] = Append(@, index[s] + 1)]

\* The callback of streamEvents.
NextOfList(s) ==
  /\ Idle /\ s \in Lists \cap timer
  /\ Publish(s)
  /\ index' = [index EXCEPT ![s] = @ + 1]
  /\ ScheduleNext(s, index'[s])
  /\ UNCHANGED <<started, generating, waitVars, failed, resets>>

\* relay.broadcast throws: the event is passed over, the timer not armed again.
ListThrows(s) ==
  /\ Idle /\ s \in Lists \cap timer
  /\ Publish(s)
  /\ index' = [index EXCEPT ![s] = @ + 1]
  /\ timer' = timer \ {s}
  /\ failed' = failed \cup {s}
  /\ UNCHANGED <<started, stopped, generating, waitVars, resets>>

\* The callback of startStream calls eventGenerator, ...
Generate(s) ==
  /\ Idle /\ s \in Generators \cap timer
  /\ index[s] < MaxEvents
  /\ timer' = timer \ {s}
  /\ generating' = s
  /\ UNCHANGED <<started, stopped, index, stored, waitVars, log, failed, resets>>

\* ... publishes the event whatever the generator has done, and goes on, ...
NextOfGenerator(s) ==
  /\ generating = s
  /\ generating' = Nobody
  /\ Publish(s)
  /\ index' = [index EXCEPT ![s] = @ + 1]
  /\ ScheduleNext(s, index'[s])
  /\ UNCHANGED <<started, waitVars, failed, resets>>

\* ... or ends silently, as the generator, or relay.broadcast, has thrown.
GeneratorThrows(s) ==
  /\ generating = s
  /\ generating' = Nobody
  /\ Publish(s) \/ UNCHANGED <<stored, log>>
  /\ failed' = failed \cup {s}
  /\ UNCHANGED <<started, stopped, timer, index, waitVars, resets>>

\* From the test, or from a generator.
Stop(s) ==
  /\ s \in started \ stopped
  /\ stopped' = stopped \cup {s}
  /\ timer' = timer \ {s}
  /\ UNCHANGED <<started, index, generating, stored, waitVars, log, failed, resets>>

\* relay.reset() does not know of streams.
ResetRelay ==
  /\ resets < MaxResets
  /\ resets' = resets + 1
  /\ stored' = 0
  /\ UNCHANGED <<streamVars, waitVars, log, failed>>

-----------------------------------------------------------------------------
(***************************************************************************)
(* waitFor(() => the relay has stored Goal events).                        *)
(***************************************************************************)

WaitFor ==
  /\ waiting = "none"
  /\ IF stored >= Goal THEN waiting' = "resolved" /\ UNCHANGED timers
     ELSE waiting' = "pending" /\ timers' = {"poller", "deadline"}
  /\ UNCHANGED <<streamVars, stored, log, failed, resets>>

\* The poller finds the condition true.
PollSucceeds ==
  /\ Idle /\ "poller" \in timers
  /\ stored >= Goal
  /\ timers' = {}
  /\ waiting' = "resolved"
  /\ UNCHANGED <<streamVars, stored, log, failed, resets>>

\* (mutant) The poller goes on after the rejection.
DeadlineOnlyRejects ==
  /\ Idle /\ "deadline" \in timers
  /\ timers' = timers \ {"deadline"}
  /\ waiting' = IF waiting = "pending" THEN "rejected" ELSE waiting
  /\ UNCHANGED <<streamVars, stored, log, failed, resets>>

\* (mutant) The promise is left alone.
DeadlineOnlyClears ==
  /\ Idle /\ "deadline" \in timers
  /\ timers' = {}
  /\ UNCHANGED <<waiting, streamVars, stored, log, failed, resets>>

DeadlineFires ==
  /\ Idle /\ "deadline" \in timers
  /\ timers' = {}
  /\ waiting' = IF waiting = "pending" THEN "rejected" ELSE waiting
  /\ UNCHANGED <<streamVars, stored, log, failed, resets>>

-----------------------------------------------------------------------------

Callback(s) == NextOfList(s) \/ Generate(s)

Next ==
  \/ \E s \in Handles : Start(s) \/ Stop(s) \/ Callback(s) \/ ListThrows(s)
  \/ \E s \in Generators : NextOfGenerator(s) \/ GeneratorThrows(s)
  \/ ResetRelay
  \/ WaitFor \/ PollSucceeds \/ DeadlineFires

\* Timers fire, and generators return or throw.
Spec ==
  /\ Init /\ [][Next]_vars
  /\ \A s \in Handles : WF_vars(Callback(s) \/ ListThrows(s))
  /\ \A s \in Generators : WF_vars(NextOfGenerator(s) \/ GeneratorThrows(s))
  /\ WF_vars(PollSucceeds \/ DeadlineFires)

-----------------------------------------------------------------------------
(***************************************************************************)
(* Properties.                                                             *)
(***************************************************************************)

TypeOK ==
  /\ started \subseteq Handles /\ stopped \subseteq started /\ timer \subseteq started
  /\ index \in [Handles -> 0..(IF MaxEvents > Length THEN MaxEvents ELSE Length)]
  /\ generating \in Generators \cup {Nobody}
  /\ stored \in Nat /\ resets \in 0..MaxResets
  /\ waiting \in {"none", "pending", "resolved", "rejected"}
  /\ timers \subseteq {"poller", "deadline"}
  /\ log \in [Handles -> Seq(Nat)]

\* A stopped stream publishes nothing any more and has no timer left, whether the
\* test, its own generator or its count has stopped it; only the event of the
\* generator that is running is still published.
StoppedIsSilent ==
  [][\A s \in stopped :
       /\ s \notin timer
       /\ log'[s] # log[s] => generating = s]_vars

\* A stream publishes its events one by one in their order, whatever resets come in
\* between, and no more than it has or was asked for.
PublishesInOrder ==
  \A s \in Handles :
    /\ \A i \in DOMAIN log[s] : log[s][i] = i
    /\ s \in Lists \cup Counted => Len(log[s]) <= Length

\* A list or a counted stream gets to its end, unless it is stopped, or an
\* exception ends it.
StreamsEnd ==
  \A s \in Lists \cup Counted :
    s \in started ~> s \in stopped \cup failed \/ Len(log[s]) = Length

\* A wait that is over has no timer left that would keep the process alive, or settle
\* it again.
WaitIsOver == waiting # "pending" => timers = {}

\* waitFor settles, whatever the streams do.
WaitSettles == waiting = "pending" ~> waiting \in {"resolved", "rejected"}

=============================================================================
