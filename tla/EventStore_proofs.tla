-------------------------- MODULE EventStore_proofs --------------------------
(***************************************************************************)
(* Proofs about EventStore, for any set of events and any history of       *)
(* stores, publications, deletions, maintenance and snapshots.             *)
(*                                                                         *)
(* The array, the indexes and the Map of latest versions depend on each    *)
(* other: replacing an event takes the one the Map names out of the array  *)
(* and out of the indexes, which is right because the Map names the only   *)
(* one at its address. So they are proved together (Coherent), of any      *)
(* array, since a deletion first makes one and then appends to it.         *)
(*                                                                         *)
(* The queries are proved about next, in any state of which Coherent       *)
(* holds. Sorting, keeping the best while walking, narrowing by the        *)
(* indexes and joining the results of several filters are loops: each is   *)
(* followed turn by turn, by induction stated as a fact about a set of     *)
(* numbers.                                                                *)
(***************************************************************************)
EXTENDS EventQueries, QueueFacts, FiniteSetTheorems, TLAPS

AFunction(f) == f = [x \in DOMAIN f |-> f[x]]

OneEach(es) ==
  \A p, q \in DOMAIN es :
    /\ Addressable(es[p]) /\ Addressable(es[q])
    /\ es[p].event.address = es[q].event.address
    => p = q

MapOf(es, map) ==
  /\ AFunction(map)
  /\ \A a \in DOMAIN map :
       map[a] \in Stored(es) /\ Addressable(map[a]) /\ map[a].event.address = a
  /\ \A p \in DOMAIN es :
       Addressable(es[p]) =>
         es[p].event.address \in DOMAIN map /\ map[es[p].event.address] = es[p]

Coherent(es, set, map) ==
  /\ AFunction(es)
  /\ Stored(es) \subseteq Objects
  /\ set = Stored(es)
  /\ OneEach(es)
  /\ MapOf(es, map)

\* Only deletions are held in spite of their own deletion.
KeptOut(es, ids) ==
  \A p \in DOMAIN es : es[p].event.id \in ids => es[p].event.kind = "deletion"

\* A snapshot can be restored.
SavedInv ==
  /\ saved.nextOrder \in 0..MaxOrder
  /\ DOMAIN saved.store \subseteq 0..(saved.nextOrder - 1)
  /\ \A p \in DOMAIN saved.store : saved.store[p] \in Events
  /\ saved.deletedIds \subseteq Ids
  /\ \A p, q \in DOMAIN saved.store :
       /\ saved.store[p].kind = "addressable" /\ saved.store[q].kind = "addressable"
       /\ saved.store[p].address = saved.store[q].address
       => p = q
  /\ \A p \in DOMAIN saved.store :
       saved.store[p].id \in saved.deletedIds => saved.store[p].kind = "deletion"

StoreInv ==
  /\ nextOrder \in 0..MaxOrder
  /\ DOMAIN events \subseteq 0..(nextOrder - 1)
  /\ deletedIds \subseteq Ids
  /\ Coherent(events, indexed, latest)
  /\ KeptOut(events, deletedIds)
  /\ SavedInv

-----------------------------------------------------------------------------
(***************************************************************************)
(* The objects, and arrays made from arrays.                               *)
(***************************************************************************)

LEMMA NewObjects ==
  ASSUME NEW e \in Events, NEW position \in Nat
  PROVE  /\ TestObject(e) \in Objects /\ TestObject(e).event = e
         /\ NewObject(e, position) \in Objects /\ NewObject(e, position).event = e
  BY DEF TestObject, NewObject, Objects

\* An object whose address the Map does not have is appended.
LEMMA AppendKeeps ==
  ASSUME NEW es, NEW set, NEW map, Coherent(es, set, map),
         NEW o \in Objects, nextOrder \notin DOMAIN es,
         Addressable(o) => o.event.address \notin DOMAIN map
  PROVE  Coherent(Appended(es, o), set \cup {o}, WithLatest(map, o))
<1> DEFINE a == o.event.address
           new == Appended(es, o)
<1>1. /\ AFunction(new)
      /\ DOMAIN new = DOMAIN es \cup {nextOrder}
      /\ new[nextOrder] = o
      /\ \A p \in DOMAIN es : new[p] = es[p]
  BY DEF Appended, AFunction
<1>2. Stored(new) = Stored(es) \cup {o}
  BY <1>1 DEF Stored
<1>3. OneEach(new)
  BY <1>1 DEF OneEach, Coherent, MapOf
<1>4. CASE ~Addressable(o)
  <2>1. WithLatest(map, o) = map
    BY <1>4 DEF WithLatest
  <2>2. MapOf(new, map)
    BY <1>1, <1>2, <1>4 DEF MapOf, Coherent
  <2> QED BY <1>1, <1>2, <1>3, <2>1, <2>2 DEF Coherent
<1>5. CASE Addressable(o)
  <2> DEFINE later == WithLatest(map, o)
  <2>1. /\ AFunction(later)
        /\ DOMAIN later = DOMAIN map \cup {a}
        /\ later[a] = o
        /\ \A b \in DOMAIN map : later[b] = map[b]
    BY <1>5 DEF WithLatest, AFunction
  <2> HIDE DEF later, new
  <2>2. MapOf(new, later)
    BY <1>1, <1>2, <1>5, <2>1 DEF MapOf, Coherent
  <2> QED BY <1>1, <1>2, <1>3, <2>2 DEF Coherent, later, new
<1> QED BY <1>4, <1>5

\* The indexes built from scratch fit the array.
LEMMA RebuildKeeps ==
  ASSUME NEW es, AFunction(es), Stored(es) \subseteq Objects, OneEach(es)
  PROVE  Coherent(es, Stored(es), LatestOf(es))
<1> DEFINE map == LatestOf(es)
<1>1. \A a : \A p \in Positions(es, a) : Winner(es, a) = p
  <2> SUFFICES ASSUME NEW a, NEW p \in Positions(es, a)
               PROVE  Winner(es, a) = p
    OBVIOUS
  <2>1. Positions(es, a) = {p}
    BY DEF Positions, OneEach
  <2> QED BY <2>1 DEF Winner
<1>2. AFunction(map) /\ DOMAIN map = {b \in Addresses : Positions(es, b) # {}}
  BY DEF LatestOf, AFunction
<1>3. ASSUME NEW a \in DOMAIN map
      PROVE  map[a] \in Stored(es) /\ Addressable(map[a]) /\ map[a].event.address = a
  <2>1. PICK p \in Positions(es, a) : TRUE
    BY <1>2
  <2>2. map[a] = es[p]
    BY <1>1, <1>2, <2>1 DEF LatestOf
  <2> QED BY <2>1, <2>2 DEF Positions, Stored
<1>4. ASSUME NEW p \in DOMAIN es, Addressable(es[p])
      PROVE  es[p].event.address \in DOMAIN map /\ map[es[p].event.address] = es[p]
  <2> DEFINE a == es[p].event.address
  <2>1. p \in Positions(es, a)
    BY <1>4 DEF Positions
  <2>2. a \in Addresses
    BY <1>4 DEF Stored, Objects, Addresses, Addressable
  <2>3. a \in DOMAIN map
    BY <1>2, <2>1, <2>2
  <2>4. map[a] = es[Winner(es, a)]
    BY <1>2, <2>3 DEF LatestOf
  <2> QED BY <1>1, <2>1, <2>3, <2>4
<1> QED BY <1>2, <1>3, <1>4 DEF Coherent, MapOf

\* Part of an array, as deletion and clearOlderThan leave it.
LEMMA OnlyKeeps ==
  ASSUME NEW es, AFunction(es), Stored(es) \subseteq Objects, OneEach(es),
         NEW P, P \subseteq DOMAIN es
  PROVE  /\ AFunction(Only(es, P)) /\ DOMAIN Only(es, P) = P
         /\ \A p \in P : Only(es, P)[p] = es[p]
         /\ Stored(Only(es, P)) \subseteq Stored(es)
         /\ OneEach(Only(es, P))
  BY DEF AFunction, Only, Stored, OneEach

-----------------------------------------------------------------------------
(***************************************************************************)
(* The steps.                                                              *)
(***************************************************************************)

\* What the Map has for an address is in the array, in one place.
LEMMA LatestIsOnce ==
  ASSUME StoreInv, NEW a \in DOMAIN latest
  PROVE  LET p == FirstPosition(latest[a])
         IN /\ p \in DOMAIN events /\ events[p] = latest[a]
            /\ \A q \in DOMAIN events : events[q] = latest[a] => q = p
<1>1. PICK p \in DOMAIN events : events[p] = latest[a]
  BY DEF StoreInv, Coherent, MapOf, Stored
<1>2. \A q \in DOMAIN events : events[q] = latest[a] => q = p
  BY <1>1 DEF StoreInv, Coherent, MapOf, OneEach
<1>3. p <= p
  BY DEF StoreInv
<1>4. FirstPosition(latest[a]) = p
  BY <1>1, <1>2, <1>3 DEF FirstPosition
<1> QED BY <1>1, <1>2, <1>4

\* Whatever is stored, published or refused.
LEMMA KeepStep ==
  ASSUME StoreInv, nextOrder < MaxOrder, NEW o \in Objects, Keep(o), UNCHANGED saved
  PROVE  StoreInv'
<1> DEFINE e == o.event
<1>0. /\ nextOrder \in Nat /\ nextOrder + 1 \in 0..MaxOrder
      /\ nextOrder \notin DOMAIN events
      /\ DOMAIN events \cup {nextOrder} \subseteq 0..(nextOrder + 1 - 1)
      /\ e \in Events
  BY EventAssumption DEF StoreInv, Objects
<1>saved. SavedInv'
  BY DEF StoreInv, SavedInv
<1>1. CASE UNCHANGED storeVars
  BY <1>1, <1>saved DEF StoreInv, storeVars, Coherent, AFunction, Stored, OneEach, MapOf, KeptOut
<1>2. CASE /\ ~Deleted(e)
           /\ Addressable(o) => e.address \notin DOMAIN latest
           /\ AppendEvent(o)
  <2>1. Coherent(events, indexed, latest)'
    BY <1>0, <1>2, AppendKeeps DEF AppendEvent, Reindexed, StoreInv
  <2>2. DOMAIN Appended(events, o) = DOMAIN events \cup {nextOrder}
    BY DEF Appended
  <2>3. KeptOut(events, deletedIds)'
    BY <1>2 DEF AppendEvent, Appended, KeptOut, StoreInv, Deleted
  <2> QED BY <1>0, <1>2, <1>saved, <2>1, <2>2, <2>3 DEF StoreInv, AppendEvent
<1>3. CASE /\ ~Deleted(e)
           /\ Addressable(o) /\ e.address \in DOMAIN latest
           /\ Replace(latest[e.address], o)
  <2> DEFINE old == latest[e.address]
             left == Only(events, DOMAIN events \ {FirstPosition(old)})
             map == WithoutLatest(latest, old)
             p == FirstPosition(old)
  <2>1. /\ p \in DOMAIN events /\ events[p] = old
        /\ \A q \in DOMAIN events : events[q] = old => q = p
    BY <1>3, LatestIsOnce
  <2>5. /\ AFunction(left) /\ DOMAIN left = DOMAIN events \ {p}
        /\ \A q \in DOMAIN left : left[q] = events[q]
        /\ Stored(left) \subseteq Stored(events) /\ OneEach(left)
    BY OnlyKeeps DEF StoreInv, Coherent
  <2>6. indexed \ {old} = Stored(left)
    <3>1. Stored(left) = {events[q] : q \in DOMAIN events \ {p}}
      BY <2>5 DEF Stored
    <3>2. indexed = {events[q] : q \in DOMAIN events}
      BY DEF StoreInv, Coherent, Stored
    <3> HIDE DEF left
    <3> QED BY <2>1, <3>1, <3>2
  <2>7. MapOf(left, map)
    <3>1. AFunction(map) /\ DOMAIN map = {b \in DOMAIN latest : latest[b] # old}
      BY DEF WithoutLatest, AFunction
    <3>2. \A b \in DOMAIN map : map[b] = latest[b] /\ map[b] # old
      BY DEF WithoutLatest
    <3>3. ASSUME NEW b \in DOMAIN map
          PROVE  map[b] \in Stored(left) /\ Addressable(map[b]) /\ map[b].event.address = b
      BY <2>6, <3>1, <3>2 DEF StoreInv, Coherent, MapOf
    <3>4. ASSUME NEW q \in DOMAIN left, Addressable(left[q])
          PROVE  /\ left[q].event.address \in DOMAIN map
                 /\ map[left[q].event.address] = left[q]
      <4>1. left[q] = events[q] /\ events[q] # old
        BY <2>1, <2>5
      <4> QED BY <2>5, <3>1, <3>2, <3>4, <4>1 DEF StoreInv, Coherent, MapOf
    <3> QED BY <3>1, <3>3, <3>4 DEF MapOf
  <2>8. e.address \notin DOMAIN map
    BY DEF WithoutLatest
  <2> HIDE DEF left, map, p
  <2>9. Coherent(left, indexed \ {old}, map)
    BY <2>5, <2>6, <2>7 DEF Coherent, StoreInv
  <2>10. nextOrder \notin DOMAIN left
    BY <1>0, <2>5
  <2>11. Coherent(Appended(left, o), (indexed \ {old}) \cup {o}, WithLatest(map, o))
    BY <2>8, <2>9, <2>10, AppendKeeps
  <2>12. /\ events' = Appended(left, o) /\ indexed' = (indexed \ {old}) \cup {o}
         /\ latest' = WithLatest(map, o) /\ nextOrder' = nextOrder + 1
         /\ UNCHANGED deletedIds
    BY <1>3 DEF Replace, Reindexed, left, map
  <2>13. DOMAIN events' = DOMAIN left \cup {nextOrder} /\ KeptOut(events, deletedIds)'
    BY <1>3, <2>5, <2>12 DEF Appended, KeptOut, StoreInv, Deleted
  <2> QED BY <1>0, <1>saved, <2>5, <2>11, <2>12, <2>13 DEF StoreInv
<1>4. CASE e.kind = "deletion" /\ DeleteAndAppend(o)
  <2> DEFINE ids == IdsByTag(e) \cup IdsByAddress(e)
             kept == {p \in DOMAIN events : events[p].event.id \notin ids}
             left == Only(events, kept)
             set == IF ids = {} THEN indexed ELSE Stored(left)
             map == LatestAfterDeletion(ids, left)
  <2>1. /\ AFunction(left) /\ DOMAIN left = kept
        /\ \A p \in kept : left[p] = events[p]
        /\ Stored(left) \subseteq Stored(events) /\ OneEach(left)
    BY OnlyKeeps DEF StoreInv, Coherent
  <2>2. ids \subseteq Ids
    <3>1. IdsByTag(e) \subseteq Ids
      BY DEF IdsByTag, Ids, StoreInv, Coherent, Objects
    <3>2. IdsByAddress(e) \subseteq Ids
      BY DEF IdsByAddress, Ids, StoreInv, Coherent, MapOf, Objects
    <3> QED BY <3>1, <3>2
  <2>3. Coherent(left, set, map)
    <3>1. CASE ids = {}
      <4>1. left = events
        BY <2>1, <3>1 DEF StoreInv, Coherent, AFunction
      <4> QED BY <3>1, <4>1 DEF StoreInv, LatestAfterDeletion
    <3>2. CASE ids # {}
      BY <2>1, <3>2, RebuildKeeps DEF StoreInv, Coherent, LatestAfterDeletion
    <3> QED BY <3>1, <3>2
  <2>4. /\ events' = Appended(left, o) /\ indexed' = set \cup {o}
        /\ latest' = WithLatest(map, o) /\ nextOrder' = nextOrder + 1
        /\ deletedIds' = deletedIds \cup ids
    BY <1>4 DEF DeleteAndAppend
  <2>5. /\ nextOrder \notin DOMAIN left
        /\ DOMAIN events' = DOMAIN left \cup {nextOrder}
        /\ DOMAIN left \subseteq DOMAIN events
    BY <1>0, <2>1, <2>4 DEF Appended
  <2>6. KeptOut(events, deletedIds)'
    BY <1>4, <2>1, <2>4 DEF Appended, KeptOut, StoreInv
  <2> HIDE DEF left, set, map, ids
  <2>7. Coherent(events, indexed, latest)'
    BY <1>4, <2>3, <2>4, <2>5, AppendKeeps DEF Addressable
  <2> QED BY <1>0, <1>saved, <2>2, <2>4, <2>5, <2>6, <2>7 DEF StoreInv
<1> QED BY <1>1, <1>2, <1>3, <1>4 DEF Keep, Addressable

LEMMA MaintenanceStep ==
  ASSUME StoreInv, \/ \E timestamp \in {e.created : e \in Events} : ClearOlderThan(timestamp)
                   \/ Snapshot \/ RestoreSnapshot \/ Reset
  PROVE  StoreInv'
<1>1. ASSUME NEW timestamp, ClearOlderThan(timestamp) PROVE StoreInv'
  <2> DEFINE left == Only(events, {p \in DOMAIN events : events[p].event.created >= timestamp})
  <2>1. CASE UNCHANGED vars
    BY <2>1 DEF StoreInv, vars, storeVars, Coherent, AFunction, Stored, OneEach, MapOf, KeptOut, SavedInv
  <2>2. CASE Rebuild(left) /\ UNCHANGED <<nextOrder, deletedIds, saved>>
    <3>1. /\ AFunction(left) /\ DOMAIN left \subseteq DOMAIN events
          /\ \A p \in DOMAIN left : left[p] = events[p]
          /\ Stored(left) \subseteq Stored(events) /\ OneEach(left)
      BY OnlyKeeps DEF StoreInv, Coherent
    <3> HIDE DEF left
    <3>2. Coherent(left, Stored(left), LatestOf(left))
      BY <3>1, RebuildKeeps DEF StoreInv, Coherent
    <3>3. Coherent(events, indexed, latest)' /\ events' = left
      BY <2>2, <3>2 DEF Rebuild
    <3>4. KeptOut(events, deletedIds)' /\ SavedInv'
      BY <2>2, <3>1, <3>3 DEF StoreInv, KeptOut, SavedInv
    <3> QED BY <2>2, <3>1, <3>3, <3>4 DEF StoreInv
  <2> QED BY <1>1, <2>1, <2>2 DEF ClearOlderThan, vars, storeVars
<1>2. CASE Snapshot
  <2>1. /\ saved'.nextOrder = nextOrder /\ saved'.deletedIds = deletedIds
        /\ DOMAIN saved'.store = DOMAIN events
        /\ \A p \in DOMAIN events : saved'.store[p] = events[p].event
    BY <1>2 DEF Snapshot
  <2>2. \A p \in DOMAIN events : events[p].event \in Events
    BY DEF StoreInv, Coherent, Stored, Objects
  <2>3. SavedInv'
    BY <2>1, <2>2 DEF SavedInv, StoreInv, Coherent, OneEach, Addressable, KeptOut
  <2> QED BY <1>2, <2>3 DEF Snapshot, storeVars, StoreInv, Coherent, AFunction, Stored, OneEach, MapOf, KeptOut
<1>3. CASE RestoreSnapshot
  <2> DEFINE es == [p \in DOMAIN saved.store |-> NewObject(saved.store[p], p)]
  <2>1. \A p \in DOMAIN es : es[p] \in Objects /\ es[p].event = saved.store[p]
    BY NewObjects DEF StoreInv, SavedInv
  <2>2. AFunction(es) /\ Stored(es) \subseteq Objects /\ OneEach(es)
    <3>1. AFunction(es) /\ Stored(es) \subseteq Objects
      BY <2>1 DEF AFunction, Stored
    <3>2. DOMAIN es = DOMAIN saved.store
      OBVIOUS
    <3> HIDE DEF es
    <3>3. OneEach(es)
      BY <2>1, <3>2 DEF StoreInv, SavedInv, OneEach, Addressable
    <3> QED BY <3>1, <3>3
  <2>3. KeptOut(es, saved.deletedIds)
    BY <2>1 DEF StoreInv, SavedInv, KeptOut
  <2>4. DOMAIN es = DOMAIN saved.store
    OBVIOUS
  <2>5. /\ events' = es /\ indexed' = Stored(es) /\ latest' = LatestOf(es)
        /\ nextOrder' = saved.nextOrder /\ deletedIds' = saved.deletedIds /\ saved' = saved
    BY <1>3 DEF RestoreSnapshot, Rebuild, OrderRestored
  <2> HIDE DEF es
  <2>6. Coherent(events, indexed, latest)' /\ KeptOut(events, deletedIds)'
    BY <2>2, <2>3, <2>5, RebuildKeeps
  <2> QED BY <2>4, <2>5, <2>6 DEF StoreInv, SavedInv
<1>4. CASE Reset
  BY <1>4, EventAssumption
  DEF Reset, NoEvents, StoreInv, Coherent, AFunction, Stored, OneEach, MapOf, KeptOut, SavedInv
<1> QED BY <1>1, <1>2, <1>3, <1>4

LEMMA StoreStep == StoreInv /\ [Next]_vars => StoreInv'
<1> SUFFICES ASSUME StoreInv, [Next]_vars PROVE StoreInv'
  OBVIOUS
<1>1. ASSUME NEW e \in Events, Store(e) PROVE StoreInv'
  BY <1>1, KeepStep, NewObjects, EventAssumption DEF Store
<1>2. ASSUME NEW e \in Events, Publish(e) PROVE StoreInv'
  <2>1. CASE UNCHANGED vars
    BY <2>1 DEF StoreInv, vars, storeVars, Coherent, AFunction, Stored, OneEach, MapOf, KeptOut, SavedInv
  <2>2. CASE Keep(NewObject(e, nextOrder))
    BY <1>2, <2>2, KeepStep, NewObjects, EventAssumption DEF Publish, StoreInv
  <2> QED BY <1>2, <2>1, <2>2 DEF Publish, vars
<1>3. CASE UNCHANGED vars
  BY <1>3 DEF StoreInv, vars, storeVars, Coherent, AFunction, Stored, OneEach, MapOf, KeptOut, SavedInv
<1> QED BY <1>1, <1>2, <1>3, MaintenanceStep DEF Next

\* A new relay has an empty store.
LEMMA InitialStore == Init => StoreInv
  BY EventAssumption
  DEF Init, NoEvents, StoreInv, Coherent, AFunction, Stored, OneEach, MapOf, KeptOut, SavedInv

\* The invariant of the store holds.
LEMMA StoreInvariant == Spec => []StoreInv
  BY InitialStore, StoreStep, PTL DEF Spec

-----------------------------------------------------------------------------
(***************************************************************************)
(* The theorems.                                                           *)
(***************************************************************************)

\* For any events and any history: the state has its shape.
THEOREM StoreIsTyped == Spec => []TypeOK
<1>1. StoreInv => TypeOK
  BY EventAssumption DEF StoreInv, SavedInv, Coherent, MapOf, TypeOK, Addresses, Addressable, Objects
<1> QED BY <1>1, StoreInvariant, PTL

\* ... the indexes that queries are answered from hold what the array holds,
THEOREM IndexesAreRight == Spec => []IndexesMatchEvents
  BY StoreInvariant, PTL DEF StoreInv, Coherent, IndexesMatchEvents

\* ... no address has two events,
THEOREM OneVersionIsKept == Spec => []OnePerAddress
  BY StoreInvariant, PTL DEF StoreInv, Coherent, OneEach, OnePerAddress

\* ... the Map that replacement and deletion rely on points at the one that is held,
THEOREM LatestIsTheOneStored == Spec => []LatestIsStored
<1>1. StoreInv => LatestIsStored
  BY DEF StoreInv, Coherent, MapOf, LatestIsStored
<1> QED BY <1>1, StoreInvariant, PTL

\* ... and what was deleted stays out.
THEOREM DeletedEventsStayOut == Spec => []DeletedStayOut
  BY StoreInvariant, PTL DEF StoreInv, KeptOut, DeletedStayOut

-----------------------------------------------------------------------------
(***************************************************************************)
(* The store implements StoreContents: the events of its objects change by *)
(* rules that look at all of them. What the indexes find is all there is   *)
(* (IndexesAreRight), what the Map has is the only version there is, and   *)
(* an id stands for one event.                                             *)
(***************************************************************************)

Held(es) == {es[p].event : p \in DOMAIN es}

LEMMA HeldAfterAppend ==
  ASSUME NEW es, NEW o, nextOrder \notin DOMAIN es
  PROVE  Held(Appended(es, o)) = Held(es) \cup {o.event}
  BY DEF Held, Appended

\* Appending where nothing has the address, and replacing what has it, is Add.
LEMMA KeepImplements ==
  ASSUME StoreInv, nextOrder < MaxOrder, NEW o \in Objects, Keep(o), UNCHANGED saved
  PROVE  \/ UNCHANGED Contents!contentsVars
         \/ Contents!Add(o.event) \/ Contents!Delete(o.event)
<1> DEFINE e == o.event
<1>0. /\ nextOrder \notin DOMAIN events
      /\ e \in Events /\ Held(events) \subseteq Events
  BY EventAssumption DEF StoreInv, Coherent, Stored, Objects, Held
<1>1. CASE UNCHANGED storeVars
  BY <1>1 DEF storeVars, Contents!contentsVars
<1>2. CASE /\ e.kind \in {"regular", "addressable"} /\ ~Deleted(e)
           /\ Addressable(o) => e.address \notin DOMAIN latest
           /\ AppendEvent(o)
  <2>1. e.kind = "addressable" => \A f \in Held(events) : ~Contents!SameAddress(f, e)
    BY <1>2 DEF StoreInv, Coherent, MapOf, Held, Addressable, Contents!SameAddress
  <2>2. Held(events') = Held(events) \cup {e}
    BY <1>0, <1>2, HeldAfterAppend DEF AppendEvent
  <2>3. Contents!Add(e)
    BY <1>2, <2>1, <2>2 DEF AppendEvent, Contents!Add, Held, Deleted
  <2> QED BY <2>3
<1>3. CASE /\ ~Deleted(e) /\ Addressable(o) /\ e.address \in DOMAIN latest
           /\ Preferred(e, latest[e.address].event)
           /\ Replace(latest[e.address], o)
  <2> DEFINE old == latest[e.address]
             p == FirstPosition(old)
             left == Only(events, DOMAIN events \ {p})
  <2>1. /\ p \in DOMAIN events /\ events[p] = old
        /\ Addressable(old) /\ old.event.address = e.address
    BY <1>3, LatestIsOnce DEF StoreInv, Coherent, MapOf
  <2>2. \A q \in DOMAIN events : Contents!SameAddress(events[q].event, e) <=> q = p
    BY <2>1 DEF StoreInv, Coherent, OneEach, Addressable, Contents!SameAddress
  <2>3. DOMAIN left = DOMAIN events \ {p} /\ \A q \in DOMAIN left : left[q] = events[q]
    BY DEF Only
  <2>4. Held(left) = {f \in Held(events) : ~Contents!SameAddress(f, e)}
    <3> HIDE DEF left, p
    <3> QED BY <2>2, <2>3 DEF Held
  <2>5. \A f \in Held(events) : Contents!SameAddress(f, e) => Contents!Supersedes(e, f)
    <3> HIDE DEF p
    <3> QED BY <1>3, <2>1, <2>2 DEF Held, Preferred, Contents!Supersedes
  <2>6. events' = Appended(left, o) /\ UNCHANGED deletedIds
    BY <1>3 DEF Replace
  <2>7. Held(events') = Held(left) \cup {e}
    <3> HIDE DEF left
    <3> QED BY <1>0, <2>3, <2>6, HeldAfterAppend DEF Held
  <2> HIDE DEF left
  <2>8. Contents!Add(e)
    BY <1>3, <2>4, <2>5, <2>6, <2>7 DEF Contents!Add, Held, Deleted, Addressable
  <2> QED BY <2>8
<1>4. CASE e.kind = "deletion" /\ DeleteAndAppend(o)
  <2> DEFINE ids == IdsByTag(e) \cup IdsByAddress(e)
             left == Only(events, {p \in DOMAIN events : events[p].event.id \notin ids})
  <2>1. ids = {f.id : f \in {g \in Held(events) : Contents!Reaches(e, g)}}
    <3>1. IdsByTag(e) = {f.id : f \in {g \in Held(events) : /\ g.id \in e.eTags
                                                           /\ g.pubkey = e.pubkey
                                                           /\ g.created <= e.created}}
      BY DEF IdsByTag, Held, StoreInv, Coherent, Stored
    <3>2. IdsByAddress(e) = {f.id : f \in {g \in Held(events) :
                               /\ g.kind = "addressable" /\ g.address \in e.aTags
                               /\ g.pubkey = e.pubkey /\ g.created <= e.created}}
      <4>1. ASSUME NEW a \in e.aTags \cap DOMAIN latest
            PROVE  /\ latest[a].event \in Held(events) /\ latest[a].event.kind = "addressable"
                   /\ latest[a].event.address = a /\ a.pubkey = latest[a].event.pubkey
        BY EventAssumption DEF StoreInv, Coherent, MapOf, Stored, Held, Addressable, Objects
      <4>2. ASSUME NEW f \in Held(events), f.kind = "addressable"
            PROVE  /\ f.address \in DOMAIN latest /\ latest[f.address].event = f
                   /\ f.address.pubkey = f.pubkey
        BY <1>0, <4>2, EventAssumption DEF StoreInv, Coherent, MapOf, Held, Addressable
      <4> QED BY <4>1, <4>2 DEF IdsByAddress
    <3> QED BY <3>1, <3>2 DEF Contents!Reaches
  <2>2. \A f \in Held(events) : f.id \in ids <=> Contents!Reaches(e, f)
    BY <1>0, <2>1, EventAssumption
  <2>3. /\ DOMAIN left \subseteq DOMAIN events
        /\ Held(left) = {f \in Held(events) : f.id \notin ids}
    BY DEF Only, Held
  <2>4. events' = Appended(left, o) /\ deletedIds' = deletedIds \cup ids
    BY <1>4 DEF DeleteAndAppend
  <2> HIDE DEF ids, left
  <2>5. Held(events') = Held(left) \cup {e}
    BY <1>0, <2>3, <2>4, HeldAfterAppend
  <2>6. Contents!Delete(e)
    <3>1. Held(events') = {e} \cup {f \in Held(events) : ~Contents!Reaches(e, f)}
      BY <2>2, <2>3, <2>5
    <3>2. deletedIds' = deletedIds \cup {f.id : f \in {g \in Held(events) : Contents!Reaches(e, g)}}
      BY <2>1, <2>4
    <3> QED BY <1>4, <3>1, <3>2 DEF Contents!Delete, Held
  <2> QED BY <2>6
<1> QED BY <1>1, <1>2, <1>3, <1>4 DEF Keep, Addressable

LEMMA MaintenanceImplements ==
  ASSUME StoreInv
  PROVE  /\ \A timestamp : ClearOlderThan(timestamp) =>
              Contents!Expire(timestamp)
         /\ Snapshot => Contents!Save
         /\ RestoreSnapshot => Contents!Load
         /\ Reset => Contents!Clear
<1>1. ASSUME NEW timestamp, ClearOlderThan(timestamp) PROVE Contents!Expire(timestamp)
  <2> DEFINE P == {p \in DOMAIN events : events[p].event.created >= timestamp}
  <2>1. Held(Only(events, P)) = {f \in Held(events) : f.created >= timestamp}
    BY DEF Only, Held
  <2>2. DOMAIN Only(events, P) = P
    BY DEF Only
  <2>3. Held(events') = {f \in Held(events) : f.created >= timestamp}
    <3>1. CASE events' = Only(events, P)
      BY <2>1, <3>1 DEF Held
    <3>2. CASE P = DOMAIN events /\ events' = events
      BY <3>2 DEF Held
    <3> QED BY <1>1, <2>2, <3>1, <3>2 DEF ClearOlderThan, Rebuild
  <2> QED BY <1>1, <2>3 DEF ClearOlderThan, Held, Contents!Expire
<1>2. ASSUME Snapshot PROVE Contents!Save
  BY <1>2 DEF Snapshot, storeVars, Contents!Save
<1>3. ASSUME RestoreSnapshot PROVE Contents!Load
  <2>1. \A p \in DOMAIN saved.store : NewObject(saved.store[p], p).event = saved.store[p]
    BY DEF NewObject
  <2>2. Held(events') = {saved.store[p] : p \in DOMAIN saved.store}
    BY <1>3, <2>1 DEF RestoreSnapshot, Rebuild, Held
  <2> QED BY <1>3, <2>2 DEF RestoreSnapshot, Held, Contents!Load
<1>4. ASSUME Reset PROVE Contents!Clear
  BY <1>4 DEF Reset, NoEvents, Contents!Clear
<1> QED BY <1>1, <1>2, <1>3, <1>4

LEMMA StoreStepImplements ==
  StoreInv /\ [Next]_vars => [Contents!ContentsNext]_(Contents!contentsVars)
<1> SUFFICES ASSUME StoreInv, [Next]_vars
             PROVE  Contents!ContentsNext \/ UNCHANGED Contents!contentsVars
  OBVIOUS
<1>1. ASSUME NEW e \in Events, NEW o \in Objects, o.event = e, nextOrder < MaxOrder,
             Keep(o), UNCHANGED saved
      PROVE  Contents!ContentsNext \/ UNCHANGED Contents!contentsVars
  BY <1>1, KeepImplements DEF Contents!ContentsNext
<1>2. ASSUME NEW e \in Events, Store(e)
      PROVE  Contents!ContentsNext \/ UNCHANGED Contents!contentsVars
  BY <1>1, <1>2, NewObjects DEF Store
<1>3. CASE UNCHANGED vars
  BY <1>3 DEF vars, storeVars, Contents!contentsVars
<1>4. ASSUME NEW e \in Events, Publish(e)
      PROVE  Contents!ContentsNext \/ UNCHANGED Contents!contentsVars
  <2>1. nextOrder \in Nat
    BY EventAssumption DEF StoreInv
  <2> QED BY <1>1, <1>3, <1>4, <2>1, NewObjects DEF Publish, vars
<1>5. ASSUME \/ \E timestamp \in {e.created : e \in Events} : ClearOlderThan(timestamp)
             \/ Snapshot \/ RestoreSnapshot \/ Reset
      PROVE  Contents!ContentsNext
  BY <1>5, MaintenanceImplements DEF Contents!ContentsNext
<1> QED BY <1>2, <1>3, <1>4, <1>5 DEF Next

\* The array, its indexes and its Map together behave as the set of events that
\* StoreContents describes, whatever the events.
THEOREM ContentsAreImplemented == Spec => ImplementsContents
<1>1. Init => Contents!ContentsInit
  <2>1. \A g : g = NoEvents => {g[p].event : p \in DOMAIN g} = {} /\ {g[p] : p \in DOMAIN g} = {}
    BY DEF NoEvents
  <2>2. Init => saved.store = NoEvents /\ saved.deletedIds = {}
    BY DEF Init
  <2> QED BY <2>1, <2>2 DEF Init, Contents!ContentsInit
<1> QED BY <1>1, StoreInvariant, StoreStepImplements, PTL
    DEF Spec, ImplementsContents, Contents!ContentsSpec

(***************************************************************************)
(* Induction over the natural numbers, said of a set of them: it needs no  *)
(* predicate as a parameter, which the provers could not instantiate.      *)
(***************************************************************************)

\* Induction, as a fact about a set of numbers.
LEMMA NatSetInduction ==
  ASSUME NEW T, T \subseteq Nat, 0 \in T, \A n \in T : n + 1 \in T
  PROVE  T = Nat
<1> DEFINE Less == {pair \in Nat \X Nat : pair[1] < pair[2]}
<1>1. IsWellFoundedOn(Less, Nat)
  <2>1. Less = OpToRel(<, Nat)
    BY DEF OpToRel
  <2> QED BY <2>1, NatLessThanWellFounded
<1> SUFFICES ASSUME Nat \ T # {} PROVE FALSE
  OBVIOUS
<1>2. \E x \in Nat \ T : \A y \in Nat \ T : ~(<<y, x>> \in Less)
  <2> HIDE DEF Less
  <2> QED BY <1>1, WFMin
<1>3. PICK x \in Nat \ T : \A y \in Nat \ T : ~(y < x)
  BY <1>2
<1>4. x # 0 /\ x \in Nat
  BY <1>3
<1>5. x - 1 \in Nat /\ x - 1 < x
  BY <1>4
<1>6. x - 1 \in T
  BY <1>3, <1>5
<1>7. (x - 1) + 1 \in T
  BY <1>6
<1> QED BY <1>7, <1>3, <1>4

\* A set of natural numbers has a smallest one.
LEMMA MinOfNats ==
  ASSUME NEW P, P \subseteq Nat, P # {}
  PROVE  \E m \in P : \A k \in P : m <= k
<1> DEFINE Less == {pair \in Nat \X Nat : pair[1] < pair[2]}
<1>1. IsWellFoundedOn(Less, Nat)
  <2>1. Less = OpToRel(<, Nat)
    BY DEF OpToRel
  <2> QED BY <2>1, NatLessThanWellFounded
<1>2. \E x \in P : \A y \in P : ~(<<y, x>> \in Less)
  <2> HIDE DEF Less
  <2> QED BY <1>1, WFMin
<1>3. PICK x \in P : \A y \in P : ~(y < x)
  BY <1>2
<1>4. \A y \in P : x <= y
  BY <1>3
<1> QED BY <1>4

\* The values of a loop of n turns, turn by turn.
IsLoop(g, n, S, base, step) ==
  /\ g \in [0..n -> S]
  /\ g[0] = base
  /\ \A k \in 1..n : g[k] = step[<<k, g[k - 1]>>]

\* A loop of n turns, each of which makes a value of S from the last one, has a
\* value for each turn.
LEMMA LoopExists ==
  ASSUME NEW n \in Nat, NEW S, NEW base \in S, NEW step \in [(1..n) \X S -> S]
  PROVE  \E g : IsLoop(g, n, S, base, step)
<1> DEFINE Loops(m) == {g \in [0..m -> S] : /\ g[0] = base
                                            /\ \A k \in 1..m : g[k] = step[<<k, g[k - 1]>>]}
           T == {m \in Nat : m <= n => Loops(m) # {}}
<1>1. 0 \in T
  <2>1. [k \in 0..0 |-> base] \in Loops(0)
    OBVIOUS
  <2> QED BY <2>1
<1>2. ASSUME NEW m \in T PROVE m + 1 \in T
  <2> SUFFICES ASSUME m + 1 <= n PROVE Loops(m + 1) # {}
    OBVIOUS
  <2>1. m \in Nat
    OBVIOUS
  <2>2. Loops(m) # {}
    BY <2>1
  <2>3. PICK g \in [0..m -> S] : g[0] = base /\ \A k \in 1..m : g[k] = step[<<k, g[k - 1]>>]
    BY <2>2
  <2> DEFINE h == [k \in 0..(m + 1) |-> IF k = m + 1 THEN step[<<m + 1, g[m]>>] ELSE g[k]]
  <2>4. m + 1 \in 1..n /\ g[m] \in S
    BY <2>1, <2>3
  <2>5. step[<<m + 1, g[m]>>] \in S
    BY <2>4
  <2>6. h \in [0..(m + 1) -> S]
    BY <2>1, <2>3, <2>5
  <2>7. h[0] = base
    BY <2>1, <2>3
  <2>8. ASSUME NEW k \in 1..(m + 1) PROVE h[k] = step[<<k, h[k - 1]>>]
    <3>1. CASE k = m + 1
      <4>1. k - 1 = m /\ m \in 0..(m + 1) /\ m # m + 1 /\ k \in 0..(m + 1)
        BY <3>1, <2>1
      <4>2. h[k - 1] = g[m] /\ h[k] = step[<<m + 1, g[m]>>]
        BY <4>1, <3>1
      <4> QED BY <4>1, <4>2, <3>1
    <3>2. CASE k # m + 1
      <4>1. k \in 1..m /\ k - 1 \in 0..(m + 1) /\ k - 1 # m + 1 /\ k \in 0..(m + 1)
        BY <3>2, <2>1
      <4>2. h[k] = g[k] /\ h[k - 1] = g[k - 1]
        BY <4>1, <3>2
      <4> QED BY <4>1, <4>2, <2>3
    <3> QED BY <3>1, <3>2
  <2>9. h \in Loops(m + 1)
    <3> HIDE DEF h
    <3> QED BY <2>6, <2>7, <2>8
  <2> QED BY <2>9
<1>3. T = Nat
  <2>1. T \subseteq Nat
    OBVIOUS
  <2> HIDE DEF T
  <2> QED BY <1>1, <1>2, <2>1, NatSetInduction
<1>4. n \in T
  BY <1>3
<1>5. Loops(n) # {}
  BY <1>4
<1>6. PICK g : g \in Loops(n)
  BY <1>5
<1> QED BY <1>6 DEF IsLoop

-----------------------------------------------------------------------------
(***************************************************************************)
(* Sorting a finite set.                                                   *)
(***************************************************************************)

\* A strict total order of a set, as a set of pairs.
IsOrder(R, S) ==
  /\ \A x \in S : <<x, x>> \notin R
  /\ \A x, y \in S : x # y => <<x, y>> \in R \/ <<y, x>> \in R
  /\ \A x, y, z \in S : <<x, y>> \in R /\ <<y, z>> \in R => <<x, z>> \in R

\* How many come before x; the list of S by that number.
Rank(R, S, x) == Cardinality({y \in S : <<y, x>> \in R})

Listed(S, R) == [i \in 1..Cardinality(S) |-> CHOOSE x \in S : Rank(R, S, x) = i - 1]

\* Ranks are numbers below the size of the set, and grow along the order ...
LEMMA RanksAreDistinct ==
  ASSUME NEW S, IsFiniteSet(S), NEW R, IsOrder(R, S)
  PROVE  /\ \A x \in S : Rank(R, S, x) \in 0..(Cardinality(S) - 1)
         /\ \A x, y \in S : <<x, y>> \in R => Rank(R, S, x) < Rank(R, S, y)
<1> DEFINE Below(x) == {y \in S : <<y, x>> \in R}
<1>1. \A x \in S : IsFiniteSet(Below(x))
  BY FS_Subset
<1>2. ASSUME NEW x \in S, NEW T, IsFiniteSet(T), Below(x) \subseteq T, x \in T
      PROVE  Cardinality(Below(x)) < Cardinality(T)
  <2>1. x \notin Below(x)
    BY DEF IsOrder
  <2> HIDE DEF Below
  <2>2. Below(x) \in SUBSET T /\ T # Below(x)
    BY <1>2, <2>1
  <2>3. /\ Cardinality(Below(x)) <= Cardinality(T)
        /\ Cardinality(T) # Cardinality(Below(x))
    BY <1>2, <2>2, FS_Subset
  <2>4. Cardinality(Below(x)) \in Nat /\ Cardinality(T) \in Nat
    BY <1>1, <1>2, FS_CardinalityType
  <2> QED BY <2>3, <2>4
<1>3. ASSUME NEW x \in S PROVE Rank(R, S, x) \in 0..(Cardinality(S) - 1)
  <2>1. Cardinality(Below(x)) < Cardinality(S)
    BY <1>2
  <2>2. Cardinality(Below(x)) \in Nat /\ Cardinality(S) \in Nat
    BY <1>1, FS_CardinalityType
  <2>3. Rank(R, S, x) = Cardinality(Below(x))
    BY DEF Rank
  <2> HIDE DEF Below
  <2> QED BY <2>1, <2>2, <2>3
<1>4. ASSUME NEW x \in S, NEW y \in S, <<x, y>> \in R
      PROVE  Rank(R, S, x) < Rank(R, S, y)
  <2>1. Below(x) \subseteq Below(y) /\ x \in Below(y)
    BY <1>4 DEF IsOrder
  <2>2. Cardinality(Below(x)) < Cardinality(Below(y))
    <3> HIDE DEF Below
    <3> QED BY <2>1, <1>1, <1>2
  <2> QED BY <2>2 DEF Rank
<1> QED BY <1>3, <1>4

\* ... so that each number below the size is the rank of some element.
LEMMA RanksAreAllThere ==
  ASSUME NEW S, IsFiniteSet(S), NEW R, IsOrder(R, S), NEW k \in 0..(Cardinality(S) - 1)
  PROVE  \E x \in S : Rank(R, S, x) = k
<1> DEFINE n == Cardinality(S)
           rank == [x \in S |-> Rank(R, S, x)]
<1>1. n \in Nat
  BY FS_CardinalityType
<1>2. rank \in [S -> 0..(n - 1)]
  BY RanksAreDistinct
<1>3. \A x, y \in S : x # y => rank[x] # rank[y]
  <2> SUFFICES ASSUME NEW x \in S, NEW y \in S, x # y PROVE rank[x] # rank[y]
    OBVIOUS
  <2>1. <<x, y>> \in R \/ <<y, x>> \in R
    BY DEF IsOrder
  <2>2. Rank(R, S, x) \in Int /\ Rank(R, S, y) \in Int
    BY RanksAreDistinct
  <2> QED BY <2>1, <2>2, RanksAreDistinct
<1>4. IsFiniteSet(0..(n - 1)) /\ Cardinality(0..(n - 1)) = n
  <2>1. 0 \in Int /\ n - 1 \in Int
    BY <1>1
  <2> HIDE DEF n
  <2> QED BY <2>1, <1>1, FS_Interval
<1>5. rank \in Injection(S, 0..(n - 1))
  <2> HIDE DEF rank, n
  <2> QED BY <1>2, <1>3 DEF Injection, IsInjective
<1>6. rank \in Surjection(S, 0..(n - 1))
  <2>1. Cardinality(S) = Cardinality(0..(n - 1))
    BY <1>4
  <2> HIDE DEF rank, n
  <2> QED BY <2>1, <1>4, <1>5, FS_Injection
<1>7. \E x \in S : rank[x] = k
  <2>1. k \in 0..(n - 1)
    OBVIOUS
  <2> HIDE DEF rank, n
  <2> QED BY <2>1, <1>6 DEF Surjection
<1> QED BY <1>7

\* Sorting a finite set loses nothing, adds nothing and puts it in order.
LEMMA ListedInOrder ==
  ASSUME NEW S, IsFiniteSet(S), NEW R, IsOrder(R, S)
  PROVE  /\ Listed(S, R) \in Seq(S)
         /\ Len(Listed(S, R)) = Cardinality(S)
         /\ Cardinality(S) \in Nat
         /\ \A i \in 1..Cardinality(S) : Rank(R, S, Listed(S, R)[i]) = i - 1
         /\ \A x \in S : /\ Rank(R, S, x) + 1 \in 1..Cardinality(S)
                         /\ Listed(S, R)[Rank(R, S, x) + 1] = x
         /\ \A i, j \in 1..Cardinality(S) :
              i < j <=> <<Listed(S, R)[i], Listed(S, R)[j]>> \in R
<1> DEFINE n == Cardinality(S)
           s == Listed(S, R)
<1>1. n \in Nat
  BY FS_CardinalityType
<1>2. \A x \in S : Rank(R, S, x) \in 0..(n - 1)
  BY RanksAreDistinct
<1>3. \A x, y \in S : Rank(R, S, x) = Rank(R, S, y) => x = y
  <2> SUFFICES ASSUME NEW x \in S, NEW y \in S, x # y
               PROVE  Rank(R, S, x) # Rank(R, S, y)
    OBVIOUS
  <2>1. <<x, y>> \in R \/ <<y, x>> \in R
    BY DEF IsOrder
  <2>2. Rank(R, S, x) \in Int /\ Rank(R, S, y) \in Int
    BY <1>2, <1>1
  <2> QED BY <2>1, <2>2, RanksAreDistinct
<1>4. ASSUME NEW i \in 1..n PROVE s[i] \in S /\ Rank(R, S, s[i]) = i - 1
  <2>1. i - 1 \in 0..(n - 1)
    BY <1>1
  <2>2. \E x \in S : Rank(R, S, x) = i - 1
    BY <2>1, RanksAreAllThere
  <2>3. s[i] = CHOOSE x \in S : Rank(R, S, x) = i - 1
    BY DEF Listed
  <2> HIDE DEF s, n
  <2> QED BY <2>2, <2>3
<1>5. s \in [1..n -> S]
  <2>1. s = [i \in 1..n |-> s[i]]
    BY DEF Listed
  <2> HIDE DEF s, n
  <2> QED BY <2>1, <1>4
<1>6. s \in Seq(S) /\ Len(s) = n
  <2> HIDE DEF s, n
  <2> QED BY <1>5, <1>1
<1>7. ASSUME NEW x \in S
      PROVE  Rank(R, S, x) + 1 \in 1..n /\ s[Rank(R, S, x) + 1] = x
  <2>1. Rank(R, S, x) \in 0..(n - 1)
    BY <1>2
  <2> HIDE DEF s, n
  <2>2. Rank(R, S, x) + 1 \in 1..n /\ (Rank(R, S, x) + 1) - 1 = Rank(R, S, x)
    BY <2>1, <1>1
  <2>3. s[Rank(R, S, x) + 1] \in S /\ Rank(R, S, s[Rank(R, S, x) + 1]) = Rank(R, S, x)
    BY <2>2, <1>4
  <2> QED BY <2>2, <2>3, <1>3
<1>8. ASSUME NEW i \in 1..n, NEW j \in 1..n
      PROVE  i < j <=> <<s[i], s[j]>> \in R
  <2> HIDE DEF s, n
  <2>1. /\ s[i] \in S /\ s[j] \in S
        /\ Rank(R, S, s[i]) = i - 1 /\ Rank(R, S, s[j]) = j - 1
    BY <1>4
  <2>2. <<s[i], s[j]>> \in R => i < j
    BY <2>1, RanksAreDistinct
  <2>3. <<s[j], s[i]>> \in R => j < i
    BY <2>1, RanksAreDistinct
  <2>4. s[i] = s[j] => i = j
    BY <2>1
  <2>5. s[i] # s[j] => <<s[i], s[j]>> \in R \/ <<s[j], s[i]>> \in R
    BY <2>1 DEF IsOrder
  <2>6. s[i] = s[j] => <<s[i], s[j]>> \notin R
    BY <2>1 DEF IsOrder
  <2> QED BY <2>2, <2>3, <2>4, <2>5, <2>6
<1> QED BY <1>1, <1>4, <1>6, <1>7, <1>8

-----------------------------------------------------------------------------
(***************************************************************************)
(* Queries, in any state of the store.                                     *)
(***************************************************************************)

\* What the queries need to know of the store: positions are numbers, objects are
\* typed, and the indexes hold what the array holds.
LEMMA StoreFacts ==
  ASSUME StoreInv
  PROVE  /\ nextOrder \in Nat
         /\ DOMAIN events \subseteq 0..(nextOrder - 1)
         /\ IsFiniteSet(DOMAIN events)
         /\ \A p \in DOMAIN events : /\ p \in Nat /\ events[p] \in Objects
                                     /\ events[p].event \in Events
                                     /\ events[p].event.created \in Nat
         /\ indexed = Stored(events)
<1>1. /\ nextOrder \in Nat
      /\ DOMAIN events \subseteq 0..(nextOrder - 1)
      /\ Stored(events) \subseteq Objects
      /\ indexed = Stored(events)
  BY EventAssumption DEF StoreInv, Coherent
<1>2. IsFiniteSet(DOMAIN events)
  <2>1. 0 \in Int /\ nextOrder - 1 \in Int
    BY <1>1
  <2>2. IsFiniteSet(0..(nextOrder - 1))
    BY <2>1, FS_Interval
  <2> QED BY <2>2, <1>1, FS_Subset
<1>3. ASSUME NEW p \in DOMAIN events
      PROVE  /\ p \in Nat /\ events[p] \in Objects
             /\ events[p].event \in Events /\ events[p].event.created \in Nat
  <2>1. p \in Nat
    BY <1>1
  <2>2. events[p] \in Objects
    BY <1>1 DEF Stored
  <2> QED BY <2>1, <2>2, EventAssumption DEF Objects
<1> QED BY <1>1, <1>2, <1>3

\* The newer one of two positions is always decided.
NewerPairs(P) == {pair \in P \X P : Newer(pair[1], pair[2])}

\* Newer is a strict total order of the positions.
LEMMA NewerIsOrder ==
  ASSUME StoreInv, NEW P \in SUBSET DOMAIN events
  PROVE  IsOrder(NewerPairs(P), P) /\ IsFiniteSet(P)
<1>1. \A p \in P : p \in Nat /\ events[p].event.created \in Nat
  BY StoreFacts
<1>2. IsFiniteSet(P)
  BY StoreFacts, FS_Subset
<1>3. \A x, y : <<x, y>> \in NewerPairs(P) <=> x \in P /\ y \in P /\ Newer(x, y)
  BY DEF NewerPairs
<1>4. \A x \in P : ~Newer(x, x)
  BY <1>1 DEF Newer
<1>5. \A x, y \in P : x # y => Newer(x, y) \/ Newer(y, x)
  BY <1>1 DEF Newer
<1>6. \A x, y, z \in P : Newer(x, y) /\ Newer(y, z) => Newer(x, z)
  BY <1>1 DEF Newer
<1> QED BY <1>2, <1>3, <1>4, <1>5, <1>6 DEF IsOrder

\* NewestFirst lists each position once, the newest first.
LEMMA NewestFirstIsSorted ==
  ASSUME StoreInv, NEW P \in SUBSET DOMAIN events
  PROVE  /\ NewestFirst(P) \in Seq(P)
         /\ Len(NewestFirst(P)) = Cardinality(P)
         /\ Cardinality(P) \in Nat
         /\ \A i \in 1..Cardinality(P) :
              Cardinality({q \in P : Newer(q, NewestFirst(P)[i])}) = i - 1
         /\ \A p \in P : LET i == Cardinality({q \in P : Newer(q, p)}) + 1
                         IN i \in 1..Cardinality(P) /\ NewestFirst(P)[i] = p
         /\ \A i, j \in 1..Cardinality(P) :
              i < j <=> Newer(NewestFirst(P)[i], NewestFirst(P)[j])
<1> DEFINE R == NewerPairs(P)
<1>1. IsOrder(R, P) /\ IsFiniteSet(P)
  BY NewerIsOrder
<1>2. \A x, y \in P : <<x, y>> \in R <=> Newer(x, y)
  BY DEF NewerPairs
<1>3. \A x \in P : Rank(R, P, x) = Cardinality({q \in P : Newer(q, x)})
  <2> SUFFICES ASSUME NEW x \in P
               PROVE  {y \in P : <<y, x>> \in R} = {q \in P : Newer(q, x)}
    BY DEF Rank
  <2> HIDE DEF R
  <2> QED BY <1>2
<1>4. NewestFirst(P) = Listed(P, R)
  <2>1. NewestFirst(P) =
          [i \in 1..Cardinality(P) |-> CHOOSE x \in P : Cardinality({y \in P : Newer(y, x)}) = i - 1]
    BY DEF NewestFirst, Arranged
  <2>2. \A i : (CHOOSE x \in P : Cardinality({y \in P : Newer(y, x)}) = i - 1)
               = (CHOOSE x \in P : Rank(R, P, x) = i - 1)
    <3> HIDE DEF R
    <3> QED BY <1>3
  <2> HIDE DEF R
  <2> QED BY <2>1, <2>2 DEF Listed
<1> HIDE DEF R
<1> DEFINE s == Listed(P, R)
<1>5. /\ s \in Seq(P)
      /\ Len(s) = Cardinality(P)
      /\ Cardinality(P) \in Nat
      /\ \A i \in 1..Cardinality(P) : Rank(R, P, s[i]) = i - 1
      /\ \A x \in P : /\ Rank(R, P, x) + 1 \in 1..Cardinality(P)
                      /\ s[Rank(R, P, x) + 1] = x
      /\ \A i, j \in 1..Cardinality(P) : i < j <=> <<s[i], s[j]>> \in R
  BY <1>1, ListedInOrder
<1> HIDE DEF s
<1>6. NewestFirst(P) = s
  BY <1>4 DEF s
<1>7. \A i \in 1..Cardinality(P) : s[i] \in P
  BY <1>5, ElementOfSeq
<1> QED BY <1>2, <1>3, <1>5, <1>6, <1>7

\* The same of any positions, without the pairs.
LEMMA NewerFacts ==
  ASSUME StoreInv
  PROVE  /\ \A p \in DOMAIN events : ~Newer(p, p)
         /\ \A p, q \in DOMAIN events : p # q => Newer(p, q) \/ Newer(q, p)
         /\ \A p, q \in DOMAIN events : ~(Newer(p, q) /\ Newer(q, p))
         /\ \A p, q, r \in DOMAIN events : Newer(p, q) /\ Newer(q, r) => Newer(p, r)
<1>1. \A p \in DOMAIN events : p \in Nat /\ events[p].event.created \in Nat
  BY StoreFacts
<1> QED BY <1>1 DEF Newer

\* The smaller one of two numbers.
LEMMA MinOfTwo ==
  ASSUME NEW m \in Int, NEW n \in Int
  PROVE  Min({m, n}) = IF m <= n THEN m ELSE n
<1> DEFINE least == IF m <= n THEN m ELSE n
<1>1. least \in {m, n} /\ \A y \in {m, n} : least =< y
  OBVIOUS
<1>2. \A x \in {m, n} : (\A y \in {m, n} : x =< y) => x = least
  OBVIOUS
<1> HIDE DEF least
<1>3. Min({m, n}) = least
  BY <1>1, <1>2 DEF Min
<1> QED BY <1>3 DEF least

\* The first n of positions that are listed newest first, or all there are.
IsBest(s, P, n) ==
  /\ s \in Seq(P)
  /\ Len(s) <= n
  /\ \A i, j \in 1..Len(s) : i < j => Newer(s[i], s[j])
  /\ \A p \in P : \/ \E i \in 1..Len(s) : s[i] = p
                  \/ Len(s) = n /\ \A i \in 1..Len(s) : Newer(s[i], p)

\* There is one such list.
LEMMA BestIsFirst ==
  ASSUME StoreInv, NEW P \in SUBSET DOMAIN events, NEW n \in Nat, NEW s, IsBest(s, P, n)
  PROVE  s = SubSeq(NewestFirst(P), 1, Min({n, Cardinality(P)}))
<1> DEFINE t == NewestFirst(P)
           c == Cardinality(P)
<1>1. /\ t \in Seq(P) /\ Len(t) = c /\ c \in Nat
      /\ \A p \in P : LET i == Cardinality({q \in P : Newer(q, p)}) + 1
                      IN i \in 1..c /\ t[i] = p
      /\ \A i, j \in 1..c : i < j <=> Newer(t[i], t[j])
  BY NewestFirstIsSorted
<1> HIDE DEF t, c
<1>2. s \in Seq(P) /\ Len(s) \in Nat /\ \A i \in 1..Len(s) : s[i] \in P
  BY ElementOfSeq, LenProperties DEF IsBest
<1>3. ASSUME NEW i \in 1..Len(s)
      PROVE  Cardinality({q \in P : Newer(q, s[i])}) = i - 1
  <2> DEFINE ahead == {s[j] : j \in 1..(i - 1)}
             f == [j \in 1..(i - 1) |-> s[j]]
  <2>1. \A j, k \in 1..Len(s) : s[j] = s[k] => j = k
    <3> SUFFICES ASSUME NEW j \in 1..Len(s), NEW k \in 1..Len(s), j < k PROVE s[j] # s[k]
      BY <1>2
    <3>1. Newer(s[j], s[k])
      BY DEF IsBest
    <3> QED BY <3>1, <1>2, NewerFacts
  <2>2. \A j \in 1..(i - 1) : j \in 1..Len(s) /\ j < i
    BY <1>2
  <2>3. {q \in P : Newer(q, s[i])} \subseteq ahead
    <3> SUFFICES ASSUME NEW q \in P, Newer(q, s[i]) PROVE q \in ahead
      OBVIOUS
    <3>1. s[i] \in DOMAIN events /\ q \in DOMAIN events
      BY <1>2
    <3>2. ~Newer(s[i], q)
      BY <3>1, NewerFacts
    <3>3. PICK j \in 1..Len(s) : s[j] = q
      BY <3>2 DEF IsBest
    <3>4. j # i
      BY <3>1, <3>3, NewerFacts
    <3>5. ~(i < j)
      BY <3>2, <3>3 DEF IsBest
    <3>6. j \in 1..(i - 1)
      BY <3>4, <3>5, <1>2
    <3> QED BY <3>3, <3>6
  <2>4. ahead \subseteq {q \in P : Newer(q, s[i])}
    <3> SUFFICES ASSUME NEW j \in 1..(i - 1) PROVE s[j] \in P /\ Newer(s[j], s[i])
      OBVIOUS
    <3> QED BY <2>2, <1>2 DEF IsBest
  <2>5. f \in Bijection(1..(i - 1), ahead)
    <3>1. f \in [1..(i - 1) -> ahead]
      OBVIOUS
    <3>2. \A j, k \in 1..(i - 1) : f[j] = f[k] => j = k
      BY <2>1, <2>2
    <3>3. \A x \in ahead : \E j \in 1..(i - 1) : f[j] = x
      OBVIOUS
    <3> HIDE DEF f, ahead
    <3>4. f \in Injection(1..(i - 1), ahead)
      BY <3>1, <3>2 DEF Injection, IsInjective
    <3>5. f \in Surjection(1..(i - 1), ahead)
      BY <3>1, <3>3 DEF Surjection
    <3> QED BY <3>4, <3>5 DEF Bijection
  <2>6. Cardinality(ahead) = i - 1
    <3>1. i - 1 \in Nat
      BY <1>2
    <3> HIDE DEF f, ahead
    <3>2. ExistsBijection(1..(i - 1), ahead)
      BY <2>5 DEF ExistsBijection
    <3> QED BY <3>1, <3>2, FS_CountingElements
  <2> HIDE DEF ahead
  <2>7. {q \in P : Newer(q, s[i])} = ahead
    BY <2>3, <2>4
  <2> QED BY <2>6, <2>7
<1>4. \A i \in 1..Len(s) : i \in 1..c /\ t[i] = s[i]
  <2> SUFFICES ASSUME NEW i \in 1..Len(s) PROVE i \in 1..c /\ t[i] = s[i]
    OBVIOUS
  <2>1. Cardinality({q \in P : Newer(q, s[i])}) + 1 = i
    BY <1>2, <1>3
  <2> QED BY <2>1, <1>1, <1>2
<1>5. Len(s) <= c
  BY <1>1, <1>2, <1>4
<1>6. Len(s) = n \/ Len(s) = c
  <2> SUFFICES ASSUME Len(s) # n, Len(s) < c PROVE FALSE
    BY <1>1, <1>2, <1>5
  <2>1. Len(s) + 1 \in 1..c
    BY <1>1, <1>2
  <2>2. t[Len(s) + 1] \in P
    BY <2>1, <1>1, ElementOfSeq
  <2>3. PICK i \in 1..Len(s) : s[i] = t[Len(s) + 1]
    BY <2>2 DEF IsBest
  <2>4. i \in 1..c /\ i < Len(s) + 1 /\ t[i] = t[Len(s) + 1]
    BY <2>3, <1>4, <1>2
  <2>5. Newer(t[Len(s) + 1], t[Len(s) + 1])
    BY <2>1, <2>4, <1>1
  <2> QED BY <2>2, <2>5, NewerFacts
<1> DEFINE m == Min({n, c})
<1>7. Len(s) = m
  <2>1. m = IF n <= c THEN n ELSE c
    BY <1>1, MinOfTwo
  <2>2. Len(s) <= n
    BY DEF IsBest
  <2> HIDE DEF m
  <2> QED BY <2>1, <2>2, <1>5, <1>6, <1>1, <1>2
<1> HIDE DEF m
<1>8. SubSeq(t, 1, m) = s
  <2>1. /\ 1 \in Int /\ m \in Int /\ m \in Nat
        /\ \A i \in 1..m : t[i] \in P
    BY <1>7, <1>2, <1>4
  <2>2. /\ SubSeq(t, 1, m) \in Seq(P)
        /\ Len(SubSeq(t, 1, m)) = IF 1 <= m THEN m - 1 + 1 ELSE 0
        /\ \A i \in 1..(m - 1 + 1) : SubSeq(t, 1, m)[i] = t[1 + i - 1]
    BY <2>1, SubSeqProperties
  <2>3. /\ Len(SubSeq(t, 1, m)) = Len(s)
        /\ \A i \in 1..Len(s) : SubSeq(t, 1, m)[i] = s[i]
    BY <2>1, <2>2, <1>7, <1>4, <1>2
  <2> QED BY <2>2, <2>3, <1>2, SeqEqual
<1> QED BY <1>8 DEF t, m, c

\* Inserting at i shifts what was there, and the last element may fall off.
LEMMA InsertedAt ==
  ASSUME NEW D, NEW s \in Seq(D), NEW p \in D, NEW i \in 1..(Len(s) + 1), NEW n \in Nat
  PROVE  LET t == SubSeq(InsertAt(s, i, p), 1, Min({n, Len(s) + 1}))
         IN /\ t \in Seq(D)
            /\ Len(t) = IF n <= Len(s) + 1 THEN n ELSE Len(s) + 1
            /\ \A k \in 1..Len(t) :
                 t[k] = IF k < i THEN s[k] ELSE IF k = i THEN p ELSE s[k - 1]
<1> DEFINE m == Len(s)
           a == SubSeq(s, 1, i - 1)
           b == SubSeq(s, i, m)
           u == InsertAt(s, i, p)
           size == Min({n, m + 1})
           t == SubSeq(u, 1, size)
<1>1. m \in Nat /\ \A k \in 1..m : s[k] \in D
  BY LenProperties, ElementOfSeq
<1> HIDE DEF m
<1>2. /\ a \in Seq(D) /\ Len(a) = i - 1
      /\ \A k \in 1..(i - 1) : a[k] = s[k]
  <2>1. 1 \in Int /\ i - 1 \in Int /\ \A k \in 1..(i - 1) : s[k] \in D
    BY <1>1 DEF m
  <2>2. /\ a \in Seq(D)
        /\ Len(a) = IF 1 <= i - 1 THEN i - 1 - 1 + 1 ELSE 0
        /\ \A k \in 1..(i - 1 - 1 + 1) : a[k] = s[1 + k - 1]
    BY <2>1, SubSeqProperties
  <2> HIDE DEF a
  <2>3. i \in Nat \ {0}
    BY <1>1 DEF m
  <2>4. \A k \in 1..(i - 1) : k \in 1..(i - 1 - 1 + 1) /\ 1 + k - 1 = k
    BY <2>3
  <2> QED BY <2>2, <2>3, <2>4
<1>3. /\ b \in Seq(D) /\ Len(b) = m - i + 1
      /\ \A k \in 1..(m - i + 1) : b[k] = s[i + k - 1]
  <2>1. i \in Int /\ m \in Int /\ i <= m + 1 /\ \A k \in i..m : s[k] \in D
    BY <1>1 DEF m
  <2>2. /\ b \in Seq(D)
        /\ Len(b) = IF i <= m THEN m - i + 1 ELSE 0
        /\ \A k \in 1..(m - i + 1) : b[k] = s[i + k - 1]
    BY <2>1, SubSeqProperties
  <2> HIDE DEF b
  <2> QED BY <2>1, <2>2
<1>4. <<p>> \in Seq(D) /\ Len(<<p>>) = 1 /\ <<p>>[1] = p
  OBVIOUS
<1>5. /\ a \o <<p>> \in Seq(D) /\ Len(a \o <<p>>) = i
      /\ \A k \in 1..i : (a \o <<p>>)[k] = IF k < i THEN s[k] ELSE p
  <2> DEFINE one == <<p>>
  <2>0. one \in Seq(D) /\ Len(one) = 1 /\ one[1] = p
    BY <1>4
  <2> HIDE DEF a, one
  <2>7. /\ a \o one \in Seq(D)
        /\ Len(a \o one) = Len(a) + Len(one)
        /\ \A k \in 1..(Len(a) + Len(one)) :
             (a \o one)[k] = IF k <= Len(a) THEN a[k] ELSE one[k - Len(a)]
    BY <1>2, <2>0, ConcatProperties
  <2>1. /\ a \o one \in Seq(D)
        /\ Len(a \o one) = (i - 1) + 1
        /\ \A k \in 1..((i - 1) + 1) :
             (a \o one)[k] = IF k <= i - 1 THEN a[k] ELSE one[k - (i - 1)]
    BY <2>7, <1>2, <2>0
  <2>2. i \in Nat \ {0}
    BY <1>1 DEF m
  <2>3. \A k \in 1..i : (a \o one)[k] = IF k < i THEN s[k] ELSE p
    <3> SUFFICES ASSUME NEW k \in 1..i PROVE (a \o one)[k] = IF k < i THEN s[k] ELSE p
      OBVIOUS
    <3>1. k \in 1..((i - 1) + 1) /\ (k < i <=> k <= i - 1) /\ (~(k < i) => k - (i - 1) = 1)
      BY <2>2
    <3>2. k < i => k \in 1..(i - 1)
      BY <2>2
    <3> QED BY <3>1, <3>2, <2>1, <2>0, <1>2
  <2>4. (a \o one) \in Seq(D) /\ Len(a \o one) = i
    BY <2>1, <2>2
  <2> QED BY <2>3, <2>4 DEF one
<1>6. /\ u \in Seq(D) /\ Len(u) = m + 1
      /\ \A k \in 1..(m + 1) : u[k] = IF k < i THEN s[k] ELSE IF k = i THEN p ELSE s[k - 1]
  <2> DEFINE c == a \o <<p>>
  <2>1. u = c \o b
    BY DEF InsertAt, m
  <2>2. /\ c \in Seq(D) /\ Len(c) = i
        /\ \A k \in 1..i : c[k] = IF k < i THEN s[k] ELSE p
    BY <1>5
  <2> HIDE DEF c, b, u
  <2>3. i \in Nat /\ i >= 1 /\ i <= m + 1
    BY <1>1 DEF m
  <2>7. /\ c \o b \in Seq(D)
        /\ Len(c \o b) = Len(c) + Len(b)
        /\ \A k \in 1..(Len(c) + Len(b)) :
             (c \o b)[k] = IF k <= Len(c) THEN c[k] ELSE b[k - Len(c)]
    BY <2>2, <1>3, ConcatProperties
  <2>4. /\ c \o b \in Seq(D)
        /\ Len(c \o b) = i + (m - i + 1)
        /\ \A k \in 1..(i + (m - i + 1)) :
             (c \o b)[k] = IF k <= i THEN c[k] ELSE b[k - i]
    BY <2>7, <2>2, <1>3
  <2>5. ASSUME NEW k \in 1..(m + 1)
        PROVE  u[k] = IF k < i THEN s[k] ELSE IF k = i THEN p ELSE s[k - 1]
    <3>1. k \in 1..(i + (m - i + 1))
      BY <2>3, <1>1
    <3>2. CASE k <= i
      BY <3>1, <3>2, <2>1, <2>2, <2>3, <2>4
    <3>3. CASE k > i
      <4>1. k - i \in 1..(m - i + 1) /\ i + (k - i) - 1 = k - 1
        BY <3>3, <2>3, <1>1
      <4> QED BY <4>1, <3>1, <3>3, <1>3, <2>1, <2>3, <2>4
    <3> QED BY <3>2, <3>3, <2>3
  <2>6. Len(u) = m + 1
    BY <2>1, <2>4, <2>3, <1>1
  <2> QED BY <2>1, <2>4, <2>5, <2>6
<1>7. size = IF n <= m + 1 THEN n ELSE m + 1
  BY <1>1, MinOfTwo
<1> HIDE DEF u, size
<1>8. size \in Nat /\ size <= m + 1
  BY <1>7, <1>1
<1>9. /\ t \in Seq(D) /\ Len(t) = size
      /\ \A k \in 1..size : t[k] = u[k]
  <2>1. 1 \in Int /\ size \in Int /\ \A k \in 1..size : u[k] \in D
    <3>1. \A k \in 1..size : k \in 1..Len(u)
      BY <1>6, <1>8, <1>1
    <3> QED BY <3>1, <1>6, <1>8, ElementOfSeq
  <2>2. /\ t \in Seq(D)
        /\ Len(t) = IF 1 <= size THEN size - 1 + 1 ELSE 0
        /\ \A k \in 1..(size - 1 + 1) : t[k] = u[1 + k - 1]
    BY <2>1, SubSeqProperties
  <2> HIDE DEF t
  <2>3. \A k \in 1..size : k \in 1..(size - 1 + 1) /\ 1 + k - 1 = k
    BY <1>8
  <2>4. Len(t) = size
    BY <2>2, <1>8
  <2> QED BY <2>2, <2>3, <2>4
<1>10. \A k \in 1..size : k \in 1..(m + 1)
  BY <1>8, <1>1
<1>11. t = SubSeq(InsertAt(s, i, p), 1, Min({n, Len(s) + 1}))
  BY DEF u, size, m
<1> HIDE DEF t
<1>12. /\ t \in Seq(D)
       /\ Len(t) = IF n <= Len(s) + 1 THEN n ELSE Len(s) + 1
       /\ \A k \in 1..Len(t) :
            t[k] = IF k < i THEN s[k] ELSE IF k = i THEN p ELSE s[k - 1]
  BY <1>6, <1>7, <1>9, <1>10 DEF m
<1> QED BY <1>11, <1>12

\* Where InsertTop inserts: after all that are newer, before all that are older.
Slot(s, p) ==
  LET later == {i \in DOMAIN s : Newer(p, s[i])}
  IN IF later = {} THEN Len(s) + 1 ELSE Min(later)

\* All before the slot are newer, and the one at the slot is older.
LEMMA SlotIsBetween ==
  ASSUME StoreInv, NEW s \in Seq(DOMAIN events), NEW p
  PROVE  /\ Slot(s, p) \in 1..(Len(s) + 1)
         /\ \A k \in 1..Len(s) : k < Slot(s, p) => ~Newer(p, s[k])
         /\ Slot(s, p) <= Len(s) => Newer(p, s[Slot(s, p)])
<1> DEFINE later == {i \in DOMAIN s : Newer(p, s[i])}
<1>1. Len(s) \in Nat /\ DOMAIN s = 1..Len(s)
  BY LenProperties
<1>2. CASE later = {}
  <2>1. Slot(s, p) = Len(s) + 1
    BY <1>2 DEF Slot
  <2>2. \A k \in 1..Len(s) : ~Newer(p, s[k])
    BY <1>2, <1>1
  <2> QED BY <2>1, <2>2, <1>1
<1>3. CASE later # {}
  <2>1. Slot(s, p) = Min(later)
    BY <1>3 DEF Slot
  <2>2. later \subseteq Nat
    BY <1>1
  <2>3. \A k \in later : k \in 1..Len(s) /\ Newer(p, s[k])
    BY <1>1
  <2>4. \A k \in 1..Len(s) : Newer(p, s[k]) => k \in later
    BY <1>1
  <2> HIDE DEF later
  <2>5. Min(later) \in later /\ \A k \in later : Min(later) =< k
    BY <2>2, <1>3, MinOfNats DEF Min
  <2> DEFINE m == Min(later)
  <2>6. m \in 1..Len(s) /\ Newer(p, s[m])
    BY <2>3, <2>5
  <2>7. \A k \in 1..Len(s) : k < m => ~Newer(p, s[k])
    <3> HIDE DEF m
    <3> SUFFICES ASSUME NEW k \in 1..Len(s), Newer(p, s[k]) PROVE ~(k < m)
      OBVIOUS
    <3>1. m =< k
      BY <2>4, <2>5 DEF m
    <3> QED BY <3>1, <2>6, <1>1
  <2> HIDE DEF m
  <2> QED BY <2>1, <2>6, <2>7, <1>1 DEF m
<1> QED BY <1>2, <1>3

\* Inserting in the n best of some positions gives the n best with the new one.
LEMMA InsertTopKeepsBest ==
  ASSUME StoreInv, NEW P \in SUBSET DOMAIN events, NEW p \in DOMAIN events, p \notin P,
         NEW n \in Nat \ {0}, NEW s, IsBest(s, P, n)
  PROVE  IsBest(InsertTop(s, p, n), P \cup {p}, n)
<1> DEFINE D == DOMAIN events
           m == Len(s)
           i == Slot(s, p)
           t == SubSeq(InsertAt(s, i, p), 1, Min({n, m + 1}))
           size == IF n <= m + 1 THEN n ELSE m + 1
<1>1. /\ s \in Seq(P) /\ m \in Nat /\ m <= n
      /\ \A k \in 1..m : s[k] \in P /\ s[k] \in D /\ s[k] # p
      /\ DOMAIN s = 1..m
  BY LenProperties, ElementOfSeq DEF IsBest
<1>7. \A j, k \in 1..m : j < k => Newer(s[j], s[k])
  BY DEF IsBest
<1>8. \A q \in P : \/ \E k \in 1..m : s[k] = q
                   \/ m = n /\ \A k \in 1..m : Newer(s[k], q)
  BY DEF IsBest
<1> HIDE DEF m
<1>2. s \in Seq(D) /\ p \in D
  BY <1>1, SeqMonotonic
<1> HIDE DEF D
<1>3. /\ i \in 1..(m + 1)
      /\ \A k \in 1..m : k < i => ~Newer(p, s[k])
      /\ i <= m => Newer(p, s[i])
  BY <1>2, SlotIsBetween DEF D, m
<1>4. /\ \A k \in 1..m : k < i => Newer(s[k], p)
      /\ \A k \in 1..m : i <= k => Newer(p, s[k])
  <2>1. \A k \in 1..m : k < i => Newer(s[k], p)
    BY <1>1, <1>2, <1>3, NewerFacts DEF D
  <2>2. \A k \in 1..m : i < k => Newer(s[i], s[k])
    BY <1>3, <1>1, <1>7
  <2>3. ASSUME NEW k \in 1..m, i <= k PROVE Newer(p, s[k])
    <3>1. i \in 1..m /\ Newer(p, s[i])
      BY <2>3, <1>3, <1>1
    <3>2. CASE i = k
      BY <3>1, <3>2
    <3>3. CASE i < k
      <4>1. Newer(s[i], s[k])
        BY <2>2, <3>3
      <4> QED BY <3>1, <4>1, <1>1, <1>2, NewerFacts DEF D
    <3> QED BY <3>1, <3>2, <3>3, <2>3
  <2> QED BY <2>1, <2>3
<1> HIDE DEF i
<1>5. CASE m = n /\ ~Newer(p, Last(s))
  <2>1. InsertTop(s, p, n) = s
    BY <1>5 DEF InsertTop, m
  <2>2. m \in 1..m /\ ~Newer(p, s[m])
    BY <1>5, <1>1 DEF Last, m
  <2>3. Newer(s[m], p)
    BY <2>2, <1>1, <1>2, NewerFacts DEF D
  <2>4. \A k \in 1..m : Newer(s[k], p)
    <3> SUFFICES ASSUME NEW k \in 1..m PROVE Newer(s[k], p)
      OBVIOUS
    <3>1. CASE k = m
      BY <3>1, <2>3
    <3>2. CASE k # m
      <4>1. Newer(s[k], s[m])
        <5>1. k < m
          BY <3>2, <1>1
        <5> QED BY <5>1, <2>2, <1>7
      <4> QED BY <4>1, <2>2, <2>3, <1>1, <1>2, NewerFacts DEF D
    <3> QED BY <3>1, <3>2
  <2>5. s \in Seq(P \cup {p})
    BY <1>1, SeqMonotonic
  <2> QED BY <1>1, <1>5, <2>1, <2>4, <2>5 DEF IsBest
<1>6. CASE ~(m = n /\ ~Newer(p, Last(s)))
  <2>1. InsertTop(s, p, n) = t
    BY <1>6 DEF InsertTop, Slot, m, i
  <2>2. /\ t \in Seq(D)
        /\ Len(t) = size
        /\ \A k \in 1..size :
             t[k] = IF k < i THEN s[k] ELSE IF k = i THEN p ELSE s[k - 1]
    BY <1>2, <1>3, InsertedAt DEF m
  <2>3. size \in Nat /\ size <= n /\ size <= m + 1 /\ size >= m
    BY <1>1
  <2>4. m = n => i <= m
    <3> SUFFICES ASSUME m = n, Newer(p, s[m]) PROVE i <= m
      BY <1>6 DEF Last, m
    <3>1. m \in 1..m
      BY <1>1
    <3> QED BY <3>1, <1>3
  <2>5. i <= size
    <3>1. i \in Nat /\ i <= m + 1 /\ m \in Nat /\ m <= n
      BY <1>1, <1>3
    <3> HIDE DEF i, m
    <3> QED BY <3>1, <2>4
  <2>6. m < n => size = m + 1
    BY <1>1
  <2>7. m = n => size = m
    BY <1>1
  <2> HIDE DEF t, size, m
  <2>8. \A k \in 1..size : /\ k < i => k \in 1..m
                           /\ k > i => k - 1 \in 1..m
    BY <1>1, <1>3, <2>3
  <2>14. /\ \A k \in 1..size : k < i => t[k] = s[k]
         /\ \A k \in 1..size : k > i => t[k] = s[k - 1]
    BY <2>2, <2>3, <1>3
  <2>9. t \in Seq(P \cup {p})
    <3>1. \A k \in 1..size : t[k] \in P \cup {p}
      BY <2>2, <2>8, <1>1, <1>3
    <3>2. IsList(t)
      BY <2>2, SeqIsList
    <3> QED BY <3>1, <3>2, <2>2, ListProperties
  <2>10. ASSUME NEW j \in 1..size, NEW k \in 1..size, j < k
         PROVE  Newer(t[j], t[k])
    <3>1. CASE k < i
      <4>1. j < i /\ j \in 1..m /\ k \in 1..m /\ t[j] = s[j] /\ t[k] = s[k]
        BY <3>1, <2>2, <2>8, <2>10, <1>3, <2>3
      <4> QED BY <4>1, <2>10, <1>7
    <3>2. CASE k = i
      <4>1. j < i /\ j \in 1..m /\ t[j] = s[j] /\ t[k] = p
        BY <3>2, <2>2, <2>8, <2>10, <1>3, <2>3
      <4> QED BY <4>1, <1>4
    <3>3. CASE k > i /\ j = i
      <4>1. k - 1 \in 1..m /\ t[k] = s[k - 1] /\ t[j] = p
        BY <3>3, <2>2, <2>8, <2>14
      <4>2. i <= k - 1
        BY <3>3, <1>3, <2>3
      <4> QED BY <4>1, <4>2, <1>4
    <3>4. CASE k > i /\ j < i
      <4>1. k - 1 \in 1..m /\ j \in 1..m /\ t[j] = s[j] /\ t[k] = s[k - 1]
        BY <3>4, <2>8, <2>14
      <4>2. j < k - 1
        BY <3>4, <1>3, <2>3
      <4> QED BY <4>1, <4>2, <1>7
    <3>5. CASE k > i /\ j > i
      <4>1. k - 1 \in 1..m /\ j - 1 \in 1..m /\ t[j] = s[j - 1] /\ t[k] = s[k - 1]
        BY <3>5, <2>8, <2>14
      <4>2. j - 1 < k - 1
        BY <2>10, <2>3
      <4> QED BY <4>1, <4>2, <1>7
    <3> QED BY <3>1, <3>2, <3>3, <3>4, <3>5, <1>3, <2>3
  <2>11. t[i] = p /\ i \in 1..size
    BY <2>2, <2>5, <1>3, <2>3
  <2>12. ASSUME NEW q \in P
         PROVE  \/ \E k \in 1..size : t[k] = q
                \/ size = n /\ \A k \in 1..size : Newer(t[k], q)
    <3>1. CASE \E k \in 1..m : s[k] = q
      <4>1. PICK k \in 1..m : s[k] = q
        BY <3>1
      <4>2. CASE k < i
        <5>1. k \in 1..size /\ t[k] = s[k]
          BY <4>2, <2>2, <2>3, <1>1, <1>3, <2>5
        <5> QED BY <4>1, <5>1
      <4>3. CASE i <= k /\ k < size
        <5>1. k + 1 \in 1..size /\ t[k + 1] = s[k]
          <6>1. k + 1 \in 1..size /\ ~(k + 1 < i) /\ k + 1 # i /\ (k + 1) - 1 = k
            BY <4>3, <2>3, <1>1, <1>3
          <6> QED BY <6>1, <2>2
        <5> QED BY <4>1, <5>1
      <4>4. CASE i <= k /\ ~(k < size)
        <5>1. m = n /\ k = m /\ size = m
          BY <4>4, <2>3, <2>6, <2>7, <1>1
        <5>2. ASSUME NEW j \in 1..size PROVE Newer(t[j], q)
          <6>1. CASE j < i
            <7>1. j \in 1..m /\ j < k /\ t[j] = s[j]
              BY <6>1, <2>2, <2>8, <4>4, <1>3
            <7> QED BY <7>1, <4>1, <1>7
          <6>2. CASE j = i
            BY <6>2, <2>11, <4>1, <4>4, <1>4
          <6>3. CASE j > i
            <7>1. j - 1 \in 1..m /\ j - 1 < k /\ t[j] = s[j - 1]
              BY <6>3, <2>2, <2>8, <5>1, <1>3, <2>3
            <7> QED BY <7>1, <4>1, <1>7
          <6> QED BY <6>1, <6>2, <6>3, <1>3, <2>3
        <5> QED BY <5>1, <5>2
      <4> QED BY <4>2, <4>3, <4>4, <1>3, <2>3
    <3>2. CASE ~\E k \in 1..m : s[k] = q
      <4>1. m = n /\ \A k \in 1..m : Newer(s[k], q)
        BY <3>2, <1>8
      <4>2. size = n /\ i \in 1..m
        BY <4>1, <2>4, <2>7, <1>3
      <4>3. Newer(p, s[i]) /\ Newer(s[i], q)
        BY <4>1, <4>2, <1>3
      <4>4. Newer(p, q)
        BY <4>2, <4>3, <1>1, <1>2, NewerFacts DEF D
      <4>5. \A k \in 1..size : Newer(t[k], q)
        BY <2>2, <2>8, <4>1, <4>4, <1>3, <2>3
      <4> QED BY <4>2, <4>5
    <3> QED BY <3>1, <3>2
  <2>13. IsBest(t, P \cup {p}, n)
    BY <2>2, <2>3, <2>9, <2>10, <2>11, <2>12 DEF IsBest
  <2> QED BY <2>1, <2>13
<1> QED BY <1>5, <1>6

\* Insertion gives a list of positions again.
LEMMA InsertTopIsTyped ==
  ASSUME NEW s \in Seq(DOMAIN events), NEW p \in DOMAIN events, NEW n \in Nat, StoreInv
  PROVE  InsertTop(s, p, n) \in Seq(DOMAIN events)
<1> DEFINE t == SubSeq(InsertAt(s, Slot(s, p), p), 1, Min({n, Len(s) + 1}))
<1>1. t \in Seq(DOMAIN events)
  <2>1. Slot(s, p) \in 1..(Len(s) + 1)
    BY SlotIsBetween
  <2> QED BY <2>1, InsertedAt
<1>2. InsertTop(s, p, n) = s \/ InsertTop(s, p, n) = t
  BY DEF InsertTop, Slot
<1> QED BY <1>1, <1>2

\* The walk over the array keeps the n best of what it has passed.
LEMMA TopIsBest ==
  ASSUME StoreInv, NEW f, NEW n \in Nat \ {0}
  PROVE  IsBest(Top(f, n), Matching(DOMAIN events, f), n)
<1> DEFINE D == DOMAIN events
           M == Matching(D, f)
           Passed(k) == {p \in M : p < k}
           step == [pair \in (1..nextOrder) \X Seq(D) |->
                      IF pair[1] - 1 \in M THEN InsertTop(pair[2], pair[1] - 1, n) ELSE pair[2]]
           IsWalk(g) == g = [k \in 0..nextOrder |->
                               IF k = 0 THEN <<>>
                               ELSE IF k - 1 \in M THEN InsertTop(g[k - 1], k - 1, n)
                               ELSE g[k - 1]]
<1>1. /\ nextOrder \in Nat
      /\ D \subseteq 0..(nextOrder - 1)
      /\ M \subseteq D
  BY StoreFacts DEF Matching
<1>2. step \in [(1..nextOrder) \X Seq(D) -> Seq(D)]
  <2> SUFFICES ASSUME NEW k \in 1..nextOrder, NEW s \in Seq(D)
               PROVE  (IF k - 1 \in M THEN InsertTop(s, k - 1, n) ELSE s) \in Seq(D)
    OBVIOUS
  <2> HIDE DEF M
  <2> QED BY <1>1, InsertTopIsTyped
<1>3. \E g : IsWalk(g)
  <2>1. <<>> \in Seq(D)
    OBVIOUS
  <2>2. PICK g \in [0..nextOrder -> Seq(D)] :
          g[0] = <<>> /\ \A k \in 1..nextOrder : g[k] = step[<<k, g[k - 1]>>]
    <3> DEFINE S == Seq(D)
    <3>1. <<>> \in S /\ nextOrder \in Nat /\ step \in [(1..nextOrder) \X S -> S]
      BY <2>1, <1>1, <1>2
    <3> HIDE DEF step, S
    <3>2. PICK g : IsLoop(g, nextOrder, S, <<>>, step)
      BY <3>1, LoopExists
    <3> QED BY <3>2 DEF S, IsLoop
  <2>3. \A k \in 1..nextOrder : <<k, g[k - 1]>> \in (1..nextOrder) \X Seq(D)
    <3> HIDE DEF D
    <3>1. \A k \in 1..nextOrder : k - 1 \in 0..nextOrder
      BY <1>1
    <3> QED BY <3>1
  <2>4. \A k \in 1..nextOrder :
          g[k] = IF k - 1 \in M THEN InsertTop(g[k - 1], k - 1, n) ELSE g[k - 1]
    <3> HIDE DEF D, M
    <3> QED BY <2>2, <2>3
  <2>5. \A k \in 0..nextOrder : k # 0 => k \in 1..nextOrder
    BY <1>1
  <2>6. IsWalk(g)
    <3> HIDE DEF D, M, step
    <3> QED BY <2>2, <2>4, <2>5
  <2> QED BY <2>6
<1> DEFINE top == CHOOSE g : IsWalk(g)
<1>4. IsWalk(top)
  <2> HIDE DEF M
  <2> QED BY <1>3
<1>5. Top(f, n) = top[nextOrder]
  BY DEF Top
<1> HIDE DEF top
<1>6. top[0] = <<>>
  BY <1>1, <1>4
<1>7. ASSUME NEW k \in Nat, k + 1 <= nextOrder
      PROVE  top[k + 1] = IF k \in M THEN InsertTop(top[k], k, n) ELSE top[k]
  <2>1. k + 1 \in 0..nextOrder /\ k + 1 # 0 /\ (k + 1) - 1 = k
    BY <1>7, <1>1
  <2> HIDE DEF M
  <2> QED BY <2>1, <1>4
<1> HIDE DEF IsWalk
<1> DEFINE T == {k \in Nat : k <= nextOrder => IsBest(top[k], Passed(k), n)}
<1>8. 0 \in T
  <2>1. Passed(0) = {}
    BY <1>1
  <2>2. IsBest(<<>>, {}, n)
    BY DEF IsBest
  <2> QED BY <2>1, <2>2, <1>6
<1>9. ASSUME NEW k \in T PROVE k + 1 \in T
  <2> SUFFICES ASSUME k + 1 <= nextOrder PROVE IsBest(top[k + 1], Passed(k + 1), n)
    OBVIOUS
  <2>1. k \in Nat /\ k <= nextOrder
    BY <1>1
  <2>2. IsBest(top[k], Passed(k), n)
    BY <2>1
  <2>3. Passed(k) \in SUBSET D /\ k \notin Passed(k)
    BY <1>1, <2>1
  <2>4. \A p \in M : p \in Nat
    BY <1>1
  <2>5. CASE k \in M
    <3>1. Passed(k + 1) = Passed(k) \cup {k}
      <4>1. \A p \in M : p < k + 1 <=> p < k \/ p = k
        BY <2>1, <2>4
      <4> HIDE DEF M, T
      <4> QED BY <4>1, <2>5
    <3>2. k \in D
      BY <2>5, <1>1
    <3>3. top[k + 1] = InsertTop(top[k], k, n)
      BY <1>7, <2>1, <2>5
    <3> HIDE DEF Passed, M, T
    <3> QED BY <2>2, <2>3, <3>1, <3>2, <3>3, InsertTopKeepsBest
  <2>6. CASE k \notin M
    <3>1. Passed(k + 1) = Passed(k)
      <4> HIDE DEF M, T
      <4> QED BY <2>1, <2>4, <2>6
    <3>2. top[k + 1] = top[k]
      BY <1>7, <2>1, <2>6
    <3> QED BY <2>2, <3>1, <3>2
  <2> QED BY <2>5, <2>6
<1>10. T = Nat
  <2>1. T \subseteq Nat
    OBVIOUS
  <2> HIDE DEF T
  <2> QED BY <1>8, <1>9, <2>1, NatSetInduction
<1>11. IsBest(top[nextOrder], Passed(nextOrder), n)
  <2>1. nextOrder \in T
    BY <1>10, <1>1
  <2> QED BY <2>1, <1>1
<1>12. Passed(nextOrder) = M
  BY <1>1
<1> QED BY <1>5, <1>11, <1>12

\* The positions of an answer: the first in order, as many as the limit allows.
Best(P, f) == SubSeq(NewestFirst(P), 1, Min(Limit(f) \cup {Cardinality(P)}))

\* With its one limit, or none, a list of c is cut down to min(limit, c).
LEMMA LimitIsOne ==
  ASSUME NEW f, IsFilter(f), NEW c \in Nat
  PROVE  LET size == Min(Limit(f) \cup {c})
         IN /\ size \in 0..c
            /\ \A n \in Limit(f) : n \in Nat /\ size <= n /\ size = Min({n, c})
            /\ Limit(f) = {} => size = c
<1>1. f.limit \subseteq Int /\ \A m, n \in f.limit : m = n
  BY DEF IsFilter
<1>2. /\ \A n \in Limit(f) : n \in Nat
      /\ \A m, n \in Limit(f) : m = n
  BY <1>1 DEF Limit
<1>3. CASE Limit(f) = {}
  <2>1. Limit(f) \cup {c} = {c, c}
    BY <1>3
  <2>2. Min({c, c}) = c
    BY MinOfTwo
  <2> QED BY <2>1, <2>2, <1>3
<1>4. ASSUME NEW n \in Limit(f)
      PROVE  /\ Min(Limit(f) \cup {c}) = Min({n, c})
             /\ Min({n, c}) \in 0..c /\ Min({n, c}) <= n
  <2>1. Limit(f) \cup {c} = {n, c}
    BY <1>2
  <2>2. Min({n, c}) = IF n <= c THEN n ELSE c
    BY <1>2, MinOfTwo
  <2> QED BY <1>2, <2>1, <2>2
<1> QED BY <1>2, <1>3, <1>4

\* They match what the whole list has at these places.
LEMMA BestFacts ==
  ASSUME StoreInv, NEW f, IsFilter(f), NEW P \in SUBSET DOMAIN events
  PROVE  LET size == Min(Limit(f) \cup {Cardinality(P)})
         IN /\ Best(P, f) \in Seq(P)
            /\ Len(Best(P, f)) = size
            /\ size \in 0..Cardinality(P)
            /\ Cardinality(P) \in Nat
            /\ \A i \in 1..size : Best(P, f)[i] = NewestFirst(P)[i]
            /\ Limit(f) = {} => Best(P, f) = NewestFirst(P)
<1> DEFINE c == Cardinality(P)
           t == NewestFirst(P)
           size == Min(Limit(f) \cup {c})
           s == SubSeq(t, 1, size)
<1>1. t \in Seq(P) /\ Len(t) = c /\ c \in Nat
  BY NewestFirstIsSorted
<1> HIDE DEF c, t
<1>2. size \in 0..c /\ (Limit(f) = {} => size = c)
  BY <1>1, LimitIsOne
<1> HIDE DEF size
<1>3. /\ s \in Seq(P) /\ Len(s) = size
      /\ \A i \in 1..size : s[i] = t[i]
  <2>1. 1 \in Int /\ size \in Int /\ \A i \in 1..size : t[i] \in P
    <3>1. \A i \in 1..size : i \in 1..Len(t)
      BY <1>1, <1>2
    <3> QED BY <3>1, <1>1, <1>2, ElementOfSeq
  <2>2. /\ s \in Seq(P)
        /\ Len(s) = IF 1 <= size THEN size - 1 + 1 ELSE 0
        /\ \A i \in 1..(size - 1 + 1) : s[i] = t[1 + i - 1]
    BY <2>1, SubSeqProperties
  <2> HIDE DEF s
  <2>3. \A i \in 1..size : i \in 1..(size - 1 + 1) /\ 1 + i - 1 = i
    BY <1>2
  <2>4. Len(s) = size
    BY <2>2, <1>2
  <2> QED BY <2>2, <2>3, <2>4
<1> HIDE DEF s
<1>4. size = c => s = t
  <2>1. DOMAIN s = 1..size /\ DOMAIN t = 1..c /\ s = [i \in 1..size |-> s[i]] /\ t = [i \in 1..c |-> t[i]]
    <3>1. IsList(s) /\ IsList(t)
      BY <1>1, <1>3, SeqIsList
    <3> QED BY <3>1, <1>1, <1>3, ListProperties
  <2> QED BY <2>1, <1>3
<1>5. Best(P, f) = s
  BY DEF Best, s, t, size, c
<1> QED BY <1>1, <1>2, <1>3, <1>4, <1>5 DEF size, c, t

\* Reading the places of a list of positions.
LEMMA ObjectsOfList ==
  ASSUME NEW s, IsList(s)
  PROVE  /\ IsList(ObjectsOf(s))
         /\ Len(ObjectsOf(s)) = Len(s)
         /\ DOMAIN ObjectsOf(s) = 1..Len(s)
         /\ \A i \in 1..Len(s) : ObjectsOf(s)[i] = events[s[i]]
<1> DEFINE o == ObjectsOf(s)
<1>1. Len(s) \in Nat /\ DOMAIN s = 1..Len(s)
  BY ListProperties
<1>2. o = [i \in 1..Len(s) |-> events[s[i]]]
  BY <1>1 DEF ObjectsOf
<1> HIDE DEF o
<1>3. DOMAIN o = 1..Len(s) /\ \A i \in 1..Len(s) : o[i] = events[s[i]]
  BY <1>2
<1>4. o = [i \in 1..Len(s) |-> o[i]]
  BY <1>2
<1>5. IsList(o) /\ Len(o) = Len(s)
  BY <1>1, <1>4, ListMade
<1> QED BY <1>3, <1>5 DEF o

\* Both ways of collecting give the best.
LEMMA CollectedAreBest ==
  ASSUME StoreInv, NEW f, IsFilter(f), NEW P \in SUBSET DOMAIN events
  PROVE  CollectSorted(P, f) = ObjectsOf(Best(Matching(P, f), f))
  BY DEF CollectSorted, Best

\* Scanning the array gives the best of what matches, sorted or kept.
LEMMA FilteredAreBest ==
  ASSUME StoreInv, NEW f, IsFilter(f)
  PROVE  FilterEvents(f) = ObjectsOf(Best(Matching(DOMAIN events, f), f))
<1> DEFINE M == Matching(DOMAIN events, f)
           c == Cardinality(M)
<1>1. M \in SUBSET DOMAIN events
  BY DEF Matching
<1> HIDE DEF M
<1>2. CASE Limit(f) = {}
  <2>1. FilterEvents(f) = ObjectsOf(NewestFirst(M))
    BY <1>2 DEF FilterEvents, M
  <2>2. Best(M, f) = NewestFirst(M)
    BY <1>1, <1>2, BestFacts
  <2> QED BY <2>1, <2>2 DEF M
<1>3. CASE Limit(f) # {}
  <2> DEFINE n == CHOOSE n \in Limit(f) : TRUE
  <2>1. n \in Limit(f)
    BY <1>3
  <2>2. FilterEvents(f) = ObjectsOf(IF n = 0 THEN <<>> ELSE Top(f, n))
    BY <1>3 DEF FilterEvents
  <2> HIDE DEF n
  <2>3. c \in Nat
    BY <1>1, NewestFirstIsSorted
  <2>4. n \in Nat /\ Min(Limit(f) \cup {c}) = Min({n, c})
    <3> HIDE DEF c
    <3> QED BY <2>1, <2>3, LimitIsOne
  <2>5. IsBest(IF n = 0 THEN <<>> ELSE Top(f, n), M, n)
    <3>1. CASE n = 0
      <4>1. IsBest(<<>>, M, 0)
        BY DEF IsBest
      <4> QED BY <3>1, <4>1
    <3>2. CASE n # 0
      <4>1. n \in Nat \ {0}
        BY <3>2, <2>4
      <4>2. IsBest(Top(f, n), M, n)
        BY <4>1, TopIsBest DEF M
      <4> QED BY <3>2, <4>2
    <3> QED BY <3>1, <3>2
  <2>6. (IF n = 0 THEN <<>> ELSE Top(f, n)) = SubSeq(NewestFirst(M), 1, Min({n, c}))
    <3> DEFINE s == IF n = 0 THEN <<>> ELSE Top(f, n)
    <3>1. IsBest(s, M, n)
      BY <2>5
    <3> HIDE DEF s
    <3>2. s = SubSeq(NewestFirst(M), 1, Min({n, c}))
      BY <3>1, <1>1, <2>4, BestIsFirst
    <3> QED BY <3>2 DEF s
  <2>7. Best(M, f) = SubSeq(NewestFirst(M), 1, Min({n, c}))
    BY <2>4 DEF Best
  <2> HIDE DEF c
  <2> QED BY <2>2, <2>6, <2>7 DEF M
<1> QED BY <1>2, <1>3

\* What the filter asks for is the list of the best that match.
LEMMA AnswerIsBest ==
  ASSUME StoreInv, NEW f, IsFilter(f)
  PROVE  Answer(f) = ObjectsOf(Best(Matching(DOMAIN events, f), f))
<1> DEFINE M == Matching(DOMAIN events, f)
           c == Cardinality(M)
           t == NewestFirst(M)
           size == Min(Limit(f) \cup {c})
           Place(p) == 1 + Cardinality({q \in M : Newer(q, p)})
           At(i) == CHOOSE p \in M : Place(p) = i
<1>1. M \in SUBSET DOMAIN events
  BY DEF Matching
<1>2. Answer(f) = [i \in 1..size |-> events[At(i)]]
  BY DEF Answer, Matching, Newer
<1> HIDE DEF M
<1>3. /\ t \in Seq(M) /\ Len(t) = c /\ c \in Nat
      /\ \A i \in 1..c : Cardinality({q \in M : Newer(q, t[i])}) = i - 1
      /\ \A p \in M : LET i == Cardinality({q \in M : Newer(q, p)}) + 1
                      IN i \in 1..c /\ t[i] = p
  BY <1>1, NewestFirstIsSorted
<1>4. /\ Best(M, f) \in Seq(M) /\ Len(Best(M, f)) = size /\ size \in 0..c
      /\ \A i \in 1..size : Best(M, f)[i] = t[i]
  BY <1>1, BestFacts
<1> HIDE DEF c, t, size
<1>5. \A i \in 1..c : t[i] \in M
  BY <1>3, ElementOfSeq
<1>6. ASSUME NEW i \in 1..size PROVE At(i) = t[i]
  <2>1. i \in 1..c
    BY <1>3, <1>4
  <2>2. t[i] \in M /\ Place(t[i]) = i
    BY <2>1, <1>3, <1>5
  <2>3. \A p \in M : Place(p) = i => p = t[i]
    <3> SUFFICES ASSUME NEW p \in M, Place(p) = i PROVE p = t[i]
      OBVIOUS
    <3> DEFINE k == Cardinality({q \in M : Newer(q, p)}) + 1
    <3>1. k \in 1..c /\ t[k] = p
      BY <1>3
    <3>2. Cardinality({q \in M : Newer(q, p)}) \in Nat
      <4>1. IsFiniteSet(M)
        BY <1>1, StoreFacts, FS_Subset
      <4>2. IsFiniteSet({q \in M : Newer(q, p)})
        BY <4>1, FS_Subset
      <4> QED BY <4>2, FS_CardinalityType
    <3>3. k = i
      BY <3>2
    <3> QED BY <3>1, <3>3
  <2> HIDE DEF Place
  <2> QED BY <2>2, <2>3
<1> HIDE DEF At
<1>7. [i \in 1..size |-> events[At(i)]] = [i \in 1..size |-> events[Best(M, f)[i]]]
  BY <1>4, <1>6
<1>8. DOMAIN Best(M, f) = 1..size
  BY <1>4, LenProperties
<1>9. ObjectsOf(Best(M, f)) = [i \in 1..size |-> events[Best(M, f)[i]]]
  BY <1>8 DEF ObjectsOf
<1> QED BY <1>2, <1>7, <1>9 DEF M

\* A property that a loop keeps, and has at its start, holds after each turn.
LEMMA LoopKeeps ==
  ASSUME NEW m \in Nat, NEW n \in Nat, NEW g, NEW S, g[m] \in S,
         \A k \in (m + 1)..n : g[k - 1] \in S => g[k] \in S
  PROVE  \A k \in m..n : g[k] \in S
<1> DEFINE T == {k \in Nat : m + k <= n => g[m + k] \in S}
<1>1. 0 \in T
  BY m + 0 = m
<1>2. ASSUME NEW k \in T PROVE k + 1 \in T
  <2> SUFFICES ASSUME m + (k + 1) <= n PROVE g[m + (k + 1)] \in S
    OBVIOUS
  <2>1. m + (k + 1) \in (m + 1)..n /\ (m + (k + 1)) - 1 = m + k /\ m + k <= n
    OBVIOUS
  <2> QED BY <2>1
<1>3. T \subseteq Nat
  OBVIOUS
<1> HIDE DEF T
<1>4. T = Nat
  BY <1>1, <1>2, <1>3, NatSetInduction
<1>5. ASSUME NEW k \in m..n PROVE g[k] \in S
  <2>1. k - m \in T /\ m + (k - m) = k /\ k <= n
    BY <1>4
  <2> QED BY <2>1 DEF T
<1> QED BY <1>5

\* A bounded set of numbers has a greatest one.
LEMMA MaxOfNats ==
  ASSUME NEW P, P \subseteq Nat, P # {}, NEW b \in Nat, \A k \in P : k <= b
  PROVE  Max(P) \in P
<1> DEFINE Q == {b - k : k \in P}
<1>1. Q \subseteq Nat /\ Q # {}
  <2>1. \A k \in P : b - k \in Nat
    OBVIOUS
  <2> QED BY <2>1
<1> HIDE DEF Q
<1>2. PICK m \in Q : \A k \in Q : m <= k
  BY <1>1, MinOfNats
<1>3. PICK x \in P : m = b - x
  BY DEF Q
<1>4. \A y \in P : x >= y
  <2> SUFFICES ASSUME NEW y \in P PROVE x >= y
    OBVIOUS
  <2>1. b - y \in Q
    BY DEF Q
  <2>2. m <= b - y
    BY <1>2, <2>1
  <2> QED BY <1>3, <2>2
<1> QED BY <1>3, <1>4 DEF Max

\* An array of finitely many places holds finitely many objects.
LEMMA StoredIsFinite == StoreInv => IsFiniteSet(Stored(events))
<1> SUFFICES ASSUME StoreInv PROVE IsFiniteSet(Stored(events))
  OBVIOUS
<1> DEFINE at == [p \in DOMAIN events |-> events[p]]
<1>1. at \in Surjection(DOMAIN events, Stored(events))
  BY DEF Surjection, Stored
<1> HIDE DEF at
<1> QED BY <1>1, StoreFacts, FS_Surjection

\* The stored objects that match; a list of sets that each hold them all, unless a
\* search is for parts of words.
Relevant(f) == {o \in indexed : Matches(o.event, f)}

IsSelection(set, f) == set \subseteq indexed /\ (WholeWords(f) => Relevant(f) \subseteq set)

AreSelections(s, f) == IsList(s) /\ \A i \in 1..Len(s) : IsSelection(s[i], f)

\* No condition, no selection.
LEMMA NoSelection ==
  ASSUME NEW f
  PROVE  AreSelections(<<>>, f)
<1>1. IsList(<<>>) /\ Len(<<>>) = 0
  BY EmptySeq, SeqIsList
<1> QED BY <1>1 DEF AreSelections

\* One condition gives one selection.
LEMMA OneSelection ==
  ASSUME NEW f, NEW set, IsSelection(set, f)
  PROVE  AreSelections(<<set>>, f)
<1>1. <<set>> \in Seq({set}) /\ Len(<<set>>) = 1 /\ <<set>>[1] = set
  OBVIOUS
<1>2. IsList(<<set>>)
  BY <1>1, SeqIsList
<1> QED BY <1>1, <1>2 DEF AreSelections

\* Selections of several conditions are put together.
LEMMA MoreSelections ==
  ASSUME NEW f, NEW s, AreSelections(s, f), NEW t, AreSelections(t, f)
  PROVE  AreSelections(s \o t, f)
<1> DEFINE u == s \o t
<1>1. /\ IsList(u)
      /\ Len(u) = Len(s) + Len(t)
      /\ \A i \in 1..Len(s) : u[i] = s[i]
      /\ \A i \in 1..Len(t) : u[Len(s) + i] = t[i]
  BY ListConcat DEF AreSelections
<1>2. Len(s) \in Nat /\ Len(t) \in Nat
  BY ListProperties DEF AreSelections
<1> HIDE DEF u
<1>3. ASSUME NEW i \in 1..Len(u) PROVE IsSelection(u[i], f)
  <2>1. CASE i <= Len(s)
    <3>1. i \in 1..Len(s)
      BY <2>1, <1>1, <1>2
    <3> QED BY <3>1, <1>1 DEF AreSelections
  <2>2. CASE i > Len(s)
    <3>1. i - Len(s) \in 1..Len(t) /\ Len(s) + (i - Len(s)) = i
      BY <2>2, <1>1, <1>2
    <3> QED BY <3>1, <1>1 DEF AreSelections
  <2> QED BY <2>1, <2>2, <1>1, <1>2
<1> QED BY <1>1, <1>3 DEF AreSelections, u

\* Each selection of the indexes holds what matches, and only stored objects.
LEMMA SelectionsAreRight ==
  ASSUME StoreInv, NEW f, IsFilter(f)
  PROVE  AreSelections(Selections(f), f)
<1>1. AreSelections(IdSelection(f), f)
  <2>1. f.ids # {} => IsSelection({o \in indexed : o.event.id \in UNION f.ids}, f)
    BY DEF IsSelection, Relevant, Matches
  <2> QED BY <2>1, NoSelection, OneSelection DEF IdSelection
<1>2. AreSelections(AuthorSelection(f), f)
  <2>1. f.authors # {} => IsSelection({o \in indexed : o.event.pubkey \in UNION f.authors}, f)
    BY DEF IsSelection, Relevant, Matches
  <2> QED BY <2>1, NoSelection, OneSelection DEF AuthorSelection
<1>3. AreSelections(KindSelection(f), f)
  <2>1. f.kinds # {} => IsSelection({o \in indexed : o.event.kind \in f.kinds}, f)
    BY DEF IsSelection, Relevant, Matches
  <2> QED BY <2>1, NoSelection, OneSelection DEF KindSelection
<1>4. AreSelections(TagSelections(f), f)
  <2> DEFINE T == TagNames(f)
             names == SetToSeq(T)
             Having(name) == {o \in indexed : \E value \in f.tags[name] : <<name, value>> \in o.event.tags}
             s == TagSelections(f)
  <2>1. IsFiniteSet(T)
    <3>1. IsFiniteSet(DOMAIN f.tags)
      BY DEF IsFilter
    <3>2. T \subseteq DOMAIN f.tags
      BY DEF TagNames
    <3> QED BY <3>1, <3>2, FS_Subset
  <2>2. \A name \in T : IsSelection(Having(name), f)
    BY DEF IsSelection, Relevant, Matches
  <2>3. s = [i \in DOMAIN names |-> Having(names[i])]
    BY DEF TagSelections
  <2> HIDE DEF T, Having, s
  <2>4. names \in [1..Cardinality(T) -> T] /\ Cardinality(T) \in Nat
    <3>1. Cardinality(T) \in Nat
      BY <2>1, FS_CardinalityType
    <3>2. \E b \in [1..Cardinality(T) -> T] : IsInjective(b)
      <4>1. PICK b : b \in Bijection(1..Cardinality(T), T)
        BY <2>1, FS_CardinalityType DEF ExistsBijection
      <4> QED BY <4>1 DEF Bijection, Injection, IsInjective
    <3>3. names = CHOOSE b \in [1..Cardinality(T) -> T] : IsInjective(b)
      BY DEF SetToSeq
    <3> HIDE DEF names
    <3> QED BY <3>1, <3>2, <3>3
  <2> HIDE DEF names
  <2>5. s = [i \in 1..Cardinality(T) |-> s[i]]
    BY <2>3, <2>4
  <2>6. IsList(s) /\ Len(s) = Cardinality(T)
    BY <2>4, <2>5, ListMade
  <2>7. \A i \in 1..Cardinality(T) : names[i] \in T /\ s[i] = Having(names[i])
    BY <2>3, <2>4
  <2> QED BY <2>2, <2>6, <2>7 DEF AreSelections, s
<1>5. AreSelections(SearchSelection(f), f)
  <2> DEFINE having == {o \in indexed : SearchTokens(f) \subseteq TokensOf[o.event.content]}
  <2>1. IsSelection(having, f)
    <3>1. having \subseteq indexed
      OBVIOUS
    <3>2. ASSUME WholeWords(f), NEW o \in indexed, Matches(o.event, f)
          PROVE  SearchTokens(f) \subseteq TokensOf[o.event.content]
      <4>1. o.event \in Events
        BY StoreFacts DEF Stored
      <4>2. ASSUME NEW text \in f.search PROVE TokensOf[text] \subseteq TokensOf[o.event.content]
        <5>1. TokensOf[text] = {} \/ <<o.event.content, text>> \in Includes
          BY <3>2 DEF Matches
        <5> QED BY <5>1, <4>1, <3>2 DEF WholeWords
      <4> QED BY <4>2 DEF SearchTokens
    <3> QED BY <3>1, <3>2 DEF IsSelection, Relevant
  <2> HIDE DEF having
  <2>2. SearchSelection(f) = <<>> \/ SearchSelection(f) = <<having>>
    BY DEF SearchSelection, having
  <2> QED BY <2>1, <2>2, NoSelection, OneSelection
<1> QED BY <1>1, <1>2, <1>3, <1>4, <1>5, MoreSelections DEF Selections

\* Arranging the selections by size keeps them.
LEMMA PlanIsRight ==
  ASSUME StoreInv, NEW f, IsFilter(f)
  PROVE  AreSelections(Plan(f), f)
<1> DEFINE found == Selections(f)
           D == DOMAIN found
           Size(i) == Cardinality(found[i])
           Smaller(i, j) == Size(i) < Size(j) \/ (Size(i) = Size(j) /\ i < j)
           R == {pair \in D \X D : Smaller(pair[1], pair[2])}
           order == Arranged(D, Smaller)
           s == Plan(f)
<1>1. s = [k \in D |-> found[order[k]]]
  BY DEF Plan, BySize
<1>2. IsList(found) /\ \A i \in 1..Len(found) : IsSelection(found[i], f)
  BY SelectionsAreRight DEF AreSelections
<1> HIDE DEF s, found
<1>3. D = 1..Len(found) /\ Len(found) \in Nat
  BY <1>2, ListProperties
<1>4. \A i \in D : Size(i) \in Nat
  <2>1. IsFiniteSet(indexed)
    BY StoredIsFinite, StoreFacts
  <2>2. \A i \in D : IsFiniteSet(found[i])
    BY <2>1, <1>2, <1>3, FS_Subset DEF IsSelection
  <2> QED BY <2>2, FS_CardinalityType
<1>5. IsFiniteSet(D) /\ Cardinality(D) = Len(found)
  <2>1. 1 \in Int /\ Len(found) \in Int
    BY <1>3
  <2>2. IsFiniteSet(1..Len(found)) /\ Cardinality(1..Len(found)) = IF 1 > Len(found) THEN 0 ELSE Len(found) - 1 + 1
    BY <2>1, FS_Interval
  <2> QED BY <2>2, <1>3
<1> HIDE DEF D
<1>6. IsOrder(R, D)
  <2>1. \A x \in D : x \in Nat /\ Size(x) \in Nat
    BY <1>3, <1>4
  <2> HIDE DEF Size
  <2>2. \A x \in D : ~Smaller(x, x)
    BY <2>1
  <2>3. \A x, y \in D : x # y => Smaller(x, y) \/ Smaller(y, x)
    BY <2>1
  <2>4. \A x, y, z \in D : Smaller(x, y) /\ Smaller(y, z) => Smaller(x, z)
    BY <2>1
  <2>5. \A x, y : <<x, y>> \in R <=> x \in D /\ y \in D /\ Smaller(x, y)
    OBVIOUS
  <2> HIDE DEF R, Smaller
  <2> QED BY <2>2, <2>3, <2>4, <2>5 DEF IsOrder
<1>7. order = Listed(D, R)
  <2>1. \A x, y \in D : <<x, y>> \in R <=> Smaller(x, y)
    OBVIOUS
  <2> DEFINE A(i) == CHOOSE x \in D : Cardinality({y \in D : Smaller(y, x)}) = i - 1
             B(i) == CHOOSE x \in D : Rank(R, D, x) = i - 1
  <2>2. order = [i \in 1..Cardinality(D) |-> A(i)]
    BY DEF Arranged
  <2>3. Listed(D, R) = [i \in 1..Cardinality(D) |-> B(i)]
    BY DEF Listed
  <2> HIDE DEF R, Smaller, order
  <2>4. \A x \in D : {y \in D : Smaller(y, x)} = {y \in D : <<y, x>> \in R}
    BY <2>1
  <2>5. \A x \in D : Rank(R, D, x) = Cardinality({y \in D : Smaller(y, x)})
    BY <2>4 DEF Rank
  <2>6. \A i : A(i) = B(i)
    BY <2>5
  <2> HIDE DEF A, B
  <2> QED BY <2>2, <2>3, <2>6
<1> HIDE DEF R, order
<1>8. order \in Seq(D) /\ Len(order) = Len(found)
  BY <1>5, <1>6, <1>7, ListedInOrder
<1>9. \A k \in 1..Len(found) : order[k] \in 1..Len(found)
  BY <1>8, <1>3, ElementOfSeq
<1>10. \A k \in 1..Len(found) : s[k] = found[order[k]]
  BY <1>1, <1>3
<1>11. s = [k \in 1..Len(found) |-> s[k]]
  BY <1>1, <1>3
<1>12. IsList(s) /\ Len(s) = Len(found)
  BY <1>3, <1>11, ListMade
<1> QED BY <1>2, <1>9, <1>10, <1>12 DEF AreSelections, s

\* Narrowing keeps what matches.
LEMMA NarrowedIsRight ==
  ASSUME StoreInv, NEW f, IsFilter(f)
  PROVE  Narrowed(f) = {} \/ \E objects : Narrowed(f) = {objects} /\ IsSelection(objects, f)
<1> DEFINE plan == Plan(f)
           n == Len(plan)
           S == {x \in [objects : SUBSET indexed, done : BOOLEAN] : IsSelection(x.objects, f)}
           base == [objects |-> indexed, done |-> FALSE]
           Turn(k, x) == IF k = 1 THEN [objects |-> plan[1], done |-> FALSE] ELSE Narrow(x, plan[k], f)
           step == [pair \in (1..n) \X S |-> Turn(pair[1], pair[2])]
           IsWalk(g) == g = [k \in 1..n |->
                               IF k = 1 THEN [objects |-> plan[1], done |-> FALSE]
                               ELSE Narrow(g[k - 1], plan[k], f)]
           narrowed == CHOOSE g : IsWalk(g)
<1>1. Narrowed(f) = IF plan = <<>> \/ (plan[1] # {} /\ Cardinality(plan[1]) >= Length)
                      THEN {} ELSE {narrowed[n].objects}
  BY DEF Narrowed, NarrowAll
<1>2. IsList(plan) /\ \A k \in 1..n : IsSelection(plan[k], f)
  BY PlanIsRight DEF AreSelections
<1> HIDE DEF plan
<1>3. n \in Nat /\ (plan # <<>> => n # 0)
  BY <1>2, ListProperties
<1> HIDE DEF n
<1>4. base \in S
  BY DEF IsSelection, Relevant
<1>5. ASSUME NEW k \in 1..n PROVE [objects |-> plan[k], done |-> FALSE] \in S
  BY <1>2 DEF IsSelection
<1>6. ASSUME NEW k \in 1..n, NEW x \in S PROVE Narrow(x, plan[k], f) \in S
  <2>1. /\ x.objects \subseteq indexed /\ IsSelection(x.objects, f)
        /\ x = [objects |-> x.objects, done |-> x.done]
    OBVIOUS
  <2>2. IsSelection(x.objects \cap plan[k], f)
    BY <2>1, <1>2 DEF IsSelection
  <2>3. IsSelection(Intersection(x.objects, plan[k]), f)
    BY <2>1, <2>2 DEF Intersection
  <2>4. [x EXCEPT !.done = TRUE] \in S
    BY <2>1
  <2>5. [x EXCEPT !.objects = Intersection(@, plan[k])] \in S
    <3>1. Intersection(x.objects, plan[k]) \subseteq indexed
      BY <2>3 DEF IsSelection
    <3> QED BY <2>1, <2>3, <3>1
  <2>6. Narrow(x, plan[k], f) = [x EXCEPT !.done = TRUE] \/ Narrow(x, plan[k], f) = [x EXCEPT !.objects = Intersection(@, plan[k])]
    BY DEF Narrow
  <2> QED BY <2>4, <2>5, <2>6
<1>7. \E g : IsWalk(g)
  <2>1. step \in [(1..n) \X S -> S]
    <3>1. ASSUME NEW k \in 1..n, NEW x \in S PROVE Turn(k, x) \in S
      <4> HIDE DEF S
      <4> QED BY <1>5, <1>6
    <3> HIDE DEF Turn, S
    <3> QED BY <3>1
  <2> HIDE DEF S, base, Turn
  <2>2. PICK h : IsLoop(h, n, S, base, step)
    <3> HIDE DEF step
    <3> QED BY <2>1, <1>3, <1>4, LoopExists
  <2>3. h \in [0..n -> S] /\ \A k \in 1..n : h[k] = step[<<k, h[k - 1]>>]
    BY <2>2 DEF IsLoop
  <2>4. \A k \in 1..n : h[k] = Turn(k, h[k - 1])
    <3>1. \A k \in 1..n : k - 1 \in 0..n
      BY <1>3
    <3>2. \A k \in 1..n : <<k, h[k - 1]>> \in (1..n) \X S
      BY <3>1, <2>3
    <3> QED BY <2>3, <3>2
  <2> DEFINE g == [k \in 1..n |-> h[k]]
  <2>5. \A k \in 1..n : k # 1 => k - 1 \in 1..n
    BY <1>3
  <2>6. \A k \in 1..n : g[k] = IF k = 1 THEN [objects |-> plan[1], done |-> FALSE] ELSE Narrow(g[k - 1], plan[k], f)
    BY <2>4, <2>5 DEF Turn
  <2>7. g = [k \in 1..n |-> g[k]]
    OBVIOUS
  <2> HIDE DEF g
  <2>8. IsWalk(g)
    BY <2>6, <2>7
  <2> QED BY <2>8
<1>8. IsWalk(narrowed)
  BY <1>7
<1> HIDE DEF narrowed
<1>9. CASE plan # <<>>
  <2>1. 1 \in Nat /\ n \in Nat /\ 1 \in 1..n /\ n \in 1..n
    BY <1>3, <1>9
  <2>2. narrowed[1] \in S
    <3>1. narrowed[1] = [objects |-> plan[1], done |-> FALSE]
      BY <1>8, <2>1
    <3> HIDE DEF S, IsWalk
    <3> QED BY <3>1, <1>5, <2>1
  <2>3. \A k \in (1 + 1)..n : narrowed[k - 1] \in S => narrowed[k] \in S
    <3> SUFFICES ASSUME NEW k \in (1 + 1)..n, narrowed[k - 1] \in S PROVE narrowed[k] \in S
      OBVIOUS
    <3>1. k \in 1..n /\ k # 1
      BY <1>3
    <3>2. narrowed[k] = Narrow(narrowed[k - 1], plan[k], f)
      BY <1>8, <3>1
    <3> HIDE DEF S, IsWalk
    <3> QED BY <3>1, <3>2, <1>6
  <2> HIDE DEF S, IsWalk
  <2>4. \A k \in 1..n : narrowed[k] \in S
    BY <2>1, <2>2, <2>3, LoopKeeps
  <2>5. narrowed[n] \in S
    BY <2>1, <2>4
  <2>6. IsSelection(narrowed[n].objects, f)
    BY <2>5 DEF S
  <2> QED BY <1>1, <2>6
<1>10. CASE plan = <<>>
  BY <1>1, <1>10
<1> QED BY <1>9, <1>10

\* Each object has a position of its own.
LEMMA CandidatesAreThere ==
  ASSUME StoreInv, NEW objects, objects \subseteq indexed
  PROVE  /\ IndexCandidates(objects) \in SUBSET DOMAIN events
         /\ EachStoredOnce => IndexCandidates(objects) = {p \in DOMAIN events : events[p] \in objects}
         /\ {events[p] : p \in IndexCandidates(objects)} = objects
<1> DEFINE At(o) == {p \in DOMAIN events : events[p] = o}
<1>1. ASSUME NEW o \in objects PROVE Max(At(o)) \in At(o)
  <2>1. At(o) # {}
    BY StoreFacts DEF Stored
  <2>2. nextOrder \in Nat /\ At(o) \subseteq Nat /\ \A p \in At(o) : p <= nextOrder
    BY StoreFacts
  <2> HIDE DEF At
  <2> QED BY <2>1, <2>2, MaxOfNats
<1>2. IndexCandidates(objects) = {Max(At(o)) : o \in objects}
  BY DEF IndexCandidates
<1>3. \A o \in objects : Max(At(o)) \in DOMAIN events /\ events[Max(At(o))] = o
  BY <1>1
<1> HIDE DEF At
<1>4. IndexCandidates(objects) \subseteq DOMAIN events
  BY <1>2, <1>3
<1>5. ASSUME EachStoredOnce
      PROVE  IndexCandidates(objects) = {p \in DOMAIN events : events[p] \in objects}
  <2>1. \A p \in DOMAIN events : events[p] \in objects => p = Max(At(events[p]))
    BY <1>3, <1>5 DEF EachStoredOnce
  <2> QED BY <1>2, <1>3, <2>1
<1>6. {events[p] : p \in IndexCandidates(objects)} = objects
  BY <1>2, <1>3
<1> QED BY <1>4, <1>5, <1>6

\* Every way of answering lists the best of positions that match. Where no search is for
\* a part of a word, they have all the objects that match, and are all the positions that
\* match if no object is stored twice.
LEMMA QueryIsBest ==
  ASSUME StoreInv, NEW f, IsFilter(f)
  PROVE  \E P \in SUBSET Matching(DOMAIN events, f) :
           /\ Query(f) = ObjectsOf(Best(P, f))
           /\ EachStoredOnce /\ WholeWords(f) => P = Matching(DOMAIN events, f)
           /\ WholeWords(f) => {events[p] : p \in P} = Relevant(f)
<1>1. CASE Narrowed(f) = {}
  <2> DEFINE P == Matching(DOMAIN events, f)
  <2>1. Query(f) = ObjectsOf(Best(P, f))
    BY <1>1, FilteredAreBest DEF Query
  <2>2. {events[p] : p \in P} = Relevant(f)
    BY StoreFacts DEF Matching, Relevant, Stored
  <2> HIDE DEF P
  <2> QED BY <2>1, <2>2 DEF P
<1>2. CASE Narrowed(f) # {}
  <2>1. PICK objects : Narrowed(f) = {objects} /\ IsSelection(objects, f)
    BY <1>2, NarrowedIsRight
  <2> DEFINE C == IndexCandidates(objects)
             P == Matching(C, f)
  <2>2. UNION Narrowed(f) = objects
    BY <2>1
  <2>3. Query(f) = CollectSorted(C, f)
    BY <1>2, <2>2 DEF Query
  <2>4. /\ C \in SUBSET DOMAIN events
        /\ EachStoredOnce => C = {p \in DOMAIN events : events[p] \in objects}
    BY <2>1, CandidatesAreThere DEF IsSelection
  <2> HIDE DEF C
  <2>5. Query(f) = ObjectsOf(Best(P, f))
    BY <2>3, <2>4, CollectedAreBest
  <2>6. P \in SUBSET Matching(DOMAIN events, f)
    BY <2>4 DEF Matching
  <2>7. ASSUME EachStoredOnce, WholeWords(f) PROVE P = Matching(DOMAIN events, f)
    <3>1. Relevant(f) \subseteq objects
      BY <2>1, <2>7 DEF IsSelection
    <3>2. \A p \in DOMAIN events : Matches(events[p].event, f) => events[p] \in objects
      BY <3>1, StoreFacts DEF Relevant, Stored
    <3> QED BY <2>4, <2>7, <3>2 DEF Matching
  <2>8. ASSUME WholeWords(f) PROVE {events[p] : p \in P} = Relevant(f)
    <3>1. Relevant(f) \subseteq objects /\ objects \subseteq indexed
      BY <2>1, <2>8 DEF IsSelection
    <3>2. {events[p] : p \in C} = objects
      BY <3>1, CandidatesAreThere DEF C
    <3>3. {events[p] : p \in P} = {o \in objects : Matches(o.event, f)}
      BY <3>2 DEF Matching
    <3> QED BY <3>1, <3>3 DEF Relevant
  <2> HIDE DEF P
  <2> QED BY <2>5, <2>6, <2>7, <2>8
<1> QED BY <1>1, <1>2

\* An answer is a list of stored objects that match, in order, within the limit.
LEMMA QueryFacts ==
  ASSUME StoreInv, NEW f, IsFilter(f)
  PROVE  /\ IsList(Query(f))
         /\ \A i \in 1..Len(Query(f)) :
              Query(f)[i] \in Stored(events) /\ Matches(Query(f)[i].event, f)
         /\ \A i, j \in 1..Len(Query(f)) :
              i < j => Query(f)[i].event.created >= Query(f)[j].event.created
         /\ \A n \in Limit(f) : Len(Query(f)) <= n
<1> DEFINE found == Query(f)
           M == Matching(DOMAIN events, f)
<1>1. PICK P \in SUBSET M : found = ObjectsOf(Best(P, f))
  BY QueryIsBest
<1> DEFINE s == Best(P, f)
           c == Cardinality(P)
           t == NewestFirst(P)
           size == Min(Limit(f) \cup {c})
<1>2. P \in SUBSET DOMAIN events /\ \A p \in P : Matches(events[p].event, f)
  BY <1>1 DEF Matching
<1> HIDE DEF M, found
<1>3. /\ s \in Seq(P) /\ Len(s) = size /\ size \in 0..c /\ c \in Nat
      /\ \A i \in 1..size : s[i] = t[i]
  BY <1>2, BestFacts
<1>4. t \in Seq(P) /\ Len(t) = c /\ \A i, j \in 1..c : i < j <=> Newer(t[i], t[j])
  BY <1>2, NewestFirstIsSorted
<1>5. \A n \in Limit(f) : size <= n
  <2> HIDE DEF c
  <2> QED BY <1>3, LimitIsOne
<1> HIDE DEF s, t, size, c
<1>6. /\ IsList(found) /\ Len(found) = size
      /\ \A i \in 1..size : found[i] = events[s[i]]
  <2>1. IsList(s)
    BY <1>3, SeqIsList
  <2> QED BY <1>1, <1>3, <2>1, ObjectsOfList DEF s
<1>7. ASSUME NEW i \in 1..size
      PROVE  s[i] \in DOMAIN events /\ found[i] \in Stored(events) /\ Matches(found[i].event, f)
  <2>1. s[i] \in P
    BY <1>3, ElementOfSeq
  <2> QED BY <2>1, <1>2, <1>6 DEF Stored
<1>8. ASSUME NEW i \in 1..size, NEW j \in 1..size, i < j
      PROVE  found[i].event.created >= found[j].event.created
  <2>1. i \in 1..c /\ j \in 1..c
    BY <1>3
  <2>2. Newer(s[i], s[j])
    BY <1>3, <1>4, <1>8, <2>1
  <2>3. events[s[i]].event.created \in Nat /\ events[s[j]].event.created \in Nat
    BY <1>7, StoreFacts
  <2> QED BY <2>2, <2>3, <1>6 DEF Newer
<1> QED BY <1>5, <1>6, <1>7, <1>8 DEF found

\* Without a limit, and where searches are for whole words, it has every object that
\* matches.
LEMMA QueryFindsAll ==
  ASSUME StoreInv, NEW f, IsFilter(f), Limit(f) = {}, WholeWords(f)
  PROVE  ToSet(Query(f)) = Relevant(f)
<1>1. PICK P \in SUBSET Matching(DOMAIN events, f) :
        Query(f) = ObjectsOf(Best(P, f)) /\ {events[p] : p \in P} = Relevant(f)
  BY QueryIsBest
<1>2. P \in SUBSET DOMAIN events
  BY <1>1 DEF Matching
<1> DEFINE t == NewestFirst(P)
           c == Cardinality(P)
           found == ObjectsOf(t)
<1>3. Best(P, f) = t
  BY <1>2, BestFacts
<1>4. t \in Seq(P) /\ Len(t) = c /\ \A p \in P : \E i \in 1..c : t[i] = p
  BY <1>2, NewestFirstIsSorted
<1> HIDE DEF t
<1>5. \A i \in 1..c : t[i] \in P
  BY <1>4, ElementOfSeq
<1>6. DOMAIN found = 1..c /\ \A i \in 1..c : found[i] = events[t[i]]
  BY <1>4, SeqIsList, ObjectsOfList
<1> HIDE DEF found, c
<1>7. ToSet(found) = {events[p] : p \in P}
  BY <1>4, <1>5, <1>6 DEF ToSet
<1> QED BY <1>1, <1>3, <1>7 DEF found

\* A query answers with stored events that match its filter, newest first and no
\* more than its limit, whatever indexes it took them from.
THEOREM QueriesAreSound == Spec => []QueryIsSound
<1>1. StoreInv => QueryIsSound
  <2> SUFFICES ASSUME StoreInv, NEW f \in Filters
               PROVE  LET found == Query(f) IN
                      /\ \A i \in DOMAIN found : found[i] \in Stored(events) /\ Matches(found[i].event, f)
                      /\ \A i, j \in DOMAIN found : i < j => found[i].event.created >= found[j].event.created
                      /\ \A n \in Limit(f) : Len(found) <= n
    BY DEF QueryIsSound
  <2>1. IsFilter(f)
    BY QueryAssumption
  <2>2. DOMAIN Query(f) = 1..Len(Query(f))
    BY <2>1, QueryFacts, ListProperties
  <2> QED BY <2>1, <2>2, QueryFacts
<1> QED BY <1>1, StoreInvariant, PTL

\* Where searches are for whole words, and no event is stored twice, a query finds
\* exactly what its filter asks for.
THEOREM QueriesAreExact == Spec => []QueryIsExact
<1>1. StoreInv => QueryIsExact
  <2> SUFFICES ASSUME StoreInv, EachStoredOnce, NEW f \in Filters, WholeWords(f)
               PROVE  Query(f) = Answer(f)
    BY DEF QueryIsExact
  <2>1. IsFilter(f)
    BY QueryAssumption
  <2> QED BY <2>1, QueryIsBest, AnswerIsBest
<1> QED BY <1>1, StoreInvariant, PTL

\* What one filter counts is what it finds.
LEMMA CountedAreFound ==
  ASSUME StoreInv, NEW f, IsFilter(f)
  PROVE  CountedIds(f) = {Id(o) : o \in ToSet(Query(f))}
<1>1. CASE Narrowed(f) # {}
  BY <1>1 DEF CountedIds, Query
<1>2. CASE Narrowed(f) = {} /\ Limit(f) # {}
  BY <1>2 DEF CountedIds, IdsForCount, Query
<1>3. CASE Narrowed(f) = {} /\ Limit(f) = {}
  <2> DEFINE M == Matching(DOMAIN events, f)
             t == NewestFirst(M)
             found == FilterEvents(f)
  <2>1. CountedIds(f) = {Id(o) : o \in {x \in Stored(events) : Matches(x.event, f)}}
    BY <1>3 DEF CountedIds, IdsForCount
  <2>2. M \in SUBSET DOMAIN events /\ {x \in Stored(events) : Matches(x.event, f)} = {events[p] : p \in M}
    BY DEF Matching, Stored
  <2> HIDE DEF M
  <2>3. found = ObjectsOf(t)
    BY <1>3 DEF FilterEvents, M
  <2>4. /\ t \in Seq(M) /\ Len(t) = Cardinality(M)
        /\ \A p \in M : \E i \in 1..Cardinality(M) : t[i] = p
    BY <2>2, NewestFirstIsSorted
  <2> HIDE DEF t, found
  <2>5. \A i \in 1..Len(t) : t[i] \in M
    BY <2>4, ElementOfSeq
  <2>6. DOMAIN found = 1..Len(t) /\ \A i \in 1..Len(t) : found[i] = events[t[i]]
    BY <2>3, <2>4, SeqIsList, ObjectsOfList
  <2>7. ToSet(found) = {events[p] : p \in M}
    BY <2>4, <2>5, <2>6 DEF ToSet
  <2>8. Query(f) = found
    BY <1>3 DEF Query, found
  <2> QED BY <2>1, <2>2, <2>7, <2>8
<1> QED BY <1>1, <1>2, <1>3

\* The elements of two lists, one after the other.
LEMMA ConcatSet ==
  ASSUME NEW s, IsList(s), NEW t, IsList(t)
  PROVE  ToSet(s \o t) = ToSet(s) \cup ToSet(t)
<1> DEFINE u == s \o t
<1>1. /\ IsList(u) /\ Len(u) = Len(s) + Len(t)
      /\ \A i \in 1..Len(s) : u[i] = s[i]
      /\ \A i \in 1..Len(t) : u[Len(s) + i] = t[i]
  BY ListConcat
<1>2. /\ Len(s) \in Nat /\ DOMAIN s = 1..Len(s)
      /\ Len(t) \in Nat /\ DOMAIN t = 1..Len(t)
      /\ DOMAIN u = 1..Len(u)
  BY <1>1, ListProperties
<1> HIDE DEF u
<1>3. \A i \in 1..Len(s) : i \in 1..Len(u)
  BY <1>1, <1>2
<1>4. \A i \in 1..Len(t) : Len(s) + i \in 1..Len(u)
  BY <1>1, <1>2
<1>5. \A i \in 1..Len(u) : i \in 1..Len(s) \/ (i - Len(s) \in 1..Len(t) /\ Len(s) + (i - Len(s)) = i)
  BY <1>1, <1>2
<1>6. ToSet(s) \cup ToSet(t) \subseteq ToSet(u)
  BY <1>1, <1>2, <1>3, <1>4 DEF ToSet
<1>7. \A i \in 1..Len(u) : u[i] \in ToSet(s) \cup ToSet(t)
  <2> SUFFICES ASSUME NEW i \in 1..Len(u) PROVE u[i] \in ToSet(s) \cup ToSet(t)
    OBVIOUS
  <2>1. CASE i \in 1..Len(s)
    BY <2>1, <1>1, <1>2 DEF ToSet
  <2>2. CASE i - Len(s) \in 1..Len(t) /\ Len(s) + (i - Len(s)) = i
    <3>1. u[i] = t[i - Len(s)]
      BY <2>2, <1>1
    <3> QED BY <3>1, <2>2, <1>2 DEF ToSet
  <2> QED BY <2>1, <2>2, <1>5
<1>8. ToSet(u) \subseteq ToSet(s) \cup ToSet(t)
  BY <1>2, <1>7 DEF ToSet
<1> QED BY <1>6, <1>8 DEF u

\* The filters of one REQ or COUNT.
AreFilters(fs) == IsList(fs) /\ \A k \in DOMAIN fs : IsFilter(fs[k])

\* What the runs ask for are filters.
LEMMA RequestsAreFilters ==
  ASSUME NEW fs \in Requests
  PROVE  AreFilters(fs)
<1>1. fs \in Seq(ToSet(fs))
  BY QueryAssumption
<1>2. IsList(fs)
  BY <1>1, SeqIsList
<1>3. \A k \in DOMAIN fs : fs[k] \in Filters
  BY DEF Filters, ToSet
<1> QED BY <1>2, <1>3, QueryAssumption DEF AreFilters

\* The results of the filters, one after the other, hold what each of them finds.
LEMMA ConcatenatedIsRight ==
  ASSUME StoreInv, NEW fs, AreFilters(fs)
  PROVE  /\ IsList(Concatenated(fs))
         /\ ToSet(Concatenated(fs)) = UNION {ToSet(Query(fs[k])) : k \in DOMAIN fs}
<1> DEFINE n == Len(fs)
           O == Stored(events)
           S == Seq(O)
           step == [pair \in (1..n) \X S |-> pair[2] \o Query(fs[pair[1]])]
           IsWalk(g) == g = [k \in 0..n |-> IF k = 0 THEN <<>> ELSE g[k - 1] \o Query(fs[k])]
           found == CHOOSE g : IsWalk(g)
           Found(k) == UNION {ToSet(Query(fs[i])) : i \in 1..k}
<1>1. n \in Nat /\ DOMAIN fs = 1..n /\ \A k \in 1..n : IsFilter(fs[k])
  BY ListProperties DEF AreFilters
<1> HIDE DEF n
<1>2. \A k \in 1..n : IsList(Query(fs[k])) /\ Query(fs[k]) \in Seq(O)
  <2> SUFFICES ASSUME NEW k \in 1..n PROVE IsList(Query(fs[k])) /\ Query(fs[k]) \in Seq(O)
    OBVIOUS
  <2>1. IsList(Query(fs[k])) /\ \A i \in 1..Len(Query(fs[k])) : Query(fs[k])[i] \in O
    BY <1>1, QueryFacts
  <2> HIDE DEF O
  <2> QED BY <2>1, ListProperties
<1> HIDE DEF O
<1>3. \E g : IsWalk(g)
  <2>1. step \in [(1..n) \X S -> S]
    <3>1. ASSUME NEW k \in 1..n, NEW s \in S PROVE s \o Query(fs[k]) \in S
      BY <1>2, ConcatProperties
    <3> HIDE DEF S
    <3> QED BY <3>1
  <2>2. <<>> \in S
    OBVIOUS
  <2> HIDE DEF S
  <2>3. PICK g : IsLoop(g, n, S, <<>>, step)
    <3> HIDE DEF step
    <3> QED BY <2>1, <2>2, <1>1, LoopExists
  <2>4. g \in [0..n -> S] /\ g[0] = <<>> /\ \A k \in 1..n : g[k] = step[<<k, g[k - 1]>>]
    BY <2>3 DEF IsLoop
  <2>5. \A k \in 1..n : g[k] = g[k - 1] \o Query(fs[k])
    <3>1. \A k \in 1..n : k - 1 \in 0..n
      BY <1>1
    <3>2. \A k \in 1..n : <<k, g[k - 1]>> \in (1..n) \X S
      BY <3>1, <2>4
    <3> QED BY <2>4, <3>2
  <2>6. \A k \in 0..n : k # 0 => k \in 1..n
    BY <1>1
  <2>7. IsWalk(g)
    <3> HIDE DEF step
    <3> QED BY <2>4, <2>5, <2>6
  <2> QED BY <2>7
<1>4. IsWalk(found)
  BY <1>3
<1>5. Concatenated(fs) = found[n]
  BY DEF Concatenated, n
<1> HIDE DEF found
<1>6. found[0] = <<>>
  BY <1>1, <1>4
<1>7. ASSUME NEW k \in Nat, k + 1 <= n
      PROVE  found[k + 1] = found[k] \o Query(fs[k + 1])
  <2>1. k + 1 \in 0..n /\ k + 1 # 0 /\ (k + 1) - 1 = k
    BY <1>7, <1>1
  <2> QED BY <2>1, <1>4
<1> HIDE DEF IsWalk
<1> DEFINE T == {k \in Nat : k <= n => IsList(found[k]) /\ ToSet(found[k]) = Found(k)}
<1>8. 0 \in T
  <2>1. IsList(<<>>)
    BY EmptySeq, SeqIsList
  <2>2. ToSet(<<>>) = {}
    BY DEF ToSet
  <2>3. Found(0) = {}
    BY 1..0 = {}
  <2> HIDE DEF Found
  <2> QED BY <2>1, <2>2, <2>3, <1>6
<1>9. ASSUME NEW k \in T PROVE k + 1 \in T
  <2> SUFFICES ASSUME k + 1 <= n
               PROVE  IsList(found[k + 1]) /\ ToSet(found[k + 1]) = Found(k + 1)
    OBVIOUS
  <2>1. k \in Nat /\ k <= n /\ k + 1 \in 1..n
    BY <1>1
  <2>2. IsList(found[k]) /\ ToSet(found[k]) = Found(k)
    BY <2>1
  <2> HIDE DEF T
  <2>3. found[k + 1] = found[k] \o Query(fs[k + 1])
    BY <2>1, <1>7
  <2>4. IsList(found[k + 1]) /\ ToSet(found[k + 1]) = ToSet(found[k]) \cup ToSet(Query(fs[k + 1]))
    <3> DEFINE s == found[k]
               q == Query(fs[k + 1])
    <3>1. IsList(s) /\ IsList(q)
      BY <2>1, <2>2, <1>2
    <3> HIDE DEF s, q
    <3>2. IsList(s \o q)
      BY <3>1, ListConcat
    <3>3. ToSet(s \o q) = ToSet(s) \cup ToSet(q)
      BY <3>1, ConcatSet
    <3> QED BY <3>2, <3>3, <2>3 DEF s, q
  <2>5. Found(k + 1) = Found(k) \cup ToSet(Query(fs[k + 1]))
    <3>1. 1..(k + 1) = (1..k) \cup {k + 1}
      BY <2>1
    <3> QED BY <3>1
  <2> HIDE DEF Found
  <2> QED BY <2>2, <2>4, <2>5
<1>10. T = Nat
  <2>1. T \subseteq Nat
    OBVIOUS
  <2> HIDE DEF T
  <2> QED BY <1>8, <1>9, <2>1, NatSetInduction
<1>11. IsList(found[n]) /\ ToSet(found[n]) = Found(n)
  <2>1. n \in T
    BY <1>10, <1>1
  <2> HIDE DEF Found
  <2> QED BY <2>1, <1>1
<1> QED BY <1>1, <1>5, <1>11

\* queryMany sends each id once, where it comes first.
LEMMA QueryManyIsRight ==
  ASSUME StoreInv, NEW fs, AreFilters(fs)
  PROVE  LET ids == {Id(o) : o \in ToSet(Concatenated(fs))}
         IN /\ IsList(QueryMany(fs))
            /\ ToSet(QueryMany(fs)) \subseteq ToSet(Concatenated(fs))
            /\ {Id(o) : o \in ToSet(QueryMany(fs))} = ids
            /\ Len(QueryMany(fs)) = Cardinality(ids)
<1> DEFINE found == Concatenated(fs)
           n == Len(found)
           firsts == {i \in DOMAIN found : \A j \in 1..(i - 1) : Id(found[j]) # Id(found[i])}
           ids == {Id(o) : o \in ToSet(found)}
           R == {pair \in firsts \X firsts : pair[1] < pair[2]}
           order == Arranged(firsts, <)
           sent == QueryMany(fs)
<1>1. sent = [k \in DOMAIN order |-> found[order[k]]]
  BY DEF QueryMany, EachOnce
<1>2. IsList(found)
  BY ConcatenatedIsRight
<1> HIDE DEF found, sent
<1>3. n \in Nat /\ DOMAIN found = 1..n
  BY <1>2, ListProperties
<1>4. /\ firsts \subseteq 1..n
      /\ \A i \in firsts : i \in Nat /\ \A j \in 1..(i - 1) : Id(found[j]) # Id(found[i])
      /\ \A i \in 1..n : (\A j \in 1..(i - 1) : Id(found[j]) # Id(found[i])) => i \in firsts
  BY <1>3
<1>5. ids = {Id(found[i]) : i \in 1..n}
  BY <1>3 DEF ToSet
<1> HIDE DEF n, firsts, ids
<1>6. IsFiniteSet(firsts)
  <2>1. 1 \in Int /\ n \in Int
    BY <1>3
  <2> QED BY <2>1, <1>4, FS_Interval, FS_Subset
<1>7. IsOrder(R, firsts)
  <2>1. \A x, y : <<x, y>> \in R <=> x \in firsts /\ y \in firsts /\ x < y
    OBVIOUS
  <2>2. \A x \in firsts : x \in Nat
    BY <1>4
  <2>3. \A x, y \in firsts : x # y => x < y \/ y < x
    BY <2>2
  <2>4. \A x, y, z \in firsts : x < y /\ y < z => x < z
    BY <2>2
  <2>5. \A x \in firsts : ~(x < x)
    BY <2>2
  <2> HIDE DEF R
  <2> QED BY <2>1, <2>3, <2>4, <2>5 DEF IsOrder
<1>8. order = Listed(firsts, R)
  <2>1. \A x, y \in firsts : <<x, y>> \in R <=> x < y
    OBVIOUS
  <2> DEFINE A(i) == CHOOSE x \in firsts : Cardinality({y \in firsts : y < x}) = i - 1
             B(i) == CHOOSE x \in firsts : Rank(R, firsts, x) = i - 1
  <2>2. order = [i \in 1..Cardinality(firsts) |-> A(i)]
    BY DEF Arranged
  <2>3. Listed(firsts, R) = [i \in 1..Cardinality(firsts) |-> B(i)]
    BY DEF Listed
  <2> HIDE DEF R, order
  <2>4. \A x \in firsts : {y \in firsts : y < x} = {y \in firsts : <<y, x>> \in R}
    BY <2>1
  <2>5. \A x \in firsts : Rank(R, firsts, x) = Cardinality({y \in firsts : y < x})
    BY <2>4 DEF Rank
  <2>6. \A i : A(i) = B(i)
    BY <2>5
  <2> HIDE DEF A, B
  <2> QED BY <2>2, <2>3, <2>6
<1> DEFINE c == Cardinality(firsts)
<1> HIDE DEF order
<1>9. /\ order \in Seq(firsts) /\ Len(order) = c /\ c \in Nat
      /\ \A x \in firsts : \E i \in 1..c : order[i] = x
  <2> DEFINE s == Listed(firsts, R)
  <2>1. /\ s \in Seq(firsts) /\ Len(s) = c /\ c \in Nat
        /\ \A x \in firsts : /\ Rank(R, firsts, x) + 1 \in 1..c
                             /\ s[Rank(R, firsts, x) + 1] = x
    <3> HIDE DEF R
    <3> QED BY <1>6, <1>7, ListedInOrder
  <2> HIDE DEF s, R
  <2> QED BY <2>1, <1>8 DEF s
<1> HIDE DEF R
<1>10. DOMAIN order = 1..c /\ \A k \in 1..c : order[k] \in firsts
  <2> HIDE DEF c
  <2> QED BY <1>9, LenProperties, ElementOfSeq
<1> HIDE DEF c
<1>11. /\ sent = [k \in 1..c |-> sent[k]]
       /\ \A k \in 1..c : sent[k] = found[order[k]]
  BY <1>1, <1>10
<1>12. IsList(sent) /\ Len(sent) = c
  BY <1>9, <1>11, ListMade
<1>13. DOMAIN sent = 1..c
  BY <1>1, <1>10
<1>14. ToSet(sent) \subseteq ToSet(found)
  <2>1. \A k \in 1..c : order[k] \in DOMAIN found
    BY <1>10, <1>4, <1>3
  <2> QED BY <2>1, <1>11, <1>13 DEF ToSet
<1>15. ASSUME NEW id \in ids PROVE \E i \in firsts : Id(found[i]) = id
  <2> DEFINE P == {i \in 1..n : Id(found[i]) = id}
  <2>1. P \subseteq Nat /\ P # {}
    BY <1>5, <1>3
  <2>2. PICK i \in P : \A k \in P : i <= k
    <3> HIDE DEF P
    <3> QED BY <2>1, MinOfNats
  <2>3. \A j \in 1..(i - 1) : Id(found[j]) # Id(found[i])
    <3> SUFFICES ASSUME NEW j \in 1..(i - 1), Id(found[j]) = Id(found[i]) PROVE FALSE
      OBVIOUS
    <3>1. j \in 1..n /\ j < i /\ i \in Nat
      BY <1>3
    <3>2. j \in P
      BY <3>1
    <3> QED BY <2>2, <3>1, <3>2
  <2> QED BY <2>3, <1>4
<1>16. c = Cardinality(ids)
  <2> DEFINE at == [i \in firsts |-> Id(found[i])]
  <2>1. \A i \in firsts : Id(found[i]) \in ids
    BY <1>4, <1>5
  <2>2. at \in Surjection(firsts, ids)
    BY <2>1, <1>15 DEF Surjection
  <2>3. \A i, j \in firsts : Id(found[i]) = Id(found[j]) => i = j
    <3> SUFFICES ASSUME NEW i \in firsts, NEW j \in firsts, i < j, Id(found[i]) = Id(found[j])
                 PROVE  FALSE
      BY <1>4
    <3>1. i \in 1..(j - 1)
      BY <1>4, <1>3
    <3> QED BY <3>1, <1>4
  <2>4. at \in Injection(firsts, ids)
    BY <2>1, <2>3 DEF Injection, IsInjective
  <2> HIDE DEF at
  <2> QED BY <2>2, <2>4, <1>6, FS_Surjection DEF c
<1>17. {Id(o) : o \in ToSet(sent)} = ids
  <2>1. {Id(o) : o \in ToSet(sent)} = {Id(sent[k]) : k \in 1..c}
    BY <1>13 DEF ToSet
  <2>2. \A k \in 1..c : Id(sent[k]) \in ids
    BY <1>11, <1>10, <1>4, <1>5
  <2>3. \A id \in ids : \E k \in 1..c : Id(sent[k]) = id
    BY <1>15, <1>9, <1>11
  <2> QED BY <2>1, <2>2, <2>3
<1> QED BY <1>12, <1>14, <1>16, <1>17 DEF sent, found, ids

\* COUNT says how many events a REQ of the same filters sends.
THEOREM CountsAreRight == Spec => []CountIsQueryLength
<1>1. StoreInv => CountIsQueryLength
  <2> SUFFICES ASSUME StoreInv, NEW fs \in Requests PROVE Count(fs) = Len(QueryMany(fs))
    BY DEF CountIsQueryLength
  <2> DEFINE ids == {Id(o) : o \in ToSet(Concatenated(fs))}
  <2>1. AreFilters(fs) /\ \A i \in DOMAIN fs : IsFilter(fs[i])
    BY RequestsAreFilters DEF AreFilters
  <2>2. \A i \in DOMAIN fs : CountedIds(fs[i]) = {Id(o) : o \in ToSet(Query(fs[i]))}
    BY <2>1, CountedAreFound
  <2>3. ToSet(Concatenated(fs)) = UNION {ToSet(Query(fs[k])) : k \in DOMAIN fs}
    BY <2>1, ConcatenatedIsRight
  <2>4. UNION {CountedIds(fs[i]) : i \in DOMAIN fs} = ids
    BY <2>2, <2>3
  <2>5. Count(fs) = Cardinality(ids)
    BY <2>4 DEF Count
  <2> QED BY <2>1, <2>5, QueryManyIsRight
<1> QED BY <1>1, StoreInvariant, PTL

=============================================================================
