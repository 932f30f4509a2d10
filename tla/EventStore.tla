----------------------------- MODULE EventStore -----------------------------
(***************************************************************************)
(* src/src/relay/event_store.ts: the array of events, the indexes kept     *)
(* beside it and the rules of replacement (NIP-01) and deletion (NIP-09).  *)
(* Every method is synchronous and so one action.                          *)
(*                                                                         *)
(* An event is a record; what the store holds are objects carrying events: *)
(* publish() is given a new object for every message, store() whatever     *)
(* object the test has, perhaps one that the store holds already. The      *)
(* array is a function from positions to objects with gaps where events    *)
(* were removed, and nextOrder is its end; #rebuildIndexes closes the gaps *)
(* of the order numbers, the model does not, for only the order of the     *)
(* positions counts. The id, kind, pubkey, tag and search indexes are all  *)
(* filled and emptied together, object by object: `indexed' is the set of  *)
(* objects they hold. #replaceableIndex and #parameterizedIndex have       *)
(* disjoint keys: `latest' is both of them.                                *)
(*                                                                         *)
(* Left out: content and the tags that no rule looks at, and queries, which*)
(* change nothing. An address is kind:pubkey or kind:pubkey:d; the model   *)
(* keeps its pubkey and a name. Objects are not changed once stored.       *)
(***************************************************************************)
EXTENDS Naturals, FiniteSets

CONSTANTS
  Events,      \* the events: records with the fields of Event below
  MaxOrder,    \* bound: how many objects are appended between two resets
  MaxSnapshot  \* bound: how many of them before a snapshot is taken

Kinds == {"regular", "addressable", "ephemeral", "deletion"}

\* An id is a hash of the rest of the event; ids are compared as strings, hence
\* the numbers. An address names the pubkey of its event.
ASSUME EventAssumption ==
  /\ \A e \in Events :
       /\ e.id \in Nat
       /\ e.kind \in Kinds
       /\ e.created \in Nat
       /\ e.eTags \subseteq Nat
       /\ e.address.pubkey = e.pubkey
  /\ \A e, f \in Events : e.id = f.id => e = f
  /\ MaxOrder \in Nat
  /\ MaxSnapshot \in Nat

VARIABLES
  events,      \* #events: position -> object
  nextOrder,   \* the position of the next object: the end of the array
  deletedIds,  \* #deletedIds
  indexed,     \* the objects in the id, kind, pubkey, tag and search indexes
  latest,      \* #replaceableIndex and #parameterizedIndex: address -> object
  saved        \* the last snapshot() the test has taken

storeVars == <<events, nextOrder, deletedIds, indexed, latest>>
vars == <<storeVars, saved>>

\* The test's own object of an event is copy 0; an object the relay makes is
\* told apart by the position it was made for.
Objects == [event : Events, copy : Nat]
TestObject(e) == [event |-> e, copy |-> 0]
NewObject(e, position) == [event |-> e, copy |-> position + 1]

Ids == {e.id : e \in Events}
Addressable(o) == o.event.kind = "addressable"
Addresses == {e.address : e \in {f \in Events : f.kind = "addressable"}}
Stored(es) == {es[p] : p \in DOMAIN es}
Only(es, P) == [p \in P |-> es[p]]

NoEvents == [p \in {} |-> {}]

TypeOK ==
  /\ nextOrder \in 0..MaxOrder
  /\ DOMAIN events \subseteq 0..(nextOrder - 1)
  /\ Stored(events) \subseteq Objects
  /\ deletedIds \subseteq Ids
  /\ indexed \subseteq Objects
  /\ DOMAIN latest \subseteq Addresses
  /\ \A a \in DOMAIN latest : latest[a] \in Objects
  /\ saved.nextOrder \in 0..MaxOrder
  /\ DOMAIN saved.store \subseteq 0..(saved.nextOrder - 1)
  /\ \A p \in DOMAIN saved.store : saved.store[p] \in Events
  /\ saved.deletedIds \subseteq Ids

Init ==
  /\ events = NoEvents
  /\ nextOrder = 0
  /\ deletedIds = {}
  /\ indexed = {}
  /\ latest = NoEvents
  /\ saved = [store |-> NoEvents, nextOrder |-> 0, deletedIds |-> {}]

-----------------------------------------------------------------------------
(***************************************************************************)
(* Indexes.                                                                *)
(***************************************************************************)

\* The id, kind, pubkey, tag and search indexes are sets of objects, and an object
\* enters or leaves all that concern it at once.
Reindexed(gone, new) == (indexed \ gone) \cup new

\* isPreferredLatest, and the test of #replaceEvent
Preferred(e, f) == e.created > f.created \/ (e.created = f.created /\ e.id < f.id)

\* #indexEvent's part for the two Maps: the entry changes if the new object wins.
WithLatest(map, o) ==
  LET a == o.event.address
  IN IF Addressable(o) /\ (a \in DOMAIN map => Preferred(o.event, map[a].event))
       THEN [b \in DOMAIN map \cup {a} |-> IF b = a THEN o ELSE map[b]]
       ELSE map

\* #unindexEvent's part: the entry goes if it is this very object.
WithoutLatest(map, o) ==
  [a \in {b \in DOMAIN map : map[b] # o} |-> map[a]]

\* The entries after #rebuildIndexes has indexed es from its first position on:
\* at each address the preferred object, the first one if it is there twice.
Positions(es, a) == {p \in DOMAIN es : Addressable(es[p]) /\ es[p].event.address = a}

Winner(es, a) ==
  CHOOSE p \in Positions(es, a) :
    \A q \in Positions(es, a) \ {p} :
      \/ Preferred(es[p].event, es[q].event)
      \/ p < q /\ ~Preferred(es[q].event, es[p].event)

\* (mutant) Rebuilding leaves the two Maps empty.
LatestForgotten(es) == NoEvents

LatestOf(es) ==
  [a \in {b \in Addresses : Positions(es, b) # {}} |-> es[Winner(es, a)]]

\* #rebuildIndexes over the events left.
Rebuild(es) ==
  /\ events' = es
  /\ indexed' = Stored(es)
  /\ latest' = LatestOf(es)

-----------------------------------------------------------------------------
(***************************************************************************)
(* store() and publish().                                                  *)
(***************************************************************************)

Appended(es, o) ==
  [p \in DOMAIN es \cup {nextOrder} |-> IF p = nextOrder THEN o ELSE es[p]]

AppendEvent(o) ==
  /\ events' = Appended(events, o)
  /\ nextOrder' = nextOrder + 1
  /\ indexed' = Reindexed({}, {o})
  /\ latest' = WithLatest(latest, o)
  /\ UNCHANGED deletedIds

\* (mutant) A deletion takes effect on anybody's events.
IdsOfAnyone(d) ==
  {o.event.id : o \in {x \in indexed : x.event.id \in d.eTags
                                         /\ x.event.created <= d.created}}

\* The targets of the e tags of a deletion, found in the id index ...
IdsByTag(d) ==
  {o.event.id : o \in {x \in indexed : /\ x.event.id \in d.eTags
                                       /\ x.event.pubkey = d.pubkey
                                       /\ x.event.created <= d.created}}

\* ... and of its a tags: the object the index has for the address.
IdsByAddress(d) ==
  {latest[a].event.id : a \in {b \in d.aTags \cap DOMAIN latest :
                                 /\ b.pubkey = d.pubkey
                                 /\ latest[b].event.created <= d.created}}

\* (mutant) The indexes are not rebuilt.
LatestUnchanged(ids, left) == latest

\* #handleDeletion rebuilds the indexes only if something is deleted.
LatestAfterDeletion(ids, left) == IF ids = {} THEN latest ELSE LatestOf(left)

\* #handleDeletion and the #appendEvent that follows it.
DeleteAndAppend(o) ==
  LET ids == IdsByTag(o.event) \cup IdsByAddress(o.event)
      left == Only(events, {p \in DOMAIN events : events[p].event.id \notin ids})
  IN /\ deletedIds' = deletedIds \cup ids
     /\ events' = Appended(left, o)
     /\ nextOrder' = nextOrder + 1
     /\ indexed' = {o} \cup (IF ids = {} THEN indexed ELSE Stored(left))
     /\ latest' = WithLatest(LatestAfterDeletion(ids, left), o)

\* #removeEvent takes the object's first place in the array and all its index
\* entries; #appendEvent adds the object that replaces it.
FirstPosition(o) ==
  CHOOSE p \in DOMAIN events :
    events[p] = o /\ \A q \in DOMAIN events : events[q] = o => p <= q

\* (mutant) The replaced object stays in the indexes.
ReplaceInArray(old, o) ==
  /\ events' = Appended(Only(events, DOMAIN events \ {FirstPosition(old)}), o)
  /\ nextOrder' = nextOrder + 1
  /\ indexed' = Reindexed({}, {o})
  /\ latest' = WithLatest(WithoutLatest(latest, old), o)
  /\ UNCHANGED deletedIds

Replace(old, o) ==
  /\ events' = Appended(Only(events, DOMAIN events \ {FirstPosition(old)}), o)
  /\ nextOrder' = nextOrder + 1
  /\ indexed' = Reindexed({old}, {o})
  /\ latest' = WithLatest(WithoutLatest(latest, old), o)
  /\ UNCHANGED deletedIds

\* (mutant) #classifyAndStore does not look at deletedIds.
NeverDeleted(e) == e.id \notin Ids

Deleted(e) == e.id \in deletedIds

\* #classifyAndStore, and the branch for kind 5 before it.
Keep(o) ==
  LET e == o.event
      current == e.kind = "addressable" /\ e.address \in DOMAIN latest
  IN \/ /\ e.kind = "deletion"
        /\ DeleteAndAppend(o)
     \/ /\ e.kind \in {"regular", "addressable"}
        /\ ~Deleted(e)
        /\ ~current
        /\ AppendEvent(o)
     \/ /\ current
        /\ ~Deleted(e)
        /\ Preferred(e, latest[e.address].event)
        /\ Replace(latest[e.address], o)
     \/ /\ \/ e.kind # "deletion" /\ Deleted(e)
           \/ e.kind = "ephemeral"
           \/ current /\ ~Preferred(e, latest[e.address].event)
        /\ UNCHANGED storeVars

Store(e) ==
  /\ nextOrder < MaxOrder
  /\ Keep(TestObject(e))
  /\ UNCHANGED saved

\* publish() blocks a deleted id whatever the kind; store() does not.
Publish(e) ==
  /\ nextOrder < MaxOrder
  /\ IF Deleted(e) THEN UNCHANGED storeVars ELSE Keep(NewObject(e, nextOrder))
  /\ UNCHANGED saved

-----------------------------------------------------------------------------
(***************************************************************************)
(* Maintenance.                                                            *)
(***************************************************************************)

ClearOlderThan(timestamp) ==
  LET left == Only(events, {p \in DOMAIN events : events[p].event.created >= timestamp})
  IN /\ IF DOMAIN left = DOMAIN events
          THEN UNCHANGED <<events, indexed, latest>>
          ELSE Rebuild(left)
     /\ UNCHANGED <<nextOrder, deletedIds, saved>>

Snapshot ==
  /\ nextOrder <= MaxSnapshot
  /\ saved' = [store |-> [p \in DOMAIN events |-> events[p].event],
               nextOrder |-> nextOrder, deletedIds |-> deletedIds]
  /\ UNCHANGED storeVars

\* The array ends where it did when the snapshot was taken.
OrderRestored == saved.nextOrder

\* Every event comes back as a new object.
RestoreSnapshot ==
  /\ Rebuild([p \in DOMAIN saved.store |-> NewObject(saved.store[p], p)])
  /\ nextOrder' = OrderRestored
  /\ deletedIds' = saved.deletedIds
  /\ UNCHANGED saved

Reset ==
  /\ events' = NoEvents
  /\ nextOrder' = 0
  /\ deletedIds' = {}
  /\ indexed' = {}
  /\ latest' = NoEvents
  /\ UNCHANGED saved

Next ==
  \/ \E e \in Events : Store(e) \/ Publish(e)
  \/ \E timestamp \in {e.created : e \in Events} : ClearOlderThan(timestamp)
  \/ Snapshot \/ RestoreSnapshot \/ Reset

Spec == Init /\ [][Next]_vars

-----------------------------------------------------------------------------
(***************************************************************************)
(* Properties.                                                             *)
(***************************************************************************)

\* The set indexes hold what the array holds, so a query answered from them
\* neither misses an event nor resurrects one.
IndexesMatchEvents == indexed = Stored(events)

\* An address has one event at most (replaceable and parameterized replaceable
\* events), however they arrived, were deleted, or came back from a snapshot.
OnePerAddress ==
  \A p, q \in DOMAIN events :
    /\ Addressable(events[p]) /\ Addressable(events[q])
    /\ events[p].event.address = events[q].event.address
    => p = q

\* The Map that replacement and a-tag deletion rely on points at exactly that
\* object. A missing or stale entry would let two versions live side by side.
LatestIsStored ==
  /\ \A a \in DOMAIN latest :
       latest[a] \in Stored(events) /\ Addressable(latest[a]) /\ latest[a].event.address = a
  /\ \A p \in DOMAIN events :
       Addressable(events[p]) =>
         /\ events[p].event.address \in DOMAIN latest
         /\ latest[events[p].event.address] = events[p]

\* What was deleted stays out, kind 5 events apart (store() appends those).
DeletedStayOut ==
  \A p \in DOMAIN events : events[p].event.id \in deletedIds => events[p].event.kind = "deletion"

\* The store behaves as the set of events of StoreContents, whose rules look at
\* all events and not at an index.
Contents == INSTANCE StoreContents WITH
  kept <- {events[p].event : p \in DOMAIN events},
  tombstones <- deletedIds,
  archive <- [kept |-> {saved.store[p] : p \in DOMAIN saved.store},
              tombstones |-> saved.deletedIds]

ImplementsContents == Contents!ContentsSpec

=============================================================================
