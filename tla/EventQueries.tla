---------------------------- MODULE EventQueries ----------------------------
(***************************************************************************)
(* The queries of the event store: query, queryMany and count of           *)
(* src/src/relay/event_store.ts with the filters and the collection        *)
(* strategies of src/src/relay/filter_compiler.ts, and filterEvents of     *)
(* src/src/filter.ts. A query changes nothing: the store is EventStore's,  *)
(* and the properties are stated in each of its states, of every filter.   *)
(*                                                                         *)
(* A query either scans the array or, when the filter names ids, authors,  *)
(* kinds, tags or search words, takes the objects the indexes have for     *)
(* them, intersects the smallest of these sets with the next ones while    *)
(* that pays, and matches what is left. Both ways have to give the same    *)
(* answer.                                                                 *)
(*                                                                         *)
(* A prefix stands for the set of the ids (or pubkeys) that start with it, *)
(* and an optional field of a filter is a set of at most one value. Texts  *)
(* are compared after normalizeSearchText: two of them by Includes, the    *)
(* words of one by TokensOf. A query answers with objects; the snapshots   *)
(* query() and the clones of snapshot() are equal to them.                 *)
(***************************************************************************)
EXTENDS EventStore, Integers, Sequences, SequencesExt

CONSTANTS
  Requests,    \* the lists of filters asked for, each of one REQ or COUNT; a
               \* filter is a record with the fields of Matches
  TokensOf,    \* tokenizeSearchText: text -> the set of its words
  Includes,    \* String.includes: pairs of a text and a part of it
  StopFloor,   \* #getIntersectionStopSize's 64 ...
  StopFactor   \* ... and its 4; smaller, for stores of a few events

Filters == UNION {ToSet(fs) : fs \in Requests}

\* A filter has at most one limit, and finitely many tag names.
IsFilter(f) ==
  /\ f.search \subseteq DOMAIN TokensOf
  /\ f.limit \subseteq Int
  /\ \A m, n \in f.limit : m = n
  /\ IsFiniteSet(DOMAIN f.tags)

ASSUME QueryAssumption ==
  /\ \A e \in Events : e.content \in DOMAIN TokensOf
  /\ \A fs \in Requests : fs \in Seq(ToSet(fs))
  /\ \A f \in Filters : IsFilter(f)
  /\ StopFloor \in Nat /\ StopFactor \in Nat

-----------------------------------------------------------------------------
(***************************************************************************)
(* compileFilter.                                                          *)
(***************************************************************************)

\* An empty list of tag values asks for nothing, and so does a negative limit.
TagNames(f) == {name \in DOMAIN f.tags : f.tags[name] # {}}

Limit(f) == {n \in f.limit : n >= 0}

SearchTokens(f) == UNION {TokensOf[text] : text \in f.search}

\* matches() and matchFilter: every condition that is there holds.
Matches(e, f) ==
  /\ f.ids = {} \/ \E prefix \in f.ids : e.id \in prefix
  /\ f.authors = {} \/ \E prefix \in f.authors : e.pubkey \in prefix
  /\ f.kinds = {} \/ e.kind \in f.kinds
  /\ \A t \in f.since : e.created >= t
  /\ \A t \in f.until : e.created <= t
  /\ \A text \in f.search : TokensOf[text] = {} \/ <<e.content, text>> \in Includes
  /\ \A name \in TagNames(f) : \E value \in f.tags[name] : <<name, value>> \in e.tags

-----------------------------------------------------------------------------
(***************************************************************************)
(* Collecting the matches in order. A candidate, an event with its order   *)
(* number, is the position in the array that the number stands for.        *)
(***************************************************************************)

\* A finite set in the order Before: what a sort makes of it. (SetToSortSeq rests on
\* SortSeq, which no proof can look into.)
Arranged(S, Before(_, _)) ==
  [i \in 1..Cardinality(S) |-> CHOOSE x \in S : Cardinality({y \in S : Before(y, x)}) = i - 1]

\* compareOrderedEvents: newest first, then in the order of the store.
Newer(p, q) ==
  LET e == events[p].event  g == events[q].event
  IN e.created > g.created \/ (e.created = g.created /\ p < q)

NewestFirst(positions) == Arranged(positions, Newer)

\* #toOrderedCandidates: the order numbers given by the last #appendEvent of each
\* object, or by #rebuildIndexes.
IndexCandidates(objects) == {Max({p \in DOMAIN events : events[p] = o}) : o \in objects}

Matching(positions, f) == {p \in positions : Matches(events[p].event, f)}

ObjectsOf(positions) == [i \in DOMAIN positions |-> events[positions[i]]]

\* (mutant) A candidate goes in after the ones that are not newer.
InsertAtEnd(top, p, n) == IF Len(top) = n THEN top ELSE Append(top, p)

\* The insertion of one candidate into the n best so far.
InsertTop(top, p, n) ==
  IF Len(top) = n /\ ~Newer(p, Last(top))
    THEN top
    ELSE LET later == {i \in DOMAIN top : Newer(p, top[i])}
             i == IF later = {} THEN Len(top) + 1 ELSE Min(later)
         IN SubSeq(InsertAt(top, i, p), 1, Min({n, Len(top) + 1}))

\* The n best of the array, which is walked from its first position to its last.
Top(f, n) ==
  LET top[p \in 0..nextOrder] ==
        IF p = 0 THEN <<>>
        ELSE IF p - 1 \in Matching(DOMAIN events, f) THEN InsertTop(top[p - 1], p - 1, n)
        ELSE top[p - 1]
  IN top[nextOrder]

\* collectMatchingEvents, filterEvents and the query without an index: everything is
\* sorted, or the best are kept.
FilterEvents(f) ==
  ObjectsOf(IF Limit(f) = {} THEN NewestFirst(Matching(DOMAIN events, f))
            ELSE LET n == CHOOSE n \in Limit(f) : TRUE
                 IN IF n = 0 THEN <<>> ELSE Top(f, n))

\* (mutant) The first candidates are taken whether or not they match.
CollectThenMatch(candidates, f) ==
  LET size == Min(Limit(f) \cup {Cardinality(candidates)})
      first == {NewestFirst(candidates)[i] : i \in 1..size}
  IN ObjectsOf(NewestFirst(Matching(first, f)))

\* collectMatchingEventsFromOrderedEvents over candidates that are sorted already: it
\* stops at the limit.
CollectSorted(candidates, f) ==
  LET matching == Matching(candidates, f)
  IN ObjectsOf(SubSeq(NewestFirst(matching), 1, Min(Limit(f) \cup {Cardinality(matching)})))

-----------------------------------------------------------------------------
(***************************************************************************)
(* #buildCandidateSelectionPlan.                                           *)
(***************************************************************************)

\* #lookupIdCandidates, #lookupAuthorCandidates, #lookupKindCandidates: no set at
\* all if the filter has no such condition.
IdSelection(f) ==
  IF f.ids = {} THEN <<>> ELSE <<{o \in indexed : o.event.id \in UNION f.ids}>>

AuthorSelection(f) ==
  IF f.authors = {} THEN <<>> ELSE <<{o \in indexed : o.event.pubkey \in UNION f.authors}>>

KindSelection(f) ==
  IF f.kinds = {} THEN <<>> ELSE <<{o \in indexed : o.event.kind \in f.kinds}>>

\* (mutant) One set for all the tag conditions together.
AnyTagSelection(f) ==
  IF TagNames(f) = {} THEN <<>>
  ELSE <<{o \in indexed : \E name \in TagNames(f) :
            {<<name, value>> : value \in f.tags[name]} \subseteq o.event.tags}>>

\* #lookupTagCandidates: one set for each tag name.
TagSelections(f) ==
  LET names == SetToSeq(TagNames(f))
  IN [i \in DOMAIN names |->
        {o \in indexed : \E value \in f.tags[names[i]] : <<names[i], value>> \in o.event.tags}]

\* #lookupSearchCandidates: the objects that have each word of the search.
SearchSelection(f) ==
  IF SearchTokens(f) = {} THEN <<>>
  ELSE <<{o \in indexed : SearchTokens(f) \subseteq TokensOf[o.event.content]}>>

Selections(f) ==
  IdSelection(f) \o AuthorSelection(f) \o KindSelection(f) \o TagSelections(f)
    \o SearchSelection(f)

\* #getIntersectionStopSize
StopSize(f) == Max({n * StopFactor : n \in Limit(f)} \cup {StopFloor})

Length == Cardinality(DOMAIN events)

\* #shouldIntersectFurther: the estimate is rounded up, half the size down.
ShouldIntersect(size, other, f) ==
  Length > 0 /\ (size * other + Length - 1) \div Length <= Max({StopSize(f), size \div 2})

\* #intersectOrderedCandidates
Intersection(objects, selection) ==
  IF Cardinality(selection) >= Length THEN objects ELSE objects \cap selection

\* The loop over the selections, from the smallest on: a break ends it.
Narrow(plan, selection, f) ==
  IF \/ plan.done
     \/ Cardinality(plan.objects) <= StopSize(f)
     \/ ~ShouldIntersect(Cardinality(plan.objects), Cardinality(selection), f)
    THEN [plan EXCEPT !.done = TRUE]
    ELSE [plan EXCEPT !.objects = Intersection(@, selection)]

\* The selections by size, and among those of one size as they were found.
BySize(found) ==
  LET Size(i) == Cardinality(found[i])
      Smaller(i, j) == Size(i) < Size(j) \/ (Size(i) = Size(j) /\ i < j)
      order == Arranged(DOMAIN found, Smaller)
  IN [k \in DOMAIN found |-> found[order[k]]]

Plan(f) == BySize(Selections(f))

\* The candidates, or no answer ({}) if the array has to be scanned.
NarrowAll(plan, f) ==
  LET narrowed[k \in 1..Len(plan)] ==
        IF k = 1 THEN [objects |-> plan[1], done |-> FALSE] ELSE Narrow(narrowed[k - 1], plan[k], f)
  IN IF plan = <<>> \/ (plan[1] # {} /\ Cardinality(plan[1]) >= Length)
       THEN {} ELSE {narrowed[Len(plan)].objects}

Narrowed(f) == NarrowAll(Plan(f), f)

\* #queryCompiled
Query(f) ==
  IF Narrowed(f) = {} THEN FilterEvents(f)
  ELSE CollectSorted(IndexCandidates(UNION Narrowed(f)), f)

-----------------------------------------------------------------------------
(***************************************************************************)
(* queryMany and count, for the filters of one REQ or COUNT.               *)
(***************************************************************************)

Id(o) == o.event.id

\* The results of the filters one after the other. (As a mutant of QueryMany: what two
\* filters find is sent twice.)
Concatenated(fs) ==
  LET found[k \in 0..Len(fs)] == IF k = 0 THEN <<>> ELSE found[k - 1] \o Query(fs[k])
  IN found[Len(fs)]

\* Each id once, where it comes first.
EachOnce(found) ==
  LET firsts == {i \in DOMAIN found : \A j \in 1..(i - 1) : Id(found[j]) # Id(found[i])}
      order == Arranged(firsts, <)
  IN [k \in DOMAIN order |-> found[order[k]]]

QueryMany(fs) == EachOnce(Concatenated(fs))

\* collectMatchingIdsForCount: nothing is sorted unless there is a limit.
IdsForCount(f) ==
  IF Limit(f) = {} THEN {Id(o) : o \in {x \in Stored(events) : Matches(x.event, f)}}
  ELSE {Id(o) : o \in ToSet(FilterEvents(f))}

\* #countCompiled
CountedIds(f) ==
  IF Narrowed(f) = {} THEN IdsForCount(f)
  ELSE {Id(o) : o \in ToSet(CollectSorted(IndexCandidates(UNION Narrowed(f)), f))}

Count(fs) == Cardinality(UNION {CountedIds(fs[i]) : i \in DOMAIN fs})

-----------------------------------------------------------------------------
(***************************************************************************)
(* Properties.                                                             *)
(***************************************************************************)

\* No object is in the array twice: store() was not called again with an event the
\* store holds already.
EachStoredOnce == \A p, q \in DOMAIN events : events[p] = events[q] => p = q

\* The words of a search are whole words of every text that includes it.
WholeWords(f) ==
  \A text \in f.search, e \in Events :
    <<e.content, text>> \in Includes => TokensOf[text] \subseteq TokensOf[e.content]

\* What a filter asks for: the matching objects, newest first, the earlier stored
\* first among those of one second, as many as the limit allows.
Answer(f) ==
  LET matching == {p \in DOMAIN events : Matches(events[p].event, f)}
      Before(p, q) == \/ events[p].event.created > events[q].event.created
                      \/ events[p].event.created = events[q].event.created /\ p < q
      place(p) == 1 + Cardinality({q \in matching : Before(q, p)})
      size == Min(Limit(f) \cup {Cardinality(matching)})
  IN [i \in 1..size |-> events[CHOOSE p \in matching : place(p) = i]]

\* Whatever indexes, intersections and early stops a query takes, it answers as
\* the filter asks: narrowing loses no event and adds none, and limit keeps the
\* newest, after any history of replacement, deletion and restoring.
QueryIsExact ==
  EachStoredOnce => \A f \in Filters : WholeWords(f) => Query(f) = Answer(f)

\* With a search for a part of a word, or an object stored twice, an answer is
\* still made of stored events that match, newest first, within the limit.
QueryIsSound ==
  \A f \in Filters :
    LET found == Query(f) IN
    /\ \A i \in DOMAIN found : found[i] \in Stored(events) /\ Matches(found[i].event, f)
    /\ \A i, j \in DOMAIN found : i < j => found[i].event.created >= found[j].event.created
    /\ \A n \in Limit(f) : Len(found) <= n

\* COUNT agrees with the REQ of the same filters, although it takes other
\* shortcuts: it counts the events that REQ would send, each of them once.
CountIsQueryLength == \A fs \in Requests : Count(fs) = Len(QueryMany(fs))

=============================================================================
