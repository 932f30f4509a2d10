--------------------------- MODULE StoreContents ---------------------------
(***************************************************************************)
(* What a relay's event store holds, as NIP-01 and NIP-09 would have it    *)
(* said: a set of events and the ids deleted from it, with no arrays, no   *)
(* indexes and no object identity. Every rule looks at the whole set.      *)
(* EventStore implements it.                                               *)
(***************************************************************************)
EXTENDS Naturals

CONSTANT Events   \* see EventStore

VARIABLES
  kept,        \* the events held
  tombstones,  \* ids of events that were deleted
  archive      \* the contents at the last snapshot

contentsVars == <<kept, tombstones, archive>>

ContentsInit ==
  /\ kept = {}
  /\ tombstones = {}
  /\ archive = [kept |-> {}, tombstones |-> {}]

\* Of two versions of an addressable event the later one is current, and of two
\* of the same second the one with the smaller id.
Supersedes(e, f) == e.created > f.created \/ (e.created = f.created /\ e.id < f.id)

SameAddress(f, e) == f.kind = "addressable" /\ f.address = e.address

Add(e) ==
  /\ e.kind \in {"regular", "addressable"}
  /\ e.id \notin tombstones
  /\ e.kind = "addressable" => \A f \in kept : SameAddress(f, e) => Supersedes(e, f)
  /\ kept' = {e} \cup (IF e.kind = "addressable"
                         THEN {f \in kept : ~SameAddress(f, e)}
                         ELSE kept)
  /\ UNCHANGED <<tombstones, archive>>

\* A deletion reaches the events of its author that are not newer than itself,
\* by id or by address, and is kept as well.
Reaches(d, f) ==
  /\ f.pubkey = d.pubkey
  /\ f.created <= d.created
  /\ f.id \in d.eTags \/ (f.kind = "addressable" /\ f.address \in d.aTags)

Delete(d) ==
  /\ d.kind = "deletion"
  /\ kept' = {d} \cup {f \in kept : ~Reaches(d, f)}
  /\ tombstones' = tombstones \cup {f.id : f \in {g \in kept : Reaches(d, g)}}
  /\ UNCHANGED archive

Expire(timestamp) ==
  /\ kept' = {f \in kept : f.created >= timestamp}
  /\ UNCHANGED <<tombstones, archive>>

Save ==
  /\ archive' = [kept |-> kept, tombstones |-> tombstones]
  /\ UNCHANGED <<kept, tombstones>>

Load ==
  /\ kept' = archive.kept
  /\ tombstones' = archive.tombstones
  /\ UNCHANGED archive

Clear ==
  /\ kept' = {}
  /\ tombstones' = {}
  /\ UNCHANGED archive

ContentsNext ==
  \/ \E e \in Events : Add(e) \/ Delete(e)
  \/ \E timestamp \in {e.created : e \in Events} : Expire(timestamp)
  \/ Save \/ Load \/ Clear

ContentsSpec == ContentsInit /\ [][ContentsNext]_contentsVars
=============================================================================
