---------------------------- MODULE MCEventStore ----------------------------
(***************************************************************************)
(* A small population of events for EventStore: three versions of one      *)
(* addressable event, two of them of the same second; a regular event; a   *)
(* deletion by address that is older than the later versions, a deletion   *)
(* by id that reaches that deletion as well, and one by somebody else; and *)
(* an ephemeral event.                                                     *)
(***************************************************************************)
EXTENDS EventStore

Address(pubkey) == [pubkey |-> pubkey, name |-> "profile"]

Make(id, kind, pubkey, created, eTags, aTags) ==
  [id |-> id, kind |-> kind, pubkey |-> pubkey, created |-> created,
   address |-> Address(pubkey), eTags |-> eTags, aTags |-> aTags]

Old == Make(1, "addressable", "alice", 1, {}, {})
NewA == Make(2, "addressable", "alice", 2, {}, {})
NewB == Make(3, "addressable", "alice", 2, {}, {})
Note == Make(4, "regular", "alice", 1, {}, {})
ByAddress == Make(5, "deletion", "alice", 1, {}, {Address("alice")})
ById == Make(6, "deletion", "alice", 2, {2, 4, 5}, {})
Stranger == Make(7, "deletion", "bob", 2, {1, 4}, {Address("alice")})
Typing == Make(8, "ephemeral", "alice", 2, {}, {})

AllEvents == {Old, NewA, NewB, Note, ByAddress, ById, Stranger, Typing}
=============================================================================
