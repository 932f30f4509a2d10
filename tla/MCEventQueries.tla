--------------------------- MODULE MCEventQueries ---------------------------
(***************************************************************************)
(* Events and filters for EventQueries: two notes, two versions of one     *)
(* profile and a deletion, with tags, texts and seconds in common, so that *)
(* every pair of conditions has overlapping answers, and filters with one  *)
(* condition, with several, with a limit and with a search.                *)
(***************************************************************************)
EXTENDS EventQueries

Address(pubkey) == [pubkey |-> pubkey, name |-> "profile"]

Make(id, kind, pubkey, created, tags, content) ==
  [id |-> id, kind |-> kind, pubkey |-> pubkey, created |-> created,
   address |-> Address(pubkey), eTags |-> {}, aTags |-> {}, tags |-> tags, content |-> content]

Note == Make(1, "regular", "alice", 1, {<<"t", "x">>}, "hello world")
Reply == Make(2, "regular", "bob", 2, {<<"t", "x">>, <<"t", "y">>, <<"p", "alice">>}, "hello")
Profile == Make(3, "addressable", "alice", 1, {}, "world")
Newest == Make(4, "addressable", "alice", 2, {<<"t", "y">>}, "hello world")
Gone == [Make(5, "deletion", "alice", 2, {}, "") EXCEPT !.eTags = {1}]

QueriedEvents == {Note, Reply, Profile, Newest, Gone}

Words ==
  [text \in {"hello world", "hello", "world", "hel", ""} |->
     IF text = "hello world" THEN {"hello", "world"}
     ELSE IF text = "" THEN {} ELSE {text}]

Parts ==
  {<<text, text>> : text \in DOMAIN Words} \cup {<<text, "">> : text \in DOMAIN Words}
    \cup {<<"hello world", "hello">>, <<"hello world", "world">>,
          <<"hello world", "hel">>, <<"hello", "hel">>}

Everything ==
  [ids |-> {}, authors |-> {}, kinds |-> {}, since |-> {}, until |-> {}, limit |-> {},
   search |-> {}, tags |-> [name \in {"t"} |-> {}]]

ByTag(t, p) == [name \in {"t", "p"} |-> IF name = "t" THEN t ELSE p]

Requested ==
  {<<Everything>>,
   <<[Everything EXCEPT !.limit = {2}],
     [Everything EXCEPT !.limit = {-1}, !.until = {1}]>>,
   <<[Everything EXCEPT !.kinds = {"regular"}, !.until = {1}, !.limit = {1}]>>,
   <<[Everything EXCEPT !.limit = {0}, !.kinds = {"regular"}],
     [Everything EXCEPT !.ids = {{1, 2}, {4}}, !.authors = {{"alice"}}]>>,
   <<[Everything EXCEPT !.authors = {{"alice"}, {"alice", "bob"}}, !.limit = {1}],
     [Everything EXCEPT !.authors = {{"alice"}}, !.kinds = {"regular", "addressable"},
                        !.tags = ByTag({"x", "y"}, {})]>>,
   <<[Everything EXCEPT !.kinds = {"regular"}, !.tags = ByTag({"x"}, {"alice"})],
     [Everything EXCEPT !.kinds = {"addressable"}, !.since = {2}]>>,
   <<[Everything EXCEPT !.search = {"hello"}, !.limit = {1}],
     [Everything EXCEPT !.search = {"hello world"}, !.authors = {{"alice"}}]>>,
   <<[Everything EXCEPT !.search = {"hel"}],
     [Everything EXCEPT !.search = {""}, !.kinds = {"regular"}, !.limit = {2}]>>}
=============================================================================
