-------------------------- MODULE MCRelayRequests ---------------------------
(***************************************************************************)
(* Messages for RelayRequests, built from the events and filters of        *)
(* MCEventQueries: one of each type, one without a signature, one of an    *)
(* unknown type, and ones that are at or over a limit the test may set.    *)
(***************************************************************************)
EXTENDS RelayRequests, MCEventQueries

Wrap == Make(6, "ephemeral", "bob", 2, {<<"t", "x">>}, "")

RelayEvents == {Note, Gone, Wrap}

Raw(items) == [length |-> 100, json |-> TRUE, items |-> items]
Text(text) == [is |-> "string", text |-> text, bytes |-> 1]
Event(e) == [is |-> "object", valid |-> EventFields, tags |-> Cardinality(e.tags),
             bytes |-> 10, event |-> e]
Unsigned(e) == [Event(e) EXCEPT !.valid = EventFields \ {"sig"}]
Filter(f) == [is |-> "object", valid |-> {}, filter |-> f, compiles |-> TRUE]
Limited(f, n) == [is |-> "object", valid |-> {}, limit |-> n, compiles |-> TRUE,
                  filter |-> [f EXCEPT !.limit = {n}]]
\* {"search": null}
NotCompiling == [is |-> "object", valid |-> {}, compiles |-> FALSE, filter |-> Everything]

Bobs == [Everything EXCEPT !.authors = {{"bob"}}]
Notes == [Everything EXCEPT !.kinds = {"regular"}]

SearchedFilters == {<<Everything>>, <<Bobs>>}

CONSTANTS s1, s2

\* A subscriber ...
Subscribers ==
  {Raw(<<Text("REQ"), Text("a"), Filter(Everything)>>),
   Raw(<<Text("REQ"), Text("a"), Filter(Bobs), Filter(Notes)>>),
   Raw(<<Text("REQ"), Text("b"), NotCompiling>>),
   Raw(<<Text("CLOSE"), Text("a")>>),
   Raw(<<Text("COUNT"), Text("a"), Limited(Everything, 1)>>)}

\* ... and a publisher. (The deletion comes from the test, by store().)
Publishers ==
  {Raw(<<Text("EVENT"), Event(Note)>>),
   Raw(<<Text("EVENT"), Event(Wrap)>>),
   Raw(<<Text("REQ"), Text("a"), Filter(Everything)>>),
   Raw(<<Text("AUTH"), Event(Note)>>),
   Raw(<<Text("EVENT"), Unsigned(Note)>>),
   Raw(<<Text("PING")>>)}

TwoClients == s1 :> Subscribers @@ s2 :> Publishers

SomeLimits == {[max_limit |-> 1, max_event_tags |-> 0, max_content_length |-> -1]}

Results == {<<Note>>}
=============================================================================
