----------------------------- MODULE MCMockPool -----------------------------
(* Requests to fetch, and symmetry, for model-checking MockPool. *)
EXTENDS MockPool, TLC

CONSTANTS p1, p2, h

Symmetry == Permutations(Pools)

Accept(value) == [name |-> "accept", value |-> value]
UserAgent == [name |-> "user-agent", value |-> "nostr"]

Headers == {<<>>, <<Accept("nostr")>>, <<UserAgent, Accept("nostr")>>, <<Accept("html")>>}

FetchedUrls == [scheme : {"https", "http"}, host : {h}, slashes : {0, 1}]

SomeRequests ==
  [url : FetchedUrls, headers : Headers, init : {{}} \cup {{headers} : headers \in Headers \ {<<>>}}]

ASSUME AcceptNamedOnce
=============================================================================
