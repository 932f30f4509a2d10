-------------------------- MODULE MCMockWebSocket --------------------------
(* Constants and symmetry for model-checking MockWebSocket. *)
EXTENDS MockWebSocket, TLC

Symmetry == Permutations(Sockets)
=============================================================================
