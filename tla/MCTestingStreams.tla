-------------------------- MODULE MCTestingStreams --------------------------
(* A list and two generators for model-checking TestingStreams. *)
EXTENDS TestingStreams

CONSTANTS list, counted, endless
=============================================================================
