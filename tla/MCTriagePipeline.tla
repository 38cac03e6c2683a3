--------------------------- MODULE MCTriagePipeline ---------------------------
(* Small instances of TriagePipeline for TLC. *)
EXTENDS TriagePipeline

CONSTANTS a, b, none

TwoRequests == {a, b}

(* The graph never pins a model. *)
GraphPins == {none}

=============================================================================
