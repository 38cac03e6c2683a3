----------------------------- MODULE MCHealthProbe -----------------------------
(* Small instances of HealthProbe for TLC. *)
EXTENDS HealthProbe

CONSTANTS a, b, p, none

TwoCallers == {a, b}
OneProbe == {p}
GraphPins == {none}

=============================================================================
