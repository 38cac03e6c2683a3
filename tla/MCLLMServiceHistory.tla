-------------------------- MODULE MCLLMServiceHistory --------------------------
(* Small instances of LLMServiceHistory for TLC. *)
EXTENDS LLMServiceHistory, TLC

CONSTANTS a, b, u, none

TwoCallers == {a, b}
OneUnlisted == {u}

(* The triage graph never pins a model. *)
GraphPins == {none}

(* call lets a caller pin any name, registered or not. *)
EveryPin == {none, u} \cup (0 .. NumModels - 1)

CallerSymmetry == Permutations(Callers)

=============================================================================
