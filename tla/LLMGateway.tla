------------------------------ MODULE LLMGateway ------------------------------
(***************************************************************************)
(* What the LLM service promises its callers, without models, attempts or  *)
(* a clock: a gate that is open or shut, calls that are admitted only      *)
(* through an open gate and refused only by a shut one, and a gate that    *)
(* shuts only when a second admitted call fails with no answer since the   *)
(* first.  LLMService implements it.                                       *)
(***************************************************************************)
EXTENDS Naturals

CONSTANT Callers

VARIABLES
  gate,     (* "open" lets calls in, "shut" refuses them                   *)
  streak,   (* failed calls since the last answer, counted up to two       *)
  status    (* per caller: what has become of its latest call              *)

vars == <<gate, streak, status>>

Statuses == {"none", "pending", "answered", "failed", "refused", "aborted"}

Init ==
  /\ gate = "open"
  /\ streak = 0
  /\ status = [c \in Callers |-> "none"]

(* Set what has become of c's call. *)
Becomes(c, s) == status' = [status EXCEPT ![c] = s]

Pending(c) == status[c] = "pending"

(* A call is let in, or fails before it is sent; either may be the first   *)
(* one since the gate opened again, which forgets the earlier failures.    *)
Admit(c) ==
  /\ ~Pending(c)
  /\ gate = "open"
  /\ Becomes(c, "pending") \/ Becomes(c, "aborted")
  /\ streak' \in {streak, 0}
  /\ UNCHANGED gate

Refuse(c) ==
  /\ ~Pending(c)
  /\ gate = "shut"
  /\ Becomes(c, "refused")
  /\ UNCHANGED <<gate, streak>>

Answer(c) ==
  /\ Pending(c)
  /\ Becomes(c, "answered")
  /\ streak' = 0
  /\ UNCHANGED gate

Fail(c) ==
  /\ Pending(c)
  /\ Becomes(c, "failed")
  /\ streak' = IF streak = 0 THEN 1 ELSE 2
  /\ gate' = IF streak = 0 THEN gate ELSE "shut"

Abort(c) ==
  /\ Pending(c)
  /\ Becomes(c, "aborted")
  /\ UNCHANGED <<gate, streak>>

Reopen ==
  /\ gate = "shut"
  /\ gate' = "open"
  /\ UNCHANGED <<streak, status>>

Finish(c) == Answer(c) \/ Fail(c) \/ Abort(c)

Next ==
  \/ \E c \in Callers : Admit(c) \/ Refuse(c) \/ Finish(c)
  \/ Reopen

Spec == Init /\ [][Next]_vars

(* Every admitted call ends and every shut gate reopens, whether or not    *)
(* anybody calls again.                                                    *)
FairSpec ==
  /\ Spec
  /\ \A c \in Callers : WF_vars(Finish(c))
  /\ WF_vars(Reopen)

=============================================================================
