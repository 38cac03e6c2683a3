----------------------------- MODULE SessionStore -----------------------------
(***************************************************************************)
(* What the session table promises: a session is created once, renamed     *)
(* only while it lives, and gone for good once deleted.  One exception is  *)
(* part of the promise: a session deleted before its creation is over may  *)
(* be created again.  TriageSessions, where each of these takes several    *)
(* steps that interleave, fail and are repeated, implements it.            *)
(***************************************************************************)

CONSTANTS Sessions, Names   (* no name is "unborn" or "dead" *)

VARIABLE session   (* per session: its name while it lives, else why not   *)

Init == session = [s \in Sessions |-> "unborn"]

Lives(s) == session[s] \in Names

Becomes(s, v) == session' = [session EXCEPT ![s] = v]

Create(s, n) == session[s] = "unborn" /\ Becomes(s, n)

Rename(s, n) == Lives(s) /\ Becomes(s, n)

Delete(s) == Lives(s) /\ Becomes(s, "dead")

(* Deleted while its creation is under way, ... *)
Withdraw(s) == Lives(s) /\ Becomes(s, "unborn")

(* ... which then ends without it. *)
Abandon(s) == session[s] = "unborn" /\ Becomes(s, "dead")

Next ==
  \E s \in Sessions :
    \/ Delete(s) \/ Withdraw(s) \/ Abandon(s)
    \/ \E n \in Names : Create(s, n) \/ Rename(s, n)

Spec == Init /\ [][Next]_session

=============================================================================
