----------------------------- MODULE MCRequestPath -----------------------------
(* A small instance of RequestPath for TLC. *)
EXTENDS RequestPath

CONSTANTS r1, r2, r3, home

ThreeRequests == {r1, r2, r3}
OneAddress == {home}

(* An operator who renames sessions, a newcomer who also looks whether the *)
(* service is there, and a monitor.                                        *)
OneEach ==
  [r \in Requests |-> CASE r = r1 -> {"rename"}
                       [] r = r2 -> {"register", "health"}
                       [] OTHER -> {"health"}]

=============================================================================
