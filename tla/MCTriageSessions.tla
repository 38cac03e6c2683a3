--------------------------- MODULE MCTriageSessions ---------------------------
(* Small instances of TriageSessions for TLC. *)
EXTENDS TriageSessions

CONSTANTS r1, r2, s1, s2

TwoRequests == {r1, r2}
OneSession == {s1}
TwoSessions == {s1, s2}

=============================================================================
