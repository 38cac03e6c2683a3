-------------------------- MODULE MCOperatorAccounts --------------------------
(* Small instances of OperatorAccounts for TLC. *)
EXTENDS OperatorAccounts

CONSTANTS r1, r2, ann, plain, amp

TwoRequests == {r1, r2}
OneAddress == {ann}

PlainAndSpecial == {plain, amp}
SpecialOnly == {amp}

=============================================================================
