------------------------------ MODULE ThreadCall ------------------------------
(***************************************************************************)
(* DatabaseService._run_sync of app/services/database.py: a transaction is *)
(* a function run in a worker thread; if it fails with a connection error  *)
(* the whole function is run again after a pause, a bounded number of      *)
(* times.  The modules that EXTEND this one say what the function does.    *)
(*                                                                         *)
(* Connection errors come from outside, at any run of any function.        *)
(***************************************************************************)
EXTENDS Naturals

CONSTANTS
  Requests,     (* HTTP requests that may be handled at the same time       *)
  MaxTries,     (* stop_after_attempt of _run_sync                          *)
  Faulty        (* whether connections to the database may break at all     *)

ASSUME MaxTriesAssumption == MaxTries \in Nat \ {0}
ASSUME FaultyAssumption == Faulty \in BOOLEAN

VARIABLES
  try,          (* per request: number of the current run of its function   *)
  asleep        (* per request: it is between two runs                      *)

callVars == <<try, asleep>>

CallTypeOK ==
  /\ try \in [Requests -> 1 .. MaxTries]
  /\ asleep \in [Requests -> BOOLEAN]

CallInit ==
  /\ try = [r \in Requests |-> 1]
  /\ asleep = [r \in Requests |-> FALSE]

(* A new function goes to the threads. *)
Submit(r) ==
  /\ try' = [try EXCEPT ![r] = 1]
  /\ asleep' = [asleep EXCEPT ![r] = FALSE]

(* Mistake: it is run again however often it has failed. *)
FailAndAlwaysSleep(r) ==
  /\ ~asleep[r]
  /\ Faulty
  /\ asleep' = [asleep EXCEPT ![r] = TRUE]
  /\ UNCHANGED try

(* The running function of r fails on the connection and will be run again. *)
FailAndSleep(r) ==
  /\ ~asleep[r]
  /\ Faulty
  /\ try[r] < MaxTries
  /\ asleep' = [asleep EXCEPT ![r] = TRUE]
  /\ UNCHANGED try

(* It fails on the connection for the last time: the error goes to the     *)
(* endpoint.                                                               *)
FailForGood(r) ==
  /\ ~asleep[r]
  /\ Faulty
  /\ try[r] = MaxTries
  /\ UNCHANGED <<try, asleep>>

(* Mistake: the attempts are not counted. *)
WakeUncounted(r) ==
  /\ asleep[r]
  /\ asleep' = [asleep EXCEPT ![r] = FALSE]
  /\ UNCHANGED try

(* The pause is over: the function runs again. *)
Wake(r) ==
  /\ asleep[r]
  /\ asleep' = [asleep EXCEPT ![r] = FALSE]
  /\ try' = [try EXCEPT ![r] = try[r] + 1]

=============================================================================
