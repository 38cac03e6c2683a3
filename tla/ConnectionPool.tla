---------------------------- MODULE ConnectionPool ----------------------------
(***************************************************************************)
(* The functions of DatabaseService (app/services/database.py) between the *)
(* two resources they share: anyio's worker threads, handed out in the     *)
(* order of the requests, and the connections of the engine built in       *)
(* app/models/engine.py, which go to whichever thread asks first.  A       *)
(* thread that finds every connection taken blocks for pool_timeout and    *)
(* then fails with an error that _run_sync does not run again.             *)
(*                                                                         *)
(* A function is abstracted to its transactions; the rows they touch are   *)
(* in OperatorAccounts and TriageSessions.                                 *)
(***************************************************************************)
EXTENDS ThreadCall, FiniteSets, Sequences

CONSTANTS
  Threads,      (* tokens of anyio's default thread limiter                *)
  Capacity      (* POSTGRES_POOL_SIZE + POSTGRES_MAX_OVERFLOW              *)

ASSUME RequestsAssumption == IsFiniteSet(Requests)
ASSUME ThreadsAssumption == Threads \in Nat \ {0}
ASSUME CapacityAssumption == Capacity \in Nat \ {0}

Functions == {"read", "insert", "update", "delete", "probe"}
Writes == {"insert", "update", "delete"}

(* Functions that read their row again after the commit: a transaction,    *)
(* and a connection, of its own.                                           *)
Reloads == {"insert", "update"}

VARIABLES
  queue,        (* requests waiting for a thread, first come first served   *)
  function,     (* per request: the function it submitted last              *)
  place,        (* per request: where that function is                      *)
  reloading,    (* per request: its function has committed and reads again  *)
  effect,       (* per request: something it wrote has been committed       *)
  result        (* per request: how its function ended, "none" before that  *)

poolVars == <<callVars, queue, function, place, reloading, effect, result>>

Places == {"out", "queued", "asking", "blocked", "connected"}
Results == {"none", "ok", "missing", "unhealthy", "error"}

At(p) == {r \in Requests : place[r] = p}

Connected == At("connected")
Blocked == At("blocked")
InThread == At("asking") \cup Blocked \cup Connected

PoolTypeOK ==
  /\ CallTypeOK
  /\ queue \in Seq(Requests)
  /\ function \in [Requests -> Functions]
  /\ place \in [Requests -> Places]
  /\ reloading \in [Requests -> BOOLEAN]
  /\ effect \in [Requests -> BOOLEAN]
  /\ result \in [Requests -> Results]
  /\ Cardinality(InThread) <= Threads
  /\ Cardinality(Connected) <= Capacity

PoolInit ==
  /\ CallInit
  /\ queue = <<>>
  /\ function = [r \in Requests |-> "read"]
  /\ place = [r \in Requests |-> "out"]
  /\ reloading = [r \in Requests |-> FALSE]
  /\ effect = [r \in Requests |-> FALSE]
  /\ result = [r \in Requests |-> "none"]

-----------------------------------------------------------------------------

(* Mistake: each function gets a thread of its own. *)
RunInNewThread(r, f) ==
  /\ place[r] = "out"
  /\ ~asleep[r]
  /\ Submit(r)
  /\ function' = [function EXCEPT ![r] = f]
  /\ place' = [place EXCEPT ![r] = "asking"]
  /\ result' = [result EXCEPT ![r] = "none"]
  /\ UNCHANGED <<queue, reloading, effect>>

(* r awaits _run_sync(f): its function joins the queue for a thread. *)
Run(r, f) ==
  /\ place[r] = "out"
  /\ ~asleep[r]
  /\ Submit(r)
  /\ function' = [function EXCEPT ![r] = f]
  /\ place' = [place EXCEPT ![r] = "queued"]
  /\ queue' = Append(queue, r)
  /\ result' = [result EXCEPT ![r] = "none"]
  /\ UNCHANGED <<reloading, effect>>

Goes(r, p) ==
  /\ place' = [place EXCEPT ![r] = p]
  /\ UNCHANGED <<callVars, function, result>>

(* A thread is free for the first request in the queue. *)
TakeThread(r) ==
  /\ queue # <<>>
  /\ r = Head(queue)
  /\ Cardinality(InThread) < Threads
  /\ Goes(r, "asking")
  /\ queue' = Tail(queue)
  /\ UNCHANGED <<reloading, effect>>

(* Mistake: a pool that is used up lends one connection more. *)
ConnectionFreeAtTheLimit == Cardinality(Connected) <= Capacity

ConnectionFree == Cardinality(Connected) < Capacity

(* The thread opens its session and gets a connection. *)
Connect(r) ==
  /\ place[r] \in {"asking", "blocked"}
  /\ ConnectionFree
  /\ Goes(r, "connected")
  /\ UNCHANGED <<queue, reloading, effect>>

Block(r) ==
  /\ place[r] = "asking"
  /\ ~ConnectionFree
  /\ Goes(r, "blocked")
  /\ UNCHANGED <<queue, reloading, effect>>

(* The commit gives the connection back, and the refresh asks for another. *)
Commit(r) ==
  /\ place[r] = "connected"
  /\ function[r] \in Reloads
  /\ ~reloading[r]
  /\ Goes(r, "asking")
  /\ reloading' = [reloading EXCEPT ![r] = TRUE]
  /\ effect' = [effect EXCEPT ![r] = TRUE]
  /\ UNCHANGED queue

(* The function of r leaves its thread, and its connection is free again.  *)
Leaves(r, res) ==
  /\ place' = [place EXCEPT ![r] = "out"]
  /\ reloading' = [reloading EXCEPT ![r] = FALSE]
  /\ result' = [result EXCEPT ![r] = res]
  /\ UNCHANGED <<queue, function>>

(* It is not run again: _run_sync returns or raises. *)
Ends(r, res) ==
  /\ Leaves(r, res)
  /\ Submit(r)

(* It has read what it came for, or committed its DELETE. *)
Return(r) ==
  /\ place[r] = "connected"
  /\ function[r] \in Reloads => reloading[r]
  /\ Ends(r, "ok")
  /\ effect' = [effect EXCEPT ![r] = effect[r] \/ function[r] = "delete"]

(* The row to change is not there. *)
ReturnNothing(r) ==
  /\ place[r] = "connected"
  /\ function[r] \in {"update", "delete"}
  /\ ~reloading[r]
  /\ Ends(r, "missing")
  /\ UNCHANGED effect

(* The statement fails on the rows as they are now: a key that exists, a   *)
(* row that went since it was loaded, or since it was committed.           *)
Raise(r) ==
  /\ place[r] = "connected"
  /\ function[r] \in Reloads
  /\ Ends(r, "error")
  /\ UNCHANGED effect

(* An error the health check turns into False; every other function raises *)
(* it.                                                                     *)
Failure(r) == IF function[r] = "probe" THEN "unhealthy" ELSE "error"

(* Mistake: a blocked thread waits as long as it takes. *)
GiveUpNever(r) ==
  /\ place[r] = "blocked"
  /\ FALSE
  /\ Ends(r, Failure(r))
  /\ UNCHANGED effect

(* pool_timeout is over and no connection is there.  The error is not one  *)
(* of those _run_sync runs the function again for.                         *)
GiveUp(r) ==
  /\ place[r] = "blocked"
  /\ ~ConnectionFree
  /\ Ends(r, Failure(r))
  /\ UNCHANGED effect

(* The connection cannot be opened or breaks, and the function leaves its  *)
(* thread; the commit that was under way may have gone through.  The probe *)
(* catches the error itself.                                               *)
Disconnect(r) ==
  /\ place[r] = "connected"
  /\ \/ UNCHANGED effect
     \/ /\ function[r] \in Writes /\ ~reloading[r]
        /\ effect' = [effect EXCEPT ![r] = TRUE]
  /\ \/ function[r] = "probe" /\ Faulty /\ Ends(r, "unhealthy")
     \/ function[r] # "probe" /\ FailAndSleep(r) /\ Leaves(r, "none")
     \/ function[r] # "probe" /\ FailForGood(r) /\ Leaves(r, "error")

(* The pause of the retry is over: back into the queue. *)
RunAgain(r) ==
  /\ Wake(r)
  /\ place' = [place EXCEPT ![r] = "queued"]
  /\ queue' = Append(queue, r)
  /\ UNCHANGED <<function, reloading, effect, result>>

(* What r's function does once it has a thread. *)
InThreadStep(r) ==
  \/ Connect(r)
  \/ Block(r)
  \/ Commit(r)
  \/ Return(r)
  \/ ReturnNothing(r)
  \/ Raise(r)
  \/ GiveUp(r)
  \/ Disconnect(r)

PoolStep(r) == TakeThread(r) \/ InThreadStep(r) \/ RunAgain(r)

(* The request is over, and with it what its functions left behind. *)
Forget(r) ==
  /\ place[r] = "out"
  /\ ~asleep[r]
  /\ Submit(r)
  /\ function' = [function EXCEPT ![r] = "read"]
  /\ effect' = [effect EXCEPT ![r] = FALSE]
  /\ result' = [result EXCEPT ![r] = "none"]
  /\ UNCHANGED <<queue, place, reloading>>

PoolNext ==
  \E r \in Requests :
    \/ PoolStep(r)
    \/ Forget(r)
    \/ \E f \in Functions : Run(r, f)

PoolSpec == PoolInit /\ [][PoolNext]_poolVars

-----------------------------------------------------------------------------

(* However functions, commits, failures and retries interleave, at most    *)
(* Threads - Capacity threads are blocked on the pool at once (10 of 40    *)
(* with the settings' defaults), and none if there is a connection for     *)
(* every thread: a thread blocks only when all connections are in use by   *)
(* other threads.                                                          *)
WaitersBounded == Blocked = {} \/ Cardinality(Blocked) + Capacity <= Threads

=============================================================================
