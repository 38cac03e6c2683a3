------------------------- MODULE ConnectionPool_proofs -------------------------
(***************************************************************************)
(* Theorems about ConnectionPool for any number of requests, threads,      *)
(* connections and runs of a function.                                     *)
(***************************************************************************)
EXTENDS ConnectionPool, FiniteSetTheorems, TLAPS

USE RequestsAssumption, ThreadsAssumption, CapacityAssumption,
    MaxTriesAssumption, FaultyAssumption

(* A sleeping function has runs left. *)
SleepersMayRun == \A r \in Requests : asleep[r] => try[r] < MaxTries

(* It is in no thread and in no queue, and a queued function is queued     *)
(* once.                                                                   *)
SleepersOut == \A r \in Requests : asleep[r] => place[r] = "out"

QueuedOnce ==
  /\ \A i \in 1 .. Len(queue) : place[queue[i]] = "queued"
  /\ \A i, j \in 1 .. Len(queue) : queue[i] = queue[j] => i = j

PoolInv == PoolTypeOK /\ SleepersMayRun /\ SleepersOut /\ QueuedOnce /\ WaitersBounded

-----------------------------------------------------------------------------
(* Sizes of finite sets.                                                   *)

LEMMA SmallerSet ==
  ASSUME NEW S, IsFiniteSet(S), NEW T, T \subseteq S
  PROVE  Cardinality(T) \in Nat /\ Cardinality(T) <= Cardinality(S)
BY FS_Subset, FS_CardinalityType

LEMMA OneMore ==
  ASSUME NEW S, IsFiniteSet(S), NEW x
  PROVE  /\ IsFiniteSet(S \cup {x})
         /\ Cardinality(S) \in Nat
         /\ Cardinality(S \cup {x}) \in Nat
         /\ Cardinality(S \cup {x}) <= Cardinality(S) + 1
<1>1. Cardinality(S) \in Nat
  BY FS_CardinalityType
<1>2. /\ IsFiniteSet(S \cup {x})
      /\ Cardinality(S \cup {x}) = Cardinality(S) \/ Cardinality(S \cup {x}) = Cardinality(S) + 1
  BY FS_AddElement
<1> QED
  BY <1>1, <1>2

LEMMA DisjointUnion ==
  ASSUME NEW S, IsFiniteSet(S), NEW T, IsFiniteSet(T), S \cap T = {}
  PROVE  Cardinality(S \cup T) = Cardinality(S) + Cardinality(T)
<1>1. Cardinality(S) \in Nat /\ Cardinality(T) \in Nat
  BY FS_CardinalityType
<1>2. Cardinality(S \cap T) = 0
  BY FS_EmptySet
<1>3. Cardinality(S \cup T) = Cardinality(S) + Cardinality(T) - Cardinality(S \cap T)
  BY FS_Union
<1> QED
  BY <1>1, <1>2, <1>3

-----------------------------------------------------------------------------
(* What a step does to the places.                                         *)

(* A step moves at most one function, and only as the two limits allow. *)
Moves(r) ==
  \/ place' = [place EXCEPT ![r] = "out"]
  \/ place' = [place EXCEPT ![r] = "queued"]
  \/ /\ place' = [place EXCEPT ![r] = "asking"]
     /\ place[r] = "connected" \/ Cardinality(InThread) < Threads
  \/ /\ place' = [place EXCEPT ![r] = "connected"]
     /\ place[r] \in {"asking", "blocked"}
     /\ ConnectionFree
  \/ /\ place' = [place EXCEPT ![r] = "blocked"]
     /\ place[r] = "asking"
     /\ ~ConnectionFree

LEMMA StepMoves ==
  ASSUME PoolTypeOK, [PoolNext]_poolVars
  PROVE  place' = place \/ \E r \in Requests : Moves(r)
<1>1. ASSUME NEW r \in Requests, TakeThread(r) PROVE Moves(r)
  BY <1>1 DEF TakeThread, Goes, Moves
<1>2. ASSUME NEW r \in Requests, Connect(r) \/ Block(r) \/ Commit(r) PROVE Moves(r)
  BY <1>2 DEF Connect, Block, Commit, Goes, Moves
<1>3. ASSUME NEW r \in Requests,
             Return(r) \/ ReturnNothing(r) \/ Raise(r) \/ GiveUp(r) \/ Disconnect(r)
      PROVE  Moves(r)
  BY <1>3 DEF Return, ReturnNothing, Raise, GiveUp, Disconnect, Ends, Leaves, Moves
<1>4. ASSUME NEW r \in Requests, RunAgain(r) \/ \E f \in Functions : Run(r, f) PROVE Moves(r)
  BY <1>4 DEF RunAgain, Run, Moves
<1>5. ASSUME NEW r \in Requests, Forget(r) PROVE place' = place
  BY <1>5 DEF Forget
<1>6. CASE UNCHANGED poolVars
  BY <1>6 DEF poolVars
<1> QED
  BY <1>1, <1>2, <1>3, <1>4, <1>5, <1>6 DEF PoolNext, PoolStep, InThreadStep

LEMMA SetsFinite ==
  /\ IsFiniteSet(InThread) /\ Cardinality(InThread) \in Nat
  /\ IsFiniteSet(Connected) /\ Cardinality(Connected) \in Nat
  /\ IsFiniteSet(Blocked) /\ Cardinality(Blocked) \in Nat
<1>1. InThread \subseteq Requests /\ Connected \subseteq Requests /\ Blocked \subseteq Requests
  BY DEF InThread, Connected, Blocked, At
<1> QED
  BY <1>1, FS_Subset, FS_CardinalityType

(* The functions that hold a connection and those that are blocked are in  *)
(* different threads.                                                      *)
LEMMA HoldersAndWaiters ==
  Cardinality(Connected) + Cardinality(Blocked) <= Cardinality(InThread)
<1>1. Connected \cap Blocked = {}
  BY DEF Connected, Blocked, At
<1>2. Cardinality(Connected \cup Blocked) = Cardinality(Connected) + Cardinality(Blocked)
  BY <1>1, SetsFinite, DisjointUnion
<1>3. Connected \cup Blocked \subseteq InThread
  BY DEF InThread
<1> QED
  BY <1>2, <1>3, SetsFinite, FS_Subset

LEMMA FewerWaiters ==
  ASSUME WaitersBounded, Blocked' \subseteq Blocked
  PROVE  WaitersBounded'
<1>1. Cardinality(Blocked') \in Nat /\ Cardinality(Blocked') <= Cardinality(Blocked)
  BY SetsFinite, SmallerSet
<1>2. CASE Blocked = {}
  BY <1>2 DEF WaitersBounded
<1>3. CASE Cardinality(Blocked) + Capacity <= Threads
  <2>1. Cardinality(Blocked') + Capacity <= Threads
    BY <1>1, <1>3, SetsFinite
  <2> QED
    BY <2>1 DEF WaitersBounded
<1> QED
  BY <1>2, <1>3 DEF WaitersBounded

(* The three limits survive a move. *)
LEMMA MoveKeepsLimits ==
  ASSUME PoolInv, NEW r \in Requests, Moves(r)
  PROVE  /\ Cardinality(InThread)' <= Threads
         /\ Cardinality(Connected)' <= Capacity
         /\ WaitersBounded'
<1> /\ place \in [Requests -> Places]
    /\ Cardinality(InThread) <= Threads
    /\ Cardinality(Connected) <= Capacity
    /\ WaitersBounded
  BY DEF PoolInv, PoolTypeOK
<1> Threads \in Nat /\ Capacity \in Nat
  BY ThreadsAssumption, CapacityAssumption
<1>1. CASE place' = [place EXCEPT ![r] = "out"] \/ place' = [place EXCEPT ![r] = "queued"]
  <2>1. InThread' \subseteq InThread /\ Connected' \subseteq Connected /\ Blocked' \subseteq Blocked
    BY <1>1 DEF InThread, Connected, Blocked, At
  <2>2. /\ Cardinality(InThread') \in Nat /\ Cardinality(InThread') <= Cardinality(InThread)
        /\ Cardinality(Connected') \in Nat /\ Cardinality(Connected') <= Cardinality(Connected)
    BY <2>1, SetsFinite, SmallerSet
  <2> QED
    BY <2>1, <2>2, SetsFinite, FewerWaiters
<1>2. CASE /\ place' = [place EXCEPT ![r] = "asking"]
           /\ place[r] = "connected" \/ Cardinality(InThread) < Threads
  <2>1. InThread' \subseteq InThread \cup {r} /\ Connected' \subseteq Connected /\ Blocked' \subseteq Blocked
    BY <1>2 DEF InThread, Connected, Blocked, At
  <2>2. place[r] = "connected" => InThread' \subseteq InThread
    BY <1>2 DEF InThread, Connected, Blocked, At
  <2>3. /\ IsFiniteSet(InThread \cup {r})
        /\ Cardinality(InThread \cup {r}) \in Nat
        /\ Cardinality(InThread \cup {r}) <= Cardinality(InThread) + 1
    BY SetsFinite, OneMore
  <2>4. ASSUME place[r] = "connected" PROVE Cardinality(InThread') <= Threads
    <3>1. Cardinality(InThread') \in Nat /\ Cardinality(InThread') <= Cardinality(InThread)
      BY <2>2, <2>4, SetsFinite, SmallerSet
    <3> QED
      BY <3>1, SetsFinite
  <2>5. ASSUME Cardinality(InThread) < Threads PROVE Cardinality(InThread') <= Threads
    <3>1. /\ Cardinality(InThread') \in Nat
          /\ Cardinality(InThread') <= Cardinality(InThread \cup {r})
      BY <2>1, <2>3, SmallerSet
    <3> QED
      BY <2>3, <2>5, <3>1, SetsFinite
  <2>6. Cardinality(InThread') <= Threads
    BY <1>2, <2>4, <2>5
  <2>7. Cardinality(Connected') \in Nat /\ Cardinality(Connected') <= Cardinality(Connected)
    BY <2>1, SetsFinite, SmallerSet
  <2> QED
    BY <2>1, <2>6, <2>7, SetsFinite, FewerWaiters
<1>3. CASE /\ place' = [place EXCEPT ![r] = "connected"]
           /\ place[r] \in {"asking", "blocked"}
           /\ ConnectionFree
  <2>1. InThread' = InThread /\ Connected' = Connected \cup {r} /\ Blocked' \subseteq Blocked
    BY <1>3 DEF InThread, Connected, Blocked, At
  <2>2. Cardinality(Connected') <= Capacity
    <3>1. /\ Cardinality(Connected \cup {r}) <= Cardinality(Connected) + 1
          /\ Cardinality(Connected \cup {r}) \in Nat
      BY SetsFinite, OneMore
    <3> QED
      BY <1>3, <2>1, <3>1, SetsFinite DEF ConnectionFree
  <2> QED
    BY <2>1, <2>2, FewerWaiters
<1>4. CASE /\ place' = [place EXCEPT ![r] = "blocked"]
           /\ place[r] = "asking"
           /\ ~ConnectionFree
  <2>1. InThread' = InThread /\ Connected' = Connected
    BY <1>4 DEF InThread, Connected, Blocked, At
  <2>2. Connected' \cap Blocked' = {} /\ Connected' \cup Blocked' \subseteq InThread'
    BY <1>4 DEF InThread, Connected, Blocked, At
  <2>3. Blocked' \subseteq InThread'
    BY <2>2
  <2>4. IsFiniteSet(Blocked') /\ Cardinality(Blocked') \in Nat
    BY <2>1, <2>3, SetsFinite, FS_Subset, FS_CardinalityType
  <2>5. Cardinality(Connected') + Cardinality(Blocked') <= Cardinality(InThread')
    <3>1. Cardinality(Connected' \cup Blocked') = Cardinality(Connected') + Cardinality(Blocked')
      BY <2>1, <2>2, <2>4, SetsFinite, DisjointUnion
    <3> QED
      BY <2>1, <2>2, <3>1, SetsFinite, FS_Subset
  <2>6. Cardinality(Connected) >= Capacity
    BY <1>4, SetsFinite DEF ConnectionFree
  <2> QED
    BY <2>1, <2>4, <2>5, <2>6, SetsFinite DEF WaitersBounded
<1> QED
  BY <1>1, <1>2, <1>3, <1>4 DEF Moves

-----------------------------------------------------------------------------
(* The invariant.                                                          *)

LEMMA PoolInitially ==
  ASSUME PoolInit
  PROVE  PoolInv
<1>1. CallTypeOK /\ SleepersMayRun /\ SleepersOut
  BY MaxTriesAssumption DEF PoolInit, CallInit, CallTypeOK, SleepersMayRun, SleepersOut
<1>6. QueuedOnce
  BY DEF PoolInit, QueuedOnce
<1>2. InThread = {} /\ Connected = {} /\ Blocked = {}
  BY DEF PoolInit, InThread, Connected, Blocked, At
<1>3. Cardinality(InThread) = 0 /\ Cardinality(Connected) = 0
  BY <1>2, FS_EmptySet
<1>4. Cardinality(InThread) <= Threads /\ Cardinality(Connected) <= Capacity
  BY <1>3, ThreadsAssumption, CapacityAssumption
<1>5. /\ queue \in Seq(Requests)
      /\ function \in [Requests -> Functions]
      /\ place \in [Requests -> Places]
      /\ reloading \in [Requests -> BOOLEAN]
      /\ effect \in [Requests -> BOOLEAN]
      /\ result \in [Requests -> Results]
  BY DEF PoolInit, Functions, Places, Results
<1> QED
  BY <1>1, <1>2, <1>4, <1>5, <1>6 DEF PoolInv, PoolTypeOK, WaitersBounded

(* The runs of a function stay within MaxTries. *)
LEMMA CallKept ==
  ASSUME PoolInv, [PoolNext]_poolVars
  PROVE  CallTypeOK' /\ SleepersMayRun'
<1> /\ try \in [Requests -> 1 .. MaxTries]
    /\ asleep \in [Requests -> BOOLEAN]
    /\ SleepersMayRun
    /\ MaxTries \in Nat \ {0}
  BY MaxTriesAssumption DEF PoolInv, PoolTypeOK, CallTypeOK
<1>1. ASSUME UNCHANGED callVars PROVE CallTypeOK' /\ SleepersMayRun'
  BY <1>1 DEF callVars, CallTypeOK, SleepersMayRun
<1>2. ASSUME NEW r \in Requests, Submit(r) PROVE CallTypeOK' /\ SleepersMayRun'
  BY <1>2 DEF Submit, CallTypeOK, SleepersMayRun
<1>3. ASSUME NEW r \in Requests, FailAndSleep(r) PROVE CallTypeOK' /\ SleepersMayRun'
  BY <1>3 DEF FailAndSleep, CallTypeOK, SleepersMayRun
<1>4. ASSUME NEW r \in Requests, Wake(r) PROVE CallTypeOK' /\ SleepersMayRun'
  BY <1>4 DEF Wake, CallTypeOK, SleepersMayRun
<1>5. ASSUME NEW r \in Requests, TakeThread(r) \/ Connect(r) \/ Block(r) \/ Commit(r)
      PROVE  UNCHANGED callVars
  BY <1>5 DEF TakeThread, Connect, Block, Commit, Goes
<1>6. ASSUME NEW r \in Requests,
             \/ Return(r) \/ ReturnNothing(r) \/ Raise(r) \/ GiveUp(r) \/ Forget(r)
             \/ \E f \in Functions : Run(r, f)
      PROVE  Submit(r)
  BY <1>6 DEF Return, ReturnNothing, Raise, GiveUp, Forget, Run, Ends
<1>7. ASSUME NEW r \in Requests, Disconnect(r)
      PROVE  Submit(r) \/ FailAndSleep(r) \/ UNCHANGED callVars
  BY <1>7 DEF Disconnect, Ends, FailForGood, callVars
<1>8. ASSUME NEW r \in Requests, RunAgain(r) PROVE Wake(r)
  BY <1>8 DEF RunAgain
<1>9. CASE UNCHANGED poolVars
  BY <1>1, <1>9 DEF poolVars
<1> QED
  BY <1>1, <1>2, <1>3, <1>4, <1>5, <1>6, <1>7, <1>8, <1>9
     DEF PoolNext, PoolStep, InThreadStep

LEMMA FieldsKept ==
  ASSUME PoolTypeOK, [PoolNext]_poolVars
  PROVE  /\ queue' \in Seq(Requests)
         /\ function' \in [Requests -> Functions]
         /\ place' \in [Requests -> Places]
         /\ reloading' \in [Requests -> BOOLEAN]
         /\ effect' \in [Requests -> BOOLEAN]
         /\ result' \in [Requests -> Results]
<1> DEFINE Typed == /\ queue \in Seq(Requests)
                    /\ function \in [Requests -> Functions]
                    /\ place \in [Requests -> Places]
                    /\ reloading \in [Requests -> BOOLEAN]
                    /\ effect \in [Requests -> BOOLEAN]
                    /\ result \in [Requests -> Results]
<1> Typed
  BY DEF PoolTypeOK
<1>1. ASSUME NEW r \in Requests, TakeThread(r) PROVE Typed'
  <2>1. Tail(queue) \in Seq(Requests)
    BY <1>1 DEF TakeThread
  <2> QED
    BY <1>1, <2>1 DEF TakeThread, Goes, Places
<1>2. ASSUME NEW r \in Requests, Connect(r) \/ Block(r) \/ Commit(r) PROVE Typed'
  BY <1>2 DEF Connect, Block, Commit, Goes, Places
<1>3. ASSUME NEW r \in Requests, NEW res \in Results, Leaves(r, res),
             effect' \in [Requests -> BOOLEAN]
      PROVE  Typed'
  BY <1>3 DEF Leaves, Places
<1>4. ASSUME NEW r \in Requests, Return(r) \/ ReturnNothing(r) \/ Raise(r) \/ GiveUp(r)
      PROVE  Typed'
  <2>1. effect' \in [Requests -> BOOLEAN]
    BY <1>4 DEF Return, ReturnNothing, Raise, GiveUp
  <2>2. \E res \in Results : Leaves(r, res)
    BY <1>4 DEF Return, ReturnNothing, Raise, GiveUp, Ends, Failure, Results
  <2> QED
    BY <1>3, <2>1, <2>2
<1>5. ASSUME NEW r \in Requests, Disconnect(r) PROVE Typed'
  <2>1. effect' \in [Requests -> BOOLEAN]
    BY <1>5 DEF Disconnect
  <2>2. \E res \in Results : Leaves(r, res)
    BY <1>5 DEF Disconnect, Ends, Results
  <2> QED
    BY <1>3, <2>1, <2>2
<1>6. ASSUME NEW r \in Requests, RunAgain(r) \/ \E f \in Functions : Run(r, f)
      PROVE  Typed'
  <2>1. Append(queue, r) \in Seq(Requests)
    OBVIOUS
  <2> QED
    BY <1>6, <2>1 DEF RunAgain, Run, Places, Results
<1>7. ASSUME NEW r \in Requests, Forget(r) PROVE Typed'
  BY <1>7 DEF Forget, Functions, Results
<1>8. CASE UNCHANGED poolVars
  BY <1>8 DEF poolVars
<1> QED
  BY <1>1, <1>2, <1>4, <1>5, <1>6, <1>7, <1>8 DEF PoolNext, PoolStep, InThreadStep

LEMMA SleepersStayOut ==
  ASSUME PoolInv, [PoolNext]_poolVars
  PROVE  SleepersOut'
<1> /\ asleep \in [Requests -> BOOLEAN]
    /\ place \in [Requests -> Places]
    /\ SleepersOut
  BY DEF PoolInv, PoolTypeOK, CallTypeOK
<1>1. ASSUME NEW r \in Requests, TakeThread(r) PROVE SleepersOut'
  <2>1. place[r] = "queued"
    BY <1>1 DEF TakeThread, PoolInv, PoolTypeOK, QueuedOnce
  <2> QED
    BY <1>1, <2>1 DEF TakeThread, Goes, callVars, SleepersOut
<1>2. ASSUME NEW r \in Requests, Connect(r) \/ Block(r) \/ Commit(r) PROVE SleepersOut'
  BY <1>2 DEF Connect, Block, Commit, Goes, callVars, SleepersOut
<1>3. ASSUME NEW r \in Requests, Return(r) \/ ReturnNothing(r) \/ Raise(r) \/ GiveUp(r)
      PROVE  SleepersOut'
  BY <1>3 DEF Return, ReturnNothing, Raise, GiveUp, Ends, Leaves, Submit, SleepersOut
<1>4. ASSUME NEW r \in Requests, Disconnect(r) PROVE SleepersOut'
  BY <1>4 DEF Disconnect, Ends, Leaves, Submit, FailAndSleep, FailForGood, SleepersOut
<1>5. ASSUME NEW r \in Requests, RunAgain(r) \/ Forget(r) \/ \E f \in Functions : Run(r, f)
      PROVE  SleepersOut'
  BY <1>5 DEF RunAgain, Forget, Run, Submit, Wake, SleepersOut
<1>6. CASE UNCHANGED poolVars
  BY <1>6 DEF poolVars, callVars, SleepersOut
<1> QED
  BY <1>1, <1>2, <1>3, <1>4, <1>5, <1>6 DEF PoolNext, PoolStep, InThreadStep

LEMMA QueueKept ==
  ASSUME PoolInv, [PoolNext]_poolVars
  PROVE  QueuedOnce'
<1> /\ queue \in Seq(Requests)
    /\ asleep \in [Requests -> BOOLEAN]
    /\ place \in [Requests -> Places]
    /\ SleepersOut
    /\ QueuedOnce
  BY DEF PoolInv, PoolTypeOK, CallTypeOK
<1>1. ASSUME NEW r \in Requests, TakeThread(r) PROVE QueuedOnce'
  <2>1. /\ Len(queue) > 0 /\ r = queue[1]
        /\ queue' = Tail(queue)
        /\ place' = [place EXCEPT ![r] = "asking"]
    BY <1>1 DEF TakeThread, Goes
  <2>2. /\ Len(Tail(queue)) = Len(queue) - 1
        /\ \A i \in 1 .. Len(Tail(queue)) : Tail(queue)[i] = queue[i + 1]
    BY <2>1
  <2> QED
    BY <2>1, <2>2 DEF QueuedOnce
<1>2. ASSUME NEW r \in Requests, place[r] # "queued", UNCHANGED queue,
             NEW p \in Places, place' = [place EXCEPT ![r] = p]
      PROVE  QueuedOnce'
  BY <1>2 DEF QueuedOnce
<1>3. ASSUME NEW r \in Requests, InThreadStep(r) PROVE QueuedOnce'
  <2>1. place[r] # "queued" /\ UNCHANGED queue
    BY <1>3 DEF InThreadStep, Connect, Block, Commit, Return, ReturnNothing, Raise,
                GiveUp, Disconnect, Goes, Ends, Leaves
  <2>2. \E p \in Places : place' = [place EXCEPT ![r] = p]
    BY <1>3 DEF InThreadStep, Connect, Block, Commit, Return, ReturnNothing, Raise,
                GiveUp, Disconnect, Goes, Ends, Leaves, Places
  <2> QED
    BY <1>2, <2>1, <2>2
<1>4. ASSUME NEW r \in Requests, place[r] = "out",
             queue' = Append(queue, r), place' = [place EXCEPT ![r] = "queued"]
      PROVE  QueuedOnce'
  <2>1. /\ Len(queue') = Len(queue) + 1
        /\ queue'[Len(queue) + 1] = r
        /\ \A i \in 1 .. Len(queue) : queue'[i] = queue[i]
    BY <1>4
  <2> QED
    BY <1>4, <2>1 DEF QueuedOnce
<1>5. ASSUME NEW r \in Requests, RunAgain(r) PROVE QueuedOnce'
  <2>1. place[r] = "out"
    BY <1>5 DEF RunAgain, Wake, SleepersOut
  <2> QED
    BY <1>4, <1>5, <2>1 DEF RunAgain
<1>6. ASSUME NEW r \in Requests, NEW f \in Functions, Run(r, f) PROVE QueuedOnce'
  BY <1>4, <1>6 DEF Run
<1>7. ASSUME UNCHANGED <<queue, place>> PROVE QueuedOnce'
  BY <1>7 DEF QueuedOnce
<1>8. ASSUME NEW r \in Requests, Forget(r) PROVE UNCHANGED <<queue, place>>
  BY <1>8 DEF Forget
<1>9. CASE UNCHANGED poolVars
  BY <1>7, <1>9 DEF poolVars
<1> QED
  BY <1>1, <1>3, <1>5, <1>6, <1>7, <1>8, <1>9 DEF PoolNext, PoolStep

LEMMA PoolKept ==
  ASSUME PoolInv, [PoolNext]_poolVars
  PROVE  PoolInv'
<1>1. CallTypeOK' /\ SleepersMayRun' /\ SleepersOut' /\ QueuedOnce'
  BY CallKept, SleepersStayOut, QueueKept
<1>2. PoolTypeOK
  BY DEF PoolInv
<1>3. CASE place' = place
  <2>1. InThread' = InThread /\ Connected' = Connected /\ Blocked' = Blocked
    BY <1>3 DEF InThread, Connected, Blocked, At
  <2> QED
    BY <1>1, <1>2, <2>1, FieldsKept DEF PoolInv, PoolTypeOK, WaitersBounded
<1>4. ASSUME NEW r \in Requests, Moves(r) PROVE PoolInv'
  BY <1>1, <1>2, <1>4, FieldsKept, MoveKeepsLimits DEF PoolInv, PoolTypeOK
<1> QED
  BY <1>2, <1>3, <1>4, StepMoves

(* Whatever functions are run, fail and are run again, every variable has  *)
(* its type, no more than Threads functions are in threads and no more     *)
(* than Capacity of them hold connections of the engine.                   *)
THEOREM PoolTypeCorrect == PoolSpec => []PoolTypeOK
<1>1. PoolInv /\ [PoolNext]_poolVars => PoolInv'
  BY PoolKept
<1>2. PoolInv => PoolTypeOK
  BY DEF PoolInv
<1> QED
  BY PoolInitially, <1>1, <1>2, PTL DEF PoolSpec

(* At most Threads - Capacity threads wait for a connection at a time.     *)
THEOREM PoolWaiters == PoolSpec => []WaitersBounded
<1>1. PoolInv /\ [PoolNext]_poolVars => PoolInv'
  BY PoolKept
<1>2. PoolInv => WaitersBounded
  BY DEF PoolInv
<1> QED
  BY PoolInitially, <1>1, <1>2, PTL DEF PoolSpec

(* An engine with a connection for every thread never lets a thread wait.  *)
THEOREM EnoughConnections ==
  ASSUME Threads <= Capacity
  PROVE  PoolSpec => [](Blocked = {})
<1>1. PoolInv /\ [PoolNext]_poolVars => PoolInv'
  BY PoolKept
<1>2. ASSUME PoolInv PROVE Blocked = {}
  <2>1. CASE Cardinality(Blocked) + Capacity <= Threads
    <3>1. Cardinality(Blocked) = 0
      BY <2>1, SetsFinite, ThreadsAssumption, CapacityAssumption
    <3> QED
      BY <3>1, SetsFinite, FS_EmptySet
  <2> QED
    BY <1>2, <2>1 DEF PoolInv, WaitersBounded
<1> QED
  BY PoolInitially, <1>1, <1>2, PTL DEF PoolSpec

-----------------------------------------------------------------------------
(* How long a function can take.                                           *)

(* The steps one run of r's function has still to take: to a thread, to a  *)
(* connection with or without blocking for it, to its commit, and as much  *)
(* again, but for the thread, to read its row back.                        *)
RunLeft(r) ==
  IF place[r] = "out" THEN 0
  ELSE IF place[r] = "queued" THEN 7
  ELSE (IF reloading[r] THEN 0 ELSE 3)
       + (IF place[r] = "asking" THEN 3 ELSE IF place[r] = "blocked" THEN 2 ELSE 1)

FunctionLeft ==
  [r \in Requests |-> IF place[r] = "out" /\ ~asleep[r] THEN 0
                      ELSE 8 * (MaxTries - try[r]) + RunLeft(r)]

LEMMA FunctionLeftBounds ==
  ASSUME PoolInv, NEW r \in Requests
  PROVE  /\ FunctionLeft[r] \in 0 .. 8 * MaxTries - 1
         /\ FunctionLeft[r] = 0 <=> place[r] = "out" /\ ~asleep[r]
<1>1. /\ try[r] \in 1 .. MaxTries /\ asleep[r] \in BOOLEAN /\ place[r] \in Places
      /\ asleep[r] => try[r] < MaxTries /\ place[r] = "out"
      /\ MaxTries \in Nat \ {0}
  BY DEF PoolInv, PoolTypeOK, CallTypeOK, SleepersMayRun, SleepersOut
<1>2. RunLeft(r) \in 0 .. 7 /\ (RunLeft(r) = 0 <=> place[r] = "out")
  BY <1>1 DEF RunLeft, Places
<1>3. CASE place[r] = "out" /\ ~asleep[r]
  BY <1>1, <1>3 DEF FunctionLeft
<1>4. CASE place[r] # "out" \/ asleep[r]
  <2>1. FunctionLeft[r] = 8 * (MaxTries - try[r]) + RunLeft(r)
    BY <1>4 DEF FunctionLeft
  <2>2. MaxTries - try[r] >= 1 \/ RunLeft(r) >= 1
    BY <1>1, <1>2, <1>4
  <2>3. /\ MaxTries - try[r] \in 0 .. MaxTries - 1
        /\ RunLeft(r) \in 0 .. 7
    BY <1>1, <1>2
  <2>4. FunctionLeft[r] \in 1 .. 8 * MaxTries - 1
    BY <1>1, <2>1, <2>2, <2>3
  <2> QED
    BY <1>4, <2>4
<1> QED
  BY <1>3, <1>4

LEMMA FunctionRunsDown ==
  ASSUME PoolInv, NEW r \in Requests, PoolStep(r)
  PROVE  FunctionLeft'[r] < FunctionLeft[r]
<1>1. /\ try \in [Requests -> 1 .. MaxTries] /\ try[r] \in 1 .. MaxTries
      /\ asleep \in [Requests -> BOOLEAN] /\ place \in [Requests -> Places]
      /\ reloading \in [Requests -> BOOLEAN] /\ queue \in Seq(Requests)
      /\ asleep[r] => try[r] < MaxTries /\ place[r] = "out"
      /\ MaxTries \in Nat \ {0}
  BY DEF PoolInv, PoolTypeOK, CallTypeOK, SleepersMayRun, SleepersOut
<1> USE DEF RunLeft
<1>2. CASE TakeThread(r)
  <2>1. place[r] = "queued"
    BY <1>2 DEF TakeThread, PoolInv, QueuedOnce
  <2> QED
    BY <1>1, <1>2, <2>1 DEF TakeThread, Goes, callVars, FunctionLeft
<1>3. CASE Connect(r) \/ Block(r)
  BY <1>1, <1>3 DEF Connect, Block, Goes, callVars, FunctionLeft
<1>4. CASE Commit(r)
  BY <1>1, <1>4 DEF Commit, Goes, callVars, FunctionLeft
<1>5. ASSUME NEW res, Ends(r, res), place[r] \in {"connected", "blocked"}
      PROVE  FunctionLeft'[r] < FunctionLeft[r]
  <2>1. FunctionLeft'[r] = 0
    BY <1>1, <1>5 DEF Ends, Leaves, Submit, FunctionLeft
  <2> QED
    BY <1>5, <2>1, FunctionLeftBounds
<1>6. ASSUME NEW res, FailAndSleep(r), Leaves(r, res), place[r] = "connected"
      PROVE  FunctionLeft'[r] < FunctionLeft[r]
  BY <1>1, <1>6 DEF FailAndSleep, Leaves, FunctionLeft
<1>7. ASSUME NEW res, FailForGood(r), Leaves(r, res), place[r] = "connected"
      PROVE  FunctionLeft'[r] < FunctionLeft[r]
  BY <1>1, <1>7 DEF FailForGood, Leaves, FunctionLeft
<1>8. CASE RunAgain(r)
  BY <1>1, <1>8 DEF RunAgain, Wake, FunctionLeft
<1>9. CASE Return(r) \/ ReturnNothing(r) \/ Raise(r) \/ GiveUp(r)
  BY <1>5, <1>9 DEF Return, ReturnNothing, Raise, GiveUp
<1>10. CASE Disconnect(r)
  BY <1>5, <1>6, <1>7, <1>10 DEF Disconnect
<1> QED
  BY <1>2, <1>3, <1>4, <1>8, <1>9, <1>10 DEF PoolStep, InThreadStep

LEMMA OtherFunctionsStay ==
  ASSUME PoolTypeOK, NEW r \in Requests, NEW q \in Requests \ {r},
         PoolStep(r) \/ Forget(r) \/ \E f \in Functions : Run(r, f)
  PROVE  FunctionLeft'[q] = FunctionLeft[q]
<1>1. /\ try \in [Requests -> 1 .. MaxTries] /\ asleep \in [Requests -> BOOLEAN]
      /\ place \in [Requests -> Places] /\ reloading \in [Requests -> BOOLEAN]
  BY DEF PoolTypeOK, CallTypeOK
<1>2. /\ place'[q] = place[q] /\ try'[q] = try[q]
      /\ asleep'[q] = asleep[q] /\ reloading'[q] = reloading[q]
  <2>1. CASE TakeThread(r) \/ Connect(r) \/ Block(r) \/ Commit(r)
    BY <1>1, <2>1 DEF TakeThread, Connect, Block, Commit, Goes, callVars
  <2>2. CASE Return(r) \/ ReturnNothing(r) \/ Raise(r) \/ GiveUp(r)
    BY <1>1, <2>2 DEF Return, ReturnNothing, Raise, GiveUp, Ends, Leaves, Submit
  <2>3. CASE Disconnect(r)
    BY <1>1, <2>3 DEF Disconnect, Ends, Leaves, Submit, FailAndSleep, FailForGood
  <2>4. CASE RunAgain(r) \/ Forget(r) \/ \E f \in Functions : Run(r, f)
    BY <1>1, <2>4 DEF RunAgain, Wake, Forget, Run, Submit
  <2> QED
    BY <2>1, <2>2, <2>3, <2>4 DEF PoolStep, InThreadStep
<1> QED
  BY <1>2 DEF FunctionLeft, RunLeft

(* A function ends within 8 * MaxTries - 1 steps and pauses of its own,    *)
(* waits for threads and connections among them: each uses one up, and     *)
(* nothing another function does gives it any.                             *)
THEOREM FunctionsRunDown ==
  PoolSpec =>
    /\ [](\A r \in Requests : /\ FunctionLeft[r] \in 0 .. 8 * MaxTries - 1
                              /\ FunctionLeft[r] = 0 <=> place[r] = "out" /\ ~asleep[r])
    /\ [][\A r \in Requests :
            /\ PoolStep(r) => FunctionLeft'[r] < FunctionLeft[r]
            /\ FunctionLeft[r] > 0 => FunctionLeft'[r] <= FunctionLeft[r]]_poolVars
<1>1. PoolInv
        => \A r \in Requests : /\ FunctionLeft[r] \in 0 .. 8 * MaxTries - 1
                               /\ FunctionLeft[r] = 0 <=> place[r] = "out" /\ ~asleep[r]
  BY FunctionLeftBounds
<1>2. PoolInv /\ PoolInv' /\ [PoolNext]_poolVars
        => [\A r \in Requests :
              /\ PoolStep(r) => FunctionLeft'[r] < FunctionLeft[r]
              /\ FunctionLeft[r] > 0 => FunctionLeft'[r] <= FunctionLeft[r]]_poolVars
  <2> SUFFICES ASSUME PoolInv, PoolInv', NEW r \in Requests, NEW q \in Requests,
                      PoolStep(r) \/ Forget(r) \/ \E f \in Functions : Run(r, f)
               PROVE  /\ PoolStep(q) => FunctionLeft'[q] < FunctionLeft[q]
                      /\ FunctionLeft[q] > 0 => FunctionLeft'[q] <= FunctionLeft[q]
    BY DEF PoolNext
  <2>1. PoolStep(q) => FunctionLeft'[q] < FunctionLeft[q]
    BY FunctionRunsDown
  <2>2. ASSUME FunctionLeft[q] > 0 PROVE FunctionLeft'[q] <= FunctionLeft[q]
    <3>1. FunctionLeft[q] \in Nat /\ ~(place[q] = "out" /\ ~asleep[q])
      BY <2>2, FunctionLeftBounds
    <3>2. CASE q # r
      BY <3>1, <3>2, OtherFunctionsStay DEF PoolInv
    <3>3. CASE q = r
      <4>1. PoolStep(q)
        BY <3>1, <3>3 DEF Forget, Run
      <4>2. FunctionLeft'[q] \in Nat
        <5>1. /\ try'[q] \in 1 .. MaxTries /\ asleep'[q] \in BOOLEAN
              /\ MaxTries \in Nat \ {0}
          BY DEF PoolInv, PoolTypeOK, CallTypeOK
        <5> QED
          BY <5>1 DEF FunctionLeft, RunLeft
      <4> QED
        BY <2>1, <3>1, <4>1, <4>2
    <3> QED
      BY <3>2, <3>3
  <2> QED
    BY <2>1, <2>2
<1>3. PoolInv /\ [PoolNext]_poolVars => PoolInv'
  BY PoolKept
<1>4. PoolInit => PoolInv
  BY PoolInitially
<1> QED
  BY <1>1, <1>2, <1>3, <1>4, PTL DEF PoolSpec

=============================================================================
