--------------------------- MODULE RequestPath_proofs ---------------------------
(***************************************************************************)
(* Theorems about RequestPath for any requests, endpoints, addresses and   *)
(* limits, and any number of threads and connections: the request path     *)
(* uses the pool as ConnectionPool specifies it, so the bounds proved      *)
(* there hold here, and what a request may have changed, logged and used   *)
(* up when it is answered.                                                 *)
(***************************************************************************)
EXTENDS RequestPath, ConnectionPool_proofs

USE AddressesAssumption, LimitAssumption, OfferedAssumption

-----------------------------------------------------------------------------
(* The endpoints.                                                          *)

Names == {"register", "login", "session", "rename", "remove", "sessions",
          "triage", "health", "root"}

(* An endpoint writes with its last function if at all, and a rename is    *)
(* the only one that updates, and that may be refused after a write.       *)
Shaped(e, functions, refusals) ==
  /\ Len(functions) \in 0 .. 2
  /\ \A i \in 1 .. Len(functions) :
       /\ functions[i] \in Functions
       /\ functions[i] \in Writes =>
            /\ i = Len(functions)
            /\ refusals[i + 1] = IF e = "rename" THEN {422} ELSE {}
       /\ functions[i] = "update" => e = "rename"
  /\ \A i \in 1 .. Len(functions) + 1 : refusals[i] \subseteq Statuses

LEMMA RouteNames == DOMAIN Routes = Names
BY DEF Routes, Names

LEMMA RouteFacts ==
  ASSUME NEW e \in Names
  PROVE  /\ Routes[e].protected \in BOOLEAN
         /\ Shaped(e, Routes[e].functions, Routes[e].refusals)
<1>1. CASE e = "register"
  <2>1. /\ Routes[e].protected = FALSE
        /\ Routes[e].functions = <<"read", "insert">>
        /\ Routes[e].refusals = <<{422}, {400}, {}>>
    BY <1>1 DEF Routes, Endpoint
  <2>2. Shaped(e, <<"read", "insert">>, <<{422}, {400}, {}>>)
    BY <1>1 DEF Shaped, Functions, Writes, Statuses
  <2> QED
    BY <2>1, <2>2
<1>2. CASE e = "login"
  <2>1. /\ Routes[e].protected = FALSE
        /\ Routes[e].functions = <<"read">>
        /\ Routes[e].refusals = <<{400}, {401}>>
    BY <1>2 DEF Routes, Endpoint
  <2>2. Shaped(e, <<"read">>, <<{400}, {401}>>)
    BY <1>2 DEF Shaped, Functions, Writes, Statuses
  <2> QED
    BY <2>1, <2>2
<1>3. CASE e = "session"
  <2>1. /\ Routes[e].protected = TRUE
        /\ Routes[e].functions = <<"insert">>
        /\ Routes[e].refusals = <<{}, {}>>
    BY <1>3 DEF Routes, Endpoint
  <2>2. Shaped(e, <<"insert">>, <<{}, {}>>)
    BY <1>3 DEF Shaped, Functions, Writes, Statuses
  <2> QED
    BY <2>1, <2>2
<1>4. CASE e = "rename"
  <2>1. /\ Routes[e].protected = TRUE
        /\ Routes[e].functions = <<"update">>
        /\ Routes[e].refusals = <<{422, 403}, {422}>>
    BY <1>4 DEF Routes, Endpoint
  <2>2. Shaped(e, <<"update">>, <<{422, 403}, {422}>>)
    BY <1>4 DEF Shaped, Functions, Writes, Statuses
  <2> QED
    BY <2>1, <2>2
<1>5. CASE e = "remove"
  <2>1. /\ Routes[e].protected = TRUE
        /\ Routes[e].functions = <<"delete">>
        /\ Routes[e].refusals = <<{403}, {}>>
    BY <1>5 DEF Routes, Endpoint
  <2>2. Shaped(e, <<"delete">>, <<{403}, {}>>)
    BY <1>5 DEF Shaped, Functions, Writes, Statuses
  <2> QED
    BY <2>1, <2>2
<1>6. CASE e = "sessions"
  <2>1. /\ Routes[e].protected = TRUE
        /\ Routes[e].functions = <<"read">>
        /\ Routes[e].refusals = <<{}, {422}>>
    BY <1>6 DEF Routes, Endpoint
  <2>2. Shaped(e, <<"read">>, <<{}, {422}>>)
    BY <1>6 DEF Shaped, Functions, Writes, Statuses
  <2> QED
    BY <2>1, <2>2
<1>7. CASE e = "triage"
  <2>1. /\ Routes[e].protected = TRUE
        /\ Routes[e].functions = <<>>
        /\ Routes[e].refusals = <<{422, 500, 504}>>
    BY <1>7 DEF Routes, Endpoint
  <2>2. Shaped(e, <<>>, <<{422, 500, 504}>>)
    BY <1>7 DEF Shaped, Functions, Writes, Statuses
  <2> QED
    BY <2>1, <2>2
<1>8. CASE e = "health"
  <2>1. /\ Routes[e].protected = FALSE
        /\ Routes[e].functions = <<"probe">>
        /\ Routes[e].refusals = <<{}, {503}>>
    BY <1>8 DEF Routes, Endpoint
  <2>2. Shaped(e, <<"probe">>, <<{}, {503}>>)
    BY <1>8 DEF Shaped, Functions, Writes, Statuses
  <2> QED
    BY <2>1, <2>2
<1>9. CASE e = "root"
  <2>1. /\ Routes[e].protected = FALSE
        /\ Routes[e].functions = <<>>
        /\ Routes[e].refusals = <<{}>>
    BY <1>9 DEF Routes, Endpoint
  <2>2. Shaped(e, <<>>, <<{}>>)
    BY <1>9 DEF Shaped, Functions, Writes, Statuses
  <2> QED
    BY <2>1, <2>2
<1> QED
  BY <1>1, <1>2, <1>3, <1>4, <1>5, <1>6, <1>7, <1>8, <1>9 DEF Names

-----------------------------------------------------------------------------
(* The pool is used as it is specified.                                    *)

LEMMA NextIsPoolNext ==
  ASSUME \A r \in Requests : endpoint[r] \in Names, \A r \in Requests : ran[r] \in Nat,
         [Next]_vars
  PROVE  [PoolNext]_poolVars
<1>1. ASSUME NEW r \in Requests, LookUp(r) PROVE PoolNext
  BY <1>1 DEF LookUp, PoolNext, Functions
<1>2. ASSUME NEW r \in Requests, RunNext(r) PROVE PoolNext
  <2>1. ran[r] + 1 \in 1 .. Len(Routes[endpoint[r]].functions)
    BY <1>2, RouteFacts DEF RunNext, Route, Shaped
  <2>2. Routes[endpoint[r]].functions[ran[r] + 1] \in Functions
    BY <2>1, RouteFacts DEF Shaped
  <2> QED
    BY <1>2, <2>2 DEF RunNext, Route, PoolNext
<1>3. ASSUME NEW r \in Requests, FunctionStep(r) \/ Send(r) PROVE PoolNext
  BY <1>3 DEF FunctionStep, Send, PoolNext
<1>4. ASSUME NEW r \in Requests,
             \/ RefuseToken(r) \/ TokenAccepted(r) \/ TokenNamesNothing(r) \/ RefuseBody(r)
             \/ CheckLimit(r) \/ Refuse(r) \/ Complete(r) \/ Propagate(r)
             \/ \E e \in Offered[r], a \in Addresses : Receive(r, e, a)
      PROVE  UNCHANGED poolVars
  BY <1>4 DEF RefuseToken, TokenAccepted, TokenNamesNothing, RefuseBody, CheckLimit,
              Refuse, Complete, Propagate, Receive
<1>5. ASSUME NEW k \in Keys, WindowEnds(k) PROVE UNCHANGED poolVars
  BY <1>5 DEF WindowEnds
<1>6. CASE UNCHANGED vars
  BY <1>6 DEF vars
<1> QED
  BY <1>1, <1>2, <1>3, <1>4, <1>5, <1>6 DEF Next, Proceed

(* What a step of r's function leaves alone, and what it may bring about.  *)
LEMMA FunctionSteps ==
  ASSUME PoolInv, NEW r \in Requests, PoolStep(r)
  PROVE  /\ ~Resumed(r)
         /\ function' = function
         /\ \A q \in Requests \ {r} :
              /\ place'[q] = place[q] /\ asleep'[q] = asleep[q]
              /\ effect'[q] = effect[q] /\ result'[q] = result[q]
         /\ effect'[r] => effect[r] \/ function[r] \in Writes
         /\ result'[r] = "unhealthy" => result[r] = "unhealthy" \/ function[r] = "probe"
         /\ result'[r] = "missing" => result[r] = "missing" \/ function[r] \in {"update", "delete"}
<1> /\ function \in [Requests -> Functions]
    /\ place \in [Requests -> Places]
    /\ effect \in [Requests -> BOOLEAN]
    /\ result \in [Requests -> Results]
    /\ try \in [Requests -> 1 .. MaxTries]
    /\ asleep \in [Requests -> BOOLEAN]
    /\ queue \in Seq(Requests)
  BY DEF PoolInv, PoolTypeOK, CallTypeOK
<1>1. CASE TakeThread(r)
  <2>1. place[r] = "queued"
    BY <1>1 DEF TakeThread, PoolInv, QueuedOnce
  <2> QED
    BY <1>1, <2>1 DEF TakeThread, Goes, callVars, Resumed
<1>2. CASE Connect(r) \/ Block(r) \/ Commit(r)
  BY <1>2 DEF Connect, Block, Commit, Goes, callVars, Resumed, Reloads, Writes
<1>3. CASE Return(r) \/ ReturnNothing(r)
  BY <1>3 DEF Return, ReturnNothing, Ends, Leaves, Submit, Resumed, Writes
<1>4. CASE Raise(r) \/ GiveUp(r)
  BY <1>4 DEF Raise, GiveUp, Ends, Leaves, Submit, Resumed, Failure
<1>5. CASE Disconnect(r)
  BY <1>5 DEF Disconnect, Ends, Leaves, Submit, FailAndSleep, FailForGood, Resumed, Writes
<1>6. CASE RunAgain(r)
  BY <1>6 DEF RunAgain, Wake, Resumed
<1> QED
  BY <1>1, <1>2, <1>3, <1>4, <1>5, <1>6 DEF PoolStep, InThreadStep

-----------------------------------------------------------------------------
(* The invariant.                                                          *)

Typed ==
  /\ stage \in [Requests -> Stages]
  /\ endpoint \in [Requests -> Names]
  /\ \A r \in Requests : endpoint[r] \in Offered[r]
  /\ address \in [Requests -> Addresses]
  /\ ran \in [Requests -> 0 .. 2]
  /\ context \in [Requests -> Requests \cup {Nobody}]
  /\ status \in [Requests -> Statuses \cup {0}]
  /\ counted \in [Requests -> Statuses \cup {0}]
  /\ headers \in [Requests -> BOOLEAN]

(* What the stage of a request says about its functions and its context.   *)
Fits(r) ==
  /\ stage[r] \notin {"token", "handler"} => Resumed(r)
  /\ stage[r] \in {"idle", "inside", "token"} => ran[r] = 0 /\ ~effect[r]
  /\ stage[r] = "token" => Route(r).protected /\ function[r] = "read"
  /\ stage[r] = "handler" /\ ran[r] = 0 => Resumed(r) /\ ~effect[r]
  /\ stage[r] = "handler" /\ ran[r] > 0 =>
       ran[r] <= Len(Route(r).functions) /\ function[r] = Route(r).functions[ran[r]]
  /\ stage[r] # "handler" => context[r] = Nobody
  /\ stage[r] = "handler" => context[r] = IF Route(r).protected THEN r ELSE Nobody
  /\ stage[r] # "answered" => status[r] = 0 /\ counted[r] = 0 /\ ~headers[r]
  /\ effect[r] => function[r] \in Writes
  /\ result[r] = "unhealthy" => function[r] = "probe"
  /\ result[r] = "missing" => function[r] \in {"update", "delete"}

(* What its answer says. *)
AnswerFits(r) ==
  stage[r] = "answered" =>
    /\ effect[r] => \/ status[r] \in {200, 500}
                    \/ endpoint[r] = "rename" /\ status[r] \in {404, 422}
    /\ \/ counted[r] = status[r] /\ (~headers[r] => status[r] = 500)
       \/ counted[r] = 0 /\ status[r] \in {200, 400} /\ ~headers[r]

PathInv ==
  /\ PoolInv
  /\ Typed
  /\ \A r \in Requests : Fits(r) /\ AnswerFits(r)

(* No step of another request touches what the invariant says of q. *)
Same(q) ==
  /\ stage'[q] = stage[q] /\ endpoint'[q] = endpoint[q] /\ ran'[q] = ran[q]
  /\ context'[q] = context[q] /\ status'[q] = status[q] /\ counted'[q] = counted[q]
  /\ headers'[q] = headers[q] /\ place'[q] = place[q] /\ asleep'[q] = asleep[q]
  /\ function'[q] = function[q] /\ effect'[q] = effect[q] /\ result'[q] = result[q]

LEMMA SameFits ==
  ASSUME NEW q \in Requests, Same(q), Fits(q), AnswerFits(q)
  PROVE  Fits(q)' /\ AnswerFits(q)'
BY DEF Same, Fits, AnswerFits, Resumed, Route

LEMMA PathInitially ==
  ASSUME Init
  PROVE  PathInv
<1>1. PoolInv
  BY PoolInitially DEF Init
<1>2. ASSUME NEW r \in Requests
      PROVE  Offered[r] \subseteq Names /\ AnyEndpoint(r) \in Offered[r]
  <2>1. Offered[r] \subseteq Names /\ Offered[r] # {}
    BY OfferedAssumption, RouteNames
  <2> QED
    BY <2>1 DEF AnyEndpoint
<1>3. AnyAddress \in Addresses
  BY DEF AnyAddress
<1>4. Typed
  BY <1>2, <1>3 DEF Init, Typed, Stages
<1>5. \A r \in Requests : Fits(r) /\ AnswerFits(r)
  BY DEF Init, PoolInit, CallInit, Fits, AnswerFits, Resumed
<1> QED
  BY <1>1, <1>4, <1>5 DEF PathInv

-----------------------------------------------------------------------------
(* The steps keep it.                                                      *)

(* The invariant after a step of r. *)
Kept(r) ==
  /\ Typed'
  /\ Fits(r)' /\ AnswerFits(r)'
  /\ \A q \in Requests \ {r} : Same(q)

(* An answer that fits what r has changed. *)
Excused(r, code) ==
  effect[r] => \/ code \in {200, 500}
               \/ endpoint[r] = "rename" /\ code \in {404, 422}

LEMMA LeaveKeeps ==
  ASSUME PathInv, NEW r \in Requests, NEW code \in Statuses, NEW response \in BOOLEAN,
         Leave(r, code, response), UNCHANGED poolVars, Resumed(r),
         ~response => code = 500, Excused(r, code)
  PROVE  Kept(r)
<1> Typed /\ Fits(r)
  BY DEF PathInv
<1>1. Typed'
  BY DEF Leave, Count, Typed, Stages
<1>2. Fits(r)'
  BY DEF Leave, Count, Typed, Fits, Resumed, poolVars, callVars
<1>3. AnswerFits(r)'
  BY DEF Leave, Count, Typed, AnswerFits, Excused, poolVars
<1>4. \A q \in Requests \ {r} : Same(q)
  BY DEF Leave, Count, Typed, Same, poolVars, callVars
<1> QED
  BY <1>1, <1>2, <1>3, <1>4 DEF Kept

(* The answer of a request that has changed nothing. *)
LEMMA RefusalKeeps ==
  ASSUME PathInv, NEW r \in Requests, NEW code \in Statuses,
         Answer(r, code), UNCHANGED poolVars, Resumed(r), ~effect[r]
  PROVE  Kept(r)
BY LeaveKeeps DEF Answer, Excused

LEMMA ReceiveKeeps ==
  ASSUME PathInv, NEW r \in Requests, NEW e \in Offered[r], NEW a \in Addresses,
         Receive(r, e, a)
  PROVE  Kept(r)
<1> Typed /\ Fits(r)
  BY DEF PathInv
<1>1. e \in Names
  BY OfferedAssumption, RouteNames
<1>2. Typed'
  BY <1>1 DEF Receive, Typed, Stages, Statuses
<1>3. Fits(r)' /\ AnswerFits(r)'
  BY DEF Receive, Typed, Fits, AnswerFits, Resumed, poolVars, callVars
<1>4. \A q \in Requests \ {r} : Same(q)
  BY DEF Receive, Typed, Same, poolVars, callVars
<1> QED
  BY <1>2, <1>3, <1>4 DEF Kept

LEMMA TokenKeeps ==
  ASSUME PathInv, NEW r \in Requests,
         RefuseToken(r) \/ LookUp(r) \/ TokenAccepted(r) \/ TokenNamesNothing(r)
  PROVE  Kept(r)
<1> Typed /\ Fits(r)
  BY DEF PathInv
<1>1. CASE RefuseToken(r)
  <2>1. Resumed(r) /\ ~effect[r]
    BY <1>1 DEF RefuseToken, Fits
  <2>2. PICK code \in {403, 422, 401} : Answer(r, code)
    BY <1>1 DEF RefuseToken
  <2>3. code \in Statuses
    BY DEF Statuses
  <2>4. UNCHANGED poolVars
    BY <1>1 DEF RefuseToken
  <2> QED
    BY <2>1, <2>2, <2>3, <2>4, RefusalKeeps
<1>2. CASE LookUp(r)
  <2> /\ function \in [Requests -> Functions]
      /\ effect \in [Requests -> BOOLEAN]
      /\ result \in [Requests -> Results]
      /\ place \in [Requests -> Places]
      /\ asleep \in [Requests -> BOOLEAN]
    BY DEF PathInv, PoolInv, PoolTypeOK, CallTypeOK
  <2>1. Typed'
    BY <1>2 DEF LookUp, Typed, Stages
  <2>2. Fits(r)' /\ AnswerFits(r)'
    BY <1>2 DEF LookUp, Run, Submit, Typed, Fits, AnswerFits, Resumed, Route
  <2>3. \A q \in Requests \ {r} : Same(q)
    BY <1>2 DEF LookUp, Run, Submit, Typed, Same
  <2> QED
    BY <2>1, <2>2, <2>3 DEF Kept
<1>3. CASE TokenAccepted(r)
  <2>1. Typed'
    BY <1>3 DEF TokenAccepted, Bind, Typed, Stages
  <2>2. Fits(r)' /\ AnswerFits(r)'
    BY <1>3 DEF TokenAccepted, Bind, Typed, Fits, AnswerFits, Resumed, Route, poolVars, callVars
  <2>3. \A q \in Requests \ {r} : Same(q)
    BY <1>3 DEF TokenAccepted, Bind, Typed, Same, poolVars, callVars
  <2> QED
    BY <2>1, <2>2, <2>3 DEF Kept
<1>4. CASE TokenNamesNothing(r)
  <2>1. Resumed(r) /\ ~effect[r]
    BY <1>4 DEF TokenNamesNothing, Fits
  <2>2. Answer(r, 404) /\ UNCHANGED poolVars
    BY <1>4 DEF TokenNamesNothing
  <2>3. 404 \in Statuses
    BY DEF Statuses
  <2> QED
    BY <2>1, <2>2, <2>3, RefusalKeeps
<1> QED
  BY <1>1, <1>2, <1>3, <1>4

LEMMA LimitKeeps ==
  ASSUME PathInv, NEW r \in Requests, RefuseBody(r) \/ CheckLimit(r)
  PROVE  Kept(r)
<1> Typed /\ Fits(r)
  BY DEF PathInv
<1>1. Resumed(r) /\ ~effect[r] /\ ran[r] = 0
  BY DEF RefuseBody, CheckLimit, Fits
<1>2. UNCHANGED poolVars
  BY DEF RefuseBody, CheckLimit
<1>3. CASE Answer(r, 422) \/ Answer(r, 429)
  BY <1>1, <1>2, <1>3, RefusalKeeps DEF Statuses
<1>4. CASE /\ stage[r] = "inside"
           /\ ~Route(r).protected
           /\ stage' = [stage EXCEPT ![r] = "handler"]
           /\ UNCHANGED <<endpoint, address, ran, context, status, counted, headers>>
  <2>1. Typed'
    BY <1>4 DEF Typed, Stages
  <2>2. Fits(r)' /\ AnswerFits(r)'
    BY <1>1, <1>2, <1>4 DEF Typed, Fits, AnswerFits, Resumed, Route, poolVars, callVars
  <2>3. \A q \in Requests \ {r} : Same(q)
    BY <1>2, <1>4 DEF Typed, Same, poolVars, callVars
  <2> QED
    BY <2>1, <2>2, <2>3 DEF Kept
<1> QED
  BY <1>3, <1>4 DEF RefuseBody, CheckLimit

(* In the endpoint: what it has run last, and that it may still write only *)
(* with its last function.                                                 *)
LEMMA InHandler ==
  ASSUME PathInv, NEW r \in Requests, stage[r] = "handler"
  PROVE  /\ Shaped(endpoint[r], Route(r).functions, Route(r).refusals)
         /\ effect[r] => /\ ran[r] = Len(Route(r).functions)
                         /\ ran[r] \in 1 .. Len(Route(r).functions)
                         /\ Route(r).functions[ran[r]] \in Writes
<1> Typed /\ Fits(r)
  BY DEF PathInv
<1>1. endpoint[r] \in Names /\ ran[r] \in 0 .. 2
  BY DEF Typed
<1>2. Shaped(endpoint[r], Route(r).functions, Route(r).refusals)
  BY <1>1, RouteFacts DEF Route
<1>3. ASSUME effect[r]
      PROVE  ran[r] \in 1 .. Len(Route(r).functions) /\ Route(r).functions[ran[r]] \in Writes
  BY <1>1, <1>2, <1>3 DEF Fits, Shaped
<1> QED
  BY <1>2, <1>3 DEF Shaped

LEMMA RunNextKeeps ==
  ASSUME PathInv, NEW r \in Requests, RunNext(r)
  PROVE  Kept(r)
<1> Typed /\ Fits(r)
  BY DEF PathInv
<1> /\ function \in [Requests -> Functions]
    /\ effect \in [Requests -> BOOLEAN]
    /\ result \in [Requests -> Results]
    /\ place \in [Requests -> Places]
    /\ asleep \in [Requests -> BOOLEAN]
  BY DEF PathInv, PoolInv, PoolTypeOK, CallTypeOK
<1>1. /\ stage[r] = "handler"
      /\ ran[r] < Len(Route(r).functions)
      /\ ran[r] \in 0 .. 2
  BY DEF RunNext, MayGoOn, Typed
<1>2. Len(Route(r).functions) \in 0 .. 2
  BY <1>1, InHandler DEF Shaped
<1>3. ~effect[r]
  BY <1>1, <1>2, InHandler
<1>4. /\ ran[r] + 1 \in 1 .. Len(Route(r).functions)
      /\ ran' = [ran EXCEPT ![r] = ran[r] + 1]
      /\ function' = [function EXCEPT ![r] = Route(r).functions[ran[r] + 1]]
  BY <1>1, <1>2 DEF RunNext, Run
<1>5. Typed'
  BY <1>1, <1>2, <1>4 DEF RunNext, Typed
<1>6. Fits(r)' /\ AnswerFits(r)'
  BY <1>1, <1>2, <1>3, <1>4 DEF RunNext, Run, Submit, Typed, Fits, AnswerFits, Resumed, Route
<1>7. \A q \in Requests \ {r} : Same(q)
  BY DEF RunNext, Run, Submit, Typed, Same
<1> QED
  BY <1>5, <1>6, <1>7 DEF Kept

LEMMA AnswerKeeps ==
  ASSUME PathInv, NEW r \in Requests, NEW code \in Statuses,
         Answer(r, code), UNCHANGED poolVars, Resumed(r),
         Excused(r, code)
  PROVE  Kept(r)
BY LeaveKeeps DEF Answer

LEMMA RefuseKeeps ==
  ASSUME PathInv, NEW r \in Requests, Refuse(r)
  PROVE  Kept(r)
<1>1. stage[r] = "handler" /\ Resumed(r) /\ UNCHANGED poolVars
  BY DEF Refuse, MayGoOn
<1>2. PICK code \in Route(r).refusals[ran[r] + 1] : Answer(r, code)
  BY DEF Refuse
<1>3. ran[r] \in 0 .. Len(Route(r).functions)
  BY <1>1, InHandler DEF PathInv, Typed, Fits, Shaped
<1>4. code \in Statuses
  BY <1>1, <1>2, <1>3, InHandler DEF Shaped
<1>5. CASE effect[r]
  <2>1. endpoint[r] = "rename" /\ code = 422
    BY <1>1, <1>2, <1>5, InHandler DEF Shaped
  <2> QED
    BY <1>1, <1>2, <1>4, <2>1, AnswerKeeps DEF Excused
<1>6. CASE ~effect[r]
  BY <1>1, <1>2, <1>4, <1>6, RefusalKeeps
<1> QED
  BY <1>5, <1>6

LEMMA CompleteKeeps ==
  ASSUME PathInv, NEW r \in Requests, Complete(r)
  PROVE  Kept(r)
<1>1. stage[r] = "handler" /\ Resumed(r) /\ UNCHANGED poolVars
  BY DEF Complete, MayGoOn
<1>2. CASE ran[r] > 0 /\ result[r] = "unhealthy" /\ Answer(r, 503)
  <2>1. ~effect[r]
    BY <1>2 DEF PathInv, Fits, Writes
  <2> QED
    BY <1>1, <1>2, <2>1, RefusalKeeps DEF Statuses
<1>3. CASE /\ ran[r] > 0 /\ result[r] = "missing" /\ function[r] = "update"
           /\ Answer(r, 404)
  <2>1. /\ function[r] = Route(r).functions[ran[r]]
        /\ ran[r] \in 1 .. Len(Route(r).functions)
    BY <1>1, <1>3, InHandler DEF PathInv, Typed, Fits, Shaped
  <2>2. endpoint[r] = "rename"
    BY <1>1, <1>3, <2>1, InHandler DEF Shaped
  <2> QED
    BY <1>1, <1>3, <2>2, AnswerKeeps DEF Statuses, Excused
<1>4. CASE Answer(r, 200)
  BY <1>1, <1>4, AnswerKeeps DEF Statuses, Excused
<1> QED
  BY <1>2, <1>3, <1>4 DEF Complete

LEMMA PropagateKeeps ==
  ASSUME PathInv, NEW r \in Requests, Propagate(r)
  PROVE  Kept(r)
<1>1. Leave(r, 500, FALSE) /\ Resumed(r) /\ UNCHANGED poolVars
  BY DEF Propagate
<1>2. 500 \in Statuses
  BY DEF Statuses
<1> QED
  BY <1>1, <1>2, LeaveKeeps DEF Excused

LEMMA FunctionKeeps ==
  ASSUME PathInv, NEW r \in Requests, FunctionStep(r)
  PROVE  Kept(r)
<1> Typed /\ Fits(r) /\ AnswerFits(r)
  BY DEF PathInv
<1>1. PoolStep(r) /\ UNCHANGED requestVars
  BY DEF FunctionStep
<1>2. stage[r] \in {"token", "handler"}
  BY <1>1, FunctionSteps DEF PathInv, Fits, Typed
<1>3. Typed'
  BY <1>1 DEF requestVars, Typed
<1>4. stage[r] = "handler" => ran[r] > 0
  BY <1>1, <1>2, FunctionSteps DEF PathInv, Fits, Typed
<1>5. stage[r] = "token" => ~effect'[r]
  BY <1>1, FunctionSteps DEF PathInv, Fits, Writes
<1>6. Fits(r)' /\ AnswerFits(r)'
  BY <1>1, <1>2, <1>4, <1>5, FunctionSteps
     DEF PathInv, requestVars, Typed, Fits, AnswerFits, Resumed, Route
<1>7. \A q \in Requests \ {r} : Same(q)
  BY <1>1, FunctionSteps DEF PathInv, requestVars, Same
<1> QED
  BY <1>3, <1>6, <1>7 DEF Kept

LEMMA SendKeeps ==
  ASSUME PathInv, NEW r \in Requests, Send(r)
  PROVE  Kept(r)
<1> Typed /\ Fits(r)
  BY DEF PathInv
<1> /\ function \in [Requests -> Functions]
    /\ effect \in [Requests -> BOOLEAN]
    /\ result \in [Requests -> Results]
    /\ place \in [Requests -> Places]
    /\ asleep \in [Requests -> BOOLEAN]
  BY DEF PathInv, PoolInv, PoolTypeOK, CallTypeOK
<1>1. AnyEndpoint(r) \in Offered[r] /\ AnyEndpoint(r) \in Names
  <2>1. Offered[r] \subseteq Names /\ Offered[r] # {}
    BY OfferedAssumption, RouteNames
  <2> QED
    BY <2>1 DEF AnyEndpoint
<1>2. AnyAddress \in Addresses
  BY AddressesAssumption DEF AnyAddress
<1>3. Typed'
  BY <1>1, <1>2 DEF Send, Typed, Stages
<1>4. Fits(r)' /\ AnswerFits(r)'
  BY DEF Send, Forget, Submit, Typed, Fits, AnswerFits, Resumed
<1>5. \A q \in Requests \ {r} : Same(q)
  BY DEF Send, Forget, Submit, Typed, Same
<1> QED
  BY <1>3, <1>4, <1>5 DEF Kept

LEMMA PathKept ==
  ASSUME PathInv, [Next]_vars
  PROVE  PathInv'
<1>1. PoolInv'
  <2>1. \A r \in Requests : endpoint[r] \in Names /\ ran[r] \in Nat
    BY DEF PathInv, Typed
  <2> QED
    BY <2>1, NextIsPoolNext, PoolKept DEF PathInv
<1>2. ASSUME NEW r \in Requests, Kept(r) PROVE PathInv'
  <2>1. ASSUME NEW q \in Requests \ {r} PROVE Fits(q)' /\ AnswerFits(q)'
    BY <1>2, SameFits DEF Kept, PathInv
  <2> QED
    BY <1>1, <1>2, <2>1 DEF Kept, PathInv
<1>3. ASSUME NEW r \in Requests, Proceed(r) PROVE Kept(r)
  BY <1>3, TokenKeeps, LimitKeeps, RunNextKeeps, RefuseKeeps, CompleteKeeps, PropagateKeeps,
     FunctionKeeps, SendKeeps DEF Proceed
<1>4. CASE (\E k \in Keys : WindowEnds(k)) \/ UNCHANGED vars
  <2>1. UNCHANGED <<poolVars, requestVars>>
    BY <1>4 DEF WindowEnds, vars
  <2>2. Typed' /\ \A q \in Requests : Same(q)
    BY <2>1 DEF PathInv, Typed, Same, requestVars, poolVars, callVars
  <2> QED
    BY <1>1, <2>2, SameFits DEF PathInv
<1> QED
  BY <1>2, <1>3, <1>4, ReceiveKeeps DEF Next

(* The limiter's counts: what was let through was counted. *)
QuotaInv ==
  /\ hits \in [Keys -> 0 .. Limit]
  /\ admitted \in [Keys -> Nat]
  /\ \A k \in Keys : admitted[k] <= hits[k] /\ admitted[k] <= Limit

LEMMA QuotaKept ==
  ASSUME QuotaInv, [Next]_vars
  PROVE  QuotaInv'
<1> Limit \in Nat
  BY LimitAssumption
<1>1. ASSUME NEW r \in Requests, CheckLimit(r) PROVE QuotaInv'
  <2>1. \/ /\ hits[Key(r)] + 1 <= Limit
           /\ hits' = [hits EXCEPT ![Key(r)] = IF @ < Limit THEN @ + 1 ELSE @]
           /\ admitted' = [admitted EXCEPT ![Key(r)] = admitted[Key(r)] + 1]
        \/ /\ hits' = [hits EXCEPT ![Key(r)] = IF @ < Limit THEN @ + 1 ELSE @]
           /\ admitted' = admitted
    BY <1>1 DEF CheckLimit, Allowed
  <2>2. CASE Key(r) \in Keys
    BY <2>1, <2>2 DEF QuotaInv
  <2>3. CASE Key(r) \notin Keys
    BY <2>1, <2>3 DEF QuotaInv
  <2> QED
    BY <2>2, <2>3
<1>2. ASSUME NEW k \in Keys, WindowEnds(k) PROVE QuotaInv'
  BY <1>2 DEF WindowEnds, QuotaInv
<1>3. ASSUME NEW r \in Requests,
             \/ RefuseToken(r) \/ LookUp(r) \/ TokenAccepted(r) \/ TokenNamesNothing(r)
             \/ RefuseBody(r) \/ RunNext(r) \/ Refuse(r) \/ Complete(r) \/ Propagate(r)
             \/ FunctionStep(r) \/ Send(r)
             \/ \E e \in Offered[r], a \in Addresses : Receive(r, e, a)
      PROVE  UNCHANGED limiterVars
  BY <1>3 DEF RefuseToken, LookUp, TokenAccepted, TokenNamesNothing, RefuseBody, RunNext,
              Refuse, Complete, Propagate, FunctionStep, Send, Receive
<1>4. CASE UNCHANGED limiterVars
  BY <1>4 DEF limiterVars, QuotaInv
<1> QED
  BY <1>1, <1>2, <1>3, <1>4 DEF Next, Proceed, vars

-----------------------------------------------------------------------------
(* The theorems.                                                           *)

LEMMA PathAlways == Spec => []PathInv
<1>1. PathInv /\ [Next]_vars => PathInv'
  BY PathKept
<1> QED
  BY PathInitially, <1>1, PTL DEF Spec

(* The request path is an implementation of ConnectionPool: whatever       *)
(* requests are made, their functions take threads and connections as      *)
(* specified there.                                                        *)
THEOREM PathUsesPool == Spec => PoolSpec
<1>1. Init => PoolInit
  BY DEF Init
<1>2. PathInv /\ [Next]_vars => [PoolNext]_poolVars
  BY NextIsPoolNext DEF PathInv, Typed
<1> QED
  BY PathAlways, <1>1, <1>2, PTL DEF Spec, PoolSpec

(* So at most Threads - Capacity of the threads wait for a connection, for *)
(* any mix of requests.                                                    *)
THEOREM PathWaiters == Spec => []WaitersBounded
BY PathUsesPool, PoolWaiters, PTL

(* No address gets more requests through in a window than the limit.       *)
THEOREM PathQuota == Spec => []QuotaHolds
<1>1. Init => QuotaInv
  BY LimitAssumption DEF Init, QuotaInv
<1>2. QuotaInv /\ [Next]_vars => QuotaInv'
  BY QuotaKept
<1>3. QuotaInv => QuotaHolds
  BY DEF QuotaInv, QuotaHolds
<1> QED
  BY <1>1, <1>2, <1>3, PTL DEF Spec

(* Every variable has its type, and only a request between its token and   *)
(* its answer has a function in the pool.                                  *)
THEOREM PathTypeCorrect == Spec => []PathTypeOK
<1>1. Init => QuotaInv
  BY LimitAssumption DEF Init, QuotaInv
<1>2. QuotaInv /\ [Next]_vars => QuotaInv'
  BY QuotaKept
<1>3. PathInv /\ QuotaInv => PathTypeOK
  BY DEF PathInv, PoolInv, QuotaInv, Typed, Fits, Resumed, PathTypeOK
<1> QED
  BY PathAlways, <1>1, <1>2, <1>3, PTL DEF Spec

(* A refused request has changed nothing, a rename's 404 and 422 excepted. *)
THEOREM PathRefusals == Spec => []RefusedHasNoEffect
<1>1. PathInv => RefusedHasNoEffect
  BY DEF PathInv, Fits, AnswerFits, RefusedHasNoEffect
<1> QED
  BY PathAlways, <1>1, PTL

(* Every answer the middlewares see is counted with its own status.        *)
THEOREM PathCounts == Spec => []CountedAsAnswered
<1>1. PathInv => CountedAsAnswered
  BY DEF PathInv, AnswerFits, CountedAsAnswered
<1> QED
  BY PathAlways, <1>1, PTL

(* No request's log lines name the operator of another.                    *)
THEOREM PathLines == Spec => []LinesAttributed
<1>1. PathInv => LinesAttributed
  BY DEF PathInv, Fits, LinesAttributed
<1> QED
  BY PathAlways, <1>1, PTL

-----------------------------------------------------------------------------
(* How long a request can take.                                            *)

(* What a stage has still before it, but for the function under way: two   *)
(* functions and four steps of its own at most in the endpoint, and one    *)
(* function more in the dependency.                                        *)
StageLeft(r) ==
  IF stage[r] = "idle" THEN 0
  ELSE IF stage[r] = "answered" THEN 1
  ELSE IF stage[r] = "token" THEN 16 * MaxTries + 5
  ELSE IF stage[r] = "inside" THEN 24 * MaxTries + 5
  ELSE 2 + (IF ran[r] = 0 THEN 16 * MaxTries + 2
            ELSE IF ran[r] = 1 THEN 8 * MaxTries + 1 ELSE 0)

StepsLeft == [r \in Requests |-> StageLeft(r) + FunctionLeft[r]]

LEMMA StepsLeftBounds ==
  ASSUME PathInv, NEW r \in Requests
  PROVE  /\ StepsLeft[r] \in 0 .. 24 * MaxTries + 5
         /\ StepsLeft[r] = 0 <=> stage[r] = "idle"
<1>1. /\ stage[r] \in Stages /\ ran[r] \in 0 .. 2 /\ MaxTries \in Nat \ {0}
      /\ StepsLeft[r] = StageLeft(r) + FunctionLeft[r]
      /\ FunctionLeft[r] \in 0 .. 8 * MaxTries - 1
  BY FunctionLeftBounds, MaxTriesAssumption DEF PathInv, Typed, StepsLeft
<1>2. stage[r] \notin {"token", "handler"} => FunctionLeft[r] = 0
  BY FunctionLeftBounds DEF PathInv, Fits, Resumed
<1>3. CASE stage[r] \in {"idle", "inside", "answered"}
  BY <1>1, <1>2, <1>3 DEF StageLeft
<1>4. CASE stage[r] \in {"token", "handler"}
  BY <1>1, <1>4 DEF StageLeft
<1> QED
  BY <1>1, <1>3, <1>4 DEF Stages

(* What a step of the request does to its function's share.                *)
LEMMA FunctionLeftSame ==
  ASSUME UNCHANGED poolVars
  PROVE  FunctionLeft' = FunctionLeft
BY DEF poolVars, callVars, FunctionLeft, RunLeft

LEMMA FunctionLeftStarts ==
  ASSUME PoolInv, NEW r \in Requests, NEW f, Run(r, f)
  PROVE  FunctionLeft[r] = 0 /\ FunctionLeft'[r] = 8 * MaxTries - 1
<1>1. /\ try \in [Requests -> 1 .. MaxTries] /\ asleep \in [Requests -> BOOLEAN]
      /\ place \in [Requests -> Places] /\ MaxTries \in Nat \ {0}
  BY MaxTriesAssumption DEF PoolInv, PoolTypeOK, CallTypeOK
<1>2. place'[r] = "queued" /\ try'[r] = 1
  BY <1>1 DEF Run, Submit
<1> QED
  BY <1>1, <1>2 DEF Run, FunctionLeft, RunLeft

LEMMA ProceedRunsDown ==
  ASSUME PathInv, NEW r \in Requests, Proceed(r)
  PROVE  StepsLeft'[r] < StepsLeft[r]
<1>1. /\ stage \in [Requests -> Stages] /\ stage[r] \in Stages
      /\ ran \in [Requests -> 0 .. 2] /\ ran[r] \in 0 .. 2
      /\ MaxTries \in Nat \ {0} /\ PoolInv
      /\ FunctionLeft[r] \in 0 .. 8 * MaxTries - 1
      /\ stage[r] \in {"inside", "token"} => ran[r] = 0
      /\ StepsLeft[r] = StageLeft(r) + FunctionLeft[r]
      /\ StepsLeft'[r] = StageLeft(r)' + FunctionLeft'[r]
  <2>1. /\ stage \in [Requests -> Stages] /\ stage[r] \in Stages
        /\ ran \in [Requests -> 0 .. 2] /\ ran[r] \in 0 .. 2 /\ PoolInv
    BY DEF PathInv, Typed
  <2>2. stage[r] \in {"inside", "token"} => ran[r] = 0
    BY DEF PathInv, Fits
  <2>3. FunctionLeft[r] \in 0 .. 8 * MaxTries - 1
    BY <2>1, FunctionLeftBounds
  <2> QED
    BY <2>1, <2>2, <2>3, MaxTriesAssumption DEF StepsLeft
<1>2. ASSUME stage'[r] = "answered", UNCHANGED poolVars,
             stage[r] \in {"inside", "token", "handler"}
      PROVE  StepsLeft'[r] < StepsLeft[r]
  <2>1. StageLeft(r)' = 1 /\ FunctionLeft' = FunctionLeft
    BY <1>2, FunctionLeftSame DEF StageLeft
  <2>2. StageLeft(r) \in Nat /\ StageLeft(r) > 1
    BY <1>1, <1>2 DEF StageLeft
  <2> QED
    BY <1>1, <2>1, <2>2
<1>3. CASE RefuseToken(r) \/ TokenNamesNothing(r) \/ RefuseBody(r) \/ Refuse(r)
           \/ Complete(r) \/ Propagate(r)
  <2>1. UNCHANGED poolVars /\ stage[r] \in {"inside", "token", "handler"}
    BY <1>3 DEF RefuseToken, TokenNamesNothing, RefuseBody, Refuse, Complete, Propagate, MayGoOn
  <2>2. stage' = [stage EXCEPT ![r] = "answered"]
    BY <1>3 DEF RefuseToken, TokenNamesNothing, RefuseBody, Refuse, Complete, Propagate,
       Answer, Leave
  <2> QED
    BY <1>1, <1>2, <2>1, <2>2
<1>4. CASE LookUp(r)
  <2>1. FunctionLeft[r] = 0 /\ FunctionLeft'[r] = 8 * MaxTries - 1
    BY <1>1, <1>4, FunctionLeftStarts DEF LookUp
  <2>2. StageLeft(r) = 24 * MaxTries + 5 /\ StageLeft(r)' = 16 * MaxTries + 5
    BY <1>1, <1>4 DEF LookUp, StageLeft
  <2> QED
    BY <1>1, <2>1, <2>2
<1>5. CASE TokenAccepted(r)
  <2>1. FunctionLeft' = FunctionLeft
    BY <1>5, FunctionLeftSame DEF TokenAccepted
  <2>2. StageLeft(r) = 16 * MaxTries + 5 /\ StageLeft(r)' = 16 * MaxTries + 4
    BY <1>1, <1>5 DEF TokenAccepted, StageLeft
  <2> QED
    BY <1>1, <2>1, <2>2
<1>6. CASE CheckLimit(r)
  <2>1. CASE Allowed(Key(r))
    <3>1. FunctionLeft' = FunctionLeft
      BY <1>6, FunctionLeftSame DEF CheckLimit
    <3>2. StageLeft(r) = 24 * MaxTries + 5 /\ StageLeft(r)' = 16 * MaxTries + 4
      BY <1>1, <1>6, <2>1 DEF CheckLimit, StageLeft
    <3> QED
      BY <1>1, <3>1, <3>2
  <2>2. CASE ~Allowed(Key(r))
    BY <1>1, <1>2, <1>6, <2>2 DEF CheckLimit, Answer, Leave
  <2> QED
    BY <2>1, <2>2
<1>7. CASE RunNext(r)
  <2>1. FunctionLeft[r] = 0 /\ FunctionLeft'[r] = 8 * MaxTries - 1
    BY <1>1, <1>7, FunctionLeftStarts DEF RunNext
  <2>2. /\ stage[r] = "handler" /\ stage' = stage /\ ran'[r] = ran[r] + 1
        /\ ran[r] \in 0 .. 1
    <3>1. stage[r] = "handler" /\ ran[r] < Len(Route(r).functions)
      BY <1>7 DEF RunNext, MayGoOn
    <3>2. Len(Route(r).functions) \in 0 .. 2
      BY <3>1, InHandler DEF Shaped
    <3> QED
      BY <1>1, <1>7, <3>1, <3>2 DEF RunNext
  <2>3. StageLeft(r)' + 8 * MaxTries + 1 = StageLeft(r) /\ StageLeft(r)' \in Nat
    BY <1>1, <2>2 DEF StageLeft
  <2> QED
    BY <1>1, <2>1, <2>3
<1>8. CASE FunctionStep(r)
  <2>1. FunctionLeft'[r] < FunctionLeft[r]
    BY <1>1, <1>8, FunctionRunsDown DEF FunctionStep
  <2>2. StageLeft(r)' = StageLeft(r) /\ StageLeft(r) \in Nat
    BY <1>1, <1>8 DEF FunctionStep, requestVars, StageLeft, Stages
  <2>3. FunctionLeft'[r] \in Nat
    <3>1. PoolInv'
      <4>1. PoolNext
        BY <1>8 DEF FunctionStep, PoolNext
      <4> QED
        BY <1>1, <4>1, PoolKept
    <3>2. /\ try'[r] \in 1 .. MaxTries /\ asleep'[r] \in BOOLEAN
      BY <3>1 DEF PoolInv, PoolTypeOK, CallTypeOK
    <3> QED
      BY <1>1, <3>2 DEF FunctionLeft, RunLeft
  <2> QED
    BY <1>1, <2>1, <2>2, <2>3
<1>9. CASE Send(r)
  <2>1. StageLeft(r) = 1 /\ StageLeft(r)' = 0
    BY <1>1, <1>9 DEF Send, StageLeft
  <2>2. FunctionLeft'[r] = 0
    BY <1>1, <1>9 DEF Send, Forget, Submit, FunctionLeft, PoolInv, PoolTypeOK, CallTypeOK
  <2> QED
    BY <1>1, <2>1, <2>2
<1> QED
  BY <1>3, <1>4, <1>5, <1>6, <1>7, <1>8, <1>9 DEF Proceed

LEMMA OtherRequestsStay ==
  ASSUME PathInv, NEW r \in Requests, NEW q \in Requests \ {r},
         Proceed(r) \/ \E e \in Offered[r], a \in Addresses : Receive(r, e, a)
  PROVE  StepsLeft'[q] = StepsLeft[q]
<1>1. stage'[q] = stage[q] /\ ran'[q] = ran[q]
  BY DEF Proceed, RefuseToken, LookUp, TokenAccepted, TokenNamesNothing, RefuseBody,
     CheckLimit, RunNext, Refuse, Complete, Propagate, FunctionStep, Send, Receive,
     Answer, Leave, requestVars, PathInv, Typed
<1>2. FunctionLeft'[q] = FunctionLeft[q]
  <2>1. CASE LookUp(r) \/ RunNext(r)
    <3>1. \E f \in Functions : Run(r, f)
      <4>1. CASE LookUp(r)
        BY <4>1 DEF LookUp, Functions
      <4>2. CASE RunNext(r)
        <5>1. ran[r] + 1 \in 1 .. Len(Route(r).functions)
          BY <4>2 DEF RunNext, MayGoOn, PathInv, Typed
        <5>2. Route(r).functions[ran[r] + 1] \in Functions
          BY <4>2, <5>1, InHandler DEF RunNext, MayGoOn, Shaped
        <5> QED
          BY <4>2, <5>2 DEF RunNext
      <4> QED
        BY <2>1, <4>1, <4>2
    <3> QED
      BY <3>1, OtherFunctionsStay DEF PathInv, PoolInv
  <2>2. CASE FunctionStep(r) \/ Send(r)
    BY <2>2, OtherFunctionsStay DEF FunctionStep, Send, PathInv, PoolInv
  <2>3. CASE UNCHANGED poolVars
    BY <2>3, FunctionLeftSame
  <2> QED
    BY <2>1, <2>2, <2>3
    DEF Proceed, RefuseToken, TokenAccepted, TokenNamesNothing, RefuseBody, CheckLimit,
        Refuse, Complete, Propagate, Receive
<1> QED
  BY <1>1, <1>2 DEF StepsLeft, StageLeft

(* A request is over within 24 * MaxTries + 5 steps of its own, from the   *)
(* middlewares to the answer, waits for threads and connections among      *)
(* them: each uses one up, and nothing another request does, nor a window  *)
(* that ends, gives it any.  With the fairness that lets every request     *)
(* make its next step this is why EveryRequestAnswered holds.              *)
THEOREM PathRunsDown ==
  Spec => /\ [](\A r \in Requests : /\ StepsLeft[r] \in 0 .. 24 * MaxTries + 5
                                    /\ StepsLeft[r] = 0 <=> stage[r] = "idle")
          /\ [][\A r \in Requests :
                  /\ Proceed(r) => StepsLeft'[r] < StepsLeft[r]
                  /\ stage[r] # "idle" => StepsLeft'[r] <= StepsLeft[r]]_vars
<1>1. PathInv
        => \A r \in Requests : /\ StepsLeft[r] \in 0 .. 24 * MaxTries + 5
                               /\ StepsLeft[r] = 0 <=> stage[r] = "idle"
  BY StepsLeftBounds
<1>2. PathInv /\ PathInv' /\ [Next]_vars
        => [\A r \in Requests :
              /\ Proceed(r) => StepsLeft'[r] < StepsLeft[r]
              /\ stage[r] # "idle" => StepsLeft'[r] <= StepsLeft[r]]_vars
  <2> SUFFICES ASSUME PathInv, PathInv', Next, NEW q \in Requests
               PROVE  /\ Proceed(q) => StepsLeft'[q] < StepsLeft[q]
                      /\ stage[q] # "idle" => StepsLeft'[q] <= StepsLeft[q]
    OBVIOUS
  <2>1. Proceed(q) => StepsLeft'[q] < StepsLeft[q]
    BY ProceedRunsDown
  <2>2. ASSUME stage[q] # "idle" PROVE StepsLeft'[q] <= StepsLeft[q]
    <3>1. StepsLeft[q] \in Nat
      BY StepsLeftBounds
    <3>2. CASE Proceed(q)
      <4>1. StepsLeft'[q] \in Nat
        <5>1. /\ try'[q] \in 1 .. MaxTries /\ asleep'[q] \in BOOLEAN
              /\ ran'[q] \in 0 .. 2 /\ stage'[q] \in Stages /\ MaxTries \in Nat \ {0}
          <6>1. PoolInv' /\ Typed'
            BY DEF PathInv
          <6> QED
            BY <6>1, MaxTriesAssumption DEF Typed, PoolInv, PoolTypeOK, CallTypeOK
        <5>2. FunctionLeft'[q] \in Nat
          BY <5>1 DEF FunctionLeft, RunLeft
        <5>3. StageLeft(q)' \in Nat
          BY <5>1 DEF StageLeft
        <5> QED
          BY <5>2, <5>3 DEF StepsLeft
      <4> QED
        BY <2>1, <3>1, <3>2, <4>1
    <3>3. CASE \E e \in Offered[q], a \in Addresses : Receive(q, e, a)
      BY <2>2, <3>3 DEF Receive
    <3>4. ASSUME NEW r \in Requests \ {q},
                 Proceed(r) \/ \E e \in Offered[r], a \in Addresses : Receive(r, e, a)
          PROVE  StepsLeft'[q] <= StepsLeft[q]
      BY <3>1, <3>4, OtherRequestsStay
    <3>5. ASSUME NEW k \in Keys, WindowEnds(k) PROVE StepsLeft'[q] <= StepsLeft[q]
      <4>1. FunctionLeft'[q] = FunctionLeft[q] /\ StageLeft(q)' = StageLeft(q)
        BY <3>5, FunctionLeftSame DEF WindowEnds, requestVars, StageLeft
      <4> QED
        BY <3>1, <4>1 DEF StepsLeft
    <3> QED
      BY <3>2, <3>3, <3>4, <3>5 DEF Next
  <2> QED
    BY <2>1, <2>2
<1> QED
  BY <1>1, <1>2, PathAlways, PTL DEF Spec

=============================================================================
