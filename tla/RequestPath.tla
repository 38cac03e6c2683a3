------------------------------ MODULE RequestPath ------------------------------
(***************************************************************************)
(* A request on its way through the application of app/main.py: host       *)
(* check, security headers, counters, logging context, token, rate limit,  *)
(* the functions its endpoint runs in the worker threads of                *)
(* ConnectionPool, and back out.                                           *)
(*                                                                         *)
(* app.add_middleware makes the middleware added last the outermost.  Each *)
(* of them runs what is inside it in a task of its own, with a copy of its *)
(* context; anyio copies the context once more into the worker thread.  So *)
(* what the endpoint binds is seen by the endpoint and its threads only.   *)
(* LoggingContextMiddleware binds the subject of a token in the same way,  *)
(* one task further out; it is the sender's own too, and left out here.    *)
(*                                                                         *)
(* Every request is sent by an operator of its own, so that the request    *)
(* stands for the operator: a context that names another request is mixed  *)
(* up.                                                                     *)
(***************************************************************************)
EXTENDS ConnectionPool

CONSTANTS
  Addresses,    (* client addresses the limiter tells apart                *)
  Limit,        (* requests per window of a rate-limited endpoint          *)
  Offered       (* per request: the endpoints it may ask for               *)

(* An endpoint: whether its dependency looks up the token first, whether a *)
(* limit decorates it, the functions it runs one after the other, and the  *)
(* status codes it may answer instead of going on, before the first        *)
(* function and after each of them.                                        *)
Endpoint(protected, limited, functions, refusals) ==
  [protected |-> protected, limited |-> limited,
   functions |-> functions, refusals |-> refusals]

Routes == [
  register |-> Endpoint(FALSE, TRUE, <<"read", "insert">>, <<{422}, {400}, {}>>),
  login    |-> Endpoint(FALSE, TRUE, <<"read">>, <<{400}, {401}>>),
  session  |-> Endpoint(TRUE, FALSE, <<"insert">>, <<{}, {}>>),
  rename   |-> Endpoint(TRUE, FALSE, <<"update">>, <<{422, 403}, {422}>>),
  remove   |-> Endpoint(TRUE, FALSE, <<"delete">>, <<{403}, {}>>),
  sessions |-> Endpoint(TRUE, FALSE, <<"read">>, <<{}, {422}>>),
  triage   |-> Endpoint(TRUE, FALSE, <<>>, <<{422, 500, 504}>>),
  health   |-> Endpoint(FALSE, TRUE, <<"probe">>, <<{}, {503}>>),
  root     |-> Endpoint(FALSE, TRUE, <<>>, <<{}>>)]

ASSUME AddressesAssumption == Addresses # {}
ASSUME LimitAssumption == Limit \in Nat
ASSUME OfferedAssumption ==
  /\ Offered \in [Requests -> SUBSET DOMAIN Routes]
  /\ \A r \in Requests : Offered[r] # {}

Limited == {e \in UNION {Offered[r] : r \in Requests} : Routes[e].limited}

Nobody == "nobody"
Statuses == {200, 400, 401, 403, 404, 422, 429, 500, 503, 504}

VARIABLES
  stage,        (* per request: how far in it is                           *)
  endpoint,     (* per request: the endpoint it asks for                   *)
  address,      (* per request: where it comes from                        *)
  ran,          (* per request: functions of its endpoint that have ended  *)
  context,      (* per request: the operator its log lines name            *)
  status,       (* per request: status code on its way out                 *)
  counted,      (* per request: status code it was counted with, or 0      *)
  headers,      (* per request: its answer has the security headers        *)
  hits,         (* per address and endpoint: hits of the limiter in this   *)
                (* window; above the limit they make no difference         *)
  admitted      (* per address and endpoint: requests let through in it    *)

requestVars == <<stage, endpoint, address, ran, context, status, counted, headers>>
limiterVars == <<hits, admitted>>
vars == <<poolVars, requestVars, limiterVars>>

Stages == {"idle", "inside", "token", "handler", "answered"}
Keys == Addresses \X Limited

PathTypeOK ==
  /\ PoolTypeOK
  /\ stage \in [Requests -> Stages]
  /\ \A r \in Requests : endpoint[r] \in Offered[r]
  /\ address \in [Requests -> Addresses]
  /\ ran \in [Requests -> 0 .. 2]
  /\ context \in [Requests -> Requests \cup {Nobody}]
  /\ status \in [Requests -> Statuses \cup {0}]
  /\ counted \in [Requests -> Statuses \cup {0}]
  /\ headers \in [Requests -> BOOLEAN]
  /\ hits \in [Keys -> 0 .. Limit]
  /\ admitted \in [Keys -> Nat]
  /\ \A r \in Requests : (place[r] # "out" \/ asleep[r]) => stage[r] \in {"token", "handler"}

(* The inputs a request has before it arrives are never read. *)
AnyEndpoint(r) == CHOOSE e \in Offered[r] : TRUE
AnyAddress == CHOOSE a \in Addresses : TRUE

Init ==
  /\ PoolInit
  /\ stage = [r \in Requests |-> "idle"]
  /\ endpoint = [r \in Requests |-> AnyEndpoint(r)]
  /\ address = [r \in Requests |-> AnyAddress]
  /\ ran = [r \in Requests |-> 0]
  /\ context = [r \in Requests |-> Nobody]
  /\ status = [r \in Requests |-> 0]
  /\ counted = [r \in Requests |-> 0]
  /\ headers = [r \in Requests |-> FALSE]
  /\ hits = [k \in Keys |-> 0]
  /\ admitted = [k \in Keys |-> 0]

-----------------------------------------------------------------------------
(* On the way in.                                                          *)

(* A request arrives.  It passes the middlewares into the router, or the   *)
(* two outermost answer it at once: CORS a preflight, granted or not, the  *)
(* host check another host (never with the default ALLOWED_HOSTS).         *)
Receive(r, e, a) ==
  /\ stage[r] = "idle"
  /\ \/ /\ stage' = [stage EXCEPT ![r] = "inside"]
        /\ endpoint' = [endpoint EXCEPT ![r] = e]
        /\ address' = [address EXCEPT ![r] = a]
        /\ UNCHANGED status
     \/ /\ stage' = [stage EXCEPT ![r] = "answered"]
        /\ \E code \in {200, 400} : status' = [status EXCEPT ![r] = code]
        /\ UNCHANGED <<endpoint, address>>
  /\ UNCHANGED <<poolVars, ran, context, counted, headers, limiterVars>>

(* Mistake: only responses are counted. *)
CountResponses(r, code) ==
  counted' = [counted EXCEPT ![r] = IF result[r] = "error" THEN 0 ELSE code]

(* The counters take an exception for a 500. *)
Count(r, code) == counted' = [counted EXCEPT ![r] = code]

(* The router has an answer or an exception, and the middlewares end from  *)
(* the inside out: the endpoint's task ends with its context, the request  *)
(* is counted, and a response gets the security headers.  An exception     *)
(* passes them by: the server's own error handler, outside, answers it.    *)
Leave(r, code, response) ==
  /\ stage' = [stage EXCEPT ![r] = "answered"]
  /\ status' = [status EXCEPT ![r] = code]
  /\ Count(r, code)
  /\ headers' = [headers EXCEPT ![r] = response]
  /\ context' = [context EXCEPT ![r] = Nobody]
  /\ UNCHANGED <<endpoint, address, ran>>

Answer(r, code) == Leave(r, code, TRUE)

Route(r) == Routes[endpoint[r]]

(* A token that is missing (HTTPBearer), malformed (verify_token raises),  *)
(* expired or not ours (it returns None).                                  *)
RefuseToken(r) ==
  /\ stage[r] = "inside"
  /\ Route(r).protected
  /\ \E code \in {403, 422, 401} : Answer(r, code)
  /\ UNCHANGED <<poolVars, limiterVars>>

(* The dependency looks up what the token names. *)
LookUp(r) ==
  /\ stage[r] = "inside"
  /\ Route(r).protected
  /\ Run(r, "read")
  /\ stage' = [stage EXCEPT ![r] = "token"]
  /\ UNCHANGED <<endpoint, address, ran, context, status, counted, headers, limiterVars>>

(* r awaits no function. *)
Resumed(r) == place[r] = "out" /\ ~asleep[r]

(* Mistake: the logging context is one for the process. *)
BindForAll(r) == context' = [q \in Requests |-> r]

(* bind_context in the endpoint's own task. *)
Bind(r) == context' = [context EXCEPT ![r] = r]

(* The row is there: the operator is bound, and the endpoint is entered. *)
TokenAccepted(r) ==
  /\ stage[r] = "token"
  /\ Resumed(r)
  /\ result[r] = "ok"
  /\ Bind(r)
  /\ stage' = [stage EXCEPT ![r] = "handler"]
  /\ UNCHANGED <<poolVars, endpoint, address, ran, status, counted, headers, limiterVars>>

TokenNamesNothing(r) ==
  /\ stage[r] = "token"
  /\ Resumed(r)
  /\ result[r] = "ok"
  /\ Answer(r, 404)
  /\ UNCHANGED <<poolVars, limiterVars>>

(* The body of an endpoint without a token, if it has one, does not        *)
(* validate.                                                               *)
RefuseBody(r) ==
  /\ stage[r] = "inside"
  /\ ~Route(r).protected
  /\ endpoint[r] \in {"register", "login"}
  /\ Answer(r, 422)
  /\ UNCHANGED <<poolVars, limiterVars>>

Key(r) == <<address[r], endpoint[r]>>

(* The count, with this request in it, does not exceed the limit. *)
Allowed(k) == hits[k] + 1 <= Limit

(* Mistake: the limit's decorator stands above the route's, which then      *)
(* registers the endpoint without it.                                      *)
CheckLimitNever(r) ==
  /\ stage[r] = "inside"
  /\ ~Route(r).protected
  /\ admitted' = [admitted EXCEPT ![Key(r)] = admitted[Key(r)] + 1]
  /\ stage' = [stage EXCEPT ![r] = "handler"]
  /\ UNCHANGED <<poolVars, endpoint, address, ran, context, status, counted, headers, hits>>

(* The limiter's decorator is the first thing an unprotected endpoint does *)
(* (they are the limited ones).  A request counts also if it is refused.   *)
CheckLimit(r) ==
  /\ stage[r] = "inside"
  /\ ~Route(r).protected
  /\ hits' = [hits EXCEPT ![Key(r)] = IF @ < Limit THEN @ + 1 ELSE @]
  /\ IF Allowed(Key(r))
       THEN /\ admitted' = [admitted EXCEPT ![Key(r)] = admitted[Key(r)] + 1]
            /\ stage' = [stage EXCEPT ![r] = "handler"]
            /\ UNCHANGED <<endpoint, address, ran, context, status, counted, headers>>
       ELSE Answer(r, 429) /\ UNCHANGED admitted
  /\ UNCHANGED poolVars

(* A fixed window ends for the key whose first hit began it. *)
WindowEnds(k) ==
  /\ hits[k] > 0
  /\ hits' = [hits EXCEPT ![k] = 0]
  /\ admitted' = [admitted EXCEPT ![k] = 0]
  /\ UNCHANGED <<poolVars, requestVars>>

-----------------------------------------------------------------------------
(* In the endpoint.                                                        *)

(* The endpoint has what it awaited, if anything, and no error. *)
MayGoOn(r) ==
  /\ stage[r] = "handler"
  /\ Resumed(r)
  /\ ran[r] > 0 => result[r] # "error"

RunNext(r) ==
  /\ MayGoOn(r)
  /\ ran[r] < Len(Route(r).functions)
  /\ Run(r, Route(r).functions[ran[r] + 1])
  /\ ran' = [ran EXCEPT ![r] = ran[r] + 1]
  /\ UNCHANGED <<stage, endpoint, address, context, status, counted, headers, limiterVars>>

(* The endpoint raises an HTTPException, or answers that it is degraded. *)
Refuse(r) ==
  /\ MayGoOn(r)
  /\ ran[r] > 0 => result[r] # "missing"
  /\ \E code \in Route(r).refusals[ran[r] + 1] : Answer(r, code)
  /\ UNCHANGED <<poolVars, limiterVars>>

(* All functions have ended.  rename takes a missing row for a 404, the    *)
(* health check a False for a 503; remove does not look.                   *)
Complete(r) ==
  /\ MayGoOn(r)
  /\ ran[r] = Len(Route(r).functions)
  /\ Answer(r, IF ran[r] > 0 /\ result[r] = "unhealthy" THEN 503
               ELSE IF ran[r] > 0 /\ result[r] = "missing" /\ function[r] = "update" THEN 404
               ELSE 200)
  /\ UNCHANGED <<poolVars, limiterVars>>

(* Mistake: an error handler tells the client to try again. *)
PropagateAsUnavailable(r) ==
  /\ stage[r] \in {"token", "handler"}
  /\ Resumed(r)
  /\ result[r] = "error"
  /\ stage[r] = "handler" => ran[r] > 0
  /\ Leave(r, 503, TRUE)
  /\ UNCHANGED <<poolVars, limiterVars>>

(* An error of the database that neither the endpoint nor its dependency   *)
(* catches.                                                                *)
Propagate(r) ==
  /\ stage[r] \in {"token", "handler"}
  /\ Resumed(r)
  /\ result[r] = "error"
  /\ stage[r] = "handler" => ran[r] > 0
  /\ Leave(r, 500, FALSE)
  /\ UNCHANGED <<poolVars, limiterVars>>

(* A function of r makes a step. *)
FunctionStep(r) == PoolStep(r) /\ UNCHANGED <<requestVars, limiterVars>>

(* The client has its answer, and nothing of the request is left. *)
Send(r) ==
  /\ stage[r] = "answered"
  /\ stage' = [stage EXCEPT ![r] = "idle"]
  /\ endpoint' = [endpoint EXCEPT ![r] = AnyEndpoint(r)]
  /\ address' = [address EXCEPT ![r] = AnyAddress]
  /\ ran' = [ran EXCEPT ![r] = 0]
  /\ status' = [status EXCEPT ![r] = 0]
  /\ counted' = [counted EXCEPT ![r] = 0]
  /\ headers' = [headers EXCEPT ![r] = FALSE]
  /\ Forget(r)
  /\ UNCHANGED <<context, limiterVars>>

Proceed(r) ==
  \/ RefuseToken(r)
  \/ LookUp(r)
  \/ TokenAccepted(r)
  \/ TokenNamesNothing(r)
  \/ RefuseBody(r)
  \/ CheckLimit(r)
  \/ RunNext(r)
  \/ Refuse(r)
  \/ Complete(r)
  \/ Propagate(r)
  \/ FunctionStep(r)
  \/ Send(r)

Next ==
  \/ \E r \in Requests : \/ Proceed(r)
                        \/ \E e \in Offered[r], a \in Addresses : Receive(r, e, a)
  \/ \E k \in Keys : WindowEnds(k)

Spec == Init /\ [][Next]_vars

(* The event loop and the threads run; statements, pauses and the waits    *)
(* for a connection end.                                                   *)
FairSpec == Spec /\ \A r \in Requests : WF_vars(Proceed(r))

-----------------------------------------------------------------------------

(* Every request is answered, although threads block while they wait for   *)
(* connections, connections are taken in no order, and arrivals never end: *)
(* it is over again and again.                                             *)
EveryRequestAnswered == \A r \in Requests : []<>(stage[r] = "idle")

(* In one window no address gets more requests through to an endpoint than *)
(* its limit, however many it sends at a time.                             *)
QuotaHolds == \A k \in Keys : admitted[k] <= Limit

(* A client that is refused by host, token, limit or endpoint has changed  *)
(* nothing, whatever was retried on the way.  The exceptions are rename's  *)
(* 404 and 422, which may follow a commit of its own: the retry can find   *)
(* the row deleted meanwhile, and the new name can be too long to return.  *)
RefusedHasNoEffect ==
  \A r \in Requests :
    effect[r] => \/ status[r] \in {0, 200, 500}
                 \/ endpoint[r] = "rename" /\ status[r] \in {404, 422}

(* Every answer is counted with its own status code, be it a response or   *)
(* an exception; only preflights and what the host check refuses never get *)
(* that far, and they have no security headers either.                     *)
CountedAsAnswered ==
  \A r \in Requests :
    stage[r] = "answered" =>
      \/ counted[r] = status[r] /\ (~headers[r] => status[r] = 500)
      \/ counted[r] = 0 /\ status[r] \in {200, 400} /\ ~headers[r]

(* A log line of one request never names the operator of another, and the  *)
(* lines of a protected endpoint and its threads name their own.           *)
LinesAttributed ==
  \A r \in Requests :
    /\ context[r] \in {r, Nobody}
    /\ stage[r] = "handler" /\ Route(r).protected => context[r] = r

=============================================================================
