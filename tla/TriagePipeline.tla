---------------------------- MODULE TriagePipeline ----------------------------
(***************************************************************************)
(* POST /api/v1/operations/triage: the endpoint, the three-node graph it   *)
(* runs (triage, retrieve, summarize) and the shared LLM service the first *)
(* and the last node call.  A caller of the LLM service is a request here. *)
(*                                                                         *)
(* Between two awaits a request runs alone, so a node's end and the start  *)
(* of what follows are one action unless an await separates them.  The     *)
(* endpoint's deadline may expire at every await.                          *)
(***************************************************************************)
EXTENDS LLMService

(* The nodes call the service without a model_name. *)
ASSUME NoPinAssumption == NoPin \in Pins

VARIABLES
  stage,      (* per request: the node it is in or about to enter          *)
  facts,      (* per request: service_name and symptoms in the graph state *)
  context,    (* per request: runbook_context in the graph state           *)
  summary,    (* per request: diagnostic_summary in the graph state        *)
  response    (* per request: status code of the answer, 0 before it       *)

graphVars == <<facts, context, summary>>
requestVars == <<stage, graphVars, response>>
pvars == <<vars, requestVars>>

Requests == Callers
Nodes == {"triage", "retrieve", "summarize"}

(* What a model's reply to the triage prompt can be: a JSON object with    *)
(* text fields, one whose fields are not text, JSON that is no object,     *)
(* text that is no JSON, or content that is not text at all.               *)
TriageReplies == {"object", "mistyped", "no_object", "no_json", "blocks"}

(* Any other reply carries a summary that is text or is not.               *)
SummaryReplies == {"text", "blocks"}

Facts == {"none", "extracted", "mistyped", "unknown"}
Contexts == {"none", "excerpts", "notice", "unreachable"}

PipelineTypeOK ==
  /\ TypeOK
  /\ stage \in [Requests -> Nodes \cup {"new", "answered"}]
  /\ facts \in [Requests -> Facts]
  /\ context \in [Requests -> Contexts]
  /\ summary \in [Requests -> SummaryReplies \cup {"none"}]
  /\ response \in [Requests -> {0, 200, 500, 504}]

InProgress(r) == stage[r] \in Nodes

PInit ==
  /\ Init
  /\ stage = [r \in Requests |-> "new"]
  /\ facts = [r \in Requests |-> "none"]
  /\ context = [r \in Requests |-> "none"]
  /\ summary = [r \in Requests |-> "none"]
  /\ response = [r \in Requests |-> 0]

-----------------------------------------------------------------------------

(* The handler answers r.  Every exception but the deadline is a 500. *)
Respond(r, code) ==
  /\ stage' = [stage EXCEPT ![r] = "answered"]
  /\ response' = [response EXCEPT ![r] = code]

(* An authenticated request arrives: a fresh graph state, the deadline set. *)
Receive(r) ==
  /\ ~InProgress(r)
  /\ stage' = [stage EXCEPT ![r] = "triage"]
  /\ facts' = [facts EXCEPT ![r] = "none"]
  /\ context' = [context EXCEPT ![r] = "none"]
  /\ summary' = [summary EXCEPT ![r] = "none"]
  /\ response' = [response EXCEPT ![r] = 0]
  /\ UNCHANGED vars

(* r has entered a node that starts with a call of the model.  A second    *)
(* call while one is under way is ruled out by Begin and Reject.           *)
CallDue(r) == stage[r] \in {"triage", "summarize"}

(* A node calls the model and is let through ... *)
CallModel(r) ==
  /\ CallDue(r)
  /\ Begin(r, NoPin)
  /\ UNCHANGED requestVars

(* ... or the open circuit refuses it, which ends the request.  The        *)
(* exception passes straight through the graph.                            *)
CallRefused(r) ==
  /\ CallDue(r)
  /\ Reject(r)
  /\ Respond(r, 500)
  /\ UNCHANGED graphVars

(* Retries and model switches, which the request waits out. *)
KeepWaiting(r) ==
  /\ TransientError(r) \/ Retry(r) \/ SwitchModel(r)
  /\ UNCHANGED requestVars

(* The call fails for good.  An exception from outside the OpenAI library  *)
(* may itself be a TimeoutError, which the handler answers like its own.   *)
CallFails(r) ==
  /\ \/ Exhaust(r) /\ Respond(r, 500)
     \/ ForeignError(r) /\ (Respond(r, 500) \/ Respond(r, 504))
  /\ UNCHANGED graphVars

(* The facts the triage node takes from a usable reply.  A reply that is   *)
(* no JSON, or no text, gives the fallback facts.                          *)
FactsOf(reply) ==
  CASE reply = "object" -> "extracted"
    [] reply = "mistyped" -> "mistyped"
    [] reply \in {"no_json", "blocks"} -> "unknown"

(* The triage node ends.  On JSON that is no object its .get raises        *)
(* AttributeError, which the node does not catch.                          *)
TriageReply(r, reply) ==
  /\ stage[r] = "triage"
  /\ Succeed(r)
  /\ IF reply = "no_object"
       THEN Respond(r, 500) /\ UNCHANGED graphVars
       ELSE /\ stage' = [stage EXCEPT ![r] = "retrieve"]
            /\ facts' = [facts EXCEPT ![r] = FactsOf(reply)]
            /\ UNCHANGED <<context, summary, response>>

(* Mistake: the node lets an exception of the service through. *)
RetrieveUncaught(r) ==
  /\ stage[r] = "retrieve"
  /\ \E found \in Contexts \ {"none"} :
       /\ context' = [context EXCEPT ![r] = found]
       /\ IF found = "unreachable"
            THEN Respond(r, 500)
            ELSE stage' = [stage EXCEPT ![r] = "summarize"] /\ UNCHANGED response
  /\ UNCHANGED <<vars, facts, summary>>

(* The search ends: excerpts, a notice of the service (nothing found, or   *)
(* its store failed), or an exception the node turned into a notice.       *)
Retrieve(r) ==
  /\ stage[r] = "retrieve"
  /\ \E found \in Contexts \ {"none"} : context' = [context EXCEPT ![r] = found]
  /\ stage' = [stage EXCEPT ![r] = "summarize"]
  /\ UNCHANGED <<vars, facts, summary, response>>

(* The summarize node and the graph end.  TriageResponse takes only text   *)
(* fields; its validation error is an exception like any other.            *)
SummaryReply(r, reply) ==
  /\ stage[r] = "summarize"
  /\ Succeed(r)
  /\ summary' = [summary EXCEPT ![r] = reply]
  /\ Respond(r, IF reply = "text" /\ facts[r] # "mistyped" THEN 200 ELSE 500)
  /\ UNCHANGED <<facts, context>>

(* Mistakes: the deadline answers but leaves the call running; it guards   *)
(* the model calls only; it books the cancelled call as a full failure.    *)
TimeoutLeavesCall(r) ==
  /\ InProgress(r)
  /\ UNCHANGED vars
  /\ Respond(r, 504)
  /\ UNCHANGED graphVars

TimeoutOfCallsOnly(r) ==
  /\ InProgress(r)
  /\ InFlight(r)
  /\ Cancel(r)
  /\ Respond(r, 504)
  /\ UNCHANGED graphVars

TimeoutCounts(r) ==
  /\ InProgress(r)
  /\ IF InFlight(r)
       THEN /\ CountFullFailure
            /\ phase' = [phase EXCEPT ![r] = "cancelled"]
            /\ UNCHANGED <<modelVars, tried, attempt>>
       ELSE UNCHANGED vars
  /\ Respond(r, 504)
  /\ UNCHANGED graphVars

(* The deadline expires at whatever await the request is; an LLM call      *)
(* under way is cancelled with it.                                         *)
Timeout(r) ==
  /\ InProgress(r)
  /\ IF InFlight(r) THEN Cancel(r) ELSE UNCHANGED vars
  /\ Respond(r, 504)
  /\ UNCHANGED graphVars

-----------------------------------------------------------------------------

Request(r) ==
  \/ Receive(r)
  \/ CallModel(r)
  \/ CallRefused(r)
  \/ KeepWaiting(r)
  \/ CallFails(r)
  \/ \E reply \in TriageReplies : TriageReply(r, reply)
  \/ Retrieve(r)
  \/ \E reply \in SummaryReplies : SummaryReply(r, reply)
  \/ Timeout(r)

ClockTick == Tick /\ UNCHANGED requestVars

PNext == ClockTick \/ \E r \in Requests : Request(r)

PSpec == PInit /\ [][PNext]_pvars

(* The only thing that must happen is the deadline: neither the provider   *)
(* nor the vector store need ever answer.                                  *)
DeadlineSpec == PSpec /\ \A r \in Requests : WF_pvars(Timeout(r))

-----------------------------------------------------------------------------
(* Properties.                                                             *)

(* An answered request has no call left in the LLM service: nothing it     *)
(* started retries, switches models or spends tokens after its answer.     *)
NoOrphanedCall == \A r \in Requests : ~InProgress(r) => ~InFlight(r)

(* Each answer is explained by the request's own run.  A 200 carries facts *)
(* of text, a runbook context or its replacement, and the text of the last *)
(* reply; a 500 is never the doing of the retrieval: a call ended without  *)
(* a reply, or a reply was not of the shape the code needs.                *)
AnswersExplained ==
  \A r \in Requests :
    /\ response[r] = 200 =>
         /\ facts[r] \in {"extracted", "unknown"}
         /\ context[r] # "none"
         /\ summary[r] = "text"
         /\ phase[r] = "returned"
    /\ response[r] = 500 =>
         \/ phase[r] \in {"rejected", "exhausted", "errored"}
         \/ facts[r] \in {"none", "mistyped"}
         \/ summary[r] = "blocks"

(* Whatever requests do, the LLM service they share behaves as LLMService  *)
(* specifies: a deadline in particular is neither a failure nor a success  *)
(* to the breaker.                                                         *)
ServiceKeepsItsSpec == Spec

(* The deadline guarantees an answer by itself: a provider, a back-off or  *)
(* a vector store that never comes back cannot keep a request open         *)
(* ("never keeps the request open indefinitely", operations.py:42-43).     *)
EveryRequestAnswered == \A r \in Requests : InProgress(r) ~> ~InProgress(r)

=============================================================================
