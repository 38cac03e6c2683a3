------------------------- MODULE TriagePipeline_proofs -------------------------
(***************************************************************************)
(* Theorems about TriagePipeline for every number of requests, models and  *)
(* attempts: the shared LLM service behaves as LLMService specifies, no    *)
(* call outlives its request, and every status code has its reason.        *)
(***************************************************************************)
EXTENDS TriagePipeline, LLMService_proofs

(* What a request does to the LLM service, one action at a time. *)
LEMMA ServiceStepOfRequest ==
  ASSUME NEW r \in Requests, Request(r)
  PROVE  [Next]_vars
<1> USE DEF Requests
<1>1. CASE Receive(r)
  BY <1>1 DEF Receive
<1>2. CASE CallModel(r)
  BY <1>2, NoPinAssumption DEF CallModel, Next, Start
<1>3. CASE CallRefused(r)
  BY <1>3 DEF CallRefused, Next
<1>4. CASE KeepWaiting(r)
  BY <1>4 DEF KeepWaiting, Next, Answer
<1>5. CASE CallFails(r)
  BY <1>5 DEF CallFails, Next, Answer
<1>6. ASSUME NEW reply \in TriageReplies, TriageReply(r, reply) PROVE [Next]_vars
  BY <1>6 DEF TriageReply, Next, Answer
<1>7. CASE Retrieve(r)
  BY <1>7 DEF Retrieve
<1>8. ASSUME NEW reply \in SummaryReplies, SummaryReply(r, reply) PROVE [Next]_vars
  BY <1>8 DEF SummaryReply, Next, Answer
<1>9. CASE Timeout(r)
  BY <1>9 DEF Timeout, Next
<1> QED
  BY <1>1, <1>2, <1>3, <1>4, <1>5, <1>6, <1>7, <1>8, <1>9 DEF Request

(* Whatever requests do, deadlines included, the breaker and the model     *)
(* position see only what LLMService specifies.                            *)
THEOREM ServiceKept == PSpec => ServiceKeepsItsSpec
<1>1. PInit => Init
  BY DEF PInit
<1>2. [PNext]_pvars => [Next]_vars
  <2>1. CASE ClockTick
    BY <2>1 DEF ClockTick, Next
  <2>2. CASE UNCHANGED pvars
    BY <2>2 DEF pvars
  <2> QED
    BY <2>1, <2>2, ServiceStepOfRequest DEF PNext
<1> QED
  BY <1>1, <1>2, PTL DEF PSpec, ServiceKeepsItsSpec, Spec

(* The invariants of the service hold in the pipeline. *)
LEMMA ServiceTyped == PSpec => []TypeInv
  BY ServiceKept, TypeInvariant, PTL DEF ServiceKeepsItsSpec

-----------------------------------------------------------------------------
(* The answers.                                                            *)

RequestsTyped ==
  /\ stage \in [Requests -> Nodes \cup {"new", "answered"}]
  /\ facts \in [Requests -> Facts]
  /\ context \in [Requests -> Contexts]
  /\ summary \in [Requests -> SummaryReplies \cup {"none"}]
  /\ response \in [Requests -> {0, 200, 500, 504}]

(* What the graph state holds when a node is entered.  AnswersExplained    *)
(* alone is not inductive: it does not say what an unanswered request has  *)
(* collected, nor that a call is under way only in a node that calls.       *)
Collected(r) ==
  /\ InProgress(r) => response[r] = 0
  /\ InFlight(r) => CallDue(r)
  /\ stage[r] = "triage" => facts[r] = "none"
  /\ stage[r] \in {"retrieve", "summarize"} => facts[r] # "none"
  /\ stage[r] = "summarize" => context[r] # "none"

Explained(r) ==
  /\ response[r] = 200 =>
       /\ facts[r] \in {"extracted", "unknown"}
       /\ context[r] # "none"
       /\ summary[r] = "text"
       /\ phase[r] = "returned"
  /\ response[r] = 500 =>
       \/ phase[r] \in {"rejected", "exhausted", "errored"}
       \/ facts[r] \in {"none", "mistyped"}
       \/ summary[r] = "blocks"

PipelineInv ==
  /\ RequestsTyped
  /\ phase \in [Callers -> Phases]
  /\ \A r \in Requests : Collected(r) /\ Explained(r)

LEMMA PipelineInvInit == PInit => PipelineInv
  BY DEF PInit, Init, PipelineInv, RequestsTyped, Collected, Explained, InProgress,
     InFlight, CallDue, Phases, Nodes, Facts, Contexts, SummaryReplies, Requests

LEMMA PipelineInvNext == PipelineInv /\ [PNext]_pvars => PipelineInv'
<1> SUFFICES ASSUME PipelineInv, [PNext]_pvars PROVE PipelineInv'
  OBVIOUS
<1> USE DEF PipelineInv, RequestsTyped, Collected, Explained, InProgress, InFlight, CallDue,
        Phases, Outcomes, Nodes, Facts, Contexts, SummaryReplies, Requests
<1>1. ASSUME NEW r \in Requests, Receive(r) PROVE PipelineInv'
  BY <1>1 DEF Receive, vars
<1>2. ASSUME NEW r \in Requests, CallModel(r) PROVE PipelineInv'
  BY <1>2 DEF CallModel, CallDue, Begin, requestVars, graphVars
<1>3. ASSUME NEW r \in Requests, CallRefused(r) PROVE PipelineInv'
  BY <1>3 DEF CallRefused, CallDue, Reject, Respond, graphVars
<1>4. ASSUME NEW r \in Requests, KeepWaiting(r) PROVE PipelineInv'
  BY <1>4 DEF KeepWaiting, TransientError, Retry, SwitchModel, requestVars, graphVars
<1>5. ASSUME NEW r \in Requests, CallFails(r) PROVE PipelineInv'
  BY <1>5 DEF CallFails, Exhaust, ForeignError, Respond, graphVars
<1>6. ASSUME NEW r \in Requests, NEW reply \in TriageReplies, TriageReply(r, reply)
      PROVE PipelineInv'
  BY <1>6 DEF TriageReply, TriageReplies, FactsOf, Succeed, Respond, graphVars
<1>7. ASSUME NEW r \in Requests, Retrieve(r) PROVE PipelineInv'
  BY <1>7 DEF Retrieve, vars
<1>8. ASSUME NEW r \in Requests, NEW reply \in SummaryReplies, SummaryReply(r, reply)
      PROVE PipelineInv'
  BY <1>8 DEF SummaryReply, Succeed, Respond
<1>9. ASSUME NEW r \in Requests, Timeout(r) PROVE PipelineInv'
  BY <1>9 DEF Timeout, Cancel, Respond, graphVars, vars
<1>10. CASE ClockTick
  BY <1>10 DEF ClockTick, Tick, requestVars, graphVars
<1>11. CASE UNCHANGED pvars
  BY <1>11 DEF pvars, vars, requestVars, graphVars
<1> QED
  BY <1>1, <1>2, <1>3, <1>4, <1>5, <1>6, <1>7, <1>8, <1>9, <1>10, <1>11
  DEF PNext, Request

LEMMA PipelineInvariant == PSpec => []PipelineInv
  BY PipelineInvInit, PipelineInvNext, PTL DEF PSpec

(* Every variable of the pipeline keeps its type, those of the service     *)
(* included.                                                               *)
THEOREM PipelineTypeCorrect == PSpec => []PipelineTypeOK
<1>1. PipelineInv /\ TypeInv => PipelineTypeOK
  BY DEF PipelineInv, RequestsTyped, PipelineTypeOK, TypeInv
<1> QED
  BY <1>1, PipelineInvariant, ServiceTyped, PTL

(* When a request has been answered, by whatever path, its call of the     *)
(* model has left the LLM service.                                         *)
THEOREM NothingOrphaned == PSpec => []NoOrphanedCall
<1>1. PipelineInv => NoOrphanedCall
  BY DEF PipelineInv, Collected, NoOrphanedCall, CallDue, InProgress, Nodes
<1> QED
  BY <1>1, PipelineInvariant, PTL

(* Every 200 rests on facts, a context and a summary of the request's own  *)
(* run, and no 500 is the doing of the retrieval.                          *)
THEOREM AnswersAlwaysExplained == PSpec => []AnswersExplained
<1>1. PipelineInv => AnswersExplained
  BY DEF PipelineInv, Explained, AnswersExplained
<1> QED
  BY <1>1, PipelineInvariant, PTL

-----------------------------------------------------------------------------
(* How long a request can take when its deadline does not expire.          *)

(* The awaits of a node's model call, those of a call to come included.    *)
CallLeft ==
  [r \in Requests |-> IF InFlight(r) THEN AwaitsLeft(r) + 1 ELSE 2 * Budget + 1]

StepsLeft ==
  [r \in Requests |->
     IF stage[r] = "triage" THEN 2 * Budget + 2 + CallLeft[r]
     ELSE IF stage[r] = "retrieve" THEN 2 * Budget + 2
     ELSE IF stage[r] = "summarize" THEN CallLeft[r] ELSE 0]

CallsBounded == TypeInv /\ WorkInBudget

LEMMA CallLeftBounds ==
  ASSUME CallsBounded, NEW r \in Requests
  PROVE  /\ Budget \in Nat
         /\ CallLeft[r] \in 1 .. 2 * Budget + 1
         /\ InFlight(r) => CallLeft[r] <= 2 * Budget
<1>1. Budget \in Nat /\ AwaitsLeft(r) \in 0 .. 2 * Budget - 1
  BY BudgetNat, AwaitsBounded DEF CallsBounded, Requests
<1> QED
  BY <1>1 DEF CallLeft, Requests

LEMMA VarsKeepCalls == UNCHANGED vars => CallLeft' = CallLeft
BY DEF vars, CallLeft, AwaitsLeft, Work, InFlight, Budget

LEMMA CallLeftNat ==
  ASSUME CallsBounded', NEW r \in Requests
  PROVE  CallLeft'[r] \in Nat
<1>1. Work(r)' \in Nat /\ Budget \in Nat
  BY WorkNatNext, BudgetNat DEF CallsBounded, Requests
<1>2. CallLeft'[r] = IF InFlight(r)' THEN AwaitsLeft(r)' + 1 ELSE 2 * Budget + 1
  BY DEF CallLeft, Budget
<1> QED
  BY <1>1, <1>2 DEF AwaitsLeft

LEMMA StepsLeftBounds ==
  ASSUME CallsBounded, RequestsTyped, NEW r \in Requests
  PROVE  /\ StepsLeft[r] \in 0 .. 4 * Budget + 3
         /\ StepsLeft[r] = 0 <=> ~InProgress(r)
BY CallLeftBounds DEF StepsLeft, InProgress, Nodes, RequestsTyped

(* The call of a node begins with less than the node had before it ...     *)
LEMMA BegunCallRunsDown ==
  ASSUME TypeInv, NEW r \in Requests, Begin(r, NoPin)
  PROVE  CallLeft'[r] < CallLeft[r]
<1>1. Work(r)' + 1 = Budget /\ Budget \in Nat
  BY StartWork, BudgetNat, NoPinAssumption DEF Start, Requests
<1>2. ~InFlight(r) /\ InFlight(r)' /\ phase'[r] = "waiting"
  BY DEF Begin, InFlight, TypeInv, TypeOK, Requests
<1>3. CallLeft[r] = 2 * Budget + 1
  BY <1>2 DEF CallLeft
<1>4. CallLeft'[r] = AwaitsLeft(r)' + 1
  BY <1>2 DEF CallLeft
<1>5. AwaitsLeft(r)' = 2 * Work(r)' + 1
  BY <1>2 DEF AwaitsLeft
<1>6. Work(r)' = Budget - 1
  <2>1. Work(r)' \in Nat
    BY <1>1, <1>2, FreshBudget, LeftNat, NumModelsAssumption, MaxAttemptsAssumption
    DEF Begin, Work, Left, TypeInv, TypeOK, Requests
  <2> QED
    BY <1>1, <2>1
<1> QED
  BY <1>1, <1>3, <1>4, <1>5, <1>6

(* ... and goes on with less. *)
LEMMA CallRunsDown ==
  ASSUME TypeInv, TypeInv', NEW r \in Requests,
         TransientError(r) \/ Retry(r) \/ SwitchModel(r)
  PROVE  CallLeft'[r] < CallLeft[r]
<1>1. InFlight(r) /\ InFlight(r)'
  BY DEF TransientError, Retry, SwitchModel, InFlight, TypeInv, TypeOK, Requests
<1>2. CallLeft[r] = AwaitsLeft(r) + 1 /\ CallLeft'[r] = AwaitsLeft(r)' + 1
  BY <1>1 DEF CallLeft
<1>3. AwaitsLeft(r)' < AwaitsLeft(r)
  BY AwaitsRunDown DEF Requests
<1>4. AwaitsLeft(r) \in Nat /\ AwaitsLeft(r)' \in Nat
  <2>1. Work(r) \in Nat /\ Work(r)' \in Nat
    BY WorkNat, WorkNatNext DEF Requests
  <2> QED
    BY <2>1 DEF AwaitsLeft
<1> QED
  BY <1>2, <1>3, <1>4

LEMMA RequestRunsDown ==
  ASSUME CallsBounded, CallsBounded', PipelineInv, NEW r \in Requests,
         InProgress(r), Request(r)
  PROVE  StepsLeft'[r] < StepsLeft[r]
<1>1. /\ Budget \in Nat /\ CallLeft[r] \in 1 .. 2 * Budget + 1
      /\ CallLeft'[r] \in Nat
      /\ stage \in [Requests -> Nodes \cup {"new", "answered"}]
      /\ TypeInv /\ TypeInv'
      /\ stage[r] \in Nodes
  BY CallLeftBounds, CallLeftNat DEF CallsBounded, PipelineInv, RequestsTyped, InProgress
<1>2. CASE stage'[r] = "answered"
  <2>1. StepsLeft'[r] = 0
    BY <1>2 DEF StepsLeft
  <2>2. StepsLeft[r] \in Nat /\ StepsLeft[r] # 0
    BY StepsLeftBounds DEF PipelineInv
  <2> QED
    BY <2>1, <2>2
<1>3. ASSUME stage' = stage, CallDue(r), CallLeft'[r] < CallLeft[r]
      PROVE  StepsLeft'[r] < StepsLeft[r]
  BY <1>1, <1>3 DEF StepsLeft, CallDue, Budget
<1>4. CASE CallModel(r)
  BY <1>1, <1>3, <1>4, BegunCallRunsDown DEF CallModel, requestVars
<1>5. CASE KeepWaiting(r)
  <2>1. InFlight(r)
    BY <1>1, <1>5 DEF KeepWaiting, TransientError, Retry, SwitchModel, InFlight
  <2>2. CallLeft'[r] < CallLeft[r] /\ stage' = stage
    BY <1>1, <1>5, CallRunsDown DEF KeepWaiting, requestVars
  <2> QED
    BY <1>3, <2>1, <2>2 DEF PipelineInv, Collected
<1>6. CASE Retrieve(r)
  <2>1. CallLeft' = CallLeft
    BY <1>6, VarsKeepCalls DEF Retrieve
  <2>2. stage[r] = "retrieve" /\ stage'[r] = "summarize"
    BY <1>1, <1>6 DEF Retrieve
  <2>3. StepsLeft[r] = 2 * Budget + 2 /\ StepsLeft'[r] = CallLeft'[r]
    BY <2>2 DEF StepsLeft
  <2> QED
    BY <1>1, <2>1, <2>3
<1>7. ASSUME NEW reply \in TriageReplies, TriageReply(r, reply), stage'[r] # "answered"
      PROVE  StepsLeft'[r] < StepsLeft[r]
  <2>1. stage[r] = "triage" /\ stage'[r] = "retrieve"
    BY <1>1, <1>7 DEF TriageReply, Respond
  <2>2. StepsLeft[r] = 2 * Budget + 2 + CallLeft[r] /\ StepsLeft'[r] = 2 * Budget + 2
    BY <2>1 DEF StepsLeft, Budget
  <2> QED
    BY <1>1, <2>2
<1>8. CASE CallRefused(r) \/ CallFails(r) \/ Timeout(r)
           \/ \E reply \in SummaryReplies : SummaryReply(r, reply)
  BY <1>1, <1>2, <1>8 DEF CallRefused, CallFails, Timeout, SummaryReply, Respond
<1>9. ~Receive(r)
  BY DEF Receive
<1> QED
  BY <1>2, <1>4, <1>5, <1>6, <1>7, <1>8, <1>9 DEF Request

(* What another request, or the clock, does to the service leaves the      *)
(* calls of q as they are.                                                 *)
LEMMA OtherRequestsStay ==
  ASSUME TypeInv, RequestsTyped, NEW q \in Requests,
         ClockTick \/ \E r \in Requests \ {q} : Request(r)
  PROVE  StepsLeft'[q] = StepsLeft[q]
<1>1. stage'[q] = stage[q]
  BY DEF ClockTick, Request, Receive, CallModel, CallRefused, KeepWaiting, CallFails,
     TriageReply, Retrieve, SummaryReply, Timeout, Respond, requestVars, RequestsTyped
<1>2. Untouched(q)
  <2>1. CASE ClockTick
    BY <2>1 DEF ClockTick, Tick, Untouched
  <2>2. ASSUME NEW r \in Requests \ {q}, Request(r)
        PROVE  \/ Begin(r, NoPin) \/ Reject(r) \/ Answer(r) \/ Retry(r) \/ Cancel(r)
               \/ UNCHANGED vars
    BY <2>2, Zenon DEF Request, Receive, CallModel, CallRefused, KeepWaiting, CallFails,
       TriageReply, Retrieve, SummaryReply, Timeout, Answer
  <2>3. ASSUME NEW r \in Requests \ {q},
               \/ Begin(r, NoPin) \/ Reject(r) \/ Answer(r) \/ Retry(r) \/ Cancel(r)
               \/ UNCHANGED vars
        PROVE  Untouched(q)
    BY <2>3 DEF Begin, Reject, Answer, Succeed, TransientError, SwitchModel, Exhaust,
       ForeignError, Retry, Cancel, vars, Untouched, TypeInv, TypeOK, Requests
  <2> QED
    BY <2>1, <2>2, <2>3
<1>3. CallLeft'[q] = CallLeft[q]
  BY <1>2 DEF Untouched, CallLeft, AwaitsLeft, Work, InFlight, Budget
<1> QED
  BY <1>1, <1>3 DEF StepsLeft, Budget

(* A triage request is answered within four awaits for each request a call *)
(* may send, and three more: each of its own steps uses one up, and no     *)
(* other request, which may move the model under it, gives it any.  So it  *)
(* does not take the deadline to end a request whose awaits end.           *)
THEOREM RequestsRunDown ==
  PSpec => /\ [](\A r \in Requests : /\ StepsLeft[r] \in 0 .. 4 * Budget + 3
                                     /\ StepsLeft[r] = 0 <=> ~InProgress(r))
           /\ [][\A r \in Requests : InProgress(r) =>
                   /\ Request(r) => StepsLeft'[r] < StepsLeft[r]
                   /\ StepsLeft'[r] <= StepsLeft[r]]_pvars
<1>1. CallsBounded /\ PipelineInv
        => \A r \in Requests : /\ StepsLeft[r] \in 0 .. 4 * Budget + 3
                               /\ StepsLeft[r] = 0 <=> ~InProgress(r)
  BY StepsLeftBounds DEF PipelineInv
<1>2. CallsBounded /\ PipelineInv /\ (CallsBounded /\ PipelineInv)' /\ [PNext]_pvars
        => [\A r \in Requests : InProgress(r) =>
              /\ Request(r) => StepsLeft'[r] < StepsLeft[r]
              /\ StepsLeft'[r] <= StepsLeft[r]]_pvars
  <2> SUFFICES ASSUME CallsBounded, PipelineInv, CallsBounded', PipelineInv', PNext,
                      NEW q \in Requests, InProgress(q)
               PROVE  /\ Request(q) => StepsLeft'[q] < StepsLeft[q]
                      /\ StepsLeft'[q] <= StepsLeft[q]
    OBVIOUS
  <2>1. Request(q) => StepsLeft'[q] < StepsLeft[q]
    BY RequestRunsDown
  <2>2. StepsLeft[q] \in Nat
    BY StepsLeftBounds DEF PipelineInv
  <2>3. StepsLeft'[q] \in Nat
    <3>1. CallLeft'[q] \in Nat /\ Budget \in Nat
      BY CallLeftNat, BudgetNat
    <3> QED
      BY <3>1 DEF StepsLeft, Budget
  <2>4. ~Request(q) => StepsLeft'[q] = StepsLeft[q]
    BY OtherRequestsStay DEF PNext, CallsBounded, PipelineInv
  <2> QED
    BY <2>1, <2>2, <2>3, <2>4
<1>3. PSpec => []CallsBounded
  <2>1. TypeInv /\ TypeInv' /\ WorkInBudget /\ [Next]_vars => WorkInBudget'
    BY WorkInBudgetNext
  <2> QED
    BY <2>1, ServiceKept, ServiceTyped, WorkInBudgetInit, PTL
    DEF ServiceKeepsItsSpec, Spec, CallsBounded
<1> QED
  BY <1>1, <1>2, <1>3, PipelineInvariant, PTL DEF PSpec

=============================================================================
