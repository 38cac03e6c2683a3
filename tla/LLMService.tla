------------------------------ MODULE LLMService ------------------------------
(***************************************************************************)
(* The LLM service of app/services/llm.py: one process-wide object whose   *)
(* active model, registry position and circuit breaker are shared by every *)
(* coroutine that is inside LLMService.call.                               *)
(*                                                                         *)
(* The service runs on one asyncio event loop, so the code between two     *)
(* awaits is one atomic step.  There are two awaits in a call: the request *)
(* to the provider (phase "waiting") and tenacity's sleep between two      *)
(* attempts (phase "backoff").  Everything a call does when one of them    *)
(* ends, up to the next await or its own end, is one action below.         *)
(***************************************************************************)
EXTENDS Naturals, FiniteSets

CONSTANTS
  Callers,      (* coroutines that may be inside LLMService.call           *)
  NumModels,    (* number of entries of LLMRegistry.LLMS                   *)
  MaxAttempts,  (* settings.MAX_LLM_CALL_RETRIES                           *)
  Cooldown,     (* CIRCUIT_OPEN_DURATION, in clock ticks                   *)
  Unlisted,     (* model names a caller may pin that are not registered    *)
  Pins,         (* values of call's model_name argument                    *)
  NoPin         (* model_name is None                                      *)

(* A registered model is named by its position in LLMRegistry.LLMS. *)
Registry == 0 .. NumModels - 1

ASSUME CallersAssumption == IsFiniteSet(Callers)
ASSUME NumModelsAssumption == NumModels \in Nat \ {0}
ASSUME MaxAttemptsAssumption == MaxAttempts \in Nat \ {0}
ASSUME CooldownAssumption == Cooldown \in Nat \ {0}
ASSUME PinsAssumption ==
  /\ Unlisted \cap Registry = {}
  /\ NoPin \notin Registry \cup Unlisted
  /\ Pins \subseteq Registry \cup Unlisted \cup {NoPin}

VARIABLES
  llm,          (* _llm: the model every request goes to                   *)
  index,        (* _current_model_index                                    *)
  circuitOpen,  (* _circuit_open                                           *)
  elapsed,      (* monotonic() - _circuit_opened_at, capped at Cooldown;   *)
                (* 0 while the circuit is closed, when nothing reads it    *)
  failures,     (* _consecutive_full_failures                              *)
  phase,        (* per caller: where its call is, or how it ended          *)
  tried,        (* per caller: call's local variable tried                 *)
  attempt       (* per caller: tenacity's attempt number on this model     *)

breakerVars == <<circuitOpen, elapsed, failures>>
modelVars == <<llm, index>>
vars == <<modelVars, breakerVars, phase, tried, attempt>>

Outcomes == {"returned", "exhausted", "rejected", "errored", "cancelled"}
Phases == {"idle", "waiting", "backoff"} \cup Outcomes

(* Two exhausted calls in a row trip the breaker. *)
FullFailureLimit == 2

InFlight(c) == phase[c] \in {"waiting", "backoff"}

TypeOK ==
  /\ llm \in Registry \cup Unlisted
  /\ index \in Registry
  /\ circuitOpen \in BOOLEAN
  /\ elapsed \in 0 .. Cooldown
  /\ failures \in Nat
  /\ phase \in [Callers -> Phases]
  /\ tried \in [Callers -> 0 .. NumModels]
  /\ attempt \in [Callers -> 1 .. MaxAttempts]

(* DEFAULT_LLM_MODEL may name any registered model; a name that is not     *)
(* registered selects position 0.                                          *)
Init ==
  /\ index \in Registry
  /\ llm = index
  /\ circuitOpen = FALSE
  /\ elapsed = 0
  /\ failures = 0
  /\ phase = [c \in Callers |-> "idle"]
  /\ tried = [c \in Callers |-> 0]
  /\ attempt = [c \in Callers |-> 1]

-----------------------------------------------------------------------------
(* Starting a call.                                                        *)

(* Mistake: the circuit resets one tick late. *)
RejectingAtTheLimit == circuitOpen /\ elapsed <= Cooldown

(* _check_circuit raises. *)
Rejecting == circuitOpen /\ elapsed < Cooldown

(* Mistake: being refused restarts the cool-down. *)
RejectRestartsCooldown(c) ==
  /\ ~InFlight(c)
  /\ Rejecting
  /\ phase' = [phase EXCEPT ![c] = "rejected"]
  /\ elapsed' = 0
  /\ UNCHANGED <<modelVars, circuitOpen, failures, tried, attempt>>

(* The call is refused by the open circuit before it touches anything. *)
Reject(c) ==
  /\ ~InFlight(c)
  /\ Rejecting
  /\ phase' = [phase EXCEPT ![c] = "rejected"]
  /\ UNCHANGED <<modelVars, breakerVars, tried, attempt>>

(* Mistake: the circuit closes and its failure count stays. *)
PassCircuitKeepsFailures ==
  /\ ~Rejecting
  /\ circuitOpen' = FALSE
  /\ elapsed' = 0
  /\ UNCHANGED failures

(* Mistake: a call passes without asking how long the circuit is open. *)
PassCircuitAlways ==
  /\ circuitOpen' = FALSE
  /\ elapsed' = 0
  /\ failures' = IF circuitOpen THEN 0 ELSE failures

(* _check_circuit returns, closing a circuit whose cool-down is over. *)
PassCircuit ==
  /\ ~Rejecting
  /\ circuitOpen' = FALSE
  /\ elapsed' = 0
  /\ failures' = IF circuitOpen THEN 0 ELSE failures

(* Mistake: pinning a registered model leaves the position behind. *)
SelectModelOnly(pin) ==
  /\ llm' = IF pin = NoPin THEN llm ELSE pin
  /\ UNCHANGED index

(* Pinning replaces the service-wide active model; only a registered name  *)
(* moves the registry position.                                            *)
SelectModel(pin) ==
  /\ llm' = IF pin = NoPin THEN llm ELSE pin
  /\ index' = IF pin \in Registry THEN pin ELSE index

(* call up to its first await: the first request is on its way. *)
Begin(c, pin) ==
  /\ ~InFlight(c)
  /\ PassCircuit
  /\ SelectModel(pin)
  /\ phase' = [phase EXCEPT ![c] = "waiting"]
  /\ tried' = [tried EXCEPT ![c] = 0]
  /\ attempt' = [attempt EXCEPT ![c] = 1]

(* LLMRegistry.get raises while it builds the pinned model from the        *)
(* caller's arguments: the call ends, but the circuit may just have closed. *)
RefusePin(c) ==
  /\ ~InFlight(c)
  /\ Pins # {NoPin}
  /\ PassCircuit
  /\ phase' = [phase EXCEPT ![c] = "errored"]
  /\ UNCHANGED <<modelVars, tried, attempt>>

-----------------------------------------------------------------------------
(* The provider answers the outstanding request of c.                      *)

(* Mistake: a reply leaves the failure count alone. *)
SucceedKeepsFailures(c) ==
  /\ phase[c] = "waiting"
  /\ phase' = [phase EXCEPT ![c] = "returned"]
  /\ UNCHANGED <<modelVars, breakerVars, tried, attempt>>

(* A reply resets the failure count, even while the circuit is open. *)
Succeed(c) ==
  /\ phase[c] = "waiting"
  /\ phase' = [phase EXCEPT ![c] = "returned"]
  /\ failures' = 0
  /\ UNCHANGED <<modelVars, circuitOpen, elapsed, tried, attempt>>

(* A retryable error with attempts left on this model: tenacity sleeps. *)
TransientError(c) ==
  /\ phase[c] = "waiting"
  /\ attempt[c] < MaxAttempts
  /\ phase' = [phase EXCEPT ![c] = "backoff"]
  /\ UNCHANGED <<modelVars, breakerVars, tried, attempt>>

(* Mistake: the attempt counter starts again with every request. *)
RetryForgetsAttempts(c) ==
  /\ phase[c] = "backoff"
  /\ phase' = [phase EXCEPT ![c] = "waiting"]
  /\ attempt' = [attempt EXCEPT ![c] = 1]
  /\ UNCHANGED <<modelVars, breakerVars, tried>>

(* The sleep ends.  The request goes to whatever model is active now. *)
Retry(c) ==
  /\ phase[c] = "backoff"
  /\ phase' = [phase EXCEPT ![c] = "waiting"]
  /\ attempt' = [attempt EXCEPT ![c] = attempt[c] + 1]
  /\ UNCHANGED <<modelVars, breakerVars, tried>>

(* Mistakes: no wrap at the end of the registry; stopping at its end. *)
NextModelIndexUnwrapped == index + 1
NextModelIndexClamped == IF index + 1 < NumModels THEN index + 1 ELSE index

NextModelIndex == (index + 1) % NumModels

(* Mistake: the switch forgets to count the model that failed. *)
SwitchModelUncounted(c) ==
  /\ phase[c] = "waiting"
  /\ tried[c] + 1 < NumModels
  /\ index' = NextModelIndex
  /\ llm' = NextModelIndex
  /\ attempt' = [attempt EXCEPT ![c] = 1]
  /\ UNCHANGED <<breakerVars, phase, tried>>

(* The attempts on this model are used up, or an OpenAIError that is not   *)
(* an APIError came back, which is never retried.  Models are left to try: *)
(* the shared position advances and the request is sent to the new model.  *)
SwitchModel(c) ==
  /\ phase[c] = "waiting"
  /\ tried[c] + 1 < NumModels
  /\ tried' = [tried EXCEPT ![c] = tried[c] + 1]
  /\ index' = NextModelIndex
  /\ llm' = NextModelIndex
  /\ attempt' = [attempt EXCEPT ![c] = 1]
  /\ UNCHANGED <<breakerVars, phase>>

(* A full round has failed: count it, and open the circuit or, if it is    *)
(* open already, restart its cool-down.                                    *)
CountFullFailure ==
  /\ failures' = failures + 1
  /\ IF failures + 1 >= FullFailureLimit
       THEN circuitOpen' = TRUE /\ elapsed' = 0
       ELSE UNCHANGED <<circuitOpen, elapsed>>

(* As SwitchModel, but the call has used up its NumModels tries. *)
Exhaust(c) ==
  /\ phase[c] = "waiting"
  /\ tried[c] + 1 >= NumModels
  /\ tried' = [tried EXCEPT ![c] = tried[c] + 1]
  /\ phase' = [phase EXCEPT ![c] = "exhausted"]
  /\ CountFullFailure
  /\ UNCHANGED <<modelVars, attempt>>

(* An exception that is not an OpenAIError leaves call at once. *)
ForeignError(c) ==
  /\ phase[c] = "waiting"
  /\ phase' = [phase EXCEPT ![c] = "errored"]
  /\ UNCHANGED <<modelVars, breakerVars, tried, attempt>>

(* The awaiting task is cancelled (the deadline of the triage endpoint).   *)
(* CancelledError is not an Exception: no handler of call runs.            *)
Cancel(c) ==
  /\ InFlight(c)
  /\ phase' = [phase EXCEPT ![c] = "cancelled"]
  /\ UNCHANGED <<modelVars, breakerVars, tried, attempt>>

(* One unit of the monotonic clock, observed only through elapsed. *)
Tick ==
  /\ Rejecting
  /\ elapsed' = elapsed + 1
  /\ UNCHANGED <<modelVars, circuitOpen, failures, phase, tried, attempt>>

-----------------------------------------------------------------------------

Answer(c) ==
  \/ Succeed(c)
  \/ TransientError(c)
  \/ SwitchModel(c)
  \/ Exhaust(c)
  \/ ForeignError(c)

Start(c) == \E pin \in Pins : Begin(c, pin)

Next ==
  \/ \E c \in Callers : \/ Start(c) \/ Reject(c) \/ RefusePin(c)
                       \/ Answer(c) \/ Retry(c) \/ Cancel(c)
  \/ Tick

Spec == Init /\ [][Next]_vars

(* The HTTP client bounds every request and tenacity bounds every sleep,   *)
(* so both awaits of a call end.                                           *)
CallFairness == \A c \in Callers : WF_vars(Answer(c)) /\ WF_vars(Retry(c))

FairSpec == Spec /\ CallFairness /\ WF_vars(Tick)

-----------------------------------------------------------------------------
(* Properties.                                                             *)

(* The position kept beside the active model is the position of that model *)
(* whenever the active model is a registered one: the fallback log names   *)
(* the model that failed, and the next switch moves on from it.            *)
ModelInSync == llm \in Registry => llm = index

(* However many calls fail late, the failure count stays below the number  *)
(* of concurrent callers plus two: an open circuit admits nobody, so only  *)
(* the calls already under way can still add to it, and closing the        *)
(* circuit starts the count again below the limit.                         *)
FailuresBounded ==
  /\ failures <= Cardinality(Callers) + 1
  /\ ~circuitOpen => failures < FullFailureLimit

(* The number of requests the current call of c may still send. *)
Work(c) ==
  IF InFlight(c)
    THEN (NumModels - tried[c] - 1) * MaxAttempts + (MaxAttempts - attempt[c])
    ELSE 0

(* While the circuit is open the load on the provider only drains: no call *)
(* gains requests to send, so what is left of the calls that were under    *)
(* way when it opened is all that an open circuit lets through.            *)
LoadDrainsWhileOpen ==
  [][Rejecting => \A c \in Callers : Work(c)' <= Work(c)]_vars

(* Every call ends: retries and fallback are both finite, whatever the     *)
(* other calls do to the shared position.                                  *)
CallTerminates == \A c \in Callers : InFlight(c) ~> ~InFlight(c)

-----------------------------------------------------------------------------
(* The gateway this service implements.  The gate is the answer            *)
(* _check_circuit would give now, so it reopens by the clock alone.        *)

GateOfCircuit == IF Rejecting THEN "shut" ELSE "open"

StreakOfFailures == IF failures > FullFailureLimit THEN FullFailureLimit ELSE failures

StatusOfPhase ==
  [c \in Callers |->
     CASE phase[c] = "idle" -> "none"
       [] InFlight(c) -> "pending"
       [] phase[c] = "returned" -> "answered"
       [] phase[c] = "exhausted" -> "failed"
       [] phase[c] = "rejected" -> "refused"
       [] phase[c] \in {"errored", "cancelled"} -> "aborted"]

Gateway == INSTANCE LLMGateway WITH
  gate <- GateOfCircuit, streak <- StreakOfFailures, status <- StatusOfPhase

(* The service is a gateway: it admits only while the circuit would let a  *)
(* call pass, refuses only while it would not, and trips only on the       *)
(* second failed call with no reply since the first.                       *)
ImplementsGateway == Gateway!Spec

(* The same with the gateway's fairness: every admitted call ends, and     *)
(* the gate reopens even if nobody calls, although every call that fails   *)
(* late restarts the cool-down.                                            *)
ImplementsFairGateway == Gateway!FairSpec

=============================================================================
