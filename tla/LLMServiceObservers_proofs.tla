----------------------- MODULE LLMServiceObservers_proofs -----------------------
(***************************************************************************)
(* Theorems about what watches the LLM service: the record of its calls    *)
(* (LLMServiceHistory) and the health probe (HealthProbe), for every       *)
(* number of callers, probes, models and attempts and every cool-down.     *)
(***************************************************************************)
EXTENDS LLMServiceHistory, HealthProbe, LLMService_proofs

-----------------------------------------------------------------------------
(* What a step does to one caller.                                         *)

(* Steps that send no request: a call ends, is refused or pauses. *)
Pauses(c) ==
  /\ ~Begins(c)
  /\ ~Sends(c)
  /\ UNCHANGED modelVars
  /\ InFlight(c)' => InFlight(c) /\ tried'[c] = tried[c] /\ attempt'[c] = attempt[c]
  /\ phase'[c] = "exhausted" => phase[c] = "exhausted" \/ Exhaust(c)

LEMMA CallerStep ==
  ASSUME TypeInv, [Next]_vars, NEW c \in Callers
  PROVE  \/ Untouched(c)
         \/ Start(c)
         \/ Retry(c)
         \/ SwitchModel(c)
         \/ Pauses(c)
<1>1. ASSUME Reject(c) \/ RefusePin(c) PROVE Pauses(c)
  BY <1>1 DEF Pauses, Reject, RefusePin, Begins, Sends, InFlight, modelVars, TypeInv, TypeOK
<1>2. ASSUME Succeed(c) \/ TransientError(c) \/ Exhaust(c) \/ ForeignError(c) \/ Cancel(c)
      PROVE  Pauses(c)
  BY <1>2 DEF Pauses, Succeed, TransientError, Exhaust, ForeignError, Cancel, Begins,
     Sends, InFlight, modelVars, TypeInv, TypeOK
<1> QED
  BY <1>1, <1>2, OwnStep DEF Answer

-----------------------------------------------------------------------------
(* The record only watches, so whatever holds of the service holds of the  *)
(* service beside its record.                                              *)
LEMMA RecordedStep == [HNext]_hvars => [Next]_vars
  BY DEF HNext, hvars

(* The service with its record is the service of LLMService: no step is    *)
(* added, and none is changed for the record's sake.                       *)
THEOREM RecordOnlyWatches == HSpec => Spec
  BY RecordedStep, PTL DEF HSpec, HInit, Spec

(* So the service keeps, beside its record, all that is proved of it alone. *)
COROLLARY RecordedService ==
  HSpec => /\ [](TypeOK /\ ModelInSync /\ FailuresBounded)
           /\ LoadDrainsWhileOpen
           /\ ImplementsGateway
  BY RecordOnlyWatches, TypeCorrect, ModelAndPositionAgree, FailuresAlwaysBounded,
     LoadDrains, ServiceImplementsGateway, PTL

-----------------------------------------------------------------------------
(* RequestBudget is not inductive: a call that has sent its last request   *)
(* must have no work left, so what it sent is counted with what is left.   *)
BudgetInv ==
  /\ sent \in [Callers -> Nat]
  /\ \A c \in Callers : sent[c] + Work(c) <= Budget

(* What the record of one caller becomes, by what the caller does. *)
LEMMA SentStep ==
  ASSUME HistoryStep, sent \in [Callers -> Nat], NEW c \in Callers
  PROVE  /\ Begins(c) => sent'[c] = 1
         /\ ~Begins(c) /\ Sends(c) => sent'[c] = sent[c] + 1
         /\ ~Begins(c) /\ ~Sends(c) => sent'[c] \in {sent[c], 0}
  BY DEF HistoryStep

(* A request after the first is paid for with the work that is left. *)
LEMMA SendsCost ==
  ASSUME TypeInv, TypeInv', [Next]_vars, NEW c \in Callers, Sends(c), ~Begins(c)
  PROVE  Work(c)' + 1 <= Work(c)
<1>1. InFlight(c) /\ InFlight(c)'
  BY DEF Sends, Begins, InFlight
<1>2. Retry(c) \/ SwitchModel(c)
  BY <1>1, CallerStep DEF Untouched, Start, Begin, Pauses, Sends
<1>3. Work(c) \in Nat /\ Work(c)' \in Nat
  BY WorkNat, WorkNatNext
<1> QED
  BY <1>2, <1>3, RetryCosts, SwitchCosts

LEMMA BudgetNext ==
  ASSUME TypeInv, TypeInv', BudgetInv, [HNext]_hvars
  PROVE  BudgetInv'
<1> USE DEF BudgetInv
<1>1. CASE UNCHANGED hvars
  BY <1>1 DEF hvars, historyVars, vars, Work, InFlight
<1>2. CASE HNext
  <2>1. [Next]_vars /\ HistoryStep
    BY <1>2 DEF HNext
  <2>2. sent' \in [Callers -> Nat]
    BY <2>1 DEF HistoryStep
  <2>3. ASSUME NEW c \in Callers PROVE (sent'[c] + Work(c)' <= Budget)
    <3>1. /\ sent[c] \in Nat /\ sent'[c] \in Nat /\ Budget \in Nat
          /\ Work(c) \in Nat /\ Work(c)' \in Nat /\ sent[c] + Work(c) <= Budget
      BY <2>2, WorkNat, WorkNatNext, BudgetNat
    <3>2. CASE Begins(c)
      <4>1. Start(c)
        BY <2>1, <3>2, CallerStep DEF Begins, Untouched, Retry, SwitchModel, Pauses, InFlight
      <4> QED
        BY <2>1, <3>1, <3>2, <4>1, SentStep, StartWork
    <3>3. CASE ~Begins(c) /\ ~Sends(c)
      <4>1. Work(c)' <= Work(c)
        BY <2>1, <3>3, WorkNeverGrows DEF Begins
      <4> QED
        BY <2>1, <3>1, <3>3, <4>1, SentStep
    <3>4. CASE ~Begins(c) /\ Sends(c)
      <4>1. Work(c)' + 1 <= Work(c)
        BY <2>1, <3>4, SendsCost
      <4> QED
        BY <2>1, <3>1, <3>4, <4>1, SentStep
    <3> QED
      BY <3>2, <3>3, <3>4
  <2> QED
    BY <2>2, <2>3
<1> QED
  BY <1>1, <1>2

(* However calls interleave, a call never sends more requests than the     *)
(* retries it is allowed for each registered model: what it has sent and   *)
(* what it may still send never exceed that together.                      *)
THEOREM BudgetKept == HSpec => []RequestBudget
<1>1. HInit => BudgetInv
  <2> SUFFICES ASSUME HInit PROVE BudgetInv
    OBVIOUS
  <2>1. \A c \in Callers : sent[c] = 0 /\ Work(c) = 0
    BY DEF HInit, Init, Work, InFlight
  <2> QED
    BY <2>1, BudgetNat DEF HInit, BudgetInv
<1>2. TypeInv /\ BudgetInv => RequestBudget
  BY WorkNat, BudgetNat DEF BudgetInv, RequestBudget, Budget
<1> QED
  BY <1>1, <1>2, BudgetNext, RecordOnlyWatches, TypeInvariant, PTL DEF HSpec

-----------------------------------------------------------------------------
(* SoloExhaustive says nothing of a call before it gives up.  While nobody *)
(* else is under way, the models a call has asked are the ones it walked   *)
(* over: the t positions before the present one, circularly, and that one. *)
Walked(t) == {i \in Registry : i \in index - t .. index \/ i >= NumModels + index - t}

SoloCall(c) ==
  /\ Kept(c)
  /\ InFlight(c) => /\ NobodyElse(c)
                    /\ llm = index
                    /\ asked[c] = Walked(tried[c])
  /\ phase[c] = "exhausted" => asked[c] = Registry

SoloInv == \A c \in Callers : alone[c] => SoloCall(c)

LEMMA WalkBegins ==
  ASSUME index' \in Registry
  PROVE  Walked(0)' = {index'}
  BY NumModelsAssumption DEF Walked, Registry

(* One model further, past the end of the registry or not. *)
LEMMA WalkGoesOn ==
  ASSUME index \in Registry, index' = NextModelIndex, NEW t \in 0 .. NumModels - 2
  PROVE  Walked(t + 1)' = Walked(t) \cup {index'}
<1>1. index' = IF index = NumModels - 1 THEN 0 ELSE index + 1
  BY NextModel
<1>2. NumModels \in Nat \ {0} /\ index \in 0 .. NumModels - 1
  BY NumModelsAssumption DEF Registry
<1>3. CASE index = NumModels - 1
  BY <1>1, <1>2, <1>3 DEF Walked, Registry
<1>4. CASE index # NumModels - 1
  BY <1>1, <1>2, <1>4 DEF Walked, Registry
<1> QED
  BY <1>3, <1>4

(* A walk over as many models as there are leaves none out. *)
LEMMA WalkEnds ==
  ASSUME index \in Registry
  PROVE  Walked(NumModels - 1) = Registry
  BY NumModelsAssumption DEF Walked, Registry

(* Nobody moves the position of a call that is alone but the call itself. *)
LEMMA AloneModelKept ==
  ASSUME TypeInv, [Next]_vars, NEW c \in Callers, InFlight(c), ~SwitchModel(c),
         NobodyElse(c), NobodyElse(c)'
  PROVE  UNCHANGED modelVars
<1>1. ASSUME NEW e \in Callers, Start(e) PROVE FALSE
  <2>1. e # c
    BY <1>1 DEF Start, Begin
  <2>2. InFlight(e)'
    BY <1>1 DEF Start, Begin, InFlight, TypeInv, TypeOK
  <2> QED
    BY <2>1, <2>2 DEF NobodyElse
<1>2. ASSUME NEW e \in Callers, SwitchModel(e) PROVE FALSE
  BY <1>2 DEF SwitchModel, NobodyElse, InFlight
<1> QED
  BY <1>1, <1>2
  DEF Next, Answer, Reject, RefusePin, Succeed, TransientError, Exhaust, ForeignError,
      Retry, Cancel, Tick, vars

LEMMA SoloNext ==
  ASSUME TypeInv, TypeInv', SoloInv, [HNext]_hvars
  PROVE  SoloInv'
<1>1. CASE UNCHANGED hvars
  BY <1>1 DEF hvars, historyVars, vars, modelVars, SoloInv, SoloCall, Kept, InFlight, NobodyElse, Walked
<1>2. CASE HNext
  <2>1. [Next]_vars /\ HistoryStep
    BY <1>2 DEF HNext
  <2> SUFFICES ASSUME NEW c \in Callers, alone'[c] PROVE SoloCall(c)'
    BY DEF SoloInv
  <2>2. index \in Registry /\ index' \in Registry /\ phase \in [Callers -> Phases]
    BY DEF TypeInv, TypeOK, Registry
  <2>3. CASE Begins(c)
    <3>1. Start(c)
      BY <2>1, <2>3, CallerStep DEF Begins, Untouched, Retry, SwitchModel, Pauses, InFlight
    <3>2. tried'[c] = 0
      BY <3>1 DEF Start, Begin, TypeInv, TypeOK
    <3>3. asked'[c] = {llm'} /\ NobodyElse(c)' /\ llm' = index'
      BY <2>1, <2>3 DEF HistoryStep
    <3>4. asked'[c] = Walked(tried[c])'
      BY <2>2, <3>2, <3>3, WalkBegins DEF Walked
    <3> QED
      BY <2>3, <3>3, <3>4 DEF Begins, SoloCall, Kept, InFlight
  <2>4. CASE ~Begins(c)
    <3>1. alone[c] /\ Kept(c)' /\ (InFlight(c)' => NobodyElse(c)')
      BY <2>1, <2>4 DEF HistoryStep
    <3>2. SoloCall(c)
      BY <3>1 DEF SoloInv
    <3>3. asked'[c] = IF Sends(c) THEN asked[c] \cup {llm'} ELSE asked[c]
      BY <2>1, <2>4, <3>1 DEF HistoryStep
    <3>4. CASE ~InFlight(c)
      <4>1. phase[c] = "exhausted" /\ phase'[c] = "exhausted"
        BY <2>4, <3>1, <3>2, <3>4 DEF SoloCall, Kept, Begins
      <4> QED
        BY <3>2, <3>3, <4>1 DEF SoloCall, Kept, InFlight, Sends
    <3>5. CASE InFlight(c) /\ SwitchModel(c)
      <4>1. tried[c] \in 0 .. NumModels - 2
        BY <3>5, NumModelsAssumption DEF SwitchModel, TypeInv, TypeOK
      <4>2. /\ tried'[c] = tried[c] + 1 /\ index' = NextModelIndex /\ llm' = index'
            /\ phase'[c] = "waiting"
        BY <3>5 DEF SwitchModel, TypeInv, TypeOK
      <4>3. asked'[c] = Walked(tried[c]) \cup {index'}
        BY <3>2, <3>3, <3>5, <4>1, <4>2 DEF SoloCall, Sends
      <4>4. asked'[c] = Walked(tried[c])'
        BY <2>2, <4>1, <4>2, <4>3, WalkGoesOn DEF Walked
      <4> QED
        BY <3>1, <4>2, <4>4 DEF SoloCall, Kept, InFlight
    <3>6. CASE InFlight(c) /\ Exhaust(c)
      <4>1. tried[c] = NumModels - 1
        BY <3>6, NumModelsAssumption DEF Exhaust, TypeInv, TypeOK, CallsInRange
      <4>2. phase'[c] = "exhausted"
        BY <2>2, <3>6 DEF Exhaust
      <4>3. asked'[c] = Registry
        BY <2>2, <3>2, <3>3, <3>6, <4>1, <4>2, WalkEnds DEF SoloCall, Sends
      <4> QED
        BY <4>2, <4>3 DEF SoloCall, Kept, InFlight
    <3>7. CASE InFlight(c) /\ ~SwitchModel(c) /\ ~Exhaust(c)
      <4>1. InFlight(c)'
        BY <2>1, <2>2, <3>1, <3>7, CallerStep
        DEF Kept, InFlight, Untouched, Start, Begin, Retry, Pauses
      <4>2. UNCHANGED modelVars
        BY <2>1, <3>1, <3>2, <3>7, <4>1, AloneModelKept DEF SoloCall
      <4>3. tried'[c] = tried[c]
        BY <2>1, <3>7, <4>1, CallerStep DEF Untouched, Start, Begin, Retry, Pauses, TypeInv, TypeOK
      <4>4. index \in Walked(tried[c])
        BY <2>2, NumModelsAssumption DEF Walked, Registry, TypeInv, TypeOK
      <4>5. asked'[c] = asked[c]
        BY <3>2, <3>3, <3>7, <4>2, <4>4 DEF SoloCall, modelVars
      <4> QED
        BY <3>1, <3>2, <3>7, <4>1, <4>2, <4>3, <4>5
        DEF SoloCall, Kept, InFlight, modelVars, Walked
    <3> QED
      BY <3>4, <3>5, <3>6, <3>7
  <2> QED
    BY <2>3, <2>4
<1> QED
  BY <1>1, <1>2

(* A call that nobody overlapped, and that began on a registered model,    *)
(* gives up only when it has asked every model, wherever it began.         *)
THEOREM SoloCallAsksAll == HSpec => []SoloExhaustive
<1>1. HInit => SoloInv
  BY DEF HInit, SoloInv
<1>2. SoloInv => SoloExhaustive
  BY DEF SoloInv, SoloCall, SoloExhaustive
<1> QED
  BY <1>1, <1>2, SoloNext, RecordOnlyWatches, TypeInvariant, PTL DEF HSpec

-----------------------------------------------------------------------------
(* The health probe.                                                       *)

LEMMA ProbedStep == [HPNext]_hpvars => [Next]_vars
  BY DEF HPNext, hpvars, ServiceStep, DatabaseChanges, Probe, AskDatabase,
     DatabaseAnswers, Respond

(* Probes read the service and never change it, whatever they wait for: it *)
(* keeps its own specification, and with it the gateway's.                 *)
THEOREM ProbeOnlyWatches == HPSpec => Spec /\ ImplementsGateway
<1>1. HPSpec => Spec
  BY ProbedStep, PTL DEF HPSpec, HPInit, Spec
<1> QED
  BY <1>1, ServiceImplementsGateway, PTL

ProbesTyped ==
  /\ dbUp \in BOOLEAN
  /\ probe \in [Probes -> {"idle", "asked", "up", "down"}]
  /\ report \in [Probes -> Reports]

LEMMA ProbesTypedNext ==
  ASSUME TypeInv, ProbesTyped, [HPNext]_hpvars
  PROVE  ProbesTyped'
<1>1. CASE UNCHANGED probeVars
  BY <1>1, Zenon DEF probeVars, ProbesTyped
<1>2. CASE DatabaseChanges
  BY <1>2 DEF DatabaseChanges, ProbesTyped
<1>3. ASSUME NEW p \in Probes, AskDatabase(p) \/ DatabaseAnswers(p) PROVE ProbesTyped'
  BY <1>3 DEF AskDatabase, DatabaseAnswers, ProbesTyped
<1>4. ASSUME NEW p \in Probes, Respond(p) PROVE ProbesTyped'
  BY <1>4 DEF Respond, ProbesTyped, Reports, LLMHealthy
<1> QED
  BY <1>1, <1>2, <1>3, <1>4 DEF HPNext, ServiceStep, Probe, hpvars

(* The service keeps its types beside the probes, and a probe waits, has   *)
(* its answer or is idle, with a report of both components.                *)
THEOREM HealthTypeCorrect == HPSpec => []HealthTypeOK
<1>1. HPInit => ProbesTyped
  BY DEF HPInit, ProbesTyped, Reports
<1>2. TypeInv /\ ProbesTyped => HealthTypeOK
  BY DEF TypeInv, ProbesTyped, HealthTypeOK
<1> QED
  BY <1>1, <1>2, ProbesTypedNext, ProbeOnlyWatches, TypeInvariant, PTL DEF HPSpec

(* A probe that answers does so in one step with reading the flag, and     *)
(* whoever would be refused finds the flag set: no probe reports the LLM   *)
(* healthy while calls are refused, however long it waited before.         *)
THEOREM NeverFalseGreen == HPSpec => NoFalseGreen
<1>1. ProbesTyped /\ [HPNext]_hpvars
        => [\A p \in Probes :
              probe[p] # "idle" /\ probe'[p] = "idle" /\ report'[p].llm => ~Rejecting]_hpvars
  <2> SUFFICES ASSUME ProbesTyped, HPNext, NEW p \in Probes,
                      probe[p] # "idle", probe'[p] = "idle", report'[p].llm
               PROVE  ~Rejecting
    OBVIOUS
  <2>1. Respond(p)
    BY DEF HPNext, ServiceStep, probeVars, DatabaseChanges, Probe, AskDatabase,
       DatabaseAnswers, Respond, ProbesTyped
  <2>2. report'[p].llm = LLMHealthy
    BY <2>1 DEF Respond, ProbesTyped
  <2> QED
    BY <2>2 DEF LLMHealthy, Rejecting
<1>2. HPInit => ProbesTyped
  BY DEF HPInit, ProbesTyped, Reports
<1> QED
  BY <1>1, <1>2, ProbesTypedNext, ProbeOnlyWatches, TypeInvariant, PTL DEF HPSpec, NoFalseGreen

=============================================================================
