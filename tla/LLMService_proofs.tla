--------------------------- MODULE LLMService_proofs ---------------------------
(***************************************************************************)
(* Theorems about LLMService for every number of callers, models and       *)
(* attempts and every cool-down.                                           *)
(***************************************************************************)
EXTENDS LLMService, FiniteSetTheorems, TLAPS

(* Advancing circularly stays in the registry: one further, or from the    *)
(* last model to the first.                                                *)
LEMMA NextModel ==
  ASSUME index \in Registry
  PROVE  /\ NextModelIndex \in Registry
         /\ NextModelIndex = IF index = NumModels - 1 THEN 0 ELSE index + 1
  BY NumModelsAssumption DEF NextModelIndex, Registry

-----------------------------------------------------------------------------
(* TypeOK is not inductive: a retry needs an attempt to be left when the   *)
(* sleep began, and a failed request a model still to be counted.          *)
CallsInRange ==
  \A c \in Callers :
    /\ InFlight(c) => tried[c] < NumModels
    /\ phase[c] = "backoff" => attempt[c] < MaxAttempts

(* TypeOK without circuitOpen: the solver that knows arithmetic does not   *)
(* handle a variable whose values are truth values.                        *)
NumbersTyped ==
  /\ llm \in Registry \cup Unlisted
  /\ index \in Registry
  /\ elapsed \in 0 .. Cooldown
  /\ failures \in Nat
  /\ phase \in [Callers -> Phases]
  /\ tried \in [Callers -> 0 .. NumModels]
  /\ attempt \in [Callers -> 1 .. MaxAttempts]
  /\ CallsInRange

TypeInv == TypeOK /\ CallsInRange

LEMMA TypeInvParts == TypeInv <=> circuitOpen \in BOOLEAN /\ NumbersTyped
  BY Zenon DEF TypeInv, TypeOK, NumbersTyped

LEMMA TypeInvInit == Init => TypeInv
<1> SUFFICES ASSUME Init PROVE circuitOpen \in BOOLEAN /\ NumbersTyped
  BY TypeInvParts
<1>1. circuitOpen \in BOOLEAN
  BY DEF Init
<1>2. NumbersTyped
  BY NumModelsAssumption, MaxAttemptsAssumption, CooldownAssumption
  DEF Init, NumbersTyped, CallsInRange, InFlight, Phases, Registry
<1> QED
  BY <1>1, <1>2

LEMMA CircuitTyped ==
  ASSUME circuitOpen \in BOOLEAN, [Next]_vars
  PROVE  circuitOpen' \in BOOLEAN
  BY DEF Next, Start, Begin, PassCircuit, Reject, RefusePin, Answer, Succeed,
     TransientError, SwitchModel, Exhaust, CountFullFailure, ForeignError, Retry,
     Cancel, Tick, vars, breakerVars

LEMMA TypeInvNext == TypeInv /\ [Next]_vars => TypeInv'
<1> SUFFICES ASSUME TypeInv, [Next]_vars PROVE TypeInv'
  OBVIOUS
<1>a. circuitOpen \in BOOLEAN /\ NumbersTyped
  BY TypeInvParts
<1>b. circuitOpen' \in BOOLEAN
  BY <1>a, CircuitTyped
<1> SUFFICES NumbersTyped'
  BY <1>b, TypeInvParts, Zenon DEF TypeInv, TypeOK, NumbersTyped
<1> HIDE DEF TypeInv
<1> USE <1>a, NumModelsAssumption, MaxAttemptsAssumption, CooldownAssumption
    DEF NumbersTyped, CallsInRange, InFlight, Phases, Outcomes
<1>1. ASSUME NEW c \in Callers, NEW pin \in Pins, Begin(c, pin) PROVE NumbersTyped'
  <2>1. llm' \in Registry \cup Unlisted /\ index' \in Registry
    BY <1>1, PinsAssumption DEF Begin, SelectModel
  <2>2. elapsed' = 0 /\ failures' \in Nat
    BY <1>1 DEF Begin, PassCircuit
  <2> QED
    BY <1>1, <2>1, <2>2 DEF Begin
<1>2. ASSUME NEW c \in Callers, Reject(c) PROVE NumbersTyped'
  BY <1>2 DEF Reject, modelVars, breakerVars
<1>3. ASSUME NEW c \in Callers, RefusePin(c) PROVE NumbersTyped'
  <2>1. elapsed' = 0 /\ failures' \in Nat
    BY <1>3 DEF RefusePin, PassCircuit
  <2> QED
    BY <1>3, <2>1 DEF RefusePin, modelVars
<1>4. ASSUME NEW c \in Callers, Succeed(c) PROVE NumbersTyped'
  BY <1>4 DEF Succeed, modelVars
<1>5. ASSUME NEW c \in Callers, TransientError(c) PROVE NumbersTyped'
  BY <1>5 DEF TransientError, modelVars, breakerVars
<1>6. ASSUME NEW c \in Callers, SwitchModel(c) PROVE NumbersTyped'
  BY <1>6, NextModel DEF SwitchModel, breakerVars
<1>7. ASSUME NEW c \in Callers, Exhaust(c) PROVE NumbersTyped'
  <2>1. elapsed' \in 0 .. Cooldown /\ failures' \in Nat
    BY <1>7 DEF Exhaust, CountFullFailure
  <2> QED
    BY <1>7, <2>1 DEF Exhaust, modelVars
<1>8. ASSUME NEW c \in Callers, ForeignError(c) PROVE NumbersTyped'
  BY <1>8 DEF ForeignError, modelVars, breakerVars
<1>9. ASSUME NEW c \in Callers, Retry(c) PROVE NumbersTyped'
  BY <1>9 DEF Retry, modelVars, breakerVars
<1>10. ASSUME NEW c \in Callers, Cancel(c) PROVE NumbersTyped'
  BY <1>10 DEF Cancel, modelVars, breakerVars
<1>11. CASE Tick
  BY <1>11 DEF Tick, Rejecting, modelVars
<1>12. CASE UNCHANGED vars
  BY <1>12 DEF vars, modelVars, breakerVars
<1> QED
  BY <1>1, <1>2, <1>3, <1>4, <1>5, <1>6, <1>7, <1>8, <1>9, <1>10, <1>11, <1>12
  DEF Next, Start, Answer

LEMMA TypeInvariant == Spec => []TypeInv
  BY TypeInvInit, TypeInvNext, PTL DEF Spec

(* Every variable keeps its type: the position stays in the registry, a    *)
(* call never counts more models than there are nor more attempts than the *)
(* retry policy allows, and the clock stops at the cool-down.              *)
THEOREM TypeCorrect == Spec => []TypeOK
<1>1. TypeInv => TypeOK
  BY DEF TypeInv
<1> QED
  BY <1>1, TypeInvariant, PTL

-----------------------------------------------------------------------------
(* The position kept beside a registered active model is its own, whoever  *)
(* switches or pins.                                                       *)
THEOREM ModelAndPositionAgree == Spec => []ModelInSync
<1>1. Init => ModelInSync
  BY DEF Init, ModelInSync
<1>2. ModelInSync /\ [Next]_vars => ModelInSync'
  <2> SUFFICES ASSUME ModelInSync, [Next]_vars PROVE ModelInSync'
    OBVIOUS
  <2>1. ASSUME NEW c \in Callers, NEW pin \in Pins, Begin(c, pin) PROVE ModelInSync'
    <3>1. Registry' = Registry
      BY DEF Registry
    <3> QED
      BY <2>1, <3>1, PinsAssumption DEF Begin, SelectModel, ModelInSync
  <2>2. ASSUME NEW c \in Callers, SwitchModel(c) PROVE ModelInSync'
    BY <2>2 DEF SwitchModel, ModelInSync
  <2>3. CASE UNCHANGED modelVars
    BY <2>3 DEF modelVars, ModelInSync, Registry
  <2> QED
    BY <2>1, <2>2, <2>3
    DEF Next, Start, Answer, Reject, RefusePin, Succeed, TransientError, Exhaust,
        ForeignError, Retry, Cancel, Tick, vars
<1> QED
  BY <1>1, <1>2, PTL DEF Spec

-----------------------------------------------------------------------------
(* FailuresBounded is not inductive: what an open circuit can still count  *)
(* is limited by the calls under way, so the invariant adds them up.       *)
Active == {c \in Callers : InFlight(c)}

BreakerInv ==
  /\ ~circuitOpen => failures < FullFailureLimit
  /\ circuitOpen => failures + Cardinality(Active) <= Cardinality(Callers) + 1

LEMMA ActiveFinite ==
  /\ IsFiniteSet(Active)
  /\ Cardinality(Active) \in Nat
  /\ Cardinality(Callers) \in Nat
  /\ Cardinality(Active) <= Cardinality(Callers)
<1>1. IsFiniteSet(Callers) /\ Active \subseteq Callers
  BY CallersAssumption DEF Active
<1> QED
  BY <1>1, FS_Subset, FS_CardinalityType

(* A call that ends leaves one fewer under way. *)
LEMMA ActiveLoses ==
  ASSUME NEW c \in Callers, InFlight(c), phase \in [Callers -> Phases],
         NEW s \in Outcomes, phase' = [phase EXCEPT ![c] = s]
  PROVE  Cardinality(Active') = Cardinality(Active) - 1
<1>1. Active' = Active \ {c} /\ c \in Active
  BY DEF Active, InFlight, Outcomes
<1> QED
  BY <1>1, ActiveFinite, FS_RemoveElement

LEMMA ActiveKeeps ==
  ASSUME \A c \in Callers : InFlight(c)' <=> InFlight(c)
  PROVE  Active' = Active
  BY DEF Active

LEMMA BreakerInvNext == TypeInv /\ BreakerInv /\ [Next]_vars => BreakerInv'
<1> SUFFICES ASSUME TypeInv, BreakerInv, [Next]_vars PROVE BreakerInv'
  OBVIOUS
<1> USE ActiveFinite DEF FullFailureLimit
<1>a. phase \in [Callers -> Phases] /\ failures \in Nat
  BY DEF TypeInv, TypeOK
<1>b. Cardinality(Active') \in Nat /\ Cardinality(Active') <= Cardinality(Callers)
  <2>1. IsFiniteSet(Callers) /\ Active' \subseteq Callers
    BY CallersAssumption DEF Active
  <2> QED
    BY <2>1, FS_Subset, FS_CardinalityType
<1>1. ASSUME PassCircuit PROVE BreakerInv'
  BY <1>1 DEF PassCircuit, BreakerInv
<1>2. ASSUME Active' = Active, UNCHANGED breakerVars PROVE BreakerInv'
  BY <1>2 DEF BreakerInv, breakerVars
<1>3. ASSUME NEW c \in Callers, InFlight(c), NEW s \in Outcomes,
             phase' = [phase EXCEPT ![c] = s], UNCHANGED breakerVars
      PROVE  BreakerInv'
  <2>1. Cardinality(Active') = Cardinality(Active) - 1
    BY <1>3, <1>a, ActiveLoses
  <2> QED
    BY <1>3, <1>a, <2>1 DEF BreakerInv, breakerVars
<1>4. ASSUME NEW c \in Callers, Succeed(c) PROVE BreakerInv'
  BY <1>4, <1>b DEF Succeed, BreakerInv
<1>5. ASSUME NEW c \in Callers, Exhaust(c) PROVE BreakerInv'
  <2>1. Cardinality(Active') = Cardinality(Active) - 1
    BY <1>5, <1>a, ActiveLoses DEF Exhaust, InFlight, Outcomes
  <2> QED
    BY <1>5, <1>a, <2>1 DEF Exhaust, CountFullFailure, BreakerInv
<1>6. ASSUME NEW c \in Callers, Reject(c) PROVE BreakerInv'
  <2>1. Active' = Active
    BY <1>6, <1>a, ActiveKeeps DEF Reject, InFlight
  <2> QED
    BY <1>2, <1>6, <2>1 DEF Reject
<1>7. ASSUME NEW c \in Callers, TransientError(c) \/ Retry(c) \/ SwitchModel(c)
      PROVE  BreakerInv'
  <2>1. Active' = Active
    BY <1>7, <1>a, ActiveKeeps DEF TransientError, Retry, SwitchModel, InFlight
  <2> QED
    BY <1>2, <1>7, <2>1 DEF TransientError, Retry, SwitchModel
<1>8. ASSUME NEW c \in Callers, ForeignError(c) \/ Cancel(c) PROVE BreakerInv'
  BY <1>3, <1>8 DEF ForeignError, Cancel, InFlight, Outcomes
<1>9. CASE Tick
  BY <1>9 DEF Tick, BreakerInv, Active, InFlight
<1>10. CASE UNCHANGED vars
  BY <1>2, <1>10 DEF vars, breakerVars, Active, InFlight
<1> QED
  BY <1>1, <1>4, <1>5, <1>6, <1>7, <1>8, <1>9, <1>10
  DEF Next, Start, Begin, RefusePin, Answer

(* The failure count never exceeds the number of concurrent callers plus   *)
(* one, and a closed circuit is below the limit: calls that fail late can  *)
(* neither run the count up nor leave it at the limit.                     *)
THEOREM FailuresAlwaysBounded == Spec => []FailuresBounded
<1>1. Init => BreakerInv
  BY DEF Init, BreakerInv, FullFailureLimit
<1>2. TypeInv /\ BreakerInv => FailuresBounded
  BY ActiveFinite DEF TypeInv, TypeOK, BreakerInv, FailuresBounded, FullFailureLimit
<1> QED
  BY <1>1, <1>2, TypeInvariant, BreakerInvNext, PTL DEF Spec

-----------------------------------------------------------------------------
(* What one model's budget is worth in requests. *)
LEMMA OneModelLess ==
  ASSUME NEW n \in Nat, NEW m \in Nat
  PROVE  (n + 1) * m = n * m + m
  OBVIOUS

LEMMA ProductNat ==
  ASSUME NEW n \in Nat, NEW m \in Nat
  PROVE  n * m \in Nat
  OBVIOUS

(* Requests left to a call that has used up t models and is at attempt a. *)
Left(t, a) == (NumModels - t - 1) * MaxAttempts + (MaxAttempts - a)

LEMMA LeftNat ==
  ASSUME NEW t \in 0 .. NumModels - 1, NEW a \in 1 .. MaxAttempts
  PROVE  Left(t, a) \in Nat
<1>1. NumModels - t - 1 \in Nat /\ MaxAttempts \in Nat /\ MaxAttempts - a \in Nat
  BY NumModelsAssumption, MaxAttemptsAssumption
<1>2. (NumModels - t - 1) * MaxAttempts \in Nat
  BY <1>1, ProductNat
<1> QED
  BY <1>1, <1>2 DEF Left

(* Going on to the next model costs at least the request it sends. *)
LEMMA LeftAfterSwitch ==
  ASSUME NEW t \in 0 .. NumModels - 2, NEW a \in 1 .. MaxAttempts
  PROVE  Left(t + 1, 1) + 1 <= Left(t, a)
<1> DEFINE n == NumModels - t - 2
<1>1. n \in Nat /\ MaxAttempts \in Nat
  BY NumModelsAssumption, MaxAttemptsAssumption
<1>2. (n + 1) * MaxAttempts = n * MaxAttempts + MaxAttempts /\ n * MaxAttempts \in Nat
  BY <1>1, OneModelLess, ProductNat
<1>3. NumModels - t - 1 = n + 1 /\ NumModels - (t + 1) - 1 = n
  BY NumModelsAssumption
<1>4. Left(t + 1, 1) = n * MaxAttempts + MaxAttempts - 1
  BY <1>2, <1>3, MaxAttemptsAssumption DEF Left
<1>5. Left(t, a) = n * MaxAttempts + MaxAttempts + (MaxAttempts - a)
  BY <1>2, <1>3, MaxAttemptsAssumption DEF Left
<1> QED
  BY <1>2, <1>4, <1>5, MaxAttemptsAssumption

LEMMA WorkNat ==
  ASSUME TypeInv, NEW c \in Callers
  PROVE  Work(c) \in Nat
<1>1. InFlight(c) => tried[c] \in 0 .. NumModels - 1 /\ attempt[c] \in 1 .. MaxAttempts
  BY NumModelsAssumption DEF TypeInv, TypeOK, CallsInRange
<1> QED
  BY <1>1, LeftNat DEF Work, Left

LEMMA WorkNatNext ==
  ASSUME TypeInv', NEW c \in Callers
  PROVE  Work(c)' \in Nat
<1>1. InFlight(c)' => tried'[c] \in 0 .. NumModels - 1 /\ attempt'[c] \in 1 .. MaxAttempts
  BY NumModelsAssumption DEF TypeInv, TypeOK, CallsInRange, InFlight, Registry
<1> QED
  BY <1>1, LeftNat DEF Work, Left

(* A request is paid for with the work that is left, whether it goes to    *)
(* the same model once more ...                                            *)
LEMMA RetryCosts ==
  ASSUME TypeInv, NEW c \in Callers, Retry(c)
  PROVE  InFlight(c) /\ InFlight(c)' /\ Work(c)' + 1 = Work(c)
<1>1. InFlight(c) /\ InFlight(c)' /\ tried'[c] = tried[c] /\ attempt'[c] = attempt[c] + 1
  BY DEF Retry, InFlight, TypeInv, TypeOK
<1>2. attempt[c] \in Nat /\ MaxAttempts \in Nat
  BY MaxAttemptsAssumption DEF TypeInv, TypeOK
<1> DEFINE rest == (NumModels - tried[c] - 1) * MaxAttempts
<1>3. rest \in Nat
  <2>1. NumModels - tried[c] - 1 \in Nat
    BY <1>1, NumModelsAssumption DEF TypeInv, TypeOK, CallsInRange
  <2> QED
    BY <1>2, <2>1, ProductNat
<1>4. /\ Work(c) = rest + (MaxAttempts - attempt[c])
      /\ Work(c)' = rest + (MaxAttempts - (attempt[c] + 1))
  BY <1>1 DEF Work
<1> HIDE DEF rest
<1> QED
  BY <1>1, <1>2, <1>3, <1>4

(* ... or to the next one. *)
LEMMA SwitchCosts ==
  ASSUME TypeInv, NEW c \in Callers, SwitchModel(c)
  PROVE  InFlight(c) /\ InFlight(c)' /\ Work(c)' + 1 <= Work(c)
<1>1. InFlight(c) /\ InFlight(c)' /\ tried'[c] = tried[c] + 1 /\ attempt'[c] = 1
  BY DEF SwitchModel, InFlight, TypeInv, TypeOK
<1>2. tried[c] \in 0 .. NumModels - 2 /\ attempt[c] \in 1 .. MaxAttempts
  BY NumModelsAssumption DEF SwitchModel, TypeInv, TypeOK
<1>3. Work(c) = Left(tried[c], attempt[c]) /\ Work(c)' = Left(tried[c] + 1, 1)
  BY <1>1 DEF Work, Left
<1> QED
  BY <1>1, <1>2, <1>3, LeftAfterSwitch

(* The local variables of a call are its own: another caller's step leaves *)
(* them alone, whatever it does to the shared ones.                        *)
Untouched(c) == phase'[c] = phase[c] /\ tried'[c] = tried[c] /\ attempt'[c] = attempt[c]

LEMMA OwnStep ==
  ASSUME TypeInv, [Next]_vars, NEW c \in Callers
  PROVE  \/ Untouched(c)
         \/ Start(c) \/ Reject(c) \/ RefusePin(c) \/ Answer(c) \/ Retry(c) \/ Cancel(c)
<1> USE DEF TypeInv, TypeOK, Untouched
<1>1. ASSUME NEW e \in Callers \ {c}, Start(e) \/ Reject(e) \/ RefusePin(e)
      PROVE  Untouched(c)
  BY <1>1 DEF Start, Begin, Reject, RefusePin
<1>2. ASSUME NEW e \in Callers \ {c}, Answer(e) \/ Retry(e) \/ Cancel(e)
      PROVE  Untouched(c)
  BY <1>2 DEF Answer, Succeed, TransientError, SwitchModel, Exhaust, ForeignError,
     Retry, Cancel
<1>3. CASE Tick \/ UNCHANGED vars
  BY <1>3 DEF Tick, vars
<1> QED
  BY <1>1, <1>2, <1>3 DEF Next

(* Every step but the beginning of a call takes work away or leaves it,    *)
(* and what sends a request takes it from the work that is left.           *)
LEMMA WorkNeverGrows ==
  ASSUME TypeInv, TypeInv', [Next]_vars, NEW c \in Callers,
         InFlight(c) \/ ~InFlight(c)'
  PROVE  Work(c)' <= Work(c)
<1>1. Work(c) \in Nat /\ Work(c)' \in Nat
  BY WorkNat, WorkNatNext
<1>2. CASE ~InFlight(c)'
  BY <1>1, <1>2 DEF Work
<1>3. CASE InFlight(c) /\ InFlight(c)' /\ tried'[c] = tried[c] /\ attempt'[c] = attempt[c]
  BY <1>1, <1>3 DEF Work
<1>4. CASE Retry(c) \/ SwitchModel(c)
  BY <1>1, <1>4, RetryCosts, SwitchCosts
<1>5. ASSUME InFlight(c), InFlight(c)', ~SwitchModel(c), ~Retry(c)
      PROVE  tried'[c] = tried[c] /\ attempt'[c] = attempt[c]
  BY <1>5, OwnStep
  DEF Untouched, Start, Begin, Reject, RefusePin, Answer, Succeed, TransientError, Exhaust,
      ForeignError, Cancel, InFlight, TypeInv, TypeOK
<1> QED
  BY <1>2, <1>3, <1>4, <1>5

(* While the circuit is open no call has more left to send after a step    *)
(* than before it: nobody begins, and switching models or retrying only    *)
(* uses the budget up.                                                     *)
THEOREM LoadDrains == Spec => LoadDrainsWhileOpen
<1>1. TypeInv /\ TypeInv' /\ [Next]_vars
        => [Rejecting => \A c \in Callers : Work(c)' <= Work(c)]_vars
  <2> SUFFICES ASSUME TypeInv, TypeInv', [Next]_vars, Rejecting, NEW c \in Callers
               PROVE  Work(c)' <= Work(c)
    OBVIOUS
  <2>1. InFlight(c) \/ ~InFlight(c)'
    BY DEF Next, Start, Begin, PassCircuit, Reject, RefusePin, Answer, Succeed, TransientError,
       SwitchModel, Exhaust, ForeignError, Retry, Cancel, Tick, vars, InFlight, TypeInv, TypeOK
  <2> QED
    BY <2>1, WorkNeverGrows
<1> QED
  BY <1>1, TypeInvariant, PTL DEF Spec, LoadDrainsWhileOpen

-----------------------------------------------------------------------------
(* How long a call can last, counted in its own steps.                     *)

(* All the requests one call may send. *)
Budget == NumModels * MaxAttempts

LEMMA BudgetNat == Budget \in Nat
  BY NumModelsAssumption, MaxAttemptsAssumption, ProductNat DEF Budget

(* The first request of a call leaves one less than the whole budget. *)
LEMMA FreshBudget == Left(0, 1) + 1 = Budget
<1> DEFINE n == NumModels - 1
<1>1. n \in Nat /\ MaxAttempts \in Nat /\ NumModels = n + 1
  BY NumModelsAssumption, MaxAttemptsAssumption
<1>2. (n + 1) * MaxAttempts = n * MaxAttempts + MaxAttempts /\ n * MaxAttempts \in Nat
  BY <1>1, OneModelLess, ProductNat
<1>3. NumModels - 0 - 1 = n
  BY <1>1
<1>4. Left(0, 1) = n * MaxAttempts + (MaxAttempts - 1)
  BY <1>3 DEF Left
<1>5. Budget = n * MaxAttempts + MaxAttempts
  BY <1>1, <1>2 DEF Budget
<1> HIDE DEF n
<1> QED
  BY <1>1, <1>2, <1>4, <1>5

LEMMA StartWork ==
  ASSUME TypeInv, NEW c \in Callers, Start(c)
  PROVE  Work(c)' + 1 = Budget
<1>1. InFlight(c)' /\ tried'[c] = 0 /\ attempt'[c] = 1
  BY DEF Start, Begin, InFlight, TypeInv, TypeOK
<1> QED
  BY <1>1, FreshBudget DEF Work, Left

(* A call under way has sent the first request of its budget. *)
WorkInBudget == \A c \in Callers : Work(c) < Budget

LEMMA WorkInBudgetInit == Init => WorkInBudget
<1> SUFFICES ASSUME Init, NEW c \in Callers PROVE Work(c) < Budget
  BY DEF WorkInBudget
<1>1. Work(c) = 0
  BY DEF Init, Work, InFlight
<1>2. Left(0, 1) \in Nat
  BY LeftNat, NumModelsAssumption, MaxAttemptsAssumption
<1> QED
  BY <1>1, <1>2, FreshBudget

LEMMA WorkInBudgetNext ==
  ASSUME TypeInv, TypeInv', WorkInBudget, [Next]_vars
  PROVE  WorkInBudget'
<1> SUFFICES ASSUME NEW c \in Callers PROVE (Work(c)' < Budget)
  BY DEF WorkInBudget, Budget
<1>1. Work(c) \in Nat /\ Work(c)' \in Nat /\ Budget \in Nat /\ Work(c) < Budget
  BY WorkNat, WorkNatNext, BudgetNat DEF WorkInBudget
<1>2. CASE InFlight(c) \/ ~InFlight(c)'
  BY <1>1, <1>2, WorkNeverGrows
<1>3. CASE ~InFlight(c) /\ InFlight(c)'
  <2>1. Start(c)
    BY <1>3, OwnStep
    DEF Untouched, Reject, RefusePin, Answer, Succeed, TransientError, SwitchModel, Exhaust,
        ForeignError, Retry, Cancel, InFlight, TypeInv, TypeOK
  <2> QED
    BY <1>1, <2>1, StartWork
<1> QED
  BY <1>2, <1>3

(* The awaits a call may still end: one for each request to come and one   *)
(* for the pause before it, and the reply that is outstanding now.         *)
AwaitsLeft(c) == 2 * Work(c) + IF phase[c] = "waiting" THEN 1 ELSE 0

LEMMA AwaitsBounded ==
  ASSUME TypeInv, WorkInBudget, NEW c \in Callers
  PROVE  AwaitsLeft(c) \in 0 .. 2 * Budget - 1
<1>1. Work(c) \in Nat /\ Budget \in Nat /\ Work(c) < Budget
  BY WorkNat, BudgetNat DEF WorkInBudget
<1> QED
  BY <1>1 DEF AwaitsLeft

LEMMA AwaitsRunDown ==
  ASSUME TypeInv, TypeInv', NEW c \in Callers,
         TransientError(c) \/ Retry(c) \/ SwitchModel(c)
  PROVE  (AwaitsLeft(c)' < AwaitsLeft(c))
<1>1. Work(c) \in Nat /\ Work(c)' \in Nat
  BY WorkNat, WorkNatNext
<1>2. CASE Retry(c) \/ SwitchModel(c)
  <2>1. Work(c)' + 1 <= Work(c)
    BY <1>1, <1>2, RetryCosts, SwitchCosts
  <2> QED
    BY <1>1, <2>1 DEF AwaitsLeft
<1>3. CASE TransientError(c)
  <2>1. phase[c] = "waiting" /\ phase'[c] = "backoff" /\ Work(c)' = Work(c)
    BY <1>3 DEF TransientError, Work, InFlight, TypeInv, TypeOK
  <2> QED
    BY <1>1, <2>1 DEF AwaitsLeft
<1> QED
  BY <1>2, <1>3

(* A call is over after at most two awaits for each request it may send:   *)
(* each of its own steps uses one up, and no step of another call, which   *)
(* may move the shared model under it, gives it any.  With the fairness    *)
(* that ends every await this is why CallTerminates holds.                 *)
THEOREM CallsRunDown ==
  Spec => /\ [](\A c \in Callers : AwaitsLeft(c) \in 0 .. 2 * Budget - 1)
          /\ [][\A c \in Callers : InFlight(c) /\ InFlight(c)' =>
                  Untouched(c) \/ AwaitsLeft(c)' < AwaitsLeft(c)]_vars
<1>1. TypeInv /\ WorkInBudget => \A c \in Callers : AwaitsLeft(c) \in 0 .. 2 * Budget - 1
  BY AwaitsBounded
<1>2. TypeInv /\ TypeInv' /\ [Next]_vars
        => [\A c \in Callers : InFlight(c) /\ InFlight(c)' =>
              Untouched(c) \/ AwaitsLeft(c)' < AwaitsLeft(c)]_vars
  <2> SUFFICES ASSUME TypeInv, TypeInv', [Next]_vars, NEW c \in Callers,
                      InFlight(c), InFlight(c)', ~Untouched(c)
               PROVE  (AwaitsLeft(c)' < AwaitsLeft(c))
    OBVIOUS
  <2>1. TransientError(c) \/ Retry(c) \/ SwitchModel(c)
    BY OwnStep
    DEF Start, Begin, Reject, RefusePin, Answer, Succeed, Exhaust, ForeignError, Cancel,
        InFlight, TypeInv, TypeOK
  <2> QED
    BY <2>1, AwaitsRunDown
<1> QED
  BY <1>1, <1>2, WorkInBudgetInit, WorkInBudgetNext, TypeInvariant, PTL DEF Spec

-----------------------------------------------------------------------------
(* Refinement of LLMGateway.                                               *)

LEMMA GatewayInit == Init => Gateway!Init
  BY DEF Init, Gateway!Init, GateOfCircuit, StreakOfFailures, StatusOfPhase,
     FullFailureLimit, Rejecting, InFlight

(* A step that changes c's phase changes c's status alike and no other.    *)
LEMMA StatusStep ==
  ASSUME phase \in [Callers -> Phases], NEW c \in Callers, NEW s \in Phases,
         phase' = [phase EXCEPT ![c] = s]
  PROVE  StatusOfPhase' = [StatusOfPhase EXCEPT ![c] =
           CASE s = "idle" -> "none"
             [] s \in {"waiting", "backoff"} -> "pending"
             [] s = "returned" -> "answered"
             [] s = "exhausted" -> "failed"
             [] s = "rejected" -> "refused"
             [] s \in {"errored", "cancelled"} -> "aborted"]
  BY DEF StatusOfPhase, Phases, Outcomes, InFlight

LEMMA PendingIsInFlight ==
  ASSUME phase \in [Callers -> Phases], NEW c \in Callers
  PROVE  Gateway!Pending(c) <=> InFlight(c)
  BY DEF Gateway!Pending, StatusOfPhase, InFlight, Phases, Outcomes

(* Every step of the service is a step of the gateway or changes nothing   *)
(* the gateway shows.                                                      *)
LEMMA GatewayStep == TypeInv /\ [Next]_vars => [Gateway!Next]_(Gateway!vars)
<1> SUFFICES ASSUME TypeInv, [Next]_vars PROVE Gateway!Next \/ UNCHANGED Gateway!vars
  OBVIOUS
<1>a. phase \in [Callers -> Phases] /\ failures \in Nat /\ elapsed \in Nat
  BY CooldownAssumption DEF TypeInv, TypeOK
<1>b. ASSUME UNCHANGED breakerVars PROVE UNCHANGED <<GateOfCircuit, StreakOfFailures>>
  BY <1>b, Zenon DEF breakerVars, GateOfCircuit, StreakOfFailures, Rejecting
<1> USE <1>a DEF FullFailureLimit
<1>1. ASSUME NEW c \in Callers, ~InFlight(c), PassCircuit,
             NEW s \in {"waiting", "errored"}, phase' = [phase EXCEPT ![c] = s]
      PROVE  Gateway!Admit(c)
  <2>1. ~Gateway!Pending(c)
    BY <1>1, PendingIsInFlight
  <2>2. GateOfCircuit = "open" /\ GateOfCircuit' = "open"
    BY <1>1 DEF PassCircuit, GateOfCircuit, Rejecting
  <2>3. StreakOfFailures' \in {StreakOfFailures, 0}
    BY <1>1 DEF PassCircuit, StreakOfFailures
  <2>4. Gateway!Becomes(c, "pending") \/ Gateway!Becomes(c, "aborted")
    BY <1>1, StatusStep DEF Gateway!Becomes, Phases, Outcomes
  <2> QED
    BY <2>1, <2>2, <2>3, <2>4 DEF Gateway!Admit
<1>2. ASSUME NEW c \in Callers, Reject(c) PROVE Gateway!Refuse(c)
  <2>1. ~Gateway!Pending(c)
    BY <1>2, PendingIsInFlight DEF Reject
  <2>2. GateOfCircuit = "shut"
    BY <1>2 DEF Reject, GateOfCircuit
  <2>3. UNCHANGED <<GateOfCircuit, StreakOfFailures>>
    BY <1>2 DEF Reject, breakerVars, GateOfCircuit, StreakOfFailures, Rejecting
  <2>4. Gateway!Becomes(c, "refused")
    BY <1>2, StatusStep DEF Reject, Gateway!Becomes, Phases, Outcomes
  <2> QED
    BY <2>1, <2>2, <2>3, <2>4 DEF Gateway!Refuse
<1>3. ASSUME NEW c \in Callers, Succeed(c) PROVE Gateway!Answer(c)
  <2>1. Gateway!Pending(c)
    BY <1>3, PendingIsInFlight DEF Succeed, InFlight
  <2>2. UNCHANGED GateOfCircuit
    BY <1>3 DEF Succeed, GateOfCircuit, Rejecting
  <2>3. StreakOfFailures' = 0
    BY <1>3 DEF Succeed, StreakOfFailures
  <2>4. Gateway!Becomes(c, "answered")
    BY <1>3, StatusStep DEF Succeed, Gateway!Becomes, Phases, Outcomes
  <2> QED
    BY <2>1, <2>2, <2>3, <2>4 DEF Gateway!Answer
<1>4. ASSUME NEW c \in Callers, Exhaust(c) PROVE Gateway!Fail(c)
  <2>1. Gateway!Pending(c)
    BY <1>4, PendingIsInFlight DEF Exhaust, InFlight
  <2>2. StreakOfFailures' = IF StreakOfFailures = 0 THEN 1 ELSE 2
    BY <1>4 DEF Exhaust, CountFullFailure, StreakOfFailures
  <2>3. GateOfCircuit' = IF StreakOfFailures = 0 THEN GateOfCircuit ELSE "shut"
    <3>1. CASE failures = 0
      BY <1>4, <3>1 DEF Exhaust, CountFullFailure, StreakOfFailures, GateOfCircuit, Rejecting
    <3>2. CASE failures # 0
      <4>1. circuitOpen' /\ elapsed' = 0
        BY <1>4, <3>2 DEF Exhaust, CountFullFailure
      <4> QED
        BY <3>2, <4>1, CooldownAssumption DEF StreakOfFailures, GateOfCircuit, Rejecting
    <3> QED
      BY <3>1, <3>2
  <2>4. Gateway!Becomes(c, "failed")
    BY <1>4, StatusStep DEF Exhaust, Gateway!Becomes, Phases, Outcomes
  <2> QED
    BY <2>1, <2>2, <2>3, <2>4 DEF Gateway!Fail
<1>5. ASSUME NEW c \in Callers, ForeignError(c) \/ Cancel(c) PROVE Gateway!Abort(c)
  <2>1. Gateway!Pending(c)
    BY <1>5, PendingIsInFlight DEF ForeignError, Cancel, InFlight
  <2>2. UNCHANGED <<GateOfCircuit, StreakOfFailures>>
    BY <1>5, <1>b DEF ForeignError, Cancel
  <2>3. Gateway!Becomes(c, "aborted")
    BY <1>5, StatusStep DEF ForeignError, Cancel, Gateway!Becomes, Phases, Outcomes
  <2> QED
    BY <2>1, <2>2, <2>3 DEF Gateway!Abort
<1>6. ASSUME NEW c \in Callers, TransientError(c) \/ Retry(c) \/ SwitchModel(c)
      PROVE  UNCHANGED Gateway!vars
  <2>1. UNCHANGED <<GateOfCircuit, StreakOfFailures>>
    BY <1>6, <1>b DEF TransientError, Retry, SwitchModel
  <2>2. \A e \in Callers : phase'[e] = phase[e] \/ (InFlight(e) /\ InFlight(e)')
    BY <1>6 DEF TransientError, Retry, SwitchModel, InFlight
  <2>3. ASSUME NEW e \in Callers PROVE StatusOfPhase'[e] = StatusOfPhase[e]
    <3>1. CASE phase'[e] = phase[e]
      BY <3>1 DEF StatusOfPhase, InFlight, Phases, Outcomes
    <3>2. CASE InFlight(e) /\ InFlight(e)'
      BY <3>2 DEF StatusOfPhase, InFlight
    <3> QED
      BY <2>2, <3>1, <3>2
  <2>4. UNCHANGED StatusOfPhase
    BY <2>3, Zenon DEF StatusOfPhase
  <2> QED
    BY <2>1, <2>4 DEF Gateway!vars
<1>7. ASSUME Tick PROVE Gateway!Reopen \/ UNCHANGED Gateway!vars
  <2>1. UNCHANGED <<StatusOfPhase, StreakOfFailures>>
    BY <1>7 DEF Tick, StatusOfPhase, StreakOfFailures, InFlight
  <2>2. GateOfCircuit = "shut" /\ GateOfCircuit' \in {"shut", "open"}
    BY <1>7 DEF Tick, GateOfCircuit
  <2> QED
    BY <2>1, <2>2 DEF Gateway!Reopen, Gateway!vars
<1>8. CASE UNCHANGED vars
  <2>1. UNCHANGED <<GateOfCircuit, StreakOfFailures>>
    BY <1>8, <1>b DEF vars
  <2>2. ASSUME NEW e \in Callers PROVE StatusOfPhase'[e] = StatusOfPhase[e]
    BY <1>8 DEF vars, StatusOfPhase, InFlight
  <2>3. UNCHANGED StatusOfPhase
    BY <2>2, Zenon DEF StatusOfPhase
  <2> QED
    BY <2>1, <2>3 DEF Gateway!vars
<1> QED
  BY <1>1, <1>2, <1>3, <1>4, <1>5, <1>6, <1>7, <1>8
  DEF Next, Start, Begin, RefusePin, Answer, Gateway!Next, Gateway!Finish

(* The service implements the gateway: calls are admitted only when the    *)
(* circuit lets them pass, refused only when it does not, and the circuit  *)
(* trips only on the second failed call with no reply since the first.     *)
THEOREM ServiceImplementsGateway == Spec => ImplementsGateway
  BY GatewayInit, GatewayStep, TypeInvariant, PTL DEF Spec, ImplementsGateway, Gateway!Spec

=============================================================================
