--------------------------- MODULE LLMServiceHistory ---------------------------
(***************************************************************************)
(* LLMService with a record of what each call sent and to which model.     *)
(* The record only watches: HNext lets the service do what Next does.      *)
(***************************************************************************)
EXTENDS LLMService

VARIABLES
  sent,       (* per caller: requests its latest call has sent             *)
  asked,      (* per caller: the models those requests went to             *)
  alone       (* per caller: no other call was under way during that call, *)
              (* and it began on a registered model                        *)

historyVars == <<sent, asked, alone>>
hvars == <<vars, historyVars>>

HInit ==
  /\ Init
  /\ sent = [c \in Callers |-> 0]
  /\ asked = [c \in Callers |-> {}]
  /\ alone = [c \in Callers |-> FALSE]

Begins(c) == ~InFlight(c) /\ InFlight(c)'

(* The step sends a request for c; it goes to the model active after it. *)
Sends(c) ==
  /\ phase'[c] = "waiting"
  /\ phase[c] # "waiting" \/ tried'[c] # tried[c]

NobodyElse(c) == \A e \in Callers \ {c} : ~InFlight(e)

(* The record of a call is kept until it ends, and if it gives up, until   *)
(* the caller's next call.                                                 *)
Kept(c) == InFlight(c) \/ phase[c] = "exhausted"

HistoryStep ==
  /\ sent' = [c \in Callers |->
                IF Begins(c) THEN 1
                ELSE IF Sends(c) THEN sent[c] + 1
                ELSE IF Kept(c)' THEN sent[c] ELSE 0]
  /\ asked' = [c \in Callers |->
                IF Begins(c) THEN {llm'}
                ELSE IF Sends(c) THEN asked[c] \cup {llm'}
                ELSE IF Kept(c)' THEN asked[c] ELSE {}]
  /\ alone' = [c \in Callers |->
                IF Begins(c) THEN NobodyElse(c)' /\ llm' = index'
                ELSE alone[c] /\ Kept(c)' /\ (InFlight(c)' => NobodyElse(c)')]

HNext == Next /\ HistoryStep

HSpec == HInit /\ [][HNext]_hvars

-----------------------------------------------------------------------------

(* However the calls interleave, one call never sends more than            *)
(* MAX_LLM_CALL_RETRIES requests per registered model: a switch made by    *)
(* another call neither lends it attempts nor restarts its count.          *)
RequestBudget == \A c \in Callers : sent[c] <= NumModels * MaxAttempts

(* A call that no other call overlapped, and that began on a registered    *)
(* model, gives up only after it has asked every model of the registry:    *)
(* the circular walk skips none from whatever position it starts.          *)
SoloExhaustive ==
  \A c \in Callers :
    phase[c] = "exhausted" /\ alone[c] => asked[c] = Registry

(* Claimed by the docstring of call ("RuntimeError: If every model in the  *)
(* registry fails after retries", app/services/llm.py:257): a call that    *)
(* gives up has asked every model.  Overlapping calls advance the shared   *)
(* position past models that one of them then never asks.                  *)
ExhaustedMeansAllAsked ==
  \A c \in Callers : phase[c] = "exhausted" => asked[c] = Registry

=============================================================================
