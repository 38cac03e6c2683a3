------------------------------ MODULE HealthProbe ------------------------------
(***************************************************************************)
(* GET /health (app/main.py) beside the LLM service it reports on.  A      *)
(* probe waits for a database check in a worker thread; only then does it  *)
(* read the state of the LLM service, and answers without a further await. *)
(*                                                                         *)
(* The database is external: it is up or down, and changes on its own.     *)
(***************************************************************************)
EXTENDS LLMService

CONSTANT Probes   (* requests to /health that may be under way             *)

VARIABLES
  dbUp,       (* the database answers SELECT 1                             *)
  probe,      (* per probe: "idle", "asked", or what the thread found      *)
  report      (* per probe: components of its last payload; TRUE is healthy *)

probeVars == <<dbUp, probe, report>>
hpvars == <<vars, probeVars>>

Reports == [database : BOOLEAN, llm : BOOLEAN]

HealthTypeOK ==
  /\ TypeOK
  /\ dbUp \in BOOLEAN
  /\ probe \in [Probes -> {"idle", "asked", "up", "down"}]
  /\ report \in [Probes -> Reports]

HPInit ==
  /\ Init
  /\ dbUp \in BOOLEAN
  /\ probe = [p \in Probes |-> "idle"]
  /\ report = [p \in Probes |-> [database |-> TRUE, llm |-> TRUE]]

(* The service moves while probes wait. *)
ServiceStep == Next /\ UNCHANGED probeVars

(* The database goes down or comes back. *)
DatabaseChanges == dbUp' = ~dbUp /\ UNCHANGED <<vars, probe, report>>

(* health_check hands the database check to a worker thread. *)
AskDatabase(p) ==
  /\ probe[p] = "idle"
  /\ probe' = [probe EXCEPT ![p] = "asked"]
  /\ UNCHANGED <<vars, dbUp, report>>

(* Mistake: an error of the database is left to the retry. *)
DatabaseAnswersWhenUp(p) ==
  /\ probe[p] = "asked"
  /\ dbUp
  /\ probe' = [probe EXCEPT ![p] = "up"]
  /\ UNCHANGED <<vars, dbUp, report>>

(* The thread has run SELECT 1.  Its errors become the answer False, so    *)
(* the retry around the thread call never sees one.                        *)
DatabaseAnswers(p) ==
  /\ probe[p] = "asked"
  /\ probe' = [probe EXCEPT ![p] = IF dbUp THEN "up" ELSE "down"]
  /\ UNCHANGED <<vars, dbUp, report>>

(* Mistake: a model being loaded is taken for a service that answers. *)
LLMHealthyByModel == llm \in Registry \cup Unlisted

(* A model is always loaded, so the circuit decides.  The flag is read as  *)
(* it stands: a cool-down that is over has not closed it yet.              *)
LLMHealthy == ~circuitOpen

(* The event loop resumes the probe, which answers. *)
Respond(p) ==
  /\ probe[p] \in {"up", "down"}
  /\ report' = [report EXCEPT ![p] = [database |-> probe[p] = "up", llm |-> LLMHealthy]]
  /\ probe' = [probe EXCEPT ![p] = "idle"]
  /\ UNCHANGED <<vars, dbUp>>

Probe(p) == AskDatabase(p) \/ DatabaseAnswers(p) \/ Respond(p)

HPNext ==
  \/ ServiceStep
  \/ DatabaseChanges
  \/ \E p \in Probes : Probe(p)

HPSpec == HPInit /\ [][HPNext]_hpvars

(* Probes keep coming (docker-compose.yml:44-46 polls /health) and are     *)
(* answered; calls end and the clock runs.  Nobody need call the service   *)
(* again: an instance that reports 503 may get no more triage requests.    *)
MonitoredSpec ==
  /\ HPSpec
  /\ \A c \in Callers : WF_hpvars(Answer(c) /\ UNCHANGED probeVars)
  /\ \A c \in Callers : WF_hpvars(Retry(c) /\ UNCHANGED probeVars)
  /\ WF_hpvars(Tick /\ UNCHANGED probeVars)
  /\ \A p \in Probes : WF_hpvars(Probe(p))

-----------------------------------------------------------------------------

(* A probe never reports the LLM healthy at a moment when a triage request *)
(* would be refused, although it waits for the database between its start  *)
(* and its answer: the flag it reads is the one of the moment it answers.  *)
NoFalseGreen ==
  [][\A p \in Probes :
       probe[p] # "idle" /\ probe'[p] = "idle" /\ report'[p].llm => ~Rejecting]_hpvars

(* Every probe is answered whatever the database and the provider do. *)
ProbeAnswered == \A p \in Probes : probe[p] # "idle" ~> probe[p] = "idle"

(* Claimed by docs/runbook.md:56-58 (/health returns "llm: unhealthy" ...  *)
(* "The circuit auto-resets after 60 seconds"): once no call is under way, *)
(* so that nothing can open the circuit again, /health comes back to       *)
(* healthy.  Only the next call closes the circuit, so an instance nobody  *)
(* calls reports unhealthy for ever.                                       *)
LLMHealthRecovers ==
  <>[](\A c \in Callers : ~InFlight(c)) => \A p \in Probes : []<>(report[p].llm)

=============================================================================
