------------------------------ MODULE Deployment ------------------------------
(***************************************************************************)
(* How a SeshOps process comes to serve: where its settings come from      *)
(* (scripts/set_env.sh, docker-compose.yml, scripts/docker-entrypoint.sh,  *)
(* app/core/config.py), which engine they select (app/models/engine.py),   *)
(* the tables the two instances of DatabaseService create while the        *)
(* modules are imported, the gate of app/main.py, and what is left for the *)
(* next start when it fails, stops or is killed.                           *)
(*                                                                         *)
(* A source of settings is a function from the keys it sets to values as   *)
(* they are written; a file without settings stands for no file.  A value  *)
(* has a text, bare, in quotes or with a comment behind it.  Each reader   *)
(* of a file takes something else for the text: what is kept besides it    *)
(* becomes part of the setting.  A list is a JSON list ("all", or a rate   *)
(* named after its hourly limit) or "text"; its quotes are single ones.    *)
(* Keys that no property tells apart are left out.                         *)
(***************************************************************************)
EXTENDS Naturals

CONSTANTS
  Hosts,            (* what there may be where operators start the process *)
  MaxStops          (* bound on how often it is stopped or killed          *)

Written(text, as) == [text |-> text, as |-> as]
Bare(text) == Written(text, "bare")

Environments == {"development", "staging", "production", "test"}
Managed == {"DEBUG", "LOG_LEVEL", "LOG_FORMAT", "RATE_LIMIT_DEFAULT"}
Lists == {"ALLOWED_ORIGINS", "RATE_LIMIT_DEFAULT"}

Values(debug, level, format, rate) ==
  [DEBUG |-> Bare(debug), LOG_LEVEL |-> Bare(level), LOG_FORMAT |-> Bare(format),
   RATE_LIMIT_DEFAULT |-> Bare(rate)]

(* What the source f sets, and what g sets and f does not. *)
Over(f, g) ==
  [k \in DOMAIN f \cup DOMAIN g |-> IF k \in DOMAIN f THEN f[k] ELSE g[k]]

(* _ENV_OVERRIDES. *)
Overrides == [
  development |-> Values("on", "DEBUG", "console", "200"),
  staging     |-> Values("off", "INFO", "json", "100"),
  production  |-> Values("off", "WARNING", "json", "50"),
  test        |-> Values("on", "DEBUG", "console", "1000")]

Defaults ==
  Over(Values("off", "INFO", "json", "50"),
       [ENVIRONMENT |-> Bare("development"), POSTGRES_HOST |-> Bare("localhost"),
        JWT_SECRET_KEY |-> Bare(""), OPENAI_API_KEY |-> Bare(""),
        ALLOWED_ORIGINS |-> Bare("all")])

Keys == Managed \cup Lists \cup
  {"ENVIRONMENT", "POSTGRES_HOST", "JWT_SECRET_KEY", "OPENAI_API_KEY"}
Empty == <<>>

(* The APP_ENV an operator asks for, which names a file; the environment   *)
(* variables of the shell; .env.<APP_ENV>; .env.                           *)
Targets == {"development", "staging", "production"}
Host(target, os, named, dotenv) ==
  [target |-> target, os |-> os, named |-> named, dotenv |-> dotenv]

ASSUME HostsAssumption ==
  /\ Hosts # {}
  /\ \A h \in Hosts :
       /\ h = Host(h.target, h.os, h.named, h.dotenv)
       /\ h.target \in Targets
       /\ \A f \in {h.os, h.named, h.dotenv} : DOMAIN f \subseteq Keys

ASSUME MaxStopsAssumption == MaxStops \in Nat

(* uvicorn by hand; make dev, staging or prod; docker compose; an image of *)
(* make docker-build by docker run.                                        *)
Containers == {"compose", "run"}
Launchers == {"uvicorn", "make"} \cup Containers

(* What a process is started with: variables given to it one by one, those *)
(* of compose's env_file, and the two files it finds beside it, which in a *)
(* container are those of its image.  A container keeps all of it.         *)
Launch(launcher, target, given, envFile, named, dotenv) ==
  [launcher |-> launcher, target |-> target, given |-> given,
   envFile |-> envFile, named |-> named, dotenv |-> dotenv]

VARIABLES
  host,         (* what an operator finds and edits                        *)
  launch,       (* what the last start was made with                       *)
  phase,        (* how far the process is                                  *)
  settings,     (* the settings object                                     *)
  database,     (* whether the PostgreSQL server answers                   *)
  tables,       (* per place for a database: the tables exist in it        *)
  missed,       (* failures to create them that this start has swallowed   *)
  stops

vars == <<host, launch, phase, settings, database, tables, missed, stops>>

(* In memory, seshops.db of the host, that of a container, the server. *)
Places == {"memory", "file", "layer", "postgres"}
Running == {"imported", "created", "assembled", "serving"}

Environment(s) == s["ENVIRONMENT"].text

DeploymentTypeOK ==
  /\ host.target \in Targets
  /\ launch.launcher \in Launchers /\ launch.target \in Targets
  /\ phase \in {"down", "exited"} \cup Running
  /\ DOMAIN settings = Keys /\ Environment(settings) \in Environments
  /\ database \in {"up", "down"}
  /\ tables \in [Places -> BOOLEAN]
  /\ missed \in 0 .. 2
  /\ stops \in 0 .. MaxStops
  /\ tables["memory"] => phase \in Running

ByHand(launcher, h) == Launch(launcher, h.target, h.os, Empty, h.named, h.dotenv)

Init ==
  /\ host \in Hosts
  /\ launch = ByHand("uvicorn", host)
  /\ phase = "down"
  /\ settings = Defaults
  /\ database \in {"up", "down"}
  /\ tables = [p \in Places |-> FALSE]
  /\ missed = 0
  /\ stops = 0

-----------------------------------------------------------------------------
(* Reading settings.                                                       *)

(* .env.example: quotes, a comment, and lists that are no JSON lists. *)
Template ==
  [DEBUG |-> Bare("on"), LOG_LEVEL |-> Bare("DEBUG"), LOG_FORMAT |-> Bare("console"),
   POSTGRES_HOST |-> Bare("db"), JWT_SECRET_KEY |-> Written("placeholder", "quoted"),
   OPENAI_API_KEY |-> Written("key", "commented"),
   ALLOWED_ORIGINS |-> Written("text", "quoted"),
   RATE_LIMIT_DEFAULT |-> Written("text", "quoted")]

NotEmpty(f) == [k \in {key \in DOMAIN f : f[key] # Bare("")} |-> f[k]]

(* python-dotenv and docker compose drop quotes and comments. *)
Parsed(f) == [k \in DOMAIN f |-> Bare(f[k].text)]

(* A shell that sources the file does too, and takes the double quotes out *)
(* of a JSON list that has no quotes around it.                            *)
Sourced(f) ==
  [k \in DOMAIN f |->
     IF k \in Lists /\ f[k].as # "quoted" THEN Bare("text") ELSE Bare(f[k].text)]

(* set_env.sh exports all of the file. *)
FromSetEnv(l) == Over(Sourced(l.named), l.given)

(* The environment a container is created with. *)
Environ(l) == Over(l.given, Parsed(l.envFile))

(* The entrypoint exports lines of one file as they stand, quotes and      *)
(* comments with them, where the environment sets nothing or the empty     *)
(* string.                                                                 *)
FromEntrypoint(l) ==
  LET environ == Environ(l)
      file == IF l.named = Empty THEN l.dotenv ELSE l.named
  IN  Over(NotEmpty(environ), Over(file, environ))

(* The environment variables of the process. *)
Exported(l) ==
  CASE l.launcher \in Containers -> FromEntrypoint(l)
    [] l.launcher = "make"       -> FromSetEnv(l)
    [] OTHER                     -> l.given

Resolve(v) ==
  CASE v \in {Bare("production"), Bare("prod")} -> "production"
    [] v \in {Bare("staging"), Bare("stage")}   -> "staging"
    [] v = Bare("test")                         -> "test"
    [] OTHER                                    -> "development"

(* Environment variables, then .env, then defaults. *)
Read(l) == Over(Exported(l), Over(Parsed(l.dotenv), Defaults))

(* Mistake: the environment's values replace what the operator has set. *)
EffectiveOverridden(l) ==
  LET environment == Resolve(Read(l)["ENVIRONMENT"])
  IN  Over(Overrides[environment], [Read(l) EXCEPT !["ENVIRONMENT"] = Bare(environment)])

(* Settings(): model_post_init replaces what is managed and no environment *)
(* variable.                                                               *)
Effective(l) ==
  LET exported == Exported(l)
      read == Read(l)
      environment == Resolve(read["ENVIRONMENT"])
  IN  [k \in Keys |-> CASE k = "ENVIRONMENT" -> Bare(environment)
                        [] k \in Managed \ DOMAIN exported -> Overrides[environment][k]
                        [] OTHER -> read[k]]

IsJson(v) == v.as = "bare" /\ v.text \notin {"", "text"}

(* The entrypoint finds what it requires, every source's lists parse, also *)
(* those that another source hides, and so does the truth value.           *)
Loadable(l) ==
  LET exported == Exported(l)
  IN  /\ l.launcher \in Containers =>
           {"JWT_SECRET_KEY", "OPENAI_API_KEY"} \subseteq DOMAIN NotEmpty(exported)
      /\ \A f \in {exported, Parsed(l.dotenv)} : \A k \in Lists \cap DOMAIN f : IsJson(f[k])
      /\ Read(l)["DEBUG"] \in {Bare("on"), Bare("off")}

EngineKind(s) ==
  IF Environment(s) \in {"development", "test"} /\ s["POSTGRES_HOST"] = Bare("localhost")
    THEN IF Environment(s) = "test" THEN "memory" ELSE "file"
    ELSE "postgres"

(* Where the engine's database is; a container has files of its own. *)
Place(l, s) ==
  IF EngineKind(s) = "file" /\ l.launcher \in Containers THEN "layer" ELSE EngineKind(s)

-----------------------------------------------------------------------------
(* Starts.                                                                 *)

(* Operators edit files and shell at any time; what has been started does  *)
(* not look at them again.                                                 *)
Edit(h) ==
  /\ host' = h
  /\ UNCHANGED <<launch, phase, settings, database, tables, missed, stops>>

(* The settings object is built from l, or the start fails before it. *)
Begin(l) ==
  /\ phase \notin Running
  /\ launch' = l
  /\ \/ /\ Loadable(l)
        /\ settings' = Effective(l)
        /\ phase' = "imported"
     \/ /\ ~Loadable(l)
        /\ phase' = "exited"
        /\ UNCHANGED settings
  /\ UNCHANGED <<database, missed, stops>>

StartUvicorn ==
  /\ Begin(ByHand("uvicorn", host))
  /\ UNCHANGED <<host, tables>>

(* set_env.sh copies the template where there is no file. *)
StartMake ==
  /\ host' = IF host.named = Empty THEN [host EXCEPT !.named = Template] ELSE host
  /\ Begin(ByHand("make", host'))
  /\ UNCHANGED tables

(* docker-compose.yml sets this variable itself, over the env_file: to the *)
(* shell's value, or that of the file compose substitutes from, or its own.*)
Substituted(file) ==
  LET known == NotEmpty(Over(host.os, Parsed(file)))
  IN  IF "JWT_SECRET_KEY" \in DOMAIN known THEN known["JWT_SECRET_KEY"]
                                           ELSE Bare("change-me-in-production")

(* The image is built from the files there are now, or is an older one. *)
Images ==
  {[named |-> host.named, dotenv |-> host.dotenv]} \cup
    IF launch.launcher \in Containers /\ launch.target = host.target
      THEN {[named |-> launch.named, dotenv |-> launch.dotenv]} ELSE {}

(* A plain docker-compose up substitutes from .env; with --env-file, as    *)
(* the Makefile has it, from the env_file.  There must be one.             *)
Composed ==
  {Launch("compose", host.target, [JWT_SECRET_KEY |-> Substituted(file)], host.named,
          image.named, image.dotenv) :
     file \in {host.dotenv, host.named}, image \in Images}

(* docker run, with the shell's variables. *)
Ran ==
  {Launch("run", host.target, host.os, Empty, image.named, image.dotenv) : image \in Images}

(* A new container replaces the last.  Its files are those of its image,   *)
(* which has a copy of seshops.db if there was one when it was built.      *)
Create(l) ==
  /\ \/ l \in Composed /\ host.named # Empty /\ l # launch
     \/ l \in Ran
  /\ Begin(l)
  /\ tables' \in {[tables EXCEPT !["layer"] = copied] : copied \in {FALSE, tables["file"]}}
  /\ UNCHANGED host

(* The same container is started again, by its operator or by Docker. *)
StartAgain ==
  /\ launch.launcher \in Containers
  /\ Begin(launch)
  /\ UNCHANGED <<host, tables>>

(* Mistake: the database of tests is kept from process to process. *)
EndsKeepingTables(p) ==
  /\ phase' = p
  /\ settings' = Defaults
  /\ missed' = 0
  /\ UNCHANGED tables

(* What is in memory goes with the process. *)
Ends(p) ==
  /\ phase' = p
  /\ settings' = Defaults
  /\ missed' = 0
  /\ tables' = [tables EXCEPT !["memory"] = FALSE]

(* Mistake: a database that does not answer is tolerated everywhere. *)
ToleratesAlways == TRUE

(* DatabaseService() lets an error pass in production. *)
Tolerates == Environment(settings) = "production"

(* DatabaseService() is called by its own module and again by auth.py. *)
CreateTables ==
  /\ phase \in {"imported", "created"}
  /\ LET place == Place(launch, settings)
         next == IF phase = "imported" THEN "created" ELSE "assembled"
         reachable == place = "postgres" => database = "up"
     IN  \/ /\ reachable
            /\ tables' = [tables EXCEPT ![place] = TRUE]
            /\ phase' = next
            /\ UNCHANGED <<settings, missed>>
         \/ /\ ~reachable /\ Tolerates
            /\ missed' = missed + 1
            /\ phase' = next
            /\ UNCHANGED <<settings, tables>>
         \/ /\ ~reachable /\ ~Tolerates
            /\ Ends("exited")
  /\ UNCHANGED <<host, launch, database, stops>>

WeakSecret(s) == s["JWT_SECRET_KEY"] \in {Bare(""), Bare("change-me-in-production")}

(* Mistake: the gate is closed in every environment. *)
GateRefusesEverywhere == WeakSecret(settings)

GateRefuses == Environment(settings) = "production" /\ WeakSecret(settings)

(* The lifespan function is the last thing before requests are served.     *)
Serve ==
  /\ phase = "assembled"
  /\ ~GateRefuses
  /\ phase' = "serving"
  /\ UNCHANGED <<host, launch, settings, database, tables, missed, stops>>

RefuseToServe ==
  /\ phase = "assembled"
  /\ GateRefuses
  /\ Ends("exited")
  /\ UNCHANGED <<host, launch, database, stops>>

(* The process, or the container that keeps failing, is shut down or,      *)
(* which Docker takes for a failure, killed.                               *)
Stop ==
  /\ phase # "down"
  /\ stops < MaxStops
  /\ stops' = stops + 1
  /\ \E p \in {"down", "exited"} : Ends(p)
  /\ UNCHANGED <<host, launch, database>>

DatabaseTurns ==
  /\ database' = IF database = "up" THEN "down" ELSE "up"
  /\ UNCHANGED <<host, launch, phase, settings, tables, missed, stops>>

Proceed == CreateTables \/ Serve \/ RefuseToServe

Next ==
  \/ \E h \in Hosts : Edit(h)
  \/ StartUvicorn
  \/ StartMake
  \/ \E l \in Composed \cup Ran : Create(l)
  \/ StartAgain
  \/ Proceed
  \/ Stop
  \/ DatabaseTurns

Spec == Init /\ [][Next]_vars

(* restart: on-failure of docker-compose.yml: what failed is started again *)
(* as it is, whatever has been edited since.                               *)
Restart ==
  /\ phase = "exited"
  /\ launch.launcher = "compose"
  /\ StartAgain

(* Imports end, and Docker restarts a container that failed. *)
FairSpec == Spec /\ WF_vars(Proceed) /\ WF_vars(Restart)

-----------------------------------------------------------------------------

(* What was written where the launcher looks first, and in a way its       *)
(* reader understands, is in effect as it is meant; neither .env nor an    *)
(* environment's own values outdo it.  make takes any value but a list     *)
(* without quotes, compose's env_file any but the secret (docker-compose   *)
(* has one of its own) and the empty one, the entrypoint only bare ones,   *)
(* .env any, but managed ones only from the entrypoint.                    *)
WrittenSettingsInEffect ==
  phase \in Running =>
    \A k \in Keys :
      LET Is(v) == settings[k] = IF k = "ENVIRONMENT" THEN Bare(Resolve(v)) ELSE v
          Meant(f) == Bare(f[k].text)
          Sets(f) == k \in DOMAIN f
          file == IF launch.named = Empty THEN launch.dotenv ELSE launch.named
          contained == launch.launcher \in Containers
          silent == /\ Sets(launch.given) => launch.given[k] = Bare("")
                    /\ Sets(launch.envFile) => launch.envFile[k].text = ""
      IN  /\ Sets(launch.given) /\ launch.launcher = "uvicorn" => Is(launch.given[k])
          /\ Sets(launch.dotenv) /\ launch.launcher = "uvicorn" /\ ~Sets(launch.given)
               /\ k \notin Managed => Is(Meant(launch.dotenv))
          /\ Sets(launch.named) /\ launch.launcher = "make"
               /\ (k \in Lists => launch.named[k].as = "quoted") => Is(Meant(launch.named))
          /\ Sets(launch.given) /\ launch.launcher = "make" /\ ~Sets(launch.named) =>
               Is(launch.given[k])
          /\ Sets(launch.given) /\ contained /\ launch.given[k] # Bare("") =>
               Is(launch.given[k])
          /\ Sets(launch.envFile) /\ contained /\ ~Sets(launch.given)
               /\ launch.envFile[k].text # "" => Is(Meant(launch.envFile))
          /\ Sets(file) /\ contained /\ silent /\ file[k] = Meant(file) => Is(Meant(file))

(* It loads, and what runs as production has a secret of its own. *)
Startable(l) ==
  LET s == Effective(l)
  IN  /\ Loadable(l)
      /\ Environment(s) = "production" => ~WeakSecret(s)

(* A process serves only if what it was started with allows it, and with   *)
(* the tables there, whichever database that selects and whatever earlier  *)
(* starts have left.  Only in production may they be missing, if the       *)
(* database answered neither of the two services.                          *)
ServingIsSound ==
  phase = "serving" =>
    /\ Startable(launch)
    /\ \/ tables[Place(launch, settings)]
       \/ Environment(settings) = "production" /\ missed = 2

(* A container of docker compose that is running or failing ends up        *)
(* serving, once the database stays up, if what it was created with allows *)
(* it: failed starts leave nothing behind that stands in the way.          *)
EventuallyServes ==
  <>[](/\ database = "up"
       /\ phase # "down"
       /\ launch.launcher = "compose"
       /\ Startable(launch))
    => <>[](phase = "serving")

=============================================================================
