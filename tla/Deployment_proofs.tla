--------------------------- MODULE Deployment_proofs ---------------------------
(***************************************************************************)
(* Theorems about Deployment for anything operators may write, any bound   *)
(* on stops, and a database that comes and goes at any time.               *)
(***************************************************************************)
EXTENDS Deployment, TLAPS

(* What the phase of a process says about what it was started with, its    *)
(* settings and the tables.                                                *)
HasTables(failures) ==
  \/ tables[Place(launch, settings)]
  \/ Environment(settings) = "production" /\ missed = failures

DeploymentInv ==
  /\ tables \in [Places -> BOOLEAN]
  /\ phase \in Running => Loadable(launch) /\ settings = Effective(launch)
  /\ phase \notin Running \/ phase = "imported" => missed = 0
  /\ phase = "created" => HasTables(1)
  /\ phase \in {"assembled", "serving"} => HasTables(2)
  /\ phase = "serving" => ~GateRefuses

LEMMA PlaceInPlaces == Place(launch, settings) \in Places
BY DEF Place, EngineKind, Places

(* Every way to start is one, and leaves the tables what tables are.       *)
LEMMA StartsBegin ==
  ASSUME tables \in [Places -> BOOLEAN],
         \/ StartUvicorn \/ StartMake \/ StartAgain
         \/ \E l \in Composed \cup Ran : Create(l)
  PROVE  tables' \in [Places -> BOOLEAN] /\ \E l : Begin(l)
<1>1. CASE StartUvicorn \/ StartMake \/ StartAgain
  BY <1>1 DEF StartUvicorn, StartMake, StartAgain
<1>2. ASSUME NEW l, Create(l) PROVE tables' \in [Places -> BOOLEAN] /\ \E m : Begin(m)
  <2>1. PICK copied \in {FALSE, tables["file"]} : tables' = [tables EXCEPT !["layer"] = copied]
    BY <1>2 DEF Create
  <2>2. copied \in BOOLEAN
    BY <2>1 DEF Places
  <2> QED
    BY <1>2, <2>1, <2>2 DEF Create
<1> QED
  BY <1>1, <1>2

LEMMA DeploymentInitially ==
  ASSUME Init
  PROVE  DeploymentInv
BY DEF Init, DeploymentInv, Running

LEMMA DeploymentKept ==
  ASSUME DeploymentInv, [Next]_vars
  PROVE  DeploymentInv'
<1>1. ASSUME NEW h \in Hosts, Edit(h) PROVE DeploymentInv'
  BY <1>1 DEF Edit, DeploymentInv, HasTables, GateRefuses, WeakSecret
<1>2. CASE \/ StartUvicorn \/ StartMake \/ StartAgain
           \/ \E l \in Composed \cup Ran : Create(l)
  <2>1. tables' \in [Places -> BOOLEAN]
    BY <1>2, StartsBegin DEF DeploymentInv
  <2>2. PICK l : Begin(l)
    BY <1>2, StartsBegin DEF DeploymentInv
  <2>3. missed' = 0 /\ launch' = l
    BY <2>2 DEF Begin, DeploymentInv
  <2>4. \/ phase' = "imported" /\ Loadable(l) /\ settings' = Effective(l)
        \/ phase' = "exited"
    BY <2>2 DEF Begin
  <2> QED
    BY <2>1, <2>3, <2>4 DEF DeploymentInv, Running
<1>3. CASE CreateTables
  <2> DEFINE place == Place(launch, settings)
             next == IF phase = "imported" THEN "created" ELSE "assembled"
  <2>1. phase \in {"imported", "created"} /\ launch' = launch
    BY <1>3 DEF CreateTables
  <2>2. Loadable(launch) /\ settings = Effective(launch)
    BY <2>1 DEF DeploymentInv, Running
  <2>3. CASE /\ tables' = [tables EXCEPT ![place] = TRUE]
             /\ phase' = next /\ settings' = settings
    <3>1. tables' \in [Places -> BOOLEAN] /\ tables'[Place(launch', settings')]
      BY <2>1, <2>3, PlaceInPlaces DEF DeploymentInv
    <3> QED
      BY <2>1, <2>2, <2>3, <3>1 DEF DeploymentInv, HasTables, Running
  <2>4. CASE /\ Tolerates /\ missed' = missed + 1 /\ tables' = tables
             /\ phase' = next /\ settings' = settings
    <3>1. CASE phase = "imported"
      BY <2>1, <2>2, <2>4, <3>1 DEF DeploymentInv, HasTables, Running, Tolerates
    <3>2. CASE phase = "created"
      BY <2>1, <2>2, <2>4, <3>2 DEF DeploymentInv, HasTables, Running, Tolerates
    <3> QED
      BY <2>1, <3>1, <3>2
  <2>5. CASE Ends("exited")
    BY <2>1, <2>2, <2>5 DEF Ends, DeploymentInv, Running
  <2> QED
    BY <1>3, <2>3, <2>4, <2>5 DEF CreateTables
<1>4. CASE Serve
  BY <1>4 DEF Serve, GateRefuses, WeakSecret, DeploymentInv, HasTables, Running
<1>5. CASE RefuseToServe \/ Stop
  BY <1>5 DEF RefuseToServe, Stop, Ends, DeploymentInv, Running
<1>6. CASE DatabaseTurns \/ UNCHANGED vars
  BY <1>6 DEF DatabaseTurns, vars, DeploymentInv, HasTables, GateRefuses, WeakSecret
<1> QED
  BY <1>1, <1>2, <1>3, <1>4, <1>5, <1>6 DEF Next, Proceed

(* No process serves with settings that the gate should have refused, nor  *)
(* without tables, except in production if the database answered neither   *)
(* of the two services that create them.                                   *)
THEOREM DeploymentServing == Spec => []ServingIsSound
<1>1. DeploymentInv /\ [Next]_vars => DeploymentInv'
  BY DeploymentKept
<1>2. DeploymentInv => ServingIsSound
  BY DEF DeploymentInv, ServingIsSound, Startable, HasTables, GateRefuses, Running
<1> QED
  BY DeploymentInitially, <1>1, <1>2, PTL DEF Spec

-----------------------------------------------------------------------------
(* Which of several sources decides, and what it is taken for.             *)

(* What Settings() takes for a value v of the key k. *)
Taken(k, v) == IF k = "ENVIRONMENT" THEN Bare(Resolve(v)) ELSE v

LEMMA OverTakes ==
  ASSUME NEW f, NEW g, NEW k
  PROVE  /\ k \in DOMAIN f => k \in DOMAIN Over(f, g) /\ Over(f, g)[k] = f[k]
         /\ k \in DOMAIN g /\ k \notin DOMAIN f =>
              k \in DOMAIN Over(f, g) /\ Over(f, g)[k] = g[k]
         /\ k \in DOMAIN Over(f, g) => k \in DOMAIN f \/ k \in DOMAIN g
BY DEF Over

LEMMA EffectiveEntry ==
  ASSUME NEW l, NEW k \in Keys
  PROVE  Effective(l)[k] =
           CASE k = "ENVIRONMENT" -> Bare(Resolve(Read(l)["ENVIRONMENT"]))
             [] k \in Managed \ DOMAIN Exported(l) ->
                  Overrides[Resolve(Read(l)["ENVIRONMENT"])][k]
             [] OTHER -> Read(l)[k]
BY Zenon DEF Effective

LEMMA ExportedDecides ==
  ASSUME NEW l, NEW k \in Keys, k \in DOMAIN Exported(l)
  PROVE  Effective(l)[k] = Taken(k, Exported(l)[k])
<1>1. Read(l)[k] = Exported(l)[k]
  BY OverTakes DEF Read
<1> QED
  BY <1>1, EffectiveEntry DEF Taken, Managed

LEMMA DotenvDecides ==
  ASSUME NEW l, NEW k \in Keys \ Managed, k \notin DOMAIN Exported(l), k \in DOMAIN l.dotenv
  PROVE  Effective(l)[k] = Taken(k, Bare(l.dotenv[k].text))
<1>1. k \in DOMAIN Parsed(l.dotenv) /\ Parsed(l.dotenv)[k] = Bare(l.dotenv[k].text)
  BY DEF Parsed
<1>2. /\ k \in DOMAIN Over(Parsed(l.dotenv), Defaults)
      /\ Over(Parsed(l.dotenv), Defaults)[k] = Bare(l.dotenv[k].text)
  BY <1>1, OverTakes
<1>3. Read(l)[k] = Bare(l.dotenv[k].text)
  BY <1>2, OverTakes DEF Read
<1> QED
  BY <1>3, EffectiveEntry DEF Taken, Managed

(* make: the file, read by a shell, then what the shell had. *)
LEMMA MakeExports ==
  ASSUME NEW l, NEW k, l.launcher = "make"
  PROVE  /\ k \in DOMAIN l.named /\ (k \in Lists => l.named[k].as = "quoted") =>
              k \in DOMAIN Exported(l) /\ Exported(l)[k] = Bare(l.named[k].text)
         /\ k \in DOMAIN l.given /\ k \notin DOMAIN l.named =>
              k \in DOMAIN Exported(l) /\ Exported(l)[k] = l.given[k]
<1>1. Exported(l) = Over(Sourced(l.named), l.given)
  BY DEF Exported, FromSetEnv, Containers
<1>2. /\ k \in DOMAIN Sourced(l.named) <=> k \in DOMAIN l.named
      /\ k \in DOMAIN l.named /\ (k \in Lists => l.named[k].as = "quoted") =>
           Sourced(l.named)[k] = Bare(l.named[k].text)
  BY DEF Sourced
<1> QED
  BY <1>1, <1>2, OverTakes

LEMMA BareInjective ==
  ASSUME NEW s, NEW t, Bare(s) = Bare(t)
  PROVE  s = t
<1>1. Bare(s).text = s /\ Bare(t).text = t
  BY DEF Bare, Written
<1> QED
  BY <1>1

(* The file that the entrypoint finds, and whether a container has been    *)
(* created with nothing for k.                                             *)
Found(l) == IF l.named = Empty THEN l.dotenv ELSE l.named
Silent(l, k) ==
  /\ k \in DOMAIN l.given => l.given[k] = Bare("")
  /\ k \in DOMAIN l.envFile => l.envFile[k].text = ""

(* A container: what it was created with, unless it is empty, then a line  *)
(* of that file.                                                           *)
LEMMA ContainerExports ==
  ASSUME NEW l, NEW k, l.launcher \in Containers
  PROVE  /\ k \in DOMAIN l.given /\ l.given[k] # Bare("") =>
              k \in DOMAIN Exported(l) /\ Exported(l)[k] = l.given[k]
         /\ k \in DOMAIN l.envFile /\ k \notin DOMAIN l.given /\ l.envFile[k].text # "" =>
              k \in DOMAIN Exported(l) /\ Exported(l)[k] = Bare(l.envFile[k].text)
         /\ k \in DOMAIN Found(l) /\ Silent(l, k) =>
              k \in DOMAIN Exported(l) /\ Exported(l)[k] = Found(l)[k]
<1> DEFINE kept == NotEmpty(Environ(l))
           rest == Over(Found(l), Environ(l))
<1>1. Exported(l) = Over(kept, rest)
  <2>1. Exported(l) = FromEntrypoint(l)
    <3>1. l.launcher # "make"
      BY DEF Containers
    <3> QED
      BY <3>1, Zenon DEF Exported
  <2>2. FromEntrypoint(l) = Over(kept, rest)
    BY Zenon DEF FromEntrypoint, Found
  <2> QED
    BY <2>1, <2>2
<1>2. /\ k \in DOMAIN kept <=> k \in DOMAIN Environ(l) /\ Environ(l)[k] # Bare("")
      /\ k \in DOMAIN kept => kept[k] = Environ(l)[k]
  BY DEF NotEmpty
<1>3. /\ k \in DOMAIN l.given => k \in DOMAIN Environ(l) /\ Environ(l)[k] = l.given[k]
      /\ k \in DOMAIN l.envFile /\ k \notin DOMAIN l.given =>
           k \in DOMAIN Environ(l) /\ Environ(l)[k] = Bare(l.envFile[k].text)
      /\ k \in DOMAIN Environ(l) => k \in DOMAIN l.given \/ k \in DOMAIN l.envFile
  <2>1. /\ k \in DOMAIN Parsed(l.envFile) <=> k \in DOMAIN l.envFile
        /\ k \in DOMAIN l.envFile => Parsed(l.envFile)[k] = Bare(l.envFile[k].text)
    BY DEF Parsed
  <2> QED
    BY <2>1, OverTakes DEF Environ
<1>4. k \in DOMAIN Found(l) => k \in DOMAIN rest /\ rest[k] = Found(l)[k]
  BY OverTakes
<1>5. k \in DOMAIN kept \/ k \in DOMAIN rest =>
        /\ k \in DOMAIN Exported(l)
        /\ Exported(l)[k] = IF k \in DOMAIN kept THEN kept[k] ELSE rest[k]
  BY <1>1, OverTakes
<1> HIDE DEF kept, rest
<1>6. ASSUME k \in DOMAIN l.envFile, l.envFile[k].text # ""
      PROVE  Bare(l.envFile[k].text) # Bare("")
  BY <1>6, BareInjective
<1>7. k \in DOMAIN l.given /\ l.given[k] # Bare("") =>
        k \in DOMAIN Exported(l) /\ Exported(l)[k] = l.given[k]
  BY <1>2, <1>3, <1>5
<1>8. k \in DOMAIN l.envFile /\ k \notin DOMAIN l.given /\ l.envFile[k].text # "" =>
        k \in DOMAIN Exported(l) /\ Exported(l)[k] = Bare(l.envFile[k].text)
  BY <1>2, <1>3, <1>5, <1>6
<1>9. ASSUME k \in DOMAIN Found(l), Silent(l, k)
      PROVE  k \in DOMAIN Exported(l) /\ Exported(l)[k] = Found(l)[k]
  <2>1. k \notin DOMAIN kept
    BY <1>2, <1>3, <1>9 DEF Silent
  <2> QED
    BY <1>4, <1>5, <1>9, <2>1
<1> QED
  BY <1>7, <1>8, <1>9

(* What operators write in their launcher's way where it looks first is in *)
(* effect as it is meant, for any files and shells, whatever is edited     *)
(* meanwhile, and through any restarts.                                    *)
THEOREM DeploymentSettings == Spec => []WrittenSettingsInEffect
<1>1. DeploymentInv /\ [Next]_vars => DeploymentInv'
  BY DeploymentKept
<1>2. ASSUME DeploymentInv, phase \in Running, NEW k \in Keys
      PROVE  LET Is(v) == settings[k] = Taken(k, v)
                 Meant(f) == Bare(f[k].text)
                 Sets(f) == k \in DOMAIN f
                 file == IF launch.named = Empty THEN launch.dotenv ELSE launch.named
                 contained == launch.launcher \in Containers
                 silent == /\ Sets(launch.given) => launch.given[k] = Bare("")
                           /\ Sets(launch.envFile) => launch.envFile[k].text = ""
             IN  /\ Sets(launch.given) /\ launch.launcher = "uvicorn" => Is(launch.given[k])
                 /\ Sets(launch.dotenv) /\ launch.launcher = "uvicorn" /\ ~Sets(launch.given)
                      /\ k \notin Managed => Is(Meant(launch.dotenv))
                 /\ Sets(launch.named) /\ launch.launcher = "make"
                      /\ (k \in Lists => launch.named[k].as = "quoted") =>
                      Is(Meant(launch.named))
                 /\ Sets(launch.given) /\ launch.launcher = "make" /\ ~Sets(launch.named) =>
                      Is(launch.given[k])
                 /\ Sets(launch.given) /\ contained /\ launch.given[k] # Bare("") =>
                      Is(launch.given[k])
                 /\ Sets(launch.envFile) /\ contained /\ ~Sets(launch.given)
                      /\ launch.envFile[k].text # "" => Is(Meant(launch.envFile))
                 /\ Sets(file) /\ contained /\ silent /\ file[k] = Meant(file) =>
                      Is(Meant(file))
  <2>1. settings = Effective(launch)
    BY <1>2 DEF DeploymentInv
  <2>2. k \in DOMAIN Exported(launch) => settings[k] = Taken(k, Exported(launch)[k])
    BY <1>2, <2>1, ExportedDecides
  <2>3. k \notin Managed /\ k \notin DOMAIN Exported(launch) /\ k \in DOMAIN launch.dotenv =>
          settings[k] = Taken(k, Bare(launch.dotenv[k].text))
    BY <1>2, <2>1, DotenvDecides
  <2>4. CASE launch.launcher = "uvicorn"
    <3>1. Exported(launch) = launch.given
      BY <2>4 DEF Exported, Containers
    <3> QED
      BY <2>2, <2>3, <2>4, <3>1 DEF Containers
  <2>5. CASE launch.launcher = "make"
    BY <2>2, <2>5, MakeExports DEF Containers
  <2>6. CASE launch.launcher \in Containers
    <3> DEFINE Is(v) == settings[k] = Taken(k, v)
    <3>1. k \in DOMAIN launch.given /\ launch.given[k] # Bare("") => Is(launch.given[k])
      BY <2>2, <2>6, ContainerExports
    <3>2. k \in DOMAIN launch.envFile /\ k \notin DOMAIN launch.given
            /\ launch.envFile[k].text # "" => Is(Bare(launch.envFile[k].text))
      BY <2>2, <2>6, ContainerExports
    <3>3. k \in DOMAIN Found(launch) /\ Silent(launch, k) => Is(Found(launch)[k])
      BY <2>2, <2>6, ContainerExports
    <3>4. launch.launcher \notin {"uvicorn", "make"}
      BY <2>6 DEF Containers
    <3> QED
      BY <3>1, <3>2, <3>3, <3>4 DEF Found, Silent
  <2>7. CASE launch.launcher \notin {"uvicorn", "make"} \cup Containers
    BY <2>7
  <2> QED
    BY <2>4, <2>5, <2>6, <2>7
<1>3. DeploymentInv => WrittenSettingsInEffect
  BY <1>2 DEF WrittenSettingsInEffect, Taken
<1> QED
  BY DeploymentInitially, <1>1, <1>3, PTL DEF Spec

-----------------------------------------------------------------------------
(* Types.                                                                  *)

LEMMA EffectiveTyped ==
  ASSUME NEW l
  PROVE  DOMAIN Effective(l) = Keys /\ Environment(Effective(l)) \in Environments
<1>1. "ENVIRONMENT" \in Keys
  BY DEF Keys
<1>2. \A v : Resolve(v) \in Environments /\ Bare(Resolve(v)).text = Resolve(v)
  BY DEF Resolve, Environments, Bare, Written
<1>3. DOMAIN Effective(l) = Keys
  BY Zenon DEF Effective
<1>4. Effective(l)["ENVIRONMENT"] = Bare(Resolve(Read(l)["ENVIRONMENT"]))
  BY <1>1, EffectiveEntry DEF Managed
<1> QED
  BY <1>2, <1>3, <1>4 DEF Environment

LEMMA DefaultsTyped ==
  DOMAIN Defaults = Keys /\ Environment(Defaults) \in Environments
BY DEF Keys, Managed, Lists, Defaults, Over, Values, Environments, Environment, Bare, Written

(* A start has missed the tables at most as often as it has tried.         *)
TypeInv ==
  /\ DeploymentInv
  /\ DeploymentTypeOK
  /\ phase = "created" => missed <= 1

(* Whatever is started is a launch for one of the targets.                 *)
LEMMA LaunchesTyped ==
  ASSUME TypeInv,
         \/ StartUvicorn \/ StartMake \/ StartAgain
         \/ \E l \in Composed \cup Ran : Create(l)
  PROVE  /\ host'.target \in Targets
         /\ launch'.launcher \in Launchers /\ launch'.target \in Targets
<1> USE DEF TypeInv, DeploymentTypeOK
<1>1. CASE StartUvicorn
  BY <1>1 DEF StartUvicorn, Begin, ByHand, Launch, Launchers
<1>2. CASE StartMake
  <2>1. host'.target = host.target
    BY <1>2 DEF StartMake
  <2> QED
    BY <1>2, <2>1 DEF StartMake, Begin, ByHand, Launch, Launchers
<1>3. CASE StartAgain
  BY <1>3 DEF StartAgain, Begin
<1>4. ASSUME NEW l \in Composed \cup Ran, Create(l)
      PROVE  /\ host'.target \in Targets
             /\ launch'.launcher \in Launchers /\ launch'.target \in Targets
  <2>1. launch' = l /\ host' = host
    BY <1>4 DEF Create, Begin
  <2>2. l.launcher \in Containers /\ l.target = host.target
    BY <1>4 DEF Composed, Ran, Launch, Containers
  <2> QED
    BY <2>1, <2>2 DEF Launchers
<1> QED
  BY <1>1, <1>2, <1>3, <1>4

LEMMA TypeKept ==
  ASSUME TypeInv, [Next]_vars
  PROVE  TypeInv'
<1>1. DeploymentInv' /\ DeploymentInv
  BY DeploymentKept DEF TypeInv
<1>2. MaxStops \in Nat
  BY MaxStopsAssumption
<1> USE DEF TypeInv, DeploymentTypeOK, Running
<1>3. ASSUME NEW h \in Hosts, Edit(h) PROVE TypeInv'
  <2>1. h.target \in Targets
    BY HostsAssumption
  <2> QED
    BY <1>1, <1>3, <2>1 DEF Edit
<1>4. CASE \/ StartUvicorn \/ StartMake \/ StartAgain
           \/ \E l \in Composed \cup Ran : Create(l)
  <2>1. /\ host'.target \in Targets
        /\ launch'.launcher \in Launchers /\ launch'.target \in Targets
    BY <1>4, LaunchesTyped
  <2>2. tables' \in [Places -> BOOLEAN]
    BY <1>4, StartsBegin
  <2>3. PICK l : Begin(l)
    BY <1>4, StartsBegin
  <2>4. /\ DOMAIN settings' = Keys /\ Environment(settings') \in Environments
        /\ phase' \in {"imported", "exited"}
        /\ database' = database /\ missed' = missed /\ stops' = stops
    BY <2>3, EffectiveTyped DEF Begin
  <2>5. ~tables["memory"] /\ tables'["memory"] = tables["memory"]
    <3>1. ~tables["memory"]
      BY <2>3 DEF Begin
    <3>2. CASE StartUvicorn \/ StartMake \/ StartAgain
      <4>1. tables' = tables
        BY <3>2 DEF StartUvicorn, StartMake, StartAgain
      <4> QED
        BY <3>1, <4>1
    <3>3. ASSUME NEW m \in Composed \cup Ran, Create(m)
          PROVE  tables'["memory"] = tables["memory"]
      BY <3>3 DEF Create, Places
    <3> QED
      BY <1>4, <3>1, <3>2, <3>3, Zenon
  <2> QED
    BY <1>1, <2>1, <2>2, <2>4, <2>5
<1>5. CASE CreateTables
  <2>1. /\ phase \in {"imported", "created"} /\ stops' = stops /\ database' = database
        /\ host' = host /\ launch' = launch
    BY <1>5 DEF CreateTables
  <2>2. missed \in 0 .. 1 /\ (phase = "imported" => missed = 0)
    BY <1>1, <2>1 DEF DeploymentInv
  <2>3. CASE Ends("exited")
    BY <1>1, <2>1, <2>3, DefaultsTyped DEF Ends, Places
  <2>4. CASE /\ settings' = settings /\ tables' \in [Places -> BOOLEAN]
             /\ phase' = IF phase = "imported" THEN "created" ELSE "assembled"
             /\ missed' \in {missed, missed + 1}
    BY <1>1, <2>1, <2>2, <2>4
  <2> QED
    BY <1>1, <1>5, <2>3, <2>4 DEF CreateTables, DeploymentInv
<1>6. CASE Serve
  BY <1>1, <1>6 DEF Serve
<1>7. CASE RefuseToServe
  BY <1>1, <1>7, DefaultsTyped DEF RefuseToServe, Ends, Places
<1>8. CASE Stop
  BY <1>1, <1>2, <1>8, DefaultsTyped DEF Stop, Ends, Places
<1>9. CASE DatabaseTurns \/ UNCHANGED vars
  BY <1>1, <1>9 DEF DatabaseTurns, vars
<1> QED
  BY <1>3, <1>4, <1>5, <1>6, <1>7, <1>8, <1>9 DEF Next, Proceed

(* Every variable keeps its type, at most two failures to create tables    *)
(* are swallowed in one start, and no in-memory table outlives its process.*)
THEOREM DeploymentTypeCorrect == Spec => []DeploymentTypeOK
<1>1. Init => TypeInv
  <2> SUFFICES ASSUME Init PROVE TypeInv
    OBVIOUS
  <2>1. DeploymentInv
    BY DeploymentInitially
  <2>2. host.target \in Targets
    BY HostsAssumption DEF Init
  <2>3. launch.launcher = "uvicorn" /\ launch.target = host.target
    BY DEF Init, ByHand, Launch
  <2> QED
    BY <2>1, <2>2, <2>3, DefaultsTyped, MaxStopsAssumption
       DEF Init, TypeInv, DeploymentTypeOK, Places, Launchers
<1>2. TypeInv /\ [Next]_vars => TypeInv'
  BY TypeKept
<1>3. TypeInv => DeploymentTypeOK
  BY DEF TypeInv
<1> QED
  BY <1>1, <1>2, <1>3, PTL DEF Spec

=============================================================================
