# SeshOps in TLA+

SeshOps is a FastAPI service for incident triage.  An operator registers, logs
in, opens triage sessions, and posts an alert; a three-node graph asks a
language model for the facts, searches runbooks, and asks the model for a
summary.  This directory specifies the parts of it whose correctness depends on
the order in which things happen: the shared LLM service with its fallback and
circuit breaker, the triage request with its deadline, the health probe,
the accounts and sessions with their worker-thread transactions and retries, the
way of a request through middlewares, limiter, threads and connections, and the
way of a process from its settings to serving.

Paths are relative to the repository.

## 1. Inventory

| Part | State it keeps | Operations | Interacts with |
|---|---|---|---|
| LLM service, `app/services/llm.py` | one object per process: `_llm`, `_current_model_index`, `_circuit_open`, `_circuit_opened_at`, `_consecutive_full_failures`; per call the locals `tried` and tenacity's attempt number | `call` (breaker check, pin, retry, switch, exhaust), `get_llm`, `bind_tools` (no caller) | called by two nodes of every triage run; read by `/health` |
| Triage endpoint and graph, `app/api/v1/operations.py`, `app/core/langgraph/` | per request: the graph state (facts, context, summary) and the deadline; the compiled graph is cached | `triage_incident`, nodes `triage`, `retrieve`, `summarize` | LLM service, RAG service, `get_current_user` |
| RAG service, `app/services/rag.py` | an in-memory vector store | `search_runbooks`, `ingest_documents` | called by `retrieve` |
| Health endpoint, `app/main.py:189-214` | none | `GET /health` | database service, then LLM service |
| Database service, `app/services/database.py` | none; the tables are in the database | `_run_sync` (thread and retry); user and session operations | all endpoints |
| Operator accounts, `app/api/v1/auth.py:119-179` | the user table | `register_operator`, `login` | database service, sanitisation, bcrypt, tokens |
| Triage sessions, `app/api/v1/auth.py:182-263` | the session table | create, rename, delete, list | database service, sanitisation, tokens |
| Tokens, `app/core/security.py` | none (signed, 30 days) | `create_access_token`, `verify_token` | every authenticated endpoint |
| Rate limiter, `app/core/limiter.py` | counters per client address and endpoint, in slowapi | decorators on four endpoints | `main.py`, `auth.py` |
| Middleware and logging context, `app/core/middleware.py`, `app/core/logging.py` | context variables of each request's tasks | bind, clear; count responses | every request |
| Metrics, `app/core/metrics.py` | Prometheus counters | count, observe | middleware |
| Engine and pool, `app/models/engine.py` | up to 30 connections, lent to 40 worker threads | checkout, give back, time out | every database function |
| Configuration, `app/core/config.py` | a settings object built at import | precedence of sources, `model_post_init` | everything |
| Application assembly and lifespan, `app/main.py` | none | imports, table creation, start-up gate, order of middlewares | all of the above |
| Launch scripts and containers, `scripts/docker-entrypoint.sh`, `scripts/set_env.sh`, `Makefile`, `docker-compose.yml`, `Dockerfile` | files with settings; an image has copies of them, a container the environment it was created with | export settings, check them, create and restart containers | configuration |

**What is hard here.**  Everything runs on one event loop, so the code between
two awaits is atomic, and everything else interleaves: calls of different
requests inside the one LLM service; registrations between their look-up and
their insert; renames and deletions of one session in different threads.  A
deadline can cancel a request at each of its awaits.  A provider call may fail
at any time, long after the breaker opened.  A database function is run again
after a connection error although it may have committed.  The breaker's clock
is looked at only when somebody calls.  Threads wait for connections while they
keep others waiting for threads.  An answer passes middlewares that were put
around each other in the opposite order of their lines, and an exception passes
them in another way than a response.  One file of settings is read by a shell, by
compose, by the entrypoint and by python-dotenv, each in its own way; a container
keeps what it was created with while the files change.  A start can fail half-way
and is made again on what it left.

**What makes each part correct.**

- LLM service: position and active model agree; a call sends a bounded number
  of requests and ends; the breaker's count stays bounded and its load drains;
  it trips on the second failed call with no answer in between, and the gate
  reopens.
- Pipeline: an answered request has no call left; each status code has its
  reason in the run; the breaker sees only what `LLMService` allows; the
  deadline alone guarantees an answer.
- Health: never green while calls are refused; always answered.
- Accounts: one account per address; a 200 only for one's own account.
- Sessions: created once, gone for good once the creation is answered; every request answered.
- Pool: never more out than there is; few threads wait, and none for ever.
- Path: quotas hold; a refused request has changed nothing; every answer is counted
  as what it is; no log line names another operator; every request is answered.
- Deployment: what operators write where it counts, in a way its reader understands,
  is in effect as it is meant; what serves has passed the gate and has its tables; a
  container that can serve ends up serving.

`PROJECT.json` lists under "hazards" every such point with its line, and the
properties that watch it.

## 2. Modules

| Module | What it is | Extends |
|---|---|---|
| `LLMService` | `LLMService.call` for any number of concurrent callers | |
| `LLMGateway` | what the service promises: a gate that admits, refuses, trips and reopens | |
| `LLMServiceHistory` | `LLMService` with a record of requests sent, models asked and overlaps | `LLMService` |
| `LLMService_proofs` | theorems about `LLMService` | `LLMService` |
| `LLMServiceObservers_proofs` | theorems about the service with its record, and with a probe beside it | `LLMServiceHistory`, `HealthProbe`, `LLMService_proofs` |
| `TriagePipeline` | the endpoint, the graph and the service they share | `LLMService` |
| `TriagePipeline_proofs` | theorems about `TriagePipeline` | `TriagePipeline` |
| `HealthProbe` | `/health` beside the service | `LLMService` |
| `ThreadCall` | `_run_sync`: a function in a thread, run again after a connection error | |
| `OperatorAccounts` | register and login | `ThreadCall` |
| `OperatorAccounts_proofs` | theorems about `OperatorAccounts` | `OperatorAccounts` |
| `SessionStore` | what the session table promises: created once, gone for good once its creation is over | |
| `TriageSessions` | the four session endpoints of one operator | `ThreadCall` |
| `TriageSessions_proofs` | theorems about `TriageSessions` | `TriageSessions` |
| `ConnectionPool` | the database functions between worker threads and connections | `ThreadCall` |
| `ConnectionPool_proofs` | theorems about `ConnectionPool` | `ConnectionPool` |
| `RequestPath` | a request through middlewares, token, limiter and its endpoint's functions, and back | `ConnectionPool` |
| `RequestPath_proofs` | theorems about `RequestPath` | `RequestPath`, `ConnectionPool_proofs` |
| `Deployment` | settings, engine, tables, gate, restarts | |
| `Deployment_proofs` | theorems about `Deployment` | `Deployment` |
| `MC...` | constants for TLC: model values, small sets, symmetry | the module of that name |

A definition named "Mistake" in its comment is a variant of the next one as a
plausible bug would write it; nothing uses it.  The mutants of `PROJECT.json`
put it in the place of the right one to see that the property notices.

### LLMService

A caller's `phase` is where its call is: `waiting` for the provider, in
`backoff` between two attempts, or how it ended.  These are the two awaits of
`call`; what happens from the end of one to the next await is one action:

- `Reject`, `Begin`, `RefusePin`: `_check_circuit`, which resets a circuit
  whose cool-down is over (`PassCircuit`), then pinning, up to the first request.
- `Succeed`; `TransientError` then `Retry` (tenacity); `SwitchModel` and
  `Exhaust` (the `except OpenAIError` of the loop); `ForeignError` (any other
  exception); `Cancel` (the deadline of the endpoint).
- `Tick`: the monotonic clock.  `elapsed` is `monotonic() - _circuit_opened_at`,
  capped at `Cooldown`, where it stops mattering.

A registered model is its position in `LLMS`; a pinned name outside the
registry is a value of `Unlisted`.  `SwitchModel` and `Exhaust` may happen at
any attempt because an `OpenAIError` that is no `APIError` is never retried.
`_check_circuit` compares with the clock; in the closed state nothing reads the
opening time, so `elapsed` is 0 then.

### TriagePipeline

Each request is a caller of the LLM service; `stage` says which node it is in.
A node's end and the start of what follows are one action; `Timeout` may fire in
every stage and cancels a call under way.  Model replies are abstracted to the
shapes the code tells apart: a JSON object, one whose fields are not text, JSON
that is no object, text that is no JSON, content that is not text.

### HealthProbe

A probe hands `SELECT 1` to a thread and resumes later, when it reads the
breaker and answers in one step.  The database goes up and down on its own.

### ThreadCall, OperatorAccounts, TriageSessions

`ThreadCall` is the retry around a worker thread: `try` and `asleep` per request.
The other two say what the functions do.  A look-up is one transaction and one
step.  A session change reads its row, commits, and refreshes it in three steps,
since other transactions commit in between.  A connection error can end any step,
before or after its commit took effect (`Disconnect`).  Texts are abstracted to
what escaping and length checks do to them.

### ConnectionPool

What a function does to the rows is in the two modules above; here it is one of
five kinds (`Functions`), and `place` says where it is: out, queued for a thread,
asking for a connection, blocked because there is none, or connected.  anyio hands
threads out in the order of the requests (`queue`); SQLAlchemy lends connections to
whoever asks first (`Connect` of any asking or blocked thread).  `create_user`,
`create_session` and `update_session_name` call `refresh` after `commit`, and the
commit has given the connection back: they ask for a second one from inside
their thread (`Commit`).  `GiveUp` is `pool_timeout`: the error is SQLAlchemy's
`TimeoutError`, which `_run_sync` does not run the function again for.  `effect`
remembers that something the request wrote has been committed, known to the
client or not.

### RequestPath

`app.add_middleware` puts what is added last outermost, so that the order is: CORS,
host check, security headers, counters, logging context, Prometheus, router.
`Receive` is the way in, which ends at once for a preflight (CORS answers it, 200 or
400) and for a host the host check refuses; `Leave` is the way out, one step since nothing in it awaits
anything another request can change: the endpoint's task ends with its context, the
request is counted, and a response gets its headers, an exception does not.
`Routes` gives for each endpoint what it does in which order and with which status
codes it may stop in between; the functions run in `ConnectionPool`, whose actions
are part of this module's.  `context` is what `_inject_context` would merge into an
event of the request now.  Triage is one step here; its inside is
`TriagePipeline`.

### Deployment

A source of settings is a partial function from keys to values as they are written:
a text, bare, in quotes, or with a comment behind it (`Written`).  `host` is what an
operator finds: the environment `APP_ENV` names, the shell's variables, the file
`.env.<APP_ENV>`, and `.env`.  `Edit` changes it at any time.  `launch` is what the
last start was made with and does not change until the next: variables given one by
one, compose's `env_file`, and the two files beside the process, which in a container
are those of its image.

- *Readers.*  python-dotenv and compose drop quotes and comments (`Parsed`); a shell
  that sources the file does so too, but takes the double quotes out of a JSON list
  (`Sourced`, `FromSetEnv`); the entrypoint exports each line as it stands, quotes and
  comments with it, where the environment has nothing or the empty string
  (`FromEntrypoint`).  `Exported` is what a launcher makes environment variables;
  `Effective` is `Settings()` with `model_post_init`; `Loadable` says when the
  entrypoint and pydantic-settings raise nothing.
- *Starts.*  `StartUvicorn`, and `StartMake`, which copies `.env.example` where there
  is no file.  `Create` makes a container: by compose (`Composed`), which sets
  `JWT_SECRET_KEY` itself, over the `env_file`, to what it substitutes or to its
  default (`Substituted`), or by `docker run` (`Ran`); its image is built now or is an
  older one (`Images`).  `StartAgain` starts the same container with the same `launch`;
  `Restart` is Docker doing so after a failure.
- *A start.*  `phase` follows the imports: settings, engine (`EngineKind`, and `Place`
  for where its database is), tables in `database.py` and again in `auth.py`
  (`CreateTables` twice), the gate of `lifespan`.  `Stop` ends a process at any point.

## 3. Runs

| Run | What it shows | Instance |
|---|---|---|
| `LLMServiceHistory` | types; model and position agree; failures bounded; load drains while open; implements `LLMGateway`; a lone call asks every model; requests per call bounded | 2 callers, 3 models, 2 attempts, cool-down 2, every pin and an unlisted one |
| `LLMServiceHistory_skipped` | *violated*: an exhausted call has asked every model | 2 callers, 2 models, 1 attempt |
| `TriagePipeline` | types; no orphaned call; status codes explained; the service keeps its specification; every request is answered | 2 requests, 2 models, 2 attempts |
| `HealthProbe` | types; never green while calls are refused; every probe is answered; the service beside it implements `LLMGateway` with its fairness; calls end | 1 probe, 2 callers, 2 models, 2 attempts, cool-down 2 |
| `HealthProbe_recovers` | *violated*: `/health` comes back by itself | 1 probe, 2 callers, 1 model |
| `OperatorAccounts` | types; one account per address; own accounts only; every request is answered | 2 requests, 1 address, 2 passwords, 3 tries |
| `OperatorAccounts_credentials` | *violated*: correct credentials log in | as above, a database that works |
| `TriageSessions` | types; implements `SessionStore`; every request is answered | 2 requests, 1 session, 2 tries |
| `TriageSessions_removed` | *violated*: a removed session stays removed | as above |
| `TriageSessions_list` | *violated*: a list is not refused | as above, a database that works |
| `RequestPath` | types; waiting threads bounded; quotas; refusals without effect; answers counted; log lines attributed; every request is answered | 3 requests (rename; register or health; health), 2 threads, 1 connection, 2 tries, limit 1 |
| `Deployment` | types; written settings in effect; what serves is sound; containers end up serving | 4 launchers, 6 machines an operator may find or make, 1 stop |

**Bounds.**  Two callers show every pairwise interference between calls; that a
call admitted before the breaker opens fails after it needs no third, since
callers come back for ever and the failures before it may be the other's.  The
theorems of section 5 cover any number.  Three models make the walk wrap from a
middle position.  A cool-down of two ticks distinguishes "just opened", "open"
and "over"; where the clock is not the question it is one.  Two runs are bounded
in length: in `TriageSessions` the set `Sessions` bounds the number of creates,
because a UUID is never drawn twice, and in `Deployment` `MaxStops` bounds how
often somebody stops or kills the process (failed starts are not bounded).  One
session is enough for every race, since requests for different sessions touch
different rows; a request whose path names another session than its token is
refused whatever that session is, so it carries a flag (`foreign`) and no name.
Two tries exercise the retry and its end; `OperatorAccounts` has the three of the
code.  One address is enough for races, which need the same address.  Two
passwords give one that escaping changes and one that it does not.  In
`RequestPath` three requests over two threads and one connection are the least at
which a request queues for a thread while another thread holds it blocked; the
three endpoints have every kind of function but DELETE, every kind of refusal, and
a limit two of the requests share.  The other endpoints are put together from the
same actions, and the theorems cover all of them.  The six machines of `Deployment`
have together what its properties tell apart: files written like `.env.example` and
files of bare values, aliases, weak, strong, empty and missing secrets, lists with and
without quotes, values with comments, managed settings in each source, each kind of
engine.  `Edit` turns any of them into any other at any time, so that a container may
have been created on one and be restarted on another; each launcher starts on each of
them.  One stop is enough since failed starts, which are not bounded, leave the same
behind.  Every run keeps the deadlock check on: clients may always send
another request, and operators may always edit their files.

**Fairness.**  `HealthProbe`: the HTTP client's timeouts end a request and
tenacity's pauses end (`CallFairness`), the clock runs, probes come and are
answered (docker-compose polls); nobody need call.  `TriagePipeline`: only the
deadline timer, so the answer does not depend on the provider.  Threads and pool:
a function ends one way or another (driver timeouts, `pool_timeout`) and pauses
end.  `RequestPath` asks no more than that each request that can make a step makes
one in the end; no request is favoured, and a thread that is passed over for
connections again and again ends by its timeout.  `Deployment`: imports end, and
Docker starts a container that failed again (`restart: on-failure`), the same one with
the environment and the files it was created with: `EventuallyServes` promises nothing
for a container that was created with what cannot start, however its files are
corrected.  Nobody need fix a file, create a container or mend the database.
Nothing is assumed about the order in which threads or coroutines are resumed, and
no strong fairness.

**Two facts the passing runs rest on** that a reader of the docs may not expect.
The breaker opens at the *second* exhausted call with no answer in between
(`llm.py:303`), not at the first; and every call that fails while it is open
stamps the opening time again (`llm.py:305`), so that it can refuse for longer
than its duration.  `LLMGateway` says exactly this, and `ImplementsFairGateway`
that the gate reopens nevertheless: calls under way are finitely many and an open
gate admits nobody.  Likewise a registration that loses the race for an address
is answered 500 and not 400 (`auth.py:128`, `Insert`).

**What the code does otherwise than a comment says**, met while modelling and built
into the modules as the code has it:

- The logging context "must precede other middleware" (`main.py:93`) but is added
  first and so runs inside counters, headers and host check; what they log has no
  context.  `request.state.user_id` (`middleware.py:77`) is set by nobody.
- Security headers are for "every SeshOps response" (`main.py:139`); refused hosts,
  CORS preflights and unhandled errors have none, and the first two are not counted
  either (`CountedAsAnswered` says which).
- "Default limits" (`limiter.py:3`) would need a middleware that is not installed,
  and the limit for triage decorates nothing.
- Managed settings that stand only in `.env` lose to the environment's own values
  when `uvicorn` is started by hand (`config.py:169-172` asks `os.environ`;
  `load_dotenv` in `main.py:34` comes too late), although the class promises that
  for "any field the operator has not explicitly set" only.
  `WrittenSettingsInEffect` therefore leaves this one case out.
- `.env.example` writes values in quotes and with comments.  make and compose take
  them as they are meant; the entrypoint makes quotes and comments part of the value,
  also in what it takes for set (`FromEntrypoint`).  `WrittenSettingsInEffect` says
  for each reader which ways of writing it understands.
- `make prod` is "Starting SeshOps in production mode", and in production the secret
  "must be set" (`main.py:60`).  But make, the image and compose set `APP_ENV`, which
  only names a file; the gate, the engine and the managed values look at `ENVIRONMENT`.
  With a file that does not set it, what was started for production serves as
  development, and an empty or default secret passes.  In the run of `Deployment` the
  second machine does so; `ServingIsSound` is about the environment in effect.
- The lists of `.env.example` are no JSON lists, so that `make dev` with a fresh copy of
  it does not load (`Template`, `Loadable`), where the README has the server boot.
- The runbook rotates the secret by editing `.env.production` and restarting
  (`docs/runbook.md:115-116`).  A restart starts the same container with the environment
  of its creation (`StartAgain`), and a plain `docker-compose up` would not take the
  file's secret either, but compose's own (`docker-compose.yml:40`, `Substituted`).
- `DatabaseService()` is to "ensure tables exist" (`database.py:38`); in production
  it gives up silently, and a database that is down at both calls leaves a process
  that serves without tables.
- A rename can be answered 404 or 422 after it was committed (`RefusedHasNoEffect`).

## 4. What the violated runs show

Each is a disagreement between a sentence of the repository and the code, quoted
in `PROJECT.json` under "findings".

1. Overlapping calls share the fallback position, so a call that raises
   "exhausted" need not have asked every model (`llm.py:211`, docstring `:257`).
2. Only a call resets the open flag that `/health` reports; an instance that is
   taken out of service for its 503 never gets one (`main.py:198`).
3. A password with a character that HTML escaping changes can register and then
   never log in (`auth.py:153`).
4. A create that is run again after its commit went through brings back a session
   deleted in between (`database.py:129`).  This is why `SessionStore` has
   `Withdraw` and `Abandon`: until its creation has been answered, and only until
   then, a deleted session may come back.
5. A renamed session can make every list a 422 (`auth.py:256`).

## 5. What is proved

About `LLMService` TLAPS checks the theorems for every number of callers, models, attempts and every
cool-down, from the assumptions the modules name (`CallersAssumption`: a finite
set of callers; `NumModelsAssumption`, `MaxAttemptsAssumption`,
`CooldownAssumption`: positive; `PinsAssumption`: names outside the registry are
no positions).

- `TypeCorrect`.  `TypeOK` is not inductive: `Retry` adds to `attempt`, which stays
  in range only because a back-off starts with an attempt left, and `SwitchModel`
  adds to `tried`.  `TypeInv` adds both facts (`CallsInRange`).
- `ModelAndPositionAgree`.  Inductive as it stands.
- `FailuresAlwaysBounded`.  The count alone is not inductive, since a failed call
  adds to it.  The invariant adds the calls under way to it: while the circuit is
  open nobody starts, so the sum never grows; when it closes the count is 0.  The
  lemmas count the set of calls under way (`ActiveLoses`, `ActiveKeeps`).
- `LoadDrains`.  `Work` counts what a call may still send.  Each action of a call
  lowers it or leaves it, and only `Begin`, which an open circuit excludes, raises it.
- `ServiceImplementsGateway`.  Each action maps to a step of `LLMGateway` or to a
  stutter, with the gate as what `_check_circuit` would answer now; the two places
  where the code's laziness shows are `Begin` after a cool-down (the gateway's
  `Admit` may forget the streak) and `Tick`, which reopens the gate.
- `CallsRunDown`.  Twice `Work`, and one more while a reply is outstanding, bounds
  the awaits a call has left: each step of the call lowers it (`RetryCosts`,
  `SwitchCosts`), no step of another call touches it, although that may move the
  active model.

About the two modules that watch the service, `LLMServiceHistory` and `HealthProbe`:

- `RecordOnlyWatches` and `ProbeOnlyWatches`.  Both have only behaviours of
  `LLMService`, so that what is proved of the service holds beside them
  (`RecordedService` lists it).
- `BudgetKept`.  `RequestBudget` bounds the requests sent but says nothing of those to
  come; the invariant (`BudgetInv`) bounds the sum of both, which a retry, a switch
  and an answer keep or lower, also when another call has moved the model.
- `SoloCallAsksAll`.  The invariant (`SoloInv`) says which models a call alone has
  asked: those of the window of `tried` positions that ends at the active one
  (`Walked`), which grows by one with each switch (`WalkGoesOn`) and is the whole
  registry after the last (`WalkEnds`).  A call is alone when it begins alone or not
  at all, and others may still end meanwhile without moving the model
  (`AloneModelKept`).
- `HealthTypeCorrect` and `NeverFalseGreen`.  A probe reads breaker and model in the
  step that answers, so that its report is true at that moment; that the database
  was asked before does not matter to the breaker's part of it.

About `TriagePipeline`, whose service is `LLMService` itself, for any number of
requests (`NoPinAssumption`: the graph calls without a model name):

- `ServiceKept`.  Every pipeline step is a step of `LLMService` or leaves the service
  alone (`ServiceStepOfRequest`, one case per action), so that every invariant of
  the service holds in the pipeline (`ServiceTyped`).
- `PipelineTypeCorrect`, `NothingOrphaned`, `AnswersAlwaysExplained`.  None is
  inductive.  `PipelineInv` adds that a call is under way only in a stage with a
  model call and which facts and texts a request holds in each stage
  (`Collected`), so that a status code, when it is given, has its reason on record
  (`Explained`).
- `RequestsRunDown`.  `StepsLeft` adds up the awaits of the two calls and the search:
  each step of a request lowers it, so that a request whose awaits end is answered
  also without its deadline.

About `OperatorAccounts`, for any requests, addresses, passwords and tries:

- `NeverTwoAccounts`.  Every step leaves the table alone or adds the account of one
  request whose address was not taken (`TableStep`), also when a commit went through
  and its connection then broke.
- `OwnAccount`.  The invariant adds that ids are handed out in order and no token
  names a later one (`IdsInOrder`), so the new account is nobody else's
  (`InsertOwns`); accounts are never removed, so what others were told stays true
  (`OthersKeepTheirs`).
- `AccountsTypeCorrect`.  Not inductive: a run is added to `try` when a pause ends,
  which stays within the limit only because nobody pauses after the last run
  (`CallInv`).
- `RequestsRunDown`.  `StepsLeft` counts the ends of runs and pauses a request may
  still have: two for each run of the insert, as many again before it.

About `TriageSessions`, for any requests and tries and any set of UUIDs
(`SessionsAssumption`: not empty), where the runs have two requests and one session:

- `SessionsTypeCorrect` and `EndpointsImplementStore` from one invariant
  (`SessionsInv`).  Beside the types it says that whoever creates a session has drawn
  its UUID (`CreatedDrawn`) and is the only one to create it (`OneCreator`), and that
  a create is never at the step that reads a row (`CreatesReadNothing`): run again
  from there it would insert a session it has not drawn.  A step without a commit is
  a stutter of the store, but for a create that ends without its row (`QuietStep`); a
  commit creates, renames, deletes or withdraws the session it is about and no other
  (`CommitStep`), or removes what was gone.
- `GoneForGood`.  A session that is deleted while no create of it is under way stays
  away: what is true of the violated `RemovedStaysRemoved`.
- `RequestsRunDown`.  As for accounts, with the three steps of a function's run.

About `ConnectionPool`, for any finite set of requests, any number of threads and
connections (`RequestsAssumption`, `ThreadsAssumption`, `CapacityAssumption`):

- `PoolTypeCorrect`, `PoolWaiters`, `EnoughConnections`.  The invariant (`PoolInv`)
  adds that whoever sleeps between two tries may be run again and is in no thread
  (`SleepersMayRun`, `SleepersOut`), and that a request stands in the queue exactly
  while it is queued, and once (`QueuedOnce`): otherwise a thread could be given to
  somebody who has one.  A thread blocks only when all connections are in use by
  other threads, so that blocked and connected threads together never exceed the
  threads; the lemmas count these sets when one function moves.
- `FunctionsRunDown`.  `FunctionLeft` counts a function's way through its thread (seven
  steps at most, with a second connection for the refresh) and the runs it has left.

About `RequestPath`, for any requests, addresses, limit and endpoints offered:

- `PathUsesPool`.  Each step is a step of `ConnectionPool` or a stutter of it, so that
  `PathWaiters` follows from `PoolWaiters`.
- `PathTypeCorrect`, `PathRefusals`, `PathCounts`, `PathLines` from one invariant
  (`PathInv`), which says what a request may have written by its stage and endpoint,
  that a function is under way only in a dependency or an endpoint, and what an
  answer looks like.
- `PathQuota`: the admitted never exceed the hits of the same window.
- `PathRunsDown`.  `StepsLeft` adds to `FunctionLeft` what the stage has before it: no
  step leads back, and an endpoint runs two functions at most.

About `Deployment`, for any set of hosts an operator may find or make, with any files
and variables (`HostsAssumption`), and any bound on stops (`MaxStopsAssumption`):

- `DeploymentServing`.  The invariant (`DeploymentInv`) follows a start: the settings
  are those of `launch`, which no edit touches and every way to start sets anew
  (`StartsBegin`), and after each table creation the tables exist or it was missed in
  production.
- `DeploymentSettings`.  Of two sources one decides (`OverTakes`).  What a launcher
  exports is its reader's value (`MakeExports`, `ContainerExports`) and decides
  (`ExportedDecides`), then `.env` for what is not managed (`DotenvDecides`).
- `DeploymentTypeCorrect`.  Adds that one missed creation is all there can be between
  the two (`TypeInv`), and that whatever is started is one of the launches
  (`LaunchesTyped`).

Every invariant and every action property that a run checks, and every refinement
without fairness, is stated by one of these theorems.  Liveness under fairness and
`ENABLED` are outside the prover's reach.  What only TLC checks is therefore
`CallTerminates`, `ProbeAnswered`, `EveryRequestAnswered` (of four modules),
`EventuallyServes` and the fairness in `ImplementsFairGateway`.  The theorems named
`...RunDown` and `...RunsDown` prove of the termination of calls, functions and
requests what needs no fairness: how many steps there can be, that each of them counts
down, and that nobody else's step counts up.  That such a step is always possible
and is taken in the end is for TLC.

## 6. Not modelled, and why

- `bind_tools`, `delete_user_by_email`, `sanitize_dict`, `sanitize_list`,
  `ingest_documents`: no caller in `app/`.
- Signing and expiry of tokens, bcrypt, SQL and the ORM: library work.  What the
  code gets from them is modelled: an identity, a comparison, a commit, the unique
  constraint, the ORM's error for an update that matches no row.
- A client that disconnects: the endpoint runs on.
- Other processes: breaker and vector store are per process (ADR-003).  Requests of
  another worker process act on the tables like requests of this one.
- The retry pauses and timeouts have no length; only their order matters.  The
  deadline may expire at any await.
- Ingestion of runbooks appends to a store nothing in `app/` fills; the pipeline's
  `Retrieve` has every outcome a search can have.
- Writing and formatting of log lines, histograms, the monitoring containers:
  output that nothing in the program reads.
- What else a reader of a settings file may do with a value: `$` substitution, escapes,
  several lines, blanks in a bare value.  A host name that is wrong counts as a database
  that is down; `depends_on` delays a first start and has no other effect here.
- More than one deployment at a time; of an older image only that of the last container
  for the same target.  The Makefile's `docker-run` names services that
  `docker-compose.yml` does not have; what is modelled is the command with the right
  ones.
- Cancellation from outside (a server that shuts down in the middle of a request):
  `Stop` ends the process as a whole, and no in-memory state survives it.

## 7. Plan

Done: `LLMService` with its gateway, history and proofs; the pipeline, with proofs,
and the probe composed with it, with proofs; accounts and sessions over the thread
retry, with proofs; the pool and the request path over it, with proofs; deployment, with
proofs.

Also proved since: what the record and the probe see of the service, the session
store, and that calls and requests run down.

Next: a count-down for a start in `Deployment` and for a probe, and the step from the
counts to termination as far as it can be stated without `ENABLED`: that a request
under way always has an action whose guard holds.

A `RunbookStore` (`rag.py`: lazy creation, ingestion that fails half-way) is worth
writing when something calls it.
