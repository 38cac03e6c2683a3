----------------------------- MODULE MCDeployment -----------------------------
(* A small instance of Deployment for TLC. *)
EXTENDS Deployment, TLC

Key == [OPENAI_API_KEY |-> Bare("key")]
Secret(text) == [JWT_SECRET_KEY |-> Bare(text)]

(* For a production server: written as .env.example is, with a managed     *)
(* value and a list; and written bare, without an environment but APP_ENV, *)
(* with the secret of docker-compose.yml.                                  *)
InQuotes ==
  [JWT_SECRET_KEY |-> Written("strong", "quoted"), LOG_LEVEL |-> Written("ERROR", "commented"),
   ENVIRONMENT |-> Written("prod", "quoted"),
   ALLOWED_ORIGINS |-> Written("all", "quoted")] @@ Key
WithoutSecret == Secret("change-me-in-production") @@ Key

(* For a staging server, with a secret that its shell has another of, and  *)
(* a value that its shell sets to nothing.                                 *)
Other == [LOG_FORMAT |-> Written("json", "quoted"), LOG_LEVEL |-> Bare("ERROR")] @@ Secret("other") @@ Key

(* For a developer: a PostgreSQL server, a list as JSON has it, a truth    *)
(* value with a comment.                                                   *)
OwnServer == [POSTGRES_HOST |-> Bare("db"), LOG_FORMAT |-> Bare("json")] @@ Key
BareList == [RATE_LIMIT_DEFAULT |-> Bare("50"), DEBUG |-> Written("off", "commented")]

Shell == [ENVIRONMENT |-> Bare("test"), LOG_LEVEL |-> Bare("ERROR")]
StagingShell == [ENVIRONMENT |-> Bare("stage"), LOG_LEVEL |-> Bare("")] @@ Secret("strong") @@ Key
EmptyShell == [ENVIRONMENT |-> Bare("production")] @@ Secret("") @@ Key

DotEnv == [LOG_LEVEL |-> Bare("ERROR"), POSTGRES_HOST |-> Bare("db")] @@ Secret("weaker") @@ Key

MachinesOfOperators ==
  {Host("production", Empty, InQuotes, Empty),
   Host("production", Empty, WithoutSecret, DotEnv),
   Host("staging", StagingShell, Other, Empty),
   Host("development", Empty, OwnServer, BareList),
   Host("development", Shell, BareList, Empty),
   Host("development", EmptyShell, Empty, DotEnv)}

=============================================================================
