--------------------------- MODULE OperatorAccounts ---------------------------
(***************************************************************************)
(* Registration and login of app/api/v1/auth.py with the user operations   *)
(* of DatabaseService.  Requests run on one event loop, their transactions *)
(* in worker threads: between the look-up of a registration and its insert *)
(* any other request may commit.                                           *)
(*                                                                         *)
(* A text a client types is abstracted to what the code's conversions tell *)
(* apart.  sanitize_string escapes HTML characters, once more each time it *)
(* is applied, and leaves other text alone; .lower() folds case.           *)
(***************************************************************************)
EXTENDS ThreadCall, FiniteSets

CONSTANTS
  Addresses,    (* e-mail addresses, in lower case                          *)
  Secrets,      (* passwords that meet the policy                           *)
  Special       (* those of them with a character html.escape changes       *)

ASSUME SpecialAssumption == Special \subseteq Secrets
ASSUME InputsAssumption == Addresses # {} /\ Secrets # {}

VARIABLES
  users,        (* the user table                                           *)
  op,           (* per request: "register" or "login"                       *)
  input,        (* per request: what the client typed                       *)
  pc,           (* per request: where the handler is                        *)
  answer,       (* per request: status code of the answer, 0 before it      *)
  token         (* per request: account id in the token of a 200, else 0    *)

requestVars == <<op, input, pc, answer, token>>
vars == <<callVars, users, requestVars>>

(* Text as typed: mixed case or lower case; a password not escaped. *)
Inputs == [address : Addresses, mixed : BOOLEAN, secret : Secrets]

Email(address, mixed) == [address |-> address, mixed |-> mixed]

(* A password after n applications of sanitize_string. *)
Text(secret, n) == [secret |-> secret, escapes |-> IF secret \in Special THEN n ELSE 0]

TypeOK ==
  /\ CallTypeOK
  /\ \A u \in users :
       /\ u.id \in 1 .. Cardinality(users)
       /\ u.email \in [address : Addresses, mixed : {FALSE}]
       /\ u.password \in {Text(s, 0) : s \in Secrets}
  /\ op \in [Requests -> {"register", "login"}]
  /\ input \in [Requests -> Inputs]
  /\ pc \in [Requests -> {"idle", "lookup", "insert"}]
  /\ answer \in [Requests -> {0, 200, 400, 401, 422, 500}]
  /\ \A r \in Requests : token[r] \in 0 .. Cardinality(users)

(* What op and input hold before the first request arrives is never read.  *)
Init ==
  /\ CallInit
  /\ users = {}
  /\ op = [r \in Requests |-> "login"]
  /\ input = [r \in Requests |-> CHOOSE i \in Inputs : TRUE]
  /\ pc = [r \in Requests |-> "idle"]
  /\ answer = [r \in Requests |-> 0]
  /\ token = [r \in Requests |-> 0]

-----------------------------------------------------------------------------

(* Mistake: registration keeps the case the client typed. *)
RegisteredEmailAsTyped(r) == Email(input[r].address, input[r].mixed)

(* sanitize_email lowers the address; login does not. *)
RegisteredEmail(r) == Email(input[r].address, FALSE)
LoginEmail(r) == Email(input[r].address, input[r].mixed)

LookupKey(r) == IF op[r] = "register" THEN RegisteredEmail(r) ELSE LoginEmail(r)

Found(r) == {u \in users : u.email = LookupKey(r)}

Respond(r, code, id) ==
  /\ pc' = [pc EXCEPT ![r] = "idle"]
  /\ answer' = [answer EXCEPT ![r] = code]
  /\ token' = [token EXCEPT ![r] = id]

(* A request arrives and hands its look-up of the address to a thread. *)
Receive(r, o, i) ==
  /\ pc[r] = "idle"
  /\ op' = [op EXCEPT ![r] = o]
  /\ input' = [input EXCEPT ![r] = i]
  /\ pc' = [pc EXCEPT ![r] = "lookup"]
  /\ answer' = [answer EXCEPT ![r] = 0]
  /\ token' = [token EXCEPT ![r] = 0]
  /\ Submit(r)
  /\ UNCHANGED users

(* The address or the password is refused before the database is asked     *)
(* (register), or the grant type is (login).                               *)
Refuse(r, o, i) ==
  /\ pc[r] = "idle"
  /\ op' = [op EXCEPT ![r] = o]
  /\ input' = [input EXCEPT ![r] = i]
  /\ Respond(r, IF o = "register" THEN 422 ELSE 400, 0)
  /\ UNCHANGED <<callVars, users>>

(* Registration finds the address taken ... *)
AlreadyRegistered(r) ==
  /\ pc[r] = "lookup" /\ ~asleep[r]
  /\ op[r] = "register"
  /\ Found(r) # {}
  /\ Respond(r, 400, 0)
  /\ UNCHANGED <<callVars, users, op, input>>

(* ... or free: it hashes the password and sends the insert to a thread. *)
NotYetRegistered(r) ==
  /\ pc[r] = "lookup" /\ ~asleep[r]
  /\ op[r] = "register"
  /\ Found(r) = {}
  /\ pc' = [pc EXCEPT ![r] = "insert"]
  /\ Submit(r)
  /\ UNCHANGED <<users, op, input, answer, token>>

(* Login compares the sanitised password with the hash of the one typed at *)
(* registration.                                                           *)
CheckLogin(r) ==
  /\ pc[r] = "lookup" /\ ~asleep[r]
  /\ op[r] = "login"
  /\ LET matching == {u \in Found(r) : u.password = Text(input[r].secret, 1)}
     IN  IF matching = {}
           THEN Respond(r, 401, 0)
           ELSE \E u \in matching : Respond(r, 200, u.id)
  /\ UNCHANGED <<callVars, users, op, input>>

NewUser(r) ==
  [id |-> Cardinality(users) + 1,
   email |-> RegisteredEmail(r),
   password |-> Text(input[r].secret, 0)]

(* Mistake: the table does not keep addresses unique. *)
TakenNever(r) == FALSE

(* The unique constraint on user.email refuses an insert. *)
Taken(r) == \E u \in users : u.email = RegisteredEmail(r)

(* Mistake: the insert answers for the account somebody else made. *)
InsertAdopts(r) ==
  /\ pc[r] = "insert" /\ ~asleep[r]
  /\ IF Taken(r)
       THEN /\ \E u \in users : u.email = RegisteredEmail(r) /\ Respond(r, 200, u.id)
            /\ UNCHANGED users
       ELSE users' = users \cup {NewUser(r)} /\ Respond(r, 200, NewUser(r).id)
  /\ UNCHANGED <<callVars, op, input>>

(* The insert commits.  A violation of the unique constraint is an         *)
(* IntegrityError, which nothing retries and the endpoint does not catch.  *)
Insert(r) ==
  /\ pc[r] = "insert" /\ ~asleep[r]
  /\ IF Taken(r)
       THEN Respond(r, 500, 0) /\ UNCHANGED users
       ELSE users' = users \cup {NewUser(r)} /\ Respond(r, 200, NewUser(r).id)
  /\ UNCHANGED <<callVars, op, input>>

(* A connection error ends a run of the function r has in the threads.  An *)
(* insert may have committed before its connection broke.                  *)
Disconnect(r) ==
  /\ pc[r] # "idle"
  /\ users' \in {users} \cup
       IF pc[r] = "insert" /\ ~Taken(r) THEN {users \cup {NewUser(r)}} ELSE {}
  /\ \/ FailAndSleep(r) /\ UNCHANGED <<pc, answer, token>>
     \/ FailForGood(r) /\ Respond(r, 500, 0)
  /\ UNCHANGED <<op, input>>

RunAgain(r) == pc[r] # "idle" /\ Wake(r) /\ UNCHANGED <<users, requestVars>>

-----------------------------------------------------------------------------

Arrive(r) ==
  \E o \in {"register", "login"}, i \in Inputs : Receive(r, o, i) \/ Refuse(r, o, i)

(* The thread's function ends one way or the other. *)
Finish(r) ==
  \/ AlreadyRegistered(r)
  \/ NotYetRegistered(r)
  \/ CheckLogin(r)
  \/ Insert(r)
  \/ Disconnect(r)

Next == \E r \in Requests : Arrive(r) \/ Finish(r) \/ RunAgain(r)

Spec == Init /\ [][Next]_vars

(* A thread's function ends (the driver's timeouts bound it) and pauses    *)
(* between two runs are short.                                             *)
FairSpec ==
  /\ Spec
  /\ \A r \in Requests : WF_vars(Finish(r)) /\ WF_vars(RunAgain(r))

-----------------------------------------------------------------------------

Answered(r, o, code) == pc[r] = "idle" /\ op[r] = o /\ answer[r] = code

(* Two registrations that race, or one whose insert is run twice, never    *)
(* leave two accounts for an address.                                      *)
OneAccountPerAddress ==
  \A u, v \in users : u.email = v.email => u = v

(* A registration is told 200 only about an account made for it: it holds  *)
(* the address and the password that request typed, and no other           *)
(* registration is told the same.                                          *)
RegistrationsOwnTheirAccount ==
  \A r \in Requests : Answered(r, "register", 200) =>
    /\ \E u \in users : /\ u.id = token[r]
                        /\ u.email = RegisteredEmail(r)
                        /\ u.password = Text(input[r].secret, 0)
    /\ \A q \in Requests \ {r} :
         Answered(q, "register", 200) => token[q] # token[r]

(* Every request is answered, whatever the other requests commit meanwhile *)
(* and however often the connection breaks.                                *)
EveryRequestAnswered == \A r \in Requests : pc[r] # "idle" ~> pc[r] = "idle"

(* Claimed by tests/api/test_auth.py:32 ("A registered operator can log in *)
(* with correct credentials"): a login with the address and the password   *)
(* of an account is not answered 401.  Login escapes the password before   *)
(* it compares, registration does not.                                     *)
CorrectCredentialsAccepted ==
  [][\A r \in Requests :
       (/\ op[r] = "login" /\ pc[r] = "lookup"
        /\ \E u \in users : /\ u.email = LoginEmail(r)
                            /\ u.password = Text(input[r].secret, 0))
       => answer'[r] # 401]_vars

=============================================================================
