------------------------ MODULE OperatorAccounts_proofs ------------------------
(***************************************************************************)
(* Theorems about OperatorAccounts for any number of concurrent requests,  *)
(* addresses, passwords and runs of a function.                            *)
(***************************************************************************)
EXTENDS OperatorAccounts, FiniteSetTheorems, TLAPS

-----------------------------------------------------------------------------
(* The unique constraint decides the race: the look-up before it does not  *)
(* matter to the table.                                                    *)

(* A step leaves the table alone or adds the account of one registration   *)
(* whose address is free.                                                  *)
LEMMA TableStep ==
  ASSUME [Next]_vars
  PROVE  \/ users' = users
         \/ \E r \in Requests : ~Taken(r) /\ users' = users \cup {NewUser(r)}
<1>1. ASSUME NEW r \in Requests, Arrive(r) PROVE users' = users
  BY <1>1 DEF Arrive, Receive, Refuse
<1>2. ASSUME NEW r \in Requests, Insert(r)
      PROVE  \/ users' = users
             \/ ~Taken(r) /\ users' = users \cup {NewUser(r)}
  BY <1>2 DEF Insert
<1>3. ASSUME NEW r \in Requests, Disconnect(r)
      PROVE  \/ users' = users
             \/ ~Taken(r) /\ users' = users \cup {NewUser(r)}
  BY <1>3 DEF Disconnect
<1>4. ASSUME NEW r \in Requests, AlreadyRegistered(r) \/ NotYetRegistered(r) \/ CheckLogin(r)
      PROVE  users' = users
  BY <1>4 DEF AlreadyRegistered, NotYetRegistered, CheckLogin
<1>5. ASSUME NEW r \in Requests, RunAgain(r) PROVE users' = users
  BY <1>5 DEF RunAgain
<1>6. CASE UNCHANGED vars
  BY <1>6 DEF vars
<1> QED
  BY <1>1, <1>2, <1>3, <1>4, <1>5, <1>6 DEF Next, Finish

(* Whatever registrations race, and however often an insert is run, no     *)
(* address ever has two accounts.                                          *)
THEOREM NeverTwoAccounts == Spec => []OneAccountPerAddress
<1>1. Init => OneAccountPerAddress
  BY DEF Init, OneAccountPerAddress
<1>2. OneAccountPerAddress /\ [Next]_vars => OneAccountPerAddress'
  <2> SUFFICES ASSUME OneAccountPerAddress, [Next]_vars PROVE OneAccountPerAddress'
    OBVIOUS
  <2>1. CASE users' = users
    BY <2>1 DEF OneAccountPerAddress
  <2>2. ASSUME NEW r \in Requests, ~Taken(r), users' = users \cup {NewUser(r)}
        PROVE  OneAccountPerAddress'
    <3>1. NewUser(r).email = RegisteredEmail(r)
      BY DEF NewUser
    <3> QED
      BY <2>2, <3>1 DEF Taken, OneAccountPerAddress
  <2> QED
    BY <2>1, <2>2, TableStep
<1> QED
  BY <1>1, <1>2, PTL DEF Spec

-----------------------------------------------------------------------------
(* A registration owns the account it is told about.                       *)

(* Account ids are handed out in order, so that an insert makes a new one; *)
(* tokens name accounts that are there.  RegistrationsOwnTheirAccount      *)
(* alone would not tell a fresh id from one that is in a token already.    *)
IdsInOrder ==
  /\ IsFiniteSet(users)
  /\ \A u \in users : u.id \in 1 .. Cardinality(users)
  /\ token \in [Requests -> 0 .. Cardinality(users)]

RequestsTyped ==
  /\ op \in [Requests -> {"register", "login"}]
  /\ input \in [Requests -> Inputs]
  /\ pc \in [Requests -> {"idle", "lookup", "insert"}]
  /\ answer \in [Requests -> {0, 200, 400, 401, 422, 500}]

OwnershipInv == IdsInOrder /\ RequestsTyped /\ RegistrationsOwnTheirAccount

LEMMA OwnershipInit == Init => OwnershipInv
<1> SUFFICES ASSUME Init PROVE OwnershipInv
  OBVIOUS
<1>1. input \in [Requests -> Inputs]
  <2>1. [address |-> CHOOSE a \in Addresses : TRUE, mixed |-> FALSE,
         secret |-> CHOOSE s \in Secrets : TRUE] \in Inputs
    BY InputsAssumption DEF Inputs
  <2> DEFINE typed == CHOOSE i \in Inputs : TRUE
  <2>2. typed \in Inputs
    BY <2>1
  <2>3. input = [r \in Requests |-> typed]
    BY DEF Init
  <2> HIDE DEF typed
  <2> QED
    BY <2>2, <2>3
<1>2. IdsInOrder
  BY FS_EmptySet DEF Init, IdsInOrder
<1>3. RequestsTyped
  BY <1>1 DEF Init, RequestsTyped
<1>4. RegistrationsOwnTheirAccount
  BY DEF Init, RegistrationsOwnTheirAccount, Answered
<1> QED
  BY <1>2, <1>3, <1>4 DEF OwnershipInv

(* A new account makes the table one larger and takes the new number. *)
LEMMA NewAccount ==
  ASSUME IdsInOrder, NEW r \in Requests, ~Taken(r), users' = users \cup {NewUser(r)}
  PROVE  /\ IsFiniteSet(users')
         /\ Cardinality(users) \in Nat
         /\ NewUser(r).id = Cardinality(users) + 1
         /\ Cardinality(users') = Cardinality(users) + 1
<1>1. IsFiniteSet(users) /\ Cardinality(users) \in Nat
  BY FS_CardinalityType DEF IdsInOrder
<1>2. NewUser(r).id = Cardinality(users) + 1
  BY DEF NewUser
<1>3. NewUser(r) \notin users
  BY <1>1, <1>2 DEF IdsInOrder
<1> QED
  BY <1>1, <1>2, <1>3, FS_AddElement

(* Everything but r is as it was. *)
OnlyMoves(r) ==
  \A q \in Requests \ {r} :
    /\ pc'[q] = pc[q] /\ op'[q] = op[q] /\ input'[q] = input[q]
    /\ answer'[q] = answer[q] /\ token'[q] = token[q]

(* Accounts are never taken away, so what others were told stays true.     *)
LEMMA OthersKeepTheirs ==
  ASSUME OwnershipInv, NEW r \in Requests, OnlyMoves(r), users \subseteq users',
         ~Answered(r, "register", 200)'
  PROVE  RegistrationsOwnTheirAccount'
<1> SUFFICES ASSUME NEW q \in Requests, Answered(q, "register", 200)'
             PROVE  /\ \E u \in users' : /\ u.id = token'[q]
                                         /\ u.email = RegisteredEmail(q)'
                                         /\ u.password = Text(input'[q].secret, 0)
                    /\ \A p \in Requests \ {q} :
                         Answered(p, "register", 200)' => token'[p] # token'[q]
  BY DEF RegistrationsOwnTheirAccount, Text
<1>1. \A p \in Requests :
        Answered(p, "register", 200)' =>
          Answered(p, "register", 200) /\ token'[p] = token[p] /\ input'[p] = input[p]
  BY DEF OnlyMoves, Answered
<1>2. q # r /\ Answered(q, "register", 200) /\ RegisteredEmail(q)' = RegisteredEmail(q)
  BY <1>1 DEF RegisteredEmail, Email
<1>3. PICK u \in users : /\ u.id = token[q]
                         /\ u.email = RegisteredEmail(q)
                         /\ u.password = Text(input[q].secret, 0)
  BY <1>2 DEF OwnershipInv, RegistrationsOwnTheirAccount
<1>4. \A p \in Requests \ {q} :
        Answered(p, "register", 200)' => token'[p] # token'[q]
  BY <1>1, <1>2 DEF OwnershipInv, RegistrationsOwnTheirAccount
<1> QED
  BY <1>1, <1>2, <1>3, <1>4

(* A step that leaves the table alone answers no registration with 200. *)
LEMMA QuietStep ==
  ASSUME OwnershipInv, NEW r \in Requests, OnlyMoves(r), users' = users, RequestsTyped',
         token' \in [Requests -> 0 .. Cardinality(users)],
         ~Answered(r, "register", 200)'
  PROVE  OwnershipInv'
<1>1. IdsInOrder'
  BY DEF OwnershipInv, IdsInOrder
<1> QED
  BY <1>1, OthersKeepTheirs DEF OwnershipInv

(* An insert that commits keeps the ids in order. *)
LEMMA GrownTable ==
  ASSUME IdsInOrder, NEW r \in Requests, ~Taken(r), users' = users \cup {NewUser(r)},
         token' \in [Requests -> 0 .. Cardinality(users) + 1]
  PROVE  IdsInOrder'
<1> DEFINE size == Cardinality(users)
           newSize == Cardinality(users')
<1>1. IsFiniteSet(users') /\ size \in Nat /\ newSize = size + 1 /\ NewUser(r).id = size + 1
  BY NewAccount
<1>2. \A u \in users : u.id \in 1 .. size
  BY DEF IdsInOrder
<1>3. token' \in [Requests -> 0 .. size + 1]
  OBVIOUS
<1> HIDE DEF size, newSize
<1>4. \A u \in users' : u.id \in 1 .. newSize
  BY <1>1, <1>2
<1>5. token' \in [Requests -> 0 .. newSize]
  BY <1>1, <1>3
<1> QED
  BY <1>1, <1>4, <1>5 DEF IdsInOrder, newSize

(* The account just made is nobody else's. *)
LEMMA InsertOwns ==
  ASSUME OwnershipInv, NEW r \in Requests, Insert(r) \/ Disconnect(r), ~Taken(r),
         users' = users \cup {NewUser(r)}
  PROVE  OwnershipInv'
<1> USE DEF RequestsTyped
<1>1. IdsInOrder /\ RequestsTyped /\ RegistrationsOwnTheirAccount
  BY DEF OwnershipInv
<1>2. OnlyMoves(r) /\ op' = op /\ input' = input
  BY <1>1 DEF OnlyMoves, Insert, Disconnect, Respond, IdsInOrder
<1>3. CASE Insert(r)
  <2>1. pc' = [pc EXCEPT ![r] = "idle"] /\ answer' = [answer EXCEPT ![r] = 200]
        /\ token' = [token EXCEPT ![r] = Cardinality(users) + 1]
    BY <1>3, NewAccount, <1>1 DEF Insert, Respond
  <2>2. IdsInOrder'
    <3>1. token' \in [Requests -> 0 .. Cardinality(users) + 1]
      BY <1>1, <2>1, NewAccount DEF IdsInOrder
    <3> QED
      BY <1>1, <3>1, GrownTable
  <2>3. RequestsTyped'
    BY <1>1, <1>2, <2>1
  <2>4. RegistrationsOwnTheirAccount'
    <3> SUFFICES ASSUME NEW q \in Requests, Answered(q, "register", 200)'
                 PROVE  /\ \E u \in users' : /\ u.id = token'[q]
                                             /\ u.email = RegisteredEmail(q)'
                                             /\ u.password = Text(input'[q].secret, 0)
                        /\ \A p \in Requests \ {q} :
                             Answered(p, "register", 200)' => token'[p] # token'[q]
      BY DEF RegistrationsOwnTheirAccount, Text
    <3>1. token'[r] = Cardinality(users) + 1
      BY <1>1, <2>1 DEF IdsInOrder
    <3>2. \A p \in Requests \ {r} : token'[p] \in 0 .. Cardinality(users)
      BY <1>1, <1>2 DEF IdsInOrder, OnlyMoves
    <3>3. \A p \in Requests \ {r} : token'[p] # token'[r]
      BY <3>1, <3>2, NewAccount, <1>1
    <3>4. RegisteredEmail(q)' = RegisteredEmail(q)
      BY <1>2 DEF RegisteredEmail, Email
    <3>5. CASE q = r
      <4>1. /\ NewUser(r) \in users' /\ NewUser(r).id = token'[r]
            /\ NewUser(r).email = RegisteredEmail(r)
            /\ NewUser(r).password = Text(input[r].secret, 0)
        BY <3>1 DEF NewUser
      <4> QED
        BY <4>1, <3>3, <3>4, <3>5, <1>2
    <3>6. CASE q # r
      <4>1. \A p \in Requests \ {r} :
              Answered(p, "register", 200)' =>
                Answered(p, "register", 200) /\ token'[p] = token[p]
        BY <1>2 DEF OnlyMoves, Answered
      <4>2. \E u \in users : /\ u.id = token[q]
                             /\ u.email = RegisteredEmail(q)
                             /\ u.password = Text(input[q].secret, 0)
        BY <1>1, <3>6, <4>1 DEF RegistrationsOwnTheirAccount
      <4>3. \A p \in Requests \ {q, r} :
              Answered(p, "register", 200)' => token'[p] # token'[q]
        BY <1>1, <3>6, <4>1 DEF RegistrationsOwnTheirAccount
      <4> QED
        BY <1>2, <3>3, <3>4, <3>6, <4>1, <4>2, <4>3
    <3> QED
      BY <3>5, <3>6
  <2> QED
    BY <2>2, <2>3, <2>4 DEF OwnershipInv
<1>4. CASE Disconnect(r)
  <2>1. ~Answered(r, "register", 200)'
    BY <1>1, <1>4 DEF Disconnect, Respond, Answered
  <2>2. token' \in [Requests -> 0 .. Cardinality(users) + 1]
    BY <1>1, <1>4, NewAccount DEF Disconnect, Respond, IdsInOrder
  <2>3. IdsInOrder'
    BY <1>1, <2>2, GrownTable
  <2>4. RequestsTyped'
    BY <1>1, <1>2, <1>4 DEF Disconnect, Respond
  <2> QED
    BY <1>2, <2>1, <2>3, <2>4, OthersKeepTheirs DEF OwnershipInv
<1> QED
  BY <1>3, <1>4

LEMMA OwnershipNext == OwnershipInv /\ [Next]_vars => OwnershipInv'
<1> SUFFICES ASSUME OwnershipInv, [Next]_vars PROVE OwnershipInv'
  OBVIOUS
<1>0. /\ RequestsTyped /\ Cardinality(users) \in Nat
      /\ token \in [Requests -> 0 .. Cardinality(users)]
  BY FS_CardinalityType DEF OwnershipInv, IdsInOrder
<1>1. ASSUME NEW r \in Requests, NEW o \in {"register", "login"}, NEW i \in Inputs,
             Receive(r, o, i) \/ Refuse(r, o, i)
      PROVE  OwnershipInv'
  <2>1. users' = users /\ RequestsTyped' /\ OnlyMoves(r)
    BY <1>0, <1>1 DEF Receive, Refuse, Respond, RequestsTyped, OnlyMoves
  <2>2. token' \in [Requests -> 0 .. Cardinality(users)]
    BY <1>0, <1>1 DEF Receive, Refuse, Respond
  <2>3. ~Answered(r, "register", 200)'
    BY <1>0, <1>1 DEF Receive, Refuse, Respond, Answered, RequestsTyped
  <2> QED
    BY <2>1, <2>2, <2>3, QuietStep
<1>2. ASSUME NEW r \in Requests, AlreadyRegistered(r) \/ NotYetRegistered(r) \/ RunAgain(r)
      PROVE  OwnershipInv'
  <2>1. users' = users /\ RequestsTyped' /\ OnlyMoves(r)
    BY <1>0, <1>2 DEF AlreadyRegistered, NotYetRegistered, RunAgain, Respond,
       RequestsTyped, OnlyMoves, requestVars
  <2>2. token' \in [Requests -> 0 .. Cardinality(users)]
    BY <1>0, <1>2 DEF AlreadyRegistered, NotYetRegistered, RunAgain, Respond, requestVars
  <2>3. ~Answered(r, "register", 200)'
    BY <1>0, <1>2 DEF AlreadyRegistered, NotYetRegistered, RunAgain, Respond, Answered,
       RequestsTyped, requestVars
  <2> QED
    BY <2>1, <2>2, <2>3, QuietStep
<1>3. ASSUME NEW r \in Requests, CheckLogin(r)
      PROVE  OwnershipInv'
  <2>1. \/ Respond(r, 401, 0)
        \/ \E u \in users : Respond(r, 200, u.id)
    BY <1>3 DEF CheckLogin, Found
  <2>2. op[r] = "login" /\ users' = users /\ op' = op /\ input' = input
    BY <1>3 DEF CheckLogin
  <2>3. \A u \in users : u.id \in 0 .. Cardinality(users)
    BY <1>0 DEF OwnershipInv, IdsInOrder
  <2>4. RequestsTyped' /\ OnlyMoves(r)
    BY <1>0, <2>1, <2>2 DEF Respond, RequestsTyped, OnlyMoves
  <2>5. token' \in [Requests -> 0 .. Cardinality(users)]
    BY <1>0, <2>1, <2>3 DEF Respond
  <2>6. ~Answered(r, "register", 200)'
    BY <2>2 DEF Answered
  <2> QED
    BY <2>2, <2>4, <2>5, <2>6, QuietStep
<1>4. ASSUME NEW r \in Requests, Insert(r) \/ Disconnect(r),
             ~Taken(r), users' = users \cup {NewUser(r)}
      PROVE  OwnershipInv'
  BY <1>4, InsertOwns
<1>5. ASSUME NEW r \in Requests, Insert(r), Taken(r) PROVE OwnershipInv'
  <2>1. users' = users /\ Respond(r, 500, 0) /\ op' = op /\ input' = input
    BY <1>5 DEF Insert
  <2>2. RequestsTyped' /\ OnlyMoves(r) /\ ~Answered(r, "register", 200)'
    BY <1>0, <2>1 DEF Respond, RequestsTyped, OnlyMoves, Answered
  <2>3. token' \in [Requests -> 0 .. Cardinality(users)]
    BY <1>0, <2>1 DEF Respond
  <2> QED
    BY <2>1, <2>2, <2>3, QuietStep
<1>6. ASSUME NEW r \in Requests, Disconnect(r), users' = users PROVE OwnershipInv'
  <2>1. RequestsTyped' /\ OnlyMoves(r) /\ ~Answered(r, "register", 200)'
    BY <1>0, <1>6 DEF Disconnect, Respond, RequestsTyped, OnlyMoves, Answered
  <2>2. token' \in [Requests -> 0 .. Cardinality(users)]
    BY <1>0, <1>6 DEF Disconnect, Respond
  <2> QED
    BY <1>6, <2>1, <2>2, QuietStep
<1>7. CASE UNCHANGED vars
  BY <1>7 DEF vars, requestVars, OwnershipInv, IdsInOrder, RequestsTyped,
     RegistrationsOwnTheirAccount, Answered, RegisteredEmail, Email
<1> QED
  <2>1. ASSUME NEW r \in Requests, Insert(r) PROVE OwnershipInv'
    BY <1>4, <1>5, <2>1 DEF Insert
  <2>2. ASSUME NEW r \in Requests, Disconnect(r) PROVE OwnershipInv'
    BY <1>4, <1>6, <2>2 DEF Disconnect
  <2> QED
    BY <1>1, <1>2, <1>3, <1>7, <2>1, <2>2 DEF Next, Arrive, Finish

(* A registration that is told 200 owns the account it is told about, and  *)
(* owns it alone, however registrations race and inserts are repeated.     *)
THEOREM OwnAccount == Spec => []RegistrationsOwnTheirAccount
<1>1. OwnershipInv => RegistrationsOwnTheirAccount
  BY DEF OwnershipInv
<1> QED
  BY <1>1, OwnershipInit, OwnershipNext, PTL DEF Spec

-----------------------------------------------------------------------------
(* TypeOK is not inductive: a function that sleeps must have a run left.   *)
(* What it says of the accounts' numbers and the tokens is in OwnershipInv. *)
CallInv == CallTypeOK /\ \A r \in Requests : asleep[r] => try[r] < MaxTries

RowsTyped ==
  \A u \in users :
    /\ u.email \in [address : Addresses, mixed : {FALSE}]
    /\ u.password \in {Text(s, 0) : s \in Secrets}

LEMMA CallKept ==
  ASSUME CallInv, [Next]_vars
  PROVE  CallInv'
<1> /\ try \in [Requests -> 1 .. MaxTries]
    /\ asleep \in [Requests -> BOOLEAN]
    /\ \A r \in Requests : asleep[r] => try[r] < MaxTries
    /\ MaxTries \in Nat \ {0}
  BY MaxTriesAssumption DEF CallInv, CallTypeOK
<1>1. ASSUME NEW r \in Requests, Submit(r) PROVE CallInv'
  BY <1>1 DEF Submit, CallInv, CallTypeOK
<1>2. ASSUME NEW r \in Requests, FailAndSleep(r) PROVE CallInv'
  BY <1>2 DEF FailAndSleep, CallInv, CallTypeOK
<1>3. ASSUME NEW r \in Requests, Wake(r) PROVE CallInv'
  BY <1>3 DEF Wake, CallInv, CallTypeOK
<1>4. ASSUME UNCHANGED callVars PROVE CallInv'
  BY <1>4 DEF callVars, CallInv, CallTypeOK
<1>5. ASSUME NEW r \in Requests, Arrive(r) \/ NotYetRegistered(r)
      PROVE  Submit(r) \/ UNCHANGED callVars
  BY <1>5 DEF Arrive, Receive, Refuse, NotYetRegistered
<1>6. ASSUME NEW r \in Requests, AlreadyRegistered(r) \/ CheckLogin(r) \/ Insert(r)
      PROVE  UNCHANGED callVars
  BY <1>6 DEF AlreadyRegistered, CheckLogin, Insert
<1>7. ASSUME NEW r \in Requests, Disconnect(r) PROVE FailAndSleep(r) \/ UNCHANGED callVars
  BY <1>7 DEF Disconnect, FailForGood, callVars
<1>8. ASSUME NEW r \in Requests, RunAgain(r) PROVE Wake(r)
  BY <1>8 DEF RunAgain
<1>9. CASE UNCHANGED vars
  BY <1>4, <1>9 DEF vars
<1> QED
  BY <1>1, <1>2, <1>3, <1>4, <1>5, <1>6, <1>7, <1>8, <1>9 DEF Next, Finish

(* An account holds its address in lower case and its password as typed.   *)
LEMMA RowsKept ==
  ASSUME RowsTyped, RequestsTyped, [Next]_vars
  PROVE  RowsTyped'
<1>1. CASE users' = users
  BY <1>1 DEF RowsTyped, Text
<1>2. ASSUME NEW r \in Requests, users' = users \cup {NewUser(r)} PROVE RowsTyped'
  <2>1. input[r] \in Inputs
    BY DEF RequestsTyped
  <2>2. /\ NewUser(r).email \in [address : Addresses, mixed : {FALSE}]
        /\ NewUser(r).password \in {Text(s, 0) : s \in Secrets}
    BY <2>1 DEF NewUser, RegisteredEmail, Email, Inputs
  <2> QED
    BY <1>2, <2>2 DEF RowsTyped, Text
<1> QED
  BY <1>1, <1>2, TableStep

(* Every variable keeps its type: a function is never run more often than  *)
(* the retry allows, accounts are numbered without gaps beyond the table,  *)
(* and a token names an account that is there.                             *)
THEOREM AccountsTypeCorrect == Spec => []TypeOK
<1>1. Init => CallInv /\ RowsTyped
  BY MaxTriesAssumption DEF Init, CallInit, CallInv, CallTypeOK, RowsTyped
<1>2. OwnershipInv /\ CallInv /\ RowsTyped => TypeOK
  <2> SUFFICES ASSUME OwnershipInv, CallInv, RowsTyped PROVE TypeOK
    OBVIOUS
  <2>1. \A r \in Requests : token[r] \in 0 .. Cardinality(users)
    BY DEF OwnershipInv, IdsInOrder
  <2> QED
    BY <2>1, Zenon DEF OwnershipInv, IdsInOrder, RequestsTyped, CallInv, RowsTyped, TypeOK
<1>3. OwnershipInv /\ CallInv /\ RowsTyped /\ [Next]_vars => (CallInv /\ RowsTyped)'
  BY CallKept, RowsKept DEF OwnershipInv
<1> QED
  BY <1>1, <1>2, <1>3, OwnershipInit, OwnershipNext, PTL DEF Spec

-----------------------------------------------------------------------------
(* How long a request can take.                                            *)

(* The ends of runs and of pauses a request has still before it: two for   *)
(* each run of its insert, and as many again while it looks the address up. *)
RunsLeft(r) == 2 * (MaxTries - try[r]) + (IF asleep[r] THEN 0 ELSE 1)

StepsLeft ==
  [r \in Requests |-> IF pc[r] = "idle" THEN 0
                      ELSE RunsLeft(r) + (IF pc[r] = "lookup" THEN 2 * MaxTries ELSE 0)]

LEMMA StepsLeftBounds ==
  ASSUME CallInv, RequestsTyped, NEW r \in Requests
  PROVE  /\ StepsLeft[r] \in 0 .. 4 * MaxTries - 1
         /\ StepsLeft[r] = 0 <=> pc[r] = "idle"
<1>1. /\ MaxTries \in Nat \ {0} /\ try[r] \in 1 .. MaxTries /\ asleep[r] \in BOOLEAN
      /\ asleep[r] => try[r] < MaxTries
  BY MaxTriesAssumption DEF CallInv, CallTypeOK
<1> QED
  BY <1>1 DEF StepsLeft, RunsLeft

LEMMA OwnStepRunsDown ==
  ASSUME CallInv, RequestsTyped, NEW r \in Requests, Finish(r) \/ RunAgain(r)
  PROVE  StepsLeft'[r] < StepsLeft[r]
<1>1. /\ MaxTries \in Nat \ {0} /\ try[r] \in 1 .. MaxTries /\ asleep[r] \in BOOLEAN
      /\ asleep[r] => try[r] < MaxTries
      /\ try \in [Requests -> 1 .. MaxTries] /\ asleep \in [Requests -> BOOLEAN]
  BY MaxTriesAssumption DEF CallInv, CallTypeOK
<1>2. pc[r] # "idle"
  BY DEF Finish, AlreadyRegistered, NotYetRegistered, CheckLogin, Insert, Disconnect, RunAgain
<1>3. CASE pc'[r] = "idle"
  BY <1>2, <1>3, StepsLeftBounds DEF StepsLeft
<1>4. CASE NotYetRegistered(r)
  BY <1>1, <1>4 DEF NotYetRegistered, Submit, StepsLeft, RunsLeft, RequestsTyped
<1>5. CASE FailAndSleep(r) /\ UNCHANGED pc
  BY <1>1, <1>2, <1>5 DEF FailAndSleep, StepsLeft, RunsLeft
<1>6. CASE RunAgain(r)
  BY <1>1, <1>2, <1>6 DEF RunAgain, Wake, requestVars, StepsLeft, RunsLeft
<1> QED
  BY <1>3, <1>4, <1>5, <1>6
  DEF Finish, AlreadyRegistered, CheckLogin, Insert, Disconnect, Respond, RequestsTyped

LEMMA OthersRunOn ==
  ASSUME RequestsTyped, CallInv, NEW r \in Requests, NEW q \in Requests \ {r},
         Arrive(r) \/ Finish(r) \/ RunAgain(r)
  PROVE  StepsLeft'[q] = StepsLeft[q]
<1>1. pc'[q] = pc[q] /\ try'[q] = try[q] /\ asleep'[q] = asleep[q]
  BY DEF Arrive, Receive, Refuse, Finish, AlreadyRegistered, NotYetRegistered, CheckLogin,
     Insert, Disconnect, RunAgain, Respond, Submit, FailAndSleep, FailForGood, Wake,
     callVars, requestVars, RequestsTyped, CallInv, CallTypeOK
<1> QED
  BY <1>1 DEF StepsLeft, RunsLeft

(* A request is answered within 4 * MaxTries - 1 ends of runs and pauses:  *)
(* each uses one up, and nothing another request does gives it any.  With  *)
(* the fairness that ends every run and every pause this is why            *)
(* EveryRequestAnswered holds.                                             *)
THEOREM RequestsRunDown ==
  Spec => /\ [](\A r \in Requests : /\ StepsLeft[r] \in 0 .. 4 * MaxTries - 1
                                    /\ StepsLeft[r] = 0 <=> pc[r] = "idle")
          /\ [][\A r \in Requests :
                  /\ Finish(r) \/ RunAgain(r) => StepsLeft'[r] < StepsLeft[r]
                  /\ pc[r] # "idle" => StepsLeft'[r] <= StepsLeft[r]]_vars
<1>1. CallInv /\ RequestsTyped
        => \A r \in Requests : /\ StepsLeft[r] \in 0 .. 4 * MaxTries - 1
                               /\ StepsLeft[r] = 0 <=> pc[r] = "idle"
  BY StepsLeftBounds
<1>2. CallInv /\ RequestsTyped /\ (CallInv /\ RequestsTyped)' /\ [Next]_vars
        => [\A r \in Requests :
              /\ Finish(r) \/ RunAgain(r) => StepsLeft'[r] < StepsLeft[r]
              /\ pc[r] # "idle" => StepsLeft'[r] <= StepsLeft[r]]_vars
  <2> SUFFICES ASSUME CallInv, RequestsTyped, CallInv', NEW r \in Requests,
                      Arrive(r) \/ Finish(r) \/ RunAgain(r), NEW q \in Requests
               PROVE  /\ Finish(q) \/ RunAgain(q) => StepsLeft'[q] < StepsLeft[q]
                      /\ pc[q] # "idle" => StepsLeft'[q] <= StepsLeft[q]
    BY DEF Next
  <2>1. Finish(q) \/ RunAgain(q) => StepsLeft'[q] < StepsLeft[q]
    BY OwnStepRunsDown
  <2>2. ASSUME pc[q] # "idle" PROVE StepsLeft'[q] <= StepsLeft[q]
    <3>1. StepsLeft[q] \in Int
      BY StepsLeftBounds
    <3>2. CASE q # r
      BY <3>1, <3>2, OthersRunOn
    <3>3. CASE q = r
      <4>1. ~Arrive(q)
        BY <2>2 DEF Arrive, Receive, Refuse
      <4>2. StepsLeft'[q] \in Int
        <5>1. try'[q] \in Int /\ MaxTries \in Int
          BY MaxTriesAssumption DEF CallInv, CallTypeOK
        <5> QED
          BY <5>1 DEF StepsLeft, RunsLeft
      <4> QED
        BY <2>1, <3>1, <3>3, <4>1, <4>2
    <3> QED
      BY <3>2, <3>3
  <2> QED
    BY <2>1, <2>2
<1>3. Init => CallInv
  BY MaxTriesAssumption DEF Init, CallInit, CallInv, CallTypeOK
<1>4. OwnershipInv => RequestsTyped
  BY DEF OwnershipInv
<1>5. CallInv /\ [Next]_vars => CallInv'
  BY CallKept
<1> QED
  BY <1>1, <1>2, <1>3, <1>4, <1>5, OwnershipInit, OwnershipNext, PTL DEF Spec

=============================================================================
