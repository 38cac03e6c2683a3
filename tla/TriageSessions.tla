---------------------------- MODULE TriageSessions ----------------------------
(***************************************************************************)
(* The session endpoints of app/api/v1/auth.py for one operator, with the  *)
(* session operations of DatabaseService.  Each request first looks up     *)
(* what its token names (one transaction) and then acts (another); the     *)
(* second reads, writes and refreshes a row in steps that interleave with  *)
(* the transactions of other requests.                                     *)
(*                                                                         *)
(* A name is abstracted to what its length does: "short" always passes,    *)
(* "grows" is stored within 100 characters but exceeds them when its HTML  *)
(* characters are escaped once more, "long" exceeds them when stored.      *)
(***************************************************************************)
EXTENDS ThreadCall, FiniteSets

CONSTANT Sessions   (* the UUIDs that may be drawn: a bound on creates     *)

ASSUME SessionsAssumption == Sessions # {}

Names == {"short", "grows", "long"}
NoRow == "no row"
Operations == {"create", "rename", "delete", "list"}

VARIABLES
  row,        (* the session table: the name of each session, or NoRow     *)
  drawn,      (* UUIDs given out: uuid4 does not repeat                    *)
  born,       (* sessions that have had a row, so that a token may name    *)
              (* them                                                      *)
  op,         (* per request: what it asks for                             *)
  session,    (* per request: the session its token names, or the new one  *)
  foreign,    (* per request: its path names another session               *)
  newName,    (* per request: the name it asks for                         *)
  pc,         (* per request: where the handler is                         *)
  answer      (* per request: status code of the answer, 0 before it       *)

tableVars == <<row, born>>
inputVars == <<op, session, foreign, newName>>
vars == <<callVars, tableVars, drawn, inputVars, pc, answer>>

live == {s \in Sessions : row[s] # NoRow}

TypeOK ==
  /\ CallTypeOK
  /\ row \in [Sessions -> Names \cup {NoRow}]
  /\ live \subseteq born
  /\ born \subseteq drawn
  /\ drawn \subseteq Sessions
  /\ op \in [Requests -> Operations]
  /\ session \in [Requests -> Sessions]
  /\ foreign \in [Requests -> BOOLEAN]
  /\ newName \in [Requests -> Names]
  /\ pc \in [Requests -> {"idle", "auth", "read", "write", "refresh"}]
  /\ answer \in [Requests -> {0, 200, 403, 404, 422, 500}]

(* The inputs a request has before it arrives are never read. *)
Init ==
  /\ CallInit
  /\ row = [s \in Sessions |-> NoRow]
  /\ drawn = {}
  /\ born = {}
  /\ op = [r \in Requests |-> "list"]
  /\ session = [r \in Requests |-> CHOOSE s \in Sessions : TRUE]
  /\ foreign = [r \in Requests |-> FALSE]
  /\ newName = [r \in Requests |-> "short"]
  /\ pc = [r \in Requests |-> "idle"]
  /\ answer = [r \in Requests |-> 0]

-----------------------------------------------------------------------------

Respond(r, code) ==
  /\ pc' = [pc EXCEPT ![r] = "idle"]
  /\ answer' = [answer EXCEPT ![r] = code]

GoTo(r, label) == pc' = [pc EXCEPT ![r] = label] /\ UNCHANGED answer

(* r is at a step of a function running in a thread. *)
Runs(r, label) == pc[r] = label /\ ~asleep[r]

(* A rename or delete arrives with a token for the session s, whose path   *)
(* names that session or another one.                                      *)
ReceiveWithSession(r, o, s, other, n) ==
  /\ pc[r] = "idle"
  /\ s \in born
  /\ o = "delete" => n = "short"
  /\ op' = [op EXCEPT ![r] = o]
  /\ session' = [session EXCEPT ![r] = s]
  /\ foreign' = [foreign EXCEPT ![r] = other]
  /\ newName' = [newName EXCEPT ![r] = n]
  /\ pc' = [pc EXCEPT ![r] = "auth"]
  /\ answer' = [answer EXCEPT ![r] = 0]
  /\ Submit(r)
  /\ UNCHANGED <<tableVars, drawn>>

(* Creates that have still to draw a UUID. *)
Drawing == {q \in Requests : op[q] = "create" /\ pc[q] = "auth"}

(* A request arrives with the operator's own token. *)
ReceiveFromOperator(r, o) ==
  /\ pc[r] = "idle"
  /\ o = "create" => Cardinality(Drawing) < Cardinality(Sessions \ drawn)
  /\ op' = [op EXCEPT ![r] = o]
  /\ pc' = [pc EXCEPT ![r] = "auth"]
  /\ answer' = [answer EXCEPT ![r] = 0]
  /\ Submit(r)
  /\ UNCHANGED <<tableVars, drawn, session, foreign, newName>>

(* get_current_session: the row the token names is there, and the handler  *)
(* compares it with the path before it submits its own transaction.        *)
SessionFound(r) ==
  /\ Runs(r, "auth")
  /\ op[r] \in {"rename", "delete"}
  /\ session[r] \in live
  /\ IF foreign[r]
       THEN Respond(r, 403) /\ UNCHANGED callVars
       ELSE GoTo(r, "read") /\ Submit(r)
  /\ UNCHANGED <<tableVars, drawn, inputVars>>

SessionMissing(r) ==
  /\ Runs(r, "auth")
  /\ op[r] \in {"rename", "delete"}
  /\ session[r] \notin live
  /\ Respond(r, 404)
  /\ UNCHANGED <<callVars, tableVars, drawn, inputVars>>

(* get_current_user: the operator is there.  create draws a fresh UUID.    *)
OperatorFound(r) ==
  /\ Runs(r, "auth")
  /\ \/ op[r] = "list" /\ UNCHANGED <<session, drawn>>
     \/ /\ op[r] = "create"
        /\ \E s \in Sessions \ drawn :
             session' = [session EXCEPT ![r] = s] /\ drawn' = drawn \cup {s}
  /\ GoTo(r, IF op[r] = "list" THEN "read" ELSE "write")
  /\ Submit(r)
  /\ UNCHANGED <<tableVars, op, foreign, newName>>

-----------------------------------------------------------------------------
(* The transactions.                                                       *)

(* A name as the list shows it has been escaped a second time. *)
ListableName(n) == n = "short"

(* get_user_sessions, then one SessionResponse for each row: a name that   *)
(* is too long by now fails the whole list.                                *)
List(r) ==
  /\ Runs(r, "read")
  /\ op[r] = "list"
  /\ Respond(r, IF \A s \in live : ListableName(row[s]) THEN 200 ELSE 422)
  /\ UNCHANGED <<callVars, tableVars, drawn, inputVars>>

(* rename and delete load the row.  A row that went since the token was    *)
(* looked up is a 404 to rename; delete ignores the False it is given.     *)
Load(r) ==
  /\ Runs(r, "read")
  /\ op[r] \in {"rename", "delete"}
  /\ IF session[r] \in live
       THEN GoTo(r, "write")
       ELSE Respond(r, IF op[r] = "rename" THEN 404 ELSE 200)
  /\ UNCHANGED <<callVars, tableVars, drawn, inputVars>>

(* A new session has the empty name. *)
AddRow(s) ==
  /\ row' = [row EXCEPT ![s] = "short"]
  /\ born' = born \cup {s}

SetName(s, n) ==
  /\ row' = [row EXCEPT ![s] = n]
  /\ UNCHANGED born

RemoveRow(s) ==
  /\ row' = [row EXCEPT ![s] = NoRow]
  /\ UNCHANGED born

(* The INSERT of a create commits; a row left by an earlier run of the     *)
(* same function violates the primary key (IntegrityError).                *)
CommitCreate(r) ==
  /\ Runs(r, "write")
  /\ op[r] = "create"
  /\ IF session[r] \in live
       THEN Respond(r, 500) /\ UNCHANGED tableVars
       ELSE /\ AddRow(session[r])
            /\ GoTo(r, "refresh")
  /\ UNCHANGED <<callVars, drawn, inputVars>>

(* Mistake: the rename writes the whole row, whether it is there or not. *)
CommitRenameUpserts(r) ==
  /\ Runs(r, "write")
  /\ op[r] = "rename"
  /\ SetName(session[r], newName[r])
  /\ GoTo(r, "refresh")
  /\ UNCHANGED <<callVars, drawn, inputVars>>

(* The UPDATE of a rename commits; if it matches no row the ORM raises     *)
(* (StaleDataError), and the endpoint does not catch that.                 *)
CommitRename(r) ==
  /\ Runs(r, "write")
  /\ op[r] = "rename"
  /\ IF session[r] \in live
       THEN SetName(session[r], newName[r]) /\ GoTo(r, "refresh")
       ELSE Respond(r, 500) /\ UNCHANGED tableVars
  /\ UNCHANGED <<callVars, drawn, inputVars>>

(* The DELETE commits; matching no row is only a warning. *)
CommitDelete(r) ==
  /\ Runs(r, "write")
  /\ op[r] = "delete"
  /\ RemoveRow(session[r])
  /\ Respond(r, 200)
  /\ UNCHANGED <<callVars, drawn, inputVars>>

(* The row is read again for the answer, with whatever name it has now; a  *)
(* name SessionResponse does not take is a 422 although it is stored.      *)
Refresh(r) ==
  /\ Runs(r, "refresh")
  /\ Respond(r, IF session[r] \notin live THEN 500
                ELSE IF row[session[r]] = "long" THEN 422 ELSE 200)
  /\ UNCHANGED <<callVars, tableVars, drawn, inputVars>>

(* The commit of r goes through. *)
Commits(r) ==
  /\ pc[r] = "write"
  /\ \/ op[r] = "create" /\ session[r] \notin live /\ AddRow(session[r])
     \/ op[r] = "rename" /\ session[r] \in live /\ SetName(session[r], newName[r])
     \/ op[r] = "delete" /\ RemoveRow(session[r])

(* The function runs again from its start. *)
Restart(r) ==
  pc' = [pc EXCEPT ![r] =
           IF pc[r] = "auth" THEN "auth" ELSE IF op[r] = "create" THEN "write" ELSE "read"]

(* The connection breaks; a commit may have gone through before. *)
Disconnect(r) ==
  /\ pc[r] # "idle"
  /\ UNCHANGED tableVars \/ Commits(r)
  /\ \/ FailAndSleep(r) /\ Restart(r) /\ UNCHANGED answer
     \/ FailForGood(r) /\ Respond(r, 500)
  /\ UNCHANGED <<drawn, inputVars>>

RunAgain(r) ==
  /\ pc[r] # "idle"
  /\ Wake(r)
  /\ UNCHANGED <<tableVars, drawn, inputVars, pc, answer>>

-----------------------------------------------------------------------------

Arrive(r) ==
  \/ \E o \in {"rename", "delete"}, s \in Sessions, other \in BOOLEAN, n \in Names :
       ReceiveWithSession(r, o, s, other, n)
  \/ \E o \in {"create", "list"} : ReceiveFromOperator(r, o)

Finish(r) ==
  \/ SessionFound(r)
  \/ SessionMissing(r)
  \/ OperatorFound(r)
  \/ List(r)
  \/ Load(r)
  \/ CommitCreate(r)
  \/ CommitRename(r)
  \/ CommitDelete(r)
  \/ Refresh(r)
  \/ Disconnect(r)

Next == \E r \in Requests : Arrive(r) \/ Finish(r) \/ RunAgain(r)

Spec == Init /\ [][Next]_vars

FairSpec ==
  /\ Spec
  /\ \A r \in Requests : WF_vars(Finish(r)) /\ WF_vars(RunAgain(r))

-----------------------------------------------------------------------------
(* The session store these endpoints implement.                            *)

(* Creates of s that have drawn it and are not answered yet. *)
Creating(s) ==
  \E q \in Requests :
    op[q] = "create" /\ session[q] = s /\ pc[q] \in {"write", "refresh"}

StoredSession ==
  [s \in Sessions |-> IF s \in live THEN row[s]
                      ELSE IF s \in born /\ ~Creating(s) THEN "dead" ELSE "unborn"]

Store == INSTANCE SessionStore WITH session <- StoredSession

(* Each commit creates, renames or deletes one session as the store        *)
(* allows, however transactions interleave, break and are run again: once  *)
(* its creation has been answered a deleted session never comes back, in   *)
(* particular not by a rename that loaded its row before the deletion.     *)
ImplementsStore == Store!Spec

(* Every request is answered, however often the connection breaks. *)
EveryRequestAnswered == \A r \in Requests : pc[r] # "idle" ~> pc[r] = "idle"

(* Claimed by app/services/database.py:132 ("Remove a triage session.      *)
(* Returns True on success"): a session that was removed stays removed.    *)
(* A create whose commit went through before its connection broke is run   *)
(* again, and inserts the row anew if the session was deleted meanwhile.   *)
RemovedStaysRemoved ==
  [][\A s \in Sessions : s \in born \ live => s \notin live']_vars

(* Claimed by app/api/v1/auth.py:250 ("List all triage sessions for the    *)
(* authenticated operator."): a list is not refused.  A rename that was    *)
(* answered 200 can store a name that the list's second escaping makes too *)
(* long, and then every list is answered 422.                              *)
ListsAreAnswered ==
  \A r \in Requests : pc[r] = "idle" /\ op[r] = "list" => answer[r] # 422

=============================================================================
