------------------------- MODULE TriageSessions_proofs -------------------------
(***************************************************************************)
(* Theorems about TriageSessions for any number of concurrent requests,    *)
(* sessions and runs of a function: every variable keeps its type, and the *)
(* endpoints implement SessionStore.                                       *)
(***************************************************************************)
EXTENDS TriageSessions, TLAPS

-----------------------------------------------------------------------------
(* The retry around a function: whoever sleeps has a run left.             *)
CallInv == CallTypeOK /\ \A r \in Requests : asleep[r] => try[r] < MaxTries

LEMMA CallKept ==
  ASSUME CallInv, [Next]_vars
  PROVE  CallInv'
<1> /\ try \in [Requests -> 1 .. MaxTries]
    /\ asleep \in [Requests -> BOOLEAN]
    /\ \A r \in Requests : asleep[r] => try[r] < MaxTries
    /\ MaxTries \in Nat \ {0}
  BY MaxTriesAssumption DEF CallInv, CallTypeOK
<1>1. ASSUME NEW r \in Requests, Submit(r) PROVE CallInv'
  BY <1>1 DEF Submit, CallInv, CallTypeOK
<1>2. ASSUME NEW r \in Requests, FailAndSleep(r) PROVE CallInv'
  BY <1>2 DEF FailAndSleep, CallInv, CallTypeOK
<1>3. ASSUME NEW r \in Requests, Wake(r) PROVE CallInv'
  BY <1>3 DEF Wake, CallInv, CallTypeOK
<1>4. ASSUME UNCHANGED callVars PROVE CallInv'
  BY <1>4 DEF callVars, CallInv, CallTypeOK
<1>5. ASSUME NEW r \in Requests, Arrive(r) \/ SessionFound(r) \/ OperatorFound(r)
      PROVE  Submit(r) \/ UNCHANGED callVars
  BY <1>5 DEF Arrive, ReceiveWithSession, ReceiveFromOperator, SessionFound, OperatorFound
<1>6. ASSUME NEW r \in Requests,
             \/ SessionMissing(r) \/ List(r) \/ Load(r) \/ CommitCreate(r)
             \/ CommitRename(r) \/ CommitDelete(r) \/ Refresh(r)
      PROVE  UNCHANGED callVars
  BY <1>6 DEF SessionMissing, List, Load, CommitCreate, CommitRename, CommitDelete, Refresh
<1>7. ASSUME NEW r \in Requests, Disconnect(r) PROVE FailAndSleep(r) \/ UNCHANGED callVars
  BY <1>7 DEF Disconnect, FailForGood, callVars
<1>8. ASSUME NEW r \in Requests, RunAgain(r) PROVE Wake(r)
  BY <1>8 DEF RunAgain
<1>9. CASE UNCHANGED vars
  BY <1>4, <1>9 DEF vars
<1> QED
  BY <1>1, <1>2, <1>3, <1>4, <1>5, <1>6, <1>7, <1>8, <1>9 DEF Next, Finish

-----------------------------------------------------------------------------
(* The requests and the table.                                             *)

RequestsTyped ==
  /\ op \in [Requests -> Operations]
  /\ session \in [Requests -> Sessions]
  /\ foreign \in [Requests -> BOOLEAN]
  /\ newName \in [Requests -> Names]
  /\ pc \in [Requests -> {"idle", "auth", "read", "write", "refresh"}]
  /\ answer \in [Requests -> {0, 200, 403, 404, 422, 500}]

TableTyped ==
  /\ row \in [Sessions -> Names \cup {NoRow}]
  /\ live \subseteq born
  /\ born \subseteq drawn
  /\ drawn \subseteq Sessions

(* r creates the session it has drawn. *)
Creates(r) == op[r] = "create" /\ pc[r] \in {"write", "refresh"}

(* TypeOK is not inductive: a row may appear only for a UUID that has been *)
(* drawn, ...                                                              *)
CreatedDrawn == \A r \in Requests : Creates(r) => session[r] \in drawn

(* ... and the store needs to know who creates a session: one request      *)
(* only, since a UUID is drawn once.                                       *)
OneCreator ==
  \A q, r \in Requests : Creates(q) /\ Creates(r) /\ session[q] = session[r] => q = r

(* A create reads no row: run again, it would otherwise create a session   *)
(* it has not drawn.                                                       *)
CreatesReadNothing == \A r \in Requests : op[r] = "create" => pc[r] # "read"

SessionsInv ==
  /\ CallInv
  /\ RequestsTyped
  /\ CreatesReadNothing
  /\ TableTyped
  /\ CreatedDrawn
  /\ OneCreator

LEMMA SessionsInit == Init => SessionsInv
<1> SUFFICES ASSUME Init PROVE SessionsInv
  OBVIOUS
<1>1. CallInv
  BY MaxTriesAssumption DEF Init, CallInit, CallInv, CallTypeOK
<1>2. session \in [Requests -> Sessions]
  BY SessionsAssumption DEF Init
<1>3. RequestsTyped
  BY <1>2 DEF Init, RequestsTyped, Operations, Names
<1>4. TableTyped
  BY DEF Init, TableTyped, live
<1>5. CreatesReadNothing /\ CreatedDrawn /\ OneCreator
  BY DEF Init, CreatesReadNothing, CreatedDrawn, OneCreator, Creates
<1> QED
  BY <1>1, <1>3, <1>4, <1>5 DEF SessionsInv

LEMMA RequestsKept ==
  ASSUME RequestsTyped, CreatesReadNothing, [Next]_vars
  PROVE  RequestsTyped' /\ CreatesReadNothing'
<1> USE DEF RequestsTyped, CreatesReadNothing
<1>1. ASSUME NEW r \in Requests, Arrive(r) PROVE RequestsTyped' /\ CreatesReadNothing'
  BY <1>1 DEF Arrive, ReceiveWithSession, ReceiveFromOperator, Operations
<1>2. ASSUME NEW r \in Requests, OperatorFound(r) PROVE RequestsTyped' /\ CreatesReadNothing'
  BY <1>2 DEF OperatorFound, GoTo, Runs
<1>3. ASSUME NEW r \in Requests, SessionFound(r) \/ SessionMissing(r) \/ List(r) \/ Load(r)
      PROVE  RequestsTyped' /\ CreatesReadNothing'
  BY <1>3 DEF SessionFound, SessionMissing, List, Load, GoTo, Respond, Runs, inputVars
<1>4. ASSUME NEW r \in Requests,
             CommitCreate(r) \/ CommitRename(r) \/ CommitDelete(r) \/ Refresh(r)
      PROVE  RequestsTyped' /\ CreatesReadNothing'
  BY <1>4 DEF CommitCreate, CommitRename, CommitDelete, Refresh, GoTo, Respond, Runs, inputVars
<1>5. ASSUME NEW r \in Requests, Disconnect(r) PROVE RequestsTyped' /\ CreatesReadNothing'
  BY <1>5 DEF Disconnect, Restart, Respond, inputVars
<1>6. ASSUME NEW r \in Requests, RunAgain(r) PROVE RequestsTyped' /\ CreatesReadNothing'
  BY <1>6 DEF RunAgain, inputVars
<1>7. CASE UNCHANGED vars
  BY <1>7 DEF vars, inputVars
<1> QED
  BY <1>1, <1>2, <1>3, <1>4, <1>5, <1>6, <1>7 DEF Next, Finish

-----------------------------------------------------------------------------
(* What a step of r does to the table, and to who creates what.            *)

Step(r) == Arrive(r) \/ Finish(r) \/ RunAgain(r)

(* The table changes by commits alone. *)
LEMMA TableStep ==
  ASSUME NEW r \in Requests, Step(r)
  PROVE  UNCHANGED tableVars \/ Commits(r)
<1>1. ASSUME Arrive(r) \/ OperatorFound(r) \/ RunAgain(r) PROVE UNCHANGED tableVars
  BY <1>1 DEF Arrive, ReceiveWithSession, ReceiveFromOperator, OperatorFound, RunAgain
<1>2. ASSUME SessionFound(r) \/ SessionMissing(r) \/ List(r) \/ Load(r) \/ Refresh(r)
      PROVE  UNCHANGED tableVars
  BY <1>2 DEF SessionFound, SessionMissing, List, Load, Refresh
<1>3. ASSUME CommitCreate(r) \/ CommitRename(r) \/ CommitDelete(r) \/ Disconnect(r)
      PROVE  UNCHANGED tableVars \/ Commits(r)
  BY <1>3 DEF CommitCreate, CommitRename, CommitDelete, Disconnect, Commits, Runs
<1> QED
  BY <1>1, <1>2, <1>3 DEF Step, Finish

OnlyMoves(r) ==
  \A q \in Requests \ {r} : op'[q] = op[q] /\ session'[q] = session[q] /\ pc'[q] = pc[q]

GoesOn(r) ==
  /\ Creates(r)' <=> Creates(r)
  /\ Creates(r) => session'[r] = session[r]
  /\ UNCHANGED drawn

Ends(r) == Creates(r) /\ ~Creates(r)' /\ UNCHANGED drawn

Draws(r) ==
  /\ pc[r] = "auth" /\ Creates(r)'
  /\ session'[r] \in Sessions \ drawn
  /\ drawn' = drawn \cup {session'[r]}

(* A create begins with its UUID and ends with its answer, and nothing     *)
(* else makes r the creator of a session or stops it being one.            *)
LEMMA CreatorStep ==
  ASSUME RequestsTyped, CreatesReadNothing, NEW r \in Requests, Step(r)
  PROVE  /\ OnlyMoves(r)
         /\ GoesOn(r) \/ Ends(r) \/ Draws(r)
<1> USE DEF RequestsTyped, CreatesReadNothing, OnlyMoves, GoesOn, Creates
<1>1. CASE Arrive(r)
  BY <1>1 DEF Arrive, ReceiveWithSession, ReceiveFromOperator
<1>2. CASE OperatorFound(r)
  <2>1. CASE op[r] = "list"
    BY <1>2, <2>1 DEF OperatorFound, GoTo, Runs
  <2>2. CASE op[r] = "create"
    BY <1>2, <2>2 DEF OperatorFound, GoTo, Draws, Runs
  <2> QED
    BY <1>2, <2>1, <2>2 DEF OperatorFound
<1>3. CASE SessionFound(r) \/ SessionMissing(r) \/ List(r) \/ Load(r)
  BY <1>3 DEF SessionFound, SessionMissing, List, Load, GoTo, Respond, Runs, inputVars
<1>4. CASE CommitCreate(r) \/ CommitRename(r) \/ CommitDelete(r) \/ Refresh(r)
  BY <1>4 DEF CommitCreate, CommitRename, CommitDelete, Refresh, GoTo, Respond, Runs,
     inputVars, Ends
<1>5. CASE Disconnect(r)
  BY <1>5 DEF Disconnect, Restart, Respond, inputVars, Ends
<1>6. CASE RunAgain(r)
  BY <1>6 DEF RunAgain, inputVars
<1> QED
  BY <1>1, <1>2, <1>3, <1>4, <1>5, <1>6 DEF Step, Finish

LEMMA TableKept ==
  ASSUME SessionsInv, NEW r \in Requests, Step(r)
  PROVE  TableTyped'
<1> /\ row \in [Sessions -> Names \cup {NoRow}] /\ live \subseteq born
    /\ born \subseteq drawn /\ drawn \subseteq Sessions
    /\ session[r] \in Sessions /\ newName[r] \in Names
  BY DEF SessionsInv, TableTyped, RequestsTyped
<1>1. drawn \subseteq drawn' /\ drawn' \subseteq Sessions
  BY CreatorStep DEF SessionsInv, GoesOn, Ends, Draws
<1>2. CASE UNCHANGED tableVars
  BY <1>1, <1>2 DEF tableVars, TableTyped, live
<1>3. CASE op[r] = "create" /\ pc[r] = "write" /\ AddRow(session[r])
  <2>1. session[r] \in drawn
    BY <1>3 DEF SessionsInv, CreatedDrawn, Creates
  <2> QED
    BY <1>1, <1>3, <2>1 DEF AddRow, TableTyped, live, Names
<1>4. CASE session[r] \in live /\ SetName(session[r], newName[r])
  BY <1>1, <1>4 DEF SetName, TableTyped, live
<1>5. CASE RemoveRow(session[r])
  BY <1>1, <1>5 DEF RemoveRow, TableTyped, live
<1> QED
  BY <1>2, <1>3, <1>4, <1>5, TableStep DEF Commits

LEMMA CreatorsKept ==
  ASSUME SessionsInv, NEW r \in Requests, Step(r)
  PROVE  CreatedDrawn' /\ OneCreator'
<1>1. OnlyMoves(r) /\ (GoesOn(r) \/ Ends(r) \/ Draws(r)) /\ CreatedDrawn /\ OneCreator
  BY CreatorStep DEF SessionsInv
<1>2. \A q \in Requests \ {r} : (Creates(q)' <=> Creates(q)) /\ session'[q] = session[q]
  BY <1>1 DEF OnlyMoves, Creates
<1>3. CASE GoesOn(r) \/ Ends(r)
  BY <1>1, <1>2, <1>3 DEF GoesOn, Ends, CreatedDrawn, OneCreator
<1>4. CASE Draws(r)
  <2>1. \A q \in Requests \ {r} : Creates(q)' => session'[q] \in drawn
    BY <1>1, <1>2 DEF CreatedDrawn
  <2> QED
    BY <1>1, <1>2, <1>4, <2>1 DEF Draws, CreatedDrawn, OneCreator
<1> QED
  BY <1>1, <1>3, <1>4

LEMMA SessionsNext == SessionsInv /\ [Next]_vars => SessionsInv'
<1> SUFFICES ASSUME SessionsInv, [Next]_vars PROVE SessionsInv'
  OBVIOUS
<1>1. CallInv' /\ RequestsTyped' /\ CreatesReadNothing'
  BY CallKept, RequestsKept DEF SessionsInv
<1>2. CASE UNCHANGED vars
  <2>1. TableTyped'
    BY <1>2 DEF vars, tableVars, SessionsInv, TableTyped, live
  <2>2. CreatedDrawn' /\ OneCreator'
    BY <1>2 DEF vars, inputVars, SessionsInv, CreatedDrawn, OneCreator, Creates
  <2> QED
    BY <1>1, <2>1, <2>2 DEF SessionsInv
<1>3. ASSUME NEW r \in Requests, Step(r) PROVE SessionsInv'
  BY <1>1, <1>3, TableKept, CreatorsKept DEF SessionsInv
<1> QED
  BY <1>2, <1>3 DEF Next, Step

LEMMA SessionsInvariant == Spec => []SessionsInv
  BY SessionsInit, SessionsNext, PTL DEF Spec

(* Every variable keeps its type, and rows are of sessions that were born, *)
(* which are sessions whose UUID was drawn.                                *)
THEOREM SessionsTypeCorrect == Spec => []TypeOK
<1>1. SessionsInv => TypeOK
  BY Zenon DEF SessionsInv, CallInv, RequestsTyped, TableTyped, TypeOK
<1> QED
  BY <1>1, SessionsInvariant, PTL

-----------------------------------------------------------------------------
(* The refinement of SessionStore.                                         *)

(* Sessions whose creation is under way. *)
BeingCreated == {session[q] : q \in {r \in Requests : Creates(r)}}

(* What the store shows of a session follows from its row, its birth and   *)
(* whether it is being created; first in the present state, ...            *)
LEMMA Shown ==
  /\ StoredSession = [s \in Sessions |-> StoredSession[s]]
  /\ \A s \in Sessions :
       StoredSession[s] = IF s \in live THEN row[s]
                          ELSE IF s \in born /\ s \notin BeingCreated
                                 THEN "dead" ELSE "unborn"
BY DEF StoredSession, BeingCreated, Creating, Creates

(* ... then in the next. *)
LEMMA ShownNext ==
  /\ StoredSession' = [s \in Sessions |-> StoredSession'[s]]
  /\ \A s \in Sessions :
       StoredSession'[s] = IF s \in live' THEN row'[s]
                           ELSE IF s \in born' /\ s \notin BeingCreated'
                                  THEN "dead" ELSE "unborn"
BY DEF StoredSession, BeingCreated, Creating, Creates, live

(* A step shows in the store as what becomes of the one session it is      *)
(* about, if the others look as before.                                    *)
SameBut(s) == \A x \in Sessions \ {s} : StoredSession'[x] = StoredSession[x]

LEMMA StoreBecomes ==
  ASSUME NEW s \in Sessions, NEW v, StoredSession'[s] = v, SameBut(s)
  PROVE  Store!Becomes(s, v)
BY Shown, ShownNext, Zenon DEF Store!Becomes, SameBut

LEMMA StoreStays ==
  ASSUME NEW s \in Sessions, StoredSession'[s] = StoredSession[s], SameBut(s)
  PROVE  UNCHANGED StoredSession
BY Shown, ShownNext, Zenon DEF SameBut

LEMMA SameOthers ==
  ASSUME NEW s \in Sessions,
         \A x \in Sessions \ {s} :
           /\ row'[x] = row[x]
           /\ x \in born' <=> x \in born
           /\ x \in born => (x \in BeingCreated' <=> x \in BeingCreated)
  PROVE  SameBut(s)
BY Shown, ShownNext DEF SameBut, live

(* Which sessions are being created changes with the creator's own steps.  *)
LEMMA CreatingStays ==
  ASSUME NEW r \in Requests, OnlyMoves(r), GoesOn(r)
  PROVE  BeingCreated' = BeingCreated
BY DEF OnlyMoves, GoesOn, BeingCreated, Creates

LEMMA CreatingEnds ==
  ASSUME NEW r \in Requests, OnlyMoves(r), Ends(r), OneCreator
  PROVE  /\ session[r] \in BeingCreated
         /\ BeingCreated' = BeingCreated \ {session[r]}
BY DEF OnlyMoves, Ends, OneCreator, BeingCreated, Creates

LEMMA CreatingBegins ==
  ASSUME NEW r \in Requests, OnlyMoves(r), Draws(r)
  PROVE  BeingCreated' = BeingCreated \cup {session'[r]}
BY DEF OnlyMoves, Draws, BeingCreated, Creates

(* A step without a commit: only a create that ends without its row shows. *)
LEMMA QuietStep ==
  ASSUME SessionsInv, NEW r \in Requests, Step(r), UNCHANGED tableVars
  PROVE  Store!Abandon(session[r]) \/ UNCHANGED StoredSession
<1> DEFINE mine == session[r]
<1>a. /\ OnlyMoves(r) /\ (GoesOn(r) \/ Ends(r) \/ Draws(r)) /\ OneCreator
      /\ mine \in Sessions /\ born \subseteq drawn /\ row' = row /\ born' = born
  BY CreatorStep DEF SessionsInv, RequestsTyped, TableTyped, tableVars
<1> HIDE DEF mine
<1>1. ASSUME \A x \in born : x \in BeingCreated' <=> x \in BeingCreated
      PROVE  UNCHANGED StoredSession
  <2>1. SameBut(mine)
    BY <1>1, <1>a, SameOthers
  <2>2. StoredSession'[mine] = StoredSession[mine]
    BY <1>1, <1>a, Shown, ShownNext DEF live
  <2> QED
    BY <1>a, <2>1, <2>2, StoreStays
<1>2. CASE GoesOn(r)
  BY <1>1, <1>2, <1>a, CreatingStays
<1>3. CASE Draws(r)
  <2>1. session'[r] \notin born
    BY <1>3, <1>a DEF Draws
  <2> QED
    BY <1>1, <1>3, <1>a, <2>1, CreatingBegins
<1>4. CASE Ends(r)
  <2>1. mine \in BeingCreated /\ BeingCreated' = BeingCreated \ {mine}
    BY <1>4, <1>a, CreatingEnds DEF mine
  <2>2. SameBut(mine)
    BY <1>a, <2>1, SameOthers
  <2>3. CASE mine \in live \/ mine \notin born
    <3>1. StoredSession'[mine] = StoredSession[mine]
      BY <1>a, <2>1, <2>3, Shown, ShownNext DEF live
    <3> QED
      BY <1>a, <2>2, <3>1, StoreStays
  <2>4. CASE mine \notin live /\ mine \in born
    <3>1. StoredSession[mine] = "unborn" /\ StoredSession'[mine] = "dead"
      BY <1>a, <2>1, <2>4, Shown, ShownNext DEF live
    <3> QED
      BY <1>a, <2>2, <3>1, StoreBecomes DEF Store!Abandon, mine
  <2> QED
    BY <2>3, <2>4
<1> QED
  BY <1>a, <1>2, <1>3, <1>4

(* A commit: the store creates, renames or deletes, or the session it      *)
(* deletes was gone before.                                                *)
LEMMA CommitStep ==
  ASSUME SessionsInv, NEW r \in Requests, Step(r), Commits(r)
  PROVE  [Store!Next]_StoredSession
<1> DEFINE mine == session[r]
<1>a. /\ OnlyMoves(r) /\ OneCreator /\ mine \in Sessions /\ newName[r] \in Names
      /\ row \in [Sessions -> Names \cup {NoRow}] /\ live \subseteq born
  BY CreatorStep DEF SessionsInv, RequestsTyped, TableTyped
<1>b. mine \in live => StoredSession[mine] \in Names
  <2>1. mine \in live => row[mine] \in Names /\ StoredSession[mine] = row[mine]
    BY <1>a, Shown DEF live
  <2> QED
    BY <2>1
<1>c. GoesOn(r) \/ Ends(r)
  BY CreatorStep DEF SessionsInv, Commits, Draws
<1>d. \A x \in Sessions \ {mine} : x \in BeingCreated' <=> x \in BeingCreated
  BY <1>a, <1>c, CreatingStays, CreatingEnds
<1>1. CASE op[r] = "create" /\ mine \notin live /\ AddRow(mine)
  <2>1. mine \in BeingCreated
    BY <1>1 DEF Commits, BeingCreated, Creates
  <2>2. StoredSession[mine] = "unborn" /\ StoredSession'[mine] = "short"
    BY <1>1, <1>a, <2>1, Shown, ShownNext DEF AddRow, live, Names, NoRow
  <2>3. SameBut(mine)
    BY <1>1, <1>a, <1>d, SameOthers DEF AddRow
  <2>4. Store!Create(mine, "short")
    BY <1>a, <2>2, <2>3, StoreBecomes DEF Store!Create
  <2> QED
    BY <1>a, <2>4 DEF Store!Next, Names
<1>2. CASE op[r] = "rename" /\ mine \in live /\ SetName(mine, newName[r])
  <2>1. StoredSession[mine] \in Names /\ StoredSession'[mine] = newName[r]
    BY <1>2, <1>a, <1>b, ShownNext DEF SetName, live, Names, NoRow
  <2>2. SameBut(mine)
    BY <1>2, <1>a, <1>d, SameOthers DEF SetName
  <2>3. Store!Rename(mine, newName[r])
    BY <1>a, <2>1, <2>2, StoreBecomes DEF Store!Rename, Store!Lives
  <2> QED
    BY <1>a, <2>3 DEF Store!Next
<1>3. CASE op[r] = "delete" /\ RemoveRow(mine)
  <2>1. SameBut(mine)
    BY <1>3, <1>a, <1>d, SameOthers DEF RemoveRow
  <2>2. BeingCreated' = BeingCreated
    BY <1>3, <1>a, <1>c, CreatingStays DEF Ends, Creates
  <2>3. CASE mine \notin live
    <3>1. row'[mine] = row[mine] /\ born' = born
      BY <1>3, <1>a, <2>3 DEF RemoveRow, live
    <3>2. StoredSession'[mine] = StoredSession[mine]
      BY <1>a, <2>2, <3>1, Shown, ShownNext DEF live
    <3> QED
      BY <1>a, <2>1, <3>2, StoreStays
  <2>4. CASE mine \in live
    <3>1. StoredSession[mine] \in Names /\ StoredSession'[mine] \in {"dead", "unborn"}
      BY <1>3, <1>a, <1>b, <2>4, ShownNext DEF RemoveRow, live, Names, NoRow
    <3>2. Store!Delete(mine) \/ Store!Withdraw(mine)
      BY <1>a, <2>1, <3>1, StoreBecomes DEF Store!Delete, Store!Withdraw, Store!Lives
    <3> QED
      BY <1>a, <3>2 DEF Store!Next
  <2> QED
    BY <2>3, <2>4
<1> QED
  BY <1>1, <1>2, <1>3 DEF Commits

LEMMA StoreInit == Init => Store!Init
BY DEF Init, Store!Init, StoredSession, live

LEMMA StoreStep == SessionsInv /\ [Next]_vars => [Store!Next]_StoredSession
<1> SUFFICES ASSUME SessionsInv, [Next]_vars PROVE [Store!Next]_StoredSession
  OBVIOUS
<1>1. CASE UNCHANGED vars
  <2>1. BeingCreated' = BeingCreated /\ row' = row /\ born' = born
    BY <1>1 DEF vars, tableVars, inputVars, BeingCreated, Creates
  <2>2. \A s \in Sessions : StoredSession'[s] = StoredSession[s]
    BY <2>1, Shown, ShownNext DEF live
  <2> QED
    BY <2>2, SessionsAssumption, StoreStays DEF SameBut
<1>2. ASSUME NEW r \in Requests, Step(r) PROVE [Store!Next]_StoredSession
  <2>1. session[r] \in Sessions
    BY DEF SessionsInv, RequestsTyped
  <2> QED
    BY <1>2, <2>1, TableStep, QuietStep, CommitStep DEF Store!Next
<1> QED
  BY <1>1, <1>2 DEF Next, Step

(* However transactions of requests interleave, break off and are run      *)
(* again, each commit is one the store allows: a rename never brings back  *)
(* a deleted session, and a session deleted after its creation was         *)
(* answered is gone for good.                                              *)
THEOREM EndpointsImplementStore == Spec => ImplementsStore
  BY StoreInit, StoreStep, SessionsInvariant, PTL DEF Spec, ImplementsStore, Store!Spec

-----------------------------------------------------------------------------
(* What RemovedStaysRemoved would say if a create were not run again.      *)

(* Sessions that had a row, have none and are not being created.           *)
Gone == (born \ live) \ BeingCreated

LEMMA GoneStep ==
  ASSUME SessionsInv, NEW r \in Requests, Step(r)
  PROVE  Gone \subseteq Gone'
<1>1. /\ OnlyMoves(r) /\ (GoesOn(r) \/ Ends(r) \/ Draws(r)) /\ OneCreator
      /\ born \subseteq drawn
  BY CreatorStep DEF SessionsInv, TableTyped
<1>2. BeingCreated' \cap born \subseteq BeingCreated
  BY <1>1, CreatingStays, CreatingEnds, CreatingBegins DEF Draws
<1>3. born \subseteq born' /\ live' \subseteq live \cup BeingCreated
  <2>1. CASE UNCHANGED tableVars
    BY <2>1 DEF tableVars, live
  <2>2. CASE Creates(r) /\ AddRow(session[r])
    BY <2>2 DEF AddRow, live, BeingCreated
  <2>3. CASE session[r] \in live /\ SetName(session[r], newName[r])
    BY <2>3 DEF SetName, live
  <2>4. CASE RemoveRow(session[r])
    BY <2>4 DEF RemoveRow, live
  <2> QED
    BY <2>1, <2>2, <2>3, <2>4, TableStep DEF Commits, Creates
<1> QED
  BY <1>2, <1>3 DEF Gone

(* A session that is deleted while no create of it is under way is gone    *)
(* for good: no rename in flight and no function run again brings its row  *)
(* back, and no create draws its UUID.  RemovedStaysRemoved, which the     *)
(* code does not keep, leaves the exception for the create out.            *)
THEOREM GoneForGood == Spec => [][Gone \subseteq Gone']_vars
<1>1. SessionsInv /\ [Next]_vars => [Gone \subseteq Gone']_vars
  BY GoneStep DEF Next, Step
<1> QED
  BY <1>1, SessionsInvariant, PTL DEF Spec

-----------------------------------------------------------------------------
(* How long a request can take.                                            *)

(* The steps one run of a function has still to take. *)
StepsOfRun(label) == IF label = "read" THEN 3 ELSE IF label = "write" THEN 2 ELSE 1

(* The steps and pauses the function of r has still before it: at most     *)
(* four for each run.                                                      *)
RunsLeft(r) == 4 * (MaxTries - try[r]) + (IF asleep[r] THEN 0 ELSE StepsOfRun(pc[r]))

(* Those of the request: as many again while it looks its token up.        *)
StepsLeft ==
  [r \in Requests |-> IF pc[r] = "idle" THEN 0
                      ELSE RunsLeft(r) + (IF pc[r] = "auth" THEN 4 * MaxTries ELSE 0)]

LEMMA StepsLeftBounds ==
  ASSUME CallInv, RequestsTyped, NEW r \in Requests
  PROVE  /\ StepsLeft[r] \in 0 .. 8 * MaxTries - 3
         /\ StepsLeft[r] = 0 <=> pc[r] = "idle"
<1>1. /\ MaxTries \in Nat \ {0} /\ try[r] \in 1 .. MaxTries /\ asleep[r] \in BOOLEAN
      /\ asleep[r] => try[r] < MaxTries
  BY MaxTriesAssumption DEF CallInv, CallTypeOK
<1> QED
  BY <1>1 DEF StepsLeft, RunsLeft, StepsOfRun, RequestsTyped

LEMMA OwnStepRunsDown ==
  ASSUME CallInv, RequestsTyped, NEW r \in Requests, Finish(r) \/ RunAgain(r)
  PROVE  StepsLeft'[r] < StepsLeft[r]
<1>1. /\ MaxTries \in Nat \ {0} /\ try[r] \in 1 .. MaxTries /\ asleep[r] \in BOOLEAN
      /\ asleep[r] => try[r] < MaxTries
      /\ try \in [Requests -> 1 .. MaxTries] /\ asleep \in [Requests -> BOOLEAN]
      /\ pc[r] \in {"idle", "auth", "read", "write", "refresh"}
      /\ pc \in [Requests -> {"idle", "auth", "read", "write", "refresh"}]
  BY MaxTriesAssumption DEF CallInv, CallTypeOK, RequestsTyped
<1>2. pc[r] # "idle"
  BY DEF Finish, SessionFound, SessionMissing, OperatorFound, List, Load, CommitCreate,
     CommitRename, CommitDelete, Refresh, Disconnect, RunAgain, Runs
<1>3. CASE pc'[r] = "idle"
  BY <1>2, <1>3, StepsLeftBounds DEF StepsLeft
<1>4. CASE Runs(r, "auth") /\ Submit(r) /\ pc'[r] \in {"read", "write"}
  BY <1>1, <1>4 DEF Runs, Submit, StepsLeft, RunsLeft, StepsOfRun
<1>5. CASE Runs(r, "read") /\ UNCHANGED callVars /\ pc'[r] = "write"
  BY <1>1, <1>5 DEF Runs, callVars, StepsLeft, RunsLeft, StepsOfRun
<1>6. CASE Runs(r, "write") /\ UNCHANGED callVars /\ pc'[r] = "refresh"
  BY <1>1, <1>6 DEF Runs, callVars, StepsLeft, RunsLeft, StepsOfRun
<1>7. CASE FailAndSleep(r) /\ Restart(r)
  <2>1. /\ ~asleep[r] /\ asleep'[r] /\ try'[r] = try[r]
        /\ pc'[r] = "auth" <=> pc[r] = "auth"
        /\ pc'[r] # "idle"
    BY <1>1, <1>7 DEF FailAndSleep, Restart
  <2> QED
    BY <1>1, <1>2, <2>1 DEF StepsLeft, RunsLeft, StepsOfRun
<1>8. CASE RunAgain(r)
  BY <1>1, <1>2, <1>8 DEF RunAgain, Wake, StepsLeft, RunsLeft, StepsOfRun
<1>9. CASE SessionFound(r) \/ OperatorFound(r)
  BY <1>1, <1>3, <1>4, <1>9 DEF SessionFound, OperatorFound, Runs, GoTo, Respond
<1>10. CASE SessionMissing(r) \/ List(r) \/ CommitDelete(r) \/ Refresh(r)
  BY <1>1, <1>3, <1>10 DEF SessionMissing, List, CommitDelete, Refresh, Respond
<1>11. CASE Load(r) \/ CommitCreate(r) \/ CommitRename(r)
  BY <1>1, <1>3, <1>5, <1>6, <1>11 DEF Load, CommitCreate, CommitRename, GoTo, Respond
<1>12. CASE Disconnect(r)
  BY <1>1, <1>3, <1>7, <1>12 DEF Disconnect, Respond
<1> QED
  BY <1>8, <1>9, <1>10, <1>11, <1>12 DEF Finish

LEMMA OthersRunOn ==
  ASSUME CallInv, RequestsTyped, CreatesReadNothing, NEW r \in Requests,
         NEW q \in Requests \ {r}, Step(r)
  PROVE  StepsLeft'[q] = StepsLeft[q]
<1>1. pc'[q] = pc[q]
  BY CreatorStep DEF OnlyMoves
<1>2. try'[q] = try[q] /\ asleep'[q] = asleep[q]
  BY DEF Step, Arrive, ReceiveWithSession, ReceiveFromOperator, Finish, SessionFound,
     SessionMissing, OperatorFound, List, Load, CommitCreate, CommitRename, CommitDelete,
     Refresh, Disconnect, RunAgain, Submit, FailAndSleep, FailForGood, Wake, callVars,
     CallInv, CallTypeOK
<1> QED
  BY <1>1, <1>2 DEF StepsLeft, RunsLeft, StepsOfRun

(* A request is answered within 8 * MaxTries - 3 steps and pauses: each    *)
(* uses one up, and nothing another request does gives it any.  With the   *)
(* fairness that ends every step and every pause this is why               *)
(* EveryRequestAnswered holds.                                             *)
THEOREM RequestsRunDown ==
  Spec => /\ [](\A r \in Requests : /\ StepsLeft[r] \in 0 .. 8 * MaxTries - 3
                                    /\ StepsLeft[r] = 0 <=> pc[r] = "idle")
          /\ [][\A r \in Requests :
                  /\ Finish(r) \/ RunAgain(r) => StepsLeft'[r] < StepsLeft[r]
                  /\ pc[r] # "idle" => StepsLeft'[r] <= StepsLeft[r]]_vars
<1>1. SessionsInv
        => \A r \in Requests : /\ StepsLeft[r] \in 0 .. 8 * MaxTries - 3
                               /\ StepsLeft[r] = 0 <=> pc[r] = "idle"
  BY StepsLeftBounds DEF SessionsInv
<1>2. SessionsInv /\ SessionsInv' /\ [Next]_vars
        => [\A r \in Requests :
              /\ Finish(r) \/ RunAgain(r) => StepsLeft'[r] < StepsLeft[r]
              /\ pc[r] # "idle" => StepsLeft'[r] <= StepsLeft[r]]_vars
  <2> SUFFICES ASSUME CallInv, RequestsTyped, CreatesReadNothing, CallInv',
                      NEW r \in Requests, Step(r), NEW q \in Requests
               PROVE  /\ Finish(q) \/ RunAgain(q) => StepsLeft'[q] < StepsLeft[q]
                      /\ pc[q] # "idle" => StepsLeft'[q] <= StepsLeft[q]
    BY DEF Next, Step, SessionsInv
  <2>1. Finish(q) \/ RunAgain(q) => StepsLeft'[q] < StepsLeft[q]
    BY OwnStepRunsDown
  <2>2. ASSUME pc[q] # "idle" PROVE StepsLeft'[q] <= StepsLeft[q]
    <3>1. StepsLeft[q] \in Nat
      BY StepsLeftBounds
    <3>2. CASE q # r
      BY <3>1, <3>2, OthersRunOn
    <3>3. CASE q = r
      <4>1. ~Arrive(q)
        BY <2>2 DEF Arrive, ReceiveWithSession, ReceiveFromOperator
      <4>2. StepsLeft'[q] \in Nat
        <5>1. try'[q] \in 1 .. MaxTries /\ MaxTries \in Nat
          BY MaxTriesAssumption DEF CallInv, CallTypeOK
        <5> QED
          BY <5>1 DEF StepsLeft, RunsLeft, StepsOfRun
      <4> QED
        BY <2>1, <3>1, <3>3, <4>1, <4>2 DEF Step
    <3> QED
      BY <3>2, <3>3
  <2> QED
    BY <2>1, <2>2
<1> QED
  BY <1>1, <1>2, SessionsInvariant, PTL DEF Spec

=============================================================================
