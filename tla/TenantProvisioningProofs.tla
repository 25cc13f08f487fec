---------------------- MODULE TenantProvisioningProofs ----------------------
(***************************************************************************)
(* Proofs about TenantProvisioning for every number of concurrent calls,   *)
(* of addresses and of names, and every number of failing statements.      *)
(*                                                                         *)
(* Two calls are either known to have overlapped or one had ended before   *)
(* the other began.  What a call has built is safe from the others because *)
(* a call that deletes by workspace id either overlapped it or had looked  *)
(* the id up and found it free.                                            *)
(***************************************************************************)
EXTENDS TenantProvisioning, TLAPS

(* The points of a call: before it has an identifier, while it builds, and *)
(* while it unwinds.                                                       *)
Looking == {"precheck", "explicit", "findSlug"}

AfterKey == {"phones", "template", "templateWrite", "token", "done"}
AfterTask == AfterKey \cup {"checkRole", "insertKey"}
AfterMember == AfterTask \cup {"insertTask"}
AfterRow == AfterMember \cup {"insertMember"}
AfterTables == AfterRow \cup {"insertWorkspace"}
AfterUser == AfterTables \cup {"createDb", "createTables"}

Undoing == {"undoFind", "undoMembers", "undoKeys", "undoTasks", "undoDb", "undoRow", "undoUser"}

(* The call has an identifier it found free. *)
ChosenPCs == ({"mailCheck", "insertUser"} \cup AfterUser \cup Undoing) \ {"done"}

Chosen(r) == p[r].pc \in ChosenPCs

PCs == {"idle"} \cup Looking \cup ChosenPCs \cup Ended

(* A call, and what it knows at which point. *)
Calls ==
    {c \in [pc : PCs, email : Emails \cup {None}, name : Names \cup {None},
            id : Ids \cup {None}, tries : 0..MaxAttempts, made : BOOLEAN] :
        /\ c.pc \in {"idle", "findSlug"} => c.id = None
        /\ c.pc \in {"precheck", "findSlug"} => c.name \in Names
        /\ c.pc \in ChosenPCs \cup {"explicit", "done", "failed"} => c.id \in Ids
        /\ c.pc \in {"checkRole", "insertKey"} => c.made}

(* The rows no accepted mutation is going to delete. *)
Live == rows \ doomed

Row(t, r) == <<t, p[r].id, r>>

(* The types, and who owns a row. *)
Typed ==
    /\ p \in [Requests -> Calls]
    /\ users \in [Requests -> {"none", "live", "deleted"}]
    /\ dbs \in [Ids -> {"none", "empty", "full"}]
    /\ spoilt \in [Requests -> {"no", "create", "undo"}]
    /\ \A x \in Live : \E t \in Tables, r \in Requests : x = Row(t, r) /\ p[r].id \in Ids

(* Calls under way at the same time have met. *)
MeetInv == \A r, q \in Requests : r # q /\ Running(r) /\ Running(q) => Met(r, q)

(* A call has no account before it inserts one, and who is about to insert *)
(* one has seen the address free since the last call it did not meet.      *)
TwinInv ==
    /\ \A r \in Requests :
          p[r].pc \in {"idle", "mailCheck", "insertUser"} \cup Looking => users[r] = "none"
    /\ \A r, q \in Requests :
          r # q /\ p[r].email = p[q].email /\ users[r] = "live"
          /\ (users[q] = "live" \/ p[q].pc = "insertUser") => Met(r, q)

(* What a call has built so far. *)
Built(r) ==
    /\ p[r].pc \in AfterUser => users[r] = "live"
    /\ p[r].pc \in AfterTables => dbs[p[r].id] = "full"
    /\ p[r].pc \in AfterRow => Row("workspaces", r) \in Live
    /\ p[r].pc \in AfterMember => Row("members", r) \in Live
    /\ p[r].pc \in AfterTask => Row("backfill_tasks", r) \in Live
    /\ p[r].pc \in AfterKey => Row("api_keys", r) \in Live
    /\ p[r].pc = "undoFind" /\ spoilt[r] = "no" => Row("workspaces", r) \in Live

(* What its compensation has taken down so far. *)
Undone(r) ==
    spoilt[r] = "no" =>
      /\ p[r].pc \in {"undoKeys", "undoTasks", "undoDb", "undoRow", "undoUser", "failed"} =>
            Row("members", r) \notin Live
      /\ p[r].pc \in {"undoTasks", "undoDb", "undoRow", "undoUser", "failed"} =>
            Row("api_keys", r) \notin Live
      /\ p[r].pc \in {"undoDb", "undoRow", "undoUser", "failed"} =>
            Row("backfill_tasks", r) \notin Live
      /\ p[r].pc \in {"undoRow", "undoUser", "failed"} =>
            \/ dbs[p[r].id] = "none"
            \/ \E q \in Requests \ {r} : p[q].id = p[r].id
      /\ p[r].pc \in {"undoUser", "failed"} => Row("workspaces", r) \notin Live
      /\ p[r].pc = "failed" => users[r] # "live"

(* A tenant that was handed out is not the target of a later call. *)
Untouched(r) ==
    p[r].pc = "done" => \A q \in Requests \ {r} : Chosen(q) => p[q].id # p[r].id

SagaInv == \A r \in Requests : Alone(r) => Built(r) /\ Undone(r) /\ Untouched(r)

-----------------------------------------------------------------------------
(* What one step of a call may do, whichever it is.                        *)

(* To the tables and the databases: nothing, or something to the rows and  *)
(* the database of its own workspace id only, adding none but its own rows. *)
Effect(r) ==
    \/ Live' = Live /\ dbs' = dbs
    \/ /\ Chosen(r)
       /\ \A x \in Live : x[2] # p[r].id => x \in Live'
       /\ \A x \in Live' : x \in Live \/ \E t \in Tables : x = Row(t, r)
       /\ dbs' \in [Ids -> {"none", "empty", "full"}]
       /\ \A id \in Ids : id # p[r].id => dbs'[id] = dbs[id]

(* Its identifier, once there, stays, and was found free when it came to be. *)
Shape(r) ==
    /\ Running(r)
    /\ met' = met
    /\ \E v \in Calls :
          /\ p' = [p EXCEPT ![r] = v]
          /\ v.email = p[r].email
          /\ p[r].id # None => v.id = p[r].id
          /\ v.pc \in ChosenPCs => Chosen(r) \/ ~WorkspaceExists(v.id)
          /\ v.pc = "done" => p[r].pc = "token"
          /\ v.pc \notin {"idle"} \cup Looking \/ p[r].pc \in Looking
    /\ users' \in {users, [users EXCEPT ![r] = "live"], [users EXCEPT ![r] = "deleted"]}
    /\ spoilt' \in {spoilt, [spoilt EXCEPT ![r] = "create"], [spoilt EXCEPT ![r] = "undo"]}
    /\ Effect(r)

(* The calls a Goto leaves behind. *)
LEMMA CallForms ==
    ASSUME NEW c \in Calls, NEW d \in PCs
    PROVE  /\ [c EXCEPT !.pc = d].pc = d
           /\ [c EXCEPT !.pc = d].email = c.email
           /\ [c EXCEPT !.pc = d].id = c.id
           /\ c.pc \in ChosenPCs /\ d \in (ChosenPCs \ {"checkRole", "insertKey"}) \cup Ended =>
                [c EXCEPT !.pc = d] \in Calls
           /\ c.pc = "checkRole" /\ d = "insertKey" => [c EXCEPT !.pc = d] \in Calls
           /\ d \in {"conflict", "noSlug", "error"} => [c EXCEPT !.pc = d] \in Calls
<1> USE DEF Calls
<1>1. [c EXCEPT !.pc = d].pc = d /\ [c EXCEPT !.pc = d].email = c.email /\ [c EXCEPT !.pc = d].id = c.id
  OBVIOUS
<1>2. ASSUME c.pc \in ChosenPCs, d \in (ChosenPCs \ {"checkRole", "insertKey"}) \cup Ended
      PROVE  [c EXCEPT !.pc = d] \in Calls
  BY <1>2 DEF ChosenPCs, AfterUser, AfterTables, AfterRow, AfterMember, AfterTask, AfterKey, Undoing, Ended
<1>3. ASSUME c.pc = "checkRole", d = "insertKey" PROVE [c EXCEPT !.pc = d] \in Calls
  BY <1>3 DEF ChosenPCs, AfterUser, AfterTables, AfterRow, AfterMember, AfterTask, AfterKey, Undoing
<1>4. ASSUME d \in {"conflict", "noSlug", "error"} PROVE [c EXCEPT !.pc = d] \in Calls
  BY <1>4 DEF ChosenPCs, AfterUser, AfterTables, AfterRow, AfterMember, AfterTask, AfterKey, Undoing
<1> HIDE DEF Calls
<1> QED
  BY <1>1, <1>2, <1>3, <1>4

(* A step that is a Goto between two points of a call that has its identifier. *)
LEMMA GotoShape ==
    ASSUME Typed, NEW r \in Requests, NEW d \in PCs, Goto(r, d), met' = met,
           \/ Chosen(r) /\ d \in (ChosenPCs \ {"checkRole", "insertKey"}) \cup Ended
           \/ p[r].pc = "checkRole" /\ d = "insertKey"
           \/ Running(r) /\ d \in {"conflict", "noSlug", "error"},
           d = "done" => p[r].pc = "token",
           users' \in {users, [users EXCEPT ![r] = "live"], [users EXCEPT ![r] = "deleted"]},
           spoilt' \in {spoilt, [spoilt EXCEPT ![r] = "create"], [spoilt EXCEPT ![r] = "undo"]},
           Effect(r)
    PROVE  Shape(r)
<1> DEFINE v == [p[r] EXCEPT !.pc = d]
<1>1. p[r] \in Calls
  BY DEF Typed
<1>2. v \in Calls /\ v.pc = d /\ v.email = p[r].email /\ v.id = p[r].id
  BY <1>1, CallForms DEF Chosen
<1>3. p' = [p EXCEPT ![r] = v]
  BY DEF Goto
<1> HIDE DEF v
<1>4. Chosen(r) => Running(r)
  BY DEF Chosen, Running, ChosenPCs, AfterUser, AfterTables, AfterRow, AfterMember, AfterTask, AfterKey, Undoing, Ended
<1>5. "checkRole" \in ChosenPCs /\ {"conflict", "noSlug", "error"} \cap ChosenPCs = {}
  BY DEF ChosenPCs, AfterUser, AfterTables, AfterRow, AfterMember, AfterTask, AfterKey, Undoing
<1>6. d \notin {"idle"} \cup Looking
  BY DEF Looking, ChosenPCs, AfterUser, AfterTables, AfterRow, AfterMember, AfterTask, AfterKey, Undoing, Ended
<1> QED
  BY <1>2, <1>3, <1>4, <1>5, <1>6 DEF Shape, Chosen

(* The points of a call, one by one. *)
LEMMA Points ==
    /\ ChosenPCs = {"mailCheck", "insertUser", "createDb", "createTables", "insertWorkspace",
                    "insertMember", "insertTask", "checkRole", "insertKey", "phones", "template",
                    "templateWrite", "token", "undoFind", "undoMembers", "undoKeys", "undoTasks",
                    "undoDb", "undoRow", "undoUser"}
    /\ ChosenPCs \cup Ended \subseteq PCs
    /\ ChosenPCs \cap Ended = {}
    /\ Looking \cap ChosenPCs = {} /\ Looking \cap Ended = {}
BY DEF PCs, Looking, ChosenPCs, AfterUser, AfterTables, AfterRow, AfterMember, AfterTask, AfterKey, Undoing, Ended

LEMMA NoEffect == ASSUME NEW r, UNCHANGED <<rows, doomed, dbs>> PROVE Effect(r)
BY DEF Effect, Live

LEMMA InsertEffect ==
    ASSUME Typed, NEW r \in Requests, Chosen(r), NEW t \in Tables, Insert(<<t, p[r].id, r>>),
           dbs' = dbs
    PROVE  Effect(r) /\ Live' = Live \cup {Row(t, r)}
<1>1. Live' = Live \cup {Row(t, r)}
  BY DEF Live, Row, Insert
<1> QED
  BY <1>1 DEF Effect, Typed

LEMMA DatabaseEffect ==
    ASSUME Typed, NEW r \in Requests, Chosen(r), UNCHANGED <<rows, doomed>>,
           NEW v \in {"none", "empty", "full"}, dbs' = [dbs EXCEPT ![p[r].id] = v]
    PROVE  Effect(r)
<1>1. Live' = Live
  BY DEF Live
<1> QED
  BY <1>1 DEF Effect, Typed

LEMMA DoomEffect ==
    ASSUME Typed, NEW r \in Requests, Chosen(r), NEW t, UNCHANGED <<rows, dbs>>,
           doomed' = doomed \cup {x \in rows : x[1] = t /\ x[2] = p[r].id}
    PROVE  /\ Effect(r)
           /\ Live' \subseteq Live /\ Row(t, r) \notin Live'
<1>1. Live' = {x \in Live : ~(x[1] = t /\ x[2] = p[r].id)}
  BY DEF Live
<1> QED
  BY <1>1 DEF Effect, Typed, Row

(* The catch of a step beyond the choice of the identifier. *)
LEMMA CatchPoint ==
    ASSUME NEW r \in Requests
    PROVE  CatchTarget(r) \in {"undoFind", "undoUser"}
BY DEF CatchTarget

LEMMA StepShape == ASSUME Typed, NEW r \in Requests, Step(r) PROVE Shape(r)
<1> USE Points DEF Chosen
<1>0. p[r] \in Calls /\ p[r].pc \in PCs
  BY DEF Typed, Calls
<1>r. p[r].pc \in ChosenPCs \cup Looking => Running(r)
  BY DEF Running, Looking
<1>1. CASE PreCheck(r)
  <2>1. Running(r) /\ users' = users /\ spoilt' = spoilt /\ met' = met /\ Effect(r)
    BY <1>1, <1>r, NoEffect DEF PreCheck, Looking
  <2>2. CASE Goto(r, "conflict")
    BY <2>1, <2>2, GotoShape DEF Ended
  <2>3. ASSUME NEW d \in {"findSlug", "explicit"}, Goto(r, d),
               d = "findSlug" => p[r].id = None, d = "explicit" => p[r].id # None
        PROVE  Shape(r)
    <3> DEFINE v == [p[r] EXCEPT !.pc = d]
    <3>1. p[r].pc = "precheck" /\ p' = [p EXCEPT ![r] = v]
      BY <1>1, <2>3 DEF PreCheck, Goto
    <3>2. v.pc = d /\ v.email = p[r].email /\ v.id = p[r].id
      BY <1>0 DEF Calls
    <3>3. v \in Calls
      BY <1>0, <2>3, <3>1 DEF Calls, PCs, Looking
    <3> HIDE DEF v
    <3> QED
      BY <2>1, <3>1, <3>2, <3>3 DEF Shape, Looking
  <2> QED
    BY <1>1, <2>2, <2>3 DEF PreCheck
<1>2. CASE UseExplicitWorkspaceId(r)
  <2>1. /\ Running(r) /\ users' = users /\ spoilt' = spoilt /\ met' = met /\ Effect(r)
        /\ p[r].pc = "explicit"
    BY <1>2, <1>r, NoEffect DEF UseExplicitWorkspaceId, Looking
  <2>2. CASE Goto(r, "conflict")
    BY <2>1, <2>2, GotoShape DEF Ended
  <2>3. CASE ~WorkspaceExists(p[r].id) /\ Goto(r, "mailCheck")
    <3> DEFINE v == [p[r] EXCEPT !.pc = "mailCheck"]
    <3>1. p' = [p EXCEPT ![r] = v]
      BY <2>3 DEF Goto
    <3>2. v.pc = "mailCheck" /\ v.email = p[r].email /\ v.id = p[r].id
      BY <1>0 DEF Calls
    <3>3. v \in Calls
      BY <1>0, <2>1 DEF Calls
    <3> HIDE DEF v
    <3> QED
      BY <2>1, <2>3, <3>1, <3>2, <3>3 DEF Shape, Looking
  <2> QED
    BY <1>2, <2>2, <2>3 DEF UseExplicitWorkspaceId
<1>3. CASE FindFreeWorkspaceId(r)
  <2>1. /\ Running(r) /\ users' = users /\ spoilt' = spoilt /\ met' = met /\ Effect(r)
        /\ p[r].pc = "findSlug" /\ p[r].id = None /\ p[r].name \in Names
        /\ p[r].tries \in 0..MaxAttempts
    BY <1>0, <1>3, <1>r, NoEffect DEF FindFreeWorkspaceId, Looking, Calls
  <2> DEFINE candidate == <<p[r].name, p[r].tries + 1>>
  <2>2. CASE p' = [p EXCEPT ![r].pc = "noSlug"]
    BY <2>1, <2>2, GotoShape DEF Ended, Goto
  <2>3. CASE p[r].tries # MaxAttempts /\ p' = [p EXCEPT ![r].tries = NextTry(@)]
    <3> DEFINE v == [p[r] EXCEPT !.tries = NextTry(@)]
    <3>1. p' = [p EXCEPT ![r] = v]
      BY <2>3
    <3>2. v.pc = "findSlug" /\ v.email = p[r].email /\ v.id = p[r].id
      BY <1>0, <2>1 DEF Calls
    <3>3. v \in Calls
      BY <1>0, <2>1, <2>3, ProvisioningConstants DEF Calls, NextTry
    <3> HIDE DEF v
    <3> QED
      BY <2>1, <3>1, <3>2, <3>3 DEF Shape, Looking
  <2>4. CASE /\ p[r].tries # MaxAttempts /\ ~WorkspaceExists(candidate)
             /\ p' = [p EXCEPT ![r].pc = "mailCheck", ![r].id = candidate]
    <3> DEFINE v == [p[r] EXCEPT !.pc = "mailCheck", !.id = candidate]
    <3>1. p' = [p EXCEPT ![r] = v]
      BY <2>4
    <3>2. candidate \in Ids
      BY <2>1, <2>4, ProvisioningConstants DEF Ids
    <3>3. v.pc = "mailCheck" /\ v.email = p[r].email /\ v.id = candidate
      BY <1>0 DEF Calls
    <3>4. v \in Calls
      BY <1>0, <3>2 DEF Calls
    <3> HIDE DEF v
    <3> QED
      BY <2>1, <2>4, <3>1, <3>3, <3>4 DEF Shape, Looking
  <2> QED
    BY <1>3, <2>2, <2>3, <2>4 DEF FindFreeWorkspaceId
<1>4. CASE ReadFails(r)
  BY <1>4, <1>r, NoEffect, GotoShape DEF ReadFails, Ended, Looking
<1>5. CASE CheckUser(r)
  BY <1>5, NoEffect, GotoShape DEF CheckUser, Ended
<1>6. CASE InsertUser(r)
  BY <1>6, NoEffect, GotoShape DEF InsertUser, Ended
<1>7. CASE CreateDatabase(r)
  <2>1. dbs' = dbs \/ \E v \in {"none", "empty", "full"} : dbs' = [dbs EXCEPT ![p[r].id] = v]
    BY <1>7 DEF CreateDatabase, Typed
  <2>2. Effect(r)
    BY <1>7, <2>1, NoEffect, DatabaseEffect DEF CreateDatabase
  <2> QED
    BY <1>7, <2>2, GotoShape, CatchPoint DEF CreateDatabase, CreateThrows
<1>8. CASE CreateTables(r)
  <2>1. dbs' = dbs \/ dbs' = [dbs EXCEPT ![p[r].id] = "full"]
    BY <1>8 DEF CreateTables
  <2>2. Effect(r)
    BY <1>8, <2>1, NoEffect, DatabaseEffect DEF CreateTables
  <2> QED
    BY <1>8, <2>2, GotoShape, CatchPoint DEF CreateTables, CreateThrows
<1>9. CASE InsertWorkspace(r)
  <2>1. Effect(r)
    BY <1>9, NoEffect, InsertEffect DEF InsertWorkspace, InsertOr, Tables
  <2> QED
    BY <1>9, <2>1, GotoShape, CatchPoint DEF InsertWorkspace, InsertOr, CreateThrows
<1>10. CASE InsertMember(r)
  <2>1. Effect(r)
    BY <1>10, NoEffect, InsertEffect DEF InsertMember, InsertOr, Tables
  <2> QED
    BY <1>10, <2>1, GotoShape, CatchPoint DEF InsertMember, InsertOr, CreateThrows
<1>11. CASE InsertTask(r)
  <2>1. Effect(r)
    BY <1>11, NoEffect, InsertEffect DEF InsertTask, Tables
  <2>2. CASE p' = Created(r) /\ UNCHANGED spoilt
    <3> DEFINE v == [p[r] EXCEPT !.pc = "checkRole", !.made = TRUE]
    <3>1. p' = [p EXCEPT ![r] = v] /\ p[r].pc = "insertTask"
      BY <1>11, <2>2 DEF Created, InsertTask
    <3>2. v.pc = "checkRole" /\ v.email = p[r].email /\ v.id = p[r].id
      BY <1>0 DEF Calls
    <3>3. v \in Calls
      BY <1>0, <3>1 DEF Calls
    <3> HIDE DEF v
    <3> QED
      BY <1>11, <1>r, <2>1, <2>2, <3>1, <3>2, <3>3 DEF Shape, Looking, InsertTask
  <2> QED
    BY <1>11, <2>1, <2>2, GotoShape, CatchPoint DEF InsertTask, CreateThrows
<1>12. CASE ValidateRole(r)
  BY <1>12, NoEffect, GotoShape, CatchPoint DEF ValidateRole, KeyThrows
<1>13. CASE InsertKey(r)
  <2>1. Effect(r)
    BY <1>13, NoEffect, InsertEffect DEF InsertKey, InsertOr, Tables
  <2> QED
    BY <1>13, <2>1, GotoShape, CatchPoint DEF InsertKey, InsertOr, KeyThrows
<1>14. CASE ForwardPhoneNumbers(r)
  BY <1>14, NoEffect, GotoShape DEF ForwardPhoneNumbers
<1>15. CASE ReadForTemplate(r)
  BY <1>15, NoEffect, GotoShape DEF ReadForTemplate
<1>16. CASE WriteTemplate(r)
  <2>1. Effect(r)
    BY <1>16, NoEffect, InsertEffect DEF WriteTemplate, InsertOr, Tables
  <2> QED
    BY <1>16, <2>1, GotoShape DEF WriteTemplate, InsertOr
<1>17. CASE CreatePasswordReset(r)
  BY <1>17, NoEffect, GotoShape DEF CreatePasswordReset, Ended
<1>18. CASE FindForDelete(r)
  BY <1>18, NoEffect, GotoShape DEF FindForDelete, UndoThrows
<1>19. CASE DeleteRows(r)
  <2>1. PICK d \in Deletions :
          /\ p[r].pc = d[1]
          /\ \/ /\ doomed' = doomed \cup {x \in rows : x[1] = d[2] /\ x[2] = p[r].id}
                /\ Goto(r, d[3]) /\ UNCHANGED <<spoilt, faults>>
             \/ /\ UndoThrows(r)
                /\ doomed' \in {doomed, doomed \cup {x \in rows : x[1] = d[2] /\ x[2] = p[r].id}}
    BY <1>19 DEF DeleteRows
  <2>2. d[1] \in ChosenPCs /\ d[3] \in ChosenPCs \ {"checkRole", "insertKey"}
    BY DEF Deletions
  <2>3. Effect(r)
    BY <1>19, <2>1, <2>2, NoEffect, DoomEffect DEF DeleteRows
  <2> QED
    BY <1>19, <2>1, <2>2, <2>3, GotoShape DEF DeleteRows, UndoThrows
<1>20. CASE DropDatabase(r)
  <2>1. dbs' = dbs \/ dbs' = [dbs EXCEPT ![p[r].id] = "none"]
    BY <1>20 DEF DropDatabase
  <2>2. Effect(r)
    BY <1>20, <2>1, NoEffect, DatabaseEffect DEF DropDatabase
  <2> QED
    BY <1>20, <2>2, GotoShape DEF DropDatabase, UndoThrows
<1>21. CASE DeleteUser(r)
  BY <1>21, NoEffect, GotoShape DEF DeleteUser, Ended
<1> QED
  BY <1>1, <1>2, <1>3, <1>4, <1>5, <1>6, <1>7, <1>8, <1>9, <1>10, <1>11, <1>12, <1>13, <1>14,
     <1>15, <1>16, <1>17, <1>18, <1>19, <1>20, <1>21 DEF Step

(* A call that arrives, and what it leaves alone. *)
LEMMA BeginShape ==
    ASSUME Typed, NEW r \in Requests, Begin(r)
    PROVE  /\ p[r].pc = "idle" /\ p[r].id = None
           /\ \E v \in Calls : p' = [p EXCEPT ![r] = v] /\ v.pc = "precheck"
           /\ met' = met \cup {{r, q} : q \in {x \in Requests : Running(x)}}
           /\ UNCHANGED <<users, spoilt, dbs>> /\ Live' = Live
<1>1. p[r].pc = "idle" /\ p[r].id = None
  BY DEF Begin, Typed, Calls
<1>2. PICK m \in Emails, n \in Names, id \in Ids \cup {None} :
        p' = [p EXCEPT ![r] = [pc |-> "precheck", email |-> m, name |-> n,
                               id |-> id, tries |-> 0, made |-> FALSE]]
  BY DEF Begin
<1> DEFINE v == [pc |-> "precheck", email |-> m, name |-> n, id |-> id, tries |-> 0, made |-> FALSE]
<1>3. "precheck" \in PCs /\ 0 \in 0..MaxAttempts
  BY ProvisioningConstants DEF PCs, Looking
<1>4. v \in Calls
  BY <1>3, Points DEF Calls
<1> QED
  BY <1>1, <1>2, <1>4 DEF Begin, Live

(* A mutation that runs takes nothing that was not doomed. *)
LEMMA MutateKeepsLive == ASSUME Mutate PROVE Live' = Live
BY DEF Mutate, Live

(* The identifier of a call does not change any more once it has one. *)
LEMMA IdsStay ==
    ASSUME Typed, [Next]_vars, NEW q \in Requests, p[q].id # None
    PROVE  p'[q].id = p[q].id
<1>1. ASSUME NEW r \in Requests, Begin(r) PROVE p'[q].id = p[q].id
  BY <1>1, BeginShape DEF Typed
<1>2. ASSUME NEW r \in Requests, Step(r) PROVE p'[q].id = p[q].id
  <2>1. Shape(r)
    BY <1>2, StepShape
  <2> QED
    BY <2>1 DEF Shape, Typed
<1>3. CASE Mutate \/ UNCHANGED vars
  BY <1>3 DEF Mutate, vars
<1> QED
  BY <1>1, <1>2, <1>3 DEF Next

LEMMA TypedStep == ASSUME Typed, [Next]_vars PROVE Typed'
<1>0. None \notin Ids
  BY ProvisioningConstants DEF Ids
<1>1. ASSUME NEW t \in Tables, NEW r \in Requests, p[r].id \in Ids
      PROVE  Row(t, r)' = Row(t, r) /\ p'[r].id \in Ids
  BY <1>0, <1>1, IdsStay DEF Row
<1>2. ASSUME Live' = Live
      PROVE  \A x \in Live' : \E t \in Tables, r \in Requests : x = Row(t, r)' /\ p'[r].id \in Ids
  BY <1>1, <1>2 DEF Typed
<1>3. ASSUME NEW r \in Requests, Begin(r) PROVE Typed'
  <2>1. p' \in [Requests -> Calls]
    BY <1>3, BeginShape DEF Typed
  <2>2. UNCHANGED <<users, spoilt, dbs>> /\ Live' = Live
    BY <1>3, BeginShape
  <2> QED
    BY <1>2, <2>1, <2>2 DEF Typed
<1>4. ASSUME NEW r \in Requests, Step(r) PROVE Typed'
  <2>1. Shape(r)
    BY <1>4, StepShape
  <2>2. p' \in [Requests -> Calls]
    BY <2>1 DEF Shape, Typed
  <2>3. /\ users' \in [Requests -> {"none", "live", "deleted"}]
        /\ spoilt' \in [Requests -> {"no", "create", "undo"}]
    BY <2>1 DEF Shape, Typed
  <2>4. CASE Live' = Live /\ dbs' = dbs
    BY <1>2, <2>2, <2>3, <2>4 DEF Typed
  <2>5. CASE Chosen(r) /\ ~(Live' = Live /\ dbs' = dbs)
    <3>1. /\ \A x \in Live' : x \in Live \/ \E t \in Tables : x = Row(t, r)
          /\ dbs' \in [Ids -> {"none", "empty", "full"}]
      BY <2>1, <2>5 DEF Shape, Effect
    <3>2. p[r].id \in Ids
      BY <2>5 DEF Typed, Calls, Chosen
    <3>3. \A x \in Live' : \E t \in Tables, q \in Requests : x = Row(t, q)' /\ p'[q].id \in Ids
      BY <1>1, <3>1, <3>2 DEF Typed
    <3> QED
      BY <2>2, <2>3, <3>1, <3>3 DEF Typed
  <2> QED
    BY <2>1, <2>4, <2>5 DEF Shape, Effect
<1>5. CASE Mutate
  BY <1>2, <1>5, MutateKeepsLive DEF Typed, Mutate
<1>6. CASE UNCHANGED vars
  <2>1. Live' = Live
    BY <1>6 DEF vars, Live
  <2> QED
    BY <1>2, <1>6, <2>1 DEF Typed, vars
<1> QED
  BY <1>3, <1>4, <1>5, <1>6 DEF Next

(* A call knows its identifier from the point on where it found it free,   *)
(* and every row that is not doomed carries the identifier of the call     *)
(* that inserted it (provisionTenant).                                     *)
THEOREM TypeCorrect == Spec => []Typed
<1>1. Init => Typed
  <2>1. [pc |-> "idle", email |-> None, name |-> None, id |-> None, tries |-> 0, made |-> FALSE]
          \in Calls
    BY Points, ProvisioningConstants DEF Calls, PCs
  <2>2. Init => p \in [Requests -> Calls]
    BY <2>1 DEF Init
  <2> QED
    BY <2>2 DEF Init, Typed, Live
<1> QED
  BY <1>1, TypedStep, PTL DEF Spec

-----------------------------------------------------------------------------
(* Overlap, and two accounts of one address.                               *)

(* Who has met stays met, and a step of one call concerns no other. *)
LEMMA MeetStep == ASSUME Typed, MeetInv, [Next]_vars PROVE MeetInv' /\ met \subseteq met'
<1>1. ASSUME NEW r \in Requests, Begin(r) PROVE MeetInv' /\ met \subseteq met'
  <2>1. met' = met \cup {{r, q} : q \in {x \in Requests : Running(x)}}
    BY <1>1, BeginShape
  <2>2. \A q \in Requests \ {r} : p'[q] = p[q]
    BY <1>1, BeginShape DEF Typed
  <2>3. ASSUME NEW a \in Requests, NEW b \in Requests, a # b, Running(a)', Running(b)'
        PROVE  {a, b} \in met'
    <3>1. CASE a # r /\ b # r
      BY <2>1, <2>2, <2>3, <3>1 DEF MeetInv, Running, Met
    <3>2. CASE a = r
      BY <2>1, <2>2, <2>3, <3>2 DEF Running
    <3>3. CASE b = r
      <4>1. {r, a} \in met' /\ {r, a} = {a, b}
        BY <2>1, <2>2, <2>3, <3>3 DEF Running
      <4> QED
        BY <4>1
    <3> QED
      BY <3>1, <3>2, <3>3
  <2> QED
    BY <2>1, <2>3 DEF MeetInv, Met
<1>2. ASSUME NEW r \in Requests, Step(r) PROVE MeetInv' /\ met \subseteq met'
  <2>1. Running(r) /\ met' = met /\ \A q \in Requests \ {r} : p'[q] = p[q]
    BY <1>2, StepShape DEF Shape, Typed
  <2> QED
    BY <2>1 DEF MeetInv, Met, Running
<1>3. CASE Mutate \/ UNCHANGED vars
  BY <1>3 DEF Mutate, vars, MeetInv, Met, Running
<1> QED
  BY <1>1, <1>2, <1>3 DEF Next

(* Who inserts an account was about to; who is about to has just looked. *)
LEMMA AccountSteps ==
    ASSUME Typed, NEW r \in Requests, Step(r)
    PROVE  /\ users'[r] # users[r] => p[r].pc \in {"insertUser", "undoUser"}
           /\ p'[r].pc = "insertUser" => /\ p[r].pc = "mailCheck" /\ users' = users
                                         /\ ~FindByEmail(p[r].email)
           /\ p'[r].pc = "mailCheck" => p[r].pc \in Looking
           /\ p[r].pc = "insertUser" /\ p'[r].pc \notin Ended => p'[r].pc = "createDb"
<1> USE DEF Goto
<1>0. p \in [Requests -> Calls] /\ users \in [Requests -> {"none", "live", "deleted"}]
  BY DEF Typed
<1>1. ASSUME NEW d, Goto(r, d) PROVE p'[r].pc = d
  BY <1>0, <1>1 DEF Calls
<1> HIDE DEF Goto
<1>2. CASE PreCheck(r)
  BY <1>1, <1>2 DEF PreCheck
<1>3. CASE UseExplicitWorkspaceId(r)
  BY <1>1, <1>3 DEF UseExplicitWorkspaceId, Looking
<1>4. CASE FindFreeWorkspaceId(r)
  <2>1. p'[r].pc \in {"noSlug", "findSlug", "mailCheck"} /\ p[r].pc = "findSlug" /\ users' = users
    BY <1>0, <1>4 DEF FindFreeWorkspaceId, Calls
  <2> QED
    BY <2>1 DEF Looking
<1>5. CASE ReadFails(r)
  BY <1>1, <1>5 DEF ReadFails, Ended
<1>6. CASE CheckUser(r)
  BY <1>1, <1>6 DEF CheckUser
<1>7. CASE InsertUser(r)
  BY <1>1, <1>7 DEF InsertUser, Ended
<1>8. CASE CreateDatabase(r)
  BY <1>1, <1>8, CatchPoint DEF CreateDatabase, CreateThrows
<1>9. CASE CreateTables(r)
  BY <1>1, <1>9, CatchPoint DEF CreateTables, CreateThrows
<1>10. CASE InsertWorkspace(r)
  BY <1>1, <1>10, CatchPoint DEF InsertWorkspace, InsertOr, CreateThrows
<1>11. CASE InsertMember(r)
  BY <1>1, <1>11, CatchPoint DEF InsertMember, InsertOr, CreateThrows
<1>12. CASE InsertTask(r)
  <2>1. p' = Created(r) => p'[r].pc = "checkRole"
    BY <1>0 DEF Created, Calls
  <2> QED
    BY <1>1, <1>12, <2>1, CatchPoint DEF InsertTask, CreateThrows
<1>13. CASE ValidateRole(r)
  BY <1>1, <1>13, CatchPoint DEF ValidateRole, KeyThrows
<1>14. CASE InsertKey(r)
  BY <1>1, <1>14, CatchPoint DEF InsertKey, InsertOr, KeyThrows
<1>15. CASE ForwardPhoneNumbers(r)
  BY <1>1, <1>15 DEF ForwardPhoneNumbers
<1>16. CASE ReadForTemplate(r)
  BY <1>1, <1>16 DEF ReadForTemplate
<1>17. CASE WriteTemplate(r)
  BY <1>1, <1>17 DEF WriteTemplate, InsertOr
<1>18. CASE CreatePasswordReset(r)
  BY <1>1, <1>18 DEF CreatePasswordReset
<1>19. CASE FindForDelete(r)
  BY <1>1, <1>19 DEF FindForDelete, UndoThrows
<1>20. CASE DeleteRows(r)
  BY <1>1, <1>20 DEF DeleteRows, Deletions, UndoThrows
<1>21. CASE DropDatabase(r)
  BY <1>1, <1>21 DEF DropDatabase, UndoThrows
<1>22. CASE DeleteUser(r)
  BY <1>1, <1>22 DEF DeleteUser
<1> QED
  BY <1>2, <1>3, <1>4, <1>5, <1>6, <1>7, <1>8, <1>9, <1>10, <1>11, <1>12, <1>13, <1>14,
     <1>15, <1>16, <1>17, <1>18, <1>19, <1>20, <1>21, <1>22 DEF Step

(* The compensation never brings an account back. *)
LEMMA UndoUserDeletes ==
    ASSUME Typed, NEW r \in Requests, Step(r), p[r].pc = "undoUser"
    PROVE  DeleteUser(r) /\ (users'[r] = "deleted" \/ users' = users)
<1>1. DeleteUser(r)
  BY DEF Step, PreCheck, UseExplicitWorkspaceId, FindFreeWorkspaceId, ReadFails, CheckUser,
         InsertUser, CreateDatabase, CreateTables, InsertWorkspace, InsertMember, InsertTask,
         ValidateRole, InsertKey, ForwardPhoneNumbers, ReadForTemplate, WriteTemplate,
         CreatePasswordReset, FindForDelete, DeleteRows, Deletions, DropDatabase
<1> QED
  BY <1>1 DEF DeleteUser, Typed

LEMMA TwinStep == ASSUME Typed, MeetInv, TwinInv, [Next]_vars PROVE TwinInv'
<1>m. met \subseteq met'
  BY MeetStep
<1>1. ASSUME NEW r \in Requests, Begin(r) PROVE TwinInv'
  <2>1. /\ p[r].pc = "idle" /\ users' = users /\ p'[r].pc = "precheck"
        /\ \A q \in Requests \ {r} : p'[q] = p[q]
    BY <1>1, BeginShape DEF Typed
  <2>2. users[r] = "none"
    BY <2>1 DEF TwinInv
  <2>3. ASSUME NEW a \in Requests
        PROVE  p'[a].pc \in {"idle", "mailCheck", "insertUser"} \cup Looking => users'[a] = "none"
    BY <2>1, <2>2 DEF TwinInv
  <2>4. ASSUME NEW a \in Requests, NEW b \in Requests, a # b, p'[a].email = p'[b].email,
               users'[a] = "live", users'[b] = "live" \/ p'[b].pc = "insertUser"
        PROVE  {a, b} \in met'
    <3>1. a # r /\ b # r
      BY <2>1, <2>2, <2>4
    <3> QED
      BY <1>m, <2>1, <2>4, <3>1 DEF TwinInv, Met
  <2> QED
    BY <2>3, <2>4 DEF TwinInv, Met
<1>2. ASSUME NEW r \in Requests, Step(r) PROVE TwinInv'
  <2>1. /\ Running(r) /\ met' = met /\ p'[r].email = p[r].email
        /\ \A q \in Requests \ {r} : p'[q] = p[q] /\ users'[q] = users[q]
        /\ p'[r].pc \notin {"idle"} \cup Looking \/ p[r].pc \in Looking
        /\ users'[r] \in {"none", "live", "deleted"}
    BY <1>2, StepShape DEF Shape, Typed
  <2>2. /\ users'[r] # users[r] => p[r].pc \in {"insertUser", "undoUser"}
        /\ p'[r].pc = "insertUser" => /\ p[r].pc = "mailCheck" /\ users' = users
                                      /\ ~FindByEmail(p[r].email)
        /\ p'[r].pc = "mailCheck" => p[r].pc \in Looking
        /\ p[r].pc = "insertUser" /\ p'[r].pc \notin Ended => p'[r].pc = "createDb"
    BY <1>2, AccountSteps
  <2>3. users'[r] = "live" => users[r] = "live" \/ p[r].pc = "insertUser"
    <3>1. p[r].pc = "undoUser" => users'[r] # "live" \/ users'[r] = users[r]
      BY <1>2, <2>1, UndoUserDeletes
    <3> QED
      BY <2>2, <3>1
  <2>4. ASSUME NEW a \in Requests
        PROVE  p'[a].pc \in {"idle", "mailCheck", "insertUser"} \cup Looking => users'[a] = "none"
    <3>1. CASE a # r
      BY <2>1, <3>1 DEF TwinInv
    <3>2. CASE a = r
      BY <2>1, <2>2, <3>2 DEF TwinInv, Looking
    <3> QED
      BY <3>1, <3>2
  <2>5. ASSUME NEW a \in Requests, NEW b \in Requests, a # b, p'[a].email = p'[b].email,
               users'[a] = "live", users'[b] = "live" \/ p'[b].pc = "insertUser"
        PROVE  {a, b} \in met'
    <3>0. {a, b} = {b, a}
      OBVIOUS
    <3>1. p[a].email = p[b].email
      BY <2>1, <2>5
    <3>2. CASE a # r /\ b # r
      BY <2>1, <2>5, <3>1, <3>2 DEF TwinInv, Met
    <3>3. CASE b = r
      <4>1. users[a] = "live"
        BY <2>1, <2>5, <3>3
      <4>2. p'[b].pc # "insertUser"
        BY <2>2, <3>1, <3>3, <4>1 DEF FindByEmail
      <4>3. users[b] = "live" \/ p[b].pc = "insertUser"
        BY <2>3, <2>5, <3>3, <4>2
      <4> QED
        BY <2>1, <2>5, <3>1, <4>1, <4>3 DEF TwinInv, Met
    <3>4. CASE a = r
      <4>1. b # r /\ (users[b] = "live" \/ p[b].pc = "insertUser")
        BY <2>1, <2>5, <3>4
      <4>2. users[a] = "live" \/ p[a].pc = "insertUser"
        BY <2>3, <2>5, <3>4
      <4>3. CASE users[a] = "live"
        BY <2>1, <2>5, <3>1, <4>1, <4>3 DEF TwinInv, Met
      <4>4. CASE p[a].pc = "insertUser" /\ users[b] = "live"
        BY <2>1, <2>5, <3>0, <3>1, <4>4 DEF TwinInv, Met
      <4>5. CASE p[a].pc = "insertUser" /\ p[b].pc = "insertUser"
        BY <2>1, <2>5, <4>5 DEF MeetInv, Met, Running, Ended
      <4> QED
        BY <4>1, <4>2, <4>3, <4>4, <4>5
    <3> QED
      BY <3>2, <3>3, <3>4
  <2> QED
    BY <2>4, <2>5 DEF TwinInv, Met
<1>3. CASE Mutate \/ UNCHANGED vars
  BY <1>3 DEF Mutate, vars, TwinInv, Met
<1> QED
  BY <1>1, <1>2, <1>3 DEF Next

(* Two live accounts share an address only when the calls that created     *)
(* them overlapped: findByEmail() is asked once more right before the      *)
(* insert, and an account that is seen once is never missed later.         *)
THEOREM TwinsAlwaysOverlapped == Spec => []TwinsOverlapped
<1>1. Init => MeetInv /\ TwinInv
  BY DEF Init, MeetInv, TwinInv, Running
<1>2. TwinInv => TwinsOverlapped
  BY DEF TwinInv, TwinsOverlapped
<1> QED
  BY <1>1, <1>2, TypeCorrect, MeetStep, TwinStep, PTL DEF Spec

-----------------------------------------------------------------------------
(* What a call builds and takes down, undisturbed by the others.           *)

LEMMA ProgressPoints ==
    /\ AfterKey = {"phones", "template", "templateWrite", "token", "done"}
    /\ AfterTask = {"phones", "template", "templateWrite", "token", "done", "checkRole", "insertKey"}
    /\ AfterMember = {"phones", "template", "templateWrite", "token", "done", "checkRole",
                      "insertKey", "insertTask"}
    /\ AfterRow = {"phones", "template", "templateWrite", "token", "done", "checkRole",
                   "insertKey", "insertTask", "insertMember"}
    /\ AfterTables = {"phones", "template", "templateWrite", "token", "done", "checkRole",
                      "insertKey", "insertTask", "insertMember", "insertWorkspace"}
    /\ AfterUser = {"phones", "template", "templateWrite", "token", "done", "checkRole",
                    "insertKey", "insertTask", "insertMember", "insertWorkspace", "createDb",
                    "createTables"}
BY DEF AfterUser, AfterTables, AfterRow, AfterMember, AfterTask, AfterKey

(* A call with an identifier that is alone now was alone before. *)
LEMMA AloneEarlier ==
    ASSUME Typed, MeetInv, [Next]_vars, NEW r \in Requests, p[r].id # None, Alone(r)'
    PROVE  Alone(r)
<1>1. p'[r].id = p[r].id
  BY IdsStay
<1>2. ASSUME NEW q \in Requests \ {r}, Met(r, q), p[q].id = p[r].id PROVE FALSE
  <2>1. p'[q].id = p[q].id
    BY <1>2, IdsStay
  <2>2. {r, q} \in met'
    BY <1>2, MeetStep DEF Met
  <2> QED
    BY <1>1, <1>2, <2>1, <2>2 DEF Alone, Met
<1> QED
  BY <1>2 DEF Alone

(* Nobody else works under the identifier of a call that is alone, while it *)
(* runs or after it was handed out.                                        *)
LEMMA NoIntruder ==
    ASSUME Typed, MeetInv, SagaInv, NEW s \in Requests, Alone(s), Chosen(s) \/ p[s].pc = "done",
           NEW q \in Requests \ {s}, Chosen(q)
    PROVE  p[q].id # p[s].id
<1>1. CASE p[s].pc = "done"
  BY <1>1 DEF SagaInv, Untouched
<1>2. CASE Chosen(s)
  <2>1. Running(s) /\ Running(q)
    BY <1>2, Points DEF Chosen, Running
  <2>2. Met(s, q)
    BY <2>1 DEF MeetInv
  <2> QED
    BY <2>2 DEF Alone
<1> QED
  BY <1>1, <1>2

(* The state of a call that does not move itself. *)
LEMMA CallKeeps ==
    ASSUME Typed, [Next]_vars, NEW s \in Requests, Built(s), Undone(s),
           p'[s] = p[s], users'[s] = users[s], spoilt'[s] = spoilt[s],
           \A t \in Tables : Row(t, s) \in Live' => Row(t, s) \in Live,
           Chosen(s) \/ p[s].pc = "done" =>
             /\ \A t \in Tables : Row(t, s) \in Live => Row(t, s) \in Live'
             /\ dbs'[p[s].id] = dbs[p[s].id],
           p[s].pc = "failed" =>
             dbs'[p[s].id] = dbs[p[s].id] \/ \E q \in Requests \ {s} : p'[q].id = p[s].id
    PROVE  Built(s)' /\ Undone(s)'
<1>0. \A t : Row(t, s)' = Row(t, s)
  BY DEF Row
<1>1. CASE ~(Chosen(s) \/ p[s].pc \in {"done", "failed"})
  BY <1>1, Points, ProgressPoints DEF Built, Undone, Chosen
<1>2. CASE Chosen(s) \/ p[s].pc \in {"done", "failed"}
  <2>1. p[s].id # None
    BY <1>2, ProvisioningConstants DEF Typed, Calls, Chosen, Ids
  <2>2. (\E q \in Requests \ {s} : p[q].id = p[s].id) => \E q \in Requests \ {s} : p'[q].id = p[s].id
    BY <2>1, IdsStay
  <2>3. Built(s)'
    BY <1>0, <1>2, Points, ProgressPoints DEF Built, Chosen, Tables
  <2>4. Undone(s)'
    <3>1. spoilt'[s] = "no" => spoilt[s] = "no"
      OBVIOUS
    <3>2. CASE p[s].pc \in {"undoRow", "undoUser", "failed"}
      <4>1. spoilt[s] = "no" =>
              \/ dbs'[p[s].id] = "none"
              \/ \E q \in Requests \ {s} : p'[q].id = p[s].id
        BY <2>2, <3>2, Points DEF Undone, Chosen
      <4> QED
        BY <1>0, <3>1, <4>1 DEF Undone, Tables
    <3>3. CASE p[s].pc \notin {"undoRow", "undoUser", "failed"}
      BY <1>0, <3>1, <3>3 DEF Undone, Tables
    <3> QED
      BY <3>2, <3>3
  <2> QED
    BY <2>3, <2>4
<1> QED
  BY <1>1, <1>2

(* A step of one call leaves what another one has built or taken down. *)
LEMMA OthersKeep ==
    ASSUME Typed, MeetInv, SagaInv, [Next]_vars,
           NEW r \in Requests, Shape(r), NEW s \in Requests \ {r}, Alone(s)
    PROVE  Built(s)' /\ Undone(s)'
<1>1. p'[s] = p[s] /\ users'[s] = users[s] /\ spoilt'[s] = spoilt[s]
  BY DEF Shape, Typed
<1>2. Built(s) /\ Undone(s)
  BY DEF SagaInv
<1>3. CASE Live' = Live /\ dbs' = dbs
  BY <1>1, <1>2, <1>3, CallKeeps
<1>4. CASE Chosen(r) /\ ~(Live' = Live /\ dbs' = dbs)
  <2>1. /\ \A x \in Live : x[2] # p[r].id => x \in Live'
        /\ \A x \in Live' : x \in Live \/ \E t \in Tables : x = Row(t, r)
        /\ \A id \in Ids : id # p[r].id => dbs'[id] = dbs[id]
    BY <1>4 DEF Shape, Effect
  <2>2. \A t \in Tables : Row(t, s) \in Live' => Row(t, s) \in Live
    BY <2>1 DEF Row
  <2>3. Chosen(s) \/ p[s].pc = "done" => p[r].id # p[s].id
    BY <1>4, NoIntruder
  <2>4. Chosen(s) \/ p[s].pc \in {"done", "failed"} => p[s].id \in Ids
    BY DEF Typed, Calls, Chosen
  <2>5. Chosen(s) \/ p[s].pc = "done" =>
          /\ \A t \in Tables : Row(t, s) \in Live => Row(t, s) \in Live'
          /\ dbs'[p[s].id] = dbs[p[s].id]
    BY <2>1, <2>3, <2>4 DEF Row
  <2>6. p'[r].id = p[r].id
    <3>1. p[r].id # None
      BY <1>4, ProvisioningConstants DEF Typed, Calls, Chosen, Ids
    <3> QED
      BY <3>1, IdsStay
  <2>7. p[s].pc = "failed" =>
          dbs'[p[s].id] = dbs[p[s].id] \/ \E q \in Requests \ {s} : p'[q].id = p[s].id
    BY <2>1, <2>4, <2>6
  <2> QED
    BY <1>1, <1>2, <2>2, <2>5, <2>7, CallKeeps
<1> QED
  BY <1>3, <1>4 DEF Shape, Effect

(* Points of a call at which nothing is claimed of it. *)
LEMMA NothingClaimed ==
    ASSUME NEW r \in Requests,
           \/ p'[r].pc \in {"precheck", "explicit", "findSlug", "mailCheck", "insertUser",
                            "conflict", "noSlug", "error", "undoMembers"}
           \/ p'[r].pc \in Undoing \cup {"failed"} /\ spoilt'[r] # "no"
    PROVE  Built(r)' /\ Undone(r)'
<1>1. CASE p'[r].pc \in {"precheck", "explicit", "findSlug", "mailCheck", "insertUser",
                         "conflict", "noSlug", "error", "undoMembers"}
  BY <1>1, ProgressPoints DEF Built, Undone
<1>2. CASE p'[r].pc \in Undoing \cup {"failed"} /\ spoilt'[r] # "no"
  BY <1>2, ProgressPoints DEF Built, Undone, Undoing
<1> QED
  BY <1>1, <1>2

(* A step forward that adds to the rows. *)
LEMMA Forward ==
    ASSUME NEW r \in Requests, Built(r), p'[r].pc \in AfterUser, p'[r].id = p[r].id,
           p[r].pc \in AfterUser, UNCHANGED users, Live \subseteq Live',
           p[r].pc \in AfterTables => dbs' = dbs,
           p'[r].pc \in AfterTables => p[r].pc \in AfterTables \/ dbs'[p[r].id] = "full",
           p'[r].pc \in AfterRow => p[r].pc \in AfterRow \/ Row("workspaces", r) \in Live',
           p'[r].pc \in AfterMember => p[r].pc \in AfterMember \/ Row("members", r) \in Live',
           p'[r].pc \in AfterTask => p[r].pc \in AfterTask \/ Row("backfill_tasks", r) \in Live',
           p'[r].pc \in AfterKey => p[r].pc \in AfterKey \/ Row("api_keys", r) \in Live'
    PROVE  Built(r)' /\ Undone(r)'
<1>0. \A t : Row(t, r)' = Row(t, r)
  BY DEF Row
<1>1. p'[r].pc \notin {"undoFind", "undoKeys", "undoTasks", "undoDb", "undoRow", "undoUser", "failed"}
  BY ProgressPoints
<1> QED
  BY <1>0, <1>1 DEF Built, Undone

LEMMA OwnStep ==
    ASSUME Typed, SagaInv, NEW r \in Requests, Step(r), Chosen(r) => Alone(r)
    PROVE  Built(r)' /\ Undone(r)'
<1>0. /\ p \in [Requests -> Calls] /\ users \in [Requests -> {"none", "live", "deleted"}]
      /\ spoilt \in [Requests -> {"no", "create", "undo"}]
      /\ dbs \in [Ids -> {"none", "empty", "full"}]
      /\ Chosen(r) => p[r].id \in Ids /\ Built(r) /\ Undone(r)
      /\ p[r].pc \in {"checkRole", "insertKey"} => p[r].made
  BY DEF Typed, Calls, Chosen, SagaInv
<1>1. ASSUME NEW d, Goto(r, d) PROVE p'[r].pc = d /\ p'[r].id = p[r].id
  BY <1>0, <1>1 DEF Calls, Goto
<1>2. ASSUME NEW d \in Undoing \cup {"failed"}, Goto(r, d),
             spoilt' \in {[spoilt EXCEPT ![r] = "create"], [spoilt EXCEPT ![r] = "undo"]}
      PROVE  Built(r)' /\ Undone(r)'
  <2>1. p'[r].pc = d /\ spoilt'[r] # "no"
    BY <1>0, <1>1, <1>2
  <2> QED
    BY <2>1, NothingClaimed
<1>3. ASSUME CreateThrows(r) PROVE Built(r)' /\ Undone(r)'
  BY <1>2, <1>3, CatchPoint DEF CreateThrows, Undoing
<1>4. ASSUME UndoThrows(r) PROVE Built(r)' /\ Undone(r)'
  BY <1>2, <1>4 DEF UndoThrows, Undoing
<1>5. ASSUME KeyThrows(r), p[r].pc \in {"checkRole", "insertKey"}, Live \subseteq Live'
      PROVE  Built(r)' /\ Undone(r)'
  <2>1. p'[r].pc = "undoFind" /\ p'[r].id = p[r].id
    BY <1>0, <1>1, <1>5 DEF KeyThrows, CatchTarget
  <2>2. Row("workspaces", r) \in Live'
    BY <1>0, <1>5, Points, ProgressPoints DEF Built, Chosen
  <2> QED
    BY <2>1, <2>2, ProgressPoints DEF Built, Undone, Row
<1>6. ASSUME NEW t \in Tables, Chosen(r), Insert(<<t, p[r].id, r>>)
      PROVE  Live \subseteq Live' /\ Row(t, r) \in Live'
  BY <1>6 DEF Insert, Live, Row
<1>7. UNCHANGED <<rows, doomed>> => Live' = Live
  BY DEF Live
<1> USE Points, ProgressPoints DEF Chosen
<1>8. CASE PreCheck(r) \/ UseExplicitWorkspaceId(r)
  BY <1>1, <1>8, NothingClaimed DEF PreCheck, UseExplicitWorkspaceId
<1>9. CASE FindFreeWorkspaceId(r)
  <2>1. p'[r].pc \in {"noSlug", "findSlug", "mailCheck"}
    BY <1>0, <1>9 DEF FindFreeWorkspaceId, Calls
  <2> QED
    BY <2>1, NothingClaimed
<1>10. CASE ReadFails(r) \/ CheckUser(r)
  BY <1>1, <1>10, NothingClaimed DEF ReadFails, CheckUser
<1>11. CASE InsertUser(r)
  <2>1. CASE Goto(r, "error")
    BY <1>1, <2>1, NothingClaimed
  <2>2. CASE users' = [users EXCEPT ![r] = "live"] /\ Goto(r, "createDb")
    BY <1>0, <1>1, <2>2 DEF Built, Undone
  <2> QED
    BY <1>11, <2>1, <2>2 DEF InsertUser
<1>12. CASE CreateDatabase(r)
  <2>1. CASE Goto(r, "createTables")
    BY <1>0, <1>1, <1>7, <1>12, <2>1, Forward DEF CreateDatabase
  <2> QED
    BY <1>3, <1>12, <2>1 DEF CreateDatabase
<1>13. CASE CreateTables(r)
  <2>1. CASE Goto(r, "insertWorkspace") /\ dbs' = [dbs EXCEPT ![p[r].id] = "full"]
    <3>1. dbs'[p[r].id] = "full"
      BY <1>0, <1>13, <2>1 DEF CreateTables
    <3> QED
      BY <1>0, <1>1, <1>7, <1>13, <2>1, <3>1, Forward DEF CreateTables
  <2> QED
    BY <1>3, <1>13, <2>1 DEF CreateTables
<1>14. CASE InsertWorkspace(r)
  <2>1. CASE Insert(<<"workspaces", p[r].id, r>>) /\ Goto(r, "insertMember")
    <3>1. Live \subseteq Live' /\ Row("workspaces", r) \in Live'
      BY <1>6, <1>14, <2>1 DEF InsertWorkspace, Tables
    <3> QED
      BY <1>0, <1>1, <1>14, <2>1, <3>1, Forward DEF InsertWorkspace
  <2> QED
    BY <1>3, <1>14, <2>1 DEF InsertWorkspace, InsertOr
<1>15. CASE InsertMember(r)
  <2>1. CASE Insert(<<"members", p[r].id, r>>) /\ Goto(r, "insertTask")
    <3>1. Live \subseteq Live' /\ Row("members", r) \in Live'
      BY <1>6, <1>15, <2>1 DEF InsertMember, Tables
    <3> QED
      BY <1>0, <1>1, <1>15, <2>1, <3>1, Forward DEF InsertMember
  <2> QED
    BY <1>3, <1>15, <2>1 DEF InsertMember, InsertOr
<1>16. CASE InsertTask(r)
  <2>1. CASE Insert(<<"backfill_tasks", p[r].id, r>>) /\ p' = Created(r)
    <3>1. Live \subseteq Live' /\ Row("backfill_tasks", r) \in Live'
      BY <1>6, <1>16, <2>1 DEF InsertTask, Tables
    <3>2. p'[r].pc = "checkRole" /\ p'[r].id = p[r].id
      BY <1>0, <2>1 DEF Created, Calls
    <3> QED
      BY <1>0, <1>16, <3>1, <3>2, Forward DEF InsertTask
  <2> QED
    BY <1>3, <1>16, <2>1 DEF InsertTask
<1>17. CASE ValidateRole(r)
  <2>1. CASE Goto(r, "insertKey")
    BY <1>0, <1>1, <1>7, <1>17, <2>1, Forward DEF ValidateRole
  <2> QED
    BY <1>5, <1>7, <1>17, <2>1 DEF ValidateRole
<1>18. CASE InsertKey(r)
  <2>1. CASE Insert(<<"api_keys", p[r].id, r>>)
    <3>1. Live \subseteq Live' /\ Row("api_keys", r) \in Live'
      BY <1>6, <1>18, <2>1 DEF InsertKey, Tables
    <3>2. CASE Goto(r, "phones")
      BY <1>0, <1>1, <1>18, <3>1, <3>2, Forward DEF InsertKey
    <3> QED
      BY <1>5, <1>18, <3>1, <3>2 DEF InsertKey, InsertOr
  <2> QED
    BY <1>5, <1>7, <1>18, <2>1 DEF InsertKey, InsertOr
<1>19. CASE ForwardPhoneNumbers(r)
  BY <1>0, <1>1, <1>7, <1>19, Forward DEF ForwardPhoneNumbers
<1>20. CASE ReadForTemplate(r)
  BY <1>0, <1>1, <1>7, <1>20, Forward DEF ReadForTemplate
<1>21. CASE WriteTemplate(r)
  <2>1. Live \subseteq Live'
    BY <1>6, <1>7, <1>21 DEF WriteTemplate, InsertOr, Tables
  <2>2. Goto(r, "token") /\ UNCHANGED <<users, dbs>> /\ p[r].pc = "templateWrite"
    BY <1>21 DEF WriteTemplate, InsertOr
  <2> QED
    BY <1>0, <1>1, <2>1, <2>2, Forward
<1>22. CASE CreatePasswordReset(r)
  <2>1. CASE Goto(r, "error")
    BY <1>1, <2>1, NothingClaimed
  <2>2. CASE Goto(r, "done")
    BY <1>0, <1>1, <1>7, <1>22, <2>2, Forward DEF CreatePasswordReset
  <2> QED
    BY <1>22, <2>1, <2>2 DEF CreatePasswordReset
<1>23. CASE FindForDelete(r)
  <2>1. CASE Goto(r, "undoMembers")
    BY <1>1, <2>1, NothingClaimed
  <2>2. CASE ~WorkspaceExists(p[r].id) /\ Goto(r, "undoUser") /\ UNCHANGED spoilt
    <3>1. Row("workspaces", r) \notin Live
      BY <2>2 DEF WorkspaceExists, Live, Row
    <3>2. spoilt[r] # "no"
      BY <1>0, <1>23, <3>1 DEF FindForDelete, Built
    <3> QED
      BY <1>1, <2>2, <3>2, NothingClaimed DEF Undoing
  <2> QED
    BY <1>4, <1>23, <2>1, <2>2 DEF FindForDelete
<1>24. CASE DeleteRows(r)
  <2>1. PICK d \in Deletions :
          /\ p[r].pc = d[1]
          /\ \/ /\ doomed' = doomed \cup {x \in rows : x[1] = d[2] /\ x[2] = p[r].id}
                /\ Goto(r, d[3]) /\ UNCHANGED <<spoilt, faults>>
             \/ UndoThrows(r)
    BY <1>24 DEF DeleteRows
  <2>2. CASE /\ doomed' = doomed \cup {x \in rows : x[1] = d[2] /\ x[2] = p[r].id}
             /\ Goto(r, d[3]) /\ UNCHANGED <<spoilt, faults>>
    <3>1. Live' \subseteq Live /\ Row(d[2], r) \notin Live' /\ dbs' = dbs
      <4>1. Live' = {x \in Live : ~(x[1] = d[2] /\ x[2] = p[r].id)} /\ dbs' = dbs
        BY <1>24, <2>2 DEF DeleteRows, Live
      <4> QED
        BY <4>1 DEF Row
    <3>2. p'[r].pc = d[3] /\ p'[r].id = p[r].id
      BY <1>1, <2>2
    <3>3. \A q \in Requests \ {r} : p'[q].id = p[q].id
      BY <1>0, <2>2 DEF Goto
    <3>4. Undone(r) /\ UNCHANGED spoilt
      BY <1>0, <2>1, <2>2 DEF Deletions
    <3>5. CASE d = <<"undoMembers", "members", "undoKeys">>
      BY <2>1, <3>1, <3>2, <3>4, <3>5 DEF Built, Undone, Row
    <3>6. CASE d = <<"undoKeys", "api_keys", "undoTasks">>
      BY <2>1, <3>1, <3>2, <3>4, <3>6 DEF Built, Undone, Row
    <3>7. CASE d = <<"undoTasks", "backfill_tasks", "undoDb">>
      BY <2>1, <3>1, <3>2, <3>4, <3>7 DEF Built, Undone, Row
    <3>8. CASE d = <<"undoRow", "workspaces", "undoUser">>
      BY <2>1, <3>1, <3>2, <3>3, <3>4, <3>8 DEF Built, Undone, Row
    <3> QED
      BY <3>5, <3>6, <3>7, <3>8 DEF Deletions
  <2> QED
    BY <1>4, <2>1, <2>2
<1>25. CASE DropDatabase(r)
  <2>1. CASE dbs' = [dbs EXCEPT ![p[r].id] = "none"] /\ Goto(r, "undoRow") /\ UNCHANGED spoilt
    <3>1. /\ dbs'[p[r].id] = "none" /\ p'[r].pc = "undoRow" /\ p'[r].id = p[r].id
          /\ Live' = Live /\ Undone(r) /\ p[r].pc = "undoDb"
      BY <1>0, <1>1, <1>7, <1>25, <2>1 DEF DropDatabase
    <3> QED
      BY <2>1, <3>1 DEF Built, Undone, Row
  <2> QED
    BY <1>4, <1>25, <2>1 DEF DropDatabase
<1>26. CASE DeleteUser(r)
  <2>1. CASE users' = [users EXCEPT ![r] = "deleted"] /\ Goto(r, "failed") /\ UNCHANGED spoilt
    <3>1. /\ users'[r] = "deleted" /\ p'[r].pc = "failed" /\ p'[r].id = p[r].id
          /\ Live' = Live /\ dbs' = dbs /\ Undone(r) /\ p[r].pc = "undoUser"
      BY <1>0, <1>1, <1>7, <1>26, <2>1 DEF DeleteUser
    <3>2. \A q \in Requests \ {r} : p'[q].id = p[q].id
      BY <1>0, <2>1 DEF Goto
    <3> QED
      BY <2>1, <3>1, <3>2 DEF Built, Undone, Row
  <2> QED
    BY <1>2, <1>26, <2>1 DEF DeleteUser
<1> QED
  BY <1>8, <1>9, <1>10, <1>11, <1>12, <1>13, <1>14, <1>15, <1>16, <1>17, <1>18, <1>19, <1>20,
     <1>21, <1>22, <1>23, <1>24, <1>25, <1>26 DEF Step

(* A call that chooses an identifier does not choose that of a tenant that *)
(* was handed out: it would have found the row.                            *)
LEMMA UntouchedStep ==
    ASSUME Typed, MeetInv, SagaInv, NEW r \in Requests, Shape(r),
           NEW s \in Requests, Alone(s), p'[s].pc = "done"
    PROVE  Untouched(s)'
<1>0. \A q \in Requests \ {r} : p'[q] = p[q]
  BY DEF Shape, Typed
<1>1. PICK v \in Calls :
        /\ p' = [p EXCEPT ![r] = v]
        /\ p[r].id # None => v.id = p[r].id
        /\ v.pc \in ChosenPCs => Chosen(r) \/ ~WorkspaceExists(v.id)
        /\ v.pc = "done" => p[r].pc = "token"
  BY DEF Shape
<1>2. p'[r] = v
  BY <1>1 DEF Typed
<1>3. Chosen(r) => p[r].id # None
  BY ProvisioningConstants DEF Typed, Calls, Chosen, Ids
<1>4. CASE s = r
  <2>1. Chosen(r) /\ p'[r].id = p[r].id
    BY <1>1, <1>2, <1>3, <1>4, Points DEF Chosen
  <2>2. ASSUME NEW q \in Requests \ {r}, Chosen(q)' PROVE p'[q].id # p'[r].id
    BY <1>0, <1>4, <2>1, <2>2, NoIntruder DEF Chosen
  <2> QED
    BY <1>4, <2>2 DEF Untouched
<1>5. CASE s # r
  <2>1. p'[s] = p[s] /\ Built(s) /\ Untouched(s) /\ p[s].pc = "done"
    BY <1>0, <1>5 DEF SagaInv
  <2>2. ASSUME NEW q \in Requests \ {s}, Chosen(q)' PROVE p'[q].id # p'[s].id
    <3>1. CASE q # r
      BY <1>0, <2>1, <2>2, <3>1 DEF Untouched, Chosen
    <3>2. CASE q = r /\ Chosen(r)
      BY <1>1, <1>2, <1>3, <2>1, <3>2 DEF Untouched
    <3>3. CASE q = r /\ ~Chosen(r)
      <4>1. ~WorkspaceExists(v.id)
        BY <1>1, <1>2, <2>2, <3>3 DEF Chosen
      <4>2. <<"workspaces", p[s].id, s>> \in rows
        BY <2>1, ProgressPoints DEF Built, Row, Live
      <4> QED
        BY <1>2, <2>1, <3>3, <4>1, <4>2 DEF WorkspaceExists
    <3> QED
      BY <3>1, <3>2, <3>3
  <2> QED
    BY <2>2 DEF Untouched
<1> QED
  BY <1>4, <1>5

LEMMA SagaStep == ASSUME Typed, MeetInv, SagaInv, [Next]_vars PROVE SagaInv'
<1>0. ASSUME NEW q \in Requests, Chosen(q) \/ p[q].pc \in {"done", "failed"}, Alone(q)'
      PROVE  Alone(q)
  <2>1. p[q].id # None
    BY <1>0, ProvisioningConstants DEF Typed, Calls, Chosen, Ids
  <2> QED
    BY <1>0, <2>1, AloneEarlier
<1>1. ASSUME NEW q \in Requests, p'[q] = p[q], ~(Chosen(q) \/ p[q].pc \in {"done", "failed"})
      PROVE  Built(q)' /\ Undone(q)' /\ Untouched(q)'
  BY <1>1, Points, ProgressPoints DEF Chosen, Built, Undone, Untouched
<1>2. ASSUME NEW r \in Requests, Begin(r) PROVE SagaInv'
  <2>1. /\ p'[r].pc = "precheck" /\ UNCHANGED <<users, spoilt, dbs>> /\ Live' = Live
        /\ \A q \in Requests \ {r} : p'[q] = p[q]
    BY <1>2, BeginShape DEF Typed
  <2>2. ASSUME NEW s \in Requests, Alone(s)' PROVE Built(s)' /\ Undone(s)' /\ Untouched(s)'
    <3>1. CASE s = r
      BY <2>1, <3>1, NothingClaimed DEF Untouched
    <3>2. CASE s # r /\ (Chosen(s) \/ p[s].pc \in {"done", "failed"})
      <4>1. Built(s) /\ Undone(s) /\ Untouched(s)
        BY <1>0, <2>2, <3>2 DEF SagaInv
      <4>2. Built(s)' /\ Undone(s)'
        BY <2>1, <3>2, <4>1, CallKeeps
      <4>3. Untouched(s)'
        BY <2>1, <3>2, <4>1, Points DEF Untouched, Chosen
      <4> QED
        BY <4>2, <4>3
    <3>3. CASE s # r /\ ~(Chosen(s) \/ p[s].pc \in {"done", "failed"})
      BY <1>1, <2>1, <3>3
    <3> QED
      BY <3>1, <3>2, <3>3
  <2> QED
    BY <2>2 DEF SagaInv
<1>3. ASSUME NEW r \in Requests, Step(r) PROVE SagaInv'
  <2>1. Shape(r) /\ \A q \in Requests \ {r} : p'[q] = p[q]
    BY <1>3, StepShape DEF Shape, Typed
  <2>2. ASSUME NEW s \in Requests, Alone(s)' PROVE Built(s)' /\ Undone(s)' /\ Untouched(s)'
    <3>1. CASE s = r
      <4>1. Chosen(r) => Alone(r)
        BY <1>0, <2>2, <3>1
      <4>2. Built(r)' /\ Undone(r)'
        BY <1>3, <4>1, OwnStep
      <4>3. p'[r].pc = "done" => Chosen(r)
        BY <2>1, Points DEF Shape, Typed, Chosen
      <4>4. Untouched(r)'
        BY <2>1, <4>1, <4>3, UntouchedStep DEF Untouched
      <4> QED
        BY <3>1, <4>2, <4>4
    <3>2. CASE s # r /\ (Chosen(s) \/ p[s].pc \in {"done", "failed"})
      <4>1. Alone(s)
        BY <1>0, <2>2, <3>2
      <4>2. Built(s)' /\ Undone(s)'
        BY <2>1, <3>2, <4>1, OthersKeep
      <4>3. Untouched(s)'
        BY <2>1, <4>1, UntouchedStep DEF Untouched
      <4> QED
        BY <4>2, <4>3
    <3>3. CASE s # r /\ ~(Chosen(s) \/ p[s].pc \in {"done", "failed"})
      BY <1>1, <2>1, <3>3
    <3> QED
      BY <3>1, <3>2, <3>3
  <2> QED
    BY <2>2 DEF SagaInv
<1>4. CASE Mutate \/ UNCHANGED vars
  <2>1. UNCHANGED <<p, users, spoilt, dbs, met>> /\ Live' = Live
    BY <1>4, MutateKeepsLive DEF Mutate, vars, Live
  <2>2. ASSUME NEW s \in Requests, Alone(s)' PROVE Built(s)' /\ Undone(s)' /\ Untouched(s)'
    <3>1. Alone(s)
      BY <2>1, <2>2 DEF Alone, Met
    <3>2. Built(s) /\ Undone(s) /\ Untouched(s)
      BY <3>1 DEF SagaInv
    <3>3. Built(s)' /\ Undone(s)'
      BY <2>1, <3>2, CallKeeps
    <3>4. Untouched(s)'
      BY <2>1, <3>2 DEF Untouched, Chosen
    <3> QED
      BY <3>3, <3>4
  <2> QED
    BY <2>2 DEF SagaInv
<1> QED
  BY <1>2, <1>3, <1>4 DEF Next

LEMMA SagaHolds == Spec => [](Typed /\ SagaInv)
<1>1. Init => MeetInv /\ SagaInv
  BY ProgressPoints DEF Init, MeetInv, SagaInv, Running, Built, Undone, Untouched
<1> QED
  BY <1>1, TypeCorrect, MeetStep, SagaStep, PTL DEF Spec

(* A tenant that was handed out stays whole, whatever later calls on the   *)
(* same address, name or identifier do, fail and unwind: they find its row *)
(* and choose another identifier (findFreeWorkspaceId, the check of an     *)
(* explicit workspace id), so that no compensation ever names it.          *)
THEOREM ProvisionedStaysWhole == Spec => []ProvisionedIsWhole
<1>1. SagaInv => ProvisionedIsWhole
  BY ProgressPoints DEF SagaInv, Built, ProvisionedIsWhole, Tables, Row, Live
<1> QED
  BY <1>1, SagaHolds, PTL

(* A call that answers "rolled back" has left no account, no row that will *)
(* last and no database, unless create() failed half way, a statement of   *)
(* the compensation failed or a concurrent call had the same identifier    *)
(* (the catch of provisionTenant, WorkspacesService.delete).               *)
THEOREM RolledBackLeavesNothing == Spec => []RolledBackIsClean
<1>1. ASSUME Typed, SagaInv PROVE RolledBackIsClean
  <2>1. ASSUME NEW r \in Requests, p[r].pc = "failed", spoilt[r] = "no", Alone(r),
               NEW x \in Live, x[3] = r
        PROVE  FALSE
    <3>1. PICK t \in Tables, q \in Requests : x = Row(t, q)
      BY <1>1 DEF Typed
    <3>2. x = Row(t, r)
      BY <2>1, <3>1 DEF Row
    <3>3. Undone(r)
      BY <1>1, <2>1 DEF SagaInv
    <3> QED
      BY <2>1, <3>2, <3>3 DEF Undone, Tables
  <2>2. ASSUME NEW r \in Requests, p[r].pc = "failed", spoilt[r] = "no", Alone(r)
        PROVE  /\ users[r] # "live"
               /\ dbs[p[r].id] = "none" \/ \E q \in Requests \ {r} : p[q].id = p[r].id
    BY <1>1, <2>2 DEF SagaInv, Undone
  <2> QED
    BY <2>1, <2>2 DEF RolledBackIsClean, Live
<1> QED
  BY <1>1, SagaHolds, PTL

=============================================================================
