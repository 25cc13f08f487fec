------------------------- MODULE TenantProvisioning -------------------------
(***************************************************************************)
(* AdminPlatformService.provisionTenant: the saga that creates the account *)
(* of an owner, a workspace, its database and an API key, and unwinds them *)
(* by hand when a step fails, ClickHouse having no transactions.           *)
(*                                                                         *)
(* Every statement sent to ClickHouse is a step.  It may fail, before or   *)
(* after it took effect.  ALTER TABLE ... DELETE is asynchronous: the rows *)
(* it names stay readable until the mutation runs, and rows inserted after *)
(* it are spared.                                                          *)
(***************************************************************************)
EXTENDS Naturals, FiniteSets

CONSTANTS
    Requests,     \* calls of tenants.provision; a retry is another call
    Emails,
    Names,        \* business names, each with a slug of its own
    MaxAttempts,  \* MAX_SLUG_COLLISION_ATTEMPTS
    MaxFaults,    \* bound: statements that fail
    None

ASSUME ProvisioningConstants ==
    /\ MaxAttempts \in Nat \ {0} /\ MaxFaults \in Nat
    /\ None \notin Names \X (1..MaxAttempts)

VARIABLES
    p,       \* the calls: [pc, email, name, id, tries, made]
    users,   \* the account each call created: "none", "live" or "deleted"
    rows,    \* rows <<table, workspace id, call that inserted it>>
    doomed,  \* the rows of rows that an accepted mutation is going to delete
    dbs,     \* workspace databases: "none", "empty" or "full"
    met,     \* history: pairs of calls that ran at the same time
    spoilt,  \* history: where a call failed beyond repair: "no", "create" or "undo"
    faults   \* statements that failed

vars == <<p, users, rows, doomed, dbs, met, spoilt, faults>>

Tables == {"workspaces", "members", "api_keys", "backfill_tasks"}

(* The slug of a name and its `_2`, `_3`... variants. *)
Ids == Names \X (1..MaxAttempts)

Ended == {"done", "conflict", "noSlug", "failed", "error"}

Running(r) == p[r].pc \notin Ended \cup {"idle"}

Met(r, q) == {r, q} \in met

Init ==
    /\ p = [r \in Requests |-> [pc |-> "idle", email |-> None, name |-> None,
                                id |-> None, tries |-> 0, made |-> FALSE]]
    /\ users = [r \in Requests |-> "none"]
    /\ rows = {} /\ doomed = {}
    /\ dbs = [id \in Ids |-> "none"]
    /\ met = {}
    /\ spoilt = [r \in Requests |-> "no"]
    /\ faults = 0

-----------------------------------------------------------------------------
(* Reads.                                                                  *)

(* Mutant: the address is never found. *)
FindByEmailNever(m) == FALSE

(* A live account has the address. *)
FindByEmail(m) == \E r \in Requests : p[r].email = m /\ users[r] = "live"

(* The table has a row of the workspace, doomed or not. *)
WorkspaceExists(id) == \E r \in Requests : <<"workspaces", id, r>> \in rows

-----------------------------------------------------------------------------
(* The ways a statement ends.                                              *)

Goto(r, pc) == p' = [p EXCEPT ![r].pc = pc]

Fault == faults < MaxFaults /\ faults' = faults + 1

(* A row is inserted; a doomed row of the same key does not take it along. *)
Insert(row) == rows' = rows \cup {row} /\ doomed' = doomed \ {row}

(* insertSystem(): the row is in, or the call throws with the row in or not. *)
InsertOr(r, table, next, onError) ==
    \/ Insert(<<table, p[r].id, r>>) /\ Goto(r, next) /\ UNCHANGED <<faults, spoilt>>
    \/ Fault /\ onError /\ Insert(<<table, p[r].id, r>>)
    \/ Fault /\ onError /\ UNCHANGED <<rows, doomed>>

(* The catch of steps 4 and 5: unwind what is known to have been created. *)
CatchTarget(r) == IF p[r].made THEN "undoFind" ELSE "undoUser"

(* Workspace creation throws: nothing of it is undone, as made is not set. *)
CreateThrows(r) ==
    /\ Goto(r, CatchTarget(r))
    /\ spoilt' = [spoilt EXCEPT ![r] = "create"]

KeyThrows(r) == Goto(r, CatchTarget(r)) /\ UNCHANGED spoilt

-----------------------------------------------------------------------------
(* Steps 1 to 3: address, identifier, account.                             *)

(* A call arrives, with an identifier of its own or with a name. *)
Begin(r) ==
    /\ p[r].pc = "idle"
    /\ \E m \in Emails, n \in Names, id \in Ids \cup {None} :
          p' = [p EXCEPT ![r] = [pc |-> "precheck", email |-> m, name |-> n,
                                 id |-> id, tries |-> 0, made |-> FALSE]]
    /\ met' = met \cup {{r, q} : q \in {x \in Requests : Running(x)}}
    /\ UNCHANGED <<users, rows, doomed, dbs, spoilt, faults>>

PreCheck(r) ==
    /\ p[r].pc = "precheck"
    /\ Goto(r, CASE FindByEmail(p[r].email) -> "conflict"
                 [] p[r].id = None          -> "findSlug"
                 [] OTHER                   -> "explicit")
    /\ UNCHANGED <<users, rows, doomed, dbs, met, spoilt, faults>>

(* Mutant: an identifier of the caller's own is not looked up. *)
UseExplicitWorkspaceIdUnchecked(r) ==
    /\ p[r].pc = "explicit"
    /\ Goto(r, "mailCheck")
    /\ UNCHANGED <<users, rows, doomed, dbs, met, spoilt, faults>>

(* An identifier given by the caller is refused when it is taken. *)
UseExplicitWorkspaceId(r) ==
    /\ p[r].pc = "explicit"
    /\ Goto(r, IF WorkspaceExists(p[r].id) THEN "conflict" ELSE "mailCheck")
    /\ UNCHANGED <<users, rows, doomed, dbs, met, spoilt, faults>>

(* Mutant: the loop over the suffixes does not advance. *)
NextTryStuck(i) == i

NextTry(i) == i + 1

(* One turn of the loop of findFreeWorkspaceId(). *)
FindFreeWorkspaceId(r) ==
    /\ p[r].pc = "findSlug"
    /\ LET candidate == <<p[r].name, p[r].tries + 1>>
       IN  p' = IF p[r].tries = MaxAttempts
                THEN [p EXCEPT ![r].pc = "noSlug"]
                ELSE IF WorkspaceExists(candidate)
                THEN [p EXCEPT ![r].tries = NextTry(@)]
                ELSE [p EXCEPT ![r].pc = "mailCheck", ![r].id = candidate]
    /\ UNCHANGED <<users, rows, doomed, dbs, met, spoilt, faults>>

(* A read of steps 1 to 3 fails: an error, with nothing created yet. *)
ReadFails(r) ==
    /\ p[r].pc \in {"precheck", "explicit", "findSlug", "mailCheck"}
    /\ Fault /\ Goto(r, "error")
    /\ UNCHANGED <<users, rows, doomed, dbs, met, spoilt>>

(* UsersService.create(): the address is checked again... *)
CheckUser(r) ==
    /\ p[r].pc = "mailCheck"
    /\ Goto(r, IF FindByEmail(p[r].email) THEN "conflict" ELSE "insertUser")
    /\ UNCHANGED <<users, rows, doomed, dbs, met, spoilt, faults>>

(* ... and, the password hashed, the account is inserted. *)
InsertUser(r) ==
    /\ p[r].pc = "insertUser"
    /\ \/ /\ users' = [users EXCEPT ![r] = "live"]
          /\ Goto(r, "createDb")
          /\ UNCHANGED <<spoilt, faults>>
       \/ /\ Fault /\ Goto(r, "error")
          /\ users' \in {users, [users EXCEPT ![r] = "live"]}
          /\ spoilt' = [spoilt EXCEPT ![r] = "create"]
    /\ UNCHANGED <<rows, doomed, dbs, met>>

-----------------------------------------------------------------------------
(* Step 4: WorkspacesService.create().                                     *)

(* CREATE DATABASE IF NOT EXISTS. *)
CreateDatabase(r) ==
    /\ p[r].pc = "createDb"
    /\ LET made == [dbs EXCEPT ![p[r].id] = IF @ = "none" THEN "empty" ELSE @]
       IN  \/ dbs' = made /\ Goto(r, "createTables") /\ UNCHANGED <<spoilt, faults>>
           \/ Fault /\ CreateThrows(r) /\ dbs' \in {dbs, made}
    /\ UNCHANGED <<users, rows, doomed, met>>

(* CREATE TABLE IF NOT EXISTS, for every table; the database may be gone. *)
CreateTables(r) ==
    /\ p[r].pc = "createTables"
    /\ LET made == [dbs EXCEPT ![p[r].id] = "full"]
       IN  \/ /\ dbs[p[r].id] # "none" /\ dbs' = made
              /\ Goto(r, "insertWorkspace") /\ UNCHANGED <<spoilt, faults>>
           \/ /\ dbs[p[r].id] = "none" /\ CreateThrows(r) /\ UNCHANGED <<dbs, faults>>
           \/ /\ dbs[p[r].id] # "none" /\ Fault /\ CreateThrows(r) /\ dbs' \in {dbs, made}
    /\ UNCHANGED <<users, rows, doomed, met>>

InsertWorkspace(r) ==
    /\ p[r].pc = "insertWorkspace"
    /\ InsertOr(r, "workspaces", "insertMember", CreateThrows(r))
    /\ UNCHANGED <<users, dbs, met>>

InsertMember(r) ==
    /\ p[r].pc = "insertMember"
    /\ InsertOr(r, "members", "insertTask", CreateThrows(r))
    /\ UNCHANGED <<users, dbs, met>>

(* Mutant: workspaceCreated is not set. *)
CreatedUnmarked(r) == [p EXCEPT ![r].pc = "checkRole"]

(* The call of create() has returned: workspaceCreated = true. *)
Created(r) == [p EXCEPT ![r].pc = "checkRole", ![r].made = TRUE]

(* The completed backfill task of the default filters. *)
InsertTask(r) ==
    /\ p[r].pc = "insertTask"
    /\ LET row == <<"backfill_tasks", p[r].id, r>>
       IN  \/ Insert(row) /\ p' = Created(r) /\ UNCHANGED <<spoilt, faults>>
           \/ Fault /\ CreateThrows(r) /\ Insert(row)
           \/ Fault /\ CreateThrows(r) /\ UNCHANGED <<rows, doomed>>
    /\ UNCHANGED <<users, dbs, met>>

-----------------------------------------------------------------------------
(* Step 5: ApiKeysService.create().                                        *)

(* validateRoleForUser(): the new owner must be a member of the workspace. *)
ValidateRole(r) ==
    /\ p[r].pc = "checkRole"
    /\ \/ /\ <<"members", p[r].id, r>> \in rows
          /\ Goto(r, "insertKey") /\ UNCHANGED <<spoilt, faults>>
       \/ <<"members", p[r].id, r>> \notin rows /\ KeyThrows(r) /\ UNCHANGED faults
       \/ Fault /\ KeyThrows(r)
    /\ UNCHANGED <<users, rows, doomed, dbs, met>>

InsertKey(r) ==
    /\ p[r].pc = "insertKey"
    /\ InsertOr(r, "api_keys", "phones", KeyThrows(r))
    /\ UNCHANGED <<users, dbs, met>>

-----------------------------------------------------------------------------
(* Steps 6, 6b and 7: none of them unwinds anything.                       *)

(* The numbers go to the bridge one by one, under a timeout; a number that *)
(* fails is reported and skipped.  Then the template, if one was asked for. *)
ForwardPhoneNumbers(r) ==
    /\ p[r].pc = "phones"
    /\ \E next \in {"template", "token"} : Goto(r, next)
    /\ UNCHANGED <<users, rows, doomed, dbs, met, spoilt, faults>>

(* applyProvisioningTemplate(): update() reads the row... *)
ReadForTemplate(r) ==
    /\ p[r].pc = "template"
    /\ \/ /\ Goto(r, IF WorkspaceExists(p[r].id) THEN "templateWrite" ELSE "token")
          /\ UNCHANGED faults
       \/ Fault /\ Goto(r, "token")
    /\ UNCHANGED <<users, rows, doomed, dbs, met, spoilt>>

(* ... and inserts it again with the preset; a failure is logged. *)
WriteTemplate(r) ==
    /\ p[r].pc = "templateWrite"
    /\ InsertOr(r, "workspaces", "token", Goto(r, "token") /\ UNCHANGED spoilt)
    /\ UNCHANGED <<users, dbs, met>>

(* The reset token is inserted outside of any try: a failure is a 500 for a *)
(* tenant that lives on.  The mail that follows is sent or not.            *)
CreatePasswordReset(r) ==
    /\ p[r].pc = "token"
    /\ \/ Goto(r, "done") /\ UNCHANGED faults
       \/ Fault /\ Goto(r, "error")
    /\ UNCHANGED <<users, rows, doomed, dbs, met, spoilt>>

-----------------------------------------------------------------------------
(* The compensation: deleteWorkspaceSilently(), softDeleteUserSilently().  *)

(* A statement of the compensation throws; what is left of delete() is skipped. *)
UndoThrows(r) ==
    /\ Fault
    /\ Goto(r, "undoUser")
    /\ spoilt' = [spoilt EXCEPT ![r] = "undo"]

(* delete() looks the workspace up and throws when it is not there. *)
FindForDelete(r) ==
    /\ p[r].pc = "undoFind"
    /\ \/ /\ Goto(r, IF WorkspaceExists(p[r].id) THEN "undoMembers" ELSE "undoUser")
          /\ UNCHANGED <<spoilt, faults>>
       \/ UndoThrows(r)
    /\ UNCHANGED <<users, rows, doomed, dbs, met>>

(* The tables of delete(), in its order.  Invitations, which a tenant that  *)
(* was never handed out has none of, are left out.                         *)
Deletions == {<<"undoMembers", "members", "undoKeys">>,
              <<"undoKeys", "api_keys", "undoTasks">>,
              <<"undoTasks", "backfill_tasks", "undoDb">>,
              <<"undoRow", "workspaces", "undoUser">>}

(* ALTER TABLE ... DELETE WHERE workspace_id = id: accepted, not yet run. *)
DeleteRows(r) ==
    /\ \E d \in Deletions :
          /\ p[r].pc = d[1]
          /\ LET hit == {x \in rows : x[1] = d[2] /\ x[2] = p[r].id}
             IN  \/ doomed' = doomed \cup hit /\ Goto(r, d[3]) /\ UNCHANGED <<spoilt, faults>>
                 \/ UndoThrows(r) /\ doomed' \in {doomed, doomed \cup hit}
    /\ UNCHANGED <<users, rows, dbs, met>>

DropDatabase(r) ==
    /\ p[r].pc = "undoDb"
    /\ LET dropped == [dbs EXCEPT ![p[r].id] = "none"]
       IN  \/ dbs' = dropped /\ Goto(r, "undoRow") /\ UNCHANGED <<spoilt, faults>>
           \/ UndoThrows(r) /\ dbs' \in {dbs, dropped}
    /\ UNCHANGED <<users, rows, doomed, met>>

(* UsersService.delete() writes the account again with deleted_at set; a   *)
(* failure is logged.  The caller is told that a retry is safe.            *)
DeleteUser(r) ==
    /\ p[r].pc = "undoUser"
    /\ LET deleted == [users EXCEPT ![r] = "deleted"]
       IN  \/ users' = deleted /\ Goto(r, "failed") /\ UNCHANGED <<spoilt, faults>>
           \/ /\ Fault /\ Goto(r, "failed")
              /\ users' \in {users, deleted}
              /\ spoilt' = [spoilt EXCEPT ![r] = "undo"]
    /\ UNCHANGED <<rows, doomed, dbs, met>>

(* ClickHouse runs the mutations accepted for a table. *)
Mutate ==
    /\ \E t \in Tables :
          LET gone == {x \in doomed : x[1] = t}
          IN  gone # {} /\ rows' = rows \ gone /\ doomed' = doomed \ gone
    /\ UNCHANGED <<p, users, dbs, met, spoilt, faults>>

-----------------------------------------------------------------------------

Step(r) ==
    \/ PreCheck(r) \/ UseExplicitWorkspaceId(r) \/ FindFreeWorkspaceId(r)
    \/ ReadFails(r) \/ CheckUser(r) \/ InsertUser(r)
    \/ CreateDatabase(r) \/ CreateTables(r) \/ InsertWorkspace(r) \/ InsertMember(r)
    \/ InsertTask(r) \/ ValidateRole(r) \/ InsertKey(r)
    \/ ForwardPhoneNumbers(r) \/ ReadForTemplate(r) \/ WriteTemplate(r)
    \/ CreatePasswordReset(r)
    \/ FindForDelete(r) \/ DeleteRows(r) \/ DropDatabase(r) \/ DeleteUser(r)

Next == (\E r \in Requests : Begin(r) \/ Step(r)) \/ Mutate

(* Every await is answered, by a result or by an error, and the event loop *)
(* runs what follows it; ClickHouse gets to its mutations.                 *)
Fairness == (\A r \in Requests : WF_vars(Step(r))) /\ WF_vars(Mutate)

Spec == Init /\ [][Next]_vars

FairSpec == Spec /\ Fairness

-----------------------------------------------------------------------------
(* No call that ran at the same time took the same identifier. *)
Alone(r) == \A q \in Requests \ {r} : Met(r, q) => p[q].id # p[r].id

(* A call that answers "rolled back, retry safe" leaves nothing behind - no *)
(* live account, no row that a mutation is not about to delete, no         *)
(* database - provided that create() did not fail half way, no statement   *)
(* of the compensation failed, and no concurrent call had picked the same  *)
(* identifier (the catch of provisionTenant and WorkspacesService.delete). *)
RolledBackIsClean ==
    \A r \in Requests :
        p[r].pc = "failed" /\ spoilt[r] = "no" /\ Alone(r) =>
            /\ users[r] # "live"
            /\ \A x \in rows \ doomed : x[3] # r
            /\ \/ dbs[p[r].id] = "none"
               \/ \E q \in Requests \ {r} : p[q].id = p[r].id

(* A tenant that was handed out stays whole: account, database, workspace, *)
(* ownership and key survive every later call and its compensation, unless *)
(* a call that ran at the same time had picked the same free identifier.   *)
ProvisionedIsWhole ==
    \A r \in Requests :
        p[r].pc = "done" /\ Alone(r) =>
            /\ users[r] = "live"
            /\ dbs[p[r].id] = "full"
            /\ \A t \in Tables : <<t, p[r].id, r>> \in rows \ doomed

(* Two live accounts share an address only when their calls overlapped: of *)
(* two calls in sequence the second finds the first one's account.         *)
TwinsOverlapped ==
    \A r, q \in Requests :
        r # q /\ p[r].email = p[q].email /\ users[r] = "live" /\ users[q] = "live" => Met(r, q)

(* A call ends, whatever fails on its way: the search for a slug is bounded *)
(* and the compensation swallows its own errors.                           *)
Answers == \A r \in Requests : Running(r) ~> p[r].pc \in Ended

(* What the comment of the catch says: once the compensation has run       *)
(* without a failure of its own there is no ghost of the workspace, so that *)
(* a retry on the same name reuses the slug.                               *)
LeavesNoGhost ==
    \A r \in Requests :
        p[r].pc = "failed" /\ spoilt[r] # "undo" =>
            <<"workspaces", p[r].id, r>> \notin rows \ doomed
=============================================================================
