----------------------------- MODULE Membership -----------------------------
(***************************************************************************)
(* The members of one workspace and the invitations to it: MembersService  *)
(* and InvitationsService over the tables workspace_memberships and        *)
(* invitations.                                                            *)
(*                                                                         *)
(* A membership is a row per (workspace, user) of a ReplacingMergeTree:    *)
(* writing it again adds a version, reads (FINAL) see the newest one, and a *)
(* merge drops the others at some later time.  ALTER TABLE ... DELETE is a *)
(* mutation: it dooms the versions present when it is accepted, by the id  *)
(* of the membership, and they stay readable until it runs.                *)
(***************************************************************************)
EXTENDS Naturals, Sequences, FiniteSets, SequencesExt

CONSTANTS
    Users,     \* accounts, those that may yet be created among them
    Emails,
    Address,   \* account -> the address it is for
    Founder,   \* the user who created the workspace
    Requests,  \* requests that may be under way at the same time
    Invites,   \* identifiers of invitations
    MaxOps,    \* bound: requests begun
    None

Roles == {"owner", "admin", "viewer"}

(* A row of invitations: nobody is invited as an owner. *)
Invitation == [email : Emails, role : Roles \ {"owner"},
               status : {"pending", "accepted", "revoked"}, expired : BOOLEAN]

ASSUME MembershipConstants ==
    /\ Founder \in Users /\ MaxOps \in Nat
    /\ Address \in [Users -> Emails]
    /\ None \notin Users \cup Invites \cup Invitation

VARIABLES
    mem,      \* user -> the versions [id, role, doomed] of the membership, oldest first
    inv,      \* invitation -> None or [email, role, status, expired]
    acct,     \* the accounts that were created
    q,        \* the requests: [pc, actor, user, role, held, own, inv, dirty, beaten];
              \* own: what is known of the actor, or the id of a new membership
    ops,      \* requests begun
    raced,    \* history: a write rested on a read that was out of date
    rejoined, \* history: an invitation was accepted by a member
    out,      \* history: the users who were removed or left since they last joined
              \* by an invitation that was not spent
    closed,   \* history: the invitations revoked with nobody else at work on them
    spent     \* history: the invitations recorded as accepted, likewise

vars == <<mem, inv, acct, q, ops, raced, rejoined, out, closed, spent>>

(* ROLE_HIERARCHY; the editor, between admin and viewer, is left out. *)
Rank == [owner |-> 4, admin |-> 3, viewer |-> 1]

CanModifyMember(actor, target) == Rank[actor] > Rank[target]

(* members.invite, members.manage and members.remove. *)
Managers == {"owner", "admin"}

Idle == [pc |-> "idle", actor |-> None, user |-> None, role |-> None, held |-> None,
         own |-> None, inv |-> None, dirty |-> FALSE, beaten |-> FALSE]

(* Some users have joined before; the founder is an owner, and no address has two accounts. *)
Init ==
    /\ mem \in [Users -> {<<>>} \cup {<<[id |-> 0, role |-> x, doomed |-> FALSE]>> : x \in Roles}]
    /\ mem[Founder] # <<>> /\ mem[Founder][1].role = "owner"
    /\ inv = [i \in Invites |-> None]
    /\ acct \in {a \in SUBSET Users :
                   /\ \A u \in Users : mem[u] # <<>> => u \in a
                   /\ \A u, v \in a : Address[u] = Address[v] => u = v}
    /\ q = [r \in Requests |-> Idle]
    /\ ops = 0
    /\ raced = FALSE /\ rejoined = FALSE
    /\ out = {} /\ closed = {} /\ spent = {}

-----------------------------------------------------------------------------
(* Reads of the memberships.                                               *)

GetMembership(u) == IF mem[u] = <<>> THEN None ELSE Last(mem[u])

IsMember(u) == mem[u] # <<>>

Owners == {u \in Users : IsMember(u) /\ Last(mem[u]).role = "owner"}

(* Mutant: the last owner may go. *)
LastOwnerOffByOne(n) == n < 1

LastOwner(n) == n <= 1

SomeDoomed == \E u \in Users : \E k \in DOMAIN mem[u] : mem[u][k].doomed

(* The member who acts, or a super admin, whom WorkspaceAuthGuard gives the *)
(* role of an owner.                                                       *)
Actors == Users \cup {None}

ActorRole(a) == IF a = None THEN "owner" ELSE Last(mem[a]).role

MayAct(a, roles) == a # None => IsMember(a) /\ Last(mem[a]).role \in roles

-----------------------------------------------------------------------------
(* Writes of the memberships, each by the request r.                       *)

(* The points of a request of MembersService, whose write rests on reads of memberships. *)
MemberPcs == {"roleTarget", "roleWrite", "removeTarget", "leaveSelf", "count", "delete",
              "transferOwn", "transferTarget", "transferWrite"}

(* Those of the other requests hold what is no longer true. *)
Stale(f, r) == [x \in Requests |-> IF x = r THEN Idle
                                   ELSE [f[x] EXCEPT !.dirty = f[x].pc \in MemberPcs]]

Version(id, role) == [id |-> id, role |-> role, doomed |-> FALSE]

(* Mutant: only the newest version is deleted. *)
DeleteNewest(u, id) ==
    [mem EXCEPT ![u][Len(mem[u])].doomed = mem[u][Len(mem[u])].id = id]

(* ALTER TABLE workspace_memberships DELETE WHERE id = ... *)
Delete(u, id) ==
    [mem EXCEPT ![u] = [k \in DOMAIN @ |-> [@[k] EXCEPT !.doomed = @ \/ mem[u][k].id = id]]]

(* What a request of MembersService reads while a mutation is to run. *)
Late(rec) == SomeDoomed /\ rec.pc \in MemberPcs

Begun(r, rec) ==
    /\ q[r].pc = "idle" /\ ops < MaxOps
    /\ ops' = ops + 1
    /\ q' = [q EXCEPT ![r] = [rec EXCEPT !.dirty = Late(rec)]]
    /\ UNCHANGED <<mem, inv, acct, raced, rejoined, out, closed, spent>>

(* The request goes on, or ends with an error. *)
Local(r, rec) ==
    /\ q' = [q EXCEPT ![r] = rec]
    /\ UNCHANGED <<mem, inv, acct, ops, raced, rejoined, out, closed, spent>>

-----------------------------------------------------------------------------
(* MembersService.                                                         *)

(* WorkspaceAuthGuard reads the membership of the actor. *)
BeginUpdateRole(r) ==
    \E a \in Actors, u \in Users, role \in Roles :
        /\ MayAct(a, Managers)
        /\ Begun(r, [Idle EXCEPT !.pc = "roleTarget", !.actor = a, !.user = u, !.role = role,
                                 !.own = ActorRole(a)])

MayPromote(actor, role) ==
    /\ role = "owner" => actor = "owner"
    /\ Rank[role] <= Rank[actor]
    /\ role # "owner" => Rank[role] < Rank[actor]

ReadRoleTarget(r) ==
    /\ q[r].pc = "roleTarget"
    /\ LET t  == GetMembership(q[r].user)
           ok == /\ t # None
                 /\ q[r].actor # q[r].user
                 /\ CanModifyMember(q[r].own, t.role)
                 /\ MayPromote(q[r].own, q[r].role)
       IN  Local(r, IF ok THEN [q[r] EXCEPT !.pc = "roleWrite", !.held = t, !.actor = None, !.own = None] ELSE Idle)

(* The row that was read is written back with the new role. *)
WriteRole(r) ==
    /\ q[r].pc = "roleWrite"
    /\ mem' = [mem EXCEPT ![q[r].user] = Append(@, Version(q[r].held.id, q[r].role))]
    /\ q' = Stale(q, r)
    /\ raced' = (raced \/ q[r].dirty)
    /\ UNCHANGED <<inv, acct, ops, rejoined, out, closed, spent>>

BeginRemove(r) ==
    \E a \in Actors, u \in Users :
        /\ MayAct(a, Managers)
        /\ Begun(r, [Idle EXCEPT !.pc = "removeTarget", !.actor = a, !.user = u,
                                 !.own = ActorRole(a)])

ReadRemoveTarget(r) ==
    /\ q[r].pc = "removeTarget"
    /\ LET t  == GetMembership(q[r].user)
           ok == /\ t # None
                 /\ q[r].actor # q[r].user
                 /\ IF t.role = "owner" THEN q[r].own = "owner"
                                        ELSE CanModifyMember(q[r].own, t.role)
       IN  Local(r, IF ok THEN [q[r] EXCEPT !.held = t, !.actor = None, !.own = None,
                                            !.pc = IF t.role = "owner" THEN "count" ELSE "delete"]
                          ELSE Idle)

(* The guard of members.leave asks for a membership and no more. *)
BeginLeave(r) ==
    \E u \in Users : IsMember(u) /\ Begun(r, [Idle EXCEPT !.pc = "leaveSelf", !.user = u])

ReadLeaver(r) ==
    /\ q[r].pc = "leaveSelf"
    /\ LET m == GetMembership(q[r].user)
       IN  Local(r, IF m = None THEN Idle
                    ELSE [q[r] EXCEPT !.held = m,
                                      !.pc = IF m.role = "owner" THEN "count" ELSE "delete"])

(* countOwners(), of remove() and of leave(). *)
CountOwners(r) ==
    /\ q[r].pc = "count"
    /\ Local(r, IF LastOwner(Cardinality(Owners)) THEN Idle ELSE [q[r] EXCEPT !.pc = "delete"])

(* The sessions of a removed user are revoked after this; they are not part *)
(* of this module.                                                         *)
DeleteMember(r) ==
    /\ q[r].pc = "delete"
    /\ mem' = Delete(q[r].user, q[r].held.id)
    /\ q' = Stale(q, r)
    /\ raced' = (raced \/ q[r].dirty)
    /\ out' = out \cup {q[r].user}
    /\ UNCHANGED <<inv, acct, ops, rejoined, closed, spent>>

BeginTransfer(r) ==
    \E a, u \in Users :
        IsMember(a) /\ Begun(r, [Idle EXCEPT !.pc = "transferOwn", !.actor = a, !.user = u])

ReadTransferOwner(r) ==
    /\ q[r].pc = "transferOwn"
    /\ LET m  == GetMembership(q[r].actor)
           ok == m # None /\ m.role = "owner" /\ q[r].actor # q[r].user
       IN  Local(r, IF ok THEN [q[r] EXCEPT !.pc = "transferTarget", !.own = m] ELSE Idle)

ReadTransferTarget(r) ==
    /\ q[r].pc = "transferTarget"
    /\ LET m == GetMembership(q[r].user)
       IN  Local(r, IF m = None THEN Idle ELSE [q[r] EXCEPT !.pc = "transferWrite", !.held = m])

(* Both rows go in one insert. *)
WriteTransfer(r) ==
    /\ q[r].pc = "transferWrite"
    /\ mem' = [mem EXCEPT ![q[r].actor] = Append(@, Version(q[r].own.id, "admin")),
                          ![q[r].user] = Append(@, Version(q[r].held.id, "owner"))]
    /\ q' = Stale(q, r)
    /\ raced' = (raced \/ q[r].dirty)
    /\ UNCHANGED <<inv, acct, ops, rejoined, out, closed, spent>>

-----------------------------------------------------------------------------
(* InvitationsService.                                                     *)

(* A bound: every invitation under way finds an identifier. *)
RoomToInvite ==
    Cardinality({x \in Requests : q[x].pc \in {"inviteMember", "invitePending", "inviteInsert"}})
        < Cardinality({i \in Invites : inv[i] = None})

BeginInvite(r) ==
    \E a \in Actors, e \in Emails, role \in Roles \ {"owner"} :
        /\ MayAct(a, Managers) /\ RoomToInvite
        /\ Begun(r, [Idle EXCEPT !.pc = "inviteMember", !.held = e, !.role = role])

(* findByEmail() gives one of the accounts for the address, whichever. *)
Accounts(e) == acct \cap {u \in Users : Address[u] = e}

CheckInvitee(r) ==
    /\ q[r].pc = "inviteMember"
    /\ LET known == Accounts(q[r].held)
       IN  \/ /\ \E u \in known : IsMember(u)
              /\ Local(r, Idle)
           \/ /\ known # {} => \E u \in known : ~IsMember(u)
              /\ Local(r, [q[r] EXCEPT !.pc = "invitePending"])

(* findPendingByEmail() passes over an invitation that has expired. *)
CheckPending(r) ==
    /\ q[r].pc = "invitePending"
    /\ Local(r, IF \E i \in Invites : /\ inv[i] # None /\ inv[i].email = q[r].held
                                      /\ inv[i].status = "pending" /\ ~inv[i].expired
                THEN Idle ELSE [q[r] EXCEPT !.pc = "inviteInsert"])

InsertInvitation(r) ==
    /\ q[r].pc = "inviteInsert"
    /\ \E i \in Invites :
          /\ inv[i] = None
          /\ inv' = [inv EXCEPT ![i] = [email |-> q[r].held, role |-> q[r].role,
                                        status |-> "pending", expired |-> FALSE]]
    /\ q' = [q EXCEPT ![r] = Idle]
    /\ UNCHANGED <<mem, acct, ops, raced, rejoined, out, closed, spent>>

(* Only the status is looked at: an expired invitation is pending. *)
Resendable(i) == inv[i] # None /\ inv[i].status = "pending"

BeginResend(r) ==
    \E i \in Invites : Resendable(i) /\ Begun(r, [Idle EXCEPT !.pc = "resend", !.inv = i,
                                                             !.held = inv[i]])

(* A write of an invitation beats an acceptance whose updated_at was taken before it. *)
Beat(i, r) ==
    [x \in Requests |->
        IF x = r THEN Idle
        ELSE IF q[x].pc = "accepted" /\ q[x].inv = i THEN [q[x] EXCEPT !.beaten = TRUE]
        ELSE q[x]]

(* The row that was read is written back with a new token and a new term. *)
WriteResend(r) ==
    /\ q[r].pc = "resend"
    /\ inv' = [inv EXCEPT ![q[r].inv] = [q[r].held EXCEPT !.expired = FALSE]]
    /\ q' = Beat(q[r].inv, r)
    /\ UNCHANGED <<mem, acct, ops, raced, rejoined, out, closed, spent>>

BeginRevoke(r) ==
    \E i \in Invites : /\ inv[i] # None /\ inv[i].status = "pending"
                       /\ Begun(r, [Idle EXCEPT !.pc = "revoke", !.inv = i, !.held = inv[i]])

(* Nobody else works on the invitation that the request r holds. *)
Alone(r) == \A x \in Requests \ {r} : q[x].inv # q[r].inv

WriteRevoke(r) ==
    /\ q[r].pc = "revoke"
    /\ inv' = [inv EXCEPT ![q[r].inv] = [q[r].held EXCEPT !.status = "revoked"]]
    /\ q' = Beat(q[r].inv, r)
    /\ closed' = IF Alone(r) THEN closed \cup {q[r].inv} ELSE closed
    /\ UNCHANGED <<mem, acct, ops, raced, rejoined, out, spent>>

(* Mutant: the status is not looked at, only the term. *)
BeginAcceptAnyStatus(r) ==
    \E i \in Invites : /\ inv[i] # None /\ ~inv[i].expired
                       /\ Begun(r, [Idle EXCEPT !.pc = "acceptUser", !.inv = i, !.held = inv[i],
                                                !.own = ops + 1])

(* accept() by the token last sent: pending, and not expired. *)
BeginAccept(r) ==
    \E i \in Invites : /\ inv[i] # None /\ inv[i].status = "pending" /\ ~inv[i].expired
                       /\ Begun(r, [Idle EXCEPT !.pc = "acceptUser", !.inv = i, !.held = inv[i],
                                                !.own = ops + 1])

FindUser(r) ==
    /\ q[r].pc = "acceptUser"
    /\ LET known == Accounts(q[r].held.email)
       IN  \/ \E u \in known : Local(r, [q[r] EXCEPT !.user = u, !.pc = "join"])
           \/ known = {} /\ Local(r, [q[r] EXCEPT !.pc = "createUser"])

(* create() looks for the address once more, *)
CreateUser(r) ==
    /\ q[r].pc = "createUser"
    /\ Local(r, IF Accounts(q[r].held.email) = {} THEN [q[r] EXCEPT !.pc = "insertUser"]
                ELSE Idle)

(* and inserts an account with an id of its own when the password is hashed. *)
InsertUser(r) ==
    /\ q[r].pc = "insertUser"
    /\ \E u \in Users \ acct :
          /\ Address[u] = q[r].held.email
          /\ acct' = acct \cup {u}
          /\ q' = [q EXCEPT ![r].user = u, ![r].pc = "join"]
    /\ UNCHANGED <<mem, inv, ops, raced, rejoined, out, closed, spent>>

(* A membership with an id of its own, whether or not the user has one. *)
Join(r) ==
    /\ q[r].pc = "join"
    /\ mem' = [mem EXCEPT ![q[r].user] = Append(@, Version(q[r].own, q[r].held.role))]
    /\ rejoined' = (rejoined \/ IsMember(q[r].user))
    /\ out' = IF q[r].inv \in spent THEN out ELSE out \ {q[r].user}
    /\ q' = [Stale(q, r) EXCEPT ![r] = [q[r] EXCEPT !.pc = "accepted", !.dirty = FALSE]]
    /\ UNCHANGED <<inv, acct, ops, raced, closed, spent>>

(* The row that was read is written back as accepted, with the updated_at  *)
(* of the membership: a newer version hides it.                            *)
Answer(r, row) ==
    /\ q[r].pc = "accepted"
    /\ inv' = IF q[r].beaten THEN inv ELSE [inv EXCEPT ![q[r].inv] = row]
    /\ q' = [q EXCEPT ![r] = Idle]
    /\ spent' = IF Alone(r) /\ ~q[r].beaten THEN spent \cup {q[r].inv} ELSE spent
    /\ UNCHANGED <<mem, acct, ops, raced, rejoined, out, closed>>

(* Mutant: the status is left out of the row. *)
WriteAcceptedStatusLost(r) == Answer(r, q[r].held)

WriteAccepted(r) == Answer(r, [q[r].held EXCEPT !.status = "accepted"])

(* A request is refused - a wrong login, no name for a new account - or a  *)
(* statement of it throws: what was written stays, the rest is left undone. *)
(* A write that throws may have been made: it is made, and this comes next. *)
Fails(r) == q[r].pc # "idle" /\ Local(r, Idle)

-----------------------------------------------------------------------------
(* Time and ClickHouse.                                                    *)

Expire(i) ==
    /\ inv[i] # None /\ inv[i].status = "pending" /\ ~inv[i].expired
    /\ inv' = [inv EXCEPT ![i].expired = TRUE]
    /\ UNCHANGED <<mem, acct, q, ops, raced, rejoined, out, closed, spent>>

Merge(u) ==
    /\ Len(mem[u]) > 1
    /\ mem' = [mem EXCEPT ![u] = <<Last(@)>>]
    /\ UNCHANGED <<inv, acct, q, ops, raced, rejoined, out, closed, spent>>

(* The versions that are not doomed, in their order. *)
Undoomed(s) ==
    LET kept[k \in 0 .. Len(s)] ==
            IF k = 0 THEN <<>>
            ELSE IF s[k].doomed THEN kept[k - 1] ELSE Append(kept[k - 1], s[k])
    IN  kept[Len(s)]

Mutate ==
    /\ SomeDoomed
    /\ mem' = [u \in Users |-> Undoomed(mem[u])]
    /\ q' = Stale(q, None)
    /\ UNCHANGED <<inv, acct, ops, raced, rejoined, out, closed, spent>>

-----------------------------------------------------------------------------

MemberStep(r) ==
    \/ BeginUpdateRole(r) \/ ReadRoleTarget(r) \/ WriteRole(r)
    \/ BeginRemove(r) \/ ReadRemoveTarget(r)
    \/ BeginLeave(r) \/ ReadLeaver(r) \/ CountOwners(r) \/ DeleteMember(r)
    \/ BeginTransfer(r) \/ ReadTransferOwner(r) \/ ReadTransferTarget(r) \/ WriteTransfer(r)

InvitationStep(r) ==
    \/ BeginInvite(r) \/ CheckInvitee(r) \/ CheckPending(r) \/ InsertInvitation(r)
    \/ BeginResend(r) \/ WriteResend(r)
    \/ BeginRevoke(r) \/ WriteRevoke(r)
    \/ BeginAccept(r) \/ FindUser(r) \/ CreateUser(r) \/ InsertUser(r)
    \/ Join(r) \/ WriteAccepted(r)

Next ==
    \/ \E r \in Requests : MemberStep(r) \/ InvitationStep(r) \/ Fails(r)
    \/ \E i \in Invites : Expire(i)
    \/ \E u \in Users : Merge(u)
    \/ Mutate

Spec == Init /\ [][Next]_vars

-----------------------------------------------------------------------------
(* The workspace is without an owner only after a race - a role or a count *)
(* acted on when another write, or a mutation still to run, had made it    *)
(* wrong - or after a member accepted one more invitation.  With requests  *)
(* one at a time the checks of leave(), remove() and updateRole() suffice. *)
OwnerKept == Owners = {} => raced \/ rejoined

(* A user who was removed, or who left, is no member once the mutation has *)
(* run: no version of the membership written before is left to surface, and *)
(* an invitation recorded as accepted, with no other request at work on it, *)
(* lets nobody in again - its user stays in "out" if it does.  A race may   *)
(* bring the user back, as may a second membership, and an invitation whose *)
(* acceptance was not recorded or met another request on it: it may be      *)
(* pending still, and is another invitation for this purpose.               *)
RemovalSticks ==
    \A u \in out : ~raced /\ ~rejoined /\ ~SomeDoomed => ~IsMember(u)

(* An invitation revoked while no other request was at work on it stays    *)
(* revoked: neither resend() nor accept() takes it up again.               *)
RevocationHolds == \A i \in closed : inv[i].status = "revoked"

(* What create() of UsersService tells its callers when it refuses: an     *)
(* address that has an account gets no other one.                          *)
OneAccountEach == \A u, v \in acct : Address[u] = Address[v] => u = v

(* What MembersService says where it refuses to remove the last owner: the *)
(* workspace must always have at least one.  Here for requests that come   *)
(* one after the other, each with the mutations before it done.            *)
AlwaysOwned == ~raced => Owners # {}
=============================================================================
