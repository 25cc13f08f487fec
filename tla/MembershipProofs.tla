-------------------------- MODULE MembershipProofs --------------------------
(***************************************************************************)
(* Proofs about Membership for every set of users, of invitations and of   *)
(* concurrent requests.                                                    *)
(*                                                                         *)
(* Invitations: nobody is at work on an invitation that was revoked, or     *)
(* recorded as accepted, in peace.  Memberships: as long as no write has rested on an old read, the *)
(* versions of a membership have one id and are doomed just when the user  *)
(* was taken out, an owner is left who was not, and a request that nobody  *)
(* has overtaken knows what is true of the rows it will write.             *)
(***************************************************************************)
EXTENDS Membership, TLAPS, FiniteSetTheorems, SequenceTheorems, WellFoundedInduction

(* The points of an invitation under way, and of a request that holds an   *)
(* invitation it read.                                                     *)
InvitePcs == {"inviteMember", "invitePending", "inviteInsert"}

AnswerPcs == {"resend", "revoke", "acceptUser", "createUser", "insertUser", "join", "accepted"}

(* What a request is made of, wherever it is. *)
RequestOK(x) ==
    /\ DOMAIN x = {"pc", "actor", "user", "role", "held", "own", "inv", "dirty", "beaten"}
    /\ x.dirty \in BOOLEAN
    /\ x.pc \in {"idle"} \cup MemberPcs \cup InvitePcs \cup AnswerPcs
    /\ x.pc \in MemberPcs \cup {"join"} => x.user \in Users
    /\ x.pc \in InvitePcs => x.held \in Emails
    /\ x.pc \in {"roleTarget", "roleWrite"} => x.role \in Roles
    /\ x.pc \in InvitePcs => x.role \in Roles \ {"owner"}
    /\ x.pc \in {"transferOwn", "transferTarget", "transferWrite"} => x.actor \in Users
    /\ x.pc \in AnswerPcs => x.inv \in Invites /\ x.held \in Invitation
    /\ x.pc \notin AnswerPcs => x.inv = None
    /\ x.pc \in {"acceptUser", "createUser", "insertUser", "join"} => x.own \in Nat

(* Typed: the requests, and the table of invitations. *)
RequestsOK ==
    /\ inv \in [Invites -> {None} \cup Invitation]
    /\ q = [r \in Requests |-> q[r]]
    /\ \A r \in Requests : RequestOK(q[r])
    /\ ops \in Nat

(* Nobody is at work on an invitation that was revoked or accepted in peace. *)
ClosedInv ==
    /\ \A i \in closed : inv[i].status = "revoked"
    /\ \A i \in closed \cup spent :
          /\ i \in Invites /\ inv[i] # None /\ inv[i].status # "pending"
          /\ \A r \in Requests : q[r].inv # i

(* A version of a membership, and readings of a table m of them. *)
RowVersion == [id : Nat, role : Roles, doomed : BOOLEAN]

DoomedIn(m) == \E u \in Users : \E k \in DOMAIN m[u] : m[u][k].doomed

Newest(m, u) == m[u][Len(m[u])]

OwnersIn(m) == {u \in Users : m[u] # <<>> /\ Newest(m, u).role = "owner"}

(* What a request that nobody has overtaken knows is true. *)
CleanOK(x, m) ==
    x.pc \in MemberPcs /\ ~x.dirty =>
        /\ ~DoomedIn(m)
        /\ x.pc \in {"roleTarget"} => x.own \in Roles
        /\ x.pc \in {"roleWrite", "count", "delete", "transferWrite"} =>
              m[x.user] # <<>> /\ x.held = Newest(m, x.user)
        /\ x.pc = "roleWrite" => x.held.role # "owner"
        /\ x.pc \in {"transferTarget", "transferWrite"} =>
              /\ m[x.actor] # <<>> /\ x.own = Newest(m, x.actor)
              /\ x.actor # x.user
        /\ x.pc = "count" => x.held.role = "owner"
        /\ x.pc = "delete" /\ x.held.role = "owner" =>
              \E w \in Users \ {x.user} : m[w] # <<>> /\ Newest(m, w).role = "owner"

(* The versions of a membership have one id, and are doomed when the user   *)
(* was taken out, and only then.                                           *)
RowsOK(m, o) ==
    /\ m \in [Users -> Seq(RowVersion)]
    /\ \A u \in Users : \A k, l \in DOMAIN m[u] : m[u][k].id = m[u][l].id
    /\ \A u \in Users : \A k \in DOMAIN m[u] : m[u][k].doomed = IF u \in o THEN TRUE ELSE FALSE

(* An owner is left who was not taken out. *)
OwnerStays(m, o) ==
    \E w \in Users : m[w] # <<>> /\ Newest(m, w).role = "owner" /\ w \notin o

(* As long as no write has rested on an old read and nobody joined twice. *)
PeaceInv ==
    ~raced /\ ~rejoined =>
        /\ RowsOK(mem, out) /\ OwnerStays(mem, out)
        /\ \A r \in Requests : CleanOK(q[r], mem)

-----------------------------------------------------------------------------
(* The requests and the invitations they work on.                          *)

LEMMA IdleOK == RequestOK(Idle) /\ Idle.inv = None
  BY DEF RequestOK, Idle, MemberPcs, InvitePcs, AnswerPcs

(* A request is marked, and stays what it is. *)
LEMMA MarkedOK ==
    ASSUME NEW x, RequestOK(x), NEW d \in BOOLEAN
    PROVE  RequestOK([x EXCEPT !.dirty = d]) /\ RequestOK([x EXCEPT !.beaten = d])
<1>1. PICK y : y = [x EXCEPT !.dirty = d]
  OBVIOUS
<1>2. PICK z : z = [x EXCEPT !.beaten = d]
  OBVIOUS
<1>3. RequestOK(y)
  BY <1>1 DEF RequestOK
<1>4. RequestOK(z)
  BY <1>2 DEF RequestOK
<1> QED
  BY <1>1, <1>2, <1>3, <1>4

(* No request takes up an invitation. *)
NoneTakenUp == \A x \in Requests : q'[x].inv \in {q[x].inv, None}

(* One request is replaced, the rest stays. *)
LEMMA RequestReplaced ==
    ASSUME RequestsOK, NEW r \in Requests, NEW x, RequestOK(x), q' = [q EXCEPT ![r] = x],
           inv' \in [Invites -> {None} \cup Invitation], ops' \in Nat
    PROVE  RequestsOK' /\ (x.inv \in {q[r].inv, None} => NoneTakenUp)
  BY DEF RequestsOK, NoneTakenUp

LEMMA RequestBegun ==
    ASSUME RequestsOK, NEW r \in Requests, NEW x, RequestOK(x), Begun(r, x)
    PROVE  RequestsOK' /\ (x.inv = None => NoneTakenUp)
<1>1. Late(x) \in BOOLEAN
  BY DEF Late
<1>2. PICK y : y = [x EXCEPT !.dirty = Late(x)]
  OBVIOUS
<1>3. RequestOK(y) /\ y.inv = x.inv
  <2>1. RequestOK(y)
    BY <1>1, <1>2, MarkedOK
  <2>2. y.inv = x.inv
    BY <1>2 DEF RequestOK
  <2> QED
    BY <2>1, <2>2
<1>4. ops' \in Nat
  BY DEF Begun, RequestsOK
<1> QED
  BY <1>2, <1>3, <1>4, RequestReplaced DEF Begun, RequestsOK

LEMMA RequestLocal ==
    ASSUME RequestsOK, NEW r \in Requests, NEW x, RequestOK(x), Local(r, x)
    PROVE  RequestsOK' /\ (x.inv \in {q[r].inv, None} => NoneTakenUp)
  BY RequestReplaced DEF Local, RequestsOK

(* All others are marked. *)
LEMMA RequestsStale ==
    ASSUME RequestsOK, NEW r, NEW f, f = Stale(q, r)
    PROVE  /\ f = [x \in Requests |-> f[x]]
           /\ \A x \in Requests : RequestOK(f[x]) /\ f[x].inv \in {q[x].inv, None}
<1>1. ASSUME NEW x \in Requests PROVE RequestOK(f[x]) /\ f[x].inv \in {q[x].inv, None}
  <2>1. RequestOK(q[x]) /\ (q[x].pc \in MemberPcs) \in BOOLEAN
    BY DEF RequestsOK
  <2>2. PICK y : y = [q[x] EXCEPT !.dirty = q[x].pc \in MemberPcs]
    OBVIOUS
  <2>3. y.inv = q[x].inv
    BY <2>1, <2>2 DEF RequestOK
  <2>4. RequestOK(y)
    BY <2>1, <2>2, MarkedOK
  <2> QED
    BY <2>2, <2>3, <2>4, IdleOK DEF Stale
<1> QED
  BY <1>1 DEF Stale

LEMMA RequestsBeat ==
    ASSUME RequestsOK, NEW r, NEW i, NEW f, f = Beat(i, r)
    PROVE  /\ f = [x \in Requests |-> f[x]]
           /\ \A x \in Requests : RequestOK(f[x]) /\ f[x].inv \in {q[x].inv, None}
<1>1. ASSUME NEW x \in Requests PROVE RequestOK(f[x]) /\ f[x].inv \in {q[x].inv, None}
  <2>1. RequestOK(q[x])
    BY DEF RequestsOK
  <2>2. PICK y : y = [q[x] EXCEPT !.beaten = TRUE]
    OBVIOUS
  <2>3. y.inv = q[x].inv
    BY <2>1, <2>2 DEF RequestOK
  <2>4. RequestOK(y)
    BY <2>1, <2>2, MarkedOK
  <2> QED
    BY <2>1, <2>2, <2>3, <2>4, IdleOK DEF Beat
<1> QED
  BY <1>1 DEF Beat

(* The requests of the members service. *)
LEMMA MemberRequests ==
    ASSUME RequestsOK, NEW r \in Requests, MemberStep(r)
    PROVE  RequestsOK' /\ NoneTakenUp
<1>0. RequestOK(q[r]) /\ ops \in Nat /\ inv \in [Invites -> {None} \cup Invitation]
  BY DEF RequestsOK
<1>1. CASE BeginUpdateRole(r)
  <2>1. PICK a \in Actors, u \in Users, role \in Roles :
           Begun(r, [Idle EXCEPT !.pc = "roleTarget", !.actor = a, !.user = u, !.role = role,
                                 !.own = ActorRole(a)])
    BY <1>1 DEF BeginUpdateRole
  <2>2. PICK x : x = [Idle EXCEPT !.pc = "roleTarget", !.actor = a, !.user = u, !.role = role,
                                 !.own = ActorRole(a)]
    OBVIOUS
  <2>3. RequestOK(x) /\ x.inv = None
    BY <2>1, <2>2 DEF RequestOK, Idle, Actors, MemberPcs, InvitePcs, AnswerPcs
  <2> QED
    BY <2>1, <2>2, <2>3, RequestBegun
<1>2. CASE BeginRemove(r)
  <2>1. PICK a \in Actors, u \in Users :
           Begun(r, [Idle EXCEPT !.pc = "removeTarget", !.actor = a, !.user = u,
                                 !.own = ActorRole(a)])
    BY <1>2 DEF BeginRemove
  <2>2. PICK x : x = [Idle EXCEPT !.pc = "removeTarget", !.actor = a, !.user = u,
                                 !.own = ActorRole(a)]
    OBVIOUS
  <2>3. RequestOK(x) /\ x.inv = None
    BY <2>1, <2>2 DEF RequestOK, Idle, Actors, MemberPcs, InvitePcs, AnswerPcs
  <2> QED
    BY <2>1, <2>2, <2>3, RequestBegun
<1>3. CASE BeginLeave(r)
  <2>1. PICK u \in Users :
           Begun(r, [Idle EXCEPT !.pc = "leaveSelf", !.user = u])
    BY <1>3 DEF BeginLeave
  <2>2. PICK x : x = [Idle EXCEPT !.pc = "leaveSelf", !.user = u]
    OBVIOUS
  <2>3. RequestOK(x) /\ x.inv = None
    BY <2>1, <2>2 DEF RequestOK, Idle, Actors, MemberPcs, InvitePcs, AnswerPcs
  <2> QED
    BY <2>1, <2>2, <2>3, RequestBegun
<1>4. CASE BeginTransfer(r)
  <2>1. PICK a \in Users, u \in Users :
           Begun(r, [Idle EXCEPT !.pc = "transferOwn", !.actor = a, !.user = u])
    BY <1>4 DEF BeginTransfer
  <2>2. PICK x : x = [Idle EXCEPT !.pc = "transferOwn", !.actor = a, !.user = u]
    OBVIOUS
  <2>3. RequestOK(x) /\ x.inv = None
    BY <2>1, <2>2 DEF RequestOK, Idle, Actors, MemberPcs, InvitePcs, AnswerPcs
  <2> QED
    BY <2>1, <2>2, <2>3, RequestBegun
<1>5. CASE ReadRoleTarget(r)
  <2>1. PICK x : x = [q[r] EXCEPT !.pc = "roleWrite", !.held = GetMembership(q[r].user),
                                  !.actor = None, !.own = None]
    OBVIOUS
  <2>2. RequestOK(x) /\ x.inv = q[r].inv
    BY <1>0, <1>5, <2>1 DEF ReadRoleTarget, RequestOK, MemberPcs, InvitePcs, AnswerPcs
  <2>3. Local(r, x) \/ Local(r, Idle)
    BY <1>5, <2>1 DEF ReadRoleTarget
  <2> QED
    BY <2>2, <2>3, RequestLocal, IdleOK
<1>6. CASE ReadRemoveTarget(r)
  <2>1. PICK x : x = [q[r] EXCEPT !.held = GetMembership(q[r].user), !.actor = None,
                                  !.own = None, !.pc = "count"]
    OBVIOUS
  <2>2. PICK y : y = [q[r] EXCEPT !.held = GetMembership(q[r].user), !.actor = None,
                                  !.own = None, !.pc = "delete"]
    OBVIOUS
  <2>3. q[r].pc = "removeTarget"
    BY <1>6 DEF ReadRemoveTarget
  <2>4. RequestOK(x) /\ x.inv = q[r].inv
    BY <1>0, <2>1, <2>3 DEF RequestOK, MemberPcs, InvitePcs, AnswerPcs
  <2>5. RequestOK(y) /\ y.inv = q[r].inv
    BY <1>0, <2>2, <2>3 DEF RequestOK, MemberPcs, InvitePcs, AnswerPcs
  <2>6. Local(r, x) \/ Local(r, y) \/ Local(r, Idle)
    BY <1>6, <2>1, <2>2 DEF ReadRemoveTarget
  <2> QED
    BY <2>4, <2>5, <2>6, RequestLocal, IdleOK
<1>11. CASE ReadLeaver(r)
  <2>1. PICK x : x = [q[r] EXCEPT !.held = GetMembership(q[r].user), !.pc = "count"]
    OBVIOUS
  <2>2. PICK y : y = [q[r] EXCEPT !.held = GetMembership(q[r].user), !.pc = "delete"]
    OBVIOUS
  <2>3. q[r].pc = "leaveSelf"
    BY <1>11 DEF ReadLeaver
  <2>4. RequestOK(x) /\ x.inv = q[r].inv
    BY <1>0, <2>1, <2>3 DEF RequestOK, MemberPcs, InvitePcs, AnswerPcs
  <2>5. RequestOK(y) /\ y.inv = q[r].inv
    BY <1>0, <2>2, <2>3 DEF RequestOK, MemberPcs, InvitePcs, AnswerPcs
  <2>6. Local(r, x) \/ Local(r, y) \/ Local(r, Idle)
    BY <1>11, <2>1, <2>2 DEF ReadLeaver
  <2> QED
    BY <2>4, <2>5, <2>6, RequestLocal, IdleOK
<1>7. CASE CountOwners(r)
  <2>1. PICK x : x = [q[r] EXCEPT !.pc = "delete"]
    OBVIOUS
  <2>2. RequestOK(x) /\ x.inv = q[r].inv
    BY <1>0, <1>7, <2>1 DEF CountOwners, RequestOK, MemberPcs, InvitePcs, AnswerPcs
  <2>3. Local(r, x) \/ Local(r, Idle)
    BY <1>7, <2>1 DEF CountOwners
  <2> QED
    BY <2>2, <2>3, RequestLocal, IdleOK
<1>8. CASE ReadTransferOwner(r)
  <2>1. PICK x : x = [q[r] EXCEPT !.pc = "transferTarget", !.own = GetMembership(q[r].actor)]
    OBVIOUS
  <2>2. RequestOK(x) /\ x.inv = q[r].inv
    BY <1>0, <1>8, <2>1 DEF ReadTransferOwner, RequestOK, MemberPcs, InvitePcs, AnswerPcs
  <2>3. Local(r, x) \/ Local(r, Idle)
    BY <1>8, <2>1 DEF ReadTransferOwner
  <2> QED
    BY <2>2, <2>3, RequestLocal, IdleOK
<1>9. CASE ReadTransferTarget(r)
  <2>1. PICK x : x = [q[r] EXCEPT !.pc = "transferWrite", !.held = GetMembership(q[r].user)]
    OBVIOUS
  <2>2. RequestOK(x) /\ x.inv = q[r].inv
    BY <1>0, <1>9, <2>1 DEF ReadTransferTarget, RequestOK, MemberPcs, InvitePcs, AnswerPcs
  <2>3. Local(r, x) \/ Local(r, Idle)
    BY <1>9, <2>1 DEF ReadTransferTarget
  <2> QED
    BY <2>2, <2>3, RequestLocal, IdleOK
<1>10. CASE WriteRole(r) \/ DeleteMember(r) \/ WriteTransfer(r)
  <2>1. q' = Stale(q, r) /\ inv' = inv /\ ops' = ops
    BY <1>10 DEF WriteRole, DeleteMember, WriteTransfer
  <2> QED
    BY <1>0, <2>1, RequestsStale DEF RequestsOK, NoneTakenUp
<1> QED
  BY <1>1, <1>2, <1>3, <1>4, <1>5, <1>6, <1>7, <1>8, <1>9, <1>10, <1>11 DEF MemberStep

(* Whatever may be done to an invitation gives an invitation. *)
LEMMA InvitationChanged ==
    ASSUME NEW i \in Invitation
    PROVE  /\ [i EXCEPT !.expired = FALSE] \in Invitation
           /\ [i EXCEPT !.expired = TRUE] \in Invitation
           /\ [i EXCEPT !.status = "revoked"] \in Invitation
           /\ [i EXCEPT !.status = "accepted"] \in Invitation
           /\ [i EXCEPT !.status = "revoked"].status = "revoked"
           /\ [i EXCEPT !.status = "accepted"].status = "accepted"
  BY DEF Invitation

(* What is known of the invitations after a step. *)
LEMMA ClosedKept ==
    ASSUME RequestsOK, ClosedInv, closed' = closed, spent' = spent, NoneTakenUp,
           \A i \in closed \cup spent : inv'[i] = inv[i]
    PROVE  ClosedInv'
  BY MembershipConstants DEF ClosedInv, NoneTakenUp

(* The requests of the invitations service. *)
LEMMA InvitationRequests ==
    ASSUME RequestsOK, ClosedInv, NEW r \in Requests, InvitationStep(r)
    PROVE  RequestsOK' /\ ClosedInv'
<1>0. /\ RequestOK(q[r]) /\ ops \in Nat /\ inv \in [Invites -> {None} \cup Invitation]
      /\ closed \cup spent \subseteq Invites /\ None \notin Invites /\ None \notin Invitation
      /\ \A i \in closed \cup spent : q[r].inv # i /\ inv[i] # None /\ inv[i].status # "pending"
      /\ \A i \in closed : inv[i].status = "revoked"
  BY MembershipConstants DEF RequestsOK, ClosedInv
<1>1. CASE BeginInvite(r)
  <2>1. PICK e \in Emails, role \in Roles \ {"owner"} :
           Begun(r, [Idle EXCEPT !.pc = "inviteMember", !.held = e, !.role = role])
    BY <1>1 DEF BeginInvite
  <2>2. PICK x : x = [Idle EXCEPT !.pc = "inviteMember", !.held = e, !.role = role]
    OBVIOUS
  <2>3. RequestOK(x) /\ x.inv = None
    BY <2>1, <2>2 DEF RequestOK, Idle, Actors, MemberPcs, InvitePcs, AnswerPcs
  <2>4. inv' = inv /\ closed' = closed /\ spent' = spent
    BY <2>1 DEF Begun
  <2> QED
    BY <2>1, <2>2, <2>3, <2>4, RequestBegun, ClosedKept
<1>2. CASE CheckInvitee(r)
  <2>1. PICK x : x = [q[r] EXCEPT !.pc = "invitePending"]
    OBVIOUS
  <2>2. RequestOK(x) /\ x.inv = q[r].inv
    BY <1>0, <1>2, <2>1 DEF CheckInvitee, RequestOK, MemberPcs, InvitePcs, AnswerPcs
  <2>3. (Local(r, x) \/ Local(r, Idle)) /\ inv' = inv /\ closed' = closed /\ spent' = spent
    BY <1>2, <2>1 DEF CheckInvitee, Local
  <2> QED
    BY <2>2, <2>3, RequestLocal, IdleOK, ClosedKept
<1>3. CASE CheckPending(r)
  <2>1. PICK x : x = [q[r] EXCEPT !.pc = "inviteInsert"]
    OBVIOUS
  <2>2. RequestOK(x) /\ x.inv = q[r].inv
    BY <1>0, <1>3, <2>1 DEF CheckPending, RequestOK, MemberPcs, InvitePcs, AnswerPcs
  <2>3. (Local(r, x) \/ Local(r, Idle)) /\ inv' = inv /\ closed' = closed /\ spent' = spent
    BY <1>3, <2>1 DEF CheckPending, Local
  <2> QED
    BY <2>2, <2>3, RequestLocal, IdleOK, ClosedKept
<1>4. CASE InsertInvitation(r)
  <2>1. PICK i \in Invites :
           /\ inv[i] = None
           /\ inv' = [inv EXCEPT ![i] = [email |-> q[r].held, role |-> q[r].role,
                                         status |-> "pending", expired |-> FALSE]]
    BY <1>4 DEF InsertInvitation
  <2>2. q[r].held \in Emails /\ q[r].role \in Roles \ {"owner"}
    BY <1>0, <1>4 DEF InsertInvitation, RequestOK, InvitePcs
  <2>3. inv' \in [Invites -> {None} \cup Invitation] /\ \A j \in closed \cup spent : inv'[j] = inv[j]
    BY <1>0, <2>1, <2>2 DEF Invitation
  <2> QED
    BY <1>0, <1>4, <2>3, RequestReplaced, IdleOK, ClosedKept DEF InsertInvitation
<1>5. CASE BeginResend(r)
  <2>1. PICK i \in Invites :
           /\ inv[i] # None /\ inv[i].status = "pending"
           /\ Begun(r, [Idle EXCEPT !.pc = "resend", !.inv = i, !.held = inv[i]])
    BY <1>5 DEF BeginResend, Resendable
  <2>2. PICK x : x = [Idle EXCEPT !.pc = "resend", !.inv = i, !.held = inv[i]]
    OBVIOUS
  <2>3. inv[i] \in Invitation /\ i \notin closed \cup spent
    BY <1>0, <2>1
  <2>4. RequestOK(x) /\ x.inv = i
    BY <2>2, <2>3 DEF RequestOK, Idle, MemberPcs, InvitePcs, AnswerPcs
  <2>5. /\ RequestsOK' /\ inv' = inv /\ closed' = closed /\ spent' = spent
        /\ \A y \in Requests : q'[y].inv \in {q[y].inv, i}
    <3>1. RequestsOK'
      BY <2>1, <2>2, <2>4, RequestBegun
    <3>2. inv' = inv /\ closed' = closed /\ spent' = spent /\ q' = [q EXCEPT ![r] = [x EXCEPT !.dirty = Late(x)]]
      BY <2>1, <2>2 DEF Begun
    <3>3. [x EXCEPT !.dirty = Late(x)].inv = i
      BY <2>4 DEF RequestOK
    <3> QED
      BY <3>1, <3>2, <3>3 DEF RequestsOK
  <2> QED
    BY <2>3, <2>5 DEF ClosedInv
<1>6. CASE WriteResend(r)
  <2>1. q[r].held \in Invitation /\ q[r].inv \in Invites
    BY <1>0, <1>6 DEF WriteResend, RequestOK, AnswerPcs
  <2>2. inv' \in [Invites -> {None} \cup Invitation] /\ \A j \in closed \cup spent : inv'[j] = inv[j]
    BY <1>0, <1>6, <2>1, InvitationChanged DEF WriteResend
  <2>3. q' = Beat(q[r].inv, r) /\ ops' = ops /\ closed' = closed /\ spent' = spent
    BY <1>6 DEF WriteResend
  <2>4. RequestsOK' /\ NoneTakenUp
    BY <1>0, <2>2, <2>3, RequestsBeat DEF RequestsOK, NoneTakenUp
  <2> QED
    BY <2>2, <2>3, <2>4, ClosedKept
<1>7. CASE BeginRevoke(r)
  <2>1. PICK i \in Invites :
           /\ inv[i] # None /\ inv[i].status = "pending"
           /\ Begun(r, [Idle EXCEPT !.pc = "revoke", !.inv = i, !.held = inv[i]])
    BY <1>7 DEF BeginRevoke
  <2>2. PICK x : x = [Idle EXCEPT !.pc = "revoke", !.inv = i, !.held = inv[i]]
    OBVIOUS
  <2>3. inv[i] \in Invitation /\ i \notin closed \cup spent
    BY <1>0, <2>1
  <2>4. RequestOK(x) /\ x.inv = i
    BY <1>0, <2>2, <2>3 DEF RequestOK, Idle, MemberPcs, InvitePcs, AnswerPcs, Invitation
  <2>5. /\ RequestsOK' /\ inv' = inv /\ closed' = closed /\ spent' = spent
        /\ \A y \in Requests : q'[y].inv \in {q[y].inv, i}
    <3>1. RequestsOK'
      BY <2>1, <2>2, <2>4, RequestBegun
    <3>2. inv' = inv /\ closed' = closed /\ spent' = spent /\ q' = [q EXCEPT ![r] = [x EXCEPT !.dirty = Late(x)]]
      BY <2>1, <2>2 DEF Begun
    <3>3. [x EXCEPT !.dirty = Late(x)].inv = i
      BY <2>4 DEF RequestOK
    <3> QED
      BY <3>1, <3>2, <3>3 DEF RequestsOK
  <2> QED
    BY <2>3, <2>5 DEF ClosedInv
<1>8. CASE WriteRevoke(r)
  <2>1. q[r].held \in Invitation /\ q[r].inv \in Invites
    BY <1>0, <1>8 DEF WriteRevoke, RequestOK, AnswerPcs
  <2>2. /\ inv' \in [Invites -> {None} \cup Invitation] /\ \A j \in closed \cup spent : inv'[j] = inv[j]
        /\ inv'[q[r].inv] # None /\ inv'[q[r].inv].status = "revoked"
    BY <1>0, <1>8, <2>1, InvitationChanged DEF WriteRevoke
  <2>3. q' = Beat(q[r].inv, r) /\ ops' = ops /\ spent' = spent
    BY <1>8 DEF WriteRevoke
  <2>4. RequestsOK' /\ NoneTakenUp
    BY <1>0, <2>2, <2>3, RequestsBeat DEF RequestsOK, NoneTakenUp
  <2>5. CASE closed' = closed
    BY <2>2, <2>3, <2>4, <2>5, ClosedKept
  <2>6. CASE /\ closed' = closed \cup {q[r].inv}
             /\ Alone(r)
    <3>1. q'[r].inv = None
      BY <2>3, IdleOK DEF Beat
    <3>2. \A x \in Requests : q'[x].inv # q[r].inv
      BY <1>0, <2>1, <2>4, <2>6, <3>1 DEF NoneTakenUp, Alone
    <3>3. \A j \in closed \cup spent : \A x \in Requests : q'[x].inv # j
      BY <1>0, <2>4 DEF NoneTakenUp, ClosedInv
    <3>4. /\ \A j \in closed \cup spent : inv'[j] # None /\ inv'[j].status # "pending"
          /\ \A j \in closed : inv'[j].status = "revoked"
      BY <1>0, <2>2
    <3> QED
      BY <1>0, <2>1, <2>2, <2>3, <2>4, <2>6, <3>2, <3>3, <3>4 DEF ClosedInv
  <2> QED
    BY <1>8, <2>5, <2>6 DEF WriteRevoke
<1>9. CASE BeginAccept(r)
  <2>1. PICK i \in Invites :
           /\ inv[i] # None /\ inv[i].status = "pending"
           /\ Begun(r, [Idle EXCEPT !.pc = "acceptUser", !.inv = i, !.held = inv[i],
                                 !.own = ops + 1])
    BY <1>9 DEF BeginAccept
  <2>2. PICK x : x = [Idle EXCEPT !.pc = "acceptUser", !.inv = i, !.held = inv[i],
                                 !.own = ops + 1]
    OBVIOUS
  <2>3. inv[i] \in Invitation /\ i \notin closed \cup spent
    BY <1>0, <2>1
  <2>4. RequestOK(x) /\ x.inv = i
    BY <1>0, <2>2, <2>3 DEF RequestOK, Idle, MemberPcs, InvitePcs, AnswerPcs, Invitation
  <2>5. /\ RequestsOK' /\ inv' = inv /\ closed' = closed /\ spent' = spent
        /\ \A y \in Requests : q'[y].inv \in {q[y].inv, i}
    <3>1. RequestsOK'
      BY <2>1, <2>2, <2>4, RequestBegun
    <3>2. inv' = inv /\ closed' = closed /\ spent' = spent /\ q' = [q EXCEPT ![r] = [x EXCEPT !.dirty = Late(x)]]
      BY <2>1, <2>2 DEF Begun
    <3>3. [x EXCEPT !.dirty = Late(x)].inv = i
      BY <2>4 DEF RequestOK
    <3> QED
      BY <3>1, <3>2, <3>3 DEF RequestsOK
  <2> QED
    BY <2>3, <2>5 DEF ClosedInv
<1>10. CASE FindUser(r)
  <2>1. ASSUME NEW u \in Users PROVE RequestOK([q[r] EXCEPT !.user = u, !.pc = "join"])
    <3>1. PICK x : x = [q[r] EXCEPT !.user = u, !.pc = "join"]
      OBVIOUS
    <3>2. RequestOK(x)
      BY <1>0, <1>10, <3>1 DEF FindUser, RequestOK, MemberPcs, InvitePcs, AnswerPcs
    <3> QED
      BY <3>1, <3>2
  <2>2. RequestOK([q[r] EXCEPT !.pc = "createUser"])
    <3>1. PICK x : x = [q[r] EXCEPT !.pc = "createUser"]
      OBVIOUS
    <3>2. RequestOK(x)
      BY <1>0, <1>10, <3>1 DEF FindUser, RequestOK, MemberPcs, InvitePcs, AnswerPcs
    <3> QED
      BY <3>1, <3>2
  <2>3. ASSUME NEW x, RequestOK(x), x.inv = q[r].inv, Local(r, x)
        PROVE  RequestsOK' /\ ClosedInv'
    <3>1. inv' = inv /\ closed' = closed /\ spent' = spent
      BY <2>3 DEF Local
    <3> QED
      BY <2>3, <3>1, RequestLocal, ClosedKept
  <2>4. CASE \E u \in Users : Local(r, [q[r] EXCEPT !.user = u, !.pc = "join"])
    <3>1. PICK u \in Users : Local(r, [q[r] EXCEPT !.user = u, !.pc = "join"])
      BY <2>4
    <3>2. PICK x : x = [q[r] EXCEPT !.user = u, !.pc = "join"]
      OBVIOUS
    <3>3. x.inv = q[r].inv
      BY <1>0, <3>2 DEF RequestOK
    <3> QED
      BY <2>1, <2>3, <3>1, <3>2, <3>3
  <2>5. CASE Local(r, [q[r] EXCEPT !.pc = "createUser"])
    <3>1. PICK x : x = [q[r] EXCEPT !.pc = "createUser"]
      OBVIOUS
    <3>2. x.inv = q[r].inv
      BY <1>0, <3>1 DEF RequestOK
    <3> QED
      BY <2>2, <2>3, <2>5, <3>1, <3>2
  <2>6. \/ \E u \in Users : Local(r, [q[r] EXCEPT !.user = u, !.pc = "join"])
        \/ Local(r, [q[r] EXCEPT !.pc = "createUser"])
    BY <1>10 DEF FindUser, Accounts
  <2> QED
    BY <2>4, <2>5, <2>6
<1>13. CASE CreateUser(r)
  <2>1. PICK x : x = [q[r] EXCEPT !.pc = "insertUser"]
    OBVIOUS
  <2>2. RequestOK(x) /\ x.inv = q[r].inv
    BY <1>0, <1>13, <2>1 DEF CreateUser, RequestOK, MemberPcs, InvitePcs, AnswerPcs
  <2>3. (Local(r, x) \/ Local(r, Idle)) /\ inv' = inv /\ closed' = closed /\ spent' = spent
    BY <1>13, <2>1 DEF CreateUser, Local
  <2> QED
    BY <2>2, <2>3, RequestLocal, IdleOK, ClosedKept
<1>14. CASE InsertUser(r)
  <2>1. PICK u \in Users : q' = [q EXCEPT ![r].user = u, ![r].pc = "join"]
    BY <1>14 DEF InsertUser
  <2>2. PICK x : x = [q[r] EXCEPT !.user = u, !.pc = "join"]
    OBVIOUS
  <2>3. RequestOK(x) /\ x.inv = q[r].inv
    BY <1>0, <1>14, <2>2 DEF InsertUser, RequestOK, MemberPcs, InvitePcs, AnswerPcs
  <2>4. q' = [q EXCEPT ![r] = x]
    BY <2>1, <2>2 DEF RequestsOK
  <2>5. inv' = inv /\ closed' = closed /\ spent' = spent /\ ops' = ops
    BY <1>14 DEF InsertUser
  <2> QED
    BY <1>0, <2>3, <2>4, <2>5, RequestReplaced, ClosedKept
<1>11. CASE Join(r)
  <2>1. PICK x : x = [q[r] EXCEPT !.pc = "accepted", !.dirty = FALSE]
    OBVIOUS
  <2>2. RequestOK(x) /\ x.inv = q[r].inv
    BY <1>0, <1>11, <2>1 DEF Join, RequestOK, MemberPcs, InvitePcs, AnswerPcs
  <2>3. PICK f : f = Stale(q, r)
    OBVIOUS
  <2>4. q' = [f EXCEPT ![r] = x] /\ inv' = inv /\ closed' = closed /\ spent' = spent /\ ops' = ops
    BY <1>11, <2>1, <2>3 DEF Join
  <2>5. /\ f = [y \in Requests |-> f[y]]
        /\ \A y \in Requests : RequestOK(f[y]) /\ f[y].inv \in {q[y].inv, None}
    BY <2>3, RequestsStale
  <2>6. RequestsOK' /\ NoneTakenUp
    BY <1>0, <2>2, <2>4, <2>5 DEF RequestsOK, NoneTakenUp
  <2> QED
    BY <2>4, <2>6, ClosedKept
<1>12. CASE WriteAccepted(r)
  <2>1. q[r].held \in Invitation /\ q[r].inv \in Invites
    BY <1>0, <1>12 DEF WriteAccepted, Answer, RequestOK, AnswerPcs
  <2>2. /\ inv' \in [Invites -> {None} \cup Invitation]
        /\ \A j \in closed \cup spent : inv'[j] = inv[j]
    BY <1>0, <1>12, <2>1, InvitationChanged DEF WriteAccepted, Answer
  <2>3. q' = [q EXCEPT ![r] = Idle] /\ ops' = ops /\ closed' = closed
    BY <1>12 DEF WriteAccepted, Answer
  <2>4. RequestsOK' /\ NoneTakenUp
    BY <1>0, <2>2, <2>3, RequestReplaced, IdleOK
  <2>5. CASE spent' = spent
    BY <2>2, <2>3, <2>4, <2>5, ClosedKept
  <2>6. CASE spent' = spent \cup {q[r].inv} /\ Alone(r) /\ ~q[r].beaten
    <3>1. inv' = [inv EXCEPT ![q[r].inv] = [q[r].held EXCEPT !.status = "accepted"]]
      BY <1>12, <2>6 DEF WriteAccepted, Answer
    <3>2. inv'[q[r].inv] # None /\ inv'[q[r].inv].status # "pending"
      BY <1>0, <2>1, <3>1, InvitationChanged
    <3>3. q'[r].inv = None
      BY <2>3, IdleOK DEF RequestsOK
    <3>4. \A x \in Requests : q'[x].inv # q[r].inv
      BY <1>0, <2>1, <2>4, <2>6, <3>3 DEF NoneTakenUp, Alone
    <3>5. \A j \in closed \cup spent : \A x \in Requests : q'[x].inv # j
      BY <1>0, <2>4 DEF NoneTakenUp, ClosedInv
    <3>6. \A j \in closed \cup spent : inv'[j] # None /\ inv'[j].status # "pending"
      BY <1>0, <2>2
    <3>7. \A j \in closed : inv'[j].status = "revoked"
      BY <1>0, <2>2
    <3> QED
      BY <1>0, <2>1, <2>3, <2>4, <2>6, <3>2, <3>4, <3>5, <3>6, <3>7 DEF ClosedInv
  <2> QED
    BY <1>12, <2>5, <2>6 DEF WriteAccepted, Answer
<1> QED
  BY <1>1, <1>2, <1>3, <1>4, <1>5, <1>6, <1>7, <1>8, <1>9, <1>10, <1>11, <1>12,
     <1>13, <1>14 DEF InvitationStep

RevokedInv == RequestsOK /\ ClosedInv

LEMMA RevokedInit == ASSUME Init PROVE RevokedInv
  BY IdleOK DEF Init, RevokedInv, RequestsOK, ClosedInv

LEMMA RevokedStep == ASSUME RevokedInv, [Next]_vars PROVE RevokedInv'
<1> USE DEF RevokedInv
<1>1. ASSUME NEW r \in Requests, MemberStep(r) PROVE RevokedInv'
  <2>1. RequestsOK' /\ NoneTakenUp
    BY <1>1, MemberRequests
  <2>2. inv' = inv /\ closed' = closed /\ spent' = spent
    BY <1>1 DEF MemberStep, Begun, Local, BeginUpdateRole, ReadRoleTarget, WriteRole,
                BeginRemove, ReadRemoveTarget, BeginLeave, ReadLeaver, CountOwners,
                DeleteMember, BeginTransfer, ReadTransferOwner, ReadTransferTarget,
                WriteTransfer
  <2> QED
    BY <2>1, <2>2, ClosedKept
<1>2. ASSUME NEW r \in Requests, InvitationStep(r) PROVE RevokedInv'
  BY <1>2, InvitationRequests
<1>3. ASSUME NEW i \in Invites, Expire(i) PROVE RevokedInv'
  <2>1. inv \in [Invites -> {None} \cup Invitation] /\ inv[i] # None
    BY <1>3 DEF RequestsOK, Expire
  <2>2. inv[i] \in Invitation
    BY <2>1
  <2>3. inv' = [inv EXCEPT ![i] = [inv[i] EXCEPT !.expired = TRUE]] /\ i \notin closed \cup spent
    BY <1>3 DEF Expire, ClosedInv
  <2>4. inv' \in [Invites -> {None} \cup Invitation] /\ \A j \in closed \cup spent : inv'[j] = inv[j]
    BY <2>1, <2>2, <2>3, InvitationChanged DEF ClosedInv
  <2>5. q' = q /\ ops' = ops /\ closed' = closed /\ spent' = spent
    BY <1>3 DEF Expire
  <2>6. RequestsOK' /\ NoneTakenUp
    BY <2>4, <2>5 DEF RequestsOK, NoneTakenUp
  <2> QED
    BY <2>4, <2>5, <2>6, ClosedKept
<1>4. ASSUME NEW u \in Users, Merge(u) PROVE RevokedInv'
  BY <1>4 DEF Merge, RequestsOK, ClosedInv
<1>5. CASE Mutate
  <2>1. q' = Stale(q, None) /\ inv' = inv /\ closed' = closed /\ spent' = spent /\ ops' = ops
    BY <1>5 DEF Mutate
  <2>2. RequestsOK' /\ NoneTakenUp
    BY <2>1, RequestsStale DEF RequestsOK, NoneTakenUp
  <2> QED
    BY <2>1, <2>2, ClosedKept
<1>6. CASE UNCHANGED vars
  BY <1>6 DEF vars, RequestsOK, ClosedInv
<1>7. ASSUME NEW r \in Requests, Fails(r) PROVE RevokedInv'
  <2>1. Local(r, Idle)
    BY <1>7 DEF Fails
  <2>2. inv' = inv /\ closed' = closed /\ spent' = spent
    BY <2>1 DEF Local
  <2> QED
    BY <2>1, <2>2, RequestLocal, IdleOK, ClosedKept
<1> QED
  BY <1>1, <1>2, <1>3, <1>4, <1>5, <1>6, <1>7 DEF Next

LEMMA RevokedInvariant == Spec => []RevokedInv
<1>1. Init => RevokedInv
  BY RevokedInit
<1>2. RevokedInv /\ [Next]_vars => RevokedInv'
  BY RevokedStep
<1> QED
  BY <1>1, <1>2, PTL DEF Spec

(* An invitation revoked with no other request at work on it stays revoked: *)
(* no resend() and no accept() writes it back, however many are under way  *)
(* on other invitations.                                                   *)
THEOREM RevocationIsFinal == Spec => []RevocationHolds
<1>1. RevokedInv => RevocationHolds
  BY DEF RevokedInv, ClosedInv, RevocationHolds
<1> QED
  BY <1>1, RevokedInvariant, PTL

-----------------------------------------------------------------------------
(* The recursion of Undoomed: by the least position at which it is wrong.  *)

(* A set of numbers has a least one. *)
LEMMA LeastNatural ==
    ASSUME NEW T \in SUBSET Nat, T # {}
    PROVE  \E m \in T : \A k \in T : m <= k
<1> DEFINE R == OpToRel(<, Nat)
<1>1. IsWellFoundedOn(R, Nat)
  BY NatLessThanWellFounded
<1>2. \A x, y \in Nat : <<x, y>> \in R <=> x < y
  BY DEF OpToRel
<1> HIDE DEF R
<1>3. PICK m \in T : \A k \in T : ~(<<k, m>> \in R)
  BY <1>1, WFMin
<1>4. ASSUME NEW k \in T PROVE m <= k
  <2>1. m \in Nat /\ k \in Nat /\ ~(k < m)
    BY <1>2, <1>3
  <2> QED
    BY <2>1
<1> QED
  BY <1>4

(* f[k] is what is kept of the first k versions. *)
KeptBy(s, f) ==
    f = [k \in 0 .. Len(s) |->
            IF k = 0 THEN <<>>
            ELSE IF s[k].doomed THEN f[k - 1] ELSE Append(f[k - 1], s[k])]

LEMMA UndoomedIs ==
    ASSUME NEW s, \E f : KeptBy(s, f)
    PROVE  \E f : KeptBy(s, f) /\ Undoomed(s) = f[Len(s)]
  BY DEF KeptBy, Undoomed

(* What a function that KeptBy describes is, it is at every position. *)
LEMMA KeptIs ==
    ASSUME NEW s, Len(s) \in Nat, NEW f, NEW g, KeptBy(s, f), KeptBy(s, g)
    PROVE  f[Len(s)] = g[Len(s)]
<1> DEFINE T == {k \in 0 .. Len(s) : f[k] # g[k]}
<1>1. SUFFICES ASSUME T # {} PROVE FALSE
  BY <1>1
<1>2. T \in SUBSET Nat
  OBVIOUS
<1>3. PICK m \in T : \A k \in T : m <= k
  <2> HIDE DEF T
  <2> QED
    BY <1>1, <1>2, LeastNatural
<1>4. f[0] = g[0]
  BY DEF KeptBy
<1>5. m \in 1 .. Len(s) /\ m - 1 \in 0 .. Len(s) /\ m - 1 \notin T
  BY <1>3, <1>4
<1>6. f[m - 1] = g[m - 1]
  BY <1>5
<1>7. /\ f[m] = IF s[m].doomed THEN f[m - 1] ELSE Append(f[m - 1], s[m])
      /\ g[m] = IF s[m].doomed THEN g[m - 1] ELSE Append(g[m - 1], s[m])
  BY <1>5 DEF KeptBy
<1> QED
  BY <1>3, <1>6, <1>7

(* Nothing is left of versions that are all doomed, and everything of ones *)
(* none of which is.                                                       *)
LEMMA UndoomedAll ==
    ASSUME NEW V, NEW s \in Seq(V), \A k \in DOMAIN s : s[k].doomed = TRUE
    PROVE  Undoomed(s) = <<>>
<1>1. Len(s) \in Nat /\ DOMAIN s = 1 .. Len(s)
  OBVIOUS
<1>2. PICK g : g = [k \in 0 .. Len(s) |-> <<>>]
  OBVIOUS
<1>3. \A k \in 1 .. Len(s) : k - 1 \in 0 .. Len(s)
  BY <1>1
<1>4. KeptBy(s, g)
  BY <1>1, <1>2, <1>3 DEF KeptBy
<1>5. PICK f : KeptBy(s, f) /\ Undoomed(s) = f[Len(s)]
  BY <1>4, UndoomedIs
<1>6. f[Len(s)] = g[Len(s)]
  BY <1>1, <1>4, <1>5, KeptIs
<1> QED
  BY <1>1, <1>2, <1>5, <1>6

LEMMA UndoomedNone ==
    ASSUME NEW V, NEW s \in Seq(V), \A k \in DOMAIN s : s[k].doomed = FALSE
    PROVE  Undoomed(s) = s
<1>1. Len(s) \in Nat /\ DOMAIN s = 1 .. Len(s)
  OBVIOUS
<1>2. PICK g : g = [k \in 0 .. Len(s) |-> SubSeq(s, 1, k)]
  OBVIOUS
<1>3. \A k \in 1 .. Len(s) : k - 1 \in 0 .. Len(s)
  BY <1>1
<1>4. \A k \in 1 .. Len(s) : SubSeq(s, 1, k) = Append(SubSeq(s, 1, k - 1), s[k])
  BY <1>1, SubSeqRecursiveSecond
<1>5. SubSeq(s, 1, 0) = <<>> /\ SubSeq(s, 1, Len(s)) = s
  BY <1>1, SubSeqEmpty, SubSeqFull
<1>6. KeptBy(s, g)
  <2>1. ASSUME NEW k \in 0 .. Len(s)
        PROVE  g[k] = IF k = 0 THEN <<>>
                      ELSE IF s[k].doomed THEN g[k - 1] ELSE Append(g[k - 1], s[k])
    <3>1. CASE k = 0
      BY <1>2, <1>5, <3>1
    <3>2. CASE k # 0
      <4>1. k \in 1 .. Len(s)
        BY <1>1, <3>2
      <4>2. g[k] = SubSeq(s, 1, k) /\ g[k - 1] = SubSeq(s, 1, k - 1) /\ s[k].doomed = FALSE
        BY <1>1, <1>2, <1>3, <4>1
      <4>3. g[k] = Append(g[k - 1], s[k])
        BY <1>4, <4>1, <4>2
      <4> QED
        BY <3>2, <4>2, <4>3
    <3> QED
      BY <3>1, <3>2
  <2> DEFINE h == [k \in 0 .. Len(s) |->
                     IF k = 0 THEN <<>>
                     ELSE IF s[k].doomed THEN g[k - 1] ELSE Append(g[k - 1], s[k])]
  <2>2. \A k \in 0 .. Len(s) : h[k] = g[k]
    BY <2>1
  <2>3. h = [k \in 0 .. Len(s) |-> h[k]] /\ g = [k \in 0 .. Len(s) |-> g[k]]
    BY <1>2
  <2> HIDE DEF h
  <2>4. g = h
    BY <2>2, <2>3
  <2> QED
    BY <2>4 DEF KeptBy, h
<1>7. PICK f : KeptBy(s, f) /\ Undoomed(s) = f[Len(s)]
  BY <1>6, UndoomedIs
<1>8. f[Len(s)] = g[Len(s)]
  BY <1>1, <1>6, <1>7, KeptIs
<1> QED
  BY <1>1, <1>2, <1>5, <1>7, <1>8

Appended(m, u, v) == [m EXCEPT ![u] = Append(m[u], v)]

-----------------------------------------------------------------------------
(* What a write, a mutation and a merge make of the table.                 *)

(* A version is written behind the others of its user. *)
LEMMA RowAppended ==
    ASSUME NEW m, NEW o, RowsOK(m, o), NEW u \in Users, u \notin o,
           NEW v \in RowVersion, v.doomed = FALSE,
           m[u] # <<>> => v.id = Newest(m, u).id
    PROVE  /\ RowsOK(Appended(m, u, v), o)
           /\ Appended(m, u, v)[u] # <<>> /\ Newest(Appended(m, u, v), u) = v
           /\ \A w \in Users \ {u} : Appended(m, u, v)[w] = m[w]
<1>0. PICK n : n = [m EXCEPT ![u] = Append(m[u], v)]
  OBVIOUS
<1>1. /\ m \in [Users -> Seq(RowVersion)] /\ m[u] \in Seq(RowVersion) /\ Len(m[u]) \in Nat
      /\ DOMAIN m[u] = 1 .. Len(m[u])
  BY DEF RowsOK
<1>2. /\ n \in [Users -> Seq(RowVersion)] /\ n[u] = Append(m[u], v)
      /\ \A w \in Users \ {u} : n[w] = m[w]
  BY <1>0, <1>1
<1>3. /\ DOMAIN n[u] = 1 .. Len(m[u]) + 1 /\ Len(n[u]) = Len(m[u]) + 1
      /\ n[u][Len(m[u]) + 1] = v /\ \A k \in 1 .. Len(m[u]) : n[u][k] = m[u][k]
  BY <1>1, <1>2
<1>4. n[u] # <<>> /\ Newest(n, u) = v
  BY <1>1, <1>2, <1>3 DEF Newest
<1>5. \A k \in DOMAIN n[u] : k \in DOMAIN m[u] \/ k = Len(m[u]) + 1
  BY <1>1, <1>3
<1>6. \A k \in DOMAIN m[u] : m[u][k].id = v.id
  <2>1. SUFFICES ASSUME NEW k \in DOMAIN m[u] PROVE m[u][k].id = v.id
    OBVIOUS
  <2>2. m[u] # <<>> /\ Len(m[u]) \in DOMAIN m[u]
    BY <1>1
  <2> QED
    BY <2>2 DEF RowsOK, Newest
<1>7. \A k \in DOMAIN n[u] : n[u][k].id = v.id
  BY <1>1, <1>3, <1>5, <1>6
<1>8. \A k \in DOMAIN n[u] : n[u][k].doomed = FALSE
  <2>1. \A k \in DOMAIN m[u] : m[u][k].doomed = FALSE
    BY DEF RowsOK
  <2> QED
    BY <1>1, <1>3, <1>5, <2>1
<1>9. \A w \in Users : \A k, l \in DOMAIN n[w] : n[w][k].id = n[w][l].id
  <2>1. SUFFICES ASSUME NEW w \in Users, NEW k \in DOMAIN n[w], NEW l \in DOMAIN n[w]
                 PROVE  n[w][k].id = n[w][l].id
    OBVIOUS
  <2>2. CASE w = u
    BY <1>7, <2>2
  <2>3. CASE w # u
    <3>1. n[w] = m[w]
      BY <1>2, <2>3
    <3> QED
      BY <3>1 DEF RowsOK
  <2> QED
    BY <2>2, <2>3
<1>10. \A w \in Users : \A k \in DOMAIN n[w] : n[w][k].doomed = IF w \in o THEN TRUE ELSE FALSE
  <2>1. SUFFICES ASSUME NEW w \in Users, NEW k \in DOMAIN n[w] PROVE n[w][k].doomed = IF w \in o THEN TRUE ELSE FALSE
    OBVIOUS
  <2>2. CASE w = u
    BY <1>8, <2>2
  <2>3. CASE w # u
    <3>1. n[w] = m[w]
      BY <1>2, <2>3
    <3> QED
      BY <3>1 DEF RowsOK
  <2> QED
    BY <2>2, <2>3
<1>11. RowsOK(n, o)
  BY <1>2, <1>9, <1>10 DEF RowsOK
<1> QED
  BY <1>0, <1>2, <1>4, <1>11 DEF Appended

LEMMA RowsAppended ==
    ASSUME NEW m, NEW o, RowsOK(m, o), NEW u \in Users, u \notin o,
           NEW v \in RowVersion, v.doomed = FALSE, v.id = Newest(m, u).id
    PROVE  /\ RowsOK(Appended(m, u, v), o)
           /\ Appended(m, u, v)[u] # <<>> /\ Newest(Appended(m, u, v), u) = v
  BY RowAppended

(* With nothing doomed, a member was not taken out. *)
LEMMA MemberStays ==
    ASSUME NEW m, NEW o, RowsOK(m, o), ~DoomedIn(m), NEW u \in Users, m[u] # <<>>
    PROVE  u \notin o /\ Newest(m, u) \in RowVersion
<1>1. m[u] \in Seq(RowVersion) /\ Len(m[u]) \in DOMAIN m[u]
  BY DEF RowsOK
<1>2. m[u][Len(m[u])].doomed = IF u \in o THEN TRUE ELSE FALSE
  BY <1>1 DEF RowsOK
<1>3. Newest(m, u) \in RowVersion
  BY <1>1 DEF Newest
<1> QED
  BY <1>1, <1>2, <1>3 DEF DoomedIn

Doomed(m, u, id) ==
    [m EXCEPT ![u] = [k \in DOMAIN @ |-> [@[k] EXCEPT !.doomed = @ \/ m[u][k].id = id]]]

(* All versions of a membership go with its id. *)
LEMMA RowDoomed ==
    ASSUME NEW m, NEW o, RowsOK(m, o), NEW u \in Users, m[u] # <<>>
    PROVE  /\ RowsOK(Doomed(m, u, Newest(m, u).id), o \cup {u})
           /\ \A w \in Users \ {u} : Doomed(m, u, Newest(m, u).id)[w] = m[w]
<1>0. PICK n : n = Doomed(m, u, Newest(m, u).id)
  OBVIOUS
<1>1. /\ m \in [Users -> Seq(RowVersion)] /\ m[u] \in Seq(RowVersion) /\ Len(m[u]) \in Nat
      /\ DOMAIN m[u] = 1 .. Len(m[u]) /\ Len(m[u]) \in DOMAIN m[u]
  BY DEF RowsOK
<1>2. \A k \in DOMAIN m[u] : m[u][k] \in RowVersion /\ m[u][k].id = Newest(m, u).id
  <2>1. \A k \in DOMAIN m[u] : m[u][k] \in RowVersion
    BY <1>1
  <2>2. \A k \in DOMAIN m[u] : m[u][k].id = m[u][Len(m[u])].id
    BY <1>1 DEF RowsOK
  <2> QED
    BY <2>1, <2>2 DEF Newest
<1>3. ASSUME NEW k \in DOMAIN m[u]
      PROVE  /\ n[u][k] \in RowVersion /\ n[u][k].id = m[u][k].id /\ n[u][k].doomed = TRUE
  <2>1. m[u][k] \in RowVersion /\ m[u][k].id = Newest(m, u).id
    BY <1>2
  <2>2. PICK z : z = n[u][k]
    OBVIOUS
  <2>3. z.doomed /\ z.doomed \in BOOLEAN /\ z.id = m[u][k].id
    BY <1>0, <1>1, <2>1, <2>2 DEF Doomed, RowVersion
  <2>4. z \in RowVersion
    BY <1>0, <1>1, <2>1, <2>2 DEF Doomed, RowVersion
  <2> QED
    BY <2>2, <2>3, <2>4
<1>4. n[u] \in Seq(RowVersion) /\ DOMAIN n[u] = DOMAIN m[u]
  <2>1. n[u] = [k \in 1 .. Len(m[u]) |-> n[u][k]] /\ \A k \in 1 .. Len(m[u]) : n[u][k] \in RowVersion
    BY <1>0, <1>1, <1>3 DEF Doomed
  <2> QED
    BY <1>1, <2>1
<1>5. n \in [Users -> Seq(RowVersion)] /\ \A w \in Users \ {u} : n[w] = m[w]
  <2>1. n = [m EXCEPT ![u] = n[u]]
    BY <1>0, <1>1 DEF Doomed
  <2> QED
    BY <1>1, <1>4, <2>1
<1>6. \A w \in Users : \A k, l \in DOMAIN n[w] : n[w][k].id = n[w][l].id
  <2>1. SUFFICES ASSUME NEW w \in Users, NEW k \in DOMAIN n[w], NEW l \in DOMAIN n[w]
                 PROVE  n[w][k].id = n[w][l].id
    OBVIOUS
  <2>2. CASE w = u
    <3>1. n[u][k].id = m[u][k].id /\ n[u][l].id = m[u][l].id
      BY <1>3, <1>4, <2>2
    <3>2. m[u][k].id = m[u][l].id
      BY <1>4, <2>2 DEF RowsOK
    <3> QED
      BY <2>2, <3>1, <3>2
  <2>3. CASE w # u
    <3>1. n[w] = m[w]
      BY <1>5, <2>3
    <3> QED
      BY <3>1 DEF RowsOK
  <2> QED
    BY <2>2, <2>3
<1>7. \A w \in Users : \A k \in DOMAIN n[w] : n[w][k].doomed = IF w \in o \cup {u} THEN TRUE ELSE FALSE
  <2>1. SUFFICES ASSUME NEW w \in Users, NEW k \in DOMAIN n[w]
                 PROVE  n[w][k].doomed = IF w \in o \cup {u} THEN TRUE ELSE FALSE
    OBVIOUS
  <2>2. CASE w = u
    BY <1>3, <1>4, <2>2
  <2>3. CASE w # u
    <3>1. n[w] = m[w] /\ (w \in o \cup {u} <=> w \in o)
      BY <1>5, <2>3
    <3>2. m[w][k].doomed = IF w \in o THEN TRUE ELSE FALSE
      BY <3>1 DEF RowsOK
    <3> QED
      BY <3>1, <3>2
  <2> QED
    BY <2>2, <2>3
<1>8. RowsOK(n, o \cup {u})
  BY <1>5, <1>6, <1>7 DEF RowsOK
<1> QED
  BY <1>0, <1>5, <1>8

MergedRow(m, u) == [m EXCEPT ![u] = <<Newest(m, u)>>]

(* A merge leaves what can be read as it was. *)
LEMMA RowMerged ==
    ASSUME NEW m, NEW o, RowsOK(m, o), NEW u \in Users, m[u] # <<>>
    PROVE  /\ RowsOK(MergedRow(m, u), o)
           /\ \A w \in Users : /\ MergedRow(m, u)[w] # <<>> <=> m[w] # <<>>
                               /\ Newest(MergedRow(m, u), w) = Newest(m, w)
           /\ DoomedIn(MergedRow(m, u)) => DoomedIn(m)
<1>0. PICK n : n = [m EXCEPT ![u] = <<Newest(m, u)>>]
  OBVIOUS
<1>1. /\ m \in [Users -> Seq(RowVersion)] /\ m[u] \in Seq(RowVersion)
      /\ Len(m[u]) \in DOMAIN m[u]
  BY DEF RowsOK
<1>2. Newest(m, u) \in RowVersion
  BY <1>1 DEF Newest
<1>3. /\ n \in [Users -> Seq(RowVersion)] /\ n[u] = <<Newest(m, u)>>
      /\ \A w \in Users \ {u} : n[w] = m[w]
  BY <1>0, <1>1, <1>2
<1>4. /\ DOMAIN n[u] = {1} /\ Len(n[u]) = 1 /\ n[u][1] = m[u][Len(m[u])] /\ n[u] # <<>>
      /\ Newest(n, u) = Newest(m, u)
  BY <1>3 DEF Newest
<1>5. \A w \in Users : \A k, l \in DOMAIN n[w] : n[w][k].id = n[w][l].id
  <2>1. SUFFICES ASSUME NEW w \in Users, NEW k \in DOMAIN n[w], NEW l \in DOMAIN n[w]
                 PROVE  n[w][k].id = n[w][l].id
    OBVIOUS
  <2>2. CASE w = u
    BY <1>4, <2>2
  <2>3. CASE w # u
    <3>1. n[w] = m[w]
      BY <1>3, <2>3
    <3> QED
      BY <3>1 DEF RowsOK
  <2> QED
    BY <2>2, <2>3
<1>6. \A w \in Users : \A k \in DOMAIN n[w] : \E l \in DOMAIN m[w] : n[w][k] = m[w][l]
  BY <1>1, <1>3, <1>4
<1>7. \A w \in Users : \A k \in DOMAIN n[w] : n[w][k].doomed = IF w \in o THEN TRUE ELSE FALSE
  <2>1. SUFFICES ASSUME NEW w \in Users, NEW k \in DOMAIN n[w]
                 PROVE  n[w][k].doomed = IF w \in o THEN TRUE ELSE FALSE
    OBVIOUS
  <2>2. PICK l \in DOMAIN m[w] : n[w][k] = m[w][l]
    BY <1>6
  <2>3. m[w][l].doomed = IF w \in o THEN TRUE ELSE FALSE
    BY DEF RowsOK
  <2> QED
    BY <2>2, <2>3
<1>8. RowsOK(n, o)
  BY <1>3, <1>5, <1>7 DEF RowsOK
<1>9. \A w \in Users : (n[w] # <<>> <=> m[w] # <<>>) /\ Newest(n, w) = Newest(m, w)
  BY <1>3, <1>4 DEF Newest
<1>10. DoomedIn(n) => DoomedIn(m)
  BY <1>6 DEF DoomedIn
<1> QED
  BY <1>0, <1>8, <1>9, <1>10 DEF MergedRow

(* The mutation takes every version of those who were taken out, and none   *)
(* of the others.                                                          *)
LEMMA RowsMutated ==
    ASSUME NEW m, NEW o, RowsOK(m, o), NEW n, n = [u \in Users |-> Undoomed(m[u])]
    PROVE  /\ RowsOK(n, o)
           /\ \A u \in Users : (u \in o => n[u] = <<>>) /\ (u \notin o => n[u] = m[u])
<1>1. m \in [Users -> Seq(RowVersion)]
  BY DEF RowsOK
<1>2. ASSUME NEW u \in Users, u \in o PROVE n[u] = <<>>
  <2>1. \A k \in DOMAIN m[u] : m[u][k].doomed = TRUE
    BY <1>2 DEF RowsOK
  <2>2. m[u] \in Seq(RowVersion)
    BY <1>1
  <2> QED
    BY <2>1, <2>2, UndoomedAll
<1>3. ASSUME NEW u \in Users, u \notin o PROVE n[u] = m[u]
  <2>1. \A k \in DOMAIN m[u] : m[u][k].doomed = FALSE
    BY <1>3 DEF RowsOK
  <2>2. m[u] \in Seq(RowVersion)
    BY <1>1
  <2> QED
    BY <2>1, <2>2, UndoomedNone
<1>4. \A u \in Users : n[u] = <<>> \/ n[u] = m[u]
  BY <1>2, <1>3
<1>5. n \in [Users -> Seq(RowVersion)]
  <2>1. \A u \in Users : n[u] \in Seq(RowVersion)
    <3>1. ASSUME NEW u \in Users PROVE n[u] \in Seq(RowVersion)
      <4>1. m[u] \in Seq(RowVersion)
        BY <1>1
      <4> HIDE DEF RowVersion
      <4>2. <<>> \in Seq(RowVersion)
        OBVIOUS
      <4> QED
        BY <1>4, <4>1, <4>2
    <3> QED
      BY <3>1
  <2>2. n = [u \in Users |-> n[u]]
    OBVIOUS
  <2> QED
    BY <2>1, <2>2
<1>6. \A u \in Users : \A k, l \in DOMAIN n[u] : n[u][k].id = n[u][l].id
  BY <1>4 DEF RowsOK
<1>7. \A u \in Users : \A k \in DOMAIN n[u] : n[u][k].doomed = IF u \in o THEN TRUE ELSE FALSE
  <2>1. SUFFICES ASSUME NEW u \in Users, NEW k \in DOMAIN n[u]
                 PROVE  n[u][k].doomed = IF u \in o THEN TRUE ELSE FALSE
    OBVIOUS
  <2>2. u \notin o
    BY <1>2
  <2>3. n[u] = m[u]
    BY <1>3, <2>2
  <2>4. m[u][k].doomed = IF u \in o THEN TRUE ELSE FALSE
    BY <2>3 DEF RowsOK
  <2> QED
    BY <2>3, <2>4
<1> QED
  BY <1>2, <1>3, <1>5, <1>6, <1>7 DEF RowsOK

-----------------------------------------------------------------------------
(* The steps of MembersService.                                            *)

(* The readings of the rows in terms of these. *)
LEMMA RowReadings ==
    /\ SomeDoomed <=> DoomedIn(mem)
    /\ Owners = OwnersIn(mem)
    /\ \A u \in Users : GetMembership(u) = IF mem[u] = <<>> THEN None ELSE Newest(mem, u)
  BY DEF SomeDoomed, DoomedIn, Owners, OwnersIn, IsMember, Newest, GetMembership, Last

(* After a write of the memberships nobody else knows anything. *)
LEMMA StaleKnowsNothing ==
    ASSUME RequestsOK, NEW r, NEW f, f = Stale(q, r), NEW m
    PROVE  \A x \in Requests : CleanOK(f[x], m)
<1>1. ASSUME NEW x \in Requests PROVE f[x].pc \in MemberPcs => f[x].dirty
  <2>1. PICK y : y = [q[x] EXCEPT !.dirty = q[x].pc \in MemberPcs]
    OBVIOUS
  <2>2. RequestOK(q[x])
    BY DEF RequestsOK
  <2>3. y.pc = q[x].pc /\ y.dirty = (q[x].pc \in MemberPcs)
    BY <2>1, <2>2 DEF RequestOK
  <2>4. Idle.pc = "idle"
    BY DEF Idle
  <2>5. f[x] = IF x = r THEN Idle ELSE y
    BY <2>1 DEF Stale
  <2> QED
    BY <2>3, <2>4, <2>5 DEF MemberPcs
<1> QED
  BY <1>1 DEF CleanOK

Calm == ~raced /\ ~rejoined

LEMMA PeaceOf ==
    ASSUME PeaceInv, Calm
    PROVE  RowsOK(mem, out) /\ OwnerStays(mem, out) /\ \A r \in Requests : CleanOK(q[r], mem)
  BY DEF PeaceInv, Calm

(* The new role is written behind the row that was read. *)
LEMMA PeaceWriteRole ==
    ASSUME RequestsOK, PeaceInv, raced \in BOOLEAN, NEW r \in Requests, WriteRole(r)
    PROVE  PeaceInv'
<1>1. SUFFICES ASSUME ~raced', ~rejoined'
               PROVE  /\ RowsOK(mem', out') /\ OwnerStays(mem', out')
                      /\ \A x \in Requests : CleanOK(q'[x], mem')
  BY DEF PeaceInv
<1>2. Calm /\ ~q[r].dirty
  BY <1>1 DEF WriteRole, Calm
<1>3. RowsOK(mem, out) /\ OwnerStays(mem, out) /\ CleanOK(q[r], mem)
  BY <1>2, PeaceOf
<1> DEFINE u == q[r].user
           v == Version(q[r].held.id, q[r].role)
<1>4. u \in Users /\ q[r].role \in Roles /\ q[r].pc = "roleWrite"
  BY DEF WriteRole, RequestsOK, RequestOK, MemberPcs, InvitePcs
<1>5. /\ ~DoomedIn(mem) /\ mem[u] # <<>> /\ q[r].held = Newest(mem, u)
      /\ q[r].held.role # "owner"
  BY <1>2, <1>3, <1>4 DEF CleanOK, MemberPcs
<1>6. u \notin out /\ Newest(mem, u) \in RowVersion
  BY <1>3, <1>4, <1>5, MemberStays
<1>7. v \in RowVersion /\ v.doomed = FALSE /\ v.id = Newest(mem, u).id
  BY <1>4, <1>5, <1>6 DEF Version, RowVersion
<1>8. mem' = [mem EXCEPT ![u] = Append(mem[u], v)] /\ out' = out /\ q' = Stale(q, r)
  BY DEF WriteRole
<1> HIDE DEF u, v
<1>9. RowsOK(mem', out) /\ \A w \in Users \ {u} : mem'[w] = mem[w]
  <2>1. RowsOK(Appended(mem, u, v), out) /\ \A w \in Users \ {u} : Appended(mem, u, v)[w] = mem[w]
    BY <1>3, <1>4, <1>6, <1>7, RowAppended
  <2> QED
    BY <1>8, <2>1 DEF Appended
<1>10. OwnerStays(mem', out)
  <2>1. PICK w \in Users : mem[w] # <<>> /\ Newest(mem, w).role = "owner" /\ w \notin out
    BY <1>3 DEF OwnerStays
  <2>2. w # u
    BY <1>5, <2>1
  <2> QED
    BY <1>9, <2>1, <2>2 DEF OwnerStays, Newest
<1> QED
  BY <1>8, <1>9, <1>10, StaleKnowsNothing

(* All rows of a member who is not the last owner are doomed. *)
LEMMA PeaceDelete ==
    ASSUME RequestsOK, PeaceInv, raced \in BOOLEAN, NEW r \in Requests, DeleteMember(r)
    PROVE  PeaceInv'
<1>1. SUFFICES ASSUME ~raced', ~rejoined'
               PROVE  /\ RowsOK(mem', out') /\ OwnerStays(mem', out')
                      /\ \A x \in Requests : CleanOK(q'[x], mem')
  BY DEF PeaceInv
<1>2. Calm /\ ~q[r].dirty
  BY <1>1 DEF DeleteMember, Calm
<1>3. RowsOK(mem, out) /\ OwnerStays(mem, out) /\ CleanOK(q[r], mem)
  BY <1>2, PeaceOf
<1> DEFINE u == q[r].user
<1>4. u \in Users /\ q[r].pc = "delete"
  BY DEF DeleteMember, RequestsOK, RequestOK, MemberPcs
<1>5. /\ ~DoomedIn(mem) /\ mem[u] # <<>> /\ q[r].held = Newest(mem, u)
      /\ q[r].held.role = "owner" =>
            \E w \in Users \ {u} : mem[w] # <<>> /\ Newest(mem, w).role = "owner"
  BY <1>2, <1>3, <1>4 DEF CleanOK, MemberPcs
<1>6. out' = out \cup {u} /\ q' = Stale(q, r) /\ mem' = Delete(u, q[r].held.id)
  BY DEF DeleteMember
<1> HIDE DEF u
<1>7. mem' = Doomed(mem, u, Newest(mem, u).id)
  <2>1. Delete(u, q[r].held.id) = Doomed(mem, u, q[r].held.id)
    BY DEF Delete, Doomed
  <2> QED
    BY <1>5, <1>6, <2>1
<1>8. RowsOK(mem', out') /\ \A w \in Users \ {u} : mem'[w] = mem[w]
  <2>1. /\ RowsOK(Doomed(mem, u, Newest(mem, u).id), out \cup {u})
        /\ \A w \in Users \ {u} : Doomed(mem, u, Newest(mem, u).id)[w] = mem[w]
    BY <1>3, <1>4, <1>5, RowDoomed
  <2> QED
    BY <1>6, <1>7, <2>1
<1>9. \E w \in Users \ {u} : mem[w] # <<>> /\ Newest(mem, w).role = "owner" /\ w \notin out
  <2>1. CASE q[r].held.role = "owner"
    <3>1. PICK w \in Users \ {u} : mem[w] # <<>> /\ Newest(mem, w).role = "owner"
      BY <1>5, <2>1
    <3>2. w \notin out
      BY <1>3, <1>5, <3>1, MemberStays
    <3> QED
      BY <3>1, <3>2
  <2>2. CASE q[r].held.role # "owner"
    BY <1>3, <1>5, <2>2 DEF OwnerStays
  <2> QED
    BY <2>1, <2>2
<1>10. OwnerStays(mem', out')
  BY <1>6, <1>8, <1>9 DEF OwnerStays, Newest
<1> QED
  BY <1>6, <1>8, <1>10, StaleKnowsNothing

(* The owner becomes an admin, and the other member the owner. *)
LEMMA PeaceTransfer ==
    ASSUME RequestsOK, PeaceInv, raced \in BOOLEAN, NEW r \in Requests, WriteTransfer(r)
    PROVE  PeaceInv'
<1>1. SUFFICES ASSUME ~raced', ~rejoined'
               PROVE  /\ RowsOK(mem', out') /\ OwnerStays(mem', out')
                      /\ \A x \in Requests : CleanOK(q'[x], mem')
  BY DEF PeaceInv
<1>2. Calm /\ ~q[r].dirty
  BY <1>1 DEF WriteTransfer, Calm
<1>3. RowsOK(mem, out) /\ CleanOK(q[r], mem)
  BY <1>2, PeaceOf
<1> DEFINE a == q[r].actor
           u == q[r].user
           v == Version(q[r].own.id, "admin")
           z == Version(q[r].held.id, "owner")
<1>4. u \in Users /\ a \in Users /\ q[r].pc = "transferWrite"
  BY DEF WriteTransfer, RequestsOK, RequestOK, MemberPcs
<1>5. /\ ~DoomedIn(mem) /\ mem[u] # <<>> /\ q[r].held = Newest(mem, u)
      /\ mem[a] # <<>> /\ q[r].own = Newest(mem, a) /\ a # u
  BY <1>2, <1>3, <1>4 DEF CleanOK, MemberPcs
<1>6. /\ u \notin out /\ Newest(mem, u) \in RowVersion
      /\ a \notin out /\ Newest(mem, a) \in RowVersion
  BY <1>3, <1>4, <1>5, MemberStays
<1>7. /\ v \in RowVersion /\ v.doomed = FALSE /\ v.id = Newest(mem, a).id
      /\ z \in RowVersion /\ z.doomed = FALSE /\ z.id = Newest(mem, u).id /\ z.role = "owner"
  BY <1>4, <1>5, <1>6 DEF Version, RowVersion, Roles
<1>8. /\ mem' = [mem EXCEPT ![a] = Append(mem[a], v), ![u] = Append(mem[u], z)]
      /\ out' = out /\ q' = Stale(q, r)
  BY <1>5 DEF WriteTransfer
<1> HIDE DEF a, u, v, z
<1>9. PICK n : n = Appended(mem, a, v)
  OBVIOUS
<1>10. RowsOK(n, out) /\ n[u] = mem[u]
  <2>1. mem[a] # <<>> => v.id = Newest(mem, a).id
    BY <1>7
  <2>2. /\ RowsOK(Appended(mem, a, v), out)
        /\ \A w \in Users \ {a} : Appended(mem, a, v)[w] = mem[w]
    <3>1. RowsOK(mem, out) /\ a \in Users /\ a \notin out /\ v \in RowVersion /\ v.doomed = FALSE
      BY <1>3, <1>4, <1>6, <1>7
    <3> QED
      BY <2>1, <3>1, RowAppended
  <2> QED
    BY <1>4, <1>5, <1>9, <2>2
<1>11. Newest(n, u) = Newest(mem, u)
  BY <1>10 DEF Newest
<1>12. /\ RowsOK(Appended(n, u, z), out)
       /\ Appended(n, u, z)[u] # <<>> /\ Newest(Appended(n, u, z), u) = z
  <2>1. /\ RowsOK(n, out) /\ u \in Users /\ u \notin out
        /\ z \in RowVersion /\ z.doomed = FALSE /\ z.id = Newest(n, u).id
    BY <1>4, <1>6, <1>7, <1>10, <1>11
  <2>2. RowsOK(Appended(n, u, z), out)
    BY <2>1, RowsAppended
  <2>3. Appended(n, u, z)[u] # <<>>
    BY <2>1, RowsAppended
  <2>4. Newest(Appended(n, u, z), u) = z
    BY <2>1, RowsAppended
  <2> QED
    BY <2>2, <2>3, <2>4
<1>13. mem' = Appended(n, u, z)
  BY <1>4, <1>5, <1>8, <1>9, <1>10 DEF Appended
<1>14. OwnerStays(mem', out)
  BY <1>4, <1>6, <1>7, <1>12, <1>13 DEF OwnerStays
<1> QED
  BY <1>8, <1>12, <1>13, <1>14, StaleKnowsNothing

(* One who is no member joins, with a row of an id of its own. *)
LEMMA PeaceJoin ==
    ASSUME RequestsOK, ClosedInv, PeaceInv, rejoined \in BOOLEAN, NEW r \in Requests, Join(r)
    PROVE  PeaceInv'
<1>1. SUFFICES ASSUME ~raced', ~rejoined'
               PROVE  /\ RowsOK(mem', out') /\ OwnerStays(mem', out')
                      /\ \A x \in Requests : CleanOK(q'[x], mem')
  BY DEF PeaceInv
<1> DEFINE u == q[r].user
           v == Version(q[r].own, q[r].held.role)
<1>2. Calm /\ mem[u] = <<>>
  BY <1>1 DEF Join, Calm, IsMember
<1>3. RowsOK(mem, out) /\ OwnerStays(mem, out)
  BY <1>2, PeaceOf
<1>4. u \in Users /\ q[r].own \in Nat /\ q[r].held \in Invitation
  BY DEF Join, RequestsOK, RequestOK, AnswerPcs
<1>5. v \in RowVersion /\ v.doomed = FALSE
  BY <1>4 DEF Version, RowVersion, Invitation
<1>6. mem' = Appended(mem, u, v) /\ out' = out \ {u}
  <2>1. q[r].inv \notin spent
    BY DEF ClosedInv
  <2> QED
    BY <2>1 DEF Join, Appended
<1> HIDE DEF u, v
<1>7. RowsOK(mem, out \ {u})
  <2>1. ASSUME NEW w \in Users, NEW k \in DOMAIN mem[w]
        PROVE  mem[w][k].doomed = IF w \in out \ {u} THEN TRUE ELSE FALSE
    <3>1. w # u
      BY <1>2
    <3>2. mem[w][k].doomed = IF w \in out THEN TRUE ELSE FALSE
      BY <1>3 DEF RowsOK
    <3> QED
      BY <3>1, <3>2
  <2> QED
    BY <1>3, <2>1 DEF RowsOK
<1>8. u \notin out \ {u} /\ (mem[u] # <<>> => v.id = Newest(mem, u).id)
  BY <1>2
<1>9. /\ RowsOK(Appended(mem, u, v), out \ {u})
      /\ \A w \in Users \ {u} : Appended(mem, u, v)[w] = mem[w]
  <2>1. RowsOK(Appended(mem, u, v), out \ {u})
    BY <1>4, <1>5, <1>7, <1>8, RowAppended
  <2>2. \A w \in Users \ {u} : Appended(mem, u, v)[w] = mem[w]
    BY <1>4, <1>5, <1>7, <1>8, RowAppended
  <2> QED
    BY <2>1, <2>2
<1>10. OwnerStays(mem', out')
  <2>1. PICK w \in Users : mem[w] # <<>> /\ Newest(mem, w).role = "owner" /\ w \notin out
    BY <1>3 DEF OwnerStays
  <2>2. w # u
    BY <1>2, <2>1
  <2> QED
    BY <1>6, <1>9, <2>1, <2>2 DEF OwnerStays, Newest
<1>11. \A x \in Requests : CleanOK(q'[x], mem')
  <2>1. PICK f : f = Stale(q, r)
    OBVIOUS
  <2>2. PICK y : y = [q[r] EXCEPT !.pc = "accepted", !.dirty = FALSE]
    OBVIOUS
  <2>3. q' = [f EXCEPT ![r] = y] /\ DOMAIN f = Requests
    BY <2>1, <2>2 DEF Join, Stale
  <2>4. y.pc = "accepted"
    BY <2>2 DEF RequestsOK, RequestOK
  <2>5. CleanOK(y, mem')
    BY <2>4 DEF CleanOK, MemberPcs
  <2>6. \A x \in Requests : CleanOK(f[x], mem')
    BY <2>1, StaleKnowsNothing
  <2> QED
    BY <2>3, <2>5, <2>6
<1> QED
  BY <1>6, <1>9, <1>10, <1>11

(* A merge changes nothing that can be read; mutations take those who are out. *)
LEMMA PeaceMerge ==
    ASSUME RequestsOK, PeaceInv, NEW u \in Users, Merge(u)
    PROVE  PeaceInv'
<1>1. SUFFICES ASSUME ~raced', ~rejoined'
               PROVE  /\ RowsOK(mem', out') /\ OwnerStays(mem', out')
                      /\ \A x \in Requests : CleanOK(q'[x], mem')
  BY DEF PeaceInv
<1>2. Calm /\ out' = out /\ q' = q
  BY <1>1 DEF Merge, Calm
<1>3. RowsOK(mem, out) /\ OwnerStays(mem, out) /\ \A x \in Requests : CleanOK(q[x], mem)
  BY <1>2, PeaceOf
<1>4. mem[u] # <<>> /\ mem' = MergedRow(mem, u)
  BY DEF Merge, Newest, Last, MergedRow
<1>5. /\ RowsOK(mem', out)
      /\ \A w \in Users : (mem'[w] # <<>> <=> mem[w] # <<>>) /\ Newest(mem', w) = Newest(mem, w)
      /\ DoomedIn(mem') => DoomedIn(mem)
  BY <1>3, <1>4, RowMerged
<1>6. OwnerStays(mem', out)
  BY <1>3, <1>5 DEF OwnerStays
<1>7. ASSUME NEW x \in Requests PROVE CleanOK(q[x], mem')
  <2>1. CleanOK(q[x], mem) /\ RequestOK(q[x])
    BY <1>3 DEF RequestsOK
  <2>2. SUFFICES ASSUME q[x].pc \in MemberPcs, ~q[x].dirty PROVE CleanOK(q[x], mem')
    BY DEF CleanOK
  <2>3. q[x].user \in Users
    BY <2>1, <2>2 DEF RequestOK
  <2>4. q[x].pc \in {"transferTarget", "transferWrite"} => q[x].actor \in Users
    BY <2>1 DEF RequestOK
  <2> QED
    BY <1>5, <2>1, <2>2, <2>3, <2>4 DEF CleanOK
<1> QED
  BY <1>2, <1>5, <1>6, <1>7

LEMMA PeaceMutate == ASSUME RequestsOK, PeaceInv, Mutate PROVE PeaceInv'
<1>1. SUFFICES ASSUME ~raced', ~rejoined'
               PROVE  /\ RowsOK(mem', out') /\ OwnerStays(mem', out')
                      /\ \A x \in Requests : CleanOK(q'[x], mem')
  BY DEF PeaceInv
<1>2. Calm /\ out' = out /\ q' = Stale(q, None) /\ mem' = [u \in Users |-> Undoomed(mem[u])]
  BY <1>1 DEF Mutate, Calm
<1>3. RowsOK(mem, out) /\ OwnerStays(mem, out)
  BY <1>2, PeaceOf
<1>4. /\ RowsOK(mem', out)
      /\ \A u \in Users : u \notin out => mem'[u] = mem[u]
  BY <1>2, <1>3, RowsMutated
<1>5. OwnerStays(mem', out)
  BY <1>3, <1>4 DEF OwnerStays, Newest
<1> QED
  BY <1>2, <1>4, <1>5, StaleKnowsNothing

(* A step of one request that leaves the memberships alone. *)
LEMMA PeaceLocal ==
    ASSUME RequestsOK, PeaceInv, NEW r \in Requests, NEW x, q' = [q EXCEPT ![r] = x],
           mem' = mem, out' = out, raced' = raced, rejoined' = rejoined,
           Calm => CleanOK(x, mem)
    PROVE  PeaceInv'
  BY DEF PeaceInv, Calm, RequestsOK

LEMMA CleanIdle == ASSUME NEW m PROVE CleanOK(Idle, m)
  BY DEF CleanOK, Idle, MemberPcs

(* A request begins with what the guard read. *)
LEMMA PeaceBegun ==
    ASSUME RequestsOK, PeaceInv, NEW r \in Requests, NEW x, RequestOK(x), Begun(r, x),
           x.pc \in {"roleTarget", "removeTarget", "leaveSelf", "transferOwn"} \/ x.pc \notin MemberPcs,
           Calm /\ x.pc = "roleTarget" => x.own \in Roles
    PROVE  PeaceInv'
<1>1. PICK y : y = [x EXCEPT !.dirty = Late(x)]
  OBVIOUS
<1>2. y.pc = x.pc /\ y.own = x.own /\ y.dirty = Late(x)
  BY <1>1 DEF RequestOK
<1>3. Calm => CleanOK(y, mem)
  BY <1>2, RowReadings DEF CleanOK, Late, MemberPcs
<1>4. /\ q' = [q EXCEPT ![r] = y] /\ mem' = mem /\ out' = out
      /\ raced' = raced /\ rejoined' = rejoined
  BY <1>1 DEF Begun
<1> QED
  BY <1>3, <1>4, PeaceLocal

LEMMA PeaceBegins ==
    ASSUME RequestsOK, PeaceInv, NEW r \in Requests,
           \/ BeginUpdateRole(r) \/ BeginRemove(r) \/ BeginLeave(r) \/ BeginTransfer(r)
    PROVE  PeaceInv'
<1>1. CASE BeginUpdateRole(r)
  <2>1. PICK a \in Actors, u \in Users, role \in Roles :
           /\ MayAct(a, Managers)
           /\ Begun(r, [Idle EXCEPT !.pc = "roleTarget", !.actor = a, !.user = u, !.role = role,
                                    !.own = ActorRole(a)])
    BY <1>1 DEF BeginUpdateRole
  <2>2. PICK x : x = [Idle EXCEPT !.pc = "roleTarget", !.actor = a, !.user = u, !.role = role,
                                  !.own = ActorRole(a)]
    OBVIOUS
  <2>3. RequestOK(x) /\ x.pc = "roleTarget" /\ x.own = ActorRole(a)
    BY <2>1, <2>2 DEF RequestOK, Idle, Actors, MemberPcs, InvitePcs, AnswerPcs
  <2>4. ASSUME Calm PROVE ActorRole(a) \in Roles
    <3>1. CASE a = None
      BY <3>1 DEF ActorRole, Roles
    <3>2. CASE a # None
      <4>1. a \in Users /\ mem[a] # <<>> /\ mem \in [Users -> Seq(RowVersion)]
        BY <2>1, <2>4, <3>2, PeaceOf DEF Actors, MayAct, IsMember, RowsOK
      <4>2. mem[a] \in Seq(RowVersion) /\ Len(mem[a]) \in DOMAIN mem[a]
        BY <4>1
      <4>3. Last(mem[a]) \in RowVersion
        BY <4>2 DEF Last
      <4> QED
        BY <3>2, <4>3 DEF ActorRole, RowVersion
    <3> QED
      BY <3>1, <3>2
  <2> QED
    BY <2>1, <2>2, <2>3, <2>4, PeaceBegun
<1>2. CASE BeginRemove(r)
  <2>1. PICK a \in Actors, u \in Users :
           Begun(r, [Idle EXCEPT !.pc = "removeTarget", !.actor = a, !.user = u,
                                 !.own = ActorRole(a)])
    BY <1>2 DEF BeginRemove
  <2>2. PICK x : x = [Idle EXCEPT !.pc = "removeTarget", !.actor = a, !.user = u,
                                  !.own = ActorRole(a)]
    OBVIOUS
  <2>3. RequestOK(x) /\ x.pc = "removeTarget"
    BY <2>1, <2>2 DEF RequestOK, Idle, Actors, MemberPcs, InvitePcs, AnswerPcs
  <2> QED
    BY <2>1, <2>2, <2>3, PeaceBegun
<1>3. CASE BeginLeave(r)
  <2>1. PICK u \in Users : Begun(r, [Idle EXCEPT !.pc = "leaveSelf", !.user = u])
    BY <1>3 DEF BeginLeave
  <2>2. PICK x : x = [Idle EXCEPT !.pc = "leaveSelf", !.user = u]
    OBVIOUS
  <2>3. RequestOK(x) /\ x.pc = "leaveSelf"
    BY <2>1, <2>2 DEF RequestOK, Idle, Actors, MemberPcs, InvitePcs, AnswerPcs
  <2> QED
    BY <2>1, <2>2, <2>3, PeaceBegun
<1>4. CASE BeginTransfer(r)
  <2>1. PICK a \in Users, u \in Users :
           Begun(r, [Idle EXCEPT !.pc = "transferOwn", !.actor = a, !.user = u])
    BY <1>4 DEF BeginTransfer
  <2>2. PICK x : x = [Idle EXCEPT !.pc = "transferOwn", !.actor = a, !.user = u]
    OBVIOUS
  <2>3. RequestOK(x) /\ x.pc = "transferOwn"
    BY <2>1, <2>2 DEF RequestOK, Idle, Actors, MemberPcs, InvitePcs, AnswerPcs
  <2> QED
    BY <2>1, <2>2, <2>3, PeaceBegun
<1> QED
  BY <1>1, <1>2, <1>3, <1>4

(* A read of a request that goes on with its own mark. *)
LEMMA PeaceReads ==
    ASSUME RequestsOK, PeaceInv, NEW r \in Requests,
           \/ ReadRoleTarget(r) \/ ReadRemoveTarget(r) \/ ReadLeaver(r) \/ CountOwners(r)
           \/ ReadTransferOwner(r) \/ ReadTransferTarget(r)
    PROVE  PeaceInv'
<1> DEFINE u == q[r].user
           t == Newest(mem, u)
<1>1. /\ RequestOK(q[r]) /\ q[r].pc \in MemberPcs /\ u \in Users
      /\ mem' = mem /\ out' = out /\ raced' = raced /\ rejoined' = rejoined
  BY DEF RequestsOK, RequestOK, MemberPcs, Local, ReadRoleTarget, ReadRemoveTarget, ReadLeaver,
         CountOwners, ReadTransferOwner, ReadTransferTarget
<1>2. SUFFICES ASSUME NEW x, q' = [q EXCEPT ![r] = x], x # Idle, Calm PROVE CleanOK(x, mem)
  <2>1. \E x : q' = [q EXCEPT ![r] = x]
    BY DEF Local, ReadRoleTarget, ReadRemoveTarget, ReadLeaver,
           CountOwners, ReadTransferOwner, ReadTransferTarget
  <2> QED
    BY <1>1, <1>2, <2>1, PeaceLocal, CleanIdle
<1>3. CleanOK(q[r], mem) /\ RowsOK(mem, out)
  BY <1>2, PeaceOf
<1>4. x = q'[r]
  BY <1>2 DEF RequestsOK
<1> HIDE DEF u, t
<1>5. CASE ReadRoleTarget(r)
  <2>1. /\ q[r].pc = "roleTarget" /\ mem[u] # <<>> /\ Rank[q[r].own] > Rank[t.role]
        /\ x = [q[r] EXCEPT !.pc = "roleWrite", !.held = t, !.actor = None, !.own = None]
    BY <1>1, <1>2, <1>4, <1>5, RowReadings DEF ReadRoleTarget, Local, CanModifyMember, u, t, RequestsOK
  <2>2. /\ x.pc = "roleWrite" /\ x.held = t /\ x.user = u /\ x.dirty = q[r].dirty
    BY <1>1, <2>1 DEF RequestOK, u
  <2>3. ~x.dirty => ~DoomedIn(mem) /\ q[r].own \in Roles
    BY <1>3, <2>1, <2>2 DEF CleanOK, MemberPcs
  <2>4. q[r].own \in Roles => t.role # "owner"
    BY <2>1 DEF Rank, Roles
  <2> QED
    BY <2>1, <2>2, <2>3, <2>4 DEF CleanOK, t
<1>6. CASE ReadRemoveTarget(r) \/ ReadLeaver(r)
  <2>1. /\ q[r].pc \in {"removeTarget", "leaveSelf"} /\ mem[u] # <<>>
        /\ LET pc == IF t.role = "owner" THEN "count" ELSE "delete"
           IN  \/ x = [q[r] EXCEPT !.held = t, !.actor = None, !.own = None, !.pc = pc]
               \/ x = [q[r] EXCEPT !.held = t, !.pc = pc]
    BY <1>1, <1>2, <1>4, <1>6, RowReadings
       DEF ReadRemoveTarget, ReadLeaver, Local, u, t, RequestsOK
  <2>2. /\ x.pc = IF t.role = "owner" THEN "count" ELSE "delete"
        /\ x.held = t /\ x.user = u /\ x.dirty = q[r].dirty
    BY <1>1, <2>1 DEF RequestOK, u
  <2>3. ~x.dirty => ~DoomedIn(mem)
    BY <1>1, <1>3, <2>2 DEF CleanOK
  <2> QED
    BY <2>1, <2>2, <2>3 DEF CleanOK, t
<1>7. CASE CountOwners(r)
  <2>1. /\ q[r].pc = "count" /\ ~LastOwner(Cardinality(Owners))
        /\ x = [q[r] EXCEPT !.pc = "delete"]
    BY <1>2, <1>4, <1>7 DEF CountOwners, Local, RequestsOK
  <2>2. x.pc = "delete" /\ x.held = q[r].held /\ x.user = u /\ x.dirty = q[r].dirty
    BY <1>1, <2>1 DEF RequestOK, u
  <2>3. ~x.dirty => ~DoomedIn(mem) /\ mem[u] # <<>> /\ x.held = t
    BY <1>1, <1>3, <2>1, <2>2 DEF CleanOK, u, t
  <2>4. \E w \in Users \ {u} : mem[w] # <<>> /\ Newest(mem, w).role = "owner"
    <3>1. Owners = {} \/ Owners = {u} \/ \E w \in Owners : w # u
      OBVIOUS
    <3>2. Cardinality({}) = 0 /\ Cardinality({u}) = 1
      BY FS_EmptySet, FS_Singleton
    <3>3. \E w \in Owners : w # u
      BY <2>1, <3>1, <3>2 DEF LastOwner
    <3> QED
      BY <3>3, RowReadings DEF OwnersIn
  <2> QED
    BY <2>2, <2>3, <2>4 DEF CleanOK, t
<1>8. CASE ReadTransferOwner(r)
  <2> DEFINE a == q[r].actor
  <2>1. q[r].pc = "transferOwn" /\ a \in Users
    BY <1>1, <1>8 DEF ReadTransferOwner, RequestOK
  <2>2. /\ mem[a] # <<>> /\ a # u
        /\ x = [q[r] EXCEPT !.pc = "transferTarget", !.own = Newest(mem, a)]
    BY <1>2, <1>4, <1>8, <2>1, RowReadings DEF ReadTransferOwner, Local, u, RequestsOK
  <2>3. /\ x.pc = "transferTarget" /\ x.own = Newest(mem, a) /\ x.actor = a /\ x.user = u
        /\ x.dirty = q[r].dirty
    BY <1>1, <2>2 DEF RequestOK, u
  <2>4. ~x.dirty => ~DoomedIn(mem)
    BY <1>1, <1>3, <2>3 DEF CleanOK
  <2> QED
    BY <2>2, <2>3, <2>4 DEF CleanOK
<1>9. CASE ReadTransferTarget(r)
  <2> DEFINE a == q[r].actor
  <2>1. /\ q[r].pc = "transferTarget" /\ mem[u] # <<>>
        /\ x = [q[r] EXCEPT !.pc = "transferWrite", !.held = t]
    BY <1>1, <1>2, <1>4, <1>9, RowReadings DEF ReadTransferTarget, Local, u, t, RequestsOK
  <2>2. /\ x.pc = "transferWrite" /\ x.own = q[r].own /\ x.actor = a /\ x.user = u
        /\ x.dirty = q[r].dirty /\ x.held = t
    BY <1>1, <2>1 DEF RequestOK, u
  <2>3. ~x.dirty => ~DoomedIn(mem) /\ mem[a] # <<>> /\ x.own = Newest(mem, a) /\ a # u
    BY <1>1, <1>3, <2>1, <2>2 DEF CleanOK, u
  <2> QED
    BY <2>1, <2>2, <2>3 DEF CleanOK, t
<1> QED
  BY <1>5, <1>6, <1>7, <1>8, <1>9

-----------------------------------------------------------------------------
(* The steps of InvitationsService.                                        *)

(* The service leaves the memberships alone until a user joins. *)
LEMMA PeaceInvitation ==
    ASSUME RequestsOK, PeaceInv, NEW r \in Requests, InvitationStep(r), ~Join(r)
    PROVE  PeaceInv'
<1>0. RequestOK(q[r])
  BY DEF RequestsOK
<1>1. /\ mem' = mem /\ out' = out /\ raced' = raced /\ rejoined' = rejoined
  BY DEF InvitationStep, BeginInvite, CheckInvitee, CheckPending, InsertInvitation, BeginResend,
         WriteResend, BeginRevoke, WriteRevoke, BeginAccept, FindUser, CreateUser, InsertUser,
         WriteAccepted, Answer, Begun, Local
<1>2. SUFFICES ASSUME NEW x \in Requests, CleanOK(q[x], mem) PROVE CleanOK(q'[x], mem)
  BY <1>1, <1>2 DEF PeaceInv
<1>3. SUFFICES q'[x].pc \in MemberPcs => q'[x] = q[x]
  BY <1>2, <1>3 DEF CleanOK
<1>4. ASSUME NEW y, y.pc \notin MemberPcs, q' = [q EXCEPT ![r] = y]
      PROVE  q'[x].pc \in MemberPcs => q'[x] = q[x]
  BY <1>4 DEF RequestsOK
<1>5. Idle.pc \notin MemberPcs
  BY DEF Idle, MemberPcs
<1>6. CASE BeginInvite(r) \/ BeginResend(r) \/ BeginRevoke(r) \/ BeginAccept(r)
  <2>1. ASSUME NEW z, RequestOK(z), z.pc \notin MemberPcs, Begun(r, z)
        PROVE  q'[x].pc \in MemberPcs => q'[x] = q[x]
    <3>1. PICK y : y = [z EXCEPT !.dirty = Late(z)]
      OBVIOUS
    <3>2. y.pc = z.pc /\ q' = [q EXCEPT ![r] = y]
      BY <2>1, <3>1 DEF RequestOK, Begun
    <3> QED
      BY <1>4, <2>1, <3>2
  <2>2. CASE BeginInvite(r)
    <3>1. PICK e \in Emails, role \in Roles \ {"owner"} :
             Begun(r, [Idle EXCEPT !.pc = "inviteMember", !.held = e, !.role = role])
      BY <2>2 DEF BeginInvite
    <3>2. PICK z : z = [Idle EXCEPT !.pc = "inviteMember", !.held = e, !.role = role]
      OBVIOUS
    <3>3. RequestOK(z) /\ z.pc \notin MemberPcs
      BY <3>1, <3>2 DEF RequestOK, Idle, MemberPcs, InvitePcs, AnswerPcs
    <3> QED
      BY <2>1, <3>1, <3>2, <3>3
  <2>3. CASE BeginResend(r) \/ BeginRevoke(r)
    <3>1. PICK i \in Invites, pc \in {"resend", "revoke"} :
             inv[i] # None /\ Begun(r, [Idle EXCEPT !.pc = pc, !.inv = i, !.held = inv[i]])
      BY <2>3 DEF BeginResend, BeginRevoke, Resendable
    <3>2. PICK z : z = [Idle EXCEPT !.pc = pc, !.inv = i, !.held = inv[i]]
      OBVIOUS
    <3>3. inv[i] \in Invitation
      BY <3>1 DEF RequestsOK
    <3>4. RequestOK(z) /\ z.pc \notin MemberPcs
      BY <3>1, <3>2, <3>3 DEF RequestOK, Idle, MemberPcs, InvitePcs, AnswerPcs
    <3> QED
      BY <2>1, <3>1, <3>2, <3>4
  <2>4. CASE BeginAccept(r)
    <3>1. PICK i \in Invites :
             /\ inv[i] # None
             /\ Begun(r, [Idle EXCEPT !.pc = "acceptUser", !.inv = i, !.held = inv[i],
                                      !.own = ops + 1])
      BY <2>4 DEF BeginAccept
    <3>2. PICK z : z = [Idle EXCEPT !.pc = "acceptUser", !.inv = i, !.held = inv[i],
                                    !.own = ops + 1]
      OBVIOUS
    <3>3. inv[i] \in Invitation /\ ops + 1 \in Nat
      BY <3>1 DEF RequestsOK, Invitation
    <3>4. RequestOK(z) /\ z.pc \notin MemberPcs
      BY <3>1, <3>2, <3>3 DEF RequestOK, Idle, MemberPcs, InvitePcs, AnswerPcs
    <3> QED
      BY <2>1, <3>1, <3>2, <3>4
  <2> QED
    BY <1>6, <2>2, <2>3, <2>4
<1>7. CASE CheckInvitee(r) \/ CheckPending(r)
  <2>1. PICK y : /\ q' = [q EXCEPT ![r] = y]
                 /\ y = Idle \/ y.pc \in {"invitePending", "inviteInsert"}
    BY <1>0, <1>7 DEF CheckInvitee, CheckPending, Local, RequestOK
  <2> QED
    BY <1>4, <1>5, <2>1 DEF MemberPcs
<1>8. CASE InsertInvitation(r) \/ WriteAccepted(r)
  BY <1>4, <1>5, <1>8 DEF InsertInvitation, WriteAccepted, Answer
<1>9. CASE FindUser(r) \/ CreateUser(r) \/ InsertUser(r)
  <2>1. PICK y : /\ q' = [q EXCEPT ![r] = y]
                 /\ y = Idle \/ y.pc \in {"join", "createUser", "insertUser"}
    <3>1. CASE FindUser(r)
      <4>1. ASSUME NEW u PROVE [q[r] EXCEPT !.user = u, !.pc = "join"].pc = "join"
        BY <1>0 DEF RequestOK
      <4>2. [q[r] EXCEPT !.pc = "createUser"].pc = "createUser"
        BY <1>0 DEF RequestOK
      <4>3. \/ \E u \in Users : Local(r, [q[r] EXCEPT !.user = u, !.pc = "join"])
            \/ Local(r, [q[r] EXCEPT !.pc = "createUser"])
        BY <3>1 DEF FindUser, Accounts
      <4>4. CASE \E u \in Users : Local(r, [q[r] EXCEPT !.user = u, !.pc = "join"])
        <5>1. PICK u \in Users : Local(r, [q[r] EXCEPT !.user = u, !.pc = "join"])
          BY <4>4
        <5>2. PICK y : y = [q[r] EXCEPT !.user = u, !.pc = "join"]
          OBVIOUS
        <5>3. q' = [q EXCEPT ![r] = y] /\ y.pc = "join"
          BY <4>1, <5>1, <5>2 DEF Local
        <5> QED
          BY <5>3
      <4>5. CASE Local(r, [q[r] EXCEPT !.pc = "createUser"])
        <5>1. PICK y : y = [q[r] EXCEPT !.pc = "createUser"]
          OBVIOUS
        <5>2. q' = [q EXCEPT ![r] = y] /\ y.pc = "createUser"
          BY <4>2, <4>5, <5>1 DEF Local
        <5> QED
          BY <5>2
      <4> QED
        BY <4>3, <4>4, <4>5
    <3>2. CASE CreateUser(r)
      <4>1. PICK y : y = [q[r] EXCEPT !.pc = "insertUser"]
        OBVIOUS
      <4>2. y.pc = "insertUser"
        BY <1>0, <4>1 DEF RequestOK
      <4>3. q' = [q EXCEPT ![r] = y] \/ q' = [q EXCEPT ![r] = Idle]
        BY <3>2, <4>1 DEF CreateUser, Local
      <4> QED
        BY <4>2, <4>3
    <3>3. CASE InsertUser(r)
      <4>1. PICK u \in Users : q' = [q EXCEPT ![r].user = u, ![r].pc = "join"]
        BY <3>3 DEF InsertUser
      <4>2. PICK y : y = [q[r] EXCEPT !.user = u, !.pc = "join"]
        OBVIOUS
      <4>3. q' = [q EXCEPT ![r] = y] /\ y.pc = "join"
        BY <1>0, <4>1, <4>2 DEF RequestOK, RequestsOK
      <4> QED
        BY <4>3
    <3> QED
      BY <1>9, <3>1, <3>2, <3>3
  <2> QED
    BY <1>4, <1>5, <2>1 DEF MemberPcs
<1>10. CASE WriteResend(r) \/ WriteRevoke(r)
  <2>1. PICK y : y = [q[x] EXCEPT !.beaten = TRUE]
    OBVIOUS
  <2>2. RequestOK(q[x])
    BY DEF RequestsOK
  <2>3. y.pc = q[x].pc
    BY <2>1, <2>2 DEF RequestOK
  <2>4. q'[x] = Idle \/ q'[x] = q[x] \/ (q'[x] = y /\ q[x].pc = "accepted")
    BY <1>10, <2>1 DEF WriteResend, WriteRevoke, Beat
  <2> QED
    BY <1>5, <2>3, <2>4 DEF MemberPcs
<1> QED
  BY <1>6, <1>7, <1>8, <1>9, <1>10 DEF InvitationStep

-----------------------------------------------------------------------------

(* The history the properties look at, and the inductive invariant. *)
FlagsOK == raced \in BOOLEAN /\ rejoined \in BOOLEAN /\ out \subseteq Users

MembersInv == RevokedInv /\ FlagsOK /\ PeaceInv

LEMMA PeaceInit == ASSUME Init PROVE PeaceInv
<1> DEFINE fresh(x) == [id |-> 0, role |-> x, doomed |-> FALSE]
<1>1. out = {} /\ q = [r \in Requests |-> Idle]
  BY DEF Init
<1>2. \A u \in Users : mem[u] = <<>> \/ \E x \in Roles : mem[u] = << fresh(x) >>
  BY DEF Init
<1>3. \A x \in Roles : fresh(x) \in RowVersion /\ ~fresh(x).doomed
  BY DEF RowVersion
<1>4. mem = [u \in Users |-> mem[u]]
  BY DEF Init
<1> HIDE DEF fresh
<1>5. mem \in [Users -> Seq(RowVersion)]
  <2>1. ASSUME NEW u \in Users PROVE mem[u] \in Seq(RowVersion)
    <3>1. CASE mem[u] = <<>>
      BY <3>1
    <3>2. CASE \E x \in Roles : mem[u] = << fresh(x) >>
      <4>1. PICK v \in RowVersion : mem[u] = <<v>>
        BY <1>3, <3>2
      <4> QED
        BY <4>1
    <3> QED
      BY <1>2, <3>1, <3>2
  <2> QED
    BY <1>4, <2>1
<1>6. ASSUME NEW u \in Users PROVE \A k \in DOMAIN mem[u] : k = 1 /\ ~mem[u][k].doomed
  BY <1>2, <1>3
<1>7. ASSUME NEW u \in Users PROVE \A k \in DOMAIN mem[u] : mem[u][k].doomed = FALSE
  <2>1. ASSUME NEW k \in DOMAIN mem[u] PROVE mem[u][k].doomed = FALSE
    <3>1. mem[u][k] \in RowVersion
      BY <1>5
    <3> QED
      BY <1>6, <3>1 DEF RowVersion
  <2> QED
    BY <2>1
<1>8. RowsOK(mem, out)
  <2>1. \A u \in Users : \A k, l \in DOMAIN mem[u] : mem[u][k].id = mem[u][l].id
    BY <1>6
  <2>2. \A u \in Users : \A k \in DOMAIN mem[u] :
            mem[u][k].doomed = IF u \in out THEN TRUE ELSE FALSE
    BY <1>1, <1>7
  <2> QED
    BY <1>5, <2>1, <2>2 DEF RowsOK
<1>9. OwnerStays(mem, out)
  <2>1. Founder \in Users /\ mem[Founder] # <<>> /\ mem[Founder][1].role = "owner"
    BY MembershipConstants DEF Init
  <2>2. Len(mem[Founder]) = 1
    <3>1. PICK v : mem[Founder] = <<v>>
      BY <1>2, <2>1
    <3> QED
      BY <3>1
  <2> QED
    BY <1>1, <2>1, <2>2 DEF OwnerStays, Newest
<1> QED
  BY <1>1, <1>8, <1>9, CleanIdle DEF PeaceInv

LEMMA PeaceStep ==
    ASSUME MembersInv, [Next]_vars
    PROVE  PeaceInv'
<1>0. RequestsOK /\ ClosedInv /\ PeaceInv /\ raced \in BOOLEAN /\ rejoined \in BOOLEAN
  BY DEF MembersInv, RevokedInv, FlagsOK
<1>1. ASSUME NEW r \in Requests, MemberStep(r) PROVE PeaceInv'
  BY <1>0, <1>1, PeaceBegins, PeaceReads, PeaceWriteRole, PeaceDelete, PeaceTransfer DEF MemberStep
<1>2. ASSUME NEW r \in Requests, InvitationStep(r) PROVE PeaceInv'
  BY <1>0, <1>2, PeaceInvitation, PeaceJoin
<1>3. ASSUME NEW i \in Invites, Expire(i) PROVE PeaceInv'
  BY <1>0, <1>3 DEF Expire, PeaceInv
<1>4. ASSUME NEW u \in Users, Merge(u) PROVE PeaceInv'
  BY <1>0, <1>4, PeaceMerge
<1>5. CASE Mutate
  BY <1>0, <1>5, PeaceMutate
<1>6. CASE UNCHANGED vars
  BY <1>0, <1>6 DEF vars, PeaceInv
<1>7. ASSUME NEW r \in Requests, Fails(r) PROVE PeaceInv'
  BY <1>0, <1>7, PeaceLocal, CleanIdle DEF Fails, Local
<1> QED
  BY <1>1, <1>2, <1>3, <1>4, <1>5, <1>6, <1>7 DEF Next

LEMMA FlagsStep == ASSUME RequestsOK, FlagsOK, [Next]_vars PROVE FlagsOK'
<1> USE DEF FlagsOK
<1>1. ASSUME NEW r \in Requests, DeleteMember(r) PROVE FlagsOK'
  <2>1. q[r].user \in Users
    BY <1>1 DEF DeleteMember, RequestsOK, RequestOK, MemberPcs
  <2> QED
    BY <1>1, <2>1 DEF DeleteMember
<1>2. ASSUME NEW r \in Requests, MemberStep(r), ~DeleteMember(r) PROVE FlagsOK'
  BY <1>2 DEF MemberStep, Begun, Local, BeginUpdateRole, ReadRoleTarget, WriteRole,
              BeginRemove, ReadRemoveTarget, BeginLeave, ReadLeaver, CountOwners,
              BeginTransfer, ReadTransferOwner, ReadTransferTarget, WriteTransfer
<1>3. ASSUME NEW r \in Requests, InvitationStep(r) PROVE FlagsOK'
  BY <1>3 DEF InvitationStep, BeginInvite, CheckInvitee, CheckPending, InsertInvitation,
              BeginResend, WriteResend, BeginRevoke, WriteRevoke, BeginAccept, FindUser,
              CreateUser, InsertUser, Join, WriteAccepted, Answer, Begun, Local
<1>4. CASE \/ \E i \in Invites : Expire(i)
           \/ \E u \in Users : Merge(u)
           \/ \E r \in Requests : Fails(r)
           \/ Mutate \/ UNCHANGED vars
  BY <1>4 DEF Expire, Merge, Fails, Local, Mutate, vars
<1> QED
  BY <1>1, <1>2, <1>3, <1>4 DEF Next

LEMMA MembersInvariant == Spec => []MembersInv
<1>1. Init => MembersInv
  <2>1. Init => FlagsOK
    BY DEF Init, FlagsOK
  <2> QED
    BY <2>1, RevokedInit, PeaceInit DEF MembersInv
<1>2. MembersInv /\ [Next]_vars => MembersInv'
  BY RevokedStep, PeaceStep, FlagsStep DEF MembersInv, RevokedInv
<1> QED
  BY <1>1, <1>2, PTL DEF Spec

(* The checks of updateRole(), remove(), leave() and transferOwnership()   *)
(* leave the workspace an owner unless one of them acted on a read that    *)
(* another request or a mutation had overtaken, or a member joined twice.  *)
THEOREM AnOwnerIsKept == Spec => []OwnerKept
<1>1. MembersInv => OwnerKept
  <2>1. SUFFICES ASSUME MembersInv, ~raced, ~rejoined PROVE Owners # {}
    BY DEF OwnerKept
  <2>2. OwnerStays(mem, out)
    BY <2>1 DEF MembersInv, PeaceInv
  <2> QED
    BY <2>2, RowReadings DEF OwnerStays, OwnersIn
<1> QED
  BY <1>1, MembersInvariant, PTL

(* Who was removed or left is no member once the mutation has run: the     *)
(* delete by id reaches every version, merged or not, nothing writes one   *)
(* back, and nobody is at work on an invitation that was spent.            *)
THEOREM TheRemovedStayOut == Spec => []RemovalSticks
<1>1. MembersInv => RemovalSticks
  <2>1. SUFFICES ASSUME MembersInv, ~raced, ~rejoined, ~SomeDoomed, NEW u \in out, IsMember(u)
                 PROVE  FALSE
    BY DEF RemovalSticks
  <2>2. u \in Users /\ RowsOK(mem, out)
    BY <2>1 DEF MembersInv, FlagsOK, PeaceInv
  <2>3. mem[u] # <<>> /\ mem[u] \in Seq(RowVersion)
    BY <2>1, <2>2 DEF IsMember, RowsOK
  <2>4. 1 \in DOMAIN mem[u]
    BY <2>3
  <2>5. mem[u][1].doomed
    BY <2>2, <2>4 DEF RowsOK
  <2> QED
    BY <2>1, <2>2, <2>4, <2>5 DEF SomeDoomed
<1> QED
  BY <1>1, MembersInvariant, PTL
=============================================================================
