--------------------------- MODULE Subscriptions ---------------------------
(***************************************************************************)
(* Report subscriptions (api/src/subscriptions): the rows of               *)
(* report_subscriptions, the requests that edit them or send a report at   *)
(* once, and the cron job that mails the reports that are due.             *)
(*                                                                         *)
(* Every write inserts the whole row a handler read before, with some      *)
(* columns changed, and the newest row wins: a read and the write made     *)
(* from it are separate steps.  The cron job has no guard against a run    *)
(* that is still going on or another instance, so several runners may      *)
(* work at the same time.  Dates are slots of a clock: calculateNextSendAt *)
(* gives some slot after the present one.                                  *)
(***************************************************************************)
EXTENDS Naturals, FiniteSets

CONSTANTS
    Subs,
    Runners,    \* runs of processScheduledReports() that may overlap
    Requests,   \* user requests served at the same time
    Enabled,    \* SUBSCRIPTIONS_ENABLED of the deployment
    FailLimit,  \* consecutive failures that disable a subscription (5)
    MaxNow,     \* bound: the clock
    MaxThrown,  \* bound: failures of mail, report or database per subscription
    MaxAborts,  \* bound: crashes and failed writes of the error path
    MaxEdits    \* bound: user requests

ASSUME SubscriptionsAssumption ==
    /\ Enabled \in BOOLEAN
    /\ FailLimit \in Nat \ {0}
    /\ IsFiniteSet(Runners)
    /\ MaxNow \in Nat /\ MaxThrown \in Nat /\ MaxAborts \in Nat /\ MaxEdits \in Nat

VARIABLES
    row,      \* the newest row of a subscription
    now,
    pc,       \* where each runner is
    todo,     \* due rows it has not come to, with the slot it read
    cur,      \* the one it is processing
    snap,     \* row read by markSent() or markFailed()
    req,      \* each request: what it does, to which subscription, row read
    thrown,   \* exceptions met while a subscription was processed
    mails,    \* scheduled mails per subscription and slot
    deleted,  \* subscriptions a user deleted
    crossed,  \* subscriptions a run took up while another one was at work on them
    aborts,
    edits

runVars == <<pc, todo, cur, snap>>
ghosts == <<thrown, mails, deleted, crossed>>
vars == <<row, now, runVars, req, ghosts, aborts, edits>>

Slots == 0..(MaxNow + 1)    \* 0: next_send_at is null
Rows == [status : {"absent", "active", "paused", "disabled"}, next : Slots, fails : 0..FailLimit]
Entries == [sub : Subs, next : Slots]
Ops == {"update", "pause", "resume", "delete", "mailing", "mailed", "marking"}
Pcs == {"idle", "loop", "checked", "mailed", "marking", "audit", "threw", "failing", "failAudit"}

Row(status, next, fails) == [status |-> status, next |-> next, fails |-> fails]
Absent == Row("absent", 0, 0)
NoRequest == [op |-> "none"]
Request(op, s, x) == [op |-> op, sub |-> s, snap |-> x]
NoEntry == [next |-> 0]

(* A subscription may be there already, paused. *)
Init ==
    /\ row \in [Subs -> {Absent, Row("paused", 0, 0)}]
    /\ now = 0
    /\ pc = [r \in Runners |-> "idle"]
    /\ todo = [r \in Runners |-> {}]
    /\ cur = [r \in Runners |-> NoEntry]
    /\ snap = [r \in Runners |-> Absent]
    /\ req = [q \in Requests |-> NoRequest]
    /\ thrown = [s \in Subs |-> 0]
    /\ mails = [s \in Subs |-> [n \in Slots |-> 0]]
    /\ deleted = {} /\ crossed = {}
    /\ aborts = 0 /\ edits = 0

-----------------------------------------------------------------------------
(* calculateNextSendAt(): a slot after the present one, which one depends   *)
(* on the frequency.                                                       *)
NextSendAt == {n \in Slots : n > now}

(* get() and getById() do not see disabled rows. *)
Found(s) == row[s].status \in {"active", "paused"}

(* Mutant: a success leaves next_send_at alone. *)
SentSameSlot(old, n) == Row(old.status, old.next, 0)

(* The row markSent() writes. *)
Sent(old, n) == Row(old.status, n, 0)

(* Mutant: the count is compared before it grows. *)
FailedLate(old) ==
    Row(IF old.fails >= FailLimit THEN "disabled" ELSE old.status, old.next, old.fails + 1)

(* Mutant: one failure short. *)
FailedEarly(old) ==
    Row(IF old.fails + 2 >= FailLimit THEN "disabled" ELSE old.status, old.next, old.fails + 1)

(* The row markFailed() writes: next_send_at stays, so the next run retries. *)
Failed(old) ==
    Row(IF old.fails + 1 >= FailLimit THEN "disabled" ELSE old.status, old.next, old.fails + 1)

(* Mutant: resume() does not schedule. *)
EditedUnscheduled(op, old, n) ==
    CASE op = "update" -> Row(old.status, IF old.status = "active" THEN n ELSE 0, old.fails)
      [] op = "pause" -> Row("paused", 0, old.fails)
      [] op = "resume" -> Row("active", old.next, old.fails)
      [] op = "delete" -> Row("disabled", 0, old.fails)

(* The row an edit writes. *)
Edited(op, old, n) ==
    CASE op = "update" -> Row(old.status, IF old.status = "active" THEN n ELSE 0, old.fails)
      [] op = "pause" -> Row("paused", 0, old.fails)
      [] op = "resume" -> Row("active", n, old.fails)
      [] op = "delete" -> Row("disabled", 0, old.fails)

-----------------------------------------------------------------------------
(* Requests. *)
Create(s) ==
    /\ row[s].status = "absent"
    /\ \E n \in NextSendAt : row' = [row EXCEPT ![s] = Row("active", n, 0)]
    /\ UNCHANGED <<now, runVars, req, ghosts, aborts, edits>>

(* update(), pause(), resume(), delete() and sendNow(): the row is read. *)
RequestReads(q, s, op) ==
    /\ req[q] = NoRequest
    /\ edits < MaxEdits
    /\ Found(s)
    /\ req' = [req EXCEPT ![q] = Request(op, s, row[s])]
    /\ edits' = edits + 1
    /\ UNCHANGED <<row, now, runVars, ghosts, aborts>>

RequestWrites(q) ==
    /\ req[q].op \in {"update", "pause", "resume", "delete"}
    /\ \E n \in NextSendAt :
          row' = [row EXCEPT ![req[q].sub] = Edited(req[q].op, req[q].snap, n)]
    /\ deleted' = IF req[q].op = "delete" THEN deleted \cup {req[q].sub} ELSE deleted
    /\ req' = [req EXCEPT ![q] = NoRequest]
    /\ UNCHANGED <<now, runVars, thrown, mails, crossed, aborts, edits>>

(* sendNow(): the report is generated and mailed, then markSent(). *)
SendNowMails(q) ==
    /\ req[q].op = "mailing"
    /\ req' = [req EXCEPT ![q] = Request("mailed", req[q].sub, req[q].snap)]
    /\ UNCHANGED <<row, now, runVars, ghosts, aborts, edits>>

SendNowMarkReads(q) ==
    /\ req[q].op = "mailed"
    /\ IF Found(req[q].sub)
       THEN req' = [req EXCEPT ![q] = Request("marking", req[q].sub, row[req[q].sub])]
       ELSE req' = [req EXCEPT ![q] = NoRequest]
    /\ UNCHANGED <<row, now, runVars, ghosts, aborts, edits>>

SendNowMarks(q) ==
    /\ req[q].op = "marking"
    /\ \E n \in NextSendAt : row' = [row EXCEPT ![req[q].sub] = Sent(req[q].snap, n)]
    /\ req' = [req EXCEPT ![q] = NoRequest]
    /\ UNCHANGED <<now, runVars, ghosts, aborts, edits>>

(* An exception goes to the client; nothing is recorded. *)
RequestFails(q) ==
    /\ req[q] # NoRequest
    /\ req' = [req EXCEPT ![q] = NoRequest]
    /\ UNCHANGED <<row, now, runVars, ghosts, aborts, edits>>

TimePasses ==
    /\ now < MaxNow
    /\ now' = now + 1
    /\ UNCHANGED <<row, runVars, req, ghosts, aborts, edits>>

-----------------------------------------------------------------------------
(* The cron job. *)
IsDue(s) == row[s].status = "active" /\ row[s].next \in 1..now

(* findDue(); a run that finds nothing is over at once. *)
FindDue(r) ==
    /\ Enabled
    /\ pc[r] = "idle"
    /\ \E s \in Subs : IsDue(s)
    /\ todo' = [todo EXCEPT ![r] = {[sub |-> s, next |-> row[s].next] : s \in {s \in Subs : IsDue(s)}}]
    /\ pc' = [pc EXCEPT ![r] = "loop"]
    /\ UNCHANGED <<row, now, cur, snap, req, ghosts, aborts, edits>>

(* Another runner has this subscription in hand. *)
InHand(r, s) == \E o \in Runners \ {r} : pc[o] \notin {"idle", "loop"} /\ cur[o].sub = s

TakesUp(r, s) == crossed' = IF InHand(r, s) THEN crossed \cup {s} ELSE crossed

(* Mutant: the row is not looked at again. *)
UnchangedSinceAlways(e) == TRUE

(* Mutant: the slots are compared in two formats and never agree. *)
UnchangedSinceMoved(e) ==
    /\ row[e.sub].status = "active"
    /\ row[e.sub].next # e.next

(* The re-fetch: the row is still active and still at the slot found due. *)
UnchangedSince(e) ==
    /\ row[e.sub].status = "active"
    /\ row[e.sub].next = e.next

(* processSubscription() up to the re-fetch, in the order of next_send_at. *)
Refetch(r) ==
    /\ pc[r] = "loop"
    /\ \E e \in todo[r] :
          /\ \A f \in todo[r] : e.next <= f.next
          /\ todo' = [todo EXCEPT ![r] = @ \ {e}]
          /\ IF UnchangedSince(e)
             THEN /\ pc' = [pc EXCEPT ![r] = "checked"]
                  /\ cur' = [cur EXCEPT ![r] = e]
                  /\ TakesUp(r, e.sub)
             ELSE UNCHANGED <<pc, cur, crossed>>
    /\ UNCHANGED <<row, now, snap, req, thrown, mails, deleted, aborts, edits>>

(* The re-fetch itself throws. *)
RefetchFails(r) ==
    /\ pc[r] = "loop"
    /\ \E e \in todo[r] :
          /\ \A f \in todo[r] : e.next <= f.next
          /\ thrown[e.sub] < MaxThrown
          /\ thrown' = [thrown EXCEPT ![e.sub] = @ + 1]
          /\ todo' = [todo EXCEPT ![r] = @ \ {e}]
          /\ cur' = [cur EXCEPT ![r] = e]
          /\ TakesUp(r, e.sub)
    /\ pc' = [pc EXCEPT ![r] = "threw"]
    /\ UNCHANGED <<row, now, snap, req, mails, deleted, aborts, edits>>

LoopEnds(r) ==
    /\ pc[r] = "loop"
    /\ todo[r] = {}
    /\ pc' = [pc EXCEPT ![r] = "idle"]
    /\ UNCHANGED <<row, now, todo, cur, snap, req, ghosts, aborts, edits>>

CountMail(r) == mails' = [mails EXCEPT ![cur[r].sub][cur[r].next] = @ + 1]

MayThrow(r) == thrown[cur[r].sub] < MaxThrown

Throw(r) ==
    /\ thrown' = [thrown EXCEPT ![cur[r].sub] = @ + 1]
    /\ pc' = [pc EXCEPT ![r] = "threw"]

(* User without address, no SMTP, report generation or the mail itself: the *)
(* mail server may have taken the mail all the same.                       *)
SendFails(r) ==
    /\ pc[r] = "checked"
    /\ MayThrow(r) /\ Throw(r)
    /\ CountMail(r) \/ UNCHANGED mails
    /\ UNCHANGED <<row, now, todo, cur, snap, req, deleted, crossed, aborts, edits>>

SendSucceeds(r) ==
    /\ pc[r] = "checked"
    /\ CountMail(r)
    /\ pc' = [pc EXCEPT ![r] = "mailed"]
    /\ UNCHANGED <<row, now, todo, cur, snap, req, thrown, deleted, crossed, aborts, edits>>

MarkSentReads(r) ==
    /\ pc[r] = "mailed"
    /\ IF Found(cur[r].sub)
       THEN /\ snap' = [snap EXCEPT ![r] = row[cur[r].sub]]
            /\ pc' = [pc EXCEPT ![r] = "marking"]
            /\ UNCHANGED thrown
       ELSE Throw(r) /\ UNCHANGED snap
    /\ UNCHANGED <<row, now, todo, cur, req, mails, deleted, crossed, aborts, edits>>

MarkSentWrites(r) ==
    /\ pc[r] = "marking"
    /\ \E n \in NextSendAt : row' = [row EXCEPT ![cur[r].sub] = Sent(snap[r], n)]
    /\ pc' = [pc EXCEPT ![r] = "audit"]
    /\ UNCHANGED <<now, todo, cur, snap, req, ghosts, aborts, edits>>

(* The database refuses after the mail was sent. *)
SentUnrecorded(r) ==
    /\ pc[r] \in {"mailed", "marking", "audit"}
    /\ MayThrow(r) /\ Throw(r)
    /\ UNCHANGED <<row, now, todo, cur, snap, req, mails, deleted, crossed, aborts, edits>>

AuditLogged(r) ==
    /\ pc[r] \in {"audit", "failAudit"}
    /\ pc' = [pc EXCEPT ![r] = "loop"]
    /\ UNCHANGED <<row, now, todo, cur, snap, req, ghosts, aborts, edits>>

(* The catch block.  A row that is disabled meanwhile makes markFailed()    *)
(* throw, and nothing catches that: the run is over.                       *)
MarkFailedReads(r) ==
    /\ pc[r] = "threw"
    /\ IF Found(cur[r].sub)
       THEN /\ snap' = [snap EXCEPT ![r] = row[cur[r].sub]]
            /\ pc' = [pc EXCEPT ![r] = "failing"]
            /\ UNCHANGED todo
       ELSE /\ pc' = [pc EXCEPT ![r] = "idle"]
            /\ todo' = [todo EXCEPT ![r] = {}]
            /\ UNCHANGED snap
    /\ UNCHANGED <<row, now, cur, req, ghosts, aborts, edits>>

MarkFailedWrites(r) ==
    /\ pc[r] = "failing"
    /\ row' = [row EXCEPT ![cur[r].sub] = Failed(snap[r])]
    /\ pc' = [pc EXCEPT ![r] = "failAudit"]
    /\ UNCHANGED <<now, todo, cur, snap, req, ghosts, aborts, edits>>

(* The process dies, or the catch block itself throws. *)
Aborts(r) ==
    /\ pc[r] # "idle"
    /\ aborts < MaxAborts
    /\ aborts' = aborts + 1
    /\ pc' = [pc EXCEPT ![r] = "idle"]
    /\ todo' = [todo EXCEPT ![r] = {}]
    /\ UNCHANGED <<row, now, cur, snap, req, ghosts, edits>>

-----------------------------------------------------------------------------
Work(r) ==
    \/ FindDue(r) \/ Refetch(r) \/ RefetchFails(r) \/ LoopEnds(r)
    \/ SendFails(r) \/ SendSucceeds(r)
    \/ MarkSentReads(r) \/ MarkSentWrites(r) \/ SentUnrecorded(r) \/ AuditLogged(r)
    \/ MarkFailedReads(r) \/ MarkFailedWrites(r)

Serve(q) ==
    \/ RequestWrites(q)
    \/ SendNowMails(q) \/ SendNowMarkReads(q) \/ SendNowMarks(q)
    \/ RequestFails(q)

Next ==
    \/ \E s \in Subs : Create(s)
    \/ \E q \in Requests, s \in Subs, op \in {"update", "pause", "resume", "delete", "mailing"} :
          RequestReads(q, s, op)
    \/ \E q \in Requests : Serve(q)
    \/ TimePasses
    \/ \E r \in Runners : Work(r) \/ Aborts(r)

Spec == Init /\ [][Next]_vars

(* The cron job fires for ever and whatever a run awaits settles. *)
FairSpec == Spec /\ \A r \in Runners : WF_vars(Work(r))

-----------------------------------------------------------------------------
TypeOK ==
    /\ row \in [Subs -> Rows]
    /\ now \in 0..MaxNow
    /\ pc \in [Runners -> Pcs]
    /\ todo \in [Runners -> SUBSET Entries]
    /\ cur \in [Runners -> Entries \cup {NoEntry}]
    /\ \A r \in Runners : pc[r] \notin {"idle", "loop"} => cur[r] \in Entries
    /\ snap \in [Runners -> Rows]
    /\ req \in [Requests -> {NoRequest} \cup [op : Ops, sub : Subs, snap : Rows]]
    /\ thrown \in [Subs -> Nat]
    /\ mails \in [Subs -> [Slots -> Nat]]
    /\ deleted \subseteq Subs /\ crossed \subseteq Subs
    /\ aborts \in 0..MaxAborts /\ edits \in 0..MaxEdits

(* markFailed() and the edits write rows they read before another writer    *)
(* did: whatever the order, a subscription that is still served has fewer  *)
(* than FailLimit consecutive failures.                                    *)
ServedBelowLimit == \A s \in Subs : Found(s) => row[s].fails < FailLimit

(* A row that is active always has a next_send_at, so findDue() will see it *)
(* again: no interleaving of pause, resume, update, markSent() and         *)
(* markFailed() leaves a subscription active but never sent.               *)
ActiveIsScheduled == \A s \in Subs : row[s].status = "active" => row[s].next > 0

(* A subscription stops only because its user deleted it or FailLimit       *)
(* attempts threw, even where runs overlap and count from stale rows.      *)
DisabledForAReason ==
    \A s \in Subs : row[s].status = "disabled" => s \in deleted \/ thrown[s] >= FailLimit

(* A slot is mailed again only after an attempt threw or was cut off, or by  *)
(* a run that took the subscription up while another had it in hand: the   *)
(* re-fetch keeps all others from mailing what is mailed.  Such a crossing *)
(* lets every runner mail the slot, and every failure lets all of them     *)
(* mail it once more, but no more than that.                               *)
RepeatsAreExcused ==
    \A s \in Subs, n \in Slots :
        /\ s \notin crossed => mails[s][n] <= 1 + thrown[s] + aborts
        /\ mails[s][n] <= Cardinality(Runners) * (1 + thrown[s] + aborts)

(* Whatever is unusual has a reason: a disabled subscription has a deletion  *)
(* or failures behind it, and a report mailed more than once a failure or  *)
(* two runs that crossed, although overlapping runs count their failures   *)
(* from rows they read before.                                             *)
FailuresExplain == DisabledForAReason /\ RepeatsAreExcused

(* A due report is sent, or its subscription is disabled, paused or moved,  *)
(* although a run can die in its own catch block with the report still due *)
(* and overlapping runs write rows they read before; unless the deployment *)
(* has the scheduler switched off.                                         *)
DueIsHandled ==
    \A s \in Subs, n \in 1..MaxNow :
        Enabled /\ IsDue(s) /\ row[s].next = n
            ~> row[s].status # "active" \/ row[s].next # n

-----------------------------------------------------------------------------
(* A claim of the code's comments that it does not keep.                   *)

(* "Re-fetch to check if another instance already processed this": two runs   *)
(* that both look before either writes mail one slot twice, with no failure. *)
OneMailPerSlot ==
    \A s \in Subs, n \in Slots : mails[s][n] <= 1 + thrown[s] + aborts
============================================================================
