------------------------ MODULE SubscriptionsProofs ------------------------
(***************************************************************************)
(* Proofs about Subscriptions for every number of subscriptions, runners   *)
(* and requests and every failure limit.  The rows that handlers hold      *)
(* between a read and a write are part of the inductive invariant: a row   *)
(* that is written is only as good as the row that was read.  What         *)
(* explains failures is counted: CountInv sets the failures of every row   *)
(* and every copy against the exceptions thrown, MailInv the mails of a    *)
(* slot and the runners that may still mail it against the rounds that     *)
(* exceptions and crashes have opened.  CalmInv follows a subscription that *)
(* no run took up while another one had it in hand: one runner at a time   *)
(* works on it, and its row is at a slot that may be mailed.               *)
(***************************************************************************)
EXTENDS Subscriptions, TLAPS, FiniteSetTheorems

(* A row that is served, below the limit and scheduled if it is active. *)
Sound(x) ==
    /\ x.status \in {"active", "paused"} => x.fails < FailLimit
    /\ x.status = "active" => x.next > 0

Served(x) == x.status \in {"active", "paused"}

(* The rows of the table and the rows held by runners and requests. *)
RowsSound == \A s \in Subs : Sound(row[s])
SnapsSound ==
    \A r \in Runners : pc[r] \in {"marking", "failing"} => Sound(snap[r]) /\ Served(snap[r])
HeldSound ==
    \A q \in Requests : req[q] # NoRequest => Sound(req[q].snap) /\ Served(req[q].snap)

SoundInv == TypeOK /\ RowsSound /\ SnapsSound /\ HeldSound

(* What markSent() writes is as sound as what it read. *)
LEMMA SentSound ==
    ASSUME NEW x \in Rows, Sound(x), NEW n \in NextSendAt, now \in Nat
    PROVE  Sent(x, n) \in Rows /\ Sound(Sent(x, n))
BY SubscriptionsAssumption DEF Sent, Row, Sound, Rows, NextSendAt, Slots

(* What markFailed() writes stays within the limit. *)
LEMMA FailedSound ==
    ASSUME NEW x \in Rows, Sound(x), Served(x)
    PROVE  Failed(x) \in Rows /\ Sound(Failed(x))
BY SubscriptionsAssumption DEF Failed, Row, Sound, Served, Rows

(* What the edits write is sound. *)
LEMMA EditedSound ==
    ASSUME NEW x \in Rows, Sound(x), Served(x), NEW n \in NextSendAt, now \in Nat,
           NEW op \in {"update", "pause", "resume", "delete"}
    PROVE  Edited(op, x, n) \in Rows /\ Sound(Edited(op, x, n))
BY SubscriptionsAssumption DEF Edited, Row, Sound, Served, Rows, NextSendAt, Slots

LEMMA InitSound == Init => SoundInv
BY SubscriptionsAssumption
   DEF Init, SoundInv, TypeOK, RowsSound, SnapsSound, HeldSound, Sound, Absent, Row, NoEntry,
       Rows, Slots, Pcs

(* A request under way has a subscription and a row that was served. *)
LEMMA HeldIsTyped ==
    ASSUME SoundInv, NEW q \in Requests, req[q].op # "none"
    PROVE  /\ req[q].op \in Ops /\ req[q].sub \in Subs /\ req[q].snap \in Rows
           /\ Sound(req[q].snap) /\ Served(req[q].snap)
<1>1. req[q] # NoRequest
  BY DEF NoRequest
<1>2. req[q] \in [op : Ops, sub : Subs, snap : Rows]
  BY <1>1 DEF SoundInv, TypeOK
<1> QED
  BY <1>1, <1>2 DEF SoundInv, HeldSound

(* Every step keeps the rows, in the table and in the handlers' hands, sound. *)
LEMMA SoundStep == ASSUME SoundInv, [Next]_vars PROVE SoundInv'
<1> USE DEF SoundInv, TypeOK, RowsSound, SnapsSound, HeldSound, Pcs, runVars, ghosts
<1>0. now \in Nat
  BY SubscriptionsAssumption
<1>1. ASSUME NEW s \in Subs, Create(s) PROVE SoundInv'
  <2>1. PICK n \in NextSendAt : row' = [row EXCEPT ![s] = Row("active", n, 0)]
    BY <1>1 DEF Create
  <2>2. Row("active", n, 0) \in Rows /\ Sound(Row("active", n, 0))
    BY SubscriptionsAssumption DEF Row, Rows, Sound, NextSendAt, Slots
  <2> QED
    BY <1>1, <2>1, <2>2 DEF Create
<1>2. ASSUME NEW q \in Requests, NEW s \in Subs,
             NEW op \in {"update", "pause", "resume", "delete", "mailing"}, RequestReads(q, s, op) PROVE SoundInv'
  <2>1. Request(op, s, row[s]) \in [op : Ops, sub : Subs, snap : Rows]
    BY DEF Request, Ops
  <2>2. Request(op, s, row[s]).snap = row[s]
    BY DEF Request
  <2> QED
    BY <1>2, <2>1, <2>2, SubscriptionsAssumption DEF RequestReads, Found, Served
<1>3. ASSUME NEW q \in Requests, RequestWrites(q) PROVE SoundInv'
  <2>1. PICK n \in NextSendAt :
               row' = [row EXCEPT ![req[q].sub] = Edited(req[q].op, req[q].snap, n)]
    BY <1>3 DEF RequestWrites
  <2>2. req[q].op \in {"update", "pause", "resume", "delete"}
    BY <1>3 DEF RequestWrites
  <2>3. /\ req[q].snap \in Rows /\ req[q].sub \in Subs
        /\ Sound(req[q].snap) /\ Served(req[q].snap)
    BY <2>2, HeldIsTyped
  <2>4. Edited(req[q].op, req[q].snap, n) \in Rows /\ Sound(Edited(req[q].op, req[q].snap, n))
    BY <1>0, <2>2, <2>3, EditedSound
  <2> QED
    BY <1>3, <2>1, <2>3, <2>4 DEF RequestWrites
<1>4. ASSUME NEW q \in Requests, SendNowMails(q) PROVE SoundInv'
  <2>1. req[q].op # "none"
    BY <1>4 DEF SendNowMails
  <2>2. /\ Request("mailed", req[q].sub, req[q].snap) \in [op : Ops, sub : Subs, snap : Rows]
        /\ Request("mailed", req[q].sub, req[q].snap).snap = req[q].snap
        /\ Sound(req[q].snap) /\ Served(req[q].snap)
    BY <2>1, HeldIsTyped DEF Request, Ops
  <2> QED
    BY <1>4, <2>2 DEF SendNowMails
<1>5. ASSUME NEW q \in Requests, SendNowMarkReads(q) PROVE SoundInv'
  <2>1. req[q].op # "none"
    BY <1>5 DEF SendNowMarkReads
  <2>2. /\ Request("marking", req[q].sub, row[req[q].sub]) \in [op : Ops, sub : Subs, snap : Rows]
        /\ Request("marking", req[q].sub, row[req[q].sub]).snap = row[req[q].sub]
        /\ req[q].sub \in Subs
    BY <2>1, HeldIsTyped DEF Request, Ops
  <2> QED
    BY <1>5, <2>2 DEF SendNowMarkReads, Found, Served
<1>6. ASSUME NEW q \in Requests, SendNowMarks(q) PROVE SoundInv'
  <2>1. PICK n \in NextSendAt : row' = [row EXCEPT ![req[q].sub] = Sent(req[q].snap, n)]
    BY <1>6 DEF SendNowMarks
  <2>2. req[q].op # "none"
    BY <1>6 DEF SendNowMarks
  <2>3. req[q].snap \in Rows /\ req[q].sub \in Subs /\ Sound(req[q].snap)
    BY <2>2, HeldIsTyped
  <2>4. Sent(req[q].snap, n) \in Rows /\ Sound(Sent(req[q].snap, n))
    BY <1>0, <2>3, SentSound
  <2> QED
    BY <1>6, <2>1, <2>3, <2>4 DEF SendNowMarks
<1>7. ASSUME NEW q \in Requests, RequestFails(q) PROVE SoundInv'
  BY <1>7 DEF RequestFails
<1>8. ASSUME TimePasses PROVE SoundInv'
  BY <1>8, SubscriptionsAssumption DEF TimePasses
<1>9. ASSUME NEW r \in Runners, FindDue(r) PROVE SoundInv'
  BY <1>9 DEF FindDue, Entries, Rows
<1>10. ASSUME NEW r \in Runners, Refetch(r) PROVE SoundInv'
  <2>1. PICK e \in todo[r] :
          /\ todo' = [todo EXCEPT ![r] = @ \ {e}]
          /\ \/ pc' = [pc EXCEPT ![r] = "checked"] /\ cur' = [cur EXCEPT ![r] = e]
             \/ UNCHANGED <<pc, cur>>
          /\ crossed' \in {crossed, crossed \cup {e.sub}}
    BY <1>10 DEF Refetch, TakesUp
  <2>2. e \in Entries /\ UNCHANGED <<row, now, snap, req, thrown, mails, deleted, aborts, edits>>
    BY <1>10 DEF Refetch
  <2>3. crossed' \subseteq Subs
    BY <2>1, <2>2 DEF Entries
  <2>4. CASE pc' = [pc EXCEPT ![r] = "checked"] /\ cur' = [cur EXCEPT ![r] = e]
    BY <2>1, <2>2, <2>3, <2>4
  <2>5. CASE UNCHANGED <<pc, cur>>
    BY <1>10, <2>1, <2>2, <2>3, <2>5
  <2> QED
    BY <2>1, <2>4, <2>5
<1>11. ASSUME NEW r \in Runners, RefetchFails(r) PROVE SoundInv'
  <2>1. crossed' \subseteq Subs
    BY <1>11 DEF RefetchFails, Entries, TakesUp
  <2> QED BY <1>11, <2>1 DEF RefetchFails, Entries
<1>12. ASSUME NEW r \in Runners, LoopEnds(r) PROVE SoundInv'
  BY <1>12 DEF LoopEnds
<1>13. ASSUME NEW r \in Runners, SendFails(r) PROVE SoundInv'
  <2>1. cur[r].sub \in Subs /\ cur[r].next \in Slots
    BY <1>13 DEF SendFails, Entries
  <2> QED
    <3>1. mails' \in [Subs -> [Slots -> Nat]]
      <4>1. CASE mails' = [mails EXCEPT ![cur[r].sub][cur[r].next] = @ + 1]
        BY <2>1, <4>1
      <4>2. CASE UNCHANGED mails
        BY <4>2
      <4> QED
        BY <1>13, <4>1, <4>2 DEF SendFails, CountMail
    <3>2. thrown' \in [Subs -> Nat]
      BY <1>13, <2>1 DEF SendFails, Throw
    <3> QED
      BY <1>13, <3>1, <3>2 DEF SendFails, Throw
<1>14. ASSUME NEW r \in Runners, SendSucceeds(r) PROVE SoundInv'
  <2>1. cur[r].sub \in Subs /\ cur[r].next \in Slots
    BY <1>14 DEF SendSucceeds, Entries
  <2> QED
    BY <1>14, <2>1 DEF SendSucceeds, CountMail
<1>15. ASSUME NEW r \in Runners, MarkSentReads(r) PROVE SoundInv'
  <2>1. cur[r].sub \in Subs
    BY <1>15 DEF MarkSentReads, Entries
  <2> QED
    <3>1. CASE Found(cur[r].sub)
      <4>1. /\ snap' = [snap EXCEPT ![r] = row[cur[r].sub]]
            /\ pc' = [pc EXCEPT ![r] = "marking"]
            /\ UNCHANGED <<row, now, todo, cur, req, thrown, mails, deleted, aborts, edits>>
        BY <1>15, <3>1 DEF MarkSentReads
      <4> QED
        BY <1>15, <2>1, <3>1, <4>1 DEF MarkSentReads, Found, Served
    <3>2. CASE ~Found(cur[r].sub)
      <4>1. /\ thrown' = [thrown EXCEPT ![cur[r].sub] = @ + 1]
            /\ pc' = [pc EXCEPT ![r] = "threw"]
            /\ UNCHANGED <<row, now, todo, cur, snap, req, mails, deleted, aborts, edits>>
        BY <1>15, <3>2 DEF MarkSentReads, Throw
      <4> QED
        BY <1>15, <2>1, <4>1 DEF MarkSentReads
    <3> QED
      BY <3>1, <3>2
<1>16. ASSUME NEW r \in Runners, MarkSentWrites(r) PROVE SoundInv'
  <2>1. PICK n \in NextSendAt : row' = [row EXCEPT ![cur[r].sub] = Sent(snap[r], n)]
    BY <1>16 DEF MarkSentWrites
  <2>2. snap[r] \in Rows /\ cur[r].sub \in Subs /\ Sound(snap[r])
    BY <1>16 DEF MarkSentWrites, Entries
  <2>3. Sent(snap[r], n) \in Rows /\ Sound(Sent(snap[r], n))
    BY <1>0, <2>2, SentSound
  <2> QED
    BY <1>16, <2>1, <2>2, <2>3 DEF MarkSentWrites
<1>17. ASSUME NEW r \in Runners, SentUnrecorded(r) PROVE SoundInv'
  <2>1. cur[r].sub \in Subs
    BY <1>17 DEF SentUnrecorded, Entries
  <2> QED
    BY <1>17, <2>1 DEF SentUnrecorded, Throw
<1>18. ASSUME NEW r \in Runners, AuditLogged(r) PROVE SoundInv'
  BY <1>18 DEF AuditLogged
<1>19. ASSUME NEW r \in Runners, MarkFailedReads(r) PROVE SoundInv'
  <2>1. cur[r].sub \in Subs
    BY <1>19 DEF MarkFailedReads, Entries
  <2> QED
    BY <1>19, <2>1 DEF MarkFailedReads, Found, Served
<1>20. ASSUME NEW r \in Runners, MarkFailedWrites(r) PROVE SoundInv'
  <2>1. snap[r] \in Rows /\ cur[r].sub \in Subs /\ Sound(snap[r]) /\ Served(snap[r])
    BY <1>20 DEF MarkFailedWrites, Entries
  <2>2. Failed(snap[r]) \in Rows /\ Sound(Failed(snap[r]))
    BY <2>1, FailedSound
  <2> QED
    BY <1>20, <2>1, <2>2 DEF MarkFailedWrites
<1>21. ASSUME NEW r \in Runners, Aborts(r) PROVE SoundInv'
  BY <1>21, SubscriptionsAssumption DEF Aborts
<1>22. ASSUME UNCHANGED vars PROVE SoundInv'
  BY <1>22 DEF vars, Sound, Served
<1> HIDE DEF SoundInv, TypeOK, RowsSound, SnapsSound, HeldSound
<1> QED
  BY <1>1, <1>2, <1>3, <1>4, <1>5, <1>6, <1>7, <1>8, <1>9, <1>10, <1>11, <1>12, <1>13, <1>14, <1>15, <1>16, <1>17, <1>18, <1>19, <1>20, <1>21, <1>22 DEF Next, Serve, Work

(* Rows, runners and requests stay well typed, whatever the number of        *)
(* subscriptions, overlapping runs and requests.                           *)
THEOREM TypeCorrect == Spec => []TypeOK
<1>1. SoundInv => TypeOK
  BY DEF SoundInv
<1> QED
  BY <1>1, InitSound, SoundStep, PTL DEF Spec

(* A subscription that is still served is below the failure limit and, if   *)
(* active, scheduled: stale rows written by markSent(), markFailed() and   *)
(* the edits never break this.                                             *)
THEOREM ServedBelowLimitHolds == Spec => []ServedBelowLimit
<1>1. SoundInv => ServedBelowLimit
  BY DEF SoundInv, RowsSound, Sound, ServedBelowLimit, Found
<1> QED
  BY <1>1, InitSound, SoundStep, PTL DEF Spec

(* No interleaving leaves a subscription active without a next_send_at. *)
THEOREM ActiveIsScheduledHolds == Spec => []ActiveIsScheduled
<1>1. SoundInv => ActiveIsScheduled
  BY DEF SoundInv, RowsSound, Sound, ActiveIsScheduled
<1> QED
  BY <1>1, InitSound, SoundStep, PTL DEF Spec

-----------------------------------------------------------------------------
(* Failures explain what is unusual.  An exception that was thrown and not *)
(* recorded yet is pending: markFailed() will count it, and put the slot   *)
(* back that its row was read with, at most once.                          *)
InPending(p, c, s) == p \in {"threw", "failing"} /\ c.sub = s

Pending(s) == {r \in Runners : InPending(pc[r], cur[r], s)}

(* A number of failures that thrown exceptions account for, the pending    *)
(* ones left aside.                                                        *)
Backed(f, s) == f + Cardinality(Pending(s)) <= thrown[s]

CountInv ==
    /\ \A s \in Subs : Backed(row[s].fails, s)
    /\ \A r \in Runners, s \in Subs :
          pc[r] \in {"marking", "failing"} /\ cur[r].sub = s => Backed(snap[r].fails, s)
    /\ \A q \in Requests, s \in Subs :
          req[q] # NoRequest /\ req[q].sub = s => Backed(req[q].snap.fails, s)
    /\ DisabledForAReason

(* A runner that may still mail slot n of s before another exception or     *)
(* crash: it is past the re-fetch or, while the row is at that slot, it is *)
(* neither about to move the row nor to record a failure.                  *)
At(c, s, n) == c = [sub |-> s, next |-> n]

InReady(p, c, x, s, n) ==
    \/ p = "checked" /\ At(c, s, n)
    \/ x = n /\ ~InPending(p, c, s) /\ ~(p \in {"mailed", "marking"} /\ At(c, s, n))

Ready(s, n) == {r \in Runners : InReady(pc[r], cur[r], row[s].next, s, n)}

(* The rounds of mails that were opened: one, and one more for every crash *)
(* and every exception that is no longer pending.                          *)
Rounds(s) == ((1 + thrown[s]) + aborts) - Cardinality(Pending(s))

MailBound(s, n) ==
    mails[s][n] + Cardinality(Ready(s, n)) <= Cardinality(Runners) * Rounds(s)

SlotsInv ==
    /\ \A r \in Runners : \A e \in todo[r] : e.next \in 1..now
    /\ \A r \in Runners : pc[r] \notin {"idle", "loop"} => cur[r].next \in 1..now
    /\ \A s \in Subs, n \in Slots : n \notin 1..now => mails[s][n] = 0

MailInv == SlotsInv /\ \A s \in Subs, n \in 1..now : MailBound(s, n)

-----------------------------------------------------------------------------
(* Counting runners.                                                       *)

LEMMA RunnerSets ==
    ASSUME NEW S, S \subseteq Runners
    PROVE  /\ IsFiniteSet(S) /\ Cardinality(S) \in Nat /\ Cardinality(Runners) \in Nat
           /\ Cardinality(S) <= Cardinality(Runners)
BY SubscriptionsAssumption, FS_Subset, FS_CardinalityType DEF SubscriptionsAssumption

LEMMA RoomGrows ==
    ASSUME NEW k \in Nat
    PROVE  /\ Cardinality(Runners) * k \in Nat
           /\ Cardinality(Runners) * (k + 1) = Cardinality(Runners) * k + Cardinality(Runners)
<1>1. Cardinality(Runners) \in Nat
  BY RunnerSets
<1>2. \A n, m \in Nat : n * m \in Nat /\ n * (m + 1) = n * m + n
  OBVIOUS
<1> QED BY <1>1, <1>2

PendingNext(s) == {r \in Runners : InPending(pc'[r], cur'[r], s)}
ReadyNext(s, n) == {r \in Runners : InReady(pc'[r], cur'[r], row'[s].next, s, n)}
BackedNext(f, s) == f + Cardinality(PendingNext(s)) <= thrown'[s]
RoundsNext(s) == ((1 + thrown'[s]) + aborts') - Cardinality(PendingNext(s))
MailBoundNext(s, n) ==
    mails'[s][n] + Cardinality(ReadyNext(s, n)) <= Cardinality(Runners) * RoundsNext(s)

LEMMA NextForms ==
    ASSUME NEW s, NEW n
    PROVE  /\ Pending(s)' = PendingNext(s) /\ Ready(s, n)' = ReadyNext(s, n)
           /\ Rounds(s)' = RoundsNext(s) /\ MailBound(s, n)' <=> MailBoundNext(s, n)
<1>1. Pending(s)' = PendingNext(s)
  BY DEF Pending, PendingNext
<1>2. Ready(s, n)' = ReadyNext(s, n)
  BY DEF Ready, ReadyNext
<1>3. Rounds(s)' = RoundsNext(s)
  BY <1>1 DEF Rounds, RoundsNext
<1>4. MailBound(s, n)' <=> MailBoundNext(s, n)
  BY <1>2, <1>3 DEF MailBound, MailBoundNext
<1> QED BY <1>1, <1>2, <1>3, <1>4

(* Fewer exceptions are pending: what was accounted for still is. *)
LEMMA ShrinkBacks ==
    ASSUME TypeOK, NEW s \in Subs, NEW f \in Nat, Backed(f, s),
           PendingNext(s) \subseteq Pending(s), thrown'[s] = thrown[s]
    PROVE  BackedNext(f, s)
<1>1. /\ IsFiniteSet(Pending(s)) /\ Cardinality(Pending(s)) \in Nat
      /\ Cardinality(PendingNext(s)) \in Nat
  BY RunnerSets DEF Pending, PendingNext
<1>2. Cardinality(PendingNext(s)) <= Cardinality(Pending(s))
  BY <1>1, FS_Subset
<1>3. thrown[s] \in Nat
  BY DEF TypeOK
<1> QED BY <1>1, <1>2, <1>3 DEF Backed, BackedNext

LEMMA ThrowCounts ==
    ASSUME TypeOK, NEW s \in Subs, NEW r \in Runners, r \notin Pending(s),
           PendingNext(s) = Pending(s) \cup {r}, thrown'[s] = thrown[s] + 1
    PROVE  /\ \A f \in Nat : Backed(f, s) => BackedNext(f, s)
           /\ aborts' = aborts => RoundsNext(s) = Rounds(s)
<1>1. /\ IsFiniteSet(Pending(s)) /\ Cardinality(Pending(s)) \in Nat
  BY RunnerSets DEF Pending
<1>2. Cardinality(PendingNext(s)) = Cardinality(Pending(s)) + 1
  BY <1>1, FS_AddElement
<1>3. thrown[s] \in Nat /\ aborts \in Nat
  BY SubscriptionsAssumption DEF TypeOK, SubscriptionsAssumption
<1> QED BY <1>1, <1>2, <1>3 DEF Backed, BackedNext, Rounds, RoundsNext

LEMMA RecordCounts ==
    ASSUME TypeOK, NEW s \in Subs, NEW r \in Pending(s),
           PendingNext(s) = Pending(s) \ {r}, thrown'[s] = thrown[s]
    PROVE  /\ \A f \in Nat : Backed(f, s) => BackedNext(f + 1, s) /\ BackedNext(f, s)
           /\ aborts' = aborts => RoundsNext(s) = Rounds(s) + 1
           /\ aborts' = aborts + 1 => RoundsNext(s) = (Rounds(s) + 1) + 1
<1>1. IsFiniteSet(Pending(s)) /\ Cardinality(Pending(s)) \in Nat
  BY RunnerSets DEF Pending
<1>2. Cardinality(PendingNext(s)) = Cardinality(Pending(s)) - 1
  BY <1>1, FS_RemoveElement
<1>3. thrown[s] \in Nat /\ aborts \in Nat
  BY SubscriptionsAssumption DEF TypeOK, SubscriptionsAssumption
<1> QED BY <1>1, <1>2, <1>3 DEF Backed, BackedNext, Rounds, RoundsNext

(* The rounds are a number as long as the pending exceptions are counted. *)
LEMMA RoundsNat ==
    ASSUME TypeOK, CountInv, NEW s \in Subs
    PROVE  Rounds(s) \in Nat /\ Rounds(s) >= 1
<1>1. row[s].fails \in Nat
  BY SubscriptionsAssumption DEF TypeOK, Rows, SubscriptionsAssumption
<1>2. Cardinality(Pending(s)) \in Nat
  BY RunnerSets DEF Pending
<1>3. thrown[s] \in Nat /\ aborts \in Nat
  BY SubscriptionsAssumption DEF TypeOK, SubscriptionsAssumption
<1>4. row[s].fails + Cardinality(Pending(s)) <= thrown[s]
  BY DEF CountInv, Backed
<1> QED BY <1>1, <1>2, <1>3, <1>4 DEF Rounds

(* The mails of a slot are kept within its rounds: nobody gains a mail, ... *)
LEMMA BoundKept ==
    ASSUME TypeOK, NEW s \in Subs, NEW n \in Slots, MailBound(s, n),
           mails'[s][n] = mails[s][n], ReadyNext(s, n) \subseteq Ready(s, n),
           RoundsNext(s) = Rounds(s)
    PROVE  MailBoundNext(s, n)
<1>1. /\ IsFiniteSet(Ready(s, n)) /\ Cardinality(Ready(s, n)) \in Nat
      /\ Cardinality(ReadyNext(s, n)) \in Nat
  BY RunnerSets DEF Ready, ReadyNext
<1>2. Cardinality(ReadyNext(s, n)) <= Cardinality(Ready(s, n))
  BY <1>1, FS_Subset
<1>3. mails[s][n] \in Nat
  BY DEF TypeOK
<1> DEFINE room == Cardinality(Runners) * Rounds(s)
<1>4. mails[s][n] + Cardinality(Ready(s, n)) <= room
  BY DEF MailBound
<1>5. MailBoundNext(s, n) <=> mails'[s][n] + Cardinality(ReadyNext(s, n)) <= room
  BY DEF MailBoundNext
<1>6. room \in Int
  <2>1. Cardinality(Runners) \in Nat
    BY RunnerSets
  <2>2. Rounds(s) \in Int
    <3>1. Cardinality(Pending(s)) \in Nat
      BY RunnerSets DEF Pending
    <3> QED BY <3>1, SubscriptionsAssumption DEF Rounds, TypeOK, SubscriptionsAssumption
  <2> QED BY <2>1, <2>2
<1> HIDE DEF room
<1> QED BY <1>1, <1>2, <1>3, <1>4, <1>5, <1>6

(* ... a runner that was ready mails, ... *)
LEMMA BoundMailed ==
    ASSUME TypeOK, CountInv, NEW s \in Subs, NEW n \in Slots, MailBound(s, n),
           NEW r \in Ready(s, n), mails'[s][n] = mails[s][n] + 1,
           ReadyNext(s, n) \subseteq Ready(s, n) \ {r}, RoundsNext(s) = Rounds(s)
    PROVE  MailBoundNext(s, n)
<1>1. /\ IsFiniteSet(Ready(s, n)) /\ Cardinality(Ready(s, n)) \in Nat
      /\ Cardinality(ReadyNext(s, n)) \in Nat
  BY RunnerSets DEF Ready, ReadyNext
<1>2. /\ IsFiniteSet(Ready(s, n) \ {r})
      /\ Cardinality(Ready(s, n) \ {r}) = Cardinality(Ready(s, n)) - 1
  BY <1>1, FS_RemoveElement
<1>3. Cardinality(ReadyNext(s, n)) <= Cardinality(Ready(s, n)) - 1
  BY <1>2, FS_Subset
<1>4. mails[s][n] \in Nat
  BY DEF TypeOK
<1> DEFINE room == Cardinality(Runners) * Rounds(s)
<1>5. mails[s][n] + Cardinality(Ready(s, n)) <= room
  BY DEF MailBound
<1>6. MailBoundNext(s, n) <=> mails'[s][n] + Cardinality(ReadyNext(s, n)) <= room
  BY DEF MailBoundNext
<1>7. room \in Nat
  BY RoundsNat, RoomGrows
<1> HIDE DEF room
<1> QED BY <1>1, <1>3, <1>4, <1>5, <1>6, <1>7

(* ... or another round is opened, in which everybody may be ready again. *)
LEMMA BoundOpened ==
    ASSUME TypeOK, CountInv, NEW s \in Subs, NEW n \in Slots, MailBound(s, n),
           mails'[s][n] = mails[s][n], NEW k \in Nat, k >= Rounds(s),
           k = Rounds(s) \/ k = Rounds(s) + 1, RoundsNext(s) = k + 1
    PROVE  MailBoundNext(s, n)
<1>1. /\ Cardinality(Ready(s, n)) \in Nat /\ Cardinality(ReadyNext(s, n)) \in Nat
      /\ Cardinality(Runners) \in Nat /\ Cardinality(ReadyNext(s, n)) <= Cardinality(Runners)
  BY RunnerSets DEF Ready, ReadyNext
<1>2. mails[s][n] \in Nat
  BY DEF TypeOK
<1> DEFINE room == Cardinality(Runners) * Rounds(s)
           more == Cardinality(Runners) * k
<1>3. room \in Nat /\ more \in Nat /\ more >= room
  <2>1. Rounds(s) \in Nat
    BY RoundsNat
  <2>2. Cardinality(Runners) * (Rounds(s) + 1) = room + Cardinality(Runners) /\ room \in Nat
    BY <2>1, RoomGrows
  <2>3. more = room \/ more = room + Cardinality(Runners)
    BY <2>2
  <2> HIDE DEF room, more
  <2> QED BY <1>1, <2>2, <2>3
<1>4. mails[s][n] + Cardinality(Ready(s, n)) <= room
  BY DEF MailBound
<1>5. Cardinality(Runners) * RoundsNext(s) = more + Cardinality(Runners)
  BY RoomGrows
<1>6. MailBoundNext(s, n) <=>
        mails'[s][n] + Cardinality(ReadyNext(s, n)) <= more + Cardinality(Runners)
  BY <1>5 DEF MailBoundNext
<1> HIDE DEF room, more
<1> QED BY <1>1, <1>2, <1>3, <1>4, <1>6

-----------------------------------------------------------------------------
(* What a step does to the counts.                                         *)

(* What was accounted for still is. *)
Eased ==
    \A s \in Subs : /\ thrown'[s] \in Nat /\ thrown'[s] >= thrown[s]
                    /\ \A f \in Nat : Backed(f, s) => BackedNext(f, s)

Level == \A s \in Subs : RoundsNext(s) = Rounds(s)

(* Only runner r moves. *)
MovesOnly(r) == \A x \in Runners \ {r} : pc'[x] = pc[x] /\ cur'[x] = cur[x]

LEMMA MoveOf ==
    ASSUME NEW r \in Runners, MovesOnly(r), NEW s
    PROVE  /\ (InPending(pc'[r], cur'[r], s) <=> InPending(pc[r], cur[r], s))
                 => PendingNext(s) = Pending(s)
           /\ InPending(pc'[r], cur'[r], s) /\ ~InPending(pc[r], cur[r], s)
                 => r \notin Pending(s) /\ PendingNext(s) = Pending(s) \cup {r}
           /\ ~InPending(pc'[r], cur'[r], s) /\ InPending(pc[r], cur[r], s)
                 => r \in Pending(s) /\ PendingNext(s) = Pending(s) \ {r}
<1>1. \A x \in Runners \ {r} : InPending(pc'[x], cur'[x], s) <=> InPending(pc[x], cur[x], s)
  BY DEF MovesOnly
<1> QED BY <1>1 DEF Pending, PendingNext

LEMMA ReadyOf ==
    ASSUME NEW r \in Runners, MovesOnly(r), NEW s, NEW n,
           row'[s].next = row[s].next \/ row'[s].next # n
    PROVE  /\ (InReady(pc'[r], cur'[r], row'[s].next, s, n)
                  => InReady(pc[r], cur[r], row[s].next, s, n))
                 => ReadyNext(s, n) \subseteq Ready(s, n)
           /\ ~InReady(pc'[r], cur'[r], row'[s].next, s, n)
                 => ReadyNext(s, n) \subseteq Ready(s, n) \ {r}
<1>1. \A x \in Runners \ {r} : InReady(pc'[x], cur'[x], row'[s].next, s, n)
                                 => InReady(pc[x], cur[x], row[s].next, s, n)
  BY DEF MovesOnly, InReady
<1> QED BY <1>1 DEF Ready, ReadyNext

(* Nothing is thrown, recorded or cut off. *)
LEMMA CalmCounts ==
    ASSUME TypeOK, thrown' = thrown, aborts' = aborts,
           \A s \in Subs : PendingNext(s) = Pending(s)
    PROVE  Eased /\ Level
<1>1. \A s \in Subs : thrown[s] \in Nat
  BY DEF TypeOK
<1> QED BY <1>1 DEF Eased, Level, Backed, BackedNext, Rounds, RoundsNext

(* Runner r throws while it works on s. *)
LEMMA ThrowEases ==
    ASSUME TypeOK, NEW r \in Runners, MovesOnly(r), NEW s \in Subs, pc'[r] = "threw",
           cur'[r].sub = s, pc[r] \notin {"threw", "failing"},
           thrown' = [thrown EXCEPT ![s] = @ + 1], aborts' = aborts
    PROVE  Eased /\ Level
<1> SUFFICES ASSUME NEW v \in Subs
             PROVE  /\ thrown'[v] \in Nat /\ thrown'[v] >= thrown[v]
                    /\ RoundsNext(v) = Rounds(v)
                    /\ \A f \in Nat : Backed(f, v) => BackedNext(f, v)
  BY DEF Eased, Level
<1>0. thrown \in [Subs -> Nat]
  BY DEF TypeOK
<1>1. CASE v = s
  <2>1. r \notin Pending(s) /\ PendingNext(s) = Pending(s) \cup {r}
    BY MoveOf DEF InPending
  <2>2. thrown'[s] = thrown[s] + 1
    BY <1>0
  <2> QED BY <1>0, <1>1, <2>1, <2>2, ThrowCounts
<1>2. CASE v # s
  <2>1. PendingNext(v) = Pending(v)
    BY <1>2, MoveOf DEF InPending
  <2>2. thrown'[v] = thrown[v]
    BY <1>0, <1>2
  <2> QED BY <1>0, <2>1, <2>2 DEF Backed, BackedNext, Rounds, RoundsNext
<1> QED BY <1>1, <1>2

-----------------------------------------------------------------------------
(* CountInv after a step, part by part.                                    *)

RowsCounted ==
    \A s \in Subs : /\ BackedNext(row'[s].fails, s)
                    /\ row'[s].status = "disabled" => s \in deleted' \/ thrown'[s] >= FailLimit
SnapsCounted ==
    \A r \in Runners, s \in Subs :
        pc'[r] \in {"marking", "failing"} /\ cur'[r].sub = s => BackedNext(snap'[r].fails, s)
HeldCounted ==
    \A q \in Requests, s \in Subs :
        req'[q] # NoRequest /\ req'[q].sub = s => BackedNext(req'[q].snap.fails, s)

LEMMA CountLands ==
    ASSUME RowsCounted, SnapsCounted, HeldCounted
    PROVE  CountInv'
<1>1. \A s \in Subs : Pending(s)' = PendingNext(s)
  BY NextForms
<1>2. (\A s \in Subs : Backed(row[s].fails, s))'
  BY <1>1 DEF RowsCounted, Backed, BackedNext
<1>3. (\A r \in Runners, s \in Subs :
          pc[r] \in {"marking", "failing"} /\ cur[r].sub = s => Backed(snap[r].fails, s))'
  BY <1>1 DEF SnapsCounted, Backed, BackedNext
<1>4. (\A q \in Requests, s \in Subs :
          req[q] # NoRequest /\ req[q].sub = s => Backed(req[q].snap.fails, s))'
  BY <1>1 DEF HeldCounted, Backed, BackedNext
<1>5. DisabledForAReason'
  BY DEF RowsCounted, DisabledForAReason
<1> QED BY <1>2, <1>3, <1>4, <1>5 DEF CountInv

LEMMA FailsAreNat ==
    ASSUME TypeOK
    PROVE  /\ \A s \in Subs : row[s].fails \in Nat
           /\ \A r \in Runners : snap[r].fails \in Nat
           /\ \A q \in Requests : req[q] # NoRequest =>
                 req[q].snap \in Rows /\ req[q].snap.fails \in Nat /\ req[q].sub \in Subs
<1>1. \A x \in Rows : x.fails \in Nat
  BY SubscriptionsAssumption DEF Rows, SubscriptionsAssumption
<1>2. \A q \in Requests : req[q] # NoRequest => req[q] \in [op : Ops, sub : Subs, snap : Rows]
  BY DEF TypeOK
<1>3. \A q \in Requests : req[q] # NoRequest => req[q].snap \in Rows /\ req[q].sub \in Subs
  BY <1>2
<1> QED BY <1>1, <1>3 DEF TypeOK

LEMMA RowsKept ==
    ASSUME TypeOK, CountInv, Eased, row' = row, deleted' = deleted
    PROVE  RowsCounted
<1> SUFFICES ASSUME NEW s \in Subs
             PROVE  /\ BackedNext(row[s].fails, s)
                    /\ row[s].status = "disabled" => s \in deleted \/ thrown'[s] >= FailLimit
  BY DEF RowsCounted
<1>1. BackedNext(row[s].fails, s)
  BY FailsAreNat DEF CountInv, Eased
<1>2. thrown[s] \in Nat /\ thrown'[s] \in Nat /\ thrown'[s] >= thrown[s] /\ FailLimit \in Nat
  BY SubscriptionsAssumption DEF Eased, TypeOK, SubscriptionsAssumption
<1>3. row[s].status = "disabled" => s \in deleted \/ thrown[s] >= FailLimit
  BY DEF CountInv, DisabledForAReason
<1> QED BY <1>1, <1>2, <1>3

LEMMA SnapsKept ==
    ASSUME TypeOK, CountInv, Eased,
           \A r \in Runners : pc'[r] \in {"marking", "failing"} =>
              pc[r] \in {"marking", "failing"} /\ snap'[r] = snap[r] /\ cur'[r] = cur[r]
    PROVE  SnapsCounted
<1> SUFFICES ASSUME NEW r \in Runners, NEW s \in Subs,
                    pc'[r] \in {"marking", "failing"}, cur'[r].sub = s
             PROVE  BackedNext(snap'[r].fails, s)
  BY DEF SnapsCounted
<1>1. Backed(snap[r].fails, s) /\ snap'[r] = snap[r]
  BY DEF CountInv
<1> QED BY <1>1, FailsAreNat DEF Eased

LEMMA HeldKept ==
    ASSUME TypeOK, CountInv, Eased,
           \A q \in Requests : req'[q] # NoRequest =>
              req[q] # NoRequest /\ req'[q].sub = req[q].sub /\ req'[q].snap = req[q].snap
    PROVE  HeldCounted
<1> SUFFICES ASSUME NEW q \in Requests, NEW s \in Subs, req'[q] # NoRequest, req'[q].sub = s
             PROVE  BackedNext(req'[q].snap.fails, s)
  BY DEF HeldCounted
<1>1. Backed(req[q].snap.fails, s) /\ req'[q].snap = req[q].snap /\ req[q] # NoRequest
  BY DEF CountInv
<1> QED BY <1>1, FailsAreNat DEF Eased

(* A handler writes a row with the failures of the row it read, or none. *)
LEMMA RowWritten ==
    ASSUME TypeOK, CountInv, Eased, NEW s \in Subs, NEW x, row' = [row EXCEPT ![s] = x],
           deleted \subseteq deleted',
           x.fails \in Nat, NEW f \in Nat, Backed(f, s), x.fails <= f,
           x.status = "disabled" => s \in deleted'
    PROVE  RowsCounted
<1>0. row \in [Subs -> Rows] /\ thrown \in [Subs -> Nat] /\ FailLimit \in Nat
  BY SubscriptionsAssumption DEF TypeOK, SubscriptionsAssumption
<1> SUFFICES ASSUME NEW v \in Subs
             PROVE  /\ BackedNext(row'[v].fails, v)
                    /\ row'[v].status = "disabled" => v \in deleted' \/ thrown'[v] >= FailLimit
  BY DEF RowsCounted
<1>1. CASE v = s
  <2>1. row'[v] = x
    BY <1>0, <1>1
  <2>2. Backed(x.fails, s)
    <3>1. Cardinality(Pending(s)) \in Nat /\ thrown[s] \in Nat
      BY <1>0, RunnerSets DEF Pending
    <3>2. f + Cardinality(Pending(s)) <= thrown[s]
      BY DEF Backed
    <3> QED BY <3>1, <3>2 DEF Backed
  <2>3. BackedNext(x.fails, s)
    BY <2>2 DEF Eased
  <2> QED BY <1>1, <2>1, <2>3
<1>2. CASE v # s
  <2>1. row'[v] = row[v]
    BY <1>0, <1>2
  <2>2. BackedNext(row[v].fails, v)
    BY FailsAreNat DEF CountInv, Eased
  <2>3. row[v].status = "disabled" => v \in deleted \/ thrown[v] >= FailLimit
    BY DEF CountInv, DisabledForAReason
  <2>4. thrown'[v] >= thrown[v] /\ thrown'[v] \in Nat
    BY DEF Eased
  <2>5. thrown[v] >= FailLimit => thrown'[v] >= FailLimit
    BY <1>0, <2>4
  <2> QED BY <2>1, <2>2, <2>3, <2>5
<1> QED BY <1>1, <1>2

-----------------------------------------------------------------------------
(* MailInv after a step.                                                   *)

LEMMA PastSlots == ASSUME TypeOK PROVE now \in Nat /\ 1..now \subseteq Slots
BY SubscriptionsAssumption DEF TypeOK, Slots, SubscriptionsAssumption

LEMMA MailLands ==
    ASSUME SlotsInv', now' = now, \A s \in Subs, n \in 1..now : MailBoundNext(s, n)
    PROVE  MailInv'
<1>1. \A s \in Subs, n \in 1..now : MailBound(s, n)'
  BY NextForms
<1> QED BY <1>1 DEF MailInv

LEMMA MailKept ==
    ASSUME TypeOK, MailInv, Level, mails' = mails, now' = now, SlotsInv',
           \A s \in Subs, n \in 1..now : ReadyNext(s, n) \subseteq Ready(s, n)
    PROVE  MailInv'
<1>1. ASSUME NEW s \in Subs, NEW n \in 1..now PROVE MailBoundNext(s, n)
  <2>1. n \in Slots /\ MailBound(s, n) /\ RoundsNext(s) = Rounds(s)
    BY PastSlots DEF MailInv, Level
  <2> QED BY <2>1, BoundKept
<1> QED BY <1>1, MailLands

(* No slot that has come is put back into a row. *)
NoSlotReturns == \A s \in Subs : row'[s].next = row[s].next \/ row'[s].next \notin 1..now

(* A request is served: the runners stay where they are. *)
LEMMA DeskStep ==
    ASSUME TypeOK, MailInv, UNCHANGED <<pc, todo, cur, thrown, aborts, mails, now>>, NoSlotReturns
    PROVE  Eased /\ MailInv'
<1>1. \A s \in Subs : PendingNext(s) = Pending(s)
  BY DEF Pending, PendingNext
<1>2. Eased /\ Level
  BY <1>1, CalmCounts
<1>3. SlotsInv'
  BY DEF MailInv, SlotsInv
<1>4. ASSUME NEW s \in Subs, NEW n \in 1..now PROVE ReadyNext(s, n) \subseteq Ready(s, n)
  <2>1. row'[s].next = row[s].next \/ row'[s].next # n
    BY DEF NoSlotReturns
  <2>2. \A x \in Runners : InReady(pc'[x], cur'[x], row'[s].next, s, n)
                             => InReady(pc[x], cur[x], row[s].next, s, n)
    BY <2>1 DEF InReady
  <2> QED BY <2>2 DEF Ready, ReadyNext
<1> QED BY <1>2, <1>3, <1>4, MailKept

(* A runner moves on; nothing is thrown, recorded or mailed. *)
LEMMA RunnerStep ==
    ASSUME TypeOK, MailInv, NEW r \in Runners, MovesOnly(r),
           UNCHANGED <<thrown, aborts, mails, now>>, NoSlotReturns, SlotsInv',
           \A s \in Subs : InPending(pc'[r], cur'[r], s) <=> InPending(pc[r], cur[r], s),
           \A s \in Subs, n \in 1..now :
              InReady(pc'[r], cur'[r], row'[s].next, s, n)
                 => InReady(pc[r], cur[r], row[s].next, s, n)
    PROVE  Eased /\ MailInv'
<1>1. \A s \in Subs : PendingNext(s) = Pending(s)
  BY MoveOf
<1>2. Eased /\ Level
  BY <1>1, CalmCounts
<1>3. ASSUME NEW s \in Subs, NEW n \in 1..now PROVE ReadyNext(s, n) \subseteq Ready(s, n)
  <2>1. row'[s].next = row[s].next \/ row'[s].next # n
    BY DEF NoSlotReturns
  <2> QED BY <2>1, ReadyOf
<1> QED BY <1>2, <1>3, MailKept

(* A runner throws, without or before a mail. *)
LEMMA RunnerThrows ==
    ASSUME TypeOK, MailInv, NEW r \in Runners, MovesOnly(r), NEW s \in Subs, pc'[r] = "threw",
           cur'[r].sub = s, pc[r] \notin {"threw", "failing"}, pc[r] # "loop" => cur'[r] = cur[r],
           thrown' = [thrown EXCEPT ![s] = @ + 1], UNCHANGED <<row, aborts, mails, now>>, SlotsInv'
    PROVE  Eased /\ MailInv'
<1>1. Eased /\ Level
  BY ThrowEases
<1>2. ASSUME NEW v \in Subs, NEW n \in 1..now PROVE ReadyNext(v, n) \subseteq Ready(v, n)
  <2>1. InReady(pc'[r], cur'[r], row'[v].next, v, n) => InReady(pc[r], cur[r], row[v].next, v, n)
    <3>1. CASE v = s
      BY <3>1 DEF InReady, InPending
    <3>2. CASE v # s
      <4>1. ASSUME row[v].next = n PROVE InReady(pc[r], cur[r], row[v].next, v, n)
        <5>1. pc[r] \in {"mailed", "marking"} => ~At(cur[r], v, n)
          BY <3>2 DEF At
        <5> QED BY <4>1, <5>1 DEF InReady, InPending
      <4> QED BY <4>1 DEF InReady
    <3> QED BY <3>1, <3>2
  <2> QED BY <2>1, ReadyOf
<1> QED BY <1>1, <1>2, MailKept

(* A runner past the re-fetch mails the slot it holds. *)
LEMMA RunnerMails ==
    ASSUME TypeOK, CountInv, MailInv, NEW r \in Runners, MovesOnly(r), Level,
           pc[r] = "checked", pc'[r] \in {"mailed", "threw"}, cur' = cur,
           CountMail(r), UNCHANGED <<row, todo, now>>
    PROVE  MailInv'
<1> DEFINE s == cur[r].sub
           n == cur[r].next
<1>0. /\ cur[r] \in Entries /\ s \in Subs /\ n \in 1..now
      /\ At(cur[r], s, n)
  <2>1. cur[r] \in Entries /\ n \in 1..now
    BY DEF TypeOK, MailInv, SlotsInv
  <2> QED BY <2>1 DEF Entries, At
<1>1. /\ mails \in [Subs -> [Slots -> Nat]]
      /\ mails' = [mails EXCEPT ![s][n] = @ + 1]
  BY DEF TypeOK, CountMail
<1>2. n \in Slots
  BY <1>0, PastSlots
<1> HIDE DEF s, n
<1>3. /\ mails'[s][n] = mails[s][n] + 1
      /\ \A v \in Subs, m \in Slots : v # s \/ m # n => mails'[v][m] = mails[v][m]
  BY <1>0, <1>1, <1>2
<1>4. SlotsInv'
  <2>1. \A x \in Runners : \A e \in todo'[x] : e.next \in 1..now'
    BY DEF MailInv, SlotsInv
  <2>2. \A x \in Runners : pc'[x] \notin {"idle", "loop"} => cur'[x].next \in 1..now'
    BY <1>0 DEF MailInv, SlotsInv, MovesOnly
  <2>3. \A v \in Subs, m \in Slots : m \notin 1..now' => mails'[v][m] = 0
    BY <1>0, <1>3 DEF MailInv, SlotsInv
  <2> QED BY <2>1, <2>2, <2>3 DEF SlotsInv
<1>5. ASSUME NEW v \in Subs, NEW m \in 1..now PROVE MailBoundNext(v, m)
  <2>0. m \in Slots /\ MailBound(v, m) /\ RoundsNext(v) = Rounds(v)
    BY PastSlots DEF MailInv, Level
  <2>1. CASE v = s /\ m = n
    <3>1. r \in Ready(s, n)
      BY <1>0 DEF Ready, InReady
    <3>2. ~InReady(pc'[r], cur'[r], row'[s].next, s, n)
      BY <1>0 DEF InReady, InPending, At
    <3>3. ReadyNext(s, n) \subseteq Ready(s, n) \ {r}
      BY <3>2, ReadyOf
    <3> QED BY <1>3, <2>0, <2>1, <3>1, <3>3, BoundMailed
  <2>2. CASE v # s \/ m # n
    <3>1. ~At(cur[r], v, m)
      BY <1>0, <2>2 DEF At
    <3>2. InReady(pc'[r], cur'[r], row'[v].next, v, m) => InReady(pc[r], cur[r], row[v].next, v, m)
      BY <3>1 DEF InReady, InPending
    <3>3. ReadyNext(v, m) \subseteq Ready(v, m)
      BY <3>2, ReadyOf
    <3>4. mails'[v][m] = mails[v][m]
      BY <1>3, <2>0, <2>2
    <3> QED BY <2>0, <3>3, <3>4, BoundKept
  <2> QED BY <2>1, <2>2
<1> QED BY <1>4, <1>5, MailLands
-----------------------------------------------------------------------------
(* Rows that handlers read and write.                                      *)

LEMMA SnapsRead ==
    ASSUME TypeOK, CountInv, Eased, NEW r \in Runners, MovesOnly(r), cur'[r] = cur[r],
           snap' = [snap EXCEPT ![r] = row[cur[r].sub]]
    PROVE  SnapsCounted
<1> SUFFICES ASSUME NEW x \in Runners, NEW s \in Subs,
                    pc'[x] \in {"marking", "failing"}, cur'[x].sub = s
             PROVE  BackedNext(snap'[x].fails, s)
  BY DEF SnapsCounted
<1>0. snap \in [Runners -> Rows]
  BY DEF TypeOK
<1>1. CASE x = r
  <2>1. snap'[x] = row[s]
    BY <1>0, <1>1
  <2> QED BY <2>1, FailsAreNat DEF CountInv, Eased
<1>2. CASE x # r
  <2>1. snap'[x] = snap[x]
    BY <1>0, <1>2
  <2>2. Backed(snap[x].fails, s)
    BY <1>2 DEF CountInv, MovesOnly
  <2> QED BY <2>1, <2>2, FailsAreNat DEF Eased
<1> QED BY <1>1, <1>2

LEMMA HeldRead ==
    ASSUME TypeOK, CountInv, Eased, NEW q \in Requests, NEW s \in Subs, NEW op,
           req' = [req EXCEPT ![q] = Request(op, s, row[s])]
    PROVE  HeldCounted
<1> SUFFICES ASSUME NEW p \in Requests, NEW v \in Subs, req'[p] # NoRequest, req'[p].sub = v
             PROVE  BackedNext(req'[p].snap.fails, v)
  BY DEF HeldCounted
<1>0. req' = [p1 \in Requests |-> IF p1 = q THEN Request(op, s, row[s]) ELSE req[p1]]
  BY DEF TypeOK
<1>1. CASE p = q
  <2>1. req'[p].sub = s /\ req'[p].snap = row[s]
    BY <1>0, <1>1 DEF Request
  <2> QED BY <2>1, FailsAreNat DEF CountInv, Eased
<1>2. CASE p # q
  <2>1. req'[p] = req[p]
    BY <1>0, <1>2
  <2>2. Backed(req[p].snap.fails, v)
    BY <2>1 DEF CountInv
  <2> QED BY <2>1, <2>2, FailsAreNat DEF Eased
<1> QED BY <1>1, <1>2

(* A row is written with a slot that has not come. *)
LEMMA SlotMoves ==
    ASSUME TypeOK, NEW s \in Subs, NEW x, row' = [row EXCEPT ![s] = x], x.next \notin 1..now
    PROVE  NoSlotReturns
BY DEF TypeOK, NoSlotReturns

(* Slots of the future stay out of the runners' hands. *)
LEMMA SlotsKept ==
    ASSUME SlotsInv, NEW r \in Runners, MovesOnly(r), mails' = mails, now' = now,
           \A x \in Runners : todo'[x] \subseteq todo[x],
           pc'[r] \notin {"idle", "loop"} => cur'[r].next \in 1..now
    PROVE  SlotsInv'
<1>1. \A x \in Runners : \A e \in todo'[x] : e.next \in 1..now'
  BY DEF SlotsInv
<1>2. \A x \in Runners : pc'[x] \notin {"idle", "loop"} => cur'[x].next \in 1..now'
  BY DEF SlotsInv, MovesOnly
<1>3. \A s \in Subs, n \in Slots : n \notin 1..now' => mails'[s][n] = 0
  BY DEF SlotsInv
<1> QED BY <1>1, <1>2, <1>3 DEF SlotsInv

-----------------------------------------------------------------------------
(* Requests and the clock.                                                 *)

LEMMA CreateExplains ==
    ASSUME SoundInv, CountInv, MailInv, NEW s \in Subs, Create(s)
    PROVE  CountInv' /\ MailInv'
<1> USE DEF SoundInv
<1>1. PICK n \in NextSendAt : row' = [row EXCEPT ![s] = Row("active", n, 0)]
  BY DEF Create
<1>2. n \notin 1..now
  BY PastSlots DEF NextSendAt, Slots
<1>3. UNCHANGED <<now, pc, todo, cur, snap, req, thrown, mails, deleted, aborts>>
  BY DEF Create, runVars, ghosts
<1>4. NoSlotReturns
  BY <1>1, <1>2, SlotMoves DEF Row
<1>5. Eased /\ MailInv'
  BY <1>3, <1>4, DeskStep
<1>6. RowsCounted
  <2>1. Backed(row[s].fails, s) /\ row[s].fails \in Nat
    BY FailsAreNat DEF CountInv
  <2> DEFINE x == Row("active", n, 0)
  <2>2. x.fails \in Nat /\ x.fails <= row[s].fails /\ x.status # "disabled"
    BY <2>1 DEF Row
  <2>3. row' = [row EXCEPT ![s] = x] /\ TypeOK /\ deleted \subseteq deleted' /\ Eased
    BY <1>1, <1>3, <1>5
  <2> HIDE DEF x, SoundInv
  <2> QED BY <2>1, <2>2, <2>3, RowWritten
<1>7. SnapsCounted /\ HeldCounted
  BY <1>3, <1>5, SnapsKept, HeldKept
<1> QED BY <1>5, <1>6, <1>7, CountLands

LEMMA RequestReadsExplains ==
    ASSUME SoundInv, CountInv, MailInv, NEW q \in Requests, NEW s \in Subs, NEW op,
           RequestReads(q, s, op)
    PROVE  CountInv' /\ MailInv'
<1> USE DEF SoundInv
<1>1. /\ UNCHANGED <<row, now, pc, todo, cur, snap, thrown, mails, deleted, aborts>>
      /\ req' = [req EXCEPT ![q] = Request(op, s, row[s])]
  BY DEF RequestReads, runVars, ghosts
<1>2. NoSlotReturns
  BY <1>1 DEF NoSlotReturns
<1>3. Eased /\ MailInv'
  BY <1>1, <1>2, DeskStep
<1>4. RowsCounted /\ SnapsCounted /\ HeldCounted
  BY <1>1, <1>3, RowsKept, SnapsKept, HeldRead
<1> QED BY <1>3, <1>4, CountLands

(* A request that holds a row goes on with it or is over. *)
LEMMA RequestDone ==
    ASSUME TypeOK, CountInv, Eased, NEW q \in Requests, req' = [req EXCEPT ![q] = NoRequest]
    PROVE  HeldCounted
<1>1. req' = [p \in Requests |-> IF p = q THEN NoRequest ELSE req[p]]
  BY DEF TypeOK
<1> QED BY <1>1, HeldKept

LEMMA RequestWritesExplains ==
    ASSUME SoundInv, CountInv, MailInv, NEW q \in Requests, RequestWrites(q)
    PROVE  CountInv' /\ MailInv'
<1>1. PICK n \in NextSendAt :
         row' = [row EXCEPT ![req[q].sub] = Edited(req[q].op, req[q].snap, n)]
  BY DEF RequestWrites
<1>2. n \notin 1..now
  BY PastSlots DEF NextSendAt, Slots, SoundInv
<1> DEFINE s == req[q].sub
           x == Edited(req[q].op, req[q].snap, n)
<1>3. /\ UNCHANGED <<now, pc, todo, cur, snap, thrown, mails, aborts>>
      /\ req' = [req EXCEPT ![q] = NoRequest]
      /\ req[q].op \in {"update", "pause", "resume", "delete"}
      /\ deleted \subseteq deleted' /\ (req[q].op = "delete" => s \in deleted')
  BY DEF RequestWrites, runVars, ghosts
<1>4. s \in Subs /\ Served(req[q].snap) /\ req[q] # NoRequest
  BY <1>3, HeldIsTyped DEF NoRequest
<1>5. x.next \notin 1..now /\ x.fails = req[q].snap.fails
  BY <1>2, <1>3 DEF Edited, Row
<1>6. x.status = "disabled" => s \in deleted'
  BY <1>3, <1>4 DEF Edited, Row, Served
<1> HIDE DEF x
<1>7. NoSlotReturns
  BY <1>1, <1>4, <1>5, SlotMoves DEF x, SoundInv
<1>8. Eased /\ MailInv'
  BY <1>3, <1>7, DeskStep DEF SoundInv
<1>9. RowsCounted
  <2>1. Backed(req[q].snap.fails, s) /\ req[q].snap.fails \in Nat
    BY <1>4, FailsAreNat DEF CountInv, SoundInv
  <2>2. row' = [row EXCEPT ![s] = x]
    BY <1>1 DEF x
  <2>3. x.fails \in Nat /\ x.fails <= req[q].snap.fails /\ TypeOK /\ s \in Subs
    BY <1>4, <1>5, <2>1 DEF SoundInv
  <2> HIDE DEF s
  <2> QED BY <1>3, <1>6, <1>8, <2>1, <2>2, <2>3, RowWritten
<1>10. SnapsCounted /\ HeldCounted
  BY <1>3, <1>8, SnapsKept, RequestDone DEF SoundInv
<1> QED BY <1>8, <1>9, <1>10, CountLands

LEMMA SendNowMailsExplains ==
    ASSUME SoundInv, CountInv, MailInv, NEW q \in Requests, SendNowMails(q)
    PROVE  CountInv' /\ MailInv'
<1>1. /\ UNCHANGED <<row, now, pc, todo, cur, snap, thrown, mails, deleted, aborts>>
      /\ req[q].op = "mailing"
      /\ req' = [req EXCEPT ![q] = Request("mailed", req[q].sub, req[q].snap)]
  BY DEF SendNowMails, runVars, ghosts
<1>2. NoSlotReturns
  BY <1>1 DEF NoSlotReturns
<1>3. Eased /\ MailInv'
  BY <1>1, <1>2, DeskStep DEF SoundInv
<1>4. req[q] # NoRequest
  BY <1>1 DEF NoRequest
<1>5. req' = [p \in Requests |-> IF p = q THEN Request("mailed", req[q].sub, req[q].snap) ELSE req[p]]
  BY <1>1 DEF SoundInv, TypeOK
<1>6. \A p \in Requests : req'[p] # NoRequest =>
         req[p] # NoRequest /\ req'[p].sub = req[p].sub /\ req'[p].snap = req[p].snap
  BY <1>4, <1>5 DEF Request
<1>7. RowsCounted /\ SnapsCounted /\ HeldCounted
  BY <1>1, <1>3, <1>6, RowsKept, SnapsKept, HeldKept DEF SoundInv
<1> QED BY <1>3, <1>7, CountLands

LEMMA SendNowMarkReadsExplains ==
    ASSUME SoundInv, CountInv, MailInv, NEW q \in Requests, SendNowMarkReads(q)
    PROVE  CountInv' /\ MailInv'
<1>1. /\ UNCHANGED <<row, now, pc, todo, cur, snap, thrown, mails, deleted, aborts>>
      /\ req[q].op = "mailed"
      /\ \/ req' = [req EXCEPT ![q] = Request("marking", req[q].sub, row[req[q].sub])]
         \/ req' = [req EXCEPT ![q] = NoRequest]
  BY DEF SendNowMarkReads, runVars, ghosts
<1>2. NoSlotReturns
  BY <1>1 DEF NoSlotReturns
<1>3. Eased /\ MailInv'
  BY <1>1, <1>2, DeskStep DEF SoundInv
<1>4. req[q].sub \in Subs
  BY <1>1, HeldIsTyped
<1>5. HeldCounted
  BY <1>1, <1>3, <1>4, HeldRead, RequestDone DEF SoundInv
<1>6. RowsCounted /\ SnapsCounted
  BY <1>1, <1>3, RowsKept, SnapsKept DEF SoundInv
<1> QED BY <1>3, <1>5, <1>6, CountLands

LEMMA SendNowMarksExplains ==
    ASSUME SoundInv, CountInv, MailInv, NEW q \in Requests, SendNowMarks(q)
    PROVE  CountInv' /\ MailInv'
<1>1. PICK n \in NextSendAt : row' = [row EXCEPT ![req[q].sub] = Sent(req[q].snap, n)]
  BY DEF SendNowMarks
<1>2. n \notin 1..now
  BY PastSlots DEF NextSendAt, Slots, SoundInv
<1> DEFINE s == req[q].sub
           x == Sent(req[q].snap, n)
<1>3. /\ UNCHANGED <<now, pc, todo, cur, snap, thrown, mails, deleted, aborts>>
      /\ req' = [req EXCEPT ![q] = NoRequest]
      /\ req[q].op = "marking"
  BY DEF SendNowMarks, runVars, ghosts
<1>4. s \in Subs /\ Served(req[q].snap) /\ req[q] # NoRequest
  BY <1>3, HeldIsTyped DEF NoRequest
<1>5. x.next \notin 1..now /\ x.fails = 0 /\ x.status # "disabled"
  BY <1>2, <1>4 DEF Sent, Row, Served
<1> HIDE DEF x
<1>7. NoSlotReturns
  BY <1>1, <1>4, <1>5, SlotMoves DEF x, SoundInv
<1>8. Eased /\ MailInv'
  BY <1>3, <1>7, DeskStep DEF SoundInv
<1>9. RowsCounted
  <2>1. Backed(row[s].fails, s) /\ row[s].fails \in Nat
    BY <1>4, FailsAreNat DEF CountInv, SoundInv
  <2>2. row' = [row EXCEPT ![s] = x]
    BY <1>1 DEF x
  <2>3. x.fails \in Nat /\ x.fails <= row[s].fails /\ TypeOK /\ s \in Subs
    BY <1>4, <1>5, <2>1 DEF SoundInv
  <2> HIDE DEF s
  <2> QED BY <1>3, <1>5, <1>8, <2>1, <2>2, <2>3, RowWritten
<1>10. SnapsCounted /\ HeldCounted
  BY <1>3, <1>8, SnapsKept, RequestDone DEF SoundInv
<1> QED BY <1>8, <1>9, <1>10, CountLands

LEMMA RequestFailsExplains ==
    ASSUME SoundInv, CountInv, MailInv, NEW q \in Requests, RequestFails(q)
    PROVE  CountInv' /\ MailInv'
<1>1. /\ UNCHANGED <<row, now, pc, todo, cur, snap, thrown, mails, deleted, aborts>>
      /\ req' = [req EXCEPT ![q] = NoRequest]
  BY DEF RequestFails, runVars, ghosts
<1>2. NoSlotReturns
  BY <1>1 DEF NoSlotReturns
<1>3. Eased /\ MailInv'
  BY <1>1, <1>2, DeskStep DEF SoundInv
<1>4. RowsCounted /\ SnapsCounted /\ HeldCounted
  BY <1>1, <1>3, RowsKept, SnapsKept, RequestDone DEF SoundInv
<1> QED BY <1>3, <1>4, CountLands

LEMMA NothingHappensExplains ==
    ASSUME SoundInv, CountInv, MailInv, UNCHANGED vars
    PROVE  CountInv' /\ MailInv'
<1>1. UNCHANGED <<row, now, pc, todo, cur, snap, req, thrown, mails, deleted, aborts>>
  BY DEF vars, runVars, ghosts
<1>2. NoSlotReturns
  BY <1>1 DEF NoSlotReturns
<1>3. Eased /\ MailInv'
  BY <1>1, <1>2, DeskStep DEF SoundInv
<1>4. RowsCounted /\ SnapsCounted /\ HeldCounted
  BY <1>1, <1>3, RowsKept, SnapsKept, HeldKept DEF SoundInv
<1> QED BY <1>3, <1>4, CountLands

(* The slot that comes has no mails yet, and every runner at most one ahead. *)
LEMMA TimePassesExplains ==
    ASSUME SoundInv, CountInv, MailInv, TimePasses
    PROVE  CountInv' /\ MailInv'
<1>1. UNCHANGED <<row, pc, todo, cur, snap, req, thrown, mails, deleted, aborts>> /\ now' = now + 1
  BY DEF TimePasses, runVars, ghosts
<1>2. \A s \in Subs : PendingNext(s) = Pending(s)
  BY <1>1 DEF Pending, PendingNext
<1>3. Eased /\ Level
  BY <1>1, <1>2, CalmCounts DEF SoundInv
<1>4. RowsCounted /\ SnapsCounted /\ HeldCounted
  BY <1>1, <1>3, RowsKept, SnapsKept, HeldKept DEF SoundInv
<1>5. CountInv'
  BY <1>4, CountLands
<1>6. now \in Nat /\ 1..now \subseteq 1..now'
  BY <1>1, PastSlots DEF SoundInv
<1>7. SlotsInv'
  <2>1. \A x \in Runners : \A e \in todo'[x] : e.next \in 1..now'
    BY <1>1, <1>6 DEF MailInv, SlotsInv
  <2>2. \A x \in Runners : pc'[x] \notin {"idle", "loop"} => cur'[x].next \in 1..now'
    BY <1>1, <1>6 DEF MailInv, SlotsInv
  <2>3. \A s \in Subs, n \in Slots : n \notin 1..now' => mails'[s][n] = 0
    BY <1>1, <1>6 DEF MailInv, SlotsInv
  <2> QED BY <2>1, <2>2, <2>3 DEF SlotsInv
<1>8. ASSUME NEW s \in Subs, NEW n \in 1..now' PROVE MailBoundNext(s, n)
  <2>0. RoundsNext(s) = Rounds(s) /\ ReadyNext(s, n) = Ready(s, n) /\ mails'[s][n] = mails[s][n]
    BY <1>1, <1>3 DEF Level, Ready, ReadyNext
  <2>1. n \in Slots
    BY <1>1, <1>6, SubscriptionsAssumption
       DEF Slots, TimePasses, SubscriptionsAssumption
  <2>2. CASE n \in 1..now
    <3>1. MailBound(s, n)
      BY <2>2 DEF MailInv
    <3> QED BY <2>0, <2>1, <3>1, BoundKept DEF SoundInv
  <2>3. CASE n \notin 1..now
    <3>1. mails[s][n] = 0
      BY <2>1, <2>3 DEF MailInv, SlotsInv
    <3>2. /\ Cardinality(Ready(s, n)) \in Nat /\ Cardinality(Runners) \in Nat
          /\ Cardinality(Ready(s, n)) <= Cardinality(Runners)
      BY RunnerSets DEF Ready
    <3>3. Rounds(s) - 1 \in Nat /\ Rounds(s) = (Rounds(s) - 1) + 1
      BY RoundsNat DEF SoundInv
    <3>4. PICK k \in Nat : Rounds(s) = k + 1
      BY <3>3
    <3>5. Cardinality(Runners) * Rounds(s) = Cardinality(Runners) * k + Cardinality(Runners)
          /\ Cardinality(Runners) * k \in Nat
      BY <3>4, RoomGrows
    <3>6. Cardinality(Ready(s, n)) <= Cardinality(Runners) * k + Cardinality(Runners)
      BY <3>2, <3>5
    <3>7. mails[s][n] + Cardinality(Ready(s, n)) = Cardinality(Ready(s, n))
      BY <3>1, <3>2
    <3> QED BY <2>0, <3>5, <3>6, <3>7 DEF MailBoundNext
  <2> QED BY <2>2, <2>3
<1>9. \A s \in Subs, n \in 1..now' : MailBound(s, n)'
  BY <1>8, NextForms
<1> QED BY <1>5, <1>7, <1>9 DEF MailInv
-----------------------------------------------------------------------------
(* The cron job.                                                           *)

(* Where a runner that is past the loop works. *)
LEMMA CurIsDue ==
    ASSUME TypeOK, MailInv, NEW r \in Runners, pc[r] \notin {"idle", "loop"}
    PROVE  /\ cur[r] \in Entries /\ cur[r].sub \in Subs /\ cur[r].next \in 1..now
           /\ At(cur[r], cur[r].sub, cur[r].next)
<1>1. cur[r] \in Entries /\ cur[r].next \in 1..now
  BY DEF TypeOK, MailInv, SlotsInv
<1> QED BY <1>1 DEF Entries, At

(* Runner r alone changes its place. *)
LEMMA MovesPc ==
    ASSUME TypeOK, NEW r \in Runners, NEW p, pc' = [pc EXCEPT ![r] = p],
           cur' = cur \/ \E e : cur' = [cur EXCEPT ![r] = e]
    PROVE  MovesOnly(r) /\ pc'[r] = p
BY DEF TypeOK, MovesOnly

LEMMA FindDueExplains ==
    ASSUME SoundInv, CountInv, MailInv, NEW r \in Runners, FindDue(r)
    PROVE  CountInv' /\ MailInv'
<1>1. /\ UNCHANGED <<row, now, cur, snap, req, thrown, mails, deleted, aborts>>
      /\ pc[r] = "idle" /\ pc' = [pc EXCEPT ![r] = "loop"]
      /\ todo' = [todo EXCEPT ![r] = {[sub |-> s, next |-> row[s].next] : s \in {s \in Subs : IsDue(s)}}]
  BY DEF FindDue, ghosts
<1>2. MovesOnly(r) /\ pc'[r] = "loop"
  BY <1>1, MovesPc DEF SoundInv
<1>3. SlotsInv'
  <2>1. \A x \in Runners : \A e \in todo'[x] : e.next \in 1..now'
    BY <1>1 DEF SoundInv, TypeOK, MailInv, SlotsInv, IsDue
  <2>2. \A x \in Runners : pc'[x] \notin {"idle", "loop"} => cur'[x].next \in 1..now'
    BY <1>1, <1>2 DEF MailInv, SlotsInv, MovesOnly
  <2>3. \A s \in Subs, n \in Slots : n \notin 1..now' => mails'[s][n] = 0
    BY <1>1 DEF MailInv, SlotsInv
  <2> QED BY <2>1, <2>2, <2>3 DEF SlotsInv
<1>4. Eased /\ MailInv'
  BY <1>1, <1>2, <1>3, RunnerStep DEF SoundInv, NoSlotReturns, InPending, InReady
<1>5. SnapsCounted
  BY <1>1, <1>2, <1>4, SnapsKept DEF SoundInv, MovesOnly
<1>6. RowsCounted /\ HeldCounted
  BY <1>1, <1>4, RowsKept, HeldKept DEF SoundInv
<1> QED BY <1>4, <1>5, <1>6, CountLands

LEMMA RefetchExplains ==
    ASSUME SoundInv, CountInv, MailInv, NEW r \in Runners, Refetch(r)
    PROVE  CountInv' /\ MailInv'
<1>1. /\ UNCHANGED <<row, now, snap, req, thrown, mails, deleted, aborts>>
      /\ pc[r] = "loop"
  BY DEF Refetch, ghosts
<1>2. PICK e \in todo[r] :
         /\ todo' = [todo EXCEPT ![r] = @ \ {e}]
         /\ \/ /\ UnchangedSince(e)
               /\ pc' = [pc EXCEPT ![r] = "checked"] /\ cur' = [cur EXCEPT ![r] = e]
            \/ UNCHANGED <<pc, cur>>
  BY DEF Refetch
<1>3. /\ e \in Entries /\ e.next \in 1..now
      /\ \A x \in Runners : todo'[x] \subseteq todo[x]
  BY <1>2 DEF SoundInv, TypeOK, MailInv, SlotsInv
<1>4. MovesOnly(r)
  BY <1>2, MovesPc DEF SoundInv, MovesOnly
<1>5. \/ pc'[r] = "checked" /\ cur'[r] = e /\ UnchangedSince(e)
      \/ pc'[r] = "loop" /\ cur'[r] = cur[r]
  <2>1. pc \in [Runners -> Pcs] /\ cur \in [Runners -> Entries \cup {NoEntry}]
    BY DEF SoundInv, TypeOK
  <2>2. CASE /\ UnchangedSince(e)
             /\ pc' = [pc EXCEPT ![r] = "checked"] /\ cur' = [cur EXCEPT ![r] = e]
    BY <2>1, <2>2
  <2>3. CASE UNCHANGED <<pc, cur>>
    BY <1>1, <2>3
  <2> QED BY <1>2, <2>2, <2>3
<1>6. SlotsInv'
  BY <1>1, <1>3, <1>4, <1>5, SlotsKept DEF MailInv
<1>7. \A s \in Subs : InPending(pc'[r], cur'[r], s) <=> InPending(pc[r], cur[r], s)
  BY <1>1, <1>5 DEF InPending
<1>8. ASSUME NEW s \in Subs, NEW n \in 1..now, InReady(pc'[r], cur'[r], row'[s].next, s, n)
      PROVE  InReady(pc[r], cur[r], row[s].next, s, n)
  <2>1. row[s].next = n => InReady(pc[r], cur[r], row[s].next, s, n)
    BY <1>1 DEF InReady, InPending
  <2>2. CASE pc'[r] = "checked" /\ cur'[r] = e /\ UnchangedSince(e)
    <3>1. At(e, s, n) => row[s].next = n
      BY <2>2 DEF At, UnchangedSince
    <3> QED BY <1>1, <1>8, <2>1, <2>2, <3>1 DEF InReady
  <2>3. CASE pc'[r] = "loop" /\ cur'[r] = cur[r]
    BY <1>1, <1>8, <2>1, <2>3 DEF InReady
  <2> QED BY <1>5, <2>2, <2>3
<1>9. NoSlotReturns
  BY <1>1 DEF NoSlotReturns
<1>10. Eased /\ MailInv'
  BY <1>1, <1>4, <1>6, <1>7, <1>8, <1>9, RunnerStep DEF SoundInv
<1>11. SnapsCounted
  BY <1>1, <1>4, <1>5, <1>10, SnapsKept DEF SoundInv, MovesOnly
<1>12. RowsCounted /\ HeldCounted
  BY <1>1, <1>10, RowsKept, HeldKept DEF SoundInv
<1> QED BY <1>10, <1>11, <1>12, CountLands

LEMMA RefetchFailsExplains ==
    ASSUME SoundInv, CountInv, MailInv, NEW r \in Runners, RefetchFails(r)
    PROVE  CountInv' /\ MailInv'
<1>1. /\ UNCHANGED <<row, now, snap, req, mails, deleted, aborts>>
      /\ pc[r] = "loop" /\ pc' = [pc EXCEPT ![r] = "threw"]
  BY DEF RefetchFails
<1>2. PICK e \in todo[r] :
         /\ todo' = [todo EXCEPT ![r] = @ \ {e}] /\ cur' = [cur EXCEPT ![r] = e]
         /\ thrown' = [thrown EXCEPT ![e.sub] = @ + 1]
  BY DEF RefetchFails
<1>3. /\ e \in Entries /\ e.next \in 1..now
      /\ \A x \in Runners : todo'[x] \subseteq todo[x]
  BY <1>2 DEF SoundInv, TypeOK, MailInv, SlotsInv
<1>4. MovesOnly(r) /\ pc'[r] = "threw"
  BY <1>1, <1>2, MovesPc DEF SoundInv
<1>5. cur'[r] = e /\ e.sub \in Subs
  BY <1>2, <1>3 DEF SoundInv, TypeOK, Entries
<1>6. SlotsInv'
  BY <1>1, <1>3, <1>4, <1>5, SlotsKept DEF MailInv
<1>7. Eased /\ MailInv'
  BY <1>1, <1>2, <1>4, <1>5, <1>6, RunnerThrows DEF SoundInv
<1>8. SnapsCounted
  BY <1>1, <1>4, <1>7, SnapsKept DEF SoundInv, MovesOnly
<1>9. RowsCounted /\ HeldCounted
  BY <1>1, <1>7, RowsKept, HeldKept DEF SoundInv
<1> QED BY <1>7, <1>8, <1>9, CountLands

(* A runner goes to a place where it holds no row and nothing is pending. *)
LEMMA PlainMoveExplains ==
    ASSUME SoundInv, CountInv, MailInv, NEW r \in Runners, NEW p \in {"idle", "loop"},
           UNCHANGED <<row, now, todo, cur, snap, req, thrown, mails, deleted, aborts>>,
           pc[r] \in {"loop", "audit", "failAudit"}, pc' = [pc EXCEPT ![r] = p]
    PROVE  CountInv' /\ MailInv'
<1>1. MovesOnly(r) /\ pc'[r] = p
  BY MovesPc DEF SoundInv
<1>2. SlotsInv'
  BY <1>1, SlotsKept DEF MailInv
<1>3. Eased /\ MailInv'
  BY <1>1, <1>2, RunnerStep DEF SoundInv, NoSlotReturns, InPending, InReady
<1>4. SnapsCounted
  BY <1>1, <1>3, SnapsKept DEF SoundInv, MovesOnly
<1>5. RowsCounted /\ HeldCounted
  BY <1>3, RowsKept, HeldKept DEF SoundInv
<1> QED BY <1>3, <1>4, <1>5, CountLands

(* The exceptions of a runner that holds a due slot, no mail with them. *)
LEMMA PlainThrowExplains ==
    ASSUME SoundInv, CountInv, MailInv, NEW r \in Runners,
           UNCHANGED <<row, now, todo, cur, snap, req, mails, deleted, aborts>>,
           pc[r] \in {"checked", "mailed", "marking", "audit"}, Throw(r)
    PROVE  CountInv' /\ MailInv'
<1>1. MovesOnly(r) /\ pc'[r] = "threw"
  BY MovesPc DEF SoundInv, Throw
<1>2. cur[r].sub \in Subs /\ cur[r].next \in 1..now
  BY CurIsDue DEF SoundInv
<1>3. SlotsInv'
  BY <1>1, <1>2, SlotsKept DEF MailInv
<1>4. thrown' = [thrown EXCEPT ![cur[r].sub] = @ + 1]
  BY DEF Throw
<1>5. Eased /\ MailInv'
  BY <1>1, <1>2, <1>3, <1>4, RunnerThrows DEF SoundInv
<1>6. SnapsCounted
  BY <1>1, <1>5, SnapsKept DEF SoundInv, MovesOnly
<1>7. RowsCounted /\ HeldCounted
  BY <1>5, RowsKept, HeldKept DEF SoundInv
<1> QED BY <1>5, <1>6, <1>7, CountLands

LEMMA SendFailsExplains ==
    ASSUME SoundInv, CountInv, MailInv, NEW r \in Runners, SendFails(r)
    PROVE  CountInv' /\ MailInv'
<1>1. /\ UNCHANGED <<row, now, todo, cur, snap, req, deleted, aborts>>
      /\ pc[r] = "checked" /\ Throw(r) /\ (CountMail(r) \/ UNCHANGED mails)
  BY DEF SendFails
<1>2. CASE UNCHANGED mails
  BY <1>1, <1>2, PlainThrowExplains
<1>3. CASE CountMail(r)
  <2>1. MovesOnly(r) /\ pc'[r] = "threw"
    BY <1>1, MovesPc DEF SoundInv, Throw
  <2>2. cur[r].sub \in Subs /\ thrown' = [thrown EXCEPT ![cur[r].sub] = @ + 1]
    BY <1>1, CurIsDue DEF SoundInv, Throw
  <2>3. Eased /\ Level
    BY <1>1, <2>1, <2>2, ThrowEases DEF SoundInv
  <2>4. MailInv'
    BY <1>1, <1>3, <2>1, <2>3, RunnerMails DEF SoundInv
  <2>5. SnapsCounted
    BY <1>1, <2>1, <2>3, SnapsKept DEF SoundInv, MovesOnly
  <2>6. RowsCounted /\ HeldCounted
    BY <1>1, <2>3, RowsKept, HeldKept DEF SoundInv
  <2> QED BY <2>4, <2>5, <2>6, CountLands
<1> QED BY <1>1, <1>2, <1>3

LEMMA SendSucceedsExplains ==
    ASSUME SoundInv, CountInv, MailInv, NEW r \in Runners, SendSucceeds(r)
    PROVE  CountInv' /\ MailInv'
<1>1. /\ UNCHANGED <<row, now, todo, cur, snap, req, thrown, deleted, aborts>>
      /\ pc[r] = "checked" /\ pc' = [pc EXCEPT ![r] = "mailed"] /\ CountMail(r)
  BY DEF SendSucceeds
<1>2. MovesOnly(r) /\ pc'[r] = "mailed"
  BY <1>1, MovesPc DEF SoundInv
<1>3. \A s \in Subs : PendingNext(s) = Pending(s)
  BY <1>1, <1>2, MoveOf DEF InPending
<1>4. Eased /\ Level
  BY <1>1, <1>3, CalmCounts DEF SoundInv
<1>5. MailInv'
  BY <1>1, <1>2, <1>4, RunnerMails DEF SoundInv
<1>6. SnapsCounted
  BY <1>1, <1>2, <1>4, SnapsKept DEF SoundInv, MovesOnly
<1>7. RowsCounted /\ HeldCounted
  BY <1>1, <1>4, RowsKept, HeldKept DEF SoundInv
<1> QED BY <1>5, <1>6, <1>7, CountLands
LEMMA MarkSentReadsExplains ==
    ASSUME SoundInv, CountInv, MailInv, NEW r \in Runners, MarkSentReads(r)
    PROVE  CountInv' /\ MailInv'
<1>1. /\ UNCHANGED <<row, now, todo, cur, req, mails, deleted, aborts>>
      /\ pc[r] = "mailed"
  BY DEF MarkSentReads
<1>2. CASE Found(cur[r].sub)
  <2>1. /\ snap' = [snap EXCEPT ![r] = row[cur[r].sub]] /\ thrown' = thrown
        /\ pc' = [pc EXCEPT ![r] = "marking"]
    BY <1>2 DEF MarkSentReads
  <2>2. MovesOnly(r) /\ pc'[r] = "marking"
    BY <1>1, <2>1, MovesPc DEF SoundInv
  <2>3. cur[r].next \in 1..now
    BY <1>1, CurIsDue DEF SoundInv
  <2>4. SlotsInv'
    BY <1>1, <2>2, <2>3, SlotsKept DEF MailInv
  <2>5. Eased /\ MailInv'
    BY <1>1, <2>1, <2>2, <2>4, RunnerStep DEF SoundInv, NoSlotReturns, InPending, InReady
  <2>6. RowsCounted /\ HeldCounted /\ SnapsCounted
    BY <1>1, <2>1, <2>2, <2>5, RowsKept, HeldKept, SnapsRead DEF SoundInv
  <2> QED BY <2>5, <2>6, CountLands
<1>3. CASE ~Found(cur[r].sub)
  <2>1. Throw(r) /\ snap' = snap
    BY <1>3 DEF MarkSentReads
  <2> QED BY <1>1, <2>1, PlainThrowExplains
<1> QED BY <1>2, <1>3

LEMMA MarkSentWritesExplains ==
    ASSUME SoundInv, CountInv, MailInv, NEW r \in Runners, MarkSentWrites(r)
    PROVE  CountInv' /\ MailInv'
<1>1. /\ UNCHANGED <<now, todo, cur, snap, req, thrown, mails, deleted, aborts>>
      /\ pc[r] = "marking" /\ pc' = [pc EXCEPT ![r] = "audit"]
  BY DEF MarkSentWrites, ghosts
<1>2. PICK n \in NextSendAt : row' = [row EXCEPT ![cur[r].sub] = Sent(snap[r], n)]
  BY DEF MarkSentWrites
<1>3. MovesOnly(r) /\ pc'[r] = "audit"
  BY <1>1, MovesPc DEF SoundInv
<1> DEFINE s == cur[r].sub
           x == Sent(snap[r], n)
<1>4. s \in Subs /\ cur[r].next \in 1..now /\ At(cur[r], s, cur[r].next)
  BY <1>1, CurIsDue DEF SoundInv
<1>5. n \notin 1..now
  BY PastSlots DEF NextSendAt, Slots, SoundInv
<1>6. x.next \notin 1..now /\ x.fails = 0 /\ x.status # "disabled"
  BY <1>1, <1>5 DEF Sent, Row, SoundInv, SnapsSound, Served
<1>7. row' = [row EXCEPT ![s] = x]
  BY <1>2
<1> HIDE DEF x
<1>8. NoSlotReturns
  BY <1>4, <1>6, <1>7, SlotMoves DEF SoundInv
<1>9. SlotsInv'
  BY <1>1, <1>3, <1>4, SlotsKept DEF MailInv
<1>10. \A v \in Subs : InPending(pc'[r], cur'[r], v) <=> InPending(pc[r], cur[r], v)
  BY <1>1, <1>3 DEF InPending
<1>11. ASSUME NEW v \in Subs, NEW m \in 1..now, InReady(pc'[r], cur'[r], row'[v].next, v, m)
       PROVE  InReady(pc[r], cur[r], row[v].next, v, m)
  <2>1. row'[v].next = m
    BY <1>3, <1>11 DEF InReady
  <2>2. row'[v].next = row[v].next /\ v # s
    BY <1>4, <1>6, <1>7, <2>1 DEF SoundInv, TypeOK
  <2>3. ~At(cur[r], v, m)
    BY <2>2 DEF At
  <2> QED BY <1>1, <2>1, <2>2, <2>3 DEF InReady, InPending
<1>12. Eased /\ MailInv'
  BY <1>1, <1>3, <1>8, <1>9, <1>10, <1>11, RunnerStep DEF SoundInv
<1>13. RowsCounted
  <2>1. Backed(row[s].fails, s) /\ row[s].fails \in Nat
    BY <1>4, FailsAreNat DEF CountInv, SoundInv
  <2>2. x.fails \in Nat /\ x.fails <= row[s].fails /\ TypeOK /\ s \in Subs
    BY <1>4, <1>6, <2>1 DEF SoundInv
  <2> HIDE DEF s
  <2> QED BY <1>1, <1>6, <1>7, <1>12, <2>1, <2>2, RowWritten
<1>14. SnapsCounted
  BY <1>1, <1>3, <1>12, SnapsKept DEF SoundInv, MovesOnly
<1>15. HeldCounted
  BY <1>1, <1>12, HeldKept DEF SoundInv
<1> QED BY <1>12, <1>13, <1>14, <1>15, CountLands

(* An exception of runner r about s is recorded or dropped: one more round. *)
LEMMA RunnerRecords ==
    ASSUME TypeOK, CountInv, MailInv, NEW r \in Runners, MovesOnly(r), NEW s \in Subs,
           pc[r] \in {"threw", "failing"}, cur[r].sub = s, pc'[r] \in {"idle", "failAudit"},
           cur' = cur, UNCHANGED <<thrown, aborts, mails, now>>, SlotsInv',
           \A v \in Subs : v # s => row'[v] = row[v]
    PROVE  /\ Eased /\ MailInv'
           /\ \A f \in Nat : Backed(f, s) => BackedNext(f + 1, s)
<1>1. r \in Pending(s) /\ PendingNext(s) = Pending(s) \ {r}
  BY MoveOf DEF InPending
<1>2. \A v \in Subs : v # s => PendingNext(v) = Pending(v)
  BY MoveOf DEF InPending
<1>3. /\ \A f \in Nat : Backed(f, s) => BackedNext(f + 1, s) /\ BackedNext(f, s)
      /\ RoundsNext(s) = Rounds(s) + 1
  BY <1>1, RecordCounts
<1>4. \A v \in Subs : v # s => RoundsNext(v) = Rounds(v)
  BY <1>2 DEF Rounds, RoundsNext
<1>5. Eased
  <2>1. ASSUME NEW v \in Subs, NEW f \in Nat, Backed(f, v) PROVE BackedNext(f, v)
    BY <1>2, <1>3, <2>1 DEF Backed, BackedNext
  <2>2. \A v \in Subs : thrown'[v] \in Nat /\ thrown'[v] >= thrown[v]
    BY DEF TypeOK
  <2> QED BY <2>1, <2>2 DEF Eased
<1>6. ASSUME NEW v \in Subs, NEW n \in 1..now PROVE MailBoundNext(v, n)
  <2>0. n \in Slots /\ MailBound(v, n) /\ mails'[v][n] = mails[v][n]
    BY PastSlots DEF MailInv
  <2>1. CASE v = s
    <3>1. Rounds(s) \in Nat /\ Rounds(s) >= Rounds(s)
      BY RoundsNat
    <3> QED BY <1>3, <2>0, <2>1, <3>1, BoundOpened
  <2>2. CASE v # s
    <3>1. row'[v].next = row[v].next
      BY <2>2
    <3>2. ~InPending(pc[r], cur[r], v)
      BY <2>2 DEF InPending
    <3>3. InReady(pc'[r], cur'[r], row'[v].next, v, n) => InReady(pc[r], cur[r], row[v].next, v, n)
      BY <3>1, <3>2 DEF InReady
    <3>4. ReadyNext(v, n) \subseteq Ready(v, n)
      BY <3>1, <3>3, ReadyOf
    <3> QED BY <1>4, <2>0, <2>2, <3>4, BoundKept
  <2> QED BY <2>1, <2>2
<1> QED BY <1>3, <1>5, <1>6, MailLands

LEMMA MarkFailedReadsExplains ==
    ASSUME SoundInv, CountInv, MailInv, NEW r \in Runners, MarkFailedReads(r)
    PROVE  CountInv' /\ MailInv'
<1>1. /\ UNCHANGED <<row, now, cur, req, thrown, mails, deleted, aborts>>
      /\ pc[r] = "threw"
  BY DEF MarkFailedReads, ghosts
<1>0. cur[r].next \in 1..now /\ cur[r].sub \in Subs
  BY <1>1, CurIsDue DEF SoundInv
<1>2. CASE Found(cur[r].sub)
  <2>1. /\ snap' = [snap EXCEPT ![r] = row[cur[r].sub]] /\ todo' = todo
        /\ pc' = [pc EXCEPT ![r] = "failing"]
    BY <1>2 DEF MarkFailedReads
  <2>2. MovesOnly(r) /\ pc'[r] = "failing"
    BY <1>1, <2>1, MovesPc DEF SoundInv
  <2>4. SlotsInv'
    BY <1>0, <1>1, <2>1, <2>2, SlotsKept DEF MailInv
  <2>5. Eased /\ MailInv'
    BY <1>1, <2>1, <2>2, <2>4, RunnerStep DEF SoundInv, NoSlotReturns, InPending, InReady
  <2>6. RowsCounted /\ HeldCounted /\ SnapsCounted
    BY <1>1, <2>1, <2>2, <2>5, RowsKept, HeldKept, SnapsRead DEF SoundInv
  <2> QED BY <2>5, <2>6, CountLands
<1>3. CASE ~Found(cur[r].sub)
  <2>1. /\ snap' = snap /\ todo' = [todo EXCEPT ![r] = {}]
        /\ pc' = [pc EXCEPT ![r] = "idle"]
    BY <1>3 DEF MarkFailedReads
  <2>2. MovesOnly(r) /\ pc'[r] = "idle"
    BY <1>1, <2>1, MovesPc DEF SoundInv
  <2>3. \A x \in Runners : todo'[x] \subseteq todo[x]
    BY <2>1 DEF SoundInv, TypeOK
  <2>4. SlotsInv'
    BY <1>1, <2>2, <2>3, SlotsKept DEF MailInv
  <2>5. Eased /\ MailInv'
    BY <1>0, <1>1, <2>2, <2>4, RunnerRecords DEF SoundInv
  <2>6. SnapsCounted
    BY <1>1, <2>1, <2>2, <2>5, SnapsKept DEF SoundInv, MovesOnly
  <2>7. RowsCounted /\ HeldCounted
    BY <1>1, <2>5, RowsKept, HeldKept DEF SoundInv
  <2> QED BY <2>5, <2>6, <2>7, CountLands
<1> QED BY <1>2, <1>3

LEMMA MarkFailedWritesExplains ==
    ASSUME SoundInv, CountInv, MailInv, NEW r \in Runners, MarkFailedWrites(r)
    PROVE  CountInv' /\ MailInv'
<1> DEFINE s == cur[r].sub
<1>1. /\ UNCHANGED <<now, todo, cur, snap, req, thrown, mails, deleted, aborts>>
      /\ pc[r] = "failing" /\ pc' = [pc EXCEPT ![r] = "failAudit"]
      /\ row' = [row EXCEPT ![s] = Failed(snap[r])]
  BY DEF MarkFailedWrites, ghosts
<1>2. MovesOnly(r) /\ pc'[r] = "failAudit"
  BY <1>1, MovesPc DEF SoundInv
<1>3. s \in Subs /\ cur[r].next \in 1..now
  BY <1>1, CurIsDue DEF SoundInv
<1>4. SlotsInv'
  BY <1>1, <1>2, <1>3, SlotsKept DEF MailInv
<1>5. /\ row'[s] = Failed(snap[r])
      /\ \A v \in Subs : v # s => row'[v] = row[v]
  BY <1>1, <1>3 DEF SoundInv, TypeOK
<1>6. /\ Eased /\ MailInv'
      /\ \A f \in Nat : Backed(f, s) => BackedNext(f + 1, s)
  BY <1>1, <1>2, <1>3, <1>4, <1>5, RunnerRecords DEF SoundInv
<1>7. RowsCounted
  <2> SUFFICES ASSUME NEW v \in Subs
               PROVE  /\ BackedNext(row'[v].fails, v)
                      /\ row'[v].status = "disabled" => v \in deleted' \/ thrown'[v] >= FailLimit
    BY DEF RowsCounted
  <2>1. CASE v = s
    <3>1. Backed(snap[r].fails, s) /\ snap[r].fails \in Nat
      BY <1>1, <1>3, FailsAreNat DEF CountInv, SoundInv
    <3>2. BackedNext(snap[r].fails + 1, s)
      BY <1>6, <3>1
    <3>3. /\ row'[s].fails = snap[r].fails + 1
          /\ row'[s].status = "disabled" => snap[r].fails + 1 >= FailLimit
      <4>1. snap[r].status # "disabled"
        BY <1>1 DEF SoundInv, SnapsSound, Served
      <4> QED BY <1>5, <4>1 DEF Failed, Row
    <3>4. snap[r].fails + 1 <= thrown'[s]
      <4>1. Cardinality(PendingNext(s)) \in Nat /\ thrown'[s] \in Nat
        BY <1>3, <1>6, RunnerSets DEF PendingNext, Eased
      <4>2. (snap[r].fails + 1) + Cardinality(PendingNext(s)) <= thrown'[s]
        BY <3>2 DEF BackedNext
      <4> QED BY <3>1, <4>1, <4>2
    <3>5. FailLimit \in Nat /\ thrown'[s] \in Nat
      BY <1>3, <1>6, SubscriptionsAssumption DEF Eased, SubscriptionsAssumption
    <3>6. row'[s].status = "disabled" => thrown'[s] >= FailLimit
      BY <3>1, <3>3, <3>4, <3>5
    <3> QED BY <2>1, <3>2, <3>3, <3>6
  <2>2. CASE v # s
    <3>1. row'[v] = row[v] /\ thrown' = thrown /\ deleted' = deleted
      BY <1>1, <1>5, <2>2
    <3>2. BackedNext(row[v].fails, v)
      BY <1>6, FailsAreNat DEF CountInv, Eased, SoundInv
    <3>3. row[v].status = "disabled" => v \in deleted \/ thrown[v] >= FailLimit
      BY DEF CountInv, DisabledForAReason
    <3> QED BY <3>1, <3>2, <3>3
  <2> QED BY <2>1, <2>2
<1>8. SnapsCounted
  BY <1>1, <1>2, <1>6, SnapsKept DEF SoundInv, MovesOnly
<1>9. HeldCounted
  BY <1>1, <1>6, HeldKept DEF SoundInv
<1> QED BY <1>6, <1>7, <1>8, <1>9, CountLands

LEMMA AbortsExplains ==
    ASSUME SoundInv, CountInv, MailInv, NEW r \in Runners, Aborts(r)
    PROVE  CountInv' /\ MailInv'
<1>1. /\ UNCHANGED <<row, now, cur, snap, req, thrown, mails, deleted>>
      /\ aborts' = aborts + 1 /\ pc' = [pc EXCEPT ![r] = "idle"]
      /\ todo' = [todo EXCEPT ![r] = {}]
  BY DEF Aborts, ghosts
<1>2. MovesOnly(r) /\ pc'[r] = "idle"
  BY <1>1, MovesPc DEF SoundInv
<1>3. \A x \in Runners : todo'[x] \subseteq todo[x]
  BY <1>1 DEF SoundInv, TypeOK
<1>4. SlotsInv'
  BY <1>1, <1>2, <1>3, SlotsKept DEF MailInv
<1>5. ASSUME NEW s \in Subs
      PROVE  \/ PendingNext(s) = Pending(s)
             \/ r \in Pending(s) /\ PendingNext(s) = Pending(s) \ {r}
  BY <1>2, MoveOf DEF InPending
<1>6. Eased
  <2>1. ASSUME NEW s \in Subs, NEW f \in Nat, Backed(f, s) PROVE BackedNext(f, s)
    <3>1. PendingNext(s) \subseteq Pending(s) /\ thrown'[s] = thrown[s]
      BY <1>1, <1>5
    <3> QED BY <2>1, <3>1, ShrinkBacks DEF SoundInv
  <2>2. \A s \in Subs : thrown'[s] \in Nat /\ thrown'[s] >= thrown[s]
    BY <1>1 DEF SoundInv, TypeOK
  <2> QED BY <2>1, <2>2 DEF Eased
<1>7. ASSUME NEW s \in Subs
      PROVE  \E k \in Nat : /\ k >= Rounds(s) /\ (k = Rounds(s) \/ k = Rounds(s) + 1)
                            /\ RoundsNext(s) = k + 1
  <2>0. Rounds(s) \in Nat
    BY RoundsNat DEF SoundInv
  <2>1. CASE PendingNext(s) = Pending(s)
    <3>1. Cardinality(Pending(s)) \in Nat /\ thrown[s] \in Nat /\ aborts \in Nat
      BY RunnerSets, SubscriptionsAssumption
         DEF Pending, SoundInv, TypeOK, SubscriptionsAssumption
    <3>2. RoundsNext(s) = Rounds(s) + 1
      BY <1>1, <2>1, <3>1 DEF Rounds, RoundsNext
    <3> QED BY <2>0, <3>2
  <2>2. CASE r \in Pending(s) /\ PendingNext(s) = Pending(s) \ {r}
    <3>1. RoundsNext(s) = (Rounds(s) + 1) + 1
      BY <1>1, <2>2, RecordCounts DEF SoundInv
    <3>2. Rounds(s) + 1 \in Nat /\ Rounds(s) + 1 >= Rounds(s)
      BY <2>0
    <3> QED BY <3>1, <3>2
  <2> QED BY <1>5, <2>1, <2>2
<1>8. ASSUME NEW s \in Subs, NEW n \in 1..now PROVE MailBoundNext(s, n)
  <2>1. n \in Slots /\ MailBound(s, n) /\ mails'[s][n] = mails[s][n]
    BY <1>1, PastSlots DEF MailInv, SoundInv
  <2>2. PICK k \in Nat : /\ k >= Rounds(s) /\ (k = Rounds(s) \/ k = Rounds(s) + 1)
                         /\ RoundsNext(s) = k + 1
    BY <1>7
  <2> QED BY <2>1, <2>2, BoundOpened DEF SoundInv
<1>9. MailInv'
  BY <1>1, <1>4, <1>8, MailLands
<1>10. SnapsCounted
  BY <1>1, <1>2, <1>6, SnapsKept DEF SoundInv, MovesOnly
<1>11. RowsCounted /\ HeldCounted
  BY <1>1, <1>6, RowsKept, HeldKept DEF SoundInv
<1> QED BY <1>9, <1>10, <1>11, CountLands
-----------------------------------------------------------------------------
LEMMA InitExplains == Init => CountInv /\ MailInv
<1> SUFFICES ASSUME Init PROVE CountInv /\ MailInv
  OBVIOUS
<1>0. SoundInv /\ now = 0
  BY InitSound DEF Init
<1>1. \A s \in Subs : Pending(s) = {}
  BY DEF Init, Pending, InPending
<1>2. \A s \in Subs : Backed(0, s)
  <2>1. Cardinality({}) = 0
    BY FS_EmptySet
  <2>2. \A s \in Subs : thrown[s] = 0
    BY DEF Init
  <2>3. \A s \in Subs : Cardinality(Pending(s)) = 0
    BY <1>1, <2>1
  <2>4. 0 + 0 <= 0
    OBVIOUS
  <2> QED BY <2>2, <2>3, <2>4 DEF Backed
<1>3. \A s \in Subs : row[s].fails = 0 /\ row[s].status # "disabled"
  BY DEF Init, Absent, Row
<1>4. CountInv
  <2>1. \A r \in Runners : pc[r] = "idle"
    BY DEF Init
  <2>2. \A q \in Requests : req[q] = NoRequest
    BY DEF Init
  <2> QED BY <1>2, <1>3, <2>1, <2>2 DEF CountInv, DisabledForAReason
<1>5. SlotsInv
  BY DEF Init, SlotsInv
<1>6. 1..now = {}
  BY <1>0
<1> QED BY <1>4, <1>5, <1>6 DEF MailInv

(* Every step leaves the failures counted and the mails within their rounds. *)
LEMMA ExplainStep ==
    ASSUME SoundInv, CountInv, MailInv, [Next]_vars
    PROVE  CountInv' /\ MailInv'
<1>1. ASSUME NEW s \in Subs, Create(s) PROVE CountInv' /\ MailInv'
  BY <1>1, CreateExplains
<1>2. ASSUME NEW q \in Requests, NEW s \in Subs,
             NEW op \in {"update", "pause", "resume", "delete", "mailing"}, RequestReads(q, s, op)
      PROVE  CountInv' /\ MailInv'
  BY <1>2, RequestReadsExplains
<1>3. ASSUME NEW q \in Requests, Serve(q) PROVE CountInv' /\ MailInv'
  BY <1>3, RequestWritesExplains, SendNowMailsExplains, SendNowMarkReadsExplains,
     SendNowMarksExplains, RequestFailsExplains DEF Serve
<1>4. CASE TimePasses
  BY <1>4, TimePassesExplains
<1>5. ASSUME NEW r \in Runners, LoopEnds(r) PROVE CountInv' /\ MailInv'
  BY <1>5, PlainMoveExplains DEF LoopEnds, ghosts
<1>6. ASSUME NEW r \in Runners, AuditLogged(r) PROVE CountInv' /\ MailInv'
  BY <1>6, PlainMoveExplains DEF AuditLogged, ghosts
<1>7. ASSUME NEW r \in Runners, SentUnrecorded(r) PROVE CountInv' /\ MailInv'
  BY <1>7, PlainThrowExplains DEF SentUnrecorded
<1>8. ASSUME NEW r \in Runners, Work(r) PROVE CountInv' /\ MailInv'
  BY <1>5, <1>6, <1>7, <1>8, FindDueExplains, RefetchExplains, RefetchFailsExplains,
     SendFailsExplains, SendSucceedsExplains, MarkSentReadsExplains, MarkSentWritesExplains,
     MarkFailedReadsExplains, MarkFailedWritesExplains DEF Work
<1>9. ASSUME NEW r \in Runners, Aborts(r) PROVE CountInv' /\ MailInv'
  BY <1>9, AbortsExplains
<1>10. CASE UNCHANGED vars
  BY <1>10, NothingHappensExplains
<1> QED BY <1>1, <1>2, <1>3, <1>4, <1>8, <1>9, <1>10 DEF Next

(* Within its rounds a slot is mailed as often as failures allow. *)
LEMMA RoundsBoundRepeats ==
    ASSUME SoundInv, CountInv, MailInv
    PROVE  \A s \in Subs, n \in Slots :
               mails[s][n] <= Cardinality(Runners) * (1 + thrown[s] + aborts)
<1> SUFFICES ASSUME NEW s \in Subs, NEW n \in Slots
             PROVE  mails[s][n] <= Cardinality(Runners) * (1 + thrown[s] + aborts)
  OBVIOUS
<1> DEFINE c == Cardinality(Runners)
           k == 1 + thrown[s] + aborts
<1>1. c \in Nat /\ thrown[s] \in Nat /\ aborts \in Nat /\ mails[s][n] \in Nat
  BY RunnerSets, SubscriptionsAssumption DEF SoundInv, TypeOK, SubscriptionsAssumption
<1>2. Cardinality(Pending(s)) \in Nat
  BY RunnerSets DEF Pending
<1>3. Rounds(s) \in Nat /\ k \in Nat /\ Rounds(s) <= k
  <2>1. Rounds(s) \in Nat
    BY RoundsNat DEF SoundInv
  <2> QED BY <1>1, <1>2, <2>1 DEF Rounds
<1>4. c * Rounds(s) <= c * k /\ c * Rounds(s) \in Nat /\ c * k \in Nat
  <2>1. \A a, x, y \in Nat : a * (x + y) = a * x + a * y /\ a * x \in Nat /\ a * y \in Nat
    OBVIOUS
  <2>2. PICK d \in Nat : k = Rounds(s) + d
    <3>1. k - Rounds(s) \in Nat /\ k = Rounds(s) + (k - Rounds(s))
      BY <1>3
    <3> QED BY <3>1
  <2>3. c * k = c * Rounds(s) + c * d /\ c * Rounds(s) \in Nat /\ c * d \in Nat
    <3>1. c * (Rounds(s) + d) = c * Rounds(s) + c * d /\ c * Rounds(s) \in Nat /\ c * d \in Nat
      BY <1>1, <1>3, <2>1
    <3> HIDE DEF k, c
    <3> QED BY <2>2, <3>1
  <2> HIDE DEF k, c
  <2> QED BY <2>3
<1>5. CASE n \in 1..now
  <2>1. mails[s][n] + Cardinality(Ready(s, n)) <= c * Rounds(s)
    BY <1>5 DEF MailInv, MailBound
  <2>2. Cardinality(Ready(s, n)) \in Nat
    BY RunnerSets DEF Ready
  <2> HIDE DEF c, k
  <2>3. mails[s][n] <= c * k
    BY <1>1, <1>4, <2>1, <2>2
  <2> QED BY <2>3 DEF c, k
<1>6. CASE n \notin 1..now
  <2>1. mails[s][n] = 0
    BY <1>6 DEF MailInv, SlotsInv
  <2> HIDE DEF c, k
  <2>2. mails[s][n] <= c * k
    BY <1>4, <2>1
  <2> QED BY <2>2 DEF c, k
<1> QED BY <1>5, <1>6

-----------------------------------------------------------------------------
(* Without a crossing.  As long as no run has taken a subscription up that  *)
(* another one had in hand, one runner at a time works on it: the slot of  *)
(* the row is open, that is every earlier mail of it has a failure to its  *)
(* account, unless that runner is between the mail and markSent().         *)
Busy(p, c, s) == p \notin {"idle", "loop"} /\ c.sub = s

OneHand(s) ==
    \A r, o \in Runners : Busy(pc[r], cur[r], s) /\ Busy(pc[o], cur[o], s) => r = o

Open(s, n) == mails[s][n] <= thrown[s] + aborts

Closing(p, c, s) == p \in {"mailed", "marking"} /\ c.sub = s

CalmAt(s) ==
    /\ OneHand(s)
    /\ \A n \in Slots : mails[s][n] <= 1 + thrown[s] + aborts
    /\ (\A r \in Runners : ~Closing(pc[r], cur[r], s)) => Open(s, row[s].next)
    /\ \A r \in Runners :
          /\ pc[r] = "checked" /\ cur[r].sub = s => Open(s, cur[r].next)
          /\ pc[r] = "failing" /\ cur[r].sub = s => Open(s, snap[r].next)

CalmInv == \A s \in Subs : s \notin crossed => CalmAt(s)

(* The numbers that are compared. *)
LEMMA CalmNumbers ==
    ASSUME TypeOK
    PROVE  /\ \A s \in Subs, n \in Slots : mails[s][n] \in Nat
           /\ \A s \in Subs : thrown[s] \in Nat /\ row[s].next \in Slots
           /\ aborts \in Nat
           /\ \A r \in Runners : snap[r].next \in Slots
           /\ \A r \in Runners : pc[r] \notin {"idle", "loop"} => cur[r].next \in Slots
BY SubscriptionsAssumption DEF TypeOK, Rows, Entries, SubscriptionsAssumption

(* A slot that was never mailed is open. *)
LEMMA FreshIsOpen ==
    ASSUME TypeOK, NEW s \in Subs, NEW n, mails[s][n] = 0
    PROVE  Open(s, n)
BY CalmNumbers DEF Open

(* No runner moves and no mail is sent: a row keeps its slot or gets a fresh *)
(* one.                                                                    *)
LEMMA CalmDesk ==
    ASSUME TypeOK, CalmInv, UNCHANGED <<pc, cur, snap, mails, crossed, thrown, aborts>>,
           \A s \in Subs : row'[s].next = row[s].next \/ mails[s][row'[s].next] = 0
    PROVE  CalmInv'
<1> SUFFICES ASSUME NEW s \in Subs, s \notin crossed PROVE CalmAt(s)'
  BY DEF CalmInv
<1>1. CalmAt(s)
  BY DEF CalmInv
<1>2. row'[s].next = row[s].next \/ Open(s, row'[s].next)
  BY FreshIsOpen
<1> QED BY <1>1, <1>2 DEF CalmAt, OneHand, Open

(* A runner with nothing in hand, or that goes on with what it has in hand,  *)
(* without a mail.                                                         *)
LEMMA CalmMove ==
    ASSUME TypeOK, CalmInv, NEW r \in Runners, MovesOnly(r),
           UNCHANGED <<mails, crossed>>, TypeOK',
           \A o \in Runners \ {r} : snap'[o] = snap[o],
           \A s \in Subs : thrown[s] <= thrown'[s] /\ aborts <= aborts',
           \A s \in Subs : Busy(pc'[r], cur'[r], s) => Busy(pc[r], cur[r], s),
           pc'[r] # "checked",
           \A s \in Subs : Closing(pc[r], cur[r], s) =>
               \/ Closing(pc'[r], cur'[r], s)
               \/ 1 + thrown[s] + aborts <= thrown'[s] + aborts'
               \/ mails[s][row'[s].next] = 0,
           \A s \in Subs : \/ row'[s].next = row[s].next
                           \/ mails[s][row'[s].next] = 0
                           \/ pc[r] = "failing" /\ cur[r].sub = s /\ row'[s].next = snap[r].next,
           \A s \in Subs : pc'[r] = "failing" /\ cur'[r].sub = s =>
               ~Closing(pc[r], cur[r], s) /\ snap'[r].next = row[s].next /\ Busy(pc[r], cur[r], s)
    PROVE  CalmInv'
<1> SUFFICES ASSUME NEW s \in Subs, s \notin crossed PROVE CalmAt(s)'
  BY DEF CalmInv
<1>1. CalmAt(s)
  BY DEF CalmInv
<1>2. /\ \A n \in Slots : mails[s][n] \in Nat /\ mails'[s][n] = mails[s][n]
      /\ thrown[s] \in Nat /\ aborts \in Nat /\ thrown'[s] \in Nat /\ aborts' \in Nat
      /\ row[s].next \in Slots /\ row'[s].next \in Slots
  BY CalmNumbers DEF TypeOK, Rows
<1>3. OneHand(s)'
  BY <1>1 DEF CalmAt, OneHand, MovesOnly
<1>4. ASSUME NEW n \in Slots, Open(s, n) PROVE Open(s, n)'
  BY <1>2, <1>4 DEF Open
<1>5. ASSUME NEW n \in Slots PROVE mails'[s][n] <= 1 + thrown'[s] + aborts'
  <2>1. mails[s][n] <= 1 + thrown[s] + aborts
    BY <1>1 DEF CalmAt
  <2> QED BY <1>2, <2>1
<1>6. ASSUME \A o \in Runners : ~Closing(pc'[o], cur'[o], s) PROVE Open(s, row[s].next)' 
  <2>1. CASE mails[s][row'[s].next] = 0
    BY <1>2, <2>1 DEF Open
  <2>2. CASE 1 + thrown[s] + aborts <= thrown'[s] + aborts'
    <3>1. mails'[s][row'[s].next] <= 1 + thrown[s] + aborts
      BY <1>1, <1>2 DEF CalmAt
    <3> QED BY <1>2, <2>2, <3>1 DEF Open
  <2>3. CASE \A o \in Runners : ~Closing(pc[o], cur[o], s)
    <3>1. Open(s, row[s].next)
      BY <1>1, <2>3 DEF CalmAt
    <3>2. pc[r] = "failing" /\ cur[r].sub = s => Open(s, snap[r].next)
      BY <1>1 DEF CalmAt
    <3>3. Open(s, row'[s].next)
      BY <2>1, <3>1, <3>2, <1>2 DEF Open
    <3> QED BY <1>2, <3>3 DEF Open
  <2>4. \A o \in Runners \ {r} : ~Closing(pc[o], cur[o], s)
    BY <1>6 DEF MovesOnly
  <2>5. ~Closing(pc'[r], cur'[r], s)
    BY <1>6
  <2> QED BY <2>1, <2>2, <2>3, <2>4, <2>5
<1>7. ASSUME NEW o \in Runners, pc'[o] = "checked", cur'[o].sub = s
      PROVE  Open(s, cur[o].next)'
  <2>1. o # r /\ pc[o] = "checked" /\ cur[o] = cur'[o]
    BY <1>7 DEF MovesOnly
  <2>2. Open(s, cur[o].next) /\ cur[o].next \in Slots
    BY <1>1, <1>7, <2>1, CalmNumbers DEF CalmAt
  <2> QED BY <1>2, <2>1, <2>2 DEF Open
<1>8. ASSUME NEW o \in Runners, pc'[o] = "failing", cur'[o].sub = s
      PROVE  Open(s, snap[o].next)'
  <2>1. CASE o # r
    <3>1. pc[o] = "failing" /\ cur[o] = cur'[o] /\ snap'[o] = snap[o]
      BY <1>8, <2>1 DEF MovesOnly
    <3>2. Open(s, snap[o].next) /\ snap[o].next \in Slots
      BY <1>1, <1>8, <3>1, CalmNumbers DEF CalmAt
    <3> QED BY <1>2, <3>1, <3>2 DEF Open
  <2>2. CASE o = r
    <3>1. ~Closing(pc[r], cur[r], s) /\ snap'[r].next = row[s].next /\ Busy(pc[r], cur[r], s)
      BY <1>8, <2>2
    <3>2. \A x \in Runners : ~Closing(pc[x], cur[x], s)
      BY <1>1, <3>1 DEF CalmAt, OneHand, Closing, Busy
    <3>3. Open(s, row[s].next)
      BY <1>1, <3>2 DEF CalmAt
    <3> QED BY <1>2, <2>2, <3>1, <3>3 DEF Open
  <2> QED BY <2>1, <2>2
<1> QED BY <1>3, <1>5, <1>6, <1>7, <1>8 DEF CalmAt

(* A runner takes a subscription up: it crosses another one or is alone.    *)
LEMMA CalmTakesUp ==
    ASSUME TypeOK, CalmInv, NEW r \in Runners, NEW e \in Entries, TakesUp(r, e.sub),
           pc[r] = "loop", MovesOnly(r), cur'[r] = e, pc'[r] \in {"checked", "threw"},
           pc'[r] = "checked" => row[e.sub].next = e.next,
           \A s \in Subs : thrown'[s] \in Nat /\ thrown[s] <= thrown'[s],
           UNCHANGED <<row, mails, snap, aborts>>
    PROVE  CalmInv'
<1> SUFFICES ASSUME NEW s \in Subs, s \notin crossed' PROVE CalmAt(s)'
  BY DEF CalmInv
<1>1. s \notin crossed /\ CalmAt(s)
  BY DEF CalmInv, TakesUp
<1>2. e.sub = s => \A o \in Runners \ {r} : ~Busy(pc[o], cur[o], s)
  BY DEF TakesUp, InHand, Busy
<1>3. OneHand(s)'
  BY <1>1, <1>2 DEF CalmAt, OneHand, MovesOnly, Busy
<1>4. /\ \A n \in Slots : mails[s][n] \in Nat
      /\ thrown[s] \in Nat /\ aborts \in Nat /\ row[s].next \in Slots /\ e.next \in Slots
      /\ thrown'[s] \in Nat /\ thrown[s] <= thrown'[s] /\ aborts' = aborts /\ mails' = mails
  BY CalmNumbers DEF Entries
<1>5. ASSUME NEW n \in Slots, Open(s, n) PROVE Open(s, n)'
  BY <1>4, <1>5 DEF Open
<1>6. \A n \in Slots : mails'[s][n] <= 1 + thrown'[s] + aborts'
  <2>1. \A n \in Slots : mails[s][n] <= 1 + thrown[s] + aborts
    BY <1>1 DEF CalmAt
  <2> QED BY <1>4, <2>1
<1>7. \A o \in Runners \ {r} : pc'[o] = pc[o] /\ cur'[o] = cur[o]
  BY DEF MovesOnly
<1>8. ASSUME \A o \in Runners : ~Closing(pc'[o], cur'[o], s) PROVE Open(s, row[s].next)
  <2>1. \A o \in Runners : ~Closing(pc[o], cur[o], s)
    BY <1>7, <1>8 DEF Closing
  <2> QED BY <1>1, <2>1 DEF CalmAt
<1>9. ASSUME pc'[r] = "checked", e.sub = s PROVE Open(s, e.next)
  <2>1. \A o \in Runners : ~Closing(pc[o], cur[o], s)
    BY <1>2, <1>9 DEF Closing, Busy
  <2> QED BY <1>1, <1>9, <2>1 DEF CalmAt
<1>10. ASSUME NEW o \in Runners, pc'[o] = "checked", cur'[o].sub = s
       PROVE  cur'[o].next \in Slots /\ Open(s, cur'[o].next)
  <2>1. CASE o = r
    BY <1>4, <1>9, <1>10, <2>1
  <2>2. CASE o # r
    BY <1>1, <1>7, <1>10, <2>2, CalmNumbers DEF CalmAt
  <2> QED BY <2>1, <2>2
<1>11. ASSUME NEW o \in Runners, pc'[o] = "failing", cur'[o].sub = s
       PROVE  snap[o].next \in Slots /\ Open(s, snap[o].next)
  BY <1>1, <1>7, <1>11, CalmNumbers DEF CalmAt
<1>12. ASSUME NEW n \in Slots, Open(s, n) PROVE mails'[s][n] <= thrown'[s] + aborts'
  BY <1>4, <1>12 DEF Open
<1> QED BY <1>3, <1>4, <1>6, <1>8, <1>10, <1>11, <1>12 DEF CalmAt, Open

(* The runner in hand mails the slot, and has it marked or throws. *)
LEMMA CalmMails ==
    ASSUME TypeOK, CalmInv, NEW r \in Runners, MovesOnly(r), pc[r] = "checked",
           cur[r] \in Entries, CountMail(r), cur'[r] = cur[r],
           UNCHANGED <<row, snap, crossed, aborts>>, TypeOK',
           \/ pc'[r] = "mailed" /\ UNCHANGED thrown
           \/ pc'[r] = "threw" /\ thrown' = [thrown EXCEPT ![cur[r].sub] = @ + 1]
    PROVE  CalmInv'
<1> SUFFICES ASSUME NEW s \in Subs, s \notin crossed PROVE CalmAt(s)'
  BY DEF CalmInv
<1>1. CalmAt(s)
  BY DEF CalmInv
<1>2. cur[r].sub \in Subs /\ cur[r].next \in Slots
  BY DEF Entries
<1>3. /\ \A n \in Slots : mails[s][n] \in Nat
      /\ thrown[s] \in Nat /\ thrown'[s] \in Nat /\ aborts \in Nat /\ row[s].next \in Slots
  BY CalmNumbers DEF TypeOK
<1>4. OneHand(s)'
  BY <1>1 DEF CalmAt, OneHand, MovesOnly, Busy
<1>5. CASE cur[r].sub # s
  <2>1. mails'[s] = mails[s] /\ thrown'[s] = thrown[s]
    BY <1>5, <1>2 DEF CountMail, TypeOK
  <2>2. \A o \in Runners \ {r} : pc'[o] = pc[o] /\ cur'[o] = cur[o]
    BY DEF MovesOnly
  <2>3. ~Closing(pc[r], cur[r], s) /\ ~Closing(pc'[r], cur'[r], s)
    BY <1>5 DEF Closing
  <2> QED BY <1>1, <1>4, <1>5, <2>1, <2>2, <2>3 DEF CalmAt, Open, Closing
<1>6. CASE cur[r].sub = s
  <2>1. Open(s, cur[r].next)
    BY <1>1, <1>6 DEF CalmAt
  <2>2. /\ mails'[s][cur[r].next] = mails[s][cur[r].next] + 1
        /\ \A n \in Slots : n # cur[r].next => mails'[s][n] = mails[s][n]
    BY <1>2, <1>6 DEF CountMail, TypeOK
  <2>3. ASSUME NEW n \in Slots PROVE mails'[s][n] <= 1 + thrown[s] + aborts
    <3>1. mails[s][n] <= 1 + thrown[s] + aborts
      BY <1>1 DEF CalmAt
    <3>2. mails[s][cur[r].next] <= thrown[s] + aborts
      BY <2>1 DEF Open
    <3> QED BY <1>2, <1>3, <2>2, <3>1, <3>2
  <2>4. ASSUME NEW o \in Runners, Busy(pc'[o], cur'[o], s) PROVE o = r
    BY <1>1, <1>6, <2>4 DEF CalmAt, OneHand, MovesOnly, Busy
  <2>5. ASSUME NEW o \in Runners, cur'[o].sub = s PROVE pc'[o] \notin {"checked", "failing"}
    BY <2>4, <2>5 DEF Busy
  <2>6. CASE pc'[r] = "mailed" /\ UNCHANGED thrown
    <3>1. Closing(pc'[r], cur'[r], s)
      BY <1>6, <2>6 DEF Closing
    <3> QED BY <1>4, <2>3, <2>5, <2>6, <3>1 DEF CalmAt
  <2>7. CASE pc'[r] = "threw" /\ thrown' = [thrown EXCEPT ![cur[r].sub] = @ + 1]
    <3>1. thrown'[s] = thrown[s] + 1
      BY <1>6, <2>7 DEF TypeOK
    <3>2. \A n \in Slots : mails'[s][n] \in Nat
      BY DEF TypeOK
    <3>3. \A n \in Slots : mails'[s][n] <= thrown'[s] + aborts'
      BY <1>3, <2>3, <3>1, <3>2
    <3>4. \A n \in Slots : mails'[s][n] <= 1 + thrown'[s] + aborts'
      BY <1>3, <3>2, <3>3
    <3> QED BY <1>3, <1>4, <2>5, <3>3, <3>4 DEF CalmAt, Open
  <2> QED BY <2>6, <2>7
<1> QED BY <1>5, <1>6


(* A row that is scheduled anew, or not at all, is at a slot never mailed.  *)
LEMMA RowFresh ==
    ASSUME TypeOK, MailInv, NEW s \in Subs, NEW x, row' = [row EXCEPT ![s] = x],
           x.next = 0 \/ x.next \in NextSendAt
    PROVE  \A v \in Subs : row'[v].next = row[v].next \/ mails[v][row'[v].next] = 0
<1>1. x.next \in Slots /\ x.next \notin 1..now
  BY SubscriptionsAssumption DEF NextSendAt, Slots, TypeOK
<1>2. mails[s][x.next] = 0
  BY <1>1 DEF MailInv, SlotsInv
<1> QED BY <1>2 DEF TypeOK

(* At first nothing was mailed and nobody is at work. *)
LEMMA CalmInit == Init => CalmInv
<1> SUFFICES ASSUME Init, NEW s \in Subs PROVE CalmAt(s)
  BY DEF CalmInv
<1>1. \A r \in Runners : pc[r] = "idle"
  BY DEF Init
<1>2. \A n \in Slots : mails[s][n] = 0
  BY DEF Init
<1>3. thrown[s] = 0 /\ aborts = 0 /\ row[s].next = 0 /\ 0 \in Slots
  BY SubscriptionsAssumption DEF Init, Absent, Row, Slots
<1>4. OneHand(s)
  BY <1>1 DEF OneHand, Busy
<1>5. \A n \in Slots : mails[s][n] <= 1 + thrown[s] + aborts
  BY <1>2, <1>3
<1>6. Open(s, row[s].next)
  BY <1>2, <1>3 DEF Open
<1> QED BY <1>1, <1>4, <1>5, <1>6 DEF CalmAt

(* Requests schedule anew or not at all. *)
LEMMA CalmRequests ==
    ASSUME SoundInv, MailInv, CalmInv, NEW q \in Requests,
           RequestWrites(q) \/ SendNowMarks(q)
    PROVE  CalmInv'
<1>1. req[q].op \in Ops \ {"mailing", "mailed"} /\ req[q].sub \in Subs
  BY HeldIsTyped DEF RequestWrites, SendNowMarks, Ops
<1>2. UNCHANGED <<pc, cur, snap, mails, crossed, thrown, aborts>>
  BY DEF RequestWrites, SendNowMarks, runVars, ghosts
<1>3. PICK n, x :
         /\ n \in NextSendAt
         /\ row' = [row EXCEPT ![req[q].sub] = x]
         /\ \/ x = Edited(req[q].op, req[q].snap, n) /\ req[q].op # "marking"
            \/ x = Sent(req[q].snap, n)
  BY DEF RequestWrites, SendNowMarks
<1>4. x.next = 0 \/ x.next = n
  BY <1>1, <1>3 DEF Edited, Sent, Row, Ops
<1>5. \A v \in Subs : row'[v].next = row[v].next \/ mails[v][row'[v].next] = 0
  BY <1>1, <1>3, <1>4, RowFresh DEF SoundInv
<1> QED BY <1>2, <1>5, CalmDesk DEF SoundInv

(* Steps in which nobody writes a row, mails or takes a report up. *)
LEMMA CalmRest ==
    ASSUME SoundInv, CalmInv, UNCHANGED <<row, pc, cur, snap, mails, crossed, thrown, aborts>>
    PROVE  CalmInv'
BY CalmDesk DEF SoundInv

(* A runner that is not between the mail and markSent() moves on, holding   *)
(* no more than before.                                                    *)
LEMMA CalmGoesOn ==
    ASSUME SoundInv, CalmInv, SoundInv', NEW r \in Runners, NEW p,
           pc' = [pc EXCEPT ![r] = p], UNCHANGED <<row, cur, snap, mails, crossed, thrown, aborts>>,
           p \notin {"checked", "failing"},
           p \in {"idle", "loop"} \/ pc[r] \notin {"idle", "loop"},
           pc[r] \in {"mailed", "marking"} => p \in {"mailed", "marking"}
    PROVE  CalmInv'
<1>1. MovesOnly(r) /\ pc'[r] = p
  BY MovesPc DEF SoundInv
<1>2. \A s \in Subs : thrown[s] <= thrown'[s] /\ aborts <= aborts'
  BY CalmNumbers DEF SoundInv
<1>3. \A s \in Subs : Busy(pc'[r], cur'[r], s) => Busy(pc[r], cur[r], s)
  BY <1>1 DEF Busy
<1>4. \A s \in Subs : Closing(pc[r], cur[r], s) => Closing(pc'[r], cur'[r], s)
  BY <1>1 DEF Closing
<1> QED BY <1>1, <1>2, <1>3, <1>4, CalmMove DEF SoundInv

(* A runner throws while it works on a subscription, without a mail. *)
LEMMA CalmThrows ==
    ASSUME SoundInv, MailInv, CalmInv, SoundInv', NEW r \in Runners, Throw(r),
           pc[r] \notin {"idle", "loop"}, UNCHANGED <<row, cur, snap, mails, crossed, aborts>>
    PROVE  CalmInv'
<1>1. MovesOnly(r) /\ pc'[r] = "threw" /\ cur[r].sub \in Subs
  BY MovesPc, CurIsDue DEF SoundInv, Throw
<1>2. thrown' = [thrown EXCEPT ![cur[r].sub] = @ + 1]
  BY DEF Throw
<1>3. /\ thrown'[cur[r].sub] = thrown[cur[r].sub] + 1
      /\ \A s \in Subs : s # cur[r].sub => thrown'[s] = thrown[s]
  BY <1>1, <1>2 DEF SoundInv, TypeOK
<1>4. aborts \in Nat /\ aborts' = aborts /\ \A s \in Subs : thrown[s] \in Nat
  BY CalmNumbers DEF SoundInv
<1>5. \A s \in Subs : thrown[s] <= thrown'[s] /\ aborts <= aborts'
  BY <1>3, <1>4
<1>6. \A s \in Subs : Busy(pc'[r], cur'[r], s) => Busy(pc[r], cur[r], s)
  BY DEF Busy
<1>7. \A s \in Subs : cur[r].sub = s => 1 + thrown[s] + aborts <= thrown'[s] + aborts'
  BY <1>1, <1>3, <1>4
<1>8. \A s \in Subs : Closing(pc[r], cur[r], s) => 1 + thrown[s] + aborts <= thrown'[s] + aborts'
  BY <1>7 DEF Closing
<1> QED BY <1>1, <1>5, <1>6, <1>8, CalmMove DEF SoundInv

(* markSent() and markFailed() read the row. *)
LEMMA CalmReads ==
    ASSUME SoundInv, CalmInv, SoundInv', NEW r \in Runners,
           snap' = [snap EXCEPT ![r] = row[cur[r].sub]],
           \/ pc[r] = "mailed" /\ pc' = [pc EXCEPT ![r] = "marking"]
           \/ pc[r] = "threw" /\ pc' = [pc EXCEPT ![r] = "failing"],
           UNCHANGED <<row, cur, mails, crossed, thrown, aborts>>
    PROVE  CalmInv'
<1>1. /\ MovesOnly(r)
      /\ \/ pc[r] = "mailed" /\ pc'[r] = "marking"
         \/ pc[r] = "threw" /\ pc'[r] = "failing"
  <2>1. pc \in [Runners -> Pcs]
    BY DEF SoundInv, TypeOK
  <2>2. CASE pc[r] = "mailed" /\ pc' = [pc EXCEPT ![r] = "marking"]
    BY <2>1, <2>2 DEF MovesOnly
  <2>3. CASE pc[r] = "threw" /\ pc' = [pc EXCEPT ![r] = "failing"]
    BY <2>1, <2>3 DEF MovesOnly
  <2> QED BY <2>2, <2>3
<1>2. \A s \in Subs : thrown[s] <= thrown'[s] /\ aborts <= aborts'
  BY CalmNumbers DEF SoundInv
<1>3. \A s \in Subs : Busy(pc'[r], cur'[r], s) => Busy(pc[r], cur[r], s)
  BY <1>1 DEF Busy
<1>4. \A s \in Subs : Closing(pc[r], cur[r], s) => Closing(pc'[r], cur'[r], s)
  BY <1>1 DEF Closing
<1>5. /\ \A o \in Runners \ {r} : snap'[o] = snap[o]
      /\ snap'[r] = row[cur[r].sub]
  BY DEF SoundInv, TypeOK
<1>6. \A s \in Subs : pc'[r] = "failing" /\ cur'[r].sub = s =>
         ~Closing(pc[r], cur[r], s) /\ snap'[r].next = row[s].next /\ Busy(pc[r], cur[r], s)
  BY <1>1, <1>5 DEF Closing, Busy
<1> QED BY <1>1, <1>2, <1>3, <1>4, <1>5, <1>6, CalmMove DEF SoundInv

(* markSent() moves the row to a fresh slot. *)
LEMMA CalmMarkSentWrites ==
    ASSUME SoundInv, MailInv, CalmInv, SoundInv', NEW r \in Runners, MarkSentWrites(r)
    PROVE  CalmInv'
<1>1. /\ pc[r] = "marking" /\ pc' = [pc EXCEPT ![r] = "audit"]
      /\ UNCHANGED <<cur, snap, mails, crossed, thrown, aborts>>
  BY DEF MarkSentWrites, ghosts
<1>2. MovesOnly(r) /\ pc'[r] = "audit" /\ cur[r].sub \in Subs
  BY <1>1, MovesPc, CurIsDue DEF SoundInv
<1>3. PICK n \in NextSendAt : row' = [row EXCEPT ![cur[r].sub] = Sent(snap[r], n)]
  BY DEF MarkSentWrites
<1>4. Sent(snap[r], n).next = n
  BY DEF Sent, Row
<1>5. \A v \in Subs : row'[v].next = row[v].next \/ mails[v][row'[v].next] = 0
  BY <1>2, <1>3, <1>4, RowFresh DEF SoundInv
<1>6. mails[cur[r].sub][row'[cur[r].sub].next] = 0
  <2>1. n \in Slots /\ n \notin 1..now /\ row'[cur[r].sub].next = n
    BY <1>2, <1>3, <1>4 DEF NextSendAt, SoundInv, TypeOK
  <2> QED BY <1>2, <2>1 DEF MailInv, SlotsInv
<1>7. \A s \in Subs : Closing(pc[r], cur[r], s) => mails[s][row'[s].next] = 0
  BY <1>6 DEF Closing
<1>8. \A s \in Subs : thrown[s] <= thrown'[s] /\ aborts <= aborts'
  BY <1>1, CalmNumbers DEF SoundInv
<1>9. \A s \in Subs : Busy(pc'[r], cur'[r], s) => Busy(pc[r], cur[r], s)
  BY <1>1 DEF Busy
<1> QED BY <1>1, <1>2, <1>5, <1>7, <1>8, <1>9, CalmMove DEF SoundInv

(* markFailed() puts back the slot that was read. *)
LEMMA CalmMarkFailedWrites ==
    ASSUME SoundInv, MailInv, CalmInv, SoundInv', NEW r \in Runners, MarkFailedWrites(r)
    PROVE  CalmInv'
<1>1. /\ pc[r] = "failing" /\ pc' = [pc EXCEPT ![r] = "failAudit"]
      /\ row' = [row EXCEPT ![cur[r].sub] = Failed(snap[r])]
      /\ UNCHANGED <<cur, snap, mails, crossed, thrown, aborts>>
  BY DEF MarkFailedWrites, ghosts
<1>2. MovesOnly(r) /\ pc'[r] = "failAudit" /\ cur[r].sub \in Subs
  BY <1>1, MovesPc, CurIsDue DEF SoundInv
<1>3. Failed(snap[r]).next = snap[r].next
  BY DEF Failed, Row
<1>4. \A s \in Subs : \/ row'[s].next = row[s].next
                      \/ pc[r] = "failing" /\ cur[r].sub = s /\ row'[s].next = snap[r].next
  BY <1>1, <1>2, <1>3 DEF SoundInv, TypeOK
<1>5. \A s \in Subs : thrown[s] <= thrown'[s] /\ aborts <= aborts'
  BY <1>1, CalmNumbers DEF SoundInv
<1>6. \A s \in Subs : Busy(pc'[r], cur'[r], s) => Busy(pc[r], cur[r], s)
  BY <1>1 DEF Busy
<1>7. \A s \in Subs : ~Closing(pc[r], cur[r], s)
  BY <1>1 DEF Closing
<1> QED BY <1>1, <1>2, <1>4, <1>5, <1>6, <1>7, CalmMove DEF SoundInv

(* A crash accounts for the mail that was not marked. *)
LEMMA CalmAborts ==
    ASSUME SoundInv, CalmInv, SoundInv', NEW r \in Runners, Aborts(r)
    PROVE  CalmInv'
<1>1. /\ pc' = [pc EXCEPT ![r] = "idle"] /\ aborts' = aborts + 1
      /\ UNCHANGED <<row, cur, snap, mails, crossed, thrown>>
  BY DEF Aborts, ghosts
<1>2. MovesOnly(r) /\ pc'[r] = "idle"
  BY <1>1, MovesPc DEF SoundInv
<1>3. aborts \in Nat /\ \A s \in Subs : thrown[s] \in Nat
  BY CalmNumbers DEF SoundInv
<1>4. \A s \in Subs : /\ thrown[s] <= thrown'[s] /\ aborts <= aborts'
                      /\ 1 + thrown[s] + aborts <= thrown'[s] + aborts'
  BY <1>1, <1>3
<1>5. \A s \in Subs : ~Busy(pc'[r], cur'[r], s)
  BY <1>2 DEF Busy
<1> QED BY <1>1, <1>2, <1>4, <1>5, CalmMove DEF SoundInv

(* The re-fetch, that skips the report or takes it up, or throws. *)
LEMMA CalmRefetch ==
    ASSUME SoundInv, CalmInv, NEW r \in Runners, Refetch(r) \/ RefetchFails(r)
    PROVE  CalmInv'
<1>1. /\ UNCHANGED <<row, snap, mails, aborts>> /\ pc[r] = "loop"
      /\ pc \in [Runners -> Pcs] /\ cur \in [Runners -> Entries \cup {NoEntry}]
  BY DEF Refetch, RefetchFails, SoundInv, TypeOK
<1>2. PICK e \in Entries :
         \/ UNCHANGED <<pc, cur, crossed, thrown>>
         \/ /\ UnchangedSince(e) /\ pc' = [pc EXCEPT ![r] = "checked"]
            /\ cur' = [cur EXCEPT ![r] = e] /\ TakesUp(r, e.sub) /\ UNCHANGED thrown
         \/ /\ pc' = [pc EXCEPT ![r] = "threw"] /\ cur' = [cur EXCEPT ![r] = e]
            /\ TakesUp(r, e.sub) /\ thrown' = [thrown EXCEPT ![e.sub] = @ + 1]
  BY DEF Refetch, RefetchFails, SoundInv, TypeOK
<1>3. CASE UNCHANGED <<pc, cur, crossed, thrown>>
  BY <1>1, <1>3, CalmRest
<1>4. \A s \in Subs : thrown[s] \in Nat
  BY CalmNumbers DEF SoundInv
<1>5. CASE /\ UnchangedSince(e) /\ pc' = [pc EXCEPT ![r] = "checked"]
           /\ cur' = [cur EXCEPT ![r] = e] /\ TakesUp(r, e.sub) /\ UNCHANGED thrown
  <2>1. MovesOnly(r) /\ pc'[r] = "checked" /\ cur'[r] = e
    BY <1>1, <1>5 DEF MovesOnly
  <2>2. row[e.sub].next = e.next
    BY <1>5 DEF UnchangedSince
  <2>3. \A s \in Subs : thrown'[s] \in Nat /\ thrown[s] <= thrown'[s]
    BY <1>4, <1>5
  <2> QED BY <1>1, <1>5, <2>1, <2>2, <2>3, CalmTakesUp DEF SoundInv
<1>6. CASE /\ pc' = [pc EXCEPT ![r] = "threw"] /\ cur' = [cur EXCEPT ![r] = e]
           /\ TakesUp(r, e.sub) /\ thrown' = [thrown EXCEPT ![e.sub] = @ + 1]
  <2>1. MovesOnly(r) /\ pc'[r] = "threw" /\ cur'[r] = e
    BY <1>1, <1>6 DEF MovesOnly
  <2>2. \A s \in Subs : thrown'[s] \in Nat /\ thrown[s] <= thrown'[s]
    BY <1>4, <1>6 DEF SoundInv, TypeOK
  <2> QED BY <1>1, <1>6, <2>1, <2>2, CalmTakesUp DEF SoundInv
<1> QED BY <1>2, <1>3, <1>5, <1>6

(* The mail, taken by the server or not. *)
LEMMA CalmSends ==
    ASSUME SoundInv, MailInv, CalmInv, SoundInv', NEW r \in Runners,
           SendFails(r) \/ SendSucceeds(r)
    PROVE  CalmInv'
<1>1. /\ pc[r] = "checked" /\ UNCHANGED <<row, cur, snap, crossed, aborts>>
      /\ cur[r] \in Entries
  BY CurIsDue DEF SendFails, SendSucceeds, SoundInv
<1>2. CASE SendSucceeds(r)
  <2>1. MovesOnly(r) /\ pc'[r] = "mailed" /\ CountMail(r) /\ UNCHANGED thrown
    BY <1>1, <1>2, MovesPc DEF SendSucceeds, SoundInv
  <2> QED BY <1>1, <2>1, CalmMails DEF SoundInv
<1>3. CASE SendFails(r) /\ CountMail(r)
  <2>1. MovesOnly(r) /\ pc'[r] = "threw"
    BY <1>1, <1>3, MovesPc DEF SendFails, Throw, SoundInv
  <2>2. thrown' = [thrown EXCEPT ![cur[r].sub] = @ + 1]
    BY <1>3 DEF SendFails, Throw
  <2> QED BY <1>1, <1>3, <2>1, <2>2, CalmMails DEF SoundInv
<1>4. CASE SendFails(r) /\ UNCHANGED mails
  BY <1>1, <1>4, CalmThrows DEF SendFails
<1> QED BY <1>2, <1>3, <1>4 DEF SendFails

(* Whatever happens, a subscription nobody crossed is in one hand. *)
LEMMA CalmStep ==
    ASSUME SoundInv, MailInv, CalmInv, [Next]_vars
    PROVE  CalmInv'
<1>0. SoundInv'
  BY SoundStep
<1>1. ASSUME NEW s \in Subs, Create(s) PROVE CalmInv'
  <2>1. PICK n \in NextSendAt : row' = [row EXCEPT ![s] = Row("active", n, 0)]
    BY <1>1 DEF Create
  <2>2. Row("active", n, 0).next = n
    BY DEF Row
  <2>3. \A v \in Subs : row'[v].next = row[v].next \/ mails[v][row'[v].next] = 0
    BY <2>1, <2>2, RowFresh DEF SoundInv
  <2> QED BY <1>1, <2>3, CalmDesk DEF Create, runVars, ghosts, SoundInv
<1>2. ASSUME NEW q \in Requests, NEW s \in Subs,
             NEW op \in {"update", "pause", "resume", "delete", "mailing"}, RequestReads(q, s, op)
      PROVE  CalmInv'
  BY <1>2, CalmRest DEF RequestReads, runVars, ghosts
<1>3. ASSUME NEW q \in Requests, Serve(q) PROVE CalmInv'
  <2>1. CASE RequestWrites(q) \/ SendNowMarks(q)
    BY <2>1, CalmRequests
  <2>2. CASE SendNowMails(q) \/ SendNowMarkReads(q) \/ RequestFails(q)
    <3>1. UNCHANGED <<row, runVars, ghosts, aborts>>
      BY <2>2 DEF SendNowMails, SendNowMarkReads, RequestFails
    <3> QED BY <3>1, CalmRest DEF runVars, ghosts
  <2> QED BY <1>3, <2>1, <2>2 DEF Serve
<1>4. CASE TimePasses
  BY <1>4, CalmRest DEF TimePasses, runVars, ghosts
<1>5. ASSUME NEW r \in Runners, FindDue(r) PROVE CalmInv'
  BY <1>0, <1>5, CalmGoesOn DEF FindDue, ghosts
<1>6. ASSUME NEW r \in Runners, LoopEnds(r) PROVE CalmInv'
  BY <1>0, <1>6, CalmGoesOn DEF LoopEnds, ghosts
<1>7. ASSUME NEW r \in Runners, AuditLogged(r) PROVE CalmInv'
  BY <1>0, <1>7, CalmGoesOn DEF AuditLogged, ghosts
<1>8. ASSUME NEW r \in Runners, SentUnrecorded(r) PROVE CalmInv'
  BY <1>0, <1>8, CalmThrows DEF SentUnrecorded
<1>9. ASSUME NEW r \in Runners, MarkSentReads(r) PROVE CalmInv'
  <2>1. CASE Found(cur[r].sub)
    <3>1. /\ snap' = [snap EXCEPT ![r] = row[cur[r].sub]]
          /\ pc' = [pc EXCEPT ![r] = "marking"] /\ pc[r] = "mailed"
          /\ UNCHANGED <<row, cur, mails, crossed, thrown, aborts>>
      BY <1>9, <2>1 DEF MarkSentReads
    <3> QED BY <1>0, <3>1, CalmReads
  <2>2. CASE ~Found(cur[r].sub)
    BY <1>0, <1>9, <2>2, CalmThrows DEF MarkSentReads
  <2> QED BY <2>1, <2>2
<1>10. ASSUME NEW r \in Runners, MarkFailedReads(r) PROVE CalmInv'
  <2>1. CASE Found(cur[r].sub)
    BY <1>0, <1>10, <2>1, CalmReads DEF MarkFailedReads, ghosts
  <2>2. CASE ~Found(cur[r].sub)
    BY <1>0, <1>10, <2>2, CalmGoesOn DEF MarkFailedReads, ghosts
  <2> QED BY <2>1, <2>2
<1>11. ASSUME NEW r \in Runners, Work(r) PROVE CalmInv'
  BY <1>0, <1>5, <1>6, <1>7, <1>8, <1>9, <1>10, <1>11, CalmRefetch, CalmSends,
     CalmMarkSentWrites, CalmMarkFailedWrites DEF Work
<1>12. ASSUME NEW r \in Runners, Aborts(r) PROVE CalmInv'
  BY <1>0, <1>12, CalmAborts
<1>13. CASE UNCHANGED vars
  BY <1>13, CalmRest DEF vars, runVars, ghosts
<1> QED BY <1>1, <1>2, <1>3, <1>4, <1>11, <1>12, <1>13 DEF Next

(* Failures explain what is unusual, for every number of runs that overlap: *)
(* a subscription that is disabled was deleted or met FailLimit exceptions, *)
(* although markFailed() counts from rows other runs have replaced; a slot  *)
(* of a subscription that no run took up while another had it in hand is   *)
(* mailed once, and once more for every exception and every crash; and     *)
(* each of them lets each runner mail a slot at most once more in any case. *)
THEOREM FailuresAlwaysExplain == Spec => []FailuresExplain
<1>1. ASSUME SoundInv, CountInv, MailInv, CalmInv PROVE FailuresExplain
  <2>1. \A s \in Subs, n \in Slots : s \notin crossed => mails[s][n] <= 1 + thrown[s] + aborts
    BY <1>1 DEF CalmInv, CalmAt
  <2> QED BY <1>1, <2>1, RoundsBoundRepeats DEF FailuresExplain, CountInv, RepeatsAreExcused
<1> QED
  BY <1>1, InitSound, SoundStep, InitExplains, ExplainStep, CalmInit, CalmStep, PTL DEF Spec
============================================================================
