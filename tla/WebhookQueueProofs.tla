------------------------- MODULE WebhookQueueProofs -------------------------
(***************************************************************************)
(* Proofs about WebhookQueue for every set of deliveries and hooks, every  *)
(* batch size and every limit of attempts.  The worker acts on a batch it  *)
(* read earlier, while test requests and manual retries write the same     *)
(* rows: the inductive invariant says what each entry of the batch still   *)
(* knows of its delivery.  The last part of the module is about            *)
(* TwentyFlush, the connector the same worker feeds.                       *)
(***************************************************************************)
EXTENDS WebhookQueue, TwentyFlush, SequenceTheorems, TLAPS

Distinct(s) == \A i, j \in 1..Len(s) : s[i] = s[j] => i = j

-----------------------------------------------------------------------------
(* Sequences with one element taken out or put in.                         *)

Removed(s, k) == SubSeq(s, 1, k - 1) \o SubSeq(s, k + 1, Len(s))

LEMMA TakenOut ==
    ASSUME NEW S, NEW s \in Seq(S), NEW k \in 1..Len(s)
    PROVE  /\ Removed(s, k) \in Seq(S)
           /\ Len(Removed(s, k)) = Len(s) - 1
           /\ \A i \in 1..Len(Removed(s, k)) :
                 Removed(s, k)[i] = IF i < k THEN s[i] ELSE s[i + 1]
<1> DEFINE a == SubSeq(s, 1, k - 1)
           b == SubSeq(s, k + 1, Len(s))
<1>1. Len(s) \in Nat /\ \A i \in 1..Len(s) : s[i] \in S
  BY ElementOfSeq, LenProperties
<1>2. /\ a \in Seq(S) /\ Len(a) = k - 1
      /\ \A i \in 1..(k - 1) : a[i] = s[i]
  <2>1. \A i \in 1..(k - 1) : s[i] \in S
    BY <1>1
  <2> QED
    BY <1>1, <2>1, SubSeqProperties
<1>3. /\ b \in Seq(S) /\ Len(b) = Len(s) - k
      /\ \A i \in 1..(Len(s) - k) : b[i] = s[k + i]
  <2>1. \A i \in (k + 1)..Len(s) : s[i] \in S
    BY <1>1
  <2>2. /\ b \in Seq(S)
        /\ Len(b) = IF k + 1 <= Len(s) THEN Len(s) - (k + 1) + 1 ELSE 0
        /\ \A i \in 1..(Len(s) - (k + 1) + 1) : b[i] = s[(k + 1) + i - 1]
    BY <1>1, <2>1, SubSeqProperties
  <2> QED
    BY <1>1, <2>2
<1> HIDE DEF a, b
<1>4. /\ a \o b \in Seq(S) /\ Len(a \o b) = Len(a) + Len(b)
      /\ \A i \in 1..(Len(a) + Len(b)) : (a \o b)[i] = IF i <= Len(a) THEN a[i] ELSE b[i - Len(a)]
  BY <1>2, <1>3, ConcatProperties
<1>5. Len(a \o b) = Len(s) - 1
  BY <1>1, <1>2, <1>3, <1>4
<1>6. ASSUME NEW i \in 1..Len(a \o b) PROVE (a \o b)[i] = IF i < k THEN s[i] ELSE s[i + 1]
  BY <1>1, <1>2, <1>3, <1>4, <1>5
<1> QED
  BY <1>4, <1>5, <1>6 DEF a, b, Removed

Inserted(s, k, d) == SubSeq(s, 1, k) \o <<d>> \o SubSeq(s, k + 1, Len(s))

LEMMA PutIn ==
    ASSUME NEW S, NEW s \in Seq(S), NEW k \in 0..Len(s), NEW d \in S
    PROVE  /\ Inserted(s, k, d) \in Seq(S)
           /\ Len(Inserted(s, k, d)) = Len(s) + 1
           /\ \A i \in 1..Len(Inserted(s, k, d)) :
                 Inserted(s, k, d)[i] = IF i <= k THEN s[i] ELSE IF i = k + 1 THEN d ELSE s[i - 1]
<1> DEFINE a == SubSeq(s, 1, k)
           b == SubSeq(s, k + 1, Len(s))
           c == a \o <<d>>
<1>1. Len(s) \in Nat /\ \A i \in 1..Len(s) : s[i] \in S
  BY ElementOfSeq, LenProperties
<1>2. /\ a \in Seq(S) /\ Len(a) = k
      /\ \A i \in 1..k : a[i] = s[i]
  <2>1. \A i \in 1..k : s[i] \in S
    BY <1>1
  <2> QED
    BY <1>1, <2>1, SubSeqProperties
<1>3. /\ b \in Seq(S) /\ Len(b) = Len(s) - k
      /\ \A i \in 1..(Len(s) - k) : b[i] = s[k + i]
  <2>1. \A i \in (k + 1)..Len(s) : s[i] \in S
    BY <1>1
  <2>2. /\ b \in Seq(S)
        /\ Len(b) = IF k + 1 <= Len(s) THEN Len(s) - (k + 1) + 1 ELSE 0
        /\ \A i \in 1..(Len(s) - (k + 1) + 1) : b[i] = s[(k + 1) + i - 1]
    BY <1>1, <2>1, SubSeqProperties
  <2> QED
    BY <1>1, <2>2
<1> HIDE DEF a, b
<1>4. /\ c \in Seq(S) /\ Len(c) = k + 1
      /\ \A i \in 1..(k + 1) : c[i] = IF i <= k THEN s[i] ELSE d
  <2>1. <<d>> \in Seq(S) /\ Len(<<d>>) = 1 /\ <<d>>[1] = d
    OBVIOUS
  <2>2. /\ c \in Seq(S) /\ Len(c) = Len(a) + 1
        /\ \A i \in 1..(Len(a) + 1) : c[i] = IF i <= Len(a) THEN a[i] ELSE <<d>>[i - Len(a)]
    BY <1>2, <2>1, ConcatProperties
  <2> QED
    BY <1>1, <1>2, <2>1, <2>2
<1> HIDE DEF c
<1>5. /\ c \o b \in Seq(S) /\ Len(c \o b) = Len(c) + Len(b)
      /\ \A i \in 1..(Len(c) + Len(b)) : (c \o b)[i] = IF i <= Len(c) THEN c[i] ELSE b[i - Len(c)]
  BY <1>3, <1>4, ConcatProperties
<1>6. Len(c \o b) = Len(s) + 1
  BY <1>1, <1>3, <1>4, <1>5
<1>7. ASSUME NEW i \in 1..Len(c \o b)
      PROVE  (c \o b)[i] = IF i <= k THEN s[i] ELSE IF i = k + 1 THEN d ELSE s[i - 1]
  <2>1. CASE i <= k + 1
    BY <1>1, <1>3, <1>4, <1>5, <1>6, <2>1
  <2>2. CASE i > k + 1
    <3>1. (c \o b)[i] = b[i - (k + 1)] /\ i - (k + 1) \in 1..(Len(s) - k)
      BY <1>1, <1>3, <1>4, <1>5, <1>6, <2>2
    <3>2. b[i - (k + 1)] = s[k + (i - (k + 1))] /\ k + (i - (k + 1)) = i - 1
      BY <1>3, <3>1
    <3> QED
      BY <2>2, <3>1, <3>2
  <2> QED
    BY <2>1, <2>2
<1> QED
  BY <1>5, <1>6, <1>7 DEF a, b, c, Inserted

-----------------------------------------------------------------------------
(* The order of the queue.                                                 *)

(* A delivery waits at one place at most, and only while it is unsettled. *)
LineInv ==
    /\ line \in Seq(Deliveries)
    /\ due \in 0..Len(line)
    /\ Distinct(line)
    /\ \A i \in 1..Len(line) : row[line[i]] \in Unsettled

Waits(d) == \E i \in 1..Len(line) : line[i] = d

(* The queue without a delivery. *)
LEMMA WithoutLine ==
    ASSUME LineInv, NEW d \in Deliveries
    PROVE  /\ Without(d) \in Seq(Deliveries) /\ Len(Without(d)) \in Nat
           /\ Distinct(Without(d))
           /\ \A i \in 1..Len(Without(d)) : Without(d)[i] # d /\ Waits(Without(d)[i])
           /\ DueWithout(d) \in 0..Len(Without(d))
<1> USE DEF LineInv
<1>0. Len(line) \in Nat /\ DOMAIN line = 1..Len(line)
  BY LenProperties
<1>1. CASE ~Waits(d)
  <2>1. Without(d) = line /\ DueWithout(d) = due
    BY <1>0, <1>1 DEF Without, DueWithout, Waits
  <2> QED
    BY <1>0, <1>1, <2>1 DEF Waits
<1>2. CASE Waits(d)
  <2> DEFINE k == Place(d)
             t == Without(d)
  <2>1. k \in 1..Len(line) /\ line[k] = d
    BY <1>0, <1>2 DEF Place, Waits
  <2>2. t = Removed(line, k)
    BY <1>0, <1>2 DEF Without, Waits, Removed
  <2> HIDE DEF k, t
  <2>3. /\ t \in Seq(Deliveries) /\ Len(t) = Len(line) - 1
        /\ \A i \in 1..Len(t) : t[i] = IF i < k THEN line[i] ELSE line[i + 1]
    <3>1. line \in Seq(Deliveries)
      OBVIOUS
    <3> HIDE DEF LineInv
    <3> QED
      BY <2>1, <2>2, <3>1, TakenOut
  <2>4. \A i \in 1..Len(t) : \E j \in 1..Len(line) : /\ t[i] = line[j] /\ j # k
                                                     /\ j = IF i < k THEN i ELSE i + 1
    BY <1>0, <2>1, <2>3
  <2>5. Distinct(t)
    <3>1. SUFFICES ASSUME NEW i \in 1..Len(t), NEW j \in 1..Len(t), t[i] = t[j] PROVE i = j
      BY DEF Distinct
    <3>2. PICK m \in 1..Len(line) : t[i] = line[m] /\ m = IF i < k THEN i ELSE i + 1
      BY <2>4
    <3>3. PICK n \in 1..Len(line) : t[j] = line[n] /\ n = IF j < k THEN j ELSE j + 1
      BY <2>4
    <3>4. m = n
      BY <3>1, <3>2, <3>3 DEF Distinct
    <3>5. i \in Int /\ j \in Int /\ k \in Int
      BY <1>0, <2>1, <2>3
    <3> QED
      BY <3>2, <3>3, <3>4, <3>5
  <2>6. \A i \in 1..Len(t) : t[i] # d /\ Waits(t[i])
    BY <2>1, <2>4 DEF Distinct, Waits
  <2>7. DueWithout(d) \in 0..Len(t)
    <3>1. CASE \E i \in 1..due : line[i] = d
      <4>1. due \in 1..Len(line) /\ DueWithout(d) = due - 1
        BY <1>0, <3>1 DEF DueWithout
      <4> QED
        BY <1>0, <2>3, <4>1
    <3>2. CASE ~(\E i \in 1..due : line[i] = d)
      <4>1. DueWithout(d) = due
        BY <3>2 DEF DueWithout
      <4>2. ~(k \in 1..due)
        BY <2>1, <3>2
      <4>3. due <= Len(line) - 1
        BY <1>0, <2>1, <4>2
      <4> QED
        BY <1>0, <2>3, <4>1, <4>3
    <3> QED
      BY <3>1, <3>2
  <2>8. Len(t) \in Nat
    BY <2>3, LenProperties
  <2> QED
    BY <2>3, <2>5, <2>6, <2>7, <2>8 DEF t
<1> QED
  BY <1>1, <1>2

(* The queue with a delivery at one of its places. *)
LEMMA AtLine ==
    ASSUME LineInv, NEW d \in Deliveries, NEW k \in 0..Len(Without(d))
    PROVE  /\ At(d, k) \in Seq(Deliveries)
           /\ Len(At(d, k)) = Len(Without(d)) + 1
           /\ Distinct(At(d, k))
           /\ \A i \in 1..Len(At(d, k)) : At(d, k)[i] = d \/ Waits(At(d, k)[i])
<1> DEFINE t == Without(d)
           u == At(d, k)
<1>1. /\ t \in Seq(Deliveries) /\ Len(t) \in Nat /\ Distinct(t)
      /\ \A i \in 1..Len(t) : t[i] # d /\ Waits(t[i])
  BY WithoutLine
<1>2. u = Inserted(t, k, d) /\ k \in 0..Len(t)
  BY DEF At, Inserted
<1> HIDE DEF t, u
<1>3. /\ u \in Seq(Deliveries) /\ Len(u) = Len(t) + 1
      /\ \A i \in 1..Len(u) : u[i] = IF i <= k THEN t[i] ELSE IF i = k + 1 THEN d ELSE t[i - 1]
  <2>1. t \in Seq(Deliveries) /\ k \in 0..Len(t)
    BY <1>1, <1>2
  <2>2. u = Inserted(t, k, d)
    BY <1>2
  <2>3. Inserted(t, k, d) \in Seq(Deliveries)
    BY <2>1, PutIn
  <2>4. Len(Inserted(t, k, d)) = Len(t) + 1
    BY <2>1, PutIn
  <2>5. \A i \in 1..Len(Inserted(t, k, d)) :
           Inserted(t, k, d)[i] = IF i <= k THEN t[i] ELSE IF i = k + 1 THEN d ELSE t[i - 1]
    BY <2>1, PutIn
  <2> QED
    BY <2>2, <2>3, <2>4, <2>5
<1>4. ASSUME NEW i \in 1..Len(u)
      PROVE  \/ i = k + 1 /\ u[i] = d
             \/ i <= k /\ i \in 1..Len(t) /\ u[i] = t[i]
             \/ i > k + 1 /\ i - 1 \in 1..Len(t) /\ u[i] = t[i - 1]
  <2>1. i \in Int /\ k \in Int /\ 0 <= k /\ k <= Len(t)
    BY <1>1, <1>2, <1>3
  <2>2. u[i] = IF i <= k THEN t[i] ELSE IF i = k + 1 THEN d ELSE t[i - 1]
    BY <1>3
  <2>3. CASE i <= k
    BY <1>1, <1>3, <2>1, <2>2, <2>3
  <2>4. CASE i = k + 1
    BY <2>1, <2>2, <2>4
  <2>5. CASE i > k + 1
    BY <1>1, <1>3, <2>1, <2>2, <2>5
  <2> QED
    BY <2>1, <2>3, <2>4, <2>5
<1>5. Distinct(u)
  <2>1. SUFFICES ASSUME NEW i \in 1..Len(u), NEW j \in 1..Len(u), u[i] = u[j] PROVE i = j
    BY DEF Distinct
  <2>2. i \in Int /\ j \in Int /\ k \in Int
    BY <1>1, <1>2, <1>3
  <2>3. CASE i = k + 1 \/ j = k + 1
    <3>1. ASSUME NEW n \in 1..Len(u), u[n] = d PROVE n = k + 1
      BY <1>1, <1>4, <3>1
    <3>2. u[k + 1] = d
      BY <1>4, <2>1, <2>3
    <3> QED
      BY <2>1, <2>3, <3>1, <3>2
  <2>4. CASE i # k + 1 /\ j # k + 1
    <3>1. PICK m \in 1..Len(t) : u[i] = t[m] /\ ((i <= k /\ m = i) \/ (i > k + 1 /\ m = i - 1))
      <4>1. \/ i <= k /\ i \in 1..Len(t) /\ u[i] = t[i]
            \/ i > k + 1 /\ i - 1 \in 1..Len(t) /\ u[i] = t[i - 1]
        BY <1>4, <2>4
      <4> QED
        BY <4>1
    <3>2. PICK n \in 1..Len(t) : u[j] = t[n] /\ ((j <= k /\ n = j) \/ (j > k + 1 /\ n = j - 1))
      <4>1. \/ j <= k /\ j \in 1..Len(t) /\ u[j] = t[j]
            \/ j > k + 1 /\ j - 1 \in 1..Len(t) /\ u[j] = t[j - 1]
        BY <1>4, <2>4
      <4> QED
        BY <4>1
    <3>3. m = n
      BY <1>1, <2>1, <3>1, <3>2 DEF Distinct
    <3> QED
      BY <2>2, <3>1, <3>2, <3>3
  <2> QED
    BY <2>3, <2>4
<1>6. \A i \in 1..Len(u) : u[i] = d \/ Waits(u[i])
  BY <1>1, <1>4
<1> QED
  BY <1>3, <1>5, <1>6 DEF t, u

-----------------------------------------------------------------------------
(* The inductive invariant.                                                *)

(* What holds of one delivery, its row, its handlers and its POSTs. *)
RowInv(d) ==
    /\ row[d] = "none" => posts[d] = 0 /\ tester[d] = "no" /\ d \notin retrying
    /\ row[d] # "none" => of[d] \in Hooks
    /\ row[d] = "pending" => att[d] = 1
    /\ row[d] = "success" => d \in accepted
    /\ row[d] = "gave_up" => posts[d] >= att[d]
    /\ row[d] = "retrying" => posts[d] >= att[d] - 1 /\ att[d] > 1
    /\ tester[d] \in {"ok", "bad"} => of[d] \notin Unreadable
    /\ tester[d] = "ok" => d \in accepted
    /\ of[d] \in Unreadable => posts[d] = 0 /\ row[d] \notin {"success", "gave_up"}

(* The POSTs a delivery may have had by attempt a, of which one may still be *)
(* on its way to the row.                                                  *)
WithinAttempt(d, a) ==
    posts[d] <= spare[d] + a + (IF Recording(d) THEN 1 ELSE 0)

RowPosts(d) == WithinAttempt(d, IF row[d] \in Unsettled THEN att[d] - 1 ELSE att[d])

(* An entry of the worker's batch, however old: the attempts before its own  *)
(* were made, and no more POSTs than these are unaccounted for.            *)
Entry(d, a) ==
    /\ row[d] # "none"
    /\ posts[d] >= a - 1
    /\ WithinAttempt(d, a - 1)

BatchInv ==
    /\ worker # "idle" => Len(batch) >= 1
    /\ \A i, j \in 1..Len(batch) : batch[i][1] = batch[j][1] => i = j
    /\ \A i \in 1..Len(batch) : Entry(batch[i][1], batch[i][2])
    /\ worker = "recording" =>
          /\ of[Current] \notin Unreadable
          /\ posts[Current] >= CurrentAttempt
          /\ result = "ok" => Current \in accepted

QueueInv ==
    /\ TypeOK
    /\ LineInv
    /\ \A d \in Deliveries : RowInv(d) /\ RowPosts(d)
    /\ BatchInv

-----------------------------------------------------------------------------
(* The three ways a row is written.                                        *)

Statuses == {"none"} \cup Unsettled \cup Terminal
Attempts == 1..MaxAttempts

LEMMA WriteTyped ==
    ASSUME TypeOK, NEW d \in Deliveries, NEW st \in Statuses, NEW a \in Attempts, Write(d, st, a)
    PROVE  /\ row' \in [Deliveries -> Statuses] /\ att' \in [Deliveries -> Attempts]
           /\ row'[d] = st /\ att'[d] = a
           /\ \A e \in Deliveries \ {d} : row'[e] = row[e] /\ att'[e] = att[e]
BY DEF TypeOK, Write, Statuses, Attempts

(* What the typing of the other variables gives the leaves below. *)
LEMMA LineKept ==
    ASSUME LineInv, line' = line, due' = due, row' = row
    PROVE  LineInv'
BY DEF LineInv, Distinct

LEMMA SettleLine ==
    ASSUME TypeOK, LineInv, NEW d \in Deliveries, NEW st \in Terminal, NEW a \in Attempts,
           Settle(d, st, a)
    PROVE  LineInv'
<1>1. /\ line' = Without(d) /\ due' = DueWithout(d)
      /\ Write(d, st, a) /\ st \in Statuses
  BY DEF Settle, Statuses
<1>2. \A e \in Deliveries \ {d} : row'[e] = row[e]
  BY <1>1, WriteTyped
<1>3. /\ Without(d) \in Seq(Deliveries) /\ Len(Without(d)) \in Nat
      /\ Distinct(Without(d))
      /\ \A i \in 1..Len(Without(d)) : Without(d)[i] # d /\ Waits(Without(d)[i])
      /\ DueWithout(d) \in 0..Len(Without(d))
  BY WithoutLine
<1>4. \A e : Waits(e) => e \in Deliveries /\ row[e] \in Unsettled
  BY DEF LineInv, Waits
<1>5. \A i \in 1..Len(line') : row'[line'[i]] \in Unsettled
  BY <1>1, <1>2, <1>3, <1>4
<1>6. Distinct(line)'
  BY <1>1, <1>3 DEF Distinct
<1> QED
  BY <1>1, <1>3, <1>5, <1>6 DEF LineInv

LEMMA QueuedLine ==
    ASSUME TypeOK, LineInv, NEW d \in Deliveries, NEW st \in Unsettled, NEW a \in Attempts,
           NEW k \in 0..Len(Without(d)), Write(d, st, a),
           line' = At(d, k), due' \in 0..(Len(Without(d)) + 1)
    PROVE  LineInv'
<1>1. st \in Statuses
  BY DEF Statuses
<1>2. row'[d] \in Unsettled /\ \A e \in Deliveries \ {d} : row'[e] = row[e]
  BY <1>1, WriteTyped
<1>3. /\ At(d, k) \in Seq(Deliveries)
      /\ Len(At(d, k)) = Len(Without(d)) + 1
      /\ Distinct(At(d, k))
      /\ \A i \in 1..Len(At(d, k)) : At(d, k)[i] = d \/ Waits(At(d, k)[i])
  BY AtLine
<1>4. \A e : Waits(e) => e \in Deliveries /\ row[e] \in Unsettled
  BY DEF LineInv, Waits
<1>5. \A i \in 1..Len(line') : row'[line'[i]] \in Unsettled
  BY <1>2, <1>3, <1>4
<1>6. Distinct(line)'
  BY <1>3 DEF Distinct
<1> QED
  BY <1>3, <1>5, <1>6 DEF LineInv

LEMMA QueueNowLine ==
    ASSUME TypeOK, LineInv, NEW d \in Deliveries, NEW a \in Attempts, QueueNow(d, a)
    PROVE  LineInv' /\ Write(d, "pending", a)
<1>1. DueWithout(d) \in 0..Len(Without(d)) /\ Len(Without(d)) \in Nat
  BY WithoutLine
<1>2. Write(d, "pending", a) /\ line' = At(d, DueWithout(d)) /\ due' = DueWithout(d) + 1
  BY DEF QueueNow
<1>3. due' \in 0..(Len(Without(d)) + 1)
  BY <1>1, <1>2
<1>4. "pending" \in Unsettled
  BY DEF Unsettled
<1> QED
  BY <1>1, <1>2, <1>3, <1>4, QueuedLine

LEMMA QueueLaterLine ==
    ASSUME TypeOK, LineInv, NEW d \in Deliveries, NEW a \in Attempts, QueueLater(d, a)
    PROVE  LineInv' /\ Write(d, "retrying", a)
<1>1. DueWithout(d) \in 0..Len(Without(d)) /\ Len(Without(d)) \in Nat
  BY WithoutLine
<1>2. Write(d, "retrying", a) /\ due' = DueWithout(d)
  BY DEF QueueLater
<1>3. PICK k \in DueWithout(d)..Len(Without(d)) : line' = At(d, k)
  BY DEF QueueLater
<1>4. k \in 0..Len(Without(d)) /\ due' \in 0..(Len(Without(d)) + 1)
  BY <1>1, <1>2, <1>3
<1>5. "retrying" \in Unsettled
  BY DEF Unsettled
<1> QED
  BY <1>2, <1>3, <1>4, <1>5, QueuedLine

-----------------------------------------------------------------------------
(* The worker's batch.                                                     *)

LEMMA HeadOfBatch ==
    ASSUME TypeOK, BatchInv, worker # "idle"
    PROVE  /\ Len(batch) \in Nat /\ 1 \in 1..Len(batch)
           /\ Current = batch[1][1] /\ CurrentAttempt = batch[1][2]
           /\ Current \in Deliveries /\ CurrentAttempt \in Attempts
           /\ Entry(Current, CurrentAttempt)
<1>1. Len(batch) \in Nat /\ Len(batch) >= 1
  BY LenProperties DEF TypeOK, BatchInv
<1>2. 1 \in 1..Len(batch) /\ batch[1] \in Deliveries \X Attempts
  BY <1>1, ElementOfSeq DEF TypeOK, Attempts
<1>3. batch # <<>> /\ Head(batch) = batch[1]
  BY <1>1 DEF TypeOK
<1>4. Entry(batch[1][1], batch[1][2])
  BY <1>2 DEF BatchInv
<1> QED
  BY <1>1, <1>2, <1>3, <1>4 DEF Current, CurrentAttempt

(* What is left after the first entry. *)
LEMMA RestOfBatch ==
    ASSUME TypeOK, BatchInv, worker # "idle", Proceed
    PROVE  /\ batch' \in Seq(Deliveries \X Attempts)
           /\ worker' \in {"idle", "deliver"}
           /\ worker' # "idle" => Len(batch') >= 1
           /\ \A i, j \in 1..Len(batch') : batch'[i][1] = batch'[j][1] => i = j
           /\ \A i \in 1..Len(batch') :
                 \E j \in 1..Len(batch) : batch'[i] = batch[j] /\ batch[j][1] # Current
<1>1. Len(batch) \in Nat /\ 1 \in 1..Len(batch) /\ Current = batch[1][1]
  BY HeadOfBatch
<1>2. /\ batch' = Tail(batch) /\ worker' = IF Len(batch) = 1 THEN "idle" ELSE "deliver"
      /\ batch \in Seq(Deliveries \X Attempts) /\ batch # <<>>
  BY <1>1 DEF Proceed, TypeOK, Attempts
<1>3. /\ batch' \in Seq(Deliveries \X Attempts) /\ Len(batch') = Len(batch) - 1
      /\ \A i \in 1..Len(batch') : batch'[i] = batch[i + 1]
  BY <1>2, HeadTailProperties
<1>4. \A i \in 1..Len(batch') : i + 1 \in 1..Len(batch) /\ i + 1 # 1 /\ i \in Nat
  BY <1>1, <1>3
<1>5. \A i, j \in 1..Len(batch) : batch[i][1] = batch[j][1] => i = j
  BY DEF BatchInv
<1>6. ASSUME NEW i \in 1..Len(batch'), NEW j \in 1..Len(batch'), batch'[i][1] = batch'[j][1]
      PROVE  i = j
  <2>1. i + 1 = j + 1
    BY <1>3, <1>4, <1>5, <1>6
  <2> QED
    BY <1>4, <2>1
<1>7. ASSUME NEW i \in 1..Len(batch')
      PROVE  \E j \in 1..Len(batch) : batch'[i] = batch[j] /\ batch[j][1] # Current
  <2>1. batch'[i] = batch[i + 1] /\ i + 1 \in 1..Len(batch) /\ batch[i + 1][1] # Current
    BY <1>1, <1>3, <1>4, <1>5
  <2> QED
    BY <2>1
<1>8. worker' # "idle" => Len(batch') >= 1
  BY <1>1, <1>2, <1>3
<1> QED
  BY <1>2, <1>3, <1>6, <1>7, <1>8

(* A handler leaves the worker what it knows: rows do not vanish, POSTs are  *)
(* not taken back, and none is added without being accounted for.          *)
LEMMA BatchKept ==
    ASSUME TypeOK, BatchInv, UNCHANGED work,
           posts' \in [Deliveries -> Nat], spare' \in [Deliveries -> Nat],
           accepted \subseteq accepted',
           \A e \in Deliveries : row[e] # "none" =>
              /\ row'[e] # "none" /\ of'[e] = of[e] /\ posts'[e] >= posts[e]
              /\ \A n \in Nat : posts[e] <= spare[e] + n => posts'[e] <= spare'[e] + n
    PROVE  BatchInv' /\ \A e \in Deliveries : Recording(e)' <=> Recording(e)
<1>1. batch' = batch /\ worker' = worker /\ result' = result
  BY DEF work
<1>2. Current' = Current /\ CurrentAttempt' = CurrentAttempt
  BY <1>1 DEF Current, CurrentAttempt
<1>3. \A e : Recording(e)' <=> Recording(e)
  BY <1>1, <1>2 DEF Recording
<1>4. ASSUME NEW i \in 1..Len(batch) PROVE Entry(batch[i][1], batch[i][2])'
  <2>1. batch[i] \in Deliveries \X Attempts
    BY ElementOfSeq DEF TypeOK, Attempts
  <2> DEFINE e == batch[i][1]
             a == batch[i][2]
             n == (a - 1) + (IF Recording(e) THEN 1 ELSE 0)
  <2>2. e \in Deliveries /\ a \in Attempts /\ a \in Nat \ {0} /\ n \in Nat
    BY <2>1, QueueAssumption DEF Attempts
  <2>3. Entry(e, a)
    BY DEF BatchInv
  <2>4. posts[e] \in Nat /\ spare[e] \in Nat /\ posts'[e] \in Nat /\ spare'[e] \in Nat
    BY <2>2 DEF TypeOK
  <2>5. e' = e /\ a' = a
    BY <1>1
  <2> HIDE DEF e, a
  <2>6. row[e] # "none" /\ posts[e] >= a - 1 /\ posts[e] <= spare[e] + n
    BY <2>2, <2>3, <2>4 DEF Entry, WithinAttempt
  <2>7. row'[e] # "none" /\ posts'[e] >= posts[e] /\ posts'[e] <= spare'[e] + n
    BY <2>2, <2>6
  <2>8. posts'[e] >= a - 1
    BY <2>2, <2>4, <2>6, <2>7
  <2>9. posts'[e] <= spare'[e] + (a - 1) + (IF Recording(e)' THEN 1 ELSE 0)
    <3>1. Recording(e)' <=> Recording(e)
      BY <1>1, <1>2, <2>5 DEF Recording
    <3>2. CASE Recording(e)
      BY <2>2, <2>4, <2>7, <3>1, <3>2
    <3>3. CASE ~Recording(e)
      BY <2>2, <2>4, <2>7, <3>1, <3>3
    <3> QED
      BY <3>2, <3>3
  <2>10. Entry(e, a)'
    BY <2>5, <2>7, <2>8, <2>9 DEF Entry, WithinAttempt
  <2> QED
    BY <2>5, <2>10 DEF e, a
<1>5. ASSUME worker = "recording"
      PROVE  /\ of'[Current] \notin Unreadable
             /\ posts'[Current] >= CurrentAttempt
             /\ result' = "ok" => Current \in accepted'
  <2>1. /\ Current \in Deliveries /\ CurrentAttempt \in Nat /\ row[Current] # "none"
    BY <1>5, HeadOfBatch, QueueAssumption DEF Entry, Attempts
  <2>2. /\ of[Current] \notin Unreadable /\ posts[Current] >= CurrentAttempt
        /\ result = "ok" => Current \in accepted
    BY <1>5 DEF BatchInv
  <2>3. posts[Current] \in Nat /\ posts'[Current] \in Nat
    BY <2>1 DEF TypeOK
  <2> QED
    BY <1>1, <2>1, <2>2, <2>3
<1>6. \A i \in 1..Len(batch') : Entry(batch[i][1], batch[i][2])'
  BY <1>1, <1>4
<1> QED
  BY <1>1, <1>2, <1>3, <1>5, <1>6 DEF BatchInv

(* A delivery the step does not touch. *)
Untouched(e) ==
    /\ row'[e] = row[e] /\ att'[e] = att[e] /\ of'[e] = of[e]
    /\ tester'[e] = tester[e] /\ (e \in retrying' => e \in retrying)
    /\ posts'[e] = posts[e] /\ spare'[e] = spare[e]
    /\ (e \in accepted => e \in accepted')

LEMMA UntouchedKeeps ==
    ASSUME NEW e \in Deliveries, Untouched(e), RowInv(e) PROVE RowInv(e)'
BY DEF Untouched, RowInv

LEMMA UntouchedPosts ==
    ASSUME NEW e \in Deliveries, Untouched(e), RowPosts(e), Recording(e)' <=> Recording(e)
    PROVE RowPosts(e)'
<1>1. row'[e] = row[e] /\ att'[e] = att[e] /\ posts'[e] = posts[e] /\ spare'[e] = spare[e]
  BY DEF Untouched
<1> QED
  BY <1>1 DEF RowPosts, WithinAttempt

-----------------------------------------------------------------------------
(* The handlers.                                                           *)

(* A delivery is enqueued, by the dispatcher or by a test. *)
LEMMA EnqueueKeeps ==
    ASSUME QueueInv, NEW d \in Deliveries, NEW h \in Hooks, row[d] = "none",
           of' = [of EXCEPT ![d] = h], QueueNow(d, 1),
           tester' = tester \/ tester' = [tester EXCEPT ![d] = "sending"],
           UNCHANGED <<config, work, retrying, ghosts, upsets>>
    PROVE  QueueInv'
<1>0. TypeOK /\ LineInv /\ BatchInv /\ \A e \in Deliveries : RowInv(e) /\ RowPosts(e)
  BY DEF QueueInv
<1>1. 1 \in Attempts /\ "pending" \in Statuses
  BY QueueAssumption DEF Attempts, Statuses, Unsettled
<1>2. LineInv' /\ Write(d, "pending", 1)
  BY <1>0, <1>1, QueueNowLine
<1>3. /\ row' \in [Deliveries -> Statuses] /\ att' \in [Deliveries -> Attempts]
      /\ row'[d] = "pending" /\ att'[d] = 1
      /\ \A e \in Deliveries \ {d} : row'[e] = row[e] /\ att'[e] = att[e]
  BY <1>0, <1>1, <1>2, WriteTyped
<1>4. /\ of' \in [Deliveries -> Hooks \cup {None}] /\ of'[d] = h
      /\ \A e \in Deliveries \ {d} : of'[e] = of[e]
  BY <1>0 DEF TypeOK
<1>5. /\ tester' \in [Deliveries -> {"no", "sending", "ok", "bad"}]
      /\ tester'[d] \in {tester[d], "sending"}
      /\ \A e \in Deliveries \ {d} : tester'[e] = tester[e]
  BY <1>0 DEF TypeOK
<1>6. /\ hook' = hook /\ max' = max /\ batch' = batch /\ worker' = worker /\ limit' = limit
      /\ result' = result /\ retrying' = retrying /\ posts' = posts /\ spare' = spare
      /\ accepted' = accepted /\ upsets' = upsets
  BY DEF config, work, ghosts
<1>7. TypeOK'
  BY <1>0, <1>2, <1>3, <1>4, <1>5, <1>6 DEF TypeOK, LineInv, Statuses, Attempts
<1>8. BatchInv' /\ \A e \in Deliveries : Recording(e)' <=> Recording(e)
  <2>1. \A e \in Deliveries : row[e] # "none" => row'[e] # "none" /\ of'[e] = of[e]
    BY <1>3, <1>4
  <2>2. \A e \in Deliveries : posts'[e] >= posts[e]
    BY <1>0, <1>6 DEF TypeOK
  <2>3. posts' \in [Deliveries -> Nat] /\ spare' \in [Deliveries -> Nat]
    BY <1>0, <1>6 DEF TypeOK
  <2>4. UNCHANGED work
    BY <1>6 DEF work
  <2> QED
    BY <1>0, <1>6, <2>1, <2>2, <2>3, <2>4, BatchKept
<1>9. ASSUME NEW e \in Deliveries PROVE RowInv(e)' /\ RowPosts(e)'
  <2>1. CASE e # d
    <3>1. Untouched(e)
      BY <1>3, <1>4, <1>5, <1>6, <2>1 DEF Untouched
    <3> QED
      BY <1>0, <1>8, <3>1, UntouchedKeeps, UntouchedPosts
  <2>2. CASE e = d
    <3>1. posts[d] = 0 /\ tester[d] = "no" /\ d \notin retrying /\ spare[d] \in Nat
      BY <1>0 DEF RowInv, TypeOK
    <3>2. RowInv(d)'
      BY <1>3, <1>4, <1>5, <1>6, <3>1 DEF RowInv
    <3>3. posts'[d] <= spare'[d] + (att'[d] - 1) + (IF Recording(d)' THEN 1 ELSE 0)
      BY <1>3, <1>6, <3>1
    <3>4. RowPosts(d)'
      BY <1>3, <3>3 DEF RowPosts, WithinAttempt, Unsettled
    <3> QED
      BY <2>2, <3>2, <3>4
  <2> QED
    BY <2>1, <2>2
<1> QED
  BY <1>2, <1>7, <1>8, <1>9 DEF QueueInv

LEMMA TestSendsKeeps ==
    ASSUME QueueInv, NEW d \in Deliveries, NEW ok \in BOOLEAN, TestSends(d, ok)
    PROVE  QueueInv'
<1>0. TypeOK /\ LineInv /\ BatchInv /\ \A e \in Deliveries : RowInv(e) /\ RowPosts(e)
  BY DEF QueueInv
<1>1. /\ hook' = hook /\ max' = max /\ of' = of /\ row' = row /\ att' = att /\ line' = line
      /\ due' = due /\ retrying' = retrying /\ upsets' = upsets /\ UNCHANGED work
      /\ tester[d] = "sending" /\ of[d] \notin Unreadable
  BY DEF TestSends, config, rows
<1>2. /\ tester' = [tester EXCEPT ![d] = IF ok THEN "ok" ELSE "bad"]
      /\ posts' = [posts EXCEPT ![d] = @ + 1] /\ spare' = [spare EXCEPT ![d] = @ + 1]
      /\ accepted' = IF ok THEN accepted \cup {d} ELSE accepted
  BY DEF TestSends
<1>3. /\ posts' \in [Deliveries -> Nat] /\ spare' \in [Deliveries -> Nat]
      /\ posts'[d] = posts[d] + 1 /\ spare'[d] = spare[d] + 1
      /\ posts[d] \in Nat /\ spare[d] \in Nat /\ att[d] \in Nat
      /\ \A e \in Deliveries \ {d} : posts'[e] = posts[e] /\ spare'[e] = spare[e]
  BY <1>0, <1>2, QueueAssumption DEF TypeOK
<1>4. /\ tester' \in [Deliveries -> {"no", "sending", "ok", "bad"}]
      /\ tester'[d] = (IF ok THEN "ok" ELSE "bad")
      /\ \A e \in Deliveries \ {d} : tester'[e] = tester[e]
      /\ accepted \subseteq accepted' /\ accepted' \subseteq Deliveries
      /\ ok => d \in accepted'
  BY <1>0, <1>2 DEF TypeOK
<1>5. TypeOK'
  BY <1>0, <1>1, <1>3, <1>4 DEF TypeOK, work
<1>6. LineInv'
  BY <1>0, <1>1, LineKept
<1>7. BatchInv' /\ \A e \in Deliveries : Recording(e)' <=> Recording(e)
  <2>1. \A e \in Deliveries : posts[e] \in Nat /\ spare[e] \in Nat
    BY <1>0 DEF TypeOK
  <2>2. \A e \in Deliveries :
           /\ posts'[e] >= posts[e]
           /\ \A n \in Nat : posts[e] <= spare[e] + n => posts'[e] <= spare'[e] + n
    BY <1>3, <2>1
  <2> QED
    BY <1>0, <1>1, <1>3, <1>4, <2>2, BatchKept
<1>8. ASSUME NEW e \in Deliveries PROVE RowInv(e)' /\ RowPosts(e)'
  <2>1. CASE e # d
    <3>1. Untouched(e)
      BY <1>1, <1>3, <1>4, <2>1 DEF Untouched
    <3> QED
      BY <1>0, <1>7, <3>1, UntouchedKeeps, UntouchedPosts
  <2>2. CASE e = d
    <3>1. RowInv(d) /\ RowPosts(d) /\ row[d] # "none"
      BY <1>0, <1>1 DEF RowInv
    <3>2. RowInv(d)'
      BY <1>1, <1>3, <1>4, <3>1 DEF RowInv
    <3>3. RowPosts(d)'
      <4> DEFINE m == IF row[d] \in Unsettled THEN att[d] - 1 ELSE att[d]
                 r == IF Recording(d) THEN 1 ELSE 0
      <4>1. m \in Int /\ r \in Int
        BY <1>3
      <4>2. posts[d] <= spare[d] + m + r
        BY <3>1 DEF RowPosts, WithinAttempt
      <4>3. m' = m /\ r' = r
        BY <1>1, <1>7
      <4> HIDE DEF m, r
      <4>4. posts'[d] <= spare'[d] + m + r
        BY <1>3, <4>1, <4>2
      <4> QED
        BY <4>3, <4>4 DEF RowPosts, WithinAttempt, m, r
    <3> QED
      BY <2>2, <3>2, <3>3
  <2> QED
    BY <2>1, <2>2
<1> QED
  BY <1>5, <1>6, <1>7, <1>8 DEF QueueInv

LEMMA TestRecordsKeeps ==
    ASSUME QueueInv, NEW d \in Deliveries, TestRecords(d)
    PROVE  QueueInv'
<1> DEFINE st == IF tester[d] = "ok" THEN "success" ELSE "failed"
<1>0. TypeOK /\ LineInv /\ BatchInv /\ \A e \in Deliveries : RowInv(e) /\ RowPosts(e)
  BY DEF QueueInv
<1>1. 1 \in Attempts /\ st \in Terminal /\ st \in Statuses
  BY QueueAssumption DEF Attempts, Statuses, Terminal
<1>2. /\ tester[d] \in {"ok", "bad"} /\ Settle(d, st, 1) /\ Write(d, st, 1)
      /\ tester' = [tester EXCEPT ![d] = "no"] /\ spare' = [spare EXCEPT ![d] = posts[d]]
      /\ hook' = hook /\ max' = max /\ of' = of /\ UNCHANGED work /\ retrying' = retrying
      /\ posts' = posts /\ accepted' = accepted /\ upsets' = upsets
  BY DEF TestRecords, Settle, config
<1>3. /\ st = "success" => d \in accepted
      /\ of[d] \notin Unreadable /\ row[d] # "none" /\ of[d] \in Hooks /\ st # "none"
  BY <1>0, <1>2 DEF RowInv
<1> HIDE DEF st
<1>4. LineInv'
  BY <1>0, <1>1, <1>2, SettleLine
<1>5. /\ row' \in [Deliveries -> Statuses] /\ att' \in [Deliveries -> Attempts]
      /\ row'[d] = st /\ att'[d] = 1
      /\ \A e \in Deliveries \ {d} : row'[e] = row[e] /\ att'[e] = att[e]
  BY <1>0, <1>1, <1>2, WriteTyped
<1>6. /\ tester' \in [Deliveries -> {"no", "sending", "ok", "bad"}] /\ tester'[d] = "no"
      /\ spare' \in [Deliveries -> Nat] /\ spare'[d] = posts[d]
      /\ \A e \in Deliveries \ {d} : tester'[e] = tester[e] /\ spare'[e] = spare[e]
      /\ posts' \in [Deliveries -> Nat] /\ posts[d] \in Nat
  BY <1>0, <1>2 DEF TypeOK
<1>7. TypeOK'
  BY <1>0, <1>2, <1>4, <1>5, <1>6 DEF TypeOK, LineInv, Statuses, Attempts, work
<1>8. BatchInv' /\ \A e \in Deliveries : Recording(e)' <=> Recording(e)
  <2>1. \A e \in Deliveries : posts[e] \in Nat /\ spare[e] \in Nat
    BY <1>0 DEF TypeOK
  <2>2. \A e \in Deliveries :
           /\ posts'[e] >= posts[e]
           /\ \A n \in Nat : posts[e] <= spare[e] + n => posts'[e] <= spare'[e] + n
    BY <1>2, <1>6, <2>1
  <2>3. \A e \in Deliveries : row[e] # "none" => row'[e] # "none" /\ of'[e] = of[e]
    BY <1>2, <1>3, <1>5
  <2> QED
    BY <1>0, <1>2, <1>6, <2>2, <2>3, BatchKept
<1>9. ASSUME NEW e \in Deliveries PROVE RowInv(e)' /\ RowPosts(e)'
  <2>1. CASE e # d
    <3>1. Untouched(e)
      BY <1>2, <1>5, <1>6, <2>1 DEF Untouched
    <3> QED
      BY <1>0, <1>8, <3>1, UntouchedKeeps, UntouchedPosts
  <2>2. CASE e = d
    <3>1. row'[d] \in {"success", "failed"} /\ (row'[d] = "success" => d \in accepted')
      BY <1>2, <1>3, <1>5 DEF st
    <3>2. RowInv(d)'
      BY <1>2, <1>3, <1>5, <1>6, <3>1 DEF RowInv
    <3>3. posts'[d] <= spare'[d] + att'[d] + (IF Recording(d)' THEN 1 ELSE 0)
      BY <1>2, <1>5, <1>6
    <3>4. RowPosts(d)'
      BY <3>1, <3>3 DEF RowPosts, WithinAttempt, Unsettled
    <3> QED
      BY <2>2, <3>2, <3>4
  <2> QED
    BY <2>1, <2>2
<1> QED
  BY <1>4, <1>7, <1>8, <1>9 DEF QueueInv

LEMMA RetryWritesKeeps ==
    ASSUME QueueInv, NEW d \in Deliveries, RetryWrites(d)
    PROVE  QueueInv'
<1>0. TypeOK /\ LineInv /\ BatchInv /\ \A e \in Deliveries : RowInv(e) /\ RowPosts(e)
  BY DEF QueueInv
<1>1. 1 \in Attempts /\ "pending" \in Statuses
  BY QueueAssumption DEF Attempts, Statuses, Unsettled
<1>2. /\ d \in retrying /\ retrying' = retrying \ {d} /\ QueueNow(d, 1)
      /\ spare' = [spare EXCEPT ![d] = posts[d]]
      /\ hook' = hook /\ max' = max /\ of' = of /\ UNCHANGED work /\ tester' = tester
      /\ posts' = posts /\ accepted' = accepted /\ upsets' = upsets
  BY DEF RetryWrites, config
<1>3. RowInv(d) /\ row[d] # "none" /\ of[d] \in Hooks
  BY <1>0, <1>2 DEF RowInv
<1>4. LineInv' /\ Write(d, "pending", 1)
  BY <1>0, <1>1, <1>2, QueueNowLine
<1>5. /\ row' \in [Deliveries -> Statuses] /\ att' \in [Deliveries -> Attempts]
      /\ row'[d] = "pending" /\ att'[d] = 1
      /\ \A e \in Deliveries \ {d} : row'[e] = row[e] /\ att'[e] = att[e]
  BY <1>0, <1>1, <1>4, WriteTyped
<1>6. /\ spare' \in [Deliveries -> Nat] /\ spare'[d] = posts[d]
      /\ \A e \in Deliveries \ {d} : spare'[e] = spare[e]
      /\ posts' \in [Deliveries -> Nat] /\ posts[d] \in Nat
  BY <1>0, <1>2 DEF TypeOK
<1>7. TypeOK'
  BY <1>0, <1>2, <1>4, <1>5, <1>6 DEF TypeOK, LineInv, Statuses, Attempts, work
<1>8. BatchInv' /\ \A e \in Deliveries : Recording(e)' <=> Recording(e)
  <2>1. \A e \in Deliveries : posts[e] \in Nat /\ spare[e] \in Nat
    BY <1>0 DEF TypeOK
  <2>2. \A e \in Deliveries :
           /\ posts'[e] >= posts[e]
           /\ \A n \in Nat : posts[e] <= spare[e] + n => posts'[e] <= spare'[e] + n
    BY <1>2, <1>6, <2>1
  <2>3. \A e \in Deliveries : row[e] # "none" => row'[e] # "none" /\ of'[e] = of[e]
    BY <1>2, <1>5
  <2> QED
    BY <1>0, <1>2, <1>6, <2>2, <2>3, BatchKept
<1>9. ASSUME NEW e \in Deliveries PROVE RowInv(e)' /\ RowPosts(e)'
  <2>1. CASE e # d
    <3>1. Untouched(e)
      BY <1>2, <1>5, <1>6, <2>1 DEF Untouched
    <3> QED
      BY <1>0, <1>8, <3>1, UntouchedKeeps, UntouchedPosts
  <2>2. CASE e = d
    <3>1. RowInv(d)'
      BY <1>2, <1>3, <1>5, <1>6 DEF RowInv
    <3>2. posts'[d] <= spare'[d] + (att'[d] - 1) + (IF Recording(d)' THEN 1 ELSE 0)
      BY <1>2, <1>5, <1>6
    <3>3. RowPosts(d)'
      BY <1>5, <3>2 DEF RowPosts, WithinAttempt, Unsettled
    <3> QED
      BY <2>2, <3>1, <3>3
  <2> QED
    BY <2>1, <2>2
<1> QED
  BY <1>4, <1>7, <1>8, <1>9 DEF QueueInv

(* A failed test, a retry that has read its row, an edit, the clock: rows and *)
(* POSTs stay as they are.                                                 *)
LEMMA QuietKeeps ==
    ASSUME QueueInv, TypeOK', LineInv', UNCHANGED work, UNCHANGED ghosts,
           of' = of, row' = row, att' = att,
           \A e \in Deliveries : tester'[e] \in {tester[e], "no"},
           \A e \in Deliveries : e \in retrying' => e \in retrying \/ row[e] # "none"
    PROVE  QueueInv'
<1>0. TypeOK /\ LineInv /\ BatchInv /\ \A e \in Deliveries : RowInv(e) /\ RowPosts(e)
  BY DEF QueueInv
<1>1. posts' = posts /\ spare' = spare /\ accepted' = accepted
  BY DEF ghosts
<1>2. BatchInv' /\ \A e \in Deliveries : Recording(e)' <=> Recording(e)
  <2>1. \A e \in Deliveries : posts'[e] >= posts[e]
    BY <1>0, <1>1 DEF TypeOK
  <2>2. posts' \in [Deliveries -> Nat] /\ spare' \in [Deliveries -> Nat]
    BY <1>0, <1>1 DEF TypeOK
  <2> QED
    BY <1>0, <1>1, <2>1, <2>2, BatchKept
<1>3. ASSUME NEW e \in Deliveries PROVE RowInv(e)' /\ RowPosts(e)'
  <2>1. RowInv(e) /\ RowPosts(e) /\ tester'[e] \in {tester[e], "no"}
        /\ (e \in retrying' => e \in retrying \/ row[e] # "none")
    BY <1>0
  <2>2. RowInv(e)'
    BY <1>1, <2>1 DEF RowInv
  <2>3. RowPosts(e)'
    BY <1>1, <1>2, <2>1 DEF RowPosts, WithinAttempt
  <2> QED
    BY <2>2, <2>3
<1> QED
  BY <1>2, <1>3 DEF QueueInv

-----------------------------------------------------------------------------
(* The worker.                                                             *)

LEMMA TickKeeps == QueueInv /\ Tick => QueueInv'
<1> SUFFICES ASSUME QueueInv, Tick PROVE QueueInv'
  OBVIOUS
<1> DEFINE n == IF due < Limit THEN due ELSE Limit
           b == [i \in 1..n |-> <<line[i], att[line[i]]>>]
<1>0. TypeOK /\ LineInv /\ BatchInv /\ \A e \in Deliveries : RowInv(e) /\ RowPosts(e)
  BY DEF QueueInv
<1>1. /\ worker = "idle" /\ due > 0 /\ batch' = b /\ worker' = "deliver"
      /\ hook' = hook /\ max' = max /\ of' = of /\ row' = row /\ att' = att /\ line' = line
      /\ due' = due /\ limit' = limit /\ result' = result /\ tester' = tester
      /\ retrying' = retrying /\ posts' = posts /\ spare' = spare /\ accepted' = accepted
      /\ upsets' = upsets
  BY DEF Tick, config, rows, handlers, ghosts
<1>2. n \in Nat /\ n >= 1 /\ Len(line) \in Nat /\ \A i \in 1..n : i \in 1..Len(line)
  <2>1. Len(line) \in Nat /\ due \in 0..Len(line)
    BY <1>0, LenProperties DEF LineInv
  <2> QED
    BY <1>1, <2>1, QueueAssumption
<1>3. \A i \in 1..Len(line) : line[i] \in Deliveries /\ row[line[i]] \in Unsettled
  BY <1>0, ElementOfSeq DEF LineInv
<1>4. \A i \in 1..n : /\ b[i] \in Deliveries \X Attempts
                      /\ b[i][1] = line[i] /\ b[i][2] = att[line[i]]
  BY <1>0, <1>2, <1>3 DEF TypeOK, Attempts
<1>5. b \in Seq(Deliveries \X Attempts) /\ Len(b) = n
  <2>1. b \in [1..n -> Deliveries \X Attempts]
    BY <1>4
  <2> HIDE DEF b
  <2> QED
    BY <1>2, <2>1
<1> HIDE DEF n, b
<1>6. TypeOK'
  BY <1>0, <1>1, <1>5 DEF TypeOK, Attempts
<1>7. LineInv'
  BY <1>0, <1>1, LineKept
<1>8. \A e : ~Recording(e) /\ ~Recording(e)'
  BY <1>1 DEF Recording
<1>9. ASSUME NEW e \in Deliveries PROVE RowInv(e)' /\ RowPosts(e)'
  <2>1. Untouched(e)
    BY <1>1 DEF Untouched
  <2> QED
    BY <1>0, <1>8, <2>1, UntouchedKeeps, UntouchedPosts
<1>10. ASSUME NEW i \in 1..n PROVE Entry(batch[i][1], batch[i][2])'
  <2> DEFINE e == line[i]
  <2>1. e \in Deliveries /\ row[e] \in Unsettled /\ e' = e
    BY <1>1, <1>2, <1>3
  <2> HIDE DEF e
  <2>2. RowInv(e) /\ RowPosts(e) /\ ~Recording(e)
    BY <1>0, <1>8, <2>1
  <2>3. posts[e] \in Nat /\ spare[e] \in Nat /\ att[e] \in Nat
    BY <1>0, <2>1, QueueAssumption DEF TypeOK
  <2>4. posts[e] <= spare[e] + (att[e] - 1)
    BY <2>1, <2>2, <2>3 DEF RowPosts, WithinAttempt
  <2>5. row[e] # "none" /\ posts[e] >= att[e] - 1
    BY <2>1, <2>2, <2>3 DEF RowInv, Unsettled
  <2>6. batch'[i][1] = e /\ batch'[i][2] = att[e]
    BY <1>1, <1>4 DEF e
  <2>7. /\ row'[e] # "none" /\ posts'[e] >= att[e] - 1
        /\ posts'[e] <= spare'[e] + (att[e] - 1) + (IF Recording(e)' THEN 1 ELSE 0)
    BY <1>1, <2>1, <2>3, <2>4, <2>5
  <2>8. Recording(batch[i][1])' <=> Recording(e)'
    BY <2>1, <2>6 DEF Recording
  <2> QED
    BY <2>6, <2>7, <2>8 DEF Entry, WithinAttempt
<1>11. BatchInv'
  <2>1. \A i \in 1..Len(batch') : Entry(batch[i][1], batch[i][2])'
    BY <1>1, <1>5, <1>10
  <2>2. ASSUME NEW i \in 1..Len(batch'), NEW j \in 1..Len(batch'),
               batch'[i][1] = batch'[j][1]
        PROVE  i = j
    <3>1. i \in 1..n /\ j \in 1..n
      BY <1>1, <1>5
    <3>2. i \in 1..Len(line) /\ j \in 1..Len(line)
      BY <1>2, <3>1
    <3>3. line[i] = line[j]
      BY <1>1, <1>4, <2>2, <3>1
    <3> QED
      BY <1>0, <3>2, <3>3 DEF LineInv, Distinct
  <2>3. Len(batch') >= 1 /\ worker' # "recording"
    BY <1>1, <1>2, <1>5
  <2> QED
    BY <2>1, <2>2, <2>3 DEF BatchInv
<1> QED
  BY <1>6, <1>7, <1>9, <1>11 DEF QueueInv

(* The worker writes the row of its first entry and goes on to the next. *)
LEMMA RestKeeps ==
    ASSUME QueueInv, worker # "idle", Proceed, LineInv',
           NEW c, c = Current, NEW st \in Statuses \ {"none"}, NEW a \in Attempts, Write(c, st, a),
           st = "success" => c \in accepted,
           st = "gave_up" => posts[c] >= a,
           st = "retrying" => posts[c] >= a - 1 /\ a > 1,
           st # "pending",
           of[c] \in Unreadable => st \notin {"success", "gave_up"},
           posts[c] <= spare[c] + (IF st = "retrying" THEN a - 1 ELSE a),
           UNCHANGED <<config, of, limit, result, handlers, ghosts, upsets>>
    PROVE  QueueInv'
<1>0. TypeOK /\ LineInv /\ BatchInv /\ \A e \in Deliveries : RowInv(e) /\ RowPosts(e)
  BY DEF QueueInv
<1>1. /\ hook' = hook /\ max' = max /\ of' = of /\ limit' = limit /\ result' = result
      /\ tester' = tester /\ retrying' = retrying /\ posts' = posts /\ spare' = spare
      /\ accepted' = accepted /\ upsets' = upsets
  BY DEF config, handlers, ghosts
<1>2. c \in Deliveries /\ Entry(c, CurrentAttempt)
  BY <1>0, HeadOfBatch
<1>3. /\ row' \in [Deliveries -> Statuses] /\ att' \in [Deliveries -> Attempts]
      /\ row'[c] = st /\ att'[c] = a
      /\ \A e \in Deliveries \ {c} : row'[e] = row[e] /\ att'[e] = att[e]
  BY <1>0, <1>2, WriteTyped
<1>4. /\ batch' \in Seq(Deliveries \X Attempts)
      /\ worker' \in {"idle", "deliver"}
      /\ worker' # "idle" => Len(batch') >= 1
      /\ \A i, j \in 1..Len(batch') : batch'[i][1] = batch'[j][1] => i = j
      /\ \A i \in 1..Len(batch') :
            \E j \in 1..Len(batch) : batch'[i] = batch[j] /\ batch[j][1] # c
  BY <1>0, RestOfBatch
<1>5. TypeOK'
  BY <1>0, <1>1, <1>3, <1>4 DEF TypeOK, LineInv, Statuses, Attempts
<1>6. \A e : ~Recording(e)'
  BY <1>4 DEF Recording
<1>7. \A e : e # c => ~Recording(e)
  BY DEF Recording
<1>8. ASSUME NEW e \in Deliveries PROVE RowInv(e)' /\ RowPosts(e)'
  <2>1. CASE e # c
    <3>1. Untouched(e)
      BY <1>1, <1>3, <2>1 DEF Untouched
    <3> QED
      BY <1>0, <1>6, <1>7, <2>1, <3>1, UntouchedKeeps, UntouchedPosts
  <2>2. CASE e = c
    <3>1. RowInv(c) /\ row[c] # "none" /\ posts[c] \in Nat /\ spare[c] \in Nat /\ a \in Nat
      BY <1>0, <1>2, QueueAssumption DEF Entry, TypeOK, Attempts
    <3>2. RowInv(c)'
      BY <1>1, <1>3, <3>1 DEF RowInv
    <3>3. row'[c] \in Unsettled <=> st = "retrying"
      BY <1>3 DEF Unsettled
    <3>4. posts'[c] <= spare'[c] + (IF row'[c] \in Unsettled THEN att'[c] - 1 ELSE att'[c])
      BY <1>1, <1>3, <3>3
    <3>5. RowPosts(c)'
      BY <1>1, <1>3, <1>6, <3>1, <3>4 DEF RowPosts, WithinAttempt
    <3> QED
      BY <2>2, <3>2, <3>5
  <2> QED
    BY <2>1, <2>2
<1>9. ASSUME NEW i \in 1..Len(batch') PROVE Entry(batch[i][1], batch[i][2])'
  <2>1. PICK j \in 1..Len(batch) : batch'[i] = batch[j] /\ batch[j][1] # c
    BY <1>4
  <2>2. Entry(batch[j][1], batch[j][2]) /\ batch[j] \in Deliveries \X Attempts
    BY <1>0, ElementOfSeq DEF BatchInv, TypeOK, Attempts
  <2> DEFINE e == batch[j][1]
             m == batch[j][2]
  <2>3. /\ e \in Deliveries /\ e # c /\ m \in Nat /\ batch'[i][1] = e /\ batch'[i][2] = m
        /\ Entry(e, m)
    BY <2>1, <2>2, QueueAssumption DEF Attempts
  <2> HIDE DEF e, m
  <2>4. posts[e] \in Nat /\ spare[e] \in Nat /\ ~Recording(e)
    BY <1>0, <1>7, <2>3 DEF TypeOK
  <2>5. row[e] # "none" /\ posts[e] >= m - 1 /\ posts[e] <= spare[e] + (m - 1)
    BY <2>3, <2>4 DEF Entry, WithinAttempt
  <2>6. /\ row'[e] # "none" /\ posts'[e] >= m - 1 /\ posts'[e] <= spare'[e] + (m - 1)
        /\ posts'[e] \in Nat /\ spare'[e] \in Nat
    BY <1>1, <1>3, <2>3, <2>4, <2>5
  <2>7. ~Recording(batch[i][1])'
    BY <1>4 DEF Recording
  <2> QED
    BY <2>3, <2>6, <2>7 DEF Entry, WithinAttempt
<1>10. BatchInv'
  BY <1>4, <1>9 DEF BatchInv
<1> QED
  BY <1>5, <1>8, <1>10 DEF QueueInv

LEMMA RefuseKeeps == QueueInv /\ Refuse => QueueInv'
<1> SUFFICES ASSUME QueueInv, Refuse PROVE QueueInv'
  OBVIOUS
<1> DEFINE c == Current
           a == CurrentAttempt
<1>0. TypeOK /\ LineInv /\ BatchInv
  BY DEF QueueInv
<1>1. /\ worker = "deliver" /\ Settle(c, "failed", a) /\ Write(c, "failed", a) /\ Proceed
      /\ UNCHANGED <<config, of, limit, result, handlers, ghosts, upsets>>
  BY DEF Refuse, Settle
<1>2. c \in Deliveries /\ a \in Attempts /\ a \in Nat /\ Entry(c, a) /\ ~Recording(c)
  BY <1>0, <1>1, HeadOfBatch, QueueAssumption DEF Attempts, Recording
<1>3. "failed" \in Terminal /\ "failed" \in Statuses \ {"none"}
  BY DEF Terminal, Statuses
<1>4. posts[c] \in Nat /\ spare[c] \in Nat
  BY <1>0, <1>2 DEF TypeOK
<1>5. posts[c] <= spare[c] + a
  BY <1>2, <1>4 DEF Entry, WithinAttempt
<1>6. c = Current
  OBVIOUS
<1> HIDE DEF c, a
<1>7. LineInv'
  BY <1>0, <1>1, <1>2, <1>3, SettleLine
<1> QED
  BY <1>1, <1>2, <1>3, <1>5, <1>6, <1>7, RestKeeps

LEMMA RecordKeeps == QueueInv /\ Record => QueueInv'
<1> SUFFICES ASSUME QueueInv, Record PROVE QueueInv'
  OBVIOUS
<1> DEFINE c == Current
           a == CurrentAttempt
           o == Outcome
<1>0. TypeOK /\ LineInv /\ BatchInv /\ \A e \in Deliveries : RowInv(e)
  BY DEF QueueInv
<1>1. /\ worker = "recording" /\ Proceed
      /\ UNCHANGED <<config, of, limit, result, handlers, ghosts, upsets>>
      /\ o = "retrying" => QueueLater(c, a + 1)
      /\ o # "retrying" => Settle(c, o, a) /\ Write(c, o, a)
  BY DEF Record, RetryLater, Settle
<1>2. c \in Deliveries /\ a \in Attempts /\ a \in Nat \ {0} /\ Entry(c, a) /\ Recording(c)
  BY <1>0, <1>1, HeadOfBatch, QueueAssumption DEF Attempts, Recording
<1>3. /\ of[c] \notin Unreadable /\ posts[c] >= a
      /\ result = "ok" => c \in accepted
  BY <1>0, <1>1 DEF BatchInv
<1>4. posts[c] \in Nat /\ spare[c] \in Nat /\ limit \in Attempts
  BY <1>0, <1>2 DEF TypeOK, Attempts
<1>5. posts[c] <= spare[c] + a
  BY <1>2, <1>4 DEF Entry, WithinAttempt
<1>6. /\ o \in {"success", "failed", "gave_up", "retrying"}
      /\ o = "success" => c \in accepted
  BY <1>3 DEF Outcome
<1>7. o = "retrying" => a + 1 \in Attempts
  <2>1. o = "retrying" => ~(a + 1 > limit)
    BY DEF Outcome, Exhausted
  <2> QED
    BY <1>2, <1>4, <2>1, QueueAssumption DEF Attempts
<1>8. c = Current
  OBVIOUS
<1> HIDE DEF c, a, o
<1>9. CASE o = "retrying"
  <2>1. LineInv' /\ Write(c, "retrying", a + 1)
    BY <1>0, <1>1, <1>2, <1>7, <1>9, QueueLaterLine
  <2>2. "retrying" \in Statuses \ {"none"} /\ posts[c] >= (a + 1) - 1 /\ a + 1 > 1
        /\ posts[c] <= spare[c] + ((a + 1) - 1)
    BY <1>2, <1>3, <1>4, <1>5 DEF Statuses, Unsettled
  <2> QED
    BY <1>1, <1>3, <1>7, <1>8, <1>9, <2>1, <2>2, RestKeeps
<1>10. CASE o # "retrying"
  <2>1. o \in Terminal /\ o \in Statuses \ {"none"} /\ o # "pending"
    BY <1>6, <1>10 DEF Terminal, Statuses
  <2>2. LineInv'
    BY <1>0, <1>1, <1>2, <1>10, <2>1, SettleLine
  <2> QED
    BY <1>1, <1>2, <1>3, <1>5, <1>6, <1>8, <1>10, <2>1, <2>2, RestKeeps
<1> QED
  BY <1>9, <1>10

LEMMA DeliverKeeps == QueueInv /\ Deliver => QueueInv'
<1> SUFFICES ASSUME QueueInv, Deliver PROVE QueueInv'
  OBVIOUS
<1>0. TypeOK /\ LineInv /\ BatchInv /\ \A e \in Deliveries : RowInv(e) /\ RowPosts(e)
  BY DEF QueueInv
<1>1. /\ worker = "deliver" /\ worker' = "sending" /\ limit' = max[of[Current]]
      /\ hook' = hook /\ max' = max /\ of' = of /\ row' = row /\ att' = att /\ line' = line
      /\ due' = due /\ batch' = batch /\ result' = result /\ tester' = tester
      /\ retrying' = retrying /\ posts' = posts /\ spare' = spare /\ accepted' = accepted
      /\ upsets' = upsets
  BY DEF Deliver, config, rows, handlers, ghosts
<1>2. Current \in Deliveries /\ row[Current] # "none"
  BY <1>0, <1>1, HeadOfBatch DEF Entry
<1>3. of[Current] \in Hooks
  BY <1>0, <1>2 DEF RowInv
<1>4. limit' \in 1..MaxAttempts
  BY <1>0, <1>1, <1>3 DEF TypeOK
<1>5. TypeOK'
  BY <1>0, <1>1, <1>4 DEF TypeOK
<1>6. LineInv'
  BY <1>0, <1>1, LineKept
<1>7. \A e : ~Recording(e) /\ ~Recording(e)'
  BY <1>1 DEF Recording
<1>8. ASSUME NEW e \in Deliveries PROVE RowInv(e)' /\ RowPosts(e)'
  <2>1. Untouched(e)
    BY <1>1 DEF Untouched
  <2> QED
    BY <1>0, <1>7, <2>1, UntouchedKeeps, UntouchedPosts
<1>9. \A i \in 1..Len(batch') : Entry(batch[i][1], batch[i][2])'
  <2>1. ASSUME NEW i \in 1..Len(batch) PROVE Entry(batch[i][1], batch[i][2])'
    <3>1. Entry(batch[i][1], batch[i][2]) /\ ~Recording(batch[i][1]) /\ ~Recording(batch[i][1])'
      BY <1>0, <1>1 DEF BatchInv, Recording
    <3> QED
      BY <1>1, <3>1 DEF Entry, WithinAttempt
  <2> QED
    BY <1>1, <2>1
<1>10. BatchInv'
  BY <1>0, <1>1, <1>9 DEF BatchInv
<1> QED
  BY <1>5, <1>6, <1>8, <1>10 DEF QueueInv

LEMMA SendKeeps ==
    ASSUME QueueInv, NEW r \in Results, Send(r) PROVE QueueInv'
<1> DEFINE c == Current
           a == CurrentAttempt
<1>0. TypeOK /\ LineInv /\ BatchInv /\ \A e \in Deliveries : RowInv(e) /\ RowPosts(e)
  BY DEF QueueInv
<1>1. /\ worker = "sending" /\ worker' = "recording" /\ of[c] \notin Unreadable /\ result' = r
      /\ posts' = [posts EXCEPT ![c] = @ + 1]
      /\ accepted' = IF r = "ok" THEN accepted \cup {c} ELSE accepted
      /\ hook' = hook /\ max' = max /\ of' = of /\ row' = row /\ att' = att /\ line' = line
      /\ due' = due /\ batch' = batch /\ limit' = limit /\ tester' = tester
      /\ retrying' = retrying /\ spare' = spare /\ upsets' = upsets
  BY DEF Send, config, rows, handlers
<1>2. /\ c \in Deliveries /\ a \in Nat /\ Entry(c, a) /\ 1 \in 1..Len(batch)
      /\ c = batch[1][1] /\ a = batch[1][2]
  BY <1>0, <1>1, HeadOfBatch, QueueAssumption DEF Attempts
<1>3. Current' = c /\ CurrentAttempt' = a /\ c' = c /\ a' = a
  BY <1>1 DEF Current, CurrentAttempt
<1> HIDE DEF c, a
<1>4. /\ posts' \in [Deliveries -> Nat] /\ posts'[c] = posts[c] + 1
      /\ \A e \in Deliveries \ {c} : posts'[e] = posts[e]
      /\ \A e \in Deliveries : posts[e] \in Nat /\ spare[e] \in Nat /\ att[e] \in Nat
  <2>1. posts \in [Deliveries -> Nat] /\ posts' = [posts EXCEPT ![c] = @ + 1]
    BY <1>0, <1>1 DEF TypeOK
  <2>2. spare \in [Deliveries -> Nat] /\ att \in [Deliveries -> 1..MaxAttempts]
    BY <1>0 DEF TypeOK
  <2>3. \A e \in Deliveries : posts[e] \in Nat /\ spare[e] \in Nat /\ att[e] \in Nat
    <3>1. ASSUME NEW e \in Deliveries PROVE posts[e] \in Nat /\ spare[e] \in Nat
      BY <2>1, <2>2
    <3>2. ASSUME NEW e \in Deliveries PROVE att[e] \in Nat
      <4>1. att[e] \in 1..MaxAttempts
        BY <2>2
      <4> QED
        BY <4>1, QueueAssumption
    <3> QED
      BY <3>1, <3>2
  <2>4. /\ posts' \in [Deliveries -> Nat] /\ posts'[c] = posts[c] + 1
        /\ \A e \in Deliveries \ {c} : posts'[e] = posts[e]
    BY <1>2, <2>1
  <2> QED
    BY <2>3, <2>4
<1>5. /\ accepted \subseteq accepted' /\ accepted' \subseteq Deliveries
      /\ r = "ok" => c \in accepted'
  BY <1>0, <1>1, <1>2 DEF TypeOK
<1>6. TypeOK'
  BY <1>0, <1>1, <1>4, <1>5 DEF TypeOK
<1>7. LineInv'
  BY <1>0, <1>1, LineKept
<1>8. (\A e : ~Recording(e)) /\ \A e : Recording(e)' <=> e = c
  BY <1>1, <1>3 DEF Recording
<1>9. ASSUME NEW e \in Deliveries PROVE RowInv(e)' /\ RowPosts(e)'
  <2>1. CASE e # c
    <3>1. Untouched(e)
      BY <1>1, <1>4, <1>5, <2>1 DEF Untouched
    <3> QED
      BY <1>0, <1>8, <2>1, <3>1, UntouchedKeeps, UntouchedPosts
  <2>2. CASE e = c
    <3>1. RowInv(e) /\ RowPosts(e) /\ row[e] # "none" /\ of[e] \notin Unreadable
      BY <1>0, <1>1, <1>2, <2>2 DEF Entry
    <3>2. posts'[e] = posts[e] + 1 /\ posts[e] \in Nat /\ spare[e] \in Nat /\ att[e] \in Nat
      BY <1>4, <2>2
    <3>3. RowInv(e)'
      BY <1>1, <1>5, <3>1, <3>2 DEF RowInv
    <3>4. ~Recording(e) /\ Recording(e)'
      BY <1>8, <2>2
    <3>5. posts[e] <= spare[e] + (IF row[e] \in Unsettled THEN att[e] - 1 ELSE att[e])
      BY <3>1, <3>2, <3>4 DEF RowPosts, WithinAttempt
    <3>6. posts'[e] <= spare'[e] + (IF row'[e] \in Unsettled THEN att'[e] - 1 ELSE att'[e]) + 1
      BY <1>1, <3>2, <3>5
    <3>7. RowPosts(e)'
      BY <3>4, <3>6 DEF RowPosts, WithinAttempt
    <3> QED
      BY <3>3, <3>7
  <2> QED
    BY <2>1, <2>2
<1>10. ASSUME NEW i \in 1..Len(batch) PROVE Entry(batch[i][1], batch[i][2])'
  <2> DEFINE e == batch[i][1]
             m == batch[i][2]
  <2>1. Entry(e, m) /\ batch[i] \in Deliveries \X Attempts
    BY <1>0, ElementOfSeq DEF BatchInv, TypeOK, Attempts
  <2>2. e \in Deliveries /\ m \in Nat /\ e' = e /\ m' = m
    BY <1>1, <2>1, QueueAssumption DEF Attempts
  <2> HIDE DEF e, m
  <2>3. posts[e] \in Nat /\ spare[e] \in Nat /\ ~Recording(e)
    BY <1>4, <1>8, <2>2
  <2>4. row[e] # "none" /\ posts[e] >= m - 1 /\ posts[e] <= spare[e] + (m - 1)
    BY <2>1, <2>2, <2>3 DEF Entry, WithinAttempt
  <2>5. Recording(e)' <=> e = c
    BY <1>8, <2>2 DEF Recording
  <2>6. /\ row'[e] # "none" /\ posts'[e] >= m - 1
        /\ posts'[e] <= spare'[e] + (m - 1) + (IF Recording(e)' THEN 1 ELSE 0)
    <3>1. CASE e = c
      <4>1. posts'[e] = posts[e] + 1
        BY <1>4, <3>1
      <4> QED
        BY <1>1, <2>2, <2>3, <2>4, <2>5, <3>1, <4>1
    <3>2. CASE e # c
      <4>1. posts'[e] = posts[e]
        BY <1>4, <2>2, <3>2
      <4> QED
        BY <1>1, <2>2, <2>3, <2>4, <2>5, <3>2, <4>1
    <3> QED
      BY <3>1, <3>2
  <2>7. Entry(e, m)'
    BY <2>2, <2>6 DEF Entry, WithinAttempt
  <2> QED
    BY <2>2, <2>7 DEF e, m
<1>11. BatchInv'
  <2>1. \A i \in 1..Len(batch') : Entry(batch[i][1], batch[i][2])'
    BY <1>1, <1>10
  <2>2. posts[c] >= a - 1 /\ posts[c] \in Nat
    BY <1>2, <1>4 DEF Entry
  <2>3. posts'[Current'] >= CurrentAttempt'
    BY <1>2, <1>3, <1>4, <2>2
  <2>4. of'[Current'] \notin Unreadable /\ (result' = "ok" => Current' \in accepted')
    BY <1>1, <1>3, <1>5
  <2> QED
    BY <1>0, <1>1, <2>1, <2>3, <2>4 DEF BatchInv
<1> QED
  BY <1>6, <1>7, <1>9, <1>11 DEF QueueInv

(* The worker drops its batch, with or without the process; a POST it made  *)
(* and has not recorded is one its row will never account for.             *)
LEMMA AbortKeeps ==
    ASSUME QueueInv, Abort, spare' = Unrecorded, upsets' \in 0..MaxUpsets,
           tester' \in [Deliveries -> {"no", "sending", "ok", "bad"}],
           \A e \in Deliveries : tester'[e] \in {tester[e], "no"},
           retrying' \subseteq retrying,
           UNCHANGED <<config, rows, limit, result, posts, accepted>>
    PROVE  QueueInv'
<1>0. TypeOK /\ LineInv /\ BatchInv /\ \A e \in Deliveries : RowInv(e) /\ RowPosts(e)
  BY DEF QueueInv
<1>1. /\ hook' = hook /\ max' = max /\ of' = of /\ row' = row /\ att' = att /\ line' = line
      /\ due' = due /\ limit' = limit /\ result' = result /\ posts' = posts
      /\ accepted' = accepted /\ batch' = <<>> /\ worker' = "idle"
  BY DEF Abort, config, rows
<1>2. /\ spare' \in [Deliveries -> Nat]
      /\ \A e \in Deliveries : spare'[e] = spare[e] + (IF Recording(e) THEN 1 ELSE 0)
  <2>1. CASE worker = "recording"
    <3>1. Current \in Deliveries
      BY <1>0, <2>1, HeadOfBatch
    <3>2. spare' = [spare EXCEPT ![Current] = @ + 1]
      BY <2>1 DEF Unrecorded
    <3> QED
      BY <1>0, <2>1, <3>1, <3>2 DEF TypeOK, Recording
  <2>2. CASE worker # "recording"
    BY <1>0, <2>2 DEF Unrecorded, TypeOK, Recording
  <2> QED
    BY <2>1, <2>2
<1>3. <<>> \in Seq(Deliveries \X (1..MaxAttempts)) /\ Len(<<>>) = 0
  BY EmptySeq
<1>4. TypeOK'
  BY <1>0, <1>1, <1>2, <1>3 DEF TypeOK
<1>5. LineInv'
  BY <1>0, <1>1, LineKept
<1>6. \A e : ~Recording(e)'
  BY <1>1 DEF Recording
<1>7. ASSUME NEW e \in Deliveries PROVE RowInv(e)' /\ RowPosts(e)'
  <2>1. /\ RowInv(e) /\ RowPosts(e) /\ tester'[e] \in {tester[e], "no"}
        /\ (e \in retrying' => e \in retrying)
    BY <1>0
  <2>2. RowInv(e)'
    BY <1>1, <2>1 DEF RowInv
  <2>3. posts[e] \in Nat /\ spare[e] \in Nat /\ att[e] \in Nat
    BY <1>0, QueueAssumption DEF TypeOK
  <2>4. posts'[e] <= spare'[e] + (IF row'[e] \in Unsettled THEN att'[e] - 1 ELSE att'[e])
    <3>1. posts[e] <= spare[e] + (IF row[e] \in Unsettled THEN att[e] - 1 ELSE att[e])
                      + (IF Recording(e) THEN 1 ELSE 0)
      BY <2>1 DEF RowPosts, WithinAttempt
    <3>2. spare'[e] = spare[e] + (IF Recording(e) THEN 1 ELSE 0)
      BY <1>2
    <3> QED
      BY <1>1, <2>3, <3>1, <3>2
  <2>5. RowPosts(e)'
    <3>1. spare'[e] \in Nat /\ att'[e] \in Nat /\ posts'[e] \in Nat /\ ~Recording(e)'
      BY <1>1, <1>2, <1>6, <2>3
    <3> QED
      BY <2>4, <3>1 DEF RowPosts, WithinAttempt
  <2> QED
    BY <2>2, <2>5
<1>8. BatchInv'
  BY <1>1, <1>3 DEF BatchInv
<1> QED
  BY <1>4, <1>5, <1>7, <1>8 DEF QueueInv

-----------------------------------------------------------------------------
(* The invariant of the queue.                                             *)

LEMMA QueueInvInit == Init => QueueInv
<1> SUFFICES ASSUME Init PROVE QueueInv
  OBVIOUS
<1>1. 1 \in Attempts /\ MaxAttempts \in Attempts /\ 0 \in 0..MaxUpsets
  BY QueueAssumption DEF Attempts
<1>2. <<>> \in Seq(Deliveries) /\ <<>> \in Seq(Deliveries \X (1..MaxAttempts)) /\ Len(<<>>) = 0
  BY EmptySeq
<1>3. TypeOK
  BY <1>1, <1>2 DEF Init, TypeOK, Attempts, Results
<1>4. LineInv
  BY <1>2 DEF Init, LineInv, Distinct
<1>5. BatchInv
  BY <1>2 DEF Init, BatchInv
<1>6. ASSUME NEW d \in Deliveries PROVE RowInv(d) /\ RowPosts(d)
  <2>1. /\ row[d] = "none" /\ posts[d] = 0 /\ spare[d] = 0 /\ att[d] = 1 /\ tester[d] = "no"
        /\ of[d] = None /\ d \notin retrying /\ worker = "idle"
    BY DEF Init
  <2>2. None \notin Unreadable
    BY QueueAssumption
  <2>3. RowInv(d)
    BY <2>1, <2>2 DEF RowInv
  <2>4. RowPosts(d)
    BY <2>1 DEF RowPosts, WithinAttempt, Recording, Unsettled
  <2> QED
    BY <2>3, <2>4
<1> QED
  BY <1>3, <1>4, <1>5, <1>6 DEF QueueInv

LEMMA QueueInvNext == QueueInv /\ [Next]_vars => QueueInv'
<1> SUFFICES ASSUME QueueInv, [Next]_vars PROVE QueueInv'
  OBVIOUS
<1>0. TypeOK /\ LineInv /\ BatchInv /\ \A e \in Deliveries : RowInv(e)
  BY DEF QueueInv
<1>1. ASSUME NEW d \in Deliveries, NEW h \in Hooks, Dispatch(d, h) PROVE QueueInv'
  <2>1. /\ row[d] = "none" /\ of' = [of EXCEPT ![d] = h] /\ QueueNow(d, 1) /\ tester' = tester
        /\ UNCHANGED <<config, work, retrying, ghosts, upsets>>
    BY <1>1 DEF Dispatch, handlers
  <2> QED
    BY <2>1, EnqueueKeeps
<1>2. ASSUME NEW d \in Deliveries, NEW h \in Hooks, TestStarts(d, h) PROVE QueueInv'
  <2>1. /\ row[d] = "none" /\ of' = [of EXCEPT ![d] = h] /\ QueueNow(d, 1)
        /\ tester' = [tester EXCEPT ![d] = "sending"]
        /\ UNCHANGED <<config, work, retrying, ghosts, upsets>>
    BY <1>2 DEF TestStarts
  <2> QED
    BY <2>1, EnqueueKeeps
<1>3. ASSUME NEW d \in Deliveries, NEW ok \in BOOLEAN, TestSends(d, ok) PROVE QueueInv'
  BY <1>3, TestSendsKeeps
<1>4. ASSUME NEW d \in Deliveries, TestRecords(d) PROVE QueueInv'
  BY <1>4, TestRecordsKeeps
<1>5. ASSUME NEW d \in Deliveries, TestThrows(d) PROVE QueueInv'
  <2>1. /\ tester' = [tester EXCEPT ![d] = "no"] /\ hook' = hook /\ max' = max /\ of' = of
        /\ row' = row /\ att' = att /\ line' = line /\ due' = due /\ UNCHANGED work
        /\ retrying' = retrying /\ UNCHANGED ghosts /\ upsets' = upsets
    BY <1>5 DEF TestThrows, config, rows
  <2>2. /\ tester' \in [Deliveries -> {"no", "sending", "ok", "bad"}]
        /\ \A e \in Deliveries : tester'[e] \in {tester[e], "no"}
    BY <1>0, <2>1 DEF TypeOK
  <2>3. TypeOK' /\ LineInv'
    BY <1>0, <2>1, <2>2, LineKept DEF TypeOK, work, ghosts
  <2> QED
    BY <2>1, <2>2, <2>3, QuietKeeps
<1>6. ASSUME NEW d \in Deliveries, RetryReads(d) PROVE QueueInv'
  <2>1. /\ row[d] \in Terminal /\ retrying' = retrying \cup {d} /\ hook' = hook /\ max' = max
        /\ of' = of /\ row' = row /\ att' = att /\ line' = line /\ due' = due /\ UNCHANGED work
        /\ tester' = tester /\ UNCHANGED ghosts /\ upsets < MaxUpsets /\ upsets' = upsets + 1
    BY <1>6 DEF RetryReads, config, rows
  <2>2. upsets' \in 0..MaxUpsets /\ row[d] # "none"
    BY <1>0, <2>1, QueueAssumption DEF TypeOK, Terminal
  <2>3. TypeOK' /\ LineInv'
    BY <1>0, <2>1, <2>2, LineKept DEF TypeOK, work, ghosts
  <2> QED
    BY <2>1, <2>2, <2>3, QuietKeeps
<1>7. ASSUME NEW d \in Deliveries, RetryWrites(d) PROVE QueueInv'
  BY <1>7, RetryWritesKeeps
<1>8. ASSUME NEW h \in Hooks, NEW state \in {"active", "inactive", "deleted"},
             NEW n \in 1..MaxAttempts, Edit(h, state, n)
      PROVE  QueueInv'
  <2>1. /\ hook' = [hook EXCEPT ![h] = state] /\ max' = [max EXCEPT ![h] = n]
        /\ of' = of /\ row' = row /\ att' = att /\ line' = line /\ due' = due /\ UNCHANGED work
        /\ tester' = tester /\ retrying' = retrying /\ UNCHANGED ghosts
        /\ upsets < MaxUpsets /\ upsets' = upsets + 1
    BY <1>8 DEF Edit, rows, handlers
  <2>2. /\ upsets' \in 0..MaxUpsets /\ hook' \in [Hooks -> {"active", "inactive", "deleted"}]
        /\ max' \in [Hooks -> 1..MaxAttempts]
    BY <1>0, <2>1, QueueAssumption DEF TypeOK
  <2>3. TypeOK' /\ LineInv'
    BY <1>0, <2>1, <2>2, LineKept DEF TypeOK, work, ghosts
  <2> QED
    BY <2>1, <2>3, QuietKeeps
<1>9. CASE TimePasses
  <2>1. /\ due < Len(line) /\ due' = due + 1 /\ hook' = hook /\ max' = max /\ of' = of
        /\ row' = row /\ att' = att /\ line' = line /\ UNCHANGED work /\ tester' = tester
        /\ retrying' = retrying /\ UNCHANGED ghosts /\ upsets' = upsets
    BY <1>9 DEF TimePasses, config, handlers
  <2>2. due' \in 0..Len(line)
    <3>1. Len(line) \in Nat /\ due \in 0..Len(line)
      BY <1>0, LenProperties DEF TypeOK
    <3> QED
      BY <2>1, <3>1
  <2>3. TypeOK'
    BY <1>0, <2>1, <2>2 DEF TypeOK, work, ghosts
  <2>4. LineInv'
    BY <1>0, <2>1, <2>2 DEF LineInv, Distinct
  <2> QED
    BY <2>1, <2>3, <2>4, QuietKeeps
<1>10. CASE Tick
  BY <1>10, TickKeeps
<1>11. CASE Refuse \/ Deliver \/ Record
  BY <1>11, RefuseKeeps, DeliverKeeps, RecordKeeps
<1>12. ASSUME NEW r \in Results, Send(r) PROVE QueueInv'
  BY <1>12, SendKeeps
<1>13. CASE SendThrows
  <2>1. /\ worker = "sending" /\ Abort /\ spare' = spare /\ upsets' = upsets /\ tester' = tester
        /\ retrying' = retrying /\ UNCHANGED <<config, rows, limit, result, posts, accepted>>
    BY <1>13 DEF SendThrows, handlers, ghosts
  <2>2. spare' = Unrecorded
    BY <2>1 DEF Unrecorded
  <2>3. /\ upsets' \in 0..MaxUpsets
        /\ tester' \in [Deliveries -> {"no", "sending", "ok", "bad"}]
    BY <1>0, <2>1 DEF TypeOK
  <2> QED
    BY <2>1, <2>2, <2>3, AbortKeeps
<1>14. CASE DrainFails
  <2>1. /\ Abort /\ spare' = Unrecorded /\ upsets < MaxUpsets /\ upsets' = upsets + 1
        /\ tester' = tester /\ retrying' = retrying
        /\ UNCHANGED <<config, rows, limit, result, posts, accepted>>
    BY <1>14 DEF DrainFails, handlers
  <2>2. /\ upsets' \in 0..MaxUpsets
        /\ tester' \in [Deliveries -> {"no", "sending", "ok", "bad"}]
    BY <1>0, <2>1, QueueAssumption DEF TypeOK
  <2> QED
    BY <2>1, <2>2, AbortKeeps
<1>15. CASE Crash
  <2>1. /\ Abort /\ spare' = Unrecorded /\ upsets < MaxUpsets /\ upsets' = upsets + 1
        /\ tester' = [d \in Deliveries |-> "no"] /\ retrying' = {}
        /\ UNCHANGED <<config, rows, limit, result, posts, accepted>>
    BY <1>15 DEF Crash
  <2>2. /\ upsets' \in 0..MaxUpsets
        /\ tester' \in [Deliveries -> {"no", "sending", "ok", "bad"}]
        /\ \A e \in Deliveries : tester'[e] \in {tester[e], "no"}
    BY <1>0, <2>1, QueueAssumption DEF TypeOK
  <2> QED
    BY <2>1, <2>2, AbortKeeps
<1>16. CASE UNCHANGED vars
  <2>1. /\ hook' = hook /\ max' = max /\ of' = of /\ row' = row /\ att' = att /\ line' = line
        /\ due' = due /\ UNCHANGED work /\ tester' = tester /\ retrying' = retrying
        /\ UNCHANGED ghosts /\ upsets' = upsets
    BY <1>16 DEF vars, config, rows, handlers
  <2>2. TypeOK' /\ LineInv'
    BY <1>0, <2>1, LineKept DEF TypeOK, work, ghosts
  <2> QED
    BY <2>1, <2>2, QuietKeeps
<1> QED
  BY <1>1, <1>2, <1>3, <1>4, <1>5, <1>6, <1>7, <1>8, <1>9, <1>10, <1>11, <1>12, <1>13,
     <1>14, <1>15, <1>16 DEF Next, Work

LEMMA QueueInvHolds == Spec => []QueueInv
<1>1. Init => QueueInv
  BY QueueInvInit
<1>2. QueueInv /\ [Next]_vars => QueueInv'
  BY QueueInvNext
<1> QED
  BY <1>1, <1>2, PTL DEF Spec

(* Rows, batch and counters keep their types: due never points past the      *)
(* queue, and no attempt exceeds the largest max_attempts a webhook may     *)
(* have, however often the configuration changes while a batch is drained.  *)
THEOREM TypeCorrect == Spec => []TypeOK
<1>1. QueueInv => TypeOK
  BY DEF QueueInv
<1> QED
  BY <1>1, QueueInvHolds, PTL

(* "success" is only ever recorded for a delivery the endpoint answered with *)
(* 2xx, whichever of worker, test handler and manual retry wrote last.     *)
THEOREM SuccessAlwaysAccepted == Spec => []SuccessWasAccepted
<1>1. QueueInv => SuccessWasAccepted
  BY DEF QueueInv, RowInv, SuccessWasAccepted
<1> QED
  BY <1>1, QueueInvHolds, PTL

(* The POSTs a delivery has had never exceed what its attempts, crashes,     *)
(* failed writes, tests and manual retries explain; no attempt is skipped   *)
(* on the way to a later one or to giving up; an unreadable secret keeps    *)
(* every POST back.                                                        *)
THEOREM AttemptsAlwaysAccounted == Spec => []AttemptsAccounted
<1>1. QueueInv => AttemptsAccounted
  <2>1. ASSUME QueueInv, NEW d \in Deliveries PROVE RowInv(d) /\ RowPosts(d)
    BY <2>1 DEF QueueInv
  <2>2. QueueInv => PostsAccounted
    BY <2>1 DEF RowPosts, WithinAttempt, PostsAccounted
  <2>3. QueueInv => NoAttemptSkipped
    BY <2>1 DEF RowInv, NoAttemptSkipped
  <2>4. QueueInv => NeverUnsigned
    BY <2>1 DEF RowInv, NeverUnsigned
  <2> QED
    BY <2>2, <2>3, <2>4 DEF AttemptsAccounted
<1> QED
  BY <1>1, QueueInvHolds, PTL

-----------------------------------------------------------------------------
(* The deliveries to a Twenty CRM, which the worker of this queue drains in *)
(* groups.  Two inductive invariants: what is left of a drain's budget, and   *)
(* what the flush under way knows of the CRM - its outcomes, its batch and *)
(* its cache - since that is what it will write into the rows.             *)

(* The parameters are what TwentyAssumption says, and the state is typed. *)
TwentyTyped == TwentyAssumption /\ TwentyTypeOK

(* Until the outcomes are recorded the tokens that are left still fit into    *)
(* the budget of the minutes begun.                                        *)
BudgetInv ==
    /\ DrainWithinBudget
    /\ pc # "recording" => calls + Left <= (1 + minutes) * Budget

(* What is due is not settled, and the flush under way is about what is due; *)
(* nothing counts as written before the batch is posted.                   *)
FlushIsDue ==
    /\ \A d \in twentyDue : twentyRow[d] \in TwentyUnsettled
    /\ todo \subseteq twentyDue /\ acts \subseteq twentyDue
    /\ pc # "mapping" => todo = {}
    /\ pc \notin {"mapping", "posting"} => acts = {}
    /\ \A d \in TwentyDeliveries : out[d] # "none" => d \in twentyDue /\ pc # "idle"
    /\ pc \in {"idle", "mapping", "posting"} =>
          \A d \in TwentyDeliveries : out[d] # "written"

(* The outcomes of a flush are true of the CRM up to the two exceptions. *)
OutcomesHold ==
    \A d \in TwentyDeliveries :
        /\ out[d] = "written" =>
               Activities(d) \subseteq timeline \/ d \in rehearsed \cup shadowed
        /\ out[d] = "skipped" => Milestones[d] = 0

(* Without a loss the CRM has only what a row or an outcome says. *)
HeardOfAll ==
    unheard \/ \A a \in timeline : twentyRow[a[1]] = "success" \/ out[a[1]] = "written"

(* Cache and batch are about persons whom Twenty knew when it was asked. *)
AskedAbout ==
    /\ cache \subseteq known \cup gone
    /\ \A d \in acts : Who[d] \in known \cup gone

(* The rows and the outcomes they are written from. *)
RowsInv == SuccessIsOnTimeline /\ OutcomesHold

(* The duplicate answers and what explains them. *)
LossInv == FlushIsDue /\ ShadowNeedsLoss /\ HeardOfAll

(* The persons written to. *)
PersonsInv == TimelineIsKnown /\ AskedAbout

(* One more minute adds one more budget. *)
LEMMA OneMoreBudget ==
    ASSUME TwentyAssumption, NEW n \in Nat
    PROVE  /\ (1 + (n + 1)) * Budget = (1 + n) * Budget + Budget
           /\ (1 + n) * Budget \in Nat
           /\ (1 + 0) * Budget = Budget
BY DEF TwentyAssumption

(* An activity belongs to the delivery it names, and only a delivery without *)
(* milestones has none.                                                    *)
LEMMA ActivityOf ==
    ASSUME TwentyAssumption, NEW ds \in SUBSET TwentyDeliveries
    PROVE  /\ \A a \in AllActivities(ds) : a[1] \in ds
           /\ \A d \in ds : Activities(d) \subseteq AllActivities(ds)
           /\ AllActivities(ds) \subseteq AllActivities(TwentyDeliveries)
           /\ \A d \in ds : Milestones[d] = 0 => Activities(d) = {}
<1>1. \A d \in ds : \A a \in Activities(d) : a[1] = d
  BY DEF Activities
<1>2. \A d \in ds : Milestones[d] = 0 => Activities(d) = {}
  BY DEF Activities
<1> QED
  BY <1>1, <1>2 DEF AllActivities

BudgetTyped ==
    tokens \in 0..Budget /\ over \in BOOLEAN /\ calls \in Nat /\ minutes \in 0..MaxMinutes

(* A token taken, or none, keeps the types of the bucket. *)
LEMMA TakeTyped ==
    ASSUME TwentyTyped, Take \/ Free
    PROVE  BudgetTyped'
<1> USE DEF TwentyTyped, TwentyAssumption, TwentyTypeOK, BudgetTyped
<1>1. CASE Take
  <2>1. Left \in 0..Budget
    BY DEF Left
  <2>2. Left > 0 /\ tokens' = Left - 1
    BY <1>1 DEF Take
  <2>3. over' = FALSE /\ calls' = calls + 1 /\ minutes' = minutes
    BY <1>1 DEF Take
  <2>4. tokens' \in 0..Budget
    BY <2>1, <2>2
  <2>5. calls' \in Nat /\ minutes' \in 0..MaxMinutes
    BY <2>3
  <2>6. over' \in BOOLEAN
    BY <2>3, Zenon
  <2> QED
    BY <2>4, <2>5, <2>6
<1>2. CASE Free
  BY <1>2 DEF Free, budgetVars
<1> QED
  BY <1>1, <1>2

(* Every step keeps the types. *)
LEMMA TwentyTypeStep == ASSUME TwentyTyped, [TwentyNext]_twentyVars PROVE TwentyTyped'
<1> USE DEF TwentyTyped, TwentyAssumption, TwentyTypeOK, rowVars, hookVars, batchVars,
            budgetVars, cacheVars, crmVars, pastVars, TwentyUnsettled, TwentyTerminal,
            Outcomes, Nothing, Take, Left, Free, Asks, Classify, ClassifyAll,
            FlushForgotten, Recorded, DrainOver
<1>1. ASSUME NEW d \in TwentyDeliveries, BackoffEnds(d) PROVE TwentyTyped'
  BY <1>1 DEF BackoffEnds
<1>2. ASSUME NEW p \in Persons, Import(p) PROVE TwentyTyped'
  BY <1>2 DEF Import
<1>3. ASSUME NEW p \in Persons, Forget(p) PROVE TwentyTyped'
  BY <1>3 DEF Forget
<1>4. CASE SwitchOff
  BY <1>4 DEF SwitchOff
<1>5. CASE GoLive
  BY <1>5 DEF GoLive
<1>6. CASE WindowEnds
  BY <1>6 DEF WindowEnds
<1>7. CASE FlushThrows
  BY <1>7 DEF FlushThrows
<1>8. CASE TwentyTick
  BY <1>8 DEF TwentyTick
<1>9. ASSUME NEW ds \in SUBSET TwentyDeliveries, TwentyRefuse(ds) PROVE TwentyTyped'
  BY <1>9 DEF TwentyRefuse
<1>10. ASSUME NEW d \in TwentyDeliveries, Drop(d) PROVE TwentyTyped'
  <2> USE <1>10 DEF Drop
  <2>1. /\ UNCHANGED <<rowVars, hookVars, pc, acts, size, patches, marked, crmVars, faults,
                      rehearsed, shadowed, unheard>>
        /\ todo' = todo \ {d}
    OBVIOUS
  <2>2. Take \/ Free
    OBVIOUS
  <2>3. cache' \subseteq cache /\ gone' \subseteq gone
    OBVIOUS
  <2>4. \E o \in Outcomes : out' = [out EXCEPT ![d] = o]
    OBVIOUS
  <2>5. out' \in [TwentyDeliveries -> Outcomes]
    BY <2>4
  <2>6. BudgetTyped'
    BY <2>2, TakeTyped
  <2> HIDE DEF Take, Left, Free, Drop, Asks, Classify
  <2> HIDE <1>10
  <2> QED
    BY <2>1, <2>3, <2>5, <2>6 DEF BudgetTyped
<1>11. ASSUME NEW d \in TwentyDeliveries, Resolve(d) PROVE TwentyTyped'
  <2> USE <1>11 DEF Resolve
  <2>1. UNCHANGED <<rowVars, hookVars, pc, out, marked, crmVars, faults,
                    rehearsed, shadowed, unheard>>
    OBVIOUS
  <2>2. Take \/ Free
    OBVIOUS
  <2>3. gone' \subseteq gone
    OBVIOUS
  <2>4. cache' \subseteq cache \cup {Who[d]}
    OBVIOUS
  <2>5. /\ acts' \subseteq acts \cup {d} /\ todo' \subseteq todo
        /\ patches' \subseteq patches \cup {Who[d]}
    OBVIOUS
  <2>6. size' \in 0..BatchSize
    BY DEF Fits
  <2>7. BudgetTyped'
    BY <2>2, TakeTyped
  <2> HIDE DEF Take, Left, Free, Resolve, Asks
  <2> HIDE <1>11
  <2> QED
    BY <2>1, <2>3, <2>4, <2>5, <2>6, <2>7 DEF BudgetTyped
<1>12. ASSUME NEW d \in TwentyDeliveries, TwentyRecord(d) PROVE TwentyTyped'
  BY <1>12 DEF TwentyRecord, Retry
<1>13. CASE MappingEnds
  <2>1. CASE acts = {}
    BY <2>1, <1>13 DEF MappingEnds
  <2>2. CASE acts # {}
    BY <2>2, <1>13 DEF MappingEnds
  <2> QED
    BY <2>1, <2>2
<1>14. ASSUME NEW as \in SUBSET AllActivities(acts), Written(as)
       PROVE  /\ timeline' \in SUBSET AllActivities(TwentyDeliveries)
              /\ astray' \in SUBSET AllActivities(TwentyDeliveries)
  <2>1. AllActivities(acts) \subseteq AllActivities(TwentyDeliveries)
    BY ActivityOf
  <2> QED
    BY <2>1, <1>14 DEF Written
<1>15. CASE PostFails
  <2> USE <1>15 DEF PostFails
  <2>1. /\ timeline' \in SUBSET AllActivities(TwentyDeliveries)
        /\ astray' \in SUBSET AllActivities(TwentyDeliveries)
    <3>1. CASE UNCHANGED <<timeline, astray>>
      BY <3>1
    <3>2. CASE \E as \in SUBSET AllActivities(acts) : Written(as)
      BY <3>2, <1>14
    <3> QED
      BY <3>1, <3>2
  <2>2. out' \in [TwentyDeliveries -> Outcomes]
    OBVIOUS
  <2>3. calls' \in Nat
    OBVIOUS
  <2>4. unheard' \in BOOLEAN
    <3>1. CASE UNCHANGED unheard
      BY <3>1
    <3>2. CASE \E as \in SUBSET AllActivities(acts) : unheard' = (unheard \/ as # {})
      BY <3>2, Zenon
    <3> QED
      BY <3>1, <3>2
  <2>5. /\ Recorded
        /\ UNCHANGED <<rowVars, hookVars, minutes, cacheVars, known, faults, rehearsed,
                        shadowed, gone>>
    OBVIOUS
  <2> HIDE <1>15
  <2> HIDE DEF PostFails, ClassifyAll, Take, Left
  <2> QED
    BY <2>1, <2>2, <2>3, <2>4, <2>5
<1>16. CASE PostSucceeds
  <2>1. ASSUME ~dry PROVE Written(AllActivities(acts))
    BY <2>1, <1>16 DEF PostSucceeds
  <2>2. /\ timeline' \in SUBSET AllActivities(TwentyDeliveries)
        /\ astray' \in SUBSET AllActivities(TwentyDeliveries)
    BY <2>1, <1>14, <1>16 DEF PostSucceeds
  <2> QED
    <3> USE <1>16 DEF PostSucceeds
    <3>1. out' \in [TwentyDeliveries -> Outcomes]
      OBVIOUS
    <3>2. BudgetTyped'
      BY TakeTyped
    <3>3. rehearsed' \subseteq TwentyDeliveries /\ shadowed' \subseteq TwentyDeliveries
      OBVIOUS
    <3>4. /\ pc' = "patching" /\ acts' = {} /\ size' = 0
          /\ UNCHANGED <<rowVars, hookVars, todo, patches, cacheVars, known, faults,
                          unheard, gone>>
      OBVIOUS
    <3> HIDE <1>16
    <3> HIDE DEF PostSucceeds, ClassifyAll, Take, Left
    <3> QED
      BY <2>2, <3>1, <3>2, <3>3, <3>4 DEF BudgetTyped
<1>17. CASE PostDuplicate
  <2>1. /\ timeline' \in SUBSET AllActivities(TwentyDeliveries)
        /\ astray' \in SUBSET AllActivities(TwentyDeliveries)
    BY <1>14, <1>17 DEF PostDuplicate
  <2> QED
    <3> USE <1>17 DEF PostDuplicate
    <3>1. out' \in [TwentyDeliveries -> Outcomes]
      OBVIOUS
    <3>2. BudgetTyped'
      BY TakeTyped
    <3>3. rehearsed' \subseteq TwentyDeliveries /\ shadowed' \subseteq TwentyDeliveries
      OBVIOUS
    <3>4. /\ pc' = "patching" /\ acts' = {} /\ size' = 0
          /\ UNCHANGED <<rowVars, hookVars, todo, patches, cacheVars, known, faults,
                          unheard, gone>>
      OBVIOUS
    <3> HIDE <1>17
    <3> HIDE DEF PostDuplicate, ClassifyAll, Take, Left
    <3> QED
      BY <2>1, <3>1, <3>2, <3>3, <3>4 DEF BudgetTyped
<1>18. CASE PatchingEnds
  BY <1>18 DEF PatchingEnds
<1>19. CASE FlushEnds
  BY <1>19 DEF FlushEnds
<1>20. ASSUME NEW p \in Persons, Patch(p) PROVE TwentyTyped'
  <2>1. BudgetTyped'
    BY <1>20, TakeTyped DEF Patch
  <2>2. /\ marked' \subseteq Persons /\ patches' \subseteq Persons
        /\ UNCHANGED <<rowVars, hookVars, pc, todo, acts, size, out, cache, crmVars,
                        faults, pastVars>>
    BY <1>20 DEF Patch
  <2> QED
    BY <2>1, <2>2 DEF BudgetTyped
<1>21. ASSUME NEW keep \in BOOLEAN, TwentyAbort(keep) PROVE TwentyTyped'
  BY <1>21 DEF TwentyAbort
<1>22. CASE UNCHANGED twentyVars
  BY <1>22 DEF twentyVars
<1> HIDE DEF TwentyTyped, TwentyTypeOK, TwentyAssumption
<1> QED
  BY <1>1, <1>2, <1>3, <1>4, <1>5, <1>6, <1>7, <1>8, <1>9, <1>10, <1>11, <1>12, <1>13,
     <1>15, <1>16, <1>17, <1>18, <1>19, <1>20, <1>21, <1>22
  DEF TwentyNext, Flush, Drain

LEMMA TwentyTypedAlways == TwentySpec => []TwentyTyped
<1>1. TwentyInit => TwentyTyped
  <2> SUFFICES ASSUME TwentyInit PROVE TwentyTypeOK
    BY TwentyAssumption DEF TwentyTyped
  <2> USE TwentyAssumption DEF TwentyAssumption, TwentyInit
  <2>1. /\ twentyRow \in [TwentyDeliveries -> TwentyUnsettled \cup TwentyTerminal]
        /\ twentyAtt \in [TwentyDeliveries -> 1..TwentyMaxAttempts]
        /\ out \in [TwentyDeliveries -> Outcomes]
    BY DEF TwentyUnsettled, TwentyTerminal, Outcomes, Nothing
  <2>2. /\ size \in 0..BatchSize /\ tokens \in 0..Budget /\ minutes \in 0..MaxMinutes
        /\ faults \in 0..MaxFaults
    OBVIOUS
  <2> QED
    BY <2>1, <2>2 DEF TwentyTypeOK
<1>2. TwentyTyped /\ [TwentyNext]_twentyVars => TwentyTyped'
  BY TwentyTypeStep
<1> QED
  BY <1>1, <1>2, PTL DEF TwentySpec

(* TwentyFlush is well typed in every reachable state. *)
THEOREM TwentyTypeCorrect == TwentySpec => []TwentyTypeOK
<1>1. TwentyTyped => TwentyTypeOK
  BY DEF TwentyTyped
<1> QED
  BY <1>1, TwentyTypedAlways, PTL

-----------------------------------------------------------------------------
(* The budget.                                                             *)

(* A token taken is a call made: the sum stays. *)
LEMMA TakeKeepsBudget ==
    ASSUME TwentyTyped, BudgetInv, pc # "recording", Take
    PROVE  BudgetInv'
<1>1. (1 + minutes) * Budget \in Nat
  BY OneMoreBudget DEF TwentyTyped, TwentyTypeOK
<1>2. calls + Left <= (1 + minutes) * Budget
  BY DEF BudgetInv
<1>3. /\ calls' = calls + 1 /\ minutes' = minutes /\ Left' = Left - 1 /\ Left > 0
      /\ Left \in Nat /\ calls \in Nat
  BY DEF Take, Left, TwentyTyped, TwentyAssumption, TwentyTypeOK
<1> HIDE DEF Left
<1> QED
  BY <1>1, <1>2, <1>3 DEF BudgetInv, DrainWithinBudget

(* Nothing is taken: the invariant stays, unless it was suspended. *)
LEMMA IdleKeepsBudget ==
    ASSUME BudgetInv, UNCHANGED <<tokens, over, calls, minutes>>,
           pc = "recording" => pc' = "recording"
    PROVE  BudgetInv'
BY DEF BudgetInv, DrainWithinBudget, Left

(* With the outcomes the invariant is suspended. *)
LEMMA RecordedKeepsBudget ==
    ASSUME BudgetInv, Recorded, UNCHANGED <<calls, minutes>>
    PROVE  BudgetInv'
BY DEF BudgetInv, DrainWithinBudget, Recorded

(* The next drain has a budget of its own. *)
LEMMA DrainOverKeepsBudget ==
    ASSUME TwentyTyped, DrainOver
    PROVE  BudgetInv'
BY OneMoreBudget
   DEF TwentyTyped, TwentyAssumption, BudgetInv, DrainWithinBudget, DrainOver,
       FlushForgotten, Left

LEMMA BudgetStep == ASSUME TwentyTyped, BudgetInv, [TwentyNext]_twentyVars PROVE BudgetInv'
<1> USE DEF budgetVars, Free
<1>1. ASSUME NEW d \in TwentyDeliveries, BackoffEnds(d) PROVE BudgetInv'
  BY <1>1, IdleKeepsBudget DEF BackoffEnds
<1>2. ASSUME NEW p \in Persons, Import(p) PROVE BudgetInv'
  BY <1>2, IdleKeepsBudget DEF Import
<1>3. ASSUME NEW p \in Persons, Forget(p) PROVE BudgetInv'
  BY <1>3, IdleKeepsBudget DEF Forget
<1>4. CASE SwitchOff
  BY <1>4, IdleKeepsBudget DEF SwitchOff
<1>5. CASE GoLive
  BY <1>5, IdleKeepsBudget DEF GoLive
<1>6. CASE WindowEnds
  <2>1. /\ minutes \in Nat /\ calls \in Nat /\ tokens \in Nat /\ Budget \in Nat
        /\ minutes' = minutes + 1 /\ calls' = calls /\ pc' = pc
        /\ Left = tokens /\ Left' = Budget
    BY <1>6 DEF WindowEnds, Left, TwentyTyped, TwentyAssumption, TwentyTypeOK
  <2>2. calls <= (1 + minutes) * Budget
    BY DEF BudgetInv, DrainWithinBudget
  <2>3. calls + Budget <= (1 + (minutes + 1)) * Budget
    BY <2>1, <2>2, OneMoreBudget DEF TwentyTyped
  <2>4. (1 + (minutes + 1)) * Budget \in Nat
    BY <2>1 
  <2> HIDE DEF Left
  <2> QED
    BY <2>1, <2>3, <2>4 DEF BudgetInv, DrainWithinBudget
<1>7. CASE FlushThrows
  BY <1>7, RecordedKeepsBudget DEF FlushThrows
<1>8. CASE TwentyTick
  BY <1>8, IdleKeepsBudget DEF TwentyTick
<1>9. ASSUME NEW ds \in SUBSET TwentyDeliveries, TwentyRefuse(ds) PROVE BudgetInv'
  BY <1>9, IdleKeepsBudget DEF TwentyRefuse
<1>10. ASSUME NEW d \in TwentyDeliveries, Drop(d) PROVE BudgetInv'
  <2>1. pc # "recording" /\ pc' = pc /\ (Take \/ Free)
    BY <1>10 DEF Drop, Asks
  <2> QED
    BY <2>1, TakeKeepsBudget, IdleKeepsBudget
<1>11. ASSUME NEW d \in TwentyDeliveries, Resolve(d) PROVE BudgetInv'
  <2>1. pc # "recording" /\ pc' = pc /\ (Take \/ Free)
    BY <1>11 DEF Resolve, Asks
  <2> QED
    BY <2>1, TakeKeepsBudget, IdleKeepsBudget
<1>12. ASSUME NEW d \in TwentyDeliveries, TwentyRecord(d) PROVE BudgetInv'
  BY <1>12, IdleKeepsBudget DEF TwentyRecord
<1>13. CASE MappingEnds
  BY <1>13, IdleKeepsBudget, RecordedKeepsBudget DEF MappingEnds
<1>14. CASE PostFails
  <2>1. CASE UNCHANGED calls
    BY <2>1, <1>14, RecordedKeepsBudget DEF PostFails
  <2>2. CASE Left > 0 /\ calls' = calls + 1
    <3>1. /\ calls \in Nat /\ Left \in Nat /\ (1 + minutes) * Budget \in Nat
          /\ pc # "recording" /\ pc' = "recording" /\ minutes' = minutes
      BY <1>14, OneMoreBudget
      DEF PostFails, Recorded, Left, TwentyTyped, TwentyTypeOK, TwentyAssumption
    <3>2. calls + Left <= (1 + minutes) * Budget
      BY <3>1 DEF BudgetInv
    <3>3. calls' <= (1 + minutes) * Budget
      BY <2>2, <3>1, <3>2
    <3> QED
      BY <3>1, <3>3 DEF BudgetInv, DrainWithinBudget
  <2> QED
    BY <2>1, <2>2, <1>14 DEF PostFails
<1>15. CASE PostSucceeds
  BY <1>15, TakeKeepsBudget DEF PostSucceeds
<1>16. CASE PostDuplicate
  BY <1>16, TakeKeepsBudget DEF PostDuplicate
<1>17. CASE PatchingEnds
  BY <1>17, RecordedKeepsBudget DEF PatchingEnds
<1>18. CASE FlushEnds
  BY <1>18, DrainOverKeepsBudget DEF FlushEnds
<1>19. ASSUME NEW p \in Persons, Patch(p) PROVE BudgetInv'
  BY <1>19, TakeKeepsBudget DEF Patch
<1>20. ASSUME NEW keep \in BOOLEAN, TwentyAbort(keep) PROVE BudgetInv'
  BY <1>20, DrainOverKeepsBudget DEF TwentyAbort
<1>21. CASE UNCHANGED twentyVars
  BY <1>21, IdleKeepsBudget DEF twentyVars
<1> QED
  BY <1>1, <1>2, <1>3, <1>4, <1>5, <1>6, <1>7, <1>8, <1>9, <1>10, <1>11, <1>12, <1>13,
     <1>14, <1>15, <1>16, <1>17, <1>18, <1>19, <1>20, <1>21
  DEF TwentyNext, Flush, Drain

(* Lookups, batch and patches share the tokens of their drain, which a new   *)
(* minute refills: however the calls end, a drain that has begun n minutes *)
(* makes at most n budgets of them.                                        *)
THEOREM DrainWithinBudgetHolds == TwentySpec => []DrainWithinBudget
<1>1. TwentyInit => BudgetInv
  BY TwentyAssumption, OneMoreBudget
  DEF TwentyAssumption, TwentyInit, BudgetInv, DrainWithinBudget, Left
<1>2. BudgetInv => DrainWithinBudget
  BY DEF BudgetInv
<1>3. TwentyTyped /\ BudgetInv /\ [TwentyNext]_twentyVars => BudgetInv'
  BY BudgetStep
<1> QED
  BY <1>1, <1>2, <1>3, TwentyTypedAlways, PTL DEF TwentySpec

-----------------------------------------------------------------------------
(* Rows and timeline.                                                      *)

(* Without a hand on rows, outcomes and timeline, what they say stays true. *)
LEMMA RowsKept ==
    ASSUME RowsInv, timeline \subseteq timeline',
           rehearsed \subseteq rehearsed', shadowed \subseteq shadowed',
           UNCHANGED <<twentyRow, out>>
    PROVE  RowsInv'
BY DEF RowsInv, SuccessIsOnTimeline, OutcomesHold, Activities

(* Outcomes other than success say nothing of the CRM. *)
LEMMA RowsUnwritten ==
    ASSUME TwentyTyped, RowsInv, UNCHANGED <<twentyRow, rehearsed, shadowed>>,
           timeline \subseteq timeline',
           \A d \in TwentyDeliveries :
               out'[d] \in {"none", "failed", "orphan"} \/ out'[d] = out[d]
    PROVE  RowsInv'
BY DEF RowsInv, SuccessIsOnTimeline, OutcomesHold, Activities, TwentyTyped, TwentyTypeOK

(* A posted batch: what is called written is there or has its exception. *)
LEMMA RowsPosted ==
    ASSUME TwentyTyped, RowsInv, UNCHANGED twentyRow, timeline \subseteq timeline',
           rehearsed \subseteq rehearsed', shadowed \subseteq shadowed',
           ClassifyAll(acts, "written"),
           \A d \in acts :
               Activities(d) \subseteq timeline' \/ d \in rehearsed' \cup shadowed'
    PROVE  RowsInv'
BY DEF RowsInv, SuccessIsOnTimeline, OutcomesHold, Activities, ClassifyAll,
       TwentyTyped, TwentyTypeOK

LEMMA RowsStep == ASSUME TwentyTyped, RowsInv, [TwentyNext]_twentyVars PROVE RowsInv'
<1> USE DEF rowVars, crmVars, pastVars
<1>1. ASSUME NEW d \in TwentyDeliveries, BackoffEnds(d) PROVE RowsInv'
  BY <1>1, RowsKept DEF BackoffEnds
<1>2. ASSUME NEW p \in Persons, Import(p) PROVE RowsInv'
  BY <1>2, RowsKept DEF Import
<1>3. ASSUME NEW p \in Persons, Forget(p) PROVE RowsInv'
  BY <1>3, RowsKept DEF Forget
<1>4. CASE SwitchOff
  BY <1>4, RowsKept DEF SwitchOff
<1>5. CASE GoLive
  BY <1>5, RowsKept DEF GoLive
<1>6. CASE WindowEnds
  BY <1>6, RowsKept DEF WindowEnds
<1>7. CASE FlushThrows
  BY <1>7, RowsUnwritten DEF FlushThrows
<1>8. CASE TwentyTick
  BY <1>8, RowsKept DEF TwentyTick
<1>9. ASSUME NEW ds \in SUBSET TwentyDeliveries, TwentyRefuse(ds) PROVE RowsInv'
  <2>1. /\ UNCHANGED <<timeline, rehearsed, shadowed, out>>
        /\ \A d \in TwentyDeliveries : twentyRow'[d] = "success" => twentyRow[d] = "success"
    BY <1>9 DEF TwentyRefuse
  <2> QED
    BY <2>1 DEF RowsInv, SuccessIsOnTimeline, OutcomesHold, Activities
<1>10. ASSUME NEW d \in TwentyDeliveries, Drop(d) PROVE RowsInv'
  <2>1. UNCHANGED <<twentyRow, timeline, rehearsed, shadowed>>
    BY <1>10 DEF Drop
  <2>2. CASE Milestones[d] = 0 /\ Classify(d, "skipped")
    BY <2>1, <2>2
    DEF Classify, RowsInv, SuccessIsOnTimeline, OutcomesHold, Activities,
        TwentyTyped, TwentyTypeOK
  <2>3. CASE \E o \in {"failed", "orphan"} : Classify(d, o)
    BY <2>1, <2>3, RowsUnwritten DEF Classify, TwentyTyped, TwentyTypeOK
  <2> QED
    BY <1>10, <2>2, <2>3 DEF Drop
<1>11. ASSUME NEW d \in TwentyDeliveries, Resolve(d) PROVE RowsInv'
  BY <1>11, RowsKept DEF Resolve
<1>12. ASSUME NEW d \in TwentyDeliveries, TwentyRecord(d) PROVE RowsInv'
  <2>1. /\ UNCHANGED <<timeline, rehearsed, shadowed>>
        /\ out' = [out EXCEPT ![d] = "none"]
    BY <1>12 DEF TwentyRecord, Classify
  <2>2. ASSUME NEW c \in TwentyDeliveries, twentyRow'[c] = "success"
        PROVE  twentyRow[c] = "success" \/ out[c] \in {"written", "skipped"}
    BY <1>12, <2>2 DEF TwentyRecord, Retry, TwentyTyped, TwentyTypeOK
  <2>3. ASSUME NEW c \in TwentyDeliveries, out[c] = "skipped"
        PROVE  Activities(c) \subseteq timeline
    <3>1. Activities(c) = {}
      BY <2>3, ActivityOf DEF RowsInv, OutcomesHold, TwentyTyped
    <3> QED
      BY <3>1
  <2>4. SuccessIsOnTimeline'
    BY <2>1, <2>2, <2>3 DEF RowsInv, SuccessIsOnTimeline, OutcomesHold, Activities
  <2>5. OutcomesHold'
    BY <2>1 DEF RowsInv, OutcomesHold, Activities, TwentyTyped, TwentyTypeOK
  <2> QED
    BY <2>4, <2>5 DEF RowsInv
<1>13. CASE MappingEnds
  BY <1>13, RowsKept DEF MappingEnds
<1>14. CASE PostFails
  <2>1. timeline \subseteq timeline'
    BY <1>14 DEF PostFails, Written
  <2>2. UNCHANGED <<twentyRow, rehearsed, shadowed>> /\ ClassifyAll(acts, "failed")
    BY <1>14 DEF PostFails
  <2> QED
    BY <2>1, <2>2, RowsUnwritten DEF ClassifyAll
<1>15. CASE PostSucceeds
  <2>1. UNCHANGED <<twentyRow, shadowed>> /\ ClassifyAll(acts, "written")
    BY <1>15 DEF PostSucceeds
  <2>2. /\ timeline \subseteq timeline' /\ rehearsed \subseteq rehearsed'
        /\ acts \subseteq rehearsed' \/ AllActivities(acts) \subseteq timeline'
    BY <1>15 DEF PostSucceeds, Written
  <2>3. \A d \in acts : Activities(d) \subseteq AllActivities(acts)
    BY ActivityOf DEF TwentyTyped, TwentyTypeOK
  <2> QED
    BY <2>1, <2>2, <2>3, RowsPosted
<1>16. CASE PostDuplicate
  <2>1. UNCHANGED <<twentyRow, rehearsed>> /\ ClassifyAll(acts, "written")
    BY <1>16 DEF PostDuplicate
  <2>2. /\ timeline \subseteq timeline' /\ shadowed \subseteq shadowed'
        /\ \A d \in acts : Activities(d) \subseteq timeline' \/ d \in shadowed'
    BY <1>16 DEF PostDuplicate, Written
  <2> QED
    BY <2>1, <2>2, RowsPosted
<1>17. CASE PatchingEnds
  BY <1>17, RowsKept DEF PatchingEnds
<1>18. CASE FlushEnds
  BY <1>18, RowsUnwritten DEF FlushEnds, DrainOver, Nothing
<1>19. ASSUME NEW p \in Persons, Patch(p) PROVE RowsInv'
  BY <1>19, RowsKept DEF Patch
<1>20. ASSUME NEW keep \in BOOLEAN, TwentyAbort(keep) PROVE RowsInv'
  BY <1>20, RowsUnwritten DEF TwentyAbort, DrainOver, Nothing
<1>21. CASE UNCHANGED twentyVars
  BY <1>21, RowsKept DEF twentyVars
<1> QED
  BY <1>1, <1>2, <1>3, <1>4, <1>5, <1>6, <1>7, <1>8, <1>9, <1>10, <1>11, <1>12, <1>13,
     <1>14, <1>15, <1>16, <1>17, <1>18, <1>19, <1>20, <1>21
  DEF TwentyNext, Flush, Drain

-----------------------------------------------------------------------------
(* Losses and duplicates.                                                  *)

LEMMA DueStep ==
    ASSUME TwentyTyped, FlushIsDue, [TwentyNext]_twentyVars
    PROVE  FlushIsDue'
<1> USE DEF TwentyTyped, TwentyTypeOK, FlushIsDue, rowVars, batchVars
<1>1. ASSUME NEW d \in TwentyDeliveries, BackoffEnds(d) PROVE FlushIsDue'
  BY <1>1 DEF BackoffEnds, TwentyUnsettled
<1>2. ASSUME NEW p \in Persons, Import(p) PROVE FlushIsDue'
  BY <1>2 DEF Import
<1>3. ASSUME NEW p \in Persons, Forget(p) PROVE FlushIsDue'
  BY <1>3 DEF Forget
<1>4. CASE SwitchOff
  BY <1>4 DEF SwitchOff
<1>5. CASE GoLive
  BY <1>5 DEF GoLive
<1>6. CASE WindowEnds
  BY <1>6 DEF WindowEnds
<1>7. CASE FlushThrows
  BY <1>7 DEF FlushThrows, Recorded, FlushForgotten
<1>8. CASE TwentyTick
  BY <1>8 DEF TwentyTick
<1>9. ASSUME NEW ds \in SUBSET TwentyDeliveries, TwentyRefuse(ds) PROVE FlushIsDue'
  <2> USE <1>9 DEF TwentyRefuse
  <2> HIDE DEF FlushIsDue
  <2>1. \A d \in twentyDue \ ds : twentyRow'[d] = twentyRow[d]
    OBVIOUS
  <2>2. pc = "idle" /\ UNCHANGED <<pc, todo, acts, out>> /\ twentyDue' = twentyDue \ ds
    OBVIOUS
  <2>3. todo = {} /\ acts = {} /\ \A d \in TwentyDeliveries : out[d] = "none"
    BY <2>2 DEF FlushIsDue
  <2>4. \A d \in twentyDue' : twentyRow'[d] \in TwentyUnsettled
    BY <2>1, <2>2 DEF FlushIsDue
  <2> HIDE DEF TwentyRefuse
  <2> HIDE <1>9
  <2> QED
    BY <2>2, <2>3, <2>4 DEF FlushIsDue
<1>10. ASSUME NEW d \in TwentyDeliveries, Drop(d) PROVE FlushIsDue'
  <2>1. \E o \in {"skipped", "failed", "orphan"} : out' = [out EXCEPT ![d] = o]
    BY <1>10 DEF Drop, Classify
  <2>2. /\ pc = "mapping" /\ d \in twentyDue /\ todo' \subseteq todo
        /\ UNCHANGED <<twentyRow, twentyDue, pc, acts>>
    BY <1>10 DEF Drop
  <2> QED
    BY <2>1, <2>2
<1>11. ASSUME NEW d \in TwentyDeliveries, Resolve(d) PROVE FlushIsDue'
  <2>1. /\ todo' \subseteq todo /\ acts' \subseteq acts \cup {d} /\ d \in todo
        /\ UNCHANGED <<twentyRow, twentyDue, pc, out>>
    BY <1>11 DEF Resolve
  <2> QED
    BY <2>1
<1>12. ASSUME NEW d \in TwentyDeliveries, TwentyRecord(d) PROVE FlushIsDue'
  BY <1>12 DEF TwentyRecord, Retry, Classify
<1>13. CASE MappingEnds
  BY <1>13 DEF MappingEnds, Recorded, FlushForgotten
<1>14. CASE PostFails
  BY <1>14 DEF PostFails, ClassifyAll, Recorded, FlushForgotten
<1>15. CASE PostSucceeds
  BY <1>15 DEF PostSucceeds, ClassifyAll
<1>16. CASE PostDuplicate
  BY <1>16 DEF PostDuplicate, ClassifyAll
<1>17. CASE PatchingEnds
  BY <1>17 DEF PatchingEnds, Recorded, FlushForgotten
<1>18. CASE FlushEnds
  BY <1>18 DEF FlushEnds, DrainOver, FlushForgotten, Nothing
<1>19. ASSUME NEW p \in Persons, Patch(p) PROVE FlushIsDue'
  BY <1>19 DEF Patch
<1>20. ASSUME NEW keep \in BOOLEAN, TwentyAbort(keep) PROVE FlushIsDue'
  BY <1>20 DEF TwentyAbort, DrainOver, FlushForgotten, Nothing
<1>21. CASE UNCHANGED twentyVars
  BY <1>21 DEF twentyVars
<1> HIDE DEF TwentyTyped, FlushIsDue
<1> QED
  BY <1>1, <1>2, <1>3, <1>4, <1>5, <1>6, <1>7, <1>8, <1>9, <1>10, <1>11, <1>12, <1>13,
     <1>14, <1>15, <1>16, <1>17, <1>18, <1>19, <1>20, <1>21
  DEF TwentyNext, Flush, Drain

(* An activity the CRM has belongs to a delivery. *)
LEMMA TimelineNames ==
    ASSUME TwentyTyped
    PROVE  \A a \in timeline : a[1] \in TwentyDeliveries
BY ActivityOf DEF TwentyTyped, TwentyTypeOK

(* What was known of the timeline stays known. *)
LEMMA HeardKept ==
    ASSUME LossInv, FlushIsDue', UNCHANGED <<timeline, shadowed>>, unheard => unheard',
           \A a \in timeline :
               /\ twentyRow[a[1]] = "success" => twentyRow'[a[1]] = "success"
               /\ out[a[1]] = "written" => out'[a[1]] = "written"
    PROVE  LossInv'
BY DEF LossInv, ShadowNeedsLoss, HeardOfAll

(* What is unheard of explains everything. *)
LEMMA UnheardExplains ==
    ASSUME FlushIsDue', unheard'
    PROVE  LossInv'
BY DEF LossInv, ShadowNeedsLoss, HeardOfAll

LEMMA LossStep == ASSUME TwentyTyped, LossInv, [TwentyNext]_twentyVars PROVE LossInv'
<1>0. FlushIsDue'
  BY DueStep DEF LossInv
<1> USE DEF rowVars, crmVars, pastVars
<1>1. ASSUME NEW d \in TwentyDeliveries, BackoffEnds(d) PROVE LossInv'
  BY <1>0, <1>1, HeardKept DEF BackoffEnds
<1>2. ASSUME NEW p \in Persons, Import(p) PROVE LossInv'
  BY <1>0, <1>2, HeardKept DEF Import
<1>3. ASSUME NEW p \in Persons, Forget(p) PROVE LossInv'
  BY <1>0, <1>3, HeardKept DEF Forget
<1>4. CASE SwitchOff
  BY <1>0, <1>4, HeardKept DEF SwitchOff
<1>5. CASE GoLive
  BY <1>0, <1>5, HeardKept DEF GoLive
<1>6. CASE WindowEnds
  BY <1>0, <1>6, HeardKept DEF WindowEnds
<1>7. CASE FlushThrows
  <2>1. \A d \in TwentyDeliveries : out[d] # "written"
    BY <1>7 DEF FlushThrows, LossInv, FlushIsDue
  <2> QED
    BY <1>0, <1>7, <2>1, TimelineNames, HeardKept DEF FlushThrows
<1>8. CASE TwentyTick
  BY <1>0, <1>8, HeardKept DEF TwentyTick
<1>9. ASSUME NEW ds \in SUBSET TwentyDeliveries, TwentyRefuse(ds) PROVE LossInv'
  <2>1. \A d \in TwentyDeliveries : twentyRow[d] = "success" => d \notin ds
    BY <1>9 DEF TwentyRefuse, LossInv, FlushIsDue, TwentyUnsettled
  <2> QED
    BY <1>0, <1>9, <2>1, TimelineNames, HeardKept DEF TwentyRefuse
<1>10. ASSUME NEW d \in TwentyDeliveries, Drop(d) PROVE LossInv'
  <2>1. \A c \in TwentyDeliveries : out[c] # "written"
    BY <1>10 DEF Drop, LossInv, FlushIsDue
  <2> QED
    BY <1>0, <1>10, <2>1, TimelineNames, HeardKept DEF Drop
<1>11. ASSUME NEW d \in TwentyDeliveries, Resolve(d) PROVE LossInv'
  BY <1>0, <1>11, HeardKept DEF Resolve
<1>12. ASSUME NEW d \in TwentyDeliveries, TwentyRecord(d) PROVE LossInv'
  <2>1. twentyRow[d] # "success"
    BY <1>12 DEF TwentyRecord, LossInv, FlushIsDue, TwentyUnsettled
  <2>2. out[d] = "written" => twentyRow'[d] = "success"
    BY <1>12 DEF TwentyRecord, TwentyTyped, TwentyTypeOK
  <2>3. \A c \in TwentyDeliveries \ {d} : twentyRow'[c] = twentyRow[c] /\ out'[c] = out[c]
    BY <1>12 DEF TwentyRecord, Retry, Classify, TwentyTyped, TwentyTypeOK
  <2>4. UNCHANGED <<timeline, shadowed, unheard>>
    BY <1>12 DEF TwentyRecord
  <2> QED
    BY <1>0, <2>1, <2>2, <2>3, <2>4, TimelineNames DEF LossInv, ShadowNeedsLoss, HeardOfAll
<1>13. CASE MappingEnds
  BY <1>0, <1>13, HeardKept DEF MappingEnds
<1>14. CASE PostFails
  <2>1. CASE unheard'
    BY <1>0, <2>1, UnheardExplains
  <2>2. CASE ~unheard'
    <3>0. ASSUME \E as \in SUBSET AllActivities(acts) :
                     Written(as) /\ unheard' = (unheard \/ as # {})
          PROVE  timeline' = timeline /\ ~unheard
      <4>1. PICK as : Written(as) /\ unheard' = (unheard \/ as # {})
        BY <3>0
      <4>2. as = {} /\ ~unheard
        BY <2>2, <4>1
      <4> QED
        BY <4>1, <4>2 DEF Written
    <3>1. UNCHANGED <<timeline, twentyRow, shadowed>> /\ ~unheard
      BY <1>14, <2>2, <3>0 DEF PostFails
    <3>2. \A d \in TwentyDeliveries : out[d] # "written"
      BY <1>14 DEF PostFails, LossInv, FlushIsDue
    <3> QED
      BY <1>0, <3>1, <3>2, TimelineNames, HeardKept
  <2> QED
    BY <2>1, <2>2
<1>15. CASE PostSucceeds
  <2>1. UNCHANGED <<twentyRow, shadowed, unheard>>
    BY <1>15 DEF PostSucceeds
  <2>2. \A d \in TwentyDeliveries : out[d] = "written" \/ d \in acts => out'[d] = "written"
    BY <1>15 DEF PostSucceeds, ClassifyAll
  <2>3. timeline' \subseteq timeline \cup AllActivities(acts)
    BY <1>15 DEF PostSucceeds, Written
  <2>4. \A a \in AllActivities(acts) : a[1] \in acts
    BY ActivityOf DEF TwentyTyped, TwentyTypeOK
  <2>5. acts \subseteq TwentyDeliveries
    BY DEF TwentyTyped, TwentyTypeOK
  <2> QED
    BY <1>0, <2>1, <2>2, <2>3, <2>4, <2>5, TimelineNames
    DEF LossInv, ShadowNeedsLoss, HeardOfAll
<1>16. CASE PostDuplicate
  <2>1. PICK a \in timeline : a \in AllActivities(acts)
    BY <1>16 DEF PostDuplicate
  <2>2. a[1] \in acts /\ acts \subseteq TwentyDeliveries
    BY <2>1, ActivityOf DEF TwentyTyped, TwentyTypeOK
  <2>3. out[a[1]] # "written" /\ twentyRow[a[1]] # "success"
    BY <1>16, <2>2 DEF PostDuplicate, LossInv, FlushIsDue, TwentyUnsettled
  <2>4. unheard /\ unheard' = unheard
    BY <1>16, <2>1, <2>3 DEF PostDuplicate, LossInv, HeardOfAll
  <2> QED
    BY <1>0, <2>4, UnheardExplains
<1>17. CASE PatchingEnds
  BY <1>0, <1>17, HeardKept DEF PatchingEnds
<1>18. CASE FlushEnds
  BY <1>0, <1>18, TimelineNames, HeardKept DEF FlushEnds, DrainOver, Nothing
<1>19. ASSUME NEW p \in Persons, Patch(p) PROVE LossInv'
  BY <1>0, <1>19, HeardKept DEF Patch
<1>20. ASSUME NEW keep \in BOOLEAN, TwentyAbort(keep) PROVE LossInv'
  <2>1. CASE unheard'
    BY <1>0, <2>1, UnheardExplains
  <2>2. CASE ~unheard'
    <3>1. /\ UNCHANGED <<timeline, twentyRow, shadowed>> /\ ~unheard
          /\ \A a \in timeline : out[a[1]] # "written"
      BY <1>20, <2>2 DEF TwentyAbort
    <3> QED
      BY <1>0, <3>1, HeardKept
  <2> QED
    BY <2>1, <2>2
<1>21. CASE UNCHANGED twentyVars
  BY <1>0, <1>21, HeardKept DEF twentyVars
<1> QED
  BY <1>1, <1>2, <1>3, <1>4, <1>5, <1>6, <1>7, <1>8, <1>9, <1>10, <1>11, <1>12, <1>13,
     <1>14, <1>15, <1>16, <1>17, <1>18, <1>19, <1>20, <1>21
  DEF TwentyNext, Flush, Drain

-----------------------------------------------------------------------------
(* The persons.                                                            *)

(* Nobody is asked about and nothing is written. *)
LEMMA PersonsKept ==
    ASSUME PersonsInv, UNCHANGED astray, cache' \subseteq cache, acts' \subseteq acts,
           known \cup gone \subseteq known' \cup gone'
    PROVE  PersonsInv'
BY DEF PersonsInv, TimelineIsKnown, AskedAbout

(* A batch is written. *)
LEMMA PersonsWritten ==
    ASSUME TwentyTyped, PersonsInv, NEW as \in SUBSET AllActivities(acts), Written(as),
           UNCHANGED <<cache, known, gone>>, acts' = {}
    PROVE  PersonsInv'
<1>1. \A a \in as : a[1] \in acts
  BY ActivityOf DEF TwentyTyped, TwentyTypeOK
<1>2. \A a \in as : Who[a[1]] \in known \cup gone
  BY <1>1 DEF PersonsInv, AskedAbout
<1>3. astray' = {}
  BY <1>2 DEF Written, PersonsInv, TimelineIsKnown
<1> QED
  BY <1>3 DEF PersonsInv, TimelineIsKnown, AskedAbout

LEMMA PersonsStep == ASSUME TwentyTyped, PersonsInv, [TwentyNext]_twentyVars PROVE PersonsInv'
<1> USE DEF batchVars, crmVars, cacheVars, pastVars
<1>1. ASSUME NEW d \in TwentyDeliveries, BackoffEnds(d) PROVE PersonsInv'
  BY <1>1, PersonsKept DEF BackoffEnds
<1>2. ASSUME NEW p \in Persons, Import(p) PROVE PersonsInv'
  BY <1>2, PersonsKept DEF Import
<1>3. ASSUME NEW p \in Persons, Forget(p) PROVE PersonsInv'
  BY <1>3, PersonsKept DEF Forget
<1>4. CASE SwitchOff
  BY <1>4, PersonsKept DEF SwitchOff
<1>5. CASE GoLive
  BY <1>5, PersonsKept DEF GoLive
<1>6. CASE WindowEnds
  BY <1>6, PersonsKept DEF WindowEnds
<1>7. CASE FlushThrows
  BY <1>7, PersonsKept DEF FlushThrows, Recorded, FlushForgotten
<1>8. CASE TwentyTick
  BY <1>8, PersonsKept DEF TwentyTick
<1>9. ASSUME NEW ds \in SUBSET TwentyDeliveries, TwentyRefuse(ds) PROVE PersonsInv'
  BY <1>9, PersonsKept DEF TwentyRefuse
<1>10. ASSUME NEW d \in TwentyDeliveries, Drop(d) PROVE PersonsInv'
  <2>1. UNCHANGED <<astray, known, acts>> /\ cache' \subseteq cache
    BY <1>10 DEF Drop
  <2>2. CASE UNCHANGED gone
    BY <2>1, <2>2, PersonsKept
  <2>3. CASE Asks(Who[d]) /\ cache' = cache \ {Who[d]}
    BY <2>1, <2>3 DEF Asks, PersonsInv, TimelineIsKnown, AskedAbout
  <2> QED
    BY <1>10, <2>2, <2>3 DEF Drop
<1>11. ASSUME NEW d \in TwentyDeliveries, Resolve(d) PROVE PersonsInv'
  <2>1. UNCHANGED <<astray, known>> /\ acts' \subseteq acts \cup {d}
    BY <1>11 DEF Resolve
  <2>2. CASE Who[d] \in cache /\ UNCHANGED <<cache, gone>>
    BY <2>1, <2>2 DEF PersonsInv, TimelineIsKnown, AskedAbout
  <2>3. CASE Asks(Who[d]) /\ Found(d) /\ cache' = cache \cup {Who[d]}
    BY <2>1, <2>3 DEF Asks, Found, PersonsInv, TimelineIsKnown, AskedAbout
  <2> QED
    BY <1>11, <2>2, <2>3 DEF Resolve
<1>12. ASSUME NEW d \in TwentyDeliveries, TwentyRecord(d) PROVE PersonsInv'
  BY <1>12, PersonsKept DEF TwentyRecord
<1>13. CASE MappingEnds
  BY <1>13, PersonsKept DEF MappingEnds, Recorded, FlushForgotten
<1>14. CASE PostFails
  <2>1. UNCHANGED <<cache, known, gone>> /\ acts' = {}
    BY <1>14 DEF PostFails, Recorded, FlushForgotten
  <2>2. CASE UNCHANGED astray
    BY <2>1, <2>2, PersonsKept
  <2>3. CASE \E as \in SUBSET AllActivities(acts) : Written(as)
    BY <2>1, <2>3, PersonsWritten
  <2> QED
    BY <1>14, <2>2, <2>3 DEF PostFails
<1>15. CASE PostSucceeds
  <2>1. UNCHANGED <<cache, known, gone>> /\ acts' = {}
    BY <1>15 DEF PostSucceeds
  <2>2. CASE UNCHANGED astray
    BY <2>1, <2>2, PersonsKept
  <2>3. CASE Written(AllActivities(acts))
    BY <2>1, <2>3, PersonsWritten
  <2> QED
    BY <1>15, <2>2, <2>3 DEF PostSucceeds
<1>16. CASE PostDuplicate
  <2>1. UNCHANGED <<cache, known, gone>> /\ acts' = {}
    BY <1>16 DEF PostDuplicate
  <2>2. \E as \in SUBSET AllActivities(acts) : Written(as)
    BY <1>16 DEF PostDuplicate
  <2> QED
    BY <2>1, <2>2, PersonsWritten
<1>17. CASE PatchingEnds
  BY <1>17, PersonsKept DEF PatchingEnds, Recorded, FlushForgotten
<1>18. CASE FlushEnds
  BY <1>18, PersonsKept DEF FlushEnds, DrainOver, FlushForgotten
<1>19. ASSUME NEW p \in Persons, Patch(p) PROVE PersonsInv'
  BY <1>19, PersonsKept DEF Patch
<1>20. ASSUME NEW keep \in BOOLEAN, TwentyAbort(keep) PROVE PersonsInv'
  BY <1>20, PersonsKept DEF TwentyAbort, DrainOver, FlushForgotten
<1>21. CASE UNCHANGED twentyVars
  BY <1>21, PersonsKept DEF twentyVars
<1> QED
  BY <1>1, <1>2, <1>3, <1>4, <1>5, <1>6, <1>7, <1>8, <1>9, <1>10, <1>11, <1>12, <1>13,
     <1>14, <1>15, <1>16, <1>17, <1>18, <1>19, <1>20, <1>21
  DEF TwentyNext, Flush, Drain

(* A row says success only for activities the CRM has, for a dry run, or for *)
(* a batch answered as a duplicate, which some earlier loss explains; and   *)
(* the CRM has no activity of a person it did not know when asked, whatever *)
(* fails between the POST and the rows and however old the cache is.       *)
THEOREM TimelineHoldsAlways == TwentySpec => []TimelineHolds
<1>1. TwentyInit => RowsInv /\ LossInv /\ PersonsInv
  BY DEF TwentyInit, RowsInv, SuccessIsOnTimeline, OutcomesHold, LossInv, FlushIsDue,
         ShadowNeedsLoss, HeardOfAll, PersonsInv, TimelineIsKnown, AskedAbout, Nothing,
         TwentyUnsettled
<1>2. RowsInv /\ LossInv /\ PersonsInv => TimelineHolds
  BY DEF RowsInv, LossInv, PersonsInv, TimelineHolds
<1>3. TwentyTyped /\ RowsInv /\ [TwentyNext]_twentyVars => RowsInv'
  BY RowsStep
<1>4. TwentyTyped /\ LossInv /\ [TwentyNext]_twentyVars => LossInv'
  BY LossStep
<1>5. TwentyTyped /\ PersonsInv /\ [TwentyNext]_twentyVars => PersonsInv'
  BY PersonsStep
<1> QED
  BY <1>1, <1>2, <1>3, <1>4, <1>5, TwentyTypedAlways, PTL DEF TwentySpec
=============================================================================
