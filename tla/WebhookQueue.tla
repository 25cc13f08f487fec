---------------------------- MODULE WebhookQueue ----------------------------
(***************************************************************************)
(* The delivery queue of generic webhooks (api/src/webhooks): rows of      *)
(* webhook_deliveries are enqueued by the dispatcher and by webhooks.test, *)
(* drained by the single leader's WebhookDeliveryWorker, reset by          *)
(* webhooks.deliveries.retry.  Every write inserts a whole row and the     *)
(* last one counts; nothing claims a row before it is sent.  The worker    *)
(* and the two handlers work from the row they read, so the worker's batch *)
(* carries the attempt numbers of its read.                                *)
(*                                                                         *)
(* Unsettled rows are kept in the order of scheduled_at: those due form a  *)
(* prefix, a row queued now goes to its end, a backoff goes behind it.     *)
(***************************************************************************)
EXTENDS Naturals, Sequences

CONSTANTS
    Deliveries,
    Hooks,
    MaxAttempts,   \* upper limit of retry_config.max_attempts
    Limit,         \* batchSize of drainQueue()
    Unreadable,    \* hooks whose stored secret cannot be decrypted
    MaxUpsets,     \* bound: crashes, failed writes, manual retries and edits together
    None

ASSUME QueueAssumption ==
    /\ MaxAttempts \in Nat \ {0}
    /\ Limit \in Nat \ {0}
    /\ Unreadable \subseteq Hooks
    /\ MaxUpsets \in Nat
    /\ None \notin Hooks

VARIABLES
    hook,     \* "active", "inactive" or "deleted"
    max,      \* retry_config.max_attempts
    of,       \* webhook_id of a delivery
    row,      \* its status, "none" before it is enqueued
    att,      \* its attempt
    line,     \* unsettled deliveries by scheduled_at
    due,      \* how many of them are due
    batch,    \* what the worker has left of its read: delivery and attempt
    worker,   \* "idle", "deliver", "sending", "recording"
    limit,    \* max_attempts the worker read for the delivery it sends
    result,   \* outcome of the worker's POST
    tester,   \* webhooks.test per delivery: "no", "sending", "ok", "bad"
    retrying, \* deliveries whose manual retry has read the row
    posts,    \* POSTs made for a delivery
    spare,    \* POSTs its row will never account for
    accepted, \* deliveries some POST of which was answered 2xx
    upsets    \* crashes, failed writes, manual retries and edits so far

config == <<hook, max>>
rows == <<of, row, att, line, due>>
work == <<batch, worker, limit, result>>
handlers == <<tester, retrying>>
ghosts == <<posts, spare, accepted>>
vars == <<config, rows, work, handlers, ghosts, upsets>>

Unsettled == {"pending", "retrying"}
Terminal == {"success", "failed", "gave_up"}
Results == {"ok", "rejected", "blocked", "transient"}

Init ==
    /\ hook = [h \in Hooks |-> "active"]
    /\ max = [h \in Hooks |-> MaxAttempts]
    /\ of = [d \in Deliveries |-> None]
    /\ row = [d \in Deliveries |-> "none"]
    /\ att = [d \in Deliveries |-> 1]
    /\ line = <<>> /\ due = 0
    /\ batch = <<>> /\ worker = "idle" /\ limit = 1 /\ result = "ok"
    /\ tester = [d \in Deliveries |-> "no"]
    /\ retrying = {}
    /\ posts = [d \in Deliveries |-> 0]
    /\ spare = [d \in Deliveries |-> 0]
    /\ accepted = {}
    /\ upsets = 0

-----------------------------------------------------------------------------
(* updateDelivery() and the read order of findReadyDeliveries().           *)
Place(d) == CHOOSE i \in DOMAIN line : line[i] = d
Without(d) ==
    IF \E i \in DOMAIN line : line[i] = d
    THEN SubSeq(line, 1, Place(d) - 1) \o SubSeq(line, Place(d) + 1, Len(line))
    ELSE line
DueWithout(d) == IF \E i \in 1..due : line[i] = d THEN due - 1 ELSE due
At(d, i) == SubSeq(Without(d), 1, i) \o <<d>> \o SubSeq(Without(d), i + 1, Len(Without(d)))

Write(d, status, attempt) ==
    /\ row' = [row EXCEPT ![d] = status]
    /\ att' = [att EXCEPT ![d] = attempt]

Settle(d, status, attempt) ==
    /\ Write(d, status, attempt)
    /\ line' = Without(d)
    /\ due' = DueWithout(d)

QueueNow(d, attempt) ==
    /\ Write(d, "pending", attempt)
    /\ line' = At(d, DueWithout(d))
    /\ due' = DueWithout(d) + 1

QueueLater(d, attempt) ==
    /\ Write(d, "retrying", attempt)
    /\ \E i \in DueWithout(d)..Len(Without(d)) : line' = At(d, i)
    /\ due' = DueWithout(d)

TimePasses ==
    /\ due < Len(line)
    /\ due' = due + 1
    /\ UNCHANGED <<config, of, row, att, line, work, handlers, ghosts, upsets>>

-----------------------------------------------------------------------------
(* dispatchInternal(): one enqueueDelivery() per matching active webhook. *)
Dispatch(d, h) ==
    /\ row[d] = "none"
    /\ hook[h] = "active"
    /\ of' = [of EXCEPT ![d] = h]
    /\ QueueNow(d, 1)
    /\ UNCHANGED <<config, work, handlers, ghosts, upsets>>

(* webhooks.test: the row is enqueued like any other, then sent here.      *)
TestStarts(d, h) ==
    /\ row[d] = "none"
    /\ hook[h] # "deleted"
    /\ of' = [of EXCEPT ![d] = h]
    /\ QueueNow(d, 1)
    /\ tester' = [tester EXCEPT ![d] = "sending"]
    /\ UNCHANGED <<config, work, retrying, ghosts, upsets>>

TestSends(d, ok) ==
    /\ tester[d] = "sending"
    /\ of[d] \notin Unreadable
    /\ tester' = [tester EXCEPT ![d] = IF ok THEN "ok" ELSE "bad"]
    /\ posts' = [posts EXCEPT ![d] = @ + 1]
    /\ spare' = [spare EXCEPT ![d] = @ + 1]
    /\ accepted' = IF ok THEN accepted \cup {d} ELSE accepted
    /\ UNCHANGED <<config, rows, work, retrying, upsets>>

TestRecords(d) ==
    /\ tester[d] \in {"ok", "bad"}
    /\ Settle(d, IF tester[d] = "ok" THEN "success" ELSE "failed", 1)
    /\ tester' = [tester EXCEPT ![d] = "no"]
    /\ spare' = [spare EXCEPT ![d] = posts[d]]
    /\ UNCHANGED <<config, of, work, retrying, posts, accepted, upsets>>

(* The secret cannot be decrypted: the request fails, the row stays. *)
TestThrows(d) ==
    /\ tester[d] = "sending"
    /\ of[d] \in Unreadable
    /\ tester' = [tester EXCEPT ![d] = "no"]
    /\ UNCHANGED <<config, rows, work, retrying, ghosts, upsets>>

(* webhooks.deliveries.retry *)
RetryReads(d) ==
    /\ row[d] \in Terminal
    /\ d \notin retrying
    /\ upsets < MaxUpsets
    /\ upsets' = upsets + 1
    /\ retrying' = retrying \cup {d}
    /\ UNCHANGED <<config, rows, work, tester, ghosts>>

RetryWrites(d) ==
    /\ d \in retrying
    /\ retrying' = retrying \ {d}
    /\ QueueNow(d, 1)
    /\ spare' = [spare EXCEPT ![d] = posts[d]]
    /\ UNCHANGED <<config, of, work, tester, posts, accepted, upsets>>

(* update() and softDelete() of the definition. *)
Edit(h, state, n) ==
    /\ hook[h] # "deleted"
    /\ upsets < MaxUpsets
    /\ upsets' = upsets + 1
    /\ hook' = [hook EXCEPT ![h] = state]
    /\ max' = [max EXCEPT ![h] = n]
    /\ UNCHANGED <<rows, work, handlers, ghosts>>

-----------------------------------------------------------------------------
(* tick() and findReadyDeliveries(). *)
Tick ==
    /\ worker = "idle"
    /\ due > 0
    /\ batch' = [i \in 1..(IF due < Limit THEN due ELSE Limit) |-> <<line[i], att[line[i]]>>]
    /\ worker' = "deliver"
    /\ UNCHANGED <<config, rows, limit, result, handlers, ghosts, upsets>>

Current == Head(batch)[1]
CurrentAttempt == Head(batch)[2]

Proceed ==
    /\ batch' = Tail(batch)
    /\ worker' = IF Len(batch) = 1 THEN "idle" ELSE "deliver"

(* Mutant: the running flag is not reset. *)
AbortRunning == batch' = <<>> /\ worker' = "stuck"

(* An exception leaves drainQueue(): the rest of the batch waits for the    *)
(* next tick.                                                              *)
Abort == batch' = <<>> /\ worker' = "idle"

(* deliverOne(): the definition is read again. *)
Refuse ==
    /\ worker = "deliver"
    /\ hook[of[Current]] # "active"
    /\ Settle(Current, "failed", CurrentAttempt)
    /\ Proceed
    /\ UNCHANGED <<config, of, limit, result, handlers, ghosts, upsets>>

Deliver ==
    /\ worker = "deliver"
    /\ hook[of[Current]] = "active"
    /\ worker' = "sending"
    /\ limit' = max[of[Current]]
    /\ UNCHANGED <<config, rows, batch, result, handlers, ghosts, upsets>>

(* Mutant: the request goes out without its secret. *)
SendUnsigned(r) ==
    /\ worker = "sending"
    /\ worker' = "recording"
    /\ result' = r
    /\ posts' = [posts EXCEPT ![Current] = @ + 1]
    /\ accepted' = IF r = "ok" THEN accepted \cup {Current} ELSE accepted
    /\ UNCHANGED <<config, rows, batch, limit, handlers, spare, upsets>>

(* sendOne(): "blocked" is the SSRF guard, a redirect or a transform error; *)
(* a transient failure (5xx, 429, timeout, network) may reach the endpoint. *)
Send(r) ==
    /\ worker = "sending"
    /\ of[Current] \notin Unreadable
    /\ worker' = "recording"
    /\ result' = r
    /\ posts' = [posts EXCEPT ![Current] = @ + 1]
    /\ accepted' = IF r = "ok" THEN accepted \cup {Current} ELSE accepted
    /\ UNCHANGED <<config, rows, batch, limit, handlers, spare, upsets>>

(* buildHeaders() decrypts the secret outside the try block. *)
SendThrows ==
    /\ worker = "sending"
    /\ of[Current] \in Unreadable
    /\ Abort
    /\ UNCHANGED <<config, rows, limit, result, handlers, ghosts, upsets>>

(* Mutant: the attempt is not counted up. *)
RetryLaterSame == QueueLater(Current, CurrentAttempt)

(* Mutant: the attempt is counted twice. *)
RetryLaterTwice == QueueLater(Current, CurrentAttempt + 2)

RetryLater == QueueLater(Current, CurrentAttempt + 1)

Exhausted == CurrentAttempt + 1 > limit

(* Mutant: everything that was answered counts as a success. *)
OutcomeAnswered ==
    IF result \in {"ok", "rejected"} THEN "success"
    ELSE IF result = "blocked" THEN "failed"
    ELSE IF Exhausted THEN "gave_up" ELSE "retrying"

Outcome ==
    IF result = "ok" THEN "success"
    ELSE IF result \in {"rejected", "blocked"} THEN "failed"
    ELSE IF Exhausted THEN "gave_up" ELSE "retrying"

(* recordOutcome() *)
Record ==
    /\ worker = "recording"
    /\ IF Outcome = "retrying" THEN RetryLater
       ELSE Settle(Current, Outcome, CurrentAttempt)
    /\ Proceed
    /\ UNCHANGED <<config, of, limit, result, handlers, ghosts, upsets>>

Unrecorded == IF worker = "recording" THEN [spare EXCEPT ![Current] = @ + 1] ELSE spare

(* An insert or a query fails under the worker. *)
DrainFails ==
    /\ worker # "idle"
    /\ upsets < MaxUpsets
    /\ upsets' = upsets + 1
    /\ spare' = Unrecorded
    /\ Abort
    /\ UNCHANGED <<config, rows, limit, result, handlers, posts, accepted>>

(* The process dies and comes back. *)
Crash ==
    /\ upsets < MaxUpsets
    /\ upsets' = upsets + 1
    /\ spare' = Unrecorded
    /\ Abort
    /\ tester' = [d \in Deliveries |-> "no"]
    /\ retrying' = {}
    /\ UNCHANGED <<config, rows, limit, result, posts, accepted>>

-----------------------------------------------------------------------------
Work == Refuse \/ Deliver \/ (\E r \in Results : Send(r)) \/ SendThrows \/ Record

Next ==
    \/ \E d \in Deliveries, h \in Hooks : Dispatch(d, h) \/ TestStarts(d, h)
    \/ \E d \in Deliveries :
          \/ \E ok \in BOOLEAN : TestSends(d, ok)
          \/ TestRecords(d) \/ TestThrows(d) \/ RetryReads(d) \/ RetryWrites(d)
    \/ \E h \in Hooks, state \in {"active", "inactive", "deleted"}, n \in 1..MaxAttempts :
          Edit(h, state, n)
    \/ Tick \/ Work \/ TimePasses \/ DrainFails \/ Crash

Spec == Init /\ [][Next]_vars

(* The interval fires every ten seconds, requests settle (they time out),   *)
(* backoffs end.                                                           *)
FairSpec == Spec /\ WF_vars(Tick) /\ WF_vars(Work) /\ WF_vars(TimePasses)

-----------------------------------------------------------------------------
TypeOK ==
    /\ hook \in [Hooks -> {"active", "inactive", "deleted"}]
    /\ max \in [Hooks -> 1..MaxAttempts]
    /\ of \in [Deliveries -> Hooks \cup {None}]
    /\ row \in [Deliveries -> {"none"} \cup Unsettled \cup Terminal]
    /\ att \in [Deliveries -> 1..MaxAttempts]
    /\ line \in Seq(Deliveries) /\ due \in 0..Len(line)
    /\ batch \in Seq(Deliveries \X (1..MaxAttempts))
    /\ worker \in {"idle", "deliver", "sending", "recording"}
    /\ limit \in 1..MaxAttempts
    /\ result \in Results
    /\ tester \in [Deliveries -> {"no", "sending", "ok", "bad"}]
    /\ retrying \in SUBSET Deliveries
    /\ posts \in [Deliveries -> Nat] /\ spare \in [Deliveries -> Nat]
    /\ accepted \in SUBSET Deliveries
    /\ upsets \in 0..MaxUpsets

(* Whoever wrote the row last, worker, test handler or manual retry, in any  *)
(* order: "success" is never recorded for a delivery the endpoint has not  *)
(* answered with 2xx.                                                      *)
SuccessWasAccepted ==
    \A d \in Deliveries : row[d] = "success" => d \in accepted

Recording(d) == worker = "recording" /\ Current = d

(* How often a delivery is POSTed at most: once per attempt of its row, plus *)
(* once for every crash, failed write and test, and anew after a manual    *)
(* retry.  Nothing else repeats a POST.                                    *)
PostsAccounted ==
    \A d \in Deliveries :
        posts[d] <= spare[d] + (IF row[d] \in Unsettled THEN att[d] - 1 ELSE att[d])
                    + (IF Recording(d) THEN 1 ELSE 0)

(* A delivery is given up, or waits for a later attempt, only after all the  *)
(* attempts before were made.                                              *)
NoAttemptSkipped ==
    \A d \in Deliveries :
        /\ row[d] = "gave_up" => posts[d] >= att[d]
        /\ row[d] = "retrying" => posts[d] >= att[d] - 1 /\ att[d] > 1

(* A webhook whose secret cannot be decrypted is never called without it.    *)
NeverUnsigned ==
    \A d \in Deliveries : of[d] \in Unreadable => posts[d] = 0 /\ row[d] \notin {"success", "gave_up"}

(* attempt, posts and status agree: no POST is repeated, skipped or sent     *)
(* unsigned without a recorded reason.                                     *)
AttemptsAccounted == PostsAccounted /\ NoAttemptSkipped /\ NeverUnsigned

(* A delivery whose secret cannot be decrypted is in the queue. *)
Blocked == \E d \in Deliveries : of[d] \in Unreadable /\ row[d] \in Unsettled

(* Every queued delivery comes to a final status, whatever order the queue   *)
(* is drained in and whatever fails on the way; only a queued delivery whose *)
(* secret cannot be read can hold it up.                                   *)
Settles == \A d \in Deliveries : row[d] \in Unsettled ~> row[d] \in Terminal \/ Blocked

-----------------------------------------------------------------------------
(* Claims of documentation that the code does not keep.                    *)

(* "pushes each ready row to its destination": a webhook whose secret cannot *)
(* be read does not keep the others waiting.                               *)
OthersSettle ==
    \A d \in Deliveries :
        row[d] \in Unsettled /\ of[d] \notin Unreadable ~> row[d] \in Terminal
=============================================================================
