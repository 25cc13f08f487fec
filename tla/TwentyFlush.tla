----------------------------- MODULE TwentyFlush -----------------------------
(***************************************************************************)
(* Deliveries to a Twenty CRM (api/src/webhooks): flushTwentyGroup() and   *)
(* scheduleConnectorRetry() of the worker, flushBatch(), resolvePersonId() *)
(* and patchAcquisitions() of TwentyConnectorService, batchTimeline() of   *)
(* TwentyClient, and the token bucket TwentyBudget, one per drain.  A flush *)
(* maps its deliveries one by one, posts the timeline activities as one    *)
(* batch, patches the persons, then records each delivery's row.           *)
(* Activities have deterministic ids: Twenty answers a batch that repeats  *)
(* one with a duplicate error, which the client takes for success.         *)
(***************************************************************************)
EXTENDS Naturals, FiniteSets

CONSTANTS
    TwentyDeliveries,
    Persons,
    Who,          \* identity a delivery is about
    Milestones,   \* number of timeline activities it maps to, 0 to 2
    Signups,      \* deliveries of signup class with a stitched first touch
    BatchSize,    \* activities per POST
    Budget,       \* TWENTY_BUDGET_PER_MIN
    MaxMinutes,   \* bound: minutes a drain may take
    TwentyMaxAttempts,  \* retry_config.max_attempts
    MaxFaults     \* bound: crashes, failed writes and deleted persons of one behaviour

ASSUME TwentyAssumption ==
    /\ Who \in [TwentyDeliveries -> Persons]
    /\ Milestones \in [TwentyDeliveries -> 0..2]
    /\ Signups \subseteq TwentyDeliveries
    /\ BatchSize \in Nat /\ BatchSize >= 2
    /\ Budget \in Nat \ {0} /\ MaxMinutes \in Nat
    /\ TwentyMaxAttempts \in Nat \ {0} /\ MaxFaults \in Nat

VARIABLES
    twentyRow, \* status of a delivery
    twentyAtt, \* its attempt
    twentyDue, \* deliveries whose scheduled_at has come
    active,   \* the webhook is active
    readable, \* decryptSecret() can read its secret
    pc,       \* "idle", "mapping", "posting", "patching", "recording"
    dry,      \* the webhook is in dry run
    todo,     \* deliveries of the flush not mapped yet
    acts,     \* deliveries whose activities go into the batch
    size,     \* number of those activities
    out,      \* outcome of each delivery of the flush, "none" if unclassified
    patches,  \* persons to patch after the batch
    tokens,   \* tokens left in the bucket's window
    over,     \* the window is over, or none was opened: the next token opens one
    calls,    \* tokens taken in this drain
    minutes,  \* windows of this drain that are over
    cache,    \* personCache
    marked,   \* acquisitionPatched
    known,    \* persons Twenty has
    timeline, \* activities Twenty has
    faults,
    \* history
    rehearsed, \* deliveries "written" by a dry run
    shadowed,  \* deliveries not all written, in a batch answered as a duplicate
    unheard,   \* activities were written and no flush got to record it
    gone,      \* persons deleted in Twenty since the connector last asked for them
    astray     \* activities written for a person neither known nor gone

rowVars == <<twentyRow, twentyAtt, twentyDue>>
hookVars == <<active, readable, dry>>
batchVars == <<todo, acts, size, patches>>
budgetVars == <<tokens, over, calls, minutes>>
cacheVars == <<cache, marked>>
crmVars == <<known, timeline, astray>>
pastVars == <<rehearsed, shadowed, unheard, gone>>
twentyVars == <<rowVars, hookVars, pc, batchVars, out, budgetVars, cacheVars, crmVars,
                faults, pastVars>>

TwentyUnsettled == {"pending", "retrying"}
TwentyTerminal == {"success", "failed", "gave_up"}
Activities(d) == {d} \X (1..Milestones[d])
AllActivities(ds) == UNION {Activities(d) : d \in ds}
Outcomes == {"none", "written", "skipped", "orphan", "failed"}
Nothing == [d \in TwentyDeliveries |-> "none"]

TwentyInit ==
    /\ twentyRow = [d \in TwentyDeliveries |-> "pending"]
    /\ twentyAtt = [d \in TwentyDeliveries |-> 1]
    /\ twentyDue = TwentyDeliveries
    /\ active = TRUE /\ readable \in BOOLEAN
    /\ pc = "idle" /\ dry \in BOOLEAN
    /\ todo = {} /\ acts = {} /\ size = 0 /\ out = Nothing /\ patches = {}
    /\ tokens = 0 /\ over = TRUE /\ calls = 0 /\ minutes = 0
    /\ cache = {} /\ marked = {}
    /\ known = {} /\ timeline = {} /\ astray = {}
    /\ faults = 0
    /\ rehearsed = {} /\ shadowed = {} /\ unheard = FALSE /\ gone = {}

-----------------------------------------------------------------------------
(* Around the flush: backoffs end, the import creates persons, somebody      *)
(* deletes one, the operator edits the webhook.  What only a tick reads     *)
(* changes between drains.                                                 *)
BackoffEnds(d) ==
    /\ pc = "idle"
    /\ twentyRow[d] = "retrying" /\ d \notin twentyDue
    /\ twentyDue' = twentyDue \cup {d}
    /\ UNCHANGED <<twentyRow, twentyAtt, hookVars, pc, batchVars, out, budgetVars,
                   cacheVars, crmVars, faults, pastVars>>

Import(p) ==
    /\ p \notin known
    /\ known' = known \cup {p}
    /\ UNCHANGED <<rowVars, hookVars, pc, batchVars, out, budgetVars, cacheVars,
                   timeline, astray, faults, pastVars>>

Forget(p) ==
    /\ p \in known
    /\ faults < MaxFaults
    /\ faults' = faults + 1
    /\ known' = known \ {p}
    /\ gone' = gone \cup {p}
    /\ UNCHANGED <<rowVars, hookVars, pc, batchVars, out, budgetVars, cacheVars,
                   timeline, astray, rehearsed, shadowed, unheard>>

SwitchOff ==
    /\ pc = "idle" /\ active
    /\ active' = FALSE
    /\ UNCHANGED <<rowVars, readable, dry, pc, batchVars, out, budgetVars, cacheVars,
                   crmVars, faults, pastVars>>

GoLive ==
    /\ pc = "idle" /\ dry
    /\ dry' = FALSE
    /\ UNCHANGED <<rowVars, active, readable, pc, batchVars, out, budgetVars, cacheVars,
                   crmVars, faults, pastVars>>

(* drainQueue() and the head of flushTwentyGroup(): the ready rows, a new     *)
(* budget, decryptSecret(), buildClient().  A secret that cannot be read     *)
(* ends the drain before anything is done.                                 *)
TwentyTick ==
    /\ pc = "idle"
    /\ twentyDue # {}
    /\ active /\ readable
    /\ pc' = "mapping"
    /\ todo' = twentyDue
    /\ UNCHANGED <<rowVars, hookVars, acts, size, patches, out, budgetVars, cacheVars,
                   crmVars, faults, pastVars>>

(* An inactive webhook, or one whose URL the SSRF guard refuses, fails all,  *)
(* unless a row write throws half way.                                     *)
TwentyRefuse(ds) ==
    /\ pc = "idle"
    /\ ~active \/ readable
    /\ ds # {} /\ ds \subseteq twentyDue
    /\ IF ds = twentyDue
       THEN UNCHANGED faults
       ELSE faults < MaxFaults /\ faults' = faults + 1
    /\ twentyRow' = [d \in TwentyDeliveries |-> IF d \in ds THEN "failed" ELSE twentyRow[d]]
    /\ twentyDue' = twentyDue \ ds
    /\ UNCHANGED <<twentyAtt, hookVars, pc, batchVars, out, budgetVars, cacheVars,
                   crmVars, pastVars>>

-----------------------------------------------------------------------------
Classify(d, o) == out' = [out EXCEPT ![d] = o]
ClassifyAll(ds, o) == out' = [d \in TwentyDeliveries |-> IF d \in ds THEN o ELSE out[d]]

(* take(): every HTTP call costs a token; a window that is 60 s old is       *)
(* replaced by a new one with all its tokens, inside a drain too.           *)
Left == IF over THEN Budget ELSE tokens

(* Mutant: the token is not used up. *)
TakeForFree ==
    /\ Left > 0
    /\ tokens' = Left
    /\ over' = FALSE
    /\ calls' = calls + 1
    /\ UNCHANGED minutes

Take ==
    /\ Left > 0
    /\ tokens' = Left - 1
    /\ over' = FALSE
    /\ calls' = calls + 1
    /\ UNCHANGED minutes

Free == UNCHANGED budgetVars

WindowEnds ==
    /\ ~over
    /\ minutes < MaxMinutes
    /\ minutes' = minutes + 1
    /\ over' = TRUE
    /\ UNCHANGED <<rowVars, hookVars, pc, batchVars, out, tokens, calls, cacheVars,
                   crmVars, faults, pastVars>>

(* Mutant: an empty answer is taken for a person. *)
FoundAlways(d) == TRUE

(* resolvePerson() answers with a person. *)
Found(d) == Who[d] \in known

(* The connector asks for a person: what was deleted before counts no more,  *)
(* except for activities that are in the batch already.                    *)
Asks(p) == Take /\ gone' = gone \ ({p} \ {Who[d] : d \in acts})

(* What only mapping, posting and patching use is gone with them. *)
FlushForgotten ==
    /\ todo' = {} /\ acts' = {} /\ size' = 0 /\ patches' = {}
    /\ tokens' = 0 /\ over' = TRUE

Recorded == pc' = "recording" /\ FlushForgotten

(* The outcome of a delivery that never gets into the batch: no milestone,  *)
(* a lookup without a token, without a person, or one that throws.         *)
Drop(d) ==
    /\ pc = "mapping" /\ d \in todo
    /\ todo' = todo \ {d}
    /\ \/ Milestones[d] = 0 /\ Classify(d, "skipped") /\ Free /\ UNCHANGED <<cache, gone>>
       \/ /\ Milestones[d] > 0
          /\ cache' = cache \ {Who[d]}
          /\ \/ Left = 0 /\ Classify(d, "failed") /\ Free /\ UNCHANGED gone
             \/ Asks(Who[d]) /\ ~Found(d) /\ Classify(d, "orphan")
             \/ Take /\ Classify(d, "failed") /\ UNCHANGED gone
    /\ UNCHANGED <<rowVars, hookVars, pc, acts, size, patches, marked, crmVars,
                   faults, rehearsed, shadowed, unheard>>

Fits(d) == size + Milestones[d] <= BatchSize

(* The person is in the cache or found; a delivery that does not fit ends    *)
(* the loop and leaves the others for the next tick.                       *)
Resolve(d) ==
    /\ pc = "mapping" /\ d \in todo
    /\ Milestones[d] > 0
    /\ \/ Who[d] \in cache /\ Free /\ UNCHANGED <<cache, gone>>
       \/ Asks(Who[d]) /\ Found(d) /\ cache' = cache \cup {Who[d]}
    /\ IF Fits(d)
       THEN /\ acts' = acts \cup {d}
            /\ size' = size + Milestones[d]
            /\ patches' = IF d \in Signups THEN patches \cup {Who[d]} ELSE patches
            /\ todo' = todo \ {d}
       ELSE todo' = {} /\ UNCHANGED <<acts, size, patches>>
    /\ UNCHANGED <<rowVars, hookVars, pc, out, marked, crmVars, faults,
                   rehearsed, shadowed, unheard>>

MappingEnds ==
    /\ pc = "mapping" /\ todo = {}
    /\ IF acts = {}
       THEN Recorded
       ELSE pc' = "posting" /\ UNCHANGED <<batchVars, tokens, over>>
    /\ UNCHANGED <<rowVars, hookVars, out, calls, minutes, cacheVars, crmVars, faults,
                   pastVars>>

(* flushBatch() throws (the workspace cannot be read, say): the whole group   *)
(* is retried, what was classified included.                               *)
FlushThrows ==
    /\ pc = "mapping" /\ todo # {}
    /\ out' = [d \in TwentyDeliveries |->
                  IF d \in todo \cup acts \/ out[d] # "none" THEN "failed" ELSE "none"]
    /\ Recorded
    /\ UNCHANGED <<rowVars, hookVars, calls, minutes, cacheVars, crmVars, faults, pastVars>>

(* Twenty writes these activities. *)
Written(as) ==
    /\ timeline' = timeline \cup as
    /\ astray' = astray \cup {a \in as : Who[a[1]] \notin known \cup gone}

(* Mutant: the batch counts as written before it is sent. *)
PostFailsWritten ==
    /\ pc = "posting"
    /\ ClassifyAll(acts, "written")
    /\ Recorded
    /\ UNCHANGED <<rowVars, hookVars, calls, minutes, cacheVars, crmVars, faults, pastVars>>

(* batchTimeline(): no token, or an error after Twenty wrote some of it. *)
PostFails ==
    /\ pc = "posting"
    /\ ClassifyAll(acts, "failed")
    /\ \/ Left = 0 /\ UNCHANGED <<calls, timeline, astray, unheard>>
       \/ /\ Left > 0 /\ ~dry
          /\ calls' = calls + 1
          /\ \E as \in SUBSET AllActivities(acts) :
                Written(as) /\ unheard' = (unheard \/ as # {})
    /\ Recorded
    /\ UNCHANGED <<rowVars, hookVars, minutes, cacheVars, known, faults, rehearsed,
                   shadowed, gone>>

(* A dry run writes nothing and succeeds. *)
PostSucceeds ==
    /\ pc = "posting"
    /\ Take
    /\ IF dry
       THEN rehearsed' = rehearsed \cup acts /\ UNCHANGED <<timeline, astray>>
       ELSE Written(AllActivities(acts)) /\ UNCHANGED rehearsed
    /\ ClassifyAll(acts, "written")
    /\ pc' = "patching"
    /\ acts' = {} /\ size' = 0
    /\ UNCHANGED <<rowVars, hookVars, todo, patches, cacheVars, known, faults,
                   shadowed, unheard, gone>>

(* 409, or 400 with "duplicate": an activity of the batch is there already.  *)
(* Whether Twenty wrote the others is not asked; all count as written.     *)
PostDuplicate ==
    /\ pc = "posting" /\ ~dry
    /\ AllActivities(acts) \cap timeline # {}
    /\ Take
    /\ \E as \in SUBSET AllActivities(acts) :
          /\ Written(as)
          /\ shadowed' = shadowed \cup {d \in acts : ~(Activities(d) \subseteq timeline')}
    /\ ClassifyAll(acts, "written")
    /\ pc' = "patching"
    /\ acts' = {} /\ size' = 0
    /\ UNCHANGED <<rowVars, hookVars, todo, patches, cacheVars, known, faults,
                   rehearsed, unheard, gone>>

(* patchAcquisitions(): best effort, stops for want of a token. *)
Patch(p) ==
    /\ pc = "patching" /\ p \in patches \ marked
    /\ Take
    /\ \/ marked' = marked \cup {p}
       \/ ~dry /\ UNCHANGED marked
    /\ patches' = patches \ {p}
    /\ UNCHANGED <<rowVars, hookVars, pc, todo, acts, size, out, cache, crmVars,
                   faults, pastVars>>

PatchingEnds ==
    /\ pc = "patching"
    /\ patches \subseteq marked \/ Left = 0
    /\ Recorded
    /\ UNCHANGED <<rowVars, hookVars, out, calls, minutes, cacheVars, crmVars, faults,
                   pastVars>>

-----------------------------------------------------------------------------
(* Mutant: an orphan is retried without an end. *)
RetryUncounted(d) ==
    /\ twentyRow' = [twentyRow EXCEPT ![d] = "retrying"]
    /\ UNCHANGED twentyAtt

(* scheduleConnectorRetry() *)
Retry(d) ==
    IF twentyAtt[d] + 1 > TwentyMaxAttempts
    THEN twentyRow' = [twentyRow EXCEPT ![d] = "gave_up"] /\ UNCHANGED twentyAtt
    ELSE /\ twentyRow' = [twentyRow EXCEPT ![d] = "retrying"]
         /\ twentyAtt' = [twentyAtt EXCEPT ![d] = @ + 1]

TwentyRecord(d) ==
    /\ pc = "recording"
    /\ out[d] # "none"
    /\ IF out[d] \in {"written", "skipped"}
       THEN twentyRow' = [twentyRow EXCEPT ![d] = "success"] /\ UNCHANGED twentyAtt
       ELSE Retry(d)
    /\ twentyDue' = twentyDue \ {d}
    /\ Classify(d, "none")
    /\ UNCHANGED <<hookVars, pc, batchVars, budgetVars, cacheVars, crmVars, faults,
                   pastVars>>

(* The drain is over, and with it its client, its batch and its budget. *)
DrainOver ==
    /\ pc' = "idle" /\ out' = Nothing
    /\ calls' = 0 /\ minutes' = 0
    /\ FlushForgotten

FlushEnds ==
    /\ pc = "recording" /\ out = Nothing
    /\ DrainOver
    /\ UNCHANGED <<rowVars, hookVars, cacheVars, crmVars, faults, pastVars>>

(* A failing row write ends the drain; a crash also empties the caches, and  *)
(* the process may come back with another encryption key.                  *)
TwentyAbort(keep) ==
    /\ keep => pc # "idle"
    /\ faults < MaxFaults
    /\ faults' = faults + 1
    /\ DrainOver
    /\ unheard' = (unheard \/ \E a \in timeline : out[a[1]] = "written")
    /\ cache' = IF keep THEN cache ELSE {}
    /\ marked' = IF keep THEN marked ELSE {}
    /\ readable' \in (IF keep THEN {readable} ELSE BOOLEAN)
    /\ UNCHANGED <<rowVars, active, dry, crmVars, rehearsed, shadowed, gone>>

-----------------------------------------------------------------------------
Flush ==
    \/ \E d \in TwentyDeliveries : Drop(d) \/ Resolve(d) \/ TwentyRecord(d)
    \/ MappingEnds \/ PostFails \/ PostSucceeds \/ PostDuplicate \/ PatchingEnds
    \/ FlushEnds
    \/ \E p \in Persons : Patch(p)

Drain == TwentyTick \/ \E ds \in SUBSET TwentyDeliveries : TwentyRefuse(ds)

TwentyNext ==
    \/ \E d \in TwentyDeliveries : BackoffEnds(d)
    \/ \E p \in Persons : Import(p) \/ Forget(p)
    \/ SwitchOff \/ GoLive \/ WindowEnds \/ FlushThrows
    \/ Drain
    \/ Flush
    \/ \E keep \in BOOLEAN : TwentyAbort(keep)

TwentySpec == TwentyInit /\ [][TwentyNext]_twentyVars

(* Ticks, requests and timers go on. *)
TwentyFairSpec ==
    /\ TwentySpec
    /\ WF_twentyVars(Flush)
    /\ WF_twentyVars(Drain)
    /\ \A d \in TwentyDeliveries : WF_twentyVars(BackoffEnds(d))

-----------------------------------------------------------------------------
TwentyTypeOK ==
    /\ twentyRow \in [TwentyDeliveries -> TwentyUnsettled \cup TwentyTerminal]
    /\ twentyAtt \in [TwentyDeliveries -> 1..TwentyMaxAttempts]
    /\ twentyDue \in SUBSET TwentyDeliveries
    /\ active \in BOOLEAN /\ readable \in BOOLEAN
    /\ pc \in {"idle", "mapping", "posting", "patching", "recording"} /\ dry \in BOOLEAN
    /\ todo \in SUBSET TwentyDeliveries /\ acts \in SUBSET TwentyDeliveries
    /\ out \in [TwentyDeliveries -> Outcomes]
    /\ patches \in SUBSET Persons /\ size \in 0..BatchSize
    /\ tokens \in 0..Budget /\ over \in BOOLEAN
    /\ calls \in Nat /\ minutes \in 0..MaxMinutes
    /\ cache \in SUBSET Persons /\ marked \in SUBSET Persons /\ known \in SUBSET Persons
    /\ timeline \in SUBSET AllActivities(TwentyDeliveries)
    /\ astray \in SUBSET AllActivities(TwentyDeliveries)
    /\ rehearsed \in SUBSET TwentyDeliveries /\ shadowed \in SUBSET TwentyDeliveries
    /\ unheard \in BOOLEAN /\ gone \in SUBSET Persons
    /\ faults \in 0..MaxFaults

(* "success" is the truth up to two exceptions the code makes on purpose: the *)
(* activities of the delivery are in the CRM, or it had none, or the drain  *)
(* was a dry run, or the batch was answered as a duplicate.                *)
SuccessIsOnTimeline ==
    \A d \in TwentyDeliveries :
        twentyRow[d] = "success" =>
            Activities(d) \subseteq timeline \/ d \in rehearsed \cup shadowed

(* The last exception needs a loss: a delivery is called written without     *)
(* being so only after an earlier batch was written and not recorded.      *)
ShadowNeedsLoss == shadowed # {} => unheard

(* An activity is written only for a person whom Twenty knew when it was     *)
(* last asked, however long the cache answers for it and whoever was       *)
(* deleted since.                                                          *)
TimelineIsKnown == astray = {}

(* The rows and the CRM agree: what is called delivered is there, and       *)
(* nothing is there of somebody the CRM was never asked about.             *)
TimelineHolds == SuccessIsOnTimeline /\ ShadowNeedsLoss /\ TimelineIsKnown

(* Lookups, batch and patches of a drain together take no more than one       *)
(* budget for every minute it has begun.                                   *)
DrainWithinBudget == calls <= (1 + minutes) * Budget

(* Every delivery comes to a final status: one that did not fit into the     *)
(* batch is not left behind by the ones that keep coming back.  Only the    *)
(* secret of an active webhook that cannot be read holds them up.          *)
TwentySettles ==
    \A d \in TwentyDeliveries :
        twentyRow[d] \in TwentyUnsettled
            ~> twentyRow[d] \in TwentyTerminal \/ (active /\ ~readable)

-----------------------------------------------------------------------------
(* Claims of documentation and tests that the code does not keep.          *)

(* "Duplicate of an already-written deterministic id -> replay no-op           *)
(* (exactly-once)": the duplicate error is about the batch, so deliveries   *)
(* that Twenty never wrote become successes with it.                       *)
DuplicateIsNoOp == shadowed = {}
=============================================================================
