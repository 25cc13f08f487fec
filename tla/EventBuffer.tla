----------------------------- MODULE EventBuffer -----------------------------
(***************************************************************************)
(* EventBufferService (api/src/events/event-buffer.service.ts): one        *)
(* in-memory buffer per workspace between the HTTP handlers (and the VoIP  *)
(* sync) and ClickHouse.  Node runs one callback at a time, so every       *)
(* stretch of code between two awaits is one action; the ClickHouse insert *)
(* is started by one action and settled by another, and every other action *)
(* may happen in between.                                                  *)
(***************************************************************************)
EXTENDS Naturals, Sequences, FiniteSets

CONSTANTS
    Workspaces,      \* the workspaces with a buffer
    Callers,         \* concurrent addBatch() calls: requests and VoIP syncs
    MaxBufferSize,   \* MAX_BUFFER_SIZE, 500 in the code
    MaxRetained,     \* maxRetainedEvents, 50 000 unless the ENV overrides it
    MaxBatch,        \* bound: events of one addBatch() call
    MaxEvents        \* bound: events offered in one behaviour

ASSUME BufferAssumption ==
    /\ MaxBufferSize \in Nat \ {0}
    /\ MaxRetained \in Nat \ {0}
    /\ MaxBatch \in Nat
    /\ MaxEvents \in Nat

VARIABLES
    buffer,          \* buffers: workspace -> events waiting
    timer,           \* flushTimers.has(workspace)
    flushing,        \* flushingWorkspaces
    inflight,        \* eventsToFlush of the insert under way, <<>> if none
    droppedEvents,   \* the overflow counter
    caller,          \* where each addBatch() call stands
    stage,           \* life of the process, see Destroy
    closing,         \* workspaces whose flush onModuleDestroy awaits
    offered,         \* events offered so far (names the next one)
    accepted,        \* history: the events pushed to each buffer, in order
    fate,            \* history: what became of the oldest accepted events
    stored,          \* the events table of each workspace (ClickHouse)
    requeued,        \* history: the buffer starts with events whose insert failed
    due,             \* history: accepted events when onModuleDestroy() began
    busy             \* history: workspaces with an insert under way at that point

bufferVars == <<buffer, timer, flushing, inflight, droppedEvents>>
shutdownVars == <<due, busy>>
historyVars == <<accepted, fate, stored, requeued, shutdownVars>>
vars == <<bufferVars, caller, stage, closing, offered, historyVars>>

Events == 1..MaxEvents

Idle == [pc |-> "idle"]

(* A call inside addBatch(): "adding" between two add()s, "awaiting" the    *)
(* insert its add() or its flush() started.  `sync` is set for a VoIP sync, *)
(* which flushes the workspace after its addBatch().                       *)
CallerStates ==
    {Idle} \cup [pc : {"adding", "awaiting"}, ws : Workspaces,
                 left : Seq(Events), sync : BOOLEAN]

Running == stage \in {"up", "closing"}

Init ==
    /\ buffer = [w \in Workspaces |-> <<>>]
    /\ timer = [w \in Workspaces |-> FALSE]
    /\ flushing = {}
    /\ inflight = [w \in Workspaces |-> <<>>]
    /\ droppedEvents = 0
    /\ caller = [c \in Callers |-> Idle]
    /\ stage = "up"
    /\ closing = {}
    /\ offered = 0
    /\ accepted = [w \in Workspaces |-> <<>>]
    /\ fate = [w \in Workspaces |-> <<>>]
    /\ stored = [w \in Workspaces |-> {}]
    /\ requeued = [w \in Workspaces |-> FALSE]
    /\ due = [w \in Workspaces |-> 0]
    /\ busy = {}

-----------------------------------------------------------------------------
(* Mutant: the test on flushingWorkspaces is dropped. *)
FlushStartsUnlocked(w, b) == b # <<>>

(* flush() up to its await, entered with the buffer of w holding b: the     *)
(* timer is cleared first, even when the early return follows.             *)
FlushStarts(w, b) == b # <<>> /\ w \notin flushing

Flush(w, b) ==
    /\ timer' = [timer EXCEPT ![w] = FALSE]
    /\ IF FlushStarts(w, b)
       THEN /\ flushing' = flushing \cup {w}
            /\ inflight' = [inflight EXCEPT ![w] = b]
            /\ buffer' = [buffer EXCEPT ![w] = <<>>]
            /\ requeued' = [requeued EXCEPT ![w] = FALSE]
       ELSE /\ buffer' = [buffer EXCEPT ![w] = b]
            /\ UNCHANGED <<flushing, inflight, requeued>>

(* Mutant: no timer is armed while a flush is under way, so the catch block *)
(* arms none either.                                                       *)
StartFlushTimerUnlessFlushing(w) ==
    IF w \in flushing THEN timer ELSE [timer EXCEPT ![w] = TRUE]

(* startFlushTimer(): a timer that is running is left alone. *)
StartFlushTimer(w) == [timer EXCEPT ![w] = TRUE]

-----------------------------------------------------------------------------
(* addBatch() with n events of one workspace, as every caller passes them. *)
BeginBatch(c, w, n, sync) ==
    /\ Running
    /\ caller[c] = Idle
    /\ offered + n <= MaxEvents
    /\ caller' = [caller EXCEPT ![c] =
                    [pc |-> "adding", ws |-> w,
                     left |-> [i \in 1..n |-> offered + i], sync |-> sync]]
    /\ offered' = offered + n
    /\ UNCHANGED <<bufferVars, stage, closing, historyVars>>

(* add(): push, start the timer on the first event, flush a full buffer.   *)
(* The call awaits the flush only if the flush really started.             *)
Add(c) ==
    /\ Running
    /\ caller[c].pc = "adding"
    /\ caller[c].left # <<>>
    /\ LET w == caller[c].ws
           e == Head(caller[c].left)
           b == Append(buffer[w], e)
           full == Len(b) >= MaxBufferSize
       IN  /\ accepted' = [accepted EXCEPT ![w] = Append(@, e)]
           /\ caller' = [caller EXCEPT
                 ![c].left = Tail(@),
                 ![c].pc = IF full /\ FlushStarts(w, b) THEN "awaiting" ELSE @]
           /\ IF full
              THEN Flush(w, b)
              ELSE /\ buffer' = [buffer EXCEPT ![w] = b]
                   /\ timer' = IF Len(b) = 1 THEN StartFlushTimer(w) ELSE timer
                   /\ UNCHANGED <<flushing, inflight, requeued>>
    /\ UNCHANGED <<droppedEvents, stage, closing, offered, fate, stored,
                   shutdownVars>>

(* The end of addBatch(); a VoIP sync goes on with flush(workspaceId).     *)
EndBatch(c) ==
    /\ Running
    /\ caller[c].pc = "adding"
    /\ caller[c].left = <<>>
    /\ LET w == caller[c].ws
       IN  IF caller[c].sync
           THEN /\ Flush(w, buffer[w])
                /\ caller' = [caller EXCEPT ![c] =
                      IF FlushStarts(w, buffer[w])
                      THEN [@ EXCEPT !.pc = "awaiting", !.sync = FALSE]
                      ELSE Idle]
           ELSE /\ caller' = [caller EXCEPT ![c] = Idle]
                /\ UNCHANGED <<timer, buffer, flushing, inflight, requeued>>
    /\ UNCHANGED <<droppedEvents, stage, closing, offered, accepted, fate,
                   stored, shutdownVars>>

(* The callback of the flush timer. *)
TimerFires(w) ==
    /\ Running
    /\ timer[w]
    /\ Flush(w, buffer[w])
    /\ UNCHANGED <<droppedEvents, caller, stage, closing, offered,
                   accepted, fate, stored, shutdownVars>>

-----------------------------------------------------------------------------
(* Mutant: the call whose last event filled the buffer is not resumed. *)
AwaitingMoreToAdd(w) == {c \in Callers :
    caller[c].pc = "awaiting" /\ caller[c].ws = w /\ caller[c].left # <<>>}

(* The calls resumed when the insert of w settles. *)
Awaiting(w) == {c \in Callers :
    caller[c].pc = "awaiting" /\ caller[c].ws = w}

(* Mutant: Promise.race for Promise.all. *)
DestroyResumesAtFirst(w, outcome) ==
    /\ closing' = closing \ {w}
    /\ stage' = CASE w \in closing /\ outcome = "failed" -> "aborted"
                  [] w \in closing /\ outcome = "ok" -> "closed"
                  [] OTHER -> stage

(* onModuleDestroy() returns when every flush it awaits has settled. *)
DestroyResumes(w, outcome) ==
    /\ closing' = closing \ {w}
    /\ stage' = CASE w \in closing /\ outcome = "failed" -> "aborted"
                  [] w \in closing /\ outcome = "ok" /\ closing = {w} -> "closed"
                  [] OTHER -> stage

(* insertWorkspace() resolves: the rows are in the events table. *)
InsertSucceeds(w) ==
    /\ Running
    /\ w \in flushing
    /\ stored' = [stored EXCEPT ![w] =
                    @ \cup {inflight[w][i] : i \in 1..Len(inflight[w])}]
    /\ fate' = [fate EXCEPT ![w] = @ \o [i \in 1..Len(inflight[w]) |-> "stored"]]
    /\ inflight' = [inflight EXCEPT ![w] = <<>>]
    /\ flushing' = flushing \ {w}
    /\ caller' = [c \in Callers |->
                    IF c \in Awaiting(w) THEN [caller[c] EXCEPT !.pc = "adding"]
                                         ELSE caller[c]]
    /\ DestroyResumes(w, "ok")
    /\ UNCHANGED <<buffer, timer, droppedEvents, offered, accepted, requeued,
                   shutdownVars>>

(* Mutants: the failed events go to the back of the buffer; the cap looks   *)
(* at the failed events only; the drops are not counted, or with the wrong *)
(* sign.                                                                   *)
MergedAtBack(w) == buffer[w] \o inflight[w]
OverflowOfFailed(w) == IF Len(inflight[w]) > MaxRetained
                       THEN Len(inflight[w]) - MaxRetained ELSE 0

(* The events the catch block keeps and how many of the oldest it drops. *)
Merged(w) == inflight[w] \o buffer[w]
Overflow(w) == IF Len(Merged(w)) > MaxRetained
               THEN Len(Merged(w)) - MaxRetained ELSE 0
Kept(w) == SubSeq(Merged(w), Overflow(w) + 1, Len(Merged(w)))

CountDropsForgotten(w) == droppedEvents
CountDrops(w) == droppedEvents + Overflow(w)

(* insertWorkspace() rejects; `written` tells whether ClickHouse had        *)
(* written the block before the answer was lost (external).  The batch     *)
(* whose add() awaited the flush is abandoned: its other events are never  *)
(* added.                                                                  *)
InsertFails(w, written) ==
    /\ Running
    /\ w \in flushing
    /\ stored' = IF written
                 THEN [stored EXCEPT ![w] =
                         @ \cup {inflight[w][i] : i \in 1..Len(inflight[w])}]
                 ELSE stored
    /\ fate' = [fate EXCEPT ![w] = @ \o [i \in 1..Overflow(w) |-> "dropped"]]
    /\ droppedEvents' = CountDrops(w)
    /\ buffer' = [buffer EXCEPT ![w] = Kept(w)]
    /\ timer' = StartFlushTimer(w)
    /\ inflight' = [inflight EXCEPT ![w] = <<>>]
    /\ flushing' = flushing \ {w}
    /\ requeued' = [requeued EXCEPT ![w] = TRUE]
    /\ caller' = [c \in Callers |->
                    IF c \in Awaiting(w) THEN Idle ELSE caller[c]]
    /\ DestroyResumes(w, "failed")
    /\ UNCHANGED <<offered, accepted, shutdownVars>>

-----------------------------------------------------------------------------
(* onModuleDestroy(): stop every timer, flush every buffer, await them.     *)
(* The HTTP server closes only after the hook, so requests still arrive.   *)
Destroy ==
    /\ stage = "up"
    /\ LET started == {w \in Workspaces : FlushStarts(w, buffer[w])}
       IN  /\ timer' = [w \in Workspaces |-> FALSE]
           /\ flushing' = flushing \cup started
           /\ inflight' = [w \in Workspaces |->
                             IF w \in started THEN buffer[w] ELSE inflight[w]]
           /\ buffer' = [w \in Workspaces |->
                           IF w \in started THEN <<>> ELSE buffer[w]]
           /\ requeued' = [w \in Workspaces |->
                             IF w \in started THEN FALSE ELSE requeued[w]]
           /\ closing' = started
           /\ stage' = IF started = {} THEN "closed" ELSE "closing"
    /\ due' = [w \in Workspaces |-> Len(accepted[w])]
    /\ busy' = flushing
    /\ UNCHANGED <<droppedEvents, caller, offered, accepted, fate, stored>>

InsertSettles(w) == InsertSucceeds(w) \/ \E written \in BOOLEAN : InsertFails(w, written)

Next ==
    \/ \E c \in Callers, w \in Workspaces, n \in 1..MaxBatch, sync \in BOOLEAN :
          BeginBatch(c, w, n, sync)
    \/ \E c \in Callers : Add(c)
    \/ \E c \in Callers : EndBatch(c)
    \/ \E w \in Workspaces : TimerFires(w)
    \/ \E w \in Workspaces : InsertSettles(w)
    \/ Destroy

Spec == Init /\ [][Next]_vars

(* A timer that is armed fires, a request that is running goes on, and the  *)
(* ClickHouse client settles every insert (its request timeout).           *)
Fairness ==
    /\ \A c \in Callers : WF_vars(Add(c)) /\ WF_vars(EndBatch(c))
    /\ \A w \in Workspaces : WF_vars(TimerFires(w)) /\ WF_vars(InsertSettles(w))

FairSpec == Spec /\ Fairness

-----------------------------------------------------------------------------
TypeOK ==
    /\ buffer \in [Workspaces -> Seq(Events)]
    /\ timer \in [Workspaces -> BOOLEAN]
    /\ flushing \in SUBSET Workspaces
    /\ inflight \in [Workspaces -> Seq(Events)]
    /\ droppedEvents \in Nat
    /\ caller \in [Callers -> CallerStates]
    /\ stage \in {"up", "closing", "closed", "aborted"}
    /\ closing \in SUBSET Workspaces
    /\ offered \in Nat
    /\ accepted \in [Workspaces -> Seq(Events)]
    /\ fate \in [Workspaces -> Seq({"stored", "dropped"})]
    /\ stored \in [Workspaces -> SUBSET Events]
    /\ requeued \in [Workspaces -> BOOLEAN]
    /\ due \in [Workspaces -> Nat]
    /\ busy \in SUBSET Workspaces

(* The events of a workspace form one pipeline: the accepted events are, in *)
(* order, those whose fate is settled, those in flight and those buffered. *)
(* flush() neither loses, nor duplicates, nor reorders an event, whatever  *)
(* is added while its insert is under way and however the insert ends.     *)
InPipeline(acc, settled, flight, waiting, table) ==
    /\ Len(acc) = Len(settled) + Len(flight) + Len(waiting)
    /\ \A i \in 1..Len(flight) : flight[i] = acc[Len(settled) + i]
    /\ \A i \in 1..Len(waiting) : waiting[i] = acc[Len(settled) + Len(flight) + i]
    /\ \A i \in 1..Len(settled) : settled[i] = "stored" => acc[i] \in table

Pipeline ==
    \A w \in Workspaces :
        InPipeline(accepted[w], fate[w], inflight[w], buffer[w], stored[w])

(* The events of w the process still holds. *)
Held(w) == {Merged(w)[i] : i \in 1..Len(Merged(w))}

(* Every accepted event the process no longer holds and ClickHouse does not *)
(* have was counted in droppedEvents: no event disappears silently.        *)
LossIsCounted ==
    Cardinality(UNION {{accepted[w][i] : i \in 1..Len(accepted[w])}
                         \ (stored[w] \cup Held(w)) : w \in Workspaces})
        <= droppedEvents

(* flushingWorkspaces is a lock: an insert is under way exactly for its     *)
(* members, a call and the shutdown hook await only inserts under way, and *)
(* no two calls, nor a call and the hook, await the same one.              *)
SingleFlight ==
    /\ closing \subseteq flushing
    /\ \A w \in Workspaces : w \in flushing <=> inflight[w] # <<>>
    /\ \A w \in Workspaces : Awaiting(w) # {} => w \in flushing
    /\ \A w \in Workspaces : \A c, d \in Awaiting(w) : c = d
    /\ \A w \in Workspaces : w \in closing => Awaiting(w) = {}

(* Events whose insert failed are never stranded: while they wait, their    *)
(* flush timer is armed, through shutdown too, and no insert is under way  *)
(* that would make the timer's flush() a no-op.                            *)
RequeuedHasTimer ==
    \A w \in Workspaces : requeued[w] => timer[w] /\ w \notin flushing

(* After a failed insert the buffer stays within the retention cap, or below *)
(* the size that triggers a flush if the cap is smaller than that.          *)
RequeuedIsBounded ==
    \A w \in Workspaces : requeued[w] =>
        Len(buffer[w]) <= MaxRetained \/ Len(buffer[w]) < MaxBufferSize

(* The retention after a failed insert: what waits is bounded, and whatever *)
(* the bound costs is counted.                                             *)
RetentionKept == LossIsCounted /\ RequeuedIsBounded

(* onModuleDestroy() finishes only when every event accepted before it was  *)
(* settled, for the workspaces that had no insert under way when it began. *)
ShutdownFlushesIdle ==
    stage = "closed" =>
        \A w \in Workspaces \ busy : Len(fate[w]) >= due[w]

(* EventLog is what the ingestion promises: per workspace a log that only   *)
(* grows, whose events are settled in order of arrival, each exactly once. *)
(* The log is read off the buffers themselves, so a step that loses,       *)
(* duplicates or reorders an event is not a step of EventLog.              *)
Log == [w \in Workspaces |->
          SubSeq(accepted[w], 1, Len(fate[w])) \o inflight[w] \o buffer[w]]

EL == INSTANCE EventLog WITH log <- Log, fate <- fate
ImplementsEventLog == EL!Spec

(* No addBatch() call hangs: it returns, or the process is over. *)
CallsReturn == \A c \in Callers : caller[c] # Idle ~> (caller[c] = Idle \/ ~Running)

(* Events put back after a failed insert are tried again. *)
RequeuedIsRetried ==
    \A w \in Workspaces : requeued[w] ~> (~requeued[w] \/ ~Running)

(* The buffer goes on: addBatch() returns however its flush ends, and the   *)
(* timer armed by a failed insert leads to another one.                    *)
Progress == CallsReturn /\ RequeuedIsRetried

-----------------------------------------------------------------------------
(* Claims of the documentation that the code does not keep.                *)

(* "Time-based: 2 seconds elapsed with pending events" triggers a flush     *)
(* (docs/data-flow-architecture.md): buffered events always reach an       *)
(* insert.  A timer that fires while an insert is under way is spent on    *)
(* the early return of flush(), and only the first event of a buffer arms  *)
(* a new one.                                                              *)
PendingIsFlushed ==
    \A w \in Workspaces :
        buffer[w] # <<>> ~> (buffer[w] = <<>> \/ ~Running)
=============================================================================
