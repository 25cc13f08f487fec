---------------------------- MODULE BackfillTasks ----------------------------
(***************************************************************************)
(* Filter backfills (api/src/filters/backfill): FilterBackfillService and  *)
(* FilterBackfillProcessor.  A task has one row in backfill_tasks, a       *)
(* ReplacingMergeTree: every write inserts the whole row, status included, *)
(* and the last one counts.  In memory a task is a chain of awaits; one    *)
(* action here is what happens between two of them.  The other writers of  *)
(* the row are cancelTask(), the shutdown hook and the recovery at start.  *)
(* Inserts take effect in the order of their updated_at stamps.            *)
(***************************************************************************)
EXTENDS Naturals, FiniteSets

CONSTANTS
    Tasks,        \* startBackfill() calls of one behaviour
    Workspaces,
    Lookback,     \* lookback_days: the days whose events are rewritten
    ChunkSize,    \* chunk_size_days
    MaxRestarts,  \* bound: crashes and shutdowns of one behaviour
    None

ASSUME BackfillAssumption ==
    /\ Lookback \in Nat \ {0}
    /\ ChunkSize \in Nat \ {0}
    /\ MaxRestarts \in Nat
    /\ None \notin Tasks \cup Workspaces

VARIABLES
    row,        \* status of the row in force, "none" before the first
    ws,         \* workspace of the task
    pc,         \* where the task stands in memory
    mem,        \* status field of the in-memory task, spread into progress rows
    cancelled,  \* processor.cancelled
    lock,       \* workspaceLocks: the task whose promise is in the map
    waitsFor,   \* the lock promise a task awaits or awaited, None if it found none
    todo,       \* chunk dates not started yet
    rewritten,  \* days whose events the task has rewritten
    verdict,    \* status the task is about to write
    cancelRead, \* what a cancelTask() between its read and its write has found
    hookRead,   \* the same of the shutdown hook
    stage,      \* "up", "stopping" (onModuleDestroy), "down"
    toStop,     \* processors the shutdown hook may yet visit: it iterates the live map
    restarts    \* restarts so far

taskVars == <<row, ws, pc, mem, cancelled, waitsFor, todo, rewritten, verdict>>
writerVars == <<cancelRead, hookRead>>
vars == <<taskVars, lock, writerVars, stage, toStop, restarts>>

Active == {"pending", "running"}
Terminal == {"completed", "failed", "cancelled"}

(* Program points: "inside" the lock are counting, chunks, mutating and     *)
(* progress; a processor exists from "waiting" to "closing".               *)
InsideLock == {"counting", "chunks", "mutating", "progress"}
HasProcessor == InsideLock \cup {"waiting", "closing"}

(* What a reader of the row finds, as far as it matters to who writes next. *)
Found(t) == IF row[t] \in Active THEN "open" ELSE "settled"

Inside(t) == pc[t] \in InsideLock
Live(t) == pc[t] \in HasProcessor
Serving == stage \in {"up", "stopping"}

Days == 1..Lookback

(* generateDateChunks(): from the first day, every ChunkSize days. *)
ChunkDates == {d \in Days : (d - 1) % ChunkSize = 0}

Init ==
    /\ row = [t \in Tasks |-> "none"]
    /\ ws = [t \in Tasks |-> None]
    /\ pc = [t \in Tasks |-> "unused"]
    /\ mem = [t \in Tasks |-> "pending"]
    /\ cancelled = [t \in Tasks |-> FALSE]
    /\ lock = [w \in Workspaces |-> None]
    /\ waitsFor = [t \in Tasks |-> None]
    /\ todo = [t \in Tasks |-> {}]
    /\ rewritten = [t \in Tasks |-> {}]
    /\ verdict = [t \in Tasks |-> "none"]
    /\ cancelRead = [t \in Tasks |-> "none"]
    /\ hookRead = [t \in Tasks |-> "none"]
    /\ stage = "up"
    /\ toStop = {}
    /\ restarts = 0

-----------------------------------------------------------------------------
(* startBackfill(): the conflict check, then the insert and the setTimeout.  *)
(* An insert that throws may have taken effect, here and below.             *)
StartChecks(t, w) ==
    /\ Serving
    /\ pc[t] = "unused"
    /\ ~ \E u \in Tasks : ws[u] = w /\ row[u] \in Active
    /\ pc' = [pc EXCEPT ![t] = "checked"]
    /\ ws' = [ws EXCEPT ![t] = w]
    /\ UNCHANGED <<row, mem, cancelled, lock, waitsFor, todo, rewritten, verdict,
                   writerVars, stage, toStop, restarts>>

StartInserts(t) ==
    /\ Serving
    /\ pc[t] = "checked"
    /\ row' = [row EXCEPT ![t] = "pending"]
    /\ pc' = [pc EXCEPT ![t] = "spawned"]
    /\ UNCHANGED <<ws, mem, cancelled, lock, waitsFor, todo, rewritten, verdict,
                   writerVars, stage, toStop, restarts>>

StartFails(t) ==
    /\ Serving
    /\ pc[t] = "checked"
    /\ row' \in {row, [row EXCEPT ![t] = "pending"]}
    /\ pc' = [pc EXCEPT ![t] = "dead"]
    /\ UNCHANGED <<ws, mem, cancelled, lock, waitsFor, todo, rewritten, verdict,
                   writerVars, stage, toStop, restarts>>

-----------------------------------------------------------------------------
(* process(): a task that finds a lock awaits that promise, once. *)
TakeLock(t) ==
    /\ lock' = [lock EXCEPT ![ws[t]] = t]
    /\ pc' = [pc EXCEPT ![t] = "counting"]

Spawn(t) ==
    /\ Serving
    /\ pc[t] = "spawned"
    /\ toStop' = IF stage = "stopping" THEN toStop \cup {t} ELSE toStop
    /\ IF lock[ws[t]] = None
       THEN TakeLock(t) /\ UNCHANGED waitsFor
       ELSE /\ waitsFor' = [waitsFor EXCEPT ![t] = lock[ws[t]]]
            /\ pc' = [pc EXCEPT ![t] = "waiting"]
            /\ UNCHANGED lock
    /\ UNCHANGED <<row, ws, mem, cancelled, todo, rewritten, verdict,
                   writerVars, stage, restarts>>

(* Mutant: the task does not await the lock it found. *)
LockReleasedAlways(t) == TRUE

(* Mutant: the promise is resolved only where the task succeeds. *)
LockReleasedOnSuccess(t) == pc[waitsFor[t]] = "done"

(* releaseLock() resolves the promise when its task leaves processInternal(). *)
LockReleased(t) == ~Inside(waitsFor[t])

LockGranted(t) ==
    /\ Serving
    /\ pc[t] = "waiting"
    /\ LockReleased(t)
    /\ TakeLock(t)
    /\ UNCHANGED <<row, ws, mem, cancelled, waitsFor, todo, rewritten, verdict,
                   writerVars, stage, toStop, restarts>>

(* updateTotalCounts(): the first progress row, with status running. *)
Count(t) ==
    /\ Serving
    /\ pc[t] = "counting"
    /\ row' = [row EXCEPT ![t] = "running"]
    /\ mem' = [mem EXCEPT ![t] = "running"]
    /\ todo' = [todo EXCEPT ![t] = ChunkDates]
    /\ pc' = [pc EXCEPT ![t] = "chunks"]
    /\ UNCHANGED <<ws, cancelled, lock, waitsFor, rewritten, verdict,
                   writerVars, stage, toStop, restarts>>

(* processDateChunk(): a progress row, the mutations of that day's          *)
(* partitions, another progress row.                                       *)
ChunkStarts(t) ==
    /\ Serving
    /\ pc[t] = "chunks"
    /\ todo[t] # {}
    /\ ~cancelled[t]
    /\ row' = [row EXCEPT ![t] = mem[t]]
    /\ pc' = [pc EXCEPT ![t] = "mutating"]
    /\ UNCHANGED <<ws, mem, cancelled, lock, waitsFor, todo, rewritten, verdict,
                   writerVars, stage, toStop, restarts>>

ChunkMutates(t) ==
    /\ Serving
    /\ pc[t] = "mutating"
    /\ \E d \in todo[t] :
          /\ \A e \in todo[t] : d <= e
          /\ rewritten' = [rewritten EXCEPT ![t] = @ \cup {d}]
          /\ todo' = [todo EXCEPT ![t] = @ \ {d}]
    /\ pc' = [pc EXCEPT ![t] = "progress"]
    /\ UNCHANGED <<row, ws, mem, cancelled, lock, waitsFor, verdict,
                   writerVars, stage, toStop, restarts>>

ChunkEnds(t) ==
    /\ Serving
    /\ pc[t] = "progress"
    /\ row' = [row EXCEPT ![t] = mem[t]]
    /\ pc' = [pc EXCEPT ![t] = "chunks"]
    /\ UNCHANGED <<ws, mem, cancelled, lock, waitsFor, todo, rewritten, verdict,
                   writerVars, stage, toStop, restarts>>

(* Mutant: the entry of the workspace is not deleted. *)
LeaveLocked(t, v) ==
    /\ pc' = [pc EXCEPT ![t] = "closing"]
    /\ verdict' = [verdict EXCEPT ![t] = v]
    /\ todo' = [todo EXCEPT ![t] = {}]
    /\ waitsFor' = [waitsFor EXCEPT ![t] = None]
    /\ UNCHANGED <<ws, mem, cancelled, lock, rewritten, writerVars, stage, toStop, restarts>>

(* The finally block of process(): the promise is released and the entry of *)
(* the workspace deleted, whoever's it is; the locals of process() are gone. *)
Leave(t, v) ==
    /\ pc' = [pc EXCEPT ![t] = "closing"]
    /\ verdict' = [verdict EXCEPT ![t] = v]
    /\ todo' = [todo EXCEPT ![t] = {}]
    /\ waitsFor' = [waitsFor EXCEPT ![t] = None]
    /\ lock' = [lock EXCEPT ![ws[t]] = None]
    /\ UNCHANGED <<ws, mem, cancelled, rewritten, writerVars, stage, toStop, restarts>>

(* Mutant: isCancelled() is not asked. *)
VerdictIgnoringCancel(t) == "completed"

Verdict(t) == IF cancelled[t] THEN "cancelled" ELSE "completed"

LoopEnds(t) ==
    /\ Serving
    /\ pc[t] = "chunks"
    /\ todo[t] = {} \/ cancelled[t]
    /\ Leave(t, Verdict(t))
    /\ UNCHANGED row

(* The status of the progress row a task inserts where it stands. *)
ProgressStatus(t) == IF pc[t] = "counting" THEN "running" ELSE mem[t]

(* Invalid filters, no mutation slot, a query, an insert or a wait fails. *)
Throws(t) ==
    /\ Serving
    /\ pc[t] \in InsideLock
    /\ pc[t] = "chunks" => todo[t] # {} /\ ~cancelled[t]
    /\ \/ UNCHANGED row
       \/ pc[t] # "mutating" /\ row' = [row EXCEPT ![t] = ProgressStatus(t)]
    /\ Leave(t, "failed")

(* The variables of a task that is over are gone, and its processor with its *)
(* entry in runningProcessors.                                             *)
Forgotten(over) ==
    /\ mem' = [t \in Tasks |-> IF t \in over THEN "pending" ELSE mem[t]]
    /\ cancelled' = [t \in Tasks |-> t \notin over /\ cancelled[t]]
    /\ waitsFor' = [t \in Tasks |-> IF t \in over THEN None ELSE waitsFor[t]]
    /\ todo' = [t \in Tasks |-> IF t \in over THEN {} ELSE todo[t]]
    /\ verdict' = [t \in Tasks |-> IF t \in over THEN "none" ELSE verdict[t]]
    /\ toStop' = toStop \ over

(* updateTaskStatusWithRetry() *)
Close(t) ==
    /\ Serving
    /\ pc[t] = "closing"
    /\ row' = [row EXCEPT ![t] = verdict[t]]
    /\ pc' = [pc EXCEPT ![t] = "done"]
    /\ Forgotten({t})
    /\ UNCHANGED <<ws, lock, rewritten, writerVars, stage, restarts>>

(* An attempt of it that throws although its row is in force; the next one   *)
(* follows after the backoff.                                              *)
CloseUnanswered(t) ==
    /\ Serving
    /\ pc[t] = "closing"
    /\ row' = [row EXCEPT ![t] = verdict[t]]
    /\ UNCHANGED <<ws, pc, mem, cancelled, lock, waitsFor, todo, rewritten, verdict,
                   writerVars, stage, toStop, restarts>>

(* All retries failed: the catch block writes "failed" instead, and when    *)
(* that fails as well the task is over with its last row still active.     *)
CloseFails(t) ==
    /\ Serving
    /\ pc[t] = "closing"
    /\ IF verdict[t] # "failed"
       THEN /\ verdict' = [verdict EXCEPT ![t] = "failed"]
            /\ UNCHANGED <<pc, mem, cancelled, waitsFor, todo, toStop>>
       ELSE pc' = [pc EXCEPT ![t] = "unsettled"] /\ Forgotten({t})
    /\ UNCHANGED <<row, ws, lock, rewritten, writerVars, stage, restarts>>

-----------------------------------------------------------------------------
(* cancelTask(): the read and processor.cancel(), then, after the kill of   *)
(* the mutations, the row.                                                 *)
CancelReads(t) ==
    /\ Serving
    /\ cancelRead[t] = "none"
    /\ row[t] \in Active
    /\ cancelRead' = [cancelRead EXCEPT ![t] = Found(t)]
    /\ cancelled' = [cancelled EXCEPT ![t] = @ \/ Live(t)]
    /\ UNCHANGED <<row, ws, pc, mem, lock, waitsFor, todo, rewritten, verdict,
                   hookRead, stage, toStop, restarts>>

CancelWrites(t) ==
    /\ Serving
    /\ cancelRead[t] # "none"
    /\ cancelRead' = [cancelRead EXCEPT ![t] = "none"]
    /\ row' \in {row, [row EXCEPT ![t] = "cancelled"]}
    /\ UNCHANGED <<ws, pc, mem, cancelled, lock, waitsFor, todo, rewritten, verdict,
                   hookRead, stage, toStop, restarts>>

-----------------------------------------------------------------------------
(* The process is gone: every task in memory with it. *)
Dies ==
    /\ pc' = [t \in Tasks |-> IF pc[t] \in {"unused", "done", "unsettled"}
                              THEN pc[t] ELSE "dead"]
    /\ Forgotten(Tasks)
    /\ lock' = [w \in Workspaces |-> None]
    /\ cancelRead' = [t \in Tasks |-> "none"]
    /\ hookRead' = [t \in Tasks |-> "none"]
    /\ stage' = "down"
    /\ UNCHANGED <<row, ws, rewritten, restarts>>

Crash ==
    /\ Serving
    /\ restarts < MaxRestarts
    /\ Dies

(* onModuleDestroy(): the timeouts are cleared, every processor cancelled;  *)
(* then, one processor after the other, the row is read and, if it was     *)
(* running, replaced.  A failure of either is caught.                      *)
ShutdownBegins ==
    /\ stage = "up"
    /\ restarts < MaxRestarts
    /\ stage' = "stopping"
    /\ pc' = [t \in Tasks |-> IF pc[t] = "spawned" THEN "dead" ELSE pc[t]]
    /\ cancelled' = [t \in Tasks |-> cancelled[t] \/ Live(t)]
    /\ toStop' = {t \in Tasks : Live(t)}
    /\ UNCHANGED <<row, ws, mem, lock, waitsFor, todo, rewritten, verdict,
                   writerVars, restarts>>

(* Mutant: the status just read is not looked at. *)
ClosedByHookBlindly(t) == Live(t)

(* What the hook is to close: a processor still in the map, a running row. *)
ClosedByHook(t) == Live(t) /\ row[t] = "running"

ShutdownReads(t) ==
    /\ stage = "stopping"
    /\ t \in toStop
    /\ \A u \in Tasks : hookRead[u] = "none"
    /\ toStop' = toStop \ {t}
    /\ \/ UNCHANGED hookRead
       \/ ClosedByHook(t) /\ hookRead' = [hookRead EXCEPT ![t] = Found(t)]
    /\ UNCHANGED <<taskVars, lock, cancelRead, stage, restarts>>

ShutdownWrites(t) ==
    /\ stage = "stopping"
    /\ hookRead[t] # "none"
    /\ hookRead' = [hookRead EXCEPT ![t] = "none"]
    /\ row' \in {row, [row EXCEPT ![t] = "cancelled"]}
    /\ UNCHANGED <<ws, pc, mem, cancelled, lock, waitsFor, todo, rewritten, verdict,
                   cancelRead, stage, toStop, restarts>>

Exit ==
    /\ stage = "stopping"
    /\ toStop = {} /\ \A t \in Tasks : hookRead[t] = "none"
    /\ Dies

(* onModuleInit(): rows left running for longer than the threshold are       *)
(* failed.  Which ones are that old depends on how long the process was down. *)
Restart(stale) ==
    /\ stage = "down"
    /\ stale \subseteq {t \in Tasks : row[t] = "running"}
    /\ row' = [t \in Tasks |-> IF t \in stale THEN "failed" ELSE row[t]]
    /\ stage' = "up"
    /\ restarts' = restarts + 1
    /\ UNCHANGED <<ws, pc, mem, cancelled, lock, waitsFor, todo, rewritten, verdict,
                   writerVars, toStop>>

-----------------------------------------------------------------------------
TaskStep(t) ==
    \/ StartInserts(t) \/ StartFails(t) \/ Spawn(t) \/ LockGranted(t) \/ Count(t)
    \/ ChunkStarts(t) \/ ChunkMutates(t) \/ ChunkEnds(t) \/ LoopEnds(t)
    \/ Close(t) \/ CloseFails(t)

Next ==
    \/ \E t \in Tasks, w \in Workspaces : StartChecks(t, w)
    \/ \E t \in Tasks : TaskStep(t) \/ Throws(t) \/ CloseUnanswered(t)
                          \/ CancelReads(t) \/ CancelWrites(t)
                          \/ ShutdownReads(t) \/ ShutdownWrites(t)
    \/ Crash \/ ShutdownBegins \/ Exit
    \/ \E stale \in SUBSET Tasks : Restart(stale)

Spec == Init /\ [][Next]_vars

(* Node runs what is ready and the awaits of a task settle (the waits have   *)
(* timeouts).  Nothing is assumed of users, of the shutdown or of a restart. *)
Fairness == WF_vars(\E t \in Tasks : TaskStep(t))

FairSpec == Spec /\ Fairness

-----------------------------------------------------------------------------
TypeOK ==
    /\ row \in [Tasks -> {"none"} \cup Active \cup Terminal]
    /\ ws \in [Tasks -> Workspaces \cup {None}]
    /\ pc \in [Tasks -> {"unused", "checked", "spawned", "done", "unsettled", "dead"}
                          \cup HasProcessor]
    /\ mem \in [Tasks -> Active]
    /\ cancelled \in [Tasks -> BOOLEAN]
    /\ lock \in [Workspaces -> Tasks \cup {None}]
    /\ waitsFor \in [Tasks -> Tasks \cup {None}]
    /\ todo \in [Tasks -> SUBSET Days]
    /\ rewritten \in [Tasks -> SUBSET Days]
    /\ verdict \in [Tasks -> {"none"} \cup Terminal]
    /\ cancelRead \in [Tasks -> {"none", "open", "settled"}]
    /\ hookRead \in [Tasks -> {"none", "open", "settled"}]
    /\ stage \in {"up", "stopping", "down"}
    /\ toStop \in SUBSET Tasks
    /\ restarts \in 0..MaxRestarts

(* A row says "completed" only for a task that rewrote every chunk of its   *)
(* range: no cancellation, shutdown, failure or restart at any point makes *)
(* a half-done backfill look complete (getBackfillSummary() relies on it). *)
CompletedIsWhole ==
    \A t \in Tasks : row[t] = "completed" => rewritten[t] = ChunkDates

(* The lock map never keeps a dead entry: the promise it holds belongs to a *)
(* task that is inside processInternal() and will release it.              *)
LockIsLive ==
    \A w \in Workspaces : lock[w] # None => Inside(lock[w]) /\ ws[lock[w]] = w

(* What the lock does guarantee: a task rewrites partitions only after the  *)
(* task it found in possession of the workspace has left.                  *)
EntersAfterHolder ==
    \A t \in Tasks : Inside(t) /\ waitsFor[t] # None => ~Inside(waitsFor[t])

(* workspaceLocks works as far as it goes: what it holds is alive, and who  *)
(* waited for it comes after it.                                           *)
LockWorks == LockIsLive /\ EntersAfterHolder

(* A settled row is replaced in three ways only.  "completed" or "failed"    *)
(* becomes "cancelled" by a cancelTask() or a shutdown hook whose own read   *)
(* still found the task open; "completed" becomes "failed" by the task      *)
(* itself, when the answer to its first status write was lost; and          *)
(* "cancelled" is replaced while the processor of the task is alive.        *)
TerminalOverwrites ==
    [][\A t \in Tasks :
          /\ row[t] \in {"completed", "failed"} /\ row'[t] # row[t] =>
                \/ row'[t] = "cancelled" /\ "open" \in {cancelRead[t], hookRead[t]}
                \/ row'[t] = "failed" /\ pc[t] = "closing"
          /\ row[t] = "cancelled" /\ row'[t] # row[t]
                => pc[t] \in HasProcessor]_vars

(* A cancellation that reaches the processor before its loop is over is     *)
(* heeded: whatever rows are written in between, none ever says completed. *)
CancelIsHeeded ==
    \A t \in Tasks :
        [](cancelled[t] /\ Inside(t) => [](row[t] # "completed"))

(* Every task that was spawned comes to an end, through the lock queue too: *)
(* nobody waits for ever for a workspace.                                  *)
TasksEnd ==
    \A t \in Tasks : pc[t] = "spawned" ~> pc[t] \in {"done", "unsettled", "dead"}

(* A backfill settles, and settles as its user asked: every task ends and a *)
(* cancellation that was in time wins.                                     *)
TasksSettle == TasksEnd /\ CancelIsHeeded

-----------------------------------------------------------------------------
(* Claims of documentation and tests that the code does not keep.          *)

(* "Per-workspace locking (only ONE backfill per workspace at a time)": two *)
(* tasks that awaited the same promise both go on when it resolves.        *)
OneBackfillAtATime ==
    \A t, u \in Tasks :
        t # u /\ ws[t] = ws[u] => ~(pc[t] = "mutating" /\ pc[u] = "mutating")
=============================================================================
