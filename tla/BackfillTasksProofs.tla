------------------------- MODULE BackfillTasksProofs -------------------------
(***************************************************************************)
(* Proofs about BackfillTasks, for any number of tasks, workspaces, days   *)
(* and restarts.  The inductive invariants are layered: the types, then    *)
(* what the lock map holds and who waits for whom, then how far a task is  *)
(* with its chunks, then what the row says about the task that owns it.    *)
(*                                                                         *)
(* The last part is about MutationSlots, the semaphore in front of the     *)
(* mutations, for any number of backfills and permits.                     *)
(***************************************************************************)
EXTENDS BackfillTasks, MutationSlots, Sequences, TLAPS, FiniteSetTheorems

(* The state is well typed, every task that has begun has a workspace, and  *)
(* a service that goes down has a restart left.                            *)
Typed ==
    /\ TypeOK
    /\ \A t \in Tasks : pc[t] # "unused" => ws[t] \in Workspaces
    /\ stage # "up" => restarts < MaxRestarts

(* The lock map holds tasks that are inside.  Whoever is waited for got     *)
(* hold of the lock before, so it cannot enter again; a task that has not  *)
(* looked at the lock yet waits for nobody.                                *)
QueueInv ==
    /\ LockIsLive
    /\ EntersAfterHolder
    /\ \A t \in Tasks :
          /\ pc[t] \in {"unused", "checked", "spawned"} => waitsFor[t] = None
          /\ waitsFor[t] # None =>
                pc[waitsFor[t]] \in InsideLock \cup {"closing", "done", "unsettled", "dead"}

(* Inside the loop every chunk is done or to do; a task says completed, in  *)
(* memory and then in its row, only when none was left.                    *)
ChunkInv ==
    /\ CompletedIsWhole
    /\ \A t \in Tasks :
          /\ rewritten[t] \subseteq ChunkDates
          /\ pc[t] \in {"chunks", "mutating", "progress"} =>
                rewritten[t] \cup todo[t] = ChunkDates
          /\ verdict[t] = "completed" => rewritten[t] = ChunkDates

(* The chunk dates are days of the range. *)
LEMMA ChunksAreDays == ChunkDates \in SUBSET Days
  BY DEF ChunkDates, Days

(* What is forgotten of a task that is over leaves the types alone. *)
LEMMA ForgottenTyped ==
    ASSUME TypeOK, NEW over \in SUBSET Tasks, Forgotten(over)
    PROVE  /\ mem' \in [Tasks -> Active]
           /\ cancelled' \in [Tasks -> BOOLEAN]
           /\ waitsFor' \in [Tasks -> Tasks \cup {None}]
           /\ todo' \in [Tasks -> SUBSET Days]
           /\ verdict' \in [Tasks -> {"none"} \cup Terminal]
           /\ toStop' \in SUBSET Tasks
<1>1. mem' \in [Tasks -> Active]
  BY DEF TypeOK, Forgotten, Active
<1>2. cancelled' \in [Tasks -> BOOLEAN]
  BY DEF TypeOK, Forgotten
<1>3. waitsFor' \in [Tasks -> Tasks \cup {None}]
  BY DEF TypeOK, Forgotten
<1>4. todo' \in [Tasks -> SUBSET Days]
  BY DEF TypeOK, Forgotten
<1>5. verdict' \in [Tasks -> {"none"} \cup Terminal]
  BY DEF TypeOK, Forgotten
<1>6. toStop' \in SUBSET Tasks
  BY DEF TypeOK, Forgotten
<1>7. QED
  BY <1>1, <1>2, <1>3, <1>4, <1>5, <1>6

(* Every step of the service keeps the types. *)
LEMMA TypedStep == ASSUME Typed, [Next]_vars PROVE Typed'
<1> USE BackfillAssumption, ChunksAreDays DEF Typed, TypeOK, Serving, Active, Terminal, InsideLock, HasProcessor, Inside, Live, taskVars, writerVars
<1>1. ASSUME NEW t \in Tasks, NEW w \in Workspaces, StartChecks(t, w) PROVE Typed'
  BY <1>1 DEF StartChecks
<1>2. ASSUME NEW t \in Tasks, StartInserts(t) PROVE Typed'
  BY <1>2 DEF StartInserts
<1>3. ASSUME NEW t \in Tasks, Spawn(t) PROVE Typed'
  BY <1>3 DEF Spawn, TakeLock
<1>4. ASSUME NEW t \in Tasks, LockGranted(t) PROVE Typed'
  BY <1>4 DEF LockGranted, TakeLock, LockReleased
<1>5. ASSUME NEW t \in Tasks, Count(t) PROVE Typed'
  BY <1>5 DEF Count
<1>6. ASSUME NEW t \in Tasks, ChunkStarts(t) PROVE Typed'
  BY <1>6 DEF ChunkStarts
<1>7. ASSUME NEW t \in Tasks, ChunkMutates(t) PROVE Typed'
  BY <1>7 DEF ChunkMutates
<1>8. ASSUME NEW t \in Tasks, ChunkEnds(t) PROVE Typed'
  BY <1>8 DEF ChunkEnds
<1>9. ASSUME NEW t \in Tasks, LoopEnds(t) PROVE Typed'
  BY <1>9 DEF LoopEnds, Leave, Verdict
<1>10. ASSUME NEW t \in Tasks, Close(t) PROVE Typed'
  BY <1>10 DEF Close, Forgotten
<1>11. ASSUME NEW t \in Tasks, CloseFails(t) PROVE Typed'
  <2>1. CASE verdict[t] # "failed"
    BY <1>11, <2>1 DEF CloseFails
  <2>2. CASE verdict[t] = "failed"
    <3>1. TypeOK'
      BY <1>11, <2>2, ForgottenTyped DEF CloseFails
    <3>2. /\ \A u \in Tasks : pc'[u] # "unused" => ws'[u] \in Workspaces
          /\ stage' # "up" => restarts' < MaxRestarts
      BY <1>11, <2>2 DEF CloseFails
    <3>3. QED
      BY <3>1, <3>2
  <2>3. QED
    BY <2>1, <2>2
<1>12. ASSUME NEW t \in Tasks, Throws(t) PROVE Typed'
  BY <1>12 DEF Throws, Leave, ProgressStatus
<1>13. ASSUME NEW t \in Tasks, CancelReads(t) PROVE Typed'
  BY <1>13 DEF CancelReads, Found
<1>14. ASSUME NEW t \in Tasks, CancelWrites(t) PROVE Typed'
  BY <1>14 DEF CancelWrites
<1>15. ASSUME NEW t \in Tasks, ShutdownReads(t) PROVE Typed'
  BY <1>15 DEF ShutdownReads, ClosedByHook, Found
<1>22. ASSUME NEW t \in Tasks, ShutdownWrites(t) PROVE Typed'
  BY <1>22 DEF ShutdownWrites
<1>23. ASSUME NEW t \in Tasks, StartFails(t) PROVE Typed'
  BY <1>23 DEF StartFails
<1>24. ASSUME NEW t \in Tasks, CloseUnanswered(t) PROVE Typed'
  BY <1>24 DEF CloseUnanswered
<1>16. CASE Crash
  BY <1>16 DEF Crash, Dies, Forgotten
<1>17. CASE ShutdownBegins
  BY <1>17 DEF ShutdownBegins
<1>18. CASE Exit
  BY <1>18 DEF Exit, Dies, Forgotten
<1>19. ASSUME NEW stale \in SUBSET Tasks, Restart(stale) PROVE Typed'
  BY <1>19 DEF Restart
<1>20. CASE UNCHANGED vars
  BY <1>20 DEF vars
<1> HIDE DEF Typed, TypeOK, Serving, Active, Terminal, InsideLock, HasProcessor, Inside, Live, taskVars, writerVars
<1>21. QED
  BY <1>1, <1>2, <1>3, <1>4, <1>5, <1>6, <1>7, <1>8, <1>9, <1>10, <1>11, <1>12, <1>13, <1>14, <1>15, <1>16, <1>17, <1>18, <1>19, <1>20,
     <1>22, <1>23, <1>24 DEF Next, TaskStep

(* FilterBackfillService keeps its rows, tasks and locks well typed,        *)
(* whatever is cancelled, fails, crashes or is restarted.                  *)
THEOREM TypeCorrect == Spec => []Typed /\ []TypeOK
<1>1. Init => Typed
  BY BackfillAssumption DEF Init, Typed, TypeOK, Active, Terminal, HasProcessor, InsideLock
<1>2. Spec => []Typed
  BY <1>1, TypedStep, PTL DEF Spec
<1>3. Typed => TypeOK
  BY DEF Typed
<1>4. QED
  BY <1>2, <1>3, PTL

(* Every step keeps the lock map and the queue of waiting tasks. *)
LEMMA QueueStep == ASSUME Typed, QueueInv, [Next]_vars PROVE QueueInv'
<1> USE BackfillAssumption DEF Typed, TypeOK, QueueInv, LockIsLive, EntersAfterHolder, Serving, Active, Terminal, InsideLock, HasProcessor, Inside, Live, taskVars, writerVars
<1>1. ASSUME NEW t \in Tasks, NEW w \in Workspaces, StartChecks(t, w) PROVE QueueInv'
  BY <1>1 DEF StartChecks
<1>2. ASSUME NEW t \in Tasks, StartInserts(t) PROVE QueueInv'
  BY <1>2 DEF StartInserts
<1>3. ASSUME NEW t \in Tasks, Spawn(t) PROVE QueueInv'
  BY <1>3 DEF Spawn, TakeLock
<1>4. ASSUME NEW t \in Tasks, LockGranted(t) PROVE QueueInv'
  BY <1>4 DEF LockGranted, TakeLock, LockReleased
<1>5. ASSUME NEW t \in Tasks, Count(t) PROVE QueueInv'
  BY <1>5 DEF Count
<1>6. ASSUME NEW t \in Tasks, ChunkStarts(t) PROVE QueueInv'
  BY <1>6 DEF ChunkStarts
<1>7. ASSUME NEW t \in Tasks, ChunkMutates(t) PROVE QueueInv'
  BY <1>7 DEF ChunkMutates
<1>8. ASSUME NEW t \in Tasks, ChunkEnds(t) PROVE QueueInv'
  BY <1>8 DEF ChunkEnds
<1>9. ASSUME NEW t \in Tasks, LoopEnds(t) PROVE QueueInv'
  BY <1>9 DEF LoopEnds, Leave, Verdict
<1>10. ASSUME NEW t \in Tasks, Close(t) PROVE QueueInv'
  BY <1>10 DEF Close, Forgotten
<1>11. ASSUME NEW t \in Tasks, CloseFails(t) PROVE QueueInv'
  BY <1>11 DEF CloseFails, Forgotten
<1>12. ASSUME NEW t \in Tasks, Throws(t) PROVE QueueInv'
  BY <1>12 DEF Throws, Leave, ProgressStatus
<1>13. ASSUME NEW t \in Tasks, CancelReads(t) PROVE QueueInv'
  BY <1>13 DEF CancelReads, Found
<1>14. ASSUME NEW t \in Tasks, CancelWrites(t) PROVE QueueInv'
  BY <1>14 DEF CancelWrites
<1>15. ASSUME NEW t \in Tasks, ShutdownReads(t) PROVE QueueInv'
  BY <1>15 DEF ShutdownReads, ClosedByHook, Found
<1>22. ASSUME NEW t \in Tasks, ShutdownWrites(t) PROVE QueueInv'
  BY <1>22 DEF ShutdownWrites
<1>23. ASSUME NEW t \in Tasks, StartFails(t) PROVE QueueInv'
  BY <1>23 DEF StartFails
<1>24. ASSUME NEW t \in Tasks, CloseUnanswered(t) PROVE QueueInv'
  BY <1>24 DEF CloseUnanswered
<1>16. CASE Crash
  BY <1>16 DEF Crash, Dies, Forgotten
<1>17. CASE ShutdownBegins
  BY <1>17 DEF ShutdownBegins
<1>18. CASE Exit
  BY <1>18 DEF Exit, Dies, Forgotten
<1>19. ASSUME NEW stale \in SUBSET Tasks, Restart(stale) PROVE QueueInv'
  BY <1>19 DEF Restart
<1>20. CASE UNCHANGED vars
  BY <1>20 DEF vars
<1> HIDE DEF Typed, TypeOK, QueueInv, LockIsLive, EntersAfterHolder, Serving, Active, Terminal, InsideLock, HasProcessor, Inside, Live, taskVars, writerVars
<1>21. QED
  BY <1>1, <1>2, <1>3, <1>4, <1>5, <1>6, <1>7, <1>8, <1>9, <1>10, <1>11, <1>12, <1>13, <1>14, <1>15, <1>16, <1>17, <1>18, <1>19, <1>20,
     <1>22, <1>23, <1>24 DEF Next, TaskStep

(* The lock map and the queue are in order in every state. *)
LEMMA QueueAlways == Spec => []QueueInv
<1>1. Init => QueueInv
  BY BackfillAssumption DEF Init, QueueInv, LockIsLive, EntersAfterHolder, Inside, InsideLock
<1>2. QED
  BY <1>1, QueueStep, TypeCorrect, PTL DEF Spec

(* workspaceLocks never keeps a dead promise, so whoever awaits one awaits a *)
(* task that is still inside process() and will release it; and no task     *)
(* rewrites partitions while the task it waited for still does.             *)
THEOREM LockWorksHolds == Spec => []LockWorks
  BY QueueAlways, PTL DEF QueueInv, LockWorks

(* Every step keeps the account of the chunks. *)
LEMMA ChunkStep == ASSUME Typed, ChunkInv, [Next]_vars PROVE ChunkInv'
<1> USE BackfillAssumption DEF Typed, TypeOK, ChunkInv, CompletedIsWhole, Serving, Active, Terminal, InsideLock, HasProcessor, Inside, Live, taskVars, writerVars
<1>1. ASSUME NEW t \in Tasks, NEW w \in Workspaces, StartChecks(t, w) PROVE ChunkInv'
  BY <1>1 DEF StartChecks
<1>2. ASSUME NEW t \in Tasks, StartInserts(t) PROVE ChunkInv'
  BY <1>2 DEF StartInserts
<1>3. ASSUME NEW t \in Tasks, Spawn(t) PROVE ChunkInv'
  BY <1>3 DEF Spawn, TakeLock
<1>4. ASSUME NEW t \in Tasks, LockGranted(t) PROVE ChunkInv'
  BY <1>4 DEF LockGranted, TakeLock, LockReleased
<1>5. ASSUME NEW t \in Tasks, Count(t) PROVE ChunkInv'
  BY <1>5 DEF Count
<1>6. ASSUME NEW t \in Tasks, ChunkStarts(t) PROVE ChunkInv'
  BY <1>6 DEF ChunkStarts
<1>7. ASSUME NEW t \in Tasks, ChunkMutates(t) PROVE ChunkInv'
  BY <1>7 DEF ChunkMutates
<1>8. ASSUME NEW t \in Tasks, ChunkEnds(t) PROVE ChunkInv'
  BY <1>8 DEF ChunkEnds
<1>9. ASSUME NEW t \in Tasks, LoopEnds(t) PROVE ChunkInv'
  BY <1>9 DEF LoopEnds, Leave, Verdict
<1>10. ASSUME NEW t \in Tasks, Close(t) PROVE ChunkInv'
  BY <1>10 DEF Close, Forgotten
<1>11. ASSUME NEW t \in Tasks, CloseFails(t) PROVE ChunkInv'
  BY <1>11 DEF CloseFails, Forgotten
<1>12. ASSUME NEW t \in Tasks, Throws(t) PROVE ChunkInv'
  BY <1>12 DEF Throws, Leave, ProgressStatus
<1>13. ASSUME NEW t \in Tasks, CancelReads(t) PROVE ChunkInv'
  BY <1>13 DEF CancelReads, Found
<1>14. ASSUME NEW t \in Tasks, CancelWrites(t) PROVE ChunkInv'
  BY <1>14 DEF CancelWrites
<1>15. ASSUME NEW t \in Tasks, ShutdownReads(t) PROVE ChunkInv'
  BY <1>15 DEF ShutdownReads, ClosedByHook, Found
<1>22. ASSUME NEW t \in Tasks, ShutdownWrites(t) PROVE ChunkInv'
  BY <1>22 DEF ShutdownWrites
<1>23. ASSUME NEW t \in Tasks, StartFails(t) PROVE ChunkInv'
  BY <1>23 DEF StartFails
<1>24. ASSUME NEW t \in Tasks, CloseUnanswered(t) PROVE ChunkInv'
  BY <1>24 DEF CloseUnanswered
<1>16. CASE Crash
  BY <1>16 DEF Crash, Dies, Forgotten
<1>17. CASE ShutdownBegins
  BY <1>17 DEF ShutdownBegins
<1>18. CASE Exit
  BY <1>18 DEF Exit, Dies, Forgotten
<1>19. ASSUME NEW stale \in SUBSET Tasks, Restart(stale) PROVE ChunkInv'
  BY <1>19 DEF Restart
<1>20. CASE UNCHANGED vars
  BY <1>20 DEF vars
<1> HIDE DEF Typed, TypeOK, ChunkInv, CompletedIsWhole, Serving, Active, Terminal, InsideLock, HasProcessor, Inside, Live, taskVars, writerVars
<1>21. QED
  BY <1>1, <1>2, <1>3, <1>4, <1>5, <1>6, <1>7, <1>8, <1>9, <1>10, <1>11, <1>12, <1>13, <1>14, <1>15, <1>16, <1>17, <1>18, <1>19, <1>20,
     <1>22, <1>23, <1>24 DEF Next, TaskStep

(* A row says completed only for a task that rewrote every chunk: the final *)
(* status of runTask() is never wrong about the work that was done.        *)
THEOREM CompletedHolds == Spec => []CompletedIsWhole
<1>1. Init => ChunkInv
  BY DEF Init, ChunkInv, CompletedIsWhole
<1>2. Spec => []ChunkInv
  BY <1>1, ChunkStep, TypeCorrect, PTL DEF Spec
<1>3. ChunkInv => CompletedIsWhole
  BY DEF ChunkInv
<1>4. QED
  BY <1>2, <1>3, PTL

-----------------------------------------------------------------------------
(* What the last row of a task says about where the task is: a task that   *)
(* has not inserted its row has none; over a completed or failed row its   *)
(* own task may write at most "failed", while it is closing; and a service that is down has no task  *)
(* in memory.                                                              *)
StatusInv ==
    /\ \A t \in Tasks :
          /\ pc[t] \in {"unused", "checked"} =>
                row[t] = "none" /\ cancelRead[t] = "none" /\ hookRead[t] = "none"
          /\ row[t] \in {"completed", "failed"} =>
                pc[t] \in {"closing", "done", "unsettled", "dead"}
          /\ pc[t] = "closing" /\ row[t] = "completed" => verdict[t] \in {"completed", "failed"}
          /\ pc[t] = "closing" /\ row[t] = "failed" => verdict[t] = "failed"
          /\ cancelRead[t] # "settled" /\ hookRead[t] # "settled"
          /\ pc[t] \in InsideLock \cup {"unused", "checked", "spawned", "waiting"}
                => verdict[t] = "none"
    /\ stage = "down" => \A t \in Tasks : pc[t] \in {"unused", "done", "unsettled", "dead"}

(* Every step keeps the row and the place of its task together. *)
LEMMA StatusStep == ASSUME Typed, StatusInv, [Next]_vars PROVE StatusInv'
<1> USE BackfillAssumption DEF Typed, TypeOK, StatusInv, Serving, Active, Terminal, InsideLock, HasProcessor, Inside, Live, taskVars, writerVars
<1>1. ASSUME NEW t \in Tasks, NEW w \in Workspaces, StartChecks(t, w) PROVE StatusInv'
  BY <1>1 DEF StartChecks
<1>2. ASSUME NEW t \in Tasks, StartInserts(t) PROVE StatusInv'
  BY <1>2 DEF StartInserts
<1>3. ASSUME NEW t \in Tasks, Spawn(t) PROVE StatusInv'
  BY <1>3 DEF Spawn, TakeLock
<1>4. ASSUME NEW t \in Tasks, LockGranted(t) PROVE StatusInv'
  BY <1>4 DEF LockGranted, TakeLock, LockReleased
<1>5. ASSUME NEW t \in Tasks, Count(t) PROVE StatusInv'
  BY <1>5 DEF Count
<1>6. ASSUME NEW t \in Tasks, ChunkStarts(t) PROVE StatusInv'
  BY <1>6 DEF ChunkStarts
<1>7. ASSUME NEW t \in Tasks, ChunkMutates(t) PROVE StatusInv'
  BY <1>7 DEF ChunkMutates
<1>8. ASSUME NEW t \in Tasks, ChunkEnds(t) PROVE StatusInv'
  BY <1>8 DEF ChunkEnds
<1>9. ASSUME NEW t \in Tasks, LoopEnds(t) PROVE StatusInv'
  BY <1>9 DEF LoopEnds, Leave, Verdict
<1>10. ASSUME NEW t \in Tasks, Close(t) PROVE StatusInv'
  BY <1>10 DEF Close, Forgotten
<1>11. ASSUME NEW t \in Tasks, CloseFails(t) PROVE StatusInv'
  BY <1>11 DEF CloseFails, Forgotten
<1>12. ASSUME NEW t \in Tasks, Throws(t) PROVE StatusInv'
  BY <1>12 DEF Throws, Leave, ProgressStatus
<1>13. ASSUME NEW t \in Tasks, CancelReads(t) PROVE StatusInv'
  BY <1>13 DEF CancelReads, Found
<1>14. ASSUME NEW t \in Tasks, CancelWrites(t) PROVE StatusInv'
  BY <1>14 DEF CancelWrites
<1>15. ASSUME NEW t \in Tasks, ShutdownReads(t) PROVE StatusInv'
  BY <1>15 DEF ShutdownReads, ClosedByHook, Found
<1>22. ASSUME NEW t \in Tasks, ShutdownWrites(t) PROVE StatusInv'
  BY <1>22 DEF ShutdownWrites
<1>23. ASSUME NEW t \in Tasks, StartFails(t) PROVE StatusInv'
  BY <1>23 DEF StartFails
<1>24. ASSUME NEW t \in Tasks, CloseUnanswered(t) PROVE StatusInv'
  BY <1>24 DEF CloseUnanswered
<1>16. CASE Crash
  BY <1>16 DEF Crash, Dies, Forgotten
<1>17. CASE ShutdownBegins
  BY <1>17 DEF ShutdownBegins
<1>18. CASE Exit
  BY <1>18 DEF Exit, Dies, Forgotten
<1>19. ASSUME NEW stale \in SUBSET Tasks, Restart(stale) PROVE StatusInv'
  BY <1>19 DEF Restart
<1>20. CASE UNCHANGED vars
  BY <1>20 DEF vars
<1> HIDE DEF Typed, TypeOK, StatusInv, Serving, Active, Terminal, InsideLock, HasProcessor, Inside, Live, taskVars, writerVars
<1> QED
  BY <1>1, <1>2, <1>3, <1>4, <1>5, <1>6, <1>7, <1>8, <1>9, <1>10, <1>11, <1>12, <1>13, <1>14, <1>15, <1>16, <1>17, <1>18, <1>19, <1>20,
     <1>22, <1>23, <1>24 DEF Next, TaskStep

(* The row of every task agrees with where the task is. *)
LEMMA StatusAlways == Spec => []StatusInv
<1>1. Init => StatusInv
  BY DEF Init, StatusInv, InsideLock
<1>2. QED
  BY <1>1, StatusStep, TypeCorrect, PTL DEF Spec

(* What one step may do to the row of task t. *)
RowStep(t) ==
    /\ row[t] \in {"completed", "failed"} /\ row'[t] # row[t] =>
          \/ row'[t] = "cancelled" /\ "open" \in {cancelRead[t], hookRead[t]}
          \/ row'[t] = "failed" /\ pc[t] = "closing"
    /\ row[t] = "cancelled" /\ row'[t] # row[t]
          => pc[t] \in HasProcessor

(* Every writer of the row respects a settled one, the stale ones apart. *)
LEMMA OverwriteStep ==
    ASSUME Typed, StatusInv, [Next]_vars PROVE \A x \in Tasks : RowStep(x)
<1> SUFFICES ASSUME NEW x \in Tasks PROVE RowStep(x)
  OBVIOUS
<1> USE BackfillAssumption DEF Typed, TypeOK, StatusInv, RowStep, Serving, Active, Terminal, InsideLock, HasProcessor, Inside, Live, taskVars, writerVars
<1>1. ASSUME NEW t \in Tasks, NEW w \in Workspaces, StartChecks(t, w) PROVE RowStep(x)
  BY <1>1 DEF StartChecks
<1>2. ASSUME NEW t \in Tasks, StartInserts(t) PROVE RowStep(x)
  BY <1>2 DEF StartInserts
<1>3. ASSUME NEW t \in Tasks, Spawn(t) PROVE RowStep(x)
  BY <1>3 DEF Spawn, TakeLock
<1>4. ASSUME NEW t \in Tasks, LockGranted(t) PROVE RowStep(x)
  BY <1>4 DEF LockGranted, TakeLock, LockReleased
<1>5. ASSUME NEW t \in Tasks, Count(t) PROVE RowStep(x)
  BY <1>5 DEF Count
<1>6. ASSUME NEW t \in Tasks, ChunkStarts(t) PROVE RowStep(x)
  BY <1>6 DEF ChunkStarts
<1>7. ASSUME NEW t \in Tasks, ChunkMutates(t) PROVE RowStep(x)
  BY <1>7 DEF ChunkMutates
<1>8. ASSUME NEW t \in Tasks, ChunkEnds(t) PROVE RowStep(x)
  BY <1>8 DEF ChunkEnds
<1>9. ASSUME NEW t \in Tasks, LoopEnds(t) PROVE RowStep(x)
  BY <1>9 DEF LoopEnds, Leave, Verdict
<1>10. ASSUME NEW t \in Tasks, Close(t) PROVE RowStep(x)
  BY <1>10 DEF Close, Forgotten
<1>11. ASSUME NEW t \in Tasks, CloseFails(t) PROVE RowStep(x)
  BY <1>11 DEF CloseFails, Forgotten
<1>12. ASSUME NEW t \in Tasks, Throws(t) PROVE RowStep(x)
  BY <1>12 DEF Throws, Leave, ProgressStatus
<1>13. ASSUME NEW t \in Tasks, CancelReads(t) PROVE RowStep(x)
  BY <1>13 DEF CancelReads, Found
<1>14. ASSUME NEW t \in Tasks, CancelWrites(t) PROVE RowStep(x)
  BY <1>14 DEF CancelWrites
<1>15. ASSUME NEW t \in Tasks, ShutdownReads(t) PROVE RowStep(x)
  BY <1>15 DEF ShutdownReads, ClosedByHook, Found
<1>22. ASSUME NEW t \in Tasks, ShutdownWrites(t) PROVE RowStep(x)
  BY <1>22 DEF ShutdownWrites
<1>23. ASSUME NEW t \in Tasks, StartFails(t) PROVE RowStep(x)
  BY <1>23 DEF StartFails
<1>24. ASSUME NEW t \in Tasks, CloseUnanswered(t) PROVE RowStep(x)
  BY <1>24 DEF CloseUnanswered
<1>16. CASE Crash
  BY <1>16 DEF Crash, Dies, Forgotten
<1>17. CASE ShutdownBegins
  BY <1>17 DEF ShutdownBegins
<1>18. CASE Exit
  BY <1>18 DEF Exit, Dies, Forgotten
<1>19. ASSUME NEW stale \in SUBSET Tasks, Restart(stale) PROVE RowStep(x)
  BY <1>19 DEF Restart
<1>20. CASE UNCHANGED vars
  BY <1>20 DEF vars
<1> HIDE DEF Typed, TypeOK, StatusInv, RowStep, Serving, Active, Terminal, InsideLock, HasProcessor, Inside, Live, taskVars, writerVars
<1> QED
  BY <1>1, <1>2, <1>3, <1>4, <1>5, <1>6, <1>7, <1>8, <1>9, <1>10, <1>11, <1>12, <1>13, <1>14, <1>15, <1>16, <1>17, <1>18, <1>19, <1>20,
     <1>22, <1>23, <1>24 DEF Next, TaskStep

(* A row that says completed or failed is only ever replaced by "cancelled", *)
(* by a cancelTask() or a shutdown hook that had found the task open, or by *)
(* "failed", by a task still closing; a cancelled one only while the        *)
(* processor of its task is alive.                                         *)
THEOREM TerminalRowsStay == Spec => TerminalOverwrites
<1>1. Typed /\ StatusInv /\ [Next]_vars =>
        [\A t \in Tasks :
          /\ row[t] \in {"completed", "failed"} /\ row'[t] # row[t] =>
                \/ row'[t] = "cancelled" /\ "open" \in {cancelRead[t], hookRead[t]}
                \/ row'[t] = "failed" /\ pc[t] = "closing"
          /\ row[t] = "cancelled" /\ row'[t] # row[t]
                => pc[t] \in HasProcessor]_vars
  BY OverwriteStep DEF RowStep
<1>2. QED
  BY <1>1, StatusAlways, TypeCorrect, PTL DEF Spec, TerminalOverwrites

(* From the moment a cancellation reaches a task inside its loop. *)
Heeded(t) ==
    /\ (cancelled[t] /\ Live(t)) \/ pc[t] \in {"done", "unsettled", "dead"}
    /\ verdict[t] # "completed"
    /\ row[t] # "completed"

(* No step makes a cancelled task complete. *)
LEMMA HeededStep ==
    ASSUME NEW x \in Tasks, Typed, StatusInv, Heeded(x), [Next]_vars PROVE Heeded(x)'
<1> USE BackfillAssumption DEF Typed, TypeOK, StatusInv, Heeded, Serving, Active, Terminal, InsideLock, HasProcessor, Inside, Live, taskVars, writerVars
<1>1. ASSUME NEW t \in Tasks, NEW w \in Workspaces, StartChecks(t, w) PROVE Heeded(x)'
  BY <1>1 DEF StartChecks
<1>2. ASSUME NEW t \in Tasks, StartInserts(t) PROVE Heeded(x)'
  BY <1>2 DEF StartInserts
<1>3. ASSUME NEW t \in Tasks, Spawn(t) PROVE Heeded(x)'
  BY <1>3 DEF Spawn, TakeLock
<1>4. ASSUME NEW t \in Tasks, LockGranted(t) PROVE Heeded(x)'
  BY <1>4 DEF LockGranted, TakeLock, LockReleased
<1>5. ASSUME NEW t \in Tasks, Count(t) PROVE Heeded(x)'
  BY <1>5 DEF Count
<1>6. ASSUME NEW t \in Tasks, ChunkStarts(t) PROVE Heeded(x)'
  BY <1>6 DEF ChunkStarts
<1>7. ASSUME NEW t \in Tasks, ChunkMutates(t) PROVE Heeded(x)'
  BY <1>7 DEF ChunkMutates
<1>8. ASSUME NEW t \in Tasks, ChunkEnds(t) PROVE Heeded(x)'
  BY <1>8 DEF ChunkEnds
<1>9. ASSUME NEW t \in Tasks, LoopEnds(t) PROVE Heeded(x)'
  BY <1>9 DEF LoopEnds, Leave, Verdict
<1>10. ASSUME NEW t \in Tasks, Close(t) PROVE Heeded(x)'
  BY <1>10 DEF Close, Forgotten
<1>11. ASSUME NEW t \in Tasks, CloseFails(t) PROVE Heeded(x)'
  BY <1>11 DEF CloseFails, Forgotten
<1>12. ASSUME NEW t \in Tasks, Throws(t) PROVE Heeded(x)'
  BY <1>12 DEF Throws, Leave, ProgressStatus
<1>13. ASSUME NEW t \in Tasks, CancelReads(t) PROVE Heeded(x)'
  BY <1>13 DEF CancelReads, Found
<1>14. ASSUME NEW t \in Tasks, CancelWrites(t) PROVE Heeded(x)'
  BY <1>14 DEF CancelWrites
<1>15. ASSUME NEW t \in Tasks, ShutdownReads(t) PROVE Heeded(x)'
  BY <1>15 DEF ShutdownReads, ClosedByHook, Found
<1>22. ASSUME NEW t \in Tasks, ShutdownWrites(t) PROVE Heeded(x)'
  BY <1>22 DEF ShutdownWrites
<1>23. ASSUME NEW t \in Tasks, StartFails(t) PROVE Heeded(x)'
  BY <1>23 DEF StartFails
<1>24. ASSUME NEW t \in Tasks, CloseUnanswered(t) PROVE Heeded(x)'
  BY <1>24 DEF CloseUnanswered
<1>16. CASE Crash
  BY <1>16 DEF Crash, Dies, Forgotten
<1>17. CASE ShutdownBegins
  BY <1>17 DEF ShutdownBegins
<1>18. CASE Exit
  BY <1>18 DEF Exit, Dies, Forgotten
<1>19. ASSUME NEW stale \in SUBSET Tasks, Restart(stale) PROVE Heeded(x)'
  BY <1>19 DEF Restart
<1>20. CASE UNCHANGED vars
  BY <1>20 DEF vars
<1> HIDE DEF Typed, TypeOK, StatusInv, Heeded, Serving, Active, Terminal, InsideLock, HasProcessor, Inside, Live, taskVars, writerVars
<1> QED
  BY <1>1, <1>2, <1>3, <1>4, <1>5, <1>6, <1>7, <1>8, <1>9, <1>10, <1>11, <1>12, <1>13, <1>14, <1>15, <1>16, <1>17, <1>18, <1>19, <1>20,
     <1>22, <1>23, <1>24 DEF Next, TaskStep

(* A cancellation that reaches the processor before its loop is over is     *)
(* heeded for good: no later row of that task says completed.              *)
THEOREM CancelAlwaysHeeded == Spec => CancelIsHeeded
<1>1. ASSUME NEW t \in Tasks
      PROVE  Spec => [](cancelled[t] /\ Inside(t) => [](row[t] # "completed"))
  <2>1. Typed /\ StatusInv /\ Heeded(t) /\ [Next]_vars => Heeded(t)'
    BY HeededStep
  <2>2. StatusInv /\ cancelled[t] /\ Inside(t) => Heeded(t)
    BY DEF StatusInv, Heeded, Inside, InsideLock, Live, HasProcessor
  <2>3. Heeded(t) => row[t] # "completed"
    BY DEF Heeded
  <2> QED
    BY <2>1, <2>2, <2>3, StatusAlways, TypeCorrect, PTL DEF Spec
<1> QED
  BY <1>1 DEF CancelIsHeeded

-----------------------------------------------------------------------------
(* The mutation slots, which the backfills of all workspaces share.        *)

SlotPlaces == {"idle", "checked", "queued", "holding", "passed", "mutating"}

(* The processors that are at a place under an assignment of places. *)
SlotAt(f, place) == {p \in Procs : f[p] = place}

(* The assumptions on the constants. *)
SlotConstants ==
    /\ IsFiniteSet(Procs)
    /\ Permits \in Nat \ {0} /\ HardLimit \in Nat \ {0} /\ MaxAcquires \in Nat
    /\ Gone \notin Procs

SlotTypes ==
    /\ where \in [Procs -> SlotPlaces]
    /\ free \in Nat /\ leaked \in Nat /\ running \in Nat
    /\ queue \in Seq(Procs \cup {Gone})
    /\ acquires \in 0 .. MaxAcquires

(* A waiter that has not timed out is waiting, and waits once: the permit   *)
(* it is given makes one more processor hold one.                          *)
WaitersWait ==
    /\ \A i \in 1 .. Len(queue) :
          queue[i] # Gone => where[queue[i]] = "queued"
    /\ \A i, j \in 1 .. Len(queue) :
          queue[i] = queue[j] /\ queue[i] # Gone => i = j

PermitBook ==
    /\ free + Cardinality(SlotAt(where, "holding")) + leaked = Permits
    /\ free > 0 => queue = <<>>

(* The mutations that run, with the processors about to submit one, and the *)
(* ones a processor waits for among them.                                  *)
MutationBook ==
    /\ running >= Cardinality(SlotAt(where, "mutating"))
    /\ running + Cardinality(SlotAt(where, "passed")) < HardLimit + Cardinality(Procs)

SlotInv == SlotConstants /\ SlotTypes /\ WaitersWait /\ PermitBook /\ MutationBook

LEMMA SlotConstantsHold == SlotConstants
  BY SlotsAssumption DEF SlotConstants

LEMMA SlotAtIsAt == \A x : At(x) = SlotAt(where, x)
  BY DEF At, SlotAt

(* How a step of one processor changes the number of processors at a place. *)
LEMMA SlotAtFinite ==
    ASSUME SlotConstants, NEW f, NEW x
    PROVE  /\ IsFiniteSet(SlotAt(f, x))
           /\ Cardinality(SlotAt(f, x)) \in Nat
           /\ Cardinality(SlotAt(f, x)) <= Cardinality(Procs)
           /\ Cardinality(Procs) \in Nat
<1>1. SlotAt(f, x) \subseteq Procs
  BY DEF SlotAt
<1>2. IsFiniteSet(Procs)
  BY DEF SlotConstants
<1> QED
  BY <1>1, <1>2, FS_Subset, FS_CardinalityType

LEMMA SlotLeaves ==
    ASSUME SlotConstants, NEW f \in [Procs -> SlotPlaces], NEW p \in Procs,
           NEW x, f[p] = x, NEW y, y # x
    PROVE  Cardinality(SlotAt([f EXCEPT ![p] = y], x)) = Cardinality(SlotAt(f, x)) - 1
<1>1. SlotAt([f EXCEPT ![p] = y], x) = SlotAt(f, x) \ {p}
  BY DEF SlotAt
<1>2. p \in SlotAt(f, x)
  BY DEF SlotAt
<1> QED
  BY <1>1, <1>2, SlotAtFinite, FS_RemoveElement

LEMMA SlotEnters ==
    ASSUME SlotConstants, NEW f \in [Procs -> SlotPlaces], NEW p \in Procs,
           NEW x, f[p] # x
    PROVE  Cardinality(SlotAt([f EXCEPT ![p] = x], x)) = Cardinality(SlotAt(f, x)) + 1
<1>1. SlotAt([f EXCEPT ![p] = x], x) = SlotAt(f, x) \cup {p}
  BY DEF SlotAt
<1>2. p \notin SlotAt(f, x)
  BY DEF SlotAt
<1> QED
  BY <1>1, <1>2, SlotAtFinite, FS_AddElement

LEMMA SlotStays ==
    ASSUME NEW f \in [Procs -> SlotPlaces], NEW p \in Procs,
           NEW x, f[p] # x, NEW y, y # x
    PROVE  SlotAt([f EXCEPT ![p] = y], x) = SlotAt(f, x)
  BY DEF SlotAt

(* No processor mutates, passed or holds a permit at first. *)
LEMMA SlotInit == ASSUME SlotsInit PROVE SlotInv
<1>1. SlotConstants
  BY SlotConstantsHold
<1>2. \A x : x # "idle" => SlotAt(where, x) = {}
  BY DEF SlotsInit, SlotAt
<1>3. Cardinality({}) = 0
  BY FS_EmptySet
<1>4. Cardinality(Procs) \in Nat
  BY <1>1, SlotAtFinite
<1>5. SlotTypes /\ WaitersWait
  BY <1>1 DEF SlotsInit, SlotTypes, WaitersWait, SlotConstants, SlotPlaces
<1>6. /\ Cardinality(SlotAt(where, "holding")) = 0
      /\ Cardinality(SlotAt(where, "passed")) = 0
      /\ Cardinality(SlotAt(where, "mutating")) = 0
  BY <1>2, <1>3
<1>7. PermitBook
  BY <1>1, <1>6 DEF PermitBook, SlotsInit, SlotConstants
<1>8. MutationBook
  BY <1>1, <1>4, <1>6 DEF MutationBook, SlotsInit, SlotConstants
<1> QED
  BY <1>1, <1>5, <1>7, <1>8 DEF SlotInv

(* A step of p alone that neither gives nor takes a permit, nor touches the *)
(* queue.                                                                  *)
LEMMA SlotMove ==
    ASSUME SlotInv, NEW p \in Procs, NEW x \in SlotPlaces, NEW y \in SlotPlaces,
           where[p] = x, x # y, where' = [where EXCEPT ![p] = y],
           x \notin {"queued", "holding"}, y \notin {"queued", "holding"},
           UNCHANGED <<free, queue, leaked, acquires>>, running' \in Nat
    PROVE  SlotConstants' /\ SlotTypes' /\ WaitersWait' /\ PermitBook'
<1> USE DEF SlotInv
<1>1. SlotConstants' /\ SlotTypes'
  BY DEF SlotConstants, SlotTypes
<1>2. WaitersWait'
  BY DEF WaitersWait, SlotTypes
<1>3. SlotAt(where', "holding") = SlotAt(where, "holding")
  BY SlotStays DEF SlotTypes
<1>4. PermitBook'
  BY <1>3 DEF PermitBook
<1> QED
  BY <1>1, <1>2, <1>4

(* The two books when nothing about mutations changes but who is at work. *)
LEMMA SlotMutationsKept ==
    ASSUME SlotInv, running' = running,
           SlotAt(where', "mutating") = SlotAt(where, "mutating"),
           SlotAt(where', "passed") = SlotAt(where, "passed")
    PROVE  MutationBook'
  BY DEF SlotInv, MutationBook

LEMMA SlotPreCheck == ASSUME SlotInv, NEW p \in Procs, PreCheck(p) PROVE SlotInv'
<1> USE DEF SlotInv, PreCheck, SlotTypes
<1>1. SlotConstants' /\ SlotTypes' /\ WaitersWait' /\ PermitBook'
  BY SlotMove DEF SlotPlaces
<1>2. MutationBook'
  BY SlotMutationsKept, SlotStays
<1> QED
  BY <1>1, <1>2

(* A free permit is taken, or the processor joins the queue. *)
LEMMA SlotAcquire == ASSUME SlotInv, NEW p \in Procs, Acquire(p) PROVE SlotInv'
<1> USE DEF SlotInv
<1>1. /\ where \in [Procs -> SlotPlaces] /\ where[p] = "checked"
      /\ running' = running /\ leaked' = leaked
  BY DEF Acquire, SlotTypes
<1>2. CASE free > 0
  <2>1. /\ where' = [where EXCEPT ![p] = "holding"] /\ free' = free - 1
        /\ queue' = queue /\ queue = <<>>
    BY <1>2 DEF Acquire, PermitBook
  <2>2. SlotConstants' /\ SlotTypes'
    BY <1>2, <2>1 DEF SlotConstants, SlotTypes, Acquire, SlotPlaces
  <2>3. WaitersWait'
    BY <2>1 DEF WaitersWait
  <2>4. Cardinality(SlotAt(where', "holding")) = Cardinality(SlotAt(where, "holding")) + 1
    BY <1>1, <2>1, SlotEnters
  <2>5. PermitBook'
    BY <1>1, <2>1, <2>4, SlotAtFinite DEF PermitBook, SlotTypes, SlotConstants
  <2>6. MutationBook'
    BY <1>1, <2>1, SlotMutationsKept, SlotStays
  <2> QED
    BY <2>2, <2>3, <2>5, <2>6
<1>3. CASE ~(free > 0)
  <2>1. /\ where' = [where EXCEPT ![p] = "queued"] /\ free' = free
        /\ queue' = Append(queue, p)
    BY <1>3 DEF Acquire
  <2>2. SlotConstants' /\ SlotTypes'
    BY <1>1, <2>1 DEF SlotConstants, SlotTypes, Acquire, SlotPlaces
  <2>3. WaitersWait'
    <3>1. /\ Len(queue') = Len(queue) + 1 /\ queue'[Len(queue) + 1] = p
          /\ \A i \in 1 .. Len(queue) : queue'[i] = queue[i]
          /\ Len(queue) \in Nat
      BY <2>1 DEF SlotTypes
    <3>2. \A i \in 1 .. Len(queue) : queue[i] # p
      BY <1>1 DEF WaitersWait, SlotConstants
    <3>3. \A i \in 1 .. Len(queue') : i \in 1 .. Len(queue) \/ i = Len(queue) + 1
      BY <3>1
    <3>4. ASSUME NEW i \in 1 .. Len(queue'), queue'[i] # Gone
          PROVE  where'[queue'[i]] = "queued"
      <4>1. CASE i \in 1 .. Len(queue)
        <5>1. queue[i] \in Procs /\ where[queue[i]] = "queued"
          BY <3>1, <3>4, <4>1 DEF WaitersWait, SlotTypes
        <5> QED
          BY <1>1, <2>1, <3>1, <4>1, <5>1
      <4> QED
        BY <1>1, <2>1, <3>1, <3>3, <4>1
    <3>5. ASSUME NEW i \in 1 .. Len(queue'), NEW j \in 1 .. Len(queue'),
                 queue'[i] = queue'[j], queue'[i] # Gone
          PROVE  i = j
      BY <3>1, <3>2, <3>3, <3>5 DEF WaitersWait
    <3> QED
      BY <3>4, <3>5 DEF WaitersWait
  <2>4. PermitBook'
    BY <1>1, <1>3, <2>1, SlotStays DEF PermitBook
  <2>5. MutationBook'
    BY <1>1, <2>1, SlotMutationsKept, SlotStays
  <2> QED
    BY <2>2, <2>3, <2>4, <2>5
<1> QED
  BY <1>2, <1>3

(* A waiter's place in the queue is kept, but for nobody. *)
LEMMA SlotTimeout == ASSUME SlotInv, NEW p \in Procs, Timeout(p) PROVE SlotInv'
<1> USE DEF SlotInv
<1>1. /\ where \in [Procs -> SlotPlaces] /\ where[p] = "queued"
      /\ where' = [where EXCEPT ![p] = "idle"]
      /\ running' = running /\ leaked' = leaked /\ free' = free
      /\ acquires' = acquires
  BY DEF Timeout, SlotTypes
<1>2. /\ queue' = [i \in 1 .. Len(queue) |->
                          IF queue[i] = p THEN Gone ELSE queue[i]]
      /\ queue \in Seq(Procs \cup {Gone}) /\ Len(queue) \in Nat
  BY DEF Timeout, SlotTypes
<1>3. queue' \in Seq(Procs \cup {Gone}) /\ Len(queue') = Len(queue)
  BY <1>2
<1>4. SlotConstants' /\ SlotTypes'
  BY <1>1, <1>3 DEF SlotConstants, SlotTypes, SlotPlaces
<1>5. WaitersWait'
  <2>1. \A i \in 1 .. Len(queue') :
           queue'[i] # Gone => queue'[i] = queue[i] /\ queue[i] # p
    BY <1>2, <1>3
  <2>2. ASSUME NEW i \in 1 .. Len(queue'), queue'[i] # Gone
        PROVE  where'[queue'[i]] = "queued"
    <3>1. queue[i] \in Procs /\ where[queue[i]] = "queued" /\ queue[i] # p
      BY <1>2, <1>3, <2>1, <2>2 DEF WaitersWait
    <3> QED
      BY <1>1, <2>1, <2>2, <3>1
  <2>3. ASSUME NEW i \in 1 .. Len(queue'), NEW j \in 1 .. Len(queue'),
               queue'[i] = queue'[j], queue'[i] # Gone
        PROVE  i = j
    BY <1>3, <2>1, <2>3 DEF WaitersWait
  <2> QED
    BY <2>2, <2>3 DEF WaitersWait
<1>6. PermitBook'
  <2>1. queue = <<>> => queue' = <<>>
    BY <1>2, <1>3
  <2> QED
    BY <1>1, <2>1, SlotStays DEF PermitBook
<1>7. MutationBook'
  BY <1>1, SlotMutationsKept, SlotStays
<1> QED
  BY <1>4, <1>5, <1>6, <1>7

(* The permit of p becomes free, or goes to the head of the queue: to a     *)
(* waiter that then holds one, or to nobody.                               *)
LEMMA SlotRelease ==
    ASSUME SlotInv, NEW p \in Procs, where[p] = "holding",
           NEW x \in {"passed", "idle"}, Release(p, x),
           running' = running, acquires' = acquires
    PROVE  /\ SlotConstants' /\ SlotTypes' /\ WaitersWait' /\ PermitBook'
           /\ SlotAt(where', "mutating") = SlotAt(where, "mutating")
           /\ x = "idle" => SlotAt(where', "passed") = SlotAt(where, "passed")
<1> DEFINE g == [where EXCEPT ![p] = x]
<1>1. /\ where \in [Procs -> SlotPlaces] /\ queue \in Seq(Procs \cup {Gone})
      /\ free \in Nat /\ leaked \in Nat /\ SlotConstants /\ Permits \in Nat
  BY DEF SlotInv, SlotTypes, SlotConstants
<1>2. SlotConstants'
  BY <1>1 DEF SlotConstants
<1>3. /\ g \in [Procs -> SlotPlaces] /\ g[p] = x
      /\ \A y \in Procs : y # p => g[y] = where[y]
  BY <1>1 DEF SlotPlaces
<1>4. /\ SlotAt(g, "mutating") = SlotAt(where, "mutating")
      /\ x = "idle" => SlotAt(g, "passed") = SlotAt(where, "passed")
  <2>1. SlotAt(g, "mutating") = SlotAt(where, "mutating")
    BY <1>1 DEF SlotAt
  <2>2. x = "idle" => SlotAt(g, "passed") = SlotAt(where, "passed")
    BY <1>1 DEF SlotAt
  <2> QED
    BY <2>1, <2>2
<1>5. Cardinality(SlotAt(g, "holding")) = Cardinality(SlotAt(where, "holding")) - 1
  BY <1>1, SlotLeaves
<1>6. /\ Cardinality(SlotAt(g, "holding")) \in Nat
      /\ Cardinality(SlotAt(where, "holding")) \in Nat
  BY <1>1, SlotAtFinite
<1>7. CASE queue = <<>>
  <2>1. free' = free + 1 /\ where' = g /\ queue' = queue /\ leaked' = leaked
    BY <1>7 DEF Release
  <2>2. SlotTypes'
    BY <1>1, <1>3, <2>1 DEF SlotInv, SlotTypes
  <2>3. WaitersWait'
    BY <1>7, <2>1 DEF WaitersWait
  <2>4. PermitBook'
    BY <1>1, <1>5, <1>6, <1>7, <2>1 DEF SlotInv, PermitBook
  <2> QED
    BY <1>2, <1>4, <2>1, <2>2, <2>3, <2>4
<1>8. CASE queue # <<>>
  <2> DEFINE head == Head(queue)
  <2>1. /\ queue' = Tail(queue) /\ free' = free /\ free = 0
    BY <1>1, <1>8 DEF Release, SlotInv, PermitBook
  <2>2. /\ Len(queue) \in Nat \ {0} /\ Len(queue') = Len(queue) - 1
        /\ queue' \in Seq(Procs \cup {Gone}) /\ head = queue[1]
        /\ \A i \in 1 .. Len(queue') : queue'[i] = queue[i + 1]
    BY <1>1, <1>8, <2>1
  <2>3. \A i \in 1 .. Len(queue') : i \in Nat /\ i + 1 \in 1 .. Len(queue) /\ i + 1 # 1
    BY <2>2
  <2>4. \A i \in 1 .. Len(queue') : queue'[i] # Gone =>
           /\ queue'[i] \in Procs /\ where[queue'[i]] = "queued"
           /\ queue'[i] # head
    <3>1. ASSUME NEW i \in 1 .. Len(queue'), queue'[i] # Gone
          PROVE  /\ queue'[i] \in Procs /\ where[queue'[i]] = "queued"
                 /\ queue'[i] # head
      <4>1. i + 1 \in 1 .. Len(queue) /\ 1 \in 1 .. Len(queue) /\ i + 1 # 1
        BY <2>2, <2>3
      <4>2. queue[i + 1] # Gone /\ queue'[i] = queue[i + 1]
        BY <2>2, <3>1
      <4>3. queue[i + 1] \in Procs
        BY <1>1, <4>1, <4>2
      <4>4. where[queue[i + 1]] = "queued"
        BY <4>1, <4>2 DEF SlotInv, WaitersWait
      <4>5. queue[i + 1] # queue[1]
        BY <4>1, <4>2 DEF SlotInv, WaitersWait
      <4> QED
        BY <2>2, <4>2, <4>3, <4>4, <4>5
    <3> QED
      BY <3>1
  <2>5. \A i, j \in 1 .. Len(queue') :
           queue'[i] = queue'[j] /\ queue'[i] # Gone => i = j
    BY <2>2, <2>3 DEF SlotInv, WaitersWait
  <2>6. \A i \in 1 .. Len(queue') : queue'[i] # Gone => queue'[i] # p
    BY <2>4
  <2>7. CASE head = Gone
    <3>1. where' = g /\ leaked' = leaked + 1
      BY <1>8, <2>7 DEF Release
    <3>2. SlotTypes'
      BY <1>1, <1>3, <2>1, <2>2, <3>1 DEF SlotInv, SlotTypes
    <3>3. WaitersWait'
      BY <1>3, <2>4, <2>5, <2>6, <3>1 DEF WaitersWait
    <3>4. PermitBook'
      BY <1>1, <1>5, <1>6, <2>1, <3>1 DEF SlotInv, PermitBook
    <3> QED
      BY <1>2, <1>4, <3>1, <3>2, <3>3, <3>4
  <2>8. CASE head # Gone
    <3>1. where' = [g EXCEPT ![head] = "holding"] /\ leaked' = leaked
      BY <1>8, <2>8 DEF Release
    <3>2. head \in Procs /\ where[head] = "queued" /\ head # p
      BY <1>1, <2>2, <2>8 DEF SlotInv, WaitersWait
    <3>3. g[head] = "queued"
      BY <1>3, <3>2
    <3>4. SlotTypes'
      BY <1>1, <1>3, <2>1, <2>2, <3>1, <3>2 DEF SlotInv, SlotTypes, SlotPlaces
    <3>5. WaitersWait'
      <4>1. \A y \in Procs : y # p /\ y # head => where'[y] = where[y]
        BY <1>3, <3>1
      <4> QED
        BY <2>4, <2>5, <2>6, <4>1 DEF WaitersWait
    <3>6. Cardinality(SlotAt(where', "holding")) = Cardinality(SlotAt(g, "holding")) + 1
      BY <1>1, <1>3, <3>1, <3>2, <3>3, SlotEnters
    <3>7. PermitBook'
      BY <1>1, <1>5, <1>6, <2>1, <3>1, <3>6 DEF SlotInv, PermitBook
    <3>8. /\ SlotAt(where', "mutating") = SlotAt(g, "mutating")
          /\ SlotAt(where', "passed") = SlotAt(g, "passed")
      <4>1. g[head] # "mutating" /\ g[head] # "passed"
        BY <3>3
      <4>2. SlotAt(where', "mutating") = SlotAt(g, "mutating")
        BY <1>3, <3>1, <3>2, <4>1 DEF SlotAt
      <4>3. SlotAt(where', "passed") = SlotAt(g, "passed")
        BY <1>3, <3>1, <3>2, <4>1 DEF SlotAt
      <4> QED
        BY <4>2, <4>3
    <3> QED
      BY <1>2, <1>4, <3>4, <3>5, <3>7, <3>8
  <2> QED
    BY <2>7, <2>8
<1> QED
  BY <1>7, <1>8

(* A processor passes the second check with fewer than the limit running. *)
LEMMA SlotPostCheck ==
    ASSUME SlotInv, NEW p \in Procs, PostCheckPasses(p) \/ PostCheckThrows(p)
    PROVE  SlotInv'
<1>1. CASE PostCheckPasses(p)
  <2>1. /\ where[p] = "holding" /\ ~(running >= HardLimit) /\ Release(p, "passed")
        /\ running' = running /\ acquires' = acquires
    BY <1>1 DEF PostCheckPasses, Overloaded
  <2>2. /\ SlotConstants' /\ SlotTypes' /\ WaitersWait' /\ PermitBook'
        /\ SlotAt(where', "mutating") = SlotAt(where, "mutating")
    BY <2>1, SlotRelease
  <2>3. /\ Cardinality(SlotAt(where', "passed")) \in Nat
        /\ Cardinality(SlotAt(where', "passed")) <= Cardinality(Procs)
        /\ Cardinality(Procs) \in Nat
    BY SlotAtFinite DEF SlotInv
  <2>4. MutationBook'
    BY <2>1, <2>2, <2>3 DEF SlotInv, MutationBook, SlotTypes, SlotConstants
  <2> QED
    BY <2>2, <2>4 DEF SlotInv
<1>2. CASE PostCheckThrows(p)
  <2>1. /\ where[p] = "holding" /\ Release(p, "idle")
        /\ running' = running /\ acquires' = acquires
    BY <1>2 DEF PostCheckThrows
  <2>2. /\ SlotConstants' /\ SlotTypes' /\ WaitersWait' /\ PermitBook'
        /\ SlotAt(where', "mutating") = SlotAt(where, "mutating")
        /\ SlotAt(where', "passed") = SlotAt(where, "passed")
    BY <2>1, SlotRelease
  <2> QED
    BY <2>1, <2>2, SlotMutationsKept DEF SlotInv
<1> QED
  BY <1>1, <1>2

(* The ALTER TABLE and its end move a processor and the count together. *)
LEMMA SlotMutation ==
    ASSUME SlotInv, NEW p \in Procs,
           \/ Submit(p) \/ SubmitFails(p)
           \/ MutationEnds(p) \/ WaitGivesUp(p)
    PROVE  SlotInv'
<1> DEFINE m == Cardinality(SlotAt(where, "mutating"))
           d == Cardinality(SlotAt(where, "passed"))
           c == Cardinality(Procs)
<1>1. /\ where \in [Procs -> SlotPlaces] /\ SlotConstants
      /\ running \in Nat /\ HardLimit \in Nat
  BY DEF SlotInv, SlotTypes, SlotConstants
<1>2. /\ m \in Nat /\ d \in Nat /\ c \in Nat
      /\ running >= m /\ running + d < HardLimit + c
  BY <1>1, SlotAtFinite DEF SlotInv, MutationBook
<1>3. CASE Submit(p)
  <2>1. where[p] = "passed" /\ where' = [where EXCEPT ![p] = "mutating"] /\ running' = running + 1
    BY <1>3 DEF Submit
  <2>2. SlotConstants' /\ SlotTypes' /\ WaitersWait' /\ PermitBook'
    <3>1. running' \in Nat
      BY <1>1, <2>1
    <3>2. UNCHANGED <<free, queue, leaked, acquires>>
      BY <1>3 DEF Submit
    <3> QED
      BY <2>1, <3>1, <3>2, SlotMove DEF SlotPlaces
  <2>3. /\ Cardinality(SlotAt(where', "mutating")) = m + 1
        /\ Cardinality(SlotAt(where', "passed")) = d - 1
    BY <1>1, <2>1, SlotEnters, SlotLeaves
  <2> HIDE DEF m, d, c
  <2>4. running + 1 >= m + 1 /\ (running + 1) + (d - 1) < HardLimit + c
    BY <1>1, <1>2
  <2>5. MutationBook'
    BY <2>1, <2>3, <2>4 DEF MutationBook, c
  <2> QED
    BY <2>2, <2>5 DEF SlotInv
<1>4. CASE SubmitFails(p)
  <2>1. where[p] = "passed" /\ where' = [where EXCEPT ![p] = "idle"] /\ running' = running
    BY <1>4 DEF SubmitFails
  <2>2. SlotConstants' /\ SlotTypes' /\ WaitersWait' /\ PermitBook'
    BY <1>1, <1>4, <2>1, SlotMove DEF SubmitFails, SlotPlaces
  <2>3. /\ Cardinality(SlotAt(where', "mutating")) = m
        /\ Cardinality(SlotAt(where', "passed")) = d - 1
    <3>1. SlotAt(where', "mutating") = SlotAt(where, "mutating")
      BY <1>1, <2>1 DEF SlotAt
    <3>2. Cardinality(SlotAt(where', "passed")) = d - 1
      BY <1>1, <2>1, SlotLeaves
    <3> QED
      BY <3>1, <3>2
  <2> HIDE DEF m, d, c
  <2>4. running >= m /\ running + (d - 1) < HardLimit + c
    BY <1>1, <1>2
  <2>5. MutationBook'
    BY <2>1, <2>3, <2>4 DEF MutationBook, c
  <2> QED
    BY <2>2, <2>5 DEF SlotInv
<1>5. CASE MutationEnds(p)
  <2>1. where[p] = "mutating" /\ where' = [where EXCEPT ![p] = "idle"] /\ running' = running - 1
    BY <1>5 DEF MutationEnds
  <2>2. /\ Cardinality(SlotAt(where', "mutating")) = m - 1
        /\ Cardinality(SlotAt(where', "passed")) = d
    <3>1. SlotAt(where', "passed") = SlotAt(where, "passed")
      BY <1>1, <2>1, SlotStays
    <3>2. Cardinality(SlotAt(where', "mutating")) = m - 1
      BY <1>1, <2>1, SlotLeaves
    <3> QED
      BY <3>1, <3>2
  <2>3. m - 1 \in Nat
    BY <1>1, <2>2, SlotAtFinite
  <2> HIDE DEF m, d, c
  <2>4. /\ running - 1 \in Nat
        /\ running - 1 >= m - 1 /\ (running - 1) + d < HardLimit + c
    BY <1>1, <1>2, <2>3
  <2>5. SlotConstants' /\ SlotTypes' /\ WaitersWait' /\ PermitBook'
    BY <1>1, <1>5, <2>1, <2>4, SlotMove DEF MutationEnds, SlotPlaces
  <2>6. MutationBook'
    BY <2>1, <2>2, <2>4 DEF MutationBook, c
  <2> QED
    BY <2>5, <2>6 DEF SlotInv
<1>6. CASE WaitGivesUp(p)
  <2>1. where[p] = "mutating" /\ where' = [where EXCEPT ![p] = "idle"] /\ running' = running
    BY <1>6 DEF WaitGivesUp
  <2>2. SlotConstants' /\ SlotTypes' /\ WaitersWait' /\ PermitBook'
    BY <1>1, <1>6, <2>1, SlotMove DEF WaitGivesUp, SlotPlaces
  <2>3. /\ Cardinality(SlotAt(where', "mutating")) = m - 1
        /\ Cardinality(SlotAt(where', "passed")) = d
    <3>1. SlotAt(where', "passed") = SlotAt(where, "passed")
      BY <1>1, <2>1, SlotStays
    <3>2. Cardinality(SlotAt(where', "mutating")) = m - 1
      BY <1>1, <2>1, SlotLeaves
    <3> QED
      BY <3>1, <3>2
  <2> HIDE DEF m, d, c
  <2>4. running >= m - 1 /\ running + d < HardLimit + c
    BY <1>1, <1>2
  <2>5. MutationBook'
    BY <2>1, <2>3, <2>4 DEF MutationBook, c
  <2> QED
    BY <2>2, <2>5 DEF SlotInv
<1> QED
  BY <1>3, <1>4, <1>5, <1>6

(* A mutation that nobody waits for ends. *)
LEMMA SlotStrayEnds == ASSUME SlotInv, StrayEnds PROVE SlotInv'
<1> DEFINE m == Cardinality(SlotAt(where, "mutating"))
           d == Cardinality(SlotAt(where, "passed"))
           c == Cardinality(Procs)
<1>1. /\ m \in Nat /\ d \in Nat /\ c \in Nat /\ running \in Nat /\ HardLimit \in Nat
      /\ running + d < HardLimit + c
  BY SlotAtFinite DEF SlotInv, MutationBook, SlotTypes, SlotConstants
<1>2. running > m /\ running' = running - 1 /\ where' = where
  BY SlotAtIsAt DEF StrayEnds
<1> HIDE DEF m, d, c
<1>3. /\ running - 1 \in Nat
      /\ running - 1 >= m /\ (running - 1) + d < HardLimit + c
  BY <1>1, <1>2
<1>4. MutationBook'
  BY <1>2, <1>3 DEF MutationBook, m, d, c
<1>5. SlotConstants' /\ SlotTypes' /\ WaitersWait' /\ PermitBook'
  BY <1>2, <1>3 DEF SlotInv, StrayEnds, SlotConstants, SlotTypes, WaitersWait, PermitBook
<1> QED
  BY <1>4, <1>5 DEF SlotInv

LEMMA SlotStep == ASSUME SlotInv, [SlotsNext]_slotsVars PROVE SlotInv'
<1>1. CASE UNCHANGED slotsVars
  BY <1>1 DEF slotsVars, SlotInv, SlotConstants, SlotTypes, WaitersWait, PermitBook, MutationBook
<1>2. CASE SlotsNext
  BY <1>2, SlotPreCheck, SlotAcquire, SlotTimeout, SlotPostCheck, SlotMutation, SlotStrayEnds
     DEF SlotsNext, Advance
<1> QED
  BY <1>1, <1>2

LEMMA SlotInvariant == SlotsSpec => []SlotInv
<1>1. SlotsInit => SlotInv
  BY SlotInit
<1>2. SlotInv /\ [SlotsNext]_slotsVars => SlotInv'
  BY SlotStep
<1> QED
  BY <1>1, <1>2, PTL DEF SlotsSpec

(* No permit of the semaphore is invented or counted twice, however many    *)
(* backfills take, wait for, time out on and release them: each is free,   *)
(* with one processor, or lost to a waiter that had timed out.             *)
THEOREM SlotPermitsAccounted == SlotsSpec => []PermitsAccounted
<1>1. SlotInv => PermitsAccounted
  BY SlotAtIsAt DEF SlotInv, PermitBook, PermitsAccounted
<1> QED
  BY <1>1, SlotInvariant, PTL

(* The double check lets ClickHouse be overrun by fewer mutations than there *)
(* are backfills, whatever is killed or left behind.                       *)
THEOREM SlotOvershootBounded == SlotsSpec => []OvershootBounded
<1>1. SlotInv => OvershootBounded
  BY SlotAtIsAt DEF SlotInv, MutationBook, OvershootBounded
<1> QED
  BY <1>1, SlotInvariant, PTL
=============================================================================
