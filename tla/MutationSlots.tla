---------------------------- MODULE MutationSlots ----------------------------
(***************************************************************************)
(* acquireMutationSlot() of FilterBackfillProcessor                        *)
(* (api/src/filters/backfill/backfill.processor.ts) and its three callers: *)
(* the backfills of all workspaces share a semaphore (async-mutex) and the *)
(* count of unfinished mutations in ClickHouse's system.mutations.  The    *)
(* wait for the semaphore is raced against a timeout that does not take    *)
(* the waiter out of the semaphore's queue.                                *)
(***************************************************************************)
EXTENDS Naturals, Sequences, FiniteSets

CONSTANTS
    Procs,       \* backfills that may run at once, one per workspace
    Permits,     \* permits of GLOBAL_MUTATION_SEMAPHORE
    HardLimit,   \* CLICKHOUSE_HARD_LIMIT
    MaxAcquires, \* bound: acquire() calls of one behaviour
    Gone         \* a waiter whose timeout has fired

ASSUME SlotsAssumption ==
    /\ IsFiniteSet(Procs)
    /\ Permits \in Nat \ {0}
    /\ HardLimit \in Nat \ {0}
    /\ MaxAcquires \in Nat
    /\ Gone \notin Procs

VARIABLES
    where,       \* where a processor is in acquireMutationSlot() and its caller
    free,     \* permits nobody has
    queue,    \* waiters of the semaphore, oldest first
    leaked,   \* permits given to a waiter that was gone
    running,  \* mutations with is_done = 0
    acquires  \* acquire() calls so far

slotsVars == <<where, free, queue, leaked, running, acquires>>

At(place) == {p \in Procs : where[p] = place}

(* Mutant: one mutation too many is let through. *)
OverloadedBeyond == running > HardLimit

Overloaded == running >= HardLimit

SlotsInit ==
    /\ where = [p \in Procs |-> "idle"]
    /\ free = Permits
    /\ queue = <<>>
    /\ leaked = 0
    /\ running = 0
    /\ acquires = 0

(* The pre-check: an overloaded ClickHouse makes it throw, which leaves the *)
(* processor where it was.                                                 *)
PreCheck(p) ==
    /\ where[p] = "idle"
    /\ ~Overloaded
    /\ where' = [where EXCEPT ![p] = "checked"]
    /\ UNCHANGED <<free, queue, leaked, running, acquires>>

Acquire(p) ==
    /\ where[p] = "checked"
    /\ acquires < MaxAcquires
    /\ acquires' = acquires + 1
    /\ IF free > 0
       THEN /\ free' = free - 1
            /\ where' = [where EXCEPT ![p] = "holding"]
            /\ UNCHANGED queue
       ELSE /\ queue' = Append(queue, p)
            /\ where' = [where EXCEPT ![p] = "queued"]
            /\ UNCHANGED free
    /\ UNCHANGED <<leaked, running>>

(* Mutant: a timed-out waiter also leaves the queue, but gives back a permit *)
(* it never had.                                                            *)
TimeoutReleases(p) ==
    /\ where[p] = "queued"
    /\ where' = [where EXCEPT ![p] = "idle"]
    /\ queue' = SelectSeq(queue, LAMBDA q : q # p)
    /\ free' = free + 1
    /\ UNCHANGED <<leaked, running, acquires>>

(* timeoutPromise wins the race: the caller fails, its waiter stays queued. *)
Timeout(p) ==
    /\ where[p] = "queued"
    /\ where' = [where EXCEPT ![p] = "idle"]
    /\ queue' = [i \in 1..Len(queue) |-> IF queue[i] = p THEN Gone ELSE queue[i]]
    /\ UNCHANGED <<free, leaked, running, acquires>>

(* release(): the permit goes to the oldest waiter, present or gone. *)
Release(p, next) ==
    IF queue = <<>>
    THEN /\ free' = free + 1
         /\ where' = [where EXCEPT ![p] = next]
         /\ UNCHANGED <<queue, leaked>>
    ELSE LET head == Head(queue)
         IN  /\ queue' = Tail(queue)
             /\ UNCHANGED free
             /\ IF head = Gone
                THEN /\ leaked' = leaked + 1
                     /\ where' = [where EXCEPT ![p] = next]
                ELSE /\ where' = [where EXCEPT ![p] = next, ![head] = "holding"]
                     /\ UNCHANGED leaked

PostCheckPasses(p) ==
    /\ where[p] = "holding"
    /\ ~Overloaded
    /\ Release(p, "passed")
    /\ UNCHANGED <<running, acquires>>

(* Mutant: no finally block, the permit is only released on success. *)
PostCheckKeepsPermit(p) ==
    /\ where[p] = "holding"
    /\ where' = [where EXCEPT ![p] = "idle"]
    /\ UNCHANGED <<free, queue, leaked, running, acquires>>

(* Too many mutations by now, or the query itself fails. *)
PostCheckThrows(p) ==
    /\ where[p] = "holding"
    /\ Release(p, "idle")
    /\ UNCHANGED <<running, acquires>>

(* The caller's ALTER TABLE, which may fail. *)
Submit(p) ==
    /\ where[p] = "passed"
    /\ where' = [where EXCEPT ![p] = "mutating"]
    /\ running' = running + 1
    /\ UNCHANGED <<free, queue, leaked, acquires>>

SubmitFails(p) ==
    /\ where[p] = "passed"
    /\ where' = [where EXCEPT ![p] = "idle"]
    /\ UNCHANGED <<free, queue, leaked, running, acquires>>

(* waitForMutations(): the mutation finishes or is killed in time; or the   *)
(* wait times out and the best-effort kill fails, leaving it running.      *)
MutationEnds(p) ==
    /\ where[p] = "mutating"
    /\ running' = running - 1
    /\ where' = [where EXCEPT ![p] = "idle"]
    /\ UNCHANGED <<free, queue, leaked, acquires>>

WaitGivesUp(p) ==
    /\ where[p] = "mutating"
    /\ where' = [where EXCEPT ![p] = "idle"]
    /\ UNCHANGED <<free, queue, leaked, running, acquires>>

(* ClickHouse finishes a mutation nobody waits for any more. *)
StrayEnds ==
    /\ running > Cardinality(At("mutating"))
    /\ running' = running - 1
    /\ UNCHANGED <<where, free, queue, leaked, acquires>>

Advance(p) ==
    \/ PostCheckPasses(p) \/ PostCheckThrows(p) \/ Submit(p) \/ SubmitFails(p)
    \/ MutationEnds(p) \/ WaitGivesUp(p)

SlotsNext ==
    \/ \E p \in Procs : PreCheck(p) \/ Acquire(p) \/ Timeout(p) \/ Advance(p)
    \/ StrayEnds

SlotsSpec == SlotsInit /\ [][SlotsNext]_slotsVars

(* The queries of a processor that has its permit settle.  Nothing is        *)
(* assumed of the timeout of those that wait: it may always come too late. *)
SlotsFairSpec == SlotsSpec /\ \A p \in Procs : WF_slotsVars(Advance(p))

-----------------------------------------------------------------------------
SlotsTypeOK ==
    /\ where \in [Procs -> {"idle", "checked", "queued", "holding", "passed", "mutating"}]
    /\ free \in 0..Permits
    /\ queue \in Seq(Procs \cup {Gone})
    /\ leaked \in 0..Permits
    /\ running \in Nat
    /\ acquires \in 0..MaxAcquires

(* No permit is invented or counted twice: every one is free, with exactly  *)
(* one processor in its post-check, or lost to a timeout; so never more    *)
(* than Permits processors are in the post-check at once.                  *)
PermitsAccounted ==
    /\ free + Cardinality(At("holding")) + leaked = Permits
    /\ free > 0 => queue = <<>>

(* How far the double check lets ClickHouse be overrun, whatever is killed  *)
(* or left behind: the processors between check and ALTER, not more.       *)
OvershootBounded ==
    running + Cardinality(At("passed")) < HardLimit + Cardinality(Procs)

(* The semaphore serves its queue: a processor that waits for a permit gets  *)
(* one without the help of its timeout, as long as a permit is left: the   *)
(* only way to wait in vain is that timeouts have lost every one of them.  *)
ServedUnlessLeaked ==
    \A p \in Procs : where[p] = "queued" ~> (where[p] # "queued" \/ leaked = Permits)

-----------------------------------------------------------------------------
(* Claims of the documentation that the code does not keep.                *)

(* "Semaphore released after check": with nobody waiting or checking, all   *)
(* permits are back.                                                       *)
PermitsComeBack == At("queued") \cup At("holding") = {} => free = Permits
=============================================================================
