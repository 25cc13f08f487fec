------------------------------ MODULE SdkSender ------------------------------
(***************************************************************************)
(* The sender of the browser SDK (transport/sender.ts) in the tabs of one  *)
(* site: payloads sent by fetch or by beacon, and the offline queue,       *)
(* flushed when the browser is online again.  The queue is in localStorage *)
(* and shared by the tabs, until localStorage fails a tab: from then on    *)
(* the tab keeps a queue of its own in memory (storage/storage.ts) and     *)
(* neither reads nor clears what localStorage still holds.                 *)
(*                                                                         *)
(* A tab runs one handler at a time, and a handler up to its await without *)
(* interruption; two tabs run in parallel, so that a read and a write of   *)
(* localStorage by one of them are two steps.                              *)
(***************************************************************************)
EXTENDS Naturals, Sequences

CONSTANTS
    Tabs,
    MaxQueue,  \* MAX_QUEUE_SIZE
    TTL,       \* QUEUE_TTL_MS, in ticks
    MaxMade,   \* bound: payloads built
    MaxClock,  \* bound: the clock
    MaxFlips,  \* bound: changes of the connection, closed tabs, failures and timeouts
    Nil

(* Why the sender gives a payload up. *)
Reasons == {"full", "beacon", "error", "old", "closed"}

ASSUME SenderConstants ==
    /\ MaxQueue \in Nat \ {0} /\ TTL \in Nat
    /\ MaxMade \in Nat /\ MaxClock \in Nat /\ MaxFlips \in Nat
    /\ Nil \notin Nat \cup {"push", "clear", "merge"} \cup Reasons

VARIABLES
    queue,    \* PENDING_QUEUE in localStorage: [n, at], oldest first
    tab,      \* tab -> [inMemory, memory, io, snap, add, event, flushing, todo, failed];
              \* inMemory: useMemory; memory: PENDING_QUEUE there; event: an online
              \* event is pending
    sends,    \* fetches whose answer is awaited: [n, tab, at, got]; at: Nil outside a flush
    online,   \* navigator.onLine
    clock,    \* the clock
    made,     \* payloads built; a payload is its number
    got,      \* payload -> times the server received it
    unsure,   \* history: payload -> times it was received and the tab took it as failed
    gone,     \* history: payload -> why the sender gave it up, or Nil
    raced,    \* history: two tabs were between a read and a write of the queue
    behind,   \* history: payloads in localStorage when a tab failed to write there
    flips     \* changes of the connection, closed tabs, failures and timeouts so far

senderVars ==
    <<queue, tab, sends, online, clock, made, got, unsure, gone, raced, behind, flips>>

Fresh == [inMemory |-> FALSE, memory |-> <<>>, io |-> Nil, snap |-> <<>>, add |-> <<>>,
          event |-> FALSE, flushing |-> FALSE, todo |-> <<>>, failed |-> <<>>]

Items(s) == {s[k].n : k \in DOMAIN s}

SenderInit ==
    /\ queue = <<>>
    /\ tab = [t \in Tabs |-> Fresh]
    /\ sends = {}
    /\ online \in BOOLEAN
    /\ clock = 0 /\ made = 0 /\ flips = 0
    /\ got = [n \in 1 .. MaxMade |-> 0]
    /\ unsure = [n \in 1 .. MaxMade |-> 0]
    /\ gone = [n \in 1 .. MaxMade |-> Nil]
    /\ raced = FALSE /\ behind = {}

(* The tab is free to run a handler. *)
Free(t) == tab[t].io = Nil

Awaiting(t) == \E x \in sends : x.tab = t /\ x.at # Nil

GiveUp(g, ns, why) == [n \in 1 .. MaxMade |-> IF n \in ns /\ g[n] = Nil THEN why ELSE g[n]]

-----------------------------------------------------------------------------
(* The queue, in localStorage or in the tab's memory.                      *)

(* Storage.get(): what the tab sees of the queue. *)
Stored(t) == IF tab[t].inMemory THEN tab[t].memory ELSE queue

(* The tab is between a read and a write of localStorage. *)
Using(t) == tab[t].io # Nil /\ ~tab[t].inMemory

(* The first half of enqueue(), of a flush or of a merge: the queue is read. *)
Read(t, rec) ==
    /\ tab' = [tab EXCEPT ![t] = [rec EXCEPT !.snap = Stored(t)]]
    /\ raced' = (raced \/ (~tab[t].inMemory /\ \E x \in Tabs \ {t} : Using(x)))

(* Storage.set(), in the second half: a failed setItem() moves the tab to  *)
(* its memory, and localStorage keeps the queue it had.                    *)
Set(t, s, rec) ==
    \/ /\ tab[t].inMemory
       /\ tab' = [tab EXCEPT ![t] = [rec EXCEPT !.memory = s]]
       /\ UNCHANGED <<queue, behind, flips>>
    \/ /\ ~tab[t].inMemory
       /\ queue' = s
       /\ tab' = [tab EXCEPT ![t] = rec]
       /\ UNCHANGED <<behind, flips>>
    \/ /\ ~tab[t].inMemory /\ flips < MaxFlips /\ flips' = flips + 1
       /\ tab' = [tab EXCEPT ![t] = [rec EXCEPT !.inMemory = TRUE, !.memory = s]]
       /\ behind' = behind \cup Items(queue)
       /\ UNCHANGED queue

(* The storage of a tab, one for all its keys, fails it elsewhere: in the  *)
(* test of its constructor, in a get(), or in a set() of another key.      *)
FallBack(t) ==
    /\ Free(t) /\ ~tab[t].inMemory /\ flips < MaxFlips /\ flips' = flips + 1
    /\ tab' = [tab EXCEPT ![t].inMemory = TRUE]
    /\ UNCHANGED <<queue, sends, online, clock, made, got, unsure, gone, raced, behind>>

Trimmed(s) == IF Len(s) > MaxQueue THEN SubSeq(s, Len(s) - MaxQueue + 1, Len(s)) ELSE s

(* saveQueue(): the newest MAX_QUEUE_SIZE items stay. *)
SaveQueue(t, s, rec) ==
    /\ Set(t, Trimmed(s), rec)
    /\ gone' = GiveUp(gone, Items(s) \ Items(Trimmed(s)), "full")

Enqueue(t, n) == Read(t, [tab[t] EXCEPT !.io = "push", !.add = <<[n |-> n, at |-> clock]>>])

(* The second half: the payload goes behind what was read. *)
Push(t) ==
    /\ tab[t].io = "push"
    /\ SaveQueue(t, tab[t].snap \o tab[t].add,
                 [tab[t] EXCEPT !.io = Nil, !.snap = <<>>, !.add = <<>>])
    /\ UNCHANGED <<sends, online, clock, made, got, unsure, raced>>

-----------------------------------------------------------------------------
(* sendSession() and sendSessionBeacon().                                  *)

Build == made < MaxMade /\ made' = made + 1

SendSession(t) ==
    /\ Free(t) /\ Build
    /\ IF online
       THEN /\ sends' = sends \cup {[n |-> made', tab |-> t, at |-> Nil, got |-> FALSE]}
            /\ UNCHANGED <<tab, raced>>
       ELSE Enqueue(t, made') /\ UNCHANGED sends
    /\ UNCHANGED <<queue, online, clock, got, unsure, gone, behind, flips>>

(* The browser delivers a beacon, or it does not; nobody learns which. *)
SendSessionBeacon(t) ==
    /\ Free(t) /\ Build
    /\ \/ ~online /\ Enqueue(t, made') /\ UNCHANGED <<got, gone>>
       \/ online /\ got' = [got EXCEPT ![made'] = @ + 1] /\ UNCHANGED <<tab, raced, gone>>
       \/ online /\ gone' = GiveUp(gone, {made'}, "beacon") /\ UNCHANGED <<tab, raced, got>>
    /\ UNCHANGED <<queue, sends, online, clock, unsure, behind, flips>>

(* The server receives a payload. *)
Receive(x) ==
    /\ x \in sends /\ ~x.got
    /\ sends' = (sends \ {x}) \cup {[x EXCEPT !.got = TRUE]}
    /\ got' = [got EXCEPT ![x.n] = @ + 1]
    /\ UNCHANGED <<queue, tab, online, clock, made, unsure, gone, raced, behind, flips>>

Doubt(x) == unsure' = IF x.got THEN [unsure EXCEPT ![x.n] = @ + 1] ELSE unsure

FetchAnswered(x) ==
    /\ x \in sends /\ x.at = Nil /\ x.got /\ Free(x.tab)
    /\ sends' = sends \ {x}
    /\ UNCHANGED <<queue, tab, online, clock, made, got, unsure, gone, raced, behind, flips>>

(* An error other than a timeout drops the payload. *)
SendFails(x) ==
    /\ x \in sends /\ x.at = Nil /\ Free(x.tab) /\ flips < MaxFlips
    /\ flips' = flips + 1
    /\ sends' = sends \ {x}
    /\ gone' = GiveUp(gone, {x.n}, "error")
    /\ Doubt(x)
    /\ UNCHANGED <<queue, tab, online, clock, made, got, raced, behind>>

(* TIMEOUT_MS is over: the fetch is aborted, received or not, and queued. *)
Timeout(x) ==
    /\ x \in sends /\ x.at = Nil /\ Free(x.tab) /\ flips < MaxFlips
    /\ flips' = flips + 1
    /\ sends' = sends \ {x}
    /\ Enqueue(x.tab, x.n)
    /\ Doubt(x)
    /\ UNCHANGED <<queue, online, clock, made, got, gone, behind>>

-----------------------------------------------------------------------------
(* handleOnline().                                                         *)

HandleOnline(t) ==
    /\ Free(t) /\ tab[t].event
    /\ IF tab[t].flushing \/ Stored(t) = <<>>
       THEN tab' = [tab EXCEPT ![t].event = FALSE] /\ UNCHANGED raced
       ELSE Read(t, [tab[t] EXCEPT !.event = FALSE, !.io = "clear", !.flushing = TRUE])
    /\ UNCHANGED <<queue, sends, online, clock, made, got, unsure, gone, behind, flips>>

(* Mutant: the queue is left as it is while its items are sent. *)
ClearedNot(t) == Stored(t)

(* "Clear queue immediately to prevent duplicates" *)
Cleared(t) == <<>>

Expired(item) == clock - item.at > TTL

ExpiredOf(s) == {s[k].n : k \in {j \in DOMAIN s : Expired(s[j])}}

(* The items that are still worth sending, in their order. *)
Unexpired(s) ==
    LET kept[k \in 0 .. Len(s)] ==
            IF k = 0 THEN <<>>
            ELSE IF Expired(s[k]) THEN kept[k - 1] ELSE Append(kept[k - 1], s[k])
    IN  kept[Len(s)]

Clear(t) ==
    /\ tab[t].io = "clear"
    /\ Set(t, Cleared(t), [tab[t] EXCEPT !.io = Nil, !.snap = <<>>,
                                         !.todo = Unexpired(tab[t].snap)])
    /\ gone' = GiveUp(gone, ExpiredOf(tab[t].snap), "old")
    /\ UNCHANGED <<sends, online, clock, made, got, unsure, raced>>

(* sendSessionDirect() of the next item; one at a time. *)
FlushNext(t) ==
    /\ Free(t) /\ tab[t].flushing /\ tab[t].todo # <<>> /\ ~Awaiting(t)
    /\ sends' = sends \cup {[n |-> Head(tab[t].todo).n, tab |-> t,
                             at |-> Head(tab[t].todo).at, got |-> FALSE]}
    /\ tab' = [tab EXCEPT ![t].todo = Tail(@)]
    /\ UNCHANGED <<queue, online, clock, made, got, unsure, gone, raced, behind, flips>>

FlushAnswered(x) ==
    /\ x \in sends /\ x.at # Nil /\ Free(x.tab)
    /\ sends' = sends \ {x}
    /\ \/ x.got /\ UNCHANGED <<tab, unsure, flips>>
       \/ /\ flips < MaxFlips /\ flips' = flips + 1
          /\ Doubt(x)
          /\ tab' = [tab EXCEPT ![x.tab].failed = Append(@, [n |-> x.n, at |-> x.at])]
    /\ UNCHANGED <<queue, online, clock, made, got, gone, raced, behind>>

(* The loop is over: what failed is merged in front of what came meanwhile. *)
FlushEnd(t) ==
    /\ Free(t) /\ tab[t].flushing /\ tab[t].todo = <<>> /\ ~Awaiting(t)
    /\ IF tab[t].failed = <<>>
       THEN tab' = [tab EXCEPT ![t].flushing = FALSE] /\ UNCHANGED raced
       ELSE Read(t, [tab[t] EXCEPT !.io = "merge"])
    /\ UNCHANGED <<queue, sends, online, clock, made, got, unsure, gone, behind, flips>>

(* Mutant: what was queued during the flush is overwritten. *)
MergedOver(failed, current) == failed

Merged(failed, current) == failed \o current

MergeBack(t) ==
    /\ tab[t].io = "merge"
    /\ SaveQueue(t, Merged(tab[t].failed, tab[t].snap),
                 [tab[t] EXCEPT !.io = Nil, !.snap = <<>>, !.failed = <<>>, !.flushing = FALSE])
    /\ UNCHANGED <<sends, online, clock, made, got, unsure, raced>>

-----------------------------------------------------------------------------
(* The browser.                                                            *)

(* The connection is lost, or is back, which the tabs are told of. *)
Connection ==
    /\ flips < MaxFlips /\ flips' = flips + 1
    /\ online' = ~online
    /\ tab' = IF online THEN tab ELSE [t \in Tabs |-> [tab[t] EXCEPT !.event = TRUE]]
    /\ UNCHANGED <<queue, sends, clock, made, got, unsure, gone, raced, behind>>

(* A tab is closed, and opened again with localStorage; its memory is lost *)
(* and its fetches outlive it (keepalive).                                 *)
Close(t) ==
    /\ Free(t) /\ flips < MaxFlips /\ flips' = flips + 1
    /\ tab' = [tab EXCEPT ![t] = Fresh]
    /\ sends' = {x \in sends : x.tab # t}
    /\ LET open == {x \in sends : x.tab = t}
       IN  \E lost \in SUBSET {x \in open : ~x.got} :
             /\ got' = [n \in 1 .. MaxMade |->
                           got[n] + IF \E x \in open \ lost : x.n = n /\ ~x.got THEN 1 ELSE 0]
             /\ gone' = GiveUp(gone, Items(tab[t].memory) \cup Items(tab[t].todo)
                                       \cup Items(tab[t].failed)
                                       \cup {x.n : x \in lost}, "closed")
    /\ UNCHANGED <<queue, online, clock, made, unsure, raced, behind>>

ClockTick ==
    /\ clock < MaxClock /\ clock' = clock + 1
    /\ UNCHANGED <<queue, tab, sends, online, made, got, unsure, gone, raced, behind, flips>>

SenderNext ==
    \/ \E t \in Tabs :
          \/ SendSession(t) \/ SendSessionBeacon(t) \/ Push(t)
          \/ HandleOnline(t) \/ Clear(t) \/ FlushNext(t) \/ FlushEnd(t) \/ MergeBack(t)
          \/ FallBack(t) \/ Close(t)
    \/ \E x \in sends :
          \/ Receive(x) \/ FetchAnswered(x) \/ SendFails(x) \/ Timeout(x)
          \/ FlushAnswered(x)
    \/ Connection \/ ClockTick

SenderSpec == SenderInit /\ [][SenderNext]_senderVars

-----------------------------------------------------------------------------
(* Where a payload may still be. *)
Held(n) ==
    \/ n \in Items(queue)
    \/ \E x \in sends : x.n = n
    \/ \E t \in Tabs : n \in Items(tab[t].memory) \cup Items(tab[t].todo)
                               \cup Items(tab[t].failed) \cup Items(tab[t].add)
                               \cup Items(tab[t].snap)

(* No payload vanishes: each was received, or is queued or on its way, or  *)
(* was given up for a reason the sender knows of - an answer that was an   *)
(* error, a beacon, its age, a full queue, a closed tab with what it had   *)
(* to keep in memory.  In particular a payload queued while a flush is     *)
(* running survives the flush, and none is lost because localStorage fails *)
(* a tab.  Two tabs that read and write the queue in localStorage at the   *)
(* same time may lose one.                                                 *)
NothingVanishes ==
    \A n \in 1 .. made : got[n] > 0 \/ Held(n) \/ gone[n] # Nil \/ raced

(* The server receives a payload again only for every time it had received *)
(* it and the tab could not know, unless it was in localStorage when a tab *)
(* failed to write the queue there: what that tab then sends or saves from *)
(* its memory, the others find in localStorage again.  Otherwise a flush   *)
(* never sends twice what is queued once, whatever timeouts, failed items, *)
(* second flushes and failures of the storage there are.                   *)
RepeatsAreExplained ==
    \A n \in 1 .. made : got[n] <= unsure[n] + 1 \/ n \in behind \/ raced
=============================================================================
