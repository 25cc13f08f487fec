-------------------------- MODULE EventBufferProofs --------------------------
(***************************************************************************)
(* Proofs about EventBuffer, for every set of workspaces and callers and   *)
(* every size: the type invariant, the single insert per workspace, the    *)
(* pipeline (no event is lost, duplicated or reordered) as a refinement of *)
(* EventLog, the timer behind requeued events, what shutdown has flushed,  *)
(* and the retention after a failed insert.                                *)
(***************************************************************************)
EXTENDS EventBuffer, TLAPS, SequenceTheorems, FiniteSetTheorems

(* A call that is adding or awaiting is one of the records of CallerStates. *)
LEMMA BusyCaller ==
    ASSUME TypeOK, NEW c \in Callers, caller[c].pc # "idle"
    PROVE  caller[c] \in [pc : {"adding", "awaiting"}, ws : Workspaces,
                          left : Seq(Events), sync : BOOLEAN]
BY DEF TypeOK, CallerStates, Idle

(* What add() works on: a workspace, its buffer and the next event. *)
LEMMA AddTypes ==
    ASSUME TypeOK, NEW c \in Callers, Add(c)
    PROVE  /\ caller[c].ws \in Workspaces
           /\ Head(caller[c].left) \in Events
           /\ buffer[caller[c].ws] \in Seq(Events)
<1>1. caller[c] \in [pc : {"adding", "awaiting"}, ws : Workspaces,
                     left : Seq(Events), sync : BOOLEAN]
  BY BusyCaller DEF Add
<1>2. caller[c].ws \in Workspaces /\ caller[c].left \in Seq(Events)
  BY <1>1
<1>3. caller[c].left # <<>>
  BY DEF Add
<1>4. buffer[caller[c].ws] \in Seq(Events)
  BY <1>2 DEF TypeOK
<1> QED
  BY <1>2, <1>3, <1>4

(* The events a failed insert leaves in the buffer. *)
LEMMA KeptProperties ==
    ASSUME TypeOK, BufferAssumption, NEW w \in Workspaces
    PROVE  /\ Merged(w) \in Seq(Events)
           /\ Len(Merged(w)) = Len(inflight[w]) + Len(buffer[w])
           /\ Overflow(w) \in Nat
           /\ Overflow(w) <= Len(Merged(w))
           /\ Kept(w) \in Seq(Events)
           /\ Len(Kept(w)) = Len(Merged(w)) - Overflow(w)
           /\ Len(Kept(w)) <= MaxRetained
           /\ \A i \in 1..Len(Kept(w)) : Kept(w)[i] = Merged(w)[Overflow(w) + i]
<1>1. /\ Merged(w) \in Seq(Events)
      /\ Len(Merged(w)) = Len(inflight[w]) + Len(buffer[w])
  BY ConcatProperties DEF TypeOK, Merged
<1>2. Len(Merged(w)) \in Nat
  BY <1>1, LenProperties
<1>3. Overflow(w) \in Nat /\ Overflow(w) <= Len(Merged(w))
  BY <1>2 DEF Overflow, BufferAssumption
<1>4. Overflow(w) + 1 \in 1..Len(Merged(w)) + 1 /\ Len(Merged(w)) \in 0..Len(Merged(w))
  BY <1>2, <1>3
<1>5. /\ Kept(w) \in Seq(Events)
      /\ Len(Kept(w)) = Len(Merged(w)) - Overflow(w)
      /\ \A i \in 1..Len(Kept(w)) : Kept(w)[i] = Merged(w)[Overflow(w) + i]
  <2>1. \A i \in Overflow(w) + 1 .. Len(Merged(w)) : Merged(w)[i] \in Events
    <3> DEFINE m == Merged(w)
    <3>1. m \in Seq(Events) BY <1>1
    <3>2. \A i \in 1..Len(m) : m[i] \in Events
      <4> HIDE DEF m
      <4> QED BY <3>1, ElementOfSeq
    <3> QED BY <1>2, <1>3, <3>2
  <2>2. Overflow(w) + 1 \in Int /\ Len(Merged(w)) \in Int
    BY <1>2, <1>3
  <2> HIDE DEF Merged, Overflow
  <2>3. /\ Kept(w) \in Seq(Events)
        /\ Len(Kept(w)) = IF Overflow(w) + 1 <= Len(Merged(w))
                           THEN Len(Merged(w)) - (Overflow(w) + 1) + 1 ELSE 0
        /\ \A i \in 1 .. Len(Merged(w)) - (Overflow(w) + 1) + 1 :
              Kept(w)[i] = Merged(w)[(Overflow(w) + 1) + i - 1]
    BY <2>1, <2>2, SubSeqProperties DEF Kept
  <2>5. Len(Kept(w)) = Len(Merged(w)) - Overflow(w)
    <3> DEFINE n == Len(Merged(w))
               o == Overflow(w)
               k == Len(Kept(w))
    <3>1. n \in Nat /\ o \in Nat /\ o <= n /\ k = IF o + 1 <= n THEN n - (o + 1) + 1 ELSE 0
      BY <1>2, <1>3, <2>3
    <3> HIDE DEF n, o, k
    <3>2. k = n - o
      BY <3>1
    <3> QED BY <3>2 DEF n, o, k
  <2>6. ASSUME NEW i \in 1..Len(Kept(w)) PROVE Kept(w)[i] = Merged(w)[Overflow(w) + i]
    <3>1. i \in 1 .. Len(Merged(w)) - (Overflow(w) + 1) + 1
      BY <1>2, <1>3, <2>5
    <3>2. (Overflow(w) + 1) + i - 1 = Overflow(w) + i
      BY <1>3
    <3> QED BY <2>3, <3>1, <3>2
  <2> QED BY <2>3, <2>5, <2>6
<1>6. Len(Kept(w)) <= MaxRetained
  BY <1>2, <1>5 DEF Overflow, BufferAssumption
<1> QED BY <1>1, <1>3, <1>5, <1>6

(* flush() up to its await keeps the types of what it touches. *)
LEMMA FlushTypes ==
    ASSUME TypeOK, NEW w \in Workspaces, NEW b \in Seq(Events), Flush(w, b)
    PROVE  /\ buffer' \in [Workspaces -> Seq(Events)]
           /\ timer' \in [Workspaces -> BOOLEAN]
           /\ flushing' \in SUBSET Workspaces
           /\ inflight' \in [Workspaces -> Seq(Events)]
           /\ requeued' \in [Workspaces -> BOOLEAN]
<1>1. timer' \in [Workspaces -> BOOLEAN]
  BY Zenon DEF Flush, TypeOK
<1>2. requeued' \in [Workspaces -> BOOLEAN]
  BY Zenon DEF Flush, TypeOK
<1>3. /\ buffer' \in [Workspaces -> Seq(Events)]
      /\ flushing' \in SUBSET Workspaces
      /\ inflight' \in [Workspaces -> Seq(Events)]
  <2>1. <<>> \in Seq(Events)
    OBVIOUS
  <2> QED BY <2>1 DEF Flush, TypeOK
<1> QED BY <1>1, <1>2, <1>3

(* What an insert adds to the table are events. *)
LEMMA InsertedEvents ==
    ASSUME TypeOK, NEW w \in Workspaces
    PROVE  stored[w] \cup {inflight[w][i] : i \in 1..Len(inflight[w])} \in SUBSET Events
<1> DEFINE q == inflight[w]
<1>1. q \in Seq(Events) /\ stored[w] \in SUBSET Events
  BY DEF TypeOK
<1>2. \A i \in 1..Len(q) : q[i] \in Events
  <2> HIDE DEF q
  <2> QED BY <1>1, ElementOfSeq
<1> QED BY <1>1, <1>2

(* The type invariant: every state of the buffer is well formed. *)
LEMMA TypeStep == TypeOK /\ BufferAssumption /\ [Next]_vars => TypeOK'
<1> SUFFICES ASSUME TypeOK, BufferAssumption, [Next]_vars PROVE TypeOK'
  OBVIOUS
<1> USE DEF TypeOK
<1>1. ASSUME NEW c \in Callers, NEW w \in Workspaces, NEW n \in 1..MaxBatch,
             NEW sync \in BOOLEAN, BeginBatch(c, w, n, sync)
      PROVE  TypeOK'
  <2>1. [i \in 1..n |-> offered + i] \in Seq(Events)
    BY <1>1 DEF BeginBatch, Events, BufferAssumption
  <2>2. caller' \in [Callers -> CallerStates]
    BY <1>1, <2>1 DEF BeginBatch, CallerStates
  <2> QED
    BY <1>1, <2>2 DEF BeginBatch, bufferVars, historyVars, shutdownVars, BufferAssumption
<1>2. ASSUME NEW c \in Callers, Add(c) PROVE TypeOK'
  <2> DEFINE w == caller[c].ws
             e == Head(caller[c].left)
             b == Append(buffer[w], e)
  <2>1. caller[c] \in [pc : {"adding", "awaiting"}, ws : Workspaces,
                       left : Seq(Events), sync : BOOLEAN]
    BY <1>2, BusyCaller DEF Add
  <2>2. w \in Workspaces /\ e \in Events /\ b \in Seq(Events)
    BY <1>2, <2>1 DEF Add
  <2>3. caller' \in [Callers -> CallerStates]
    <3>1. Tail(caller[c].left) \in Seq(Events)
      BY <1>2, <2>1 DEF Add
    <3> QED BY <1>2, <2>1, <3>1 DEF Add, CallerStates
  <2>4. accepted' \in [Workspaces -> Seq(Events)]
    BY <1>2, <2>2 DEF Add
  <2>5. /\ buffer' \in [Workspaces -> Seq(Events)]
        /\ timer' \in [Workspaces -> BOOLEAN]
        /\ flushing' \in SUBSET Workspaces
        /\ inflight' \in [Workspaces -> Seq(Events)]
        /\ requeued' \in [Workspaces -> BOOLEAN]
    <3>1. CASE Len(b) >= MaxBufferSize
      <4>1. Flush(w, b) BY <1>2, <3>1 DEF Add
      <4> QED BY <4>1, <2>2, FlushTypes
    <3>2. CASE ~(Len(b) >= MaxBufferSize)
      <4>1. buffer' \in [Workspaces -> Seq(Events)]
        BY <1>2, <2>2, <3>2 DEF Add
      <4>2. timer' \in [Workspaces -> BOOLEAN]
        BY <1>2, <2>2, <3>2, Zenon DEF Add, StartFlushTimer
      <4> QED BY <1>2, <3>2, <4>1, <4>2 DEF Add
    <3> QED BY <3>1, <3>2
  <2> QED
    BY <1>2, <2>3, <2>4, <2>5 DEF Add, shutdownVars
<1>3. ASSUME NEW c \in Callers, EndBatch(c) PROVE TypeOK'
  <2>1. caller[c] \in [pc : {"adding", "awaiting"}, ws : Workspaces,
                       left : Seq(Events), sync : BOOLEAN]
    BY <1>3, BusyCaller DEF EndBatch
  <2>2. caller' \in [Callers -> CallerStates]
    <3>1. [caller[c] EXCEPT !.pc = "awaiting", !.sync = FALSE] \in CallerStates
      BY <2>1 DEF CallerStates
    <3>2. Idle \in CallerStates
      BY DEF CallerStates
    <3> QED BY <1>3, <3>1, <3>2 DEF EndBatch
  <2>3. /\ buffer' \in [Workspaces -> Seq(Events)]
        /\ timer' \in [Workspaces -> BOOLEAN]
        /\ flushing' \in SUBSET Workspaces
        /\ inflight' \in [Workspaces -> Seq(Events)]
        /\ requeued' \in [Workspaces -> BOOLEAN]
    <3>1. CASE caller[c].sync
      BY <1>3, <2>1, <3>1, FlushTypes DEF EndBatch
    <3>2. CASE ~caller[c].sync
      BY <1>3, <3>2 DEF EndBatch
    <3> QED BY <3>1, <3>2
  <2> QED
    BY <1>3, <2>2, <2>3 DEF EndBatch, shutdownVars
<1>4. ASSUME NEW w \in Workspaces, TimerFires(w) PROVE TypeOK'
  BY <1>4, FlushTypes DEF TimerFires, shutdownVars
<1>5. ASSUME NEW w \in Workspaces, InsertSucceeds(w) PROVE TypeOK'
  <2>1. fate' \in [Workspaces -> Seq({"stored", "dropped"})]
    <3>1. Len(inflight[w]) \in Nat
      OBVIOUS
    <3>2. [i \in 1..Len(inflight[w]) |-> "stored"] \in Seq({"stored", "dropped"})
      BY <3>1, IsASeq
    <3>3. fate[w] \o [i \in 1..Len(inflight[w]) |-> "stored"] \in Seq({"stored", "dropped"})
      BY <3>2, ConcatProperties
    <3> QED BY <1>5, <3>3 DEF InsertSucceeds
  <2>2. stored' \in [Workspaces -> SUBSET Events]
    <3> DEFINE x == stored[w] \cup {inflight[w][i] : i \in 1..Len(inflight[w])}
    <3>1. x \in SUBSET Events
      BY InsertedEvents
    <3>2. stored' = [stored EXCEPT ![w] = x]
      BY <1>5 DEF InsertSucceeds
    <3> HIDE DEF x
    <3> QED BY <3>1, <3>2
  <2>3. caller' \in [Callers -> CallerStates]
    <3>1. ASSUME NEW c \in Awaiting(w)
          PROVE  [caller[c] EXCEPT !.pc = "adding"] \in CallerStates
      BY BusyCaller DEF Awaiting, CallerStates
    <3> QED BY <1>5, <3>1 DEF InsertSucceeds
  <2>4. stage' \in {"up", "closing", "closed", "aborted"} /\ closing' \in SUBSET Workspaces
    BY <1>5 DEF InsertSucceeds, DestroyResumes
  <2>5. inflight' \in [Workspaces -> Seq(Events)] /\ flushing' \in SUBSET Workspaces
    BY <1>5 DEF InsertSucceeds
  <2>6. UNCHANGED <<buffer, timer, droppedEvents, offered, accepted, requeued, due, busy>>
    BY <1>5 DEF InsertSucceeds, shutdownVars
  <2> QED
    BY <2>1, <2>2, <2>3, <2>4, <2>5, <2>6, Zenon
<1>6. ASSUME NEW w \in Workspaces, NEW written \in BOOLEAN, InsertFails(w, written)
      PROVE  TypeOK'
  <2>1. fate' \in [Workspaces -> Seq({"stored", "dropped"})]
    <3>1. [i \in 1..Overflow(w) |-> "dropped"] \in Seq({"stored", "dropped"})
      BY KeptProperties, IsASeq
    <3>2. fate[w] \o [i \in 1..Overflow(w) |-> "dropped"] \in Seq({"stored", "dropped"})
      BY <3>1, ConcatProperties
    <3> QED BY <1>6, <3>2 DEF InsertFails
  <2>2. stored' \in [Workspaces -> SUBSET Events]
    <3> DEFINE x == stored[w] \cup {inflight[w][i] : i \in 1..Len(inflight[w])}
    <3>1. x \in SUBSET Events
      BY InsertedEvents
    <3>2. stored' = [stored EXCEPT ![w] = x] \/ stored' = stored
      BY <1>6 DEF InsertFails
    <3> HIDE DEF x
    <3> QED BY <3>1, <3>2
  <2>3. caller' \in [Callers -> CallerStates]
    <3>1. caller' = [c \in Callers |-> IF c \in Awaiting(w) THEN Idle ELSE caller[c]]
      BY <1>6, Zenon DEF InsertFails
    <3>2. Idle \in CallerStates
      BY DEF Idle, CallerStates
    <3> QED BY <3>1, <3>2
  <2>4. stage' \in {"up", "closing", "closed", "aborted"} /\ closing' \in SUBSET Workspaces
    BY <1>6 DEF InsertFails, DestroyResumes
  <2>5. buffer' \in [Workspaces -> Seq(Events)] /\ droppedEvents' \in Nat
    <3>1. Kept(w) \in Seq(Events) /\ Overflow(w) \in Nat
      BY KeptProperties
    <3>2. buffer' = [buffer EXCEPT ![w] = Kept(w)] /\ droppedEvents' = droppedEvents + Overflow(w)
      BY <1>6, Zenon DEF InsertFails, CountDrops
    <3>3. buffer' \in [Workspaces -> Seq(Events)]
      BY <3>1, <3>2
    <3>4. droppedEvents' \in Nat
      BY <3>1, <3>2
    <3> QED BY <3>3, <3>4
  <2>6. timer' \in [Workspaces -> BOOLEAN] /\ requeued' \in [Workspaces -> BOOLEAN]
    BY <1>6, Zenon DEF InsertFails, StartFlushTimer
  <2>7. inflight' \in [Workspaces -> Seq(Events)] /\ flushing' \in SUBSET Workspaces
    BY <1>6 DEF InsertFails
  <2>8. UNCHANGED <<offered, accepted, due, busy>>
    BY <1>6 DEF InsertFails, shutdownVars
  <2> QED
    BY <2>1, <2>2, <2>3, <2>4, <2>5, <2>6, <2>7, <2>8, Zenon
<1>7. CASE Destroy
  <2>1. timer' \in [Workspaces -> BOOLEAN] /\ requeued' \in [Workspaces -> BOOLEAN]
    BY <1>7, Zenon DEF Destroy
  <2>2. /\ buffer' \in [Workspaces -> Seq(Events)]
        /\ inflight' \in [Workspaces -> Seq(Events)]
        /\ flushing' \in SUBSET Workspaces
        /\ closing' \in SUBSET Workspaces
    <3>1. <<>> \in Seq(Events) OBVIOUS
    <3> QED BY <1>7, <3>1 DEF Destroy
  <2>3. /\ stage' \in {"up", "closing", "closed", "aborted"}
        /\ due' \in [Workspaces -> Nat]
        /\ busy' \in SUBSET Workspaces
    BY <1>7 DEF Destroy
  <2> QED BY <1>7, <2>1, <2>2, <2>3 DEF Destroy
<1>8. CASE UNCHANGED vars
  BY <1>8 DEF vars, bufferVars, historyVars, shutdownVars
<1> HIDE DEF TypeOK
<1> QED
  BY <1>1, <1>2, <1>3, <1>4, <1>5, <1>6, <1>7, <1>8 DEF Next, InsertSettles

(* EventBuffer is well typed in every reachable state. *)
THEOREM TypeCorrect == Spec => []TypeOK
<1>1. Init => TypeOK
  BY DEF Init, TypeOK, CallerStates, Idle
<1>2. TypeOK /\ [Next]_vars => TypeOK'
  BY TypeStep, BufferAssumption
<1> QED BY <1>1, <1>2, PTL DEF Spec

-----------------------------------------------------------------------------
(* One insert per workspace.                                               *)

(* What flush() does to the single-flight facts, whoever calls it. *)
LEMMA FlushSingle ==
    ASSUME TypeOK, SingleFlight, NEW w \in Workspaces, NEW b \in Seq(Events), Flush(w, b)
    PROVE  /\ \A v \in Workspaces : v \in flushing' <=> inflight'[v] # <<>>
           /\ flushing \subseteq flushing'
           /\ FlushStarts(w, b) => w \in flushing'
<1>1. inflight \in [Workspaces -> Seq(Events)]
  BY DEF TypeOK
<1>2. \A v \in Workspaces : v \in flushing <=> inflight[v] # <<>>
  BY DEF SingleFlight
<1>3. CASE FlushStarts(w, b)
  <2>1. flushing' = flushing \cup {w} /\ inflight' = [inflight EXCEPT ![w] = b] /\ b # <<>>
    BY <1>3 DEF Flush, FlushStarts
  <2> QED BY <1>1, <1>2, <2>1
<1>4. CASE ~FlushStarts(w, b)
  <2>1. flushing' = flushing /\ inflight' = inflight
    BY <1>4 DEF Flush
  <2> QED BY <1>2, <1>4, <2>1
<1> QED BY <1>3, <1>4

LEMMA SingleFlightStep ==
    TypeOK /\ SingleFlight /\ [Next]_vars => SingleFlight'
<1> SUFFICES ASSUME TypeOK, SingleFlight, [Next]_vars PROVE SingleFlight'
  OBVIOUS
<1>1. ASSUME NEW c \in Callers, NEW w \in Workspaces, NEW n \in 1..MaxBatch,
             NEW sync \in BOOLEAN, BeginBatch(c, w, n, sync)
      PROVE  SingleFlight'
  <2>1. \A v \in Workspaces : Awaiting(v)' = Awaiting(v)
    BY <1>1 DEF BeginBatch, Awaiting, TypeOK, Idle
  <2> QED
    BY <1>1, <2>1 DEF SingleFlight, BeginBatch, bufferVars
<1>2. ASSUME NEW c \in Callers, Add(c) PROVE SingleFlight'
  <2> DEFINE w == caller[c].ws
             b == Append(buffer[w], Head(caller[c].left))
             full == Len(b) >= MaxBufferSize
             starts == full /\ FlushStarts(w, b)
  <2>1. caller[c] \in [pc : {"adding", "awaiting"}, ws : Workspaces,
                       left : Seq(Events), sync : BOOLEAN]
    BY <1>2, BusyCaller DEF Add
  <2>2. w \in Workspaces /\ b \in Seq(Events)
    BY <1>2, AddTypes
  <2>3. /\ \A v \in Workspaces : v \in flushing' <=> inflight'[v] # <<>>
        /\ flushing \subseteq flushing'
        /\ starts => w \in flushing'
    <3>1. CASE full
      <4>1. Flush(w, b) BY <1>2, <3>1 DEF Add
      <4> HIDE DEF w, b
      <4> QED BY <4>1, <2>2, FlushSingle
    <3>2. CASE ~full
      BY <1>2, <3>2 DEF Add, SingleFlight
    <3> QED BY <3>1, <3>2
  <2>4. \A v \in Workspaces :
           Awaiting(v)' = IF starts /\ v = w THEN Awaiting(v) \cup {c} ELSE Awaiting(v)
    BY <1>2, <2>1 DEF Add, Awaiting, TypeOK
  <2>5. starts => w \notin flushing
    BY DEF FlushStarts
  <2>6. starts => Awaiting(w) = {} /\ w \notin closing
    BY <2>2, <2>5 DEF SingleFlight
  <2>7. closing' = closing
    BY <1>2 DEF Add
  <2> HIDE DEF w, b, starts
  <2> QED BY <2>2, <2>3, <2>4, <2>6, <2>7 DEF SingleFlight
<1>3. ASSUME NEW c \in Callers, EndBatch(c) PROVE SingleFlight'
  <2> DEFINE w == caller[c].ws
             starts == caller[c].sync /\ FlushStarts(w, buffer[w])
  <2>1. caller[c] \in [pc : {"adding", "awaiting"}, ws : Workspaces,
                       left : Seq(Events), sync : BOOLEAN]
    BY <1>3, BusyCaller DEF EndBatch
  <2>2. w \in Workspaces /\ buffer[w] \in Seq(Events)
    BY <2>1 DEF TypeOK
  <2>3. /\ \A v \in Workspaces : v \in flushing' <=> inflight'[v] # <<>>
        /\ flushing \subseteq flushing'
        /\ starts => w \in flushing'
    <3>1. CASE caller[c].sync
      <4>1. Flush(w, buffer[w]) BY <1>3, <3>1 DEF EndBatch
      <4> HIDE DEF w
      <4> QED BY <4>1, <2>2, FlushSingle
    <3>2. CASE ~caller[c].sync
      BY <1>3, <3>2 DEF EndBatch, SingleFlight
    <3> QED BY <3>1, <3>2
  <2>4. \A v \in Workspaces :
           Awaiting(v)' = IF starts /\ v = w THEN Awaiting(v) \cup {c} ELSE Awaiting(v)
    <3>1. CASE starts
      <4>1. caller' = [caller EXCEPT ![c] =
                         [caller[c] EXCEPT !.pc = "awaiting", !.sync = FALSE]]
        BY <1>3, <3>1 DEF EndBatch
      <4> QED BY <2>1, <3>1, <4>1 DEF Awaiting, TypeOK
    <3>2. CASE ~starts
      <4>1. caller' = [caller EXCEPT ![c] = Idle]
        BY <1>3, <3>2 DEF EndBatch
      <4>2. caller[c].pc = "adding"
        BY <1>3 DEF EndBatch
      <4> QED BY <3>2, <4>1, <4>2 DEF Awaiting, TypeOK, Idle
    <3> QED BY <3>1, <3>2
  <2>5. starts => Awaiting(w) = {} /\ w \notin closing
    BY <2>2 DEF SingleFlight, FlushStarts
  <2>6. closing' = closing
    BY <1>3 DEF EndBatch
  <2> HIDE DEF w, starts
  <2> QED BY <2>2, <2>3, <2>4, <2>5, <2>6 DEF SingleFlight
<1>4. ASSUME NEW w \in Workspaces, TimerFires(w) PROVE SingleFlight'
  <2>1. /\ \A v \in Workspaces : v \in flushing' <=> inflight'[v] # <<>>
        /\ flushing \subseteq flushing'
    BY <1>4, FlushSingle DEF TimerFires, TypeOK
  <2>2. \A v \in Workspaces : Awaiting(v)' = Awaiting(v)
    BY <1>4 DEF TimerFires, Awaiting
  <2> QED BY <1>4, <2>1, <2>2 DEF SingleFlight, TimerFires
<1>5. ASSUME NEW w \in Workspaces, InsertSucceeds(w) PROVE SingleFlight'
  <2>1. \A v \in Workspaces : Awaiting(v)' = IF v = w THEN {} ELSE Awaiting(v)
    BY <1>5, BusyCaller DEF InsertSucceeds, Awaiting, TypeOK
  <2>2. closing' = closing \ {w}
    BY <1>5 DEF InsertSucceeds, DestroyResumes
  <2>3. /\ flushing' = flushing \ {w}
        /\ \A v \in Workspaces : inflight'[v] = IF v = w THEN <<>> ELSE inflight[v]
    BY <1>5 DEF InsertSucceeds, TypeOK
  <2> QED BY <2>1, <2>2, <2>3 DEF SingleFlight
<1>6. ASSUME NEW w \in Workspaces, NEW written \in BOOLEAN, InsertFails(w, written)
      PROVE  SingleFlight'
  <2>1. \A v \in Workspaces : Awaiting(v)' = IF v = w THEN {} ELSE Awaiting(v)
    BY <1>6 DEF InsertFails, Awaiting, Idle
  <2>2. closing' = closing \ {w}
    BY <1>6 DEF InsertFails, DestroyResumes
  <2>3. /\ flushing' = flushing \ {w}
        /\ \A v \in Workspaces : inflight'[v] = IF v = w THEN <<>> ELSE inflight[v]
    BY <1>6 DEF InsertFails, TypeOK
  <2> QED BY <2>1, <2>2, <2>3 DEF SingleFlight
<1>7. CASE Destroy
  <2>1. \A v \in Workspaces : Awaiting(v)' = Awaiting(v)
    BY <1>7 DEF Destroy, Awaiting
  <2> QED BY <1>7, <2>1 DEF Destroy, SingleFlight, FlushStarts, TypeOK
<1>8. CASE UNCHANGED vars
  BY <1>8 DEF vars, bufferVars, SingleFlight, Awaiting
<1> QED
  BY <1>1, <1>2, <1>3, <1>4, <1>5, <1>6, <1>7, <1>8 DEF Next, InsertSettles

(* flushingWorkspaces is a lock on the insert of a workspace, and whoever    *)
(* awaits that insert is alone to do so.                                    *)
THEOREM SingleFlightHolds == Spec => []SingleFlight
<1>1. Init => SingleFlight
  BY DEF Init, SingleFlight, Awaiting, Idle
<1>2. TypeOK /\ SingleFlight /\ [Next]_vars => SingleFlight'
  BY SingleFlightStep
<1> QED BY <1>1, <1>2, TypeCorrect, PTL DEF Spec

-----------------------------------------------------------------------------
(* The pipeline.                                                           *)

(* The four ways a pipeline changes, stated on the sequences themselves. *)

(* A push extends the log and the buffer by the same event. *)
LEMMA PipelinePush ==
    ASSUME NEW acc \in Seq(Events), NEW set \in Seq({"stored", "dropped"}),
           NEW fl \in Seq(Events), NEW wt \in Seq(Events), NEW tab,
           NEW e \in Events, InPipeline(acc, set, fl, wt, tab)
    PROVE  InPipeline(Append(acc, e), set, fl, Append(wt, e), tab)
<1> DEFINE acc2 == Append(acc, e)
           wt2 == Append(wt, e)
<1>1. Len(acc) \in Nat /\ Len(set) \in Nat /\ Len(fl) \in Nat /\ Len(wt) \in Nat
  OBVIOUS
<1>2. /\ Len(acc2) = Len(acc) + 1
      /\ \A i \in 1..Len(acc) : acc2[i] = acc[i]
      /\ acc2[Len(acc) + 1] = e
  BY AppendProperties
<1>3. /\ Len(wt2) = Len(wt) + 1
      /\ \A i \in 1..Len(wt) : wt2[i] = wt[i]
      /\ wt2[Len(wt) + 1] = e
  BY AppendProperties
<1> HIDE DEF acc2, wt2
<1>4. \A i \in 1..Len(wt2) : wt2[i] = acc2[Len(set) + Len(fl) + i]
  <2> SUFFICES ASSUME NEW i \in 1..Len(wt2) PROVE wt2[i] = acc2[Len(set) + Len(fl) + i]
    OBVIOUS
  <2>1. CASE i = Len(wt) + 1
    BY <1>1, <1>2, <1>3, <2>1 DEF InPipeline
  <2>2. CASE i # Len(wt) + 1
    <3>1. i \in 1..Len(wt) /\ Len(set) + Len(fl) + i \in 1..Len(acc)
      BY <1>1, <1>3, <2>2 DEF InPipeline
    <3> QED BY <1>2, <1>3, <3>1 DEF InPipeline
  <2> QED BY <2>1, <2>2
<1>5. \A i \in 1..Len(fl) : fl[i] = acc2[Len(set) + i]
  <2> SUFFICES ASSUME NEW i \in 1..Len(fl) PROVE fl[i] = acc2[Len(set) + i]
    OBVIOUS
  <2>1. Len(set) + i \in 1..Len(acc)
    BY <1>1 DEF InPipeline
  <2> QED BY <1>2, <2>1 DEF InPipeline
<1>6. \A i \in 1..Len(set) : i \in 1..Len(acc)
  BY <1>1 DEF InPipeline
<1>7. InPipeline(acc2, set, fl, wt2, tab)
  BY <1>1, <1>2, <1>3, <1>4, <1>5, <1>6 DEF InPipeline
<1> QED BY <1>7 DEF acc2, wt2

(* Starting an insert moves the whole buffer into flight. *)
LEMMA PipelineStart ==
    ASSUME NEW acc \in Seq(Events), NEW set \in Seq({"stored", "dropped"}),
           NEW wt \in Seq(Events), NEW tab, InPipeline(acc, set, <<>>, wt, tab)
    PROVE  InPipeline(acc, set, wt, <<>>, tab)
BY DEF InPipeline

(* An insert that succeeds settles its events as stored. *)
LEMMA PipelineStored ==
    ASSUME NEW acc \in Seq(Events), NEW set \in Seq({"stored", "dropped"}),
           NEW fl \in Seq(Events), NEW wt \in Seq(Events), NEW tab, NEW tab2,
           InPipeline(acc, set, fl, wt, tab),
           tab \subseteq tab2, \A i \in 1..Len(fl) : fl[i] \in tab2
    PROVE  InPipeline(acc, set \o [i \in 1..Len(fl) |-> "stored"], <<>>, wt, tab2)
<1> DEFINE more == [i \in 1..Len(fl) |-> "stored"]
           set2 == set \o more
<1>1. Len(acc) \in Nat /\ Len(set) \in Nat /\ Len(fl) \in Nat /\ Len(wt) \in Nat
  OBVIOUS
<1>2. more \in Seq({"stored", "dropped"}) /\ Len(more) = Len(fl)
  BY <1>1
<1>3. /\ Len(set2) = Len(set) + Len(fl)
      /\ \A i \in 1..Len(set) : set2[i] = set[i]
  <2> HIDE DEF more
  <2>1. /\ Len(set2) = Len(set) + Len(more)
        /\ \A i \in 1..Len(set) + Len(more) :
              set2[i] = IF i <= Len(set) THEN set[i] ELSE more[i - Len(set)]
    BY <1>2, ConcatProperties, Zenon
  <2> HIDE DEF set2
  <2> QED BY <1>1, <1>2, <2>1
<1> HIDE DEF set2, more
<1>4. \A i \in 1..Len(set2) : set2[i] = "stored" => acc[i] \in tab2
  <2> SUFFICES ASSUME NEW i \in 1..Len(set2), set2[i] = "stored" PROVE acc[i] \in tab2
    OBVIOUS
  <2>1. CASE i <= Len(set)
    <3>1. i \in 1..Len(set) BY <1>1, <1>3, <2>1
    <3> QED BY <1>3, <3>1 DEF InPipeline
  <2>2. CASE ~(i <= Len(set))
    <3>1. PICK j \in 1..Len(fl) : i = Len(set) + j
      <4>1. i - Len(set) \in 1..Len(fl) /\ i = Len(set) + (i - Len(set))
        BY <1>1, <1>3, <2>2
      <4> QED BY <4>1
    <3> QED BY <3>1 DEF InPipeline
  <2> QED BY <2>1, <2>2
<1>5. InPipeline(acc, set2, <<>>, wt, tab2)
  BY <1>1, <1>3, <1>4 DEF InPipeline
<1> QED BY <1>5 DEF set2, more

(* An insert that fails settles the k oldest events as dropped and puts the *)
(* others back in front of the buffer.                                     *)
LEMMA PipelineRequeued ==
    ASSUME NEW acc \in Seq(Events), NEW set \in Seq({"stored", "dropped"}),
           NEW fl \in Seq(Events), NEW wt \in Seq(Events), NEW tab, NEW tab2,
           NEW k \in Nat, NEW kept \in Seq(Events),
           InPipeline(acc, set, fl, wt, tab), tab \subseteq tab2,
           k <= Len(fl) + Len(wt), Len(kept) = (Len(fl) + Len(wt)) - k,
           \A i \in 1..Len(kept) : kept[i] = (fl \o wt)[k + i]
    PROVE  InPipeline(acc, set \o [i \in 1..k |-> "dropped"], <<>>, kept, tab2)
<1> DEFINE more == [i \in 1..k |-> "dropped"]
           set2 == set \o more
<1>1. Len(acc) \in Nat /\ Len(set) \in Nat /\ Len(fl) \in Nat /\ Len(wt) \in Nat
  OBVIOUS
<1>2. more \in Seq({"stored", "dropped"}) /\ Len(more) = k
  OBVIOUS
<1>3. /\ Len(set2) = Len(set) + k
      /\ \A i \in 1..Len(set2) : set2[i] = IF i <= Len(set) THEN set[i] ELSE more[i - Len(set)]
  <2> HIDE DEF more
  <2>1. /\ Len(set2) = Len(set) + Len(more)
        /\ \A i \in 1..Len(set) + Len(more) :
              set2[i] = IF i <= Len(set) THEN set[i] ELSE more[i - Len(set)]
    BY <1>2, ConcatProperties, Zenon
  <2> HIDE DEF set2
  <2> QED BY <1>1, <1>2, <2>1
<1>4. \A i \in 1..Len(set2) : ~(i <= Len(set)) => set2[i] = "dropped"
  <2> SUFFICES ASSUME NEW i \in 1..Len(set2), ~(i <= Len(set)) PROVE set2[i] = "dropped"
    OBVIOUS
  <2>1. i - Len(set) \in 1..k
    <3> HIDE DEF set2
    <3> QED BY <1>1, <1>3
  <2> QED BY <1>3, <2>1
<1> HIDE DEF set2, more
<1>5. \A i \in 1..Len(fl) + Len(wt) : (fl \o wt)[i] = acc[Len(set) + i]
  <2> SUFFICES ASSUME NEW i \in 1..Len(fl) + Len(wt) PROVE (fl \o wt)[i] = acc[Len(set) + i]
    OBVIOUS
  <2>1. (fl \o wt)[i] = IF i <= Len(fl) THEN fl[i] ELSE wt[i - Len(fl)]
    BY ConcatProperties
  <2>2. CASE i <= Len(fl)
    <3>1. i \in 1..Len(fl) BY <1>1, <2>2
    <3> QED BY <2>1, <2>2, <3>1 DEF InPipeline
  <2>3. CASE ~(i <= Len(fl))
    <3>1. i - Len(fl) \in 1..Len(wt) /\ Len(set) + Len(fl) + (i - Len(fl)) = Len(set) + i
      BY <1>1, <2>3
    <3> QED BY <2>1, <2>3, <3>1 DEF InPipeline
  <2> QED BY <2>2, <2>3
<1>6. \A i \in 1..Len(kept) : kept[i] = acc[Len(set2) + 0 + i]
  <2> SUFFICES ASSUME NEW i \in 1..Len(kept) PROVE kept[i] = acc[Len(set2) + 0 + i]
    OBVIOUS
  <2>1. k + i \in 1..Len(fl) + Len(wt) /\ Len(set) + (k + i) = Len(set2) + 0 + i
    BY <1>1, <1>3
  <2> QED BY <1>5, <2>1
<1>7. \A i \in 1..Len(set2) : set2[i] = "stored" => acc[i] \in tab2
  <2> SUFFICES ASSUME NEW i \in 1..Len(set2), set2[i] = "stored" PROVE acc[i] \in tab2
    OBVIOUS
  <2>1. i <= Len(set) BY <1>4
  <2>2. i \in 1..Len(set) /\ set[i] = "stored" BY <1>1, <1>3, <2>1
  <2> QED BY <2>2 DEF InPipeline
<1>8. Len(acc) = Len(set2) + 0 + Len(kept)
  BY <1>1, <1>3 DEF InPipeline
<1>9. InPipeline(acc, set2, <<>>, kept, tab2)
  <2>1. Len(<<>>) = 0 OBVIOUS
  <2>2. \A i \in 1..Len(<<>>) : <<>>[i] = acc[Len(set2) + i] OBVIOUS
  <2> QED BY <1>6, <1>7, <1>8, <2>1, <2>2 DEF InPipeline
<1> QED BY <1>9 DEF set2, more

(* flush() up to its await, with no event pushed before it. *)
LEMMA FlushPipeline ==
    ASSUME TypeOK, SingleFlight, Pipeline, NEW w \in Workspaces, Flush(w, buffer[w]),
           UNCHANGED <<accepted, fate, stored>>
    PROVE  Pipeline'
<1> SUFFICES ASSUME NEW v \in Workspaces
             PROVE  InPipeline(accepted[v], fate[v], inflight'[v], buffer'[v], stored[v])
  BY DEF Pipeline
<1>1. CASE v = w /\ FlushStarts(w, buffer[w])
  <2>1. inflight[v] = <<>>
    BY <1>1 DEF SingleFlight, FlushStarts
  <2>2. inflight'[v] = buffer[v] /\ buffer'[v] = <<>>
    BY <1>1 DEF Flush, TypeOK
  <2> QED BY <2>1, <2>2, PipelineStart DEF Pipeline, TypeOK
<1>2. CASE ~(v = w /\ FlushStarts(w, buffer[w]))
  <2>1. inflight'[v] = inflight[v] /\ buffer'[v] = buffer[v]
    BY <1>2 DEF Flush, TypeOK
  <2> QED BY <2>1 DEF Pipeline
<1> QED BY <1>1, <1>2

LEMMA PipelineStep ==
    TypeOK /\ BufferAssumption /\ SingleFlight /\ Pipeline /\ [Next]_vars => Pipeline'
<1> SUFFICES ASSUME TypeOK, BufferAssumption, SingleFlight, Pipeline, [Next]_vars
             PROVE  Pipeline'
  OBVIOUS
<1>1. ASSUME NEW c \in Callers, NEW w \in Workspaces, NEW n \in 1..MaxBatch,
             NEW sync \in BOOLEAN, BeginBatch(c, w, n, sync)
      PROVE  Pipeline'
  BY <1>1 DEF BeginBatch, bufferVars, historyVars, Pipeline
<1>2. ASSUME NEW c \in Callers, Add(c) PROVE Pipeline'
  <2> SUFFICES ASSUME NEW v \in Workspaces
               PROVE  InPipeline(accepted'[v], fate[v], inflight'[v], buffer'[v], stored[v])
    BY <1>2 DEF Pipeline, Add
  <2> DEFINE w == caller[c].ws
             e == Head(caller[c].left)
             b == Append(buffer[w], e)
             full == Len(b) >= MaxBufferSize
  <2>1. caller[c] \in [pc : {"adding", "awaiting"}, ws : Workspaces,
                       left : Seq(Events), sync : BOOLEAN]
    BY <1>2, BusyCaller DEF Add
  <2>2. w \in Workspaces /\ e \in Events /\ b \in Seq(Events)
    BY <1>2, AddTypes
  <2>3. accepted' = [accepted EXCEPT ![w] = Append(accepted[w], e)]
    BY <1>2 DEF Add
  <2>4. \/ Flush(w, b)
        \/ buffer' = [buffer EXCEPT ![w] = b] /\ inflight' = inflight
    BY <1>2 DEF Add
  <2>5. InPipeline(Append(accepted[w], e), fate[w], inflight[w], b, stored[w])
    BY <2>2, PipelinePush DEF Pipeline, TypeOK
  <2> HIDE DEF w, e, b
  <2>6. CASE v # w
    <3>1. accepted'[v] = accepted[v] /\ buffer'[v] = buffer[v] /\ inflight'[v] = inflight[v]
      BY <2>2, <2>3, <2>4, <2>6 DEF Flush, TypeOK
    <3> QED BY <3>1 DEF Pipeline
  <2>7. CASE v = w
    <3>1. accepted'[w] = Append(accepted[w], e)
      BY <2>2, <2>3 DEF TypeOK
    <3>2. CASE inflight'[w] = inflight[w] /\ buffer'[w] = b
      BY <2>5, <2>7, <3>1, <3>2
    <3>3. CASE inflight[w] = <<>> /\ inflight'[w] = b /\ buffer'[w] = <<>>
      <4>1. Append(accepted[w], e) \in Seq(Events) BY <2>2 DEF TypeOK
      <4>2. fate[w] \in Seq({"stored", "dropped"}) BY <2>2 DEF TypeOK
      <4> QED BY <2>2, <2>5, <2>7, <3>1, <3>3, <4>1, <4>2, PipelineStart
    <3>4. \/ inflight'[w] = inflight[w] /\ buffer'[w] = b
          \/ inflight[w] = <<>> /\ inflight'[w] = b /\ buffer'[w] = <<>>
      BY <2>2, <2>4 DEF Flush, FlushStarts, SingleFlight, TypeOK
    <3> QED BY <3>2, <3>3, <3>4
  <2> QED BY <2>6, <2>7
<1>3. ASSUME NEW c \in Callers, EndBatch(c) PROVE Pipeline'
  <2>1. caller[c].ws \in Workspaces
    BY <1>3, BusyCaller DEF EndBatch
  <2>2. UNCHANGED <<accepted, fate, stored>>
    BY <1>3 DEF EndBatch
  <2>3. CASE caller[c].sync
    <3>1. Flush(caller[c].ws, buffer[caller[c].ws])
      BY <1>3, <2>3 DEF EndBatch
    <3> QED BY <2>1, <2>2, <3>1, FlushPipeline
  <2>4. CASE ~caller[c].sync
    BY <1>3, <2>2, <2>4 DEF EndBatch, Pipeline
  <2> QED BY <2>3, <2>4
<1>4. ASSUME NEW w \in Workspaces, TimerFires(w) PROVE Pipeline'
  BY <1>4, FlushPipeline DEF TimerFires
<1>5. ASSUME NEW w \in Workspaces, InsertSucceeds(w) PROVE Pipeline'
  <2> SUFFICES ASSUME NEW v \in Workspaces
               PROVE  InPipeline(accepted[v], fate'[v], inflight'[v], buffer[v], stored'[v])
    BY <1>5 DEF Pipeline, InsertSucceeds
  <2>1. CASE v # w
    <3>1. fate'[v] = fate[v] /\ inflight'[v] = inflight[v] /\ stored'[v] = stored[v]
      BY <1>5, <2>1 DEF InsertSucceeds, TypeOK
    <3> QED BY <3>1 DEF Pipeline
  <2>2. CASE v = w
    <3>1. /\ fate'[w] = fate[w] \o [i \in 1..Len(inflight[w]) |-> "stored"]
          /\ inflight'[w] = <<>>
          /\ stored[w] \subseteq stored'[w]
          /\ \A i \in 1..Len(inflight[w]) : inflight[w][i] \in stored'[w]
      BY <1>5 DEF InsertSucceeds, TypeOK
    <3>2. InPipeline(accepted[w], fate[w], inflight[w], buffer[w], stored[w])
      BY DEF Pipeline
    <3>3. /\ accepted[w] \in Seq(Events) /\ fate[w] \in Seq({"stored", "dropped"})
          /\ inflight[w] \in Seq(Events) /\ buffer[w] \in Seq(Events)
      BY DEF TypeOK
    <3>4. InPipeline(accepted[w], fate[w] \o [i \in 1..Len(inflight[w]) |-> "stored"],
                     <<>>, buffer[w], stored'[w])
      BY <3>1, <3>2, <3>3, PipelineStored, Zenon
    <3> QED BY <2>2, <3>1, <3>4
  <2> QED BY <2>1, <2>2
<1>6. ASSUME NEW w \in Workspaces, NEW written \in BOOLEAN, InsertFails(w, written)
      PROVE  Pipeline'
  <2> SUFFICES ASSUME NEW v \in Workspaces
               PROVE  InPipeline(accepted[v], fate'[v], inflight'[v], buffer'[v], stored'[v])
    BY <1>6 DEF Pipeline, InsertFails
  <2>1. CASE v # w
    <3>1. /\ fate'[v] = fate[v] /\ inflight'[v] = inflight[v]
          /\ stored'[v] = stored[v] /\ buffer'[v] = buffer[v]
      BY <1>6, <2>1 DEF InsertFails, TypeOK
    <3> QED BY <3>1 DEF Pipeline
  <2>2. CASE v = w
    <3>1. /\ fate'[w] = fate[w] \o [i \in 1..Overflow(w) |-> "dropped"]
          /\ inflight'[w] = <<>>
          /\ buffer'[w] = Kept(w)
          /\ stored[w] \subseteq stored'[w]
      BY <1>6 DEF InsertFails, TypeOK
    <3>2. /\ Overflow(w) \in Nat /\ Overflow(w) <= Len(inflight[w]) + Len(buffer[w])
          /\ Kept(w) \in Seq(Events)
          /\ Len(Kept(w)) = (Len(inflight[w]) + Len(buffer[w])) - Overflow(w)
          /\ \A i \in 1..Len(Kept(w)) :
                 Kept(w)[i] = (inflight[w] \o buffer[w])[Overflow(w) + i]
      <4>1. Merged(w) = inflight[w] \o buffer[w] BY DEF Merged
      <4> HIDE DEF Pipeline, TypeOK
      <4>2. /\ Overflow(w) \in Nat /\ Kept(w) \in Seq(Events)
            /\ Overflow(w) <= Len(Merged(w)) /\ Len(Kept(w)) = Len(Merged(w)) - Overflow(w)
            /\ Len(Merged(w)) = Len(inflight[w]) + Len(buffer[w])
        BY KeptProperties, Zenon
      <4>3. \A i \in 1..Len(Kept(w)) : Kept(w)[i] = Merged(w)[Overflow(w) + i]
        BY KeptProperties, Zenon
      <4>4. Len(Kept(w)) = (Len(inflight[w]) + Len(buffer[w])) - Overflow(w)
        BY <4>2, Zenon
      <4> QED BY <4>1, <4>2, <4>3, <4>4, Zenon
    <3>3. InPipeline(accepted[w], fate[w], inflight[w], buffer[w], stored[w])
      BY DEF Pipeline
    <3>4. /\ accepted[w] \in Seq(Events) /\ fate[w] \in Seq({"stored", "dropped"})
          /\ inflight[w] \in Seq(Events) /\ buffer[w] \in Seq(Events)
      BY DEF TypeOK
    <3>5. InPipeline(accepted[w], fate[w] \o [i \in 1..Overflow(w) |-> "dropped"],
                     <<>>, Kept(w), stored'[w])
      <4> HIDE DEF TypeOK, Pipeline
      <4>1. stored[w] \subseteq stored'[w] BY <3>1
      <4> QED BY <4>1, <3>2, <3>3, <3>4, PipelineRequeued, ZenonT(60)
    <3> QED BY <2>2, <3>1, <3>5
  <2> QED BY <2>1, <2>2
<1>7. CASE Destroy
  <2> SUFFICES ASSUME NEW v \in Workspaces
               PROVE  InPipeline(accepted[v], fate[v], inflight'[v], buffer'[v], stored[v])
    BY <1>7 DEF Pipeline, Destroy
  <2>1. CASE FlushStarts(v, buffer[v])
    <3>1. inflight[v] = <<>>
      BY <2>1 DEF SingleFlight, FlushStarts
    <3>2. inflight'[v] = buffer[v] /\ buffer'[v] = <<>>
      BY <1>7, <2>1 DEF Destroy
    <3> QED BY <3>1, <3>2, PipelineStart DEF Pipeline, TypeOK
  <2>2. CASE ~FlushStarts(v, buffer[v])
    <3>1. inflight'[v] = inflight[v] /\ buffer'[v] = buffer[v]
      BY <1>7, <2>2 DEF Destroy
    <3> QED BY <3>1 DEF Pipeline
  <2> QED BY <2>1, <2>2
<1>8. CASE UNCHANGED vars
  BY <1>8 DEF vars, bufferVars, historyVars, Pipeline
<1> QED
  BY <1>1, <1>2, <1>3, <1>4, <1>5, <1>6, <1>7, <1>8 DEF Next, InsertSettles

(* Between add() and the insert no event is lost, duplicated or reordered:  *)
(* the accepted events are always the settled, in-flight and buffered ones *)
(* in that order, and what was reported stored is in ClickHouse.           *)
THEOREM PipelineHolds == Spec => []Pipeline
<1>1. Init => Pipeline
  BY DEF Init, Pipeline, InPipeline
<1>2. TypeOK /\ SingleFlight /\ Pipeline /\ [Next]_vars => Pipeline'
  BY PipelineStep, BufferAssumption
<1> QED BY <1>1, <1>2, TypeCorrect, SingleFlightHolds, PTL DEF Spec

-----------------------------------------------------------------------------
(* The buffer implements the abstract event log.                           *)

LEMMA SumBound ==
    ASSUME NEW a \in Nat, NEW b \in Nat, NEW c \in Nat, NEW k \in Nat, k <= b + c
    PROVE  a + k <= a + b + c
OBVIOUS

LEMMA PrefixBound ==
    ASSUME NEW a \in Nat, NEW b \in Nat, NEW c \in Nat
    PROVE  a + b <= a + b + c
OBVIOUS

(* A pipeline put end to end is the log of accepted events. *)
LEMMA PipelineIsLog ==
    ASSUME NEW acc \in Seq(Events), NEW set \in Seq({"stored", "dropped"}),
           NEW fl \in Seq(Events), NEW wt \in Seq(Events), NEW tab,
           InPipeline(acc, set, fl, wt, tab)
    PROVE  SubSeq(acc, 1, Len(set)) \o fl \o wt = acc
<1> DEFINE front == SubSeq(acc, 1, Len(set))
           s == front \o fl
           t == s \o wt
<1>1. Len(acc) \in Nat /\ Len(set) \in Nat /\ Len(fl) \in Nat /\ Len(wt) \in Nat
  OBVIOUS
<1>2. /\ Len(acc) = Len(set) + Len(fl) + Len(wt)
      /\ \A i \in 1..Len(fl) : fl[i] = acc[Len(set) + i]
      /\ \A i \in 1..Len(wt) : wt[i] = acc[Len(set) + Len(fl) + i]
  BY DEF InPipeline
<1>3. /\ front \in Seq(Events) /\ Len(front) = Len(set)
      /\ \A i \in 1..Len(set) : front[i] = acc[i]
  <2>1. \A i \in 1..Len(set) : acc[i] \in Events
    BY <1>1, <1>2, ElementOfSeq
  <2>2. /\ front \in Seq(Events)
        /\ Len(front) = IF 1 <= Len(set) THEN (Len(set) - 1) + 1 ELSE 0
        /\ \A i \in 1..(Len(set) - 1) + 1 : front[i] = acc[(1 + i) - 1]
    BY <1>1, <2>1, SubSeqProperties
  <2> HIDE DEF front
  <2> QED BY <1>1, <2>2
<1> HIDE DEF front
<1>4. /\ s \in Seq(Events) /\ Len(s) = Len(front) + Len(fl)
      /\ \A i \in 1..Len(front) + Len(fl) :
            s[i] = IF i <= Len(front) THEN front[i] ELSE fl[i - Len(front)]
  BY <1>3, ConcatProperties, Zenon
<1> HIDE DEF s
<1>5. /\ t \in Seq(Events) /\ Len(t) = Len(s) + Len(wt)
      /\ \A i \in 1..Len(s) + Len(wt) :
            t[i] = IF i <= Len(s) THEN s[i] ELSE wt[i - Len(s)]
  <2>1. s \in Seq(Events) BY <1>4
  <2> QED BY <2>1, ConcatProperties, Zenon
<1> HIDE DEF t
<1>6. Len(t) = Len(acc) /\ Len(s) = Len(set) + Len(fl)
  BY <1>1, <1>2, <1>3, <1>4, <1>5
<1>7. ASSUME NEW i \in 1..Len(acc) PROVE t[i] = acc[i]
  <2>1. CASE i <= Len(set)
    <3>1. i \in 1..Len(s) + Len(wt) /\ i <= Len(s)
      BY <1>1, <1>2, <1>6, <2>1
    <3>2. i \in 1..Len(front) + Len(fl) /\ i <= Len(front) /\ i \in 1..Len(set)
      BY <1>1, <1>3, <2>1
    <3>3. t[i] = s[i] BY <1>5, <3>1
    <3>4. s[i] = front[i] BY <1>4, <3>2
    <3> QED BY <1>3, <3>2, <3>3, <3>4
  <2>2. CASE ~(i <= Len(set)) /\ i <= Len(s)
    <3>1. i - Len(set) \in 1..Len(fl) /\ Len(set) + (i - Len(set)) = i
      BY <1>1, <1>6, <2>2
    <3>2. t[i] = fl[i - Len(set)]
      BY <1>1, <1>2, <1>3, <1>4, <1>5, <1>6, <2>2
    <3> QED BY <1>2, <3>1, <3>2
  <2>3. CASE ~(i <= Len(s))
    <3>1. i - Len(s) \in 1..Len(wt) /\ Len(set) + Len(fl) + (i - Len(s)) = i
      BY <1>1, <1>2, <1>6, <2>3
    <3>2. t[i] = wt[i - Len(s)]
      BY <1>1, <1>2, <1>5, <1>6, <2>3
    <3> QED BY <1>2, <3>1, <3>2
  <2> QED BY <1>1, <1>6, <2>1, <2>2, <2>3
<1>8. t = acc
  BY <1>5, <1>6, <1>7, SeqEqual
<1> QED BY <1>8 DEF t, s, front

LEMMA LogIsAccepted == TypeOK /\ Pipeline => Log = accepted
<1> SUFFICES ASSUME TypeOK, Pipeline PROVE Log = accepted
  OBVIOUS
<1>1. ASSUME NEW w \in Workspaces
      PROVE  SubSeq(accepted[w], 1, Len(fate[w])) \o inflight[w] \o buffer[w] = accepted[w]
  <2>1. /\ accepted[w] \in Seq(Events) /\ fate[w] \in Seq({"stored", "dropped"})
        /\ inflight[w] \in Seq(Events) /\ buffer[w] \in Seq(Events)
    BY DEF TypeOK
  <2>2. InPipeline(accepted[w], fate[w], inflight[w], buffer[w], stored[w])
    BY DEF Pipeline
  <2> QED BY <2>1, <2>2, PipelineIsLog, Zenon
<1> QED BY <1>1 DEF Log, TypeOK

(* A step of the abstract log, or none, for every step of the buffer. *)
LEMMA EventLogStep ==
    ASSUME TypeOK, SingleFlight, Pipeline, TypeOK', Pipeline', [Next]_vars
    PROVE  [EL!Next]_(EL!vars)
<1>1. Log = accepted /\ Log' = accepted'
  <2>1. Log = accepted BY LogIsAccepted
  <2>2. (Log = accepted)'
    <3>1. (TypeOK /\ Pipeline => Log = accepted)'
      BY LogIsAccepted, PTL
    <3> QED BY <3>1
  <2> QED BY <2>1, <2>2
<1>2. ASSUME NEW w \in Workspaces, NEW e \in Events,
             accepted' = [accepted EXCEPT ![w] = Append(accepted[w], e)], fate' = fate
      PROVE  EL!Next
  <2>1. EL!Accept(w)
    BY <1>1, <1>2 DEF EL!Accept
  <2> QED BY <2>1 DEF EL!Next
<1>3. ASSUME NEW w \in Workspaces, NEW k \in Nat \ {0}, NEW f \in {"stored", "dropped"},
             Len(fate[w]) + k <= Len(accepted[w]), accepted' = accepted,
             fate' = [fate EXCEPT ![w] = fate[w] \o [i \in 1..k |-> f]]
      PROVE  EL!Next
  <2>1. EL!Settle(w, k, f)
    BY <1>1, <1>3 DEF EL!Settle
  <2>2. k \in 1..(Len(Log[w]) - Len(fate[w]))
    <3>1. Len(accepted[w]) \in Nat /\ Len(fate[w]) \in Nat BY DEF TypeOK
    <3> QED BY <1>1, <1>3, <3>1
  <2> QED BY <2>1, <2>2 DEF EL!Next, EL!Fates
<1>4. ASSUME accepted' = accepted, fate' = fate PROVE UNCHANGED EL!vars
  BY <1>1, <1>4 DEF EL!vars
<1>5. ASSUME NEW c \in Callers, Add(c) PROVE EL!Next
  <2>1. caller[c].ws \in Workspaces /\ Head(caller[c].left) \in Events
    BY <1>5, BusyCaller DEF Add
  <2>2. accepted' = [accepted EXCEPT ![caller[c].ws] =
                       Append(accepted[caller[c].ws], Head(caller[c].left))] /\ fate' = fate
    BY <1>5 DEF Add
  <2> QED BY <1>2, <2>1, <2>2
<1>6. ASSUME NEW w \in Workspaces, InsertSucceeds(w) PROVE EL!Next
  <2>1. Len(inflight[w]) \in Nat \ {0}
    BY <1>6 DEF InsertSucceeds, SingleFlight, TypeOK
  <2>2. Len(fate[w]) + Len(inflight[w]) <= Len(accepted[w])
    <3>1. Len(accepted[w]) = Len(fate[w]) + Len(inflight[w]) + Len(buffer[w])
      BY DEF Pipeline, InPipeline
    <3>2. Len(fate[w]) \in Nat /\ Len(buffer[w]) \in Nat
      BY DEF TypeOK
    <3>3. Len(inflight[w]) \in Nat
      BY DEF TypeOK
    <3>4. Len(fate[w]) + Len(inflight[w]) <= Len(fate[w]) + Len(inflight[w]) + Len(buffer[w])
      BY <3>2, <3>3, PrefixBound, Zenon
    <3> QED BY <3>1, <3>4, Zenon
  <2>3. accepted' = accepted
        /\ fate' = [fate EXCEPT ![w] = fate[w] \o [i \in 1..Len(inflight[w]) |-> "stored"]]
    BY <1>6 DEF InsertSucceeds
  <2> QED BY <1>3, <2>1, <2>2, <2>3
<1>7. ASSUME NEW w \in Workspaces, NEW written \in BOOLEAN, InsertFails(w, written)
      PROVE  [EL!Next]_(EL!vars)
  <2>1. accepted' = accepted
        /\ fate' = [fate EXCEPT ![w] = fate[w] \o [i \in 1..Overflow(w) |-> "dropped"]]
    BY <1>7 DEF InsertFails
  <2>2. /\ Overflow(w) \in Nat /\ Overflow(w) <= Len(Merged(w))
        /\ Len(Merged(w)) = Len(inflight[w]) + Len(buffer[w])
    BY KeptProperties, BufferAssumption
  <2>3. CASE Overflow(w) = 0
    <3>1. [i \in 1..Overflow(w) |-> "dropped"] = <<>>
      BY <2>3
    <3>2. fate[w] \o <<>> = fate[w]
      BY DEF TypeOK
    <3>3. fate' = fate
      BY <2>1, <3>1, <3>2 DEF TypeOK
    <3> QED BY <1>4, <2>1, <3>3
  <2>4. CASE Overflow(w) # 0
    <3>1. Len(fate[w]) + Overflow(w) <= Len(accepted[w])
      <4>1. Len(accepted[w]) = Len(fate[w]) + Len(inflight[w]) + Len(buffer[w])
        BY DEF Pipeline, InPipeline
      <4>2. Len(fate[w]) \in Nat /\ Len(buffer[w]) \in Nat /\ Len(inflight[w]) \in Nat
        BY DEF TypeOK
      <4>3. Overflow(w) <= Len(inflight[w]) + Len(buffer[w])
        BY <2>2, Zenon
      <4>4. Len(fate[w]) + Overflow(w) <= Len(fate[w]) + Len(inflight[w]) + Len(buffer[w])
        BY <2>2, <4>2, <4>3, SumBound, Zenon
      <4> QED BY <4>1, <4>4, Zenon
    <3>2. Overflow(w) \in Nat \ {0} BY <2>2, <2>4
    <3>3. EL!Next BY <1>3, <2>1, <3>1, <3>2
    <3> QED BY <3>3
  <2> QED BY <2>3, <2>4
<1>8. CASE \/ \E c \in Callers, w \in Workspaces, n \in 1..MaxBatch, sync \in BOOLEAN :
                BeginBatch(c, w, n, sync)
           \/ \E c \in Callers : EndBatch(c)
           \/ \E w \in Workspaces : TimerFires(w)
           \/ Destroy
           \/ UNCHANGED vars
  <2>1. accepted' = accepted /\ fate' = fate
    BY <1>8 DEF BeginBatch, EndBatch, TimerFires, Destroy, vars, historyVars
  <2> QED BY <1>4, <2>1
<1> QED
  BY <1>5, <1>6, <1>7, <1>8 DEF Next, InsertSettles

(* The buffer, with its timers, failures, retries and shutdown, implements  *)
(* the abstract log: what add() accepts is settled once, in order.         *)
THEOREM BufferImplementsEventLog == Spec => ImplementsEventLog
<1>1. Init => EL!Init
  <2> SUFFICES ASSUME Init PROVE EL!Init
    OBVIOUS
  <2>1. TypeOK /\ Pipeline
    BY DEF Init, TypeOK, CallerStates, Idle, Pipeline, InPipeline
  <2>2. Log = accepted
    BY <2>1, LogIsAccepted
  <2> QED BY <2>2 DEF Init, EL!Init
<1>2. TypeOK /\ SingleFlight /\ Pipeline /\ TypeOK' /\ Pipeline' /\ [Next]_vars
        => [EL!Next]_(EL!vars)
  BY EventLogStep
<1> QED
  BY <1>1, <1>2, TypeCorrect, SingleFlightHolds, PipelineHolds, PTL
     DEF Spec, ImplementsEventLog, EL!Spec

-----------------------------------------------------------------------------
(* Events put back after a failed insert keep a live timer.                *)

LEMMA FlushRequeued ==
    ASSUME TypeOK, RequeuedHasTimer, NEW w \in Workspaces, NEW b, b # <<>>, Flush(w, b)
    PROVE  RequeuedHasTimer'
<1> SUFFICES ASSUME NEW v \in Workspaces, requeued'[v]
             PROVE  timer'[v] /\ v \notin flushing'
  BY DEF RequeuedHasTimer
<1>1. CASE FlushStarts(w, b)
  <2>1. v # w
    BY <1>1 DEF Flush, TypeOK
  <2> QED BY <1>1, <2>1 DEF Flush, TypeOK, RequeuedHasTimer
<1>2. CASE ~FlushStarts(w, b)
  <2>1. w \in flushing /\ requeued' = requeued /\ flushing' = flushing
    BY <1>2 DEF Flush, FlushStarts
  <2>2. v # w
    BY <2>1 DEF RequeuedHasTimer
  <2> QED BY <2>1, <2>2 DEF Flush, TypeOK, RequeuedHasTimer
<1> QED BY <1>1, <1>2

(* The induction needs that a buffer whose events were put back is not      *)
(* empty: flush() of an empty buffer would clear the timer for nothing.    *)
RequeuedInv ==
    /\ RequeuedHasTimer
    /\ \A w \in Workspaces : requeued[w] => buffer[w] # <<>>

LEMMA RequeuedStep ==
    TypeOK /\ BufferAssumption /\ SingleFlight /\ RequeuedInv /\ [Next]_vars => RequeuedInv'
<1> SUFFICES ASSUME TypeOK, BufferAssumption, SingleFlight, RequeuedInv, [Next]_vars
             PROVE  RequeuedInv'
  OBVIOUS
<1>0. ASSUME NEW w \in Workspaces, NEW b \in Seq(Events), Flush(w, b),
             requeued[w] => b # <<>>
      PROVE  RequeuedInv'
  <2>1. \A v \in Workspaces : requeued'[v] => buffer'[v] # <<>>
    <3> SUFFICES ASSUME NEW v \in Workspaces, requeued'[v] PROVE buffer'[v] # <<>>
      OBVIOUS
    <3>1. CASE v = w
      BY <1>0, <3>1 DEF Flush, TypeOK
    <3>2. CASE v # w
      BY <1>0, <3>2 DEF Flush, TypeOK, RequeuedInv
    <3> QED BY <3>1, <3>2
  <2>2. RequeuedHasTimer'
    <3>1. CASE b # <<>>
      BY <1>0, <3>1, FlushRequeued DEF RequeuedInv
    <3>2. CASE b = <<>>
      <4> SUFFICES ASSUME NEW v \in Workspaces, requeued'[v]
                   PROVE  timer'[v] /\ v \notin flushing'
        BY DEF RequeuedHasTimer
      <4>1. requeued' = requeued /\ flushing' = flushing
        BY <1>0, <3>2 DEF Flush, FlushStarts
      <4>2. v # w
        BY <1>0, <3>2, <4>1
      <4> QED BY <1>0, <4>1, <4>2 DEF Flush, TypeOK, RequeuedInv, RequeuedHasTimer
    <3> QED BY <3>1, <3>2
  <2> QED BY <2>1, <2>2 DEF RequeuedInv
<1>1. ASSUME NEW c \in Callers, NEW w \in Workspaces, NEW n \in 1..MaxBatch,
             NEW sync \in BOOLEAN, BeginBatch(c, w, n, sync)
      PROVE  RequeuedInv'
  BY <1>1 DEF BeginBatch, bufferVars, historyVars, RequeuedInv, RequeuedHasTimer
<1>2. ASSUME NEW c \in Callers, Add(c) PROVE RequeuedInv'
  <2> DEFINE w == caller[c].ws
             b == Append(buffer[w], Head(caller[c].left))
             full == Len(b) >= MaxBufferSize
  <2>1. caller[c] \in [pc : {"adding", "awaiting"}, ws : Workspaces,
                       left : Seq(Events), sync : BOOLEAN]
    BY <1>2, BusyCaller DEF Add
  <2>2. w \in Workspaces /\ b \in Seq(Events) /\ b # <<>>
    <3>1. w \in Workspaces /\ Head(caller[c].left) \in Events /\ buffer[w] \in Seq(Events)
      BY <1>2, AddTypes
    <3> HIDE DEF w
    <3> QED BY <3>1, AppendProperties
  <2>3. CASE full
    <3>1. Flush(w, b) BY <1>2, <2>3 DEF Add
    <3> HIDE DEF w, b
    <3> QED BY <1>0, <2>2, <3>1
  <2>4. CASE ~full
    <3>1. /\ buffer' = [buffer EXCEPT ![w] = b]
          /\ requeued' = requeued /\ flushing' = flushing
          /\ timer' = timer \/ timer' = [timer EXCEPT ![w] = TRUE]
      BY <1>2, <2>4 DEF Add, StartFlushTimer
    <3> HIDE DEF w, b
    <3>2. \A v \in Workspaces : requeued'[v] => buffer'[v] # <<>>
      BY <2>2, <3>1 DEF TypeOK, RequeuedInv
    <3>3. \A v \in Workspaces : timer[v] => timer'[v]
      BY <2>2, <3>1 DEF TypeOK
    <3> QED BY <3>1, <3>2, <3>3 DEF RequeuedInv, RequeuedHasTimer
  <2> QED BY <2>3, <2>4
<1>3. ASSUME NEW c \in Callers, EndBatch(c) PROVE RequeuedInv'
  <2>1. caller[c].ws \in Workspaces
    BY <1>3, BusyCaller DEF EndBatch
  <2>2. CASE caller[c].sync
    <3>1. Flush(caller[c].ws, buffer[caller[c].ws])
      BY <1>3, <2>2 DEF EndBatch
    <3>2. buffer[caller[c].ws] \in Seq(Events)
      BY <2>1 DEF TypeOK
    <3> QED BY <1>0, <2>1, <3>1, <3>2 DEF RequeuedInv
  <2>3. CASE ~caller[c].sync
    BY <1>3, <2>3 DEF EndBatch, RequeuedInv, RequeuedHasTimer
  <2> QED BY <2>2, <2>3
<1>4. ASSUME NEW w \in Workspaces, TimerFires(w) PROVE RequeuedInv'
  <2>1. buffer[w] \in Seq(Events) /\ Flush(w, buffer[w])
    BY <1>4 DEF TimerFires, TypeOK
  <2> QED BY <1>0, <2>1 DEF RequeuedInv
<1>5. ASSUME NEW w \in Workspaces, InsertSucceeds(w) PROVE RequeuedInv'
  BY <1>5 DEF InsertSucceeds, RequeuedInv, RequeuedHasTimer
<1>6. ASSUME NEW w \in Workspaces, NEW written \in BOOLEAN, InsertFails(w, written)
      PROVE  RequeuedInv'
  <2>1. Kept(w) # <<>>
    <3>1. inflight[w] # <<>>
      BY <1>6 DEF InsertFails, SingleFlight
    <3>2. Len(inflight[w]) \in Nat \ {0} /\ Len(buffer[w]) \in Nat
      BY <3>1 DEF TypeOK
    <3>3. Len(Kept(w)) = Len(Merged(w)) - Overflow(w)
          /\ Len(Merged(w)) = Len(inflight[w]) + Len(buffer[w])
      BY KeptProperties
    <3>4. Len(Kept(w)) # 0
      <4> DEFINE m == Len(Merged(w))
      <4>1. m \in Nat \ {0} /\ MaxRetained \in Nat \ {0}
        <5>1. \A x \in Nat \ {0}, y \in Nat : x + y \in Nat \ {0}
          OBVIOUS
        <5>2. m \in Nat \ {0}
          BY <3>2, <3>3, <5>1, Zenon
        <5> QED BY <5>2 DEF BufferAssumption
      <4>2. Overflow(w) = IF m > MaxRetained THEN m - MaxRetained ELSE 0
        BY DEF Overflow
      <4> HIDE DEF m
      <4>3. m - Overflow(w) # 0
        BY <4>1, <4>2
      <4> QED BY <3>3, <4>3 DEF m
    <3> QED BY <3>4
  <2>2. /\ buffer' = [buffer EXCEPT ![w] = Kept(w)] /\ timer' = [timer EXCEPT ![w] = TRUE]
        /\ flushing' = flushing \ {w} /\ requeued' = [requeued EXCEPT ![w] = TRUE]
    BY <1>6 DEF InsertFails, StartFlushTimer
  <2>3. \A v \in Workspaces : requeued'[v] => buffer'[v] # <<>>
    BY <2>1, <2>2 DEF TypeOK, RequeuedInv
  <2>4. RequeuedHasTimer'
    BY <2>2 DEF TypeOK, RequeuedInv, RequeuedHasTimer
  <2> QED BY <2>3, <2>4 DEF RequeuedInv
<1>7. CASE Destroy
  <2> SUFFICES ASSUME NEW v \in Workspaces, requeued'[v] PROVE FALSE
    BY DEF RequeuedInv, RequeuedHasTimer
  <2>1. FlushStarts(v, buffer[v]) => ~requeued'[v]
    BY <1>7 DEF Destroy
  <2>2. ~FlushStarts(v, buffer[v]) => requeued'[v] = requeued[v]
    BY <1>7 DEF Destroy
  <2> QED BY <2>1, <2>2 DEF RequeuedInv, RequeuedHasTimer, FlushStarts
<1>8. CASE UNCHANGED vars
  BY <1>8 DEF vars, bufferVars, historyVars, RequeuedInv, RequeuedHasTimer
<1> QED
  BY <1>1, <1>2, <1>3, <1>4, <1>5, <1>6, <1>7, <1>8 DEF Next, InsertSettles

(* Events put back after a failed insert are never stranded: their timer is *)
(* armed and no insert is under way that would swallow it.                 *)
THEOREM RequeuedNeverStranded == Spec => []RequeuedHasTimer
<1>1. Init => RequeuedInv
  BY DEF Init, RequeuedInv, RequeuedHasTimer
<1>2. TypeOK /\ SingleFlight /\ RequeuedInv /\ [Next]_vars => RequeuedInv'
  BY RequeuedStep, BufferAssumption
<1>3. RequeuedInv => RequeuedHasTimer
  BY DEF RequeuedInv
<1> QED BY <1>1, <1>2, <1>3, TypeCorrect, SingleFlightHolds, PTL DEF Spec
-----------------------------------------------------------------------------
(* Shutdown.                                                               *)

(* What onModuleDestroy() has not seen settled yet is in an insert it awaits. *)
DueSettled(w) ==
    \/ Len(fate[w]) >= due[w]
    \/ stage = "closing" /\ w \in closing /\ Len(fate[w]) + Len(inflight[w]) >= due[w]

ShutdownInv ==
    /\ stage = "up" => closing = {}
    /\ stage \in {"closing", "closed"} => \A w \in Workspaces \ busy : DueSettled(w)

(* flush() does not touch an insert under way. *)
LEMMA FlushLeavesInserts ==
    ASSUME TypeOK, NEW w \in Workspaces, NEW b, Flush(w, b), NEW v \in Workspaces, v \in flushing
    PROVE  inflight'[v] = inflight[v]
BY DEF Flush, FlushStarts, TypeOK

(* A step that leaves fates, stage and the inserts under way alone. *)
LEMMA ShutdownQuiet ==
    ASSUME SingleFlight, ShutdownInv,
           UNCHANGED <<fate, stage, closing, due, busy>>,
           \A v \in Workspaces : v \in flushing => inflight'[v] = inflight[v]
    PROVE  ShutdownInv'
BY DEF ShutdownInv, DueSettled, SingleFlight

LEMMA ShutdownStep ==
    TypeOK /\ SingleFlight /\ Pipeline /\ ShutdownInv /\ [Next]_vars => ShutdownInv'
<1> SUFFICES ASSUME TypeOK, SingleFlight, Pipeline, ShutdownInv, [Next]_vars
             PROVE  ShutdownInv'
  OBVIOUS
<1>0. \A v \in Workspaces : /\ Len(fate[v]) \in Nat /\ Len(inflight[v]) \in Nat /\ due[v] \in Nat
                            /\ Len(buffer[v]) \in Nat /\ Len(accepted[v]) \in Nat
                            /\ Len(accepted[v]) = Len(fate[v]) + Len(inflight[v]) + Len(buffer[v])
  BY LenProperties DEF TypeOK, Pipeline, InPipeline
<1>1. ASSUME NEW c \in Callers, NEW w \in Workspaces, NEW n \in 1..MaxBatch,
             NEW sync \in BOOLEAN, BeginBatch(c, w, n, sync)
      PROVE  ShutdownInv'
  BY <1>1, ShutdownQuiet DEF BeginBatch, bufferVars, historyVars, shutdownVars
<1>2. ASSUME NEW c \in Callers, Add(c) PROVE ShutdownInv'
  <2>1. caller[c].ws \in Workspaces
    BY <1>2, AddTypes
  <2>2. UNCHANGED <<fate, stage, closing, due, busy>>
    BY <1>2 DEF Add, shutdownVars
  <2>3. inflight' = inflight \/ \E b : Flush(caller[c].ws, b)
    BY <1>2 DEF Add
  <2>4. \A v \in Workspaces : v \in flushing => inflight'[v] = inflight[v]
    BY <2>1, <2>3, FlushLeavesInserts
  <2> QED BY <2>2, <2>4, ShutdownQuiet
<1>3. ASSUME NEW c \in Callers, EndBatch(c) PROVE ShutdownInv'
  <2>1. caller[c].ws \in Workspaces
    BY <1>3, BusyCaller DEF EndBatch
  <2>2. UNCHANGED <<fate, stage, closing, due, busy>>
    BY <1>3 DEF EndBatch, shutdownVars
  <2>3. inflight' = inflight \/ Flush(caller[c].ws, buffer[caller[c].ws])
    BY <1>3 DEF EndBatch
  <2>4. \A v \in Workspaces : v \in flushing => inflight'[v] = inflight[v]
    BY <2>1, <2>3, FlushLeavesInserts
  <2> QED BY <2>2, <2>4, ShutdownQuiet
<1>4. ASSUME NEW w \in Workspaces, TimerFires(w) PROVE ShutdownInv'
  <2>1. UNCHANGED <<fate, stage, closing, due, busy>> /\ Flush(w, buffer[w])
    BY <1>4 DEF TimerFires, shutdownVars
  <2>2. \A v \in Workspaces : v \in flushing => inflight'[v] = inflight[v]
    BY <2>1, FlushLeavesInserts
  <2> QED BY <2>1, <2>2, ShutdownQuiet
<1>5. ASSUME NEW w \in Workspaces, InsertSucceeds(w) PROVE ShutdownInv'
  <2>1. /\ fate' = [fate EXCEPT ![w] = @ \o [i \in 1..Len(inflight[w]) |-> "stored"]]
        /\ inflight' = [inflight EXCEPT ![w] = <<>>]
        /\ due' = due /\ busy' = busy /\ DestroyResumes(w, "ok") /\ stage \in {"up", "closing"}
    BY <1>5 DEF InsertSucceeds, shutdownVars, Running
  <2>2. Len(fate'[w]) = Len(fate[w]) + Len(inflight[w])
    <3> DEFINE more == [i \in 1..Len(inflight[w]) |-> "stored"]
    <3>1. more \in Seq({"stored", "dropped"}) /\ Len(more) = Len(inflight[w])
      BY <1>0
    <3>2. fate[w] \in Seq({"stored", "dropped"}) /\ fate'[w] = fate[w] \o more
      BY <2>1 DEF TypeOK
    <3> HIDE DEF more
    <3>3. Len(fate[w] \o more) = Len(fate[w]) + Len(more)
      BY <3>1, <3>2, ConcatProperties
    <3> QED BY <3>1, <3>2, <3>3
  <2>3. \A v \in Workspaces \ {w} : fate'[v] = fate[v] /\ inflight'[v] = inflight[v]
    BY <2>1 DEF TypeOK
  <2>4. /\ closing' = closing \ {w} /\ stage' \in {stage, "closed"}
        /\ stage' = "closed" => closing = {w}
    BY <2>1 DEF DestroyResumes
  <2>5. CASE stage = "up"
    <3>1. closing = {}
      BY <2>5 DEF ShutdownInv
    <3>2. stage' = "up" /\ closing' = {}
      BY <2>4, <2>5, <3>1
    <3> QED BY <3>2 DEF ShutdownInv
  <2>6. CASE stage = "closing"
    <3> SUFFICES ASSUME NEW v \in Workspaces \ busy PROVE DueSettled(v)'
      BY <2>1, <2>4, <2>6 DEF ShutdownInv
    <3>1. DueSettled(v)
      BY <2>6 DEF ShutdownInv
    <3>2. CASE v = w
      <4>1. \/ Len(fate[w]) >= due[w]
            \/ Len(fate[w]) + Len(inflight[w]) >= due[w]
        BY <3>1, <3>2 DEF DueSettled
      <4>2. Len(fate'[w]) >= due'[w]
        <5>1. Len(fate[w]) \in Nat /\ Len(inflight[w]) \in Nat /\ due[w] \in Nat
          BY <1>0
        <5>2. due'[w] = due[w]
          BY <2>1
        <5>3. Len(fate[w]) + Len(inflight[w]) >= due[w]
          <6>1. \A a, b, d \in Nat : a >= d \/ a + b >= d => a + b >= d
            OBVIOUS
          <6> QED BY <4>1, <5>1, <6>1, Zenon
        <5> QED BY <2>2, <5>2, <5>3
      <4> QED BY <3>2, <4>2 DEF DueSettled
    <3>3. CASE v # w
      BY <1>0, <2>1, <2>3, <2>4, <2>6, <3>1, <3>3 DEF DueSettled
    <3> QED BY <3>2, <3>3
  <2> QED BY <2>1, <2>5, <2>6
<1>6. ASSUME NEW w \in Workspaces, NEW written \in BOOLEAN, InsertFails(w, written)
      PROVE  ShutdownInv'
  <2>1. /\ fate' = [fate EXCEPT ![w] = @ \o [i \in 1..Overflow(w) |-> "dropped"]]
        /\ inflight' = [inflight EXCEPT ![w] = <<>>]
        /\ due' = due /\ busy' = busy /\ DestroyResumes(w, "failed") /\ stage \in {"up", "closing"}
    BY <1>6 DEF InsertFails, shutdownVars, Running
  <2>2. Len(fate'[w]) >= Len(fate[w]) /\ Len(fate'[w]) \in Nat
    <3> DEFINE n == Overflow(w)
               more == [i \in 1..n |-> "dropped"]
    <3>1. n \in Nat
      BY KeptProperties, BufferAssumption
    <3> HIDE DEF n
    <3>2. more \in Seq({"stored", "dropped"}) /\ Len(more) = n
      BY <3>1
    <3>3. fate[w] \in Seq({"stored", "dropped"}) /\ fate'[w] = fate[w] \o more
      BY <2>1 DEF TypeOK, n
    <3> HIDE DEF more
    <3>4. Len(fate'[w]) = Len(fate[w]) + n
      BY <3>2, <3>3, ConcatProperties
    <3> QED BY <1>0, <3>1, <3>4
  <2>3. \A v \in Workspaces \ {w} : fate'[v] = fate[v] /\ inflight'[v] = inflight[v]
    BY <2>1 DEF TypeOK
  <2>4. /\ closing' = closing \ {w} /\ stage' \in {stage, "aborted"}
        /\ w \in closing => stage' = "aborted"
    BY <2>1 DEF DestroyResumes
  <2> SUFFICES ASSUME stage' \in {"closing", "closed"}, NEW v \in Workspaces \ busy
               PROVE  DueSettled(v)'
    BY <2>1, <2>4 DEF ShutdownInv
  <2>5. stage' = stage /\ stage = "closing" /\ closing' = closing /\ w \notin closing
    BY <2>1, <2>4
  <2>6. DueSettled(v)
    BY <2>5 DEF ShutdownInv
  <2>7. CASE v = w
    <3>1. Len(fate[w]) >= due[w] /\ Len(fate[w]) \in Nat /\ due[w] \in Nat
      BY <1>0, <2>5, <2>6, <2>7 DEF DueSettled
    <3>2. Len(fate'[w]) >= due'[w]
      <4>1. due'[w] = due[w]
        BY <2>1
      <4> QED BY <2>2, <3>1, <4>1
    <3> QED BY <2>7, <3>2 DEF DueSettled
  <2>8. CASE v # w
    BY <1>0, <2>1, <2>3, <2>5, <2>6, <2>8 DEF DueSettled
  <2> QED BY <2>7, <2>8
<1>7. CASE Destroy
  <2>1. /\ due' = [v \in Workspaces |-> Len(accepted[v])] /\ busy' = flushing /\ fate' = fate
    BY <1>7 DEF Destroy
  <2>0. stage' \in {"closing", "closed"}
    BY <1>7 DEF Destroy
  <2> SUFFICES ASSUME NEW v \in Workspaces, v \notin flushing PROVE DueSettled(v)'
    BY <2>0, <2>1 DEF ShutdownInv
  <2>2. inflight[v] = <<>> /\ due'[v] = Len(fate[v]) + Len(buffer[v])
    <3>1. inflight[v] = <<>>
      BY DEF SingleFlight
    <3>2. Len(inflight[v]) = 0
      BY <3>1
    <3>3. /\ Len(fate[v]) \in Nat /\ Len(buffer[v]) \in Nat
          /\ Len(accepted[v]) = Len(fate[v]) + Len(inflight[v]) + Len(buffer[v])
      BY <1>0
    <3>4. due'[v] = Len(accepted[v])
      BY <2>1
    <3>5. Len(accepted[v]) = Len(fate[v]) + Len(buffer[v])
      BY <3>2, <3>3
    <3> QED BY <3>1, <3>4, <3>5
  <2>3. CASE FlushStarts(v, buffer[v])
    <3>1. inflight'[v] = buffer[v] /\ v \in closing' /\ stage' = "closing"
      BY <1>7, <2>3 DEF Destroy
    <3>2. Len(fate'[v]) + Len(inflight'[v]) >= due'[v]
      <4>1. Len(fate[v]) \in Nat /\ Len(buffer[v]) \in Nat
        BY <1>0
      <4>2. Len(fate'[v]) = Len(fate[v]) /\ Len(inflight'[v]) = Len(buffer[v])
        BY <2>1, <3>1
      <4> QED BY <2>2, <4>1, <4>2
    <3> QED BY <3>1, <3>2 DEF DueSettled
  <2>4. CASE ~FlushStarts(v, buffer[v])
    <3>1. Len(buffer[v]) = 0
      BY <2>4 DEF FlushStarts
    <3>2. Len(fate'[v]) >= due'[v]
      <4>1. Len(fate[v]) \in Nat /\ Len(buffer[v]) \in Nat
        BY <1>0
      <4> QED BY <2>1, <2>2, <3>1, <4>1
    <3> QED BY <3>2 DEF DueSettled
  <2> QED BY <2>3, <2>4
<1>8. CASE UNCHANGED vars
  BY <1>8, ShutdownQuiet DEF vars, bufferVars, historyVars, shutdownVars
<1> QED
  BY <1>1, <1>2, <1>3, <1>4, <1>5, <1>6, <1>7, <1>8 DEF Next, InsertSettles

(* onModuleDestroy() returns only when every event accepted before it began *)
(* is settled, except for the workspaces whose insert was already under way. *)
THEOREM ShutdownAlwaysFlushesIdle == Spec => []ShutdownFlushesIdle
<1>1. Init => ShutdownInv
  BY DEF Init, ShutdownInv
<1>2. TypeOK /\ SingleFlight /\ Pipeline /\ ShutdownInv /\ [Next]_vars => ShutdownInv'
  BY ShutdownStep
<1>3. ShutdownInv => ShutdownFlushesIdle
  BY DEF ShutdownInv, DueSettled, ShutdownFlushesIdle
<1> QED BY <1>1, <1>2, <1>3, TypeCorrect, SingleFlightHolds, PipelineHolds, PTL DEF Spec
-----------------------------------------------------------------------------
(* Retention after a failed insert.                                        *)

Occurs(e, s) == \E i \in 1..Len(s) : s[i] = e

(* The events LossIsCounted counts, workspace by workspace. *)
LostIn(e, w) ==
    /\ Occurs(e, accepted[w]) /\ e \notin stored[w]
    /\ ~Occurs(e, inflight[w]) /\ ~Occurs(e, buffer[w])

Lost == UNION {{accepted[w][i] : i \in 1..Len(accepted[w])} \ (stored[w] \cup Held(w))
                 : w \in Workspaces}

LEMMA OccursAppended ==
    ASSUME NEW S, NEW s \in Seq(S), NEW e \in S, NEW x
    PROVE  Occurs(x, Append(s, e)) <=> Occurs(x, s) \/ x = e
<1> DEFINE t == Append(s, e)
<1>1. /\ Len(s) \in Nat /\ Len(t) = Len(s) + 1 /\ t[Len(s) + 1] = e
      /\ \A i \in 1..Len(s) : t[i] = s[i]
  BY AppendProperties, LenProperties
<1> HIDE DEF t
<1>2. ASSUME Occurs(x, t) PROVE Occurs(x, s) \/ x = e
  <2>1. PICK i \in 1..Len(t) : t[i] = x
    BY <1>2 DEF Occurs
  <2>2. i \in 1..Len(s) \/ i = Len(s) + 1
    BY <1>1
  <2> QED BY <1>1, <2>1, <2>2 DEF Occurs
<1>3. ASSUME Occurs(x, s) \/ x = e PROVE Occurs(x, t)
  <2>1. 1..Len(s) \subseteq 1..Len(t) /\ Len(s) + 1 \in 1..Len(t)
    BY <1>1
  <2> QED BY <1>1, <1>3, <2>1 DEF Occurs
<1> QED BY <1>2, <1>3 DEF t

LEMMA OccursJoined ==
    ASSUME NEW S, NEW s \in Seq(S), NEW t \in Seq(S), NEW x
    PROVE  Occurs(x, s \o t) <=> Occurs(x, s) \/ Occurs(x, t)
<1> DEFINE u == s \o t
<1>1. /\ Len(s) \in Nat /\ Len(t) \in Nat /\ Len(u) = Len(s) + Len(t)
      /\ \A i \in 1..(Len(s) + Len(t)) : u[i] = IF i <= Len(s) THEN s[i] ELSE t[i - Len(s)]
  BY ConcatProperties, LenProperties
<1> HIDE DEF u
<1>2. ASSUME Occurs(x, u) PROVE Occurs(x, s) \/ Occurs(x, t)
  <2>1. PICK i \in 1..Len(u) : u[i] = x
    BY <1>2 DEF Occurs
  <2>2. \/ i \in 1..Len(s) /\ u[i] = s[i]
        \/ i - Len(s) \in 1..Len(t) /\ u[i] = t[i - Len(s)]
    BY <1>1
  <2> QED BY <2>1, <2>2 DEF Occurs
<1>3. ASSUME Occurs(x, s) PROVE Occurs(x, u)
  <2>1. PICK i \in 1..Len(s) : s[i] = x
    BY <1>3 DEF Occurs
  <2>2. i \in 1..Len(u) /\ u[i] = s[i]
    BY <1>1
  <2> QED BY <2>1, <2>2 DEF Occurs
<1>4. ASSUME Occurs(x, t) PROVE Occurs(x, u)
  <2>1. PICK i \in 1..Len(t) : t[i] = x
    BY <1>4 DEF Occurs
  <2>2. Len(s) + i \in 1..Len(u) /\ u[Len(s) + i] = t[i]
    BY <1>1
  <2> QED BY <2>1, <2>2 DEF Occurs
<1> QED BY <1>2, <1>3, <1>4 DEF u

LEMMA LostIs ==
    ASSUME TypeOK, NEW e PROVE e \in Lost <=> \E w \in Workspaces : LostIn(e, w)
<1>1. ASSUME NEW w \in Workspaces
      PROVE  e \in Held(w) <=> Occurs(e, inflight[w]) \/ Occurs(e, buffer[w])
  <2>1. inflight[w] \in Seq(Events) /\ buffer[w] \in Seq(Events)
    BY DEF TypeOK
  <2>2. Occurs(e, Merged(w)) <=> Occurs(e, inflight[w]) \/ Occurs(e, buffer[w])
    BY <2>1, OccursJoined DEF Merged
  <2>3. e \in Held(w) <=> Occurs(e, Merged(w))
    BY DEF Held, Occurs
  <2> QED BY <2>2, <2>3
<1>2. ASSUME NEW w \in Workspaces
      PROVE  e \in {accepted[w][i] : i \in 1..Len(accepted[w])} <=> Occurs(e, accepted[w])
  BY DEF Occurs
<1>3. ASSUME NEW w \in Workspaces
      PROVE  e \in {accepted[w][i] : i \in 1..Len(accepted[w])} \ (stored[w] \cup Held(w))
               <=> LostIn(e, w)
  BY <1>1, <1>2 DEF LostIn
<1> QED BY <1>3 DEF Lost

LostByWorkspace == \A e : e \in Lost <=> \E w \in Workspaces : LostIn(e, w)

LEMMA LostAre == TypeOK => LostByWorkspace
BY LostIs DEF LostByWorkspace

LEMMA LostIsNext ==
    ASSUME TypeOK', NEW e PROVE e \in Lost' <=> \E w \in Workspaces : LostIn(e, w)'
<1>1. (TypeOK => LostByWorkspace)'
  BY LostAre, PTL
<1> QED BY <1>1 DEF LostByWorkspace

LEMMA LostFinite ==
    ASSUME TypeOK PROVE IsFiniteSet(Lost) /\ Cardinality(Lost) \in Nat
<1>1. Lost \subseteq Events
  <2>1. ASSUME NEW w \in Workspaces, NEW i \in 1..Len(accepted[w]) PROVE accepted[w][i] \in Events
    BY ElementOfSeq DEF TypeOK
  <2> QED BY <2>1 DEF Lost
<1>2. IsFiniteSet(Events)
  BY BufferAssumption, FS_Interval DEF BufferAssumption, Events
<1> QED BY <1>1, <1>2, FS_Subset, FS_CardinalityType

(* Nothing more is lost. *)
LEMMA LossQuiet ==
    ASSUME TypeOK, TypeOK', LossIsCounted, droppedEvents' = droppedEvents,
           \A v \in Workspaces : \A e : LostIn(e, v)' => LostIn(e, v)
    PROVE  LossIsCounted'
<1>1. Lost' \subseteq Lost
  <2> SUFFICES ASSUME NEW e \in Lost' PROVE e \in Lost
    OBVIOUS
  <2>1. PICK w \in Workspaces : LostIn(e, w)'
    BY LostIsNext
  <2> QED BY <2>1, LostIs
<1>2. Cardinality(Lost') <= Cardinality(Lost) /\ Cardinality(Lost') \in Nat
  BY <1>1, LostFinite, FS_Subset, FS_CardinalityType
<1>3. Cardinality(Lost) <= droppedEvents /\ droppedEvents \in Nat /\ Cardinality(Lost) \in Nat
  BY LostFinite DEF LossIsCounted, Lost, TypeOK
<1>4. Cardinality(Lost') <= droppedEvents'
  BY <1>2, <1>3
<1> QED BY <1>4 DEF LossIsCounted, Lost

(* A workspace whose events stay where they are, or move from the buffer to  *)
(* the insert.                                                             *)
LEMMA NotLost ==
    ASSUME NEW v, accepted'[v] = accepted[v], stored'[v] = stored[v],
           \/ inflight'[v] = inflight[v] /\ buffer'[v] = buffer[v]
           \/ inflight[v] = <<>> /\ inflight'[v] = buffer[v] /\ buffer'[v] = <<>>
    PROVE  \A e : LostIn(e, v)' => LostIn(e, v)
<1>1. \A e : ~Occurs(e, <<>>)
  BY DEF Occurs
<1> SUFFICES ASSUME NEW e, LostIn(e, v)' PROVE LostIn(e, v)
  OBVIOUS
<1>2. Occurs(e, accepted[v])' /\ ~Occurs(e, inflight[v])' /\ ~Occurs(e, buffer[v])'
  BY DEF LostIn
<1>3. ~Occurs(e, inflight'[v])
  BY <1>2 DEF Occurs
<1>4. ~Occurs(e, buffer'[v])
  BY <1>2 DEF Occurs
<1>5. Occurs(e, accepted'[v])
  BY <1>2 DEF Occurs
<1>6. e \notin stored[v]
  BY DEF LostIn
<1>7. Occurs(e, accepted[v])
  BY <1>5
<1>8. ~Occurs(e, inflight[v]) /\ ~Occurs(e, buffer[v])
  BY <1>1, <1>3, <1>4
<1> QED BY <1>6, <1>7, <1>8 DEF LostIn

LEMMA FlushLosesNothing ==
    ASSUME TypeOK, SingleFlight, NEW w \in Workspaces, Flush(w, buffer[w]),
           accepted' = accepted, stored' = stored, NEW v \in Workspaces
    PROVE  \A e : LostIn(e, v)' => LostIn(e, v)
<1>1. \/ inflight'[v] = inflight[v] /\ buffer'[v] = buffer[v]
      \/ inflight[v] = <<>> /\ inflight'[v] = buffer[v] /\ buffer'[v] = <<>>
  BY DEF Flush, FlushStarts, SingleFlight, TypeOK
<1> QED BY <1>1, NotLost

LEMMA LossStep ==
    ASSUME TypeOK, TypeOK', SingleFlight, LossIsCounted, [Next]_vars
    PROVE  LossIsCounted'
<1>0. \A e : ~Occurs(e, <<>>)
  BY DEF Occurs
<1>1. ASSUME NEW c \in Callers, NEW w \in Workspaces, NEW n \in 1..MaxBatch,
             NEW sync \in BOOLEAN, BeginBatch(c, w, n, sync)
      PROVE  LossIsCounted'
  <2>1. /\ accepted' = accepted /\ stored' = stored /\ inflight' = inflight /\ buffer' = buffer
        /\ droppedEvents' = droppedEvents
    BY <1>1 DEF BeginBatch, bufferVars, historyVars
  <2> QED BY <2>1, NotLost, LossQuiet
<1>2. ASSUME NEW c \in Callers, Add(c) PROVE LossIsCounted'
  <2> DEFINE w == caller[c].ws
             e == Head(caller[c].left)
             b == Append(buffer[w], e)
  <2>1. w \in Workspaces /\ e \in Events /\ buffer[w] \in Seq(Events)
    BY <1>2, AddTypes
  <2>2. /\ accepted' = [accepted EXCEPT ![w] = Append(accepted[w], e)]
        /\ stored' = stored /\ droppedEvents' = droppedEvents
        /\ \/ Flush(w, b)
           \/ buffer' = [buffer EXCEPT ![w] = b] /\ inflight' = inflight
    BY <1>2 DEF Add
  <2>3. accepted[w] \in Seq(Events)
    BY <2>1 DEF TypeOK
  <2>4. \A x : /\ Occurs(x, Append(accepted[w], e)) <=> Occurs(x, accepted[w]) \/ x = e
               /\ Occurs(x, b) <=> Occurs(x, buffer[w]) \/ x = e
    BY <2>1, <2>3, OccursAppended
  <2> HIDE DEF w, e, b
  <2>5. /\ accepted'[w] = Append(accepted[w], e)
        /\ \/ inflight'[w] = inflight[w] /\ buffer'[w] = b
           \/ inflight[w] = <<>> /\ inflight'[w] = b /\ buffer'[w] = <<>>
    BY <2>1, <2>2 DEF Flush, FlushStarts, SingleFlight, TypeOK
  <2>6. ASSUME NEW v \in Workspaces, v # w PROVE \A x : LostIn(x, v)' => LostIn(x, v)
    <3>0. /\ accepted \in [Workspaces -> Seq(Events)] /\ inflight \in [Workspaces -> Seq(Events)]
          /\ buffer \in [Workspaces -> Seq(Events)]
      BY DEF TypeOK
    <3>a. accepted'[v] = accepted[v]
      BY <2>2, <2>6, <3>0
    <3>b. \/ inflight' = inflight
          \/ inflight' = [inflight EXCEPT ![w] = b]
      BY <2>2 DEF Flush
    <3>c. \/ buffer' = [buffer EXCEPT ![w] = b]
          \/ buffer' = [buffer EXCEPT ![w] = <<>>]
      BY <2>2 DEF Flush
    <3>d. inflight'[v] = inflight[v]
      BY <2>6, <3>0, <3>b
    <3>e. buffer'[v] = buffer[v]
      BY <2>6, <3>0, <3>c
    <3>1. accepted'[v] = accepted[v] /\ inflight'[v] = inflight[v] /\ buffer'[v] = buffer[v]
      BY <3>a, <3>d, <3>e
    <3> QED BY <2>2, <3>1, NotLost
  <2>7. ASSUME NEW v \in Workspaces, v = w PROVE \A x : LostIn(x, v)' => LostIn(x, v)
    <3>1. ASSUME NEW x, LostIn(x, v)' PROVE LostIn(x, v)
      <4>1. /\ Occurs(x, accepted'[v]) /\ x \notin stored[v]
            /\ ~Occurs(x, inflight'[v]) /\ ~Occurs(x, buffer'[v])
        BY <2>2, <3>1 DEF LostIn, Occurs
      <4>2. ~Occurs(x, b)
        BY <2>5, <2>7, <4>1
      <4>a. ~Occurs(x, buffer[w]) /\ x # e
        BY <2>4, <4>2
      <4>b. Occurs(x, Append(accepted[w], e))
        BY <2>5, <2>7, <4>1
      <4>c. Occurs(x, accepted[w])
        <5>1. Occurs(x, Append(accepted[w], e)) <=> Occurs(x, accepted[w]) \/ x = e
          BY <2>4, Zenon
        <5> QED BY <4>a, <4>b, <5>1, Zenon
      <4>3. Occurs(x, accepted[v]) /\ ~Occurs(x, buffer[v])
        BY <2>7, <4>a, <4>c
      <4>4. ~Occurs(x, inflight[v])
        BY <1>0, <2>5, <2>7, <4>1
      <4> QED BY <4>1, <4>3, <4>4 DEF LostIn
    <3> QED BY <3>1
  <2> QED BY <2>2, <2>6, <2>7, LossQuiet
<1>3. ASSUME NEW c \in Callers, EndBatch(c) PROVE LossIsCounted'
  <2>1. caller[c].ws \in Workspaces
    BY <1>3, BusyCaller DEF EndBatch
  <2>2. /\ accepted' = accepted /\ stored' = stored /\ droppedEvents' = droppedEvents
        /\ \/ Flush(caller[c].ws, buffer[caller[c].ws])
           \/ inflight' = inflight /\ buffer' = buffer
    BY <1>3 DEF EndBatch
  <2>3. \A v \in Workspaces : \A e : LostIn(e, v)' => LostIn(e, v)
    BY <2>1, <2>2, FlushLosesNothing, NotLost
  <2> QED BY <2>2, <2>3, LossQuiet
<1>4. ASSUME NEW w \in Workspaces, TimerFires(w) PROVE LossIsCounted'
  <2>1. /\ accepted' = accepted /\ stored' = stored /\ droppedEvents' = droppedEvents
        /\ Flush(w, buffer[w])
    BY <1>4 DEF TimerFires
  <2>2. \A v \in Workspaces : \A e : LostIn(e, v)' => LostIn(e, v)
    BY <2>1, FlushLosesNothing
  <2> QED BY <2>1, <2>2, LossQuiet
<1>5. ASSUME NEW w \in Workspaces, InsertSucceeds(w) PROVE LossIsCounted'
  <2>1. /\ accepted' = accepted /\ droppedEvents' = droppedEvents /\ buffer' = buffer
        /\ stored' = [stored EXCEPT ![w] =
                         @ \cup {inflight[w][i] : i \in 1..Len(inflight[w])}]
        /\ inflight' = [inflight EXCEPT ![w] = <<>>]
    BY <1>5 DEF InsertSucceeds
  <2>2. ASSUME NEW v \in Workspaces, NEW e, LostIn(e, v)' PROVE LostIn(e, v)
    <3>1. /\ Occurs(e, accepted[v]) /\ e \notin stored'[v]
          /\ ~Occurs(e, inflight'[v]) /\ ~Occurs(e, buffer[v])
      BY <2>1, <2>2 DEF LostIn, Occurs
    <3>2. e \notin stored[v]
      BY <2>1, <3>1 DEF TypeOK
    <3>3. ~Occurs(e, inflight[v])
      <4>1. CASE v = w
        BY <2>1, <3>1, <4>1 DEF TypeOK, Occurs
      <4>2. CASE v # w
        <5>1. inflight'[v] = inflight[v]
          BY <2>1, <4>2 DEF TypeOK
        <5> QED BY <3>1, <5>1
      <4> QED BY <4>1, <4>2
    <3> QED BY <3>1, <3>2, <3>3 DEF LostIn
  <2> QED BY <2>1, <2>2, LossQuiet
<1>6. ASSUME NEW w \in Workspaces, NEW written \in BOOLEAN, InsertFails(w, written)
      PROVE  LossIsCounted'
  <2> DEFINE n == Overflow(w)
             m == Merged(w)
             k == Kept(w)
             new == {m[i] : i \in 1..n}
  <2>1. /\ accepted' = accepted /\ droppedEvents' = droppedEvents + n
        /\ buffer' = [buffer EXCEPT ![w] = k] /\ inflight' = [inflight EXCEPT ![w] = <<>>]
        /\ stored' = IF written
                     THEN [stored EXCEPT ![w] =
                             @ \cup {inflight[w][i] : i \in 1..Len(inflight[w])}]
                     ELSE stored
    BY <1>6 DEF InsertFails, CountDrops
  <2>2. /\ n \in Nat /\ m \in Seq(Events) /\ n <= Len(m) /\ Len(k) = Len(m) - n
        /\ \A i \in 1..Len(k) : k[i] = m[n + i]
    BY KeptProperties, BufferAssumption
  <2>3. \A v \in Workspaces : stored[v] \subseteq stored'[v]
    BY <2>1 DEF TypeOK
  <2>4. \A e : Occurs(e, m) <=> Occurs(e, inflight[w]) \/ Occurs(e, buffer[w])
    <3>1. inflight[w] \in Seq(Events) /\ buffer[w] \in Seq(Events)
      BY DEF TypeOK
    <3> QED BY <3>1, OccursJoined DEF Merged
  <2> HIDE DEF n, m, k
  <2>5. \A e : Occurs(e, m) => Occurs(e, k) \/ e \in new
    <3> SUFFICES ASSUME NEW e, Occurs(e, m), e \notin new PROVE Occurs(e, k)
      OBVIOUS
    <3>1. PICK i \in 1..Len(m) : m[i] = e
      BY DEF Occurs
    <3>2. i \notin 1..n /\ Len(m) \in Nat
      BY <2>2, <3>1, LenProperties
    <3>3. i - n \in 1..Len(k) /\ n + (i - n) = i
      BY <2>2, <3>2
    <3>4. k[i - n] = m[n + (i - n)]
      BY <2>2, <3>3
    <3> QED BY <3>1, <3>3, <3>4 DEF Occurs
  <2>6. ASSUME NEW v \in Workspaces, NEW e, LostIn(e, v)' PROVE LostIn(e, v) \/ e \in new
    <3>1. /\ Occurs(e, accepted[v]) /\ e \notin stored[v]
          /\ ~Occurs(e, inflight'[v]) /\ ~Occurs(e, buffer'[v])
      BY <2>1, <2>3, <2>6 DEF LostIn, Occurs
    <3>2. CASE v = w
      <4>1. buffer'[v] = k
        BY <2>1, <3>2 DEF TypeOK
      <4> QED BY <2>4, <2>5, <3>1, <3>2, <4>1 DEF LostIn
    <3>3. CASE v # w
      <4>1. buffer'[v] = buffer[v] /\ inflight'[v] = inflight[v]
        BY <2>1, <3>3 DEF TypeOK
      <4> QED BY <3>1, <4>1 DEF LostIn
    <3> QED BY <3>2, <3>3
  <2>7. Lost' \subseteq Lost \cup new
    <3> SUFFICES ASSUME NEW e \in Lost' PROVE e \in Lost \cup new
      OBVIOUS
    <3>1. PICK v \in Workspaces : LostIn(e, v)'
      BY LostIsNext
    <3> QED BY <2>6, <3>1, LostIs
  <2>8. IsFiniteSet(new) /\ Cardinality(new) \in Nat /\ Cardinality(new) <= n
    <3>0. n \in Nat
      BY <2>2
    <3>a. /\ IsFiniteSet(1..n)
          /\ Cardinality(1..n) = IF 1 > n THEN 0 ELSE (n - 1) + 1
      <4>1. 1 \in Int /\ n \in Int
        BY <3>0
      <4>2. IsFiniteSet(1..n) /\ Cardinality(1..n) = IF 1 > n THEN 0 ELSE n - 1 + 1
        BY <4>1, FS_Interval
      <4> QED BY <3>0, <4>2
    <3>1. IsFiniteSet(1..n) /\ Cardinality(1..n) = n
      BY <3>0, <3>a
    <3> DEFINE f == [i \in 1..n |-> m[i]]
    <3>2. f \in Surjection(1..n, new)
      BY DEF Surjection
    <3> HIDE DEF f, new
    <3> QED BY <3>1, <3>2, FS_Surjection, FS_CardinalityType
  <2>9. /\ IsFiniteSet(Lost \cup new)
        /\ Cardinality(Lost \cup new) <= Cardinality(Lost) + n
    <3>1. IsFiniteSet(Lost) /\ Cardinality(Lost) \in Nat
      BY LostFinite
    <3>2. IsFiniteSet(Lost \cap new)
      BY <3>1, FS_Subset
    <3>3. Cardinality(Lost \cap new) \in Nat
      BY <3>2, FS_CardinalityType
    <3>4. /\ IsFiniteSet(Lost \cup new)
          /\ Cardinality(Lost \cup new) =
                Cardinality(Lost) + Cardinality(new) - Cardinality(Lost \cap new)
      BY <2>8, <3>1, FS_Union
    <3> HIDE DEF new
    <3> QED BY <2>2, <2>8, <3>1, <3>3, <3>4
  <2>10. Cardinality(Lost') <= Cardinality(Lost \cup new) /\ Cardinality(Lost') \in Nat
         /\ Cardinality(Lost \cup new) \in Nat
    BY <2>7, <2>9, FS_Subset, FS_CardinalityType
  <2>11. Cardinality(Lost) <= droppedEvents /\ droppedEvents \in Nat /\ Cardinality(Lost) \in Nat
    BY LostFinite DEF LossIsCounted, Lost, TypeOK
  <2>12. Cardinality(Lost') <= droppedEvents'
    <3> HIDE DEF new
    <3>1. droppedEvents' = droppedEvents + n
      BY <2>1
    <3> QED BY <2>2, <2>9, <2>10, <2>11, <3>1
  <2> QED BY <2>12 DEF LossIsCounted, Lost
<1>7. CASE Destroy
  <2>1. accepted' = accepted /\ stored' = stored /\ droppedEvents' = droppedEvents
    BY <1>7 DEF Destroy
  <2>2. ASSUME NEW v \in Workspaces PROVE \A e : LostIn(e, v)' => LostIn(e, v)
    <3>1. \/ inflight'[v] = inflight[v] /\ buffer'[v] = buffer[v]
          \/ inflight[v] = <<>> /\ inflight'[v] = buffer[v] /\ buffer'[v] = <<>>
      BY <1>7 DEF Destroy, FlushStarts, SingleFlight
    <3> QED BY <2>1, <3>1, NotLost
  <2> QED BY <2>1, <2>2, LossQuiet
<1>8. CASE UNCHANGED vars
  <2>1. /\ accepted' = accepted /\ stored' = stored /\ inflight' = inflight /\ buffer' = buffer
        /\ droppedEvents' = droppedEvents
    BY <1>8 DEF vars, bufferVars, historyVars
  <2> QED BY <2>1, NotLost, LossQuiet
<1> QED
  BY <1>1, <1>2, <1>3, <1>4, <1>5, <1>6, <1>7, <1>8 DEF Next, InsertSettles


(* Flushing a buffer leaves no requeued events, or leaves everything alone. *)
LEMMA FlushKeepsBound ==
    ASSUME TypeOK, RequeuedIsBounded, NEW w \in Workspaces, Flush(w, buffer[w])
    PROVE  RequeuedIsBounded'
<1> SUFFICES ASSUME NEW v \in Workspaces, requeued'[v]
             PROVE  Len(buffer'[v]) <= MaxRetained \/ Len(buffer'[v]) < MaxBufferSize
  BY DEF RequeuedIsBounded
<1>1. requeued[v] /\ buffer'[v] = buffer[v]
  BY DEF Flush, TypeOK
<1> QED BY <1>1 DEF RequeuedIsBounded

LEMMA BoundStep ==
    ASSUME TypeOK, RequeuedHasTimer, RequeuedIsBounded, [Next]_vars
    PROVE  RequeuedIsBounded'
<1>0. /\ buffer \in [Workspaces -> Seq(Events)] /\ requeued \in [Workspaces -> BOOLEAN]
  BY DEF TypeOK
<1>1. ASSUME UNCHANGED <<buffer, requeued>> PROVE RequeuedIsBounded'
  BY <1>1 DEF RequeuedIsBounded
<1>2. ASSUME NEW c \in Callers, Add(c) PROVE RequeuedIsBounded'
  <2> DEFINE w == caller[c].ws
             b == Append(buffer[w], Head(caller[c].left))
  <2>1. w \in Workspaces /\ Head(caller[c].left) \in Events /\ buffer[w] \in Seq(Events)
    BY <1>2, AddTypes
  <2>2. b # <<>> /\ Len(b) \in Nat
    <3>1. b \in Seq(Events) /\ b # <<>>
      BY <2>1, AppendProperties
    <3> QED BY <3>1, LenProperties
  <2>3. \/ Len(b) >= MaxBufferSize /\ Flush(w, b)
        \/ /\ ~(Len(b) >= MaxBufferSize)
           /\ buffer' = [buffer EXCEPT ![w] = b] /\ requeued' = requeued
    BY <1>2 DEF Add
  <2> HIDE DEF w, b
  <2> SUFFICES ASSUME NEW v \in Workspaces, requeued'[v]
               PROVE  Len(buffer'[v]) <= MaxRetained \/ Len(buffer'[v]) < MaxBufferSize
    BY DEF RequeuedIsBounded
  <2>4. CASE Flush(w, b) /\ Len(b) >= MaxBufferSize
    <3>1. v # w /\ requeued[v]
      <4>1. CASE FlushStarts(w, b)
        BY <1>0, <2>1, <2>4, <4>1 DEF Flush
      <4>2. CASE ~FlushStarts(w, b)
        <5>1. requeued' = requeued /\ w \in flushing
          BY <2>2, <2>4, <4>2 DEF Flush, FlushStarts
        <5> QED BY <2>1, <5>1 DEF RequeuedHasTimer
      <4> QED BY <4>1, <4>2
    <3>2. buffer'[v] = buffer[v]
      BY <1>0, <2>4, <3>1 DEF Flush
    <3> QED BY <3>1, <3>2 DEF RequeuedIsBounded
  <2>5. CASE ~(Len(b) >= MaxBufferSize) /\ buffer' = [buffer EXCEPT ![w] = b] /\ requeued' = requeued
    <3>1. CASE v = w
      <4>1. buffer'[v] = b
        BY <1>0, <2>5, <3>1
      <4> QED BY <2>2, <2>5, <4>1, BufferAssumption DEF BufferAssumption
    <3>2. CASE v # w
      <4>1. buffer'[v] = buffer[v] /\ requeued[v]
        BY <1>0, <2>5, <3>2
      <4> QED BY <4>1 DEF RequeuedIsBounded
    <3> QED BY <3>1, <3>2
  <2> QED BY <2>3, <2>4, <2>5
<1>3. ASSUME NEW c \in Callers, EndBatch(c) PROVE RequeuedIsBounded'
  <2>1. caller[c].ws \in Workspaces
    BY <1>3, BusyCaller DEF EndBatch
  <2>2. \/ Flush(caller[c].ws, buffer[caller[c].ws])
        \/ UNCHANGED <<buffer, requeued>>
    BY <1>3 DEF EndBatch
  <2> QED BY <1>1, <2>1, <2>2, FlushKeepsBound
<1>4. ASSUME NEW w \in Workspaces, TimerFires(w) PROVE RequeuedIsBounded'
  BY <1>4, FlushKeepsBound DEF TimerFires
<1>5. ASSUME NEW w \in Workspaces, NEW written \in BOOLEAN, InsertFails(w, written)
      PROVE  RequeuedIsBounded'
  <2>1. /\ buffer' = [buffer EXCEPT ![w] = Kept(w)]
        /\ requeued' = [requeued EXCEPT ![w] = TRUE]
    BY <1>5 DEF InsertFails
  <2>2. Len(Kept(w)) <= MaxRetained
    BY KeptProperties, BufferAssumption
  <2> SUFFICES ASSUME NEW v \in Workspaces, requeued'[v]
               PROVE  Len(buffer'[v]) <= MaxRetained \/ Len(buffer'[v]) < MaxBufferSize
    BY DEF RequeuedIsBounded
  <2>3. CASE v = w
    <3>1. buffer'[v] = Kept(w)
      BY <1>0, <2>1, <2>3
    <3> QED BY <2>2, <3>1
  <2>4. CASE v # w
    <3>1. buffer'[v] = buffer[v] /\ requeued[v]
      BY <1>0, <2>1, <2>4
    <3> QED BY <3>1 DEF RequeuedIsBounded
  <2> QED BY <2>3, <2>4
<1>6. CASE Destroy
  <2> SUFFICES ASSUME NEW v \in Workspaces, requeued'[v]
               PROVE  Len(buffer'[v]) <= MaxRetained \/ Len(buffer'[v]) < MaxBufferSize
    BY DEF RequeuedIsBounded
  <2>1. requeued[v] /\ buffer'[v] = buffer[v]
    BY <1>6 DEF Destroy
  <2> QED BY <2>1 DEF RequeuedIsBounded
<1>7. ASSUME NEW c \in Callers, NEW w \in Workspaces, NEW n \in 1..MaxBatch,
             NEW sync \in BOOLEAN, BeginBatch(c, w, n, sync)
      PROVE  UNCHANGED <<buffer, requeued>>
  BY <1>7 DEF BeginBatch, bufferVars, historyVars
<1>8. ASSUME NEW w \in Workspaces, InsertSucceeds(w) PROVE UNCHANGED <<buffer, requeued>>
  BY <1>8 DEF InsertSucceeds
<1>9. CASE UNCHANGED vars
  BY <1>1, <1>9 DEF vars, bufferVars, historyVars
<1> QED
  BY <1>1, <1>2, <1>3, <1>4, <1>5, <1>6, <1>7, <1>8, <1>9 DEF Next, InsertSettles

(* The retention of the catch block: whatever is neither held, nor in        *)
(* ClickHouse, was counted in droppedEvents, and events put back after a    *)
(* failed insert never exceed the cap or the size that triggers a flush.    *)
THEOREM RetentionAlwaysKept == Spec => []RetentionKept
<1>1. Init => LossIsCounted /\ RequeuedIsBounded
  <2> SUFFICES ASSUME Init PROVE LossIsCounted /\ RequeuedIsBounded
    OBVIOUS
  <2>1. RequeuedIsBounded
    BY DEF Init, RequeuedIsBounded
  <2>2. Lost = {}
    <3>1. \A w \in Workspaces : accepted[w] = <<>>
      BY DEF Init
    <3>2. \A w \in Workspaces : {accepted[w][i] : i \in 1..Len(accepted[w])} = {}
      BY <3>1
    <3> QED BY <3>2 DEF Lost
  <2>3. Cardinality(Lost) = 0 /\ droppedEvents = 0
    BY <2>2, FS_EmptySet DEF Init
  <2> QED BY <2>1, <2>3 DEF LossIsCounted, Lost
<1>2. TypeOK /\ TypeOK' /\ SingleFlight /\ LossIsCounted /\ [Next]_vars => LossIsCounted'
  BY LossStep
<1>3. TypeOK /\ RequeuedHasTimer /\ RequeuedIsBounded /\ [Next]_vars => RequeuedIsBounded'
  BY BoundStep
<1>4. LossIsCounted /\ RequeuedIsBounded => RetentionKept
  BY DEF RetentionKept
<1> QED BY <1>1, <1>2, <1>3, <1>4, TypeCorrect, SingleFlightHolds, RequeuedNeverStranded, PTL
        DEF Spec
=============================================================================
