------------------------ MODULE WorkspaceIngestProofs ------------------------
(***************************************************************************)
(* Proofs about WorkspaceIngest for every number of concurrent edits and   *)
(* payloads, every set of filters and widgets and every lifetime of the    *)
(* cache.  What a request holds between two awaits is part of every        *)
(* inductive invariant: the row it read, the row it is about to insert and *)
(* the row it is about to cache are the only way the past gets into the    *)
(* table and into the cache.                                               *)
(***************************************************************************)
EXTENDS WorkspaceIngest, TLAPS

Layouts == [widgets : SUBSET Widgets, order : SUBSET Widgets]

Rows == [at : Nat, status : Statuses, filters : SUBSET Filters, layout : Layouts]

(* What an edit asks for. *)
Ops == [kind : {"filters", "layout", "status", "settings", "activate"},
        status : Statuses \cup {None}, filters : (SUBSET Filters) \cup {None},
        layout : Layouts \cup {None}]

(* A write under way, and which parts of it are there at which point. *)
Writes == {v \in [pc : {"idle", "read", "build", "land", "emit", "delete"},
                  op : Ops \cup {None}, base : Rows \cup {None}, row : Rows \cup {None}] :
             /\ v.pc \in {"read", "build", "land", "emit"} => v.op \in Ops
             /\ v.pc \in {"build", "land"} => v.base \in Rows
             /\ v.pc = "land" => v.row \in Rows}

(* The same of a payload: the row that was loaded, and after that only its status. *)
Pending == {v \in [pc : {"idle", "load", "loaded", "buffer"},
                   row : Rows \cup [status : Statuses] \cup {None},
                   age : 0..TTL, stale : 0..TTL, missed : BOOLEAN] :
             /\ v.pc = "loaded" => v.row \in Rows
             /\ v.pc = "buffer" => v.row \in [status : Statuses]}

Entries == [row : Rows, left : 1..TTL, stale : 0..TTL, missed : BOOLEAN]

Typed ==
    /\ rows \in SUBSET Rows
    /\ told \in BOOLEAN
    /\ cache # None => cache \in Entries
    /\ w \in [Requests -> Writes]
    /\ pl \in [Payloads -> Pending]
    /\ now \in Nat /\ edits \in Nat /\ faults \in Nat

-----------------------------------------------------------------------------
(* The operators that build rows.                                          *)

(* A merged row is a row, and newer than the row it was merged from. *)
LEMMA ApplyRow ==
    ASSUME NEW op \in Ops, NEW base \in Rows, now \in Nat
    PROVE  /\ Apply(op, base) \in Rows
           /\ Apply(op, base).at > base.at
<1>1. NextAt(base) \in Nat /\ NextAt(base) > base.at
  BY DEF NextAt, Rows
<1>2. Or(op.status, base.status) \in Statuses
  BY DEF Or, Ops, Rows
<1>3. Or(op.filters, base.filters) \in SUBSET Filters
  BY DEF Or, Ops, Rows
<1>4. Or(op.layout, base.layout) \in Layouts
  BY DEF Or, Ops, Rows
<1>5. "active" \in Statuses
  BY DEF Statuses
<1> QED
  BY <1>1, <1>2, <1>3, <1>4, <1>5 DEF Apply, Rows

(* A merged layout is a layout that resolves. *)
LEMMA MergedResolves ==
    ASSUME NEW r \in Rows, NEW s \in SUBSET Widgets,
           NEW incoming \in {[widgets |-> s], [order |-> s]},
           NEW l \in MergedLayout(r, incoming)
    PROVE  l \in Layouts /\ l.order \subseteq l.widgets
<1>1. r.layout \in Layouts
  BY DEF Rows
<1>2. CASE incoming = [widgets |-> s]
  <2>1. DOMAIN incoming = {"widgets"} /\ incoming.widgets = s
    BY <1>2
  <2> QED
    BY <1>1, <2>1 DEF MergedLayout, Layouts
<1>3. CASE incoming = [order |-> s]
  <2>1. DOMAIN incoming = {"order"} /\ incoming.order = s
    BY <1>3
  <2> QED
    BY <1>1, <2>1 DEF MergedLayout, Layouts
<1> QED
  BY <1>2, <1>3

(* A settings update with a layout of its own, and what every other edit    *)
(* sets out with.                                                          *)
Unlooked(op) == op.kind = "settings" /\ op.layout # None

Checked(op) == Unlooked(op) \/ op.layout = None \/ op.layout.order \subseteq op.layout.widgets

(* Every edit begins with an operation that is typed and, unless it is a    *)
(* settings update, brings no layout that was not validated.               *)
LEMMA EditBegins ==
    ASSUME Typed, NEW e \in Editors, EditStep(e), ~Delete(e)
    PROVE  \E op \in Ops : Begin(e, op) /\ Checked(op)
<1> USE DEF Typed
<1>1. ASSUME NEW v \in SUBSET Filters, WriteFilters(e, v)
      PROVE  \E op \in Ops : Begin(e, op) /\ Checked(op)
  <2> DEFINE op == [Given("filters") EXCEPT !.filters = v]
  <2>1. op \in Ops /\ Checked(op)
    BY DEF Ops, Given, Checked
  <2>2. Begin(e, op)
    BY <1>1 DEF WriteFilters
  <2> HIDE DEF op
  <2> QED BY <2>1, <2>2
<1>2. \A r \in rows : r.filters \in SUBSET Filters
  BY DEF Rows
<1>3. CASE FilterCreate(e)
  BY <1>1, <1>2, <1>3 DEF FilterCreate
<1>4. CASE FilterUpdate(e)
  BY <1>1, <1>2, <1>4 DEF FilterUpdate
<1>5. CASE FilterDelete(e)
  BY <1>1, <1>2, <1>5 DEF FilterDelete
<1>6. CASE FilterReorder(e)
  BY <1>1, <1>2, <1>6 DEF FilterReorder
<1>7. CASE SetLayout(e)
  <2>1. PICK r \in rows, s \in SUBSET Widgets :
          \E incoming \in {[widgets |-> s], [order |-> s]} :
            \E value \in MergedLayout(r, incoming) :
              Begin(e, [Given("layout") EXCEPT !.layout = value])
    BY <1>7 DEF SetLayout
  <2>2. PICK incoming \in {[widgets |-> s], [order |-> s]} :
            \E value \in MergedLayout(r, incoming) :
              Begin(e, [Given("layout") EXCEPT !.layout = value])
    BY <2>1
  <2>3. PICK value \in MergedLayout(r, incoming) :
              Begin(e, [Given("layout") EXCEPT !.layout = value])
    BY <2>2
  <2>4. value \in Layouts /\ value.order \subseteq value.widgets
    BY MergedResolves
  <2> DEFINE op == [Given("layout") EXCEPT !.layout = value]
  <2>5. op \in Ops /\ Checked(op)
    BY <2>4 DEF Ops, Given, Checked
  <2>6. Begin(e, op)
    BY <2>3
  <2> HIDE DEF op
  <2> QED BY <2>5, <2>6
<1>8. CASE UpdateSettings(e)
  <2>1. PICK u \in Updates : Begin(e, u)
    BY <1>8 DEF UpdateSettings
  <2>2. u \in Update
    BY IngestConstants
  <2>3. CASE u \in [kind : {"status"}, status : Statuses, filters : {None}, layout : {None}]
    BY <2>1, <2>3 DEF Ops, Checked
  <2>4. CASE u \in [kind : {"settings"}, status : Statuses \cup {None},
                    filters : (SUBSET Filters) \cup {None},
                    layout : [widgets : {{}}, order : SUBSET Widgets] \cup {None}]
    <3>1. u \in Ops /\ Checked(u)
      BY <2>4 DEF Ops, Layouts, Checked, Unlooked
    <3> QED BY <2>1, <3>1
  <2> QED
    BY <2>2, <2>3, <2>4 DEF Update
<1> QED
  BY <1>3, <1>4, <1>5, <1>6, <1>7, <1>8 DEF EditStep

-----------------------------------------------------------------------------
(* Types.                                                                  *)

(* The writes and the payloads a step leaves behind. *)
LEMMA WriteForms ==
    /\ NoWrite \in Writes
    /\ \A op \in Ops : [NoWrite EXCEPT !.pc = "read", !.op = op] \in Writes
    /\ \A op \in Ops : [NoWrite EXCEPT !.pc = "emit", !.op = op] \in Writes
    /\ \A v \in Writes :
          /\ v.pc = "idle" => [v EXCEPT !.pc = "delete"] \in Writes
          /\ v.pc = "read" =>
                \A r \in Rows : [v EXCEPT !.pc = "build", !.base = r] \in Writes
          /\ v.pc = "build" =>
                \A r \in Rows : [v EXCEPT !.pc = "land", !.row = r] \in Writes
BY DEF Writes, NoWrite

LEMMA PayloadForms ==
    /\ NoPayload \in Pending
    /\ [NoPayload EXCEPT !.pc = "load"] \in Pending
    /\ \A s \in Statuses : [NoPayload EXCEPT !.pc = "buffer", !.row = [status |-> s]] \in Pending
    /\ \A v \in Pending :
          /\ v.pc = "load" =>
                \A r \in Rows : [v EXCEPT !.pc = "loaded", !.row = r] \in Pending
          /\ [v EXCEPT !.missed = TRUE] \in Pending
          /\ \A a \in 0..TTL, b \in 0..TTL : [v EXCEPT !.age = a, !.stale = b] \in Pending
<1>0. 0 \in 0..TTL
  BY IngestConstants
<1> USE <1>0 DEF Pending, NoPayload
<1>1. NoPayload \in Pending /\ [NoPayload EXCEPT !.pc = "load"] \in Pending
  OBVIOUS
<1>2. ASSUME NEW s \in Statuses
      PROVE  [NoPayload EXCEPT !.pc = "buffer", !.row = [status |-> s]] \in Pending
  <2>1. [status |-> s] \in [status : Statuses]
    OBVIOUS
  <2> QED
    BY <2>1
<1>3. ASSUME NEW v \in Pending, v.pc = "load", NEW r \in Rows
      PROVE  [v EXCEPT !.pc = "loaded", !.row = r] \in Pending
  BY <1>3
<1>4. ASSUME NEW v \in Pending PROVE [v EXCEPT !.missed = TRUE] \in Pending
  OBVIOUS
<1>5. ASSUME NEW v \in Pending, NEW a \in 0..TTL, NEW b \in 0..TTL
      PROVE  [v EXCEPT !.age = a, !.stale = b] \in Pending
  OBVIOUS
<1> HIDE DEF Pending, NoPayload
<1> QED
  BY <1>1, <1>2, <1>3, <1>4, <1>5

LEMMA JudgeTyped ==
    ASSUME Typed, NEW p \in Payloads, NEW row \in Rows, Judge(p, row)
    PROVE  pl' \in [Payloads -> Pending]
<1>1. row.status \in Statuses
  BY DEF Rows
<1> QED
  BY <1>1, PayloadForms DEF Typed, Judge

LEMMA TypedStep == ASSUME Typed, [Next]_vars PROVE Typed'
<1>0. TTL \in Nat /\ MaxNow \in Nat
  BY IngestConstants
<1> USE <1>0 DEF Typed
<1>1. ASSUME NEW e \in Editors, EditStep(e) PROVE Typed'
  <2>1. CASE Delete(e)
    <3>1. e \in Requests /\ w[e] \in Writes /\ w[e].pc = "idle"
      BY <2>1 DEF Delete, Requests
    <3>2. w' = [w EXCEPT ![e] = [w[e] EXCEPT !.pc = "delete"]]
      BY <2>1 DEF Delete
    <3>3. w' \in [Requests -> Writes]
      BY <3>1, <3>2, WriteForms
    <3> QED
      BY <2>1, <3>3 DEF Delete
  <2>2. CASE ~Delete(e)
    <3>1. PICK op \in Ops : Begin(e, op)
      BY <1>1, <2>2, EditBegins
    <3> QED
      <4>1. w' \in [Requests -> Writes]
        BY <3>1, WriteForms DEF Begin, Requests
      <4> QED
        BY <3>1, <4>1 DEF Begin
  <2> QED
    BY <2>1, <2>2
<1>2. ASSUME NEW e \in Editors, DeleteRow(e) PROVE Typed'
  BY <1>2, WriteForms DEF DeleteRow, Requests
<1>3. ASSUME NEW x \in Requests, WriteRead(x) PROVE Typed'
  <2>1. CASE w' = [w EXCEPT ![x] = NoWrite]
    BY <1>3, <2>1, WriteForms DEF WriteRead
  <2>2. ASSUME NEW r \in rows, w' = [w EXCEPT ![x].pc = "build", ![x].base = r] PROVE Typed'
    <3>1. w[x] \in Writes /\ w[x].pc = "read" /\ r \in Rows
      BY <1>3 DEF WriteRead
    <3>2. w' = [w EXCEPT ![x] = [w[x] EXCEPT !.pc = "build", !.base = r]]
      BY <2>2
    <3>3. w' \in [Requests -> Writes]
      BY <3>1, <3>2, WriteForms
    <3> QED
      BY <1>3, <3>3 DEF WriteRead
  <2> QED
    BY <1>3, <2>1, <2>2 DEF WriteRead
<1>4. ASSUME NEW x \in Requests, WriteBuild(x) PROVE Typed'
  <2>1. w[x] \in Writes /\ w[x].pc = "build"
    BY <1>4 DEF WriteBuild
  <2>2. Apply(w[x].op, w[x].base) \in Rows
    BY <2>1, ApplyRow DEF Writes
  <2>3. w' \in [Requests -> Writes]
    BY <1>4, <2>1, <2>2, WriteForms DEF WriteBuild
  <2> QED
    BY <1>4, <2>3 DEF WriteBuild
<1>5. ASSUME NEW x \in Requests, WriteLand(x) PROVE Typed'
  <2>1. Given(w[x].op.kind) \in Ops /\ w[x].row \in Rows
    BY <1>5 DEF WriteLand, Writes, Ops, Given
  <2>2. rows' \in SUBSET Rows
    BY <1>5, <2>1 DEF WriteLand, Insert
  <2>3. w' \in [Requests -> Writes]
    BY <1>5, <2>1, WriteForms DEF WriteLand
  <2> QED
    BY <1>5, <2>2, <2>3 DEF WriteLand
<1>6. ASSUME NEW x \in Requests, WriteReturn(x) PROVE Typed'
  <2>1. w' \in [Requests -> Writes]
    BY <1>6, WriteForms DEF WriteReturn
  <2>2. pl' \in [Payloads -> Pending]
    BY <1>6, PayloadForms DEF WriteReturn, Invalidate
  <2> QED
    BY <1>6, <2>1, <2>2 DEF WriteReturn, Invalidate
<1>7. ASSUME NEW x \in Requests, WriteFails(x) PROVE Typed'
  <2>1. w' \in [Requests -> Writes]
    BY <1>7, WriteForms DEF WriteFails
  <2> QED
    BY <1>7, <2>1 DEF WriteFails
<1>8. ASSUME NEW p \in Payloads, PayloadStart(p) PROVE Typed'
  <2>1. CASE cache # None
    BY <1>8, <2>1, JudgeTyped DEF PayloadStart, Entries
  <2>2. CASE cache = None
    BY <1>8, <2>2, PayloadForms DEF PayloadStart
  <2> QED
    BY <2>1, <2>2
<1>9. ASSUME NEW p \in Payloads, LoadRead(p) PROVE Typed'
  <2>1. CASE pl' = [pl EXCEPT ![p] = NoPayload]
    BY <1>9, <2>1, PayloadForms DEF LoadRead
  <2>2. ASSUME NEW r \in rows, pl' = [pl EXCEPT ![p].pc = "loaded", ![p].row = r] PROVE Typed'
    <3>1. pl[p] \in Pending /\ pl[p].pc = "load" /\ r \in Rows
      BY <1>9 DEF LoadRead
    <3>2. pl' = [pl EXCEPT ![p] = [pl[p] EXCEPT !.pc = "loaded", !.row = r]]
      BY <2>2
    <3>3. pl' \in [Payloads -> Pending]
      BY <3>1, <3>2, PayloadForms
    <3> QED
      BY <1>9, <3>3 DEF LoadRead
  <2> QED
    BY <1>9, <2>1, <2>2 DEF LoadRead
<1>10. ASSUME NEW p \in Payloads, LoadReturn(p) PROVE Typed'
  <2>1. /\ pl[p].row \in Rows /\ pl[p].stale \in 0..TTL /\ pl[p].missed \in BOOLEAN
        /\ pl[p].age \in 0..TTL
    BY <1>10 DEF LoadReturn, Pending
  <2>2. cache' # None => cache' \in Entries
    BY <1>10, <2>1 DEF LoadReturn, Left, Entries
  <2> QED
    BY <1>10, <2>1, <2>2, JudgeTyped DEF LoadReturn
<1>11. ASSUME NEW p \in Payloads, Buffered(p) PROVE Typed'
  <2>1. Given("activate") \in Ops
    BY DEF Ops, Given
  <2> QED
    BY <1>11, <2>1, WriteForms, PayloadForms DEF Buffered, Requests
<1>12. ASSUME NEW p \in Payloads, PayloadFails(p) PROVE Typed'
  <2>1. pl' \in [Payloads -> Pending]
    BY <1>12, PayloadForms DEF PayloadFails
  <2> QED
    BY <1>12, <2>1 DEF PayloadFails
<1>13. CASE Merge
  BY <1>13 DEF Merge
<1>14. CASE Tick
  <2>1. \A n \in 0..TTL : Capped(n, TTL) \in 0..TTL
    BY DEF Capped
  <2>2. ASSUME cache' # None PROVE cache' \in Entries
    <3>1. cache \in Entries /\ cache.left \in 2..TTL /\ cache.stale \in 0..TTL
      <4>1. cache # None /\ ~(cache.left <= 1)
        BY <1>14, <2>2 DEF Tick
      <4>2. cache \in Entries /\ cache.left \in 1..TTL /\ cache.stale \in 0..TTL
        BY <4>1 DEF Entries
      <4> QED
        BY <4>1, <4>2
    <3>2. PICK n \in 0..TTL : cache' = [cache EXCEPT !.left = @ - 1, !.stale = n]
      <4>1. 0 \in 0..TTL /\ Capped(cache.stale, TTL) \in 0..TTL
        BY <2>1, <3>1
      <4>2. cache' = [cache EXCEPT !.left = @ - 1,
                        !.stale = IF cache.row \in rows THEN 0 ELSE Capped(cache.stale, TTL)]
        BY <1>14, <2>2 DEF Tick
      <4> QED
        BY <4>1, <4>2
    <3>3. cache.left - 1 \in 1..TTL
      BY <3>1
    <3> QED
      BY <3>1, <3>2, <3>3 DEF Entries
  <2>3. ASSUME NEW p \in Payloads PROVE pl'[p] \in Pending
    <3>1. pl[p] \in Pending /\ pl[p].age \in 0..TTL /\ pl[p].stale \in 0..TTL
      BY DEF Pending
    <3> DEFINE a == Capped(pl[p].age, TTL)
               b == IF pl[p].pc = "loaded" /\ pl[p].row \notin rows
                    THEN Capped(pl[p].stale, TTL) ELSE 0
    <3>2. pl'[p] = IF pl[p].pc \in {"load", "loaded"} THEN [pl[p] EXCEPT !.age = a, !.stale = b]
                   ELSE pl[p]
      BY <1>14 DEF Tick
    <3>3. a \in 0..TTL /\ b \in 0..TTL
      BY <2>1, <3>1
    <3> HIDE DEF a, b
    <3>4. [pl[p] EXCEPT !.age = a, !.stale = b] \in Pending
      BY <3>1, <3>3, PayloadForms
    <3> QED
      BY <3>1, <3>2, <3>4
  <2>4. pl' \in [Payloads -> Pending]
    BY <1>14, <2>3 DEF Tick
  <2>5. now' \in Nat
    <3>1. now' = Capped(now, MaxNow)
      BY <1>14 DEF Tick
    <3> QED
      BY <3>1 DEF Capped
  <2> QED
    BY <1>14, <2>2, <2>4, <2>5 DEF Tick
<1>15. CASE UNCHANGED vars
  BY <1>15 DEF vars
<1> HIDE DEF Typed
<1> QED
  BY <1>1, <1>2, <1>3, <1>4, <1>5, <1>6, <1>7, <1>8, <1>9, <1>10, <1>11, <1>12, <1>13, <1>14,
     <1>15 DEF Next, WriteStep, PayloadStep

(* Rows, cached rows, the writes and the payloads under way stay well      *)
(* formed: a request never inserts or caches a row it did not build or     *)
(* read (update(), getWorkspace()).                                        *)
THEOREM TypeCorrect == Spec => []Typed
<1>1. Init => Typed
  <2>1. [widgets |-> {}, order |-> {}] \in Layouts
    BY DEF Layouts
  <2>2. [at |-> 0, status |-> "initializing", filters |-> {},
         layout |-> [widgets |-> {}, order |-> {}]] \in Rows
    BY <2>1 DEF Rows, Statuses
  <2>3. Init => w \in [Requests -> Writes] /\ pl \in [Payloads -> Pending]
    BY WriteForms, PayloadForms DEF Init
  <2>4. Init => rows \in SUBSET Rows
    BY <2>2 DEF Init
  <2> QED
    BY <2>3, <2>4 DEF Init, Typed
<1> QED
  BY <1>1, TypedStep, PTL DEF Spec

-----------------------------------------------------------------------------
(* What the edits write.                                                   *)

(* What a write carries from the past into the table: a row newer than the  *)
(* one it was merged from, an active status only if the operation says so  *)
(* or the row it read had it or was waiting for it, and a layout that      *)
(* resolves unless nobody looked at it or the row it read had it.          *)
SoundWrite(v) ==
    /\ v.pc \in {"read", "build"} => Checked(v.op)
    /\ v.pc = "land" =>
          /\ v.row.at > v.base.at
          /\ v.row.status = "active" =>
                v.op.status = "active" \/ v.base.status \in {"active", "initializing"}
          /\ Resolves(v.base) => Unlooked(v.op) \/ Resolves(v.row)

Tied == \A r \in rows, s \in rows : r.at = s.at

WriteInv ==
    /\ Tied
    /\ \A x \in Requests : SoundWrite(w[x])

(* A merge into a row that resolves. *)
LEMMA ApplySound ==
    ASSUME NEW op \in Ops, NEW base \in Rows, Checked(op), MayWrite(op, base)
    PROVE  /\ Apply(op, base).status = "active" =>
                op.status = "active" \/ base.status \in {"active", "initializing"}
           /\ Resolves(base) => Unlooked(op) \/ Resolves(Apply(op, base))
<1>1. Apply(op, base).status = IF op.kind = "activate" THEN "active" ELSE Or(op.status, base.status)
  BY DEF Apply
<1>2. Apply(op, base).layout = Or(op.layout, base.layout)
  BY DEF Apply
<1> QED
  BY <1>1, <1>2 DEF Or, MayWrite, Checked, Resolves

(* An idle, a returning and a deleting request carry nothing. *)
LEMMA SoundForms ==
    /\ SoundWrite(NoWrite)
    /\ \A op \in Ops : Checked(op) => SoundWrite([NoWrite EXCEPT !.pc = "read", !.op = op])
    /\ \A op \in Ops : SoundWrite([NoWrite EXCEPT !.pc = "emit", !.op = op])
    /\ \A v \in Writes : SoundWrite([v EXCEPT !.pc = "delete"])
BY DEF SoundWrite, NoWrite, Writes

LEMMA SoundUpdate ==
    ASSUME Typed, \A y \in Requests : SoundWrite(w[y]),
           NEW x \in Requests, NEW v, SoundWrite(v), w' = [w EXCEPT ![x] = v]
    PROVE  \A y \in Requests : SoundWrite(w'[y])
BY DEF Typed

(* The table and what the requests carry, after a step that leaves the     *)
(* table alone or shrinks it.                                              *)
LEMMA SmallerTable ==
    ASSUME WriteInv, rows' \subseteq rows, \A y \in Requests : SoundWrite(w'[y])
    PROVE  WriteInv'
BY DEF WriteInv, Tied

LEMMA WriteInvStep == ASSUME Typed, WriteInv, [Next]_vars PROVE WriteInv'
<1>0. \A y \in Requests : SoundWrite(w[y])
  BY DEF WriteInv
<1>1. ASSUME NEW e \in Editors, EditStep(e) PROVE WriteInv'
  <2>0. e \in Requests
    BY DEF Requests
  <2>1. CASE Delete(e)
    <3>1. w' = [w EXCEPT ![e] = [w[e] EXCEPT !.pc = "delete"]] /\ w[e] \in Writes
      BY <2>0, <2>1 DEF Delete, Typed
    <3>2. SoundWrite([w[e] EXCEPT !.pc = "delete"])
      BY <3>1, SoundForms
    <3>3. \A y \in Requests : SoundWrite(w'[y])
      BY <1>0, <2>0, <3>1, <3>2, SoundUpdate
    <3> QED
      BY <2>1, <3>3, SmallerTable DEF Delete
  <2>2. CASE ~Delete(e)
    <3>1. PICK op \in Ops : Begin(e, op) /\ Checked(op)
      BY <1>1, <2>2, EditBegins
    <3>2. \A y \in Requests : SoundWrite(w'[y])
      BY <1>0, <2>0, <3>1, SoundForms, SoundUpdate DEF Begin
    <3> QED
      BY <3>1, <3>2, SmallerTable DEF Begin
  <2> QED
    BY <2>1, <2>2
<1>2. ASSUME NEW e \in Editors, DeleteRow(e) PROVE WriteInv'
  <2>1. \A y \in Requests : SoundWrite(w'[y])
    BY <1>0, <1>2, SoundForms, SoundUpdate DEF DeleteRow, Requests
  <2> QED
    BY <1>2, <2>1, SmallerTable DEF DeleteRow
<1>3. ASSUME NEW x \in Requests, WriteRead(x) PROVE WriteInv'
  <2>1. CASE w' = [w EXCEPT ![x] = NoWrite]
    <3>1. \A y \in Requests : SoundWrite(w'[y])
      BY <1>0, <2>1, SoundForms, SoundUpdate
    <3> QED
      BY <1>3, <3>1, SmallerTable DEF WriteRead
  <2>2. ASSUME NEW r \in rows, w' = [w EXCEPT ![x].pc = "build", ![x].base = r] PROVE WriteInv'
    <3> DEFINE v == [w[x] EXCEPT !.pc = "build", !.base = r]
    <3>1. w[x] \in Writes /\ w[x].pc = "read" /\ Checked(w[x].op)
      BY <1>0, <1>3 DEF WriteRead, Typed, SoundWrite
    <3>3. SoundWrite(v)
      BY <3>1 DEF SoundWrite, Writes
    <3>4. w' = [w EXCEPT ![x] = v]
      BY <2>2
    <3>5. \A y \in Requests : SoundWrite(w'[y])
      BY <1>0, <3>3, <3>4, SoundUpdate
    <3> QED
      BY <1>3, <3>5, SmallerTable DEF WriteRead
  <2> QED
    BY <1>3, <2>1, <2>2 DEF WriteRead
<1>4. ASSUME NEW x \in Requests, WriteBuild(x) PROVE WriteInv'
  <2> DEFINE row == Apply(w[x].op, w[x].base)
             v == [w[x] EXCEPT !.pc = "land", !.row = row]
  <2>1. /\ w[x] \in Writes /\ w[x].pc = "build" /\ w[x].op \in Ops /\ w[x].base \in Rows
        /\ Checked(w[x].op) /\ now \in Nat
    BY <1>0, <1>4 DEF WriteBuild, Typed, SoundWrite, Writes
  <2>2. CASE MayWrite(w[x].op, w[x].base)
    <3>1. row.at > w[x].base.at
      BY <2>1, ApplyRow
    <3>2. /\ row.status = "active" =>
                w[x].op.status = "active" \/ w[x].base.status \in {"active", "initializing"}
          /\ Resolves(w[x].base) => Unlooked(w[x].op) \/ Resolves(row)
      BY <2>1, <2>2, ApplySound
    <3> HIDE DEF row
    <3>3. /\ v.pc = "land" /\ v.row = row /\ v.base = w[x].base /\ v.op = w[x].op
      BY <2>1 DEF Writes
    <3>4. SoundWrite(v)
      BY <3>1, <3>2, <3>3 DEF SoundWrite
    <3>5. w' = [w EXCEPT ![x] = v]
      BY <1>4, <2>2 DEF WriteBuild, row
    <3>6. \A y \in Requests : SoundWrite(w'[y])
      BY <1>0, <3>4, <3>5, SoundUpdate
    <3> QED
      BY <1>4, <3>6, SmallerTable DEF WriteBuild
  <2>3. CASE ~MayWrite(w[x].op, w[x].base)
    <3>1. \A y \in Requests : SoundWrite(w'[y])
      BY <1>0, <1>4, <2>3, SoundForms, SoundUpdate DEF WriteBuild
    <3> QED
      BY <1>4, <3>1, SmallerTable DEF WriteBuild
  <2> QED
    BY <2>2, <2>3
<1>5. ASSUME NEW x \in Requests, WriteLand(x) PROVE WriteInv'
  <2>1. Given(w[x].op.kind) \in Ops /\ w[x].row \in Rows
    BY <1>5 DEF WriteLand, Writes, Typed, Ops, Given
  <2>2. \A y \in Requests : SoundWrite(w'[y])
    BY <1>0, <1>5, <2>1, SoundForms, SoundUpdate DEF WriteLand
  <2>3. CASE rows' = rows
    BY <2>2, <2>3, SmallerTable
  <2>4. CASE rows' = {r \in rows : r.at = w[x].row.at} \cup {w[x].row}
    BY <2>1, <2>2, <2>4 DEF WriteInv, Tied
  <2> QED
    BY <1>5, <2>3, <2>4 DEF WriteLand, Insert
<1>6. ASSUME NEW x \in Requests, WriteReturn(x) PROVE WriteInv'
  <2>1. \A y \in Requests : SoundWrite(w'[y])
    BY <1>0, <1>6, SoundForms, SoundUpdate DEF WriteReturn
  <2> QED
    BY <1>6, <2>1, SmallerTable DEF WriteReturn
<1>7. ASSUME NEW x \in Requests, WriteFails(x) PROVE WriteInv'
  <2>1. \A y \in Requests : SoundWrite(w'[y])
    BY <1>0, <1>7, SoundForms, SoundUpdate DEF WriteFails
  <2> QED
    BY <1>7, <2>1, SmallerTable DEF WriteFails
<1>8. ASSUME NEW p \in Payloads, PayloadStart(p) \/ LoadRead(p) \/ LoadReturn(p) \/ PayloadFails(p)
      PROVE  WriteInv'
  <2>1. w' = w /\ rows' = rows
    BY <1>8 DEF PayloadStart, LoadRead, LoadReturn, PayloadFails
  <2> QED
    BY <1>0, <2>1, SmallerTable
<1>9. ASSUME NEW p \in Payloads, Buffered(p) PROVE WriteInv'
  <2> DEFINE op == Given("activate")
  <2>1. op \in Ops /\ Checked(op) /\ p \in Requests
    BY DEF Ops, Given, Checked, Requests
  <2>2. w' = w \/ w' = [w EXCEPT ![p] = [NoWrite EXCEPT !.pc = "read", !.op = op]]
    BY <1>9 DEF Buffered
  <2> HIDE DEF op
  <2>3. \A y \in Requests : SoundWrite(w'[y])
    BY <1>0, <2>1, <2>2, SoundForms, SoundUpdate
  <2> QED
    BY <1>9, <2>3, SmallerTable DEF Buffered
<1>10. CASE Merge
  <2>1. w' = w /\ rows' \subseteq rows
    BY <1>10 DEF Merge
  <2> QED
    BY <1>0, <2>1, SmallerTable
<1>11. CASE Tick \/ UNCHANGED vars
  <2>1. w' = w /\ rows' = rows
    BY <1>11 DEF Tick, vars
  <2> QED
    BY <1>0, <2>1, SmallerTable
<1> QED
  BY <1>1, <1>2, <1>3, <1>4, <1>5, <1>6, <1>7, <1>8, <1>9, <1>10, <1>11
  DEF Next, WriteStep, PayloadStep

LEMMA WriteInvInit == Init => WriteInv
<1>1. SoundWrite(NoWrite)
  BY SoundForms
<1> QED
  BY <1>1 DEF Init, WriteInv, Tied

LEMMA WriteInvHolds == Spec => [](Typed /\ WriteInv)
BY TypeCorrect, WriteInvInit, WriteInvStep, PTL DEF Spec

-----------------------------------------------------------------------------
(* What one landing write does to the table.                               *)

(* Only a landing write gets from "land" to "emit". *)
LEMMA OnlyLandLands ==
    ASSUME Typed, [Next]_vars, NEW x \in Requests, Lands(x)
    PROVE  WriteLand(x)
<1>0. w[x].pc = "land" /\ w'[x].pc = "emit" /\ w \in [Requests -> Writes]
  BY DEF Lands, Typed
<1>1. ASSUME NEW y \in Requests, NEW v, v.pc # "emit", w' = [w EXCEPT ![y] = v] PROVE FALSE
  BY <1>0, <1>1
<1>2. w' # w
  BY <1>0
<1>3. /\ NoWrite.pc # "emit"
      /\ \A op \in Ops : [NoWrite EXCEPT !.pc = "read", !.op = op].pc # "emit"
  BY DEF NoWrite
<1>4. ASSUME NEW e \in Editors, EditStep(e) PROVE FALSE
  <2>0. e \in Requests
    BY DEF Requests
  <2>1. CASE Delete(e)
    <3>1. w' = [w EXCEPT ![e] = [w[e] EXCEPT !.pc = "delete"]] /\ w[e] \in Writes
      BY <2>0, <2>1 DEF Delete, Typed
    <3>2. [w[e] EXCEPT !.pc = "delete"].pc # "emit"
      BY <3>1 DEF Writes
    <3> QED
      BY <1>1, <2>0, <3>1, <3>2
  <2>2. CASE ~Delete(e)
    <3>1. PICK op \in Ops : Begin(e, op)
      BY <1>4, <2>2, EditBegins
    <3> QED
      BY <1>1, <1>3, <2>0, <3>1 DEF Begin
  <2> QED
    BY <2>1, <2>2
<1>5. ASSUME NEW e \in Editors, DeleteRow(e) PROVE FALSE
  BY <1>1, <1>3, <1>5 DEF DeleteRow, Requests
<1>6. ASSUME NEW y \in Requests, WriteRead(y) PROVE FALSE
  <2>1. CASE w' = [w EXCEPT ![y] = NoWrite]
    BY <1>1, <1>3, <2>1
  <2>2. ASSUME NEW r \in rows, w' = [w EXCEPT ![y].pc = "build", ![y].base = r] PROVE FALSE
    <3>1. w' = [w EXCEPT ![y] = [w[y] EXCEPT !.pc = "build", !.base = r]] /\ w[y] \in Writes
      BY <1>0, <2>2
    <3>2. [w[y] EXCEPT !.pc = "build", !.base = r].pc # "emit"
      BY <3>1 DEF Writes
    <3> QED
      BY <1>1, <3>1, <3>2
  <2> QED
    BY <1>6, <2>1, <2>2 DEF WriteRead
<1>7. ASSUME NEW y \in Requests, WriteBuild(y) PROVE FALSE
  <2> DEFINE v == [w[y] EXCEPT !.pc = "land", !.row = Apply(w[y].op, w[y].base)]
  <2>1. v.pc # "emit"
    BY <1>0 DEF Writes
  <2>2. w' = [w EXCEPT ![y] = v] \/ w' = [w EXCEPT ![y] = NoWrite]
    BY <1>7 DEF WriteBuild
  <2> HIDE DEF v
  <2> QED
    BY <1>1, <1>3, <2>1, <2>2
<1>8. ASSUME NEW y \in Requests, WriteReturn(y) \/ WriteFails(y) PROVE FALSE
  BY <1>1, <1>3, <1>8 DEF WriteReturn, WriteFails
<1>9. ASSUME NEW p \in Payloads, PayloadStart(p) \/ LoadRead(p) \/ LoadReturn(p) \/ PayloadFails(p)
      PROVE  FALSE
  BY <1>2, <1>9 DEF PayloadStart, LoadRead, LoadReturn, PayloadFails
<1>10. ASSUME NEW p \in Payloads, Buffered(p) PROVE FALSE
  <2> DEFINE op == Given("activate")
  <2>1. op \in Ops /\ p \in Requests
    BY DEF Ops, Given, Requests
  <2>2. w' = w \/ w' = [w EXCEPT ![p] = [NoWrite EXCEPT !.pc = "read", !.op = op]]
    BY <1>10 DEF Buffered
  <2> HIDE DEF op
  <2> QED
    BY <1>1, <1>2, <1>3, <2>1, <2>2
<1>11. CASE Merge \/ Tick \/ UNCHANGED vars
  BY <1>2, <1>11 DEF Merge, Tick, vars
<1>12. ASSUME NEW y \in Requests, WriteLand(y) PROVE WriteLand(x)
  BY <1>0, <1>12 DEF WriteLand
<1> QED
  BY <1>4, <1>5, <1>6, <1>7, <1>8, <1>9, <1>10, <1>11, <1>12
  DEF Next, WriteStep, PayloadStep

(* A row that was not there before was inserted by a landing write. *)
LEMMA OnlyLandAdds ==
    ASSUME Typed, [Next]_vars
    PROVE  rows' \subseteq rows
             \/ \E x \in Requests : Lands(x) /\ rows' \subseteq rows \cup {w[x].row}
<1>1. ASSUME NEW e \in Editors, EditStep(e) \/ DeleteRow(e) PROVE rows' \subseteq rows
  <2>1. CASE DeleteRow(e)
    BY <2>1 DEF DeleteRow
  <2>2. CASE Delete(e)
    BY <2>2 DEF Delete
  <2>3. CASE EditStep(e) /\ ~Delete(e)
    BY <2>3, EditBegins DEF Begin
  <2> QED
    BY <1>1, <2>1, <2>2, <2>3
<1>2. ASSUME NEW x \in Requests, WriteLand(x)
      PROVE  Lands(x) /\ rows' \subseteq rows \cup {w[x].row}
  <2>1. w[x].pc = "land" /\ w'[x].pc = "emit"
    BY <1>2 DEF WriteLand, Typed, NoWrite
  <2> QED
    BY <1>2, <2>1 DEF WriteLand, Insert, Lands
<1>3. ASSUME NEW x \in Requests, WriteRead(x) \/ WriteBuild(x) \/ WriteReturn(x) \/ WriteFails(x)
      PROVE  rows' = rows
  BY <1>3 DEF WriteRead, WriteBuild, WriteReturn, WriteFails
<1>4. ASSUME NEW p \in Payloads, PayloadStart(p) \/ PayloadStep(p) \/ PayloadFails(p)
      PROVE  rows' = rows
  BY <1>4 DEF PayloadStart, PayloadStep, LoadRead, LoadReturn, Buffered, PayloadFails
<1>5. CASE Merge \/ Tick \/ UNCHANGED vars
  BY <1>5 DEF Merge, Tick, vars
<1> QED
  BY <1>1, <1>2, <1>3, <1>4, <1>5 DEF Next, WriteStep

(* An edit whose base row is still the newest when it lands is what every  *)
(* later read returns, whatever the clock shows: update() stamps its row   *)
(* strictly after the row it was merged from.                              *)
THEOREM UncontendedWritesAreSeen == Spec => UncontendedWriteIsSeen
<1>1. ASSUME Typed, WriteInv, [Next]_vars, NEW x \in Requests, Lands(x), w[x].base \in rows
      PROVE  rows' = {w[x].row}
  <2>1. WriteLand(x)
    BY <1>1, OnlyLandLands
  <2>2. /\ w[x].row.at > w[x].base.at
        /\ w[x].row.at \in Nat /\ w[x].base.at \in Nat
        /\ \A r \in rows : r.at = w[x].base.at
    BY <1>1, <2>1 DEF WriteLand, WriteInv, SoundWrite, Tied, Typed, Writes, Rows
  <2>3. ~(\E r \in rows : r.at > w[x].row.at) /\ {r \in rows : r.at = w[x].row.at} = {}
    BY <2>2
  <2> QED
    BY <2>1, <2>3 DEF WriteLand, Insert
<1>2. Typed /\ WriteInv /\ [Next]_vars =>
        [\A x \in Requests : Lands(x) /\ w[x].base \in rows => rows' = {w[x].row}]_vars
  BY <1>1
<1> QED
  BY <1>2, WriteInvHolds, PTL DEF Spec, UncontendedWriteIsSeen

(* A workspace that every reader sees as inactive becomes active only by   *)
(* an edit that says so, or by a write that had read an earlier row: the   *)
(* automatic activation looks at the status it read                        *)
(* (activateIfInitializing), and every other write keeps it (update()).    *)
THEOREM ReactivatedOnlyByOverlap == Spec => ReactivatedByOverlap
<1>1. ASSUME Typed, WriteInv, [Next]_vars,
             \A r \in rows : r.status = "inactive", \E r \in rows' : r.status = "active"
      PROVE  \E x \in Requests :
               /\ Lands(x)
               /\ w[x].op.status = "active" \/ w[x].base \notin rows
  <2>1. PICK x \in Requests : Lands(x) /\ rows' \subseteq rows \cup {w[x].row}
    BY <1>1, OnlyLandAdds
  <2>2. w[x].row.status = "active"
    BY <1>1, <2>1
  <2>3. w[x].op.status = "active" \/ w[x].base.status \in {"active", "initializing"}
    BY <1>1, <2>1, <2>2 DEF Lands, WriteInv, SoundWrite
  <2> QED
    BY <1>1, <2>1, <2>3
<1> QED
  BY <1>1, WriteInvHolds, PTL DEF Spec, ReactivatedByOverlap

(* However edits, activations and merges of the table interleave, a layout  *)
(* that resolves gives way to one that does not only by a settings update   *)
(* that brings a layout of its own, or by a write that had read the row     *)
(* before the layout was put right: setLayout() validates what it writes    *)
(* as a whole, and every other write carries the layout it read (update()). *)
THEOREM LayoutAlwaysKept == Spec => LayoutKept
<1>1. ASSUME Typed, WriteInv, [Next]_vars,
             \A r \in rows : Resolves(r), \E r \in rows' : ~Resolves(r)
      PROVE  \E x \in Requests :
               /\ Lands(x)
               /\ \/ w[x].op.kind = "settings" /\ w[x].op.layout # None
                  \/ w[x].base \notin rows
  <2>1. PICK x \in Requests : Lands(x) /\ rows' \subseteq rows \cup {w[x].row}
    BY <1>1, OnlyLandAdds
  <2>2. ~Resolves(w[x].row)
    BY <1>1, <2>1
  <2>3. Unlooked(w[x].op) \/ ~Resolves(w[x].base)
    BY <1>1, <2>1, <2>2 DEF Lands, WriteInv, SoundWrite
  <2> QED
    BY <1>1, <2>1, <2>3 DEF Unlooked
<1> QED
  BY <1>1, WriteInvHolds, PTL DEF Spec, LayoutKept

-----------------------------------------------------------------------------
(* How old the row is that a payload is judged by.                         *)

(* What a load under way will put into the cache: a row that has been out  *)
(* of the table for no longer than the load has lasted, and that an        *)
(* announced change has replaced only during the load.                     *)
FreshLoad(v) ==
    /\ v.pc = "load" => v.stale = 0
    /\ v.pc = "loaded" => v.stale <= v.age
    /\ v.pc = "loaded" /\ told /\ v.row \notin rows => v.missed

FreshInv ==
    /\ JudgementIsFresh
    /\ \A p \in Payloads : FreshLoad(pl[p])

(* A step that leaves the caches and the loads alone, and that leaves the  *)
(* table alone too or is not announced.                                    *)
LEMMA CachesAlone ==
    ASSUME FreshInv, UNCHANGED <<cache, pl>>, UNCHANGED <<rows, told>> \/ ~told'
    PROVE  FreshInv'
BY DEF FreshInv, FreshLoad, JudgementIsFresh, JudgedByRecentRow, StaleNeedsOverlap

(* A step of one payload that leaves the table and the cache alone. *)
LEMMA OnePayload ==
    ASSUME Typed, FreshInv, NEW p \in Payloads, NEW v, FreshLoad(v),
           pl' = [pl EXCEPT ![p] = v], UNCHANGED <<rows, told>>, cache' = cache \/ cache' = None
    PROVE  FreshInv'
<1>1. ASSUME NEW q \in Payloads PROVE FreshLoad(pl[q])'
  <2>1. pl'[q] = IF q = p THEN v ELSE pl[q]
    BY DEF Typed
  <2>2. FreshLoad(pl'[q])
    BY <2>1 DEF FreshInv
  <2> QED
    BY <2>2 DEF FreshLoad
<1> QED
  BY <1>1 DEF FreshInv, JudgementIsFresh, JudgedByRecentRow, StaleNeedsOverlap

(* A judged payload has no load under way. *)
LEMMA JudgedIsFresh ==
    ASSUME NEW p \in Payloads, NEW row, Judge(p, row)
    PROVE  \E v : pl' = [pl EXCEPT ![p] = v] /\ FreshLoad(v)
<1>1. FreshLoad(NoPayload) /\ FreshLoad([NoPayload EXCEPT !.pc = "buffer", !.row = [status |-> row.status]])
  BY DEF FreshLoad, NoPayload
<1> QED
  BY <1>1 DEF Judge

LEMMA FreshStep == ASSUME Typed, FreshInv, [Next]_vars PROVE FreshInv'
<1>0. TTL \in Nat
  BY IngestConstants
<1>1. FreshLoad(NoPayload) /\ FreshLoad([NoPayload EXCEPT !.pc = "load"])
  BY DEF FreshLoad, NoPayload
<1>2. ASSUME NEW e \in Editors, EditStep(e) PROVE FreshInv'
  <2>1. CASE Delete(e)
    BY <2>1, CachesAlone DEF Delete
  <2>2. CASE ~Delete(e)
    BY <1>2, <2>2, EditBegins, CachesAlone DEF Begin
  <2> QED
    BY <2>1, <2>2
<1>3. ASSUME NEW e \in Editors, DeleteRow(e) PROVE FreshInv'
  BY <1>3, CachesAlone DEF DeleteRow
<1>4. ASSUME NEW x \in Requests, WriteRead(x) \/ WriteBuild(x) \/ WriteFails(x) PROVE FreshInv'
  BY <1>4, CachesAlone DEF WriteRead, WriteBuild, WriteFails
<1>5. ASSUME NEW x \in Requests, WriteLand(x) PROVE FreshInv'
  <2>1. UNCHANGED <<rows, told>> \/ ~told'
    BY <1>5 DEF WriteLand, Typed
  <2> QED
    BY <1>5, <2>1, CachesAlone DEF WriteLand
<1>6. ASSUME NEW x \in Requests, WriteReturn(x) PROVE FreshInv'
  <2>1. CASE UNCHANGED <<told, cache, pl>>
    BY <1>6, <2>1, CachesAlone DEF WriteReturn
  <2>2. CASE Invalidate
    <3>1. ASSUME NEW p \in Payloads PROVE FreshLoad(pl[p])'
      <4>1. pl[p] \in Pending /\ FreshLoad(pl[p])
        BY DEF Typed, FreshInv
      <4>2. pl'[p] = IF pl[p].pc \in {"load", "loaded"} THEN [pl[p] EXCEPT !.missed = TRUE]
                     ELSE pl[p]
        BY <2>2 DEF Invalidate
      <4> QED
        BY <4>1, <4>2 DEF FreshLoad, Pending
    <3> QED
      BY <2>2, <3>1
      DEF Invalidate, FreshInv, JudgementIsFresh, JudgedByRecentRow, StaleNeedsOverlap
  <2> QED
    BY <1>6, <2>1, <2>2 DEF WriteReturn
<1>7. ASSUME NEW p \in Payloads, PayloadStart(p) PROVE FreshInv'
  <2>1. CASE cache # None
    <3>1. PICK v : pl' = [pl EXCEPT ![p] = v] /\ FreshLoad(v)
      BY <1>7, <2>1, JudgedIsFresh DEF PayloadStart
    <3> QED
      BY <1>7, <3>1, OnePayload DEF PayloadStart
  <2>2. CASE cache = None
    BY <1>1, <1>7, <2>2, OnePayload DEF PayloadStart
  <2> QED
    BY <2>1, <2>2
<1>8. ASSUME NEW p \in Payloads, LoadRead(p) PROVE FreshInv'
  <2>1. CASE pl' = [pl EXCEPT ![p] = NoPayload]
    BY <1>1, <1>8, <2>1, OnePayload DEF LoadRead
  <2>2. ASSUME NEW r \in rows, pl' = [pl EXCEPT ![p].pc = "loaded", ![p].row = r] PROVE FreshInv'
    <3> DEFINE v == [pl[p] EXCEPT !.pc = "loaded", !.row = r]
    <3>1. pl[p] \in Pending /\ pl[p].pc = "load" /\ pl[p].stale = 0
      BY <1>8 DEF LoadRead, Typed, FreshInv, FreshLoad
    <3>2. v.pc = "loaded" /\ v.row = r /\ v.stale = 0 /\ v.age \in 0..TTL
      BY <3>1 DEF Pending
    <3>3. FreshLoad(v)
      BY <1>0, <3>2 DEF FreshLoad
    <3>4. pl' = [pl EXCEPT ![p] = v]
      BY <2>2
    <3> QED
      BY <1>8, <3>3, <3>4, OnePayload DEF LoadRead
  <2> QED
    BY <1>8, <2>1, <2>2 DEF LoadRead
<1>9. ASSUME NEW p \in Payloads, LoadReturn(p) PROVE FreshInv'
  <2>1. /\ pl[p].age \in 0..TTL /\ pl[p].stale \in 0..TTL /\ pl[p].stale <= pl[p].age
        /\ told /\ pl[p].row \notin rows => pl[p].missed
    BY <1>9 DEF LoadReturn, Typed, Pending, FreshInv, FreshLoad
  <2>2. PICK v : pl' = [pl EXCEPT ![p] = v] /\ FreshLoad(v)
    BY <1>9, JudgedIsFresh DEF LoadReturn
  <2>3. ASSUME NEW q \in Payloads PROVE FreshLoad(pl[q])'
    <3>1. pl'[q] = IF q = p THEN v ELSE pl[q]
      BY <2>2 DEF Typed
    <3>2. FreshLoad(pl'[q])
      BY <2>2, <3>1 DEF FreshInv
    <3> QED
      BY <1>9, <3>2 DEF FreshLoad, LoadReturn
  <2>4. ASSUME cache' # None PROVE JudgementIsFresh'
    <3>1. /\ cache'.row = pl[p].row /\ cache'.left = TTL - pl[p].age
          /\ cache'.stale = pl[p].stale /\ cache'.missed = pl[p].missed
          /\ rows' = rows /\ told' = told
      BY <1>9, <2>4 DEF LoadReturn, Left
    <3>2. cache'.stale + cache'.left <= TTL
      BY <1>0, <2>1, <3>1
    <3> QED
      BY <2>1, <3>1, <3>2 DEF JudgementIsFresh, JudgedByRecentRow, StaleNeedsOverlap
  <2>5. ASSUME cache' = None PROVE JudgementIsFresh'
    BY <2>5 DEF JudgementIsFresh, JudgedByRecentRow, StaleNeedsOverlap
  <2> QED
    BY <2>3, <2>4, <2>5 DEF FreshInv
<1>10. ASSUME NEW p \in Payloads, Buffered(p) \/ PayloadFails(p) PROVE FreshInv'
  BY <1>1, <1>10, OnePayload DEF Buffered, PayloadFails
<1>11. CASE Merge
  BY <1>11, CachesAlone DEF Merge
<1>12. CASE Tick
  <2>1. ASSUME NEW p \in Payloads PROVE FreshLoad(pl[p])'
    <3>1. pl[p] \in Pending /\ FreshLoad(pl[p]) /\ pl[p].age \in 0..TTL /\ pl[p].stale \in 0..TTL
      BY DEF Typed, FreshInv, Pending
    <3> DEFINE a == Capped(pl[p].age, TTL)
               b == IF pl[p].pc = "loaded" /\ pl[p].row \notin rows
                    THEN Capped(pl[p].stale, TTL) ELSE 0
    <3>2. pl'[p] = IF pl[p].pc \in {"load", "loaded"} THEN [pl[p] EXCEPT !.age = a, !.stale = b]
                   ELSE pl[p]
      BY <1>12 DEF Tick
    <3>3. /\ pl[p].pc = "load" => b = 0
          /\ pl[p].pc = "loaded" => b <= a
      BY <1>0, <3>1 DEF FreshLoad, Capped
    <3> HIDE DEF a, b
    <3>4. CASE pl[p].pc \in {"load", "loaded"}
      <4>1. /\ pl'[p].pc = pl[p].pc /\ pl'[p].row = pl[p].row /\ pl'[p].age = a
            /\ pl'[p].stale = b /\ pl'[p].missed = pl[p].missed
        BY <3>1, <3>2, <3>4 DEF Pending
      <4>2. rows' = rows /\ told' = told
        BY <1>12 DEF Tick
      <4> QED
        BY <3>1, <3>3, <4>1, <4>2 DEF FreshLoad
    <3>5. CASE pl[p].pc \notin {"load", "loaded"}
      BY <3>2, <3>5 DEF FreshLoad
    <3> QED
      BY <3>4, <3>5
  <2>2. ASSUME cache' # None PROVE JudgementIsFresh'
    <3>1. cache # None /\ ~(cache.left <= 1)
      BY <1>12, <2>2 DEF Tick
    <3>2. /\ cache \in Entries /\ cache.left \in 1..TTL /\ cache.stale \in 0..TTL
          /\ cache.stale + cache.left <= TTL
          /\ told /\ cache.row \notin rows => cache.missed
      BY <3>1 DEF Typed, Entries, FreshInv, JudgementIsFresh, JudgedByRecentRow, StaleNeedsOverlap
    <3> DEFINE n == IF cache.row \in rows THEN 0 ELSE Capped(cache.stale, TTL)
    <3>3. cache' = [cache EXCEPT !.left = @ - 1, !.stale = n]
      BY <1>12, <3>1 DEF Tick
    <3>4. n \in Nat /\ n <= cache.stale + 1
      BY <1>0, <3>2 DEF Capped
    <3> HIDE DEF n
    <3>5. /\ cache'.row = cache.row /\ cache'.left = cache.left - 1 /\ cache'.stale = n
          /\ cache'.missed = cache.missed /\ rows' = rows /\ told' = told
      BY <1>12, <3>2, <3>3 DEF Entries, Tick
    <3>6. cache'.stale + cache'.left <= TTL
      BY <1>0, <3>2, <3>4, <3>5
    <3> QED
      BY <3>2, <3>5, <3>6 DEF JudgementIsFresh, JudgedByRecentRow, StaleNeedsOverlap
  <2>3. ASSUME cache' = None PROVE JudgementIsFresh'
    BY <2>3 DEF JudgementIsFresh, JudgedByRecentRow, StaleNeedsOverlap
  <2> QED
    BY <2>1, <2>2, <2>3 DEF FreshInv
<1>13. CASE UNCHANGED vars
  BY <1>13, CachesAlone DEF vars
<1> QED
  BY <1>2, <1>3, <1>4, <1>5, <1>6, <1>7, <1>8, <1>9, <1>10, <1>11, <1>12, <1>13
  DEF Next, WriteStep, PayloadStep

(* However slow a load is and however edits, deletions and merges of the   *)
(* table fall between its steps, a cached row is never used a full TTL     *)
(* after it was replaced, and after an announced change only if its load   *)
(* overlapped the announcement (getWorkspace and its two event handlers). *)
THEOREM JudgementAlwaysFresh == Spec => []JudgementIsFresh
<1>1. Init => FreshInv
  BY DEF Init, FreshInv, FreshLoad, NoPayload, JudgementIsFresh, JudgedByRecentRow,
         StaleNeedsOverlap
<1>2. FreshInv => JudgementIsFresh
  BY DEF FreshInv
<1> QED
  BY <1>1, <1>2, FreshStep, TypeCorrect, PTL DEF Spec

=============================================================================
