--------------------------- MODULE WorkspaceIngest ---------------------------
(***************************************************************************)
(* One workspace as the ingestion path sees it: the rows of the ClickHouse *)
(* table `workspaces` (a ReplacingMergeTree read by its largest            *)
(* updated_at), the read-merge-insert edits of WorkspacesService,          *)
(* FiltersService and AdminPlatformService, the 60 s cache of              *)
(* SessionPayloadHandler, the handling of session payloads, and the        *)
(* fire-and-forget activation of a workspace by its first payload.         *)
(*                                                                         *)
(* Every await is a step boundary.  A ClickHouse statement takes effect in *)
(* a step of its own, between the call and the continuation: another       *)
(* request may run between the effect and the continuation.                *)
(***************************************************************************)
EXTENDS Naturals, FiniteSets

CONSTANTS
    Editors,     \* requests that edit the workspace (console or M2M)
    Payloads,    \* requests that carry a session payload
    Filters,     \* identifiers of filter definitions
    Widgets,     \* identifiers of custom dashboard widgets
    Updates,     \* what workspaces.update is called with, settings or not
    TTL,         \* CACHE_TTL_MS, in ticks
    MaxNow,      \* bound: the last reading of the clock
    MaxEdits,    \* bound: edits begun
    MaxFaults,   \* bound: ClickHouse calls that fail
    None

Statuses == {"initializing", "active", "inactive", "error"}

(* A layout that comes with the settings has no widgets: the transfer      *)
(* object knows hidden_widgets and order only, and the layout is replaced. *)
Update == [kind : {"status"}, status : Statuses, filters : {None}, layout : {None}]
            \cup [kind : {"settings"}, status : Statuses \cup {None},
                  filters : (SUBSET Filters) \cup {None},
                  layout : [widgets : {{}}, order : SUBSET Widgets] \cup {None}]

ASSUME IngestConstants ==
    /\ Updates \subseteq Update
    /\ TTL \in Nat \ {0} /\ MaxNow \in Nat /\ MaxEdits \in Nat /\ MaxFaults \in Nat
    /\ Editors \cap Payloads = {}

VARIABLES
    rows,    \* the rows of the workspace that carry the largest updated_at
    told,    \* history: the newest change of rows has been announced to the caches
    cache,   \* workspaceCache: None or [row, left, stale, missed]
    w,       \* the write under way in a request: [pc, op, base, row]
    pl,      \* the payload under way in a request: [pc, row, age, stale, missed]
    now,     \* the clock
    edits,   \* edits begun
    faults   \* failed calls

vars == <<rows, told, cache, w, pl, now, edits, faults>>

Requests == Editors \cup Payloads

(* A row: [at, status, filters, layout].  The layout holds custom widgets  *)
(* and the order that names them; native widget keys, which any order may  *)
(* name, are left out.  The other keys of the settings (branding, features, *)
(* crm_mapping, funnels...) are read, merged and written like these.       *)

NoWrite == [pc |-> "idle", op |-> None, base |-> None, row |-> None]

NoPayload == [pc |-> "idle", row |-> None, age |-> 0, stale |-> 0, missed |-> FALSE]

Init ==
    /\ rows = {[at |-> 0, status |-> "initializing", filters |-> {},
                layout |-> [widgets |-> {}, order |-> {}]]}
    /\ told = TRUE
    /\ cache = None
    /\ w = [x \in Requests |-> NoWrite]
    /\ pl = [p \in Payloads |-> NoPayload]
    /\ now = 0
    /\ edits = 0
    /\ faults = 0

-----------------------------------------------------------------------------
(* The row an edit writes.                                                 *)

(* Mutant: updated_at is the clock reading, whatever the row read. *)
NextAtNoBump(base) == now

(* Strictly after the row the edit was merged from. *)
NextAt(base) == IF now > base.at THEN now ELSE base.at + 1

(* What update() is given: None for a key that is not. *)
Given(kind) == [kind |-> kind, status |-> None, filters |-> None, layout |-> None]

Or(given, kept) == IF given = None THEN kept ELSE given

(* The merge of an edit into the row it read, top-level key by key. *)
Apply(op, base) ==
    [at      |-> NextAt(base),
     status  |-> IF op.kind = "activate" THEN "active" ELSE Or(op.status, base.status),
     filters |-> Or(op.filters, base.filters),
     layout  |-> Or(op.layout, base.layout)]

(* A ReplacingMergeTree read by ORDER BY updated_at DESC LIMIT 1: a row that *)
(* is older than the newest is never seen, rows that tie are seen at random. *)
Insert(row) ==
    rows' = IF \E r \in rows : r.at > row.at THEN rows
            ELSE {r \in rows : r.at = row.at} \cup {row}

(* Mutant: the events reach no cache. *)
InvalidateUnheard ==
    /\ told' = TRUE
    /\ UNCHANGED <<cache, pl>>

(* workspace.settings.changed and filters.changed: the cached row is       *)
(* dropped.  `missed` records that a payload's own load was under way.     *)
Invalidate ==
    /\ cache' = None
    /\ told' = TRUE
    /\ pl' = [p \in Payloads |->
                IF pl[p].pc \in {"load", "loaded"} THEN [pl[p] EXCEPT !.missed = TRUE]
                ELSE pl[p]]

-----------------------------------------------------------------------------
(* Edits.  Each begins with what the calling service reads and computes    *)
(* before it calls WorkspacesService.update().                             *)

Begin(e, op) ==
    /\ edits < MaxEdits
    /\ w[e].pc = "idle"
    /\ rows # {}
    /\ w' = [w EXCEPT ![e] = [NoWrite EXCEPT !.pc = "read", !.op = op]]
    /\ edits' = edits + 1
    /\ UNCHANGED <<rows, told, cache, pl, now, faults>>

(* FiltersService rebuilds the whole filters array from a first read of    *)
(* the row and passes it to update(), which reads the row again.           *)
WriteFilters(e, value) == Begin(e, [Given("filters") EXCEPT !.filters = value])

FilterCreate(e) ==
    \E r \in rows : \E f \in Filters \ r.filters : WriteFilters(e, r.filters \cup {f})

(* The definition changes, the set of filters does not. *)
FilterUpdate(e) ==
    \E r \in rows : \E f \in r.filters : WriteFilters(e, r.filters)

FilterDelete(e) ==
    \E r \in rows : \E f \in r.filters : WriteFilters(e, r.filters \ {f})

FilterReorder(e) ==
    \E r \in rows : WriteFilters(e, r.filters)

(* Mutant: the merged order is not validated. *)
MergedLayoutUnchecked(r, incoming) ==
    {[widgets |-> IF "widgets" \in DOMAIN incoming THEN incoming.widgets ELSE r.layout.widgets,
      order   |-> IF "order" \in DOMAIN incoming THEN incoming.order ELSE r.layout.order]}

(* setLayout(): the incoming keys over the stored ones, refused when the   *)
(* merged order names a widget the merged layout does not define.          *)
MergedLayout(r, incoming) ==
    {l \in {[widgets |-> IF "widgets" \in DOMAIN incoming THEN incoming.widgets
                         ELSE r.layout.widgets,
             order   |-> IF "order" \in DOMAIN incoming THEN incoming.order
                         ELSE r.layout.order]} :
        l.order \subseteq l.widgets}

SetLayout(e) ==
    \E r \in rows, s \in SUBSET Widgets :
        \E incoming \in {[widgets |-> s], [order |-> s]} :
            \E value \in MergedLayout(r, incoming) :
                Begin(e, [Given("layout") EXCEPT !.layout = value])

(* updateWorkspaceSettings() and the console's workspaces.update: a status, *)
(* settings or both.  The order of a layout that comes this way is not     *)
(* looked at.                                                               *)
UpdateSettings(e) == \E u \in Updates : Begin(e, u)

(* WorkspacesService.delete(): the rows that refer to the workspace and its *)
(* database go first, the row itself last.  No cache is told.               *)
Delete(e) ==
    /\ edits < MaxEdits
    /\ w[e].pc = "idle"
    /\ rows # {}
    /\ w' = [w EXCEPT ![e].pc = "delete"]
    /\ edits' = edits + 1
    /\ UNCHANGED <<rows, told, cache, pl, now, faults>>

DeleteRow(e) ==
    /\ w[e].pc = "delete"
    /\ rows' = {}
    /\ told' = FALSE
    /\ w' = [w EXCEPT ![e] = NoWrite]
    /\ UNCHANGED <<cache, pl, now, edits, faults>>

-----------------------------------------------------------------------------
(* The write itself: update() and activateIfInitializing() read the newest *)
(* row, build the row they insert, insert it, and announce it.             *)

WriteRead(x) ==
    /\ w[x].pc = "read"
    /\ \/ /\ rows = {}
          /\ w' = [w EXCEPT ![x] = NoWrite]
       \/ \E r \in rows : w' = [w EXCEPT ![x].pc = "build", ![x].base = r]
    /\ UNCHANGED <<rows, told, cache, pl, now, edits, faults>>

(* Mutant: the activation does not look at the status. *)
MayWriteAlways(op, base) == TRUE

(* activateIfInitializing() leaves any other status alone. *)
MayWrite(op, base) == op.kind = "activate" => base.status = "initializing"

WriteBuild(x) ==
    /\ w[x].pc = "build"
    /\ w' = [w EXCEPT ![x] = IF MayWrite(w[x].op, w[x].base)
                             THEN [w[x] EXCEPT !.pc = "land",
                                               !.row = Apply(w[x].op, w[x].base)]
                             ELSE NoWrite]
    /\ UNCHANGED <<rows, told, cache, pl, now, edits, faults>>

WriteLand(x) ==
    /\ w[x].pc = "land"
    /\ Insert(w[x].row)
    /\ told' = (told /\ rows' = rows)
    /\ w' = [w EXCEPT ![x] = [NoWrite EXCEPT !.pc = "emit", !.op = Given(w[x].op.kind)]]
    /\ UNCHANGED <<cache, pl, now, edits, faults>>

(* update() emits workspace.settings.changed only when settings were given, *)
(* which a change of status alone does not.                                 *)
Announces(op) == op.kind # "status"

WriteReturn(x) ==
    /\ w[x].pc = "emit"
    /\ w' = [w EXCEPT ![x] = NoWrite]
    /\ IF Announces(w[x].op) THEN Invalidate ELSE UNCHANGED <<told, cache, pl>>
    /\ UNCHANGED <<rows, now, edits, faults>>

(* The read or the insert throws, or the reply to an insert that landed is *)
(* lost: the request ends without announcing anything.                     *)
WriteFails(x) ==
    /\ faults < MaxFaults
    /\ w[x].pc \in {"read", "land", "emit", "delete"}
    /\ w' = [w EXCEPT ![x] = NoWrite]
    /\ faults' = faults + 1
    /\ UNCHANGED <<rows, told, cache, pl, now, edits>>

-----------------------------------------------------------------------------
(* SessionPayloadHandler.                                                  *)

(* handle() up to the buffer, from the row it was given: the kill-switch   *)
(* on inactive and broken workspaces, and a payload that is empty or comes *)
(* from a domain the workspace does not allow, end in a silent success;    *)
(* otherwise the events are built, filtered with the row's filters and     *)
(* handed to the buffer.  Only the row's status is used after that.        *)
Judge(p, row) ==
    \E refused \in BOOLEAN :
        pl' = [pl EXCEPT ![p] =
                 IF row.status \notin {"inactive", "error"} /\ ~refused
                 THEN [NoPayload EXCEPT !.pc = "buffer", !.row = [status |-> row.status]]
                 ELSE NoPayload]

(* getWorkspace(): a live cache entry is used, otherwise a load begins; the *)
(* clock was read before it.                                                *)
PayloadStart(p) ==
    /\ pl[p].pc = "idle"
    /\ w[p].pc = "idle"
    /\ IF cache # None THEN Judge(p, cache.row)
       ELSE pl' = [pl EXCEPT ![p] = [NoPayload EXCEPT !.pc = "load"]]
    /\ UNCHANGED <<rows, told, cache, w, now, edits, faults>>

LoadRead(p) ==
    /\ pl[p].pc = "load"
    /\ \/ \E r \in rows : pl' = [pl EXCEPT ![p].pc = "loaded", ![p].row = r]
       \/ /\ rows = {}
          /\ pl' = [pl EXCEPT ![p] = NoPayload]
    /\ UNCHANGED <<rows, told, cache, w, now, edits, faults>>

(* Mutant: the lifetime of an entry counts from the end of its load. *)
LeftAfterAwait(p) == TTL

(* expiresAt counts from the clock read before the load. *)
Left(p) == TTL - pl[p].age

(* An entry that has expired already is never used: it is left out. *)
LoadReturn(p) ==
    /\ pl[p].pc = "loaded"
    /\ cache' = IF Left(p) = 0 THEN None
                ELSE [row |-> pl[p].row, left |-> Left(p), stale |-> pl[p].stale,
                      missed |-> pl[p].missed]
    /\ Judge(p, pl[p].row)
    /\ UNCHANGED <<rows, told, w, now, edits, faults>>

(* addBatch() returned: event.tracked is emitted for every event (the      *)
(* webhook dispatcher's input), and a workspace that was read as           *)
(* initializing is activated: its cache entry is dropped and the write is  *)
(* left running when the request is answered.                              *)
(* Mutant: the first payload activates nothing. *)
BufferedForgets(p) ==
    /\ pl[p].pc = "buffer"
    /\ pl' = [pl EXCEPT ![p] = NoPayload]
    /\ UNCHANGED <<rows, told, cache, w, now, edits, faults>>

Buffered(p) ==
    /\ pl[p].pc = "buffer"
    /\ pl' = [pl EXCEPT ![p] = NoPayload]
    /\ IF pl[p].row.status = "initializing"
       THEN /\ cache' = None
            /\ w' = [w EXCEPT ![p] = [NoWrite EXCEPT !.pc = "read",
                                                     !.op = Given("activate")]]
       ELSE UNCHANGED <<cache, w>>
    /\ UNCHANGED <<rows, told, now, edits, faults>>

PayloadFails(p) ==
    /\ faults < MaxFaults
    /\ pl[p].pc \in {"load", "buffer"}
    /\ pl' = [pl EXCEPT ![p] = NoPayload]
    /\ faults' = faults + 1
    /\ UNCHANGED <<rows, told, cache, w, now, edits>>

-----------------------------------------------------------------------------
(* The background merge of the table keeps one of the rows that tie, and   *)
(* tells nobody.                                                           *)
Merge ==
    /\ Cardinality(rows) > 1
    /\ \E r \in rows : rows' = {r}
    /\ told' = FALSE
    /\ UNCHANGED <<cache, w, pl, now, edits, faults>>

Capped(n, cap) == IF n < cap THEN n + 1 ELSE n

Tick ==
    /\ now' = Capped(now, MaxNow)
    /\ cache' = IF cache = None \/ cache.left <= 1 THEN None
                ELSE [cache EXCEPT !.left = @ - 1,
                                   !.stale = IF cache.row \in rows THEN 0 ELSE Capped(@, TTL)]
    /\ pl' = [p \in Payloads |->
                IF pl[p].pc \in {"load", "loaded"}
                THEN [pl[p] EXCEPT
                        !.age = Capped(@, TTL),
                        !.stale = IF pl[p].pc = "loaded" /\ pl[p].row \notin rows
                                  THEN Capped(@, TTL) ELSE 0]
                ELSE pl[p]]
    /\ UNCHANGED <<rows, told, w, edits, faults>>

EditStep(e) ==
    \/ FilterCreate(e) \/ FilterUpdate(e) \/ FilterDelete(e) \/ FilterReorder(e)
    \/ SetLayout(e) \/ UpdateSettings(e) \/ Delete(e)

WriteStep(x) == WriteRead(x) \/ WriteBuild(x) \/ WriteLand(x) \/ WriteReturn(x)

PayloadStep(p) == LoadRead(p) \/ LoadReturn(p) \/ Buffered(p)

Next ==
    \/ \E e \in Editors : EditStep(e) \/ DeleteRow(e)
    \/ \E x \in Requests : WriteStep(x) \/ WriteFails(x)
    \/ \E p \in Payloads : PayloadStart(p) \/ PayloadStep(p) \/ PayloadFails(p)
    \/ Merge
    \/ Tick

Spec == Init /\ [][Next]_vars

(* A call to ClickHouse that is under way ends, and so does the            *)
(* continuation behind it; parts are merged; time passes.  Nobody is       *)
(* obliged to edit or to send.                                             *)
FairSpec ==
    /\ Spec
    /\ \A x \in Requests : WF_vars(WriteStep(x))
    /\ \A p \in Payloads : WF_vars(PayloadStep(p))
    /\ WF_vars(Merge) /\ WF_vars(Tick)

-----------------------------------------------------------------------------
(* A payload answered from the cache is never judged by a row that was     *)
(* replaced a full TTL ago or more, however slow the load behind the cache *)
(* entry was and whether or not the change was announced: expiresAt counts *)
(* from a clock read before the load (getWorkspace).                       *)
JudgedByRecentRow == cache # None => cache.stale + cache.left <= TTL

(* Once a change of the row has been announced, a superseded row is in the *)
(* cache only when its own load was under way during the announcement      *)
(* (getWorkspace caches what it read before the invalidation): an edit of  *)
(* settings or an activation is never hidden from a load that starts after *)
(* it.                                                                     *)
StaleNeedsOverlap ==
    cache # None /\ told /\ cache.row \notin rows => cache.missed

(* The row a payload is judged by is recent: an announced change is seen by *)
(* every later load, an unannounced one within the TTL.                    *)
JudgementIsFresh == JudgedByRecentRow /\ StaleNeedsOverlap

Lands(x) == w[x].pc = "land" /\ w'[x].pc = "emit"

(* A write whose base row is still the newest when it lands is what every  *)
(* later read returns, also when both writes fall on one clock reading     *)
(* (the strictly increasing updated_at of update()).                       *)
UncontendedWriteIsSeen ==
    [][\A x \in Requests : Lands(x) /\ w[x].base \in rows => rows' = {w[x].row}]_vars

(* A workspace that every reader sees as inactive becomes active only by   *)
(* an edit that says so, or by a write that had read the row before it was *)
(* suspended (activateIfInitializing and the edits that carry the status   *)
(* of the row they read).                                                  *)
ReactivatedByOverlap ==
    [][ /\ rows # {} /\ \A r \in rows : r.status = "inactive"
        /\ \E r \in rows' : r.status = "active"
        => \E x \in Requests :
             /\ Lands(x)
             /\ w[x].op.status = "active" \/ w[x].base \notin rows ]_vars

Resolves(row) == row.layout.order \subseteq row.layout.widgets

(* When every visible row has a layout whose order names only widgets it    *)
(* defines, that ends only by a settings update that brings a layout of     *)
(* its own, which nobody validates, or by a write that had read a row from  *)
(* before the layout was put right: setLayout() validates the merge it      *)
(* writes, and what it read may be overtaken but not be torn.               *)
LayoutKept ==
    [][ /\ \A r \in rows : Resolves(r)
        /\ \E r \in rows' : ~Resolves(r)
        => \E x \in Requests :
             /\ Lands(x)
             /\ \/ w[x].op.kind = "settings" /\ w[x].op.layout # None
                \/ w[x].base \notin rows ]_vars

(* As long as payloads keep being accepted, the workspace does not stay    *)
(* initializing: a failed or overwritten activation is tried again by a    *)
(* later payload (handle 11b).                                             *)
Activated ==
    []<>(\E p \in Payloads : pl[p].pc = "buffer")
        => []<>(\A r \in rows : r.status # "initializing")

-----------------------------------------------------------------------------
(* A claim of the code's comments that it does not keep.                   *)

(* "an `order` entry that names neither is a 400": updateWorkspaceSettings() *)
(* and workspaces.update write an order without looking at it.              *)
OrderIsResolvable == \A r \in rows : Resolves(r)
=============================================================================
