------------------------------- MODULE SdkPage -------------------------------
(***************************************************************************)
(* The browser SDK on one page of one tab: the lifecycle events of the     *)
(* browser, the heartbeat timer chain and its active-time counters         *)
(* (sdk.ts), and the page views with their durations that every payload    *)
(* carries (core/session-state.ts), with their copy in sessionStorage.     *)
(*                                                                         *)
(* JavaScript runs one handler at a time, so a handler is one action; what *)
(* interleaves is the order of browser events, timers and API calls, and a *)
(* tab that is discarded and loaded again.                                 *)
(***************************************************************************)
EXTENDS Naturals, Sequences

CONSTANTS
    Interval,     \* heartbeat interval, in ticks, per active time (tiers); 0: stop
    MaxDuration,  \* heartbeatMaxDuration, in ticks
    MaxPages,     \* MAX_ACTIONS: the page views a session keeps
    MaxNow,       \* bound: the clock
    MaxEvents,    \* bound: browser events, navigations and API calls
    None

ASSUME SdkConstants ==
    /\ MaxDuration \in Nat \ {0} /\ MaxPages \in Nat \ {0}
    /\ MaxNow \in Nat /\ MaxEvents \in Nat
    /\ Interval \in [0 .. MaxNow -> Nat]
    /\ None \notin Nat

VARIABLES
    doc,      \* the document: "visible", "hidden", "frozen" or "cached" (bfcache)
    focused,  \* the window has the focus
    now,      \* the clock
    hb,       \* heartbeatState
    handle,   \* when the timer behind heartbeatTimeout is due, or None
    orphans,  \* due times of pending timers no handle refers to, as a sequence
    paused,   \* isPaused
    flushed,  \* flushed
    deb,      \* sendDebounceTimeout is pending
    waiting,  \* a sendPayload() is waiting for its answer
    pages,    \* the page views of actions[]: [entered, dur]
    cur,      \* currentPageIndex, 0 for null
    saved,    \* the snapshot in sessionStorage: None or [pages, cur]
    active,   \* history: active ticks of the last page, by the SDK's own clock
    report,   \* history: duration of the last page in the last payload, and active then
    events    \* events so far

browser == <<doc, focused>>
beat == <<hb, handle, orphans>>
state == <<pages, cur, saved, report>>
vars == <<doc, focused, now, hb, handle, orphans, paused, flushed, deb, waiting,
          pages, cur, saved, active, report, events>>

(* As initializeAsync() and resetHeartbeatState() leave it, before start. *)
FreshBeat ==
    [acc |-> 0, start |-> 0, on |-> FALSE, max |-> FALSE, ping |-> 0,
     pageAcc |-> 0, pageStart |-> now]

-----------------------------------------------------------------------------
(* The heartbeat (sdk.ts).  Each operator takes the record                 *)
(* b = [hb, handle, orphans] and returns it changed.                       *)

Beat == [hb |-> hb, handle |-> handle, orphans |-> orphans]

SetBeat(b) ==
    /\ hb' = b.hb
    /\ handle' = b.handle
    /\ orphans' = b.orphans

Total(h) == h.acc + (IF h.on THEN now - h.start ELSE 0)

PageTime(h) == h.pageAcc + (IF h.on THEN now - h.pageStart ELSE 0)

(* stopHeartbeat(): only the timer the handle refers to is cleared. *)
Stop(b, accumulate) ==
    [b EXCEPT
        !.hb = [b.hb EXCEPT
                  !.acc = IF accumulate THEN Total(b.hb) ELSE @,
                  !.pageAcc = IF accumulate THEN PageTime(b.hb) ELSE @,
                  !.on = FALSE],
        !.handle = None]

(* setTimeout(): the handle is overwritten, the timer it referred to stays. *)
SetTimer(b, due) ==
    [b EXCEPT !.handle = due,
              !.orphans = IF b.handle = None THEN @ ELSE Append(@, b.handle)]

Later(a, b) == IF a > b THEN a ELSE b

(* Mutant: the cap is marked but the heartbeat goes on. *)
ScheduleNextWithoutStop(b) ==
    IF ~b.hb.on THEN b
    ELSE IF Total(b.hb) >= MaxDuration \/ Interval[Total(b.hb)] = 0
         THEN [b EXCEPT !.hb.max = TRUE]
         ELSE SetTimer(b, Later(now, b.hb.ping + Interval[Total(b.hb)]))

(* scheduleNextHeartbeat(): the cap on active time and a tier without an   *)
(* interval stop the heartbeat for good.                                   *)
ScheduleNext(b) ==
    IF ~b.hb.on THEN b
    ELSE IF Total(b.hb) >= MaxDuration \/ Interval[Total(b.hb)] = 0
         THEN Stop([b EXCEPT !.hb.max = TRUE], TRUE)
         ELSE SetTimer(b, Later(now, b.hb.ping + Interval[Total(b.hb)]))

Start(b) ==
    IF b.hb.max THEN b
    ELSE LET s == Stop(b, FALSE)
         IN  ScheduleNext([s EXCEPT !.hb.start = now, !.hb.on = TRUE, !.hb.ping = now])

(* resumeHeartbeat(): fresh start times, whether or not it was running. *)
Resume(b) ==
    IF b.hb.max THEN b
    ELSE ScheduleNext([b EXCEPT !.hb.start = now, !.hb.pageStart = now,
                                !.hb.on = TRUE, !.hb.ping = now])

ResetBeat(b) == [Stop(b, FALSE) EXCEPT !.hb = FreshBeat]

-----------------------------------------------------------------------------
(* Page views (core/session-state.ts).  s = [pages, cur].                  *)

Session == [pages |-> pages, cur |-> cur]

(* restore(): what was saved, when something was. *)
Restored(s) == IF saved = None THEN s ELSE saved

(* The current page's duration is brought up to date, when there is one.   *)
UpdateCurrent(s, h) ==
    IF s.cur = 0 THEN s ELSE [s EXCEPT !.pages[s.cur].dur = PageTime(h)]

AddPageview(s, h) ==
    IF Len(s.pages) >= MaxPages THEN s
    ELSE LET ps == Append(UpdateCurrent(s, h).pages, [entered |-> now, dur |-> 0])
         IN  [pages |-> ps, cur |-> Len(ps)]

(* buildPayload(), and what it puts on the wire. *)
BuildPayload(s, h, time) ==
    /\ pages' = UpdateCurrent(s, h).pages
    /\ cur' = s.cur
    /\ report' = [dur |-> UpdateCurrent(s, h).pages[Len(s.pages)].dur, active |-> time]

(* flushOnce(): the page is finalised, its index forgotten, the payload    *)
(* handed to the beacon and the state saved, once per visit.               *)
FlushOnce(h) ==
    IF flushed THEN UNCHANGED <<flushed, pages, cur, saved, report>>
    ELSE LET s == [UpdateCurrent(Session, h) EXCEPT !.cur = 0]
         IN  /\ flushed' = TRUE
             /\ BuildPayload(s, h, active)
             /\ saved' = s

-----------------------------------------------------------------------------
Event ==
    /\ events < MaxEvents
    /\ events' = events + 1
    /\ now' = now

(* Stop and flush: hidden, blur, freeze. *)
Leave ==
    LET b == Stop(Beat, TRUE)
    IN  /\ SetBeat(b)
        /\ FlushOnce(b.hb)
        /\ UNCHANGED <<paused, deb, waiting, active>>

(* Mutant: only the flush mark is cleared. *)
ComeBackFlushOnly ==
    /\ flushed' = FALSE
    /\ UNCHANGED <<hb, handle, orphans, paused, deb, waiting, pages, cur, saved, report, active>>

(* Clear the flush mark and resume: visible, focus, resume. *)
ComeBack ==
    /\ flushed' = FALSE
    /\ SetBeat(IF paused \/ hb.max THEN Beat ELSE Resume(Beat))
    /\ UNCHANGED <<paused, deb, waiting, pages, cur, saved, report, active>>

Hide ==
    /\ Event /\ doc = "visible" /\ doc' = "hidden" /\ UNCHANGED focused
    /\ Leave

(* Mutant: a page that is visible again does not resume. *)
ShowWithoutResume ==
    /\ Event /\ doc = "hidden" /\ doc' = "visible" /\ UNCHANGED focused
    /\ ComeBackFlushOnly

Show ==
    /\ Event /\ doc = "hidden" /\ doc' = "visible" /\ UNCHANGED focused
    /\ ComeBack

Blur ==
    /\ Event /\ doc = "visible" /\ focused /\ focused' = FALSE /\ UNCHANGED doc
    /\ Leave

Focus ==
    /\ Event /\ doc = "visible" /\ ~focused /\ focused' = TRUE /\ UNCHANGED doc
    /\ ComeBack

Freeze ==
    /\ Event /\ doc = "hidden" /\ doc' = "frozen" /\ UNCHANGED focused
    /\ Leave

(* The resume event comes before the document is visible again. *)
Thaw ==
    /\ Event /\ doc = "frozen" /\ doc' = "hidden" /\ UNCHANGED focused
    /\ ComeBack

(* beforeunload, which the visitor may cancel, or pagehide, which a visible *)
(* document meets before it is hidden and cached.                           *)
Unload ==
    /\ Event
    /\ \/ doc \in {"visible", "hidden"} /\ doc' = doc
       \/ doc = "hidden" /\ doc' = "cached"
    /\ FlushOnce(hb)
    /\ UNCHANGED <<focused, beat, paused, deb, waiting, active>>

(* pageshow from the back-forward cache: resume, then restore(). *)
PageShow ==
    /\ Event /\ doc = "cached" /\ doc' = "visible"
    /\ flushed' = FALSE
    /\ SetBeat(IF paused \/ hb.max THEN Beat ELSE Resume(Beat))
    /\ pages' = Restored(Session).pages
    /\ cur' = Restored(Session).cur
    /\ UNCHANGED <<focused, paused, deb, waiting, saved, report, active>>

(* Mutant: the page timer is not reset. *)
NavigateKeepingPageTime ==
    /\ Event /\ doc \in {"visible", "hidden"}
    /\ LET s == AddPageview(Session, hb)
       IN  /\ pages' = s.pages
           /\ cur' = s.cur
           /\ saved' = s
    /\ active' = 0
    /\ deb' = TRUE
    /\ UNCHANGED <<hb, browser, handle, orphans, paused, flushed, waiting, report>>

(* onNavigation() and trackPageView(): the page is added, the page timer   *)
(* reset, a debounced send scheduled and the state saved.                  *)
Navigate ==
    /\ Event /\ doc \in {"visible", "hidden"}
    /\ LET s == AddPageview(Session, hb)
       IN  /\ pages' = s.pages
           /\ cur' = s.cur
           /\ saved' = s
    /\ hb' = [hb EXCEPT !.pageAcc = 0, !.pageStart = now]
    /\ active' = 0
    /\ deb' = TRUE
    /\ UNCHANGED <<browser, handle, orphans, paused, flushed, waiting, report>>

(* sendPayload() up to its await. *)
Send ==
    /\ BuildPayload(Session, hb, active)
    /\ waiting' = TRUE
    /\ UNCHANGED saved

(* trackGoal(): an immediate send in place of the debounced one. *)
Goal ==
    /\ Event /\ doc \in {"visible", "hidden"}
    /\ deb' = FALSE
    /\ Send
    /\ UNCHANGED <<browser, beat, paused, flushed, active>>

Pause ==
    /\ Event /\ doc \in {"visible", "hidden"}
    /\ paused' = TRUE
    /\ SetBeat(Stop(Beat, TRUE))
    /\ UNCHANGED <<browser, flushed, deb, waiting, state, active>>

(* The public resume() starts the counters anew. *)
ResumeTracking ==
    /\ Event /\ doc \in {"visible", "hidden"}
    /\ paused' = FALSE
    /\ SetBeat(Start(ResetBeat(Beat)))
    /\ active' = 0
    /\ UNCHANGED <<browser, flushed, deb, waiting, state>>

(* initializeAsync() on a fresh document, over the snapshot s of the tab.   *)
Load(s) ==
    LET b == [hb |-> FreshBeat, handle |-> None, orphans |-> <<>>]
        t == AddPageview(s, b.hb)
    IN  /\ SetBeat(Start(b))
        /\ BuildPayload(t, Start(b).hb, 0)
        /\ paused' = FALSE
        /\ flushed' = FALSE
        /\ deb' = FALSE
        /\ waiting' = TRUE
        /\ active' = 0

(* The document is discarded, by a navigation of the tab or by a crash     *)
(* without any event, and the tab loads a page of the site again.          *)
Reload ==
    /\ Event
    /\ doc' \in {"visible", "hidden"}
    /\ focused' \in {FALSE, doc' = "visible"}
    /\ Load(Restored([pages |-> <<>>, cur |-> 0]))
    /\ UNCHANGED saved

-----------------------------------------------------------------------------
(* A send is answered: the state of that moment is saved when it succeeded, *)
(* and in any case behind a goal.  Other sends may still be waiting.        *)
Answered ==
    /\ waiting /\ doc \in {"visible", "hidden"}
    /\ waiting' \in BOOLEAN
    /\ saved' \in {saved, Session}
    /\ UNCHANGED <<browser, now, beat, paused, flushed, deb, pages, cur, active, report, events>>

DebouncedSend ==
    /\ deb /\ doc \in {"visible", "hidden"}
    /\ deb' = FALSE
    /\ Send
    /\ UNCHANGED <<browser, now, beat, paused, flushed, active, events>>

ShouldSendPing == ~paused /\ hb.on /\ doc = "visible"

(* A heartbeat timer fires: a chain that may not ping ends here. *)
Fire(b) ==
    IF ShouldSendPing
    THEN /\ Send
         /\ SetBeat(ScheduleNext([b EXCEPT !.hb.ping = now]))
    ELSE SetBeat(b) /\ UNCHANGED <<state, waiting>>

TimerFires ==
    /\ doc \in {"visible", "hidden"}
    /\ \/ /\ handle # None /\ handle <= now
          /\ Fire([Beat EXCEPT !.handle = None])
       \/ \E i \in DOMAIN orphans :
            /\ orphans[i] <= now
            /\ Fire([Beat EXCEPT !.orphans =
                        SubSeq(@, 1, i - 1) \o SubSeq(@, i + 1, Len(@))])
    /\ UNCHANGED <<browser, now, paused, flushed, deb, active, events>>

Tick ==
    /\ now < MaxNow
    /\ now' = now + 1
    /\ active' = IF hb.on THEN active + 1 ELSE active
    /\ UNCHANGED <<browser, beat, paused, flushed, deb, waiting, state, events>>

-----------------------------------------------------------------------------
Init ==
    /\ doc \in {"visible", "hidden"}
    /\ focused \in {FALSE, doc = "visible"}
    /\ now = 0
    /\ LET b == Start([hb |-> FreshBeat, handle |-> None, orphans |-> <<>>])
       IN  hb = b.hb /\ handle = b.handle /\ orphans = b.orphans
    /\ paused = FALSE
    /\ flushed = FALSE
    /\ deb = FALSE
    /\ waiting = TRUE
    /\ pages = <<[entered |-> 0, dur |-> 0]>>
    /\ cur = 1
    /\ saved = None
    /\ report = [dur |-> 0, active |-> 0]
    /\ active = 0
    /\ events = 0

Next ==
    \/ Hide \/ Show \/ Blur \/ Focus \/ Freeze \/ Thaw \/ Unload \/ PageShow
    \/ Navigate \/ Goal \/ Pause \/ ResumeTracking \/ Reload
    \/ DebouncedSend \/ TimerFires \/ Answered \/ Tick

Spec == Init /\ [][Next]_vars

-----------------------------------------------------------------------------
(* No page view is ever reported with more time than has passed since the  *)
(* page was entered, whatever the order of events, discards and restores:  *)
(* time is never counted twice or carried from one page to the next.       *)
DurationWithinStay ==
    \A i \in DOMAIN pages : pages[i].dur <= now - pages[i].entered

(* A visible page that counts its time as active has a heartbeat timer     *)
(* pending, so its time goes on being reported: a chain that ends while    *)
(* the document is hidden (shouldSendPing) is replaced when it is visible. *)
KeepsBeating ==
    hb.on /\ ~paused /\ doc = "visible" => handle # None \/ orphans # <<>>

(* Once the cap on active time is reached nothing counts as active until   *)
(* the public resume() or a new document, however many timer chains were   *)
(* running.                                                                *)
CapIsFinal == hb.max => ~hb.on

(* The heartbeat goes on while it should and stops for good at the cap. *)
HeartbeatSound == KeepsBeating /\ CapIsFinal

-----------------------------------------------------------------------------
(* A claim of the documentation that the code does not keep.               *)

(* The last page view of a payload carries the time the SDK itself counted *)
(* as active on that page ("Focus time measured with millisecond           *)
(* precision").  It does not hold: flushOnce() forgets the current page at *)
(* the first blur and nothing sets it again, and resumeHeartbeat() drops   *)
(* the time of a page that was active already.                             *)
FocusTimeIsReported == report.dur >= report.active
=============================================================================
