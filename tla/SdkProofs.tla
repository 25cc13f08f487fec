-------------------------------- MODULE SdkProofs ------------------------------
(***************************************************************************)
(* Proofs about the two halves of the browser SDK.                         *)
(*                                                                         *)
(* SdkPage, for every tier table, cap, clock bound and number of events:   *)
(* the heartbeat goes on while it should and stops for good at the cap,    *)
(* and no page view is credited with more time than has passed since it    *)
(* was entered.                                                            *)
(*                                                                         *)
(* SdkSender, for every set of tabs, queue size and time to live: no       *)
(* payload vanishes, and none is repeated without need.                    *)
(***************************************************************************)
EXTENDS SdkPage, SdkSender, TLAPS, SequenceTheorems, WellFoundedInduction

(* The counters of the heartbeat, and the pages of a session. *)
Counters == [acc : Nat, start : Nat, on : BOOLEAN, max : BOOLEAN, ping : Nat,
             pageAcc : Nat, pageStart : Nat]
BeatStates == [hb : Counters, handle : Nat \cup {None}, orphans : Seq(Nat)]
Views == [entered : Nat, dur : Nat]
Sessions == [pages : Seq(Views), cur : Nat]

(* The active time was collected before the running stretch began. *)
Counted(h) ==
    /\ h \in Counters
    /\ h.start <= now
    /\ h.pageStart <= now
    /\ h.acc <= (IF h.on THEN h.start ELSE now)

(* The page time fits into a stay that began at time t. *)
Fits(t, h) == h.pageAcc + t <= (IF h.on THEN h.pageStart ELSE now)

(* Every page fits into its stay, and the time being counted fits into the *)
(* stay on the page it will be credited to.                                *)
InStay(s, h) ==
    /\ s \in Sessions
    /\ \A i \in 1..Len(s.pages) : s.pages[i].entered + s.pages[i].dur <= now
    /\ s.cur # 0 => /\ s.cur \in 1..Len(s.pages)
                    /\ Fits(s.pages[s.cur].entered, h)

ClockOK == now \in Nat /\ now <= MaxNow

BeatOK == Beat \in BeatStates /\ Counted(hb)

StayInv == InStay(Session, hb) /\ (saved # None => InStay(saved, hb))

PageInv == ClockOK /\ BeatOK /\ HeartbeatSound /\ StayInv

-----------------------------------------------------------------------------
(* The heartbeat operators.                                                *)

(* What fits into a stay before a step of the heartbeat fits after it. *)
StillFits(g, h) == \A t \in Nat : t <= now /\ Fits(t, g) => Fits(t, h)

BeatFields(b) ==
    /\ b \in BeatStates /\ b.hb \in Counters /\ b.handle \in Nat \cup {None}
    /\ b.orphans \in Seq(Nat)

LEMMA Fields == ASSUME NEW b \in BeatStates PROVE BeatFields(b)
BY DEF BeatStates, BeatFields

LEMMA TotalBounded ==
    ASSUME ClockOK, NEW h, Counted(h)
    PROVE  Total(h) \in Nat /\ Total(h) <= now /\ Total(h) \in 0..MaxNow
<1>1. h.acc \in Nat /\ h.start \in Nat /\ h.on \in BOOLEAN /\ now \in Nat /\ MaxNow \in Nat
      /\ now <= MaxNow
  BY SdkConstants DEF Counted, Counters, ClockOK, SdkConstants
<1>2. h.start <= now /\ h.acc <= (IF h.on THEN h.start ELSE now)
  BY DEF Counted
<1>3. CASE h.on
  <2>1. Total(h) = h.acc + (now - h.start)
    BY <1>3 DEF Total
  <2> QED BY <1>1, <1>2, <1>3, <2>1
<1>4. CASE ~h.on
  <2>1. Total(h) = h.acc
    BY <1>1, <1>4 DEF Total
  <2> QED BY <1>1, <1>2, <1>4, <2>1
<1> QED BY <1>3, <1>4

LEMMA PageTimeFits ==
    ASSUME ClockOK, NEW h, Counted(h)
    PROVE  PageTime(h) \in Nat /\ \A t \in Nat : Fits(t, h) => PageTime(h) + t <= now
<1>1. /\ h.pageAcc \in Nat /\ h.pageStart \in Nat /\ h.on \in BOOLEAN /\ now \in Nat
      /\ h.pageStart <= now
  BY DEF Counted, Counters, ClockOK
<1>2. CASE h.on
  <2>1. PageTime(h) = h.pageAcc + (now - h.pageStart)
    BY <1>2 DEF PageTime
  <2>2. \A t \in Nat : Fits(t, h) => h.pageAcc + t <= h.pageStart
    BY <1>2 DEF Fits
  <2> QED BY <1>1, <2>1, <2>2
<1>3. CASE ~h.on
  <2>1. PageTime(h) = h.pageAcc
    BY <1>1, <1>3 DEF PageTime
  <2>2. \A t \in Nat : Fits(t, h) => h.pageAcc + t <= now
    BY <1>3 DEF Fits
  <2> QED BY <1>1, <2>1, <2>2
<1> QED BY <1>2, <1>3

LEMMA StopSound ==
    ASSUME ClockOK, NEW b \in BeatStates, Counted(b.hb), NEW accumulate \in BOOLEAN
    PROVE  /\ Stop(b, accumulate) \in BeatStates
           /\ Counted(Stop(b, accumulate).hb)
           /\ ~Stop(b, accumulate).hb.on
           /\ accumulate => StillFits(b.hb, Stop(b, accumulate).hb)
<1> DEFINE h == b.hb
           g == [h EXCEPT !.acc = IF accumulate THEN Total(h) ELSE @,
                          !.pageAcc = IF accumulate THEN PageTime(h) ELSE @,
                          !.on = FALSE]
<1>1. h \in Counters /\ Counted(h)
  BY Fields DEF BeatFields
<1>2. Total(h) \in Nat /\ Total(h) <= now /\ PageTime(h) \in Nat
  BY <1>1, TotalBounded, PageTimeFits
<1>3. g \in Counters
  BY <1>1, <1>2 DEF Counters
<1>4. /\ g.acc = (IF accumulate THEN Total(h) ELSE h.acc)
      /\ g.pageAcc = (IF accumulate THEN PageTime(h) ELSE h.pageAcc)
      /\ g.on = FALSE /\ g.start = h.start /\ g.pageStart = h.pageStart
  BY <1>1 DEF Counters
<1>5. Stop(b, accumulate) = [b EXCEPT !.hb = g, !.handle = None]
  BY DEF Stop
<1>6. \A t \in Nat : Fits(t, h) => PageTime(h) + t <= now
  BY <1>1, PageTimeFits
<1> HIDE DEF g
<1>7. Stop(b, accumulate) \in BeatStates /\ Stop(b, accumulate).hb = g
  BY <1>3, <1>5 DEF BeatStates
<1>8. Counted(g)
  <2>1. h.acc <= now
    <3>1. h.acc \in Nat /\ h.start \in Nat /\ now \in Nat /\ h.on \in BOOLEAN
      BY <1>1 DEF Counters, ClockOK
    <3>2. h.start <= now /\ h.acc <= (IF h.on THEN h.start ELSE now)
      BY <1>1 DEF Counted
    <3> QED BY <3>1, <3>2
  <2>2. g.acc <= now
    BY <1>2, <1>4, <2>1
  <2>3. g.start <= now /\ g.pageStart <= now
    BY <1>1, <1>4 DEF Counted
  <2> QED BY <1>3, <1>4, <2>2, <2>3 DEF Counted
<1>9. accumulate => StillFits(h, g)
  <2> SUFFICES ASSUME accumulate, NEW t \in Nat, Fits(t, h) PROVE Fits(t, g)
    BY DEF StillFits
  <2>1. g.pageAcc = PageTime(h) /\ ~g.on
    BY <1>4
  <2> QED BY <1>6, <2>1 DEF Fits
<1> QED BY <1>4, <1>7, <1>8, <1>9

LEMMA TimerSet ==
    ASSUME NEW b \in BeatStates, NEW d \in Nat
    PROVE  /\ SetTimer(b, d) \in BeatStates
           /\ SetTimer(b, d).hb = b.hb
           /\ SetTimer(b, d).handle # None
<1>1. BeatFields(b)
  BY Fields
<1>2. b.handle # None => Append(b.orphans, b.handle) \in Seq(Nat)
  BY <1>1, AppendProperties DEF BeatFields
<1>3. (IF b.handle = None THEN b.orphans ELSE Append(b.orphans, b.handle)) \in Seq(Nat)
  BY <1>1, <1>2 DEF BeatFields
<1>4. SetTimer(b, d) = [b EXCEPT !.handle = d,
          !.orphans = IF b.handle = None THEN b.orphans ELSE Append(b.orphans, b.handle)]
  BY DEF SetTimer, BeatStates
<1> DEFINE o == IF b.handle = None THEN b.orphans ELSE Append(b.orphans, b.handle)
<1> HIDE DEF o
<1>5. o \in Seq(Nat) /\ SetTimer(b, d) = [b EXCEPT !.handle = d, !.orphans = o]
  BY <1>3, <1>4 DEF o
<1>6. d # None
  BY SdkConstants DEF SdkConstants
<1> QED BY <1>5, <1>6 DEF BeatStates

LEMMA ScheduleSound ==
    ASSUME ClockOK, NEW b \in BeatStates, Counted(b.hb), b.hb.max => ~b.hb.on
    PROVE  /\ ScheduleNext(b) \in BeatStates
           /\ Counted(ScheduleNext(b).hb)
           /\ ScheduleNext(b).hb.max => ~ScheduleNext(b).hb.on
           /\ ScheduleNext(b).hb.on => ScheduleNext(b).handle # None
           /\ StillFits(b.hb, ScheduleNext(b).hb)
<1>0. BeatFields(b)
  BY Fields
<1>1. CASE ~b.hb.on
  <2>1. ScheduleNext(b) = b
    BY <1>1 DEF ScheduleNext
  <2> QED BY <1>1, <2>1 DEF StillFits
<1>2. CASE b.hb.on /\ (Total(b.hb) >= MaxDuration \/ Interval[Total(b.hb)] = 0)
  <2> DEFINE c == [b EXCEPT !.hb.max = TRUE]
  <2>1. ScheduleNext(b) = Stop(c, TRUE)
    BY <1>2 DEF ScheduleNext
  <2>2. c \in BeatStates /\ c.hb = [b.hb EXCEPT !.max = TRUE]
    BY <1>0 DEF BeatFields, BeatStates, Counters
  <2> HIDE DEF c
  <2>3. Counted(c.hb) /\ StillFits(b.hb, c.hb)
    BY <1>0, <2>2 DEF BeatFields, Counted, StillFits, Fits, Counters
  <2>4. /\ Stop(c, TRUE) \in BeatStates /\ Counted(Stop(c, TRUE).hb) /\ ~Stop(c, TRUE).hb.on
        /\ StillFits(c.hb, Stop(c, TRUE).hb)
    BY <2>2, <2>3, StopSound
  <2>5. StillFits(b.hb, Stop(c, TRUE).hb)
    BY <2>3, <2>4 DEF StillFits
  <2> QED BY <2>1, <2>4, <2>5
<1>3. CASE b.hb.on /\ ~(Total(b.hb) >= MaxDuration \/ Interval[Total(b.hb)] = 0)
  <2> DEFINE d == Later(now, b.hb.ping + Interval[Total(b.hb)])
  <2>1. ScheduleNext(b) = SetTimer(b, d)
    BY <1>3 DEF ScheduleNext
  <2>2. d \in Nat
    <3>1. Total(b.hb) \in 0..MaxNow
      BY TotalBounded
    <3>2. Interval[Total(b.hb)] \in Nat
      BY <3>1, SdkConstants DEF SdkConstants
    <3>3. b.hb.ping \in Nat /\ now \in Nat
      BY <1>0 DEF BeatFields, Counters, ClockOK
    <3> QED BY <3>2, <3>3 DEF Later
  <2> HIDE DEF d
  <2>3. /\ SetTimer(b, d) \in BeatStates /\ SetTimer(b, d).hb = b.hb
        /\ SetTimer(b, d).handle # None
    BY <2>2, TimerSet
  <2> QED BY <2>1, <2>3 DEF StillFits
<1> QED BY <1>1, <1>2, <1>3

LEMMA ResumeSound ==
    ASSUME ClockOK, NEW b \in BeatStates, Counted(b.hb), b.hb.max => ~b.hb.on
    PROVE  /\ Resume(b) \in BeatStates
           /\ Counted(Resume(b).hb)
           /\ Resume(b).hb.max => ~Resume(b).hb.on
           /\ Resume(b).hb.on => Resume(b).handle # None
           /\ StillFits(b.hb, Resume(b).hb)
<1>0. BeatFields(b)
  BY Fields
<1>1. CASE b.hb.max
  BY <1>1 DEF Resume, StillFits
<1>2. CASE ~b.hb.max
  <2> DEFINE c == [b EXCEPT !.hb.start = now, !.hb.pageStart = now, !.hb.on = TRUE, !.hb.ping = now]
  <2>1. Resume(b) = ScheduleNext(c)
    BY <1>2 DEF Resume
  <2>2. /\ c \in BeatStates
        /\ c.hb = [b.hb EXCEPT !.start = now, !.pageStart = now, !.on = TRUE, !.ping = now]
    BY <1>0 DEF BeatFields, BeatStates, Counters, ClockOK
  <2> HIDE DEF c
  <2>3. /\ c.hb \in Counters /\ c.hb.start = now /\ c.hb.pageStart = now /\ c.hb.on
        /\ c.hb.acc = b.hb.acc /\ c.hb.pageAcc = b.hb.pageAcc /\ ~c.hb.max
    BY <1>0, <1>2, <2>2 DEF BeatFields, Counters, ClockOK
  <2>4. /\ b.hb.acc \in Nat /\ b.hb.start \in Nat /\ b.hb.on \in BOOLEAN /\ now \in Nat
        /\ b.hb.pageAcc \in Nat /\ b.hb.pageStart \in Nat
    BY <1>0 DEF BeatFields, Counters, ClockOK
  <2>5. Counted(c.hb)
    <3>1. b.hb.start <= now /\ b.hb.acc <= (IF b.hb.on THEN b.hb.start ELSE now)
      BY DEF Counted
    <3>2. b.hb.acc <= now
      BY <2>4, <3>1
    <3> QED BY <2>3, <2>4, <3>2 DEF Counted
  <2>6. StillFits(b.hb, c.hb)
    <3> SUFFICES ASSUME NEW t \in Nat, Fits(t, b.hb) PROVE Fits(t, c.hb)
      BY DEF StillFits
    <3>1. b.hb.pageAcc + t <= (IF b.hb.on THEN b.hb.pageStart ELSE now) /\ b.hb.pageStart <= now
      BY DEF Fits, Counted
    <3>2. b.hb.pageAcc + t <= now
      BY <2>4, <3>1
    <3> QED BY <2>3, <3>2 DEF Fits
  <2>7. /\ ScheduleNext(c) \in BeatStates /\ Counted(ScheduleNext(c).hb)
        /\ ScheduleNext(c).hb.max => ~ScheduleNext(c).hb.on
        /\ ScheduleNext(c).hb.on => ScheduleNext(c).handle # None
        /\ StillFits(c.hb, ScheduleNext(c).hb)
    BY <2>2, <2>3, <2>5, ScheduleSound
  <2>8. StillFits(b.hb, ScheduleNext(c).hb)
    BY <2>6, <2>7 DEF StillFits
  <2> QED BY <2>1, <2>7, <2>8
<1> QED BY <1>1, <1>2

(* No page time is counted yet: it fits into every stay. *)
Blank(h) == \A t \in Nat : t <= now => Fits(t, h)

LEMMA StartSound ==
    ASSUME ClockOK, NEW b \in BeatStates, b.hb = FreshBeat
    PROVE  /\ Start(b) \in BeatStates
           /\ Counted(Start(b).hb)
           /\ Start(b).hb.max => ~Start(b).hb.on
           /\ Start(b).hb.on => Start(b).handle # None
           /\ Blank(Start(b).hb)
<1>0. now \in Nat
  BY DEF ClockOK
<1>1. FreshBeat \in Counters /\ Counted(FreshBeat) /\ ~FreshBeat.max
  BY <1>0 DEF FreshBeat, Counters, Counted
<1> DEFINE c == Stop(b, FALSE)
           d == [c EXCEPT !.hb.start = now, !.hb.on = TRUE, !.hb.ping = now]
<1>2. Start(b) = ScheduleNext(d)
  BY <1>1 DEF Start
<1>3. c \in BeatStates /\ Counted(c.hb)
  BY <1>1, StopSound
<1>4. c.hb = [FreshBeat EXCEPT !.on = FALSE]
  BY <1>1 DEF Stop, BeatStates, Counters, FreshBeat
<1> HIDE DEF c
<1>5. /\ d \in BeatStates
      /\ d.hb = [c.hb EXCEPT !.start = now, !.on = TRUE, !.ping = now]
  <2>1. c.hb \in Counters
    BY <1>3, Fields DEF BeatFields
  <2> QED BY <1>0, <1>3, <2>1 DEF BeatStates, Counters
<1> HIDE DEF d
<1>6. /\ d.hb.acc = 0 /\ d.hb.start = now /\ d.hb.on /\ ~d.hb.max
      /\ d.hb.pageAcc = 0 /\ d.hb.pageStart = now
  BY <1>4, <1>5 DEF FreshBeat
<1>7. Counted(d.hb) /\ Blank(d.hb)
  <2>1. d.hb \in Counters
    BY <1>5, Fields DEF BeatFields
  <2> QED BY <1>0, <1>6, <2>1 DEF Counted, Blank, Fits
<1>8. /\ ScheduleNext(d) \in BeatStates /\ Counted(ScheduleNext(d).hb)
      /\ ScheduleNext(d).hb.max => ~ScheduleNext(d).hb.on
      /\ ScheduleNext(d).hb.on => ScheduleNext(d).handle # None
      /\ StillFits(d.hb, ScheduleNext(d).hb)
  BY <1>5, <1>6, <1>7, ScheduleSound
<1>9. Blank(ScheduleNext(d).hb)
  BY <1>7, <1>8 DEF Blank, StillFits
<1> QED BY <1>2, <1>8, <1>9

-----------------------------------------------------------------------------
(* The session operators.                                                  *)

LEMMA SessionFields ==
    ASSUME NEW s \in Sessions
    PROVE  /\ s.pages \in Seq(Views) /\ s.cur \in Nat /\ Len(s.pages) \in Nat
           /\ \A i \in 1..Len(s.pages) :
                 s.pages[i] \in Views /\ s.pages[i].entered \in Nat /\ s.pages[i].dur \in Nat
<1>1. s.pages \in Seq(Views) /\ s.cur \in Nat
  BY DEF Sessions
<1>2. \A i \in 1..Len(s.pages) : s.pages[i] \in Views
  BY <1>1, ElementOfSeq
<1> QED BY <1>1, <1>2, LenProperties DEF Views

(* A session that fits one heartbeat fits another. *)
LEMMA InStayKept ==
    ASSUME ClockOK, NEW s, NEW g, NEW h, InStay(s, g), StillFits(g, h)
    PROVE  InStay(s, h)
<1>1. s \in Sessions
  BY DEF InStay
<1>2. \A i \in 1..Len(s.pages) : s.pages[i].entered \in Nat /\ s.pages[i].entered <= now
  <2> SUFFICES ASSUME NEW i \in 1..Len(s.pages)
               PROVE  s.pages[i].entered \in Nat /\ s.pages[i].entered <= now
    OBVIOUS
  <2>1. s.pages[i].entered \in Nat /\ s.pages[i].dur \in Nat
    BY <1>1, SessionFields
  <2>2. s.pages[i].entered + s.pages[i].dur <= now /\ now \in Nat
    BY DEF InStay, ClockOK
  <2> QED BY <2>1, <2>2
<1> QED BY <1>1, <1>2 DEF InStay, StillFits

LEMMA UpdateSound ==
    ASSUME ClockOK, NEW s, NEW h, Counted(h), InStay(s, h)
    PROVE  /\ InStay(UpdateCurrent(s, h), h)
           /\ UpdateCurrent(s, h).cur = s.cur
           /\ Len(UpdateCurrent(s, h).pages) = Len(s.pages)
<1>0. s \in Sessions
  BY DEF InStay
<1>1. CASE s.cur = 0
  BY <1>1 DEF UpdateCurrent
<1>2. CASE s.cur # 0
  <2> DEFINE k == s.cur
             p == PageTime(h)
             v == [s.pages[k] EXCEPT !.dur = p]
             ps == [s.pages EXCEPT ![k] = v]
  <2>1. /\ s.pages \in Seq(Views) /\ k \in 1..Len(s.pages) /\ Len(s.pages) \in Nat
        /\ s.pages[k] \in Views /\ s.pages[k].entered \in Nat
    <3>1. k \in 1..Len(s.pages)
      BY <1>2 DEF InStay
    <3> QED BY <1>0, <3>1, SessionFields
  <2>2. p \in Nat /\ p + s.pages[k].entered <= now
    <3>1. Fits(s.pages[k].entered, h)
      BY <1>2 DEF InStay
    <3> QED BY <2>1, <3>1, PageTimeFits
  <2> HIDE DEF p
  <2>3. v \in Views /\ v.entered = s.pages[k].entered /\ v.dur = p
    BY <2>1, <2>2 DEF Views
  <2>4. UpdateCurrent(s, h) = [s EXCEPT !.pages = ps]
    BY <1>2 DEF UpdateCurrent, p
  <2> HIDE DEF v
  <2>5. ps \in Seq(Views) /\ Len(ps) = Len(s.pages)
    BY <2>1, <2>3, ExceptSeq
  <2>6. \A i \in 1..Len(ps) : ps[i] = (IF i = k THEN v ELSE s.pages[i])
    BY <2>1, <2>5
  <2> HIDE DEF ps
  <2>7. UpdateCurrent(s, h) \in Sessions /\ UpdateCurrent(s, h).pages = ps
        /\ UpdateCurrent(s, h).cur = k
    BY <1>0, <2>4, <2>5 DEF Sessions
  <2>8. \A i \in 1..Len(ps) : ps[i].entered + ps[i].dur <= now
    <3> SUFFICES ASSUME NEW i \in 1..Len(ps) PROVE ps[i].entered + ps[i].dur <= now
      OBVIOUS
    <3>1. CASE i = k
      BY <2>1, <2>2, <2>3, <2>6, <3>1
    <3>2. CASE i # k
      <4>1. ps[i] = s.pages[i]
        BY <2>6, <3>2
      <4> QED BY <2>5, <4>1 DEF InStay
    <3> QED BY <3>1, <3>2
  <2>9. Fits(ps[k].entered, h)
    <3>1. ps[k].entered = s.pages[k].entered
      BY <2>1, <2>3, <2>5, <2>6
    <3> QED BY <1>2, <3>1 DEF InStay
  <2> QED BY <2>1, <2>5, <2>7, <2>8, <2>9 DEF InStay
<1> QED BY <1>1, <1>2

LEMMA AddSound ==
    ASSUME ClockOK, NEW s, NEW g, NEW h, Counted(g), InStay(s, g), Blank(h)
    PROVE  InStay(AddPageview(s, g), h)
<1>0. now \in Nat
  BY DEF ClockOK
<1>1. CASE Len(s.pages) >= MaxPages
  <2>1. AddPageview(s, g) = s
    BY <1>1 DEF AddPageview
  <2>2. StillFits(g, h)
    BY DEF StillFits, Blank
  <2> QED BY <2>1, <2>2, InStayKept
<1>2. CASE ~(Len(s.pages) >= MaxPages)
  <2> DEFINE u == UpdateCurrent(s, g)
             v == [entered |-> now, dur |-> 0]
             ps == Append(u.pages, v)
  <2>1. InStay(u, g)
    BY UpdateSound
  <2>2. AddPageview(s, g) = [pages |-> ps, cur |-> Len(ps)]
    BY <1>2 DEF AddPageview
  <2> HIDE DEF u
  <2>3. u.pages \in Seq(Views) /\ Len(u.pages) \in Nat
    BY <2>1, SessionFields DEF InStay
  <2>4. v \in Views /\ v.entered = now /\ v.dur = 0
    BY <1>0 DEF Views
  <2> HIDE DEF v
  <2>5. /\ ps \in Seq(Views) /\ Len(ps) = Len(u.pages) + 1 /\ ps[Len(u.pages) + 1] = v
        /\ \A i \in 1..Len(u.pages) : ps[i] = u.pages[i]
    BY <2>3, <2>4, AppendProperties
  <2> HIDE DEF ps
  <2>6. Len(ps) \in Nat /\ Len(ps) # 0 /\ Len(ps) \in 1..Len(ps) /\ ps[Len(ps)] = v
    BY <2>3, <2>5
  <2>7. \A i \in 1..Len(ps) : ps[i].entered + ps[i].dur <= now
    <3> SUFFICES ASSUME NEW i \in 1..Len(ps) PROVE ps[i].entered + ps[i].dur <= now
      OBVIOUS
    <3>1. CASE i = Len(ps)
      BY <1>0, <2>4, <2>6, <3>1
    <3>2. CASE i # Len(ps)
      <4>1. i \in 1..Len(u.pages)
        BY <2>3, <2>5, <3>2
      <4>2. ps[i] = u.pages[i]
        BY <2>5, <4>1
      <4> QED BY <2>1, <4>1, <4>2 DEF InStay
    <3> QED BY <3>1, <3>2
  <2>8. Fits(ps[Len(ps)].entered, h)
    BY <1>0, <2>4, <2>6 DEF Blank
  <2> DEFINE t == [pages |-> ps, cur |-> Len(ps)]
  <2>9. t \in Sessions /\ t.pages = ps /\ t.cur = Len(ps)
    BY <2>5, <2>6 DEF Sessions
  <2> HIDE DEF t
  <2>10. InStay(t, h)
    BY <2>6, <2>7, <2>8, <2>9 DEF InStay
  <2> QED BY <2>2, <2>10 DEF t
<1> QED BY <1>1, <1>2

-----------------------------------------------------------------------------
(* What a step leaves behind.                                              *)

LEMMA BeatIs ==
    ASSUME BeatOK
    PROVE  /\ Beat \in BeatStates /\ Beat.hb = hb /\ Beat.handle = handle /\ Beat.orphans = orphans
           /\ hb \in Counters /\ Counted(hb)
           /\ handle \in Nat \cup {None} /\ orphans \in Seq(Nat)
<1>1. Beat.hb = hb /\ Beat.handle = handle /\ Beat.orphans = orphans
  BY DEF Beat
<1>2. Beat \in BeatStates /\ BeatFields(Beat) /\ Counted(hb)
  BY Fields DEF BeatOK
<1> QED BY <1>1, <1>2 DEF BeatFields

LEMMA BeatLands ==
    ASSUME NEW b \in BeatStates, Counted(b.hb), SetBeat(b), now' = now
    PROVE  BeatOK' /\ hb' = b.hb /\ handle' = b.handle /\ orphans' = b.orphans
<1>1. hb' = b.hb /\ handle' = b.handle /\ orphans' = b.orphans
  BY DEF SetBeat
<1>2. BeatFields(b)
  BY Fields
<1>3. Beat' \in BeatStates
  BY <1>1, <1>2 DEF Beat, BeatStates, BeatFields
<1>4. Counted(hb)'
  BY <1>1 DEF Counted
<1> QED BY <1>1, <1>3, <1>4 DEF BeatOK

LEMMA SessionLands ==
    ASSUME NEW s, NEW h, InStay(s, h), pages' = s.pages, cur' = s.cur, hb' = h, now' = now
    PROVE  InStay(Session, hb)'
<1>1. s \in Sessions /\ s.pages \in Seq(Views) /\ s.cur \in Nat
  BY SessionFields DEF InStay
<1>2. Session' \in Sessions /\ Session'.pages = s.pages /\ Session'.cur = s.cur
  BY <1>1 DEF Session, Sessions
<1>3. \A i \in 1..Len(s.pages) : s.pages[i].entered + s.pages[i].dur <= now'
  BY DEF InStay
<1>4. s.cur # 0 => s.cur \in 1..Len(s.pages) /\ Fits(s.pages[s.cur].entered, h)
  BY DEF InStay
<1>5. Fits(s.pages[s.cur].entered, h) => Fits(Session.pages[Session.cur].entered, hb)'
  BY <1>2 DEF Fits
<1> QED BY <1>2, <1>3, <1>4, <1>5 DEF InStay

LEMMA SavedLands ==
    ASSUME NEW h, saved' # None => InStay(saved', h), hb' = h, now' = now
    PROVE  (saved # None => InStay(saved, hb))'
BY DEF InStay, Fits

(* The page time of the running page is brought into the session. *)
LEMMA SendSound ==
    ASSUME ClockOK, NEW g, NEW h, Counted(g), InStay(Session, g), StillFits(g, h),
           pages' = UpdateCurrent(Session, g).pages, cur' = cur, hb' = h, now' = now
    PROVE  InStay(Session, hb)'
<1> DEFINE u == UpdateCurrent(Session, g)
<1>1. InStay(u, g) /\ u.cur = Session.cur
  BY UpdateSound
<1>2. Session.cur = cur /\ pages' = u.pages
  BY DEF Session
<1> HIDE DEF u
<1>3. InStay(u, h)
  BY <1>1, InStayKept
<1> QED BY <1>1, <1>2, <1>3, SessionLands

LEMMA FlushSound ==
    ASSUME ClockOK, NEW h, Counted(h), InStay(Session, h), saved # None => InStay(saved, h),
           FlushOnce(h), hb' = h, now' = now
    PROVE  StayInv'
<1>1. CASE flushed
  <2>1. pages' = pages /\ cur' = cur /\ saved' = saved
    BY <1>1 DEF FlushOnce
  <2>2. InStay(Session, hb)'
    <3>1. Session.pages = pages /\ Session.cur = cur
      BY DEF Session
    <3> QED BY <2>1, <3>1, SessionLands
  <2>3. (saved # None => InStay(saved, hb))'
    BY <2>1, SavedLands
  <2> QED BY <2>2, <2>3 DEF StayInv
<1>2. CASE ~flushed
  <2> DEFINE u == UpdateCurrent(Session, h)
             s == [u EXCEPT !.cur = 0]
  <2>1. InStay(u, h)
    BY UpdateSound
  <2>2. BuildPayload(s, h, active) /\ saved' = s
    BY <1>2 DEF FlushOnce
  <2> HIDE DEF u
  <2>3. s \in Sessions /\ s.pages = u.pages /\ s.cur = 0
    BY <2>1 DEF InStay, Sessions
  <2> HIDE DEF s
  <2>4. InStay(s, h)
    BY <2>1, <2>3 DEF InStay
  <2>5. pages' = s.pages /\ cur' = s.cur
    BY <2>2, <2>3 DEF BuildPayload, UpdateCurrent
  <2>6. InStay(Session, hb)'
    BY <2>4, <2>5, SessionLands
  <2>7. (saved # None => InStay(saved, hb))'
    BY <2>2, <2>4, SavedLands
  <2> QED BY <2>6, <2>7 DEF StayInv
<1> QED BY <1>1, <1>2

(* A new heartbeat b that the sessions still fit and that has its timer.   *)
LEMMA StayKept ==
    ASSUME ClockOK, StayInv, NEW h, StillFits(hb, h), hb' = h, now' = now,
           pages' = pages, cur' = cur, saved' = saved
    PROVE  StayInv'
<1>1. InStay(Session, h) /\ (saved # None => InStay(saved, h))
  BY InStayKept DEF StayInv
<1>2. Session.pages = pages /\ Session.cur = cur
  BY DEF Session
<1>3. InStay(Session, hb)'
  BY <1>1, <1>2, SessionLands
<1>4. (saved # None => InStay(saved, hb))'
  BY <1>1, SavedLands
<1> QED BY <1>3, <1>4 DEF StayInv

LEMMA SameFits == ASSUME NEW h PROVE StillFits(h, h)
BY DEF StillFits

LEMMA LeaveSound ==
    ASSUME PageInv, Leave, now' = now
    PROVE  PageInv'
<1> DEFINE b == Stop(Beat, TRUE)
<1>0. ClockOK /\ BeatOK /\ StayInv /\ ClockOK'
  BY DEF PageInv, ClockOK
<1>1. b \in BeatStates /\ Counted(b.hb) /\ ~b.hb.on /\ StillFits(hb, b.hb)
  BY <1>0, BeatIs, StopSound
<1>2. SetBeat(b) /\ FlushOnce(b.hb)
  BY DEF Leave
<1> HIDE DEF b
<1>3. BeatOK' /\ hb' = b.hb
  BY <1>1, <1>2, BeatLands
<1>4. HeartbeatSound'
  BY <1>1, <1>3 DEF HeartbeatSound, KeepsBeating, CapIsFinal
<1>5. InStay(Session, b.hb) /\ (saved # None => InStay(saved, b.hb))
  BY <1>0, <1>1, InStayKept DEF StayInv
<1>6. StayInv'
  BY <1>0, <1>1, <1>2, <1>3, <1>5, FlushSound
<1> QED BY <1>0, <1>3, <1>4, <1>6 DEF PageInv

(* What the page becomes visible with. *)
LEMMA ResumedBeat ==
    ASSUME PageInv, SetBeat(IF paused \/ hb.max THEN Beat ELSE Resume(Beat)),
           paused' = paused, now' = now
    PROVE  BeatOK' /\ HeartbeatSound' /\ StillFits(hb, hb')
<1>0. ClockOK /\ BeatOK /\ CapIsFinal
  BY DEF PageInv, HeartbeatSound
<1>1. /\ Beat \in BeatStates /\ Beat.hb = hb /\ Counted(hb) /\ (hb.max => ~hb.on)
  BY <1>0, BeatIs DEF CapIsFinal
<1>2. CASE paused \/ hb.max
  <2>1. SetBeat(Beat)
    BY <1>2
  <2>2. BeatOK' /\ hb' = hb
    BY <1>1, <2>1, BeatLands
  <2>3. HeartbeatSound'
    BY <1>1, <1>2, <2>2 DEF HeartbeatSound, KeepsBeating, CapIsFinal
  <2> QED BY <2>2, <2>3, SameFits
<1>3. CASE ~(paused \/ hb.max)
  <2> DEFINE r == Resume(Beat)
  <2>1. SetBeat(r)
    BY <1>3
  <2>2. /\ r \in BeatStates /\ Counted(r.hb) /\ (r.hb.max => ~r.hb.on)
        /\ r.hb.on => r.handle # None
        /\ StillFits(hb, r.hb)
    BY <1>0, <1>1, ResumeSound
  <2> HIDE DEF r
  <2>3. BeatOK' /\ hb' = r.hb /\ handle' = r.handle
    BY <2>1, <2>2, BeatLands
  <2>4. HeartbeatSound'
    BY <2>2, <2>3 DEF HeartbeatSound, KeepsBeating, CapIsFinal
  <2> QED BY <2>2, <2>3, <2>4
<1> QED BY <1>2, <1>3

LEMMA ComeBackSound ==
    ASSUME PageInv, ComeBack, now' = now
    PROVE  PageInv'
<1>0. ClockOK /\ StayInv /\ ClockOK'
  BY DEF PageInv, ClockOK
<1>1. BeatOK' /\ HeartbeatSound' /\ StillFits(hb, hb')
  BY ResumedBeat DEF ComeBack
<1>2. pages' = pages /\ cur' = cur /\ saved' = saved
  BY DEF ComeBack
<1>3. StayInv'
  BY <1>0, <1>1, <1>2, StayKept
<1> QED BY <1>0, <1>1, <1>3 DEF PageInv

(* Nothing of the heartbeat changes. *)
LEMMA BeatKept ==
    ASSUME PageInv, now' = now, UNCHANGED beat, paused' = paused,
           doc' = "visible" => doc = "visible"
    PROVE  ClockOK' /\ BeatOK' /\ HeartbeatSound' /\ hb' = hb
<1>1. hb' = hb /\ handle' = handle /\ orphans' = orphans
  BY DEF beat
<1>2. BeatOK'
  BY <1>1 DEF PageInv, BeatOK, Beat, Counted
<1>3. HeartbeatSound'
  BY <1>1 DEF PageInv, HeartbeatSound, KeepsBeating, CapIsFinal
<1> QED BY <1>1, <1>2, <1>3 DEF PageInv, ClockOK

LEMMA UnloadSound ==
    ASSUME PageInv, Unload
    PROVE  PageInv'
<1>1. now' = now /\ UNCHANGED beat /\ paused' = paused /\ FlushOnce(hb)
  BY DEF Unload, Event
<1>2. doc' = "visible" => doc = "visible"
  BY DEF Unload
<1>3. ClockOK' /\ BeatOK' /\ HeartbeatSound' /\ hb' = hb
  BY <1>1, <1>2, BeatKept
<1>4. StayInv'
  BY <1>1, <1>3, FlushSound DEF PageInv, BeatOK, StayInv
<1> QED BY <1>3, <1>4 DEF PageInv

LEMMA PageShowSound ==
    ASSUME PageInv, PageShow
    PROVE  PageInv'
<1>0. ClockOK /\ StayInv /\ now' = now /\ ClockOK'
  BY DEF PageInv, ClockOK, PageShow, Event
<1>1. BeatOK' /\ HeartbeatSound' /\ StillFits(hb, hb')
  BY <1>0, ResumedBeat DEF PageShow
<1>2. /\ pages' = Restored(Session).pages /\ cur' = Restored(Session).cur /\ saved' = saved
  BY DEF PageShow
<1>3. InStay(Restored(Session), hb)
  BY <1>0 DEF StayInv, Restored
<1>4. InStay(Restored(Session), hb') /\ (saved # None => InStay(saved, hb'))
  BY <1>0, <1>1, <1>3, InStayKept DEF StayInv
<1>5. InStay(Session, hb)'
  BY <1>0, <1>2, <1>4, SessionLands
<1>6. (saved # None => InStay(saved, hb))'
  BY <1>0, <1>2, <1>4, SavedLands
<1> QED BY <1>0, <1>1, <1>5, <1>6 DEF PageInv, StayInv

LEMMA NavigateSound ==
    ASSUME PageInv, Navigate
    PROVE  PageInv'
<1> DEFINE h == [hb EXCEPT !.pageAcc = 0, !.pageStart = now]
           s == AddPageview(Session, hb)
<1>0. ClockOK /\ BeatOK /\ StayInv /\ now' = now /\ ClockOK' /\ now \in Nat
  BY DEF PageInv, ClockOK, Navigate, Event
<1>1. /\ hb' = h /\ handle' = handle /\ orphans' = orphans /\ paused' = paused /\ doc' = doc
      /\ pages' = s.pages /\ cur' = s.cur /\ saved' = s
  BY DEF Navigate, browser
<1>2. hb \in Counters /\ Counted(hb) /\ handle \in Nat \cup {None} /\ orphans \in Seq(Nat)
  BY <1>0, BeatIs
<1>3. /\ h \in Counters /\ h.pageAcc = 0 /\ h.pageStart = now /\ h.on = hb.on /\ h.max = hb.max
      /\ h.acc = hb.acc /\ h.start = hb.start
  BY <1>0, <1>2 DEF Counters
<1> HIDE DEF h
<1>4. Counted(h)
  BY <1>0, <1>2, <1>3 DEF Counted
<1>5. Blank(h)
  BY <1>0, <1>3 DEF Blank, Fits
<1>6. InStay(s, h)
  BY <1>0, <1>2, <1>5, AddSound DEF StayInv
<1> HIDE DEF s
<1>7. BeatOK'
  <2>1. Beat' \in BeatStates
    BY <1>1, <1>2, <1>3 DEF Beat, BeatStates
  <2>2. Counted(hb)'
    BY <1>0, <1>1, <1>4 DEF Counted
  <2> QED BY <2>1, <2>2 DEF BeatOK
<1>8. HeartbeatSound'
  BY <1>1, <1>3 DEF PageInv, HeartbeatSound, KeepsBeating, CapIsFinal
<1>9. InStay(Session, hb)'
  BY <1>0, <1>1, <1>6, SessionLands
<1>10. (saved # None => InStay(saved, hb))'
  BY <1>0, <1>1, <1>6, SavedLands
<1> QED BY <1>0, <1>7, <1>8, <1>9, <1>10 DEF PageInv, StayInv

(* trackGoal() and the debounced send. *)
LEMMA SendKeeps ==
    ASSUME PageInv, Send, now' = now, UNCHANGED beat, paused' = paused, doc' = doc
    PROVE  PageInv'
<1>0. ClockOK /\ BeatOK /\ StayInv
  BY DEF PageInv
<1>1. ClockOK' /\ BeatOK' /\ HeartbeatSound' /\ hb' = hb
  BY BeatKept
<1>2. pages' = UpdateCurrent(Session, hb).pages /\ cur' = cur /\ saved' = saved
  BY DEF Send, BuildPayload, Session
<1>3. InStay(Session, hb)'
  BY <1>0, <1>1, <1>2, SendSound, SameFits DEF StayInv, BeatOK
<1>4. (saved # None => InStay(saved, hb))'
  BY <1>0, <1>1, <1>2, SavedLands DEF StayInv
<1> QED BY <1>1, <1>3, <1>4 DEF PageInv, StayInv

LEMMA PauseSound ==
    ASSUME PageInv, Pause
    PROVE  PageInv'
<1> DEFINE b == Stop(Beat, TRUE)
<1>0. ClockOK /\ BeatOK /\ StayInv /\ now' = now /\ ClockOK'
  BY DEF PageInv, ClockOK, Pause, Event
<1>1. b \in BeatStates /\ Counted(b.hb) /\ ~b.hb.on /\ StillFits(hb, b.hb)
  BY <1>0, BeatIs, StopSound
<1>2. SetBeat(b) /\ pages' = pages /\ cur' = cur /\ saved' = saved
  BY DEF Pause, state
<1> HIDE DEF b
<1>3. BeatOK' /\ hb' = b.hb
  BY <1>0, <1>1, <1>2, BeatLands
<1>4. HeartbeatSound'
  BY <1>1, <1>3 DEF HeartbeatSound, KeepsBeating, CapIsFinal
<1>5. StayInv'
  BY <1>0, <1>1, <1>2, <1>3, StayKept
<1> QED BY <1>0, <1>3, <1>4, <1>5 DEF PageInv

(* A counter that is blank fits the pages of any session. *)
LEMMA BlankFits == ASSUME NEW g, NEW h, Blank(h) PROVE StillFits(g, h)
BY DEF Blank, StillFits

LEMMA FreshIsCounter == ASSUME ClockOK PROVE FreshBeat \in Counters /\ Counted(FreshBeat)
                                             /\ Blank(FreshBeat)
BY DEF ClockOK, FreshBeat, Counters, Counted, Blank, Fits

LEMMA ResumeTrackingSound ==
    ASSUME PageInv, ResumeTracking
    PROVE  PageInv'
<1> DEFINE z == ResetBeat(Beat)
           b == Start(z)
<1>0. ClockOK /\ BeatOK /\ StayInv /\ now' = now /\ ClockOK'
  BY DEF PageInv, ClockOK, ResumeTracking, Event
<1>1. z \in BeatStates /\ z.hb = FreshBeat
  <2>1. Stop(Beat, FALSE) \in BeatStates
    BY <1>0, BeatIs, StopSound
  <2>2. FreshBeat \in Counters
    BY <1>0, FreshIsCounter
  <2> QED BY <2>1, <2>2 DEF ResetBeat, BeatStates
<1> HIDE DEF z
<1>2. /\ b \in BeatStates /\ Counted(b.hb)
      /\ b.hb.max => ~b.hb.on
      /\ b.hb.on => b.handle # None
      /\ Blank(b.hb)
  BY <1>0, <1>1, StartSound
<1>3. SetBeat(b) /\ pages' = pages /\ cur' = cur /\ saved' = saved
  BY DEF ResumeTracking, state, z
<1> HIDE DEF b
<1>4. BeatOK' /\ hb' = b.hb /\ handle' = b.handle
  BY <1>0, <1>2, <1>3, BeatLands
<1>5. HeartbeatSound'
  BY <1>2, <1>4 DEF HeartbeatSound, KeepsBeating, CapIsFinal
<1>6. StayInv'
  BY <1>0, <1>2, <1>3, <1>4, BlankFits, StayKept
<1> QED BY <1>0, <1>4, <1>5, <1>6 DEF PageInv

LEMMA FreshDocument ==
    ASSUME ClockOK
    PROVE  LET b == [hb |-> FreshBeat, handle |-> None, orphans |-> <<>>]
           IN  b \in BeatStates /\ b.hb = FreshBeat
<1>1. <<>> \in Seq(Nat)
  OBVIOUS
<1> QED BY <1>1, FreshIsCounter DEF BeatStates

LEMMA ReloadSound ==
    ASSUME PageInv, Reload
    PROVE  PageInv'
<1> DEFINE z == [hb |-> FreshBeat, handle |-> None, orphans |-> <<>>]
           b == Start(z)
           e == [pages |-> <<>>, cur |-> 0]
           s == Restored(e)
           t == AddPageview(s, FreshBeat)
           u == UpdateCurrent(t, b.hb)
<1>0. ClockOK /\ StayInv /\ now' = now /\ ClockOK'
  BY DEF PageInv, ClockOK, Reload, Event
<1>1. z \in BeatStates /\ z.hb = FreshBeat
  BY <1>0, FreshDocument
<1>2. Load(s) /\ saved' = saved
  BY DEF Reload
<1>3. SetBeat(b) /\ BuildPayload(t, b.hb, 0)
  BY <1>2 DEF Load
<1>4. InStay(e, FreshBeat)
  <2>1. e.pages = <<>> /\ e.cur = 0 /\ <<>> \in Seq(Views) /\ Len(<<>>) = 0
    OBVIOUS
  <2>2. e \in Sessions
    BY <2>1 DEF Sessions
  <2> HIDE DEF e
  <2> QED BY <2>1, <2>2 DEF InStay
<1> HIDE DEF z, e
<1>5. /\ b \in BeatStates /\ Counted(b.hb)
      /\ b.hb.max => ~b.hb.on
      /\ b.hb.on => b.handle # None
      /\ Blank(b.hb)
  BY <1>0, <1>1, StartSound
<1> HIDE DEF b
<1>6. Counted(FreshBeat) /\ Blank(FreshBeat)
  BY <1>0, FreshIsCounter
<1>7. InStay(s, FreshBeat)
  <2>1. saved # None => InStay(saved, FreshBeat)
    BY <1>0, <1>6, BlankFits, InStayKept DEF StayInv
  <2> QED BY <1>4, <2>1 DEF Restored
<1> HIDE DEF s
<1>8. InStay(t, b.hb)
  BY <1>0, <1>5, <1>6, <1>7, AddSound
<1> HIDE DEF t
<1>9. InStay(u, b.hb) /\ u.cur = t.cur
  BY <1>0, <1>5, <1>8, UpdateSound
<1>10. pages' = u.pages /\ cur' = u.cur
  BY <1>3, <1>9 DEF BuildPayload
<1> HIDE DEF u
<1>11. BeatOK' /\ hb' = b.hb /\ handle' = b.handle
  BY <1>0, <1>3, <1>5, BeatLands
<1>12. HeartbeatSound'
  BY <1>5, <1>11 DEF HeartbeatSound, KeepsBeating, CapIsFinal
<1>13. InStay(Session, hb)'
  BY <1>0, <1>9, <1>10, <1>11, SessionLands
<1>14. (saved # None => InStay(saved, hb))'
  <2>1. saved # None => InStay(saved, b.hb)
    BY <1>0, <1>5, BlankFits, InStayKept DEF StayInv
  <2> QED BY <1>0, <1>2, <1>11, <2>1, SavedLands
<1> QED BY <1>0, <1>11, <1>12, <1>13, <1>14 DEF PageInv, StayInv

LEMMA AnsweredSound ==
    ASSUME PageInv, Answered
    PROVE  PageInv'
<1>1. /\ now' = now /\ UNCHANGED beat /\ paused' = paused /\ doc' = doc
      /\ pages' = pages /\ cur' = cur /\ saved' \in {saved, Session}
  BY DEF Answered, browser
<1>2. ClockOK' /\ BeatOK' /\ HeartbeatSound' /\ hb' = hb
  BY <1>1, BeatKept
<1>3. StayInv
  BY DEF PageInv
<1>4. InStay(Session, hb)'
  <2>1. Session.pages = pages /\ Session.cur = cur
    BY DEF Session
  <2> QED BY <1>1, <1>2, <1>3, <2>1, SessionLands DEF StayInv
<1>5. saved' # None => InStay(saved', hb)
  BY <1>1, <1>3 DEF StayInv
<1>6. (saved # None => InStay(saved, hb))'
  BY <1>1, <1>2, <1>5, SavedLands
<1> QED BY <1>2, <1>4, <1>6 DEF PageInv, StayInv

LEMMA FireSound ==
    ASSUME PageInv, NEW b \in BeatStates, b.hb = hb, Fire(b),
           now' = now, paused' = paused, doc' = doc
    PROVE  PageInv'
<1>0. ClockOK /\ BeatOK /\ StayInv /\ ClockOK' /\ CapIsFinal /\ now \in Nat
  BY DEF PageInv, ClockOK, HeartbeatSound
<1>a. hb \in Counters /\ Counted(hb)
  BY <1>0, BeatIs
<1>1. CASE ShouldSendPing
  <2> DEFINE c == [b EXCEPT !.hb.ping = now]
             r == ScheduleNext(c)
  <2>1. Send /\ SetBeat(r)
    BY <1>1 DEF Fire
  <2>2. c \in BeatStates /\ c.hb = [hb EXCEPT !.ping = now]
    BY <1>0, <1>a DEF BeatStates, Counters
  <2> HIDE DEF c
  <2>3. Counted(c.hb) /\ StillFits(hb, c.hb) /\ (c.hb.max => ~c.hb.on)
    <3>1. /\ c.hb \in Counters /\ c.hb.acc = hb.acc /\ c.hb.start = hb.start /\ c.hb.on = hb.on
          /\ c.hb.max = hb.max /\ c.hb.pageAcc = hb.pageAcc /\ c.hb.pageStart = hb.pageStart
      BY <1>0, <1>a, <2>2 DEF Counters
    <3>2. Counted(c.hb)
      BY <1>a, <3>1 DEF Counted
    <3>3. StillFits(hb, c.hb)
      BY <3>1 DEF StillFits, Fits
    <3> QED BY <1>0, <3>1, <3>2, <3>3 DEF CapIsFinal
  <2>4. /\ r \in BeatStates /\ Counted(r.hb)
        /\ r.hb.max => ~r.hb.on
        /\ r.hb.on => r.handle # None
        /\ StillFits(c.hb, r.hb)
    BY <1>0, <2>2, <2>3, ScheduleSound
  <2>5. StillFits(hb, r.hb)
    BY <2>3, <2>4 DEF StillFits
  <2> HIDE DEF r
  <2>6. BeatOK' /\ hb' = r.hb /\ handle' = r.handle
    BY <2>1, <2>4, BeatLands
  <2>7. HeartbeatSound'
    BY <2>4, <2>6 DEF HeartbeatSound, KeepsBeating, CapIsFinal
  <2>8. pages' = UpdateCurrent(Session, hb).pages /\ cur' = cur /\ saved' = saved
    BY <2>1 DEF Send, BuildPayload, Session
  <2>9. InStay(Session, hb)'
    BY <1>0, <1>a, <2>5, <2>6, <2>8, SendSound DEF StayInv
  <2>10. (saved # None => InStay(saved, hb))'
    <3>1. saved # None => InStay(saved, r.hb)
      BY <1>0, <2>5, InStayKept DEF StayInv
    <3> QED BY <2>6, <2>8, <3>1, SavedLands
  <2> QED BY <1>0, <2>6, <2>7, <2>9, <2>10 DEF PageInv, StayInv
<1>2. CASE ~ShouldSendPing
  <2>1. SetBeat(b) /\ pages' = pages /\ cur' = cur /\ saved' = saved
    BY <1>2 DEF Fire, state
  <2>2. BeatOK' /\ hb' = hb
    BY <1>a, <2>1, BeatLands
  <2>3. HeartbeatSound'
    BY <1>0, <1>2, <2>2 DEF HeartbeatSound, KeepsBeating, CapIsFinal, ShouldSendPing
  <2>4. StayInv'
    BY <1>0, <2>1, <2>2, SameFits, StayKept
  <2> QED BY <1>0, <2>2, <2>3, <2>4 DEF PageInv
<1> QED BY <1>1, <1>2

LEMMA TimerFiresSound ==
    ASSUME PageInv, TimerFires
    PROVE  PageInv'
<1>1. now' = now /\ paused' = paused /\ doc' = doc
  BY DEF TimerFires, browser
<1>2. Beat \in BeatStates /\ Beat.hb = hb /\ Beat.orphans = orphans /\ orphans \in Seq(Nat)
  BY BeatIs DEF PageInv
<1>3. CASE Fire([Beat EXCEPT !.handle = None])
  <2> DEFINE b == [Beat EXCEPT !.handle = None]
  <2>1. b \in BeatStates /\ b.hb = hb
    BY <1>2 DEF BeatStates
  <2> QED BY <1>1, <1>3, <2>1, FireSound
<1>4. ASSUME NEW i \in DOMAIN orphans,
             Fire([Beat EXCEPT !.orphans = SubSeq(@, 1, i - 1) \o SubSeq(@, i + 1, Len(@))])
      PROVE  PageInv'
  <2> DEFINE o == SubSeq(orphans, 1, i - 1) \o SubSeq(orphans, i + 1, Len(orphans))
             b == [Beat EXCEPT !.orphans = o]
  <2>1. o \in Seq(Nat)
    <3>1. i \in 1..Len(orphans) /\ Len(orphans) \in Nat
      BY <1>2, LenProperties
    <3>2. SubSeq(orphans, 1, i - 1) \in Seq(Nat) /\ SubSeq(orphans, i + 1, Len(orphans)) \in Seq(Nat)
      <4>1. \A k \in 1..Len(orphans) : orphans[k] \in Nat
        BY <1>2, ElementOfSeq
      <4>2. \A k \in 1 .. i - 1 : orphans[k] \in Nat
        BY <3>1, <4>1
      <4>3. \A k \in i + 1 .. Len(orphans) : orphans[k] \in Nat
        BY <3>1, <4>1
      <4> QED BY <1>2, <3>1, <4>2, <4>3, SubSeqProperties
    <3> QED BY <3>2, ConcatProperties
  <2>2. Fire(b)
    BY <1>2, <1>4 DEF BeatStates
  <2> HIDE DEF o
  <2>3. b \in BeatStates /\ b.hb = hb
    BY <1>2, <2>1 DEF BeatStates
  <2> QED BY <1>1, <2>2, <2>3, FireSound
<1> QED BY <1>3, <1>4 DEF TimerFires

(* A session that fits goes on fitting as time passes. *)
LEMMA LaterInStay ==
    ASSUME ClockOK, NEW s, Counted(hb), InStay(s, hb), now' = now + 1, hb' = hb
    PROVE  /\ \A i \in 1..Len(s.pages) : s.pages[i].entered + s.pages[i].dur <= now'
           /\ \A t \in Nat : Fits(t, hb) => Fits(t, hb)'
           /\ \A i \in 1..Len(s.pages) : s.pages[i].entered \in Nat
<1>0. now \in Nat /\ s \in Sessions /\ hb \in Counters
  BY DEF ClockOK, InStay, Counted
<1>1. \A i \in 1..Len(s.pages) : s.pages[i].entered \in Nat /\ s.pages[i].dur \in Nat
  BY <1>0, SessionFields
<1>2. ASSUME NEW i \in 1..Len(s.pages) PROVE s.pages[i].entered + s.pages[i].dur <= now'
  <2>1. s.pages[i].entered + s.pages[i].dur <= now
    BY DEF InStay
  <2> QED BY <1>0, <1>1, <2>1
<1>3. hb.pageAcc \in Nat /\ hb.pageStart \in Nat /\ hb.on \in BOOLEAN
  BY <1>0 DEF Counters
<1>4. \A t \in Nat : Fits(t, hb) => Fits(t, hb)'
  BY <1>0, <1>3 DEF Fits
<1> QED BY <1>1, <1>2, <1>4

LEMMA TickSound ==
    ASSUME PageInv, Tick
    PROVE  PageInv'
<1>0. ClockOK /\ BeatOK /\ StayInv /\ HeartbeatSound /\ now \in Nat /\ MaxNow \in Nat
  BY SdkConstants DEF PageInv, ClockOK, SdkConstants
<1>1. /\ now' = now + 1 /\ now < MaxNow /\ hb' = hb /\ handle' = handle /\ orphans' = orphans
      /\ paused' = paused /\ doc' = doc /\ pages' = pages /\ cur' = cur /\ saved' = saved
  BY DEF Tick, browser, beat, state
<1>2. ClockOK'
  BY <1>0, <1>1 DEF ClockOK
<1>3. BeatOK'
  <2>1. Beat' \in BeatStates
    BY <1>0, <1>1 DEF BeatOK, Beat
  <2>2. hb \in Counters /\ Counted(hb)
    BY <1>0, BeatIs
  <2>3. /\ hb.start \in Nat /\ hb.pageStart \in Nat /\ hb.acc \in Nat /\ hb.on \in BOOLEAN
        /\ hb.start <= now /\ hb.pageStart <= now /\ hb.acc <= (IF hb.on THEN hb.start ELSE now)
    BY <2>2 DEF Counters, Counted
  <2>4. /\ hb.start <= now' /\ hb.pageStart <= now'
        /\ hb.acc <= (IF hb.on THEN hb.start ELSE now')
    BY <1>0, <1>1, <2>3
  <2>5. Counted(hb)'
    BY <1>1, <2>2, <2>4 DEF Counted
  <2> QED BY <2>1, <2>5 DEF BeatOK
<1>4. HeartbeatSound'
  BY <1>0, <1>1 DEF HeartbeatSound, KeepsBeating, CapIsFinal
<1>5. InStay(Session, hb)'
  <2>1. InStay(Session, hb) /\ Session' = Session
    BY <1>0, <1>1 DEF StayInv, Session
  <2>2. /\ \A i \in 1..Len(Session.pages) : Session.pages[i].entered + Session.pages[i].dur <= now'
        /\ \A t \in Nat : Fits(t, hb) => Fits(t, hb)'
        /\ \A i \in 1..Len(Session.pages) : Session.pages[i].entered \in Nat
    BY <1>0, <1>1, <2>1, LaterInStay DEF BeatOK
  <2>3. Session.cur # 0 => /\ Session.cur \in 1..Len(Session.pages)
                           /\ Fits(Session.pages[Session.cur].entered, hb)'
    BY <1>1, <2>1, <2>2 DEF InStay, Fits, Session
  <2> QED BY <1>1, <2>1, <2>2, <2>3 DEF InStay, Fits
<1>6. (saved # None => InStay(saved, hb))'
  <2> SUFFICES ASSUME saved # None PROVE InStay(saved, hb)'
    BY <1>1
  <2>1. InStay(saved, hb)
    BY <1>0 DEF StayInv
  <2>2. /\ \A i \in 1..Len(saved.pages) : saved.pages[i].entered + saved.pages[i].dur <= now'
        /\ \A t \in Nat : Fits(t, hb) => Fits(t, hb)'
        /\ \A i \in 1..Len(saved.pages) : saved.pages[i].entered \in Nat
    BY <1>0, <1>1, <2>1, LaterInStay DEF BeatOK
  <2>3. saved.cur # 0 => /\ saved.cur \in 1..Len(saved.pages)
                         /\ Fits(saved.pages[saved.cur].entered, hb)'
    BY <1>1, <2>1, <2>2 DEF InStay, Fits
  <2> QED BY <1>1, <2>1, <2>2, <2>3 DEF InStay, Fits
<1> QED BY <1>2, <1>3, <1>4, <1>5, <1>6 DEF PageInv, StayInv

-----------------------------------------------------------------------------
LEMMA PageInit == Init => PageInv
<1> SUFFICES ASSUME Init PROVE PageInv
  OBVIOUS
<1> DEFINE z == [hb |-> FreshBeat, handle |-> None, orphans |-> <<>>]
           b == Start(z)
<1>0. now = 0 /\ ClockOK
  BY SdkConstants DEF Init, ClockOK, SdkConstants
<1>1. z \in BeatStates /\ z.hb = FreshBeat
  BY <1>0, FreshDocument
<1>2. hb = b.hb /\ handle = b.handle /\ orphans = b.orphans
  BY DEF Init
<1> HIDE DEF z
<1>3. /\ b \in BeatStates /\ Counted(b.hb)
      /\ b.hb.max => ~b.hb.on
      /\ b.hb.on => b.handle # None
      /\ Blank(b.hb)
  BY <1>0, <1>1, StartSound
<1> HIDE DEF b
<1>4. BeatOK
  <2>1. BeatFields(b)
    BY <1>3, Fields
  <2>2. Beat \in BeatStates
    BY <1>2, <2>1 DEF Beat, BeatStates, BeatFields
  <2> QED BY <1>2, <1>3, <2>2 DEF BeatOK
<1>5. HeartbeatSound
  BY <1>2, <1>3 DEF HeartbeatSound, KeepsBeating, CapIsFinal
<1>6. InStay(Session, hb)
  <2> DEFINE v == [entered |-> 0, dur |-> 0]
  <2>0. pages = <<v>> /\ cur = 1
    BY DEF Init
  <2>1. Session.pages = <<v>> /\ Session.cur = 1
    BY <2>0 DEF Session
  <2>2. v \in Views /\ v.entered = 0 /\ v.dur = 0
    BY DEF Views
  <2> HIDE DEF v
  <2>3. <<v>> \in Seq(Views) /\ Len(<<v>>) = 1 /\ <<v>>[1] = v
    BY <2>2
  <2>4. Session \in Sessions
    <3>1. pages \in Seq(Views) /\ cur \in Nat
      BY <2>0, <2>3
    <3> QED BY <3>1 DEF Sessions, Session
  <2>5. Fits(0, hb)
    BY <1>0, <1>2, <1>3 DEF Blank
  <2> QED BY <1>0, <2>1, <2>2, <2>3, <2>4, <2>5 DEF InStay
<1>7. saved = None
  BY DEF Init
<1> QED BY <1>0, <1>4, <1>5, <1>6, <1>7 DEF PageInv, StayInv

LEMMA PageStep ==
    ASSUME PageInv, [Next]_vars
    PROVE  PageInv'
<1>1. CASE Hide \/ Blur \/ Freeze
  <2>1. Leave /\ now' = now
    BY <1>1 DEF Hide, Blur, Freeze, Event
  <2> QED BY <2>1, LeaveSound
<1>2. CASE Show \/ Focus \/ Thaw
  <2>1. ComeBack /\ now' = now
    BY <1>2 DEF Show, Focus, Thaw, Event
  <2> QED BY <2>1, ComeBackSound
<1>3. CASE Goal
  <2>1. Send /\ now' = now /\ UNCHANGED beat /\ paused' = paused /\ doc' = doc
    BY <1>3 DEF Goal, Event, browser
  <2> QED BY <2>1, SendKeeps
<1>4. CASE DebouncedSend
  <2>1. Send /\ now' = now /\ UNCHANGED beat /\ paused' = paused /\ doc' = doc
    BY <1>4 DEF DebouncedSend, browser
  <2> QED BY <2>1, SendKeeps
<1>5. CASE UNCHANGED vars
  <2>1. /\ now' = now /\ UNCHANGED beat /\ paused' = paused /\ doc' = doc
        /\ pages' = pages /\ cur' = cur /\ saved' = saved
    BY <1>5 DEF vars, beat
  <2>2. ClockOK' /\ BeatOK' /\ HeartbeatSound' /\ hb' = hb
    BY <2>1, BeatKept
  <2>3. StayInv'
    BY <2>1, <2>2, SameFits, StayKept DEF PageInv
  <2> QED BY <2>2, <2>3 DEF PageInv
<1> QED
  BY <1>1, <1>2, <1>3, <1>4, <1>5, UnloadSound, PageShowSound, NavigateSound, PauseSound,
     ResumeTrackingSound, ReloadSound, AnsweredSound, TimerFiresSound, TickSound DEF Next

LEMMA PageInvariant == Spec => []PageInv
<1>1. PageInv /\ [Next]_vars => PageInv'
  BY PageStep
<1> QED BY <1>1, PageInit, PTL DEF Spec

(* A visible page that counts its time has a heartbeat timer pending, and   *)
(* the cap on active time is final, however the browser orders its events. *)
THEOREM HeartbeatAlwaysSound == Spec => []HeartbeatSound
<1>1. PageInv => HeartbeatSound
  BY DEF PageInv
<1> QED BY <1>1, PageInvariant, PTL

(* No page view is credited with more time than has passed since it was     *)
(* entered, across blurs, caches, discards and restored snapshots.          *)
THEOREM DurationAlwaysWithinStay == Spec => []DurationWithinStay
<1>1. PageInv => DurationWithinStay
  <2> SUFFICES ASSUME PageInv, NEW i \in DOMAIN pages
               PROVE  pages[i].dur <= now - pages[i].entered
    BY DEF DurationWithinStay
  <2>1. Session \in Sessions /\ Session.pages = pages /\ now \in Nat
    BY DEF PageInv, StayInv, InStay, Session, ClockOK
  <2>2. i \in 1..Len(pages)
    BY <2>1, SessionFields
  <2>3. pages[i].entered \in Nat /\ pages[i].dur \in Nat
    BY <2>1, <2>2, SessionFields
  <2>4. pages[i].entered + pages[i].dur <= now
    BY <2>1, <2>2 DEF PageInv, StayInv, InStay
  <2> QED BY <2>1, <2>3, <2>4
<1> QED BY <1>1, PageInvariant, PTL

-----------------------------------------------------------------------------
(* The sender that the pages of all tabs hand their payloads to.  The      *)
(* inductive invariant follows a payload through the queue, the tabs and   *)
(* the network: while no two tabs race for the queue in localStorage, and  *)
(* unless a tab left it behind there, it is in one place at most, and      *)
(* where it waits to be sent again every earlier arrival is one the tab    *)
(* could not know of.                                                      *)


QueueItem == [n : 1 .. MaxMade, at : Nat]

TabFields ==
    {"inMemory", "memory", "io", "snap", "add", "event", "flushing", "todo", "failed"}

TabOK(y) ==
    /\ DOMAIN y = TabFields
    /\ y.io \in {Nil, "push", "clear", "merge"}
    /\ y.event \in BOOLEAN /\ y.flushing \in BOOLEAN /\ y.inMemory \in BOOLEAN
    /\ y.memory \in Seq(QueueItem)
    /\ y.snap \in Seq(QueueItem) /\ y.add \in Seq(QueueItem) /\ y.todo \in Seq(QueueItem)
    /\ y.failed \in Seq(QueueItem)
    /\ ~y.inMemory => y.memory = <<>>
    /\ y.io = Nil => y.snap = <<>> /\ y.add = <<>>
    /\ y.io \in {"clear", "merge"} => y.add = <<>> /\ y.todo = <<>> /\ y.flushing
    /\ y.io = "clear" => y.failed = <<>>
    /\ ~y.flushing => y.todo = <<>> /\ y.failed = <<>>

Fetches == [n : 1 .. MaxMade, tab : Tabs, at : {Nil} \cup Nat, got : BOOLEAN]

Tally == [1 .. MaxMade -> Nat]

SenderTyped ==
    /\ queue \in Seq(QueueItem)
    /\ tab = [t \in Tabs |-> tab[t]]
    /\ \A t \in Tabs : TabOK(tab[t])
    /\ sends \in SUBSET Fetches
    /\ clock \in Nat /\ made \in 0 .. MaxMade
    /\ got \in Tally /\ unsure \in Tally
    /\ gone \in [1 .. MaxMade -> {Nil} \cup Reasons]
    /\ raced \in BOOLEAN

(* A flush waits for what it has sent; what was received is counted. *)
SendsInv ==
    \A x \in sends :
        /\ x.at # Nil => tab[x.tab].flushing /\ tab[x.tab].io \notin {"clear", "merge"}
        /\ x.got => got[x.n] > 0

(* In peace one tab at a time is between a read and a write of             *)
(* localStorage, and every tab has read its queue as it is.                *)
AloneInv ==
    ~raced =>
        /\ \A t, u \in Tabs : Using(t) /\ Using(u) => t = u
        /\ \A t \in Tabs : tab[t].io # Nil => tab[t].snap = Stored(t)

(* The payloads a tab has in hand, those it keeps, and those on their way. *)
Loose(y) == Items(y.todo) \cup Items(y.failed) \cup Items(y.add)

TabItems(y) == Loose(y) \cup Items(y.memory)

Sent == {x.n : x \in sends}

(* Where a payload is kept, the readings of the queue aside. *)
Kept(n) == n \in Items(queue) \cup Sent \/ \E t \in Tabs : n \in TabItems(tab[t])

FoundInv ==
    ~raced => \A n \in 1 .. made : got[n] > 0 \/ Kept(n) \/ gone[n] # Nil

(* No payload is twice in a sequence, those in d aside. *)
Distinct(s, d) == \A i, j \in DOMAIN s : s[i].n = s[j].n => i = j \/ s[i].n \in d

LooseDistinct(y, d) ==
    /\ Distinct(y.todo, d) /\ Distinct(y.failed, d) /\ Distinct(y.add, d)
    /\ Items(y.todo) \cap Items(y.failed) \subseteq d
    /\ Items(y.add) \cap Items(y.todo) \subseteq d
    /\ Items(y.add) \cap Items(y.failed) \subseteq d

TabDistinct(y, d) ==
    /\ LooseDistinct(y, d) /\ Distinct(y.memory, d)
    /\ Loose(y) \cap Items(y.memory) \subseteq d

(* A payload is in one place, unless a tab left it behind in localStorage. *)
OnceInv ==
    ~raced =>
        /\ Distinct(queue, behind)
        /\ \A x, y \in sends : x.n = y.n => x = y \/ x.n \in behind
        /\ Items(queue) \cap Sent \subseteq behind
        /\ \A t \in Tabs : /\ TabDistinct(tab[t], behind)
                           /\ TabItems(tab[t]) \cap Items(queue) \subseteq behind
                           /\ TabItems(tab[t]) \cap Sent \subseteq behind
        /\ \A t, u \in Tabs : t # u => TabItems(tab[t]) \cap TabItems(tab[u]) \subseteq behind

(* A copy of n that the server has not received. *)
Unseen(n) ==
    \/ n \in Items(queue)
    \/ \E x \in sends : x.n = n /\ ~x.got
    \/ \E t \in Tabs : n \in TabItems(tab[t])

(* What is not built yet is nowhere. *)
FreshInv ==
    ~raced => \A n \in 1 .. MaxMade : n > made => ~Kept(n) /\ got[n] = 0 /\ unsure[n] = 0

CountInv ==
    ~raced => \A n \in (1 .. MaxMade) \ behind :
        /\ got[n] <= unsure[n] + 1
        /\ Unseen(n) => got[n] <= unsure[n]

SenderInv == SenderTyped /\ SendsInv /\ AloneInv /\ FoundInv /\ OnceInv /\ FreshInv /\ CountInv

-----------------------------------------------------------------------------
(* The operators on queues of items.                                       *)

(* A non-empty set of naturals has a least element. *)
LEMMA LeastNatural ==
    ASSUME NEW T \in SUBSET Nat, T # {}
    PROVE  \E m \in T : \A k \in T : m <= k
<1> DEFINE R == OpToRel(<, Nat)
<1>1. IsWellFoundedOn(R, Nat)
  BY NatLessThanWellFounded
<1>2. \A x, y \in Nat : <<x, y>> \in R <=> x < y
  BY DEF OpToRel
<1> HIDE DEF R
<1>3. PICK m \in T : \A k \in T : ~(<<k, m>> \in R)
  BY <1>1, WFMin
<1>4. ASSUME NEW k \in T PROVE m <= k
  <2>1. m \in Nat /\ k \in Nat /\ ~(k < m)
    BY <1>2, <1>3
  <2> QED
    BY <2>1
<1> QED
  BY <1>4

(* The empty queue. *)
LEMMA NoItems == Items(<<>>) = {} /\ \A d : Distinct(<<>>, d)
  BY DEF Items, Distinct

(* A queue of one item. *)
LEMMA OneItem == ASSUME NEW i PROVE Items(<<i>>) = {i.n} /\ \A d : Distinct(<<i>>, d)
  BY DEF Items, Distinct

(* Two queues one behind the other. *)
LEMMA ItemsJoined ==
    ASSUME NEW s \in Seq(QueueItem), NEW u \in Seq(QueueItem), NEW d
    PROVE  /\ s \o u \in Seq(QueueItem)
           /\ Items(s \o u) = Items(s) \cup Items(u)
           /\ Distinct(s, d) /\ Distinct(u, d) /\ Items(s) \cap Items(u) \subseteq d
                => Distinct(s \o u, d)
<1>1. PICK c : c = s \o u
  OBVIOUS
<1>2. /\ c \in Seq(QueueItem) /\ Len(c) = Len(s) + Len(u) /\ Len(s) \in Nat /\ Len(u) \in Nat
      /\ \A i \in 1 .. Len(s) : c[i] = s[i]
      /\ \A i \in 1 .. Len(u) : c[Len(s) + i] = u[i]
      /\ \A i \in (Len(s) + 1) .. Len(c) : c[i] = u[i - Len(s)] /\ i - Len(s) \in 1 .. Len(u)
  BY <1>1
<1>3. DOMAIN c = 1 .. Len(c) /\ DOMAIN s = 1 .. Len(s) /\ DOMAIN u = 1 .. Len(u)
  BY <1>2
<1>4. Items(c) \subseteq Items(s) \cup Items(u)
  <2>1. ASSUME NEW i \in DOMAIN c PROVE c[i].n \in Items(s) \cup Items(u)
    <3>1. CASE i <= Len(s)
      BY <1>2, <1>3, <3>1 DEF Items
    <3>2. CASE ~(i <= Len(s))
      <4>1. i - Len(s) \in DOMAIN u /\ c[i] = u[i - Len(s)]
        BY <1>2, <1>3, <3>2
      <4> QED
        BY <4>1 DEF Items
    <3> QED
      BY <3>1, <3>2
  <2> QED
    BY <2>1 DEF Items
<1>5. Items(s) \subseteq Items(c)
  BY <1>2, <1>3 DEF Items
<1>6. Items(u) \subseteq Items(c)
  <2>1. ASSUME NEW i \in DOMAIN u PROVE u[i].n \in Items(c)
    <3>1. Len(s) + i \in DOMAIN c /\ c[Len(s) + i] = u[i]
      BY <1>2, <1>3
    <3> QED
      BY <3>1 DEF Items
  <2> QED
    BY <2>1 DEF Items
<1>7. ASSUME Distinct(s, d), Distinct(u, d), Items(s) \cap Items(u) \subseteq d
      PROVE  Distinct(c, d)
  <2>1. SUFFICES ASSUME NEW i \in DOMAIN c, NEW j \in DOMAIN c, c[i].n = c[j].n, c[i].n \notin d
                 PROVE  i = j
    BY DEF Distinct
  <2>2. ASSUME NEW k \in DOMAIN c
        PROVE  \/ k \in DOMAIN s /\ c[k] = s[k] /\ c[k].n \in Items(s)
               \/ k > Len(s) /\ k - Len(s) \in DOMAIN u /\ c[k] = u[k - Len(s)] /\ c[k].n \in Items(u)
    <3>1. CASE k <= Len(s)
      BY <1>2, <1>3, <3>1 DEF Items
    <3>2. CASE ~(k <= Len(s))
      <4>1. k > Len(s) /\ k - Len(s) \in DOMAIN u /\ c[k] = u[k - Len(s)]
        BY <1>2, <1>3, <3>2
      <4> QED
        BY <4>1 DEF Items
    <3> QED
      BY <3>1, <3>2
  <2>3. CASE i \in DOMAIN s /\ c[i] = s[i] /\ j \in DOMAIN s /\ c[j] = s[j]
    BY <1>7, <2>1, <2>3 DEF Distinct
  <2>4. CASE /\ i - Len(s) \in DOMAIN u /\ c[i] = u[i - Len(s)]
             /\ j - Len(s) \in DOMAIN u /\ c[j] = u[j - Len(s)]
    <3>1. i - Len(s) = j - Len(s)
      BY <1>7, <2>1, <2>4 DEF Distinct
    <3> QED
      BY <1>2, <1>3, <3>1
  <2> QED
    BY <1>7, <2>1, <2>2, <2>3, <2>4
<1> QED
  BY <1>1, <1>2, <1>4, <1>5, <1>6, <1>7

(* An item behind a queue. *)
LEMMA ItemAppended ==
    ASSUME NEW s \in Seq(QueueItem), NEW i \in QueueItem, NEW d
    PROVE  /\ Append(s, i) \in Seq(QueueItem)
           /\ Items(Append(s, i)) = Items(s) \cup {i.n}
           /\ Distinct(s, d) /\ i.n \notin Items(s) \ d => Distinct(Append(s, i), d)
<1>1. <<i>> \in Seq(QueueItem) /\ Append(s, i) = s \o <<i>>
  OBVIOUS
<1>2. Items(<<i>>) = {i.n} /\ Distinct(<<i>>, d)
  BY OneItem
<1>3. /\ s \o <<i>> \in Seq(QueueItem)
      /\ Items(s \o <<i>>) = Items(s) \cup Items(<<i>>)
      /\ Distinct(s, d) /\ Distinct(<<i>>, d) /\ Items(s) \cap Items(<<i>>) \subseteq d
           => Distinct(s \o <<i>>, d)
  BY <1>1, ItemsJoined
<1> QED
  BY <1>1, <1>2, <1>3

(* A queue without its first item. *)
LEMMA HeadTaken ==
    ASSUME NEW s \in Seq(QueueItem), s # <<>>, NEW d
    PROVE  /\ Head(s) \in QueueItem /\ Tail(s) \in Seq(QueueItem)
           /\ Items(s) = {Head(s).n} \cup Items(Tail(s))
           /\ Distinct(s, d) => Distinct(Tail(s), d) /\ Head(s).n \notin Items(Tail(s)) \ d
<1>1. PICK c : c = Tail(s)
  OBVIOUS
<1>2. /\ Len(s) \in Nat \ {0} /\ c \in Seq(QueueItem) /\ Len(c) = Len(s) - 1 /\ Head(s) = s[1]
      /\ \A i \in 1 .. Len(c) : c[i] = s[i + 1]
      /\ DOMAIN s = 1 .. Len(s) /\ DOMAIN c = 1 .. Len(c)
      /\ \A i \in 1 .. Len(s) : s[i] \in QueueItem
  BY <1>1
<1>3. \A i \in DOMAIN s : i = 1 \/ (i - 1 \in DOMAIN c /\ c[i - 1] = s[i])
  BY <1>2
<1>4. \A i \in DOMAIN c : i + 1 \in DOMAIN s /\ c[i] = s[i + 1]
  BY <1>2
<1>5. Items(s) \subseteq {s[1].n} \cup Items(c)
  BY <1>3 DEF Items
<1>6. {s[1].n} \cup Items(c) \subseteq Items(s)
  <2>1. s[1].n \in Items(s)
    BY <1>2 DEF Items
  <2> QED
    BY <1>4, <2>1 DEF Items
<1>7. ASSUME Distinct(s, d) PROVE Distinct(c, d) /\ s[1].n \notin Items(c) \ d
  <2>1. ASSUME NEW i \in DOMAIN c, NEW j \in DOMAIN c, c[i].n = c[j].n, c[i].n \notin d
        PROVE  i = j
    <3>1. i + 1 = j + 1
      BY <1>4, <1>7, <2>1 DEF Distinct
    <3> QED
      BY <1>2, <3>1
  <2>2. ASSUME NEW i \in DOMAIN c, c[i].n = s[1].n, c[i].n \notin d PROVE FALSE
    <3>1. i + 1 = 1 /\ i >= 1 /\ i \in Nat
      BY <1>2, <1>4, <1>7, <2>2 DEF Distinct
    <3> QED
      BY <3>1
  <2> QED
    BY <2>1, <2>2 DEF Distinct, Items
<1> QED
  BY <1>1, <1>2, <1>5, <1>6, <1>7

(* saveQueue() keeps a part of the queue, in its order. *)
LEMMA TrimmedItems ==
    ASSUME NEW s \in Seq(QueueItem), NEW e
    PROVE  /\ Trimmed(s) \in Seq(QueueItem)
           /\ Items(Trimmed(s)) \subseteq Items(s)
           /\ Distinct(s, e) => Distinct(Trimmed(s), e)
<1>1. CASE ~(Len(s) > MaxQueue)
  BY <1>1 DEF Trimmed
<1>2. CASE Len(s) > MaxQueue
  <2> DEFINE d == Len(s) - MaxQueue
  <2>1. PICK c : c = SubSeq(s, Len(s) - MaxQueue + 1, Len(s))
    OBVIOUS
  <2>2. MaxQueue \in Nat /\ Len(s) \in Nat /\ d \in Nat /\ d + 1 \in 1 .. (Len(s) + 1)
    BY <1>2, SenderConstants
  <2>3. c \in Seq(QueueItem) /\ Len(c) = Len(s) - d /\ \A i \in 1 .. Len(c) : c[i] = s[d + i]
    <3>1. c = SubSeq(s, d + 1, Len(s))
      BY <2>1
    <3> HIDE DEF d
    <3>2. c \in Seq(QueueItem) /\ Len(c) = Len(s) - d
      BY <2>2, <3>1
    <3>3. \A i \in 1 .. Len(c) : c[i] = s[d + 1 + i - 1]
      BY <2>2, <3>1, <3>2
    <3>4. \A i \in 1 .. Len(c) : d + 1 + i - 1 = d + i
      BY <2>2
    <3> QED
      BY <3>2, <3>3, <3>4
  <2>4. \A i \in DOMAIN c : d + i \in DOMAIN s /\ c[i] = s[d + i] /\ i \in Nat
    BY <2>2, <2>3
  <2> HIDE DEF d
  <2>5. Items(c) \subseteq Items(s)
    BY <2>4 DEF Items
  <2>6. ASSUME Distinct(s, e), NEW i \in DOMAIN c, NEW j \in DOMAIN c, c[i].n = c[j].n,
               c[i].n \notin e
        PROVE  i = j
    <3>1. d + i = d + j
      BY <2>4, <2>6 DEF Distinct
    <3> QED
      BY <2>2, <2>4, <3>1
  <2> QED
    BY <1>2, <2>1, <2>3, <2>5, <2>6 DEF Trimmed, Distinct
<1> QED
  BY <1>1, <1>2

(* f[k] is what is worth sending of the first k items. *)
KeptBy(s, m, f) ==
    f = [k \in 0 .. m |-> IF k = 0 THEN <<>>
                          ELSE IF Expired(s[k]) THEN f[k - 1] ELSE Append(f[k - 1], s[k])]

(* The recursion of Unexpired has a solution, by the least length that had none. *)
LEMMA KeptExists == ASSUME NEW s, NEW l \in Nat PROVE \E f : KeptBy(s, l, f)
<1> DEFINE T == {k \in Nat : ~\E f : KeptBy(s, k, f)}
<1>1. SUFFICES T = {}
  OBVIOUS
<1>2. SUFFICES ASSUME T # {} PROVE FALSE
  OBVIOUS
<1>3. PICK m \in T : \A k \in T : m <= k
  <2>1. T \in SUBSET Nat
    OBVIOUS
  <2> HIDE DEF T
  <2> QED
    BY <1>2, <2>1, LeastNatural
<1>4. m # 0
  <2>1. PICK f : f = [k \in 0 .. 0 |-> <<>>]
    OBVIOUS
  <2>2. f = [k \in 0 .. 0 |-> IF k = 0 THEN <<>>
                             ELSE IF Expired(s[k]) THEN f[k - 1] ELSE Append(f[k - 1], s[k])]
    BY <2>1
  <2> QED
    BY <2>2 DEF KeptBy
<1>5. m - 1 \in Nat /\ m \in Nat /\ m - 1 \notin T
  BY <1>3, <1>4
<1>6. PICK f : KeptBy(s, m - 1, f)
  BY <1>5
<1>7. PICK g : g = [k \in 0 .. m |->
                      IF k = m THEN IF Expired(s[m]) THEN f[m - 1] ELSE Append(f[m - 1], s[m])
                      ELSE f[k]]
  OBVIOUS
<1>8. ASSUME NEW k \in 0 .. m
      PROVE  g[k] = IF k = 0 THEN <<>>
                    ELSE IF Expired(s[k]) THEN g[k - 1] ELSE Append(g[k - 1], s[k])
  <2>1. CASE k = 0
    BY <1>4, <1>5, <1>6, <1>7, <2>1 DEF KeptBy
  <2>2. CASE k = m
    BY <1>4, <1>5, <1>7, <2>2
  <2>3. CASE k # 0 /\ k # m
    <3>1. k \in 0 .. m - 1 /\ k - 1 \in 0 .. m /\ k - 1 # m
      BY <1>5, <2>3
    <3>2. g[k] = f[k] /\ g[k - 1] = f[k - 1]
      BY <1>7, <2>3, <3>1
    <3>3. f[k] = IF Expired(s[k]) THEN f[k - 1] ELSE Append(f[k - 1], s[k])
      BY <1>6, <2>3, <3>1 DEF KeptBy
    <3> QED
      BY <2>3, <3>2, <3>3
  <2> QED
    BY <2>1, <2>2, <2>3
<1>9. KeptBy(s, m, g)
  BY <1>7, <1>8 DEF KeptBy
<1> QED
  BY <1>3, <1>9

(* Unexpired is the last value of that solution. *)
LEMMA UnexpiredIs ==
    ASSUME NEW s, Len(s) \in Nat
    PROVE  \E f : KeptBy(s, Len(s), f) /\ Unexpired(s) = f[Len(s)]
<1>1. \E f : KeptBy(s, Len(s), f)
  BY KeptExists
<1> QED
  BY <1>1 DEF KeptBy, Unexpired

(* What handleOnline() does not send of a queue is too old. *)
LEMMA UnexpiredItems ==
    ASSUME NEW s \in Seq(QueueItem), NEW d
    PROVE  /\ Unexpired(s) \in Seq(QueueItem)
           /\ Items(Unexpired(s)) \subseteq Items(s)
           /\ Items(s) \subseteq Items(Unexpired(s)) \cup ExpiredOf(s)
           /\ Distinct(s, d) => Distinct(Unexpired(s), d)
<1>1. Len(s) \in Nat /\ DOMAIN s = 1 .. Len(s) /\ \A k \in 1 .. Len(s) : s[k] \in QueueItem
  OBVIOUS
<1>2. PICK f : KeptBy(s, Len(s), f) /\ Unexpired(s) = f[Len(s)]
  BY <1>1, UnexpiredIs
<1> DEFINE First(k) == {s[j].n : j \in 1 .. k}
           Good(k) == /\ f[k] \in Seq(QueueItem)
                      /\ Items(f[k]) \subseteq First(k)
                      /\ First(k) \subseteq Items(f[k]) \cup ExpiredOf(s)
                      /\ Distinct(s, d) => Distinct(f[k], d)
           T == {k \in 0 .. Len(s) : ~Good(k)}
<1>3. T = {}
  <2>1. SUFFICES ASSUME T # {} PROVE FALSE
    OBVIOUS
  <2>2. PICK m \in T : \A k \in T : m <= k
    <3>1. T \in SUBSET Nat
      OBVIOUS
    <3> HIDE DEF T
    <3> QED
      BY <2>1, <3>1, LeastNatural
  <2>3. Good(0)
    <3>1. f[0] = <<>>
      BY <1>1, <1>2 DEF KeptBy
    <3> QED
      BY <3>1, NoItems
  <2>4. /\ m \in 1 .. Len(s) /\ m \in Nat /\ m - 1 \in 0 .. Len(s)
        /\ m \in DOMAIN s /\ s[m] \in QueueItem
    <3>1. m \in 0 .. Len(s) /\ m # 0
      <4> HIDE DEF Good
      <4> QED
        BY <2>2, <2>3
    <3> QED
      BY <1>1, <3>1
  <2>5. Good(m - 1)
    <3>1. m - 1 \notin T
      <4> HIDE DEF T
      <4> QED
        BY <2>2, <2>4
    <3> HIDE DEF Good
    <3> QED
      BY <2>4, <3>1
  <2>6. f[m] = IF Expired(s[m]) THEN f[m - 1] ELSE Append(f[m - 1], s[m])
    <3>1. m \in 0 .. Len(s) /\ m # 0
      BY <2>4
    <3> HIDE DEF Good, T, First
    <3> QED
      BY <1>2, <3>1 DEF KeptBy
  <2>7. First(m) = First(m - 1) \cup {s[m].n}
    <3>1. 1 .. m = (1 .. (m - 1)) \cup {m}
      BY <2>4
    <3> QED
      BY <3>1
  <2>8. Distinct(s, d) => s[m].n \notin First(m - 1) \ d
    <3>1. ASSUME Distinct(s, d), NEW j \in 1 .. (m - 1) PROVE s[j].n # s[m].n \/ s[m].n \in d
      <4>1. j \in DOMAIN s /\ j # m
        BY <1>1, <2>4
      <4> QED
        BY <2>4, <3>1, <4>1 DEF Distinct
    <3> QED
      BY <3>1
  <2> HIDE DEF First
  <2>9. CASE Expired(s[m])
    <3>1. s[m].n \in ExpiredOf(s)
      BY <2>4, <2>9 DEF ExpiredOf
    <3> QED
      BY <2>2, <2>5, <2>6, <2>7, <2>9, <3>1
  <2>10. CASE ~Expired(s[m])
    <3>1. /\ Append(f[m - 1], s[m]) \in Seq(QueueItem)
          /\ Items(Append(f[m - 1], s[m])) = Items(f[m - 1]) \cup {s[m].n}
          /\ Distinct(f[m - 1], d) /\ s[m].n \notin Items(f[m - 1]) \ d
               => Distinct(Append(f[m - 1], s[m]), d)
      BY <2>4, <2>5, ItemAppended
    <3> QED
      BY <2>2, <2>5, <2>6, <2>7, <2>8, <2>10, <3>1
  <2> QED
    BY <2>9, <2>10
<1>4. Good(Len(s))
  <2>1. Len(s) \in 0 .. Len(s)
    BY <1>1
  <2> HIDE DEF Good
  <2> QED
    BY <1>3, <2>1
<1>5. First(Len(s)) = Items(s)
  BY <1>1 DEF Items
<1> QED
  BY <1>2, <1>4, <1>5

-----------------------------------------------------------------------------
(* How each part of the invariant survives a step.                         *)

(* A step of one tab leaves the others as they are. *)
LEMMA OneTab ==
    ASSUME SenderTyped, NEW t \in Tabs, NEW y, tab' = [tab EXCEPT ![t] = y]
    PROVE  /\ tab' = [u \in Tabs |-> tab'[u]]
           /\ tab'[t] = y
           /\ \A u \in Tabs \ {t} : tab'[u] = tab[u]
  BY DEF SenderTyped

(* The items of a well-typed tab. *)
LEMMA ItemsOK == ASSUME NEW s \in Seq(QueueItem) PROVE Items(s) \subseteq 1 .. MaxMade
<1>1. \A k \in DOMAIN s : s[k] \in QueueItem
  OBVIOUS
<1> QED
  BY <1>1 DEF Items, QueueItem

(* What a tab keeps are payloads that can be built. *)
LEMMA TabItemsOK ==
    ASSUME NEW y, TabOK(y)
    PROVE  /\ TabItems(y) \subseteq 1 .. MaxMade
           /\ y.io = Nil => Loose(y) = Items(y.todo) \cup Items(y.failed)
<1>1. Items(y.todo) \subseteq 1 .. MaxMade /\ Items(y.failed) \subseteq 1 .. MaxMade
      /\ Items(y.add) \subseteq 1 .. MaxMade /\ Items(y.memory) \subseteq 1 .. MaxMade
  BY ItemsOK DEF TabOK
<1> QED
  BY <1>1, NoItems DEF TabItems, Loose, TabOK

(* What is distinct but for d is so but for more. *)
LEMMA DistinctBut ==
    ASSUME NEW d, NEW e, d \subseteq e
    PROVE  /\ \A q : Distinct(q, d) => Distinct(q, e)
           /\ \A y : TabDistinct(y, d) => TabDistinct(y, e)
<1>1. \A q : Distinct(q, d) => Distinct(q, e)
  BY DEF Distinct
<1> QED
  BY <1>1 DEF TabDistinct, LooseDistinct

(* A tab that reads the queue is alone with it, or the tabs race. *)
LEMMA AloneRead ==
    ASSUME SenderTyped, AloneInv, NEW t \in Tabs, NEW y, tab' = [tab EXCEPT ![t] = y],
           y.inMemory = tab[t].inMemory, y.memory = tab[t].memory,
           y.snap = Stored(t), queue' = queue,
           raced' = (raced \/ (~tab[t].inMemory /\ \E x \in Tabs \ {t} : Using(x)))
    PROVE  AloneInv'
<1>1. SUFFICES ASSUME ~raced' PROVE AloneInv'
  BY DEF AloneInv
<1>2. /\ \A u \in Tabs \ {t} : tab'[u] = tab[u]
      /\ tab'[t] = y
  BY OneTab
<1>3. \A u \in Tabs : Stored(u)' = Stored(u)
  BY <1>2 DEF Stored
<1>4. \A u \in Tabs : tab'[u].io # Nil => tab'[u].snap = Stored(u)'
  BY <1>1, <1>2, <1>3 DEF AloneInv
<1>5. /\ \A u \in Tabs \ {t} : Using(u)' <=> Using(u)
      /\ Using(t)' => ~tab[t].inMemory
  BY <1>2 DEF Using
<1>6. \A u, v \in Tabs : Using(u)' /\ Using(v)' => u = v
  BY <1>1, <1>5 DEF AloneInv
<1> QED
  BY <1>4, <1>6 DEF AloneInv

(* A tab that has written the queue leaves it alone, and one that is not   *)
(* alone with localStorage has not written there.                          *)
LEMMA AloneWrote ==
    ASSUME SenderTyped, AloneInv, NEW t \in Tabs, NEW y, tab' = [tab EXCEPT ![t] = y],
           tab[t].io # Nil, y.io = Nil, raced' = raced, tab[t].inMemory => queue' = queue
    PROVE  AloneInv'
<1>1. SUFFICES ASSUME ~raced PROVE AloneInv'
  BY DEF AloneInv
<1>2. /\ \A u \in Tabs \ {t} : tab'[u] = tab[u]
      /\ tab'[t] = y
  BY OneTab
<1>3. \A u \in Tabs : Using(u)' => u # t /\ Using(u)
  BY <1>2 DEF Using
<1>4. \A u, v \in Tabs : Using(u)' /\ Using(v)' => u = v
  BY <1>1, <1>3 DEF AloneInv
<1>5. ASSUME NEW u \in Tabs, tab'[u].io # Nil PROVE tab'[u].snap = Stored(u)'
  <2>1. u # t /\ tab'[u] = tab[u] /\ tab[u].snap = Stored(u)
    BY <1>1, <1>2, <1>5 DEF AloneInv
  <2>2. CASE queue' = queue
    BY <2>1, <2>2 DEF Stored
  <2>3. CASE queue' # queue
    <3>1. Using(t) /\ ~Using(u)
      BY <1>1, <2>1, <2>3 DEF AloneInv, Using
    <3>2. tab[u].inMemory
      BY <1>5, <2>1, <3>1 DEF Using
    <3> QED
      BY <2>1, <3>2 DEF Stored
  <2> QED
    BY <2>2, <2>3
<1> QED
  BY <1>4, <1>5 DEF AloneInv

(* Nothing happens between the tabs and the queue. *)
LEMMA AloneKept ==
    ASSUME AloneInv, queue' = queue, raced' = raced,
           \A u \in Tabs : /\ tab'[u].io = tab[u].io /\ tab'[u].snap = tab[u].snap
                           /\ tab'[u].inMemory = tab[u].inMemory
                           /\ tab'[u].memory = tab[u].memory
    PROVE  AloneInv'
<1>1. \A u \in Tabs : Stored(u)' = Stored(u) /\ (Using(u)' <=> Using(u))
  BY DEF Stored, Using
<1> QED
  BY <1>1 DEF AloneInv

(* Nothing is lost when what is kept stays, arrives, or is given up. *)
LEMMA FoundMoved ==
    ASSUME SenderTyped, FoundInv, ~raced' => ~raced, made' \in Nat,
           \A n \in 1 .. made' : \/ n \in 1 .. made
                                 \/ Kept(n)' \/ got'[n] > 0 \/ gone'[n] # Nil,
           \A n \in 1 .. made : got[n] > 0 => got'[n] > 0,
           \A n \in 1 .. made : gone[n] # Nil => gone'[n] # Nil,
           \A n \in 1 .. made : ~raced' /\ Kept(n) => Kept(n)' \/ got'[n] > 0 \/ gone'[n] # Nil
    PROVE  FoundInv'
  BY DEF FoundInv

(* What is given up stays given up. *)
LEMMA GivenUp ==
    ASSUME SenderTyped, NEW ns, NEW why \in Reasons, NEW n \in 1 .. MaxMade
    PROVE  /\ gone[n] # Nil => GiveUp(gone, ns, why)[n] # Nil
           /\ n \in ns => GiveUp(gone, ns, why)[n] # Nil
  BY SenderConstants DEF GiveUp

(* The reasons are reasons. *)
LEMMA GivenUpTyped ==
    ASSUME SenderTyped, NEW ns, NEW why \in Reasons
    PROVE  GiveUp(gone, ns, why) \in [1 .. MaxMade -> {Nil} \cup Reasons]
  BY DEF GiveUp, SenderTyped

(* What the queue, the network and one tab keep, moves between them. *)
LEMMA OnceMoved ==
    ASSUME SenderTyped, OnceInv, FreshInv, ~raced' => ~raced, NEW t \in Tabs,
           behind \subseteq behind',
           \A u \in Tabs \ {t} : tab'[u] = tab[u],
           ~raced' => /\ Distinct(queue', behind')
                      /\ \A x, y \in sends' : x.n = y.n => x = y \/ x.n \in behind'
                      /\ Items(queue') \cap Sent' \subseteq behind'
                      /\ TabDistinct(tab'[t], behind')
                      /\ TabItems(tab'[t]) \cap Items(queue') \subseteq behind'
                      /\ TabItems(tab'[t]) \cap Sent' \subseteq behind',
           ~raced' => \A n \in Items(queue') \cup Sent' \cup TabItems(tab'[t]) :
              \/ n \in Items(queue) \cup Sent \cup TabItems(tab[t])
              \/ n \in 1 .. MaxMade /\ n > made
    PROVE  OnceInv'
<1>1. SUFFICES ASSUME ~raced' PROVE OnceInv'
  BY DEF OnceInv
<1> DEFINE New == Items(queue') \cup Sent' \cup TabItems(tab'[t])
           Old == Items(queue) \cup Sent \cup TabItems(tab[t])
<1>2. ASSUME NEW u \in Tabs \ {t}
      PROVE  /\ TabDistinct(tab'[u], behind')
             /\ TabItems(tab'[u]) \cap New \subseteq behind'
  <2>1. /\ tab'[u] = tab[u] /\ TabDistinct(tab[u], behind)
        /\ TabItems(tab[u]) \cap Old \subseteq behind
    BY <1>1, <1>2 DEF OnceInv
  <2>2. \A n \in 1 .. MaxMade : n > made => n \notin TabItems(tab[u])
    BY <1>1, <1>2 DEF FreshInv, Kept
  <2>3. TabDistinct(tab[u], behind')
    BY <2>1, DistinctBut
  <2> QED
    BY <1>1, <2>1, <2>2, <2>3
<1>3. ASSUME NEW u \in Tabs \ {t}, NEW v \in Tabs \ {t}, u # v
      PROVE  TabItems(tab'[u]) \cap TabItems(tab'[v]) \subseteq behind'
  BY <1>1, <1>3 DEF OnceInv
<1>4. ASSUME NEW u \in Tabs
      PROVE  /\ TabDistinct(tab'[u], behind')
             /\ TabItems(tab'[u]) \cap Items(queue') \subseteq behind'
             /\ TabItems(tab'[u]) \cap Sent' \subseteq behind'
  <2>1. CASE u = t
    BY <1>1, <2>1
  <2>2. CASE u # t
    BY <1>2, <2>2
  <2> QED
    BY <2>1, <2>2
<1>5. ASSUME NEW u \in Tabs, NEW v \in Tabs, u # v
      PROVE  TabItems(tab'[u]) \cap TabItems(tab'[v]) \subseteq behind'
  <2>1. CASE u = t
    BY <1>2, <1>5, <2>1
  <2>2. CASE v = t
    BY <1>2, <1>5, <2>2
  <2>3. CASE u # t /\ v # t
    BY <1>3, <1>5, <2>3
  <2> QED
    BY <2>1, <2>2, <2>3
<1> HIDE DEF New, Old
<1>6. /\ Distinct(queue', behind') /\ Items(queue') \cap Sent' \subseteq behind'
      /\ \A x, y \in sends' : x.n = y.n => x = y \/ x.n \in behind'
  BY <1>1
<1> QED
  BY <1>4, <1>5, <1>6 DEF OnceInv

(* What is not built is not moved. *)
LEMMA FreshMoved ==
    ASSUME SenderTyped, FreshInv, ~raced' => ~raced, made' >= made, made' \in Nat, NEW t \in Tabs,
           \A u \in Tabs \ {t} : tab'[u] = tab[u],
           ~raced' => \A n \in Items(queue') \cup Sent' \cup TabItems(tab'[t]) : n > made' => Kept(n),
           \A n \in 1 .. MaxMade : n > made' => got'[n] = got[n] /\ unsure'[n] = unsure[n]
    PROVE  FreshInv'
<1>1. SUFFICES ASSUME ~raced', NEW n \in 1 .. MaxMade, n > made'
               PROVE  ~Kept(n)' /\ got'[n] = 0 /\ unsure'[n] = 0
  BY DEF FreshInv
<1>2. n > made
  BY <1>1 DEF SenderTyped
<1>3. ~Kept(n) /\ got[n] = 0 /\ unsure[n] = 0
  BY <1>1, <1>2 DEF FreshInv
<1>4. \A u \in Tabs : n \notin TabItems(tab'[u])
  BY <1>1, <1>3 DEF Kept
<1> QED
  BY <1>1, <1>3, <1>4 DEF Kept

(* A payload that is kept is kept unseen, or is on its way and received. *)
LEMMA UnseenIsKept == ASSUME NEW n, Unseen(n) PROVE Kept(n)
  BY DEF Unseen, Kept, Sent

(* Payloads move, and nothing is received. *)
LEMMA CountMoved ==
    ASSUME SenderTyped, CountInv, FreshInv, ~raced' => ~raced, got' = got, unsure' = unsure,
           behind \subseteq behind',
           ~raced' => \A n \in 1 .. MaxMade : Unseen(n)' => Unseen(n) \/ n > made
    PROVE  CountInv'
<1>1. SUFFICES ASSUME ~raced', NEW n \in (1 .. MaxMade) \ behind'
               PROVE  got'[n] <= unsure'[n] + 1 /\ (Unseen(n)' => got'[n] <= unsure'[n])
  BY DEF CountInv
<1>2. got[n] \in Nat /\ unsure[n] \in Nat
  BY DEF SenderTyped, Tally
<1>3. got[n] <= unsure[n] + 1 /\ (Unseen(n) => got[n] <= unsure[n])
  BY <1>1 DEF CountInv
<1>4. n > made => got[n] = 0
  BY <1>1 DEF FreshInv
<1> QED
  BY <1>1, <1>2, <1>3, <1>4

(* What a tab sees of the queue are items. *)
LEMMA StoredTyped == ASSUME SenderTyped, NEW t \in Tabs PROVE Stored(t) \in Seq(QueueItem)
  BY DEF SenderTyped, TabOK, Stored

(* enqueue() up to the write: the queue is read, the payload in hand. *)
LEMMA EnqueueShape ==
    ASSUME SenderTyped, NEW t \in Tabs, Free(t), NEW n \in 1 .. MaxMade, Enqueue(t, n)
    PROVE  \E y : /\ tab' = [tab EXCEPT ![t] = y] /\ TabOK(y)
                  /\ y.io = "push" /\ y.snap = Stored(t) /\ y.flushing = tab[t].flushing
                  /\ y.inMemory = tab[t].inMemory /\ y.memory = tab[t].memory
                  /\ TabItems(y) = TabItems(tab[t]) \cup {n}
                  /\ \A d : TabDistinct(tab[t], d) /\ n \notin TabItems(tab[t]) \ d
                             => TabDistinct(y, d)
<1>1. PICK i : i = [n |-> n, at |-> clock]
  OBVIOUS
<1>2. i \in QueueItem /\ i.n = n
  BY <1>1 DEF QueueItem, SenderTyped
<1>3. PICK z : z = [tab[t] EXCEPT !.io = "push", !.add = <<i>>]
  OBVIOUS
<1>4. PICK y : y = [z EXCEPT !.snap = Stored(t)]
  OBVIOUS
<1>5. tab' = [tab EXCEPT ![t] = y]
  BY <1>1, <1>3, <1>4 DEF Enqueue, Read
<1>6. TabOK(tab[t]) /\ Stored(t) \in Seq(QueueItem) /\ tab[t].io = Nil
  BY StoredTyped DEF SenderTyped, Free
<1>7. /\ DOMAIN y = TabFields
      /\ y.io = "push" /\ y.snap = Stored(t) /\ y.add = <<i>> /\ y.event = tab[t].event
      /\ y.inMemory = tab[t].inMemory /\ y.memory = tab[t].memory
      /\ y.flushing = tab[t].flushing /\ y.todo = tab[t].todo /\ y.failed = tab[t].failed
  BY <1>3, <1>4, <1>6 DEF TabOK, TabFields
<1>8. TabOK(y)
  BY <1>2, <1>6, <1>7, SenderConstants DEF TabOK
<1>9. Items(y.add) = {n} /\ \A d : Distinct(y.add, d)
  BY <1>2, <1>7, OneItem
<1>10. Loose(tab[t]) = Items(tab[t].todo) \cup Items(tab[t].failed)
  BY <1>6, TabItemsOK
<1>11. Loose(y) = Loose(tab[t]) \cup {n} /\ TabItems(y) = TabItems(tab[t]) \cup {n}
  BY <1>7, <1>9, <1>10 DEF TabItems, Loose
<1>12. ASSUME NEW d, TabDistinct(tab[t], d), n \notin TabItems(tab[t]) \ d
       PROVE  TabDistinct(y, d)
  <2>1. LooseDistinct(y, d)
    BY <1>7, <1>9, <1>10, <1>12 DEF TabDistinct, LooseDistinct, TabItems
  <2> QED
    BY <1>7, <1>11, <1>12, <2>1 DEF TabDistinct, TabItems
<1> QED
  BY <1>5, <1>7, <1>8, <1>11, <1>12

(* A flush and its answers, as one tab changes otherwise. *)
LEMMA SendsMoved ==
    ASSUME SenderTyped, SendsInv, NEW t \in Tabs, NEW y, tab' = [tab EXCEPT ![t] = y],
           y.flushing = tab[t].flushing, y.io \notin {"clear", "merge"},
           sends' \subseteq sends, \A x \in sends' : got'[x.n] = got[x.n]
    PROVE  SendsInv'
<1>1. SUFFICES ASSUME NEW x \in sends'
               PROVE  /\ x.at # Nil => /\ tab'[x.tab].flushing
                                        /\ tab'[x.tab].io \notin {"clear", "merge"}
                      /\ x.got => got'[x.n] > 0
  BY DEF SendsInv
<1>2. x \in sends /\ x.tab \in Tabs
  BY <1>1 DEF SenderTyped, Fetches
<1>3. (x.tab # t => tab'[x.tab] = tab[x.tab]) /\ (x.tab = t => tab'[x.tab] = y)
  BY <1>2, OneTab
<1> QED
  BY <1>1, <1>2, <1>3 DEF SendsInv

(* A payload built while the browser is offline. *)
LEMMA EnqueueBuilt ==
    ASSUME SenderInv, NEW t \in Tabs, Free(t), Build, Enqueue(t, made'),
           UNCHANGED <<queue, sends, clock, got, unsure, gone, behind>>
    PROVE  SenderInv'
<1>0. /\ SenderTyped /\ SendsInv /\ AloneInv /\ FoundInv /\ OnceInv /\ FreshInv /\ CountInv
      /\ made \in Nat /\ MaxMade \in Nat
  BY SenderConstants DEF SenderInv, SenderTyped
<1>1. /\ made' = made + 1 /\ made' \in 1 .. MaxMade /\ made' \in Nat /\ made' > made
      /\ raced' = (raced \/ (~tab[t].inMemory /\ \E x \in Tabs \ {t} : Using(x)))
  BY <1>0 DEF Build, Enqueue, Read
<1>2. PICK y : /\ tab' = [tab EXCEPT ![t] = y] /\ TabOK(y)
               /\ y.io = "push" /\ y.snap = Stored(t) /\ y.flushing = tab[t].flushing
               /\ y.inMemory = tab[t].inMemory /\ y.memory = tab[t].memory
               /\ TabItems(y) = TabItems(tab[t]) \cup {made'}
               /\ \A d : TabDistinct(tab[t], d) /\ made' \notin TabItems(tab[t]) \ d
                          => TabDistinct(y, d)
  BY <1>0, <1>1, EnqueueShape
<1>3. /\ tab' = [u \in Tabs |-> tab'[u]] /\ tab'[t] = y
      /\ \A u \in Tabs \ {t} : tab'[u] = tab[u]
  BY <1>0, <1>2, OneTab
<1>4. SenderTyped'
  <2>1. raced' \in BOOLEAN
    BY <1>0, <1>1 DEF SenderTyped
  <2>2. \A u \in Tabs : TabOK(tab'[u])
    BY <1>0, <1>2, <1>3 DEF SenderTyped
  <2> QED
    BY <1>0, <1>1, <1>3, <2>1, <2>2 DEF SenderTyped
<1>5. SendsInv'
  BY <1>0, <1>2, SendsMoved
<1>6. AloneInv'
  BY <1>0, <1>1, <1>2, AloneRead
<1>7. (~raced' => ~raced) /\ Sent' = Sent
  BY <1>1 DEF Sent
<1>8. FoundInv'
  <2>1. \A n : n = made' => Kept(n)'
    BY <1>2, <1>3 DEF Kept
  <2>2. \A n \in 1 .. made' : n \in 1 .. made \/ n = made'
    BY <1>0, <1>1
  <2>3. \A n : Kept(n) => Kept(n)'
    BY <1>2, <1>3, <1>7 DEF Kept
  <2> QED
    BY <1>0, <1>1, <1>7, <2>1, <2>2, <2>3, FoundMoved
<1>9. ~raced' => ~Kept(made')
  BY <1>0, <1>1, <1>7 DEF FreshInv
<1>10. OnceInv'
  <2>1. ASSUME ~raced'
        PROVE  /\ Distinct(queue', behind')
               /\ \A a, b \in sends' : a.n = b.n => a = b \/ a.n \in behind'
               /\ Items(queue') \cap Sent' \subseteq behind'
               /\ TabDistinct(tab'[t], behind')
               /\ TabItems(tab'[t]) \cap Items(queue') \subseteq behind'
               /\ TabItems(tab'[t]) \cap Sent' \subseteq behind'
    BY <1>0, <1>2, <1>3, <1>7, <1>9, <2>1 DEF OnceInv, Kept
  <2>2. \A n \in Items(queue') \cup Sent' \cup TabItems(tab'[t]) :
           \/ n \in Items(queue) \cup Sent \cup TabItems(tab[t])
           \/ n \in 1 .. MaxMade /\ n > made
    BY <1>1, <1>2, <1>3, <1>7
  <2> QED
    BY <1>0, <1>3, <1>7, <2>1, <2>2, OnceMoved
<1>11. FreshInv'
  <2>1. \A n \in Items(queue') \cup Sent' \cup TabItems(tab'[t]) : n = made' \/ Kept(n)
    BY <1>2, <1>3, <1>7 DEF Kept
  <2>2. made' >= made /\ ~(made' > made')
    BY <1>0, <1>1
  <2> QED
    BY <1>0, <1>1, <1>3, <1>7, <2>1, <2>2, FreshMoved
<1>12. CountInv'
  <2>1. \A n : Unseen(n)' => Unseen(n) \/ n = made'
    BY <1>2, <1>3 DEF Unseen
  <2> QED
    BY <1>0, <1>1, <1>7, <2>1, CountMoved
<1> QED
  BY <1>4, <1>5, <1>6, <1>8, <1>10, <1>11, <1>12 DEF SenderInv

-----------------------------------------------------------------------------
(* The parts of the invariant. *)
LEMMA SenderParts ==
    ASSUME SenderInv
    PROVE  /\ SenderTyped /\ SendsInv /\ AloneInv /\ FoundInv /\ OnceInv /\ FreshInv /\ CountInv
           /\ made \in Nat /\ MaxMade \in Nat /\ made <= MaxMade
  BY SenderConstants DEF SenderInv, SenderTyped

(* Steps of the network: the queue and the tabs stay as they are. *)
LEMMA NetOnce ==
    ASSUME SenderInv, NEW t \in Tabs, tab' = tab, queue' = queue, raced' = raced,
           behind' = behind,
           ~raced => \A x, y \in sends' : x.n = y.n => x = y \/ x.n \in behind,
           \A n \in Sent' : n \in Sent \/ (n \in 1 .. MaxMade /\ n > made)
    PROVE  OnceInv'
<1>1. ASSUME ~raced'
      PROVE  /\ Distinct(queue', behind')
             /\ \A x, y \in sends' : x.n = y.n => x = y \/ x.n \in behind'
             /\ Items(queue') \cap Sent' \subseteq behind'
             /\ TabDistinct(tab'[t], behind')
             /\ TabItems(tab'[t]) \cap Items(queue') \subseteq behind'
             /\ TabItems(tab'[t]) \cap Sent' \subseteq behind'
  <2>1. \A n \in 1 .. MaxMade : n > made => n \notin Items(queue) \cup TabItems(tab[t])
    BY <1>1, SenderParts DEF FreshInv, Kept
  <2>2. /\ Distinct(queue, behind) /\ Items(queue) \cap Sent \subseteq behind
        /\ TabDistinct(tab[t], behind)
        /\ TabItems(tab[t]) \cap Items(queue) \subseteq behind
        /\ TabItems(tab[t]) \cap Sent \subseteq behind
    BY <1>1, SenderParts DEF OnceInv
  <2> QED
    BY <1>1, <2>1, <2>2
<1>2. \A n \in Items(queue') \cup Sent' \cup TabItems(tab'[t]) :
         \/ n \in Items(queue) \cup Sent \cup TabItems(tab[t])
         \/ n \in 1 .. MaxMade /\ n > made
  OBVIOUS
<1> QED
  BY <1>1, <1>2, SenderParts, OnceMoved

(* The network carries nothing that is not built. *)
LEMMA NetFresh ==
    ASSUME SenderInv, NEW t \in Tabs, tab' = tab, queue' = queue, raced' = raced,
           made' >= made, made' \in Nat,
           \A n \in Sent' : n \in Sent \/ ~(n > made'),
           \A n \in 1 .. MaxMade : n > made' => got'[n] = got[n] /\ unsure'[n] = unsure[n]
    PROVE  FreshInv'
<1>1. \A n \in Items(queue') \cup Sent' \cup TabItems(tab'[t]) : n > made' => Kept(n)
  BY DEF Kept
<1> QED
  BY <1>1, SenderParts, FreshMoved

(* The network has no part in the reading and writing of the queue. *)
LEMMA NetAlone == ASSUME SenderInv, tab' = tab, queue' = queue, raced' = raced PROVE AloneInv'
  BY SenderParts, AloneKept

(* A payload built while the browser is online. *)
LEMMA SendBuilt ==
    ASSUME SenderInv, NEW t \in Tabs, Build,
           sends' = sends \cup {[n |-> made', tab |-> t, at |-> Nil, got |-> FALSE]},
           UNCHANGED <<queue, tab, clock, got, unsure, gone, raced, behind>>
    PROVE  SenderInv'
<1>0. /\ SenderTyped /\ SendsInv /\ FoundInv /\ OnceInv /\ FreshInv /\ CountInv
      /\ made \in Nat /\ MaxMade \in Nat
  BY SenderParts
<1>1. made' = made + 1 /\ made' \in 1 .. MaxMade /\ made' \in Nat /\ made' > made
  BY <1>0 DEF Build
<1>2. PICK x : x = [n |-> made', tab |-> t, at |-> Nil, got |-> FALSE]
  OBVIOUS
<1>3. /\ sends' = sends \cup {x} /\ x.n = made' /\ x.at = Nil /\ x.got = FALSE /\ x \in Fetches
  BY <1>1, <1>2 DEF Fetches
<1>4. Sent' = Sent \cup {made'}
  BY <1>3 DEF Sent
<1>5. SenderTyped'
  BY <1>0, <1>1, <1>3 DEF SenderTyped
<1>6. SendsInv'
  BY <1>0, <1>3 DEF SendsInv
<1>7. FoundInv'
  <2>1. \A n : n = made' => Kept(n)'
    BY <1>4 DEF Kept
  <2>2. \A n \in 1 .. made' : n \in 1 .. made \/ n = made'
    BY <1>0, <1>1
  <2>3. \A n : Kept(n) => Kept(n)'
    BY <1>4 DEF Kept
  <2> QED
    BY <1>0, <1>1, <2>1, <2>2, <2>3, FoundMoved
<1>8. ~raced => ~Kept(made')
  BY <1>0, <1>1 DEF FreshInv
<1>9. OnceInv'
  <2>1. ~raced => \A a, b \in sends' : a.n = b.n => a = b \/ a.n \in behind'
    BY <1>0, <1>3, <1>8 DEF OnceInv, Kept, Sent
  <2> QED
    BY <1>1, <1>4, <2>1, NetOnce
<1>10. FreshInv'
  <2>1. made' >= made /\ ~(made' > made')
    BY <1>0, <1>1
  <2> QED
    BY <1>1, <1>4, <2>1, NetFresh
<1>11. CountInv'
  <2>1. \A n : Unseen(n)' => Unseen(n) \/ n = made'
    BY <1>3 DEF Unseen
  <2> QED
    BY <1>0, <1>1, <2>1, CountMoved
<1> QED
  BY <1>5, <1>6, <1>7, <1>9, <1>10, <1>11, NetAlone DEF SenderInv

(* A beacon, which arrives or does not. *)
LEMMA BeaconArrives ==
    ASSUME SenderInv, NEW t \in Tabs, Build, got' = [got EXCEPT ![made'] = @ + 1],
           UNCHANGED <<queue, tab, sends, clock, unsure, gone, raced, behind>>
    PROVE  SenderInv'
<1>0. /\ SenderTyped /\ SendsInv /\ FoundInv /\ OnceInv /\ FreshInv /\ CountInv
      /\ made \in Nat /\ MaxMade \in Nat
  BY SenderParts
<1>1. made' = made + 1 /\ made' \in 1 .. MaxMade /\ made' \in Nat /\ made' > made
  BY <1>0 DEF Build
<1>2. /\ got' \in Tally /\ got \in Tally
      /\ \A n \in 1 .. MaxMade : n # made' => got'[n] = got[n]
      /\ got'[made'] = got[made'] + 1
  BY <1>0, <1>1 DEF SenderTyped, Tally
<1>3. \A n \in 1 .. MaxMade : got[n] \in Nat /\ got'[n] \in Nat /\ unsure[n] \in Nat
  BY <1>0, <1>2 DEF SenderTyped, Tally
<1>4. Sent' = Sent
  BY DEF Sent
<1>5. SenderTyped'
  BY <1>0, <1>1, <1>2 DEF SenderTyped
<1>6. SendsInv'
  <2>1. \A x \in sends : x.n \in 1 .. MaxMade
    BY <1>0 DEF SenderTyped, Fetches
  <2> QED
    BY <1>0, <1>1, <1>2, <1>3, <2>1 DEF SendsInv
<1>7. FoundInv'
  <2>1. got'[made'] > 0
    BY <1>1, <1>2, <1>3
  <2>2. \A n \in 1 .. made' : n \in 1 .. made \/ n = made'
    BY <1>0, <1>1
  <2>3. \A n : Kept(n) => Kept(n)'
    BY <1>4 DEF Kept
  <2>4. \A n \in 1 .. made : n \in 1 .. MaxMade /\ n # made'
    BY <1>0, <1>1
  <2>5. \A n \in 1 .. made : got[n] > 0 => got'[n] > 0
    BY <1>2, <2>4
  <2> QED
    BY <1>0, <1>1, <2>1, <2>2, <2>3, <2>5, FoundMoved
<1>8. OnceInv'
  BY <1>0, <1>4, NetOnce DEF OnceInv
<1>9. FreshInv'
  <2>1. made' >= made /\ ~(made' > made')
    BY <1>0, <1>1
  <2>2. \A n \in 1 .. MaxMade : n > made' => got'[n] = got[n] /\ unsure'[n] = unsure[n]
    BY <1>2, <2>1
  <2> QED
    BY <1>1, <1>4, <2>1, <2>2, NetFresh
<1>10. CountInv'
  <2>1. SUFFICES ASSUME ~raced, NEW n \in (1 .. MaxMade) \ behind
                 PROVE  got'[n] <= unsure[n] + 1 /\ (Unseen(n)' => got'[n] <= unsure[n])
    BY DEF CountInv
  <2>2. Unseen(n)' => Unseen(n)
    BY DEF Unseen
  <2>3. CASE n = made'
    <3>1. ~Kept(n) /\ got[n] = 0 /\ unsure[n] = 0
      BY <1>0, <1>1, <2>1, <2>3 DEF FreshInv
    <3> QED
      BY <1>2, <2>2, <2>3, <3>1, UnseenIsKept
  <2>4. CASE n # made'
    BY <1>0, <1>2, <2>1, <2>2, <2>4 DEF CountInv
  <2> QED
    BY <2>3, <2>4
<1> QED
  BY <1>5, <1>6, <1>7, <1>8, <1>9, <1>10, NetAlone DEF SenderInv

(* A beacon that is lost is given up, though nobody knows. *)
LEMMA BeaconIsLost ==
    ASSUME SenderInv, NEW t \in Tabs, Build, gone' = GiveUp(gone, {made'}, "beacon"),
           UNCHANGED <<queue, tab, sends, clock, got, unsure, raced, behind>>
    PROVE  SenderInv'
<1>0. /\ SenderTyped /\ SendsInv /\ FoundInv /\ OnceInv /\ FreshInv /\ CountInv
      /\ made \in Nat /\ MaxMade \in Nat
  BY SenderParts
<1>1. made' = made + 1 /\ made' \in 1 .. MaxMade /\ made' \in Nat /\ made' > made
  BY <1>0 DEF Build
<1>2. /\ gone' \in [1 .. MaxMade -> {Nil} \cup Reasons]
      /\ \A n \in 1 .. MaxMade : gone[n] # Nil => gone'[n] # Nil
      /\ gone'[made'] # Nil
  <2>1. "beacon" \in Reasons
    BY DEF Reasons
  <2> QED
    BY <1>0, <1>1, <2>1, GivenUp, GivenUpTyped
<1>4. Sent' = Sent
  BY DEF Sent
<1>5. SenderTyped'
  <2>1. made' \in 0 .. MaxMade
    BY <1>0, <1>1
  <2>2. gone' \in [1 .. MaxMade -> {Nil} \cup Reasons]
    BY <1>2
  <2> QED
    BY <1>0, <2>1, <2>2 DEF SenderTyped
<1>6. SendsInv'
  BY <1>0 DEF SendsInv
<1>7. FoundInv'
  <2>2. \A n \in 1 .. made' : n \in 1 .. made \/ n = made'
    BY <1>0, <1>1
  <2>3. \A n : Kept(n) => Kept(n)'
    BY <1>4 DEF Kept
  <2>4. \A n \in 1 .. made : n \in 1 .. MaxMade
    BY <1>0, <1>1
  <2>5. \A n \in 1 .. made : gone[n] # Nil => gone'[n] # Nil
    BY <1>2, <2>4
  <2> QED
    BY <1>0, <1>1, <1>2, <2>2, <2>3, <2>5, FoundMoved
<1>8. OnceInv'
  BY <1>0, <1>4, NetOnce DEF OnceInv
<1>9. FreshInv'
  <2>1. made' >= made
    BY <1>0, <1>1
  <2> QED
    BY <1>1, <1>4, <2>1, NetFresh
<1>10. CountInv'
  <2>1. \A n : Unseen(n)' => Unseen(n)
    BY DEF Unseen
  <2> QED
    BY <1>0, <2>1, CountMoved
<1> QED
  BY <1>5, <1>6, <1>7, <1>8, <1>9, <1>10, NetAlone DEF SenderInv

(* The server receives a payload. *)
LEMMA ReceiveStep == ASSUME SenderInv, NEW x, Receive(x) PROVE SenderInv'
<1>0. /\ SenderTyped /\ SendsInv /\ FoundInv /\ OnceInv /\ FreshInv /\ CountInv
      /\ made \in Nat /\ MaxMade \in Nat
  BY SenderParts
<1>1. /\ x \in sends /\ x.got = FALSE /\ x \in Fetches /\ x.n \in 1 .. MaxMade /\ x.tab \in Tabs
      /\ UNCHANGED <<queue, tab, clock, made, unsure, gone, raced, behind>>
  BY <1>0 DEF Receive, SenderTyped, Fetches
<1>2. PICK z : z = [x EXCEPT !.got = TRUE]
  OBVIOUS
<1>3. /\ z \in Fetches /\ z.n = x.n /\ z.tab = x.tab /\ z.at = x.at /\ z.got = TRUE
      /\ sends' = (sends \ {x}) \cup {z}
  BY <1>1, <1>2 DEF Receive, Fetches
<1>4. /\ got' \in Tally /\ got'[x.n] = got[x.n] + 1
      /\ \A n \in 1 .. MaxMade : n # x.n => got'[n] = got[n]
      /\ \A n \in 1 .. MaxMade : got[n] \in Nat /\ got'[n] \in Nat /\ unsure[n] \in Nat
  BY <1>0, <1>1 DEF Receive, SenderTyped, Tally
<1>5. Sent' = Sent
  BY <1>1, <1>3 DEF Sent
<1>6. SenderTyped'
  BY <1>0, <1>1, <1>3, <1>4 DEF SenderTyped
<1>7. SendsInv'
  <2>1. SUFFICES ASSUME NEW v \in sends'
                 PROVE  /\ v.at # Nil => tab[v.tab].flushing /\ tab[v.tab].io \notin {"clear", "merge"}
                        /\ v.got => got'[v.n] > 0
    BY <1>1 DEF SendsInv
  <2>2. CASE v = z
    BY <1>0, <1>1, <1>3, <1>4, <2>2 DEF SendsInv
  <2>3. CASE v # z
    <3>1. v \in sends /\ v.n \in 1 .. MaxMade
      BY <1>0, <1>3, <2>1, <2>3 DEF SenderTyped, Fetches
    <3> QED
      BY <1>0, <1>4, <3>1 DEF SendsInv
  <2> QED
    BY <2>2, <2>3
<1>8. FoundInv'
  <2>1. \A n : Kept(n) => Kept(n)'
    BY <1>1, <1>5 DEF Kept
  <2>2. \A n \in 1 .. made : n \in 1 .. MaxMade
    BY <1>0 DEF SenderTyped
  <2>3. \A n \in 1 .. made : got[n] > 0 => got'[n] > 0
    BY <1>1, <1>4, <2>2
  <2> QED
    BY <1>0, <1>1, <2>1, <2>3, FoundMoved
<1>9. OnceInv'
  <2>1. ~raced => \A a, b \in sends' : a.n = b.n => a = b \/ a.n \in behind'
    BY <1>0, <1>1, <1>3 DEF OnceInv
  <2> QED
    BY <1>1, <1>5, <2>1, NetOnce
<1>10. FreshInv'
  <2>1. ~raced => ~(x.n > made)
    BY <1>0, <1>1 DEF FreshInv, Kept, Sent
  <2>2. SUFFICES ASSUME ~raced PROVE FreshInv'
    BY <1>1 DEF FreshInv
  <2>3. \A n \in 1 .. MaxMade : n > made' => got'[n] = got[n] /\ unsure'[n] = unsure[n]
    BY <1>1, <1>4, <2>1, <2>2
  <2>4. made' >= made /\ made' \in Nat
    BY <1>0, <1>1
  <2> QED
    BY <1>1, <1>5, <2>3, <2>4, NetFresh
<1>11. CountInv'
  <2>1. SUFFICES ASSUME ~raced, NEW n \in (1 .. MaxMade) \ behind
                 PROVE  got'[n] <= unsure[n] + 1 /\ (Unseen(n)' => got'[n] <= unsure[n])
    BY <1>1 DEF CountInv
  <2>2. Unseen(n)' => Unseen(n)
    BY <1>1, <1>3 DEF Unseen
  <2>3. CASE n = x.n
    <3>1. Unseen(n)
      BY <1>1, <2>3 DEF Unseen
    <3>2. ~Unseen(n)'
      <4>1. n \in Sent
        BY <1>1, <2>3 DEF Sent
      <4>2. n \notin Items(queue) /\ \A t \in Tabs : n \notin TabItems(tab[t])
        BY <1>0, <2>1, <4>1 DEF OnceInv
      <4>3. ~\E v \in sends' : v.n = n /\ ~v.got
        BY <1>0, <1>1, <1>3, <2>1, <2>3 DEF OnceInv
      <4> QED
        BY <1>1, <4>2, <4>3 DEF Unseen
    <3> QED
      BY <1>0, <1>4, <2>1, <2>3, <3>1, <3>2 DEF CountInv
  <2>4. CASE n # x.n
    BY <1>0, <1>4, <2>1, <2>2, <2>4 DEF CountInv
  <2> QED
    BY <2>3, <2>4
<1> QED
  BY <1>1, <1>6, <1>7, <1>8, <1>9, <1>10, <1>11, NetAlone DEF SenderInv

(* What the tab does not know it may be told again. *)
LEMMA Doubted ==
    ASSUME SenderTyped, NEW x \in sends, Doubt(x)
    PROVE  /\ unsure' \in Tally
           /\ \A n \in 1 .. MaxMade : unsure'[n] >= unsure[n]
           /\ x.got => unsure'[x.n] = unsure[x.n] + 1
           /\ \A n \in 1 .. MaxMade : n # x.n => unsure'[n] = unsure[n]
<1>1. x.n \in 1 .. MaxMade /\ unsure \in Tally
  BY DEF SenderTyped, Fetches
<1> QED
  BY <1>1 DEF Doubt, Tally

(* After a doubt the payload may be kept for another try. *)
LEMMA CountDoubted ==
    ASSUME SenderInv, ~raced' => ~raced, behind' = behind, NEW x \in sends, Doubt(x),
           got' = got,
           ~raced' => \A n \in 1 .. MaxMade : Unseen(n)' => Unseen(n) \/ n = x.n
    PROVE  CountInv'
<1>0. SenderTyped /\ CountInv
  BY SenderParts
<1>1. SUFFICES ASSUME ~raced', NEW n \in (1 .. MaxMade) \ behind
               PROVE  got[n] <= unsure'[n] + 1 /\ (Unseen(n)' => got[n] <= unsure'[n])
  BY DEF CountInv
<1>2. got[n] \in Nat /\ unsure[n] \in Nat /\ unsure'[n] \in Nat /\ unsure'[n] >= unsure[n]
  BY <1>0, Doubted DEF SenderTyped, Tally
<1>3. got[n] <= unsure[n] + 1 /\ (Unseen(n) => got[n] <= unsure[n])
  BY <1>0, <1>1 DEF CountInv
<1>4. CASE n = x.n /\ x.got
  <2>1. unsure'[n] = unsure[n] + 1
    BY <1>0, <1>4, Doubted
  <2> QED
    BY <1>2, <1>3, <2>1
<1>5. CASE n = x.n /\ ~x.got
  <2>1. Unseen(n)
    BY <1>5 DEF Unseen
  <2> QED
    BY <1>2, <1>3, <2>1
<1>6. CASE n # x.n
  BY <1>1, <1>2, <1>3, <1>6
<1> QED
  BY <1>4, <1>5, <1>6

(* The answer of a fetch outside a flush. *)
LEMMA AnswerStep == ASSUME SenderInv, NEW x, FetchAnswered(x) \/ SendFails(x) PROVE SenderInv'
<1>0. /\ SenderTyped /\ SendsInv /\ FoundInv /\ OnceInv /\ FreshInv /\ CountInv
      /\ made \in Nat /\ MaxMade \in Nat
  BY SenderParts
<1>1. /\ x \in sends /\ x \in Fetches /\ x.n \in 1 .. MaxMade /\ x.tab \in Tabs
      /\ sends' = sends \ {x}
      /\ UNCHANGED <<queue, tab, clock, made, got, raced, behind>>
  BY <1>0 DEF FetchAnswered, SendFails, SenderTyped, Fetches
<1>2. /\ unsure' \in Tally
      /\ \A n \in 1 .. MaxMade : n # x.n => unsure'[n] = unsure[n]
  BY <1>0, <1>1, Doubted DEF FetchAnswered, SendFails, SenderTyped
<1>3. /\ gone' \in [1 .. MaxMade -> {Nil} \cup Reasons]
      /\ \A n \in 1 .. MaxMade : gone[n] # Nil => gone'[n] # Nil
      /\ got[x.n] > 0 \/ gone'[x.n] # Nil
  <2>1. CASE FetchAnswered(x)
    BY <1>0, <2>1 DEF FetchAnswered, SendsInv, SenderTyped
  <2>2. CASE SendFails(x)
    <3>1. "error" \in Reasons /\ gone' = GiveUp(gone, {x.n}, "error")
      BY <2>2 DEF Reasons, SendFails
    <3> QED
      BY <1>0, <1>1, <3>1, GivenUp, GivenUpTyped
  <2> QED
    BY <2>1, <2>2
<1>4. Sent' \subseteq Sent /\ Sent \subseteq Sent' \cup {x.n}
  BY <1>1 DEF Sent
<1>5. SenderTyped'
  BY <1>0, <1>1, <1>2, <1>3 DEF SenderTyped
<1>6. SendsInv'
  BY <1>0, <1>1 DEF SendsInv
<1>7. FoundInv'
  <2>1. \A n : Kept(n) => Kept(n)' \/ n = x.n
    BY <1>1, <1>4 DEF Kept
  <2>2. \A n \in 1 .. made : n \in 1 .. MaxMade
    BY <1>0 DEF SenderTyped
  <2>3. \A n \in 1 .. made : gone[n] # Nil => gone'[n] # Nil
    BY <1>3, <2>2
  <2> QED
    BY <1>0, <1>1, <1>3, <2>1, <2>3, FoundMoved
<1>8. OnceInv'
  <2>1. ~raced => \A a, b \in sends' : a.n = b.n => a = b \/ a.n \in behind'
    BY <1>0, <1>1 DEF OnceInv
  <2> QED
    BY <1>1, <1>4, <2>1, NetOnce
<1>9. FreshInv'
  <2>1. ~raced => ~(x.n > made)
    BY <1>0, <1>1 DEF FreshInv, Kept, Sent
  <2>2. SUFFICES ASSUME ~raced PROVE FreshInv'
    BY <1>1 DEF FreshInv
  <2>3. \A n \in 1 .. MaxMade : n > made' => got'[n] = got[n] /\ unsure'[n] = unsure[n]
    BY <1>1, <1>2, <2>1, <2>2
  <2>4. made' >= made /\ made' \in Nat
    BY <1>0, <1>1
  <2> QED
    BY <1>1, <1>4, <2>3, <2>4, NetFresh
<1>10. CountInv'
  <2>1. \A n : Unseen(n)' => Unseen(n)
    BY <1>1 DEF Unseen
  <2>2. CASE FetchAnswered(x)
    <3>1. got' = got /\ unsure' = unsure
      BY <2>2 DEF FetchAnswered
    <3> QED
      BY <1>0, <1>1, <2>1, <3>1, CountMoved
  <2>3. CASE SendFails(x)
    <3>1. Doubt(x)
      BY <2>3 DEF SendFails
    <3> QED
      BY <1>1, <2>1, <3>1, CountDoubted
  <2> QED
    BY <2>2, <2>3
<1> QED
  BY <1>1, <1>5, <1>6, <1>7, <1>8, <1>9, <1>10, NetAlone DEF SenderInv

-----------------------------------------------------------------------------
(* Steps of one tab.                                                       *)

(* TIMEOUT_MS is over: the payload goes to the queue. *)
LEMMA TimeoutStep == ASSUME SenderInv, NEW x, Timeout(x) PROVE SenderInv'
<1>0. /\ SenderTyped /\ SendsInv /\ AloneInv /\ FoundInv /\ OnceInv /\ FreshInv /\ CountInv
      /\ made \in Nat /\ MaxMade \in Nat
  BY SenderParts
<1> DEFINE t == x.tab
<1>1. /\ x \in sends /\ x \in Fetches /\ x.n \in 1 .. MaxMade /\ t \in Tabs /\ Free(t)
      /\ sends' = sends \ {x} /\ Enqueue(t, x.n) /\ Doubt(x)
      /\ UNCHANGED <<queue, clock, made, got, gone, behind>>
      /\ raced' = (raced \/ (~tab[t].inMemory /\ \E v \in Tabs \ {t} : Using(v)))
  BY <1>0 DEF Timeout, Enqueue, Read, SenderTyped, Fetches
<1> HIDE DEF t
<1>2. PICK y : /\ tab' = [tab EXCEPT ![t] = y] /\ TabOK(y)
               /\ y.io = "push" /\ y.snap = Stored(t) /\ y.flushing = tab[t].flushing
               /\ y.inMemory = tab[t].inMemory /\ y.memory = tab[t].memory
               /\ TabItems(y) = TabItems(tab[t]) \cup {x.n}
               /\ \A d : TabDistinct(tab[t], d) /\ x.n \notin TabItems(tab[t]) \ d
                          => TabDistinct(y, d)
  BY <1>0, <1>1, EnqueueShape
<1>3. /\ tab' = [u \in Tabs |-> tab'[u]] /\ tab'[t] = y
      /\ \A u \in Tabs \ {t} : tab'[u] = tab[u]
  BY <1>0, <1>1, <1>2, OneTab
<1>4. /\ unsure' \in Tally
      /\ \A n \in 1 .. MaxMade : n # x.n => unsure'[n] = unsure[n]
  BY <1>0, <1>1, Doubted
<1>5. SenderTyped'
  <2>1. raced' \in BOOLEAN
    BY <1>0, <1>1 DEF SenderTyped
  <2>2. \A u \in Tabs : TabOK(tab'[u])
    BY <1>0, <1>2, <1>3 DEF SenderTyped
  <2> QED
    BY <1>0, <1>1, <1>3, <1>4, <2>1, <2>2 DEF SenderTyped
<1>6. SendsInv'
  BY <1>0, <1>1, <1>2, SendsMoved
<1>7. AloneInv'
  BY <1>0, <1>1, <1>2, AloneRead
<1>8. /\ ~raced' => ~raced
      /\ Sent' \subseteq Sent /\ Sent \subseteq Sent' \cup {x.n} /\ x.n \in Sent
  BY <1>1 DEF Sent
<1>9. FoundInv'
  <2>1. \A n : Kept(n) => Kept(n)'
    BY <1>1, <1>2, <1>3, <1>8 DEF Kept
  <2> QED
    BY <1>0, <1>1, <1>8, <2>1, FoundMoved
<1>10. OnceInv'
  <2>1. ASSUME ~raced'
        PROVE  /\ Distinct(queue', behind')
               /\ \A a, b \in sends' : a.n = b.n => a = b \/ a.n \in behind'
               /\ Items(queue') \cap Sent' \subseteq behind'
               /\ TabDistinct(tab'[t], behind')
               /\ TabItems(tab'[t]) \cap Items(queue') \subseteq behind'
               /\ TabItems(tab'[t]) \cap Sent' \subseteq behind'
    <3>1. x.n \notin Sent' \ behind
      BY <1>0, <1>1, <1>8, <2>1 DEF OnceInv, Sent
    <3>2. /\ Distinct(queue, behind) /\ Items(queue) \cap Sent \subseteq behind
          /\ TabDistinct(tab[t], behind)
          /\ TabItems(tab[t]) \cap Items(queue) \subseteq behind
          /\ TabItems(tab[t]) \cap Sent \subseteq behind
          /\ \A a, b \in sends : a.n = b.n => a = b \/ a.n \in behind
      BY <1>0, <1>1, <1>8, <2>1 DEF OnceInv
    <3> QED
      BY <1>1, <1>2, <1>3, <1>8, <3>1, <3>2
  <2>2. \A n \in Items(queue') \cup Sent' \cup TabItems(tab'[t]) :
           n \in Items(queue) \cup Sent \cup TabItems(tab[t])
    BY <1>1, <1>2, <1>3, <1>8
  <2> QED
    BY <1>0, <1>1, <1>3, <1>8, <2>1, <2>2, OnceMoved
<1>11. FreshInv'
  <2>1. \A n \in Items(queue') \cup Sent' \cup TabItems(tab'[t]) : Kept(n)
    BY <1>1, <1>2, <1>3, <1>8 DEF Kept
  <2>2. made' >= made /\ made' \in Nat
    BY <1>0, <1>1
  <2>3. SUFFICES ASSUME ~raced PROVE FreshInv'
    BY <1>8 DEF FreshInv
  <2>4. ~(x.n > made)
    BY <1>0, <1>1, <1>8, <2>3 DEF FreshInv, Kept
  <2>5. \A n \in 1 .. MaxMade : n > made' => got'[n] = got[n] /\ unsure'[n] = unsure[n]
    BY <1>1, <1>4, <2>4
  <2> QED
    BY <1>0, <1>1, <1>3, <1>8, <2>1, <2>2, <2>5, FreshMoved
<1>12. CountInv'
  <2>1. \A n : Unseen(n)' => Unseen(n) \/ n = x.n
    BY <1>1, <1>2, <1>3 DEF Unseen
  <2> QED
    BY <1>1, <1>8, <2>1, CountDoubted
<1> QED
  BY <1>5, <1>6, <1>7, <1>9, <1>10, <1>11, <1>12 DEF SenderInv

(* A step of one tab that moves payloads nowhere but within itself: it reads *)
(* the queue, or only marks what it does.                                  *)
LEMMA TabStep ==
    ASSUME SenderInv, NEW t \in Tabs, NEW y, tab' = [tab EXCEPT ![t] = y], TabOK(y),
           y.todo = tab[t].todo, y.failed = tab[t].failed, y.add = tab[t].add,
           y.memory = tab[t].memory,
           UNCHANGED <<queue, sends, clock, made, got, unsure, gone, behind>>,
           ~raced' => ~raced, raced' \in BOOLEAN, AloneInv', SendsInv'
    PROVE  SenderInv'
<1>0. /\ SenderTyped /\ SendsInv /\ AloneInv /\ FoundInv /\ OnceInv /\ FreshInv /\ CountInv
      /\ made \in Nat /\ MaxMade \in Nat
  BY SenderParts
<1>1. /\ tab' = [u \in Tabs |-> tab'[u]] /\ tab'[t] = y
      /\ \A u \in Tabs \ {t} : tab'[u] = tab[u]
  BY <1>0, OneTab
<1>2. \A u \in Tabs : /\ TabItems(tab'[u]) = TabItems(tab[u])
                      /\ TabDistinct(tab[u], behind) => TabDistinct(tab'[u], behind)
  BY <1>1 DEF TabItems, Loose, TabDistinct, LooseDistinct
<1>3. Sent' = Sent
  BY DEF Sent
<1>4. \A n : (Kept(n)' <=> Kept(n)) /\ (Unseen(n)' <=> Unseen(n))
  BY <1>2, <1>3 DEF Kept, Unseen
<1>5. SenderTyped'
  <2>1. \A u \in Tabs : TabOK(tab'[u])
    BY <1>0, <1>1 DEF SenderTyped
  <2> QED
    BY <1>0, <1>1, <2>1 DEF SenderTyped
<1>6. FoundInv' /\ FreshInv' /\ CountInv'
  BY <1>0, <1>4 DEF FoundInv, FreshInv, CountInv
<1>7. OnceInv'
  BY <1>0, <1>2, <1>3 DEF OnceInv
<1> QED
  BY <1>5, <1>6, <1>7 DEF SenderInv

(* handleOnline() begins, or finds nothing to do. *)
LEMMA HandleOnlineStep == ASSUME SenderInv, NEW t \in Tabs, HandleOnline(t) PROVE SenderInv'
<1>0. /\ SenderTyped /\ SendsInv /\ AloneInv /\ TabOK(tab[t]) /\ Stored(t) \in Seq(QueueItem)
      /\ tab[t].io = Nil /\ tab[t].snap = <<>> /\ tab[t].add = <<>>
      /\ tab = [u \in Tabs |-> tab[u]]
  BY SenderParts, StoredTyped DEF SenderTyped, HandleOnline, Free, TabOK
<1>1. UNCHANGED <<queue, sends, clock, made, got, unsure, gone, behind>>
  BY DEF HandleOnline
<1>2. CASE tab[t].flushing \/ Stored(t) = <<>>
  <2>1. PICK y : y = [tab[t] EXCEPT !.event = FALSE]
    OBVIOUS
  <2>2. tab' = [tab EXCEPT ![t] = y] /\ raced' = raced
    BY <1>0, <1>2, <2>1 DEF HandleOnline
  <2>3. /\ DOMAIN y = TabFields
        /\ y.inMemory = tab[t].inMemory /\ y.memory = tab[t].memory
        /\ y.io = tab[t].io /\ y.snap = tab[t].snap /\ y.add = tab[t].add /\ y.event = FALSE
        /\ y.flushing = tab[t].flushing /\ y.todo = tab[t].todo /\ y.failed = tab[t].failed
    BY <1>0, <2>1 DEF TabOK, TabFields
  <2>4. TabOK(y)
    BY <1>0, <2>3 DEF TabOK
  <2>5. AloneInv'
    BY <1>0, <1>1, <2>2, <2>3, AloneKept, OneTab
  <2>6. SendsInv'
    BY <1>0, <1>1, <2>2, <2>3, SendsMoved, SenderConstants
  <2> QED
    BY <1>0, <1>1, <2>2, <2>3, <2>4, <2>5, <2>6, TabStep DEF SenderTyped
<1>3. CASE ~(tab[t].flushing \/ Stored(t) = <<>>)
  <2>1. PICK z : z = [tab[t] EXCEPT !.event = FALSE, !.io = "clear", !.flushing = TRUE]
    OBVIOUS
  <2>2. PICK y : y = [z EXCEPT !.snap = Stored(t)]
    OBVIOUS
  <2>3. /\ tab' = [tab EXCEPT ![t] = y]
        /\ raced' = (raced \/ (~tab[t].inMemory /\ \E v \in Tabs \ {t} : Using(v)))
    BY <1>3, <2>1, <2>2 DEF HandleOnline, Read
  <2>4. /\ DOMAIN y = TabFields
        /\ y.inMemory = tab[t].inMemory /\ y.memory = tab[t].memory
        /\ y.io = "clear" /\ y.snap = Stored(t) /\ y.add = tab[t].add /\ y.event = FALSE
        /\ y.flushing = TRUE /\ y.todo = tab[t].todo /\ y.failed = tab[t].failed
    BY <1>0, <2>1, <2>2 DEF TabOK, TabFields
  <2>5. TabOK(y)
    BY <1>0, <1>3, <2>4, SenderConstants DEF TabOK
  <2>6. AloneInv'
    BY <1>0, <1>1, <2>3, <2>4, AloneRead
  <2>7. SendsInv'
    <3>1. SUFFICES ASSUME NEW x \in sends
                   PROVE  /\ x.at # Nil => /\ tab'[x.tab].flushing
                                            /\ tab'[x.tab].io \notin {"clear", "merge"}
                          /\ x.got => got[x.n] > 0
      BY <1>1 DEF SendsInv
    <3>2. x.tab \in Tabs /\ (x.at # Nil => tab[x.tab].flushing)
      BY <1>0 DEF SenderTyped, Fetches, SendsInv
    <3>3. x.at # Nil => x.tab # t
      BY <1>3, <3>2
    <3> QED
      BY <1>0, <2>3, <3>2, <3>3, OneTab DEF SendsInv
  <2>8. raced' \in BOOLEAN /\ (~raced' => ~raced)
    BY <1>0, <2>3 DEF SenderTyped
  <2> QED
    BY <1>1, <2>3, <2>4, <2>5, <2>6, <2>7, <2>8, TabStep
<1> QED
  BY <1>2, <1>3

(* localStorage fails the tab, whose queue stays there for the others. *)
LEMMA FallBackStep == ASSUME SenderInv, NEW t \in Tabs, FallBack(t) PROVE SenderInv'
<1>0. /\ SenderTyped /\ SendsInv /\ AloneInv /\ TabOK(tab[t]) /\ tab[t].io = Nil
      /\ tab = [u \in Tabs |-> tab[u]]
  BY SenderParts DEF SenderTyped, FallBack, Free
<1>1. UNCHANGED <<queue, sends, clock, made, got, unsure, gone, behind, raced>>
  BY DEF FallBack
<1>2. PICK y : y = [tab[t] EXCEPT !.inMemory = TRUE]
  OBVIOUS
<1>3. tab' = [tab EXCEPT ![t] = y]
  BY <1>0, <1>2 DEF FallBack
<1>4. /\ DOMAIN y = TabFields /\ y.inMemory = TRUE /\ y.memory = tab[t].memory
      /\ y.io = Nil /\ y.snap = tab[t].snap /\ y.add = tab[t].add /\ y.event = tab[t].event
      /\ y.flushing = tab[t].flushing /\ y.todo = tab[t].todo /\ y.failed = tab[t].failed
  BY <1>0, <1>2 DEF TabOK, TabFields
<1>5. TabOK(y)
  BY <1>0, <1>4 DEF TabOK
<1>6. AloneInv'
  <2>1. tab'[t] = y /\ \A u \in Tabs \ {t} : tab'[u] = tab[u]
    BY <1>0, <1>3, OneTab
  <2>2. /\ \A u \in Tabs \ {t} : Stored(u)' = Stored(u) /\ (Using(u)' <=> Using(u))
        /\ tab'[t].io = Nil /\ ~Using(t)'
    BY <1>1, <1>4, <2>1 DEF Stored, Using
  <2> QED
    BY <1>0, <1>1, <2>1, <2>2 DEF AloneInv
<1>7. SendsInv'
  BY <1>0, <1>1, <1>3, <1>4, SendsMoved, SenderConstants
<1> QED
  BY <1>0, <1>1, <1>3, <1>4, <1>5, <1>6, <1>7, TabStep DEF SenderTyped

(* The loop is over. *)
LEMMA FlushEndStep == ASSUME SenderInv, NEW t \in Tabs, FlushEnd(t) PROVE SenderInv'
<1>0. /\ SenderTyped /\ SendsInv /\ AloneInv /\ TabOK(tab[t]) /\ Stored(t) \in Seq(QueueItem)
      /\ tab[t].io = Nil /\ tab[t].snap = <<>> /\ tab[t].add = <<>>
      /\ tab = [u \in Tabs |-> tab[u]]
  BY SenderParts, StoredTyped DEF SenderTyped, FlushEnd, Free, TabOK
<1>1. /\ UNCHANGED <<queue, sends, clock, made, got, unsure, gone, behind>>
      /\ tab[t].flushing /\ tab[t].todo = <<>> /\ ~Awaiting(t)
  BY DEF FlushEnd
<1>2. ASSUME NEW y, tab' = [tab EXCEPT ![t] = y] PROVE SendsInv'
  <2>1. SUFFICES ASSUME NEW x \in sends
                 PROVE  /\ x.at # Nil => /\ tab'[x.tab].flushing
                                          /\ tab'[x.tab].io \notin {"clear", "merge"}
                        /\ x.got => got[x.n] > 0
    BY <1>1 DEF SendsInv
  <2>2. x.tab \in Tabs
    BY <1>0 DEF SenderTyped, Fetches
  <2>3. x.at # Nil => x.tab # t
    BY <1>1 DEF Awaiting
  <2> QED
    BY <1>0, <1>2, <2>2, <2>3, OneTab DEF SendsInv
<1>3. CASE tab[t].failed = <<>>
  <2>1. PICK y : y = [tab[t] EXCEPT !.flushing = FALSE]
    OBVIOUS
  <2>2. tab' = [tab EXCEPT ![t] = y] /\ raced' = raced
    BY <1>0, <1>3, <2>1 DEF FlushEnd
  <2>3. /\ DOMAIN y = TabFields
        /\ y.inMemory = tab[t].inMemory /\ y.memory = tab[t].memory
        /\ y.io = tab[t].io /\ y.snap = tab[t].snap /\ y.add = tab[t].add
        /\ y.event = tab[t].event
        /\ y.flushing = FALSE /\ y.todo = tab[t].todo /\ y.failed = tab[t].failed
    BY <1>0, <2>1 DEF TabOK, TabFields
  <2>4. TabOK(y)
    BY <1>0, <1>1, <1>3, <2>3, SenderConstants DEF TabOK
  <2>5. AloneInv'
    BY <1>0, <1>1, <2>2, <2>3, AloneKept, OneTab
  <2>6. SendsInv'
    BY <1>2, <2>2
  <2> QED
    BY <1>0, <1>1, <2>2, <2>3, <2>4, <2>5, <2>6, TabStep DEF SenderTyped
<1>4. CASE tab[t].failed # <<>>
  <2>1. PICK z : z = [tab[t] EXCEPT !.io = "merge"]
    OBVIOUS
  <2>2. PICK y : y = [z EXCEPT !.snap = Stored(t)]
    OBVIOUS
  <2>3. /\ tab' = [tab EXCEPT ![t] = y]
        /\ raced' = (raced \/ (~tab[t].inMemory /\ \E v \in Tabs \ {t} : Using(v)))
    BY <1>4, <2>1, <2>2 DEF FlushEnd, Read
  <2>4. /\ DOMAIN y = TabFields
        /\ y.inMemory = tab[t].inMemory /\ y.memory = tab[t].memory
        /\ y.io = "merge" /\ y.snap = Stored(t) /\ y.add = tab[t].add /\ y.event = tab[t].event
        /\ y.flushing = tab[t].flushing /\ y.todo = tab[t].todo /\ y.failed = tab[t].failed
    BY <1>0, <2>1, <2>2 DEF TabOK, TabFields
  <2>5. TabOK(y)
    BY <1>0, <1>1, <2>4, SenderConstants DEF TabOK
  <2>6. AloneInv'
    BY <1>0, <1>1, <2>3, <2>4, AloneRead
  <2>7. SendsInv'
    BY <1>2, <2>3
  <2>8. raced' \in BOOLEAN /\ (~raced' => ~raced)
    BY <1>0, <2>3 DEF SenderTyped
  <2> QED
    BY <1>1, <2>3, <2>4, <2>5, <2>6, <2>7, <2>8, TabStep
<1> QED
  BY <1>3, <1>4

-----------------------------------------------------------------------------
(* Steps that write the queue.                                             *)

(* saveQueue(): what does not fit is given up. *)
LEMMA Saved ==
    ASSUME SenderTyped, NEW s \in Seq(QueueItem), NEW d,
           gone' = GiveUp(gone, Items(s) \ Items(Trimmed(s)), "full")
    PROVE  /\ Trimmed(s) \in Seq(QueueItem) /\ Items(Trimmed(s)) \subseteq Items(s)
           /\ Distinct(s, d) => Distinct(Trimmed(s), d)
           /\ gone' \in [1 .. MaxMade -> {Nil} \cup Reasons]
           /\ \A n \in 1 .. MaxMade : gone[n] # Nil => gone'[n] # Nil
           /\ \A n \in Items(s) : n \in Items(Trimmed(s)) \/ gone'[n] # Nil
<1>1. /\ Trimmed(s) \in Seq(QueueItem) /\ Items(Trimmed(s)) \subseteq Items(s)
      /\ Distinct(s, d) => Distinct(Trimmed(s), d)
  BY TrimmedItems
<1>2. "full" \in Reasons
  BY DEF Reasons
<1>3. gone' \in [1 .. MaxMade -> {Nil} \cup Reasons]
  BY <1>2, GivenUpTyped
<1>4. \A n \in 1 .. MaxMade : gone[n] # Nil => gone'[n] # Nil
  BY <1>2, GivenUp
<1>5. \A n \in Items(s) : n \in Items(Trimmed(s)) \/ gone'[n] # Nil
  BY <1>2, GivenUp, ItemsOK
<1> QED
  BY <1>1, <1>3, <1>4, <1>5

(* Storage.set(): the tab, or localStorage, has what is written. *)
LEMMA SetShape ==
    ASSUME SenderTyped, NEW t \in Tabs, NEW s \in Seq(QueueItem), NEW rec, TabOK(rec),
           rec.inMemory = tab[t].inMemory, rec.memory = tab[t].memory, Set(t, s, rec)
    PROVE  \E y : /\ tab' = [tab EXCEPT ![t] = y] /\ TabOK(y)
                  /\ y.io = rec.io /\ y.flushing = rec.flushing
                  /\ Loose(y) = Loose(rec)
                  /\ \A d : LooseDistinct(rec, d) => LooseDistinct(y, d)
                  /\ behind \subseteq behind' /\ queue' \in Seq(QueueItem)
                  /\ \/ /\ ~tab[t].inMemory /\ queue' = s
                        /\ y.memory = <<>> /\ tab[t].memory = <<>>
                     \/ /\ queue' = queue /\ y.memory = s
                        /\ tab[t].inMemory \/ Items(queue) \subseteq behind'
<1>1. queue \in Seq(QueueItem)
  BY DEF SenderTyped
<1>2. CASE /\ tab[t].inMemory
           /\ tab' = [tab EXCEPT ![t] = [rec EXCEPT !.memory = s]]
           /\ queue' = queue /\ behind' = behind
  <2>1. PICK y : y = [rec EXCEPT !.memory = s]
    OBVIOUS
  <2>2. /\ DOMAIN y = TabFields /\ y.inMemory = rec.inMemory /\ y.memory = s
        /\ y.io = rec.io /\ y.snap = rec.snap /\ y.add = rec.add /\ y.event = rec.event
        /\ y.flushing = rec.flushing /\ y.todo = rec.todo /\ y.failed = rec.failed
    BY <2>1 DEF TabOK, TabFields
  <2>3. TabOK(y)
    BY <1>2, <2>2 DEF TabOK
  <2>4. Loose(y) = Loose(rec) /\ \A d : LooseDistinct(rec, d) => LooseDistinct(y, d)
    BY <2>2 DEF Loose, LooseDistinct
  <2> QED
    BY <1>1, <1>2, <2>1, <2>2, <2>3, <2>4
<1>3. CASE /\ ~tab[t].inMemory /\ queue' = s
           /\ tab' = [tab EXCEPT ![t] = rec] /\ behind' = behind
  <2>1. rec.memory = <<>>
    BY <1>3 DEF TabOK
  <2> QED
    BY <1>3, <2>1
<1>4. CASE /\ ~tab[t].inMemory /\ queue' = queue /\ behind' = behind \cup Items(queue)
           /\ tab' = [tab EXCEPT ![t] = [rec EXCEPT !.inMemory = TRUE, !.memory = s]]
  <2>1. PICK y : y = [rec EXCEPT !.inMemory = TRUE, !.memory = s]
    OBVIOUS
  <2>2. /\ DOMAIN y = TabFields /\ y.inMemory = TRUE /\ y.memory = s
        /\ y.io = rec.io /\ y.snap = rec.snap /\ y.add = rec.add /\ y.event = rec.event
        /\ y.flushing = rec.flushing /\ y.todo = rec.todo /\ y.failed = rec.failed
    BY <2>1 DEF TabOK, TabFields
  <2>3. TabOK(y)
    BY <2>2 DEF TabOK
  <2>4. Loose(y) = Loose(rec) /\ \A d : LooseDistinct(rec, d) => LooseDistinct(y, d)
    BY <2>2 DEF Loose, LooseDistinct
  <2> QED
    BY <1>1, <1>4, <2>1, <2>2, <2>3, <2>4
<1> QED
  BY <1>2, <1>3, <1>4 DEF Set

(* What a tab sees of the queue is nothing it has in hand. *)
LEMMA StoredOnce ==
    ASSUME SenderInv, ~raced, NEW t \in Tabs
    PROVE  /\ Distinct(Stored(t), behind) /\ LooseDistinct(tab[t], behind)
           /\ Loose(tab[t]) \cap Items(Stored(t)) \subseteq behind
           /\ tab[t].io # Nil => tab[t].snap = Stored(t)
<1>1. OnceInv /\ AloneInv
  BY SenderParts
<1>2. /\ Distinct(queue, behind) /\ TabDistinct(tab[t], behind)
      /\ TabItems(tab[t]) \cap Items(queue) \subseteq behind
      /\ tab[t].io # Nil => tab[t].snap = Stored(t)
  BY <1>1 DEF OnceInv, AloneInv
<1> QED
  BY <1>2 DEF Stored, TabDistinct, TabItems

(* A tab writes the queue: payloads move between the two, or are given up. *)
LEMMA WriteStep ==
    ASSUME SenderInv, NEW t \in Tabs, NEW s \in Seq(QueueItem), NEW rec, Set(t, s, rec),
           TabOK(rec), rec.inMemory = tab[t].inMemory, rec.memory = tab[t].memory,
           tab[t].io # Nil, rec.io = Nil,
           tab[t].io = "push" => rec.flushing = tab[t].flushing,
           gone' \in [1 .. MaxMade -> {Nil} \cup Reasons],
           \A n \in 1 .. MaxMade : gone[n] # Nil => gone'[n] # Nil,
           UNCHANGED <<sends, clock, made, got, unsure, raced>>,
           ~raced => /\ Distinct(s, behind) /\ LooseDistinct(rec, behind)
                     /\ Loose(rec) \cap Items(s) \subseteq behind
                     /\ Items(s) \cup Loose(rec) \subseteq Items(Stored(t)) \cup Loose(tab[t])
                     /\ \A n \in Items(Stored(t)) \cup Loose(tab[t]) :
                           n \in Items(s) \cup Loose(rec) \/ gone'[n] # Nil
    PROVE  SenderInv'
<1>0. /\ SenderTyped /\ SendsInv /\ AloneInv /\ FoundInv /\ OnceInv /\ FreshInv /\ CountInv
      /\ made \in Nat /\ MaxMade \in Nat
  BY SenderParts
<1>1. PICK y : /\ tab' = [tab EXCEPT ![t] = y] /\ TabOK(y)
               /\ y.io = Nil /\ y.flushing = rec.flushing
               /\ Loose(y) = Loose(rec)
               /\ \A d : LooseDistinct(rec, d) => LooseDistinct(y, d)
               /\ behind \subseteq behind' /\ queue' \in Seq(QueueItem)
               /\ \/ /\ ~tab[t].inMemory /\ queue' = s
                     /\ y.memory = <<>> /\ tab[t].memory = <<>>
                  \/ /\ queue' = queue /\ y.memory = s
                     /\ tab[t].inMemory \/ Items(queue) \subseteq behind'
  BY <1>0, SetShape
<1>2. /\ tab' = [u \in Tabs |-> tab'[u]] /\ tab'[t] = y
      /\ \A u \in Tabs \ {t} : tab'[u] = tab[u]
  BY <1>0, <1>1, OneTab
<1>3. ~tab[t].inMemory => tab[t].memory = <<>>
  BY <1>0 DEF SenderTyped, TabOK
<1>4. /\ TabItems(y) = Loose(rec) \cup Items(y.memory)
      /\ TabItems(tab[t]) = Loose(tab[t]) \cup Items(tab[t].memory)
      /\ Items(<<>>) = {} /\ Distinct(<<>>, behind')
  BY <1>1, NoItems DEF TabItems
<1>5. ASSUME ~raced
      PROVE  /\ Distinct(s, behind') /\ LooseDistinct(y, behind')
             /\ Loose(y) \cap Items(s) \subseteq behind'
             /\ Distinct(queue, behind')
             /\ TabItems(tab[t]) \cap Items(queue) \subseteq behind'
  <2>1. /\ Distinct(s, behind) /\ LooseDistinct(rec, behind)
        /\ Loose(rec) \cap Items(s) \subseteq behind
    BY <1>5
  <2>2. Distinct(queue, behind) /\ TabItems(tab[t]) \cap Items(queue) \subseteq behind
    BY <1>0, <1>5 DEF OnceInv
  <2>3. LooseDistinct(y, behind')
    BY <1>1, <2>1, DistinctBut DEF LooseDistinct
  <2> QED
    BY <1>1, <2>1, <2>2, <2>3, DistinctBut
<1>6. ASSUME ~raced
      PROVE  /\ Distinct(queue', behind') /\ TabDistinct(y, behind')
             /\ TabItems(y) \cap Items(queue') \subseteq behind'
             /\ Items(queue') \cup TabItems(y) \subseteq Items(queue) \cup TabItems(tab[t])
             /\ \A n \in Items(queue) \cup TabItems(tab[t]) :
                   n \in Items(queue') \cup TabItems(y) \/ gone'[n] # Nil
  <2>1. CASE /\ ~tab[t].inMemory /\ queue' = s
             /\ y.memory = <<>> /\ tab[t].memory = <<>>
    <3>1. Stored(t) = queue
      BY <2>1 DEF Stored
    <3>2. TabDistinct(y, behind')
      BY <1>4, <1>5, <1>6, <2>1 DEF TabDistinct
    <3> QED
      BY <1>1, <1>4, <1>5, <1>6, <2>1, <3>1, <3>2
  <2>2. CASE queue' = queue /\ y.memory = s /\ tab[t].inMemory
    <3>1. Stored(t) = tab[t].memory
      BY <2>2 DEF Stored
    <3>2. TabDistinct(y, behind')
      BY <1>5, <1>6, <2>2 DEF TabDistinct
    <3> QED
      BY <1>1, <1>4, <1>5, <1>6, <2>2, <3>1, <3>2
  <2>3. CASE /\ queue' = queue /\ y.memory = s
             /\ ~tab[t].inMemory /\ Items(queue) \subseteq behind'
    <3>1. Stored(t) = queue
      BY <2>3 DEF Stored
    <3>2. TabDistinct(y, behind')
      BY <1>5, <1>6, <2>3 DEF TabDistinct
    <3> QED
      BY <1>1, <1>3, <1>4, <1>5, <1>6, <2>3, <3>1, <3>2
  <2> QED
    BY <1>1, <2>1, <2>2, <2>3
<1>7. SenderTyped'
  <2>1. \A u \in Tabs : TabOK(tab'[u])
    BY <1>0, <1>1, <1>2 DEF SenderTyped
  <2> QED
    BY <1>0, <1>1, <1>2, <2>1 DEF SenderTyped
<1>8. SendsInv'
  <2>1. SUFFICES ASSUME NEW x \in sends
                 PROVE  /\ x.at # Nil => /\ tab'[x.tab].flushing
                                          /\ tab'[x.tab].io \notin {"clear", "merge"}
                        /\ x.got => got[x.n] > 0
    BY DEF SendsInv
  <2>2. x.tab \in Tabs
    BY <1>0 DEF SenderTyped, Fetches
  <2>3. /\ x.at # Nil => tab[x.tab].flushing /\ tab[x.tab].io \notin {"clear", "merge"}
        /\ x.got => got[x.n] > 0
    BY <1>0 DEF SendsInv
  <2>4. tab[t].io \in {Nil, "push", "clear", "merge"}
    BY <1>0 DEF SenderTyped, TabOK
  <2>5. CASE x.tab = t
    BY <1>1, <1>2, <2>3, <2>4, <2>5, SenderConstants
  <2>6. CASE x.tab # t
    BY <1>2, <2>2, <2>3, <2>6
  <2> QED
    BY <2>5, <2>6
<1>9. AloneInv'
  <2>1. tab[t].inMemory => queue' = queue
    BY <1>1
  <2> QED
    BY <1>0, <1>1, <2>1, AloneWrote
<1>10. Sent' = Sent
  BY DEF Sent
<1>11. FoundInv'
  <2>1. ASSUME ~raced, NEW n, Kept(n) PROVE Kept(n)' \/ gone'[n] # Nil
    <3>1. CASE n \in Items(queue) \cup TabItems(tab[t])
      BY <1>2, <1>6, <2>1, <3>1 DEF Kept
    <3>2. CASE n \in Sent
      BY <1>10, <3>2 DEF Kept
    <3>3. CASE \E u \in Tabs \ {t} : n \in TabItems(tab[u])
      BY <1>2, <3>3 DEF Kept
    <3> QED
      BY <2>1, <3>1, <3>2, <3>3 DEF Kept
  <2>2. \A n \in 1 .. made : n \in 1 .. MaxMade
    BY <1>0 DEF SenderTyped
  <2>3. \A n \in 1 .. made : gone[n] # Nil => gone'[n] # Nil
    BY <2>2
  <2> QED
    BY <1>0, <2>1, <2>3, FoundMoved
<1>12. OnceInv'
  <2>1. ASSUME ~raced'
        PROVE  /\ Distinct(queue', behind')
               /\ \A a, b \in sends' : a.n = b.n => a = b \/ a.n \in behind'
               /\ Items(queue') \cap Sent' \subseteq behind'
               /\ TabDistinct(tab'[t], behind')
               /\ TabItems(tab'[t]) \cap Items(queue') \subseteq behind'
               /\ TabItems(tab'[t]) \cap Sent' \subseteq behind'
    <3>1. /\ Items(queue) \cap Sent \subseteq behind
          /\ TabItems(tab[t]) \cap Sent \subseteq behind
          /\ \A a, b \in sends : a.n = b.n => a = b \/ a.n \in behind
      BY <1>0, <2>1 DEF OnceInv
    <3> QED
      BY <1>1, <1>2, <1>6, <1>10, <2>1, <3>1
  <2>2. ~raced' => \A n \in Items(queue') \cup Sent' \cup TabItems(tab'[t]) :
                      n \in Items(queue) \cup Sent \cup TabItems(tab[t])
    BY <1>2, <1>6, <1>10
  <2> QED
    BY <1>0, <1>1, <1>2, <2>1, <2>2, OnceMoved
<1>13. FreshInv'
  <2>1. ~raced' => \A n \in Items(queue') \cup Sent' \cup TabItems(tab'[t]) : Kept(n)
    BY <1>2, <1>6, <1>10 DEF Kept
  <2>2. made' >= made /\ made' \in Nat
    BY <1>0
  <2> QED
    BY <1>0, <1>2, <2>1, <2>2, FreshMoved
<1>14. CountInv'
  <2>1. ~raced' => \A n : Unseen(n)' => Unseen(n)
    BY <1>2, <1>6 DEF Unseen
  <2> QED
    BY <1>0, <1>1, <2>1, CountMoved
<1> QED
  BY <1>7, <1>8, <1>9, <1>11, <1>12, <1>13, <1>14 DEF SenderInv

(* enqueue() writes. *)
LEMMA PushStep == ASSUME SenderInv, NEW t \in Tabs, Push(t) PROVE SenderInv'
<1>0. SenderTyped /\ TabOK(tab[t]) /\ tab[t].io = "push"
  BY SenderParts DEF SenderTyped, Push
<1>1. PICK rec : rec = [tab[t] EXCEPT !.io = Nil, !.snap = <<>>, !.add = <<>>]
  OBVIOUS
<1>2. PICK c : c = tab[t].snap \o tab[t].add
  OBVIOUS
<1>3. /\ Set(t, Trimmed(c), rec) /\ UNCHANGED <<sends, clock, made, got, unsure, raced>>
      /\ gone' = GiveUp(gone, Items(c) \ Items(Trimmed(c)), "full")
  BY <1>1, <1>2 DEF Push, SaveQueue
<1>4. /\ DOMAIN rec = TabFields
      /\ rec.inMemory = tab[t].inMemory /\ rec.memory = tab[t].memory
      /\ rec.io = Nil /\ rec.snap = <<>> /\ rec.add = <<>> /\ rec.event = tab[t].event
      /\ rec.flushing = tab[t].flushing /\ rec.todo = tab[t].todo /\ rec.failed = tab[t].failed
  BY <1>0, <1>1 DEF TabOK, TabFields
<1>5. TabOK(rec)
  BY <1>0, <1>4, SenderConstants DEF TabOK
<1>6. /\ c \in Seq(QueueItem) /\ Items(c) = Items(tab[t].snap) \cup Items(tab[t].add)
      /\ Distinct(tab[t].snap, behind) /\ Distinct(tab[t].add, behind)
           /\ Items(tab[t].snap) \cap Items(tab[t].add) \subseteq behind => Distinct(c, behind)
  BY <1>0, <1>2, ItemsJoined DEF TabOK
<1>7. /\ Trimmed(c) \in Seq(QueueItem) /\ Items(Trimmed(c)) \subseteq Items(c)
      /\ Distinct(c, behind) => Distinct(Trimmed(c), behind)
      /\ gone' \in [1 .. MaxMade -> {Nil} \cup Reasons]
      /\ \A n \in 1 .. MaxMade : gone[n] # Nil => gone'[n] # Nil
      /\ \A n \in Items(c) : n \in Items(Trimmed(c)) \/ gone'[n] # Nil
  BY <1>0, <1>3, <1>6, Saved
<1>8. /\ Items(rec.add) = {} /\ Loose(rec) = Items(tab[t].todo) \cup Items(tab[t].failed)
      /\ Loose(tab[t]) = Loose(rec) \cup Items(tab[t].add)
      /\ \A d : Distinct(rec.add, d)
  BY <1>4, NoItems DEF Loose
<1>9. ASSUME ~raced
      PROVE  /\ Distinct(Trimmed(c), behind) /\ LooseDistinct(rec, behind)
             /\ Loose(rec) \cap Items(Trimmed(c)) \subseteq behind
             /\ Items(Trimmed(c)) \cup Loose(rec) \subseteq Items(Stored(t)) \cup Loose(tab[t])
             /\ \A n \in Items(Stored(t)) \cup Loose(tab[t]) :
                   n \in Items(Trimmed(c)) \cup Loose(rec) \/ gone'[n] # Nil
  <2>1. /\ tab[t].snap = Stored(t)
        /\ Distinct(Stored(t), behind) /\ LooseDistinct(tab[t], behind)
        /\ Loose(tab[t]) \cap Items(Stored(t)) \subseteq behind
    BY <1>0, <1>9, StoredOnce, SenderConstants
  <2>2. Distinct(tab[t].add, behind) /\ Items(tab[t].add) \cap Loose(rec) \subseteq behind
    BY <1>8, <2>1 DEF LooseDistinct
  <2>3. LooseDistinct(rec, behind)
    BY <1>4, <1>8, <2>1 DEF LooseDistinct
  <2>4. Distinct(Trimmed(c), behind)
    BY <1>6, <1>7, <1>8, <2>1, <2>2
  <2> QED
    BY <1>6, <1>7, <1>8, <2>1, <2>2, <2>3, <2>4
<1> QED
  BY <1>0, <1>3, <1>4, <1>5, <1>7, <1>9, SenderConstants, WriteStep

(* What failed is merged in front of what came meanwhile. *)
LEMMA MergeBackStep == ASSUME SenderInv, NEW t \in Tabs, MergeBack(t) PROVE SenderInv'
<1>0. /\ SenderTyped /\ TabOK(tab[t]) /\ tab[t].io = "merge"
      /\ tab[t].add = <<>> /\ tab[t].todo = <<>>
  BY SenderParts DEF SenderTyped, MergeBack, TabOK
<1>1. PICK rec : rec = [tab[t] EXCEPT !.io = Nil, !.snap = <<>>, !.failed = <<>>,
                                      !.flushing = FALSE]
  OBVIOUS
<1>2. PICK c : c = tab[t].failed \o tab[t].snap
  OBVIOUS
<1>3. /\ Set(t, Trimmed(c), rec) /\ UNCHANGED <<sends, clock, made, got, unsure, raced>>
      /\ gone' = GiveUp(gone, Items(c) \ Items(Trimmed(c)), "full")
  BY <1>1, <1>2 DEF MergeBack, Merged, SaveQueue
<1>4. /\ DOMAIN rec = TabFields
      /\ rec.inMemory = tab[t].inMemory /\ rec.memory = tab[t].memory
      /\ rec.io = Nil /\ rec.snap = <<>> /\ rec.add = <<>> /\ rec.event = tab[t].event
      /\ rec.flushing = FALSE /\ rec.todo = <<>> /\ rec.failed = <<>>
  BY <1>0, <1>1 DEF TabOK, TabFields
<1>5. TabOK(rec)
  BY <1>0, <1>4, SenderConstants DEF TabOK
<1>6. /\ c \in Seq(QueueItem) /\ Items(c) = Items(tab[t].failed) \cup Items(tab[t].snap)
      /\ Distinct(tab[t].failed, behind) /\ Distinct(tab[t].snap, behind)
           /\ Items(tab[t].failed) \cap Items(tab[t].snap) \subseteq behind
           => Distinct(c, behind)
  BY <1>0, <1>2, ItemsJoined DEF TabOK
<1>7. /\ Trimmed(c) \in Seq(QueueItem) /\ Items(Trimmed(c)) \subseteq Items(c)
      /\ Distinct(c, behind) => Distinct(Trimmed(c), behind)
      /\ gone' \in [1 .. MaxMade -> {Nil} \cup Reasons]
      /\ \A n \in 1 .. MaxMade : gone[n] # Nil => gone'[n] # Nil
      /\ \A n \in Items(c) : n \in Items(Trimmed(c)) \/ gone'[n] # Nil
  BY <1>0, <1>3, <1>6, Saved
<1>8. /\ Loose(rec) = {} /\ LooseDistinct(rec, behind)
      /\ Loose(tab[t]) = Items(tab[t].failed)
  BY <1>0, <1>4, NoItems DEF Loose, LooseDistinct
<1>9. ASSUME ~raced
      PROVE  /\ Distinct(Trimmed(c), behind) /\ LooseDistinct(rec, behind)
             /\ Loose(rec) \cap Items(Trimmed(c)) \subseteq behind
             /\ Items(Trimmed(c)) \cup Loose(rec) \subseteq Items(Stored(t)) \cup Loose(tab[t])
             /\ \A n \in Items(Stored(t)) \cup Loose(tab[t]) :
                   n \in Items(Trimmed(c)) \cup Loose(rec) \/ gone'[n] # Nil
  <2>1. /\ tab[t].snap = Stored(t)
        /\ Distinct(Stored(t), behind) /\ LooseDistinct(tab[t], behind)
        /\ Loose(tab[t]) \cap Items(Stored(t)) \subseteq behind
    BY <1>0, <1>9, StoredOnce, SenderConstants
  <2>2. Distinct(tab[t].failed, behind)
    BY <2>1 DEF LooseDistinct
  <2> QED
    BY <1>6, <1>7, <1>8, <2>1, <2>2
<1> QED
  BY <1>0, <1>3, <1>4, <1>5, <1>7, <1>9, SenderConstants, WriteStep

(* The queue is emptied, and what is not too old is to be sent. *)
LEMMA ClearStep == ASSUME SenderInv, NEW t \in Tabs, Clear(t) PROVE SenderInv'
<1>0. /\ SenderTyped /\ TabOK(tab[t]) /\ tab[t].io = "clear"
      /\ tab[t].add = <<>> /\ tab[t].todo = <<>> /\ tab[t].failed = <<>> /\ tab[t].flushing
  BY SenderParts DEF SenderTyped, Clear, TabOK
<1>1. PICK rec : rec = [tab[t] EXCEPT !.io = Nil, !.snap = <<>>,
                                      !.todo = Unexpired(tab[t].snap)]
  OBVIOUS
<1>2. /\ Set(t, <<>>, rec) /\ gone' = GiveUp(gone, ExpiredOf(tab[t].snap), "old")
      /\ UNCHANGED <<sends, clock, made, got, unsure, raced>>
  BY <1>1 DEF Clear, Cleared
<1>3. /\ DOMAIN rec = TabFields
      /\ rec.inMemory = tab[t].inMemory /\ rec.memory = tab[t].memory
      /\ rec.io = Nil /\ rec.snap = <<>> /\ rec.add = <<>> /\ rec.event = tab[t].event
      /\ rec.flushing = TRUE /\ rec.todo = Unexpired(tab[t].snap) /\ rec.failed = <<>>
  BY <1>0, <1>1 DEF TabOK, TabFields
<1>4. /\ Unexpired(tab[t].snap) \in Seq(QueueItem)
      /\ Items(Unexpired(tab[t].snap)) \subseteq Items(tab[t].snap)
      /\ Items(tab[t].snap) \subseteq Items(Unexpired(tab[t].snap)) \cup ExpiredOf(tab[t].snap)
      /\ Distinct(tab[t].snap, behind) => Distinct(Unexpired(tab[t].snap), behind)
  BY <1>0, UnexpiredItems DEF TabOK
<1>5. TabOK(rec)
  BY <1>0, <1>3, <1>4, SenderConstants DEF TabOK
<1>6. "old" \in Reasons
  BY DEF Reasons
<1>7. /\ <<>> \in Seq(QueueItem) /\ Items(<<>>) = {} /\ Distinct(<<>>, behind)
      /\ gone' \in [1 .. MaxMade -> {Nil} \cup Reasons]
      /\ \A n \in 1 .. MaxMade : gone[n] # Nil => gone'[n] # Nil
  BY <1>0, <1>2, <1>6, NoItems, GivenUp, GivenUpTyped
<1>8. \A n \in Items(tab[t].snap) : n \in Items(rec.todo) \/ gone'[n] # Nil
  <2>1. Items(tab[t].snap) \subseteq 1 .. MaxMade
    BY <1>0, ItemsOK DEF TabOK
  <2>2. \A n \in 1 .. MaxMade : n \in ExpiredOf(tab[t].snap) => gone'[n] # Nil
    BY <1>0, <1>2, <1>6, GivenUp
  <2> QED
    BY <1>3, <1>4, <2>1, <2>2
<1>9. Loose(rec) = Items(rec.todo) /\ Loose(tab[t]) = {}
  BY <1>0, <1>3, NoItems DEF Loose
<1>10. ASSUME ~raced
       PROVE  /\ Distinct(<<>>, behind) /\ LooseDistinct(rec, behind)
              /\ Loose(rec) \cap Items(<<>>) \subseteq behind
              /\ Items(<<>>) \cup Loose(rec) \subseteq Items(Stored(t)) \cup Loose(tab[t])
              /\ \A n \in Items(Stored(t)) \cup Loose(tab[t]) :
                    n \in Items(<<>>) \cup Loose(rec) \/ gone'[n] # Nil
  <2>1. tab[t].snap = Stored(t) /\ Distinct(Stored(t), behind)
    BY <1>0, <1>10, StoredOnce, SenderConstants
  <2>2. LooseDistinct(rec, behind)
    BY <1>3, <1>4, <2>1, NoItems DEF LooseDistinct
  <2> QED
    BY <1>3, <1>4, <1>7, <1>8, <1>9, <2>1, <2>2
<1> QED
  BY <1>0, <1>2, <1>3, <1>5, <1>7, <1>10, SenderConstants, WriteStep

-----------------------------------------------------------------------------
(* The flush.                                                              *)

(* The flush sends the next item. *)
LEMMA FlushNextStep == ASSUME SenderInv, NEW t \in Tabs, FlushNext(t) PROVE SenderInv'
<1>0. /\ SenderTyped /\ SendsInv /\ AloneInv /\ FoundInv /\ OnceInv /\ FreshInv /\ CountInv
      /\ made \in Nat /\ MaxMade \in Nat
  BY SenderParts
<1>1. /\ TabOK(tab[t]) /\ tab = [u \in Tabs |-> tab[u]]
      /\ tab[t].io = Nil /\ tab[t].flushing /\ tab[t].todo # <<>>
      /\ UNCHANGED <<queue, clock, made, got, unsure, gone, raced, behind>>
  BY <1>0 DEF SenderTyped, FlushNext, Free
<1>2. PICK i : i = Head(tab[t].todo)
  OBVIOUS
<1>3. PICK rest : rest = Tail(tab[t].todo)
  OBVIOUS
<1>4. /\ i \in QueueItem /\ rest \in Seq(QueueItem)
      /\ Items(tab[t].todo) = {i.n} \cup Items(rest)
      /\ Distinct(tab[t].todo, behind)
           => Distinct(rest, behind) /\ i.n \notin Items(rest) \ behind
  BY <1>1, <1>2, <1>3, HeadTaken DEF TabOK
<1>5. PICK y : y = [tab[t] EXCEPT !.todo = rest]
  OBVIOUS
<1>6. tab' = [tab EXCEPT ![t] = y]
  BY <1>1, <1>3, <1>5 DEF FlushNext
<1>7. /\ DOMAIN y = TabFields
      /\ y.inMemory = tab[t].inMemory /\ y.memory = tab[t].memory
      /\ y.io = tab[t].io /\ y.snap = tab[t].snap /\ y.add = tab[t].add
      /\ y.event = tab[t].event
      /\ y.flushing = tab[t].flushing /\ y.todo = rest /\ y.failed = tab[t].failed
  BY <1>1, <1>5 DEF TabOK, TabFields
<1>8. TabOK(y)
  BY <1>1, <1>4, <1>7, SenderConstants DEF TabOK
<1>9. PICK x : x = [n |-> i.n, tab |-> t, at |-> i.at, got |-> FALSE]
  OBVIOUS
<1>10. /\ sends' = sends \cup {x} /\ x.n = i.n /\ x.tab = t /\ x.got = FALSE /\ x \in Fetches
       /\ i.n \in 1 .. MaxMade
  <2>1. i.n \in 1 .. MaxMade /\ i.at \in Nat
    BY <1>4 DEF QueueItem
  <2> QED
    BY <1>2, <1>9, <2>1 DEF FlushNext, Fetches
<1>11. Sent' = Sent \cup {i.n}
  BY <1>10 DEF Sent
<1>12. /\ tab' = [u \in Tabs |-> tab'[u]] /\ tab'[t] = y
       /\ \A u \in Tabs \ {t} : tab'[u] = tab[u]
  BY <1>0, <1>6, OneTab
<1>13. TabItems(tab[t]) = TabItems(y) \cup {i.n}
  BY <1>4, <1>7 DEF TabItems, Loose
<1>14. SenderTyped'
  <2>1. \A u \in Tabs : TabOK(tab'[u])
    BY <1>0, <1>8, <1>12 DEF SenderTyped
  <2> QED
    BY <1>0, <1>1, <1>10, <1>12, <2>1 DEF SenderTyped
<1>15. SendsInv'
  <2>1. SUFFICES ASSUME NEW v \in sends'
                 PROVE  /\ v.at # Nil => /\ tab'[v.tab].flushing
                                          /\ tab'[v.tab].io \notin {"clear", "merge"}
                        /\ v.got => got[v.n] > 0
    BY <1>1 DEF SendsInv
  <2>2. tab'[t].flushing /\ tab'[t].io \notin {"clear", "merge"}
    BY <1>1, <1>7, <1>12, SenderConstants
  <2>3. CASE v = x
    BY <1>10, <2>2, <2>3
  <2>4. CASE v \in sends
    <3>1. v.tab \in Tabs
      BY <1>0, <2>4 DEF SenderTyped, Fetches
    <3> QED
      BY <1>0, <1>12, <2>2, <2>4, <3>1 DEF SendsInv
  <2> QED
    BY <1>10, <2>1, <2>3, <2>4
<1>16. AloneInv'
  BY <1>0, <1>1, <1>7, <1>12, AloneKept
<1>17. FoundInv'
  <2>1. \A n : Kept(n) => Kept(n)'
    BY <1>1, <1>11, <1>12, <1>13 DEF Kept
  <2> QED
    BY <1>0, <1>1, <2>1, FoundMoved
<1>18. OnceInv'
  <2>1. ASSUME ~raced'
        PROVE  /\ Distinct(queue', behind')
               /\ \A a, b \in sends' : a.n = b.n => a = b \/ a.n \in behind'
               /\ Items(queue') \cap Sent' \subseteq behind'
               /\ TabDistinct(tab'[t], behind')
               /\ TabItems(tab'[t]) \cap Items(queue') \subseteq behind'
               /\ TabItems(tab'[t]) \cap Sent' \subseteq behind'
    <3>1. /\ Distinct(queue, behind) /\ Items(queue) \cap Sent \subseteq behind
          /\ TabDistinct(tab[t], behind)
          /\ TabItems(tab[t]) \cap Items(queue) \subseteq behind
          /\ TabItems(tab[t]) \cap Sent \subseteq behind
          /\ \A a, b \in sends : a.n = b.n => a = b \/ a.n \in behind
      BY <1>0, <1>1, <2>1 DEF OnceInv
    <3>2. LooseDistinct(y, behind)
      BY <1>4, <1>7, <3>1 DEF TabDistinct, LooseDistinct
    <3>3. TabDistinct(y, behind)
      BY <1>4, <1>7, <3>1, <3>2 DEF TabDistinct, Loose
    <3>4. i.n \notin TabItems(y) \ behind
      BY <1>4, <1>7, <3>1 DEF TabDistinct, LooseDistinct, TabItems, Loose
    <3>5. \A a, b \in sends' : a.n = b.n => a = b \/ a.n \in behind'
      BY <1>1, <1>10, <1>13, <3>1 DEF Sent
    <3> QED
      BY <1>1, <1>11, <1>12, <1>13, <3>1, <3>3, <3>4, <3>5
  <2>2. \A n \in Items(queue') \cup Sent' \cup TabItems(tab'[t]) :
           n \in Items(queue) \cup Sent \cup TabItems(tab[t])
    BY <1>1, <1>11, <1>12, <1>13
  <2> QED
    BY <1>0, <1>1, <1>12, <2>1, <2>2, OnceMoved
<1>19. FreshInv'
  <2>1. \A n \in Items(queue') \cup Sent' \cup TabItems(tab'[t]) : Kept(n)
    BY <1>1, <1>11, <1>12, <1>13 DEF Kept
  <2>2. made' >= made /\ made' \in Nat
    BY <1>0, <1>1
  <2> QED
    BY <1>0, <1>1, <1>12, <2>1, <2>2, FreshMoved
<1>20. CountInv'
  <2>1. \A n : Unseen(n)' => Unseen(n)
    BY <1>1, <1>10, <1>12, <1>13 DEF Unseen
  <2> QED
    BY <1>0, <1>1, <2>1, CountMoved
<1> QED
  BY <1>14, <1>15, <1>16, <1>17, <1>18, <1>19, <1>20 DEF SenderInv

(* An item of a flush was received. *)
LEMMA FlushSucceeds ==
    ASSUME SenderInv, NEW x \in sends, x.got, sends' = sends \ {x},
           UNCHANGED <<queue, tab, clock, made, got, unsure, gone, raced, behind>>
    PROVE  SenderInv'
<1>0. /\ SenderTyped /\ SendsInv /\ FoundInv /\ OnceInv /\ FreshInv /\ CountInv
      /\ made \in Nat /\ MaxMade \in Nat
  BY SenderParts
<1>1. x \in Fetches /\ x.n \in 1 .. MaxMade /\ x.tab \in Tabs /\ got[x.n] > 0
  BY <1>0 DEF SenderTyped, Fetches, SendsInv
<1>2. Sent' \subseteq Sent /\ Sent \subseteq Sent' \cup {x.n}
  BY DEF Sent
<1>3. SenderTyped' /\ SendsInv'
  BY <1>0 DEF SenderTyped, SendsInv
<1>4. FoundInv'
  <2>1. \A n : Kept(n) => Kept(n)' \/ n = x.n
    BY <1>2 DEF Kept
  <2> QED
    BY <1>0, <1>1, <2>1, FoundMoved
<1>5. OnceInv'
  <2>1. ~raced => \A a, b \in sends' : a.n = b.n => a = b \/ a.n \in behind'
    BY <1>0 DEF OnceInv
  <2> QED
    BY <1>1, <1>2, <2>1, NetOnce
<1>6. FreshInv'
  <2>1. made' >= made /\ made' \in Nat
    BY <1>0
  <2> QED
    BY <1>1, <1>2, <2>1, NetFresh
<1>7. CountInv'
  <2>1. \A n : Unseen(n)' => Unseen(n)
    BY DEF Unseen
  <2> QED
    BY <1>0, <2>1, CountMoved
<1> QED
  BY <1>3, <1>4, <1>5, <1>6, <1>7, NetAlone DEF SenderInv

(* An item of a flush failed, received or not: it is kept for the merge. *)
LEMMA FlushFails ==
    ASSUME SenderInv, NEW x \in sends, x.at # Nil, Free(x.tab), sends' = sends \ {x}, Doubt(x),
           tab' = [tab EXCEPT ![x.tab].failed = Append(@, [n |-> x.n, at |-> x.at])],
           UNCHANGED <<queue, clock, made, got, gone, raced, behind>>
    PROVE  SenderInv'
<1>0. /\ SenderTyped /\ SendsInv /\ AloneInv /\ FoundInv /\ OnceInv /\ FreshInv /\ CountInv
      /\ made \in Nat /\ MaxMade \in Nat
  BY SenderParts
<1> DEFINE t == x.tab
<1>1. /\ x \in Fetches /\ x.n \in 1 .. MaxMade /\ t \in Tabs /\ x.at \in Nat
      /\ tab[t].flushing /\ tab[t].io = Nil /\ TabOK(tab[t]) /\ tab = [u \in Tabs |-> tab[u]]
  BY <1>0 DEF SenderTyped, Fetches, SendsInv, Free
<1>2. PICK i : i = [n |-> x.n, at |-> x.at]
  OBVIOUS
<1>3. i \in QueueItem /\ i.n = x.n
  BY <1>1, <1>2 DEF QueueItem
<1>4. PICK s : s = Append(tab[t].failed, i)
  OBVIOUS
<1>5. /\ s \in Seq(QueueItem) /\ Items(s) = Items(tab[t].failed) \cup {x.n}
      /\ Distinct(tab[t].failed, behind) /\ x.n \notin Items(tab[t].failed) \ behind
           => Distinct(s, behind)
  BY <1>1, <1>3, <1>4, ItemAppended DEF TabOK
<1>6. PICK y : y = [tab[t] EXCEPT !.failed = s]
  OBVIOUS
<1>7. tab' = [tab EXCEPT ![t] = y]
  BY <1>1, <1>2, <1>4, <1>6
<1> HIDE DEF t
<1>8. /\ DOMAIN y = TabFields
      /\ y.inMemory = tab[t].inMemory /\ y.memory = tab[t].memory
      /\ y.io = tab[t].io /\ y.snap = tab[t].snap /\ y.add = tab[t].add
      /\ y.event = tab[t].event
      /\ y.flushing = tab[t].flushing /\ y.todo = tab[t].todo /\ y.failed = s
  BY <1>1, <1>6 DEF TabOK, TabFields
<1>9. TabOK(y)
  BY <1>1, <1>5, <1>8, SenderConstants DEF TabOK
<1>10. /\ unsure' \in Tally
       /\ \A n \in 1 .. MaxMade : n # x.n => unsure'[n] = unsure[n]
  BY <1>0, Doubted
<1>11. Sent' \subseteq Sent /\ Sent \subseteq Sent' \cup {x.n} /\ x.n \in Sent
  BY DEF Sent
<1>12. /\ tab' = [u \in Tabs |-> tab'[u]] /\ tab'[t] = y
       /\ \A u \in Tabs \ {t} : tab'[u] = tab[u]
  BY <1>0, <1>1, <1>7, OneTab
<1>13. TabItems(y) = TabItems(tab[t]) \cup {x.n}
  BY <1>5, <1>8 DEF TabItems, Loose
<1>14. SenderTyped'
  <2>1. \A u \in Tabs : TabOK(tab'[u])
    BY <1>0, <1>9, <1>12 DEF SenderTyped
  <2> QED
    BY <1>0, <1>10, <1>12, <2>1 DEF SenderTyped
<1>15. SendsInv'
  BY <1>0, <1>1, <1>7, <1>8, SendsMoved, SenderConstants
<1>16. AloneInv'
  BY <1>0, <1>8, <1>12, AloneKept
<1>17. FoundInv'
  <2>1. \A n : Kept(n) => Kept(n)'
    BY <1>1, <1>11, <1>12, <1>13 DEF Kept
  <2> QED
    BY <1>0, <2>1, FoundMoved
<1>18. OnceInv'
  <2>1. ASSUME ~raced'
        PROVE  /\ Distinct(queue', behind')
               /\ \A a, b \in sends' : a.n = b.n => a = b \/ a.n \in behind'
               /\ Items(queue') \cap Sent' \subseteq behind'
               /\ TabDistinct(tab'[t], behind')
               /\ TabItems(tab'[t]) \cap Items(queue') \subseteq behind'
               /\ TabItems(tab'[t]) \cap Sent' \subseteq behind'
    <3>1. x.n \notin Sent' \ behind
      BY <1>0, <2>1 DEF OnceInv, Sent
    <3>2. /\ Distinct(queue, behind) /\ Items(queue) \cap Sent \subseteq behind
          /\ TabDistinct(tab[t], behind)
          /\ TabItems(tab[t]) \cap Items(queue) \subseteq behind
          /\ TabItems(tab[t]) \cap Sent \subseteq behind
          /\ \A a, b \in sends : a.n = b.n => a = b \/ a.n \in behind
      BY <1>0, <1>1, <2>1 DEF OnceInv
    <3>3. x.n \notin TabItems(tab[t]) \ behind
      BY <1>11, <3>2
    <3>4. LooseDistinct(y, behind)
      BY <1>5, <1>8, <3>2, <3>3 DEF TabDistinct, LooseDistinct, TabItems, Loose
    <3>5. TabDistinct(y, behind)
      BY <1>5, <1>8, <3>2, <3>3, <3>4 DEF TabDistinct, TabItems, Loose
    <3>6. x.n \notin Items(queue) \ behind
      BY <1>11, <3>2
    <3>7. /\ TabItems(y) \cap Items(queue) \subseteq behind
          /\ TabItems(y) \cap Sent' \subseteq behind
      BY <1>11, <1>13, <3>1, <3>2, <3>6
    <3>8. \A a, b \in sends' : a.n = b.n => a = b \/ a.n \in behind'
      BY <3>2
    <3> QED
      BY <1>11, <1>12, <3>2, <3>5, <3>7, <3>8
  <2>2. \A n \in Items(queue') \cup Sent' \cup TabItems(tab'[t]) :
           n \in Items(queue) \cup Sent \cup TabItems(tab[t])
    BY <1>11, <1>12, <1>13
  <2> QED
    BY <1>0, <1>1, <1>12, <2>1, <2>2, OnceMoved
<1>19. FreshInv'
  <2>1. \A n \in Items(queue') \cup Sent' \cup TabItems(tab'[t]) : Kept(n)
    BY <1>1, <1>11, <1>12, <1>13 DEF Kept
  <2>2. made' >= made /\ made' \in Nat
    BY <1>0
  <2>3. SUFFICES ASSUME ~raced PROVE FreshInv'
    BY DEF FreshInv
  <2>4. ~(x.n > made)
    BY <1>0, <1>1, <1>11, <2>3 DEF FreshInv, Kept
  <2>5. \A n \in 1 .. MaxMade : n > made' => got'[n] = got[n] /\ unsure'[n] = unsure[n]
    BY <1>10, <2>4
  <2> QED
    BY <1>0, <1>1, <1>12, <2>1, <2>2, <2>5, FreshMoved
<1>20. CountInv'
  <2>1. \A n : Unseen(n)' => Unseen(n) \/ n = x.n
    BY <1>12, <1>13 DEF Unseen
  <2> QED
    BY <2>1, CountDoubted
<1> QED
  BY <1>14, <1>15, <1>16, <1>17, <1>18, <1>19, <1>20 DEF SenderInv

(* An answer of the flush. *)
LEMMA FlushAnsweredStep == ASSUME SenderInv, NEW x, FlushAnswered(x) PROVE SenderInv'
<1>1. CASE x.got /\ UNCHANGED <<tab, unsure, flips>>
  BY <1>1, FlushSucceeds DEF FlushAnswered
<1>2. CASE /\ Doubt(x)
           /\ tab' = [tab EXCEPT ![x.tab].failed = Append(@, [n |-> x.n, at |-> x.at])]
  BY <1>2, FlushFails DEF FlushAnswered
<1> QED
  BY <1>1, <1>2 DEF FlushAnswered

-----------------------------------------------------------------------------
(* The browser, and the whole step.                                        *)

(* The tabs are told that the browser is online, or nobody is told anything. *)
LEMMA ToldStep ==
    ASSUME SenderInv,
           tab' = tab \/ tab' = [t \in Tabs |-> [tab[t] EXCEPT !.event = TRUE]],
           clock' \in Nat, UNCHANGED <<queue, sends, made, got, unsure, gone, raced, behind>>
    PROVE  SenderInv'
<1>0. /\ SenderTyped /\ SendsInv /\ AloneInv /\ FoundInv /\ OnceInv /\ FreshInv /\ CountInv
  BY SenderParts
<1>1. ASSUME NEW u \in Tabs
      PROVE  /\ TabOK(tab[u]) /\ DOMAIN tab'[u] = DOMAIN tab[u] /\ tab'[u].event \in BOOLEAN
             /\ tab'[u].io = tab[u].io /\ tab'[u].snap = tab[u].snap
             /\ tab'[u].add = tab[u].add /\ tab'[u].flushing = tab[u].flushing
             /\ tab'[u].todo = tab[u].todo /\ tab'[u].failed = tab[u].failed
             /\ tab'[u].inMemory = tab[u].inMemory /\ tab'[u].memory = tab[u].memory
  <2>1. TabOK(tab[u])
    BY <1>0 DEF SenderTyped
  <2>2. CASE tab' = tab
    BY <2>1, <2>2 DEF TabOK
  <2>3. CASE tab' = [t \in Tabs |-> [tab[t] EXCEPT !.event = TRUE]]
    <3>1. tab'[u] = [tab[u] EXCEPT !.event = TRUE]
      BY <2>3
    <3> QED
      BY <2>1, <3>1 DEF TabOK, TabFields
  <2> QED
    BY <2>2, <2>3
<1>2. \A u \in Tabs : /\ TabItems(tab'[u]) = TabItems(tab[u])
                      /\ TabDistinct(tab[u], behind) => TabDistinct(tab'[u], behind)
  BY <1>1 DEF TabItems, Loose, TabDistinct, LooseDistinct
<1>3. Sent' = Sent
  BY DEF Sent
<1>4. \A n : (Kept(n)' <=> Kept(n)) /\ (Unseen(n)' <=> Unseen(n))
  BY <1>2, <1>3 DEF Kept, Unseen
<1>5. SenderTyped'
  <2>1. \A u \in Tabs : TabOK(tab'[u])
    BY <1>1 DEF TabOK
  <2>2. tab' = [u \in Tabs |-> tab'[u]]
    BY <1>0 DEF SenderTyped
  <2> QED
    BY <1>0, <2>1, <2>2 DEF SenderTyped
<1>6. SendsInv'
  <2>1. \A x \in sends : x.tab \in Tabs
    BY <1>0 DEF SenderTyped, Fetches
  <2> QED
    BY <1>0, <1>1, <2>1 DEF SendsInv
<1>7. AloneInv'
  BY <1>0, <1>1, AloneKept
<1>8. FoundInv' /\ FreshInv' /\ CountInv'
  BY <1>0, <1>4 DEF FoundInv, FreshInv, CountInv
<1>9. OnceInv'
  BY <1>0, <1>2, <1>3 DEF OnceInv
<1> QED
  BY <1>5, <1>6, <1>7, <1>8, <1>9 DEF SenderInv

(* The connection and the clock. *)
LEMMA BrowserStep == ASSUME SenderInv, Connection \/ ClockTick PROVE SenderInv'
<1>1. clock \in Nat
  BY SenderParts DEF SenderTyped
<1>2. CASE Connection
  BY <1>1, <1>2, ToldStep DEF Connection
<1>3. CASE ClockTick
  BY <1>1, <1>3, ToldStep DEF ClockTick
<1> QED
  BY <1>2, <1>3

(* A new tab keeps nothing. *)
LEMMA FreshOK ==
    /\ TabOK(Fresh) /\ TabItems(Fresh) = {} /\ \A d : TabDistinct(Fresh, d)
    /\ Fresh.io = Nil /\ ~Fresh.inMemory
<1>1. /\ DOMAIN Fresh = TabFields
      /\ Fresh.inMemory = FALSE /\ Fresh.memory = <<>>
      /\ Fresh.io = Nil /\ Fresh.snap = <<>> /\ Fresh.add = <<>> /\ Fresh.event = FALSE
      /\ Fresh.flushing = FALSE /\ Fresh.todo = <<>> /\ Fresh.failed = <<>>
  BY DEF Fresh, TabFields
<1>2. TabOK(Fresh)
  <2>1. <<>> \in Seq(QueueItem) /\ Nil \notin {"clear", "merge"}
    BY SenderConstants
  <2> QED
    BY <1>1, <2>1 DEF TabOK
<1>3. TabItems(Fresh) = {} /\ \A d : TabDistinct(Fresh, d)
  BY <1>1, NoItems DEF TabItems, Loose, TabDistinct, LooseDistinct
<1> QED
  BY <1>1, <1>2, <1>3

(* A tab is closed with what it keeps; its fetches arrive or are lost. *)
LEMMA CloseStep == ASSUME SenderInv, NEW t \in Tabs, Close(t) PROVE SenderInv'
<1>0. /\ SenderTyped /\ SendsInv /\ AloneInv /\ FoundInv /\ OnceInv /\ FreshInv /\ CountInv
      /\ made \in Nat /\ MaxMade \in Nat
  BY SenderParts
<1>1. /\ tab[t].io = Nil /\ tab' = [tab EXCEPT ![t] = Fresh]
      /\ sends' = {x \in sends : x.tab # t} /\ TabOK(tab[t])
      /\ UNCHANGED <<queue, clock, made, unsure, raced, behind>>
  BY <1>0 DEF Close, Free, SenderTyped
<1>2. PICK open : open = {x \in sends : x.tab = t}
  OBVIOUS
<1>3. PICK lost \in SUBSET {x \in open : ~x.got} :
        /\ got' = [n \in 1 .. MaxMade |->
                      got[n] + IF \E x \in open \ lost : x.n = n /\ ~x.got THEN 1 ELSE 0]
        /\ gone' = GiveUp(gone, Items(tab[t].memory) \cup Items(tab[t].todo)
                                  \cup Items(tab[t].failed) \cup {x.n : x \in lost}, "closed")
  BY <1>2 DEF Close
<1> DEFINE Arrives(n) == \E x \in open \ lost : x.n = n /\ ~x.got
<1>4. ASSUME NEW n \in 1 .. MaxMade
      PROVE  /\ got[n] \in Nat /\ unsure[n] \in Nat /\ got'[n] \in Nat
             /\ Arrives(n) => got'[n] = got[n] + 1
             /\ ~Arrives(n) => got'[n] = got[n]
  <2>1. got[n] \in Nat /\ unsure[n] \in Nat
    BY <1>0 DEF SenderTyped, Tally
  <2>2. got'[n] = got[n] + IF Arrives(n) THEN 1 ELSE 0
    BY <1>3
  <2> HIDE DEF Arrives
  <2> QED
    BY <2>1, <2>2
<1>5. got' \in Tally
  <2>1. got' = [n \in 1 .. MaxMade |-> got'[n]]
    BY <1>3
  <2> QED
    BY <1>4, <2>1 DEF Tally
<1>6. PICK ns : ns = Items(tab[t].memory) \cup Items(tab[t].todo) \cup Items(tab[t].failed)
                       \cup {x.n : x \in lost}
  OBVIOUS
<1>7. gone' = GiveUp(gone, ns, "closed") /\ "closed" \in Reasons
  BY <1>3, <1>6 DEF Reasons
<1>8. /\ gone' \in [1 .. MaxMade -> {Nil} \cup Reasons]
      /\ \A n \in 1 .. MaxMade : gone[n] # Nil => gone'[n] # Nil
      /\ \A n \in 1 .. MaxMade : n \in ns => gone'[n] # Nil
  BY <1>0, <1>7, GivenUp, GivenUpTyped
<1>9. /\ tab' = [u \in Tabs |-> tab'[u]] /\ tab'[t] = Fresh
      /\ \A u \in Tabs \ {t} : tab'[u] = tab[u]
  BY <1>0, <1>1, OneTab
<1>10. TabItems(tab[t]) \subseteq ns
  BY <1>1, <1>6, TabItemsOK DEF TabItems
<1>11. Sent' \subseteq Sent /\ \A x \in sends : x.n \in Sent /\ x.n \in 1 .. MaxMade /\ x.tab \in Tabs
  BY <1>0, <1>1 DEF Sent, SenderTyped, Fetches
<1>12. SenderTyped'
  <2>1. \A u \in Tabs : TabOK(tab'[u])
    BY <1>0, <1>9, FreshOK DEF SenderTyped
  <2> QED
    BY <1>0, <1>1, <1>5, <1>8, <1>9, <2>1 DEF SenderTyped
<1>13. \A n \in 1 .. MaxMade : got[n] > 0 => got'[n] > 0
  BY <1>4
<1>14. SendsInv'
  BY <1>0, <1>1, <1>9, <1>11, <1>13 DEF SendsInv
<1>15. AloneInv'
  <2>1. /\ \A u \in Tabs \ {t} : Stored(u)' = Stored(u) /\ (Using(u)' <=> Using(u))
        /\ tab'[t].io = Nil /\ ~Using(t)'
    BY <1>1, <1>9, FreshOK DEF Stored, Using
  <2> QED
    BY <1>0, <1>1, <1>9, <2>1 DEF AloneInv
<1>16. FoundInv'
  <2>1. ASSUME NEW n \in 1 .. MaxMade, Kept(n)
        PROVE  Kept(n)' \/ got'[n] > 0 \/ gone'[n] # Nil
    <3>1. CASE n \in Items(queue)
      BY <1>1, <3>1 DEF Kept
    <3>2. CASE n \in Sent
      <4>1. PICK x \in sends : x.n = n
        BY <3>2 DEF Sent
      <4>2. CASE x.tab # t
        <5>1. n \in Sent'
          BY <1>1, <4>1, <4>2 DEF Sent
        <5> QED
          BY <5>1 DEF Kept
      <4>3. CASE x.tab = t /\ x.got
        BY <1>0, <1>13, <4>1, <4>3 DEF SendsInv
      <4>4. CASE x.tab = t /\ ~x.got /\ x \in lost
        <5>1. n \in ns
          BY <1>6, <4>1, <4>4
        <5> QED
          BY <1>8, <5>1
      <4>5. CASE x.tab = t /\ ~x.got /\ x \notin lost
        <5>1. Arrives(n)
          BY <1>2, <4>1, <4>5
        <5> HIDE DEF Arrives
        <5> QED
          BY <1>4, <5>1
      <4> QED
        BY <4>2, <4>3, <4>4, <4>5
    <3>3. CASE n \in TabItems(tab[t])
      BY <1>8, <1>10, <3>3
    <3>4. CASE \E u \in Tabs \ {t} : n \in TabItems(tab[u])
      BY <1>9, <3>4 DEF Kept
    <3> QED
      BY <2>1, <3>1, <3>2, <3>3, <3>4 DEF Kept
  <2>2. \A n \in 1 .. made : n \in 1 .. MaxMade
    BY <1>0 DEF SenderTyped
  <2>3. \A n \in 1 .. made : got[n] > 0 => got'[n] > 0
    BY <1>13, <2>2
  <2>4. \A n \in 1 .. made : gone[n] # Nil => gone'[n] # Nil
    BY <1>8, <2>2
  <2> QED
    BY <1>0, <1>1, <2>1, <2>2, <2>3, <2>4, FoundMoved
<1>17. OnceInv'
  <2>1. ASSUME ~raced'
        PROVE  /\ Distinct(queue', behind')
               /\ \A a, b \in sends' : a.n = b.n => a = b \/ a.n \in behind'
               /\ Items(queue') \cap Sent' \subseteq behind'
               /\ TabDistinct(tab'[t], behind')
               /\ TabItems(tab'[t]) \cap Items(queue') \subseteq behind'
               /\ TabItems(tab'[t]) \cap Sent' \subseteq behind'
    <3>1. /\ Distinct(queue, behind) /\ Items(queue) \cap Sent \subseteq behind
          /\ \A a, b \in sends : a.n = b.n => a = b \/ a.n \in behind
      BY <1>0, <1>1, <2>1 DEF OnceInv
    <3> QED
      BY <1>1, <1>9, <1>11, <3>1, FreshOK
  <2>2. \A n \in Items(queue') \cup Sent' \cup TabItems(tab'[t]) :
           n \in Items(queue) \cup Sent \cup TabItems(tab[t])
    BY <1>1, <1>9, <1>11, FreshOK
  <2> QED
    BY <1>0, <1>1, <1>9, <2>1, <2>2, OnceMoved
<1>18. FreshInv'
  <2>1. \A n \in Items(queue') \cup Sent' \cup TabItems(tab'[t]) : Kept(n)
    BY <1>1, <1>9, <1>11, FreshOK DEF Kept
  <2>2. made' >= made /\ made' \in Nat
    BY <1>0, <1>1
  <2>3. SUFFICES ASSUME ~raced PROVE FreshInv'
    BY <1>1 DEF FreshInv
  <2>4. \A n \in 1 .. MaxMade : n > made' => ~Arrives(n)
    BY <1>0, <1>1, <1>2, <1>11, <2>3 DEF FreshInv, Kept
  <2> HIDE DEF Arrives
  <2>5. \A n \in 1 .. MaxMade : n > made' => got'[n] = got[n] /\ unsure'[n] = unsure[n]
    BY <1>1, <1>4, <2>4
  <2> QED
    BY <1>0, <1>1, <1>9, <2>1, <2>2, <2>5, FreshMoved
<1>19. CountInv'
  <2>1. SUFFICES ASSUME ~raced, NEW n \in (1 .. MaxMade) \ behind
                 PROVE  got'[n] <= unsure[n] + 1 /\ (Unseen(n)' => got'[n] <= unsure[n])
    BY <1>1 DEF CountInv
  <2>2. Unseen(n)' => Unseen(n)
    BY <1>1, <1>9, FreshOK DEF Unseen
  <2>3. got[n] <= unsure[n] + 1 /\ (Unseen(n) => got[n] <= unsure[n])
    BY <1>0, <2>1 DEF CountInv
  <2>4. CASE Arrives(n)
    <3>1. PICK x \in sends : x.tab = t /\ x.n = n /\ ~x.got
      BY <1>2, <2>4
    <3>2. Unseen(n)
      BY <3>1 DEF Unseen
    <3>3. n \notin Items(queue) /\ \A u \in Tabs : n \notin TabItems(tab[u])
      BY <1>0, <1>11, <2>1, <3>1 DEF OnceInv
    <3>4. \A v \in sends' : v.n # n
      BY <1>0, <1>1, <2>1, <3>1 DEF OnceInv
    <3>5. ~Unseen(n)'
      BY <1>1, <1>9, <3>3, <3>4, FreshOK DEF Unseen
    <3> HIDE DEF Arrives
    <3> QED
      BY <1>4, <2>3, <2>4, <3>2, <3>5
  <2>5. CASE ~Arrives(n)
    <3> HIDE DEF Arrives
    <3> QED
      BY <1>4, <2>2, <2>3, <2>5
  <2> QED
    BY <2>4, <2>5
<1> QED
  BY <1>12, <1>14, <1>15, <1>16, <1>17, <1>18, <1>19 DEF SenderInv

(* sendSession() and sendSessionBeacon(). *)
LEMMA SendStep ==
    ASSUME SenderInv, NEW t \in Tabs, SendSession(t) \/ SendSessionBeacon(t) PROVE SenderInv'
<1>1. CASE SendSession(t) /\ online
  BY <1>1, SendBuilt DEF SendSession
<1>2. CASE SendSession(t) /\ ~online
  BY <1>2, EnqueueBuilt DEF SendSession
<1>3. CASE SendSessionBeacon(t)
  <2>1. CASE ~online /\ Enqueue(t, made') /\ UNCHANGED <<got, gone>>
    BY <1>3, <2>1, EnqueueBuilt DEF SendSessionBeacon
  <2>2. CASE online /\ got' = [got EXCEPT ![made'] = @ + 1] /\ UNCHANGED <<tab, raced, gone>>
    BY <1>3, <2>2, BeaconArrives DEF SendSessionBeacon
  <2>3. CASE online /\ gone' = GiveUp(gone, {made'}, "beacon") /\ UNCHANGED <<tab, raced, got>>
    BY <1>3, <2>3, BeaconIsLost DEF SendSessionBeacon
  <2> QED
    BY <1>3, <2>1, <2>2, <2>3 DEF SendSessionBeacon
<1> QED
  BY <1>1, <1>2, <1>3

(* The invariant holds when the site is opened. *)
LEMMA SenderStarts == SenderInit => SenderInv
<1>1. SUFFICES ASSUME SenderInit PROVE SenderInv
  OBVIOUS
<1>2. /\ queue = <<>> /\ sends = {} /\ made = 0 /\ raced = FALSE /\ behind = {}
      /\ tab = [u \in Tabs |-> tab[u]] /\ \A u \in Tabs : tab[u] = Fresh
      /\ MaxMade \in Nat
      /\ \A n \in 1 .. MaxMade : got[n] = 0 /\ unsure[n] = 0
  BY <1>1, SenderConstants DEF SenderInit
<1>3. Items(queue) = {} /\ Distinct(queue, behind) /\ Sent = {}
  BY <1>2, NoItems DEF Sent
<1>4. SenderTyped
  <2>1. queue \in Seq(QueueItem)
    BY <1>2
  <2>2. got \in Tally /\ unsure \in Tally /\ clock \in Nat /\ made \in 0 .. MaxMade
    BY <1>1, <1>2 DEF SenderInit, Tally
  <2>3. gone \in [1 .. MaxMade -> {Nil} \cup Reasons]
    BY <1>1 DEF SenderInit
  <2> QED
    BY <1>2, <2>1, <2>2, <2>3, FreshOK DEF SenderTyped
<1>5. SendsInv /\ AloneInv /\ FoundInv
  BY <1>2, FreshOK DEF SendsInv, AloneInv, FoundInv, Using
<1>6. OnceInv
  BY <1>2, <1>3, FreshOK DEF OnceInv
<1>7. \A n : ~Kept(n) /\ ~Unseen(n)
  BY <1>2, <1>3, FreshOK DEF Kept, Unseen
<1>8. FreshInv /\ CountInv
  BY <1>2, <1>7 DEF FreshInv, CountInv
<1> QED
  BY <1>4, <1>5, <1>6, <1>8 DEF SenderInv

(* A step that changes nothing keeps the invariant. *)
LEMMA SenderStutters == ASSUME SenderInv, UNCHANGED senderVars PROVE SenderInv'
<1>1. UNCHANGED <<queue, tab, sends, clock, made, got, unsure, gone, raced, behind>>
  BY DEF senderVars
<1>2. clock' \in Nat
  BY <1>1, SenderParts DEF SenderTyped
<1> QED
  BY <1>1, <1>2, ToldStep

(* Every step keeps the invariant. *)
LEMMA SenderStep == SenderInv /\ [SenderNext]_senderVars => SenderInv'
<1>1. SUFFICES ASSUME SenderInv, [SenderNext]_senderVars PROVE SenderInv'
  OBVIOUS
<1>2. ASSUME NEW t \in Tabs,
             \/ SendSession(t) \/ SendSessionBeacon(t) \/ Push(t)
             \/ HandleOnline(t) \/ Clear(t) \/ FlushNext(t) \/ FlushEnd(t) \/ MergeBack(t)
             \/ FallBack(t) \/ Close(t)
      PROVE  SenderInv'
  BY <1>1, <1>2, SendStep, PushStep, HandleOnlineStep, ClearStep, FlushNextStep, FlushEndStep,
     MergeBackStep, FallBackStep, CloseStep
<1>3. ASSUME NEW x \in sends,
             Receive(x) \/ FetchAnswered(x) \/ SendFails(x) \/ Timeout(x) \/ FlushAnswered(x)
      PROVE  SenderInv'
  BY <1>1, <1>3, ReceiveStep, AnswerStep, TimeoutStep, FlushAnsweredStep
<1>4. CASE Connection \/ ClockTick
  BY <1>1, <1>4, BrowserStep
<1>5. CASE UNCHANGED senderVars
  BY <1>1, <1>5, SenderStutters
<1> QED
  BY <1>1, <1>2, <1>3, <1>4, <1>5 DEF SenderNext

(* The invariant of the sender. *)
LEMMA SenderInvariant == SenderSpec => []SenderInv
<1>1. SenderInit => SenderInv
  BY SenderStarts
<1>2. SenderInv /\ [SenderNext]_senderVars => SenderInv'
  BY SenderStep
<1> QED
  BY <1>1, <1>2, PTL DEF SenderSpec

(* Every payload that was built was received, is still held somewhere, or  *)
(* was given up for a reason the sender knows of, whatever the connection, *)
(* the timeouts, the flushes, the closed tabs and the failures of          *)
(* localStorage do, as long as no two tabs raced for the queue there:      *)
(* handleOnline(), enqueue() and saveQueue() of sender.ts, on the Storage  *)
(* of storage.ts, lose nothing silently.                                   *)
THEOREM NothingEverVanishes == SenderSpec => []NothingVanishes
<1>1. SenderInv => NothingVanishes
  <2>1. SUFFICES ASSUME SenderInv, NEW n \in 1 .. made, ~raced, Kept(n) PROVE Held(n)
    BY SenderParts DEF FoundInv, NothingVanishes
  <2> QED
    BY <2>1 DEF Kept, Held, Sent, TabItems, Loose
<1>2. SenderSpec => []SenderInv
  BY SenderInvariant
<1> QED
  BY <1>1, <1>2, PTL

(* The server receives a payload a second time only for each time it had   *)
(* received it and the tab took the fetch as failed, unless a failed write *)
(* of Storage.set() left it behind in localStorage: the flush of           *)
(* handleOnline() and the retry after a timeout in sender.ts send nothing  *)
(* twice by themselves.                                                    *)
THEOREM RepeatsAlwaysExplained == SenderSpec => []RepeatsAreExplained
<1>1. SenderInv => RepeatsAreExplained
  <2>1. SUFFICES ASSUME SenderInv, NEW n \in 1 .. made, ~raced, n \notin behind
                 PROVE  got[n] <= unsure[n] + 1
    BY DEF RepeatsAreExplained
  <2>2. n \in 1 .. MaxMade /\ CountInv
    BY <2>1, SenderParts
  <2> QED
    BY <2>1, <2>2 DEF CountInv
<1>2. SenderSpec => []SenderInv
  BY SenderInvariant
<1> QED
  BY <1>1, <1>2, PTL
=============================================================================
