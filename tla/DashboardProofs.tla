-------------------------- MODULE DashboardProofs --------------------------
(***************************************************************************)
(* Proofs about Dashboard for any devices, ranges, interfaces and calls.   *)
(*                                                                         *)
(* The invariant speaks of the page only; each of the script's functions   *)
(* keeps it, and a reset establishes it.  From it follows at the end what  *)
(* the timer and the answers achieve.                                      *)
(***************************************************************************)
EXTENDS Dashboard, TLAPS

\* RefreshFlagIsRight and ShowsTheSelectedDevice of a page p.
FlagIsRight(p) ==
  /\ p.refreshInProgress <=> \E r \in p.refreshes : r.current
  /\ \A q, r \in p.refreshes : q.current /\ r.current => q = r

DisplayedOn(p) == ({p.shown, p.system.device, p.network.device} \ {None}) \cup p.points
ShowsSelected(p) == DisplayedOn(p) \subseteq {p.selected} \cup p.carried

Good(p) == p \in Page /\ FlagIsRight(p) /\ ShowsSelected(p)

LEMMA ChartTypes ==
  /\ LiveChart \in Charts /\ EmptyChart \in Charts
  /\ LiveChart.device = None /\ EmptyChart.device = None
  /\ \A d \in Devices, range \in Ranges :
       [device |-> d, range |-> range] \in Charts
  BY DEF LiveChart, EmptyChart, Charts, Chart

LEMMA OutdatedTypes ==
  /\ \A S \in SUBSET Refresh : Outdated(S) \in SUBSET Refresh /\ \A r \in Outdated(S) : ~r.current
  /\ \A S \in SUBSET History : Outdated(S) \in SUBSET History
<1>1. ASSUME NEW S \in SUBSET Refresh, NEW r \in Outdated(S)
      PROVE  r \in Refresh /\ ~r.current
  BY DEF Outdated, Refresh
<1>2. ASSUME NEW S \in SUBSET History, NEW h \in Outdated(S)
      PROVE  h \in History
  BY DEF Outdated, History
<1>. QED
  BY <1>1, <1>2

-----------------------------------------------------------------------------
(* The script's functions *)

LEMMA ResetIsGood ==
  ASSUME NEW p \in Page
  PROVE  Good(Reset(p))
<1>. DEFINE q == Reset(p)
<1>1. q \in Page
  BY OutdatedTypes, ChartTypes DEF Reset, Page
<1>2. /\ q.refreshInProgress = FALSE
      /\ q.refreshes = Outdated(p.refreshes)
      /\ q.shown = None /\ q.points = {}
      /\ q.system = LiveChart /\ q.network = LiveChart
  BY DEF Reset, Page
<1>3. p.refreshes \in SUBSET Refresh
  BY DEF Page
<1>4. FlagIsRight(q)
  BY <1>2, <1>3, OutdatedTypes DEF FlagIsRight
<1>5. ShowsSelected(q)
  BY <1>2, ChartTypes DEF ShowsSelected, DisplayedOn
<1>. QED
  BY <1>1, <1>4, <1>5 DEF Good

LEMMA ShowRangeIsGood ==
  ASSUME NEW p, Good(p), NEW range \in Ranges \cup {Live}
  PROVE  Good(ShowRange(p, range))
<1>. DEFINE q == ShowRange(p, range)
<1>0. p \in Page
  BY DEF Good
<1>1. Outdated(p.histories) \in SUBSET History
  BY <1>0, OutdatedTypes DEF Page
<1>2. ASSUME p.selected # None, range # Live
      PROVE  [device |-> p.selected, range |-> range, interface |-> None, current |-> TRUE] \in History
  BY <1>0, <1>2 DEF Page, History
<1>3. q \in Page
  BY <1>0, <1>1, <1>2, ChartTypes DEF ShowRange, Page
<1>4. /\ q.refreshInProgress = p.refreshInProgress
      /\ q.refreshes = p.refreshes
      /\ q.shown = p.shown /\ q.points = p.points
      /\ q.selected = p.selected /\ q.carried = p.carried
      /\ q.system.device \in {p.system.device, None}
      /\ q.network.device \in {p.network.device, None}
  BY <1>0, ChartTypes DEF ShowRange, Page
<1>5. FlagIsRight(q)
  BY <1>4 DEF Good, FlagIsRight
<1>6. ShowsSelected(q)
  BY <1>4 DEF Good, ShowsSelected, DisplayedOn
<1>. QED
  BY <1>3, <1>5, <1>6 DEF Good

LEMMA ShowRangeAgainIsGood ==
  ASSUME NEW p, Good(p)
  PROVE  Good(ShowRangeAgain(p))
<1>1. p.range \in Ranges \cup {Live}
  BY DEF Good, Page
<1>. QED
  BY <1>1, ShowRangeIsGood DEF ShowRangeAgain

LEMMA StartRefreshIsGood ==
  ASSUME NEW p, Good(p), NEW showRange \in BOOLEAN
  PROVE  Good(StartRefresh(p, showRange))
<1>. DEFINE q == StartRefresh(p, showRange)
            new == [device |-> p.selected, current |-> TRUE, showRange |-> showRange]
<1>0. p \in Page
  BY DEF Good
<1>1. CASE MayRefresh(p)
  <2>1. new \in Refresh /\ new.current
    BY <1>0, <1>1 DEF MayRefresh, Page, Refresh
  <2>2. /\ Outdated(p.refreshes) \in SUBSET Refresh
        /\ \A r \in Outdated(p.refreshes) : ~r.current
    BY <1>0, OutdatedTypes DEF Page
  <2>3. q = [p EXCEPT !.refreshInProgress = TRUE, !.refreshes = Outdated(p.refreshes) \cup {new}]
    BY <1>1 DEF StartRefresh
  <2>. HIDE DEF new
  <2>. DEFINE rs == Outdated(p.refreshes) \cup {new}
  <2>8. rs \in SUBSET Refresh
    BY <2>1, <2>2
  <2>9. q = [p EXCEPT !.refreshInProgress = TRUE, !.refreshes = rs]
    BY <2>3
  <2>. HIDE DEF rs, q
  <2>4. q \in Page
    BY <1>0, <2>8, <2>9 DEF Page
  <2>. USE DEF q
  <2>5. /\ q.refreshInProgress = TRUE
        /\ q.refreshes = Outdated(p.refreshes) \cup {new}
        /\ q.shown = p.shown /\ q.points = p.points
        /\ q.selected = p.selected /\ q.carried = p.carried
        /\ q.system = p.system /\ q.network = p.network
    BY <1>0, <2>3 DEF Page
  <2>. HIDE DEF q
  <2>6. FlagIsRight(q)
    BY <2>1, <2>2, <2>5 DEF FlagIsRight
  <2>7. ShowsSelected(q)
    BY <2>5 DEF Good, ShowsSelected, DisplayedOn
  <2>. QED
    BY <2>4, <2>6, <2>7 DEF Good, q
<1>2. CASE ~MayRefresh(p)
  BY <1>2, ShowRangeAgainIsGood DEF StartRefresh
<1>. QED
  BY <1>1, <1>2

\* The page when a refresh has ended, before the range is shown again.
Ended(p, r) ==
  [p EXCEPT !.refreshes = @ \ {r}, !.refreshInProgress = IF r.current THEN FALSE ELSE @]

LEMMA EndedIsGood ==
  ASSUME NEW p, Good(p), NEW r \in p.refreshes
  PROVE  Good(Ended(p, r))
<1>. DEFINE q == Ended(p, r)
<1>0. p \in Page /\ r \in Refresh
  BY DEF Good, Page
<1>1. q \in Page
  BY <1>0 DEF Page, Ended
<1>2. /\ q.refreshInProgress = IF r.current THEN FALSE ELSE p.refreshInProgress
      /\ q.refreshes = p.refreshes \ {r}
      /\ q.shown = p.shown /\ q.points = p.points
      /\ q.selected = p.selected /\ q.carried = p.carried
      /\ q.system = p.system /\ q.network = p.network
  BY <1>0 DEF Page, Ended
<1>3. r.current \in BOOLEAN /\ p.refreshInProgress \in BOOLEAN
  BY <1>0 DEF Page, Refresh
<1>. HIDE DEF q
<1>4. FlagIsRight(q)
  <2>1. /\ p.refreshInProgress <=> \E s \in p.refreshes : s.current
        /\ \A s, t \in p.refreshes : s.current /\ t.current => s = t
    BY DEF Good, FlagIsRight
  <2>2. CASE r.current
    BY <1>2, <2>1, <2>2 DEF FlagIsRight
  <2>3. CASE ~r.current
    BY <1>2, <2>1, <2>3 DEF FlagIsRight
  <2>. QED
    BY <2>2, <2>3
<1>5. ShowsSelected(q)
  BY <1>2 DEF Good, ShowsSelected, DisplayedOn
<1>6. Good(q)
  BY <1>1, <1>4, <1>5 DEF Good
<1>. QED
  BY <1>6 DEF q

LEMMA EndRefreshIsGood ==
  ASSUME NEW p, Good(p), NEW r \in p.refreshes
  PROVE  Good(EndRefresh(p, r))
<1>1. EndRefresh(p, r) = IF r.showRange THEN ShowRangeAgain(Ended(p, r)) ELSE Ended(p, r)
  BY DEF EndRefresh, Ended
<1>. QED
  BY <1>1, EndedIsGood, ShowRangeAgainIsGood

LEMMA UpdatedIsGood ==
  ASSUME NEW p, Good(p), NEW newPoint \in BOOLEAN, NEW i \in NextInterfaces(p),
         p.selected # None
  PROVE  /\ Good(Updated(p, p.selected, newPoint, i))
         /\ Updated(p, p.selected, newPoint, i).refreshes = p.refreshes
<1>. DEFINE q == Updated(p, p.selected, newPoint, i)
<1>0. p \in Page
  BY DEF Good
<1>1. p.selected \in Devices /\ i \in Interfaces \cup {None} /\ p.points \in SUBSET Devices
  BY <1>0 DEF Page, NextInterfaces
<1>2. p.listCounter \in 0..(ListEvery - 1)
  BY <1>0 DEF Page
<1>3. (IF p.listCounter = ListEvery - 1 THEN 0 ELSE p.listCounter + 1) \in 0..(ListEvery - 1)
  BY <1>2, BoundsAssumption
<1>4. q = [p EXCEPT !.shown = p.selected,
                    !.points = IF newPoint THEN p.points \cup {p.selected} ELSE p.points,
                    !.interface = i,
                    !.listCounter = IF p.listCounter = ListEvery - 1 THEN 0 ELSE p.listCounter + 1]
  BY DEF Updated, Points
<1>. HIDE DEF q
<1>5. q \in Page
  BY <1>0, <1>1, <1>3, <1>4 DEF Page
<1>6. /\ q.refreshInProgress = p.refreshInProgress
      /\ q.refreshes = p.refreshes
      /\ q.shown = p.selected /\ q.points \subseteq p.points \cup {p.selected}
      /\ q.selected = p.selected /\ q.carried = p.carried
      /\ q.system = p.system /\ q.network = p.network
  BY <1>0, <1>4 DEF Page
<1>7. FlagIsRight(q)
  BY <1>6 DEF Good, FlagIsRight
<1>8. ShowsSelected(q)
  BY <1>6 DEF Good, ShowsSelected, DisplayedOn
<1>9. Good(q)
  BY <1>5, <1>7, <1>8 DEF Good
<1>. QED
  BY <1>6, <1>9 DEF q

\* What a change of the other variables keeps.
LEMMA SelectIsGood ==
  ASSUME NEW p, Good(p), NEW d \in Devices \cup {None}
  PROVE  Good(Select(p, d))
<1>. DEFINE q == Select(p, d)
<1>0. p \in Page
  BY DEF Good
<1>1. /\ p.carried \in SUBSET Devices /\ p.selected \in Devices \cup {None}
      /\ DisplayedOn(p) \subseteq Devices
  BY <1>0, ChartTypes DEF Page, DisplayedOn, Charts, Chart
<1>2. q = [p EXCEPT !.selected = d, !.unfinished = FALSE,
                    !.carried = IF d = p.selected THEN p.carried
                                ELSE (p.carried \cup {p.selected}) \ {None}]
  BY DEF Select
<1>. HIDE DEF q
<1>3. q \in Page
  BY <1>0, <1>1, <1>2 DEF Page
<1>4. /\ q.refreshInProgress = p.refreshInProgress
      /\ q.refreshes = p.refreshes
      /\ q.shown = p.shown /\ q.points = p.points
      /\ q.selected = d
      /\ q.carried = IF d = p.selected THEN p.carried ELSE (p.carried \cup {p.selected}) \ {None}
      /\ q.system = p.system /\ q.network = p.network
  BY <1>0, <1>2 DEF Page
<1>5. FlagIsRight(q)
  BY <1>4 DEF Good, FlagIsRight
<1>6. DisplayedOn(q) = DisplayedOn(p)
  BY <1>4 DEF DisplayedOn
<1>7. ShowsSelected(q)
  BY <1>1, <1>4, <1>6, NamesAssumption DEF Good, ShowsSelected
<1>8. Good(q)
  BY <1>3, <1>5, <1>7 DEF Good
<1>. QED
  BY <1>8 DEF q

\* The display does not depend on the list.
LEMMA AvailableIsGood ==
  ASSUME NEW p, Good(p), NEW l \in Lists, NEW unfinished \in BOOLEAN
  PROVE  /\ Good([p EXCEPT !.available = l])
         /\ Good([p EXCEPT !.unfinished = unfinished])
<1>. DEFINE q == [p EXCEPT !.available = l]
            s == [p EXCEPT !.unfinished = unfinished]
<1>0. p \in Page
  BY DEF Good
<1>1. q \in Page /\ s \in Page
  BY <1>0 DEF Page
<1>2. \A t \in {q, s} :
        /\ t.refreshInProgress = p.refreshInProgress
        /\ t.refreshes = p.refreshes
        /\ t.shown = p.shown /\ t.points = p.points
        /\ t.selected = p.selected /\ t.carried = p.carried
        /\ t.system = p.system /\ t.network = p.network
  BY <1>0 DEF Page
<1>. HIDE DEF q, s
<1>3. \A t \in {q, s} : FlagIsRight(t) /\ ShowsSelected(t)
  BY <1>2 DEF Good, FlagIsRight, ShowsSelected, DisplayedOn
<1>4. Good(q) /\ Good(s)
  BY <1>1, <1>3 DEF Good
<1>. QED
  BY <1>4 DEF q, s

LEMMA InterfaceIsGood ==
  ASSUME NEW p, Good(p), NEW i \in Interfaces
  PROVE  Good([p EXCEPT !.interface = i])
<1>. DEFINE q == [p EXCEPT !.interface = i]
<1>0. p \in Page
  BY DEF Good
<1>1. q \in Page
  BY <1>0 DEF Page
<1>2. /\ q.refreshInProgress = p.refreshInProgress
      /\ q.refreshes = p.refreshes
      /\ q.shown = p.shown /\ q.points = p.points
      /\ q.selected = p.selected /\ q.carried = p.carried
      /\ q.system = p.system /\ q.network = p.network
  BY <1>0 DEF Page
<1>. HIDE DEF q
<1>3. FlagIsRight(q) /\ ShowsSelected(q)
  BY <1>2 DEF Good, FlagIsRight, ShowsSelected, DisplayedOn
<1>4. Good(q)
  BY <1>0, <1>1, <1>3 DEF Good
<1>. QED
  BY <1>4 DEF q

LEMMA ContinueIsGood ==
  ASSUME NEW p, Good(p), NEW call
  PROVE  Good(Continue(p, call))
<1>1. p \in Page
  BY DEF Good
<1>2. Good(StartRefresh(Reset(p), FALSE))
  BY <1>1, ResetIsGood, StartRefreshIsGood
<1>. QED
  BY <1>2 DEF Continue

-----------------------------------------------------------------------------
(* The calls *)

LEMMA CallTypes ==
  /\ NoList \in Lists /\ NoCall \in Call /\ ListCall \in Call
  /\ \A kind \in {"create", "save", "toggle", "delete"}, d \in Devices \cup {None}, enabled \in BOOLEAN :
       page \in Page => NewCall(kind, d, enabled, "sent") \in Call
<1>1. NoList \in Lists
  BY DEF NoList, Lists, States
<1>2. NoCall \in Call
  BY <1>1 DEF NoCall, Call
<1>3. ListCall \in Call
  BY <1>2 DEF ListCall, Call
<1>4. ASSUME NEW kind \in {"create", "save", "toggle", "delete"}, NEW d \in Devices \cup {None},
             NEW enabled \in BOOLEAN
      PROVE  NewCall(kind, d, enabled, "sent") \in Call
  BY <1>1 DEF NewCall, Call
<1>. QED
  BY <1>1, <1>2, <1>3, <1>4

\* The ways in which a step changes a call.
LEMMA CallSteps ==
  ASSUME calls \in [Calls -> Call], NEW c \in Calls,
         NEW pc \in {"sent", "asked", "answered", "listed", "waiting"}
  PROVE  /\ \A d \in Devices : [calls EXCEPT ![c].device = d, ![c].pc = pc] \in [Calls -> Call]
         /\ \A l \in Lists : [calls EXCEPT ![c].list = l, ![c].pc = pc] \in [Calls -> Call]
<1>1. calls[c] \in Call
  OBVIOUS
<1>2. ASSUME NEW d \in Devices
      PROVE  [calls EXCEPT ![c].device = d, ![c].pc = pc] \in [Calls -> Call]
  <2>1. [calls[c] EXCEPT !.device = d, !.pc = pc] \in Call
    BY <1>1 DEF Call
  <2>. QED
    BY <2>1
<1>3. ASSUME NEW l \in Lists
      PROVE  [calls EXCEPT ![c].list = l, ![c].pc = pc] \in [Calls -> Call]
  <2>1. [calls[c] EXCEPT !.list = l, !.pc = pc] \in Call
    BY <1>1 DEF Call
  <2>. QED
    BY <2>1
<1>. QED
  BY <1>2, <1>3

LEMMA RestTypes ==
  ASSUME NEW call \in Call, NEW rest \in Rest(call)
  PROVE  rest \in Call
<1>1. [call EXCEPT !.pc = "waiting", !.list = NoList] \in Call
  <2>1. NoList \in Lists
    BY CallTypes
  <2>. QED
    BY <2>1 DEF Call
<1>. QED
  BY <1>1, CallTypes DEF Rest

-----------------------------------------------------------------------------
(* The invariant *)

Inv ==
  /\ devices \in Lists
  /\ calls \in [Calls -> Call]
  /\ actions \in 0..MaxActions
  /\ failures \in 0..MaxFailures
  /\ Good(page)

LEMMA InitInv == Init => Inv
<1>. SUFFICES ASSUME Init PROVE Inv
  OBVIOUS
<1>1. page \in Page
  BY CallTypes, ChartTypes, BoundsAssumption DEF Init, Page
<1>2. /\ page.refreshInProgress = FALSE /\ page.refreshes = {}
      /\ page.shown = None /\ page.points = {}
      /\ page.system = LiveChart /\ page.network = LiveChart
  BY DEF Init
<1>3. FlagIsRight(page) /\ ShowsSelected(page)
  BY <1>2, ChartTypes DEF FlagIsRight, ShowsSelected, DisplayedOn
<1>4. [ListCall EXCEPT !.kind = "start"] \in Call
  BY CallTypes DEF Call
<1>5. calls \in [Calls -> Call]
  BY <1>4, CallTypes DEF Init
<1>. QED
  BY <1>1, <1>3, <1>5, BoundsAssumption DEF Init, Inv, Good

LEMMA RefreshKeepsInv ==
  ASSUME Inv, NEW r \in page.refreshes, Answer(r) \/ RefreshIsLost(r)
  PROVE  Inv'
<1>. USE DEF Inv
<1>1. Good(EndRefresh(page, r))
  BY EndRefreshIsGood
<1>2. CASE RefreshSucceeds(r)
  <2>1. CASE ~Accepted(r)
    BY <1>1, <1>2, <2>1 DEF RefreshSucceeds
  <2>2. CASE Accepted(r)
    <3>1. page.selected # None /\ r.device = page.selected
      BY <2>2, NamesAssumption DEF Accepted, Good, Page, Refresh
    <3>2. PICK newPoint \in BOOLEAN, i \in NextInterfaces(page) :
            page' = EndRefresh(Updated(page, page.selected, newPoint, i), r)
      BY <1>2, <2>2, <3>1 DEF RefreshSucceeds
    <3>3. Good(page')
      BY <3>1, <3>2, UpdatedIsGood, EndRefreshIsGood
    <3>4. calls' \in [Calls -> Call]
      BY <1>2, <2>2, CallTypes DEF RefreshSucceeds
    <3>. QED
      BY <1>2, <3>3, <3>4 DEF RefreshSucceeds
  <2>. QED
    BY <2>1, <2>2
<1>3. CASE RefreshFails(r)
  BY <1>1, <1>3 DEF RefreshFails
<1>4. CASE RefreshIsLost(r)
  BY <1>1, <1>4, BoundsAssumption DEF RefreshIsLost
<1>. QED
  BY <1>2, <1>3, <1>4 DEF Answer

\* What an answer for a chart does to the page.
LEMMA ChartsAreGood ==
  ASSUME NEW p, Good(p), NEW h \in p.histories, NEW hs \in SUBSET History,
         NEW system \in Charts, NEW network \in Charts,
         {system.device, network.device} \subseteq
           {None, p.selected, p.system.device, p.network.device}
  PROVE  Good([p EXCEPT !.histories = hs, !.system = system, !.network = network])
<1>. DEFINE q == [p EXCEPT !.histories = hs, !.system = system, !.network = network]
<1>0. p \in Page
  BY DEF Good
<1>1. q \in Page
  BY <1>0 DEF Page
<1>2. /\ q.refreshInProgress = p.refreshInProgress
      /\ q.refreshes = p.refreshes
      /\ q.shown = p.shown /\ q.points = p.points
      /\ q.selected = p.selected /\ q.carried = p.carried
      /\ q.system = system /\ q.network = network
  BY <1>0 DEF Page
<1>. HIDE DEF q
<1>3. FlagIsRight(q)
  BY <1>2 DEF Good, FlagIsRight
<1>4. ShowsSelected(q)
  BY <1>2 DEF Good, ShowsSelected, DisplayedOn
<1>5. Good(q)
  BY <1>1, <1>3, <1>4 DEF Good
<1>. QED
  BY <1>5 DEF q

LEMMA HistoryKeepsInv ==
  ASSUME Inv, NEW h \in page.histories, AnswerHistory(h) \/ HistoryFails(h)
  PROVE  Inv'
<1>. DEFINE hs == page.histories \ {h}
            chart == [device |-> h.device, range |-> h.range]
            next == [h EXCEPT !.interface = page.interface, !.range = page.range]
<1>0. /\ page \in Page /\ Good(page)
      /\ h \in History /\ hs \in SUBSET History
      /\ page.system \in Charts /\ page.network \in Charts
      /\ page.range \in Ranges \cup {Live} /\ page.interface \in Interfaces \cup {None}
  BY DEF Inv, Good, Page
<1>1. chart \in Charts /\ chart.device = h.device
  BY <1>0 DEF History, Charts, Chart
<1>2. ASSUME page.range # Live PROVE hs \cup {next} \in SUBSET History
  <2>1. next \in History
    BY <1>0, <1>2 DEF History
  <2>. QED
    BY <1>0, <2>1
<1>3. Answered(h) = [page EXCEPT !.histories = hs, !.system = page.system, !.network = page.network]
  BY <1>0 DEF Answered, Page
<1>. HIDE DEF hs, chart, next
<1>8. {page.system.device, page.network.device} \subseteq
        {None, page.selected, page.system.device, page.network.device}
  OBVIOUS
<1>9. Good([page EXCEPT !.histories = hs, !.system = page.system, !.network = page.network])
  BY <1>0, <1>8, ChartsAreGood
<1>4. Good(Answered(h))
  BY <1>3, <1>9
<1>5. CASE SystemHistory(h)
  <2>1. CASE ~Wanted(h)
    BY <1>4, <1>5, <2>1 DEF SystemHistory, Inv
  <2>2. CASE Wanted(h) /\ (page.range = Live \/ page.interface = None)
    <3>1. page' = [page EXCEPT !.histories = hs, !.system = chart, !.network = LiveChart]
      BY <1>0, <1>5, <2>2 DEF SystemHistory, Answered, Page, hs, chart
    <3>2. Good(page')
      BY <1>0, <1>1, <2>2, <3>1, ChartTypes, ChartsAreGood DEF Wanted
    <3>. QED
      BY <1>5, <3>2 DEF SystemHistory, Inv
  <2>3. CASE Wanted(h) /\ ~(page.range = Live \/ page.interface = None)
    <3>1. page' = [page EXCEPT !.histories = hs \cup {next}, !.system = chart,
                               !.network = page.network]
      BY <1>0, <1>5, <2>3 DEF SystemHistory, Answered, Page, hs, chart, next
    <3>2. Good(page')
      BY <1>0, <1>1, <1>2, <2>3, <3>1, ChartsAreGood DEF Wanted
    <3>. QED
      BY <1>5, <3>2 DEF SystemHistory, Inv
  <2>. QED
    BY <2>1, <2>2, <2>3
<1>6. CASE NetworkHistory(h)
  <2>1. CASE ~Wanted(h)
    BY <1>4, <1>6, <2>1 DEF NetworkHistory, Inv
  <2>2. CASE Wanted(h)
    <3>1. page' = [page EXCEPT !.histories = hs, !.system = page.system, !.network = chart]
      BY <1>0, <1>6, <2>2 DEF NetworkHistory, Answered, Page, hs, chart
    <3>2. Good(page')
      BY <1>0, <1>1, <2>2, <3>1, ChartsAreGood DEF Wanted
    <3>. QED
      BY <1>6, <3>2 DEF NetworkHistory, Inv
  <2>. QED
    BY <2>1, <2>2
<1>7. CASE HistoryFails(h)
  <2>1. failures' \in 0..MaxFailures
    BY <1>7, BoundsAssumption DEF HistoryFails, Inv
  <2>2. Good(page')
    <3>1. CASE ~Wanted(h)
      BY <1>4, <1>7, <3>1 DEF HistoryFails
    <3>2. CASE Wanted(h)
      <4>1. page' = [page EXCEPT !.histories = hs, !.system = EmptyChart, !.network = EmptyChart]
        BY <1>0, <1>7, <3>2 DEF HistoryFails, Answered, Page, hs
      <4>. QED
        BY <1>0, <4>1, ChartTypes, ChartsAreGood
    <3>. QED
      BY <3>1, <3>2
  <2>. QED
    BY <1>7, <2>1, <2>2 DEF HistoryFails, Inv
<1>. QED
  BY <1>5, <1>6, <1>7 DEF AnswerHistory

LEMMA UserKeepsInv ==
  ASSUME Inv, User
  PROVE  Inv'
<1>. USE DEF Inv
<1>0. page \in Page /\ Good(page) /\ page.selected \in Devices \cup {None}
  BY DEF Good, Page
<1>1. ASSUME Act PROVE actions' \in 0..MaxActions
  BY <1>1, BoundsAssumption DEF Act
<1>2. ASSUME NEW d \in Devices, SelectDevice(d) PROVE Inv'
  <2>1. [page EXCEPT !.selected = d] \in Page
    BY <1>0 DEF Page
  <2>2. Good(page')
    BY <1>2, <2>1, ResetIsGood, StartRefreshIsGood DEF SelectDevice
  <2>. QED
    BY <1>1, <1>2, <2>2 DEF SelectDevice
<1>3. ASSUME NEW range \in Ranges \cup {Live}, SelectRange(range) PROVE Inv'
  BY <1>0, <1>1, <1>3, ShowRangeIsGood DEF SelectRange
<1>4. ASSUME NEW i \in Interfaces PROVE Good([page EXCEPT !.interface = i])
  BY <1>0, InterfaceIsGood
<1>5. ASSUME NEW i \in Interfaces, SelectInterface(i) \/ SelectOther(i) PROVE Inv'
  <2>1. (IF page.range = Live THEN OneHour ELSE page.range) \in Ranges \cup {Live}
    BY <1>0, NamesAssumption DEF Page
  <2>2. Good(page')
    BY <1>4, <1>5, <2>1, ShowRangeIsGood DEF SelectInterface, SelectOther
  <2>. QED
    BY <1>1, <1>5, <2>2 DEF SelectInterface, SelectOther
<1>6. ASSUME NEW call \in Call, Send(call) PROVE calls' \in [Calls -> Call]
  BY <1>6 DEF Send
<1>7. ASSUME NEW enabled \in BOOLEAN, SubmitDevice(enabled) PROVE Inv'
  <2>1. NewCall("create", None, enabled, "sent") \in Call
    BY <1>0, CallTypes
  <2>. QED
    BY <1>1, <1>6, <1>7, <2>1 DEF SubmitDevice
<1>8. ASSUME NEW d \in Devices, NEW enabled \in BOOLEAN, SaveEditedDevice(d, enabled) PROVE Inv'
  <2>1. NewCall("save", d, enabled, "sent") \in Call
    BY <1>0, CallTypes
  <2>. QED
    BY <1>1, <1>6, <1>8, <2>1 DEF SaveEditedDevice
<1>9. ASSUME NEW d \in Devices, ToggleManagedDevice(d) PROVE Inv'
  <2>1. (page.available[d] = "disabled") \in BOOLEAN
    OBVIOUS
  <2>2. NewCall("toggle", d, page.available[d] = "disabled", "sent") \in Call
    BY <1>0, <2>1, CallTypes
  <2>. QED
    BY <1>1, <1>6, <1>9, <2>2 DEF ToggleManagedDevice
<1>10. ASSUME NEW d \in Devices, DeleteManagedDevice(d) PROVE Inv'
  <2>1. NewCall("delete", d, FALSE, "sent") \in Call
    BY <1>0, CallTypes
  <2>. QED
    BY <1>1, <1>6, <1>10, <2>1 DEF DeleteManagedDevice
<1>. QED
  BY <1>2, <1>3, <1>5, <1>7, <1>8, <1>9, <1>10 DEF User

LEMMA CallsKeepInv ==
  ASSUME Inv, NEW c \in Calls, Proceed(c) \/ LoseEdit(c) \/ LoadFails(c)
  PROVE  Inv'
<1>. USE DEF Inv
<1>0. page \in Page /\ Good(page) /\ calls[c] \in Call /\ calls[c].list \in Lists
  BY DEF Good, Call
<1>1. \A d \in Devices : [devices EXCEPT ![d] = Effect(calls[c])] \in Lists
  <2>1. Effect(calls[c]) \in States
    BY DEF Effect, States
  <2>. QED
    BY <2>1 DEF Lists
<1>2. Targets(calls[c]) \subseteq Devices
  BY DEF Targets
<1>3. [calls EXCEPT ![c] = NoCall] \in [Calls -> Call]
  BY CallTypes
<1>4. ASSUME failures < MaxFailures, failures' = failures + 1 PROVE failures' \in 0..MaxFailures
  BY <1>4, BoundsAssumption
<1>5. ASSUME NEW rest \in Rest(calls[c]) PROVE [calls EXCEPT ![c] = rest] \in [Calls -> Call]
  BY <1>0, <1>5, RestTypes
<1>6. CASE Commit(c)
  <2>1. PICK d \in Targets(calls[c]) :
          /\ devices' = [devices EXCEPT ![d] = Effect(calls[c])]
          /\ calls' = [calls EXCEPT ![c].device = d, ![c].pc = "asked"]
    BY <1>6 DEF Commit
  <2>2. d \in Devices
    BY <1>2
  <2>3. calls' \in [Calls -> Call]
    BY <2>1, <2>2, CallSteps
  <2>. QED
    BY <1>1, <1>6, <2>1, <2>2, <2>3 DEF Commit
<1>7. CASE Refuse(c)
  BY <1>3, <1>7 DEF Refuse
<1>8. CASE LoseEdit(c)
  BY <1>1, <1>2, <1>3, <1>4, <1>8 DEF LoseEdit
<1>9. CASE AnswerList(c)
  <2>1. [calls EXCEPT ![c].list = devices, ![c].pc = "answered"] \in [Calls -> Call]
    BY CallSteps
  <2>. QED
    BY <1>9, <2>1 DEF AnswerList
<1>10. CASE TakeList(c)
  <2>1. [calls EXCEPT ![c].list = NoList, ![c].pc = "listed"] \in [Calls -> Call]
    BY CallTypes, CallSteps
  <2>2. Good([page EXCEPT !.available = calls[c].list])
    BY <1>0, AvailableIsGood
  <2>. QED
    BY <1>10, <2>1, <2>2 DEF TakeList
<1>11. CASE UseList(c)
  <2>1. PICK d \in NextSelected(page, Preferred(calls[c])) :
          page' = Continue(Select(page, d), calls[c])
    BY <1>11 DEF UseList
  <2>2. d \in Devices \cup {None}
    BY <1>0, <2>1 DEF NextSelected, Enabled, Page
  <2>3. Good(page')
    BY <1>0, <2>1, <2>2, SelectIsGood, ContinueIsGood
  <2>. QED
    BY <1>5, <1>11, <2>3 DEF UseList
<1>12. CASE LoadFails(c)
  <2>1. Good([page EXCEPT !.unfinished = @ \/ calls[c].pc = "listed"])
    <3>1. (page.unfinished \/ calls[c].pc = "listed") \in BOOLEAN
      OBVIOUS
    <3>2. Good([page EXCEPT !.unfinished = page.unfinished \/ calls[c].pc = "listed"])
      BY <1>0, <3>1, AvailableIsGood
    <3>. QED
      BY <3>2
  <2>2. Good(page')
    BY <1>12, <2>1, ContinueIsGood DEF LoadFails
  <2>. QED
    BY <1>4, <1>5, <1>12, <2>2 DEF LoadFails
<1>13. CASE BuildInitialHistory(c)
  <2>1. Good(page')
    BY <1>0, <1>13, ResetIsGood, StartRefreshIsGood DEF BuildInitialHistory
  <2>. QED
    BY <1>3, <1>13, <2>1 DEF BuildInitialHistory
<1>. QED
  BY <1>6, <1>7, <1>8, <1>9, <1>10, <1>11, <1>12, <1>13 DEF Proceed

\* The inductive invariant: the page is of its types, and every function leaves it good.
THEOREM Invariance == Spec => []Inv
<1>1. Init => Inv
  BY InitInv
<1>2. Inv /\ [Next]_vars => Inv'
  <2>. SUFFICES ASSUME Inv, [Next]_vars PROVE Inv'
    OBVIOUS
  <2>1. CASE Tick
    <3>1. Good(page')
      BY <2>1, StartRefreshIsGood DEF Tick, Inv
    <3>. QED
      BY <2>1, <3>1 DEF Tick, Inv
  <2>2. CASE UNCHANGED vars
    BY <2>2 DEF vars, Inv
  <2>. QED
    BY <2>1, <2>2, UserKeepsInv, RefreshKeepsInv, HistoryKeepsInv, CallsKeepInv DEF Next
<1>. QED
  BY <1>1, <1>2, PTL DEF Spec

-----------------------------------------------------------------------------
(* The theorems *)

\* Every variable keeps its type; in particular a refresh and a history are
\* only ever requested for a device.
THEOREM DashboardTypes == Spec => []TypeOK
<1>1. Inv => TypeOK
  BY DEF Inv, Good, TypeOK
<1>. QED
  BY <1>1, Invariance, PTL

\* refreshInProgress is up exactly while the latest refresh is in flight, and
\* no second one is.
THEOREM OneRefreshAtATime == Spec => []RefreshFlagIsRight
<1>1. Inv => RefreshFlagIsRight
  BY DEF Inv, Good, FlagIsRight, RefreshFlagIsRight
<1>. QED
  BY <1>1, Invariance, PTL

\* What is displayed belongs to the selected device, or to one selected before
\* by a list since the last reset.
THEOREM DisplayFollowsSelection == Spec => []ShowsTheSelectedDevice
<1>1. Inv => ShowsTheSelectedDevice
  BY DEF Inv, Good, ShowsSelected, DisplayedOn, ShowsTheSelectedDevice, Displayed
<1>. QED
  BY <1>1, Invariance, PTL

-----------------------------------------------------------------------------
(* The selection *)

SameSelection(p, q) ==
  /\ q.selected = p.selected
  /\ q.available = p.available
  /\ q.unfinished = p.unfinished

LEMMA FunctionsKeepSelection ==
  ASSUME NEW p \in Page
  PROVE  /\ SameSelection(p, Reset(p))
         /\ \A range : SameSelection(p, ShowRange(p, range))
         /\ \A b \in BOOLEAN : SameSelection(p, StartRefresh(p, b))
         /\ \A r : SameSelection(p, EndRefresh(p, r))
         /\ \A d, b, i : SameSelection(p, Updated(p, d, b, i))
<1>. USE DEF SameSelection
<1>1. SameSelection(p, Reset(p))
  BY DEF Reset, Page
<1>2. ASSUME NEW q, DOMAIN q = DOMAIN p, q = [x \in DOMAIN q |-> q[x]],
             SameSelection(p, q), NEW range
      PROVE  SameSelection(p, ShowRange(q, range))
  BY <1>2 DEF ShowRange, Page
<1>3. ASSUME NEW range PROVE SameSelection(p, ShowRange(p, range))
  BY DEF ShowRange, Page
<1>4. SameSelection(p, ShowRangeAgain(p))
  BY <1>3 DEF ShowRangeAgain
<1>5. ASSUME NEW b \in BOOLEAN PROVE SameSelection(p, StartRefresh(p, b))
  BY <1>4 DEF StartRefresh, Page
<1>6. ASSUME NEW r PROVE SameSelection(p, EndRefresh(p, r))
  <2>. DEFINE q == [p EXCEPT !.refreshes = @ \ {r},
                             !.refreshInProgress = IF r.current THEN FALSE ELSE @]
  <2>1. SameSelection(p, q) /\ DOMAIN q = DOMAIN p /\ q = [x \in DOMAIN q |-> q[x]]
    BY DEF Page
  <2>. HIDE DEF q
  <2>2. SameSelection(p, ShowRangeAgain(q))
    BY <1>2, <2>1 DEF ShowRangeAgain
  <2>3. EndRefresh(p, r) = IF r.showRange THEN ShowRangeAgain(q) ELSE q
    BY DEF EndRefresh, q
  <2>. QED
    BY <2>1, <2>2, <2>3
<1>7. ASSUME NEW d, NEW b, NEW i PROVE SameSelection(p, Updated(p, d, b, i))
  BY DEF Updated, Page
<1>. QED
  BY <1>1, <1>3, <1>5, <1>6, <1>7

\* An action that neither selects, takes nor uses a list keeps the property:
\* no call that is listed ends in it.
LEMMA SelectionStays ==
  ASSUME SelectionIsListed, SameSelection(page, page'),
         \A c \in Calls : calls[c].pc = "listed" => calls'[c].pc = "listed"
  PROVE  SelectionIsListed'
  BY DEF SelectionIsListed, SameSelection

\* The device selected from a list is in it.
LEMMA NextIsListed ==
  ASSUME NEW p \in Page, NEW preferred, NEW d \in NextSelected(p, preferred)
  PROVE  d = None \/ p.available[d] # "absent"
  BY DEF NextSelected, Enabled, Kept, Page

LEMMA CallsKeepSelection ==
  ASSUME Inv, SelectionIsListed, NEW c \in Calls, Proceed(c) \/ LoseEdit(c) \/ LoadFails(c)
  PROVE  SelectionIsListed'
<1>0. page \in Page /\ Good(page) /\ calls \in [Calls -> Call] /\ calls[c] \in Call
  BY DEF Inv, Good
<1>1. ASSUME NEW p \in Page PROVE SameSelection(p, Continue(p, calls[c]))
  <2>1. Reset(p) \in Page
    BY ResetIsGood DEF Good
  <2>2. SameSelection(p, StartRefresh(Reset(p), FALSE))
    BY <2>1, FunctionsKeepSelection DEF SameSelection
  <2>. QED
    BY <2>2 DEF Continue, SameSelection
<1>2. CASE Commit(c) \/ Refuse(c) \/ LoseEdit(c) \/ AnswerList(c)
  <2>1. calls[c].pc \in {"sent", "asked"} /\ page' = page
    BY <1>2 DEF Commit, Refuse, LoseEdit, AnswerList
  <2>2. \A b \in Calls : b # c => calls'[b] = calls[b]
    BY <1>0, <1>2 DEF Commit, Refuse, LoseEdit, AnswerList
  <2>. QED
    BY <2>1, <2>2, SelectionStays DEF SameSelection
<1>3. CASE TakeList(c)
  <2>1. calls'[c].pc = "listed"
    BY <1>0, <1>3 DEF TakeList, Call
  <2>. QED
    BY <2>1 DEF SelectionIsListed
<1>4. CASE UseList(c)
  <2>1. PICK d \in NextSelected(page, Preferred(calls[c])) :
          page' = Continue(Select(page, d), calls[c])
    BY <1>4 DEF UseList
  <2>2. d \in Devices \cup {None}
    BY <1>0, <2>1 DEF NextSelected, Enabled, Page
  <2>3. Select(page, d) \in Page
    BY <1>0, <2>2, SelectIsGood DEF Good
  <2>4. Select(page, d).selected = d /\ Select(page, d).available = page.available
    BY <1>0 DEF Select, Page
  <2>5. page'.selected = d /\ page'.available = page.available
    BY <1>1, <2>1, <2>3, <2>4 DEF SameSelection
  <2>. QED
    BY <1>0, <2>1, <2>5, NextIsListed DEF SelectionIsListed
<1>5. CASE LoadFails(c)
  <2>. DEFINE u == page.unfinished \/ calls[c].pc = "listed"
              p == [page EXCEPT !.unfinished = u]
  <2>1. u \in BOOLEAN
    OBVIOUS
  <2>. HIDE DEF u
  <2>2. p \in Page /\ p.selected = page.selected /\ p.available = page.available /\ p.unfinished = u
    BY <1>0, <2>1 DEF Page
  <2>3. page' = Continue(p, calls[c])
    BY <1>5 DEF LoadFails, u
  <2>. HIDE DEF p
  <2>4. SameSelection(p, page')
    BY <1>1, <2>2, <2>3
  <2>5. page'.selected = page.selected /\ page'.available = page.available /\ page'.unfinished = u
    BY <2>2, <2>4 DEF SameSelection
  <2>6. CASE calls[c].pc = "listed"
    BY <2>5, <2>6 DEF SelectionIsListed, u
  <2>7. CASE calls[c].pc # "listed"
    <3>1. \A b \in Calls : b # c => calls'[b] = calls[b]
      BY <1>0, <1>5 DEF LoadFails
    <3>2. u = page.unfinished
      BY <1>0, <2>7 DEF u, Page
    <3>. QED
      BY <2>5, <2>7, <3>1, <3>2, SelectionStays DEF SameSelection
  <2>. QED
    BY <2>6, <2>7
<1>6. CASE BuildInitialHistory(c)
  <2>1. Reset(page) \in Page
    BY <1>0, ResetIsGood DEF Good
  <2>2. SameSelection(page, page')
    BY <1>0, <1>6, <2>1, FunctionsKeepSelection DEF BuildInitialHistory, SameSelection
  <2>3. \A b \in Calls : b # c => calls'[b] = calls[b]
    BY <1>0, <1>6 DEF BuildInitialHistory
  <2>4. calls[c].pc = "waiting"
    BY <1>6 DEF BuildInitialHistory
  <2>. QED
    BY <2>2, <2>3, <2>4, SelectionStays
<1>. QED
  BY <1>2, <1>3, <1>4, <1>5, <1>6 DEF Proceed

LEMMA UserKeepsSelection ==
  ASSUME Inv, SelectionIsListed, User
  PROVE  SelectionIsListed'
<1>0. page \in Page /\ calls \in [Calls -> Call]
  BY DEF Inv, Good
<1>1. ASSUME NEW d \in Devices, SelectDevice(d) PROVE SelectionIsListed'
  <2>. DEFINE p == [page EXCEPT !.selected = d]
  <2>1. p \in Page /\ p.selected = d /\ p.available = page.available
    BY <1>0 DEF Page
  <2>2. page' = StartRefresh(Reset(p), TRUE) /\ page.available[d] # "absent"
    BY <1>1 DEF SelectDevice
  <2>. HIDE DEF p
  <2>3. Reset(p) \in Page
    BY <2>1, ResetIsGood DEF Good
  <2>4. page'.selected = d /\ page'.available = page.available
    BY <2>1, <2>2, <2>3, FunctionsKeepSelection DEF SameSelection
  <2>. QED
    BY <2>2, <2>4 DEF SelectionIsListed
<1>2. ASSUME NEW range, SelectRange(range) PROVE SelectionIsListed'
  BY <1>0, <1>2, FunctionsKeepSelection, SelectionStays DEF SelectRange
<1>3. ASSUME NEW i \in Interfaces, SelectInterface(i) \/ SelectOther(i) PROVE SelectionIsListed'
  <2>. DEFINE p == [page EXCEPT !.interface = i]
  <2>1. p \in Page /\ SameSelection(page, p)
    BY <1>0 DEF Page, SameSelection
  <2>2. calls' = calls /\ (page' = p \/ \E range : page' = ShowRange(p, range))
    BY <1>3 DEF SelectInterface, SelectOther
  <2>. HIDE DEF p
  <2>3. SameSelection(page, page')
    BY <2>1, <2>2, FunctionsKeepSelection DEF SameSelection
  <2>. QED
    BY <2>2, <2>3, SelectionStays
<1>4. ASSUME NEW call, Send(call), page' = page PROVE SelectionIsListed'
  <2>1. PICK c \in Calls : calls[c] = NoCall /\ calls' = [calls EXCEPT ![c] = call]
    BY <1>4 DEF Send
  <2>2. \A b \in Calls : b # c => calls'[b] = calls[b]
    BY <1>0, <2>1
  <2>3. calls[c].pc # "listed"
    BY <2>1 DEF NoCall
  <2>. QED
    BY <1>4, <2>2, <2>3, SelectionStays DEF SameSelection
<1>5. ASSUME NEW d \in Devices, NEW enabled \in BOOLEAN,
             SubmitDevice(enabled) \/ SaveEditedDevice(d, enabled)
               \/ ToggleManagedDevice(d) \/ DeleteManagedDevice(d)
      PROVE  SelectionIsListed'
  BY <1>4, <1>5 DEF SubmitDevice, SaveEditedDevice, ToggleManagedDevice, DeleteManagedDevice
<1>6. ASSUME NEW enabled \in BOOLEAN, SubmitDevice(enabled) PROVE SelectionIsListed'
  BY <1>4, <1>6 DEF SubmitDevice
<1>. QED
  BY <1>1, <1>2, <1>3, <1>5, <1>6 DEF User

LEMMA AnswersKeepSelection ==
  ASSUME Inv, SelectionIsListed,
         \/ Tick
         \/ \E r \in page.refreshes : Answer(r) \/ RefreshIsLost(r)
         \/ \E h \in page.histories : AnswerHistory(h) \/ HistoryFails(h)
  PROVE  SelectionIsListed'
<1>0. page \in Page /\ Good(page) /\ calls \in [Calls -> Call]
  BY DEF Inv, Good
<1>1. CASE Tick
  BY <1>0, <1>1, FunctionsKeepSelection, SelectionStays DEF Tick
<1>2. ASSUME NEW r \in page.refreshes, RefreshSucceeds(r) PROVE SelectionIsListed'
  <2>1. CASE ~Accepted(r)
    BY <1>0, <1>2, <2>1, FunctionsKeepSelection, SelectionStays DEF RefreshSucceeds
  <2>2. CASE Accepted(r)
    <3>1. page.selected # None /\ r.device = page.selected
      BY <1>0, <2>2, NamesAssumption DEF Accepted, Page, Refresh
    <3>2. PICK newPoint \in BOOLEAN, i \in NextInterfaces(page) :
            page' = EndRefresh(Updated(page, page.selected, newPoint, i), r)
      BY <1>2, <2>2, <3>1 DEF RefreshSucceeds
    <3>3. Updated(page, page.selected, newPoint, i) \in Page
      BY <1>0, <3>1, UpdatedIsGood DEF Good
    <3>4. SameSelection(page, page')
      BY <1>0, <3>2, <3>3, FunctionsKeepSelection DEF SameSelection
    <3>5. \A c \in Calls : calls[c].pc = "listed" => calls'[c].pc = "listed"
      BY <1>0, <1>2, <2>2 DEF RefreshSucceeds, NoCall
    <3>. QED
      BY <3>4, <3>5, SelectionStays
  <2>. QED
    BY <2>1, <2>2
<1>3. ASSUME NEW r \in page.refreshes, RefreshFails(r) \/ RefreshIsLost(r) PROVE SelectionIsListed'
  BY <1>0, <1>3, FunctionsKeepSelection, SelectionStays DEF RefreshFails, RefreshIsLost
<1>4. ASSUME NEW h \in page.histories, AnswerHistory(h) \/ HistoryFails(h) PROVE SelectionIsListed'
  <2>1. calls' = calls
    BY <1>4 DEF AnswerHistory, SystemHistory, NetworkHistory, HistoryFails
  <2>2. SameSelection(page, page')
    <3>1. CASE SystemHistory(h)
      BY <1>0, <3>1 DEF SystemHistory, Answered, SameSelection, Page
    <3>2. CASE NetworkHistory(h)
      BY <1>0, <3>2 DEF NetworkHistory, Answered, SameSelection, Page
    <3>3. CASE HistoryFails(h)
      BY <1>0, <3>3 DEF HistoryFails, Answered, SameSelection, Page
    <3>. QED
      BY <1>4, <3>1, <3>2, <3>3 DEF AnswerHistory
  <2>. QED
    BY <2>1, <2>2, SelectionStays
<1>. QED
  BY <1>1, <1>2, <1>3, <1>4 DEF Answer

\* The selected device is listed, however many loads overlap.
THEOREM SelectionStaysListed == Spec => []SelectionIsListed
<1>1. Init => SelectionIsListed
  BY DEF Init, SelectionIsListed
<1>2. Inv /\ SelectionIsListed /\ [Next]_vars => SelectionIsListed'
  <2>. SUFFICES ASSUME Inv, SelectionIsListed, [Next]_vars PROVE SelectionIsListed'
    OBVIOUS
  <2>1. CASE UNCHANGED vars
    BY <2>1 DEF vars, SelectionIsListed
  <2>. QED
    BY <2>1, UserKeepsSelection, AnswersKeepSelection, CallsKeepSelection DEF Next
<1>. QED
  BY <1>1, <1>2, Invariance, PTL DEF Spec
-----------------------------------------------------------------------------
(* The ranges of the charts *)

Fits(chart, p) == chart.range \in {Live, Empty, p.range}
Asked(p) == {h \in p.histories : h.current /\ h.device = p.selected}

\* A chart of another range is about to be replaced: by an answer that is still
\* wanted, which for the system chart is the first of the two.
RangesFit(p) ==
  /\ \A h \in p.histories : h.current => h.range = p.range
  /\ p.carried # {} \/ Fits(p.system, p) \/ \E h \in Asked(p) : h.interface = None
  /\ p.carried # {} \/ Fits(p.network, p) \/ Asked(p) # {}

SameCharts(p, q) ==
  /\ q.range = p.range /\ q.histories = p.histories
  /\ q.selected = p.selected /\ q.carried = p.carried
  /\ q.system = p.system /\ q.network = p.network

LEMMA SameChartsFit ==
  ASSUME NEW p, NEW q, RangesFit(p), SameCharts(p, q)
  PROVE  RangesFit(q)
  BY DEF RangesFit, SameCharts, Fits, Asked

LEMMA StandardCharts ==
  /\ \A p : Fits(LiveChart, p) /\ Fits(EmptyChart, p)
  /\ \A S \in SUBSET History : \A h \in Outdated(S) : ~h.current
<1>1. ASSUME NEW p PROVE Fits(LiveChart, p) /\ Fits(EmptyChart, p)
  BY DEF Fits, LiveChart, EmptyChart
<1>2. ASSUME NEW S \in SUBSET History, NEW h \in Outdated(S) PROVE ~h.current
  BY DEF Outdated, History
<1>. QED
  BY <1>1, <1>2

\* Without a selected device, and none carried, no chart shows a history.
LEMMA NothingSelected ==
  ASSUME NEW p, Good(p), p.selected = None, p.carried = {}
  PROVE  {p.system, p.network} \subseteq {LiveChart, EmptyChart}
<1>1. /\ p.system \in Charts /\ p.network \in Charts
      /\ {p.system.device, p.network.device} \subseteq {None}
  BY DEF Good, Page, ShowsSelected, DisplayedOn
<1>2. \A chart \in Chart : chart.device # None
  BY NamesAssumption DEF Chart
<1>. QED
  BY <1>1, <1>2 DEF Charts

LEMMA ResetFits ==
  ASSUME NEW p \in Page, \A h \in p.histories : h.current => h.range = p.range
  PROVE  RangesFit(Reset(p))
<1>. DEFINE q == Reset(p)
<1>1. /\ q.histories = p.histories /\ q.range = p.range
      /\ q.system = LiveChart /\ q.network = LiveChart
  BY DEF Reset, Page
<1>. HIDE DEF q
<1>2. RangesFit(q)
  BY <1>1, StandardCharts DEF RangesFit
<1>. QED
  BY <1>2 DEF q

LEMMA ShowRangeFits ==
  ASSUME NEW p, Good(p), NEW range \in Ranges \cup {Live}
  PROVE  RangesFit(ShowRange(p, range))
<1>. DEFINE q == ShowRange(p, range)
            out == Outdated(p.histories)
            new == [device |-> p.selected, range |-> range, interface |-> None, current |-> TRUE]
<1>0. p \in Page
  BY DEF Good
<1>1. \A h \in out : ~h.current
  BY <1>0, StandardCharts DEF Page
<1>2. CASE p.selected = None
  <2>1. /\ q.histories = out /\ q.range = range /\ q.selected = None /\ q.carried = p.carried
        /\ \/ q.system = p.system /\ q.network = p.network
           \/ q.system = EmptyChart /\ q.network = EmptyChart
    BY <1>0, <1>2 DEF ShowRange, Page
  <2>. HIDE DEF q, out
  <2>2. q.carried # {} \/ {q.system, q.network} \subseteq {LiveChart, EmptyChart}
    BY <1>2, <2>1, NothingSelected
  <2>3. RangesFit(q)
    BY <1>1, <2>1, <2>2, StandardCharts DEF RangesFit
  <2>. QED
    BY <2>3 DEF q
<1>3. CASE p.selected # None /\ range = Live
  <2>1. /\ q.histories = out /\ q.system = LiveChart /\ q.network = LiveChart
    BY <1>0, <1>3 DEF ShowRange, Page
  <2>. HIDE DEF q, out
  <2>2. RangesFit(q)
    BY <1>1, <2>1, StandardCharts DEF RangesFit
  <2>. QED
    BY <2>2 DEF q
<1>4. CASE p.selected # None /\ range # Live
  <2>1. q.histories = out \cup {new} /\ q.range = range /\ q.selected = p.selected
    BY <1>0, <1>4 DEF ShowRange, Page
  <2>2. new.current /\ new.device = p.selected /\ new.range = range /\ new.interface = None
    OBVIOUS
  <2>. HIDE DEF q, out, new
  <2>3. new \in Asked(q)
    BY <2>1, <2>2 DEF Asked
  <2>4. RangesFit(q)
    BY <1>1, <2>1, <2>2, <2>3 DEF RangesFit
  <2>. QED
    BY <2>4 DEF q
<1>. QED
  BY <1>2, <1>3, <1>4

LEMMA ShowRangeAgainFits ==
  ASSUME NEW p, Good(p), RangesFit(p)
  PROVE  RangesFit(ShowRangeAgain(p))
<1>1. p.range \in Ranges \cup {Live}
  BY DEF Good, Page
<1>. QED
  BY <1>1, ShowRangeFits DEF ShowRangeAgain

LEMMA StartRefreshFits ==
  ASSUME NEW p, Good(p), RangesFit(p), NEW showRange \in BOOLEAN
  PROVE  RangesFit(StartRefresh(p, showRange))
<1>1. CASE MayRefresh(p)
  <2>1. SameCharts(p, StartRefresh(p, showRange))
    BY <1>1 DEF StartRefresh, SameCharts, Good, Page
  <2>. QED
    BY <2>1, SameChartsFit
<1>2. CASE ~MayRefresh(p)
  BY <1>2, ShowRangeAgainFits DEF StartRefresh
<1>. QED
  BY <1>1, <1>2

LEMMA EndRefreshFits ==
  ASSUME NEW p, Good(p), RangesFit(p), NEW r \in p.refreshes
  PROVE  RangesFit(EndRefresh(p, r))
<1>1. SameCharts(p, Ended(p, r))
  BY DEF SameCharts, Good, Page, Ended
<1>2. EndRefresh(p, r) = IF r.showRange THEN ShowRangeAgain(Ended(p, r)) ELSE Ended(p, r)
  BY DEF EndRefresh, Ended
<1>3. RangesFit(Ended(p, r))
  BY <1>1, SameChartsFit
<1>. QED
  BY <1>2, <1>3, EndedIsGood, ShowRangeAgainFits

LEMMA UpdatedFits ==
  ASSUME NEW p \in Page, RangesFit(p), NEW d, NEW newPoint, NEW i
  PROVE  RangesFit(Updated(p, d, newPoint, i))
<1>1. SameCharts(p, Updated(p, d, newPoint, i))
  BY DEF Updated, SameCharts, Page
<1>. QED
  BY <1>1, SameChartsFit

\* A device that is deselected is carried; what was asked without one is not
\* of a device.
LEMMA SelectFits ==
  ASSUME NEW p, Good(p), RangesFit(p), NEW d \in Devices \cup {None}
  PROVE  RangesFit(Select(p, d))
<1>. DEFINE q == Select(p, d)
<1>0. p \in Page /\ p.carried \in SUBSET Devices /\ p.histories \in SUBSET History
  BY DEF Good, Page
<1>1. /\ q.range = p.range /\ q.histories = p.histories /\ q.selected = d
      /\ q.system = p.system /\ q.network = p.network
      /\ q.carried = IF d = p.selected THEN p.carried ELSE (p.carried \cup {p.selected}) \ {None}
  BY <1>0 DEF Select, Page
<1>. HIDE DEF q
<1>2. CASE d = p.selected
  <2>1. SameCharts(p, q)
    BY <1>1, <1>2 DEF SameCharts
  <2>2. RangesFit(q)
    BY <2>1, SameChartsFit
  <2>. QED
    BY <2>2 DEF q
<1>3. CASE d # p.selected /\ (p.selected # None \/ p.carried # {})
  <2>1. q.carried # {}
    BY <1>0, <1>1, <1>3, NamesAssumption
  <2>2. RangesFit(q)
    BY <1>1, <2>1 DEF RangesFit
  <2>. QED
    BY <2>2 DEF q
<1>4. CASE p.selected = None /\ p.carried = {}
  <2>1. {q.system, q.network} \subseteq {LiveChart, EmptyChart}
    BY <1>1, <1>4, NothingSelected
  <2>2. RangesFit(q)
    BY <1>1, <2>1, StandardCharts DEF RangesFit
  <2>. QED
    BY <2>2 DEF q
<1>. QED
  BY <1>2, <1>3, <1>4
LEMMA ContinueFits ==
  ASSUME NEW p, Good(p), RangesFit(p), NEW call
  PROVE  RangesFit(Continue(p, call))
<1>1. p \in Page /\ \A h \in p.histories : h.current => h.range = p.range
  BY DEF Good, RangesFit
<1>2. Good(Reset(p)) /\ RangesFit(Reset(p))
  BY <1>1, ResetIsGood, ResetFits
<1>. QED
  BY <1>2, StartRefreshFits DEF Continue

LEMMA RefreshesFit ==
  ASSUME Inv, RangesFit(page), NEW r \in page.refreshes, Answer(r) \/ RefreshIsLost(r)
  PROVE  RangesFit(page')
<1>0. Good(page) /\ page \in Page
  BY DEF Inv, Good
<1>1. RangesFit(EndRefresh(page, r))
  BY <1>0, EndRefreshFits
<1>2. CASE RefreshSucceeds(r) /\ Accepted(r)
  <2>1. page.selected # None /\ r.device = page.selected
    BY <1>0, <1>2, NamesAssumption DEF Accepted, Page, Refresh
  <2>2. PICK newPoint \in BOOLEAN, i \in NextInterfaces(page) :
          page' = EndRefresh(Updated(page, page.selected, newPoint, i), r)
    BY <1>2, <2>1 DEF RefreshSucceeds
  <2>3. /\ Good(Updated(page, page.selected, newPoint, i))
        /\ Updated(page, page.selected, newPoint, i).refreshes = page.refreshes
        /\ RangesFit(Updated(page, page.selected, newPoint, i))
    BY <1>0, <2>1, UpdatedIsGood, UpdatedFits
  <2>. QED
    BY <2>2, <2>3, EndRefreshFits
<1>3. CASE ~(RefreshSucceeds(r) /\ Accepted(r))
  <2>1. page' = EndRefresh(page, r)
    BY <1>3 DEF Answer, RefreshSucceeds, RefreshFails, RefreshIsLost
  <2>. QED
    BY <1>1, <2>1
<1>. QED
  BY <1>2, <1>3

\* An answer that nothing waits for does not matter; one that is wanted puts
\* its chart right, and the first one asks for the second.
LEMMA HistoriesFit ==
  ASSUME Inv, RangesFit(page), NEW h \in page.histories, AnswerHistory(h) \/ HistoryFails(h)
  PROVE  RangesFit(page')
<1>. DEFINE hs == page.histories \ {h}
            chart == [device |-> h.device, range |-> h.range]
            next == [h EXCEPT !.interface = page.interface, !.range = page.range]
<1>0. page \in Page /\ h \in History /\ page.interface \in Interfaces \cup {None}
  BY DEF Inv, Good, Page
<1>1. CASE ~Wanted(h)
  <2>1. page' = Answered(h)
    BY <1>1 DEF AnswerHistory, SystemHistory, NetworkHistory, HistoryFails
  <2>2. /\ page'.histories = hs /\ page'.range = page.range
        /\ page'.selected = page.selected /\ page'.carried = page.carried
        /\ page'.system = page.system /\ page'.network = page.network
    BY <1>0, <2>1 DEF Answered, Page
  <2>3. Asked(page') = Asked(page)
    BY <1>1, <2>2 DEF Asked, Wanted
  <2>. QED
    BY <2>2, <2>3 DEF RangesFit, Fits
<1>2. ASSUME Wanted(h)
      PROVE  h.current /\ h.device = page.selected /\ h.range = page.range
  BY <1>2 DEF Wanted, RangesFit
<1>3. CASE Wanted(h) /\ HistoryFails(h)
  <2>1. /\ page'.histories = hs /\ page'.range = page.range
        /\ page'.system = EmptyChart /\ page'.network = EmptyChart
    BY <1>0, <1>3 DEF HistoryFails, Answered, Page
  <2>. QED
    BY <2>1, StandardCharts DEF RangesFit
<1>4. CASE Wanted(h) /\ NetworkHistory(h)
  <2>1. /\ page'.histories = hs /\ page'.range = page.range
        /\ page'.selected = page.selected /\ page'.carried = page.carried
        /\ page'.system = page.system /\ page'.network = chart
    BY <1>0, <1>4 DEF NetworkHistory, Answered, Page
  <2>2. h.interface # None
    BY <1>4 DEF NetworkHistory
  <2>3. Fits(chart, page')
    BY <1>2, <1>4, <2>1 DEF Fits
  <2>. HIDE DEF chart
  <2>4. \A g \in Asked(page) : g.interface = None => g \in Asked(page')
    BY <2>1, <2>2 DEF Asked
  <2>. QED
    BY <2>1, <2>3, <2>4 DEF RangesFit, Fits
<1>5. CASE Wanted(h) /\ SystemHistory(h) /\ (page.range = Live \/ page.interface = None)
  <2>1. /\ page'.histories = hs /\ page'.range = page.range
        /\ page'.system = chart /\ page'.network = LiveChart
    BY <1>0, <1>5 DEF SystemHistory, Answered, Page
  <2>2. Fits(chart, page')
    BY <1>2, <1>5, <2>1 DEF Fits
  <2>. QED
    BY <2>1, <2>2, StandardCharts DEF RangesFit
<1>6. CASE Wanted(h) /\ SystemHistory(h) /\ ~(page.range = Live \/ page.interface = None)
  <2>1. /\ page'.histories = hs \cup {next} /\ page'.range = page.range
        /\ page'.selected = page.selected /\ page'.carried = page.carried
        /\ page'.system = chart
    BY <1>0, <1>6 DEF SystemHistory, Answered, Page
  <2>2. Fits(chart, page')
    BY <1>2, <1>6, <2>1 DEF Fits
  <2>3. next.range = page.range /\ next.current = h.current /\ next.device = h.device
    BY <1>0 DEF History
  <2>. HIDE DEF next, chart
  <2>4. next \in Asked(page')
    BY <1>2, <1>6, <2>1, <2>3 DEF Asked
  <2>. QED
    BY <2>1, <2>2, <2>3, <2>4 DEF RangesFit
<1>. QED
  BY <1>1, <1>3, <1>4, <1>5, <1>6 DEF AnswerHistory

LEMMA UserFits ==
  ASSUME Inv, RangesFit(page), User
  PROVE  RangesFit(page')
<1>0. Good(page) /\ page \in Page /\ \A h \in page.histories : h.current => h.range = page.range
  BY DEF Inv, Good, RangesFit
<1>1. ASSUME NEW d \in Devices, SelectDevice(d) PROVE RangesFit(page')
  <2>. DEFINE p == [page EXCEPT !.selected = d]
  <2>1. p \in Page /\ p.histories = page.histories /\ p.range = page.range
    BY <1>0 DEF Page
  <2>2. page' = StartRefresh(Reset(p), TRUE)
    BY <1>1 DEF SelectDevice
  <2>. HIDE DEF p
  <2>3. Good(Reset(p)) /\ RangesFit(Reset(p))
    BY <1>0, <2>1, ResetIsGood, ResetFits
  <2>. QED
    BY <2>2, <2>3, StartRefreshFits
<1>2. ASSUME NEW range \in Ranges \cup {Live}, SelectRange(range) PROVE RangesFit(page')
  BY <1>0, <1>2, ShowRangeFits DEF SelectRange
<1>3. ASSUME NEW i \in Interfaces, SelectInterface(i) PROVE RangesFit(page')
  <2>1. (IF page.range = Live THEN OneHour ELSE page.range) \in Ranges \cup {Live}
    BY <1>0, NamesAssumption DEF Page
  <2>. QED
    BY <1>0, <1>3, <2>1, InterfaceIsGood, ShowRangeFits DEF SelectInterface
<1>4. ASSUME NEW i \in Interfaces, SelectOther(i) PROVE RangesFit(page')
  <2>1. SameCharts(page, page')
    BY <1>0, <1>4 DEF SelectOther, SameCharts, Page
  <2>. QED
    BY <2>1, SameChartsFit
<1>5. CASE page' = page
  BY <1>5
<1>. QED
  BY <1>1, <1>2, <1>3, <1>4, <1>5
     DEF User, SubmitDevice, SaveEditedDevice, ToggleManagedDevice, DeleteManagedDevice

LEMMA CallsFit ==
  ASSUME Inv, RangesFit(page), NEW c \in Calls, Proceed(c) \/ LoseEdit(c) \/ LoadFails(c)
  PROVE  RangesFit(page')
<1>0. /\ Good(page) /\ page \in Page /\ calls[c] \in Call /\ calls[c].list \in Lists
      /\ \A h \in page.histories : h.current => h.range = page.range
  BY DEF Inv, Good, RangesFit, Call
<1>1. CASE Commit(c) \/ Refuse(c) \/ LoseEdit(c) \/ AnswerList(c)
  <2>1. page' = page
    BY <1>1 DEF Commit, Refuse, LoseEdit, AnswerList
  <2>. QED
    BY <2>1
<1>2. CASE TakeList(c)
  <2>1. SameCharts(page, page')
    BY <1>0, <1>2 DEF TakeList, SameCharts, Page
  <2>. QED
    BY <2>1, SameChartsFit
<1>3. CASE UseList(c)
  <2>1. PICK d \in NextSelected(page, Preferred(calls[c])) :
          page' = Continue(Select(page, d), calls[c])
    BY <1>3 DEF UseList
  <2>2. d \in Devices \cup {None}
    BY <1>0, <2>1 DEF NextSelected, Enabled, Page
  <2>. QED
    BY <1>0, <2>1, <2>2, SelectIsGood, SelectFits, ContinueFits
<1>4. CASE LoadFails(c)
  <2>. DEFINE u == page.unfinished \/ calls[c].pc = "listed"
              p == [page EXCEPT !.unfinished = u]
  <2>1. u \in BOOLEAN
    OBVIOUS
  <2>. HIDE DEF u
  <2>2. Good(p)
    BY <1>0, <2>1, AvailableIsGood
  <2>3. SameCharts(page, p)
    BY <1>0 DEF SameCharts, Page
  <2>4. page' = Continue(p, calls[c])
    BY <1>4 DEF LoadFails, u
  <2>. HIDE DEF p
  <2>. QED
    BY <2>2, <2>3, <2>4, SameChartsFit, ContinueFits
<1>5. CASE BuildInitialHistory(c)
  BY <1>0, <1>5, ResetIsGood, ResetFits, StartRefreshFits DEF BuildInitialHistory
<1>. QED
  BY <1>1, <1>2, <1>3, <1>4, <1>5 DEF Proceed

ChartsInv == RangesFit(page)

\* A chart that shows a history shows the range chosen last, or an answer is to
\* come, whatever else is answered, reset or selected meanwhile.
THEOREM ChartsFollowTheRange == Spec => []ChartsShowTheRange
<1>1. Init => ChartsInv
  BY StandardCharts DEF Init, ChartsInv, RangesFit
<1>2. Inv /\ ChartsInv /\ [Next]_vars => ChartsInv'
  <2>. SUFFICES ASSUME Inv, ChartsInv, [Next]_vars PROVE ChartsInv'
    OBVIOUS
  <2>. USE DEF ChartsInv
  <2>1. CASE Tick
    BY <2>1, StartRefreshFits DEF Tick, Inv
  <2>2. CASE UNCHANGED vars
    BY <2>2 DEF vars
  <2>. QED
    BY <2>1, <2>2, UserFits, RefreshesFit, HistoriesFit, CallsFit DEF Next
<1>3. ChartsInv => ChartsShowTheRange
  BY DEF ChartsInv, RangesFit, Fits, Asked, ChartsShowTheRange
<1>. QED
  BY <1>1, <1>2, <1>3, Invariance, PTL DEF Spec

-----------------------------------------------------------------------------
(* What the timer and the answers achieve *)

\* The page has started: no call is the one that it starts with.
Started == \A c \in Calls : calls[c].kind # "start"

\* No other call ever becomes one like it, so that the timer is never stopped.
LEMMA StartedStays ==
  ASSUME Inv, Started, [Next]_vars
  PROVE  Started'
<1>. DEFINE NotStart(call) == call.kind # "start"
<1>0. /\ NotStart(NoCall) /\ NotStart(ListCall)
      /\ calls \in [Calls -> Call] /\ \A c \in Calls : NotStart(calls[c])
  BY DEF NoCall, ListCall, Inv, Started
<1>1. ASSUME NEW c \in Calls, NEW call, NotStart(call), calls' = [calls EXCEPT ![c] = call]
      PROVE  Started'
  BY <1>0, <1>1 DEF Started
<1>2. ASSUME NEW call, NotStart(call), Send(call)
      PROVE  Started'
  BY <1>1, <1>2 DEF Send
<1>3. CASE UNCHANGED calls
  BY <1>3 DEF Started
<1>4. CASE User
  <2>1. \A kind \in {"create", "save", "toggle", "delete"} : \A d, enabled, pc :
          NotStart(NewCall(kind, d, enabled, pc))
    BY DEF NewCall
  <2>2. ASSUME NEW d \in Devices, SelectDevice(d) \/ ToggleManagedDevice(d) \/ DeleteManagedDevice(d)
        PROVE  Started'
    <3>. HIDE DEF NotStart
    <3>. QED
      BY <1>2, <1>3, <2>1, <2>2 DEF SelectDevice, ToggleManagedDevice, DeleteManagedDevice
  <2>3. ASSUME NEW d \in Devices, NEW enabled \in BOOLEAN, SaveEditedDevice(d, enabled)
        PROVE  Started'
    <3>. HIDE DEF NotStart
    <3>. QED
      BY <1>2, <2>1, <2>3 DEF SaveEditedDevice
  <2>4. ASSUME NEW enabled \in BOOLEAN, SubmitDevice(enabled)
        PROVE  Started'
    <3>. HIDE DEF NotStart
    <3>. QED
      BY <1>2, <2>1, <2>4 DEF SubmitDevice
  <2>5. CASE \/ \E range \in Ranges \cup {Live} : SelectRange(range)
             \/ \E i \in Interfaces : SelectInterface(i) \/ SelectOther(i)
    BY <1>3, <2>5 DEF SelectRange, SelectInterface, SelectOther
  <2>. QED
    BY <1>4, <2>2, <2>3, <2>4, <2>5 DEF User
<1>5. ASSUME NEW r \in page.refreshes, Answer(r) \/ RefreshIsLost(r)
      PROVE  Started'
  <2>. HIDE DEF NotStart
  <2>. QED
    BY <1>0, <1>1, <1>3, <1>5 DEF Answer, RefreshSucceeds, RefreshFails, RefreshIsLost
<1>6. ASSUME NEW h \in page.histories, AnswerHistory(h) \/ HistoryFails(h)
      PROVE  Started'
  BY <1>3, <1>6 DEF AnswerHistory, SystemHistory, NetworkHistory, HistoryFails
<1>7. ASSUME NEW c \in Calls, Proceed(c) \/ LoseEdit(c) \/ LoadFails(c)
      PROVE  Started'
  <2>1. calls[c] \in Call /\ NotStart(calls[c])
    BY <1>0
  <2>2. \A rest \in Rest(calls[c]) : NotStart(rest)
    BY <1>0, <2>1 DEF Rest
  <2>3. CASE Refuse(c) \/ LoseEdit(c) \/ BuildInitialHistory(c)
    <3>. HIDE DEF NotStart
    <3>. QED
      BY <1>0, <1>1, <2>3 DEF Refuse, LoseEdit, BuildInitialHistory
  <2>4. CASE Commit(c) \/ AnswerList(c) \/ TakeList(c)
    <3>1. \E call : NotStart(call) /\ calls' = [calls EXCEPT ![c] = call]
      <4>1. ASSUME NEW d, Commit(c), calls' = [calls EXCEPT ![c].device = d, ![c].pc = "asked"]
            PROVE  calls' = [calls EXCEPT ![c] = [calls[c] EXCEPT !.device = d, !.pc = "asked"]]
        BY <1>0, <4>1
      <4>2. CASE Commit(c)
        BY <2>1, <4>1, <4>2 DEF Commit, Call
      <4>3. CASE AnswerList(c)
        <5>1. calls' = [calls EXCEPT ![c] = [calls[c] EXCEPT !.list = devices, !.pc = "answered"]]
          BY <1>0, <4>3 DEF AnswerList
        <5>. QED
          BY <2>1, <5>1 DEF Call
      <4>4. CASE TakeList(c)
        <5>1. calls' = [calls EXCEPT ![c] = [calls[c] EXCEPT !.list = NoList, !.pc = "listed"]]
          BY <1>0, <4>4 DEF TakeList
        <5>. QED
          BY <2>1, <5>1 DEF Call
      <4>. QED
        BY <2>4, <4>2, <4>3, <4>4
    <3>. HIDE DEF NotStart
    <3>. QED
      BY <1>1, <3>1
  <2>5. CASE UseList(c) \/ LoadFails(c)
    <3>1. PICK rest \in Rest(calls[c]) : calls' = [calls EXCEPT ![c] = rest]
      BY <2>5 DEF UseList, LoadFails
    <3>. HIDE DEF NotStart
    <3>. QED
      BY <1>1, <2>2, <3>1
  <2>. QED
    BY <1>7, <2>3, <2>4, <2>5 DEF Proceed
<1>8. CASE Tick
  BY <1>3, <1>8 DEF Tick
<1>9. CASE UNCHANGED vars
  BY <1>3, <1>9 DEF vars
<1>. QED
  BY <1>4, <1>5, <1>6, <1>7, <1>8, <1>9 DEF Next

\* The latest refresh is in flight; it is answered, aborted or times out.
Requested == \E r \in page.refreshes : r.current
AnswerRequested == \E r \in page.refreshes : r.current /\ Answer(r)

LEMMA ShowingTheRangeAgain ==
  ASSUME NEW p \in Page
  PROVE  ShowRangeAgain(p).refreshInProgress = p.refreshInProgress
BY DEF ShowRangeAgain, ShowRange, Page

\* The finally of the latest refresh lowers the flag.
LEMMA AnswerLowersTheFlag == Inv /\ AnswerRequested => ~page'.refreshInProgress
<1>. SUFFICES ASSUME Inv, NEW r \in page.refreshes, r.current, Answer(r)
              PROVE  ~page'.refreshInProgress
  BY DEF AnswerRequested
<1>0. page \in Page /\ Good(page)
  BY DEF Inv, Good
<1>1. ASSUME NEW p \in Page
      PROVE  ~EndRefresh(p, r).refreshInProgress
  <2>. DEFINE q == [p EXCEPT !.refreshes = @ \ {r}, !.refreshInProgress = FALSE]
  <2>1. q \in Page /\ q.refreshInProgress = FALSE
    BY <1>1 DEF Page
  <2>2. EndRefresh(p, r) = IF r.showRange THEN ShowRangeAgain(q) ELSE q
    BY DEF EndRefresh
  <2>. HIDE DEF q
  <2>. QED
    BY <2>1, <2>2, ShowingTheRangeAgain
<1>2. CASE RefreshFails(r)
  BY <1>0, <1>1, <1>2 DEF RefreshFails
<1>3. CASE RefreshSucceeds(r) /\ ~Accepted(r)
  BY <1>0, <1>1, <1>3 DEF RefreshSucceeds
<1>4. CASE RefreshSucceeds(r) /\ Accepted(r)
  <2>1. page.selected # None /\ r.device = page.selected
    BY <1>0, <1>4, NamesAssumption DEF Accepted, Page, Refresh
  <2>2. PICK newPoint \in BOOLEAN, i \in NextInterfaces(page) :
          page' = EndRefresh(Updated(page, page.selected, newPoint, i), r)
    BY <1>4, <2>1 DEF RefreshSucceeds
  <2>3. Updated(page, page.selected, newPoint, i) \in Page
    BY <1>0, <2>1, UpdatedIsGood DEF Good
  <2>. QED
    BY <1>1, <2>2, <2>3
<1>. QED
  BY <1>2, <1>3, <1>4 DEF Answer

\* The device selected may be refreshed.
Refreshable == page.selected # None /\ page.available[page.selected] # "disabled"

\* What the weak fairness of the timer says, and that of the answers of the
\* request in flight, with the conditions spelt out under which they can occur.
TimerGoesOff == <>[](Started /\ Refreshable /\ ~page.refreshInProgress) => []<><<Tick>>_vars
RequestsAreAnswered == <>[]Requested => []<><<AnswerRequested>>_vars

\* Once the page has started, the metrics of the device selected are requested
\* again and again if the timer goes off when it may, and requests are
\* answered: no reset, no late answer and no failure leaves a flag behind that
\* stops the timer's callback, or a request that the flag does not tell of.
THEOREM RefreshingFollowsTheTimer ==
  Spec /\ <>Started /\ TimerGoesOff /\ RequestsAreAnswered => RefreshingGoesOn
<1>. DEFINE Up == page.refreshInProgress
<1>1. Inv => (Up <=> Requested)
  BY DEF Inv, Good, FlagIsRight, Requested
<1>2. Inv /\ AnswerRequested => ~Up'
  BY AnswerLowersTheFlag
<1>3. Tick => Up'
  BY DEF Tick, StartRefresh
<1>4. Inv /\ Started /\ [Next]_vars => Started'
  BY StartedStays
<1>. HIDE DEF Up
<1>5. Spec /\ <>Started
        /\ (<>[](Started /\ Refreshable /\ ~Up) => []<><<Tick>>_vars)
        /\ (<>[]Requested => []<><<AnswerRequested>>_vars)
      => (<>[]Refreshable => []<>Up /\ []<>~Up)
  BY <1>1, <1>2, <1>3, <1>4, Invariance, PTL DEF Spec
<1>. QED
  BY <1>5 DEF RefreshingGoesOn, TimerGoesOff, RequestsAreAnswered, Refreshable, Up
=============================================================================
