----------------------------- MODULE Dashboard -----------------------------
(***************************************************************************)
(* dashboard.js in one browser: the device list, the selected device, the  *)
(* refresh of its metrics, the charts, and the edits of devices, against   *)
(* the server's device table.                                              *)
(*                                                                         *)
(* An action is one run of a callback up to its next await.  A request     *)
(* version is only ever compared with the latest one, so that a request    *)
(* holds whether its version is `current'.  An abort may come too late: an *)
(* outdated refresh may end like any other.                                *)
(***************************************************************************)
EXTENDS Integers, FiniteSets

CONSTANTS
  Devices,
  None,         \* no device, no interface
  Ranges,       \* history ranges other than "live"
  OneHour,      \* the one a click on a port chooses
  Live,         \* the range "live"; also: a chart of the live history
  Empty,        \* a chart without data
  Interfaces,   \* interface indexes; devices use the same ones
  Calls,        \* bound: calls of loadDevices, with what surrounds them, at once
  ListEvery,    \* successful refreshes after which the list is loaded
  MaxActions,   \* bound on what the user does
  MaxFailures   \* bound on requests that fail for other reasons than their content

ASSUME NamesAssumption ==
  /\ None \notin Devices \cup Interfaces
  /\ {Live, Empty} \cap Ranges = {}
  /\ Interfaces # {} => OneHour \in Ranges
ASSUME BoundsAssumption ==
  /\ ListEvery \in Nat \ {0}
  /\ {MaxActions, MaxFailures} \subseteq Nat

VARIABLES
  devices,    \* the table Devices: absent, enabled or disabled
  page,       \* the script's variables
  calls,      \* loadDevices and the handlers around it
  actions, failures

vars == <<devices, page, calls, actions, failures>>

States == {"absent", "enabled", "disabled"}
Lists == [Devices -> States]

Refresh == [device : Devices, current : BOOLEAN, showRange : BOOLEAN]

History == [device : Devices, range : Ranges, interface : Interfaces \cup {None}, current : BOOLEAN]

\* A chart shows the live history, nothing, or a history.
Chart == [device : Devices, range : Ranges]
LiveChart == [device |-> None, range |-> Live]
EmptyChart == [device |-> None, range |-> Empty]
Charts == Chart \cup {LiveChart, EmptyChart}

Page == [
  available : Lists,                  \* availableDevices
  selected : Devices \cup {None},     \* selectedDeviceId
  refreshInProgress : BOOLEAN,
  refreshes : SUBSET Refresh,         \* calls of refreshDashboard in flight
  listCounter : 0..(ListEvery - 1),   \* deviceListRefreshCounter
  shown : Devices \cup {None},        \* the device whose metrics are displayed
  points : SUBSET Devices,            \* devices that liveHistory has points of
  interface : Interfaces \cup {None}, \* selectedInterfaceIndex
  range : Ranges \cup {Live},         \* selectedHistoryRange
  system : Charts, network : Charts,  \* chartHistory
  histories : SUBSET History,         \* requests for histories in flight
  carried : SUBSET Devices,           \* observer: selected before, since the last reset
  unfinished : BOOLEAN]               \* observer: a list was taken, but not used

Call == [
  kind : {"none", "start", "list", "create", "save", "toggle", "delete"},
  device : Devices \cup {None},
  enabled : BOOLEAN,                  \* in the request
  wasSelected : BOOLEAN,
  pc : {"sent", "asked", "answered", "listed", "waiting"},
  list : Lists]

NoList == [d \in Devices |-> "absent"]
NewCall(kind, device, enabled, pc) ==
  [kind |-> kind, device |-> device, enabled |-> enabled, wasSelected |-> page.selected = device,
   pc |-> pc, list |-> NoList]
NoCall == [kind |-> "none", device |-> None, enabled |-> FALSE, wasSelected |-> FALSE,
           pc |-> "sent", list |-> NoList]
ListCall == [NoCall EXCEPT !.kind = "list", !.pc = "asked"]

-----------------------------------------------------------------------------
(* What the script's functions do to its variables *)

Outdated(requests) == {[r EXCEPT !.current = FALSE] : r \in requests}

\* Mutant of Reset: the request in flight is given up, the flag is not.
ResetKeepsFlag(p) ==
  [p EXCEPT !.refreshes = Outdated(@), !.shown = None, !.points = {},
            !.interface = None, !.system = LiveChart, !.network = LiveChart, !.carried = {}]

\* Mutant of Reset: the history of the device before stays.
ResetKeepsPoints(p) ==
  [p EXCEPT !.refreshes = Outdated(@), !.refreshInProgress = FALSE, !.shown = None,
            !.interface = None, !.system = LiveChart, !.network = LiveChart, !.carried = {}]

\* resetDashboardForDevice.
Reset(p) ==
  [p EXCEPT !.refreshes = Outdated(@), !.refreshInProgress = FALSE, !.shown = None, !.points = {},
            !.interface = None, !.system = LiveChart, !.network = LiveChart, !.carried = {}]

\* Mutant of ShowRange: the version stays.
ShowRangeKeepsVersion(p, range) ==
  LET q == [p EXCEPT !.range = range] IN
  IF range = Live THEN [q EXCEPT !.system = LiveChart, !.network = LiveChart]
  ELSE IF p.selected = None THEN [q EXCEPT !.system = EmptyChart, !.network = EmptyChart]
  ELSE [q EXCEPT !.histories =
          @ \cup {[device |-> p.selected, range |-> range, interface |-> None, current |-> TRUE]}]

\* selectHistoryRange, up to its first request.
ShowRange(p, range) ==
  LET q == [p EXCEPT !.range = range, !.histories = Outdated(@)] IN
  IF p.selected = None
  THEN IF range = Live THEN q ELSE [q EXCEPT !.system = EmptyChart, !.network = EmptyChart]
  ELSE IF range = Live THEN [q EXCEPT !.system = LiveChart, !.network = LiveChart]
  ELSE [q EXCEPT !.histories =
          @ \cup {[device |-> p.selected, range |-> range, interface |-> None, current |-> TRUE]}]

\* The end of selectDevice.
ShowRangeAgain(p) == IF p.range = Live THEN p ELSE ShowRange(p, p.range)

MayRefresh(p) ==
  /\ p.selected # None
  /\ p.available[p.selected] # "disabled"
  /\ ~p.refreshInProgress

\* refreshDashboard, up to its request; what awaits it may show the range.
StartRefresh(p, showRange) ==
  IF MayRefresh(p)
  THEN [p EXCEPT !.refreshInProgress = TRUE,
                 !.refreshes = Outdated(@) \cup
                   {[device |-> p.selected, current |-> TRUE, showRange |-> showRange]}]
  ELSE IF showRange THEN ShowRangeAgain(p) ELSE p

\* Mutant of EndRefresh: any refresh clears the flag.
EndRefreshAlways(p, r) ==
  LET q == [p EXCEPT !.refreshes = @ \ {r}, !.refreshInProgress = FALSE]
  IN  IF r.showRange THEN ShowRangeAgain(q) ELSE q

\* The finally of refreshDashboard, and what awaits it.
EndRefresh(p, r) ==
  LET q == [p EXCEPT !.refreshes = @ \ {r},
                     !.refreshInProgress = IF r.current THEN FALSE ELSE @]
  IN  IF r.showRange THEN ShowRangeAgain(q) ELSE q

\* appendHistory: no new point for the same poll, or while disconnected.
Points(p, device, newPoint) == IF newPoint THEN p.points \cup {device} ELSE p.points

\* updateHistoryInterfaceOptions: the interface stays if the device has it.
NextInterfaces(p) == {p.interface} \cup Interfaces

\* Mutant of Updated: the counter is not advanced.
UpdatedNeverCounts(p, device, newPoint, interface) ==
  [p EXCEPT !.shown = device, !.points = Points(p, device, newPoint), !.interface = interface]

\* updateDashboard, and the counter of refreshDashboard.
Updated(p, device, newPoint, interface) ==
  [p EXCEPT !.shown = device, !.points = Points(p, device, newPoint), !.interface = interface,
            !.listCounter = IF @ = ListEvery - 1 THEN 0 ELSE @ + 1]

-----------------------------------------------------------------------------
(* refreshDashboard *)

\* Every two seconds, once the page has started.
Tick ==
  /\ \A c \in Calls : calls[c].kind # "start"
  /\ MayRefresh(page)
  /\ page' = StartRefresh(page, FALSE)
  /\ UNCHANGED <<devices, calls, actions, failures>>

Accepted(r) == r.current /\ r.device = page.selected

\* The answer is displayed if it is still wanted; every ListEvery-th one calls
\* loadDevices.
RefreshSucceeds(r) ==
  /\ devices[r.device] # "absent"
  /\ IF ~Accepted(r) THEN page' = EndRefresh(page, r) /\ UNCHANGED calls
     ELSE /\ \E newPoint \in BOOLEAN, i \in NextInterfaces(page) :
               page' = EndRefresh(Updated(page, r.device, newPoint, i), r)
          /\ IF page.listCounter # ListEvery - 1 THEN UNCHANGED calls
             ELSE \E c \in Calls : calls[c] = NoCall /\ calls' = [calls EXCEPT ![c] = ListCall]
  /\ UNCHANGED <<devices, actions, failures>>

\* The device is not there, or the request was aborted.
RefreshFails(r) ==
  /\ devices[r.device] = "absent" \/ ~r.current
  /\ page' = EndRefresh(page, r)
  /\ UNCHANGED <<devices, calls, actions, failures>>

\* There is no snapshot, or the server is out of reach.
RefreshIsLost(r) ==
  /\ failures < MaxFailures
  /\ failures' = failures + 1
  /\ page' = EndRefresh(page, r)
  /\ UNCHANGED <<devices, calls, actions>>

-----------------------------------------------------------------------------
(* selectHistoryRange and loadInterfaceHistory *)

Wanted(h) == h.device = page.selected /\ h.current

Answered(h) == [page EXCEPT !.histories = @ \ {h}]

\* The answer for the system chart, which sends the request for the other one.
SystemHistory(h) ==
  /\ h.interface = None
  /\ LET p == [Answered(h) EXCEPT !.system = [device |-> h.device, range |-> h.range]] IN
     page' = IF ~Wanted(h) THEN Answered(h)
             ELSE IF page.range = Live \/ page.interface = None THEN [p EXCEPT !.network = LiveChart]
             ELSE [p EXCEPT !.histories =
                     @ \cup {[h EXCEPT !.interface = page.interface, !.range = page.range]}]
  /\ UNCHANGED <<devices, calls, actions, failures>>

NetworkHistory(h) ==
  /\ h.interface # None
  /\ page' = IF Wanted(h) THEN [Answered(h) EXCEPT !.network = [device |-> h.device, range |-> h.range]]
                          ELSE Answered(h)
  /\ UNCHANGED <<devices, calls, actions, failures>>

\* Either request fails: both charts are emptied.
HistoryFails(h) ==
  /\ failures < MaxFailures
  /\ failures' = failures + 1
  /\ page' = IF Wanted(h) THEN [Answered(h) EXCEPT !.system = EmptyChart, !.network = EmptyChart]
                          ELSE Answered(h)
  /\ UNCHANGED <<devices, calls, actions>>

-----------------------------------------------------------------------------
(* What the user does *)

Act == actions < MaxActions /\ actions' = actions + 1

SelectDevice(d) ==
  /\ Act
  /\ page.available[d] # "absent" /\ d # page.selected
  /\ page' = StartRefresh(Reset([page EXCEPT !.selected = d]), TRUE)
  /\ UNCHANGED <<devices, calls, failures>>

SelectRange(range) ==
  /\ Act
  /\ page' = ShowRange(page, range)
  /\ UNCHANGED <<devices, calls, failures>>

\* By a click on a port, which leaves "live", or in the list under the chart.
\* (In that list and "live" it is SelectOther.)
SelectInterface(i) ==
  /\ Act
  /\ page' = ShowRange([page EXCEPT !.interface = i],
                       IF page.range = Live THEN OneHour ELSE page.range)
  /\ UNCHANGED <<devices, calls, failures>>

\* By a click on a top interface: SelectDevice, and this when it has returned.
SelectOther(i) ==
  /\ Act
  /\ page' = [page EXCEPT !.interface = i]
  /\ UNCHANGED <<devices, calls, failures>>

Send(call) == \E c \in Calls : calls[c] = NoCall /\ calls' = [calls EXCEPT ![c] = call]

SubmitDevice(enabled) ==
  /\ Act
  /\ Send(NewCall("create", None, enabled, "sent"))
  /\ UNCHANGED <<devices, page, failures>>

\* The dialog is opened and submitted in one step.
SaveEditedDevice(d, enabled) ==
  /\ Act
  /\ page.available[d] # "absent"
  /\ Send(NewCall("save", d, enabled, "sent"))
  /\ UNCHANGED <<devices, page, failures>>

ToggleManagedDevice(d) ==
  /\ Act
  /\ page.available[d] # "absent"
  /\ Send(NewCall("toggle", d, page.available[d] = "disabled", "sent"))
  /\ UNCHANGED <<devices, page, failures>>

DeleteManagedDevice(d) ==
  /\ Act
  /\ page.available[d] # "absent"
  /\ Send(NewCall("delete", d, FALSE, "sent"))
  /\ UNCHANGED <<devices, page, failures>>

-----------------------------------------------------------------------------
(* The server's part of POST, PUT and DELETE *)

\* The devices the request may be about.
Targets(call) ==
  IF call.kind = "create" THEN {d \in Devices : devices[d] = "absent"}
                          ELSE {call.device} \cap {d \in Devices : devices[d] # "absent"}

Effect(call) ==
  IF call.kind = "delete" THEN "absent" ELSE IF call.enabled THEN "enabled" ELSE "disabled"

\* The request is answered, and the page asks for the list.
Commit(c) ==
  /\ calls[c].kind # "none" /\ calls[c].pc = "sent"
  /\ \E d \in Targets(calls[c]) :
       /\ devices' = [devices EXCEPT ![d] = Effect(calls[c])]
       /\ calls' = [calls EXCEPT ![c].device = d, ![c].pc = "asked"]
  /\ UNCHANGED <<page, actions, failures>>

\* The request is refused: there is no such device, or no address free.
Refuse(c) ==
  /\ calls[c].kind # "none" /\ calls[c].pc = "sent"
  /\ Targets(calls[c]) = {}
  /\ calls' = [calls EXCEPT ![c] = NoCall]
  /\ UNCHANGED <<devices, page, actions, failures>>

\* The request or its answer is lost.
LoseEdit(c) ==
  /\ calls[c].kind # "none" /\ calls[c].pc = "sent"
  /\ failures < MaxFailures
  /\ failures' = failures + 1
  /\ \/ UNCHANGED devices
     \/ \E d \in Targets(calls[c]) : devices' = [devices EXCEPT ![d] = Effect(calls[c])]
  /\ calls' = [calls EXCEPT ![c] = NoCall]
  /\ UNCHANGED <<page, actions>>

-----------------------------------------------------------------------------
(* loadDevices, and what awaits it *)

\* The server reads the table.
AnswerList(c) ==
  /\ calls[c].pc = "asked"
  /\ calls' = [calls EXCEPT ![c].list = devices, ![c].pc = "answered"]
  /\ UNCHANGED <<devices, page, actions, failures>>

\* availableDevices is replaced; the summaries and the details are still to come.
TakeList(c) ==
  /\ calls[c].pc = "answered"
  /\ page' = [page EXCEPT !.available = calls[c].list]
  /\ calls' = [calls EXCEPT ![c].list = NoList, ![c].pc = "listed"]
  /\ UNCHANGED <<devices, actions, failures>>

Preferred(call) ==
  IF call.kind = "create" \/ (call.kind \in {"save", "toggle"} /\ call.enabled)
  THEN call.device ELSE None

Enabled(p) == {d \in Devices : p.available[d] = "enabled"}

\* Mutant of Kept: the selection is always kept if there is one.
KeptAlways(p) == p.selected # None

\* currentStillExists.
Kept(p) == p.selected # None /\ p.available[p.selected] # "absent"

\* The device selected next; the first enabled one is the first by name.
NextSelected(p, preferred) ==
  IF preferred \in Enabled(p) THEN {preferred}
  ELSE IF Kept(p) THEN {p.selected}
  ELSE IF Enabled(p) = {} THEN {None} ELSE Enabled(p)

Select(p, d) ==
  [p EXCEPT !.selected = d, !.unfinished = FALSE,
            !.carried = IF d = p.selected THEN @ ELSE (@ \cup {p.selected}) \ {None}]

\* The handler that awaited the list resets the page.
Resets(p, call) ==
  \/ call.kind = "create" /\ call.enabled
  \/ call.kind = "save" /\ p.selected = call.device
  \/ call.kind = "toggle" /\ p.selected = call.device /\ ~call.enabled
  \/ call.kind = "delete" /\ (call.wasSelected \/ p.selected = None)

Continue(p, call) == IF Resets(p, call) THEN StartRefresh(Reset(p), FALSE) ELSE p

\* Startup goes on; a new device is tested, and if that fails the list is
\* loaded once more.
Rest(call) ==
  IF call.kind = "start" THEN {[call EXCEPT !.pc = "waiting", !.list = NoList]}
  ELSE IF call.kind = "create" THEN {NoCall, ListCall} ELSE {NoCall}

UseList(c) ==
  /\ calls[c].pc = "listed"
  /\ \E d \in NextSelected(page, Preferred(calls[c])) :
       page' = Continue(Select(page, d), calls[c])
  /\ \E rest \in Rest(calls[c]) : calls' = [calls EXCEPT ![c] = rest]
  /\ UNCHANGED <<devices, actions, failures>>

\* loadDevices catches its errors: what awaits it goes on.
LoadFails(c) ==
  /\ calls[c].pc \in {"asked", "answered", "listed"}
  /\ failures < MaxFailures
  /\ failures' = failures + 1
  /\ page' = Continue([page EXCEPT !.unfinished = @ \/ calls[c].pc = "listed"], calls[c])
  /\ \E rest \in Rest(calls[c]) : calls' = [calls EXCEPT ![c] = rest]
  /\ UNCHANGED <<devices, actions>>

\* The end of startup: buildInitialHistory, then the timers.
BuildInitialHistory(c) ==
  /\ calls[c].pc = "waiting"
  /\ page' = StartRefresh(Reset(page), FALSE)
  /\ calls' = [calls EXCEPT ![c] = NoCall]
  /\ UNCHANGED <<devices, actions, failures>>

-----------------------------------------------------------------------------
Init ==
  /\ devices \in Lists
  /\ page = [available |-> NoList, selected |-> None, refreshInProgress |-> FALSE,
             refreshes |-> {}, listCounter |-> 0, shown |-> None, points |-> {},
             interface |-> None, range |-> Live, system |-> LiveChart, network |-> LiveChart,
             histories |-> {}, carried |-> {}, unfinished |-> FALSE]
  /\ \E c \in Calls :
       calls = [b \in Calls |-> IF b = c THEN [ListCall EXCEPT !.kind = "start"] ELSE NoCall]
  /\ actions = 0
  /\ failures = 0

Answer(r) == RefreshSucceeds(r) \/ RefreshFails(r)
AnswerHistory(h) == SystemHistory(h) \/ NetworkHistory(h)
Proceed(c) ==
  Commit(c) \/ Refuse(c) \/ AnswerList(c) \/ TakeList(c) \/ UseList(c) \/ BuildInitialHistory(c)

User ==
  \/ \E d \in Devices : SelectDevice(d) \/ ToggleManagedDevice(d) \/ DeleteManagedDevice(d)
  \/ \E d \in Devices, enabled \in BOOLEAN : SaveEditedDevice(d, enabled)
  \/ \E enabled \in BOOLEAN : SubmitDevice(enabled)
  \/ \E range \in Ranges \cup {Live} : SelectRange(range)
  \/ \E i \in Interfaces : SelectInterface(i) \/ SelectOther(i)

Next ==
  \/ User \/ Tick
  \/ \E r \in page.refreshes : Answer(r) \/ RefreshIsLost(r)
  \/ \E h \in page.histories : AnswerHistory(h) \/ HistoryFails(h)
  \/ \E c \in Calls : Proceed(c) \/ LoseEdit(c) \/ LoadFails(c)

Spec == Init /\ [][Next]_vars

\* The timer ticks while the page is open; requests are answered, aborted or
\* time out, and a promise that is settled is taken up.
FairSpec ==
  /\ Spec
  /\ WF_vars(Tick)
  /\ WF_vars(\E r \in page.refreshes : Answer(r))
  /\ WF_vars(\E c \in Calls : Proceed(c))

-----------------------------------------------------------------------------
(* Properties *)

\* The types of the variables.
TypeOK ==
  /\ devices \in Lists
  /\ page \in Page
  /\ calls \in [Calls -> Call]
  /\ actions \in 0..MaxActions
  /\ failures \in 0..MaxFailures

\* refreshInProgress says whether the latest refresh is in flight, and there is
\* one such at most, although resets and late answers of given-up refreshes
\* meet: neither may a refresh run beside another, nor the flag stay up for
\* one that is over.
RefreshFlagIsRight ==
  /\ page.refreshInProgress <=> \E r \in page.refreshes : r.current
  /\ \A q, r \in page.refreshes : q.current /\ r.current => q = r

Displayed == ({page.shown, page.system.device, page.network.device} \ {None}) \cup page.points

\* Metrics, points of the live history and charts are those of the selected
\* device, whatever answers are late; except that a list that changes the
\* selection without a reset carries what was displayed over to the next device.
ShowsTheSelectedDevice == Displayed \subseteq {page.selected} \cup page.carried

\* The selected device is in the list, although lists overtake each other
\* between the await that takes them and the one that selects from them;
\* except after a load that failed between these.
SelectionIsListed ==
  \/ page.selected = None
  \/ page.available[page.selected] # "absent"
  \/ \E c \in Calls : calls[c].pc = "listed"
  \/ page.unfinished

\* A chart that shows a history shows the range chosen last, unless that one's
\* request is still in flight.
ChartsShowTheRange == \A chart \in {page.system, page.network} :
  \/ chart.range \in {Live, Empty, page.range}
  \/ \E h \in page.histories : h.current
  \/ page.carried # {}

\* As long as the selected device is not known to be disabled, its metrics are
\* requested again and again.
RefreshingGoesOn ==
  <>[](page.selected # None /\ page.available[page.selected] # "disabled")
    => []<>page.refreshInProgress /\ []<>~page.refreshInProgress

\* No device is refreshed, or the one that is has been deleted.
NothingIsRefreshed ==
  \/ page.selected = None
  \/ page.available[page.selected] = "disabled"
  \/ devices[page.selected] = "absent"

\* A list that is out of date, because answers were lost or came in the wrong
\* order, is replaced in the end; only refreshes do that.
ListHeals == <>[](page.available = devices \/ NothingIsRefreshed)
=============================================================================
