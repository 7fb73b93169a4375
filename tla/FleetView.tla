----------------------------- MODULE FleetView -----------------------------
(***************************************************************************)
(* The fleet on the dashboard: loadDevices in all its requests, and what   *)
(* is rendered from their answers (the overview, the alerts, the cards),   *)
(* while devices are edited and polled, polls get old, and the alert       *)
(* settings change.                                                        *)
(*                                                                         *)
(* An action is one run of a callback up to its next await, or one answer  *)
(* of the server.  Dashboard has the selection that loadDevices makes and  *)
(* what calls it, Dialogs the steps by which settings are loaded and saved.*)
(***************************************************************************)
EXTENDS FleetHealth

CONSTANTS
  Devices,
  NoData,       \* no snapshot, no summary
  Readings,     \* what a poll may read: [cpu, memory, interfaces]
  Rules,        \* alert settings: [cpu, memory, traffic, timeout, enabled]
  Loads,        \* bound: calls of loadDevices at once
  MaxChanges,   \* bound on edits, polls and settings
  MaxClock,     \* bound on the time
  MaxFailures   \* bound on requests that fail

ASSUME FleetBoundsAssumption == {MaxChanges, MaxClock, MaxFailures} \subseteq Nat
ASSUME FiniteFleetAssumption == IsFiniteSet(Devices)
ASSUME ReadingsAssumption == Readings \subseteq [cpu : Int, memory : Int, interfaces : SUBSET Interface]
ASSUME RulesAssumption ==
  Rules \subseteq [cpu : Thresholds, memory : Thresholds, traffic : Thresholds, timeout : Int, enabled : BOOLEAN]

VARIABLES
  devices,     \* the table Devices: absent, enabled or disabled
  snapshots,   \* _currentByDevice
  now,
  fleet,       \* the script's variables, and what it has rendered
  loads,       \* calls of loadDevices
  changes, failures

server == <<devices, snapshots, now>>
fleetVars == <<server, fleet, loads, changes, failures>>

States == {"absent", "enabled", "disabled"}
Lists == [Devices -> States]
NoList == [d \in Devices |-> "absent"]
NoDetails == [d \in Devices |-> NoData]

Snapshot == [connected : BOOLEAN, reading : Readings \cup {NoData}, lastUpdated : 0..MaxClock \cup {Never}]

\* A summary with its details.
Summary == [connected : BOOLEAN, waiting : BOOLEAN, reading : Readings \cup {NoData},
            detail : Snapshot \cup {NoData}]
Summaries == [Devices -> Summary \cup {NoData}]

Load == [
  pc : {"none", "asked", "listed", "detailed"},
  list : Lists \cup {NoData},           \* the answer about the devices, if there is one
  summaries : Summaries \cup {NoData},  \* the answer about their metrics
  monitoring : BOOLEAN,                 \* it was not lost
  wanted : SUBSET Devices,              \* the details still to come
  details : [Devices -> Snapshot \cup {NoData}]]
NoLoad == [pc |-> "none", list |-> NoData, summaries |-> NoData, monitoring |-> TRUE,
           wanted |-> {}, details |-> NoDetails]

-----------------------------------------------------------------------------
(* What is rendered *)

NoInterfaces == {}

\* A row of the list with the summary of the same device, if there is one.
Merged(d, list, summaries) ==
  LET s == summaries[d]
      known == s # NoData
      measured == known /\ s.reading # NoData
      detailed == known /\ s.detail # NoData /\ s.detail.reading # NoData
  IN  [id |-> d, enabled |-> list[d] = "enabled",
       connected |-> known /\ s.connected, waiting |-> ~known \/ s.waiting,
       cpu |-> IF measured THEN s.reading.cpu ELSE NoReading,
       memory |-> IF measured THEN s.reading.memory ELSE NoReading,
       interfaces |-> IF detailed THEN s.detail.reading.interfaces ELSE NoInterfaces,
       lastUpdated |-> IF known /\ s.detail # NoData THEN s.detail.lastUpdated ELSE Never]

FleetOf(list, summaries) ==
  {Merged(d, list, summaries) : d \in {e \in Devices : list[e] # "absent"}}

\* What is rendered is a function of what it is rendered from.
View(f) == [list |-> f.available, summaries |-> f.summaries, settings |-> f.settings, now |-> now]
ViewedFleet(view) == FleetOf(view.list, view.summaries)

\* renderDevices: the cards.
RenderDevices(f) == [f EXCEPT !.cards = View(f)]

\* renderFleetOverview: the overview and the alerts, or that there are none.
RenderFleetOverview(f) == [f EXCEPT !.overview = IF f.monitoring THEN View(f) ELSE NoData]

\* Mutant of RenderFleetFromCache: the cards are left.
RenderOverviewOnly(f) == RenderFleetOverview([f EXCEPT !.apart = FALSE])

RenderFleetFromCache(f) == RenderDevices(RenderFleetOverview([f EXCEPT !.apart = FALSE]))

-----------------------------------------------------------------------------
(* The server *)

Change == changes < MaxChanges /\ changes' = changes + 1

\* A device is added, edited or deleted; its snapshot goes.
Edit(d, state) ==
  /\ Change
  /\ devices[d] # "absent" \/ state # "absent"
  /\ devices' = [devices EXCEPT ![d] = state]
  /\ snapshots' = [snapshots EXCEPT ![d] = NoData]
  /\ UNCHANGED <<now, fleet, loads, failures>>

Poll(d, reading) ==
  /\ Change
  /\ devices[d] = "enabled"
  /\ snapshots' = [snapshots EXCEPT ![d] =
       [connected |-> TRUE, reading |-> reading, lastUpdated |-> now]]
  /\ UNCHANGED <<devices, now, fleet, loads, failures>>

\* What was read before stays.
PollFails(d) ==
  /\ Change
  /\ devices[d] = "enabled"
  /\ snapshots' = [snapshots EXCEPT ![d] =
       IF @ = NoData THEN [connected |-> FALSE, reading |-> NoData, lastUpdated |-> Never]
                     ELSE [@ EXCEPT !.connected = FALSE]]
  /\ UNCHANGED <<devices, now, fleet, loads, failures>>

TimePasses ==
  /\ now < MaxClock
  /\ now' = now + 1
  /\ UNCHANGED <<devices, snapshots, fleet, loads, changes, failures>>

-----------------------------------------------------------------------------
(* What the page does without a load *)

\* The answer to submitAlertSettings.
SubmitAlertSettings(r) ==
  /\ Change
  /\ fleet' = RenderFleetFromCache([fleet EXCEPT !.settings = r])
  /\ UNCHANGED <<devices, snapshots, now, loads, failures>>

\* selectDevice renders the cards alone.
SelectDevice ==
  /\ fleet' = RenderDevices([fleet EXCEPT !.apart = TRUE])
  /\ UNCHANGED <<server, loads, changes, failures>>

-----------------------------------------------------------------------------
(* loadDevices *)

LoadDevices(c) ==
  /\ loads[c] = NoLoad
  /\ loads' = [loads EXCEPT ![c].pc = "asked"]
  /\ UNCHANGED <<server, fleet, changes, failures>>

\* GET /api/devices
AnswerDevices(c) ==
  /\ loads[c].pc = "asked" /\ loads[c].list = NoData
  /\ loads' = [loads EXCEPT ![c].list = devices]
  /\ UNCHANGED <<server, fleet, changes, failures>>

\* A device of GET /api/devices/monitoring/current: a snapshot counts while the
\* device is enabled.
SummaryOf(d) ==
  IF devices[d] = "absent" THEN NoData
  ELSE IF devices[d] = "enabled" /\ snapshots[d] # NoData
       THEN [connected |-> snapshots[d].connected, waiting |-> FALSE,
             reading |-> snapshots[d].reading, detail |-> NoData]
  ELSE [connected |-> FALSE, waiting |-> devices[d] = "enabled", reading |-> NoData, detail |-> NoData]

AnswerSummaries(c) ==
  /\ loads[c].pc = "asked" /\ loads[c].summaries = NoData
  /\ loads' = [loads EXCEPT ![c].summaries = [d \in Devices |-> SummaryOf(d)]]
  /\ UNCHANGED <<server, fleet, changes, failures>>

\* The failure of this request is caught on the spot.
LoseSummaries(c) ==
  /\ loads[c].pc = "asked" /\ loads[c].summaries = NoData
  /\ failures < MaxFailures
  /\ failures' = failures + 1
  /\ loads' = [loads EXCEPT ![c].summaries = NoDetails, ![c].monitoring = FALSE]
  /\ UNCHANGED <<server, fleet, changes>>

\* Both have been answered; the summaries are still to be read.
TakeList(c) ==
  /\ loads[c].pc = "asked" /\ loads[c].list # NoData /\ loads[c].summaries # NoData
  /\ fleet' = [fleet EXCEPT !.available = loads[c].list, !.monitoring = loads[c].monitoring]
  /\ loads' = [loads EXCEPT ![c].pc = "listed", ![c].list = NoData]
  /\ UNCHANGED <<server, changes, failures>>

\* The details are asked for: of the devices that are listed by now.
AskDetails(c) ==
  /\ loads[c].pc = "listed"
  /\ loads' = [loads EXCEPT ![c].pc = "detailed",
       ![c].wanted = IF loads[c].monitoring
                     THEN {d \in Devices : fleet.available[d] = "enabled"} ELSE {}]
  /\ UNCHANGED <<server, fleet, changes, failures>>

\* GET /api/devices/{id}/monitoring/current; nothing comes of a device that is
\* not there, or not polled yet.
AnswerDetail(c, d) ==
  /\ d \in loads[c].wanted
  /\ loads' = [loads EXCEPT ![c].wanted = @ \ {d},
       ![c].details[d] = IF devices[d] = "absent" THEN NoData ELSE snapshots[d]]
  /\ UNCHANGED <<server, fleet, changes, failures>>

LoseDetail(c, d) ==
  /\ d \in loads[c].wanted
  /\ failures < MaxFailures
  /\ failures' = failures + 1
  /\ loads' = [loads EXCEPT ![c].wanted = @ \ {d}]
  /\ UNCHANGED <<server, fleet, changes>>

\* Mutant of WithDetails: they are left out.
WithoutDetails(load) == load.summaries

WithDetails(load) ==
  [d \in Devices |-> IF load.summaries[d] = NoData THEN NoData
                     ELSE [load.summaries[d] EXCEPT !.detail = load.details[d]]]

UseDetails(c) ==
  /\ loads[c].pc = "detailed" /\ loads[c].wanted = {}
  /\ fleet' = RenderFleetFromCache([fleet EXCEPT !.summaries = WithDetails(loads[c])])
  /\ loads' = [loads EXCEPT ![c] = NoLoad]
  /\ UNCHANGED <<server, changes, failures>>

\* Any other failure: there is no overview, and a message in place of the cards.
LoadFails(c) ==
  /\ loads[c].pc \in {"asked", "listed"}
  /\ failures < MaxFailures
  /\ failures' = failures + 1
  /\ fleet' = [fleet EXCEPT !.monitoring = FALSE, !.overview = NoData, !.cards = NoData,
                            !.apart = FALSE]
  /\ loads' = [loads EXCEPT ![c] = NoLoad]
  /\ UNCHANGED <<server, changes>>

-----------------------------------------------------------------------------
FleetInit ==
  /\ devices \in Lists
  /\ snapshots \in [Devices -> {NoData} \cup
       [connected : {TRUE}, reading : Readings, lastUpdated : {0}]]
  /\ \A d \in Devices : devices[d] # "enabled" => snapshots[d] = NoData
  /\ now = 0
  /\ \E r \in Rules :
       fleet = [available |-> NoList, summaries |-> NoDetails, monitoring |-> FALSE,
                settings |-> r, overview |-> NoData, cards |-> NoData, apart |-> FALSE]
  /\ loads = [c \in Loads |-> NoLoad]
  /\ changes = 0 /\ failures = 0

Server ==
  \/ \E d \in Devices, state \in States : Edit(d, state)
  \/ \E d \in Devices : PollFails(d) \/ \E reading \in Readings : Poll(d, reading)
  \/ TimePasses

ProceedLoad(c) ==
  \/ AnswerDevices(c) \/ AnswerSummaries(c) \/ TakeList(c) \/ AskDetails(c)
  \/ (\E d \in Devices : AnswerDetail(c, d)) \/ UseDetails(c)

FleetNext ==
  \/ Server
  \/ SelectDevice \/ \E r \in Rules : SubmitAlertSettings(r)
  \/ \E c \in Loads :
       \/ LoadDevices(c) \/ ProceedLoad(c) \/ LoseSummaries(c) \/ LoadFails(c)
       \/ \E d \in Devices : LoseDetail(c, d)

FleetSpec == FleetInit /\ [][FleetNext]_fleetVars

\* Requests are answered or time out, and settled promises are taken up.  While
\* the selected device is refreshed, every fifth refresh loads the list again.
GoOnLoading(c) == LoadDevices(c) \/ ProceedLoad(c)

FleetFairSpec == FleetSpec /\ \A c \in Loads : WF_fleetVars(GoOnLoading(c))

-----------------------------------------------------------------------------
(* Properties *)

Views == [list : Lists, summaries : Summaries, settings : Rules, now : 0..MaxClock]
Fleet == [available : Lists, summaries : Summaries, monitoring : BOOLEAN, settings : Rules,
          overview : Views \cup {NoData}, cards : Views \cup {NoData}, apart : BOOLEAN]

\* The types of what the server keeps, and of what the page keeps and shows.
FleetTypeOK ==
  /\ devices \in Lists /\ snapshots \in [Devices -> Snapshot \cup {NoData}]
  /\ now \in 0..MaxClock
  /\ fleet \in Fleet /\ loads \in [Loads -> Load]
  /\ changes \in 0..MaxChanges /\ failures \in 0..MaxFailures

\* The counts, the alerts and the cards that a view shows.
Counts(view) == Overview(ViewedFleet(view), view.settings, view.now)
Alerts(view) == BuildFleetAlerts(ViewedFleet(view), view.settings, view.now)
Cards(view) == {Card(device, view.settings, view.now) : device \in ViewedFleet(view)}

DevicesWith(alerts) == {a.device : a \in alerts}

\* The counts of the overview are those of the alerts listed beside it, though
\* each is computed by rules of its own: a device counts as critical when it
\* has a critical alert, as warning when it has others only, as offline when it
\* is said to be.
OverviewFitsTheAlerts ==
  fleet.overview # NoData =>
    LET counts == Counts(fleet.overview)
        alerts == Alerts(fleet.overview)
        critical == DevicesWith({a \in alerts : a.severity = "critical"})
    IN  /\ counts.critical = Cardinality(critical)
        /\ counts.warning = Cardinality(DevicesWith(alerts) \ critical)
        /\ counts.offline = Cardinality({a \in alerts : a.about = "DEVICE"})

\* The cards say what the overview counts, whichever answers were late or lost,
\* until a device is selected: that renders the cards alone.
CardsFitTheOverview ==
  fleet.overview # NoData /\ ~fleet.apart =>
    LET counts == Counts(fleet.overview)
        cards == Cards(fleet.cards)
        With(statuses) == Cardinality({card \in cards : card.status \in statuses})
    IN  /\ fleet.cards # NoData
        /\ counts.total = Cardinality(cards)
        /\ counts.online = With({"Online"})
        /\ counts.offline = With({"Waiting", "Offline"})
        /\ counts.warning = Cardinality({card \in cards : card.health = "warning"})

\* What the summaries and the details say when nothing changes.
CurrentSummaries ==
  [d \in Devices |-> IF devices[d] = "absent" THEN NoData
                     ELSE [SummaryOf(d) EXCEPT !.detail = snapshots[d]]]

\* From one snapshot and the same settings, the page lists the alerts that the
\* server raises, and no other, except interfaces that are down, which only the
\* page knows; and devices not polled yet, which the page counts as offline.
JudgesLikeTheServer == \A device \in FleetOf(devices, CurrentSummaries) :
  device.enabled /\ snapshots[device.id] # NoData =>
    {a \in DeviceAlerts(device, fleet.settings, now) : a.about # "DOWN"}
      = Observations(device, fleet.settings, now)

\* The page shows the fleet as it is.
FleetIsSettled ==
  fleet.overview = [list |-> devices, summaries |-> CurrentSummaries,
                    settings |-> fleet.settings, now |-> now]

\* While the device list goes on being loaded, the page shows the fleet as it
\* is in the end, although the list, the summaries and the details of a load
\* are of different moments, and some of them get lost.
FleetSettles == <>[]FleetIsSettled
=============================================================================
