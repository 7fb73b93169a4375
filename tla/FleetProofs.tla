---------------------------- MODULE FleetProofs ----------------------------
(***************************************************************************)
(* Proofs about FleetView and FleetHealth, for any finite set of devices,  *)
(* any readings, any alert settings, and any number of loads at once.      *)
(***************************************************************************)
EXTENDS FleetView, FiniteSetTheorems, TLAPS

-----------------------------------------------------------------------------
(* The devices of a rendered fleet *)

\* What the rules rely on.
Device == [id : Devices, enabled : BOOLEAN, connected : BOOLEAN, waiting : BOOLEAN,
           cpu : Int, memory : Int, interfaces : SUBSET Interface, lastUpdated : Int]

LEMMA MergedIsADevice ==
  ASSUME NEW list \in Lists, NEW summaries \in Summaries, NEW d \in Devices
  PROVE  Merged(d, list, summaries) \in Device /\ Merged(d, list, summaries).id = d
<1> DEFINE s == summaries[d]
<1>1. s # NoData => s \in Summary
  BY DEF Summaries
<1>2. s # NoData /\ s.reading # NoData =>
        s.reading.cpu \in Int /\ s.reading.memory \in Int
  BY <1>1, ReadingsAssumption DEF Summary
<1>3. s # NoData /\ s.detail # NoData =>
        /\ s.detail.lastUpdated \in Int
        /\ s.detail.reading # NoData => s.detail.reading.interfaces \in SUBSET Interface
  BY <1>1, ReadingsAssumption, FleetBoundsAssumption DEF Summary, Snapshot, Never
<1>4. s # NoData => s.connected \in BOOLEAN /\ s.waiting \in BOOLEAN
  BY <1>1 DEF Summary
<1> QED
  BY <1>2, <1>3, <1>4 DEF Merged, Device, NoReading, Never, NoInterfaces

LEMMA FleetIsOfDevices ==
  ASSUME NEW list \in Lists, NEW summaries \in Summaries
  PROVE  /\ FleetOf(list, summaries) \subseteq Device
         /\ \A x, y \in FleetOf(list, summaries) : x.id = y.id => x = y
BY MergedIsADevice DEF FleetOf

\* What tells the devices of a fleet apart counts them.
LEMMA Counted ==
  ASSUME NEW list \in Lists, NEW summaries \in Summaries,
         NEW G \in SUBSET FleetOf(list, summaries), NEW T, NEW f \in [G -> T],
         \A x, y \in G : f[x] = f[y] => x.id = y.id,
         \A t \in T : \E x \in G : f[x] = t
  PROVE  IsFiniteSet(G) /\ IsFiniteSet(T) /\ Cardinality(T) = Cardinality(G)
<1>1. IsFiniteSet(G)
  <2> DEFINE names == [x \in G |-> x.id]
  <2>1. names \in Injection(G, Devices)
    <3>1. names \in [G -> Devices]
      BY FleetIsOfDevices DEF Device
    <3>2. \A x, y \in G : names[x] = names[y] => x = y
      BY FleetIsOfDevices
    <3> QED
      BY <3>1, <3>2 DEF Injection, IsInjective
  <2> QED
    BY <2>1, FS_Injection, FiniteFleetAssumption
<1>2. f \in Surjection(G, T)
  BY DEF Surjection
<1>3. f \in Injection(G, T)
  BY FleetIsOfDevices DEF Injection, IsInjective
<1> QED
  BY <1>1, <1>2, <1>3, FS_Surjection

-----------------------------------------------------------------------------
(* The rules *)

LEMMA RulesAreTyped ==
  ASSUME NEW settings \in Rules
  PROVE  /\ settings.cpu \in Thresholds /\ settings.memory \in Thresholds
         /\ settings.traffic \in Thresholds
         /\ settings.timeout \in Int /\ settings.enabled \in BOOLEAN
BY RulesAssumption

\* The script and the server judge a reading alike.
LEMMA SameSeverity ==
  ASSUME NEW value \in Int, NEW limits \in Thresholds
  PROVE  /\ GetMetricSeverity(value, limits) \in Severities
         /\ GetMetricSeverity(value, limits)
              = MetricSeverity(value, limits.warning, limits.critical, TRUE)
         /\ value # NoReading => GetMetricSeverity(value, limits)
                                   = ThresholdSeverity(value, limits.warning, limits.critical)
BY DEF Thresholds, GetMetricSeverity, MetricSeverity, ThresholdSeverity, Severities

LEMMA InterfaceSeverities ==
  ASSUME NEW item \in Interface, NEW settings \in Rules
  PROVE  /\ GetInterfaceSeverity(item, settings) \in Severities
         /\ HasTraffic(item) \in BOOLEAN /\ item.index # NoInterface
         /\ HasTraffic(item) => GetInterfaceSeverity(item, settings)
              = ThresholdSeverity(item.utilization, settings.traffic.warning, settings.traffic.critical)
         /\ ~HasTraffic(item) => GetInterfaceSeverity(item, settings) = "normal"
<1>1. item.utilization \in Int /\ item.index # NoInterface
  BY DEF Interface, NoInterface
<1>2. HasTraffic(item) => item.utilization # NoReading
  BY DEF HasTraffic
<1> QED
  BY <1>1, <1>2, SameSeverity, RulesAreTyped DEF GetInterfaceSeverity, Severities, HasTraffic

\* What is not normal on a device that is online.
LEMMA MetricAlertsAre ==
  ASSUME NEW device \in Device, NEW settings \in Rules
  PROVE  /\ \A a \in MetricAlerts(device, settings) :
              /\ a.device = device.id /\ a.about \in {"CPU", "MEMORY", "TRAFFIC"}
              /\ a.severity \in MeasuredSeverities(device, settings) \ {"normal"}
         /\ \A severity \in MeasuredSeverities(device, settings) \ {"normal"} :
              \E a \in MetricAlerts(device, settings) : a.severity = severity
         /\ MeasuredSeverities(device, settings) \subseteq Severities
<1> DEFINE cpu == GetMetricSeverity(device.cpu, settings.cpu)
           memory == GetMetricSeverity(device.memory, settings.memory)
           Of(item) == GetInterfaceSeverity(item, settings)
<1>1. cpu \in Severities /\ memory \in Severities
  BY SameSeverity, RulesAreTyped DEF Device
<1>2. \A item \in device.interfaces : Of(item) \in Severities
  BY InterfaceSeverities DEF Device
<1>3. MeasuredSeverities(device, settings)
        = {cpu, memory} \cup {Of(item) : item \in device.interfaces}
  BY DEF MeasuredSeverities
<1>4. MetricAlerts(device, settings) =
        {a \in {Alert(device, cpu, "CPU", NoInterface), Alert(device, memory, "MEMORY", NoInterface)}
               \cup {Alert(device, Of(item), "TRAFFIC", item.index) : item \in device.interfaces} :
           a.severity # "normal"}
  BY DEF MetricAlerts
<1> HIDE DEF cpu, memory, Of
<1>5. \A severity, about, item :
        LET a == Alert(device, severity, about, item)
        IN  a.device = device.id /\ a.severity = severity /\ a.about = about
  BY DEF Alert
<1>6. MeasuredSeverities(device, settings) \subseteq Severities
  BY <1>1, <1>2, <1>3
<1>7. \A a \in MetricAlerts(device, settings) :
        /\ a.device = device.id /\ a.about \in {"CPU", "MEMORY", "TRAFFIC"}
        /\ a.severity \in MeasuredSeverities(device, settings) \ {"normal"}
  <2> SUFFICES ASSUME NEW a \in MetricAlerts(device, settings)
               PROVE  /\ a.device = device.id /\ a.about \in {"CPU", "MEMORY", "TRAFFIC"}
                      /\ a.severity \in MeasuredSeverities(device, settings) \ {"normal"}
    OBVIOUS
  <2>1. a.severity # "normal"
    BY <1>4
  <2>2. CASE a = Alert(device, cpu, "CPU", NoInterface)
    BY <2>1, <2>2, <1>3, <1>5
  <2>3. CASE a = Alert(device, memory, "MEMORY", NoInterface)
    BY <2>1, <2>3, <1>3, <1>5
  <2>4. ASSUME NEW item \in device.interfaces, a = Alert(device, Of(item), "TRAFFIC", item.index)
        PROVE  /\ a.device = device.id /\ a.about \in {"CPU", "MEMORY", "TRAFFIC"}
               /\ a.severity \in MeasuredSeverities(device, settings) \ {"normal"}
    BY <2>1, <2>4, <1>3, <1>5
  <2> QED
    BY <1>4, <2>2, <2>3, <2>4
<1>8. ASSUME NEW severity \in MeasuredSeverities(device, settings) \ {"normal"}
      PROVE  \E a \in MetricAlerts(device, settings) : a.severity = severity
  <2>1. CASE severity = cpu
    BY <2>1, <1>4, <1>5
  <2>2. CASE severity = memory
    BY <2>2, <1>4, <1>5
  <2>3. ASSUME NEW item \in device.interfaces, severity = Of(item)
        PROVE  \E a \in MetricAlerts(device, settings) : a.severity = severity
    BY <2>3, <1>4, <1>5
  <2> QED
    BY <1>3, <1>8, <2>1, <2>2, <2>3
<1> QED
  BY <1>6, <1>7, <1>8

LEMMA DownAlertsAre ==
  ASSUME NEW device
  PROVE  /\ \A a \in DownAlerts(device) :
              a.device = device.id /\ a.about = "DOWN" /\ a.severity = "warning"
         /\ DownAlerts(device) # {} <=> HasMeaningfulDownInterface(device)
<1> DEFINE Of(item) == Alert(device, "warning", "DOWN", item.index)
<1>1. \A item : Of(item).device = device.id /\ Of(item).about = "DOWN" /\ Of(item).severity = "warning"
  BY DEF Alert
<1> HIDE DEF Of
<1>2. DownAlerts(device) = {Of(item) : item \in {i \in device.interfaces : IsDown(i)}}
  BY DEF DownAlerts, Of
<1> QED
  BY <1>1, <1>2 DEF HasMeaningfulDownInterface

\* The health of a device that is enabled, beside the alerts listed of it.
LEMMA HealthFitsTheAlerts ==
  ASSUME NEW device \in Device, device.enabled, NEW settings \in Rules, NEW t \in Int
  PROVE  LET alerts == DeviceAlerts(device, settings, t)
             health == GetDeviceHealth(device, settings, t)
         IN  /\ \A a \in alerts : a.device = device.id
             /\ (\E a \in alerts : a.severity = "critical") <=> health = "critical"
             /\ alerts # {} <=> health # "normal"
             /\ health \in Severities
             /\ (\E a \in alerts : a.about = "DEVICE") <=> ~IsDeviceOnline(device, settings, t)
             /\ \A a, b \in alerts : a.about = "DEVICE" /\ b.about = "DEVICE" => a = b
<1> DEFINE alerts == DeviceAlerts(device, settings, t)
           health == GetDeviceHealth(device, settings, t)
           measured == MeasuredSeverities(device, settings)
           offline == Alert(device, "critical", "DEVICE", NoInterface)
<1>1. offline.device = device.id /\ offline.severity = "critical" /\ offline.about = "DEVICE"
  BY DEF Alert
<1>2. CASE ~IsDeviceOnline(device, settings, t)
  <2>1. alerts = {offline} /\ health = "critical"
    BY <1>2 DEF DeviceAlerts, GetDeviceHealth
  <2> HIDE DEF alerts, health, offline
  <2> QED
    BY <1>1, <1>2, <2>1 DEF Severities, alerts, health
<1>3. CASE IsDeviceOnline(device, settings, t) /\ ~settings.enabled
  <2>1. alerts = {} /\ health = "normal"
    BY <1>3 DEF DeviceAlerts, GetDeviceHealth
  <2> HIDE DEF alerts, health
  <2> QED
    BY <1>3, <2>1 DEF Severities, alerts, health
<1>4. CASE IsDeviceOnline(device, settings, t) /\ settings.enabled
  <2>1. alerts = MetricAlerts(device, settings) \cup DownAlerts(device)
    BY <1>4 DEF DeviceAlerts
  <2>2. health = IF "critical" \in measured THEN "critical"
                 ELSE IF "warning" \in measured \/ HasMeaningfulDownInterface(device)
                      THEN "warning" ELSE "normal"
    BY <1>4 DEF GetDeviceHealth
  <2>3. measured \subseteq Severities
    BY MetricAlertsAre
  <2>4. \A a \in alerts : a.device = device.id /\ a.about # "DEVICE"
    BY <2>1, MetricAlertsAre, DownAlertsAre
  <2>5. \A a \in MetricAlerts(device, settings) : a.severity \in measured \ {"normal"}
    BY MetricAlertsAre
  <2>6. \A severity \in measured \ {"normal"} :
          \E a \in MetricAlerts(device, settings) : a.severity = severity
    BY MetricAlertsAre
  <2>7. /\ \A a \in DownAlerts(device) : a.severity = "warning"
        /\ DownAlerts(device) # {} <=> HasMeaningfulDownInterface(device)
    BY DownAlertsAre
  <2> HIDE DEF alerts, health, measured
  <2>8. (\E a \in alerts : a.severity = "critical") <=> "critical" \in measured
    BY <2>1, <2>5, <2>6, <2>7
  <2>9. alerts # {} <=> (\E s \in measured : s # "normal") \/ HasMeaningfulDownInterface(device)
    BY <2>1, <2>5, <2>6, <2>7
  <2>10. (\E s \in measured : s # "normal") <=> "critical" \in measured \/ "warning" \in measured
    BY <2>3 DEF Severities
  <2> QED
    BY <1>4, <2>2, <2>4, <2>8, <2>9, <2>10 DEF Severities, alerts, health
<1> QED
  BY <1>2, <1>3, <1>4, RulesAreTyped

\* Of one snapshot, the script lists what the server raises.
LEMMA AlertsAreTheServers ==
  ASSUME NEW device \in Device, device.enabled, NEW settings \in Rules, NEW t \in Int
  PROVE  {a \in DeviceAlerts(device, settings, t) : a.about # "DOWN"} = Observations(device, settings, t)
<1> DEFINE online == /\ device.connected
                     /\ device.lastUpdated = Never \/ t - device.lastUpdated <= settings.timeout
           On == settings.enabled /\ online
           Metric(value, limits) == MetricSeverity(value, limits.warning, limits.critical, On)
           Traffic(item) ==
             ThresholdSeverity(item.utilization, settings.traffic.warning, settings.traffic.critical)
           Sent(item) == Alert(device, Traffic(item), "TRAFFIC", item.index)
           Listed(item) == Alert(device, GetInterfaceSeverity(item, settings), "TRAFFIC", item.index)
           cpu == Alert(device, Metric(device.cpu, settings.cpu), "CPU", NoInterface)
           memory == Alert(device, Metric(device.memory, settings.memory), "MEMORY", NoInterface)
           state == Alert(device, IF online THEN "normal" ELSE "critical", "DEVICE", NoInterface)
           eligible == {i \in device.interfaces : IsEligible(i, online, settings.enabled)}
<1>1. IsDeviceOnline(device, settings, t) <=> online
  BY DEF IsDeviceOnline
<1>2. online \in BOOLEAN /\ settings.enabled \in BOOLEAN
  BY RulesAreTyped DEF Device
<1>3. Observations(device, settings, t) =
        {o \in {cpu, memory, state} \cup {Sent(item) : item \in eligible} : o.severity # "normal"}
  BY DEF Observations
<1>4. \A severity, about, item :
        LET a == Alert(device, severity, about, item) IN a.severity = severity /\ a.about = about
  BY DEF Alert
<1>5. CASE ~online
  <2>1. {a \in DeviceAlerts(device, settings, t) : a.about # "DOWN"} = {state}
    <3>1. DeviceAlerts(device, settings, t) = {state}
      BY <1>1, <1>5 DEF DeviceAlerts
    <3> QED
      BY <3>1, <1>4
  <2>2. cpu.severity = "normal" /\ memory.severity = "normal" /\ state.severity = "critical"
    BY <1>4, <1>5 DEF MetricSeverity
  <2>3. eligible = {}
    BY <1>5 DEF IsEligible
  <2> HIDE DEF cpu, memory, state, Sent, eligible
  <2> QED
    BY <1>3, <2>1, <2>2, <2>3
<1>6. CASE online /\ ~settings.enabled
  <2>1. DeviceAlerts(device, settings, t) = {}
    BY <1>1, <1>6 DEF DeviceAlerts
  <2>2. cpu.severity = "normal" /\ memory.severity = "normal" /\ state.severity = "normal"
    BY <1>4, <1>6 DEF MetricSeverity
  <2>3. eligible = {}
    BY <1>6 DEF IsEligible
  <2> HIDE DEF cpu, memory, state, Sent, eligible
  <2> QED
    BY <1>3, <2>1, <2>2, <2>3
<1>7. CASE online /\ settings.enabled
  <2>1. DeviceAlerts(device, settings, t) = MetricAlerts(device, settings) \cup DownAlerts(device)
    BY <1>1, <1>7 DEF DeviceAlerts
  <2>2. /\ Metric(device.cpu, settings.cpu) = GetMetricSeverity(device.cpu, settings.cpu)
        /\ Metric(device.memory, settings.memory) = GetMetricSeverity(device.memory, settings.memory)
    <3>1. On = TRUE
      BY <1>7
    <3>2. device.cpu \in Int /\ device.memory \in Int
      BY DEF Device
    <3> HIDE DEF On
    <3> QED
      BY <3>1, <3>2, SameSeverity, RulesAreTyped
  <2>3. MetricAlerts(device, settings) =
          {a \in {cpu, memory} \cup {Listed(item) : item \in device.interfaces} : a.severity # "normal"}
    BY <2>2 DEF MetricAlerts
  <2>4. \A a \in DownAlerts(device) : a.about = "DOWN"
    BY DownAlertsAre
  <2>5. \A a \in MetricAlerts(device, settings) : a.about # "DOWN"
    BY MetricAlertsAre
  <2>6. \A item \in device.interfaces : HasTraffic(item) <=> item \in eligible
    BY <1>7 DEF HasTraffic, IsEligible, Device, Interface
  <2>7. \A item \in device.interfaces : HasTraffic(item) => Listed(item) = Sent(item)
    BY InterfaceSeverities DEF Device
  <2>8. \A item \in device.interfaces : ~HasTraffic(item) => Listed(item).severity = "normal"
    BY InterfaceSeverities, <1>4 DEF Device
  <2>9. state.severity = "normal" /\ eligible \subseteq device.interfaces
    BY <1>4, <1>7
  <2> HIDE DEF cpu, memory, state, Sent, Listed, eligible
  <2>10. {a \in DeviceAlerts(device, settings, t) : a.about # "DOWN"} = MetricAlerts(device, settings)
    BY <2>1, <2>4, <2>5
  <2>11. {Listed(item) : item \in eligible} = {Sent(item) : item \in eligible}
    BY <2>6, <2>7, <2>9
  <2>12. MetricAlerts(device, settings) =
           {o \in {cpu, memory, state} \cup {Sent(item) : item \in eligible} : o.severity # "normal"}
    BY <2>3, <2>6, <2>7, <2>8, <2>9
  <2> QED
    BY <1>3, <2>10, <2>12
<1> QED
  BY <1>2, <1>5, <1>6, <1>7

-----------------------------------------------------------------------------
(* What is shown *)

\* The list is taken when the summaries are there, too.
Ready(load) == load.pc \in {"listed", "detailed"} => load.summaries # NoData

\* The overview and the cards are of the same moment until a device is selected.
FleetInv ==
  /\ FleetTypeOK
  /\ \A c \in Loads : Ready(loads[c])
  /\ fleet.overview # NoData /\ ~fleet.apart => fleet.cards = fleet.overview

LEMMA NoDetailsIsTyped == NoDetails \in Summaries /\ NoDetails \in [Devices -> Snapshot \cup {NoData}]
BY DEF NoDetails, Summaries

LEMMA NoLoadIsALoad == NoLoad \in Load /\ Ready(NoLoad)
BY NoDetailsIsTyped DEF NoLoad, Load, Ready

\* What is rendered from is kept; what is rendered fits.
LEMMA RenderingFits ==
  ASSUME NEW f \in Fleet, now \in 0..MaxClock
  PROVE  /\ RenderFleetFromCache(f) \in Fleet
         /\ RenderFleetFromCache(f).overview # NoData =>
              RenderFleetFromCache(f).cards = RenderFleetFromCache(f).overview
         /\ RenderDevices(f) \in Fleet /\ RenderDevices(f).apart = f.apart
<1>1. View(f) \in Views
  BY DEF Fleet, View, Views
<1> DEFINE kept == [f EXCEPT !.apart = FALSE]
<1>2. kept \in Fleet /\ View(kept) = View(f) /\ kept.monitoring = f.monitoring
  BY DEF Fleet, View
<1> HIDE DEF kept
<1> DEFINE over == RenderFleetOverview(kept)
<1>3. /\ over \in Fleet /\ View(over) = View(f)
      /\ over.overview = IF f.monitoring THEN View(f) ELSE NoData
  <2>1. CASE f.monitoring
    <3>1. over = [kept EXCEPT !.overview = View(f)]
      BY <2>1, <1>2 DEF RenderFleetOverview
    <3> QED
      BY <3>1, <2>1, <1>1, <1>2 DEF Fleet, View
  <2>2. CASE ~f.monitoring
    <3>1. over = [kept EXCEPT !.overview = NoData]
      BY <2>2, <1>2 DEF RenderFleetOverview
    <3> QED
      BY <3>1, <2>2, <1>2 DEF Fleet, View
  <2> QED
    BY <2>1, <2>2
<1> HIDE DEF over
<1>4. RenderFleetFromCache(f) = [over EXCEPT !.cards = View(f)]
  BY <1>3 DEF RenderFleetFromCache, RenderDevices, over, kept
<1>5. RenderDevices(f) = [f EXCEPT !.cards = View(f)]
  BY DEF RenderDevices
<1> QED
  BY <1>1, <1>3, <1>4, <1>5 DEF Fleet

LEMMA SummaryOfIsTyped ==
  ASSUME FleetTypeOK, NEW d \in Devices
  PROVE  /\ SummaryOf(d) \in Summary \cup {NoData}
         /\ devices[d] # "absent" => SummaryOf(d) \in Summary
<1>1. snapshots[d] # NoData => snapshots[d] \in Snapshot
  BY DEF FleetTypeOK
<1> QED
  BY <1>1 DEF SummaryOf, Summary, Snapshot, FleetTypeOK, Lists, States

\* The initial state.
LEMMA FleetStarts == FleetInit => FleetInv
<1> SUFFICES ASSUME FleetInit PROVE FleetInv
  OBVIOUS
<1>1. PICK r \in Rules :
        fleet = [available |-> NoList, summaries |-> NoDetails, monitoring |-> FALSE,
                 settings |-> r, overview |-> NoData, cards |-> NoData, apart |-> FALSE]
  BY DEF FleetInit
<1>2. NoList \in Lists
  BY DEF NoList, Lists, States
<1>3. fleet \in Fleet /\ fleet.overview = NoData
  BY <1>1, <1>2, NoDetailsIsTyped DEF Fleet
<1>4. loads \in [Loads -> Load] /\ \A c \in Loads : Ready(loads[c])
  BY NoLoadIsALoad DEF FleetInit
<1>5. snapshots \in [Devices -> Snapshot \cup {NoData}]
  <2>1. [connected : {TRUE}, reading : Readings, lastUpdated : {0}] \subseteq Snapshot
    <3>1. 0 \in 0..MaxClock
      BY FleetBoundsAssumption
    <3> QED
      BY <3>1 DEF Snapshot
  <2> QED
    BY <2>1 DEF FleetInit
<1> QED
  BY <1>3, <1>4, <1>5, FleetBoundsAssumption DEF FleetInit, FleetInv, FleetTypeOK

\* A step that does not render.
LEMMA NotRendered ==
  ASSUME FleetInv, fleet' = fleet, FleetTypeOK', \A c \in Loads : Ready(loads'[c])
  PROVE  FleetInv'
BY DEF FleetInv, Ready

LEMMA ServerKeepsFleetInv ==
  ASSUME FleetInv, Server
  PROVE  FleetInv'
<1>1. ASSUME NEW d \in Devices, NEW state \in States, Edit(d, state)
      PROVE  FleetTypeOK' /\ fleet' = fleet
  BY <1>1, FleetBoundsAssumption DEF Edit, Change, FleetInv, FleetTypeOK, Lists
<1>2. ASSUME NEW d \in Devices, NEW reading \in Readings, Poll(d, reading)
      PROVE  FleetTypeOK' /\ fleet' = fleet
  <2>1. [connected |-> TRUE, reading |-> reading, lastUpdated |-> now] \in Snapshot
    BY DEF FleetInv, FleetTypeOK, Snapshot
  <2> QED
    BY <1>2, <2>1, FleetBoundsAssumption DEF Poll, Change, FleetInv, FleetTypeOK
<1>3. ASSUME NEW d \in Devices, PollFails(d)
      PROVE  FleetTypeOK' /\ fleet' = fleet
  <2> DEFINE new == IF snapshots[d] = NoData THEN [connected |-> FALSE, reading |-> NoData, lastUpdated |-> Never]
                    ELSE [snapshots[d] EXCEPT !.connected = FALSE]
  <2>1. snapshots[d] # NoData => snapshots[d] \in Snapshot
    BY DEF FleetInv, FleetTypeOK
  <2>2. new \in Snapshot
    BY <2>1 DEF Snapshot
  <2>3. snapshots' = [snapshots EXCEPT ![d] = new]
    BY <1>3 DEF PollFails
  <2> HIDE DEF new
  <2> QED
    <3>1. snapshots' \in [Devices -> Snapshot \cup {NoData}]
      BY <2>2, <2>3 DEF FleetInv, FleetTypeOK
    <3> QED
      BY <1>3, <3>1, FleetBoundsAssumption DEF PollFails, Change, FleetInv, FleetTypeOK
<1>4. ASSUME TimePasses PROVE FleetTypeOK' /\ fleet' = fleet
  BY <1>4, FleetBoundsAssumption DEF TimePasses, FleetInv, FleetTypeOK
<1> QED
  <2>1. loads' = loads /\ FleetTypeOK' /\ fleet' = fleet
    BY <1>1, <1>2, <1>3, <1>4 DEF Server, Edit, Poll, PollFails, TimePasses
  <2> QED
    BY <2>1, NotRendered DEF FleetInv

LEMMA PageKeepsFleetInv ==
  ASSUME FleetInv, SelectDevice \/ \E r \in Rules : SubmitAlertSettings(r)
  PROVE  FleetInv'
<1>0. fleet \in Fleet /\ now \in 0..MaxClock
  BY DEF FleetInv, FleetTypeOK
<1>1. CASE SelectDevice
  <2> DEFINE f == [fleet EXCEPT !.apart = TRUE]
  <2>1. f \in Fleet /\ f.apart = TRUE
    BY <1>0 DEF Fleet
  <2>2. fleet' = RenderDevices(f)
    BY <1>1 DEF SelectDevice
  <2> HIDE DEF f
  <2>3. fleet' \in Fleet /\ fleet'.apart = TRUE
    BY <1>0, <2>1, <2>2, RenderingFits
  <2> QED
    BY <1>1, <2>3 DEF SelectDevice, server, FleetInv, FleetTypeOK, Ready
<1>2. ASSUME NEW r \in Rules, SubmitAlertSettings(r)
      PROVE  FleetInv'
  <2> DEFINE f == [fleet EXCEPT !.settings = r]
  <2>1. f \in Fleet
    BY <1>0 DEF Fleet
  <2>2. fleet' = RenderFleetFromCache(f)
    BY <1>2 DEF SubmitAlertSettings
  <2> HIDE DEF f
  <2>3. fleet' \in Fleet /\ (fleet'.overview # NoData => fleet'.cards = fleet'.overview)
    BY <1>0, <2>1, <2>2, RenderingFits
  <2> QED
    BY <1>2, <2>3, FleetBoundsAssumption DEF SubmitAlertSettings, Change, FleetInv, FleetTypeOK, Ready
<1> QED
  BY <1>1, <1>2

\* The load of one call is replaced.
LEMMA LoadReplaced ==
  ASSUME FleetInv, NEW c \in Loads, NEW load \in Load, Ready(load),
         loads' = [loads EXCEPT ![c] = load]
  PROVE  loads' \in [Loads -> Load] /\ \A e \in Loads : Ready(loads'[e])
BY DEF FleetInv, FleetTypeOK

LEMMA LoadsKeepFleetInv ==
  ASSUME FleetInv, NEW c \in Loads,
         \/ LoadDevices(c) \/ ProceedLoad(c) \/ LoseSummaries(c) \/ LoadFails(c)
         \/ \E d \in Devices : LoseDetail(c, d)
  PROVE  FleetInv'
<1>0. /\ FleetTypeOK /\ Ready(loads[c]) /\ fleet \in Fleet /\ now \in 0..MaxClock /\ devices \in Lists
      /\ loads \in [Loads -> Load] /\ failures \in 0..MaxFailures
      /\ snapshots \in [Devices -> Snapshot \cup {NoData}]
  BY DEF FleetInv, FleetTypeOK
<1> DEFINE load == loads[c]
<1>l. load \in Load
  BY <1>0
<1>1. ASSUME LoadDevices(c) PROVE FleetInv'
  <2>1. [load EXCEPT !.pc = "asked"] \in Load /\ Ready([load EXCEPT !.pc = "asked"])
    BY <1>l DEF Load, Ready
  <2>2. loads' \in [Loads -> Load] /\ \A e \in Loads : Ready(loads'[e])
    BY <1>0, <1>1, <2>1, LoadReplaced DEF LoadDevices
  <2> QED
    BY <1>1, <2>2, NotRendered DEF LoadDevices, server, FleetInv, FleetTypeOK
<1>2. ASSUME AnswerDevices(c) PROVE FleetInv'
  <2>1. [load EXCEPT !.list = devices] \in Load /\ Ready([load EXCEPT !.list = devices])
    BY <1>l, <1>0 DEF Load, Ready
  <2>2. loads' \in [Loads -> Load] /\ \A e \in Loads : Ready(loads'[e])
    BY <1>0, <1>2, <2>1, LoadReplaced DEF AnswerDevices
  <2> QED
    BY <1>2, <2>2, NotRendered DEF AnswerDevices, server, FleetInv, FleetTypeOK
<1>3. ASSUME AnswerSummaries(c) PROVE FleetInv'
  <2> DEFINE all == [d \in Devices |-> SummaryOf(d)]
  <2>1. all \in Summaries
    BY <1>0, SummaryOfIsTyped DEF Summaries
  <2> HIDE DEF all
  <2>2. [load EXCEPT !.summaries = all] \in Load /\ Ready([load EXCEPT !.summaries = all])
    BY <1>l, <1>3, <2>1 DEF Load, Ready, AnswerSummaries
  <2>3. loads' = [loads EXCEPT ![c] = [load EXCEPT !.summaries = all]]
    BY <1>0, <1>3 DEF AnswerSummaries, all
  <2>4. loads' \in [Loads -> Load] /\ \A e \in Loads : Ready(loads'[e])
    BY <1>0, <2>2, <2>3, LoadReplaced
  <2> QED
    BY <1>3, <2>4, NotRendered DEF AnswerSummaries, server, FleetInv, FleetTypeOK
<1>4. ASSUME LoseSummaries(c) PROVE FleetInv'
  <2>1. [load EXCEPT !.summaries = NoDetails, !.monitoring = FALSE] \in Load /\ Ready([load EXCEPT !.summaries = NoDetails, !.monitoring = FALSE])
    BY <1>l, <1>4, NoDetailsIsTyped DEF Load, Ready, LoseSummaries
  <2>2. loads' = [loads EXCEPT ![c] = [load EXCEPT !.summaries = NoDetails, !.monitoring = FALSE]]
    BY <1>0, <1>4 DEF LoseSummaries
  <2>3. loads' \in [Loads -> Load] /\ \A e \in Loads : Ready(loads'[e])
    BY <1>0, <2>1, <2>2, LoadReplaced
  <2> QED
    BY <1>4, <2>3, NotRendered, FleetBoundsAssumption DEF LoseSummaries, server, FleetInv, FleetTypeOK
<1>5. ASSUME TakeList(c) PROVE FleetInv'
  <2>1. load.list \in Lists /\ load.monitoring \in BOOLEAN
    BY <1>5, <1>l DEF TakeList, Load
  <2>2. fleet' = [fleet EXCEPT !.available = load.list, !.monitoring = load.monitoring]
    BY <1>5 DEF TakeList
  <2>3. fleet' \in Fleet /\ fleet'.overview = fleet.overview /\ fleet'.cards = fleet.cards
          /\ fleet'.apart = fleet.apart
    BY <1>0, <2>1, <2>2 DEF Fleet
  <2>4. [load EXCEPT !.pc = "listed", !.list = NoData] \in Load /\ Ready([load EXCEPT !.pc = "listed", !.list = NoData])
    BY <1>l, <1>5 DEF Load, Ready, TakeList
  <2>5. loads' = [loads EXCEPT ![c] = [load EXCEPT !.pc = "listed", !.list = NoData]]
    BY <1>0, <1>5 DEF TakeList
  <2>6. loads' \in [Loads -> Load] /\ \A e \in Loads : Ready(loads'[e])
    BY <1>0, <2>4, <2>5, LoadReplaced
  <2> QED
    BY <1>5, <2>3, <2>6 DEF TakeList, server, FleetInv, FleetTypeOK
<1>6. ASSUME AskDetails(c) PROVE FleetInv'
  <2> DEFINE wanted == IF load.monitoring THEN {d \in Devices : fleet.available[d] = "enabled"} ELSE {}
  <2>1. wanted \in SUBSET Devices
    OBVIOUS
  <2> HIDE DEF wanted
  <2>2. [load EXCEPT !.pc = "detailed", !.wanted = wanted] \in Load /\ Ready([load EXCEPT !.pc = "detailed", !.wanted = wanted])
    BY <1>0, <1>l, <1>6, <2>1 DEF Load, Ready, AskDetails
  <2>3. loads' = [loads EXCEPT ![c] = [load EXCEPT !.pc = "detailed", !.wanted = wanted]]
    BY <1>0, <1>6 DEF AskDetails, wanted
  <2>4. loads' \in [Loads -> Load] /\ \A e \in Loads : Ready(loads'[e])
    BY <1>0, <2>2, <2>3, LoadReplaced
  <2> QED
    BY <1>6, <2>4, NotRendered DEF AskDetails, server, FleetInv, FleetTypeOK
<1>7. ASSUME NEW d \in Devices, AnswerDetail(c, d) PROVE FleetInv'
  <2> DEFINE detail == IF devices[d] = "absent" THEN NoData ELSE snapshots[d]
             new == [load EXCEPT !.wanted = load.wanted \ {d}, !.details = [load.details EXCEPT ![d] = detail]]
  <2>1. detail \in Snapshot \cup {NoData}
    BY <1>0
  <2>2. load.details \in [Devices -> Snapshot \cup {NoData}] /\ load.wanted \in SUBSET Devices
    BY <1>l DEF Load
  <2> HIDE DEF detail
  <2>3. [load.details EXCEPT ![d] = detail] \in [Devices -> Snapshot \cup {NoData}]
    BY <2>1, <2>2
  <2>4. new \in Load /\ Ready(new)
    BY <1>0, <1>l, <2>2, <2>3 DEF Load, Ready
  <2>5. loads' = [loads EXCEPT ![c] = new]
    BY <1>0, <1>l, <1>7 DEF AnswerDetail, detail, Load
  <2> HIDE DEF new
  <2>6. loads' \in [Loads -> Load] /\ \A e \in Loads : Ready(loads'[e])
    BY <1>0, <2>4, <2>5, LoadReplaced
  <2> QED
    BY <1>7, <2>6, NotRendered DEF AnswerDetail, server, FleetInv, FleetTypeOK
<1>8. ASSUME UseDetails(c) PROVE FleetInv'
  <2>1. load.summaries \in Summaries /\ load.details \in [Devices -> Snapshot \cup {NoData}]
    BY <1>0, <1>l, <1>8 DEF Load, Ready, UseDetails
  <2>2. WithDetails(load) \in Summaries
    <3>1. ASSUME NEW d \in Devices, load.summaries[d] # NoData
          PROVE  [load.summaries[d] EXCEPT !.detail = load.details[d]] \in Summary
      <4>1. load.summaries[d] \in Summary /\ load.details[d] \in Snapshot \cup {NoData}
        BY <2>1, <3>1 DEF Summaries
      <4> QED
        BY <4>1 DEF Summary
    <3> QED
      BY <3>1 DEF WithDetails, Summaries
  <2> DEFINE f == [fleet EXCEPT !.summaries = WithDetails(load)]
  <2>3. f \in Fleet
    BY <1>0, <2>2 DEF Fleet
  <2>4. fleet' = RenderFleetFromCache(f)
    BY <1>8 DEF UseDetails
  <2> HIDE DEF f
  <2>5. fleet' \in Fleet /\ (fleet'.overview # NoData => fleet'.cards = fleet'.overview)
    BY <1>0, <2>3, <2>4, RenderingFits
  <2>6. loads' \in [Loads -> Load] /\ \A e \in Loads : Ready(loads'[e])
    BY <1>0, <1>8, NoLoadIsALoad, LoadReplaced DEF UseDetails
  <2> QED
    BY <1>8, <2>5, <2>6 DEF UseDetails, server, FleetInv, FleetTypeOK
<1>9. ASSUME LoadFails(c) PROVE FleetInv'
  <2>1. fleet' \in Fleet /\ fleet'.overview = NoData
    BY <1>0, <1>9 DEF LoadFails, Fleet
  <2>2. loads' \in [Loads -> Load] /\ \A e \in Loads : Ready(loads'[e])
    BY <1>0, <1>9, NoLoadIsALoad, LoadReplaced DEF LoadFails
  <2> QED
    BY <1>9, <2>1, <2>2, FleetBoundsAssumption DEF LoadFails, server, FleetInv, FleetTypeOK
<1>10. ASSUME NEW d \in Devices, LoseDetail(c, d) PROVE FleetInv'
  <2>1. [load EXCEPT !.wanted = load.wanted \ {d}] \in Load /\ Ready([load EXCEPT !.wanted = load.wanted \ {d}])
    BY <1>0, <1>l DEF Load, Ready
  <2>2. loads' = [loads EXCEPT ![c] = [load EXCEPT !.wanted = load.wanted \ {d}]]
    BY <1>0, <1>10 DEF LoseDetail
  <2>3. loads' \in [Loads -> Load] /\ \A e \in Loads : Ready(loads'[e])
    BY <1>0, <2>1, <2>2, LoadReplaced
  <2> QED
    <3>1. failures' \in 0..MaxFailures /\ fleet' = fleet /\ UNCHANGED <<server, changes>>
      BY <1>0, <1>10, FleetBoundsAssumption DEF LoseDetail
    <3>2. FleetTypeOK'
      BY <1>0, <2>3, <3>1 DEF server, FleetTypeOK
    <3> QED
      BY <2>3, <3>1, <3>2, NotRendered
<1> QED
  BY <1>1, <1>2, <1>3, <1>4, <1>5, <1>6, <1>7, <1>8, <1>9, <1>10 DEF ProceedLoad

\* The invariant.
THEOREM FleetIsConsistent == FleetSpec => []FleetInv
<1>1. ASSUME FleetInv, [FleetNext]_fleetVars PROVE FleetInv'
  <2>1. CASE Server
    BY <1>1, <2>1, ServerKeepsFleetInv
  <2>2. CASE SelectDevice \/ \E r \in Rules : SubmitAlertSettings(r)
    BY <1>1, <2>2, PageKeepsFleetInv
  <2>3. ASSUME NEW c \in Loads,
               \/ LoadDevices(c) \/ ProceedLoad(c) \/ LoseSummaries(c) \/ LoadFails(c)
               \/ \E d \in Devices : LoseDetail(c, d)
        PROVE  FleetInv'
    BY <1>1, <2>3, LoadsKeepFleetInv
  <2>4. CASE UNCHANGED fleetVars
    BY <1>1, <2>4 DEF fleetVars, server, FleetInv, FleetTypeOK, Ready
  <2> QED
    BY <1>1, <2>1, <2>2, <2>3, <2>4 DEF FleetNext
<1> QED
  BY <1>1, FleetStarts, PTL DEF FleetSpec

\* What the server keeps, and what the page keeps and shows, has its type.
THEOREM FleetTypes == FleetSpec => []FleetTypeOK
<1>1. FleetInv => FleetTypeOK
  BY DEF FleetInv
<1> QED
  BY <1>1, FleetIsConsistent, PTL

-----------------------------------------------------------------------------
(* What the page says fits *)

LEMMA CurrentIsTyped ==
  ASSUME FleetTypeOK
  PROVE  CurrentSummaries \in Summaries
<1>1. ASSUME NEW d \in Devices, devices[d] # "absent"
      PROVE  [SummaryOf(d) EXCEPT !.detail = snapshots[d]] \in Summary
  <2>1. SummaryOf(d) \in Summary /\ snapshots[d] \in Snapshot \cup {NoData}
    BY <1>1, SummaryOfIsTyped DEF FleetTypeOK
  <2> QED
    BY <2>1 DEF Summary
<1> QED
  BY <1>1 DEF CurrentSummaries, Summaries

\* From one snapshot and the same settings, the page lists the alerts that the
\* server raises, but for interfaces that are down.
THEOREM PageJudgesLikeTheServer == FleetSpec => []JudgesLikeTheServer
<1>1. ASSUME FleetTypeOK PROVE JudgesLikeTheServer
  <2>1. FleetOf(devices, CurrentSummaries) \subseteq Device
    BY <1>1, CurrentIsTyped, FleetIsOfDevices DEF FleetTypeOK
  <2>2. fleet.settings \in Rules /\ now \in Int
    BY <1>1 DEF FleetTypeOK, Fleet
  <2> QED
    BY <2>1, <2>2, AlertsAreTheServers DEF JudgesLikeTheServer
<1> QED
  BY <1>1, FleetTypes, PTL

\* The counts of a view.
LEMMA AlertsFitTheCounts ==
  ASSUME NEW view \in Views
  PROVE  LET counts == Counts(view)
             alerts == Alerts(view)
             critical == DevicesWith({a \in alerts : a.severity = "critical"})
         IN  /\ counts.critical = Cardinality(critical)
             /\ counts.warning = Cardinality(DevicesWith(alerts) \ critical)
             /\ counts.offline = Cardinality({a \in alerts : a.about = "DEVICE"})
<1> DEFINE all == ViewedFleet(view)
           enabled == {x \in all : x.enabled}
           Online(x) == IsDeviceOnline(x, view.settings, view.now)
           Health(x) == GetDeviceHealth(x, view.settings, view.now)
           Of(x) == DeviceAlerts(x, view.settings, view.now)
           online == {x \in enabled : Online(x)}
           With(health) == {x \in enabled : Health(x) = health}
           alerts == Alerts(view)
           severe == {a \in alerts : a.severity = "critical"}
           critical == DevicesWith(severe)
           state == {a \in alerts : a.about = "DEVICE"}
<1>1. /\ view.list \in Lists /\ view.summaries \in Summaries /\ view.settings \in Rules
      /\ view.now \in Int
  BY DEF Views
<1>2. /\ all = FleetOf(view.list, view.summaries) /\ all \subseteq Device
      /\ \A x, y \in all : x.id = y.id => x = y
  BY <1>1, FleetIsOfDevices DEF ViewedFleet
<1>3. /\ Counts(view).critical = Cardinality(With("critical"))
      /\ Counts(view).warning = Cardinality(With("warning"))
      /\ Counts(view).offline = Cardinality(enabled) - Cardinality(online)
  BY DEF Counts, Overview
<1>4. alerts = UNION {Of(x) : x \in all}
  BY DEF Alerts, BuildFleetAlerts
<1>5. \A x \in all : ~x.enabled => Of(x) = {}
  BY DEF DeviceAlerts
<1>6. \A x \in enabled :
        /\ \A a \in Of(x) : a.device = x.id
        /\ (\E a \in Of(x) : a.severity = "critical") <=> Health(x) = "critical"
        /\ Of(x) # {} <=> Health(x) # "normal"
        /\ Health(x) \in Severities
        /\ (\E a \in Of(x) : a.about = "DEVICE") <=> ~Online(x)
        /\ \A a, b \in Of(x) : a.about = "DEVICE" /\ b.about = "DEVICE" => a = b
  BY <1>1, <1>2, HealthFitsTheAlerts
<1> HIDE DEF all, Online, Health, Of, alerts
<1>7. \A a : a \in alerts <=> \E x \in enabled : a \in Of(x)
  BY <1>4, <1>5
<1>8. critical = {x.id : x \in With("critical")}
  <2>1. \A i : i \in critical <=> \E a \in alerts : a.severity = "critical" /\ a.device = i
    BY DEF DevicesWith
  <2> QED
    BY <2>1, <1>6, <1>7
<1>9. DevicesWith(alerts) \ critical = {x.id : x \in With("warning")}
  <2>1. \A i : i \in DevicesWith(alerts) <=> \E x \in enabled : x.id = i /\ Health(x) # "normal"
    <3>1. \A i : i \in DevicesWith(alerts) <=> \E a \in alerts : a.device = i
      BY DEF DevicesWith
    <3> QED
      BY <3>1, <1>6, <1>7
  <2>2. \A x \in enabled : x.id \in critical <=> Health(x) = "critical"
    BY <1>2, <1>8
  <2> HIDE DEF critical
  <2> QED
    BY <2>1, <2>2, <1>6 DEF Severities
\* Devices are counted by their names.
<1>10. ASSUME NEW G \in SUBSET all
       PROVE  IsFiniteSet(G) /\ Cardinality({x.id : x \in G}) = Cardinality(G)
  <2> DEFINE names == {x.id : x \in G}
             f == [x \in G |-> x.id]
  <2>1. f \in [G -> names] /\ \A x, y \in G : f[x] = f[y] => x.id = y.id
    OBVIOUS
  <2>2. \A t \in names : \E x \in G : f[x] = t
    OBVIOUS
  <2> HIDE DEF f, names
  <2>3. IsFiniteSet(G) /\ Cardinality(names) = Cardinality(G)
    BY <1>1, <1>2, <2>1, <2>2, Counted
  <2> QED
    BY <2>3 DEF names
\* There is one alert for each device that is offline.
<1>11. Cardinality(state) = Cardinality(enabled \ online)
  <2> DEFINE offline == enabled \ online
             f == [x \in offline |-> CHOOSE a \in Of(x) : a.about = "DEVICE"]
  <2>1. \A x \in offline : f[x] \in Of(x) /\ f[x].about = "DEVICE" /\ f[x].device = x.id
    BY <1>6
  <2>2. f \in [offline -> state]
    BY <2>1, <1>7
  <2>3. \A x, y \in offline : f[x] = f[y] => x.id = y.id
    BY <2>1
  <2>4. \A a \in state : \E x \in offline : f[x] = a
    BY <2>1, <1>6, <1>7
  <2>5. offline \in SUBSET FleetOf(view.list, view.summaries)
    BY <1>2
  <2> HIDE DEF f, offline, state
  <2>6. Cardinality(state) = Cardinality(offline)
    BY <1>1, <2>2, <2>3, <2>4, <2>5, Counted
  <2> QED
    BY <2>6 DEF offline
<1>12. Cardinality(enabled \ online) = Cardinality(enabled) - Cardinality(online)
  <2>1. IsFiniteSet(enabled)
    BY <1>10
  <2>2. enabled \cap online = online
    OBVIOUS
  <2> HIDE DEF enabled, online
  <2> QED
    BY <2>1, <2>2, FS_Difference
<1>13. With("critical") \in SUBSET all /\ With("warning") \in SUBSET all
  OBVIOUS
<1> HIDE DEF With, critical, enabled, online
<1>14. /\ Cardinality({x.id : x \in With("critical")}) = Cardinality(With("critical"))
       /\ Cardinality({x.id : x \in With("warning")}) = Cardinality(With("warning"))
  BY <1>10, <1>13
<1> QED
  BY <1>3, <1>8, <1>9, <1>11, <1>12, <1>14 DEF alerts, severe, critical, state

\* The cards of a view.
LEMMA CardsFitTheCounts ==
  ASSUME NEW view \in Views
  PROVE  LET counts == Counts(view)
             cards == Cards(view)
             With(statuses) == Cardinality({card \in cards : card.status \in statuses})
         IN  /\ counts.total = Cardinality(cards)
             /\ counts.online = With({"Online"})
             /\ counts.offline = With({"Waiting", "Offline"})
             /\ counts.warning = Cardinality({card \in cards : card.health = "warning"})
<1> DEFINE all == ViewedFleet(view)
           enabled == {x \in all : x.enabled}
           Online(x) == IsDeviceOnline(x, view.settings, view.now)
           Health(x) == GetDeviceHealth(x, view.settings, view.now)
           Of(x) == Card(x, view.settings, view.now)
           online == {x \in enabled : Online(x)}
           warning == {x \in enabled : Health(x) = "warning"}
           cards == Cards(view)
<1>1. view.list \in Lists /\ view.summaries \in Summaries
  BY DEF Views
<1>2. all = FleetOf(view.list, view.summaries)
  BY DEF ViewedFleet
<1>3. /\ Counts(view).total = Cardinality(all)
      /\ Counts(view).online = Cardinality(online)
      /\ Counts(view).offline = Cardinality(enabled) - Cardinality(online)
      /\ Counts(view).warning = Cardinality(warning)
  BY DEF Counts, Overview
<1>4. cards = {Of(x) : x \in all}
  BY DEF Cards
<1>5. \A x \in all :
        /\ Of(x).device = x.id
        /\ Of(x).status = "Online" <=> x \in online
        /\ Of(x).status \in {"Waiting", "Offline"} <=> x \in enabled \ online
        /\ Of(x).health = "warning" <=> x \in warning
  <2> SUFFICES ASSUME NEW x \in all
               PROVE  /\ Of(x).device = x.id
                      /\ Of(x).status = "Online" <=> x \in online
                      /\ Of(x).status \in {"Waiting", "Offline"} <=> x \in enabled \ online
                      /\ Of(x).health = "warning" <=> x \in warning
    OBVIOUS
  <2>1. /\ Of(x).device = x.id /\ Of(x).status = StatusLabel(x, view.settings, view.now)
        /\ Of(x).health = HealthLabel(x, view.settings, view.now)
    BY DEF Card
  <2>2. ~Online(x) => Health(x) = "critical"
    BY DEF GetDeviceHealth
  <2>3. Of(x).status = IF ~x.enabled THEN "Disabled"
                       ELSE IF Online(x) THEN "Online"
                       ELSE IF x.waiting THEN "Waiting" ELSE "Offline"
    BY <2>1 DEF StatusLabel
  <2>4. Of(x).health = IF ~x.enabled THEN "Disabled"
                       ELSE IF ~Online(x) THEN "Offline"
                       ELSE IF Health(x) = "normal" THEN "Healthy" ELSE Health(x)
    BY <2>1 DEF HealthLabel
  <2> HIDE DEF Online, Health, Of, all
  <2> QED
    BY <2>1, <2>2, <2>3, <2>4
<1> HIDE DEF all, Online, Health, Of, cards
\* Cards are counted by their devices.
<1>6. ASSUME NEW G \in SUBSET all, NEW T, \A t : t \in T <=> \E x \in G : Of(x) = t
      PROVE  IsFiniteSet(G) /\ Cardinality(T) = Cardinality(G)
  <2> DEFINE f == [x \in G |-> Of(x)]
  <2>1. f \in [G -> T]
    BY <1>6
  <2>4. \A t \in T : \E x \in G : f[x] = t
    BY <1>6
  <2>2. \A x, y \in G : f[x] = f[y] => x.id = y.id
    BY <1>5
  <2>3. G \in SUBSET FleetOf(view.list, view.summaries)
    BY <1>2
  <2> HIDE DEF f, enabled, online, warning
  <2>5. IsFiniteSet(G) /\ IsFiniteSet(T) /\ Cardinality(T) = Cardinality(G)
    BY ONLY <1>1, <2>1, <2>2, <2>3, <2>4, Counted
  <2> QED
    BY <2>5
<1>7. Cardinality(cards) = Cardinality(all)
  BY <1>4, <1>6
<1>8. Cardinality({card \in cards : card.status \in {"Online"}}) = Cardinality(online)
  <2> DEFINE T == {card \in cards : card.status \in {"Online"}}
  <2>1. \A t : t \in T <=> \E x \in online : Of(x) = t
    BY <1>4, <1>5
  <2>2. online \in SUBSET all
    OBVIOUS
  <2> HIDE DEF T, online
  <2>3. Cardinality(T) = Cardinality(online)
    BY <1>6, <2>1, <2>2
  <2> QED
    BY <2>3 DEF T
<1>9. Cardinality({card \in cards : card.status \in {"Waiting", "Offline"}}) = Cardinality(enabled \ online)
  <2> DEFINE T == {card \in cards : card.status \in {"Waiting", "Offline"}}
             offline == enabled \ online
  <2>1. \A t : t \in T <=> \E x \in offline : Of(x) = t
    BY <1>4, <1>5
  <2>2. offline \in SUBSET all
    OBVIOUS
  <2> HIDE DEF T, offline
  <2>3. Cardinality(T) = Cardinality(offline)
    BY <1>6, <2>1, <2>2
  <2> QED
    BY <2>3 DEF T, offline
<1>10. Cardinality({card \in cards : card.health = "warning"}) = Cardinality(warning)
  <2> DEFINE T == {card \in cards : card.health = "warning"}
  <2>1. \A t : t \in T <=> \E x \in warning : Of(x) = t
    BY <1>4, <1>5
  <2>2. warning \in SUBSET all
    OBVIOUS
  <2> HIDE DEF T, warning
  <2>3. Cardinality(T) = Cardinality(warning)
    BY <1>6, <2>1, <2>2
  <2> QED
    BY <2>3 DEF T
<1>11. Cardinality(enabled \ online) = Cardinality(enabled) - Cardinality(online)
  <2>1. IsFiniteSet(enabled)
    <3> DEFINE T == {Of(x) : x \in enabled}
    <3>1. \A t : t \in T <=> \E x \in enabled : Of(x) = t
      OBVIOUS
    <3>2. enabled \in SUBSET all
      OBVIOUS
    <3> HIDE DEF T, enabled
    <3> QED
      BY <1>6, <3>1, <3>2
  <2>2. enabled \cap online = online
    OBVIOUS
  <2> HIDE DEF enabled, online
  <2> QED
    BY <2>1, <2>2, FS_Difference
<1> HIDE DEF enabled, online, warning
<1> QED
  BY <1>3, <1>7, <1>8, <1>9, <1>10, <1>11 DEF cards

\* The counts of the overview are those of the alerts listed beside it.
THEOREM OverviewFits == FleetSpec => []OverviewFitsTheAlerts
<1>1. ASSUME FleetTypeOK PROVE OverviewFitsTheAlerts
  <2>1. fleet.overview # NoData => fleet.overview \in Views
    BY <1>1 DEF FleetTypeOK, Fleet
  <2> QED
    BY <2>1, AlertsFitTheCounts DEF OverviewFitsTheAlerts
<1> QED
  BY <1>1, FleetTypes, PTL

\* The cards say what the overview counts, until a device is selected.
THEOREM CardsFit == FleetSpec => []CardsFitTheOverview
<1>1. ASSUME FleetInv PROVE CardsFitTheOverview
  <2>1. fleet.overview # NoData => fleet.overview \in Views
    BY <1>1 DEF FleetInv, FleetTypeOK, Fleet
  <2>2. fleet.overview # NoData /\ ~fleet.apart => fleet.cards = fleet.overview
    BY <1>1 DEF FleetInv
  <2> QED
    BY <2>1, <2>2, CardsFitTheCounts DEF CardsFitTheOverview
<1> QED
  BY <1>1, FleetIsConsistent, PTL
=============================================================================
