---------------------------- MODULE FleetHealth ----------------------------
(***************************************************************************)
(* The rules by which dashboard.js judges a fleet: the severity of a       *)
(* reading, the health of a device, the alerts listed, the counts of the   *)
(* overview and the badges of a device card; and, to compare them with,    *)
(* what the server's alert evaluation makes of the same snapshot.          *)
(*                                                                         *)
(* A device is a record [id, enabled, connected, waiting, cpu, memory,     *)
(* interfaces, lastUpdated]: the row of the list with its summary and      *)
(* details, or what their absence reads as.  The script's fields of an     *)
(* interface are kept as far as a rule asks for them.                      *)
(***************************************************************************)
EXTENDS AlertPolicy, FiniteSets

\* What a poll may say of an interface, as far as a rule asks, and the two
\* limits of a rule.
Interface == [index : Nat \ {0}, physical : BOOLEAN, admin : {"up", "down", "other"},
              oper : {"up", "down", "other"},
              measuring : BOOLEAN, speed : Nat, utilization : Int, fortilink : BOOLEAN]
Thresholds == [warning : Int, critical : Int]

\* getMetricSeverity; getCpuSeverity and getMemorySeverity choose the limits.
GetMetricSeverity(value, limits) ==
  CASE value = NoReading -> "normal"
    [] value # NoReading /\ value >= limits.critical -> "critical"
    [] value # NoReading /\ value < limits.critical /\ value >= limits.warning -> "warning"
    [] OTHER -> "normal"

\* Mutant of HasTraffic: what is being measured counts.
HasTrafficAtOnce(item) ==
  /\ item.physical /\ item.oper = "up"
  /\ item.speed > 0 /\ item.utilization # NoReading

\* The interface is of those whose utilization is judged.
HasTraffic(item) ==
  /\ item.physical /\ item.oper = "up" /\ ~item.measuring
  /\ item.speed > 0 /\ item.utilization # NoReading

GetInterfaceSeverity(item, settings) ==
  IF HasTraffic(item) THEN GetMetricSeverity(item.utilization, settings.traffic) ELSE "normal"

IsDeviceOnline(device, settings, now) ==
  /\ device.enabled /\ device.connected
  /\ device.lastUpdated = Never \/ now - device.lastUpdated <= settings.timeout

\* Down although it should be up; the internal link of a FortiGate does not count.
IsDown(item) == item.physical /\ item.admin = "up" /\ item.oper = "down" /\ ~item.fortilink

HasMeaningfulDownInterface(device) == \E item \in device.interfaces : IsDown(item)

\* The severities of all that is measured on a device.
MeasuredSeverities(device, settings) ==
  {GetMetricSeverity(device.cpu, settings.cpu), GetMetricSeverity(device.memory, settings.memory)}
    \cup {GetInterfaceSeverity(item, settings) : item \in device.interfaces}

\* Mutant of GetDeviceHealth: an interface that is down does not matter.
GetDeviceHealthOfMetrics(device, settings, now) ==
  IF ~IsDeviceOnline(device, settings, now) THEN "critical"
  ELSE IF ~settings.enabled THEN "normal"
  ELSE IF "critical" \in MeasuredSeverities(device, settings) THEN "critical"
  ELSE IF "warning" \in MeasuredSeverities(device, settings) THEN "warning" ELSE "normal"

GetDeviceHealth(device, settings, now) ==
  IF ~IsDeviceOnline(device, settings, now) THEN "critical"
  ELSE IF ~settings.enabled THEN "normal"
  ELSE IF "critical" \in MeasuredSeverities(device, settings) THEN "critical"
  ELSE IF "warning" \in MeasuredSeverities(device, settings) \/ HasMeaningfulDownInterface(device)
       THEN "warning" ELSE "normal"

Alert(device, severity, about, item) ==
  [device |-> device.id, severity |-> severity, about |-> about, interface |-> item]

NoInterface == 0

\* The alerts of one device that is online, judged by its readings.
MetricAlerts(device, settings) ==
  {a \in {Alert(device, GetMetricSeverity(device.cpu, settings.cpu), "CPU", NoInterface),
          Alert(device, GetMetricSeverity(device.memory, settings.memory), "MEMORY", NoInterface)}
         \cup {Alert(device, GetInterfaceSeverity(item, settings), "TRAFFIC", item.index) :
                 item \in device.interfaces} :
     a.severity # "normal"}

DownAlerts(device) ==
  {Alert(device, "warning", "DOWN", item.index) : item \in {i \in device.interfaces : IsDown(i)}}

DeviceAlerts(device, settings, now) ==
  IF ~device.enabled THEN {}
  ELSE IF ~IsDeviceOnline(device, settings, now)
       THEN {Alert(device, "critical", "DEVICE", NoInterface)}
  ELSE IF settings.enabled THEN MetricAlerts(device, settings) \cup DownAlerts(device) ELSE {}

\* buildFleetAlerts, up to the order of the list.
BuildFleetAlerts(devices, settings, now) ==
  UNION {DeviceAlerts(device, settings, now) : device \in devices}

\* The counts of renderFleetOverview.
Overview(devices, settings, now) ==
  LET enabled == {device \in devices : device.enabled}
      online == {device \in enabled : IsDeviceOnline(device, settings, now)}
      Count(health) ==
        Cardinality({device \in enabled : GetDeviceHealth(device, settings, now) = health})
  IN  [total |-> Cardinality(devices), online |-> Cardinality(online),
       offline |-> Cardinality(enabled) - Cardinality(online),
       warning |-> Count("warning"), critical |-> Count("critical")]

\* The badges of a card in renderDevices.
StatusLabel(device, settings, now) ==
  IF ~device.enabled THEN "Disabled"
  ELSE IF IsDeviceOnline(device, settings, now) THEN "Online"
  ELSE IF device.waiting THEN "Waiting" ELSE "Offline"

HealthLabel(device, settings, now) ==
  IF ~device.enabled THEN "Disabled"
  ELSE IF ~IsDeviceOnline(device, settings, now) THEN "Offline"
  ELSE LET health == GetDeviceHealth(device, settings, now)
       IN  IF health = "normal" THEN "Healthy" ELSE health

Card(device, settings, now) ==
  [device |-> device.id, status |-> StatusLabel(device, settings, now),
   health |-> HealthLabel(device, settings, now)]

-----------------------------------------------------------------------------
(* The server's judgement of a snapshot *)

\* InterfaceTrafficAlertPolicy.IsEligible, for a device that is enabled.
IsEligible(item, online, enabled) ==
  /\ online /\ enabled
  /\ item.physical /\ item.oper = "up" /\ item.speed > 0
  /\ ~item.measuring /\ item.utilization # NoReading

\* The observations of EvaluateAsync that are not normal.
Observations(device, settings, now) ==
  LET online == /\ device.connected
                /\ device.lastUpdated = Never \/ now - device.lastUpdated <= settings.timeout
      Metric(value, limits) ==
        MetricSeverity(value, limits.warning, limits.critical, settings.enabled /\ online)
      Traffic(item) ==
        ThresholdSeverity(item.utilization, settings.traffic.warning, settings.traffic.critical)
  IN  {o \in {Alert(device, Metric(device.cpu, settings.cpu), "CPU", NoInterface),
              Alert(device, Metric(device.memory, settings.memory), "MEMORY", NoInterface),
              Alert(device, IF online THEN "normal" ELSE "critical", "DEVICE", NoInterface)}
             \cup {Alert(device, Traffic(item), "TRAFFIC", item.index) :
                     item \in {i \in device.interfaces : IsEligible(i, online, settings.enabled)}} :
         o.severity # "normal"}
=============================================================================
