------------------------- MODULE AlertEngineProofs -------------------------
(***************************************************************************)
(* Proofs about AlertEngine for any devices, keys, settings and requests:  *)
(* what holds in every state, that the engine implements AlertLifecycle,   *)
(* what ticks that come to an end achieve, and what an event says.         *)
(***************************************************************************)
EXTENDS AlertEngine, TLAPS

\* The null objects have the types of what they stand for.
LEMMA NullTypes ==
  /\ AlertDefaults \in AlertRule
  /\ MailDefaults \in MailRule
  /\ NoRow \in AlertRow
  /\ Disconnected(TRUE) \in Snapshot
  /\ NoSnapshot \in Snapshot
  /\ NoEvent \in EventRow
  /\ NoMail \in MailNote
  /\ NoTick \in Tick
  /\ NoJob \in Job
  /\ NoRequest \in Request
<1>1. AlertDefaults \in AlertRule /\ MailDefaults \in MailRule
  BY DEF AlertDefaults, AlertRule, MailDefaults, MailRule
<1>2. NoRow \in AlertRow
  BY DEF NoRow, AlertRow, Severities, Never
<1>3. Disconnected(TRUE) \in Snapshot /\ NoSnapshot \in Snapshot
  BY DEF Disconnected, NoSnapshot, Snapshot
<1>4. NoEvent \in EventRow /\ NoMail \in MailNote
  BY DEF NoEvent, EventRow, NoMail, MailNote, EventTypes, NoReading, Never
<1>5. NoTick \in Tick
  BY <1>1, <1>3 DEF NoTick, Tick
<1>6. (CHOOSE d \in Devices : TRUE) \in Devices
  BY DevicesAssumption
<1>7. DeviceKey \in Keys
  BY DEF Keys
<1>8. NoJob \in Job
  BY <1>2, <1>6, <1>7 DEF NoJob, Job, Decisions
<1>9. NoRequest \in Request
  BY <1>2, <1>6 DEF NoRequest, Request
<1>. QED
  BY <1>1, <1>2, <1>3, <1>4, <1>5, <1>8, <1>9

\* What the pure operators return.
LEMMA SeverityType ==
  ASSUME NEW s, NEW k, NEW rules
  PROVE  Severity(s, k, rules) \in Severities
  BY DEF Severity, MetricSeverity, ThresholdSeverity, Severities

LEMMA EvaluateType ==
  ASSUME NEW wasActive \in BOOLEAN, NEW previous, NEW last, NEW current,
         NEW now, NEW cooldown
  PROVE  Evaluate(wasActive, previous, last, current, now, cooldown) \in Decisions
  BY DEF Evaluate, Decisions

LEMMA MergeType ==
  ASSUME NEW db \in AlertRow, NEW read \in AlertRow, NEW new \in AlertRow
  PROVE  Merge(db, read, new) \in AlertRow
  BY DEF Merge, AlertRow

LEMMA ReadingType == Readings \cup {NoReading} \subseteq Int
<1>1. NoReading \in Int
  BY DEF NoReading
<1>. QED
  BY <1>1, ReadingsAssumption

LEMMA ValueType ==
  ASSUME NEW s, s.value \in [MetricKeys \cup InterfaceKeys -> Readings \cup {NoReading}],
         NEW k \in Keys
  PROVE  Value(s, k) \in Int
<1>1. CASE k = DeviceKey
  BY <1>1 DEF Value, NoReading
<1>2. CASE k # DeviceKey
  <2>1. s.value[k] \in Readings \cup {NoReading}
    BY <1>2 DEF Keys
  <2>. QED
    BY <1>2, <2>1, ReadingType DEF Value
<1>. QED
  BY <1>1, <1>2

LEMMA CurrentEventType ==
  ASSUME TypeOK, NEW type \in EventTypes
  PROVE  CurrentEvent(type) \in EventRow
<1>1. tick.snapshots[job.device].value \in [MetricKeys \cup InterfaceKeys -> Readings \cup {NoReading}]
  BY DEF TypeOK, Job, Tick, Snapshot
<1>2. /\ job.key \in Keys
      /\ tick.alerts.warning \in Int /\ tick.alerts.critical \in Int
  BY DEF TypeOK, Job, Tick, AlertRule
<1>3. Value(tick.snapshots[job.device], job.key) \in Int
  BY <1>1, <1>2, ValueType
<1>4. Threshold(job.key, CurrentSeverity, tick.alerts) \in Int
  BY <1>2 DEF Threshold, NoReading
<1>. QED
  BY <1>3, <1>4 DEF CurrentEvent, EventRow

-----------------------------------------------------------------------------
(* Type correctness *)

\* Initially, and under steps of the evaluator.
LEMMA InitType == Init => TypeOK
  BY NullTypes, RulesAssumption DEF Init, TypeOK, Statuses

LEMMA LoadType ==
  ASSUME TypeOK, LoadAlertSettings \/ LoadMailSettings \/ LoadDevices \/ LoadSnapshots
  PROVE  TypeOK'
<1>1. tick' \in Tick
  BY DEF LoadAlertSettings, LoadMailSettings, LoadDevices, LoadSnapshots, TypeOK, Tick
<1>. QED
  BY <1>1 DEF LoadAlertSettings, LoadMailSettings, LoadDevices, LoadSnapshots, TypeOK,
              database, memory, observers

LEMMA NextDeviceType ==
  ASSUME TypeOK, NEW d \in Devices, NextDevice(d)
  PROVE  TypeOK'
<1>1. tick' \in Tick
  BY DEF NextDevice, TypeOK, Tick
<1>2. Observed(tick.snapshots[d], tick.alerts) \subseteq Keys
  BY DEF Observed, Keys
<1>3. job' \in Job
  BY <1>2, NullTypes DEF NextDevice, TypeOK, Job
<1>. QED
  BY <1>1, <1>3 DEF NextDevice, TypeOK, database, memory, observers

LEMMA EndType ==
  ASSUME TypeOK, EndTick \/ EndDevice
  PROVE  TypeOK'
  BY NullTypes DEF EndTick, EndDevice, TypeOK, database, memory, observers

LEMMA TrackedType ==
  ASSUME NEW read \in AlertRow, NEW severity \in Severities
  PROVE  Tracked(read, severity) \in AlertRow
  BY DEF Tracked, AlertRow

LEMMA ReadRowType ==
  ASSUME TypeOK, NEW k \in Keys, ReadRow(k)
  PROVE  TypeOK'
<1> DEFINE read == alertStates[<<job.device, k>>]
           severity == Severity(tick.snapshots[job.device], k, tick.alerts)
<1>1. read \in AlertRow
  BY DEF TypeOK, Job, Alerts
<1>2. severity \in Severities
  BY SeverityType
<1>3. Tracked(read, severity) \in AlertRow
  BY <1>1, <1>2, TrackedType
<1>4. Decide(read, severity) \in Decisions
  BY <1>1, EvaluateType DEF Decide, AlertRow
<1>5. job' \in Job
  <2> HIDE DEF read, severity
  <2>1. \/ job' = [job EXCEPT !.todo = @ \ {k}]
        \/ job' = [job EXCEPT !.todo = @ \ {k}, !.key = k, !.read = read,
                              !.row = Tracked(read, severity),
                              !.decision = Decide(read, severity), !.recorded = FALSE]
    BY DEF ReadRow, read, severity
  <2>2. job \in Job
    BY DEF TypeOK
  <2>. QED
    BY <1>1, <1>3, <1>4, <2>1, <2>2 DEF Job
<1>6. pc' \in {"ReadRow", "RecordEvent", "Send", "SaveRow"}
  BY DEF ReadRow
<1>. QED
  BY <1>5, <1>6 DEF ReadRow, TypeOK, database, memory, observers

LEMMA CurrentType ==
  ASSUME TypeOK
  PROVE  Current \in Alerts
  BY DEF TypeOK, Job, Current, Alerts

LEMMA RecordEventType ==
  ASSUME TypeOK, RecordEvent
  PROVE  TypeOK'
<1>1. Current \in Alerts /\ job \in Job /\ alertStates \in [Alerts -> AlertRow]
  BY CurrentType DEF TypeOK
<1>2. EventType[job.decision] \in EventTypes
  BY <1>1 DEF Job, Decisions, EventType, EventTypes
<1>3. lastEvent' \in [Alerts -> EventRow]
  BY <1>1, <1>2, CurrentEventType DEF RecordEvent, TypeOK
<1>4. alertStates' \in [Alerts -> AlertRow]
  BY <1>1, MergeType DEF RecordEvent, Job
<1>5. job' \in Job
  BY <1>1 DEF RecordEvent, Job
<1>6. silenced' \subseteq Alerts /\ raced' \subseteq Devices
  BY <1>1 DEF RecordEvent, TypeOK, Job
<1>7. pc' \in {"Send", "SaveRow"}
  BY DEF RecordEvent
<1>. QED
  BY <1>3, <1>4, <1>5, <1>6, <1>7 DEF RecordEvent, TypeOK, memory

LEMMA SendType ==
  ASSUME TypeOK, SendSucceeds \/ SendFails
  PROVE  TypeOK'
<1>1. CASE SendSucceeds
  <2>1. Current \in Alerts /\ job \in Job /\ tick.now \in Nat
    BY CurrentType DEF TypeOK, Tick
  <2>2. EventType[job.decision] \in EventTypes
    BY <2>1 DEF Job, Decisions, EventType, EventTypes
  <2>3. lastMail' \in [Alerts -> MailNote]
    BY <1>1, <2>1, <2>2 DEF SendSucceeds, TypeOK, MailNote
  <2>4. job' \in Job
    BY <1>1, <2>1 DEF SendSucceeds, Job, AlertRow
  <2>5. forgotten' \subseteq Alerts
    BY <1>1, <2>1 DEF SendSucceeds, TypeOK
  <2>. QED
    BY <1>1, <2>3, <2>4, <2>5 DEF SendSucceeds, TypeOK, database, memory
<1>2. CASE SendFails
  BY <1>2 DEF SendFails, TypeOK, database, memory, observers
<1>. QED
  BY <1>1, <1>2

LEMMA SaveRowType ==
  ASSUME TypeOK, SaveRow
  PROVE  TypeOK'
<1>1. Current \in Alerts /\ job \in Job /\ alertStates \in [Alerts -> AlertRow]
  BY CurrentType DEF TypeOK
<1>2. alertStates' \in [Alerts -> AlertRow]
  <2>1. Merge(alertStates[Current], job.read, job.row) \in AlertRow
    BY <1>1, MergeType DEF Job
  <2>2. \/ alertStates' = [alertStates EXCEPT ![Current] =
                             Merge(alertStates[Current], job.read, job.row)]
        \/ alertStates' = alertStates
    BY DEF SaveRow
  <2>. QED
    BY <1>1, <2>1, <2>2
<1>3. job' \in Job
  BY <1>1, NullTypes DEF SaveRow, Job
<1>4. silenced' \subseteq Alerts
  BY DEF SaveRow, TypeOK, Closed
<1>. QED
  BY <1>2, <1>3, <1>4 DEF SaveRow, TypeOK, memory

LEMMA AbortTickType ==
  ASSUME TypeOK, AbortTick
  PROVE  TypeOK'
  BY NullTypes DEF AbortTick, TypeOK, database, memory, observers

\* Under the steps of HTTP requests.
LEMMA RequestType ==
  ASSUME TypeOK, NEW r \in Requests
  PROVE  /\ requests[r] \in Request
         /\ requests[r].device \in Devices
         /\ requests[r].rows \in [Keys -> AlertRow]
  BY DEF TypeOK, Request

LEMMA PutReadType ==
  ASSUME TypeOK, NEW r \in Requests, NEW d \in Devices, NEW enable \in BOOLEAN,
         PutReadDevice(r, d, enable)
  PROVE  TypeOK'
<1>1. requests' \in [Requests -> Request]
  BY NullTypes DEF PutReadDevice, TypeOK, Request
<1>. QED
  BY <1>1 DEF PutReadDevice, TypeOK, database, memory, evaluator, observers

LEMMA PutReadAlertsType ==
  ASSUME TypeOK, NEW r \in Requests, PutReadAlerts(r)
  PROVE  TypeOK'
<1>1. \A k \in Keys : alertStates[<<requests[r].device, k>>] \in AlertRow
  BY RequestType DEF TypeOK, Alerts
<1>2. requests' \in [Requests -> Request]
  BY <1>1, NullTypes DEF PutReadAlerts, TypeOK, Request
<1>. QED
  BY <1>2 DEF PutReadAlerts, TypeOK, database, memory, evaluator, observers

LEMMA PutSaveType ==
  ASSUME TypeOK, NEW r \in Requests, PutSave(r)
  PROVE  TypeOK'
<1> DEFINE q == requests[r]
<1>1. q.rows \in [Keys -> AlertRow] /\ q.device \in Devices
  BY RequestType
<1>2. PutClosed(q) \in [Alerts -> AlertRow]
  <2>1. SUFFICES ASSUME NEW a \in Alerts
                 PROVE  PutClosed(q)[a] \in AlertRow
    BY DEF PutClosed
  <2>2. a[2] \in Keys /\ alertStates[a] \in AlertRow
    BY DEF Alerts, TypeOK
  <2>3. q.rows[a[2]] \in AlertRow
    BY <1>1, <2>2
  <2>4. [q.rows[a[2]] EXCEPT !.active = FALSE, !.severity = "normal"] \in AlertRow
    BY <2>3 DEF AlertRow, Severities
  <2>. QED
    BY <2>2, <2>3, <2>4, MergeType DEF PutClosed
<1>3. alertStates' \in [Alerts -> AlertRow]
  BY <1>2 DEF PutSave
<1>4. status' \in [Devices -> Statuses]
  BY <1>1 DEF PutSave, TypeOK, Statuses
<1>5. requests' \in [Requests -> Request]
  BY <1>1, NullTypes DEF PutSave, TypeOK, Request
<1>6. silenced' \subseteq Alerts /\ raced' \subseteq Devices
  BY DEF PutSave, TypeOK, Closed
<1>. QED
  BY <1>3, <1>4, <1>5, <1>6 DEF PutSave, TypeOK, memory, evaluator

LEMMA PutFailsType ==
  ASSUME TypeOK, NEW r \in Requests, PutFails(r)
  PROVE  TypeOK'
  BY NullTypes DEF PutFails, TypeOK, database, memory, evaluator, observers

LEMMA DeleteReadType ==
  ASSUME TypeOK, NEW r \in Requests, NEW d \in Devices, DeleteReadDevice(r, d)
  PROVE  TypeOK'
<1>1. requests' \in [Requests -> Request]
  BY NullTypes DEF DeleteReadDevice, TypeOK, Request
<1>. QED
  BY <1>1 DEF DeleteReadDevice, TypeOK, database, memory, evaluator, observers

LEMMA DeleteAlertsType ==
  ASSUME TypeOK, NEW r \in Requests, DeleteAlerts(r)
  PROVE  TypeOK'
<1>1. alertStates' \in [Alerts -> AlertRow]
  BY NullTypes DEF DeleteAlerts, TypeOK
<1>2. requests' \in [Requests -> Request]
  BY DEF DeleteAlerts, TypeOK, Request
<1>3. silenced' \subseteq Alerts /\ forgotten' \subseteq Alerts
  BY DEF DeleteAlerts, TypeOK, Closed
<1>. QED
  BY <1>1, <1>2, <1>3 DEF DeleteAlerts, TypeOK, memory, evaluator

LEMMA DeleteSaveType ==
  ASSUME TypeOK, NEW r \in Requests, DeleteSave(r)
  PROVE  TypeOK'
<1>1. status' \in [Devices -> Statuses]
  BY RequestType DEF DeleteSave, TypeOK, Statuses
<1>2. requests' \in [Requests -> Request]
  <2>1. \/ requests' = [requests EXCEPT ![r].pc = "Remove"]
        \/ requests' = [requests EXCEPT ![r] = NoRequest]
    BY DEF DeleteSave
  <2>2. [requests EXCEPT ![r].pc = "Remove"] \in [Requests -> Request]
    BY DEF TypeOK, Request
  <2>3. [requests EXCEPT ![r] = NoRequest] \in [Requests -> Request]
    BY NullTypes DEF TypeOK
  <2>. QED
    BY <2>1, <2>2, <2>3
<1>. QED
  BY <1>1, <1>2 DEF DeleteSave, TypeOK, memory, evaluator, observers

LEMMA RemoveDeviceType ==
  ASSUME TypeOK, NEW r \in Requests, RemoveDevice(r)
  PROVE  TypeOK'
  BY NullTypes DEF RemoveDevice, TypeOK, database, evaluator, observers

LEMMA CreateAndSettingsType ==
  ASSUME TypeOK,
         \/ \E d \in Devices, enable \in BOOLEAN : CreateDevice(d, enable)
         \/ \E rules \in AlertRules : SaveAlertSettings(rules)
         \/ \E rules \in MailRules : SaveMailSettings(rules)
  PROVE  TypeOK'
  BY RulesAssumption DEF CreateDevice, SaveAlertSettings, SaveMailSettings, TypeOK, Statuses,
     memory, evaluator, observers

\* Under the steps of the poller, the clock and crashes.
LEMMA StartPollingType ==
  ASSUME TypeOK, StartPolling
  PROVE  TypeOK'
<1>1. snapshots' \in [Devices -> Snapshot] /\ polling' \subseteq Devices
  BY NullTypes DEF StartPolling, TypeOK
<1>. QED
  BY <1>1 DEF StartPolling, TypeOK, database, evaluator, observers

LEMMA PollSucceedsType ==
  ASSUME TypeOK, NEW d \in Devices,
         NEW value \in [MetricKeys \cup InterfaceKeys -> Readings \cup {NoReading}],
         PollSucceeds(d, value)
  PROVE  TypeOK'
<1>1. snapshots' \in [Devices -> Snapshot] /\ polling' \subseteq Devices
  BY DEF PollSucceeds, TypeOK, Snapshot
<1>. QED
  BY <1>1 DEF PollSucceeds, TypeOK, database, evaluator, observers

LEMMA PollFailsType ==
  ASSUME TypeOK, NEW d \in Devices, PollFails(d) \/ SnapshotAges(d)
  PROVE  TypeOK'
<1>1. \/ snapshots' = [snapshots EXCEPT ![d].present = TRUE, ![d].connected = FALSE]
      \/ snapshots' = [snapshots EXCEPT ![d] = Disconnected(TRUE)]
      \/ snapshots' = [snapshots EXCEPT ![d].fresh = FALSE]
  BY DEF PollFails, SnapshotAges
<1>2. [snapshots EXCEPT ![d].present = TRUE, ![d].connected = FALSE] \in [Devices -> Snapshot]
  BY DEF TypeOK, Snapshot
<1>3. [snapshots EXCEPT ![d] = Disconnected(TRUE)] \in [Devices -> Snapshot]
  BY NullTypes DEF TypeOK
<1>4. [snapshots EXCEPT ![d].fresh = FALSE] \in [Devices -> Snapshot]
  BY DEF TypeOK, Snapshot
<1>5. snapshots' \in [Devices -> Snapshot]
  BY <1>1, <1>2, <1>3, <1>4
<1>. QED
  BY <1>5 DEF PollFails, SnapshotAges, TypeOK, database, evaluator, observers

LEMMA CrashType ==
  ASSUME TypeOK, TimePasses \/ Crash
  PROVE  TypeOK'
<1>1. UnsavedMail \subseteq Alerts
  BY CurrentType DEF UnsavedMail
<1>. QED
  BY <1>1, NullTypes DEF TimePasses, Crash, TypeOK, database, memory, evaluator, observers

LEMMA TypeStep == TypeOK /\ [Next]_vars => TypeOK'
<1> SUFFICES ASSUME TypeOK, [Next]_vars
             PROVE  TypeOK'
  OBVIOUS
<1>1. CASE Evaluator
  BY <1>1, LoadType, NextDeviceType, EndType, ReadRowType, RecordEventType, SendType,
     SaveRowType, AbortTickType DEF Evaluator
<1>2. CASE Administrator
  BY <1>2, CreateAndSettingsType, PutReadType, PutReadAlertsType, PutSaveType, PutFailsType,
     DeleteReadType, DeleteAlertsType, DeleteSaveType, RemoveDeviceType DEF Administrator
<1>3. CASE Environment
  BY <1>3, StartPollingType, PollSucceedsType, PollFailsType, CrashType DEF Environment
<1>4. CASE UNCHANGED vars
  BY <1>4 DEF TypeOK, vars, database, memory, evaluator, observers
<1>. QED
  BY <1>1, <1>2, <1>3, <1>4 DEF Next

\* Every reachable state is well typed.
THEOREM TypeCorrect == Spec => []TypeOK
  BY InitType, TypeStep, PTL DEF Spec

-----------------------------------------------------------------------------
(* The alert table and the history *)

\* What the evaluator knows of the alert in work although requests go on
\* changing its row: until its first save, the row it read was active only if
\* the history shows the alert as open, and was inactive only if the row
\* still is (nobody else activates rows); the decision fits the change it is
\* about to make to IsActive; and an opening is never saved without its event.
EvaluatorTracks ==
  /\ pc = "Send" => job.recorded /\ lastEvent[Current].type = EventType[job.decision]
  /\ pc = "RecordEvent" => ~job.recorded /\ job.decision # "None"
  /\ pc \in {"RecordEvent", "Send", "SaveRow"} /\ job.recorded =>
       job.row.active = job.read.active
  /\ pc \in {"RecordEvent", "SaveRow"} /\ ~job.recorded =>
       /\ job.read.active => lastEvent[Current].type \in OpenEvents
       /\ ~job.read.active => ~alertStates[Current].active
       /\ job.decision = "Opened" => ~job.read.active /\ job.row.active
       /\ job.decision = "Recovered" => job.read.active /\ ~job.row.active
       /\ job.decision \in {"Escalated", "Reminder"} => job.read.active /\ job.row.active
       /\ job.decision = "None" => job.row.active = job.read.active
  /\ pc = "SaveRow" /\ ~job.recorded =>
       /\ job.decision # "Opened"
       /\ job.decision = "Recovered" => Suppressed(job.key, tick.alerts)

\* A silently closed alert is no longer active.
SilencedIsInactive == \A a \in silenced : ~alertStates[a].active

TablesAgree == ActiveHasOpenEvent /\ OpenEventIsAccounted /\ SilencedIsInactive

IInv == TypeOK /\ EvaluatorTracks /\ TablesAgree

\* A step that only deactivates rows, notes which and writes no event.
LEMMA ClosingKeepsTables ==
  ASSUME TypeOK, TablesAgree,
         \A a \in Alerts : alertStates'[a].active => alertStates[a].active,
         silenced' = silenced \cup Closed(alertStates, alertStates'),
         lastEvent' = lastEvent
  PROVE  TablesAgree'
<1>1. ActiveHasOpenEvent'
  BY DEF TablesAgree, ActiveHasOpenEvent
<1>2. OpenEventIsAccounted'
  BY DEF TablesAgree, OpenEventIsAccounted, Closed
<1>3. SilencedIsInactive'
  <2>1. SUFFICES ASSUME NEW a \in silenced'
                 PROVE  ~alertStates'[a].active
    BY DEF SilencedIsInactive
  <2>2. CASE a \in silenced
    BY <2>2 DEF TablesAgree, SilencedIsInactive, TypeOK
  <2>3. CASE a \in Closed(alertStates, alertStates')
    BY <2>3 DEF Closed
  <2>. QED
    BY <2>1, <2>2, <2>3
<1>. QED
  BY <1>1, <1>2, <1>3 DEF TablesAgree

LEMMA ClosingKeepsTracks ==
  ASSUME TypeOK, EvaluatorTracks,
         \A a \in Alerts : alertStates'[a].active => alertStates[a].active,
         UNCHANGED <<pc, tick, job, lastEvent>>
  PROVE  EvaluatorTracks'
  BY CurrentType DEF EvaluatorTracks, Current

\* What a decision says of the alert before and after.
LEMMA DecisionFits ==
  ASSUME NEW active \in BOOLEAN, NEW previous, NEW last, NEW current, NEW now, NEW cooldown,
         NEW decision, decision = Evaluate(active, previous, last, current, now, cooldown)
  PROVE  /\ decision = "Opened" => ~active /\ current # "normal"
         /\ decision = "Recovered" => active /\ current = "normal"
         /\ decision \in {"Escalated", "Reminder"} => active /\ current # "normal"
         /\ decision = "None" => active = (current # "normal")
  BY DEF Evaluate

\* A suppressed observation is normal: it opens nothing.
LEMMA SuppressedIsNormal ==
  ASSUME NEW s, NEW k, NEW rules, Suppressed(k, rules)
  PROVE  Severity(s, k, rules) = "normal"
<1>1. k \in MetricKeys /\ ~(rules.enabled /\ Online(s))
  BY Zenon DEF Suppressed
<1>2. \A value, warning, critical, enabled :
        ~enabled => MetricSeverity(value, warning, critical, enabled) = "normal"
  BY Zenon DEF MetricSeverity
<1>3. Severity(s, k, rules) =
        MetricSeverity(s.value[k], rules.warning, rules.critical, rules.enabled /\ Online(s))
  BY <1>1, KeysAssumption DEF Severity
<1>. QED
  BY <1>1, <1>2, <1>3, Zenon

\* A mail is wanted only of what is recorded.
LEMMA MailedIsRecorded ==
  ASSUME NEW k, NEW decision, NEW severity, MustNotify(k, decision, severity)
  PROVE  MustRecord(k, decision, severity)
  BY DEF MustNotify, MustRecord, ShouldNotify

LEMMA ReadRowTracks ==
  ASSUME TypeOK, TablesAgree, NEW k \in Keys, ReadRow(k)
  PROVE  EvaluatorTracks'
<1> DEFINE read == alertStates[<<job.device, k>>]
           severity == Severity(tick.snapshots[job.device], k, tick.alerts)
           decision == Decide(read, severity)
<1>1. CASE ~read.stored /\ severity = "normal"
  BY <1>1 DEF ReadRow, EvaluatorTracks
<1>2. CASE ~(~read.stored /\ severity = "normal")
  <2>1. /\ job'.device = job.device /\ job'.key = k /\ job'.read = read
        /\ job'.row = Tracked(read, severity)
        /\ job'.decision = decision /\ job'.recorded = FALSE
    BY <1>2 DEF ReadRow, TypeOK, Job
  <2>2. pc' = CASE MustRecord(k, decision, severity) -> "RecordEvent"
                [] OTHER -> IF MustNotify(k, decision, severity) THEN "Send" ELSE "SaveRow"
    BY <1>2 DEF ReadRow
  <2>3. pc' # "Send"
    BY <2>2, MailedIsRecorded
  <2>4. pc' = "RecordEvent" => MustRecord(k, decision, severity)
    BY <2>2, MailedIsRecorded
  <2>5. pc' = "SaveRow" => ~MustRecord(k, decision, severity)
    BY <2>2
  <2>6. read.active \in BOOLEAN
    BY DEF TypeOK, Alerts, AlertRow, Job
  <2>7. /\ decision = "Opened" => ~read.active /\ severity # "normal"
        /\ decision = "Recovered" => read.active /\ severity = "normal"
        /\ decision \in {"Escalated", "Reminder"} => read.active /\ severity # "normal"
        /\ decision = "None" => read.active = (severity # "normal")
    BY <2>6, DecisionFits DEF Decide
  <2>8. job'.row.active = (severity # "normal")
    BY <2>1 DEF Tracked
  <2>9. Current' = <<job.device, k>> /\ <<job.device, k>> \in Alerts
    BY <2>1 DEF Current, TypeOK, Job, Alerts
  <2>10. read.active => lastEvent[<<job.device, k>>].type \in OpenEvents
    BY <2>9 DEF TablesAgree, ActiveHasOpenEvent
  <2>11. ~MustRecord(k, decision, severity) => decision # "Opened"
    BY <2>7, SuppressedIsNormal DEF MustRecord
  <2>12. UNCHANGED <<tick, alertStates, lastEvent>>
    BY DEF ReadRow, database
  <2>13. MustRecord(k, decision, severity) => decision # "None"
    BY DEF MustRecord
  <2>16. pc' = "SaveRow" /\ decision = "Recovered" => Suppressed(job'.key, tick'.alerts)
    BY <2>1, <2>5, <2>12 DEF MustRecord
  <2> HIDE DEF read, severity, decision
  <2>14. read.active => lastEvent'[Current'].type \in OpenEvents
    BY <2>9, <2>10, <2>12
  <2>15. alertStates'[Current'].active = read.active
    BY <2>9, <2>12 DEF read
  <2>. QED
    BY <2>1, <2>3, <2>4, <2>5, <2>7, <2>8, <2>11, <2>13, <2>14, <2>15, <2>16 DEF EvaluatorTracks
<1>. QED
  BY <1>1, <1>2

LEMMA RecordEventKeepsTables ==
  ASSUME IInv, RecordEvent
  PROVE  TablesAgree'
<1> DEFINE new == Merge(alertStates[Current], job.read, job.row)
<1>1. /\ Current \in Alerts
      /\ lastEvent \in [Alerts -> EventRow]
      /\ alertStates \in [Alerts -> AlertRow]
      /\ job.decision \in Decisions \ {"None"}
      /\ ~job.recorded
      /\ job.read.active \in BOOLEAN /\ job.row.active \in BOOLEAN
  BY CurrentType DEF IInv, TypeOK, EvaluatorTracks, RecordEvent, Job, AlertRow
<1>2. /\ lastEvent'[Current].type = EventType[job.decision]
      /\ alertStates'[Current] = new
      /\ \A a \in Alerts \ {Current} : UNCHANGED <<lastEvent[a], alertStates[a]>>
  BY <1>1 DEF RecordEvent, CurrentEvent
<1>3. /\ job.read.active => lastEvent[Current].type \in OpenEvents
      /\ job.decision = "Opened" => ~job.read.active /\ job.row.active
      /\ job.decision = "Recovered" => job.read.active /\ ~job.row.active
      /\ job.decision \in {"Escalated", "Reminder"} => job.read.active /\ job.row.active
  BY <1>1 DEF IInv, EvaluatorTracks, RecordEvent
<1>4. new.active = IF job.row.active # job.read.active THEN job.row.active
                   ELSE alertStates[Current].active
  BY DEF Merge
<1>5. /\ ActiveHasOpenEvent /\ OpenEventIsAccounted /\ SilencedIsInactive
      /\ silenced \subseteq Alerts
  BY DEF IInv, TablesAgree, TypeOK
<1> HIDE DEF new
<1>6. CASE job.decision = "Opened"
  <2>1. new.active /\ lastEvent'[Current].type = "OPENED" /\ silenced' = silenced \ {Current}
    BY <1>2, <1>3, <1>4, <1>6 DEF RecordEvent, EventType
  <2>. QED
    BY <1>1, <1>2, <1>5, <2>1 DEF TablesAgree, ActiveHasOpenEvent, OpenEventIsAccounted,
       SilencedIsInactive, OpenEvents
<1>7. CASE job.decision = "Recovered"
  <2>1. ~new.active /\ lastEvent'[Current].type = "RECOVERED" /\ silenced' = silenced \ {Current}
    BY <1>2, <1>3, <1>4, <1>7 DEF RecordEvent, EventType
  <2>. QED
    BY <1>1, <1>2, <1>5, <2>1 DEF TablesAgree, ActiveHasOpenEvent, OpenEventIsAccounted,
       SilencedIsInactive, OpenEvents
<1>8. CASE job.decision \in {"Escalated", "Reminder"}
  <2>1. /\ new.active = alertStates[Current].active
        /\ lastEvent'[Current].type \in OpenEvents
        /\ lastEvent[Current].type \in OpenEvents
        /\ silenced' = silenced
    BY <1>1, <1>2, <1>3, <1>4, <1>8 DEF RecordEvent, EventType, OpenEvents
  <2>. QED
    BY <1>1, <1>2, <1>5, <2>1 DEF TablesAgree, ActiveHasOpenEvent, OpenEventIsAccounted,
       SilencedIsInactive
<1>. QED
  BY <1>1, <1>6, <1>7, <1>8 DEF Decisions

LEMMA RecordEventTracks ==
  ASSUME TypeOK, RecordEvent
  PROVE  EvaluatorTracks'
<1>1. /\ job'.recorded /\ job'.read = job.row /\ job'.row = job.row
      /\ job'.device = job.device /\ job'.key = job.key /\ job'.decision = job.decision
  BY DEF RecordEvent, TypeOK, Job
<1>2. pc' \in {"Send", "SaveRow"}
  BY DEF RecordEvent
<1>3. Current' = Current /\ Current \in Alerts
  BY <1>1, CurrentType DEF Current
<1>4. lastEvent'[Current] = CurrentEvent(EventType[job.decision])
  BY <1>3 DEF RecordEvent, TypeOK
<1>5. lastEvent'[Current'].type = EventType[job'.decision]
  BY <1>1, <1>3, <1>4 DEF CurrentEvent
<1>. QED
  BY <1>1, <1>2, <1>5 DEF EvaluatorTracks

LEMMA SendTracks ==
  ASSUME TypeOK, EvaluatorTracks, SendSucceeds \/ SendFails
  PROVE  EvaluatorTracks'
<1>1. /\ job'.recorded = job.recorded
      /\ job'.row.active = job.row.active /\ job'.read = job.read
  BY DEF SendSucceeds, SendFails, TypeOK, Job, AlertRow
<1>2. job.recorded /\ job.row.active = job.read.active
  BY DEF EvaluatorTracks, SendSucceeds, SendFails
<1>3. pc' = "SaveRow"
  BY DEF SendSucceeds, SendFails
<1>. QED
  BY <1>1, <1>2, <1>3 DEF EvaluatorTracks

\* The last save of an observation activates no row: an opening has been saved
\* with its event.
LEMMA SaveRowOnlyCloses ==
  ASSUME IInv, SaveRow
  PROVE  \A a \in Alerts : alertStates'[a].active => alertStates[a].active
<1>1. Current \in Alerts /\ alertStates \in [Alerts -> AlertRow]
  BY CurrentType DEF IInv, TypeOK
<1>2. ~job.row.active \/ job.row.active = job.read.active
  <2>1. CASE job.recorded
    BY <2>1 DEF IInv, EvaluatorTracks, SaveRow
  <2>2. CASE ~job.recorded
    <3>1. job.decision \in Decisions \ {"Opened"}
      BY <2>2 DEF IInv, EvaluatorTracks, SaveRow, TypeOK, Job
    <3>2. /\ job.decision = "Recovered" => ~job.row.active
          /\ job.decision \in {"Escalated", "Reminder"} => job.read.active /\ job.row.active
          /\ job.decision = "None" => job.row.active = job.read.active
      BY <2>2 DEF IInv, EvaluatorTracks, SaveRow
    <3>3. job.decision \in {"None", "Reminder", "Escalated", "Recovered"}
      BY <3>1 DEF Decisions
    <3>4. job.row.active \in BOOLEAN /\ job.read.active \in BOOLEAN
      BY DEF IInv, TypeOK, Job, AlertRow
    <3>. QED
      BY <3>2, <3>3, <3>4
  <2>. QED
    BY <2>1, <2>2
<1>3. Merge(alertStates[Current], job.read, job.row).active => alertStates[Current].active
  BY <1>2 DEF Merge
<1>. QED
  BY <1>1, <1>3 DEF SaveRow

\* ... and closes one only if the rules are off, for a recovery that is not
\* suppressed has been saved with its event, too.
LEMMA SaveRowKeepsTables ==
  ASSUME IInv, SaveRow
  PROVE  TablesAgree'
<1>1. TypeOK /\ TablesAgree /\ lastEvent' = lastEvent
  BY DEF IInv, SaveRow
<1>2. CASE Suppressed(job.key, tick.alerts)
  <2>1. silenced' = silenced \cup Closed(alertStates, alertStates')
    BY <1>2 DEF SaveRow
  <2>. QED
    BY <1>1, <2>1, SaveRowOnlyCloses, ClosingKeepsTables
<1>3. CASE ~Suppressed(job.key, tick.alerts)
  <2>1. Current \in Alerts /\ alertStates \in [Alerts -> AlertRow]
    BY <1>1, CurrentType DEF TypeOK
  <2>2. job.row.active = job.read.active
    <3>1. CASE job.recorded
      BY <3>1 DEF IInv, EvaluatorTracks, SaveRow
    <3>2. CASE ~job.recorded
      <4>1. job.decision \in {"None", "Reminder", "Escalated"}
        BY <1>3, <3>2 DEF IInv, EvaluatorTracks, SaveRow, TypeOK, Job, Decisions
      <4>2. /\ job.decision \in {"Escalated", "Reminder"} => job.read.active /\ job.row.active
            /\ job.decision = "None" => job.row.active = job.read.active
        BY <3>2 DEF IInv, EvaluatorTracks, SaveRow
      <4>3. job.row.active \in BOOLEAN /\ job.read.active \in BOOLEAN
        BY <1>1 DEF TypeOK, Job, AlertRow
      <4>. QED
        BY <4>1, <4>2, <4>3
    <3>. QED
      BY <3>1, <3>2
  <2>3. Merge(alertStates[Current], job.read, job.row).active = alertStates[Current].active
    BY <2>2 DEF Merge
  <2>4. \A a \in Alerts : alertStates'[a].active = alertStates[a].active
    BY <2>1, <2>3 DEF SaveRow
  <2>5. silenced' = silenced /\ silenced \subseteq Alerts
    BY <1>1, <1>3 DEF SaveRow, TypeOK
  <2>. QED
    BY <1>1, <2>4, <2>5 DEF TablesAgree, ActiveHasOpenEvent, OpenEventIsAccounted, SilencedIsInactive
<1>. QED
  BY <1>2, <1>3

\* Requests only deactivate rows.
LEMMA RequestsOnlyClose ==
  ASSUME TypeOK, NEW r \in Requests, PutSave(r) \/ DeleteAlerts(r)
  PROVE  \A a \in Alerts : alertStates'[a].active => alertStates[a].active
<1> SUFFICES ASSUME NEW a \in Alerts, alertStates'[a].active
             PROVE  alertStates[a].active
  OBVIOUS
<1>1. CASE PutSave(r)
  <2>1. alertStates'[a] = PutClosed(requests[r])[a]
    BY <1>1 DEF PutSave
  <2> DEFINE seen == requests[r].rows[a[2]]
             closed == [seen EXCEPT !.active = FALSE, !.severity = "normal"]
  <2>2. seen \in AlertRow
    BY RequestType DEF Alerts
  <2>3. closed.active = FALSE
    BY <2>2 DEF AlertRow
  <2>4. Merge(alertStates[a], seen, closed).active => alertStates[a].active
    BY <2>3 DEF Merge
  <2>5. \/ alertStates'[a] = Merge(alertStates[a], seen, closed)
        \/ alertStates'[a] = alertStates[a]
    BY <2>1 DEF PutClosed
  <2>. QED
    BY <2>4, <2>5
<1>2. CASE DeleteAlerts(r)
  BY <1>2 DEF DeleteAlerts, NoRow
<1>. QED
  BY <1>1, <1>2

LEMMA IInvInit == Init => IInv
  BY InitType DEF Init, IInv, EvaluatorTracks, TablesAgree, ActiveHasOpenEvent,
     OpenEventIsAccounted, SilencedIsInactive, NoRow, NoEvent, OpenEvents

\* A step that leaves the tables alone.
LEMMA UnchangedTables ==
  ASSUME TablesAgree, UNCHANGED <<alertStates, lastEvent, silenced>>
  PROVE  TablesAgree'
  BY DEF TablesAgree, ActiveHasOpenEvent, OpenEventIsAccounted, SilencedIsInactive

LEMMA EvaluatorKeepsIInv ==
  ASSUME IInv, TypeOK', Evaluator
  PROVE  EvaluatorTracks' /\ TablesAgree'
<1>1. TypeOK /\ EvaluatorTracks /\ TablesAgree
  BY DEF IInv
<1>2. CASE LoadAlertSettings \/ LoadMailSettings \/ LoadDevices \/ LoadSnapshots
  BY <1>1, <1>2, UnchangedTables DEF LoadAlertSettings, LoadMailSettings, LoadDevices,
     LoadSnapshots, EvaluatorTracks, database, observers
<1>3. CASE EndTick \/ EndDevice \/ \E d \in Devices : NextDevice(d)
  BY <1>1, <1>3, UnchangedTables DEF EndTick, EndDevice, NextDevice, EvaluatorTracks,
     database, observers
<1>4. ASSUME NEW k \in Keys, ReadRow(k)
      PROVE  EvaluatorTracks' /\ TablesAgree'
  BY <1>1, <1>4, ReadRowTracks, UnchangedTables DEF ReadRow, database, observers
<1>5. CASE RecordEvent
  BY <1>1, <1>5, RecordEventTracks, RecordEventKeepsTables
<1>6. CASE SendSucceeds \/ SendFails
  BY <1>1, <1>6, SendTracks, UnchangedTables DEF SendSucceeds, SendFails, database, observers
<1>7. CASE SaveRow
  <2>1. TablesAgree'
    BY <1>7, SaveRowKeepsTables
  <2>. QED
    BY <1>7, <2>1 DEF SaveRow, EvaluatorTracks
<1>8. CASE AbortTick
  BY <1>1, <1>8, UnchangedTables DEF AbortTick, EvaluatorTracks, database, observers
<1>. QED
  BY <1>2, <1>3, <1>4, <1>5, <1>6, <1>7, <1>8 DEF Evaluator

LEMMA AdministratorKeepsIInv ==
  ASSUME IInv, Administrator
  PROVE  EvaluatorTracks' /\ TablesAgree'
<1>1. TypeOK /\ EvaluatorTracks /\ TablesAgree
  BY DEF IInv
<1>2. UNCHANGED <<pc, tick, job, lastEvent>>
  BY DEF Administrator, CreateDevice, PutReadDevice, PutReadAlerts, PutSave, PutFails,
     DeleteReadDevice, DeleteAlerts, DeleteSave, RemoveDevice, SaveAlertSettings,
     SaveMailSettings, database, evaluator
<1>3. ASSUME NEW r \in Requests, PutSave(r) \/ DeleteAlerts(r)
      PROVE  EvaluatorTracks' /\ TablesAgree'
  <2>1. \A a \in Alerts : alertStates'[a].active => alertStates[a].active
    BY <1>1, <1>3, RequestsOnlyClose
  <2>2. silenced' = silenced \cup Closed(alertStates, alertStates')
    BY <1>3 DEF PutSave, DeleteAlerts
  <2>. QED
    BY <1>1, <1>2, <2>1, <2>2, ClosingKeepsTables, ClosingKeepsTracks
<1>4. CASE ~\E r \in Requests : PutSave(r) \/ DeleteAlerts(r)
  <2>1. UNCHANGED <<alertStates, silenced>>
    BY <1>4 DEF Administrator, CreateDevice, PutReadDevice, PutReadAlerts, PutFails,
       DeleteReadDevice, DeleteSave, RemoveDevice, SaveAlertSettings,
       SaveMailSettings, database, observers
  <2>. QED
    BY <1>1, <1>2, <2>1, UnchangedTables, ClosingKeepsTracks
<1>. QED
  BY <1>3, <1>4

LEMMA EnvironmentKeepsIInv ==
  ASSUME IInv, Environment
  PROVE  EvaluatorTracks' /\ TablesAgree'
<1>1. TypeOK /\ EvaluatorTracks /\ TablesAgree
  BY DEF IInv
<1>2. UNCHANGED <<alertStates, lastEvent, silenced>>
  BY DEF Environment, StartPolling, PollSucceeds, PollFails, SnapshotAges, TimePasses, Crash,
     database, observers
<1>3. CASE Crash
  BY <1>1, <1>2, <1>3, UnchangedTables DEF Crash, EvaluatorTracks
<1>4. CASE ~Crash
  <2>1. UNCHANGED <<pc, tick, job>>
    BY <1>4 DEF Environment, StartPolling, PollSucceeds, PollFails, SnapshotAges, TimePasses,
       evaluator
  <2>. QED
    BY <1>1, <1>2, <2>1, UnchangedTables, ClosingKeepsTracks
<1>. QED
  BY <1>3, <1>4

\* The inductive invariant: types, tables, and what the evaluator knows of them.
THEOREM Invariance == Spec => []IInv
<1>1. IInv /\ TypeOK' /\ Next => IInv'
  BY EvaluatorKeepsIInv, AdministratorKeepsIInv, EnvironmentKeepsIInv DEF Next, IInv
<1>2. IInv /\ UNCHANGED vars => IInv'
  BY CurrentType DEF IInv, TypeOK, EvaluatorTracks, TablesAgree, ActiveHasOpenEvent,
     OpenEventIsAccounted, SilencedIsInactive, Current, vars, database, memory, evaluator, observers
<1>. QED
  BY <1>1, <1>2, IInvInit, TypeCorrect, PTL DEF Spec

\* The alert table and the history agree in both directions, for any number
\* of devices, interfaces and requests in flight: the row and the event of a
\* transition are one transaction, only the evaluator activates rows, and a
\* request that closes one leaves the history to the evaluator.
THEOREM ActiveAlertsAreInTheHistory == Spec => []ActiveHasOpenEvent
<1>1. IInv => ActiveHasOpenEvent
  BY DEF IInv, TablesAgree
<1>. QED
  BY <1>1, Invariance, PTL

\* And the other way round: an alert the history shows as open is active or has been
\* closed by a request or by switching the rules off, none of which writes history.
THEOREM OpenHistoryIsAccounted == Spec => []OpenEventIsAccounted
<1>1. IInv => OpenEventIsAccounted
  BY DEF IInv, TablesAgree
<1>. QED
  BY <1>1, Invariance, PTL

\* No interleaving repeats or recovers an alert the history does not show as
\* open, or opens one twice that was not closed silently in between.
THEOREM HistoryOrder == Spec => HistoryIsOrdered
<1>1. ASSUME IInv, RecordEvent
      PROVE  IF job.decision = "Opened"
             THEN lastEvent[Current].type \in OpenEvents => Current \in silenced
             ELSE lastEvent[Current].type \in OpenEvents
  <2>1. /\ Current \in Alerts /\ ~job.recorded
        /\ job.decision \in Decisions \ {"None"}
        /\ job.read.active => lastEvent[Current].type \in OpenEvents
        /\ ~job.read.active => ~alertStates[Current].active
        /\ job.decision = "Opened" => ~job.read.active
        /\ job.decision \in {"Recovered", "Escalated", "Reminder"} => job.read.active
    BY <1>1, CurrentType DEF IInv, EvaluatorTracks, RecordEvent, TypeOK, Job
  <2>2. CASE job.decision = "Opened"
    BY <1>1, <2>1, <2>2 DEF IInv, TablesAgree, OpenEventIsAccounted
  <2>3. CASE job.decision # "Opened"
    BY <2>1, <2>3 DEF Decisions
  <2>. QED
    BY <2>2, <2>3
<1>. QED
  BY <1>1, Invariance, PTL DEF HistoryIsOrdered

\* A mail is handed to SMTP only when the history shows its event.
THEOREM MailsHaveEvents == Spec => MailFollowsItsEvent
<1>1. SendSucceeds => pc = "Send"
  BY DEF SendSucceeds
<1>2. IInv /\ pc = "Send" => lastEvent[Current].type = EventType[job.decision]
  BY DEF IInv, EvaluatorTracks
<1>3. IInv /\ SendSucceeds => lastEvent[Current].type = EventType[job.decision]
  BY <1>1, <1>2
<1>. QED
  BY <1>3, Invariance, PTL DEF MailFollowsItsEvent

-----------------------------------------------------------------------------
(* Refinement of AlertLifecycle *)

\* Every step but RecordEvent leaves the history alone and activates nothing.
LEMMA OtherStepsOnlyClose ==
  ASSUME IInv, [Next]_vars, ~RecordEvent
  PROVE  /\ lastEvent' = lastEvent
         /\ \A a \in Alerts : alertStates'[a].active => alertStates[a].active
<1>1. CASE Evaluator
  <2>1. lastEvent' = lastEvent
    BY <1>1 DEF Evaluator, LoadAlertSettings, LoadMailSettings, LoadDevices, LoadSnapshots,
       NextDevice, EndTick, ReadRow, EndDevice, SendSucceeds, SendFails, SaveRow, AbortTick, database
  <2>2. CASE SaveRow
    BY <2>1, <2>2, SaveRowOnlyCloses
  <2>3. CASE ~SaveRow
    <3>1. alertStates' = alertStates
      BY <1>1, <2>3 DEF Evaluator, LoadAlertSettings, LoadMailSettings, LoadDevices, LoadSnapshots,
         NextDevice, EndTick, ReadRow, EndDevice, SendSucceeds, SendFails, AbortTick, database
    <3>. QED
      BY <2>1, <3>1
  <2>. QED
    BY <2>2, <2>3
<1>2. CASE Administrator
  <2>1. lastEvent' = lastEvent
    BY <1>2 DEF Administrator, CreateDevice, PutReadDevice, PutReadAlerts, PutSave, PutFails,
       DeleteReadDevice, DeleteAlerts, DeleteSave, RemoveDevice, SaveAlertSettings,
       SaveMailSettings, database
  <2>2. CASE \E r \in Requests : PutSave(r) \/ DeleteAlerts(r)
    BY <2>1, <2>2, RequestsOnlyClose DEF IInv
  <2>3. CASE ~\E r \in Requests : PutSave(r) \/ DeleteAlerts(r)
    <3>1. alertStates' = alertStates
      BY <1>2, <2>3 DEF Administrator, CreateDevice, PutReadDevice, PutReadAlerts, PutFails,
         DeleteReadDevice, DeleteSave, RemoveDevice, SaveAlertSettings, SaveMailSettings, database
    <3>. QED
      BY <2>1, <3>1
  <2>. QED
    BY <2>2, <2>3
<1>3. CASE Environment
  BY <1>3 DEF Environment, StartPolling, PollSucceeds, PollFails, SnapshotAges, TimePasses, Crash,
     database
<1>4. CASE UNCHANGED vars
  BY <1>4 DEF vars, database
<1>. QED
  BY <1>1, <1>2, <1>3, <1>4 DEF Next

LEMMA RecordEventIsLifecycleStep ==
  ASSUME IInv, RecordEvent
  PROVE  Lifecycle!Next
<1> DEFINE active == {a \in Alerts : alertStates[a].active}
           history == [a \in Alerts |-> lastEvent[a].type]
           new == Merge(alertStates[Current], job.read, job.row)
<1>1. /\ Current \in Alerts
      /\ lastEvent \in [Alerts -> EventRow] /\ alertStates \in [Alerts -> AlertRow]
      /\ job.decision \in Decisions \ {"None"}
      /\ ~job.recorded
      /\ job.read.active \in BOOLEAN /\ job.row.active \in BOOLEAN
  BY CurrentType DEF IInv, TypeOK, EvaluatorTracks, RecordEvent, Job, AlertRow
<1>2. /\ alertStates' = [alertStates EXCEPT ![Current] = new]
      /\ lastEvent' = [lastEvent EXCEPT ![Current] = CurrentEvent(EventType[job.decision])]
  BY DEF RecordEvent
<1>3. history' = [history EXCEPT ![Current] = EventType[job.decision]]
  BY <1>1, <1>2 DEF CurrentEvent
<1>4. active' = IF new.active THEN active \cup {Current} ELSE active \ {Current}
  BY <1>1, <1>2
<1>5. new.active = IF job.row.active # job.read.active THEN job.row.active
                   ELSE alertStates[Current].active
  BY DEF Merge
<1>6. /\ job.read.active => lastEvent[Current].type \in OpenEvents
      /\ ~job.read.active => ~alertStates[Current].active
      /\ job.decision = "Opened" => ~job.read.active /\ job.row.active
      /\ job.decision = "Recovered" => job.read.active /\ ~job.row.active
      /\ job.decision \in {"Escalated", "Reminder"} => job.read.active /\ job.row.active
  BY <1>1 DEF IInv, EvaluatorTracks, RecordEvent
<1>7. CASE job.decision = "Opened"
  <2>1. /\ Current \notin active /\ active' = active \cup {Current}
        /\ history' = [history EXCEPT ![Current] = "OPENED"]
    BY <1>1, <1>3, <1>4, <1>5, <1>6, <1>7 DEF EventType
  <2>. QED
    BY <1>1, <2>1 DEF Lifecycle!Next, Lifecycle!Open
<1>8. CASE job.decision = "Recovered"
  <2>1. /\ history[Current] \in OpenEvents /\ active' = active \ {Current}
        /\ history' = [history EXCEPT ![Current] = "RECOVERED"]
    BY <1>1, <1>3, <1>4, <1>5, <1>6, <1>8 DEF EventType
  <2>. QED
    BY <1>1, <2>1 DEF Lifecycle!Next, Lifecycle!Recover, Lifecycle!OpenEvents, OpenEvents
<1>9. CASE job.decision \in {"Escalated", "Reminder"}
  <2>1. /\ history[Current] \in OpenEvents
        /\ EventType[job.decision] \in {"ESCALATED", "REMINDER"}
    BY <1>1, <1>6, <1>9 DEF EventType
  <2>2. active' = active
    BY <1>1, <1>4, <1>5, <1>6, <1>9
  <2>. QED
    BY <1>1, <1>3, <2>1, <2>2 DEF Lifecycle!Next, Lifecycle!Repeat, Lifecycle!OpenEvents, OpenEvents
<1>. QED
  BY <1>1, <1>7, <1>8, <1>9 DEF Decisions

\* The engine implements the lifecycle of an alert.
THEOREM Refinement == Spec => ImplementsLifecycle
<1>1. Init => Lifecycle!Init
  BY DEF Init, Lifecycle!Init, NoRow, NoEvent
<1>2. IInv /\ [Next]_vars => [Lifecycle!Next]_Lifecycle!vars
  <2> SUFFICES ASSUME IInv, [Next]_vars
               PROVE  [Lifecycle!Next]_Lifecycle!vars
    OBVIOUS
  <2>1. CASE RecordEvent
    BY <2>1, RecordEventIsLifecycleStep
  <2>2. CASE ~RecordEvent
    BY <2>2, OtherStepsOnlyClose DEF Lifecycle!Next, Lifecycle!CloseSilently
  <2>. QED
    BY <2>1, <2>2
<1>. QED
  BY <1>1, <1>2, Invariance, PTL DEF Spec, ImplementsLifecycle, Lifecycle!Spec
-----------------------------------------------------------------------------
(* The rows of the alert table *)

\* A row that is not in the table has the values of a missing one.
RowsInv == \A a \in Alerts : ~alertStates[a].stored => alertStates[a] = NoRow

\* Which steps touch the table.
WritesTable == \/ RecordEvent
               \/ SaveRow
               \/ \E r \in Requests : PutSave(r) \/ DeleteAlerts(r)

LEMMA OthersLeaveTable ==
  ASSUME [Next]_vars, ~WritesTable
  PROVE  alertStates' = alertStates
<1>1. CASE Evaluator
  BY <1>1 DEF WritesTable, Evaluator, LoadAlertSettings, LoadMailSettings, LoadDevices,
     LoadSnapshots, NextDevice, EndTick, ReadRow, EndDevice, SendSucceeds, SendFails, AbortTick,
     database
<1>2. CASE Administrator
  BY <1>2 DEF WritesTable, Administrator, CreateDevice, PutReadDevice, PutReadAlerts, PutFails,
     DeleteReadDevice, DeleteSave, RemoveDevice, SaveAlertSettings, SaveMailSettings, database
<1>3. CASE Environment
  BY <1>3 DEF Environment, StartPolling, PollSucceeds, PollFails, SnapshotAges, TimePasses, Crash,
     database
<1>4. CASE UNCHANGED vars
  BY <1>4 DEF vars, database
<1>. QED
  BY <1>1, <1>2, <1>3, <1>4 DEF Next

\* What the writers do to a row.
LEMMA EvaluatorWrites ==
  ASSUME TypeOK, RecordEvent \/ SaveRow, NEW a \in Alerts
  PROVE  \/ alertStates'[a] = alertStates[a]
         \/ /\ a = Current /\ ~RowVanished
            /\ alertStates'[a] = Merge(alertStates[a], job.read, job.row)
  BY CurrentType DEF TypeOK, RecordEvent, SaveRow

LEMMA PutWrites ==
  ASSUME TypeOK, NEW r \in Requests, PutSave(r), NEW a \in Alerts
  PROVE  /\ \/ alertStates'[a] = alertStates[a]
            \/ alertStates[a].stored /\ alertStates'[a].stored
         /\ alertStates'[a].lastNotification = alertStates[a].lastNotification
         /\ a[1] = requests[r].device /\ requests[r].rows[a[2]].stored
              /\ requests[r].rows[a[2]].active => ~alertStates'[a].active
<1> DEFINE seen == requests[r].rows[a[2]]
           closed == [seen EXCEPT !.active = FALSE, !.severity = "normal"]
<1>1. a = <<a[1], a[2]>> /\ a[2] \in Keys
  BY DEF Alerts
<1>2. seen \in AlertRow /\ alertStates[a] \in AlertRow
  BY <1>1, RequestType DEF TypeOK
<1>3. alertStates'[a] = PutClosed(requests[r])[a] /\ ~PutRowVanished(requests[r])
  BY DEF PutSave
<1>4. CASE a[1] = requests[r].device /\ seen.stored
  <2>1. alertStates[a].stored
    BY <1>1, <1>3, <1>4 DEF PutRowVanished
  <2>2. alertStates'[a] = Merge(alertStates[a], seen, closed)
    BY <1>3, <1>4 DEF PutClosed
  <2>3. closed.active = FALSE /\ closed.lastNotification = seen.lastNotification
    BY <1>2 DEF AlertRow
  <2> HIDE DEF seen, closed
  <2>. QED
    BY <2>1, <2>2, <2>3 DEF Merge, seen
<1>5. CASE ~(a[1] = requests[r].device /\ seen.stored)
  BY <1>3, <1>5 DEF PutClosed
<1>. QED
  BY <1>4, <1>5

LEMMA DeleteWrites ==
  ASSUME TypeOK, NEW r \in Requests, DeleteAlerts(r), NEW a \in Alerts
  PROVE  alertStates'[a] = IF a[1] = requests[r].device THEN NoRow ELSE alertStates[a]
  BY DEF DeleteAlerts

\* Rows that are not in the table are null, whoever writes or deletes rows.
THEOREM RowsInvariance == Spec => []RowsInv
<1>1. Init => RowsInv
  BY DEF Init, RowsInv
<1>2. TypeOK /\ RowsInv /\ [Next]_vars => RowsInv'
  <2> SUFFICES ASSUME TypeOK, RowsInv, [Next]_vars
               PROVE  RowsInv'
    OBVIOUS
  <2>1. CASE RecordEvent \/ SaveRow
    <3>1. \A a \in Alerts : alertStates'[a] = alertStates[a] \/ alertStates'[a].stored
      <4> SUFFICES ASSUME NEW a \in Alerts
                   PROVE  alertStates'[a] = alertStates[a] \/ alertStates'[a].stored
        OBVIOUS
      <4>1. Merge(alertStates[a], job.read, job.row).stored
        BY DEF Merge
      <4>. QED
        BY <2>1, <4>1, EvaluatorWrites
    <3>. QED
      BY <3>1 DEF RowsInv
  <2>2. ASSUME NEW r \in Requests, PutSave(r)
        PROVE  RowsInv'
    BY <2>2, PutWrites DEF RowsInv
  <2>3. ASSUME NEW r \in Requests, DeleteAlerts(r)
        PROVE  RowsInv'
    BY <2>3, DeleteWrites DEF RowsInv
  <2>4. CASE ~WritesTable
    BY <2>4, OthersLeaveTable DEF RowsInv
  <2>. QED
    BY <2>1, <2>2, <2>3, <2>4 DEF WritesTable
<1>. QED
  BY <1>1, <1>2, TypeCorrect, PTL DEF Spec

-----------------------------------------------------------------------------
(* Disabled devices *)

\* A PUT about to save that disables the device.
Disabling(r, d) ==
  requests[r].pc = "PutSave" /\ ~requests[r].enable /\ requests[r].device = d

\* A device that is not enabled, or not there yet, has no active alert; one
\* that is being disabled has none the request has not read.
QuietDevices ==
  \A d \in Devices :
    status[d] \in {"absent", "disabled"} /\ d \notin raced => ~HasActive(alertStates, d)
RequestsSeeActive ==
  \A r \in Requests, d \in Devices :
    Disabling(r, d) /\ d \notin raced =>
      \A k \in Keys : alertStates[<<d, k>>].active =>
                        requests[r].rows[k].stored /\ requests[r].rows[k].active
QuietInv == QuietDevices /\ RequestsSeeActive

\* A step that activates nothing, disables nothing and forgets a race only of
\* a device without active alerts.
LEMMA ClosingKeepsQuiet ==
  ASSUME QuietDevices,
         \A a \in Alerts : alertStates'[a].active => alertStates[a].active,
         \A d \in Devices : status'[d] \in {"absent", "disabled"} =>
                              status[d] \in {"absent", "disabled"},
         \A d \in raced \ raced' : ~HasActive(alertStates', d)
  PROVE  QuietDevices'
  BY DEF QuietDevices, HasActive, Alerts

LEMMA ClosingKeepsSeen ==
  ASSUME RequestsSeeActive,
         \A a \in Alerts : alertStates'[a].active => alertStates[a].active,
         \A r \in Requests, d \in Devices :
           Disabling(r, d)' => Disabling(r, d) /\ requests'[r].rows = requests[r].rows,
         \A d \in raced \ raced' : ~HasActive(alertStates', d)
  PROVE  RequestsSeeActive'
<1> SUFFICES ASSUME NEW r \in Requests, NEW d \in Devices, Disabling(r, d)', d \notin raced',
                    NEW k \in Keys, alertStates'[<<d, k>>].active
             PROVE  requests'[r].rows[k].stored /\ requests'[r].rows[k].active
  BY DEF RequestsSeeActive
<1>1. d \notin raced
  BY DEF HasActive
<1>2. alertStates[<<d, k>>].active
  BY DEF Alerts
<1>. QED
  BY <1>1, <1>2 DEF RequestsSeeActive

LEMMA RecordEventKeepsQuiet ==
  ASSUME IInv, QuietInv, RecordEvent
  PROVE  QuietInv'
<1>1. UNCHANGED <<status, requests>> /\ raced \subseteq raced'
  BY DEF RecordEvent
<1>2. \A r \in Requests, d \in Devices :
        Disabling(r, d)' => Disabling(r, d) /\ requests'[r].rows = requests[r].rows
  BY <1>1 DEF Disabling
<1>3. CASE job.decision # "Opened"
  <2>1. job.decision \in {"Reminder", "Escalated", "Recovered"}
    BY <1>3 DEF IInv, TypeOK, EvaluatorTracks, RecordEvent, Job, Decisions
  <2>2. ~job.row.active \/ job.row.active = job.read.active
    <3>1. pc = "RecordEvent" /\ ~job.recorded
      BY DEF IInv, EvaluatorTracks, RecordEvent
    <3>2. /\ job.decision = "Recovered" => ~job.row.active
          /\ job.decision \in {"Escalated", "Reminder"} => job.read.active /\ job.row.active
      BY <3>1 DEF IInv, EvaluatorTracks
    <3>3. job.row.active \in BOOLEAN /\ job.read.active \in BOOLEAN
      BY DEF IInv, TypeOK, Job, AlertRow
    <3>. QED
      BY <2>1, <3>2, <3>3
  <2>3. ASSUME NEW a \in Alerts, alertStates'[a].active
        PROVE  alertStates[a].active
    <3>1. Merge(alertStates[a], job.read, job.row).active => alertStates[a].active
      BY <2>2 DEF Merge
    <3>. QED
      BY <2>3, <3>1, EvaluatorWrites DEF IInv
  <2>. QED
    BY <1>1, <1>2, <2>3, ClosingKeepsQuiet, ClosingKeepsSeen DEF QuietInv
<1>4. CASE job.decision = "Opened"
  <2>1. job.device \in Devices /\ job.key \in Keys /\ Current = <<job.device, job.key>>
    BY DEF IInv, TypeOK, Job, Current
  <2>2. \A d \in Devices \ {job.device}, k \in Keys :
          alertStates'[<<d, k>>] = alertStates[<<d, k>>]
    BY <2>1, EvaluatorWrites DEF IInv, Alerts
  <2>3. /\ status[job.device] # "enabled" => job.device \in raced'
        /\ \A r \in Requests : Disabling(r, job.device) => job.device \in raced'
    BY <1>4 DEF RecordEvent, Disabling
  <2>4. QuietDevices'
    <3> SUFFICES ASSUME NEW d \in Devices, status'[d] \in {"absent", "disabled"}, d \notin raced'
                 PROVE  ~HasActive(alertStates', d)
      BY DEF QuietDevices
    <3>1. d # job.device /\ d \notin raced
      BY <1>1, <2>3
    <3>. QED
      BY <1>1, <2>2, <3>1 DEF QuietInv, QuietDevices, HasActive
  <2>5. RequestsSeeActive'
    <3> SUFFICES ASSUME NEW r \in Requests, NEW d \in Devices, Disabling(r, d)', d \notin raced',
                        NEW k \in Keys, alertStates'[<<d, k>>].active
                 PROVE  requests'[r].rows[k].stored /\ requests'[r].rows[k].active
      BY DEF RequestsSeeActive
    <3>1. Disabling(r, d) /\ requests'[r] = requests[r] /\ d \notin raced
      BY <1>1 DEF Disabling
    <3>2. d # job.device
      BY <2>3, <3>1
    <3>. QED
      BY <2>2, <3>1, <3>2 DEF QuietInv, RequestsSeeActive
  <2>. QED
    BY <2>4, <2>5 DEF QuietInv
<1>. QED
  BY <1>3, <1>4

LEMMA SaveRowKeepsQuiet ==
  ASSUME IInv, QuietInv, SaveRow
  PROVE  QuietInv'
<1>1. UNCHANGED <<status, requests, raced>>
  BY DEF SaveRow
<1>2. \A r \in Requests, d \in Devices :
        Disabling(r, d)' => Disabling(r, d) /\ requests'[r].rows = requests[r].rows
  BY <1>1 DEF Disabling
<1>. QED
  BY <1>1, <1>2, SaveRowOnlyCloses, ClosingKeepsQuiet, ClosingKeepsSeen DEF QuietInv

\* The save of a PUT: if it disables the device, it has read what is active.
LEMMA PutSaveKeepsQuiet ==
  ASSUME IInv, QuietInv, NEW r \in Requests, PutSave(r)
  PROVE  QuietInv'
<1> DEFINE q == requests[r]
<1>1. TypeOK /\ q.device \in Devices
  BY RequestType DEF IInv
<1>2. \A a \in Alerts : alertStates'[a].active => alertStates[a].active
  BY <1>1, RequestsOnlyClose
<1>3. \A d \in raced \ raced' : ~HasActive(alertStates', d)
  BY DEF PutSave
<1>4. \A s \in Requests, d \in Devices :
        Disabling(s, d)' => Disabling(s, d) /\ requests'[s].rows = requests[s].rows
  <2>1. requests' = [requests EXCEPT ![r] = [NoRequest EXCEPT !.pc = "Remove", !.device = q.device]]
    BY DEF PutSave
  <2>2. requests \in [Requests -> Request] /\ requests'[r].pc = "Remove"
    BY <1>1, <2>1 DEF TypeOK, NoRequest
  <2>. QED
    BY <2>1, <2>2 DEF Disabling
<1>5. RequestsSeeActive'
  BY <1>2, <1>3, <1>4, ClosingKeepsSeen DEF QuietInv
<1>6. CASE ~q.enable
  <2>1. ASSUME q.device \notin raced', HasActive(alertStates', q.device)
        PROVE  FALSE
    <3>1. q.device \notin raced /\ Disabling(r, q.device)
      BY <1>6, <2>1 DEF PutSave, Disabling
    <3>2. PICK k \in Keys : alertStates'[<<q.device, k>>].active
      BY <2>1 DEF HasActive
    <3>3. <<q.device, k>> \in Alerts
      BY <1>1 DEF Alerts
    <3>4. q.rows[k].stored /\ q.rows[k].active
      BY <1>1, <1>2, <3>1, <3>2, <3>3 DEF QuietInv, RequestsSeeActive
    <3>. QED
      BY <1>1, <3>2, <3>3, <3>4, PutWrites
  <2>2. \A d \in Devices \ {q.device} : status'[d] = status[d]
    BY <1>1 DEF PutSave, TypeOK
  <2>3. QuietDevices'
    <3> SUFFICES ASSUME NEW d \in Devices, status'[d] \in {"absent", "disabled"}, d \notin raced'
                 PROVE  ~HasActive(alertStates', d)
      BY DEF QuietDevices
    <3>1. CASE d = q.device
      BY <2>1, <3>1
    <3>2. CASE d # q.device
      <4>1. d \notin raced \/ d \in raced \ raced'
        OBVIOUS
      <4>. QED
        BY <1>2, <1>3, <2>2, <3>2, <4>1 DEF QuietInv, QuietDevices, HasActive, Alerts
    <3>. QED
      BY <3>1, <3>2
  <2>. QED
    BY <1>5, <2>3 DEF QuietInv
<1>7. CASE q.enable
  <2>1. \A d \in Devices : status'[d] \in {"absent", "disabled"} =>
                             status[d] \in {"absent", "disabled"}
    BY <1>1, <1>7 DEF PutSave, TypeOK
  <2>. QED
    BY <1>2, <1>3, <1>5, <2>1, ClosingKeepsQuiet DEF QuietInv
<1>. QED
  BY <1>6, <1>7

\* A PUT that disables reads the active rows in one query.
LEMMA PutReadAlertsKeepsQuiet ==
  ASSUME IInv, RowsInv, QuietInv, NEW r \in Requests, PutReadAlerts(r)
  PROVE  QuietInv'
<1>1. UNCHANGED <<status, alertStates, raced>>
  BY DEF PutReadAlerts, database, observers
<1>2. QuietDevices'
  BY <1>1 DEF QuietInv, QuietDevices, HasActive
<1>3. RequestsSeeActive'
  <2> SUFFICES ASSUME NEW s \in Requests, NEW d \in Devices, Disabling(s, d)', d \notin raced',
                      NEW k \in Keys, alertStates'[<<d, k>>].active
               PROVE  requests'[s].rows[k].stored /\ requests'[s].rows[k].active
    BY DEF RequestsSeeActive
  <2>1. requests \in [Requests -> Request]
    BY DEF IInv, TypeOK
  <2>2. CASE s = r
    <3>1. /\ requests'[r].rows[k] = LET row == alertStates[<<requests[r].device, k>>]
                                    IN  IF row.active THEN row ELSE NoRow
          /\ requests'[r].device = requests[r].device
      BY <2>1 DEF PutReadAlerts, Request
    <3>2. requests[r].device = d
      BY <2>2, <3>1 DEF Disabling
    <3>3. <<d, k>> \in Alerts /\ alertStates[<<d, k>>].active
      BY <1>1 DEF Alerts
    <3>4. alertStates[<<d, k>>].stored
      BY <3>3 DEF RowsInv, NoRow
    <3>. QED
      BY <2>2, <3>1, <3>2, <3>3, <3>4
  <2>3. CASE s # r
    <3>1. requests'[s] = requests[s]
      BY <2>1, <2>3 DEF PutReadAlerts
    <3>. QED
      BY <1>1, <3>1 DEF QuietInv, RequestsSeeActive, Disabling
  <2>. QED
    BY <2>2, <2>3
<1>. QED
  BY <1>2, <1>3 DEF QuietInv

\* The other steps of requests disable only a device that has just been added.
LEMMA AdministratorKeepsQuiet ==
  ASSUME IInv, QuietInv, Administrator, ~\E r \in Requests : PutSave(r) \/ PutReadAlerts(r)
  PROVE  QuietInv'
<1>1. TypeOK /\ requests \in [Requests -> Request]
  BY DEF IInv, TypeOK
<1>2. \A a \in Alerts : alertStates'[a].active => alertStates[a].active
  <2>1. CASE \E r \in Requests : DeleteAlerts(r)
    BY <1>1, <2>1, RequestsOnlyClose
  <2>2. CASE ~\E r \in Requests : DeleteAlerts(r)
    <3>1. alertStates' = alertStates
      BY <2>2 DEF Administrator, CreateDevice, PutReadDevice, PutFails, DeleteReadDevice,
         DeleteSave, RemoveDevice, SaveAlertSettings, SaveMailSettings, database
    <3>. QED
      BY <3>1
  <2>. QED
    BY <2>1, <2>2
<1>3. raced' = raced
  BY DEF Administrator, CreateDevice, PutReadDevice, PutFails, DeleteReadDevice, DeleteAlerts,
     DeleteSave, RemoveDevice, SaveAlertSettings, SaveMailSettings, observers
<1>4. \A d \in Devices : status'[d] \in {"absent", "disabled"} =>
                           status[d] \in {"absent", "disabled"}
  <2>1. CASE \E d \in Devices, enable \in BOOLEAN : CreateDevice(d, enable)
    BY <1>1, <2>1 DEF CreateDevice, TypeOK
  <2>2. CASE \E r \in Requests : DeleteSave(r)
    BY <1>1, <2>2 DEF DeleteSave, TypeOK
  <2>3. CASE ~(\/ \E d \in Devices, enable \in BOOLEAN : CreateDevice(d, enable)
               \/ \E r \in Requests : DeleteSave(r))
    <3>1. status' = status
      BY <2>3 DEF Administrator, PutReadDevice, PutFails, DeleteReadDevice, DeleteAlerts,
         RemoveDevice, SaveAlertSettings, SaveMailSettings, database
    <3>. QED
      BY <3>1
  <2>. QED
    BY <2>1, <2>2, <2>3
<1>5. \A s \in Requests, d \in Devices :
        Disabling(s, d)' => Disabling(s, d) /\ requests'[s].rows = requests[s].rows
  <2> SUFFICES ASSUME NEW s \in Requests, NEW e \in Devices, Disabling(s, e)'
               PROVE  Disabling(s, e) /\ requests'[s].rows = requests[s].rows
    OBVIOUS
  <2>1. requests'[s].pc = "PutSave" /\ ~requests'[s].enable
    BY DEF Disabling
  <2>2. ASSUME NEW r \in Requests, NEW d \in Devices, NEW enable \in BOOLEAN,
               PutReadDevice(r, d, enable)
        PROVE  requests'[s] = requests[s]
    <3>1. requests'[r].pc = "PutSave" => requests'[r].enable
      BY <1>1, <2>2 DEF PutReadDevice, NoRequest
    <3>. QED
      BY <1>1, <2>1, <2>2, <3>1 DEF PutReadDevice
  <2>3. ASSUME NEW r \in Requests,
               \/ PutFails(r) \/ DeleteAlerts(r) \/ DeleteSave(r) \/ RemoveDevice(r)
               \/ \E d \in Devices : DeleteReadDevice(r, d)
        PROVE  requests'[s] = requests[s]
    <3>1. /\ requests[r] \in Request
          /\ \/ requests' = [requests EXCEPT ![r] = NoRequest]
             \/ requests' = [requests EXCEPT ![r].pc = "DeleteSave"]
             \/ requests' = [requests EXCEPT ![r].pc = "Remove"]
             \/ \E d \in Devices : requests' = [requests EXCEPT ![r] =
                                     [NoRequest EXCEPT !.pc = "DeleteAlerts", !.device = d]]
      BY <1>1, <2>3 DEF PutFails, DeleteReadDevice, DeleteAlerts, DeleteSave, RemoveDevice
    <3>2. requests'[r].pc # "PutSave"
      <4>1. CASE requests' = [requests EXCEPT ![r] = NoRequest]
        BY <1>1, <4>1 DEF NoRequest
      <4>2. ASSUME NEW next \in {"DeleteSave", "Remove"},
                   requests' = [requests EXCEPT ![r].pc = next]
            PROVE  requests'[r].pc = next
        <5>1. requests'[r] = [requests[r] EXCEPT !.pc = next]
          BY <1>1, <4>2
        <5>. QED
          BY <3>1, <5>1 DEF Request
      <4>3. ASSUME NEW d \in Devices,
                   requests' = [requests EXCEPT ![r] =
                                  [NoRequest EXCEPT !.pc = "DeleteAlerts", !.device = d]]
            PROVE  requests'[r].pc = "DeleteAlerts"
        BY <1>1, <4>3 DEF NoRequest
      <4>. QED
        BY <3>1, <4>1, <4>2, <4>3
    <3>3. \A o \in Requests \ {r} : requests'[o] = requests[o]
      BY <1>1, <3>1
    <3>. QED
      BY <2>1, <3>2, <3>3
  <2>4. ASSUME \/ \E d \in Devices, enable \in BOOLEAN : CreateDevice(d, enable)
               \/ \E rules \in AlertRules : SaveAlertSettings(rules)
               \/ \E rules \in MailRules : SaveMailSettings(rules)
        PROVE  requests'[s] = requests[s]
    BY <2>4 DEF CreateDevice, SaveAlertSettings, SaveMailSettings
  <2>5. requests'[s] = requests[s]
    BY <2>2, <2>3, <2>4 DEF Administrator
  <2>. QED
    BY <2>5 DEF Disabling
<1>. QED
  BY <1>2, <1>3, <1>4, <1>5, ClosingKeepsQuiet, ClosingKeepsSeen DEF QuietInv

\* The evaluator's other steps, the poller, the clock and crashes.
LEMMA OthersKeepQuiet ==
  ASSUME IInv, QuietInv, [Next]_vars, ~RecordEvent, ~SaveRow, ~Administrator
  PROVE  QuietInv'
<1>1. UNCHANGED <<status, alertStates, raced>>
  BY DEF Next, Evaluator, LoadAlertSettings, LoadMailSettings, LoadDevices, LoadSnapshots,
     NextDevice, EndTick, ReadRow, EndDevice, SendSucceeds, SendFails, AbortTick,
     Environment, StartPolling, PollSucceeds, PollFails, SnapshotAges, TimePasses, Crash,
     vars, database, observers
<1>2. requests' = requests \/ requests' = [r \in Requests |-> NoRequest]
  BY DEF Next, Evaluator, LoadAlertSettings, LoadMailSettings, LoadDevices, LoadSnapshots,
     NextDevice, EndTick, ReadRow, EndDevice, SendSucceeds, SendFails, AbortTick,
     Environment, StartPolling, PollSucceeds, PollFails, SnapshotAges, TimePasses, Crash, vars
<1>3. \A r \in Requests, d \in Devices :
        Disabling(r, d)' => Disabling(r, d) /\ requests'[r].rows = requests[r].rows
  BY <1>2 DEF Disabling, NoRequest
<1>. QED
  BY <1>1, <1>3, ClosingKeepsQuiet, ClosingKeepsSeen DEF QuietInv

\* A disabled device has no active alert but one that was opened behind the
\* back of the request that disabled it, for any devices, keys and requests.
THEOREM DisabledDevicesAreQuiet == Spec => []DisabledDeviceIsQuiet
<1>1. Init => QuietInv
  <2> SUFFICES ASSUME Init
               PROVE  QuietInv
    OBVIOUS
  <2>1. \A d \in Devices : ~HasActive(alertStates, d)
    BY DEF Init, HasActive, Alerts, NoRow
  <2>2. \A r \in Requests, d \in Devices : ~Disabling(r, d)
    BY DEF Init, Disabling, NoRequest
  <2>. QED
    BY <2>1, <2>2 DEF QuietInv, QuietDevices, RequestsSeeActive
<1>2. IInv /\ RowsInv /\ QuietInv /\ [Next]_vars => QuietInv'
  <2> SUFFICES ASSUME IInv, RowsInv, QuietInv, [Next]_vars
               PROVE  QuietInv'
    OBVIOUS
  <2>1. CASE Administrator
    BY <2>1, PutSaveKeepsQuiet, PutReadAlertsKeepsQuiet, AdministratorKeepsQuiet
  <2>2. CASE ~Administrator
    BY <2>2, RecordEventKeepsQuiet, SaveRowKeepsQuiet, OthersKeepQuiet
  <2>. QED
    BY <2>1, <2>2
<1>3. QuietInv => DisabledDeviceIsQuiet
  BY DEF QuietInv, QuietDevices, DisabledDeviceIsQuiet
<1>. QED
  BY <1>1, <1>2, <1>3, Invariance, RowsInvariance, PTL DEF Spec

-----------------------------------------------------------------------------
(* Reminders *)

\* What the evaluator knows of the times: the row it has read still has its
\* time unless it is gone, the row to save has the same one until a mail is
\* sent and that mail's after it, and a reminder was due when it was decided.
JobKnowsTime ==
  pc \in {"RecordEvent", "Send", "SaveRow"} =>
    /\ job.row.stored
    /\ pc = "Send" \/ job.recorded => job.read.stored
    /\ ~job.read.stored => job.read = NoRow
    /\ ~RowVanished => job.read.lastNotification = alertStates[Current].lastNotification
    /\ IF pc = "SaveRow"
       THEN job.row.lastNotification # job.read.lastNotification =>
              lastMail[Current].at = job.row.lastNotification
       ELSE /\ job.row.lastNotification = job.read.lastNotification
            /\ job.decision = "Reminder" =>
                 \/ job.read.lastNotification = Never
                 \/ tick.now - job.read.lastNotification >= tick.mail.cooldown

\* The time of the last mail is in the alert's row, or is about to be.
Saved(a) == alertStates[a].stored /\ alertStates[a].lastNotification = lastMail[a].at
Pending(a) == /\ pc = "SaveRow" /\ a = Current
              /\ job.row.lastNotification # job.read.lastNotification
              /\ ~RowVanished
TimesKept ==
  \A a \in Alerts : lastMail[a].type # "NONE" =>
    lastMail[a].at # Never /\ (a \in forgotten \/ Saved(a) \/ Pending(a))

MailInv == JobKnowsTime /\ TimesKept

LEMMA ReminderIsDue ==
  ASSUME NEW active, NEW previous, NEW last, NEW current, NEW now, NEW cooldown,
         Evaluate(active, previous, last, current, now, cooldown) = "Reminder"
  PROVE  last = Never \/ now - last >= cooldown
  BY DEF Evaluate

LEMMA MergeTime ==
  ASSUME NEW db, NEW read, NEW new
  PROVE  /\ Merge(db, read, new).stored
         /\ Merge(db, read, new).lastNotification =
              IF new.lastNotification # read.lastNotification
              THEN new.lastNotification ELSE db.lastNotification
  BY DEF Merge

LEMMA ReadRowKnowsTime ==
  ASSUME TypeOK, RowsInv, MailInv, NEW k \in Keys, ReadRow(k)
  PROVE  MailInv'
<1> DEFINE read == alertStates[<<job.device, k>>]
           severity == Severity(tick.snapshots[job.device], k, tick.alerts)
<1>1. UNCHANGED <<alertStates, tick, lastMail, forgotten>> /\ pc = "ReadRow"
  BY DEF ReadRow, database, observers
<1>2. TimesKept'
  BY <1>1 DEF MailInv, TimesKept, Saved, Pending
<1>3. CASE ~read.stored /\ severity = "normal"
  <2>1. pc' = "ReadRow"
    BY <1>3 DEF ReadRow
  <2>. QED
    BY <1>2, <2>1 DEF MailInv, JobKnowsTime
<1>4. CASE ~(~read.stored /\ severity = "normal")
  <2>1. /\ job'.device = job.device /\ job'.key = k /\ job'.read = read
        /\ job'.row = Tracked(read, severity)
        /\ job'.decision = Decide(read, severity) /\ job'.recorded = FALSE
    BY <1>4 DEF ReadRow, TypeOK, Job
  <2>2. pc' # "Send"
    BY <1>4, MailedIsRecorded DEF ReadRow
  <2>3. Current' = <<job.device, k>> /\ Current' \in Alerts
    BY <2>1 DEF Current, TypeOK, Job, Alerts
  <2>4. job'.row.stored /\ job'.row.lastNotification = job'.read.lastNotification
    BY <2>1 DEF Tracked
  <2>5. job'.decision = "Reminder" =>
          \/ job'.read.lastNotification = Never
          \/ tick'.now - job'.read.lastNotification >= tick'.mail.cooldown
    <3>. SUFFICES ASSUME Evaluate(read.active, read.severity, read.lastNotification, severity,
                                  tick.now, tick.mail.cooldown) = "Reminder"
                  PROVE  \/ read.lastNotification = Never
                         \/ tick.now - read.lastNotification >= tick.mail.cooldown
      BY <1>1, <2>1 DEF Decide
    <3>. HIDE DEF read, severity
    <3>. QED
      BY ReminderIsDue
  <2>6. job'.read = alertStates'[Current']
    <3>1. alertStates' = alertStates
      BY <1>1
    <3>2. read = alertStates[Current']
      BY <2>3
    <3>. HIDE DEF read
    <3>. QED
      BY <2>1, <3>1, <3>2
  <2>7. ~job'.read.stored => job'.read = NoRow
    BY <1>1, <2>3, <2>6 DEF RowsInv
  <2> HIDE DEF read, severity
  <2>. QED
    BY <1>2, <2>1, <2>2, <2>4, <2>5, <2>6, <2>7 DEF MailInv, JobKnowsTime
<1>. QED
  BY <1>3, <1>4

LEMMA RecordEventKnowsTime ==
  ASSUME TypeOK, RowsInv, MailInv, RecordEvent
  PROVE  MailInv'
<1> DEFINE new == Merge(alertStates[Current], job.read, job.row)
<1>1. /\ Current \in Alerts /\ Current' = Current
      /\ job'.row = job.row /\ job'.read = job.row /\ job'.decision = job.decision
      /\ pc = "RecordEvent" /\ pc' \in {"Send", "SaveRow"}
      /\ UNCHANGED <<tick, lastMail, forgotten>>
  BY CurrentType DEF RecordEvent, TypeOK, Job, Current
<1>2. /\ alertStates'[Current] = new
      /\ \A a \in Alerts \ {Current} : alertStates'[a] = alertStates[a]
  BY <1>1 DEF RecordEvent, TypeOK
<1>3. /\ job.row.stored /\ ~RowVanished
      /\ job.row.lastNotification = job.read.lastNotification
      /\ job.read.lastNotification = alertStates[Current].lastNotification
      /\ job.decision = "Reminder" => \/ job.read.lastNotification = Never
                                      \/ tick.now - job.read.lastNotification >= tick.mail.cooldown
  BY <1>1 DEF MailInv, JobKnowsTime, RecordEvent
<1>4. new.stored /\ new.lastNotification = alertStates[Current].lastNotification
  BY <1>3, MergeTime
<1> HIDE DEF new
<1>5. JobKnowsTime'
  BY <1>1, <1>2, <1>3, <1>4 DEF JobKnowsTime, RowVanished
<1>6. TimesKept'
  BY <1>1, <1>2, <1>4 DEF MailInv, TimesKept, Saved, Pending
<1>. QED
  BY <1>5, <1>6 DEF MailInv

LEMMA SendKnowsTime ==
  ASSUME TypeOK, MailInv, SendSucceeds \/ SendFails
  PROVE  MailInv'
<1>1. /\ Current \in Alerts /\ tick.now \in Nat
      /\ pc = "Send" /\ pc' = "SaveRow"
      /\ UNCHANGED <<alertStates, tick>>
  BY CurrentType DEF TypeOK, Tick, SendSucceeds, SendFails, database
<1>2. /\ job.row.stored /\ job.read.stored
      /\ ~RowVanished => job.read.lastNotification = alertStates[Current].lastNotification
      /\ job.row.lastNotification = job.read.lastNotification
  BY <1>1 DEF MailInv, JobKnowsTime
<1>3. CASE SendFails
  <2>1. UNCHANGED <<job, lastMail, forgotten>>
    BY <1>3 DEF SendFails, observers
  <2>. QED
    BY <1>1, <1>2, <2>1 DEF MailInv, JobKnowsTime, TimesKept, Saved, Pending, RowVanished, Current
<1>4. CASE SendSucceeds
  <2>1. /\ job'.read = job.read /\ job'.row.stored = job.row.stored
        /\ job'.row.lastNotification = tick.now
        /\ Current' = Current /\ RowVanished' = RowVanished
    BY <1>1, <1>4 DEF SendSucceeds, TypeOK, Job, AlertRow, Current, RowVanished
  <2>2. /\ lastMail'[Current].at = tick.now
        /\ \A a \in Alerts \ {Current} : lastMail'[a] = lastMail[a]
    BY <1>1, <1>4 DEF SendSucceeds, TypeOK
  <2>3. JobKnowsTime'
    BY <1>1, <1>2, <2>1, <2>2 DEF JobKnowsTime
  <2>4. TimesKept'
    <3> SUFFICES ASSUME NEW a \in Alerts, lastMail'[a].type # "NONE"
                 PROVE  /\ lastMail'[a].at # Never
                        /\ a \in forgotten' \/ Saved(a)' \/ Pending(a)'
      BY DEF TimesKept
    <3>1. CASE a = Current
      <4>1. lastMail'[a].at # Never
        BY <1>1, <2>2, <3>1 DEF Never
      <4>2. CASE RowVanished
        BY <1>4, <3>1, <4>1, <4>2 DEF SendSucceeds
      <4>3. CASE ~RowVanished
        <5>1. alertStates'[Current].stored
          BY <1>1, <1>2, <4>3 DEF RowVanished
        <5>. QED
          BY <1>1, <1>2, <2>1, <2>2, <3>1, <4>1, <4>3, <5>1 DEF Saved, Pending
      <4>. QED
        BY <4>2, <4>3
    <3>2. CASE a # Current
      <4>1. lastMail'[a] = lastMail[a] /\ ~Pending(a)
        BY <1>1, <2>2, <3>2 DEF Pending
      <4>2. a \in forgotten => a \in forgotten'
        BY <1>4, <3>2 DEF SendSucceeds
      <4>. QED
        BY <1>1, <4>1, <4>2 DEF MailInv, TimesKept, Saved
    <3>. QED
      BY <3>1, <3>2
  <2>. QED
    BY <2>3, <2>4 DEF MailInv
<1>. QED
  BY <1>3, <1>4

LEMMA SaveRowKnowsTime ==
  ASSUME TypeOK, MailInv, SaveRow
  PROVE  MailInv'
<1>1. /\ Current \in Alerts /\ pc = "SaveRow" /\ pc' = "ReadRow"
      /\ UNCHANGED <<lastMail, forgotten>>
  BY CurrentType DEF SaveRow
<1>2. JobKnowsTime'
  BY <1>1 DEF JobKnowsTime
<1>3. TimesKept'
  <2> SUFFICES ASSUME NEW a \in Alerts, lastMail[a].type # "NONE", a \notin forgotten
               PROVE  Saved(a)'
    BY <1>1 DEF MailInv, TimesKept
  <2>1. Saved(a) \/ Pending(a)
    BY DEF MailInv, TimesKept
  <2>2. CASE alertStates'[a] = alertStates[a] /\ a # Current
    BY <1>1, <2>1, <2>2 DEF Saved, Pending
  <2>3. CASE a = Current
    <3>1. job.row.lastNotification # job.read.lastNotification =>
            lastMail[a].at = job.row.lastNotification
      BY <1>1, <2>3 DEF MailInv, JobKnowsTime
    <3>2. CASE RowVanished
      <4>1. Saved(a) /\ ~alertStates[Current].stored
        BY <2>1, <3>2 DEF Pending, RowVanished
      <4>. QED
        BY <2>3, <4>1 DEF Saved
    <3>3. CASE ~RowVanished
      <4>1. alertStates'[a] = Merge(alertStates[a], job.read, job.row)
        BY <1>1, <2>3, <3>3 DEF SaveRow, TypeOK
      <4>2. alertStates'[a].lastNotification = lastMail[a].at
        BY <2>1, <3>1, <4>1, MergeTime DEF Saved, Pending
      <4>. QED
        BY <1>1, <4>1, <4>2, MergeTime DEF Saved
    <3>. QED
      BY <3>2, <3>3
  <2>. QED
    BY <1>1, <2>2, <2>3, EvaluatorWrites
<1>. QED
  BY <1>2, <1>3 DEF MailInv

LEMMA PutKnowsTime ==
  ASSUME TypeOK, MailInv, NEW r \in Requests, PutSave(r)
  PROVE  MailInv'
<1>1. UNCHANGED <<pc, tick, job, lastMail, forgotten>> /\ Current \in Alerts /\ Current' = Current
  BY CurrentType DEF PutSave, evaluator, Current
<1>2. ASSUME NEW a \in Alerts
      PROVE  /\ alertStates'[a].stored = alertStates[a].stored
             /\ alertStates'[a].lastNotification = alertStates[a].lastNotification
  <2>1. alertStates[a].stored \in BOOLEAN /\ alertStates'[a].stored \in BOOLEAN
    BY PutSaveType DEF TypeOK, AlertRow
  <2>. QED
    BY <2>1, PutWrites
<1>3. RowVanished' = RowVanished
  BY <1>1, <1>2 DEF RowVanished
<1>. QED
  BY <1>1, <1>2, <1>3 DEF MailInv, JobKnowsTime, TimesKept, Saved, Pending

LEMMA DeleteKnowsTime ==
  ASSUME TypeOK, MailInv, NEW r \in Requests, DeleteAlerts(r)
  PROVE  MailInv'
<1>1. UNCHANGED <<pc, tick, job, lastMail>> /\ Current \in Alerts /\ Current' = Current
  BY CurrentType DEF DeleteAlerts, evaluator, Current
<1>2. forgotten' = forgotten \cup {a \in Alerts : a[1] = requests[r].device /\ lastMail[a].type # "NONE"}
  BY DEF DeleteAlerts
<1>3. CASE Current[1] = requests[r].device
  <2>1. alertStates'[Current] = NoRow
    BY <1>1, <1>3, DeleteWrites
  <2>2. job.read.stored => RowVanished'
    BY <1>1, <2>1 DEF RowVanished, NoRow
  <2>3. JobKnowsTime'
    <3> SUFFICES ASSUME pc \in {"RecordEvent", "Send", "SaveRow"}
                 PROVE  ~RowVanished' => job.read.lastNotification = alertStates'[Current].lastNotification
      BY <1>1 DEF MailInv, JobKnowsTime
    <3>1. ~job.read.stored => job.read = NoRow
      BY DEF MailInv, JobKnowsTime
    <3>. QED
      BY <2>1, <2>2, <3>1
  <2>4. TimesKept'
    <3> SUFFICES ASSUME NEW a \in Alerts, lastMail[a].type # "NONE", a[1] # requests[r].device
                 PROVE  lastMail[a].at # Never /\ (a \in forgotten \/ Saved(a)')
      BY <1>1, <1>2 DEF MailInv, TimesKept
    <3>1. alertStates'[a] = alertStates[a] /\ a # Current
      BY <1>3, DeleteWrites
    <3>. QED
      BY <1>1, <3>1 DEF MailInv, TimesKept, Saved, Pending
  <2>. QED
    BY <2>3, <2>4 DEF MailInv
<1>4. CASE Current[1] # requests[r].device
  <2>1. alertStates'[Current] = alertStates[Current]
    BY <1>1, <1>4, DeleteWrites
  <2>2. RowVanished' = RowVanished
    BY <1>1, <2>1 DEF RowVanished
  <2>3. JobKnowsTime'
    BY <1>1, <2>1, <2>2 DEF MailInv, JobKnowsTime
  <2>4. TimesKept'
    <3> SUFFICES ASSUME NEW a \in Alerts, lastMail[a].type # "NONE", a[1] # requests[r].device
                 PROVE  /\ lastMail[a].at # Never
                        /\ a \in forgotten \/ Saved(a)' \/ Pending(a)'
      BY <1>1, <1>2 DEF MailInv, TimesKept
    <3>1. alertStates'[a] = alertStates[a]
      BY DeleteWrites
    <3>. QED
      BY <1>1, <2>2, <3>1 DEF MailInv, TimesKept, Saved, Pending
  <2>. QED
    BY <2>3, <2>4 DEF MailInv
<1>. QED
  BY <1>3, <1>4

\* The steps that leave the table alone: a job is abandoned only when its row
\* is gone or the process dies.
LEMMA OthersKnowTime ==
  ASSUME TypeOK, MailInv, [Next]_vars, ~WritesTable, ~(\E k \in Keys : ReadRow(k)),
         ~(SendSucceeds \/ SendFails)
  PROVE  MailInv'
<1>1. alertStates' = alertStates
  BY OthersLeaveTable
<1>2. lastMail' = lastMail
  BY DEF WritesTable, Next, Evaluator, LoadAlertSettings, LoadMailSettings, LoadDevices,
     LoadSnapshots, NextDevice, EndTick, EndDevice, AbortTick, Administrator, CreateDevice,
     PutReadDevice, PutReadAlerts, PutFails, DeleteReadDevice, DeleteSave, RemoveDevice,
     SaveAlertSettings, SaveMailSettings, Environment, StartPolling, PollSucceeds, PollFails,
     SnapshotAges, TimePasses, Crash, vars, observers
<1>3. CASE Evaluator
  <2>1. forgotten' = forgotten /\ pc' \notin {"RecordEvent", "Send", "SaveRow"}
    BY <1>3 DEF WritesTable, Evaluator, LoadAlertSettings, LoadMailSettings, LoadDevices,
       LoadSnapshots, NextDevice, EndTick, EndDevice, AbortTick, observers
  <2>2. \A a \in Alerts : ~Pending(a)
    BY <1>3 DEF WritesTable, Pending, Evaluator, LoadAlertSettings, LoadMailSettings, LoadDevices,
       LoadSnapshots, NextDevice, EndTick, EndDevice, AbortTick
  <2>. QED
    BY <1>1, <1>2, <2>1, <2>2 DEF MailInv, JobKnowsTime, TimesKept, Saved
<1>4. CASE Crash
  <2>1. /\ pc' = "Idle" /\ forgotten' = forgotten \cup UnsavedMail
        /\ \A a \in Alerts : Pending(a) => a \in UnsavedMail
    BY <1>4 DEF Crash, Pending, UnsavedMail
  <2>. QED
    BY <1>1, <1>2, <2>1 DEF MailInv, JobKnowsTime, TimesKept, Saved
<1>5. CASE ~Evaluator /\ ~Crash
  <2>1. UNCHANGED <<pc, tick, job, forgotten>>
    BY <1>5 DEF WritesTable, Next, Administrator, CreateDevice, PutReadDevice, PutReadAlerts,
       PutFails, DeleteReadDevice, DeleteSave, RemoveDevice, SaveAlertSettings,
       SaveMailSettings, Environment, StartPolling, PollSucceeds, PollFails, SnapshotAges,
       TimePasses, vars, evaluator, observers
  <2>. QED
    BY <1>1, <1>2, <2>1 DEF MailInv, JobKnowsTime, TimesKept, Saved, Pending, RowVanished, Current
<1>. QED
  BY <1>3, <1>4, <1>5

\* No reminder comes before the cooldown has passed since the last mail whose
\* time was not lost, for any devices, settings, requests and crashes.
THEOREM RemindersKeepTheCooldown == Spec => RemindersAreSpaced
<1>1. Init => MailInv
  BY DEF Init, MailInv, JobKnowsTime, TimesKept, NoMail
<1>2. TypeOK /\ RowsInv /\ MailInv /\ [Next]_vars => MailInv'
  <2> SUFFICES ASSUME TypeOK, RowsInv, MailInv, [Next]_vars
               PROVE  MailInv'
    OBVIOUS
  <2>1. CASE WritesTable
    BY <2>1, RecordEventKnowsTime, SaveRowKnowsTime, PutKnowsTime, DeleteKnowsTime DEF WritesTable
  <2>2. CASE ~WritesTable
    BY <2>2, ReadRowKnowsTime, SendKnowsTime, OthersKnowTime
  <2>. QED
    BY <2>1, <2>2
<1>3. ASSUME TypeOK, MailInv, SendSucceeds, job.decision = "Reminder"
      PROVE  \/ lastMail[Current].type = "NONE"
             \/ tick.now - lastMail[Current].at >= tick.mail.cooldown
             \/ Current \in forgotten
  <2>1. pc = "Send" /\ Current \in Alerts
    BY <1>3, CurrentType DEF SendSucceeds
  <2> SUFFICES ASSUME lastMail[Current].type # "NONE", Current \notin forgotten
               PROVE  tick.now - lastMail[Current].at >= tick.mail.cooldown
    OBVIOUS
  <2>2. lastMail[Current].at # Never /\ Saved(Current)
    BY <1>3, <2>1 DEF MailInv, TimesKept, Pending
  <2>3. job.read.lastNotification = lastMail[Current].at
    BY <1>3, <2>1, <2>2 DEF MailInv, JobKnowsTime, Saved, RowVanished
  <2>. QED
    BY <1>3, <2>1, <2>2, <2>3 DEF MailInv, JobKnowsTime
<1>. QED
  BY <1>1, <1>2, <1>3, TypeCorrect, RowsInvariance, PTL DEF Spec, RemindersAreSpaced

-----------------------------------------------------------------------------
(* What the ticks achieve *)

InWork == {"RecordEvent", "Send", "SaveRow"}
Looking == {"NextDevice", "ReadRow"} \cup InWork

\* The row in work is active just when what was observed is not normal.
RowFits == pc \in InWork => job.row.active = (CurrentSeverity # "normal")

\* What ReadRow makes of an alert.
LEMMA ReadRowGives ==
  ASSUME TypeOK, NEW k \in Keys, ReadRow(k),
         NEW read, read = alertStates[<<job.device, k>>],
         NEW severity, severity = Severity(tick.snapshots[job.device], k, tick.alerts)
  PROVE  /\ pc = "ReadRow" /\ k \in job.todo
         /\ job'.device = job.device /\ job'.todo = job.todo \ {k}
         /\ UNCHANGED <<tick, alertStates>>
         /\ \/ ~read.stored /\ severity = "normal" /\ pc' = "ReadRow"
            \/ /\ pc' \in InWork /\ job'.key = k
               /\ job'.read = read /\ job'.row.active = (severity # "normal")
<1>1. job \in Job /\ read \in AlertRow
  BY DEF TypeOK, Job, Alerts
<1>2. UNCHANGED <<tick, alertStates>>
  BY DEF ReadRow, database
<1>3. CASE ~read.stored /\ severity = "normal"
  BY <1>1, <1>2, <1>3 DEF ReadRow, Job
<1>4. CASE ~(~read.stored /\ severity = "normal")
  <2>1. pc' \in InWork
    BY <1>4 DEF ReadRow, InWork
  <2>2. job' = [job EXCEPT !.todo = @ \ {k}, !.key = k, !.read = read,
                           !.row = Tracked(read, severity),
                           !.decision = Decide(read, severity), !.recorded = FALSE]
    BY <1>4 DEF ReadRow
  <2>3. Tracked(read, severity).active = (severity # "normal")
    BY DEF Tracked
  <2> DEFINE row == Tracked(read, severity)
             decision == Decide(read, severity)
  <2> HIDE DEF row, decision
  <2>4. /\ job'.device = job.device /\ job'.todo = job.todo \ {k} /\ job'.key = k
        /\ job'.read = read /\ job'.row = row
    BY <1>1, <2>2 DEF Job, row, decision
  <2>. QED
    BY <1>2, <2>1, <2>3, <2>4 DEF ReadRow, row
<1>. QED
  BY <1>3, <1>4

\* What the saves and mails of an observation leave of the job.
LEMMA WorkGives ==
  ASSUME TypeOK, RecordEvent \/ SendSucceeds \/ SendFails
  PROVE  /\ pc \in InWork /\ pc' \in InWork
         /\ job'.device = job.device /\ job'.todo = job.todo /\ job'.key = job.key
         /\ job'.row.active = job.row.active
         /\ job'.read.active = IF RecordEvent THEN job.row.active ELSE job.read.active
         /\ UNCHANGED tick
<1>1. job \in Job /\ job.row \in AlertRow
  BY DEF TypeOK, Job
<1>2. CASE RecordEvent
  BY <1>1, <1>2 DEF RecordEvent, Job, InWork
<1>3. CASE SendSucceeds
  <2>1. pc = "Send" /\ pc' = "SaveRow" /\ tick' = tick
        /\ job' = [job EXCEPT !.row.lastNotification = tick.now]
    BY <1>3 DEF SendSucceeds
  <2>. QED
    BY <1>1, <2>1 DEF RecordEvent, Job, AlertRow, InWork
<1>4. CASE SendFails
  BY <1>4 DEF SendFails, RecordEvent, InWork
<1>. QED
  BY <1>2, <1>3, <1>4

\* The evaluator's variables are its own.
LEMMA OthersLeaveEvaluator ==
  ASSUME [Next]_vars, ~Evaluator, ~Crash
  PROVE  UNCHANGED evaluator
  BY DEF Next, Administrator, CreateDevice, PutReadDevice, PutReadAlerts, PutSave, PutFails,
     DeleteReadDevice, DeleteAlerts, DeleteSave, RemoveDevice, SaveAlertSettings,
     SaveMailSettings, Environment, StartPolling, PollSucceeds, PollFails, SnapshotAges,
     TimePasses, vars, evaluator

\* All steps that change the evaluator's variables.
LEMMA EvaluatorCases ==
  ASSUME [Next]_vars
  PROVE  \/ LoadAlertSettings \/ LoadMailSettings \/ LoadDevices \/ LoadSnapshots
         \/ \E d \in Devices : NextDevice(d)
         \/ \E k \in Keys : ReadRow(k)
         \/ RecordEvent \/ SendSucceeds \/ SendFails
         \/ SaveRow
         \/ EndDevice
         \/ EndTick \/ AbortTick \/ Crash
         \/ ~Evaluator /\ UNCHANGED evaluator
  BY OthersLeaveEvaluator DEF Evaluator

\* The row in work fits the observation, however long mails and saves take.
THEOREM RowFitsInvariance == Spec => []RowFits
<1>1. Init => RowFits
  BY DEF Init, RowFits, InWork
<1>2. TypeOK /\ RowFits /\ [Next]_vars => RowFits'
  <2> SUFFICES ASSUME TypeOK, RowFits, [Next]_vars, pc' \in InWork
               PROVE  job'.row.active = (CurrentSeverity' # "normal")
    BY DEF RowFits
  <2>1. ASSUME NEW k \in Keys, ReadRow(k)
        PROVE  job'.row.active = (CurrentSeverity' # "normal")
    <3> DEFINE severity == Severity(tick.snapshots[job.device], k, tick.alerts)
    <3>1. /\ job'.device = job.device /\ job'.key = k /\ tick' = tick
          /\ job'.row.active = (severity # "normal")
      <4> HIDE DEF severity
      <4>. QED
        BY <2>1, ReadRowGives DEF InWork, severity
    <3>2. CurrentSeverity' = severity
      BY <3>1 DEF CurrentSeverity
    <3>. QED
      BY <3>1, <3>2
  <2>2. CASE RecordEvent \/ SendSucceeds \/ SendFails
    <3>1. /\ pc \in InWork /\ tick' = tick /\ job'.device = job.device /\ job'.key = job.key
          /\ job'.row.active = job.row.active
      BY <2>2, WorkGives
    <3>2. CurrentSeverity' = CurrentSeverity
      BY <3>1 DEF CurrentSeverity
    <3>. QED
      BY <3>1, <3>2 DEF RowFits
  <2>3. CASE ~Evaluator /\ UNCHANGED evaluator
    BY <2>3 DEF RowFits, evaluator, CurrentSeverity
  <2>4. CASE \/ LoadAlertSettings \/ LoadMailSettings \/ LoadDevices \/ LoadSnapshots
             \/ SaveRow \/ EndDevice \/ EndTick \/ AbortTick \/ Crash
             \/ \E d \in Devices : NextDevice(d)
    BY <2>4 DEF LoadAlertSettings, LoadMailSettings, LoadDevices, LoadSnapshots, SaveRow,
       EndDevice, EndTick, AbortTick, Crash, NextDevice, InWork
  <2>. QED
    BY <2>1, <2>2, <2>3, <2>4, EvaluatorCases
<1>. QED
  BY <1>1, <1>2, TypeCorrect, PTL DEF Spec

\* Alert <<d, k>> shall be active or shall not: the settings `rules` make of
\* what the tick has loaded so far that it shall.
Loaded(d, k, rules, active) ==
  /\ pc # "Idle" => tick.alerts = rules
  /\ pc = "LoadSnapshots" => d \in tick.queue
  /\ pc \in Looking =>
       /\ tick.snapshots[d].present
       /\ k \in Observed(tick.snapshots[d], rules)
       /\ (Severity(tick.snapshots[d], k, rules) # "normal") = active

\* The tick has the observation still to make or to save.
ToCome(d, k) ==
  \/ pc \notin Looking
  \/ d \in tick.queue
  \/ pc # "NextDevice" /\ job.device = d /\ k \in job.todo
  \/ pc \in InWork /\ Current = <<d, k>>

Done(d, k, active) == alertStates[<<d, k>>].active = active

\* A row that was read as it shall be has not been changed under the evaluator.
StillDone(d, k, active) ==
  pc \in InWork /\ Current = <<d, k>> /\ job.read.active = active => Done(d, k, active)

Follows(d, k, rules, active) ==
  /\ Loaded(d, k, rules, active)
  /\ StillDone(d, k, active)
  /\ ToCome(d, k) \/ Done(d, k, active)

Aims(active) == IF active THEN {"warning", "critical"} ELSE {"normal"}

\* A request closes the alerts of device d.
Closes(r, d) == requests[r].device = d /\ (PutSave(r) \/ DeleteAlerts(r))
ClosesAlerts(d) == \E r \in Requests : Closes(r, d)

\* From some time on none does.  While the device shows a reading each request
\* does so at most once (EachRequestCeases), so that finitely many do not go on.
Undisturbed(d) == <>[][~ClosesAlerts(d)]_vars

LEMMA AimIsMet ==
  ASSUME NEW s, NEW k, NEW rules, NEW active \in BOOLEAN,
         Severity(s, k, rules) \in Aims(active)
  PROVE  (Severity(s, k, rules) # "normal") = active
  BY DEF Aims

\* What is loaded while the observation shows is what shows.
LEMMA LoadedStays ==
  ASSUME TypeOK, NEW d \in Devices, NEW k \in Keys, NEW rules, NEW active \in BOOLEAN,
         Shows(d, k, rules, Aims(active)), Loaded(d, k, rules, active), [Next]_vars
  PROVE  Loaded(d, k, rules, active)'
<1>1. CASE LoadAlertSettings \/ LoadMailSettings \/ LoadDevices
  BY <1>1 DEF LoadAlertSettings, LoadMailSettings, LoadDevices, Loaded, Looking, InWork, Shows,
     TypeOK, Tick
<1>2. CASE LoadSnapshots
  <2>1. /\ pc = "LoadSnapshots" /\ pc' = "NextDevice"
        /\ tick' = [tick EXCEPT !.snapshots = snapshots, !.now = clock]
    BY <1>2 DEF LoadSnapshots
  <2>2. tick'.snapshots = snapshots /\ tick'.alerts = tick.alerts
    BY <2>1 DEF TypeOK, Tick
  <2>3. (Severity(snapshots[d], k, rules) # "normal") = active
    BY AimIsMet DEF Shows
  <2>. QED
    BY <2>1, <2>2, <2>3 DEF Loaded, Shows
<1>3. ASSUME NEW e \in Devices, NextDevice(e)
      PROVE  Loaded(d, k, rules, active)'
  <2>1. /\ pc = "NextDevice" /\ pc' \in {"NextDevice", "ReadRow"}
        /\ tick' = [tick EXCEPT !.queue = @ \ {e}]
    BY <1>3 DEF NextDevice
  <2>2. tick'.snapshots = tick.snapshots /\ tick'.alerts = tick.alerts
    BY <2>1 DEF TypeOK, Tick
  <2>. QED
    BY <2>1, <2>2 DEF Loaded, Looking, InWork
<1>4. CASE EndTick \/ AbortTick \/ Crash
  BY <1>4 DEF EndTick, AbortTick, Crash, Loaded, Looking, InWork
<1>5. CASE SaveRow \/ EndDevice
  BY <1>5 DEF SaveRow, EndDevice, Loaded, Looking, InWork
<1>6. ASSUME NEW j \in Keys, ReadRow(j)
      PROVE  Loaded(d, k, rules, active)'
  <2>1. tick' = tick /\ pc = "ReadRow" /\ pc' \in {"ReadRow", "RecordEvent", "Send", "SaveRow"}
    BY <1>6 DEF ReadRow
  <2>. QED
    BY <2>1 DEF Loaded, Looking, InWork
<1>7. CASE RecordEvent \/ SendSucceeds \/ SendFails
  BY <1>7, WorkGives DEF Loaded, Looking, InWork
<1>8. CASE ~Evaluator /\ UNCHANGED evaluator
  BY <1>8 DEF evaluator, Loaded
<1>. QED
  BY <1>1, <1>2, <1>3, <1>4, <1>5, <1>6, <1>7, <1>8, EvaluatorCases

\* A save of a row that shall be so leaves it so, if it was or was read otherwise.
LEMMA MergeDone ==
  ASSUME NEW db, NEW read, NEW row,
         db.active = row.active \/ read.active # row.active
  PROVE  Merge(db, read, row).active = row.active
  BY DEF Merge

\* Other steps can but close alerts: they leave done what shall be inactive.
LEMMA OthersKeepDone ==
  ASSUME TypeOK, [Next]_vars, ~RecordEvent, ~SaveRow,
         NEW d \in Devices, NEW k \in Keys, NEW active \in BOOLEAN,
         active => ~ClosesAlerts(d), Done(d, k, active)
  PROVE  Done(d, k, active)'
<1>1. <<d, k>> \in Alerts
  BY DEF Alerts
<1>2. alertStates'[<<d, k>>].active \in BOOLEAN /\ alertStates[<<d, k>>].active \in BOOLEAN
  <2>1. TypeOK'
    BY TypeStep
  <2>. QED
    BY <1>1, <2>1 DEF TypeOK, AlertRow
<1>3. ASSUME NEW r \in Requests, PutSave(r) \/ DeleteAlerts(r), requests[r].device = d
      PROVE  Done(d, k, active)'
  BY <1>1, <1>2, <1>3, RequestsOnlyClose DEF ClosesAlerts, Closes, Done
<1>4. ASSUME NEW r \in Requests, PutSave(r) \/ DeleteAlerts(r), requests[r].device # d
      PROVE  Done(d, k, active)'
  <2>1. CASE PutSave(r)
    <3>1. alertStates'[<<d, k>>] = PutClosed(requests[r])[<<d, k>>]
      BY <2>1 DEF PutSave
    <3>2. PutClosed(requests[r])[<<d, k>>] = alertStates[<<d, k>>]
      BY <1>1, <1>4 DEF PutClosed
    <3>. QED
      BY <3>1, <3>2 DEF Done
  <2>2. CASE DeleteAlerts(r)
    BY <1>1, <1>4, <2>2, DeleteWrites DEF Done
  <2>. QED
    BY <1>4, <2>1, <2>2
<1>5. CASE ~WritesTable
  BY <1>5, OthersLeaveTable DEF Done
<1>. QED
  BY <1>3, <1>4, <1>5 DEF WritesTable

\* The save of an observation that shows leaves its row as it shall be.
LEMMA SaveIsDone ==
  ASSUME TypeOK, RowsInv, RowFits, RecordEvent \/ SaveRow,
         NEW d \in Devices, NEW k \in Keys, NEW rules, NEW active \in BOOLEAN,
         Current = <<d, k>>, Loaded(d, k, rules, active), Done(d, k, active) \/ StillDone(d, k, active)
  PROVE  Done(d, k, active)' /\ job.row.active = active
<1>1. /\ pc \in InWork /\ pc \in Looking /\ pc # "Idle"
      /\ job.device = d /\ job.key = k /\ <<d, k>> \in Alerts
  BY DEF RecordEvent, SaveRow, InWork, Looking, Current, Alerts
<1>2. CurrentSeverity = Severity(tick.snapshots[d], k, rules)
  BY <1>1 DEF CurrentSeverity, Loaded
<1>3. job.row.active = active
  BY <1>1, <1>2 DEF RowFits, Loaded
<1>4. /\ job.row \in AlertRow /\ job.read \in AlertRow
      /\ alertStates \in [Alerts -> AlertRow]
  BY DEF TypeOK, Job
<1>5. Done(d, k, active) \/ job.read.active # active
  BY <1>1 DEF StillDone
<1>6. CASE alertStates' = [alertStates EXCEPT ![Current] = Merge(@, job.read, job.row)]
  <2>1. alertStates'[<<d, k>>] = Merge(alertStates[<<d, k>>], job.read, job.row)
    BY <1>1, <1>4, <1>6
  <2>. QED
    BY <1>3, <1>5, <2>1, MergeDone DEF Done
<1>7. CASE SaveRow /\ RowVanished /\ FALSE \in UpdateIssued /\ alertStates' = alertStates
  <2>1. job.read.stored /\ alertStates[<<d, k>>].active = FALSE
    BY <1>1, <1>7 DEF RowVanished, RowsInv, NoRow
  <2>2. CASE active
    <3>1. job.row = job.read
      BY <1>3, <1>7, <2>2 DEF UpdateIssued
    <3>. QED
      BY <1>3, <1>5, <2>1, <2>2, <3>1 DEF Done
  <2>3. CASE ~active
    BY <1>3, <1>7, <2>1, <2>3 DEF Done
  <2>. QED
    BY <2>2, <2>3
<1>. QED
  BY <1>3, <1>6, <1>7 DEF RecordEvent, SaveRow

\* Once a row is as it shall be it stays so.
LEMMA DoneStays ==
  ASSUME TypeOK, RowsInv, RowFits, [Next]_vars,
         NEW d \in Devices, NEW k \in Keys, NEW rules, NEW active \in BOOLEAN,
         Loaded(d, k, rules, active), active => ~ClosesAlerts(d), Done(d, k, active)
  PROVE  Done(d, k, active)'
<1>1. CASE RecordEvent \/ SaveRow
  <2>1. CASE Current = <<d, k>>
    BY <1>1, <2>1, SaveIsDone
  <2>2. CASE Current # <<d, k>>
    <3>1. <<d, k>> \in Alerts
      BY DEF Alerts
    <3>. QED
      BY <1>1, <2>2, <3>1, EvaluatorWrites DEF Done
  <2>. QED
    BY <2>1, <2>2
<1>2. CASE ~RecordEvent /\ ~SaveRow
  BY <1>2, OthersKeepDone
<1>. QED
  BY <1>1, <1>2

LEMMA StillDoneStays ==
  ASSUME TypeOK, RowsInv, RowFits, [Next]_vars,
         NEW d \in Devices, NEW k \in Keys, NEW rules, NEW active \in BOOLEAN,
         Loaded(d, k, rules, active), active => ~ClosesAlerts(d), StillDone(d, k, active)
  PROVE  StillDone(d, k, active)'
<1> SUFFICES ASSUME pc' \in InWork, Current' = <<d, k>>, job'.read.active = active
             PROVE  Done(d, k, active)'
  BY DEF StillDone
<1>1. ASSUME NEW j \in Keys, ReadRow(j)
      PROVE  Done(d, k, active)'
  <2>1. /\ job'.device = job.device /\ alertStates' = alertStates
        /\ job'.key = j /\ job'.read = alertStates[<<job.device, j>>]
    BY <1>1, ReadRowGives DEF InWork
  <2>2. job.device = d /\ j = k
    BY <2>1 DEF Current
  <2>. QED
    BY <2>1, <2>2 DEF Done
<1>2. CASE RecordEvent \/ SendSucceeds \/ SendFails
  <2>1. /\ pc \in InWork /\ job'.device = job.device /\ job'.key = job.key
        /\ job'.read.active = IF RecordEvent THEN job.row.active ELSE job.read.active
    BY <1>2, WorkGives
  <2>2. Current = <<d, k>>
    BY <2>1 DEF Current
  <2>3. CASE RecordEvent
    BY <2>2, <2>3, SaveIsDone
  <2>4. CASE ~RecordEvent
    <3>1. Done(d, k, active)
      BY <2>1, <2>2, <2>4 DEF StillDone
    <3>. QED
      BY <3>1, DoneStays
  <2>. QED
    BY <2>3, <2>4
<1>3. CASE ~Evaluator /\ UNCHANGED evaluator
  <2>1. Done(d, k, active)
    BY <1>3 DEF evaluator, Current, StillDone
  <2>. QED
    BY <2>1, DoneStays
<1>4. CASE \/ LoadAlertSettings \/ LoadMailSettings \/ LoadDevices \/ LoadSnapshots
           \/ SaveRow \/ EndDevice \/ EndTick \/ AbortTick \/ Crash
           \/ \E e \in Devices : NextDevice(e)
  BY <1>4 DEF LoadAlertSettings, LoadMailSettings, LoadDevices, LoadSnapshots, SaveRow,
     EndDevice, EndTick, AbortTick, Crash, NextDevice, InWork
<1>. QED
  BY <1>1, <1>2, <1>3, <1>4, EvaluatorCases

\* No tick passes the observation over.
LEMMA ToComeOrDone ==
  ASSUME TypeOK, RowsInv, RowFits, [Next]_vars,
         NEW d \in Devices, NEW k \in Keys, NEW rules, NEW active \in BOOLEAN,
         Follows(d, k, rules, active), ToCome(d, k)
  PROVE  ToCome(d, k)' \/ Done(d, k, active)'
<1>1. Loaded(d, k, rules, active) /\ StillDone(d, k, active)
  BY DEF Follows
<1>2. CASE LoadAlertSettings \/ LoadMailSettings \/ LoadDevices
  BY <1>2 DEF LoadAlertSettings, LoadMailSettings, LoadDevices, ToCome, Looking, InWork
<1>3. CASE LoadSnapshots
  <2>1. tick'.queue = tick.queue /\ pc = "LoadSnapshots"
    BY <1>3 DEF LoadSnapshots, TypeOK, Tick
  <2>. QED
    BY <1>1, <2>1 DEF Loaded, ToCome
<1>4. ASSUME NEW e \in Devices, NextDevice(e)
      PROVE  ToCome(d, k)'
  <2>1. pc = "NextDevice" /\ tick'.queue = tick.queue \ {e}
    BY <1>4 DEF NextDevice, TypeOK, Tick
  <2>2. d \in tick.queue
    BY <2>1 DEF ToCome, Looking, InWork
  <2>3. CASE e # d
    BY <2>1, <2>2, <2>3 DEF ToCome
  <2>4. CASE e = d
    <3>1. tick.snapshots[d].present /\ k \in Observed(tick.snapshots[d], tick.alerts)
      BY <1>1, <2>1 DEF Loaded, Looking
    <3>2. /\ pc' = "ReadRow"
          /\ job' = [NoJob EXCEPT !.device = d, !.todo = Observed(tick.snapshots[d], tick.alerts)]
      BY <1>4, <2>4, <3>1 DEF NextDevice
    <3>3. job'.device = d /\ job'.todo = Observed(tick.snapshots[d], tick.alerts)
      BY <3>2, NullTypes DEF Job
    <3>. QED
      BY <3>1, <3>2, <3>3 DEF ToCome
  <2>. QED
    BY <2>3, <2>4
<1>5. ASSUME NEW j \in Keys, ReadRow(j)
      PROVE  ToCome(d, k)' \/ Done(d, k, active)'
  <2> DEFINE read == alertStates[<<job.device, j>>]
             severity == Severity(tick.snapshots[job.device], j, tick.alerts)
  <2> HIDE DEF read, severity
  <2>1. /\ pc = "ReadRow" /\ pc' # "NextDevice"
        /\ job'.device = job.device /\ job'.todo = job.todo \ {j}
        /\ tick' = tick /\ alertStates' = alertStates
        /\ \/ ~read.stored /\ severity = "normal"
           \/ pc' \in InWork /\ job'.key = j
    BY <1>5, ReadRowGives DEF read, severity, InWork
  <2>2. d \in tick.queue \/ (job.device = d /\ k \in job.todo)
    BY <2>1 DEF ToCome, Looking, InWork
  <2>3. CASE d \in tick.queue \/ j # k
    BY <2>1, <2>2, <2>3 DEF ToCome
  <2>4. CASE job.device = d /\ j = k /\ pc' \in InWork /\ job'.key = j
    BY <2>1, <2>4 DEF ToCome, Current
  <2>5. CASE job.device = d /\ j = k /\ ~read.stored /\ severity = "normal"
    <3>1. <<d, k>> \in Alerts /\ alertStates[<<d, k>>].active = FALSE
      BY <2>5 DEF RowsInv, NoRow, read, Alerts
    <3>2. severity = Severity(tick.snapshots[d], k, rules)
      BY <1>1, <2>1, <2>5 DEF Loaded, severity
    <3>3. active = FALSE
      BY <1>1, <2>1, <2>5, <3>2 DEF Loaded, Looking
    <3>. QED
      BY <2>1, <3>1, <3>3 DEF Done
  <2>. QED
    BY <2>1, <2>2, <2>3, <2>4, <2>5
<1>6. CASE RecordEvent \/ SendSucceeds \/ SendFails
  <2>1. /\ pc \in InWork /\ pc' \in InWork /\ tick' = tick /\ job'.device = job.device
        /\ job'.todo = job.todo /\ job'.key = job.key
    BY <1>6, WorkGives
  <2>. QED
    BY <2>1 DEF ToCome, Looking, InWork, Current
<1>7. CASE SaveRow
  <2>1. /\ pc = "SaveRow" /\ pc' = "ReadRow" /\ tick' = tick
        /\ job'.device = job.device /\ job'.todo = job.todo
    BY <1>7, NullTypes DEF SaveRow, Job
  <2>2. CASE Current = <<d, k>>
    BY <1>1, <1>7, <2>2, SaveIsDone
  <2>3. CASE Current # <<d, k>>
    BY <2>1, <2>3 DEF ToCome, Looking, InWork
  <2>. QED
    BY <2>2, <2>3
<1>8. CASE EndDevice
  <2>1. pc = "ReadRow" /\ job.todo = {} /\ tick' = tick
    BY <1>8 DEF EndDevice
  <2>. QED
    BY <2>1 DEF ToCome, Looking, InWork
<1>9. CASE EndTick \/ AbortTick \/ Crash
  BY <1>9 DEF EndTick, AbortTick, Crash, ToCome, Looking, InWork
<1>10. CASE ~Evaluator /\ UNCHANGED evaluator
  BY <1>10 DEF evaluator, ToCome, Current
<1>. QED
  BY <1>2, <1>3, <1>4, <1>5, <1>6, <1>7, <1>8, <1>9, <1>10, EvaluatorCases

LEMMA FollowsStays ==
  ASSUME TypeOK, RowsInv, RowFits, [Next]_vars,
         NEW d \in Devices, NEW k \in Keys, NEW rules, NEW active \in BOOLEAN,
         Shows(d, k, rules, Aims(active)), active => ~ClosesAlerts(d),
         Follows(d, k, rules, active)
  PROVE  /\ Follows(d, k, rules, active)'
         /\ Done(d, k, active) => Done(d, k, active)'
<1>1. Loaded(d, k, rules, active) /\ StillDone(d, k, active)
  BY DEF Follows
<1>2. Loaded(d, k, rules, active)' /\ StillDone(d, k, active)'
  BY <1>1, LoadedStays, StillDoneStays
<1>3. Done(d, k, active) => Done(d, k, active)'
  BY <1>1, DoneStays
<1>4. ToCome(d, k)' \/ Done(d, k, active)'
  BY <1>3, ToComeOrDone DEF Follows
<1>. QED
  BY <1>2, <1>3, <1>4 DEF Follows

\* The end of a tick: all that was to come has come, and the next one begins.
LEMMA TickEnds ==
  ASSUME EndTick, NEW d \in Devices, NEW k \in Keys, NEW rules, NEW active \in BOOLEAN
  PROVE  /\ Follows(d, k, rules, active)'
         /\ Follows(d, k, rules, active) => Done(d, k, active)'
<1>1. /\ pc = "NextDevice" /\ tick.queue = {} /\ pc' = "Idle" /\ alertStates' = alertStates
  BY DEF EndTick, database
<1>2. ~ToCome(d, k)
  BY <1>1 DEF ToCome, Looking, InWork
<1>. QED
  BY <1>1, <1>2 DEF Follows, Loaded, StillDone, ToCome, Done, Looking, InWork

\* As long as ticks come to an end, what stays normal is in the end not an
\* active alert, and stays so, whatever the requests, the mails, the polls and
\* the crashes between the awaits of EvaluateAsync.
THEOREM RecoveryFollowsTicks == Spec /\ []<><<EndTick>>_vars => RecoveryIsNoticed
<1> SUFFICES ASSUME NEW d \in Devices, NEW k \in Keys, NEW rules \in AlertRules
             PROVE  Spec /\ []<><<EndTick>>_vars =>
                      (<>[]Shows(d, k, rules, {"normal"}) => <>[]~alertStates[<<d, k>>].active)
  BY DEF RecoveryIsNoticed
<1> DEFINE Now == Shows(d, k, rules, {"normal"})
           Sure == Follows(d, k, rules, FALSE)
           Silent == Done(d, k, FALSE)
<1>1. TypeOK /\ RowsInv /\ RowFits /\ Now /\ Sure /\ [Next]_vars
        => Sure' /\ (Silent => Silent')
  BY FollowsStays DEF Aims
<1>2. <<EndTick>>_vars => Sure' /\ (Sure => Silent')
  BY TickEnds
<1>3. Silent => ~alertStates[<<d, k>>].active
  BY DEF Done
<1> HIDE DEF Now, Sure, Silent
<1>4. Spec /\ []<><<EndTick>>_vars => (<>[]Now => <>[]Silent)
  BY <1>1, <1>2, TypeCorrect, RowsInvariance, RowFitsInvariance, PTL DEF Spec
<1>. QED
  BY <1>3, <1>4, PTL DEF Now

\* A request that has closed the alerts of d is about to remove its snapshot, or
\* d itself.
HasClosed(r, d) == requests[r].device = d /\ requests[r].pc \in {"DeleteSave", "Remove"}

LEMMA ClosedStays ==
  ASSUME TypeOK, NEW r \in Requests, NEW d \in Devices, HasClosed(r, d), [Next]_vars,
         status[d] = "enabled", status'[d] = "enabled", snapshots'[d].present
  PROVE  HasClosed(r, d)' /\ ~Closes(r, d)
<1>0. requests \in [Requests -> Request] /\ status \in [Devices -> Statuses]
  BY DEF TypeOK
<1>1. ~Closes(r, d)
  BY DEF HasClosed, Closes, PutSave, DeleteAlerts
<1> DEFINE Kept == requests'[r].device = d /\ requests'[r].pc \in {"DeleteSave", "Remove"}
<1>2. requests'[r] = requests[r] => Kept
  BY DEF HasClosed
<1>3. ASSUME Evaluator PROVE requests' = requests
  BY <1>3 DEF Evaluator, LoadAlertSettings, LoadMailSettings, LoadDevices, LoadSnapshots, NextDevice,
     EndTick, ReadRow, EndDevice, RecordEvent, SendSucceeds, SendFails, SaveRow, AbortTick
<1>4. ASSUME NEW q \in Requests,
             \/ PutReadAlerts(q) \/ PutSave(q) \/ PutFails(q) \/ DeleteAlerts(q)
             \/ DeleteSave(q) \/ RemoveDevice(q)
             \/ \E e \in Devices : DeleteReadDevice(q, e) \/ \E enable \in BOOLEAN : PutReadDevice(q, e, enable)
      PROVE  Kept
  <2>1. CASE q # r
    <3>1. requests'[r] = requests[r]
      BY <1>0, <1>4, <2>1 DEF PutReadDevice, PutReadAlerts, PutSave, PutFails, DeleteReadDevice,
         DeleteAlerts, DeleteSave, RemoveDevice
    <3>. QED
      BY <1>2, <3>1
  <2>2. CASE q = r
    <3>1. CASE DeleteSave(q)
      BY <1>0, <2>2, <3>1 DEF DeleteSave, HasClosed, Exists
    <3>2. CASE RemoveDevice(q)
      BY <2>2, <3>2 DEF RemoveDevice, HasClosed, NoSnapshot, Disconnected
    <3>. QED
      BY <1>4, <2>2, <3>1, <3>2 DEF HasClosed, PutReadDevice, PutReadAlerts, PutSave, PutFails,
         DeleteReadDevice, DeleteAlerts
  <2>. QED
    BY <2>1, <2>2
<1>5. ASSUME Administrator PROVE Kept
  <2>1. CASE \/ \E e \in Devices, enable \in BOOLEAN : CreateDevice(e, enable)
             \/ \E rules \in AlertRules : SaveAlertSettings(rules)
             \/ \E rules \in MailRules : SaveMailSettings(rules)
    <3>1. requests' = requests
      BY <2>1 DEF CreateDevice, SaveAlertSettings, SaveMailSettings
    <3>. QED
      BY <1>2, <3>1
  <2>2. CASE \E q \in Requests :
               \/ PutReadAlerts(q) \/ PutSave(q) \/ PutFails(q) \/ DeleteAlerts(q)
               \/ DeleteSave(q) \/ RemoveDevice(q)
               \/ \E e \in Devices : DeleteReadDevice(q, e) \/ \E enable \in BOOLEAN : PutReadDevice(q, e, enable)
    BY <1>4, <2>2
  <2>. QED
    BY <1>5, <2>1, <2>2 DEF Administrator
<1>6. ASSUME Environment PROVE requests' = requests
  <2>1. ~Crash
    BY DEF Crash, NoSnapshot, Disconnected
  <2>. QED
    BY <1>6, <2>1 DEF Environment, StartPolling, PollSucceeds, PollFails, SnapshotAges, TimePasses
<1>. QED
  BY <1>1, <1>2, <1>3, <1>5, <1>6 DEF Next, vars, HasClosed

\* While a device goes on to show a reading, no request goes on to close its
\* alerts: it must remove the snapshot, or the device, before it can begin again.
THEOREM EachRequestCeases ==
  ASSUME NEW r \in Requests, NEW d \in Devices, NEW k \in Keys, NEW rules \in AlertRules,
         NEW severities
  PROVE  Spec /\ <>[]Shows(d, k, rules, severities) => <>[][~Closes(r, d)]_vars
<1>. DEFINE Now == Shows(d, k, rules, severities)
            Stuck == HasClosed(r, d)
<1>1. TypeOK /\ Now /\ Now' /\ Stuck /\ [Next]_vars => Stuck' /\ [~Closes(r, d)]_vars
  BY ClosedStays DEF Shows
<1>2. TypeOK /\ <<Closes(r, d)>>_vars => Stuck'
  <2>. SUFFICES ASSUME requests \in [Requests -> Request], requests[r].device = d,
                       PutSave(r) \/ DeleteAlerts(r)
                PROVE  requests'[r].device = d /\ requests'[r].pc \in {"DeleteSave", "Remove"}
    BY DEF Closes, HasClosed, TypeOK
  <2>1. CASE PutSave(r)
    <3>1. requests'[r] = [NoRequest EXCEPT !.pc = "Remove", !.device = d]
      BY <2>1 DEF PutSave
    <3>. QED
      BY <3>1 DEF NoRequest
  <2>2. CASE DeleteAlerts(r)
    <3>1. requests'[r] = [requests[r] EXCEPT !.pc = "DeleteSave"]
      BY <2>2 DEF DeleteAlerts
    <3>. QED
      BY <3>1 DEF Request
  <2>. QED
    BY <2>1, <2>2
<1>. HIDE DEF Now, Stuck
<1>3. Spec /\ <>[]Now => <>[][~Closes(r, d)]_vars
  BY <1>1, <1>2, TypeCorrect, PTL DEF Spec
<1>. QED
  BY <1>3 DEF Now

\* What stays above a threshold is in the end an active alert, and stays one,
\* unless requests go on closing the alerts of the device: as long as ticks
\* come to an end, no breach is lost between the awaits of EvaluateAsync.
THEOREM BreachFollowsTicks ==
  /\ Spec
  /\ []<><<EndTick>>_vars
  /\ \A d \in Devices : Undisturbed(d)
  => BreachIsRaised
<1> SUFFICES ASSUME NEW d \in Devices, NEW k \in Keys, NEW rules \in AlertRules
             PROVE  Spec /\ []<><<EndTick>>_vars /\ (\A e \in Devices : Undisturbed(e)) =>
                      (<>[]Shows(d, k, rules, {"warning", "critical"})
                         => <>[]alertStates[<<d, k>>].active)
  BY DEF BreachIsRaised
<1> DEFINE Now == Shows(d, k, rules, {"warning", "critical"})
           Sure == Follows(d, k, rules, TRUE)
           Raised == Done(d, k, TRUE)
<1>1. TypeOK /\ RowsInv /\ RowFits /\ Now /\ Sure /\ [Next]_vars /\ [~ClosesAlerts(d)]_vars
        => Sure' /\ (Raised => Raised')
  <2>1. UNCHANGED vars /\ Sure => Sure' /\ (Raised => Raised')
    BY DEF vars, database, memory, evaluator, Follows, Loaded, StillDone, ToCome, Done, Current
  <2>. QED
    BY <2>1, FollowsStays DEF Aims
<1>2. <<EndTick>>_vars => Sure' /\ (Sure => Raised')
  BY TickEnds
<1>3. Raised => alertStates[<<d, k>>].active
  BY DEF Done
<1>4. (\A e \in Devices : Undisturbed(e)) => Undisturbed(d)
  OBVIOUS
<1> HIDE DEF Now, Sure, Raised
<1>5. Spec /\ []<><<EndTick>>_vars /\ Undisturbed(d) => (<>[]Now => <>[]Raised)
  BY <1>1, <1>2, TypeCorrect, RowsInvariance, RowFitsInvariance, PTL DEF Spec, Undisturbed
<1>. QED
  BY <1>3, <1>4, <1>5, PTL DEF Now

-----------------------------------------------------------------------------
(* What an event says *)

\* The value and the threshold of an event about a metric or an interface fit
\* its type.
EventFits ==
  RecordEvent /\ job.key # DeviceKey =>
    LET event == lastEvent'[Current]
        s == tick.snapshots[job.device]
    IN  IF event.type = "RECOVERED"
        THEN event.value < event.threshold \/ event.value = NoReading \/ ~Online(s)
        ELSE event.value >= event.threshold

\* The severity of a reading fits the threshold that is reported with it.
LEMMA SeverityFits ==
  ASSUME NEW s \in Snapshot, NEW k \in Keys \ {DeviceKey}, NEW rules \in AlertRule,
         ~Suppressed(k, rules)
  PROVE  LET severity == Severity(s, k, rules)
             threshold == Threshold(k, severity, rules)
         IN  IF severity = "normal"
             THEN Value(s, k) < threshold \/ Value(s, k) = NoReading \/ ~Online(s)
             ELSE Value(s, k) >= threshold
<1>1. k # DeviceKey /\ k \in MetricKeys \cup InterfaceKeys
  BY DEF Keys
<1>2. s.value[k] \in Int
  <2>1. s.value \in [MetricKeys \cup InterfaceKeys -> Readings \cup {NoReading}]
    BY DEF Snapshot
  <2>2. s.value[k] \in Readings \cup {NoReading}
    BY <1>1, <2>1
  <2>3. \A r \in Readings \cup {NoReading} : r \in Int
    <3>. SUFFICES ASSUME NEW r \in Readings \cup {NoReading} PROVE r \in Int
      OBVIOUS
    <3>1. CASE r \in Readings
      BY <3>1, ReadingsAssumption
    <3>2. CASE r = NoReading
      BY <3>2 DEF NoReading
    <3>. QED
      BY <3>1, <3>2
  <2>. QED
    BY <2>2, <2>3
<1>3. rules.warning \in Int /\ rules.critical \in Int
  BY DEF AlertRule
<1>4. /\ Value(s, k) = s.value[k]
      /\ Threshold(k, Severity(s, k, rules), rules)
           = IF Severity(s, k, rules) = "critical" THEN rules.critical ELSE rules.warning
  BY <1>1 DEF Value, Threshold
<1>5. CASE k \in MetricKeys
  <2>1. rules.enabled
    BY <1>5 DEF Suppressed
  <2>2. Severity(s, k, rules) = IF ~Online(s) \/ s.value[k] = NoReading THEN "normal"
                                ELSE ThresholdSeverity(s.value[k], rules.warning, rules.critical)
    BY <1>5, <2>1 DEF Severity, MetricSeverity
  <2>. QED
    BY <1>2, <1>3, <1>4, <2>2 DEF ThresholdSeverity
<1>6. CASE k \notin MetricKeys
  <2>1. Severity(s, k, rules) = ThresholdSeverity(s.value[k], rules.warning, rules.critical)
    BY <1>1, <1>6 DEF Severity
  <2>. QED
    BY <1>2, <1>3, <1>4, <2>1 DEF ThresholdSeverity
<1>. QED
  BY <1>5, <1>6

\* What is about to be recorded follows from what the tick has loaded.
DecisionFollows ==
  pc = "RecordEvent" =>
    /\ ~Suppressed(job.key, tick.alerts)
    /\ job.decision = "Recovered" <=> CurrentSeverity = "normal"

LEMMA ReadRowFits ==
  ASSUME TypeOK, NEW k \in Keys, ReadRow(k)
  PROVE  DecisionFollows'
<1>. DEFINE read == alertStates[<<job.device, k>>]
            severity == Severity(tick.snapshots[job.device], k, tick.alerts)
            decision == Decide(read, severity)
<1>. SUFFICES ASSUME pc' = "RecordEvent" PROVE DecisionFollows'
  BY DEF DecisionFollows
<1>1. /\ job' = [job EXCEPT !.todo = @ \ {k}, !.key = k, !.read = read,
                            !.row = Tracked(read, severity),
                            !.decision = decision, !.recorded = FALSE]
      /\ MustRecord(k, decision, severity)
      /\ tick' = tick
  BY DEF ReadRow
<1>2. job'.key = k /\ job'.decision = decision /\ job'.device = job.device
  BY <1>1 DEF TypeOK, Job
<1>3. CurrentSeverity' = severity
  BY <1>1, <1>2 DEF CurrentSeverity
<1>4. decision # "None" /\ ~Suppressed(k, tick.alerts)
  BY <1>1 DEF MustRecord
<1>5. decision = "Recovered" <=> severity = "normal"
  <2>. HIDE DEF read, severity
  <2>. QED
    BY <1>4 DEF Decide, Evaluate
<1>. QED
  BY <1>1, <1>2, <1>3, <1>4, <1>5 DEF DecisionFollows

\* Nothing that runs beside the evaluator touches what it has loaded, so that
\* the event is about the reading that was judged.
LEMMA DecisionStep == TypeOK /\ DecisionFollows /\ [Next]_vars => DecisionFollows'
<1>. SUFFICES ASSUME TypeOK, DecisionFollows, [Next]_vars PROVE DecisionFollows'
  OBVIOUS
<1>1. ASSUME UNCHANGED evaluator PROVE DecisionFollows'
  BY <1>1 DEF evaluator, DecisionFollows, CurrentSeverity
<1>2. ASSUME pc' # "RecordEvent" PROVE DecisionFollows'
  BY <1>2 DEF DecisionFollows
<1>3. CASE Evaluator
  <2>1. ASSUME NEW k \in Keys, ReadRow(k) PROVE DecisionFollows'
    BY <2>1, ReadRowFits
  <2>2. ASSUME NEW d \in Devices, NextDevice(d) PROVE pc' # "RecordEvent"
    BY <2>2 DEF NextDevice
  <2>3. ASSUME \/ LoadAlertSettings \/ LoadMailSettings \/ LoadDevices \/ LoadSnapshots \/ EndTick
               \/ EndDevice \/ RecordEvent \/ SendSucceeds \/ SendFails \/ SaveRow \/ AbortTick
        PROVE  pc' # "RecordEvent"
    BY <2>3 DEF LoadAlertSettings, LoadMailSettings, LoadDevices, LoadSnapshots, EndTick, EndDevice,
       RecordEvent, SendSucceeds, SendFails, SaveRow, AbortTick
  <2>. QED
    BY <1>2, <1>3, <2>1, <2>2, <2>3 DEF Evaluator
<1>4. CASE Administrator
  BY <1>1, <1>4 DEF Administrator, CreateDevice, PutReadDevice, PutReadAlerts, PutSave, PutFails,
     DeleteReadDevice, DeleteAlerts, DeleteSave, RemoveDevice, SaveAlertSettings, SaveMailSettings,
     evaluator
<1>5. CASE Environment
  BY <1>1, <1>2, <1>5 DEF Environment, StartPolling, PollSucceeds, PollFails, SnapshotAges,
     TimePasses, Crash, evaluator
<1>6. CASE UNCHANGED vars
  BY <1>1, <1>6 DEF vars
<1>. QED
  BY <1>3, <1>4, <1>5, <1>6 DEF Next

\* Every event of a metric or an interface reports a value on the right side of
\* the threshold it reports, whatever settings, readings and rows change while
\* it is decided and stored; only of a device that is offline, or has no such
\* reading, may a recovery report anything else.  (The run `recovered` shows one.)
THEOREM EventsFitTheirThreshold == Spec => [][EventFits]_vars
<1>1. TypeOK /\ DecisionFollows => EventFits
  <2>. SUFFICES ASSUME TypeOK, DecisionFollows, RecordEvent, job.key # DeviceKey
                PROVE  EventFits
    BY DEF EventFits
  <2>. DEFINE s == tick.snapshots[job.device]
              event == lastEvent'[Current]
  <2>1. /\ s \in Snapshot /\ job.key \in Keys \ {DeviceKey} /\ tick.alerts \in AlertRule
        /\ job.decision \in Decisions
        /\ Current \in Alerts /\ lastEvent \in [Alerts -> EventRow]
    BY CurrentType DEF TypeOK, Tick, Job
  <2>2. ~Suppressed(job.key, tick.alerts) /\ (job.decision = "Recovered" <=> CurrentSeverity = "normal")
    BY DEF DecisionFollows, RecordEvent
  <2>3. event = CurrentEvent(EventType[job.decision])
    BY <2>1 DEF RecordEvent
  <2>4. /\ event.value = Value(s, job.key)
        /\ event.threshold = Threshold(job.key, CurrentSeverity, tick.alerts)
        /\ event.type = "RECOVERED" <=> job.decision = "Recovered"
    BY <2>1, <2>3 DEF CurrentEvent, EventType, Decisions
  <2>5. IF CurrentSeverity = "normal"
        THEN event.value < event.threshold \/ event.value = NoReading \/ ~Online(s)
        ELSE event.value >= event.threshold
    BY <2>1, <2>2, <2>4, SeverityFits DEF CurrentSeverity
  <2>. QED
    BY <2>2, <2>4, <2>5 DEF EventFits
<1>2. Init => DecisionFollows
  BY DEF Init, DecisionFollows
<1>. QED
  BY <1>1, <1>2, DecisionStep, TypeCorrect, PTL DEF Spec
=============================================================================
