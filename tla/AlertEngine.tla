---------------------------- MODULE AlertEngine ----------------------------
(***************************************************************************)
(* The alert engine of FortiScope and everything that runs beside it.      *)
(*                                                                         *)
(*   - the evaluator (AlertNotificationBackgroundService): one thread that *)
(*     loads settings, devices and snapshots, compares each observation    *)
(*     with the alert row in the database, records transitions, sends      *)
(*     mails and saves the row.  Every await is a step, so that anything   *)
(*     may happen between them;                                            *)
(*   - the HTTP requests that edit, disable or delete a device, any number *)
(*     of them in flight, each with its reads and saves apart;             *)
(*   - the SNMP poller, as far as the evaluator sees it (it publishes and  *)
(*     removes snapshots), and the administrator's settings;               *)
(*   - crashes of the process: what is in memory is lost, the database     *)
(*     is kept.                                                            *)
(*                                                                         *)
(* The database is SQLite behind Entity Framework.  SaveChanges is one     *)
(* transaction; it writes, of each row it read, the columns whose value    *)
(* differs from the value read (Merge), and fails as a whole when a row it *)
(* must write has gone.                                                    *)
(***************************************************************************)
EXTENDS AlertPolicy

CONSTANTS
  Devices,        \* device ids; SQLite never hands an id out twice
  MetricKeys,     \* state keys "CPU" and "MEMORY"
  InterfaceKeys,  \* state keys INTERFACE_TRAFFIC:<index>
  DeviceKey,      \* state key "DEVICE"
  Readings,       \* the percentages a device may report
  AlertRules,     \* the alert settings an administrator may save
  MailRules,      \* the mail settings an administrator may save
  Requests,       \* HTTP requests that may be in flight together
  MaxClock,       \* bound on the clock (minutes)
  MaxCrashes      \* bound on the number of crashes

Keys == MetricKeys \cup InterfaceKeys \cup {DeviceKey}
Alerts == Devices \X Keys

\* AlertSettings and EmailSettings as their constructors leave them, with one
\* pair of thresholds for all metrics.
AlertDefaults == [enabled |-> TRUE, warning |-> 70, critical |-> 85]
MailDefaults == [enabled |-> FALSE, warning |-> FALSE, critical |-> TRUE,
                 recovery |-> TRUE, cooldown |-> 15]

AlertRule == [enabled : BOOLEAN, warning : Int, critical : Int]
MailRule == [enabled : BOOLEAN, warning : BOOLEAN, critical : BOOLEAN,
             recovery : BOOLEAN, cooldown : Nat]

ASSUME DevicesAssumption == Devices # {}
ASSUME KeysAssumption ==
  /\ DeviceKey \notin MetricKeys \cup InterfaceKeys
  /\ MetricKeys \cap InterfaceKeys = {}
ASSUME ReadingsAssumption == Readings \subseteq Nat
ASSUME RulesAssumption ==
  /\ AlertRules \subseteq AlertRule
  /\ MailRules \subseteq MailRule
ASSUME BoundsAssumption == MaxClock \in Nat /\ MaxCrashes \in Nat

\* A row of AlertStates.  NoRow has the values the code takes for a missing
\* row (state?.IsActive == true, state?.Severity ?? "normal").
AlertRow == [stored : BOOLEAN, active : BOOLEAN, severity : Severities,
             lastNotification : Int]
NoRow == [stored |-> FALSE, active |-> FALSE, severity |-> "normal",
          lastNotification |-> Never]

\* A device's MonitoringSnapshot.  `fresh` is that LastUpdated is not older
\* than OfflineTimeoutSeconds; an interface the traffic rule cannot judge
\* (virtual, down, without speed or rate) has NoReading.
Snapshot == [present : BOOLEAN, connected : BOOLEAN, fresh : BOOLEAN,
             value : [MetricKeys \cup InterfaceKeys -> Readings \cup {NoReading}]]
Disconnected(present) ==
  [present |-> present, connected |-> FALSE, fresh |-> FALSE,
   value |-> [k \in MetricKeys \cup InterfaceKeys |-> NoReading]]
NoSnapshot == Disconnected(FALSE)

VARIABLES
  clock,          \* the wall clock
  status,         \* per device: its row in Devices, or that it has none
  alertSettings,  \* the AlertSettings row
  mailSettings,   \* the EmailSettings row
  snapshots,      \* _currentByDevice of the monitoring service
  polling,        \* devices the poller's current round still has to poll
  alertStates,    \* the AlertStates table
  lastEvent,      \* per alert: the last row of AlertEvents
  pc,             \* the evaluator's control state
  tick,           \* what the evaluator has loaded for this tick
  job,            \* the observation in work, its tracked row, the decision
  requests,       \* the HTTP requests in flight
  lastMail,       \* observer: per alert, the last mail handed to SMTP
  forgotten,      \* observer: alerts of whose last mail the row has no time
  silenced,       \* observer: open alerts that were closed without an event
  raced,          \* observer: devices with an alert opened during a disable
  crashes         \* observer: number of crashes

database == <<status, alertSettings, mailSettings, alertStates, lastEvent>>
memory == <<snapshots, polling>>
evaluator == <<pc, tick, job>>
observers == <<lastMail, forgotten, silenced, raced, crashes>>
vars == <<clock, database, memory, evaluator, requests, observers>>

-----------------------------------------------------------------------------
(* The database *)

\* What an UPDATE leaves of a row: the columns changed since they were read.
Merge(db, read, new) ==
  [stored |-> TRUE,
   active |-> IF new.active # read.active THEN new.active ELSE db.active,
   severity |-> IF new.severity # read.severity THEN new.severity ELSE db.severity,
   lastNotification |-> IF new.lastNotification # read.lastNotification
                        THEN new.lastNotification ELSE db.lastNotification]

\* Observer: alerts that were active and no longer are.
Closed(old, new) == {a \in Alerts : old[a].active /\ ~new[a].active}

HasActive(table, d) == \E k \in Keys : table[<<d, k>>].active

-----------------------------------------------------------------------------
(* The evaluator's view of a device *)

Online(s) == s.connected /\ s.fresh

Observed(s, rules) ==
  MetricKeys \cup {DeviceKey} \cup
  {k \in InterfaceKeys : Online(s) /\ rules.enabled /\ s.value[k] # NoReading}

\* The order in which a device's observations are processed.
Stage(k) == IF k \in MetricKeys THEN 1 ELSE IF k = DeviceKey THEN 2 ELSE 3

Severity(s, k, rules) ==
  CASE k \in MetricKeys ->
         MetricSeverity(s.value[k], rules.warning, rules.critical, rules.enabled /\ Online(s))
    [] k = DeviceKey -> IF Online(s) THEN "normal" ELSE "critical"
    [] OTHER -> ThresholdSeverity(s.value[k], rules.warning, rules.critical)

Value(s, k) == IF k = DeviceKey THEN NoReading ELSE s.value[k]

Threshold(k, severity, rules) ==
  IF k = DeviceKey THEN NoReading
  ELSE IF severity = "critical" THEN rules.critical ELSE rules.warning

\* Switching the alert rules off closes metric alerts without a word.
Suppressed(k, rules) == k \in MetricKeys /\ ~rules.enabled

NoEvent == [type |-> "NONE", value |-> NoReading, threshold |-> NoReading]
NoMail == [type |-> "NONE", at |-> Never]
NoTick == [alerts |-> AlertDefaults, mail |-> MailDefaults, queue |-> {},
           snapshots |-> [d \in Devices |-> NoSnapshot], now |-> 0]
NoJob == [device |-> CHOOSE d \in Devices : TRUE, todo |-> {}, key |-> DeviceKey,
          read |-> NoRow, row |-> NoRow, decision |-> "None", recorded |-> FALSE]
NoRequest == [pc |-> "Idle", device |-> CHOOSE d \in Devices : TRUE, enable |-> FALSE,
              wasEnabled |-> FALSE, rows |-> [k \in Keys |-> NoRow]]

\* The alert in work and what the loaded data says about it.
Current == <<job.device, job.key>>
CurrentSeverity == Severity(tick.snapshots[job.device], job.key, tick.alerts)
CurrentEvent(type) ==
  [type |-> type,
   value |-> Value(tick.snapshots[job.device], job.key),
   threshold |-> Threshold(job.key, CurrentSeverity, tick.alerts)]

-----------------------------------------------------------------------------
(* The evaluator *)

\* A tick of the timer: EvaluateAsync reads the alert settings.
LoadAlertSettings ==
  /\ pc = "Idle"
  /\ tick' = [tick EXCEPT !.alerts = alertSettings]
  /\ pc' = "LoadMail"
  /\ UNCHANGED <<clock, database, memory, job, requests, observers>>

LoadMailSettings ==
  /\ pc = "LoadMail"
  /\ tick' = [tick EXCEPT !.mail = mailSettings]
  /\ pc' = "LoadDevices"
  /\ UNCHANGED <<clock, database, memory, job, requests, observers>>

LoadDevices ==
  /\ pc = "LoadDevices"
  /\ tick' = [tick EXCEPT !.queue = {d \in Devices : status[d] = "enabled"}]
  /\ pc' = "LoadSnapshots"
  /\ UNCHANGED <<clock, database, memory, job, requests, observers>>

\* The snapshots, and the instant this tick takes for "now".
LoadSnapshots ==
  /\ pc = "LoadSnapshots"
  /\ tick' = [tick EXCEPT !.snapshots = snapshots, !.now = clock]
  /\ pc' = "NextDevice"
  /\ UNCHANGED <<clock, database, memory, job, requests, observers>>

\* The query has no ORDER BY: the devices come in any order.  A device
\* without a snapshot is skipped.
NextDevice(d) ==
  /\ pc = "NextDevice"
  /\ d \in tick.queue
  /\ tick' = [tick EXCEPT !.queue = @ \ {d}]
  /\ LET s == tick.snapshots[d]
     IN  IF s.present
         THEN /\ job' = [NoJob EXCEPT !.device = d, !.todo = Observed(s, tick.alerts)]
              /\ pc' = "ReadRow"
         ELSE UNCHANGED <<job, pc>>
  /\ UNCHANGED <<clock, database, memory, requests, observers>>

EndTick ==
  /\ pc = "NextDevice"
  /\ tick.queue = {}
  /\ tick' = NoTick
  /\ job' = NoJob
  /\ pc' = "Idle"
  /\ UNCHANGED <<clock, database, memory, requests, observers>>

\* Mutant of Tracked: a normal observation does not clear IsActive.
TrackedNeverCleared(read, severity) ==
  [stored |-> TRUE, active |-> read.active \/ severity # "normal", severity |-> severity,
   lastNotification |-> read.lastNotification]

\* What ProcessObservationAsync makes of the row it has read: the tracked
\* entity and the decision.
Tracked(read, severity) ==
  [stored |-> TRUE, active |-> severity # "normal", severity |-> severity,
   lastNotification |-> read.lastNotification]

\* Mutant of Decide: the cooldown is taken for seconds.
DecideCooldownInSeconds(read, severity) ==
  Evaluate(read.active, read.severity, read.lastNotification, severity, tick.now,
           tick.mail.cooldown \div 60)

Decide(read, severity) ==
  Evaluate(read.active, read.severity, read.lastNotification, severity, tick.now,
           tick.mail.cooldown)

\* Does a mail go out about the decision, unless the settings changed meanwhile?
MustNotify(k, decision, severity) ==
  ~Suppressed(k, tick.alerts) /\ ShouldNotify(decision, severity, tick.mail)

\* Mutant of MustRecord: events are stored with their mail only.
MustRecordIfMailed(k, decision, severity) ==
  decision # "None" /\ MustNotify(k, decision, severity)

\* Mutant of MustRecord: reminders are mailed and not stored.
MustRecordTransitions(k, decision, severity) ==
  decision \notin {"None", "Reminder"} /\ ~Suppressed(k, tick.alerts)

\* Mutant of MustRecord: the end of an alert is not recorded.
MustRecordUntilRecovery(k, decision, severity) ==
  decision \notin {"None", "Recovered"} /\ ~Suppressed(k, tick.alerts)

\* A transition is recorded whether or not a mail is wanted, a reminder only
\* together with its mail.
MustRecord(k, decision, severity) ==
  /\ decision # "None"
  /\ ~Suppressed(k, tick.alerts)
  /\ decision = "Reminder" => MustNotify(k, decision, severity)

ReadRow(k) ==
  /\ pc = "ReadRow"
  /\ k \in job.todo
  /\ \A j \in job.todo : Stage(k) <= Stage(j)
  /\ LET read == alertStates[<<job.device, k>>]
         severity == Severity(tick.snapshots[job.device], k, tick.alerts)
         decision == Decide(read, severity)
     IN  IF ~read.stored /\ severity = "normal"
         THEN /\ job' = [job EXCEPT !.todo = @ \ {k}]
              /\ pc' = "ReadRow"
         ELSE /\ job' = [job EXCEPT !.todo = @ \ {k}, !.key = k, !.read = read,
                                    !.row = Tracked(read, severity),
                                    !.decision = decision, !.recorded = FALSE]
              /\ pc' = CASE MustRecord(k, decision, severity) -> "RecordEvent"
                         [] OTHER -> IF MustNotify(k, decision, severity)
                                     THEN "Send" ELSE "SaveRow"
  /\ UNCHANGED <<clock, database, memory, tick, requests, observers>>

EndDevice ==
  /\ pc = "ReadRow"
  /\ job.todo = {}
  /\ job' = NoJob
  /\ pc' = "NextDevice"
  /\ UNCHANGED <<clock, database, memory, tick, requests, observers>>

\* The row was read and has been deleted since.
RowVanished == job.read.stored /\ ~alertStates[Current].stored

\* SaveChanges with the new event: event and row in one transaction.
RecordEvent ==
  /\ pc = "RecordEvent"
  /\ ~RowVanished
  /\ lastEvent' = [lastEvent EXCEPT ![Current] = CurrentEvent(EventType[job.decision])]
  /\ alertStates' = [alertStates EXCEPT ![Current] = Merge(@, job.read, job.row)]
  /\ job' = [job EXCEPT !.read = job.row, !.recorded = TRUE]
  /\ pc' = IF MustNotify(job.key, job.decision, CurrentSeverity) THEN "Send" ELSE "SaveRow"
  /\ silenced' = IF job.decision \in {"Opened", "Recovered"} THEN silenced \ {Current} ELSE silenced
  /\ raced' = IF /\ job.decision = "Opened"
                 /\ \/ status[job.device] # "enabled"
                    \/ \E r \in Requests : /\ requests[r].device = job.device
                                           /\ requests[r].pc = "PutSave"
                                           /\ ~requests[r].enable
              THEN raced \cup {job.device} ELSE raced
  /\ UNCHANGED <<clock, status, alertSettings, mailSettings, memory, tick, requests,
                 lastMail, forgotten, crashes>>

\* EmailNotificationService reads the mail settings again and gives up if
\* mails have been switched off.
SendSucceeds ==
  /\ pc = "Send"
  /\ mailSettings.enabled
  /\ lastMail' = [lastMail EXCEPT ![Current] = [type |-> EventType[job.decision], at |-> tick.now]]
  /\ forgotten' = IF RowVanished THEN forgotten \cup {Current} ELSE forgotten \ {Current}
  /\ job' = [job EXCEPT !.row.lastNotification = tick.now]
  /\ pc' = "SaveRow"
  /\ UNCHANGED <<clock, database, memory, tick, requests, silenced, raced, crashes>>

SendFails ==
  /\ pc = "Send"
  /\ pc' = "SaveRow"
  /\ UNCHANGED <<clock, database, memory, tick, job, requests, observers>>

\* Does the last SaveChanges of an observation issue an UPDATE at all?
\* LastTriggeredUtc changes with every observation that is not normal;
\* AlertType and LastValue may change with one that is.
UpdateIssued ==
  CASE job.row # job.read -> {TRUE}
    [] job.row = job.read /\ job.recorded -> {FALSE}
    [] OTHER -> IF job.row.active THEN {TRUE} ELSE BOOLEAN

SaveRow ==
  /\ pc = "SaveRow"
  /\ \/ /\ ~RowVanished
        /\ alertStates' = [alertStates EXCEPT ![Current] = Merge(@, job.read, job.row)]
     \/ /\ RowVanished
        /\ FALSE \in UpdateIssued
        /\ alertStates' = alertStates
  /\ silenced' = IF Suppressed(job.key, tick.alerts)
                 THEN silenced \cup Closed(alertStates, alertStates')
                 ELSE silenced
  /\ job' = [NoJob EXCEPT !.device = job.device, !.todo = job.todo]
  /\ pc' = "ReadRow"
  /\ UNCHANGED <<clock, status, alertSettings, mailSettings, lastEvent, memory, tick, requests,
                 lastMail, forgotten, raced, crashes>>

\* Mutant of AbortTick: the failed save is tried again for ever.
AbortTickRetries ==
  /\ RowVanished
  /\ pc \in {"RecordEvent", "SaveRow"}
  /\ UNCHANGED vars

\* DbUpdateConcurrencyException: nothing is written, EvaluateSafelyAsync
\* logs it and gives the rest of the tick up.
AbortTick ==
  /\ RowVanished
  /\ \/ pc = "RecordEvent"
     \/ pc = "SaveRow" /\ TRUE \in UpdateIssued
  /\ tick' = NoTick
  /\ job' = NoJob
  /\ pc' = "Idle"
  /\ UNCHANGED <<clock, database, memory, requests, observers>>

Evaluator ==
  \/ LoadAlertSettings
  \/ LoadMailSettings
  \/ LoadDevices
  \/ LoadSnapshots
  \/ \E d \in Devices : NextDevice(d)
  \/ EndTick
  \/ \E k \in Keys : ReadRow(k)
  \/ EndDevice
  \/ RecordEvent
  \/ SendSucceeds
  \/ SendFails
  \/ SaveRow
  \/ AbortTick

-----------------------------------------------------------------------------
(* HTTP requests *)

\* POST /api/devices: one INSERT.
CreateDevice(d, enable) ==
  /\ status[d] = "absent"
  /\ status' = [status EXCEPT ![d] = IF enable THEN "enabled" ELSE "disabled"]
  /\ UNCHANGED <<clock, alertSettings, mailSettings, alertStates, lastEvent, memory,
                 evaluator, requests, observers>>

Exists(d) == status[d] \in {"enabled", "disabled"}

\* PUT /api/devices/{id} reads the device row.
PutReadDevice(r, d, enable) ==
  /\ requests[r].pc = "Idle"
  /\ Exists(d)
  /\ requests' = [requests EXCEPT ![r] =
       [NoRequest EXCEPT !.pc = IF enable THEN "PutSave" ELSE "PutReadAlerts",
                         !.device = d, !.enable = enable,
                         !.wasEnabled = (status[d] = "enabled")]]
  /\ UNCHANGED <<clock, database, memory, evaluator, observers>>

\* A device that is to be disabled: its active alert rows.
PutReadAlerts(r) ==
  /\ requests[r].pc = "PutReadAlerts"
  /\ requests' = [requests EXCEPT
       ![r].rows = [k \in Keys |-> LET row == alertStates[<<requests[r].device, k>>]
                                   IN  IF row.active THEN row ELSE NoRow],
       ![r].pc = "PutSave"]
  /\ UNCHANGED <<clock, database, memory, evaluator, observers>>

\* Mutant of PutClosed: only the rows' severity is reset.
PutNormal(q) ==
  [a \in Alerts |->
     IF a[1] = q.device /\ q.rows[a[2]].stored
     THEN Merge(alertStates[a], q.rows[a[2]], [q.rows[a[2]] EXCEPT !.severity = "normal"])
     ELSE alertStates[a]]

\* The alert table after the request has closed the rows it read.
PutClosed(q) ==
  [a \in Alerts |->
     IF a[1] = q.device /\ q.rows[a[2]].stored
     THEN Merge(alertStates[a], q.rows[a[2]],
                [q.rows[a[2]] EXCEPT !.active = FALSE, !.severity = "normal"])
     ELSE alertStates[a]]

\* A row the request must write is gone.  Of a device that keeps its Enabled
\* other columns may change, or none.
PutRowVanished(q) ==
  \/ \E k \in Keys : q.rows[k].stored /\ ~alertStates[<<q.device, k>>].stored
  \/ ~Exists(q.device) /\ q.enable # q.wasEnabled

PutSave(r) ==
  LET q == requests[r]
  IN  /\ q.pc = "PutSave"
      /\ ~PutRowVanished(q)
      /\ status' = IF Exists(q.device) /\ q.enable # q.wasEnabled
                   THEN [status EXCEPT ![q.device] = IF q.enable THEN "enabled" ELSE "disabled"]
                   ELSE status
      /\ alertStates' = PutClosed(q)
      /\ silenced' = silenced \cup Closed(alertStates, alertStates')
      /\ raced' = IF HasActive(alertStates', q.device) THEN raced ELSE raced \ {q.device}
      /\ requests' = [requests EXCEPT ![r] = [NoRequest EXCEPT !.pc = "Remove", !.device = q.device]]
      /\ UNCHANGED <<clock, alertSettings, mailSettings, lastEvent, memory, evaluator,
                     lastMail, forgotten, crashes>>

\* 500: the transaction is rolled back and RemoveDevice is never reached.
PutFails(r) ==
  LET q == requests[r]
  IN  /\ q.pc = "PutSave"
      /\ PutRowVanished(q) \/ ~Exists(q.device)
      /\ requests' = [requests EXCEPT ![r] = NoRequest]
      /\ UNCHANGED <<clock, database, memory, evaluator, observers>>

\* DELETE /api/devices/{id} reads the device row ...
DeleteReadDevice(r, d) ==
  /\ requests[r].pc = "Idle"
  /\ Exists(d)
  /\ requests' = [requests EXCEPT ![r] = [NoRequest EXCEPT !.pc = "DeleteAlerts", !.device = d]]
  /\ UNCHANGED <<clock, database, memory, evaluator, observers>>

\* ... deletes its alert rows at once (ExecuteDelete) ...
DeleteAlerts(r) ==
  LET d == requests[r].device
  IN  /\ requests[r].pc = "DeleteAlerts"
      /\ alertStates' = [a \in Alerts |-> IF a[1] = d THEN NoRow ELSE alertStates[a]]
      /\ silenced' = silenced \cup Closed(alertStates, alertStates')
      /\ forgotten' = forgotten \cup {a \in Alerts : a[1] = d /\ lastMail[a].type # "NONE"}
      /\ requests' = [requests EXCEPT ![r].pc = "DeleteSave"]
      /\ UNCHANGED <<clock, status, alertSettings, mailSettings, lastEvent, memory, evaluator,
                     lastMail, raced, crashes>>

\* ... and then the device; the history stays.
DeleteSave(r) ==
  LET d == requests[r].device
  IN  /\ requests[r].pc = "DeleteSave"
      /\ IF Exists(d)
         THEN /\ status' = [status EXCEPT ![d] = "deleted"]
              /\ requests' = [requests EXCEPT ![r].pc = "Remove"]
         ELSE /\ status' = status
              /\ requests' = [requests EXCEPT ![r] = NoRequest]
      /\ UNCHANGED <<clock, alertSettings, mailSettings, alertStates, lastEvent, memory, evaluator,
                     observers>>

\* monitoringService.RemoveDevice, last in PUT and in DELETE.  For the default
\* device it also drops what the poller publishes meanwhile (SnapshotStore).
RemoveDevice(r) ==
  /\ requests[r].pc = "Remove"
  /\ \E others \in SUBSET Devices :
       snapshots' = [d \in Devices |-> IF d = requests[r].device \/ d \in others
                                      THEN NoSnapshot ELSE snapshots[d]]
  /\ requests' = [requests EXCEPT ![r] = NoRequest]
  /\ UNCHANGED <<clock, database, polling, evaluator, observers>>

\* PUT /api/settings/alerts and /api/settings/email.
SaveAlertSettings(rules) ==
  /\ alertSettings' = rules
  /\ UNCHANGED <<clock, status, mailSettings, alertStates, lastEvent, memory, evaluator,
                 requests, observers>>

SaveMailSettings(rules) ==
  /\ mailSettings' = rules
  /\ UNCHANGED <<clock, status, alertSettings, alertStates, lastEvent, memory, evaluator,
                 requests, observers>>

Administrator ==
  \/ \E d \in Devices, enable \in BOOLEAN : CreateDevice(d, enable)
  \/ \E r \in Requests, d \in Devices, enable \in BOOLEAN : PutReadDevice(r, d, enable)
  \/ \E r \in Requests : PutReadAlerts(r)
  \/ \E r \in Requests : PutSave(r)
  \/ \E r \in Requests : PutFails(r)
  \/ \E r \in Requests, d \in Devices : DeleteReadDevice(r, d)
  \/ \E r \in Requests : DeleteAlerts(r)
  \/ \E r \in Requests : DeleteSave(r)
  \/ \E r \in Requests : RemoveDevice(r)
  \/ \E rules \in AlertRules : SaveAlertSettings(rules)
  \/ \E rules \in MailRules : SaveMailSettings(rules)

-----------------------------------------------------------------------------
(* The poller, the clock and crashes *)

\* The poller starts a round: it loads the enabled devices and drops the
\* snapshots of all others (SetActiveDevices).
StartPolling ==
  /\ polling = {}
  /\ polling' = {d \in Devices : status[d] = "enabled"}
  /\ snapshots' = [d \in Devices |-> IF d \in polling' THEN snapshots[d] ELSE NoSnapshot]
  /\ UNCHANGED <<clock, database, evaluator, requests, observers>>

\* One device of the round, enabled when the round began, answers ...
PollSucceeds(d, value) ==
  /\ d \in polling
  /\ polling' = polling \ {d}
  /\ snapshots' = [snapshots EXCEPT ![d] =
       [present |-> TRUE, connected |-> TRUE, fresh |-> TRUE, value |-> value]]
  /\ UNCHANGED <<clock, database, evaluator, requests, observers>>

\* ... or does not: the last snapshot stays, no longer connected; a device
\* whose configuration is unusable loses its readings.
PollFails(d) ==
  /\ d \in polling
  /\ polling' = polling \ {d}
  /\ \/ snapshots' = [snapshots EXCEPT ![d].present = TRUE, ![d].connected = FALSE]
     \/ snapshots' = [snapshots EXCEPT ![d] = Disconnected(TRUE)]
  /\ UNCHANGED <<clock, database, evaluator, requests, observers>>

\* A snapshot gets older than OfflineTimeoutSeconds, which does not change.
SnapshotAges(d) ==
  /\ snapshots[d].fresh
  /\ snapshots' = [snapshots EXCEPT ![d].fresh = FALSE]
  /\ UNCHANGED <<clock, database, polling, evaluator, requests, observers>>

\* Bounded by MaxClock.
TimePasses ==
  /\ clock < MaxClock
  /\ clock' = clock + 1
  /\ UNCHANGED <<database, memory, evaluator, requests, observers>>

\* Observer: the mail just sent whose LastNotificationUtc is still only in memory.
UnsavedMail ==
  {a \in {Current} : pc = "SaveRow" /\ job.row.lastNotification # job.read.lastNotification}

\* The process dies and is started again.  Bounded by MaxCrashes.
Crash ==
  /\ crashes < MaxCrashes
  /\ crashes' = crashes + 1
  /\ snapshots' = [d \in Devices |-> NoSnapshot]
  /\ polling' = {}
  /\ pc' = "Idle"
  /\ tick' = NoTick
  /\ job' = NoJob
  /\ requests' = [r \in Requests |-> NoRequest]
  /\ forgotten' = forgotten \cup UnsavedMail
  /\ UNCHANGED <<clock, database, lastMail, silenced, raced>>

Environment ==
  \/ StartPolling
  \/ \E d \in Devices : \E value \in [MetricKeys \cup InterfaceKeys -> Readings \cup {NoReading}] :
       PollSucceeds(d, value)
  \/ \E d \in Devices : PollFails(d)
  \/ \E d \in Devices : SnapshotAges(d)
  \/ TimePasses
  \/ Crash

-----------------------------------------------------------------------------
Init ==
  /\ clock = 0
  /\ status = [d \in Devices |-> "absent"]
  /\ alertSettings = AlertDefaults
  /\ mailSettings = MailDefaults
  /\ snapshots = [d \in Devices |-> NoSnapshot]
  /\ polling = {}
  /\ alertStates = [a \in Alerts |-> NoRow]
  /\ lastEvent = [a \in Alerts |-> NoEvent]
  /\ pc = "Idle"
  /\ tick = NoTick
  /\ job = NoJob
  /\ requests = [r \in Requests |-> NoRequest]
  /\ lastMail = [a \in Alerts |-> NoMail]
  /\ forgotten = {}
  /\ silenced = {}
  /\ raced = {}
  /\ crashes = 0

Next == Evaluator \/ Administrator \/ Environment

Spec == Init /\ [][Next]_vars

\* The evaluator is one loop whose awaits all return: its timer ticks, the
\* database answers and the mail server answers or fails.
FairSpec == Spec /\ WF_vars(Evaluator)
-----------------------------------------------------------------------------
(* Properties *)

EventRow == [type : EventTypes, value : Int, threshold : Int]
MailNote == [type : EventTypes, at : Int]
Statuses == {"absent", "enabled", "disabled", "deleted"}
Tick == [alerts : AlertRule, mail : MailRule, queue : SUBSET Devices,
         snapshots : [Devices -> Snapshot], now : Nat]
Job == [device : Devices, todo : SUBSET Keys, key : Keys, read : AlertRow, row : AlertRow,
        decision : Decisions, recorded : BOOLEAN]
Request == [pc : {"Idle", "PutReadAlerts", "PutSave", "DeleteAlerts", "DeleteSave", "Remove"},
            device : Devices, enable : BOOLEAN, wasEnabled : BOOLEAN, rows : [Keys -> AlertRow]]

\* The types of the variables.
TypeOK ==
  /\ clock \in Nat
  /\ status \in [Devices -> Statuses]
  /\ alertSettings \in AlertRule
  /\ mailSettings \in MailRule
  /\ snapshots \in [Devices -> Snapshot]
  /\ polling \subseteq Devices
  /\ alertStates \in [Alerts -> AlertRow]
  /\ lastEvent \in [Alerts -> EventRow]
  /\ pc \in {"Idle", "LoadMail", "LoadDevices", "LoadSnapshots", "NextDevice", "ReadRow",
             "RecordEvent", "Send", "SaveRow"}
  /\ tick \in Tick
  /\ job \in Job
  /\ requests \in [Requests -> Request]
  /\ lastMail \in [Alerts -> MailNote]
  /\ forgotten \subseteq Alerts
  /\ silenced \subseteq Alerts
  /\ raced \subseteq Devices
  /\ crashes \in Nat

\* The alert table and the history agree: an alert that is active was opened
\* in the history and the history has not closed it, whatever requests,
\* crashes and lost updates came between the evaluator's read and its save
\* (ProcessObservationAsync saves the row and its event in one transaction).
ActiveHasOpenEvent ==
  \A a \in Alerts : alertStates[a].active => lastEvent[a].type \in OpenEvents

\* The other way round: an alert the history shows as open is active, or it
\* was closed by one of the three things that close an alert without an
\* event (disabling its device, deleting its device, switching the rules off).
OpenEventIsAccounted ==
  \A a \in Alerts : lastEvent[a].type \in OpenEvents => alertStates[a].active \/ a \in silenced

\* A disabled device has no active alert (PUT /api/devices/{id} closes them),
\* unless the evaluator opened one for it after the request had read the
\* active rows, from a device list loaded before the device was disabled.
DisabledDeviceIsQuiet ==
  \A d \in Devices : status[d] = "disabled" /\ d \notin raced => ~HasActive(alertStates, d)

\* The history of one alert is a sequence of OPENED (ESCALATED | REMINDER)*
\* RECOVERED: nothing is escalated, repeated or recovered that is not open,
\* and nothing is opened twice unless it was silently closed in between.
HistoryIsOrdered ==
  [][RecordEvent =>
       IF job.decision = "Opened"
       THEN lastEvent[Current].type \in OpenEvents => Current \in silenced
       ELSE lastEvent[Current].type \in OpenEvents]_vars

\* The two tables, seen as an AlertLifecycle.
Lifecycle == INSTANCE AlertLifecycle WITH
  active <- {a \in Alerts : alertStates[a].active},
  history <- [a \in Alerts |-> lastEvent[a].type]

\* The engine, with all its interleavings, implements the lifecycle of an
\* alert: no stale read, lost update or crash makes an alert active without
\* its event, or lets the history recover or repeat what it does not show.
ImplementsLifecycle == Lifecycle!Spec

\* A mail is sent about what the history already shows: the event of a mail
\* is stored before SendAsync is called, so a crash loses mails, not events.
MailFollowsItsEvent ==
  [][SendSucceeds => lastEvent[Current].type = EventType[job.decision]]_vars

\* No reminder before the cooldown has elapsed since the last mail about the
\* alert, unless that mail's LastNotificationUtc was lost: with the process
\* between SendAsync and SaveChanges, or with the row, which DELETE removes
\* before the device (an alert opened in between starts without it).
RemindersAreSpaced ==
  [][SendSucceeds /\ job.decision = "Reminder" =>
       \/ lastMail[Current].type = "NONE"
       \/ tick.now - lastMail[Current].at >= tick.mail.cooldown
       \/ Current \in forgotten]_vars

\* Under the settings `rules`, an enabled device whose present snapshot gives
\* observation k a severity of `severities`.
Shows(d, k, rules, severities) ==
  /\ alertSettings = rules
  /\ status[d] = "enabled"
  /\ snapshots[d].present
  /\ k \in Observed(snapshots[d], rules)
  /\ Severity(snapshots[d], k, rules) \in severities

\* What stays above a threshold is in the end an active alert, and stays one,
\* whatever rows requests delete under the evaluator (AbortTick) and however
\* often mails fail.  The settings must have come to rest: they are loaded
\* before the snapshots, and a tick may pair old ones with a later reading.
BreachIsRaised ==
  \A d \in Devices, k \in Keys, rules \in AlertRules :
    <>[]Shows(d, k, rules, {"warning", "critical"}) => <>[]alertStates[<<d, k>>].active

\* What stays normal is in the end not an active alert, and stays so.
RecoveryIsNoticed ==
  \A d \in Devices, k \in Keys, rules \in AlertRules :
    <>[]Shows(d, k, rules, {"normal"}) => <>[]~alertStates[<<d, k>>].active

\* "CPU usage returned to normal at {value}%": the value a RECOVERED event of
\* a metric reports is below the threshold it reports.
RecoveredIsBelowThreshold ==
  \A a \in Alerts :
    lastEvent[a].type = "RECOVERED" /\ a[2] # DeviceKey => lastEvent[a].value < lastEvent[a].threshold
=============================================================================
