# FortiScope in TLA+

FortiScope polls FortiGate firewalls over SNMPv3, keeps the latest snapshot of each in memory,
raises alerts from the snapshots, mails about them, stores samples in SQLite and shows all of it
on a dashboard. This directory models the parts of it whose interleavings are hard to test,
checks them with TLC on small instances and proves the central properties with TLAPS for every
value of the constants.

## Inventory

| Component | State | Operations | Interacts with |
|---|---|---|---|
| Alert evaluator (`Services/AlertNotificationBackgroundService.cs`, with `AlertNotificationPolicy`, `AlertEventFactory`, `InterfaceTrafficAlertPolicy`) | tables `AlertStates`, `AlertEvents`; the locals of a tick across its awaits | a tick every 5 s: load settings, devices, snapshots; per observation read a row, decide, save the event, mail, save the row | reads the snapshot store and the settings; the device API writes the same rows |
| Device API (`Program.cs`) | table `Devices`, `AlertStates` | POST, PUT, DELETE; each several database calls | closes or deletes alert rows under the evaluator; `RemoveDevice` on the snapshot store |
| Settings API (`Program.cs`, validators) | one row each in `AlertSettings`, `EmailSettings` | GET, PUT: validate, read, assign, save | read by the evaluator and by `SendAsync` |
| Snapshot store and poller (`SnmpMonitoringService`, `SnmpMonitoringBackgroundService`) | `_currentByDevice`, `_previousCounters`, `_current`, `_defaultDeviceId` | `SetActiveDevices`, `RemoveDevice`, `PollAsync`, getters; a round every 2 s | called by the poller's thread and by request threads |
| SNMP session (`QueryDevice`, `QueryInterfaces`, ...) | none | one query of one device | the network |
| Rate calculator (`InterfaceRateCalculator`) | none | a rate from two counter samples | poller |
| Email delivery (`EmailNotificationService`) | none | `SendAsync`: read the settings again, SMTP | evaluator |
| Metric persistence (`MetricPersistenceBackgroundService`, `MetricPersistencePolicy`) | `_lastSnapshotKeys`, `_nextRetentionUtc`, sample tables | a tick: store new snapshots once, delete old samples and events | snapshot store, database |
| History queries (`HistoryService`, `HistoryRangeParser`, `AlertHistoryQuery`) | none | read and down-sample | database |
| Dashboard: device, refresh, charts (`wwwroot/js/dashboard.js`) | selected device, request versions, `refreshInProgress`, histories | timers, fetches, selection, edits | HTTP API |
| Dashboard: dialogs | which are open, their target, form and buttons, `currentAlertSettings` | open, close, type, submit, answers | HTTP API |
| Dashboard: fleet | `availableDevices`, summaries and details, what overview, alerts and cards show | `loadDevices`, rendering | HTTP API; judges snapshots by rules of its own |
| Dashboard: tables | the alert history and its filter, the top interfaces | timers, filters, answers | HTTP API |
| Dashboard: live traffic | `liveHistory`, the chart's scale | append a point, draw | snapshots of the poller |
| Startup, schema, pages | none | migrate and seed | gives the initial state |

Hard behaviours: five threads of control (evaluator, poller, persistence, request threads, the
browser's callbacks) share tables and dictionaries without a lock; every database call and every
mail is an `await` at which anything may happen; a crash loses memory and keeps SQLite; SMTP and
SNMP fail at will; Entity Framework writes only the columns that changed, so that two writers of
one row merge silently. `PROJECT.json` lists each hazard at its line.

What makes the components correct:

- evaluator: an alert that is active is open in the history and the other way round; the history
  of an alert is `OPENED (ESCALATED | REMINDER)* RECOVERED`; a mail follows its event; reminders
  keep the cooldown; a lasting breach is raised, a lasting recovery is noticed;
- device API: a disabled device has no active alert; a deleted device has no snapshot in the end;
- settings API: what is in force is something the validator accepts;
- snapshot store: the snapshots are those of the enabled devices once things come to rest;
- persistence: a snapshot is stored once, also across a restart; retention spares what is young;
- rate calculator: a rate is never of more octets than have passed;
- dashboard: what is shown belongs to the selected device; refreshing never stops; a dialog acts on
  the device it shows, and no answer undoes what the user has typed since; counts, alerts and cards
  agree with each other and with the server's judgement; a table shows what its filter says and
  becomes current; the live chart has each poll once, in order.

## Modules

| Module | Models |
|---|---|
| `AlertPolicy` | the pure rules: severity of a reading, decision, mail filter, event names |
| `AlertLifecycle` | abstract: the set of active alerts and the last event of each |
| `AlertEngine` | the evaluator, the requests on devices, the settings, the poller as the evaluator sees it, crashes |
| `SettingsStore` | the two settings tables and any number of PUTs against them |
| `SnapshotStore` | `SnmpMonitoringService`'s fields, the poller's thread and the request threads |
| `MetricPersistence` | the persistence service's ticks and retention against the sample tables |
| `Dashboard` | device list, selection, refreshes, charts and edits of `dashboard.js`, in one browser, against the device table |
| `Dialogs` | its five dialogs, their requests and answers |
| `FleetHealth` | pure: how the page judges a device, and how the server does |
| `FleetView` | `loadDevices` in all its requests, and the overview, alerts and cards made of the answers |
| `PageTables` | the alert history under its filter, and the top interfaces |
| `Traffic` | the octet counters of an interface, the rate of two samples, the points and the scale of the live chart |
| `MCAlertEngine`, `MCSettingsStore`, `MCSnapshotStore`, `MCMetricPersistence`, `MCDashboard`, `MCPage` | constants for TLC; `MCPage` instantiates the last four parts of the dashboard |
| `AlertEngineProofs`, `SettingsStoreProofs`, `SnapshotStoreProofs`, `MetricPersistenceProofs`, `DashboardProofs`, `DialogsProofs`, `FleetProofs`, `PageProofs` | theorems about these; `PageProofs` is about `PageTables` and `Traffic` |

`AlertEngine` sees the settings as rules an administrator switches between and the snapshots as
something the poller and `RemoveDevice` replace at once; `SettingsStore` and `SnapshotStore` open
these up. They share no state with it in the models: the evaluator only reads what they keep, one
row or one dictionary entry at a time. `MetricPersistence` and the modules of the dashboard only
read what the others write, and have a reduced form of it of their own: snapshots that polls
replace, a device table that requests change, counters that traffic moves. `FleetHealth` extends
`AlertPolicy`, so that page and server are compared by the rules that the alert engine runs on.

### AlertEngine and the code

`pc`, `tick` and `job` are the evaluator: `tick` holds what `EvaluateAsync` has loaded, `job` the
observation in `ProcessObservationAsync` (the row as read, the tracked row, the decision). One
action per await: `LoadAlertSettings`, `LoadMailSettings`, `LoadDevices`, `LoadSnapshots`,
`NextDevice`, `ReadRow`, `RecordEvent` (the `SaveChanges` that stores the event and the row in
one transaction), `SendSucceeds`/`SendFails`, `SaveRow`, and `AbortTick` when a save fails because
the row is gone. Everything between two awaits is computed in the action of the first
(`Decide`, `Tracked`, `MustRecord`, `MustNotify` name the parts).

`requests` holds the HTTP requests in flight, each with what it has read. PUT is `PutReadDevice`,
`PutReadAlerts` (only to disable), `PutSave` or `PutFails`, `RemoveDevice`; DELETE is
`DeleteReadDevice`, `DeleteAlerts`, `DeleteSave`, `RemoveDevice`; POST is `CreateDevice`.

`snapshots` and `polling` are the poller. A device in `polling` is published by `PollSucceeds` or
`PollFails` even when a request has removed it meanwhile, as the code does.

`Merge` is Entity Framework's UPDATE: of a row that was read and changed, only the columns that
differ from the values read are written. `RowVanished` and `PutRowVanished` are its
`DbUpdateConcurrencyException`. This is library code, modelled from how the source relies on it
(tracking queries in `ProcessObservationAsync` and PUT, no concurrency tokens).

Observers, which no guard reads except to describe the race in `raced`: `lastMail` (last mail
handed to SMTP), `forgotten` (a mail whose `LastNotificationUtc` was lost: before it was saved, or
with its row), `silenced` (closed without an event), `raced` (an alert opened while its device was being
disabled), `crashes`. `silenced` grows in three places only: PUT disabling a device, DELETE, and
`SaveRow` when the rules are off; any other closing without an event violates
`OpenEventIsAccounted`.

Abstractions: one pair of thresholds for all keys (the code has three pairs, chosen by the key);
readings and thresholds are integers; a snapshot's age is one bit, `fresh`, and
`OfflineTimeoutSeconds` does not change; an interface that the traffic rule cannot judge has
`NoReading`; the texts, `LastValue`, `FirstTriggeredUtc` and `LastTriggeredUtc` are left out,
except that `UpdateIssued` says whether they make the last save write at all. `lastEvent` is the
last event ever written; retention is not part of this module.

### SettingsStore and the code

A PUT is `ReadSettings` (validate, read the row with the lowest id, assign every column) and
`SaveSettings` (the UPDATE of the columns that differ from those read, or an INSERT if none was
found), or `GiveUp` (the caller goes away before the save). A request that is not accepted is
answered with 400 and is no step. `InRange` and `Consistent` split the validators into the bounds on single values
and what several must have in common, because only the first survives merging. Startup
(`Program.cs:33-53`) may fail at either seed and goes on, so a table may be empty. A password is a
number, a new one for each encryption; `lastPassword` is an observer. The columns left out (names,
SSL, mail filters) behave like `host`; `from` and `to` stand for valid addresses.

### SnapshotStore and the code

A snapshot is three addresses: the one it is published under (`DeviceIp`), the one its readings
were taken from and the one both samples of its rates were. Each thread runs its call step by step,
one access to a dictionary or a volatile field per action: `FindStale`, `DropSnapshot`,
`DropCounters`, `SetDefault`, `FindDefault`, `SetCurrent` are `SetActiveDevices`; `RemoveSnapshot`,
`RemoveCounters`, `CheckDefault`, `ListKeys` are `RemoveDevice`; `Publish`, `ReadDefault`,
`ClaimDefault`, `WriteCurrent` are `SetDeviceSnapshot`. The poller is `LoadDevices`, then for each
device a query that ends in `ReadCounters`/`WriteCounters`, `AnswerWithoutRate`, `Fail` or `Skip`,
and `FinishRound`. `DropCounters` and `RemoveCounters` take several dictionary entries in one step:
no reader compares the counters of two interfaces or devices. `_current` is represented by the
device whose snapshot it is. The observer `raced` holds the devices of which a PUT and a round have
overlapped: the round had loaded the old address and not yet polled it when the PUT changed it, or
it loaded the device between a save and the end of its removals. No guard reads it.

### MetricPersistence and the code

A tick of `PersistSafelyAsync` is `TakeSnapshots` (`GetAllCurrent` copies the dictionary), for each
device `SkipDevice` (the key is the one stored last) or `FindSample` (`AnyAsync`) and `SaveSample`
(`SaveChanges`, one transaction, and the key that is remembered when it returns), then
`CheckRetention`, `DeleteInterfaceSamples`, `DeleteSamples`, `DeleteEvents`. `Fail` is an exception
of any of these calls: `todo` is dropped, so the other devices and the retention wait for the next
tick. The poller publishes and drops snapshots at any moment, the evaluator adds events, a crash
empties the memory. A snapshot's error is part of its key only while it is offline (`Key`).

Two readings of `DateTime.UtcNow` differ, so a reading advances the clock. A sample for the same
device and time therefore never exists yet (the branch `Known` of `FindSample` is there because the
code has it). A device has one address and one interface. The observer `outages` counts how often
an offline snapshot with a new key was published; the first failed poll after a restart counts anew.
The observer `lastSaved` is the key and the time of the last sample saved of a device since the start
of the process. `HistoryCatchesUp` uses it for its one excuse: a snapshot may be missing from the
table only if its own sample has been saved and is older than the retention.

### Dashboard and the code

`page` is the script's variables as a record, and `Reset`, `ShowRange`, `StartRefresh`,
`EndRefresh`, `Updated`, `Select` say what `resetDashboardForDevice`, `selectHistoryRange`,
`refreshDashboard` (up to its request, and its `finally`), `updateDashboard` and the end of
`loadDevices` do to it. An action is one run of a callback up to its next `await` and composes
these in the code's order: `SelectDevice` is `StartRefresh(Reset(...), TRUE)`. Of a request version
the script only ever asks whether it is the latest, so a request in flight holds `current`, which
`Outdated` takes from it. An abort may come after the answer has been read, so an outdated refresh
may still succeed.

`calls` are the handlers around `loadDevices`: the request of an edit (`Commit`, `Refuse`,
`LoseEdit`), the server's reading of the table (`AnswerList`), the assignment of
`availableDevices` (`TakeList`), the selection some awaits later (`UseList`) and what the handler
does next (`Continue`: reset and refresh, or nothing). `LoadFails` goes on as the code does, which
catches errors inside `loadDevices`. A device's state is `absent`, `enabled` or `disabled`, in the
server's table and in a list. What the lists and dialogs look like meanwhile is left to `FleetView`
and `Dialogs`.

Observers: `carried` holds the devices deselected by a list since the last reset, whose display
nothing has cleared; `unfinished` says that a load failed between list and selection. The dialogs
are opened and submitted in one step; a refresh that comes while the list loads needs a free call;
the first enabled device by name is any enabled one; charts
are the device and the range they are of. A chart that shows the live history is `LiveChart`.

### Dialogs and the code

`windows` are the script's variables and what the page shows of them: the dialogs without the class
`hidden` (`open`), `modal-open` of the body, `editingDeviceId` and `deletingDeviceId` (`target`),
the name in the dialog (`named`), disabled buttons, the contents of the two settings forms, and
`currentAlertSettings`. `OpenAdd`, `OpenOnDevice`, `OpenForm`, `Close` and `Escape` are the `open...`
and `close...` functions, which end in `syncModalBodyState` (`Show`). A submit is up to its request
(`SubmitForm`, `SubmitOnDevice`, `SubmitDevice`, `SendTestEmail`); `Serve` is the server; what comes
after the `await` is `TakeSettings`, `TakeTestEmail`, `TakeEdit`, `TakeCreated`, then `Reloaded` once
`loadDevices` and the refresh have ended; `Fail` is the `catch` and the `finally`. The load of the
alert settings at the start of the page is a request of its own, for which no dialog waits.

A form's contents are a value, the bodies of the other dialogs do not matter. Observers: `typed`
holds the forms typed into while nothing of theirs was in flight, `rival` marks a load and a save of
the alert settings that were in flight together, `doubt` remembers the mark of the last answer. When
two such requests overlap, the one answered last wins, whichever the server served last:
`SettingsInForce` speaks of all other cases.

### FleetHealth, FleetView and the code

`FleetHealth` has the script's rules under their names (`getMetricSeverity`,
`getInterfaceSeverity`, `isDeviceOnline`, `getDeviceHealth`, `buildFleetAlerts`, the counts of
`renderFleetOverview`, the badges of `renderDevices`) and, in `Observations`, what `EvaluateAsync`
makes of the same snapshot. The two are written independently, as in the code; that they agree is
`JudgesLikeTheServer`, not a definition. Interface fields are kept as far as a rule asks for them.

A call of `loadDevices` is `LoadDevices` (both requests are sent), `AnswerDevices`,
`AnswerSummaries` or `LoseSummaries` (caught on the spot), `TakeList` (`availableDevices`),
`AskDetails`, one `AnswerDetail` or `LoseDetail` for each enabled device, `UseDetails` (the details
are merged, everything is rendered) or `LoadFails`. Meanwhile devices are edited and polled, time
passes, settings change and a device is selected.

What is rendered is kept as a `View`: what it was rendered from (list, summaries, settings, time),
since overview, alerts and cards are functions of that. `apart` notes that the cards were rendered
alone, as `selectDevice` does. `devices` and `snapshots` are a device table and a snapshot store in
reduced form. Browser and server read one clock. Settings change by a save, which renders; a
`loadAlertSettings` that brings other settings without a render (the alert dialog, the start of the
page) is left out.

### PageTables and the code

A call of `loadAlertHistory` or `loadTopInterfaces` is its start, `Serve...` and `Take...` or
`...IsLost`. Of `alertHistoryRequestVersion` the script only asks whether it is the latest
(`latest`); `loadTopInterfaces` has none. An answer is the server's `version` at the time it is
served, and the filter it was asked for. The filter is by device; `updateAlertHistoryDeviceOptions`
builds its options anew when the device list has been loaded and lets it fall back to all devices,
which `fellBack` notes. A call of the timer's while the last one is still unanswered counts as an
action of the user: without a bound on these, a timer faster than the server would put off every
answer.

### Traffic and the code

One interface: the device counts octets modulo `Wrap` and may restart, `WalkIn` and `WalkOut` are
the last two columns that `QueryInterfaces` walks, `TakeSample` is `CreateInterfaceSnapshot` with
`Calculate` and the store of the sample, `LackSample` the same without both counters,
`DoesNotAnswer` a failed poll. `Fetch`, `LoseAnswer` and `AppendHistory` are the page's refresh
and `appendHistory`. `now` of a sample is any time: a server's clock may be set back. `NiceMaximum`
and `ChartMaximum` are `getNiceMaximum` and `getChartScale` over rational rates, a pair of octets and
seconds, so that the comparisons are exact. Observers: `passed`, the octets that have really passed,
and the number `poll` of a poll.

### MCPage

`Dialogs`, `FleetView`, `PageTables` and `Traffic` share no variable: a behaviour of the page is one
of each side by side, and a property of one part holds of the page if it holds of the part. So
`PageNext` lets one part run, chosen at the start, and keeps the others in an initial state;
`PageFairSpec` has the fairness of each part's own specification. `FleetSettlesInPlay` and
`TablesHealInPlay` are `FleetSettles` and `TablesHeal` of the part in play.

## Runs

Deadlock is checked everywhere except in the runs of the dashboard: a page on which nothing is
selected and whose user does nothing more does stop. Type invariants are proved (see Proofs) and not
run again.

| Run | Instance | Shows |
|---|---|---|
| `history` | one device, CPU and DEVICE, readings 50/75/95 against 70/85, rules on and off, one crash | `ActiveHasOpenEvent`, `OpenEventIsAccounted`, `HistoryIsOrdered`: table and history agree although the settings change in mid-tick |
| `mail` | clock 0..1, cooldown 1, mails on and off, one request, one crash | `MailFollowsItsEvent`, `RemindersAreSpaced`, also when rows are deleted and alerts closed under the evaluator |
| `requests` | two requests, one crash, fairness | `DisabledDeviceIsQuiet`, `ImplementsLifecycle`; `BreachIsRaised`: what stays above a threshold becomes and stays an active alert, although rows are deleted and ticks aborted |
| `live` | an interface and DEVICE, one request, fairness | `RecoveryIsNoticed`: also of an alert that is observed only while its interface is eligible |
| `recovered` | a metric and DEVICE | violation of `RecoveredIsBelowThreshold`, see Findings |
| `settings` | two symmetric requests, all combinations of valid and invalid bodies, seeded or not | `StoredInRange`, `PasswordIsLastGiven`: a blank password never undoes one saved meanwhile |
| `settings_consistent` | two requests on the alert settings | violation of `InForceIsConsistent`, see Findings |
| `store` | two devices, two addresses, one request, two changes, fairness | `StoreIsOfTheRound`, `ReadingsAreItsOwn`; `Converges`: snapshots, default device and current snapshot are right once changes have ended |
| `persistence` | two devices, clock to 3, retention 2 and 3, one failed call, one crash, fairness | `InterfaceSamplesHaveADevice`, `OutageIsStoredOnce`; `OldRowsGo`, although a retention fails or dies half-way; `HistoryCatchesUp`: what a failed or killed tick has left out, of either device, is stored later, and only a sample past its own retention may be missing |
| `edits` | two devices, two calls in flight, two user actions, one failure | `RefreshFlagIsRight`, `ShowsTheSelectedDevice`, `SelectionIsListed` |
| `goes_on` | two devices, two ranges, one interface, one call, two user actions, one failure, fairness | `ChartsShowTheRange`, `RefreshingGoesOn`, `ListHeals` |
| `page` | the four parts of `MCPage`, one at a time, fairness | dialogs: `DialogsFitThePage`, `DialogShowsItsDevice`, `OneRequestAtATime`, `SettingsInForce`, `TypedTextSurvives`, `ButtonsComeBack`; fleet: `OverviewFitsTheAlerts`, `CardsFitTheOverview`, `JudgesLikeTheServer`, `FleetSettlesInPlay`; tables: `HistoryFitsTheFilter`, `HistoryNeverGoesBack`, `TablesHealInPlay`; traffic: `RateIsNeverTooHigh`, `LivePointsInOrder`, `ChartContainsEveryPoint` |

### Bounds

One device is enough for the alert engine: devices share nothing but the order of a tick, and a tick
is already interrupted, aborted and restarted at every step; the theorems below do not bound them.
In `requests` two of them allow PUT against PUT and PUT against DELETE, with the evaluator as the
third writer of a row. Three readings give every transition of severity. `MaxClock` 1 with a cooldown
of 1 has both sides of the comparison. `MaxCrashes` 1 puts a crash between any two steps; a crash
resets the memory, so that a second adds no new kind of state.

`settings` has every pair of requests on one row; a third adds only repetitions of the same merge.
In `store` two addresses suffice for data of the wrong one, and two devices for the default device
to matter; a change is a POST, PUT or DELETE, and two of them can be a PUT and the PUT back, around
one poll. Its initial states are those in which device 1, if there is one, has the first address
(`FairSpecUpToNames`): the addresses are interchangeable, and TLC's symmetry is not sound for
liveness. Requests that overlap each other are left to the theorems, which do not bound them.

In `persistence` a second device is what a failure leaves out. The clock runs past both periods of
retention, so that there are rows on both sides of both cutoffs. `MaxClock` bounds its own steps;
the readings of a tick advance it further. At these bounds `HistoryCatchesUp` is judged where the
code could go wrong and its excuse is needed as well: it is violated when keys are remembered too
early only from the clock's third unit on, only after a crash, or only once the other device has been
stored, and also, by the code as it is, when the excuse is left out. One failure and one crash fall between any two steps;
after either the next tick starts from the same kind of state.

In `edits` two calls at once let a list overtake another, and two devices are enough for a display of
the wrong one. Every pair of user actions is in `edits`, and with two ranges, a change of device and
one edit at a time in `goes_on`, beside startup and an unlimited number of refreshes. `ListEvery` is
5 in the code and 2 here: the counter only decides which refresh loads the list.

In `page`, the dialogs have two devices, two contents of a form, three requests in flight, three
actions of the user and one failure: enough to open a dialog, submit it and open it for another
device while the first answer is to come; the theorems do not bound what is done there. The fleet has two devices, one calm and one with
readings in the upper ranges, alert rules on or off, any initial table and snapshots (up to the
names of the devices, `UpToNames`), one load at a time and one edit, poll or change of settings
between any two of its requests; the time passes a timeout of 0. Two loads at once and longer
sequences are left to the theorems, which bound neither. The tables have two calls in flight, one
listed device, one event, two actions and one failure. In `Traffic`, counters wrap at 2 and two
octets pass, one more than a counter can hold; three polls make two rates, at most two of which stay
on the chart. `Unit` is fine enough that the slowest of these rates is at least one unit, and
`Magnitudes` are the powers of ten from there to the fastest.

### Fairness

In `AlertEngine`, `FairSpec` assumes weak fairness of `Evaluator` only: its loop runs for the life of
the process, catches every exception (`EvaluateSafelyAsync`), and each of its awaits returns. This
includes the assumption that `SmtpClient.SendMailAsync` comes back; a mail server that never
answers would stop the evaluator. Nothing is assumed of requests, poller or administrator: the
liveness properties say what follows if snapshot and settings stay as they are.
In `SnapshotStore` it assumes weak fairness of `Poll`: the poller's loop catches every exception,
a query ends in an answer or a timeout, and the list of devices can be read sooner or later. That
requests end is a premise of `Converges`, not an assumption.
In `MetricPersistence` it assumes weak fairness of `Service`: the timer ticks for the life of the
process and database calls return; how often they fail is bounded. In `Dashboard` it assumes weak
fairness of `Tick` (`setInterval`), of some refresh being answered and of some call going on: a
fetch is answered, aborted or fails. Nothing is assumed of the user, and `RefreshingGoesOn` has
the selection as a premise.
In the parts of `MCPage` it assumes the same: of each request of a dialog that it is answered and
its promise taken up (`Answer`), of each call of `loadDevices` that it goes on and of the next that it
comes (`GoOnLoading`: every fifth refresh of the selected device loads the list), of both tables that
their timers go off and each request proceeds. `Traffic` has only safety properties and assumes
nothing.

## Proofs

What is proved holds for every value of the constants that the assumptions of the module admit:
any number of devices, requests, readings and bounds. Each proof module has the same shape: types,
an inductive invariant, one lemma per action or function, a temporal theorem at the end.

`AlertEngineProofs` assumes that there is a device, that `DEVICE`, the metric keys and the interface
keys are distinct, that readings are natural numbers and settings are of their type:

- `TypeCorrect`: `Spec => []TypeOK`;
- `Invariance`: `Spec => []IInv`, from which `ActiveAlertsAreInTheHistory`,
  `OpenHistoryIsAccounted`, `HistoryOrder` and `MailsHaveEvents` follow;
- `Refinement`: `Spec => ImplementsLifecycle`;
- `DisabledDevicesAreQuiet` (`DisabledDeviceIsQuiet`) and `RemindersKeepTheCooldown`
  (`RemindersAreSpaced`);
- `EventsFitTheirThreshold`: the value an event about a metric or an interface reports is on the
  right side of the threshold it reports, but for the recovery of a device that is offline or lacks
  the reading. With the counterexample of `recovered` this settles when the history can be trusted;
- `RecoveryFollowsTicks` (`RecoveryIsNoticed`) and `BreachFollowsTicks` (`BreachIsRaised`), see
  Liveness below.

`ActiveHasOpenEvent` and `OpenEventIsAccounted` are not inductive: what `RecordEvent` and
`SaveRow` write was computed from a row read some steps earlier. `IInv` adds `EvaluatorTracks`,
what the job in work knows of the tables: a row read as active is still open in the history (only
the evaluator writes history), a row read as inactive is still inactive (only the evaluator
activates), the decision fits the row, and a recovery that was not recorded is a suppressed one;
and `SilencedIsInactive`. The argument rests on two lemmas: requests only ever deactivate rows
(`RequestsOnlyClose`), and so does the last save of an observation (`SaveRowOnlyCloses`).

For disabled devices `QuietInv` adds what a PUT in flight knows: all rows of the device that are
active now are among those it has read (`RequestsSeeActive`), unless the evaluator has opened one
since, which is what `raced` records. For reminders `MailInv` says where the time of the last mail
is: in the row (`TimesKept`), in the hands of the evaluator (`JobKnowsTime`) or gone with the row,
which is what `forgotten` records; and a reminder was due when it was decided. For the events,
`DecisionFollows` says that what is about to be recorded follows from what the tick has loaded.

`SettingsStoreProofs` proves for any bodies and any number of requests:

- `SettingsTypes` and `SettingsInRange` (`Spec => []StoredInRange`). `RangeInv` adds what the
  requests in flight hold: the row read and the row to save are in bounds, too, so that whichever
  columns `Merge` takes from which of three rows in bounds, the result is in bounds (`MergeColumns`);
- `PasswordIsKept` (`PasswordIsLastGiven`). `PasswordInv` adds that a row to be saved holds either
  the password read, and then the column is not written, or one that was given to it;
- `SerialRequestsAreConsistent`: if no two requests are between their read and their save of the
  same table, the settings in force are always consistent (`SerialInv`: what was read is still
  there, so that `Merge` gives what the validator has accepted, `MergeIsNew`). The violation that
  `settings_consistent` finds takes two requests that overlap, and nothing else does it.

`SnapshotStoreProofs` proves for any devices, addresses and requests, from the assumptions that ids
are positive, no address is `None` and the poller is not a request:

- `StoreTypes` (`TypeOK`) and `StoreFollowsTheRound` (`StoreIsOfTheRound`), both from
  `RoundInvariance`: `RoundInv` adds that the devices still to poll are of the round, and, while
  the poller is in `SetActiveDevices`, that what it has not looked at yet is in `stale`. Requests
  only ever remove (`RequestOnlyRemoves`), so they cannot break it;
- `ReadingsStayApart` (`ReadingsAreItsOwn`). `OwnInv` says for each device that is not in `raced`
  that snapshot, counters and the sample and answer in the poller's hands are of one address,
  except between the save of a PUT and its `RemoveSnapshot` or `RemoveCounters`;
- `RoundsSettleTheStore` (`Converges`), see Liveness below.

That `CHOOSE` finds a least device (`LeastElement`) rests on the well-foundedness of `<` on the
naturals, here and in `DashboardProofs`.

`MetricPersistenceProofs` proves for any devices and periods:

- `PersistenceTypes` and `InterfaceRowsHaveADevice`. The latter is the order of the deletions:
  `RowsInv` adds that between `DeleteInterfaceSamples` and `DeleteSamples` no interface sample is
  older than the cutoff that the second one uses (`YoungInterfaces`), so that the deletion of
  device samples cannot orphan any;
- `OutagesAreStoredOnce` (`OutageIsStoredOnce`). `OutageInv` adds to the rows stored those that may
  still be: of the snapshot shown, and of the one the tick has taken, which the one shown follows.
  All of them have been counted in `outages`. A tick keeps the sum because an outage between two
  keys is one before or one after any key in between (`CountTriangle`);
- `RememberedKeysAreStored`: the key remembered of a device is that of the sample saved last, which
  is in the table until it is itself older than the retention, so that the test that skips a snapshot
  (`lastKeys`) never skips one that was not stored. `RememberInv` adds what
  the tick holds between `FindSample` and `SaveSample`, and that the times of samples lie in the past;
- `RetentionsAreExact`: a deletion takes nothing that is younger than its period, and the next
  retention is scheduled only when nothing older than the cutoff is left (`LeftInv`: what each
  statement leaves, and that what is saved between two of them is young);
- `TicksCatchUp` (`HistoryCatchesUp`) and `DueRetentionsDelete` (`OldRowsGo`), see Liveness below.

`DashboardProofs` proves `DashboardTypes`, `OneRefreshAtATime` (`RefreshFlagIsRight`),
`DisplayFollowsSelection` (`ShowsTheSelectedDevice`), `SelectionStaysListed` (`SelectionIsListed`)
and `ChartsFollowTheRange` (`ChartsShowTheRange`) for any devices, ranges, interfaces and number of
calls. `Good` states the first three of a page; each of the script's functions keeps it and `Reset`
establishes it from the types alone (`ResetIsGood`), so an action is good because it is composed of
these. That `SelectionIsListed` is kept needs only that no function but `Select` and `TakeList`
touches list and selection (`FunctionsKeepSelection`). For the ranges, `RangesFit` adds that a chart
of another range is about to be replaced, by an answer that is still wanted. `RefreshingFollowsTheTimer`
(`RefreshingGoesOn`) is under Liveness below.

`DialogsProofs` proves for any devices, values of the forms and number of requests `DialogsTypes`,
`DialogsFit` (`DialogsFitThePage`) and, each by an invariant of its own:

- `DialogsShowTheirDevice` (`DialogShowsItsDevice`, `WindowsInv`);
- `OneRequest` (`OneRequestAtATime`). `ButtonsInv` relates each button to the requests in flight;
- `SettingsAreInForce` (`SettingsInForce`). `SettingsInv`: a request that no save has overlapped
  and that has been served carries what is stored (`UnrivaledInv`);
- `TypedTextStays` (`TypedTextSurvives`). `TypedInv`: all that is in flight for a form that has been
  typed into is a save of what it shows;
- `ButtonsFollowAnswers` (`ButtonsComeBack`), see Liveness below.

`FleetProofs` assumes that the devices are finitely many and that settings and readings are of their
types. It proves `FleetTypes`, `PageJudgesLikeTheServer` (`JudgesLikeTheServer`), `OverviewFits`
(`OverviewFitsTheAlerts`) and `CardsFit` (`CardsFitTheOverview`). The second and third are facts
about the rules alone: that two functions written apart agree for every device. `FleetInv` says
that overview and cards are of one moment until a device is selected.

`PageProofs` proves of the tables `TablesTypes`, `HistoryFits` (`HistoryFitsTheFilter`) and
`HistoryGoesOn` (`HistoryNeverGoesBack`): at most one call is the latest, it asks for the filter
chosen, and its answer is not older than what is shown (`TablesInv`). Of the traffic it proves
`TrafficTypes`, `RatesFit` (`RateIsNeverTooHigh`), where `DeviceInv` says that as far as a counter
has grown, octets have passed (`NotTooLow`), and `PointsInOrder` (`LivePointsInOrder`, `ShownInv`).
`ChartContainsThePoints` (`ChartContainsEveryPoint`) is about the scale: the four choices in it find
something. The highest of the rates exists since a chart has finitely many points, the greatest
magnitude below it by well-foundedness, and the least of 1, 2, 5 and 10 magnitudes above it is less
than two and a half times as high. `MagnitudesAssumption` says that with each power of ten the next
one is among the magnitudes, up to the fastest rate, and that the unit is small enough for the
slowest one; the chart is checked with decimal powers, but only the factor ten is used.

### Liveness

The provers cannot use fairness itself, which speaks of ENABLED. The theorems of this kind assume
what fairness gives, progress, with the conditions of each action spelt out where it has any, and
prove that progress is enough:

- `RecoveryFollowsTicks`, `BreachFollowsTicks`: ticks of the evaluator come to an end again and again
  (`[]<><<EndTick>>_vars`); they may be aborted, and the process may die, in between. `Follows` says
  that the tick has loaded what shows, and that the observation is still to come or has been done; a
  tick that ends has done it, and what is done stays done. For breaches `Undisturbed` adds that from
  some time on no request closes alerts of the device. `EachRequestCeases` proves this of each
  single request while the device shows a reading: before it can begin again it must remove the
  snapshot or the device;
- `RoundsSettleTheStore`: rounds of the poller come to an end. `Calm` says what a round that began
  after the last request leaves;
- `TicksCatchUp`: ticks reach the retention, that is, they get through their snapshots. That each
  device is shown in the end is proved of all devices at once, so that no exchange of `\A` and
  `<>[]` is needed;
- `DueRetentionsDelete`: each retention that is due is completed by some tick (`DueIsDone`);
- `RefreshingFollowsTheTimer`: the page starts, the timer goes off if it may for ever
  (`TimerGoesOff`), and the request in flight is answered if there is one for ever
  (`RequestsAreAnswered`). With `RefreshFlagIsRight` no flag is left behind;
- `ButtonsFollowAnswers`: from some time on the user sends nothing, and each button's requests are
  answered or fail (`AnswersCome`). There are six buttons, so each is proved apart from the others,
  from `ButtonsInv`;
- `HistoryHeals`, the alert-history half of `TablesHeal`: events, filters and failures come to rest,
  the timer loads if nothing is awaited, and an answer that is awaited comes.

TLC shows the other half: it checks the properties themselves under the fairness of the
specifications, and it has been used to check, on the instances of the runs, that this fairness
implies each of the progress hypotheses above. So none of them is empty.

`RememberedIsStored`, `RetentionIsExact`, `EventFits` and `HistoryIsCurrent` are defined beside their
proofs and listed by no run; they were checked with TLC before they were proved.

### Only model-checked

- that fairness leads to the progress that the theorems above assume, for it is about ENABLED;
- `ListHeals`, `FleetSettlesInPlay` and, in `TablesHealInPlay`, the top interfaces. Each needs that
  the finitely many answers that are stale all come, and then none is left: `<>[]` of each of
  them must become `<>[]` of all, an induction over a finite set of temporal formulas, which is
  beyond the prover;
- for the same reason that requests which each cease to close alerts cease together, that is,
  `BreachIsRaised` without `Undisturbed`; and that bounded user actions come to an end, which is a
  count.

## Findings

- `recovered`: the evaluator treats every metric of an offline device as normal while the snapshot
  keeps its last reading. A device that stops answering at 95% therefore gets a RECOVERED event
  with value 95 and threshold 70, worded "CPU usage returned to normal at 95%.", in the same tick
  that opens DEVICE_OFFLINE (`AlertNotificationBackgroundService.cs:145`,
  `AlertEventFactory.cs:63`).
- `settings_consistent`: each PUT is validated on its own and then merged with what has been saved
  since it read the row. From 70/85, a request for 80/85 and one for 70/75, both accepted, leave
  warning 80 and critical 75, which `AlertSettingsValidator.cs:13-14` rules out. In the same way
  mails may be enabled without a host. Single values stay in bounds (`SettingsInRange`).

Behaviours that no document or test rules out, but a reader should know:

- `DELETE` removes the alert rows before the device (`Program.cs:184`). An alert opened in between,
  or after a crash in between, starts without the time of the last mail, so that the next mail about
  it may come before the cooldown is over (the exception `forgotten` in `RemindersAreSpaced`);
- a poll in flight brings a deleted device's snapshot back until the next round
  (`StoreIsOfTheRound` says no longer);
- a poll in flight during a change of address mixes counters of both addresses into one rate (the
  exception `raced` in `ReadingsAreItsOwn`);
- enabling a device that is not selected selects it without a reset (`dashboard.js:504-505`): its
  live charts go on from the points of the device before (the exception `carried` in
  `ShowsTheSelectedDevice`);
- a reset after an edit shows the live history under a historical range, until a range is chosen
  (`ChartsShowTheRange` allows `Live`);
- when nothing is refreshed, because no device is selected, the selected one is disabled, or an old
  list has brought a deleted one back, the page does not load the list again by itself (the
  exception `NothingIsRefreshed` in `ListHeals`);
- a GET and a PUT of the alert settings in flight at once may be answered in the other order, and the
  page goes on with older settings (the exception `doubt` in `SettingsInForce`);
- the form of the e-mail settings is filled again by a load or a save that is answered late, over
  what has been typed since, when the dialog was closed and opened again (`TypedTextSurvives` says
  when it cannot be);
- the answer to an edit or a deletion closes the dialog, though it may be open for another device by
  then (`dashboard.js:475`);
- a history filter that falls back to all devices does so without loading their events, until the
  timer does (`fellBack` in `HistoryFitsTheFilter`);
- `selectDevice` renders the cards alone, so that they may disagree with the overview beside them
  until the next load (`apart` in `CardsFitTheOverview`);
- the panel of the selected device takes fixed thresholds of 80 (`dashboard.js:935`), where
  `README.md:17` of the repository names those of the settings. The panel is not modelled.

## Plan

1. Done: the alert engine, its abstract lifecycle, its proofs.
2. Done: `SettingsStore`, with the proofs of its bounds and of the password.
3. Done: `SnapshotStore`, with the proofs of its invariants.
4. Done: `MetricPersistence`, with the proofs of its invariants.
5. Done: `Dashboard`, with the proofs of its invariants.
6. Done: the rest of the script, `Dialogs`, `FleetHealth`, `FleetView`, `PageTables` and `Traffic`
   (with the rate calculator), composed in `MCPage`, with their proofs.
7. Done: what progress achieves, for seven of the ten liveness properties and half of `TablesHeal`
   (see Liveness).
8. Left: of `ListHeals`, `FleetSettles` and the top interfaces, that each single stale answer goes,
   as `EachRequestCeases` says it of requests.
9. Left: down-sampling, query filters and validators, each against a reference definition; email
   delivery as a component of its own.

Not modelled and why: the SNMP session and SMTP (network I/O of libraries); of the page the panel of
the selected device, the drawing of charts and their tooltips, card menus, status lines and
formatting (display of values that other parts keep); down-sampling and query filters (reads of one
query that change nothing); the device validator (checks of one request's strings); schema, pages,
styles and vendored libraries.
