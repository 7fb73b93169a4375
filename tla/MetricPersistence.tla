------------------------- MODULE MetricPersistence -------------------------
(***************************************************************************)
(* MetricPersistenceBackgroundService: a tick stores each device's         *)
(* snapshot unless its key is the one stored last, then, every             *)
(* RetentionInterval, deletes what is old.  Every database call is a step  *)
(* that may fail, which ends the tick.                                     *)
(*                                                                         *)
(* A device has one address and one interface.  Two readings of the clock  *)
(* differ (they are 100 ns apart), so a reading advances it.               *)
(***************************************************************************)
EXTENDS Integers, FiniteSets

CONSTANTS
  Devices,            \* devices that are polled
  Errors,             \* messages of failed polls
  NoError,
  Retention,          \* age at which samples are deleted
  EventRetention,     \* age at which alert events are deleted
  RetentionInterval,  \* time between two deletions
  MaxClock,           \* bound on the clock, for all but the service
  MaxFailures,        \* bound on the number of failed database calls
  MaxCrashes          \* bound on the number of crashes

ASSUME DevicesAssumption == 0 \notin Devices
ASSUME ErrorsAssumption == NoError \notin Errors
ASSUME PeriodsAssumption ==
  {Retention, EventRetention, RetentionInterval} \subseteq Nat \ {0}
ASSUME BoundsAssumption == {MaxClock, MaxFailures, MaxCrashes} \subseteq Nat

Snapshot == [connected : BOOLEAN, time : Nat, error : Errors \cup {NoError}]
\* The device has no snapshot; also: no key.
NoSnapshot == [connected |-> FALSE, time |-> 0, error |-> NoError]
NothingSaved == [key |-> NoSnapshot, time |-> 0]

VARIABLES
  clock,
  snapshots,         \* the snapshot store
  samples,           \* DeviceMetricSamples: device, time, connected
  interfaceSamples,  \* InterfaceMetricSamples: device, time
  events,            \* AlertEvents: the times they occurred at
  lastKeys,          \* _lastSnapshotKeys
  nextRetention,     \* _nextRetentionUtc
  pc, todo,          \* the tick: control state, snapshots still to look at,
  sample,            \* the sample to save
  cutoff,            \* and the time before which samples are deleted
  outages,           \* observer: how often a device has begun to be offline
  lastSaved,         \* observer: key and time of a device's last sample since the start
  failures, crashes

database == <<samples, interfaceSamples, events>>
memory == <<lastKeys, nextRetention>>
tick == <<pc, todo, sample, cutoff>>
bounds == <<failures, crashes>>
vars == <<clock, snapshots, database, memory, tick, outages, lastSaved, bounds>>

-----------------------------------------------------------------------------
(* MetricPersistencePolicy *)

\* GetSnapshotKey: the poll of an online device, the error of an offline one.
Key(s) == IF s.connected THEN s ELSE [s EXCEPT !.time = 0]

NoSample == [device |-> 0, time |-> 0, connected |-> FALSE]

\* CreateDeviceSample: an online device's was taken by the poll, an offline
\* one's is taken now.
Sample(d, s) ==
  [device |-> d, time |-> IF s.connected THEN s.time ELSE clock + 1, connected |-> s.connected]

Before(time, rows) == {r \in rows : r.time < time}

-----------------------------------------------------------------------------
(* PersistSafelyAsync *)

\* GetAllCurrent copies the store.
TakeSnapshots ==
  /\ pc = "Idle"
  /\ todo' = snapshots
  /\ pc' = "Devices"
  /\ UNCHANGED <<clock, snapshots, database, memory, sample, cutoff, outages, lastSaved, bounds>>

\* The key is the one stored last.
SkipDevice(d) ==
  /\ pc = "Devices"
  /\ todo[d] # NoSnapshot
  /\ Key(todo[d]) = lastKeys[d]
  /\ todo' = [todo EXCEPT ![d] = NoSnapshot]
  /\ UNCHANGED <<clock, snapshots, database, memory, pc, sample, cutoff, outages, lastSaved, bounds>>

\* Mutant of FindSample: the key is remembered before the sample is saved.
FindSampleAndRemember(d) ==
  /\ pc = "Devices"
  /\ todo[d] # NoSnapshot
  /\ Key(todo[d]) # lastKeys[d]
  /\ sample' = Sample(d, todo[d])
  /\ clock' = IF todo[d].connected THEN clock ELSE clock + 1
  /\ pc' = IF \E r \in samples : r.device = d /\ r.time = sample'.time THEN "Known" ELSE "Save"
  /\ lastKeys' = [lastKeys EXCEPT ![d] = Key(todo[d])]
  /\ UNCHANGED <<snapshots, database, nextRetention, todo, cutoff, outages, lastSaved, bounds>>

\* The sample is made and looked for in the table.
FindSample(d) ==
  /\ pc = "Devices"
  /\ todo[d] # NoSnapshot
  /\ Key(todo[d]) # lastKeys[d]
  /\ sample' = Sample(d, todo[d])
  /\ clock' = IF todo[d].connected THEN clock ELSE clock + 1
  /\ pc' = IF \E r \in samples : r.device = d /\ r.time = sample'.time THEN "Known" ELSE "Save"
  /\ UNCHANGED <<snapshots, database, memory, todo, cutoff, outages, lastSaved, bounds>>

\* Mutant of Remembered: outages are not.
RememberedOnline(d) ==
  IF todo[d].connected THEN [lastKeys EXCEPT ![d] = Key(todo[d])] ELSE lastKeys

Remembered(d) == [lastKeys EXCEPT ![d] = Key(todo[d])]

\* The row of the interface that is saved with the sample.
InterfaceRows(r) == IF r.connected THEN {[device |-> r.device, time |-> r.time]} ELSE {}

\* SaveChanges is one transaction; the key is remembered when it has returned.
SaveSample ==
  /\ pc \in {"Save", "Known"}
  /\ IF pc = "Known" THEN UNCHANGED <<samples, interfaceSamples>>
     ELSE /\ samples' = samples \cup {sample}
          /\ interfaceSamples' = interfaceSamples \cup InterfaceRows(sample)
  /\ lastKeys' = Remembered(sample.device)
  /\ todo' = [todo EXCEPT ![sample.device] = NoSnapshot]
  /\ pc' = "Devices"
  /\ sample' = NoSample
  /\ lastSaved' = [lastSaved EXCEPT ![sample.device] =
                    [key |-> Key(todo[sample.device]), time |-> sample.time]]
  /\ UNCHANGED <<clock, snapshots, events, nextRetention, cutoff, outages, bounds>>

\* Mutant of CheckRetention: the next one is scheduled before this one is done.
CheckRetentionAhead ==
  /\ pc = "Devices"
  /\ \A d \in Devices : todo[d] = NoSnapshot
  /\ IF clock >= nextRetention
     THEN pc' = "Interfaces" /\ cutoff' = clock - Retention /\ nextRetention' = clock + RetentionInterval
     ELSE pc' = "Idle" /\ UNCHANGED <<cutoff, nextRetention>>
  /\ UNCHANGED <<clock, snapshots, database, lastKeys, todo, sample, outages, lastSaved, bounds>>

CheckRetention ==
  /\ pc = "Devices"
  /\ \A d \in Devices : todo[d] = NoSnapshot
  /\ IF clock >= nextRetention THEN pc' = "Interfaces" /\ cutoff' = clock - Retention
                               ELSE pc' = "Idle" /\ UNCHANGED cutoff
  /\ UNCHANGED <<clock, snapshots, database, memory, todo, sample, outages, lastSaved, bounds>>

\* Mutant of DeleteInterfaceSamples: they are kept as long as events.
DeleteInterfaceSamplesLikeEvents ==
  /\ pc = "Interfaces"
  /\ interfaceSamples' = interfaceSamples \ Before(clock - EventRetention, interfaceSamples)
  /\ pc' = "Samples"
  /\ UNCHANGED <<clock, snapshots, samples, events, memory, todo, sample, cutoff, outages, lastSaved, bounds>>

DeleteInterfaceSamples ==
  /\ pc = "Interfaces"
  /\ interfaceSamples' = interfaceSamples \ Before(cutoff, interfaceSamples)
  /\ pc' = "Samples"
  /\ UNCHANGED <<clock, snapshots, samples, events, memory, todo, sample, cutoff, outages, lastSaved, bounds>>

DeleteSamples ==
  /\ pc = "Samples"
  /\ samples' = samples \ Before(cutoff, samples)
  /\ pc' = "Events"
  /\ UNCHANGED <<clock, snapshots, interfaceSamples, events, memory, todo, sample, cutoff,
                 outages, lastSaved, bounds>>

\* The events have a cutoff of their own; then the next deletion is scheduled.
DeleteEvents ==
  /\ pc = "Events"
  /\ events' = {time \in events : time >= clock - EventRetention}
  /\ nextRetention' = clock + RetentionInterval
  /\ pc' = "Idle"
  /\ cutoff' = 0
  /\ UNCHANGED <<clock, snapshots, samples, interfaceSamples, lastKeys, todo, sample, outages, lastSaved, bounds>>

\* A database call fails: the rest of the tick is left out.
Fail ==
  /\ failures < MaxFailures
  /\ pc # "Idle"
  /\ failures' = failures + 1
  /\ pc' = "Idle"
  /\ todo' = [d \in Devices |-> NoSnapshot]
  /\ sample' = NoSample
  /\ cutoff' = 0
  /\ UNCHANGED <<clock, snapshots, database, memory, outages, lastSaved, crashes>>

Service ==
  \/ TakeSnapshots
  \/ \E d \in Devices : SkipDevice(d) \/ FindSample(d)
  \/ SaveSample \/ CheckRetention
  \/ DeleteInterfaceSamples \/ DeleteSamples \/ DeleteEvents
  \/ Fail

-----------------------------------------------------------------------------
(* The snapshot store, the evaluator, time and crashes *)

Offline(s) == s # NoSnapshot /\ ~s.connected

Publish(d, s) ==
  /\ snapshots' = [snapshots EXCEPT ![d] = s]
  /\ outages' = IF Offline(s) /\ Key(s) # Key(snapshots[d]) THEN [outages EXCEPT ![d] = @ + 1]
                                                           ELSE outages
  /\ UNCHANGED <<database, memory, tick, lastSaved, bounds>>

PollSucceeds(d) ==
  /\ clock < MaxClock
  /\ clock' = clock + 1
  /\ Publish(d, [connected |-> TRUE, time |-> clock + 1, error |-> NoError])

\* The last snapshot is kept, with the error.
PollFails(d, e) ==
  /\ clock < MaxClock
  /\ clock' = clock + 1
  /\ Publish(d, [snapshots[d] EXCEPT !.connected = FALSE, !.error = e])

\* RemoveDevice or SetActiveDevices.
DropSnapshot(d) ==
  /\ clock' = clock
  /\ Publish(d, NoSnapshot)

\* The evaluator writes an event.
RecordEvent ==
  /\ clock < MaxClock
  /\ events' = events \cup {clock}
  /\ UNCHANGED <<clock, snapshots, samples, interfaceSamples, memory, tick, outages, lastSaved, bounds>>

TimePasses ==
  /\ clock < MaxClock
  /\ clock' = clock + 1
  /\ UNCHANGED <<snapshots, database, memory, tick, outages, lastSaved, bounds>>

\* The process starts again with an empty memory.
Crash ==
  /\ crashes < MaxCrashes
  /\ crashes' = crashes + 1
  /\ snapshots' = [d \in Devices |-> NoSnapshot]
  /\ lastKeys' = [d \in Devices |-> NoSnapshot]
  /\ nextRetention' = 0
  /\ pc' = "Idle"
  /\ todo' = [d \in Devices |-> NoSnapshot]
  /\ sample' = NoSample
  /\ cutoff' = 0
  /\ lastSaved' = [d \in Devices |-> NothingSaved]
  /\ UNCHANGED <<clock, database, outages, failures>>

Init ==
  /\ clock = 1
  /\ snapshots = [d \in Devices |-> NoSnapshot]
  /\ samples = {}
  /\ interfaceSamples = {}
  /\ events = {}
  /\ lastKeys = [d \in Devices |-> NoSnapshot]
  /\ nextRetention = 0
  /\ pc = "Idle"
  /\ todo = [d \in Devices |-> NoSnapshot]
  /\ sample = NoSample
  /\ cutoff = 0
  /\ outages = [d \in Devices |-> 0]
  /\ lastSaved = [d \in Devices |-> NothingSaved]
  /\ failures = 0
  /\ crashes = 0

Next ==
  \/ Service
  \/ \E d \in Devices :
       PollSucceeds(d) \/ DropSnapshot(d) \/ \E e \in Errors : PollFails(d, e)
  \/ RecordEvent \/ TimePasses \/ Crash

Spec == Init /\ [][Next]_vars

\* The timer ticks for the life of the process and every database call returns.
FairSpec == Spec /\ WF_vars(Service)
-----------------------------------------------------------------------------
(* Properties *)

SampleRow == [device : Devices, time : Nat, connected : BOOLEAN]
InterfaceRow == [device : Devices, time : Nat]

\* The types of the variables.
TypeOK ==
  /\ clock \in Nat
  /\ snapshots \in [Devices -> Snapshot]
  /\ samples \subseteq SampleRow
  /\ interfaceSamples \subseteq InterfaceRow
  /\ events \subseteq Nat
  /\ lastKeys \in [Devices -> Snapshot]
  /\ nextRetention \in Nat
  /\ pc \in {"Idle", "Devices", "Save", "Known", "Interfaces", "Samples", "Events"}
  /\ todo \in [Devices -> Snapshot]
  /\ sample \in SampleRow \cup {NoSample}
  /\ pc \in {"Save", "Known"} => sample # NoSample
  /\ cutoff \in Int
  /\ outages \in [Devices -> Nat]
  /\ lastSaved \in [Devices -> [key : Snapshot, time : Nat]]
  /\ failures \in 0..MaxFailures
  /\ crashes \in 0..MaxCrashes

\* An interface's sample belongs to a sample of its device: they are saved
\* together, and a retention that stops half-way has deleted the former.
InterfaceSamplesHaveADevice == \A r \in interfaceSamples :
  [device |-> r.device, time |-> r.time, connected |-> TRUE] \in samples

SamplesOf(d) == {r \in samples : r.device = d}

\* An outage is stored once, however many polls fail, ticks pass and database
\* calls fail while it lasts.
OutageIsStoredOnce == \A d \in Devices :
  Cardinality({r \in SamplesOf(d) : ~r.connected}) <= outages[d]

\* The history shows the snapshot of d: the sample of its poll, or, while it is
\* offline, that as the latest one.  Only the age of that very sample excuses its
\* absence: since the start it has been saved and the retention may have taken it.
HistoryShows(d) ==
  \/ snapshots[d] = NoSnapshot
  \/ \E r \in SamplesOf(d) :
       /\ r.connected = snapshots[d].connected
       /\ IF r.connected THEN r.time = snapshots[d].time
                         ELSE \A q \in SamplesOf(d) : q.time <= r.time
  \/ lastSaved[d].key = Key(snapshots[d]) /\ lastSaved[d].time < clock - Retention

\* Whatever has failed before: when the snapshots come to rest the history
\* catches up with them.
HistoryCatchesUp == <>[][FALSE]_snapshots => <>[]\A d \in Devices : HistoryShows(d)

Sampled(time) == time \in {r.time : r \in samples \cup interfaceSamples}
Due == pc = "Idle" /\ clock >= nextRetention

\* What is too old when the retention is due is deleted, even if the retention
\* fails or the process dies in the middle of it.
OldRowsGo == \A time \in 1..MaxClock :
  /\ Due /\ time < clock - Retention /\ Sampled(time) ~> ~Sampled(time)
  /\ Due /\ time < clock - EventRetention /\ time \in events ~> time \notin events
=============================================================================
