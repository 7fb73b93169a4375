--------------------------- MODULE SnapshotStore ---------------------------
(***************************************************************************)
(* SnmpMonitoringService: the latest snapshot and the last interface       *)
(* counters of each device, the default device and its snapshot, shared    *)
(* without a lock by the poller's thread and the request threads.          *)
(*                                                                         *)
(* The poller loads the enabled devices, calls SetActiveDevices and polls  *)
(* one device after the other.  PUT and DELETE of a device save and then   *)
(* call RemoveDevice, which calls SetActiveDevices, too, when the device   *)
(* was the default one.  Every access to a dictionary or a field is a step.*)
(*                                                                         *)
(* A snapshot is the address it is published under and the addresses its   *)
(* readings and its rates stem from; a device has one interface.           *)
(***************************************************************************)
EXTENDS Integers

CONSTANTS
  Devices,     \* device ids
  Hosts,       \* addresses a device may be given
  None,        \* no address
  Requests,    \* HTTP requests that may be in flight together
  MaxChanges   \* bound on the number of POST, PUT and DELETE

ASSUME DevicesAssumption == Devices \subseteq Nat \ {0}
ASSUME HostsAssumption == None \notin Hosts
ASSUME ChangesAssumption == MaxChanges \in Nat

Poller == "poller"
Threads == Requests \cup {Poller}
ASSUME PollerAssumption == Poller \notin Requests

Addresses == Hosts \cup {None}
Snapshot == [ip : Addresses, from : Addresses, rate : Addresses]
\* The device is not in _currentByDevice.
NoSnapshot == [ip |-> None, from |-> None, rate |-> None]

VARIABLES
  devices,     \* the Devices table
  snapshots,   \* _currentByDevice
  counters,    \* _previousCounters: the address the sample was taken at
  default,     \* _defaultDeviceId, 0 for none
  current,     \* _current: the device whose snapshot it is, 0 for none
  threads,     \* each thread's control state and the locals of its call
  round,       \* addresses the poller has loaded
  rest,        \* devices its round still has to poll, the first one in work
  previous,    \* the counter sample it has read
  answer,      \* the snapshot it is about to publish
  raced,       \* observer: devices whose PUT and whose poll have overlapped
  changes      \* number of POST, PUT and DELETE

store == <<snapshots, counters, default, current>>
poll == <<round, rest, previous, answer>>
vars == <<devices, store, threads, poll, raced, changes>>

-----------------------------------------------------------------------------
NoRow(status) == [status |-> status, host |-> None]

Published == {d \in Devices : snapshots[d].ip # None}
Counted == {d \in Devices : counters[d] # None}
Enabled == {d \in Devices : devices[d].status = "enabled"}
Exists(d) == devices[d].status \in {"enabled", "disabled"}

FirstDevice(ids) == IF ids = {} THEN 0 ELSE CHOOSE d \in ids : \A e \in ids : d <= e

NoCall == [pc |-> "Idle", device |-> 0, ids |-> {}, stale |-> {}]

At(t, pc) == threads[t].pc = pc
Go(t, pc) == threads' = [threads EXCEPT ![t].pc = pc]

\* What a thread does after SetActiveDevices.
Return(t) == IF t = Poller THEN Go(t, "Poll") ELSE threads' = [threads EXCEPT ![t] = NoCall]

-----------------------------------------------------------------------------
(* SetActiveDevices(ids), by any thread *)

\* Mutant of Stale: nothing is.
StaleNothing(ids) == {}

\* The snapshots of devices that are not active.
Stale(ids) == Published \ ids

\* The keys of _currentByDevice are copied, ...
FindStale(t) ==
  /\ At(t, "SetActive")
  /\ threads' = [threads EXCEPT ![t].pc = "Drop", ![t].stale = Stale(threads[t].ids)]
  /\ UNCHANGED <<devices, store, poll, raced, changes>>

\* ... then removed one by one, ...
DropSnapshot(t, d) ==
  /\ At(t, "Drop")
  /\ d \in threads[t].stale
  /\ snapshots' = [snapshots EXCEPT ![d] = NoSnapshot]
  /\ threads' = [threads EXCEPT ![t].stale = @ \ {d}]
  /\ UNCHANGED <<devices, counters, default, current, poll, raced, changes>>

\* ... then the counters.  Nobody looks at the counters of two devices.
DropCounters(t) ==
  /\ At(t, "Drop")
  /\ threads[t].stale = {}
  /\ counters' = [d \in Devices |-> IF d \in threads[t].ids THEN counters[d] ELSE None]
  /\ Go(t, "SetDefault")
  /\ UNCHANGED <<devices, snapshots, default, current, poll, raced, changes>>

\* Mutant of SetDefault: a default device that is set already is kept.
SetDefaultOnce(t) ==
  /\ At(t, "SetDefault")
  /\ default' = IF default = 0 THEN FirstDevice(threads[t].ids) ELSE default
  /\ Go(t, "FindDefault")
  /\ UNCHANGED <<devices, snapshots, counters, current, poll, raced, changes>>

SetDefault(t) ==
  /\ At(t, "SetDefault")
  /\ default' = FirstDevice(threads[t].ids)
  /\ Go(t, "FindDefault")
  /\ UNCHANGED <<devices, snapshots, counters, current, poll, raced, changes>>

\* The default device's snapshot is looked up (TryGetValue), ...
FindDefault(t) ==
  LET d == FirstDevice(threads[t].ids)
  IN  /\ At(t, "FindDefault")
      /\ IF d = 0 \/ d \in Published THEN Go(t, "SetCurrent") ELSE Return(t)
      /\ UNCHANGED <<devices, store, poll, raced, changes>>

\* ... and becomes the current one, which says "no enabled device" without one.
SetCurrent(t) ==
  /\ At(t, "SetCurrent")
  /\ current' = FirstDevice(threads[t].ids)
  /\ Return(t)
  /\ UNCHANGED <<devices, snapshots, counters, default, poll, raced, changes>>

SetActiveDevices(t) ==
  \/ FindStale(t)
  \/ \E d \in Devices : DropSnapshot(t, d)
  \/ DropCounters(t)
  \/ SetDefault(t)
  \/ FindDefault(t)
  \/ SetCurrent(t)

-----------------------------------------------------------------------------
(* Requests *)

\* The index on IpAddress is unique.
Free(h, d) == \A e \in Devices \ {d} : Exists(e) => devices[e].host # h

\* POST; ids are handed out in ascending order.
CreateDevice(d, h, status) ==
  /\ changes < MaxChanges
  /\ devices[d].status = "absent" /\ \A e \in Devices : e < d => devices[e].status # "absent"
  /\ Free(h, d)
  /\ devices' = [devices EXCEPT ![d] = [status |-> status, host |-> h]]
  /\ changes' = changes + 1
  /\ UNCHANGED <<store, threads, poll, raced>>

\* PUT saves; the columns of two overlapping PUTs are merged, which leaves the
\* row another PUT would leave.
SaveDevice(r, d, h, status) ==
  /\ changes < MaxChanges
  /\ At(r, "Idle")
  /\ Exists(d) /\ Free(h, d)
  /\ devices' = [devices EXCEPT ![d] = [status |-> status, host |-> h]]
  /\ raced' = IF d \in rest /\ devices[d].host # h THEN raced \cup {d} ELSE raced
  /\ threads' = [threads EXCEPT ![r].pc = "RemoveSnapshot", ![r].device = d]
  /\ changes' = changes + 1
  /\ UNCHANGED <<store, poll>>

\* DELETE saves.  A PUT that has nothing to save of a device that was deleted
\* after it had read it calls RemoveDevice, too.
DeleteDevice(r, d) ==
  /\ changes < MaxChanges
  /\ At(r, "Idle")
  /\ devices[d].status # "absent"
  /\ devices' = [devices EXCEPT ![d] = NoRow("deleted")]
  /\ threads' = [threads EXCEPT ![r].pc = "RemoveSnapshot", ![r].device = d]
  /\ changes' = changes + 1
  /\ UNCHANGED <<store, poll, raced>>

\* RemoveDevice: the snapshot, ...
RemoveSnapshot(r) ==
  /\ At(r, "RemoveSnapshot")
  /\ snapshots' = [snapshots EXCEPT ![threads[r].device] = NoSnapshot]
  /\ Go(r, "RemoveCounters")
  /\ UNCHANGED <<devices, counters, default, current, poll, raced, changes>>

\* Mutant of RemoveCounters: they are kept.
RemoveNoCounters(r) ==
  /\ At(r, "RemoveCounters")
  /\ Go(r, "CheckDefault")
  /\ UNCHANGED <<devices, store, poll, raced, changes>>

\* ... the counters, ...
RemoveCounters(r) ==
  /\ At(r, "RemoveCounters")
  /\ counters' = [counters EXCEPT ![threads[r].device] = None]
  /\ Go(r, "CheckDefault")
  /\ UNCHANGED <<devices, snapshots, default, current, poll, raced, changes>>

\* ... and if it was the default device, ...
CheckDefault(r) ==
  /\ At(r, "CheckDefault")
  /\ IF default = threads[r].device THEN Go(r, "ListKeys") ELSE Return(r)
  /\ UNCHANGED <<devices, store, poll, raced, changes>>

\* ... SetActiveDevices with the devices that have a snapshot.
ListKeys(r) ==
  /\ At(r, "ListKeys")
  /\ threads' = [threads EXCEPT ![r].pc = "SetActive", ![r].ids = Published]
  /\ UNCHANGED <<devices, store, poll, raced, changes>>

RemoveDevice(r) ==
  RemoveSnapshot(r) \/ RemoveCounters(r) \/ CheckDefault(r) \/ ListKeys(r)

-----------------------------------------------------------------------------
(* The poller *)

\* A PUT or DELETE of d that has saved and not yet dropped what the store has.
Removing(d) == \E r \in Requests :
  threads[r].device = d /\ threads[r].pc \in {"RemoveSnapshot", "RemoveCounters"}

LoadDevices ==
  /\ At(Poller, "Load")
  /\ round' = [d \in Devices |-> IF d \in Enabled THEN devices[d].host ELSE None]
  /\ rest' = Enabled
  /\ raced' = raced \cup {d \in Enabled : Removing(d)}
  /\ threads' = [threads EXCEPT ![Poller].pc = "SetActive", ![Poller].ids = Enabled]
  /\ UNCHANGED <<devices, store, previous, answer, changes>>

\* All devices have been polled; the next round begins after a delay.
FinishRound ==
  /\ At(Poller, "Poll")
  /\ rest = {}
  /\ round' = [d \in Devices |-> None]
  /\ Go(Poller, "Load")
  /\ UNCHANGED <<devices, store, rest, previous, answer, raced, changes>>

Polled == FirstDevice(rest)
Answer(rate) == [ip |-> round[Polled], from |-> round[Polled], rate |-> rate]

\* The device answers and the interface has counters: the sample before ...
ReadCounters ==
  /\ At(Poller, "Poll") /\ rest # {}
  /\ previous' = counters[Polled]
  /\ Go(Poller, "Count")
  /\ UNCHANGED <<devices, store, round, rest, answer, raced, changes>>

\* ... gives the rate and is replaced.  The query may still fail.
WriteCounters ==
  /\ At(Poller, "Count")
  /\ counters' = [counters EXCEPT ![Polled] = round[Polled]]
  /\ previous' = None
  /\ \/ answer' = Answer(previous) /\ Go(Poller, "Publish")
     \/ answer' = answer /\ Go(Poller, "Fail")
  /\ UNCHANGED <<devices, snapshots, default, current, round, rest, raced, changes>>

\* The device answers, without counters of the interface (the last sample is
\* kept) or without the interface (it is dropped); no interface at all is a
\* failure.
AnswerWithoutRate ==
  /\ At(Poller, "Poll") /\ rest # {}
  /\ counters' \in {counters, [counters EXCEPT ![Polled] = None]}
  /\ \/ answer' = Answer(None) /\ Go(Poller, "Publish")
     \/ answer' = answer /\ Go(Poller, "Fail")
  /\ UNCHANGED <<devices, snapshots, default, current, round, rest, previous, raced, changes>>

\* The query fails: the last snapshot, under the address polled.
Fail ==
  /\ At(Poller, "Fail") \/ (At(Poller, "Poll") /\ rest # {})
  /\ answer' = [snapshots[Polled] EXCEPT !.ip = round[Polled]]
  /\ Go(Poller, "Publish")
  /\ UNCHANGED <<devices, store, round, rest, previous, raced, changes>>

\* Without a user name there is no query and no last snapshot.
Skip ==
  /\ At(Poller, "Poll") /\ rest # {}
  /\ answer' = [NoSnapshot EXCEPT !.ip = round[Polled]]
  /\ Go(Poller, "Publish")
  /\ UNCHANGED <<devices, store, round, rest, previous, raced, changes>>

\* SetDeviceSnapshot: whatever has become of the device meanwhile.
Publish ==
  /\ At(Poller, "Publish")
  /\ snapshots' = [snapshots EXCEPT ![Polled] = answer]
  /\ answer' = NoSnapshot
  /\ Go(Poller, "ReadDefault")
  /\ UNCHANGED <<devices, counters, default, current, round, rest, previous, raced, changes>>

NextDevice ==
  /\ rest' = rest \ {Polled}
  /\ Go(Poller, "Poll")
  /\ UNCHANGED <<devices, snapshots, counters, default, round, previous, answer, raced, changes>>

\* The default device's snapshot becomes the current one, ...
ReadDefault ==
  /\ At(Poller, "ReadDefault") \/ At(Poller, "ReadAgain")
  /\ \/ /\ default = Polled
        /\ Go(Poller, "WriteCurrent")
        /\ UNCHANGED <<devices, store, poll, raced, changes>>
     \/ /\ default = 0 /\ At(Poller, "ReadDefault")
        /\ Go(Poller, "Claim")
        /\ UNCHANGED <<devices, store, poll, raced, changes>>
     \/ /\ default # Polled /\ (default # 0 \/ At(Poller, "ReadAgain"))
        /\ NextDevice
        /\ UNCHANGED current

\* ... and the first device to be polled the default one, if there is none.
ClaimDefault ==
  /\ At(Poller, "Claim")
  /\ default' = IF default = 0 THEN Polled ELSE default
  /\ Go(Poller, IF default = 0 THEN "WriteCurrent" ELSE "ReadAgain")
  /\ UNCHANGED <<devices, snapshots, counters, current, poll, raced, changes>>

WriteCurrent ==
  /\ At(Poller, "WriteCurrent")
  /\ current' = Polled
  /\ NextDevice

Poll ==
  \/ LoadDevices \/ FinishRound
  \/ ReadCounters \/ WriteCounters \/ AnswerWithoutRate \/ Fail \/ Skip
  \/ Publish \/ ReadDefault \/ ClaimDefault \/ WriteCurrent
  \/ SetActiveDevices(Poller)

-----------------------------------------------------------------------------
\* Memory is empty when the process starts, the table is not.
Init ==
  /\ devices \in [Devices -> [status : {"enabled", "disabled"}, host : Hosts] \cup {NoRow("absent")}]
  /\ \A d \in Devices : Exists(d) => Free(devices[d].host, d)
  /\ \A d, e \in Devices : d < e /\ devices[d].status = "absent" => devices[e].status = "absent"
  /\ snapshots = [d \in Devices |-> NoSnapshot]
  /\ counters = [d \in Devices |-> None]
  /\ default = 0
  /\ current = 0
  /\ threads = [t \in Threads |-> IF t = Poller THEN [NoCall EXCEPT !.pc = "Load"] ELSE NoCall]
  /\ round = [d \in Devices |-> None]
  /\ rest = {}
  /\ previous = None
  /\ answer = NoSnapshot
  /\ raced = {}
  /\ changes = 0

Next ==
  \/ Poll
  \/ \E d \in Devices, h \in Hosts, status \in {"enabled", "disabled"} :
       \/ CreateDevice(d, h, status)
       \/ \E r \in Requests : SaveDevice(r, d, h, status)
  \/ \E r \in Requests :
       \/ \E d \in Devices : DeleteDevice(r, d)
       \/ RemoveDevice(r)
       \/ SetActiveDevices(r)

Spec == Init /\ [][Next]_vars

\* The poller's loop runs for the life of the process and survives exceptions;
\* a query ends in an answer or a timeout.
FairSpec == Spec /\ WF_vars(Poll)
-----------------------------------------------------------------------------
(* Properties *)

ControlStates ==
  {"Idle", "RemoveSnapshot", "RemoveCounters", "CheckDefault", "ListKeys",
   "SetActive", "Drop", "SetDefault", "FindDefault", "SetCurrent",
   "Load", "Poll", "Count", "Fail", "Publish", "ReadDefault", "Claim", "ReadAgain",
   "WriteCurrent"}

Call == [pc : ControlStates, device : Devices \cup {0},
         ids : SUBSET Devices, stale : SUBSET Devices]

\* The types of the variables.
TypeOK ==
  /\ devices \in [Devices -> [status : {"absent", "enabled", "disabled", "deleted"},
                              host : Addresses]]
  /\ snapshots \in [Devices -> Snapshot]
  /\ counters \in [Devices -> Addresses]
  /\ default \in Devices \cup {0}
  /\ current \in Devices \cup {0}
  /\ threads \in [Threads -> Call]
  /\ round \in [Devices -> Addresses]
  /\ rest \subseteq Devices
  /\ previous \in Addresses
  /\ answer \in Snapshot
  /\ raced \subseteq Devices
  /\ changes \in 0..MaxChanges

\* Once SetActiveDevices has dropped what is stale, snapshots and counters are
\* those of the devices the round has loaded: a device that was disabled or
\* deleted reappears at most until the round that still polls it has ended.
StoreIsOfTheRound ==
  threads[Poller].pc \notin {"SetActive", "Drop"} =>
    Published \cup Counted \subseteq threads[Poller].ids

\* A snapshot shows readings of the address it is published under and rates
\* over two samples of it, unless the device was given another address while
\* the poller was at it: RemoveDevice forgets the old address's data.
ReadingsAreItsOwn == \A d \in Published \ raced :
  {snapshots[d].from, snapshots[d].rate} \subseteq {snapshots[d].ip, None}

\* No request is in flight.
Quiet == \A r \in Requests : At(r, "Idle")

\* Every enabled device has a snapshot, under its address, no other device
\* has one, and the current one is that of the first of them.
Settled ==
  /\ Published = Enabled
  /\ \A d \in Enabled : snapshots[d].ip = devices[d].host
  /\ default = current
  /\ IF Enabled = {} THEN default = 0 ELSE default \in Enabled /\ \A d \in Enabled : default <= d

\* Whatever requests and poller have done to each other, the store settles
\* once devices are no longer changed and the last request has been answered.
Converges == <>[]Quiet /\ <>[][FALSE]_devices => <>[]Settled
=============================================================================
