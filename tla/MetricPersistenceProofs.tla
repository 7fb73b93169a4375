---------------------- MODULE MetricPersistenceProofs ----------------------
(***************************************************************************)
(* Theorems about MetricPersistence, for any devices and periods: the      *)
(* types of its variables; from the order in which the retention deletes,  *)
(* that no interface sample is without its device's sample; that an outage *)
(* is stored once, what is remembered as stored is stored, and a retention *)
(* deletes what is too old and no more; and what ticks and retentions that *)
(* come to an end achieve.                                                 *)
(***************************************************************************)
EXTENDS MetricPersistence, FiniteSetTheorems, TLAPS

LEMMA NullTypes ==
  /\ NoSnapshot \in Snapshot
  /\ [d \in Devices |-> NoSnapshot] \in [Devices -> Snapshot]
  /\ [d \in Devices |-> NothingSaved] \in [Devices -> [key : Snapshot, time : Nat]]
  BY DEF NoSnapshot, NothingSaved, Snapshot

LEMMA KeyType == \A s \in Snapshot : Key(s) \in Snapshot
  BY DEF Key, Snapshot

LEMMA InitType == Init => TypeOK
  BY NullTypes, BoundsAssumption DEF Init, TypeOK

\* The sample of a snapshot is a row of the table.
LEMMA SampleType ==
  ASSUME TypeOK, NEW d \in Devices, NEW s \in Snapshot
  PROVE  Sample(d, s) \in SampleRow /\ Sample(d, s).time \in Nat
  BY DEF Sample, SampleRow, TypeOK, Snapshot

\* What is saved is a row of each table.
LEMMA SavedType ==
  ASSUME TypeOK, SaveSample
  PROVE  sample \in SampleRow /\ InterfaceRows(sample) \subseteq InterfaceRow
  BY DEF TypeOK, SaveSample, SampleRow, InterfaceRow, InterfaceRows

LEMMA SaveType ==
  ASSUME TypeOK, SaveSample
  PROVE  TypeOK'
<1>1. sample \in SampleRow /\ InterfaceRows(sample) \subseteq InterfaceRow /\ sample.device \in Devices
  BY SavedType DEF SampleRow
<1>2. samples' \subseteq SampleRow /\ interfaceSamples' \subseteq InterfaceRow
  BY <1>1 DEF SaveSample, TypeOK
<1>3. lastKeys' \in [Devices -> Snapshot] /\ todo' \in [Devices -> Snapshot]
  BY <1>1, KeyType, NullTypes DEF SaveSample, Remembered, TypeOK
<1>4. lastSaved' \in [Devices -> [key : Snapshot, time : Nat]]
  <2>1. Key(todo[sample.device]) \in Snapshot /\ sample.time \in Nat
    BY <1>1, KeyType DEF TypeOK, SampleRow
  <2>. QED
    BY <1>1, <2>1 DEF SaveSample, TypeOK
<1>. QED
  BY <1>2, <1>3, <1>4 DEF SaveSample, TypeOK, bounds

LEMMA DeviceType ==
  ASSUME TypeOK, NEW d \in Devices, SkipDevice(d) \/ FindSample(d)
  PROVE  TypeOK'
<1>1. CASE SkipDevice(d)
  BY <1>1, NullTypes DEF SkipDevice, TypeOK, database, memory, bounds
<1>2. CASE FindSample(d)
  <2>1. todo[d] \in Snapshot
    BY DEF TypeOK
  <2>2. sample' \in SampleRow
    BY <1>2, <2>1, SampleType DEF FindSample
  <2>3. sample' # NoSample
    BY <1>2, DevicesAssumption DEF NoSample, FindSample, Sample
  <2>. QED
    BY <1>2, <2>1, <2>2, <2>3 DEF FindSample, TypeOK, database, memory, bounds
<1>. QED
  BY <1>1, <1>2

LEMMA PublishType ==
  ASSUME TypeOK, NEW d \in Devices, NEW s \in Snapshot, Publish(d, s), clock' \in Nat
  PROVE  TypeOK'
  BY DEF Publish, TypeOK, database, memory, tick, bounds

LEMMA EnvironmentType ==
  ASSUME TypeOK,
         \/ \E d \in Devices :
              PollSucceeds(d) \/ DropSnapshot(d) \/ \E e \in Errors : PollFails(d, e)
         \/ RecordEvent \/ TimePasses \/ Crash
  PROVE  TypeOK'
<1>1. ASSUME NEW d \in Devices, PollSucceeds(d) \/ DropSnapshot(d) \/ \E e \in Errors : PollFails(d, e)
      PROVE  TypeOK'
  <2>1. clock \in Nat /\ snapshots[d] \in Snapshot
    BY DEF TypeOK
  <2>2. CASE PollSucceeds(d)
    <3>1. [connected |-> TRUE, time |-> clock + 1, error |-> NoError] \in Snapshot
      BY <2>1 DEF Snapshot
    <3>. QED
      BY <2>1, <2>2, <3>1, PublishType DEF PollSucceeds
  <2>3. CASE DropSnapshot(d)
    BY <2>1, <2>3, NullTypes, PublishType DEF DropSnapshot
  <2>4. ASSUME NEW e \in Errors, PollFails(d, e) PROVE TypeOK'
    <3>1. [snapshots[d] EXCEPT !.connected = FALSE, !.error = e] \in Snapshot
      BY <2>1 DEF Snapshot
    <3>2. clock' = clock + 1
      BY <2>4, Zenon DEF PollFails
    <3>3. Publish(d, [snapshots[d] EXCEPT !.connected = FALSE, !.error = e])
      BY <2>4, Zenon DEF PollFails
    <3>. QED
      BY <2>1, <3>1, <3>2, <3>3, PublishType
  <2>. QED
    BY <1>1, <2>2, <2>3, <2>4
<1>2. CASE RecordEvent
  BY <1>2 DEF RecordEvent, TypeOK, memory, tick, bounds
<1>3. CASE TimePasses
  BY <1>3 DEF TimePasses, TypeOK, database, memory, tick, bounds
<1>4. CASE Crash
  BY <1>4, NullTypes, BoundsAssumption DEF Crash, TypeOK, database
<1>. QED
  BY <1>1, <1>2, <1>3, <1>4

LEMMA ServiceType ==
  ASSUME TypeOK, Service
  PROVE  TypeOK'
<1>1. CASE TakeSnapshots
  BY <1>1 DEF TakeSnapshots, TypeOK, database, memory, bounds
<1>2. CASE CheckRetention
  BY <1>2, PeriodsAssumption DEF CheckRetention, TypeOK, database, memory, bounds
<1>3. CASE DeleteInterfaceSamples
  BY <1>3 DEF DeleteInterfaceSamples, TypeOK, memory, bounds
<1>4. CASE DeleteSamples
  BY <1>4 DEF DeleteSamples, TypeOK, memory, bounds
<1>5. CASE DeleteEvents
  <2>1. clock + RetentionInterval \in Nat
    BY PeriodsAssumption DEF TypeOK
  <2>2. events' \subseteq Nat
    BY <1>5 DEF DeleteEvents, TypeOK
  <2>3. nextRetention' \in Nat /\ cutoff' \in Int /\ pc' = "Idle"
    BY <1>5, <2>1 DEF DeleteEvents
  <2>. QED
    BY <1>5, <2>2, <2>3 DEF DeleteEvents, TypeOK, bounds
<1>6. CASE Fail
  BY <1>6, NullTypes, BoundsAssumption DEF Fail, TypeOK, database, memory
<1>. QED
  BY <1>1, <1>2, <1>3, <1>4, <1>5, <1>6, DeviceType, SaveType DEF Service

\* Snapshots, samples, events and the locals of a tick keep their types
\* (MetricPersistenceBackgroundService).
THEOREM PersistenceTypes == Spec => []TypeOK
<1>1. TypeOK /\ [Next]_vars => TypeOK'
  <2> SUFFICES ASSUME TypeOK, [Next]_vars PROVE TypeOK'
    OBVIOUS
  <2>1. CASE UNCHANGED vars
    BY <2>1 DEF vars, TypeOK, database, memory, tick, bounds
  <2>. QED
    BY <2>1, ServiceType, EnvironmentType DEF Next
<1>. QED
  BY <1>1, InitType, PTL DEF Spec

-----------------------------------------------------------------------------
\* Between its two deletions the retention has left no interface sample that is
\* older than the samples it is about to delete.
YoungInterfaces == pc = "Samples" => \A r \in interfaceSamples : r.time >= cutoff

RowsInv == InterfaceSamplesHaveADevice /\ YoungInterfaces

LEMMA SaveKeepsRows ==
  ASSUME TypeOK, RowsInv, SaveSample
  PROVE  RowsInv'
<1>1. sample \in SampleRow
  BY SavedType
<1>2. ASSUME NEW r \in InterfaceRows(sample)
      PROVE  [device |-> r.device, time |-> r.time, connected |-> TRUE] = sample
  BY <1>1, <1>2 DEF InterfaceRows, SampleRow
<1>3. InterfaceSamplesHaveADevice'
  <2>1. CASE pc = "Known"
    <3>1. UNCHANGED <<samples, interfaceSamples>>
      BY <2>1 DEF SaveSample
    <3>. QED
      BY <3>1 DEF RowsInv, InterfaceSamplesHaveADevice
  <2>2. CASE pc # "Known"
    <3>1. /\ samples' = samples \cup {sample}
          /\ interfaceSamples' = interfaceSamples \cup InterfaceRows(sample)
      BY <2>2 DEF SaveSample
    <3>2. ASSUME NEW r \in interfaceSamples'
          PROVE  [device |-> r.device, time |-> r.time, connected |-> TRUE] \in samples'
      <4>1. CASE r \in interfaceSamples
        BY <3>1, <4>1 DEF RowsInv, InterfaceSamplesHaveADevice
      <4>2. CASE r \in InterfaceRows(sample)
        BY <1>2, <3>1, <4>2
      <4>. QED
        BY <3>1, <4>1, <4>2
    <3>. QED
      BY <3>2 DEF InterfaceSamplesHaveADevice
  <2>. QED
    BY <2>1, <2>2
<1>. QED
  BY <1>3 DEF SaveSample, RowsInv, YoungInterfaces

LEMMA DeletionKeepsRows ==
  ASSUME TypeOK, RowsInv, DeleteInterfaceSamples \/ DeleteSamples
  PROVE  RowsInv'
<1>1. CASE DeleteInterfaceSamples
  <2>1. interfaceSamples' \subseteq interfaceSamples /\ samples' = samples
    BY <1>1 DEF DeleteInterfaceSamples
  <2>2. \A r \in interfaceSamples' : r.time \in Nat /\ cutoff \in Int /\ ~(r.time < cutoff)
    BY <1>1 DEF DeleteInterfaceSamples, Before, TypeOK, InterfaceRow
  <2>. QED
    BY <1>1, <2>1, <2>2 DEF DeleteInterfaceSamples, RowsInv, InterfaceSamplesHaveADevice, YoungInterfaces
<1>2. CASE DeleteSamples
  <2>1. \A r \in interfaceSamples : r.time \in Nat /\ cutoff \in Int /\ r.time >= cutoff
    BY <1>2 DEF DeleteSamples, RowsInv, YoungInterfaces, TypeOK, InterfaceRow
  <2>2. ASSUME NEW r \in interfaceSamples
        PROVE  [device |-> r.device, time |-> r.time, connected |-> TRUE] \in samples'
    BY <1>2, <2>1 DEF DeleteSamples, Before, RowsInv, InterfaceSamplesHaveADevice
  <2>. QED
    BY <1>2, <2>2 DEF DeleteSamples, RowsInv, InterfaceSamplesHaveADevice, YoungInterfaces
<1>. QED
  BY <1>1, <1>2

\* Nothing else touches the two tables or reaches the second deletion.
LEMMA OthersKeepRows ==
  ASSUME TypeOK, RowsInv, Next, ~SaveSample, ~DeleteInterfaceSamples, ~DeleteSamples
  PROVE  RowsInv'
<1>1. UNCHANGED <<samples, interfaceSamples>>
  BY DEF Next, Service, TakeSnapshots, SkipDevice, FindSample, CheckRetention, DeleteEvents, Fail,
     PollSucceeds, PollFails, DropSnapshot, Publish, RecordEvent, TimePasses, Crash, database
<1>2. pc' = "Samples" => pc = "Samples" /\ cutoff' = cutoff
  BY DEF Next, Service, TakeSnapshots, SkipDevice, FindSample, CheckRetention, DeleteEvents, Fail,
     PollSucceeds, PollFails, DropSnapshot, Publish, RecordEvent, TimePasses, Crash, tick
<1>. QED
  BY <1>1, <1>2 DEF RowsInv, InterfaceSamplesHaveADevice, YoungInterfaces

\* An interface's sample belongs to a sample of its device, whatever fails and
\* whenever the process dies (PersistSafelyAsync).
THEOREM InterfaceRowsHaveADevice == Spec => []InterfaceSamplesHaveADevice
<1>1. Init => RowsInv
  BY DEF Init, RowsInv, InterfaceSamplesHaveADevice, YoungInterfaces
<1>2. TypeOK /\ RowsInv /\ [Next]_vars => RowsInv'
  <2> SUFFICES ASSUME TypeOK, RowsInv, [Next]_vars PROVE RowsInv'
    OBVIOUS
  <2>1. CASE UNCHANGED vars
    BY <2>1 DEF vars, RowsInv, InterfaceSamplesHaveADevice, YoungInterfaces, database, tick
  <2>. QED
    BY <2>1, SaveKeepsRows, DeletionKeepsRows, OthersKeepRows
<1>3. RowsInv => InterfaceSamplesHaveADevice
  BY DEF RowsInv
<1>. QED
  BY <1>1, <1>2, <1>3, PersistenceTypes, PTL DEF Spec

-----------------------------------------------------------------------------
(* Outages *)

Outages(d) == {r \in SamplesOf(d) : ~r.connected}
Stored(d) == Cardinality(Outages(d))

\* Whether a key that comes after another one begins an outage.
Begins(before, key) == ~key.connected /\ key # NoSnapshot /\ key # before
Count(before, key) == IF Begins(before, key) THEN 1 ELSE 0

\* A snapshot that is offline says why.
Explained(s) == s # NoSnapshot /\ ~s.connected => s.error # NoError

Saving == pc \in {"Save", "Known"}

\* What may still be stored has been counted: of the snapshot shown, and of the
\* one the tick has taken, followed by the one shown.
OutageInv ==
  /\ IsFiniteSet(samples)
  /\ \A d \in Devices : Explained(snapshots[d]) /\ Explained(todo[d])
  /\ Saving =>
       /\ todo[sample.device] # NoSnapshot
       /\ sample.connected = todo[sample.device].connected
       /\ Key(todo[sample.device]) # lastKeys[sample.device]
  /\ \A d \in Devices : Stored(d) + Count(lastKeys[d], Key(snapshots[d])) <= outages[d]
  /\ \A d \in Devices : todo[d] # NoSnapshot =>
       Stored(d) + Count(lastKeys[d], Key(todo[d])) + Count(Key(todo[d]), Key(snapshots[d]))
         <= outages[d]

\* An outage between two keys is one before or one after any key in between.
LEMMA CountTriangle ==
  /\ \A a, b : Count(a, b) \in {0, 1} /\ Count(b, b) = 0
  /\ \A a, b, c : Count(a, c) <= Count(a, b) + Count(b, c)
  BY DEF Count, Begins

LEMMA OutagesAreFinite ==
  ASSUME IsFiniteSet(samples), NEW d
  PROVE  IsFiniteSet(Outages(d)) /\ Stored(d) \in Nat
<1>1. Outages(d) \subseteq samples
  BY DEF Outages, SamplesOf
<1>. QED
  BY <1>1, FS_Subset, FS_CardinalityType DEF Stored

\* Deletions make it fewer.
LEMMA FewerAreStored ==
  ASSUME IsFiniteSet(samples), samples' \subseteq samples, NEW d
  PROVE  IsFiniteSet(samples') /\ Stored(d)' <= Stored(d) /\ Stored(d)' \in Nat
<1>1. Outages(d)' \subseteq Outages(d)
  BY DEF Outages, SamplesOf
<1>2. IsFiniteSet(samples') /\ IsFiniteSet(Outages(d)) /\ IsFiniteSet(Outages(d)')
  BY <1>1, FS_Subset, OutagesAreFinite
<1>. QED
  BY <1>1, <1>2, FS_Subset, FS_CardinalityType DEF Stored

LEMMA KeyFacts ==
  /\ Key(NoSnapshot) = NoSnapshot
  /\ \A s \in Snapshot : Key(s).connected = s.connected
  /\ \A s \in Snapshot : s # NoSnapshot /\ ~s.connected /\ Explained(s) => Key(s) # NoSnapshot
  BY DEF Key, NoSnapshot, Snapshot, Explained

\* A snapshot that is published begins an outage only if that is counted.
LEMMA PublishKeepsOutages ==
  ASSUME TypeOK, OutageInv, NEW d \in Devices, NEW s \in Snapshot, Explained(s), Publish(d, s)
  PROVE  OutageInv'
<1>1. /\ samples' = samples /\ lastKeys' = lastKeys /\ todo' = todo /\ sample' = sample /\ pc' = pc
      /\ snapshots' = [snapshots EXCEPT ![d] = s]
      /\ outages' = IF Offline(s) /\ Key(s) # Key(snapshots[d]) THEN [outages EXCEPT ![d] = @ + 1]
                                                               ELSE outages
  BY DEF Publish, database, memory, tick
<1>2. \A e \in Devices : Stored(e)' = Stored(e) /\ Stored(e) \in Nat /\ outages[e] \in Nat
  BY <1>1, OutagesAreFinite DEF Stored, Outages, SamplesOf, OutageInv, TypeOK
<1>3. \A e \in Devices : e # d => snapshots'[e] = snapshots[e] /\ outages'[e] = outages[e]
  BY <1>1 DEF TypeOK
<1>4. snapshots'[d] = s /\ outages'[d] >= outages[d] + Count(Key(snapshots[d]), Key(s))
  <2>1. Count(Key(snapshots[d]), Key(s)) = 1 => Offline(s) /\ Key(s) # Key(snapshots[d])
    BY KeyFacts DEF Count, Begins, Offline
  <2>. QED
    BY <1>1, <1>2, <2>1, CountTriangle DEF TypeOK
<1>5. ASSUME NEW a PROVE Count(a, Key(s)) <= Count(a, Key(snapshots[d])) + Count(Key(snapshots[d]), Key(s))
  BY CountTriangle
<1>6. outages'[d] \in Nat
  BY <1>1, <1>2 DEF TypeOK
<1>7. ASSUME NEW e \in Devices
      PROVE  /\ Stored(e)' + Count(lastKeys[e], Key(snapshots'[e])) <= outages'[e]
             /\ todo[e] # NoSnapshot =>
                  Stored(e)' + Count(lastKeys[e], Key(todo[e])) + Count(Key(todo[e]), Key(snapshots'[e]))
                    <= outages'[e]
  <2>1. CASE e # d
    BY <1>2, <1>3, <2>1 DEF OutageInv
  <2>2. CASE e = d
    <3>. DEFINE k == Key(snapshots[d])
                n == Stored(d)
    <3>1. /\ n + Count(lastKeys[d], k) <= outages[d]
          /\ todo[d] # NoSnapshot =>
               n + Count(lastKeys[d], Key(todo[d])) + Count(Key(todo[d]), k) <= outages[d]
      BY DEF OutageInv
    <3>2. /\ Count(lastKeys[d], k) \in {0, 1} /\ Count(lastKeys[d], Key(todo[d])) \in {0, 1}
          /\ Count(Key(todo[d]), k) \in {0, 1} /\ Count(k, Key(s)) \in {0, 1}
          /\ Count(lastKeys[d], Key(s)) \in {0, 1} /\ Count(Key(todo[d]), Key(s)) \in {0, 1}
      BY CountTriangle
    <3>3. /\ Count(lastKeys[d], Key(s)) <= Count(lastKeys[d], k) + Count(k, Key(s))
          /\ Count(Key(todo[d]), Key(s)) <= Count(Key(todo[d]), k) + Count(k, Key(s))
      BY <1>5
    <3>4. n \in Nat /\ outages[d] \in Nat /\ Stored(d)' = n /\ outages'[d] >= outages[d] + Count(k, Key(s))
      BY <1>2, <1>4
    <3>. HIDE DEF k, n
    <3>. QED
      BY <1>4, <1>6, <2>2, <3>1, <3>2, <3>3, <3>4
  <2>. QED
    BY <2>1, <2>2
<1>8. \A e \in Devices : Explained(snapshots'[e]) /\ Explained(todo'[e])
  BY <1>1, <1>3, <1>4 DEF OutageInv
<1>. QED
  BY <1>1, <1>7, <1>8 DEF OutageInv, Saving

\* What is saved of an outage has been counted.
LEMMA SaveKeepsOutages ==
  ASSUME TypeOK, OutageInv, SaveSample
  PROVE  OutageInv'
<1>0. PICK c \in Devices : c = sample.device
  BY SavedType DEF SaveSample, SampleRow
<1>. DEFINE S == samples \cup {sample}
<1>1. /\ sample \in SampleRow
      /\ todo[c] \in Snapshot /\ todo[c] # NoSnapshot /\ Explained(todo[c])
      /\ sample.connected = todo[c].connected
      /\ Key(todo[c]) # lastKeys[c]
  BY <1>0, SavedType DEF SaveSample, OutageInv, Saving, SampleRow, TypeOK
<1>2. /\ samples' \subseteq S
      /\ lastKeys' = [lastKeys EXCEPT ![c] = Key(todo[c])]
      /\ todo' = [todo EXCEPT ![c] = NoSnapshot]
      /\ snapshots' = snapshots /\ outages' = outages /\ pc' = "Devices"
  BY <1>0 DEF SaveSample, Remembered
<1>3. IsFiniteSet(samples')
  <2>1. IsFiniteSet(S)
    BY FS_AddElement DEF OutageInv
  <2>. QED
    BY <1>2, <2>1, FS_Subset
<1>4. ASSUME NEW d \in Devices, d # c \/ sample.connected
      PROVE  Stored(d)' <= Stored(d) /\ Stored(d)' \in Nat /\ Stored(d) \in Nat
  <2>1. Outages(d)' \subseteq Outages(d)
    BY <1>0, <1>2, <1>4 DEF Outages, SamplesOf
  <2>2. IsFiniteSet(Outages(d)) /\ IsFiniteSet(Outages(d)')
    BY <2>1, OutagesAreFinite, FS_Subset DEF OutageInv
  <2>. QED
    BY <2>1, <2>2, FS_Subset, FS_CardinalityType DEF Stored
<1>5. Stored(c)' <= Stored(c) + 1 /\ Stored(c)' \in Nat /\ Stored(c) \in Nat
  <2>1. Outages(c)' \subseteq Outages(c) \cup {sample}
    BY <1>2 DEF Outages, SamplesOf
  <2>2. IsFiniteSet(Outages(c)) /\ Stored(c) \in Nat
    BY OutagesAreFinite DEF OutageInv
  <2>3. /\ IsFiniteSet(Outages(c) \cup {sample})
        /\ Cardinality(Outages(c) \cup {sample}) \in {Stored(c), Stored(c) + 1}
    BY <2>2, FS_AddElement DEF Stored
  <2>4. /\ IsFiniteSet(Outages(c)')
        /\ Cardinality(Outages(c)') <= Cardinality(Outages(c) \cup {sample})
        /\ Cardinality(Outages(c)') \in Nat
    BY <2>1, <2>3, FS_Subset, FS_CardinalityType
  <2>. QED
    BY <2>2, <2>3, <2>4 DEF Stored
<1>6. Stored(c)' <= Stored(c) + Count(lastKeys[c], Key(todo[c]))
  <2>1. CASE sample.connected
    BY <1>1, <1>4, <2>1, CountTriangle
  <2>2. CASE ~sample.connected
    <3>1. Count(lastKeys[c], Key(todo[c])) = 1
      BY <1>1, <2>2, KeyFacts DEF Count, Begins
    <3>. QED
      BY <1>5, <3>1
  <2>. QED
    BY <2>1, <2>2
<1>. HIDE DEF S
<1>7. ASSUME NEW d \in Devices
      PROVE  Stored(d)' + Count(lastKeys'[d], Key(snapshots[d])) <= outages[d]
  <2>1. outages[d] \in Nat
    BY DEF TypeOK
  <2>2. CASE d # c
    <3>1. lastKeys'[d] = lastKeys[d]
      BY <1>2, <2>2 DEF TypeOK
    <3>. QED
      BY <1>4, <2>1, <2>2, <3>1, CountTriangle DEF OutageInv
  <2>3. CASE d = c
    <3>1. lastKeys'[c] = Key(todo[c])
      BY <1>1, <1>2 DEF TypeOK
    <3>2. Stored(c) + Count(lastKeys[c], Key(todo[c])) + Count(Key(todo[c]), Key(snapshots[c])) <= outages[c]
      BY <1>1 DEF OutageInv
    <3>3. Count(lastKeys[c], Key(todo[c])) \in {0, 1} /\ Count(Key(todo[c]), Key(snapshots[c])) \in {0, 1}
      BY CountTriangle
    <3>. QED
      BY <1>5, <1>6, <2>1, <2>3, <3>1, <3>2, <3>3
  <2>. QED
    BY <2>2, <2>3
<1>8. ASSUME NEW d \in Devices, todo'[d] # NoSnapshot
      PROVE  Stored(d)' + Count(lastKeys'[d], Key(todo'[d])) + Count(Key(todo'[d]), Key(snapshots[d]))
               <= outages[d]
  <2>1. d # c
    BY <1>1, <1>2, <1>8 DEF TypeOK
  <2>2. lastKeys'[d] = lastKeys[d] /\ todo'[d] = todo[d] /\ outages[d] \in Nat
    BY <1>2, <2>1 DEF TypeOK
  <2>3. Stored(d) + Count(lastKeys[d], Key(todo[d])) + Count(Key(todo[d]), Key(snapshots[d])) <= outages[d]
    BY <1>8, <2>2 DEF OutageInv
  <2>4. Count(lastKeys[d], Key(todo[d])) \in {0, 1} /\ Count(Key(todo[d]), Key(snapshots[d])) \in {0, 1}
    BY CountTriangle
  <2>. QED
    BY <1>4, <2>1, <2>2, <2>3, <2>4
<1>9. \A d \in Devices : Explained(snapshots'[d]) /\ Explained(todo'[d])
  BY <1>1, <1>2 DEF OutageInv, Explained, TypeOK
<1>. QED
  BY <1>2, <1>3, <1>7, <1>8, <1>9 DEF OutageInv, Saving

\* Other steps of a tick store nothing; they take snapshots or give some up.
LEMMA TickKeepsOutages ==
  ASSUME TypeOK, OutageInv, Service, ~SaveSample
  PROVE  OutageInv'
<1>1. /\ samples' \subseteq samples /\ lastKeys' = lastKeys
      /\ snapshots' = snapshots /\ outages' = outages
  BY DEF Service, TakeSnapshots, SkipDevice, FindSample, CheckRetention, DeleteInterfaceSamples,
     DeleteSamples, DeleteEvents, Fail, database, memory
<1>2. \A d \in Devices : todo'[d] \in {NoSnapshot, todo[d], snapshots[d]}
  BY DEF Service, TakeSnapshots, SkipDevice, FindSample, CheckRetention, DeleteInterfaceSamples,
     DeleteSamples, DeleteEvents, Fail, TypeOK
<1>3. Saving' => \E d \in Devices : FindSample(d)
  BY DEF Service, TakeSnapshots, SkipDevice, CheckRetention, DeleteInterfaceSamples,
     DeleteSamples, DeleteEvents, Fail, Saving
<1>4. ASSUME NEW d \in Devices, FindSample(d)
      PROVE  /\ todo'[sample'.device] # NoSnapshot
             /\ sample'.connected = todo'[sample'.device].connected
             /\ Key(todo'[sample'.device]) # lastKeys'[sample'.device]
  BY <1>1, <1>4 DEF FindSample, Sample
<1>5. ASSUME NEW d \in Devices
      PROVE  /\ Stored(d)' + Count(lastKeys[d], Key(snapshots[d])) <= outages[d]
             /\ todo'[d] # NoSnapshot =>
                  Stored(d)' + Count(lastKeys[d], Key(todo'[d])) + Count(Key(todo'[d]), Key(snapshots[d]))
                    <= outages[d]
  <2>1. Stored(d)' <= Stored(d) /\ Stored(d)' \in Nat /\ Stored(d) \in Nat /\ outages[d] \in Nat
    BY <1>1, FewerAreStored, OutagesAreFinite DEF OutageInv, TypeOK
  <2>2. /\ Stored(d) + Count(lastKeys[d], Key(snapshots[d])) <= outages[d]
        /\ todo[d] # NoSnapshot =>
             Stored(d) + Count(lastKeys[d], Key(todo[d])) + Count(Key(todo[d]), Key(snapshots[d]))
               <= outages[d]
    BY DEF OutageInv
  <2>3. /\ Count(lastKeys[d], Key(snapshots[d])) \in {0, 1}
        /\ Count(lastKeys[d], Key(todo[d])) \in {0, 1}
        /\ Count(Key(todo[d]), Key(snapshots[d])) \in {0, 1}
        /\ Count(Key(snapshots[d]), Key(snapshots[d])) = 0
    BY CountTriangle
  <2>4. CASE todo'[d] = NoSnapshot
    BY <2>1, <2>2, <2>3, <2>4
  <2>5. CASE todo'[d] = todo[d]
    BY <2>1, <2>2, <2>3, <2>5
  <2>6. CASE todo'[d] = snapshots[d]
    BY <2>1, <2>2, <2>3, <2>6
  <2>. QED
    BY <1>2, <2>4, <2>5, <2>6
<1>6. IsFiniteSet(samples')
  BY <1>1, FS_Subset DEF OutageInv
<1>7. \A d \in Devices : Explained(snapshots'[d]) /\ Explained(todo'[d])
  BY <1>1, <1>2 DEF OutageInv, Explained
<1>. QED
  BY <1>1, <1>3, <1>4, <1>5, <1>6, <1>7 DEF OutageInv

LEMMA CrashKeepsOutages ==
  ASSUME TypeOK, OutageInv, Crash
  PROVE  OutageInv'
<1>1. /\ samples' = samples /\ outages' = outages /\ pc' = "Idle"
      /\ \A d \in Devices : snapshots'[d] = NoSnapshot /\ lastKeys'[d] = NoSnapshot /\ todo'[d] = NoSnapshot
  BY DEF Crash, database
<1>2. ASSUME NEW d \in Devices
      PROVE  Stored(d)' + Count(NoSnapshot, Key(NoSnapshot)) <= outages[d]
  <2>1. Stored(d)' = Stored(d) /\ Stored(d) \in Nat /\ outages[d] \in Nat
    BY <1>1, OutagesAreFinite DEF Stored, Outages, SamplesOf, OutageInv, TypeOK
  <2>2. Count(NoSnapshot, Key(NoSnapshot)) = 0 /\ Count(lastKeys[d], Key(snapshots[d])) \in {0, 1}
    BY CountTriangle, KeyFacts
  <2>3. Stored(d) + Count(lastKeys[d], Key(snapshots[d])) <= outages[d]
    BY DEF OutageInv
  <2>. QED
    BY <2>1, <2>2, <2>3
<1>. QED
  BY <1>1, <1>2 DEF OutageInv, Saving, Explained

\* What OutageInv speaks of stays the same.
LEMMA RestKeepsOutages ==
  ASSUME OutageInv, UNCHANGED <<samples, snapshots, lastKeys, todo, sample, pc, outages>>
  PROVE  OutageInv'
  BY DEF OutageInv, Saving, Stored, Outages, SamplesOf

LEMMA StoreKeepsOutages ==
  ASSUME TypeOK, OutageInv, NEW d \in Devices,
         PollSucceeds(d) \/ DropSnapshot(d) \/ \E e \in Errors : PollFails(d, e)
  PROVE  OutageInv'
<1>0. clock \in Nat /\ snapshots[d] \in Snapshot /\ Explained(snapshots[d])
  BY DEF TypeOK, OutageInv
<1>1. CASE PollSucceeds(d)
  <2>. DEFINE s == [connected |-> TRUE, time |-> clock + 1, error |-> NoError]
  <2>1. s \in Snapshot /\ Explained(s)
    BY <1>0 DEF Snapshot, Explained
  <2>. QED
    BY <1>1, <2>1, PublishKeepsOutages DEF PollSucceeds
<1>2. CASE DropSnapshot(d)
  <2>1. Explained(NoSnapshot)
    BY DEF Explained
  <2>. QED
    BY <1>2, <2>1, NullTypes, PublishKeepsOutages DEF DropSnapshot
<1>3. ASSUME NEW e \in Errors, PollFails(d, e) PROVE OutageInv'
  <2>. DEFINE s == [snapshots[d] EXCEPT !.connected = FALSE, !.error = e]
  <2>1. s \in Snapshot /\ s.error = e
    BY <1>0 DEF Snapshot
  <2>2. Publish(d, s)
    BY <1>3, Zenon DEF PollFails
  <2>. HIDE DEF s
  <2>3. Explained(s)
    BY <2>1, ErrorsAssumption DEF Explained
  <2>. QED
    BY <2>1, <2>2, <2>3, PublishKeepsOutages
<1>. QED
  BY <1>1, <1>2, <1>3

\* An outage is stored once, whatever fails and whenever the process dies
\* (MetricPersistencePolicy, PersistSnapshotAsync).
THEOREM OutagesAreStoredOnce == Spec => []OutageIsStoredOnce
<1>1. Init => OutageInv
  <2> SUFFICES ASSUME Init PROVE OutageInv
    OBVIOUS
  <2>1. \A d \in Devices : Stored(d) = 0 /\ Count(lastKeys[d], Key(snapshots[d])) = 0
    <3>1. \A d \in Devices : Outages(d) = {}
      BY DEF Init, Outages, SamplesOf
    <3>. QED
      BY <3>1, FS_EmptySet, CountTriangle, KeyFacts DEF Init, Stored
  <2>. QED
    BY <2>1, FS_EmptySet DEF Init, OutageInv, Saving, Explained
<1>2. TypeOK /\ OutageInv /\ [Next]_vars => OutageInv'
  <2> SUFFICES ASSUME TypeOK, OutageInv, [Next]_vars PROVE OutageInv'
    OBVIOUS
  <2>1. CASE RecordEvent \/ TimePasses \/ UNCHANGED vars
    <3>1. UNCHANGED <<samples, snapshots, lastKeys, todo, sample, pc, outages>>
      BY <2>1 DEF RecordEvent, TimePasses, vars, database, memory, tick
    <3>. QED
      BY <3>1, RestKeepsOutages
  <2>. QED
    BY <2>1, SaveKeepsOutages, TickKeepsOutages, StoreKeepsOutages, CrashKeepsOutages DEF Next
<1>3. TypeOK /\ OutageInv => OutageIsStoredOnce
  <2> SUFFICES ASSUME TypeOK, OutageInv, NEW d \in Devices PROVE Stored(d) <= outages[d]
    BY DEF OutageIsStoredOnce, Stored, Outages
  <2>1. Stored(d) \in Nat /\ outages[d] \in Nat /\ Count(lastKeys[d], Key(snapshots[d])) \in {0, 1}
    BY OutagesAreFinite, CountTriangle DEF OutageInv, TypeOK
  <2>. QED
    BY <2>1 DEF OutageInv
<1>. QED
  BY <1>1, <1>2, <1>3, PersistenceTypes, PTL DEF Spec
-----------------------------------------------------------------------------
(* What is remembered *)

\* The sample that the key of d was remembered for is in the table: that of the
\* poll, or, of an outage, one that is the latest of its device.
KeyIsStored(d) == \E r \in SamplesOf(d) :
  /\ r.connected = lastKeys[d].connected /\ r.time = lastSaved[d].time
  /\ IF r.connected THEN r.time = lastKeys[d].time
                    ELSE \A q \in SamplesOf(d) : q.time <= r.time

\* What is remembered as stored has been stored, and is so for as long as the
\* retention spares that very sample.
RememberedIsStored == \A d \in Devices :
  /\ lastSaved[d].key = lastKeys[d]
  /\ \/ lastKeys[d] = NoSnapshot
     \/ KeyIsStored(d)
     \/ lastSaved[d].time < clock - Retention

\* A sample to save is what the tick has taken: of the poll, or of now.
SavesWhatWasTaken ==
  LET d == sample.device
      s == todo[d]
  IN  Saving =>
        /\ s # NoSnapshot /\ sample.connected = s.connected /\ sample.time <= clock
        /\ s.connected => sample.time = s.time
        /\ ~s.connected =>
             /\ \A r \in samples : r.time < sample.time
             /\ snapshots[d].connected => snapshots[d].time # sample.time
        /\ pc = "Known" => \E r \in samples : r.device = d /\ r.time = sample.time

\* Nothing is of a time to come, and no outage of the time of a poll.
TimesInv ==
  /\ \A r \in samples : r.time <= clock
  /\ \A d \in Devices : snapshots[d].time <= clock /\ todo[d].time <= clock
  /\ pc \in {"Interfaces", "Samples"} => cutoff <= clock - Retention
  /\ \A r \in samples : ~r.connected =>
       \A s \in {snapshots[r.device], todo[r.device]} : s.connected => s.time # r.time

RememberInv == TimesInv /\ SavesWhatWasTaken /\ RememberedIsStored

LEMMA TimeTypes ==
  ASSUME TypeOK
  PROVE  /\ clock \in Nat /\ cutoff \in Int /\ Retention \in Nat \ {0}
         /\ \A r \in samples : r.time \in Nat /\ r.device \in Devices /\ r.connected \in BOOLEAN
         /\ \A d \in Devices : /\ snapshots[d] \in Snapshot /\ snapshots[d].time \in Nat
                               /\ todo[d] \in Snapshot /\ todo[d].time \in Nat
                               /\ lastKeys[d] \in Snapshot /\ lastKeys[d].time \in Nat
                               /\ lastSaved[d].time \in Nat
         /\ Saving => sample \in SampleRow /\ sample.time \in Nat /\ sample.device \in Devices
  BY PeriodsAssumption DEF TypeOK, SampleRow, Snapshot, Saving

\* The clock does not go back.
LEMMA ClockGoesOn == TypeOK /\ [Next]_vars => clock' \in Nat /\ clock' >= clock
<1> SUFFICES ASSUME TypeOK, [Next]_vars PROVE clock' \in {clock, clock + 1}
  BY TimeTypes
<1>1. CASE Service
  BY <1>1 DEF Service, TakeSnapshots, SkipDevice, FindSample, SaveSample, CheckRetention,
     DeleteInterfaceSamples, DeleteSamples, DeleteEvents, Fail
<1>2. ASSUME NEW d \in Devices, PollSucceeds(d) \/ DropSnapshot(d) \/ \E e \in Errors : PollFails(d, e)
      PROVE  clock' \in {clock, clock + 1}
  BY <1>2, Zenon DEF PollSucceeds, DropSnapshot, PollFails
<1>3. CASE RecordEvent \/ TimePasses \/ Crash
  BY <1>3 DEF RecordEvent, TimePasses, Crash
<1>4. CASE UNCHANGED vars
  BY <1>4 DEF vars
<1>. QED
  BY <1>1, <1>2, <1>3, <1>4 DEF Next

\* As long as nothing is stored or deleted, only time can pass.
LEMMA RestKeepsRemembered ==
  ASSUME TypeOK, [Next]_vars, RememberedIsStored, UNCHANGED <<samples, lastKeys, lastSaved>>
  PROVE  RememberedIsStored'
<1>1. clock' \in Nat /\ clock' >= clock
  BY ClockGoesOn
<1>2. \A d \in Devices : SamplesOf(d)' = SamplesOf(d)
  BY DEF SamplesOf
<1>3. \A d \in Devices : KeyIsStored(d) => KeyIsStored(d)'
  BY <1>2 DEF KeyIsStored
<1>4. \A d \in Devices : lastSaved[d].time < clock - Retention => lastSaved[d].time < clock' - Retention
  BY <1>1, TimeTypes
<1>. QED
  BY <1>3, <1>4 DEF RememberedIsStored

\* What is about to be remembered is stored in the same transaction.
LEMMA SaveIsRemembered ==
  ASSUME TypeOK, RememberInv, SaveSample
  PROVE  RememberedIsStored'
<1>1. PICK c \in Devices : c = sample.device
  BY SavedType DEF SaveSample, SampleRow
<1>2. sample \in SampleRow /\ sample.time \in Nat /\ Saving /\ todo[c] \in Snapshot /\ todo[c] # NoSnapshot
  BY <1>1, SavedType, TimeTypes DEF SaveSample, Saving, RememberInv, SavesWhatWasTaken
<1>3. /\ clock' = clock /\ lastKeys' = [lastKeys EXCEPT ![c] = Key(todo[c])]
      /\ lastSaved' = [lastSaved EXCEPT ![c] = [key |-> Key(todo[c]), time |-> sample.time]]
      /\ samples' = IF pc = "Known" THEN samples ELSE samples \cup {sample}
  BY <1>1 DEF SaveSample, Remembered
<1>4. ASSUME NEW d \in Devices, d # c
      PROVE  SamplesOf(d)' = SamplesOf(d) /\ lastKeys'[d] = lastKeys[d] /\ lastSaved'[d] = lastSaved[d]
  BY <1>1, <1>3, <1>4 DEF SamplesOf, TypeOK
<1>5. /\ lastKeys'[c] = Key(todo[c])
      /\ lastSaved'[c].key = Key(todo[c]) /\ lastSaved'[c].time = sample.time
  BY <1>3 DEF TypeOK
<1>6. \E r \in SamplesOf(c)' :
        /\ r.connected = todo[c].connected /\ r.time = sample.time
        /\ IF r.connected THEN r.time = todo[c].time ELSE \A q \in SamplesOf(c)' : q.time <= r.time
  <2>1. CASE pc = "Known"
    <3>1. PICK r \in samples : r.device = c /\ r.time = sample.time
      BY <1>1, <1>2, <2>1 DEF RememberInv, SavesWhatWasTaken
    <3>2. todo[c].connected
      <4>1. ~todo[c].connected => r.time < sample.time
        BY <1>1, <1>2 DEF RememberInv, SavesWhatWasTaken
      <4>. QED
        BY <1>2, <3>1, <4>1 DEF Snapshot
    <3>3. r.time = todo[c].time
      BY <1>1, <1>2, <3>1, <3>2 DEF RememberInv, SavesWhatWasTaken
    <3>4. r.connected = TRUE
      BY <1>1, <3>1, <3>2, <3>3, TimeTypes DEF RememberInv, TimesInv
    <3>5. r \in SamplesOf(c)'
      BY <1>3, <2>1, <3>1 DEF SamplesOf
    <3>. QED
      BY <3>1, <3>2, <3>3, <3>4, <3>5
  <2>2. CASE pc # "Known" /\ todo[c].connected
    <3>1. sample \in SamplesOf(c)' /\ sample.connected = todo[c].connected /\ sample.time = todo[c].time
      BY <1>1, <1>2, <1>3, <2>2 DEF SamplesOf, RememberInv, SavesWhatWasTaken
    <3>. QED
      BY <2>2, <3>1
  <2>3. CASE pc # "Known" /\ ~todo[c].connected
    <3>1. /\ sample \in SamplesOf(c)' /\ sample.connected = todo[c].connected
          /\ \A r \in samples : r.time < sample.time
      BY <1>1, <1>2, <1>3, <2>3 DEF SamplesOf, RememberInv, SavesWhatWasTaken
    <3>2. \A q \in SamplesOf(c)' : q = sample \/ q \in samples
      BY <1>3 DEF SamplesOf
    <3>3. \A q \in SamplesOf(c)' : q.time <= sample.time
      BY <1>2, <3>1, <3>2, TimeTypes
    <3>. QED
      BY <2>3, <3>1, <3>3
  <2>. QED
    BY <1>2, <2>1, <2>2, <2>3
<1>7. Key(todo[c]).connected = todo[c].connected /\ (todo[c].connected => Key(todo[c]) = todo[c])
  BY <1>2, KeyFacts DEF Key
<1>8. KeyIsStored(c)'
  BY <1>5, <1>6, <1>7 DEF KeyIsStored
<1>9. ASSUME NEW d \in Devices, d # c, KeyIsStored(d)
      PROVE  KeyIsStored(d)'
  BY <1>4, <1>9 DEF KeyIsStored
<1>. QED
  BY <1>3, <1>4, <1>5, <1>8, <1>9 DEF RememberInv, RememberedIsStored

\* What the retention deletes is older than the cutoff.
LEMMA DeletionKeepsRemembered ==
  ASSUME TypeOK, RememberInv, DeleteSamples
  PROVE  RememberedIsStored'
<1>1. /\ samples' = samples \ Before(cutoff, samples)
      /\ UNCHANGED <<lastKeys, lastSaved, clock>>
      /\ cutoff <= clock - Retention
  BY DEF DeleteSamples, memory, RememberInv, TimesInv
<1>2. \A d \in Devices : SamplesOf(d)' \subseteq SamplesOf(d)
  BY <1>1 DEF SamplesOf
<1>3. ASSUME NEW d \in Devices, NEW r \in SamplesOf(d)
      PROVE  r \in SamplesOf(d)' \/ r.time < clock - Retention
  <2>1. r \in samples /\ r.device = d /\ r.time \in Nat
    BY TimeTypes DEF SamplesOf
  <2>2. r \in samples' => r \in SamplesOf(d)'
    BY <2>1 DEF SamplesOf
  <2>3. r \notin samples' => r.time < cutoff
    BY <1>1, <2>1 DEF Before
  <2>. QED
    BY <1>1, <2>1, <2>2, <2>3, TimeTypes
<1>4. ASSUME NEW d \in Devices, KeyIsStored(d)
      PROVE  KeyIsStored(d)' \/ lastSaved[d].time < clock - Retention
  <2>1. PICK r \in SamplesOf(d) :
          /\ r.connected = lastKeys[d].connected /\ r.time = lastSaved[d].time
          /\ IF r.connected THEN r.time = lastKeys[d].time
                            ELSE \A q \in SamplesOf(d) : q.time <= r.time
    BY <1>4 DEF KeyIsStored
  <2>2. CASE r \in SamplesOf(d)'
    BY <1>1, <1>2, <2>1, <2>2 DEF KeyIsStored
  <2>3. CASE r.time < clock - Retention
    BY <2>1, <2>3
  <2>. QED
    BY <1>3, <2>2, <2>3
<1>. QED
  BY <1>1, <1>4 DEF RememberInv, RememberedIsStored

\* The table and the memory change in these steps only.
LEMMA OthersKeepRemembered ==
  ASSUME TypeOK, RememberInv, [Next]_vars
  PROVE  RememberedIsStored'
<1>1. CASE SaveSample
  BY <1>1, SaveIsRemembered
<1>2. CASE DeleteSamples
  BY <1>2, DeletionKeepsRemembered
<1>3. CASE Crash
  BY <1>3 DEF Crash, RememberedIsStored, NothingSaved
<1>4. CASE Service /\ ~SaveSample /\ ~DeleteSamples
  <2>1. UNCHANGED <<samples, lastKeys, lastSaved>>
    BY <1>4 DEF Service, TakeSnapshots, SkipDevice, FindSample, CheckRetention, DeleteInterfaceSamples,
       DeleteEvents, Fail, database, memory
  <2>. QED
    BY <2>1, RestKeepsRemembered DEF RememberInv
<1>5. ASSUME NEW d \in Devices, PollSucceeds(d) \/ DropSnapshot(d) \/ \E e \in Errors : PollFails(d, e)
      PROVE  RememberedIsStored'
  <2>1. UNCHANGED <<database, memory, lastSaved>>
    BY <1>5, Zenon DEF PollSucceeds, DropSnapshot, PollFails, Publish
  <2>. QED
    BY <2>1, RestKeepsRemembered DEF RememberInv, database, memory
<1>6. CASE RecordEvent \/ TimePasses \/ UNCHANGED vars
  <2>1. UNCHANGED <<samples, lastKeys, lastSaved>>
    BY <1>6 DEF RecordEvent, TimePasses, vars, database, memory
  <2>. QED
    BY <2>1, RestKeepsRemembered DEF RememberInv
<1>. QED
  BY <1>1, <1>2, <1>3, <1>4, <1>5, <1>6 DEF Next

\* A snapshot that is published is of now, or keeps the time of the one before
\* without being online.
LEMMA PublishKeepsTimes ==
  ASSUME TypeOK, TimesInv, SavesWhatWasTaken, NEW d \in Devices, NEW s \in Snapshot, Publish(d, s),
         clock' \in Nat, clock' >= clock, s.time <= clock', s.connected => s.time > clock
  PROVE  TimesInv' /\ SavesWhatWasTaken'
<1>1. /\ samples' = samples /\ pc' = pc /\ todo' = todo /\ sample' = sample /\ cutoff' = cutoff
      /\ snapshots' = [snapshots EXCEPT ![d] = s]
  BY DEF Publish, database, tick
<1>2. \A e \in Devices : snapshots'[e] = IF e = d THEN s ELSE snapshots[e]
  BY <1>1 DEF TypeOK
<1>3. s.time \in Nat
  BY DEF Snapshot
<1>4. TimesInv'
  BY <1>1, <1>2, <1>3, TimeTypes DEF TimesInv
<1>5. SavesWhatWasTaken'
  BY <1>1, <1>2, <1>3, TimeTypes DEF SavesWhatWasTaken, Saving
<1>. QED
  BY <1>4, <1>5

LEMMA StoreKeepsTimes ==
  ASSUME TypeOK, TimesInv, SavesWhatWasTaken, NEW d \in Devices,
         PollSucceeds(d) \/ DropSnapshot(d) \/ \E e \in Errors : PollFails(d, e)
  PROVE  TimesInv' /\ SavesWhatWasTaken'
<1>1. clock \in Nat /\ snapshots[d] \in Snapshot /\ snapshots[d].time \in Nat /\ snapshots[d].time <= clock
  BY TimeTypes DEF TimesInv
<1>2. CASE PollSucceeds(d)
  <2>. DEFINE s == [connected |-> TRUE, time |-> clock + 1, error |-> NoError]
  <2>1. s \in Snapshot /\ s.time = clock + 1
    BY <1>1 DEF Snapshot
  <2>. QED
    BY <1>1, <1>2, <2>1, PublishKeepsTimes DEF PollSucceeds
<1>3. CASE DropSnapshot(d)
  <2>1. NoSnapshot.time = 0 /\ NoSnapshot.connected = FALSE
    BY DEF NoSnapshot
  <2>. QED
    BY <1>1, <1>3, <2>1, NullTypes, PublishKeepsTimes DEF DropSnapshot
<1>4. ASSUME NEW e \in Errors, PollFails(d, e) PROVE TimesInv' /\ SavesWhatWasTaken'
  <2>. DEFINE s == [snapshots[d] EXCEPT !.connected = FALSE, !.error = e]
  <2>1. s \in Snapshot /\ s.time = snapshots[d].time /\ s.connected = FALSE
    BY <1>1 DEF Snapshot
  <2>2. Publish(d, s) /\ clock' = clock + 1
    BY <1>4, Zenon DEF PollFails
  <2>. HIDE DEF s
  <2>. QED
    BY <1>1, <2>1, <2>2, PublishKeepsTimes
<1>. QED
  BY <1>2, <1>3, <1>4

LEMMA SampleIsOfWhatWasTaken ==
  ASSUME TypeOK, TimesInv, NEW d \in Devices, FindSample(d)
  PROVE  TimesInv' /\ SavesWhatWasTaken'
<1>1. /\ samples' = samples /\ snapshots' = snapshots /\ todo' = todo
      /\ sample' = Sample(d, todo[d]) /\ todo[d] # NoSnapshot
      /\ clock' = IF todo[d].connected THEN clock ELSE clock + 1
      /\ pc' = IF \E r \in samples : r.device = d /\ r.time = sample'.time THEN "Known" ELSE "Save"
  BY DEF FindSample, database
<1>2. /\ sample'.device = d /\ sample'.connected = todo[d].connected
      /\ sample'.time = IF todo[d].connected THEN todo[d].time ELSE clock + 1
  BY <1>1 DEF Sample
<1>3. TimesInv'
  BY <1>1, TimeTypes DEF TimesInv
<1>4. SavesWhatWasTaken'
  BY <1>1, <1>2, TimeTypes DEF SavesWhatWasTaken, TimesInv
<1>. QED
  BY <1>3, <1>4

LEMMA SaveKeepsTimes ==
  ASSUME TypeOK, TimesInv, SavesWhatWasTaken, SaveSample
  PROVE  TimesInv' /\ SavesWhatWasTaken'
<1>1. PICK c \in Devices : c = sample.device
  BY SavedType DEF SaveSample, SampleRow
<1>2. /\ samples' \subseteq samples \cup {sample} /\ pc' = "Devices"
      /\ clock' = clock /\ snapshots' = snapshots
      /\ todo' = [todo EXCEPT ![c] = NoSnapshot] /\ Saving
  BY <1>1 DEF SaveSample, Saving
<1>3. sample \in SampleRow /\ sample.time \in Nat /\ sample.time <= clock
  BY <1>2, TimeTypes DEF SavesWhatWasTaken
<1>4. \A d \in Devices : todo'[d] = IF d = c THEN NoSnapshot ELSE todo[d]
  BY <1>2 DEF TypeOK
<1>5. NoSnapshot.time = 0 /\ NoSnapshot.connected = FALSE
  BY DEF NoSnapshot
<1>6. ~sample.connected => ~(snapshots[c].connected /\ snapshots[c].time = sample.time)
  BY <1>1, <1>2 DEF SavesWhatWasTaken
<1>7. \A r \in samples' : r.time <= clock
  BY <1>2, <1>3 DEF TimesInv
<1>8. ASSUME NEW r \in samples', ~r.connected, NEW s \in {snapshots[r.device], todo'[r.device]}, s.connected
      PROVE  s.time # r.time
  <2>1. CASE r \in samples
    <3>1. r.device \in Devices
      BY <2>1, TimeTypes
    <3>. QED
      BY <1>4, <1>5, <1>8, <2>1, <3>1 DEF TimesInv
  <2>2. CASE r = sample
    BY <1>1, <1>4, <1>5, <1>6, <1>8, <2>2
  <2>. QED
    BY <1>2, <2>1, <2>2
<1>9. \A d \in Devices : snapshots[d].time <= clock /\ todo'[d].time <= clock
  BY <1>4, <1>5, TimeTypes DEF TimesInv
<1>10. TimesInv'
  BY <1>2, <1>7, <1>8, <1>9 DEF TimesInv
<1>11. SavesWhatWasTaken'
  BY <1>2 DEF SavesWhatWasTaken, Saving
<1>. QED
  BY <1>10, <1>11

LEMMA TickKeepsTimes ==
  ASSUME TypeOK, TimesInv, Service, ~SaveSample, ~\E d \in Devices : FindSample(d)
  PROVE  TimesInv' /\ SavesWhatWasTaken'
<1>1. /\ samples' \subseteq samples /\ snapshots' = snapshots /\ clock' = clock
      /\ ~Saving'
  BY DEF Service, TakeSnapshots, SkipDevice, CheckRetention, DeleteInterfaceSamples,
     DeleteSamples, DeleteEvents, Fail, database, Saving
<1>2. \A d \in Devices : todo'[d] \in {NoSnapshot, todo[d], snapshots[d]}
  BY DEF Service, TakeSnapshots, SkipDevice, CheckRetention, DeleteInterfaceSamples,
     DeleteSamples, DeleteEvents, Fail, TypeOK
<1>3. pc' \in {"Interfaces", "Samples"} => cutoff' <= clock - Retention
  BY TimeTypes DEF Service, TakeSnapshots, SkipDevice, CheckRetention, DeleteInterfaceSamples,
     DeleteSamples, DeleteEvents, Fail, TimesInv
<1>4. NoSnapshot.time = 0 /\ NoSnapshot.connected = FALSE
  BY DEF NoSnapshot
<1>5. \A d \in Devices : todo'[d].time <= clock
  BY <1>2, <1>4, TimeTypes DEF TimesInv
<1>6. ASSUME NEW r \in samples', ~r.connected, NEW s \in {snapshots[r.device], todo'[r.device]}, s.connected
      PROVE  s.time # r.time
  <2>1. r \in samples /\ r.device \in Devices
    BY <1>1, TimeTypes
  <2>2. s \in {NoSnapshot, snapshots[r.device], todo[r.device]}
    BY <1>2, <2>1
  <2>. QED
    BY <1>4, <1>6, <2>1, <2>2 DEF TimesInv
<1>7. TimesInv'
  BY <1>1, <1>3, <1>5, <1>6 DEF TimesInv
<1>. QED
  BY <1>1, <1>7 DEF SavesWhatWasTaken

LEMMA RememberInit == Init => RememberInv
<1> SUFFICES ASSUME Init PROVE RememberInv
  OBVIOUS
<1>1. \A d \in Devices : /\ snapshots[d] = NoSnapshot /\ todo[d] = NoSnapshot
                         /\ lastKeys[d] = NoSnapshot /\ lastSaved[d] = NothingSaved
  BY DEF Init
<1>2. NoSnapshot.time = 0 /\ NothingSaved.key = NoSnapshot
  BY DEF NoSnapshot, NothingSaved
<1>3. TimesInv
  BY <1>1, <1>2 DEF Init, TimesInv
<1>4. SavesWhatWasTaken
  BY DEF Init, SavesWhatWasTaken, Saving
<1>5. RememberedIsStored
  BY <1>1, <1>2 DEF RememberedIsStored
<1>. QED
  BY <1>3, <1>4, <1>5 DEF RememberInv

LEMMA RememberStep == TypeOK /\ RememberInv /\ [Next]_vars => RememberInv'
<1> SUFFICES ASSUME TypeOK, RememberInv, [Next]_vars PROVE TimesInv' /\ SavesWhatWasTaken'
  BY OthersKeepRemembered DEF RememberInv
<1>1. CASE Service
  BY <1>1, SampleIsOfWhatWasTaken, SaveKeepsTimes, TickKeepsTimes DEF RememberInv
<1>2. ASSUME NEW d \in Devices, PollSucceeds(d) \/ DropSnapshot(d) \/ \E e \in Errors : PollFails(d, e)
      PROVE  TimesInv' /\ SavesWhatWasTaken'
  BY <1>2, StoreKeepsTimes DEF RememberInv
<1>3. CASE RecordEvent \/ TimePasses \/ UNCHANGED vars
  <2>1. UNCHANGED <<samples, snapshots, pc, todo, sample, cutoff>> /\ clock' \in Nat /\ clock' >= clock
    BY <1>3, ClockGoesOn DEF RecordEvent, TimePasses, vars, database, tick
  <2>. QED
    BY <2>1, TimeTypes DEF RememberInv, TimesInv, SavesWhatWasTaken, Saving
<1>4. CASE Crash
  <2>1. /\ samples' = samples /\ clock' = clock /\ pc' = "Idle"
        /\ \A d \in Devices : snapshots'[d] = NoSnapshot /\ todo'[d] = NoSnapshot
    BY <1>4 DEF Crash, database
  <2>2. NoSnapshot.time = 0 /\ NoSnapshot.connected = FALSE
    BY DEF NoSnapshot
  <2>3. TimesInv'
    BY <2>1, <2>2, TimeTypes DEF RememberInv, TimesInv
  <2>. QED
    BY <2>1, <2>3 DEF SavesWhatWasTaken, Saving
<1>. QED
  BY <1>1, <1>2, <1>3, <1>4 DEF Next

\* A key is remembered only when its sample has been saved, and that sample is in
\* the table until it is older than the retention, whatever fails and whenever the
\* process dies: no tick skips a snapshot that is not stored
\* (PersistSnapshotAsync, MetricPersistenceBackgroundService.cs:67).
THEOREM RememberedKeysAreStored == Spec => []RememberedIsStored
<1>1. RememberInv => RememberedIsStored
  BY DEF RememberInv
<1>. QED
  BY <1>1, RememberInit, RememberStep, PersistenceTypes, PTL DEF Spec

-----------------------------------------------------------------------------
(* The retention *)

\* Only what is older than its time is deleted, and the next retention is
\* scheduled only by one that has left nothing older than its cutoff.
RetentionIsExact ==
  /\ \A r \in (samples \ samples') \cup (interfaceSamples \ interfaceSamples') : r.time < clock - Retention
  /\ \A time \in events \ events' : time < clock - EventRetention
  /\ nextRetention' > nextRetention =>
       /\ \A r \in samples' \cup interfaceSamples' : r.time >= cutoff
       /\ \A time \in events' : time >= clock - EventRetention

\* What the deletions so far have left is not older than the cutoff.
LeftInv ==
  /\ pc \in {"Samples", "Events"} => \A r \in interfaceSamples : r.time >= cutoff
  /\ pc = "Events" => \A r \in samples : r.time >= cutoff

LEMMA LeftStep == TypeOK /\ LeftInv /\ [Next]_vars => LeftInv'
<1> SUFFICES ASSUME TypeOK, LeftInv, [Next]_vars PROVE LeftInv'
  OBVIOUS
<1>0. /\ cutoff \in Int /\ \A r \in samples : r.time \in Nat
      /\ \A r \in interfaceSamples : r.time \in Nat
  BY DEF TypeOK, SampleRow, InterfaceRow
<1>1. CASE DeleteInterfaceSamples
  BY <1>0, <1>1 DEF DeleteInterfaceSamples, Before, LeftInv
<1>2. CASE DeleteSamples
  BY <1>0, <1>2 DEF DeleteSamples, Before, LeftInv
<1>3. CASE Service /\ ~DeleteInterfaceSamples /\ ~DeleteSamples
  BY <1>3 DEF Service, TakeSnapshots, SkipDevice, FindSample, SaveSample, CheckRetention, DeleteEvents,
     Fail, LeftInv
<1>4. ASSUME NEW d \in Devices, PollSucceeds(d) \/ DropSnapshot(d) \/ \E e \in Errors : PollFails(d, e)
      PROVE  LeftInv'
  <2>1. UNCHANGED <<database, tick>>
    BY <1>4, Zenon DEF PollSucceeds, DropSnapshot, PollFails, Publish
  <2>. QED
    BY <2>1 DEF LeftInv, database, tick
<1>5. CASE RecordEvent \/ TimePasses \/ Crash \/ UNCHANGED vars
  BY <1>5 DEF RecordEvent, TimePasses, Crash, vars, LeftInv, database, tick
<1>. QED
  BY <1>1, <1>2, <1>3, <1>4, <1>5 DEF Next

LEMMA RetentionStep == TypeOK /\ TimesInv /\ LeftInv /\ [Next]_vars => RetentionIsExact
<1> SUFFICES ASSUME TypeOK, TimesInv, LeftInv, [Next]_vars PROVE RetentionIsExact
  OBVIOUS
<1>0. /\ cutoff \in Int /\ clock \in Nat /\ nextRetention \in Nat
      /\ Retention \in Nat /\ EventRetention \in Nat
      /\ \A r \in samples \cup interfaceSamples : r.time \in Nat
      /\ \A time \in events : time \in Nat
  BY PeriodsAssumption DEF TypeOK, SampleRow, InterfaceRow
<1>1. CASE DeleteInterfaceSamples
  BY <1>0, <1>1 DEF DeleteInterfaceSamples, Before, TimesInv, memory, RetentionIsExact
<1>2. CASE DeleteSamples
  BY <1>0, <1>2 DEF DeleteSamples, Before, TimesInv, memory, RetentionIsExact
<1>3. CASE DeleteEvents
  BY <1>0, <1>3 DEF DeleteEvents, LeftInv, RetentionIsExact
<1>4. CASE Service /\ ~DeleteInterfaceSamples /\ ~DeleteSamples /\ ~DeleteEvents
  <2>1. /\ samples \subseteq samples' /\ interfaceSamples \subseteq interfaceSamples'
        /\ events' = events /\ nextRetention' = nextRetention
    BY <1>4 DEF Service, TakeSnapshots, SkipDevice, FindSample, SaveSample, CheckRetention, Fail,
       database, memory
  <2>. QED
    BY <1>0, <2>1 DEF RetentionIsExact
<1>5. ASSUME NEW d \in Devices, PollSucceeds(d) \/ DropSnapshot(d) \/ \E e \in Errors : PollFails(d, e)
      PROVE  RetentionIsExact
  <2>1. UNCHANGED <<database, memory>>
    BY <1>5, Zenon DEF PollSucceeds, DropSnapshot, PollFails, Publish
  <2>. QED
    BY <1>0, <2>1 DEF RetentionIsExact, database, memory
<1>6. CASE RecordEvent \/ TimePasses \/ Crash \/ UNCHANGED vars
  <2>1. /\ samples' = samples /\ interfaceSamples' = interfaceSamples /\ events \subseteq events'
        /\ nextRetention' \in {nextRetention, 0}
    BY <1>6 DEF RecordEvent, TimePasses, Crash, vars, database, memory
  <2>. QED
    BY <1>0, <2>1 DEF RetentionIsExact
<1>. QED
  BY <1>1, <1>2, <1>3, <1>4, <1>5, <1>6 DEF Next

\* The retention deletes nothing before its time, and one that is interrupted
\* anywhere is due again (PersistSafelyAsync): the next one is not scheduled
\* until all that was too old has gone.
THEOREM RetentionsAreExact == Spec => [][RetentionIsExact]_vars
<1>1. Init => RememberInv /\ LeftInv
  BY RememberInit DEF Init, LeftInv
<1>2. RememberInv => TimesInv
  BY DEF RememberInv
<1>3. TypeOK /\ TimesInv /\ LeftInv /\ [Next]_vars => [RetentionIsExact]_vars
  BY RetentionStep
<1>. QED
  BY <1>1, <1>2, <1>3, RememberStep, LeftStep, PersistenceTypes, PTL DEF Spec

-----------------------------------------------------------------------------
(* What the ticks achieve *)

\* A snapshot without a connection tells why.
ErrorsInv == \A d \in Devices :
  snapshots[d] = NoSnapshot \/ snapshots[d].connected \/ snapshots[d].error \in Errors

LEMMA ErrorsAreGiven == Spec => []ErrorsInv
<1>1. Init => ErrorsInv
  BY DEF Init, ErrorsInv
<1>2. TypeOK /\ ErrorsInv /\ [Next]_vars => ErrorsInv'
  <2> SUFFICES ASSUME TypeOK, ErrorsInv, [Next]_vars PROVE ErrorsInv'
    OBVIOUS
  <2>1. CASE snapshots' = snapshots
    BY <2>1 DEF ErrorsInv
  <2>2. CASE Crash
    BY <2>2 DEF Crash, ErrorsInv
  <2>3. ASSUME NEW d \in Devices, PollSucceeds(d) \/ DropSnapshot(d)
        PROVE  ErrorsInv'
    <3>1. \E s : snapshots' = [snapshots EXCEPT ![d] = s] /\ (s = NoSnapshot \/ s.connected)
      BY <2>3 DEF PollSucceeds, DropSnapshot, Publish
    <3>. QED
      BY <3>1 DEF ErrorsInv, TypeOK
  <2>4. ASSUME NEW d \in Devices, NEW e \in Errors, PollFails(d, e)
        PROVE  ErrorsInv'
    <3>1. snapshots' = [snapshots EXCEPT ![d] = [snapshots[d] EXCEPT !.connected = FALSE, !.error = e]]
      BY <2>4 DEF PollFails, Publish
    <3>2. snapshots[d] \in Snapshot
      BY DEF TypeOK
    <3>3. snapshots'[d].error = e
      BY <3>1, <3>2 DEF TypeOK, Snapshot
    <3>. QED
      BY <3>1, <3>3 DEF ErrorsInv, TypeOK
  <2>5. CASE Service \/ RecordEvent \/ TimePasses \/ UNCHANGED vars
    <3>1. snapshots' = snapshots
      BY <2>5 DEF Service, TakeSnapshots, SkipDevice, FindSample, SaveSample, CheckRetention,
         DeleteInterfaceSamples, DeleteSamples, DeleteEvents, Fail, RecordEvent, TimePasses, vars
    <3>. QED
      BY <2>1, <3>1
  <2>. QED
    BY <2>2, <2>3, <2>4, <2>5 DEF Next
<1>. QED
  BY <1>1, <1>2, PersistenceTypes, PTL DEF Spec

\* The snapshot of d is the one remembered as stored.
IsRemembered(d) == snapshots[d] = NoSnapshot \/ lastKeys[d] = Key(snapshots[d])

\* While snapshots do not change: what the tick does not have before it any
\* more, it has found remembered or stored.
Looked(d) ==
  pc \in {"Devices", "Save", "Known"} =>
    todo[d] = snapshots[d] \/ (todo[d] = NoSnapshot /\ IsRemembered(d))

LEMMA RememberedIsShown ==
  ASSUME TypeOK, RememberInv, ErrorsInv, NEW d \in Devices, IsRemembered(d)
  PROVE  HistoryShows(d)
<1> SUFFICES ASSUME snapshots[d] # NoSnapshot
             PROVE  HistoryShows(d)
  BY DEF HistoryShows
<1>1. snapshots[d] \in Snapshot /\ lastKeys[d] = Key(snapshots[d])
  BY DEF TypeOK, IsRemembered
<1>2. /\ lastKeys[d].connected = snapshots[d].connected
      /\ lastKeys[d].connected => lastKeys[d].time = snapshots[d].time
      /\ lastKeys[d].error = snapshots[d].error
  BY <1>1 DEF Key, Snapshot
<1>3. lastKeys[d] # NoSnapshot
  BY <1>2, ErrorsAssumption DEF ErrorsInv, NoSnapshot
<1>4. CASE KeyIsStored(d)
  BY <1>2, <1>4 DEF KeyIsStored, HistoryShows
<1>5. CASE lastSaved[d].key = lastKeys[d] /\ lastSaved[d].time < clock - Retention
  BY <1>1, <1>5 DEF HistoryShows
<1>. QED
  BY <1>3, <1>4, <1>5 DEF RememberInv, RememberedIsStored

\* The steps that look at snapshots.
LEMMA LookedStays ==
  ASSUME TypeOK, RememberInv, NEW d \in Devices, Looked(d), [Next]_vars, snapshots' = snapshots
  PROVE  Looked(d)' /\ (IsRemembered(d) => IsRemembered(d)')
<1> DEFINE Goal == Looked(d)' /\ (IsRemembered(d) => IsRemembered(d)')
<1>1. todo \in [Devices -> Snapshot] /\ lastKeys \in [Devices -> Snapshot]
  BY DEF TypeOK
<1>2. CASE TakeSnapshots
  BY <1>2 DEF TakeSnapshots, Looked, IsRemembered, memory
<1>3. ASSUME NEW e \in Devices, SkipDevice(e)
      PROVE  Goal
  <2>1. /\ pc = "Devices" /\ todo[e] # NoSnapshot /\ Key(todo[e]) = lastKeys[e]
        /\ todo' = [todo EXCEPT ![e] = NoSnapshot] /\ lastKeys' = lastKeys /\ pc' = pc
    BY <1>3 DEF SkipDevice, memory
  <2>2. CASE e = d
    BY <1>1, <2>1, <2>2 DEF Looked, IsRemembered
  <2>3. CASE e # d
    BY <1>1, <2>1, <2>3 DEF Looked, IsRemembered
  <2>. QED
    BY <2>2, <2>3
<1>4. ASSUME NEW e \in Devices, FindSample(e)
      PROVE  Goal
  BY <1>4 DEF FindSample, Looked, IsRemembered, memory
<1>5. CASE SaveSample
  <2>1. PICK c \in Devices : c = sample.device
    BY <1>5, TimeTypes DEF SaveSample, Saving
  <2>2. /\ pc \in {"Save", "Known"} /\ todo[c] # NoSnapshot
        /\ lastKeys' = [lastKeys EXCEPT ![c] = Key(todo[c])]
        /\ todo' = [todo EXCEPT ![c] = NoSnapshot]
    BY <1>5, <2>1 DEF SaveSample, Remembered, RememberInv, SavesWhatWasTaken, Saving
  <2>3. CASE c = d
    BY <1>1, <2>2, <2>3 DEF Looked, IsRemembered
  <2>4. CASE c # d
    BY <1>1, <2>2, <2>4 DEF Looked, IsRemembered
  <2>. QED
    BY <2>3, <2>4
<1>6. CASE CheckRetention \/ DeleteInterfaceSamples \/ DeleteSamples \/ DeleteEvents \/ Fail
  BY <1>6 DEF CheckRetention, DeleteInterfaceSamples, DeleteSamples, DeleteEvents, Fail, Looked,
     IsRemembered, memory
<1>7. CASE Crash
  BY <1>7 DEF Crash, Looked, IsRemembered
<1>8. ASSUME NEW e \in Devices, PollSucceeds(e) \/ DropSnapshot(e) \/ \E m \in Errors : PollFails(e, m)
      PROVE  Goal
  <2>1. UNCHANGED <<memory, tick>>
    BY <1>8, Zenon DEF PollSucceeds, DropSnapshot, PollFails, Publish
  <2>. QED
    BY <2>1 DEF Looked, IsRemembered, memory, tick
<1>9. CASE RecordEvent \/ TimePasses \/ UNCHANGED vars
  BY <1>9 DEF RecordEvent, TimePasses, vars, Looked, IsRemembered, memory, tick
<1>. QED
  BY <1>2, <1>3, <1>4, <1>5, <1>6, <1>7, <1>8, <1>9 DEF Next, Service

\* As long as ticks get through their snapshots, the history catches up with
\* snapshots that have come to rest, whatever has failed before and whenever
\* the process dies (PersistSafelyAsync).
THEOREM TicksCatchUp == Spec /\ []<><<CheckRetention>>_vars => HistoryCatchesUp
<1> DEFINE Good == TypeOK /\ RememberInv /\ ErrorsInv
           AllLooked == \A d \in Devices : Looked(d)
           AllRemembered == \A d \in Devices : IsRemembered(d)
           AllShown == \A d \in Devices : HistoryShows(d)
<1>1. Good /\ AllLooked /\ [Next]_vars /\ [FALSE]_snapshots
        => AllLooked' /\ (AllRemembered => AllRemembered')
  BY LookedStays
<1>2. <<CheckRetention>>_vars => AllLooked' /\ (AllLooked /\ [FALSE]_snapshots => AllRemembered')
  BY DEF CheckRetention, Looked, IsRemembered, memory
<1>3. Good /\ AllRemembered => AllShown
  BY RememberedIsShown
<1>4. Spec => []Good
  BY RememberInit, RememberStep, PersistenceTypes, ErrorsAreGiven, PTL DEF Spec
<1> HIDE DEF Good, AllLooked, AllRemembered, AllShown
<1>5. Spec /\ []<><<CheckRetention>>_vars => (<>[][FALSE]_snapshots => <>[]AllShown)
  BY <1>1, <1>2, <1>3, <1>4, PTL DEF Spec
<1>. QED
  BY <1>5 DEF HistoryCatchesUp, AllShown

-----------------------------------------------------------------------------
(* What the retentions achieve *)

\* A deletion that is due is carried through, by whichever tick.
DueIsDone == [](Due => <><<DeleteEvents>>_vars)

\* What was too old when the retention became due is so for every deletion that
\* ends from then on.
IsOld(time) == /\ time < clock - Retention
               /\ pc \in {"Interfaces", "Samples", "Events"} => time < cutoff

LEMMA OldStays ==
  ASSUME TypeOK, NEW time \in Nat, [Next]_vars
  PROVE  /\ IsOld(time) => IsOld(time)'
         /\ time < clock - EventRetention => time < clock' - EventRetention
<1>1. /\ clock \in Nat /\ clock' \in Nat /\ clock' >= clock
      /\ Retention \in Nat /\ EventRetention \in Nat
  BY ClockGoesOn, PeriodsAssumption DEF TypeOK
<1>2. /\ time < clock - Retention => time < clock' - Retention
      /\ time < clock - EventRetention => time < clock' - EventRetention
  <2>1. \A a, b, c, r \in Nat : c >= b /\ a < b - r => a < c - r
    OBVIOUS
  <2>. QED
    BY <1>1, <2>1
<1>3. ASSUME UNCHANGED <<pc, cutoff>> \/ pc' \notin {"Interfaces", "Samples", "Events"}
      PROVE  IsOld(time) => IsOld(time)'
  BY <1>3, <1>2 DEF IsOld
<1>4. CASE CheckRetention
  <2>1. pc' = "Interfaces" => cutoff' = clock - Retention
    BY <1>4 DEF CheckRetention
  <2>2. pc' \in {"Interfaces", "Idle"}
    BY <1>4 DEF CheckRetention
  <2>. QED
    BY <1>2, <2>1, <2>2 DEF IsOld
<1>5. CASE DeleteInterfaceSamples \/ DeleteSamples
  BY <1>2, <1>5 DEF DeleteInterfaceSamples, DeleteSamples, IsOld
<1>6. CASE Service /\ ~CheckRetention /\ ~DeleteInterfaceSamples /\ ~DeleteSamples
  <2>1. UNCHANGED <<pc, cutoff>> \/ pc' \notin {"Interfaces", "Samples", "Events"}
    BY <1>6 DEF Service, TakeSnapshots, SkipDevice, FindSample, SaveSample, DeleteEvents, Fail
  <2>. QED
    BY <1>2, <1>3, <2>1
<1>7. ASSUME NEW d \in Devices, PollSucceeds(d) \/ DropSnapshot(d) \/ \E e \in Errors : PollFails(d, e)
      PROVE  IsOld(time) => IsOld(time)'
  <2>1. UNCHANGED tick
    BY <1>7, Zenon DEF PollSucceeds, DropSnapshot, PollFails, Publish
  <2>. QED
    BY <1>3, <2>1 DEF tick
<1>8. CASE RecordEvent \/ TimePasses \/ Crash \/ UNCHANGED vars
  <2>1. UNCHANGED <<pc, cutoff>> \/ pc' = "Idle"
    BY <1>8 DEF RecordEvent, TimePasses, Crash, vars, tick
  <2>. QED
    BY <1>2, <1>3, <2>1
<1>. QED
  BY <1>4, <1>5, <1>6, <1>7, <1>8, <1>2 DEF Next

\* If a retention that is due is carried through some day, what was too old by
\* then is deleted, even if a retention fails or the process dies in the middle
\* of it before.
THEOREM DueRetentionsDelete == Spec /\ DueIsDone => OldRowsGo
<1> SUFFICES ASSUME NEW time \in 1..MaxClock
             PROVE  Spec /\ DueIsDone =>
                      /\ Due /\ time < clock - Retention /\ Sampled(time) ~> ~Sampled(time)
                      /\ Due /\ time < clock - EventRetention /\ time \in events ~> time \notin events
  BY DEF OldRowsGo
<1> DEFINE OldSample == Due /\ time < clock - Retention /\ Sampled(time)
           OldEvent == time < clock - EventRetention
           Gone == ~Sampled(time)
           EventGone == time \notin events
<1>0. time \in Nat
  BY BoundsAssumption
<1>1. OldSample => IsOld(time)
  BY DEF Due, IsOld
<1>2. TypeOK /\ [Next]_vars => (IsOld(time) => IsOld(time)') /\ (OldEvent => OldEvent')
  BY <1>0, OldStays
<1>3. TypeOK /\ LeftInv /\ IsOld(time) /\ <<DeleteEvents>>_vars => Gone
  <2> SUFFICES ASSUME TypeOK, LeftInv, IsOld(time), DeleteEvents, Sampled(time)
               PROVE  FALSE
    OBVIOUS
  <2>1. pc = "Events" /\ time < cutoff /\ cutoff \in Int
    BY DEF DeleteEvents, IsOld, TypeOK
  <2>2. PICK r \in samples \cup interfaceSamples : time = r.time
    BY DEF Sampled
  <2>3. r.time >= cutoff
    BY <2>1 DEF LeftInv
  <2>. QED
    BY <1>0, <2>1, <2>2, <2>3
<1>4. TypeOK /\ OldEvent /\ <<DeleteEvents>>_vars => EventGone'
  <2>1. TypeOK => clock \in Nat /\ EventRetention \in Nat
    BY PeriodsAssumption DEF TypeOK
  <2>. QED
    BY <1>0, <2>1 DEF DeleteEvents
<1>5. Init => LeftInv
  BY DEF Init, LeftInv
<1>6. OldSample => Due
  OBVIOUS
<1> HIDE DEF OldSample, OldEvent, Gone, EventGone
<1>7. Spec /\ DueIsDone => (OldSample ~> Gone)
  BY <1>1, <1>2, <1>3, <1>5, <1>6, LeftStep, PersistenceTypes, PTL DEF Spec, DueIsDone
<1>8. Spec /\ DueIsDone => (Due /\ OldEvent ~> EventGone)
  BY <1>2, <1>4, PersistenceTypes, PTL DEF Spec, DueIsDone
<1>9. Due /\ OldEvent /\ time \in events => Due /\ OldEvent
  OBVIOUS
<1>10. Spec /\ DueIsDone => (Due /\ OldEvent /\ time \in events ~> EventGone)
  BY <1>8, <1>9, PTL
<1>. QED
  BY <1>7, <1>10 DEF OldSample, OldEvent, Gone, EventGone
=============================================================================
