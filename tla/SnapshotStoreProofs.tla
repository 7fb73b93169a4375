------------------------ MODULE SnapshotStoreProofs ------------------------
(***************************************************************************)
(* Proofs about SnapshotStore for any devices, addresses and requests.     *)
(***************************************************************************)
EXTENDS SnapshotStore, TLAPS, WellFoundedInduction

LEMMA LeastElement ==
  ASSUME NEW ids, ids \subseteq Nat, ids # {}
  PROVE  \E d \in ids : \A e \in ids : d <= e
<1>1. IsWellFoundedOn(OpToRel(<, Nat), Nat)
  BY NatLessThanWellFounded
<1>2. PICK d \in ids : \A e \in ids : ~(<<e, d>> \in OpToRel(<, Nat))
  BY <1>1, WFMin
<1>3. \A e \in ids : ~(e < d)
  BY <1>2 DEF OpToRel
<1>. QED
  BY <1>3

\* A set of devices has a first one.
LEMMA FirstDeviceIsOne ==
  ASSUME NEW ids, ids \subseteq Devices
  PROVE  /\ FirstDevice(ids) \in Devices \cup {0}
         /\ ids # {} => FirstDevice(ids) \in ids
<1>1. CASE ids = {}
  BY <1>1 DEF FirstDevice
<1>2. CASE ids # {}
  <2>1. \E d \in ids : \A e \in ids : d <= e
    BY <1>2, LeastElement, DevicesAssumption
  <2>. QED
    BY <1>2, <2>1 DEF FirstDevice
<1>. QED
  BY <1>1, <1>2

-----------------------------------------------------------------------------
(* The types *)

LEMMA NullTypes == NoSnapshot \in Snapshot /\ NoCall \in Call /\ None \in Addresses
  BY DEF NoSnapshot, Snapshot, Addresses, NoCall, Call, ControlStates

\* The ways in which a step changes a thread.
LEMMA CallTypes ==
  ASSUME threads \in [Threads -> Call], NEW t \in Threads, NEW pc \in ControlStates,
         NEW d \in Devices \cup {0}, NEW S \in SUBSET Devices
  PROVE  /\ [threads EXCEPT ![t].pc = pc] \in [Threads -> Call]
         /\ [threads EXCEPT ![t].stale = S] \in [Threads -> Call]
         /\ [threads EXCEPT ![t].pc = pc, ![t].device = d] \in [Threads -> Call]
         /\ [threads EXCEPT ![t].pc = pc, ![t].ids = S] \in [Threads -> Call]
         /\ [threads EXCEPT ![t].pc = pc, ![t].stale = S] \in [Threads -> Call]
<1>1. threads[t] \in Call
  OBVIOUS
<1>2. /\ [threads[t] EXCEPT !.pc = pc] \in Call
      /\ [threads[t] EXCEPT !.stale = S] \in Call
      /\ [threads[t] EXCEPT !.pc = pc, !.device = d] \in Call
      /\ [threads[t] EXCEPT !.pc = pc, !.ids = S] \in Call
      /\ [threads[t] EXCEPT !.pc = pc, !.stale = S] \in Call
  BY <1>1 DEF Call
<1>. QED
  BY <1>1, <1>2

LEMMA GoType ==
  ASSUME threads \in [Threads -> Call], NEW t \in Threads, NEW pc \in ControlStates, Go(t, pc)
  PROVE  threads' \in [Threads -> Call]
  BY CallTypes DEF Go

LEMMA ReturnType ==
  ASSUME threads \in [Threads -> Call], NEW t \in Threads, Return(t)
  PROVE  threads' \in [Threads -> Call]
<1>1. CASE t = Poller
  BY <1>1, GoType DEF Return, ControlStates
<1>2. CASE t # Poller
  BY <1>2, NullTypes DEF Return
<1>. QED
  BY <1>1, <1>2

LEMMA InitType == Init => TypeOK
<1> SUFFICES ASSUME Init PROVE TypeOK
  OBVIOUS
<1>1. devices \in [Devices -> [status : {"absent", "enabled", "disabled", "deleted"},
                               host : Addresses]]
  BY DEF Init, NoRow, Addresses
<1>2. threads \in [Threads -> Call]
  BY NullTypes DEF Init, Call, ControlStates
<1>. QED
  BY <1>1, <1>2, NullTypes, ChangesAssumption DEF Init, TypeOK

LEMMA SetActiveType ==
  ASSUME TypeOK, NEW t \in Threads, SetActiveDevices(t)
  PROVE  TypeOK'
<1>1. CASE FindStale(t)
  <2>1. Stale(threads[t].ids) \in SUBSET Devices /\ "Drop" \in ControlStates
    BY DEF Stale, Published, ControlStates
  <2>2. threads' \in [Threads -> Call]
    BY <1>1, <2>1, CallTypes DEF FindStale, TypeOK
  <2>. QED
    BY <1>1, <2>2 DEF FindStale, TypeOK, store, poll
<1>2. ASSUME NEW d \in Devices, DropSnapshot(t, d) PROVE TypeOK'
  BY <1>2, NullTypes DEF DropSnapshot, TypeOK, Call, poll
<1>3. CASE DropCounters(t)
  BY <1>3, NullTypes DEF DropCounters, Go, TypeOK, Call, ControlStates, poll
<1>4. FirstDevice(threads[t].ids) \in Devices \cup {0}
  BY FirstDeviceIsOne DEF TypeOK, Call
<1>5. CASE SetDefault(t)
  <2>1. threads' \in [Threads -> Call]
    <3>1. "FindDefault" \in ControlStates
      BY DEF ControlStates
    <3>. QED
      BY <1>5, <3>1, GoType DEF SetDefault, TypeOK
  <2>. QED
    BY <1>4, <1>5, <2>1 DEF SetDefault, TypeOK, poll
<1>6. CASE FindDefault(t)
  <2>1. threads' \in [Threads -> Call]
    <3>1. "SetCurrent" \in ControlStates
      BY DEF ControlStates
    <3>. QED
      BY <1>6, <3>1, ReturnType, GoType DEF FindDefault, TypeOK
  <2>. QED
    BY <1>6, <2>1 DEF FindDefault, TypeOK, store, poll
<1>7. CASE SetCurrent(t)
  <2>1. threads' \in [Threads -> Call]
    BY <1>7, ReturnType DEF SetCurrent, TypeOK
  <2>. QED
    BY <1>4, <1>7, <2>1 DEF SetCurrent, TypeOK, poll
<1>. QED
  BY <1>1, <1>2, <1>3, <1>5, <1>6, <1>7 DEF SetActiveDevices

Change(d, h, status) ==
  \/ CreateDevice(d, h, status)
  \/ \E r \in Requests : SaveDevice(r, d, h, status)

LEMMA ChangeType ==
  ASSUME TypeOK, NEW d \in Devices, NEW h \in Hosts, NEW status \in {"enabled", "disabled"},
         Change(d, h, status)
  PROVE  TypeOK'
<1>1. changes < MaxChanges => changes + 1 \in 0..MaxChanges
  BY ChangesAssumption DEF TypeOK
<1>2. "RemoveSnapshot" \in ControlStates
  BY DEF ControlStates
<1>3. CASE CreateDevice(d, h, status)
  BY <1>1, <1>3 DEF CreateDevice, TypeOK, Addresses, store, poll
<1>4. ASSUME NEW r \in Requests, SaveDevice(r, d, h, status) PROVE TypeOK'
  <2>1. threads' \in [Threads -> Call]
    BY <1>4, <1>2, CallTypes DEF SaveDevice, TypeOK, Threads
  <2>2. raced' \subseteq Devices
    BY <1>4 DEF SaveDevice, TypeOK
  <2>3. devices' \in [Devices -> [status : {"absent", "enabled", "disabled", "deleted"},
                                  host : Addresses]]
    BY <1>4 DEF SaveDevice, TypeOK, Addresses
  <2>. QED
    BY <1>1, <1>4, <2>1, <2>2, <2>3 DEF SaveDevice, TypeOK, store, poll
<1>. QED
  BY <1>3, <1>4 DEF Change

LEMMA RequestType ==
  ASSUME TypeOK, NEW r \in Requests,
         (\E d \in Devices : DeleteDevice(r, d)) \/ RemoveDevice(r)
  PROVE  TypeOK'
<1>1. changes < MaxChanges => changes + 1 \in 0..MaxChanges
  BY ChangesAssumption DEF TypeOK
<1>2. {"RemoveSnapshot", "ListKeys", "SetActive"} \subseteq ControlStates /\ r \in Threads
  BY DEF ControlStates, Threads
<1>3. ASSUME NEW d \in Devices, DeleteDevice(r, d) PROVE TypeOK'
  <2>1. threads' \in [Threads -> Call]
    BY <1>3, <1>2, CallTypes DEF DeleteDevice, TypeOK, Threads
  <2>2. devices' \in [Devices -> [status : {"absent", "enabled", "disabled", "deleted"},
                                  host : Addresses]]
    BY <1>3, NullTypes DEF DeleteDevice, NoRow, TypeOK
  <2>. QED
    BY <1>1, <1>3, <2>1, <2>2 DEF DeleteDevice, TypeOK, store, poll
<1>4. CASE RemoveSnapshot(r)
  BY <1>4, NullTypes DEF RemoveSnapshot, Go, TypeOK, Call, ControlStates, poll
<1>5. CASE RemoveCounters(r)
  BY <1>5, NullTypes DEF RemoveCounters, Go, TypeOK, Call, ControlStates, poll
<1>6. CASE CheckDefault(r)
  <2>1. threads' \in [Threads -> Call]
    BY <1>6, <1>2, ReturnType, GoType DEF CheckDefault, TypeOK
  <2>. QED
    BY <1>6, <2>1 DEF CheckDefault, TypeOK, store, poll
<1>7. CASE ListKeys(r)
  <2>1. threads' \in [Threads -> Call]
    BY <1>7, <1>2, CallTypes DEF ListKeys, TypeOK, Published
  <2>. QED
    BY <1>7, <2>1 DEF ListKeys, TypeOK, store, poll
<1>. QED
  BY <1>3, <1>4, <1>5, <1>6, <1>7 DEF RemoveDevice
\* While a device is being polled, it is one of those still to be polled.
AtWork == {"Count", "Fail", "Publish", "ReadDefault", "Claim", "ReadAgain", "WriteCurrent"}
RestInv ==
  /\ threads[Poller].pc \in AtWork => rest # {}
  /\ threads[Poller].pc = "Load" => rest = {}

LEMMA PolledIsOne ==
  ASSUME TypeOK
  PROVE  /\ Polled \in Devices \cup {0}
         /\ rest # {} => Polled \in rest /\ Polled \in Devices
  BY FirstDeviceIsOne DEF Polled, TypeOK

LEMMA NextDeviceType ==
  ASSUME TypeOK, NextDevice, current' \in Devices \cup {0}
  PROVE  TypeOK'
<1>1. threads' \in [Threads -> Call]
  <2>1. Poller \in Threads /\ "Poll" \in ControlStates
    BY DEF Threads, ControlStates
  <2>. QED
    BY <2>1, GoType DEF NextDevice, TypeOK
<1>. QED
  BY <1>1 DEF NextDevice, TypeOK

LEMMA AnswerType ==
  ASSUME TypeOK, rest # {}, NEW rate \in Addresses
  PROVE  Answer(rate) \in Snapshot
  BY PolledIsOne DEF Answer, TypeOK, Snapshot

LEMMA PollType ==
  ASSUME TypeOK, RestInv, Poll
  PROVE  TypeOK'
<1>1. /\ Poller \in Threads /\ threads \in [Threads -> Call]
      /\ {"SetActive", "Load", "Count", "Publish", "Fail", "ReadDefault", "WriteCurrent",
          "Claim", "ReadAgain", "Poll"} \subseteq ControlStates
  BY DEF Threads, TypeOK, ControlStates
<1>2. rest # {} => Polled \in rest /\ Polled \in Devices
  BY PolledIsOne
<1>3. CASE LoadDevices
  <2>1. Enabled \in SUBSET Devices
    BY DEF Enabled
  <2>2. threads' \in [Threads -> Call]
    BY <1>1, <1>3, <2>1, CallTypes DEF LoadDevices
  <2>3. round' \in [Devices -> Addresses]
    BY <1>3, NullTypes DEF LoadDevices, TypeOK
  <2>. QED
    BY <1>3, <2>1, <2>2, <2>3 DEF LoadDevices, TypeOK, store
<1>4. CASE FinishRound
  BY <1>1, <1>4, GoType, NullTypes DEF FinishRound, TypeOK, store
<1>5. CASE ReadCounters
  BY <1>1, <1>2, <1>5, GoType DEF ReadCounters, TypeOK, store
<1>6. CASE WriteCounters
  <2>1. rest # {}
    BY <1>6 DEF WriteCounters, At, RestInv, AtWork
  <2>2. answer' \in Snapshot /\ threads' \in [Threads -> Call]
    BY <1>1, <1>6, <2>1, AnswerType, GoType DEF WriteCounters, TypeOK
  <2>3. counters' \in [Devices -> Addresses]
    BY <1>2, <1>6, <2>1 DEF WriteCounters, TypeOK
  <2>. QED
    BY <1>6, <2>2, <2>3, NullTypes DEF WriteCounters, TypeOK
<1>7. CASE AnswerWithoutRate
  <2>1. answer' \in Snapshot /\ threads' \in [Threads -> Call]
    BY <1>1, <1>7, AnswerType, GoType, NullTypes DEF AnswerWithoutRate, TypeOK
  <2>2. counters' \in [Devices -> Addresses]
    BY <1>7, NullTypes DEF AnswerWithoutRate, TypeOK
  <2>. QED
    BY <1>7, <2>1, <2>2 DEF AnswerWithoutRate, TypeOK
<1>8. CASE Fail
  <2>1. rest # {}
    BY <1>8 DEF Fail, At, RestInv, AtWork
  <2>2. answer' \in Snapshot
    <3>1. snapshots[Polled] \in Snapshot /\ round[Polled] \in Addresses
      BY <1>2, <2>1 DEF TypeOK
    <3>. QED
      BY <1>8, <3>1 DEF Fail, Snapshot
  <2>3. threads' \in [Threads -> Call]
    BY <1>1, <1>8, GoType DEF Fail
  <2>. QED
    BY <1>8, <2>2, <2>3 DEF Fail, TypeOK, store
<1>9. CASE Skip
  <2>1. answer' \in Snapshot
    <3>1. round[Polled] \in Addresses
      BY <1>2, <1>9 DEF Skip, TypeOK
    <3>. QED
      BY <1>9, <3>1, NullTypes DEF Skip, Snapshot
  <2>2. threads' \in [Threads -> Call]
    BY <1>1, <1>9, GoType DEF Skip
  <2>. QED
    BY <1>9, <2>1, <2>2 DEF Skip, TypeOK, store
<1>10. CASE Publish
  <2>1. threads' \in [Threads -> Call]
    BY <1>1, <1>10, GoType DEF Publish
  <2>2. snapshots' \in [Devices -> Snapshot]
    BY <1>10 DEF Publish, TypeOK
  <2>. QED
    BY <1>10, <2>1, <2>2, NullTypes DEF Publish, TypeOK
<1>11. CASE ReadDefault
  <2>1. CASE Go(Poller, "WriteCurrent") /\ UNCHANGED <<devices, store, poll, raced, changes>>
    <3>1. threads' \in [Threads -> Call]
      BY <1>1, <2>1, GoType
    <3>. QED
      BY <2>1, <3>1 DEF TypeOK, store, poll
  <2>2. CASE Go(Poller, "Claim") /\ UNCHANGED <<devices, store, poll, raced, changes>>
    <3>1. threads' \in [Threads -> Call]
      BY <1>1, <2>2, GoType
    <3>. QED
      BY <2>2, <3>1 DEF TypeOK, store, poll
  <2>3. CASE NextDevice /\ UNCHANGED current
    BY <2>3, NextDeviceType DEF TypeOK
  <2>. QED
    BY <1>11, <2>1, <2>2, <2>3 DEF ReadDefault
<1>12. CASE ClaimDefault
  <2>1. threads' \in [Threads -> Call]
    BY <1>1, <1>12, GoType DEF ClaimDefault
  <2>2. default' \in Devices \cup {0}
    BY <1>12, PolledIsOne DEF ClaimDefault, TypeOK
  <2>. QED
    BY <1>12, <2>1, <2>2 DEF ClaimDefault, TypeOK, poll
<1>13. CASE WriteCurrent
  BY <1>13, NextDeviceType, PolledIsOne DEF WriteCurrent
<1>14. CASE SetActiveDevices(Poller)
  BY <1>1, <1>14, SetActiveType
<1>. QED
  BY <1>3, <1>4, <1>5, <1>6, <1>7, <1>8, <1>9, <1>10, <1>11, <1>12, <1>13, <1>14 DEF Poll

-----------------------------------------------------------------------------
(* What a step leaves alone *)

\* A request's step.
RequestStep(r) ==
  \/ \E d \in Devices : DeleteDevice(r, d)
  \/ RemoveDevice(r)
  \/ SetActiveDevices(r)

LEMMA ReturnLeaves ==
  ASSUME threads \in [Threads -> Call], NEW t \in Threads, Return(t), NEW u \in Threads \ {t}
  PROVE  threads'[u] = threads[u]
  BY DEF Return, Go

LEMMA RequestLeavesPoller ==
  ASSUME TypeOK, NEW r \in Requests,
         \/ RequestStep(r)
         \/ \E d \in Devices, h \in Hosts, status \in {"enabled", "disabled"} : SaveDevice(r, d, h, status)
  PROVE  UNCHANGED poll /\ \A t \in Threads \ {r} : threads'[t] = threads[t]
<1>1. r \in Threads /\ threads \in [Threads -> Call]
  BY DEF Threads, TypeOK
<1>2. CASE \E d \in Devices : DeleteDevice(r, d)
  BY <1>1, <1>2 DEF DeleteDevice, poll
<1>3. CASE RemoveDevice(r)
  BY <1>1, <1>3, ReturnLeaves DEF RemoveDevice, RemoveSnapshot, RemoveCounters, CheckDefault,
     ListKeys, Go, poll
<1>4. CASE SetActiveDevices(r)
  BY <1>1, <1>4, ReturnLeaves DEF SetActiveDevices, FindStale, DropSnapshot, DropCounters,
     SetDefault, FindDefault, SetCurrent, Go, poll
<1>5. CASE \E d \in Devices, h \in Hosts, status \in {"enabled", "disabled"} :
             SaveDevice(r, d, h, status)
  BY <1>1, <1>5 DEF SaveDevice, poll
<1>. QED
  BY <1>2, <1>3, <1>4, <1>5 DEF RequestStep

LEMMA PollerIsNoRequest == Poller \in Threads /\ \A r \in Requests : r # Poller /\ r \in Threads
  BY PollerAssumption DEF Threads

LEMMA GoPoller ==
  ASSUME TypeOK, NEW pc, Go(Poller, pc)
  PROVE  /\ threads'[Poller].pc = pc
         /\ threads'[Poller].ids = threads[Poller].ids
         /\ \A t \in Requests : threads'[t] = threads[t]
  BY PollerIsNoRequest DEF Go, TypeOK, Call

\* SetActiveDevices and RemoveDevice only take things out of the store.
OnlyRemoves == \A d \in Devices :
  snapshots'[d] \in {snapshots[d], NoSnapshot} /\ counters'[d] \in {counters[d], None}

LEMMA SetActiveOnlyRemoves ==
  ASSUME TypeOK, NEW t \in Threads, SetActiveDevices(t)
  PROVE  OnlyRemoves /\ UNCHANGED <<devices, poll, raced>>
  BY DEF SetActiveDevices, FindStale, DropSnapshot, DropCounters, SetDefault, FindDefault,
     SetCurrent, OnlyRemoves, TypeOK, store, poll

LEMMA RequestOnlyRemoves ==
  ASSUME TypeOK, NEW r \in Requests, RequestStep(r)
  PROVE  OnlyRemoves /\ UNCHANGED <<poll, raced>>
<1>1. CASE \E d \in Devices : DeleteDevice(r, d)
  BY <1>1 DEF DeleteDevice, OnlyRemoves, store, poll
<1>2. CASE RemoveDevice(r)
  BY <1>2 DEF RemoveDevice, RemoveSnapshot, RemoveCounters, CheckDefault, ListKeys, OnlyRemoves,
     TypeOK, store, poll
<1>3. CASE SetActiveDevices(r)
  BY <1>3, SetActiveOnlyRemoves, PollerIsNoRequest
<1>. QED
  BY <1>1, <1>2, <1>3 DEF RequestStep

LEMMA RemovedIsNotThere ==
  ASSUME OnlyRemoves
  PROVE  Published' \subseteq Published /\ Counted' \subseteq Counted
  BY DEF OnlyRemoves, Published, Counted, NoSnapshot

-----------------------------------------------------------------------------
(* The store is that of the round *)

RoundInv ==
  /\ TypeOK
  /\ RestInv
  /\ rest \subseteq threads[Poller].ids
  /\ threads[Poller].pc = "Drop" => Published \subseteq threads[Poller].ids \cup threads[Poller].stale
  /\ StoreIsOfTheRound

\* Of the poller: what RoundInv relates.
RoundView == <<threads[Poller], rest>>

LEMMA RemovalKeepsRound ==
  ASSUME RoundInv, TypeOK', OnlyRemoves, UNCHANGED RoundView
  PROVE  RoundInv'
  BY RemovedIsNotThere DEF RoundInv, RoundView, RestInv, StoreIsOfTheRound

LEMMA SetActiveKeepsRound ==
  ASSUME RoundInv, TypeOK', SetActiveDevices(Poller)
  PROVE  RoundInv'
<1>1. /\ threads \in [Threads -> Call] /\ threads[Poller] \in Call /\ Poller \in Threads
      /\ snapshots \in [Devices -> Snapshot] /\ counters \in [Devices -> Addresses]
  BY PollerIsNoRequest DEF RoundInv, TypeOK
<1>2. OnlyRemoves /\ rest' = rest
  BY SetActiveOnlyRemoves, PollerIsNoRequest DEF RoundInv, poll
<1>3. Published' \subseteq Published /\ Counted' \subseteq Counted
  BY <1>2, RemovedIsNotThere
<1>4. CASE FindStale(Poller)
  <2>1. threads'[Poller] = [threads[Poller] EXCEPT !.pc = "Drop", !.stale = Published \ threads[Poller].ids]
    BY <1>1, <1>4 DEF FindStale, Stale
  <2>2. threads'[Poller].pc = "Drop" /\ threads'[Poller].ids = threads[Poller].ids
        /\ threads'[Poller].stale = Published \ threads[Poller].ids
    BY <1>1, <2>1 DEF Call
  <2>. QED
    BY <1>2, <1>3, <2>2 DEF RoundInv, RestInv, AtWork, StoreIsOfTheRound
<1>5. ASSUME NEW d \in Devices, DropSnapshot(Poller, d) PROVE RoundInv'
  <2>1. threads'[Poller] = [threads[Poller] EXCEPT !.stale = threads[Poller].stale \ {d}]
    BY <1>1, <1>5 DEF DropSnapshot
  <2>2. threads'[Poller].pc = "Drop" /\ threads'[Poller].ids = threads[Poller].ids
        /\ threads'[Poller].stale = threads[Poller].stale \ {d}
    BY <1>1, <1>5, <2>1 DEF Call, DropSnapshot, At
  <2>3. d \notin Published'
    BY <1>1, <1>5 DEF DropSnapshot, Published, NoSnapshot
  <2>4. Published \subseteq threads[Poller].ids \cup threads[Poller].stale
    BY <1>5 DEF DropSnapshot, At, RoundInv
  <2>. QED
    BY <1>2, <1>3, <2>2, <2>3, <2>4 DEF RoundInv, RestInv, AtWork, StoreIsOfTheRound
<1>6. CASE DropCounters(Poller)
  <2>1. threads'[Poller].pc = "SetDefault" /\ threads'[Poller].ids = threads[Poller].ids
    BY <1>6, GoPoller DEF DropCounters, RoundInv
  <2>2. Published \subseteq threads[Poller].ids
    BY <1>6 DEF DropCounters, At, RoundInv
  <2>3. Counted' \subseteq threads[Poller].ids
    BY <1>1, <1>6 DEF DropCounters, Counted
  <2>. QED
    BY <1>2, <1>3, <2>1, <2>2, <2>3 DEF RoundInv, RestInv, AtWork, StoreIsOfTheRound
<1>7. CASE SetDefault(Poller) \/ FindDefault(Poller) \/ SetCurrent(Poller)
  <2>1. /\ threads'[Poller].pc \in {"FindDefault", "SetCurrent", "Poll"}
        /\ threads'[Poller].ids = threads[Poller].ids
    BY <1>7, GoPoller DEF SetDefault, FindDefault, SetCurrent, Return, RoundInv
  <2>2. threads[Poller].pc \in {"SetDefault", "FindDefault", "SetCurrent"}
    BY <1>7 DEF SetDefault, FindDefault, SetCurrent, At
  <2>. QED
    BY <1>2, <1>3, <2>1, <2>2 DEF RoundInv, RestInv, AtWork, StoreIsOfTheRound
<1>. QED
  BY <1>4, <1>5, <1>6, <1>7 DEF SetActiveDevices

\* A step of a poll adds nothing but the device polled to the store.
LEMMA PollAddsPolled ==
  ASSUME TypeOK, RestInv,
         \/ FinishRound \/ ReadCounters \/ WriteCounters \/ AnswerWithoutRate \/ Fail \/ Skip
         \/ Publish \/ ReadDefault \/ ClaimDefault \/ WriteCurrent
  PROVE  /\ Published' \subseteq Published \cup rest
         /\ Counted' \subseteq Counted \cup rest
         /\ rest' \subseteq rest
         /\ threads[Poller].pc \notin {"SetActive", "Drop"}
         /\ threads'[Poller].pc \notin {"SetActive", "Drop"}
         /\ threads'[Poller].ids = threads[Poller].ids
         /\ RestInv'
<1>1. rest # {} => Polled \in rest
  BY PolledIsOne
<1>2. CASE FinishRound
  BY <1>2, GoPoller DEF FinishRound, At, RestInv, AtWork, Published, Counted, store
<1>3. CASE ReadCounters \/ Skip \/ Fail
  BY <1>3, GoPoller DEF ReadCounters, Fail, Skip, At, RestInv, AtWork, Published, Counted, store
<1>4. CASE WriteCounters
  <2>1. rest # {} /\ threads[Poller].pc = "Count"
    BY <1>4 DEF WriteCounters, At, RestInv, AtWork
  <2>2. Counted' \subseteq Counted \cup rest /\ Published' = Published
    BY <1>1, <1>4, <2>1 DEF WriteCounters, Counted, Published, TypeOK
  <2>3. threads'[Poller].pc \in {"Publish", "Fail"} /\ threads'[Poller].ids = threads[Poller].ids
    BY <1>4, GoPoller DEF WriteCounters
  <2>. QED
    BY <1>4, <2>1, <2>2, <2>3 DEF WriteCounters, RestInv, AtWork
<1>5. CASE AnswerWithoutRate
  <2>1. Counted' \subseteq Counted /\ Published' = Published
    BY <1>5 DEF AnswerWithoutRate, Counted, Published, TypeOK
  <2>. QED
    BY <1>5, <2>1, GoPoller DEF AnswerWithoutRate, At, RestInv, AtWork
<1>6. CASE Publish
  <2>1. rest # {} /\ threads[Poller].pc = "Publish"
    BY <1>6 DEF Publish, At, RestInv, AtWork
  <2>2. Published' \subseteq Published \cup rest /\ Counted' = Counted
    BY <1>1, <1>6, <2>1 DEF Publish, Counted, Published, TypeOK
  <2>. QED
    BY <1>6, <2>1, <2>2, GoPoller DEF Publish, RestInv, AtWork
<1>7. ASSUME NextDevice, threads[Poller].pc \in AtWork
      PROVE  /\ Published' = Published /\ Counted' = Counted /\ rest' \subseteq rest
             /\ threads'[Poller].pc = "Poll" /\ threads'[Poller].ids = threads[Poller].ids
  BY <1>7, GoPoller DEF NextDevice, Published, Counted
<1>8. CASE ReadDefault
  <2>1. threads[Poller].pc \in {"ReadDefault", "ReadAgain"} /\ rest # {}
    BY <1>8 DEF ReadDefault, At, RestInv, AtWork
  <2>2. ASSUME NEW pc \in {"WriteCurrent", "Claim"}, Go(Poller, pc),
               UNCHANGED <<devices, store, poll, raced, changes>>
        PROVE  /\ Published' = Published /\ Counted' = Counted /\ rest' = rest
               /\ threads'[Poller].pc = pc /\ threads'[Poller].ids = threads[Poller].ids
    BY <2>2, GoPoller DEF Published, Counted, store, poll
  <2>. QED
    BY <1>7, <1>8, <2>1, <2>2 DEF ReadDefault, RestInv, AtWork
<1>9. CASE ClaimDefault
  <2>1. threads[Poller].pc = "Claim" /\ rest # {}
    BY <1>9 DEF ClaimDefault, At, RestInv, AtWork
  <2>2. Published' = Published /\ Counted' = Counted /\ rest' = rest
    BY <1>9 DEF ClaimDefault, Published, Counted, poll
  <2>3. /\ threads'[Poller].pc \in {"WriteCurrent", "ReadAgain"}
        /\ threads'[Poller].ids = threads[Poller].ids
    BY <1>9, GoPoller DEF ClaimDefault
  <2>. QED
    BY <2>1, <2>2, <2>3 DEF RestInv, AtWork
<1>10. CASE WriteCurrent
  <2>1. threads[Poller].pc = "WriteCurrent"
    BY <1>10 DEF WriteCurrent, At
  <2>. QED
    BY <1>7, <1>10, <2>1 DEF WriteCurrent, RestInv, AtWork
<1>. QED
  BY <1>2, <1>3, <1>4, <1>5, <1>6, <1>8, <1>9, <1>10

LEMMA LoadKeepsRound ==
  ASSUME RoundInv, TypeOK', LoadDevices
  PROVE  RoundInv'
<1>1. threads'[Poller] = [threads[Poller] EXCEPT !.pc = "SetActive", !.ids = Enabled]
      /\ threads[Poller] \in Call
  BY PollerIsNoRequest DEF LoadDevices, RoundInv, TypeOK
<1>2. threads'[Poller].pc = "SetActive" /\ threads'[Poller].ids = Enabled
  BY <1>1 DEF Call
<1>. QED
  BY <1>2 DEF LoadDevices, RoundInv, RestInv, AtWork, StoreIsOfTheRound

LEMMA PollKeepsRound ==
  ASSUME RoundInv, Poll
  PROVE  RoundInv'
<1>1. TypeOK'
  BY PollType DEF RoundInv
<1>2. CASE LoadDevices
  BY <1>1, <1>2, LoadKeepsRound
<1>3. CASE SetActiveDevices(Poller)
  BY <1>1, <1>3, SetActiveKeepsRound
<1>4. CASE \/ FinishRound \/ ReadCounters \/ WriteCounters \/ AnswerWithoutRate \/ Fail \/ Skip
           \/ Publish \/ ReadDefault \/ ClaimDefault \/ WriteCurrent
  BY <1>1, <1>4, PollAddsPolled DEF RoundInv, StoreIsOfTheRound
<1>. QED
  BY <1>2, <1>3, <1>4 DEF Poll

LEMMA RequestKeepsRound ==
  ASSUME RoundInv, NEW r \in Requests, RequestStep(r)
  PROVE  RoundInv'
<1>1. TypeOK'
  BY RequestType, SetActiveType, PollerIsNoRequest DEF RequestStep, RoundInv
<1>2. OnlyRemoves /\ UNCHANGED RoundView
  BY RequestOnlyRemoves, RequestLeavesPoller, PollerIsNoRequest DEF RoundInv, RoundView, poll
<1>. QED
  BY <1>1, <1>2, RemovalKeepsRound

LEMMA ChangeKeepsRound ==
  ASSUME RoundInv, NEW d \in Devices, NEW h \in Hosts, NEW status \in {"enabled", "disabled"},
         Change(d, h, status)
  PROVE  RoundInv'
<1>1. TypeOK'
  BY ChangeType DEF RoundInv
<1>2. OnlyRemoves
  BY DEF Change, CreateDevice, SaveDevice, OnlyRemoves, store
<1>3. UNCHANGED RoundView
  <2>1. CASE CreateDevice(d, h, status)
    BY <2>1 DEF CreateDevice, RoundView, poll
  <2>2. ASSUME NEW r \in Requests, SaveDevice(r, d, h, status) PROVE UNCHANGED RoundView
    BY <2>2, RequestLeavesPoller, PollerIsNoRequest DEF RoundInv, RoundView, poll
  <2>. QED
    BY <2>1, <2>2 DEF Change
<1>. QED
  BY <1>1, <1>2, <1>3, RemovalKeepsRound

LEMMA InitRound == Init => RoundInv
<1> SUFFICES ASSUME Init PROVE RoundInv
  OBVIOUS
<1>1. threads[Poller].pc = "Load" /\ rest = {}
  BY PollerIsNoRequest DEF Init, NoCall
<1>2. Published = {} /\ Counted = {}
  BY DEF Init, Published, Counted, NoSnapshot
<1>. QED
  BY <1>1, <1>2, InitType DEF RoundInv, RestInv, AtWork, StoreIsOfTheRound

LEMMA NextCases ==
  ASSUME Next
  PROVE  \/ Poll
         \/ \E d \in Devices, h \in Hosts, status \in {"enabled", "disabled"} : Change(d, h, status)
         \/ \E r \in Requests : RequestStep(r)
  BY DEF Next, Change, RequestStep

\* The inductive invariant behind the two theorems that follow.
THEOREM RoundInvariance == Spec => []RoundInv
<1>1. RoundInv /\ [Next]_vars => RoundInv'
  <2> SUFFICES ASSUME RoundInv, [Next]_vars PROVE RoundInv'
    OBVIOUS
  <2>1. CASE Next
    BY <2>1, NextCases, PollKeepsRound, ChangeKeepsRound, RequestKeepsRound
  <2>2. CASE UNCHANGED vars
    BY <2>2 DEF vars, store, poll, RoundInv, TypeOK, RestInv, StoreIsOfTheRound, Published, Counted
  <2>. QED
    BY <2>1, <2>2
<1>. QED
  BY <1>1, InitRound, PTL DEF Spec

\* The types of the variables.
THEOREM StoreTypes == Spec => []TypeOK
<1>1. RoundInv => TypeOK
  BY DEF RoundInv
<1>. QED
  BY <1>1, RoundInvariance, PTL

\* Snapshots and counters are those of devices the poller's round has loaded,
\* whatever requests remove meanwhile.
THEOREM StoreFollowsTheRound == Spec => []StoreIsOfTheRound
<1>1. RoundInv => StoreIsOfTheRound
  BY DEF RoundInv
<1>. QED
  BY <1>1, RoundInvariance, PTL

-----------------------------------------------------------------------------
(* Readings and rates are a device's own *)

Own(s) == {s.from, s.rate} \subseteq {s.ip, None}

\* A request has saved a row and not yet dropped the device's snapshot.
RemovingSnapshot(d) == \E r \in Requests :
  threads[r].device = d /\ threads[r].pc = "RemoveSnapshot"

\* While a device is to be polled, its data are of the address loaded for it.
PolledIsOwn(d) ==
  /\ snapshots[d].ip \in {round[d], None}
  /\ counters[d] \in {round[d], None}
  /\ Exists(d) => round[d] = devices[d].host

\* Otherwise they are of its address, or a request is about to drop them.
RestingIsOwn(d) == Exists(d) =>
  /\ RemovingSnapshot(d) \/ snapshots[d].ip \in {devices[d].host, None}
  /\ Removing(d) \/ counters[d] \in {devices[d].host, None}

DeviceIsOwn(d) ==
  /\ Own(snapshots[d])
  /\ d \in rest => PolledIsOwn(d)
  /\ d \notin rest => RestingIsOwn(d)

AbsentIsEmpty(d) == devices[d].status = "absent" =>
  d \notin rest /\ snapshots[d].ip = None /\ counters[d] = None

\* What the poller has in hand is of the address it polls.
HandIsOwn == Polled \notin raced =>
  /\ threads[Poller].pc = "Count" => previous \in {round[Polled], None}
  /\ threads[Poller].pc = "Publish" => answer.ip = round[Polled] /\ Own(answer)

OwnInv ==
  /\ \A d \in Devices \ raced : DeviceIsOwn(d)
  /\ \A d \in Devices : AbsentIsEmpty(d)
  /\ HandIsOwn

LEMMA NothingIsOwn == Own(NoSnapshot)
  BY DEF Own, NoSnapshot

LEMMA InitOwn == Init => OwnInv
<1> SUFFICES ASSUME Init PROVE OwnInv
  OBVIOUS
<1>1. threads[Poller].pc = "Load"
  BY PollerIsNoRequest DEF Init, NoCall
<1>2. ASSUME NEW d \in Devices PROVE DeviceIsOwn(d) /\ AbsentIsEmpty(d)
  <2>1. snapshots[d] = NoSnapshot /\ counters[d] = None /\ d \notin rest
    BY DEF Init
  <2>2. snapshots[d].ip = None /\ Own(snapshots[d])
    BY <2>1, NothingIsOwn DEF NoSnapshot
  <2>3. RestingIsOwn(d)
    BY <2>1, <2>2 DEF RestingIsOwn
  <2>. QED
    BY <2>1, <2>2, <2>3 DEF DeviceIsOwn, AbsentIsEmpty
<1>. QED
  BY <1>1, <1>2 DEF OwnInv, HandIsOwn

\* A request that no longer is about to drop a device's data has dropped them.
LEMMA RemovalEnds ==
  ASSUME TypeOK, NEW r \in Requests, RequestStep(r), NEW d \in Devices
  PROVE  /\ RemovingSnapshot(d) => RemovingSnapshot(d)' \/ snapshots'[d] = NoSnapshot
         /\ Removing(d) => Removing(d)' \/ counters'[d] = None
<1>1. \A q \in Requests \ {r} : threads'[q] = threads[q]
  BY RequestLeavesPoller, PollerIsNoRequest
<1>2. threads \in [Threads -> Call] /\ r \in Threads /\ threads[r] \in Call
  BY PollerIsNoRequest DEF TypeOK
<1>3. CASE threads[r].pc = "RemoveSnapshot"
  <2>1. RemoveSnapshot(r)
    BY <1>3 DEF RequestStep, DeleteDevice, RemoveDevice, RemoveCounters, CheckDefault, ListKeys,
       SetActiveDevices, FindStale, DropSnapshot, DropCounters, SetDefault, FindDefault,
       SetCurrent, At
  <2>2. threads'[r].device = threads[r].device /\ threads'[r].pc = "RemoveCounters"
    BY <1>2, <2>1 DEF RemoveSnapshot, Go, Call
  <2>3. threads[r].device = d => snapshots'[d] = NoSnapshot
    BY <2>1 DEF RemoveSnapshot, TypeOK
  <2>4. RemovingSnapshot(d) => RemovingSnapshot(d)' \/ snapshots'[d] = NoSnapshot
    BY <1>1, <2>3 DEF RemovingSnapshot
  <2>5. Removing(d) => Removing(d)'
    BY <1>1, <2>2 DEF Removing
  <2>. QED
    BY <2>4, <2>5
<1>4. CASE threads[r].pc = "RemoveCounters"
  <2>1. RemoveCounters(r)
    BY <1>4 DEF RequestStep, DeleteDevice, RemoveDevice, RemoveSnapshot, CheckDefault, ListKeys,
       SetActiveDevices, FindStale, DropSnapshot, DropCounters, SetDefault, FindDefault,
       SetCurrent, At
  <2>2. threads[r].device = d => counters'[d] = None
    BY <2>1 DEF RemoveCounters, TypeOK
  <2>3. RemovingSnapshot(d) => RemovingSnapshot(d)'
    BY <1>1, <1>4 DEF RemovingSnapshot
  <2>4. Removing(d) => Removing(d)' \/ counters'[d] = None
    BY <1>1, <2>2 DEF Removing
  <2>. QED
    BY <2>3, <2>4
<1>5. CASE threads[r].pc \notin {"RemoveSnapshot", "RemoveCounters"}
  BY <1>1, <1>5 DEF Removing, RemovingSnapshot
<1>. QED
  BY <1>3, <1>4, <1>5

LEMMA RequestKeepsOwn ==
  ASSUME TypeOK, OwnInv, NEW r \in Requests, RequestStep(r)
  PROVE  OwnInv'
<1>1. OnlyRemoves /\ UNCHANGED <<poll, raced>>
  BY RequestOnlyRemoves
<1>2. threads'[Poller] = threads[Poller] /\ Polled' = Polled
  BY <1>1, RequestLeavesPoller, PollerIsNoRequest DEF Polled, FirstDevice, poll
<1>3. \A d \in Devices : devices'[d] = devices[d] \/ devices'[d].status = "deleted"
  BY SetActiveOnlyRemoves, PollerIsNoRequest DEF RequestStep, DeleteDevice, NoRow, TypeOK,
     RemoveDevice, RemoveSnapshot, RemoveCounters, CheckDefault, ListKeys
<1>4. ASSUME NEW d \in Devices \ raced' PROVE DeviceIsOwn(d)'
  <2>1. DeviceIsOwn(d) /\ snapshots'[d] \in {snapshots[d], NoSnapshot} /\ counters'[d] \in {counters[d], None}
    BY <1>1, <1>4 DEF OwnInv, OnlyRemoves
  <2>2. Own(snapshots'[d]) /\ snapshots'[d].ip \in {snapshots[d].ip, None}
    BY <2>1, NothingIsOwn DEF DeviceIsOwn, NoSnapshot
  <2>3. Exists(d)' => Exists(d) /\ devices'[d] = devices[d]
    BY <1>3 DEF Exists
  <2>4. d \in rest => PolledIsOwn(d)'
    BY <1>1, <2>1, <2>2, <2>3 DEF DeviceIsOwn, PolledIsOwn, poll
  <2>5. d \notin rest => RestingIsOwn(d)'
    <3>1. /\ RemovingSnapshot(d) => RemovingSnapshot(d)' \/ snapshots'[d] = NoSnapshot
          /\ Removing(d) => Removing(d)' \/ counters'[d] = None
      BY RemovalEnds
    <3>. QED
      BY <2>1, <2>2, <2>3, <3>1 DEF DeviceIsOwn, RestingIsOwn, NoSnapshot
  <2>. QED
    BY <1>1, <2>2, <2>4, <2>5 DEF DeviceIsOwn, poll
<1>5. ASSUME NEW d \in Devices PROVE AbsentIsEmpty(d)'
  <2>1. snapshots'[d] \in {snapshots[d], NoSnapshot} /\ counters'[d] \in {counters[d], None}
    BY <1>1 DEF OnlyRemoves
  <2>. QED
    BY <1>1, <1>3, <2>1 DEF AbsentIsEmpty, OwnInv, NoSnapshot, poll
<1>6. HandIsOwn'
  BY <1>1, <1>2 DEF OwnInv, HandIsOwn, poll
<1>. QED
  BY <1>4, <1>5, <1>6 DEF OwnInv

LEMMA CreateKeepsOwn ==
  ASSUME TypeOK, OwnInv, NEW d \in Devices, NEW h \in Hosts, NEW status \in {"enabled", "disabled"},
         CreateDevice(d, h, status)
  PROVE  OwnInv'
<1>1. UNCHANGED <<store, threads, poll, raced>> /\ Polled' = Polled
  BY DEF CreateDevice, Polled, FirstDevice, poll
<1>2. ASSUME NEW e \in Devices PROVE (e \notin raced => DeviceIsOwn(e)') /\ AbsentIsEmpty(e)'
  <2>1. CASE e = d
    <3>1. d \notin rest /\ snapshots[d].ip = None /\ counters[d] = None
      BY DEF CreateDevice, OwnInv, AbsentIsEmpty
    <3>2. devices'[d].status # "absent"
      BY DEF CreateDevice, TypeOK
    <3>. QED
      BY <1>1, <2>1, <3>1, <3>2 DEF OwnInv, DeviceIsOwn, RestingIsOwn, AbsentIsEmpty, store, poll
  <2>2. CASE e # d
    <3>1. devices'[e] = devices[e]
      BY <2>2 DEF CreateDevice, TypeOK
    <3>2. Removing(e)' = Removing(e) /\ RemovingSnapshot(e)' = RemovingSnapshot(e)
      BY <1>1 DEF Removing, RemovingSnapshot
    <3>. QED
      BY <1>1, <3>1, <3>2 DEF OwnInv, DeviceIsOwn, PolledIsOwn, RestingIsOwn, AbsentIsEmpty, Exists,
         store, poll
  <2>. QED
    BY <2>1, <2>2
<1>. QED
  BY <1>1, <1>2 DEF OwnInv, HandIsOwn, poll

LEMMA SaveKeepsOwn ==
  ASSUME TypeOK, OwnInv, NEW r \in Requests, NEW d \in Devices, NEW h \in Hosts,
         NEW status \in {"enabled", "disabled"}, SaveDevice(r, d, h, status)
  PROVE  OwnInv'
<1>1. /\ UNCHANGED <<store, poll>> /\ Polled' = Polled /\ raced \subseteq raced'
      /\ Exists(d) /\ threads[r].pc = "Idle"
  BY DEF SaveDevice, Polled, FirstDevice, poll, At
<1>2. \A t \in Threads \ {r} : threads'[t] = threads[t]
  BY RequestLeavesPoller
<1>3. /\ threads \in [Threads -> Call] /\ threads[r] \in Call
      /\ threads' = [threads EXCEPT ![r].pc = "RemoveSnapshot", ![r].device = d]
  BY PollerIsNoRequest DEF TypeOK, SaveDevice
<1>4. threads'[r].pc = "RemoveSnapshot" /\ threads'[r].device = d
  BY <1>3, PollerIsNoRequest DEF Call
<1>5. Removing(d)' /\ RemovingSnapshot(d)'
  BY <1>4 DEF Removing, RemovingSnapshot
<1>6. ASSUME NEW e \in Devices \ raced' PROVE DeviceIsOwn(e)'
  <2>1. DeviceIsOwn(e)
    BY <1>1 DEF OwnInv
  <2>2. CASE e = d
    <3>1. devices'[d] = [status |-> status, host |-> h]
      BY DEF SaveDevice, TypeOK
    <3>2. d \in rest => devices[d].host = h
      BY <1>6, <2>2 DEF SaveDevice
    <3>3. d \in rest => PolledIsOwn(d)'
      BY <1>1, <2>1, <2>2, <3>1, <3>2 DEF DeviceIsOwn, PolledIsOwn, store, poll
    <3>4. RestingIsOwn(d)'
      BY <1>5 DEF RestingIsOwn
    <3>. QED
      BY <1>1, <2>1, <2>2, <3>3, <3>4 DEF DeviceIsOwn, store, poll
  <2>3. CASE e # d
    <3>1. devices'[e] = devices[e]
      BY <2>3 DEF SaveDevice, TypeOK
    <3>2. (Removing(e) => Removing(e)') /\ (RemovingSnapshot(e) => RemovingSnapshot(e)')
      BY <1>1, <1>2, PollerIsNoRequest DEF Removing, RemovingSnapshot
    <3>3. e \in rest => PolledIsOwn(e)'
      BY <1>1, <2>1, <3>1 DEF DeviceIsOwn, PolledIsOwn, Exists, store, poll
    <3>4. e \notin rest => RestingIsOwn(e)'
      BY <1>1, <2>1, <3>1, <3>2 DEF DeviceIsOwn, RestingIsOwn, Exists, store
    <3>. QED
      BY <1>1, <2>1, <3>3, <3>4 DEF DeviceIsOwn, store, poll
  <2>. QED
    BY <2>2, <2>3
<1>7. ASSUME NEW e \in Devices PROVE AbsentIsEmpty(e)'
  <2>1. devices'[e].status = "absent" => devices[e].status = "absent"
    BY DEF SaveDevice, TypeOK
  <2>. QED
    BY <1>1, <2>1 DEF OwnInv, AbsentIsEmpty, store, poll
<1>8. HandIsOwn'
  <2>1. threads'[Poller] = threads[Poller]
    BY <1>2, PollerIsNoRequest
  <2>. QED
    BY <1>1, <2>1 DEF OwnInv, HandIsOwn, poll
<1>. QED
  BY <1>6, <1>7, <1>8 DEF OwnInv

LEMMA LoadKeepsOwn ==
  ASSUME TypeOK, RestInv, OwnInv, LoadDevices
  PROVE  OwnInv'
<1>1. rest = {} /\ rest' = Enabled /\ raced' = raced \cup {d \in Enabled : Removing(d)}
  BY DEF LoadDevices, At, RestInv
<1>2. UNCHANGED <<devices, store>>
  BY DEF LoadDevices
<1>3. threads'[Poller].pc = "SetActive" /\ \A r \in Requests : threads'[r] = threads[r]
  BY PollerIsNoRequest DEF LoadDevices, TypeOK, Call
<1>4. ASSUME NEW d \in Devices PROVE (d \notin raced' => DeviceIsOwn(d)') /\ AbsentIsEmpty(d)'
  <2>1. (Removing(d)' <=> Removing(d)) /\ (RemovingSnapshot(d)' <=> RemovingSnapshot(d))
    BY <1>3 DEF Removing, RemovingSnapshot
  <2>2. CASE d \in Enabled
    <3>1. round'[d] = devices[d].host /\ Exists(d)
      BY <2>2 DEF LoadDevices, Enabled, Exists
    <3>2. ~AbsentIsEmpty(d)' => FALSE
      BY <1>2, <2>2 DEF AbsentIsEmpty, Enabled
    <3>3. ASSUME d \notin raced' PROVE DeviceIsOwn(d)'
      <4>1. DeviceIsOwn(d) /\ ~Removing(d) /\ ~RemovingSnapshot(d)
        BY <1>1, <2>2, <3>3 DEF OwnInv, Removing, RemovingSnapshot
      <4>2. snapshots[d].ip \in {devices[d].host, None} /\ counters[d] \in {devices[d].host, None}
        BY <1>1, <3>1, <4>1 DEF DeviceIsOwn, RestingIsOwn
      <4>. QED
        BY <1>1, <1>2, <2>2, <3>1, <4>1, <4>2 DEF DeviceIsOwn, PolledIsOwn, store
    <3>. QED
      BY <3>2, <3>3
  <2>3. CASE d \notin Enabled
    BY <1>1, <1>2, <2>1, <2>3 DEF OwnInv, DeviceIsOwn, RestingIsOwn, AbsentIsEmpty, Exists, store
  <2>. QED
    BY <2>2, <2>3
<1>. QED
  BY <1>3, <1>4 DEF OwnInv, HandIsOwn

LEMMA PollerLeavesRequests ==
  ASSUME TypeOK, Poll
  PROVE  UNCHANGED devices /\ \A r \in Requests : threads'[r] = threads[r]
<1>1. CASE LoadDevices
  BY <1>1, PollerIsNoRequest DEF LoadDevices, TypeOK
<1>2. CASE SetActiveDevices(Poller)
  <2>1. UNCHANGED devices
    BY <1>2, SetActiveOnlyRemoves, PollerIsNoRequest
  <2>2. \A r \in Requests : threads'[r] = threads[r]
    BY <1>2, GoPoller, PollerIsNoRequest DEF SetActiveDevices, FindStale, DropSnapshot, DropCounters,
       SetDefault, FindDefault, SetCurrent, Return, TypeOK
  <2>. QED
    BY <2>1, <2>2
<1>3. CASE \/ FinishRound \/ ReadCounters \/ WriteCounters \/ AnswerWithoutRate \/ Fail \/ Skip
           \/ Publish \/ ReadDefault \/ ClaimDefault \/ WriteCurrent
  BY <1>3, GoPoller DEF FinishRound, ReadCounters, WriteCounters, AnswerWithoutRate, Fail, Skip,
     Publish, ReadDefault, ClaimDefault, WriteCurrent, NextDevice
<1>. QED
  BY <1>1, <1>2, <1>3 DEF Poll

\* A poller's step keeps a device's data its own if what it adds, it adds to
\* the device it polls, under the address it has loaded.
LEMMA DeviceStep ==
  ASSUME NEW d \in Devices, UNCHANGED devices, \A r \in Requests : threads'[r] = threads[r],
         rest' \subseteq rest, d \in rest' => round'[d] = round[d],
         d \notin rest => snapshots'[d].ip \in {snapshots[d].ip, None} /\ counters'[d] \in {counters[d], None},
         d \in rest => /\ snapshots'[d].ip \in {snapshots[d].ip, None, round[d]}
                       /\ counters'[d] \in {counters[d], None, round[d]}
  PROVE  /\ DeviceIsOwn(d) /\ Own(snapshots'[d]) => DeviceIsOwn(d)'
         /\ AbsentIsEmpty(d) => AbsentIsEmpty(d)'
<1>1. (Removing(d)' <=> Removing(d)) /\ (RemovingSnapshot(d)' <=> RemovingSnapshot(d))
  BY DEF Removing, RemovingSnapshot
<1>2. Exists(d)' <=> Exists(d)
  BY DEF Exists
<1>3. AbsentIsEmpty(d) => AbsentIsEmpty(d)'
  BY DEF AbsentIsEmpty
<1>4. ASSUME DeviceIsOwn(d), Own(snapshots'[d]) PROVE DeviceIsOwn(d)'
  <2>1. d \in rest' => PolledIsOwn(d)'
    BY <1>2, <1>4 DEF DeviceIsOwn, PolledIsOwn
  <2>2. d \notin rest => RestingIsOwn(d)'
    BY <1>1, <1>2, <1>4 DEF DeviceIsOwn, RestingIsOwn
  <2>3. d \in rest => RestingIsOwn(d)'
    BY <1>2, <1>4 DEF DeviceIsOwn, PolledIsOwn, RestingIsOwn
  <2>. QED
    BY <1>4, <2>1, <2>2, <2>3 DEF DeviceIsOwn
<1>. QED
  BY <1>3, <1>4

\* The case in which nothing is added, but the round may go on.
LEMMA IdleStep ==
  ASSUME OwnInv, UNCHANGED <<devices, raced>>, \A r \in Requests : threads'[r] = threads[r],
         OnlyRemoves, rest' \subseteq rest, \A d \in rest' : round'[d] = round[d], HandIsOwn'
  PROVE  OwnInv'
<1>1. ASSUME NEW d \in Devices PROVE (d \notin raced' => DeviceIsOwn(d)') /\ AbsentIsEmpty(d)'
  <2>1. snapshots'[d] \in {snapshots[d], NoSnapshot} /\ counters'[d] \in {counters[d], None}
    BY DEF OnlyRemoves
  <2>2. snapshots'[d].ip \in {snapshots[d].ip, None}
    BY <2>1 DEF NoSnapshot
  <2>3. d \notin raced' => DeviceIsOwn(d) /\ Own(snapshots'[d])
    BY <2>1, NothingIsOwn DEF OwnInv, DeviceIsOwn
  <2>4. AbsentIsEmpty(d)
    BY DEF OwnInv
  <2>. QED
    BY <2>1, <2>2, <2>3, <2>4, DeviceStep
<1>. QED
  BY <1>1 DEF OwnInv

LEMMA SetActiveKeepsOwn ==
  ASSUME TypeOK, OwnInv, SetActiveDevices(Poller)
  PROVE  OwnInv'
<1>1. OnlyRemoves /\ UNCHANGED <<devices, poll, raced>>
  BY SetActiveOnlyRemoves, PollerIsNoRequest
<1>2. \A r \in Requests : threads'[r] = threads[r]
  BY PollerLeavesRequests DEF Poll
<1>3. threads'[Poller].pc \notin {"Count", "Publish"}
  BY GoPoller, PollerIsNoRequest DEF SetActiveDevices, FindStale, DropSnapshot, DropCounters,
     SetDefault, FindDefault, SetCurrent, Return, TypeOK, Call, At
<1>. QED
  BY <1>1, <1>2, <1>3, IdleStep DEF HandIsOwn, poll

LEMMA QueryKeepsOwn ==
  ASSUME TypeOK, RestInv, OwnInv,
         ReadCounters \/ WriteCounters \/ AnswerWithoutRate \/ Fail \/ Skip
  PROVE  OwnInv'
<1>1. UNCHANGED <<devices, raced, snapshots, rest, round>> /\ Polled' = Polled
  <2>1. UNCHANGED <<devices, raced, snapshots, rest, round>>
    <3>1. CASE ReadCounters
      BY <3>1 DEF ReadCounters, store
    <3>2. CASE WriteCounters
      BY <3>2 DEF WriteCounters
    <3>3. CASE AnswerWithoutRate
      BY <3>3 DEF AnswerWithoutRate
    <3>4. CASE Fail
      BY <3>4 DEF Fail, store
    <3>5. CASE Skip
      BY <3>5 DEF Skip, store
    <3>. QED
      BY <3>1, <3>2, <3>3, <3>4, <3>5
  <2>2. Polled' = Polled
    BY <2>1 DEF Polled
  <2>. QED
    BY <2>1, <2>2
<1>2. \A r \in Requests : threads'[r] = threads[r]
  BY PollerLeavesRequests DEF Poll
<1>3. rest # {} /\ Polled \in rest /\ Polled \in Devices
  BY PolledIsOne DEF ReadCounters, WriteCounters, AnswerWithoutRate, Fail, Skip, RestInv, AtWork, At
<1>4. \A d \in Devices : /\ d \notin rest => counters'[d] \in {counters[d], None}
                         /\ d \in rest => counters'[d] \in {counters[d], None, round[d]}
  BY <1>3 DEF ReadCounters, WriteCounters, AnswerWithoutRate, Fail, Skip, store, TypeOK
<1>5. ASSUME NEW d \in Devices PROVE (d \notin raced' => DeviceIsOwn(d)') /\ AbsentIsEmpty(d)'
  <2>1. d \notin raced' => DeviceIsOwn(d) /\ Own(snapshots'[d])
    BY <1>1 DEF OwnInv, DeviceIsOwn
  <2>2. AbsentIsEmpty(d)
    BY DEF OwnInv
  <2>. QED
    BY <1>1, <1>2, <1>4, <2>1, <2>2, DeviceStep
<1>6. HandIsOwn'
  <2> SUFFICES ASSUME Polled \notin raced PROVE HandIsOwn'
    BY <1>1 DEF HandIsOwn
  <2>1. /\ Own(snapshots[Polled]) /\ snapshots[Polled].ip \in {round[Polled], None}
        /\ counters[Polled] \in {round[Polled], None}
    BY <1>3 DEF OwnInv, DeviceIsOwn, PolledIsOwn
  <2>2. round[Polled] \in Addresses /\ snapshots[Polled] \in Snapshot
    BY <1>3 DEF TypeOK
  <2>3. CASE ReadCounters
    BY <1>1, <2>1, <2>3, GoPoller DEF ReadCounters, HandIsOwn
  <2>4. ASSUME NEW rate \in {round[Polled], None} PROVE Answer(rate).ip = round[Polled] /\ Own(Answer(rate))
    BY <2>4 DEF Answer, Own
  <2>5. CASE WriteCounters
    <3>1. previous \in {round[Polled], None}
      BY <2>5 DEF WriteCounters, At, OwnInv, HandIsOwn
    <3>2. \/ threads'[Poller].pc = "Publish" /\ answer' = Answer(previous)
          \/ threads'[Poller].pc = "Fail"
      BY <2>5, GoPoller DEF WriteCounters
    <3>. QED
      BY <1>1, <2>4, <3>1, <3>2 DEF HandIsOwn
  <2>6. CASE AnswerWithoutRate
    <3>1. \/ threads'[Poller].pc = "Publish" /\ answer' = Answer(None)
          \/ threads'[Poller].pc = "Fail"
      BY <2>6, GoPoller DEF AnswerWithoutRate
    <3>. QED
      BY <1>1, <2>4, <3>1 DEF HandIsOwn
  <2>7. CASE Fail
    <3>1. threads'[Poller].pc = "Publish" /\ answer' = [snapshots[Polled] EXCEPT !.ip = round[Polled]]
      BY <2>7, GoPoller DEF Fail
    <3>2. answer'.ip = round[Polled] /\ answer'.from = snapshots[Polled].from
          /\ answer'.rate = snapshots[Polled].rate
      BY <2>2, <3>1 DEF Snapshot
    <3>. QED
      BY <1>1, <2>1, <3>1, <3>2 DEF HandIsOwn, Own
  <2>8. CASE Skip
    <3>1. threads'[Poller].pc = "Publish" /\ answer' = [NoSnapshot EXCEPT !.ip = round[Polled]]
      BY <2>8, GoPoller DEF Skip
    <3>2. answer'.ip = round[Polled] /\ Own(answer')
      BY <3>1 DEF NoSnapshot, Own
    <3>. QED
      BY <1>1, <3>1, <3>2 DEF HandIsOwn
  <2>. QED
    BY <2>3, <2>5, <2>6, <2>7, <2>8
<1>. QED
  BY <1>1, <1>5, <1>6 DEF OwnInv

LEMMA PublishKeepsOwn ==
  ASSUME TypeOK, RestInv, OwnInv, Publish
  PROVE  OwnInv'
<1>1. UNCHANGED <<devices, raced, counters, rest, round>> /\ threads'[Poller].pc = "ReadDefault"
  BY GoPoller DEF Publish
<1>2. \A r \in Requests : threads'[r] = threads[r]
  BY PollerLeavesRequests DEF Poll
<1>3. Polled \in rest /\ Polled \in Devices /\ threads[Poller].pc = "Publish"
  BY PolledIsOne DEF Publish, RestInv, AtWork, At
<1>4. ASSUME NEW d \in Devices PROVE (d \notin raced' => DeviceIsOwn(d)') /\ AbsentIsEmpty(d)'
  <2>1. CASE d = Polled
    <3>1. snapshots'[d] = answer
      BY <1>3, <2>1 DEF Publish, TypeOK
    <3>2. CASE d \in raced
      BY <1>1, <1>3, <2>1, <3>2 DEF OwnInv, AbsentIsEmpty
    <3>3. CASE d \notin raced
      <4>1. answer.ip = round[d] /\ Own(answer) /\ DeviceIsOwn(d) /\ AbsentIsEmpty(d)
        BY <1>3, <2>1, <3>3 DEF OwnInv, HandIsOwn
      <4>. QED
        BY <1>1, <1>2, <1>3, <2>1, <3>1, <4>1, DeviceStep
    <3>. QED
      BY <3>2, <3>3
  <2>2. CASE d # Polled
    <3>1. snapshots'[d] = snapshots[d]
      BY <2>2 DEF Publish, TypeOK
    <3>2. (d \notin raced' => DeviceIsOwn(d) /\ Own(snapshots'[d])) /\ AbsentIsEmpty(d)
      BY <1>1, <3>1 DEF OwnInv, DeviceIsOwn
    <3>. QED
      BY <1>1, <1>2, <3>1, <3>2, DeviceStep
  <2>. QED
    BY <2>1, <2>2
<1>. QED
  BY <1>1, <1>4 DEF OwnInv, HandIsOwn

LEMMA PollKeepsOwn ==
  ASSUME TypeOK, RestInv, OwnInv, Poll
  PROVE  OwnInv'
<1>1. UNCHANGED devices /\ \A r \in Requests : threads'[r] = threads[r]
  BY PollerLeavesRequests
<1>2. CASE FinishRound
  <2>1. rest' = {} /\ OnlyRemoves /\ raced' = raced /\ threads'[Poller].pc = "Load"
    BY <1>2, GoPoller DEF FinishRound, OnlyRemoves, store
  <2>. QED
    BY <1>1, <2>1, IdleStep DEF HandIsOwn
<1>3. ASSUME NextDevice PROVE OwnInv'
  <2>1. /\ rest' \subseteq rest /\ OnlyRemoves /\ raced' = raced /\ round' = round
        /\ threads'[Poller].pc = "Poll"
    BY <1>3, GoPoller DEF NextDevice, OnlyRemoves
  <2>. QED
    BY <1>1, <2>1, IdleStep DEF HandIsOwn
<1>4. ASSUME NEW pc \in {"WriteCurrent", "Claim", "ReadAgain"}, Go(Poller, pc),
             UNCHANGED <<snapshots, counters, poll, raced>>
      PROVE  OwnInv'
  <2>1. rest' = rest /\ OnlyRemoves /\ raced' = raced /\ round' = round /\ threads'[Poller].pc = pc
    BY <1>4, GoPoller DEF OnlyRemoves, poll
  <2>. QED
    BY <1>1, <2>1, IdleStep DEF HandIsOwn
<1>5. CASE ReadDefault
  BY <1>3, <1>4, <1>5 DEF ReadDefault, store
<1>6. CASE ClaimDefault
  BY <1>4, <1>6 DEF ClaimDefault
<1>7. CASE WriteCurrent
  BY <1>3, <1>7 DEF WriteCurrent
<1>. QED
  BY <1>2, <1>5, <1>6, <1>7, LoadKeepsOwn, QueryKeepsOwn, PublishKeepsOwn, SetActiveKeepsOwn DEF Poll

\* A device that was not given another address while it was being polled shows
\* readings and rates of one address only.
THEOREM ReadingsStayApart == Spec => []ReadingsAreItsOwn
<1>1. RoundInv /\ OwnInv /\ [Next]_vars => OwnInv'
  <2> SUFFICES ASSUME RoundInv, OwnInv, [Next]_vars PROVE OwnInv'
    OBVIOUS
  <2>1. TypeOK /\ RestInv
    BY DEF RoundInv
  <2>2. CASE Next
    BY <2>1, <2>2, NextCases, PollKeepsOwn, CreateKeepsOwn, SaveKeepsOwn, RequestKeepsOwn DEF Change
  <2>3. CASE UNCHANGED vars
    BY <2>3 DEF vars, store, poll, OwnInv, DeviceIsOwn, PolledIsOwn, RestingIsOwn, AbsentIsEmpty,
       HandIsOwn, Exists, Removing, RemovingSnapshot, Polled, FirstDevice
  <2>. QED
    BY <2>2, <2>3
<1>2. OwnInv => ReadingsAreItsOwn
  BY DEF OwnInv, DeviceIsOwn, Own, ReadingsAreItsOwn, Published
<1>. QED
  BY <1>1, <1>2, RoundInvariance, InitOwn, PTL DEF Spec

-----------------------------------------------------------------------------
(* What an undisturbed round achieves *)

LEMMA FirstDeviceIsLeast ==
  ASSUME NEW ids, ids \subseteq Devices, ids # {}
  PROVE  FirstDevice(ids) \in ids /\ \A e \in ids : FirstDevice(ids) <= e
<1>1. \E d \in ids : \A e \in ids : d <= e
  BY LeastElement, DevicesAssumption
<1>. QED
  BY <1>1 DEF FirstDevice

\* Addresses are given to devices that exist.
HostsInv == \A d \in Devices : Exists(d) => devices[d].host \in Hosts

LEMMA HostsAreGiven == Spec => []HostsInv
<1>1. Init => HostsInv
  BY DEF Init, HostsInv, Exists, NoRow
<1>2. TypeOK /\ HostsInv /\ [Next]_vars => HostsInv'
  <2> SUFFICES ASSUME TypeOK, HostsInv, [Next]_vars
               PROVE  HostsInv'
    OBVIOUS
  <2>1. CASE Poll
    <3>1. devices' = devices
      BY <2>1 DEF Poll, LoadDevices, FinishRound, ReadCounters, WriteCounters, AnswerWithoutRate,
         Fail, Skip, Publish, ReadDefault, NextDevice, ClaimDefault, WriteCurrent,
         SetActiveDevices, FindStale, DropSnapshot, DropCounters, SetDefault, FindDefault,
         SetCurrent
    <3>. QED
      BY <3>1 DEF HostsInv, Exists
  <2>2. ASSUME NEW d \in Devices, NEW h \in Hosts, NEW status \in {"enabled", "disabled"},
               Change(d, h, status)
        PROVE  HostsInv'
    <3>1. devices' = [devices EXCEPT ![d] = [status |-> status, host |-> h]]
      BY <2>2 DEF Change, CreateDevice, SaveDevice
    <3>. QED
      BY <3>1 DEF HostsInv, Exists, TypeOK
  <2>3. ASSUME NEW r \in Requests, RequestStep(r)
        PROVE  HostsInv'
    <3>1. devices' = devices \/ \E d \in Devices : devices' = [devices EXCEPT ![d] = NoRow("deleted")]
      BY <2>3 DEF RequestStep, DeleteDevice, RemoveDevice, RemoveSnapshot, RemoveCounters,
         CheckDefault, ListKeys, SetActiveDevices, FindStale, DropSnapshot, DropCounters,
         SetDefault, FindDefault, SetCurrent
    <3>. QED
      BY <3>1 DEF HostsInv, Exists, NoRow, TypeOK
  <2>4. CASE UNCHANGED vars
    BY <2>4 DEF vars, HostsInv, Exists
  <2>. QED
    BY <2>1, <2>2, <2>3, <2>4, NextCases
<1>. QED
  BY <1>1, <1>2, StoreTypes, PTL DEF Spec

\* With no request in flight before and after, and no change of the table, only
\* the poller can have moved.
LEMMA QuietStep ==
  ASSUME TypeOK, Quiet, Quiet', [Next]_vars, devices' = devices
  PROVE  Poll \/ UNCHANGED vars
<1>1. ASSUME NEW d \in Devices, NEW h \in Hosts, NEW status \in {"enabled", "disabled"},
             Change(d, h, status)
      PROVE  FALSE
  <2>1. CASE CreateDevice(d, h, status)
    <3>1. devices'[d].status = status /\ devices[d].status = "absent"
      BY <2>1 DEF CreateDevice, TypeOK
    <3>. QED
      BY <3>1
  <2>2. ASSUME NEW r \in Requests, SaveDevice(r, d, h, status)
        PROVE  FALSE
    <3>1. threads'[r].pc = "RemoveSnapshot"
      BY <2>2, PollerIsNoRequest DEF SaveDevice, TypeOK, Call
    <3>. QED
      BY <3>1 DEF Quiet, At
  <2>. QED
    BY <1>1, <2>1, <2>2 DEF Change
<1>2. ASSUME NEW r \in Requests, RequestStep(r)
      PROVE  FALSE
  <2>1. ASSUME NEW d \in Devices, DeleteDevice(r, d)
        PROVE  FALSE
    <3>1. threads'[r].pc = "RemoveSnapshot"
      BY <2>1, PollerIsNoRequest DEF DeleteDevice, TypeOK, Call
    <3>. QED
      BY <3>1 DEF Quiet, At
  <2>2. CASE RemoveDevice(r) \/ SetActiveDevices(r)
    BY <2>2 DEF RemoveDevice, RemoveSnapshot, RemoveCounters, CheckDefault, ListKeys,
       SetActiveDevices, FindStale, DropSnapshot, DropCounters, SetDefault, FindDefault,
       SetCurrent, Quiet, At
  <2>. QED
    BY <1>2, <2>1, <2>2 DEF RequestStep
<1>. QED
  BY <1>1, <1>2, NextCases

-----------------------------------------------------------------------------

Preparing == {"SetActive", "Drop", "SetDefault", "FindDefault", "SetCurrent"}
Polling == {"Poll", "Count", "Fail", "Publish", "ReadDefault", "WriteCurrent"}

IsShown(d) == snapshots[d].ip = devices[d].host

\* What the round in progress has achieved, if the last one has ended with the
\* table as it is and without a request since.
Calm ==
  LET p == threads[Poller]
  IN  /\ p.pc \in {"Load"} \cup Preparing \cup Polling
      /\ p.pc # "Load" => /\ p.ids = Enabled /\ rest \subseteq Enabled
                          /\ \A d \in Enabled : round[d] = devices[d].host
      /\ p.pc \in Preparing => rest = Enabled
      /\ p.pc = "Drop" => p.stale \cap Enabled = {}
      /\ p.pc \in {"FindDefault", "SetCurrent"} \cup Polling => default = FirstDevice(Enabled)
      /\ p.pc \in Polling => /\ \A d \in Enabled \ rest : IsShown(d)
                             /\ default \in rest \/ current = default
      /\ p.pc = "Publish" => answer.ip = devices[Polled].host
      /\ p.pc \in {"ReadDefault", "WriteCurrent"} => IsShown(Polled)
      /\ p.pc = "WriteCurrent" => default = Polled

LEMMA FirstOfEnabled ==
  ASSUME TypeOK
  PROVE  /\ Enabled \subseteq Devices
         /\ FirstDevice(Enabled) \in Devices \cup {0}
         /\ Enabled # {} => FirstDevice(Enabled) \in Enabled /\ FirstDevice(Enabled) # 0
<1>1. Enabled \subseteq Devices
  BY DEF Enabled
<1>. QED
  BY <1>1, FirstDeviceIsOne, DevicesAssumption

LEMMA LoadIsCalm ==
  ASSUME RoundInv, Calm, LoadDevices
  PROVE  Calm'
<1>1. threads'[Poller] = [threads[Poller] EXCEPT !.pc = "SetActive", !.ids = Enabled]
      /\ threads[Poller] \in Call
  BY PollerIsNoRequest DEF LoadDevices, RoundInv, TypeOK
<1>2. threads'[Poller].pc = "SetActive" /\ threads'[Poller].ids = Enabled
  BY <1>1 DEF Call
<1>3. Enabled' = Enabled /\ rest' = Enabled /\ devices' = devices
  BY DEF LoadDevices, Enabled
<1>4. \A d \in Enabled : round'[d] = devices[d].host
  BY DEF LoadDevices, Enabled
<1>. QED
  BY <1>2, <1>3, <1>4 DEF Calm, Preparing, Polling

LEMMA PreparingIsCalm ==
  ASSUME RoundInv, Calm, SetActiveDevices(Poller)
  PROVE  Calm'
<1> DEFINE p == threads[Poller]
<1>1. /\ TypeOK /\ Poller \in Threads /\ p \in Call
      /\ threads \in [Threads -> Call]
  BY PollerIsNoRequest DEF RoundInv, TypeOK
<1>2. UNCHANGED <<devices, rest, round>> /\ Enabled' = Enabled
  BY DEF SetActiveDevices, FindStale, DropSnapshot, DropCounters, SetDefault, FindDefault,
     SetCurrent, poll, Enabled
<1>3. p.pc \in Preparing
  BY DEF SetActiveDevices, FindStale, DropSnapshot, DropCounters, SetDefault, FindDefault,
     SetCurrent, At, Preparing
<1>4. /\ p.ids = Enabled /\ rest = Enabled
      /\ \A d \in Enabled : round[d] = devices[d].host
  BY <1>3 DEF Calm, Preparing
<1> HIDE DEF p
<1>5. CASE FindStale(Poller)
  <2>1. threads'[Poller] = [p EXCEPT !.pc = "Drop", !.stale = Stale(p.ids)]
    BY <1>1, <1>5 DEF FindStale, p
  <2>2. threads'[Poller].pc = "Drop" /\ threads'[Poller].stale = Stale(p.ids) /\ threads'[Poller].ids = p.ids
    BY <1>1, <2>1 DEF Call
  <2>3. Stale(p.ids) \cap Enabled = {}
    BY <1>4 DEF Stale
  <2>. QED
    BY <1>2, <1>4, <2>2, <2>3 DEF Calm, Preparing, Polling
<1>6. ASSUME NEW d \in Devices, DropSnapshot(Poller, d)
      PROVE  Calm'
  <2>1. threads'[Poller] = [p EXCEPT !.stale = @ \ {d}] /\ p.pc = "Drop"
    BY <1>1, <1>6 DEF DropSnapshot, At, p
  <2>2. threads'[Poller].pc = "Drop" /\ threads'[Poller].stale = p.stale \ {d} /\ threads'[Poller].ids = p.ids
    BY <1>1, <2>1 DEF Call
  <2>3. p.stale \cap Enabled = {}
    BY <2>1 DEF Calm, p
  <2>. QED
    BY <1>2, <1>4, <2>2, <2>3 DEF Calm, Preparing, Polling
<1>7. CASE DropCounters(Poller)
  <2>1. threads'[Poller].pc = "SetDefault" /\ threads'[Poller].ids = p.ids
    BY <1>1, <1>7, GoPoller DEF DropCounters, p
  <2>. QED
    BY <1>2, <1>4, <2>1 DEF Calm, Preparing, Polling
<1>8. CASE SetDefault(Poller)
  <2>1. /\ threads'[Poller].pc = "FindDefault" /\ threads'[Poller].ids = p.ids
        /\ default' = FirstDevice(p.ids)
    BY <1>1, <1>8, GoPoller DEF SetDefault, p
  <2>2. FirstDevice(Enabled)' = FirstDevice(Enabled)
    BY <1>2 DEF FirstDevice
  <2>. QED
    BY <1>2, <1>4, <2>1, <2>2 DEF Calm, Preparing, Polling
<1>9. FirstDevice(Enabled)' = FirstDevice(Enabled)
  BY <1>2 DEF FirstDevice
<1>10. CASE FindDefault(Poller)
  <2>1. /\ p.pc = "FindDefault" /\ UNCHANGED <<default, current>>
        /\ \/ Go(Poller, "SetCurrent")
           \/ Go(Poller, "Poll") /\ FirstDevice(p.ids) # 0
    BY <1>10 DEF FindDefault, Return, At, store, p
  <2>2. default = FirstDevice(Enabled)
    BY <2>1 DEF Calm, p
  <2>3. threads'[Poller].ids = p.ids /\ threads'[Poller].pc \in {"SetCurrent", "Poll"}
    BY <1>1, <2>1, GoPoller DEF p
  <2>4. threads'[Poller].pc = "Poll" => default \in Enabled
    <3>1. SUFFICES ASSUME threads'[Poller].pc = "Poll"
                   PROVE  default \in Enabled
      OBVIOUS
    <3>2. FirstDevice(p.ids) # 0
      BY <1>1, <2>1, <3>1, GoPoller
    <3>. QED
      BY <1>1, <1>4, <2>2, <3>2, FirstOfEnabled DEF FirstDevice
  <2>. QED
    BY <1>2, <1>4, <1>9, <2>1, <2>2, <2>3, <2>4 DEF Calm, Preparing, Polling
<1>11. CASE SetCurrent(Poller)
  <2>1. /\ p.pc = "SetCurrent" /\ default' = default /\ current' = FirstDevice(p.ids)
        /\ Go(Poller, "Poll")
    BY <1>11 DEF SetCurrent, Return, At, p
  <2>2. default = FirstDevice(Enabled)
    BY <2>1 DEF Calm, p
  <2>3. threads'[Poller].ids = p.ids /\ threads'[Poller].pc = "Poll"
    BY <1>1, <2>1, GoPoller DEF p
  <2>. QED
    BY <1>2, <1>4, <1>9, <2>1, <2>2, <2>3 DEF Calm, Preparing, Polling
<1>. QED
  BY <1>5, <1>6, <1>7, <1>8, <1>10, <1>11 DEF SetActiveDevices

\* A step of a poll.
LEMMA PollingIsCalm ==
  ASSUME RoundInv, Calm,
         \/ ReadCounters \/ WriteCounters \/ AnswerWithoutRate \/ Fail \/ Skip
         \/ Publish \/ ReadDefault \/ ClaimDefault \/ WriteCurrent
  PROVE  Calm' /\ rest # {} /\ threads[Poller].pc \in Polling
<1> DEFINE p == threads[Poller]
<1>1. TypeOK /\ RestInv
  BY DEF RoundInv
<1>2. rest # {} /\ p.pc \in Polling
  BY <1>1 DEF ReadCounters, WriteCounters, AnswerWithoutRate, Fail, Skip, Publish, ReadDefault,
     ClaimDefault, WriteCurrent, At, RestInv, AtWork, Polling, Calm, Preparing
<1>3. Polled \in rest /\ Polled \in Devices /\ Polled \in Enabled
  BY <1>1, <1>2, PolledIsOne DEF Calm, Polling
<1>4. /\ p.ids = Enabled /\ rest \subseteq Enabled /\ p.pc # "Load"
      /\ \A d \in Enabled : round[d] = devices[d].host
      /\ default = FirstDevice(Enabled) /\ default # 0
      /\ \A d \in Enabled \ rest : IsShown(d)
      /\ default \in rest \/ current = default
  BY <1>1, <1>2, <1>3, FirstOfEnabled DEF Calm, Polling
<1>5. UNCHANGED <<devices, round>> /\ Enabled' = Enabled
  BY DEF ReadCounters, WriteCounters, AnswerWithoutRate, Fail, Skip, Publish, ReadDefault,
     NextDevice, ClaimDefault, WriteCurrent, poll, Enabled
<1>6. FirstDevice(Enabled)' = FirstDevice(Enabled)
  BY <1>5 DEF FirstDevice
<1>7. ASSUME UNCHANGED <<snapshots, default, current, rest>>,
             NEW pc \in Polling, Go(Poller, pc),
             pc = "Publish" => answer'.ip = devices[Polled].host,
             pc \in {"ReadDefault", "WriteCurrent"} => IsShown(Polled),
             pc = "WriteCurrent" => default = Polled
      PROVE  Calm'
  <2>1. threads'[Poller].pc = pc /\ threads'[Poller].ids = p.ids
    BY <1>1, <1>7, GoPoller
  <2>2. Polled' = Polled /\ \A d \in Devices : IsShown(d)' = IsShown(d)
    BY <1>5, <1>7 DEF Polled, FirstDevice, IsShown
  <2> HIDE DEF p
  <2>. QED
    BY <1>3, <1>4, <1>5, <1>6, <1>7, <2>1, <2>2 DEF Calm, Polling, Preparing, Enabled, IsShown
<1>8. ASSUME NextDevice, UNCHANGED <<snapshots, default>>, IsShown(Polled),
             current' = IF default = Polled THEN default ELSE current
      PROVE  Calm'
  <2>1. threads'[Poller].pc = "Poll" /\ threads'[Poller].ids = p.ids /\ rest' = rest \ {Polled}
    BY <1>1, <1>8, GoPoller DEF NextDevice
  <2>2. \A d \in Devices : IsShown(d)' = IsShown(d)
    BY <1>5, <1>8 DEF IsShown
  <2>3. default' \in rest' \/ current' = default'
    BY <1>4, <1>8, <2>1
  <2> HIDE DEF p
  <2>. QED
    BY <1>3, <1>4, <1>5, <1>6, <1>8, <2>1, <2>2, <2>3 DEF Calm, Polling, Preparing, Enabled
<1>9. round[Polled] = devices[Polled].host
  BY <1>3, <1>4
<1>10. CASE ReadCounters
  <2>1. UNCHANGED <<snapshots, default, current, rest>> /\ Go(Poller, "Count")
    BY <1>10 DEF ReadCounters, store
  <2>2. "Count" \in Polling /\ "Count" \notin {"Publish", "ReadDefault", "WriteCurrent"}
    BY DEF Polling
  <2>. QED
    BY <1>2, <1>7, <2>1, <2>2
<1>11. CASE WriteCounters \/ AnswerWithoutRate
  <2>1. \A rate : Answer(rate).ip = devices[Polled].host
    BY <1>9 DEF Answer
  <2>. QED
    BY <1>2, <1>7, <1>11, <2>1 DEF WriteCounters, AnswerWithoutRate, Polling
<1>12. CASE Fail \/ Skip
  <2>1. snapshots[Polled] \in Snapshot
    BY <1>1, <1>3 DEF TypeOK
  <2>2. answer'.ip = devices[Polled].host
    BY <1>9, <1>12, <2>1 DEF Fail, Skip, Snapshot, NoSnapshot
  <2>. QED
    BY <1>2, <1>7, <1>12, <2>2 DEF Fail, Skip, store, Polling
<1>13. CASE Publish
  <2>1. /\ snapshots' = [snapshots EXCEPT ![Polled] = answer] /\ p.pc = "Publish"
        /\ UNCHANGED <<default, current, rest>> /\ Go(Poller, "ReadDefault")
    BY <1>13 DEF Publish, At
  <2>2. answer.ip = devices[Polled].host
    BY <2>1 DEF Calm
  <2>3. threads'[Poller].pc = "ReadDefault" /\ threads'[Poller].ids = p.ids
    BY <1>1, <2>1, GoPoller
  <2>4. Polled' = Polled
    BY <2>1 DEF Polled, FirstDevice
  <2>5. \A d \in Devices : IsShown(d)' = IF d = Polled THEN TRUE ELSE IsShown(d)
    BY <1>1, <1>5, <2>1, <2>2 DEF IsShown, TypeOK
  <2>6. IsShown(Polled)'
    BY <1>3, <2>4, <2>5 DEF IsShown
  <2>7. \A d \in Enabled \ rest : IsShown(d)'
    BY <1>4, <2>5 DEF Enabled
  <2> HIDE DEF p
  <2>8. Calm'
    BY <1>3, <1>4, <1>5, <1>6, <2>1, <2>3, <2>6, <2>7 DEF Calm, Polling, Preparing
  <2>. QED
    BY <1>2, <2>8 DEF p
<1>14. CASE ReadDefault
  <2>1. p.pc = "ReadDefault" /\ IsShown(Polled)
    BY <1>2, <1>14 DEF ReadDefault, At, Calm, Polling
  <2>2. CASE default = Polled /\ Go(Poller, "WriteCurrent") /\ UNCHANGED <<store, rest>>
    BY <1>2, <1>7, <2>1, <2>2 DEF store, Polling
  <2>3. CASE default # Polled /\ NextDevice /\ UNCHANGED current
    BY <1>2, <1>8, <2>1, <2>3 DEF NextDevice
  <2>. QED
    BY <1>4, <1>14, <2>2, <2>3 DEF ReadDefault, poll
<1>15. CASE ClaimDefault
  BY <1>2, <1>15 DEF ClaimDefault, At, Polling
<1>16. CASE WriteCurrent
  <2>1. IsShown(Polled) /\ default = Polled
    BY <1>16 DEF WriteCurrent, At, Calm
  <2>. QED
    BY <1>2, <1>8, <1>16, <2>1 DEF WriteCurrent, NextDevice
<1>. QED
  BY <1>2, <1>10, <1>11, <1>12, <1>13, <1>14, <1>15, <1>16

\* The end of a round.
LEMMA RoundEnds ==
  ASSUME RoundInv, HostsInv, FinishRound
  PROVE  Calm' /\ (Calm => Settled')
<1>1. TypeOK /\ Poller \in Threads
  BY PollerIsNoRequest DEF RoundInv
<1>2. /\ threads[Poller].pc = "Poll" /\ rest = {} /\ threads'[Poller].pc = "Load"
      /\ UNCHANGED <<devices, snapshots, counters, default, current>>
  BY <1>1, GoPoller DEF FinishRound, At, store
<1>3. Calm'
  BY <1>2 DEF Calm, Preparing, Polling
<1>4. ASSUME Calm PROVE Settled'
  <2>1. /\ threads[Poller].ids = Enabled /\ default = FirstDevice(Enabled) /\ current = default
        /\ \A d \in Enabled : IsShown(d)
    BY <1>2, <1>4 DEF Calm, Polling
  <2>2. Published \subseteq Enabled
    BY <1>2, <2>1 DEF RoundInv, StoreIsOfTheRound
  <2>3. \A d \in Enabled : d \in Devices /\ devices[d].host # None
    BY HostsAssumption DEF Enabled, HostsInv, Exists
  <2>4. Enabled \subseteq Published
    BY <2>1, <2>3 DEF IsShown, Published
  <2>5. IF Enabled = {} THEN default = 0 ELSE default \in Enabled /\ \A d \in Enabled : default <= d
    BY <2>1, FirstDeviceIsLeast DEF FirstDevice, Enabled
  <2>6. Settled
    BY <2>1, <2>2, <2>4, <2>5 DEF Settled, IsShown
  <2>. QED
    BY <1>2, <2>6 DEF Settled, Published, Enabled
<1>. QED
  BY <1>3, <1>4

\* The first of the enabled devices is the default one of a store that is settled.
LEMMA SettledDefault ==
  ASSUME TypeOK, Settled
  PROVE  default = FirstDevice(Enabled)
<1>1. CASE Enabled = {}
  BY <1>1 DEF Settled, FirstDevice
<1>2. CASE Enabled # {}
  <2>1. FirstDevice(Enabled) \in Enabled /\ FirstDevice(Enabled) <= default
    BY <1>2, FirstDeviceIsLeast DEF Settled, Enabled
  <2>2. default \in Enabled /\ default <= FirstDevice(Enabled)
    BY <1>2, <2>1 DEF Settled
  <2>3. default \in Nat /\ FirstDevice(Enabled) \in Nat
    BY <2>1, <2>2, DevicesAssumption DEF Enabled
  <2>. QED
    BY <2>1, <2>2, <2>3
<1>. QED
  BY <1>1, <1>2

\* A store that has settled stays so while round follows round.
LEMMA SettledStays ==
  ASSUME RoundInv, HostsInv, Calm, Settled, Poll
  PROVE  Settled'
<1>1. TypeOK /\ Enabled \subseteq Devices
  BY DEF RoundInv, Enabled
<1>2. devices' = devices /\ Enabled' = Enabled
  BY DEF Poll, LoadDevices, FinishRound, ReadCounters, WriteCounters, AnswerWithoutRate, Fail, Skip,
     Publish, ReadDefault, NextDevice, ClaimDefault, WriteCurrent, SetActiveDevices, FindStale,
     DropSnapshot, DropCounters, SetDefault, FindDefault, SetCurrent, Enabled
<1>3. ASSUME UNCHANGED <<snapshots, default, current>>
      PROVE  Settled'
  BY <1>2, <1>3 DEF Settled, Published
<1>4. CASE \/ LoadDevices \/ FinishRound \/ ReadCounters \/ WriteCounters \/ AnswerWithoutRate
           \/ Fail \/ Skip \/ FindStale(Poller) \/ DropCounters(Poller) \/ FindDefault(Poller)
  BY <1>3, <1>4 DEF LoadDevices, FinishRound, ReadCounters, WriteCounters, AnswerWithoutRate, Fail,
     Skip, FindStale, DropCounters, FindDefault, store
<1>5. ASSUME NEW d \in Devices, DropSnapshot(Poller, d)
      PROVE  Settled'
  <2>1. d \notin Enabled /\ snapshots' = [snapshots EXCEPT ![d] = NoSnapshot]
    BY <1>5 DEF DropSnapshot, At, Calm
  <2>2. snapshots[d].ip = None
    BY <2>1 DEF Settled, Published
  <2>3. \A e \in Devices : snapshots'[e].ip = snapshots[e].ip
    BY <1>1, <2>1, <2>2 DEF TypeOK, NoSnapshot
  <2>4. UNCHANGED <<default, current>>
    BY <1>5 DEF DropSnapshot
  <2>. QED
    BY <1>1, <1>2, <2>3, <2>4 DEF Settled, Published
<1>6. CASE SetDefault(Poller) \/ SetCurrent(Poller)
  <2>1. threads[Poller].ids = Enabled
    BY <1>6 DEF SetDefault, SetCurrent, At, Calm
  <2>2. FirstDevice(threads[Poller].ids) = default /\ current = default
    BY <1>1, <2>1, SettledDefault DEF Settled
  <2>. QED
    BY <1>3, <1>6, <2>2 DEF SetDefault, SetCurrent
<1>7. CASE Publish
  <2>1. rest # {} /\ Polled \in Enabled /\ answer.ip = devices[Polled].host
    BY <1>1, <1>7, PollingIsCalm, PolledIsOne DEF Publish, At, Calm, Polling
  <2>2. devices[Polled].host # None
    BY <2>1, HostsAssumption DEF Enabled, HostsInv, Exists
  <2>3. /\ snapshots' = [snapshots EXCEPT ![Polled] = answer]
        /\ UNCHANGED <<default, current>>
    BY <1>7 DEF Publish
  <2>4. snapshots[Polled].ip = devices[Polled].host
    BY <2>1 DEF Settled
  <2>5. \A e \in Devices : snapshots'[e].ip = snapshots[e].ip
    BY <1>1, <2>1, <2>3, <2>4 DEF TypeOK
  <2>. QED
    BY <1>1, <1>2, <2>3, <2>5 DEF Settled, Published
<1>8. CASE ReadDefault
  BY <1>3, <1>8 DEF ReadDefault, NextDevice, store
<1>9. CASE ClaimDefault
  BY <1>9 DEF ClaimDefault, At, Calm, Preparing, Polling
<1>10. CASE WriteCurrent
  <2>1. default = Polled /\ current = default
    BY <1>10 DEF WriteCurrent, At, Calm, Settled
  <2>. QED
    BY <1>3, <1>10, <2>1 DEF WriteCurrent, NextDevice
<1>. QED
  BY <1>4, <1>5, <1>6, <1>7, <1>8, <1>9, <1>10 DEF Poll, SetActiveDevices

\* As long as rounds of the poller come to an end, the store settles once
\* devices are no longer changed and the last request has been answered,
\* whatever stale snapshots, default and current device they have left.
THEOREM RoundsSettleTheStore == Spec /\ []<><<FinishRound>>_vars => Converges
<1>1. /\ RoundInv /\ HostsInv /\ Calm /\ Quiet /\ Quiet' /\ [Next]_vars /\ [FALSE]_devices
      => Calm' /\ (Settled => Settled')
  <2> SUFFICES ASSUME RoundInv, HostsInv, Calm, Quiet, Quiet', [Next]_vars, devices' = devices
               PROVE  Calm' /\ (Settled => Settled')
    OBVIOUS
  <2>1. Poll \/ UNCHANGED vars
    BY QuietStep DEF RoundInv
  <2>2. CASE Poll
    BY <2>2, LoadIsCalm, RoundEnds, PreparingIsCalm, PollingIsCalm, SettledStays DEF Poll
  <2>3. CASE UNCHANGED vars
    BY <2>3 DEF vars, store, poll, Calm, IsShown, Polled, FirstDevice, Enabled, Settled, Published
  <2>. QED
    BY <2>1, <2>2, <2>3
<1>2. RoundInv /\ HostsInv /\ <<FinishRound>>_vars => Calm' /\ (Calm => Settled')
  BY RoundEnds
<1>. QED
  BY <1>1, <1>2, RoundInvariance, HostsAreGiven, PTL DEF Spec, Converges
=============================================================================
