----------------------------- MODULE PageProofs -----------------------------
(***************************************************************************)
(* Proofs about PageTables, for any devices, and any number of requests    *)
(* and events, and about Traffic, for counters of any width, any traffic   *)
(* and any clock.                                                          *)
(***************************************************************************)
EXTENDS PageTables, Traffic, TLAPS, WellFoundedInduction

-----------------------------------------------------------------------------
(* The tables *)

\* A call of loadAlertHistory that no other came after.
Current(r) == historyLoads[r] # Nothing /\ historyLoads[r].latest

\* There is at most one, it asks for the filter chosen, and what it is answered
\* is not older than what is shown.
TablesInv ==
  /\ TablesTypeOK
  /\ HistoryFitsTheFilter
  /\ \A q, r \in TableRequests : Current(q) /\ Current(r) => q = r
  /\ \A r \in TableRequests : Current(r) =>
       /\ historyLoads[r].filter = filter \/ fellBack
       /\ historyLoads[r].version # Unserved /\ history # Nothing =>
            history.version <= historyLoads[r].version
  /\ \A r \in TableRequests : historyLoads[r] # Nothing => historyLoads[r].version <= version
  /\ history # Nothing => history.version <= version

\* The events shown do not get older in a step.
NotBack == history # Nothing /\ history' # Nothing => history'.version >= history.version

LEMMA LoadFields ==
  ASSUME TablesTypeOK, NEW r \in TableRequests, historyLoads[r] # Nothing
  PROVE  /\ historyLoads[r] \in HistoryLoad
         /\ historyLoads[r].filter \in Options \cup {AllDevices} /\ historyLoads[r].latest \in BOOLEAN
         /\ historyLoads[r].version \in Versions \cup {Unserved}
BY DEF TablesTypeOK, HistoryLoad

\* Versions are numbers, Unserved is lower.
LEMMA VersionNumbers ==
  /\ \A v \in Versions : v \in Nat /\ v <= MaxVersion /\ v # Unserved
  /\ Unserved \in Int /\ \A v \in Versions : Unserved <= v
  /\ MaxVersion \in Nat
BY TablesBoundsAssumption DEF Versions, Unserved

LEMMA StartKeepsTables ==
  ASSUME TablesInv, NEW f \in options \cup {AllDevices}, filter' = f, StartLoad(f),
         UNCHANGED <<version, options, history, top, topLoads>>,
         tableActions' \in 0..MaxTableActions, tableFailures' \in 0..MaxTableFailures
  PROVE  TablesInv' /\ NotBack
<1>1. PICK r \in TableRequests :
        historyLoads' = [q \in TableRequests |->
         IF q = r THEN [filter |-> f, latest |-> TRUE, version |-> Unserved]
         ELSE IF historyLoads[q] = Nothing THEN Nothing ELSE [historyLoads[q] EXCEPT !.latest = FALSE]]
  BY DEF StartLoad
<1>2. fellBack' = FALSE
  BY DEF StartLoad
<1>3. f \in Options \cup {AllDevices} /\ TablesTypeOK
  BY DEF TablesInv, TablesTypeOK
<1> DEFINE new == [filter |-> f, latest |-> TRUE, version |-> Unserved]
<1>4. new \in HistoryLoad /\ new # Nothing
  <2>1. new \in HistoryLoad
    BY <1>3 DEF HistoryLoad
  <2>. QED
    BY <2>1, NothingAssumption
<1>5. historyLoads'[r] = new
  BY <1>1
<1>6. ASSUME NEW q \in TableRequests, q # r
      PROVE  /\ historyLoads[q] = Nothing => historyLoads'[q] = Nothing
             /\ historyLoads[q] # Nothing =>
                  /\ historyLoads'[q] \in HistoryLoad /\ ~historyLoads'[q].latest
                  /\ historyLoads'[q].version = historyLoads[q].version
  <2>1. historyLoads'[q] = IF historyLoads[q] = Nothing THEN Nothing
                           ELSE [historyLoads[q] EXCEPT !.latest = FALSE]
    BY <1>1, <1>6
  <2>2. CASE historyLoads[q] # Nothing
    BY <1>3, <2>1, <2>2, LoadFields DEF HistoryLoad
  <2>. QED
    BY <2>1, <2>2
<1>7. historyLoads' \in [TableRequests -> HistoryLoad \cup {Nothing}]
  BY <1>1, <1>4, <1>5, <1>6
<1>8. TablesTypeOK'
  BY <1>2, <1>3, <1>7 DEF TablesTypeOK
<1>9. \A q \in TableRequests : Current(q)' => q = r
  BY <1>6 DEF Current
<1>10. HistoryFitsTheFilter'
  BY <1>4, <1>5 DEF HistoryFitsTheFilter, Loading
<1>11. \A q \in TableRequests : historyLoads'[q] # Nothing => historyLoads'[q].version <= version
  BY <1>3, <1>5, <1>6, VersionNumbers DEF TablesInv, TablesTypeOK
<1>12. \A q \in TableRequests : Current(q)' =>
         /\ historyLoads'[q].filter = f
         /\ historyLoads'[q].version = Unserved
  BY <1>5, <1>9
<1>13. NotBack
  <2>1. history # Nothing => history.version \in Versions
    BY <1>3 DEF TablesTypeOK, History
  <2>. QED
    BY <2>1, VersionNumbers DEF NotBack
<1>. QED
  BY <1>8, <1>9, <1>10, <1>11, <1>12, <1>13 DEF TablesInv

\* A call that has ended is not the current one any more.
LEMMA EndedLoads ==
  ASSUME TablesTypeOK, NEW r \in TableRequests, historyLoads' = [historyLoads EXCEPT ![r] = Nothing]
  PROVE  /\ historyLoads' \in [TableRequests -> HistoryLoad \cup {Nothing}]
         /\ historyLoads'[r] = Nothing /\ ~Current(r)'
         /\ \A q \in TableRequests : q # r => historyLoads'[q] = historyLoads[q] /\ Current(q)' = Current(q)
BY DEF TablesTypeOK, Current

LEMMA TakeKeepsTables ==
  ASSUME TablesInv, NEW r \in TableRequests, TakeHistory(r) \/ HistoryIsLost(r)
  PROVE  TablesInv' /\ NotBack
<1> DEFINE load == historyLoads[r]
<1>1. /\ load # Nothing /\ historyLoads' = [historyLoads EXCEPT ![r] = Nothing]
      /\ UNCHANGED <<version, options, filter, top, topLoads, fellBack, tableActions>>
  BY DEF TakeHistory, HistoryIsLost
<1>2. TablesTypeOK /\ load \in HistoryLoad /\ load.version \in Versions \cup {Unserved}
      /\ load.filter \in Options \cup {AllDevices} /\ load.latest \in BOOLEAN
  BY <1>1, LoadFields DEF TablesInv
<1>3. /\ historyLoads' \in [TableRequests -> HistoryLoad \cup {Nothing}]
      /\ historyLoads'[r] = Nothing /\ ~Current(r)'
      /\ \A q \in TableRequests : q # r => historyLoads'[q] = historyLoads[q] /\ Current(q)' = Current(q)
  BY <1>1, <1>2, EndedLoads
<1>4. tableFailures' \in 0..MaxTableFailures
  BY <1>2, TablesBoundsAssumption DEF TakeHistory, HistoryIsLost, TablesTypeOK
<1>5. history # Nothing => history \in History /\ history.version \in Versions
  BY <1>2 DEF TablesTypeOK, History
<1>6. CASE history' = history /\ ~Current(r)
  <2>1. TablesTypeOK'
    BY <1>1, <1>2, <1>3, <1>4, <1>6 DEF TablesTypeOK
  <2>2. HistoryFitsTheFilter'
    <3>1. Loading => Loading'
      BY <1>3, <1>6 DEF Loading, Current
    <3>. QED
      BY <1>1, <1>6, <3>1 DEF TablesInv, HistoryFitsTheFilter
  <2>3. NotBack
    BY <1>5, <1>6, VersionNumbers DEF NotBack
  <2>. QED
    BY <1>1, <1>3, <1>6, <2>1, <2>2, <2>3 DEF TablesInv
<1>7. CASE history' = Nothing
  <2>1. TablesTypeOK'
    BY <1>1, <1>2, <1>3, <1>4, <1>7 DEF TablesTypeOK
  <2>. QED
    BY <1>1, <1>3, <1>7, <2>1 DEF TablesInv, HistoryFitsTheFilter, NotBack
<1>8. CASE Current(r) /\ load.version # Unserved
           /\ history' = [filter |-> load.filter, version |-> load.version]
  <2>1. history' \in History /\ history'.version = load.version /\ history'.filter = load.filter
    BY <1>2, <1>8 DEF History
  <2>2. TablesTypeOK'
    BY <1>1, <1>2, <1>3, <1>4, <2>1 DEF TablesTypeOK
  <2>3. \A q \in TableRequests : ~Current(q)'
    BY <1>3, <1>8 DEF TablesInv
  <2>4. HistoryFitsTheFilter'
    BY <1>1, <1>8, <2>1 DEF TablesInv, HistoryFitsTheFilter
  <2>5. NotBack
    BY <1>8, <2>1 DEF TablesInv, NotBack
  <2>6. load.version <= version
    BY <1>1 DEF TablesInv
  <2>. QED
    BY <1>1, <1>3, <2>1, <2>2, <2>3, <2>4, <2>5, <2>6 DEF TablesInv
<1>. QED
  BY <1>1, <1>6, <1>7, <1>8 DEF TakeHistory, HistoryIsLost, Displays, Current

LEMMA ServeKeepsTables ==
  ASSUME TablesInv, NEW r \in TableRequests, ServeHistory(r)
  PROVE  TablesInv' /\ NotBack
<1> DEFINE load == [historyLoads[r] EXCEPT !.version = version]
<1>1. /\ historyLoads[r] # Nothing /\ historyLoads[r].version = Unserved
      /\ historyLoads' = [historyLoads EXCEPT ![r].version = version]
      /\ UNCHANGED <<version, options, filter, history, top, topLoads, fellBack, tableActions, tableFailures>>
  BY DEF ServeHistory
<1>2. TablesTypeOK /\ version \in Versions /\ historyLoads[r] \in HistoryLoad
  BY <1>1, LoadFields DEF TablesInv, TablesTypeOK
<1>3. /\ load \in HistoryLoad /\ load.filter = historyLoads[r].filter
      /\ load.latest = historyLoads[r].latest /\ load.version = version
  BY <1>2 DEF HistoryLoad
<1>4. historyLoads' = [historyLoads EXCEPT ![r] = load]
  BY <1>1
<1> HIDE DEF load
<1>5. load # Nothing
  BY <1>3, NothingAssumption
<1>6. /\ historyLoads' \in [TableRequests -> HistoryLoad \cup {Nothing}] /\ historyLoads'[r] = load
      /\ \A q \in TableRequests : q # r => historyLoads'[q] = historyLoads[q]
  BY <1>2, <1>3, <1>4 DEF TablesTypeOK
<1>7. \A q \in TableRequests : Current(q)' = Current(q)
  BY <1>1, <1>3, <1>5, <1>6, Zenon DEF Current
<1>8. TablesTypeOK'
  BY <1>1, <1>2, <1>6 DEF TablesTypeOK
<1>9. HistoryFitsTheFilter'
  <2>1. Loading => Loading'
    BY <1>7 DEF Loading, Current
  <2>. QED
    BY <1>1, <2>1 DEF TablesInv, HistoryFitsTheFilter
<1>10. ASSUME NEW q \in TableRequests, Current(q)
       PROVE  /\ historyLoads'[q].filter = filter \/ fellBack
              /\ historyLoads'[q].version # Unserved /\ history # Nothing =>
                   history.version <= historyLoads'[q].version
  BY <1>3, <1>6, <1>10 DEF TablesInv
<1>11. \A q \in TableRequests : historyLoads'[q] # Nothing => historyLoads'[q].version <= version
  <2>1. version <= version
    BY <1>2, VersionNumbers
  <2>. QED
    BY <1>3, <1>6, <2>1 DEF TablesInv
<1>12. NotBack
  <2>1. history # Nothing => history.version \in Versions
    BY <1>2 DEF TablesTypeOK, History
  <2>. QED
    BY <1>1, <2>1, VersionNumbers DEF NotBack
<1>. QED
  BY <1>1, <1>7, <1>8, <1>9, <1>10, <1>11, <1>12 DEF TablesInv

\* What does not concern the history.
LEMMA ElseKeepsTables ==
  ASSUME TablesInv, TablesTypeOK', UNCHANGED <<history, historyLoads>>, version' >= version,
         /\ fellBack => fellBack'
         /\ filter' = filter \/ fellBack'
  PROVE  TablesInv' /\ NotBack
<1>1. TablesTypeOK /\ version \in Versions /\ version' \in Versions
  BY DEF TablesInv, TablesTypeOK
<1>2. history # Nothing => history.version \in Versions
  BY <1>1 DEF TablesTypeOK, History
<1>3. \A r \in TableRequests : historyLoads[r] # Nothing =>
        historyLoads[r].version \in Versions \cup {Unserved}
  BY <1>1, LoadFields
<1>4. /\ \A v \in Versions \cup {Unserved} : v <= version => v <= version'
      /\ \A v \in Versions : v <= v
  BY <1>1, VersionNumbers
<1>5. \A q \in TableRequests : Current(q)' = Current(q)
  BY DEF Current
<1>6. HistoryFitsTheFilter'
  BY DEF TablesInv, HistoryFitsTheFilter, Loading
<1>. QED
  BY <1>2, <1>3, <1>4, <1>5, <1>6 DEF TablesInv, NotBack

LEMMA TablesStep == TablesInv /\ [TablesNext]_tablesVars => TablesInv' /\ [NotBack]_tablesVars
<1> SUFFICES ASSUME TablesInv, [TablesNext]_tablesVars PROVE TablesInv' /\ [NotBack]_tablesVars
  OBVIOUS
<1>1. TablesTypeOK /\ version \in Nat /\ version \in Versions
  BY VersionNumbers DEF TablesInv, TablesTypeOK
<1>2. tableActions + 1 \in Nat /\ (TableAct => tableActions' \in 0..MaxTableActions)
  BY <1>1, TablesBoundsAssumption DEF TableAct, TablesTypeOK
<1>3. CASE VersionGrows
  <2>1. version' \in Versions /\ version' >= version
    BY <1>1, <1>3, TablesBoundsAssumption DEF VersionGrows, Versions
  <2>2. TablesTypeOK'
    BY <1>1, <1>3, <2>1 DEF VersionGrows, TablesTypeOK
  <2>. QED
    BY <1>3, <2>1, <2>2, ElseKeepsTables DEF VersionGrows
<1>4. CASE LoadAlertHistory
  <2>1. tableActions' \in 0..MaxTableActions /\ tableFailures' \in 0..MaxTableFailures
    BY <1>1, <1>2, <1>4 DEF LoadAlertHistory, TablesTypeOK
  <2>2. filter \in options \cup {AllDevices} /\ StartLoad(filter)
    BY <1>1, <1>4 DEF LoadAlertHistory, CurrentFilter, TablesTypeOK
  <2>. QED
    BY <1>4, <2>1, <2>2, StartKeepsTables DEF LoadAlertHistory
<1>5. ASSUME NEW f \in Options \cup {AllDevices}, ChooseFilter(f) PROVE TablesInv' /\ NotBack
  <2>1. tableActions' \in 0..MaxTableActions /\ tableFailures' \in 0..MaxTableFailures
    BY <1>1, <1>2, <1>5 DEF ChooseFilter, TablesTypeOK
  <2>. QED
    BY <1>5, <2>1, StartKeepsTables DEF ChooseFilter
<1>6. ASSUME NEW listed \in SUBSET Options, UpdateAlertHistoryDeviceOptions(listed)
      PROVE  TablesInv' /\ NotBack
  <2>1. tableActions' \in 0..MaxTableActions
    BY <1>2, <1>6 DEF UpdateAlertHistoryDeviceOptions
  <2>2. TablesTypeOK'
    BY <1>1, <1>6, <2>1 DEF UpdateAlertHistoryDeviceOptions, KeptFilter, TablesTypeOK
  <2>3. /\ fellBack => fellBack'
        /\ filter' = filter \/ fellBack'
    BY <1>1, <1>6 DEF UpdateAlertHistoryDeviceOptions, KeptFilter, TablesTypeOK
  <2>. QED
    BY <1>1, <1>6, <2>2, <2>3, ElseKeepsTables DEF UpdateAlertHistoryDeviceOptions
<1>7. ASSUME LoadTopInterfaces \/ \E r \in TableRequests : ServeTop(r) \/ TakeTop(r) \/ TopIsLost(r)
      PROVE  TablesInv' /\ NotBack
  <2>1. UNCHANGED <<version, options, filter, history, historyLoads, fellBack, tableActions>>
    BY <1>7 DEF LoadTopInterfaces, ServeTop, TakeTop, TopIsLost
  <2>2. tableFailures' \in 0..MaxTableFailures
    BY <1>1, <1>7, TablesBoundsAssumption DEF LoadTopInterfaces, ServeTop, TakeTop, TopIsLost, TablesTypeOK
  <2>3. top' \in Versions \cup {Nothing} /\ topLoads' \in [TableRequests -> Versions \cup {Unserved, Nothing}]
    BY <1>1, <1>7 DEF LoadTopInterfaces, ServeTop, TakeTop, TopIsLost, TablesTypeOK
  <2>4. TablesTypeOK'
    BY <1>1, <2>1, <2>2, <2>3 DEF TablesTypeOK
  <2>. QED
    BY <1>1, <2>1, <2>4, ElseKeepsTables
<1>8. ASSUME NEW r \in TableRequests, ServeHistory(r) \/ TakeHistory(r) \/ HistoryIsLost(r)
      PROVE  TablesInv' /\ NotBack
  BY <1>8, ServeKeepsTables, TakeKeepsTables
<1>9. CASE UNCHANGED tablesVars
  BY <1>9 DEF tablesVars, TablesInv, TablesTypeOK, HistoryFitsTheFilter, Loading, Current
<1>. QED
  BY <1>3, <1>4, <1>5, <1>6, <1>7, <1>8, <1>9 DEF TablesNext

LEMMA InitTables == TablesInit => TablesInv
<1> SUFFICES ASSUME TablesInit PROVE TablesInv
  OBVIOUS
<1>1. 0 \in Versions /\ 0 \in 0..MaxTableActions /\ 0 \in 0..MaxTableFailures
  BY TablesBoundsAssumption DEF Versions
<1>2. TablesTypeOK
  BY <1>1 DEF TablesInit, TablesTypeOK
<1>3. history = Nothing /\ \A r \in TableRequests : historyLoads[r] = Nothing
  BY DEF TablesInit
<1>. QED
  BY <1>2, <1>3 DEF TablesInv, HistoryFitsTheFilter, Current

\* The types of the tables' variables.
THEOREM TablesTypes == TablesSpec => []TablesTypeOK
<1>1. TablesInv => TablesTypeOK
  BY DEF TablesInv
<1>. QED
  BY <1>1, InitTables, TablesStep, PTL DEF TablesSpec

\* The events shown are those of the filter, for any devices, and any number of
\* calls in flight.
THEOREM HistoryFits == TablesSpec => []HistoryFitsTheFilter
<1>1. TablesInv => HistoryFitsTheFilter
  BY DEF TablesInv
<1>. QED
  BY <1>1, InitTables, TablesStep, PTL DEF TablesSpec

\* The events shown never get older, however many calls are answered in any
\* order.
THEOREM HistoryGoesOn == TablesSpec => HistoryNeverGoesBack
BY InitTables, TablesStep, PTL DEF TablesSpec, HistoryNeverGoesBack, NotBack

-----------------------------------------------------------------------------
(* What the timer and the answers achieve for the alert history *)

\* What makes the alert history stale, or its request futile: events, filters
\* and lost answers.
Disturbing ==
  \/ VersionGrows
  \/ \E f \in Options \cup {AllDevices} : ChooseFilter(f)
  \/ \E listed \in SUBSET Options : UpdateAlertHistoryDeviceOptions(listed)
  \/ \E r \in TableRequests : HistoryIsLost(r)

\* The answer that is waited for is, or will be, what the server has.
Fresh == \A r \in TableRequests : Current(r) =>
  historyLoads[r].filter = filter /\ historyLoads[r].version \in {Unserved, version}

HistoryIsCurrent == history = [filter |-> filter, version |-> version]

TakesCurrent == \E r \in TableRequests : Current(r) /\ TakeHistory(r)

\* A step that does not disturb leaves the history and its requests alone, asks
\* for it anew, or is one of an answer.
LEMMA UndisturbedSteps ==
  ASSUME [TablesNext]_tablesVars, ~Disturbing
  PROVE  /\ UNCHANGED <<version, filter>>
         /\ \/ UNCHANGED <<history, historyLoads>>
            \/ LoadAlertHistory
            \/ \E r \in TableRequests : ServeHistory(r) \/ TakeHistory(r)
<1>1. CASE LoadAlertHistory
  BY <1>1 DEF LoadAlertHistory, Disturbing
<1>2. CASE LoadTopInterfaces \/ \E r \in TableRequests : ServeTop(r) \/ TakeTop(r) \/ TopIsLost(r)
  BY <1>2 DEF LoadTopInterfaces, ServeTop, TakeTop, TopIsLost
<1>3. CASE \E r \in TableRequests : ServeHistory(r) \/ TakeHistory(r)
  BY <1>3 DEF ServeHistory, TakeHistory
<1>4. CASE UNCHANGED tablesVars
  BY <1>4 DEF tablesVars
<1>. QED
  BY <1>1, <1>2, <1>3, <1>4 DEF TablesNext, Disturbing

\* What an undisturbed step does when the answer waited for is fresh, whatever
\* answers to earlier calls come before or after it.
LEMMA FreshStep ==
  ASSUME TablesInv, Fresh, [TablesNext]_tablesVars, ~Disturbing
  PROVE  /\ Fresh'
         /\ Loading => Loading' \/ HistoryIsCurrent'
         /\ HistoryIsCurrent => HistoryIsCurrent'
<1>0. /\ UNCHANGED <<version, filter>>
      /\ TablesTypeOK /\ historyLoads \in [TableRequests -> HistoryLoad \cup {Nothing}]
      /\ version # Unserved
  BY UndisturbedSteps, VersionNumbers DEF TablesInv, TablesTypeOK
<1>. USE DEF Fresh, Loading, Current, HistoryIsCurrent
<1>1. CASE UNCHANGED <<history, historyLoads>>
  BY <1>0, <1>1
<1>2. CASE LoadAlertHistory
  <2>1. PICK r \in TableRequests :
          historyLoads' = [q \in TableRequests |->
            IF q = r THEN [filter |-> filter, latest |-> TRUE, version |-> Unserved]
            ELSE IF historyLoads[q] = Nothing THEN Nothing ELSE [historyLoads[q] EXCEPT !.latest = FALSE]]
    BY <1>2 DEF LoadAlertHistory, StartLoad, CurrentFilter
  <2>2. \A q \in TableRequests \ {r} : ~Current(q)'
    BY <1>0, <2>1 DEF HistoryLoad
  <2>3. /\ historyLoads'[r] = [filter |-> filter, latest |-> TRUE, version |-> Unserved]
        /\ historyLoads'[r] # Nothing
    <3>1. historyLoads'[r] = [filter |-> filter, latest |-> TRUE, version |-> Unserved]
      BY <2>1
    <3>2. filter \in Options \cup {AllDevices}
      BY <1>0 DEF TablesTypeOK
    <3>3. [filter |-> filter, latest |-> TRUE, version |-> Unserved] \in HistoryLoad
      BY <3>2 DEF HistoryLoad
    <3>. QED
      BY <3>1, <3>3, NothingAssumption
  <2>4. history' = history
    BY <1>2 DEF LoadAlertHistory
  <2>. QED
    BY <1>0, <1>2, <2>2, <2>3, <2>4
<1>3. ASSUME NEW r \in TableRequests, ServeHistory(r)
      PROVE  Fresh' /\ (Loading => Loading') /\ history' = history
  <2>1. historyLoads[r] \in HistoryLoad
    BY <1>0, <1>3 DEF ServeHistory
  <2>2. /\ historyLoads'[r] = [historyLoads[r] EXCEPT !.version = version]
        /\ \A q \in TableRequests \ {r} : historyLoads'[q] = historyLoads[q]
        /\ history' = history
    BY <1>0, <1>3 DEF ServeHistory
  <2>3. /\ historyLoads'[r].filter = historyLoads[r].filter
        /\ historyLoads'[r].latest = historyLoads[r].latest
        /\ historyLoads'[r].version = version
        /\ historyLoads'[r] # Nothing
    BY <2>1, <2>2, <1>0, NothingAssumption DEF HistoryLoad, TablesTypeOK
  <2>. QED
    BY <1>0, <1>3, <2>2, <2>3 DEF ServeHistory
<1>4. ASSUME NEW r \in TableRequests, TakeHistory(r)
      PROVE  /\ Fresh'
             /\ Loading => Loading' \/ HistoryIsCurrent'
             /\ HistoryIsCurrent => HistoryIsCurrent'
  <2>1. /\ historyLoads'[r] = Nothing
        /\ \A q \in TableRequests \ {r} : historyLoads'[q] = historyLoads[q]
        /\ historyLoads[r] # Nothing /\ historyLoads[r].version # Unserved
    BY <1>0, <1>4 DEF TakeHistory
  <2>2. CASE Current(r)
    <3>1. history' = [filter |-> filter, version |-> version]
      BY <1>4, <2>1, <2>2 DEF TakeHistory, Displays
    <3>. QED
      BY <1>0, <2>1, <3>1
  <2>3. CASE ~Current(r)
    <3>1. history' = history
      BY <1>4, <2>1, <2>3 DEF TakeHistory, Displays
    <3>. QED
      BY <1>0, <2>1, <2>3, <3>1
  <2>. QED
    BY <2>2, <2>3
<1>. QED
  BY <1>0, <1>1, <1>2, <1>3, <1>4, UndisturbedSteps

\* What fairness says of the timer, and, as long as the timer does not go off
\* before every answer, of the answers waited for: they come if they may for ever.
TimerLoadsHistory == <>[]~Loading => []<><<LoadAlertHistory>>_tablesVars
AnswerIsTaken == <>[]Loading => []<><<TakesCurrent>>_tablesVars

\* Once events, filters and failures are at rest, the events shown are those of
\* the filter shown, and the newest: whatever filter was lost, and however old
\* the answers are that still come.
THEOREM HistoryHeals ==
  TablesSpec /\ <>[][~Disturbing]_tablesVars /\ TimerLoadsHistory /\ AnswerIsTaken
    => <>[]HistoryIsCurrent
<1>1. ~Loading => Fresh
  BY DEF Loading, Fresh, Current
<1>2. TablesInv /\ Fresh /\ [TablesNext]_tablesVars /\ [~Disturbing]_tablesVars
        => /\ Fresh'
           /\ Loading => Loading' \/ HistoryIsCurrent'
           /\ HistoryIsCurrent => HistoryIsCurrent'
  <2>1. CASE UNCHANGED tablesVars
    BY <2>1 DEF tablesVars, Fresh, Current, Loading, HistoryIsCurrent
  <2>2. CASE ~Disturbing
    BY <2>2, FreshStep
  <2>. QED
    BY <2>1, <2>2
<1>3. TablesInv /\ LoadAlertHistory => Loading'
  <2>. SUFFICES ASSUME TablesInv, LoadAlertHistory PROVE Loading'
    OBVIOUS
  <2>1. PICK r \in TableRequests :
          historyLoads'[r] = [filter |-> filter, latest |-> TRUE, version |-> Unserved]
    BY DEF LoadAlertHistory, StartLoad, CurrentFilter
  <2>2. historyLoads'[r] \in HistoryLoad
    BY <2>1 DEF HistoryLoad, TablesInv, TablesTypeOK
  <2>. QED
    BY <2>1, <2>2, NothingAssumption DEF Loading
<1>4. TablesInv /\ TakesCurrent => ~Loading'
  <2>. SUFFICES ASSUME TablesInv, NEW r \in TableRequests, Current(r), TakeHistory(r) PROVE ~Loading'
    BY DEF TakesCurrent
  <2>1. \A q \in TableRequests \ {r} : ~Current(q)
    BY DEF TablesInv
  <2>. QED
    BY <2>1 DEF TakeHistory, Loading, Current, TablesInv, TablesTypeOK
<1>. QED
  BY <1>1, <1>2, <1>3, <1>4, InitTables, TablesStep, PTL DEF TablesSpec, TimerLoadsHistory, AnswerIsTaken

-----------------------------------------------------------------------------
(* The traffic *)

Walk == [pc : {"idle", "in", "out"}, in : Value \cup {Absent}, out : Value \cup {Absent}]

LEMMA TrafficNumbers ==
  /\ Wrap \in Nat /\ Wrap > 0 /\ MaxPoints \in Nat /\ MaxPoints > 0
  /\ MaxOctets \in Nat /\ MaxTime \in Nat /\ MaxPolls \in Nat
  /\ \A n \in 0..Wrap - 1 : n \in Nat /\ n < Wrap
  /\ \A n \in Octets : n \in Nat
  /\ \A n \in Times : n \in Nat
BY TrafficAssumption DEF Octets, Times

\* What a counter said earlier, against what it says later: as far as it has
\* grown, octets have passed.
NotTooLow(before, value) ==
  /\ before.passed <= value.passed
  /\ value.count >= before.count => value.count - before.count <= value.passed - before.passed

Now(d) == [count |-> counters[d], passed |-> passed[d]]

\* A column read and the sample before are what the counters said earlier, the
\* sample before the column.
DeviceInv ==
  /\ counters \in [Directions -> 0..Wrap - 1] /\ passed \in [Directions -> Octets]
  /\ walk \in Walk /\ previous \in Sample \cup {Absent}
  /\ \A d \in Directions :
       /\ walk[d] # Absent => NotTooLow(walk[d], Now(d))
       /\ previous # Absent => NotTooLow(previous[d], Now(d))
       /\ previous # Absent /\ walk[d] # Absent => NotTooLow(previous[d], walk[d])

LEMMA Fields ==
  /\ \A v \in Value : v.count \in 0..Wrap - 1 /\ v.count \in Nat /\ v.passed \in Octets /\ v.passed \in Nat
  /\ \A s \in Sample : \A d \in Directions : s[d] \in Value
  /\ \A s \in Sample : s.at \in Times /\ s.at \in Nat
  /\ \A w \in Walk : \A d \in Directions : w[d] \in Value \cup {Absent}
BY TrafficNumbers DEF Value, Sample, Walk, Directions

LEMMA NowType ==
  ASSUME DeviceInv, NEW d \in Directions
  PROVE  Now(d) \in Value /\ Now(d).count = counters[d] /\ Now(d).passed = passed[d]
BY DEF DeviceInv, Now, Value

\* A counter counts one octet that passes, or starts anew.
LEMMA LaterNumbers ==
  ASSUME NEW c0 \in Nat, NEW p0 \in Nat, NEW c \in Nat, NEW p \in Nat, NEW c1 \in Nat, NEW p1 \in Nat,
         p0 <= p, c >= c0 => c - c0 <= p - p0, p <= p1,
         (c1 = c) \/ (c1 = 0) \/ (c1 = c + 1 /\ p1 = p + 1)
  PROVE  p0 <= p1 /\ (c1 >= c0 => c1 - c0 <= p1 - p0)
OBVIOUS

LEMMA LaterKeeps ==
  ASSUME NEW before \in Value, NEW value \in Value, NEW later \in Value, NotTooLow(before, value),
         value.passed <= later.passed,
         \/ later.count = value.count \/ later.count = 0
         \/ later.count = value.count + 1 /\ later.passed = value.passed + 1
  PROVE  NotTooLow(before, later)
BY Fields, LaterNumbers DEF NotTooLow

LEMMA SameIsNotTooLow == \A v \in Value : NotTooLow(v, v)
BY Fields DEF NotTooLow

\* The device counts on or restarts.
LEMMA CountingKeepsDevice ==
  ASSUME DeviceInv, UNCHANGED <<walk, previous>>, (\E d \in Directions : Transfer(d)) \/ RestartDevice
  PROVE  DeviceInv'
<1>1. counters' \in [Directions -> 0..Wrap - 1] /\ passed' \in [Directions -> Octets]
  <2>1. CASE RestartDevice
    BY <2>1, TrafficNumbers DEF RestartDevice, Zero, DeviceInv
  <2>2. ASSUME NEW d \in Directions, Transfer(d)
        PROVE  counters' \in [Directions -> 0..Wrap - 1] /\ passed' \in [Directions -> Octets]
    <3>1. /\ passed["in"] \in Nat /\ passed["out"] \in Nat /\ passed["in"] + passed["out"] < MaxOctets
          /\ passed' = [passed EXCEPT ![d] = passed[d] + 1]
          /\ counters' = [counters EXCEPT ![d] = IF counters[d] = Wrap - 1 THEN 0 ELSE counters[d] + 1]
      BY <2>2, TrafficNumbers DEF Transfer, DeviceInv, Directions
    <3>2. passed[d] + 1 \in Octets
      BY <3>1, TrafficNumbers DEF Directions, Octets
    <3>3. counters[d] \in 0..Wrap - 1 /\ (counters[d] # Wrap - 1 => counters[d] + 1 \in 0..Wrap - 1)
      BY TrafficNumbers DEF DeviceInv
    <3>. QED
      BY <3>1, <3>2, <3>3, TrafficNumbers DEF DeviceInv
  <2>. QED
    BY <2>1, <2>2
<1>2. ASSUME NEW d \in Directions
      PROVE  /\ Now(d)' \in Value /\ Now(d).passed <= Now(d)'.passed
             /\ \/ Now(d)'.count = Now(d).count \/ Now(d)'.count = 0
                \/ Now(d)'.count = Now(d).count + 1 /\ Now(d)'.passed = Now(d).passed + 1
  <2>1. Now(d)' \in Value /\ Now(d)'.count = counters'[d] /\ Now(d)'.passed = passed'[d]
    BY <1>1 DEF Now, Value
  <2>2. Now(d).count = counters[d] /\ Now(d).passed = passed[d] /\ passed[d] \in Nat /\ counters[d] \in Nat
    BY NowType, Fields
  <2>3. CASE RestartDevice
    BY <2>1, <2>2, <2>3 DEF RestartDevice, Zero
  <2>4. ASSUME NEW e \in Directions, Transfer(e)
        PROVE  /\ passed[d] <= passed'[d]
               /\ \/ counters'[d] = counters[d] \/ counters'[d] = 0
                  \/ counters'[d] = counters[d] + 1 /\ passed'[d] = passed[d] + 1
    BY <2>2, <2>4 DEF Transfer, DeviceInv
  <2>. QED
    BY <2>1, <2>2, <2>3, <2>4
<1>3. ASSUME NEW d \in Directions
      PROVE  /\ walk[d] # Absent => NotTooLow(walk[d], Now(d)')
             /\ previous # Absent => NotTooLow(previous[d], Now(d)')
             /\ previous # Absent /\ walk[d] # Absent => NotTooLow(previous[d], walk[d])
  <2>1. /\ walk[d] # Absent => walk[d] \in Value /\ NotTooLow(walk[d], Now(d))
        /\ previous # Absent => previous[d] \in Value /\ NotTooLow(previous[d], Now(d))
    BY Fields DEF DeviceInv
  <2>2. Now(d) \in Value
    BY NowType
  <2>. QED
    BY <1>2, <2>1, <2>2, LaterKeeps DEF DeviceInv
<1>. QED
  BY <1>1, <1>3 DEF DeviceInv

LEMMA ReadingKeepsDevice ==
  ASSUME DeviceInv, NEW d \in Directions, ReadColumn(d), UNCHANGED <<counters, passed, previous>>
  PROVE  DeviceInv'
<1>1. PICK value \in {Now(d), Absent} :
        walk' = [walk EXCEPT ![d] = value, !.pc = IF d = "in" THEN "in" ELSE "out"]
  BY DEF ReadColumn, Now
<1>2. value \in Value \cup {Absent}
  BY <1>1, NowType
<1>3. /\ walk' \in Walk /\ walk'[d] = value
      /\ \A e \in Directions : e # d => walk'[e] = walk[e]
  BY <1>1, <1>2 DEF DeviceInv, Walk, Directions
<1>4. \A e \in Directions : Now(e)' = Now(e)
  BY DEF Now
<1>5. Now(d) \in Value /\ NotTooLow(Now(d), Now(d))
  BY NowType, SameIsNotTooLow
<1>6. ASSUME NEW e \in Directions
      PROVE  /\ walk'[e] # Absent => NotTooLow(walk'[e], Now(e))
             /\ previous # Absent => NotTooLow(previous[e], Now(e))
             /\ previous # Absent /\ walk'[e] # Absent => NotTooLow(previous[e], walk'[e])
  <2>1. CASE e = d
    BY <1>1, <1>3, <1>5, <2>1 DEF DeviceInv
  <2>2. CASE e # d
    BY <1>3, <2>2 DEF DeviceInv
  <2>. QED
    BY <2>1, <2>2
<1>. QED
  BY <1>3, <1>4, <1>6 DEF DeviceInv

LEMMA NotWalkingType ==
  NotWalking \in Walk /\ NotWalking.pc = "idle" /\ \A d \in Directions : NotWalking[d] = Absent
BY DEF NotWalking, Walk, Directions

LEMMA DeviceStep == DeviceInv /\ [TrafficNext]_trafficVars => DeviceInv'
<1> SUFFICES ASSUME DeviceInv, [TrafficNext]_trafficVars PROVE DeviceInv'
  OBVIOUS
<1>1. CASE (\E d \in Directions : Transfer(d)) \/ RestartDevice
  BY <1>1, CountingKeepsDevice DEF Transfer, RestartDevice, poller
<1>2. CASE WalkIn \/ WalkOut
  BY <1>2, ReadingKeepsDevice DEF WalkIn, WalkOut, device, Directions
<1>3. ASSUME NEW now \in Times, TakeSample(now) PROVE DeviceInv'
  <2> DEFINE sample == [in |-> walk.in, out |-> walk.out, at |-> now]
  <2>1. /\ walk.in # Absent /\ walk.out # Absent /\ previous' = sample /\ walk' = NotWalking
        /\ UNCHANGED <<counters, passed>>
    BY <1>3 DEF TakeSample, device
  <2>2. walk.in \in Value /\ walk.out \in Value
    BY <2>1 DEF DeviceInv, Walk
  <2>3. sample \in Sample /\ \A d \in Directions : sample[d] = walk[d]
    BY <2>2 DEF Sample, Directions
  <2>4. \A d \in Directions : walk[d] # Absent
    BY <2>1 DEF Directions
  <2>5. \A d \in Directions : Now(d)' = Now(d)
    BY <2>1 DEF Now
  <2> HIDE DEF sample
  <2>. QED
    BY <2>1, <2>3, <2>4, <2>5, NotWalkingType DEF DeviceInv
<1>4. ASSUME NEW now \in Times, LackSample(now) PROVE DeviceInv'
  <2>1. previous' \in {previous, Absent} /\ walk' = NotWalking /\ UNCHANGED <<counters, passed>>
    BY <1>4 DEF LackSample, device
  <2>2. \A d \in Directions : Now(d)' = Now(d)
    BY <2>1 DEF Now
  <2>. QED
    BY <2>1, <2>2, NotWalkingType DEF DeviceInv
<1>5. ASSUME UNCHANGED <<counters, passed, walk, previous>> PROVE DeviceInv'
  BY <1>5 DEF DeviceInv, Now
<1>6. CASE DoesNotAnswer \/ Fetch \/ LoseAnswer \/ AppendHistory
  BY <1>5, <1>6 DEF DoesNotAnswer, Fetch, LoseAnswer, AppendHistory, device, poller
<1>7. CASE UNCHANGED trafficVars
  BY <1>5, <1>7 DEF trafficVars, device, poller
<1>. QED
  BY <1>1, <1>2, <1>3, <1>4, <1>6, <1>7 DEF TrafficNext

LEMMA SmallRemainder ==
  ASSUME NEW n \in Nat, NEW w \in Nat, n < w
  PROVE  n % w = n
OBVIOUS

LEMMA MeasuringIsOfItsSamples == Measuring \in Rate /\ IsOfItsSamples(Measuring)
BY TrafficNumbers DEF Measuring, Rate, IsOfItsSamples, Zero

\* InterfaceRateCalculator makes no rate of octets that did not pass.
LEMMA RateFits ==
  ASSUME NEW sample \in Sample, NEW before \in Sample \cup {Absent},
         before # Absent => \A d \in Directions : NotTooLow(before[d], sample[d])
  PROVE  Calculate(sample, before) \in Rate /\ IsOfItsSamples(Calculate(sample, before))
<1>1. CASE Calculate(sample, before) = Measuring
  BY <1>1, MeasuringIsOfItsSamples
<1>2. CASE /\ before # Absent /\ ~(sample.at <= before.at)
           /\ \A d \in Directions : ~(sample[d].count < before[d].count)
  <2>1. /\ before \in Sample /\ sample.at \in 0..MaxTime /\ before.at \in 0..MaxTime
        /\ \A d \in Directions :
             /\ sample[d].count \in Nat /\ before[d].count \in Nat /\ sample[d].count < Wrap
             /\ sample[d].passed \in Nat /\ before[d].passed \in Nat
    BY <1>2, Fields, TrafficNumbers DEF Times
  <2> DEFINE rate == RateOf(sample, before)
  <2>2. Calculate(sample, before) = rate
    BY <1>2 DEF Calculate
  <2>3. ASSUME NEW d \in Directions
        PROVE  /\ Difference(sample, before, d) \in 0..Wrap - 1
               /\ sample[d].passed - before[d].passed \in Nat
               /\ Difference(sample, before, d) <= sample[d].passed - before[d].passed
    <3> DEFINE n == sample[d].count - before[d].count
    <3>1. n \in Nat /\ n < Wrap /\ n <= sample[d].passed - before[d].passed
          /\ before[d].passed <= sample[d].passed
      BY <1>2, <2>1, TrafficNumbers DEF NotTooLow
    <3>2. n % Wrap = n
      BY <3>1, TrafficNumbers, SmallRemainder
    <3>. QED
      BY <2>1, <3>1, <3>2, TrafficNumbers DEF Difference
  <2>4. sample.at - before.at \in 0..MaxTime + 1 /\ sample.at - before.at > 0
    BY <1>2, <2>1, TrafficNumbers
  <2>5. /\ rate.measuring = FALSE /\ rate.seconds = sample.at - before.at
        /\ \A d \in Directions : /\ rate.octets[d] = Difference(sample, before, d)
                                 /\ rate.passed[d] = sample[d].passed - before[d].passed
    BY DEF RateOf
  <2>6. rate \in Rate
    BY <2>3, <2>4 DEF RateOf, Rate
  <2> HIDE DEF rate
  <2>7. IsOfItsSamples(rate)
    BY <2>3, <2>4, <2>5 DEF IsOfItsSamples
  <2>. QED
    BY <2>2, <2>6, <2>7
<1>. QED
  BY <1>1, <1>2 DEF Calculate

-----------------------------------------------------------------------------
(* What is published, fetched and drawn *)

\* Of a poll so far, with a rate that fits its samples.
IsSnapshot(x) == x \in Published /\ x.poll \in 1..polls /\ IsOfItsSamples(x.rate)

\* The chart's last point is not later than a snapshot, and of the same time if
\* it is of the same poll.
ChartIsBefore(x) == points # <<>> =>
  /\ points[Len(points)].poll <= x.poll
  /\ points[Len(points)].poll = x.poll => points[Len(points)].time = x.lastUpdated

Ordered(series) == \A i, j \in DOMAIN series : i < j => series[i].poll < series[j].poll
AllFit(series) == \A i \in DOMAIN series : IsOfItsSamples(series[i].rate)

ShownInv ==
  /\ polls \in 0..MaxPolls /\ (walk.pc # "idle" => polls > 0)
  /\ published # Absent => IsSnapshot(published) /\ ChartIsBefore(published)
  /\ published # Absent /\ walk.pc # "idle" => published.poll < polls
  /\ answer # Absent =>
       /\ IsSnapshot(answer) /\ ChartIsBefore(answer)
       /\ published # Absent /\ answer.poll <= published.poll
       /\ answer.poll = published.poll => answer.lastUpdated = published.lastUpdated
  /\ points # <<>> => published # Absent
  /\ points \in Seq(Point) /\ Len(points) <= MaxPoints /\ Ordered(points) /\ AllFit(points)

LEMMA PublishedFields ==
  ASSUME NEW x \in Published
  PROVE  x.connected \in BOOLEAN /\ x.rate \in Rate /\ x.lastUpdated \in Times /\ x.poll \in Nat
BY DEF Published

LEMMA LastPoint ==
  ASSUME points \in Seq(Point), points # <<>>
  PROVE  /\ Len(points) \in DOMAIN points /\ points[Len(points)] \in Point
         /\ points[Len(points)].poll \in Nat /\ points[Len(points)].time \in Times
<1>1. Len(points) \in DOMAIN points /\ points[Len(points)] \in Point
  OBVIOUS
<1>2. \A x \in Point : x.poll \in Nat /\ x.time \in Times
  BY TrafficNumbers DEF Point
<1>. QED
  BY <1>1, <1>2

\* A poll ends with a rate: its snapshot is later than all that was before.
LEMMA PublishKeepsShown ==
  ASSUME ShownInv, NEW now \in Times, NEW rate \in Rate, IsOfItsSamples(rate),
         Publish(rate, now), walk.pc # "idle", walk'.pc = "idle", UNCHANGED <<polls, answer, points>>
  PROVE  ShownInv'
<1>1. polls \in Nat /\ polls > 0
  BY TrafficNumbers DEF ShownInv
<1>2. /\ published' = [connected |-> TRUE, rate |-> rate, lastUpdated |-> now, poll |-> polls]
      /\ published'.poll = polls /\ published'.rate = rate /\ published' \in Published
  BY <1>1 DEF Publish, Published
<1>3. IsSnapshot(published)' /\ published' # Absent
  <2>1. published'.poll \in 1..polls'
    BY <1>1, <1>2
  <2>2. IsOfItsSamples(published'.rate)
    BY <1>2
  <2>. QED
    BY <1>2, <2>1, <2>2, AbsentAssumption DEF IsSnapshot
<1>4. published # Absent => published.poll \in Nat /\ published.poll < polls
  BY PublishedFields DEF ShownInv, IsSnapshot
<1>5. points # <<>> => points[Len(points)].poll \in Nat
  BY LastPoint DEF ShownInv
<1>6. points # <<>> => points[Len(points)].poll < polls
  BY <1>1, <1>4, <1>5 DEF ShownInv, ChartIsBefore
<1>7. ChartIsBefore(published)'
  BY <1>1, <1>2, <1>5, <1>6 DEF ChartIsBefore
<1>8. answer # Absent => answer.poll \in Nat /\ answer.poll < polls
  BY <1>1, <1>4, PublishedFields DEF ShownInv, IsSnapshot
<1>. QED
  BY <1>1, <1>2, <1>3, <1>7, <1>8 DEF ShownInv, ChartIsBefore, IsSnapshot

\* A snapshot that is not among the points is appended: it is of a later poll.
LEMMA AppendKeepsOrder ==
  ASSUME NEW series \in Seq(Point), Ordered(series), AllFit(series),
         NEW point \in Point, IsOfItsSamples(point.rate),
         series # <<>> => series[Len(series)].poll < point.poll
  PROVE  LET longer == Append(series, point) IN
         /\ longer \in Seq(Point) /\ Len(longer) = Len(series) + 1 /\ longer[Len(longer)] = point
         /\ Ordered(longer) /\ AllFit(longer)
<1> DEFINE longer == Append(series, point)
<1>1. /\ longer \in Seq(Point) /\ Len(longer) = Len(series) + 1 /\ longer[Len(longer)] = point
      /\ Len(series) \in Nat /\ DOMAIN series = 1..Len(series) /\ DOMAIN longer = 1..Len(series) + 1
      /\ \A i \in DOMAIN series : longer[i] = series[i]
  OBVIOUS
<1> HIDE DEF longer
<1>2. \A i \in DOMAIN series : series[i].poll \in Nat
  <2>1. \A x \in Point : x.poll \in Nat
    BY TrafficNumbers DEF Point
  <2>2. \A i \in DOMAIN series : series[i] \in Point
    OBVIOUS
  <2>. QED
    BY <2>1, <2>2
<1>3. \A i \in DOMAIN series : series[i].poll < point.poll
  <2> SUFFICES ASSUME NEW i \in DOMAIN series PROVE series[i].poll < point.poll
    OBVIOUS
  <2>1. Len(series) \in DOMAIN series /\ series # <<>> /\ i <= Len(series) /\ i \in Nat
    BY <1>1
  <2>2. i # Len(series) => series[i].poll < series[Len(series)].poll
    BY <1>1, <2>1 DEF Ordered
  <2>3. point.poll \in Nat
    BY TrafficNumbers DEF Point
  <2>. QED
    BY <1>2, <2>1, <2>2, <2>3
<1>4. \A i \in DOMAIN longer : i \in DOMAIN series \/ i = Len(longer)
  BY <1>1
<1>5. Ordered(longer)
  <2> SUFFICES ASSUME NEW i \in DOMAIN longer, NEW j \in DOMAIN longer, i < j
               PROVE  longer[i].poll < longer[j].poll
    BY DEF Ordered
  <2>1. i \in DOMAIN series
    BY <1>1
  <2>. QED
    BY <1>1, <1>3, <1>4, <2>1 DEF Ordered
<1>6. AllFit(longer)
  BY <1>1, <1>4 DEF AllFit
<1>. QED
  BY <1>1, <1>5, <1>6 DEF longer

\* The points that are left when the oldest makes room.
LEMMA TrimmedKeepsOrder ==
  ASSUME NEW series \in Seq(Point), series # <<>>, Ordered(series), AllFit(series)
  PROVE  /\ Trimmed(series) \in Seq(Point) /\ Len(Trimmed(series)) <= MaxPoints
         /\ Trimmed(series) # <<>> /\ Trimmed(series)[Len(Trimmed(series))] = series[Len(series)]
         /\ Ordered(Trimmed(series)) /\ AllFit(Trimmed(series))
<1>1. Len(series) \in Nat /\ Len(series) > 0 /\ DOMAIN series = 1..Len(series)
  OBVIOUS
<1>2. CASE Len(series) <= MaxPoints
  BY <1>1, <1>2, TrafficNumbers DEF Trimmed
<1>3. CASE Len(series) > MaxPoints
  <2> DEFINE from == Len(series) - MaxPoints
             rest == SubSeq(series, from + 1, Len(series))
  <2>1. from \in Nat /\ from + 1 <= Len(series) /\ Len(series) - from = MaxPoints
    BY <1>1, <1>3, TrafficNumbers
  <2>2. Trimmed(series) = rest
    BY <1>3 DEF Trimmed
  <2>3. /\ rest \in Seq(Point) /\ Len(rest) = MaxPoints
        /\ \A i \in 1..MaxPoints : rest[i] = series[from + i]
    <3> HIDE DEF from
    <3>1. rest \in Seq(Point)
      BY <1>1, <2>1
    <3>2. Len(rest) = Len(series) - from
      BY <1>1, <2>1
    <3>3. \A i \in 1..Len(series) - from : rest[i] = series[from + i]
      BY <1>1, <2>1
    <3>. QED
      BY <2>1, <3>1, <3>2, <3>3
  <2> HIDE DEF rest, from
  <2>4. DOMAIN rest = 1..MaxPoints /\ rest # <<>>
    BY <2>3, TrafficNumbers
  <2>5. \A i \in 1..MaxPoints : from + i \in DOMAIN series
    BY <1>1, <2>1, TrafficNumbers
  <2>6. rest[Len(rest)] = series[Len(series)]
    BY <1>1, <2>1, <2>3, TrafficNumbers
  <2>7. Ordered(rest) /\ AllFit(rest)
    <3>1. \A i, j \in 1..MaxPoints : i < j => from + i < from + j
      BY <2>1, TrafficNumbers
    <3>. QED
      BY <2>3, <2>4, <2>5, <3>1 DEF Ordered, AllFit
  <2>. QED
    BY <2>2, <2>3, <2>4, <2>6, <2>7, TrafficNumbers
<1>. QED
  BY <1>1, <1>2, <1>3, TrafficNumbers

LEMMA AppendingKeepsShown ==
  ASSUME ShownInv, AppendHistory
  PROVE  ShownInv'
<1>1. /\ answer # Absent /\ answer' = Absent
      /\ UNCHANGED <<walk, published, polls>>
      /\ points' = IF IsNew(answer) THEN Trimmed(Append(points, PointOf(answer))) ELSE points
  BY DEF AppendHistory, poller
<1>2. CASE ~IsNew(answer)
  BY <1>1, <1>2 DEF ShownInv, ChartIsBefore, IsSnapshot
<1>3. CASE IsNew(answer)
  <2> DEFINE point == PointOf(answer)
             longer == Append(points, point)
  <2>1. /\ IsSnapshot(answer) /\ ChartIsBefore(answer) /\ points \in Seq(Point)
        /\ Ordered(points) /\ AllFit(points)
    BY <1>1 DEF ShownInv
  <2>2. /\ answer.rate \in Rate /\ answer.lastUpdated \in Times /\ answer.poll \in 1..polls
        /\ answer.poll \in Nat /\ IsOfItsSamples(answer.rate)
    BY <2>1, PublishedFields DEF IsSnapshot
  <2>3. answer.poll \in 1..MaxPolls
    BY <2>2, TrafficNumbers DEF ShownInv
  <2>4. /\ point \in Point /\ point.rate = answer.rate /\ point.poll = answer.poll
        /\ point.time = answer.lastUpdated
    BY <2>2, <2>3 DEF PointOf, Point
  <2>5. points # <<>> => points[Len(points)].poll < point.poll
    <3> SUFFICES ASSUME points # <<>> PROVE points[Len(points)].poll < point.poll
      OBVIOUS
    <3>1. answer.lastUpdated # points[Len(points)].time
      BY <1>3 DEF IsNew
    <3>2. /\ points[Len(points)].poll <= answer.poll /\ points[Len(points)].poll # answer.poll
      BY <2>1, <3>1 DEF ChartIsBefore
    <3>3. points[Len(points)].poll \in Nat
      BY <2>1, LastPoint
    <3>. QED
      BY <2>2, <2>4, <3>2, <3>3
  <2> HIDE DEF point
  <2>6. /\ longer \in Seq(Point) /\ Len(longer) = Len(points) + 1 /\ longer[Len(longer)] = point
        /\ Ordered(longer) /\ AllFit(longer)
    BY <2>1, <2>2, <2>4, <2>5, AppendKeepsOrder
  <2>7. points' = Trimmed(longer)
    BY <1>1, <1>3 DEF point
  <2>8. longer # <<>>
    <3>1. Len(points) \in Nat
      BY <2>1
    <3>. QED
      BY <2>6, <3>1
  <2> HIDE DEF longer
  <2>9. /\ points' \in Seq(Point) /\ Len(points') <= MaxPoints /\ points' # <<>>
        /\ points'[Len(points')] = point /\ Ordered(points') /\ AllFit(points')
    BY <2>6, <2>7, <2>8, TrimmedKeepsOrder
  <2>10. /\ published # Absent /\ answer.poll <= published.poll
         /\ answer.poll = published.poll => answer.lastUpdated = published.lastUpdated
    BY <1>1 DEF ShownInv
  <2>11. ChartIsBefore(published)'
    BY <1>1, <2>4, <2>9, <2>10 DEF ChartIsBefore
  <2>12. Ordered(points)' /\ AllFit(points)'
    BY <2>9 DEF Ordered, AllFit
  <2>. QED
    BY <1>1, <2>9, <2>10, <2>11, <2>12 DEF ShownInv, IsSnapshot
<1>. QED
  BY <1>2, <1>3

LEMMA ShownStep == DeviceInv /\ ShownInv /\ [TrafficNext]_trafficVars => ShownInv'
<1> SUFFICES ASSUME DeviceInv, ShownInv, [TrafficNext]_trafficVars PROVE ShownInv'
  OBVIOUS
<1>1. polls \in Nat /\ polls <= MaxPolls
  BY TrafficNumbers DEF ShownInv
<1>2. ASSUME UNCHANGED <<walk, published, polls, answer, points>> PROVE ShownInv'
  BY <1>2 DEF ShownInv, ChartIsBefore, IsSnapshot
<1>3. CASE (\E d \in Directions : Transfer(d)) \/ RestartDevice
  BY <1>2, <1>3 DEF Transfer, RestartDevice, poller, page
<1>4. CASE WalkIn
  <2>1. /\ polls < MaxPolls /\ polls' = polls + 1
        /\ UNCHANGED <<published, answer, points>>
    BY <1>4 DEF WalkIn, device, page
  <2>2. polls' \in 0..MaxPolls /\ polls' > 0 /\ 1..polls \subseteq 1..polls'
    BY <1>1, <2>1, TrafficNumbers
  <2>3. \A x : IsSnapshot(x) => x.poll \in 1..polls' /\ x.poll < polls'
    BY <1>1, <2>1, <2>2, PublishedFields DEF IsSnapshot
  <2>4. published # Absent => IsSnapshot(published)' /\ published.poll < polls'
    BY <2>1, <2>3 DEF ShownInv, IsSnapshot
  <2>5. answer # Absent => IsSnapshot(answer)'
    BY <2>1, <2>3 DEF ShownInv, IsSnapshot
  <2>. QED
    BY <2>1, <2>2, <2>4, <2>5 DEF ShownInv, ChartIsBefore
<1>5. CASE WalkOut
  <2>1. walk.pc # "idle" /\ UNCHANGED <<published, polls, answer, points>>
    BY <1>5 DEF WalkOut, device, page
  <2>. QED
    BY <2>1 DEF ShownInv, ChartIsBefore, IsSnapshot
<1>6. ASSUME NEW now \in Times, TakeSample(now) PROVE ShownInv'
  <2> DEFINE sample == [in |-> walk.in, out |-> walk.out, at |-> now]
  <2>1. /\ walk.pc = "out" /\ walk.in # Absent /\ walk.out # Absent
        /\ Publish(Calculate(sample, previous), now) /\ walk' = NotWalking
        /\ UNCHANGED <<polls, answer, points>>
    BY <1>6 DEF TakeSample, page
  <2>2. walk.in \in Value /\ walk.out \in Value
    BY <2>1 DEF DeviceInv, Walk
  <2>3. /\ sample \in Sample
        /\ \A d \in Directions : sample[d] = walk[d] /\ walk[d] # Absent
    BY <2>1, <2>2 DEF Sample, Directions
  <2> HIDE DEF sample
  <2>4. /\ previous \in Sample \cup {Absent}
        /\ previous # Absent => \A d \in Directions : NotTooLow(previous[d], sample[d])
    BY <2>3 DEF DeviceInv
  <2>5. Calculate(sample, previous) \in Rate /\ IsOfItsSamples(Calculate(sample, previous))
    BY <2>3, <2>4, RateFits
  <2>. QED
    BY <2>1, <2>5, PublishKeepsShown, NotWalkingType
<1>7. ASSUME NEW now \in Times, LackSample(now) PROVE ShownInv'
  <2>1. /\ walk.pc = "out" /\ Publish(Measuring, now) /\ walk' = NotWalking
        /\ UNCHANGED <<polls, answer, points>>
    BY <1>7 DEF LackSample, page
  <2>. QED
    BY <2>1, PublishKeepsShown, MeasuringIsOfItsSamples, NotWalkingType
<1>8. CASE DoesNotAnswer
  <2>1. /\ published # Absent /\ published' = [published EXCEPT !.connected = FALSE]
        /\ UNCHANGED <<walk, polls, answer, points>>
    BY <1>8 DEF DoesNotAnswer, device, page
  <2>2. published \in Published
    BY <2>1 DEF ShownInv, IsSnapshot
  <2>3. /\ published' \in Published /\ published'.rate = published.rate
        /\ published'.poll = published.poll /\ published'.lastUpdated = published.lastUpdated
    BY <2>1, <2>2 DEF Published
  <2>4. published' # Absent
    BY <2>3, AbsentAssumption
  <2>5. IsSnapshot(published)' /\ ChartIsBefore(published)'
    BY <2>1, <2>3 DEF ShownInv, IsSnapshot, ChartIsBefore
  <2>. QED
    BY <2>1, <2>3, <2>4, <2>5 DEF ShownInv, IsSnapshot, ChartIsBefore
<1>9. CASE Fetch
  <2>1. /\ published # Absent /\ answer' = published
        /\ UNCHANGED <<walk, published, polls, points>>
    BY <1>9 DEF Fetch, poller
  <2>2. published.poll \in Nat
    BY <2>1, PublishedFields DEF ShownInv, IsSnapshot
  <2>. QED
    BY <2>1, <2>2 DEF ShownInv, IsSnapshot, ChartIsBefore
<1>10. CASE LoseAnswer
  BY <1>10 DEF LoseAnswer, poller, ShownInv, IsSnapshot, ChartIsBefore
<1>11. CASE AppendHistory
  BY <1>11, AppendingKeepsShown
<1>12. CASE UNCHANGED trafficVars
  BY <1>2, <1>12 DEF trafficVars, poller, page
<1>. QED
  BY <1>3, <1>4, <1>5, <1>6, <1>7, <1>8, <1>9, <1>10, <1>11, <1>12 DEF TrafficNext

LEMMA InitTraffic == TrafficInit => DeviceInv /\ ShownInv
<1> SUFFICES ASSUME TrafficInit PROVE DeviceInv /\ ShownInv
  OBVIOUS
<1>1. 0 \in 0..Wrap - 1 /\ 0 \in Octets /\ 0 \in 0..MaxPolls
  BY TrafficNumbers DEF Octets
<1>2. DeviceInv
  BY <1>1, NotWalkingType DEF TrafficInit, DeviceInv, Zero
<1>3. /\ points = <<>> /\ points \in Seq(Point) /\ Len(points) = 0 /\ DOMAIN points = {}
  BY DEF TrafficInit
<1>4. Len(points) <= MaxPoints /\ Ordered(points) /\ AllFit(points)
  BY <1>3, TrafficNumbers DEF Ordered, AllFit
<1>. QED
  BY <1>1, <1>2, <1>3, <1>4, NotWalkingType DEF TrafficInit, ShownInv

\* The types of the variables, for counters of any width.
THEOREM TrafficTypes == TrafficSpec => []TrafficTypeOK
<1>1. DeviceInv /\ ShownInv => TrafficTypeOK
  BY DEF DeviceInv, ShownInv, IsSnapshot, Walk, TrafficTypeOK
<1>. QED
  BY <1>1, InitTraffic, DeviceStep, ShownStep, PTL DEF TrafficSpec

\* No rate is of more octets than have passed, for counters of any width, any
\* number of restarts, and any clock.
THEOREM RatesFit == TrafficSpec => []RateIsNeverTooHigh
<1>1. ShownInv => RateIsNeverTooHigh
  BY DEF ShownInv, IsSnapshot, AllFit, RateIsNeverTooHigh
<1>. QED
  BY <1>1, InitTraffic, DeviceStep, ShownStep, PTL DEF TrafficSpec

\* The chart's points are of different polls in their order, however many points
\* it has and however the page's requests lie between the polls.
THEOREM PointsInOrder == TrafficSpec => []LivePointsInOrder
<1>1. ShownInv => LivePointsInOrder
  BY DEF ShownInv, Ordered, LivePointsInOrder
<1>. QED
  BY <1>1, InitTraffic, DeviceStep, ShownStep, PTL DEF TrafficSpec

-----------------------------------------------------------------------------
(* The scale of the chart *)

LEMMA LeastNumber ==
  ASSUME NEW numbers, numbers \subseteq Nat, numbers # {}
  PROVE  \E m \in numbers : \A n \in numbers : m <= n
<1>1. PICK m \in numbers : \A n \in numbers : ~(<<n, m>> \in OpToRel(<, Nat))
  BY NatLessThanWellFounded, WFMin
<1>2. \A n \in numbers : ~(n < m)
  BY <1>1 DEF OpToRel
<1>. QED
  BY <1>2

LEMMA GreatestNumber ==
  ASSUME NEW numbers, numbers \subseteq Nat, numbers # {},
         NEW bound \in Nat, \A n \in numbers : n <= bound
  PROVE  \E m \in numbers : \A n \in numbers : n <= m
<1> DEFINE distances == {bound - n : n \in numbers}
<1>1. \A n \in numbers : n \in Nat /\ bound - n \in Nat
  OBVIOUS
<1>2. distances \subseteq Nat /\ distances # {}
  BY <1>1
<1>3. PICK least \in distances : \A n \in distances : least <= n
  BY <1>2, LeastNumber
<1>4. PICK m \in numbers : least = bound - m
  BY <1>3
<1>5. \A n \in numbers : bound - m <= bound - n
  BY <1>3, <1>4
<1>. QED
  BY <1>1, <1>5

\* Octets in some seconds: one value on the chart.
Fraction == [octets : 0..Wrap - 1, seconds : 1..MaxTime + 1]
AtMost(r, s) == r.octets * s.seconds <= s.octets * r.seconds

LEMMA FractionNumbers ==
  \A r \in Fraction : r.octets \in Nat /\ r.octets < Wrap /\ r.seconds \in Nat \ {0} /\ r.seconds <= MaxTime + 1
BY TrafficNumbers DEF Fraction

LEMMA ProductsKeepOrder ==
  ASSUME NEW a \in Nat, NEW b \in Nat, NEW c \in Nat \ {0}
  PROVE  a <= b <=> a * c <= b * c
OBVIOUS

LEMMA AtMostIsTransitive ==
  ASSUME NEW r \in Fraction, NEW s \in Fraction, NEW t \in Fraction, AtMost(r, s), AtMost(s, t)
  PROVE  AtMost(r, t)
<1> DEFINE a == r.octets  b == r.seconds  c == s.octets  d == s.seconds  e == t.octets  f == t.seconds
<1>1. a \in Nat /\ b \in Nat \ {0} /\ c \in Nat /\ d \in Nat \ {0} /\ e \in Nat /\ f \in Nat \ {0}
  BY FractionNumbers
<1>2. a * d <= c * b /\ c * f <= e * d
  BY DEF AtMost
<1>3. SUFFICES a * f <= e * b
  BY DEF AtMost
<1> HIDE DEF a, b, c, d, e, f
<1>4. (a * d) * f <= (c * b) * f /\ (c * f) * b <= (e * d) * b
  BY <1>1, <1>2, ProductsKeepOrder
<1>5. (a * f) * d <= (e * b) * d
  BY <1>1, <1>4
<1>. QED
  BY <1>1, <1>5, ProductsKeepOrder

\* There is a highest one among finitely many.
LEMMA HighestOfMany ==
  ASSUME NEW size \in Nat \ {0}, NEW f \in [1..size -> Fraction]
  PROVE  \E k \in 1..size : \A j \in 1..size : AtMost(f[j], f[k])
<1> DEFINE Top(n) == \E k \in 1..n : \A j \in 1..n : AtMost(f[j], f[k])
           without == {n \in 1..size : ~Top(n)}
<1>1. SUFFICES ASSUME ~Top(size) PROVE FALSE
  OBVIOUS
<1> HIDE DEF Top
<1>2. PICK n \in without : \A m \in without : n <= m
  <2>1. size \in without /\ without \subseteq Nat
    BY <1>1
  <2>. QED
    BY <2>1, LeastNumber
<1> USE DEF Top
<1>3. n # 1
  <2>1. f[1] \in Fraction
    OBVIOUS
  <2>2. AtMost(f[1], f[1])
    BY <2>1, FractionNumbers DEF AtMost
  <2>. QED
    BY <1>2, <2>2
<1>4. n - 1 \in 1..size /\ Top(n - 1)
  <2>1. n - 1 \in 1..size /\ ~(n <= n - 1)
    BY <1>2, <1>3
  <2> HIDE DEF Top
  <2>. QED
    BY <1>2, <2>1
<1>5. PICK k \in 1..n - 1 : \A j \in 1..n - 1 : AtMost(f[j], f[k])
  BY <1>4
<1>6. f[k] \in Fraction /\ f[n] \in Fraction /\ \A j \in 1..n : f[j] \in Fraction /\ (j = n \/ j \in 1..n - 1)
  BY <1>2, <1>5
<1>7. CASE AtMost(f[n], f[k])
  <2>1. \A j \in 1..n : AtMost(f[j], f[k])
    BY <1>5, <1>6, <1>7
  <2>. QED
    BY <1>2, <1>5, <2>1
<1>8. CASE AtMost(f[k], f[n])
  <2>1. AtMost(f[n], f[n])
    BY <1>6, FractionNumbers DEF AtMost
  <2>2. \A j \in 1..n : AtMost(f[j], f[n])
    BY <1>5, <1>6, <1>8, <2>1, AtMostIsTransitive
  <2>. QED
    BY <1>2, <2>2
<1>9. AtMost(f[n], f[k]) \/ AtMost(f[k], f[n])
  BY <1>6, FractionNumbers DEF AtMost
<1>. QED
  BY <1>7, <1>8, <1>9

LEMMA RatesAreFractions ==
  ASSUME points \in Seq(Point), AllFit(points)
  PROVE  Rates \subseteq Fraction
<1> SUFFICES ASSUME NEW i \in DOMAIN points, NEW d \in Directions
             PROVE  [octets |-> points[i].rate.octets[d], seconds |-> points[i].rate.seconds] \in Fraction
  BY DEF Rates
<1>1. points[i] \in Point
  OBVIOUS
<1>2. points[i].rate \in Rate /\ IsOfItsSamples(points[i].rate)
  BY <1>1 DEF Point, AllFit
<1>3. /\ points[i].rate.octets \in [Directions -> 0..Wrap - 1]
      /\ points[i].rate.seconds \in 0..MaxTime + 1 /\ points[i].rate.seconds > 0
  BY <1>2 DEF Rate, IsOfItsSamples
<1>. QED
  BY <1>3, TrafficNumbers DEF Fraction

LEMMA HighestIsARate ==
  ASSUME points \in Seq(Point), AllFit(points), Rates # {}
  PROVE  Highest \in Rates /\ \A r \in Rates : AtMost(r, Highest)
<1> DEFINE Of(i, d) == [octets |-> points[i].rate.octets[d], seconds |-> points[i].rate.seconds]
           of == [d \in Directions |-> [i \in 1..Len(points) |-> Of(i, d)]]
<1>1. /\ DOMAIN points = 1..Len(points) /\ Len(points) \in Nat
      /\ Rates = {Of(i, d) : i \in 1..Len(points), d \in Directions}
  BY DEF Rates
<1>2. Len(points) # 0
  BY <1>1
<1>3. \A d \in Directions : of[d] \in [1..Len(points) -> Fraction]
  BY <1>1, RatesAreFractions
<1>4. \A d \in Directions : \E k \in 1..Len(points) : \A j \in 1..Len(points) : AtMost(of[d][j], of[d][k])
  BY <1>1, <1>2, <1>3, HighestOfMany
<1>5. ASSUME NEW d \in Directions
      PROVE  \E r \in Rates : \A j \in 1..Len(points) : AtMost(Of(j, d), r)
  <2>1. PICK k \in 1..Len(points) : \A j \in 1..Len(points) : AtMost(of[d][j], of[d][k])
    BY <1>4
  <2>2. \A j \in 1..Len(points) : of[d][j] = Of(j, d)
    OBVIOUS
  <2>3. Of(k, d) \in Rates
    BY <1>1
  <2> HIDE DEF Of, of
  <2>4. \A j \in 1..Len(points) : AtMost(Of(j, d), Of(k, d))
    BY <2>1, <2>2
  <2>. QED
    BY <2>3, <2>4
<1>6. PICK r \in Rates : \A j \in 1..Len(points) : AtMost(Of(j, "in"), r)
  BY <1>5 DEF Directions
<1>7. PICK s \in Rates : \A j \in 1..Len(points) : AtMost(Of(j, "out"), s)
  BY <1>5 DEF Directions
<1> HIDE DEF Of, of
<1>8. r \in Fraction /\ s \in Fraction
  BY RatesAreFractions
<1>9. AtMost(r, s) \/ AtMost(s, r)
  BY <1>8, FractionNumbers DEF AtMost
<1>10. \E h \in Rates : \A x \in Rates : AtMost(x, h)
  <2>1. \A x \in Rates : AtMost(x, r) \/ AtMost(x, s)
    BY <1>1, <1>6, <1>7 DEF Directions
  <2>. QED
    BY <1>8, <1>9, <2>1, AtMostIsTransitive, RatesAreFractions
<1>. QED
  BY <1>10 DEF Highest, AtMost

\* The magnitude of p/q: the greatest power of ten that is not above it.
LEMMA MagnitudeFound ==
  ASSUME NEW p \in Nat, NEW q \in Nat \ {0}, q <= p,
         \A m \in Magnitudes : 10 * m \in Magnitudes \/ p < 10 * m * q
  PROVE  \E m \in Magnitudes : m * q <= p /\ p < 10 * m * q
<1> DEFINE below == {m \in Magnitudes : m * q <= p}
<1>1. \A m \in Magnitudes : m \in Nat \ {0}
  BY MagnitudesAssumption
<1>2. 1 \in below /\ below \subseteq Nat
  <2>1. 1 * q <= p /\ 1 \in Magnitudes
    BY MagnitudesAssumption
  <2>. QED
    BY <1>1, <2>1
<1>3. \A m \in below : m <= p
  <2> SUFFICES ASSUME NEW m \in below PROVE m <= p
    OBVIOUS
  <2>1. m \in Nat /\ m * q <= p /\ m * 1 <= m * q
    BY <1>1
  <2>. QED
    BY <2>1
<1>4. PICK m \in below : \A n \in below : n <= m
  BY <1>2, <1>3, GreatestNumber
<1>5. m \in Magnitudes /\ m \in Nat \ {0} /\ m * q <= p
  BY <1>1, <1>4
<1>6. 10 * m \in Magnitudes => ~(10 * m * q <= p)
  <2>1. ~(10 * m <= m)
    BY <1>5
  <2>. QED
    BY <1>4, <2>1
<1>7. 10 * m * q \in Nat
  BY <1>5
<1>. QED
  BY <1>5, <1>6, <1>7

\* The chart's maximum is not below p/q and at most two and a half times as high.
LEMMA NiceMaximumFits ==
  ASSUME NEW p \in Nat, NEW q \in Nat \ {0}, q <= p,
         \A m \in Magnitudes : 10 * m \in Magnitudes \/ p < 10 * m * q
  PROVE  /\ NiceMaximum(p, q) \in Nat
         /\ p <= NiceMaximum(p, q) * q /\ 2 * NiceMaximum(p, q) * q <= 5 * p
<1> DEFINE magnitude == CHOOSE m \in Magnitudes : m * q <= p /\ p < 10 * m * q
           above == {n * magnitude : n \in {k \in {1, 2, 5, 10} : p <= k * magnitude * q}}
           least == CHOOSE m \in above : \A n \in above : m <= n
<1>1. magnitude \in Magnitudes /\ magnitude * q <= p /\ p < 10 * magnitude * q
  BY MagnitudeFound
<1>2. magnitude \in Nat \ {0}
  BY <1>1, MagnitudesAssumption
<1>3. NiceMaximum(p, q) = least
  BY DEF NiceMaximum
<1> HIDE DEF magnitude
<1>4. above \subseteq Nat /\ 10 * magnitude \in above
  BY <1>1, <1>2
<1>5. \E m \in above : \A n \in above : m <= n
  BY <1>4, LeastNumber
<1>6. least \in above /\ \A n \in above : least <= n
  BY <1>5
<1>7. PICK n \in {1, 2, 5, 10} : least = n * magnitude /\ p <= n * magnitude * q
  BY <1>6
<1>8. \A k \in {1, 2, 5, 10} : p <= k * magnitude * q => n * magnitude <= k * magnitude
  BY <1>6, <1>7
<1>9. \A k \in {1, 2, 5, 10} : k < n => k * magnitude * q < p
  <2> SUFFICES ASSUME NEW k \in {1, 2, 5, 10}, k < n PROVE k * magnitude * q < p
    OBVIOUS
  <2>1. ~(n * magnitude <= k * magnitude)
    BY <1>2
  <2>2. ~(p <= k * magnitude * q)
    BY <1>8, <2>1
  <2>3. k * magnitude * q \in Nat
    BY <1>2
  <2>. QED
    BY <2>2, <2>3
<1>10. 2 * (n * magnitude * q) <= 5 * p
  <2> DEFINE x == magnitude * q
  <2>1. x \in Nat /\ x <= p /\ \A k \in {1, 2, 5, 10} : k * magnitude * q = k * x
    BY <1>1, <1>2
  <2> HIDE DEF x
  <2>2. \A k \in {1, 2, 5, 10} : k < n => k * x < p
    BY <1>9, <2>1
  <2>. QED
    BY <2>1, <2>2
<1> HIDE DEF least
<1>11. least \in Nat /\ p <= least * q /\ 2 * least * q <= 5 * p
  BY <1>2, <1>7, <1>10
<1>. QED
  BY <1>3, <1>11

\* A rate above zero is not below the unit, nor beyond the magnitudes.
LEMMA ScaleCovers ==
  ASSUME NEW r \in Fraction, r.octets # 0
  PROVE  LET p == 112 * 8 * Unit * r.octets
             q == 100 * r.seconds
         IN  /\ p \in Nat /\ q \in Nat \ {0} /\ q <= p
             /\ \A m \in Magnitudes : 10 * m \in Magnitudes \/ p < 10 * m * q
<1> DEFINE o == r.octets  s == r.seconds
<1>1. /\ o \in Nat \ {0} /\ s \in Nat \ {0} /\ o < Wrap /\ s <= MaxTime + 1
      /\ Wrap \in Nat /\ MaxTime \in Nat /\ Unit \in Nat \ {0}
  BY FractionNumbers, TrafficNumbers, MagnitudesAssumption
<1> HIDE DEF o, s
<1> DEFINE u == 112 * 8 * Unit
<1>2. u \in Nat \ {0} /\ 100 * (MaxTime + 1) <= u
  BY <1>1, MagnitudesAssumption
<1>3. \A m \in Magnitudes : m \in Nat \ {0} /\ (10 * m \in Magnitudes \/ u * Wrap <= 1000 * m)
  BY MagnitudesAssumption
<1>4. u * o = 112 * 8 * Unit * o
  BY <1>1
<1> HIDE DEF u
<1>5. u * o \in Nat /\ u <= u * o /\ u * o < u * Wrap
  <2>1. u * 1 <= u * o /\ u * o + u <= u * Wrap
    <3>1. u * (o + 1) <= u * Wrap
      BY <1>1, <1>2
    <3>. QED
      BY <1>1, <1>2, <3>1
  <2>. QED
    BY <1>1, <1>2, <2>1
<1>6. 100 * s <= u * o
  BY <1>1, <1>2, <1>5
<1>7. \A m \in Magnitudes : u * Wrap <= 1000 * m => u * o < 10 * m * (100 * s)
  <2> SUFFICES ASSUME NEW m \in Magnitudes, u * Wrap <= 1000 * m
               PROVE  u * o < 10 * m * (100 * s)
    OBVIOUS
  <2>1. m \in Nat \ {0} /\ u * Wrap \in Nat
    BY <1>1, <1>2, <1>3
  <2>2. (1000 * m) * 1 <= (1000 * m) * s /\ 10 * m * (100 * s) = (1000 * m) * s
    BY <1>1, <2>1
  <2>3. (1000 * m) * s \in Nat
    BY <1>1, <2>1
  <2>. QED
    BY <1>5, <2>1, <2>2, <2>3
<1>8. 100 * s \in Nat \ {0}
  BY <1>1
<1>. QED
  BY <1>3, <1>4, <1>5, <1>6, <1>7, <1>8 DEF o, s

\* What contains the highest value contains every one.
LEMMA HighestBounds ==
  ASSUME NEW r \in Fraction, NEW h \in Fraction, AtMost(r, h), NEW maximum \in Nat,
         112 * 8 * Unit * h.octets <= maximum * (100 * h.seconds)
  PROVE  8 * Unit * r.octets <= maximum * r.seconds
<1> DEFINE ro == r.octets  rs == r.seconds  ho == h.octets  hs == h.seconds
<1>1. /\ ro \in Nat /\ rs \in Nat \ {0} /\ ho \in Nat /\ hs \in Nat \ {0} /\ Unit \in Nat
  BY FractionNumbers, MagnitudesAssumption
<1>2. ro * hs <= ho * rs
  BY DEF AtMost
<1>3. 896 * Unit * ho <= maximum * (100 * hs)
  OBVIOUS
<1>4. SUFFICES 8 * Unit * ro <= maximum * rs
  OBVIOUS
<1> HIDE DEF ro, rs, ho, hs
<1> DEFINE u == 896 * Unit
<1>5. u \in Nat
  BY <1>1
<1>6. u * ho <= maximum * (100 * hs)
  BY <1>3
<1>7. 100 * (8 * Unit * ro) <= u * ro
  BY <1>1
<1> HIDE DEF u
<1>8. u * (ro * hs) <= u * (ho * rs)
  BY <1>1, <1>2, <1>5
<1>9. (u * ho) * rs <= (maximum * (100 * hs)) * rs
  BY <1>1, <1>5, <1>6, ProductsKeepOrder
<1>10. (u * ro) * hs <= (100 * (maximum * rs)) * hs
  BY <1>1, <1>5, <1>8, <1>9
<1>11. u * ro <= 100 * (maximum * rs)
  BY <1>1, <1>5, <1>10, ProductsKeepOrder
<1>12. 8 * Unit * ro \in Nat /\ maximum * rs \in Nat /\ u * ro \in Nat
  BY <1>1, <1>5
<1> DEFINE x == 8 * Unit * ro  y == maximum * rs  z == u * ro
<1>13. 100 * x <= z /\ z <= 100 * y /\ x \in Nat /\ y \in Nat /\ z \in Nat
  BY <1>7, <1>11, <1>12
<1> HIDE DEF x, y, z
<1>14. x <= y
  BY <1>13
<1>. QED
  BY <1>14 DEF x, y

\* The chart contains each of its points and is at most two and a half times as
\* high as needed, for rates of any size, at any time, any number of points.
THEOREM ChartContainsThePoints == TrafficSpec => []ChartContainsEveryPoint
<1>1. ASSUME points \in Seq(Point), AllFit(points) PROVE ChartContainsEveryPoint
  <2>1. Rates \subseteq Fraction
    BY <1>1, RatesAreFractions
  <2>2. CASE \A r \in Rates : r.octets = 0
    <3>1. ChartMaximum = 1000 * Unit
      BY <2>2 DEF ChartMaximum
    <3>2. \A r \in Rates : 8 * Unit * r.octets <= ChartMaximum * r.seconds
      BY <2>1, <2>2, <3>1, FractionNumbers, MagnitudesAssumption
    <3>. QED
      BY <2>2, <3>2 DEF ChartContainsEveryPoint
  <2>3. CASE \E r \in Rates : r.octets # 0
    <3>1. Highest \in Rates /\ \A r \in Rates : AtMost(r, Highest)
      BY <1>1, <2>3, HighestIsARate
    <3>2. Highest \in Fraction
      BY <2>1, <3>1
    <3>3. Highest.octets # 0
      BY <2>1, <2>3, <3>1, <3>2, FractionNumbers DEF AtMost
    <3> DEFINE p == 112 * 8 * Unit * Highest.octets
               q == 100 * Highest.seconds
    <3>4. ChartMaximum = NiceMaximum(p, q)
      BY <2>3 DEF ChartMaximum
    <3>5. /\ p \in Nat /\ q \in Nat \ {0} /\ q <= p
          /\ \A m \in Magnitudes : 10 * m \in Magnitudes \/ p < 10 * m * q
      BY <3>2, <3>3, ScaleCovers
    <3> HIDE DEF p, q
    <3>6. ChartMaximum \in Nat /\ p <= ChartMaximum * q /\ 2 * ChartMaximum * q <= 5 * p
      BY <3>4, <3>5, NiceMaximumFits
    <3>7. \A r \in Rates : 8 * Unit * r.octets <= ChartMaximum * r.seconds
      BY <2>1, <3>1, <3>2, <3>6, HighestBounds DEF p, q
    <3>8. 100 * ChartMaximum * Highest.seconds <= 280 * 8 * Unit * Highest.octets
      <4>1. Highest.seconds \in Nat /\ Highest.octets \in Nat /\ Unit \in Nat
        BY <3>2, FractionNumbers, MagnitudesAssumption
      <4>. QED
        BY <3>6, <4>1 DEF p, q
    <3>. QED
      BY <3>1, <3>7, <3>8 DEF ChartContainsEveryPoint
  <2>. QED
    BY <2>2, <2>3
<1>2. ShownInv => ChartContainsEveryPoint
  BY <1>1 DEF ShownInv
<1>. QED
  BY <1>2, InitTraffic, DeviceStep, ShownStep, PTL DEF TrafficSpec
=============================================================================
