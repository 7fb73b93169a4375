---------------------------- MODULE PageTables -----------------------------
(***************************************************************************)
(* The two tables of dashboard.js that timers keep up to date: the alert   *)
(* history under its filter, and the top interfaces.  The other filters    *)
(* of the history work as the one by device does, but for its options,     *)
(* which follow the device list.                                           *)
(*                                                                         *)
(* What the server would answer is told by a version: the number of alert  *)
(* events, or of polls, so far.                                            *)
(***************************************************************************)
EXTENDS Integers

CONSTANTS
  Options,          \* devices that may be listed
  AllDevices,       \* the first option, and the value of a filter that has none
  Nothing,          \* a table that shows an error, or that nothing was loaded into
  TableRequests,    \* bound: requests of either table in flight
  MaxVersion,       \* bound on what happens at the server
  MaxTableActions,  \* bound on filters chosen and on changes of the list
  MaxTableFailures  \* bound on requests that fail

ASSUME TablesBoundsAssumption ==
  /\ AllDevices \notin Options
  /\ {MaxVersion, MaxTableActions, MaxTableFailures} \subseteq Nat

VARIABLES
  version,        \* of the server's answers
  options,        \* the devices in the filter's list
  filter,         \* its value
  history,        \* what alertHistoryBody shows
  historyLoads,   \* calls of loadAlertHistory
  top,            \* what topInterfacesList shows
  topLoads,       \* calls of loadTopInterfaces
  fellBack,       \* observer: the filter lost its device since the last load
  tableActions, tableFailures

tablesVars == <<version, options, filter, history, historyLoads, top, topLoads, fellBack,
                tableActions, tableFailures>>

Unserved == -1
Versions == 0..MaxVersion

\* `latest` says whether the call's request version is the current one.
HistoryLoad == [filter : Options \cup {AllDevices}, latest : BOOLEAN, version : Versions \cup {Unserved}]
History == [filter : Options \cup {AllDevices}, version : Versions]

ASSUME NothingAssumption == Nothing \notin HistoryLoad \cup History

TableAct == tableActions < MaxTableActions /\ tableActions' = tableActions + 1

-----------------------------------------------------------------------------
(* loadAlertHistory *)

\* Up to its request, with the filter as it is now.
StartLoad(withFilter) ==
  \E r \in TableRequests :
    /\ historyLoads[r] = Nothing
    /\ historyLoads' = [q \in TableRequests |->
         IF q = r THEN [filter |-> withFilter, latest |-> TRUE, version |-> Unserved]
         ELSE IF historyLoads[q] = Nothing THEN Nothing ELSE [historyLoads[q] EXCEPT !.latest = FALSE]]
    /\ fellBack' = FALSE

ChooseFilter(f) ==
  /\ TableAct
  /\ f \in options \cup {AllDevices} /\ f # filter
  /\ filter' = f
  /\ StartLoad(f)
  /\ UNCHANGED <<version, options, history, top, topLoads, tableFailures>>

Loading == \E r \in TableRequests : historyLoads[r] # Nothing /\ historyLoads[r].latest

\* Mutant of CurrentFilter: the filter of the events that are shown.
FilterOfTheTable == IF history = Nothing THEN filter ELSE history.filter

CurrentFilter == filter

\* Every 30 seconds, and after a device has been deleted.  While the answer to the
\* last call is still to come, this happens only so often.
LoadAlertHistory ==
  /\ StartLoad(CurrentFilter)
  /\ IF Loading THEN TableAct ELSE UNCHANGED tableActions
  /\ UNCHANGED <<version, options, filter, history, top, topLoads, tableFailures>>

ServeHistory(r) ==
  /\ historyLoads[r] # Nothing /\ historyLoads[r].version = Unserved
  /\ historyLoads' = [historyLoads EXCEPT ![r].version = version]
  /\ UNCHANGED <<version, options, filter, history, top, topLoads, fellBack, tableActions, tableFailures>>

\* Mutant of Displays: any answer is displayed.
DisplaysAny(load) == load # Nothing

\* An answer, or an error, is displayed if no call came after it.
Displays(load) == load.latest

TakeHistory(r) ==
  /\ historyLoads[r] # Nothing /\ historyLoads[r].version # Unserved
  /\ history' = IF Displays(historyLoads[r])
                THEN [filter |-> historyLoads[r].filter, version |-> historyLoads[r].version]
                ELSE history
  /\ historyLoads' = [historyLoads EXCEPT ![r] = Nothing]
  /\ UNCHANGED <<version, options, filter, top, topLoads, fellBack, tableActions, tableFailures>>

HistoryIsLost(r) ==
  /\ historyLoads[r] # Nothing
  /\ tableFailures < MaxTableFailures
  /\ tableFailures' = tableFailures + 1
  /\ history' = IF Displays(historyLoads[r]) THEN Nothing ELSE history
  /\ historyLoads' = [historyLoads EXCEPT ![r] = Nothing]
  /\ UNCHANGED <<version, options, filter, top, topLoads, fellBack, tableActions>>

\* The list of options is built anew; the value stays if it is still there.
KeptFilter(listed) == IF filter \in listed THEN filter ELSE AllDevices

\* updateAlertHistoryDeviceOptions, in loadDevices: nothing is loaded.
UpdateAlertHistoryDeviceOptions(listed) ==
  /\ TableAct
  /\ options' = listed
  /\ filter' = KeptFilter(listed)
  /\ fellBack' = (fellBack \/ (filter \in options \ listed))
  /\ UNCHANGED <<version, history, historyLoads, top, topLoads, tableFailures>>

-----------------------------------------------------------------------------
(* loadTopInterfaces: its calls are not told apart *)

LoadTopInterfaces ==
  /\ \E r \in TableRequests : topLoads[r] = Nothing /\ topLoads' = [topLoads EXCEPT ![r] = Unserved]
  /\ UNCHANGED <<version, options, filter, history, historyLoads, top, fellBack, tableActions, tableFailures>>

ServeTop(r) ==
  /\ topLoads[r] = Unserved
  /\ topLoads' = [topLoads EXCEPT ![r] = version]
  /\ UNCHANGED <<version, options, filter, history, historyLoads, top, fellBack, tableActions, tableFailures>>

TakeTop(r) ==
  /\ topLoads[r] \in Versions
  /\ top' = topLoads[r]
  /\ topLoads' = [topLoads EXCEPT ![r] = Nothing]
  /\ UNCHANGED <<version, options, filter, history, historyLoads, fellBack, tableActions, tableFailures>>

\* The error is displayed, whatever call it is of.
TopIsLost(r) ==
  /\ topLoads[r] # Nothing
  /\ tableFailures < MaxTableFailures
  /\ tableFailures' = tableFailures + 1
  /\ top' = Nothing
  /\ topLoads' = [topLoads EXCEPT ![r] = Nothing]
  /\ UNCHANGED <<version, options, filter, history, historyLoads, fellBack, tableActions>>

\* An alert event is recorded, or an interface polled.
VersionGrows ==
  /\ version < MaxVersion
  /\ version' = version + 1
  /\ UNCHANGED <<options, filter, history, historyLoads, top, topLoads, fellBack, tableActions, tableFailures>>

-----------------------------------------------------------------------------
\* The device list has been loaded; the page loads both tables once.
TablesInit ==
  /\ version = 0
  /\ options = Options
  /\ filter = AllDevices
  /\ history = Nothing /\ historyLoads = [r \in TableRequests |-> Nothing]
  /\ top = Nothing /\ topLoads = [r \in TableRequests |-> Nothing]
  /\ fellBack = FALSE
  /\ tableActions = 0 /\ tableFailures = 0

TablesNext ==
  \/ VersionGrows \/ LoadAlertHistory \/ LoadTopInterfaces
  \/ \E f \in Options \cup {AllDevices} : ChooseFilter(f)
  \/ \E listed \in SUBSET Options : UpdateAlertHistoryDeviceOptions(listed)
  \/ \E r \in TableRequests :
       \/ ServeHistory(r) \/ TakeHistory(r) \/ HistoryIsLost(r)
       \/ ServeTop(r) \/ TakeTop(r) \/ TopIsLost(r)

TablesSpec == TablesInit /\ [][TablesNext]_tablesVars

ProceedHistory(r) == ServeHistory(r) \/ TakeHistory(r)
ProceedTop(r) == ServeTop(r) \/ TakeTop(r)

\* The timers go off as long as the page is open; requests are answered or time
\* out, and settled promises are taken up.
TablesFairSpec ==
  /\ TablesSpec
  /\ WF_tablesVars(LoadAlertHistory) /\ WF_tablesVars(LoadTopInterfaces)
  /\ \A r \in TableRequests : WF_tablesVars(ProceedHistory(r)) /\ WF_tablesVars(ProceedTop(r))

-----------------------------------------------------------------------------
(* Properties *)

\* The types of the variables.
TablesTypeOK ==
  /\ version \in Versions /\ top \in Versions \cup {Nothing}
  /\ options \subseteq Options /\ filter \in options \cup {AllDevices}
  /\ history \in History \cup {Nothing}
  /\ historyLoads \in [TableRequests -> HistoryLoad \cup {Nothing}]
  /\ topLoads \in [TableRequests -> Versions \cup {Unserved, Nothing}]
  /\ fellBack \in BOOLEAN
  /\ tableActions \in 0..MaxTableActions /\ tableFailures \in 0..MaxTableFailures

\* The events shown are those of the filter shown above them, or a request for
\* them is in flight, however answers are reordered; except after the list of
\* devices lost the filter's: the filter says all devices, and only the timer
\* brings their events.
HistoryFitsTheFilter ==
  \/ history = Nothing \/ history.filter = filter
  \/ Loading \/ fellBack

\* No answer brings back older events than those shown, though calls by the
\* timer and by the filters overlap.
HistoryNeverGoesBack ==
  [][history # Nothing /\ history' # Nothing => history'.version >= history.version]_tablesVars

\* The tables show what the server has.
TablesAreCurrent == history = [filter |-> filter, version |-> version] /\ top = version

\* Both tables are current in the end: the alert history after a filter that
\* fell back, the top interfaces after an answer that came late.
TablesHeal == <>[]TablesAreCurrent
=============================================================================
