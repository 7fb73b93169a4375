------------------------------- MODULE MCPage -------------------------------
(***************************************************************************)
(* Small instances of Dialogs, FleetView, PageTables and Traffic.  These   *)
(* parts of the dashboard share no state, so that a behaviour of the page  *)
(* is one of each side by side; here, it is one of one of them, with the   *)
(* others at rest.                                                         *)
(***************************************************************************)
EXTENDS Dialogs, FleetView, PageTables, Traffic

CONSTANTS d1, d2, o1, v1, v2

VARIABLE part

pageVars == <<dialogsVars, fleetVars, tablesVars, trafficVars, part>>

Port(n, oper, measuring, utilization) ==
  [index |-> n, physical |-> TRUE, admin |-> "up", oper |-> oper, measuring |-> measuring,
   speed |-> 1000, utilization |-> utilization, fortilink |-> FALSE]

\* A calm device, at first with a port that is down and one being measured; a
\* device whose memory and port are in the upper ranges.
Calm == [cpu |-> 10, memory |-> NoReading,
         interfaces |-> {Port(1, "down", FALSE, 0), Port(2, "up", TRUE, 90)}]
Busy == [cpu |-> 70, memory |-> 90, interfaces |-> {Port(2, "up", FALSE, 90)}]
CalmOrBusy == {Calm, Busy}

Limits(warning, critical) == [warning |-> warning, critical |-> critical]
Defaults == [cpu |-> Limits(70, 85), memory |-> Limits(75, 90), traffic |-> Limits(70, 90),
             timeout |-> 0, enabled |-> TRUE]
Off == [Defaults EXCEPT !.enabled = FALSE]
OnOrOff == {Defaults, Off}

\* Hundredths of a bit per second, up to 10 Kbps.
PowersOfTen == {10^k : k \in 0..6}

\* The devices are interchangeable: of two fleets that differ in their names only,
\* one is enough to begin with.
UpToNames ==
  /\ devices[d2] = "enabled" => devices[d1] = "enabled"
  /\ devices[d1] = "absent" => devices[d2] = "absent"
  /\ devices[d1] = devices[d2] /\ snapshots[d1] = NoData => snapshots[d2] = NoData

\* A part at rest is in one of its initial states.
PageInit ==
  /\ DialogsInit /\ FleetInit /\ TablesInit /\ TrafficInit
  /\ part \in {"dialogs", "fleet", "tables", "traffic"}
  /\ part # "dialogs" => stored = [f \in Forms |-> Default]
  /\ part = "fleet" => UpToNames
  /\ part # "fleet" => devices = NoList /\ fleet.settings = Defaults

PageNext ==
  \/ part = "dialogs" /\ DialogsNext /\ UNCHANGED <<fleetVars, tablesVars, trafficVars, part>>
  \/ part = "fleet" /\ FleetNext /\ UNCHANGED <<dialogsVars, tablesVars, trafficVars, part>>
  \/ part = "tables" /\ TablesNext /\ UNCHANGED <<dialogsVars, fleetVars, trafficVars, part>>
  \/ part = "traffic" /\ TrafficNext /\ UNCHANGED <<dialogsVars, fleetVars, tablesVars, part>>

\* The fairness of DialogsFairSpec, FleetFairSpec and TablesFairSpec, each for
\* the part in play.
PageFairSpec ==
  /\ PageInit /\ [][PageNext]_pageVars
  /\ \A s \in Slots : WF_dialogsVars(part = "dialogs" /\ Answer(s))
  /\ \A c \in Loads : WF_fleetVars(part = "fleet" /\ GoOnLoading(c))
  /\ WF_tablesVars(part = "tables" /\ LoadAlertHistory)
  /\ WF_tablesVars(part = "tables" /\ LoadTopInterfaces)
  /\ \A r \in TableRequests :
       /\ WF_tablesVars(part = "tables" /\ ProceedHistory(r))
       /\ WF_tablesVars(part = "tables" /\ ProceedTop(r))

-----------------------------------------------------------------------------
\* FleetSettles, of a page whose fleet is not at rest.
FleetSettlesInPlay == <>[](part = "fleet" => FleetIsSettled)

\* TablesHeal, of a page whose tables are not at rest.
TablesHealInPlay == <>[](part = "tables" => TablesAreCurrent)
=============================================================================
