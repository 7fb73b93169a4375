-------------------------- MODULE AlertLifecycle --------------------------
(***************************************************************************)
(* What the alert engine promises of its two tables: which alerts are      *)
(* active, and what the history last said of each.  An alert becomes       *)
(* active only together with an OPENED event, never twice in a row;        *)
(* further events and the recovery belong to an alert the history shows    *)
(* as open; alerts may also be closed without an event.                    *)
(***************************************************************************)
EXTENDS AlertPolicy

CONSTANT Alerts

VARIABLES
  active,   \* the alerts that are active
  history   \* per alert: the type of its last event

vars == <<active, history>>

Init ==
  /\ active = {}
  /\ history = [a \in Alerts |-> "NONE"]

Open(a) ==
  /\ a \notin active
  /\ active' = active \cup {a}
  /\ history' = [history EXCEPT ![a] = "OPENED"]

\* An escalation or a reminder; the alert may have been closed silently while
\* it was being decided.
Repeat(a) ==
  /\ history[a] \in OpenEvents
  /\ \E type \in {"ESCALATED", "REMINDER"} : history' = [history EXCEPT ![a] = type]
  /\ active' = active

Recover(a) ==
  /\ history[a] \in OpenEvents
  /\ active' = active \ {a}
  /\ history' = [history EXCEPT ![a] = "RECOVERED"]

CloseSilently ==
  /\ active' \subseteq active
  /\ history' = history

Next == CloseSilently \/ \E a \in Alerts : Open(a) \/ Repeat(a) \/ Recover(a)

Spec == Init /\ [][Next]_vars

=============================================================================
