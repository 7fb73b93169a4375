---------------------------- MODULE AlertPolicy ----------------------------
(***************************************************************************)
(* The pure rules of the alert engine: which severity a reading has, what  *)
(* a change of severity means for an alert (AlertNotificationPolicy), and  *)
(* whether the configured mail settings want to hear of it.                *)
(*                                                                         *)
(* Readings are integers against integer thresholds; NoReading stands for  *)
(* the null of `double?`.  Times are integers, Never is a null time.       *)
(***************************************************************************)
EXTENDS Integers

NoReading == -1
Never == -1

Severities == {"normal", "warning", "critical"}

\* enum NotificationDecision
Decisions == {"None", "Opened", "Reminder", "Escalated", "Recovered"}

Rank == [normal |-> 0, warning |-> 1, critical |-> 2]

\* What AlertNotificationPolicy.Evaluate says of an alert that was (or was
\* not) active when an observation of severity `current` arrives.
Evaluate(wasActive, previous, lastNotification, current, now, cooldown) ==
  CASE current = "normal" /\ wasActive -> "Recovered"
    [] current = "normal" /\ ~wasActive -> "None"
    [] current # "normal" /\ ~wasActive -> "Opened"
    [] current # "normal" /\ wasActive /\ Rank[current] > Rank[previous] -> "Escalated"
    [] OTHER -> IF lastNotification = Never \/ now - lastNotification >= cooldown
                THEN "Reminder"
                ELSE "None"

\* Do the mail settings ask for a mail about this decision?
ShouldNotify(decision, severity, email) ==
  /\ email.enabled
  /\ \/ decision = "Recovered" /\ email.recovery
     \/ /\ decision \in {"Opened", "Reminder", "Escalated"}
        /\ IF severity = "critical" THEN email.critical ELSE email.warning

\* A value against its two thresholds, the critical one first.
ThresholdSeverity(value, warning, critical) ==
  CASE value >= critical -> "critical"
    [] value < critical /\ value >= warning -> "warning"
    [] OTHER -> "normal"

\* CPU and memory: no reading, or a rule that is switched off, is "normal".
MetricSeverity(value, warning, critical, enabled) ==
  IF ~enabled \/ value = NoReading
  THEN "normal"
  ELSE ThresholdSeverity(value, warning, critical)

\* AlertEventFactory writes a decision into the history in upper case, and
\* nothing for None.
EventType == [None |-> "NONE", Opened |-> "OPENED", Reminder |-> "REMINDER",
              Escalated |-> "ESCALATED", Recovered |-> "RECOVERED"]

EventTypes == {"NONE", "OPENED", "REMINDER", "ESCALATED", "RECOVERED"}

\* The events after which a reader of the history takes the alert for open.
OpenEvents == {"OPENED", "REMINDER", "ESCALATED"}
=============================================================================
