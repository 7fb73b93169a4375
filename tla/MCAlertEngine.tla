--------------------------- MODULE MCAlertEngine ---------------------------
(* Small instances of AlertEngine. *)
EXTENDS AlertEngine, TLC

\* Readings below the warning threshold (50), between the two, above both.
LowHigh == {50, 95}
AllLevels == {50, 75, 95}

RulesOn == AlertDefaults
RulesOff == [AlertDefaults EXCEPT !.enabled = FALSE]
OnlyDefaultRules == {RulesOn}
RulesOnOff == {RulesOn, RulesOff}

\* Mails of every kind, with a cooldown of one minute.
MailsOn == [enabled |-> TRUE, warning |-> TRUE, critical |-> TRUE, recovery |-> TRUE, cooldown |-> 1]
OnlyMailsOn == {MailsOn}
MailsOnOff == {MailsOn, MailDefaults}

RequestSymmetry == Permutations(Requests)
None == {}
=============================================================================
