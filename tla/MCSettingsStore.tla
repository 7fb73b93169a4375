-------------------------- MODULE MCSettingsStore --------------------------
(* Small instances of SettingsStore. *)
EXTENDS SettingsStore, TLC

\* Thresholds as seeded, with the warning raised, with the critical one lowered;
\* each bound missed by one, the two thresholds equal.
CpuPairs == {<<70, 85>>, <<80, 85>>, <<70, 75>>, <<0, 85>>, <<100, 101>>, <<85, 85>>}
AlertBodies ==
  {[AlertDefaults EXCEPT !.cpuWarning = p[1], !.cpuCritical = p[2], !.offlineTimeout = timeout] :
     p \in CpuPairs, timeout \in {9, 30}}

\* Enabled with and without a host, disabled; with and without a password; a
\* cooldown in and out of bounds.
MailBodies ==
  {[enabled |-> e, host |-> h, port |-> 587, from |-> TRUE, to |-> TRUE,
    cooldown |-> m, password |-> p] : e, h, p \in BOOLEAN, m \in {0, 5}}

ClientSymmetry == Permutations(Clients)
=============================================================================
