-------------------------- MODULE MCSnapshotStore --------------------------
(* Small instances of SnapshotStore. *)
EXTENDS SnapshotStore, TLC

CONSTANTS h1, h2

TwoDevices == 1..2
TwoHosts == {h1, h2}

\* The addresses are interchangeable: device 1, if there is one, begins with h1.
InitUpToNames == Init /\ devices[1].host # h2
FairSpecUpToNames == InitUpToNames /\ [][Next]_vars /\ WF_vars(Poll)
=============================================================================
