---------------------------- MODULE MCSelfUpdate ----------------------------
(* Values of the SelfUpdate constants for TLC.                             *)
EXTENDS SelfUpdate

CONSTANTS r1, h1, none

OneRemote == {r1}
OneHost == {h1}
LatestOrTwo == {Latest, 2}
EveryTag == Versions \cup {Latest}
LatestOrPinned == {Latest, 1}
Whole == {Services}
SharedLock == UpdateFaults \ {"mountpoint"}
=============================================================================
