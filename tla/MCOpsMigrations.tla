-------------------------- MODULE MCOpsMigrations ---------------------------
(* Model values of OpsMigrations for TLC.                                  *)
EXTENDS OpsMigrations

CONSTANTS boot, operator, none, shared, undeclared, novolume, key

TwoProcs == {boot, operator}
TwoVolumes == {shared, undeclared}
Shared == {shared}
OneKey == {key}
AllFaults == {"docker", "disk", "purge"}
=============================================================================
