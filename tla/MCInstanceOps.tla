---------------------------- MODULE MCInstanceOps ----------------------------
(* Model values of InstanceOps for TLC.                                    *)
EXTENDS InstanceOps, TLC

CONSTANTS t1, t2, r1, none

TwoThreads == {t1, t2}
OneThread == {t1}
OneRestore == {r1}

\* Threads are interchangeable: no formula names one.
ThreadSymmetry == Permutations(TwoThreads)

AnyContainers == {"absent", "stopped", "running"}
RunningOnly == {"running"}

NoFault == {}
StopTimeout == {"stop_timeout"}
ThreadOrStop == {"thread", "stop_timeout"}

Everything == AllOps
BackupsAndRenew == {"backup", "hotbackup", "renew"}
BackupOnly == {"backup"}
StartAndDecommission == {"start", "decommission"}
=============================================================================
