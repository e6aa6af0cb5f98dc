---------------------------- MODULE MCRepoOpLock ----------------------------
(* Model values of RepoOpLock for TLC.                                     *)
EXTENDS RepoOpLock

CONSTANTS t1, t2, t3, ra, rb, l1, l2, l3, l4

ThreeThreads == {t1, t2, t3}
TwoRepos == {ra, rb}
FourLocks == {l1, l2, l3, l4}
=============================================================================
