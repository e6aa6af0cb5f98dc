-------------------------- MODULE MCInstanceStatus --------------------------
(* Model values of InstanceStatus for TLC.                                 *)
EXTENDS InstanceStatus, TLC

CONSTANTS app, sidecar

TwoContainers == {app, sidecar}

\* Containers differ by their policy, label and state only.
ContainerSymmetry == Permutations(TwoContainers)
=============================================================================
