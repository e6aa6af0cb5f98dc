-------------------------- MODULE MCInstanceStart ---------------------------
(* Model values of InstanceStart for TLC.                                  *)
EXTENDS InstanceStart

CONSTANTS a, b, none, x, y

Two == {a, b}
TwoNames == {x, y}
\* No L4 port, one, and one more.
Growing == {{}, {x}, {x, y}}
JustB == {b}
Everything == AllFaults
=============================================================================
