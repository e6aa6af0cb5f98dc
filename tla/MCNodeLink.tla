---------------------------- MODULE MCNodeLink ------------------------------
(* Model values of NodeLink for TLC.                                       *)
EXTENDS NodeLink

CONSTANTS t1, t2, none

TwoTokens == {t1, t2}
UpAndDown == {"running", "stopped"}
AllFaults == {"ephemeral", "rotate", "forget", "blip", "death", "kill"}

\* Tokens and statuses are interchangeable, so the first ones may be fixed.
FirstInit == Init /\ status = "running" /\ token = t1
FirstSpec == FirstInit /\ [][Next]_vars /\ Fairness
=============================================================================
