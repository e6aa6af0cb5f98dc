--------------------------- MODULE RenewalProofs ---------------------------
(***************************************************************************)
(* Theorems about the renewal of a certificate (CertRenewal), for any      *)
(* number of mints, report attempts and crashes and every set of faults.   *)
(***************************************************************************)
EXTENDS CertRenewal, TLAPS

\* While a request may be under way the debt is in memory and on disk; before
\* it, and when the pass writes its memory out, memory knows of every debt on
\* disk; and a renewal that found no debt found no pending mint.
LedgerInv ==
  \/ excused
  \/ /\ debt => ledger
     /\ pc \in {"debt", "lock", "save"} /\ ledger => debt
     /\ pc \in {"mint", "install", "reload", "verify", "restart", "report"}
          => debt
     /\ pc = "mint" /\ ~owedBefore => pending = None

\* The part of TypeOK the argument needs.
FlagsOK ==
  /\ debt \in BOOLEAN /\ ledger \in BOOLEAN /\ owedBefore \in BOOLEAN
  /\ excused \in BOOLEAN

OwedInv == FlagsOK /\ LedgerInv /\ PendingIsOwed

\* Every step keeps the invariant.
LEMMA OwedStep ==
  ASSUME OwedInv, [Next]_vars
  PROVE  OwedInv'
<1> USE DEF OwedInv, FlagsOK, LedgerInv, PendingIsOwed, locals, owed, sidecar,
        manager, Goto, Save, Write, None
<1>1. CASE PassBegins BY <1>1 DEF PassBegins, LoadUnconfirmed
<1>2. CASE DebtDeferred BY <1>2 DEF DebtDeferred
<1>3. CASE DebtProbes BY <1>3 DEF DebtProbes, BeginReport, Probe
<1>4. CASE RenewalSkipped BY <1>4 DEF RenewalSkipped
<1>5. CASE NotDue BY <1>5 DEF NotDue
<1>6. CASE Owes BY <1>6 DEF Owes, Probe
<1>7. CASE MintRefused BY <1>7 DEF MintRefused, ForgetSpeculative
<1>8. CASE Mints BY <1>8 DEF Mints, Issues
<1>9. CASE MintAnswerLost BY <1>9 DEF MintAnswerLost, Issues
<1>10. CASE MintGatewayError BY <1>10 DEF MintGatewayError
<1>11. CASE Installs BY <1>11 DEF Installs
<1>12. CASE InstallFails BY <1>12 DEF InstallFails, BeginReport
<1>13. CASE Reloads BY <1>13 DEF Reloads
<1>14. CASE Verifies BY <1>14 DEF Verifies, BeginReport, Probe
<1>15. CASE Restarts BY <1>15 DEF Restarts, BeginReport, Probe
<1>16. CASE ReportHeard BY <1>16 DEF ReportHeard, ManagerHears, ReportReturns
<1>17. CASE ReportRefused BY <1>17 DEF ReportRefused, ReportReturns
<1>18. CASE ReportLost BY <1>18 DEF ReportLost, ManagerHears, ReportReturns
<1>19. CASE BackoffEnds BY <1>19 DEF BackoffEnds
<1>20. CASE SidecarRestarts BY <1>20 DEF SidecarRestarts
<1>21. CASE Crash BY <1>21 DEF Crash
<1>22. CASE UNCHANGED vars BY <1>22 DEF vars
<1>23. CASE ReportTurnedAway BY <1>23 DEF ReportTurnedAway
<1>24. CASE PassEnds BY <1>24 DEF PassEnds
<1> QED
  BY <1>1, <1>2, <1>3, <1>4, <1>5, <1>6, <1>7, <1>8, <1>9, <1>10, <1>11,
     <1>12, <1>13, <1>14, <1>15, <1>16, <1>17, <1>18, <1>19, <1>20, <1>21,
     <1>22, <1>23, <1>24
  DEF Next, Renewal

\* No pending mint is ever without a report owed on disk: the claim the
\* ordering of _renew_locked and _report is built around.
THEOREM MintsAreOwed == Spec => []PendingIsOwed
<1>1. Init => OwedInv
  BY DEF Init, OwedInv, FlagsOK, LedgerInv, PendingIsOwed, None, FirstSerial
<1>2. OwedInv /\ [Next]_vars => OwedInv' BY OwedStep
<1>3. OwedInv => PendingIsOwed BY DEF OwedInv
<1> QED BY <1>1, <1>2, <1>3, PTL DEF Spec

\* What is served, what a handshake read and what the manager recorded have
\* all been served.
ServedInv ==
  /\ served \in everServed
  /\ found \in everServed \cup {None}
  /\ ConfirmedWasServed

\* The manager's record is never ahead of the sidecar, whatever fails: the
\* report carries what the handshake found, never what was asked for.
THEOREM RecordsAreTrue == Spec => []ConfirmedWasServed
<1>1. Init => ServedInv BY DEF Init, ServedInv, ConfirmedWasServed
<1>2. ServedInv /\ [Next]_vars => ServedInv'
  <2> SUFFICES ASSUME ServedInv, [Next]_vars PROVE ServedInv' OBVIOUS
  <2> USE DEF ServedInv, ConfirmedWasServed, locals, sidecar, manager, Probe,
              BeginReport
  <2>1. CASE PassBegins \/ PassEnds \/ DebtDeferred \/ DebtProbes \/ RenewalSkipped
    BY <2>1 DEF PassBegins, PassEnds, DebtDeferred, DebtProbes, RenewalSkipped
  <2>2. CASE NotDue \/ Owes \/ MintRefused
    BY <2>2 DEF NotDue, Owes, MintRefused
  <2>3. CASE Mints \/ MintAnswerLost \/ MintGatewayError
    BY <2>3 DEF Mints, MintAnswerLost, MintGatewayError, Issues
  <2>4. CASE Installs \/ InstallFails \/ Reloads
    BY <2>4 DEF Installs, InstallFails, Reloads
  <2>5. CASE Verifies BY <2>5 DEF Verifies
  <2>6. CASE Restarts BY <2>6 DEF Restarts
  <2>7. CASE ReportHeard \/ ReportRefused \/ ReportTurnedAway \/ ReportLost
    BY <2>7 DEF ReportHeard, ReportRefused, ReportTurnedAway, ReportLost,
                ManagerHears
  <2>8. CASE BackoffEnds \/ SidecarRestarts \/ Crash \/ UNCHANGED vars
    BY <2>8 DEF BackoffEnds, SidecarRestarts, Crash, vars
  <2> QED BY <2>1, <2>2, <2>3, <2>4, <2>5, <2>6, <2>7, <2>8 DEF Next, Renewal
<1>3. ServedInv => ConfirmedWasServed BY DEF ServedInv
<1> QED BY <1>1, <1>2, <1>3, PTL DEF Spec
=============================================================================
