---------------------------- MODULE CertRenewal ----------------------------
(***************************************************************************)
(* The renewal of one instance's certificate (app/workers/cert_renewal.py: *)
(* renew_one, _renew_locked, _mint, _install, _reload, _restart, _report   *)
(* and the ledger of owed confirmations), with the manager it mints from   *)
(* and reports to and the nginx sidecar that serves the certificate.  One  *)
(* pass runs at a time (_pass_lock) and instances are independent of each  *)
(* other, so one instance and one pass at a time are modelled.             *)
(*                                                                         *)
(* Certificates are serial numbers.  The manager holds at most one pending *)
(* mint and compares every report with it; it is external and modelled     *)
(* from what _mint and _report expect of it.                               *)
(***************************************************************************)
EXTENDS Integers

CONSTANTS
  ReportAttempts, \* _REPORT_ATTEMPTS
  Faults,         \* subset of {"disk", "gateway", "blind"}
  MaxMints,       \* bound: certificates the manager issues
  MaxCrashes      \* bound: crashes of the greffer process

ASSUME ConstantsAssumption ==
  /\ ReportAttempts \in Nat \ {0}
  /\ Faults \subseteq {"disk", "gateway", "blind"}
  /\ MaxMints \in Nat
  /\ MaxCrashes \in Nat

None == 0        \* no serial: nothing pending, or a probe that read nothing
FirstSerial == 1 \* the certificate the instance was started with

VARIABLES
  \* The greffer process.
  pc,
  force,      \* this pass is an operator's forced one
  owedBefore, \* local of _renew_locked
  wanted,     \* the serial just minted
  found,      \* what the last handshake read
  attempt,    \* loop counter of _report
  after,      \* where _report returns to
  debt,       \* the instance is in _unconfirmed
  backoff,    \* the instance is in its backoff window
  \* The host.
  ledger,     \* the instance is in .cert-unconfirmed.json
  file,       \* serial of the pair in the sidecar's /etc/nginx
  served,     \* serial nginx serves
  \* The manager.
  pending,    \* the mint it waits to hear about
  recorded,   \* the serial it believes is served
  issued,     \* certificates issued so far
  \* Bookkeeping.
  everServed,
  excused,    \* the ledger could not be written or its entry not be read, or a
              \* gateway answered for the manager: the debts may be wrong from
              \* then on
  crashes

locals == <<force, owedBefore, wanted, found, attempt, after>>
owed == <<debt, ledger, excused>>
sidecar == <<file, served, everServed>>
manager == <<pending, recorded, issued>>
vars == <<pc, locals, owed, backoff, sidecar, manager, crashes>>

Init ==
  /\ pc = "idle"
  /\ force = FALSE /\ owedBefore = FALSE
  /\ wanted = None /\ found = None
  /\ attempt = 1 /\ after = "lock"
  /\ debt = FALSE /\ ledger = FALSE /\ excused = FALSE
  /\ backoff = FALSE
  /\ file = FirstSerial /\ served = FirstSerial /\ everServed = {FirstSerial}
  /\ pending = None /\ recorded = FirstSerial
  /\ issued = 1
  /\ crashes = 0

Fault(f) == f \in Faults
Goto(l) == pc' = l

\* A handshake reads what is served, or nothing at all.
Probe(s) == IF Fault("blind") THEN {s, None} ELSE {s}

\* _save_unconfirmed swallows an OSError.
Write(b) ==
  /\ debt' = b
  /\ ledger' = b \/ (Fault("disk") /\ ledger' = ledger)

Save(b) == Write(b) /\ excused' = (excused \/ ledger' # b)

-----------------------------------------------------------------------------
(* The pass and the debt of an earlier one.                                *)

\* _load_unconfirmed adds the file's entries to the memory's, or returns with
\* the file unread.
LoadUnconfirmed ==
  \/ debt' = (debt \/ ledger) /\ UNCHANGED excused
  \/ /\ Fault("disk")
     /\ debt' = debt
     /\ excused' = (excused \/ (ledger /\ ~debt))

\* renew_all reaches this instance: the ledger is read, then renew_one.
PassBegins ==
  /\ pc = "idle"
  /\ LoadUnconfirmed
  /\ force' \in BOOLEAN
  /\ Goto(IF debt' THEN "debt" ELSE "lock")
  /\ UNCHANGED <<owedBefore, wanted, found, attempt, after, ledger, backoff,
                 sidecar, manager, crashes>>

\* The pass ends by writing what is in memory over the file.
PassEnds ==
  /\ pc = "save"
  /\ Save(debt)
  /\ Goto("idle")
  /\ UNCHANGED <<locals, backoff, sidecar, manager, crashes>>

\* A compose child, a settling sidecar, the lock or a missing port: the debt
\* waits for a quiet pass.
DebtDeferred ==
  /\ pc = "debt"
  /\ Goto("lock")
  /\ UNCHANGED <<locals, owed, backoff, sidecar, manager, crashes>>

\* _report writes the debt before its first request.
BeginReport(s, back) ==
  /\ found' = s
  /\ Save(TRUE)
  /\ attempt' = 1
  /\ after' = back
  /\ Goto("report")

DebtProbes ==
  /\ pc = "debt"
  /\ \E s \in Probe(served) : BeginReport(s, "lock")
  /\ UNCHANGED <<force, owedBefore, wanted, backoff, sidecar, manager, crashes>>

-----------------------------------------------------------------------------
(* _renew_locked.                                                          *)

\* The lock or the handoff refuses, or one of the gates does: backoff, no
\* published port, a compose child, a settling sidecar.
RenewalSkipped ==
  /\ pc = "lock"
  /\ Goto("save")
  /\ UNCHANGED <<locals, owed, backoff, sidecar, manager, crashes>>

\* A readable certificate that is not due settles an old failure.
NotDue ==
  /\ pc = "lock" /\ ~force /\ ~backoff
  /\ found' = served
  /\ Goto("save")
  /\ UNCHANGED <<force, owedBefore, wanted, attempt, after, owed, backoff,
                 sidecar, manager, crashes>>

\* Mutant: the debt is only filed once the mint has returned.
OwesLater ==
  /\ pc = "lock" /\ (force \/ ~backoff)
  /\ found' \in Probe(served)
  /\ owedBefore' = debt
  /\ Goto("mint")
  /\ UNCHANGED <<force, wanted, attempt, after, owed, backoff, sidecar, manager,
                 crashes>>

\* Due, unreadable, or forced: the debt is filed before the request.
Owes ==
  /\ pc = "lock" /\ (force \/ ~backoff)
  /\ found' \in Probe(served)
  /\ owedBefore' = debt
  /\ IF debt THEN UNCHANGED owed ELSE Save(TRUE)
  /\ Goto("mint")
  /\ UNCHANGED <<force, wanted, attempt, after, backoff, sidecar, manager,
                 crashes>>

\* Mutant: a refusal drops a debt that was there before it.
ForgetSpeculativeBlind == Save(FALSE)

\* A definitive refusal takes back the debt it was preceded by, and no other.
ForgetSpeculative == IF owedBefore THEN UNCHANGED owed ELSE Save(FALSE)

\* The node's refusals (renewal off, rate limit, token): the pass ends there.
\* The instance's own (gone, cooling down, outstanding mint, any other status)
\* arm the backoff, the first of them excepted.
MintRefused ==
  /\ pc = "mint"
  /\ ForgetSpeculative
  /\ backoff' \in {backoff, TRUE}
  /\ Goto("save")
  /\ UNCHANGED <<locals, sidecar, manager, crashes>>

\* The manager commits an issuance; it refuses while one is outstanding.
Issues ==
  /\ pending = None
  /\ issued <= MaxMints
  /\ issued' = issued + 1
  /\ pending' = issued + 1
  /\ UNCHANGED recorded

Mints ==
  /\ pc = "mint"
  /\ Issues
  /\ wanted' = issued + 1
  /\ Goto("install")
  /\ UNCHANGED <<force, owedBefore, found, attempt, after, owed, backoff,
                 sidecar, crashes>>

\* The request or its answer is lost, or the answer does not parse: _mint
\* raises and renew_all arms the backoff.
MintAnswerLost ==
  /\ pc = "mint"
  /\ Issues \/ UNCHANGED manager
  /\ backoff' = TRUE
  /\ Goto("save")
  /\ UNCHANGED <<locals, owed, sidecar, crashes>>

\* The manager commits and a gateway in front of it answers 5xx: to _mint a
\* status other than 200, and so a refusal.
MintGatewayError ==
  /\ pc = "mint" /\ Fault("gateway")
  /\ Issues
  /\ IF owedBefore THEN UNCHANGED <<debt, ledger>> ELSE Write(FALSE)
  /\ excused' = TRUE
  /\ backoff' = TRUE
  /\ Goto("save")
  /\ UNCHANGED <<locals, sidecar, crashes>>

Installs ==
  /\ pc = "install"
  /\ file' = wanted
  /\ Goto("reload")
  /\ UNCHANGED <<locals, owed, backoff, served, everServed, manager, crashes>>

\* The certificate was issued: what is still served is reported.
InstallFails ==
  /\ pc = "install"
  /\ BeginReport(found, "end")
  /\ UNCHANGED <<force, owedBefore, wanted, backoff, sidecar, manager, crashes>>

\* nginx -s reload: not delivered, delivered and ignored, or taken.
Reloads ==
  /\ pc = "reload"
  /\ served' \in {served, file}
  /\ everServed' = everServed \cup {served'}
  /\ Goto("verify")
  /\ UNCHANGED <<locals, owed, backoff, file, manager, crashes>>

\* Mutant: what was asked for is reported, not what the handshake found.
VerifiesWanted ==
  /\ pc = "verify"
  /\ BeginReport(wanted, "end")
  /\ UNCHANGED <<force, owedBefore, wanted, backoff, sidecar, manager, crashes>>

\* _await_serial, then report unless the sidecar provably serves another one.
Verifies ==
  /\ pc = "verify"
  /\ \E s \in Probe(served) :
       IF s \in {None, wanted}
       THEN BeginReport(s, "end")
       ELSE Goto("restart") /\ found' = s /\ UNCHANGED <<owed, attempt, after>>
  /\ UNCHANGED <<force, owedBefore, wanted, backoff, sidecar, manager, crashes>>

\* The sidecar container is restarted and read back, or it cannot be.
Restarts ==
  /\ pc = "restart"
  /\ \/ /\ served' = file
        /\ everServed' = everServed \cup {file}
        /\ \E s \in Probe(file) : BeginReport(s, "end")
     \/ /\ BeginReport(found, "end")
        /\ UNCHANGED <<served, everServed>>
  /\ UNCHANGED <<force, owedBefore, wanted, backoff, file, manager, crashes>>

-----------------------------------------------------------------------------
(* _report.                                                                *)

\* The manager's side: a match confirms, anything else retires the mint.
ManagerHears ==
  /\ pending' = None
  /\ recorded' = IF pending # None /\ found = pending THEN found ELSE recorded
  /\ UNCHANGED issued

\* Back in the caller: the debt path goes on to the renewal, the renewal ends
\* and the backoff follows its outcome.
ReportReturns ==
  /\ Goto(IF after = "lock" THEN "lock" ELSE "save")
  /\ backoff' = IF after = "lock" THEN backoff ELSE found # wanted

\* 200, or the 409 of a mismatch or of nothing pending; and 404 not_found.
ReportHeard ==
  /\ pc = "report"
  /\ ManagerHears
  /\ Save(FALSE)
  /\ ReportReturns
  /\ UNCHANGED <<locals, sidecar, crashes>>

\* 401, 403 or the empty 404 of a manager with renewal off: still owed.
ReportRefused ==
  /\ pc = "report"
  /\ ReportReturns
  /\ UNCHANGED <<locals, owed, sidecar, manager, crashes>>

\* Any other 4xx, from something in front of the manager (a 408, 413 or 429):
\* taken for an answer, though the manager heard nothing.
ReportTurnedAway ==
  /\ pc = "report" /\ Fault("gateway")
  /\ Write(FALSE) /\ excused' = TRUE
  /\ ReportReturns
  /\ UNCHANGED <<locals, sidecar, manager, crashes>>

\* 5xx or transport, before or after the manager acted on it.
ReportLost ==
  /\ pc = "report"
  /\ ManagerHears \/ UNCHANGED manager
  /\ IF attempt < ReportAttempts
     THEN attempt' = attempt + 1 /\ UNCHANGED <<pc, backoff>>
     ELSE ReportReturns /\ UNCHANGED attempt
  /\ UNCHANGED <<force, owedBefore, wanted, found, after, owed, sidecar, crashes>>

-----------------------------------------------------------------------------
(* The environment.                                                        *)

BackoffEnds ==
  /\ backoff /\ backoff' = FALSE
  /\ UNCHANGED <<pc, locals, owed, sidecar, manager, crashes>>

\* The sidecar restarts for a reason of its own and loads the files it has.
SidecarRestarts ==
  /\ served' = file
  /\ everServed' = everServed \cup {file}
  /\ UNCHANGED <<pc, locals, owed, backoff, file, manager, crashes>>

\* A crash or `greffer update`: memory is gone, files are not.
Crash ==
  /\ crashes < MaxCrashes
  /\ crashes' = crashes + 1
  /\ Goto("idle")
  /\ debt' = FALSE
  /\ backoff' = FALSE
  /\ UNCHANGED <<locals, ledger, excused, sidecar, manager>>

Renewal ==
  \/ PassBegins \/ PassEnds \/ DebtDeferred \/ DebtProbes \/ RenewalSkipped \/ NotDue
  \/ Owes \/ MintRefused \/ Mints \/ MintAnswerLost \/ MintGatewayError
  \/ Installs \/ InstallFails \/ Reloads \/ Verifies \/ Restarts
  \/ ReportHeard \/ ReportRefused \/ ReportTurnedAway \/ ReportLost

Next == Renewal \/ BackoffEnds \/ SidecarRestarts \/ Crash

Spec == Init /\ [][Next]_vars

\* Passes keep coming and each step of one ends.  Now and again a pass finds
\* the instance quiet, and the manager is not out of reach for ever.
FairSpec ==
  /\ Spec
  /\ WF_vars(Renewal)
  /\ SF_vars(DebtProbes)
  /\ SF_vars(ReportHeard)

-----------------------------------------------------------------------------
(* Properties.                                                             *)

\* Types; _report makes no more than its number of attempts.
TypeOK ==
  /\ pc \in {"idle", "debt", "lock", "mint", "install", "reload", "verify",
             "restart", "report", "save"}
  /\ force \in BOOLEAN /\ owedBefore \in BOOLEAN
  /\ wanted \in Nat /\ found \in Nat
  /\ attempt \in 1 .. ReportAttempts /\ after \in {"lock", "end"}
  /\ debt \in BOOLEAN /\ ledger \in BOOLEAN /\ backoff \in BOOLEAN
  /\ file \in Nat /\ served \in Nat /\ everServed \subseteq Nat
  /\ pending \in Nat /\ recorded \in Nat
  /\ issued \in Nat /\ excused \in BOOLEAN /\ crashes \in Nat

\* A mint the manager waits to hear about is always owed a report in a file
\* that survives a crash: through lost answers, refusals, failed installs,
\* reports that never arrive and restarts of the process (the debt filed
\* before the mint and cleared by terminal answers only).  Excused are a disk
\* that refuses the ledger (a write that fails, or a read that fails and leaves
\* the pass to write an empty memory over the entry), and a gateway whose 5xx to
\* a mint that went through reads as a refusal, or whose 4xx to a report reads
\* as an answer.
PendingIsOwed == pending # None => ledger \/ excused

\* The manager never records a serial that the sidecar has not served.
ConfirmedWasServed == recorded \in everServed

\* A pending mint does not sit "unresolved while the served certificate
\* expires": the manager hears of it in the end.
PendingResolved == (pending # None) ~> (pending = None \/ excused)
=============================================================================
