----------------------------- MODULE RenewalPass -----------------------------
(***************************************************************************)
(* Renewal passes over all the instances of a node: renew_all,             *)
(* _renew_all_locked and cert_renewal_worker (app/workers/cert_renewal.py) *)
(* with the operator's /renew-certs/ call.  What one visit does to one     *)
(* instance is CertRenewal; here it is its outcome that counts, for the    *)
(* rest of the pass, the backoff of the instance and the delay before the  *)
(* next pass.  Instances are numbered in the order of the status sweep.    *)
(* Time is counted in intervals of the worker.  The names of the           *)
(* specification carry Pass: the module stands beside CertRenewal.         *)
(***************************************************************************)
EXTENDS Naturals, FiniteSets

CONSTANTS
  N,            \* running instances
  Fleets,       \* what their sidecars may be like: "ok", "blind" (no
                \* handshake) or "stuck" (takes no certificate)
  StreakAbort,  \* _BLIND_STREAK_ABORT
  Cap,          \* _BACKOFF_CAP_SECONDS, in intervals
  Budget,       \* mints the manager grants the node in an hour
  Parts,        \* short delays that make up one interval
  PassFaults,   \* subset of AllPassFaults
  MaxTroubles,  \* bound on faults, operator calls and restarts together
  MaxAges       \* bound on certificates that fall due again

AllPassFaults == {"busy", "flaky", "off", "auth", "operator", "restart"}

All == 0
Instances == 1 .. N

ASSUME PassConstants ==
  /\ Fleets \subseteq [Instances -> {"ok", "blind", "stuck"}]
  /\ N \in Nat \ {0} /\ StreakAbort \in Nat \ {0} /\ Cap \in Nat \ {0}
  /\ Budget \in Nat \ {0} /\ Parts \in Nat \ {0}
  /\ PassFaults \subseteq AllPassFaults /\ MaxTroubles \in Nat /\ MaxAges \in Nat


VARIABLES
  \* The instances.
  health,    \* of each sidecar, as in Fleets
  due,       \* instances whose certificate is to be renewed
  \* The process.
  holder,    \* of _pass_lock: "none", "worker" or "operator"
  at,        \* the instance whose turn it is
  only,      \* the one the operator selected, or All
  streak,    \* _blind_streak
  deferred,  \* a transient skip in this pass
  fails, wait, \* _renewal_backoff: failures, intervals until the deadline
  delay,     \* before the worker's next pass: "full", "hour", "soon"
  parts,     \* short delays since an interval was counted
  \* The manager.
  budget, auth, off,
  \* Bookkeeping.
  troubles, ages

bounds == <<troubles, ages>>
pass == <<holder, at, only, streak, deferred>>
backoffs == <<fails, wait>>
clock == <<delay, parts>>
grants == <<budget, auth, off>>
passVars == <<health, due, pass, backoffs, clock, grants, bounds>>

Trouble(f) == f \in PassFaults /\ troubles < MaxTroubles /\ troubles' = troubles + 1

Idle ==
  holder' = "none" /\ at' = 1 /\ only' = All /\ streak' = 0 /\ deferred' = FALSE

PassInit ==
  /\ health \in Fleets
  /\ due = Instances
  /\ holder = "none" /\ at = 1 /\ only = All /\ streak = 0 /\ deferred = FALSE
  /\ fails = [i \in Instances |-> 0] /\ wait = [i \in Instances |-> 0]
  /\ delay = "soon" /\ parts = 0
  /\ budget = Budget /\ auth = TRUE /\ off = FALSE
  /\ troubles = 0 /\ ages = 0

-----------------------------------------------------------------------------
(* The worker between passes, and the operator.                            *)

\* An interval, or one of the short delays that make one up.
Elapse(whole) ==
  /\ wait' = [i \in Instances |->
                IF wait[i] > 0 /\ (whole \/ parts + 1 = Parts)
                THEN wait[i] - 1 ELSE wait[i]]
  /\ parts' = IF whole THEN parts
              ELSE IF parts + 1 = Parts THEN 0 ELSE parts + 1

\* The worker's sleep ends and it starts a pass; the hourly budget is back
\* unless the sleep was a short one.
TickBegins ==
  /\ holder = "none"
  /\ Elapse(delay = "full")
  /\ budget' = IF delay = "soon" THEN budget ELSE Budget
  /\ delay' = "full"
  /\ holder' = "worker"
  /\ UNCHANGED <<health, due, at, only, streak, deferred, fails, auth, off,
                 bounds>>

\* RenewalAlreadyRunning: the operator holds the pass.
TickRefused ==
  /\ holder = "operator"
  /\ Elapse(delay = "full")
  /\ budget' = IF delay = "soon" THEN budget ELSE Budget
  /\ delay' = "soon"
  /\ UNCHANGED <<health, due, pass, fails, auth, off, bounds>>

\* renew_certs --force --instance i.
OperatorBegins(i) ==
  /\ holder = "none" /\ Trouble("operator")
  /\ holder' = "operator" /\ only' = i /\ at' = i
  /\ UNCHANGED <<health, due, streak, deferred, backoffs, clock, grants, ages>>

-----------------------------------------------------------------------------
(* One visit.                                                              *)

Turn(i) == holder # "none" /\ at = i
Forced(i) == only = i

\* The delay before the next tick, as the worker's handlers set it; the
\* operator's passes do not touch it.
NextDelay(d) == delay' = IF holder = "worker" THEN d ELSE delay

\* The pass ends here, with an exception or a break.
Breaks(d) == NextDelay(d) /\ Idle

\* The blind streak is judged after each visit.
StreakGoesOn(s, skip) ==
  LET last == at = N \/ only # All
      soon == deferred \/ skip
  IN  IF last \/ s >= StreakAbort
      THEN Breaks(IF soon THEN "soon" ELSE "full")
      ELSE /\ at' = at + 1 /\ streak' = s /\ deferred' = soon
           /\ UNCHANGED <<holder, only, delay>>

\* Mutant: the delay never grows past one interval.
BackoffDelayFlat(f) == 1

\* min(interval * 2^(failures - 1), cap), in intervals.
BackoffDelay(f) == IF 2 ^ (f - 1) < Cap THEN 2 ^ (f - 1) ELSE Cap

\* _note_failure; the count stops where the delay does.
NoteFailure(i) ==
  /\ fails' = [fails EXCEPT ![i] =
                 IF fails[i] > 0 /\ 2 ^ (fails[i] - 1) >= Cap
                 THEN fails[i] ELSE fails[i] + 1]
  /\ wait' = [wait EXCEPT ![i] = BackoffDelay(fails[i] + 1)]

ClearBackoff(i) ==
  /\ fails' = [fails EXCEPT ![i] = 0] /\ wait' = [wait EXCEPT ![i] = 0]

\* In its backoff window, and not forced.
InBackoff(i) ==
  /\ Turn(i) /\ wait[i] > 0 /\ ~Forced(i)
  /\ StreakGoesOn(streak, FALSE)
  /\ UNCHANGED <<health, due, backoffs, parts, grants, bounds>>

\* The instance lock, a compose child or a settling sidecar.
Busy(i) ==
  /\ Turn(i) /\ Trouble("busy")
  /\ StreakGoesOn(streak, TRUE)
  /\ UNCHANGED <<health, due, backoffs, parts, grants, ages>>

Gated(i) == Turn(i) /\ (wait[i] = 0 \/ Forced(i))
Probed(i) == IF health[i] = "blind" THEN streak + 1 ELSE 0

\* A readable certificate that is not due settles an old failure.
StillFresh(i) ==
  /\ Gated(i) /\ ~Forced(i) /\ health[i] # "blind" /\ i \notin due
  /\ ClearBackoff(i)
  /\ StreakGoesOn(Probed(i), FALSE)
  /\ UNCHANGED <<health, due, parts, grants, bounds>>

Asks(i) == Gated(i) /\ (Forced(i) \/ health[i] = "blind" \/ i \in due)

\* Granted, installed and served.
Renewed(i) ==
  /\ Asks(i) /\ auth /\ ~off /\ budget > 0 /\ health[i] = "ok"
  /\ budget' = budget - 1 /\ due' = due \ {i}
  /\ ClearBackoff(i)
  /\ StreakGoesOn(0, FALSE)
  /\ UNCHANGED <<health, parts, auth, off, bounds>>

\* Granted, and not served: the mint is spent all the same.
NotServed(i) ==
  /\ Asks(i) /\ auth /\ ~off /\ budget > 0 /\ health[i] # "ok"
  /\ budget' = budget - 1
  /\ NoteFailure(i)
  /\ StreakGoesOn(Probed(i), FALSE)
  /\ UNCHANGED <<health, due, parts, auth, off, bounds>>

\* Any other refusal, or an exception of the visit: an unreachable manager is
\* charged to the instance whose turn it is like a fault of its own.
VisitFails(i) ==
  /\ Asks(i) /\ Trouble("flaky")
  /\ NoteFailure(i)
  /\ StreakGoesOn(Probed(i), FALSE)
  /\ UNCHANGED <<health, due, parts, grants, ages>>

\* The manager's cap for the node: the others stay due for the next pass.
NodeCapped(i) ==
  /\ Asks(i) /\ auth /\ ~off /\ budget = 0
  /\ Breaks("hour")
  /\ UNCHANGED <<health, due, backoffs, parts, grants, bounds>>

\* 401 or 403: the node's token.
NodeAuthLost(i) ==
  /\ Asks(i) /\ ~auth
  /\ Breaks("soon")
  /\ UNCHANGED <<health, due, backoffs, parts, grants, bounds>>

\* 404 with an empty body: renewal is off fleet-wide.
RenewalUnavailable(i) ==
  /\ Asks(i) /\ auth /\ off
  /\ Breaks(IF deferred THEN "soon" ELSE "full")
  /\ UNCHANGED <<health, due, backoffs, parts, grants, bounds>>

-----------------------------------------------------------------------------
(* The environment.                                                        *)

\* A renewed certificate enters its renewal window again, weeks later.
FallsDue(i) ==
  /\ i \notin due /\ ages < MaxAges
  /\ due' = due \cup {i} /\ ages' = ages + 1
  /\ UNCHANGED <<health, pass, backoffs, clock, grants, troubles>>

TokenRotates ==
  /\ auth /\ Trouble("auth") /\ auth' = FALSE
  /\ UNCHANGED <<health, due, pass, backoffs, clock, budget, off, ages>>

\* The register worker has staged the new token.
Reregistered ==
  /\ ~auth /\ auth' = TRUE
  /\ UNCHANGED <<health, due, pass, backoffs, clock, budget, off, bounds>>

SwitchedOff ==
  /\ ~off /\ Trouble("off") /\ off' = TRUE
  /\ UNCHANGED <<health, due, pass, backoffs, clock, budget, auth, ages>>

SwitchedOn ==
  /\ off /\ off' = FALSE
  /\ UNCHANGED <<health, due, pass, backoffs, clock, budget, auth, bounds>>

\* The process restarts: _stop ends the pass between two instances, and the
\* first pass of the new one comes within minutes.
Restart ==
  /\ Trouble("restart") /\ Idle
  /\ fails' = [i \in Instances |-> 0] /\ wait' = [i \in Instances |-> 0]
  /\ delay' = "soon" /\ parts' = 0
  /\ UNCHANGED <<health, due, grants, ages>>

Visit(i) ==
  \/ InBackoff(i) \/ StillFresh(i) \/ Renewed(i) \/ NotServed(i)
  \/ NodeCapped(i) \/ NodeAuthLost(i) \/ RenewalUnavailable(i)

Pass == TickBegins \/ \E i \in Instances : Visit(i)

Environment ==
  \/ TokenRotates \/ Reregistered \/ SwitchedOff \/ SwitchedOn \/ Restart
  \/ \E i \in Instances : OperatorBegins(i) \/ FallsDue(i)
                          \/ Busy(i) \/ VisitFails(i)

PassNext == Pass \/ TickRefused \/ Environment

PassSpec == PassInit /\ [][PassNext]_passVars

\* The worker's loop goes on, a lost token is staged again and renewal is
\* switched on in the end.
FairPassSpec ==
  PassSpec /\ WF_passVars(Pass) /\ WF_passVars(Reregistered \/ SwitchedOn)

-----------------------------------------------------------------------------
(* Properties.                                                             *)

\* Blind sidecars too few to abort every pass: each is visited once in Cap
\* intervals, and StreakAbort of them end a pass before the instances after
\* them are reached.
FewBlind ==
  Cardinality({i \in Instances : health[i] = "blind"}) < StreakAbort * Cap

\* "One unreachable sidecar must not stop the others from renewing": whatever
\* the instances before it are like, however small the node's budget and
\* however passes are cut short, an instance that can be renewed is renewed.
\* The limit is sharp: with StreakAbort * Cap blind instances before it (twelve
\* at the defaults, three where the interval is the backoff's cap of a day)
\* every pass can end at the blind streak, and the instance expires.
DueRenewed ==
  FewBlind =>
    \A i \in Instances : health[i] = "ok" /\ i \in due ~> i \notin due
=============================================================================
