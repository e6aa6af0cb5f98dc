------------------------------ MODULE NodeLink ------------------------------
(***************************************************************************)
(* The workers that tie a node to its manager (app/workers): initial       *)
(* registration, the supervisor that registers again, heartbeat, monitor   *)
(* and watchdog, with the token on disk (app/token.py), the readiness they *)
(* are judged by and the restart of the process.  One instance; what       *)
(* get_status computes is InstanceStatus.  The manager is external: it     *)
(* keeps the token of the node's claim and answers 403 to any other.       *)
(***************************************************************************)
EXTENDS Naturals

CONSTANTS
  Tokens,       \* tokens that can be minted or staged
  NoToken,
  Pinned,       \* GREFFER_TOKEN, or NoToken
  Statuses,     \* what get_status may say of the instance
  Grace,        \* fatal probes in a row before the watchdog acts
  Faults,       \* "ephemeral", "rotate", "forget", "blip", "death", "kill"
  MaxTroubles,  \* bound on rotations, forgotten claims, docker outages,
                \* dead workers and killed processes together
  MaxChanges    \* bound on changes of the instance's status

ASSUME LinkConstants ==
  /\ NoToken \notin Tokens /\ Pinned \in Tokens \cup {NoToken}
  /\ Grace \in Nat /\ MaxTroubles \in Nat /\ MaxChanges \in Nat
  /\ Statuses \cap {"none", "unsure"} = {}

VARIABLES
  \* The manager.
  claim,       \* token of the claim, or NoToken
  accepted,    \* an admin has accepted the node
  told,        \* the status its callbacks have told it, "none", or "unsure"
               \* when the node has no answer to the last
  \* The host.
  onDisk,      \* .greffer-token, or NoToken
  docker,      \* the daemon answers
  status,      \* of the instance
  \* app.state of the process.
  token, registered, requested,
  pub,         \* status_map the monitor published
  dead,        \* long-lived workers whose task is done
  \* Each registration worker: its step, and the token it registers.
  pc, tok,
  hb,          \* the heartbeat's step
  mon, sweep,  \* the monitor: its step, and the map it collects
  mtok, prev,  \* the monitor's token of this tick; prev_status
  fatal,       \* fatal probes in a row
  \* Bookkeeping.
  troubles, changes

manager == <<claim, accepted, told>>
host == <<onDisk, docker, status>>
registration == <<registered, requested, pc, tok, token>>
monitor == <<mon, sweep, mtok, prev, pub>>
watch == <<dead, fatal>>
bounds == <<troubles, changes>>
vars == <<manager, host, registration, hb, monitor, watch, bounds>>

Workers == {"register", "reregister"}
InFlight == {"resolve", "post", "poll", "install"}

\* A status map: what it says of the instance, and whether the status is
\* still what it was at the map's captured_at.
Maps == [says: Statuses \cup {"none"}, same: BOOLEAN]
NoMap == [says |-> "none", same |-> FALSE]

Trouble(f) == f \in Faults /\ troubles < MaxTroubles /\ troubles' = troubles + 1

\* load_or_create_token and resolve_token at process start: mint and persist
\* on the first boot, or keep the minted one in memory when that fails.
ResolveToken(mem, file) ==
  IF Pinned # NoToken THEN mem = Pinned /\ file = onDisk
  ELSE IF onDisk # NoToken THEN mem = onDisk /\ file = onDisk
  ELSE /\ mem \in Tokens
       /\ file = mem \/ (file = NoToken /\ "ephemeral" \in Faults)

\* create_app and start_workers.
FreshProcess ==
  /\ \E mem \in Tokens, file \in Tokens \cup {NoToken} :
       /\ ResolveToken(mem, file)
       /\ token' = mem /\ onDisk' = file
  /\ registered' = FALSE /\ requested' = FALSE
  /\ pc' = [w \in Workers |-> IF w = "register" THEN "resolve" ELSE "wait"]
  /\ tok' = [w \in Workers |-> NoToken]
  /\ hb' = "gate"
  /\ mon' = "stamp" /\ sweep' = NoMap /\ mtok' = NoToken /\ prev' = "none"
  /\ pub' = NoMap
  /\ dead' = {} /\ fatal' = 0

Init ==
  /\ claim = NoToken /\ accepted = FALSE /\ told = "none"
  /\ docker = TRUE /\ status \in Statuses
  /\ onDisk \in Tokens \cup {NoToken}
  /\ token \in Tokens
  /\ token = IF Pinned # NoToken THEN Pinned
             ELSE IF onDisk # NoToken THEN onDisk ELSE token
  /\ onDisk = NoToken => Pinned # NoToken \/ "ephemeral" \in Faults
  /\ registered = FALSE /\ requested = FALSE
  /\ pc = [w \in Workers |-> IF w = "register" THEN "resolve" ELSE "wait"]
  /\ tok = [w \in Workers |-> NoToken]
  /\ hb = "gate"
  /\ mon = "stamp" /\ sweep = NoMap /\ mtok = NoToken /\ prev = "none"
  /\ pub = NoMap
  /\ dead = {} /\ fatal = 0
  /\ troubles = 0 /\ changes = 0

-----------------------------------------------------------------------------
(* register_worker and reregister_worker.                                  *)

Alive(w) == w \notin dead
Goto(w, l) == pc' = [pc EXCEPT ![w] = l]

\* The supervisor wakes on the heartbeat's request and takes it.
Wakes ==
  /\ Alive("reregister") /\ pc["reregister"] = "wait" /\ requested
  /\ requested' = FALSE
  /\ Goto("reregister", "resolve")
  /\ UNCHANGED <<manager, host, registered, tok, token, hb,
                 monitor, watch, bounds>>

\* _resolve_address: DNS may fail, and the flow is retried from here.
ResolveAddress(w) ==
  /\ Alive(w) /\ pc[w] = "resolve"
  /\ Goto(w, "post")
  /\ UNCHANGED <<manager, host, registered, requested, tok, token,
                 hb, monitor, watch, bounds>>

InflightToken ==
  IF Pinned # NoToken THEN Pinned
  ELSE IF onDisk # NoToken THEN onDisk ELSE token

\* What the manager takes for the same claimant.
Claims(t) == claim \in {NoToken, t}

\* _post_register: a 2xx stages the token, any other answer is a refusal.
Posted(t, heard) == claim' = IF heard /\ Claims(t) THEN t ELSE claim

\* _fetch_cert: 200 for the token the accepted greffer is claimed with.
CertIssued(t) == accepted /\ claim = t

\* Mutant: the token is resolved for the registration only.
PostRegisterLocal(w, heard, answered) ==
  /\ Alive(w) /\ pc[w] = "post"
  /\ Posted(InflightToken, heard)
  /\ IF heard /\ answered /\ Claims(InflightToken)
     THEN Goto(w, "poll") /\ tok' = [tok EXCEPT ![w] = InflightToken]
     ELSE UNCHANGED <<pc, tok>>
  /\ UNCHANGED <<accepted, told, host, registered, requested, token, hb,
                 monitor, watch, bounds>>

\* Phase 1 of _run_registration: the token is resolved again for each POST
\* and kept in app.state; a refusal or a lost answer is retried.
PostRegister(w, heard, answered) ==
  /\ Alive(w) /\ pc[w] = "post"
  /\ token' = InflightToken
  /\ Posted(InflightToken, heard)
  /\ IF heard /\ answered /\ Claims(InflightToken)
     THEN Goto(w, "poll") /\ tok' = [tok EXCEPT ![w] = InflightToken]
     ELSE UNCHANGED <<pc, tok>>
  /\ UNCHANGED <<accepted, told, host, registered, requested, hb, monitor,
                 watch, bounds>>

\* Mutant: the poll resolves the token again.
FetchCertFresh(w) ==
  /\ Alive(w) /\ pc[w] = "poll"
  /\ CertIssued(InflightToken)
  /\ Goto(w, "install") /\ tok' = [tok EXCEPT ![w] = NoToken]
  /\ UNCHANGED <<manager, host, registered, requested, token, hb, monitor,
                 watch, bounds>>

\* Phase 2: poll with the registered token until 200; 401 before acceptance,
\* 403 for another token and an unreachable manager are polled again.
FetchCert(w) ==
  /\ Alive(w) /\ pc[w] = "poll"
  /\ CertIssued(tok[w])
  /\ Goto(w, "install") /\ tok' = [tok EXCEPT ![w] = NoToken]
  /\ UNCHANGED <<manager, host, registered, requested, token, hb, monitor,
                 watch, bounds>>

\* Mutant: the supervisor goes back to waiting when an attempt fails.
InstallFailsOnce(w) ==
  /\ Alive(w) /\ pc[w] = "install" /\ ~docker
  /\ Goto(w, IF w = "register" THEN "resolve" ELSE "wait")
  /\ UNCHANGED <<manager, host, registered, requested, tok, token,
                 hb, monitor, watch, bounds>>

\* _install_cert copies into the nginx container and raises without docker;
\* both workers then retry the whole flow.
InstallFails(w) ==
  /\ Alive(w) /\ pc[w] = "install" /\ ~docker
  /\ Goto(w, "resolve")
  /\ UNCHANGED <<manager, host, registered, requested, tok, token,
                 hb, monitor, watch, bounds>>

\* The certificate is in place; tunnel configuration and CRL may fail.  The
\* one-shot worker ends, the supervisor waits for the next request.
Registered(w) ==
  /\ Alive(w) /\ pc[w] = "install" /\ docker
  /\ registered' = TRUE
  /\ Goto(w, IF w = "register" THEN "done" ELSE "wait")
  /\ UNCHANGED <<manager, host, requested, tok, token, hb, monitor,
                 watch, bounds>>

-----------------------------------------------------------------------------
(* heartbeat_worker.                                                       *)

Hb(l) == Alive("heartbeat") /\ hb = l

\* Mutant: a beat is sent before the node is accepted.
BeatBeginsUngated ==
  /\ Hb("gate") /\ hb' = "send"
  /\ UNCHANGED <<manager, host, registration, monitor, watch, bounds>>

\* The gate on registration.
BeatBegins ==
  /\ Hb("gate") /\ registered /\ hb' = "send"
  /\ UNCHANGED <<manager, host, registration, monitor, watch, bounds>>

\* _collect_or_reuse, the maps a beat may carry: the monitor's published sweep
\* while it is fresh, with its own capture time; one collected now; or none, in
\* a degraded beat.
BeatMaps ==
  {m \in {pub} : m # NoMap}
    \cup {IF docker THEN [says |-> status, same |-> TRUE] ELSE NoMap}

\* 403: pause until registered again, and ask for it.
BeatRejected ==
  /\ Hb("send") /\ claim # token
  /\ registered' = FALSE /\ requested' = TRUE
  /\ hb' = "gate"
  /\ UNCHANGED <<manager, host, pc, tok, token, monitor, watch,
                 bounds>>

\* 2xx, another refusal, or no answer: beat on.
BeatEnds ==
  /\ Hb("send")
  /\ hb' = "gate"
  /\ UNCHANGED <<manager, host, registration, monitor, watch, bounds>>

-----------------------------------------------------------------------------
(* monitor_worker.                                                         *)

Mon(l) == Alive("monitor") /\ mon = l

\* The token and captured_at of this tick, before the sweep.
TickBegins ==
  /\ Mon("stamp")
  /\ mtok' = token
  /\ sweep' = [says |-> "none", same |-> TRUE]
  /\ mon' = "collect"
  /\ UNCHANGED <<manager, host, registration, hb, prev, pub, watch, bounds>>

\* collect_status_map; an unchanged status is not reported, and the tick ends
\* with the map published for the heartbeat.
Collect ==
  /\ Mon("collect") /\ docker
  /\ LET map == [sweep EXCEPT !.says = status] IN
       IF prev = status
       THEN mon' = "stamp" /\ pub' = map /\ sweep' = NoMap /\ mtok' = NoToken
       ELSE mon' = "report" /\ sweep' = map /\ UNCHANGED <<pub, mtok>>
  /\ UNCHANGED <<manager, host, registration, hb, prev, watch, bounds>>

\* A failed collection invalidates the published map.
CollectFails ==
  /\ Mon("collect") /\ ~docker
  /\ pub' = NoMap /\ sweep' = NoMap /\ mtok' = NoToken
  /\ mon' = "stamp"
  /\ UNCHANGED <<manager, host, registration, hb, prev, watch, bounds>>

\* What the manager knows after a callback; a lost answer leaves the node
\* unsure of it.
Heard(heard, answered) ==
  IF heard /\ claim = mtok THEN (IF answered THEN sweep.says ELSE "unsure")
  ELSE told

\* Mutant: requests.post does not raise on a 403.
ReportStatusBlind(heard, answered) ==
  /\ Mon("report")
  /\ told' = Heard(heard, answered)
  /\ prev' = IF heard /\ answered THEN sweep.says ELSE prev
  /\ mon' = "stamp" /\ pub' = sweep /\ sweep' = NoMap /\ mtok' = NoToken
  /\ UNCHANGED <<claim, accepted, host, registration, hb, watch, bounds>>

\* Mutant: captured_at is taken when the map is published.
ReportStatusStamped(heard, answered) ==
  /\ Mon("report")
  /\ told' = Heard(heard, answered)
  /\ prev' = IF heard /\ answered /\ claim = mtok THEN sweep.says ELSE prev
  /\ mon' = "stamp" /\ sweep' = NoMap /\ mtok' = NoToken
  /\ pub' = [sweep EXCEPT !.same = TRUE]
  /\ UNCHANGED <<claim, accepted, host, registration, hb, watch, bounds>>

\* The callback: prev_status moves only with an answer below 400; then the
\* map is published with the tick's captured_at.
ReportStatus(heard, answered) ==
  /\ Mon("report")
  /\ told' = Heard(heard, answered)
  /\ prev' = IF heard /\ answered /\ claim = mtok THEN sweep.says ELSE prev
  /\ mon' = "stamp" /\ pub' = sweep /\ sweep' = NoMap /\ mtok' = NoToken
  /\ UNCHANGED <<claim, accepted, host, registration, hb, watch, bounds>>

-----------------------------------------------------------------------------
(* readiness.py and watchdog_worker.                                       *)

\* Mutant: the supervisor idles, so its task is left out.
IsFatalShort == ~docker \/ dead \cap {"monitor", "heartbeat"} # {}

\* The daemon does not answer, or a long-lived worker's task is done.
IsFatal == ~docker \/ dead # {}

\* A probe that is not fatal clears the grace clock.
Probe ==
  /\ ~IsFatal \/ fatal < Grace
  /\ fatal' = IF IsFatal THEN fatal + 1 ELSE 0
  /\ UNCHANGED <<manager, host, registration, hb, monitor, dead, bounds>>

\* SIGTERM to the process itself; the restart policy starts a new one.
Terminate ==
  /\ IsFatal /\ fatal = Grace
  /\ FreshProcess
  /\ UNCHANGED <<manager, docker, status, bounds>>

-----------------------------------------------------------------------------
(* The environment.                                                        *)

Accept ==
  /\ ~accepted /\ claim # NoToken
  /\ accepted' = TRUE
  /\ UNCHANGED <<claim, told, host, registration, hb, monitor, watch,
                 bounds>>

\* An operator resets a claim that keeps the node out (409).
ResetClaim ==
  /\ \E w \in Workers : Alive(w) /\ pc[w] = "post"
  /\ ~Claims(InflightToken)
  /\ claim' = NoToken
  /\ UNCHANGED <<accepted, told, host, registration, hb, monitor, watch,
                 bounds>>

\* The manager loses the claim (a restored database, a reset), at any time.
Forget ==
  /\ Trouble("forget")
  /\ claim' = NoToken
  /\ UNCHANGED <<accepted, told, host, registration, hb, monitor, watch,
                 changes>>

\* An operator replaces the token file.
Rotate ==
  /\ Trouble("rotate")
  /\ \E t \in Tokens : t # onDisk /\ onDisk' = t
  /\ UNCHANGED <<manager, docker, status, registration, hb, monitor, watch,
                 changes>>

DockerFails ==
  /\ docker /\ Trouble("blip")
  /\ docker' = FALSE
  /\ UNCHANGED <<manager, onDisk, status, registration, hb, monitor, watch,
                 changes>>

DockerReturns ==
  /\ ~docker /\ docker' = TRUE
  /\ UNCHANGED <<manager, onDisk, status, registration, hb, monitor, watch,
                 bounds>>

WorkerDies(w) ==
  /\ w \notin dead /\ Trouble("death")
  /\ dead' = dead \cup {w}
  /\ UNCHANGED <<manager, host, registration, hb, monitor, fatal, changes>>

Killed ==
  /\ Trouble("kill") /\ FreshProcess
  /\ UNCHANGED <<manager, docker, status, changes>>

InstanceMoves ==
  /\ changes < MaxChanges /\ changes' = changes + 1
  /\ \E s \in Statuses \ {status} : status' = s
  /\ sweep' = [sweep EXCEPT !.same = FALSE]
  /\ pub' = [pub EXCEPT !.same = FALSE]
  /\ UNCHANGED <<manager, onDisk, docker, registration, hb, mon, mtok, prev,
                 watch, troubles>>

Registering(w) ==
  \/ ResolveAddress(w) \/ FetchCert(w) \/ InstallFails(w) \/ Registered(w)
  \/ \E heard, answered \in BOOLEAN : PostRegister(w, heard, answered)

Heartbeat == BeatBegins \/ BeatRejected \/ BeatEnds

Monitor ==
  \/ TickBegins \/ Collect \/ CollectFails
  \/ \E heard, answered \in BOOLEAN : ReportStatus(heard, answered)

Environment ==
  \/ Accept \/ ResetClaim \/ Forget \/ Rotate \/ DockerFails \/ DockerReturns
  \/ Killed \/ InstanceMoves
  \/ \E w \in {"monitor", "heartbeat", "reregister"} : WorkerDies(w)

Next ==
  \/ Wakes \/ \E w \in Workers : Registering(w)
  \/ Heartbeat \/ Monitor \/ Probe \/ Terminate \/ Environment

Spec == Init /\ [][Next]_vars

\* A registration attempt whose POST is answered.
Registers(w) ==
  \/ ResolveAddress(w) \/ PostRegister(w, TRUE, TRUE) \/ FetchCert(w)
  \/ InstallFails(w) \/ Registered(w)

\* The event loop runs every worker, admin, operator and host act in the end,
\* and of infinitely many beats or callbacks some get their answer.
Fairness ==
  /\ WF_vars(Accept \/ ResetClaim) /\ WF_vars(DockerReturns)
  /\ WF_vars(Registers("register"))
  /\ WF_vars(Wakes \/ Registers("reregister"))
  /\ WF_vars(Probe \/ Terminate)
  /\ WF_vars(Heartbeat) /\ SF_vars(BeatRejected)
  /\ WF_vars(Monitor) /\ SF_vars(ReportStatus(TRUE, TRUE))

FairSpec == Spec /\ Fairness

-----------------------------------------------------------------------------
(* Properties.                                                             *)

\* Types of the variables.
TypeOK ==
  /\ claim \in Tokens \cup {NoToken} /\ accepted \in BOOLEAN
  /\ told \in Statuses \cup {"none", "unsure"} /\ status \in Statuses
  /\ onDisk \in Tokens \cup {NoToken} /\ docker \in BOOLEAN
  /\ token \in Tokens /\ registered \in BOOLEAN /\ requested \in BOOLEAN
  /\ dead \subseteq {"monitor", "heartbeat", "reregister"}
  /\ pc \in [Workers -> InFlight \cup {"wait", "done"}]
  /\ tok \in [Workers -> Tokens \cup {NoToken}]
  /\ hb \in {"gate", "send"}
  /\ mon \in {"stamp", "collect", "report"} /\ sweep \in Maps
  /\ pub \in Maps /\ mtok \in Tokens \cup {NoToken}
  /\ prev \in Statuses \cup {"none"}
  /\ fatal \in 0..Grace
  /\ troubles \in Nat /\ changes \in Nat

\* A paused heartbeat is never parked for good: a registration is under way
\* or asked for, unless the supervisor's task is gone.
ParkedHasWaker ==
  ~registered =>
    \/ requested \/ "reregister" \in dead
    \/ \E w \in Workers : pc[w] \in InFlight

\* The two workers never register at the same time, and none does while the
\* node counts as registered.
OneRegistration ==
  \A w \in Workers : pc[w] \in InFlight =>
    ~registered /\ \A x \in Workers \ {w} : pc[x] \notin InFlight

\* "Keep app.state in sync so the heartbeat worker beats with the same token":
\* a registered node beats with the token of its claim until the manager
\* forgets that claim, rotations, ephemeral tokens and restarts included.
BeatsWithStaged == registered => claim \in {token, NoToken}

\* "captured_at <= the actual collection time": if the instance has not moved
\* since the capture time of the map in a beat, the map says what its status
\* is, one that the monitor collected and published before included.
CapturedAtIsHonest ==
  hb = "send" => \A m \in BeatMaps : m.same => m.says = status

\* A registration polls for the certificate of a claim that is gone.  The poll
\* has no way back to the POST: 403 "will not self-resolve by polling".
Orphaned == \E w \in Workers : pc[w] = "poll" /\ claim # tok[w]

\* Whatever is refused, rotated, forgotten, lost or killed, the node is
\* registered again, or it is stuck in a poll whose claim the manager forgot
\* after the POST: of all troubles only that one keeps it out for good.
RegistersAgain == []<>(registered \/ Orphaned)

\* A status change is delivered although callbacks are lost, or refused with
\* the token of a claim that is gone: once the instance rests, the manager
\* has been told.  Where only the answer was lost, prev_status still holds the
\* status before, and an instance that goes back to it is not reported again:
\* the manager may then keep the transient status until a heartbeat's map.
\* A node stuck in an orphaned poll has no token the manager accepts.
StatusDelivered == <>[](told \in {status, "unsure"} \/ Orphaned)

\* A long-lived worker that died is brought back by the watchdog.
DeadWorkerHealed == dead # {} ~> dead = {}
=============================================================================
