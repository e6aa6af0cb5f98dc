----------------------------- MODULE SelfUpdate -----------------------------
(***************************************************************************)
(* The two ways a greffer node is updated: the in-container remote updater *)
(* the manager triggers (cli/greffer_cli/updater, spawned by              *)
(* apps/utils/docker/updater.py) and the host command `greffer update`     *)
(* (cli/greffer_cli/update.py).  They share the containers of the node,    *)
(* the local `:latest` tags, the compose file and the update lock.         *)
(*                                                                         *)
(* An image is its version, a service is its place in RECREATE_ORDER, and  *)
(* the image lines of the compose file, which are only ever rewritten      *)
(* together, are one pin.  Health is a choice: a gate may fail on any      *)
(* stack and pass on any stack that meets its conditions.  `:previous` is  *)
(* written by the updater and read by no code, and the dangling prune      *)
(* removes what no tag and no container names: neither is kept.            *)
(***************************************************************************)
EXTENDS Integers, FiniteSets, FiniteSetsExt

CONSTANTS
  Remotes,      \* remote updates, each one started at most once
  Hosts,        \* runs of `greffer update`, each one started at most once
  NoRun,        \* the holder of a free lock
  NumServices,  \* services of the node, in the order they are recreated
  Greffer,      \* the place of the greffer among them
  NumVersions,  \* released versions
  RemoteTargets, HostTargets,  \* what may be asked for
  InitPins,     \* what the compose file may name at first
  InitStacks,   \* the services that may have a container at first
  Faults        \* what the environment may do wrong

Runs == Remotes \cup Hosts
Services == 1..NumServices
Versions == 1..NumVersions
Latest == 0     \* the tag
Gone == 0       \* the image of a service that has no container
Unknown == 0    \* a version that could not be read

UpdateFaults == {"docker", "tag", "timeout", "raise", "exec", "mountpoint",
                 "signal", "kill"}

ASSUME UpdateAssumption ==
  /\ Remotes \cap Hosts = {}
  /\ NoRun \notin Runs
  /\ NumServices \in Nat /\ NumVersions \in Nat
  /\ Greffer \in Services
  /\ RemoteTargets \cup HostTargets \subseteq Versions \cup {Latest}
  /\ InitPins \subseteq {Latest, 1}
  /\ InitStacks \subseteq {S \in SUBSET Services : Greffer \in S}
  /\ 1 \in Versions
  /\ Faults \subseteq UpdateFaults

VARIABLES
  \* The host.
  image,      \* version each service's container was created from
  up,         \* whether it runs
  made,       \* the compose labels on it: the tag and image of the
              \* `docker compose up` that made it, carried by a recreate
  latest,     \* what <repo>:latest names locally
  pin,        \* the tag in the compose file
  lock,       \* holders of the two places .update.lock can be
  \* Each run.
  pc,
  target,     \* the tag it was asked for
  auto,       \* nobody named that tag: a downgrade is refused
  seen,       \* the running version it knows of
  old,        \* images of the stack it found
  verified,   \* digest of each service, verified and pulled
  todo,       \* services still to be recreated
  done,       \* services to be taken back on a failure
  sound,      \* no step of the rollback has failed
  oldPin,     \* old_refs
  result,
  \* Bookkeeping of the model.
  was,        \* version running when the run took the lock
  accepted,   \* per service, images that have passed a gate or that an
              \* update found in place
  blind,      \* runs that decided on a version read that failed
  overlap,    \* two updates have been at work, one at each lock
  strayTags,  \* services whose :latest a run has left where it put it
  strayPin    \* a run has left its own pin in the compose file

node == <<image, up, made, latest, pin>>
remoteLocals == <<verified, todo, done, sound>>
locals == <<target, auto, seen, old, remoteLocals, oldPin>>
lapses == <<blind, overlap, strayTags, strayPin>>
vars == <<node, lock, pc, locals, result, was, accepted, lapses>>

Fault(f) == f \in Faults
Goto(r, l) == pc' = [pc EXCEPT ![r] = l]

\* What `docker compose up` would create service s from.
Resolves(p, s) == IF p = Latest THEN latest[s] ELSE p

RunningVersion == IF up[Greffer] THEN image[Greffer] ELSE Unknown

\* exec_version, exec_greffer_version: asked of the greffer in its container.
\* A docker exec that fails or times out is a version nobody knows.
VersionRead == {RunningVersion} \cup (IF Fault("exec") THEN {Unknown} ELSE {})

\* is_downgrade: None, and so no downgrade, unless both can be ordered.
IsDowngrade(new, cur) == new # Latest /\ cur # Unknown /\ new < cur

Init ==
  /\ \E S \in InitStacks :
       /\ image = [s \in Services |-> IF s \in S THEN 1 ELSE Gone]
       /\ up = [s \in Services |-> s \in S]
  /\ latest = [s \in Services |-> 1]
  /\ pin \in InitPins
  /\ made = [s \in Services |-> <<pin, 1>>]
  /\ lock = [data |-> NoRun, cfg |-> NoRun]
  /\ pc = [r \in Runs |-> "idle"]
  /\ target = [r \in Runs |-> Latest]
  /\ auto = [r \in Runs |-> TRUE]
  /\ seen = [r \in Runs |-> Unknown]
  /\ old = [r \in Runs |-> [s \in Services |-> Gone]]
  /\ verified = [r \in Runs |-> [s \in Services |-> 1]]
  /\ todo = [r \in Runs |-> {}]
  /\ done = [r \in Runs |-> {}]
  /\ sound = [r \in Runs |-> TRUE]
  /\ oldPin = [r \in Runs |-> Latest]
  /\ result = [r \in Runs |-> "none"]
  /\ was = [r \in Runs |-> Unknown]
  /\ accepted = [s \in Services |-> {1}]
  /\ blind = {} /\ overlap = FALSE
  /\ strayTags = {} /\ strayPin = FALSE

\* A run returns: its exit code, then the finally that closes the lock file.
Returns(r, code) == result' = [result EXCEPT ![r] = code] /\ Goto(r, "unlock")

Unlocked(r) ==
  [k \in {"data", "cfg"} |-> IF lock[k] = r THEN NoRun ELSE lock[k]]

\* A run is over, and with it what it kept: its lock file is closed.
Forgets(r) ==
  /\ Goto(r, "ended")
  /\ target' = [target EXCEPT ![r] = Latest]
  /\ auto' = [auto EXCEPT ![r] = TRUE]
  /\ seen' = [seen EXCEPT ![r] = Unknown]
  /\ old' = [old EXCEPT ![r] = [s \in Services |-> Gone]]
  /\ verified' = [verified EXCEPT ![r] = [s \in Services |-> 1]]
  /\ todo' = [todo EXCEPT ![r] = {}]
  /\ done' = [done EXCEPT ![r] = {}]
  /\ sound' = [sound EXCEPT ![r] = TRUE]
  /\ oldPin' = [oldPin EXCEPT ![r] = Latest]
  /\ was' = [was EXCEPT ![r] = Unknown]

Ends(r) == Forgets(r) /\ lock' = Unlocked(r)

\* It returns before it has a lock.
Refuses(r) == result' = [result EXCEPT ![r] = "refused"] /\ Ends(r)

\* Mutant: a refusal under the lock keeps it.
UnlockUnlessRefused(r) ==
  /\ pc[r] = "unlock"
  /\ lock' = IF result[r] = "refused" THEN lock ELSE Unlocked(r)
  /\ Forgets(r)
  /\ UNCHANGED <<node, result, accepted, lapses>>

Unlock(r) ==
  /\ pc[r] = "unlock"
  /\ Ends(r)
  /\ UNCHANGED <<node, result, accepted, lapses>>

Take(r, k) ==
  /\ lock[k] = NoRun
  /\ lock' = [lock EXCEPT ![k] = r]
  /\ was' = [was EXCEPT ![r] = RunningVersion]
  /\ accepted' = [s \in Services |-> accepted[s] \cup ({image[s]} \ {Gone})]
  /\ overlap' = (overlap \/ \E j \in {"data", "cfg"} : lock[j] # NoRun)
  /\ UNCHANGED <<blind, strayTags, strayPin>>

(***************************************************************************)
(* The remote updater.                                                     *)
(***************************************************************************)

\* remote_update of a greffer that answers: the probe finds the lock free and
\* the updater is spawned.  A refused request changes nothing.
SpawnUpdater(r, v) ==
  /\ pc[r] = "idle" /\ v \in RemoteTargets
  /\ up[Greffer]
  /\ lock["data"] = NoRun
  /\ target' = [target EXCEPT ![r] = v]
  /\ Goto(r, "r_lock")
  /\ UNCHANGED <<node, lock, auto, seen, old, remoteLocals, oldPin, result,
                 was, accepted, lapses>>

\* acquire_lock: the retries outlast a probe, not another update.
RemoteLocks(r) ==
  /\ pc[r] = "r_lock"
  /\ Take(r, "data")
  /\ Goto(r, "r_discover")
  /\ UNCHANGED <<node, locals, result>>

RemoteTurnedAway(r) ==
  /\ pc[r] = "r_lock" /\ lock["data"] # NoRun
  /\ Refuses(r)
  /\ UNCHANGED <<node, accepted, lapses>>

\* discover_stack, the running version and the refusal before any pull.  A
\* stack without a greffer, or one docker does not list, is refused.
RemoteDiscovers(r) ==
  /\ pc[r] = "r_discover"
  /\ old' = [old EXCEPT ![r] = image]
  /\ \E v \in VersionRead :
       /\ seen' = [seen EXCEPT ![r] = v]
       /\ blind' = IF v = RunningVersion THEN blind ELSE blind \cup {r}
       /\ \/ /\ image[Greffer] # Gone
             /\ ~IsDowngrade(target[r], v)
             /\ Goto(r, "r_verify")
             /\ UNCHANGED result
          \/ Returns(r, "refused")
  /\ UNCHANGED <<node, lock, target, auto, remoteLocals, oldPin, was, accepted,
                 overlap, strayTags, strayPin>>

\* Phase 1: every image of the stack resolved, verified and pulled, or none
\* is used.  `latest` can move, or be set back, between two releases.
RemoteVerifies(r) ==
  /\ pc[r] = "r_verify"
  /\ \/ /\ \E d \in [Services -> Versions] :
             /\ target[r] # Latest => \A s \in Services : d[s] = target[r]
             /\ verified' = [verified EXCEPT ![r] = d]
        /\ Goto(r, "r_snap")
        /\ UNCHANGED result
     \/ Returns(r, "refused") /\ UNCHANGED verified
  /\ UNCHANGED <<node, lock, target, auto, seen, old, todo, done, sound,
                 oldPin, was, accepted, lapses>>

\* Phase 2a: every container inspected by the id it was discovered under.
RemoteSnapshots(r) ==
  /\ pc[r] = "r_snap"
  /\ \/ /\ image = old[r]
        /\ todo' = [todo EXCEPT ![r] = {s \in Services : image[s] # Gone}]
        /\ Goto(r, "r_tag")
        /\ UNCHANGED result
     \/ Returns(r, "refused") /\ UNCHANGED todo
  /\ UNCHANGED <<node, lock, target, auto, seen, old, verified, done, sound,
                 oldPin, was, accepted, lapses>>

\* retag_latest.  A failure leaves the service out of done; after a timeout
\* the daemon may have moved the tag all the same.
RemoteTags(r) ==
  LET s == Min(todo[r])
      moved == [latest EXCEPT ![s] = verified[r][s]] IN
  /\ pc[r] = "r_tag" /\ todo[r] # {}
  /\ \/ latest' = moved /\ Goto(r, "r_recreate") /\ UNCHANGED strayTags
     \/ latest' = latest /\ Goto(r, "r_rollback") /\ UNCHANGED strayTags
     \/ /\ Fault("timeout")
        /\ latest' = moved /\ Goto(r, "r_rollback")
        /\ strayTags' = strayTags \cup {s}
  /\ UNCHANGED <<image, up, made, pin, lock, locals, result, was, accepted,
                 blind, overlap, strayPin>>

\* _do_recreate: stop, rm, create, start, and where it can break off.  A
\* failure is recorded in done, a raise goes past the line that does so.
Recreated(s, v) ==
  /\ image' = [image EXCEPT ![s] = v]
  /\ up' = [up EXCEPT ![s] = TRUE]

BreaksOff(s, v) ==
  /\ \E i \in {image[s], Gone, v} : image' = [image EXCEPT ![s] = i]
  /\ up' = [up EXCEPT ![s] = FALSE]

RemoteRecreates(r) ==
  LET s == Min(todo[r]) IN
  /\ pc[r] = "r_recreate"
  /\ todo' = [todo EXCEPT ![r] = @ \ {s}]
  /\ \/ /\ Recreated(s, latest[s])
        /\ done' = [done EXCEPT ![r] = @ \cup {s}]
        /\ Goto(r, "r_tag")
        /\ UNCHANGED strayTags
     \/ /\ Fault("docker")
        /\ BreaksOff(s, latest[s])
        /\ \/ /\ done' = [done EXCEPT ![r] = @ \cup {s}]
              /\ UNCHANGED strayTags
           \/ /\ Fault("raise")
              /\ UNCHANGED done
              /\ strayTags' = strayTags \cup {s}
        /\ Goto(r, "r_rollback")
  /\ UNCHANGED <<made, latest, pin, lock, target, auto, seen, old, verified,
                 sound, oldPin, result, was, accepted, blind, overlap,
                 strayPin>>

Stack(r) == {s \in Services : old[r][s] # Gone}

\* Phase 3: ready, every container on the image that was verified and
\* running, and the greffer's version not below the one before.
RemoteGates(r) ==
  /\ pc[r] = "r_tag" /\ todo[r] = {}
  /\ \/ /\ \A s \in Stack(r) : image[s] = verified[r][s] /\ up[s]
        /\ \E v \in VersionRead :
             /\ ~IsDowngrade(v, seen[r])
             /\ blind' = IF v = RunningVersion \/ target[r] # Latest
                         THEN blind ELSE blind \cup {r}
        /\ accepted' = [s \in Services |->
                          IF s \in Stack(r) THEN accepted[s] \cup {image[s]}
                                            ELSE accepted[s]]
        /\ Returns(r, "ok")
     \/ Goto(r, "r_rollback") /\ UNCHANGED <<accepted, result, blind>>
  /\ UNCHANGED <<node, lock, locals, was, overlap, strayTags, strayPin>>

\* Mutant: from :latest, before it is restored.
RemoteRollsBackToLatest(r) ==
  LET s == Max(done[r]) IN
  /\ pc[r] = "r_rollback" /\ done[r] # {}
  /\ done' = [done EXCEPT ![r] = @ \ {s}]
  /\ Recreated(s, latest[s])
  /\ latest' = [latest EXCEPT ![s] = old[r][s]]
  /\ UNCHANGED <<made, pin, lock, pc, target, auto, seen, old, verified, todo,
                 sound, oldPin, result, was, accepted, lapses>>

\* One container of _rollback, last recreated first: the old image, then
\* restore_latest, whose failure is only logged.
RemoteRollsBackOne(r) ==
  LET s == Max(done[r]) IN
  /\ pc[r] = "r_rollback" /\ done[r] # {}
  /\ done' = [done EXCEPT ![r] = @ \ {s}]
  /\ \/ Recreated(s, old[r][s]) /\ UNCHANGED sound
     \/ /\ Fault("docker")
        /\ BreaksOff(s, old[r][s])
        /\ sound' = [sound EXCEPT ![r] = FALSE]
  /\ \/ latest' = [latest EXCEPT ![s] = old[r][s]] /\ UNCHANGED strayTags
     \/ /\ Fault("tag")
        /\ UNCHANGED latest
        /\ strayTags' = strayTags \cup {s}
  /\ UNCHANGED <<made, pin, lock, pc, target, auto, seen, old, verified, todo,
                 oldPin, result, was, accepted, blind, overlap, strayPin>>

\* The gate of the rollback: no version, but everything running.
RemoteRegates(r) ==
  /\ pc[r] = "r_rollback" /\ done[r] = {}
  /\ \/ /\ sound[r] /\ \A s \in Stack(r) : up[s]
        /\ Returns(r, "rolled_back")
     \/ Returns(r, "rollback_failed")
  /\ UNCHANGED <<node, lock, locals, was, accepted, lapses>>

Untouched == {"r_lock", "r_discover", "r_verify", "r_snap"}
Mutating == {"r_tag", "r_recreate", "r_rollback"}

\* Services whose :latest is the one being tried.
Tried(r) == done[r] \cup (IF pc[r] = "r_recreate" THEN {Min(todo[r])} ELSE {})

\* The updater container is killed: nothing of it runs again.
RemoteKilled(r) ==
  /\ Fault("signal")
  /\ pc[r] \in Untouched \cup (IF Fault("kill") THEN Mutating ELSE {})
  /\ strayTags' = strayTags \cup Tried(r)
  /\ result' = [result EXCEPT ![r] = "killed"]
  /\ Ends(r)
  /\ UNCHANGED <<node, accepted, blind, overlap, strayPin>>

RemoteStep(r) ==
  \/ RemoteLocks(r) \/ RemoteTurnedAway(r) \/ RemoteDiscovers(r)
  \/ RemoteVerifies(r) \/ RemoteSnapshots(r) \/ RemoteTags(r)
  \/ RemoteRecreates(r) \/ RemoteGates(r) \/ RemoteRollsBackOne(r)
  \/ RemoteRegates(r)

(***************************************************************************)
(* greffer update.                                                         *)
(***************************************************************************)

\* Target, running version and the refusals, all without a lock.  The floor,
\* the no-rollback pairs and the other preflight checks are one refusal.
HostResolves(h, v, a) ==
  /\ pc[h] = "idle" /\ v \in HostTargets
  /\ \/ \E c \in VersionRead :
          /\ ~(a /\ IsDowngrade(v, c))
          /\ target' = [target EXCEPT ![h] = v]
          /\ auto' = [auto EXCEPT ![h] = a]
          /\ seen' = [seen EXCEPT ![h] = c]
          /\ Goto(h, "h_same")
          /\ UNCHANGED <<lock, old, remoteLocals, oldPin, result, was>>
     \/ Refuses(h)
  /\ UNCHANGED <<node, accepted, lapses>>

\* "Already on the target": the running image is the one the local tag
\* names, if there is such a tag.
HostFindsSame(h) ==
  /\ pc[h] = "h_same"
  /\ \/ /\ image[Greffer] = Resolves(target[h], Greffer)
        /\ result' = [result EXCEPT ![h] = "same"]
        /\ Ends(h)
     \/ Goto(h, "h_lock") /\ UNCHANGED <<lock, locals, result, was>>
  /\ UNCHANGED <<node, accepted, lapses>>

\* _acquire_update_lock: in the /data volume, or next to the compose file
\* when the volume's mountpoint cannot be resolved.
LockPlaces == {"data"} \cup (IF Fault("mountpoint") THEN {"cfg"} ELSE {})

HostLocks(h) ==
  /\ pc[h] = "h_lock"
  /\ \E k \in LockPlaces : Take(h, k)
  /\ old' = [old EXCEPT ![h] = image]
  /\ Goto(h, "h_check")
  /\ UNCHANGED <<node, target, auto, seen, remoteLocals, oldPin, result>>

HostTurnedAway(h) ==
  /\ pc[h] = "h_lock"
  /\ \E k \in LockPlaces : lock[k] # NoRun
  /\ Refuses(h)
  /\ UNCHANGED <<node, accepted, lapses>>

\* Mutant: the decision taken before the lock stands.
HostTrustsFirstRead(h) ==
  /\ pc[h] = "h_check"
  /\ Goto(h, "h_pin")
  /\ UNCHANGED <<node, lock, locals, result, was, accepted, lapses>>

\* The version again, under the lock; a changed one is decided on again.
HostRechecks(h) ==
  /\ pc[h] = "h_check"
  /\ \E v \in VersionRead :
       /\ seen' = [seen EXCEPT ![h] = v]
       /\ blind' = IF v = RunningVersion THEN blind ELSE blind \cup {h}
       /\ \/ /\ v # seen[h] => ~(auto[h] /\ IsDowngrade(target[h], v))
             /\ Goto(h, "h_pin")
             /\ UNCHANGED result
          \/ v # seen[h] /\ Returns(h, "refused")
  /\ UNCHANGED <<node, lock, target, auto, old, remoteLocals, oldPin, was,
                 accepted, overlap, strayTags, strayPin>>

\* set_image_tag returns the refs it replaced.
HostPins(h) ==
  /\ pc[h] = "h_pin"
  /\ oldPin' = [oldPin EXCEPT ![h] = pin]
  /\ pin' = target[h]
  /\ Goto(h, "h_arm")
  /\ UNCHANGED <<image, up, made, latest, lock, target, auto, seen, old,
                 remoteLocals, result, was, accepted, lapses>>

\* _install_sigterm_handler and the entry of the try.
HostArms(h) ==
  /\ pc[h] = "h_arm"
  /\ Goto(h, "h_pull")
  /\ UNCHANGED <<node, lock, locals, result, was, accepted, lapses>>

\* compose_pull of every service: only the tag `latest` moves by it.  A
\* failure may come after some of them.
HostPulls(h) ==
  /\ pc[h] = "h_pull"
  /\ IF target[h] = Latest
     THEN \E d \in [Services -> Versions] : latest' = d
     ELSE UNCHANGED latest
  /\ \/ Goto(h, "h_up") /\ UNCHANGED result
     \/ result' = [result EXCEPT ![h] = "rolled_back"] /\ Goto(h, "h_disarm")
  /\ UNCHANGED <<image, up, made, pin, lock, locals, was, accepted, lapses>>

\* `docker compose up -d` against the file, all of it or part of the way.  A
\* container whose labels match the file is started and otherwise left alone.
UpToDate(s) == image[s] # Gone /\ made[s] = <<pin, Resolves(pin, s)>>

Composed(S) ==
  /\ image' = [s \in Services |->
                IF s \in S /\ ~UpToDate(s) THEN Resolves(pin, s) ELSE image[s]]
  /\ made' = [s \in Services |->
               IF s \in S THEN <<pin, Resolves(pin, s)>> ELSE made[s]]

ComposeUp ==
  /\ Composed(Services)
  /\ up' = [s \in Services |-> TRUE]

ComposeBreaksOff ==
  \E S \in SUBSET Services :
    /\ Composed(S)
    /\ up' = [s \in Services |-> up[s] /\ s \notin S]

HostUps(h) ==
  /\ pc[h] = "h_up"
  /\ \/ ComposeUp /\ Goto(h, "h_gate")
     \/ Fault("docker") /\ ComposeBreaksOff /\ Goto(h, "h_restore")
  /\ UNCHANGED <<latest, pin, lock, locals, result, was, accepted, lapses>>

\* Ready, the greffer on the target's image, every service running.
HostGates(h) ==
  /\ pc[h] = "h_gate"
  /\ \/ /\ image[Greffer] = Resolves(target[h], Greffer)
        /\ \A s \in Services : up[s]
        /\ accepted' = [s \in Services |-> accepted[s] \cup {image[s]}]
        /\ result' = [result EXCEPT ![h] = "ok"]
        /\ Goto(h, "h_disarm")
     \/ Goto(h, "h_restore") /\ UNCHANGED <<accepted, result>>
  /\ UNCHANGED <<node, lock, locals, was, lapses>>

\* Mutant: the refs are left to the finally, after the `up`.
HostRestoresLater(h) ==
  /\ pc[h] = "h_restore"
  /\ Goto(h, "h_reup")
  /\ UNCHANGED <<node, lock, locals, result, was, accepted, lapses>>

\* _rollback: the old refs, and up again without a pull.
HostRestores(h) ==
  /\ pc[h] = "h_restore"
  /\ pin' = oldPin[h]
  /\ Goto(h, "h_reup")
  /\ UNCHANGED <<image, up, made, latest, lock, locals, result, was, accepted,
                 lapses>>

HostReups(h) ==
  /\ pc[h] = "h_reup"
  /\ \/ /\ ComposeUp
        /\ \E c \in {"rolled_back", "rollback_failed"} :
             result' = [result EXCEPT ![h] = c]
     \/ /\ Fault("docker")
        /\ ComposeBreaksOff
        /\ result' = [result EXCEPT ![h] = "rollback_failed"]
  /\ Goto(h, "h_disarm")
  /\ UNCHANGED <<latest, pin, lock, locals, was, accepted, lapses>>

\* Mutant: the finally does nothing.
HostKeepsPin(h) ==
  /\ pc[h] = "h_disarm"
  /\ Goto(h, "unlock")
  /\ UNCHANGED <<node, lock, locals, result, was, accepted, lapses>>

\* What `--to latest` has pulled is not taken back: the tags of every service.
LeftPulled(h) == IF target[h] = Latest /\ result[h] # "ok" THEN Services ELSE {}

\* _disarm, in the finally: unless the gate has passed.
HostDisarms(h) ==
  /\ pc[h] = "h_disarm"
  /\ pin' = IF result[h] = "ok" THEN pin ELSE oldPin[h]
  /\ strayTags' = strayTags \cup LeftPulled(h)
  /\ Goto(h, "unlock")
  /\ UNCHANGED <<image, up, made, latest, lock, locals, result, was, accepted,
                 blind, overlap, strayPin>>

Armed == {"h_pull", "h_up", "h_gate", "h_restore", "h_reup", "h_disarm"}

\* SIGTERM or Ctrl-C.  Before the retag there is nothing to undo; between
\* the retag and the handler nothing is undone; after it, _disarm, which a
\* SIGKILL skips.
HostInterrupted(h) ==
  /\ Fault("signal")
  /\ pc[h] \in {"h_same", "h_lock", "h_check", "h_pin", "h_arm"} \cup Armed
  /\ pin' \in {IF pc[h] \in Armed /\ result[h] # "ok" THEN oldPin[h] ELSE pin}
               \cup (IF Fault("kill") THEN {pin} ELSE {})
  /\ result' = [result EXCEPT ![h] = IF @ = "ok" THEN @ ELSE "killed"]
  /\ strayPin' = (strayPin \/ (pc[h] \in {"h_arm"} \cup Armed
                                 /\ result[h] # "ok" /\ pin' # oldPin[h]))
  /\ strayTags' = strayTags \cup (IF pc[h] \in Armed THEN LeftPulled(h) ELSE {})
  /\ Ends(h)
  /\ UNCHANGED <<image, up, made, latest, accepted, blind, overlap>>

HostStep(h) ==
  \/ HostFindsSame(h) \/ HostLocks(h) \/ HostTurnedAway(h) \/ HostRechecks(h)
  \/ HostPins(h) \/ HostArms(h) \/ HostPulls(h) \/ HostUps(h) \/ HostGates(h)
  \/ HostRestores(h) \/ HostReups(h) \/ HostDisarms(h)

-----------------------------------------------------------------------------
RunStep(r) == (r \in Remotes /\ RemoteStep(r)) \/ (r \in Hosts /\ HostStep(r))
                \/ Unlock(r)

Next ==
  \/ \E r \in Remotes :
       RemoteKilled(r) \/ \E v \in Versions \cup {Latest} : SpawnUpdater(r, v)
  \/ \E h \in Hosts :
       HostInterrupted(h) \/ \E v \in Versions \cup {Latest}, a \in BOOLEAN :
                                HostResolves(h, v, a)
  \/ \E r \in Runs : RunStep(r)

Spec == Init /\ [][Next]_vars

\* A run that is alive goes on: every docker command has a timeout and both
\* gates a deadline.
FairSpec == Spec /\ \A r \in Runs : WF_vars(RunStep(r))

-----------------------------------------------------------------------------
(* Properties.                                                             *)

Pcs == {"idle", "r_lock", "r_discover", "r_verify", "r_snap", "r_tag",
        "r_recreate", "r_rollback", "h_same", "h_lock", "h_check", "h_pin",
        "h_arm", "h_pull", "h_up", "h_gate", "h_restore", "h_reup",
        "h_disarm", "unlock", "ended"}

\* Types: in particular no tag ever names the image of a missing container.
TypeOK ==
  /\ image \in [Services -> Versions \cup {Gone}]
  /\ up \in [Services -> BOOLEAN]
  /\ made \in [Services -> (Versions \cup {Latest}) \X Versions]
  /\ latest \in [Services -> Versions]
  /\ pin \in Versions \cup {Latest}
  /\ lock \in [{"data", "cfg"} -> Runs \cup {NoRun}]
  /\ pc \in [Runs -> Pcs]
  /\ target \in [Runs -> Versions \cup {Latest}]
  /\ auto \in [Runs -> BOOLEAN]
  /\ seen \in [Runs -> Versions \cup {Unknown}]
  /\ old \in [Runs -> [Services -> Versions \cup {Gone}]]
  /\ verified \in [Runs -> [Services -> Versions]]
  /\ todo \in [Runs -> SUBSET Services]
  /\ done \in [Runs -> SUBSET Services]
  /\ sound \in [Runs -> BOOLEAN]
  /\ oldPin \in [Runs -> Versions \cup {Latest}]
  /\ result \in [Runs -> {"none", "refused", "same", "ok", "rolled_back",
                          "rollback_failed", "killed"}]
  /\ was \in [Runs -> Versions \cup {Unknown}]
  /\ accepted \in [Services -> SUBSET Versions]
  /\ blind \subseteq Runs /\ overlap \in BOOLEAN
  /\ strayTags \subseteq Services /\ strayPin \in BOOLEAN

\* An update nobody chose the version of, and every remote one, never ends in
\* success with the node on an older version than the one that ran when it
\* took the lock, whatever the other kind of update did between its first
\* look and that moment (the re-check under the lock, the refusal before the
\* pull, the guard after the gate).  What that rests on are the reads: a docker
\* exec that fails under the lock, or after the gate of an update to `latest`,
\* is no downgrade to is_downgrade, and neither is a manifest's tag that cannot
\* be ordered; and two updates at two locks see nothing of each other.
AutoNeverBackwards ==
  \A r \in Runs :
    /\ pc[r] = "unlock" /\ result[r] = "ok" /\ auto[r]
    /\ r \notin blind /\ (r \in Hosts => target[r] # Latest) /\ ~overlap
    => image[Greffer] >= was[r]

\* A remote update that says it was rolled back has put every container back
\* on the image it ran before, and running; unless a `greffer update` that
\* could not find the shared lock was at work too.
RemoteRollbackRestores ==
  \A r \in Remotes :
    pc[r] = "unlock" /\ result[r] = "rolled_back" /\ ~overlap =>
      \A s \in Stack(r) : image[s] = old[r][s] /\ up[s]

\* "so restoring the refs + up (no pull) brings the exact prior node back": a
\* `greffer update` that says it was rolled back has done so for a node that ran
\* what its compose file named.  One that a remote update had moved past its
\* pin goes back to the pin instead, and one with a remote update at work, at
\* the other lock, wherever the two leave it.
HostRollbackRestores ==
  \A h \in Hosts :
    /\ pc[h] = "unlock" /\ result[h] = "rolled_back" /\ ~overlap
    /\ \A s \in Services : old[h][s] = Resolves(oldPin[h], s)
    => image = old[h]

\* With no update in progress a bare `docker compose up` applies only images
\* that have passed a gate or ran when an update began: a failed, refused or
\* interrupted update leaves neither the compose file nor a :latest it names
\* on a rejected image.  The pin is left by a signal between the retag and the
\* handler, or a SIGKILL; a tag by a retag that timed out and took effect, a
\* recreate that raised, a restore_latest that failed, an updater killed on the
\* way, and a `--to latest` that was pulled and not accepted.  Two updates at
\* work at once, at two locks, guarantee nothing.
UngatedStaysOut ==
  ~overlap /\ (\A k \in {"data", "cfg"} : lock[k] = NoRun) =>
    \A s \in Services :
      \/ Resolves(pin, s) \in accepted[s]
      \/ strayPin \/ (pin = Latest /\ s \in strayTags)

\* Every update that starts ends and frees the lock it took.
UpdatesEnd ==
  \A r \in Runs :
    pc[r] # "idle" ~>
      pc[r] = "ended" /\ r \notin {lock["data"], lock["cfg"]}
=============================================================================
