-------------------------- MODULE SelfUpdateProofs --------------------------
(***************************************************************************)
(* The two updates of a node, for any number of remote and host updates,   *)
(* services and versions and every set of faults: they exclude each other  *)
(* where they agree on the place of the lock, a rollback that says so has  *)
(* restored the node, no update moves it backwards by itself, and nothing  *)
(* rejected is left for the next `docker compose up`, each with the        *)
(* exceptions its property names.                                          *)
(***************************************************************************)
EXTENDS SelfUpdate, WellFoundedInduction, TLAPS

\* Steps of a run between its lock and the release.
RemoteHeld == {"r_discover", "r_verify", "r_snap"} \cup Mutating
HostHeld == {"h_check", "h_pin", "h_arm"} \cup Armed
Holding == RemoteHeld \cup HostHeld \cup {"unlock"}

\* The parts of TypeOK: the node, what a run keeps, and the rest.
NodeOK ==
  /\ image \in [Services -> Versions \cup {Gone}]
  /\ up \in [Services -> BOOLEAN]
  /\ made \in [Services -> (Versions \cup {Latest}) \X Versions]
  /\ latest \in [Services -> Versions]
  /\ pin \in Versions \cup {Latest}

LocalsOK ==
  /\ target \in [Runs -> Versions \cup {Latest}]
  /\ auto \in [Runs -> BOOLEAN]
  /\ seen \in [Runs -> Versions \cup {Unknown}]
  /\ old \in [Runs -> [Services -> Versions \cup {Gone}]]
  /\ verified \in [Runs -> [Services -> Versions]]
  /\ todo \in [Runs -> SUBSET Services]
  /\ done \in [Runs -> SUBSET Services]
  /\ sound \in [Runs -> BOOLEAN]
  /\ oldPin \in [Runs -> Versions \cup {Latest}]

Codes == {"none", "refused", "same", "ok", "rolled_back", "rollback_failed",
          "killed"}

BookOK ==
  /\ lock \in [{"data", "cfg"} -> Runs \cup {NoRun}]
  /\ pc \in [Runs -> Pcs]
  /\ result \in [Runs -> Codes]
  /\ was \in [Runs -> Versions \cup {Unknown}]
  /\ accepted \in [Services -> SUBSET Versions]

LapsesOK ==
  /\ blind \subseteq Runs /\ overlap \in BOOLEAN
  /\ strayTags \subseteq Services /\ strayPin \in BOOLEAN

\* A container that runs has an image.
UpInv == \A s \in Services : up[s] => image[s] # Gone

\* A remote update recreates, and takes back, services of the stack it found.
WorkOf(r) ==
  /\ todo[r] \cup done[r] \subseteq Stack(r)
  /\ r \in Hosts \/ pc[r] \in {"idle"} \cup Untouched =>
       todo[r] = {} /\ done[r] = {}
  /\ pc[r] = "r_recreate" => todo[r] # {}

WorkInv == \A r \in Runs : WorkOf(r)

BaseInv == TypeOK /\ UpInv /\ WorkInv


\* The steps of one run.
Acts(r) ==
  \/ /\ r \in Remotes
     /\ \/ RemoteKilled(r) \/ RemoteStep(r)
        \/ \E v \in Versions \cup {Latest} : SpawnUpdater(r, v)
  \/ /\ r \in Hosts
     /\ \/ HostInterrupted(r) \/ HostStep(r)
        \/ \E v \in Versions \cup {Latest}, a \in BOOLEAN : HostResolves(r, v, a)
  \/ Unlock(r)

\* A step leaves run r as it is.
Spared(r) ==
  /\ pc'[r] = pc[r] /\ result'[r] = result[r] /\ was'[r] = was[r]
  /\ target'[r] = target[r] /\ auto'[r] = auto[r] /\ seen'[r] = seen[r]
  /\ old'[r] = old[r] /\ verified'[r] = verified[r] /\ todo'[r] = todo[r]
  /\ done'[r] = done[r] /\ sound'[r] = sound[r] /\ oldPin'[r] = oldPin[r]

USE DEF Latest, Gone, Unknown

-----------------------------------------------------------------------------
(* The operators.                                                          *)

LEMMA UpdateConstants ==
  /\ Remotes \cap Hosts = {} /\ Remotes \subseteq Runs /\ Hosts \subseteq Runs
  /\ Runs = Remotes \cup Hosts
  /\ NoRun \notin Runs /\ NumServices \in Nat /\ NumVersions \in Nat
  /\ Greffer \in Services /\ 1 \in Versions
  /\ Versions \subseteq Nat \ {0} /\ Services \subseteq Nat
BY UpdateAssumption DEF Runs, Services, Versions

LEMMA MinIsMember ==
  ASSUME NEW S, S \subseteq Services, S # {}
  PROVE  Min(S) \in S
<1>1. S \subseteq Nat
  BY UpdateConstants
<1>2. PICK x \in S : \A y \in S : ~ (<<y, x>> \in OpToRel(<, Nat))
  BY <1>1, NatLessThanWellFounded, WFMin
<1>3. \A y \in S : x =< y
  <2>. SUFFICES ASSUME NEW y \in S PROVE x =< y
    OBVIOUS
  <2>1. ~ (y < x)
    BY <1>1, <1>2 DEF OpToRel
  <2>. QED
    BY <1>1, <2>1
<1>. QED
  BY <1>3 DEF Min

LEMMA MaxIsMember ==
  ASSUME NEW S, S \subseteq Services, S # {}
  PROVE  Max(S) \in S
<1>. DEFINE T == {NumServices - x : x \in S}
<1>0. \A x \in S : NumServices - x \in Nat
  BY UpdateConstants DEF Services
<1>1. T \subseteq Nat /\ T # {}
  BY <1>0
<1>2. PICK m \in T : \A y \in T : ~ (<<y, m>> \in OpToRel(<, Nat))
  BY <1>1, NatLessThanWellFounded, WFMin
<1>3. PICK x \in S : m = NumServices - x
  OBVIOUS
<1>4. \A y \in S : x >= y
  <2>. SUFFICES ASSUME NEW y \in S PROVE x >= y
    OBVIOUS
  <2>1. NumServices - y \in T
    OBVIOUS
  <2>2. ~ (NumServices - y < m)
    BY <1>1, <1>2, <2>1 DEF OpToRel
  <2>. HIDE DEF T
  <2>. QED
    BY <1>3, <2>2, UpdateConstants
<1>. QED
  BY <1>4 DEF Max

\* A step of the system is a step of a run.
LEMMA SomeoneActs ==
  ASSUME [Next]_vars
  PROVE  UNCHANGED vars \/ \E r \in Runs : Acts(r)
BY DEF Next, Acts, RunStep, Runs

LEMMA TypeParts == TypeOK <=> NodeOK /\ LocalsOK /\ BookOK /\ LapsesOK
BY DEF TypeOK, NodeOK, LocalsOK, BookOK, LapsesOK, Codes

LEMMA RunningTyped ==
  ASSUME NodeOK
  PROVE  /\ RunningVersion \in Versions \cup {Unknown}
         /\ VersionRead \subseteq Versions \cup {Unknown}
BY UpdateConstants DEF NodeOK, RunningVersion, VersionRead

\* A run that is over leaves the others as they are.
LEMMA ForgetsTyped ==
  ASSUME LocalsOK, BookOK, NEW r \in Runs, Forgets(r)
  PROVE  /\ LocalsOK' /\ was' \in [Runs -> Versions \cup {Unknown}]
         /\ pc'[r] = "ended" /\ todo'[r] = {} /\ done'[r] = {}
         /\ \A q \in Runs \ {r} :
              /\ was'[q] = was[q] /\ target'[q] = target[q]
              /\ auto'[q] = auto[q] /\ seen'[q] = seen[q] /\ old'[q] = old[q]
              /\ verified'[q] = verified[q] /\ todo'[q] = todo[q]
              /\ done'[q] = done[q] /\ sound'[q] = sound[q]
              /\ oldPin'[q] = oldPin[q]
<1>. USE UpdateConstants DEF LocalsOK, BookOK, Forgets, Goto
<1>1. /\ [s \in Services |-> Gone] \in [Services -> Versions \cup {Gone}]
      /\ [s \in Services |-> 1] \in [Services -> Versions]
  OBVIOUS
<1>2. LocalsOK'
  BY <1>1
<1>3. was' \in [Runs -> Versions \cup {Unknown}]
  OBVIOUS
<1>. QED
  BY <1>2, <1>3

\* The actions in which a run is over.
LEMMA WhoForgets ==
  ASSUME NEW r \in Runs
  PROVE  /\ RemoteKilled(r) \/ RemoteTurnedAway(r) \/ HostInterrupted(r)
              \/ HostTurnedAway(r) \/ Unlock(r) =>
              Forgets(r) /\ lock' = Unlocked(r)
         /\ HostFindsSame(r) =>
              \/ Forgets(r) /\ lock' = Unlocked(r)
              \/ /\ Goto(r, "h_lock")
                 /\ UNCHANGED <<lock, locals, result, was>>
BY DEF RemoteKilled, RemoteTurnedAway, HostInterrupted, HostTurnedAway, Unlock,
       HostFindsSame, Refuses, Ends

LEMMA ResolvesOrForgets ==
  ASSUME NEW r \in Runs, NEW v, NEW a, HostResolves(r, v, a)
  PROVE  \/ Forgets(r) /\ lock' = Unlocked(r)
         \/ /\ Goto(r, "h_same")
            /\ \E c \in VersionRead :
                 /\ ~(a /\ IsDowngrade(v, c))
                 /\ target' = [target EXCEPT ![r] = v]
                 /\ auto' = [auto EXCEPT ![r] = a]
                 /\ seen' = [seen EXCEPT ![r] = c]
            /\ UNCHANGED <<lock, old, verified, todo, done, sound, oldPin,
                           result, was>>
BY DEF HostResolves, Refuses, Ends, remoteLocals

\* `docker compose up` of some services.
LEMMA ComposedTypes ==
  ASSUME NodeOK, NEW S, Composed(S)
  PROVE  /\ image' \in [Services -> Versions \cup {Gone}]
         /\ made' \in [Services -> (Versions \cup {Latest}) \X Versions]
<1>1. \A s \in Services : Resolves(pin, s) \in Versions
  BY UpdateConstants DEF NodeOK, Resolves
<1>. QED
  BY <1>1 DEF Composed, NodeOK

\* A recreate of one of them, whole or broken off.
LEMMA RecreatedTypes ==
  ASSUME NodeOK, NEW s \in Services, NEW v \in Versions,
         Recreated(s, v) \/ BreaksOff(s, v)
  PROVE  /\ image' \in [Services -> Versions \cup {Gone}]
         /\ up' \in [Services -> BOOLEAN]
<1>1. image[s] \in Versions \cup {Gone}
  BY DEF NodeOK
<1>2. CASE Recreated(s, v)
  BY <1>2 DEF Recreated, NodeOK
<1>3. CASE BreaksOff(s, v)
  <2>1. PICK i \in {image[s], Gone, v} : image' = [image EXCEPT ![s] = i]
    BY <1>3 DEF BreaksOff
  <2>2. i \in Versions \cup {Gone}
    BY <1>1
  <2>3. image' \in [Services -> Versions \cup {Gone}]
    BY <2>1, <2>2 DEF NodeOK
  <2>. QED
    BY <1>3, <2>3 DEF BreaksOff, NodeOK
<1>. QED
  BY <1>2, <1>3

\* Every step keeps the types of the node.
LEMMA NodeTyped ==
  ASSUME NodeOK, LocalsOK, WorkInv, NEW r \in Runs, Acts(r)
  PROVE  NodeOK'
<1>. USE DEF NodeOK, LocalsOK
<1>1. CASE RemoteTags(r)
  <2>1. Min(todo[r]) \in Services
    BY <1>1, MinIsMember DEF RemoteTags
  <2>2. verified[r][Min(todo[r])] \in Versions
    BY <2>1
  <2>. QED
    BY <1>1, <2>1, <2>2 DEF RemoteTags
<1>2. CASE RemoteRecreates(r)
  <2>1. Min(todo[r]) \in Services
    BY <1>2, MinIsMember DEF RemoteRecreates, WorkInv, WorkOf
  <2>2. latest[Min(todo[r])] \in Versions
    BY <2>1
  <2>. QED
    BY <1>2, <2>1, <2>2, RecreatedTypes DEF RemoteRecreates
<1>3. CASE RemoteRollsBackOne(r)
  <2>1. Max(done[r]) \in Services /\ Max(done[r]) \in Stack(r)
    BY <1>3, MaxIsMember DEF RemoteRollsBackOne, WorkInv, WorkOf
  <2>2. old[r][Max(done[r])] \in Versions
    BY <2>1 DEF Stack
  <2>. QED
    BY <1>3, <2>1, <2>2, RecreatedTypes DEF RemoteRollsBackOne
<1>4. CASE HostInterrupted(r)
  BY <1>4 DEF HostInterrupted
<1>5. CASE HostPins(r)
  BY <1>5 DEF HostPins
<1>6. CASE HostPulls(r)
  BY <1>6 DEF HostPulls
<1>7. CASE HostUps(r)
  <2>1. \E S \in SUBSET Services : Composed(S)
    BY <1>7 DEF HostUps, ComposeUp, ComposeBreaksOff
  <2>2. up' \in [Services -> BOOLEAN]
    BY <1>7 DEF HostUps, ComposeUp, ComposeBreaksOff
  <2>. QED
    BY <1>7, <2>1, <2>2, ComposedTypes DEF HostUps
<1>8. CASE HostRestores(r)
  BY <1>8 DEF HostRestores
<1>9. CASE HostReups(r)
  <2>1. \E S \in SUBSET Services : Composed(S)
    BY <1>9 DEF HostReups, ComposeUp, ComposeBreaksOff
  <2>2. up' \in [Services -> BOOLEAN]
    BY <1>9 DEF HostReups, ComposeUp, ComposeBreaksOff
  <2>. QED
    BY <1>9, <2>1, <2>2, ComposedTypes DEF HostReups
<1>10. CASE HostDisarms(r)
  BY <1>10 DEF HostDisarms
<1>11. CASE RemoteKilled(r) \/ RemoteLocks(r) \/ RemoteTurnedAway(r)
         \/ RemoteDiscovers(r)
  BY <1>11
  DEF RemoteKilled, RemoteLocks, RemoteTurnedAway, RemoteDiscovers, node
<1>12. CASE RemoteVerifies(r) \/ RemoteSnapshots(r) \/ RemoteGates(r)
         \/ RemoteRegates(r)
  BY <1>12
  DEF RemoteVerifies, RemoteSnapshots, RemoteGates, RemoteRegates, node
<1>13. CASE HostFindsSame(r) \/ HostLocks(r) \/ HostTurnedAway(r)
         \/ HostRechecks(r)
  BY <1>13 DEF HostFindsSame, HostLocks, HostTurnedAway, HostRechecks, node
<1>14. CASE HostArms(r) \/ HostGates(r) \/ Unlock(r)
  BY <1>14 DEF HostArms, HostGates, Unlock, node
<1>15. ASSUME NEW v \in Versions \cup {Latest}, SpawnUpdater(r, v)
      PROVE  NodeOK'
  BY <1>15 DEF SpawnUpdater, node
<1>16. ASSUME NEW v \in Versions \cup {Latest}, NEW a \in BOOLEAN,
              HostResolves(r, v, a)
      PROVE  NodeOK'
  BY <1>16 DEF HostResolves, node
<1>. QED
  BY <1>1, <1>2, <1>3, <1>4, <1>5, <1>6, <1>7, <1>8, <1>9, <1>10, <1>11,
     <1>12, <1>13, <1>14, <1>15, <1>16
  DEF Acts, RemoteStep, HostStep

\* Every step keeps the types of what a run keeps.
LEMMA LocalsTyped ==
  ASSUME NodeOK, LocalsOK, BookOK, WorkInv, NEW r \in Runs, Acts(r)
  PROVE  LocalsOK'
<1>. USE RunningTyped DEF NodeOK, LocalsOK
<1>1. CASE RemoteDiscovers(r)
  <2>1. /\ \E v \in VersionRead : seen' = [seen EXCEPT ![r] = v]
        /\ old' = [old EXCEPT ![r] = image]
        /\ UNCHANGED <<target, auto, verified, todo, done, sound, oldPin>>
    BY <1>1 DEF RemoteDiscovers, remoteLocals
  <2>2. old' \in [Runs -> [Services -> Versions \cup {Gone}]]
    BY <2>1
  <2>3. seen' \in [Runs -> Versions \cup {Unknown}]
    BY <2>1
  <2>. QED
    BY <2>1, <2>2, <2>3
<1>2. CASE RemoteVerifies(r)
  <2>1. /\ \/ verified' = verified
           \/ \E d \in [Services -> Versions] :
                verified' = [verified EXCEPT ![r] = d]
        /\ UNCHANGED <<target, auto, seen, old, todo, done, sound, oldPin>>
    BY <1>2 DEF RemoteVerifies
  <2>2. verified' \in [Runs -> [Services -> Versions]]
    BY <2>1
  <2>. QED
    BY <2>1, <2>2
<1>3. CASE RemoteSnapshots(r)
  BY <1>3 DEF RemoteSnapshots
<1>4. CASE RemoteRecreates(r)
  <2>1. /\ todo' = [todo EXCEPT ![r] = @ \ {Min(todo[r])}]
        /\ done' \in {done, [done EXCEPT ![r] = @ \cup {Min(todo[r])}]}
        /\ UNCHANGED <<target, auto, seen, old, verified, sound, oldPin>>
    BY <1>4 DEF RemoteRecreates
  <2>2. Min(todo[r]) \in Services
    BY <1>4, MinIsMember DEF RemoteRecreates, WorkInv, WorkOf
  <2>3. todo' \in [Runs -> SUBSET Services]
    BY <2>1
  <2>4. done[r] \cup {Min(todo[r])} \in SUBSET Services
    BY <2>2
  <2>5. done' \in [Runs -> SUBSET Services]
    BY <2>1, <2>4
  <2>. QED
    BY <2>1, <2>3, <2>5
<1>5. CASE RemoteRollsBackOne(r)
  <2>1. /\ done' = [done EXCEPT ![r] = @ \ {Max(done[r])}]
        /\ sound' \in {sound, [sound EXCEPT ![r] = FALSE]}
        /\ UNCHANGED <<target, auto, seen, old, verified, todo, oldPin>>
    BY <1>5 DEF RemoteRollsBackOne
  <2>. QED
    BY <2>1
<1>6. CASE HostLocks(r)
  <2>1. /\ old' = [old EXCEPT ![r] = image]
        /\ UNCHANGED <<target, auto, seen, remoteLocals, oldPin>>
    BY <1>6 DEF HostLocks
  <2>2. old' \in [Runs -> [Services -> Versions \cup {Gone}]]
    BY <2>1
  <2>. QED
    BY <2>1, <2>2 DEF remoteLocals
<1>7. CASE HostRechecks(r)
  <2>1. /\ \E v \in VersionRead : seen' = [seen EXCEPT ![r] = v]
        /\ UNCHANGED <<target, auto, old, remoteLocals, oldPin>>
    BY <1>7 DEF HostRechecks
  <2>2. seen' \in [Runs -> Versions \cup {Unknown}]
    BY <2>1
  <2>. QED
    BY <2>1, <2>2 DEF remoteLocals
<1>8. CASE HostPins(r)
  <2>1. /\ oldPin' = [oldPin EXCEPT ![r] = pin]
        /\ UNCHANGED <<target, auto, seen, old, remoteLocals>>
    BY <1>8 DEF HostPins
  <2>2. oldPin' \in [Runs -> Versions \cup {Latest}]
    BY <2>1
  <2>. QED
    BY <2>1, <2>2 DEF remoteLocals
<1>9. CASE RemoteKilled(r) \/ RemoteTurnedAway(r) \/ HostInterrupted(r)
        \/ HostTurnedAway(r) \/ Unlock(r)
  BY <1>9, WhoForgets, ForgetsTyped
<1>10. CASE HostFindsSame(r)
  BY <1>10, WhoForgets, ForgetsTyped DEF locals, remoteLocals
<1>11. CASE RemoteLocks(r) \/ RemoteTags(r) \/ RemoteGates(r)
         \/ RemoteRegates(r)
  BY <1>11
  DEF RemoteLocks, RemoteTags, RemoteGates, RemoteRegates, locals, remoteLocals
<1>12. CASE HostArms(r) \/ HostPulls(r) \/ HostUps(r)
  BY <1>12 DEF HostArms, HostPulls, HostUps, locals, remoteLocals
<1>13. CASE HostGates(r) \/ HostRestores(r) \/ HostReups(r) \/ HostDisarms(r)
  BY <1>13
  DEF HostGates, HostRestores, HostReups, HostDisarms, locals, remoteLocals
<1>14. ASSUME NEW v \in Versions \cup {Latest}, SpawnUpdater(r, v)
      PROVE  LocalsOK'
  BY <1>14 DEF SpawnUpdater, locals, remoteLocals
<1>15. ASSUME NEW v \in Versions \cup {Latest}, NEW a \in BOOLEAN,
              HostResolves(r, v, a)
      PROVE  LocalsOK'
  <2>1. CASE Forgets(r)
    BY <2>1, ForgetsTyped
  <2>2. CASE ~Forgets(r)
    <3>1. PICK c \in VersionRead :
            /\ target' = [target EXCEPT ![r] = v]
            /\ auto' = [auto EXCEPT ![r] = a]
            /\ seen' = [seen EXCEPT ![r] = c]
      BY <1>15, <2>2, ResolvesOrForgets
    <3>2. UNCHANGED <<old, verified, todo, done, sound, oldPin>>
      BY <1>15, <2>2, ResolvesOrForgets
    <3>. QED
      BY <3>1, <3>2
  <2>. QED
    BY <2>1, <2>2
<1>. QED
  BY <1>1, <1>2, <1>3, <1>4, <1>5, <1>6, <1>7, <1>8, <1>9, <1>10, <1>11,
     <1>12, <1>13, <1>14, <1>15
  DEF Acts, RemoteStep, HostStep

\* A step moves one run, and may give it its exit code.
LEMMA ActsMove ==
  ASSUME NEW r \in Runs, Acts(r)
  PROVE  /\ pc' = pc \/ \E l \in Pcs : Goto(r, l)
         /\ \/ result' = result
            \/ \E c \in Codes : result' = [result EXCEPT ![r] = c]
<1>. USE DEF Returns, Refuses, Ends, Forgets, Pcs, Codes
<1>1. CASE HostInterrupted(r)
  <2>1. \/ result' = [result EXCEPT ![r] = "killed"]
        \/ result' = [result EXCEPT ![r] = "ok"]
    BY <1>1 DEF HostInterrupted
  <2>. QED
    BY <1>1, <2>1 DEF HostInterrupted
<1>2. CASE RemoteKilled(r) \/ RemoteLocks(r) \/ RemoteTurnedAway(r)
  BY <1>2 DEF RemoteKilled, RemoteLocks, RemoteTurnedAway
<1>3. CASE RemoteDiscovers(r) \/ RemoteVerifies(r) \/ RemoteSnapshots(r)
  BY <1>3 DEF RemoteDiscovers, RemoteVerifies, RemoteSnapshots
<1>4. CASE RemoteTags(r) \/ RemoteRecreates(r) \/ RemoteGates(r)
  BY <1>4 DEF RemoteTags, RemoteRecreates, RemoteGates
<1>5. CASE RemoteRollsBackOne(r) \/ RemoteRegates(r) \/ HostFindsSame(r)
  BY <1>5 DEF RemoteRollsBackOne, RemoteRegates, HostFindsSame
<1>6. CASE HostLocks(r) \/ HostTurnedAway(r) \/ HostRechecks(r)
  BY <1>6 DEF HostLocks, HostTurnedAway, HostRechecks
<1>7. CASE HostPins(r) \/ HostArms(r) \/ HostPulls(r)
  BY <1>7 DEF HostPins, HostArms, HostPulls
<1>8. CASE HostUps(r) \/ HostGates(r) \/ HostRestores(r)
  BY <1>8 DEF HostUps, HostGates, HostRestores
<1>9. CASE HostReups(r) \/ HostDisarms(r) \/ Unlock(r)
  BY <1>9 DEF HostReups, HostDisarms, Unlock
<1>10. ASSUME NEW v \in Versions \cup {Latest}, SpawnUpdater(r, v)
      PROVE  /\ pc' = pc \/ \E l \in Pcs : Goto(r, l)
         /\ \/ result' = result
            \/ \E c \in Codes : result' = [result EXCEPT ![r] = c]
  BY <1>10 DEF SpawnUpdater
<1>11. ASSUME NEW v \in Versions \cup {Latest}, NEW a \in BOOLEAN,
              HostResolves(r, v, a)
      PROVE  /\ pc' = pc \/ \E l \in Pcs : Goto(r, l)
         /\ \/ result' = result
            \/ \E c \in Codes : result' = [result EXCEPT ![r] = c]
  BY <1>11 DEF HostResolves
<1>. QED
  BY <1>1, <1>2, <1>3, <1>4, <1>5, <1>6, <1>7, <1>8, <1>9, <1>10, <1>11
  DEF Acts, RemoteStep, HostStep

\* Every step keeps the types of the lock and of the bookkeeping.
LEMMA BookTyped ==
  ASSUME NodeOK, LocalsOK, BookOK, UpInv, NEW r \in Runs, Acts(r)
  PROVE  /\ lock' \in [{"data", "cfg"} -> Runs \cup {NoRun}]
         /\ was' \in [Runs -> Versions \cup {Unknown}]
         /\ accepted' \in [Services -> SUBSET Versions]
<1>. USE DEF NodeOK, BookOK
<1>1. CASE RemoteKilled(r) \/ RemoteTurnedAway(r) \/ HostTurnedAway(r)
        \/ Unlock(r) \/ HostInterrupted(r)
  <2>1. Unlocked(r) \in [{"data", "cfg"} -> Runs \cup {NoRun}]
    BY DEF Unlocked
  <2>2. accepted' = accepted
    BY <1>1
    DEF RemoteKilled, RemoteTurnedAway, HostTurnedAway, Unlock, HostInterrupted
  <2>. QED
    BY <1>1, <2>1, <2>2, WhoForgets, ForgetsTyped
<1>2. CASE RemoteLocks(r)
  <2>1. PICK k \in {"data", "cfg"} : Take(r, k)
    BY <1>2 DEF RemoteLocks
  <2>2. lock' \in [{"data", "cfg"} -> Runs \cup {NoRun}]
    BY <2>1 DEF Take
  <2>3. was' \in [Runs -> Versions \cup {Unknown}]
    BY <2>1, RunningTyped DEF Take
  <2>4. accepted' \in [Services -> SUBSET Versions]
    BY <2>1 DEF Take
  <2>. QED
    BY <2>2, <2>3, <2>4
<1>3. CASE RemoteGates(r)
  <2>1. UNCHANGED <<lock, was>>
    BY <1>3 DEF RemoteGates
  <2>2. \/ accepted' = accepted
        \/ /\ \A s \in Stack(r) : image[s] = verified[r][s]
           /\ accepted' = [s \in Services |->
                             IF s \in Stack(r) THEN accepted[s] \cup {image[s]}
                                               ELSE accepted[s]]
    BY <1>3 DEF RemoteGates
  <2>3. \A s \in Services : verified[r][s] \in Versions
    BY DEF LocalsOK
  <2>4. accepted' \in [Services -> SUBSET Versions]
    BY <2>2, <2>3 DEF Stack
  <2>. QED
    BY <2>1, <2>4
<1>4. CASE HostFindsSame(r)
  <2>1. Unlocked(r) \in [{"data", "cfg"} -> Runs \cup {NoRun}]
    BY DEF Unlocked
  <2>2. accepted' = accepted
    BY <1>4 DEF HostFindsSame
  <2>. QED
    BY <1>4, <2>1, <2>2, WhoForgets, ForgetsTyped
<1>5. CASE HostLocks(r)
  <2>1. PICK k \in {"data", "cfg"} : Take(r, k)
    BY <1>5 DEF HostLocks, LockPlaces
  <2>2. lock' \in [{"data", "cfg"} -> Runs \cup {NoRun}]
    BY <2>1 DEF Take
  <2>3. was' \in [Runs -> Versions \cup {Unknown}]
    BY <2>1, RunningTyped DEF Take
  <2>4. accepted' \in [Services -> SUBSET Versions]
    BY <2>1 DEF Take
  <2>. QED
    BY <2>2, <2>3, <2>4
<1>6. CASE HostGates(r)
  <2>1. UNCHANGED <<lock, was>>
    BY <1>6 DEF HostGates
  <2>2. \/ accepted' = accepted
        \/ /\ \A s \in Services : up[s]
           /\ accepted' = [s \in Services |-> accepted[s] \cup {image[s]}]
    BY <1>6 DEF HostGates
  <2>3. accepted' \in [Services -> SUBSET Versions]
    BY <2>2 DEF UpInv
  <2>. QED
    BY <2>1, <2>3
<1>8. CASE RemoteDiscovers(r) \/ RemoteVerifies(r) \/ RemoteSnapshots(r)
  BY <1>8 DEF RemoteDiscovers, RemoteVerifies, RemoteSnapshots
<1>9. CASE RemoteTags(r) \/ RemoteRecreates(r) \/ RemoteRollsBackOne(r)
        \/ RemoteRegates(r)
  BY <1>9 DEF RemoteTags, RemoteRecreates, RemoteRollsBackOne, RemoteRegates
<1>10. CASE HostRechecks(r) \/ HostPins(r)
  BY <1>10 DEF HostRechecks, HostPins
<1>11. CASE HostArms(r) \/ HostPulls(r) \/ HostUps(r) \/ HostRestores(r)
  BY <1>11 DEF HostArms, HostPulls, HostUps, HostRestores
<1>12. CASE HostReups(r) \/ HostDisarms(r)
  BY <1>12 DEF HostReups, HostDisarms
<1>13. ASSUME NEW v \in Versions \cup {Latest}, SpawnUpdater(r, v)
      PROVE  /\ lock' \in [{"data", "cfg"} -> Runs \cup {NoRun}]
         /\ was' \in [Runs -> Versions \cup {Unknown}]
         /\ accepted' \in [Services -> SUBSET Versions]
  BY <1>13 DEF SpawnUpdater
<1>14. ASSUME NEW v \in Versions \cup {Latest}, NEW a \in BOOLEAN,
              HostResolves(r, v, a)
      PROVE  /\ lock' \in [{"data", "cfg"} -> Runs \cup {NoRun}]
         /\ was' \in [Runs -> Versions \cup {Unknown}]
         /\ accepted' \in [Services -> SUBSET Versions]
  <2>1. Unlocked(r) \in [{"data", "cfg"} -> Runs \cup {NoRun}]
    BY DEF Unlocked
  <2>2. accepted' = accepted
    BY <1>14 DEF HostResolves
  <2>. QED
    BY <1>14, <2>1, <2>2, ResolvesOrForgets, ForgetsTyped
<1>. QED
  BY <1>1, <1>2, <1>3, <1>4, <1>5, <1>6, <1>8, <1>9, <1>10, <1>11, <1>12,
     <1>13, <1>14
  DEF Acts, RemoteStep, HostStep

\* What a run may lapse in grows, and only with some of its steps.
LEMMA LapsesGrow ==
  ASSUME TypeOK, WorkInv, NEW r \in Runs, Acts(r)
  PROVE  /\ LapsesOK' /\ (overlap => overlap')
         /\ blind \subseteq blind' /\ \A q \in Runs \ {r} : q \in blind' => q \in blind
         /\ strayTags \subseteq strayTags' /\ (strayPin => strayPin')
<1>. USE DEF TypeOK, LapsesOK, lapses
<1>1. CASE RemoteLocks(r) \/ HostLocks(r)
  BY <1>1 DEF RemoteLocks, HostLocks, Take
<1>2. CASE RemoteDiscovers(r)
  BY <1>2 DEF RemoteDiscovers
<1>3. CASE RemoteTags(r)
  <2>1. Min(todo[r]) \in Services
    BY <1>3, MinIsMember DEF RemoteTags
  <2>. QED
    BY <1>3, <2>1 DEF RemoteTags
<1>4. CASE RemoteRecreates(r)
  <2>1. Min(todo[r]) \in Services
    BY <1>4, MinIsMember DEF RemoteRecreates, WorkInv, WorkOf
  <2>. QED
    BY <1>4, <2>1 DEF RemoteRecreates
<1>5. CASE RemoteGates(r)
  BY <1>5 DEF RemoteGates
<1>6. CASE RemoteRollsBackOne(r)
  <2>1. Max(done[r]) \in Services
    BY <1>6, MaxIsMember DEF RemoteRollsBackOne
  <2>. QED
    BY <1>6, <2>1 DEF RemoteRollsBackOne
<1>7. CASE RemoteKilled(r)
  <2>1. Tried(r) \subseteq Services
    <3>1. pc[r] = "r_recreate" => Min(todo[r]) \in Services
      BY MinIsMember DEF WorkInv, WorkOf
    <3>. QED
      BY <3>1 DEF Tried
  <2>. QED
    BY <1>7, <2>1 DEF RemoteKilled
<1>8. CASE HostInterrupted(r)
  <2>1. LeftPulled(r) \subseteq Services
    BY DEF LeftPulled
  <2>2. /\ strayTags \subseteq strayTags' /\ strayTags' \subseteq Services
        /\ strayPin' \in BOOLEAN /\ UNCHANGED <<blind, overlap>>
        /\ strayPin => strayPin'
    BY <1>8, <2>1 DEF HostInterrupted
  <2>. QED
    BY <2>2
<1>9. CASE HostDisarms(r)
  <2>1. LeftPulled(r) \subseteq Services
    BY DEF LeftPulled
  <2>. QED
    BY <1>9, <2>1 DEF HostDisarms
<1>10. CASE HostRechecks(r)
  BY <1>10 DEF HostRechecks
<1>11. CASE RemoteTurnedAway(r) \/ RemoteVerifies(r) \/ RemoteSnapshots(r)
         \/ RemoteRegates(r)
  BY <1>11 DEF RemoteTurnedAway, RemoteVerifies, RemoteSnapshots, RemoteRegates
<1>12. CASE HostFindsSame(r) \/ HostTurnedAway(r) \/ HostPins(r) \/ HostArms(r)
  BY <1>12 DEF HostFindsSame, HostTurnedAway, HostPins, HostArms
<1>13. CASE HostPulls(r) \/ HostUps(r) \/ HostGates(r) \/ HostRestores(r)
         \/ HostReups(r) \/ Unlock(r)
  BY <1>13 DEF HostPulls, HostUps, HostGates, HostRestores, HostReups, Unlock
<1>14. ASSUME NEW v \in Versions \cup {Latest}, SpawnUpdater(r, v)
      PROVE  UNCHANGED lapses
  BY <1>14 DEF SpawnUpdater
<1>15. ASSUME NEW v \in Versions \cup {Latest}, NEW a \in BOOLEAN,
              HostResolves(r, v, a)
      PROVE  UNCHANGED lapses
  BY <1>15 DEF HostResolves
<1>. QED
  BY <1>1, <1>2, <1>3, <1>4, <1>5, <1>6, <1>7, <1>8, <1>9, <1>10, <1>11,
     <1>12, <1>13, <1>14, <1>15 DEF Acts, RemoteStep, HostStep

LEMMA ActsTyped ==
  ASSUME BaseInv, NEW r \in Runs, Acts(r)
  PROVE  TypeOK'
<1>1. NodeOK /\ LocalsOK /\ BookOK /\ LapsesOK /\ TypeOK /\ UpInv /\ WorkInv
  BY TypeParts DEF BaseInv
<1>2. pc' \in [Runs -> Pcs] /\ result' \in [Runs -> Codes]
  BY <1>1, ActsMove DEF BookOK, Goto
<1>3. NodeOK' /\ LocalsOK' /\ BookOK' /\ LapsesOK'
  BY <1>1, <1>2, NodeTyped, LocalsTyped, BookTyped, LapsesGrow DEF BookOK
<1>. QED
  BY <1>3 DEF TypeOK, NodeOK, LocalsOK, BookOK, LapsesOK, Codes

\* No step leaves a service running without an image.
LEMMA UpStep ==
  ASSUME NodeOK, LocalsOK, UpInv, WorkInv, NEW r \in Runs, Acts(r)
  PROVE  UpInv'
<1>. USE DEF NodeOK, UpInv
<1>1. CASE RemoteRecreates(r)
  <2>1. Min(todo[r]) \in Services
    BY <1>1, MinIsMember DEF RemoteRecreates, WorkInv, WorkOf, LocalsOK
  <2>2. latest[Min(todo[r])] # Gone
    BY <2>1, <1>1, MinIsMember, UpdateConstants
    DEF RemoteRecreates, WorkInv, WorkOf, LocalsOK, Stack
  <2>. QED
    BY <1>1, <2>1, <2>2 DEF RemoteRecreates, Recreated, BreaksOff
<1>2. CASE RemoteRollsBackOne(r)
  <2>1. Max(done[r]) \in Services
    BY <1>2, MaxIsMember DEF RemoteRollsBackOne, WorkInv, WorkOf, LocalsOK
  <2>2. old[r][Max(done[r])] # Gone
    BY <2>1, <1>2, MaxIsMember, UpdateConstants
    DEF RemoteRollsBackOne, WorkInv, WorkOf, LocalsOK, Stack
  <2>. QED
    BY <1>2, <2>1, <2>2 DEF RemoteRollsBackOne, Recreated, BreaksOff
<1>3. CASE HostUps(r)
  <2>1. \A s \in Services : Resolves(pin, s) # Gone
    BY UpdateConstants DEF NodeOK, Resolves
  <2>. QED
    BY <1>3, <2>1 DEF HostUps, ComposeUp, ComposeBreaksOff, Composed, UpToDate
<1>4. CASE HostReups(r)
  <2>1. \A s \in Services : Resolves(pin, s) # Gone
    BY UpdateConstants DEF NodeOK, Resolves
  <2>. QED
    BY <1>4, <2>1
    DEF HostReups, ComposeUp, ComposeBreaksOff, Composed, UpToDate
<1>5. CASE RemoteKilled(r) \/ RemoteLocks(r) \/ RemoteTurnedAway(r)
        \/ RemoteDiscovers(r)
  BY <1>5
  DEF RemoteKilled, RemoteLocks, RemoteTurnedAway, RemoteDiscovers, node
<1>6. CASE RemoteVerifies(r) \/ RemoteSnapshots(r) \/ RemoteTags(r)
        \/ RemoteGates(r)
  BY <1>6 DEF RemoteVerifies, RemoteSnapshots, RemoteTags, RemoteGates, node
<1>7. CASE RemoteRegates(r) \/ HostInterrupted(r) \/ HostFindsSame(r)
        \/ HostLocks(r)
  BY <1>7 DEF RemoteRegates, HostInterrupted, HostFindsSame, HostLocks, node
<1>8. CASE HostTurnedAway(r) \/ HostRechecks(r) \/ HostPins(r) \/ HostArms(r)
  BY <1>8 DEF HostTurnedAway, HostRechecks, HostPins, HostArms, node
<1>9. CASE HostPulls(r) \/ HostGates(r) \/ HostRestores(r) \/ HostDisarms(r)
  BY <1>9 DEF HostPulls, HostGates, HostRestores, HostDisarms, node
<1>10. CASE Unlock(r)
  BY <1>10 DEF Unlock, node
<1>11. ASSUME NEW v \in Versions \cup {Latest}, SpawnUpdater(r, v)
      PROVE  UpInv'
  BY <1>11 DEF SpawnUpdater, node
<1>12. ASSUME NEW v \in Versions \cup {Latest}, NEW a \in BOOLEAN,
              HostResolves(r, v, a)
      PROVE  UpInv'
  BY <1>12 DEF HostResolves, node
<1>. QED
  BY <1>1, <1>2, <1>3, <1>4, <1>5, <1>6, <1>7, <1>8, <1>9, <1>10, <1>11, <1>12
  DEF Acts, RemoteStep, HostStep

\* A step of one run spares the others.
LEMMA OthersSpared ==
  ASSUME TypeOK, NEW r \in Runs, NEW q \in Runs \ {r}, Acts(r)
  PROVE  Spared(q)
<1>0. LocalsOK /\ BookOK
  BY TypeParts
<1>. USE ActsMove DEF TypeOK, Spared, Goto
<1>1. CASE RemoteLocks(r)
  BY <1>1 DEF RemoteLocks, Take, locals, remoteLocals
<1>2. CASE HostLocks(r)
  BY <1>2 DEF HostLocks, Take, remoteLocals
<1>3. CASE RemoteKilled(r) \/ RemoteTurnedAway(r) \/ HostInterrupted(r)
        \/ HostTurnedAway(r) \/ Unlock(r)
  BY <1>0, <1>3, WhoForgets, ForgetsTyped
<1>4. CASE RemoteVerifies(r) \/ RemoteSnapshots(r) \/ RemoteTags(r)
  BY <1>4
  DEF RemoteVerifies, RemoteSnapshots, RemoteTags, locals, remoteLocals
<1>5. CASE RemoteRecreates(r) \/ RemoteGates(r) \/ RemoteRollsBackOne(r)
  BY <1>5
  DEF RemoteRecreates, RemoteGates, RemoteRollsBackOne, locals, remoteLocals
<1>6. CASE RemoteRegates(r) \/ RemoteDiscovers(r)
  BY <1>6 DEF RemoteRegates, RemoteDiscovers, locals, remoteLocals
<1>7. CASE HostRechecks(r) \/ HostPins(r)
  BY <1>7 DEF HostRechecks, HostPins, locals, remoteLocals
<1>8. CASE HostArms(r) \/ HostPulls(r) \/ HostUps(r)
  BY <1>8 DEF HostArms, HostPulls, HostUps, locals, remoteLocals
<1>9. CASE HostGates(r) \/ HostRestores(r) \/ HostReups(r)
  BY <1>9 DEF HostGates, HostRestores, HostReups, locals, remoteLocals
<1>10. CASE HostDisarms(r)
  BY <1>10 DEF HostDisarms, locals, remoteLocals
<1>11. ASSUME NEW v \in Versions \cup {Latest}, SpawnUpdater(r, v)
      PROVE  Spared(q)
  BY <1>11 DEF SpawnUpdater, locals, remoteLocals
<1>12. ASSUME NEW v \in Versions \cup {Latest}, NEW a \in BOOLEAN,
              HostResolves(r, v, a)
      PROVE  Spared(q)
  BY <1>0, <1>12, ResolvesOrForgets, ForgetsTyped
<1>13. CASE HostFindsSame(r)
  BY <1>0, <1>13, WhoForgets, ForgetsTyped DEF locals, remoteLocals
<1>. QED
  BY <1>1, <1>2, <1>3, <1>4, <1>5, <1>6, <1>7, <1>8, <1>9, <1>10, <1>11, <1>12,
     <1>13
  DEF Acts, RemoteStep, HostStep

\* A run has only services of its stack to recreate.
LEMMA WorkOwn ==
  ASSUME TypeOK, WorkInv, NEW r \in Runs, Acts(r)
  PROVE  WorkOf(r)'
<1>0. ASSUME Forgets(r) PROVE WorkOf(r)'
  <2>1. LocalsOK /\ BookOK
    BY TypeParts
  <2>. QED
    BY <1>0, <2>1, ForgetsTyped DEF WorkOf
<1>. USE UpdateConstants DEF TypeOK, WorkInv, WorkOf, Stack, Goto, Untouched,
         Returns
<1>1. CASE r \in Remotes /\ RemoteDiscovers(r)
  BY <1>1 DEF RemoteDiscovers, remoteLocals
<1>2. CASE r \in Remotes /\ RemoteVerifies(r)
  BY <1>2 DEF RemoteVerifies
<1>3. CASE r \in Remotes /\ RemoteSnapshots(r)
  BY <1>3 DEF RemoteSnapshots
<1>4. CASE r \in Remotes /\ RemoteTags(r)
  BY <1>4 DEF RemoteTags, locals, remoteLocals
<1>5. CASE r \in Remotes /\ RemoteRecreates(r)
  <2>1. /\ todo'[r] = todo[r] \ {Min(todo[r])}
        /\ done'[r] \in {done[r], done[r] \cup {Min(todo[r])}}
        /\ pc'[r] \in {"r_tag", "r_rollback"} /\ old' = old
    BY <1>5 DEF RemoteRecreates
  <2>2. Min(todo[r]) \in todo[r]
    BY <1>5, MinIsMember DEF RemoteRecreates
  <2>. QED
    BY <1>5, <2>1, <2>2
<1>6. CASE r \in Remotes /\ RemoteRollsBackOne(r)
  <2>1. done'[r] = done[r] \ {Max(done[r])} /\ todo'[r] = todo[r]
    BY <1>6 DEF RemoteRollsBackOne
  <2>. QED
    BY <1>6, <2>1 DEF RemoteRollsBackOne
<1>7. CASE r \in Hosts /\ HostLocks(r)
  BY <1>7 DEF HostLocks, remoteLocals
<1>8. CASE r \in Remotes /\ RemoteLocks(r)
  BY <1>8 DEF RemoteLocks, locals, remoteLocals
<1>9. CASE r \in Remotes /\ RemoteGates(r)
  BY <1>9 DEF RemoteGates, locals, remoteLocals
<1>10. CASE r \in Remotes /\ RemoteRegates(r)
  BY <1>10 DEF RemoteRegates, locals, remoteLocals
<1>11. CASE r \in Hosts /\ HostFindsSame(r)
  BY <1>0, <1>11, WhoForgets DEF locals, remoteLocals
<1>12. CASE r \in Hosts /\ HostRechecks(r)
  BY <1>12 DEF HostRechecks, locals, remoteLocals
<1>13. CASE r \in Hosts /\ (HostPins(r) \/ HostArms(r))
  BY <1>13 DEF HostPins, HostArms, locals, remoteLocals
<1>14. CASE r \in Hosts /\ (HostPulls(r) \/ HostUps(r))
  BY <1>14 DEF HostPulls, HostUps, locals, remoteLocals
<1>15. CASE r \in Hosts /\ (HostGates(r) \/ HostRestores(r))
  BY <1>15 DEF HostGates, HostRestores, locals, remoteLocals
<1>16. CASE r \in Hosts /\ (HostReups(r) \/ HostDisarms(r))
  BY <1>16 DEF HostReups, HostDisarms, locals, remoteLocals
<1>17. CASE RemoteKilled(r) \/ RemoteTurnedAway(r) \/ HostInterrupted(r)
         \/ HostTurnedAway(r) \/ Unlock(r)
  BY <1>0, <1>17, WhoForgets
<1>18. ASSUME NEW v \in Versions \cup {Latest}, r \in Remotes,
              SpawnUpdater(r, v)
      PROVE  WorkOf(r)'
  BY <1>18 DEF SpawnUpdater, locals, remoteLocals
<1>19. ASSUME NEW v \in Versions \cup {Latest}, NEW a \in BOOLEAN,
              r \in Hosts, HostResolves(r, v, a)
      PROVE  WorkOf(r)'
  BY <1>0, <1>19, ResolvesOrForgets
<1>. QED
  BY <1>1, <1>2, <1>3, <1>4, <1>5, <1>6, <1>7, <1>8, <1>9, <1>10, <1>11,
     <1>12, <1>13, <1>14, <1>15, <1>16, <1>17, <1>18, <1>19
  DEF Acts, RemoteStep, HostStep

\* Every step keeps the base invariant.
LEMMA BaseStep ==
  ASSUME BaseInv, [Next]_vars
  PROVE  BaseInv'
<1>1. NodeOK /\ LocalsOK /\ BookOK /\ TypeOK /\ UpInv /\ WorkInv
  BY TypeParts DEF BaseInv
<1>2. ASSUME NEW r \in Runs, Acts(r) PROVE BaseInv'
  <2>1. TypeOK' /\ UpInv'
    BY <1>1, <1>2, ActsTyped, UpStep
  <2>2. WorkOf(r)'
    BY <1>1, <1>2, WorkOwn
  <2>3. ASSUME NEW q \in Runs \ {r} PROVE WorkOf(q)'
    <3>1. Spared(q)
      BY <1>1, <1>2, OthersSpared
    <3>. QED
      BY <1>1, <3>1 DEF WorkInv, WorkOf, Stack, Spared
  <2>. QED
    BY <2>1, <2>2, <2>3 DEF BaseInv, WorkInv
<1>3. CASE UNCHANGED vars
  BY <1>3
  DEF BaseInv, TypeOK, UpInv, WorkInv, WorkOf, Stack, vars, node, locals,
      remoteLocals, lapses
<1>. QED
  BY <1>2, <1>3, SomeoneActs

LEMMA BaseInit ==
  ASSUME Init
  PROVE  BaseInv
<1>. USE UpdateConstants DEF Init
<1>1. NodeOK
  BY UpdateAssumption DEF NodeOK
<1>2. LocalsOK
  BY DEF LocalsOK
<1>3. BookOK
  BY DEF BookOK, Pcs, Codes
<1>4. UpInv
  BY DEF UpInv
<1>5. WorkInv
  BY DEF WorkInv, WorkOf, Stack
<1>6. LapsesOK
  BY DEF LapsesOK
<1>. QED
  BY <1>1, <1>2, <1>3, <1>4, <1>5, <1>6, TypeParts DEF BaseInv

\* Types, with every fault: in particular no rollback and no recreate ever
\* puts `:latest` on the image of a missing container, and only services of
\* the stack that was found are recreated and taken back.
THEOREM UpdateTypes == Spec => []BaseInv
<1>1. Init => BaseInv
  BY BaseInit
<1>2. BaseInv /\ [Next]_vars => BaseInv'
  BY BaseStep
<1>. QED
  BY <1>1, <1>2, PTL DEF Spec

-----------------------------------------------------------------------------
(* One update at a time.                                                   *)

\* At most one of the two locks is taken, and whoever is at work has it.
LockOf(r) == pc[r] \in Holding <=> lock["data"] = r \/ lock["cfg"] = r

LockInv ==
  /\ lock["data"] = NoRun \/ lock["cfg"] = NoRun
  /\ \A r \in Runs : LockOf(r)

\* Both updates change the node one at a time.
OneUpdateAtATime ==
  \A q, r \in Runs : pc[q] \in Holding /\ pc[r] \in Holding => q = r

\* A run takes the lock from nobody.
LocksSpared(r) ==
  \A q \in Runs \ {r}, k \in {"data", "cfg"} : lock'[k] = q <=> lock[k] = q

OwnLock(r) ==
  /\ lock'["data"] = NoRun \/ lock'["cfg"] = NoRun
  /\ LockOf(r)' /\ LocksSpared(r)

\* A run has the lock while it is at work, and takes it from nobody.
LEMMA LockOwn ==
  ASSUME TypeOK, LockInv, NEW r \in Runs, Acts(r), ~overlap'
  PROVE  OwnLock(r)
<1>0. ASSUME Forgets(r), lock' = Unlocked(r) PROVE OwnLock(r)
  <2>1. pc'[r] = "ended"
    BY <1>0, TypeParts, ForgetsTyped
  <2>. QED
    BY <1>0, <2>1, UpdateConstants
    DEF OwnLock, LocksSpared, LockInv, LockOf, TypeOK, Unlocked, Holding,
        RemoteHeld, HostHeld, Mutating, Armed
<1>. USE UpdateConstants
     DEF OwnLock, LocksSpared, LockInv, LockOf, TypeOK, Goto, Returns,
         Holding, RemoteHeld, HostHeld, Mutating, Armed
<1>1. CASE RemoteKilled(r) \/ RemoteTurnedAway(r) \/ HostInterrupted(r)
        \/ HostTurnedAway(r) \/ Unlock(r)
  BY <1>0, <1>1, WhoForgets
<1>2. CASE RemoteLocks(r)
  <2>1. /\ lock["data"] = NoRun /\ lock["cfg"] = NoRun
        /\ lock' = [lock EXCEPT !["data"] = r]
    BY <1>2 DEF RemoteLocks, Take
  <2>2. pc'[r] = "r_discover"
    BY <1>2 DEF RemoteLocks
  <2>. QED
    BY <2>1, <2>2
<1>3. CASE RemoteRollsBackOne(r)
  BY <1>3 DEF RemoteRollsBackOne
<1>4. CASE HostFindsSame(r)
  <2>1. CASE Forgets(r) /\ lock' = Unlocked(r)
    BY <1>0, <2>1
  <2>2. CASE Goto(r, "h_lock") /\ lock' = lock /\ pc[r] = "h_same"
    BY <2>2
  <2>. QED
    BY <1>4, <2>1, <2>2 DEF HostFindsSame, Ends
<1>5. CASE HostLocks(r)
  <2>1. PICK k \in {"data", "cfg"} : Take(r, k)
    BY <1>5 DEF HostLocks, LockPlaces
  <2>2. /\ lock["data"] = NoRun /\ lock["cfg"] = NoRun
        /\ lock' = [lock EXCEPT ![k] = r]
    BY <2>1 DEF Take
  <2>3. pc'[r] = "h_check"
    BY <1>5 DEF HostLocks
  <2>. QED
    BY <2>2, <2>3
<1>6. CASE RemoteDiscovers(r)
  BY <1>6 DEF RemoteDiscovers
<1>7. CASE RemoteVerifies(r) \/ RemoteSnapshots(r)
  BY <1>7 DEF RemoteVerifies, RemoteSnapshots
<1>8. CASE RemoteTags(r) \/ RemoteRecreates(r)
  BY <1>8 DEF RemoteTags, RemoteRecreates
<1>9. CASE RemoteGates(r) \/ RemoteRegates(r)
  BY <1>9 DEF RemoteGates, RemoteRegates
<1>11. CASE HostRechecks(r) \/ HostPins(r)
  BY <1>11 DEF HostRechecks, HostPins
<1>12. CASE HostArms(r) \/ HostPulls(r)
  BY <1>12 DEF HostArms, HostPulls
<1>13. CASE HostUps(r) \/ HostGates(r)
  BY <1>13 DEF HostUps, HostGates
<1>14. CASE HostRestores(r) \/ HostReups(r)
  BY <1>14 DEF HostRestores, HostReups
<1>15. CASE HostDisarms(r)
  BY <1>15 DEF HostDisarms
<1>16. ASSUME NEW v \in Versions \cup {Latest}, SpawnUpdater(r, v)
      PROVE  OwnLock(r)
  BY <1>16 DEF SpawnUpdater
<1>17. ASSUME NEW v \in Versions \cup {Latest}, NEW a \in BOOLEAN,
              HostResolves(r, v, a)
      PROVE  OwnLock(r)
  <2>1. CASE Forgets(r) /\ lock' = Unlocked(r)
    BY <1>0, <2>1
  <2>2. CASE Goto(r, "h_same") /\ lock' = lock /\ pc[r] = "idle"
    BY <2>2
  <2>. QED
    BY <1>17, <2>1, <2>2 DEF HostResolves, Refuses, Ends
<1>. QED
  BY <1>1, <1>2, <1>3, <1>4, <1>5, <1>6, <1>7, <1>8, <1>9, <1>11, <1>12,
     <1>13, <1>14, <1>15, <1>16, <1>17 DEF Acts, RemoteStep, HostStep

\* While a run is at work no other changes the node.
LEMMA OthersWait ==
  ASSUME TypeOK, LockInv, NEW r \in Runs, NEW q \in Runs \ {r},
         pc[q] \in Holding, Acts(r), ~overlap'
  PROVE  UNCHANGED <<node, accepted>>
<1>. USE UpdateConstants
     DEF LockInv, LockOf, TypeOK, Holding, RemoteHeld, HostHeld, Mutating,
         Armed
<1>0. ASSUME NEW k \in {"data", "cfg"}, Take(r, k) PROVE FALSE
  <2>1. \E j \in {"data", "cfg"} : lock[j] # NoRun
    OBVIOUS
  <2>. QED
    BY <1>0, <2>1 DEF Take
<1>1. CASE RemoteLocks(r)
  BY <1>0, <1>1 DEF RemoteLocks
<1>2. CASE HostInterrupted(r)
  BY <1>2 DEF HostInterrupted, node
<1>3. CASE HostLocks(r)
  BY <1>0, <1>3 DEF HostLocks, LockPlaces
<1>4. CASE RemoteKilled(r) \/ RemoteTurnedAway(r) \/ RemoteDiscovers(r)
  BY <1>4 DEF RemoteKilled, RemoteTurnedAway, RemoteDiscovers, node
<1>5. CASE RemoteVerifies(r) \/ RemoteSnapshots(r) \/ RemoteTags(r)
  BY <1>5 DEF RemoteVerifies, RemoteSnapshots, RemoteTags, node
<1>6. CASE RemoteRecreates(r) \/ RemoteGates(r) \/ RemoteRollsBackOne(r)
  BY <1>6 DEF RemoteRecreates, RemoteGates, RemoteRollsBackOne, node
<1>7. CASE RemoteRegates(r) \/ HostFindsSame(r) \/ HostTurnedAway(r)
  BY <1>7 DEF RemoteRegates, HostFindsSame, HostTurnedAway, node
<1>8. CASE HostRechecks(r) \/ HostPins(r) \/ HostArms(r)
  BY <1>8 DEF HostRechecks, HostPins, HostArms, node
<1>9. CASE HostPulls(r) \/ HostUps(r) \/ HostGates(r)
  BY <1>9 DEF HostPulls, HostUps, HostGates, node
<1>10. CASE HostRestores(r) \/ HostReups(r) \/ HostDisarms(r)
  BY <1>10 DEF HostRestores, HostReups, HostDisarms, node
<1>11. CASE Unlock(r)
  BY <1>11 DEF Unlock, node
<1>12. ASSUME NEW v \in Versions \cup {Latest}, SpawnUpdater(r, v)
      PROVE  UNCHANGED <<node, accepted>>
  BY <1>12 DEF SpawnUpdater, node
<1>13. ASSUME NEW v \in Versions \cup {Latest}, NEW a \in BOOLEAN,
              HostResolves(r, v, a)
      PROVE  UNCHANGED <<node, accepted>>
  BY <1>13 DEF HostResolves, node
<1>. QED
  BY <1>1, <1>2, <1>3, <1>4, <1>5, <1>6, <1>7, <1>8, <1>9, <1>10, <1>11,
     <1>12, <1>13 DEF Acts, RemoteStep, HostStep

\* Two updates that have been at work together stay on record.
LEMMA OverlapStays ==
  ASSUME BaseInv, [Next]_vars, ~overlap'
  PROVE  ~overlap
BY SomeoneActs, LapsesGrow DEF BaseInv, vars, lapses

LEMMA LockStep ==
  ASSUME TypeOK, LockInv, [Next]_vars, ~overlap'
  PROVE  LockInv'
<1>1. ASSUME NEW r \in Runs, Acts(r) PROVE LockInv'
  <2>1. OwnLock(r)
    BY <1>1, LockOwn
  <2>2. ASSUME NEW q \in Runs \ {r} PROVE LockOf(q)'
    BY <1>1, <2>1, OthersSpared DEF LockInv, LockOf, OwnLock, LocksSpared, Spared
  <2>. QED
    BY <2>1, <2>2 DEF LockInv, OwnLock
<1>2. CASE UNCHANGED vars
  BY <1>2 DEF LockInv, LockOf, vars
<1>. QED
  BY <1>1, <1>2, SomeoneActs

LEMMA LockInit ==
  ASSUME Init
  PROVE  LockInv
BY UpdateConstants
DEF Init, LockInv, LockOf, Holding, RemoteHeld, HostHeld, Mutating, Armed

\* The base of what follows, as long as no two updates were at work together.
WorkingInv == BaseInv /\ LockInv

\* Only a `greffer update` that cannot resolve the volume's mountpoint takes
\* the second lock.
OneLock == lock["cfg"] = NoRun /\ ~overlap

LEMMA OneLockStep ==
  ASSUME "mountpoint" \notin Faults, BaseInv, OneLock, [Next]_vars
  PROVE  OneLock'
<1>. USE DEF OneLock
<1>0. ASSUME NEW r \in Runs, lock' = Unlocked(r), overlap' = overlap
      PROVE  OneLock'
  BY <1>0 DEF Unlocked
<1>1. ASSUME NEW r \in Runs, Acts(r) PROVE OneLock'
  <2>. USE <1>1 DEF lapses, locals
  <2>1. CASE RemoteKilled(r) \/ RemoteTurnedAway(r) \/ HostInterrupted(r)
          \/ HostTurnedAway(r) \/ Unlock(r)
    <3>1. overlap' = overlap
      BY <2>1
      DEF RemoteKilled, RemoteTurnedAway, HostInterrupted, HostTurnedAway,
          Unlock
    <3>. QED
      BY <1>0, <2>1, <3>1, WhoForgets
  <2>2. CASE RemoteLocks(r) \/ HostLocks(r)
    BY <2>2 DEF RemoteLocks, HostLocks, LockPlaces, Fault, Take, BaseInv, TypeOK
  <2>3. CASE HostFindsSame(r)
    <3>1. overlap' = overlap
      BY <2>3 DEF HostFindsSame
    <3>. QED
      BY <1>0, <2>3, <3>1, WhoForgets
  <2>4. CASE RemoteDiscovers(r) \/ RemoteVerifies(r) \/ RemoteSnapshots(r)
          \/ RemoteTags(r)
    BY <2>4 DEF RemoteDiscovers, RemoteVerifies, RemoteSnapshots, RemoteTags
  <2>5. CASE RemoteRecreates(r) \/ RemoteGates(r) \/ RemoteRollsBackOne(r)
          \/ RemoteRegates(r)
    BY <2>5
    DEF RemoteRecreates, RemoteGates, RemoteRollsBackOne, RemoteRegates
  <2>6. CASE HostRechecks(r) \/ HostPins(r) \/ HostArms(r) \/ HostPulls(r)
    BY <2>6 DEF HostRechecks, HostPins, HostArms, HostPulls
  <2>7. CASE HostUps(r) \/ HostGates(r) \/ HostRestores(r) \/ HostReups(r)
          \/ HostDisarms(r)
    BY <2>7 DEF HostUps, HostGates, HostRestores, HostReups, HostDisarms
  <2>8. ASSUME NEW v \in Versions \cup {Latest}, SpawnUpdater(r, v)
        PROVE  OneLock'
    BY <2>8 DEF SpawnUpdater
  <2>9. ASSUME NEW v \in Versions \cup {Latest}, NEW a \in BOOLEAN,
               HostResolves(r, v, a)
        PROVE  OneLock'
    <3>1. overlap' = overlap
      BY <2>9 DEF HostResolves
    <3>. QED
      BY <1>0, <2>9, <3>1, ResolvesOrForgets
  <2>. QED
    BY <2>1, <2>2, <2>3, <2>4, <2>5, <2>6, <2>7, <2>8, <2>9
    DEF Acts, RemoteStep, HostStep
<1>2. CASE UNCHANGED vars
  BY <1>2 DEF vars, lapses
<1>. QED
  BY <1>1, <1>2, SomeoneActs

\* Where the volume's mountpoint can be resolved, and so both updates lock the
\* same file, at most one of them is between its lock and its release, with
\* every other fault: what a crash or a signal frees is the lock of a run that
\* will do nothing more (acquire_lock, _acquire_update_lock).
THEOREM UpdatesExclude ==
  ASSUME "mountpoint" \notin Faults
  PROVE  Spec => [](OneUpdateAtATime /\ ~overlap)
<1>. DEFINE Inv == WorkingInv /\ OneLock
<1>1. Init => Inv
  <2>1. Init => OneLock
    BY DEF Init, OneLock
  <2>. QED
    BY <2>1, BaseInit, LockInit DEF WorkingInv
<1>2. Inv /\ [Next]_vars => Inv'
  <2>. SUFFICES ASSUME Inv, [Next]_vars PROVE Inv'
    OBVIOUS
  <2>1. BaseInv' /\ OneLock'
    BY BaseStep, OneLockStep DEF WorkingInv
  <2>2. LockInv'
    BY <2>1, LockStep DEF WorkingInv, BaseInv, OneLock
  <2>. QED
    BY <2>1, <2>2 DEF WorkingInv
<1>3. Inv => OneUpdateAtATime /\ ~overlap
  BY UpdateConstants
  DEF WorkingInv, LockInv, LockOf, OneUpdateAtATime, OneLock
<1>. QED
  BY <1>1, <1>2, <1>3, PTL DEF Spec

-----------------------------------------------------------------------------
(* Rollbacks.                                                              *)

\* What is left to take back: a service that is not in done and runs is on its
\* old image.
RemoteBackInv(r) ==
  /\ pc[r] \in Mutating =>
       \A s \in Services \ done[r] : up[s] => image[s] = old[r][s]
  /\ r \in Remotes /\ pc[r] = "unlock" /\ result[r] = "rolled_back" =>
       \A s \in Stack(r) : image[s] = old[r][s] /\ up[s]

\* A remote update takes back, in any order of failures, all it has to.
LEMMA RemoteBackOwn ==
  ASSUME WorkingInv, NEW r \in Runs, RemoteBackInv(r), Acts(r)
  PROVE  RemoteBackInv(r)'
<1>0. ASSUME Forgets(r) PROVE RemoteBackInv(r)'
  <2>1. pc'[r] = "ended"
    BY <1>0, TypeParts, ForgetsTyped DEF WorkingInv, BaseInv
  <2>. QED
    BY <2>1 DEF RemoteBackInv, Mutating
<1>. USE UpdateConstants
     DEF WorkingInv, BaseInv, TypeOK, RemoteBackInv, Stack, Goto, Returns, Mutating
<1>1. CASE RemoteKilled(r) \/ RemoteTurnedAway(r) \/ HostInterrupted(r)
        \/ HostTurnedAway(r) \/ Unlock(r)
  BY <1>0, <1>1, WhoForgets
<1>2. CASE r \in Remotes /\ RemoteDiscovers(r)
  BY <1>2 DEF RemoteDiscovers
<1>3. CASE r \in Remotes /\ RemoteVerifies(r)
  BY <1>3 DEF RemoteVerifies
<1>4. CASE r \in Remotes /\ RemoteSnapshots(r)
  <2>1. UNCHANGED <<image, up, old, done>>
    BY <1>4 DEF RemoteSnapshots, node
  <2>2. \/ image = old[r] /\ pc'[r] = "r_tag"
        \/ pc'[r] = "unlock" /\ result'[r] = "refused"
    BY <1>4 DEF RemoteSnapshots
  <2>. QED
    BY <2>1, <2>2
<1>5. CASE r \in Remotes /\ RemoteTags(r)
  BY <1>5 DEF RemoteTags, locals, remoteLocals
<1>6. CASE r \in Remotes /\ RemoteRecreates(r)
  <2>. DEFINE s == Min(todo[r])
  <2>1. s \in todo[r] /\ s \in Services
    BY <1>6, MinIsMember DEF RemoteRecreates, WorkInv, WorkOf
  <2>2. /\ pc[r] = "r_recreate" /\ pc'[r] \in {"r_tag", "r_rollback"}
        /\ old' = old
        /\ done'[r] = done[r] \cup {s} \/ (done'[r] = done[r] /\ ~up'[s])
        /\ \A x \in Services \ {s} : image'[x] = image[x] /\ up'[x] = up[x]
    <3>. HIDE DEF s
    <3>1. CASE Recreated(s, latest[s]) /\ done'[r] = done[r] \cup {s}
      BY <1>6, <2>1, <3>1 DEF RemoteRecreates, Recreated
    <3>2. CASE BreaksOff(s, latest[s])
      BY <1>6, <2>1, <3>2 DEF RemoteRecreates, BreaksOff, s
    <3>. QED
      BY <1>6, <3>1, <3>2 DEF RemoteRecreates, s
  <2>. QED
    BY <2>1, <2>2
<1>7. CASE r \in Remotes /\ RemoteGates(r)
  BY <1>7 DEF RemoteGates, node, locals, remoteLocals
<1>8. CASE r \in Remotes /\ RemoteRollsBackOne(r)
  <2>. DEFINE s == Max(done[r])
  <2>1. s \in done[r] /\ s \in Services
    BY <1>8, MaxIsMember DEF RemoteRollsBackOne
  <2>2. /\ pc[r] = "r_rollback" /\ pc' = pc /\ old' = old
        /\ done'[r] = done[r] \ {s}
        /\ up'[s] => image'[s] = old[r][s]
        /\ \A x \in Services \ {s} : image'[x] = image[x] /\ up'[x] = up[x]
    <3>1. CASE Recreated(s, old[r][s])
      BY <1>8, <2>1, <3>1 DEF RemoteRollsBackOne, Recreated
    <3>2. CASE BreaksOff(s, old[r][s])
      BY <1>8, <2>1, <3>2 DEF RemoteRollsBackOne, BreaksOff
    <3>. QED
      BY <1>8, <3>1, <3>2 DEF RemoteRollsBackOne
  <2>. QED
    BY <2>1, <2>2
<1>9. CASE r \in Remotes /\ RemoteRegates(r)
  BY <1>9 DEF RemoteRegates, node, locals, remoteLocals
<1>11. CASE r \in Remotes /\ RemoteLocks(r)
  BY <1>11 DEF RemoteLocks
<1>12. CASE r \in Hosts /\ HostFindsSame(r)
  BY <1>0, <1>12, WhoForgets
<1>13. CASE r \in Hosts /\ HostLocks(r)
  BY <1>13 DEF HostLocks
<1>14. CASE r \in Hosts /\ (HostRechecks(r) \/ HostPins(r))
  BY <1>14 DEF HostRechecks, HostPins
<1>15. CASE r \in Hosts /\ (HostArms(r) \/ HostPulls(r))
  BY <1>15 DEF HostArms, HostPulls
<1>16. CASE r \in Hosts /\ (HostUps(r) \/ HostGates(r))
  BY <1>16 DEF HostUps, HostGates
<1>17. CASE r \in Hosts /\ (HostRestores(r) \/ HostReups(r))
  BY <1>17 DEF HostRestores, HostReups
<1>18. CASE r \in Hosts /\ HostDisarms(r)
  BY <1>18 DEF HostDisarms
<1>19. ASSUME NEW v \in Versions \cup {Latest}, r \in Remotes,
              SpawnUpdater(r, v)
      PROVE  RemoteBackInv(r)'
  BY <1>19 DEF SpawnUpdater
<1>20. ASSUME NEW v \in Versions \cup {Latest}, NEW a \in BOOLEAN,
              r \in Hosts, HostResolves(r, v, a)
      PROVE  RemoteBackInv(r)'
  BY <1>0, <1>20, ResolvesOrForgets
<1>. QED
  BY <1>1, <1>2, <1>3, <1>4, <1>5, <1>6, <1>7, <1>8, <1>9, <1>11,
     <1>12, <1>13, <1>14, <1>15, <1>16, <1>17, <1>18, <1>19, <1>20
  DEF Acts, RemoteStep, HostStep

\* A run that is at work meets the node as it left it.
LEMMA AtWorkUndisturbed ==
  ASSUME WorkingInv, NEW r \in Runs, Acts(r), ~overlap', NEW q \in Runs \ {r}
  PROVE  Spared(q) /\ (pc[q] \in Holding => UNCHANGED <<node, accepted>>)
BY OthersSpared, OthersWait DEF WorkingInv, BaseInv

\* Every step of the system keeps it, for every run.
LEMMA RemoteBackStep ==
  ASSUME WorkingInv, [Next]_vars, ~overlap',
         \A q \in Runs : RemoteBackInv(q)
  PROVE  \A q \in Runs : RemoteBackInv(q)'
<1>1. ASSUME NEW r \in Runs, Acts(r), NEW q \in Runs PROVE RemoteBackInv(q)'
  <2>1. CASE q = r
    BY <1>1, <2>1, RemoteBackOwn
  <2>2. CASE q # r
    BY <1>1, <2>2, AtWorkUndisturbed
    DEF RemoteBackInv, Spared, Stack, node, Holding, RemoteHeld, Mutating
  <2>. QED
    BY <2>1, <2>2
<1>2. CASE UNCHANGED vars
  BY <1>2 DEF RemoteBackInv, Stack, vars, node, locals, remoteLocals
<1>. QED
  BY <1>1, <1>2, SomeoneActs

\* A remote update that reports a rollback has put every container back,
\* whatever failed on the way: a recreate that broke off, one whose service
\* was never recorded, a tag that could not be moved (run_remote_update,
\* _rollback).
THEOREM RemoteRollbackSound == Spec => []RemoteRollbackRestores
<1>. DEFINE Back == LockInv /\ \A q \in Runs : RemoteBackInv(q)
            Inv == BaseInv /\ (overlap \/ Back)
<1>1. Init => Inv
  <2>1. Init => \A q \in Runs : RemoteBackInv(q)
    BY DEF Init, RemoteBackInv, Mutating
  <2>. QED
    BY <2>1, BaseInit, LockInit
<1>2. Inv /\ [Next]_vars => Inv'
  <2>. SUFFICES ASSUME Inv, [Next]_vars, ~overlap' PROVE BaseInv' /\ Back'
    BY BaseStep
  <2>1. ~overlap
    BY OverlapStays
  <2>2. LockInv'
    BY <2>1, LockStep DEF BaseInv
  <2>3. \A q \in Runs : RemoteBackInv(q)'
    BY <2>1, RemoteBackStep DEF WorkingInv
  <2>. QED
    BY <2>2, <2>3, BaseStep
<1>3. Inv => RemoteRollbackRestores
  BY UpdateConstants DEF RemoteBackInv, RemoteRollbackRestores
<1>. QED
  BY <1>1, <1>2, <1>3, PTL DEF Spec

\* A container is the one found, or one `up` made from the target.
HostBackInv(r) ==
  /\ pc[r] \in {"h_check", "h_pin", "h_arm", "h_pull", "h_up"} =>
       image = old[r]
  /\ pc[r] \in {"h_arm", "h_pull", "h_up"} => pin = target[r]
  /\ pc[r] = "h_reup" => pin = oldPin[r]
  /\ pc[r] \in {"h_gate", "h_restore", "h_reup"} =>
       \A s \in Services :
         \/ image[s] = old[r][s]
         \/ /\ made[s] = <<target[r], Resolves(target[r], s)>>
            /\ image[s] = Resolves(target[r], s)
  /\ /\ r \in Hosts /\ pc[r] \in {"h_disarm", "unlock"}
     /\ result[r] = "rolled_back"
     /\ \A s \in Services : old[r][s] = Resolves(oldPin[r], s)
     => image = old[r]

\* What `up` made can be told by its labels, so that a second `up` undoes it.
LEMMA HostBackOwn ==
  ASSUME WorkingInv, NEW r \in Runs, HostBackInv(r), Acts(r)
  PROVE  HostBackInv(r)'
<1>0. ASSUME Forgets(r) PROVE HostBackInv(r)'
  <2>1. pc'[r] = "ended"
    BY <1>0, TypeParts, ForgetsTyped DEF WorkingInv, BaseInv
  <2>. QED
    BY <2>1 DEF HostBackInv
<1>. USE UpdateConstants
     DEF WorkingInv, BaseInv, TypeOK, HostBackInv, Resolves, Goto, Returns
<1>1. CASE r \in Hosts /\ HostLocks(r)
  <2>1. pc'[r] = "h_check" /\ old'[r] = image /\ image' = image
    BY <1>1 DEF HostLocks, node
  <2>. QED
    BY <2>1
<1>2. CASE r \in Hosts /\ HostRechecks(r)
  BY <1>2 DEF HostRechecks, node
<1>3. CASE r \in Hosts /\ HostPins(r)
  BY <1>3 DEF HostPins
<1>4. CASE r \in Hosts /\ HostArms(r)
  BY <1>4 DEF HostArms, node, locals, remoteLocals
<1>5. CASE r \in Hosts /\ HostPulls(r)
  <2>1. /\ pc[r] = "h_pull" /\ UNCHANGED <<image, pin, target, old, oldPin>>
        /\ pc'[r] \in {"h_up", "h_disarm"}
    BY <1>5 DEF HostPulls, locals
  <2>. QED
    BY <2>1
<1>6. CASE r \in Hosts /\ HostUps(r)
  <2>1. /\ pc[r] = "h_up" /\ UNCHANGED <<latest, pin, target, old, oldPin>>
        /\ pc'[r] \in {"h_gate", "h_restore"}
        /\ \E S \in SUBSET Services : Composed(S)
    BY <1>6 DEF HostUps, ComposeUp, ComposeBreaksOff, locals
  <2>2. ASSUME NEW s \in Services
        PROVE  \/ image'[s] = old[r][s]
               \/ /\ made'[s] = <<target[r], Resolves(target[r], s)>>
                  /\ image'[s] = Resolves(target[r], s)
    BY <2>1 DEF Composed
  <2>. QED
    BY <2>1, <2>2
<1>7. CASE r \in Hosts /\ HostGates(r)
  BY <1>7 DEF HostGates, node, locals, remoteLocals
<1>8. CASE r \in Hosts /\ HostRestores(r)
  BY <1>8 DEF HostRestores, locals, remoteLocals
<1>9. CASE r \in Hosts /\ HostReups(r)
  <2>1. /\ pc[r] = "h_reup" /\ UNCHANGED <<latest, pin, target, old, oldPin>>
        /\ pc'[r] = "h_disarm" /\ pin = oldPin[r]
    BY <1>9 DEF HostReups, locals
  <2>2. CASE ~ComposeUp
    <3>1. result'[r] = "rollback_failed"
      BY <1>9, <2>2 DEF HostReups
    <3>. QED
      BY <2>1, <3>1
  <2>3. CASE ComposeUp
    <3>1. ASSUME \A s \in Services : old[r][s] = Resolves(oldPin[r], s)
          PROVE  image' = old[r]
      <4>1. ASSUME NEW s \in Services PROVE image'[s] = old[r][s]
        <5>1. CASE ~UpToDate(s)
          BY <2>1, <2>3, <3>1, <5>1 DEF ComposeUp, Composed
        <5>2. CASE UpToDate(s) /\ image[s] # old[r][s]
          <6>1. /\ made[s] = <<target[r], Resolves(target[r], s)>>
                /\ image[s] = Resolves(target[r], s)
            BY <2>1, <5>2
          <6>2. made[s] = <<oldPin[r], Resolves(oldPin[r], s)>>
            BY <2>1, <5>2 DEF UpToDate
          <6>. QED
            BY <3>1, <5>2, <6>1, <6>2
        <5>3. CASE UpToDate(s) /\ image[s] = old[r][s]
          BY <2>3, <5>3 DEF ComposeUp, Composed
        <5>. QED
          BY <5>1, <5>2, <5>3
      <4>2. image' = [s \in Services |-> image'[s]]
        BY <2>3 DEF ComposeUp, Composed
      <4>3. old[r] = [s \in Services |-> old[r][s]]
        OBVIOUS
      <4>. QED
        BY <4>1, <4>2, <4>3
    <3>. QED
      BY <2>1, <3>1
  <2>. QED
    BY <2>2, <2>3
<1>10. CASE r \in Hosts /\ HostDisarms(r)
  BY <1>10 DEF HostDisarms, locals, remoteLocals
<1>11. CASE r \in Remotes /\ RemoteLocks(r)
  BY <1>11 DEF RemoteLocks, node, locals, remoteLocals
<1>12. CASE r \in Remotes /\ RemoteDiscovers(r)
  BY <1>12 DEF RemoteDiscovers, node, locals, remoteLocals
<1>13. CASE r \in Remotes /\ (RemoteVerifies(r) \/ RemoteSnapshots(r))
  BY <1>13 DEF RemoteVerifies, RemoteSnapshots, node, locals, remoteLocals
<1>14. CASE r \in Remotes /\ (RemoteTags(r) \/ RemoteRecreates(r))
  BY <1>14 DEF RemoteTags, RemoteRecreates, node, locals, remoteLocals
<1>15. CASE r \in Remotes /\ (RemoteGates(r) \/ RemoteRollsBackOne(r))
  BY <1>15 DEF RemoteGates, RemoteRollsBackOne, node, locals, remoteLocals
<1>16. CASE r \in Remotes /\ RemoteRegates(r)
  BY <1>16 DEF RemoteRegates, node, locals, remoteLocals
<1>17. CASE r \in Hosts /\ HostFindsSame(r)
  BY <1>0, <1>17, WhoForgets
<1>18. CASE RemoteKilled(r) \/ RemoteTurnedAway(r) \/ HostInterrupted(r)
         \/ HostTurnedAway(r) \/ Unlock(r)
  BY <1>0, <1>18, WhoForgets
<1>20. ASSUME NEW v \in Versions \cup {Latest}, r \in Remotes,
              SpawnUpdater(r, v)
      PROVE  HostBackInv(r)'
  BY <1>20 DEF SpawnUpdater, node, locals, remoteLocals
<1>21. ASSUME NEW v \in Versions \cup {Latest}, NEW a \in BOOLEAN,
              r \in Hosts, HostResolves(r, v, a)
      PROVE  HostBackInv(r)'
  <2>1. CASE Goto(r, "h_same")
    <3>1. pc'[r] = "h_same"
      BY <2>1
    <3>. QED
      BY <3>1
  <2>. QED
    BY <1>0, <1>21, <2>1, ResolvesOrForgets
<1>. QED
  BY <1>1, <1>2, <1>3, <1>4, <1>5, <1>6, <1>7, <1>8, <1>9, <1>10, <1>11,
     <1>12, <1>13, <1>14, <1>15, <1>16, <1>17, <1>18, <1>20, <1>21
  DEF Acts, RemoteStep, HostStep

\* Every step of the system keeps it, for every run.
LEMMA HostBackStep ==
  ASSUME WorkingInv, [Next]_vars, ~overlap',
         \A q \in Runs : HostBackInv(q)
  PROVE  \A q \in Runs : HostBackInv(q)'
<1>1. ASSUME NEW r \in Runs, Acts(r), NEW q \in Runs PROVE HostBackInv(q)'
  <2>1. CASE q = r
    BY <1>1, <2>1, HostBackOwn
  <2>2. CASE q # r
    BY <1>1, <2>2, AtWorkUndisturbed
    DEF HostBackInv, Spared, Resolves, node, Holding, HostHeld, Armed
  <2>. QED
    BY <2>1, <2>2
<1>2. CASE UNCHANGED vars
  BY <1>2 DEF HostBackInv, Resolves, vars, node, locals, remoteLocals
<1>. QED
  BY <1>1, <1>2, SomeoneActs

\* A `greffer update` that reports a rollback has brought back the exact node
\* it found, if that ran what its compose file names, wherever `docker compose
\* up` broke off and whatever the tags resolve to by then (_rollback).
THEOREM HostRollbackSound == Spec => []HostRollbackRestores
<1>. DEFINE Back == LockInv /\ \A q \in Runs : HostBackInv(q)
            Inv == BaseInv /\ (overlap \/ Back)
<1>1. Init => Inv
  <2>1. Init => \A q \in Runs : HostBackInv(q)
    BY DEF Init, HostBackInv, Mutating
  <2>. QED
    BY <2>1, BaseInit, LockInit
<1>2. Inv /\ [Next]_vars => Inv'
  <2>. SUFFICES ASSUME Inv, [Next]_vars, ~overlap' PROVE BaseInv' /\ Back'
    BY BaseStep
  <2>1. ~overlap
    BY OverlapStays
  <2>2. LockInv'
    BY <2>1, LockStep DEF BaseInv
  <2>3. \A q \in Runs : HostBackInv(q)'
    BY <2>1, HostBackStep DEF WorkingInv
  <2>. QED
    BY <2>2, <2>3, BaseStep
<1>3. Inv => HostRollbackRestores
  BY UpdateConstants DEF HostBackInv, HostRollbackRestores
<1>. QED
  BY <1>1, <1>2, <1>3, PTL DEF Spec

-----------------------------------------------------------------------------
(* No update moves the node backwards by itself.                           *)

\* What a run knows of the version it may not go below, unless a read of it
\* has failed.
ForwardInv(r) ==
  /\ pc[r] \in {"r_discover", "h_check"} => RunningVersion = was[r]
  /\ pc[r] \in RemoteHeld \ {"r_discover"} =>
       /\ r \in blind \/ seen[r] = was[r]
       /\ Greffer \in Stack(r) /\ ~IsDowngrade(target[r], seen[r])
  /\ pc[r] \in {"r_snap"} \cup Mutating /\ target[r] # Latest =>
       verified[r][Greffer] = target[r]
  /\ pc[r] \in {"h_same", "h_lock", "h_check"} =>
       ~(auto[r] /\ IsDowngrade(target[r], seen[r]))
  /\ pc[r] \in {"h_pin", "h_arm", "h_pull", "h_up", "h_gate"} =>
       r \in blind \/ ~(auto[r] /\ IsDowngrade(target[r], was[r]))
  /\ /\ pc[r] \in {"h_disarm", "unlock"} /\ result[r] = "ok" /\ auto[r]
     /\ r \notin blind /\ (r \in Hosts => target[r] # Latest)
     => image[Greffer] >= was[r]

LEMMA VersionsAreNumbers ==
  ASSUME TypeOK, NEW r \in Runs
  PROVE  target[r] \in Nat /\ was[r] \in Nat /\ image[Greffer] \in Nat
<1>1. target[r] \in Versions \cup {0} /\ was[r] \in Versions \cup {0}
  BY DEF TypeOK
<1>2. image[Greffer] \in Versions \cup {0}
  BY UpdateConstants DEF TypeOK
<1>3. \A v \in Versions \cup {0} : v \in Nat
  BY UpdateConstants
<1>. QED
  BY <1>1, <1>2, <1>3

\* What a run decided on, under the lock, is the version that runs.
LEMMA ForwardOwn ==
  ASSUME WorkingInv, NEW r \in Runs, ForwardInv(r), Acts(r)
  PROVE  ForwardInv(r)'
<1>0. ASSUME Forgets(r) PROVE ForwardInv(r)'
  <2>1. pc'[r] = "ended"
    BY <1>0, TypeParts, ForgetsTyped DEF WorkingInv, BaseInv
  <2>. QED
    BY <2>1 DEF ForwardInv, RemoteHeld, Mutating
<1>. USE UpdateConstants
     DEF WorkingInv, BaseInv, TypeOK, ForwardInv, IsDowngrade,
         RunningVersion, Stack, Goto, Returns, RemoteHeld, HostHeld,
         Mutating, Armed, lapses
<1>1. CASE r \in Remotes /\ RemoteLocks(r)
  BY <1>1 DEF RemoteLocks, Take, node
<1>2. CASE r \in Remotes /\ RemoteDiscovers(r)
  <2>1. PICK v \in VersionRead :
          /\ seen' = [seen EXCEPT ![r] = v]
          /\ blind' = IF v = RunningVersion THEN blind ELSE blind \cup {r}
          /\ \/ /\ image[Greffer] # Gone /\ ~IsDowngrade(target[r], v)
                /\ pc'[r] = "r_verify"
             \/ pc'[r] = "unlock" /\ result'[r] = "refused"
    BY <1>2 DEF RemoteDiscovers
  <2>2. pc[r] = "r_discover" /\ old'[r] = image /\ UNCHANGED <<target, was>>
    BY <1>2 DEF RemoteDiscovers
  <2>. QED
    BY <2>1, <2>2
<1>3. CASE r \in Remotes /\ RemoteVerifies(r)
  BY <1>3 DEF RemoteVerifies
<1>4. CASE r \in Remotes /\ RemoteSnapshots(r)
  BY <1>4 DEF RemoteSnapshots, node
<1>5. CASE r \in Remotes /\ RemoteTags(r)
  BY <1>5 DEF RemoteTags, locals, remoteLocals
<1>6. CASE r \in Remotes /\ RemoteRecreates(r)
  BY <1>6 DEF RemoteRecreates
<1>7. CASE r \in Remotes /\ RemoteGates(r)
  <2>1. CASE pc'[r] = "r_rollback"
    BY <1>7, <2>1 DEF RemoteGates, node, locals, remoteLocals
  <2>2. CASE pc'[r] # "r_rollback"
    <3>1. /\ pc[r] = "r_tag" /\ pc'[r] = "unlock"
          /\ UNCHANGED <<image, target, seen, was>>
          /\ \A s \in Stack(r) : image[s] = verified[r][s] /\ up[s]
      BY <1>7, <2>2 DEF RemoteGates, node, locals
    <3>2. PICK v \in VersionRead :
            /\ ~IsDowngrade(v, seen[r])
            /\ blind' = IF v = RunningVersion \/ target[r] # Latest
                        THEN blind ELSE blind \cup {r}
      BY <1>7, <2>2 DEF RemoteGates
    <3>3. ASSUME r \notin blind' PROVE image[Greffer] >= was[r]
      <4>1. v = RunningVersion \/ target[r] # Latest
        BY <3>2, <3>3
      <4>2. r \notin blind
        BY <3>2, <3>3
      <4>3. /\ up[Greffer] /\ image[Greffer] = verified[r][Greffer]
            /\ seen[r] = was[r] /\ ~IsDowngrade(target[r], seen[r])
        BY <3>1, <4>2
      <4>4. image[Greffer] # Gone /\ RunningVersion = image[Greffer]
        BY <4>3 DEF UpInv
      <4>5. was[r] \in Nat /\ image[Greffer] \in Nat /\ target[r] \in Nat
        BY VersionsAreNumbers
      <4>6. CASE v = RunningVersion
        BY <3>2, <4>3, <4>4, <4>5, <4>6
      <4>7. CASE target[r] # Latest
        <5>1. image[Greffer] = target[r]
          BY <3>1, <4>3, <4>7
        <5>. QED
          BY <4>3, <4>5, <4>7, <5>1
      <4>. QED
        BY <4>1, <4>6, <4>7
    <3>. QED
      BY <3>1, <3>3
  <2>. QED
    BY <2>1, <2>2
<1>8. CASE r \in Remotes /\ RemoteRollsBackOne(r)
  BY <1>8 DEF RemoteRollsBackOne
<1>9. CASE r \in Remotes /\ RemoteRegates(r)
  BY <1>9 DEF RemoteRegates
<1>10. CASE r \in Hosts /\ HostLocks(r)
  BY <1>10 DEF HostLocks, Take, node
<1>11. CASE r \in Hosts /\ HostRechecks(r)
  <2>1. PICK v \in VersionRead :
          /\ blind' = IF v = RunningVersion THEN blind ELSE blind \cup {r}
          /\ \/ /\ v # seen[r] => ~(auto[r] /\ IsDowngrade(target[r], v))
                /\ pc'[r] = "h_pin"
             \/ pc'[r] = "unlock" /\ result'[r] = "refused"
    BY <1>11 DEF HostRechecks
  <2>2. pc[r] = "h_check" /\ UNCHANGED <<target, auto, was>>
    BY <1>11 DEF HostRechecks
  <2>3. RunningVersion = was[r] /\ ~(auto[r] /\ IsDowngrade(target[r], seen[r]))
    BY <2>2
  <2>4. ASSUME pc'[r] = "h_pin", r \notin blind'
        PROVE  ~(auto[r] /\ IsDowngrade(target[r], was[r]))
    <3>1. v = was[r]
      BY <2>1, <2>3, <2>4
    <3>2. CASE v = seen[r]
      BY <2>3, <3>1, <3>2
    <3>3. CASE v # seen[r]
      BY <2>1, <2>4, <3>1, <3>3
    <3>. QED
      BY <3>2, <3>3
  <2>. QED
    BY <2>1, <2>2, <2>4
<1>12. CASE r \in Hosts /\ HostPins(r)
  BY <1>12 DEF HostPins
<1>13. CASE r \in Hosts /\ HostPulls(r)
  BY <1>13 DEF HostPulls, locals, remoteLocals
<1>14. CASE r \in Hosts /\ HostUps(r)
  BY <1>14 DEF HostUps, locals, remoteLocals
<1>15. CASE r \in Hosts /\ HostGates(r)
  <2>1. /\ pc[r] = "h_gate" /\ UNCHANGED <<image, target, auto, was, blind>>
        /\ \/ pc'[r] = "h_restore"
           \/ pc'[r] = "h_disarm" /\ image[Greffer] = Resolves(target[r], Greffer)
    BY <1>15 DEF HostGates, node, locals
  <2>2. r \in blind \/ ~(auto[r] /\ IsDowngrade(target[r], was[r]))
    BY <2>1
  <2>3. target[r] \in Nat /\ was[r] \in Nat
    BY VersionsAreNumbers
  <2>4. ASSUME pc'[r] = "h_disarm", auto[r], r \notin blind, target[r] # Latest
        PROVE  image[Greffer] >= was[r]
    <3>1. image[Greffer] = target[r]
      BY <2>1, <2>4 DEF Resolves
    <3>. QED
      BY <2>2, <2>3, <2>4, <3>1
  <2>. QED
    BY <1>15, <2>1, <2>4
<1>16. CASE r \in Hosts /\ HostReups(r)
  BY <1>16 DEF HostReups, locals, remoteLocals
<1>17. CASE r \in Hosts /\ HostDisarms(r)
  BY <1>17 DEF HostDisarms, locals, remoteLocals
<1>18. CASE RemoteKilled(r) \/ RemoteTurnedAway(r) \/ HostInterrupted(r)
         \/ HostTurnedAway(r) \/ Unlock(r)
  BY <1>0, <1>18, WhoForgets
<1>19. CASE r \in Hosts /\ HostFindsSame(r)
  <2>1. CASE Goto(r, "h_lock") /\ UNCHANGED locals
    BY <1>19, <2>1 DEF HostFindsSame, locals
  <2>. QED
    BY <1>0, <1>19, <2>1, WhoForgets
<1>20. CASE r \in Hosts /\ HostArms(r)
  BY <1>20 DEF HostArms, node, locals, remoteLocals
<1>21. CASE r \in Hosts /\ HostRestores(r)
  BY <1>21 DEF HostRestores, node, locals, remoteLocals
<1>23. ASSUME NEW v \in Versions \cup {Latest}, r \in Remotes,
              SpawnUpdater(r, v)
      PROVE  ForwardInv(r)'
  BY <1>23 DEF SpawnUpdater, node, locals, remoteLocals
<1>24. ASSUME NEW v \in Versions \cup {Latest}, NEW a \in BOOLEAN,
              r \in Hosts, HostResolves(r, v, a)
      PROVE  ForwardInv(r)'
  <2>1. CASE ~Forgets(r)
    <3>1. PICK c \in VersionRead :
            /\ ~(a /\ IsDowngrade(v, c))
            /\ target'[r] = v /\ auto'[r] = a /\ seen'[r] = c
      BY <1>24, <2>1, ResolvesOrForgets
    <3>2. pc'[r] = "h_same"
      BY <1>24, <2>1, ResolvesOrForgets
    <3>. QED
      BY <3>1, <3>2
  <2>. QED
    BY <1>0, <2>1
<1>. QED
  BY <1>1, <1>2, <1>3, <1>4, <1>5, <1>6, <1>7, <1>8, <1>9, <1>10, <1>11,
     <1>12, <1>13, <1>14, <1>15, <1>16, <1>17, <1>18, <1>19, <1>20, <1>21,
     <1>23, <1>24 DEF Acts, RemoteStep, HostStep

\* Every step of the system keeps it, for every run.
LEMMA ForwardStep ==
  ASSUME WorkingInv, [Next]_vars, ~overlap', \A q \in Runs : ForwardInv(q)
  PROVE  \A q \in Runs : ForwardInv(q)'
<1>1. ASSUME NEW r \in Runs, Acts(r), NEW q \in Runs PROVE ForwardInv(q)'
  <2>1. CASE q = r
    BY <1>1, <2>1, ForwardOwn
  <2>2. CASE q # r
    <3>1. Spared(q) /\ (pc[q] \in Holding => UNCHANGED <<node, accepted>>)
      BY <1>1, <2>2, AtWorkUndisturbed
    <3>2. q \in blind => q \in blind'
      BY <1>1, LapsesGrow DEF WorkingInv, BaseInv
    <3>. QED
      BY <3>1, <3>2
      DEF ForwardInv, Spared, Stack, RunningVersion, IsDowngrade, node,
          Holding, HostHeld, RemoteHeld, Mutating, Armed
  <2>. QED
    BY <2>1, <2>2
<1>2. CASE UNCHANGED vars
  BY <1>2
  DEF ForwardInv, Stack, RunningVersion, IsDowngrade, vars, node, locals,
      remoteLocals, lapses
<1>. QED
  BY <1>1, <1>2, SomeoneActs

\* An update nobody chose the version of, and a remote one whatever tag it was
\* sent, never succeeds in moving the node below the version that ran when it
\* took the lock, if the reads it decided on told it that version: what the
\* other updates did before that is seen by the check under the lock, and after
\* it they are kept out, unless at the other lock.
THEOREM NeverBackwards == Spec => []AutoNeverBackwards
<1>. DEFINE Forward == LockInv /\ \A q \in Runs : ForwardInv(q)
            Inv == BaseInv /\ (overlap \/ Forward)
<1>1. Init => Inv
  <2>1. Init => \A q \in Runs : ForwardInv(q)
    BY DEF Init, ForwardInv, RemoteHeld, HostHeld, Mutating, Armed
  <2>. QED
    BY <2>1, BaseInit, LockInit
<1>2. Inv /\ [Next]_vars => Inv'
  <2>. SUFFICES ASSUME Inv, [Next]_vars, ~overlap' PROVE BaseInv' /\ Forward'
    BY BaseStep
  <2>1. ~overlap
    BY OverlapStays
  <2>2. LockInv'
    BY <2>1, LockStep DEF BaseInv
  <2>3. \A q \in Runs : ForwardInv(q)'
    BY <2>1, ForwardStep DEF WorkingInv
  <2>. QED
    BY <2>2, <2>3, BaseStep
<1>3. Inv => AutoNeverBackwards
  BY DEF ForwardInv, AutoNeverBackwards
<1>. QED
  BY <1>1, <1>2, <1>3, PTL DEF Spec

-----------------------------------------------------------------------------
(* Nothing rejected is left behind.                                        *)

\* What a bare `docker compose up` would apply, by tag and by pin, but for the
\* tags and the pin a run has left behind.
LatestGood == \A s \in Services \ strayTags : latest[s] \in accepted[s]
GoodPin(p) == strayPin \/ (p # Latest => \A s \in Services : p \in accepted[s])
Good == LatestGood /\ GoodPin(pin)

\* A container is on the image its labels name unless a remote update moved
\* it, and that image was good by then.
MadeInv ==
  \A s \in Services : image[s] \in {made[s][2], Gone} \/ made[s][2] \in accepted[s]

FreeInv == lock["data"] = NoRun /\ lock["cfg"] = NoRun => Good

\* Before a run has changed anything, and when it is done.
Resting == {"r_discover", "r_verify", "r_snap", "h_check", "h_pin", "unlock"}

RestInv(r) == pc[r] \in Resting => Good

\* A remote update knows what it tries, and goes back to what was good.
RemoteGoodInv(r) ==
  /\ pc[r] = "r_discover" =>
       \A s \in Services : image[s] # Gone =>
         image[s] \in accepted[s] /\ made[s][2] \in accepted[s]
  /\ pc[r] \in {"r_verify", "r_snap"} \cup Mutating =>
       \A s \in Stack(r) : old[r][s] \in accepted[s] /\ made[s][2] \in accepted[s]
  /\ pc[r] \in Mutating =>
       /\ GoodPin(pin)
       /\ \A s \in Services \ (Tried(r) \cup strayTags) :
            latest[s] \in accepted[s]
  /\ pc[r] \in {"r_tag", "r_recreate"} =>
       \A s \in Tried(r) : latest[s] = verified[r][s]

\* A host update moves the tag `latest` only when asked for it, and has a good
\* pin to go back to until its own has passed the gate.
HostGoodInv(r) ==
  /\ pc[r] \in {"idle", "h_same", "h_lock"} \cup (HostHeld \ {"h_disarm"}) =>
       result[r] = "none"
  /\ pc[r] \in {"h_check", "h_pin", "h_arm", "h_pull"} => LatestGood
  /\ pc[r] \in HostHeld /\ target[r] # Latest => LatestGood
  /\ pc[r] \in {"h_arm"} \cup Armed => GoodPin(oldPin[r])
  /\ pc[r] \in {"h_arm", "h_pull", "h_up", "h_gate"} => pin = target[r]
  /\ pc[r] = "h_gate" => \A s \in Services : made[s][2] = Resolves(pin, s)
  /\ pc[r] = "h_disarm" /\ result[r] = "ok" => LatestGood /\ GoodPin(pin)

GoodOf(r) == RestInv(r) /\ RemoteGoodInv(r) /\ HostGoodInv(r)

\* Nothing is unaccepted.
LEMMA AcceptedGrows ==
  ASSUME TypeOK, NEW r \in Runs, Acts(r)
  PROVE  \A s \in Services : accepted[s] \subseteq accepted'[s]
<1>1. CASE RemoteLocks(r)
  BY <1>1 DEF RemoteLocks, Take
<1>2. CASE RemoteGates(r)
  BY <1>2 DEF RemoteGates
<1>3. CASE HostLocks(r)
  BY <1>3 DEF HostLocks, Take
<1>4. CASE HostGates(r)
  BY <1>4 DEF HostGates
<1>5. CASE RemoteKilled(r) \/ RemoteTurnedAway(r) \/ RemoteDiscovers(r)
        \/ RemoteVerifies(r)
  BY <1>5 DEF RemoteKilled, RemoteTurnedAway, RemoteDiscovers, RemoteVerifies
<1>6. CASE RemoteSnapshots(r) \/ RemoteTags(r) \/ RemoteRecreates(r)
        \/ RemoteRollsBackOne(r)
  BY <1>6 DEF RemoteSnapshots, RemoteTags, RemoteRecreates, RemoteRollsBackOne
<1>7. CASE RemoteRegates(r) \/ HostInterrupted(r) \/ HostFindsSame(r)
        \/ HostTurnedAway(r)
  BY <1>7 DEF RemoteRegates, HostInterrupted, HostFindsSame, HostTurnedAway
<1>8. CASE HostRechecks(r) \/ HostPins(r) \/ HostArms(r) \/ HostPulls(r)
  BY <1>8 DEF HostRechecks, HostPins, HostArms, HostPulls
<1>9. CASE HostUps(r) \/ HostRestores(r) \/ HostReups(r) \/ HostDisarms(r)
  BY <1>9 DEF HostUps, HostRestores, HostReups, HostDisarms
<1>10. CASE Unlock(r)
  BY <1>10 DEF Unlock
<1>11. ASSUME NEW v \in Versions \cup {Latest}, SpawnUpdater(r, v)
      PROVE  \A s \in Services : accepted[s] \subseteq accepted'[s]
  BY <1>11 DEF SpawnUpdater
<1>12. ASSUME NEW v \in Versions \cup {Latest}, NEW a \in BOOLEAN,
              HostResolves(r, v, a)
      PROVE  \A s \in Services : accepted[s] \subseteq accepted'[s]
  BY <1>12 DEF HostResolves
<1>. QED
  BY <1>1, <1>2, <1>3, <1>4, <1>5, <1>6, <1>7, <1>8, <1>9, <1>10, <1>11, <1>12
  DEF Acts, RemoteStep, HostStep

\* A run that is not at work leaves the node alone.
LEMMA IdleHarmless ==
  ASSUME TypeOK, NEW r \in Runs, pc[r] \notin Holding, Acts(r)
  PROVE  UNCHANGED node
<1>. USE DEF Holding, RemoteHeld, HostHeld, Mutating, Armed
<1>1. CASE HostInterrupted(r)
  BY <1>1 DEF HostInterrupted, node
<1>2. CASE RemoteKilled(r) \/ RemoteLocks(r) \/ RemoteTurnedAway(r)
        \/ RemoteDiscovers(r)
  BY <1>2
  DEF RemoteKilled, RemoteLocks, RemoteTurnedAway, RemoteDiscovers, node
<1>3. CASE RemoteVerifies(r) \/ RemoteSnapshots(r) \/ RemoteTags(r)
        \/ RemoteRecreates(r)
  BY <1>3
  DEF RemoteVerifies, RemoteSnapshots, RemoteTags, RemoteRecreates, node
<1>4. CASE RemoteGates(r) \/ RemoteRollsBackOne(r) \/ RemoteRegates(r)
        \/ HostFindsSame(r)
  BY <1>4
  DEF RemoteGates, RemoteRollsBackOne, RemoteRegates, HostFindsSame, node
<1>5. CASE HostLocks(r) \/ HostTurnedAway(r) \/ HostRechecks(r) \/ HostPins(r)
  BY <1>5 DEF HostLocks, HostTurnedAway, HostRechecks, HostPins, node
<1>6. CASE HostArms(r) \/ HostPulls(r) \/ HostUps(r) \/ HostGates(r)
  BY <1>6 DEF HostArms, HostPulls, HostUps, HostGates, node
<1>7. CASE HostRestores(r) \/ HostReups(r) \/ HostDisarms(r) \/ Unlock(r)
  BY <1>7 DEF HostRestores, HostReups, HostDisarms, Unlock, node
<1>8. ASSUME NEW v \in Versions \cup {Latest}, SpawnUpdater(r, v)
      PROVE  UNCHANGED node
  BY <1>8 DEF SpawnUpdater, node
<1>9. ASSUME NEW v \in Versions \cup {Latest}, NEW a \in BOOLEAN,
             HostResolves(r, v, a)
      PROVE  UNCHANGED node
  BY <1>9 DEF HostResolves, node
<1>. QED
  BY <1>1, <1>2, <1>3, <1>4, <1>5, <1>6, <1>7, <1>8, <1>9
  DEF Acts, RemoteStep, HostStep

\* What was good stays good while tags and pin stay.
LEMMA GoodStays ==
  ASSUME BaseInv, NEW r \in Runs, Acts(r)
  PROVE  /\ LatestGood /\ latest' = latest => LatestGood'
         /\ GoodPin(pin) /\ pin' = pin => GoodPin(pin)'
         /\ Good /\ UNCHANGED <<latest, pin>> => Good'
         /\ \A q \in Runs : GoodPin(oldPin[q]) /\ oldPin'[q] = oldPin[q] =>
              GoodPin(oldPin[q])'
<1>1. strayTags \subseteq strayTags' /\ (strayPin => strayPin')
  BY LapsesGrow DEF BaseInv
<1>2. \A s \in Services : accepted[s] \subseteq accepted'[s]
  BY AcceptedGrows DEF BaseInv
<1>. QED
  BY <1>1, <1>2 DEF Good, LatestGood, GoodPin

\* Labels lie only about services whose labelled image is good.
LEMMA MadeStep ==
  ASSUME BaseInv, MadeInv, NEW r \in Runs, RemoteGoodInv(r), Acts(r)
  PROVE  MadeInv'
<1>. USE AcceptedGrows DEF BaseInv, TypeOK, MadeInv
<1>1. CASE RemoteRecreates(r)
  <2>1. Min(todo[r]) \in Stack(r) /\ accepted' = accepted /\ made' = made
    BY <1>1, MinIsMember DEF RemoteRecreates, WorkInv, WorkOf
  <2>2. made[Min(todo[r])][2] \in accepted[Min(todo[r])]
    BY <1>1, <2>1 DEF RemoteRecreates, RemoteGoodInv, Mutating
  <2>3. \A s \in Services \ {Min(todo[r])} : image'[s] = image[s]
    BY <1>1 DEF RemoteRecreates, Recreated, BreaksOff
  <2>. QED
    BY <2>1, <2>2, <2>3
<1>2. CASE RemoteRollsBackOne(r)
  <2>1. Max(done[r]) \in Stack(r) /\ accepted' = accepted /\ made' = made
    BY <1>2, MaxIsMember DEF RemoteRollsBackOne, WorkInv, WorkOf
  <2>2. made[Max(done[r])][2] \in accepted[Max(done[r])]
    BY <1>2, <2>1 DEF RemoteRollsBackOne, RemoteGoodInv, Mutating
  <2>3. \A s \in Services \ {Max(done[r])} : image'[s] = image[s]
    BY <1>2 DEF RemoteRollsBackOne, Recreated, BreaksOff
  <2>. QED
    BY <2>1, <2>2, <2>3
<1>3. CASE HostUps(r)
  <2>1. accepted' = accepted /\ \E S \in SUBSET Services : Composed(S)
    BY <1>3 DEF HostUps, ComposeUp, ComposeBreaksOff
  <2>2. ASSUME NEW s \in Services
        PROVE  \/ image'[s] = image[s] /\ made'[s] = made[s]
               \/ image'[s] = made'[s][2]
    BY <2>1 DEF Composed, UpToDate
  <2>. QED
    BY <2>1, <2>2
<1>4. CASE HostReups(r)
  <2>1. accepted' = accepted /\ \E S \in SUBSET Services : Composed(S)
    BY <1>4 DEF HostReups, ComposeUp, ComposeBreaksOff
  <2>2. ASSUME NEW s \in Services
        PROVE  \/ image'[s] = image[s] /\ made'[s] = made[s]
               \/ image'[s] = made'[s][2]
    BY <2>1 DEF Composed, UpToDate
  <2>. QED
    BY <2>1, <2>2
<1>5. CASE RemoteKilled(r) \/ RemoteLocks(r) \/ RemoteTurnedAway(r)
  BY <1>5 DEF RemoteKilled, RemoteLocks, RemoteTurnedAway, node
<1>6. CASE RemoteDiscovers(r) \/ RemoteVerifies(r) \/ RemoteSnapshots(r)
  BY <1>6 DEF RemoteDiscovers, RemoteVerifies, RemoteSnapshots, node
<1>7. CASE RemoteTags(r) \/ RemoteGates(r) \/ RemoteRegates(r)
  BY <1>7 DEF RemoteTags, RemoteGates, RemoteRegates, node
<1>8. CASE HostInterrupted(r) \/ HostFindsSame(r) \/ HostLocks(r)
  BY <1>8 DEF HostInterrupted, HostFindsSame, HostLocks, node
<1>9. CASE HostTurnedAway(r) \/ HostRechecks(r) \/ HostPins(r)
  BY <1>9 DEF HostTurnedAway, HostRechecks, HostPins, node
<1>10. CASE HostArms(r) \/ HostPulls(r) \/ HostGates(r)
  BY <1>10 DEF HostArms, HostPulls, HostGates, node
<1>11. CASE HostRestores(r) \/ HostDisarms(r) \/ Unlock(r)
  BY <1>11 DEF HostRestores, HostDisarms, Unlock, node
<1>12. ASSUME NEW v \in Versions \cup {Latest}, SpawnUpdater(r, v)
      PROVE  MadeInv'
  BY <1>12 DEF SpawnUpdater, node
<1>13. ASSUME NEW v \in Versions \cup {Latest}, NEW a \in BOOLEAN,
              HostResolves(r, v, a)
      PROVE  MadeInv'
  BY <1>13 DEF HostResolves, node
<1>. QED
  BY <1>1, <1>2, <1>3, <1>4, <1>5, <1>6, <1>7, <1>8, <1>9, <1>10, <1>11,
     <1>12, <1>13 DEF Acts, RemoteStep, HostStep

\* A run that takes a lock, with nobody at the other, finds both free.
LEMMA TakesFree ==
  ASSUME TypeOK, NEW r \in Runs, ~overlap'
  PROVE  \A k \in {"data", "cfg"} :
           Take(r, k) => lock["data"] = NoRun /\ lock["cfg"] = NoRun
BY DEF Take

\* A run that gives up or is done leaves what is good.
LEMMA RestOwn ==
  ASSUME BaseInv, MadeInv, FreeInv, NEW r \in Runs, GoodOf(r), Acts(r),
         ~overlap'
  PROVE  RestInv(r)'
<1>0. ASSUME Forgets(r) PROVE RestInv(r)'
  <2>1. pc'[r] = "ended"
    BY <1>0, TypeParts, ForgetsTyped DEF BaseInv
  <2>. QED
    BY <2>1 DEF RestInv, Resting
<1>. USE DEF TypeOK, GoodOf, RestInv, Resting, Goto, Returns
<1>1. CASE RemoteLocks(r)
  <2>1. Good /\ UNCHANGED <<latest, pin>>
    BY <1>1, TakesFree DEF RemoteLocks, node, FreeInv, BaseInv
  <2>. QED
    BY <2>1, GoodStays
<1>2. CASE RemoteDiscovers(r)
  <2>1. pc[r] \in Resting /\ UNCHANGED <<latest, pin>>
    BY <1>2 DEF RemoteDiscovers, node
  <2>. QED
    BY <2>1, GoodStays
<1>3. CASE RemoteVerifies(r)
  <2>1. pc[r] \in Resting /\ UNCHANGED <<latest, pin>>
    BY <1>3 DEF RemoteVerifies, node
  <2>. QED
    BY <2>1, GoodStays
<1>4. CASE RemoteSnapshots(r)
  <2>1. pc[r] \in Resting /\ UNCHANGED <<latest, pin>>
    BY <1>4 DEF RemoteSnapshots, node
  <2>. QED
    BY <2>1, GoodStays
<1>5. CASE RemoteGates(r)
  <2>1. CASE pc'[r] = "r_rollback"
    BY <2>1
  <2>2. CASE pc'[r] # "r_rollback"
    <3>1. /\ \A s \in Stack(r) : image[s] = verified[r][s]
          /\ \A s \in Stack(r) : image[s] \in accepted'[s]
          /\ pc[r] = "r_tag" /\ UNCHANGED <<latest, pin, strayTags>>
      BY <1>5, <2>2 DEF RemoteGates, node, Stack, BaseInv
    <3>2. done[r] \subseteq Stack(r) /\ Tried(r) = done[r]
      BY <3>1 DEF BaseInv, WorkInv, WorkOf, Tried
    <3>3. ASSUME NEW s \in Services \ strayTags PROVE latest[s] \in accepted'[s]
      <4>1. CASE s \in done[r]
        BY <3>1, <3>2, <4>1 DEF RemoteGoodInv
      <4>2. CASE s \notin done[r]
        BY <3>1, <3>2, <4>2, AcceptedGrows DEF RemoteGoodInv, Mutating, BaseInv
      <4>. QED
        BY <4>1, <4>2
    <3>4. GoodPin(pin)'
      BY <3>1, GoodStays DEF RemoteGoodInv, Mutating
    <3>. QED
      BY <3>1, <3>3, <3>4 DEF Good, LatestGood
  <2>. QED
    BY <2>1, <2>2
<1>6. CASE RemoteRollsBackOne(r)
  <2>1. pc[r] = "r_rollback" /\ pc' = pc
    BY <1>6 DEF RemoteRollsBackOne, BaseInv
  <2>. QED
    BY <2>1
<1>7. CASE RemoteRegates(r)
  <2>1. /\ pc[r] = "r_rollback" /\ done[r] = {}
        /\ UNCHANGED <<latest, pin>>
    BY <1>7 DEF RemoteRegates, node
  <2>2. Good
    BY <2>1 DEF RemoteGoodInv, Mutating, Tried, Good, LatestGood
  <2>. QED
    BY <2>1, <2>2, GoodStays
<1>8. CASE HostLocks(r)
  <2>1. Good /\ UNCHANGED <<latest, pin>>
    BY <1>8, TakesFree DEF HostLocks, LockPlaces, node, FreeInv, BaseInv
  <2>. QED
    BY <2>1, GoodStays
<1>9. CASE HostRechecks(r)
  <2>1. pc[r] \in Resting /\ UNCHANGED <<latest, pin>>
    BY <1>9 DEF HostRechecks, node
  <2>. QED
    BY <2>1, GoodStays
<1>10. CASE HostDisarms(r)
  <2>1. /\ pc[r] = "h_disarm" /\ UNCHANGED <<latest, accepted, oldPin, strayPin>>
        /\ pin' = IF result[r] = "ok" THEN pin ELSE oldPin[r]
        /\ strayTags' = strayTags \cup LeftPulled(r)
    BY <1>10 DEF HostDisarms, locals
  <2>2. GoodPin(oldPin[r]) /\ (result[r] = "ok" => GoodPin(pin))
    BY <2>1 DEF HostGoodInv, HostHeld, Armed
  <2>3. LatestGood \/ LeftPulled(r) = Services
    BY <2>1 DEF HostGoodInv, HostHeld, Armed, LeftPulled
  <2>4. LatestGood'
    BY <2>1, <2>3 DEF LatestGood
  <2>. QED
    BY <2>1, <2>2, <2>4 DEF Good, GoodPin
<1>11. CASE RemoteKilled(r) \/ RemoteTurnedAway(r) \/ HostInterrupted(r)
         \/ HostTurnedAway(r) \/ Unlock(r)
  BY <1>0, <1>11, WhoForgets
<1>12. CASE RemoteTags(r) \/ RemoteRecreates(r)
  BY <1>12 DEF RemoteTags, RemoteRecreates, BaseInv
<1>13. CASE HostFindsSame(r)
  BY <1>0, <1>13, WhoForgets DEF BaseInv
<1>14. CASE HostPins(r)
  BY <1>14 DEF HostPins, BaseInv
<1>15. CASE HostArms(r) \/ HostPulls(r)
  BY <1>15 DEF HostArms, HostPulls, BaseInv
<1>16. CASE HostUps(r) \/ HostGates(r)
  BY <1>16 DEF HostUps, HostGates, BaseInv
<1>17. CASE HostRestores(r) \/ HostReups(r)
  BY <1>17 DEF HostRestores, HostReups, BaseInv
<1>19. ASSUME NEW v \in Versions \cup {Latest}, SpawnUpdater(r, v)
      PROVE  RestInv(r)'
  BY <1>19 DEF SpawnUpdater, BaseInv
<1>20. ASSUME NEW v \in Versions \cup {Latest}, NEW a \in BOOLEAN,
              HostResolves(r, v, a)
      PROVE  RestInv(r)'
  BY <1>0, <1>20, ResolvesOrForgets DEF BaseInv
<1>. QED
  BY <1>1, <1>2, <1>3, <1>4, <1>5, <1>6, <1>7, <1>8, <1>9, <1>10, <1>11,
     <1>12, <1>13, <1>14, <1>15, <1>16, <1>17, <1>19, <1>20
  DEF Acts, RemoteStep, HostStep

\* A remote update keeps track of what it tries.
LEMMA RemoteGoodOwn ==
  ASSUME BaseInv, MadeInv, FreeInv, NEW r \in Runs, GoodOf(r), Acts(r)
  PROVE  RemoteGoodInv(r)'
<1>0. ASSUME Forgets(r) PROVE RemoteGoodInv(r)'
  <2>1. pc'[r] = "ended"
    BY <1>0, TypeParts, ForgetsTyped DEF BaseInv
  <2>. QED
    BY <2>1 DEF RemoteGoodInv, Mutating
<1>. USE DEF BaseInv, TypeOK, GoodOf, RemoteGoodInv, Tried, Stack, Mutating,
         Goto, Returns, lapses
<1>1. CASE RemoteLocks(r)
  <2>1. /\ pc'[r] = "r_discover" /\ UNCHANGED <<image, made>>
        /\ \A s \in Services :
             accepted'[s] = accepted[s] \cup ({image[s]} \ {Gone})
    BY <1>1 DEF RemoteLocks, Take, node
  <2>2. ASSUME NEW s \in Services, image[s] # Gone
        PROVE  image[s] \in accepted'[s] /\ made[s][2] \in accepted'[s]
    BY <2>1, <2>2 DEF MadeInv
  <2>. QED
    BY <2>1, <2>2
<1>2. CASE RemoteDiscovers(r)
  <2>1. /\ pc[r] = "r_discover" /\ pc'[r] \in {"r_verify", "unlock"}
        /\ old'[r] = image /\ UNCHANGED <<made, accepted>>
    BY <1>2 DEF RemoteDiscovers, node
  <2>. QED
    BY <2>1
<1>3. CASE RemoteVerifies(r)
  <2>1. /\ pc[r] = "r_verify" /\ pc'[r] \in {"r_snap", "unlock"}
        /\ UNCHANGED <<old, made, accepted>>
    BY <1>3 DEF RemoteVerifies, node
  <2>. QED
    BY <2>1
<1>4. CASE RemoteSnapshots(r)
  <2>1. /\ pc[r] = "r_snap" /\ pc'[r] \in {"r_tag", "unlock"}
        /\ UNCHANGED <<old, made, accepted, latest, pin, done, lapses>>
    BY <1>4 DEF RemoteSnapshots, node
  <2>2. done[r] = {} /\ Good
    BY <2>1 DEF WorkInv, WorkOf, Untouched, RestInv, Resting
  <2>. QED
    BY <2>1, <2>2 DEF Good, LatestGood, GoodPin
<1>5. CASE RemoteTags(r)
  <2>. DEFINE s == Min(todo[r])
  <2>1. /\ pc[r] = "r_tag" /\ s \in Services
        /\ UNCHANGED <<old, made, accepted, pin, done, todo, verified, strayPin>>
    BY <1>5, MinIsMember DEF RemoteTags, locals, remoteLocals
  <2>2. \/ /\ pc'[r] = "r_recreate" /\ latest'[s] = verified[r][s]
           /\ \A x \in Services \ {s} : latest'[x] = latest[x]
           /\ strayTags' = strayTags
        \/ pc'[r] = "r_rollback" /\ latest' = latest /\ strayTags' = strayTags
        \/ /\ pc'[r] = "r_rollback" /\ strayTags' = strayTags \cup {s}
           /\ \A x \in Services \ {s} : latest'[x] = latest[x]
    BY <1>5, <2>1 DEF RemoteTags
  <2>3. Tried(r) = done[r]
    BY <2>1
  <2>4. CASE pc'[r] = "r_recreate"
    <3>1. Tried(r)' = done[r] \cup {s}
      BY <2>1, <2>4
    <3>2. \A x \in Tried(r)' : latest'[x] = verified[r][x]
      BY <2>1, <2>2, <2>3, <2>4, <3>1 DEF WorkInv, WorkOf
    <3>3. \A x \in Services \ (Tried(r)' \cup strayTags') :
            latest'[x] \in accepted[x]
      BY <2>1, <2>2, <2>3, <2>4, <3>1
    <3>. HIDE DEF Tried
    <3>. QED
      BY <2>1, <2>4, <3>2, <3>3 DEF GoodPin
  <2>5. CASE pc'[r] = "r_rollback"
    <3>1. Tried(r)' = done[r]
      BY <2>1, <2>5
    <3>2. \A x \in Services \ (done[r] \cup strayTags') :
            latest'[x] \in accepted[x]
      BY <2>1, <2>2, <2>3, <2>5
    <3>. HIDE DEF Tried
    <3>. QED
      BY <2>1, <2>5, <3>1, <3>2 DEF GoodPin
  <2>. QED
    BY <2>2, <2>4, <2>5
<1>6. CASE RemoteRecreates(r)
  <2>. DEFINE s == Min(todo[r])
  <2>1. /\ pc[r] = "r_recreate" /\ pc'[r] \in {"r_tag", "r_rollback"}
        /\ UNCHANGED <<old, made, accepted, latest, pin, verified, strayPin>>
    BY <1>6 DEF RemoteRecreates
  <2>2. \/ done'[r] = done[r] \cup {s} /\ strayTags' = strayTags
        \/ /\ done'[r] = done[r] /\ strayTags' = strayTags \cup {s}
           /\ pc'[r] = "r_rollback"
    BY <1>6 DEF RemoteRecreates
  <2>3. Tried(r) = done[r] \cup {s} /\ Tried(r)' = done'[r]
    BY <2>1
  <2>4. /\ Tried(r)' \subseteq Tried(r)
        /\ Tried(r) \cup strayTags \subseteq Tried(r)' \cup strayTags'
    BY <2>2, <2>3
  <2>. HIDE DEF Tried
  <2>. QED
    BY <2>1, <2>4 DEF GoodPin
<1>7. CASE RemoteGates(r)
  <2>1. CASE pc'[r] = "unlock"
    BY <2>1
  <2>2. CASE pc'[r] # "unlock"
    <3>1. /\ pc[r] = "r_tag" /\ pc'[r] = "r_rollback"
          /\ UNCHANGED <<old, made, accepted, latest, pin, done, strayTags,
                         strayPin>>
      BY <1>7, <2>2 DEF RemoteGates, node, locals, remoteLocals
    <3>. QED
      BY <3>1 DEF GoodPin
  <2>. QED
    BY <2>1, <2>2
<1>8. CASE RemoteRollsBackOne(r)
  <2>. DEFINE s == Max(done[r])
  <2>1. /\ pc[r] = "r_rollback" /\ pc' = pc /\ s \in done[r]
        /\ done'[r] = done[r] \ {s}
        /\ UNCHANGED <<old, made, accepted, pin, strayPin>>
    BY <1>8, MaxIsMember DEF RemoteRollsBackOne
  <2>2. s \in Services /\ s \in Stack(r)
    BY <2>1 DEF WorkInv, WorkOf
  <2>3. /\ \/ latest'[s] = old[r][s] /\ strayTags' = strayTags
           \/ strayTags' = strayTags \cup {s}
        /\ \A x \in Services \ {s} : latest'[x] = latest[x]
    BY <1>8, <2>2 DEF RemoteRollsBackOne
  <2>4. Tried(r) = done[r] /\ Tried(r)' = done[r] \ {s}
    BY <2>1
  <2>5. old[r][s] \in accepted[s]
    BY <2>1, <2>2
  <2>6. \A x \in Services \ (Tried(r)' \cup strayTags') :
          latest'[x] \in accepted[x]
    BY <2>1, <2>3, <2>4, <2>5
  <2>. HIDE DEF Tried
  <2>. QED
    BY <2>1, <2>6 DEF GoodPin
<1>9. CASE RemoteKilled(r) \/ RemoteTurnedAway(r) \/ HostInterrupted(r)
        \/ HostTurnedAway(r) \/ Unlock(r)
  BY <1>0, <1>9, WhoForgets
<1>10. CASE RemoteRegates(r)
  BY <1>10 DEF RemoteRegates
<1>11. CASE HostFindsSame(r) \/ HostLocks(r)
  BY <1>0, <1>11, WhoForgets DEF HostLocks
<1>12. CASE HostRechecks(r)
  BY <1>12 DEF HostRechecks
<1>13. CASE HostPins(r) \/ HostArms(r)
  BY <1>13 DEF HostPins, HostArms
<1>14. CASE HostPulls(r) \/ HostUps(r)
  BY <1>14 DEF HostPulls, HostUps
<1>15. CASE HostGates(r) \/ HostRestores(r)
  BY <1>15 DEF HostGates, HostRestores
<1>16. CASE HostReups(r) \/ HostDisarms(r)
  BY <1>16 DEF HostReups, HostDisarms
<1>18. ASSUME NEW v \in Versions \cup {Latest}, SpawnUpdater(r, v)
      PROVE  RemoteGoodInv(r)'
  BY <1>18 DEF SpawnUpdater
<1>19. ASSUME NEW v \in Versions \cup {Latest}, NEW a \in BOOLEAN,
              HostResolves(r, v, a)
      PROVE  RemoteGoodInv(r)'
  BY <1>0, <1>19, ResolvesOrForgets
<1>. QED
  BY <1>1, <1>2, <1>3, <1>4, <1>5, <1>6, <1>7, <1>8, <1>9, <1>10, <1>11,
     <1>12, <1>13, <1>14, <1>15, <1>16, <1>18, <1>19
  DEF Acts, RemoteStep, HostStep

\* A host update has a good pin to go back to until its own is good.
LEMMA HostGoodOwn ==
  ASSUME BaseInv, MadeInv, FreeInv, NEW r \in Runs, GoodOf(r), Acts(r),
         ~overlap'
  PROVE  HostGoodInv(r)'
<1>0. ASSUME Forgets(r) PROVE HostGoodInv(r)'
  <2>1. pc'[r] = "ended"
    BY <1>0, TypeParts, ForgetsTyped DEF BaseInv
  <2>. QED
    BY <2>1 DEF HostGoodInv, HostHeld, Armed
<1>. USE DEF BaseInv, TypeOK, GoodOf, HostGoodInv, HostHeld, Armed, Goto,
         Returns, lapses
<1>1. CASE RemoteRollsBackOne(r)
  <2>1. pc[r] = "r_rollback" /\ pc' = pc
    BY <1>1 DEF RemoteRollsBackOne
  <2>. QED
    BY <2>1
<1>2. CASE HostFindsSame(r)
  <2>1. CASE Goto(r, "h_lock") /\ result' = result
    BY <1>2, <2>1 DEF HostFindsSame
  <2>. QED
    BY <1>0, <1>2, <2>1, WhoForgets
<1>3. CASE HostLocks(r)
  <2>1. /\ pc[r] = "h_lock" /\ pc'[r] = "h_check" /\ Good
        /\ UNCHANGED <<latest, target, result>>
    BY <1>3, TakesFree DEF HostLocks, LockPlaces, node, FreeInv
  <2>2. LatestGood'
    BY <2>1, GoodStays DEF Good
  <2>. QED
    BY <2>1, <2>2
<1>4. CASE RemoteKilled(r) \/ RemoteTurnedAway(r) \/ HostInterrupted(r)
        \/ HostTurnedAway(r) \/ Unlock(r)
  BY <1>0, <1>4, WhoForgets
<1>5. CASE HostRechecks(r)
  <2>1. /\ pc[r] = "h_check" /\ UNCHANGED <<latest, target, accepted, strayTags>>
        /\ \/ pc'[r] = "unlock"
           \/ pc'[r] = "h_pin" /\ result' = result
    BY <1>5 DEF HostRechecks, node
  <2>. QED
    BY <2>1 DEF LatestGood
<1>6. CASE HostPins(r)
  <2>1. /\ pc[r] = "h_pin" /\ pc'[r] = "h_arm" /\ oldPin'[r] = pin
        /\ pin' = target[r]
        /\ UNCHANGED <<latest, target, result, accepted, lapses>>
    BY <1>6 DEF HostPins
  <2>2. Good
    BY <2>1 DEF RestInv, Resting
  <2>. QED
    BY <2>1, <2>2 DEF Good, LatestGood, GoodPin
<1>7. CASE HostArms(r)
  <2>1. /\ pc[r] = "h_arm" /\ pc'[r] = "h_pull"
        /\ UNCHANGED <<latest, target, result, pin, oldPin, accepted, lapses>>
    BY <1>7 DEF HostArms, node, locals
  <2>. QED
    BY <2>1 DEF LatestGood, GoodPin
<1>8. CASE HostPulls(r)
  <2>1. /\ pc[r] = "h_pull"
        /\ target[r] # Latest => latest' = latest
        /\ UNCHANGED <<target, pin, oldPin, accepted, lapses>>
        /\ \/ pc'[r] = "h_up" /\ result' = result
           \/ pc'[r] = "h_disarm" /\ result'[r] = "rolled_back"
    BY <1>8 DEF HostPulls, locals
  <2>2. target[r] # Latest => LatestGood'
    BY <2>1 DEF LatestGood
  <2>3. GoodPin(oldPin[r])'
    BY <2>1 DEF GoodPin
  <2>. QED
    BY <2>1, <2>2, <2>3
<1>9. CASE HostUps(r)
  <2>1. /\ pc[r] = "h_up"
        /\ UNCHANGED <<latest, target, result, pin, oldPin, accepted, lapses>>
        /\ \/ pc'[r] = "h_gate" /\ ComposeUp
           \/ pc'[r] = "h_restore"
    BY <1>9 DEF HostUps, locals
  <2>2. ASSUME pc'[r] = "h_gate", NEW s \in Services
        PROVE  made'[s][2] = Resolves(pin, s)
    BY <2>1, <2>2 DEF ComposeUp, Composed
  <2>3. \A s \in Services : Resolves(pin, s)' = Resolves(pin, s)
    BY <2>1 DEF Resolves
  <2>4. /\ LatestGood => LatestGood'
        /\ GoodPin(oldPin[r]) => GoodPin(oldPin[r])'
    BY <2>1 DEF LatestGood, GoodPin
  <2>. QED
    BY <2>1, <2>2, <2>3, <2>4
<1>10. CASE HostGates(r)
  <2>1. /\ pc[r] = "h_gate" /\ UNCHANGED <<latest, target, pin, oldPin, lapses>>
        /\ \/ pc'[r] = "h_restore" /\ result' = result
           \/ /\ pc'[r] = "h_disarm"
              /\ \A s \in Services : up[s] /\ image[s] \in accepted'[s]
    BY <1>10 DEF HostGates, node, locals
  <2>2. GoodPin(oldPin[r])' /\ (LatestGood => LatestGood')
    BY <2>1, GoodStays
  <2>3. ASSUME pc'[r] = "h_disarm", NEW s \in Services
        PROVE  Resolves(pin, s) \in accepted'[s]
    <3>1. image[s] # Gone /\ image[s] \in accepted'[s]
      BY <2>1, <2>3 DEF UpInv
    <3>2. Resolves(pin, s) = made[s][2]
      BY <2>1
    <3>. QED
      BY <3>1, <3>2, AcceptedGrows DEF MadeInv
  <2>4. pin = target[r]
    BY <2>1
  <2>5. ASSUME pc'[r] = "h_disarm" PROVE LatestGood' /\ GoodPin(pin)'
    <3>1. CASE target[r] = Latest
      BY <2>1, <2>3, <2>4, <2>5, <3>1 DEF Resolves, LatestGood, GoodPin
    <3>2. CASE target[r] # Latest
      <4>1. \A s \in Services : pin \in accepted'[s]
        BY <2>3, <2>4, <2>5, <3>2 DEF Resolves
      <4>2. LatestGood
        BY <2>1, <3>2
      <4>. QED
        BY <2>1, <2>2, <4>1, <4>2 DEF GoodPin
    <3>. QED
      BY <3>1, <3>2
  <2>. QED
    BY <2>1, <2>2, <2>5
<1>11. CASE HostRestores(r)
  <2>1. /\ pc[r] = "h_restore" /\ pc'[r] = "h_reup"
        /\ UNCHANGED <<latest, target, result, oldPin, accepted, lapses>>
    BY <1>11 DEF HostRestores, locals
  <2>. QED
    BY <2>1 DEF LatestGood, GoodPin
<1>12. CASE HostReups(r)
  <2>1. /\ pc[r] = "h_reup" /\ pc'[r] = "h_disarm" /\ result'[r] # "ok"
        /\ UNCHANGED <<latest, target, oldPin, accepted, lapses>>
    BY <1>12 DEF HostReups, locals
  <2>. QED
    BY <2>1 DEF LatestGood, GoodPin
<1>13. CASE RemoteLocks(r)
  BY <1>13 DEF RemoteLocks
<1>14. CASE RemoteDiscovers(r)
  BY <1>14 DEF RemoteDiscovers
<1>15. CASE RemoteVerifies(r) \/ RemoteSnapshots(r)
  BY <1>15 DEF RemoteVerifies, RemoteSnapshots
<1>16. CASE RemoteTags(r) \/ RemoteRecreates(r)
  BY <1>16 DEF RemoteTags, RemoteRecreates
<1>17. CASE RemoteGates(r) \/ RemoteRegates(r)
  BY <1>17 DEF RemoteGates, RemoteRegates
<1>18. CASE HostDisarms(r)
  BY <1>18 DEF HostDisarms
<1>20. ASSUME NEW v \in Versions \cup {Latest}, SpawnUpdater(r, v)
      PROVE  HostGoodInv(r)'
  BY <1>20 DEF SpawnUpdater
<1>21. ASSUME NEW v \in Versions \cup {Latest}, NEW a \in BOOLEAN,
              HostResolves(r, v, a)
      PROVE  HostGoodInv(r)'
  <2>1. CASE ~Forgets(r)
    <3>1. pc[r] = "idle" /\ pc'[r] = "h_same" /\ result' = result
      BY <1>21, <2>1, ResolvesOrForgets DEF HostResolves
    <3>. QED
      BY <3>1
  <2>. QED
    BY <1>0, <2>1
<1>. QED
  BY <1>1, <1>2, <1>3, <1>4, <1>5, <1>6, <1>7, <1>8, <1>9, <1>10, <1>11,
     <1>12, <1>13, <1>14, <1>15, <1>16, <1>17, <1>18, <1>20, <1>21
  DEF Acts, RemoteStep, HostStep

\* A run that gives the lock back, or is killed, leaves what is good, and what
\* it leaves behind is on record.
LEMMA FreeOwn ==
  ASSUME BaseInv, NEW r \in Runs, GoodOf(r), Acts(r),
         pc[r] \in Holding, pc'[r] \notin Holding
  PROVE  Good'
<1>. USE DEF Holding, RemoteHeld, HostHeld, Mutating, Armed
<1>1. CASE Unlock(r)
  <2>1. pc[r] = "unlock" /\ UNCHANGED <<latest, pin>>
    BY <1>1 DEF Unlock, node
  <2>. QED
    BY <2>1, GoodStays DEF GoodOf, RestInv, Resting
<1>2. CASE RemoteKilled(r)
  <2>1. /\ pc[r] \in {"r_discover", "r_verify", "r_snap"} \cup Mutating
        /\ UNCHANGED <<latest, pin, accepted, strayPin>>
        /\ strayTags' = strayTags \cup Tried(r)
    BY <1>2 DEF RemoteKilled, Untouched, node
  <2>2. CASE pc[r] \notin Mutating
    BY <2>1, <2>2, GoodStays DEF GoodOf, RestInv, Resting
  <2>3. CASE pc[r] \in Mutating
    <3>1. /\ GoodPin(pin)
          /\ \A s \in Services \ (Tried(r) \cup strayTags) :
               latest[s] \in accepted[s]
      BY <2>3 DEF GoodOf, RemoteGoodInv
    <3>. QED
      BY <2>1, <3>1 DEF Good, LatestGood, GoodPin
  <2>. QED
    BY <2>2, <2>3
<1>3. CASE HostInterrupted(r)
  <2>1. /\ pc[r] \in {"h_check", "h_pin", "h_arm"} \cup Armed
        /\ UNCHANGED <<latest, accepted>>
        /\ pin' \in {pin, oldPin[r]}
        /\ strayPin \/ (pc[r] \in {"h_arm"} \cup Armed /\ result[r] # "ok"
                         /\ pin' # oldPin[r]) => strayPin'
        /\ pc[r] \notin Armed \/ result[r] = "ok" => pin' = pin
        /\ strayTags \subseteq strayTags'
        /\ pc[r] \in Armed => LeftPulled(r) \subseteq strayTags'
    BY <1>3 DEF HostInterrupted
  <2>2. LatestGood'
    <3>1. CASE LatestGood
      BY <2>1, <3>1 DEF LatestGood
    <3>2. CASE ~LatestGood
      <4>1. pc[r] \in Armed /\ target[r] = Latest /\ result[r] # "ok"
        BY <2>1, <3>2 DEF GoodOf, RestInv, Resting, HostGoodInv, Good
      <4>. QED
        BY <2>1, <4>1 DEF LeftPulled, LatestGood
    <3>. QED
      BY <3>1, <3>2
  <2>3. GoodPin(pin)'
    <3>1. CASE pc[r] \in {"h_check", "h_pin"}
      BY <2>1, <3>1 DEF GoodOf, RestInv, Resting, Good, GoodPin
    <3>2. CASE pc[r] \in {"h_arm"} \cup Armed /\ result[r] # "ok"
      <4>1. GoodPin(oldPin[r])
        BY <3>2 DEF GoodOf, HostGoodInv
      <4>. QED
        BY <2>1, <3>2, <4>1 DEF GoodPin
    <3>3. CASE pc[r] \in {"h_arm"} \cup Armed /\ result[r] = "ok"
      <4>1. pc[r] = "h_disarm" /\ GoodPin(pin)
        BY <3>3 DEF GoodOf, HostGoodInv
      <4>. QED
        BY <2>1, <3>3, <4>1 DEF GoodPin
    <3>. QED
      BY <2>1, <3>1, <3>2, <3>3
  <2>. QED
    BY <2>2, <2>3 DEF Good
<1>4. CASE ~Unlock(r) /\ ~RemoteKilled(r) /\ ~HostInterrupted(r)
  <2>1. ASSUME r \in Remotes, RemoteStep(r) PROVE FALSE
    BY <2>1
    DEF RemoteStep, RemoteLocks, RemoteTurnedAway, RemoteDiscovers,
        RemoteVerifies, RemoteSnapshots, RemoteTags, RemoteRecreates,
        RemoteGates, RemoteRollsBackOne, RemoteRegates, Goto, Returns,
        BaseInv, TypeOK
  <2>2. ASSUME r \in Hosts, HostStep(r) PROVE FALSE
    BY <2>2
    DEF HostStep, HostFindsSame, HostLocks, HostTurnedAway, HostRechecks,
        HostPins, HostArms, HostPulls, HostUps, HostGates, HostRestores,
        HostReups, HostDisarms, Goto, Returns, BaseInv, TypeOK
  <2>. QED
    BY <1>4, <2>1, <2>2 DEF Acts, SpawnUpdater, HostResolves
<1>. QED
  BY <1>1, <1>2, <1>3, <1>4

GoodInv == MadeInv /\ FreeInv /\ \A r \in Runs : GoodOf(r)

\* Every step of the system keeps what is good, for every run.
LEMMA GoodStep ==
  ASSUME WorkingInv, GoodInv, [Next]_vars, ~overlap'
  PROVE  GoodInv'
<1>. USE DEF GoodInv
<1>1. ASSUME NEW r \in Runs, Acts(r) PROVE GoodInv'
  <2>1. BaseInv /\ TypeOK /\ LockInv /\ GoodOf(r)
    BY DEF WorkingInv, BaseInv
  <2>2. MadeInv'
    BY <1>1, <2>1, MadeStep DEF GoodOf
  <2>3. GoodOf(r)'
    BY <1>1, <2>1, RestOwn, RemoteGoodOwn, HostGoodOwn DEF GoodOf
  <2>4. ASSUME NEW q \in Runs \ {r} PROVE GoodOf(q)'
    <3>1. Spared(q) /\ (pc[q] \in Holding => UNCHANGED <<node, accepted>>)
      BY <1>1, <2>1, AtWorkUndisturbed
    <3>2. CASE pc[q] \in Holding
      <4>1. strayTags \subseteq strayTags' /\ (strayPin => strayPin')
        BY <1>1, <2>1, LapsesGrow DEF BaseInv
      <4>2. /\ UNCHANGED <<image, made, latest, pin, accepted>>
            /\ Stack(q)' = Stack(q) /\ Tried(q)' = Tried(q)
            /\ \A s \in Services : Resolves(pin, s)' = Resolves(pin, s)
        BY <3>1, <3>2 DEF node, Spared, Stack, Tried, Resolves
      <4>3. /\ LatestGood => LatestGood'
            /\ GoodPin(pin) => GoodPin(pin)'
            /\ GoodPin(oldPin[q]) => GoodPin(oldPin[q])'
            /\ Good => Good'
        BY <3>1, <4>1, <4>2 DEF Spared, Good, LatestGood, GoodPin
      <4>4. RestInv(q)'
        BY <3>1, <4>3 DEF Spared, GoodOf, RestInv
      <4>5. RemoteGoodInv(q)'
        BY <3>1, <4>1, <4>2, <4>3 DEF Spared, GoodOf, RemoteGoodInv
      <4>6. HostGoodInv(q)'
        BY <3>1, <4>2, <4>3 DEF Spared, GoodOf, HostGoodInv
      <4>. QED
        BY <4>4, <4>5, <4>6 DEF GoodOf
    <3>3. CASE pc[q] \notin Holding
      BY <3>1, <3>3
      DEF GoodOf, RestInv, RemoteGoodInv, HostGoodInv, Spared, Resting,
          Holding, RemoteHeld, HostHeld, Mutating, Armed
    <3>. QED
      BY <3>2, <3>3
  <2>5. FreeInv'
    <3>. SUFFICES ASSUME lock'["data"] = NoRun, lock'["cfg"] = NoRun PROVE Good'
      BY DEF FreeInv
    <3>0. OwnLock(r)
      BY <1>1, <2>1, LockOwn
    <3>1. CASE pc[r] \notin Holding
      <4>1. UNCHANGED <<latest, pin>>
        BY <1>1, <2>1, <3>1, IdleHarmless DEF node
      <4>2. lock["data"] = NoRun /\ lock["cfg"] = NoRun
        BY <2>1, <3>0, <3>1, UpdateConstants
        DEF OwnLock, LocksSpared, LockInv, LockOf, TypeOK
      <4>. QED
        BY <1>1, <2>1, <4>1, <4>2, GoodStays DEF FreeInv
    <3>2. CASE pc[r] \in Holding
      <4>1. pc'[r] \notin Holding
        BY <3>0, UpdateConstants DEF OwnLock, LockOf
      <4>. QED
        BY <1>1, <2>1, <3>2, <4>1, FreeOwn
    <3>. QED
      BY <3>1, <3>2
  <2>. QED
    BY <2>2, <2>3, <2>4, <2>5
<1>2. CASE UNCHANGED vars
  BY <1>2
  DEF MadeInv, FreeInv, GoodOf, RestInv, RemoteGoodInv, HostGoodInv, Good,
      LatestGood, GoodPin, Stack, Tried, Resolves, vars, node, locals,
      remoteLocals, lapses
<1>. QED
  BY <1>1, <1>2, SomeoneActs

LEMMA GoodInit ==
  ASSUME Init
  PROVE  GoodInv
<1>1. MadeInv
  BY DEF Init, MadeInv
<1>2. Good
  BY UpdateAssumption DEF Init, Good, LatestGood, GoodPin
<1>3. \A r \in Runs : GoodOf(r)
  BY DEF Init, GoodOf, RestInv, RemoteGoodInv, HostGoodInv, Resting, Mutating,
     HostHeld, Armed
<1>. QED
  BY <1>1, <1>2, <1>3 DEF GoodInv, FreeInv

\* With any number of updates of both kinds, every fault and whatever they are
\* asked for: whenever no update is in progress, a bare `docker compose up`
\* applies only images that passed a gate or ran when an update began, or what
\* one of the lapses UngatedStaysOut names has left behind.
THEOREM NothingUngated == Spec => []UngatedStaysOut
<1>. DEFINE Inv == BaseInv /\ (overlap \/ (LockInv /\ GoodInv))
<1>1. Init => Inv
  BY BaseInit, LockInit, GoodInit
<1>2. Inv /\ [Next]_vars => Inv'
  <2>. SUFFICES ASSUME Inv, [Next]_vars, ~overlap'
                PROVE  BaseInv' /\ LockInv' /\ GoodInv'
    BY BaseStep
  <2>1. ~overlap
    BY OverlapStays
  <2>2. LockInv'
    BY <2>1, LockStep DEF BaseInv
  <2>3. GoodInv'
    BY <2>1, GoodStep DEF WorkingInv
  <2>. QED
    BY <2>2, <2>3, BaseStep
<1>3. Inv => UngatedStaysOut
  BY
  DEF GoodInv, FreeInv, Good, LatestGood, GoodPin, UngatedStaysOut, Resolves
<1>. QED
  BY <1>1, <1>2, <1>3, PTL DEF Spec

=============================================================================
