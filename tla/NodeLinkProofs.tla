--------------------------- MODULE NodeLinkProofs ---------------------------
(***************************************************************************)
(* The safety properties of NodeLink for any tokens, statuses, faults and  *)
(* bounds.  They rest on one observation about the registration flag: a    *)
(* beat is under way only while the node is registered, and a registration *)
(* or a request for one exists only while it is not.                       *)
(***************************************************************************)
EXTENDS NodeLink, TLAPS

\* Who may be at work, by the state of the flag.
FlagInv ==
  /\ hb = "send" => registered
  /\ registered => ~requested
  /\ \A w \in Workers : pc[w] \in InFlight =>
       ~registered /\ ~requested /\ \A x \in Workers \ {w} : pc[x] \notin InFlight

\* Which token the manager has claimed, at each point of a registration.
TokenInv ==
  /\ registered => claim \in {token, NoToken}
  /\ \A w \in Workers :
       /\ pc[w] = "poll" => tok[w] = token
       /\ pc[w] = "install" => claim \in {token, NoToken}

\* A map whose capture time no change has followed is true, before and after
\* it is published.
MapInv ==
  /\ pub.same => pub.says = status
  /\ mon = "report" /\ sweep.same => sweep.says = status

LinkInv == TypeOK /\ FlagInv /\ ParkedHasWaker /\ TokenInv /\ MapInv

USE DEF Workers, InFlight, Alive, Goto, Hb, Mon

-----------------------------------------------------------------------------

\* The process starts with every worker at its first step.
LEMMA FreshIsTyped ==
  ASSUME TypeOK, FreshProcess, UNCHANGED <<manager, docker, status>>,
         troubles' \in Nat, changes' \in Nat
  PROVE  TypeOK'
<1>1. /\ token' \in Tokens /\ onDisk' \in Tokens \cup {NoToken}
      /\ NoMap \in Maps
  BY DEF FreshProcess, NoMap, Maps
<1>2. pc' \in [Workers -> InFlight \cup {"wait", "done"}]
  BY DEF FreshProcess
<1>3. tok' \in [Workers -> Tokens \cup {NoToken}]
  BY DEF FreshProcess
<1>4. fatal' \in 0..Grace
  BY LinkConstants DEF FreshProcess
<1>. QED
  BY <1>1, <1>2, <1>3, <1>4 DEF FreshProcess, TypeOK, manager

\* Every action keeps the types.
LEMMA TypeStep == TypeOK /\ [Next]_vars => TypeOK'
<1>. SUFFICES ASSUME TypeOK, [Next]_vars PROVE TypeOK'
  OBVIOUS
<1>1. CASE Wakes
  BY <1>1 DEF Wakes, TypeOK, manager, host, monitor, watch, bounds
<1>2. ASSUME NEW w \in Workers, Registering(w) PROVE TypeOK'
  <2>1. CASE ResolveAddress(w) \/ InstallFails(w)
    BY <2>1 DEF ResolveAddress, InstallFails, TypeOK, manager, host, monitor,
         watch, bounds
  <2>3. CASE FetchCert(w)
    BY <2>3 DEF FetchCert, TypeOK, manager, host, monitor, watch, bounds
  <2>4. CASE Registered(w)
    BY <2>4 DEF Registered, TypeOK, manager, host, monitor, watch, bounds
  <2>2. ASSUME NEW h \in BOOLEAN, NEW a \in BOOLEAN, PostRegister(w, h, a)
        PROVE  TypeOK'
    <3>1. InflightToken \in Tokens
      BY LinkConstants DEF InflightToken, TypeOK
    <3>. QED
      BY <2>2, <3>1 DEF PostRegister, Posted, TypeOK, host, monitor, watch, bounds
  <2>. QED
    BY <1>2, <2>1, <2>2, <2>3, <2>4 DEF Registering
<1>3. CASE Heartbeat
  BY <1>3 DEF Heartbeat, BeatBegins, BeatRejected, BeatEnds, TypeOK, manager,
       host, registration, monitor, watch, bounds
<1>4. CASE Monitor
  <2>1. CASE TickBegins
    BY <2>1 DEF TickBegins, TypeOK, Maps, manager, host, registration, watch, bounds
  <2>2. CASE Collect
    <3>1. sweep' \in Maps /\ pub' \in Maps
      <4>1. sweep \in Maps /\ status \in Statuses
        BY DEF TypeOK
      <4>2. NoMap \in Maps /\ [sweep EXCEPT !.says = status] \in Maps
        BY <4>1 DEF Maps, NoMap
      <4>. QED
        BY <2>2, <4>2 DEF Collect, TypeOK
    <3>. QED
      BY <2>2, <3>1 DEF Collect, TypeOK, manager, host, registration, watch, bounds
  <2>3. CASE CollectFails
    BY <2>3 DEF CollectFails, TypeOK, Maps, NoMap, manager, host, registration,
         watch, bounds
  <2>4. ASSUME NEW h \in BOOLEAN, NEW a \in BOOLEAN, ReportStatus(h, a)
        PROVE  TypeOK'
    BY <2>4 DEF ReportStatus, Heard, TypeOK, Maps, NoMap, host, registration,
         watch, bounds
  <2>. QED
    BY <1>4, <2>1, <2>2, <2>3, <2>4 DEF Monitor
<1>5. CASE Probe
  BY <1>5, LinkConstants DEF Probe, TypeOK, manager, host, registration, monitor, bounds
<1>6. CASE Terminate
  BY <1>6, FreshIsTyped DEF Terminate, bounds, TypeOK
<1>7. CASE Environment
  <2>1. CASE Accept \/ ResetClaim
    BY <2>1 DEF Accept, ResetClaim, TypeOK, host, registration, monitor, watch,
         bounds
  <2>6. CASE Forget
    BY <2>6 DEF Forget, Trouble, TypeOK, host, registration, monitor, watch
  <2>2. CASE Rotate
    BY <2>2 DEF Rotate, Trouble, TypeOK, manager, registration, monitor, watch
  <2>7. CASE DockerFails
    <3>1. troubles' \in Nat
      BY <2>7 DEF DockerFails, Trouble, TypeOK
    <3>2. docker' \in BOOLEAN
      BY <2>7 DEF DockerFails
    <3>. QED
      BY <2>7, <3>1, <3>2 DEF DockerFails, TypeOK, manager, registration, monitor,
           watch
  <2>8. CASE DockerReturns
    BY <2>8 DEF DockerReturns, TypeOK, manager, registration, monitor, watch, bounds
  <2>3. CASE Killed
    BY <2>3, FreshIsTyped DEF Killed, Trouble, TypeOK
  <2>4. CASE InstanceMoves
    <3>1. sweep' \in Maps /\ pub' \in Maps
      BY <2>4 DEF InstanceMoves, TypeOK, Maps
    <3>. QED
      BY <2>4, <3>1 DEF InstanceMoves, TypeOK, manager, registration, watch
  <2>5. ASSUME NEW w \in {"monitor", "heartbeat", "reregister"}, WorkerDies(w)
        PROVE  TypeOK'
    BY <2>5 DEF WorkerDies, Trouble, TypeOK, manager, host, registration, monitor
  <2>. QED
    BY <1>7, <2>1, <2>2, <2>3, <2>4, <2>5, <2>6, <2>7, <2>8
    DEF Environment
<1>8. CASE UNCHANGED vars
  BY <1>8 DEF vars, TypeOK, manager, host, registration, monitor, watch, bounds
<1>. QED
  BY <1>1, <1>2, <1>3, <1>4, <1>5, <1>6, <1>7, <1>8 DEF Next

\* Steps that leave the registration, the request and the heartbeat alone.
LEMMA FlagKept ==
  ASSUME UNCHANGED <<registered, requested, pc, hb>>
  PROVE  FlagInv => FlagInv'
BY DEF FlagInv

\* The flag: a request is made only by a beat, hence only while registered,
\* and taken only while nobody registers.
LEMMA FlagStep == TypeOK /\ FlagInv /\ [Next]_vars => FlagInv'
<1>. SUFFICES ASSUME TypeOK, FlagInv, [Next]_vars PROVE FlagInv'
  OBVIOUS
<1>0. pc \in [Workers -> InFlight \cup {"wait", "done"}]
  BY DEF TypeOK
<1>1. CASE Wakes
  BY <1>0, <1>1 DEF Wakes, FlagInv
<1>2. ASSUME NEW w \in Workers, Registering(w) PROVE FlagInv'
  BY <1>0, <1>2 DEF Registering, ResolveAddress, PostRegister, FetchCert,
       InstallFails, Registered, FlagInv
<1>3. CASE Heartbeat
  BY <1>3 DEF Heartbeat, BeatBegins, BeatRejected, BeatEnds, FlagInv, registration
<1>4. CASE Monitor
  BY <1>4, FlagKept DEF Monitor, TickBegins, Collect, CollectFails, ReportStatus,
       registration
<1>5. CASE Probe
  BY <1>5, FlagKept DEF Probe, registration
<1>6. CASE Terminate \/ Killed
  BY <1>6 DEF Terminate, Killed, FreshProcess, FlagInv
<1>7. CASE Environment
  BY <1>6, <1>7, FlagKept DEF Environment, Accept, ResetClaim, Forget, Rotate,
       DockerFails, DockerReturns, InstanceMoves, WorkerDies, registration
<1>8. CASE UNCHANGED vars
  BY <1>8, FlagKept DEF vars, registration
<1>. QED
  BY <1>1, <1>2, <1>3, <1>4, <1>5, <1>6, <1>7, <1>8 DEF Next

\* The heartbeat's waker: whoever takes a request works on it until the node
\* is registered.
LEMMA WakerStep ==
  TypeOK /\ FlagInv /\ ParkedHasWaker /\ [Next]_vars => ParkedHasWaker'
<1>. SUFFICES ASSUME TypeOK, FlagInv, ParkedHasWaker, [Next]_vars
              PROVE  ParkedHasWaker'
  OBVIOUS
<1>0. pc \in [Workers -> InFlight \cup {"wait", "done"}]
  BY DEF TypeOK
<1>1. CASE Wakes
  BY <1>0, <1>1 DEF Wakes, ParkedHasWaker
<1>2. ASSUME NEW w \in Workers, Registering(w) PROVE ParkedHasWaker'
  BY <1>0, <1>2 DEF Registering, ResolveAddress, PostRegister, FetchCert,
       InstallFails, Registered, ParkedHasWaker, watch
<1>3. CASE Heartbeat
  BY <1>3 DEF Heartbeat, BeatBegins, BeatRejected, BeatEnds, ParkedHasWaker,
       registration, watch
<1>4. CASE Monitor
  BY <1>4 DEF Monitor, TickBegins, Collect, CollectFails, ReportStatus,
       ParkedHasWaker, registration, watch
<1>5. CASE Probe
  BY <1>5 DEF Probe, ParkedHasWaker, registration
<1>6. CASE Terminate \/ Killed
  BY <1>6 DEF Terminate, Killed, FreshProcess, ParkedHasWaker
<1>7. CASE Environment
  BY <1>6, <1>7 DEF Environment, Accept, ResetClaim, Forget, Rotate,
       DockerFails, DockerReturns, InstanceMoves, WorkerDies, registration, watch,
       ParkedHasWaker
<1>8. CASE UNCHANGED vars
  BY <1>8 DEF vars, registration, watch, ParkedHasWaker
<1>. QED
  BY <1>1, <1>2, <1>3, <1>4, <1>5, <1>6, <1>7, <1>8 DEF Next

\* The token: only the one worker that registers moves it, before the node
\* counts as registered.
LEMMA TokenStep == TypeOK /\ FlagInv /\ TokenInv /\ [Next]_vars => TokenInv'
<1>. SUFFICES ASSUME TypeOK, FlagInv, TokenInv, [Next]_vars PROVE TokenInv'
  OBVIOUS
<1>0. /\ pc \in [Workers -> InFlight \cup {"wait", "done"}]
      /\ tok \in [Workers -> Tokens \cup {NoToken}]
  BY DEF TypeOK
<1>1. CASE Wakes
  BY <1>0, <1>1 DEF Wakes, TokenInv, manager
<1>2. ASSUME NEW w \in Workers, Registering(w) PROVE TokenInv'
  <2>1. CASE ResolveAddress(w) \/ FetchCert(w) \/ InstallFails(w) \/ Registered(w)
    BY <1>0, <2>1 DEF ResolveAddress, FetchCert, CertIssued, InstallFails,
         Registered, TokenInv, FlagInv, manager
  <2>2. ASSUME NEW h \in BOOLEAN, NEW a \in BOOLEAN, PostRegister(w, h, a)
        PROVE  TokenInv'
    <3>1. /\ ~registered
          /\ \A x \in Workers \ {w} : pc[x] \notin InFlight
      BY <2>2 DEF PostRegister, FlagInv
    <3>. QED
      BY <1>0, <2>2, <3>1 DEF PostRegister, TokenInv
  <2>. QED
    BY <1>2, <2>1, <2>2 DEF Registering
<1>3. CASE Heartbeat
  BY <1>3 DEF Heartbeat, BeatBegins, BeatRejected, BeatEnds, TokenInv, manager,
       registration
<1>4. CASE Monitor
  BY <1>4 DEF Monitor, TickBegins, Collect, CollectFails, ReportStatus,
       TokenInv, manager, registration
<1>5. CASE Probe
  BY <1>5 DEF Probe, TokenInv, manager, registration
<1>6. CASE Terminate \/ Killed
  BY <1>6 DEF Terminate, Killed, FreshProcess, TokenInv
<1>7. CASE Environment
  BY <1>6, <1>7 DEF Environment, Accept, ResetClaim, Forget, Rotate,
       DockerFails, DockerReturns, InstanceMoves, WorkerDies, manager,
       registration, TokenInv
<1>8. CASE UNCHANGED vars
  BY <1>8 DEF vars, manager, registration, TokenInv
<1>. QED
  BY <1>1, <1>2, <1>3, <1>4, <1>5, <1>6, <1>7, <1>8 DEF Next

\* The maps: a change of the instance's status spoils every map that exists.
LEMMA MapStep == TypeOK /\ MapInv /\ [Next]_vars => MapInv'
<1>. SUFFICES ASSUME TypeOK, MapInv, [Next]_vars PROVE MapInv'
  OBVIOUS
<1>0. pub \in Maps /\ sweep \in Maps
  BY DEF TypeOK
<1>1. CASE Wakes \/ Heartbeat
  BY <1>1 DEF Wakes, Heartbeat, BeatBegins, BeatRejected, BeatEnds, MapInv,
       host, monitor
<1>2. ASSUME NEW w \in Workers, Registering(w) PROVE MapInv'
  BY <1>2 DEF Registering, ResolveAddress, PostRegister, FetchCert, InstallFails,
       Registered, MapInv, host, monitor
<1>4. CASE Monitor
  <2>1. CASE TickBegins
    BY <2>1 DEF TickBegins, MapInv, host
  <2>2. CASE Collect
    BY <1>0, <2>2 DEF Collect, MapInv, Maps, host
  <2>3. CASE CollectFails
    BY <2>3 DEF CollectFails, MapInv, NoMap, host
  <2>4. ASSUME NEW h \in BOOLEAN, NEW a \in BOOLEAN, ReportStatus(h, a)
        PROVE  MapInv'
    BY <1>0, <2>4 DEF ReportStatus, MapInv, host
  <2>. QED
    BY <1>4, <2>1, <2>2, <2>3, <2>4 DEF Monitor
<1>5. CASE Probe
  BY <1>5 DEF Probe, MapInv, host, monitor
<1>6. CASE Terminate \/ Killed
  BY <1>6 DEF Terminate, Killed, FreshProcess, NoMap, MapInv
<1>7. CASE Environment
  <2>1. CASE InstanceMoves
    BY <1>0, <2>1 DEF InstanceMoves, MapInv, Maps
  <2>. QED
    BY <1>6, <1>7, <2>1 DEF Environment, Accept, ResetClaim, Forget, Rotate,
       DockerFails, DockerReturns, WorkerDies, host, monitor, MapInv
<1>8. CASE UNCHANGED vars
  BY <1>8 DEF vars, host, monitor, MapInv
<1>. QED
  BY <1>1, <1>2, <1>4, <1>5, <1>6, <1>7, <1>8 DEF Next

-----------------------------------------------------------------------------

\* The inductive invariant of registration, heartbeat and monitor: types, who
\* works while the node is or is not registered, who will wake the heartbeat,
\* which token is claimed, and which status maps are true.
THEOREM LinkInvariant == Spec => []LinkInv
<1>1. Init => LinkInv
  <2>. SUFFICES ASSUME Init PROVE LinkInv
    OBVIOUS
  <2>1. TypeOK
    <3>1. fatal \in 0..Grace /\ NoMap \in Maps
      BY LinkConstants DEF Init, Maps, NoMap
    <3>2. /\ pc \in [Workers -> InFlight \cup {"wait", "done"}]
          /\ tok \in [Workers -> Tokens \cup {NoToken}]
      BY DEF Init
    <3>. QED
      BY <3>1, <3>2 DEF Init, TypeOK
  <2>2. FlagInv /\ ParkedHasWaker
    BY DEF Init, FlagInv, ParkedHasWaker
  <2>3. TokenInv
    BY DEF Init, TokenInv
  <2>4. MapInv
    BY DEF Init, MapInv, NoMap
  <2>. QED
    BY <2>1, <2>2, <2>3, <2>4 DEF LinkInv
<1>2. LinkInv /\ [Next]_vars => LinkInv'
  BY TypeStep, FlagStep, WakerStep, TokenStep, MapStep DEF LinkInv
<1>. QED
  BY <1>1, <1>2, PTL DEF Spec

\* A heartbeat that a 403 has parked is woken in the end by somebody who
\* exists: a registration under way or a request (reregister_worker), unless
\* the supervisor's task is gone, which the watchdog sees.
THEOREM ParkedIsWoken == Spec => []ParkedHasWaker
<1>1. LinkInv => ParkedHasWaker
  BY DEF LinkInv
<1>. QED
  BY <1>1, LinkInvariant, PTL

\* register_worker and reregister_worker never register at the same time, and
\* neither does while the node counts as registered.
THEOREM RegistersAlone == Spec => []OneRegistration
<1>1. LinkInv => OneRegistration
  BY DEF LinkInv, FlagInv, OneRegistration
<1>. QED
  BY <1>1, LinkInvariant, PTL

\* A registered node beats with the token its claim was staged with, for every
\* rotation of the token file, ephemeral token and restart.
THEOREM BeatsWithClaim == Spec => []BeatsWithStaged
<1>1. LinkInv => BeatsWithStaged
  BY DEF LinkInv, TokenInv, BeatsWithStaged
<1>. QED
  BY <1>1, LinkInvariant, PTL

\* Every status map a beat may carry is honest about its capture time.
THEOREM MapsAreHonest == Spec => []CapturedAtIsHonest
<1>1. LinkInv => CapturedAtIsHonest
  BY DEF LinkInv, MapInv, CapturedAtIsHonest, BeatMaps, NoMap
<1>. QED
  BY <1>1, LinkInvariant, PTL
=============================================================================
