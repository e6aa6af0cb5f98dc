---------------------------- MODULE InstanceStart ----------------------------
(***************************************************************************)
(* Starts of several instances on one node: the allocation of their L4     *)
(* host ports (repository.get_greffon_info with docker/l4_ports.py and     *)
(* greffon/sticky_ports.py), the configuration and rendering that follow,  *)
(* and the docker-compose children that bind and release the ports after   *)
(* the handler has returned.  One protocol; the HTTP ports, which docker   *)
(* itself picks, are left out.  The handlers of one instance exclude each  *)
(* other, by its operation lock (InstanceOps); its children do not.        *)
(***************************************************************************)
EXTENDS Naturals, FiniteSets

CONSTANTS
  Instances,
  NoInstance,
  Names,        \* names of L4 ports
  Composes,     \* the sets of names a compose may publish
  RangeEnd,     \* the L4 range is 1 .. RangeEnd
  SamePort,     \* instances with same_port endpoints, on a proxy node
  Faults,       \* subset of AllFaults
  MaxStarts,    \* bound on start requests
  MaxRestarts   \* bound on restarts of the greffer process

AllFaults == {"daemon", "disk", "render", "spawn", "pull", "slow"}
Range1 == 1 .. RangeEnd

ASSUME StartConstants ==
  /\ NoInstance \notin Instances /\ SamePort \subseteq Instances
  /\ RangeEnd \in Nat /\ Composes \subseteq SUBSET Names
  /\ Faults \subseteq AllFaults /\ MaxStarts \in Nat /\ MaxRestarts \in Nat

\* A map of names to ports: 0 for a name it does not have.
PortMaps == [Names -> 0 .. RangeEnd]
NoPorts == [n \in Names |-> 0]
Named(m) == {n \in Names : m[n] # 0}
Values(m) == {m[n] : n \in Named(m)}

\* What docker-compose is at for an instance: a pull before containers are
\* touched, the creation of containers, a stop.  "n" keeps two starts apart.
Children == [n : Nat, kind : {"up", "bind", "stop"}, ports : SUBSET Range1]

VARIABLES
  \* The host.
  bound,       \* ports the running containers of each instance publish
  sidecar,     \* l4_ports.json of each instance, NoPorts when there is none
  rendered,    \* instances whose directory holds a docker-compose.yml
  work,        \* the docker-compose children of each instance
  \* The greffer process.
  pending,     \* _pending: the owner of each reserved port, or NoInstance
  allocator,   \* the start that holds allocation_lock, or NoInstance
  occupied,    \* what it has enumerated from the daemon,
  reserved,    \* and the reservations of other instances
  pc,          \* each start: its step,
  wants,       \* the names its compose publishes,
  sticky,      \* the map it has loaded,
  picks,       \* and the ports it has been given
  \* Bookkeeping.
  unguarded,   \* instances that ran, or had a start in flight, when their
               \* ports were picked; whose reservation has gone before its
               \* child has bound it; or who were given a port of one of these
  raced,       \* that has happened
  changed,     \* instances with a start in flight or running whose sidecar was
               \* saved for other names, or without having been read
  starts, restarts

host == <<bound, sidecar, rendered, work>>
allocation == <<pending, allocator, occupied, reserved>>
request == <<wants, sticky>>
history == <<unguarded, raced, changed, starts, restarts>>
vars == <<host, allocation, request, pc, picks, history>>

Steps == {"idle", "enumerate", "pick", "save", "render"}

Fault(f) == f \in Faults
Goto(i, l) == pc' = [pc EXCEPT ![i] = l]
Drops(i) == picks' = [picks EXCEPT ![i] = NoPorts]
\* get_greffon_info is left.
Decided(i) ==
  /\ wants' = [wants EXCEPT ![i] = {}]
  /\ sticky' = [sticky EXCEPT ![i] = NoPorts]

\* The handler leaves with an error: what it has reserved stays reserved.
Refused(i) == Goto(i, "idle") /\ Drops(i)

\* The ports that children of an instance will try to bind, the ones it has
\* been promised, and the ones it publishes or has been promised.
Due(i) == UNION {k.ports : k \in work[i]}
Promised(i) == Values(picks[i]) \cup Due(i)
Granted(i) == bound[i] \cup Promised(i)
AtRest(i) == bound[i] = {} /\ Due(i) = {}

Init ==
  /\ bound = [i \in Instances |-> {}]
  /\ sidecar = [i \in Instances |-> NoPorts]
  /\ rendered = {}
  /\ work = [i \in Instances |-> {}]
  /\ pending = [p \in Range1 |-> NoInstance]
  /\ allocator = NoInstance /\ occupied = {} /\ reserved = {}
  /\ pc = [i \in Instances |-> "idle"]
  /\ wants = [i \in Instances |-> {}]
  /\ sticky = [i \in Instances |-> NoPorts]
  /\ picks = [i \in Instances |-> NoPorts]
  /\ unguarded = {} /\ raced = FALSE /\ changed = {}
  /\ starts = 0 /\ restarts = 0

-----------------------------------------------------------------------------
(* start_greffon up to the ports.                                          *)

\* sticky_ports.load: a sidecar that cannot be read or parsed is like none.
Load(i) == {sidecar[i]} \cup (IF Fault("disk") THEN {NoPorts} ELSE {})

\* Compose fetched and its shape checked: both are refused (422) before any
\* port is allocated, which changes nothing.  Its names may differ from those
\* of the last start.  With L4 ports the sidecar is loaded.
StartGreffon(i) ==
  /\ pc[i] = "idle" /\ starts < MaxStarts
  /\ starts' = starts + 1
  /\ \E w \in Composes :
       IF w = {} THEN Goto(i, "render") /\ UNCHANGED request
       ELSE /\ Goto(i, "enumerate")
            /\ wants' = [wants EXCEPT ![i] = w]
            /\ \E m \in Load(i) : sticky' = [sticky EXCEPT ![i] = m]
  /\ UNCHANGED <<host, allocation, picks, unguarded, raced, changed, restarts>>

\* Mutant: the instance's own project is not skipped.
PublishedL4PortsAll(i) == UNION {bound[j] : j \in Instances}

\* published_l4_ports: what every other project publishes right now.
PublishedL4Ports(i) == UNION {bound[j] : j \in Instances \ {i}}

\* pending_and_prune: reservations that the daemon shows are dropped.
Prune(occ) == [p \in Range1 |-> IF p \in occ THEN NoInstance ELSE pending[p]]

\* Mutant: the reservations of other instances are not merged.
EnumerateAlone(i) ==
  /\ pc[i] = "enumerate" /\ allocator = NoInstance
  /\ allocator' = i /\ occupied' = PublishedL4Ports(i)
  /\ pending' = Prune(occupied') /\ reserved' = {}
  /\ unguarded' = IF AtRest(i) THEN unguarded \ {i} ELSE unguarded \cup {i}
  /\ Goto(i, "pick")
  /\ UNCHANGED <<host, request, picks, raced, changed, starts, restarts>>

\* Under allocation_lock: read the daemon, then the reservations.
Enumerate(i) ==
  /\ pc[i] = "enumerate" /\ allocator = NoInstance
  /\ allocator' = i /\ occupied' = PublishedL4Ports(i)
  /\ pending' = Prune(occupied')
  /\ reserved' = {p \in Range1 : pending'[p] \notin {NoInstance, i}}
  /\ unguarded' = IF AtRest(i) THEN unguarded \ {i} ELSE unguarded \cup {i}
  /\ Goto(i, "pick")
  /\ UNCHANGED <<host, request, picks, raced, changed, starts, restarts>>

\* L4PortsUnavailable: 503.
EnumerateFails(i) ==
  /\ pc[i] = "enumerate" /\ allocator = NoInstance /\ Fault("daemon")
  /\ Refused(i) /\ Decided(i)
  /\ UNCHANGED <<host, allocation, history>>

Released == allocator' = NoInstance /\ occupied' = {} /\ reserved' = {}

Taken(i) == occupied \cup reserved \cup Values(picks[i])

Free(i) == Range1 \ Taken(i)
Lowest(S) == CHOOSE p \in S : \A q \in S : p <= q

\* The port of a name in the loaded map, as a set of at most one.
Previous(i, n) == {sticky[i][n]} \ {0}

\* Mutant: a taken same_port endpoint is rotated like any other.
ChoicesRotating(i, n) ==
  IF Previous(i, n) # {} /\ Previous(i, n) \cap Taken(i) = {} THEN Previous(i, n)
  ELSE IF Free(i) = {} THEN {} ELSE {Lowest(Free(i))}

\* Sticky reuse while the port is free; a taken same_port endpoint is not
\* rotated; else the lowest free port, if there is one.
Choices(i, n) ==
  IF Previous(i, n) # {} /\ Previous(i, n) \cap Taken(i) = {} THEN Previous(i, n)
  ELSE IF (i \in SamePort /\ Previous(i, n) # {}) \/ Free(i) = {} THEN {}
  ELSE {Lowest(Free(i))}

\* The names still without a port: the compose has them in any order.
Left(i) == wants[i] \ Named(picks[i])

\* One name: pick and mark_pending.
Pick(i) ==
  /\ pc[i] = "pick"
  /\ \E n \in Left(i) : \E p \in Choices(i, n) :
       /\ picks' = [picks EXCEPT ![i] = [@ EXCEPT ![n] = p]]
       /\ pending' = [pending EXCEPT ![p] = i]
       /\ Goto(i, IF Left(i) = {n} THEN "save" ELSE "pick")
       /\ LET race == \E j \in unguarded \ {i} : p \in Granted(j) IN
            /\ raced' = (raced \/ race)
            /\ unguarded' = IF race THEN unguarded \cup {i} ELSE unguarded
  /\ UNCHANGED <<host, allocator, occupied, reserved, request, changed, starts,
                 restarts>>

\* L4SamePortConflict or L4PortRangeExhausted: 409, with the ports of earlier
\* names still reserved.
NoChoice(i) ==
  /\ pc[i] = "pick" /\ \E n \in Left(i) : Choices(i, n) = {}
  /\ Released /\ Refused(i) /\ Decided(i)
  /\ UNCHANGED <<host, pending, history>>

\* sticky_ports.save, still under the lock: the names of this compose only.
SaveSticky(i) ==
  /\ pc[i] = "save"
  /\ sidecar' = [sidecar EXCEPT ![i] = picks[i]]
  /\ changed' = IF AtRest(i) THEN changed \ {i}
                ELSE IF wants[i] # Named(sidecar[i]) \/ sticky[i] # sidecar[i]
                THEN changed \cup {i} ELSE changed
  /\ Released /\ Decided(i) /\ Goto(i, "render")
  /\ UNCHANGED <<bound, rendered, work, pending, picks, unguarded, raced, starts,
                 restarts>>

SaveFails(i) ==
  /\ pc[i] = "save" /\ Fault("disk")
  /\ Released /\ Refused(i) /\ Decided(i)
  /\ UNCHANGED <<host, pending, history>>

-----------------------------------------------------------------------------
(* start_greffon from the configuration to the child, in one step: no other *)
(* handler of the instance sees its directory in between.                  *)

\* apply_configuration: an env or file destination removes the previous
\* docker-compose.yml.  A later destination may still be refused, or the
\* rendering in create_compose, which comes before the write (422).
RenderFails(i, removes) ==
  /\ pc[i] = "render" /\ Fault("render")
  /\ rendered' = IF removes THEN rendered \ {i} ELSE rendered
  /\ Refused(i)
  /\ UNCHANGED <<bound, sidecar, work, allocation, request, history>>

\* create_compose writes the file.
CreateCompose(i) == rendered' = rendered \cup {i}

\* A number that no child of the instance has.
Fresh(i) ==
  {n \in 1 .. MaxStarts : /\ \A k \in work[i] : k.n # n
                          /\ \A m \in 1 .. n - 1 : \E k \in work[i] : k.n = m}

\* nginx configuration, volumes, then Popen of `up -d`, which reads the file
\* just written: the handler returns.
Start(i) ==
  /\ pc[i] = "render" /\ CreateCompose(i)
  /\ \E n \in Fresh(i) : work' = [work EXCEPT ![i] = @ \cup
       {[n |-> n, kind |-> "up", ports |-> Values(picks[i])]}]
  /\ Goto(i, "idle") /\ Drops(i)
  /\ UNCHANGED <<bound, sidecar, allocation, request, history>>

SpawnFails(i) ==
  /\ pc[i] = "render" /\ Fault("spawn") /\ CreateCompose(i)
  /\ Refused(i)
  /\ UNCHANGED <<bound, sidecar, work, allocation, request, history>>

\* stop_greffon spawns `docker-compose stop`; without its compose file the
\* command fails and stops nothing.
StopGreffon(i) ==
  /\ pc[i] = "idle" /\ i \in rendered
  /\ work' = [work EXCEPT ![i] = @ \cup {[n |-> 0, kind |-> "stop", ports |-> {}]}]
  /\ UNCHANGED <<bound, sidecar, rendered, allocation, request, pc, picks, history>>

-----------------------------------------------------------------------------
(* docker-compose and the daemon.  Two children of one instance interleave. *)

\* The last child of an instance leaves it running what its sidecar says.
ChildEnds(i, k) ==
  /\ work' = [work EXCEPT ![i] = @ \ {k}]
  /\ changed' = IF /\ pc[i] = "idle" /\ Due(i)' = {}
                   /\ bound'[i] \in {{}, Values(sidecar[i])}
                THEN changed \ {i} ELSE changed
  /\ UNCHANGED <<sidecar, rendered, allocation, request, pc, picks, unguarded,
                 raced, starts, restarts>>

\* Containers whose configuration is the same are left alone.
UpLeaves(i, k) ==
  /\ k.kind = "up" /\ bound[i] = k.ports
  /\ UNCHANGED bound /\ ChildEnds(i, k)

\* Others are removed, and their ports with them.
UpRecreates(i, k) ==
  /\ k.kind = "up"
  /\ work' = [work EXCEPT ![i] = (@ \ {k}) \cup {[k EXCEPT !.kind = "bind"]}]
  /\ bound' = [bound EXCEPT ![i] = {}]
  /\ UNCHANGED <<sidecar, rendered, allocation, request, pc, picks, history>>

PullFails(i, k) ==
  /\ k.kind = "up" /\ Fault("pull")
  /\ UNCHANGED bound /\ ChildEnds(i, k)

\* "port is already allocated", or containers that a second child has created
\* in the meantime, fail the child.
UpBinds(i, k) ==
  /\ k.kind = "bind"
  /\ bound' = [bound EXCEPT
       ![i] = IF @ = {} /\ k.ports \cap PublishedL4Ports(i) = {} THEN k.ports ELSE @]
  /\ ChildEnds(i, k)

StopEnds(i, k) ==
  /\ k.kind = "stop"
  /\ bound' = [bound EXCEPT ![i] = {}]
  /\ ChildEnds(i, k)

\* The TTL of a reservation ends: after the handler, and before its child has
\* bound the port only if a pull is slow.
Lapse(p) ==
  LET i == pending[p] IN
  /\ i # NoInstance /\ p \notin Values(picks[i])
  /\ p \in Due(i) => Fault("slow")
  /\ pending' = [pending EXCEPT ![p] = NoInstance]
  /\ unguarded' = IF p \in Due(i) THEN unguarded \cup {i} ELSE unguarded
  /\ UNCHANGED <<host, allocator, occupied, reserved, request, pc, picks, raced,
                 changed, starts, restarts>>

\* The process restarts: its memory and its children are gone.  The daemon may
\* still finish what it was asked to create or stop.
Restart(left) ==
  /\ restarts < MaxRestarts /\ restarts' = restarts + 1
  /\ work' = [i \in Instances |->
       IF i \in left THEN {k \in work[i] : k.kind # "up"} ELSE {}]
  /\ unguarded' = unguarded \cup {i \in left : work'[i] # {}}
  /\ pending' = [p \in Range1 |-> NoInstance]
  /\ Released
  /\ pc' = [i \in Instances |-> "idle"]
  /\ picks' = [i \in Instances |-> NoPorts]
  /\ wants' = [i \in Instances |-> {}]
  /\ sticky' = [i \in Instances |-> NoPorts]
  /\ UNCHANGED <<bound, sidecar, rendered, raced, changed, starts>>

Handler(i) ==
  \/ StartGreffon(i) \/ Enumerate(i) \/ EnumerateFails(i)
  \/ Pick(i) \/ NoChoice(i) \/ SaveSticky(i) \/ SaveFails(i)
  \/ \E removes \in BOOLEAN : RenderFails(i, removes)
  \/ Start(i) \/ SpawnFails(i) \/ StopGreffon(i)

Compose(i, k) ==
  \/ UpLeaves(i, k) \/ UpRecreates(i, k) \/ PullFails(i, k) \/ UpBinds(i, k)
  \/ StopEnds(i, k)

Next ==
  \/ \E i \in Instances : Handler(i) \/ \E k \in work[i] : Compose(i, k)
  \/ \E p \in Range1 : Lapse(p)
  \/ \E left \in SUBSET Instances : Restart(left)

Spec == Init /\ [][Next]_vars

-----------------------------------------------------------------------------
(* Properties.                                                             *)

\* Types of the variables.
TypeOK ==
  /\ bound \in [Instances -> SUBSET Range1]
  /\ sidecar \in [Instances -> PortMaps]
  /\ rendered \subseteq Instances
  /\ work \in [Instances -> SUBSET Children]
  /\ pending \in [Range1 -> Instances \cup {NoInstance}]
  /\ allocator \in Instances \cup {NoInstance}
  /\ occupied \subseteq Range1 /\ reserved \subseteq Range1
  /\ pc \in [Instances -> Steps]
  /\ wants \in [Instances -> SUBSET Names]
  /\ sticky \in [Instances -> PortMaps]
  /\ picks \in [Instances -> PortMaps]
  /\ unguarded \subseteq Instances /\ raced \in BOOLEAN
  /\ changed \subseteq Instances /\ starts \in Nat /\ restarts \in Nat

\* Two names of a map have different ports.
Distinct(m) == \A x, y \in Named(m) : m[x] = m[y] => x = y

\* "Two starts of two DIFFERENT instances are real threads": however their
\* handlers, children, failures and restarts interleave, no port is granted
\* twice, to two instances or to two names of one.  Exempt are a start whose
\* pull outlives the TTL of its reservation or whose container the daemon
\* creates after a restart of the process, and an instance started again while
\* it runs or its last start is in flight: its reservation is pruned because
\* its own old container still publishes the port, and recreating that
\* container opens the port to a third start before it is bound again.
GrantsDisjoint ==
  /\ \A i, j \in Instances \ unguarded :
       i # j => Granted(i) \cap Granted(j) = {}
  /\ \A i \in Instances : Distinct(picks[i])

\* "Re-deploying an instance keeps its own ports": the addresses in the
\* sidecar, which clients have been given, are those a running instance has,
\* through rotations, refused starts, failed saves, overlapping children and
\* restarts.  It is not so once an instance has lost its port in one of the
\* ways above (its next start rotates), nor for an instance that is started
\* again, while it runs or its last start is in flight, with other names or
\* with a sidecar that cannot be read: the sidecar is saved before the start can
\* still be refused, and differs from what runs until a child ends with them
\* in agreement.
RunningMatchesSidecar ==
  raced \/ \A i \in Instances \ changed :
             bound[i] # {} => bound[i] = Values(sidecar[i])

\* "Must NOT be rotated (clients baked it in)": the port of a name of a
\* same_port instance on a proxy node is not replaced by another once it is
\* saved, unless that start could not read the sidecar, which load takes for
\* an empty one.  A compose without the name does forget its port.
SamePortKept ==
  [][\A i \in SamePort : \A n \in Names :
       /\ sidecar[i][n] # 0 /\ sidecar'[i][n] \notin {0, sidecar[i][n]}
       => sticky[i] # sidecar[i]]_vars
=============================================================================
