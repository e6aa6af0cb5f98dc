------------------------ MODULE InstanceStartProofs -------------------------
(***************************************************************************)
(* No L4 port is granted twice, for any number of instances, names, ports, *)
(* starts and restarts and every set of faults; a same_port address that   *)
(* has been saved stays; and what a running instance has bound is what its *)
(* sidecar file says.                                                      *)
(***************************************************************************)
EXTENDS InstanceStart, WellFoundedInduction, TLAPS

\* What a start has at each step; at work on its ports it holds the allocation
\* lock.
PhaseInv ==
  \A i \in Instances :
    /\ pc[i] \in {"idle", "enumerate"} => picks[i] = NoPorts
    /\ pc[i] \in {"pick", "save"} => allocator = i
    /\ pc[i] = "pick" => Named(picks[i]) \subseteq wants[i]
    /\ pc[i] = "save" => Named(picks[i]) = wants[i]

\* A guarded instance shares no port with any other, guarded or not.
ApartInv ==
  \A j \in Instances \ unguarded, k \in Instances :
    j # k => Granted(j) \cap Granted(k) = {}

\* It has one promise at a time: none while it runs, one start with ports.
OnePromise(j) ==
  /\ Promised(j) # {} \/ pc[j] = "pick" => bound[j] = {}
  /\ Values(picks[j]) # {} \/ pc[j] = "pick" => Due(j) = {}
  /\ \A c, d \in work[j] : c.ports # {} /\ d.ports # {} => c = d

\* Its reservations stand until its child has bound them.
HeldInv ==
  \A j \in Instances \ unguarded :
    /\ \A p \in Promised(j) : pending[p] = j
    /\ OnePromise(j)

\* The allocator has seen, in the daemon or among the reservations, every
\* port of the other guarded instances.
SeenInv ==
  \A i \in Instances : allocator = i =>
    \A j \in Instances \ unguarded :
      j # i => Granted(j) \subseteq occupied \cup reserved

GuardInv == ApartInv /\ HeldInv /\ SeenInv

\* The names of one instance get different ports.
DistinctInv == \A i \in Instances : Distinct(picks[i])

GrantInv == TypeOK /\ PhaseInv /\ GuardInv /\ DistinctInv

USE DEF Goto, Drops

-----------------------------------------------------------------------------
(* Maps of ports, and the choice of one.                                   *)

\* The empty map is one, and has no names.
LEMMA NoValues == NoPorts \in PortMaps /\ Named(NoPorts) = {} /\ Values(NoPorts) = {}
<1>1. NoPorts \in PortMaps
  BY StartConstants DEF NoPorts, PortMaps
<1>2. Named(NoPorts) = {}
  BY DEF NoPorts, Named
<1>. QED
  BY <1>1, <1>2 DEF Values

\* The ports of a map are in the range.
LEMMA ValuesInRange ==
  ASSUME NEW m \in PortMaps
  PROVE  Values(m) \subseteq Range1
BY StartConstants DEF PortMaps, Values, Named, Range1

\* What a pick does to the map it extends.
LEMMA PickValues ==
  ASSUME NEW m \in PortMaps, NEW n \in Names, m[n] = 0, NEW p \in Range1
  PROVE  LET r == [m EXCEPT ![n] = p] IN
         /\ r \in PortMaps /\ r[n] = p /\ \A x \in Names \ {n} : r[x] = m[x]
         /\ Named(r) = Named(m) \cup {n} /\ Values(r) = Values(m) \cup {p}
<1>. DEFINE r == [m EXCEPT ![n] = p]
<1>1. p \in 0 .. RangeEnd /\ p # 0
  BY StartConstants DEF Range1
<1>2. r \in PortMaps /\ r[n] = p /\ \A x \in Names \ {n} : r[x] = m[x]
  BY <1>1 DEF PortMaps
<1>3. Named(r) = Named(m) \cup {n}
  BY <1>1, <1>2 DEF Named
<1>4. Values(r) = Values(m) \cup {p}
  <2>1. \A x \in Named(m) : x # n /\ r[x] = m[x]
    BY <1>2 DEF Named
  <2>. HIDE DEF r
  <2>. QED
    BY <1>2, <1>3, <2>1 DEF Values
<1>. QED
  BY <1>2, <1>3, <1>4

\* A set of ports that is not empty has a lowest one.
LEMMA LowestIsMember ==
  ASSUME NEW S, S \subseteq Range1, S # {}
  PROVE  Lowest(S) \in S
<1>1. S \subseteq Nat
  BY StartConstants DEF Range1
<1>2. PICK x \in S : \A y \in S : ~ (<<y, x>> \in OpToRel(<, Nat))
  BY <1>1, NatLessThanWellFounded, WFMin
<1>3. \A y \in S : x <= y
  <2>. SUFFICES ASSUME NEW y \in S PROVE x <= y
    OBVIOUS
  <2>1. ~ (y < x)
    BY <1>1, <1>2 DEF OpToRel
  <2>. QED
    BY <1>1, <2>1
<1>. QED
  BY <1>3 DEF Lowest

\* A chosen port is in the range and neither published, reserved nor picked
\* for another name.
LEMMA ChoiceIsFree ==
  ASSUME TypeOK, NEW i \in Instances, NEW n \in Names, NEW p \in Choices(i, n)
  PROVE  p \in Range1 \ Taken(i)
<1>1. CASE Previous(i, n) # {} /\ Previous(i, n) \cap Taken(i) = {}
  <2>1. p \in Previous(i, n)
    BY <1>1 DEF Choices
  <2>2. sticky[i][n] \in 0 .. RangeEnd
    BY DEF TypeOK, PortMaps
  <2>3. Previous(i, n) \subseteq Range1
    BY <2>2, StartConstants DEF Previous, Range1
  <2>. QED
    BY <1>1, <2>1, <2>3
<1>2. CASE ~(Previous(i, n) # {} /\ Previous(i, n) \cap Taken(i) = {})
  <2>1. Free(i) # {} /\ p = Lowest(Free(i))
    BY <1>2 DEF Choices
  <2>2. Free(i) \subseteq Range1
    BY DEF Free
  <2>3. p \in Free(i)
    BY <2>1, <2>2, LowestIsMember
  <2>. QED
    BY <2>3 DEF Free
<1>. QED
  BY <1>1, <1>2

-----------------------------------------------------------------------------
(* What the steps change.                                                  *)

\* A pick, taken apart.
LEMMA PickEffect ==
  ASSUME TypeOK, NEW i \in Instances, Pick(i)
  PROVE  \E n \in Left(i), p \in Range1 :
           /\ p \in Choices(i, n) /\ n \in Names /\ n \in wants[i]
           /\ picks[i][n] = 0 /\ p \notin Taken(i)
           /\ pc[i] = "pick" /\ pc'[i] = (IF Left(i) = {n} THEN "save" ELSE "pick")
           /\ picks'[i] = [picks[i] EXCEPT ![n] = p]
           /\ picks'[i] \in PortMaps
           /\ Named(picks'[i]) = Named(picks[i]) \cup {n}
           /\ Values(picks'[i]) = Values(picks[i]) \cup {p}
           /\ picks'[i][n] = p /\ \A x \in Names \ {n} : picks'[i][x] = picks[i][x]
           /\ \A k \in Instances \ {i} : picks'[k] = picks[k] /\ pc'[k] = pc[k]
           /\ pending' = [pending EXCEPT ![p] = i]
           /\ LET race == \E j \in unguarded \ {i} : p \in Granted(j) IN
                /\ raced' = (raced \/ race)
                /\ unguarded' = IF race THEN unguarded \cup {i} ELSE unguarded
           /\ UNCHANGED <<bound, sidecar, rendered, work, allocator, occupied,
                          reserved, wants, sticky, changed, starts, restarts>>
<1>0. PICK n \in Left(i) : \E p \in Choices(i, n) :
        /\ picks' = [picks EXCEPT ![i] = [@ EXCEPT ![n] = p]]
        /\ pending' = [pending EXCEPT ![p] = i]
        /\ Goto(i, IF Left(i) = {n} THEN "save" ELSE "pick")
        /\ LET race == \E j \in unguarded \ {i} : p \in Granted(j) IN
             /\ raced' = (raced \/ race)
             /\ unguarded' = IF race THEN unguarded \cup {i} ELSE unguarded
  BY DEF Pick
<1>1. PICK p \in Choices(i, n) :
        /\ picks' = [picks EXCEPT ![i] = [@ EXCEPT ![n] = p]]
        /\ pending' = [pending EXCEPT ![p] = i]
        /\ Goto(i, IF Left(i) = {n} THEN "save" ELSE "pick")
        /\ LET race == \E j \in unguarded \ {i} : p \in Granted(j) IN
             /\ raced' = (raced \/ race)
             /\ unguarded' = IF race THEN unguarded \cup {i} ELSE unguarded
  BY <1>0
<1>2. n \in Names /\ n \in wants[i] /\ picks[i] \in PortMaps /\ picks[i][n] = 0
  BY DEF Left, Named, TypeOK
<1>3. p \in Range1 /\ p \notin Taken(i)
  BY <1>2, ChoiceIsFree
<1>4. /\ picks'[i] = [picks[i] EXCEPT ![n] = p]
      /\ pc'[i] = (IF Left(i) = {n} THEN "save" ELSE "pick")
      /\ \A k \in Instances \ {i} : picks'[k] = picks[k] /\ pc'[k] = pc[k]
  BY <1>1 DEF TypeOK
<1>5. LET r == picks'[i] IN
      /\ r \in PortMaps /\ r[n] = p /\ \A x \in Names \ {n} : r[x] = picks[i][x]
      /\ Named(r) = Named(picks[i]) \cup {n} /\ Values(r) = Values(picks[i]) \cup {p}
  BY <1>2, <1>3, <1>4, PickValues
<1>6. /\ pc[i] = "pick"
      /\ UNCHANGED <<bound, sidecar, rendered, work, allocator, occupied,
                     reserved, wants, sticky, changed, starts, restarts>>
  BY DEF Pick, host, request
<1>. QED
  BY <1>1, <1>2, <1>3, <1>4, <1>5, <1>6

\* A step of docker-compose for one instance: its children lose ports, never
\* gain any, and what it publishes is as before, nothing, or a child's ports.
LEMMA ComposeEffect ==
  ASSUME TypeOK, NEW i \in Instances, NEW k \in work[i], Compose(i, k)
  PROVE  /\ UNCHANGED <<sidecar, rendered, pending, allocator, occupied, reserved,
                        wants, sticky, pc, picks, unguarded, raced, starts, restarts>>
         /\ \A j \in Instances \ {i} : work'[j] = work[j] /\ bound'[j] = bound[j]
         /\ work' \in [Instances -> SUBSET Children]
         /\ bound' \in [Instances -> SUBSET Range1]
         /\ \A c \in work'[i] : \E d \in work[i] : c.ports = d.ports
         /\ Due(i)' \subseteq Due(i)
         /\ \/ bound'[i] \in {bound[i], {}}
            \/ bound'[i] = k.ports /\ bound[i] = {} /\ work'[i] = work[i] \ {k}
         /\ \/ changed' = changed
            \/ /\ changed' = changed \ {i} /\ pc[i] = "idle" /\ Due(i)' = {}
               /\ bound'[i] \in {{}, Values(sidecar[i])}
         /\ (\A c, d \in work[i] : c.ports # {} /\ d.ports # {} => c = d) =>
              (\A c, d \in work'[i] : c.ports # {} /\ d.ports # {} => c = d)
<1>. USE DEF allocation, request, history
<1>0. /\ bound \in [Instances -> SUBSET Range1] /\ k \in Children
      /\ work \in [Instances -> SUBSET Children]
  BY DEF TypeOK
<1>1. CASE UpRecreates(i, k)
  <2>. DEFINE b == [k EXCEPT !.kind = "bind"]
  <2>1. b \in Children /\ b.ports = k.ports
    BY <1>0 DEF Children
  <2>2. /\ work'[i] = (work[i] \ {k}) \cup {b} /\ bound'[i] = {}
        /\ \A j \in Instances \ {i} : work'[j] = work[j] /\ bound'[j] = bound[j]
    BY <1>0, <1>1 DEF UpRecreates
  <2>3. work' \in [Instances -> SUBSET Children] /\ bound' \in [Instances -> SUBSET Range1]
    <3>. HIDE DEF b
    <3>1. (work[i] \ {k}) \cup {b} \in SUBSET Children
      BY <1>0, <2>1
    <3>2. work' = [work EXCEPT ![i] = (work[i] \ {k}) \cup {b}]
      BY <1>1 DEF UpRecreates, b
    <3>. QED
      BY <1>0, <1>1, <3>1, <3>2 DEF UpRecreates
  <2>. HIDE DEF b
  <2>4. \A c \in work'[i] : \E d \in work[i] : c.ports = d.ports
    BY <2>1, <2>2
  <2>5. Due(i)' \subseteq Due(i)
    BY <2>4 DEF Due
  <2>6. /\ UNCHANGED <<sidecar, rendered, pending, allocator, occupied, reserved,
                       wants, sticky, pc, picks, unguarded, raced, starts, restarts>>
        /\ changed' = changed
    BY <1>1 DEF UpRecreates
  <2>7. ASSUME \A c, d \in work[i] : c.ports # {} /\ d.ports # {} => c = d
        PROVE  \A c, d \in work'[i] : c.ports # {} /\ d.ports # {} => c = d
    BY <2>1, <2>2, <2>7
  <2>. QED
    BY <2>2, <2>3, <2>4, <2>5, <2>6, <2>7
<1>2. CASE ~UpRecreates(i, k)
  <2>1. ChildEnds(i, k)
    BY <1>2 DEF Compose, UpLeaves, PullFails, UpBinds, StopEnds
  <2>2. /\ work'[i] = work[i] \ {k}
        /\ \A j \in Instances \ {i} : work'[j] = work[j]
        /\ work' \in [Instances -> SUBSET Children]
    BY <1>0, <2>1 DEF ChildEnds
  <2>3. \/ UNCHANGED bound
        \/ \E S \in {{}, k.ports} : bound' = [bound EXCEPT ![i] = S]
           /\ (bound[i] = {} \/ S = {})
        \/ bound' = [bound EXCEPT ![i] = bound[i]]
    BY <1>2 DEF Compose, UpLeaves, PullFails, UpBinds, StopEnds
  <2>4. k.ports \subseteq Range1
    BY <1>0 DEF Children
  <2>5. /\ bound' \in [Instances -> SUBSET Range1]
        /\ \A j \in Instances \ {i} : bound'[j] = bound[j]
        /\ \/ bound'[i] \in {bound[i], {}}
           \/ bound'[i] = k.ports /\ bound[i] = {}
    BY <1>0, <2>3, <2>4
  <2>6. Due(i)' \subseteq Due(i)
    BY <2>2 DEF Due
  <2>7. /\ UNCHANGED <<sidecar, rendered, pending, allocator, occupied, reserved,
                       wants, sticky, pc, picks, unguarded, raced, starts, restarts>>
        /\ \/ changed' = changed
           \/ /\ changed' = changed \ {i} /\ pc[i] = "idle" /\ Due(i)' = {}
              /\ bound'[i] \in {{}, Values(sidecar[i])}
    BY <2>1 DEF ChildEnds
  <2>. QED
    BY <2>2, <2>5, <2>6, <2>7
<1>. QED
  BY <1>1, <1>2

\* A step of a handler is about its own instance and publishes nothing.
LEMMA HandlerEffect ==
  ASSUME TypeOK, NEW i \in Instances, Handler(i)
  PROVE  /\ bound' = bound
         /\ \A j \in Instances \ {i} :
              /\ pc'[j] = pc[j] /\ picks'[j] = picks[j] /\ work'[j] = work[j]
              /\ sidecar'[j] = sidecar[j] /\ wants'[j] = wants[j]
              /\ sticky'[j] = sticky[j] /\ (j \in changed' <=> j \in changed)
BY DEF Handler, StartGreffon, Enumerate, EnumerateFails, Pick, NoChoice, SaveSticky,
     SaveFails, RenderFails, Start, SpawnFails, StopGreffon, Refused, Decided, host,
     request, history, TypeOK

-----------------------------------------------------------------------------
(* Types and phases.                                                       *)

\* Every action keeps the types.
LEMMA TypeStep == TypeOK /\ [Next]_vars => TypeOK'
<1>. SUFFICES ASSUME TypeOK, [Next]_vars PROVE TypeOK'
  OBVIOUS
<1>. USE StartConstants DEF Steps, host, allocation, request, history
<1>6. ASSUME NEW i \in Instances, Refused(i)
      PROVE  pc' \in [Instances -> Steps] /\ picks' \in [Instances -> PortMaps]
  BY <1>6, NoValues DEF Refused, TypeOK
<1>7. ASSUME NEW i \in Instances, Decided(i)
      PROVE  wants' \in [Instances -> SUBSET Names] /\ sticky' \in [Instances -> PortMaps]
  BY <1>7, NoValues DEF Decided, TypeOK
<1>1. ASSUME NEW i \in Instances, Handler(i) PROVE TypeOK'
  <2>1. CASE StartGreffon(i)
    <3>1. /\ pc' \in [Instances -> Steps]
          /\ wants' \in [Instances -> SUBSET Names]
          /\ sticky' \in [Instances -> PortMaps]
      BY <2>1, NoValues DEF StartGreffon, Load, TypeOK
    <3>. QED
      BY <2>1, <3>1 DEF StartGreffon, Load, TypeOK
  <2>2. CASE Enumerate(i)
    <3>1. occupied' \subseteq Range1
      BY <2>2 DEF Enumerate, PublishedL4Ports, TypeOK
    <3>2. pending' \in [Range1 -> Instances \cup {NoInstance}]
      BY <2>2 DEF Enumerate, Prune, TypeOK
    <3>3. reserved' \subseteq Range1 /\ unguarded' \subseteq Instances
      BY <2>2 DEF Enumerate, TypeOK
    <3>. QED
      BY <2>2, <3>1, <3>2, <3>3 DEF Enumerate, TypeOK
  <2>3. CASE EnumerateFails(i)
    BY <1>6, <1>7, <2>3 DEF EnumerateFails, TypeOK
  <2>4. CASE Pick(i)
    <3>1. PICK n \in Left(i), p \in Range1 :
            /\ picks' = [picks EXCEPT ![i] = picks'[i]]
            /\ picks'[i] \in PortMaps
            /\ pending' = [pending EXCEPT ![p] = i]
            /\ raced' \in BOOLEAN /\ unguarded' \subseteq unguarded \cup {i}
            /\ UNCHANGED <<bound, sidecar, rendered, work, allocator, occupied,
                           reserved, wants, sticky, changed, starts, restarts>>
      <4>1. \E m : picks' = [picks EXCEPT ![i] = m]
        BY <2>4 DEF Pick
      <4>2. picks' = [picks EXCEPT ![i] = picks'[i]]
        BY <4>1 DEF TypeOK
      <4>. QED
        BY <2>4, <4>2, PickEffect DEF TypeOK
    <3>2. picks' \in [Instances -> PortMaps]
      BY <3>1 DEF TypeOK
    <3>3. pc' \in [Instances -> Steps]
      BY <2>4 DEF Pick, TypeOK
    <3>4. pending' \in [Range1 -> Instances \cup {NoInstance}]
      BY <3>1 DEF TypeOK
    <3>. QED
      BY <3>1, <3>2, <3>3, <3>4 DEF TypeOK
  <2>5. CASE NoChoice(i) \/ SaveFails(i)
    BY <1>6, <1>7, <2>5 DEF NoChoice, SaveFails, Released, TypeOK
  <2>6. CASE SaveSticky(i)
    <3>1. /\ sidecar' \in [Instances -> PortMaps] /\ changed' \subseteq Instances
          /\ pc' \in [Instances -> Steps]
      BY <2>6 DEF SaveSticky, TypeOK
    <3>. QED
      BY <1>7, <2>6, <3>1 DEF SaveSticky, Released, TypeOK
  <2>7. CASE (\E r \in BOOLEAN : RenderFails(i, r)) \/ SpawnFails(i)
    BY <1>6, <2>7 DEF RenderFails, SpawnFails, CreateCompose, TypeOK
  <2>8. CASE Start(i)
    <3>1. PICK n \in Fresh(i) : work' = [work EXCEPT ![i] = @ \cup
            {[n |-> n, kind |-> "up", ports |-> Values(picks[i])]}]
      BY <2>8 DEF Start
    <3>2. n \in Nat /\ Values(picks[i]) \subseteq Range1
      BY ValuesInRange DEF Fresh, TypeOK
    <3>3. [n |-> n, kind |-> "up", ports |-> Values(picks[i])] \in Children
      BY <3>2 DEF Children
    <3>4. work' \in [Instances -> SUBSET Children]
      BY <3>1, <3>3 DEF TypeOK
    <3>. QED
      BY <2>8, <3>4, NoValues DEF Start, CreateCompose, TypeOK
  <2>9. CASE StopGreffon(i)
    <3>1. [n |-> 0, kind |-> "stop", ports |-> {}] \in Children
      BY DEF Children
    <3>. QED
      BY <2>9, <3>1 DEF StopGreffon, TypeOK
  <2>. QED
    BY <1>1, <2>1, <2>2, <2>3, <2>4, <2>5, <2>6, <2>7, <2>8, <2>9 DEF Handler
<1>2. ASSUME NEW i \in Instances, NEW k \in work[i], Compose(i, k) PROVE TypeOK'
  <2>1. changed' \subseteq changed
    BY <1>2, ComposeEffect
  <2>. QED
    BY <1>2, <2>1, ComposeEffect DEF TypeOK
<1>3. ASSUME NEW p \in Range1, Lapse(p) PROVE TypeOK'
  <2>1. pending[p] \in Instances
    BY <1>3 DEF Lapse, TypeOK
  <2>. QED
    BY <1>3, <2>1 DEF Lapse, TypeOK
<1>4. ASSUME NEW left \in SUBSET Instances, Restart(left) PROVE TypeOK'
  <2>1. work' \in [Instances -> SUBSET Children] /\ unguarded' \subseteq Instances
    BY <1>4 DEF Restart, TypeOK
  <2>. QED
    BY <1>4, <2>1, NoValues DEF Restart, Released, TypeOK
<1>5. CASE UNCHANGED vars
  BY <1>5 DEF vars, TypeOK
<1>. QED
  BY <1>1, <1>2, <1>3, <1>4, <1>5 DEF Next

\* Every action keeps the phases.
LEMMA PhaseStep == TypeOK /\ PhaseInv /\ [Next]_vars => PhaseInv'
<1>. SUFFICES ASSUME TypeOK, PhaseInv, [Next]_vars PROVE PhaseInv'
  OBVIOUS
<1>. USE StartConstants DEF host, allocation, request, history
<1>0. /\ pc \in [Instances -> Steps] /\ picks \in [Instances -> PortMaps]
      /\ wants \in [Instances -> SUBSET Names] /\ sticky \in [Instances -> PortMaps]
  BY DEF TypeOK
<1>6. ASSUME NEW i \in Instances, pc'[i] \notin {"pick", "save"},
             pc'[i] \in {"idle", "enumerate"} => picks'[i] = NoPorts,
             \A j \in Instances \ {i} :
               pc'[j] = pc[j] /\ picks'[j] = picks[j] /\ wants'[j] = wants[j],
             pc[i] \in {"pick", "save"} \/ allocator' = allocator
      PROVE  PhaseInv'
  BY <1>6 DEF PhaseInv
<1>1. ASSUME NEW i \in Instances, Handler(i) PROVE PhaseInv'
  <2>0. \A j \in Instances \ {i} :
          pc'[j] = pc[j] /\ picks'[j] = picks[j] /\ wants'[j] = wants[j]
    BY <1>1, HandlerEffect
  <2>1. CASE StartGreffon(i)
    <3>1. picks[i] = NoPorts /\ pc'[i] \in {"enumerate", "render"}
      BY <1>0, <2>1 DEF StartGreffon, PhaseInv
    <3>. QED
      BY <1>6, <2>0, <2>1, <3>1 DEF StartGreffon
  <2>2. CASE Enumerate(i)
    <3>1. /\ picks'[i] = NoPorts /\ pc'[i] = "pick" /\ allocator = NoInstance
          /\ allocator' = i
      BY <1>0, <2>2 DEF Enumerate, PhaseInv
    <3>. QED
      BY <2>0, <3>1, NoValues DEF PhaseInv
  <2>3. CASE EnumerateFails(i) \/ NoChoice(i) \/ SaveFails(i) \/ SpawnFails(i)
             \/ (\E r \in BOOLEAN : RenderFails(i, r))
    <3>1. Refused(i) /\ (pc[i] \in {"pick", "save"} \/ allocator' = allocator)
      BY <2>3 DEF EnumerateFails, NoChoice, SaveFails, SpawnFails, RenderFails
    <3>2. pc'[i] = "idle" /\ picks'[i] = NoPorts
      BY <1>0, <3>1 DEF Refused
    <3>. QED
      BY <1>6, <2>0, <3>1, <3>2
  <2>4. CASE Pick(i)
    <3>1. PICK n \in Left(i), p \in Range1 :
            /\ n \in wants[i] /\ picks[i][n] = 0 /\ pc[i] = "pick"
            /\ pc'[i] = (IF Left(i) = {n} THEN "save" ELSE "pick")
            /\ Named(picks'[i]) = Named(picks[i]) \cup {n}
            /\ UNCHANGED <<allocator, wants>>
      BY <2>4, PickEffect
    <3>2. Left(i) = {n} => Named(picks'[i]) = wants[i]
      BY <3>1 DEF Left, PhaseInv
    <3>3. /\ Named(picks'[i]) \subseteq wants'[i]
          /\ pc'[i] = "save" => Named(picks'[i]) = wants'[i]
          /\ pc'[i] \in {"pick", "save"} /\ allocator' = i
      BY <3>1, <3>2 DEF PhaseInv
    <3>. QED
      BY <2>0, <3>1, <3>3 DEF PhaseInv
  <2>5. CASE SaveSticky(i)
    BY <1>0, <1>6, <2>0, <2>5 DEF SaveSticky
  <2>6. CASE Start(i)
    <3>1. pc'[i] = "idle" /\ picks'[i] = NoPorts
      BY <1>0, <2>6 DEF Start
    <3>. QED
      BY <1>6, <2>0, <2>6, <3>1 DEF Start
  <2>7. CASE StopGreffon(i)
    BY <2>7 DEF StopGreffon, PhaseInv
  <2>. QED
    BY <1>1, <2>1, <2>2, <2>3, <2>4, <2>5, <2>6, <2>7 DEF Handler
<1>2. ASSUME NEW i \in Instances, NEW k \in work[i], Compose(i, k) PROVE PhaseInv'
  BY <1>2, ComposeEffect DEF PhaseInv
<1>3. ASSUME NEW p \in Range1, Lapse(p) PROVE PhaseInv'
  BY <1>3 DEF Lapse, PhaseInv
<1>4. ASSUME NEW left \in SUBSET Instances, Restart(left) PROVE PhaseInv'
  BY <1>4 DEF Restart, PhaseInv
<1>5. CASE UNCHANGED vars
  BY <1>5 DEF vars, PhaseInv
<1>. QED
  BY <1>1, <1>2, <1>3, <1>4, <1>5 DEF Next

-----------------------------------------------------------------------------
(* Grants.                                                                 *)

\* A step that grants nothing, keeps the reservations of what is promised and
\* begins no allocation.
GrantsNothing ==
  /\ unguarded \subseteq unguarded'
  /\ \A k \in Instances :
       Granted(k)' \subseteq Granted(k) /\ Promised(k)' \subseteq Promised(k)
  /\ \A j \in Instances \ unguarded' :
       /\ OnePromise(j) => OnePromise(j)'
       /\ \A p \in Promised(j)' : pending[p] = j => pending'[p] = j
  /\ \/ UNCHANGED <<allocator, occupied, reserved>>
     \/ allocator' = NoInstance

\* It keeps the invariant.
LEMMA NothingGranted == GuardInv /\ GrantsNothing => GuardInv'
<1>. SUFFICES ASSUME GuardInv, GrantsNothing PROVE GuardInv'
  OBVIOUS
<1>1. ApartInv'
  BY DEF GuardInv, ApartInv, GrantsNothing
<1>2. HeldInv'
  BY DEF GuardInv, HeldInv, GrantsNothing
<1>3. SeenInv'
  BY StartConstants DEF GuardInv, SeenInv, GrantsNothing
<1>. QED
  BY <1>1, <1>2, <1>3 DEF GuardInv

\* A handler that is refused gives up what it was promised, and one that goes
\* on to another step neither gains nor loses a port.
LEMMA QuietGrantsNothing ==
  ASSUME TypeOK, NEW i \in Instances, UNCHANGED <<bound, pending, unguarded>>,
         \A k \in Instances \ {i} :
           pc'[k] = pc[k] /\ picks'[k] = picks[k] /\ work'[k] = work[k],
         pc'[i] = pc[i] \/ pc'[i] # "pick", picks'[i] \in {picks[i], NoPorts},
         Due(i)' = Due(i),
         (\A c, d \in work[i] : c.ports # {} /\ d.ports # {} => c = d) =>
           (\A c, d \in work'[i] : c.ports # {} /\ d.ports # {} => c = d),
         UNCHANGED <<allocator, occupied, reserved>> \/ allocator' = NoInstance
  PROVE  GrantsNothing
<1>1. Values(picks[i])' \subseteq Values(picks[i])
  BY NoValues
<1>2. \A k \in Instances \ {i} :
        /\ Due(k)' = Due(k) /\ Promised(k)' = Promised(k) /\ Granted(k)' = Granted(k)
        /\ OnePromise(k) => OnePromise(k)'
  BY DEF Due, Promised, Granted, OnePromise
<1>3. Promised(i)' \subseteq Promised(i) /\ Granted(i)' \subseteq Granted(i)
  BY <1>1 DEF Promised, Granted
<1>4. OnePromise(i) => OnePromise(i)'
  BY <1>1, <1>3 DEF OnePromise
<1>. QED
  BY <1>2, <1>3, <1>4 DEF GrantsNothing

\* A start that spawns its child hands its promise over.
LEMMA StartGrantsNothing ==
  ASSUME TypeOK, NEW i \in Instances, Start(i)
  PROVE  GrantsNothing
<1>1. PICK n \in Fresh(i) : work' = [work EXCEPT ![i] = @ \cup
        {[n |-> n, kind |-> "up", ports |-> Values(picks[i])]}]
  BY DEF Start
<1>. DEFINE u == [n |-> n, kind |-> "up", ports |-> Values(picks[i])]
<1>2. /\ work'[i] = work[i] \cup {u} /\ u.ports = Values(picks[i])
      /\ pc[i] = "render" /\ pc'[i] = "idle" /\ picks'[i] = NoPorts
      /\ \A k \in Instances \ {i} :
           pc'[k] = pc[k] /\ picks'[k] = picks[k] /\ work'[k] = work[k]
      /\ UNCHANGED <<bound, pending, unguarded, allocator, occupied, reserved>>
  BY <1>1 DEF Start, TypeOK, allocation, history
<1>. HIDE DEF u
<1>3. Due(i)' = Due(i) \cup Values(picks[i]) /\ Values(picks[i])' = {}
  BY <1>2, NoValues DEF Due
<1>4. Promised(i)' = Promised(i) /\ Granted(i)' = Granted(i)
  BY <1>2, <1>3 DEF Promised, Granted
<1>5. ASSUME OnePromise(i) PROVE OnePromise(i)'
  <2>1. ASSUME NEW c \in work'[i], NEW d \in work'[i], c.ports # {}, d.ports # {}
        PROVE  c = d
    <3>1. CASE Values(picks[i]) = {}
      BY <1>2, <1>5, <2>1, <3>1 DEF OnePromise
    <3>2. CASE Values(picks[i]) # {}
      <4>1. \A e \in work[i] : e.ports = {}
        BY <1>5, <3>2 DEF OnePromise, Due
      <4>. QED
        BY <1>2, <2>1, <4>1
    <3>. QED
      BY <3>1, <3>2
  <2>. QED
    BY <1>2, <1>3, <1>4, <1>5, <2>1 DEF OnePromise
<1>6. \A k \in Instances \ {i} :
        /\ Promised(k)' = Promised(k) /\ Granted(k)' = Granted(k)
        /\ OnePromise(k) => OnePromise(k)'
  BY <1>2 DEF Due, Promised, Granted, OnePromise
<1>. QED
  BY <1>2, <1>4, <1>5, <1>6 DEF GrantsNothing

\* A step of docker-compose: what it binds was promised, and that promise is
\* over.
LEMMA ComposeGrantsNothing ==
  ASSUME TypeOK, NEW i \in Instances, NEW k \in work[i], Compose(i, k)
  PROVE  GrantsNothing
<1>1. /\ UNCHANGED <<pending, allocator, occupied, reserved, pc, picks, unguarded>>
      /\ \A j \in Instances \ {i} : work'[j] = work[j] /\ bound'[j] = bound[j]
      /\ Due(i)' \subseteq Due(i)
      /\ \/ bound'[i] \in {bound[i], {}}
         \/ bound'[i] = k.ports /\ bound[i] = {} /\ work'[i] = work[i] \ {k}
      /\ (\A c, d \in work[i] : c.ports # {} /\ d.ports # {} => c = d) =>
           (\A c, d \in work'[i] : c.ports # {} /\ d.ports # {} => c = d)
  BY ComposeEffect
<1>2. k.ports \subseteq Due(i)
  BY DEF Due
<1>3. Promised(i)' \subseteq Promised(i) /\ Granted(i)' \subseteq Granted(i)
  BY <1>1, <1>2 DEF Promised, Granted
<1>4. ASSUME OnePromise(i) PROVE OnePromise(i)'
  <2>1. CASE bound'[i] \in {bound[i], {}}
    BY <1>1, <1>3, <1>4, <2>1 DEF OnePromise
  <2>2. CASE bound'[i] = k.ports /\ bound'[i] # {} /\ work'[i] = work[i] \ {k}
    <3>1. \A c \in work'[i] : c.ports = {}
      BY <1>4, <2>2 DEF OnePromise
    <3>2. Due(i)' = {}
      BY <3>1 DEF Due
    <3>3. Values(picks[i]) = {} /\ pc[i] # "pick"
      BY <1>2, <1>4, <2>2 DEF OnePromise
    <3>. QED
      BY <1>1, <1>4, <3>2, <3>3 DEF OnePromise, Promised
  <2>. QED
    BY <1>1, <2>1, <2>2
<1>5. \A j \in Instances \ {i} :
        /\ Promised(j)' = Promised(j) /\ Granted(j)' = Granted(j)
        /\ OnePromise(j) => OnePromise(j)'
  BY <1>1 DEF Due, Promised, Granted, OnePromise
<1>. QED
  BY <1>1, <1>3, <1>4, <1>5 DEF GrantsNothing

\* The enumeration: what others hold is published or reserved, and of the
\* reservations it prunes none is needed.
LEMMA EnumerateStep ==
  ASSUME TypeOK, PhaseInv, GuardInv, NEW i \in Instances, Enumerate(i)
  PROVE  GuardInv'
<1>. USE StartConstants
<1>1. /\ picks[i] = NoPorts /\ picks' = picks /\ bound' = bound /\ work' = work
      /\ Values(picks[i]) = {}
      /\ \A j \in Instances \ {i} : pc'[j] = pc[j]
  BY NoValues DEF Enumerate, PhaseInv, host, TypeOK
<1>2. \A j \in Instances \ {i} : (j \in unguarded' <=> j \in unguarded)
  BY DEF Enumerate
<1>3. i \notin unguarded' =>
        bound[i] = {} /\ Granted(i) = {} /\ Promised(i) = {} /\ Due(i) = {}
  BY <1>1 DEF Enumerate, Granted, Promised, AtRest
<1>4. \A k \in Instances :
        Granted(k)' = Granted(k) /\ Promised(k)' = Promised(k) /\ Due(k)' = Due(k)
  BY <1>1 DEF Granted, Promised, Due
<1>5. ApartInv'
  BY <1>2, <1>3, <1>4 DEF GuardInv, ApartInv
<1>6. \A j \in Instances \ unguarded' : \A p \in Promised(j) :
        j # i /\ p \notin occupied' /\ pending'[p] = j /\ p \in Range1
  <2>. SUFFICES ASSUME NEW j \in Instances \ unguarded', NEW p \in Promised(j)
                PROVE  j # i /\ p \notin occupied' /\ pending'[p] = j /\ p \in Range1
    OBVIOUS
  <2>1. j # i /\ j \notin unguarded
    BY <1>2, <1>3
  <2>2. p \in Range1
    BY ValuesInRange DEF TypeOK, Promised, Due, Children
  <2>3. pending[p] = j /\ bound[j] = {}
    BY <2>1, <2>2 DEF GuardInv, HeldInv, OnePromise
  <2>4. \A k \in Instances : k # j => p \notin bound[k]
    BY <2>1 DEF GuardInv, ApartInv, Granted
  <2>5. p \notin occupied'
    BY <2>3, <2>4 DEF Enumerate, PublishedL4Ports
  <2>. QED
    BY <2>1, <2>2, <2>3, <2>5 DEF Enumerate, Prune
<1>7. HeldInv'
  <2>. SUFFICES ASSUME NEW j \in Instances \ unguarded'
                PROVE  /\ \A p \in Promised(j)' : pending'[p] = j
                       /\ OnePromise(j)'
    BY DEF HeldInv
  <2>1. CASE j = i
    <3>1. \A c \in work'[i] : c.ports = {}
      BY <1>1, <1>3, <2>1 DEF Due
    <3>. QED
      BY <1>1, <1>3, <1>4, <2>1, <3>1 DEF OnePromise
  <2>2. CASE j # i
    <3>1. OnePromise(j)
      BY <1>2, <2>2 DEF GuardInv, HeldInv
    <3>. QED
      BY <1>1, <1>4, <1>6, <2>2, <3>1 DEF OnePromise
  <2>. QED
    BY <2>1, <2>2
<1>8. SeenInv'
  <2>. SUFFICES ASSUME NEW j \in Instances \ unguarded', j # i, NEW p \in Granted(j)
                PROVE  p \in occupied' \cup reserved'
    BY <1>4 DEF Enumerate, SeenInv
  <2>1. CASE p \in bound[j]
    BY <2>1 DEF Enumerate, PublishedL4Ports
  <2>2. CASE p \in Promised(j)
    BY <1>6, <2>2 DEF Enumerate
  <2>. QED
    BY <2>1, <2>2 DEF Granted
<1>. QED
  BY <1>5, <1>7, <1>8 DEF GuardInv

\* A pick: the port is nobody's, or its owner was unguarded and now both are.
LEMMA PickStep ==
  ASSUME TypeOK, PhaseInv, GuardInv, NEW i \in Instances, Pick(i)
  PROVE  GuardInv'
<1>. USE StartConstants
<1>1. PICK n \in Left(i), p \in Range1 :
        /\ pc[i] = "pick" /\ p \notin Taken(i)
        /\ Values(picks'[i]) = Values(picks[i]) \cup {p}
        /\ \A k \in Instances \ {i} : picks'[k] = picks[k] /\ pc'[k] = pc[k]
        /\ pending' = [pending EXCEPT ![p] = i]
        /\ LET race == \E j \in unguarded \ {i} : p \in Granted(j) IN
             unguarded' = IF race THEN unguarded \cup {i} ELSE unguarded
        /\ UNCHANGED <<bound, work, allocator, occupied, reserved>>
  BY PickEffect
<1>2. allocator = i /\ p \notin occupied \cup reserved
  BY <1>1 DEF PhaseInv, Taken
<1>3. /\ \A k \in Instances : Due(k)' = Due(k)
      /\ Promised(i)' = Promised(i) \cup {p} /\ Granted(i)' = Granted(i) \cup {p}
      /\ \A k \in Instances \ {i} : Granted(k)' = Granted(k) /\ Promised(k)' = Promised(k)
  BY <1>1 DEF Granted, Promised, Due
<1>7. \A j \in Instances \ unguarded : j # i => p \notin Granted(j)
  BY <1>2 DEF GuardInv, SeenInv
<1>8. /\ unguarded \subseteq unguarded'
      /\ i \notin unguarded' => \A j \in unguarded : j # i => p \notin Granted(j)
  BY <1>1
<1>9. ApartInv'
  <2>. SUFFICES ASSUME NEW j \in Instances \ unguarded', NEW k \in Instances, j # k
                PROVE  Granted(j)' \cap Granted(k)' = {}
    BY DEF ApartInv
  <2>1. Granted(j) \cap Granted(k) = {}
    BY <1>8 DEF GuardInv, ApartInv
  <2>2. CASE j = i
    BY <1>3, <1>7, <1>8, <2>1, <2>2
  <2>3. CASE k = i
    BY <1>3, <1>7, <1>8, <2>1, <2>3
  <2>4. CASE j # i /\ k # i
    BY <1>3, <2>1, <2>4
  <2>. QED
    BY <2>2, <2>3, <2>4
<1>10. HeldInv'
  <2>. SUFFICES ASSUME NEW j \in Instances \ unguarded'
                PROVE  /\ \A q \in Promised(j)' : pending'[q] = j
                       /\ OnePromise(j)'
    BY DEF HeldInv
  <2>0. /\ j \notin unguarded /\ pending \in [Range1 -> Instances \cup {NoInstance}]
        /\ Promised(j) \subseteq Range1
    BY <1>8, ValuesInRange DEF TypeOK, Promised, Due, Children
  <2>1. OnePromise(j) /\ \A q \in Promised(j) : pending[q] = j
    BY <2>0 DEF GuardInv, HeldInv
  <2>2. CASE j = i
    <3>1. bound[i] = {} /\ Due(i) = {}
      BY <1>1, <2>1, <2>2 DEF OnePromise
    <3>2. \A c \in work'[i] : c.ports = {}
      BY <1>1, <3>1 DEF Due
    <3>3. OnePromise(i)'
      BY <1>1, <1>3, <3>1, <3>2 DEF OnePromise
    <3>4. \A q \in Promised(i) \cup {p} : pending'[q] = i
      BY <1>1, <2>0, <2>1, <2>2
    <3>. QED
      BY <1>3, <2>2, <3>3, <3>4
  <2>3. CASE j # i
    <3>1. p \notin Promised(j)
      BY <1>7, <2>0, <2>3 DEF Granted
    <3>2. \A q \in Promised(j) : pending'[q] = j
      BY <1>1, <2>0, <2>1, <3>1
    <3>3. OnePromise(j)'
      BY <1>1, <1>3, <2>1, <2>3 DEF OnePromise
    <3>. QED
      BY <1>3, <2>3, <3>2, <3>3
  <2>. QED
    BY <2>2, <2>3
<1>11. SeenInv'
  <2>. SUFFICES ASSUME NEW j \in Instances \ unguarded', j # i
                PROVE  Granted(j)' \subseteq occupied' \cup reserved'
    BY <1>1, <1>2 DEF SeenInv
  <2>. QED
    BY <1>1, <1>2, <1>3, <1>8 DEF GuardInv, SeenInv
<1>. QED
  BY <1>9, <1>10, <1>11 DEF GuardInv

\* A reservation that lapses is needed no more, or leaves its instance
\* unguarded.
LEMMA LapseStep ==
  ASSUME TypeOK, GuardInv, NEW p \in Range1, Lapse(p)
  PROVE  GuardInv'
<1>1. /\ pending[p] \in Instances /\ p \notin Values(picks[pending[p]])
      /\ p \in Due(pending[p]) => pending[p] \in unguarded'
      /\ pending' = [pending EXCEPT ![p] = NoInstance]
      /\ unguarded \subseteq unguarded'
      /\ UNCHANGED <<bound, work, pc, picks, allocator, occupied, reserved>>
  BY DEF Lapse, TypeOK, host
<1>2. \A k \in Instances :
        /\ Granted(k)' = Granted(k) /\ Promised(k)' = Promised(k)
        /\ OnePromise(k) => OnePromise(k)'
  BY <1>1 DEF Granted, Promised, Due, OnePromise
<1>3. ASSUME NEW j \in Instances \ unguarded', NEW q \in Promised(j), pending[q] = j
      PROVE  pending'[q] = j
  <2>1. q # p
    BY <1>1, <1>3 DEF Promised
  <2>2. q \in Range1
    BY ValuesInRange DEF TypeOK, Promised, Due, Children
  <2>. QED
    BY <1>1, <1>3, <2>1, <2>2 DEF TypeOK
<1>4. GrantsNothing
  BY <1>1, <1>2, <1>3 DEF GrantsNothing
<1>. QED
  BY <1>4, NothingGranted

\* A restart forgets every promise; what the daemon still creates for an
\* instance leaves it unguarded.
LEMMA RestartStep ==
  ASSUME TypeOK, GuardInv, NEW left \in SUBSET Instances, Restart(left)
  PROVE  GuardInv'
<1>1. /\ bound' = bound /\ allocator' = NoInstance /\ unguarded \subseteq unguarded'
      /\ \A k \in Instances : /\ pc'[k] = "idle" /\ picks'[k] = NoPorts
                              /\ work'[k] \subseteq work[k]
                              /\ k \notin unguarded' => work'[k] = {}
  BY DEF Restart, Released, TypeOK
<1>2. \A k \in Instances :
        /\ Values(picks[k])' = {} /\ Due(k)' \subseteq Due(k)
        /\ k \notin unguarded' => Due(k)' = {}
  BY <1>1, NoValues DEF Due
<1>3. \A k \in Instances :
        /\ Promised(k)' \subseteq Promised(k) /\ Granted(k)' \subseteq Granted(k)
        /\ k \notin unguarded' => Promised(k)' = {} /\ OnePromise(k)'
  BY <1>1, <1>2 DEF Promised, Granted, OnePromise
<1>4. GrantsNothing
  BY <1>1, <1>3 DEF GrantsNothing
<1>. QED
  BY <1>4, NothingGranted

\* Every step keeps the grants apart.
LEMMA GuardStep == TypeOK /\ PhaseInv /\ GuardInv /\ [Next]_vars => GuardInv'
<1>. SUFFICES ASSUME TypeOK, PhaseInv, GuardInv, [Next]_vars PROVE GuardInv'
  OBVIOUS
<1>1. ASSUME NEW i \in Instances, Handler(i) PROVE GuardInv'
  <2>1. CASE Enumerate(i)
    BY <2>1, EnumerateStep
  <2>2. CASE Pick(i)
    BY <2>2, PickStep
  <2>3. CASE Start(i)
    BY <2>3, StartGrantsNothing, NothingGranted
  <2>4. CASE StopGreffon(i)
    <3>. DEFINE s == [n |-> 0, kind |-> "stop", ports |-> {}]
    <3>1. /\ work'[i] = work[i] \cup {s} /\ s.ports = {}
          /\ UNCHANGED <<bound, pending, unguarded, allocator, occupied, reserved, pc,
                         picks>>
      BY <2>4 DEF StopGreffon, allocation, history, TypeOK
    <3>. HIDE DEF s
    <3>2. /\ Due(i)' = Due(i)
          /\ (\A c, d \in work[i] : c.ports # {} /\ d.ports # {} => c = d) =>
               (\A c, d \in work'[i] : c.ports # {} /\ d.ports # {} => c = d)
      BY <3>1 DEF Due
    <3>3. GrantsNothing
      BY <1>1, <3>1, <3>2, HandlerEffect, QuietGrantsNothing
    <3>. QED
      BY <3>3, NothingGranted
  <2>5. CASE ~Enumerate(i) /\ ~Pick(i) /\ ~Start(i) /\ ~StopGreffon(i)
    <3>1. /\ work' = work /\ UNCHANGED <<pending, unguarded>>
          /\ UNCHANGED <<allocator, occupied, reserved>> \/ allocator' = NoInstance
          /\ \/ Refused(i)
             \/ picks' = picks /\ \E l \in {"enumerate", "render"} : Goto(i, l)
      BY <1>1, <2>5 DEF Handler, StartGreffon, EnumerateFails, NoChoice, SaveSticky,
           SaveFails, RenderFails, SpawnFails, Released, host, allocation, history
    <3>2. pc'[i] # "pick" /\ picks'[i] \in {picks[i], NoPorts}
      BY <3>1 DEF Refused, TypeOK
    <3>3. Due(i)' = Due(i)
      BY <3>1 DEF Due
    <3>4. GrantsNothing
      BY <1>1, <3>1, <3>2, <3>3, HandlerEffect, QuietGrantsNothing
    <3>. QED
      BY <3>4, NothingGranted
  <2>. QED
    BY <2>1, <2>2, <2>3, <2>4, <2>5
<1>2. ASSUME NEW i \in Instances, NEW k \in work[i], Compose(i, k) PROVE GuardInv'
  BY <1>2, ComposeGrantsNothing, NothingGranted
<1>3. ASSUME NEW p \in Range1, Lapse(p) PROVE GuardInv'
  BY <1>3, LapseStep
<1>4. ASSUME NEW left \in SUBSET Instances, Restart(left) PROVE GuardInv'
  BY <1>4, RestartStep
<1>5. CASE UNCHANGED vars
  <2>1. GrantsNothing
    BY <1>5 DEF vars, host, allocation, history, GrantsNothing, Granted, Promised,
         Due, OnePromise
  <2>. QED
    BY <2>1, NothingGranted
<1>. QED
  BY <1>1, <1>2, <1>3, <1>4, <1>5 DEF Next

\* What every step but a pick leaves as it is, or takes away.
LEMMA OnlyPicksGrant ==
  ASSUME TypeOK, [Next]_vars, \A i \in Instances : ~Pick(i)
  PROVE  /\ \A k \in Instances : picks'[k] \in {picks[k], NoPorts}
         /\ \A k \in Instances : Granted(k)' \subseteq Granted(k)
         /\ \A p \in Range1 : pending'[p] \in {pending[p], NoInstance}
         /\ raced' = raced
<1>. USE DEF host, allocation, request, history
<1>1. ASSUME NEW i \in Instances, Handler(i)
      PROVE  /\ \A k \in Instances : picks'[k] \in {picks[k], NoPorts}
             /\ \A k \in Instances : Granted(k)' \subseteq Granted(k)
             /\ \A p \in Range1 : pending'[p] \in {pending[p], NoInstance}
             /\ raced' = raced
  <2>0. ~Pick(i)
    OBVIOUS
  <2>1. raced' = raced /\ (pending' = pending \/ Enumerate(i))
    BY <1>1, <2>0 DEF Handler, StartGreffon, Enumerate, EnumerateFails, NoChoice,
         SaveSticky, SaveFails, RenderFails, Start, SpawnFails, StopGreffon
  <2>2. Enumerate(i) => \A p \in Range1 : pending'[p] \in {pending[p], NoInstance}
    BY DEF Enumerate, Prune
  <2>3. picks' = picks \/ picks' = [picks EXCEPT ![i] = NoPorts]
    BY <1>1, <2>0 DEF Handler, StartGreffon, Enumerate, EnumerateFails, NoChoice,
         SaveSticky, SaveFails, RenderFails, Start, SpawnFails, StopGreffon, Refused
  <2>4. \A k \in Instances : picks'[k] \in {picks[k], NoPorts}
    BY <2>3 DEF TypeOK
  <2>5. \A k \in Instances \ {i} : Granted(k)' = Granted(k)
    BY <1>1, HandlerEffect DEF Granted, Promised, Due
  <2>6. Granted(i)' \subseteq Granted(i)
    <3>1. CASE Start(i)
      BY <3>1, StartGrantsNothing DEF GrantsNothing
    <3>2. CASE StopGreffon(i)
      <4>1. /\ UNCHANGED <<bound, picks>>
            /\ work'[i] = work[i] \cup {[n |-> 0, kind |-> "stop", ports |-> {}]}
        BY <3>2 DEF StopGreffon, TypeOK
      <4>. QED
        BY <4>1 DEF Granted, Promised, Due
    <3>3. CASE ~Start(i) /\ ~StopGreffon(i)
      <4>1. work' = work /\ bound' = bound
        BY <1>1, <2>0, <3>3 DEF Handler, StartGreffon, Enumerate, EnumerateFails,
             NoChoice, SaveSticky, SaveFails, RenderFails, SpawnFails
      <4>2. Values(picks[i])' \subseteq Values(picks[i])
        BY <2>4, NoValues
      <4>. QED
        BY <4>1, <4>2 DEF Granted, Promised, Due
    <3>. QED
      BY <3>1, <3>2, <3>3
  <2>. QED
    BY <2>1, <2>2, <2>4, <2>5, <2>6
<1>2. ASSUME NEW i \in Instances, NEW k \in work[i], Compose(i, k)
      PROVE  /\ picks' = picks /\ pending' = pending /\ raced' = raced
             /\ \A j \in Instances : Granted(j)' \subseteq Granted(j)
  BY <1>2, ComposeEffect, ComposeGrantsNothing DEF GrantsNothing
<1>3. ASSUME NEW left \in SUBSET Instances, Restart(left)
      PROVE  /\ \A k \in Instances : picks'[k] \in {picks[k], NoPorts}
             /\ \A k \in Instances : Granted(k)' \subseteq Granted(k)
             /\ \A p \in Range1 : pending'[p] \in {pending[p], NoInstance}
             /\ raced' = raced
  <2>1. /\ bound' = bound /\ raced' = raced
        /\ \A k \in Instances : picks'[k] = NoPorts /\ work'[k] \subseteq work[k]
        /\ \A p \in Range1 : pending'[p] = NoInstance
    BY <1>3 DEF Restart, TypeOK
  <2>2. \A k \in Instances : Values(picks[k])' = {} /\ Due(k)' \subseteq Due(k)
    BY <2>1, NoValues DEF Due
  <2>. QED
    BY <2>1, <2>2 DEF Granted, Promised
<1>4. ASSUME NEW p \in Range1, Lapse(p)
      PROVE  /\ UNCHANGED <<bound, work, picks, raced>>
             /\ \A q \in Range1 : pending'[q] \in {pending[q], NoInstance}
  BY <1>4 DEF Lapse, TypeOK
<1>5. CASE UNCHANGED vars
  BY <1>5 DEF vars, Granted, Promised, Due
<1>6. CASE \E p \in Range1 : Lapse(p)
  BY <1>4, <1>6 DEF Granted, Promised, Due
<1>. QED
  BY <1>1, <1>2, <1>3, <1>5, <1>6 DEF Next

\* The names of an instance get different ports: a port picked for an earlier
\* name is taken.
LEMMA DistinctStep == TypeOK /\ DistinctInv /\ [Next]_vars => DistinctInv'
<1>. SUFFICES ASSUME TypeOK, DistinctInv, [Next]_vars PROVE DistinctInv'
  OBVIOUS
<1>1. ASSUME NEW i \in Instances, Pick(i) PROVE DistinctInv'
  <2>1. PICK n \in Left(i), p \in Range1 :
          /\ p \notin Taken(i) /\ n \in Names
          /\ Named(picks'[i]) = Named(picks[i]) \cup {n} /\ picks'[i][n] = p
          /\ \A x \in Names \ {n} : picks'[i][x] = picks[i][x]
          /\ \A k \in Instances \ {i} : picks'[k] = picks[k]
    BY <1>1, PickEffect
  <2>2. \A x \in Named(picks[i]) : picks[i][x] # p /\ x \in Names
    BY <2>1 DEF Taken, Values, Named
  <2>3. n \notin Named(picks[i])
    BY DEF Left
  <2>4. Distinct(picks'[i])
    <3>1. Distinct(picks[i])
      BY DEF DistinctInv
    <3>2. ASSUME NEW x \in Named(picks[i]) \cup {n}, NEW y \in Named(picks[i]) \cup {n},
                 picks'[i][x] = picks'[i][y]
          PROVE  x = y
      BY <2>1, <2>2, <2>3, <3>1, <3>2 DEF Distinct
    <3>. QED
      BY <2>1, <3>2 DEF Distinct
  <2>. QED
    BY <2>1, <2>4 DEF DistinctInv
<1>2. CASE \A i \in Instances : ~Pick(i)
  <2>1. Distinct(NoPorts)
    BY NoValues DEF Distinct
  <2>. QED
    BY <1>2, <2>1, OnlyPicksGrant DEF DistinctInv
<1>. QED
  BY <1>1, <1>2

-----------------------------------------------------------------------------

\* The inductive invariant of the port allocation: types, phases, that what is
\* granted to guarded instances is apart, reserved and seen by the allocator.
THEOREM GrantInvariant == Spec => []GrantInv
<1>1. Init => GrantInv
  <2>. SUFFICES ASSUME Init PROVE GrantInv
    OBVIOUS
  <2>. USE StartConstants
  <2>1. TypeOK
    BY NoValues DEF Init, TypeOK, Steps
  <2>2. PhaseInv
    BY DEF Init, PhaseInv
  <2>3. \A i \in Instances :
          Granted(i) = {} /\ Promised(i) = {} /\ Due(i) = {} /\ OnePromise(i)
    BY NoValues DEF Init, Granted, Promised, Due, OnePromise
  <2>4. GuardInv
    BY <2>3 DEF Init, GuardInv, ApartInv, HeldInv, SeenInv
  <2>5. DistinctInv
    BY NoValues DEF Init, DistinctInv, Distinct
  <2>. QED
    BY <2>1, <2>2, <2>4, <2>5 DEF GrantInv
<1>2. GrantInv /\ [Next]_vars => GrantInv'
  BY TypeStep, PhaseStep, GuardStep, DistinctStep DEF GrantInv
<1>. QED
  BY <1>1, <1>2, PTL DEF Spec

\* However many instances start, stop and redeploy at once, get_greffon_info
\* never grants one port to two of them, the named races apart, or to two names
\* of one.
THEOREM PortsGrantedOnce == Spec => []GrantsDisjoint
<1>1. GrantInv => GrantsDisjoint
  BY DEF GrantInv, GuardInv, ApartInv, DistinctInv, GrantsDisjoint
<1>. QED
  BY <1>1, GrantInvariant, PTL

-----------------------------------------------------------------------------
(* Sticky ports.                                                           *)

\* A same_port start retraces the map it has loaded.
StickyInv ==
  \A i \in SamePort : pc[i] \in {"pick", "save"} =>
    \A n \in Named(picks[i]) : sticky[i][n] \in {0, picks[i][n]}

\* Nothing but its own steps touches a start at work on its ports; another
\* cannot allocate meanwhile, and a child of its own can only take ports away.
LEMMA PickingAlone ==
  ASSUME TypeOK, PhaseInv, [Next]_vars, NEW i \in Instances,
         pc'[i] \in {"pick", "save"}, ~Enumerate(i), ~Pick(i)
  PROVE  /\ pc'[i] = pc[i] /\ picks'[i] = picks[i] /\ sidecar'[i] = sidecar[i]
         /\ wants'[i] = wants[i] /\ sticky'[i] = sticky[i]
         /\ i \in changed' <=> i \in changed
         /\ AtRest(i) => AtRest(i)'
         /\ occupied' \cup reserved' \subseteq occupied \cup reserved
<1>. USE StartConstants DEF host, allocation, request, history
<1>1. ASSUME Handler(i) PROVE FALSE
  <2>1. \/ Refused(i) \/ (pc' = pc /\ pc[i] = "idle")
        \/ \E l \in {"idle", "enumerate", "render"} : Goto(i, l)
    BY <1>1
    DEF Handler, StartGreffon, EnumerateFails, NoChoice, SaveSticky, SaveFails,
        RenderFails, Start, SpawnFails, StopGreffon
  <2>. QED
    BY <2>1 DEF Refused, TypeOK
<1>2. ASSUME NEW j \in Instances \ {i}, Handler(j)
      PROVE  /\ pc'[i] = pc[i] /\ picks'[i] = picks[i] /\ sidecar'[i] = sidecar[i]
             /\ wants'[i] = wants[i] /\ sticky'[i] = sticky[i]
             /\ i \in changed' <=> i \in changed
             /\ AtRest(i) => AtRest(i)'
             /\ occupied' \cup reserved' \subseteq occupied \cup reserved
  <2>1. /\ bound' = bound /\ pc'[i] = pc[i] /\ picks'[i] = picks[i]
        /\ work'[i] = work[i] /\ sidecar'[i] = sidecar[i] /\ wants'[i] = wants[i]
        /\ sticky'[i] = sticky[i] /\ (i \in changed' <=> i \in changed)
    BY <1>2, HandlerEffect
  <2>2. allocator = i
    BY <2>1 DEF PhaseInv
  <2>3. ~Enumerate(j)
    BY <2>2 DEF Enumerate
  <2>4. UNCHANGED <<occupied, reserved>> \/ Released
    BY <1>2, <2>3
    DEF Handler, StartGreffon, EnumerateFails, Pick, NoChoice, SaveSticky, SaveFails,
        RenderFails, Start, SpawnFails, StopGreffon
  <2>. QED
    BY <2>1, <2>4 DEF Released, AtRest, Due
<1>3. ASSUME NEW j \in Instances, NEW k \in work[j], Compose(j, k)
      PROVE  /\ pc'[i] = pc[i] /\ picks'[i] = picks[i] /\ sidecar'[i] = sidecar[i]
             /\ wants'[i] = wants[i] /\ sticky'[i] = sticky[i]
             /\ i \in changed' <=> i \in changed
             /\ AtRest(i) => AtRest(i)'
             /\ occupied' \cup reserved' \subseteq occupied \cup reserved
  <2>1. /\ UNCHANGED <<sidecar, occupied, reserved, wants, sticky, pc, picks>>
        /\ j # i => work'[i] = work[i] /\ bound'[i] = bound[i]
        /\ j = i => /\ Due(i)' \subseteq Due(i)
                    /\ bound'[i] \in {bound[i], {}} \/ bound'[i] = k.ports
        /\ changed' = changed \/ (changed' = changed \ {j} /\ pc[j] = "idle")
    BY <1>3, ComposeEffect
  <2>2. j = i => k.ports \subseteq Due(i)
    BY DEF Due
  <2>3. AtRest(i) => AtRest(i)'
    BY <2>1, <2>2 DEF AtRest, Due
  <2>. QED
    BY <2>1, <2>3
<1>4. ASSUME NEW left \in SUBSET Instances, Restart(left) PROVE FALSE
  BY <1>4 DEF Restart
<1>5. CASE (\E p \in Range1 : Lapse(p)) \/ UNCHANGED vars
  BY <1>5 DEF Lapse, vars, AtRest, Due
<1>. QED
  BY <1>1, <1>2, <1>3, <1>4, <1>5 DEF Next

\* The sidecar changes with a save only.
LEMMA OnlySaveWrites ==
  ASSUME TypeOK, [Next]_vars, NEW i \in Instances, ~SaveSticky(i)
  PROVE  sidecar'[i] = sidecar[i]
<1>. USE DEF host
<1>1. ASSUME NEW j \in Instances, Handler(j) PROVE sidecar'[i] = sidecar[i]
  <2>1. CASE j = i
    BY <1>1, <2>1
    DEF Handler, StartGreffon, Enumerate, EnumerateFails, Pick, NoChoice, SaveFails,
        RenderFails, Start, SpawnFails, StopGreffon
  <2>2. CASE j # i
    BY <1>1, <2>2, HandlerEffect
  <2>. QED
    BY <2>1, <2>2
<1>2. ASSUME NEW j \in Instances, NEW k \in work[j], Compose(j, k)
      PROVE  sidecar' = sidecar
  BY <1>2, ComposeEffect
<1>3. CASE (\E left \in SUBSET Instances : Restart(left)) \/ UNCHANGED vars
           \/ (\E p \in Range1 : Lapse(p))
  BY <1>3 DEF Restart, Lapse, vars
<1>. QED
  BY <1>1, <1>2, <1>3 DEF Next

\* Every step keeps the retrace.
LEMMA StickyStep == GrantInv /\ StickyInv /\ [Next]_vars => StickyInv'
<1>. SUFFICES ASSUME GrantInv, StickyInv, [Next]_vars, NEW i \in Instances,
                     i \in SamePort, pc'[i] \in {"pick", "save"},
                     NEW m \in Named(picks'[i])
              PROVE  sticky'[i][m] \in {0, picks'[i][m]}
  BY StartConstants DEF StickyInv
<1>0. TypeOK
  BY DEF GrantInv
<1>1. CASE Enumerate(i)
  BY <1>0, <1>1, NoValues DEF Enumerate, GrantInv, PhaseInv
<1>2. CASE Pick(i)
  <2>1. PICK n \in Left(i), p \in Range1 :
          /\ p \in Choices(i, n) /\ n \in Names /\ pc[i] = "pick"
          /\ Named(picks'[i]) = Named(picks[i]) \cup {n} /\ picks'[i][n] = p
          /\ \A x \in Names \ {n} : picks'[i][x] = picks[i][x]
          /\ UNCHANGED <<wants, sticky>>
    BY <1>0, <1>2, PickEffect
  <2>2. CASE m = n
    <3>1. sticky[i][n] # 0 => Previous(i, n) = {sticky[i][n]}
      BY DEF Previous
    <3>. QED
      BY <2>1, <2>2, <3>1 DEF Choices
  <2>3. CASE m # n
    <3>1. m \in Named(picks[i]) /\ m \in Names
      BY <2>1, <2>3 DEF Named
    <3>. QED
      BY <2>1, <2>3, <3>1 DEF StickyInv
  <2>. QED
    BY <2>2, <2>3
<1>3. CASE ~Enumerate(i) /\ ~Pick(i)
  BY <1>0, <1>3, PickingAlone DEF GrantInv, StickyInv
<1>. QED
  BY <1>1, <1>2, <1>3

\* sticky_ports: the address of a same_port instance, once saved, is replaced
\* by no later start that has read it, refused or not, and by no restart.
THEOREM SamePortSticks == Spec => SamePortKept
<1>1. Init => StickyInv
  BY StartConstants DEF Init, StickyInv
<1>2. ASSUME GrantInv, StickyInv, [Next]_vars, NEW i \in SamePort, NEW n \in Names,
             sidecar[i][n] # 0, sidecar'[i][n] \notin {0, sidecar[i][n]}
      PROVE  sticky[i] # sidecar[i]
  <2>1. i \in Instances
    BY StartConstants
  <2>2. SaveSticky(i)
    BY <1>2, <2>1, OnlySaveWrites DEF GrantInv
  <2>3. pc[i] = "save" /\ sidecar'[i] = picks[i]
    <3>1. sidecar \in [Instances -> PortMaps]
      BY <1>2 DEF GrantInv, TypeOK
    <3>. QED
      BY <2>1, <2>2, <3>1 DEF SaveSticky
  <2>4. n \in Named(picks[i])
    BY <1>2, <2>3 DEF Named
  <2>5. sticky[i][n] \in {0, picks[i][n]}
    BY <1>2, <2>3, <2>4 DEF StickyInv
  <2>. QED
    BY <1>2, <2>3, <2>5
<1>3. GrantInv /\ StickyInv /\ [Next]_vars =>
        [\A i \in SamePort : \A n \in Names :
           /\ sidecar[i][n] # 0 /\ sidecar'[i][n] \notin {0, sidecar[i][n]}
           => sticky[i] # sidecar[i]]_vars
  BY <1>2
<1>. QED
  BY <1>1, <1>3, StickyStep, GrantInvariant, PTL DEF Spec, SamePortKept

-----------------------------------------------------------------------------
(* The sidecar and what runs.                                              *)

\* What an instance publishes, what its children will bind and what a saved
\* start goes on with is what the sidecar says; a sidecar gives no port to two
\* names.
SavedAt(i) ==
  /\ Distinct(sidecar[i])
  /\ i \notin changed =>
       /\ bound[i] \in {{}, Values(sidecar[i])}
       /\ \A k \in work[i] : k.ports \in {{}, Values(sidecar[i])}
       /\ pc[i] = "render" => Values(picks[i]) \in {{}, Values(sidecar[i])}

\* An instance started again while it runs, or its last start is in flight,
\* finds its own ports free and retraces its sidecar.
RetraceAt(i) ==
  /\ i \notin changed /\ pc[i] \in {"pick", "save"} /\ ~AtRest(i)
  /\ wants[i] = Named(sidecar[i]) /\ sticky[i] = sidecar[i]
  => /\ Values(sidecar[i]) \cap (occupied \cup reserved) = {}
     /\ \A n \in Named(picks[i]) : picks[i][n] = sidecar[i][n]

\* While no race has happened, every grant is exclusive, an unguarded one
\* too, and no reservation is for a port of another instance.
OwnedInv ==
  /\ \A i, j \in Instances : i # j => Granted(i) \cap Granted(j) = {}
  /\ \A i \in Instances, p \in Range1 :
       pending[p] \notin {NoInstance, i} => p \notin Granted(i)

MatchInv ==
  raced \/ (OwnedInv /\ \A i \in Instances : SavedAt(i) /\ RetraceAt(i))

\* Grants stay exclusive: a chosen port is seen as no guarded instance's, and
\* taking one of an unguarded instance is a race.
LEMMA OwnedStep ==
  ASSUME GrantInv, OwnedInv, [Next]_vars, ~raced'
  PROVE  OwnedInv'
<1>. USE StartConstants
<1>0. TypeOK /\ pending \in [Range1 -> Instances \cup {NoInstance}]
  BY DEF GrantInv, TypeOK
<1>1. ASSUME NEW i \in Instances, Pick(i) PROVE OwnedInv'
  <2>1. PICK n \in Left(i), p \in Range1 :
          /\ pc[i] = "pick" /\ p \notin Taken(i)
          /\ Values(picks'[i]) = Values(picks[i]) \cup {p}
          /\ \A k \in Instances \ {i} : picks'[k] = picks[k]
          /\ pending' = [pending EXCEPT ![p] = i]
          /\ raced' = (raced \/ \E j \in unguarded \ {i} : p \in Granted(j))
          /\ UNCHANGED <<bound, work>>
    BY <1>0, <1>1, PickEffect
  <2>2. allocator = i /\ p \notin occupied \cup reserved
    BY <2>1 DEF GrantInv, PhaseInv, Taken
  <2>3. \A j \in Instances \ {i} : p \notin Granted(j)
    BY <2>1, <2>2 DEF GrantInv, GuardInv, SeenInv
  <2>4. /\ Granted(i)' = Granted(i) \cup {p}
        /\ \A k \in Instances \ {i} : Granted(k)' = Granted(k)
    BY <2>1 DEF Granted, Promised, Due
  <2>5. ASSUME NEW j \in Instances, NEW k \in Instances, j # k
        PROVE  Granted(j)' \cap Granted(k)' = {}
    BY <2>3, <2>4, <2>5 DEF OwnedInv
  <2>6. ASSUME NEW k \in Instances, NEW q \in Range1, pending'[q] \notin {NoInstance, k}
        PROVE  q \notin Granted(k)'
    <3>1. CASE q = p
      BY <1>0, <2>1, <2>3, <2>4, <2>6, <3>1
    <3>2. CASE q # p
      <4>1. pending'[q] = pending[q]
        BY <1>0, <2>1, <3>2
      <4>2. q \notin Granted(k)
        BY <2>6, <4>1 DEF OwnedInv
      <4>. QED
        BY <2>4, <3>2, <4>2
    <3>. QED
      BY <3>1, <3>2
  <2>. QED
    BY <2>5, <2>6 DEF OwnedInv
<1>2. CASE \A i \in Instances : ~Pick(i)
  <2>1. /\ \A k \in Instances : Granted(k)' \subseteq Granted(k)
        /\ \A p \in Range1 : pending'[p] \in {pending[p], NoInstance}
    BY <1>0, <1>2, OnlyPicksGrant
  <2>. QED
    BY <2>1 DEF OwnedInv
<1>. QED
  BY <1>1, <1>2

\* The ports of a sidecar that an instance publishes or a child will bind are
\* among its grants.
LEMMA SidecarIsGranted ==
  ASSUME NEW i \in Instances, i \notin changed, SavedAt(i), ~AtRest(i)
  PROVE  Values(sidecar[i]) \subseteq Granted(i)
<1>1. CASE bound[i] # {}
  BY <1>1 DEF SavedAt, Granted
<1>2. CASE bound[i] = {}
  <2>1. PICK k \in work[i] : k.ports # {}
    BY <1>2 DEF AtRest, Due
  <2>2. k.ports = Values(sidecar[i])
    BY <2>1 DEF SavedAt
  <2>. QED
    BY <2>2 DEF Granted, Promised, Due
<1>. QED
  BY <1>1, <1>2

\* A start that retraces takes the port of the sidecar: it is neither published
\* nor reserved by another, and no other name has it.
LEMMA RetracePick ==
  ASSUME GrantInv, NEW i \in Instances, SavedAt(i), RetraceAt(i), i \notin changed,
         pc[i] = "pick", ~AtRest(i), wants[i] = Named(sidecar[i]),
         sticky[i] = sidecar[i], NEW n \in Left(i), NEW p \in Choices(i, n)
  PROVE  p = sidecar[i][n]
<1>1. n \in Named(sidecar[i]) /\ n \notin Named(picks[i]) /\ n \in Names
  BY DEF Left, Named
<1>2. Previous(i, n) = {sidecar[i][n]}
  BY <1>1 DEF Previous, Named
<1>3. sidecar[i][n] \in Values(sidecar[i])
  BY <1>1 DEF Values
<1>4. sidecar[i][n] \notin Values(picks[i])
  <2>1. ASSUME NEW x \in Named(picks[i]) PROVE picks[i][x] # sidecar[i][n]
    <3>1. picks[i][x] = sidecar[i][x]
      BY DEF RetraceAt
    <3>2. Named(picks[i]) \subseteq wants[i]
      BY DEF GrantInv, PhaseInv
    <3>3. x \in Named(sidecar[i]) /\ x # n
      BY <1>1, <3>2
    <3>. QED
      BY <1>1, <3>1, <3>3 DEF SavedAt, Distinct
  <2>. QED
    BY <2>1 DEF Values
<1>5. Previous(i, n) \cap Taken(i) = {}
  BY <1>2, <1>3, <1>4 DEF RetraceAt, Taken
<1>. QED
  BY <1>2, <1>5 DEF Choices

\* Every step keeps the retrace.
LEMMA RetraceStep ==
  ASSUME GrantInv, OwnedInv, [Next]_vars, NEW i \in Instances, SavedAt(i), RetraceAt(i)
  PROVE  RetraceAt(i)'
<1>. USE StartConstants
<1>0. TypeOK /\ PhaseInv
  BY DEF GrantInv
<1>1. CASE Enumerate(i)
  <2>. SUFFICES ASSUME i \notin changed, ~AtRest(i)
                PROVE  /\ Values(sidecar[i]) \cap (occupied' \cup reserved') = {}
                       /\ Named(picks'[i]) = {} /\ sidecar' = sidecar
    BY <1>1 DEF RetraceAt, Enumerate, host, AtRest, Due
  <2>1. Named(picks'[i]) = {} /\ sidecar' = sidecar
    BY <1>0, <1>1, NoValues DEF Enumerate, PhaseInv, host
  <2>2. Values(sidecar[i]) \subseteq Granted(i)
    BY SidecarIsGranted
  <2>3. occupied' \cap Granted(i) = {}
    BY <1>1 DEF Enumerate, PublishedL4Ports, OwnedInv, Granted
  <2>4. \A p \in Range1 : pending'[p] \in {pending[p], NoInstance}
    BY <1>1 DEF Enumerate, Prune
  <2>5. reserved' \cap Granted(i) = {}
    BY <1>1, <2>4 DEF Enumerate, OwnedInv
  <2>. QED
    BY <2>1, <2>2, <2>3, <2>5
<1>2. CASE Pick(i)
  <2>1. PICK n \in Left(i), p \in Range1 :
          /\ p \in Choices(i, n) /\ n \in Names /\ pc[i] = "pick"
          /\ Named(picks'[i]) = Named(picks[i]) \cup {n} /\ picks'[i][n] = p
          /\ \A x \in Names \ {n} : picks'[i][x] = picks[i][x]
          /\ UNCHANGED <<bound, work, sidecar, occupied, reserved, wants, sticky,
                         changed>>
    BY <1>0, <1>2, PickEffect
  <2>2. AtRest(i)' = AtRest(i)
    BY <2>1 DEF AtRest, Due
  <2>. SUFFICES ASSUME i \notin changed, ~AtRest(i), wants[i] = Named(sidecar[i]),
                       sticky[i] = sidecar[i]
                PROVE  /\ Values(sidecar[i]) \cap (occupied \cup reserved) = {}
                       /\ \A x \in Named(picks'[i]) : picks'[i][x] = sidecar[i][x]
    BY <2>1, <2>2 DEF RetraceAt
  <2>3. p = sidecar[i][n]
    BY <2>1, RetracePick
  <2>4. \A x \in Named(picks[i]) : picks[i][x] = sidecar[i][x] /\ x \in Names
    BY <2>1 DEF RetraceAt, Named
  <2>. QED
    BY <2>1, <2>3, <2>4 DEF RetraceAt
<1>3. CASE ~Enumerate(i) /\ ~Pick(i)
  <2>. SUFFICES ASSUME pc'[i] \in {"pick", "save"} PROVE RetraceAt(i)'
    BY DEF RetraceAt
  <2>1. /\ pc'[i] = pc[i] /\ picks'[i] = picks[i] /\ sidecar'[i] = sidecar[i]
        /\ wants'[i] = wants[i] /\ sticky'[i] = sticky[i]
        /\ i \in changed' <=> i \in changed
        /\ AtRest(i) => AtRest(i)'
        /\ occupied' \cup reserved' \subseteq occupied \cup reserved
    BY <1>0, <1>3, PickingAlone
  <2>. QED
    BY <2>1 DEF RetraceAt
<1>. QED
  BY <1>1, <1>2, <1>3

\* A save writes what is there already, or nothing is.
LEMMA SaveStep ==
  ASSUME GrantInv, NEW i \in Instances, SavedAt(i), RetraceAt(i), SaveSticky(i)
  PROVE  SavedAt(i)'
<1>0. TypeOK /\ sidecar[i] \in PortMaps /\ picks[i] \in PortMaps
  BY DEF GrantInv, TypeOK
<1>1. /\ pc[i] = "save" /\ sidecar'[i] = picks[i]
      /\ UNCHANGED <<bound, work, picks>>
      /\ changed' = IF AtRest(i) THEN changed \ {i}
                    ELSE IF wants[i] # Named(sidecar[i]) \/ sticky[i] # sidecar[i]
                    THEN changed \cup {i} ELSE changed
  BY <1>0 DEF SaveSticky, TypeOK
<1>2. Distinct(sidecar'[i])
  BY <1>1 DEF GrantInv, DistinctInv
<1>3. CASE AtRest(i)
  <2>1. \A k \in work[i] : k.ports = {}
    BY <1>3 DEF AtRest, Due
  <2>. QED
    BY <1>1, <1>2, <1>3, <2>1 DEF SavedAt, AtRest
<1>4. CASE ~AtRest(i) /\ i \notin changed'
  <2>1. /\ i \notin changed /\ wants[i] = Named(sidecar[i]) /\ sticky[i] = sidecar[i]
    BY <1>1, <1>4
  <2>2. /\ \A n \in Named(picks[i]) : picks[i][n] = sidecar[i][n]
        /\ Named(picks[i]) = Named(sidecar[i])
    BY <1>1, <1>4, <2>1 DEF RetraceAt, GrantInv, PhaseInv
  <2>3. Values(picks[i]) = Values(sidecar[i])
    BY <2>2 DEF Values
  <2>. QED
    BY <1>1, <1>2, <2>1, <2>3 DEF SavedAt
<1>5. CASE i \in changed'
  BY <1>2, <1>5 DEF SavedAt
<1>. QED
  BY <1>3, <1>4, <1>5

\* Every other step keeps what is saved.
LEMMA SavedStep ==
  ASSUME GrantInv, [Next]_vars, NEW i \in Instances, SavedAt(i), RetraceAt(i)
  PROVE  SavedAt(i)'
<1>. USE DEF host, allocation, request, history
<1>0. TypeOK /\ PhaseInv
  BY DEF GrantInv
<1>1. CASE SaveSticky(i)
  BY <1>1, SaveStep
<1>2. ASSUME NEW j \in Instances, Handler(j), ~SaveSticky(i) PROVE SavedAt(i)'
  <2>0. bound' = bound
    BY <1>0, <1>2, HandlerEffect
  <2>1. CASE j # i
    BY <1>0, <1>2, <2>1, HandlerEffect DEF SavedAt
  <2>2. CASE j = i /\ Start(i)
    <3>1. PICK n \in Fresh(i) : work' = [work EXCEPT ![i] = @ \cup
            {[n |-> n, kind |-> "up", ports |-> Values(picks[i])]}]
      BY <2>2 DEF Start
    <3>2. /\ pc[i] = "render" /\ pc'[i] = "idle" /\ sidecar' = sidecar
          /\ changed' = changed
          /\ \A k \in work'[i] : k \in work[i] \/ k.ports = Values(picks[i])
      BY <1>0, <2>2, <3>1 DEF Start, TypeOK
    <3>. QED
      BY <2>0, <3>2 DEF SavedAt
  <2>3. CASE j = i /\ StopGreffon(i)
    <3>1. /\ pc' = pc /\ picks' = picks /\ sidecar' = sidecar /\ changed' = changed
          /\ \A k \in work'[i] : k \in work[i] \/ k.ports = {}
      BY <1>0, <2>3 DEF StopGreffon, TypeOK
    <3>. QED
      BY <2>0, <3>1 DEF SavedAt
  <2>4. CASE j = i /\ ~Start(i) /\ ~StopGreffon(i)
    <3>1. work' = work /\ sidecar' = sidecar /\ changed' = changed
      BY <1>2, <2>4 DEF Handler, StartGreffon, Enumerate, EnumerateFails, Pick,
           NoChoice, SaveFails, RenderFails, SpawnFails
    <3>2. pc'[i] = "render" => Values(picks[i])' = {}
      <4>1. CASE StartGreffon(i)
        BY <1>0, <4>1, NoValues DEF StartGreffon, PhaseInv
      <4>2. CASE Pick(i) \/ Enumerate(i)
        BY <1>0, <4>2 DEF Pick, Enumerate, TypeOK
      <4>3. CASE ~StartGreffon(i) /\ ~Pick(i) /\ ~Enumerate(i)
        <5>1. Refused(i)
          BY <1>2, <2>4, <4>3 DEF Handler, EnumerateFails, NoChoice, SaveFails,
               RenderFails, SpawnFails
        <5>. QED
          BY <1>0, <5>1 DEF Refused, TypeOK
      <4>. QED
        BY <4>1, <4>2, <4>3
    <3>. QED
      BY <2>0, <3>1, <3>2 DEF SavedAt
  <2>. QED
    BY <2>1, <2>2, <2>3, <2>4
<1>3. ASSUME NEW j \in Instances, NEW k \in work[j], Compose(j, k) PROVE SavedAt(i)'
  <2>1. /\ UNCHANGED <<sidecar, pc, picks>>
        /\ j # i => /\ work'[i] = work[i] /\ bound'[i] = bound[i]
                    /\ (i \in changed' <=> i \in changed)
    BY <1>0, <1>3, ComposeEffect
  <2>2. CASE j # i
    BY <2>1, <2>2 DEF SavedAt
  <2>3. CASE j = i
    <3>1. /\ \A c \in work'[i] : \E d \in work[i] : c.ports = d.ports
          /\ bound'[i] \in {bound[i], {}, k.ports}
          /\ \/ changed' = changed
             \/ /\ changed' = changed \ {i} /\ pc[i] = "idle" /\ Due(i)' = {}
                /\ bound'[i] \in {{}, Values(sidecar[i])}
      BY <1>0, <1>3, <2>3, ComposeEffect
    <3>2. CASE changed' = changed
      BY <2>1, <2>3, <3>1, <3>2 DEF SavedAt
    <3>3. CASE /\ pc[i] = "idle" /\ Due(i)' = {}
               /\ bound'[i] \in {{}, Values(sidecar[i])}
      <4>1. \A c \in work'[i] : c.ports = {}
        BY <3>3 DEF Due
      <4>. QED
        BY <2>1, <3>3, <4>1 DEF SavedAt
    <3>. QED
      BY <3>1, <3>2, <3>3
  <2>. QED
    BY <2>2, <2>3
<1>4. ASSUME NEW left \in SUBSET Instances, Restart(left) PROVE SavedAt(i)'
  <2>1. /\ UNCHANGED <<bound, sidecar, changed>> /\ pc'[i] = "idle"
        /\ work'[i] \subseteq work[i]
    BY <1>0, <1>4 DEF Restart, TypeOK
  <2>. QED
    BY <2>1 DEF SavedAt
<1>5. CASE (\E p \in Range1 : Lapse(p)) \/ UNCHANGED vars
  BY <1>5 DEF Lapse, vars, SavedAt
<1>. QED
  BY <1>1, <1>2, <1>3, <1>4, <1>5 DEF Next

\* A race, once it has happened, is remembered.
LEMMA RaceRemembered ==
  ASSUME TypeOK, [Next]_vars, raced
  PROVE  raced'
<1>1. CASE \E i \in Instances : Pick(i)
  BY <1>1 DEF Pick
<1>2. CASE \A i \in Instances : ~Pick(i)
  BY <1>2, OnlyPicksGrant
<1>. QED
  BY <1>1, <1>2

\* sticky_ports: what a running instance publishes is what its sidecar says,
\* through every interleaving of starts, redeployments, refusals, failed
\* saves, overlapping children and restarts, as long as no instance has lost
\* its port to the named races and this one has not been started again over
\* itself with other names or an unread sidecar.
THEOREM SidecarTrue == Spec => []RunningMatchesSidecar
<1>1. Init => MatchInv
  <2>. SUFFICES ASSUME Init PROVE MatchInv
    OBVIOUS
  <2>1. \A i \in Instances : Granted(i) = {}
    BY NoValues DEF Init, Granted, Promised, Due
  <2>2. OwnedInv
    BY <2>1 DEF OwnedInv
  <2>3. \A i \in Instances : SavedAt(i) /\ RetraceAt(i)
    BY NoValues DEF Init, SavedAt, RetraceAt, Distinct
  <2>. QED
    BY <2>2, <2>3 DEF MatchInv
<1>2. GrantInv /\ MatchInv /\ [Next]_vars => MatchInv'
  <2>. SUFFICES ASSUME GrantInv, MatchInv, [Next]_vars, ~raced' PROVE MatchInv'
    BY DEF MatchInv
  <2>1. ~raced
    BY RaceRemembered DEF GrantInv
  <2>2. OwnedInv'
    BY <2>1, OwnedStep DEF MatchInv
  <2>3. \A i \in Instances : SavedAt(i)' /\ RetraceAt(i)'
    BY <2>1, SavedStep, RetraceStep DEF MatchInv
  <2>. QED
    BY <2>2, <2>3 DEF MatchInv
<1>3. MatchInv => RunningMatchesSidecar
  BY DEF MatchInv, SavedAt, RunningMatchesSidecar
<1>. QED
  BY <1>1, <1>2, <1>3, GrantInvariant, PTL DEF Spec

=============================================================================
