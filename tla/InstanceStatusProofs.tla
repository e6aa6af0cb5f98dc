------------------------ MODULE InstanceStatusProofs ------------------------
(***************************************************************************)
(* Theorems about InstanceStatus, for any set of containers.               *)
(***************************************************************************)
EXTENDS InstanceStatus, TLAPS

\* While the loop still believes that everything is stopped, and nothing has
\* started, a container that counts and runs has yet to be inspected.
PendingInv ==
  verdict = "none" /\ allStopped /\ "up" \notin moved =>
    \A c \in Containers \ ignored : status[c] = "running" => c \in left

StatusInv == TypeOK /\ PendingInv /\ StoppedIsTrue

\* No container exists, and no call is running.
LEMMA StatusInvInitial == Init => StatusInv
BY DEF Init, NoScan, StatusInv, TypeOK, PendingInv, StoppedIsTrue, Statuses

\* What docker does to a container between two inspections.
LEMMA DockerKeeps ==
  ASSUME StatusInv, NEW c \in Containers,
         \/ Create(c) \/ Remove(c) \/ Runs(c) \/ Stops(c) \/ Pauses(c)
         \/ Ends(c)
  PROVE  StatusInv'
<1> USE DEF StatusInv, TypeOK, PendingInv, StoppedIsTrue, Statuses, Moves,
            shape, scan
<1>1. CASE Create(c) BY <1>1 DEF Create
<1>2. CASE Remove(c) BY <1>2 DEF Remove
<1>3. CASE Runs(c) BY <1>3 DEF Runs
<1>4. CASE Stops(c) BY <1>4 DEF Stops
<1>5. CASE Pauses(c) BY <1>5 DEF Pauses
<1>6. CASE Ends(c) BY <1>6 DEF Ends
<1> QED BY <1>1, <1>2, <1>3, <1>4, <1>5, <1>6

\* The steps of get_status itself.
LEMMA GetStatusKeeps ==
  ASSUME StatusInv, GetStatus
  PROVE  StatusInv'
<1> USE DEF StatusInv, TypeOK, PendingInv, StoppedIsTrue, Statuses, shape,
            docker, scan
<1>1. CASE List BY <1>1 DEF List
<1>2. CASE Answer BY <1>2 DEF Answer, Aggregate
<1>3. ASSUME NEW c \in Containers, Inspect(c) PROVE StatusInv'
  BY <1>3 DEF Inspect, IgnoreForStatus, IsCompletedOneShot
<1>4. ASSUME NEW c \in Containers, InspectRaises(c) PROVE StatusInv'
  BY <1>4 DEF InspectRaises
<1> QED BY <1>1, <1>2, <1>3, <1>4 DEF GetStatus

\* The inductive invariant holds in every reachable state.
THEOREM StatusInvariant == Spec => []StatusInv
<1>1. StatusInv /\ UNCHANGED vars => StatusInv'
  BY DEF StatusInv, TypeOK, PendingInv, StoppedIsTrue, vars, shape, docker,
         scan
<1>2. StatusInv /\ [Next]_vars => StatusInv'
  BY <1>1, DockerKeeps, GetStatusKeeps DEF Next, Docker
<1> QED BY <1>2, StatusInvInitial, PTL DEF Spec

\* get_status never answers "stopped" of an instance one of whose counted
\* containers runs, however stops interleave with its inspections, as long
\* as nothing starts.
THEOREM StoppedVerdictTrue == Spec => []StoppedIsTrue
<1>1. StatusInv => StoppedIsTrue BY DEF StatusInv
<1> QED BY <1>1, StatusInvariant, PTL

-----------------------------------------------------------------------------
(* The other verdict.                                                      *)

\* What "running" may stand for in a container that counts.
Up(c) ==
  \/ status[c] = "running"
  \/ status[c] = "exited" /\ code[c] /\ policy[c] = "no"
  \/ status[c] = "created" /\ "set" \in moved
  \/ status[c] = "absent"

\* While the loop still believes that everything runs, and nothing has
\* stopped, a container that is not up has yet to be inspected; and once it
\* no longer believes that everything is stopped, something runs.
UpInv ==
  "down" \notin moved =>
    /\ verdict = "none" /\ allRunning =>
         \A c \in Containers \ ignored : c \in left \/ Up(c)
    /\ verdict = "none" /\ ~allStopped =>
         \E c \in Containers \ ignored : status[c] = "running"

RunInv == UpInv /\ RunningIsTrue

\* What docker does to a container while nothing stops.
LEMMA DockerKeepsRun ==
  ASSUME TypeOK, RunInv, NEW c \in Containers,
         \/ Create(c) \/ Remove(c) \/ Runs(c) \/ Stops(c) \/ Pauses(c)
         \/ Ends(c)
  PROVE  RunInv'
<1> USE DEF RunInv, UpInv, Up, RunningIsTrue, TypeOK, Statuses, Moves, shape,
            scan
<1>1. CASE Create(c) BY <1>1 DEF Create
<1>2. CASE Remove(c) BY <1>2 DEF Remove
<1>3. CASE Runs(c) BY <1>3 DEF Runs
<1>4. CASE Stops(c) BY <1>4 DEF Stops
<1>5. CASE Pauses(c) BY <1>5 DEF Pauses
<1>6. CASE Ends(c) BY <1>6 DEF Ends
<1> QED BY <1>1, <1>2, <1>3, <1>4, <1>5, <1>6

\* The steps of get_status itself.
LEMMA GetStatusKeepsRun ==
  ASSUME TypeOK, RunInv, GetStatus
  PROVE  RunInv'
<1> USE DEF RunInv, UpInv, Up, RunningIsTrue, TypeOK, Statuses, shape, docker,
            scan
<1>1. CASE List BY <1>1 DEF List
<1>2. CASE Answer BY <1>2 DEF Answer, Aggregate
<1>3. ASSUME NEW c \in Containers, Inspect(c) PROVE RunInv'
  BY <1>3 DEF Inspect, IgnoreForStatus, IsCompletedOneShot
<1>4. ASSUME NEW c \in Containers, InspectRaises(c) PROVE RunInv'
  BY <1>4 DEF InspectRaises
<1> QED BY <1>1, <1>2, <1>3, <1>4 DEF GetStatus

\* get_status never answers "running" of an instance that has a counted
\* container down which the call could have seen, and never of one that has
\* none running, however starts, creations and removals interleave with its
\* inspections, as long as nothing stops.
THEOREM RunningVerdictTrue == Spec => []RunningIsTrue
<1>1. Init => RunInv
  BY DEF Init, NoScan, RunInv, UpInv, RunningIsTrue
<1>2. RunInv /\ UNCHANGED vars => RunInv'
  BY DEF RunInv, UpInv, Up, RunningIsTrue, vars, shape, docker, scan
<1>3. StatusInv /\ RunInv /\ [Next]_vars => RunInv'
  BY <1>2, DockerKeepsRun, GetStatusKeepsRun DEF Next, Docker, StatusInv
<1>4. RunInv => RunningIsTrue BY DEF RunInv
<1> QED BY <1>1, <1>3, <1>4, StatusInvariant, PTL DEF Spec

=============================================================================
