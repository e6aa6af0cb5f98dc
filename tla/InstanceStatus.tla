--------------------------- MODULE InstanceStatus ---------------------------
(***************************************************************************)
(* compose.get_status (apps/utils/docker/compose.py): the aggregate that   *)
(* backup, restore, the monitor and the boot reconciliation act on.  The   *)
(* docker SDK lists the ids of an instance's containers and then inspects  *)
(* them one by one, so the containers move while the aggregate is being    *)
(* computed; what docker does to them is external.                         *)
(***************************************************************************)
CONSTANT Containers  \* containers the instance's compose project may have

Statuses == {"absent", "created", "running", "paused", "restarting", "exited"}
Policies == {"no", "on-failure", "always"}  \* "no": explicit or absent

VARIABLES
  policy,   \* restart policy of each container
  ignored,  \* those with the status-ignore label or a legacy migrate name
  status,   \* docker's State.Status
  code,     \* the exit code is zero
  \* One call of get_status.
  left,     \* listed, not inspected yet
  allStopped, allRunning, sawAny,
  completed, exited,
  verdict,  \* "none" while the call runs, "raised" when the SDK raised
  moved     \* bookkeeping: starts ("up"), rests ("down") and containers that
            \* came or went ("set") since the listing

docker == <<status, code>>
shape == <<policy, ignored>>
scan == <<left, allStopped, allRunning, sawAny, completed, exited>>
vars == <<shape, docker, scan, verdict, moved>>

NoScan ==
  /\ left = {} /\ allStopped = TRUE /\ allRunning = TRUE /\ sawAny = FALSE
  /\ completed = {} /\ exited = {}

Init ==
  /\ policy \in [Containers -> Policies]
  /\ ignored \in SUBSET Containers
  /\ status = [c \in Containers |-> "absent"]
  /\ code = [c \in Containers |-> TRUE]
  /\ NoScan
  /\ verdict = "unknow"
  /\ moved = {}

-----------------------------------------------------------------------------
(* The docker daemon.                                                      *)

Moves(c, from, to) ==
  /\ status[c] \in from
  /\ status' = [status EXCEPT ![c] = to]
  /\ UNCHANGED <<shape, scan, verdict>>

Create(c) ==
  /\ Moves(c, {"absent"}, "created")
  /\ moved' = moved \cup {"set"}
  /\ UNCHANGED code

Remove(c) ==
  /\ Moves(c, {"created", "exited"}, "absent")
  /\ moved' = moved \cup {"set"}
  /\ UNCHANGED code

\* compose up, an unpause, or the daemon's own restart.  The exit code docker
\* reports is reset.
Runs(c) ==
  /\ Moves(c, {"created", "paused", "restarting", "exited"}, "running")
  /\ code' = [code EXCEPT ![c] = TRUE]
  /\ moved' = moved \cup {"up"}

\* docker stop suppresses every restart policy.
Stops(c) ==
  /\ Moves(c, {"running", "restarting"}, "exited")
  /\ \E z \in BOOLEAN : code' = [code EXCEPT ![c] = z]
  /\ moved' = moved \cup {"down"}

Pauses(c) ==
  /\ Moves(c, {"running"}, "paused")
  /\ moved' = moved \cup {"down"}
  /\ UNCHANGED code

\* The process ends by itself and the policy decides.
Ends(c) ==
  /\ \E z \in BOOLEAN :
       /\ code' = [code EXCEPT ![c] = z]
       /\ Moves(c, {"running"},
                IF policy[c] = "always" \/ (policy[c] = "on-failure" /\ ~z)
                THEN "restarting" ELSE "exited")
  /\ moved' = moved \cup {"down"}

Docker ==
  \E c \in Containers :
    Create(c) \/ Remove(c) \/ Runs(c) \/ Stops(c) \/ Pauses(c) \/ Ends(c)

-----------------------------------------------------------------------------
(* get_status.                                                             *)

\* client.containers.list(all=True, ...): the ids.
List ==
  /\ verdict # "none"
  /\ left' = {c \in Containers : status[c] # "absent"}
  /\ allStopped' = TRUE /\ allRunning' = TRUE /\ sawAny' = FALSE
  /\ completed' = {} /\ exited' = {}
  /\ verdict' = "none"
  /\ moved' = {}
  /\ UNCHANGED <<shape, docker>>

IgnoreForStatus(c) == c \in ignored

\* Mutant: docker's exit code is zero for a container that still runs.
IsCompletedUngated(c) == code[c] /\ policy[c] = "no"

IsCompletedOneShot(c) == status[c] = "exited" /\ code[c] /\ policy[c] = "no"

\* Mutant: a container that does not run no longer clears is_all_running.
InspectForgetful(c) ==
  LET counted == ~IgnoreForStatus(c)
      done == counted /\ IsCompletedOneShot(c)
      running == status[c] = "running"
  IN
  /\ verdict = "none" /\ c \in left /\ status[c] # "absent"
  /\ left' = left \ {c}
  /\ sawAny' = (sawAny \/ counted)
  /\ allStopped' = (allStopped /\ (~counted \/ done \/ ~running))
  /\ completed' = IF done THEN completed \cup {c} ELSE completed
  /\ exited' = IF counted /\ ~running THEN exited \cup {c} ELSE exited
  /\ UNCHANGED <<shape, docker, allRunning, verdict, moved>>

\* The body of the loop: inspect the next container as it is now.
Inspect(c) ==
  LET counted == ~IgnoreForStatus(c)
      done == counted /\ IsCompletedOneShot(c)
      running == status[c] = "running"
  IN
  /\ verdict = "none" /\ c \in left /\ status[c] # "absent"
  /\ left' = left \ {c}
  /\ sawAny' = (sawAny \/ counted)
  /\ allRunning' = (allRunning /\ (~counted \/ done \/ running))
  /\ allStopped' = (allStopped /\ (~counted \/ done \/ ~running))
  /\ completed' = IF done THEN completed \cup {c} ELSE completed
  /\ exited' = IF counted /\ ~running THEN exited \cup {c} ELSE exited
  /\ UNCHANGED <<shape, docker, verdict, moved>>

\* The inspection of a container removed since the listing raises.
InspectRaises(c) ==
  /\ verdict = "none" /\ c \in left /\ status[c] = "absent"
  /\ verdict' = "raised"
  /\ UNCHANGED <<shape, docker, scan, moved>>

Aggregate ==
  IF ~sawAny THEN "unknow"
  ELSE IF allRunning /\ ~allStopped THEN "running"
  ELSE IF allStopped THEN "stopped"
  ELSE "unknow"

Answer ==
  /\ verdict = "none" /\ left = {}
  /\ verdict' = Aggregate
  /\ UNCHANGED <<shape, docker, scan, moved>>

GetStatus ==
  List \/ Answer \/ \E c \in Containers : Inspect(c) \/ InspectRaises(c)

Next == Docker \/ GetStatus

Spec == Init /\ [][Next]_vars

-----------------------------------------------------------------------------
(* Properties.                                                             *)

\* Types; the verdict is in the vocabulary the callers compare with.
TypeOK ==
  /\ policy \in [Containers -> Policies]
  /\ ignored \subseteq Containers
  /\ status \in [Containers -> Statuses]
  /\ code \in [Containers -> BOOLEAN]
  /\ left \subseteq Containers
  /\ allStopped \in BOOLEAN /\ allRunning \in BOOLEAN /\ sawAny \in BOOLEAN
  /\ completed \subseteq Containers /\ exited \subseteq Containers
  /\ verdict \in {"none", "raised", "running", "stopped", "unknow"}
  /\ moved \subseteq {"up", "down", "set"}

\* What the quiesce-wait of a cold backup relies on: while nothing starts, a
\* "stopped" that was put together from inspections at different times is
\* true when it is returned, of every container that counts.
StoppedIsTrue ==
  verdict = "stopped" /\ "up" \notin moved =>
    \A c \in Containers \ ignored : status[c] # "running"

\* And "running" while nothing stops: something runs, and every container
\* that counts runs, has ended well as a one-shot, or came or went meanwhile.
RunningIsTrue ==
  verdict = "running" /\ "down" \notin moved =>
    /\ \E c \in Containers \ ignored : status[c] = "running"
    /\ \A c \in Containers \ ignored :
         \/ status[c] = "running"
         \/ status[c] = "exited" /\ code[c] /\ policy[c] = "no"
         \/ status[c] = "created" /\ "set" \in moved
         \/ status[c] = "absent"
=============================================================================
