------------------------- MODULE MigrationContract --------------------------
(***************************************************************************)
(* What the runner of the operations migrations promises, without files,   *)
(* locks or processes (apps/utils/ops_migrations/runner.py, "Safety        *)
(* properties", and the container command that runs it before uvicorn).    *)
(* A batch that could not read the record works as if nothing were in it.  *)
(***************************************************************************)
CONSTANTS Required  \* migrations the node may not serve without

VARIABLES
  done,     \* recorded as applied
  lost,     \* recorded once, and dropped by a blind batch
  running,  \* the one at work, or "none"
  blind,    \* the batch at work does not see the record
  serving,  \* the node answers requests
  waived    \* the operator has switched the migrations off

vars == <<done, lost, running, blind, serving, waived>>

Init ==
  /\ done \subseteq Required /\ lost = {} /\ running = "none"
  /\ blind = FALSE /\ serving = FALSE /\ waived \in BOOLEAN

\* A batch opens and reads the record or fails to, or it ends.
Open ==
  /\ running = "none" /\ blind' \in BOOLEAN
  /\ UNCHANGED <<done, lost, running, serving, waived>>

\* A migration begins only while no other runs, and never once it is recorded
\* unless the batch is blind.
Begin(m) ==
  /\ running = "none" /\ (m \notin done \/ blind)
  /\ running' = m
  /\ UNCHANGED <<done, lost, blind, serving, waived>>

\* Failure or crash: nothing is recorded and it may begin again.  A crash may
\* take the server with it.
Abandon ==
  /\ running # "none" /\ running' = "none"
  /\ blind' \in {blind, FALSE} /\ serving' \in {serving, FALSE}
  /\ UNCHANGED <<done, lost, waived>>

\* The record of a blind batch starts afresh; from then on it sees.
Record(m) ==
  /\ done' = {m} \cup (IF blind THEN {} ELSE done)
  /\ lost' = (done \cup lost) \ done'
  /\ blind' = FALSE
  /\ UNCHANGED <<serving, waived>>

Complete == running # "none" /\ running' = "none" /\ Record(running)

\* The entry of a migration that an earlier version applied.
Adopt(m) == running = "none" /\ Record(m) /\ UNCHANGED running

Serve ==
  /\ waived \/ done \cup lost = Required
  /\ serving' = TRUE
  /\ UNCHANGED <<done, lost, running, blind, waived>>

Down ==
  /\ serving' = FALSE /\ blind' \in {blind, FALSE}
  /\ UNCHANGED <<done, lost, running, waived>>

Next ==
  \/ \E m \in Required : Begin(m) \/ Adopt(m)
  \/ Open \/ Abandon \/ Complete \/ Serve \/ Down

Spec == Init /\ [][Next]_vars
=============================================================================
