--------------------------- MODULE ExecutionModel ---------------------------
(***************************************************************************)
(* What the runtime promises about events, seen through clGetEventInfo: an *)
(* event moves forward through its statuses one step at a time, a command  *)
(* starts only after the events it must follow, is complete only after     *)
(* they have finished, and a finished event never changes again.  Starting *)
(* while a predecessor is still running is the deviation from the OpenCL   *)
(* specification that task.hpp states.                                     *)
(***************************************************************************)
EXTENDS Integers

CONSTANT Task

VARIABLES
  status,   \* API-visible status of each event, "none" before it exists
  after     \* the events each one must come after, fixed when it is created

vars == <<status, after>>

Begun    == {"running", "complete", "failed"}
Ended    == {"complete", "failed"}

Init ==
  /\ status = [t \in Task |-> "none"]
  /\ after = [t \in Task |-> {}]

Becomes(t, s) == status' = [status EXCEPT ![t] = s]

CreateEvent(t) ==
  /\ status[t] = "none"
  /\ Becomes(t, "submitted")
  /\ UNCHANGED after

EnqueueCommand(t) ==
  /\ status[t] = "none"
  /\ Becomes(t, "queued")
  /\ \E P \in SUBSET {u \in Task : status[u] # "none"} :
       after' = [after EXCEPT ![t] = P]

Submit(t) ==
  /\ status[t] = "queued"
  /\ Becomes(t, "submitted")
  /\ UNCHANGED after

Start(t) ==
  /\ status[t] = "submitted"
  /\ \A u \in after[t] : status[u] \in Begun
  /\ Becomes(t, "running")
  /\ UNCHANGED after

(* A command that ran, or a user event, which has nothing to come after.   *)
Succeed(t) ==
  /\ status[t] = "running" \/ (status[t] = "submitted" /\ after[t] = {})
  /\ \A u \in after[t] : status[u] \in Ended
  /\ Becomes(t, "complete")
  /\ UNCHANGED after

Fail(t) ==
  /\ status[t] \notin {"none"} \cup Ended
  /\ Becomes(t, "failed")
  /\ UNCHANGED after

Next ==
  \E t \in Task : \/ CreateEvent(t) \/ EnqueueCommand(t) \/ Submit(t)
                  \/ Start(t) \/ Succeed(t) \/ Fail(t)

Spec == Init /\ [][Next]_vars
=============================================================================
