--------------------------- MODULE SerialExecutor ---------------------------
(***************************************************************************)
(* What a D3DDevice relies on in its execution and completion schedulers:  *)
(* submissions run one at a time, in the order they were queued, each at   *)
(* most once, until the device is destroyed; what has not started by then  *)
(* is cancelled.                                                           *)
(***************************************************************************)
EXTENDS Sequences, SequencesExt

CONSTANTS Work, Nothing

VARIABLES
  waiting,    \* work queued and not started, oldest first
  current,    \* the work that is running, or Nothing
  done,       \* work that has run
  dropped     \* work that was cancelled

vars == <<waiting, current, done, dropped>>

Fresh(x) == x \notin ToSet(waiting) \cup {current} \cup done \cup dropped

Init ==
  /\ waiting = <<>>
  /\ current = Nothing
  /\ done = {}
  /\ dropped = {}

Submit(x) ==
  /\ Fresh(x)
  /\ waiting' = Append(waiting, x)
  /\ UNCHANGED <<current, done, dropped>>

Refuse(x) ==
  /\ Fresh(x)
  /\ dropped' = dropped \cup {x}
  /\ UNCHANGED <<waiting, current, done>>

(* The running work ends, if there is some, and the next may start.        *)
Advance ==
  /\ done' = done \cup ({current} \ {Nothing})
  /\ \/ /\ current' = Nothing
        /\ UNCHANGED waiting
     \/ /\ waiting # <<>>
        /\ current' = Head(waiting)
        /\ waiting' = Tail(waiting)
  /\ UNCHANGED dropped

Cancel ==
  /\ waiting # <<>>
  /\ dropped' = dropped \cup {Head(waiting)}
  /\ waiting' = Tail(waiting)
  /\ UNCHANGED <<current, done>>

Next ==
  \/ \E x \in Work : Submit(x) \/ Refuse(x)
  \/ Advance
  \/ Cancel

Spec == Init /\ [][Next]_vars
=============================================================================
