----------------------------- MODULE MCTaskPool -----------------------------
(* Small instances of TaskPool.                                            *)
EXTENDS TaskPool

CONSTANTS q1, q2, d1, d2

OneDevice  == [q \in Queue |-> d1]
TwoDevices == q1 :> d1 @@ q2 :> d2

NoUserEvents   == {}
OnlySuccess    == {Complete}
SuccessOrError == {Complete, -1}

\* Queues that are created alike on one device are interchangeable.
QueueSymmetry == Permutations({q1, q2})

\* ... and so are two devices, each with its queue.
PairSymmetry == {q1 :> q2 @@ q2 :> q1 @@ d1 :> d2 @@ d2 :> d1}
=============================================================================
