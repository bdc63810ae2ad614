--------------------------- MODULE TaskPool_proofs ---------------------------
(***************************************************************************)
(* Type correctness of the task pool, and two facts about its queues, for  *)
(* any number of tasks, queues and devices.                                *)
(*                                                                         *)
(* TypeInv, the inductive invariant of the first, adds to TypeOK that      *)
(* every Queued task has a queue: SubmitTask and clWaitForEvents flush the *)
(* queue of any task they find Queued without looking whether it has one.  *)
(*                                                                         *)
(* The raw pointers to a queue's last task and last barrier are to tasks   *)
(* the queue still holds.  And the recursion of SubmitTask into the queues *)
(* of its dependencies never submits a task out of order: a task on the    *)
(* call stack precedes all that is left in its queue, while its            *)
(* dependencies precede the task itself.                                   *)
(*                                                                         *)
(* In the second half, the invariant of the whole pool: where every task   *)
(* is, and what the lock holder's calls know about the tasks on their      *)
(* lists.                                                                  *)
(***************************************************************************)
EXTENDS TaskPool, SequenceTheorems, TLAPS

(* An entry of a sequence is in the set of its entries.                    *)
LEMMA EntryInSet ==
  ASSUME NEW S, NEW s \in Seq(S), NEW i \in 1 .. Len(s)
  PROVE  s[i] \in ToSet(s)
BY DEF ToSet

(* The entries of a sequence one of whose entries was removed              *)
(* (std::remove_if and erase): those after it move up by one.              *)
LEMMA WithoutEntries ==
  ASSUME NEW S, NEW s \in Seq(S), NEW x \in ToSet(s)
  PROVE  \E k \in 1 .. Len(s) :
           /\ s[k] = x
           /\ Without(s, x) \in Seq(S)
           /\ Len(Without(s, x)) = Len(s) - 1
           /\ \A i \in 1 .. Len(s) - 1 :
                Without(s, x)[i] = IF i < k THEN s[i] ELSE s[i + 1]
<1> DEFINE k == CHOOSE i \in DOMAIN s : s[i] = x
           a == SubSeq(s, 1, k - 1)
           b == SubSeq(s, k + 1, Len(s))
<1>1. k \in 1 .. Len(s) /\ s[k] = x
  BY DEF ToSet
<1>2. Without(s, x) = a \o b
  BY DEF Without, RemoveAt
<1>3. /\ a \in Seq(S) /\ Len(a) = k - 1
      /\ \A i \in 1 .. k - 1 : a[i] = s[i]
  BY <1>1
<1>4. /\ b \in Seq(S) /\ Len(b) = Len(s) - k
      /\ \A i \in 1 .. Len(s) - k : b[i] = s[k + i]
  BY <1>1
<1> HIDE DEF k, a, b
<1>5. /\ a \o b \in Seq(S)
      /\ Len(a \o b) = Len(a) + Len(b)
      /\ \A i \in 1 .. Len(a) + Len(b) :
           (a \o b)[i] = IF i <= Len(a) THEN a[i] ELSE b[i - Len(a)]
  BY <1>3, <1>4, ConcatProperties
<1>6. Len(s) \in Nat /\ k \in Int
  BY <1>1
<1>7. ASSUME NEW i \in 1 .. Len(s) - 1
      PROVE  (a \o b)[i] = IF i < k THEN s[i] ELSE s[i + 1]
  <2>1. CASE i < k
    BY <1>3, <1>4, <1>5, <1>6, <2>1
  <2>2. CASE i >= k
    <3>1. (a \o b)[i] = b[i - (k - 1)]
      BY <1>3, <1>4, <1>5, <1>6, <2>2
    <3>2. b[i - (k - 1)] = s[k + (i - (k - 1))]
      BY <1>4, <1>6, <2>2
    <3> QED BY <3>1, <3>2, <1>6, <2>2
  <2>3. i < k \/ i >= k
    BY <1>6
  <2> QED BY <2>1, <2>2, <2>3, Zenon
<1>8. Len(a \o b) = Len(s) - 1
  BY <1>3, <1>4, <1>5, <1>6
<1> QED BY <1>1, <1>2, <1>5, <1>7, <1>8

(* Removing an entry that occurs at most once gives a sequence over the    *)
(* same set that loses no other entry and gains none.                      *)
LEMMA WithoutType ==
  ASSUME NEW S, NEW s \in Seq(S), NEW x
  PROVE  /\ Without(s, x) \in Seq(S)
         /\ ToSet(s) \ {x} \subseteq ToSet(Without(s, x))
         /\ ToSet(Without(s, x)) \subseteq ToSet(s)
<1>1. CASE x \notin ToSet(s)
  BY <1>1 DEF Without
<1>2. CASE x \in ToSet(s)
  <2> DEFINE w == Without(s, x)
  <2>1. PICK k \in 1 .. Len(s) :
          /\ s[k] = x
          /\ w \in Seq(S) /\ Len(w) = Len(s) - 1
          /\ \A i \in 1 .. Len(s) - 1 : w[i] = IF i < k THEN s[i] ELSE s[i + 1]
    BY <1>2, WithoutEntries
  <2> HIDE DEF w
  <2>2. ASSUME NEW y \in ToSet(w)
        PROVE  y \in ToSet(s)
    <3>1. PICK i \in 1 .. Len(s) - 1 : w[i] = y
      BY <2>1 DEF ToSet
    <3>2. PICK j \in 1 .. Len(s) : s[j] = y
      BY <2>1, <3>1
    <3> QED BY <3>2 DEF ToSet
  <2>3. ASSUME NEW y \in ToSet(s) \ {x}
        PROVE  y \in ToSet(w)
    <3>1. PICK i \in 1 .. Len(s) : s[i] = y /\ i # k
      BY <2>1 DEF ToSet
    <3>2. CASE i < k
      <4>1. i \in 1 .. Len(w) /\ w[i] = y
        BY <2>1, <3>1, <3>2
      <4> QED BY <4>1, <2>1, EntryInSet
    <3>3. CASE i > k
      <4> DEFINE j == i - 1
      <4>1. j \in 1 .. Len(s) - 1 /\ ~(j < k) /\ j + 1 = i
        BY <2>1, <3>1, <3>3
      <4> HIDE DEF j
      <4>2. w[j] = y
        BY <2>1, <3>1, <4>1
      <4> QED BY <4>1, <4>2, <2>1, EntryInSet
    <3> QED BY <2>1, <3>1, <3>2, <3>3
  <2> QED BY <2>1, <2>2, <2>3 DEF w
<1> QED BY <1>1, <1>2

-----------------------------------------------------------------------------
(* The inductive invariant behind type correctness: a recursive flush goes *)
(* to the queue of a task that is Queued, so a task in that state has to   *)
(* have one, which user events do not.                                     *)

QueuedHasQueue == \A t \in Created : state[t] = Queued => home[t] \in Queue

TypeInv == TypeOK /\ QueuedHasQueue

-----------------------------------------------------------------------------
(* Types of the operators the actions are built from *)

(* The frames pushed by the actions are frames of the call stack.          *)
LEMMA FrameTypes ==
  /\ \A q \in Queue, b \in BOOLEAN : FlushFrame(q, b) \in Frames
  /\ \A t \in Created, D, T \in SUBSET Created : SubmitFrame(t, D, T) \in Frames
  /\ \A t \in Created, T \in SUBSET Created : ReadyFrame(t, T) \in Frames
  /\ \A t \in Created, e \in Error, T \in SUBSET Created : CompleteFrame(t, e, T) \in Frames
  /\ \A s \in Seq(Created), e \in Error : CompleteAllFrame(s, e) \in Frames
  /\ FlushAllFrame \in Frames
  /\ \A T \in SUBSET Created : WaitFrame(T) \in Frames
BY DEF Frames, FlushFrame, SubmitFrame, ReadyFrame, CompleteFrame,
       CompleteAllFrame, FlushAllFrame, WaitFrame

(* The fields a frame has, and what stays a frame when its list shrinks.   *)
LEMMA FrameFields ==
  ASSUME NEW f \in Frames
  PROVE  /\ f.fn = "Flush" => f.queue \in Queue /\ f.flushDevice \in BOOLEAN
         /\ f.fn = "SubmitTask" =>
              /\ f.task \in Created /\ f.todo \subseteq Created
              /\ \A T \in SUBSET Created : [f EXCEPT !.todo = T] \in Frames
         /\ f.fn = "Ready" =>
              /\ f.task \in Created /\ f.todo \subseteq Created
              /\ \A T \in SUBSET Created : [f EXCEPT !.todo = T] \in Frames
         /\ f.fn = "Complete" =>
              /\ f.task \in Created /\ f.error \in Error /\ f.todo \subseteq Created
              /\ \A T \in SUBSET Created : [f EXCEPT !.todo = T] \in Frames
         /\ f.fn = "CompleteAll" =>
              /\ f.tasks \in Seq(Created) /\ f.error \in Error
              /\ \A s \in Seq(Created) : [f EXCEPT !.tasks = s] \in Frames
         /\ f.fn = "clWaitForEvents" =>
              /\ f.todo \subseteq Created
              /\ \A T \in SUBSET Created : [f EXCEPT !.todo = T] \in Frames
BY DEF Frames

(* A call stack of one frame.                                              *)
LEMMA Single ==
  ASSUME NEW f \in Frames
  PROVE  <<f>> \in Seq(Frames)
OBVIOUS

(* A frame pushed on a call stack gives a call stack.                      *)
LEMMA Push ==
  ASSUME NEW f \in Frames, NEW s \in Seq(Frames)
  PROVE  <<f>> \o s \in Seq(Frames)
OBVIOUS

(* The lock holder's innermost frame and the frames beneath it.            *)
LEMMA StackTypes ==
  ASSUME TypeOK, NEW fn, Executing(fn)
  PROVE  Head(stack) \in Frames /\ Head(stack).fn = fn /\ Callers \in Seq(Frames)
BY HeadTailProperties DEF TypeOK, Executing, Callers

(* The tasks that exist are among those the bound allows.                  *)
LEMMA CreatedTasks == TypeOK => Created \subseteq Task
BY TaskPoolAssumption DEF TypeOK, Created, Task

(* The statuses a step gives a task are statuses; the errors passed to     *)
(* Task::Complete are never positive.                                      *)
LEMMA Statuses ==
  /\ Error \subseteq Status /\ UserStatus \subseteq Error
  /\ Complete \in Error /\ CL_OUT_OF_RESOURCES \in Error
  /\ CL_EXEC_STATUS_ERROR_FOR_EVENTS_IN_WAIT_LIST \in Error
  /\ {Running, Submitted, Queued, Ready} \subseteq Status
  /\ Queued \notin Error \cup {Running, Submitted, Ready}
BY TaskPoolAssumption
DEF Error, Status, Complete, CL_OUT_OF_RESOURCES, Running, Submitted, Queued, Ready,
    CL_EXEC_STATUS_ERROR_FOR_EVENTS_IN_WAIT_LIST

(* What a step may do to the states: nothing goes back to Queued.          *)
StatesTyped ==
  /\ state' \in [Task -> Status]
  /\ \A t \in Task : state'[t] = Queued => state[t] = Queued

(* A step that gives one task a status other than Queued keeps the states  *)
(* typed.                                                                  *)
LEMMA Moved ==
  ASSUME TypeOK, NEW t \in Task, NEW s \in Status \ {Queued},
         state' = [state EXCEPT ![t] = s]
  PROVE  StatesTyped
BY DEF TypeOK, StatesTyped

(* CommandQueue::NotifyTaskCompletion keeps the queues' types.             *)
LEMMA NotifyType ==
  ASSUME TypeOK, NEW t \in Created, NotifyTaskCompletion(t)
  PROVE  /\ queued' \in [Queue -> Seq(Created)]
         /\ outstanding' \in [Queue -> SUBSET Created]
         /\ lastTask' \in [Queue -> Created \cup {NoTask}]
         /\ lastBarrier' \in [Queue -> Created \cup {NoTask}]
<1>1. \A q \in Queue : Without(queued[q], t) \in Seq(Created)
  BY WithoutType DEF TypeOK
<1> QED BY <1>1 DEF TypeOK, NotifyTaskCompletion

(* The first part of Task::Complete keeps the types, given an error that   *)
(* is not positive and a well-typed rest of the stack.                     *)
LEMMA BeginCompleteType ==
  ASSUME TypeOK, NEW t \in Created, NEW error \in Error, NEW callers \in Seq(Frames),
         BeginComplete(t, error, callers)
  PROVE  /\ StatesTyped
         /\ queued' \in [Queue -> Seq(Created)]
         /\ outstanding' \in [Queue -> SUBSET Created]
         /\ lastTask' \in [Queue -> Created \cup {NoTask}]
         /\ lastBarrier' \in [Queue -> Created \cup {NoTask}]
         /\ stack' \in Seq(Frames)
<1>1. CASE Finished(t)
  BY <1>1 DEF BeginComplete, TypeOK, StatesTyped, queueVars
<1>2. CASE ~Finished(t)
  <2>1. /\ state' = [state EXCEPT ![t] = error]
        /\ NotifyTaskCompletion(t)
        /\ stack' = <<CompleteFrame(t, error, waiters[t])>> \o callers
    BY <1>2 DEF BeginComplete
  <2>2. t \in Task
    BY CreatedTasks
  <2>3. CompleteFrame(t, error, waiters[t]) \in Frames
    BY <2>2, FrameTypes DEF TypeOK
  <2>4. stack' \in Seq(Frames)
    BY <2>1, <2>3, Push
  <2>5. StatesTyped
    BY <2>1, <2>2, Moved, Statuses
  <2> QED BY <2>1, <2>4, <2>5, NotifyType
<1> QED BY <1>1, <1>2

(* The first part of Task::Ready keeps the types, for a task of a queue.   *)
LEMMA BeginReadyType ==
  ASSUME TypeOK, NEW t \in Created, NEW callers \in Seq(Frames), BeginReady(t, callers)
  PROVE  /\ StatesTyped
         /\ recording' \in [Device -> Seq(Created)]
         /\ stack' \in Seq(Frames)
<1>1. t \in Task
  BY CreatedTasks
<1>2. ReadyFrame(t, waiters[t]) \in Frames
  BY <1>1, FrameTypes DEF TypeOK
<1>3. stack' \in Seq(Frames)
  BY <1>2, Push DEF BeginReady
<1>4. StatesTyped
  BY <1>1, Moved, Statuses DEF BeginReady
<1>5. recording' \in [Device -> Seq(Created)]
  BY AppendProperties DEF BeginReady, TypeOK
<1> QED BY <1>3, <1>4, <1>5

(* Removing a dependency, and readying the task it was the last of, keeps  *)
(* the types.                                                              *)
LEMMA PruneType ==
  ASSUME TypeOK, NEW t, NEW d \in Created, NEW callers \in Seq(Frames),
         Prune(t, d, callers)
  PROVE  /\ waitOn' \in [Task -> SUBSET Created]
         /\ StatesTyped
         /\ recording' \in [Device -> Seq(Created)]
         /\ stack' \in Seq(Frames)
<1>1. waitOn' \in [Task -> SUBSET Created]
  BY DEF Prune, TypeOK
<1>2. \/ BeginReady(d, callers)
      \/ stack' = callers /\ UNCHANGED <<state, recording>>
  BY DEF Prune
<1> QED BY <1>1, <1>2, BeginReadyType DEF TypeOK, StatesTyped

(* D3DDevice::Flush keeps the types of the recording and execution lists.  *)
LEMMA FlushDevicesType ==
  ASSUME TypeOK, NEW S, FlushDevices(S)
  PROVE  /\ recording' \in [Device -> Seq(Created)]
         /\ execQ' \in [Device -> Seq(Seq(Created))]
<1>1. \A d \in Device : Append(execQ[d], recording[d]) \in Seq(Seq(Created))
  BY AppendProperties DEF TypeOK
<1> QED BY <1>1 DEF FlushDevices, TypeOK

(* For a step that creates no task, types and states are all there is to   *)
(* show.                                                                   *)
LEMMA NothingCreated ==
  ASSUME TypeInv, UNCHANGED taskVars, StatesTyped,
         waitOn' \in [Task -> SUBSET Created],
         waiters' \in [Task -> SUBSET Created],
         signalled' \subseteq Created,
         queued' \in [Queue -> Seq(Created)],
         outstanding' \in [Queue -> SUBSET Created],
         lastTask' \in [Queue -> Created \cup {NoTask}],
         lastBarrier' \in [Queue -> Created \cup {NoTask}],
         recording' \in [Device -> Seq(Created)],
         execQ' \in [Device -> Seq(Seq(Created))],
         recorded' \in [Device -> Nat],
         completionQ' \in [Device -> Seq(Seq(Created))],
         stack' \in Seq(Frames),
         waiting' \subseteq Created,
         setters' \subseteq Created \X UserStatus,
         fault' \in Faults
  PROVE  TypeInv'
<1>1. Created' = Created
  BY DEF Created, taskVars
<1>2. Frames' = Frames
  BY <1>1 DEF Frames
<1>3. TypeOK'
  BY <1>1, <1>2 DEF TypeInv, TypeOK, StatesTyped, taskVars
<1>4. QueuedHasQueue'
  BY <1>1, CreatedTasks DEF TypeInv, QueuedHasQueue, StatesTyped, taskVars
<1> QED BY <1>3, <1>4 DEF TypeInv

-----------------------------------------------------------------------------
(* Type correctness *)

(* The invariant holds initially: no task exists.                          *)
LEMMA TypeInit == Init => TypeInv
<1> SUFFICES ASSUME Init PROVE TypeInv
  OBVIOUS
<1>1. Created = {}
  BY DEF Init, Created
<1>2. <<>> \in Seq(Created) /\ <<>> \in Seq(Seq(Created)) /\ <<>> \in Seq(Frames)
  OBVIOUS
<1>3. TypeOK
  BY <1>1, <1>2, TaskPoolAssumption, Statuses DEF Init, TypeOK, NoTask, Faults
<1> QED BY <1>1, <1>3 DEF TypeInv, QueuedHasQueue

(* Creating a task invalidates no reference.                               *)
LEMMA MoreCreated ==
  ASSUME TypeOK, created' = created + 1
  PROVE  /\ Created \subseteq Created' /\ created + 1 \in Created'
         /\ Created' = Created \cup {created + 1}
         /\ Seq(Created) \subseteq Seq(Created')
         /\ Seq(Seq(Created)) \subseteq Seq(Seq(Created'))
         /\ Seq(Frames) \subseteq Seq(Frames')
<1>1. /\ Created \subseteq Created' /\ created + 1 \in Created'
      /\ Created' = Created \cup {created + 1}
  BY DEF TypeOK, Created
<1>2. Seq(Created) \subseteq Seq(Created')
  BY <1>1, SeqMonotonic
<1>3. Seq(Seq(Created)) \subseteq Seq(Seq(Created'))
  BY <1>2, SeqMonotonic
<1>4. Frames \subseteq Frames'
  BY <1>1, <1>2 DEF Frames
<1>5. Seq(Frames) \subseteq Seq(Frames')
  BY <1>4, SeqMonotonic
<1> QED BY <1>1, <1>2, <1>3, <1>5

(* clCreateUserEvent keeps the invariant.                                  *)
LEMMA TypeCreateUserEvent ==
  ASSUME TypeInv, CreateUserEvent
  PROVE  TypeInv'
<1> DEFINE t == created + 1
<1>1. /\ created < NumTasks /\ created' = t
      /\ state' = [state EXCEPT ![t] = Submitted]
      /\ UNCHANGED <<home, barriers, waitList, sweeping, depVars, signalled, queueVars,
                     deviceVars, stack, callVars, fault>>
  BY DEF CreateUserEvent
<1>2. t \in Task /\ created' \in 0 .. NumTasks
  BY <1>1, TaskPoolAssumption DEF TypeInv, TypeOK, Task
<1>3. StatesTyped /\ state'[t] = Submitted
  BY <1>1, <1>2, Moved, Statuses DEF TypeInv, TypeOK
<1>4. /\ Created \subseteq Created' /\ Created' = Created \cup {t}
      /\ Seq(Created) \subseteq Seq(Created')
      /\ Seq(Seq(Created)) \subseteq Seq(Seq(Created'))
      /\ Seq(Frames) \subseteq Seq(Frames')
  BY <1>1, MoreCreated DEF TypeInv
<1> HIDE DEF t
<1>5. TypeOK'
  BY <1>1, <1>2, <1>3, <1>4
  DEF TypeInv, TypeOK, StatesTyped, depVars, queueVars, deviceVars, callVars
<1>6. QueuedHasQueue'
  BY <1>1, <1>3, <1>4, CreatedTasks, Statuses DEF TypeInv, QueuedHasQueue, StatesTyped
<1> QED BY <1>5, <1>6 DEF TypeInv

(* A clEnqueue* call keeps the invariant: the new task is Queued in a      *)
(* queue.                                                                  *)
LEMMA TypeEnqueue ==
  ASSUME TypeInv, NEW q \in Queue, NEW command, NEW W \in SUBSET Created,
         Enqueue(q, command, W)
  PROVE  TypeInv'
<1> DEFINE t == created + 1
           sweep == command # "task" /\ W = {}
           deps == LinkedTo((IF sweep THEN AllTasksOf(q) ELSE W)
                      \cup ({lastTask[q], lastBarrier[q]} \ {NoTask}), DeviceOf[q])
<1> USE DEF TypeInv
<1>1. /\ created < NumTasks /\ created' = t
      /\ home' = [home EXCEPT ![t] = q]
      /\ barriers' \subseteq barriers \cup {t}
      /\ waitList' = [waitList EXCEPT ![t] = W]
      /\ sweeping' \subseteq sweeping \cup {t}
      /\ waitOn' = [waitOn EXCEPT ![t] = deps]
      /\ waiters' = [u \in Task |->
                       IF u \in deps THEN waiters[u] \cup {t} ELSE waiters[u]]
      /\ queued' = [queued EXCEPT ![q] = Append(@, t)]
      /\ lastTask' \in {lastTask, [lastTask EXCEPT ![q] = t]}
      /\ lastBarrier' \in {lastBarrier, [lastBarrier EXCEPT ![q] = t]}
      /\ UNCHANGED <<state, signalled, outstanding, deviceVars, stack, callVars, fault>>
  BY DEF Enqueue
<1>2. t \in Task /\ created' \in 0 .. NumTasks
  BY <1>1, TaskPoolAssumption DEF TypeOK, Task
<1>3. AllTasksOf(q) \subseteq Created
  <2>1. queued[q] \in Seq(Created) /\ outstanding[q] \subseteq Created
    BY DEF TypeOK
  <2>2. ToSet(queued[q]) \subseteq Created
    BY <2>1 DEF ToSet
  <2> QED BY <2>1, <2>2 DEF AllTasksOf
<1>4. deps \subseteq Created
  <2>1. {lastTask[q], lastBarrier[q]} \ {NoTask} \subseteq Created
    BY DEF TypeOK
  <2> QED BY <1>3, <2>1 DEF LinkedTo
<1>5. /\ Created \subseteq Created' /\ Created' = Created \cup {t} /\ t \in Created'
      /\ Seq(Created) \subseteq Seq(Created')
      /\ Seq(Seq(Created)) \subseteq Seq(Seq(Created'))
      /\ Seq(Frames) \subseteq Seq(Frames')
  BY <1>1, MoreCreated
<1> HIDE DEF t, deps
<1>6. queued' \in [Queue -> Seq(Created')]
  <2>1. queued[q] \in Seq(Created')
    BY <1>5 DEF TypeOK
  <2>2. Append(queued[q], t) \in Seq(Created')
    BY <1>5, <2>1, AppendProperties
  <2> QED BY <1>1, <1>5, <2>2 DEF TypeOK
<1>7. waiters' \in [Task -> SUBSET Created'] /\ waitOn' \in [Task -> SUBSET Created']
  BY <1>1, <1>4, <1>5 DEF TypeOK
<1>8. /\ lastTask' \in [Queue -> Created' \cup {NoTask}]
      /\ lastBarrier' \in [Queue -> Created' \cup {NoTask}]
  BY <1>1, <1>5 DEF TypeOK
<1>9. /\ home' \in [Task -> Queue \cup {NoQueue}]
      /\ waitList' \in [Task -> SUBSET Created']
      /\ barriers' \subseteq Created' /\ sweeping' \subseteq Created'
  BY <1>1, <1>5 DEF TypeOK
<1>10. /\ recording' \in [Device -> Seq(Created')]
       /\ execQ' \in [Device -> Seq(Seq(Created'))]
       /\ completionQ' \in [Device -> Seq(Seq(Created'))]
       /\ recorded' \in [Device -> Nat]
       /\ outstanding' \in [Queue -> SUBSET Created']
  BY <1>1, <1>5 DEF TypeOK, deviceVars
<1>11. TypeOK'
  BY <1>1, <1>2, <1>5, <1>6, <1>7, <1>8, <1>9, <1>10 DEF TypeOK, callVars
<1>12. QueuedHasQueue'
  BY <1>1, <1>2, <1>5 DEF TypeOK, QueuedHasQueue
<1> QED BY <1>11, <1>12

(* Every application call keeps the invariant.                             *)
LEMMA TypeApplication ==
  ASSUME TypeInv, Application
  PROVE  TypeInv'
<1>1. ASSUME NEW q \in Queue, ClFlush(q)
      PROVE  TypeInv'
  <2>1. <<FlushFrame(q, TRUE)>> \in Seq(Frames)
    BY Single DEF FlushFrame, Frames
  <2> QED
    BY <1>1, <2>1, NothingCreated
    DEF ClFlush, TypeInv, TypeOK, StatesTyped, depVars, queueVars, deviceVars, callVars
<1>2. ASSUME NEW W \in SUBSET Created, ClWaitForEvents(W)
      PROVE  TypeInv'
  <2>1. <<WaitFrame({t \in W : state[t] = Queued})>> \in Seq(Frames)
    BY FrameTypes, Single
  <2> QED
    BY <1>2, <2>1, NothingCreated
    DEF ClWaitForEvents, TypeInv, TypeOK, StatesTyped, depVars, queueVars, deviceVars
<1>3. ASSUME NEW u \in Task, NEW s \in UserStatus, SetUserEventStatusCheck(u, s)
      PROVE  TypeInv'
  BY <1>3, NothingCreated
  DEF SetUserEventStatusCheck, UserEvents, TypeInv, TypeOK, StatesTyped, depVars,
      queueVars, deviceVars
<1> QED
  BY <1>1, <1>2, <1>3, TypeCreateUserEvent, TypeEnqueue
  DEF Application, EnqueueCommand, EnqueueMarkerWithWaitList, EnqueueBarrierWithWaitList

(* Moving a task from its queue to the device keeps the invariant.         *)
LEMMA TypeFlushTask ==
  ASSUME TypeInv, FlushTask
  PROVE  TypeInv'
<1> DEFINE q == Head(stack).queue
           t == Head(queued[q])
<1> USE DEF TypeInv
<1>1. stack \in Seq(Frames) /\ q \in Queue
  BY StackTypes, FrameFields DEF FlushTask, TypeOK
<1>2. /\ queued[q] # <<>>
      /\ queued' = [queued EXCEPT ![q] = Tail(@)]
      /\ outstanding' = [outstanding EXCEPT ![q] = @ \cup {t}]
      /\ \/ BeginReady(t, stack)
         \/ /\ state' = [state EXCEPT ![t] = Submitted]
            /\ stack' = <<SubmitFrame(t, waitOn[t], waitOn[t])>> \o stack
            /\ UNCHANGED recording
      /\ UNCHANGED <<taskVars, depVars, signalled, lastTask, lastBarrier, execQ,
                     recorded, completionQ, callVars, fault>>
  BY DEF FlushTask
<1>3. t \in Created /\ Tail(queued[q]) \in Seq(Created)
  BY <1>1, <1>2, HeadTailProperties DEF TypeOK
<1> HIDE DEF t, q
<1>4. queued' \in [Queue -> Seq(Created)] /\ outstanding' \in [Queue -> SUBSET Created]
  BY <1>2, <1>3 DEF TypeOK
<1>5. StatesTyped /\ recording' \in [Device -> Seq(Created)] /\ stack' \in Seq(Frames)
  <2>1. CASE BeginReady(t, stack)
    BY <1>1, <1>3, <2>1, BeginReadyType
  <2>2. CASE /\ state' = [state EXCEPT ![t] = Submitted]
             /\ stack' = <<SubmitFrame(t, waitOn[t], waitOn[t])>> \o stack
             /\ UNCHANGED recording
    <3>1. t \in Task
      BY <1>3, CreatedTasks
    <3>2. SubmitFrame(t, waitOn[t], waitOn[t]) \in Frames
      BY <1>3, <3>1, FrameTypes DEF TypeOK
    <3>3. stack' \in Seq(Frames)
      BY <1>1, <2>2, <3>2, Push
    <3>4. StatesTyped
      BY <2>2, <3>1, Moved, Statuses
    <3> QED BY <2>2, <3>3, <3>4 DEF TypeOK
  <2> QED BY <1>2, <2>1, <2>2
<1> QED BY <1>2, <1>4, <1>5, NothingCreated DEF TypeOK, depVars, callVars

(* The frame on top with one entry of its list done, and those beneath it. *)
LEMMA Rest ==
  ASSUME TypeOK, NEW fn \in {"SubmitTask", "Ready", "Complete", "clWaitForEvents"},
         Executing(fn), NEW u \in Head(stack).todo
  PROVE  /\ u \in Created
         /\ <<[Head(stack) EXCEPT !.todo = @ \ {u}]>> \o Callers \in Seq(Frames)
<1>1. Head(stack) \in Frames /\ Head(stack).fn = fn /\ Callers \in Seq(Frames)
  BY StackTypes
<1>2. /\ Head(stack).todo \subseteq Created
      /\ [Head(stack) EXCEPT !.todo = @ \ {u}] \in Frames
  BY <1>1, FrameFields
<1> QED BY <1>1, <1>2, Push

(* A flush of the queue of a Queued task, on top of callers.               *)
LEMMA FlushOfTask ==
  ASSUME TypeInv, NEW u \in Created, state[u] = Queued, NEW b \in BOOLEAN,
         NEW callers \in Seq(Frames)
  PROVE  <<FlushFrame(home[u], b)>> \o callers \in Seq(Frames)
<1>1. FlushFrame(home[u], b) \in Frames
  BY FrameTypes DEF TypeInv, QueuedHasQueue
<1> QED BY <1>1, Push

(* The steps of SubmitTask's loop keep the invariant.                      *)
LEMMA TypeSubmit ==
  ASSUME TypeInv, SubmitDependency \/ SubmitReturns \/ SubmitIteratorInvalid
  PROVE  TypeInv'
<1> USE DEF TypeInv
<1>1. CASE SubmitDependency
  <2> DEFINE rest(u) == <<[Head(stack) EXCEPT !.todo = @ \ {u}]>> \o Callers
  <2>1. PICK u \in Head(stack).todo :
          stack' = IF state[u] = Queued
                     THEN <<FlushFrame(home[u], FALSE)>> \o rest(u)
                     ELSE rest(u)
    BY <1>1 DEF SubmitDependency
  <2>2. u \in Created /\ rest(u) \in Seq(Frames)
    BY <1>1, Rest DEF SubmitDependency
  <2> HIDE DEF rest
  <2>3. stack' \in Seq(Frames)
    BY <2>1, <2>2, FlushOfTask
  <2> QED
    BY <1>1, <2>3, NothingCreated
    DEF SubmitDependency, TypeOK, StatesTyped, depVars, queueVars, deviceVars, callVars
<1>2. CASE SubmitReturns
  BY <1>2, StackTypes, NothingCreated
  DEF SubmitReturns, TypeOK, StatesTyped, depVars, queueVars, deviceVars, callVars
<1>3. CASE SubmitIteratorInvalid
  BY <1>3, NothingCreated
  DEF SubmitIteratorInvalid, TypeOK, StatesTyped, Faults, depVars, queueVars, deviceVars,
      callVars
<1> QED BY <1>1, <1>2, <1>3

(* The steps of Task::Ready's loop keep the invariant.                     *)
LEMMA TypeReady ==
  ASSUME TypeInv, ReadyDependent \/ ReadyReturns
  PROVE  TypeInv'
<1> USE DEF TypeInv
<1>1. CASE ReadyDependent
  <2> DEFINE rest(d) == <<[Head(stack) EXCEPT !.todo = @ \ {d}]>> \o Callers
  <2>1. PICK d \in Head(stack).todo :
          \/ stack' = rest(d) /\ UNCHANGED <<waitOn, state, recording>>
          \/ Prune(Head(stack).task, d, rest(d))
    BY <1>1 DEF ReadyDependent
  <2>2. d \in Created /\ rest(d) \in Seq(Frames)
    BY <1>1, Rest DEF ReadyDependent
  <2> HIDE DEF rest
  <2>3. /\ waitOn' \in [Task -> SUBSET Created]
        /\ StatesTyped
        /\ recording' \in [Device -> Seq(Created)]
        /\ stack' \in Seq(Frames)
    BY <2>1, <2>2, PruneType DEF TypeOK, StatesTyped
  <2> QED
    BY <1>1, <2>3, NothingCreated DEF ReadyDependent, TypeOK, queueVars, callVars
<1>2. CASE ReadyReturns
  BY <1>2, StackTypes, NothingCreated
  DEF ReadyReturns, TypeOK, StatesTyped, depVars, queueVars, deviceVars, callVars
<1> QED BY <1>1, <1>2

(* The steps of Task::Complete's loop and of completing a submission keep  *)
(* the invariant.                                                          *)
LEMMA TypeComplete ==
  ASSUME TypeInv, CompleteDependent \/ CompleteReturns \/ CompleteNext
  PROVE  TypeInv'
<1> USE DEF TypeInv
<1>1. CASE CompleteDependent
  <2> DEFINE f == Head(stack)
             rest(d) == <<[f EXCEPT !.todo = @ \ {d}]>> \o Callers
  <2>1. PICK d \in f.todo :
          \/ f.error < 0 /\ BeginComplete(d, f.error, rest(d)) /\ UNCHANGED <<waitOn, recording>>
          \/ Prune(f.task, d, rest(d)) /\ UNCHANGED queueVars
          \/ stack' = rest(d) /\ UNCHANGED <<waitOn, state, recording, queueVars>>
    BY <1>1 DEF CompleteDependent
  <2>2. d \in Created /\ rest(d) \in Seq(Frames)
    BY <1>1, Rest DEF CompleteDependent
  <2>3. f.error \in Error
    BY <1>1, StackTypes, FrameFields DEF CompleteDependent
  <2> HIDE DEF f, rest
  <2>4. /\ waitOn' \in [Task -> SUBSET Created]
        /\ StatesTyped
        /\ recording' \in [Device -> Seq(Created)]
        /\ queued' \in [Queue -> Seq(Created)]
        /\ outstanding' \in [Queue -> SUBSET Created]
        /\ lastTask' \in [Queue -> Created \cup {NoTask}]
        /\ lastBarrier' \in [Queue -> Created \cup {NoTask}]
        /\ stack' \in Seq(Frames)
    <3>1. CASE BeginComplete(d, f.error, rest(d)) /\ UNCHANGED <<waitOn, recording>>
      BY <2>2, <2>3, <3>1, BeginCompleteType DEF TypeOK
    <3>2. CASE Prune(f.task, d, rest(d)) /\ UNCHANGED queueVars
      BY <2>2, <3>2, PruneType DEF TypeOK, queueVars
    <3>3. CASE stack' = rest(d) /\ UNCHANGED <<waitOn, state, recording, queueVars>>
      BY <2>2, <3>3 DEF TypeOK, StatesTyped, queueVars
    <3> QED BY <2>1, <3>1, <3>2, <3>3
  <2> QED
    BY <1>1, <2>4, NothingCreated DEF CompleteDependent, TypeOK, callVars
<1>2. CASE CompleteReturns
  <2>1. Head(stack).task \in Created /\ Callers \in Seq(Frames)
    BY <1>2, StackTypes, FrameFields DEF CompleteReturns
  <2> QED
    BY <1>2, <2>1, NothingCreated
    DEF CompleteReturns, TypeOK, StatesTyped, Faults, queueVars, deviceVars
<1>3. CASE CompleteNext
  <2> DEFINE f == Head(stack)
             rest == <<[f EXCEPT !.tasks = Tail(@)]>> \o Callers
  <2>1. \/ stack' = Callers /\ UNCHANGED <<state, queueVars>>
        \/ f.tasks # <<>> /\ BeginComplete(Head(f.tasks), f.error, rest)
    BY <1>3 DEF CompleteNext
  <2>2. /\ f \in Frames /\ f.fn = "CompleteAll" /\ Callers \in Seq(Frames)
        /\ f.tasks \in Seq(Created) /\ f.error \in Error
    BY <1>3, StackTypes, FrameFields DEF CompleteNext
  <2>3. f.tasks # <<>> => Head(f.tasks) \in Created /\ rest \in Seq(Frames)
    <3> SUFFICES ASSUME f.tasks # <<>>
                 PROVE  Head(f.tasks) \in Created /\ rest \in Seq(Frames)
      OBVIOUS
    <3>1. Head(f.tasks) \in Created /\ Tail(f.tasks) \in Seq(Created)
      BY <2>2, HeadTailProperties
    <3>2. [f EXCEPT !.tasks = Tail(@)] \in Frames
      BY <2>2, <3>1, FrameFields
    <3> QED BY <2>2, <3>1, <3>2, Push
  <2> HIDE DEF f, rest
  <2>4. /\ StatesTyped
        /\ queued' \in [Queue -> Seq(Created)]
        /\ outstanding' \in [Queue -> SUBSET Created]
        /\ lastTask' \in [Queue -> Created \cup {NoTask}]
        /\ lastBarrier' \in [Queue -> Created \cup {NoTask}]
        /\ stack' \in Seq(Frames)
    BY <2>1, <2>2, <2>3, BeginCompleteType DEF TypeOK, StatesTyped, queueVars
  <2> QED
    BY <1>3, <2>4, NothingCreated DEF CompleteNext, TypeOK, depVars, deviceVars, callVars
<1> QED BY <1>1, <1>2, <1>3

(* The remaining steps of flushes keep the invariant.                      *)
LEMMA TypeFlushes ==
  ASSUME TypeInv, FlushReturns \/ FlushAllDevices \/ WaitFlush
  PROVE  TypeInv'
<1> USE DEF TypeInv
<1>1. ASSUME NEW S, FlushDevices(S), NEW fn, Executing(fn), stack' = Callers,
             UNCHANGED <<taskVars, state, depVars, signalled, queueVars, recorded,
                         completionQ, callVars, fault>>
      PROVE  TypeInv'
  BY <1>1, StackTypes, FlushDevicesType, NothingCreated
  DEF TypeOK, StatesTyped, depVars, queueVars, callVars
<1>2. CASE FlushReturns
  BY <1>1, <1>2 DEF FlushReturns
<1>3. CASE FlushAllDevices
  BY <1>1, <1>3 DEF FlushAllDevices
<1>4. CASE WaitFlush
  <2> DEFINE rest(t) == <<[Head(stack) EXCEPT !.todo = @ \ {t}]>> \o Callers
  <2>1. \/ stack' = Callers
        \/ \E t \in Head(stack).todo :
             stack' = IF state[t] = Queued
                        THEN <<FlushFrame(home[t], TRUE)>> \o rest(t)
                        ELSE rest(t)
    BY <1>4 DEF WaitFlush
  <2>2. \A t \in Head(stack).todo : t \in Created /\ rest(t) \in Seq(Frames)
    BY <1>4, Rest DEF WaitFlush
  <2>3. Callers \in Seq(Frames)
    BY <1>4, StackTypes DEF WaitFlush
  <2> HIDE DEF rest
  <2>4. stack' \in Seq(Frames)
    BY <2>1, <2>2, <2>3, FlushOfTask
  <2> QED
    BY <1>4, <2>4, NothingCreated
    DEF WaitFlush, TypeOK, StatesTyped, depVars, queueVars, deviceVars, callVars
<1> QED BY <1>2, <1>3, <1>4

(* The tasks of the submission being recorded, and the one to record next. *)
LEMMA SubmissionTypes ==
  ASSUME TypeOK, NEW d \in Device, execQ[d] # <<>>
  PROVE  /\ Head(execQ[d]) \in Seq(Created)
         /\ recorded[d] < Len(Head(execQ[d])) =>
              /\ recorded[d] + 1 \in 1 .. Len(Head(execQ[d]))
              /\ Head(execQ[d])[recorded[d] + 1] \in Created
<1>1. Head(execQ[d]) \in Seq(Created) /\ recorded[d] \in Nat
  BY HeadTailProperties DEF TypeOK
<1> QED BY <1>1

(* Recording a task, successfully or not, keeps the invariant.             *)
LEMMA TypeRecord ==
  ASSUME TypeInv, NEW d \in Device, Record(d) \/ RecordFails(d)
  PROVE  TypeInv'
<1> DEFINE tasks == Head(execQ[d])
           i == recorded[d] + 1
<1> USE DEF TypeInv
<1>1. execQ[d] # <<>> /\ recorded[d] < Len(tasks)
  BY DEF Record, RecordFails
<1>2. tasks \in Seq(Created) /\ i \in 1 .. Len(tasks) /\ tasks[i] \in Created
  BY <1>1, SubmissionTypes
<1>3. CASE Record(d)
  <2>1. state' = [state EXCEPT ![tasks[i]] = Running]
    BY <1>3 DEF Record
  <2>2. StatesTyped
    BY <1>2, <2>1, CreatedTasks, Moved, Statuses
  <2>3. recorded' \in [Device -> Nat]
    BY <1>3 DEF Record, TypeOK
  <2> QED
    BY <1>3, <2>2, <2>3, NothingCreated DEF Record, TypeOK, depVars, queueVars, callVars
<1>4. CASE RecordFails(d)
  <2> DEFINE done == SubSeq(tasks, 1, i - 1)
             rest == SubSeq(tasks, i + 1, Len(tasks))
             frame == CompleteAllFrame(rest, CL_EXEC_STATUS_ERROR_FOR_EVENTS_IN_WAIT_LIST)
  <2>1. /\ execQ' = [execQ EXCEPT ![d][1] = done]
        /\ BeginComplete(tasks[i], CL_OUT_OF_RESOURCES, <<frame>>)
    BY <1>4 DEF RecordFails
  <2>2. done \in Seq(Created) /\ rest \in Seq(Created)
    BY <1>2, SubSeqProperties
  <2>3. <<frame>> \in Seq(Frames)
    BY <2>2, FrameTypes, Single, Statuses
  <2>4. execQ' \in [Device -> Seq(Seq(Created))]
    <3>1. execQ[d] \in Seq(Seq(Created)) /\ 1 \in 1 .. Len(execQ[d])
      BY <1>1 DEF TypeOK
    <3>2. [execQ[d] EXCEPT ![1] = done] \in Seq(Seq(Created))
      BY <2>2, <3>1, ExceptSeq
    <3> QED BY <2>1, <3>2 DEF TypeOK
  <2> HIDE DEF tasks, i, done, frame
  <2>5. /\ StatesTyped
        /\ queued' \in [Queue -> Seq(Created)]
        /\ outstanding' \in [Queue -> SUBSET Created]
        /\ lastTask' \in [Queue -> Created \cup {NoTask}]
        /\ lastBarrier' \in [Queue -> Created \cup {NoTask}]
        /\ stack' \in Seq(Frames)
    BY <1>2, <2>1, <2>3, BeginCompleteType, Statuses
  <2> QED
    BY <1>4, <2>4, <2>5, NothingCreated DEF RecordFails, TypeOK, depVars, callVars
<1> QED BY <1>3, <1>4

(* Every step of a device's threads keeps the invariant.                   *)
LEMMA TypeDeviceThreads ==
  ASSUME TypeInv, DeviceThreads
  PROVE  TypeInv'
<1> USE DEF TypeInv
<1>1. ASSUME NEW d \in Device, SubmitExecution(d)
      PROVE  TypeInv'
  <2>1. /\ Append(completionQ[d], Head(execQ[d])) \in Seq(Seq(Created))
        /\ Tail(execQ[d]) \in Seq(Seq(Created))
    BY <1>1, HeadTailProperties, AppendProperties DEF SubmitExecution, TypeOK
  <2>2. /\ completionQ' \in [Device -> Seq(Seq(Created))]
        /\ execQ' \in [Device -> Seq(Seq(Created))]
        /\ recorded' \in [Device -> Nat]
    BY <1>1, <2>1 DEF SubmitExecution, TypeOK
  <2> QED
    BY <1>1, <2>2, NothingCreated
    DEF SubmitExecution, TypeOK, StatesTyped, depVars, queueVars, callVars
<1>2. ASSUME NEW d \in Device, CompleteSubmission(d)
      PROVE  TypeInv'
  <2> DEFINE frame == CompleteAllFrame(Head(completionQ[d]), Complete)
  <2>1. Head(completionQ[d]) \in Seq(Created) /\ Tail(completionQ[d]) \in Seq(Seq(Created))
    BY <1>2, HeadTailProperties DEF CompleteSubmission, TypeOK
  <2>2. frame \in Frames /\ FlushAllFrame \in Frames
    BY <2>1, FrameTypes, Statuses
  <2> HIDE DEF frame
  <2>3. <<frame, FlushAllFrame>> \in Seq(Frames)
    BY <2>2
  <2>4. stack' \in Seq(Frames)
    BY <1>2, <2>3 DEF CompleteSubmission, frame
  <2>5. completionQ' \in [Device -> Seq(Seq(Created))]
    BY <1>2, <2>1 DEF CompleteSubmission, TypeOK
  <2> QED
    BY <1>2, <2>4, <2>5, NothingCreated
    DEF CompleteSubmission, TypeOK, StatesTyped, depVars, queueVars, callVars
<1> QED BY <1>1, <1>2, TypeRecord DEF DeviceThreads

(* clSetUserEventStatus keeps the invariant.                               *)
LEMMA TypeSetUserEventStatus ==
  ASSUME TypeInv, NEW u \in Task, NEW s \in UserStatus, SetUserEventStatus(u, s)
  PROVE  TypeInv'
<1> USE DEF TypeInv
<1>1. u \in Created /\ s \in Error /\ setters' \subseteq Created \X UserStatus
  BY Statuses DEF SetUserEventStatus, TypeOK
<1>2. <<FlushAllFrame>> \in Seq(Frames)
  BY FrameTypes, Single
<1>3. BeginComplete(u, s, <<FlushAllFrame>>)
  BY DEF SetUserEventStatus
<1>4. /\ StatesTyped
      /\ queued' \in [Queue -> Seq(Created)]
      /\ outstanding' \in [Queue -> SUBSET Created]
      /\ lastTask' \in [Queue -> Created \cup {NoTask}]
      /\ lastBarrier' \in [Queue -> Created \cup {NoTask}]
      /\ stack' \in Seq(Frames)
  BY <1>1, <1>2, <1>3, BeginCompleteType
<1> QED
  BY <1>1, <1>4, NothingCreated DEF SetUserEventStatus, TypeOK, depVars, deviceVars

(* Every step keeps the invariant.                                         *)
LEMMA TypeStep == TypeInv /\ [Next]_vars => TypeInv'
<1> SUFFICES ASSUME TypeInv, [Next]_vars PROVE TypeInv'
  OBVIOUS
<1>1. CASE UNCHANGED vars
  BY <1>1, NothingCreated
  DEF vars, TypeInv, TypeOK, StatesTyped, depVars, queueVars, deviceVars, callVars
<1>2. CASE Next
  BY <1>2, TypeApplication, TypeFlushTask, TypeSubmit, TypeReady, TypeComplete,
     TypeFlushes, TypeSetUserEventStatus, TypeDeviceThreads
  DEF Next, LockHolder
<1> QED BY <1>1, <1>2

(* The task pool keeps its types: for any number of tasks, queues and      *)
(* devices, every reference is to a task that exists, every recursive      *)
(* flush has a queue to flush and Complete is given no positive error.     *)
THEOREM TypeCorrect == Spec => []TypeOK
<1>1. Spec => []TypeInv
  BY TypeInit, TypeStep, PTL DEF Spec
<1>2. TypeInv => TypeOK
  BY DEF TypeInv
<1> QED BY <1>1, <1>2, PTL

-----------------------------------------------------------------------------
(* The inductive invariant *)

\* A queue holds its own tasks, oldest first.
QueuesOrdered ==
  \A q \in Queue :
    /\ \A i, j \in 1 .. Len(queued[q]) : i < j => queued[q][i] < queued[q][j]
    /\ \A t \in ToSet(queued[q]) : home[t] = q

\* A Queued task is in its queue.
QueuedInQueue ==
  \A q \in Queue : \A t \in Task :
    home[t] = q /\ state[t] = Queued => t \in ToSet(queued[q])

\* Dependencies are older than the task that has them.
WaitsForOlder == \A t \in Task : \A u \in waitOn[t] : u < t

\* A task being submitted is older than what its queue still holds, and
\* younger than the dependencies it has yet to look at.
InOrder(f) ==
  f.fn = "SubmitTask" =>
    /\ home[f.task] \in Queue
    /\ \A u \in f.todo : u < f.task
    /\ \A u \in ToSet(queued[home[f.task]]) : f.task < u

FramesInOrder == \A f \in ToSet(stack) : InOrder(f)

QueueInv ==
  /\ TypeInv /\ LastPointersLive
  /\ QueuesOrdered /\ QueuedInQueue /\ WaitsForOlder
  /\ FramesInOrder

-----------------------------------------------------------------------------
(* Steps that put no task into a queue *)

\* What such a step does to queues and states ...
QueuesKept ==
  /\ LastPointersLive'
  /\ \A q \in Queue :
       /\ \A i, j \in 1 .. Len(queued'[q]) : i < j => queued'[q][i] < queued'[q][j]
       /\ ToSet(queued'[q]) \subseteq ToSet(queued[q])
       /\ \A t \in ToSet(queued[q]) : t \in ToSet(queued'[q]) \/ state'[t] # Queued
  /\ \A t \in Task : state'[t] = Queued => state[t] = Queued

\* ... and to the call stack: no new call of SubmitTask.
StackKept ==
  \A f \in ToSet(stack') : f \in ToSet(stack) \/ f.fn # "SubmitTask"

(* A step that keeps queues and call stack in order keeps the invariant.   *)
LEMMA NothingQueued ==
  ASSUME QueueInv, TypeInv', QueuesKept, UNCHANGED home,
         \A t \in Task : waitOn'[t] \subseteq waitOn[t],
         \A f \in ToSet(stack') : f \in ToSet(stack) \/ InOrder(f)
  PROVE  QueueInv'
<1>1. QueuesOrdered'
  BY DEF QueueInv, QueuesOrdered, QueuesKept
<1>2. QueuedInQueue'
  BY DEF QueueInv, QueuedInQueue, QueuesKept
<1>3. WaitsForOlder'
  BY DEF QueueInv, WaitsForOlder
<1>4. ASSUME NEW f \in ToSet(stack')
      PROVE  InOrder(f)'
  <2>1. InOrder(f)
    BY DEF QueueInv, FramesInOrder
  <2> QED BY <2>1 DEF InOrder, QueuesKept
<1> QED BY <1>1, <1>2, <1>3, <1>4 DEF QueueInv, FramesInOrder, QueuesKept

(* The same when SubmitTask is not called.                                 *)
LEMMA NothingSubmitted ==
  ASSUME QueueInv, TypeInv', QueuesKept, UNCHANGED home,
         \A t \in Task : waitOn'[t] \subseteq waitOn[t], StackKept
  PROVE  QueueInv'
BY NothingQueued DEF StackKept, InOrder

(* Queues that do not change are kept, when no task becomes Queued.        *)
LEMMA SameQueues ==
  ASSUME QueueInv, UNCHANGED <<queued, outstanding, lastTask, lastBarrier>>,
         \A t \in Task : state'[t] = Queued => state[t] = Queued
  PROVE  QueuesKept
BY DEF QueueInv, QueuesKept, QueuesOrdered, LastPointersLive

(* Giving one task a status other than Queued makes no task Queued.        *)
LEMMA NewStatus ==
  ASSUME TypeOK, NEW t \in Task, NEW s, s # Queued, state' = [state EXCEPT ![t] = s]
  PROVE  /\ state'[t] # Queued
         /\ \A u \in Task : state'[u] = Queued => state[u] = Queued
BY DEF TypeOK

(* The entries of a stack with a frame pushed.                             *)
LEMMA Pushed ==
  ASSUME NEW S, NEW s \in Seq(S), NEW g \in S
  PROVE  ToSet(<<g>> \o s) = {g} \cup ToSet(s)
<1>1. /\ <<g>> \o s \in Seq(S) /\ Len(<<g>> \o s) = Len(s) + 1
      /\ \A i \in 1 .. Len(s) + 1 : (<<g>> \o s)[i] = IF i = 1 THEN g ELSE s[i - 1]
  OBVIOUS
<1>2. ASSUME NEW f \in ToSet(<<g>> \o s)
      PROVE  f \in {g} \cup ToSet(s)
  BY <1>1 DEF ToSet
<1>3. ASSUME NEW f \in ToSet(s)
      PROVE  f \in ToSet(<<g>> \o s)
  <2>1. PICK i \in 1 .. Len(s) : s[i] = f
    BY DEF ToSet
  <2>2. i + 1 \in 1 .. Len(s) + 1 /\ (<<g>> \o s)[i + 1] = f
    BY <1>1, <2>1
  <2> QED BY <1>1, <2>2, EntryInSet
<1>4. g \in ToSet(<<g>> \o s)
  <2>1. 1 \in 1 .. Len(<<g>> \o s) /\ (<<g>> \o s)[1] = g
    BY <1>1
  <2> QED BY <1>1, <2>1, EntryInSet
<1> QED BY <1>2, <1>3, <1>4

(* Those of a sequence that is not empty, and of what is left without its  *)
(* first entry.                                                            *)
LEMMA Popped ==
  ASSUME NEW S, NEW s \in Seq(S), s # <<>>
  PROVE  /\ Tail(s) \in Seq(S) /\ Len(Tail(s)) = Len(s) - 1 /\ Len(s) \in Nat \ {0}
         /\ \A i \in 1 .. Len(s) - 1 : Tail(s)[i] = s[i + 1]
         /\ Head(s) = s[1] /\ Head(s) \in S
         /\ ToSet(s) = {Head(s)} \cup ToSet(Tail(s))
<1>1. /\ Tail(s) \in Seq(S) /\ Len(Tail(s)) = Len(s) - 1 /\ Len(s) \in Nat \ {0}
      /\ \A i \in 1 .. Len(s) - 1 : Tail(s)[i] = s[i + 1]
      /\ Head(s) = s[1] /\ Head(s) \in S
  OBVIOUS
<1>2. Head(s) \in ToSet(s)
  BY <1>1, EntryInSet
<1>3. ASSUME NEW f \in ToSet(Tail(s))
      PROVE  f \in ToSet(s)
  <2>1. PICK i \in 1 .. Len(s) - 1 : Tail(s)[i] = f
    BY <1>1 DEF ToSet
  <2>2. i + 1 \in 1 .. Len(s) /\ s[i + 1] = f
    BY <1>1, <2>1
  <2> QED BY <2>2, EntryInSet
<1>4. ASSUME NEW f \in ToSet(s), f # Head(s)
      PROVE  f \in ToSet(Tail(s))
  <2>1. PICK i \in 1 .. Len(s) : s[i] = f
    BY DEF ToSet
  <2>2. i - 1 \in 1 .. Len(Tail(s)) /\ Tail(s)[i - 1] = f
    BY <1>1, <1>4, <2>1
  <2> QED BY <1>1, <2>2, EntryInSet
<1> QED BY <1>1, <1>2, <1>3, <1>4

(* Removing an entry of an ordered sequence leaves it ordered.             *)
LEMMA WithoutOrdered ==
  ASSUME NEW S \in SUBSET Int, NEW s \in Seq(S), NEW x,
         \A i, j \in 1 .. Len(s) : i < j => s[i] < s[j]
  PROVE  LET w == Without(s, x) IN
         \A i, j \in 1 .. Len(w) : i < j => w[i] < w[j]
<1> DEFINE w == Without(s, x)
<1>1. CASE x \notin ToSet(s)
  BY <1>1 DEF Without
<1>2. CASE x \in ToSet(s)
  <2>1. PICK k \in 1 .. Len(s) :
          /\ s[k] = x
          /\ w \in Seq(S) /\ Len(w) = Len(s) - 1
          /\ \A i \in 1 .. Len(s) - 1 : w[i] = IF i < k THEN s[i] ELSE s[i + 1]
    BY <1>2, WithoutEntries
  <2> HIDE DEF w
  <2>2. ASSUME NEW i \in 1 .. Len(w), NEW j \in 1 .. Len(w), i < j
        PROVE  w[i] < w[j]
    <3> DEFINE a == IF i < k THEN i ELSE i + 1
               b == IF j < k THEN j ELSE j + 1
    <3>1. Len(s) \in Nat /\ i \in 1 .. Len(s) - 1 /\ j \in 1 .. Len(s) - 1
      BY <2>1
    <3>2. a \in 1 .. Len(s) /\ b \in 1 .. Len(s) /\ a < b
      BY <2>1, <2>2, <3>1
    <3>3. w[i] = s[a] /\ w[j] = s[b]
      BY <2>1, <3>1
    <3> HIDE DEF a, b
    <3> QED BY <3>2, <3>3
  <2> QED BY <2>2 DEF w
<1> QED BY <1>1, <1>2

(* The entries of a sequence with one appended.                            *)
LEMMA AppendedSet ==
  ASSUME NEW S, NEW s \in Seq(S), NEW x
  PROVE  ToSet(Append(s, x)) = ToSet(s) \cup {x}
<1>1. /\ Len(Append(s, x)) = Len(s) + 1 /\ Len(s) \in Nat
      /\ \A i \in 1 .. Len(s) : Append(s, x)[i] = s[i]
      /\ Append(s, x)[Len(s) + 1] = x
  OBVIOUS
<1> QED BY <1>1 DEF ToSet

(* NotifyTaskCompletion takes t out of the queues and out of the pointers. *)
LEMMA NotifyKept ==
  ASSUME QueueInv, NEW t \in Created, NotifyTaskCompletion(t),
         state'[t] # Queued, \A u \in Task : state'[u] = Queued => state[u] = Queued
  PROVE  QueuesKept
<1>1. ASSUME NEW q \in Queue
      PROVE  /\ \A i, j \in 1 .. Len(queued'[q]) : i < j => queued'[q][i] < queued'[q][j]
             /\ ToSet(queued'[q]) \subseteq ToSet(queued[q])
             /\ ToSet(queued[q]) \ {t} \subseteq ToSet(queued'[q])
  <2>1. /\ queued[q] \in Seq(Created) /\ Created \subseteq Int
        /\ \A i, j \in 1 .. Len(queued[q]) : i < j => queued[q][i] < queued[q][j]
    BY DEF QueueInv, TypeInv, TypeOK, QueuesOrdered, Created
  <2>2. CASE queued'[q] = queued[q]
    BY <2>1, <2>2
  <2>3. CASE queued'[q] = Without(queued[q], t)
    BY <2>1, <2>3, WithoutType, WithoutOrdered
  <2>4. queued'[q] = queued[q] \/ queued'[q] = Without(queued[q], t)
    BY DEF NotifyTaskCompletion
  <2> QED BY <2>2, <2>3, <2>4
<1>2. LastPointersLive'
  <2>1. ASSUME NEW q \in Queue, NEW u \in {lastTask'[q], lastBarrier'[q]} \ {NoTask}
        PROVE  u \in ToSet(queued'[q]) \/ u \in outstanding'[q]
    <3>1. u # t /\ u \in {lastTask[q], lastBarrier[q]} \ {NoTask}
      BY <2>1 DEF NotifyTaskCompletion
    <3>2. u \in ToSet(queued[q]) \/ u \in outstanding[q]
      BY <3>1 DEF QueueInv, LastPointersLive
    <3> QED BY <1>1, <3>1, <3>2 DEF NotifyTaskCompletion
  <2> QED BY <2>1 DEF LastPointersLive
<1> QED BY <1>1, <1>2 DEF QueuesKept

(* The first part of Task::Complete keeps the queues, and calls no         *)
(* SubmitTask.                                                             *)
LEMMA CompleteKept ==
  ASSUME QueueInv, NEW t \in Created, NEW error \in Error, NEW callers \in Seq(Frames),
         BeginComplete(t, error, callers)
  PROVE  /\ QueuesKept
         /\ \A f \in ToSet(stack') : f \in ToSet(callers) \/ f.fn # "SubmitTask"
<1>1. CASE Finished(t)
  BY <1>1, SameQueues DEF BeginComplete, queueVars
<1>2. CASE ~Finished(t)
  <2>1. /\ state' = [state EXCEPT ![t] = error]
        /\ NotifyTaskCompletion(t)
        /\ stack' = <<CompleteFrame(t, error, waiters[t])>> \o callers
    BY <1>2 DEF BeginComplete
  <2>2. t \in Task /\ TypeOK /\ error # Queued
    BY CreatedTasks, Statuses DEF QueueInv, TypeInv
  <2>3. QueuesKept
    BY <2>1, <2>2, NewStatus, NotifyKept
  <2>4. CompleteFrame(t, error, waiters[t]) \in Frames
    BY <2>2, FrameTypes DEF TypeOK
  <2>5. ToSet(stack') = {CompleteFrame(t, error, waiters[t])} \cup ToSet(callers)
    BY <2>1, <2>4, Pushed
  <2> QED BY <2>3, <2>5 DEF CompleteFrame
<1> QED BY <1>1, <1>2

(* The first part of Task::Ready likewise.                                 *)
LEMMA ReadyKept ==
  ASSUME QueueInv, NEW t \in Created, NEW callers \in Seq(Frames), BeginReady(t, callers)
  PROVE  /\ state'[t] # Queued
         /\ \A u \in Task : state'[u] = Queued => state[u] = Queued
         /\ \A f \in ToSet(stack') : f \in ToSet(callers) \/ f.fn # "SubmitTask"
<1>1. t \in Task /\ TypeOK /\ Ready # Queued
  BY CreatedTasks, Statuses DEF QueueInv, TypeInv
<1>2. ReadyFrame(t, waiters[t]) \in Frames
  BY <1>1, FrameTypes DEF TypeOK
<1>3. ToSet(stack') = {ReadyFrame(t, waiters[t])} \cup ToSet(callers)
  BY <1>2, Pushed DEF BeginReady
<1>4. /\ state'[t] # Queued
      /\ \A u \in Task : state'[u] = Queued => state[u] = Queued
  BY <1>1, NewStatus DEF BeginReady
<1> QED BY <1>3, <1>4 DEF ReadyFrame

(* Removing a dependency likewise; no task gets a new one.                 *)
LEMMA PruneKept ==
  ASSUME QueueInv, NEW t, NEW d \in Created, NEW callers \in Seq(Frames),
         Prune(t, d, callers)
  PROVE  /\ \A u \in Task : state'[u] = Queued => state[u] = Queued
         /\ \A u \in Task : waitOn'[u] \subseteq waitOn[u]
         /\ \A f \in ToSet(stack') : f \in ToSet(callers) \/ f.fn # "SubmitTask"
<1>1. \A u \in Task : waitOn'[u] \subseteq waitOn[u]
  BY DEF Prune, QueueInv, TypeInv, TypeOK
<1>2. \/ BeginReady(d, callers)
      \/ stack' = callers /\ UNCHANGED state
  BY DEF Prune
<1> QED BY <1>1, <1>2, ReadyKept

(* Shortening a frame's list leaves its function.                          *)
LEMMA SameFunction ==
  ASSUME NEW f \in Frames, NEW T,
         f.fn \in {"SubmitTask", "Ready", "Complete", "clWaitForEvents"}
  PROVE  [f EXCEPT !.todo = T].fn = f.fn
<1>1. CASE f \in [fn : {"SubmitTask"}, task : Created, deps : SUBSET Created, todo : SUBSET Created]
  BY <1>1
<1>2. CASE f \in [fn : {"Ready"}, task : Created, todo : SUBSET Created]
  BY <1>2
<1>3. CASE f \in [fn : {"Complete"}, task : Created, error : Error, todo : SUBSET Created]
  BY <1>3
<1>4. CASE f \in [fn : {"clWaitForEvents"}, todo : SUBSET Created]
  BY <1>4
<1> QED BY <1>1, <1>2, <1>3, <1>4 DEF Frames

(* The innermost frame with an entry of its list done, on top of its       *)
(* callers.                                                                *)
LEMMA RestFrames ==
  ASSUME TypeOK, NEW fn \in {"SubmitTask", "Ready", "Complete", "clWaitForEvents"},
         Executing(fn), NEW u \in Head(stack).todo
  PROVE  LET rest == [Head(stack) EXCEPT !.todo = @ \ {u}] IN
         /\ ToSet(<<rest>> \o Callers) = {rest} \cup ToSet(Callers)
         /\ ToSet(Callers) \subseteq ToSet(stack) /\ Head(stack) \in ToSet(stack)
         /\ rest.fn = fn
<1>1. Head(stack) \in Frames /\ Head(stack).fn = fn /\ Callers \in Seq(Frames)
  BY StackTypes
<1>2. /\ [Head(stack) EXCEPT !.todo = @ \ {u}] \in Frames
      /\ [Head(stack) EXCEPT !.todo = @ \ {u}].fn = fn
  <2>1. Head(stack).todo \ {u} \in SUBSET Created
    BY <1>1, FrameFields
  <2>2. [Head(stack) EXCEPT !.todo = @ \ {u}] \in Frames
    BY <1>1, FrameFields
  <2>3. [Head(stack) EXCEPT !.todo = @ \ {u}].fn = Head(stack).fn
    BY <1>1, SameFunction
  <2> QED BY <1>1, <2>2, <2>3
<1>3. /\ ToSet(Callers) \subseteq ToSet(stack) /\ Head(stack) \in ToSet(stack)
  BY <1>1, Popped DEF Executing, Callers, TypeOK
<1>4. \A g \in Frames : ToSet(<<g>> \o Callers) = {g} \cup ToSet(Callers)
  BY <1>1, Pushed
<1> QED BY <1>2, <1>3, <1>4

(* A call that returns leaves the callers.                                 *)
LEMMA Returned ==
  ASSUME TypeOK, NEW fn, Executing(fn)
  PROVE  ToSet(Callers) \subseteq ToSet(stack)
BY StackTypes, Popped DEF Executing, Callers, TypeOK

(* A call stack of one or two frames.                                      *)
LEMMA FewFrames ==
  ASSUME NEW g, NEW h
  PROVE  ToSet(<<g>>) = {g} /\ ToSet(<<g, h>>) = {g, h}
BY DEF ToSet

(* Shortening the list of a SubmitTask frame leaves its task.              *)
LEMMA SubmitFields ==
  ASSUME NEW f \in Frames, f.fn = "SubmitTask", NEW T
  PROVE  [f EXCEPT !.todo = T].task = f.task /\ [f EXCEPT !.todo = T].todo = T
<1>1. f \in [fn : {"SubmitTask"}, task : Created, deps : SUBSET Created, todo : SUBSET Created]
  BY DEF Frames
<1> QED BY <1>1

-----------------------------------------------------------------------------
(* The application's calls *)

(* A clEnqueue* call appends the youngest task to a queue; nobody holds    *)
(* the lock, so nothing is being submitted.                                *)
LEMMA QueueEnqueue ==
  ASSUME QueueInv, TypeInv', NEW q \in Queue, NEW command, NEW W \in SUBSET Created,
         Enqueue(q, command, W)
  PROVE  QueueInv'
<1> DEFINE t == created + 1
           sweep == command # "task" /\ W = {}
           deps == LinkedTo((IF sweep THEN AllTasksOf(q) ELSE W)
                      \cup ({lastTask[q], lastBarrier[q]} \ {NoTask}), DeviceOf[q])
<1>1. /\ created < NumTasks /\ created' = t
      /\ home' = [home EXCEPT ![t] = q]
      /\ waitOn' = [waitOn EXCEPT ![t] = deps]
      /\ queued' = [queued EXCEPT ![q] = Append(@, t)]
      /\ lastTask' \in {lastTask, [lastTask EXCEPT ![q] = t]}
      /\ lastBarrier' \in {lastBarrier, [lastBarrier EXCEPT ![q] = t]}
      /\ stack = <<>>
      /\ UNCHANGED <<state, outstanding, stack>>
  BY DEF Enqueue, LockFree
<1>2. TypeOK /\ t \in Task /\ t \in Nat /\ \A u \in Created : u \in Nat /\ u < t
  <2>1. TypeOK
    BY DEF QueueInv, TypeInv
  <2>2. created \in Nat /\ created < NumTasks /\ NumTasks \in Nat
    BY <1>1, <2>1, TaskPoolAssumption DEF TypeOK
  <2> QED BY <2>1, <2>2 DEF Task, Created
<1>3. queued[q] \in Seq(Created) /\ Created \subseteq Int /\ t \notin Created
  BY <1>2 DEF TypeOK
<1>4. deps \subseteq Created
  <2>1. ToSet(queued[q]) \subseteq Created
    BY <1>3 DEF ToSet
  <2>2. {lastTask[q], lastBarrier[q]} \ {NoTask} \subseteq Created
    BY <1>2 DEF TypeOK
  <2> QED BY <1>2, <2>1, <2>2 DEF LinkedTo, AllTasksOf, TypeOK
<1> HIDE DEF t, deps
<1>5. ToSet(Append(queued[q], t)) = ToSet(queued[q]) \cup {t}
  BY <1>3, AppendedSet
<1>6. /\ \A p \in Queue : queued'[p] = IF p = q THEN Append(queued[q], t) ELSE queued[p]
      /\ \A p \in Queue : lastTask'[p] \in {lastTask[p], t} /\ (p # q => lastTask'[p] = lastTask[p])
      /\ \A p \in Queue :
           lastBarrier'[p] \in {lastBarrier[p], t} /\ (p # q => lastBarrier'[p] = lastBarrier[p])
      /\ \A u \in Task : home'[u] = IF u = t THEN q ELSE home[u]
      /\ \A u \in Task : waitOn'[u] = IF u = t THEN deps ELSE waitOn[u]
  BY <1>1, <1>2 DEF TypeOK
<1>7. LastPointersLive'
  BY <1>1, <1>5, <1>6 DEF QueueInv, LastPointersLive
<1>8. ASSUME NEW p \in Queue
      PROVE  /\ \A i, j \in 1 .. Len(queued'[p]) : i < j => queued'[p][i] < queued'[p][j]
             /\ \A u \in ToSet(queued'[p]) : home'[u] = p
  <2>1. /\ \A i, j \in 1 .. Len(queued[p]) : i < j => queued[p][i] < queued[p][j]
        /\ \A u \in ToSet(queued[p]) : home[u] = p
        /\ queued[p] \in Seq(Created)
    BY <1>2 DEF QueueInv, QueuesOrdered, TypeOK
  <2>2. ToSet(queued[p]) \subseteq Created /\ Created \subseteq Task
    BY <1>2, <2>1, CreatedTasks DEF ToSet
  <2>3. \A u \in ToSet(queued'[p]) : home'[u] = p
    <3>1. \A u \in Created : u \in Task /\ u # t
      BY <1>3, <2>2
    <3>2. ToSet(queued'[p]) \subseteq ToSet(queued[p]) \cup (IF p = q THEN {t} ELSE {})
      BY <1>5, <1>6
    <3> QED BY <1>2, <1>6, <2>1, <2>2, <3>1, <3>2
  <2>4. \A i, j \in 1 .. Len(queued'[p]) : i < j => queued'[p][i] < queued'[p][j]
    <3>1. CASE p # q
      BY <1>6, <2>1, <3>1
    <3>2. CASE p = q
      <4>1. /\ Len(queued'[p]) = Len(queued[p]) + 1 /\ Len(queued[p]) \in Nat
            /\ \A i \in 1 .. Len(queued[p]) :
                 queued'[p][i] = queued[p][i] /\ queued[p][i] \in Created
            /\ queued'[p][Len(queued[p]) + 1] = t
        <5>1. queued'[p] = Append(queued[p], t)
          BY <1>6, <3>2
        <5> QED BY <2>1, <5>1
      <4>2. ASSUME NEW i \in 1 .. Len(queued'[p]), NEW j \in 1 .. Len(queued'[p]), i < j
            PROVE  queued'[p][i] < queued'[p][j]
        <5>1. i \in 1 .. Len(queued[p])
          BY <4>1, <4>2
        <5>2. CASE j \in 1 .. Len(queued[p])
          BY <2>1, <4>1, <4>2, <5>1, <5>2
        <5>3. CASE j = Len(queued[p]) + 1
          BY <1>2, <4>1, <5>1, <5>3
        <5> QED BY <4>1, <5>2, <5>3
      <4> QED BY <4>2
    <3> QED BY <3>1, <3>2
  <2> QED BY <2>3, <2>4
<1>9. QueuesOrdered'
  BY <1>8 DEF QueuesOrdered
<1>10. QueuedInQueue'
  BY <1>1, <1>5, <1>6 DEF QueueInv, QueuedInQueue
<1>11. WaitsForOlder'
  BY <1>2, <1>4, <1>6 DEF QueueInv, WaitsForOlder
<1>12. FramesInOrder'
  BY <1>1 DEF FramesInOrder, ToSet
<1> QED BY <1>7, <1>9, <1>10, <1>11, <1>12 DEF QueueInv

(* Every application call keeps the invariant.                             *)
LEMMA QueueApplication ==
  ASSUME QueueInv, TypeInv', Application
  PROVE  QueueInv'
<1>1. CASE CreateUserEvent
  <2>1. created + 1 \in Task /\ TypeOK
    BY <1>1, TaskPoolAssumption DEF CreateUserEvent, QueueInv, TypeInv, TypeOK, Task
  <2>2. \A u \in Task : state'[u] = Queued => state[u] = Queued
    BY <1>1, <2>1, NewStatus, Statuses DEF CreateUserEvent
  <2>3. QueuesKept
    BY <1>1, <2>2, SameQueues DEF CreateUserEvent, queueVars
  <2> QED
    BY <1>1, <2>3, NothingSubmitted DEF CreateUserEvent, StackKept, depVars
<1>2. ASSUME NEW q \in Queue, ClFlush(q)
      PROVE  QueueInv'
  <2>1. QueuesKept
    BY <1>2, SameQueues DEF ClFlush, queueVars
  <2>2. StackKept
    <3>1. ToSet(stack') = {FlushFrame(q, TRUE)}
      BY <1>2, FewFrames DEF ClFlush
    <3> QED BY <3>1 DEF StackKept, FlushFrame
  <2> QED BY <1>2, <2>1, <2>2, NothingSubmitted DEF ClFlush, depVars, taskVars
<1>3. ASSUME NEW W \in SUBSET Created, ClWaitForEvents(W)
      PROVE  QueueInv'
  <2>1. QueuesKept
    BY <1>3, SameQueues DEF ClWaitForEvents, queueVars
  <2>2. StackKept
    <3>1. ToSet(stack') = {WaitFrame({t \in W : state[t] = Queued})}
      BY <1>3, FewFrames DEF ClWaitForEvents
    <3> QED BY <3>1 DEF StackKept, WaitFrame
  <2> QED BY <1>3, <2>1, <2>2, NothingSubmitted DEF ClWaitForEvents, depVars, taskVars
<1>4. ASSUME NEW u \in Task, NEW s \in UserStatus, SetUserEventStatusCheck(u, s)
      PROVE  QueueInv'
  <2>1. QueuesKept
    BY <1>4, SameQueues DEF SetUserEventStatusCheck, queueVars
  <2> QED
    BY <1>4, <2>1, NothingSubmitted
    DEF SetUserEventStatusCheck, StackKept, depVars, taskVars
<1> QED
  BY <1>1, <1>2, <1>3, <1>4, QueueEnqueue
  DEF Application, EnqueueCommand, EnqueueMarkerWithWaitList, EnqueueBarrierWithWaitList

-----------------------------------------------------------------------------
(* The lock holder *)

(* Moving a queue's oldest task to the device: what is left is younger.    *)
LEMMA QueueFlushTask ==
  ASSUME QueueInv, TypeInv', FlushTask
  PROVE  QueueInv'
<1> DEFINE q == Head(stack).queue
           t == Head(queued[q])
           new == SubmitFrame(t, waitOn[t], waitOn[t])
<1>1. TypeOK /\ stack \in Seq(Frames) /\ q \in Queue
  BY StackTypes, FrameFields DEF FlushTask, QueueInv, TypeInv, TypeOK
<1>2. /\ queued[q] # <<>>
      /\ queued' = [queued EXCEPT ![q] = Tail(@)]
      /\ outstanding' = [outstanding EXCEPT ![q] = @ \cup {t}]
      /\ \/ BeginReady(t, stack)
         \/ /\ state' = [state EXCEPT ![t] = Submitted]
            /\ stack' = <<new>> \o stack
      /\ UNCHANGED <<home, waitOn, lastTask, lastBarrier>>
  BY DEF FlushTask, taskVars, depVars
<1>3. /\ queued[q] \in Seq(Created) /\ Created \subseteq Int
      /\ \A i, j \in 1 .. Len(queued[q]) : i < j => queued[q][i] < queued[q][j]
      /\ \A u \in ToSet(queued[q]) : home[u] = q
  BY <1>1 DEF TypeOK, Created, QueueInv, QueuesOrdered
<1>4. /\ Tail(queued[q]) \in Seq(Created) /\ Len(Tail(queued[q])) = Len(queued[q]) - 1
      /\ Len(queued[q]) \in Nat \ {0} /\ t = queued[q][1] /\ t \in Created
      /\ \A i \in 1 .. Len(queued[q]) - 1 : Tail(queued[q])[i] = queued[q][i + 1]
      /\ ToSet(queued[q]) = {t} \cup ToSet(Tail(queued[q]))
  <2>1. queued[q] # <<>>
    BY <1>2
  <2> QED BY <1>3, <2>1, Popped
<1>5. t \in Task /\ home[t] = q
  BY <1>1, <1>3, <1>4, CreatedTasks
<1> HIDE DEF t
<1>6. \A u \in ToSet(Tail(queued[q])) : t < u
  <2> SUFFICES ASSUME NEW u \in ToSet(Tail(queued[q])) PROVE t < u
    OBVIOUS
  <2>1. PICK i \in 1 .. Len(queued[q]) - 1 : queued[q][i + 1] = u
    BY <1>4 DEF ToSet
  <2>2. 1 \in 1 .. Len(queued[q]) /\ i + 1 \in 1 .. Len(queued[q]) /\ 1 < i + 1
    BY <1>4
  <2> QED BY <1>3, <1>4, <2>1, <2>2
<1>7. \A i, j \in 1 .. Len(Tail(queued[q])) :
        i < j => Tail(queued[q])[i] < Tail(queued[q])[j]
  <2> SUFFICES ASSUME NEW i \in 1 .. Len(queued[q]) - 1, NEW j \in 1 .. Len(queued[q]) - 1,
                      i < j
               PROVE  queued[q][i + 1] < queued[q][j + 1]
    BY <1>4
  <2>1. /\ i + 1 \in 1 .. Len(queued[q]) /\ j + 1 \in 1 .. Len(queued[q])
        /\ i + 1 < j + 1
    BY <1>4
  <2> QED BY <1>3, <2>1
<1>8. /\ state'[t] # Queued
      /\ \A u \in Task : state'[u] = Queued => state[u] = Queued
      /\ \A f \in ToSet(stack') : f \in ToSet(stack) \/ f.fn # "SubmitTask" \/ f = new
  <2>1. CASE BeginReady(t, stack)
    BY <1>1, <1>4, <1>5, <2>1, ReadyKept
  <2>2. CASE state' = [state EXCEPT ![t] = Submitted] /\ stack' = <<new>> \o stack
    <3>1. new \in Frames
      BY <1>1, <1>4, <1>5, FrameTypes DEF TypeOK
    <3> HIDE DEF new
    <3>2. ToSet(stack') = {new} \cup ToSet(stack)
      BY <1>1, <2>2, <3>1, Pushed
    <3> QED BY <1>1, <1>5, <2>2, <3>2, NewStatus, Statuses
  <2> QED BY <1>2, <2>1, <2>2
<1>9. \A p \in Queue :
         /\ queued'[p] = IF p = q THEN Tail(queued[q]) ELSE queued[p]
         /\ outstanding'[p] = IF p = q THEN outstanding[q] \cup {t} ELSE outstanding[p]
  BY <1>1, <1>2 DEF TypeOK
<1> HIDE DEF q, new
<1>10. QueuesKept
  <2>1. LastPointersLive'
    BY <1>2, <1>4, <1>9 DEF QueueInv, LastPointersLive
  <2>2. ASSUME NEW p \in Queue
        PROVE  /\ \A i, j \in 1 .. Len(queued'[p]) : i < j => queued'[p][i] < queued'[p][j]
               /\ ToSet(queued'[p]) \subseteq ToSet(queued[p])
               /\ \A u \in ToSet(queued[p]) : u \in ToSet(queued'[p]) \/ state'[u] # Queued
    <3>1. CASE p = q
      BY <1>4, <1>7, <1>8, <1>9, <3>1
    <3>2. CASE p # q
      BY <1>9, <3>2 DEF QueueInv, QueuesOrdered
    <3> QED BY <3>1, <3>2
  <2> QED BY <1>8, <2>1, <2>2 DEF QueuesKept
<1>11. \A f : f = new => f.task = t /\ f.todo = waitOn[t]
  BY DEF new, SubmitFrame
<1>12. ASSUME NEW f \in ToSet(stack')
       PROVE  InOrder(f)'
  <2>1. CASE f \in ToSet(stack)
    BY <1>2, <1>10, <2>1 DEF QueueInv, FramesInOrder, InOrder, QueuesKept
  <2>2. CASE f = new
    <3>1. \A u \in waitOn[t] : u < t
      BY <1>5 DEF QueueInv, WaitsForOlder
    <3> QED BY <1>1, <1>2, <1>5, <1>6, <1>9, <1>11, <2>2, <3>1 DEF InOrder
  <2>3. CASE f.fn # "SubmitTask"
    BY <2>3 DEF InOrder
  <2> QED BY <1>8, <2>1, <2>2, <2>3
<1>13. QueuesOrdered' /\ QueuedInQueue' /\ WaitsForOlder'
  BY <1>2, <1>10
  DEF QueueInv, QueuesOrdered, QueuedInQueue, WaitsForOlder, QueuesKept
<1> QED BY <1>10, <1>12, <1>13 DEF QueueInv, FramesInOrder, QueuesKept

(* SubmitTask's loop goes on with fewer dependencies, and flushes other    *)
(* queues on top.                                                          *)
LEMMA QueueSubmit ==
  ASSUME QueueInv, TypeInv', SubmitDependency \/ SubmitReturns \/ SubmitIteratorInvalid
  PROVE  QueueInv'
<1>1. /\ UNCHANGED <<taskVars, state, depVars, queueVars>>
      /\ TypeOK
  BY DEF SubmitDependency, SubmitReturns, SubmitIteratorInvalid, QueueInv, TypeInv
<1>2. QueuesKept
  BY <1>1, SameQueues DEF queueVars
<1>3. \A f \in ToSet(stack') : f \in ToSet(stack) \/ InOrder(f)
  <2>1. CASE SubmitDependency
    <3> DEFINE f == Head(stack)
               rest(u) == [f EXCEPT !.todo = @ \ {u}]
    <3>1. PICK u \in f.todo :
            stack' = IF state[u] = Queued
                       THEN <<FlushFrame(home[u], FALSE)>> \o (<<rest(u)>> \o Callers)
                       ELSE <<rest(u)>> \o Callers
      BY <2>1 DEF SubmitDependency
    <3>2. /\ u \in Created /\ <<rest(u)>> \o Callers \in Seq(Frames)
          /\ ToSet(<<rest(u)>> \o Callers) = {rest(u)} \cup ToSet(Callers)
          /\ ToSet(Callers) \subseteq ToSet(stack) /\ f \in ToSet(stack)
      BY <1>1, <2>1, Rest, RestFrames DEF SubmitDependency
    <3>3. rest(u).task = f.task /\ rest(u).todo = f.todo \ {u}
      BY <1>1, <2>1, StackTypes, SubmitFields DEF SubmitDependency
    <3>4. InOrder(rest(u))
      BY <2>1, <3>2, <3>3 DEF SubmitDependency, Executing, QueueInv, FramesInOrder, InOrder
    <3> HIDE DEF f, rest
    <3>5. CASE state[u] # Queued
      BY <3>1, <3>2, <3>4, <3>5
    <3>6. CASE state[u] = Queued
      <4>1. FlushFrame(home[u], FALSE) \in Frames
        BY <3>2, <3>6, FrameTypes DEF QueueInv, TypeInv, QueuedHasQueue
      <4>2. ToSet(stack') = {FlushFrame(home[u], FALSE)} \cup ToSet(<<rest(u)>> \o Callers)
        <5> DEFINE below == <<rest(u)>> \o Callers
        <5>1. stack' = <<FlushFrame(home[u], FALSE)>> \o below /\ below \in Seq(Frames)
          BY <3>1, <3>2, <3>6
        <5> HIDE DEF below
        <5>2. ToSet(stack') = {FlushFrame(home[u], FALSE)} \cup ToSet(below)
          BY <4>1, <5>1, Pushed
        <5> QED BY <5>2 DEF below
      <4>3. InOrder(FlushFrame(home[u], FALSE))
        BY DEF InOrder, FlushFrame
      <4> QED BY <3>2, <3>4, <4>2, <4>3
    <3> QED BY <3>5, <3>6
  <2>2. CASE SubmitReturns
    BY <1>1, <2>2, Returned DEF SubmitReturns
  <2>3. CASE SubmitIteratorInvalid
    BY <2>3 DEF SubmitIteratorInvalid
  <2> QED BY <2>1, <2>2, <2>3
<1> QED BY <1>1, <1>2, <1>3, NothingQueued DEF taskVars, depVars

(* Task::Ready's loop changes no queue and submits nothing.                *)
LEMMA QueueReady ==
  ASSUME QueueInv, TypeInv', ReadyDependent \/ ReadyReturns
  PROVE  QueueInv'
<1>1. TypeOK /\ UNCHANGED <<home, queueVars>>
  BY DEF ReadyDependent, ReadyReturns, QueueInv, TypeInv, taskVars
<1>2. /\ \A u \in Task : state'[u] = Queued => state[u] = Queued
      /\ \A u \in Task : waitOn'[u] \subseteq waitOn[u]
      /\ StackKept
  <2>1. CASE ReadyDependent
    <3> DEFINE rest(d) == [Head(stack) EXCEPT !.todo = @ \ {d}]
    <3>1. PICK d \in Head(stack).todo :
            \/ stack' = <<rest(d)>> \o Callers /\ UNCHANGED <<waitOn, state>>
            \/ Prune(Head(stack).task, d, <<rest(d)>> \o Callers)
      BY <2>1 DEF ReadyDependent
    <3>2. /\ d \in Created /\ <<rest(d)>> \o Callers \in Seq(Frames)
          /\ ToSet(<<rest(d)>> \o Callers) = {rest(d)} \cup ToSet(Callers)
          /\ ToSet(Callers) \subseteq ToSet(stack) /\ rest(d).fn = "Ready"
      BY <1>1, <2>1, Rest, RestFrames DEF ReadyDependent
    <3> DEFINE callers == <<rest(d)>> \o Callers
    <3>3. \A f \in ToSet(callers) : f \in ToSet(stack) \/ f.fn # "SubmitTask"
      BY <3>2
    <3>4. CASE stack' = callers /\ UNCHANGED <<waitOn, state>>
      BY <3>3, <3>4 DEF StackKept
    <3>5. CASE Prune(Head(stack).task, d, callers)
      <4> HIDE DEF callers
      <4> QED BY <3>2, <3>3, <3>5, PruneKept DEF StackKept, callers
    <3> QED BY <3>1, <3>4, <3>5
  <2>2. CASE ReadyReturns
    BY <1>1, <2>2, Returned DEF ReadyReturns, StackKept, depVars
  <2> QED BY <2>1, <2>2
<1>3. QueuesKept
  BY <1>1, <1>2, SameQueues DEF queueVars
<1> QED BY <1>1, <1>2, <1>3, NothingSubmitted

(* Task::Complete and the loop over a submission take tasks out of queues  *)
(* and submit nothing.                                                     *)
LEMMA QueueComplete ==
  ASSUME QueueInv, TypeInv', CompleteDependent \/ CompleteReturns \/ CompleteNext
  PROVE  QueueInv'
<1>1. TypeOK /\ UNCHANGED home
  BY DEF CompleteDependent, CompleteReturns, CompleteNext, QueueInv, TypeInv, taskVars
<1>2. /\ QueuesKept /\ StackKept
      /\ \A u \in Task : waitOn'[u] \subseteq waitOn[u]
  <2>1. CASE CompleteDependent
    <3> DEFINE f == Head(stack)
               rest(d) == [f EXCEPT !.todo = @ \ {d}]
    <3>1. PICK d \in f.todo :
            \/ f.error < 0 /\ BeginComplete(d, f.error, <<rest(d)>> \o Callers) /\ UNCHANGED waitOn
            \/ Prune(f.task, d, <<rest(d)>> \o Callers) /\ UNCHANGED queueVars
            \/ stack' = <<rest(d)>> \o Callers /\ UNCHANGED <<waitOn, state, queueVars>>
      BY <2>1 DEF CompleteDependent
    <3>2. /\ d \in Created /\ <<rest(d)>> \o Callers \in Seq(Frames)
          /\ ToSet(<<rest(d)>> \o Callers) = {rest(d)} \cup ToSet(Callers)
          /\ ToSet(Callers) \subseteq ToSet(stack) /\ rest(d).fn = "Complete"
      BY <1>1, <2>1, Rest, RestFrames DEF CompleteDependent
    <3>3. f.error \in Error
      BY <1>1, <2>1, StackTypes, FrameFields DEF CompleteDependent
    <3> DEFINE callers == <<rest(d)>> \o Callers
    <3>4. \A g \in ToSet(callers) : g \in ToSet(stack) \/ g.fn # "SubmitTask"
      BY <3>2
    <3>5. callers \in Seq(Frames)
      BY <3>2
    <3>6. \/ BeginComplete(d, f.error, callers) /\ UNCHANGED waitOn
          \/ Prune(f.task, d, callers) /\ UNCHANGED queueVars
          \/ stack' = callers /\ UNCHANGED <<waitOn, state, queueVars>>
      BY <3>1
    <3> HIDE DEF callers, f
    <3>7. CASE BeginComplete(d, f.error, callers) /\ UNCHANGED waitOn
      BY <3>2, <3>3, <3>4, <3>5, <3>7, CompleteKept DEF StackKept
    <3>8. CASE Prune(f.task, d, callers) /\ UNCHANGED queueVars
      BY <3>2, <3>4, <3>5, <3>8, PruneKept, SameQueues DEF StackKept, queueVars
    <3>9. CASE stack' = callers /\ UNCHANGED <<waitOn, state, queueVars>>
      BY <3>4, <3>9, SameQueues DEF StackKept, queueVars
    <3> QED BY <3>6, <3>7, <3>8, <3>9
  <2>2. CASE CompleteReturns
    <3>1. \A u \in Task : waitOn'[u] \subseteq waitOn[u]
      BY <1>1, <2>2 DEF CompleteReturns, TypeOK
    <3>2. QueuesKept
      BY <2>2, SameQueues DEF CompleteReturns, queueVars
    <3> QED BY <1>1, <2>2, <3>1, <3>2, Returned DEF CompleteReturns, StackKept
  <2>3. CASE CompleteNext
    <3> DEFINE f == Head(stack)
               rest == [f EXCEPT !.tasks = Tail(@)]
    <3>1. \/ stack' = Callers /\ UNCHANGED <<state, queueVars>>
          \/ f.tasks # <<>> /\ BeginComplete(Head(f.tasks), f.error, <<rest>> \o Callers)
      BY <2>3 DEF CompleteNext
    <3>2. /\ f \in Frames /\ f.fn = "CompleteAll" /\ Callers \in Seq(Frames)
          /\ f.tasks \in Seq(Created) /\ f.error \in Error
      BY <1>1, <2>3, StackTypes, FrameFields DEF CompleteNext
    <3>3. ToSet(Callers) \subseteq ToSet(stack)
      BY <1>1, <2>3, Returned DEF CompleteNext
    <3>4. UNCHANGED waitOn
      BY <2>3 DEF CompleteNext, depVars
    <3>5. CASE stack' = Callers /\ UNCHANGED <<state, queueVars>>
      BY <3>3, <3>4, <3>5, SameQueues DEF StackKept, queueVars
    <3>6. CASE f.tasks # <<>> /\ BeginComplete(Head(f.tasks), f.error, <<rest>> \o Callers)
      <4>1. Head(f.tasks) \in Created /\ Tail(f.tasks) \in Seq(Created)
        BY <3>2, <3>6, HeadTailProperties
      <4>2. rest \in Frames
        BY <3>2, <4>1, FrameFields
      <4>3. rest.fn # "SubmitTask"
        <5>1. f \in [fn : {"CompleteAll"}, tasks : Seq(Created), error : Error]
          BY <3>2 DEF Frames
        <5> QED BY <5>1
      <4> HIDE DEF rest, f
      <4> DEFINE callers == <<rest>> \o Callers
      <4>4. callers \in Seq(Frames) /\ ToSet(callers) = {rest} \cup ToSet(Callers)
        BY <3>2, <4>2, Push, Pushed
      <4>5. \A g \in ToSet(callers) : g \in ToSet(stack) \/ g.fn # "SubmitTask"
        BY <3>3, <4>3, <4>4
      <4>6. BeginComplete(Head(f.tasks), f.error, callers)
        BY <3>6
      <4> HIDE DEF callers
      <4> QED BY <3>2, <3>4, <4>1, <4>4, <4>5, <4>6, CompleteKept DEF StackKept
    <3> QED BY <3>1, <3>5, <3>6
  <2> QED BY <2>1, <2>2, <2>3
<1> QED BY <1>1, <1>2, NothingSubmitted

(* The remaining steps of flushes submit nothing.                          *)
LEMMA QueueFlushes ==
  ASSUME QueueInv, TypeInv', FlushReturns \/ FlushAllDevices \/ WaitFlush
  PROVE  QueueInv'
<1>1. TypeOK /\ UNCHANGED <<taskVars, state, depVars, queueVars>>
  BY DEF FlushReturns, FlushAllDevices, WaitFlush, QueueInv, TypeInv
<1>2. QueuesKept
  BY <1>1, SameQueues DEF queueVars
<1>3. StackKept
  <2>1. CASE FlushReturns \/ FlushAllDevices
    BY <1>1, <2>1, Returned DEF FlushReturns, FlushAllDevices, StackKept
  <2>2. CASE WaitFlush
    <3> DEFINE f == Head(stack)
               rest(t) == [f EXCEPT !.todo = @ \ {t}]
    <3>1. ToSet(Callers) \subseteq ToSet(stack)
      BY <1>1, <2>2, Returned DEF WaitFlush
    <3>2. CASE stack' = Callers
      BY <3>1, <3>2 DEF StackKept
    <3>3. CASE stack' # Callers
      <4>1. PICK t \in f.todo :
              stack' = IF state[t] = Queued
                         THEN <<FlushFrame(home[t], TRUE)>> \o (<<rest(t)>> \o Callers)
                         ELSE <<rest(t)>> \o Callers
        BY <2>2, <3>3 DEF WaitFlush
      <4>2. /\ t \in Created /\ <<rest(t)>> \o Callers \in Seq(Frames)
            /\ ToSet(<<rest(t)>> \o Callers) = {rest(t)} \cup ToSet(Callers)
            /\ rest(t).fn = "clWaitForEvents"
        BY <1>1, <2>2, Rest, RestFrames DEF WaitFlush
      <4> DEFINE below == <<rest(t)>> \o Callers
      <4>3. /\ below \in Seq(Frames)
            /\ \A g \in ToSet(below) : g \in ToSet(stack) \/ g.fn # "SubmitTask"
        BY <3>1, <4>2
      <4>4. stack' = IF state[t] = Queued
                       THEN <<FlushFrame(home[t], TRUE)>> \o below ELSE below
        BY <4>1
      <4> HIDE DEF below
      <4>5. CASE state[t] # Queued
        BY <4>3, <4>4, <4>5 DEF StackKept
      <4>6. CASE state[t] = Queued
        <5>1. FlushFrame(home[t], TRUE) \in Frames
          BY <4>2, <4>6, FrameTypes DEF QueueInv, TypeInv, QueuedHasQueue
        <5>2. ToSet(stack') = {FlushFrame(home[t], TRUE)} \cup ToSet(below)
          BY <4>3, <4>4, <4>6, <5>1, Pushed
        <5> QED BY <4>3, <5>2 DEF StackKept, FlushFrame
      <4> QED BY <4>5, <4>6
    <3> QED BY <3>2, <3>3
  <2> QED BY <2>1, <2>2
<1> QED BY <1>1, <1>2, <1>3, NothingSubmitted DEF taskVars, depVars

-----------------------------------------------------------------------------
(* The device's threads and clSetUserEventStatus *)

(* Recording a task, successfully or not, keeps the invariant.             *)
LEMMA QueueRecord ==
  ASSUME QueueInv, TypeInv', NEW d \in Device, Record(d) \/ RecordFails(d)
  PROVE  QueueInv'
<1> DEFINE tasks == Head(execQ[d])
           i == recorded[d] + 1
<1>1. /\ TypeOK /\ UNCHANGED <<home, waitOn>>
      /\ execQ[d] # <<>> /\ recorded[d] < Len(tasks)
  BY DEF Record, RecordFails, QueueInv, TypeInv, taskVars, depVars
<1>2. tasks \in Seq(Created) /\ i \in 1 .. Len(tasks) /\ tasks[i] \in Created
  BY <1>1, SubmissionTypes
<1>3. QueuesKept /\ StackKept
  <2>1. CASE Record(d)
    <3>1. state' = [state EXCEPT ![tasks[i]] = Running]
      BY <2>1 DEF Record
    <3>2. \A u \in Task : state'[u] = Queued => state[u] = Queued
      BY <1>1, <1>2, <3>1, CreatedTasks, NewStatus, Statuses
    <3> QED BY <2>1, <3>2, SameQueues DEF Record, StackKept, queueVars
  <2>2. CASE RecordFails(d)
    <3> DEFINE rest == SubSeq(tasks, i + 1, Len(tasks))
               frame == CompleteAllFrame(rest, CL_EXEC_STATUS_ERROR_FOR_EVENTS_IN_WAIT_LIST)
    <3>1. BeginComplete(tasks[i], CL_OUT_OF_RESOURCES, <<frame>>)
      BY <2>2 DEF RecordFails
    <3>2. rest \in Seq(Created)
      BY <1>2, SubSeqProperties
    <3>3. frame \in Frames /\ frame.fn # "SubmitTask"
      BY <3>2, FrameTypes, Statuses DEF CompleteAllFrame
    <3> HIDE DEF tasks, i, rest, frame
    <3>4. <<frame>> \in Seq(Frames) /\ ToSet(<<frame>>) = {frame}
      BY <3>3, Single, FewFrames
    <3> QED BY <1>2, <3>1, <3>3, <3>4, CompleteKept, Statuses DEF StackKept
  <2> QED BY <2>1, <2>2
<1> QED BY <1>1, <1>3, NothingSubmitted

(* Every step of a device's threads keeps the invariant.                   *)
LEMMA QueueDeviceThreads ==
  ASSUME QueueInv, TypeInv', DeviceThreads
  PROVE  QueueInv'
<1>1. ASSUME NEW d \in Device, SubmitExecution(d)
      PROVE  QueueInv'
  BY <1>1, SameQueues, NothingSubmitted
  DEF SubmitExecution, StackKept, taskVars, depVars, queueVars
<1>2. ASSUME NEW d \in Device, CompleteSubmission(d)
      PROVE  QueueInv'
  <2> DEFINE frame == CompleteAllFrame(Head(completionQ[d]), Complete)
  <2>1. frame.fn # "SubmitTask" /\ FlushAllFrame.fn # "SubmitTask"
    BY DEF CompleteAllFrame, FlushAllFrame
  <2>2. stack' = <<frame, FlushAllFrame>>
    BY <1>2 DEF CompleteSubmission
  <2> HIDE DEF frame
  <2>3. StackKept
    <3>1. ToSet(stack') = {frame, FlushAllFrame}
      BY <2>2, FewFrames, Zenon
    <3> QED BY <2>1, <3>1 DEF StackKept
  <2> QED
    BY <1>2, <2>3, SameQueues, NothingSubmitted
    DEF CompleteSubmission, taskVars, depVars, queueVars
<1> QED BY <1>1, <1>2, QueueRecord DEF DeviceThreads

(* clSetUserEventStatus keeps the invariant.                               *)
LEMMA QueueSetUserEventStatus ==
  ASSUME QueueInv, TypeInv', NEW u \in Task, NEW s \in UserStatus, SetUserEventStatus(u, s)
  PROVE  QueueInv'
<1>1. u \in Created /\ s \in Error
  BY Statuses DEF SetUserEventStatus, QueueInv, TypeInv, TypeOK
<1>2. /\ <<FlushAllFrame>> \in Seq(Frames)
      /\ \A f \in ToSet(<<FlushAllFrame>>) : f.fn # "SubmitTask"
  <2>1. FlushAllFrame \in Frames /\ FlushAllFrame.fn # "SubmitTask"
    BY FrameTypes DEF FlushAllFrame
  <2>2. ToSet(<<FlushAllFrame>>) = {FlushAllFrame}
    BY FewFrames, Zenon
  <2> QED BY <2>1, <2>2, Single
<1>3. BeginComplete(u, s, <<FlushAllFrame>>) /\ UNCHANGED <<home, waitOn>>
  BY DEF SetUserEventStatus, taskVars, depVars
<1>4. QueuesKept /\ StackKept
  BY <1>1, <1>2, <1>3, CompleteKept DEF StackKept
<1> QED BY <1>3, <1>4, NothingSubmitted

-----------------------------------------------------------------------------
(* The theorems *)

(* The invariant holds initially: all queues are empty.                    *)
LEMMA QueueInit == Init => QueueInv
<1> SUFFICES ASSUME Init PROVE QueueInv
  OBVIOUS
<1>1. TypeInv
  BY TypeInit
<1>2. ToSet(<<>>) = {} /\ Len(<<>>) = 0
  BY DEF ToSet
<1>3. LastPointersLive /\ QueuesOrdered /\ FramesInOrder
  BY <1>2 DEF Init, LastPointersLive, QueuesOrdered, FramesInOrder
<1>4. QueuedInQueue /\ WaitsForOlder
  BY TaskPoolAssumption DEF Init, QueuedInQueue, WaitsForOlder
<1> QED BY <1>1, <1>3, <1>4 DEF QueueInv

(* Every step keeps the invariant.                                         *)
LEMMA QueueStep == QueueInv /\ [Next]_vars => QueueInv'
<1> SUFFICES ASSUME QueueInv, [Next]_vars PROVE QueueInv'
  OBVIOUS
<1>1. TypeInv'
  BY TypeStep DEF QueueInv
<1>2. CASE UNCHANGED vars
  BY <1>1, <1>2, SameQueues, NothingSubmitted
  DEF vars, StackKept, taskVars, depVars, queueVars
<1>3. CASE Next
  BY <1>1, <1>3, QueueApplication, QueueFlushTask, QueueSubmit, QueueReady, QueueComplete,
     QueueFlushes, QueueSetUserEventStatus, QueueDeviceThreads
  DEF Next, LockHolder
<1> QED BY <1>2, <1>3

(* The queues' invariant holds of every behaviour.                         *)
LEMMA QueueInvariant == Spec => []QueueInv
BY QueueInit, QueueStep, PTL DEF Spec

(* For any number of tasks, queues and devices, the raw pointers           *)
(* m_LastQueuedTask and m_LastQueuedBarrier are null or to tasks that      *)
(* their queue holds a reference to.                                       *)
THEOREM PointersLive == Spec => []LastPointersLive
<1>1. QueueInv => LastPointersLive
  BY DEF QueueInv
<1> QED BY <1>1, QueueInvariant, PTL

(* For any number of tasks, queues and devices, D3DDevice::SubmitTask's    *)
(* assertion holds: a dependency it finds Queued is in another queue.  The *)
(* task is older than all its queue still holds, the dependency is older   *)
(* than the task.                                                          *)
THEOREM NoDependencyLater == Spec => []NoDependencyLaterInQueue
<1>1. QueueInv => NoDependencyLaterInQueue
  <2> SUFFICES ASSUME QueueInv, Executing("SubmitTask"),
                      NEW u \in Head(stack).todo, state[u] = Queued,
                      home[u] = home[Head(stack).task]
               PROVE  FALSE
    BY DEF NoDependencyLaterInQueue
  <2> DEFINE f == Head(stack)
  <2>1. /\ TypeOK /\ f \in ToSet(stack) /\ f.fn = "SubmitTask"
        /\ f.task \in Created /\ u \in Created
    <3>1. TypeOK /\ f \in Frames /\ f.fn = "SubmitTask"
      BY StackTypes DEF QueueInv, TypeInv
    <3>2. f \in ToSet(stack)
      BY <3>1, Popped DEF Executing, TypeOK
    <3> QED BY <3>1, <3>2, FrameFields
  <2>2. /\ home[f.task] \in Queue
        /\ u < f.task
        /\ \A v \in ToSet(queued[home[f.task]]) : f.task < v
    BY <2>1 DEF QueueInv, FramesInOrder, InOrder
  <2>3. u \in ToSet(queued[home[f.task]])
    BY <2>1, <2>2, CreatedTasks DEF QueueInv, QueuedInQueue
  <2>4. u \in Int /\ f.task \in Int
    BY <2>1 DEF Created
  <2> QED BY <2>2, <2>3, <2>4
<1> QED BY <1>1, QueueInvariant, PTL

-----------------------------------------------------------------------------
(* The inductive invariant *)

\* A task that has not been created yet is nobody's.
Uncreated ==
  \A t \in Task : t > created =>
    /\ home[t] = NoQueue /\ state[t] = Queued
    /\ waitOn[t] = {} /\ waiters[t] = {} /\ waitList[t] = {}

\* A task sits in its queue, or in its queue's outstanding list, as its
\* state says, and what it waits on agrees with how far it has come.
Places ==
  /\ \A q \in Queue : \A t \in ToSet(queued[q]) : state[t] = Queued
  /\ \A q \in Queue : \A t \in Task :
       t \in outstanding[q] <=> home[t] = q /\ state[t] \in {Submitted, Ready, Running}
  /\ \A t \in Created : home[t] = NoQueue =>
       (state[t] = Submitted \/ Finished(t)) /\ waitOn[t] = {} /\ waitList[t] = {}
  /\ \A t \in Task : state[t] = Submitted /\ home[t] # NoQueue => waitOn[t] # {}
  /\ \A t \in Task : state[t] \in {Ready, Running} => waitOn[t] = {}

\* Only younger tasks of queues wait for a task.  Those waiting for one that
\* is not ready yet wait for it still, or have failed.
Links ==
  \A v \in Task : \A t \in waiters[v] :
    /\ home[t] \in Queue /\ v < t
    /\ state[v] \in {Queued, Submitted} => v \in waitOn[t] \/ Finished(t)

\* What a call of Task::Ready or Task::Complete relies on while it walks its
\* list: the task keeps its status, its promise is not set yet, and a task
\* about to be failed along with it still waits for it.
CallHolds(f) ==
  /\ f.fn = "Ready" =>
       state[f.task] = Ready /\ \A d \in f.todo : home[d] \in Queue /\ f.task < d
  /\ f.fn = "Complete" =>
       /\ state[f.task] = f.error /\ f.task \notin signalled
       /\ \A d \in f.todo :
            /\ home[d] \in Queue /\ f.task < d
            /\ f.error < Complete => f.task \in waitOn[d] \/ Finished(d)
  /\ f.fn = "CompleteAll" => f.error = Complete /\ \A t \in ToSet(f.tasks) : home[t] \in Queue

CallsHold == \A f \in ToSet(stack) : CallHolds(f)

\* Which calls can be nested in which: each Complete is of another task, a
\* submission is completed next to the bottom, Ready calls nothing but Ready,
\* and nothing is submitted while something is being completed.
Nested(s) ==
  /\ \A i, j \in 1 .. Len(s) :
       s[i].fn = "Complete" /\ s[j].fn = "Complete" /\ i # j => s[i].task # s[j].task
  /\ \A i \in 1 .. Len(s) : s[i].fn = "CompleteAll" => i = Len(s) - 1
  /\ \A i, j \in 1 .. Len(s) : s[i].fn = "Ready" /\ j < i => s[j].fn = "Ready"
  /\ \A i, j \in 1 .. Len(s) : s[i].fn \in {"Complete", "CompleteAll"} =>
       s[j].fn \in {"Complete", "CompleteAll", "FlushAllDevices", "Ready"}

\* A promise is set by a task that has ended, and never again.
PromisesOnce ==
  /\ \A t \in signalled : Finished(t)
  /\ fault # "promise_already_satisfied"

\* clSetUserEventStatus is given user events.
SetsUserEvents == \A s \in setters : home[s[1]] = NoQueue

-----------------------------------------------------------------------------
(* The lanes: everything a device has been given, in the order in which it *)
(* is recorded and completed                                               *)

\* What is left of the submission being completed.
Ending(s) ==
  IF \E i \in 1 .. Len(s) : s[i].fn = "CompleteAll" THEN s[Len(s) - 1].tasks ELSE <<>>

\* A device's submissions: the one being completed, those waiting for the
\* GPU, those waiting to be recorded, and the one still being filled.
LastBatch(d) == Len(completionQ[d]) + Len(execQ[d]) + 2
Batch(d, i) ==
  IF i = 1 THEN Ending(stack)
  ELSE IF i <= Len(completionQ[d]) + 1 THEN completionQ[d][i - 1]
  ELSE IF i < LastBatch(d) THEN execQ[d][i - 1 - Len(completionQ[d])]
  ELSE recording[d]

\* t is the j-th task of the i-th submission of d.
At(d, i, j, t) ==
  i \in 1 .. LastBatch(d) /\ j \in 1 .. Len(Batch(d, i)) /\ Batch(d, i)[j] = t

\* ... and has been recorded.
Passed(d, i, j) ==
  \/ i <= Len(completionQ[d]) + 1
  \/ i = Len(completionQ[d]) + 2 /\ j <= recorded[d]

Lanes ==
  /\ \A d \in Device : \A i, j \in Nat : \A t \in Task : At(d, i, j, t) =>
       /\ i # 1 => DeviceOfTask(t) = d
       /\ state[t] = IF Passed(d, i, j) THEN Running ELSE Ready
       /\ \A k, l \in Nat : At(d, k, l, t) => i = k /\ j = l
  /\ \A d \in Device : recorded[d] <= IF execQ[d] = <<>> THEN 0 ELSE Len(Head(execQ[d]))
  /\ \A t \in Task : state[t] \in {Ready, Running} =>
       \E i, j \in Nat : At(DeviceOfTask(t), i, j, t)

PoolInv ==
  /\ QueueInv /\ ~RecordMayFail
  /\ Uncreated /\ Places /\ Links
  /\ CallsHold /\ Nested(stack) /\ PromisesOnce /\ SetsUserEvents
  /\ Lanes

-----------------------------------------------------------------------------
(* What a step does to the tasks *)

Quiet ==
  UNCHANGED <<taskVars, state, depVars, signalled, queueVars, deviceVars>>

\* The oldest task t of queue q is taken out of it.
Leaves(t, q) ==
  /\ queued[q] # <<>> /\ t = Head(queued[q])
  /\ queued' = [queued EXCEPT ![q] = Tail(@)]
  /\ outstanding' = [outstanding EXCEPT ![q] = @ \cup {t}]
  /\ UNCHANGED <<lastTask, lastBarrier>>

\* t becomes ready and is given to its device.
TurnsReady(t) ==
  /\ state' = [state EXCEPT ![t] = Ready]
  /\ recording' = [recording EXCEPT ![DeviceOfTask(t)] = Append(@, t)]
  /\ UNCHANGED <<taskVars, waiters, signalled, execQ, recorded, completionQ>>

\* t is submitted and has to wait, or is ready at once.
Submits(t, q) ==
  /\ Leaves(t, q) /\ waitOn[t] # {}
  /\ state' = [state EXCEPT ![t] = Submitted]
  /\ UNCHANGED <<taskVars, depVars, signalled, deviceVars>>
SubmitsReady(t, q) ==
  /\ Leaves(t, q) /\ waitOn[t] = {}
  /\ TurnsReady(t) /\ UNCHANGED waitOn

\* d no longer waits for v, and is ready when v was all it waited for.
Releases(v, d) ==
  /\ ~(waitOn[d] \subseteq {v} /\ state[d] = Submitted)
  /\ waitOn' = [waitOn EXCEPT ![d] = @ \ {v}]
  /\ UNCHANGED <<taskVars, state, waiters, signalled, queueVars, deviceVars>>
ReleasesLast(v, d) ==
  /\ waitOn[d] \subseteq {v} /\ state[d] = Submitted
  /\ waitOn' = [waitOn EXCEPT ![d] = @ \ {v}]
  /\ TurnsReady(d) /\ UNCHANGED queueVars

\* t ends with a result; the lists of a task that has ended are cleared.
Ends(t, error) ==
  /\ ~Finished(t)
  /\ state' = [state EXCEPT ![t] = error]
  /\ NotifyTaskCompletion(t)
  /\ UNCHANGED <<taskVars, depVars, signalled, deviceVars>>
Clears(t) ==
  /\ waitOn' = [waitOn EXCEPT ![t] = {}]
  /\ waiters' = [waiters EXCEPT ![t] = {}]
  /\ signalled' = signalled \cup {t}
  /\ UNCHANGED <<taskVars, state, queueVars, deviceVars>>

Flushes(S) ==
  /\ FlushDevices(S)
  /\ UNCHANGED <<taskVars, state, depVars, signalled, queueVars, recorded, completionQ>>

(* ... and to the call stack.                                              *)
Returns == stack' = Callers
GoesOn(r) == stack' = <<r>> \o Callers
Calling(g, r) == stack' = <<g>> \o (<<r>> \o Callers)

\* The innermost call with x of its list done.
Done(x) == [Head(stack) EXCEPT !.todo = @ \ {x}]

-----------------------------------------------------------------------------
(* The call stack *)

(* The positions in a stack one of whose calls has returned.               *)
LEMMA ReturnedStack ==
  ASSUME NEW S, NEW s \in Seq(S), s # <<>>
  PROVE  /\ Tail(s) \in Seq(S) /\ Len(Tail(s)) = Len(s) - 1 /\ Len(s) \in Nat \ {0}
         /\ \A i \in 1 .. Len(s) - 1 : Tail(s)[i] = s[i + 1]
         /\ Head(s) = s[1]
BY Popped

(* Those in a stack whose innermost call has gone on as r.                 *)
LEMMA GoneOnStack ==
  ASSUME NEW S, NEW s \in Seq(S), s # <<>>, NEW r \in S
  PROVE  LET z == <<r>> \o Tail(s) IN
         /\ z \in Seq(S) /\ Len(z) = Len(s)
         /\ \A i \in 1 .. Len(s) : z[i] = IF i = 1 THEN r ELSE s[i]
         /\ ToSet(z) = {r} \cup ToSet(Tail(s))
<1> DEFINE b == Tail(s)
           z == <<r>> \o b
<1>1. /\ b \in Seq(S) /\ Len(b) = Len(s) - 1 /\ Len(s) \in Nat \ {0}
      /\ \A i \in 1 .. Len(s) - 1 : b[i] = s[i + 1]
  BY Popped
<1> HIDE DEF b
<1>2. /\ z \in Seq(S) /\ Len(z) = Len(b) + 1
      /\ \A i \in 1 .. Len(b) + 1 : z[i] = IF i = 1 THEN r ELSE b[i - 1]
  BY <1>1
<1>3. ToSet(z) = {r} \cup ToSet(b)
  BY <1>1, Pushed
<1> HIDE DEF z
<1>4. ASSUME NEW i \in 1 .. Len(s)
      PROVE  z[i] = IF i = 1 THEN r ELSE s[i]
  <2>1. CASE i = 1
    BY <1>1, <1>2, <2>1
  <2>2. CASE i # 1
    <3>1. i - 1 \in 1 .. Len(s) - 1 /\ i \in 1 .. Len(b) + 1
      BY <1>1, <2>2
    <3> QED BY <1>1, <1>2, <2>2, <3>1
  <2> QED BY <2>1, <2>2
<1> QED BY <1>1, <1>2, <1>3, <1>4 DEF b, z

(* A return keeps the nesting, and the submission being completed unless   *)
(* that was what returned.                                                 *)
LEMMA NestedReturns ==
  ASSUME NEW S, NEW s \in Seq(S), s # <<>>, Nested(s)
  PROVE  /\ Nested(Tail(s))
         /\ Head(s).fn # "CompleteAll" => Ending(Tail(s)) = Ending(s)
         /\ Head(s).fn = "CompleteAll" => Ending(Tail(s)) = <<>>
<1> DEFINE z == Tail(s)
<1>1. /\ z \in Seq(S) /\ Len(z) = Len(s) - 1 /\ Len(s) \in Nat \ {0}
      /\ \A i \in 1 .. Len(s) - 1 : z[i] = s[i + 1]
      /\ Head(s) = s[1]
  BY ReturnedStack
<1> HIDE DEF z
<1>2. \A i \in 1 .. Len(z) : i + 1 \in 1 .. Len(s) /\ z[i] = s[i + 1] /\ i \in Int
  BY <1>1
<1>3. Nested(z)
  <2>1. ASSUME NEW i \in 1 .. Len(z), NEW j \in 1 .. Len(z)
        PROVE  /\ z[i].fn = "Complete" /\ z[j].fn = "Complete" /\ i # j => z[i].task # z[j].task
               /\ z[i].fn = "CompleteAll" => i = Len(z) - 1
               /\ z[i].fn = "Ready" /\ j < i => z[j].fn = "Ready"
               /\ z[i].fn \in {"Complete", "CompleteAll"} =>
                    z[j].fn \in {"Complete", "CompleteAll", "FlushAllDevices", "Ready"}
    <3>1. /\ i + 1 \in 1 .. Len(s) /\ z[i] = s[i + 1] /\ i \in Int
          /\ j + 1 \in 1 .. Len(s) /\ z[j] = s[j + 1] /\ j \in Int
      BY <1>2
    <3>2. i + 1 = Len(s) - 1 => i = Len(z) - 1
      BY <1>1, <3>1
    <3>3. (i # j => i + 1 # j + 1) /\ (j < i => j + 1 < i + 1)
      BY <3>1
    <3> QED BY <3>1, <3>2, <3>3 DEF Nested
  <2> QED BY <2>1 DEF Nested
<1>4. ASSUME NEW k \in 1 .. Len(s), s[k].fn = "CompleteAll", s[1].fn # "CompleteAll"
      PROVE  Ending(z) = Ending(s)
  <2>1. k = Len(s) - 1 /\ k # 1 /\ k \in Int
    BY <1>1, <1>4 DEF Nested
  <2>2. k - 1 \in 1 .. Len(z) /\ k - 1 = Len(z) - 1 /\ k - 1 + 1 = k /\ k - 1 \in 1 .. Len(s) - 1
    <3>1. Len(z) = Len(s) - 1 /\ Len(s) \in Nat \ {0} /\ k \in 1 .. Len(s)
      BY <1>1
    <3> QED BY <2>1, <3>1
  <2>3. z[k - 1] = s[k]
    BY <1>1, <2>2
  <2> QED BY <1>1, <1>4, <2>1, <2>2, <2>3 DEF Ending
<1>5. ASSUME \A k \in 1 .. Len(s) : s[k].fn # "CompleteAll"
      PROVE  Ending(z) = Ending(s)
  BY <1>2, <1>5 DEF Ending
<1>6. ASSUME s[1].fn = "CompleteAll"
      PROVE  Ending(z) = <<>>
  <2>1. Len(s) = 2
    BY <1>1, <1>6 DEF Nested
  <2>2. \A k \in 1 .. Len(z) : z[k].fn # "CompleteAll"
    <3> SUFFICES ASSUME NEW k \in 1 .. Len(z), z[k].fn = "CompleteAll" PROVE FALSE
      OBVIOUS
    <3>1. k + 1 \in 1 .. Len(s) /\ s[k + 1].fn = "CompleteAll" /\ k + 1 # 1
      BY <1>2
    <3> QED BY <2>1, <3>1 DEF Nested
  <2> QED BY <2>2 DEF Ending
<1> QED BY <1>1, <1>3, <1>4, <1>5, <1>6 DEF z

(* A call that goes on keeps the nesting: r is the same call of the same   *)
(* task.                                                                   *)
LEMMA NestedGoesOn ==
  ASSUME NEW S, NEW s \in Seq(S), s # <<>>, Nested(s),
         NEW r \in S, r.fn = Head(s).fn, r.fn = "Complete" => r.task = Head(s).task
  PROVE  LET z == <<r>> \o Tail(s) IN
         /\ Nested(z)
         /\ r.fn # "CompleteAll" => Ending(z) = Ending(s)
         /\ r.fn = "CompleteAll" => Ending(z) = r.tasks /\ Ending(s) = Head(s).tasks
<1> DEFINE z == <<r>> \o Tail(s)
<1>1. /\ z \in Seq(S) /\ Len(z) = Len(s) /\ Len(s) \in Nat \ {0}
      /\ \A i \in 1 .. Len(s) : z[i] = IF i = 1 THEN r ELSE s[i]
      /\ Head(s) = s[1]
  BY GoneOnStack, Popped
<1> HIDE DEF z
<1>2. /\ \A i \in 1 .. Len(s) : z[i].fn = s[i].fn /\ (z[i].fn = "Complete" => z[i].task = s[i].task)
      /\ \A i \in 1 .. Len(s) : i # 1 => z[i] = s[i]
  BY <1>1
<1>3. Nested(z)
  BY <1>1, <1>2 DEF Nested
<1>4. ASSUME NEW k \in 1 .. Len(s), s[k].fn = "CompleteAll"
      PROVE  /\ k = Len(s) - 1
             /\ Ending(z) = z[k].tasks /\ Ending(s) = s[k].tasks
  BY <1>1, <1>2, <1>4 DEF Ending, Nested
<1>5. ASSUME r.fn # "CompleteAll"
      PROVE  Ending(z) = Ending(s)
  <2>1. CASE \E k \in 1 .. Len(s) : s[k].fn = "CompleteAll"
    BY <1>1, <1>2, <1>4, <1>5, <2>1
  <2>2. CASE ~\E k \in 1 .. Len(s) : s[k].fn = "CompleteAll"
    BY <1>1, <1>2, <2>2 DEF Ending
  <2> QED BY <2>1, <2>2
<1>6. ASSUME r.fn = "CompleteAll"
      PROVE  Ending(z) = r.tasks /\ Ending(s) = Head(s).tasks
  BY <1>1, <1>4, <1>6
<1> QED BY <1>3, <1>5, <1>6 DEF z

(* A new call keeps the nesting, if it is a call of Ready, a call of       *)
(* Complete for a task that is not being completed yet, made by Complete   *)
(* or by the loop over a submission, or a call made while nothing is being *)
(* readied or completed.                                                   *)
LEMMA NestedCalling ==
  ASSUME NEW S, NEW s \in Seq(S), s # <<>>, Nested(s),
         NEW r \in S, r.fn = Head(s).fn, r.fn = "Complete" => r.task = Head(s).task,
         NEW g \in S, g.fn # "CompleteAll", g.fn # "Ready" => r.fn # "Ready",
         g.fn = "Complete" => /\ r.fn \in {"Complete", "CompleteAll"}
                              /\ \A i \in 1 .. Len(s) : s[i].fn = "Complete" => s[i].task # g.task,
         r.fn \in {"Complete", "CompleteAll"} => g.fn \in {"Complete", "Ready"},
         g.fn \notin {"Complete", "Ready"} =>
           r.fn \notin {"Complete", "CompleteAll", "FlushAllDevices", "Ready"}
  PROVE  LET z == <<g>> \o (<<r>> \o Tail(s)) IN
         /\ Nested(z)
         /\ r.fn # "CompleteAll" => Ending(z) = Ending(s)
         /\ r.fn = "CompleteAll" => Ending(z) = r.tasks /\ Ending(s) = Head(s).tasks
<1> DEFINE b == <<r>> \o Tail(s)
           z == <<g>> \o b
<1>1. /\ b \in Seq(S) /\ Len(b) = Len(s) /\ Len(s) \in Nat \ {0}
      /\ \A i \in 1 .. Len(s) : b[i] = IF i = 1 THEN r ELSE s[i]
      /\ Nested(b) /\ Head(s) = s[1]
      /\ r.fn # "CompleteAll" => Ending(b) = Ending(s)
      /\ r.fn = "CompleteAll" => Ending(b) = r.tasks /\ Ending(s) = Head(s).tasks
  BY GoneOnStack, NestedGoesOn, Popped
<1>2. \A i \in 1 .. Len(s) : b[i].fn = s[i].fn /\ (s[i].fn = "Complete" => b[i].task = s[i].task)
  BY <1>1
<1> HIDE DEF b
<1>3. /\ z \in Seq(S) /\ Len(z) = Len(s) + 1
      /\ z[1] = g
      /\ \A i \in 1 .. Len(z) : i # 1 => i - 1 \in 1 .. Len(s) /\ z[i] = b[i - 1]
      /\ \A i \in 1 .. Len(s) : i + 1 \in 1 .. Len(z) /\ z[i + 1] = b[i]
  BY <1>1
<1> HIDE DEF z
<1>4. ASSUME NEW i \in 1 .. Len(z), NEW j \in 1 .. Len(z)
      PROVE  /\ z[i].fn = "Complete" /\ z[j].fn = "Complete" /\ i # j => z[i].task # z[j].task
             /\ z[i].fn = "CompleteAll" => i = Len(z) - 1
             /\ z[i].fn = "Ready" /\ j < i => z[j].fn = "Ready"
             /\ z[i].fn \in {"Complete", "CompleteAll"} =>
                  z[j].fn \in {"Complete", "CompleteAll", "FlushAllDevices", "Ready"}
  <2>1. CASE i # 1 /\ j # 1
    <3>1. /\ i - 1 \in 1 .. Len(b) /\ z[i] = b[i - 1] /\ i \in Int
          /\ j - 1 \in 1 .. Len(b) /\ z[j] = b[j - 1] /\ j \in Int
      BY <1>1, <1>3, <2>1
    <3>2. /\ i # j => i - 1 # j - 1
          /\ j < i => j - 1 < i - 1
          /\ i - 1 = Len(b) - 1 => i = Len(z) - 1
      BY <1>1, <1>3, <3>1
    <3> QED BY <1>1, <3>1, <3>2 DEF Nested
  <2>2. CASE i = 1 /\ j = 1
    <3>1. z[i] = g /\ z[j] = g /\ ~(j < i)
      BY <1>3, <2>2
    <3> QED BY <2>2, <3>1
  <2>3. CASE i = 1 /\ j # 1
    <3>1. z[i] = g /\ j - 1 \in 1 .. Len(s) /\ z[j] = b[j - 1] /\ ~(j < i)
      BY <1>3, <2>3
    <3>2. g.fn = "Complete" => b[1].fn \in {"Complete", "CompleteAll"} /\ 1 \in 1 .. Len(b)
      BY <1>1
    <3> QED BY <1>1, <1>2, <2>3, <3>1, <3>2 DEF Nested
  <2>4. CASE i # 1 /\ j = 1
    <3>1. z[j] = g /\ i - 1 \in 1 .. Len(s) /\ z[i] = b[i - 1] /\ i \in Int
      BY <1>3, <2>4
    <3>2. i - 1 = Len(b) - 1 => i = Len(z) - 1
      BY <1>1, <1>3, <3>1
    <3>3. 1 \in 1 .. Len(b) /\ b[1] = r /\ (i - 1 # 1 => 1 < i - 1)
      BY <1>1, <3>1
    <3>4. z[i].fn = "Ready" => g.fn = "Ready"
      BY <1>1, <3>1, <3>3 DEF Nested
    <3>5. z[i].fn = "Complete" /\ g.fn = "Complete" => z[i].task # g.task
      BY <1>2, <3>1
    <3>6. z[i].fn = "CompleteAll" => i = Len(z) - 1
      BY <1>1, <3>1, <3>2 DEF Nested
    <3>7. z[i].fn \in {"Complete", "CompleteAll"} => g.fn \in {"Complete", "Ready"}
      BY <1>1, <3>1, <3>3 DEF Nested
    <3> QED BY <3>1, <3>4, <3>5, <3>6, <3>7
  <2> QED BY <2>1, <2>2, <2>3, <2>4
<1>5. Nested(z)
  BY <1>4 DEF Nested
<1>6. Ending(z) = Ending(b)
  <2>1. CASE \E k \in 1 .. Len(b) : b[k].fn = "CompleteAll"
    <3>1. PICK k \in 1 .. Len(b) : b[k].fn = "CompleteAll"
      BY <2>1
    <3>2. k = Len(b) - 1 /\ k \in Int
      BY <1>1, <3>1 DEF Nested
    <3>3. k + 1 \in 1 .. Len(z) /\ z[k + 1] = b[k] /\ k + 1 = Len(z) - 1
      BY <1>1, <1>3, <3>1, <3>2
    <3> QED BY <3>1, <3>2, <3>3 DEF Ending
  <2>2. CASE ~\E k \in 1 .. Len(b) : b[k].fn = "CompleteAll"
    BY <1>1, <1>3, <2>2 DEF Ending
  <2> QED BY <2>1, <2>2
<1> QED BY <1>1, <1>5, <1>6 DEF b, z

-----------------------------------------------------------------------------
(* The steps of the lock holder, each in terms of what it does to the      *)
(* tasks and to the call stack                                             *)

FlushStep ==
  LET f == Head(stack) IN
  /\ f.fn = "Flush" /\ f.queue \in Queue
  /\ \/ \E t \in Created :
          \/ /\ Submits(t, f.queue)
             /\ Calling(SubmitFrame(t, waitOn[t], waitOn[t]), f)
          \/ /\ SubmitsReady(t, f.queue)
             /\ Calling(ReadyFrame(t, waiters[t]), f)
     \/ /\ Flushes(IF f.flushDevice THEN {DeviceOf[f.queue]} ELSE {})
        /\ Returns
  /\ UNCHANGED fault

SubmitStep ==
  LET f == Head(stack) IN
  /\ f.fn = "SubmitTask" /\ Quiet
  /\ \/ /\ f.todo = {} /\ Returns /\ UNCHANGED fault
     \/ /\ \E u \in f.todo :
             \/ GoesOn(Done(u))
             \/ /\ state[u] = Queued /\ home[u] \in Queue
                /\ Calling(FlushFrame(home[u], FALSE), Done(u))
        /\ UNCHANGED fault
     \/ /\ waitOn[f.task] # f.deps
        /\ fault' = "iterator_invalidated" /\ UNCHANGED stack

\* Task v releases d, one of those waiting for it.
ReleaseStep(v, d) ==
  \/ Releases(v, d) /\ GoesOn(Done(d))
  \/ ReleasesLast(v, d) /\ Calling(ReadyFrame(d, waiters[d]), Done(d))

ReadyStep ==
  LET f == Head(stack) IN
  /\ f.fn = "Ready"
  /\ \/ f.todo = {} /\ Quiet /\ Returns
     \/ \E d \in f.todo :
          \/ DeviceOfTask(d) # DeviceOfTask(f.task) /\ Quiet /\ GoesOn(Done(d))
          \/ DeviceOfTask(d) = DeviceOfTask(f.task) /\ ReleaseStep(f.task, d)
  /\ UNCHANGED fault

CompleteStep ==
  LET f == Head(stack) IN
  /\ f.fn = "Complete"
  /\ \/ \E d \in f.todo :
          /\ \/ /\ IF f.error < Complete THEN Finished(d) ELSE f.task \notin waitOn[d]
                /\ Quiet /\ GoesOn(Done(d))
             \/ /\ f.error < Complete /\ Ends(d, f.error)
                /\ Calling(CompleteFrame(d, f.error, waiters[d]), Done(d))
             \/ /\ f.error = Complete /\ f.task \in waitOn[d]
                /\ ReleaseStep(f.task, d)
          /\ UNCHANGED fault
     \/ /\ f.todo = {} /\ Clears(f.task) /\ Returns
        /\ fault' = IF f.task \in signalled THEN "promise_already_satisfied" ELSE fault

CompleteAllStep ==
  LET f == Head(stack)
      rest == [f EXCEPT !.tasks = Tail(@)]
  IN
  /\ f.fn = "CompleteAll"
  /\ \/ f.tasks = <<>> /\ Quiet /\ Returns
     \/ f.tasks # <<>> /\ Finished(Head(f.tasks)) /\ Quiet /\ GoesOn(rest)
     \/ /\ f.tasks # <<>> /\ Ends(Head(f.tasks), f.error)
        /\ Calling(CompleteFrame(Head(f.tasks), f.error, waiters[Head(f.tasks)]), rest)
  /\ UNCHANGED fault

FlushAllStep ==
  /\ Head(stack).fn = "FlushAllDevices"
  /\ Flushes(Device) /\ Returns /\ UNCHANGED fault

WaitStep ==
  LET f == Head(stack) IN
  /\ f.fn = "clWaitForEvents" /\ Quiet
  /\ \/ Returns
     \/ \E u \in f.todo :
          \/ GoesOn(Done(u))
          \/ /\ state[u] = Queued /\ home[u] \in Queue
             /\ Calling(FlushFrame(home[u], TRUE), Done(u))
  /\ UNCHANGED fault

LockStep ==
  /\ stack # <<>> /\ fault = "none"
  /\ \/ FlushStep \/ SubmitStep \/ ReadyStep \/ CompleteStep
     \/ CompleteAllStep \/ FlushAllStep \/ WaitStep

(* A stack that is not empty is its innermost frame on top of the others.  *)
LEMMA TopFirst ==
  ASSUME NEW S, NEW s \in Seq(S), s # <<>>
  PROVE  s = <<Head(s)>> \o Tail(s)
OBVIOUS

(* The frame of a call one of whose list is done.                          *)
LEMMA DoneFields ==
  ASSUME TypeOK, NEW fn \in {"SubmitTask", "Ready", "Complete", "clWaitForEvents"},
         Executing(fn), NEW x \in Head(stack).todo
  PROVE  /\ Head(stack) \in Frames /\ x \in Created
         /\ Done(x) \in Frames /\ Done(x).fn = fn
         /\ Done(x).todo = Head(stack).todo \ {x}
         /\ fn # "clWaitForEvents" => Done(x).task = Head(stack).task
         /\ fn = "Complete" => Done(x).error = Head(stack).error
         /\ fn = "SubmitTask" => Done(x).deps = Head(stack).deps
<1> DEFINE f == Head(stack)
<1>1. f \in Frames /\ f.fn = fn
  BY StackTypes
<1>2. x \in Created /\ f.todo \ {x} \in SUBSET Created
  BY <1>1, FrameFields
<1>3. Done(x) \in Frames
  BY <1>1, <1>2, FrameFields DEF Done
<1> HIDE DEF f
<1>4. /\ Done(x).fn = fn /\ Done(x).todo = f.todo \ {x}
      /\ fn # "clWaitForEvents" => Done(x).task = f.task
      /\ fn = "Complete" => Done(x).error = f.error
      /\ fn = "SubmitTask" => Done(x).deps = f.deps
  <2>1. CASE f \in [fn : {"SubmitTask"}, task : Created, deps : SUBSET Created, todo : SUBSET Created]
    BY <1>1, <2>1 DEF Done, f
  <2>2. CASE f \in [fn : {"Ready"}, task : Created, todo : SUBSET Created]
    BY <1>1, <2>2 DEF Done, f
  <2>3. CASE f \in [fn : {"Complete"}, task : Created, error : Error, todo : SUBSET Created]
    BY <1>1, <2>3 DEF Done, f
  <2>4. CASE f \in [fn : {"clWaitForEvents"}, todo : SUBSET Created]
    BY <1>1, <2>4 DEF Done, f
  <2> QED BY <1>1, <2>1, <2>2, <2>3, <2>4 DEF Frames
<1> QED BY <1>1, <1>2, <1>3, <1>4 DEF f

(* The frame of the loop over a submission with its first task done.       *)
LEMMA RestFields ==
  ASSUME TypeOK, Executing("CompleteAll"), Head(stack).tasks # <<>>
  PROVE  LET f == Head(stack)
             rest == [f EXCEPT !.tasks = Tail(@)]
         IN  /\ f \in Frames /\ f.tasks \in Seq(Created) /\ f.error \in Error
             /\ Head(f.tasks) \in Created
             /\ rest \in Frames /\ rest.fn = "CompleteAll" /\ rest.error = f.error
             /\ rest.tasks = Tail(f.tasks)
<1> DEFINE f == Head(stack)
           rest == [f EXCEPT !.tasks = Tail(@)]
<1>1. /\ f \in Frames /\ f.fn = "CompleteAll"
      /\ f.tasks \in Seq(Created) /\ f.error \in Error
  BY StackTypes, FrameFields
<1>2. Head(f.tasks) \in Created /\ Tail(f.tasks) \in Seq(Created)
  BY <1>1, HeadTailProperties
<1>3. rest \in Frames
  BY <1>1, <1>2, FrameFields
<1>4. f \in [fn : {"CompleteAll"}, tasks : Seq(Created), error : Error]
  BY <1>1 DEF Frames
<1>5. rest.fn = "CompleteAll" /\ rest.error = f.error /\ rest.tasks = Tail(f.tasks)
  BY <1>1, <1>4
<1> QED BY <1>1, <1>2, <1>3, <1>5

(* The fields of the frames the lock holder pushes.                        *)
LEMMA NewFields ==
  /\ \A t, T : /\ ReadyFrame(t, T).fn = "Ready" /\ ReadyFrame(t, T).task = t
               /\ ReadyFrame(t, T).todo = T
  /\ \A t, e, T : /\ CompleteFrame(t, e, T).fn = "Complete" /\ CompleteFrame(t, e, T).task = t
                  /\ CompleteFrame(t, e, T).error = e /\ CompleteFrame(t, e, T).todo = T
  /\ \A t, D, T : /\ SubmitFrame(t, D, T).fn = "SubmitTask" /\ SubmitFrame(t, D, T).task = t
                  /\ SubmitFrame(t, D, T).deps = D /\ SubmitFrame(t, D, T).todo = T
  /\ \A q, b : /\ FlushFrame(q, b).fn = "Flush" /\ FlushFrame(q, b).queue = q
               /\ FlushFrame(q, b).flushDevice = b
  /\ \A s, e : /\ CompleteAllFrame(s, e).fn = "CompleteAll" /\ CompleteAllFrame(s, e).tasks = s
               /\ CompleteAllFrame(s, e).error = e
  /\ \A T : WaitFrame(T).fn = "clWaitForEvents" /\ WaitFrame(T).todo = T
  /\ FlushAllFrame.fn = "FlushAllDevices"
BY DEF ReadyFrame, CompleteFrame, SubmitFrame, FlushFrame, CompleteAllFrame, WaitFrame,
       FlushAllFrame

(* Prune is one of the two kinds of release.                               *)
LEMMA PruneSteps ==
  ASSUME NEW v, NEW d, Prune(v, d, <<Done(d)>> \o Callers),
         UNCHANGED <<taskVars, waiters, signalled, queueVars, execQ, recorded, completionQ>>
  PROVE  ReleaseStep(v, d)
<1>1. CASE waitOn[d] \subseteq {v} /\ state[d] = Submitted
  BY <1>1 DEF Prune, BeginReady, ReleaseStep, ReleasesLast, TurnsReady, Calling
<1>2. CASE ~(waitOn[d] \subseteq {v} /\ state[d] = Submitted)
  BY <1>2 DEF Prune, ReleaseStep, Releases, GoesOn, deviceVars
<1> QED BY <1>1, <1>2

(* Every step of the lock holder is one of these.                          *)
LEMMA LockSteps ==
  ASSUME TypeInv, LockHolder
  PROVE  LockStep
<1> DEFINE f == Head(stack)
<1>1. TypeOK /\ stack \in Seq(Frames)
  BY DEF TypeInv, TypeOK
<1>2. CASE FlushTask
  <2> DEFINE q == f.queue
             t == Head(queued[q])
  <2>1. /\ stack # <<>> /\ fault = "none" /\ f.fn = "Flush" /\ q \in Queue
        /\ queued[q] # <<>> /\ queued[q] \in Seq(Created)
    BY <1>1, <1>2, StackTypes, FrameFields DEF FlushTask, Executing, TypeOK
  <2>2. t \in Created /\ stack = <<f>> \o Callers
    BY <1>1, <2>1, TopFirst, HeadTailProperties DEF Callers
  <2>3. Leaves(t, q)
    BY <1>2 DEF FlushTask, Leaves
  <2>0. /\ IF waitOn[t] = {}
             THEN BeginReady(t, stack)
             ELSE /\ state' = [state EXCEPT ![t] = Submitted]
                  /\ stack' = <<SubmitFrame(t, waitOn[t], waitOn[t])>> \o stack
                  /\ UNCHANGED recording
        /\ UNCHANGED <<taskVars, depVars, signalled, execQ, recorded, completionQ>>
    BY <1>2 DEF FlushTask
  <2> HIDE DEF t
  <2>4. \/ Submits(t, q) /\ Calling(SubmitFrame(t, waitOn[t], waitOn[t]), f)
        \/ SubmitsReady(t, q) /\ Calling(ReadyFrame(t, waiters[t]), f)
    <3>1. CASE waitOn[t] = {}
      <4>1. SubmitsReady(t, q)
        BY <2>3, <2>0, <3>1 DEF BeginReady, SubmitsReady, TurnsReady, depVars
      <4>2. Calling(ReadyFrame(t, waiters[t]), f)
        BY <2>2, <2>0, <3>1 DEF BeginReady, Calling
      <4> QED BY <4>1, <4>2
    <3>2. CASE waitOn[t] # {}
      <4>1. Submits(t, q)
        BY <2>3, <2>0, <3>2 DEF Submits, deviceVars
      <4>2. Calling(SubmitFrame(t, waitOn[t], waitOn[t]), f)
        BY <2>2, <2>0, <3>2 DEF Calling
      <4> QED BY <4>1, <4>2
    <3> QED BY <3>1, <3>2
  <2>5. UNCHANGED fault
    BY <1>2 DEF FlushTask
  <2>6. FlushStep
    BY <2>1, <2>2, <2>4, <2>5 DEF FlushStep
  <2> QED BY <2>1, <2>6 DEF LockStep
<1>3. CASE FlushReturns
  <2>1. stack # <<>> /\ fault = "none" /\ f.fn = "Flush" /\ f.queue \in Queue
    BY <1>1, <1>3, StackTypes, FrameFields DEF FlushReturns, Executing
  <2>2. FlushStep
    BY <1>3, <2>1 DEF FlushReturns, FlushStep, Flushes, Returns, depVars
  <2> QED BY <2>1, <2>2 DEF LockStep
<1>4. CASE SubmitDependency \/ SubmitReturns \/ SubmitIteratorInvalid
  <2>1. stack # <<>> /\ fault = "none" /\ f.fn = "SubmitTask" /\ f \in Frames
    BY <1>1, <1>4, StackTypes
    DEF SubmitDependency, SubmitReturns, SubmitIteratorInvalid, Executing
  <2>2. Quiet
    BY <1>4 DEF SubmitDependency, SubmitReturns, SubmitIteratorInvalid, Quiet, queueVars,
                deviceVars, taskVars, depVars
  <2>3. \A u \in f.todo : state[u] = Queued => home[u] \in Queue
    BY <2>1, FrameFields DEF TypeInv, QueuedHasQueue
  <2>4. SubmitStep
    <3>1. CASE SubmitDependency
      <4>1. PICK u \in f.todo :
              stack' = IF state[u] = Queued
                         THEN <<FlushFrame(home[u], FALSE)>> \o (<<Done(u)>> \o Callers)
                         ELSE <<Done(u)>> \o Callers
        BY <3>1 DEF SubmitDependency, Done
      <4>2. UNCHANGED fault
        BY <3>1 DEF SubmitDependency
      <4> QED BY <2>1, <2>2, <2>3, <4>1, <4>2 DEF SubmitStep, GoesOn, Calling
    <3>2. CASE SubmitReturns
      BY <2>1, <2>2, <3>2 DEF SubmitReturns, SubmitStep, Returns
    <3>3. CASE SubmitIteratorInvalid
      BY <2>1, <2>2, <3>3 DEF SubmitIteratorInvalid, SubmitStep
    <3> QED BY <1>4, <3>1, <3>2, <3>3
  <2> QED BY <2>1, <2>4 DEF LockStep
<1>5. CASE ReadyDependent \/ ReadyReturns
  <2>1. stack # <<>> /\ fault = "none" /\ f.fn = "Ready" /\ UNCHANGED fault
    BY <1>5 DEF ReadyDependent, ReadyReturns, Executing
  <2>2. ReadyStep
    <3>1. CASE ReadyDependent
      <4>1. PICK d \in f.todo :
              IF DeviceOfTask(d) # DeviceOfTask(f.task)
                THEN stack' = <<Done(d)>> \o Callers /\ UNCHANGED <<waitOn, state, recording>>
                ELSE Prune(f.task, d, <<Done(d)>> \o Callers)
        BY <3>1 DEF ReadyDependent, Done
      <4>2. UNCHANGED <<taskVars, waiters, signalled, queueVars, execQ, recorded, completionQ>>
        BY <3>1 DEF ReadyDependent
      <4>3. CASE DeviceOfTask(d) # DeviceOfTask(f.task)
        <5>1. Quiet /\ GoesOn(Done(d))
          BY <4>1, <4>2, <4>3 DEF Quiet, GoesOn, depVars, deviceVars
        <5> QED BY <2>1, <4>3, <5>1 DEF ReadyStep
      <4>4. CASE DeviceOfTask(d) = DeviceOfTask(f.task)
        <5>1. ReleaseStep(f.task, d)
          BY <4>1, <4>2, <4>4, PruneSteps
        <5> QED BY <2>1, <4>4, <5>1 DEF ReadyStep
      <4> QED BY <4>3, <4>4
    <3>2. CASE ReadyReturns
      BY <2>1, <3>2 DEF ReadyReturns, ReadyStep, Quiet, Returns
    <3> QED BY <1>5, <3>1, <3>2
  <2> QED BY <2>1, <2>2 DEF LockStep
<1>6. CASE CompleteDependent \/ CompleteReturns
  <2>1. stack # <<>> /\ fault = "none" /\ f.fn = "Complete" /\ f.error \in Error
    BY <1>1, <1>6, StackTypes, FrameFields DEF CompleteDependent, CompleteReturns, Executing
  <2>2. CompleteStep
    <3>1. CASE CompleteDependent
      <4> DEFINE callers(d) == <<Done(d)>> \o Callers
      <4>1. PICK d \in f.todo :
              IF f.error < 0
                THEN BeginComplete(d, f.error, callers(d)) /\ UNCHANGED <<waitOn, recording>>
                ELSE /\ IF f.task \in waitOn[d]
                          THEN Prune(f.task, d, callers(d))
                          ELSE stack' = callers(d) /\ UNCHANGED <<waitOn, state, recording>>
                     /\ UNCHANGED queueVars
        BY <3>1 DEF CompleteDependent, Done
      <4>2. UNCHANGED <<taskVars, waiters, signalled, execQ, recorded, completionQ, fault>>
        BY <3>1 DEF CompleteDependent, callVars
      <4>3. (f.error < 0 <=> f.error < Complete) /\ (~(f.error < 0) => f.error = Complete)
        BY <2>1 DEF Error, Complete
      <4>4. CASE f.error < 0 /\ Finished(d)
        <5>1. Quiet /\ GoesOn(Done(d))
          BY <4>1, <4>2, <4>4 DEF BeginComplete, Quiet, GoesOn, depVars, deviceVars
        <5> QED BY <2>1, <4>2, <4>3, <4>4, <5>1 DEF CompleteStep
      <4>5. CASE f.error < 0 /\ ~Finished(d)
        <5>1. /\ Ends(d, f.error)
              /\ Calling(CompleteFrame(d, f.error, waiters[d]), Done(d))
          BY <4>1, <4>2, <4>5 DEF BeginComplete, Ends, Calling, depVars, deviceVars
        <5> QED BY <2>1, <4>2, <4>3, <4>5, <5>1 DEF CompleteStep
      <4>6. CASE ~(f.error < 0) /\ f.task \in waitOn[d]
        <5>1. ReleaseStep(f.task, d)
          BY <4>1, <4>2, <4>6, PruneSteps
        <5> QED BY <2>1, <4>2, <4>3, <4>6, <5>1 DEF CompleteStep
      <4>7. CASE ~(f.error < 0) /\ f.task \notin waitOn[d]
        <5>1. Quiet /\ GoesOn(Done(d))
          BY <4>1, <4>2, <4>7 DEF Quiet, GoesOn, depVars, deviceVars
        <5> QED BY <2>1, <4>2, <4>3, <4>7, <5>1 DEF CompleteStep
      <4> QED BY <4>4, <4>5, <4>6, <4>7
    <3>2. CASE CompleteReturns
      BY <2>1, <3>2 DEF CompleteReturns, CompleteStep, Clears, Returns
    <3> QED BY <1>6, <3>1, <3>2
  <2> QED BY <2>1, <2>2 DEF LockStep
<1>7. CASE CompleteNext
  <2> DEFINE rest == [f EXCEPT !.tasks = Tail(@)]
  <2>1. stack # <<>> /\ fault = "none" /\ f.fn = "CompleteAll" /\ UNCHANGED fault
    BY <1>7 DEF CompleteNext, Executing
  <2>2. UNCHANGED <<taskVars, depVars, signalled, deviceVars>>
    BY <1>7 DEF CompleteNext
  <2>3. IF f.tasks = <<>>
          THEN stack' = Callers /\ UNCHANGED <<state, queueVars>>
          ELSE BeginComplete(Head(f.tasks), f.error, <<rest>> \o Callers)
    BY <1>7 DEF CompleteNext
  <2>4. CASE f.tasks = <<>>
    BY <2>1, <2>2, <2>3, <2>4 DEF LockStep, CompleteAllStep, Quiet, Returns
  <2>5. CASE f.tasks # <<>> /\ Finished(Head(f.tasks))
    <3>1. Quiet /\ GoesOn(rest)
      BY <2>2, <2>3, <2>5 DEF BeginComplete, Quiet, GoesOn
    <3>2. CompleteAllStep
      BY <2>1, <2>5, <3>1 DEF CompleteAllStep
    <3> QED BY <2>1, <3>2 DEF LockStep
  <2>6. CASE f.tasks # <<>> /\ ~Finished(Head(f.tasks))
    <3>1. /\ Ends(Head(f.tasks), f.error)
          /\ Calling(CompleteFrame(Head(f.tasks), f.error, waiters[Head(f.tasks)]), rest)
      BY <2>2, <2>3, <2>6 DEF BeginComplete, Ends, Calling
    <3>2. CompleteAllStep
      BY <2>1, <2>6, <3>1 DEF CompleteAllStep
    <3> QED BY <2>1, <3>2 DEF LockStep
  <2> QED BY <2>4, <2>5, <2>6
<1>8. CASE FlushAllDevices
  BY <1>8 DEF FlushAllDevices, Executing, LockStep, FlushAllStep, Flushes, Returns, depVars
<1>9. CASE WaitFlush
  <2>1. stack # <<>> /\ fault = "none" /\ f.fn = "clWaitForEvents" /\ f \in Frames
    BY <1>1, <1>9, StackTypes DEF WaitFlush, Executing
  <2>2. Quiet /\ UNCHANGED fault
    BY <1>9 DEF WaitFlush, Quiet
  <2>3. \A u \in f.todo : state[u] = Queued => home[u] \in Queue
    BY <2>1, FrameFields DEF TypeInv, QueuedHasQueue
  <2>4. WaitStep
    <3>1. CASE f.todo = {}
      BY <1>9, <2>1, <2>2, <3>1 DEF WaitFlush, WaitStep, Returns
    <3>2. CASE f.todo # {}
      <4>1. PICK u \in f.todo :
              stack' = IF state[u] = Queued
                         THEN <<FlushFrame(home[u], TRUE)>> \o (<<Done(u)>> \o Callers)
                         ELSE <<Done(u)>> \o Callers
        BY <1>9, <3>2 DEF WaitFlush, Done
      <4> QED BY <2>1, <2>2, <2>3, <4>1 DEF WaitStep, GoesOn, Calling
    <3> QED BY <3>1, <3>2
  <2> QED BY <2>1, <2>4 DEF LockStep
<1> QED
  BY <1>2, <1>3, <1>4, <1>5, <1>6, <1>7, <1>8, <1>9 DEF LockHolder

-----------------------------------------------------------------------------
(* Tasks stay in their places                                              *)

Kept == Uncreated' /\ Places' /\ Links'

(* The statuses are all different, those of Error lowest.                  *)
LEMMA StatusOrder ==
  /\ Complete = 0 /\ Running = 1 /\ Submitted = 2 /\ Queued = 3 /\ Ready = 4
  /\ Error \subseteq Int /\ \A e \in Error : e <= Complete
BY DEF Complete, Running, Submitted, Queued, Ready, Error

(* What the invariant says of one task that exists.                        *)
LEMMA TaskFacts ==
  ASSUME PoolInv, NEW t \in Created
  PROVE  /\ t \in Task /\ t \in Nat /\ t > 0 /\ t <= created /\ created \in Nat
         /\ TypeOK /\ state[t] \in Int /\ state[t] <= Ready
         /\ home[t] \in Queue \cup {NoQueue}
         /\ waitOn[t] \subseteq Created /\ waiters[t] \subseteq Created
         /\ state[t] \in {Queued, Ready, Running} => home[t] \in Queue
<1>1. TypeOK /\ t \in Task
  BY CreatedTasks DEF PoolInv, QueueInv, TypeInv
<1>2. /\ state[t] \in Status /\ t \in Nat /\ t > 0 /\ t <= created /\ created \in Nat
      /\ home[t] \in Queue \cup {NoQueue}
  BY <1>1 DEF TypeOK, Created
<1>3. state[t] \in {Queued, Ready, Running} => home[t] \in Queue
  <2>1. home[t] = NoQueue => state[t] = Submitted \/ state[t] <= Complete
    BY DEF PoolInv, Places, Finished
  <2> QED BY <1>2, <2>1, StatusOrder
<1> QED BY <1>1, <1>2, <1>3 DEF TypeOK, Status

(* The queues hold tasks.                                                  *)
LEMMA QueuedTasks ==
  ASSUME TypeOK, NEW q \in Queue
  PROVE  ToSet(queued[q]) \subseteq Created /\ Created \subseteq Task
<1>1. queued[q] \in Seq(Created)
  BY DEF TypeOK
<1> QED BY <1>1, CreatedTasks DEF ToSet

(* Removing an entry from a strictly ordered sequence removes it entirely. *)
LEMMA WithoutRemoves ==
  ASSUME NEW S \in SUBSET Int, NEW s \in Seq(S), NEW x,
         \A i, j \in 1 .. Len(s) : i < j => s[i] < s[j]
  PROVE  x \notin ToSet(Without(s, x))
<1>1. CASE x \notin ToSet(s)
  BY <1>1 DEF Without
<1>2. CASE x \in ToSet(s)
  <2> DEFINE w == Without(s, x)
  <2>1. PICK k \in 1 .. Len(s) :
          /\ s[k] = x
          /\ w \in Seq(S) /\ Len(w) = Len(s) - 1
          /\ \A i \in 1 .. Len(s) - 1 : w[i] = IF i < k THEN s[i] ELSE s[i + 1]
    BY <1>2, WithoutEntries
  <2> HIDE DEF w
  <2>2. ASSUME NEW i \in 1 .. Len(w)
        PROVE  w[i] # x
    <3> DEFINE a == IF i < k THEN i ELSE i + 1
    <3>1. a \in 1 .. Len(s) /\ w[i] = s[a] /\ a # k
      BY <2>1
    <3>2. a \in Int /\ k \in Int
      BY <3>1
    <3> HIDE DEF a
    <3>3. s[a] \in S /\ s[k] \in S
      BY <3>1
    <3>4. a < k \/ k < a
      BY <3>1, <3>2
    <3>5. s[a] < s[k] \/ s[k] < s[a]
      BY <3>1, <3>4
    <3>6. s[a] \in Int /\ s[k] \in Int
      BY <3>3
    <3> QED BY <2>1, <3>1, <3>5, <3>6
  <2> QED BY <2>1, <2>2 DEF ToSet, w
<1> QED BY <1>1, <1>2

(* The oldest task of a queue, taken out of it.                            *)
LEMMA Oldest ==
  ASSUME PoolInv, NEW q \in Queue, NEW t, Leaves(t, q)
  PROVE  /\ t \in Created /\ home[t] = q /\ state[t] = Queued
         /\ DeviceOfTask(t) = DeviceOf[q] /\ DeviceOf[q] \in Device
         /\ \A p \in Queue :
              /\ ToSet(queued'[p]) \subseteq ToSet(queued[p])
              /\ t \notin ToSet(queued'[p])
              /\ \A u \in ToSet(queued[p]) : u = t \/ u \in ToSet(queued'[p])
              /\ outstanding'[p] = IF p = q THEN outstanding[q] \cup {t} ELSE outstanding[p]
         /\ \A u \in ToSet(queued'[q]) : t < u
<1>1. /\ queued[q] \in Seq(Created) /\ Created \subseteq Int
      /\ \A i, j \in 1 .. Len(queued[q]) : i < j => queued[q][i] < queued[q][j]
      /\ \A p \in Queue : \A u \in ToSet(queued[p]) : home[u] = p /\ state[u] = Queued
      /\ TypeOK
  BY DEF PoolInv, Places, QueueInv, TypeInv, TypeOK, Created, QueuesOrdered
<1>2. /\ Tail(queued[q]) \in Seq(Created) /\ Len(Tail(queued[q])) = Len(queued[q]) - 1
      /\ Len(queued[q]) \in Nat \ {0} /\ t = queued[q][1] /\ t \in Created
      /\ \A i \in 1 .. Len(queued[q]) - 1 : Tail(queued[q])[i] = queued[q][i + 1]
      /\ ToSet(queued[q]) = {t} \cup ToSet(Tail(queued[q]))
  <2>1. queued[q] # <<>> /\ t = Head(queued[q])
    BY DEF Leaves
  <2> QED BY <1>1, <2>1, Popped
<1>3. \A u \in ToSet(Tail(queued[q])) : t < u
  <2> SUFFICES ASSUME NEW u \in ToSet(Tail(queued[q])) PROVE t < u
    OBVIOUS
  <2>1. PICK i \in 1 .. Len(queued[q]) - 1 : queued[q][i + 1] = u
    BY <1>2 DEF ToSet
  <2>2. 1 \in 1 .. Len(queued[q]) /\ i + 1 \in 1 .. Len(queued[q]) /\ 1 < i + 1
    BY <1>2
  <2> QED BY <1>1, <1>2, <2>1, <2>2
<1>4. \A p \in Queue :
        /\ queued'[p] = IF p = q THEN Tail(queued[q]) ELSE queued[p]
        /\ outstanding'[p] = IF p = q THEN outstanding[q] \cup {t} ELSE outstanding[p]
  BY <1>1 DEF Leaves, TypeOK
<1>5. t \in ToSet(queued[q]) /\ home[t] = q /\ state[t] = Queued /\ t \in Int
  BY <1>1, <1>2
<1>6. t \notin ToSet(Tail(queued[q]))
  BY <1>3, <1>5
<1>7. \A p \in Queue : p # q => t \notin ToSet(queued[p])
  BY <1>1, <1>5
<1>8. DeviceOfTask(t) = DeviceOf[q] /\ DeviceOf[q] \in Device
  BY <1>5, TaskPoolAssumption DEF DeviceOfTask
<1> QED BY <1>2, <1>3, <1>4, <1>5, <1>6, <1>7, <1>8

(* Steps that leave the tasks alone keep them in their places.             *)
LEMMA PlacesQuiet ==
  ASSUME PoolInv,
         UNCHANGED <<taskVars, state, depVars, queued, outstanding>>
  PROVE  Kept
BY DEF PoolInv, Kept, Uncreated, Places, Links, Created, Finished, taskVars, depVars

(* So does submitting the oldest task of a queue, whether it has to wait   *)
(* or not.                                                                 *)
LEMMA PlacesSubmits ==
  ASSUME PoolInv, NEW q \in Queue, NEW t, Submits(t, q) \/ SubmitsReady(t, q)
  PROVE  Kept
<1>1. /\ Leaves(t, q) /\ UNCHANGED <<taskVars, depVars>>
      /\ \E s \in {Submitted, Ready} : state' = [state EXCEPT ![t] = s]
      /\ state' = [state EXCEPT ![t] = Submitted] <=> waitOn[t] # {}
      /\ state' = [state EXCEPT ![t] = Ready] <=> waitOn[t] = {}
  <2>1. t \in Task /\ TypeOK
    BY Oldest, TaskFacts DEF Submits, SubmitsReady
  <2>2. [state EXCEPT ![t] = Submitted] # [state EXCEPT ![t] = Ready]
    BY <2>1, StatusOrder DEF TypeOK
  <2> QED BY <2>2 DEF Submits, SubmitsReady, TurnsReady, depVars
<1>2. /\ t \in Created /\ home[t] = q /\ state[t] = Queued
      /\ \A p \in Queue :
           /\ ToSet(queued'[p]) \subseteq ToSet(queued[p])
           /\ t \notin ToSet(queued'[p])
           /\ outstanding'[p] = IF p = q THEN outstanding[q] \cup {t} ELSE outstanding[p]
  <2>1. Leaves(t, q)
    BY <1>1
  <2>2. t \in Created /\ home[t] = q /\ state[t] = Queued
    BY <2>1, Oldest, Zenon
  <2>3. \A p \in Queue : ToSet(queued'[p]) \subseteq ToSet(queued[p])
    BY <2>1, Oldest
  <2>4. \A p \in Queue : t \notin ToSet(queued'[p])
    BY <2>1, Oldest
  <2>5. \A p \in Queue : outstanding'[p] = IF p = q THEN outstanding[q] \cup {t} ELSE outstanding[p]
    BY <2>1, Oldest
  <2> QED BY <2>2, <2>3, <2>4, <2>5
<1>3. TypeOK /\ t \in Task /\ t \in Nat /\ t <= created /\ created \in Nat
  BY <1>2, TaskFacts
<1>4. /\ \A u \in Task : u # t => state'[u] = state[u]
      /\ state'[t] = IF waitOn[t] = {} THEN Ready ELSE Submitted
      /\ UNCHANGED <<created, home, waitList, waitOn, waiters>>
  BY <1>1, <1>3 DEF TypeOK, taskVars, depVars
<1>5. Created \subseteq Task /\ Created' = Created /\ \A p \in Queue : ToSet(queued[p]) \subseteq Task
  <2>1. Created \subseteq Task
    BY <1>3, CreatedTasks
  <2> QED BY <1>3, <1>4, <2>1 DEF Created, TypeOK, ToSet
<1>6. Uncreated'
  <2> SUFFICES ASSUME NEW u \in Task, u > created'
               PROVE  /\ home'[u] = NoQueue /\ state'[u] = Queued
                      /\ waitOn'[u] = {} /\ waiters'[u] = {} /\ waitList'[u] = {}
    BY DEF Uncreated
  <2>1. u > created /\ u # t
    BY <1>3, <1>4
  <2> QED BY <1>4, <2>1 DEF PoolInv, Uncreated
<1>7. Places'
  <2>1. \A p \in Queue : \A u \in ToSet(queued'[p]) : state'[u] = Queued
    BY <1>2, <1>4, <1>5 DEF PoolInv, Places
  <2>2. \A p \in Queue : \A u \in Task :
          u \in outstanding'[p] <=> home'[u] = p /\ state'[u] \in {Submitted, Ready, Running}
    BY <1>2, <1>4, StatusOrder DEF PoolInv, Places
  <2>3. \A u \in Created' : home'[u] = NoQueue =>
          (state'[u] = Submitted \/ Finished(u)') /\ waitOn'[u] = {} /\ waitList'[u] = {}
    BY <1>2, <1>4, <1>5, TaskPoolAssumption DEF PoolInv, Places, Finished
  <2>4. \A u \in Task : state'[u] = Submitted /\ home'[u] # NoQueue => waitOn'[u] # {}
    BY <1>2, <1>4, StatusOrder DEF PoolInv, Places
  <2>5. \A u \in Task : state'[u] \in {Ready, Running} => waitOn'[u] = {}
    BY <1>2, <1>4, StatusOrder DEF PoolInv, Places
  <2> QED BY <2>1, <2>2, <2>3, <2>4, <2>5 DEF Places
<1>8. Links'
  <2> SUFFICES ASSUME NEW v \in Task, NEW u \in waiters[v]
               PROVE  /\ home[u] \in Queue /\ v < u
                      /\ state'[v] \in {Queued, Submitted} => v \in waitOn[u] \/ Finished(u)'
    BY <1>4 DEF Links
  <2>1. /\ home[u] \in Queue /\ v < u
        /\ state[v] \in {Queued, Submitted} => v \in waitOn[u] \/ Finished(u)
    BY DEF PoolInv, Links
  <2>2. u \in Task
    BY <1>3, <1>5 DEF TypeOK
  <2>3. Finished(u) => Finished(u)'
    BY <1>2, <1>4, <2>2, StatusOrder DEF Finished
  <2>4. state'[v] \in {Queued, Submitted} => state[v] \in {Queued, Submitted}
    BY <1>2, <1>4
  <2> QED BY <2>1, <2>3, <2>4
<1> QED BY <1>6, <1>7, <1>8 DEF Kept

(* So does releasing a task from one that is no longer to wait for.        *)
LEMMA PlacesReleases ==
  ASSUME PoolInv, NEW v \in Created, NEW d \in Created, home[d] \in Queue,
         state[v] \notin {Queued, Submitted},
         Releases(v, d) \/ ReleasesLast(v, d)
  PROVE  Kept
<1>1. /\ TypeOK /\ d \in Task /\ d <= created /\ d \in Nat /\ created \in Nat
      /\ Created \subseteq Task
  BY TaskFacts, CreatedTasks
<1>2. /\ \A u \in Task : waitOn'[u] = IF u = d THEN waitOn[d] \ {v} ELSE waitOn[u]
      /\ UNCHANGED <<created, home, waitList, waiters, queued, outstanding>>
      /\ \A u \in Task : u # d => state'[u] = state[u]
      /\ \/ state'[d] = state[d] /\ ~(waitOn[d] \subseteq {v} /\ state[d] = Submitted)
         \/ state'[d] = Ready /\ waitOn[d] \subseteq {v} /\ state[d] = Submitted
  BY <1>1 DEF TypeOK, Releases, ReleasesLast, TurnsReady, taskVars, queueVars
<1>3. Created' = Created /\ \A p \in Queue : ToSet(queued[p]) \subseteq Task
  BY <1>1, <1>2, QueuedTasks DEF Created
<1>4. Uncreated'
  BY <1>1, <1>2 DEF PoolInv, Uncreated
<1>5. Places'
  <2>1. \A p \in Queue : \A u \in ToSet(queued'[p]) : state'[u] = Queued
    BY <1>2, <1>3, StatusOrder DEF PoolInv, Places
  <2>2. \A p \in Queue : \A u \in Task :
          u \in outstanding'[p] <=> home'[u] = p /\ state'[u] \in {Submitted, Ready, Running}
    BY <1>2, StatusOrder DEF PoolInv, Places
  <2>3. \A u \in Created' : home'[u] = NoQueue =>
          (state'[u] = Submitted \/ Finished(u)') /\ waitOn'[u] = {} /\ waitList'[u] = {}
    BY <1>1, <1>2, <1>3, TaskPoolAssumption DEF PoolInv, Places, Finished
  <2>4. \A u \in Task : state'[u] = Submitted /\ home'[u] # NoQueue => waitOn'[u] # {}
    BY <1>2, StatusOrder DEF PoolInv, Places
  <2>5. \A u \in Task : state'[u] \in {Ready, Running} => waitOn'[u] = {}
    BY <1>2, StatusOrder DEF PoolInv, Places
  <2> QED BY <2>1, <2>2, <2>3, <2>4, <2>5 DEF Places
<1>6. Links'
  <2> SUFFICES ASSUME NEW w \in Task, NEW u \in waiters[w]
               PROVE  /\ home[u] \in Queue /\ w < u
                      /\ state'[w] \in {Queued, Submitted} => w \in waitOn'[u] \/ Finished(u)'
    BY <1>2 DEF Links
  <2>1. /\ home[u] \in Queue /\ w < u
        /\ state[w] \in {Queued, Submitted} => w \in waitOn[u] \/ Finished(u)
    BY DEF PoolInv, Links
  <2>2. u \in Task
    BY <1>1 DEF TypeOK
  <2>3. Finished(u) => Finished(u)'
    BY <1>2, <2>2, StatusOrder DEF Finished
  <2>4. state'[w] \in {Queued, Submitted} => state[w] \in {Queued, Submitted} /\ w # v
    BY <1>2, StatusOrder
  <2> QED BY <1>2, <2>1, <2>2, <2>3, <2>4
<1> QED BY <1>4, <1>5, <1>6 DEF Kept

(* So does the end of a task: NotifyTaskCompletion takes it out of its     *)
(* queue.                                                                  *)
LEMMA PlacesEnds ==
  ASSUME PoolInv, NEW t \in Created, NEW error \in Error, Ends(t, error)
  PROVE  Kept
<1>1. /\ TypeOK /\ t \in Task /\ t <= created /\ t \in Nat /\ created \in Nat
      /\ Created \subseteq Task
  BY TaskFacts, CreatedTasks
<1>2. /\ UNCHANGED <<created, home, waitList, waitOn, waiters>>
      /\ \A u \in Task : state'[u] = IF u = t THEN error ELSE state[u]
      /\ \A p \in Queue : outstanding'[p] = outstanding[p] \ {t}
      /\ \A p \in Queue : queued'[p] = IF p = home[t] THEN Without(queued[p], t) ELSE queued[p]
  BY <1>1 DEF TypeOK, Ends, NotifyTaskCompletion, taskVars, depVars
<1>3. \A p \in Queue : ToSet(queued'[p]) \subseteq ToSet(queued[p]) \ {t}
  <2> SUFFICES ASSUME NEW p \in Queue PROVE ToSet(queued'[p]) \subseteq ToSet(queued[p]) \ {t}
    OBVIOUS
  <2>1. /\ queued[p] \in Seq(Created) /\ Created \in SUBSET Int
        /\ \A i, j \in 1 .. Len(queued[p]) : i < j => queued[p][i] < queued[p][j]
        /\ \A u \in ToSet(queued[p]) : home[u] = p
    BY <1>1 DEF TypeOK, Created, PoolInv, QueueInv, QueuesOrdered
  <2>2. /\ ToSet(Without(queued[p], t)) \subseteq ToSet(queued[p])
        /\ t \notin ToSet(Without(queued[p], t))
    BY <2>1, WithoutType, WithoutRemoves
  <2> QED BY <1>2, <2>1, <2>2
<1>4. Created' = Created /\ \A p \in Queue : ToSet(queued[p]) \subseteq Task
  BY <1>1, <1>2, QueuedTasks DEF Created
<1>5. Uncreated'
  BY <1>1, <1>2 DEF PoolInv, Uncreated
<1>6. Places'
  <2>1. \A p \in Queue : \A u \in ToSet(queued'[p]) : state'[u] = Queued
    BY <1>2, <1>3, <1>4 DEF PoolInv, Places
  <2>2. \A p \in Queue : \A u \in Task :
          u \in outstanding'[p] <=> home'[u] = p /\ state'[u] \in {Submitted, Ready, Running}
    BY <1>2, StatusOrder DEF PoolInv, Places
  <2>3. \A u \in Created' : home'[u] = NoQueue =>
          (state'[u] = Submitted \/ Finished(u)') /\ waitOn'[u] = {} /\ waitList'[u] = {}
    BY <1>1, <1>2, <1>4, StatusOrder DEF PoolInv, Places, Finished
  <2>4. \A u \in Task : state'[u] = Submitted /\ home'[u] # NoQueue => waitOn'[u] # {}
    BY <1>2, StatusOrder DEF PoolInv, Places
  <2>5. \A u \in Task : state'[u] \in {Ready, Running} => waitOn'[u] = {}
    BY <1>2, StatusOrder DEF PoolInv, Places
  <2> QED BY <2>1, <2>2, <2>3, <2>4, <2>5 DEF Places
<1>7. Links'
  <2> SUFFICES ASSUME NEW v \in Task, NEW u \in waiters[v]
               PROVE  /\ home[u] \in Queue /\ v < u
                      /\ state'[v] \in {Queued, Submitted} => v \in waitOn[u] \/ Finished(u)'
    BY <1>2 DEF Links
  <2>1. /\ home[u] \in Queue /\ v < u
        /\ state[v] \in {Queued, Submitted} => v \in waitOn[u] \/ Finished(u)
    BY DEF PoolInv, Links
  <2>2. u \in Task
    BY <1>1 DEF TypeOK
  <2>3. Finished(u) => Finished(u)'
    BY <1>2, <2>2, StatusOrder DEF Finished
  <2>4. state'[v] \in {Queued, Submitted} => state[v] \in {Queued, Submitted}
    BY <1>2, StatusOrder
  <2> QED BY <2>1, <2>3, <2>4
<1> QED BY <1>5, <1>6, <1>7 DEF Kept

(* So does clearing the lists of a task that has ended.                    *)
LEMMA PlacesClears ==
  ASSUME PoolInv, NEW t \in Created, Finished(t), Clears(t)
  PROVE  Kept
<1>1. /\ TypeOK /\ t \in Task /\ t <= created /\ t \in Nat /\ created \in Nat
      /\ Created \subseteq Task
  BY TaskFacts, CreatedTasks
<1>2. /\ UNCHANGED <<created, home, waitList, state, queued, outstanding>>
      /\ \A u \in Task : waitOn'[u] = IF u = t THEN {} ELSE waitOn[u]
      /\ \A u \in Task : waiters'[u] = IF u = t THEN {} ELSE waiters[u]
  BY <1>1 DEF TypeOK, Clears, taskVars, queueVars
<1>3. Created' = Created /\ state[t] # Submitted
  BY <1>2, StatusOrder DEF Created, Finished
<1>4. Uncreated' /\ Places'
  BY <1>1, <1>2, <1>3 DEF PoolInv, Uncreated, Places, Finished
<1>5. Links'
  <2> SUFFICES ASSUME NEW v \in Task, NEW u \in waiters'[v]
               PROVE  /\ home[u] \in Queue /\ v < u
                      /\ state[v] \in {Queued, Submitted} => v \in waitOn'[u] \/ Finished(u)
    BY <1>2 DEF Links, Finished
  <2>1. /\ u \in waiters[v] /\ u \in Task
        /\ home[u] \in Queue /\ v < u
        /\ state[v] \in {Queued, Submitted} => v \in waitOn[u] \/ Finished(u)
    BY <1>1, <1>2 DEF TypeOK, PoolInv, Links
  <2> QED BY <1>2, <2>1
<1> QED BY <1>4, <1>5 DEF Kept

(* So does recording a task that is ready.                                 *)
LEMMA PlacesRecord ==
  ASSUME PoolInv, NEW t \in Created, state[t] = Ready,
         state' = [state EXCEPT ![t] = Running],
         UNCHANGED <<taskVars, depVars, queueVars>>
  PROVE  Kept
<1>1. /\ TypeOK /\ t \in Task /\ t <= created /\ t \in Nat /\ created \in Nat
      /\ Created \subseteq Task
  BY TaskFacts, CreatedTasks
<1>2. /\ UNCHANGED <<created, home, waitList, waitOn, waiters, queued, outstanding>>
      /\ \A u \in Task : state'[u] = IF u = t THEN Running ELSE state[u]
  BY <1>1 DEF TypeOK, taskVars, depVars, queueVars
<1>3. Created' = Created /\ \A p \in Queue : ToSet(queued[p]) \subseteq Task
  BY <1>1, <1>2, QueuedTasks DEF Created
<1>4. Uncreated'
  BY <1>1, <1>2 DEF PoolInv, Uncreated
<1>5. Places'
  <2>1. \A p \in Queue : \A u \in ToSet(queued'[p]) : state'[u] = Queued
    BY <1>2, <1>3, StatusOrder DEF PoolInv, Places
  <2>2. \A p \in Queue : \A u \in Task :
          u \in outstanding'[p] <=> home'[u] = p /\ state'[u] \in {Submitted, Ready, Running}
    BY <1>2, StatusOrder DEF PoolInv, Places
  <2>3. \A u \in Created' : home'[u] = NoQueue =>
          (state'[u] = Submitted \/ Finished(u)') /\ waitOn'[u] = {} /\ waitList'[u] = {}
    BY <1>1, <1>2, <1>3, StatusOrder DEF PoolInv, Places, Finished
  <2>4. \A u \in Task : state'[u] = Submitted /\ home'[u] # NoQueue => waitOn'[u] # {}
    BY <1>2, StatusOrder DEF PoolInv, Places
  <2>5. \A u \in Task : state'[u] \in {Ready, Running} => waitOn'[u] = {}
    BY <1>2, StatusOrder DEF PoolInv, Places
  <2> QED BY <2>1, <2>2, <2>3, <2>4, <2>5 DEF Places
<1>6. Links'
  <2> SUFFICES ASSUME NEW v \in Task, NEW u \in waiters[v]
               PROVE  /\ home[u] \in Queue /\ v < u
                      /\ state'[v] \in {Queued, Submitted} => v \in waitOn[u] \/ Finished(u)'
    BY <1>2 DEF Links
  <2>1. /\ home[u] \in Queue /\ v < u
        /\ state[v] \in {Queued, Submitted} => v \in waitOn[u] \/ Finished(u)
    BY DEF PoolInv, Links
  <2>2. u \in Task
    BY <1>1 DEF TypeOK
  <2>3. Finished(u) => Finished(u)'
    BY <1>2, <2>2, StatusOrder DEF Finished
  <2>4. state'[v] \in {Queued, Submitted} => state[v] \in {Queued, Submitted}
    BY <1>2, StatusOrder
  <2> QED BY <2>1, <2>3, <2>4
<1> QED BY <1>4, <1>5, <1>6 DEF Kept

(* So does creating a user event.                                          *)
LEMMA PlacesCreate ==
  ASSUME PoolInv, CreateUserEvent
  PROVE  Kept
<1> DEFINE t == created + 1
<1>1. /\ TypeOK /\ t \in Task /\ created \in Nat /\ t \in Nat
      /\ Created \subseteq Task
  BY CreatedTasks, TaskPoolAssumption DEF PoolInv, QueueInv, TypeInv, TypeOK, CreateUserEvent, Task
<1>2. /\ UNCHANGED <<home, waitList, waitOn, waiters, queued, outstanding>> /\ created' = t
      /\ \A u \in Task : state'[u] = IF u = t THEN Submitted ELSE state[u]
  BY <1>1 DEF TypeOK, CreateUserEvent, depVars, queueVars
<1>3. /\ Created' = Created \cup {t} /\ t \notin Created
      /\ \A p \in Queue : ToSet(queued[p]) \subseteq Created
  BY <1>1, <1>2, QueuedTasks DEF Created
<1>4. t > created /\ home[t] = NoQueue /\ state[t] = Queued /\ waitOn[t] = {} /\ waitList[t] = {}
  BY <1>1 DEF PoolInv, Uncreated
<1> HIDE DEF t
<1>5. Uncreated'
  <2> SUFFICES ASSUME NEW u \in Task, u > created'
               PROVE  /\ home'[u] = NoQueue /\ state'[u] = Queued
                      /\ waitOn'[u] = {} /\ waiters'[u] = {} /\ waitList'[u] = {}
    BY DEF Uncreated
  <2>1. u > created /\ u # t
    BY <1>1, <1>2, <1>4 DEF Task
  <2> QED BY <1>2, <2>1 DEF PoolInv, Uncreated
<1>6. Places'
  <2>1. \A p \in Queue : \A u \in ToSet(queued'[p]) : state'[u] = Queued
    <3>1. \A u \in Created : state'[u] = state[u]
      BY <1>1, <1>2, <1>3
    <3> QED BY <1>2, <1>3, <3>1 DEF PoolInv, Places
  <2>2. \A p \in Queue : \A u \in Task :
          u \in outstanding'[p] <=> home'[u] = p /\ state'[u] \in {Submitted, Ready, Running}
    BY <1>2, <1>4, StatusOrder, TaskPoolAssumption DEF PoolInv, Places
  <2>3. \A u \in Created' : home'[u] = NoQueue =>
          (state'[u] = Submitted \/ Finished(u)') /\ waitOn'[u] = {} /\ waitList'[u] = {}
    BY <1>1, <1>2, <1>3, <1>4, StatusOrder DEF PoolInv, Places, Finished
  <2>4. \A u \in Task : state'[u] = Submitted /\ home'[u] # NoQueue => waitOn'[u] # {}
    BY <1>2, <1>4, StatusOrder DEF PoolInv, Places
  <2>5. \A u \in Task : state'[u] \in {Ready, Running} => waitOn'[u] = {}
    BY <1>2, StatusOrder DEF PoolInv, Places
  <2> QED BY <2>1, <2>2, <2>3, <2>4, <2>5 DEF Places
<1>7. Links'
  <2> SUFFICES ASSUME NEW v \in Task, NEW u \in waiters[v]
               PROVE  /\ home[u] \in Queue /\ v < u
                      /\ state'[v] \in {Queued, Submitted} => v \in waitOn[u] \/ Finished(u)'
    BY <1>2 DEF Links
  <2>1. /\ home[u] \in Queue /\ v < u
        /\ state[v] \in {Queued, Submitted} => v \in waitOn[u] \/ Finished(u)
    BY DEF PoolInv, Links
  <2>2. u \in Task /\ u # t
    BY <1>1, <1>4, <2>1, TaskPoolAssumption DEF TypeOK
  <2>3. Finished(u) => Finished(u)'
    BY <1>2, <2>2, StatusOrder DEF Finished
  <2>4. state'[v] \in {Queued, Submitted} => state[v] \in {Queued, Submitted}
    BY <1>2, <1>4, StatusOrder
  <2> QED BY <2>1, <2>3, <2>4
<1> QED BY <1>5, <1>6, <1>7 DEF Kept

(* So does a clEnqueue* call: whatever it links the new task to is older.  *)
LEMMA PlacesEnqueue ==
  ASSUME PoolInv, NEW q \in Queue, NEW command, NEW W \in SUBSET Created, Enqueue(q, command, W)
  PROVE  Kept
<1> DEFINE t == created + 1
           sweep == command # "task" /\ W = {}
           deps == LinkedTo((IF sweep THEN AllTasksOf(q) ELSE W)
                      \cup ({lastTask[q], lastBarrier[q]} \ {NoTask}), DeviceOf[q])
<1>1. /\ TypeOK /\ t \in Task /\ created \in Nat /\ t \in Nat
      /\ Created \subseteq Task
  <2>1. TypeOK /\ Created \subseteq Task
    BY CreatedTasks DEF PoolInv, QueueInv, TypeInv
  <2>2. created \in 0 .. NumTasks /\ created < NumTasks
    BY <2>1 DEF TypeOK, Enqueue
  <2> QED BY <2>1, <2>2, TaskPoolAssumption DEF Task
<1>2. deps \subseteq Created
  <2>1. AllTasksOf(q) \subseteq Created
    BY <1>1, QueuedTasks DEF TypeOK, AllTasksOf
  <2>2. {lastTask[q], lastBarrier[q]} \ {NoTask} \subseteq Created
    BY <1>1 DEF TypeOK
  <2> QED BY <2>1, <2>2 DEF LinkedTo
<1>3. /\ created' = t /\ UNCHANGED <<state, outstanding>>
      /\ \A u \in Task : home'[u] = IF u = t THEN q ELSE home[u]
      /\ \A u \in Task : waitList'[u] = IF u = t THEN W ELSE waitList[u]
      /\ \A u \in Task : waitOn'[u] = IF u = t THEN deps ELSE waitOn[u]
      /\ \A u \in Task : waiters'[u] = IF u \in deps THEN waiters[u] \cup {t} ELSE waiters[u]
      /\ \A p \in Queue : queued'[p] = IF p = q THEN Append(queued[p], t) ELSE queued[p]
  BY <1>1 DEF TypeOK, Enqueue
<1> HIDE DEF deps
<1>4. /\ Created' = Created \cup {t} /\ t \notin Created /\ \A u \in Created : u < t
      /\ \A p \in Queue : ToSet(queued[p]) \subseteq Created
  BY <1>1, <1>3, QueuedTasks DEF Created
<1>5. t > created /\ home[t] = NoQueue /\ state[t] = Queued /\ waiters[t] = {}
  BY <1>1 DEF PoolInv, Uncreated
<1>6. \A p \in Queue : ToSet(queued'[p]) \subseteq ToSet(queued[p]) \cup {t}
  <2>1. ToSet(Append(queued[q], t)) = ToSet(queued[q]) \cup {t}
    <3>1. queued[q] \in Seq(Created)
      BY <1>1 DEF TypeOK
    <3> QED BY <3>1, AppendedSet
  <2> QED BY <1>3, <2>1
<1> HIDE DEF t
<1>7. Uncreated'
  <2> SUFFICES ASSUME NEW u \in Task, u > created'
               PROVE  /\ home'[u] = NoQueue /\ state'[u] = Queued
                      /\ waitOn'[u] = {} /\ waiters'[u] = {} /\ waitList'[u] = {}
    BY DEF Uncreated
  <2>1. u > created /\ u # t /\ u \notin Created
    BY <1>1, <1>3, <1>5 DEF Task, Created
  <2> QED BY <1>2, <1>3, <2>1 DEF PoolInv, Uncreated
<1>8. Places'
  <2>1. \A p \in Queue : \A u \in ToSet(queued'[p]) : state'[u] = Queued
    BY <1>3, <1>5, <1>6 DEF PoolInv, Places
  <2>2. \A p \in Queue : \A u \in Task :
          u \in outstanding'[p] <=> home'[u] = p /\ state'[u] \in {Submitted, Ready, Running}
    BY <1>3, <1>5, StatusOrder, TaskPoolAssumption DEF PoolInv, Places
  <2>3. \A u \in Created' : home'[u] = NoQueue =>
          (state'[u] = Submitted \/ Finished(u)') /\ waitOn'[u] = {} /\ waitList'[u] = {}
    <3>1. t \in Task /\ q # NoQueue /\ \A u \in Created : u \in Task /\ u # t
      BY <1>1, <1>4, TaskPoolAssumption
    <3> QED BY <1>3, <1>4, <3>1 DEF PoolInv, Places, Finished
  <2>4. \A u \in Task : state'[u] = Submitted /\ home'[u] # NoQueue => waitOn'[u] # {}
    BY <1>3, <1>5, StatusOrder DEF PoolInv, Places
  <2>5. \A u \in Task : state'[u] \in {Ready, Running} => waitOn'[u] = {}
    BY <1>3, <1>5, StatusOrder DEF PoolInv, Places
  <2> QED BY <2>1, <2>2, <2>3, <2>4, <2>5 DEF Places
<1>9. Links'
  <2> SUFFICES ASSUME NEW v \in Task, NEW u \in waiters'[v]
               PROVE  /\ home'[u] \in Queue /\ v < u
                      /\ state'[v] \in {Queued, Submitted} => v \in waitOn'[u] \/ Finished(u)'
    BY DEF Links
  <2>1. CASE u \in waiters[v]
    <3>1. /\ home[u] \in Queue /\ v < u
          /\ state[v] \in {Queued, Submitted} => v \in waitOn[u] \/ Finished(u)
      BY <2>1 DEF PoolInv, Links
    <3>2. u \in Task /\ u # t
      BY <1>1, <1>5, <2>1, <3>1, TaskPoolAssumption DEF TypeOK
    <3> QED BY <1>3, <3>1, <3>2 DEF Finished
  <2>2. CASE u \notin waiters[v]
    <3>1. u = t /\ v \in deps
      BY <1>3, <2>2
    <3> QED BY <1>1, <1>2, <1>3, <1>4, <3>1
  <2> QED BY <2>1, <2>2
<1> QED BY <1>7, <1>8, <1>9 DEF Kept

-----------------------------------------------------------------------------
(* The calls keep what they rely on                                        *)

\* While the lock is held a ready task stays ready, an ended one stays ended,
\* a task that waits for one that has failed goes on waiting until it fails
\* too, and a promise is set only by the innermost call.
Steady ==
  /\ UNCHANGED <<created, home>>
  /\ \A t \in Created : state[t] = Ready \/ Finished(t) => state'[t] = state[t]
  /\ \A d \in Created : \A v \in waitOn[d] :
       state[v] < Complete => v \in waitOn'[d] \/ Finished(d)'
  /\ \/ UNCHANGED signalled
     \/ /\ Head(stack).fn = "Complete" /\ stack' = Callers
        /\ signalled' = signalled \cup {Head(stack).task}

(* The entries of a stack: the innermost frame and those of the callers.   *)
LEMMA FramesOf ==
  ASSUME PoolInv, stack # <<>>
  PROVE  /\ stack \in Seq(Frames) /\ Callers \in Seq(Frames)
         /\ Head(stack) \in Frames /\ Head(stack) \in ToSet(stack)
         /\ ToSet(stack) = {Head(stack)} \cup ToSet(Callers)
         /\ CallHolds(Head(stack))
<1>1. stack \in Seq(Frames)
  BY DEF PoolInv, QueueInv, TypeInv, TypeOK
<1> QED BY <1>1, Popped DEF PoolInv, CallsHold, Callers

(* A call whose promise has not been set goes on holding.                  *)
LEMMA HoldsStill ==
  ASSUME PoolInv, Steady, NEW f \in ToSet(stack),
         f.fn = "Complete" => f.task \notin signalled'
  PROVE  CallHolds(f)'
<1>1. f \in Frames /\ CallHolds(f) /\ TypeOK
  BY DEF PoolInv, QueueInv, TypeInv, TypeOK, ToSet, CallsHold
<1>2. CASE f.fn = "Ready"
  BY <1>1, <1>2, FrameFields DEF CallHolds, Steady
<1>3. CASE f.fn = "Complete"
  <2>1. f.task \in Created /\ f.error \in Error /\ f.todo \subseteq Created
    BY <1>1, <1>3, FrameFields
  <2>2. Finished(f.task) /\ state[f.task] = f.error
    BY <1>1, <1>3, <2>1, StatusOrder DEF CallHolds, Finished
  <2>3. ASSUME NEW d \in f.todo, f.error < Complete
        PROVE  f.task \in waitOn'[d] \/ Finished(d)'
    <3>1. f.task \in waitOn[d] \/ Finished(d)
      BY <1>1, <1>3, <2>3 DEF CallHolds
    <3>2. d \in Created /\ (Finished(d) => Finished(d)')
      BY <2>1 DEF Steady, Finished
    <3> QED BY <2>2, <2>3, <3>1, <3>2 DEF Steady
  <2> QED BY <1>1, <1>3, <2>1, <2>2, <2>3 DEF CallHolds, Steady
<1>4. CASE f.fn \notin {"Ready", "Complete"}
  BY <1>1, <1>4 DEF CallHolds, Steady
<1> QED BY <1>2, <1>3, <1>4

(* A return leaves the other calls holding.                                *)
LEMMA CallsReturn ==
  ASSUME PoolInv, stack # <<>>, Steady, Returns
  PROVE  /\ CallsHold' /\ Nested(stack)'
         /\ Head(stack).fn # "CompleteAll" => Ending(stack') = Ending(stack)
         /\ Head(stack).fn = "CompleteAll" => Ending(stack') = <<>>
<1>1. /\ stack \in Seq(Frames) /\ stack' = Tail(stack) /\ Nested(stack) /\ CallsHold
      /\ ToSet(Tail(stack)) \subseteq ToSet(stack)
  BY FramesOf DEF PoolInv, Returns, Callers
<1>2. Nested(stack)' /\ (Head(stack).fn # "CompleteAll" => Ending(stack') = Ending(stack))
      /\ (Head(stack).fn = "CompleteAll" => Ending(stack') = <<>>)
  BY <1>1, NestedReturns
<1>3. ASSUME NEW f \in ToSet(Tail(stack))
      PROVE  f.fn = "Complete" => f.task \notin signalled'
  <2> SUFFICES ASSUME f.fn = "Complete" PROVE f.task \notin signalled'
    OBVIOUS
  <2>1. f.task \notin signalled
    BY <1>1 DEF CallsHold, CallHolds
  <2>2. ASSUME Head(stack).fn = "Complete"
        PROVE  f.task # Head(stack).task
    <3>1. /\ Tail(stack) \in Seq(Frames) /\ Len(Tail(stack)) = Len(stack) - 1
          /\ Len(stack) \in Nat \ {0} /\ Head(stack) = stack[1]
          /\ \A i \in 1 .. Len(stack) - 1 : Tail(stack)[i] = stack[i + 1]
      BY <1>1, Popped
    <3>2. PICK i \in 1 .. Len(stack) - 1 : stack[i + 1] = f
      BY <3>1 DEF ToSet
    <3>3. 1 \in 1 .. Len(stack) /\ i + 1 \in 1 .. Len(stack) /\ i + 1 # 1
      BY <3>1
    <3>4. stack[1].fn = "Complete" /\ stack[i + 1].fn = "Complete"
             => stack[1].task # stack[i + 1].task
      BY <1>1, <3>3 DEF Nested
    <3> QED BY <2>2, <3>1, <3>2, <3>4
  <2> QED BY <2>1, <2>2 DEF Steady
<1>4. CallsHold'
  BY <1>1, <1>3, HoldsStill DEF CallsHold
<1> QED BY <1>2, <1>4

(* So does an iteration of the innermost call.                             *)
LEMMA CallsGoOn ==
  ASSUME PoolInv, stack # <<>>, Steady, NEW r \in Frames, GoesOn(r),
         r.fn = Head(stack).fn, r.fn = "Complete" => r.task = Head(stack).task,
         CallHolds(r)'
  PROVE  /\ CallsHold' /\ Nested(stack)' /\ UNCHANGED signalled
         /\ Head(stack).fn # "CompleteAll" => Ending(stack') = Ending(stack)
         /\ Head(stack).fn = "CompleteAll" =>
              Ending(stack') = r.tasks /\ Ending(stack) = Head(stack).tasks
<1>1. /\ stack \in Seq(Frames) /\ stack' = <<r>> \o Tail(stack) /\ Nested(stack) /\ CallsHold
      /\ ToSet(Tail(stack)) \subseteq ToSet(stack)
  BY FramesOf DEF PoolInv, GoesOn, Callers
<1>2. /\ Nested(stack)' /\ (Head(stack).fn # "CompleteAll" => Ending(stack') = Ending(stack))
      /\ Head(stack).fn = "CompleteAll" =>
           Ending(stack') = r.tasks /\ Ending(stack) = Head(stack).tasks
  BY <1>1, NestedGoesOn
<1>3. Len(stack') = Len(stack) /\ ToSet(stack') = {r} \cup ToSet(Tail(stack))
  BY <1>1, GoneOnStack
<1>4. Len(Tail(stack)) = Len(stack) - 1 /\ Len(stack) \in Nat
  BY <1>1, Popped
<1>5. UNCHANGED signalled
  BY <1>3, <1>4 DEF Steady, Callers
<1>6. \A f \in ToSet(Tail(stack)) : CallHolds(f)'
  <2>1. \A f \in ToSet(stack) : f.fn = "Complete" => f.task \notin signalled'
    BY <1>1, <1>5 DEF CallsHold, CallHolds
  <2> QED BY <1>1, <2>1, HoldsStill
<1> QED BY <1>2, <1>3, <1>5, <1>6 DEF CallsHold

(* And a call of g made by the innermost call.                             *)
LEMMA CallsCalling ==
  ASSUME PoolInv, stack # <<>>, Steady, NEW r \in Frames, NEW g \in Frames, Calling(g, r),
         r.fn = Head(stack).fn, r.fn = "Complete" => r.task = Head(stack).task,
         g.fn # "CompleteAll", g.fn # "Ready" => r.fn # "Ready",
         g.fn = "Complete" => r.fn \in {"Complete", "CompleteAll"} /\ ~Finished(g.task),
         r.fn \in {"Complete", "CompleteAll"} => g.fn \in {"Complete", "Ready"},
         g.fn \notin {"Complete", "Ready"} =>
           r.fn \notin {"Complete", "CompleteAll", "FlushAllDevices", "Ready"},
         CallHolds(r)', CallHolds(g)'
  PROVE  /\ CallsHold' /\ Nested(stack)' /\ UNCHANGED signalled
         /\ Head(stack).fn # "CompleteAll" => Ending(stack') = Ending(stack)
         /\ Head(stack).fn = "CompleteAll" =>
              Ending(stack') = r.tasks /\ Ending(stack) = Head(stack).tasks
<1>1. /\ stack \in Seq(Frames) /\ stack' = <<g>> \o (<<r>> \o Tail(stack))
      /\ Nested(stack) /\ CallsHold
      /\ ToSet(Tail(stack)) \subseteq ToSet(stack)
  BY FramesOf DEF PoolInv, Calling, Callers
<1>2. g.fn = "Complete" =>
        \A i \in 1 .. Len(stack) : stack[i].fn = "Complete" => stack[i].task # g.task
  <2> SUFFICES ASSUME g.fn = "Complete", NEW i \in 1 .. Len(stack), stack[i].fn = "Complete",
                      stack[i].task = g.task
               PROVE  FALSE
    OBVIOUS
  <2>1. stack[i] \in ToSet(stack) /\ stack[i] \in Frames
    BY <1>1, EntryInSet
  <2>2. state[stack[i].task] = stack[i].error /\ stack[i].error \in Error
    BY <1>1, <2>1, FrameFields DEF CallsHold, CallHolds
  <2> QED BY <2>2, StatusOrder DEF Finished
<1>3. /\ Nested(stack)' /\ (Head(stack).fn # "CompleteAll" => Ending(stack') = Ending(stack))
      /\ Head(stack).fn = "CompleteAll" =>
           Ending(stack') = r.tasks /\ Ending(stack) = Head(stack).tasks
  <2> DEFINE z == <<g>> \o (<<r>> \o Tail(stack))
  <2>1. /\ Nested(z)
        /\ r.fn # "CompleteAll" => Ending(z) = Ending(stack)
        /\ r.fn = "CompleteAll" => Ending(z) = r.tasks /\ Ending(stack) = Head(stack).tasks
    BY <1>1, <1>2, NestedCalling
  <2>2. stack' = z
    BY <1>1
  <2> HIDE DEF z
  <2> QED BY <2>1, <2>2
<1>4. Len(stack') = Len(stack) + 1 /\ ToSet(stack') = {g, r} \cup ToSet(Tail(stack))
  <2>0. PICK b : b = <<r>> \o Tail(stack)
    OBVIOUS
  <2>1. /\ b \in Seq(Frames) /\ Len(b) = Len(stack)
        /\ ToSet(b) = {r} \cup ToSet(Tail(stack))
    <3>1. stack \in Seq(Frames) /\ stack # <<>>
      BY <1>1
    <3> QED BY <2>0, <3>1, GoneOnStack
  <2>2. stack' = <<g>> \o b
    BY <1>1, <2>0
  <2>3. Len(stack') = Len(b) + 1 /\ ToSet(stack') = {g} \cup ToSet(b)
    BY <2>1, <2>2, Pushed
  <2> QED BY <2>1, <2>3
<1>5. Len(Callers) = Len(stack) - 1 /\ Len(stack) \in Nat
  BY <1>1, Popped DEF Callers
<1>6. UNCHANGED signalled
  <2>1. Len(stack') # Len(Callers)
    BY <1>4, <1>5
  <2> QED BY <2>1 DEF Steady
<1>7. \A f \in ToSet(Tail(stack)) : CallHolds(f)'
  <2>1. \A f \in ToSet(stack) : f.fn = "Complete" => f.task \notin signalled'
    BY <1>1, <1>6 DEF CallsHold, CallHolds
  <2> QED BY <1>1, <2>1, HoldsStill
<1> QED BY <1>3, <1>4, <1>6, <1>7 DEF CallsHold

(* The innermost call with one of its list done holds as well.             *)
LEMMA DoneHolds ==
  ASSUME PoolInv, NEW fn \in {"SubmitTask", "Ready", "Complete", "clWaitForEvents"},
         Executing(fn), NEW x \in Head(stack).todo, Steady, UNCHANGED signalled,
         NEW r, r = Done(x)
  PROVE  CallHolds(r)'
<1>1. PICK f : f = Head(stack)
  OBVIOUS
<1>2. f \in ToSet(stack) /\ f.fn = fn /\ CallHolds(f) /\ TypeOK
  BY <1>1, FramesOf DEF Executing, PoolInv, QueueInv, TypeInv
<1>3. f.fn = "Complete" => f.task \notin signalled'
  BY <1>2 DEF CallHolds
<1>4. CallHolds(f)'
  BY <1>2, <1>3, HoldsStill
<1>5. /\ r.fn = fn /\ r.todo = f.todo \ {x}
      /\ fn # "clWaitForEvents" => r.task = f.task
      /\ fn = "Complete" => r.error = f.error
  BY <1>1, <1>2, DoneFields
<1> QED BY <1>2, <1>4, <1>5 DEF CallHolds

(* A call of Ready that begins holds.                                      *)
LEMMA NewReadyHolds ==
  ASSUME PoolInv, NEW t \in Created, UNCHANGED home, state'[t] = Ready,
         NEW g, g = ReadyFrame(t, waiters[t])
  PROVE  CallHolds(g)'
<1>1. g.fn = "Ready" /\ g.task = t /\ g.todo = waiters[t] /\ t \in Task
  BY NewFields, TaskFacts
<1>2. \A d \in waiters[t] : home[d] \in Queue /\ t < d
  BY <1>1 DEF PoolInv, Links
<1> QED BY <1>1, <1>2 DEF CallHolds

(* So does a call of Complete.                                             *)
LEMMA NewCompleteHolds ==
  ASSUME PoolInv, NEW t \in Created, NEW e \in Error, UNCHANGED <<home, waitOn, signalled>>,
         state' = [state EXCEPT ![t] = e], ~Finished(t),
         e < Complete => state[t] \in {Queued, Submitted},
         NEW g, g = CompleteFrame(t, e, waiters[t])
  PROVE  CallHolds(g)'
<1>1. /\ g.fn = "Complete" /\ g.task = t /\ g.error = e /\ g.todo = waiters[t]
      /\ t \in Task /\ waiters[t] \subseteq Created /\ TypeOK /\ Created \subseteq Task
  BY NewFields, TaskFacts, CreatedTasks
<1>2. \A d \in waiters[t] : /\ home[d] \in Queue /\ t < d
                            /\ state[t] \in {Queued, Submitted} => t \in waitOn[d] \/ Finished(d)
  BY <1>1 DEF PoolInv, Links
<1>3. t \notin signalled
  BY DEF PoolInv, PromisesOnce
<1>4. state'[t] = e /\ \A d \in Task : d # t => state'[d] = state[d]
  BY <1>1 DEF TypeOK
<1>5. \A d \in waiters[t] : Finished(d) => Finished(d)'
  BY <1>1, <1>4 DEF Finished
<1> QED BY <1>1, <1>2, <1>3, <1>4, <1>5 DEF CallHolds

-----------------------------------------------------------------------------
(* What the steps of the lock holder can be                                *)

\* A task that is ready releases those of its device, one that is complete
\* all others.  Only a task that has not begun is failed along with another;
\* what a submission completes has been recorded.
LockEffect ==
  \/ Quiet
  \/ \E q \in Queue, t \in Created : Submits(t, q) \/ SubmitsReady(t, q)
  \/ \E v \in Created, d \in Created :
       /\ state[v] \in {Ready, Complete} /\ home[d] \in Queue
       /\ state[v] = Ready => DeviceOfTask(d) = DeviceOfTask(v)
       /\ Releases(v, d) \/ ReleasesLast(v, d)
  \/ \E t \in Created, e \in Error :
       /\ state[t] \in {Queued, Submitted} /\ Ends(t, e)
       /\ e < Complete /\ \E u \in Created : state[u] = e
  \/ /\ Head(stack).fn = "CompleteAll"
     /\ \E t \in Created, e \in Error : state[t] = Running /\ Ends(t, e)
  \/ \E t \in Created : /\ Finished(t) /\ Clears(t)
                        /\ Head(stack).fn = "Complete" /\ Head(stack).task = t /\ Returns
  \/ \E S : Flushes(S)

(* A task that waits for another is not running yet.                       *)
LEMMA WaitingStates ==
  ASSUME PoolInv, NEW d \in Created, waitOn[d] # {}, ~Finished(d)
  PROVE  state[d] \in {Queued, Submitted}
<1>1. d \in Task /\ state[d] \in Int /\ state[d] <= Ready
  BY TaskFacts
<1>2. state[d] \notin {Ready, Running} /\ ~(state[d] <= Complete)
  BY <1>1 DEF PoolInv, Places, Finished
<1> QED BY <1>1, <1>2, StatusOrder

(* The types of a device's submissions.                                    *)
LEMMA LaneTypes ==
  ASSUME TypeOK, NEW d \in Device
  PROVE  /\ completionQ[d] \in Seq(Seq(Created)) /\ Len(completionQ[d]) \in Nat
         /\ execQ[d] \in Seq(Seq(Created)) /\ Len(execQ[d]) \in Nat
         /\ recording[d] \in Seq(Created) /\ Len(recording[d]) \in Nat
         /\ recorded[d] \in Nat
         /\ LastBatch(d) = Len(completionQ[d]) + Len(execQ[d]) + 2
         /\ LastBatch(d) \in Nat \ {0} /\ LastBatch(d) >= 2
<1>1. /\ completionQ[d] \in Seq(Seq(Created)) /\ execQ[d] \in Seq(Seq(Created))
      /\ recording[d] \in Seq(Created) /\ recorded[d] \in Nat
  BY DEF TypeOK
<1>2. Len(completionQ[d]) \in Nat /\ Len(execQ[d]) \in Nat /\ Len(recording[d]) \in Nat
  BY <1>1
<1>3. LastBatch(d) = Len(completionQ[d]) + Len(execQ[d]) + 2
  BY DEF LastBatch
<1>4. \A m, n \in Nat : m + n + 2 \in Nat \ {0} /\ m + n + 2 >= 2
  OBVIOUS
<1>5. LastBatch(d) \in Nat \ {0} /\ LastBatch(d) >= 2
  BY <1>2, <1>3, <1>4
<1> QED BY <1>1, <1>2, <1>3, <1>5

(* The tasks of the submission being completed are running.                *)
LEMMA EndingRuns ==
  ASSUME PoolInv, stack # <<>>, Head(stack).fn = "CompleteAll", Head(stack).tasks # <<>>
  PROVE  LET t == Head(Head(stack).tasks) IN
         /\ t \in Created /\ state[t] = Running
         /\ Ending(stack) = Head(stack).tasks /\ Head(stack).tasks \in Seq(Created)
<1> DEFINE f == Head(stack)
           t == Head(f.tasks)
<1>1. f \in Frames /\ f.tasks \in Seq(Created) /\ stack \in Seq(Frames) /\ f = stack[1] /\ TypeOK
  BY FramesOf, FrameFields, Popped DEF PoolInv, QueueInv, TypeInv
<1>2. /\ t \in Created /\ f.tasks[1] = t /\ 1 \in 1 .. Len(f.tasks)
  BY <1>1, Popped
<1>3. 1 \in 1 .. Len(stack)
  BY <1>1, Popped
<1>4. 1 = Len(stack) - 1
  BY <1>1, <1>3 DEF PoolInv, Nested
<1>5. Ending(stack) = f.tasks
  BY <1>1, <1>3, <1>4 DEF Ending
<1> HIDE DEF f, t
<1>6. home[t] \in Queue
  <2>1. f \in ToSet(stack) /\ t \in ToSet(f.tasks)
    BY <1>1, <1>2, EntryInSet, FramesOf DEF f
  <2> QED BY <2>1 DEF PoolInv, CallsHold, CallHolds, f
<1>7. PICK d \in Device : d = DeviceOf[home[t]]
  BY <1>6, TaskPoolAssumption
<1>8. At(d, 1, 1, t) /\ Passed(d, 1, 1) /\ t \in Task
  <2>1. Len(completionQ[d]) \in Nat /\ LastBatch(d) \in Nat \ {0}
    BY <1>1, LaneTypes
  <2>2. Batch(d, 1) = f.tasks
    BY <1>5 DEF Batch
  <2>3. 1 <= Len(completionQ[d]) + 1 /\ 1 \in 1 .. LastBatch(d)
    BY <2>1
  <2> QED BY <1>2, <2>2, <2>3, TaskFacts DEF At, Passed
<1>9. state[t] = Running
  BY <1>8 DEF PoolInv, Lanes
<1> QED BY <1>1, <1>2, <1>5, <1>9 DEF f, t

(* A release by the innermost call, of a task it has on its list.          *)
LEMMA ReleaseEffect ==
  ASSUME PoolInv, NEW v \in Created, NEW d \in Created, state[v] \in {Ready, Complete},
         state[v] = Ready => DeviceOfTask(d) = DeviceOfTask(v),
         home[d] \in Queue, ReleaseStep(v, d)
  PROVE  LockEffect
BY DEF LockEffect, ReleaseStep

(* Every step of the lock holder has one of these effects.                 *)
LEMMA LockEffects ==
  ASSUME PoolInv, LockStep
  PROVE  LockEffect
<1> DEFINE f == Head(stack)
<1>1. /\ stack # <<>> /\ fault = "none" /\ f \in Frames /\ CallHolds(f) /\ TypeOK
  BY FramesOf DEF LockStep, PoolInv, QueueInv, TypeInv
<1>2. CASE FlushStep
  BY <1>2 DEF FlushStep, LockEffect
<1>3. CASE SubmitStep \/ WaitStep
  BY <1>3 DEF SubmitStep, WaitStep, LockEffect
<1>4. CASE ReadyStep
  <2>1. f.fn = "Ready" /\ f.task \in Created /\ f.todo \subseteq Created
    BY <1>1, <1>4, FrameFields DEF ReadyStep
  <2>2. state[f.task] = Ready /\ \A d \in f.todo : home[d] \in Queue
    BY <1>1, <2>1 DEF CallHolds
  <2>3. CASE Quiet
    BY <2>3 DEF LockEffect
  <2>4. ASSUME NEW d \in f.todo, DeviceOfTask(d) = DeviceOfTask(f.task), ReleaseStep(f.task, d)
        PROVE  LockEffect
    BY <2>1, <2>2, <2>4, ReleaseEffect
  <2> QED BY <1>4, <2>3, <2>4 DEF ReadyStep
<1>5. CASE CompleteStep
  <2>1. f.fn = "Complete" /\ f.task \in Created /\ f.todo \subseteq Created /\ f.error \in Error
    BY <1>1, <1>5, FrameFields DEF CompleteStep
  <2>2. /\ state[f.task] = f.error
        /\ \A d \in f.todo : /\ home[d] \in Queue
                             /\ f.error < Complete => f.task \in waitOn[d] \/ Finished(d)
    BY <1>1, <2>1 DEF CallHolds
  <2>3. CASE Quiet
    BY <2>3 DEF LockEffect
  <2>4. ASSUME NEW d \in f.todo, f.error < Complete, Ends(d, f.error)
        PROVE  LockEffect
    <3>1. d \in Created /\ waitOn[d] # {} /\ ~Finished(d)
      BY <2>1, <2>2, <2>4 DEF Ends
    <3>2. state[d] \in {Queued, Submitted}
      BY <3>1, WaitingStates
    <3> QED BY <2>1, <2>2, <2>4, <3>1, <3>2 DEF LockEffect
  <2>5. ASSUME NEW d \in f.todo, f.error = Complete, ReleaseStep(f.task, d)
        PROVE  LockEffect
    BY <2>1, <2>2, <2>5, StatusOrder, ReleaseEffect
  <2>6. CASE Clears(f.task) /\ Returns
    <3>1. Finished(f.task)
      BY <2>1, <2>2, StatusOrder DEF Finished
    <3> QED BY <2>1, <2>6, <3>1 DEF LockEffect
  <2> QED BY <1>5, <2>3, <2>4, <2>5, <2>6 DEF CompleteStep
<1>6. CASE CompleteAllStep
  <2>1. CASE Quiet
    BY <2>1 DEF LockEffect
  <2>2. CASE f.tasks # <<>> /\ Ends(Head(f.tasks), f.error)
    <3>1. Head(f.tasks) \in Created /\ state[Head(f.tasks)] = Running
      BY <1>1, <1>6, <2>2, EndingRuns DEF CompleteAllStep
    <3>2. f.error \in Error /\ f.fn = "CompleteAll"
      BY <1>1, <1>6, FrameFields DEF CompleteAllStep
    <3> QED BY <2>2, <3>1, <3>2 DEF LockEffect
  <2> QED BY <1>6, <2>1, <2>2 DEF CompleteAllStep
<1>7. CASE FlushAllStep
  BY <1>7 DEF FlushAllStep, LockEffect
<1> QED BY <1>2, <1>3, <1>4, <1>5, <1>6, <1>7 DEF LockStep

(* All of them keep the tasks in their places.                             *)
LEMMA EffectKept ==
  ASSUME PoolInv, LockEffect
  PROVE  Kept
<1>1. CASE Quiet \/ \E S : Flushes(S)
  BY <1>1, PlacesQuiet DEF Quiet, Flushes, queueVars
<1>2. CASE \E q \in Queue, t \in Created : Submits(t, q) \/ SubmitsReady(t, q)
  BY <1>2, PlacesSubmits
<1>3. CASE \E v \in Created, d \in Created :
             /\ state[v] \in {Ready, Complete} /\ home[d] \in Queue
             /\ Releases(v, d) \/ ReleasesLast(v, d)
  <2>1. Ready \notin {Queued, Submitted} /\ Complete \notin {Queued, Submitted}
    BY StatusOrder
  <2> QED BY <1>3, <2>1, PlacesReleases
<1>4. CASE \E t \in Created, e \in Error : Ends(t, e)
  BY <1>4, PlacesEnds
<1>5. CASE \E t \in Created : Finished(t) /\ Clears(t)
  BY <1>5, PlacesClears
<1> QED BY <1>1, <1>2, <1>3, <1>4, <1>5 DEF LockEffect

(* All of them leave the statuses the calls rely on.                       *)
LEMMA EffectSteady ==
  ASSUME PoolInv, LockEffect
  PROVE  Steady
<1>1. TypeOK /\ Created \subseteq Task
  BY CreatedTasks DEF PoolInv, QueueInv, TypeInv
<1>2. CASE Quiet \/ \E S : Flushes(S)
  BY <1>2 DEF Quiet, Flushes, Steady, taskVars, depVars
<1>3. ASSUME NEW t \in Created, NEW s \in Status, state' = [state EXCEPT ![t] = s],
             state[t] # Ready, ~Finished(t)
      PROVE  \A u \in Created : state[u] = Ready \/ Finished(u) => state'[u] = state[u]
  BY <1>1, <1>3 DEF TypeOK
<1>4. CASE \E q \in Queue, t \in Created : Submits(t, q) \/ SubmitsReady(t, q)
  <2>1. PICK q \in Queue, t \in Created : Submits(t, q) \/ SubmitsReady(t, q)
    BY <1>4
  <2>2. Leaves(t, q) /\ UNCHANGED <<created, home, waitOn, signalled>>
    BY <2>1 DEF Submits, SubmitsReady, TurnsReady, taskVars, depVars
  <2>3. state[t] = Queued
    BY <2>2, Oldest, Zenon
  <2>4. state[t] # Ready /\ ~Finished(t)
    BY <2>3, StatusOrder DEF Finished
  <2>5. \E s \in Status : state' = [state EXCEPT ![t] = s]
    BY <2>1, Statuses DEF Submits, SubmitsReady, TurnsReady
  <2> QED BY <1>3, <2>2, <2>4, <2>5 DEF Steady
<1>5. CASE \E v \in Created, d \in Created :
             /\ state[v] \in {Ready, Complete} /\ home[d] \in Queue
             /\ Releases(v, d) \/ ReleasesLast(v, d)
  <2>1. PICK v \in Created, d \in Created :
             /\ state[v] \in {Ready, Complete} /\ home[d] \in Queue
             /\ Releases(v, d) \/ ReleasesLast(v, d)
    BY <1>5
  <2>2. /\ UNCHANGED <<created, home, signalled>>
        /\ waitOn' = [waitOn EXCEPT ![d] = @ \ {v}]
    BY <2>1 DEF Releases, ReleasesLast, TurnsReady, taskVars
  <2>3. ~(state[v] < Complete) /\ \A w \in Created : state[w] < Complete => w # v
    BY <2>1, StatusOrder
  <2>4. \A u \in Created : \A w \in waitOn[u] : state[w] < Complete => w \in waitOn'[u]
    BY <1>1, <2>2, <2>3 DEF TypeOK
  <2>5. \A u \in Created : state[u] = Ready \/ Finished(u) => state'[u] = state[u]
    <3>1. CASE Releases(v, d)
      BY <3>1 DEF Releases
    <3>2. CASE ReleasesLast(v, d)
      <4>1. state[d] # Ready /\ ~Finished(d) /\ state' = [state EXCEPT ![d] = Ready]
        BY <3>2, StatusOrder DEF ReleasesLast, TurnsReady, Finished
      <4> QED BY <1>3, <4>1, Statuses
    <3> QED BY <2>1, <3>1, <3>2
  <2> QED BY <2>2, <2>4, <2>5 DEF Steady
<1>6. CASE \E t \in Created, e \in Error : state[t] \in {Queued, Submitted, Running} /\ Ends(t, e)
  <2>1. PICK t \in Created, e \in Error : state[t] \in {Queued, Submitted, Running} /\ Ends(t, e)
    BY <1>6
  <2>2. /\ UNCHANGED <<created, home, waitOn, signalled>>
        /\ ~Finished(t) /\ state' = [state EXCEPT ![t] = e] /\ e \in Status /\ state[t] # Ready
    BY <2>1, Statuses, StatusOrder DEF Ends, taskVars, depVars
  <2> QED BY <1>3, <2>2 DEF Steady
<1>7. CASE \E t \in Created : /\ Finished(t) /\ Clears(t)
                              /\ Head(stack).fn = "Complete" /\ Head(stack).task = t /\ Returns
  <2>1. PICK t \in Created : /\ Finished(t) /\ Clears(t)
                             /\ Head(stack).fn = "Complete" /\ Head(stack).task = t /\ Returns
    BY <1>7
  <2>2. /\ UNCHANGED <<created, home, state>> /\ signalled' = signalled \cup {Head(stack).task}
        /\ Head(stack).fn = "Complete" /\ stack' = Callers
        /\ waitOn' = [waitOn EXCEPT ![t] = {}]
    BY <2>1 DEF Clears, Returns, taskVars
  <2>3. \A u \in Created : u # t => waitOn'[u] = waitOn[u]
    BY <1>1, <2>2 DEF TypeOK
  <2> QED BY <2>1, <2>2, <2>3 DEF Steady, Finished
<1> QED BY <1>2, <1>4, <1>5, <1>6, <1>7 DEF LockEffect

\* What a step of the lock holder leaves of the calls: all hold, nested as
\* they must be; the submission being completed is the same unless one of its
\* tasks is completed.
CallsKept ==
  /\ CallsHold' /\ Nested(stack)'
  /\ Head(stack).fn # "CompleteAll" => Ending(stack') = Ending(stack)
  /\ Head(stack).fn = "CompleteAll" =>
       /\ Ending(stack) = Head(stack).tasks
       /\ \/ Quiet /\ Ending(stack') = Ending(stack)
          \/ /\ Ending(stack) # <<>> /\ Ends(Head(Ending(stack)), Complete)
             /\ Ending(stack') = Tail(Ending(stack))

(* The submission being completed is the one in the innermost frame, when  *)
(* that is the loop over it.                                               *)
LEMMA EndingIs ==
  ASSUME PoolInv, stack # <<>>, Head(stack).fn = "CompleteAll"
  PROVE  Ending(stack) = Head(stack).tasks
<1>1. stack \in Seq(Frames) /\ Head(stack) = stack[1] /\ 1 \in 1 .. Len(stack)
  BY FramesOf, Popped
<1>2. 1 = Len(stack) - 1
  BY <1>1 DEF PoolInv, Nested
<1> QED BY <1>1, <1>2 DEF Ending

(* A release keeps the calls, whichever call makes it.                     *)
LEMMA ReleaseCalls ==
  ASSUME PoolInv, Steady, NEW fn \in {"Ready", "Complete"}, Executing(fn),
         NEW d \in Head(stack).todo, ReleaseStep(Head(stack).task, d)
  PROVE  CallsKept
<1>1. /\ stack # <<>> /\ Head(stack).fn = fn /\ d \in Created /\ TypeOK
      /\ Done(d) \in Frames /\ Done(d).fn = fn /\ Done(d).task = Head(stack).task
  BY DoneFields DEF Executing, PoolInv, QueueInv, TypeInv
<1>2. UNCHANGED <<home, signalled>>
  BY DEF ReleaseStep, Releases, ReleasesLast, TurnsReady, taskVars
<1>3. PICK r : r = Done(d)
  OBVIOUS
<1>4. CallHolds(r)'
  BY <1>1, <1>2, <1>3, DoneHolds
<1>5. CASE Releases(Head(stack).task, d) /\ GoesOn(Done(d))
  <2>1. r \in Frames /\ GoesOn(r) /\ r.fn = Head(stack).fn /\ r.task = Head(stack).task
    BY <1>1, <1>3, <1>5
  <2>2. /\ CallsHold' /\ Nested(stack)'
        /\ Head(stack).fn # "CompleteAll" => Ending(stack') = Ending(stack)
    BY <1>1, <1>4, <2>1, CallsGoOn
  <2> QED BY <1>1, <2>2 DEF CallsKept
<1>6. CASE ReleasesLast(Head(stack).task, d) /\ Calling(ReadyFrame(d, waiters[d]), Done(d))
  <2>1. PICK g : g = ReadyFrame(d, waiters[d])
    OBVIOUS
  <2>2. /\ r \in Frames /\ Calling(g, r) /\ r.fn = Head(stack).fn /\ r.task = Head(stack).task
        /\ g \in Frames /\ g.fn = "Ready"
    BY <1>1, <1>3, <1>6, <2>1, TaskFacts, FrameTypes, NewFields
  <2>3. state'[d] = Ready
    BY <1>1, <1>6, TaskFacts DEF ReleasesLast, TurnsReady, TypeOK
  <2>4. CallHolds(g)'
    BY <1>1, <1>2, <2>1, <2>3, NewReadyHolds
  <2>5. /\ CallsHold' /\ Nested(stack)'
        /\ Head(stack).fn # "CompleteAll" => Ending(stack') = Ending(stack)
    BY <1>1, <1>4, <2>2, <2>4, CallsCalling
  <2> QED BY <1>1, <2>5 DEF CallsKept
<1> QED BY <1>5, <1>6 DEF ReleaseStep

(* A loop that only flushes queues keeps the calls.                        *)
LEMMA LoopCalls ==
  ASSUME PoolInv, Steady, UNCHANGED signalled, NEW fn \in {"SubmitTask", "clWaitForEvents"},
         Executing(fn), NEW u \in Head(stack).todo,
         \/ GoesOn(Done(u))
         \/ home[u] \in Queue /\ \E b \in BOOLEAN : Calling(FlushFrame(home[u], b), Done(u))
  PROVE  CallsKept
<1>1. /\ stack # <<>> /\ Head(stack).fn = fn /\ TypeOK
      /\ Done(u) \in Frames /\ Done(u).fn = fn
  BY DoneFields DEF Executing, PoolInv, QueueInv, TypeInv
<1>2. PICK r : r = Done(u)
  OBVIOUS
<1>3. CallHolds(r)' /\ r \in Frames /\ r.fn = fn
  BY <1>1, <1>2, DoneHolds
<1>4. CASE GoesOn(Done(u))
  <2>1. GoesOn(r)
    BY <1>2, <1>4
  <2>2. /\ CallsHold' /\ Nested(stack)'
        /\ Head(stack).fn # "CompleteAll" => Ending(stack') = Ending(stack)
    BY <1>1, <1>3, <2>1, CallsGoOn
  <2> QED BY <1>1, <2>2 DEF CallsKept
<1>5. ASSUME home[u] \in Queue, NEW b \in BOOLEAN, Calling(FlushFrame(home[u], b), Done(u))
      PROVE  CallsKept
  <2>1. PICK g : g = FlushFrame(home[u], b)
    OBVIOUS
  <2>2. Calling(g, r) /\ g \in Frames /\ g.fn = "Flush"
    BY <1>2, <1>5, <2>1, FrameTypes, NewFields
  <2>3. CallHolds(g)'
    BY <2>2 DEF CallHolds
  <2>4. /\ CallsHold' /\ Nested(stack)'
        /\ Head(stack).fn # "CompleteAll" => Ending(stack') = Ending(stack)
    BY <1>1, <1>3, <2>2, <2>3, CallsCalling
  <2> QED BY <1>1, <2>4 DEF CallsKept
<1> QED BY <1>4, <1>5

(* So does a call of Complete for a task that has not ended.               *)
LEMMA EndCalls ==
  ASSUME PoolInv, Steady, stack # <<>>, NEW t \in Created, NEW e \in Error, Ends(t, e),
         e < Complete => state[t] \in {Queued, Submitted},
         NEW r \in Frames, r.fn = Head(stack).fn, r.fn \in {"Complete", "CompleteAll"},
         r.fn = "Complete" => r.task = Head(stack).task,
         Calling(CompleteFrame(t, e, waiters[t]), r), CallHolds(r)'
  PROVE  /\ CallsHold' /\ Nested(stack)'
         /\ Head(stack).fn # "CompleteAll" => Ending(stack') = Ending(stack)
         /\ Head(stack).fn = "CompleteAll" =>
              Ending(stack') = r.tasks /\ Ending(stack) = Head(stack).tasks
<1>1. PICK g : g = CompleteFrame(t, e, waiters[t])
  OBVIOUS
<1>2. /\ ~Finished(t) /\ state' = [state EXCEPT ![t] = e]
      /\ UNCHANGED <<home, waitOn, signalled>>
  BY DEF Ends, taskVars, depVars
<1>3. CallHolds(g)'
  BY <1>1, <1>2, NewCompleteHolds
<1>4. Calling(g, r) /\ g \in Frames /\ g.fn = "Complete" /\ g.task = t
  BY <1>1, TaskFacts, FrameTypes, NewFields
<1> QED BY <1>2, <1>3, <1>4, CallsCalling

(* Every step of the lock holder keeps the calls.                          *)
LEMMA LockCalls ==
  ASSUME PoolInv, LockStep
  PROVE  CallsKept
<1> DEFINE f == Head(stack)
<1>1. /\ stack # <<>> /\ fault = "none" /\ f \in Frames /\ CallHolds(f) /\ TypeOK
      /\ stack \in Seq(Frames) /\ f \in ToSet(stack) /\ Steady
  BY FramesOf, LockEffects, EffectSteady DEF LockStep, PoolInv, QueueInv, TypeInv
<1>2. ASSUME Returns, f.fn # "CompleteAll"
      PROVE  CallsKept
  BY <1>1, <1>2, CallsReturn DEF CallsKept
<1>3. CASE FlushStep
  <2>1. f.fn = "Flush" /\ UNCHANGED home
    BY <1>1, <1>3 DEF FlushStep, Steady
  <2>2. PICK r : r = f
    OBVIOUS
  <2>3. CallHolds(r)' /\ r \in Frames /\ r.fn = "Flush"
    BY <1>1, <2>1, <2>2 DEF CallHolds
  <2>4. ASSUME NEW t \in Created, Submits(t, f.queue),
               Calling(SubmitFrame(t, waitOn[t], waitOn[t]), f)
        PROVE  CallsKept
    <3>1. PICK g : g = SubmitFrame(t, waitOn[t], waitOn[t])
      OBVIOUS
    <3>2. Calling(g, r) /\ g \in Frames /\ g.fn = "SubmitTask"
      BY <2>2, <2>4, <3>1, TaskFacts, FrameTypes, NewFields
    <3>3. CallHolds(g)'
      BY <3>2 DEF CallHolds
    <3>4. /\ CallsHold' /\ Nested(stack)'
          /\ Head(stack).fn # "CompleteAll" => Ending(stack') = Ending(stack)
      BY <1>1, <2>1, <2>3, <3>2, <3>3, CallsCalling
    <3> QED BY <2>1, <3>4 DEF CallsKept
  <2>5. ASSUME NEW t \in Created, SubmitsReady(t, f.queue),
               Calling(ReadyFrame(t, waiters[t]), f)
        PROVE  CallsKept
    <3>1. PICK g : g = ReadyFrame(t, waiters[t])
      OBVIOUS
    <3>2. Calling(g, r) /\ g \in Frames /\ g.fn = "Ready"
      BY <2>2, <2>5, <3>1, TaskFacts, FrameTypes, NewFields
    <3>3. state'[t] = Ready
      BY <1>1, <2>5, TaskFacts DEF SubmitsReady, TurnsReady, TypeOK
    <3>4. CallHolds(g)'
      BY <2>1, <3>1, <3>3, NewReadyHolds
    <3>5. /\ CallsHold' /\ Nested(stack)'
          /\ Head(stack).fn # "CompleteAll" => Ending(stack') = Ending(stack)
      BY <1>1, <2>1, <2>3, <3>2, <3>4, CallsCalling
    <3> QED BY <2>1, <3>5 DEF CallsKept
  <2>6. CASE Returns
    BY <1>2, <2>1, <2>6
  <2> QED BY <1>3, <2>4, <2>5, <2>6 DEF FlushStep
<1>4. CASE SubmitStep
  <2>1. f.fn = "SubmitTask" /\ UNCHANGED signalled /\ Executing("SubmitTask")
    BY <1>1, <1>4 DEF SubmitStep, Quiet, Executing
  <2>2. CASE Returns
    BY <1>2, <2>1, <2>2
  <2>3. CASE \E u \in f.todo :
               \/ GoesOn(Done(u))
               \/ home[u] \in Queue /\ Calling(FlushFrame(home[u], FALSE), Done(u))
    BY <1>1, <2>1, <2>3, LoopCalls
  <2>4. CASE UNCHANGED stack
    <3>1. \A g \in ToSet(stack) : g.fn = "Complete" => g.task \notin signalled'
      BY <2>1 DEF PoolInv, CallsHold, CallHolds
    <3>2. \A g \in ToSet(stack) : CallHolds(g)'
      BY <1>1, <3>1, HoldsStill
    <3> QED BY <2>1, <2>4, <3>2 DEF PoolInv, CallsKept, CallsHold
  <2> QED BY <1>4, <2>2, <2>3, <2>4 DEF SubmitStep
<1>5. CASE WaitStep
  <2>1. f.fn = "clWaitForEvents" /\ UNCHANGED signalled /\ Executing("clWaitForEvents")
    BY <1>1, <1>5 DEF WaitStep, Quiet, Executing
  <2>2. CASE Returns
    BY <1>2, <2>1, <2>2
  <2>3. CASE \E u \in f.todo :
               \/ GoesOn(Done(u))
               \/ home[u] \in Queue /\ Calling(FlushFrame(home[u], TRUE), Done(u))
    BY <1>1, <2>1, <2>3, LoopCalls
  <2> QED BY <1>5, <2>2, <2>3 DEF WaitStep
<1>6. CASE FlushAllStep
  BY <1>2, <1>6 DEF FlushAllStep
<1>7. CASE ReadyStep
  <2>1. f.fn = "Ready" /\ Executing("Ready")
    BY <1>1, <1>7 DEF ReadyStep, Executing
  <2>2. CASE Returns
    BY <1>2, <2>1, <2>2
  <2>3. ASSUME NEW d \in f.todo, Quiet, GoesOn(Done(d))
        PROVE  CallsKept
    <3>1. PICK r : r = Done(d)
      OBVIOUS
    <3>2. /\ r \in Frames /\ r.fn = "Ready" /\ GoesOn(r) /\ CallHolds(r)'
      BY <1>1, <2>1, <2>3, <3>1, DoneFields, DoneHolds DEF Quiet
    <3>3. /\ CallsHold' /\ Nested(stack)'
          /\ Head(stack).fn # "CompleteAll" => Ending(stack') = Ending(stack)
      BY <1>1, <2>1, <3>2, CallsGoOn
    <3> QED BY <2>1, <3>3 DEF CallsKept
  <2>4. ASSUME NEW d \in f.todo, ReleaseStep(f.task, d)
        PROVE  CallsKept
    BY <1>1, <2>1, <2>4, ReleaseCalls
  <2> QED BY <1>7, <2>2, <2>3, <2>4 DEF ReadyStep
<1>8. CASE CompleteStep
  <2>1. /\ f.fn = "Complete" /\ Executing("Complete")
        /\ f.task \in Created /\ f.todo \subseteq Created /\ f.error \in Error
    BY <1>1, <1>8, FrameFields DEF CompleteStep, Executing
  <2>2. CASE Returns
    BY <1>2, <2>1, <2>2
  <2>3. ASSUME NEW d \in f.todo, Quiet, GoesOn(Done(d))
        PROVE  CallsKept
    <3>1. PICK r : r = Done(d)
      OBVIOUS
    <3>2. /\ r \in Frames /\ r.fn = "Complete" /\ r.task = f.task /\ GoesOn(r) /\ CallHolds(r)'
      BY <1>1, <2>1, <2>3, <3>1, DoneFields, DoneHolds DEF Quiet
    <3>3. /\ CallsHold' /\ Nested(stack)'
          /\ Head(stack).fn # "CompleteAll" => Ending(stack') = Ending(stack)
      BY <1>1, <2>1, <3>2, CallsGoOn
    <3> QED BY <2>1, <3>3 DEF CallsKept
  <2>4. ASSUME NEW d \in f.todo, f.error < Complete, Ends(d, f.error),
               Calling(CompleteFrame(d, f.error, waiters[d]), Done(d))
        PROVE  CallsKept
    <3>1. PICK r : r = Done(d)
      OBVIOUS
    <3>2. /\ r \in Frames /\ r.fn = "Complete" /\ r.task = f.task /\ CallHolds(r)'
          /\ Calling(CompleteFrame(d, f.error, waiters[d]), r)
      BY <1>1, <2>1, <2>4, <3>1, DoneFields, DoneHolds DEF Ends
    <3>3. d \in Created /\ state[d] \in {Queued, Submitted}
      <4>1. d \in Created /\ waitOn[d] # {} /\ ~Finished(d)
        BY <1>1, <2>1, <2>4 DEF Ends, CallHolds
      <4> QED BY <4>1, WaitingStates
    <3>4. /\ CallsHold' /\ Nested(stack)'
          /\ Head(stack).fn # "CompleteAll" => Ending(stack') = Ending(stack)
      BY <1>1, <2>1, <2>4, <3>2, <3>3, EndCalls
    <3> QED BY <2>1, <3>4 DEF CallsKept
  <2>5. ASSUME NEW d \in f.todo, ReleaseStep(f.task, d)
        PROVE  CallsKept
    BY <1>1, <2>1, <2>5, ReleaseCalls
  <2> QED BY <1>8, <2>2, <2>3, <2>4, <2>5 DEF CompleteStep
<1>9. CASE CompleteAllStep
  <2> DEFINE t == Head(f.tasks)
             rest == [f EXCEPT !.tasks = Tail(@)]
  <2>1. f.fn = "CompleteAll" /\ Executing("CompleteAll") /\ Ending(stack) = f.tasks
    BY <1>1, <1>9, EndingIs DEF CompleteAllStep, Executing
  <2>2. CASE f.tasks = <<>> /\ Quiet /\ Returns
    <3>1. /\ CallsHold' /\ Nested(stack)' /\ Ending(stack') = <<>>
      BY <1>1, <2>1, <2>2, CallsReturn
    <3> QED BY <2>1, <2>2, <3>1 DEF CallsKept
  <2>3. ASSUME f.tasks # <<>>
        PROVE  /\ ~Finished(t) /\ t \in Created /\ state[t] = Running
    BY <1>1, <2>1, <2>3, EndingRuns, StatusOrder DEF Finished
  <2>4. ASSUME f.tasks # <<>>, Ends(t, f.error), Calling(CompleteFrame(t, f.error, waiters[t]), rest)
        PROVE  CallsKept
    <3>1. PICK r : r = rest
      OBVIOUS
    <3>2. /\ r \in Frames /\ r.fn = "CompleteAll" /\ r.error = f.error /\ r.tasks = Tail(f.tasks)
          /\ f.tasks \in Seq(Created)
      BY <1>1, <2>1, <2>4, <3>1, RestFields
    <3>3. f.error = Complete /\ \A u \in ToSet(f.tasks) : home[u] \in Queue
      BY <1>1, <2>1 DEF CallHolds
    <3>4. ToSet(r.tasks) \subseteq ToSet(f.tasks)
      BY <2>4, <3>2, Popped
    <3>5. CallHolds(r)'
      BY <1>1, <3>2, <3>3, <3>4 DEF CallHolds, Steady
    <3>6. f.error \in Error /\ ~(f.error < Complete)
      BY <3>3, StatusOrder, Statuses
    <3>7. Calling(CompleteFrame(t, f.error, waiters[t]), r)
      BY <2>4, <3>1
    <3>8. CallsHold' /\ Nested(stack)' /\ Ending(stack') = r.tasks
      BY <1>1, <2>1, <2>3, <2>4, <3>2, <3>5, <3>6, <3>7, EndCalls
    <3> QED BY <2>1, <2>4, <3>2, <3>3, <3>8 DEF CallsKept
  <2> QED BY <1>9, <2>2, <2>3, <2>4 DEF CompleteAllStep
<1> QED BY <1>1, <1>3, <1>4, <1>5, <1>6, <1>7, <1>8, <1>9 DEF LockStep

(* No step of the lock holder sets a promise twice.                        *)
LEMMA LockPromises ==
  ASSUME PoolInv, LockStep
  PROVE  PromisesOnce'
<1>1. stack # <<>> /\ CallHolds(Head(stack)) /\ Head(stack) \in Frames /\ Steady /\ fault = "none"
  BY FramesOf, LockEffects, EffectSteady DEF LockStep
<1>2. \A t \in signalled' : Finished(t)'
  <2> SUFFICES ASSUME NEW t \in signalled' PROVE Finished(t)'
    OBVIOUS
  <2>1. t \in Created /\ Finished(t)
    <3>1. CASE t \in signalled
      BY <3>1 DEF PoolInv, PromisesOnce, QueueInv, TypeInv, TypeOK
    <3>2. CASE t \notin signalled
      <4>1. t = Head(stack).task /\ Head(stack).fn = "Complete"
        BY <1>1, <3>2 DEF Steady
      <4>2. t \in Created /\ state[t] \in Error
        BY <1>1, <4>1, FrameFields DEF CallHolds
      <4> QED BY <4>2, StatusOrder DEF Finished
    <3> QED BY <3>1, <3>2
  <2> QED BY <1>1, <2>1 DEF Steady, Finished
<1>3. fault' # "promise_already_satisfied"
  <2>1. CASE CompleteStep
    BY <1>1, <2>1 DEF CompleteStep, CallHolds
  <2>2. CASE ~CompleteStep
    BY <1>1, <2>2 DEF LockStep, FlushStep, SubmitStep, ReadyStep, CompleteAllStep, FlushAllStep, WaitStep
  <2> QED BY <2>1, <2>2
<1> QED BY <1>2, <1>3 DEF PromisesOnce

-----------------------------------------------------------------------------
(* The lanes are kept                                                      *)

\* A step after which everything a device has been given is where it was.
SameLanes ==
  \A d \in Device : \A i, j \in Nat : \A t \in Task : At(d, i, j, t)' <=> At(d, i, j, t)

(* Such a step keeps the lanes, when it changes the status of none of the  *)
(* tasks in them but those it records.                                     *)
LEMMA SameLanesKept ==
  ASSUME PoolInv, SameLanes,
         \A d \in Device : recorded'[d] <= IF execQ'[d] = <<>> THEN 0 ELSE Len(Head(execQ'[d])),
         \A t \in Task : state[t] \in {Ready, Running} \/ state'[t] \in {Ready, Running} =>
           /\ DeviceOfTask(t)' = DeviceOfTask(t)
           /\ state[t] \in {Ready, Running}
           /\ DeviceOfTask(t) \in Device
           /\ state'[t] \in {Ready, Running},
         \A d \in Device : \A i, j \in Nat : \A t \in Task : At(d, i, j, t) =>
           state'[t] = IF Passed(d, i, j)' THEN Running ELSE Ready
  PROVE  Lanes'
<1>1. Lanes
  BY DEF PoolInv
<1>2. ASSUME NEW d \in Device, NEW i \in Nat, NEW j \in Nat, NEW t \in Task, At(d, i, j, t)'
      PROVE  /\ i # 1 => DeviceOfTask(t)' = d
             /\ state'[t] = IF Passed(d, i, j)' THEN Running ELSE Ready
             /\ \A k, l \in Nat : At(d, k, l, t)' => i = k /\ j = l
  <2>1. At(d, i, j, t)
    BY <1>2 DEF SameLanes
  <2>2. state[t] \in {Ready, Running}
    BY <1>1, <2>1 DEF Lanes
  <2>3. DeviceOfTask(t)' = DeviceOfTask(t)
    BY <2>2
  <2>4. \A k, l \in Nat : At(d, k, l, t)' => i = k /\ j = l
    BY <1>1, <2>1 DEF Lanes, SameLanes
  <2>5. i # 1 => DeviceOfTask(t)' = d
    BY <1>1, <2>1, <2>3 DEF Lanes
  <2> QED BY <2>1, <2>4, <2>5
<1>3. ASSUME NEW t \in Task, state'[t] \in {Ready, Running}
      PROVE  \E i, j \in Nat : At(DeviceOfTask(t), i, j, t)'
  <2>1. PICK d \in Device : d = DeviceOfTask(t) /\ d = DeviceOfTask(t)'
    BY <1>3
  <2>2. \E i, j \in Nat : At(d, i, j, t)
    BY <1>1, <1>3, <2>1 DEF Lanes
  <2>3. \E i, j \in Nat : At(d, i, j, t)'
    BY <2>2 DEF SameLanes
  <2> QED BY <2>1, <2>3 DEF At
<1> QED BY <1>2, <1>3 DEF Lanes

(* A task that is ready or running belongs to a device.                    *)
LEMMA HasDevice ==
  ASSUME PoolInv, NEW t \in Task, state[t] \in {Ready, Running}
  PROVE  t \in Created /\ home[t] \in Queue /\ DeviceOfTask(t) \in Device
<1>1. t \in Created
  <2> SUFFICES ASSUME t \notin Created PROVE FALSE
    OBVIOUS
  <2>1. t > created
    <3>1. created \in Nat
      BY DEF PoolInv, QueueInv, TypeInv, TypeOK
    <3> QED BY <3>1 DEF Task, Created
  <2> QED BY <2>1, StatusOrder DEF PoolInv, Uncreated
<1>2. home[t] \in Queue
  BY <1>1, TaskFacts
<1> QED BY <1>1, <1>2, TaskPoolAssumption DEF DeviceOfTask

(* A device has recorded no more than the oldest submission to be recorded *)
(* holds.                                                                  *)
LEMMA RecordedBound ==
  ASSUME PoolInv, NEW d \in Device
  PROVE  recorded[d] <= IF execQ[d] = <<>> THEN 0 ELSE Len(Head(execQ[d]))
BY DEF PoolInv, Lanes

(* The first entry of a sequence is its first still when one is appended.  *)
LEMMA AppendedHead ==
  ASSUME NEW S, NEW s \in Seq(S), NEW x \in S, s # <<>>
  PROVE  Append(s, x) # <<>> /\ Head(Append(s, x)) = Head(s)
OBVIOUS

(* Steps that change nothing in the devices keep the lanes, when no task   *)
(* becomes ready or running or ceases to be.                               *)
LEMMA LanesIdle ==
  ASSUME PoolInv, UNCHANGED deviceVars, Ending(stack') = Ending(stack),
         \A t \in Task : state[t] \in {Ready, Running} \/ state'[t] \in {Ready, Running} =>
           state'[t] = state[t] /\ home'[t] = home[t]
  PROVE  Lanes'
<1>1. SameLanes
  BY DEF SameLanes, At, Batch, LastBatch, deviceVars
<1>2. ASSUME NEW t \in Task, state[t] \in {Ready, Running} \/ state'[t] \in {Ready, Running}
      PROVE  /\ DeviceOfTask(t)' = DeviceOfTask(t)
             /\ state[t] \in {Ready, Running} /\ state'[t] \in {Ready, Running}
             /\ DeviceOfTask(t) \in Device
  BY <1>2, HasDevice DEF DeviceOfTask
<1>3. ASSUME NEW d \in Device, NEW i \in Nat, NEW j \in Nat, NEW t \in Task, At(d, i, j, t)
      PROVE  state'[t] = IF Passed(d, i, j)' THEN Running ELSE Ready
  <2>1. state[t] = IF Passed(d, i, j) THEN Running ELSE Ready
    BY <1>3 DEF PoolInv, Lanes
  <2>2. Passed(d, i, j)' <=> Passed(d, i, j)
    BY DEF Passed, deviceVars
  <2> QED BY <2>1, <2>2
<1>4. \A d \in Device : recorded'[d] <= IF execQ'[d] = <<>> THEN 0 ELSE Len(Head(execQ'[d]))
  BY RecordedBound DEF deviceVars
<1> QED BY <1>1, <1>2, <1>3, <1>4, SameLanesKept

(* A flush of devices S leaves everything where it was: what was being     *)
(* recorded becomes the last submission to be recorded.                    *)
LEMMA FlushesSameLanes ==
  ASSUME PoolInv, NEW S, Flushes(S), Ending(stack') = Ending(stack)
  PROVE  SameLanes
<1>1. TypeOK /\ UNCHANGED <<home, state, recorded, completionQ>>
  BY DEF PoolInv, QueueInv, TypeInv, Flushes, taskVars
<1>2. ASSUME NEW d \in Device
      PROVE  \/ execQ'[d] = execQ[d] /\ recording'[d] = recording[d]
             \/ execQ'[d] = Append(execQ[d], recording[d]) /\ recording'[d] = <<>>
  BY DEF Flushes, FlushDevices
<1>3. ASSUME NEW d \in Device, NEW i \in Nat, NEW j \in Nat, NEW t \in Task
      PROVE  At(d, i, j, t)' <=> At(d, i, j, t)
  <2>1. CASE execQ'[d] = execQ[d] /\ recording'[d] = recording[d]
    BY <1>1, <2>1 DEF At, Batch, LastBatch
  <2>2. CASE execQ'[d] = Append(execQ[d], recording[d]) /\ recording'[d] = <<>>
    <3> DEFINE n == Len(completionQ[d])
               m == Len(execQ[d])
    <3>1. /\ n \in Nat /\ m \in Nat
          /\ execQ[d] \in Seq(Seq(Created)) /\ recording[d] \in Seq(Created)
          /\ LastBatch(d) = n + m + 2
      BY <1>1, LaneTypes
    <3>2. /\ Len(execQ'[d]) = m + 1 /\ execQ'[d][m + 1] = recording[d]
          /\ \A k \in 1 .. m : execQ'[d][k] = execQ[d][k]
      BY <2>2, <3>1
    <3>3. LastBatch(d)' = n + m + 3
      <4>1. LastBatch(d)' = n + Len(execQ'[d]) + 2
        BY <1>1 DEF LastBatch
      <4> HIDE DEF n, m
      <4> QED BY <3>1, <3>2, <4>1
    <3> HIDE DEF n, m
    <3>4. ASSUME i \in 1 .. n + m + 2
          PROVE  Batch(d, i)' = Batch(d, i)
      <4>1. CASE i = 1
        BY <4>1 DEF Batch
      <4>2. CASE i # 1 /\ i <= n + 1
        BY <1>1, <4>2 DEF Batch, n
      <4>3. CASE i > n + 1 /\ i < n + m + 2
        <5>1. i - 1 - n \in 1 .. m /\ i # 1 /\ ~(i <= n + 1) /\ i < n + m + 3
          BY <3>1, <4>3
        <5> QED BY <1>1, <3>1, <3>2, <3>3, <4>3, <5>1 DEF Batch, n
      <4>4. CASE i = n + m + 2
        <5>1. i - 1 - n = m + 1 /\ i # 1 /\ ~(i <= n + 1) /\ i < n + m + 3 /\ ~(i < n + m + 2)
          BY <3>1, <4>4
        <5> QED BY <1>1, <3>1, <3>2, <3>3, <4>4, <5>1 DEF Batch, n
      <4> QED BY <3>1, <3>4, <4>1, <4>2, <4>3, <4>4
    <3>5. ASSUME i = n + m + 3
          PROVE  Batch(d, i)' = <<>>
      <4>1. i # 1 /\ ~(i <= n + 1) /\ ~(i < n + m + 3)
        BY <3>1, <3>5
      <4> QED BY <1>1, <2>2, <3>3, <4>1 DEF Batch, n
    <3>6. CASE i \in 1 .. n + m + 2
      BY <3>1, <3>3, <3>4, <3>6 DEF At
    <3>7. CASE i \notin 1 .. n + m + 2
      <4>1. i \in 1 .. n + m + 3 => i = n + m + 3
        BY <3>1, <3>7
      <4>2. i \in 1 .. n + m + 3 => Len(Batch(d, i)') = 0
        BY <3>5, <4>1
      <4> QED BY <3>1, <3>3, <3>7, <4>2 DEF At
    <3> QED BY <3>6, <3>7
  <2> QED BY <1>2, <2>1, <2>2
<1> QED BY <1>3 DEF SameLanes

(* So it keeps the lanes.                                                  *)
LEMMA LanesFlushes ==
  ASSUME PoolInv, NEW S, Flushes(S), Ending(stack') = Ending(stack)
  PROVE  Lanes'
<1>1. TypeOK /\ UNCHANGED <<home, state, recorded, completionQ>>
  BY DEF PoolInv, QueueInv, TypeInv, Flushes, taskVars
<1>2. ASSUME NEW d \in Device
      PROVE  \/ execQ'[d] = execQ[d] /\ recording'[d] = recording[d]
             \/ execQ'[d] = Append(execQ[d], recording[d]) /\ recording'[d] = <<>>
  BY DEF Flushes, FlushDevices
<1>4. SameLanes
  BY FlushesSameLanes
<1>5. ASSUME NEW t \in Task, state[t] \in {Ready, Running} \/ state'[t] \in {Ready, Running}
      PROVE  /\ DeviceOfTask(t)' = DeviceOfTask(t)
             /\ state[t] \in {Ready, Running} /\ state'[t] \in {Ready, Running}
             /\ DeviceOfTask(t) \in Device
  BY <1>1, <1>5, HasDevice DEF DeviceOfTask
<1>6. ASSUME NEW d \in Device, NEW i \in Nat, NEW j \in Nat, NEW t \in Task, At(d, i, j, t)
      PROVE  state'[t] = IF Passed(d, i, j)' THEN Running ELSE Ready
  <2>1. state[t] = IF Passed(d, i, j) THEN Running ELSE Ready
    BY <1>6 DEF PoolInv, Lanes
  <2>2. Passed(d, i, j)' <=> Passed(d, i, j)
    BY <1>1 DEF Passed
  <2> QED BY <1>1, <2>1, <2>2
<1>7. ASSUME NEW d \in Device
      PROVE  recorded'[d] <= IF execQ'[d] = <<>> THEN 0 ELSE Len(Head(execQ'[d]))
  <2>1. /\ recorded[d] <= IF execQ[d] = <<>> THEN 0 ELSE Len(Head(execQ[d]))
        /\ recorded[d] \in Nat /\ execQ[d] \in Seq(Seq(Created)) /\ recording[d] \in Seq(Created)
    BY <1>1, RecordedBound, LaneTypes
  <2>2. CASE execQ'[d] = execQ[d]
    BY <1>1, <2>1, <2>2
  <2>3. CASE execQ'[d] = Append(execQ[d], recording[d]) /\ execQ[d] = <<>>
    <3>1. execQ'[d] # <<>> /\ Head(execQ'[d]) = recording[d] /\ Len(recording[d]) \in Nat
      BY <2>1, <2>3
    <3> QED BY <1>1, <2>1, <2>3, <3>1
  <2>4. CASE execQ'[d] = Append(execQ[d], recording[d]) /\ execQ[d] # <<>>
    <3>1. execQ'[d] # <<>> /\ Head(execQ'[d]) = Head(execQ[d])
      BY <2>1, <2>4, AppendedHead
    <3> QED BY <1>1, <2>1, <2>4, <3>1
  <2> QED BY <1>2, <2>2, <2>3, <2>4
<1> QED BY <1>4, <1>5, <1>6, <1>7, SameLanesKept

\* t becomes the last of e's lane, and nothing else moves.
JoinsLane(t, e) ==
  \A d \in Device : \A i, j \in Nat : \A u \in Task :
    At(d, i, j, u)' <=>
      At(d, i, j, u) \/ (d = e /\ i = LastBatch(e) /\ j = Len(recording[e]) + 1 /\ u = t)

(* A task that turns ready becomes the last of its device's lane.          *)
LEMMA TurnsReadyAt ==
  ASSUME PoolInv, NEW t \in Created, NEW e \in Device, e = DeviceOfTask(t), TurnsReady(t),
         Ending(stack') = Ending(stack)
  PROVE  JoinsLane(t, e)
<1>1. /\ TypeOK /\ t \in Task
      /\ UNCHANGED <<home, execQ, recorded, completionQ>>
  BY TaskFacts DEF TurnsReady, taskVars
<1>2. /\ \A u \in Task : state'[u] = IF u = t THEN Ready ELSE state[u]
      /\ \A d \in Device : recording'[d] = IF d = e THEN Append(recording[d], t) ELSE recording[d]
      /\ \A u \in Task : DeviceOfTask(u)' = DeviceOfTask(u)
      /\ \A d \in Device : LastBatch(d)' = LastBatch(d)
      /\ \A d \in Device : \A i, j \in Nat : Passed(d, i, j)' <=> Passed(d, i, j)
  <2>1. \A u \in Task : state'[u] = IF u = t THEN Ready ELSE state[u]
    BY <1>1 DEF TurnsReady, TypeOK
  <2>2. \A d \in Device : recording'[d] = IF d = e THEN Append(recording[d], t) ELSE recording[d]
    BY <1>1 DEF TurnsReady, TypeOK
  <2> QED BY <1>1, <2>1, <2>2 DEF DeviceOfTask, LastBatch, Passed
<1>3. PICK n, c, x, m \in Nat :
        /\ n = Len(recording[e]) /\ c = Len(completionQ[e]) /\ x = Len(execQ[e])
        /\ m = LastBatch(e) /\ m = c + x + 2
  BY <1>1, LaneTypes
<1>31. m = c + x + 2
  BY <1>3
<1>32. /\ m # 1 /\ ~(m <= c + 1) /\ ~(m < m) /\ m \in 1 .. m /\ (m = c + 2 => x = 0)
      /\ \A i \in 1 .. m : i # m => i < m
      /\ n + 1 \in Nat /\ ~(n + 1 <= n) /\ n + 1 # 0
  BY <1>31
<1>4. /\ recording[e] \in Seq(Created)
      /\ Len(Append(recording[e], t)) = n + 1 /\ Append(recording[e], t)[n + 1] = t
      /\ \A j \in 1 .. n : Append(recording[e], t)[j] = recording[e][j]
  <2>1. recording[e] \in Seq(Created)
    BY <1>1, LaneTypes
  <2> QED BY <1>3, <2>1
<1>5. Batch(e, m) = recording[e] /\ Batch(e, m)' = Append(recording[e], t)
  <2>1. Batch(e, m) = recording[e]
    BY <1>3, <1>32 DEF Batch
  <2>2. Batch(e, m)' = recording'[e]
    BY <1>1, <1>2, <1>3, <1>32 DEF Batch
  <2> QED BY <1>2, <2>1, <2>2
<1>6. ASSUME NEW d \in Device, NEW i \in Nat, NEW j \in Nat, NEW u \in Task
      PROVE  At(d, i, j, u)' <=>
               At(d, i, j, u) \/ (d = e /\ i = m /\ j = n + 1 /\ u = t)
  <2>1. CASE d = e /\ i = m
    <3>1. /\ At(d, i, j, u) <=> j \in 1 .. n /\ recording[e][j] = u
          /\ At(d, i, j, u)' <=> j \in 1 .. n + 1 /\ Append(recording[e], t)[j] = u
      <4>1. i \in 1 .. LastBatch(d) /\ i \in 1 .. LastBatch(d)'
        BY <1>2, <1>3, <1>32, <2>1
      <4>2. Batch(d, i) = recording[e] /\ Batch(d, i)' = Append(recording[e], t)
        <5>1. Batch(d, i)' = Batch(e, m)'
          BY <2>1 DEF Batch
        <5> QED BY <1>5, <2>1, <5>1
      <4> QED BY <1>3, <1>4, <4>1, <4>2 DEF At
    <3>2. j \in 1 .. n + 1 <=> j \in 1 .. n \/ j = n + 1
      BY <1>3
    <3>3. n + 1 \notin 1 .. n
      BY <1>3
    <3> QED BY <1>4, <2>1, <3>1, <3>2, <3>3
  <2>2. CASE ~(d = e /\ i = m)
    <3>1. LastBatch(d)' = LastBatch(d)
      BY <1>2
    <3>2. ASSUME i \in 1 .. LastBatch(d)
          PROVE  Batch(d, i)' = Batch(d, i)
      <4>1. CASE d = e
        <5>1. LastBatch(d) = m /\ i # m
          BY <1>3, <2>2, <4>1
        <5>2. i < m
          BY <1>32, <3>2, <5>1
        <5>3. i < LastBatch(d)
          BY <5>1, <5>2
        <5> QED BY <1>1, <3>1, <5>3 DEF Batch
      <4>2. CASE d # e
        <5>1. recording'[d] = recording[d]
          BY <1>2, <4>2
        <5> QED BY <1>1, <3>1, <5>1 DEF Batch
      <4> QED BY <4>1, <4>2
    <3> QED BY <2>2, <3>1, <3>2 DEF At
  <2> QED BY <2>1, <2>2
<1> QED BY <1>3, <1>6 DEF JoinsLane

(* So it keeps the lanes.                                                  *)
LEMMA LanesTurnsReady ==
  ASSUME PoolInv, NEW t \in Created, home[t] \in Queue, state[t] \notin {Ready, Running},
         TurnsReady(t), Ending(stack') = Ending(stack)
  PROVE  Lanes'
<1>0. PICK e \in Device : e = DeviceOfTask(t)
  BY TaskPoolAssumption DEF DeviceOfTask
<1>1. /\ TypeOK /\ t \in Task
      /\ UNCHANGED <<home, execQ, recorded, completionQ>>
  BY TaskFacts DEF TurnsReady, taskVars
<1>2. /\ \A u \in Task : state'[u] = IF u = t THEN Ready ELSE state[u]
      /\ \A d \in Device : recording'[d] = IF d = e THEN Append(recording[d], t) ELSE recording[d]
      /\ \A u \in Task : DeviceOfTask(u)' = DeviceOfTask(u)
      /\ \A d \in Device : LastBatch(d)' = LastBatch(d)
      /\ \A d \in Device : \A i, j \in Nat : Passed(d, i, j)' <=> Passed(d, i, j)
  <2>1. \A u \in Task : state'[u] = IF u = t THEN Ready ELSE state[u]
    BY <1>1 DEF TurnsReady, TypeOK
  <2>2. \A d \in Device : recording'[d] = IF d = e THEN Append(recording[d], t) ELSE recording[d]
    BY <1>0, <1>1 DEF TurnsReady, TypeOK
  <2> QED BY <1>1, <2>1, <2>2 DEF DeviceOfTask, LastBatch, Passed
<1>3. PICK n, c, x, m \in Nat :
        /\ n = Len(recording[e]) /\ c = Len(completionQ[e]) /\ x = Len(execQ[e])
        /\ m = LastBatch(e) /\ m = c + x + 2
  BY <1>1, LaneTypes
<1>31. m = c + x + 2
  BY <1>3
<1>32. /\ m # 1 /\ ~(m <= c + 1) /\ ~(m < m) /\ m \in 1 .. m /\ (m = c + 2 => x = 0)
      /\ \A i \in 1 .. m : i # m => i < m
      /\ n + 1 \in Nat /\ ~(n + 1 <= n) /\ n + 1 # 0
  BY <1>31
<1>6. ASSUME NEW d \in Device, NEW i \in Nat, NEW j \in Nat, NEW u \in Task
      PROVE  At(d, i, j, u)' <=>
               At(d, i, j, u) \/ (d = e /\ i = m /\ j = n + 1 /\ u = t)
  <2>1. JoinsLane(t, e)
    BY <1>0, TurnsReadyAt
  <2> QED BY <1>3, <2>1 DEF JoinsLane
<1>7. \A d \in Device : \A i, j \in Nat : \A u \in Task : u = t => ~At(d, i, j, u)
  BY <1>1 DEF PoolInv, Lanes
<1>8. \A j \in Nat : ~(j <= n) => ~Passed(e, m, j)
  <2>1. recorded[e] \in Nat /\ execQ[e] \in Seq(Seq(Created)) /\ n \in Nat
    BY <1>1, LaneTypes
  <2>3. ASSUME m = c + 2
        PROVE  recorded[e] <= 0
    <3>1. Len(execQ[e]) = 0
      BY <1>3, <1>32, <2>3
    <3>2. execQ[e] = <<>>
      BY <2>1, <3>1
    <3> QED BY <3>2, RecordedBound
  <2>4. ASSUME NEW j \in Nat, ~(j <= n), m = c + 2
        PROVE  ~(j <= recorded[e])
    BY <2>1, <2>3, <2>4
  <2> QED BY <1>3, <1>32, <2>4 DEF Passed
<1>9. ASSUME NEW d \in Device, NEW i \in Nat, NEW j \in Nat, NEW u \in Task, At(d, i, j, u)'
      PROVE  /\ i # 1 => DeviceOfTask(u)' = d
             /\ state'[u] = IF Passed(d, i, j)' THEN Running ELSE Ready
             /\ \A k, l \in Nat : At(d, k, l, u)' => i = k /\ j = l
  <2>1. CASE u = t
    <3>1. d = e /\ i = m /\ j = n + 1
      <4>1. ~At(d, i, j, u)
        BY <1>7, <2>1
      <4>2. At(d, i, j, u)' <=> At(d, i, j, u) \/ (d = e /\ i = m /\ j = n + 1 /\ u = t)
        BY <1>6
      <4> QED BY <1>9, <4>1, <4>2
    <3>2. \A k, l \in Nat : At(d, k, l, u)' => k = m /\ l = n + 1
      BY <1>6, <1>7, <2>1
    <3>3. ~Passed(d, i, j)
      BY <1>8, <1>32, <3>1
    <3>4. DeviceOfTask(u) = e /\ state'[u] = Ready
      BY <1>0, <1>2, <2>1
    <3> QED BY <1>2, <3>1, <3>2, <3>3, <3>4
  <2>2. CASE u # t
    <3>1. At(d, i, j, u) /\ \A k, l \in Nat : At(d, k, l, u)' <=> At(d, k, l, u)
      BY <1>6, <1>9, <2>2
    <3>2. /\ i # 1 => DeviceOfTask(u) = d
          /\ state[u] = IF Passed(d, i, j) THEN Running ELSE Ready
          /\ \A k, l \in Nat : At(d, k, l, u) => i = k /\ j = l
      BY <3>1 DEF PoolInv, Lanes
    <3> QED BY <1>2, <2>2, <3>1, <3>2
  <2> QED BY <2>1, <2>2
<1>10. \A d \in Device : recorded'[d] <= IF execQ'[d] = <<>> THEN 0 ELSE Len(Head(execQ'[d]))
  BY <1>1, RecordedBound
<1>11. ASSUME NEW u \in Task, state'[u] \in {Ready, Running}
       PROVE  \E i, j \in Nat : At(DeviceOfTask(u), i, j, u)'
  <2>1. CASE u = t
    <3>1. n + 1 \in Nat
      BY <1>3
    <3>2. At(e, m, n + 1, t)'
      BY <1>1, <1>3, <1>6, <3>1
    <3>3. DeviceOfTask(t)' = e
      BY <1>0, <1>1, <1>2
    <3> QED BY <1>3, <2>1, <3>1, <3>2, <3>3 DEF At
  <2>2. CASE u # t
    <3>1. PICK d \in Device : d = DeviceOfTask(u) /\ d = DeviceOfTask(u)'
      BY <1>2, <1>11, <2>2, HasDevice
    <3>2. \E i, j \in Nat : At(d, i, j, u)
      BY <1>2, <1>11, <2>2, <3>1 DEF PoolInv, Lanes
    <3>3. \E i, j \in Nat : At(d, i, j, u)'
      BY <1>6, <3>2
    <3> QED BY <3>1, <3>3 DEF At
  <2> QED BY <2>1, <2>2
<1> QED BY <1>9, <1>10, <1>11 DEF Lanes

(* Where the next task to be recorded is.                                  *)
LEMMA NextToRecord ==
  ASSUME PoolInv, NEW d \in Device, execQ[d] # <<>>, recorded[d] < Len(Head(execQ[d]))
  PROVE  LET t == Head(execQ[d])[recorded[d] + 1] IN
         /\ t \in Created /\ At(d, Len(completionQ[d]) + 2, recorded[d] + 1, t)
         /\ state[t] = Ready
<1>1. TypeOK
  BY DEF PoolInv, QueueInv, TypeInv
<1>2. PICK c, x, j \in Nat : c = Len(completionQ[d]) /\ x = Len(execQ[d]) /\ j = recorded[d]
  BY <1>1, LaneTypes
<1>3. PICK b \in Seq(Created), t \in Created :
        /\ b = Head(execQ[d]) /\ t = b[j + 1] /\ j + 1 \in 1 .. Len(b)
  BY <1>1, <1>2, SubmissionTypes
<1>4. x # 0 /\ execQ[d][1] = b
  <2>1. execQ[d] \in Seq(Seq(Created))
    BY <1>1, LaneTypes
  <2>2. Len(execQ[d]) # 0 /\ execQ[d][1] = Head(execQ[d])
    BY <2>1, Popped
  <2> QED BY <1>2, <1>3, <2>2
<1>5. LastBatch(d) = c + x + 2
  BY <1>2 DEF LastBatch
<1>6. /\ c + 2 # 1 /\ ~(c + 2 <= c + 1) /\ c + 2 < c + x + 2 /\ c + 2 - 1 - c = 1
      /\ c + 2 \in 1 .. c + x + 2 /\ c + 2 \in Nat /\ j + 1 \in Nat /\ ~(j + 1 <= j)
  BY <1>4
<1>7. Batch(d, c + 2) = b
  BY <1>2, <1>4, <1>5, <1>6 DEF Batch
<1>8. At(d, c + 2, j + 1, t)
  BY <1>3, <1>5, <1>6, <1>7 DEF At
<1>9. ~Passed(d, c + 2, j + 1)
  BY <1>2, <1>6 DEF Passed
<1>10. state[t] = Ready
  <2>1. t \in Task /\ Lanes
    BY TaskFacts DEF PoolInv
  <2> QED BY <1>6, <1>8, <1>9, <2>1 DEF Lanes
<1> QED BY <1>2, <1>3, <1>8, <1>10

(* Recording a task moves the device's frontier past it.                   *)
LEMMA LanesRecord ==
  ASSUME PoolInv, NEW e \in Device, Record(e)
  PROVE  Lanes'
<1>1. /\ TypeOK /\ execQ[e] # <<>> /\ recorded[e] < Len(Head(execQ[e]))
      /\ UNCHANGED <<home, execQ, completionQ, recording, stack>>
  BY DEF PoolInv, QueueInv, TypeInv, Record, taskVars
<1>2. PICK c, n \in Nat, t \in Created :
        /\ c = Len(completionQ[e]) /\ n = recorded[e] /\ t = Head(execQ[e])[recorded[e] + 1]
        /\ At(e, c + 2, n + 1, t) /\ state[t] = Ready
  BY <1>1, LaneTypes, NextToRecord
<1>3. t \in Task /\ n < Len(Head(execQ[e]))
  BY <1>1, <1>2, TaskFacts
<1>4. /\ \A u \in Task : state'[u] = IF u = t THEN Running ELSE state[u]
      /\ \A d \in Device : recorded'[d] = IF d = e THEN n + 1 ELSE recorded[d]
  BY <1>1, <1>2, <1>3 DEF Record, TypeOK
<1>5. SameLanes
  BY <1>1 DEF SameLanes, At, Batch, LastBatch
<1>6. ASSUME NEW u \in Task, state[u] \in {Ready, Running} \/ state'[u] \in {Ready, Running}
      PROVE  /\ DeviceOfTask(u)' = DeviceOfTask(u)
             /\ state[u] \in {Ready, Running} /\ state'[u] \in {Ready, Running}
             /\ DeviceOfTask(u) \in Device
  <2>1. state[u] \in {Ready, Running}
    BY <1>2, <1>4, <1>6
  <2>2. state'[u] \in {Ready, Running}
    BY <1>4, <2>1
  <2> QED BY <1>1, <2>1, <2>2, HasDevice DEF DeviceOfTask
<1>7. ASSUME NEW d \in Device, NEW i \in Nat, NEW j \in Nat, NEW u \in Task, At(d, i, j, u)
      PROVE  state'[u] = IF Passed(d, i, j)' THEN Running ELSE Ready
  <2>1. /\ i # 1 => DeviceOfTask(u) = d
        /\ state[u] = IF Passed(d, i, j) THEN Running ELSE Ready
        /\ \A k, l \in Nat : At(d, k, l, u) => i = k /\ j = l
    BY <1>7 DEF PoolInv, Lanes
  <2>2. /\ Passed(d, i, j) <=> i <= Len(completionQ[d]) + 1
                                \/ (i = Len(completionQ[d]) + 2 /\ j <= recorded[d])
        /\ Passed(d, i, j)' <=> i <= Len(completionQ[d]) + 1
                                \/ (i = Len(completionQ[d]) + 2 /\ j <= recorded'[d])
    BY <1>1 DEF Passed
  <2>3. CASE d # e
    <3>1. Passed(d, i, j)' <=> Passed(d, i, j)
      BY <1>4, <2>2, <2>3
    <3>2. u # t
      <4> SUFFICES ASSUME u = t PROVE FALSE
        OBVIOUS
      <4>1. Lanes /\ c + 2 \in Nat /\ c + 2 # 1 /\ n + 1 \in Nat
        BY DEF PoolInv
      <4>2. DeviceOfTask(t) = e
        BY <1>2, <1>3, <4>1 DEF Lanes
      <4>3. i = 1
        BY <2>1, <2>3, <4>2
      <4>4. Passed(d, i, j)
        <5>1. Len(completionQ[d]) \in Nat
          BY <1>1, LaneTypes
        <5>2. \A k \in Nat : 1 <= k + 1
          OBVIOUS
        <5> QED BY <4>3, <5>1, <5>2 DEF Passed
      <4> QED BY <1>2, <2>1, <4>4, StatusOrder
    <3> QED BY <1>4, <2>1, <3>1, <3>2
  <2>4. CASE d = e
    <3>1. Passed(d, i, j)' <=> Passed(d, i, j) \/ (i = c + 2 /\ j = n + 1)
      <4>1. j <= n + 1 <=> j <= n \/ j = n + 1
        OBVIOUS
      <4>2. recorded[d] = n /\ recorded'[d] = n + 1 /\ Len(completionQ[d]) = c
        BY <1>2, <1>4, <2>4
      <4> QED BY <2>2, <4>1, <4>2
    <3>2. c + 2 \in Nat /\ n + 1 \in Nat
      OBVIOUS
    <3>3. u = t <=> i = c + 2 /\ j = n + 1
      <4>1. ASSUME u = t PROVE i = c + 2 /\ j = n + 1
        <5>1. At(d, c + 2, n + 1, u)
          BY <1>2, <2>4, <4>1
        <5> QED BY <2>1, <3>2, <5>1
      <4>2. ASSUME i = c + 2, j = n + 1 PROVE u = t
        BY <1>2, <1>7, <2>4, <4>2 DEF At
      <4> QED BY <4>1, <4>2
    <3> QED BY <1>4, <2>1, <3>1, <3>3
  <2> QED BY <2>3, <2>4
<1>8. ASSUME NEW d \in Device
      PROVE  recorded'[d] <= IF execQ'[d] = <<>> THEN 0 ELSE Len(Head(execQ'[d]))
  <2>1. CASE d # e
    BY <1>1, <1>4, <2>1, RecordedBound
  <2>2. CASE d = e
    <3>1. Len(Head(execQ[e])) \in Nat
      BY <1>1, SubmissionTypes
    <3>2. n + 1 <= Len(Head(execQ[e]))
      BY <1>3, <3>1
    <3> QED BY <1>1, <1>4, <2>2, <3>2
  <2> QED BY <2>1, <2>2
<1> QED BY <1>5, <1>6, <1>7, <1>8, SameLanesKept

(* A submission that has been recorded goes to the end of those waiting    *)
(* for the GPU: everything is where it was.                                *)
LEMMA SubmitExecutionSameLanes ==
  ASSUME PoolInv, NEW e \in Device, SubmitExecution(e)
  PROVE  SameLanes
<1>1. /\ TypeOK /\ execQ[e] # <<>> /\ recorded[e] = Len(Head(execQ[e]))
      /\ UNCHANGED <<home, state, recording, stack>>
  BY DEF PoolInv, QueueInv, TypeInv, SubmitExecution, taskVars
<1>2. PICK c, x, m \in Nat : c = Len(completionQ[e]) /\ x = Len(execQ[e]) /\ m = LastBatch(e)
  BY <1>1, LaneTypes
<1>3. PICK b \in Seq(Created) : b = Head(execQ[e]) /\ b = execQ[e][1]
  <2>1. execQ[e] \in Seq(Seq(Created))
    BY <1>1, LaneTypes
  <2> QED BY <1>1, <2>1
<1>4. /\ completionQ[e] \in Seq(Seq(Created)) /\ execQ[e] \in Seq(Seq(Created))
      /\ m = c + x + 2 /\ recorded[e] = Len(b)
  BY <1>1, <1>2, <1>3, LaneTypes
<1>5. /\ completionQ'[e] = Append(completionQ[e], b) /\ execQ'[e] = Tail(execQ[e])
      /\ recorded'[e] = 0
      /\ \A d \in Device : d # e => /\ completionQ'[d] = completionQ[d]
                                    /\ execQ'[d] = execQ[d] /\ recorded'[d] = recorded[d]
  BY <1>1, <1>3 DEF SubmitExecution, TypeOK
<1>6. /\ Len(completionQ'[e]) = c + 1 /\ completionQ'[e][c + 1] = b
      /\ \A k \in 1 .. c : completionQ'[e][k] = completionQ[e][k]
  BY <1>2, <1>3, <1>4, <1>5
<1>7. /\ x # 0 /\ Len(execQ'[e]) = x - 1
      /\ \A k \in 1 .. x - 1 : execQ'[e][k] = execQ[e][k + 1]
  BY <1>1, <1>2, <1>4, <1>5, Popped
<1>8. LastBatch(e)' = m
  <2>1. LastBatch(e)' = c + 1 + (x - 1) + 2
    BY <1>6, <1>7 DEF LastBatch
  <2> QED BY <1>4, <2>1
<1>9. ASSUME NEW i \in 1 .. m
      PROVE  Batch(e, i)' = Batch(e, i)
  <2>1. CASE i = 1
    BY <1>1, <2>1 DEF Batch
  <2>2. CASE i # 1 /\ i <= c + 1
    <3>1. i <= c + 1 + 1 /\ i - 1 \in 1 .. c
      BY <2>2
    <3> QED BY <1>2, <1>6, <2>2, <3>1 DEF Batch
  <2>3. CASE i = c + 2
    <3>1. /\ i # 1 /\ ~(i <= c + 1) /\ i <= c + 1 + 1 /\ i < m /\ i - 1 - c = 1 /\ i - 1 = c + 1
      BY <1>4, <1>7, <2>3
    <3> QED BY <1>2, <1>3, <1>6, <3>1 DEF Batch
  <2>4. CASE i > c + 2 /\ i < m
    <3>1. /\ i # 1 /\ ~(i <= c + 1) /\ ~(i <= c + 1 + 1)
          /\ i - 1 - (c + 1) \in 1 .. x - 1 /\ i - 1 - (c + 1) + 1 = i - 1 - c
      BY <1>4, <1>7, <2>4
    <3> QED BY <1>2, <1>6, <1>7, <1>8, <2>4, <3>1 DEF Batch
  <2>5. CASE i = m
    <3>1. i # 1 /\ ~(i <= c + 1) /\ ~(i <= c + 1 + 1) /\ ~(i < m)
      BY <1>4, <1>7, <2>5
    <3> QED BY <1>1, <1>2, <1>6, <1>8, <3>1 DEF Batch
  <2>6. i = 1 \/ (i # 1 /\ i <= c + 1) \/ i = c + 2 \/ (i > c + 2 /\ i < m) \/ i = m
    <3>1. m = c + x + 2
      BY <1>4
    <3> QED BY <3>1
  <2> QED BY <2>1, <2>2, <2>3, <2>4, <2>5, <2>6
<1>10. ASSUME NEW d \in Device, d # e, NEW i \in Nat, NEW j \in Nat, NEW u \in Task
       PROVE  At(d, i, j, u)' <=> At(d, i, j, u)
  <2>1. UNCHANGED <<completionQ[d], execQ[d], recording[d], stack>>
    BY <1>1, <1>5, <1>10
  <2> QED BY <2>1 DEF At, Batch, LastBatch
<1>11. ASSUME NEW i \in Nat, NEW j \in Nat, NEW u \in Task
       PROVE  At(e, i, j, u)' <=> At(e, i, j, u)
  BY <1>2, <1>8, <1>9 DEF At
<1> QED BY <1>10, <1>11 DEF SameLanes

(* So it keeps the lanes.                                                  *)
LEMMA LanesSubmitExecution ==
  ASSUME PoolInv, NEW e \in Device, SubmitExecution(e)
  PROVE  Lanes'
<1>1. /\ TypeOK /\ execQ[e] # <<>> /\ recorded[e] = Len(Head(execQ[e]))
      /\ UNCHANGED <<home, state, recording, stack>>
  BY DEF PoolInv, QueueInv, TypeInv, SubmitExecution, taskVars
<1>2. PICK c, x, m \in Nat : c = Len(completionQ[e]) /\ x = Len(execQ[e]) /\ m = LastBatch(e)
  BY <1>1, LaneTypes
<1>3. PICK b \in Seq(Created) : b = Head(execQ[e]) /\ b = execQ[e][1]
  <2>1. execQ[e] \in Seq(Seq(Created))
    BY <1>1, LaneTypes
  <2> QED BY <1>1, <2>1
<1>4. /\ completionQ[e] \in Seq(Seq(Created)) /\ execQ[e] \in Seq(Seq(Created))
      /\ m = c + x + 2 /\ recorded[e] = Len(b)
  BY <1>1, <1>2, <1>3, LaneTypes
<1>5. /\ completionQ'[e] = Append(completionQ[e], b) /\ execQ'[e] = Tail(execQ[e])
      /\ recorded'[e] = 0
      /\ \A d \in Device : d # e => /\ completionQ'[d] = completionQ[d]
                                    /\ execQ'[d] = execQ[d] /\ recorded'[d] = recorded[d]
  BY <1>1, <1>3 DEF SubmitExecution, TypeOK
<1>6. /\ Len(completionQ'[e]) = c + 1 /\ completionQ'[e][c + 1] = b
      /\ \A k \in 1 .. c : completionQ'[e][k] = completionQ[e][k]
  BY <1>2, <1>3, <1>4, <1>5
<1>7. /\ x # 0 /\ Len(execQ'[e]) = x - 1
      /\ \A k \in 1 .. x - 1 : execQ'[e][k] = execQ[e][k + 1]
  BY <1>1, <1>2, <1>4, <1>5, Popped
<1>10. SameLanes
  BY SubmitExecutionSameLanes
<1>11. ASSUME NEW t \in Task, state[t] \in {Ready, Running} \/ state'[t] \in {Ready, Running}
       PROVE  /\ DeviceOfTask(t)' = DeviceOfTask(t)
              /\ state[t] \in {Ready, Running} /\ state'[t] \in {Ready, Running}
              /\ DeviceOfTask(t) \in Device
  BY <1>1, <1>11, HasDevice DEF DeviceOfTask
<1>12. ASSUME NEW d \in Device, NEW i \in Nat, NEW j \in Nat, NEW u \in Task, At(d, i, j, u)
       PROVE  state'[u] = IF Passed(d, i, j)' THEN Running ELSE Ready
  <2>1. state[u] = IF Passed(d, i, j) THEN Running ELSE Ready
    BY <1>12 DEF PoolInv, Lanes
  <2>2. CASE d # e
    <3>1. Passed(d, i, j)' <=> Passed(d, i, j)
      BY <1>5, <2>2 DEF Passed
    <3> QED BY <1>1, <2>1, <3>1
  <2>3. CASE d = e
    <3>1. /\ Passed(d, i, j) <=> i <= c + 1 \/ (i = c + 2 /\ j <= Len(b))
          /\ Passed(d, i, j)' <=> i <= c + 1 + 1 \/ (i = c + 1 + 2 /\ j <= 0)
      BY <1>2, <1>4, <1>5, <1>6, <2>3 DEF Passed
    <3>2. j \in Nat \ {0} /\ (i = c + 2 => j <= Len(b))
      <4>1. j \in 1 .. Len(Batch(d, i))
        BY <1>12 DEF At
      <4>2. i = c + 2 => Batch(e, i) = b
        <5>1. i = c + 2 => i # 1 /\ ~(i <= c + 1) /\ i < m /\ i - 1 - c = 1
          BY <1>4, <1>7
        <5> QED BY <1>2, <1>3, <5>1 DEF Batch
      <4> QED BY <2>3, <4>1, <4>2
    <3>3. Passed(d, i, j)' <=> Passed(d, i, j)
      BY <3>1, <3>2
    <3> QED BY <1>1, <2>1, <3>3
  <2> QED BY <2>2, <2>3
<1>13. ASSUME NEW d \in Device
       PROVE  recorded'[d] <= IF execQ'[d] = <<>> THEN 0 ELSE Len(Head(execQ'[d]))
  <2>1. CASE d # e
    BY <1>5, <2>1, RecordedBound
  <2>2. CASE d = e /\ execQ'[e] # <<>>
    <3>1. execQ'[e] \in Seq(Seq(Created))
      BY <1>1, <1>4, <1>5, Popped
    <3>2. PICK k \in Nat : k = Len(Head(execQ'[e]))
      BY <2>2, <3>1, Popped
    <3>3. 0 <= k
      OBVIOUS
    <3> QED BY <1>5, <2>2, <3>2, <3>3
  <2>3. CASE d = e /\ execQ'[e] = <<>>
    BY <1>5, <2>3
  <2> QED BY <2>1, <2>2, <2>3
<1> QED BY <1>10, <1>11, <1>12, <1>13, SameLanesKept

(* The first task of the submission being completed ends and is dropped    *)
(* from it: the others move up.                                            *)
LEMMA EndsFirstAt ==
  ASSUME PoolInv, NEW t \in Created, NEW e \in Error, Ends(t, e),
         NEW s \in Seq(Created), s # <<>>, t = Head(s), s = Ending(stack),
         Ending(stack') = Tail(s)
  PROVE  \A d \in Device : \A j \in Nat : \A u \in Task :
           /\ At(d, 1, j, u) <=> j \in 1 .. Len(s) /\ s[j] = u
           /\ At(d, 1, j, u)' <=> j \in 1 .. Len(s) - 1 /\ s[j + 1] = u
           /\ \A i \in Nat : i # 1 => (At(d, i, j, u)' <=> At(d, i, j, u))
<1>1. /\ TypeOK /\ t \in Task
      /\ UNCHANGED <<home, execQ, recorded, completionQ, recording>>
  BY TaskFacts DEF Ends, taskVars, deviceVars
<1>4. PICK n \in Nat : n = Len(s)
  OBVIOUS
<1>5. /\ n # 0 /\ Len(Tail(s)) = n - 1 /\ s[1] = t
      /\ \A j \in 1 .. n - 1 : Tail(s)[j] = s[j + 1]
  BY <1>4, Popped
<1>6. \A d \in Device : LastBatch(d)' = LastBatch(d) /\ LastBatch(d) \in Nat \ {0}
  BY <1>1, LaneTypes DEF LastBatch
<1>7. ASSUME NEW d \in Device, NEW j \in Nat, NEW u \in Task
      PROVE  /\ At(d, 1, j, u) <=> j \in 1 .. n /\ s[j] = u
             /\ At(d, 1, j, u)' <=> j \in 1 .. n - 1 /\ s[j + 1] = u
  <2>1. Batch(d, 1) = s /\ Batch(d, 1)' = Tail(s) /\ 1 \in 1 .. LastBatch(d) /\ 1 \in 1 .. LastBatch(d)'
    BY <1>6 DEF Batch
  <2> QED BY <1>4, <1>5, <2>1 DEF At
<1>8. ASSUME NEW d \in Device, NEW i \in Nat, NEW j \in Nat, NEW u \in Task, i # 1
      PROVE  At(d, i, j, u)' <=> At(d, i, j, u)
  BY <1>1, <1>6, <1>8 DEF At, Batch
<1> QED BY <1>4, <1>7, <1>8

(* So the lanes are kept.                                                  *)
LEMMA LanesEndsFirst ==
  ASSUME PoolInv, NEW t \in Created, NEW e \in Error, Ends(t, e),
         NEW s \in Seq(Created), s # <<>>, t = Head(s), s = Ending(stack),
         Ending(stack') = Tail(s)
  PROVE  Lanes'
<1>1. /\ TypeOK /\ t \in Task
      /\ UNCHANGED <<home, execQ, recorded, completionQ, recording>>
  BY TaskFacts DEF Ends, taskVars, deviceVars
<1>2. \A u \in Task : state'[u] = IF u = t THEN e ELSE state[u]
  BY <1>1 DEF Ends, TypeOK
<1>3. e \notin {Ready, Running}
  BY StatusOrder
<1>4. PICK n \in Nat : n = Len(s)
  OBVIOUS
<1>5. /\ n # 0 /\ Len(Tail(s)) = n - 1 /\ s[1] = t
      /\ \A j \in 1 .. n - 1 : Tail(s)[j] = s[j + 1]
  BY <1>4, Popped
<1>7. \A d \in Device : \A j \in Nat : \A u \in Task :
        /\ At(d, 1, j, u) <=> j \in 1 .. n /\ s[j] = u
        /\ At(d, 1, j, u)' <=> j \in 1 .. n - 1 /\ s[j + 1] = u
  BY <1>4, EndsFirstAt
<1>8. ASSUME NEW d \in Device, NEW i \in Nat, NEW j \in Nat, NEW u \in Task, i # 1
      PROVE  At(d, i, j, u)' <=> At(d, i, j, u)
  BY <1>8, EndsFirstAt
<1>9. \A d \in Device : \A i, j \in Nat : \A u \in Task : u = t =>
        (At(d, i, j, u) <=> i = 1 /\ j = 1)
  <2>1. \A d \in Device : At(d, 1, 1, t)
    BY <1>1, <1>5, <1>7
  <2>2. Lanes
    BY DEF PoolInv
  <2> QED BY <1>1, <2>1, <2>2 DEF Lanes
<1>10. ASSUME NEW d \in Device, NEW i \in Nat, NEW j \in Nat, NEW u \in Task, At(d, i, j, u)'
       PROVE  u # t /\ (IF i = 1 THEN At(d, 1, j + 1, u) ELSE At(d, i, j, u))
  <2>1. CASE i = 1
    <3>1. At(d, 1, j, u)'
      BY <1>10, <2>1 DEF At
    <3>2. j \in 1 .. n - 1 /\ s[j + 1] = u
      BY <1>7, <3>1
    <3>3. j + 1 \in 1 .. n /\ j + 1 # 1 /\ j + 1 \in Nat
      BY <3>2
    <3>4. At(d, 1, j + 1, u)
      BY <1>7, <3>2, <3>3
    <3> QED BY <1>9, <2>1, <3>3, <3>4
  <2>2. CASE i # 1
    BY <1>8, <1>9, <1>10, <2>2
  <2> QED BY <2>1, <2>2
<1>11. ASSUME NEW d \in Device, NEW i \in Nat, NEW j \in Nat, NEW u \in Task, At(d, i, j, u)'
       PROVE  /\ i # 1 => DeviceOfTask(u)' = d
              /\ state'[u] = IF Passed(d, i, j)' THEN Running ELSE Ready
              /\ \A k, l \in Nat : At(d, k, l, u)' => i = k /\ j = l
  <2>1. u # t /\ state'[u] = state[u] /\ DeviceOfTask(u)' = DeviceOfTask(u)
    BY <1>1, <1>2, <1>10, <1>11 DEF DeviceOfTask
  <2>2. Passed(d, i, j)' <=> Passed(d, i, j)
    BY <1>1 DEF Passed
  <2>3. j + 1 \in Nat /\ \A l \in Nat : l + 1 \in Nat /\ (j + 1 = l + 1 => j = l)
    OBVIOUS
  <2>4. CASE i = 1
    <3>1. At(d, 1, j + 1, u)
      BY <1>10, <1>11, <2>4
    <3>2. Passed(d, 1, j) /\ Passed(d, 1, j + 1)
      <4>1. Len(completionQ[d]) \in Nat
        BY <1>1, LaneTypes
      <4>2. \A k \in Nat : 1 <= k + 1
        OBVIOUS
      <4> QED BY <4>1, <4>2 DEF Passed
    <3>3. state[u] = Running /\ \A k, l \in Nat : At(d, k, l, u) => 1 = k /\ j + 1 = l
      BY <2>3, <3>1, <3>2 DEF PoolInv, Lanes
    <3>4. ASSUME NEW k \in Nat, NEW l \in Nat, At(d, k, l, u)'
          PROVE  i = k /\ j = l
      <4>1. IF k = 1 THEN At(d, 1, l + 1, u) ELSE At(d, k, l, u)
        BY <1>10, <3>4
      <4> QED BY <2>3, <2>4, <3>3, <4>1
    <3> QED BY <2>1, <2>2, <2>4, <3>2, <3>3, <3>4
  <2>5. CASE i # 1
    <3>1. At(d, i, j, u)
      BY <1>10, <1>11, <2>5
    <3>2. /\ DeviceOfTask(u) = d
          /\ state[u] = IF Passed(d, i, j) THEN Running ELSE Ready
          /\ \A k, l \in Nat : At(d, k, l, u) => i = k /\ j = l
      BY <2>5, <3>1 DEF PoolInv, Lanes
    <3>4. ASSUME NEW k \in Nat, NEW l \in Nat, At(d, k, l, u)'
          PROVE  i = k /\ j = l
      <4>1. IF k = 1 THEN At(d, 1, l + 1, u) ELSE At(d, k, l, u)
        BY <1>10, <3>4
      <4> QED BY <2>3, <2>5, <3>2, <4>1
    <3> QED BY <2>1, <2>2, <3>2, <3>4
  <2> QED BY <2>4, <2>5
<1>12. ASSUME NEW u \in Task, state'[u] \in {Ready, Running}
       PROVE  \E i, j \in Nat : At(DeviceOfTask(u), i, j, u)'
  <2>1. u # t /\ state[u] \in {Ready, Running}
    BY <1>2, <1>3, <1>12
  <2>2. PICK d \in Device : d = DeviceOfTask(u) /\ d = DeviceOfTask(u)'
    BY <1>1, <2>1, HasDevice DEF DeviceOfTask
  <2>3. PICK i, j \in Nat : At(d, i, j, u)
    <3>1. Lanes
      BY DEF PoolInv
    <3>2. \E i, j \in Nat : At(DeviceOfTask(u), i, j, u)
      BY <2>1, <3>1 DEF Lanes
    <3> QED BY <2>2, <3>2, Zenon
  <2>4. \E k, l \in Nat : At(d, k, l, u)'
    <3>1. CASE i # 1
      BY <1>8, <2>3, <3>1
    <3>2. CASE i = 1
      <4>1. j \in 1 .. n /\ s[j] = u
        BY <1>7, <2>3, <3>2
      <4>2. j # 1
        BY <1>5, <2>1, <4>1
      <4>3. j - 1 \in 1 .. n - 1 /\ j - 1 + 1 = j /\ j - 1 \in Nat
        BY <4>1, <4>2
      <4>4. At(d, 1, j - 1, u)'
        BY <1>7, <4>1, <4>3
      <4> QED BY <4>3, <4>4
    <3> QED BY <3>1, <3>2
  <2> QED BY <2>2, <2>4 DEF At
<1>13. \A d \in Device : recorded'[d] <= IF execQ'[d] = <<>> THEN 0 ELSE Len(Head(execQ'[d]))
  BY <1>1, RecordedBound
<1> QED BY <1>11, <1>12, <1>13 DEF Lanes

(* Where everything is when the oldest submission of device e starts to be *)
(* completed: it is the first of every device's lane, and those after it   *)
(* in e's have moved up.                                                   *)
LEMMA CompletionMoves ==
  ASSUME PoolInv, NEW e \in Device, CompleteSubmission(e)
  PROVE  /\ Ending(stack) = <<>>
         /\ Len(completionQ[e]) \in Nat \ {0}
         /\ Len(completionQ'[e]) = Len(completionQ[e]) - 1
         /\ \A d \in Device : \A i, j \in Nat : \A u \in Task :
              At(d, i, j, u)' <=> IF i = 1 THEN At(e, 2, j, u)
                                  ELSE IF d = e THEN At(e, i + 1, j, u) ELSE At(d, i, j, u)
<1>1. /\ TypeOK /\ stack = <<>> /\ completionQ[e] # <<>>
      /\ UNCHANGED <<home, state, recording, execQ, recorded>>
      /\ stack' = <<CompleteAllFrame(Head(completionQ[e]), Complete), FlushAllFrame>>
  BY DEF PoolInv, QueueInv, TypeInv, CompleteSubmission, taskVars, LockFree
<1>2. PICK c, x, m \in Nat : c = Len(completionQ[e]) /\ x = Len(execQ[e]) /\ m = LastBatch(e)
  BY <1>1, LaneTypes
<1>3. PICK b \in Seq(Created) : b = Head(completionQ[e]) /\ b = completionQ[e][1]
  <2>1. completionQ[e] \in Seq(Seq(Created))
    BY <1>1, LaneTypes
  <2> QED BY <1>1, <2>1
<1>4. Ending(stack) = <<>> /\ Ending(stack') = b
  <2>1. stack'[1] = CompleteAllFrame(b, Complete) /\ Len(stack') = 2
    BY <1>1, <1>3
  <2>2. stack'[1].fn = "CompleteAll" /\ stack'[1].tasks = b
    BY <2>1, NewFields
  <2>3. 1 \in 1 .. Len(stack') /\ Len(stack') - 1 = 1
    BY <2>1
  <2>4. Ending(stack') = b
    BY <2>2, <2>3 DEF Ending
  <2>5. Len(stack) = 0
    BY <1>1
  <2>6. Ending(stack) = <<>>
    BY <2>5 DEF Ending
  <2> QED BY <2>4, <2>6
<1>5. /\ completionQ'[e] = Tail(completionQ[e])
      /\ \A d \in Device : d # e => completionQ'[d] = completionQ[d]
  BY <1>1 DEF CompleteSubmission, TypeOK
<1>6. /\ c # 0 /\ Len(completionQ'[e]) = c - 1
      /\ \A k \in 1 .. c - 1 : completionQ'[e][k] = completionQ[e][k + 1]
  <2>1. completionQ[e] \in Seq(Seq(Created))
    BY <1>1, LaneTypes
  <2> QED BY <1>1, <1>2, <1>5, <2>1, Popped
<1>7. m = c + x + 2
  BY <1>2 DEF LastBatch
<1>8. LastBatch(e)' = m - 1
  <2>1. LastBatch(e)' = c - 1 + x + 2
    BY <1>1, <1>2, <1>6 DEF LastBatch
  <2> QED BY <1>7, <2>1
<1>9. \A d \in Device : LastBatch(d)' \in Nat /\ 1 <= LastBatch(d)'
  <2>1. ASSUME NEW d \in Device, d # e
        PROVE  LastBatch(d)' \in Nat /\ 1 <= LastBatch(d)'
    <3>1. LastBatch(d)' = LastBatch(d)
      BY <1>1, <1>5, <2>1 DEF LastBatch
    <3>2. LastBatch(d) \in Nat \ {0}
      BY <1>1, LaneTypes
    <3>3. \A k \in Nat \ {0} : 1 <= k
      OBVIOUS
    <3> QED BY <3>1, <3>2, <3>3
  <2>2. m - 1 \in Nat /\ 1 <= m - 1
    BY <1>6, <1>7
  <2> QED BY <1>8, <2>1, <2>2
<1>10. Batch(e, 2) = b /\ 2 \in 1 .. m
  <2>1. 2 # 1 /\ 2 <= c + 1 /\ 2 - 1 = 1 /\ 2 \in 1 .. m
    BY <1>6, <1>7
  <2> QED BY <1>2, <1>3, <2>1 DEF Batch
<1>11. ASSUME NEW i \in 2 .. m - 1
       PROVE  Batch(e, i)' = Batch(e, i + 1)
  <2>0. i # 1 /\ i + 1 # 1 /\ i + 1 - 1 = i
    OBVIOUS
  <2>1. CASE i <= c
    <3>1. i <= c - 1 + 1 /\ i + 1 <= c + 1 /\ i - 1 \in 1 .. c - 1 /\ i - 1 + 1 = i
      BY <1>6, <2>1
    <3>2. Batch(e, i)' = completionQ'[e][i - 1]
      BY <1>6, <2>0, <3>1 DEF Batch
    <3>3. Batch(e, i + 1) = completionQ[e][i]
      <4>1. \A k \in Nat : k # 1 /\ k <= c + 1 => Batch(e, k) = completionQ[e][k - 1]
        BY <1>2 DEF Batch
      <4>2. i + 1 \in Nat
        OBVIOUS
      <4>3. Batch(e, i + 1) = completionQ[e][i + 1 - 1]
        BY <2>0, <3>1, <4>1, <4>2
      <4> QED BY <2>0, <4>3
    <3>4. completionQ'[e][i - 1] = completionQ[e][i]
      BY <1>6, <3>1
    <3> QED BY <3>2, <3>3, <3>4
  <2>2. CASE i > c /\ i < m - 1
    <3>1. /\ ~(i <= c - 1 + 1) /\ ~(i + 1 <= c + 1) /\ i + 1 < m
          /\ i - 1 - (c - 1) = i + 1 - 1 - c
      BY <1>6, <2>2
    <3> QED BY <1>1, <1>2, <1>6, <1>8, <2>0, <2>2, <3>1 DEF Batch
  <2>3. CASE i = m - 1
    <3>1. /\ ~(i <= c - 1 + 1) /\ ~(i + 1 <= c + 1) /\ ~(i + 1 < m) /\ ~(i < m - 1)
      BY <1>6, <1>7, <2>3
    <3> QED BY <1>1, <1>2, <1>6, <1>8, <2>0, <3>1 DEF Batch
  <2>4. i <= c \/ (i > c /\ i < m - 1) \/ i = m - 1
    <3>1. m = c + x + 2
      BY <1>7
    <3> QED BY <3>1
  <2> QED BY <2>1, <2>2, <2>3, <2>4
<1>12. ASSUME NEW d \in Device, NEW j \in Nat, NEW u \in Task
       PROVE  At(d, 1, j, u)' <=> At(e, 2, j, u)
  <2>1. Batch(d, 1)' = b /\ 1 \in 1 .. LastBatch(d)'
    BY <1>4, <1>9 DEF Batch
  <2>2. At(d, 1, j, u)' <=> j \in 1 .. Len(b) /\ b[j] = u
    BY <2>1 DEF At
  <2>3. At(e, 2, j, u) <=> j \in 1 .. Len(b) /\ b[j] = u
    BY <1>2, <1>10 DEF At
  <2> QED BY <2>2, <2>3
<1>13. ASSUME NEW i \in Nat, NEW j \in Nat, NEW u \in Task, i # 1
       PROVE  At(e, i, j, u)' <=> At(e, i + 1, j, u)
  <2>1. i \in 1 .. m - 1 <=> i + 1 \in 1 .. m /\ i # 0
    <3>1. m = c + x + 2
      BY <1>7
    <3> QED BY <3>1
  <2>2. CASE i = 0
    <3>1. i \notin 1 .. m - 1
      BY <2>2
    <3>2. Batch(e, i + 1) = Ending(stack)
      BY <2>2 DEF Batch
    <3>3. Len(Batch(e, i + 1)) = 0
      BY <1>4, <3>2
    <3>4. j \notin 1 .. 0
      OBVIOUS
    <3> QED BY <1>8, <3>1, <3>3, <3>4 DEF At
  <2>3. CASE i # 0 /\ i \in 1 .. m - 1
    <3>1. i \in 2 .. m - 1
      BY <1>13, <2>3
    <3>2. Batch(e, i)' = Batch(e, i + 1)
      BY <1>11, <3>1
    <3> QED BY <1>2, <1>8, <2>1, <2>3, <3>2 DEF At
  <2>4. CASE i # 0 /\ i \notin 1 .. m - 1
    BY <1>2, <1>8, <2>1, <2>4 DEF At
  <2> QED BY <2>2, <2>3, <2>4
<1>14. ASSUME NEW d \in Device, NEW i \in Nat, NEW j \in Nat, NEW u \in Task, i # 1, d # e
       PROVE  At(d, i, j, u)' <=> At(d, i, j, u)
  <2>1. UNCHANGED <<completionQ[d], execQ[d], recording[d]>>
    BY <1>1, <1>5, <1>14
  <2> QED BY <1>14, <2>1 DEF At, Batch, LastBatch
<1>15. ASSUME NEW d \in Device, NEW i \in Nat, NEW j \in Nat, NEW u \in Task
       PROVE  At(d, i, j, u)' <=> IF i = 1 THEN At(e, 2, j, u)
                                  ELSE IF d = e THEN At(e, i + 1, j, u) ELSE At(d, i, j, u)
  <2>1. CASE i = 1
    <3>1. At(d, i, j, u)' <=> At(d, 1, j, u)'
      BY <2>1 DEF At
    <3> QED BY <1>12, <2>1, <3>1
  <2>2. CASE i # 1 /\ d = e
    <3>1. At(d, i, j, u)' <=> At(e, i, j, u)'
      BY <2>2 DEF At
    <3> QED BY <1>13, <2>2, <3>1
  <2>3. CASE i # 1 /\ d # e
    BY <1>14, <2>3
  <2> QED BY <2>1, <2>2, <2>3
<1> QED BY <1>2, <1>4, <1>6, <1>15

(* That keeps the lanes.                                                   *)
LEMMA LanesCompleteSubmission ==
  ASSUME PoolInv, NEW e \in Device, CompleteSubmission(e)
  PROVE  Lanes'
<1>1. /\ TypeOK /\ Lanes
      /\ UNCHANGED <<home, state, recording, execQ, recorded>>
      /\ \A d \in Device : d # e => completionQ'[d] = completionQ[d]
  BY DEF PoolInv, QueueInv, TypeInv, CompleteSubmission, taskVars, TypeOK
<1>2. PICK c \in Nat \ {0} : c = Len(completionQ[e]) /\ c - 1 = Len(completionQ'[e])
  BY CompletionMoves
<1>3. /\ Ending(stack) = <<>>
      /\ \A d \in Device : \A i, j \in Nat : \A u \in Task :
           At(d, i, j, u)' <=> IF i = 1 THEN At(e, 2, j, u)
                               ELSE IF d = e THEN At(e, i + 1, j, u) ELSE At(d, i, j, u)
  BY CompletionMoves
<1>4. \A d \in Device : \A j \in Nat : \A u \in Task : ~At(d, 1, j, u)
  <2>1. \A d \in Device : Batch(d, 1) = <<>>
    BY <1>3 DEF Batch
  <2> QED BY <2>1 DEF At
<1>5. 1 \in Nat /\ 2 \in Nat /\ 2 # 1 /\ \A i \in Nat : i + 1 \in Nat /\ (i # 1 => i + 1 # 2)
  OBVIOUS
<1>6. ASSUME NEW i \in Nat, NEW j \in Nat, NEW u \in Task, i # 0, At(e, i + 1, j, u)
      PROVE  /\ DeviceOfTask(u) = e
             /\ \A k, l \in Nat : At(e, k + 1, l, u) => i = k /\ j = l
             /\ \A d \in Device : d # e => \A k, l \in Nat : k # 1 => ~At(d, k, l, u)
             /\ state[u] = IF Passed(e, i, j)' THEN Running ELSE Ready
  <2>1. i + 1 \in Nat /\ i + 1 # 1 /\ \A k \in Nat : k + 1 \in Nat /\ (i + 1 = k + 1 => i = k)
    BY <1>6
  <2>2. /\ DeviceOfTask(u) = e
        /\ state[u] = IF Passed(e, i + 1, j) THEN Running ELSE Ready
        /\ \A k, l \in Nat : At(e, k, l, u) => i + 1 = k /\ j = l
    BY <1>1, <1>6, <2>1 DEF Lanes
  <2>3. Passed(e, i, j)' <=> Passed(e, i + 1, j)
    <3>1. /\ i <= c - 1 + 1 <=> i + 1 <= c + 1
          /\ i = c - 1 + 2 <=> i + 1 = c + 2
      OBVIOUS
    <3> QED BY <1>1, <1>2, <3>1 DEF Passed
  <2>4. \A k, l \in Nat : At(e, k + 1, l, u) => i = k /\ j = l
    BY <2>1, <2>2
  <2>5. \A d \in Device : d # e => \A k, l \in Nat : k # 1 => ~At(d, k, l, u)
    BY <1>1, <2>2 DEF Lanes
  <2> QED BY <2>2, <2>3, <2>4, <2>5
<1>7. ASSUME NEW d \in Device, NEW i \in Nat, NEW j \in Nat, NEW u \in Task, At(d, i, j, u)'
      PROVE  /\ i # 1 => DeviceOfTask(u)' = d
             /\ state'[u] = IF Passed(d, i, j)' THEN Running ELSE Ready
             /\ \A k, l \in Nat : At(d, k, l, u)' => i = k /\ j = l
  <2>1. DeviceOfTask(u)' = DeviceOfTask(u)
    BY <1>1 DEF DeviceOfTask
  <2>2. 1 + 1 = 2 /\ i \in Nat \ {0}
    BY <1>7 DEF At
  <2>3. CASE i = 1
    <3>1. At(e, 1 + 1, j, u)
      BY <1>3, <1>7, <2>2, <2>3
    <3>2. /\ DeviceOfTask(u) = e
          /\ \A k, l \in Nat : At(e, k + 1, l, u) => 1 = k /\ j = l
          /\ \A f \in Device : f # e => \A k, l \in Nat : k # 1 => ~At(f, k, l, u)
          /\ state[u] = IF Passed(e, 1, j)' THEN Running ELSE Ready
      BY <1>5, <1>6, <3>1
    <3>3. Passed(e, 1, j)' /\ Passed(d, 1, j)'
      <4>1. \A k \in Nat : 1 <= k + 1
        OBVIOUS
      <4>2. c - 1 \in Nat /\ Len(completionQ[d]) \in Nat
        BY <1>1, LaneTypes
      <4>3. d # e => completionQ'[d] = completionQ[d]
        BY <1>1
      <4>4. Len(completionQ'[d]) \in Nat /\ Len(completionQ'[e]) \in Nat
        BY <1>2, <4>2, <4>3
      <4> QED BY <4>1, <4>4 DEF Passed
    <3>4. ASSUME NEW k \in Nat, NEW l \in Nat, At(d, k, l, u)'
          PROVE  i = k /\ j = l
      <4>1. IF k = 1 THEN At(e, 1 + 1, l, u)
            ELSE IF d = e THEN At(e, k + 1, l, u) ELSE At(d, k, l, u)
        BY <1>3, <2>2, <3>4
      <4> QED BY <1>5, <2>3, <3>2, <4>1
    <3> QED BY <1>1, <2>3, <3>2, <3>3, <3>4
  <2>4. CASE i # 1 /\ d = e
    <3>1. At(e, i + 1, j, u)
      BY <1>3, <1>7, <2>4
    <3>2. /\ DeviceOfTask(u) = e
          /\ \A k, l \in Nat : At(e, k + 1, l, u) => i = k /\ j = l
          /\ state[u] = IF Passed(e, i, j)' THEN Running ELSE Ready
      BY <1>6, <2>2, <3>1
    <3>4. ASSUME NEW k \in Nat, NEW l \in Nat, At(d, k, l, u)'
          PROVE  i = k /\ j = l
      <4>1. IF k = 1 THEN At(e, 1 + 1, l, u) ELSE At(e, k + 1, l, u)
        BY <1>3, <2>2, <2>4, <3>4
      <4> QED BY <1>5, <2>4, <3>2, <4>1
    <3> QED BY <1>1, <2>1, <2>4, <3>2, <3>4
  <2>5. CASE i # 1 /\ d # e
    <3>1. At(d, i, j, u)
      BY <1>3, <1>7, <2>5
    <3>2. /\ DeviceOfTask(u) = d
          /\ state[u] = IF Passed(d, i, j) THEN Running ELSE Ready
          /\ \A k, l \in Nat : At(d, k, l, u) => i = k /\ j = l
      BY <1>1, <2>5, <3>1 DEF Lanes
    <3>3. Passed(d, i, j)' <=> Passed(d, i, j)
      BY <1>1, <2>5 DEF Passed
    <3>4. ASSUME NEW k \in Nat, NEW l \in Nat, At(d, k, l, u)'
          PROVE  i = k /\ j = l
      <4>1. IF k = 1 THEN At(e, 1 + 1, l, u) ELSE At(d, k, l, u)
        BY <1>3, <2>2, <2>5, <3>4
      <4>2. ~At(e, 1 + 1, l, u)
        BY <1>5, <1>6, <2>5, <3>2
      <4> QED BY <3>2, <4>1, <4>2
    <3> QED BY <1>1, <2>1, <3>2, <3>3, <3>4
  <2> QED BY <2>3, <2>4, <2>5
<1>8. ASSUME NEW u \in Task, state'[u] \in {Ready, Running}
      PROVE  \E i, j \in Nat : At(DeviceOfTask(u), i, j, u)'
  <2>1. state[u] \in {Ready, Running}
    BY <1>1, <1>8
  <2>2. PICK d \in Device : d = DeviceOfTask(u) /\ d = DeviceOfTask(u)'
    BY <1>1, <2>1, HasDevice DEF DeviceOfTask
  <2>3. PICK i, j \in Nat : At(d, i, j, u)
    <3>1. \E i, j \in Nat : At(DeviceOfTask(u), i, j, u)
      BY <1>1, <2>1 DEF Lanes
    <3> QED BY <2>2, <3>1, Zenon
  <2>4. i # 1 /\ i - 1 \in Nat /\ i - 1 + 1 = i /\ (i # 2 => i - 1 # 1)
    <3>1. i # 1 /\ i \in Nat \ {0}
      BY <1>4, <2>3 DEF At
    <3> QED BY <3>1
  <2>5. \E k, l \in Nat : At(d, k, l, u)'
    BY <1>3, <1>5, <2>3, <2>4
  <2> QED BY <2>2, <2>5 DEF At
<1>9. \A d \in Device : recorded'[d] <= IF execQ'[d] = <<>> THEN 0 ELSE Len(Head(execQ'[d]))
  BY <1>1, RecordedBound
<1> QED BY <1>7, <1>8, <1>9 DEF Lanes

(* Every step of the lock holder keeps the lanes.                          *)
LEMMA LockLanes ==
  ASSUME PoolInv, LockStep
  PROVE  Lanes'
<1>1. CallsKept /\ LockEffect /\ TypeOK /\ Created \subseteq Task
  BY LockCalls, LockEffects, CreatedTasks DEF PoolInv, QueueInv, TypeInv
<1>2. CASE Head(stack).fn = "CompleteAll"
  <2>1. CASE Quiet /\ Ending(stack') = Ending(stack)
    BY <2>1, LanesIdle DEF Quiet, taskVars
  <2>2. CASE /\ Ending(stack) # <<>> /\ Ends(Head(Ending(stack)), Complete)
             /\ Ending(stack') = Tail(Ending(stack))
    <3>1. Head(stack).tasks # <<>> /\ Ending(stack) = Head(stack).tasks /\ stack # <<>>
      BY <1>1, <1>2, <2>2 DEF CallsKept, LockStep
    <3>2. PICK s \in Seq(Created) : s = Ending(stack)
      BY <1>2, <3>1, EndingRuns
    <3>3. PICK t \in Created : t = Head(s)
      BY <2>2, <3>2
    <3>4. Complete \in Error
      BY StatusOrder DEF Error, Complete
    <3> QED BY <2>2, <3>2, <3>3, <3>4, LanesEndsFirst
  <2> QED BY <1>1, <1>2, <2>1, <2>2 DEF CallsKept
<1>3. CASE Head(stack).fn # "CompleteAll"
  <2>0. Ending(stack') = Ending(stack)
    BY <1>1, <1>3 DEF CallsKept
  <2>1. CASE Quiet
    BY <2>0, <2>1, LanesIdle DEF Quiet, taskVars
  <2>2. ASSUME NEW q \in Queue, NEW t \in Created, Submits(t, q)
        PROVE  Lanes'
    <3>1. state[t] = Queued /\ t \in Task
      <4>1. Leaves(t, q)
        BY <2>2 DEF Submits
      <4>2. state[t] = Queued
        BY <4>1, Oldest, Zenon
      <4> QED BY <1>1, <4>2
    <3>2. \A u \in Task : state'[u] = IF u = t THEN Submitted ELSE state[u]
      BY <1>1, <2>2, <3>1 DEF Submits, TypeOK
    <3> QED BY <2>0, <2>2, <3>1, <3>2, StatusOrder, LanesIdle DEF Submits, taskVars
  <2>3. ASSUME NEW q \in Queue, NEW t \in Created, SubmitsReady(t, q)
        PROVE  Lanes'
    <3>1. state[t] = Queued /\ home[t] \in Queue
      <4>1. Leaves(t, q)
        BY <2>3 DEF SubmitsReady
      <4>2. state[t] = Queued /\ home[t] = q
        BY <4>1, Oldest, Zenon
      <4> QED BY <4>2
    <3> QED BY <2>0, <2>3, <3>1, StatusOrder, LanesTurnsReady DEF SubmitsReady
  <2>4. ASSUME NEW v, NEW d \in Created, Releases(v, d)
        PROVE  Lanes'
    BY <2>0, <2>4, LanesIdle DEF Releases, taskVars
  <2>5. ASSUME NEW v, NEW d \in Created, home[d] \in Queue, ReleasesLast(v, d)
        PROVE  Lanes'
    BY <2>0, <2>5, StatusOrder, LanesTurnsReady DEF ReleasesLast
  <2>6. ASSUME NEW t \in Created, NEW e \in Error, state[t] \in {Queued, Submitted}, Ends(t, e)
        PROVE  Lanes'
    <3>1. \A u \in Task : state'[u] = IF u = t THEN e ELSE state[u]
      BY <1>1, <2>6 DEF Ends, TypeOK
    <3>2. e \notin {Ready, Running}
      BY StatusOrder
    <3> QED BY <2>0, <2>6, <3>1, <3>2, StatusOrder, LanesIdle DEF Ends, taskVars
  <2>7. ASSUME NEW t \in Created, Clears(t)
        PROVE  Lanes'
    BY <2>0, <2>7, LanesIdle DEF Clears, taskVars
  <2>8. ASSUME NEW S, Flushes(S)
        PROVE  Lanes'
    BY <2>0, <2>8, LanesFlushes
  <2> QED BY <1>1, <1>3, <2>1, <2>2, <2>3, <2>4, <2>5, <2>6, <2>7, <2>8 DEF LockEffect
<1> QED BY <1>2, <1>3

-----------------------------------------------------------------------------
(* Steps taken while nobody holds the lock *)

(* The calls made by an action that takes the lock, or leaves it free.     *)
LEMMA FirstCalls ==
  ASSUME PoolInv, stack = <<>>,
         \/ stack' = <<>>
         \/ \E f \in Frames : /\ stack' = <<f>>
                              /\ f.fn \in {"Flush", "clWaitForEvents", "FlushAllDevices"}
  PROVE  CallsHold' /\ Nested(stack)' /\ Ending(stack') = Ending(stack)
<1>1. Len(stack) = 0 /\ Ending(stack) = <<>>
  <2>1. Len(stack) = 0
    OBVIOUS
  <2> QED BY <2>1 DEF Ending
<1>2. CASE stack' = <<>>
  <2>1. Len(stack') = 0 /\ ToSet(stack') = {}
    BY <1>2 DEF ToSet
  <2> QED BY <1>1, <2>1 DEF CallsHold, Nested, Ending
<1>3. CASE \E f \in Frames : /\ stack' = <<f>>
                             /\ f.fn \in {"Flush", "clWaitForEvents", "FlushAllDevices"}
  <2>1. PICK f \in Frames : /\ stack' = <<f>>
                            /\ f.fn \in {"Flush", "clWaitForEvents", "FlushAllDevices"}
    BY <1>3
  <2>2. Len(stack') = 1 /\ stack'[1] = f /\ ToSet(stack') = {f} /\ 1 .. 1 = {1}
    BY <2>1 DEF ToSet
  <2>3. CallHolds(f)'
    BY <2>1 DEF CallHolds
  <2>4. \A i \in 1 .. Len(stack') : stack'[i] = f
    BY <2>2
  <2>5. CallsHold'
    BY <2>2, <2>3 DEF CallsHold
  <2>6. Nested(stack)'
    BY <2>1, <2>4 DEF Nested
  <2>7. Ending(stack') = <<>>
    BY <2>1, <2>4 DEF Ending
  <2> QED BY <1>1, <2>5, <2>6, <2>7
<1> QED BY <1>2, <1>3

(* What is left to show of a step once its tasks, calls and lanes are.     *)
LEMMA PoolKept ==
  ASSUME PoolInv, [Next]_vars, Kept, CallsHold', Nested(stack)', PromisesOnce',
         SetsUserEvents', Lanes'
  PROVE  PoolInv'
<1>1. QueueInv'
  BY QueueStep DEF PoolInv
<1> QED BY <1>1 DEF PoolInv, Kept

(* A step that changes no status of a task that has ended, and sets no     *)
(* promise, keeps what is known of promises.                               *)
LEMMA PromisesKept ==
  ASSUME PoolInv, UNCHANGED signalled, fault' \in {fault, "none"},
         \A t \in Created : Finished(t) => state'[t] = state[t]
  PROVE  PromisesOnce'
<1>1. signalled \subseteq Created
  BY DEF PoolInv, QueueInv, TypeInv, TypeOK
<1> QED BY <1>1 DEF PoolInv, PromisesOnce, Finished

(* The statuses of user events are set for user events still when no call  *)
(* is added, and the homes of the tasks that exist stay.                   *)
LEMMA SettersKept ==
  ASSUME PoolInv, setters' \subseteq setters, \A t \in Created : home'[t] = home[t]
  PROVE  SetsUserEvents'
<1>1. \A s \in setters : s[1] \in Created
  BY DEF PoolInv, QueueInv, TypeInv, TypeOK
<1> QED BY <1>1 DEF PoolInv, SetsUserEvents

(* Creating a user event keeps the invariant.                              *)
LEMMA PoolCreateUserEvent ==
  ASSUME PoolInv, [Next]_vars, CreateUserEvent
  PROVE  PoolInv'
<1> DEFINE t == created + 1
<1>1. /\ TypeOK /\ created \in Nat /\ created' = t /\ t \in Task /\ t > created
      /\ stack = <<>> /\ stack' = <<>> /\ t \notin Created
      /\ UNCHANGED <<home, signalled, fault, setters, deviceVars>>
  <2>1. created \in Nat /\ created < NumTasks /\ NumTasks \in Nat
    BY TaskPoolAssumption DEF PoolInv, QueueInv, TypeInv, TypeOK, CreateUserEvent
  <2>2. t \in Task /\ t > created /\ t \notin Created
    BY <2>1 DEF Task, Created
  <2> QED BY <2>1, <2>2 DEF PoolInv, QueueInv, TypeInv, CreateUserEvent, LockFree, callVars
<1> HIDE DEF t
<1>2. \A u \in Task : state'[u] = IF u = t THEN Submitted ELSE state[u]
  BY <1>1 DEF CreateUserEvent, TypeOK, t
<1>3. state[t] = Queued
  BY <1>1 DEF PoolInv, Uncreated
<1>4. Kept
  BY PlacesCreate
<1>5. CallsHold' /\ Nested(stack)' /\ Ending(stack') = Ending(stack)
  BY <1>1, FirstCalls
<1>6. Lanes'
  BY <1>1, <1>2, <1>3, <1>5, StatusOrder, LanesIdle
<1>7. \A u \in Created : u \in Task /\ u # t
  BY <1>1, CreatedTasks
<1>8. PromisesOnce' /\ SetsUserEvents'
  BY <1>1, <1>2, <1>7, PromisesKept, SettersKept
<1> QED BY <1>4, <1>5, <1>6, <1>8, PoolKept

(* So does enqueueing a command.                                           *)
LEMMA PoolEnqueue ==
  ASSUME PoolInv, [Next]_vars, NEW q \in Queue, NEW command, NEW W \in SUBSET Created,
         Enqueue(q, command, W)
  PROVE  PoolInv'
<1> DEFINE t == created + 1
<1>1. /\ TypeOK /\ created \in Nat /\ t \in Task /\ t > created
      /\ stack = <<>> /\ stack' = <<>> /\ t \notin Created
      /\ UNCHANGED <<state, signalled, fault, setters, deviceVars>>
  <2>1. created \in Nat /\ created < NumTasks /\ NumTasks \in Nat
    BY TaskPoolAssumption DEF PoolInv, QueueInv, TypeInv, TypeOK, Enqueue
  <2>2. t \in Task /\ t > created /\ t \notin Created
    BY <2>1 DEF Task, Created
  <2> QED BY <2>1, <2>2 DEF PoolInv, QueueInv, TypeInv, Enqueue, LockFree, callVars
<1> HIDE DEF t
<1>2. \A u \in Task : home'[u] = IF u = t THEN q ELSE home[u]
  BY <1>1 DEF Enqueue, TypeOK, t
<1>3. state[t] = Queued
  BY <1>1 DEF PoolInv, Uncreated
<1>4. Kept
  BY PlacesEnqueue
<1>5. CallsHold' /\ Nested(stack)' /\ Ending(stack') = Ending(stack)
  BY <1>1, FirstCalls
<1>6. Lanes'
  BY <1>1, <1>2, <1>3, <1>5, StatusOrder, LanesIdle
<1>7. \A u \in Created : u \in Task /\ u # t
  BY <1>1, CreatedTasks
<1>8. PromisesOnce' /\ SetsUserEvents'
  BY <1>1, <1>2, <1>7, PromisesKept, SettersKept
<1> QED BY <1>4, <1>5, <1>6, <1>8, PoolKept

(* So do calls that only start something, ...                              *)
LEMMA PoolCalls ==
  ASSUME PoolInv, [Next]_vars,
         \/ \E q \in Queue : ClFlush(q)
         \/ \E W \in SUBSET Created : ClWaitForEvents(W)
  PROVE  PoolInv'
<1>1. /\ stack = <<>> /\ UNCHANGED <<taskVars, state, depVars, signalled, queueVars, deviceVars,
                                     setters, fault>>
  BY DEF ClFlush, ClWaitForEvents, LockFree, callVars
<1>2. \E f \in Frames : /\ stack' = <<f>>
                        /\ f.fn \in {"Flush", "clWaitForEvents", "FlushAllDevices"}
  <2>1. ASSUME NEW q \in Queue, ClFlush(q)
        PROVE  FlushFrame(q, TRUE) \in Frames /\ stack' = <<FlushFrame(q, TRUE)>>
    BY <2>1, FrameTypes DEF ClFlush
  <2>2. ASSUME NEW W \in SUBSET Created, ClWaitForEvents(W)
        PROVE  \E T \in SUBSET Created : WaitFrame(T) \in Frames /\ stack' = <<WaitFrame(T)>>
    <3>1. {t \in W : state[t] = Queued} \in SUBSET Created
      OBVIOUS
    <3> QED BY <2>2, <3>1, FrameTypes DEF ClWaitForEvents
  <2>3. CASE \E q \in Queue : ClFlush(q)
    <3>1. PICK q \in Queue : ClFlush(q)
      BY <2>3
    <3>2. FlushFrame(q, TRUE) \in Frames /\ stack' = <<FlushFrame(q, TRUE)>>
      BY <2>1, <3>1
    <3>3. FlushFrame(q, TRUE).fn = "Flush"
      BY DEF FlushFrame
    <3> QED BY <3>2, <3>3
  <2>4. CASE \E W \in SUBSET Created : ClWaitForEvents(W)
    BY <2>2, <2>4, NewFields
  <2> QED BY <2>3, <2>4
<1>3. CallsHold' /\ Nested(stack)' /\ Ending(stack') = Ending(stack)
  BY <1>1, <1>2, FirstCalls
<1>4. Kept
  BY <1>1, PlacesQuiet DEF queueVars
<1>5. Lanes'
  BY <1>1, <1>3, LanesIdle DEF taskVars
<1>6. PromisesOnce' /\ SetsUserEvents'
  BY <1>1, PromisesKept, SettersKept DEF taskVars
<1> QED BY <1>3, <1>4, <1>5, <1>6, PoolKept

(* ... and steps that change nothing but the calls under way to            *)
(* clSetUserEventStatus.                                                   *)
LEMMA PoolCheck ==
  ASSUME PoolInv, [Next]_vars,
         \/ UNCHANGED vars
         \/ \E u \in Task, s \in UserStatus : SetUserEventStatusCheck(u, s)
  PROVE  PoolInv'
<1>1. UNCHANGED <<taskVars, state, depVars, signalled, queueVars, deviceVars, stack, fault>>
  BY DEF vars, SetUserEventStatusCheck
<1>2. CallsHold' /\ Nested(stack)' /\ Ending(stack') = Ending(stack)
  BY <1>1 DEF PoolInv, CallsHold, CallHolds, Finished, taskVars, depVars
<1>3. Kept
  BY <1>1, PlacesQuiet DEF queueVars
<1>4. Lanes'
  BY <1>1, <1>2, LanesIdle DEF taskVars
<1>5. PromisesOnce'
  BY <1>1, PromisesKept DEF taskVars
<1>6. SetsUserEvents'
  <2>1. CASE UNCHANGED vars
    BY <2>1 DEF vars, callVars, taskVars, PoolInv, SetsUserEvents
  <2>2. ASSUME NEW u \in Task, NEW s \in UserStatus, SetUserEventStatusCheck(u, s)
        PROVE  SetsUserEvents'
    <3>1. home[u] = NoQueue /\ setters' = setters \cup {<<u, s>>} /\ UNCHANGED home
      BY <2>2 DEF SetUserEventStatusCheck, UserEvents, taskVars
    <3> QED BY <3>1 DEF PoolInv, SetsUserEvents
  <2> QED BY <2>1, <2>2
<1> QED BY <1>2, <1>3, <1>4, <1>5, <1>6, PoolKept

(* Setting the status of a user event keeps the invariant: the event has   *)
(* ended already, or is in no queue and on no device.                      *)
LEMMA PoolSetUserEventStatus ==
  ASSUME PoolInv, [Next]_vars, NEW u \in Task, NEW s \in UserStatus, SetUserEventStatus(u, s)
  PROVE  PoolInv'
<1>1. /\ TypeOK /\ stack = <<>> /\ u \in Created /\ s \in Error /\ home[u] = NoQueue
      /\ UNCHANGED <<taskVars, depVars, signalled, deviceVars, fault>>
      /\ setters' \subseteq setters
  <2>1. TypeOK /\ <<u, s>> \in setters
    BY DEF PoolInv, QueueInv, TypeInv, SetUserEventStatus
  <2>2. u \in Created /\ home[u] = NoQueue
    BY <2>1 DEF TypeOK, PoolInv, SetsUserEvents
  <2>3. s \in Error
    BY Statuses
  <2> QED BY <2>1, <2>2, <2>3 DEF SetUserEventStatus, LockFree
<1>2. BeginComplete(u, s, <<FlushAllFrame>>)
  BY DEF SetUserEventStatus
<1>3. CASE Finished(u)
  <2>1. UNCHANGED <<state, queueVars>> /\ stack' = <<FlushAllFrame>>
    BY <1>2, <1>3 DEF BeginComplete
  <2>2. CallsHold' /\ Nested(stack)' /\ Ending(stack') = Ending(stack)
    BY <1>1, <2>1, FirstCalls, FrameTypes, NewFields
  <2>3. Kept
    BY <1>1, <2>1, PlacesQuiet DEF queueVars
  <2>4. Lanes'
    BY <1>1, <2>1, <2>2, LanesIdle DEF taskVars
  <2>5. PromisesOnce' /\ SetsUserEvents'
    BY <1>1, <2>1, PromisesKept, SettersKept DEF taskVars
  <2> QED BY <2>2, <2>3, <2>4, <2>5, PoolKept
<1>4. CASE ~Finished(u)
  <2>1. /\ state' = [state EXCEPT ![u] = s] /\ NotifyTaskCompletion(u)
        /\ stack' = <<CompleteFrame(u, s, waiters[u])>> \o <<FlushAllFrame>>
    BY <1>2, <1>4 DEF BeginComplete
  <2>2. Ends(u, s)
    BY <1>1, <1>4, <2>1 DEF Ends
  <2>3. state[u] = Submitted
    BY <1>1, <1>4 DEF PoolInv, Places
  <2>4. \A t \in Task : state'[t] = IF t = u THEN s ELSE state[t]
    BY <1>1, <2>1 DEF TypeOK
  <2>5. PICK g, h \in Frames : /\ g = CompleteFrame(u, s, waiters[u])
                               /\ h = FlushAllFrame
    BY <1>1, FrameTypes, TaskFacts
  <2>6. /\ stack' = <<g>> \o <<h>> /\ g.fn = "Complete" /\ h.fn = "FlushAllDevices"
    BY <2>1, <2>5, NewFields
  <2>7. Len(stack') = 2 /\ stack'[1] = g /\ stack'[2] = h /\ 1 .. 2 = {1, 2} /\ ToSet(stack') = {g, h}
    <3>1. <<h>> \in Seq(Frames) /\ Len(<<h>>) = 1 /\ <<h>>[1] = h /\ ToSet(<<h>>) = {h}
      BY DEF ToSet
    <3>2. /\ Len(<<g>> \o <<h>>) = 2 /\ (<<g>> \o <<h>>)[1] = g /\ (<<g>> \o <<h>>)[2] = h
          /\ 1 .. 2 = {1, 2}
      OBVIOUS
    <3>3. ToSet(<<g>> \o <<h>>) = {g} \cup ToSet(<<h>>)
      BY <3>1, Pushed
    <3> QED BY <2>6, <3>1, <3>2, <3>3
  <2>8. CallHolds(g)'
    BY <1>1, <1>4, <2>1, <2>3, <2>5, NewCompleteHolds DEF taskVars, depVars
  <2>9. CallHolds(h)'
    BY <2>6 DEF CallHolds
  <2>10. CallsHold'
    BY <2>7, <2>8, <2>9 DEF CallsHold
  <2>11. \A i \in 1 .. Len(stack') : (i = 1 /\ stack'[i] = g) \/ (i = 2 /\ stack'[i] = h)
    BY <2>7
  <2>12. Nested(stack)'
    BY <2>6, <2>7, <2>11 DEF Nested
  <2>13. Ending(stack') = Ending(stack)
    <3>1. Ending(stack') = <<>>
      BY <2>6, <2>11 DEF Ending
    <3>2. Len(stack) = 0
      BY <1>1
    <3> QED BY <3>1, <3>2 DEF Ending
  <2>14. Kept
    BY <1>1, <2>2, PlacesEnds
  <2>15. s \notin {Ready, Running} /\ Submitted \notin {Ready, Running}
    BY <1>1, StatusOrder
  <2>16. Lanes'
    BY <1>1, <2>3, <2>4, <2>13, <2>15, LanesIdle DEF taskVars
  <2>17. \A t \in Created : Finished(t) => state'[t] = state[t]
    BY <1>1, <1>4, <2>4, CreatedTasks
  <2>18. PromisesOnce' /\ SetsUserEvents'
    BY <1>1, <2>17, PromisesKept, SettersKept DEF taskVars
  <2> QED BY <2>10, <2>12, <2>14, <2>16, <2>18, PoolKept
<1> QED BY <1>3, <1>4

(* The steps of a device's threads keep the invariant.                     *)
LEMMA PoolDeviceThreads ==
  ASSUME PoolInv, [Next]_vars, DeviceThreads
  PROVE  PoolInv'
<1>1. ASSUME NEW d \in Device, Record(d)
      PROVE  PoolInv'
  <2>1. PICK t \in Created : /\ t = Head(execQ[d])[recorded[d] + 1] /\ state[t] = Ready
                             /\ state' = [state EXCEPT ![t] = Running]
    BY <1>1, NextToRecord DEF Record
  <2>2. /\ TypeOK /\ stack = <<>> /\ stack' = <<>> /\ t \in Task
        /\ UNCHANGED <<taskVars, depVars, signalled, queueVars, setters, fault>>
    BY <1>1, CreatedTasks DEF PoolInv, QueueInv, TypeInv, Record, LockFree, callVars
  <2>3. \A u \in Task : state'[u] = IF u = t THEN Running ELSE state[u]
    BY <2>1, <2>2 DEF TypeOK
  <2>4. CallsHold' /\ Nested(stack)'
    BY <2>2, FirstCalls
  <2>5. Kept
    BY <2>1, <2>2, PlacesRecord
  <2>6. Lanes'
    BY <1>1, LanesRecord
  <2>7. \A u \in Created : Finished(u) => state'[u] = state[u]
    BY <2>1, <2>2, <2>3, CreatedTasks, StatusOrder DEF Finished
  <2>8. PromisesOnce' /\ SetsUserEvents'
    BY <2>2, <2>7, PromisesKept, SettersKept DEF taskVars
  <2> QED BY <2>4, <2>5, <2>6, <2>8, PoolKept
<1>2. ASSUME NEW d \in Device, RecordFails(d)
      PROVE  FALSE
  BY <1>2 DEF RecordFails, PoolInv
<1>3. ASSUME NEW d \in Device, SubmitExecution(d)
      PROVE  PoolInv'
  <2>1. /\ stack = <<>> /\ stack' = <<>>
        /\ UNCHANGED <<taskVars, state, depVars, signalled, queueVars, setters, fault>>
    BY <1>3 DEF SubmitExecution, LockFree, callVars
  <2>2. CallsHold' /\ Nested(stack)'
    BY <2>1, FirstCalls
  <2>3. Kept
    BY <2>1, PlacesQuiet DEF queueVars
  <2>4. Lanes'
    BY <1>3, LanesSubmitExecution
  <2>5. PromisesOnce' /\ SetsUserEvents'
    BY <2>1, PromisesKept, SettersKept DEF taskVars
  <2> QED BY <2>2, <2>3, <2>4, <2>5, PoolKept
<1>4. ASSUME NEW d \in Device, CompleteSubmission(d)
      PROVE  PoolInv'
  <2>1. /\ TypeOK /\ stack = <<>> /\ completionQ[d] # <<>>
        /\ UNCHANGED <<taskVars, state, depVars, signalled, queueVars, setters, fault>>
        /\ stack' = <<CompleteAllFrame(Head(completionQ[d]), Complete), FlushAllFrame>>
    BY <1>4 DEF PoolInv, QueueInv, TypeInv, CompleteSubmission, LockFree, callVars
  <2>2. PICK b \in Seq(Created) : b = Head(completionQ[d])
    BY <2>1 DEF TypeOK
  <2>3. PICK g, h : g = CompleteAllFrame(b, Complete) /\ h = FlushAllFrame
    OBVIOUS
  <2>4. /\ stack' = <<g, h>> /\ g.fn = "CompleteAll" /\ h.fn = "FlushAllDevices"
        /\ g.tasks = b /\ g.error = Complete
    BY <2>1, <2>2, <2>3, NewFields
  <2>5. Len(stack') = 2 /\ stack'[1] = g /\ stack'[2] = h /\ 1 .. 2 = {1, 2} /\ ToSet(stack') = {g, h}
    BY <2>4 DEF ToSet
  <2>6. Lanes'
    BY <1>4, LanesCompleteSubmission
  <2>7. Ending(stack') = b
    <3>1. \E i \in 1 .. Len(stack') : stack'[i].fn = "CompleteAll"
      BY <2>4, <2>5
    <3>2. Len(stack') - 1 = 1
      BY <2>5
    <3> QED BY <2>4, <2>5, <3>1, <3>2 DEF Ending
  <2>8. ASSUME NEW t \in ToSet(b)
        PROVE  home'[t] \in Queue
    <3>1. PICK j \in 1 .. Len(b) : t = b[j]
      BY DEF ToSet
    <3>2. t \in Created /\ t \in Task
      BY <2>1, <3>1, CreatedTasks
    <3>3. At(d, 1, j, t)'
      <4>1. Batch(d, 1)' = b
        BY <2>7 DEF Batch
      <4>2. 1 \in 1 .. LastBatch(d)'
        <5>1. PICK n, m \in Nat : n = Len(completionQ'[d]) /\ m = Len(execQ'[d])
          <6>1. TypeOK'
            BY QueueStep DEF PoolInv, QueueInv, TypeInv
          <6> QED BY <6>1 DEF TypeOK
        <5>2. 1 \in 1 .. n + m + 2
          OBVIOUS
        <5> QED BY <5>1, <5>2 DEF LastBatch
      <4> QED BY <3>1, <4>1, <4>2 DEF At
    <3>4. state'[t] \in {Ready, Running}
      <4>1. 1 \in Nat /\ j \in Nat
        OBVIOUS
      <4> QED BY <2>6, <3>2, <3>3, <4>1 DEF Lanes
    <3> QED BY <2>1, <3>2, <3>4, HasDevice DEF taskVars
  <2>9. CallHolds(g)' /\ CallHolds(h)'
    BY <2>4, <2>8 DEF CallHolds
  <2>10. CallsHold'
    BY <2>5, <2>9 DEF CallsHold
  <2>11. \A i \in 1 .. Len(stack') : (i = 1 /\ stack'[i] = g) \/ (i = 2 /\ stack'[i] = h)
    BY <2>5
  <2>12. Nested(stack)'
    <3>1. 1 = Len(stack') - 1
      BY <2>5
    <3> QED BY <2>4, <2>5, <2>11, <3>1 DEF Nested
  <2>13. Kept
    BY <2>1, PlacesQuiet DEF queueVars
  <2>14. PromisesOnce' /\ SetsUserEvents'
    BY <2>1, PromisesKept, SettersKept DEF taskVars
  <2> QED BY <2>6, <2>10, <2>12, <2>13, <2>14, PoolKept
<1> QED BY <1>1, <1>2, <1>3, <1>4 DEF DeviceThreads

(* So do the steps of the lock holder.                                     *)
LEMMA PoolLockHolder ==
  ASSUME PoolInv, [Next]_vars, LockHolder
  PROVE  PoolInv'
<1>1. LockStep
  BY LockSteps DEF PoolInv, QueueInv
<1>2. Kept /\ CallsHold' /\ Nested(stack)' /\ PromisesOnce' /\ Lanes'
  BY <1>1, LockEffects, EffectKept, LockCalls, LockPromises, LockLanes DEF CallsKept
<1>3. UNCHANGED <<home, setters>>
  <2>1. UNCHANGED home
    BY <1>1, LockEffects, EffectSteady DEF Steady
  <2>2. CASE FlushTask \/ FlushReturns
    BY <2>1, <2>2, Zenon DEF FlushTask, FlushReturns, callVars
  <2>6. CASE FlushAllDevices \/ WaitFlush
    BY <2>1, <2>6, Zenon DEF FlushAllDevices, WaitFlush, callVars
  <2>3. CASE SubmitDependency \/ SubmitReturns \/ SubmitIteratorInvalid
    BY <2>1, <2>3 DEF SubmitDependency, SubmitReturns, SubmitIteratorInvalid, callVars
  <2>4. CASE ReadyDependent \/ ReadyReturns
    BY <2>1, <2>4 DEF ReadyDependent, ReadyReturns, callVars
  <2>5. CASE CompleteDependent \/ CompleteReturns \/ CompleteNext
    BY <2>1, <2>5 DEF CompleteDependent, CompleteReturns, CompleteNext, callVars
  <2> QED BY <2>2, <2>3, <2>4, <2>5, <2>6 DEF LockHolder
<1>4. SetsUserEvents'
  BY <1>3, SettersKept
<1> QED BY <1>2, <1>4, PoolKept

(* Every step keeps the invariant, as long as no command fails to be       *)
(* recorded.                                                               *)
LEMMA PoolStep == PoolInv /\ [Next]_vars => PoolInv'
<1> SUFFICES ASSUME PoolInv, [Next]_vars PROVE PoolInv'
  OBVIOUS
<1>1. ASSUME NEW q \in Queue,
             EnqueueCommand(q) \/ EnqueueMarkerWithWaitList(q) \/ EnqueueBarrierWithWaitList(q)
      PROVE  PoolInv'
  BY <1>1, PoolEnqueue DEF EnqueueCommand, EnqueueMarkerWithWaitList, EnqueueBarrierWithWaitList
<1> QED
  BY <1>1, PoolCreateUserEvent, PoolCalls, PoolCheck, PoolLockHolder, PoolSetUserEventStatus,
     PoolDeviceThreads DEF Next, Application

(* ... and it holds when the platform is loaded.                           *)
LEMMA PoolInit ==
  ASSUME Init, ~RecordMayFail
  PROVE  PoolInv
<1>1. /\ QueueInv /\ Created = {} /\ Len(stack) = 0 /\ ToSet(stack) = {}
  BY QueueInit DEF Init, Created, ToSet
<1>2. Uncreated /\ Links /\ PromisesOnce /\ SetsUserEvents /\ CallsHold /\ Nested(stack)
  BY <1>1 DEF Init, Uncreated, Links, PromisesOnce, SetsUserEvents, CallsHold, Nested
<1>3. \A t \in Task : state[t] = Queued
  BY DEF Init
<1>4. Places
  <2>1. \A q \in Queue : queued[q] = <<>> /\ ToSet(queued[q]) = {} /\ outstanding[q] = {}
    BY DEF Init, ToSet
  <2> QED BY <1>1, <1>3, <2>1, StatusOrder DEF Places
<1>5. Lanes
  <2>1. ASSUME NEW d \in Device
        PROVE  /\ completionQ[d] = <<>> /\ execQ[d] = <<>> /\ recording[d] = <<>> /\ recorded[d] = 0
               /\ LastBatch(d) = 2
    BY DEF Init, LastBatch
  <2>2. Ending(stack) = <<>>
    BY <1>1 DEF Ending
  <2>3. ASSUME NEW d \in Device, NEW i \in 1 .. LastBatch(d)
        PROVE  Batch(d, i) = <<>>
    <3>1. Len(completionQ[d]) = 0 /\ (i # 1 => ~(i <= 0 + 1) /\ ~(i < 2))
      BY <2>1
    <3> QED BY <2>1, <2>2, <3>1 DEF Batch
  <2>4. \A d \in Device : \A i, j \in Nat : \A t \in Task : ~At(d, i, j, t)
    BY <2>3 DEF At
  <2> QED BY <1>3, <2>1, <2>4, StatusOrder DEF Lanes
<1> QED BY <1>1, <1>2, <1>4, <1>5 DEF PoolInv

(* So it holds throughout.                                                 *)
LEMMA PoolInvariant == ~RecordMayFail /\ Spec => []PoolInv
<1>1. ~RecordMayFail /\ Init => PoolInv
  BY PoolInit
<1> QED BY <1>1, PoolStep, PTL DEF Spec

(* With the lock free, what the lanes hold is in the device's containers.  *)
LEMMA LaneInPipeline ==
  ASSUME PoolInv, stack = <<>>, NEW t \in Task, state[t] \in {Ready, Running}
  PROVE  InPipeline(t, DeviceOfTask(t))
<1>1. PICK d \in Device : d = DeviceOfTask(t)
  BY HasDevice
<1>2. PICK i, j \in Nat : At(d, i, j, t)
  <2>1. Lanes
    BY DEF PoolInv
  <2>2. \E i, j \in Nat : At(DeviceOfTask(t), i, j, t)
    BY <2>1 DEF Lanes
  <2> QED BY <1>1, <2>2, Zenon
<1>3. PICK c, x \in Nat : c = Len(completionQ[d]) /\ x = Len(execQ[d])
  BY LaneTypes DEF PoolInv, QueueInv, TypeInv
<1>4. i \in 1 .. c + x + 2 /\ j \in 1 .. Len(Batch(d, i)) /\ Batch(d, i)[j] = t
  BY <1>2, <1>3 DEF At, LastBatch
<1>5. i # 1
  <2>1. Len(stack) = 0
    BY DEF PoolInv
  <2>2. Ending(stack) = <<>>
    BY <2>1 DEF Ending
  <2>3. i = 1 => Batch(d, i) = <<>>
    BY <2>2 DEF Batch
  <2> HIDE DEF Batch
  <2>4. Len(<<>>) = 0 /\ j \notin 1 .. 0
    OBVIOUS
  <2> QED BY <1>4, <2>3, <2>4
<1>6. CASE i <= c + 1
  <2>1. i - 1 \in 1 .. c
    BY <1>4, <1>5, <1>6
  <2>2. Batch(d, i) = completionQ[d][i - 1]
    BY <1>3, <1>5, <1>6 DEF Batch
  <2>3. t \in ToSet(completionQ[d][i - 1]) /\ i - 1 \in DOMAIN completionQ[d]
    <3>1. completionQ[d] \in Seq(Seq(Created))
      BY LaneTypes DEF PoolInv, QueueInv, TypeInv
    <3>2. DOMAIN completionQ[d] = 1 .. c
      BY <1>3, <3>1
    <3> QED BY <1>4, <2>1, <2>2, <3>1, <3>2 DEF ToSet
  <2> QED BY <1>1, <2>3 DEF InPipeline
<1>7. CASE ~(i <= c + 1) /\ i < c + x + 2
  <2>1. i - 1 - c \in 1 .. x
    BY <1>4, <1>7
  <2>2. Batch(d, i) = execQ[d][i - 1 - c]
    BY <1>3, <1>5, <1>7 DEF Batch, LastBatch
  <2>3. t \in ToSet(execQ[d][i - 1 - c]) /\ i - 1 - c \in DOMAIN execQ[d]
    <3>1. execQ[d] \in Seq(Seq(Created))
      BY LaneTypes DEF PoolInv, QueueInv, TypeInv
    <3>2. DOMAIN execQ[d] = 1 .. x
      BY <1>3, <3>1
    <3> QED BY <1>4, <2>1, <2>2, <3>1, <3>2 DEF ToSet
  <2> QED BY <1>1, <2>3 DEF InPipeline
<1>8. CASE ~(i <= c + 1) /\ ~(i < c + x + 2)
  <2>1. Batch(d, i) = recording[d]
    BY <1>3, <1>5, <1>8 DEF Batch, LastBatch
  <2>2. t \in ToSet(recording[d])
    <3>1. recording[d] \in Seq(Created)
      BY LaneTypes DEF PoolInv, QueueInv, TypeInv
    <3> QED BY <1>4, <2>1, <3>1 DEF ToSet
  <2> QED BY <1>1, <2>2 DEF InPipeline
<1> QED BY <1>6, <1>7, <1>8

(* The invariant implies that tasks are in their place.                    *)
LEMMA InvInPlace ==
  ASSUME PoolInv, fault = "none"
  PROVE  TasksInTheirPlace
<1> SUFFICES ASSUME LockFree, NEW t \in Created, home[t] # NoQueue
             PROVE  /\ state[t] = Queued <=> t \in ToSet(queued[home[t]])
                    /\ state[t] \in {Submitted, Ready, Running} <=> t \in outstanding[home[t]]
                    /\ state[t] \in {Ready, Running} => InPipeline(t, DeviceOfTask(t))
                    /\ state[t] = Submitted => waitOn[t] # {}
  BY DEF TasksInTheirPlace
<1>1. t \in Task /\ home[t] \in Queue /\ stack = <<>>
  BY TaskFacts DEF LockFree
<1>2. state[t] = Queued <=> t \in ToSet(queued[home[t]])
  BY <1>1 DEF PoolInv, Places, QueueInv, QueuedInQueue
<1>3. state[t] \in {Submitted, Ready, Running} <=> t \in outstanding[home[t]]
  BY <1>1 DEF PoolInv, Places
<1>4. state[t] \in {Ready, Running} => InPipeline(t, DeviceOfTask(t))
  BY <1>1, LaneInPipeline
<1>5. state[t] = Submitted => waitOn[t] # {}
  BY <1>1 DEF PoolInv, Places
<1> QED BY <1>2, <1>3, <1>4, <1>5

(* Whatever the application does, for any number of tasks, queues and      *)
(* devices: a task between two acquisitions of the TaskPoolLock is in its  *)
(* queue, in its queue's outstanding list or in its device's pipeline just *)
(* as its state says, and waits for something if it is Submitted, unless a *)
(* loop over dependencies has already run into invalid iterators.          *)
THEOREM TasksInPlace ==
  ~RecordMayFail /\ Spec => [](fault = "none" => TasksInTheirPlace)
<1>1. PoolInv => (fault = "none" => TasksInTheirPlace)
  BY InvInPlace
<1> QED BY <1>1, PoolInvariant, PTL

-----------------------------------------------------------------------------
(* Queues of devices of their own *)

\* No two queues share a device.
OwnDevices == \A p, q \in Queue : DeviceOf[p] = DeviceOf[q] => p = q

\* The dependencies a call of SubmitTask walks are the task's still, as what
\* becomes ready meanwhile is younger than the task, or of another device.
SubmitsUndisturbed ==
  /\ fault # "iterator_invalidated"
  /\ \A f \in ToSet(stack) : f.fn = "SubmitTask" =>
       /\ waitOn[f.task] = f.deps
       /\ \A g \in ToSet(stack) :
            g.fn = "Ready" /\ home[g.task] = home[f.task] => f.task < g.task

(* A task is not released while it is being submitted.                     *)
LEMMA NoRelease ==
  ASSUME PoolInv, OwnDevices, SubmitsUndisturbed, NEW f \in ToSet(stack), f.fn = "SubmitTask",
         NEW d \in Head(stack).todo,
         \/ ReadyStep /\ DeviceOfTask(d) = DeviceOfTask(Head(stack).task)
         \/ CompleteStep
  PROVE  d # f.task /\ f.task \in Created /\ f.task \in Task
<1>1. stack \in Seq(Frames) /\ f \in Frames
  BY DEF PoolInv, QueueInv, TypeInv, TypeOK, ToSet
<1>2. f.task \in Created /\ f.task \in Task /\ home[f.task] \in Queue
  <2>1. f.task \in Created
    BY <1>1, FrameFields
  <2>2. InOrder(f)
    BY DEF PoolInv, QueueInv, FramesInOrder
  <2>3. Created \subseteq Task
    BY CreatedTasks DEF PoolInv, QueueInv, TypeInv
  <2> QED BY <2>1, <2>2, <2>3 DEF InOrder
<1>3. stack # <<>>
  BY DEF ToSet
<1>4. CASE ReadyStep /\ DeviceOfTask(d) = DeviceOfTask(Head(stack).task)
  <2> DEFINE h == Head(stack)
  <2>1. h \in ToSet(stack) /\ h \in Frames /\ CallHolds(h) /\ h.fn = "Ready"
    BY <1>3, <1>4, FramesOf DEF ReadyStep
  <2>2. h.task \in Created /\ state[h.task] = Ready /\ home[d] \in Queue /\ h.task < d
    BY <2>1, FrameFields DEF CallHolds
  <2>3. home[h.task] \in Queue
    BY <2>2, TaskFacts
  <2>4. home[d] = home[h.task]
    <3>1. home[d] # NoQueue /\ home[h.task] # NoQueue
      BY <2>2, <2>3, TaskPoolAssumption
    <3> QED BY <1>4, <2>2, <2>3, <3>1 DEF OwnDevices, DeviceOfTask
  <2>5. SUFFICES ASSUME d = f.task PROVE FALSE
    BY <1>2
  <2>6. f.task < h.task
    BY <2>1, <2>4, <2>5 DEF SubmitsUndisturbed
  <2> HIDE DEF h
  <2>7. h.task < f.task /\ h.task \in Int /\ f.task \in Int
    BY <1>2, <2>2, <2>5 DEF Created
  <2> QED BY <2>6, <2>7
<1>5. CASE CompleteStep
  <2>1. PICK i \in 1 .. Len(stack) : stack[i] = f
    BY <1>1 DEF ToSet
  <2>2. Head(stack) = stack[1] /\ 1 \in 1 .. Len(stack) /\ Head(stack).fn = "Complete"
    BY <1>1, <1>3, <1>5 DEF CompleteStep
  <2> QED BY <2>1, <2>2 DEF PoolInv, Nested
<1> QED BY <1>4, <1>5

\* f is a call of the stack, or one of them that has gone on.
Carried(f) ==
  \E h \in ToSet(stack) :
    /\ h.fn = f.fn
    /\ f.fn = "SubmitTask" => h.task = f.task /\ h.deps = f.deps
    /\ f.fn = "Ready" => h.task = f.task

(* What the calls of a step have to be for submissions to stay             *)
(* undisturbed.                                                            *)
LEMMA SubmitsKept ==
  ASSUME SubmitsUndisturbed, UNCHANGED home, fault' # "iterator_invalidated",
         \A f \in ToSet(stack) : f.fn = "SubmitTask" => waitOn'[f.task] = waitOn[f.task],
         \A f \in ToSet(stack') :
           \/ Carried(f)
           \/ f.fn \notin {"SubmitTask", "Ready"}
           \/ /\ f.fn = "SubmitTask" /\ waitOn'[f.task] = f.deps
              /\ \A g \in ToSet(stack') : g.fn # "Ready"
           \/ /\ f.fn = "Ready"
              /\ \A h \in ToSet(stack') :
                   h.fn = "SubmitTask" /\ home[f.task] = home[h.task] => h.task < f.task
  PROVE  SubmitsUndisturbed'
<1>1. ASSUME NEW f \in ToSet(stack'), f.fn = "SubmitTask"
      PROVE  waitOn'[f.task] = f.deps
  BY <1>1 DEF Carried, SubmitsUndisturbed
<1>2. ASSUME NEW f \in ToSet(stack'), f.fn = "SubmitTask",
             NEW g \in ToSet(stack'), g.fn = "Ready", home[g.task] = home[f.task]
      PROVE  f.task < g.task
  <2>1. CASE Carried(f) /\ Carried(g)
    BY <1>2, <2>1 DEF Carried, SubmitsUndisturbed
  <2>2. CASE ~Carried(f)
    BY <1>2, <2>2
  <2>3. CASE ~Carried(g)
    BY <1>2, <2>3
  <2> QED BY <2>1, <2>2, <2>3
<1> QED BY <1>1, <1>2 DEF SubmitsUndisturbed

(* Which calls are on the stack after one has returned, gone on or made    *)
(* another call.                                                           *)
LEMMA StackSets ==
  ASSUME NEW S, NEW s \in Seq(S), s # <<>>
  PROVE  /\ Head(s) \in ToSet(s) /\ ToSet(Tail(s)) \subseteq ToSet(s)
         /\ \A r \in S : ToSet(<<r>> \o Tail(s)) = {r} \cup ToSet(Tail(s))
         /\ \A r \in S, g \in S :
              ToSet(<<g>> \o (<<r>> \o Tail(s))) = {g, r} \cup ToSet(Tail(s))
<1> DEFINE b == Tail(s)
<1>1. b \in Seq(S) /\ ToSet(s) = {Head(s)} \cup ToSet(b)
  BY Popped
<1> HIDE DEF b
<1>2. ASSUME NEW r \in S
      PROVE  ToSet(<<r>> \o b) = {r} \cup ToSet(b) /\ <<r>> \o b \in Seq(S)
  <2>1. <<r>> \o b \in Seq(S)
    BY <1>1
  <2> QED BY <1>1, <2>1, Pushed, Zenon
<1>3. ASSUME NEW r \in S, NEW g \in S
      PROVE  ToSet(<<g>> \o (<<r>> \o b)) = {g, r} \cup ToSet(b)
  <2>1. <<r>> \o b \in Seq(S)
    BY <1>2
  <2>2. ToSet(<<g>> \o (<<r>> \o b)) = {g} \cup ToSet(<<r>> \o b)
    BY <2>1, Pushed, Zenon
  <2> QED BY <1>2, <2>2
<1> QED BY <1>1, <1>2, <1>3 DEF b

(* With one of these calls innermost, none of Ready or SubmitTask is under *)
(* way.                                                                    *)
LEMMA InnermostCalls ==
  ASSUME PoolInv, stack # <<>>, NEW f \in ToSet(stack)
  PROVE  /\ Head(stack).fn # "Ready" => f.fn # "Ready"
         /\ Head(stack).fn \in {"Complete", "CompleteAll"} => f.fn # "SubmitTask"
<1>1. stack \in Seq(Frames)
  BY DEF PoolInv, QueueInv, TypeInv, TypeOK
<1>2. PICK i \in 1 .. Len(stack) : stack[i] = f
  BY <1>1 DEF ToSet
<1>3. Head(stack) = stack[1] /\ 1 \in 1 .. Len(stack) /\ (i # 1 => 1 < i)
  BY <1>1, <1>2
<1> QED BY <1>2, <1>3 DEF PoolInv, Nested

(* Steps of the lock holder leave submissions undisturbed.                 *)
LEMMA SubmitsLockHolder ==
  ASSUME PoolInv, OwnDevices, SubmitsUndisturbed, LockStep
  PROVE  SubmitsUndisturbed'
<1> DEFINE f == Head(stack)
<1>1. /\ TypeOK /\ stack # <<>> /\ fault = "none" /\ stack \in Seq(Frames) /\ f \in Frames
      /\ UNCHANGED home /\ f \in ToSet(stack) /\ ToSet(Callers) \subseteq ToSet(stack)
      /\ CallHolds(f) /\ Created \subseteq Task
  BY FramesOf, LockEffects, EffectSteady, CreatedTasks
  DEF LockStep, PoolInv, QueueInv, TypeInv, Steady
<1>2. \A g \in ToSet(stack) : Carried(g)
  BY DEF Carried
<1>3. Returns => \A g \in ToSet(stack') : Carried(g)
  BY <1>1, <1>2 DEF Returns
<1>4. ASSUME NEW r \in Frames, GoesOn(r)
      PROVE  \A g \in ToSet(stack') : g = r \/ Carried(g)
  BY <1>1, <1>2, <1>4, StackSets DEF GoesOn, Callers
<1>5. ASSUME NEW r \in Frames, NEW n \in Frames, Calling(n, r)
      PROVE  \A g \in ToSet(stack') : g = r \/ g = n \/ Carried(g)
  BY <1>1, <1>2, <1>5, StackSets DEF Calling, Callers
<1>6. ASSUME NEW fn \in {"SubmitTask", "Ready", "Complete", "clWaitForEvents"}, f.fn = fn,
             NEW x \in f.todo
      PROVE  Done(x) \in Frames /\ Carried(Done(x)) /\ Done(x).fn = fn
  <2>1. /\ Done(x) \in Frames /\ Done(x).fn = fn
        /\ fn # "clWaitForEvents" => Done(x).task = f.task
        /\ fn = "SubmitTask" => Done(x).deps = f.deps
    BY <1>1, <1>6, DoneFields DEF Executing
  <2>2. fn # "clWaitForEvents" \/ (fn # "SubmitTask" /\ fn # "Ready")
    OBVIOUS
  <2> QED BY <1>1, <1>6, <2>1, <2>2 DEF Carried
<1>7. CASE FlushStep
  <2>1. f.fn = "Flush" /\ fault' # "iterator_invalidated" /\ Carried(f)
    BY <1>1, <1>2, <1>7 DEF FlushStep
  <2>2. ASSUME NEW t \in Created, NEW q \in Queue, Submits(t, q),
               Calling(SubmitFrame(t, waitOn[t], waitOn[t]), f)
        PROVE  SubmitsUndisturbed'
    <3>1. PICK n \in Frames : n = SubmitFrame(t, waitOn[t], waitOn[t])
      BY <1>1, FrameTypes, TaskFacts
    <3>2. n.fn = "SubmitTask" /\ n.task = t /\ n.deps = waitOn[t] /\ UNCHANGED waitOn
      BY <2>2, <3>1, NewFields DEF Submits, depVars
    <3>3. \A g \in ToSet(stack') : g = f \/ g = n \/ g \in ToSet(stack)
      BY <1>1, <2>2, <3>1, StackSets DEF Calling, Callers
    <3>4. \A g \in ToSet(stack') : g.fn # "Ready"
      BY <1>1, <2>1, <3>2, <3>3, InnermostCalls
    <3> QED BY <1>1, <1>2, <2>1, <3>2, <3>3, <3>4, SubmitsKept
  <2>3. ASSUME NEW t \in Created, NEW q \in Queue, SubmitsReady(t, q),
               Calling(ReadyFrame(t, waiters[t]), f)
        PROVE  SubmitsUndisturbed'
    <3>1. PICK n \in Frames : n = ReadyFrame(t, waiters[t])
      BY <1>1, FrameTypes, TaskFacts
    <3>2. n.fn = "Ready" /\ n.task = t /\ UNCHANGED waitOn
      BY <2>3, <3>1, NewFields DEF SubmitsReady
    <3>3. \A g \in ToSet(stack') : g = f \/ g = n \/ g \in ToSet(stack)
      BY <1>1, <2>3, <3>1, StackSets DEF Calling, Callers
    <3>4. home[t] = q /\ t \in ToSet(queued[q])
      <4>1. Leaves(t, q)
        BY <2>3 DEF SubmitsReady
      <4>2. home[t] = q
        BY <4>1, Oldest, Zenon
      <4>3. queued[q] \in Seq(Created) /\ queued[q] # <<>> /\ t = Head(queued[q])
        BY <1>1, <4>1 DEF Leaves, TypeOK
      <4> QED BY <4>2, <4>3, Popped
    <3>5. ASSUME NEW h \in ToSet(stack'), h.fn = "SubmitTask", home[n.task] = home[h.task]
          PROVE  h.task < n.task
      <4>1. h \in ToSet(stack)
        BY <2>1, <3>2, <3>3, <3>5
      <4>2. InOrder(h)
        BY <4>1 DEF PoolInv, QueueInv, FramesInOrder
      <4> QED BY <3>2, <3>4, <3>5, <4>2 DEF InOrder
    <3> QED BY <1>1, <1>2, <2>1, <3>2, <3>3, <3>5, SubmitsKept
  <2>4. ASSUME NEW S, Flushes(S), Returns
        PROVE  SubmitsUndisturbed'
    BY <1>1, <1>3, <2>1, <2>4, SubmitsKept DEF Flushes, depVars
  <2> QED BY <1>7, <2>2, <2>3, <2>4 DEF FlushStep
<1>8. CASE SubmitStep
  <2>1. f.fn = "SubmitTask" /\ UNCHANGED waitOn
    BY <1>8 DEF SubmitStep, Quiet, depVars
  <2>2. UNCHANGED fault
    BY <1>1, <1>8, <2>1 DEF SubmitStep, SubmitsUndisturbed
  <2>3. CASE Returns
    BY <1>1, <1>3, <2>1, <2>2, <2>3, SubmitsKept
  <2>4. CASE UNCHANGED stack
    BY <1>1, <1>2, <2>1, <2>2, <2>4, SubmitsKept
  <2>5. ASSUME NEW u \in f.todo, GoesOn(Done(u))
        PROVE  SubmitsUndisturbed'
    BY <1>1, <1>4, <1>6, <2>1, <2>2, <2>5, SubmitsKept
  <2>6. ASSUME NEW u \in f.todo, NEW n \in Frames, n.fn = "Flush", Calling(n, Done(u))
        PROVE  SubmitsUndisturbed'
    BY <1>1, <1>5, <1>6, <2>1, <2>2, <2>6, SubmitsKept
  <2>7. \A q \in Queue : FlushFrame(q, FALSE) \in Frames /\ FlushFrame(q, FALSE).fn = "Flush"
    BY FrameTypes DEF FlushFrame
  <2> QED BY <1>8, <2>3, <2>4, <2>5, <2>6, <2>7 DEF SubmitStep
<1>9. CASE ReadyStep
  <2>1. f.fn = "Ready" /\ fault' # "iterator_invalidated" /\ f.task \in Created /\ f.todo \subseteq Created
    BY <1>1, <1>9, FrameFields DEF ReadyStep
  <2>2. CASE Quiet /\ Returns
    BY <1>1, <1>3, <2>1, <2>2, SubmitsKept DEF Quiet, depVars
  <2>3. ASSUME NEW d \in f.todo, Quiet, GoesOn(Done(d))
        PROVE  SubmitsUndisturbed'
    BY <1>1, <1>4, <1>6, <2>1, <2>3, SubmitsKept DEF Quiet, depVars
  <2>4. ASSUME NEW d \in f.todo, DeviceOfTask(d) = DeviceOfTask(f.task), ReleaseStep(f.task, d)
        PROVE  SubmitsUndisturbed'
    <3>1. \A h \in ToSet(stack) : h.fn = "SubmitTask" => waitOn'[h.task] = waitOn[h.task]
      <4>1. \A h \in ToSet(stack) : h.fn = "SubmitTask" => d # h.task /\ h.task \in Task
        BY <1>9, <2>4, NoRelease
      <4>2. waitOn' = [waitOn EXCEPT ![d] = @ \ {f.task}]
        BY <2>4 DEF ReleaseStep, Releases, ReleasesLast
      <4> QED BY <1>1, <4>1, <4>2 DEF TypeOK
    <3>2. CASE GoesOn(Done(d))
      BY <1>1, <1>4, <1>6, <2>1, <3>1, <3>2, SubmitsKept
    <3>3. CASE Calling(ReadyFrame(d, waiters[d]), Done(d))
      <4>1. PICK n \in Frames : n = ReadyFrame(d, waiters[d])
        BY <1>1, <2>1, FrameTypes, TaskFacts
      <4>2. n.fn = "Ready" /\ n.task = d
        BY <4>1, NewFields
      <4>3. \A g \in ToSet(stack') : g = Done(d) \/ g = n \/ g \in ToSet(stack)
        BY <1>1, <1>6, <2>1, <3>3, <4>1, StackSets DEF Calling, Callers
      <4>4. ASSUME NEW h \in ToSet(stack'), h.fn = "SubmitTask", home[n.task] = home[h.task]
            PROVE  h.task < n.task
        <5>1. h \in ToSet(stack)
          BY <1>6, <2>1, <4>2, <4>3, <4>4
        <5>2. home[d] \in Queue /\ f.task < d /\ state[f.task] = Ready
          BY <1>1, <2>1 DEF CallHolds
        <5>3. home[f.task] \in Queue
          BY <2>1, <5>2, TaskFacts
        <5>4. home[d] = home[f.task]
          <6>1. home[d] # NoQueue /\ home[f.task] # NoQueue
            BY <5>2, <5>3, TaskPoolAssumption
          <6> QED BY <2>4, <5>2, <5>3, <6>1 DEF OwnDevices, DeviceOfTask
        <5>5. h.task < f.task
          BY <1>1, <2>1, <4>2, <4>4, <5>1, <5>4 DEF SubmitsUndisturbed
        <5>6. h.task \in Int /\ f.task \in Int /\ d \in Int
          <6>1. h.task \in Created
            BY <1>9, <2>4, <4>4, <5>1, NoRelease
          <6> QED BY <2>1, <6>1 DEF Created
        <5> HIDE DEF f
        <5> QED BY <4>2, <5>2, <5>5, <5>6
      <4> QED BY <1>1, <1>2, <1>6, <2>1, <3>1, <4>2, <4>3, <4>4, SubmitsKept
    <3> QED BY <2>4, <3>2, <3>3 DEF ReleaseStep
  <2> QED BY <1>9, <2>2, <2>3, <2>4 DEF ReadyStep
<1>10. CASE CompleteStep \/ CompleteAllStep
  <2>1. f.fn \in {"Complete", "CompleteAll"}
    BY <1>10 DEF CompleteStep, CompleteAllStep
  <2>2. \A h \in ToSet(stack) : h.fn # "SubmitTask"
    BY <1>1, <2>1, InnermostCalls
  <2>3. fault' # "iterator_invalidated"
    BY <1>1, <1>10 DEF CompleteStep, CompleteAllStep
  <2>4. \A g \in ToSet(stack') : g.fn # "SubmitTask"
    <3>1. ASSUME Returns PROVE \A g \in ToSet(stack') : g.fn # "SubmitTask"
      BY <1>1, <2>2, <3>1 DEF Returns
    <3>2. ASSUME NEW r \in Frames, GoesOn(r), r.fn # "SubmitTask"
          PROVE  \A g \in ToSet(stack') : g.fn # "SubmitTask"
      BY <1>1, <2>2, <3>2, StackSets DEF GoesOn, Callers
    <3>3. ASSUME NEW r \in Frames, NEW n \in Frames, Calling(n, r),
                 r.fn # "SubmitTask", n.fn # "SubmitTask"
          PROVE  \A g \in ToSet(stack') : g.fn # "SubmitTask"
      BY <1>1, <2>2, <3>3, StackSets DEF Calling, Callers
    <3>4. CASE CompleteStep
      <4>1. /\ f.fn = "Complete" /\ f.todo \subseteq Created /\ f.error \in Error
        BY <1>1, <3>4, FrameFields DEF CompleteStep
      <4>2. \A d \in f.todo : Done(d) \in Frames /\ Done(d).fn # "SubmitTask"
        BY <1>6, <4>1
      <4>3. \A d \in f.todo : /\ ReadyFrame(d, waiters[d]) \in Frames
                              /\ ReadyFrame(d, waiters[d]).fn # "SubmitTask"
                              /\ CompleteFrame(d, f.error, waiters[d]) \in Frames
                              /\ CompleteFrame(d, f.error, waiters[d]).fn # "SubmitTask"
        BY <4>1, FrameTypes, NewFields, TaskFacts
      <4> QED BY <3>1, <3>2, <3>3, <3>4, <4>2, <4>3 DEF CompleteStep, ReleaseStep
    <3>5. CASE CompleteAllStep
      <4>1. CASE Returns
        BY <3>1, <4>1
      <4>2. CASE f.tasks # <<>>
        <5> DEFINE rest == [f EXCEPT !.tasks = Tail(@)]
                   t == Head(f.tasks)
                   n == CompleteFrame(t, f.error, waiters[t])
        <5>1. /\ rest \in Frames /\ rest.fn # "SubmitTask"
              /\ t \in Created /\ f.error \in Error
          BY <1>1, <3>5, <4>2, RestFields DEF Executing, CompleteAllStep
        <5>2. n \in Frames /\ n.fn # "SubmitTask"
          BY <5>1, FrameTypes, NewFields, TaskFacts
        <5>3. GoesOn(rest) \/ Calling(n, rest) \/ Returns
          BY <3>5 DEF CompleteAllStep
        <5> HIDE DEF rest, n
        <5> QED BY <3>1, <3>2, <3>3, <5>1, <5>2, <5>3
      <4> QED BY <3>5, <4>1, <4>2 DEF CompleteAllStep
    <3> QED BY <1>10, <3>4, <3>5
  <2> QED BY <2>3, <2>4 DEF SubmitsUndisturbed
<1>11. CASE FlushAllStep
  BY <1>1, <1>3, <1>11, SubmitsKept DEF FlushAllStep, Flushes, depVars
<1>12. CASE WaitStep
  <2>1. f.fn = "clWaitForEvents" /\ UNCHANGED <<waitOn, fault>>
    BY <1>12 DEF WaitStep, Quiet, depVars
  <2>2. CASE Returns
    BY <1>1, <1>3, <2>1, <2>2, SubmitsKept
  <2>3. ASSUME NEW u \in f.todo, GoesOn(Done(u))
        PROVE  SubmitsUndisturbed'
    BY <1>1, <1>4, <1>6, <2>1, <2>3, SubmitsKept
  <2>4. ASSUME NEW u \in f.todo, NEW n \in Frames, n.fn = "Flush", Calling(n, Done(u))
        PROVE  SubmitsUndisturbed'
    BY <1>1, <1>5, <1>6, <2>1, <2>4, SubmitsKept
  <2>5. \A q \in Queue : FlushFrame(q, TRUE) \in Frames /\ FlushFrame(q, TRUE).fn = "Flush"
    BY FrameTypes DEF FlushFrame
  <2> QED BY <1>12, <2>2, <2>3, <2>4, <2>5 DEF WaitStep
<1> QED BY <1>7, <1>8, <1>9, <1>10, <1>11, <1>12 DEF LockStep

(* What a step that is not the lock holder's can find on the stack and     *)
(* leave there: nothing, and at most the first call or two of an action    *)
(* that takes the lock; or it leaves everything but setters as it is.      *)
LEMMA OtherSteps ==
  ASSUME PoolInv, [Next]_vars, ~LockHolder
  PROVE  \/ /\ stack = <<>> /\ UNCHANGED <<fault, recording>>
            /\ \/ stack' = <<>>
               \/ \E q \in Queue : stack' = <<FlushFrame(q, TRUE)>>
               \/ \E T : stack' = <<WaitFrame(T)>>
               \/ stack' = <<FlushAllFrame>>
               \/ \E g \in Frames : g.fn = "Complete" /\ stack' = <<g>> \o <<FlushAllFrame>>
               \/ \E g \in Frames : g.fn = "CompleteAll" /\ stack' = <<g, FlushAllFrame>>
         \/ UNCHANGED <<taskVars, state, depVars, queueVars, deviceVars, stack, fault>>
<1>1. CASE UNCHANGED vars
  BY <1>1 DEF vars
<1>2. CASE Application
  <2>1. CASE CreateUserEvent
    BY <2>1 DEF CreateUserEvent, LockFree, deviceVars
  <2>2. ASSUME NEW q \in Queue,
               EnqueueCommand(q) \/ EnqueueMarkerWithWaitList(q) \/ EnqueueBarrierWithWaitList(q)
        PROVE  /\ stack = <<>> /\ UNCHANGED <<fault, recording, stack>>
    BY <2>2 DEF EnqueueCommand, EnqueueMarkerWithWaitList, EnqueueBarrierWithWaitList, Enqueue,
                LockFree, deviceVars
  <2>3. ASSUME NEW q \in Queue, ClFlush(q)
        PROVE  stack = <<>> /\ UNCHANGED <<fault, recording>> /\ stack' = <<FlushFrame(q, TRUE)>>
    BY <2>3 DEF ClFlush, LockFree, deviceVars
  <2>4. ASSUME NEW W \in SUBSET Created, ClWaitForEvents(W)
        PROVE  stack = <<>> /\ UNCHANGED <<fault, recording>> /\ \E T : stack' = <<WaitFrame(T)>>
    BY <2>4 DEF ClWaitForEvents, LockFree, deviceVars
  <2>5. ASSUME NEW u \in Task, NEW s \in UserStatus, SetUserEventStatusCheck(u, s)
        PROVE  UNCHANGED <<taskVars, state, depVars, queueVars, deviceVars, stack, fault>>
    BY <2>5 DEF SetUserEventStatusCheck
  <2>6. CASE \E q \in Queue : \/ EnqueueCommand(q) \/ EnqueueMarkerWithWaitList(q)
                              \/ EnqueueBarrierWithWaitList(q)
    BY <2>2, <2>6
  <2>7. CASE \E q \in Queue : ClFlush(q)
    BY <2>3, <2>7
  <2>8. CASE \E W \in SUBSET Created : ClWaitForEvents(W)
    BY <2>4, <2>8
  <2>9. CASE \E u \in Task, s \in UserStatus : SetUserEventStatusCheck(u, s)
    BY <2>5, <2>9
  <2> QED BY <1>2, <2>1, <2>6, <2>7, <2>8, <2>9 DEF Application
<1>3. ASSUME NEW u \in Task, NEW s \in UserStatus, SetUserEventStatus(u, s)
      PROVE  /\ stack = <<>> /\ UNCHANGED <<fault, recording>>
             /\ \/ stack' = <<FlushAllFrame>>
                \/ \E g \in Frames : g.fn = "Complete" /\ stack' = <<g>> \o <<FlushAllFrame>>
  <2>1. stack = <<>> /\ UNCHANGED <<fault, recording>> /\ BeginComplete(u, s, <<FlushAllFrame>>)
    BY <1>3 DEF SetUserEventStatus, LockFree, deviceVars
  <2>2. \/ stack' = <<FlushAllFrame>>
        \/ stack' = <<CompleteFrame(u, s, waiters[u])>> \o <<FlushAllFrame>>
    BY <2>1 DEF BeginComplete
  <2>3. u \in Created /\ s \in Error
    BY <1>3, Statuses DEF SetUserEventStatus, PoolInv, QueueInv, TypeInv, TypeOK
  <2>4. PICK g \in Frames : g = CompleteFrame(u, s, waiters[u])
    BY <2>3, FrameTypes, TaskFacts
  <2>5. g.fn = "Complete"
    BY <2>4, NewFields
  <2> QED BY <2>1, <2>2, <2>4, <2>5
<1>4. CASE DeviceThreads
  <2>1. ASSUME NEW d \in Device, Record(d) \/ SubmitExecution(d)
        PROVE  stack = <<>> /\ stack' = <<>> /\ UNCHANGED <<fault, recording>>
    BY <2>1 DEF Record, SubmitExecution, LockFree
  <2>2. ASSUME NEW d \in Device, RecordFails(d)
        PROVE  FALSE
    BY <2>2 DEF RecordFails, PoolInv
  <2>3. ASSUME NEW d \in Device, CompleteSubmission(d)
        PROVE  /\ stack = <<>> /\ UNCHANGED <<fault, recording>>
               /\ \E g \in Frames : g.fn = "CompleteAll" /\ stack' = <<g, FlushAllFrame>>
    <3>1. Head(completionQ[d]) \in Seq(Created)
      BY <2>3, HeadTailProperties DEF CompleteSubmission, PoolInv, QueueInv, TypeInv, TypeOK
    <3>2. PICK g \in Frames : g = CompleteAllFrame(Head(completionQ[d]), Complete)
      BY <3>1, FrameTypes, Statuses
    <3>3. g.fn = "CompleteAll"
      BY <3>2, NewFields
    <3> QED BY <2>3, <3>2, <3>3 DEF CompleteSubmission, LockFree
  <2> QED BY <1>4, <2>1, <2>2, <2>3 DEF DeviceThreads
<1>5. CASE \E u \in Task, s \in UserStatus : SetUserEventStatus(u, s)
  BY <1>3, <1>5
<1> QED BY <1>1, <1>2, <1>4, <1>5 DEF Next

(* Those calls are not of SubmitTask.                                      *)
LEMMA SubmitsOthers ==
  ASSUME PoolInv, SubmitsUndisturbed, [Next]_vars, ~LockHolder
  PROVE  SubmitsUndisturbed'
<1>1. CASE UNCHANGED <<taskVars, state, depVars, queueVars, deviceVars, stack, fault>>
  BY <1>1 DEF SubmitsUndisturbed, taskVars, depVars
<1>2. CASE ~UNCHANGED <<taskVars, state, depVars, queueVars, deviceVars, stack, fault>>
  <2>1. \A g \in ToSet(stack') : g.fn # "SubmitTask"
    <3>1. CASE stack' = <<>>
      BY <3>1 DEF ToSet
    <3>2. ASSUME NEW q \in Queue, stack' = <<FlushFrame(q, TRUE)>>
          PROVE  \A g \in ToSet(stack') : g.fn # "SubmitTask"
      BY <3>2 DEF ToSet, FlushFrame
    <3>3. ASSUME NEW T, stack' = <<WaitFrame(T)>>
          PROVE  \A g \in ToSet(stack') : g.fn # "SubmitTask"
      BY <3>3 DEF ToSet, WaitFrame
    <3>4. CASE stack' = <<FlushAllFrame>>
      BY <3>4 DEF ToSet, FlushAllFrame
    <3>5. ASSUME NEW h \in Frames, h.fn = "Complete", stack' = <<h>> \o <<FlushAllFrame>>
          PROVE  \A g \in ToSet(stack') : g.fn # "SubmitTask"
      <4>1. <<FlushAllFrame>> \in Seq(Frames) /\ ToSet(<<FlushAllFrame>>) = {FlushAllFrame}
        BY FrameTypes, Single DEF ToSet
      <4>2. ToSet(stack') = {h} \cup {FlushAllFrame}
        BY <3>5, <4>1, Pushed
      <4> QED BY <3>5, <4>2 DEF FlushAllFrame
    <3>6. ASSUME NEW h \in Frames, h.fn = "CompleteAll", stack' = <<h, FlushAllFrame>>
          PROVE  \A g \in ToSet(stack') : g.fn # "SubmitTask"
      BY <3>6 DEF ToSet, FlushAllFrame
    <3> QED BY <1>2, <3>1, <3>2, <3>3, <3>4, <3>5, <3>6, OtherSteps
  <2>2. fault' # "iterator_invalidated"
    BY <1>2, OtherSteps DEF SubmitsUndisturbed
  <2> QED BY <2>1, <2>2 DEF SubmitsUndisturbed
<1> QED BY <1>1, <1>2

(* For any number of tasks, queues and devices, when no two queues share a *)
(* device, tasks are always in their place: no loop over dependencies runs *)
(* into invalid iterators and no promise is set twice.                     *)
THEOREM TasksAlwaysInPlace ==
  ASSUME OwnDevices
  PROVE  ~RecordMayFail /\ Spec => []TasksInTheirPlace
<1>1. Init => SubmitsUndisturbed
  <2>1. Init => stack = <<>> /\ fault = "none"
    BY DEF Init
  <2>2. stack = <<>> => ToSet(stack) = {}
    BY DEF ToSet
  <2> QED BY <2>1, <2>2 DEF SubmitsUndisturbed
<1>2. PoolInv /\ SubmitsUndisturbed /\ [Next]_vars => SubmitsUndisturbed'
  <2> SUFFICES ASSUME PoolInv, SubmitsUndisturbed, [Next]_vars
               PROVE  SubmitsUndisturbed'
    OBVIOUS
  <2>1. CASE LockHolder
    BY <2>1, SubmitsLockHolder, LockSteps DEF PoolInv, QueueInv
  <2>2. CASE ~LockHolder
    BY <2>2, SubmitsOthers
  <2> QED BY <2>1, <2>2
<1>3. PoolInv /\ SubmitsUndisturbed => TasksInTheirPlace
  <2> SUFFICES ASSUME PoolInv, SubmitsUndisturbed PROVE TasksInTheirPlace
    OBVIOUS
  <2>1. fault = "none"
    BY DEF PoolInv, QueueInv, TypeInv, TypeOK, Faults, PromisesOnce, SubmitsUndisturbed
  <2> QED BY <2>1, InvInPlace
<1> QED BY <1>1, <1>2, <1>3, PoolInvariant, PTL DEF Spec

-----------------------------------------------------------------------------
(* Ready work is flushed, when there is one device                         *)

\* A device flushes its recording list itself, but a flush made for another
\* queue's sake, and the release of tasks of another device, leave it to
\* whoever holds the lock.
OneDevice == \A p, q \in Queue : DeviceOf[p] = DeviceOf[q]

\* The calls that flush a device before they return.
Flushing(f) == f.fn = "FlushAllDevices" \/ (f.fn = "Flush" /\ f.flushDevice)

\* Beneath everything the lock holder does is such a call, or the flush pass
\* of clWaitForEvents, which makes only such calls.
OnFloor(s) ==
  s # <<>> =>
    \/ Flushing(s[Len(s)])
    \/ /\ s[Len(s)].fn = "clWaitForEvents"
       /\ Len(s) = 1 \/ Flushing(s[Len(s) - 1])

\* Work is left in a recording list only while there are calls to flush it.
WorkHeld ==
  \A d \in Device : recording[d] # <<>> =>
    stack # <<>> /\ (Len(stack) = 1 => Flushing(stack[1]))

FlushInv == OnFloor(stack) /\ WorkHeld

(* Returning keeps a stack on its floor.                                   *)
LEMMA FloorReturns ==
  ASSUME NEW S, NEW s \in Seq(S), s # <<>>, OnFloor(s)
  PROVE  /\ OnFloor(Tail(s))
         /\ Len(s) = 1 => Tail(s) = <<>>
         /\ Len(s) = 2 /\ ~Flushing(Head(s)) => Flushing(Tail(s)[1])
<1> DEFINE z == Tail(s)
<1>1. /\ z \in Seq(S) /\ Len(z) = Len(s) - 1 /\ Len(s) \in Nat \ {0}
      /\ \A i \in 1 .. Len(s) - 1 : z[i] = s[i + 1]
      /\ Head(s) = s[1]
  BY ReturnedStack
<1> HIDE DEF z
<1>2. Len(s) = 1 => z = <<>>
  <2> SUFFICES ASSUME Len(s) = 1 PROVE z = <<>>
    OBVIOUS
  <2>1. Len(z) = 0
    BY <1>1
  <2> QED BY <1>1, <2>1
<1>3. PICK n \in Nat \ {0} : n = Len(s)
  BY <1>1
<1>4. CASE n = 1
  BY <1>2, <1>3, <1>4 DEF OnFloor, z
<1>5. CASE n # 1
  <2>1. /\ n - 1 \in 1 .. n - 1 /\ n - 1 + 1 = n /\ Len(z) = n - 1
        /\ n # 2 => n - 2 \in 1 .. n - 1 /\ n - 2 + 1 = n - 1
        /\ n - 1 - 1 = n - 2
    BY <1>1, <1>3, <1>5
  <2>2. z[n - 1] = s[n] /\ (n # 2 => z[n - 2] = s[n - 1])
    BY <1>1, <1>3, <2>1
  <2>3. \/ Flushing(s[n])
        \/ s[n].fn = "clWaitForEvents" /\ Flushing(s[n - 1])
    BY <1>1, <1>3, <1>5 DEF OnFloor
  <2>4. OnFloor(z)
    <3>1. CASE n = 2
      <4>1. Len(z) = 1 /\ n - 1 = 1
        BY <2>1, <3>1
      <4> QED BY <2>2, <2>3, <4>1 DEF OnFloor
    <3>2. CASE n # 2
      <4>1. Len(z) = n - 1 /\ Len(z) - 1 = n - 2
        BY <2>1
      <4> QED BY <2>2, <2>3, <3>2, <4>1 DEF OnFloor
    <3> QED BY <3>1, <3>2
  <2>5. ASSUME n = 2, ~Flushing(s[1])
        PROVE  Flushing(z[1])
    <3>1. n - 1 = 1
      BY <2>5
    <3> QED BY <2>2, <2>3, <2>5, <3>1
  <2> QED BY <1>1, <1>3, <1>5, <2>4, <2>5 DEF z
<1> QED BY <1>4, <1>5

(* So does going on, for a call that is not one of those flushing.         *)
LEMMA FloorGoesOn ==
  ASSUME NEW S, NEW s \in Seq(S), s # <<>>, OnFloor(s),
         NEW r \in S, r.fn = Head(s).fn, ~Flushing(Head(s)) \/ r = Head(s)
  PROVE  LET z == <<r>> \o Tail(s) IN
         /\ OnFloor(z) /\ Len(z) = Len(s) /\ z \in Seq(S) /\ z # <<>>
         /\ Len(s) = 1 => Flushing(Head(s)) \/ Head(s).fn = "clWaitForEvents"
<1> DEFINE z == <<r>> \o Tail(s)
<1>1. /\ z \in Seq(S) /\ Len(z) = Len(s) /\ Len(s) \in Nat \ {0}
      /\ \A i \in 1 .. Len(s) : z[i] = IF i = 1 THEN r ELSE s[i]
      /\ Head(s) = s[1]
  BY GoneOnStack, ReturnedStack
<1> HIDE DEF z
<1>2. PICK n \in Nat \ {0} : n = Len(s)
  BY <1>1
<1>3. /\ \A i \in 1 .. n : i # 1 => z[i] = s[i]
      /\ z[1] = r /\ s[1] = Head(s) /\ n \in 1 .. n /\ (n # 1 => n - 1 \in 1 .. n)
  BY <1>1, <1>2
<1>4. z[1].fn = s[1].fn /\ (Flushing(s[1]) => Flushing(z[1]))
  BY <1>3
<1>5. \A i \in 1 .. n : z[i].fn = s[i].fn /\ (Flushing(s[i]) => Flushing(z[i]))
  BY <1>3, <1>4
<1>6. /\ Flushing(s[n]) \/ (s[n].fn = "clWaitForEvents" /\ (n = 1 \/ Flushing(s[n - 1])))
  BY <1>2 DEF OnFloor
<1>7. Flushing(z[n]) \/ (z[n].fn = "clWaitForEvents" /\ (n = 1 \/ Flushing(z[n - 1])))
  BY <1>3, <1>5, <1>6
<1>8. OnFloor(z)
  BY <1>1, <1>2, <1>7 DEF OnFloor
<1>9. n = 1 => Flushing(Head(s)) \/ Head(s).fn = "clWaitForEvents"
  BY <1>3, <1>6
<1> QED BY <1>1, <1>2, <1>8, <1>9 DEF z

(* So does a call, if clWaitForEvents makes only calls that flush.         *)
LEMMA FloorCalling ==
  ASSUME NEW S, NEW s \in Seq(S), s # <<>>, OnFloor(s),
         NEW r \in S, r.fn = Head(s).fn, ~Flushing(Head(s)) \/ r = Head(s),
         NEW g \in S, r.fn = "clWaitForEvents" => Flushing(g)
  PROVE  LET z == <<g>> \o (<<r>> \o Tail(s)) IN
         OnFloor(z) /\ z # <<>> /\ Len(z) # 1
<1> DEFINE b == <<r>> \o Tail(s)
           z == <<g>> \o b
<1>1. /\ OnFloor(b) /\ Len(b) = Len(s) /\ b \in Seq(S) /\ b # <<>>
      /\ b[1] = r /\ Len(s) \in Nat \ {0}
  <2>1. OnFloor(b) /\ Len(b) = Len(s) /\ b \in Seq(S) /\ b # <<>>
    BY FloorGoesOn
  <2>2. b[1] = r /\ Len(s) \in Nat \ {0}
    OBVIOUS
  <2> QED BY <2>1, <2>2
<1> HIDE DEF b
<1>2. /\ z \in Seq(S) /\ Len(z) = Len(b) + 1
      /\ \A i \in 1 .. Len(b) + 1 : z[i] = IF i = 1 THEN g ELSE b[i - 1]
  BY <1>1
<1> HIDE DEF z
<1>3. PICK n \in Nat \ {0} : n = Len(b)
  BY <1>1
<1>4. n + 1 \in 1 .. n + 1 /\ n \in 1 .. n + 1 /\ n + 1 # 1 /\ n + 1 - 1 = n /\ 1 \in 1 .. n + 1
  BY <1>3
<1>5. z[n + 1] = b[n] /\ (n # 1 => z[n] = b[n - 1]) /\ z[1] = g
  BY <1>2, <1>3, <1>4
<1>6. Flushing(b[n]) \/ (b[n].fn = "clWaitForEvents" /\ (n = 1 \/ Flushing(b[n - 1])))
  BY <1>1, <1>3 DEF OnFloor
<1>7. Flushing(z[n + 1]) \/ (z[n + 1].fn = "clWaitForEvents" /\ Flushing(z[n]))
  <2>1. CASE n = 1
    BY <1>1, <1>5, <1>6, <2>1
  <2>2. CASE n # 1
    BY <1>5, <1>6, <2>2
  <2> QED BY <2>1, <2>2
<1>8. z # <<>> /\ Len(z) = n + 1
  BY <1>2, <1>3, <1>4
<1>9. OnFloor(z)
  BY <1>4, <1>7, <1>8 DEF OnFloor
<1> QED BY <1>4, <1>8, <1>9 DEF b, z

\* What a step of the lock holder does to the stack and to the recording
\* lists, when there is one device.
FlushMoves ==
  \/ /\ Returns
     /\ Flushing(Head(stack)) => \A d \in Device : recording'[d] = <<>>
     /\ ~Flushing(Head(stack)) => \A d \in Device : recording'[d] = recording[d]
  \/ \E r \in Frames : /\ GoesOn(r) /\ r.fn = Head(stack).fn /\ ~Flushing(Head(stack))
                       /\ UNCHANGED recording
  \/ \E r \in Frames, g \in Frames :
       /\ Calling(g, r) /\ r.fn = Head(stack).fn
       /\ ~Flushing(Head(stack)) \/ r = Head(stack)
       /\ r.fn = "clWaitForEvents" => Flushing(g)
  \/ UNCHANGED <<stack, recording>>

(* What a device is recording are tasks of its own queues.                 *)
LEMMA RecordingOwn ==
  ASSUME PoolInv, NEW d \in Device, recording[d] # <<>>
  PROVE  \E q \in Queue : DeviceOf[q] = d
<1>1. /\ recording[d] \in Seq(Created) /\ LastBatch(d) \in Nat \ {0} /\ LastBatch(d) >= 2
      /\ LastBatch(d) = Len(completionQ[d]) + Len(execQ[d]) + 2
      /\ Len(completionQ[d]) \in Nat /\ Len(execQ[d]) \in Nat
  BY LaneTypes DEF PoolInv, QueueInv, TypeInv
<1>2. PICK b \in Nat : b = LastBatch(d)
  BY <1>1
<1>3. b # 1 /\ ~(b <= Len(completionQ[d]) + 1) /\ ~(b < LastBatch(d)) /\ b \in 1 .. LastBatch(d)
  <2>1. PICK m \in Nat, n \in Nat : m = Len(completionQ[d]) /\ n = Len(execQ[d])
    BY <1>1
  <2>2. b = m + n + 2
    BY <1>1, <1>2, <2>1
  <2>3. b # 1 /\ ~(b <= m + 1) /\ ~(b < b) /\ b \in 1 .. b
    BY <2>2
  <2> QED BY <1>2, <2>1, <2>3
<1>4. Batch(d, b) = recording[d]
  BY <1>3 DEF Batch
<1>5. PICK t : t = recording[d][1]
  OBVIOUS
<1>6. 1 \in 1 .. Len(recording[d]) /\ t \in Created
  BY <1>1, <1>5
<1>7. At(d, b, 1, t)
  BY <1>3, <1>4, <1>5, <1>6 DEF At
<1>8. t \in Task /\ DeviceOfTask(t) = d
  BY <1>2, <1>3, <1>6, <1>7, TaskFacts DEF PoolInv, Lanes
<1> QED BY <1>8, TaskPoolAssumption DEF DeviceOfTask, PoolInv, QueueInv, TypeInv, TypeOK

(* With one device, a flush of a queue's device empties every recording    *)
(* list.                                                                   *)
LEMMA FlushedAll ==
  ASSUME PoolInv, OneDevice, NEW S \in SUBSET Device, Flushes(S),
         S = Device \/ \E q \in Queue : S = {DeviceOf[q]}
  PROVE  \A d \in Device : recording'[d] = <<>>
<1> SUFFICES ASSUME NEW d \in Device PROVE recording'[d] = <<>>
  OBVIOUS
<1>1. recording'[d] = IF d \in S /\ recording[d] # <<>> THEN <<>> ELSE recording[d]
  BY DEF Flushes, FlushDevices
<1>2. recording[d] # <<>> => d \in S
  BY RecordingOwn DEF OneDevice
<1> QED BY <1>1, <1>2

(* So every step of the lock holder is one of those moves.                 *)
LEMMA LockMoves ==
  ASSUME PoolInv, OneDevice, LockStep
  PROVE  FlushMoves
<1> DEFINE f == Head(stack)
<1>1. /\ stack # <<>> /\ fault = "none" /\ f \in Frames /\ TypeOK
  BY FramesOf DEF LockStep, PoolInv, QueueInv, TypeInv
<1>2. ASSUME Returns, UNCHANGED recording, ~Flushing(f)
      PROVE  FlushMoves
  BY <1>2 DEF FlushMoves
<1>3. ASSUME NEW fn \in {"SubmitTask", "Ready", "Complete", "clWaitForEvents"}, f.fn = fn,
             NEW u \in f.todo
      PROVE  /\ Executing(fn) /\ Done(u) \in Frames /\ Done(u).fn = f.fn /\ ~Flushing(f)
             /\ u \in Created
  BY <1>1, <1>3, DoneFields DEF Executing, Flushing
<1>4. ASSUME NEW fn \in {"Ready", "Complete"}, f.fn = fn, NEW v, NEW u \in f.todo, ReleaseStep(v, u)
      PROVE  FlushMoves
  <2>1. Done(u) \in Frames /\ Done(u).fn = fn /\ ~Flushing(f) /\ u \in Created
    BY <1>3, <1>4
  <2>2. ReadyFrame(u, waiters[u]) \in Frames
    BY <1>1, <2>1, TaskFacts, FrameTypes
  <2>3. CASE Releases(v, u) /\ GoesOn(Done(u))
    BY <1>4, <2>1, <2>3 DEF FlushMoves, Releases, deviceVars
  <2>4. CASE ReleasesLast(v, u) /\ Calling(ReadyFrame(u, waiters[u]), Done(u))
    BY <1>4, <2>1, <2>2, <2>4 DEF FlushMoves
  <2> QED BY <1>4, <2>3, <2>4 DEF ReleaseStep
<1>5. CASE FlushStep
  <2>1. f.fn = "Flush" /\ f.queue \in Queue /\ f.flushDevice \in BOOLEAN
    BY <1>1, <1>5, FrameFields DEF FlushStep
  <2>2. ASSUME NEW t \in Created, Calling(SubmitFrame(t, waitOn[t], waitOn[t]), f)
        PROVE  FlushMoves
    <3>1. SubmitFrame(t, waitOn[t], waitOn[t]) \in Frames
      BY TaskFacts, FrameTypes
    <3> QED BY <1>1, <2>1, <2>2, <3>1 DEF FlushMoves
  <2>3. ASSUME NEW t \in Created, Calling(ReadyFrame(t, waiters[t]), f)
        PROVE  FlushMoves
    <3>1. ReadyFrame(t, waiters[t]) \in Frames
      BY TaskFacts, FrameTypes
    <3> QED BY <1>1, <2>1, <2>3, <3>1 DEF FlushMoves
  <2>4. CASE Flushes(IF f.flushDevice THEN {DeviceOf[f.queue]} ELSE {}) /\ Returns
    <3>1. CASE f.flushDevice
      <4>1. Flushes({DeviceOf[f.queue]}) /\ {DeviceOf[f.queue]} \in SUBSET Device
        BY <2>1, <2>4, <3>1, TaskPoolAssumption
      <4>2. \A d \in Device : recording'[d] = <<>>
        BY <2>1, <4>1, FlushedAll
      <4> QED BY <2>1, <2>4, <3>1, <4>2 DEF FlushMoves, Flushing
    <3>2. CASE ~f.flushDevice
      <4>1. \A d \in Device : recording'[d] = recording[d]
        BY <2>4, <3>2 DEF Flushes, FlushDevices
      <4> QED BY <2>1, <2>4, <3>2, <4>1 DEF FlushMoves, Flushing
    <3> QED BY <3>1, <3>2
  <2> QED BY <1>5, <2>2, <2>3, <2>4 DEF FlushStep
<1>6. CASE SubmitStep
  <2>1. f.fn = "SubmitTask" /\ UNCHANGED recording /\ ~Flushing(f)
    BY <1>6 DEF SubmitStep, Quiet, deviceVars, Flushing
  <2>2. ASSUME NEW u \in f.todo, GoesOn(Done(u))
        PROVE  FlushMoves
    BY <1>3, <2>1, <2>2 DEF FlushMoves
  <2>3. ASSUME NEW u \in f.todo, home[u] \in Queue, Calling(FlushFrame(home[u], FALSE), Done(u))
        PROVE  FlushMoves
    <3>1. FlushFrame(home[u], FALSE) \in Frames
      BY <2>3, FrameTypes
    <3>2. Done(u) \in Frames /\ Done(u).fn = "SubmitTask"
      BY <1>3, <2>1
    <3> QED BY <2>1, <2>3, <3>1, <3>2 DEF FlushMoves
  <2> QED BY <1>2, <1>6, <2>1, <2>2, <2>3 DEF SubmitStep, FlushMoves
<1>7. CASE WaitStep
  <2>1. f.fn = "clWaitForEvents" /\ UNCHANGED recording /\ ~Flushing(f)
    BY <1>7 DEF WaitStep, Quiet, deviceVars, Flushing
  <2>2. ASSUME NEW u \in f.todo, GoesOn(Done(u))
        PROVE  FlushMoves
    BY <1>3, <2>1, <2>2 DEF FlushMoves
  <2>3. ASSUME NEW u \in f.todo, home[u] \in Queue, Calling(FlushFrame(home[u], TRUE), Done(u))
        PROVE  FlushMoves
    <3>1. FlushFrame(home[u], TRUE) \in Frames /\ Flushing(FlushFrame(home[u], TRUE))
      BY <2>3, FrameTypes DEF FlushFrame, Flushing
    <3>2. Done(u) \in Frames /\ Done(u).fn = f.fn
      BY <1>3, <2>1
    <3> QED BY <2>1, <2>3, <3>1, <3>2 DEF FlushMoves
  <2> QED BY <1>2, <1>7, <2>1, <2>2, <2>3 DEF WaitStep
<1>8. CASE FlushAllStep
  <2>1. \A d \in Device : recording'[d] = <<>>
    BY <1>8, FlushedAll DEF FlushAllStep
  <2> QED BY <1>8, <2>1 DEF FlushAllStep, FlushMoves, Flushing
<1>9. CASE ReadyStep
  <2>1. f.fn = "Ready" /\ ~Flushing(f)
    BY <1>9 DEF ReadyStep, Flushing
  <2>2. ASSUME NEW u \in f.todo, Quiet, GoesOn(Done(u))
        PROVE  FlushMoves
    BY <1>3, <2>1, <2>2 DEF FlushMoves, Quiet, deviceVars
  <2>3. CASE Quiet /\ Returns
    BY <1>2, <2>1, <2>3 DEF Quiet, deviceVars
  <2> QED BY <1>4, <1>9, <2>1, <2>2, <2>3 DEF ReadyStep
<1>10. CASE CompleteStep
  <2>1. f.fn = "Complete" /\ ~Flushing(f)
    BY <1>10 DEF CompleteStep, Flushing
  <2>2. ASSUME NEW u \in f.todo, Quiet, GoesOn(Done(u))
        PROVE  FlushMoves
    BY <1>3, <2>1, <2>2 DEF FlushMoves, Quiet, deviceVars
  <2>3. CASE Clears(f.task) /\ Returns
    BY <1>2, <2>1, <2>3 DEF Clears, deviceVars
  <2>4. ASSUME NEW u \in f.todo, Calling(CompleteFrame(u, f.error, waiters[u]), Done(u))
        PROVE  FlushMoves
    <3>1. Done(u) \in Frames /\ Done(u).fn = "Complete" /\ u \in Created
      BY <1>3, <2>1
    <3>2. CompleteFrame(u, f.error, waiters[u]) \in Frames
      BY <1>1, <2>1, <3>1, TaskFacts, FrameTypes, FrameFields
    <3> QED BY <2>1, <2>4, <3>1, <3>2 DEF FlushMoves
  <2> QED BY <1>4, <1>10, <2>1, <2>2, <2>3, <2>4 DEF CompleteStep
<1>11. CASE CompleteAllStep
  <2> DEFINE rest == [f EXCEPT !.tasks = Tail(@)]
  <2>1. f.fn = "CompleteAll" /\ ~Flushing(f) /\ Executing("CompleteAll")
    BY <1>1, <1>11 DEF CompleteAllStep, Flushing, Executing
  <2>2. CASE Quiet /\ Returns
    BY <1>2, <2>1, <2>2 DEF Quiet, deviceVars
  <2>3. CASE f.tasks # <<>>
    <3>1. /\ rest \in Frames /\ rest.fn = "CompleteAll"
          /\ Head(f.tasks) \in Created /\ f.error \in Error
      BY <1>1, <2>1, <2>3, RestFields
    <3>2. CompleteFrame(Head(f.tasks), f.error, waiters[Head(f.tasks)]) \in Frames
      BY <3>1, TaskFacts, FrameTypes
    <3>3. CASE Quiet /\ GoesOn(rest)
      BY <2>1, <3>1, <3>3 DEF FlushMoves, Quiet, deviceVars
    <3>4. CASE Calling(CompleteFrame(Head(f.tasks), f.error, waiters[Head(f.tasks)]), rest)
      BY <2>1, <3>1, <3>2, <3>4 DEF FlushMoves
    <3> QED BY <1>11, <2>2, <3>3, <3>4 DEF CompleteAllStep
  <2> QED BY <1>11, <2>2, <2>3 DEF CompleteAllStep
<1> QED BY <1>5, <1>6, <1>7, <1>8, <1>9, <1>10, <1>11 DEF LockStep

(* Those moves keep the floor and the work it holds.                       *)
LEMMA FlushLockHolder ==
  ASSUME PoolInv, FlushInv, stack # <<>>, FlushMoves
  PROVE  FlushInv'
<1> DEFINE f == Head(stack)
<1>1. /\ stack \in Seq(Frames) /\ f \in Frames /\ OnFloor(stack) /\ f = stack[1]
  BY FramesOf, Popped DEF FlushInv
<1>2. ASSUME Returns,
             Flushing(f) => \A d \in Device : recording'[d] = <<>>,
             ~Flushing(f) => \A d \in Device : recording'[d] = recording[d]
      PROVE  FlushInv'
  <2>1. /\ OnFloor(stack') /\ stack' = Tail(stack) /\ stack' \in Seq(Frames)
        /\ Len(stack) = 1 => stack' = <<>>
        /\ Len(stack) = 2 /\ ~Flushing(f) => Flushing(stack'[1])
        /\ Len(stack') = Len(stack) - 1 /\ Len(stack) \in Nat \ {0}
    BY <1>1, <1>2, FloorReturns, ReturnedStack DEF Returns, Callers
  <2>2. ASSUME NEW d \in Device, recording'[d] # <<>>
        PROVE  stack' # <<>> /\ (Len(stack') = 1 => Flushing(stack'[1]))
    <3>1. ~Flushing(f) /\ recording[d] # <<>>
      BY <1>2, <2>2
    <3>2. Len(stack) # 1
      BY <1>1, <3>1 DEF FlushInv, WorkHeld
    <3>3. Len(stack') # 0 /\ (Len(stack') = 1 => Len(stack) = 2)
      BY <2>1, <3>2
    <3> QED BY <2>1, <3>1, <3>3
  <2> QED BY <2>1, <2>2 DEF FlushInv, WorkHeld
<1>3. ASSUME NEW r \in Frames, GoesOn(r), r.fn = f.fn, ~Flushing(f), UNCHANGED recording
      PROVE  FlushInv'
  <2>1. OnFloor(stack') /\ Len(stack') = Len(stack) /\ stack' # <<>>
    BY <1>1, <1>3, FloorGoesOn DEF GoesOn, Callers
  <2>2. \A d \in Device : recording'[d] # <<>> => Len(stack) # 1
    BY <1>1, <1>3 DEF FlushInv, WorkHeld
  <2> QED BY <2>1, <2>2 DEF FlushInv, WorkHeld
<1>4. ASSUME NEW r \in Frames, NEW g \in Frames, Calling(g, r), r.fn = f.fn,
             ~Flushing(f) \/ r = f, r.fn = "clWaitForEvents" => Flushing(g)
      PROVE  FlushInv'
  <2>1. OnFloor(stack') /\ stack' # <<>> /\ Len(stack') # 1
    BY <1>1, <1>4, FloorCalling DEF Calling, Callers
  <2> QED BY <2>1 DEF FlushInv, WorkHeld
<1>5. CASE UNCHANGED <<stack, recording>>
  BY <1>5 DEF FlushInv, WorkHeld, OnFloor
<1> QED BY <1>2, <1>3, <1>4, <1>5 DEF FlushMoves

(* The other steps begin calls that flush, when nothing is left over.      *)
LEMMA FlushOthers ==
  ASSUME PoolInv, FlushInv, [Next]_vars, ~LockHolder
  PROVE  FlushInv'
<1>1. CASE UNCHANGED <<taskVars, state, depVars, queueVars, deviceVars, stack, fault>>
  BY <1>1 DEF FlushInv, WorkHeld, OnFloor, deviceVars
<1>2. CASE ~UNCHANGED <<taskVars, state, depVars, queueVars, deviceVars, stack, fault>>
  <2>1. stack = <<>> /\ UNCHANGED recording
    BY <1>2, OtherSteps
  <2>2. WorkHeld'
    BY <2>1 DEF FlushInv, WorkHeld
  <2>3. Flushing(FlushAllFrame)
    BY NewFields DEF Flushing
  <2>4. OnFloor(stack')
    <3>1. CASE stack' = <<>>
      BY <3>1 DEF OnFloor
    <3>2. ASSUME NEW q \in Queue, stack' = <<FlushFrame(q, TRUE)>>
          PROVE  OnFloor(stack')
      BY <3>2 DEF OnFloor, Flushing, FlushFrame
    <3>3. ASSUME NEW T, stack' = <<WaitFrame(T)>>
          PROVE  OnFloor(stack')
      BY <3>3 DEF OnFloor, WaitFrame
    <3>4. CASE stack' = <<FlushAllFrame>>
      BY <2>3, <3>4 DEF OnFloor
    <3>5. ASSUME NEW h \in Frames, stack' = <<h>> \o <<FlushAllFrame>>
          PROVE  OnFloor(stack')
      <4>1. Len(stack') = 2 /\ stack'[2] = FlushAllFrame
        BY <3>5
      <4> QED BY <2>3, <4>1 DEF OnFloor
    <3>6. ASSUME NEW h \in Frames, stack' = <<h, FlushAllFrame>>
          PROVE  OnFloor(stack')
      BY <2>3, <3>6 DEF OnFloor
    <3> QED BY <1>2, <3>1, <3>2, <3>3, <3>4, <3>5, <3>6, OtherSteps
  <2> QED BY <2>2, <2>4 DEF FlushInv
<1> QED BY <1>1, <1>2

(* For any number of tasks and queues on one device, no ready task is left *)
(* in the device's recording list when the lock is released: every chain   *)
(* of calls made under the lock ends in a flush of the device.             *)
THEOREM AllReadyWorkFlushed ==
  ASSUME OneDevice
  PROVE  ~RecordMayFail /\ Spec => []ReadyWorkFlushed
<1>1. Init => FlushInv
  <2>1. Init => stack = <<>> /\ \A d \in Device : recording[d] = <<>>
    BY DEF Init
  <2> QED BY <2>1 DEF FlushInv, OnFloor, WorkHeld
<1>2. PoolInv /\ FlushInv /\ [Next]_vars => FlushInv'
  <2> SUFFICES ASSUME PoolInv, FlushInv, [Next]_vars
               PROVE  FlushInv'
    OBVIOUS
  <2>1. CASE LockHolder
    <3>1. LockStep
      BY <2>1, LockSteps DEF PoolInv, QueueInv
    <3>2. FlushMoves
      BY <3>1, LockMoves
    <3> QED BY <3>1, <3>2, FlushLockHolder DEF LockStep
  <2>2. CASE ~LockHolder
    BY <2>2, FlushOthers
  <2> QED BY <2>1, <2>2
<1>3. FlushInv => ReadyWorkFlushed
  BY DEF FlushInv, WorkHeld, ReadyWorkFlushed, LockFree
<1> QED BY <1>1, <1>2, <1>3, PoolInvariant, PTL DEF Spec
=============================================================================
