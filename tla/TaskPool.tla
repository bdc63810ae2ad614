------------------------------ MODULE TaskPool ------------------------------
(***************************************************************************)
(* The heart of the runtime: tasks (cl_event objects), the command queues  *)
(* that hold them, the dependency lists between them, and the per-adapter  *)
(* D3DDevice pipelines that record, execute and complete them              *)
(* (task.cpp, queue.cpp, device.cpp).                                      *)
(*                                                                         *)
(* Every change of a task's state is made while holding the platform's     *)
(* recursive TaskPoolLock.  The work done under one acquisition of the     *)
(* lock is a chain of mutually recursive calls (Flush -> SubmitTask ->     *)
(* ReadyTask -> Ready -> ..., Complete -> Complete -> ReadyTask ...), so   *)
(* the lock holder's call stack is a variable: an action that takes the    *)
(* lock pushes the first frame, each further step runs one iteration of    *)
(* the loop in the innermost frame, and the lock is free again when the    *)
(* stack is empty.  Task::Record runs without the lock on the device's     *)
(* execution thread, the completion of a submission on its completion      *)
(* thread, and API calls arrive from any number of application threads.    *)
(***************************************************************************)
EXTENDS Integers, Sequences, FiniteSets, SequencesExt

CONSTANTS
  NumTasks,       \* bound: how many events the application creates
  Queue,          \* command queues
  Device,         \* D3DDevices
  DeviceOf,       \* the D3DDevice a command queue was created on
  OutOfOrder,     \* queues with CL_QUEUE_OUT_OF_ORDER_EXEC_MODE_ENABLE
  NoQueue,        \* m_CommandQueue of a user event (null)
  NoDevice,       \* m_D3DDevice of a user event (null)
  MaxWaitList,    \* bound: length of an event_wait_list
  MaxWaiting,     \* bound: events being waited for at a time
  UserStatus,     \* statuses the application gives to clSetUserEventStatus
  RecordMayFail,  \* whether Task::RecordImpl may throw
  StaleWaits      \* whether a wait list may name events already finished

(* Execution statuses as in cl.h; Ready is internal to the runtime.        *)
Complete  == 0
Running   == 1
Submitted == 2
Queued    == 3
Ready     == 4

CL_OUT_OF_RESOURCES == -5
CL_EXEC_STATUS_ERROR_FOR_EVENTS_IN_WAIT_LIST == -14

ASSUME TaskPoolAssumption ==
  /\ NumTasks \in Nat
  /\ MaxWaitList \in Nat
  /\ MaxWaiting \in Nat
  /\ DeviceOf \in [Queue -> Device]
  /\ OutOfOrder \subseteq Queue
  /\ NoQueue \notin Queue
  /\ NoDevice \notin Device
  /\ UserStatus \subseteq {n \in Int : n <= 0}
  /\ RecordMayFail \in BOOLEAN
  /\ StaleWaits \in BOOLEAN

Task     == 1 .. NumTasks
NoTask   == 0
Status   == {n \in Int : n <= Ready}
Error    == {n \in Int : n <= Complete}

VARIABLES
  \* Tasks
  created,      \* tasks created so far; a task's number is its creation order
  home,         \* m_CommandQueue
  barriers,     \* tasks whose m_CommandType is CL_COMMAND_BARRIER
  waitList,     \* history: the event_wait_list of the enqueue call
  sweeping,     \* history: markers and barriers enqueued without a wait list
  state,        \* m_State
  waitOn,       \* m_TasksToWaitOn
  waiters,      \* m_TasksWaitingOnThis
  signalled,    \* tasks whose m_CompletionPromise has been set
  \* Command queues
  queued,       \* m_QueuedTasks
  outstanding,  \* m_OutstandingTasks
  lastTask,     \* m_LastQueuedTask
  lastBarrier,  \* m_LastQueuedBarrier
  \* Devices
  recording,    \* m_RecordingSubmission
  execQ,        \* submissions queued on m_ExecutionScheduler
  recorded,     \* tasks of the first of them recorded so far
  completionQ,  \* submissions queued on m_CompletionScheduler
  \* Threads
  stack,        \* call stack of the thread holding the TaskPoolLock
  waiting,      \* events some thread is in clWaitForEvents for
  setters,      \* clSetUserEventStatus calls past their check, before the lock
  fault         \* what undefined behaviour or terminate has been reached

taskVars   == <<created, home, barriers, waitList, sweeping>>
depVars    == <<waitOn, waiters>>
queueVars  == <<queued, outstanding, lastTask, lastBarrier>>
deviceVars == <<recording, execQ, recorded, completionQ>>
callVars   == <<waiting, setters>>
vars == <<taskVars, state, depVars, signalled, queueVars, deviceVars, stack,
          callVars, fault>>

-----------------------------------------------------------------------------
(* Helpers *)

Created == 1 .. created
DeviceOfTask(t) == IF home[t] = NoQueue THEN NoDevice ELSE DeviceOf[home[t]]
UserEvents == {t \in Created : home[t] = NoQueue}
Finished(t) == state[t] <= Complete

\* std::remove_if and erase of x, which occurs at most once.
Without(s, x) ==
  IF x \in ToSet(s) THEN RemoveAt(s, CHOOSE i \in DOMAIN s : s[i] = x) ELSE s

(* Frames of the lock holder's call stack, one per loop that can be        *)
(* interrupted by a nested call.  stack[1] is the innermost.               *)
FlushFrame(q, flushDevice) ==
  [fn |-> "Flush", queue |-> q, flushDevice |-> flushDevice]
SubmitFrame(t, deps, todo) ==
  [fn |-> "SubmitTask", task |-> t, deps |-> deps, todo |-> todo]
ReadyFrame(t, todo) ==
  [fn |-> "Ready", task |-> t, todo |-> todo]
CompleteFrame(t, error, todo) ==
  [fn |-> "Complete", task |-> t, error |-> error, todo |-> todo]
CompleteAllFrame(tasks, error) ==
  [fn |-> "CompleteAll", tasks |-> tasks, error |-> error]
FlushAllFrame ==
  [fn |-> "FlushAllDevices"]
WaitFrame(todo) ==
  [fn |-> "clWaitForEvents", todo |-> todo]

LockFree == stack = <<>> /\ fault = "none"
Executing(fn) == stack # <<>> /\ fault = "none" /\ Head(stack).fn = fn
Callers == Tail(stack)

-----------------------------------------------------------------------------
Init ==
  /\ created = 0
  /\ home = [t \in Task |-> NoQueue]
  /\ barriers = {}
  /\ waitList = [t \in Task |-> {}]
  /\ sweeping = {}
  /\ state = [t \in Task |-> Queued]
  /\ waitOn = [t \in Task |-> {}]
  /\ waiters = [t \in Task |-> {}]
  /\ signalled = {}
  /\ queued = [q \in Queue |-> <<>>]
  /\ outstanding = [q \in Queue |-> {}]
  /\ lastTask = [q \in Queue |-> NoTask]
  /\ lastBarrier = [q \in Queue |-> NoTask]
  /\ recording = [d \in Device |-> <<>>]
  /\ execQ = [d \in Device |-> <<>>]
  /\ recorded = [d \in Device |-> 0]
  /\ completionQ = [d \in Device |-> <<>>]
  /\ stack = <<>>
  /\ waiting = {}
  /\ setters = {}
  /\ fault = "none"

-----------------------------------------------------------------------------
(* Application calls *)

(* clCreateUserEvent: the constructor submits the event at once, without   *)
(* the lock, but nothing else can see it before the call returns.  An      *)
(* application without a status to give creates no user events.            *)
CreateUserEvent ==
  /\ LockFree
  /\ UserStatus # {}
  /\ created < NumTasks
  /\ LET t == created + 1 IN
       /\ created' = t
       /\ state' = [state EXCEPT ![t] = Submitted]
  /\ UNCHANGED <<home, barriers, waitList, sweeping, depVars, signalled, queueVars, deviceVars,
                 stack, callVars, fault>>

(* Mutant: only tasks still in a queue count as not yet ready.             *)
LinkedToQueuedOnly(S, device) ==
  {u \in S : DeviceOfTask(u) # device \/ state[u] = Queued}

(* The events Task::AddDependencies links to, out of S: those on another   *)
(* device whatever their state, and those not yet ready on this one.       *)
LinkedTo(S, device) ==
  {u \in S : DeviceOfTask(u) # device \/ state[u] \in {Queued, Submitted}}

(* CommandQueue::AddAllTasksAsDependencies; the last task and the last     *)
(* barrier are left to QueueTask.                                          *)
AllTasksOf(q) ==
  (outstanding[q] \cup ToSet(queued[q])) \ {lastTask[q], lastBarrier[q]}

(* What every clEnqueue* call does under the lock: AddDependencies on its  *)
(* wait list (or on the whole queue for a marker or barrier without one),  *)
(* then CommandQueue::QueueTask.                                           *)
Enqueue(q, command, W) ==
  /\ LockFree
  /\ created < NumTasks
  /\ Cardinality(W) <= MaxWaitList
  /\ StaleWaits \/ \A u \in W : ~Finished(u)
  /\ LET t == created + 1
         sweep == command # "task" /\ W = {}
         named == IF sweep THEN AllTasksOf(q) ELSE W
         implicit == {lastTask[q], lastBarrier[q]} \ {NoTask}
         deps == LinkedTo(named \cup implicit, DeviceOf[q])
     IN  /\ created' = t
         /\ home' = [home EXCEPT ![t] = q]
         /\ barriers' = IF command = "barrier" THEN barriers \cup {t}
                                               ELSE barriers
         /\ waitList' = [waitList EXCEPT ![t] = W]
         /\ sweeping' = IF sweep THEN sweeping \cup {t} ELSE sweeping
         /\ waitOn' = [waitOn EXCEPT ![t] = deps]
         /\ waiters' = [u \in Task |->
                          IF u \in deps THEN waiters[u] \cup {t}
                                        ELSE waiters[u]]
         /\ queued' = [queued EXCEPT ![q] = Append(@, t)]
         /\ lastTask' = IF q \in OutOfOrder THEN lastTask
                        ELSE [lastTask EXCEPT ![q] = t]
         /\ lastBarrier' = IF command = "barrier"
                           THEN [lastBarrier EXCEPT ![q] = t]
                           ELSE lastBarrier
  /\ UNCHANGED <<state, signalled, outstanding, deviceVars, stack, callVars,
                 fault>>

EnqueueCommand(q) == \E W \in SUBSET Created : Enqueue(q, "task", W)
EnqueueMarkerWithWaitList(q) == \E W \in SUBSET Created : Enqueue(q, "marker", W)
EnqueueBarrierWithWaitList(q) == \E W \in SUBSET Created : Enqueue(q, "barrier", W)

(* clFlush and clReleaseCommandQueue.  A flush that finds nothing to do    *)
(* changes nothing and is a stuttering step.                               *)
ClFlush(q) ==
  /\ LockFree
  /\ queued[q] # <<>> \/ recording[DeviceOf[q]] # <<>>
  /\ stack' = <<FlushFrame(q, TRUE)>>
  /\ UNCHANGED <<taskVars, state, depVars, signalled, queueVars, deviceVars,
                 callVars, fault>>

(* clWaitForEvents: a flush pass under the lock, then a wait for each      *)
(* event's promise.  clFinish is a marker followed by this.                *)
ClWaitForEvents(W) ==
  /\ LockFree
  /\ W # {} /\ Cardinality(W) <= MaxWaitList
  /\ Cardinality(waiting \cup W) <= MaxWaiting
  /\ \A t \in W : ~Finished(t)
  /\ ~(W \subseteq waiting)
  /\ waiting' = waiting \cup W
  /\ stack' = <<WaitFrame({t \in W : state[t] = Queued})>>
  /\ UNCHANGED <<taskVars, state, depVars, signalled, queueVars, deviceVars,
                 setters, fault>>

(* clSetUserEventStatus reads the state before it takes the lock ...       *)
SetUserEventStatusCheck(u, status) ==
  /\ fault = "none"
  /\ u \in UserEvents /\ state[u] = Submitted
  /\ <<u, status>> \notin setters
  /\ setters' = setters \cup {<<u, status>>}
  /\ UNCHANGED <<taskVars, state, depVars, signalled, queueVars, deviceVars,
                 stack, waiting, fault>>

-----------------------------------------------------------------------------
(* Steps shared by the loops below *)

(* Mutant: the last barrier keeps being pointed to.                        *)
NotifyCompletionKeepsBarrier(t) ==
  /\ queued' = [q \in Queue |-> Without(queued[q], t)]
  /\ outstanding' = [q \in Queue |-> outstanding[q] \ {t}]
  /\ lastTask' = [q \in Queue |-> IF lastTask[q] = t THEN NoTask
                                                     ELSE lastTask[q]]
  /\ UNCHANGED lastBarrier

(* CommandQueue::NotifyTaskCompletion.                                     *)
NotifyTaskCompletion(t) ==
  /\ queued' = [q \in Queue |-> IF q = home[t] THEN Without(queued[q], t)
                                               ELSE queued[q]]
  /\ outstanding' = [q \in Queue |-> outstanding[q] \ {t}]
  /\ lastTask' = [q \in Queue |-> IF lastTask[q] = t THEN NoTask
                                                     ELSE lastTask[q]]
  /\ lastBarrier' = [q \in Queue |-> IF lastBarrier[q] = t THEN NoTask
                                                           ELSE lastBarrier[q]]

(* The part of Task::Complete before its loop over the waiting tasks,      *)
(* called with the frames in callers beneath.  A task that has finished is *)
(* left alone.                                                             *)
BeginComplete(t, error, callers) ==
  IF Finished(t)
    THEN /\ stack' = callers
         /\ UNCHANGED <<state, queueVars>>
    ELSE /\ state' = [state EXCEPT ![t] = error]
         /\ NotifyTaskCompletion(t)
         /\ stack' = <<CompleteFrame(t, error, waiters[t])>> \o callers

(* D3DDevice::ReadyTask followed by the part of Task::Ready before its     *)
(* loop, for a task none of whose resources has to migrate.                *)
BeginReady(t, callers) ==
  /\ state' = [state EXCEPT ![t] = Ready]
  /\ recording' = [recording EXCEPT ![DeviceOfTask(t)] = Append(@, t)]
  /\ stack' = <<ReadyFrame(t, waiters[t])>> \o callers

(* Remove t from the list task d waits on; d becomes ready when that was   *)
(* the last entry and d has been submitted.                                *)
Prune(t, d, callers) ==
  /\ waitOn' = [waitOn EXCEPT ![d] = @ \ {t}]
  /\ IF waitOn[d] \subseteq {t} /\ state[d] = Submitted
       THEN BeginReady(d, callers)
       ELSE /\ stack' = callers
            /\ UNCHANGED <<state, recording>>

(* The list each device is left with by a D3DDevice::Flush of devices S.   *)
FlushDevices(S) ==
  LET busy == {d \in S : recording[d] # <<>>} IN
  /\ execQ' = [d \in Device |-> IF d \in busy THEN Append(execQ[d], recording[d])
                                              ELSE execQ[d]]
  /\ recording' = [d \in Device |-> IF d \in busy THEN <<>> ELSE recording[d]]

-----------------------------------------------------------------------------
(* Steps of the thread that holds the lock *)

(* Mutant: a flush takes the newest task of the queue.                     *)
FlushNewestTask ==
  /\ Executing("Flush")
  /\ LET f == Head(stack) IN
     /\ queued[f.queue] # <<>>
     /\ LET n == Len(queued[f.queue])
            t == queued[f.queue][n] IN
        /\ queued' = [queued EXCEPT ![f.queue] = SubSeq(@, 1, n - 1)]
        /\ outstanding' = [outstanding EXCEPT ![f.queue] = @ \cup {t}]
        /\ IF waitOn[t] = {}
             THEN BeginReady(t, stack)
             ELSE /\ state' = [state EXCEPT ![t] = Submitted]
                  /\ stack' = <<SubmitFrame(t, waitOn[t], waitOn[t])>> \o stack
                  /\ UNCHANGED recording
  /\ UNCHANGED <<taskVars, depVars, signalled, lastTask, lastBarrier, execQ,
                 recorded, completionQ, callVars, fault>>

(* One task moves from the queue to the device: CommandQueue::Flush and    *)
(* D3DDevice::SubmitTask up to its loop over the dependencies.             *)
FlushTask ==
  /\ Executing("Flush")
  /\ LET f == Head(stack) IN
     /\ queued[f.queue] # <<>>
     /\ LET t == Head(queued[f.queue]) IN
        /\ queued' = [queued EXCEPT ![f.queue] = Tail(@)]
        /\ outstanding' = [outstanding EXCEPT ![f.queue] = @ \cup {t}]
        /\ IF waitOn[t] = {}
             THEN BeginReady(t, stack)
             ELSE /\ state' = [state EXCEPT ![t] = Submitted]
                  /\ stack' = <<SubmitFrame(t, waitOn[t], waitOn[t])>> \o stack
                  /\ UNCHANGED recording
  /\ UNCHANGED <<taskVars, depVars, signalled, lastTask, lastBarrier, execQ,
                 recorded, completionQ, callVars, fault>>

(* Mutant: the queue's device is never flushed.                            *)
FlushReturnsOnly ==
  /\ Executing("Flush")
  /\ queued[Head(stack).queue] = <<>>
  /\ stack' = Callers
  /\ UNCHANGED <<taskVars, state, depVars, signalled, queueVars, deviceVars,
                 callVars, fault>>

FlushReturns ==
  /\ Executing("Flush")
  /\ LET f == Head(stack) IN
     /\ queued[f.queue] = <<>>
     /\ FlushDevices(IF f.flushDevice THEN {DeviceOf[f.queue]} ELSE {})
  /\ stack' = Callers
  /\ UNCHANGED <<taskVars, state, depVars, signalled, queueVars, recorded,
                 completionQ, callVars, fault>>

(* SubmitTask's loop: a dependency still in its queue has that queue       *)
(* flushed, without flushing the queue's device.                           *)
SubmitDependency ==
  /\ Executing("SubmitTask")
  /\ LET f == Head(stack) IN
     /\ waitOn[f.task] = f.deps
     /\ \E u \in f.todo :
          LET rest == <<[f EXCEPT !.todo = @ \ {u}]>> \o Callers IN
          stack' = IF state[u] = Queued
                     THEN <<FlushFrame(home[u], FALSE)>> \o rest
                     ELSE rest
  /\ UNCHANGED <<taskVars, state, depVars, signalled, queueVars, deviceVars,
                 callVars, fault>>

SubmitReturns ==
  /\ Executing("SubmitTask")
  /\ Head(stack).todo = {}
  /\ stack' = Callers
  /\ UNCHANGED <<taskVars, state, depVars, signalled, queueVars, deviceVars,
                 callVars, fault>>

(* The nested flush erased entries of the vector the range-for walks: the  *)
(* iterators are invalid, and with elements left the loop reads past the   *)
(* vector's new end.                                                       *)
SubmitIteratorInvalid ==
  /\ Executing("SubmitTask")
  /\ LET f == Head(stack) IN f.todo # {} /\ waitOn[f.task] # f.deps
  /\ fault' = "iterator_invalidated"
  /\ UNCHANGED <<taskVars, state, depVars, signalled, queueVars, deviceVars,
                 stack, callVars>>

(* Mutant: tasks of other devices are released as well.                    *)
ReadyDependentAnywhere ==
  /\ Executing("Ready")
  /\ LET f == Head(stack) IN
     \E d \in f.todo :
       Prune(f.task, d, <<[f EXCEPT !.todo = @ \ {d}]>> \o Callers)
  /\ UNCHANGED <<taskVars, waiters, signalled, queueVars, execQ, recorded,
                 completionQ, callVars, fault>>

(* Task::Ready's loop over the tasks waiting on this one; only those on    *)
(* the same device are released here.                                      *)
ReadyDependent ==
  /\ Executing("Ready")
  /\ LET f == Head(stack) IN
     \E d \in f.todo :
       LET rest == <<[f EXCEPT !.todo = @ \ {d}]>> \o Callers IN
       IF DeviceOfTask(d) # DeviceOfTask(f.task)
         THEN /\ stack' = rest
              /\ UNCHANGED <<waitOn, state, recording>>
         ELSE Prune(f.task, d, rest)
  /\ UNCHANGED <<taskVars, waiters, signalled, queueVars, execQ, recorded,
                 completionQ, callVars, fault>>

ReadyReturns ==
  /\ Executing("Ready")
  /\ Head(stack).todo = {}
  /\ stack' = Callers
  /\ UNCHANGED <<taskVars, state, depVars, signalled, queueVars, deviceVars,
                 callVars, fault>>

(* Mutant: the waiting tasks are released whatever the outcome.            *)
CompleteDependentReleases ==
  /\ Executing("Complete")
  /\ LET f == Head(stack) IN
     \E d \in f.todo :
       LET rest == <<[f EXCEPT !.todo = @ \ {d}]>> \o Callers IN
       IF f.task \in waitOn[d]
         THEN Prune(f.task, d, rest)
         ELSE /\ stack' = rest
              /\ UNCHANGED <<waitOn, state, recording>>
  /\ UNCHANGED <<taskVars, waiters, signalled, queueVars, execQ, recorded,
                 completionQ, callVars, fault>>

(* Task::Complete's loop: after an error the waiting tasks fail too, after *)
(* a success they are released.                                            *)
CompleteDependent ==
  /\ Executing("Complete")
  /\ LET f == Head(stack) IN
     \E d \in f.todo :
       LET rest == <<[f EXCEPT !.todo = @ \ {d}]>> \o Callers IN
       IF f.error < 0
         THEN /\ BeginComplete(d, f.error, rest)
              /\ UNCHANGED <<waitOn, recording>>
         ELSE /\ IF f.task \in waitOn[d]
                   THEN Prune(f.task, d, rest)
                   ELSE /\ stack' = rest
                        /\ UNCHANGED <<waitOn, state, recording>>
              /\ UNCHANGED queueVars
  /\ UNCHANGED <<taskVars, waiters, signalled, execQ, recorded, completionQ,
                 callVars, fault>>

(* Mutant: only the list of waiting tasks is cleared.                      *)
CompleteReturnsStillWaiting ==
  /\ Executing("Complete")
  /\ LET t == Head(stack).task IN
     /\ Head(stack).todo = {}
     /\ waiters' = [waiters EXCEPT ![t] = {}]
     /\ signalled' = signalled \cup {t}
     /\ waiting' = waiting \ {t}
  /\ stack' = Callers
  /\ UNCHANGED <<taskVars, state, waitOn, queueVars, deviceVars, setters, fault>>

(* The end of Task::Complete: both lists are cleared and the promise is    *)
(* set, which ends every wait for the task.  Setting it again throws       *)
(* std::future_error out of a noexcept thread function.                    *)
CompleteReturns ==
  /\ Executing("Complete")
  /\ LET t == Head(stack).task IN
     /\ Head(stack).todo = {}
     /\ waitOn' = [waitOn EXCEPT ![t] = {}]
     /\ waiters' = [waiters EXCEPT ![t] = {}]
     /\ signalled' = signalled \cup {t}
     /\ waiting' = waiting \ {t}
     /\ fault' = IF t \in signalled THEN "promise_already_satisfied" ELSE fault
  /\ stack' = Callers
  /\ UNCHANGED <<taskVars, state, queueVars, deviceVars, setters>>

(* A thread completing the tasks of a submission in order.                 *)
CompleteNext ==
  /\ Executing("CompleteAll")
  /\ LET f == Head(stack) IN
     IF f.tasks = <<>>
       THEN /\ stack' = Callers
            /\ UNCHANGED <<state, queueVars>>
       ELSE BeginComplete(Head(f.tasks), f.error,
                          <<[f EXCEPT !.tasks = Tail(@)]>> \o Callers)
  /\ UNCHANGED <<taskVars, depVars, signalled, deviceVars, callVars, fault>>

(* Platform::FlushAllDevices, or clSetUserEventStatus's loop over the      *)
(* context's devices.                                                      *)
FlushAllDevices ==
  /\ Executing("FlushAllDevices")
  /\ FlushDevices(Device)
  /\ stack' = Callers
  /\ UNCHANGED <<taskVars, state, depVars, signalled, queueVars, recorded,
                 completionQ, callVars, fault>>

(* The flush pass of clWaitForEvents.                                      *)
WaitFlush ==
  /\ Executing("clWaitForEvents")
  /\ LET f == Head(stack) IN
     IF f.todo = {}
       THEN stack' = Callers
       ELSE \E t \in f.todo :
              LET rest == <<[f EXCEPT !.todo = @ \ {t}]>> \o Callers IN
              stack' = IF state[t] = Queued
                         THEN <<FlushFrame(home[t], TRUE)>> \o rest
                         ELSE rest
  /\ UNCHANGED <<taskVars, state, depVars, signalled, queueVars, deviceVars,
                 callVars, fault>>

LockHolder ==
  \/ FlushTask \/ FlushReturns
  \/ SubmitDependency \/ SubmitReturns \/ SubmitIteratorInvalid
  \/ ReadyDependent \/ ReadyReturns
  \/ CompleteDependent \/ CompleteReturns \/ CompleteNext
  \/ FlushAllDevices \/ WaitFlush

(* ... and completes the event whatever happened in between.               *)
SetUserEventStatus(u, status) ==
  /\ LockFree
  /\ <<u, status>> \in setters
  /\ setters' = setters \ {<<u, status>>}
  /\ BeginComplete(u, status, <<FlushAllFrame>>)
  /\ UNCHANGED <<taskVars, depVars, signalled, deviceVars, waiting, fault>>

-----------------------------------------------------------------------------
(* The device's execution and completion threads *)

(* ExecuteTasks: Record, without the lock, then Started under it.  Record  *)
(* touches only the device's own command list, so the two are one step.    *)
Record(d) ==
  /\ LockFree
  /\ execQ[d] # <<>> /\ recorded[d] < Len(Head(execQ[d]))
  /\ recorded' = [recorded EXCEPT ![d] = @ + 1]
  /\ state' = [state EXCEPT ![Head(execQ[d])[recorded[d] + 1]] = Running]
  /\ UNCHANGED <<taskVars, depVars, signalled, queueVars, recording, execQ,
                 completionQ, stack, callVars, fault>>

(* Mutant: the tasks after the failed one are dropped but not failed.      *)
RecordFailsAlone(d) ==
  /\ RecordMayFail
  /\ LockFree
  /\ execQ[d] # <<>> /\ recorded[d] < Len(Head(execQ[d]))
  /\ LET tasks == Head(execQ[d])
         i == recorded[d] + 1
     IN  /\ execQ' = [execQ EXCEPT ![d][1] = SubSeq(tasks, 1, i - 1)]
         /\ BeginComplete(tasks[i], CL_OUT_OF_RESOURCES, <<>>)
  /\ UNCHANGED <<taskVars, depVars, signalled, recording, recorded,
                 completionQ, callVars, fault>>

(* Record throws: the task and the rest of the submission fail and are     *)
(* dropped from it.                                                        *)
RecordFails(d) ==
  /\ RecordMayFail
  /\ LockFree
  /\ execQ[d] # <<>> /\ recorded[d] < Len(Head(execQ[d]))
  /\ LET tasks == Head(execQ[d])
         i == recorded[d] + 1
     IN  /\ execQ' = [execQ EXCEPT ![d][1] = SubSeq(tasks, 1, i - 1)]
         /\ BeginComplete(tasks[i], CL_OUT_OF_RESOURCES,
              <<CompleteAllFrame(SubSeq(tasks, i + 1, Len(tasks)),
                  CL_EXEC_STATUS_ERROR_FOR_EVENTS_IN_WAIT_LIST)>>)
  /\ UNCHANGED <<taskVars, depVars, signalled, recording, recorded,
                 completionQ, callVars, fault>>

(* The command list is submitted, with an event for its completion.        *)
SubmitExecution(d) ==
  /\ LockFree
  /\ execQ[d] # <<>> /\ recorded[d] = Len(Head(execQ[d]))
  /\ completionQ' = [completionQ EXCEPT ![d] = Append(@, Head(execQ[d]))]
  /\ execQ' = [execQ EXCEPT ![d] = Tail(@)]
  /\ recorded' = [recorded EXCEPT ![d] = 0]
  /\ UNCHANGED <<taskVars, state, depVars, signalled, queueVars, recording,
                 stack, callVars, fault>>

(* The GPU has finished the oldest submission: the completion thread takes *)
(* the lock, completes its tasks and flushes every device.                 *)
CompleteSubmission(d) ==
  /\ LockFree
  /\ completionQ[d] # <<>>
  /\ completionQ' = [completionQ EXCEPT ![d] = Tail(@)]
  /\ stack' = <<CompleteAllFrame(Head(completionQ[d]), Complete), FlushAllFrame>>
  /\ UNCHANGED <<taskVars, state, depVars, signalled, queueVars, recording,
                 execQ, recorded, callVars, fault>>

-----------------------------------------------------------------------------
Application ==
  \/ CreateUserEvent
  \/ \E q \in Queue : \/ EnqueueCommand(q)
                      \/ EnqueueMarkerWithWaitList(q)
                      \/ EnqueueBarrierWithWaitList(q)
                      \/ ClFlush(q)
  \/ \E W \in SUBSET Created : ClWaitForEvents(W)
  \/ \E u \in Task, s \in UserStatus : SetUserEventStatusCheck(u, s)

DeviceThreads ==
  \E d \in Device : \/ Record(d) \/ RecordFails(d)
                    \/ SubmitExecution(d) \/ CompleteSubmission(d)

Next ==
  \/ Application
  \/ LockHolder
  \/ \E u \in Task, s \in UserStatus : SetUserEventStatus(u, s)
  \/ DeviceThreads

Spec == Init /\ [][Next]_vars

(* The runtime's own threads make progress and the GPU finishes what it is *)
(* given; a call that has been made returns.  The application is free to   *)
(* stop calling.                                                           *)
Fairness ==
  /\ WF_vars(LockHolder)
  /\ \A u \in Task, s \in UserStatus : WF_vars(SetUserEventStatus(u, s))
  /\ \A d \in Device : /\ WF_vars(Record(d) \/ RecordFails(d))
                       /\ WF_vars(SubmitExecution(d))
                       /\ WF_vars(CompleteSubmission(d))

FairSpec == Spec /\ Fairness

-----------------------------------------------------------------------------
(* Type invariant *)

Frames ==
  [fn : {"Flush"}, queue : Queue, flushDevice : BOOLEAN]
    \cup [fn : {"SubmitTask"}, task : Created, deps : SUBSET Created, todo : SUBSET Created]
    \cup [fn : {"Ready"}, task : Created, todo : SUBSET Created]
    \cup [fn : {"Complete"}, task : Created, error : Error, todo : SUBSET Created]
    \cup [fn : {"CompleteAll"}, tasks : Seq(Created), error : Error]
    \cup [fn : {"FlushAllDevices"}]
    \cup [fn : {"clWaitForEvents"}, todo : SUBSET Created]

Faults == {"none", "iterator_invalidated", "promise_already_satisfied"}

(* Every field holds a value of its C++ type, every reference is to a task *)
(* that exists, a recursive flush has a queue to flush, and no error       *)
(* passed to Complete is positive (its first assertion).                   *)
TypeOK ==
  /\ created \in 0 .. NumTasks
  /\ home \in [Task -> Queue \cup {NoQueue}]
  /\ barriers \subseteq Created
  /\ waitList \in [Task -> SUBSET Created]
  /\ sweeping \subseteq Created
  /\ state \in [Task -> Status]
  /\ waitOn \in [Task -> SUBSET Created]
  /\ waiters \in [Task -> SUBSET Created]
  /\ signalled \subseteq Created
  /\ queued \in [Queue -> Seq(Created)]
  /\ outstanding \in [Queue -> SUBSET Created]
  /\ lastTask \in [Queue -> Created \cup {NoTask}]
  /\ lastBarrier \in [Queue -> Created \cup {NoTask}]
  /\ recording \in [Device -> Seq(Created)]
  /\ execQ \in [Device -> Seq(Seq(Created))]
  /\ recorded \in [Device -> Nat]
  /\ completionQ \in [Device -> Seq(Seq(Created))]
  /\ stack \in Seq(Frames)
  /\ waiting \subseteq Created
  /\ setters \subseteq Created \X UserStatus
  /\ fault \in Faults

-----------------------------------------------------------------------------
(* Safety *)

(* The tasks t must come after, whatever bookkeeping the runtime does: its *)
(* wait list, every earlier barrier of its queue, and everything before it *)
(* when the queue is in-order or t waits for the whole queue.              *)
Predecessors(t) ==
  waitList[t] \cup {u \in 1 .. t - 1 :
                      /\ home[t] # NoQueue /\ home[u] = home[t]
                      /\ \/ home[t] \notin OutOfOrder
                         \/ t \in sweeping
                         \/ u \in barriers}

Started(t) == state[t] \in {Running, Complete}

(* The chain of last tasks (of last barriers, for a barrier u) that links  *)
(* t to the earlier u of its queue is broken once a task between them has  *)
(* failed: NotifyTaskCompletion clears m_LastQueuedTask, and what is       *)
(* enqueued next is linked to nothing.                                     *)
ChainBroken(u, t) ==
  /\ u \notin waitList[t] /\ t \notin sweeping
  /\ \E w \in u + 1 .. t - 1 :
       home[w] = home[t] /\ state[w] < Complete /\ (u \in barriers => w \in barriers)

(* A task is recorded only after each predecessor has been recorded before *)
(* it on the same device, or has finished when it belongs to another one:  *)
(* what AddDependencies, QueueTask's last-task and last-barrier pointers   *)
(* and the early release in Task::Ready have to achieve together.  The one *)
(* exception is an earlier task of the queue that a failure between them   *)
(* has unlinked.                                                           *)
StartsInOrder ==
  \A t \in Created : Started(t) =>
    \A u \in Predecessors(t) :
      \/ Finished(u)
      \/ DeviceOfTask(u) = DeviceOfTask(t) /\ state[u] = Running
      \/ ChainBroken(u, t)

(* A task reported as successful had a wait list of successful events: a   *)
(* failure reaches everything enqueued to wait for it.                     *)
SuccessNeedsSuccess ==
  \A t \in Created : state[t] = Complete =>
    \A u \in waitList[t] \cap Created : state[u] = Complete

(* Between lock acquisitions the two directions of a dependency agree, and *)
(* nothing waits for an event that can no longer release it: an entry of   *)
(* m_TasksToWaitOn is pruned as soon as it is satisfied.                   *)
NoOrphanedWait ==
  LockFree =>
    \A d \in Created : \A t \in waitOn[d] :
      /\ d \in waiters[t]
      /\ ~Finished(t)
      /\ DeviceOfTask(t) = DeviceOfTask(d) => state[t] \in {Queued, Submitted}

InPipeline(t, d) ==
  \/ t \in ToSet(recording[d])
  \/ \E i \in DOMAIN execQ[d] : t \in ToSet(execQ[d][i])
  \/ \E i \in DOMAIN completionQ[d] : t \in ToSet(completionQ[d][i])

(* Between lock acquisitions a task sits in exactly the container its      *)
(* state calls for: its queue while Queued; the queue's outstanding list   *)
(* from submission to its end; and its device's pipeline once Ready.  No   *)
(* loop is left with invalid iterators and no promise is set twice.        *)
TasksInTheirPlace ==
  /\ fault = "none"
  /\ LockFree => \A t \in Created : home[t] # NoQueue =>
       /\ state[t] = Queued <=> t \in ToSet(queued[home[t]])
       /\ state[t] \in {Submitted, Ready, Running} <=> t \in outstanding[home[t]]
       /\ state[t] \in {Ready, Running} => InPipeline(t, DeviceOfTask(t))
       /\ state[t] = Submitted => waitOn[t] # {}

(* The assertion in D3DDevice::SubmitTask: a dependency that is still      *)
(* Queued when its dependent is submitted sits in another queue, so the    *)
(* recursive flush never re-enters the queue for this task's sake.         *)
NoDependencyLaterInQueue ==
  Executing("SubmitTask") =>
    LET f == Head(stack) IN
    \A u \in f.todo : state[u] = Queued => home[u] # home[f.task]

(* The raw pointers m_LastQueuedTask and m_LastQueuedBarrier never outlive *)
(* the task: they are cleared before the queue drops its reference.        *)
LastPointersLive ==
  \A q \in Queue : \A t \in {lastTask[q], lastBarrier[q]} \ {NoTask} :
    t \in ToSet(queued[q]) \/ t \in outstanding[q]

(* When the lock is released no ready task is left in a device's recording *)
(* list, where only some later flush would pick it up.                     *)
ReadyWorkFlushed ==
  LockFree => \A d \in Device : recording[d] = <<>>

-----------------------------------------------------------------------------
(* The promise made to the application *)

\* clGetEventInfo's status of a task in state s.
Seen(s) ==
  CASE s = Queued -> "queued"
    [] s \in {Submitted, Ready} -> "submitted"
    [] s = Running -> "running"
    [] s = Complete -> "complete"
    [] OTHER -> "failed"

VisibleStatus(t) == IF t > created THEN "none" ELSE Seen(state[t])

Promise == INSTANCE ExecutionModel WITH
  status <- [t \in Task |-> VisibleStatus(t)],
  after <- [t \in Task |-> IF t > created THEN {} ELSE Predecessors(t)]

(* The pool implements the execution model: clGetEventInfo's mapping of    *)
(* Ready to CL_SUBMITTED hides nothing but stuttering steps.               *)
ImplementsExecutionModel == Promise!Spec

-----------------------------------------------------------------------------
(* Liveness *)

(* Every thread in clWaitForEvents comes back, unless the application      *)
(* leaves a user event unset.                                              *)
WaitsReturn ==
  \A t \in Task :
    t \in waiting ~> t \notin waiting \/ \E u \in UserEvents : ~Finished(u)

=============================================================================
