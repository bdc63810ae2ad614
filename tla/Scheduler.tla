------------------------------ MODULE Scheduler ------------------------------
(***************************************************************************)
(* BackgroundTaskScheduler::Scheduler (scheduler.hpp, scheduler.cpp): a    *)
(* queue of tasks and a pool of worker threads whose number changes while  *)
(* it runs, and the two ways the runtime owns one.  A D3DDevice starts one *)
(* thread in its constructor and destroys the scheduler in its destructor  *)
(* (device.cpp); the platform switches its callback and compile schedulers *)
(* on for the first device and off after the last one, as often as that    *)
(* happens (platform.cpp).                                                 *)
(*                                                                         *)
(* One action is one critical section of m_Lock.  The notification after a *)
(* critical section is sent with it: one that is late finds every thread   *)
(* it could wake either awake, and then looking at the queue, or asleep.   *)
(***************************************************************************)
EXTENDS Integers, Sequences, FiniteSets, SequencesExt

CONSTANTS
  Work,         \* the tasks that can be queued, each once
  Nothing,      \* no task
  Owners,       \* who may own the scheduler: "device", "platform"
  NumThreads,   \* threads the platform asks for (hardware_concurrency)
  MaxSwitches,  \* bound: how often the platform changes the mode
  MaxWorkers    \* bound: threads that exist at the same time

ASSUME SchedulerAssumption ==
  /\ Nothing \notin Work
  /\ Owners \subseteq {"device", "platform"}
  /\ NumThreads \in Nat \ {0}
  /\ MaxSwitches \in Nat
  /\ MaxWorkers \in Nat \ {0}

Worker == 1 .. MaxWorkers
Owner  == 0       \* the thread that calls the owner's methods

(* A QueuedTask is a piece of work or a change of mode.  All modes the     *)
(* runtime asks for have normal priority: a mode is a number of threads.   *)
WorkItem(x) == [work |-> x, mode |-> 0]
ModeItem(n) == [work |-> Nothing, mode |-> n]
NoItem      == ModeItem(0)

VARIABLES
  owner,         \* who owns it
  switches,      \* changes of mode the platform has asked for
  tasks,         \* m_Tasks
  tasksInProgress, \* m_TasksInProgress
  threads,       \* m_Threads
  exitingThreads,  \* m_ExitingThreads
  currentMode,   \* m_CurrentMode
  effectiveMode, \* m_EffectiveMode
  phase,         \* how far Shutdown has come; m_bShutdown once it is called
  tasksToCancel, \* TasksToCancel
  pc,            \* where each worker is in TaskThread
  threadId,      \* its ThreadID
  item,          \* the task it has taken
  joins,         \* ThreadsToWaitOn, by the thread that is joining them
  accepted,      \* history: work in the order it was queued
  started,       \* history: work in the order it was taken
  finished,      \* history: work whose callback has returned
  cancelled,     \* history: work whose m_Cancel was called
  fault          \* whether undefined behaviour has been reached

ownerVars  == <<owner, switches>>
queueVars  == <<tasks, tasksInProgress>>
poolVars   == <<threads, exitingThreads, effectiveMode, threadId, joins>>
shutVars   == <<phase, tasksToCancel>>
history    == <<accepted, started, finished, cancelled>>
vars == <<ownerVars, queueVars, poolVars, currentMode, shutVars, pc, item,
          history, fault>>

-----------------------------------------------------------------------------
(* The pieces of work in a task, and in a queue of tasks.                  *)
WorkIn(i) == IF i.work = Nothing THEN <<>> ELSE <<i.work>>
WorkOf(s) ==
  LET f[i \in 0 .. Len(s)] == IF i = 0 THEN <<>> ELSE f[i - 1] \o WorkIn(s[i])
  IN  f[Len(s)]

IsSchedulerIdle == tasks = <<>> /\ tasksInProgress = 0
Exited(S) == \A w \in S : pc[w] = "exited"
Referenced == ToSet(threads) \cup exitingThreads \cup UNION {joins[c] : c \in DOMAIN joins}
Free == {w \in Worker : pc[w] = "exited" /\ w \notin Referenced}

Asleep == {w \in Worker : pc[w] = "asleep"}

(* Mutant: no thread is notified.                                          *)
NotifyNobody == UNCHANGED pc

(* m_CV.notify_one                                                         *)
NotifyOne ==
  IF Asleep = {} THEN UNCHANGED pc
  ELSE \E w \in Asleep : pc' = [pc EXCEPT ![w] = "awake"]

(* Mutant: threads that are told to leave are not notified.                *)
NotifyNotToLeave(leaving) == {}

(* m_CV.notify_all, when there are threads to wait for.                    *)
NotifyToLeave(leaving) == IF leaving = {} THEN {} ELSE Asleep

Init ==
  /\ owner \in Owners
  /\ switches = 0
  /\ tasks = <<>> /\ tasksInProgress = 0
  /\ threads = <<>> /\ exitingThreads = {}
  /\ currentMode = 0 /\ effectiveMode = 0
  /\ phase = "running" /\ tasksToCancel = <<>>
  /\ pc = [w \in Worker |-> "exited"]
  /\ threadId = [w \in Worker |-> 0]
  /\ item = [w \in Worker |-> NoItem]
  /\ joins = [c \in Worker \cup {Owner} |-> {}]
  /\ accepted = <<>> /\ started = <<>> /\ finished = {} /\ cancelled = {}
  /\ fault = FALSE

-----------------------------------------------------------------------------
(* SetSchedulingModeImpl called by thread self.  Threads beyond the new    *)
(* number leave m_Threads: self for m_ExitingThreads, the others to be     *)
(* joined after a notify_all.                                              *)
SetSchedulingModeImpl(mode, self, selfPc) ==
  LET old     == Len(threads)
      fresh   == SetToSeq(Free)
      born    == [i \in 1 .. mode - old |-> fresh[i]]
      surplus == {threads[i] : i \in mode + 1 .. old}
      toJoin  == surplus \ {self}
  IN  /\ mode - old <= Len(fresh)
      /\ effectiveMode' = mode
      /\ threads' = SubSeq(threads, 1, IF mode < old THEN mode ELSE old) \o born
      /\ exitingThreads' = exitingThreads \cup (surplus \cap {self})
      /\ joins' = [joins EXCEPT ![self] = toJoin]
      /\ threadId' = [w \in Worker |->
                        IF w \in ToSet(born)
                          THEN old + (CHOOSE i \in DOMAIN born : born[i] = w) - 1
                          ELSE threadId[w]]
      /\ pc' = [w \in Worker |->
                  CASE w = self -> selfPc
                    [] w \in ToSet(born) \cup NotifyToLeave(toJoin) -> "awake"
                    [] OTHER -> pc[w]]

-----------------------------------------------------------------------------
(* Calls *)

(* QueueTask: when there are going to be no threads the task is cancelled. *)
QueueTask(x) ==
  /\ ~fault /\ phase # "done" /\ switches > 0
  /\ x \notin ToSet(accepted) \cup cancelled
  /\ IF currentMode = 0 \/ phase # "running"
       THEN /\ cancelled' = cancelled \cup {x}
            /\ UNCHANGED <<tasks, accepted, pc>>
       ELSE /\ tasks' = Append(tasks, WorkItem(x))
            /\ accepted' = Append(accepted, x)
            /\ NotifyOne
            /\ UNCHANGED cancelled
  /\ UNCHANGED <<ownerVars, tasksInProgress, poolVars, currentMode, shutVars,
                 item, started, finished, fault>>

(* The next mode the owner asks for: the device's only one, or for the     *)
(* platform on and off in turn.                                            *)
NextMode ==
  IF owner = "device" THEN 1
  ELSE IF switches % 2 = 0 THEN NumThreads ELSE 0

OwnerCalls ==
  /\ ~fault /\ phase = "running" /\ Exited(joins[Owner])
  /\ switches < IF owner = "device" THEN 1 ELSE MaxSwitches
  /\ switches' = switches + 1
  /\ UNCHANGED owner

(* SetSchedulingMode: more threads, or an idle scheduler.                  *)
Immediate(mode) ==
  currentMode = effectiveMode /\ (mode > effectiveMode \/ IsSchedulerIdle)

SetSchedulingModeNow ==
  /\ OwnerCalls
  /\ NextMode # currentMode /\ Immediate(NextMode)
  /\ currentMode' = NextMode
  /\ SetSchedulingModeImpl(NextMode, Owner, "awake")
  /\ UNCHANGED <<queueVars, shutVars, item, history, fault>>

(* ... otherwise the change is queued, in place of a pending change to no  *)
(* threads, which is taken to be the last task in the queue.               *)
SetSchedulingModeLater ==
  /\ OwnerCalls
  /\ NextMode # currentMode /\ ~Immediate(NextMode)
  /\ LET kept == IF currentMode = 0 THEN Front(tasks) ELSE tasks IN
     IF currentMode = 0 /\ tasks = <<>>
       THEN /\ fault' = TRUE
            /\ UNCHANGED <<tasks, currentMode, pc>>
       ELSE /\ tasks' = Append(kept, ModeItem(NextMode))
            /\ currentMode' = NextMode
            /\ NotifyOne
            /\ UNCHANGED fault
  /\ UNCHANGED <<tasksInProgress, poolVars, shutVars, item, history>>

-----------------------------------------------------------------------------
(* Shutdown, and CancelExistingTasks, which nothing else calls *)

(* m_bShutdown is set.                                                     *)
Shutdown ==
  /\ ~fault /\ phase = "running" /\ Exited(joins[Owner])
  /\ owner = "device" => switches = 1
  /\ phase' = "flagged"
  /\ UNCHANGED <<ownerVars, queueVars, poolVars, currentMode, tasksToCancel,
                 pc, item, history, fault>>

(* Mutant: the queue is copied, not swapped.                                *)
CancelCopyOfTasks ==
  /\ ~fault /\ phase = "flagged"
  /\ phase' = "cancelling"
  /\ tasksToCancel' = tasks
  /\ UNCHANGED <<ownerVars, queueVars, poolVars, currentMode, pc, item,
                 history, fault>>

(* The queue is swapped for an empty one.                                  *)
CancelExistingTasks ==
  /\ ~fault /\ phase = "flagged"
  /\ phase' = "cancelling"
  /\ tasksToCancel' = tasks
  /\ tasks' = <<>>
  /\ UNCHANGED <<ownerVars, tasksInProgress, poolVars, currentMode, pc, item,
                 history, fault>>

(* Its tasks are cancelled; the m_Cancel of a change to no threads makes   *)
(* that change, any other change is dropped.                               *)
CancelTask ==
  /\ ~fault /\ phase = "cancelling" /\ Exited(joins[Owner])
  /\ tasksToCancel # <<>>
  /\ tasksToCancel' = Tail(tasksToCancel)
  /\ LET i == Head(tasksToCancel) IN
     /\ cancelled' = cancelled \cup ({i.work} \ {Nothing})
     /\ IF i = ModeItem(0)
          THEN SetSchedulingModeImpl(0, Owner, "awake")
          ELSE UNCHANGED <<poolVars, pc>>
  /\ UNCHANGED <<ownerVars, queueVars, currentMode, phase, item, accepted,
                 started, finished, fault>>

(* All threads are told to leave and joined ...                            *)
StopThreads ==
  /\ ~fault /\ phase = "cancelling" /\ Exited(joins[Owner])
  /\ tasksToCancel = <<>>
  /\ phase' = "stopping"
  /\ currentMode' = 0
  /\ SetSchedulingModeImpl(0, Owner, "awake")
  /\ UNCHANGED <<ownerVars, queueVars, tasksToCancel, item, history, fault>>

(* ... and then those that left on their own.                              *)
JoinExitingThreads ==
  /\ ~fault /\ phase = "stopping" /\ Exited(joins[Owner] \cup exitingThreads)
  /\ phase' = "done"
  /\ UNCHANGED <<ownerVars, queueVars, poolVars, currentMode, tasksToCancel,
                 pc, item, history, fault>>

-----------------------------------------------------------------------------
(* TaskThread *)

(* The turns of a worker's loop, with n tasks in progress: it leaves ...   *)
Leave(w, n) ==
  /\ threadId[w] >= effectiveMode
  /\ pc' = [pc EXCEPT ![w] = "exited"]
  /\ item' = [item EXCEPT ![w] = NoItem]
  /\ tasksInProgress' = n
  /\ UNCHANGED <<tasks, started>>

(* Mutant: the newest task is taken.                                       *)
TakeNewest(w, n) ==
  /\ threadId[w] < effectiveMode /\ tasks # <<>>
  /\ pc' = [pc EXCEPT ![w] = "working"]
  /\ item' = [item EXCEPT ![w] = Last(tasks)]
  /\ started' = started \o WorkOf(<<Last(tasks)>>)
  /\ tasks' = Front(tasks)
  /\ tasksInProgress' = n + 1

(* ... takes the oldest task ...                                           *)
Take(w, n) ==
  /\ threadId[w] < effectiveMode /\ tasks # <<>>
  /\ pc' = [pc EXCEPT ![w] = "working"]
  /\ item' = [item EXCEPT ![w] = Head(tasks)]
  /\ started' = started \o WorkOf(<<Head(tasks)>>)
  /\ tasks' = Tail(tasks)
  /\ tasksInProgress' = n + 1

(* ... or waits for a notification.                                        *)
Sleep(w, n) ==
  /\ threadId[w] < effectiveMode /\ tasks = <<>>
  /\ pc' = [pc EXCEPT ![w] = "asleep"]
  /\ item' = [item EXCEPT ![w] = NoItem]
  /\ tasksInProgress' = n
  /\ UNCHANGED <<tasks, started>>

NextTask(w, n) == Leave(w, n) \/ Take(w, n) \/ Sleep(w, n)

(* A thread that has started, or been woken.                               *)
TakeTask(w) ==
  /\ ~fault /\ pc[w] = "awake"
  /\ NextTask(w, tasksInProgress)
  /\ UNCHANGED <<ownerVars, poolVars, currentMode, shutVars, accepted, finished,
                 cancelled, fault>>

(* SetSchedulingModeTask                                                   *)
SetSchedulingModeTask(w) ==
  /\ ~fault /\ pc[w] = "working" /\ item[w].work = Nothing
  /\ SetSchedulingModeImpl(item[w].mode, w, "joining")
  /\ UNCHANGED <<ownerVars, queueVars, currentMode, shutVars, item, history,
                 fault>>

(* The callback has returned: RetireTask, which only concerns events the   *)
(* runtime never asks for, and the next turn of the loop.                  *)
FinishTask(w) ==
  /\ ~fault
  /\ \/ pc[w] = "working" /\ item[w].work # Nothing
     \/ pc[w] = "joining" /\ Exited(joins[w])
  /\ finished' = finished \cup ({item[w].work} \ {Nothing})
  /\ joins' = [joins EXCEPT ![w] = {}]
  /\ NextTask(w, tasksInProgress - 1)
  /\ UNCHANGED <<ownerVars, threads, exitingThreads, effectiveMode, threadId,
                 currentMode, shutVars, accepted, cancelled, fault>>

(* m_CV.wait may return without a notification.                            *)
SpuriousWakeup(w) ==
  /\ ~fault /\ pc[w] = "asleep"
  /\ pc' = [pc EXCEPT ![w] = "awake"]
  /\ UNCHANGED <<ownerVars, queueVars, poolVars, currentMode, shutVars, item,
                 history, fault>>

TaskThread(w) == TakeTask(w) \/ SetSchedulingModeTask(w) \/ FinishTask(w)

ShutdownSteps ==
  CancelExistingTasks \/ CancelTask \/ StopThreads \/ JoinExitingThreads

Next ==
  \/ \E x \in Work : QueueTask(x)
  \/ SetSchedulingModeNow \/ SetSchedulingModeLater
  \/ Shutdown \/ ShutdownSteps
  \/ \E w \in Worker : TaskThread(w) \/ SpuriousWakeup(w)

(* Callbacks return, and the operating system runs every thread.           *)
Fairness ==
  /\ WF_vars(ShutdownSteps)
  /\ \A w \in Worker : WF_vars(TaskThread(w))

Spec == Init /\ [][Next]_vars
FairSpec == Spec /\ Fairness

-----------------------------------------------------------------------------

RunningWork == {item[w].work : w \in Worker} \ {Nothing}

(* No piece of work is lost, run twice, or both run and cancelled, however *)
(* the pool changes size or is shut down: work is taken in the order it    *)
(* was accepted, what is queued is the newest, and what lies between has   *)
(* been cancelled.                                                         *)
EachWorkOnce ==
  LET left == WorkOf(tasksToCancel \o tasks) IN
  /\ IsPrefix(started, accepted)
  /\ IsSuffix(left, accepted)
  /\ cancelled \cap ToSet(accepted) =
       {accepted[i] : i \in Len(started) + 1 .. Len(accepted) - Len(left)}
  /\ ToSet(started) = RunningWork \cup finished
  /\ RunningWork \cap finished = {}

Serial == INSTANCE SerialExecutor WITH
  waiting <- WorkOf(tasksToCancel \o tasks),
  current <- IF RunningWork = {} THEN Nothing ELSE CHOOSE x \in RunningWork : TRUE,
  done <- finished,
  dropped <- cancelled

(* A device's scheduler is a serial executor; the platform's are not.      *)
DeviceSchedulerIsSerial ==
  Serial!Init /\ [][owner = "device" => Serial!Next]_Serial!vars

(* Every accepted task runs or is cancelled, provided the owner's changes  *)
(* of mode do not run into undefined behaviour.                            *)
AcceptedWorkSettles ==
  \A x \in Work : x \in ToSet(accepted) ~> x \in finished \cup cancelled \/ fault

(* The destructor of a device's scheduler returns.                         *)
DeviceShutdownReturns ==
  owner = "device" /\ phase = "flagged" ~> phase = "done"
=============================================================================
