----------------------------- MODULE Migration -----------------------------
(***************************************************************************)
(* Memory objects that commands on several adapters use                    *)
(* (resource_migrate.cpp, D3DDevice::ReadyTask, Task::Ready and Complete). *)
(* Each adapter has its own copy of an object; the runtime remembers which *)
(* is active.  A command that becomes ready on another adapter first has   *)
(* the contents copied there through a buffer both adapters see, by two    *)
(* tasks of the runtime's own that the command then waits for.             *)
(*                                                                         *)
(* The task pool lock is recursive and is held for the whole of a cascade: *)
(* readying a task can submit others, which become ready at once and ready *)
(* the first one again from within.  The cascade is one step here, written *)
(* as a recursion over the state S it changes.  The waiters of a task are  *)
(* visited in the order of their creation (in the code, of their address). *)
(*                                                                         *)
(* Commands are taken from the moment they are submitted; queues are       *)
(* TaskPool's.  The application keeps commands that conflict over an       *)
(* object in order, with a wait list, as OpenCL asks of it; commands that  *)
(* only read an object are not ordered.                                    *)
(***************************************************************************)
EXTENDS Integers, Sequences, FiniteSets, SequencesExt

CONSTANTS
  Devices,       \* adapters
  Objects,       \* buffers and images
  Parent,        \* the buffer an object lies in, or itself
  Lists,         \* the objects of a command, in the order of its arguments
  Preset,        \* objects created with the host's data
  MaxCommands,   \* bound: commands the application submits
  MaxTasks       \* bound: those, and the tasks of the runtime's own

ASSUME MigrationAssumption ==
  /\ Parent \in [Objects -> Objects] /\ \A o \in Objects : Parent[Parent[o]] = Parent[o]
  /\ Preset \subseteq {o \in Objects : Parent[o] = o}
  /\ {MaxCommands, MaxTasks} \subseteq Nat

VARIABLES
  tasks,         \* the tasks, in the order they were created
  ready,         \* of each adapter: its recording list and submissions
  active,        \* m_CurrentActiveDevice of each object, or none
  initial,       \* objects whose m_InitialData is still there
  content,       \* what the copies hold: the task that wrote it, or a mark
  latest         \* what the application's order says an object holds

vars == <<tasks, ready, active, initial, content, latest>>

Roots == {o \in Objects : Parent[o] = o}
NoDevice == "none"
Undefined == -1
HostData == 0

Commands == {t \in DOMAIN tasks : tasks[t].kind \in {"command", "migrate"}}
Done(t) == tasks[t].state = "Complete"

-----------------------------------------------------------------------------
NewTask(kind, device, objs) ==
  [kind |-> kind, device |-> device, objs |-> objs, writes |-> {}, undefined |-> FALSE,
   source |-> 0, waits |-> {}, state |-> "Created", read |-> <<>>, want |-> <<>>]

Create(S, task) == [S EXCEPT !.tasks = Append(@, task)]
Latest(S) == Len(S.tasks)

(* Task::AddDependencies                                                   *)
AddDependencies(S, t, deps) ==
  [S EXCEPT !.tasks[t].waits = @ \cup
     {u \in deps : \/ S.tasks[u].device # S.tasks[t].device
                   \/ S.tasks[u].state \in {"Created", "Submitted"}}]

SetActiveDevice(S, o, device) == [S EXCEPT !.active[o] = device]

RECURSIVE EnqueueMigrateResource(_, _, _, _), MigrateResources(_, _), ReadyTask(_, _)

(* Lets the waiters of t that W names go on.                               *)
Release(S, t, W) ==
  FoldLeft(LAMBDA R, u :
             IF t \notin R.tasks[u].waits THEN R
             ELSE LET Q == [R EXCEPT !.tasks[u].waits = @ \ {t}] IN
                  IF Q.tasks[u].waits = {} /\ Q.tasks[u].state = "Submitted"
                    THEN ReadyTask(Q, u) ELSE Q,
           S, SelectSeq([u \in DOMAIN S.tasks |-> u], LAMBDA u : u \in W))

(* Task::Ready: waiters on the same adapter follow in its order.           *)
Ready(S, t) ==
  Release([S EXCEPT !.tasks[t].state = "Ready"], t,
          {u \in DOMAIN S.tasks : S.tasks[u].device = S.tasks[t].device})

(* Mutant: only waiters of the same adapter are let go.                    *)
CompleteHere(S, t) ==
  Release([S EXCEPT !.tasks[t].state = "Complete"], t,
          {u \in DOMAIN S.tasks : S.tasks[u].device = S.tasks[t].device})

(* Task::Complete, for success.                                            *)
Complete(S, t) ==
  Release([S EXCEPT !.tasks[t].state = "Complete"], t, DOMAIN S.tasks)

(* Mutant: what migration did to the task is not looked at again.          *)
ReadyTaskAnyway(S, t) ==
  LET M == MigrateResources(S, t) IN
  Ready([M EXCEPT !.ready[M.tasks[t].device] = Append(@, t)], t)

(* D3DDevice::ReadyTask.  Migration may have made the task wait, or have   *)
(* readied it already.                                                     *)
ReadyTask(S, t) ==
  LET M == MigrateResources(S, t) IN
  IF M.tasks[t].waits # {} \/ M.tasks[t].state # "Submitted"
    THEN M
    ELSE Ready([M EXCEPT !.ready[M.tasks[t].device] = Append(@, t)], t)

(* D3DDevice::SubmitTask                                                   *)
SubmitTask(S, t) ==
  LET Q == [S EXCEPT !.tasks[t].state = "Submitted"] IN
  IF Q.tasks[t].waits = {} THEN ReadyTask(Q, t) ELSE Q

(* Mutant: the command does not wait for the copy.                         *)
CopyWithoutWaiting(S, o, t) ==
  LET new == S.tasks[t].device
      C1 == Create(S, NewTask("copyTo", S.active[o], <<o>>))
      to == Latest(C1)
      C2 == Create(C1, [NewTask("copyFrom", new, <<o>>) EXCEPT !.source = to])
      from == Latest(C2)
      S1 == SubmitTask(AddDependencies(C2, from, {to}), to)
  IN  SubmitTask(S1, from)

(* The copies between adapters.  The active device only changes when the   *)
(* second one becomes ready.                                               *)
CopyCrossAdapter(S, o, t) ==
  LET new == S.tasks[t].device
      C1 == Create(S, NewTask("copyTo", S.active[o], <<o>>))
      to == Latest(C1)
      C2 == Create(C1, [NewTask("copyFrom", new, <<o>>) EXCEPT !.source = to])
      from == Latest(C2)
      S1 == SubmitTask(AddDependencies(C2, from, {to}), to)
  IN  SubmitTask(AddDependencies(S1, t, {from}), from)

(* Resource::UploadInitialData                                             *)
UploadInitialData(S, o, t) ==
  IF o \notin S.initial THEN S
  ELSE LET C == Create(S, NewTask("upload", S.active[o], <<o>>))
           up == Latest(C)
       IN  SubmitTask(AddDependencies(C, t, {up}), up)

(* Mutant: the active device changes before the contents are there.        *)
SetActiveFirst(S, o, t, undefined) ==
  LET new == S.tasks[t].device IN
  IF S.active[o] = new THEN S
  ELSE IF undefined \/ S.active[o] = NoDevice
    THEN UploadInitialData(SetActiveDevice(S, o, new), o, t)
  ELSE SetActiveDevice(CopyCrossAdapter(S, o, t), o, new)

EnqueueMigrateResource(S, o, t, undefined) ==
  LET new == S.tasks[t].device IN
  IF Parent[o] # o
    THEN SetActiveDevice(EnqueueMigrateResource(S, Parent[o], t, undefined), o, new)
  ELSE IF S.active[o] = new THEN S
  ELSE IF undefined THEN SetActiveDevice(S, o, new)
  ELSE IF S.active[o] = NoDevice
    THEN UploadInitialData(SetActiveDevice(S, o, new), o, t)
  ELSE CopyCrossAdapter(S, o, t)

(* MigrateResources of the kinds of task; commands take their objects in   *)
(* turn, each in the state the one before left.                            *)
MigrateResources(S, t) ==
  CASE S.tasks[t].kind = "copyFrom" ->
         SetActiveDevice(S, S.tasks[t].objs[1], S.tasks[t].device)
    [] S.tasks[t].kind \in {"copyTo", "upload"} -> S
    [] OTHER ->
         FoldLeft(LAMBDA R, o : EnqueueMigrateResource(R, o, t, S.tasks[t].undefined),
                  S, S.tasks[t].objs)

-----------------------------------------------------------------------------
Now == [tasks |-> tasks, ready |-> ready, active |-> active, initial |-> initial]

Becomes(S) ==
  /\ Len(S.tasks) <= MaxTasks
  /\ tasks' = S.tasks /\ ready' = S.ready /\ active' = S.active /\ initial' = S.initial

Uses(t, r) == \E k \in DOMAIN tasks[t].objs : Parent[tasks[t].objs[k]] = r
Writes(t, r) == \E o \in tasks[t].writes : Parent[o] = r

(* The unfinished commands that a new one has to wait for.                 *)
Conflicting(objs, writes) ==
  {t \in Commands : ~Done(t) /\
     \E r \in Roots : \/ Writes(t, r) /\ \E k \in DOMAIN objs : Parent[objs[k]] = r
                      \/ Uses(t, r) /\ \E o \in writes : Parent[o] = r}

(* A command that is submitted: a kernel or a copy that reads its objects  *)
(* and may write the last, or clEnqueueMigrateMemObjects, which writes    *)
(* when it gives up their contents.                                        *)
Submit(kind, device, objs, writes, undefined) ==
  /\ Cardinality(Commands) < MaxCommands
  /\ LET n == Len(tasks) + 1
         C == Create(Now,
                [NewTask(kind, device, objs) EXCEPT
                   !.writes = writes, !.undefined = undefined,
                   !.want = [k \in DOMAIN objs |-> latest[Parent[objs[k]]]]])
     IN  /\ Becomes(SubmitTask(AddDependencies(C, n, Conflicting(objs, writes)), n))
         /\ latest' = [r \in Roots |->
              IF \E o \in writes : Parent[o] = r
                THEN IF undefined THEN Undefined ELSE n
                ELSE latest[r]]
  /\ UNCHANGED content

EnqueueCommand ==
  \E device \in Devices, objs \in Lists : \E writes \in {{}, {objs[Len(objs)]}} :
    Submit("command", device, objs, writes, FALSE)

clEnqueueMigrateMemObjects ==
  \E device \in Devices, o \in Roots, undefined \in BOOLEAN :
    Submit("migrate", device, <<o>>, IF undefined THEN {o} ELSE {}, undefined)

(* The contents an executing task leaves: a command uses the copy of its   *)
(* own adapter, an upload the active one.                                  *)
Effect(t) ==
  LET task == tasks[t] IN
  CASE task.kind = "copyFrom" ->
         [content EXCEPT ![task.objs[1]][task.device] = tasks[task.source].read[1]]
    [] task.kind = "upload" /\ task.objs[1] \in initial ->
         [content EXCEPT ![task.objs[1]][active[task.objs[1]]] = HostData]
    [] task.kind = "command" ->
         [r \in Roots |-> IF Writes(t, r) THEN [content[r] EXCEPT ![task.device] = t]
                          ELSE content[r]]
    [] OTHER -> content

(* The next task of an adapter is recorded, executed and completed.        *)
Run(device) ==
  /\ ready[device] # <<>>
  /\ LET t == Head(ready[device])
         task == tasks[t]
     IN  /\ content' = Effect(t)
         /\ Becomes(Complete(
              [Now EXCEPT
                 !.ready[device] = Tail(@),
                 !.initial = IF task.kind = "upload" THEN @ \ {task.objs[1]} ELSE @,
                 !.tasks[t].read = [k \in DOMAIN task.objs |->
                                      content[Parent[task.objs[k]]][device]]], t))
  /\ UNCHANGED latest

Init ==
  /\ tasks = <<>> /\ ready = [d \in Devices |-> <<>>]
  /\ active = [o \in Objects |-> NoDevice]
  /\ initial = Preset
  /\ content = [r \in Roots |-> [d \in Devices |-> Undefined]]
  /\ latest = [r \in Roots |-> IF r \in Preset THEN HostData ELSE Undefined]

Next == EnqueueCommand \/ clEnqueueMigrateMemObjects \/ \E d \in Devices : Run(d)

(* The adapters go on with what they were given (their scheduler threads): *)
(* weak fairness of Run, of which it is plain when it is enabled.          *)
Fairness == \A d \in Devices : []<>(ready[d] = <<>>) \/ []<><<Run(d)>>_vars

Spec == Init /\ [][Next]_vars /\ Fairness

-----------------------------------------------------------------------------
(* A command finds in each of its objects what the last command before it  *)
(* in the application's order wrote, on whichever adapter, or the host's   *)
(* data; unless the application gave the contents up.                      *)
SeesOrderedWrites ==
  \A t \in Commands : Done(t) /\ tasks[t].kind = "command" =>
    \A k \in DOMAIN tasks[t].objs :
      tasks[t].want[k] = Undefined \/ tasks[t].read[k] = tasks[t].want[k]

(* When nothing is under way, the active copy of an object is the one that *)
(* was written last, so the next command may start from it.                *)
ActiveCopyIsLatest ==
  (\A t \in DOMAIN tasks : Done(t)) =>
    \A r \in Roots : active[r] # NoDevice =>
      latest[r] = Undefined \/ content[r][active[r]] = latest[r]

(* A command that was submitted completes: the copies it waits for are     *)
(* never waiting for it, and readying a task from within its own           *)
(* readying neither loses it nor runs it twice.                            *)
MigrationsEnd == []<>(\A t \in DOMAIN tasks : Done(t))

(* A task is handed to its adapter once.                                   *)
ReadyOnce ==
  \A d \in Devices : IsInjective(ready[d])
    /\ \A t \in ToSet(ready[d]) : tasks[t].device = d /\ tasks[t].state = "Ready"
=============================================================================
