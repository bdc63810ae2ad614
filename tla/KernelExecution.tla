-------------------------- MODULE KernelExecution --------------------------
(***************************************************************************)
(* Execution of kernels (kernel_tasks.cpp) on top of Program: an enqueued  *)
(* kernel gets the specialisation for its configuration out of the         *)
(* PerDeviceData's cache; the first one to ask has it compiled on the      *)
(* compile scheduler, and every recording of it waits for the result.      *)
(*                                                                         *)
(* When a task may be recorded, and what becomes of it afterwards, is the  *)
(* subject of TaskPool; here any task may be at any time.                  *)
(***************************************************************************)
EXTENDS Program

CONSTANTS
  Tasks,    \* every ExecuteKernel that may exist
  Configs,  \* local sizes, offsets and argument configurations told apart
  UnbuiltDevices \* whether a kernel may be enqueued for a device that its
                 \* program has not been built for

ASSUME ExecutionAssumption ==
  /\ IsFiniteSet(Tasks)
  /\ IsFiniteSet(KernelObjects)
  /\ UnbuiltDevices \in BOOLEAN

VARIABLES
  tasks,    \* every ExecuteKernel
  cache,    \* m_SpecializationCache of all kernels: SpecializationValues by key
  ops       \* the queued specialisations, by key

execVars == <<tasks, cache, ops>>
vars == <<programVars, execVars>>

NoTask == [pc |-> "none", kernel |-> CHOOSE k \in KernelObjects : TRUE, key |-> <<>>]

ExecInit ==
  /\ Init
  /\ tasks = [t \in Tasks |-> NoTask]
  /\ cache = <<>>
  /\ ops = <<>>

-----------------------------------------------------------------------------
(* Enqueueing.                                                             *)

(* The SpecializationKey, and the PerDeviceData whose cache it is used in, *)
(* for a task with kernel k on device d.                                   *)
KeyOf(k, d, config) ==
  [data |-> buildData[kernels[k].prog][d], device |-> d, config |-> config]

(* Mutant: the task itself uses the kernel without a reference.            *)
NoReferences(create) == IF create THEN 1 ELSE 0

(* References a new task takes: its own, and that of the specialisation    *)
(* it has to queue.                                                        *)
References(create) == IF create THEN 2 ELSE 1

(* try_emplace: a key that is there keeps its value.                       *)
TryEmplace(map, key, value) ==
  [c \in DOMAIN map \cup {key} |-> IF c \in DOMAIN map THEN map[c] ELSE value]

(* What the specification asks of an application that enqueues a kernel of *)
(* program p on device d.                                                  *)
BuiltFor(p, d) ==
  buildData[p][d] # 0 /\ data[buildData[p][d]].status = "SUCCESS"

(* The constructor of ExecuteKernel, with Program::GetSpecializationData:  *)
(* the first to ask for a key queues its specialisation.  Nothing has      *)
(* checked that the program is built for the queue's device d.             *)
ClEnqueueNDRangeKernel(t, k, d, config) ==
  LET key    == KeyOf(k, d, config)
      create == key \notin DOMAIN cache
  IN /\ tasks[t].pc = "none" /\ kernels[k].pc = "live"
     /\ UnbuiltDevices \/ BuiltFor(kernels[k].prog, d)
     /\ IF key.data = 0 \/ data[key.data].kernel = "absent"
        THEN Fault("build_data_of_a_device") /\ UNCHANGED execVars
        ELSE /\ tasks' = [tasks EXCEPT ![t] = [pc |-> "queued", kernel |-> k, key |-> key]]
             /\ kernels' = [kernels EXCEPT ![k].refs = @ + References(create)]
             /\ cache' = TryEmplace(cache, key, "empty")
             /\ ops' = IF create THEN TryEmplace(ops, key, [pc |-> "queued", kernel |-> k]) ELSE ops
             /\ UNCHANGED <<kind, handle, buildData, data, jobs, numLiveKernels, fault>>

-----------------------------------------------------------------------------
(* The queued specialisation.                                              *)

(* GetSpirV: whether there is a binary to specialise.  A build that failed *)
(* leaves the kernels of the one before it and no binary.                  *)
GetSpirV(key) == data[buildData[kernels[ops[key].kernel].prog][key.device]].object

(* Mutant: a failed specialisation is not written down.                    *)
SpecializeForgetsError(key) ==
  /\ ops[key].pc = "queued" /\ GetSpirV(key)
  /\ \E result \in {"pso", "empty"} : cache' = [cache EXCEPT ![key] = result]
  /\ ops' = [ops EXCEPT ![key].pc = "notify"]
  /\ UNCHANGED <<programVars, tasks>>

(* The kernel compiled, or an exception caught: the value is written under *)
(* m_SpecializationUpdateLock.                                             *)
Specialize(key) ==
  /\ ops[key].pc = "queued" /\ GetSpirV(key)
  /\ \E result \in {"pso", "error"} : cache' = [cache EXCEPT ![key] = result]
  /\ ops' = [ops EXCEPT ![key].pc = "notify"]
  /\ UNCHANGED <<programVars, tasks>>

(* Without a binary, or with one the compiler makes no kernel of, a null   *)
(* object is used at once.                                                 *)
SpecializeNoKernel(key) ==
  /\ ops[key].pc = "queued"
  /\ Fault("specialised_kernel")
  /\ UNCHANGED execVars

(* The recordings that sleep on m_SpecializationEvent of a program.        *)
AsleepOn(p) == {t \in Tasks : tasks[t].pc = "asleep" /\ kernels[tasks[t].kernel].prog = p}

(* notify_all.                                                             *)
WakeAll(p) == AsleepOn(p)

(* SpecializationComplete, after the lock, and the end of the operation,   *)
(* which drops its reference to the kernel.                                *)
SpecializationComplete(key) ==
  LET woken == WakeAll(kernels[ops[key].kernel].prog) IN
  /\ ops[key].pc = "notify"
  /\ tasks' = [t \in Tasks |-> IF t \in woken THEN [tasks[t] EXCEPT !.pc = "ready"] ELSE tasks[t]]
  /\ ops' = [ops EXCEPT ![key].pc = "done"]
  /\ DropKernel(ops[key].kernel)
  /\ UNCHANGED <<kind, handle, buildData, data, jobs, fault, cache>>

-----------------------------------------------------------------------------
(* Recording and after.                                                    *)

(* One turn of the wait at the start of RecordImpl, under the update lock, *)
(* and what comes after it.                                                *)
RecordImpl(t) ==
  /\ tasks[t].pc \in {"queued", "ready"}
  /\ tasks' = [tasks EXCEPT ![t].pc =
       CASE cache[tasks[t].key] = "empty" -> "asleep"
         [] cache[tasks[t].key] = "error" -> "failed"
         [] cache[tasks[t].key] = "pso"   -> "recorded"]
  /\ UNCHANGED <<programVars, cache, ops>>

SpuriousWakeup(t) ==
  /\ tasks[t].pc = "asleep"
  /\ tasks' = [tasks EXCEPT ![t].pc = "ready"]
  /\ UNCHANGED <<programVars, cache, ops>>

(* The kernel is released by OnComplete when the task succeeds, and with   *)
(* the task itself, whenever that is, when it failed, which it may do      *)
(* before it is recorded.  A queued specialisation has a reference of its  *)
(* own: that it keeps the task as well makes no difference to the kernel.  *)
ReleaseTask(t) ==
  /\ tasks[t].pc \in {"queued", "recorded", "failed"}
  /\ tasks' = [tasks EXCEPT ![t].pc = "done"]
  /\ DropKernel(tasks[t].kernel)
  /\ UNCHANGED <<kind, handle, buildData, data, jobs, fault, cache, ops>>

(* The application's references beyond those of tasks and specialisations. *)
ApiReferences(k) ==
  kernels[k].refs
  - Cardinality({t \in Tasks : tasks[t].pc \notin {"none", "done"} /\ tasks[t].kernel = k})
  - Cardinality({key \in DOMAIN ops : ops[key].pc # "done" /\ ops[key].kernel = k})

ReleaseApiReference(k) ==
  /\ ApiReferences(k) > 0
  /\ ClReleaseKernel(k)
  /\ UNCHANGED execVars

-----------------------------------------------------------------------------
(* Specification.                                                          *)

CallExecution ==
  \/ \E t \in Tasks, k \in KernelObjects, d \in Devices, config \in Configs :
       ClEnqueueNDRangeKernel(t, k, d, config)
  \/ \E k \in KernelObjects : ReleaseApiReference(k)
  \/ \E t \in Tasks : ReleaseTask(t) \/ SpuriousWakeup(t)

ExecutionStep ==
  \/ \E key \in DOMAIN ops : Specialize(key) \/ SpecializeNoKernel(key) \/ SpecializationComplete(key)
  \/ \E t \in Tasks : RecordImpl(t)

ExecNext ==
  /\ NoFaultYet
  /\ \/ (ProgramCall \/ ProgramStep) /\ UNCHANGED execVars
     \/ CallExecution \/ ExecutionStep

ExecSpec == ExecInit /\ [][ExecNext]_vars

(* Beyond what Program assumes of its jobs, which only builds that end     *)
(* need: queued specialisations run until they end, and the execution      *)
(* thread of a device goes on recording.                                   *)
ExecFairness ==
  /\ \A key \in [data: 1 .. MaxData, device: Devices, config: Configs] :
       WF_vars(NoFaultYet /\ key \in DOMAIN ops /\ (Specialize(key) \/ SpecializationComplete(key)))
  /\ \A t \in Tasks : WF_vars(NoFaultYet /\ RecordImpl(t))

ExecFairSpec == ExecSpec /\ ExecFairness

-----------------------------------------------------------------------------
(* Properties.                                                             *)

(* The raw pointer m_Specialized of a task, and what a queued              *)
(* specialisation reads through GetSpirV, lie in what the program has for  *)
(* the device, and no build is changing that.                              *)
ExecutionsAlive ==
  LET Alive(k, key) ==
        /\ buildData[kernels[k].prog][key.device] = key.data
        /\ data[key.data].status # "IN_PROGRESS"
  IN /\ \A t \in Tasks : tasks[t].pc \in {"queued", "ready", "asleep"} =>
          Alive(tasks[t].kernel, tasks[t].key) /\ tasks[t].key \in DOMAIN cache
     /\ \A key \in DOMAIN ops : ops[key].pc \in {"queued", "notify"} => Alive(ops[key].kernel, key)

(* What kernels, tasks and queued specialisations refer to is there: no    *)
(* build has been let in between, although a task may outlive the          *)
(* application's last reference to its kernel.                             *)
ValuesAlive == KernelsIntact /\ ExecutionsAlive

(* A kernel that recording has begun for is recorded or fails: the wait    *)
(* for its specialisation ends.                                            *)
WaitsForSpecializationEnd ==
  \A t \in Tasks :
    tasks[t].pc \in {"ready", "asleep"} ~> (tasks[t].pc \in {"recorded", "failed"} \/ ~NoFaultYet)
=============================================================================
