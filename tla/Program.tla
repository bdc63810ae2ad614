------------------------------ MODULE Program ------------------------------
(***************************************************************************)
(* Programs of the runtime (program.hpp, program.cpp): what each program   *)
(* has built for each device, the builds, compilations and links under way *)
(* on application threads or on the platform's compile scheduler, and the  *)
(* kernels created from programs (kernel.cpp).                             *)
(*                                                                         *)
(* One action is one critical section of some program's m_Lock, or one     *)
(* stretch of work of a job between two of them.  A job runs on the thread *)
(* that called the API or on a thread of the compile scheduler, which has  *)
(* several: either way the jobs' steps interleave freely.  A call that the *)
(* code refuses changes nothing and is not an action.                      *)
(***************************************************************************)
EXTENDS Integers, Sequences, FiniteSets, SequencesExt

CONSTANTS
  Programs,          \* every program that may exist
  AssociatedDevices, \* m_AssociatedDevices: the devices of the context, in order
  Kinds,             \* how the programs of an instance may be made
  BinaryTypes,       \* bound: what the binaries given to clCreateProgramWithBinary are
  KernelObjects,     \* every cl_kernel that may exist
  HasCache,          \* whether the devices have a shader cache
  EarlyBuilds,       \* whether a build may be asked for while another thread is
                     \* inside clCreateKernel for the program, or before the
                     \* link that makes the program has called back
  MaxInputs,         \* bound: programs in one clLinkProgram
  MaxJobs            \* bound: builds, compilations and links in a behaviour

Devices == ToSet(AssociatedDevices)

ASSUME ProgramAssumption ==
  /\ IsFiniteSet(Programs)
  /\ AssociatedDevices \in Seq(Devices) \ {<<>>} /\ IsInjective(AssociatedDevices)
  /\ Kinds \subseteq [Programs -> {"source", "il", "binary", "linked"}]
  /\ BinaryTypes \subseteq {"COMPILED_OBJECT", "LIBRARY", "EXECUTABLE"}
  /\ HasCache \in BOOLEAN
  /\ EarlyBuilds \in BOOLEAN
  /\ MaxInputs \in Nat
  /\ MaxJobs \in Nat

(* No more PerDeviceData than this can be made.                            *)
MaxData == Len(AssociatedDevices) * (MaxJobs + Cardinality(Programs))

VARIABLES
  kind,       \* how each program was made: with m_Source, with m_ParsedIL,
              \* from binaries, or by clLinkProgram
  handle,     \* whether the application has it: "none" yet, "open" or "gone"
  buildData,  \* m_BuildData: per program and device an index into data, or 0
  data,       \* every PerDeviceData, in the order they were made
  jobs,       \* every accepted Build, Compile and Link
  kernels,    \* every cl_kernel
  numLiveKernels, \* m_NumLiveKernels
  fault       \* the null object that was dereferenced, or "none"

programVars == <<kind, handle, buildData, data, jobs, kernels, numLiveKernels, fault>>

(* A PerDeviceData as a build finds it: status in progress, nothing built. *)
(* kernel is the entry of m_Kernels for the one name that matters.         *)
PerDeviceData ==
  [status |-> "IN_PROGRESS", type |-> "NONE", object |-> FALSE,
   kernel |-> "absent", pendingLinks |-> 0]

(* A PerDeviceData as StoreBinary leaves it.                               *)
StoredBinary(type) == [PerDeviceData EXCEPT !.status = "NONE", !.type = type, !.object = TRUE]

AnyProgram == CHOOSE p \in Programs : TRUE
NoKernel == [pc |-> "none", prog |-> AnyProgram, data |-> 0, refs |-> 0]

Position(d) == CHOOSE i \in DOMAIN AssociatedDevices : AssociatedDevices[i] = d

(* The programs made from binaries get theirs when they are created.       *)
Init ==
  /\ kind \in Kinds
  /\ handle = [p \in Programs |-> IF kind[p] = "linked" THEN "none" ELSE "open"]
  /\ LET binaries == SetToSeq({p \in Programs : kind[p] = "binary"})
         n        == Len(AssociatedDevices)
     IN  /\ \E types \in [1 .. n * Len(binaries) -> BinaryTypes] :
              data = [x \in DOMAIN types |-> StoredBinary(types[x])]
         /\ buildData = [p \in Programs |-> [d \in Devices |->
              IF kind[p] = "binary"
              THEN n * ((CHOOSE b \in DOMAIN binaries : binaries[b] = p) - 1) + Position(d)
              ELSE 0]]
  /\ jobs = <<>>
  /\ kernels = [k \in KernelObjects |-> NoKernel]
  /\ numLiveKernels = [p \in Programs |-> 0]
  /\ fault = "none"

-----------------------------------------------------------------------------
(* Starting a build.                                                       *)

DataOf(p, D) == {buildData[p][d] : d \in D} \ {0}

(* A job that runs on program p for the devices D and, unless it builds    *)
(* for each device apart, fills the PerDeviceData x.                       *)
Job(op, p, D, x, pc) ==
  [op |-> op, prog |-> p, devices |-> D, data |-> x, pc |-> pc, inputs |-> <<>>,
   pos |-> 0, valid |-> 0, async |-> FALSE, library |-> FALSE,
   same |-> TRUE, nullObject |-> FALSE]

(* Mutants: one of the tests of Rebuildable is missing.                    *)
RebuildableInProgress(p, D) ==
  numLiveKernels[p] = 0 /\ \A x \in DataOf(p, D) : data[x].pendingLinks = 0
RebuildableLinkedAgainst(p, D) ==
  numLiveKernels[p] = 0 /\ \A x \in DataOf(p, D) : data[x].status # "IN_PROGRESS"

(* What Build and Compile check under m_Lock.                              *)
Rebuildable(p, D) ==
  /\ numLiveKernels[p] = 0
  /\ \A x \in DataOf(p, D) : data[x].status # "IN_PROGRESS" /\ data[x].pendingLinks = 0

(* Whether a call for p that has looked at its build data is under way.    *)
Busy(p) ==
  \/ \E k \in KernelObjects : kernels[k].pc = "creating" /\ kernels[k].prog = p
  \/ \E j \in DOMAIN jobs : jobs[j].op = "link" /\ jobs[j].prog = p /\ jobs[j].pc # "done"

MayStart(p, D) ==
  /\ handle[p] = "open"
  /\ D # {}
  /\ Len(jobs) < MaxJobs
  /\ EarlyBuilds \/ ~Busy(p)
  /\ Rebuildable(p, D)

(* A new PerDeviceData, shared by the devices D of the call, replaces      *)
(* theirs; the old ones live on while another device or a job has them.    *)
StartWithNewData(op, p, D) ==
  /\ data' = Append(data, PerDeviceData)
  /\ buildData' = [buildData EXCEPT ![p] =
       [d \in Devices |-> IF d \in D THEN Len(data) + 1 ELSE @[d]]]
  /\ jobs' = Append(jobs, Job(op, p, D, Len(data) + 1, "object"))

(* Neither compiled objects nor libraries can be built.                    *)
Buildable(p, D) ==
  \A x \in DataOf(p, D) : data[x].type \notin {"COMPILED_OBJECT", "LIBRARY"}

Build(p, D) ==
  /\ kind[p] \in {"source", "il"}
  /\ MayStart(p, D) /\ Buildable(p, D)
  /\ StartWithNewData("build", p, D)
  /\ UNCHANGED <<kind, handle, kernels, numLiveKernels, fault>>

(* Build of a program without source or IL: what it has is linked again,   *)
(* in place.                                                               *)
BuildBinary(p, D) ==
  /\ kind[p] \in {"binary", "linked"}
  /\ MayStart(p, D) /\ Buildable(p, D)
  /\ \A d \in D : buildData[p][d] # 0
  /\ data' = [x \in DOMAIN data |->
       IF x \in DataOf(p, D) THEN [data[x] EXCEPT !.status = "IN_PROGRESS"] ELSE data[x]]
  /\ jobs' = Append(jobs, Job("relink", p, D, 0, "relink"))
  /\ UNCHANGED <<kind, handle, buildData, kernels, numLiveKernels, fault>>

Compile(p, D) ==
  /\ kind[p] \in {"source", "il"}
  /\ MayStart(p, D)
  /\ StartWithNewData("compile", p, D)
  /\ UNCHANGED <<kind, handle, kernels, numLiveKernels, fault>>

-----------------------------------------------------------------------------
(* BuildImpl and CompileImpl.                                              *)

At(j, pc) == j \in DOMAIN jobs /\ jobs[j].pc = pc
Goto(j, pc) == jobs' = [jobs EXCEPT ![j].pc = pc]
FinishedJob == Job("build", AnyProgram, {}, 0, "done")
Finish(j) == jobs' = [jobs EXCEPT ![j] = FinishedJob]
Fault(what) == fault' = what /\ UNCHANGED <<kind, handle, buildData, data, jobs, kernels, numLiveKernels>>

(* Compiling or specialising.  The result is used without a test: to store *)
(* a compiled source in the cache, there or not, and to hash specialised   *)
(* IL for a cache.                                                         *)
ProduceObject(j) ==
  /\ At(j, "object")
  /\ Goto(j, IF jobs[j].op = "build" THEN "link" ELSE "finish")
  /\ UNCHANGED <<kind, handle, buildData, data, kernels, numLiveKernels, fault>>

ProduceNoObject(j) ==
  /\ At(j, "object")
  /\ IF kind[jobs[j].prog] = "source" \/ HasCache
     THEN Fault("compiled_object")
     ELSE /\ Goto(j, "failed")
          /\ UNCHANGED <<kind, handle, buildData, data, kernels, numLiveKernels, fault>>

(* The link of a build: m_OwnedBinary is written without the lock.         *)
LinkObject(j) ==
  /\ At(j, "link")
  /\ \/ /\ data' = [data EXCEPT ![jobs[j].data].object = TRUE]
        /\ Goto(j, "finish")
     \/ Goto(j, "failed") /\ UNCHANGED data
  /\ UNCHANGED <<kind, handle, buildData, kernels, numLiveKernels, fault>>

(* A PerDeviceData with an executable in it.  CreateKernels makes the      *)
(* generic version of each kernel; kernel says how that went.              *)
Executable(x, kernel) ==
  [x EXCEPT !.object = TRUE, !.type = "EXECUTABLE", !.status = "SUCCESS", !.kernel = kernel]

(* Mutant: a failure leaves the status alone.                              *)
FailedSilently(x) == x

(* A PerDeviceData whose build has failed.                                 *)
Failed(x) == [x EXCEPT !.status = "ERROR"]

KernelResults == {"absent", "failed", "present"}

(* CreateKernels adds to m_Kernels and removes nothing from it.            *)
KeptKernel(x, kernel) ==
  IF x.kernel # "absent" /\ kernel = "absent" THEN x.kernel ELSE kernel

FinishBuild(j) ==
  /\ At(j, "finish") /\ jobs[j].op = "build"
  /\ \E kernel \in KernelResults :
       data' = [data EXCEPT ![jobs[j].data] = Executable(@, kernel)]
  /\ Finish(j)
  /\ UNCHANGED <<kind, handle, buildData, kernels, numLiveKernels, fault>>

FinishCompile(j) ==
  /\ At(j, "finish") /\ jobs[j].op = "compile"
  /\ data' = [data EXCEPT ![jobs[j].data] =
       [@ EXCEPT !.object = TRUE, !.type = "COMPILED_OBJECT", !.status = "SUCCESS"]]
  /\ Finish(j)
  /\ UNCHANGED <<kind, handle, buildData, kernels, numLiveKernels, fault>>

FinishFailed(j) ==
  /\ At(j, "failed")
  /\ data' = [data EXCEPT ![jobs[j].data] = Failed(@)]
  /\ Finish(j)
  /\ UNCHANGED <<kind, handle, buildData, kernels, numLiveKernels, fault>>

(* BuildImpl for binaries, all devices under one lock: the devices in      *)
(* broken are those whose link fails, which leaves no binary.  A device    *)
(* that finds none, from an earlier build or because a device before it    *)
(* shares the data and failed, dereferences null.                          *)
Relink(j) ==
  LET p == jobs[j].prog
      D == jobs[j].devices
      x(d) == buildData[p][d]
  IN /\ At(j, "relink")
     /\ \E broken \in SUBSET D, kernel \in [DataOf(p, D) -> KernelResults] :
          IF \E d \in D : \/ ~data[x(d)].object
                          \/ \E e \in broken : x(e) = x(d) /\ Position(e) < Position(d)
          THEN Fault("owned_binary")
          ELSE /\ data' = [y \in DOMAIN data |->
                    IF \E e \in broken : y = x(e)
                    THEN [Failed(data[y]) EXCEPT !.object = FALSE]
                    ELSE IF \E d \in D : y = x(d)
                    THEN Executable(data[y], KeptKernel(data[y], kernel[y]))
                    ELSE data[y]]
               /\ Finish(j)
               /\ UNCHANGED <<kind, handle, buildData, kernels, numLiveKernels, fault>>

-----------------------------------------------------------------------------
(* clLinkProgram.                                                          *)

(* The call makes the program p that will hold the result.                 *)
ClLinkProgram(p, inputs, async, library) ==
  /\ kind[p] = "linked" /\ handle[p] = "none"
  /\ Len(jobs) < MaxJobs
  /\ jobs' = Append(jobs, [Job("link", p, {}, 0, "validate") EXCEPT
       !.inputs = inputs, !.async = async, !.library = library])
  /\ handle' = [handle EXCEPT ![p] = "inside"]
  /\ UNCHANGED <<kind, buildData, data, kernels, numLiveKernels, fault>>

(* One turn of the two validation loops, device by device, under the lock  *)
(* of one input.  What is wrong with the first inputs of a device passes.  *)
Refused(x, valid) ==
  IF x = 0 THEN valid > 0
  ELSE \/ data[x].status = "IN_PROGRESS"
       \/ valid > 0 /\ (data[x].status = "ERROR" \/ data[x].type \in {"NONE", "EXECUTABLE"})

ValidateInput(j) ==
  LET n     == Len(jobs[j].inputs)
      pos   == jobs[j].pos
      valid == IF pos % n = 0 THEN 0 ELSE jobs[j].valid
      x     == buildData[jobs[j].inputs[1 + (pos % n)]][AssociatedDevices[1 + (pos \div n)]]
      last  == pos = n * Len(AssociatedDevices) - 1
  IN /\ At(j, "validate")
     /\ IF Refused(x, valid)
        THEN /\ Finish(j)
             /\ handle' = [handle EXCEPT ![jobs[j].prog] = "gone"]
        ELSE /\ jobs' = [jobs EXCEPT ![j] = [@ EXCEPT
                  !.pc = IF last THEN "count" ELSE "validate",
                  !.pos = IF last THEN 0 ELSE pos + 1,
                  !.valid = IF x = 0 THEN valid ELSE valid + 1]]
             /\ UNCHANGED handle
     /\ UNCHANGED <<kind, buildData, data, kernels, numLiveKernels, fault>>

(* data with a pending link of an input, device by device.                 *)
AddPendingLinks(input) ==
  [x \in DOMAIN data |-> [data[x] EXCEPT !.pendingLinks = @ +
     Cardinality({d \in Devices : buildData[input][d] = x})]]

(* One input joins LinkPrograms and its pending links are counted.  When   *)
(* its devices have different data the loop stops there.  pos counts       *)
(* LinkPrograms.                                                           *)
SameForAllDevices(p) == \A d, e \in Devices : buildData[p][d] = buildData[p][e]

CountPendingLinks(j) ==
  LET pos   == jobs[j].pos + 1
      input == jobs[j].inputs[pos]
  IN /\ At(j, "count")
     /\ IF \E d \in Devices : buildData[input][d] = 0
        THEN Fault("build_data_of_an_input")
        ELSE /\ data' = AddPendingLinks(input)
             /\ jobs' = [jobs EXCEPT ![j] = [@ EXCEPT
                  !.pos = pos, !.same = SameForAllDevices(input),
                  !.pc = IF SameForAllDevices(input) /\ pos < Len(jobs[j].inputs) THEN "count" ELSE "start"]]
             /\ UNCHANGED <<kind, handle, buildData, kernels, numLiveKernels, fault>>

(* The program gets its build data: one for all devices, unless the last   *)
(* input that was looked at had different ones.  Then the call returns or  *)
(* goes on as LinkImpl.                                                    *)
StartLink(j) ==
  LET p      == jobs[j].prog
      same   == jobs[j].same
      fresh  == IF same THEN 1 ELSE Len(AssociatedDevices)
  IN /\ At(j, "start")
     /\ data' = data \o [i \in 1 .. fresh |-> PerDeviceData]
     /\ buildData' = [buildData EXCEPT ![p] =
          [d \in Devices |-> Len(data) + (IF same THEN 1 ELSE Position(d))]]
     /\ jobs' = [jobs EXCEPT ![j] = [@ EXCEPT !.pc = "gather", !.devices = Devices,
          !.inputs = SubSeq(jobs[j].inputs, 1, jobs[j].pos), !.pos = 1]]
     /\ handle' = [handle EXCEPT ![p] = IF jobs[j].async THEN "open" ELSE @]
     /\ UNCHANGED <<kind, kernels, numLiveKernels, fault>>

(* LinkImpl, for the device at pos: the binaries of the inputs, each under *)
(* its program's lock.                                                     *)
GatherObjects(j) ==
  LET d == AssociatedDevices[jobs[j].pos]
      found == {buildData[jobs[j].inputs[i]][d] : i \in DOMAIN jobs[j].inputs} \ {0}
  IN /\ At(j, "gather")
     /\ jobs' = [jobs EXCEPT ![j] = [@ EXCEPT !.pc = "link_inputs",
          !.nullObject = \E x \in found : ~data[x].object]]
     /\ UNCHANGED <<kind, handle, buildData, data, kernels, numLiveKernels, fault>>

(* ... the link, unless a device before it shares the result ...           *)
LinkInputs(j) ==
  LET x == buildData[jobs[j].prog][AssociatedDevices[jobs[j].pos]]
      library == [data[x] EXCEPT !.object = TRUE, !.type = "LIBRARY", !.status = "SUCCESS"]
  IN /\ At(j, "link_inputs")
     /\ IF data[x].status # "IN_PROGRESS"
        THEN UNCHANGED data /\ Goto(j, "release") /\ UNCHANGED fault
        ELSE IF jobs[j].nullObject
        THEN UNCHANGED <<data, jobs>> /\ fault' = "object_of_an_input"
        ELSE /\ \/ \E kernel \in KernelResults :
                     data' = [data EXCEPT ![x] =
                       IF jobs[j].library THEN library ELSE Executable(@, kernel)]
                \/ data' = [data EXCEPT ![x] = Failed(@)]
             /\ Goto(j, "release")
             /\ UNCHANGED fault
     /\ UNCHANGED <<kind, handle, buildData, kernels, numLiveKernels>>

(* ... and the end of this device's pending links.  After the last device  *)
(* clLinkProgram returns the program, or drops it when the link failed.    *)
ReleasePendingLinks(j) ==
  LET p    == jobs[j].prog
      d    == AssociatedDevices[jobs[j].pos]
      last == jobs[j].pos = Len(AssociatedDevices)
      uses(x) == {i \in DOMAIN jobs[j].inputs : buildData[jobs[j].inputs[i]][d] = x}
      ok   == \A y \in DataOf(p, Devices) : data[y].status = "SUCCESS"
  IN /\ At(j, "release")
     /\ data' = [x \in DOMAIN data |->
          [data[x] EXCEPT !.pendingLinks = @ - Cardinality(uses(x))]]
     /\ IF last THEN Finish(j)
        ELSE jobs' = [jobs EXCEPT ![j] = [@ EXCEPT !.pc = "gather", !.pos = jobs[j].pos + 1]]
     /\ handle' = [handle EXCEPT ![p] =
          IF last /\ ~jobs[j].async THEN IF ok THEN "open" ELSE "gone" ELSE @]
     /\ UNCHANGED <<kind, buildData, kernels, numLiveKernels, fault>>

-----------------------------------------------------------------------------
(* Kernels (kernel.cpp).                                                   *)

(* Devices with an executable that has the kernel.                         *)
DevicesWithKernel(p) ==
  {d \in Devices : LET x == buildData[p][d] IN
     x # 0 /\ data[x].status = "SUCCESS" /\ data[x].type = "EXECUTABLE" /\ data[x].kernel # "absent"}

(* clCreateKernel looks the kernel up under m_Lock; what it passes to the  *)
(* constructor belongs to the PerDeviceData of the last such device.       *)
ClCreateKernel(k, p) ==
  LET D == DevicesWithKernel(p) IN
  /\ kernels[k].pc = "none" /\ handle[p] = "open"
  /\ D # {}
  /\ \A x \in DataOf(p, D) : data[x].kernel = "present"
  /\ \E d \in D :
       /\ \A e \in D : Position(e) <= Position(d)
       /\ kernels' = [kernels EXCEPT ![k] =
            [pc |-> "creating", prog |-> p, data |-> buildData[p][d], refs |-> 1]]
  /\ UNCHANGED <<kind, handle, buildData, data, jobs, numLiveKernels, fault>>

(* A generic kernel that failed to compile is noticed, unless a device     *)
(* before has one to compare its arguments with.                           *)
CompareWithNoKernel(p) ==
  /\ handle[p] = "open"
  /\ \E d, e \in DevicesWithKernel(p) :
       /\ Position(d) < Position(e)
       /\ data[buildData[p][e]].kernel = "failed"
       /\ \A f \in DevicesWithKernel(p) :
            Position(f) < Position(e) => data[buildData[p][f]].kernel = "present"
  /\ Fault("generic_kernel")

(* The end of the constructor: KernelCreated.                              *)
KernelCreated(k) ==
  /\ kernels[k].pc = "creating"
  /\ kernels' = [kernels EXCEPT ![k].pc = "live"]
  /\ numLiveKernels' = [numLiveKernels EXCEPT ![kernels[k].prog] = @ + 1]
  /\ UNCHANGED <<kind, handle, buildData, data, jobs, fault>>

(* clCloneKernel: the copy refers to what the original refers to.          *)
ClCloneKernel(k, c) ==
  /\ kernels[k].pc = "live" /\ kernels[c].pc = "none"
  /\ kernels' = [kernels EXCEPT ![c] = [kernels[k] EXCEPT !.refs = 1]]
  /\ numLiveKernels' = [numLiveKernels EXCEPT ![kernels[k].prog] = @ + 1]
  /\ UNCHANGED <<kind, handle, buildData, data, jobs, fault>>

(* A reference to the kernel goes; with the last one goes the kernel, and  *)
(* its destructor calls KernelFreed.                                       *)
DropKernel(k) ==
  LET last == kernels[k].refs = 1 IN
  /\ kernels' = [kernels EXCEPT ![k] =
       IF last THEN [NoKernel EXCEPT !.pc = "freed"] ELSE [kernels[k] EXCEPT !.refs = @ - 1]]
  /\ numLiveKernels' = [numLiveKernels EXCEPT ![kernels[k].prog] = IF last THEN @ - 1 ELSE @]

(* A reference of the application's goes: clReleaseKernel.                 *)
ClReleaseKernel(k) ==
  /\ kernels[k].pc = "live"
  /\ DropKernel(k)
  /\ UNCHANGED <<kind, handle, buildData, data, jobs, fault>>

-----------------------------------------------------------------------------
(* Specification.                                                          *)

JobStep(j) ==
  \/ ProduceObject(j) \/ ProduceNoObject(j) \/ LinkObject(j)
  \/ FinishBuild(j) \/ FinishCompile(j) \/ FinishFailed(j) \/ Relink(j)
  \/ ValidateInput(j) \/ CountPendingLinks(j) \/ StartLink(j)
  \/ GatherObjects(j) \/ LinkInputs(j) \/ ReleasePendingLinks(j)

Inputs == UNION {[1 .. n -> {p \in Programs : handle[p] = "open"}] : n \in 1 .. MaxInputs}

ProgramCall ==
  \/ \E p \in Programs, D \in SUBSET Devices : Build(p, D) \/ BuildBinary(p, D) \/ Compile(p, D)
  \/ \E p \in Programs, inputs \in Inputs, async, library \in BOOLEAN :
       ClLinkProgram(p, inputs, async, library)
  \/ \E k \in KernelObjects, p \in Programs : ClCreateKernel(k, p)
  \/ \E k, c \in KernelObjects : ClCloneKernel(k, c)
  \/ \E p \in Programs : CompareWithNoKernel(p)

ProgramStep ==
  \/ \E j \in DOMAIN jobs : JobStep(j)
  \/ \E k \in KernelObjects : KernelCreated(k)

NoFaultYet == fault = "none"

Next ==
  /\ NoFaultYet
  /\ ProgramCall \/ ProgramStep \/ \E k \in KernelObjects : ClReleaseKernel(k)

Spec == Init /\ [][Next]_programVars

(* A job runs on the application's thread or on the compile scheduler, and *)
(* goes on until it ends: each thread of the scheduler takes the next      *)
(* piece of work when it has finished one.                                 *)
Fairness ==
  \A j \in 1 .. MaxJobs : WF_programVars(NoFaultYet /\ j \in DOMAIN jobs /\ JobStep(j))

FairSpec == Spec /\ Fairness

-----------------------------------------------------------------------------
(* Properties.                                                             *)

(* The devices a job has yet to finish, once it has set their status.      *)
Pending(j) ==
  IF jobs[j].pc \in {"validate", "count", "start", "done"} THEN {}
  ELSE IF jobs[j].op # "link" THEN jobs[j].devices
  ELSE {d \in Devices : Position(d) >= jobs[j].pos + IF jobs[j].pc = "release" THEN 1 ELSE 0}

(* m_BuildStatus keeps two builds of one program apart: no device is being *)
(* built by two jobs, and what a build, compilation or link writes at its  *)
(* end is still what the program has for the device.                       *)
OneBuildAtATime ==
  /\ \A i, j \in DOMAIN jobs :
       i # j /\ jobs[i].prog = jobs[j].prog => Pending(i) \cap Pending(j) = {}
  /\ \A j \in DOMAIN jobs : jobs[j].op \in {"build", "compile"} =>
       \A d \in Pending(j) : buildData[jobs[j].prog][d] = jobs[j].data

(* What a link has counted and not yet released: its inputs by device.     *)
LinksOf(j) ==
  LET counted == jobs[j].pc \in {"count", "start"} IN
  IF jobs[j].op # "link" \/ jobs[j].pc \in {"validate", "done"} THEN {}
  ELSE {u \in (DOMAIN jobs[j].inputs) \X Devices :
         IF counted THEN u[1] <= jobs[j].pos ELSE Position(u[2]) >= jobs[j].pos}

(* All of them, and the PerDeviceData that each is counted at.             *)
CountedLinks == UNION {{j} \X LinksOf(j) : j \in DOMAIN jobs}
CountedAt(w) == buildData[jobs[w[1]].inputs[w[2][1]]][w[2][2]]

(* Pending links of a PerDeviceData: one for each link that has counted it *)
(* and not yet released it, input by input and device by device, however   *)
(* builds and other links come in between.                                 *)
PendingLinksCounted ==
  \A x \in DOMAIN data :
    data[x].pendingLinks = Cardinality({w \in CountedLinks : CountedAt(w) = x})

(* What a kernel refers to from the look-up in clCreateKernel to its end,   *)
(* the compiled kernel of a PerDeviceData, is still what its program has   *)
(* for some device, and no build is changing that.                         *)
KernelsIntact ==
  \A k \in KernelObjects : kernels[k].pc \in {"creating", "live"} =>
    \E d \in Devices :
      /\ buildData[kernels[k].prog][d] = kernels[k].data
      /\ data[kernels[k].data].status # "IN_PROGRESS"

InProgress(p, d) == buildData[p][d] # 0 /\ data[buildData[p][d]].status = "IN_PROGRESS"

(* A build, compilation or link that has begun comes to an end: no program *)
(* stays in progress for a device, which would refuse every later build    *)
(* and every link.                                                         *)
BuildsEnd ==
  \A p \in Programs, d \in Devices : InProgress(p, d) ~> (~InProgress(p, d) \/ ~NoFaultYet)
=============================================================================
