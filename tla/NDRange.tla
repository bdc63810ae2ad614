------------------------------- MODULE NDRange -------------------------------
(***************************************************************************)
(* What clEnqueueNDRangeKernel asks of the device: the arguments of a      *)
(* kernel object (kernel.cpp), the sizes of work groups the runtime        *)
(* chooses when the application does not, the task that takes a copy of    *)
(* both, and the dispatches it is recorded as, none of which may be larger *)
(* than D3D12 allows (kernel_tasks.cpp).                                   *)
(*                                                                         *)
(* A refused call changes nothing and is not a step.  A range has from one *)
(* to three dimensions, those it lacks having size one.                    *)
(***************************************************************************)
EXTENDS MemObjects

CONSTANTS
  Signatures,    \* kernels there may be: their arguments, work-group sizes, and
                 \* <<global_work_size, local_work_size or <<>>>> asked of them
  WorkOffsets,   \* global_work_offset, one for all dimensions
  SamplerSet,    \* sampler descriptions told apart
  LocalBytes,    \* sizes of local memory arguments
  Primes,        \* the factors a work group is made of
  WaveSizes,     \* <<smallest, largest>> wave of the device
  MaxDims,       \* D3D12_CS_THREAD_GROUP_MAX_X, _Y, _Z
  MaxThreads,    \* D3D12_CS_THREAD_GROUP_MAX_THREADS_PER_GROUP
  MaxGroups,     \* D3D12_CS_DISPATCH_MAX_THREAD_GROUPS_PER_DIMENSION
  UINT16_MAX, UINT_MAX,
  LocalUnit      \* 128, the largest alignment of a type in local memory

ASSUME NDRangeAssumption ==
  /\ {MaxThreads, MaxGroups, UINT16_MAX, UINT_MAX, LocalUnit} \subseteq Nat \ {0}
  /\ \A s \in Signatures : \A r \in s.ranges :
       Len(r[1]) \in 1 .. 3 /\ (r[2] # <<>> => Len(r[2]) = Len(r[1]))

VARIABLES
  kernel,   \* the kernel object: its signature and its arguments
  launch,   \* an enqueued execution of it
  executed  \* what it was recorded as

NDVars == <<kernel, launch, executed>>

NoKernel == [sig |-> "none"]
NotSet == -1
Nowhere == [range |-> "none"]

Axes == 1 .. 3
Product(p) == p[1] * p[2] * p[3]
Grid(size) == (0 .. size[1] - 1) \X (0 .. size[2] - 1) \X (0 .. size[3] - 1)

-----------------------------------------------------------------------------
(* Arguments.                                                              *)

(* The values an argument can be given: 0 is a null object or sampler.     *)
ArgValues(a) ==
  CASE a.space \in {"image", "buffer"} -> {0} \cup DOMAIN objects
    [] a.space = "sampler" -> {0} \cup SamplerSet
    [] a.space = "local"   -> LocalBytes
    [] OTHER               -> {1, 2}

(* What SetArg tests.  Flags are compared for images only.                 *)
Accepts(a, v) ==
  CASE a.space = "image" -> v # 0 =>
         /\ objects[v].type = a.type
         /\ a.writable => "READ_ONLY" \notin objects[v].flags
         /\ a.readable \/ ~a.writable => "WRITE_ONLY" \notin objects[v].flags
    [] a.space = "buffer" -> v # 0 => objects[v].type = "BUFFER"
    [] a.space = "local"  -> v # 0
    [] OTHER -> TRUE

CreateKernel(sig) ==
  /\ kernel = NoKernel
  /\ kernel' = [sig |-> sig, args |-> [i \in DOMAIN sig.args |-> NotSet]]
  /\ UNCHANGED <<objects, launch, executed>>

(* An argument may be set again while an execution is queued.              *)
SetArg(i, v) ==
  /\ Accepts(kernel.sig.args[i], v)
  /\ kernel' = [kernel EXCEPT !.args[i] = v]
  /\ UNCHANGED <<objects, launch, executed>>

AllArgsSet == \A i \in DOMAIN kernel.args : kernel.args[i] # NotSet

-----------------------------------------------------------------------------
(* The sizes of work groups.                                               *)

Required == kernel.sig.required     \* reqd_work_group_size, or <<>>

OnAxes(p) == [i \in Axes |-> IF i \in DOMAIN p THEN p[i] ELSE 1]

LocalSizes(range) ==
  OnAxes([i \in DOMAIN range[1] |->
            IF range[2] # <<>> THEN range[2][i]
            ELSE IF Required # <<>> THEN Required[i] ELSE 1])

(* Integers are cut to 32 bits.                                            *)
DispatchDimensions(range) ==
  [i \in Axes |-> (OnAxes(range[1])[i] \div LocalSizes(range)[i]) % (UINT_MAX + 1)]

(* The tests of each dimension.                                            *)
Divides(range) ==
  \A i \in DOMAIN range[1] :
    LET size == LocalSizes(range)[i] IN
    /\ range[2] # <<>> => /\ range[2][i] <= UINT16_MAX
                          /\ Required # <<>> => range[2][i] = Required[i]
    /\ range[1][i] % size = 0
    /\ size <= MaxDims[i]

(* A choice in the making: the sizes so far, and for each dimension the    *)
(* next of the primes to try, which is past their end when it is done.     *)
Ungrouped(range) ==
  [local |-> LocalSizes(range), groups |-> DispatchDimensions(range), threads |-> 1,
   next |-> [i \in Axes |-> 1]]

NoFactor == Len(Primes) + 1

(* No factor from here on is of any use for dimension d.                   *)
Hopeless(s, d, factor) ==
  \/ s.groups[d] < factor
  \/ /\ s.threads * factor > WaveSizes[2] /\ s.threads < WaveSizes[1]
     /\ s.groups[d] <= MaxGroups
  \/ s.threads * factor > MaxThreads
  \/ s.local[d] * factor > MaxDims[d]

(* The loop over factors: the first that is hopeless or divides.           *)
NextFactor(s, d) ==
  LET from == s.next[d] .. Len(Primes)
      hits == {k \in from : Hopeless(s, d, Primes[k]) \/ s.groups[d] % Primes[k] = 0}
      k == CHOOSE m \in hits : \A n \in hits : m <= n
  IN IF hits = {} \/ Hopeless(s, d, Primes[k]) THEN NoFactor ELSE k

Multiply(s, d, factor) ==
  [s EXCEPT !.local[d] = @ * factor, !.groups[d] = @ \div factor, !.threads = @ * factor]

Enough(s, d) ==
  /\ s.threads = WaveSizes[1] \/ s.threads > WaveSizes[2]
  /\ s.groups[d] <= MaxGroups

(* Rounds over the dimensions, until one makes no progress or the group is *)
(* large enough.                                                           *)
RECURSIVE Grow(_, _, _, _)
Grow(s, d, dims, progress) ==
  IF d > dims THEN IF progress THEN Grow(s, 1, dims, FALSE) ELSE s
  ELSE LET k == NextFactor(s, d)
           t == [s EXCEPT !.next[d] = k]
       IN  IF k = NoFactor THEN Grow(t, d + 1, dims, progress)
           ELSE LET grown == Multiply(t, d, Primes[k]) IN
                IF Enough(grown, d) THEN grown ELSE Grow(grown, d + 1, dims, TRUE)

(* What is left of a dimension, if a group that is still small has room.   *)
TakeRest(s, d) ==
  IF /\ s.threads < WaveSizes[1]
     /\ s.groups[d] \in 2 .. MaxThreads /\ s.groups[d] * s.threads <= MaxThreads
  THEN Multiply(s, d, s.groups[d]) ELSE s

(* The choice is made where neither kernel nor application has made one.   *)
Chooses(range) == Required = <<>> /\ range[2] = <<>>

Grown(range) == Grow(Ungrouped(range), 1, Len(range[1]), FALSE)
WorkGroups(range) ==
  IF Chooses(range) THEN FoldLeftDomain(TakeRest, Grown(range), range[1]) ELSE Ungrouped(range)

-----------------------------------------------------------------------------
(* The task.                                                               *)

(* How many dispatches n groups of a dimension take.                       *)
Iterations(n) == ((n - 1) \div MaxGroups) + 1

(* Dispatch j of so many in each dimension, the last dimension fastest.    *)
IterationAt(n, j) ==
  <<(j - 1) \div (n[2] * n[3]), ((j - 1) \div n[3]) % n[2], (j - 1) % n[3]>>

Times(groups) == [i \in Axes |-> Iterations(groups[i])]

(* The WorkProperties of each dispatch: the number of its first group.     *)
WorkProperties(groups) ==
  [j \in 1 .. Product(Times(groups)) |->
     [i \in Axes |-> IterationAt(Times(groups), j)[i] * MaxGroups]]

OffsetFits(range, offset) == \A i \in DOMAIN range[1] : offset + range[1][i] <= UINT_MAX

(* The configuration that the kernel is specialised for.                   *)
Configuration(s, offset) ==
  [local |-> s.local, offsets |-> offset # 0,
   groupOffsets |-> Product(Times(s.groups)) # 1,
   args |-> [i \in DOMAIN kernel.args |->
               IF kernel.sig.args[i].space \in {"local", "sampler"} THEN kernel.args[i] ELSE 0]]

(* The constructor of ExecuteKernel copies all of it; a range without work *)
(* gets a task that does nothing.  offset is null or the same everywhere.  *)
ClEnqueueNDRangeKernel(range, offset) ==
  LET s == WorkGroups(range) IN
  /\ launch = Nowhere
  /\ offset # NotSet => OffsetFits(range, offset)
  /\ AllArgsSet
  /\ Divides(range)
  /\ ~Chooses(range) => Product(s.local) <= MaxThreads
  /\ LET given == IF offset = NotSet THEN 0 ELSE offset IN
     launch' = [range |-> range, groups |-> s.groups,
               offset |-> [i \in Axes |-> IF i \in DOMAIN range[1] THEN given ELSE 0],
               config |-> Configuration(s, given),
               args |-> kernel.args,
               chunks |-> IF Product(s.groups) = 0 THEN <<>> ELSE WorkProperties(s.groups)]
  /\ UNCHANGED <<objects, kernel, executed>>

-----------------------------------------------------------------------------
(* Recording.                                                              *)

(* The alignment of the size of a local argument: that of the largest type *)
(* it may be an array of, which divides any size below the largest.        *)
AlignedBytes(n) == IF n < LocalUnit THEN n ELSE ((n + LocalUnit - 1) \div LocalUnit) * LocalUnit

IsLocal(i) == kernel.sig.args[i].space = "local"

(* Where the local arguments lie behind the kernel's own local memory,     *)
(* when the specialisation is loaded from the shader cache.                *)
LocalOffsets(args) ==
  [i \in {j \in DOMAIN args : IsLocal(j)} |->
     FoldLeftDomain(LAMBDA sum, j : IF j < i /\ IsLocal(j) THEN sum + AlignedBytes(args[j]) ELSE sum,
                    kernel.sig.localMemory, args)]

(* Mutant: the last iteration of a dimension gets the remainder.           *)
GroupsOfRemainder(groups, n, x) == IF x = n - 1 THEN groups % MaxGroups ELSE MaxGroups

(* The groups of the dispatch in iteration x of n for a dimension.         *)
GroupsOf(groups, n, x) == IF x = n - 1 THEN groups - MaxGroups * (n - 1) ELSE MaxGroups

DispatchSize(l, j) ==
  LET n == Times(l.groups) IN
  [i \in Axes |-> GroupsOf(l.groups[i], n[i], IterationAt(n, j)[i])]

(* External: which work items a dispatch runs.  The compiled kernel adds   *)
(* the offsets that its configuration asks for.                            *)
ItemsOf(l, j) ==
  LET group(g, i) == g[i] + IF l.config.groupOffsets THEN l.chunks[j][i] ELSE 0
  IN {[i \in Axes |-> (IF l.config.offsets THEN l.offset[i] ELSE 0)
                        + group(g, i) * l.config.local[i] + t[i]] :
        g \in Grid(DispatchSize(l, j)), t \in Grid(l.config.local)}

(* RecordImpl: a dispatch for each of the chunks, with the arguments the   *)
(* task has copied.                                                        *)
RecordDispatches ==
  /\ launch # Nowhere /\ executed = Nowhere
  /\ LET all == DOMAIN launch.chunks IN
     executed' = [args  |-> launch.args, local |-> LocalOffsets(launch.args),
                  sizes |-> {DispatchSize(launch, j) : j \in all},
                  items |-> UNION {ItemsOf(launch, j) : j \in all},
                  runs  |-> FoldLeftDomain(LAMBDA sum, j : sum + Product(DispatchSize(launch, j))
                                                             * Product(launch.config.local),
                                           0, launch.chunks)]
  /\ UNCHANGED <<objects, kernel, launch>>

LaunchCompletes ==
  /\ executed # Nowhere
  /\ launch' = Nowhere /\ executed' = Nowhere
  /\ UNCHANGED <<objects, kernel>>

NDInit == kernel = NoKernel /\ launch = Nowhere /\ executed = Nowhere

NDNext ==
  \/ \E sig \in Signatures : CreateKernel(sig)
  \/ /\ kernel # NoKernel
     /\ \E i \in DOMAIN kernel.args : \E v \in ArgValues(kernel.sig.args[i]) : SetArg(i, v)
  \/ /\ kernel # NoKernel
     /\ \E range \in kernel.sig.ranges, offset \in {NotSet} \cup WorkOffsets :
          ClEnqueueNDRangeKernel(range, offset)
  \/ RecordDispatches \/ LaunchCompletes

-----------------------------------------------------------------------------
(* The work items of the range that was asked for.                         *)
WantedItems ==
  {[i \in Axes |-> launch.offset[i] + p[i]] : p \in Grid(OnAxes(launch.range[1]))}

(* Known deviations: a range without an offset is not compared with 2^32,  *)
(* and the rest of the last dimension not with its limit.                  *)
Truncated == \E i \in DOMAIN launch.range[1] : launch.range[1][i] > UINT_MAX
RestTooDeep ==
  LET range == launch.range IN
  /\ Chooses(range)
  /\ Grown(range).groups[3] # WorkGroups(range).groups[3]
  /\ Grown(range).groups[3] * Grown(range).local[3] > MaxDims[3]

EachItemOnce == executed.items = WantedItems /\ executed.runs = Cardinality(WantedItems)

GroupsLegal ==
  /\ Product(launch.config.local) <= MaxThreads
  /\ ~RestTooDeep => \A i \in Axes : launch.config.local[i] <= MaxDims[i]
  /\ \A size \in executed.sizes, i \in Axes : size[i] \in 1 .. MaxGroups

LocalArgumentsApart ==
  \A i, j \in DOMAIN executed.local :
    i < j => executed.local[i] + executed.args[i] <= executed.local[j]

(* A recorded kernel runs each work item of its range exactly once, in     *)
(* groups and dispatches that D3D12 allows, whoever has chosen the size of *)
(* the groups and however many dispatches the range is cut into, and its   *)
(* local memory arguments do not overlap.                                  *)
RunsTheRange ==
  executed # Nowhere /\ ~Truncated => EachItemOnce /\ GroupsLegal /\ LocalArgumentsApart
=============================================================================
